SPECIFICATION Spec
CONSTANTS
    Recorder = {r1, r2}
    Event = {e1, e2}
    NoEvent = NoEvent
    Rand = {0}
    MaxTime = 2
    MaxRows = 2
    MaxAltered = 0
INVARIANT UntouchedLogVerifies

SPECIFICATION Spec
CONSTANTS
    Recorder = {r1, r2}
    Event = {e1, e2}
    NoEvent = NoEvent
    Rand = {0, 1}
    MaxTime = 2
    MaxRows = 3
    MaxAltered = 1
INVARIANTS TypeOK AncestorsRecorded FirstBadIsFirstAltered
PROPERTY BreakIsPermanent
SYMMETRY RecorderSymmetry

SPECIFICATION Spec
CONSTANTS
    Recorder = {r1}
    Event = {e1, e2}
    NoEvent = NoEvent
    Rand = {0}
    MaxTime = 2
    MaxRows = 2
    MaxAltered = 1
INVARIANT EndpointReportsBadRow

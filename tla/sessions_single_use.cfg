SPECIFICATION Spec
CONSTANTS
    Request = {r1, r2}
    MaxSessions = 3
    MaxExpired = 1
INVARIANT SingleUse

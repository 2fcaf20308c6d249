SPECIFICATION Spec
CONSTANTS
    Request = {r1, r2}
    Key = {k1}
    NoKey = NoKey
    IPs = {ip1}
    Cost = 1
    Burst = 1
    MaxTime = 2
    ExpiresAt = 1
    GraceEndsAt = 2
INVARIANTS WindowBound RevocationBars
PROPERTIES LimiterSpec RevokedKeyForever LockedPanelIsReadOnly DeletedRoleStaysDeleted
SYMMETRY AccessSymmetry

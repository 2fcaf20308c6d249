SPECIFICATION ConsoleSpec
CONSTANTS
    Request = {r1, r2}
    Call = {c1, c2}
    MaxSessions = 3
    MaxExpired = 1
INVARIANTS ConsoleTypeOK OneActivePerLogin StoreIsFresh LogoutSticks RefreshNotStuck
PROPERTIES LifeSpec RevokedGainsNothing
SYMMETRY ConsoleSymmetry

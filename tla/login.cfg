SPECIFICATION StartupSpec
CONSTANTS
    Request = {r1, r2}
    Role = {admin, owner}
    Process = {service, wizard}
    Unit = service
    MaxFailed = 2
    LockFor = 2
    MaxFaults = 1
INVARIANTS StartupTypeOK LockMatchesFailures AssignedRoleSticks OneAdminUnlessCollided
PROPERTIES PanelComesUp LockRunsOut

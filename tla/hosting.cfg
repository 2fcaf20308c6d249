SPECIFICATION Spec
CONSTANTS
    Request = {r1, r2}
    NoRow = NoRow
    Attempts = 2
    MaxRows = 2
INVARIANT RowMatchesUser
PROPERTIES DomainAnswersHold RowOutlivesUser
SYMMETRY HostingSymmetry

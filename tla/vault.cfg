SPECIFICATION Spec
CONSTANTS
    Request = {r1, r2}
    Name = {n1, n2, n3}
    NoName = NoName
    DefaultLimit = 1
    TopLimit = 2
    MaxVersion = 3
INVARIANTS TypeOK OverrunBounded VersionCountsPuts
PROPERTY AddedWithinQuota
SYMMETRY VaultSymmetry

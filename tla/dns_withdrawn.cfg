SPECIFICATION Spec
CONSTANTS
    Request = {r1}
    NoRequest = NoRequest
    NoValue = NoValue
    Type = {A, MX}
    Content = {c1}
    TemplateSize = 1
    MaxRecords = 2
INVARIANT DeletedRecordsWithdrawn
SYMMETRY DNSSymmetry

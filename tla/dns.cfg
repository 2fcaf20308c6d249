SPECIFICATION Spec
CONSTANTS
    Request = {r1, r2}
    NoRequest = NoRequest
    NoValue = NoValue
    Type = {A, MX}
    Content = {c1, c2}
    TemplateSize = 2
    MaxRecords = 3
INVARIANTS TypeOK DeletedZoneNotServed StrandedZoneHasCause NoOrphanRecords PresentTypesInSync
PROPERTY CreatedZoneIsServed
SYMMETRY DNSSymmetry

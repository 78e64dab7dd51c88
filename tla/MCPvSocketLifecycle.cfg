CONSTANTS
    Client = {c1, c2}
    PV = {p1, p2}
    Copy = {k1, k2}
    NoCallback = NoCallback
    Cap = 1
    MaxVersion = 1
SPECIFICATION MCSpec
CHECK_DEADLOCK FALSE
INVARIANTS
    TypeOK
    CapHolds
PROPERTY LastClientReleases

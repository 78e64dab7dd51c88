CONSTANTS
    one = one
    two = two
    p1 = p1
    p2 = p2
    p3 = p3
    Client = {c1, c2}
    Device = {one, two}
    PV = {p1, p2, p3}
    Pvs <- MCPvs
    Copy = {k1, k2}
    NoCallback = NoCallback
    Cap = 1
    MaxVersion = 2
SYMMETRY MCSymmetry
CONSTRAINT MCBound
SPECIFICATION Spec
CHECK_DEADLOCK FALSE
INVARIANTS
    TypeOK
    CapHolds
    RoutesAgree
    MonitorMatchesRoutes
    NoGap

CONSTANTS
    one = one
    two = two
    p1 = p1
    p2 = p2
    p3 = p3
    Client = {c1}
    Device = {one, two}
    PV = {p1}
    Pvs <- MCSharedPvs
    Copy = {k1, k2}
    NoCallback = NoCallback
    Cap = 0
    MaxVersion = 1
SPECIFICATION Spec
CHECK_DEADLOCK FALSE
INVARIANT AllPvsSubscribed

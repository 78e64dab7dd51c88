CONSTANTS
    Client = {c1, c2}
    PV = {p1}
    Copy = {k1, k2}
    NoCallback = NoCallback
    Cap = 1
    MaxVersion = 2
SYMMETRY MCSymmetry
SPECIFICATION Spec
CHECK_DEADLOCK FALSE
INVARIANT InitialUpdateReceived

CONSTANTS
    Request = {r1}
    PV = {p1}
    Callback = {k1}
    Value = {v1, v2, v3}
    Large = {v2}
    Numeric = {v1, v3}
    NonFinite = {v3}
    NoCallback = NoCallback
    NoValue = NoValue
SPECIFICATION Spec
CHECK_DEADLOCK FALSE
INVARIANT AvailableValueServed

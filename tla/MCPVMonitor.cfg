CONSTANTS
    PV = {p1}
    Callback = {c1, c2}
    Signal = {s1, s2}
    Value = {v1, v2}
    NoPV = NoPV
    NoCallback = NoCallback
    NoSignal = NoSignal
    NoValue = NoValue
    BufferSize = 2
    MaxPending = 1
SYMMETRY MCSymmetry
SPECIFICATION Spec
INVARIANTS
    TypeOK
    SubscribersHaveSignal
    CacheCoherent
    CacheConverges
    StatusConverges
    BehindOnlyIfOvertaken
    ReconnectionIsTold
PROPERTY KeepsPromise

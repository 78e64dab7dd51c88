CONSTANTS
    Client = {c1, c2}
    MaxUpdate = 2
    MaxRequest = 2
SPECIFICATION Spec
CHECK_DEADLOCK FALSE
INVARIANTS
    TypeOK
    BroadcastsInOrder
    NoLockLeftBehind
PROPERTIES
    EveryBroadcastEnds
    DeadPeerReleased

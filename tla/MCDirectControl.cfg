CONSTANTS
    s1 = s1
    s2 = s2
    p1 = p1
    p2 = p2
    d1 = d1
    Session <- MCSession
    PV <- MCPV
    Device <- MCDevice
    DeviceOf <- MCDeviceOf
    Registered <- MCRegistered
    Commands <- MCCommands
    MaxCommands <- MCMaxCommands
    Workers = 1
SPECIFICATION Spec
INVARIANTS
    TypeOK
    RefusedNeverWrites
    DoneMeansWritten
    JobsHaveOwners
    SessionOrder
PROPERTIES
    EveryCommandAnswered
    AsksFirst

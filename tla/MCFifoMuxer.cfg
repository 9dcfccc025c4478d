CONSTANTS
    Capacity = 1
    MaxPackets = 4
    MaxFaults = 2
    Failures = {"temp", "again", "perm", "exit"}
    Keys <- KeyPackets
    Configs <- AllConfigs
SPECIFICATION Spec
INVARIANTS TypeOK InOrder NoneIsLost ReferencesAreFreed RestartsWithKeyframe
PROPERTIES EveryCallReturns

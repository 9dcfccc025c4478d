CONSTANTS
    Capacity = 1
    MaxPackets = 4
    MaxFaults = 2
    Failures = {"temp"}
    Keys <- KeyPackets
    Configs <- RecoverConfigs
SPECIFICATION Spec
INVARIANTS RescaledOnce

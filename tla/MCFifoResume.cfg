CONSTANTS
    Capacity = 1
    MaxPackets = 4
    MaxFaults = 1
    Failures = {"temp"}
    Keys <- KeyPackets
    Configs <- ResumeConfigs
SPECIFICATION Spec
INVARIANTS ResumesWithKeyframe

SPECIFICATION Spec
CONSTANTS
    Capacity = 3
    IndexRange = 8
    ReadBackCapacity = 1
    ShortSeek = 2
    MaxCopy = 2
    StreamSize = 4
    ReadSizes <- MCReadSizes
    MaxFaults = 1
    None = None
INVARIANTS TypeOK ReadsStream EofIsReal SeekArrives Prefetches
PROPERTY EveryCallReturns

SPECIFICATION Spec
CONSTANTS
    MaxThreads = 3
    MaxJobs = 4
INVARIANTS TypeOK DistinctNumbers Quiet
PROPERTIES EveryCallReturns ImplementsParallelFor

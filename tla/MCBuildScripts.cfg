SPECIFICATION Spec
CONSTANTS
    MaxRuns = 3
    Faults = TRUE
    Invocations <- MCInvocations
INVARIANTS TypeOK SuccessIsComplete X264IsRebuilt
CHECK_DEADLOCK FALSE

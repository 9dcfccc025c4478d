SPECIFICATION Spec
CONSTANTS
    MaxRuns = 1
    Faults = FALSE
    Invocations <- DefaultInvocation
INVARIANT ThirdPartyIsRebuilt
CHECK_DEADLOCK FALSE

SPECIFICATION Spec
CONSTANTS
    MaxIterations = 2
    MaxLlmCalls = 4
    StuckThreshold = 2
    CompressEvery = 2
    AdjustWindow = 2
    PlanSizes <- Two
    MaxCasts = 0
INVARIANT
    DeliveredIsCompleted
CHECK_DEADLOCK FALSE

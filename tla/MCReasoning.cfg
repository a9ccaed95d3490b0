SPECIFICATION FairSpec
CONSTANTS
    MaxIterations = 2
    MaxLlmCalls = 3
    StuckThreshold = 2
    CompressEvery = 2
    AdjustWindow = 2
    PlanSizes <- Two
    MaxCasts = 2
INVARIANTS
    NeverIdle
    BudgetIsKept
    ExecutesWithinLimits
    StoppedIsRecorded
PROPERTIES
    TerminalIsFinal
    ClockEnds
CHECK_DEADLOCK FALSE

SPECIFICATION FairSpec
CONSTANTS
    r1 = r1
    r2 = r2
    NoRun = NoRun
    Runs <- TwoRuns
    Outcomes <- OneOutcome
    Cancellable <- OneRun
    MaxRestarts = 1
INVARIANTS
    RunningIsListed
PROPERTIES
    RecordContract
    CancelSettlesTheRun
    CrashIsRecorded
CHECK_DEADLOCK FALSE

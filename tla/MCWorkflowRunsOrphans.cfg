SPECIFICATION FairSpec
CONSTANTS
    r1 = r1
    r2 = r2
    NoRun = NoRun
    Runs <- OneRun
    Outcomes <- OneOutcome
    Cancellable <- OneRun
    MaxRestarts = 1
PROPERTY
    OrphansAreFailed
CHECK_DEADLOCK FALSE

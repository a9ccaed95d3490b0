SPECIFICATION BreakerFairSpec
CONSTANTS
    c1 = c1
    c2 = c2
    Callers <- TwoCallers
    MaxFailures = 2
    MaxMail = 4
    MaxCrashes = 0
    MaxEvents = 1
PROPERTY
    TestFollowsOpen
CHECK_DEADLOCK FALSE

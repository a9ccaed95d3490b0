SPECIFICATION BreakerFairSpec
CONSTANTS
    c1 = c1
    c2 = c2
    Callers <- TwoCallers
    MaxFailures = 2
    MaxMail = 4
    MaxCrashes = 1
    MaxEvents = 1
PROPERTIES
    OpensOnEvidence
    TestIsDue
    OpenEnds
CHECK_DEADLOCK FALSE

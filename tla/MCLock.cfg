SPECIFICATION FairSpec
CONSTANTS
    p1 = p1
    p2 = p2
    p3 = p3
    Nobody = Nobody
    Procs <- ThreeProcs
    MaxMail = 3
    MaxCrashes = 1
INVARIANTS
    OneInside
PROPERTIES
    DeadOwnerLosesIt
CHECK_DEADLOCK FALSE

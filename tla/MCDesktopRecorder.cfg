SPECIFICATION FairSpec
CONSTANTS
    f1 = f1
    NONE = NONE
    MaxRequests = 2
    Files <- OneFile
    Probes = 2
INVARIANTS
    CountsAddUp
    EndsClean
PROPERTIES
    RecordingIsWritten
CHECK_DEADLOCK FALSE

SPECIFICATION RecFairSpec
CONSTANTS
    f1 = f1
    NULL = NULL
    MaxActs = 2
    MaxDocs = 2
    Files <- OneFile
INVARIANTS
    HeardIsKeptOnce
PROPERTIES
    EveryDocumentIsHeard
CHECK_DEADLOCK FALSE

SPECIFICATION RecSpec
CONSTANTS
    f1 = f1
    NULL = NULL
    MaxActs = 2
    MaxDocs = 2
    Files <- OneFile
INVARIANTS
    LoginsAreSlots
CHECK_DEADLOCK FALSE

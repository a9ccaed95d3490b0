SPECIFICATION FairSpec
CONSTANTS
    f1 = f1
    f2 = f2
    NULL = NULL
    NONE = NONE
    Recipes <- TheRecipes
    Urls <- TheUrls
    Files = {f1, f2}
    Polls = 2
    Attempts = 2
INVARIANTS
    SuccessIsEarned
    DownloadsAreSaved
    AcceptedIsPlayable
PROPERTIES
    LoginStartsOnOrigin
    PlayerEnds
CHECK_DEADLOCK FALSE

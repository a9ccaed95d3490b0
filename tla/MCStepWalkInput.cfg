SPECIFICATION FairSpec
CONSTANTS
    plain = plain
    shell = shell
    loaded = loaded
    receiver = receiver
    End = End
    NoRoute = NoRoute
    NoStep = NoStep
    PositionLimit = 4
    OnError = "on_error"
    Default = "default"
    Workflows <- Ids
    Definition <- SmallWorkflows
    Branches <- AllBranches
    Skills <- AllSkills
    Privileged <- OnlyShell
    Dynamic <- OnlyLoaded
    Receiver = receiver
    Kind <- KindOf
INVARIANT
    InputFollowsPath
CHECK_DEADLOCK FALSE

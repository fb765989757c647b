SPECIFICATION FairResyncSpec
CONSTANTS
    Names = {1, 2}
    NoName = 0
    UserService = UserService
    CachedKinds <- DataPlanesCached
    Hooks = {FALSE}
    UserClasses = {"plain"}
    UserConfigs = {"empty"}
    MaxEdits = 1
    MaxFaults = 0
    Mixed = FALSE
PROPERTY PolicyFollows
CHECK_DEADLOCK FALSE

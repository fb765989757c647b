SPECIFICATION FairResyncSpec
CONSTANTS
    Names = {1, 2}
    NoName = 0
    UserService = UserService
    CachedKinds <- CachedByManager
    Hooks = {FALSE}
    UserClasses = {"ref"}
    UserConfigs = {"override"}
    MaxEdits = 0
    MaxFaults = 0
    Mixed = FALSE
PROPERTY OverridesHold
CHECK_DEADLOCK FALSE

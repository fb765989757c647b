SPECIFICATION Spec
CONSTANTS
    Names = {1, 2}
    NoName = 0
    UserService = UserService
    CachedKinds <- CachedByManager
    Hooks = {TRUE}
    UserClasses = {"ref", "foreign", "absent"}
    UserConfigs = {"absent", "empty", "invalid"}
    MaxEdits = 1
    MaxFaults = 1
    Mixed = TRUE
INVARIANTS TypeOK ReadyHasAddress ContradictionInFlight
PROPERTY DuplicatesOnlyFromStaleCache
CHECK_DEADLOCK FALSE

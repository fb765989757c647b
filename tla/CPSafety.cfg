SPECIFICATION TimelySpec
CONSTANTS
    Services = {s1}
    NoService = NoService
    Names = {1, 2, 3}
    NoName = 0
    CachedKinds <- CachedByManager
    MaxEdits = 2
    MaxFaults = 1
INVARIANTS TypeOK AtMostOneLive FinalizersHold AwaitedPodsNotReady
INVARIANTS RolesGuarded CleanupComplete
PROPERTIES BindingsFirst CreatedUnderFinalizers DuplicatesOnlyFromStaleCache
PROPERTY RolesFollowLifecycle
CHECK_DEADLOCK FALSE

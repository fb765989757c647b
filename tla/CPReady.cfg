SPECIFICATION Spec
CONSTANTS
    Services = {s1}
    NoService = NoService
    Names = {1, 2, 3}
    NoName = 0
    CachedKinds <- CachedByManager
    MaxEdits = 1
    MaxFaults = 0
INVARIANT ReadyMeansAllReady
CHECK_DEADLOCK FALSE

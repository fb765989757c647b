SPECIFICATION Spec
CONSTANTS
    Services = {s1}
    NoService = NoService
    Names = {1, 2, 3}
    NoName = 0
    CachedKinds <- CachedByManager
    MaxEdits = 1
    MaxFaults = 0
INVARIANT RolesGuarded
CHECK_DEADLOCK FALSE

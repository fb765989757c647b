SPECIFICATION FairSpec
CONSTANTS
    Services = {s1, s2}
    NoService = NoService
    Names = {1, 2, 3}
    NoName = 0
    CachedKinds <- CachedByManager
    MaxEdits = 1
    MaxFaults = 1
PROPERTIES DeletionCompletes NothingComesBack ScalesDown BecomesReady EnvFollowsService
CHECK_DEADLOCK FALSE

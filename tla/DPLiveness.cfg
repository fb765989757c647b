SPECIFICATION FairSpec
CONSTANTS
    Names = {1, 2}
    NoName = 0
    CachedKinds <- CachedByManager
    UserEnvs = {"none", "postgres", "ref"}
    UserConfigs = {"absent", "off"}
    Hooks = {FALSE}
    MaxEdits = 1
    MaxFaults = 1
PROPERTIES BecomesReady InvalidReported EnvFollowsSpec RecoversFromConfig BadReferenceReported
CHECK_DEADLOCK FALSE

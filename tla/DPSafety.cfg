SPECIFICATION Spec
CONSTANTS
    Names = {1, 2, 3}
    NoName = 0
    CachedKinds <- CachedByManager
    UserEnvs = {"none", "postgres", "ref"}
    UserConfigs = {"absent", "off"}
    Hooks = {TRUE, FALSE}
    MaxEdits = 1
    MaxFaults = 1
INVARIANTS TypeOK AtMostOneLive ReadyMeansAllReady RejectedBeforeStored
PROPERTIES ValidatedBeforeDeployed ReadyForStoredSpec
CHECK_DEADLOCK FALSE

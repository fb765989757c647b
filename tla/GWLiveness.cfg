SPECIFICATION FairSpec
CONSTANTS
    Names = {1, 2}
    NoName = 0
    UserService = UserService
    CachedKinds <- DataPlanesCached
    Hooks = {FALSE}
    UserClasses = {"ref", "foreign"}
    UserConfigs = {"custom", "invalid"}
    MaxEdits = 1
    MaxFaults = 2
    Mixed = FALSE
PROPERTIES BecomesReady RecoversFromFailures PlanesFollow InvalidNotReady
PROPERTIES AddressesFollow DuplicatesReported NothingComesBack
CHECK_DEADLOCK FALSE

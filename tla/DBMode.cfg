SPECIFICATION Spec
CONSTANTS
    EnvVars <- AllEnvVars
    Sources <- AllSources
    MaxEnv = 2
    MaxEnvFrom = 2
INVARIANTS LastEnvVarDecides LastSourceDecides
CHECK_DEADLOCK FALSE

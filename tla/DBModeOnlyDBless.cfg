SPECIFICATION Spec
CONSTANTS
    EnvVars = {}
    Sources <- ConfigMapSources
    MaxEnv = 0
    MaxEnvFrom = 2
INVARIANTS OnlyDBless
CHECK_DEADLOCK FALSE

SPECIFICATION Spec
CONSTANTS
    Settings <- SideBySide
    Checkpoints = 2
    Frequency = 2
    FirstLcl = 1
    Retries = 1
    MaxFailures = 2
INVARIANTS NoFault CommandsAccounted AppliedInOrder
PROPERTIES WorksEnd ShutdownCompletes
CHECK_DEADLOCK FALSE

SPECIFICATION Spec
CONSTANTS
    Settings <- Throwing
    Checkpoints = 2
    Frequency = 2
    FirstLcl = 1
    Retries = 1
    MaxFailures = 2
INVARIANTS NoFault
CHECK_DEADLOCK FALSE

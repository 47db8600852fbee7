SPECIFICATION Spec
CONSTANTS
    NumLevels = 3
    Frequency = 4
    UpgradeLedger = 5
    Quiet <- QuietPair
    MaxLedger = 8
    MaxTroubles = 1
    MaxResets = 1
INVARIANTS
    NoFault
    HistoryExact
PROPERTIES
    CheckpointsPublished
CHECK_DEADLOCK FALSE

SPECIFICATION Spec
CONSTANTS
    n1 = n1
    n2 = n2
    n3 = n3
    Node = {n1, n2}
    Value = {1, 2}
    UINT32_MAX = 4
    QSets <- TwoOfAll
    QSetOf <- SameQSet
    Composites <- CoreChanging
    Hears <- HearsCore
    Validity <- AllValid
    MaxBallotCounter <- OneTimeout
    MaxRestarts = 1
PROPERTIES TimeoutAdvances
CHECK_DEADLOCK FALSE

SPECIFICATION Spec
CONSTANTS
    n1 = n1
    n2 = n2
    n3 = n3
    Node = {n1, n2, n3}
    Value = {1, 2}
    UINT32_MAX = 6
    QSets <- TwoOfAll
    QSetOf <- SameQSet
    Composites <- CoreChanging
    Hears <- HearsCore
    Validity <- AllValid
    MaxBallotCounter <- TwoTimeouts
    MaxRestarts = 0
SYMMETRY SwapCore
INVARIANTS NoFault
CHECK_DEADLOCK FALSE

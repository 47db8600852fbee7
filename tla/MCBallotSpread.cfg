SPECIFICATION FairSpec
CONSTANTS
    n1 = n1
    n2 = n2
    n3 = n3
    Node = {n1, n2, n3}
    Value = {1, 2}
    UINT32_MAX = 3
    QSets <- TwoOfAll
    QSetOf <- SameQSet
    Composites <- CoreAlike
    Hears <- HearsCore
    Validity <- LeafDoubts
    MaxBallotCounter <- LeafTimeout
    MaxRestarts = 1
INVARIANTS SentValidated
PROPERTIES ExternalizeSpreads UnanimityDecides
CHECK_DEADLOCK FALSE

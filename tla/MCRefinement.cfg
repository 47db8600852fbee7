SPECIFICATION HSpec
CONSTANTS
    n1 = n1
    n2 = n2
    n3 = n3
    Node = {n1, n2, n3}
    Value = {1, 2}
    UINT32_MAX = 3
    QSets <- TwoOfAll
    QSetOf <- SameQSet
    Composites <- ChainComposites
    Hears <- HearsChain
    Validity <- AllValid
    MaxBallotCounter <- ChainOneTimeout
    MaxRestarts = 1
INVARIANTS NoFault CommitAgreement CommitVotesKept TimerJustified
PROPERTIES EmitsNewer HeardStays ImplementsFederated
CHECK_DEADLOCK FALSE

SPECIFICATION HeardSpec
CONSTANTS
    n1 = n1
    n2 = n2
    n3 = n3
    n4 = n4
    n5 = n5
    Node = {n1, n2, n3, n4, n5}
    Honest = {n1, n2, n3}
    Value = {1, 2}
    UINT32_MAX = 1
    QSets <- NestedQSets
    QSetOf <- MixedQSetOf
    Slices <- SlicesOf
SYMMETRY SwapHonest
INVARIANTS IInv Agreement QuorumIsGreatestFixpoint VBlockingMeetsSlices
PROPERTIES QuorumStays
CHECK_DEADLOCK FALSE

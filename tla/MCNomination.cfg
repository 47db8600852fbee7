SPECIFICATION FairSpec
CONSTANTS
    n1 = n1
    n2 = n2
    n3 = n3
    NoValue = NoValue
    Node = {n1, n2, n3}
    Value = {1, 2, 3}
    QSets <- TwoOfAll
    QSetOf <- SameQSet
    NodeOrder <- InOrder
    Proposal <- SomeProposals
    Valid <- SomeInvalid
    Extracted <- Variations
    Priority <- SplitLeaders
    ValueHash <- Hashes
    MayStop = {n1}
    MaxRounds = 2
    MayRestart = {n2}
    MaxRestarts = 1
INVARIANTS NoFault VotesValid CompositeCurrent
PROPERTIES CandidatesSpread CandidateFound
CHECK_DEADLOCK FALSE

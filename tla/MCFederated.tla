---------------------------- MODULE MCFederated ----------------------------
(* Abstract federated voting of three honest nodes, with a nested quorum   *)
(* set and two ill-behaved nodes, and what a node that joins late makes of *)
(* it: the statements about the lowest ballot reach it in any order, and   *)
(* isQuorum judges them by every quorum set of the table.                  *)
EXTENDS FederatedBallotProofs, QuorumEvaluation, TLC

CONSTANTS n1, n2, n3, n4, n5

NestedQSets ==
    <<[threshold |-> 2, validators |-> {n1, n2, n3}, innerSets |-> {}],
      [threshold |-> 1, validators |-> {n4, n5}, innerSets |-> {}],
      [threshold |-> 2, validators |-> {}, innerSets |-> {1, 2}],
      [threshold |-> 3, validators |-> {n1, n2, n3}, innerSets |-> {2}],
      [threshold |-> 3, validators |-> {n4, n5}, innerSets |-> {1}],
      [threshold |-> 4, validators |-> Node, innerSets |-> {}]>>

MixedQSetOf ==
    [n \in Node |-> CASE n = n4 -> 5 [] n = n5 -> 6 [] OTHER -> 4]

(* The smallest slices of the honest nodes: all three of them, or two and  *)
(* one of the others.                                                      *)
SlicesOf ==
    [n \in Node |-> {Honest} \cup {(Honest \ {m}) \cup {k} : m \in Honest, k \in Node \ Honest}]

Smallest(slices) == {S \in slices : \A m \in S : S \ {m} \notin slices}
ASSUME SlicesOfQSets ==
    \A n \in Honest :
        SlicesOf[n] = Smallest({S \in SUBSET Node : isQuorumSlice(QSetOf[n], S)})

SwapHonest == Permutations(Honest)

Lowest == MakeBallot(1, 1)

(* Once they have decided, a node that joins late hears of it: older       *)
(* statements and EXTERNALIZEs come in any order, and an ill-behaved node  *)
(* says what it likes.                                                     *)
Hears(m) ==
    /\ \A n \in Honest : externalized[n] # {}
    /\ m \in Honest => Lowest \in votedPrepare[m] \cup acceptedPrepare[m]
    /\ Passes(m) \/ Externalizes(m)

HeardInit == Init /\ FilterInit
HeardNext ==
    \/ pNodes = {} /\ Next /\ UNCHANGED filterVars
    \/ (\E m \in Node : Hears(m)) /\ UNCHANGED vars
HeardSpec == HeardInit /\ [][HeardNext]_<<vars, filterVars>>
=============================================================================

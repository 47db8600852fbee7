---------------------------- MODULE MCNomination ----------------------------
(* Three nodes, any two of which are a quorum. *)
EXTENDS NominationProtocol

CONSTANTS n1, n2, n3

TwoOfAll == <<[threshold |-> 2, validators |-> Node, innerSets |-> {}]>>
SameQSet == [n \in Node |-> 1]
InOrder == <<n1, n2, n3>>

(* In round 1 the nodes n1 and n2 take n1 for the leader and n3 itself; in *)
(* round 2 all take n2.                                                    *)
SplitLeaders ==
    [r \in Round |-> [n \in Node |-> [m \in Node |->
        CASE r = 1 -> (IF n = n3 THEN (IF m = n3 THEN 2 ELSE 0)
                                 ELSE (IF m = n1 THEN 2 ELSE 1))
          [] r > 1 -> (IF m = n2 THEN 2 ELSE 0)]]]

Hashes == [r \in Round |-> [v \in Value |-> IF r = 1 THEN v ELSE 9 - v]]

(* n2 does not validate 3 and turns it into 2; n3 does not validate 1 and  *)
(* has no variation of it.                                                 *)
SomeInvalid == [n \in Node |-> CASE n = n1 -> {1, 2, 3} [] n = n2 -> {1, 2} [] n = n3 -> {2, 3}]
SomeProposals == [n \in Node |-> CASE n = n1 -> 1 [] n = n2 -> 2 [] n = n3 -> 3]
Variations == [n \in Node |-> [v \in Value |-> IF n = n2 /\ v = 3 THEN 2 ELSE NoValue]]
=============================================================================

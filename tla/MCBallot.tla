------------------------------ MODULE MCBallot ------------------------------
(* Two or three nodes, any two of which are a quorum. *)
EXTENDS BallotProtocol, TLC

CONSTANTS n1, n2, n3

TwoOfAll == <<[threshold |-> 2, validators |-> Node, innerSets |-> {}]>>
SameQSet == [n \in Node |-> 1]
AllValid == [n \in Node |-> [x \in Value |-> "fullyValidated"]]

(* The chain: n2 hears the other two, which hear only n2.  Two quorums,    *)
(* n1 n2 and n2 n3, pull n2 towards different values.                      *)
HearsChain == [n \in Node |-> IF n = n2 THEN {n1, n3} ELSE {n2}]
ChainComposites ==
    [n \in Node |-> CASE n = n1 -> <<1>> [] n = n2 -> <<1, 2>> [] n = n3 -> <<2>>]
ChainOneTimeout == [n \in Node |-> IF n = n2 THEN 2 ELSE 1]

(* The core and its leaf: n1 and n2 hear each other, n3 hears both and     *)
(* does not nominate.  The core nominates 1 and sees a better composite,   *)
(* 2, later.                                                               *)
HearsCore == [n \in Node |-> {n1, n2} \ {n}]
CoreChanging == [n \in Node |-> IF n = n3 THEN <<>> ELSE <<1, 2>>]
CoreAlike == [n \in Node |-> IF n = n3 THEN <<>> ELSE <<1>>]
CoreTimeouts(k) == [n \in Node |-> IF n = n3 THEN 1 ELSE k]
LeafTimeout == [n \in Node |-> IF n = n3 THEN 2 ELSE 1]
OneTimeout == CoreTimeouts(2)
TwoTimeouts == CoreTimeouts(3)

(* The leaf cannot fully validate the value of the core. *)
LeafDoubts ==
    [n \in Node |-> [x \in Value |->
        IF n = n3 THEN "maybeValid" ELSE "fullyValidated"]]

SwapCore == Permutations({n1, n2})
=============================================================================

-------------------------- MODULE BallotRefinement --------------------------
(***************************************************************************)
(* BallotProtocol implements FederatedBallot.  The history variables       *)
(* collect what the statements that a node recorded for itself voted for   *)
(* and accepted.  Every node runs the code: it may stop, restart and be    *)
(* slow, and its messages may be lost.                                     *)
(***************************************************************************)
EXTENDS BallotProtocol

(* A node that met a value it cannot validate goes on deciding but no      *)
(* longer sends, and a restart takes it back to what it has sent.  What it *)
(* said to itself in between is forgotten, so that it may contradict it:   *)
(* such a node counts as ill-behaved, unless no process restarts.          *)
Honest == {n \in Node : MaxRestarts = 0 \/ \A x \in Value : Validity[n][x] # "maybeValid"}

Slices == [n \in Node |-> {S \in SUBSET Node : isQuorumSlice(QSetOf[n], S)}]

VARIABLES
    votedPrepare, acceptedPrepare, votedCommit, acceptedCommit, externalized

history == <<votedPrepare, acceptedPrepare, votedCommit, acceptedCommit, externalized>>

Federated == INSTANCE FederatedBallot WITH Honest <- Honest, Slices <- Slices

(* The quorum sets are configured so that the network cannot be split. *)
ASSUME IntersectionAssumption ==
    /\ \A n, m \in Honest : \A U \in Federated!QuorumFor(n) : \A V \in Federated!QuorumFor(m) :
          U \cap V \cap Honest # {}
    /\ \A n \in Honest : \A B \in Federated!BlockingFor(n) : B \cap Honest # {}

(* What a statement votes for and accepts. *)
VotedPrepare(st) == {b \in Federated!RealBallot : votesPrepare(b, st)}
AcceptedPrepare(st) == {b \in Federated!RealBallot : hasPreparedBallot(b, st)}
VotedCommit(st) ==
    {b \in Federated!RealBallot : st.type = "PREPARE" /\ votesCommit(b.x, b.n, b.n, st)}
AcceptedCommit(st) == {b \in Federated!RealBallot : commitPredicate(b.x, b.n, b.n, st)}
ExternalizedValue(st) == IF st.type = "EXTERNALIZE" THEN {st.b.x} ELSE {}

HInit == Init /\ Federated!Init

HNext ==
    /\ Next
    /\ votedPrepare' = [n \in Honest |-> votedPrepare[n] \cup VotedPrepare(node'[n].M[n])]
    /\ acceptedPrepare' =
          [n \in Honest |-> acceptedPrepare[n] \cup AcceptedPrepare(node'[n].M[n])]
    /\ votedCommit' = [n \in Honest |-> votedCommit[n] \cup VotedCommit(node'[n].M[n])]
    /\ acceptedCommit' =
          [n \in Honest |-> acceptedCommit[n] \cup AcceptedCommit(node'[n].M[n])]
    /\ externalized' =
          [n \in Honest |-> externalized[n] \cup ExternalizedValue(node'[n].M[n])]

HSpec == HInit /\ [][HNext]_<<vars, history>>

(* Every step of the ballot protocol is a step of federated voting or      *)
(* changes nothing that was said.                                          *)
ImplementsFederated == Federated!Spec
=============================================================================

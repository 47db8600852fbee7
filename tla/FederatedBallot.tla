-------------------------- MODULE FederatedBallot --------------------------
(***************************************************************************)
(* What the ballot protocol promises, in terms of federated voting alone.  *)
(* It keeps, for every well-behaved node, everything the node has ever     *)
(* said: the ballots it voted and accepted to prepare, voted and accepted  *)
(* to commit, and the values it externalized.  Statements, counters of the *)
(* current ballot, timers and messages are gone: a step may rely on        *)
(* anything a well-behaved node ever said, and the ill-behaved nodes say   *)
(* whatever helps, to each node something else.                            *)
(*                                                                         *)
(* The rules are those of attemptAcceptPrepared, attemptConfirmPrepared,   *)
(* attemptAcceptCommit and attemptConfirmCommit of                         *)
(* src/src/scp/BallotProtocol.cpp and of federatedAccept and               *)
(* federatedRatify of src/src/scp/Slot.cpp.                                *)
(***************************************************************************)
EXTENDS Nodes, Ballots

CONSTANTS
    Honest,   \* the nodes that run the protocol
    Slices    \* Slices[n]: the sets of nodes that satisfy the quorum set of n

(* U convinces n: it contains a slice of n, and one of each of its honest  *)
(* members.  An ill-behaved member may have sent any quorum set.           *)
QuorumFor(n) ==
    {U \in SUBSET Node : /\ \E S \in Slices[n] : S \subseteq U
                         /\ \A m \in U \cap Honest : \E S \in Slices[m] : S \subseteq U}

BlockingFor(n) ==
    {B \in SUBSET Node : \A S \in Slices[n] : S \cap B # {}}

(* The network is configured so that honest nodes cannot be split: two     *)
(* quorums share an honest node, and the ill-behaved nodes alone block     *)
(* nobody.                                                                 *)
ASSUME NetworkAssumption ==
    /\ Honest \subseteq Node
    /\ Slices \in [Node -> SUBSET SUBSET Node]
    /\ \A n, m \in Honest : \A U \in QuorumFor(n) : \A V \in QuorumFor(m) :
          U \cap V \cap Honest # {}
    /\ \A n \in Honest : \A B \in BlockingFor(n) : B \cap Honest # {}

VARIABLES
    votedPrepare, acceptedPrepare, votedCommit, acceptedCommit, externalized

vars == <<votedPrepare, acceptedPrepare, votedCommit, acceptedCommit, externalized>>

RealBallot == [n : 1..UINT32_MAX, x : Value]

(* Preparing a ballot prepares the lower compatible ones. *)
Down(b) == {b1 \in RealBallot : areBallotsLessAndCompatible(b1, b)}
OfValue(x) == {b \in RealBallot : b.x = x}
(* A commit interval, and the interval an EXTERNALIZE stands for. *)
Interval(c, h) == {b \in OfValue(c.x) : c.n <= b.n /\ b.n <= h.n}
From(c) == {b \in OfValue(c.x) : c.n <= b.n}

Aborts(b2, b1) == areBallotsLessAndIncompatible(b1, b2)

Init ==
    /\ votedPrepare = [n \in Honest |-> {}]
    /\ acceptedPrepare = [n \in Honest |-> {}]
    /\ votedCommit = [n \in Honest |-> {}]
    /\ acceptedCommit = [n \in Honest |-> {}]
    /\ externalized = [n \in Honest |-> {}]

Add(f, n, S) == [f EXCEPT ![n] = @ \cup S]

(* federatedAccept and federatedRatify for node n; voted and accepted are  *)
(* sets of honest nodes.  A node that has externalized sends the singleton *)
(* quorum set, so that one such node among those that accepted may stand   *)
(* for a quorum.                                                           *)
Settled(accepted) == \E m \in accepted : externalized[m] # {}

FederatedAccept(n, voted, accepted) ==
    \/ \E B \in BlockingFor(n) : B \cap Honest \subseteq accepted
    \/ \E U \in QuorumFor(n) : U \cap Honest \subseteq voted \cup accepted
    \/ Settled(accepted)

FederatedRatify(n, accepted) ==
    \/ \E U \in QuorumFor(n) : U \cap Honest \subseteq accepted
    \/ Settled(accepted)

Prepared(b) == {m \in Honest : b \in acceptedPrepare[m]}
Committed(c, h) == {m \in Honest : Interval(c, h) \subseteq acceptedCommit[m]}

(* Having accepted to commit (k, x), a node votes to commit every (j, x),  *)
(* j >= k.                                                                 *)
VotesCommit(c, h) ==
    {m \in Honest : \/ Interval(c, h) \subseteq votedCommit[m]
                    \/ \E b \in acceptedCommit[m] : areBallotsLessAndCompatible(b, c)}

(* Slip: a vote to prepare is always allowed. *)
AlwaysVotePrepare(n, b) == TRUE

(* A vote to prepare b may not abort a ballot the node has voted to commit *)
(* unless it has accepted that this ballot is aborted.                     *)
MayVotePrepare(n, b) ==
    \A b1 \in votedCommit[n] :
        Aborts(b, b1) => \E b2 \in acceptedPrepare[n] : Aborts(b2, b1)

VotePrepare(n, b) ==
    /\ MayVotePrepare(n, b)
    /\ votedPrepare' = Add(votedPrepare, n, Down(b))
    /\ UNCHANGED <<acceptedPrepare, votedCommit, acceptedCommit, externalized>>

AcceptPrepare(n, b) ==
    /\ acceptedPrepare' = Add(acceptedPrepare, n, Down(b))
    /\ UNCHANGED <<votedPrepare, votedCommit, acceptedCommit, externalized>>
    /\ FederatedAccept(n, {m \in Honest : b \in votedPrepare[m]}, Prepared(b))

(* Slip: the votes to prepare that abort the commit are ignored. *)
ConfirmPrepareUnchecked(n, c, h) ==
    /\ areBallotsLessAndCompatible(c, h)
    /\ FederatedRatify(n, Prepared(h))
    /\ votedCommit' = Add(votedCommit, n, Interval(c, h))
    /\ UNCHANGED <<votedPrepare, acceptedPrepare, acceptedCommit, externalized>>

(* h is confirmed prepared: vote to commit c..h, none of which the node    *)
(* has voted to abort, and to prepare h.                                   *)
ConfirmPrepare(n, c, h) ==
    /\ areBallotsLessAndCompatible(c, h)
    /\ \A b \in votedPrepare[n] : ~Aborts(b, c)
    /\ MayVotePrepare(n, h)
    /\ votedCommit' = Add(votedCommit, n, Interval(c, h))
    /\ votedPrepare' = Add(votedPrepare, n, Down(h))
    /\ UNCHANGED <<acceptedPrepare, acceptedCommit, externalized>>
    /\ FederatedRatify(n, Prepared(h))

(* A CONFIRM statement gives only the counter of p, the highest ballot the *)
(* node has accepted as prepared, and says it of the value it commits.     *)
AcceptCommit(n, c, h, p) ==
    /\ areBallotsLessAndCompatible(c, h)
    /\ acceptedCommit' = Add(acceptedCommit, n, Interval(c, h))
    /\ votedPrepare' = Add(votedPrepare, n, OfValue(c.x))
    /\ acceptedPrepare' = Add(acceptedPrepare, n, Down(MakeBallot(p.n, c.x)))
    /\ UNCHANGED <<votedCommit, externalized>>
    /\ FederatedAccept(n, VotesCommit(c, h), Committed(c, h))

ConfirmCommit(n, c, h) ==
    /\ areBallotsLessAndCompatible(c, h)
    /\ \E b \in acceptedCommit[n] : areBallotsCompatible(b, c)
    /\ acceptedCommit' = Add(acceptedCommit, n, From(c))
    /\ acceptedPrepare' = Add(acceptedPrepare, n, OfValue(c.x))
    /\ externalized' = Add(externalized, n, {c.x})
    /\ UNCHANGED <<votedPrepare, votedCommit>>
    /\ FederatedRatify(n, Committed(c, h))

Next ==
    \E n \in Honest : \E b \in RealBallot :
        \/ VotePrepare(n, b)
        \/ AcceptPrepare(n, b)
        \/ \E h \in RealBallot : \/ ConfirmPrepare(n, b, h)
                                 \/ \E p \in acceptedPrepare[n] : AcceptCommit(n, b, h, p)
                                 \/ ConfirmCommit(n, b, h)

Spec == Init /\ [][Next]_vars

-----------------------------------------------------------------------------
TypeOK ==
    /\ votedPrepare \in [Honest -> SUBSET RealBallot]
    /\ acceptedPrepare \in [Honest -> SUBSET RealBallot]
    /\ votedCommit \in [Honest -> SUBSET RealBallot]
    /\ acceptedCommit \in [Honest -> SUBSET RealBallot]
    /\ externalized \in [Honest -> SUBSET Value]

(* Agreement: no two honest nodes externalize different values for a slot, *)
(* which is what setConfirmCommit's valueExternalized relies on.           *)
Agreement ==
    \A n, m \in Honest : \A x \in externalized[n], y \in externalized[m] : x = y
=============================================================================

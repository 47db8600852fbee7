----------------------- MODULE BallotRefinementProofs -----------------------
(***************************************************************************)
(* BallotProtocol implements FederatedBallot, hence inherits its agreement, *)
(* for every network that satisfies IntersectionAssumption, every set of   *)
(* values and every bound on the counters.                                 *)
(***************************************************************************)
EXTENDS BallotMoveProofs, BallotProofs

(* Zenon proves what names no other prover. *)
USE Zenon

-----------------------------------------------------------------------------
(* The network. *)

(* The inductive invariant: that of BallotProtocol, and each honest node   *)
(* has said all that it sent and all that it has on record for itself, and *)
(* stands by its latest statement.                                         *)
RInv ==
    /\ IInv /\ Federated!TypeOK
    /\ \A m \in Honest :
          /\ \A st \in sent[m] \cup {node[m].M[m]} : InHistory(m, st)
          /\ Standing(votedPrepare[m], acceptedPrepare[m], votedCommit[m], node[m].M[m])

LEMMA AllRecorded ==
    ASSUME RInv, NEW n \in Node
    PROVE  Recorded(node[n].M)
<1>1. NodeInv(n, node[n], sent[n]) /\ node[n] \in NodeState
  BY DEF RInv, IInv, NodeInv
<1>2. node[n].M \in [Node -> Statement] /\ \A m \in Node : WellFormed(node[n].M[m])
  BY <1>1, NodeParts DEF NodeInv, Sound
<1>3. ASSUME NEW m \in Honest PROVE InHistory(m, node[n].M[m])
  <2>1. m = n \/ node[n].M[m] \in sent[m] \cup {NoStatement}
    BY HonestNodes DEF RInv, IInv
  <2> QED BY <2>1, NothingInHistory DEF RInv
<1> QED BY <1>2, <1>3 DEF Recorded

LEMMA QuietExplained ==
    ASSUME Federated!TypeOK, NEW n \in Honest, NEW st, InHistory(n, st),
           Standing(votedPrepare[n], acceptedPrepare[n], votedCommit[n], st)
    PROVE  Explained(n, st)
<1>1. Tells(n, st) => UNCHANGED history
  BY SaysNothingNew
<1>2. /\ votedPrepare[n] \cup VotedPrepare(st) = votedPrepare[n]
      /\ acceptedPrepare[n] \cup AcceptedPrepare(st) = acceptedPrepare[n]
      /\ votedCommit[n] \cup VotedCommit(st) = votedCommit[n]
  BY DEF InHistory
<1> QED BY <1>1, <1>2 DEF Explained

LEMMA ToldExplained ==
    ASSUME RInv, NEW n \in Honest, NEW r \in NodeState, Told(n, node[n], r)
    PROVE  Explained(n, r.M[n])
<1>1. /\ n \in Node /\ Recorded(node[n].M) /\ Federated!TypeOK
      /\ node[n].M \in [Node -> Statement]
      /\ Standing(votedPrepare[n], acceptedPrepare[n], votedCommit[n], node[n].M[n])
      /\ InHistory(n, node[n].M[n])
  BY HonestNodes, AllRecorded DEF RInv, Recorded
<1> USE <1>1
<1> DEFINE s == node[n]
<1> HIDE DEF s
<1>2. CASE r.M[n] = node[n].M[n]
  BY <1>2, QuietExplained
<1>3. CASE Spoke(n, node[n], r)
  <2>1. /\ Spoke(n, s, r) /\ Recorded(s.M)
        /\ Standing(votedPrepare[n], acceptedPrepare[n], votedCommit[n], s.M[n])
    BY <1>3 DEF s
  <2> QED BY <2>1, SpeakStep
<1>4. ASSUME NEW m \in Node \ {n}, NEW st \in sent[m], r.M = [node[n].M EXCEPT ![m] = st]
      PROVE  r.M[n] = node[n].M[n]
  BY <1>4
<1> QED BY <1>2, <1>3, <1>4 DEF Told

(* A restarted node that trusts its values has sent all it said. *)
LEMMA RestartExplained ==
    ASSUME RInv, NEW n \in Honest, Restart(n), NEW r, r = setStateFromEnvelope(n, node[n].emit)
    PROVE  Explained(n, r.M[n])
<1> DEFINE s == node[n]
<1>1. n \in Node /\ NodeInv(n, s, sent[n]) /\ AtRest(s, sent[n])
      /\ InHistory(n, s.M[n]) /\ Federated!TypeOK
      /\ Standing(votedPrepare[n], acceptedPrepare[n], votedCommit[n], s.M[n])
  BY HonestNodes DEF RInv, IInv
<1> USE <1>1
<1>2. s.fault = "none" /\ s.stack = <<>>
  BY DEF Restart, Ready, Idle
<1>3. NeverDoubts(n)
  <2>1. MaxRestarts # 0
    BY SMT, ProtocolAssumption DEF Restart, RInv, IInv, TypeOK
  <2> QED BY <2>1 DEF Honest, NeverDoubts
<1>4. s.emit = s.last
  BY <1>2, <1>3 DEF AtRest, NodeInv
<1>5. r.M[n] = s.emit
  BY SMT, RestoredInv
<1> HIDE DEF s
<1>6. /\ s \in NodeState /\ Own(n, s) /\ WellFormed(s.M[n])
      /\ s.last = IF s.b # NoBallot THEN s.M[n] ELSE NoStatement
  BY DEF NodeInv, Own, Sound
<1> USE <1>6
<1>7. CASE s.b # NoBallot
  BY <1>4, <1>5, <1>7, QuietExplained
<1>8. CASE s.b = NoBallot
  <2> USE <1>8
  <2>1. r.M[n] = NoStatement
    BY <1>4, <1>5
  <2>2. s.M[n].type \in {"NONE", "PREPARE"} /\ s.M[n].b = NoBallot /\ s.M[n].nC = 0
    <3>1. CASE s.M[n] = NoStatement
      BY SMT, <3>1 DEF NoStatement
    <3>2. CASE s.M[n] = createStatement(s) /\ checkInvariants(s)
      <4> USE <3>2
      <4>1. s.phase = "PREPARE"
        BY DEF checkInvariants
      <4>2. s.M[n].type = "PREPARE" /\ s.M[n].b = NoBallot
        BY <4>1, CreatedStatement DEF Says
      <4> QED BY <4>2 DEF WellFormed
    <3> QED BY <3>1, <3>2 DEF Own
  <2>3. NoStatement.type = "NONE" /\ NoStatement.b = NoBallot /\ NoStatement.nC = 0
    BY DEF NoStatement
  <2>4. Standing(votedPrepare[n], acceptedPrepare[n], votedCommit[n], NoStatement)
    BY <2>2, <2>3 DEF Standing
  <2> QED BY <2>1, <2>4, NothingInHistory, QuietExplained
<1> QED BY <1>7, <1>8

LEMMA OneMoves ==
    ASSUME RInv, Next
    PROVE  \E n \in Node : \E r \in NodeState :
              /\ node' = [node EXCEPT ![n] = r]
              /\ \A m \in Node : sent'[m] \subseteq sent[m] \cup {node'[m].M[m]}
              /\ n \in Honest => Explained(n, r.M[n])
<1>1. IInv /\ node \in [Node -> NodeState] /\ sent \in [Node -> SUBSET Statement]
  BY DEF RInv, IInv, TypeOK
<1> USE <1>1
<1>2. ASSUME NEW n \in Node, Moves(n)
      PROVE  \E r \in NodeState :
                /\ node' = [node EXCEPT ![n] = r]
                /\ \A m \in Node : sent'[m] \subseteq sent[m] \cup {node'[m].M[m]}
                /\ n \in Honest => Explained(n, r.M[n])
  <2>1. PICK r \in NodeState, S \in SUBSET Statement :
           /\ node' = [node EXCEPT ![n] = r] /\ sent' = [sent EXCEPT ![n] = S]
           /\ Told(n, node[n], r) /\ S \subseteq sent[n] \cup {r.M[n]}
    BY <1>2 DEF Moves
  <2> USE <2>1
  <2>2. node'[n] = r
    OBVIOUS
  <2>3. \A m \in Node : sent'[m] \subseteq sent[m] \cup {node'[m].M[m]}
    BY <2>2
  <2>4. n \in Honest => Explained(n, r.M[n])
    BY ToldExplained
  <2> QED BY <2>3, <2>4
<1>3. ASSUME NEW n \in Node, Restart(n)
      PROVE  \E r \in NodeState :
                /\ node' = [node EXCEPT ![n] = r]
                /\ \A m \in Node : sent'[m] \subseteq sent[m] \cup {node'[m].M[m]}
                /\ n \in Honest => Explained(n, r.M[n])
  <2> USE <1>3
  <2> DEFINE r == setStateFromEnvelope(n, node[n].emit)
  <2>1. node' = [node EXCEPT ![n] = r] /\ sent' = sent
    BY DEF Restart
  <2>2. r \in NodeState
    BY SMT, RestoredInv DEF IInv, NodeInv
  <2>3. n \in Honest => Explained(n, r.M[n])
    BY RestartExplained
  <2> HIDE DEF r
  <2> QED BY <2>1, <2>2, <2>3
<1> QED BY <1>2, <1>3, NextMoves

(* Only what the node that moves says is added to the history. *)
LEMMA HistoryAdds ==
    ASSUME RInv, HNext, NEW n \in Node, NEW r \in NodeState, node' = [node EXCEPT ![n] = r]
    PROVE  /\ n \in Honest => Tells(n, r.M[n])
           /\ n \notin Honest => UNCHANGED history
<1>1. node \in [Node -> NodeState] /\ Federated!TypeOK
  BY DEF RInv, IInv, TypeOK
<1> USE <1>1
<1>2. node'[n] = r /\ \A m \in Honest : m # n => node'[m] = node[m]
  BY HonestNodes
<1> USE <1>2
<1>3. ASSUME NEW m \in Honest, m # n PROVE InHistory(m, node'[m].M[m])
  BY <1>3 DEF RInv
<1>4. \A m \in Honest : m # n =>
         /\ votedPrepare[m] \cup VotedPrepare(node'[m].M[m]) = votedPrepare[m]
         /\ acceptedPrepare[m] \cup AcceptedPrepare(node'[m].M[m]) = acceptedPrepare[m]
         /\ votedCommit[m] \cup VotedCommit(node'[m].M[m]) = votedCommit[m]
         /\ acceptedCommit[m] \cup AcceptedCommit(node'[m].M[m]) = acceptedCommit[m]
         /\ externalized[m] \cup ExternalizedValue(node'[m].M[m]) = externalized[m]
  BY <1>3 DEF InHistory
<1> USE <1>4
<1>5. CASE n \in Honest
  <2> USE <1>5
  <2>1. votedPrepare' = Federated!Add(votedPrepare, n, VotedPrepare(r.M[n]))
    BY HistoryFunctions DEF HNext, Federated!Add
  <2>2. acceptedPrepare' = Federated!Add(acceptedPrepare, n, AcceptedPrepare(r.M[n]))
    BY HistoryFunctions DEF HNext, Federated!Add
  <2>3. votedCommit' = Federated!Add(votedCommit, n, VotedCommit(r.M[n]))
    BY HistoryFunctions DEF HNext, Federated!Add
  <2>4. acceptedCommit' = Federated!Add(acceptedCommit, n, AcceptedCommit(r.M[n]))
    BY HistoryFunctions DEF HNext, Federated!Add
  <2>5. externalized' = Federated!Add(externalized, n, ExternalizedValue(r.M[n]))
    BY HistoryFunctions DEF HNext, Federated!Add
  <2> QED BY <2>1, <2>2, <2>3, <2>4, <2>5 DEF Tells
<1>6. CASE n \notin Honest
  <2> USE <1>6
  <2>1. /\ votedPrepare' = votedPrepare /\ acceptedPrepare' = acceptedPrepare
        /\ votedCommit' = votedCommit /\ acceptedCommit' = acceptedCommit
        /\ externalized' = externalized
    BY HistoryFunctions DEF HNext
  <2> QED BY <2>1 DEF history
<1> QED BY <1>5, <1>6

LEMMA ExternalizesValue ==
    ASSUME NEW st \in Statement, WellFormed(st)
    PROVE  ExternalizedValue(st) \subseteq Value
<1>1. CASE st.type = "EXTERNALIZE"
  <2> USE <1>1
  <2>1. st.b.x \in Value
    BY StatementParts, RealBallots DEF WellFormed
  <2> QED BY <2>1 DEF ExternalizedValue
<1>2. CASE st.type # "EXTERNALIZE"
  BY <1>2 DEF ExternalizedValue
<1> QED BY <1>1, <1>2

LEMMA HInitRInv == HInit => RInv
<1> SUFFICES ASSUME HInit PROVE RInv
  OBVIOUS
<1>1. IInv
  BY InitIInv DEF HInit
<1>2. Federated!TypeOK
  BY DEF HInit, Federated!Init, Federated!TypeOK
<1>3. ASSUME NEW m \in Honest
      PROVE  /\ node[m].M[m] = NoStatement /\ sent[m] = {}
             /\ votedPrepare[m] = {} /\ votedCommit[m] = {}
  BY HonestNodes DEF HInit, Init, InitNode, Federated!Init
<1> USE <1>3
<1>4. NoStatement.type = "NONE"
  BY DEF NoStatement
<1>5. ASSUME NEW m \in Honest
      PROVE  Standing(votedPrepare[m], acceptedPrepare[m], votedCommit[m], node[m].M[m])
  BY <1>4 DEF Standing
<1> QED BY <1>1, <1>2, <1>5, NothingInHistory DEF RInv

(* A step of the ballot protocol keeps the invariant and is a step of      *)
(* federated voting or none.                                               *)
LEMMA HNextStep ==
    ASSUME RInv, HNext
    PROVE  RInv' /\ (Federated!Next \/ UNCHANGED history)
<1>1. PICK n \in Node, r \in NodeState :
         /\ node' = [node EXCEPT ![n] = r]
         /\ \A m \in Node : sent'[m] \subseteq sent[m] \cup {node'[m].M[m]}
         /\ n \in Honest => Explained(n, r.M[n])
  BY OneMoves DEF HNext
<1>2. /\ n \in Honest => Tells(n, r.M[n])
      /\ n \notin Honest => UNCHANGED history
  BY <1>1, HistoryAdds
<1>3. Federated!Next \/ UNCHANGED history
  BY <1>1, <1>2 DEF Explained
<1>4. IInv'
  BY NextIInv DEF RInv, HNext
<1>5. node'[n] = r /\ \A m \in Honest : m # n => node'[m] = node[m]
  BY <1>1, HonestNodes DEF RInv, IInv, TypeOK
<1>6. Federated!TypeOK'
  <2>1. \A m \in Honest : ExternalizedValue(node'[m].M[m]) \subseteq Value
    <3>1. ASSUME NEW m \in Honest
          PROVE  node'[m].M[m] \in Statement /\ WellFormed(node'[m].M[m])
      <4>1. m \in Node /\ NodeInv(m, node'[m], sent'[m])
        BY <1>4, HonestNodes DEF IInv
      <4> QED BY <4>1, NodeParts DEF NodeInv, Sound
    <3> QED BY <3>1, ExternalizesValue
  <2>2. Federated!TypeOK
    BY DEF RInv
  <2> USE <2>2
  <2>3. votedPrepare' \in [Honest -> SUBSET Federated!RealBallot]
    BY HistoryFunctions DEF HNext, VotedPrepare
  <2>4. acceptedPrepare' \in [Honest -> SUBSET Federated!RealBallot]
    BY HistoryFunctions DEF HNext, AcceptedPrepare
  <2>5. votedCommit' \in [Honest -> SUBSET Federated!RealBallot]
    BY HistoryFunctions DEF HNext, VotedCommit
  <2>6. acceptedCommit' \in [Honest -> SUBSET Federated!RealBallot]
    BY HistoryFunctions DEF HNext, AcceptedCommit
  <2>7. externalized' \in [Honest -> SUBSET Value]
    BY <2>1, HistoryFunctions DEF HNext
  <2> QED BY <2>3, <2>4, <2>5, <2>6, <2>7 DEF Federated!TypeOK
<1>7. ASSUME NEW m \in Honest
      PROVE  \A st \in sent'[m] \cup {node'[m].M[m]} : InHistory(m, st)'
  <2>1. /\ votedPrepare'[m] = votedPrepare[m] \cup VotedPrepare(node'[m].M[m])
        /\ acceptedPrepare'[m] = acceptedPrepare[m] \cup AcceptedPrepare(node'[m].M[m])
        /\ votedCommit'[m] = votedCommit[m] \cup VotedCommit(node'[m].M[m])
        /\ acceptedCommit'[m] = acceptedCommit[m] \cup AcceptedCommit(node'[m].M[m])
        /\ externalized'[m] = externalized[m] \cup ExternalizedValue(node'[m].M[m])
    BY DEF HNext
  <2>2. ASSUME NEW st, InHistory(m, st) \/ st = node'[m].M[m]
        PROVE  /\ VotedPrepare(st) \subseteq votedPrepare'[m]
               /\ AcceptedPrepare(st) \subseteq acceptedPrepare'[m]
               /\ VotedCommit(st) \subseteq votedCommit'[m]
               /\ AcceptedCommit(st) \subseteq acceptedCommit'[m]
               /\ ExternalizedValue(st) \subseteq externalized'[m]
    BY <2>1, <2>2 DEF InHistory
  <2>3. ASSUME NEW st \in sent'[m] \cup {node'[m].M[m]}
        PROVE  InHistory(m, st) \/ st = node'[m].M[m]
    BY <1>1, HonestNodes DEF RInv
  <2> QED BY <2>2, <2>3 DEF InHistory
<1>8. ASSUME NEW m \in Honest
      PROVE  Standing(votedPrepare'[m], acceptedPrepare'[m], votedCommit'[m], node'[m].M[m])
  <2>1. /\ votedPrepare'[m] = votedPrepare[m] \cup VotedPrepare(node'[m].M[m])
        /\ acceptedPrepare'[m] = acceptedPrepare[m] \cup AcceptedPrepare(node'[m].M[m])
        /\ votedCommit'[m] = votedCommit[m] \cup VotedCommit(node'[m].M[m])
    BY DEF HNext
  <2> USE <2>1
  <2>2. CASE m = n
    BY <1>1, <1>5, <2>2 DEF Explained
  <2>3. CASE m # n
    <3>1. /\ node'[m] = node[m] /\ InHistory(m, node[m].M[m])
          /\ Standing(votedPrepare[m], acceptedPrepare[m], votedCommit[m], node[m].M[m])
      BY <1>5, <2>3 DEF RInv
    <3> USE <3>1
    <3>2. /\ votedPrepare'[m] = votedPrepare[m] /\ acceptedPrepare'[m] = acceptedPrepare[m]
          /\ votedCommit'[m] = votedCommit[m]
      BY DEF InHistory
    <3> QED BY <3>2
  <2> QED BY <2>2, <2>3
<1>9. RInv'
  BY <1>4, <1>6, <1>7, <1>8 DEF RInv
<1> QED BY <1>3, <1>9

-----------------------------------------------------------------------------
(* The theorems. *)

(* Along every behaviour of the ballot protocol, all that the statements   *)
(* of an honest node vote for and accept is recorded in the history, and   *)
(* the node stands by its votes: it has voted to prepare nothing above its *)
(* ballot, and what it voted to commit it still votes for or has accepted  *)
(* as aborted.                                                             *)
THEOREM NodesStandByVotes == HSpec => []RInv
<1>1. RInv /\ [HNext]_<<vars, history>> => RInv'
  <2> SUFFICES ASSUME RInv, [HNext]_<<vars, history>> PROVE RInv'
    OBVIOUS
  <2>1. CASE HNext
    BY <2>1, HNextStep
  <2>2. CASE UNCHANGED <<vars, history>>
    <3> USE <2>2
    <3>1. IInv'
      BY NextIInv DEF RInv
    <3>2. /\ node' = node /\ sent' = sent
          /\ votedPrepare' = votedPrepare /\ acceptedPrepare' = acceptedPrepare
          /\ votedCommit' = votedCommit /\ acceptedCommit' = acceptedCommit
          /\ externalized' = externalized
      BY DEF vars, history
    <3> QED BY <3>1, <3>2 DEF RInv, Federated!TypeOK, InHistory
  <2> QED BY <2>1, <2>2
<1> QED BY <1>1, HInitRInv, PTL DEF HSpec

(* The ballot protocol as coded, with its statements, its recursive        *)
(* advanceSlot, timers, lost and repeated envelopes and restarts,          *)
(* implements federated voting: each thing a node says follows one of the  *)
(* five rules, whatever the network and the bounds.                        *)
THEOREM BallotsImplementFederated == HSpec => ImplementsFederated
<1>1. HInit => Federated!Init
  BY DEF HInit
<1>2. RInv /\ [HNext]_<<vars, history>> => [Federated!Next]_(Federated!vars)
  <2> SUFFICES ASSUME RInv, [HNext]_<<vars, history>>
               PROVE  Federated!Next \/ UNCHANGED history
    BY DEF Federated!vars, history
  <2>1. CASE HNext
    BY <2>1, HNextStep
  <2>2. CASE UNCHANGED <<vars, history>>
    BY <2>2
  <2> QED BY <2>1, <2>2
<1> QED BY <1>1, <1>2, NodesStandByVotes, PTL DEF HSpec, ImplementsFederated, Federated!Spec

(* Agreement on what is sent: the CONFIRM and EXTERNALIZE statements of    *)
(* all honest nodes, those of a node before and after a restart included,  *)
(* name one value, so that setConfirmCommit hands the herder the same      *)
(* value everywhere.                                                       *)
HonestAgreement ==
    \A m, n \in Honest : \A st1 \in sent[m], st2 \in sent[n] :
        st1.type # "PREPARE" /\ st2.type # "PREPARE" => st1.b.x = st2.b.x

(* Who sends CONFIRM or EXTERNALIZE for a value has accepted to commit it. *)
LEMMA SettledCommits ==
    ASSUME RInv, NEW m \in Honest, NEW st \in sent[m], st.type # "PREPARE"
    PROVE  \E b \in acceptedCommit[m] : b.x = st.b.x
<1>1. m \in Node /\ NodeInv(m, node[m], sent[m]) /\ InHistory(m, st)
  BY HonestNodes DEF RInv, IInv
<1> USE <1>1
<1>2. st \in Statement /\ WellFormed(st) /\ st.type # "NONE"
  BY DEF NodeInv, Sound, Ordered
<1> USE <1>2
<1>3. /\ st.b \in Ballot /\ st.nC \in Int /\ st.nC >= 0 /\ st.nC <= UINT32_MAX
      /\ st.nH \in Int /\ st.type \in {"CONFIRM", "EXTERNALIZE"}
      /\ UINT32_MAX \in Nat
  BY SMTT(30), StatementParts, BallotNumbers DEF StatementType
<1> USE <1>3
<1>4. st.b \in Federated!RealBallot /\ st.b.x \in Value
  BY RealBallots DEF WellFormed
<1> USE <1>4
<1>5. CASE st.type = "CONFIRM"
  <2> USE <1>5
  <2> DEFINE b == MakeBallot(st.nC, st.b.x)
  <2>1. st.nC # 0 /\ st.nC <= st.nH
    BY DEF WellFormed
  <2> USE <2>1
  <2>2. b \in Federated!RealBallot /\ b.x = st.b.x /\ b.n = st.nC
    BY SMT DEF MakeBallot, Federated!RealBallot
  <2> USE <2>2
  <2>3. commitPredicate(b.x, b.n, b.n, st)
    BY SMT DEF commitPredicate
  <2>4. b \in acceptedCommit[m]
    BY <2>3 DEF InHistory, AcceptedCommit
  <2> QED BY <2>4
<1>6. CASE st.type = "EXTERNALIZE"
  <2>1. commitPredicate(st.b.x, st.b.n, st.b.n, st)
    BY SMT, <1>6, BallotNumbers DEF commitPredicate
  <2>2. st.b \in acceptedCommit[m]
    BY <2>1 DEF InHistory, AcceptedCommit
  <2> QED BY <2>2
<1> QED BY <1>5, <1>6

(* What is proved of federated voting, read of the history of the ballots. *)
Proved == INSTANCE FederatedBallotProofs

LEMMA NetworkIsSound == Proved!NetworkAssumption /\ Proved!BallotAssumption
<1>1. Honest \subseteq Node /\ Slices \in [Node -> SUBSET SUBSET Node]
  BY DEF Honest, Slices
<1>2. /\ \A n \in Node : Proved!QuorumFor(n) = Federated!QuorumFor(n)
      /\ \A n \in Node : Proved!BlockingFor(n) = Federated!BlockingFor(n)
  BY DEF Proved!QuorumFor, Federated!QuorumFor, Proved!BlockingFor, Federated!BlockingFor
<1>3. Proved!NetworkAssumption
  BY SMTT(30), <1>1, <1>2, IntersectionAssumption DEF Proved!NetworkAssumption
<1>4. Proved!BallotAssumption
  BY BallotAssumption DEF Proved!BallotAssumption
<1> QED BY <1>3, <1>4

(* The invariant of federated voting holds of what the nodes say. *)
LEMMA FederatedInvariant == HSpec => []Proved!IInv
<1>1. Federated!Init => Proved!Init
  BY DEF Federated!Init, Proved!Init
<1>2. [Federated!Next]_(Federated!vars) => [Proved!Next]_(Proved!vars)
  <2>1. /\ Federated!RealBallot = Proved!RealBallot
        /\ \A f, n, S : Federated!Add(f, n, S) = Proved!Add(f, n, S)
        /\ \A b : Federated!Down(b) = Proved!Down(b)
        /\ \A x : Federated!OfValue(x) = Proved!OfValue(x)
        /\ \A c, h : /\ Federated!Interval(c, h) = Proved!Interval(c, h)
                     /\ Federated!MakeBallot(c, h) = Proved!MakeBallot(c, h)
                     /\ Federated!areBallotsCompatible(c, h) = Proved!areBallotsCompatible(c, h)
                     /\ Federated!areBallotsLessAndCompatible(c, h)
                          = Proved!areBallotsLessAndCompatible(c, h)
        /\ \A c : Federated!From(c) = Proved!From(c)
    BY DEF Federated!RealBallot, Proved!RealBallot, Federated!Add, Proved!Add,
       Federated!Down, Proved!Down, Federated!OfValue, Proved!OfValue,
       Federated!Interval, Proved!Interval, Federated!From, Proved!From,
       Federated!MakeBallot, Proved!MakeBallot,
       Federated!areBallotsCompatible, Proved!areBallotsCompatible,
       Federated!areBallotsLessAndCompatible, Proved!areBallotsLessAndCompatible
  <2> USE <2>1
  <2>2. /\ \A b, z : Federated!Aborts(b, z) = Proved!Aborts(b, z)
        /\ \A n, b : Federated!MayVotePrepare(n, b) = Proved!MayVotePrepare(n, b)
    BY DEF Federated!Aborts, Proved!Aborts, Federated!Less, Proved!Less,
       Federated!areBallotsLessAndIncompatible, Proved!areBallotsLessAndIncompatible,
       Federated!MayVotePrepare, Proved!MayVotePrepare
  <2> USE <2>2
  <2>3. /\ \A n, V, A : Federated!FederatedAccept(n, V, A) = Proved!FederatedAccept(n, V, A)
        /\ \A n, A : Federated!FederatedRatify(n, A) = Proved!FederatedRatify(n, A)
    BY DEF Federated!FederatedAccept, Proved!FederatedAccept,
       Federated!FederatedRatify, Proved!FederatedRatify, Federated!Settled, Proved!Settled,
       Federated!QuorumFor, Proved!QuorumFor, Federated!BlockingFor, Proved!BlockingFor
  <2> USE <2>3
  <2>4. /\ \A b : Federated!Prepared(b) = Proved!Prepared(b)
        /\ \A c, h : /\ Federated!Committed(c, h) = Proved!Committed(c, h)
                     /\ Federated!VotesCommit(c, h) = Proved!VotesCommit(c, h)
    BY DEF Federated!Prepared, Proved!Prepared, Federated!Committed, Proved!Committed,
       Federated!VotesCommit, Proved!VotesCommit
  <2> USE <2>4
  <2>5. \A n, b : Federated!VotePrepare(n, b) => Proved!VotePrepare(n, b)
    BY DEF Federated!VotePrepare, Proved!VotePrepare
  <2>6. \A n, b : Federated!AcceptPrepare(n, b) => Proved!AcceptPrepare(n, b)
    BY DEF Federated!AcceptPrepare, Proved!AcceptPrepare
  <2>7. \A n, c, h : Federated!ConfirmPrepare(n, c, h) => Proved!ConfirmPrepare(n, c, h)
    BY DEF Federated!ConfirmPrepare, Proved!ConfirmPrepare
  <2>8. \A n, c, h, p : Federated!AcceptCommit(n, c, h, p) => Proved!AcceptCommit(n, c, h, p)
    BY SMT DEF Federated!AcceptCommit, Proved!AcceptCommit
  <2>9. \A n, c, h : Federated!ConfirmCommit(n, c, h) => Proved!ConfirmCommit(n, c, h)
    BY DEF Federated!ConfirmCommit, Proved!ConfirmCommit
  <2>10. Federated!Next => Proved!Next
    BY SMTT(30), <2>5, <2>6, <2>7, <2>8, <2>9 DEF Federated!Next, Proved!Next
  <2> QED BY <2>10 DEF Federated!vars, Proved!vars
<1>3. Federated!Spec => Proved!Spec
  BY <1>1, <1>2, PTL DEF Federated!Spec, Proved!Spec
<1>4. Proved!Spec => []Proved!IInv
  BY NetworkIsSound, Proved!InvariantHolds
<1> QED BY <1>3, <1>4, BallotsImplementFederated, PTL DEF ImplementsFederated

(* Agreement, for every network that satisfies IntersectionAssumption, any *)
(* number of values and counters, timeouts and restarts: what the accepted *)
(* commits of two honest nodes name is what abstract federated voting has  *)
(* one value for.                                                          *)
THEOREM HonestNodesAgree == HSpec => []HonestAgreement
<1>1. RInv /\ Proved!IInv => HonestAgreement
  <2> SUFFICES ASSUME RInv, Proved!IInv, NEW m \in Honest, NEW n \in Honest,
                      NEW st1 \in sent[m], NEW st2 \in sent[n],
                      st1.type # "PREPARE", st2.type # "PREPARE"
               PROVE  st1.b.x = st2.b.x
    BY SMT DEF HonestAgreement
  <2>1. PICK b1 \in acceptedCommit[m] : b1.x = st1.b.x
    BY SettledCommits
  <2>2. PICK b2 \in acceptedCommit[n] : b2.x = st2.b.x
    BY SettledCommits
  <2>3. b1.x = b2.x
    BY SMTT(30), NetworkIsSound, Proved!CommitsCompatible
  <2> QED BY <2>1, <2>2, <2>3
<1> QED BY <1>1, NodesStandByVotes, FederatedInvariant, PTL

(* When no process restarts, or no node meets a value that it cannot       *)
(* validate, this covers every node: no two nodes ever send CONFIRM or     *)
(* EXTERNALIZE for different values.                                       *)
THEOREM NodesAgree ==
    ASSUME Honest = Node
    PROVE  HSpec => []CommitAgreement
<1>1. HonestAgreement => CommitAgreement
  BY DEF HonestAgreement, CommitAgreement
<1> QED BY <1>1, HonestNodesAgree, PTL
=============================================================================

-------------------------- MODULE BallotMoveProofs --------------------------
(***************************************************************************)
(* What a move of the ballot protocol is in the abstract one: the          *)
(* statement a node emits adds to the history one step of federated        *)
(* voting, or nothing.                                                     *)
(***************************************************************************)
EXTENDS BallotRefinement, BallotOutcomeProofs

(* Zenon proves what names no other prover. *)
USE Zenon

-----------------------------------------------------------------------------
(* Ballots. *)

LEMMA RealBallots ==
    /\ \A b \in Federated!RealBallot :
          b \in Ballot /\ b.n \in Int /\ b.n >= 1 /\ b.n <= UINT32_MAX /\ b.x \in Value
    /\ \A b \in Ballot : b # NoBallot /\ Proper(b) => b \in Federated!RealBallot
    /\ \A b \in Federated!RealBallot : b # NoBallot
<1>1. UINT32_MAX \in Nat
  BY BallotNumbers
<1> USE <1>1
<1>2. ASSUME NEW b \in Federated!RealBallot
      PROVE  b \in Ballot /\ b.n \in Int /\ b.n >= 1 /\ b.n <= UINT32_MAX /\ b.x \in Value
  BY SMT DEF Federated!RealBallot, Ballot, Counter
<1> USE <1>2
<1>3. ASSUME NEW b \in Ballot, b # NoBallot, Proper(b) PROVE b \in Federated!RealBallot
  <2>1. b.n \in 1..UINT32_MAX /\ b.x \in Value
    BY SMT, <1>3, BallotNumbers DEF Proper
  <2> QED BY <2>1 DEF Ballot, Federated!RealBallot
<1>4. ASSUME NEW b \in Federated!RealBallot PROVE b # NoBallot
  BY SMT DEF NoBallot
<1> QED BY <1>3, <1>4

LEMMA DownFacts ==
    /\ Federated!Down(NoBallot) = {}
    /\ \A b \in Federated!RealBallot : b \in Federated!Down(b)
    /\ \A b : \A z \in Federated!Down(b) :
          z \in Federated!RealBallot /\ z.x = b.x /\ z.n <= b.n
    /\ \A b : \A z \in Federated!RealBallot :
          z.x = b.x /\ z.n <= b.n => z \in Federated!Down(b)
<1>1. \A b : \A z : z \in Federated!Down(b) <=>
                      z \in Federated!RealBallot /\ z.x = b.x /\ z.n <= b.n
  BY DEF Federated!Down, Federated!areBallotsLessAndCompatible
<1> USE <1>1
<1>2. \A b \in Federated!RealBallot : b.n \in Int /\ b.n >= 1
  BY RealBallots
<1> USE <1>2
<1>3. NoBallot.n = 0
  BY DEF NoBallot
<1>4. Federated!Down(NoBallot) = {}
  BY SMT, <1>3
<1> QED BY SMT, <1>4

-----------------------------------------------------------------------------
(* Quorums and blocking sets of the code are those of FederatedBallot. *)

LEMMA HonestNodes ==
    Honest \subseteq Node /\ \A n \in Node : QSetOf[n] \in QSetId
BY QSetAssumption DEF Honest

LEMMA QuorumBridge ==
    ASSUME NEW n \in Honest, NEW U1 \in SUBSET Node, NEW E \in SUBSET Node,
           isQuorum(QSetOf[n], U1, E)
    PROVE  \/ \E U \in Federated!QuorumFor(n) : U \subseteq U1
           \/ \E m \in Honest : m \in U1 /\ m \in E
<1>1. PICK U \in SUBSET U1 : /\ isQuorumSlice(QSetOf[n], U)
                             /\ \A m \in U \ E : isQuorumSlice(QSetOf[m], U)
  BY HonestNodes, QuorumMeaning
<1> USE <1>1
<1>2. SUFFICES ASSUME \A m \in U \cap Honest : m \notin E
               PROVE  U \in Federated!QuorumFor(n)
  OBVIOUS
<1>3. \A m \in Node : isQuorumSlice(QSetOf[m], U) => U \in Slices[m]
  BY DEF Slices
<1>4. U \in Slices[n] /\ \A m \in U \cap Honest : U \in Slices[m]
  BY <1>2, <1>3, HonestNodes
<1> QED BY <1>4 DEF Federated!QuorumFor

LEMMA BlockingBridge ==
    ASSUME NEW n \in Honest, NEW A \in SUBSET Node, isVBlocking(QSetOf[n], A)
    PROVE  A \in Federated!BlockingFor(n)
<1> DEFINE q == QSetOf[n]
<1>0. q \in QSetId
  BY HonestNodes
<1> USE <1>0
<1>1. ~isQuorumSliceInternal(q, Node \ A)
  BY SliceRelation, BlockingIsDual
<1>2. ASSUME NEW S \in Slices[n], S \cap A = {} PROVE FALSE
  <2>1. S \in SUBSET Node /\ isQuorumSlice(q, S)
    BY HonestNodes DEF Slices
  <2> USE <2>1
  <2>2. S \subseteq Node \ A
    BY <1>2
  <2>3. isQuorumSliceInternal(q, S)
    BY SliceRelation
  <2> HIDE DEF q
  <2> QED BY <1>1, <2>2, <2>3, SliceMonotone
<1> QED BY <1>2 DEF Federated!BlockingFor

(* federatedAccept and federatedRatify: what n counts of the honest nodes  *)
(* is what they said, and those it counts as externalized are.             *)
Counted(V, A, E, voted, accepted) ==
    \A m \in Honest : /\ m \in V => m \in voted \cup accepted
                      /\ m \in A => m \in accepted
                      /\ m \in E /\ m \in V \cup A => m \in accepted /\ externalized[m] # {}

LEMMA AcceptBridge ==
    ASSUME NEW n \in Honest, NEW V \in SUBSET Node, NEW A \in SUBSET Node,
           NEW E \in SUBSET Node, NEW voted, NEW accepted,
           federatedAccept(n, V, A, E), Counted(V, A, E, voted, accepted)
    PROVE  Federated!FederatedAccept(n, voted, accepted)
<1>1. CASE isVBlocking(QSetOf[n], A)
  BY <1>1, BlockingBridge DEF Federated!FederatedAccept, Counted
<1>2. CASE isQuorum(QSetOf[n], V \cup A, E)
  <2>1. \/ \E U \in Federated!QuorumFor(n) : U \subseteq V \cup A
        \/ \E m \in Honest : m \in V \cup A /\ m \in E
    BY <1>2, QuorumBridge
  <2>2. CASE \E U \in Federated!QuorumFor(n) : U \subseteq V \cup A
    BY <2>2 DEF Federated!FederatedAccept, Counted
  <2>3. CASE \E m \in Honest : m \in V \cup A /\ m \in E
    BY <2>3 DEF Federated!FederatedAccept, Federated!Settled, Counted
  <2> QED BY <2>1, <2>2, <2>3
<1> QED BY <1>1, <1>2 DEF federatedAccept

LEMMA RatifyBridge ==
    ASSUME NEW n \in Honest, NEW A \in SUBSET Node, NEW E \in SUBSET Node, NEW accepted,
           federatedRatify(n, A, E), Counted({}, A, E, {}, accepted)
    PROVE  Federated!FederatedRatify(n, accepted)
<1>1. \/ \E U \in Federated!QuorumFor(n) : U \subseteq A
      \/ \E m \in Honest : m \in A /\ m \in E
  BY QuorumBridge DEF federatedRatify
<1> QED BY <1>1 DEF Federated!FederatedRatify, Federated!Settled, Counted

-----------------------------------------------------------------------------
(* What an honest node is on record for, it has said. *)

InHistory(m, st) ==
    /\ VotedPrepare(st) \subseteq votedPrepare[m]
    /\ AcceptedPrepare(st) \subseteq acceptedPrepare[m]
    /\ VotedCommit(st) \subseteq votedCommit[m]
    /\ AcceptedCommit(st) \subseteq acceptedCommit[m]
    /\ ExternalizedValue(st) \subseteq externalized[m]

Recorded(M) ==
    /\ M \in [Node -> Statement]
    /\ \A m \in Node : WellFormed(M[m])
    /\ \A m \in Honest : InHistory(m, M[m])

LEMMA NothingInHistory ==
    \A m \in Honest : InHistory(m, NoStatement)
<1>1. NoStatement.type = "NONE"
  BY DEF NoStatement
<1> QED BY <1>1 DEF InHistory, VotedPrepare, AcceptedPrepare, VotedCommit, AcceptedCommit,
      ExternalizedValue, votesPrepare, hasPreparedBallot, votesCommit, commitPredicate

LEMMA ExternalizedOnRecord ==
    ASSUME NEW s, Recorded(s.M), NEW m \in Honest, m \in Externalized(s)
    PROVE  s.M[m].type = "EXTERNALIZE" /\ externalized[m] # {}
<1>1. s.M[m].type = "EXTERNALIZE"
  BY DEF Externalized
<1> USE <1>1
<1>2. s.M[m].b.x \in externalized[m]
  BY DEF Recorded, InHistory, ExternalizedValue
<1> QED BY <1>2

LEMMA PreparedOnRecord ==
    ASSUME NEW s, Recorded(s.M), NEW z \in Federated!RealBallot, NEW m \in Honest
    PROVE  /\ votesPrepare(z, s.M[m]) => z \in votedPrepare[m]
           /\ hasPreparedBallot(z, s.M[m]) => z \in acceptedPrepare[m]
           /\ s.M[m].type = "EXTERNALIZE" /\ votesPrepare(z, s.M[m]) =>
                 z \in acceptedPrepare[m]
<1>1. /\ VotedPrepare(s.M[m]) \subseteq votedPrepare[m]
      /\ AcceptedPrepare(s.M[m]) \subseteq acceptedPrepare[m]
  BY DEF Recorded, InHistory
<1>2. s.M[m].type = "EXTERNALIZE" /\ votesPrepare(z, s.M[m]) => hasPreparedBallot(z, s.M[m])
  BY DEF votesPrepare, hasPreparedBallot
<1> QED BY <1>1, <1>2 DEF VotedPrepare, AcceptedPrepare

LEMMA AcceptsPreparedFederated ==
    ASSUME NEW n \in Honest, NEW s, Recorded(s.M), NEW z \in Federated!RealBallot,
           acceptsPrepared(n, s, z)
    PROVE  Federated!FederatedAccept(n, {m \in Honest : z \in votedPrepare[m]},
                                     Federated!Prepared(z))
<1> DEFINE V == {m \in Node : votesPrepare(z, s.M[m])}
           A == {m \in Node : hasPreparedBallot(z, s.M[m])}
           E == Externalized(s)
           voted == {m \in Honest : z \in votedPrepare[m]}
           accepted == {m \in Honest : z \in acceptedPrepare[m]}
<1>1. V \in SUBSET Node /\ A \in SUBSET Node /\ E \in SUBSET Node
  BY DEF Externalized
<1>2. federatedAccept(n, V, A, E)
  BY DEF acceptsPrepared
<1>3. Counted(V, A, E, voted, accepted)
  BY PreparedOnRecord, ExternalizedOnRecord DEF Counted
<1>4. Federated!FederatedAccept(n, voted, accepted)
  <2> HIDE DEF V, A, E, voted, accepted
  <2> QED BY <1>1, <1>2, <1>3, AcceptBridge
<1> QED BY <1>4 DEF Federated!Prepared

LEMMA RatifiesPreparedFederated ==
    ASSUME NEW n \in Honest, NEW s, Recorded(s.M), NEW z \in Federated!RealBallot,
           ratifiesPrepared(n, s, z)
    PROVE  Federated!FederatedRatify(n, Federated!Prepared(z))
<1> DEFINE A == {m \in Node : hasPreparedBallot(z, s.M[m])}
           E == Externalized(s)
           accepted == {m \in Honest : z \in acceptedPrepare[m]}
<1>1. A \in SUBSET Node /\ E \in SUBSET Node
  BY DEF Externalized
<1>2. federatedRatify(n, A, E)
  BY DEF ratifiesPrepared
<1>3. Counted({}, A, E, {}, accepted)
  BY PreparedOnRecord, ExternalizedOnRecord DEF Counted
<1>4. Federated!FederatedRatify(n, accepted)
  <2> HIDE DEF A, E, accepted
  <2> QED BY <1>1, <1>2, <1>3, RatifyBridge
<1> QED BY <1>4 DEF Federated!Prepared

(* Who counts as having voted or accepted to commit c..h has said so. *)
LEMMA CommitOnRecord ==
    ASSUME NEW s, Recorded(s.M), NEW m \in Honest,
           NEW c \in Federated!RealBallot, NEW h \in Federated!RealBallot, c.x = h.x
    PROVE  /\ commitPredicate(c.x, c.n, h.n, s.M[m]) => m \in Federated!Committed(c, h)
           /\ votesCommit(c.x, c.n, h.n, s.M[m]) =>
                 m \in Federated!VotesCommit(c, h) \cup Federated!Committed(c, h)
           /\ s.M[m].type = "EXTERNALIZE" /\ votesCommit(c.x, c.n, h.n, s.M[m]) =>
                 m \in Federated!Committed(c, h)
<1> DEFINE st == s.M[m]
<1>1. /\ st \in Statement /\ WellFormed(st)
      /\ VotedCommit(st) \subseteq votedCommit[m]
      /\ AcceptedCommit(st) \subseteq acceptedCommit[m]
  BY HonestNodes DEF Recorded, InHistory
<1> USE <1>1
<1> HIDE DEF st
<1>2. /\ st.nC \in Nat /\ st.nH \in Nat /\ st.nC \in Counter /\ st.b \in Ballot
      /\ st.b.n \in Int /\ c.n \in Int /\ h.n \in Int
  BY StatementParts, BallotNumbers, RealBallots
<1> USE <1>2
<1>3. \A b \in Federated!Interval(c, h) :
         b \in Federated!RealBallot /\ b.x = c.x /\ b.n \in Int /\ c.n <= b.n /\ b.n <= h.n
  BY RealBallots DEF Federated!Interval, Federated!OfValue
<1> USE <1>3
<1>4. commitPredicate(c.x, c.n, h.n, st) => m \in Federated!Committed(c, h)
  <2> SUFFICES ASSUME commitPredicate(c.x, c.n, h.n, st)
               PROVE  Federated!Interval(c, h) \subseteq AcceptedCommit(st)
    BY DEF Federated!Committed
  <2>1. ASSUME NEW b \in Federated!Interval(c, h) PROVE commitPredicate(b.x, b.n, b.n, st)
    BY SMT DEF commitPredicate
  <2> QED BY <2>1 DEF AcceptedCommit
<1>5. st.type = "EXTERNALIZE" /\ votesCommit(c.x, c.n, h.n, st) =>
         commitPredicate(c.x, c.n, h.n, st)
  BY DEF votesCommit, commitPredicate
<1>6. st.type = "PREPARE" /\ votesCommit(c.x, c.n, h.n, st) =>
         m \in Federated!VotesCommit(c, h)
  <2> SUFFICES ASSUME st.type = "PREPARE", votesCommit(c.x, c.n, h.n, st)
               PROVE  Federated!Interval(c, h) \subseteq VotedCommit(st)
    BY DEF Federated!VotesCommit
  <2>1. ASSUME NEW b \in Federated!Interval(c, h) PROVE votesCommit(b.x, b.n, b.n, st)
    BY SMT DEF votesCommit
  <2> QED BY <2>1 DEF VotedCommit
<1>7. st.type = "CONFIRM" /\ votesCommit(c.x, c.n, h.n, st) =>
         m \in Federated!VotesCommit(c, h)
  <2> DEFINE b == MakeBallot(st.nC, st.b.x)
  <2> SUFFICES ASSUME st.type = "CONFIRM", votesCommit(c.x, c.n, h.n, st)
               PROVE  m \in Federated!VotesCommit(c, h)
    OBVIOUS
  <2>1. st.nC # 0 /\ st.nC <= st.nH /\ st.b.x = c.x /\ st.nC <= c.n
    BY DEF WellFormed, votesCommit
  <2> USE <2>1
  <2>2. b.n = st.nC /\ b.x = c.x /\ c.x \in Value
    BY RealBallots DEF MakeBallot
  <2> USE <2>2
  <2>3. b \in Federated!RealBallot
    BY SMT, BallotNumbers DEF Federated!RealBallot, MakeBallot
  <2> HIDE DEF b
  <2>4. b \in AcceptedCommit(st)
    BY SMT, <2>3 DEF AcceptedCommit, commitPredicate
  <2>5. Federated!areBallotsLessAndCompatible(b, c)
    BY DEF Federated!areBallotsLessAndCompatible
  <2> QED BY <2>4, <2>5 DEF Federated!VotesCommit
<1>8. votesCommit(c.x, c.n, h.n, st) => st.type \in {"PREPARE", "CONFIRM", "EXTERNALIZE"}
  BY DEF votesCommit
<1>9. /\ commitPredicate(c.x, c.n, h.n, st) => m \in Federated!Committed(c, h)
      /\ votesCommit(c.x, c.n, h.n, st) =>
           m \in Federated!VotesCommit(c, h) \cup Federated!Committed(c, h)
      /\ st.type = "EXTERNALIZE" /\ votesCommit(c.x, c.n, h.n, st) =>
           m \in Federated!Committed(c, h)
  BY <1>4, <1>5, <1>6, <1>7, <1>8
<1> QED BY <1>9 DEF st

LEMMA AcceptsCommitFederated ==
    ASSUME NEW n \in Honest, NEW s, Recorded(s.M), NEW c \in Federated!RealBallot,
           NEW h \in Federated!RealBallot, c.x = h.x, acceptsCommit(n, s, c.x, c.n, h.n)
    PROVE  Federated!FederatedAccept(n, Federated!VotesCommit(c, h), Federated!Committed(c, h))
<1> DEFINE V == {m \in Node : votesCommit(c.x, c.n, h.n, s.M[m])}
           A == {m \in Node : commitPredicate(c.x, c.n, h.n, s.M[m])}
           E == Externalized(s)
           voted == Federated!VotesCommit(c, h)
           accepted == Federated!Committed(c, h)
<1>1. V \in SUBSET Node /\ A \in SUBSET Node /\ E \in SUBSET Node
  BY DEF Externalized
<1>2. federatedAccept(n, V, A, E)
  BY DEF acceptsCommit
<1>3. Counted(V, A, E, voted, accepted)
  BY CommitOnRecord, ExternalizedOnRecord DEF Counted
<1> HIDE DEF V, A, E, voted, accepted
<1>4. Federated!FederatedAccept(n, voted, accepted)
  BY <1>1, <1>2, <1>3, AcceptBridge
<1> QED BY <1>4 DEF voted, accepted

LEMMA RatifiesCommitFederated ==
    ASSUME NEW n \in Honest, NEW s, Recorded(s.M), NEW c \in Federated!RealBallot,
           NEW h \in Federated!RealBallot, c.x = h.x, ratifiesCommit(n, s, c.x, c.n, h.n)
    PROVE  Federated!FederatedRatify(n, Federated!Committed(c, h))
<1> DEFINE A == {m \in Node : commitPredicate(c.x, c.n, h.n, s.M[m])}
           E == Externalized(s)
           accepted == Federated!Committed(c, h)
<1>1. A \in SUBSET Node /\ E \in SUBSET Node
  BY DEF Externalized
<1>2. federatedRatify(n, A, E)
  BY DEF ratifiesCommit
<1>3. Counted({}, A, E, {}, accepted)
  BY CommitOnRecord, ExternalizedOnRecord DEF Counted
<1> HIDE DEF A, E, accepted
<1>4. Federated!FederatedRatify(n, accepted)
  BY <1>1, <1>2, <1>3, RatifyBridge
<1> QED BY <1>4 DEF accepted

-----------------------------------------------------------------------------
(* What a node in each phase says. *)

Said(st, prepares, prepared, commits, committed, values) ==
    /\ VotedPrepare(st) = prepares /\ AcceptedPrepare(st) = prepared
    /\ VotedCommit(st) = commits /\ AcceptedCommit(st) = committed
    /\ ExternalizedValue(st) = values

CommitVotes(u) == IF u.c = NoBallot THEN {} ELSE Federated!Interval(u.c, u.h)

LEMMA SaysPrepare ==
    ASSUME NEW u \in NodeState, ProperState(u), checkInvariants(u), u.phase = "PREPARE",
           NEW st, Says(st, u)
    PROVE  Said(st, Federated!Down(u.b), Federated!Down(u.p) \cup Federated!Down(u.pp),
                CommitVotes(u), {}, {})
<1>1. /\ st.type = "PREPARE" /\ st.b = u.b /\ st.p = u.p /\ st.pp = u.pp
      /\ st.nC = u.c.n /\ st.nH = u.h.n
  BY DEF Says
<1> USE <1>1
<1>2. VotedPrepare(st) = Federated!Down(u.b)
  BY DEF VotedPrepare, votesPrepare, Federated!Down, areBallotsLessAndCompatible,
      Federated!areBallotsLessAndCompatible
<1>3. AcceptedPrepare(st) = Federated!Down(u.p) \cup Federated!Down(u.pp)
  <2>1. \A b \in Federated!RealBallot :
           hasPreparedBallot(b, st) <=>
             \/ u.p # NoBallot /\ areBallotsLessAndCompatible(b, u.p)
             \/ u.pp # NoBallot /\ areBallotsLessAndCompatible(b, u.pp)
    BY DEF hasPreparedBallot
  <2>2. \A b \in Federated!RealBallot : ~areBallotsLessAndCompatible(b, NoBallot)
    BY SMT, RealBallots, BallotNumbers DEF areBallotsLessAndCompatible, NoBallot
  <2>3. \A b \in Federated!RealBallot :
           hasPreparedBallot(b, st) <=> \/ areBallotsLessAndCompatible(b, u.p)
                                        \/ areBallotsLessAndCompatible(b, u.pp)
    BY <2>1, <2>2
  <2> QED BY <2>3 DEF AcceptedPrepare, Federated!Down, areBallotsLessAndCompatible,
        Federated!areBallotsLessAndCompatible
<1>4. VotedCommit(st) = CommitVotes(u)
  <2>1. CASE u.c = NoBallot
    BY SMT, <2>1 DEF VotedCommit, votesCommit, CommitVotes, NoBallot
  <2>2. CASE u.c # NoBallot
    <3> USE <2>2
    <3>1. u.c.n # 0 /\ u.c.x = u.b.x
      BY DEF checkInvariants, areBallotsLessAndCompatible, ProperState, Proper
    <3> QED BY <3>1
        DEF VotedCommit, votesCommit, CommitVotes, Federated!Interval, Federated!OfValue
  <2> QED BY <2>1, <2>2
<1>5. AcceptedCommit(st) = {} /\ ExternalizedValue(st) = {}
  BY DEF AcceptedCommit, commitPredicate, ExternalizedValue
<1> QED BY <1>2, <1>3, <1>4, <1>5 DEF Said

LEMMA SaysConfirm ==
    ASSUME NEW u \in NodeState, ProperState(u), checkInvariants(u), u.phase = "CONFIRM",
           NEW st, Says(st, u)
    PROVE  /\ Said(st, Federated!OfValue(u.b.x), Federated!Down(MakeBallot(u.p.n, u.b.x)),
                   {}, Federated!Interval(u.c, u.h), {})
           /\ u.c \in Federated!RealBallot /\ u.h \in Federated!RealBallot
           /\ u.b \in Federated!RealBallot /\ u.p \in Federated!RealBallot
           /\ u.c.x = u.b.x /\ u.h.x = u.b.x /\ u.c.n <= u.h.n
<1>1. /\ st.type = "CONFIRM" /\ st.b = u.b /\ st.nP = u.p.n
      /\ st.nC = u.c.n /\ st.nH = u.h.n
  BY DEF Says
<1> USE <1>1
<1>2. /\ u.c # NoBallot /\ u.h # NoBallot /\ u.b # NoBallot /\ u.p # NoBallot
      /\ u.c.x = u.h.x /\ u.h.x = u.b.x /\ u.c.n <= u.h.n
  BY DEF checkInvariants, areBallotsLessAndCompatible
<1> USE <1>2
<1>3. /\ u.c \in Federated!RealBallot /\ u.h \in Federated!RealBallot
      /\ u.b \in Federated!RealBallot /\ u.p \in Federated!RealBallot
  BY NodeParts, RealBallots DEF ProperState
<1>4. VotedPrepare(st) = Federated!OfValue(u.b.x)
  BY DEF VotedPrepare, votesPrepare, Federated!OfValue, areBallotsCompatible
<1>5. AcceptedPrepare(st) = Federated!Down(MakeBallot(u.p.n, u.b.x))
  BY DEF AcceptedPrepare, hasPreparedBallot, Federated!Down, areBallotsLessAndCompatible,
      Federated!areBallotsLessAndCompatible
<1>6. AcceptedCommit(st) = Federated!Interval(u.c, u.h)
  BY DEF AcceptedCommit, commitPredicate, Federated!Interval, Federated!OfValue
<1>7. VotedCommit(st) = {} /\ ExternalizedValue(st) = {}
  BY DEF VotedCommit, ExternalizedValue
<1> QED BY <1>3, <1>4, <1>5, <1>6, <1>7 DEF Said

LEMMA SaysExternalize ==
    ASSUME NEW u \in NodeState, ProperState(u), checkInvariants(u), u.phase = "EXTERNALIZE",
           NEW st, Says(st, u)
    PROVE  /\ Said(st, Federated!OfValue(u.c.x), Federated!OfValue(u.c.x), {},
                   Federated!From(u.c), {u.c.x})
           /\ u.c \in Federated!RealBallot /\ u.h \in Federated!RealBallot
<1>1. st.type = "EXTERNALIZE" /\ st.b = u.c
  BY DEF Says
<1> USE <1>1
<1>2. u.c # NoBallot /\ u.h # NoBallot
  BY DEF checkInvariants
<1>3. u.c \in Federated!RealBallot /\ u.h \in Federated!RealBallot
  BY <1>2, NodeParts, RealBallots DEF ProperState
<1>4. VotedPrepare(st) = Federated!OfValue(u.c.x) /\ AcceptedPrepare(st) = Federated!OfValue(u.c.x)
  BY DEF VotedPrepare, votesPrepare, AcceptedPrepare, hasPreparedBallot, Federated!OfValue,
      areBallotsCompatible
<1>5. AcceptedCommit(st) = Federated!From(u.c)
  BY DEF AcceptedCommit, commitPredicate, Federated!From, Federated!OfValue
<1>6. VotedCommit(st) = {} /\ ExternalizedValue(st) = {u.c.x}
  BY DEF VotedCommit, ExternalizedValue
<1> QED BY <1>3, <1>4, <1>5, <1>6 DEF Said

-----------------------------------------------------------------------------
(* How the latest statement of a node bounds what it has said.  While it   *)
(* is in PREPARE, it has voted to prepare nothing above its ballot, and    *)
(* each ballot it voted to commit it still votes for or has accepted as    *)
(* aborted; it has voted to abort nothing it now votes to commit.          *)
Standing(prepares, prepared, commits, st) ==
    /\ st.type \in {"NONE", "PREPARE"} =>
         /\ \A z \in prepares : LessEq(z, st.b)
         /\ \A b \in commits : \/ st.nC # 0 /\ b.x = st.b.x /\ b.n <= st.nH
                               \/ \E z \in prepared : areBallotsLessAndIncompatible(b, z)
    /\ st.type = "PREPARE" /\ st.nC # 0 =>
         \A z \in prepares : ~areBallotsLessAndIncompatible(MakeBallot(st.nC, st.b.x), z)

(* The same of the state of the node. *)
StandsPrepare(v, prepares, prepared, commits) ==
    /\ \A z \in prepares : LessEq(z, v.b)
    /\ \A b \in commits : \/ v.c # NoBallot /\ b.x = v.b.x /\ b.n <= v.h.n
                          \/ \E z \in prepared : areBallotsLessAndIncompatible(b, z)
    /\ v.c # NoBallot => \A z \in prepares : ~areBallotsLessAndIncompatible(v.c, z)

LEMMA StandingMeans ==
    ASSUME NEW u \in NodeState, ProperState(u), checkInvariants(u), u.phase = "PREPARE",
           NEW st, Says(st, u), NEW prepares, NEW prepared, NEW commits
    PROVE  Standing(prepares, prepared, commits, st)
             <=> StandsPrepare(u, prepares, prepared, commits)
<1>1. st.type = "PREPARE" /\ st.b = u.b /\ st.nC = u.c.n /\ st.nH = u.h.n
  BY DEF Says
<1>2. u.c.n # 0 <=> u.c # NoBallot
  BY SMT DEF ProperState, Proper, NoBallot
<1>3. u.c # NoBallot => MakeBallot(u.c.n, u.b.x) = u.c
  <2> SUFFICES ASSUME u.c # NoBallot PROVE MakeBallot(u.c.n, u.b.x) = u.c
    OBVIOUS
  <2>1. u.c.x = u.b.x
    BY DEF checkInvariants, areBallotsLessAndCompatible
  <2>2. u.c \in Ballot
    BY NodeParts
  <2> QED BY <2>1, <2>2 DEF MakeBallot, Ballot
<1> QED BY <1>1, <1>2, <1>3 DEF Standing, StandsPrepare

-----------------------------------------------------------------------------
(* A node n in state v, by phase. *)

Preparing(n, v) ==
    /\ v.phase = "PREPARE" /\ checkInvariants(v)
    /\ Federated!Down(v.b) \subseteq votedPrepare[n]
    /\ Federated!Down(v.p) \subseteq acceptedPrepare[n]
    /\ Federated!Down(v.pp) \subseteq acceptedPrepare[n]
    /\ CommitVotes(v) \subseteq votedCommit[n]
    /\ StandsPrepare(v, votedPrepare[n], acceptedPrepare[n], votedCommit[n])

Confirming(n, v) ==
    /\ v.phase = "CONFIRM" /\ checkInvariants(v)
    /\ v.c \in Federated!RealBallot /\ v.h \in Federated!RealBallot
    /\ v.b \in Federated!RealBallot /\ v.p \in Federated!RealBallot
    /\ v.c.x = v.b.x /\ v.h.x = v.b.x /\ v.c.n <= v.h.n
    /\ Federated!OfValue(v.b.x) \subseteq votedPrepare[n]
    /\ Federated!Down(MakeBallot(v.p.n, v.b.x)) \subseteq acceptedPrepare[n]
    /\ Federated!Interval(v.c, v.h) \subseteq acceptedCommit[n]

LEMMA OwnPhase ==
    ASSUME NEW n \in Honest, NEW v \in NodeState, Own(n, v), ProperState(v),
           InHistory(n, v.M[n]), v.phase # "EXTERNALIZE",
           Standing(votedPrepare[n], acceptedPrepare[n], votedCommit[n], v.M[n])
    PROVE  Preparing(n, v) \/ Confirming(n, v)
<1> DEFINE st == v.M[n]
<1>1. CASE st = NoStatement /\ Fresh(v)
  <2> USE <1>1
  <2>1. /\ v.b = NoBallot /\ v.p = NoBallot /\ v.pp = NoBallot /\ v.h = NoBallot
        /\ v.c = NoBallot /\ v.phase = "PREPARE"
    BY DEF Fresh
  <2> USE <2>1
  <2>2. st.type = "NONE" /\ st.b = NoBallot /\ st.nC = 0
    BY SMT DEF NoStatement
  <2>3. StandsPrepare(v, votedPrepare[n], acceptedPrepare[n], votedCommit[n])
    BY <2>2 DEF Standing, StandsPrepare
  <2>4. checkInvariants(v)
    BY DEF checkInvariants
  <2> QED BY <2>3, <2>4, DownFacts DEF Preparing, CommitVotes
<1>2. CASE st = createStatement(v) /\ checkInvariants(v)
  <2> USE <1>2
  <2>1. Says(st, v) /\ InHistory(n, st)
       /\ Standing(votedPrepare[n], acceptedPrepare[n], votedCommit[n], st)
    BY CreatedStatement
  <2> USE <2>1
  <2> HIDE DEF st
  <2>2. CASE v.phase = "PREPARE"
    <3> USE <2>2
    <3>1. Said(st, Federated!Down(v.b), Federated!Down(v.p) \cup Federated!Down(v.pp),
               CommitVotes(v), {}, {})
      BY SaysPrepare
    <3>2. StandsPrepare(v, votedPrepare[n], acceptedPrepare[n], votedCommit[n])
      BY StandingMeans
    <3> QED BY <3>1, <3>2 DEF Preparing, InHistory, Said
  <2>3. CASE v.phase = "CONFIRM"
    <3> USE <2>3
    <3>1. /\ Said(st, Federated!OfValue(v.b.x), Federated!Down(MakeBallot(v.p.n, v.b.x)),
                  {}, Federated!Interval(v.c, v.h), {})
          /\ v.c \in Federated!RealBallot /\ v.h \in Federated!RealBallot
          /\ v.b \in Federated!RealBallot /\ v.p \in Federated!RealBallot
          /\ v.c.x = v.b.x /\ v.h.x = v.b.x /\ v.c.n <= v.h.n
      BY SaysConfirm
    <3> QED BY <3>1 DEF Confirming, InHistory, Said
  <2> QED BY <2>2, <2>3, NodeParts DEF Phase
<1> QED BY <1>1, <1>2 DEF Own

(* Node n says st, and nothing else is said. *)
Tells(n, st) ==
    /\ votedPrepare' = Federated!Add(votedPrepare, n, VotedPrepare(st))
    /\ acceptedPrepare' = Federated!Add(acceptedPrepare, n, AcceptedPrepare(st))
    /\ votedCommit' = Federated!Add(votedCommit, n, VotedCommit(st))
    /\ acceptedCommit' = Federated!Add(acceptedCommit, n, AcceptedCommit(st))
    /\ externalized' = Federated!Add(externalized, n, ExternalizedValue(st))

LEMMA AddSame ==
    ASSUME NEW X, NEW f \in [Honest -> X], NEW n \in Honest, NEW S, NEW T,
           f[n] \cup S = f[n] \cup T
    PROVE  Federated!Add(f, n, S) = Federated!Add(f, n, T)
BY DEF Federated!Add

LEMMA AddNothing ==
    ASSUME NEW X, NEW f \in [Honest -> X], NEW n \in Honest, NEW S, S \subseteq f[n]
    PROVE  Federated!Add(f, n, S) = f
<1>1. f[n] \cup S = f[n]
  OBVIOUS
<1> QED BY <1>1 DEF Federated!Add

LEMMA HistoryFunctions ==
    ASSUME Federated!TypeOK
    PROVE  /\ votedPrepare \in [Honest -> SUBSET Federated!RealBallot]
           /\ acceptedPrepare \in [Honest -> SUBSET Federated!RealBallot]
           /\ votedCommit \in [Honest -> SUBSET Federated!RealBallot]
           /\ acceptedCommit \in [Honest -> SUBSET Federated!RealBallot]
           /\ externalized \in [Honest -> SUBSET Value]
BY DEF Federated!TypeOK

(* Saying nothing new is a stuttering step. *)
LEMMA SaysNothingNew ==
    ASSUME Federated!TypeOK, NEW n \in Honest, NEW st, InHistory(n, st), Tells(n, st)
    PROVE  UNCHANGED history
<1>1. /\ votedPrepare' = votedPrepare /\ acceptedPrepare' = acceptedPrepare
      /\ votedCommit' = votedCommit /\ acceptedCommit' = acceptedCommit
      /\ externalized' = externalized
  BY HistoryFunctions, AddNothing DEF Tells, InHistory
<1> QED BY <1>1 DEF history

(* What the new statement st of node n does to the abstract state. *)
Explained(n, st) ==
    /\ Tells(n, st) => Federated!Next \/ UNCHANGED history
    /\ Standing(votedPrepare[n] \cup VotedPrepare(st),
                acceptedPrepare[n] \cup AcceptedPrepare(st),
                votedCommit[n] \cup VotedCommit(st), st)

-----------------------------------------------------------------------------
(* The moves, one by one: each is a step of federated voting. *)

Context(v, u, hint, st) ==
    /\ Federated!TypeOK
    /\ v \in NodeState /\ ProperState(v) /\ Recorded(v.M)
    /\ u \in NodeState /\ ProperState(u) /\ checkInvariants(u) /\ Says(st, u)
    /\ hint \in Statement /\ WellFormed(hint)

LEMMA AcceptsPreparedStep ==
    ASSUME NEW n \in Honest, NEW v, NEW u, NEW hint, NEW st, Context(v, u, hint, st),
           Preparing(n, v), NEW z \in Ballot, AcceptsPrepared(n, v, u, hint, z)
    PROVE  Explained(n, st)
<1> DEFINE VP == votedPrepare[n]
           AP == acceptedPrepare[n]
           VC == votedCommit[n]
           new == Federated!Down(u.p) \cup Federated!Down(u.pp)
<1>1. /\ v \in NodeState /\ u \in NodeState /\ ProperState(u) /\ checkInvariants(u)
      /\ checkInvariants(v) /\ Says(st, u)
      /\ u.b = v.b /\ u.h = v.h /\ u.phase = "PREPARE" /\ v.phase = "PREPARE"
      /\ u.c \in {v.c, NoBallot}
      /\ u.p \in {v.p, z} /\ u.pp \in {v.p, v.pp, z}
  BY SetPreparedProper DEF Context, Preparing, AcceptsPrepared
<1> USE <1>1
<1>2. Said(st, Federated!Down(u.b), new, CommitVotes(u), {}, {})
  BY SaysPrepare
<1>3. /\ Federated!Down(v.b) \subseteq VP
      /\ Federated!Down(v.p) \subseteq AP /\ Federated!Down(v.pp) \subseteq AP
      /\ CommitVotes(v) \subseteq VC
      /\ StandsPrepare(v, VP, AP, VC)
  BY DEF Preparing
<1> USE <1>3
<1>4. CommitVotes(u) \subseteq VC
  BY DEF CommitVotes
<1>5. z \in Federated!RealBallot \/ Federated!Down(z) = {}
  <2>1. Proper(z)
    BY ProperCandidates DEF Context, Recorded, AcceptsPrepared
  <2> QED BY <2>1, RealBallots, DownFacts
<1>6. Tells(n, st) => Federated!Next \/ UNCHANGED history
  <2>1. SUFFICES ASSUME Tells(n, st) PROVE Federated!Next \/ UNCHANGED history
    OBVIOUS
  <2> USE <2>1
  <2>2. CASE new \subseteq AP
    <3>1. InHistory(n, st)
      BY <1>2, <1>4, <2>2 DEF InHistory, Said
    <3> QED BY <3>1, SaysNothingNew DEF Context
  <2>3. CASE ~(new \subseteq AP)
    <3>1. z \in {u.p, u.pp}
      BY <2>3
    <3>2. z \in Federated!RealBallot
      BY <1>5, <2>3
    <3> USE <3>2
    <3>3. AP \cup new = AP \cup Federated!Down(z)
      BY <3>1
    <3>4. /\ votedPrepare' = votedPrepare /\ votedCommit' = votedCommit
          /\ acceptedCommit' = acceptedCommit /\ externalized' = externalized
      <4>1. /\ Federated!Down(u.b) \subseteq votedPrepare[n]
            /\ CommitVotes(u) \subseteq votedCommit[n]
        BY <1>4
      <4> QED BY <1>2, <4>1, HistoryFunctions, AddNothing DEF Tells, Said, Context
    <3>5. acceptedPrepare' = Federated!Add(acceptedPrepare, n, Federated!Down(z))
      <4>1. acceptedPrepare' = Federated!Add(acceptedPrepare, n, new)
        BY <1>2 DEF Tells, Said
      <4> HIDE DEF new
      <4>2. acceptedPrepare \in [Honest -> SUBSET Federated!RealBallot]
        BY HistoryFunctions DEF Context
      <4> QED BY ZenonT(30), <3>3, <4>1, <4>2, AddSame
    <3>6. Federated!FederatedAccept(n, {m \in Honest : z \in votedPrepare[m]},
                                    Federated!Prepared(z))
      BY AcceptsPreparedFederated DEF Context, AcceptsPrepared
    <3>7. Federated!AcceptPrepare(n, z)
      BY <3>4, <3>5, <3>6 DEF Federated!AcceptPrepare
    <3> QED BY <3>7 DEF Federated!Next
  <2> QED BY <2>2, <2>3
<1>7. StandsPrepare(u, VP, AP \cup new, VC)
  <2>1. ASSUME NEW b \in VC
        PROVE  \/ u.c # NoBallot /\ b.x = u.b.x /\ b.n <= u.h.n
               \/ \E y \in AP \cup new : areBallotsLessAndIncompatible(b, y)
    <3>1. CASE \E y \in AP : areBallotsLessAndIncompatible(b, y)
      BY <3>1
    <3>2. CASE (v.c # NoBallot /\ b.x = v.b.x /\ b.n <= v.h.n) /\ u.c = v.c
      BY <3>2
    <3>3. CASE (v.c # NoBallot /\ b.x = v.b.x /\ b.n <= v.h.n) /\ u.c # v.c
      <4> USE <3>3
      <4>1. PICK y \in {u.p, u.pp} : areBallotsLessAndIncompatible(v.h, y)
        BY DEF AcceptsPrepared
      <4> USE <4>1
      <4>2. v.h.x = v.b.x /\ v.h \in Ballot /\ y \in Ballot /\ Proper(y)
        BY NodeParts DEF checkInvariants, areBallotsLessAndCompatible, ProperState
      <4> USE <4>2
      <4>3. y # NoBallot
        BY SMT, BallotNumbers DEF areBallotsLessAndIncompatible, Less, NoBallot
      <4>4. y \in new
        BY <4>3, RealBallots, DownFacts
      <4>5. b.n \in Int
        BY HistoryFunctions, RealBallots DEF Context
      <4>6. areBallotsLessAndIncompatible(b, y)
        BY SMT, <4>5, BallotNumbers DEF areBallotsLessAndIncompatible, Less
      <4> QED BY <4>4, <4>6
    <3> QED BY <3>1, <3>2, <3>3 DEF StandsPrepare
  <2>2. /\ \A y \in VP : LessEq(y, u.b)
        /\ u.c # NoBallot => \A y \in VP : ~areBallotsLessAndIncompatible(u.c, y)
    BY DEF StandsPrepare
  <2> QED BY <2>1, <2>2 DEF StandsPrepare
<1>8. VP \cup VotedPrepare(st) = VP /\ AP \cup AcceptedPrepare(st) = AP \cup new
      /\ VC \cup VotedCommit(st) = VC
  BY <1>2, <1>4 DEF Said
<1>9. Standing(VP, AP \cup new, VC, st)
  <2> HIDE DEF VP, AP, VC, new
  <2> QED BY <1>7, StandingMeans
<1> QED BY <1>6, <1>8, <1>9 DEF Explained

(* Once the phase is CONFIRM nothing is left to stand by. *)
LEMMA PastVoting ==
    ASSUME NEW prepares, NEW prepared, NEW commits, NEW st,
           st.type \in {"CONFIRM", "EXTERNALIZE"}
    PROVE  Standing(prepares, prepared, commits, st)
BY DEF Standing

LEMMA RaisesPreparedStep ==
    ASSUME NEW n \in Honest, NEW v, NEW u, NEW hint, NEW st, Context(v, u, hint, st),
           Confirming(n, v), NEW z \in Ballot, AcceptsPrepared(n, v, u, hint, z)
    PROVE  Explained(n, st)
<1>1. /\ v \in NodeState /\ u \in NodeState /\ ProperState(u) /\ checkInvariants(u)
      /\ Says(st, u) /\ u.b = v.b /\ u.h = v.h /\ u.c = v.c /\ u.phase = "CONFIRM"
      /\ raisesPrepared(v, z) /\ v.phase = "CONFIRM"
      /\ u.p = setPrepared(v, z).p /\ z.x = v.b.x
  BY DEF Context, Confirming, AcceptsPrepared, areBallotsCompatible
<1> USE <1>1
<1>2. v.p \in Federated!RealBallot /\ v.b \in Federated!RealBallot
  BY DEF Confirming
<1>3. z \in Federated!RealBallot
  <2>1. Proper(z)
    BY ProperCandidates DEF Context, Recorded, AcceptsPrepared
  <2>2. z # NoBallot
    BY SMT, <1>2, RealBallots, BallotNumbers DEF NoBallot
  <2> QED BY <2>1, <2>2, RealBallots
<1> USE <1>3
<1>4. u.p = z
  <2>1. areBallotsLessAndCompatible(v.p, z) /\ ~areBallotsLessAndCompatible(z, v.p)
    BY <1>2, RealBallots DEF raisesPrepared
  <2>2. Less(v.p, z)
    BY SMT, <1>2, <2>1, RealBallots DEF areBallotsLessAndCompatible, Less
  <2> QED BY <2>2 DEF setPrepared, NodeState
<1>5. MakeBallot(u.p.n, u.b.x) = z
  BY <1>4 DEF MakeBallot, Ballot
<1>6. Said(st, Federated!OfValue(v.b.x), Federated!Down(z), {},
           Federated!Interval(v.c, v.h), {})
  BY <1>5, SaysConfirm
<1> USE <1>6
<1>7. ASSUME Tells(n, st) PROVE Federated!Next
  <2> USE <1>7
  <2>1. acceptedPrepare' = Federated!Add(acceptedPrepare, n, Federated!Down(z))
    BY DEF Tells, Said
  <2>2. /\ votedPrepare' = votedPrepare /\ votedCommit' = votedCommit
        /\ acceptedCommit' = acceptedCommit /\ externalized' = externalized
    <3>1. /\ Federated!OfValue(v.b.x) \subseteq votedPrepare[n]
          /\ Federated!Interval(v.c, v.h) \subseteq acceptedCommit[n]
      BY DEF Confirming
    <3> QED BY <3>1, HistoryFunctions, AddNothing DEF Tells, Said, Context
  <2>3. Federated!FederatedAccept(n, {m \in Honest : z \in votedPrepare[m]},
                                  Federated!Prepared(z))
    BY AcceptsPreparedFederated DEF Context, AcceptsPrepared
  <2>4. Federated!AcceptPrepare(n, z)
    BY <2>1, <2>2, <2>3 DEF Federated!AcceptPrepare
  <2> QED BY <2>4 DEF Federated!Next
<1>8. st.type = "CONFIRM"
  BY DEF Says
<1> QED BY SMT, <1>7, <1>8, PastVoting DEF Explained

LEMMA AcceptsCommitStep ==
    ASSUME NEW n \in Honest, NEW v, NEW u, NEW hint, NEW st, Context(v, u, hint, st),
           Preparing(n, v) \/ Confirming(n, v),
           NEW c \in Ballot, NEW h \in Ballot, AcceptsCommit(n, v, u, c, h)
    PROVE  Explained(n, st)
<1>1. /\ v \in NodeState /\ u \in NodeState /\ ProperState(u) /\ checkInvariants(u)
      /\ Says(st, u) /\ u.h = h /\ u.c = c /\ u.phase = "CONFIRM" /\ u.p = v.p
  BY DEF Context, AcceptsCommit
<1> USE <1>1
<1>2. /\ Said(st, Federated!OfValue(u.b.x), Federated!Down(MakeBallot(u.p.n, u.b.x)),
              {}, Federated!Interval(u.c, u.h), {})
      /\ c \in Federated!RealBallot /\ h \in Federated!RealBallot
      /\ u.p \in Federated!RealBallot
      /\ c.x = u.b.x /\ h.x = u.b.x /\ c.n <= h.n
  BY SaysConfirm
<1> USE <1>2
<1>3. PICK p \in acceptedPrepare[n] : p.n = u.p.n
  <2>1. CASE Preparing(n, v)
    <3>1. v.p \in Federated!Down(v.p)
      BY DownFacts
    <3> QED BY <2>1, <3>1 DEF Preparing
  <2>2. CASE Confirming(n, v)
    <3> USE <2>2
    <3> DEFINE p == MakeBallot(v.p.n, v.b.x)
    <3>1. p.n = v.p.n /\ p \in Federated!RealBallot
      BY DEF Confirming, MakeBallot, Federated!RealBallot
    <3> USE <3>1
    <3>2. p \in Federated!Down(p) /\ Federated!Down(p) \subseteq acceptedPrepare[n]
      BY DownFacts DEF Confirming
    <3> QED BY <3>2
  <2> QED BY <2>1, <2>2
<1> USE <1>3
<1>4. ASSUME Tells(n, st) PROVE Federated!Next
  <2> USE <1>4
  <2>1. /\ votedPrepare' = Federated!Add(votedPrepare, n, Federated!OfValue(c.x))
        /\ acceptedPrepare' = Federated!Add(acceptedPrepare, n,
                                            Federated!Down(MakeBallot(p.n, c.x)))
        /\ acceptedCommit' = Federated!Add(acceptedCommit, n, Federated!Interval(c, h))
    BY DEF Tells, Said
  <2>2. votedCommit' = votedCommit /\ externalized' = externalized
    BY HistoryFunctions, AddNothing DEF Tells, Said, Context
  <2>3. Federated!FederatedAccept(n, Federated!VotesCommit(c, h), Federated!Committed(c, h))
    BY AcceptsCommitFederated DEF Context, AcceptsCommit
  <2>4. Federated!MakeBallot(p.n, c.x) = MakeBallot(p.n, c.x)
    BY DEF Federated!MakeBallot, MakeBallot
  <2>5. Federated!areBallotsLessAndCompatible(c, h)
    BY DEF Federated!areBallotsLessAndCompatible
  <2>6. Federated!AcceptCommit(n, c, h, p)
    BY <2>1, <2>2, <2>3, <2>4, <2>5 DEF Federated!AcceptCommit
  <2> QED BY <2>6 DEF Federated!Next
<1>5. st.type = "CONFIRM"
  BY DEF Says
<1> QED BY SMT, <1>4, <1>5, PastVoting DEF Explained

LEMMA ConfirmsCommitStep ==
    ASSUME NEW n \in Honest, NEW v, NEW u, NEW hint, NEW st, Context(v, u, hint, st),
           Confirming(n, v), NEW c \in Ballot, NEW h \in Ballot, ConfirmsCommit(n, v, u, c, h)
    PROVE  Explained(n, st)
<1>1. /\ v \in NodeState /\ u \in NodeState /\ ProperState(u) /\ checkInvariants(u)
      /\ Says(st, u) /\ u.h = h /\ u.c = c /\ u.phase = "EXTERNALIZE"
      /\ c.x = h.x /\ c.n <= h.n /\ c.x = v.c.x
  BY DEF Context, ConfirmsCommit
<1> USE <1>1
<1>2. /\ Said(st, Federated!OfValue(c.x), Federated!OfValue(c.x), {},
              Federated!From(c), {c.x})
      /\ c \in Federated!RealBallot /\ h \in Federated!RealBallot
  BY SaysExternalize
<1> USE <1>2
<1>3. /\ Federated!OfValue(c.x) \subseteq votedPrepare[n]
      /\ v.c \in acceptedCommit[n]
  <2>1. v.c \in Federated!Interval(v.c, v.h)
    BY SMT, RealBallots DEF Confirming, Federated!Interval, Federated!OfValue
  <2> QED BY <2>1 DEF Confirming
<1> USE <1>3
<1>4. ASSUME Tells(n, st) PROVE Federated!Next
  <2> USE <1>4
  <2>1. /\ acceptedPrepare' = Federated!Add(acceptedPrepare, n, Federated!OfValue(c.x))
        /\ acceptedCommit' = Federated!Add(acceptedCommit, n, Federated!From(c))
        /\ externalized' = Federated!Add(externalized, n, {c.x})
    BY DEF Tells, Said
  <2>2. votedPrepare' = votedPrepare /\ votedCommit' = votedCommit
    BY HistoryFunctions, AddNothing DEF Tells, Said, Context
  <2>3. Federated!FederatedRatify(n, Federated!Committed(c, h))
    BY RatifiesCommitFederated DEF Context, ConfirmsCommit
  <2>4. Federated!areBallotsLessAndCompatible(c, h) /\ Federated!areBallotsCompatible(v.c, c)
    BY DEF Federated!areBallotsLessAndCompatible, Federated!areBallotsCompatible
  <2>5. Federated!ConfirmCommit(n, c, h)
    BY <2>1, <2>2, <2>3, <2>4 DEF Federated!ConfirmCommit
  <2> QED BY <2>5 DEF Federated!Next
<1>5. st.type = "EXTERNALIZE"
  BY DEF Says
<1> QED BY SMT, <1>4, <1>5, PastVoting DEF Explained

(* Within PREPARE, when the accepted ballots stay as they are: the ballot  *)
(* only rises, and a node that votes to commit keeps the value of its vote *)
(* and starts to vote only at or above its ballot.                         *)
Rises(v, u) ==
    /\ v.phase = "PREPARE" /\ u.phase = "PREPARE" /\ u.p = v.p /\ u.pp = v.pp
    /\ LessEq(v.b, u.b)
    /\ v.c # NoBallot => u.c = v.c /\ u.b.x = v.b.x /\ v.h.n <= u.h.n
    /\ u.c # NoBallot /\ v.c = NoBallot => LessEq(v.b, u.c)

LEMMA LessEqTransitive ==
    ASSUME NEW b1 \in Ballot, NEW b2 \in Ballot, NEW b3 \in Ballot,
           LessEq(b1, b2), LessEq(b2, b3)
    PROVE  LessEq(b1, b3)
BY LessTransitive DEF LessEq

LEMMA RisesFacts ==
    ASSUME NEW n \in Honest, NEW v, NEW u, NEW hint, NEW st, Context(v, u, hint, st),
           Preparing(n, v), Rises(v, u)
    PROVE  /\ Standing(votedPrepare[n] \cup VotedPrepare(st),
                       acceptedPrepare[n] \cup AcceptedPrepare(st),
                       votedCommit[n] \cup VotedCommit(st), st)
           /\ Said(st, Federated!Down(u.b), Federated!Down(u.p) \cup Federated!Down(u.pp),
                   CommitVotes(u), {}, {})
           /\ Federated!Down(u.p) \cup Federated!Down(u.pp) \subseteq acceptedPrepare[n]
           /\ \A z \in Federated!RealBallot : z.x = u.b.x => Federated!MayVotePrepare(n, z)
           /\ u.c # NoBallot =>
                \A z \in votedPrepare[n] : ~areBallotsLessAndIncompatible(u.c, z)
<1> DEFINE VP == votedPrepare[n]
           AP == acceptedPrepare[n]
           VC == votedCommit[n]
           more == Federated!Down(u.b)
           same == Federated!Down(u.p) \cup Federated!Down(u.pp)
<1>1. /\ v \in NodeState /\ u \in NodeState /\ ProperState(u) /\ checkInvariants(u)
      /\ Says(st, u) /\ u.phase = "PREPARE"
  BY DEF Context, Rises
<1>2. Said(st, more, same, CommitVotes(u), {}, {})
  BY <1>1, SaysPrepare
<1>3. same \subseteq AP /\ StandsPrepare(v, VP, AP, VC)
  BY DEF Preparing, Rises
<1> USE <1>3
<1>4. /\ VP \subseteq Federated!RealBallot /\ VC \subseteq Federated!RealBallot
      /\ more \subseteq Federated!RealBallot
  BY HistoryFunctions, DownFacts DEF Context
<1>5. /\ v.b \in Ballot /\ u.b \in Ballot /\ u.c \in Ballot /\ u.h \in Ballot /\ v.h \in Ballot
      /\ v.h.n \in Int /\ u.h.n \in Int
  BY <1>1, NodeParts, BallotNumbers
<1> USE <1>5
<1>6. u.c # NoBallot => u.c.x = u.b.x /\ u.h.x = u.b.x
  BY <1>1 DEF checkInvariants, areBallotsLessAndCompatible
<1>7. ASSUME NEW b \in VC
      PROVE  \/ u.c # NoBallot /\ b.x = u.b.x /\ b.n <= u.h.n
             \/ \E z \in AP : areBallotsLessAndIncompatible(b, z)
  <2>1. b.n \in Int
    BY <1>4, RealBallots
  <2>2. \/ v.c # NoBallot /\ b.x = v.b.x /\ b.n <= v.h.n
        \/ \E z \in AP : areBallotsLessAndIncompatible(b, z)
    BY DEF StandsPrepare
  <2> QED BY SMT, <2>1, <2>2 DEF Rises
<1>8. ASSUME NEW b \in CommitVotes(u)
      PROVE  u.c # NoBallot /\ b.x = u.b.x /\ b.n <= u.h.n
  BY <1>6 DEF CommitVotes, Federated!Interval, Federated!OfValue
<1>9. ASSUME NEW z \in VP \cup more PROVE LessEq(z, u.b)
  <2>1. CASE z \in VP
    <3>1. LessEq(z, v.b) /\ LessEq(v.b, u.b) /\ z \in Ballot
      BY <1>4, <2>1, RealBallots DEF StandsPrepare, Rises
    <3> QED BY <3>1, LessEqTransitive
  <2>2. CASE z \in more
    <3>1. z.x = u.b.x /\ z.n <= u.b.n /\ z \in Ballot
      BY <1>4, <2>2, DownFacts, RealBallots
    <3> QED BY SMT, <3>1, BallotEqual, BallotNumbers DEF LessEq, Less
  <2> QED BY <2>1, <2>2
<1>10. ASSUME u.c # NoBallot, NEW z \in VP \cup more
       PROVE  ~areBallotsLessAndIncompatible(u.c, z)
  <2> USE <1>10
  <2>1. CASE z \in more
    BY <1>6, <2>1, DownFacts DEF areBallotsLessAndIncompatible
  <2>2. CASE z \in VP /\ v.c # NoBallot
    BY <2>2 DEF StandsPrepare, Rises
  <2>3. CASE z \in VP /\ v.c = NoBallot
    <3>1. LessEq(z, v.b) /\ LessEq(v.b, u.c) /\ z \in Ballot
      BY <1>4, <2>3, RealBallots DEF StandsPrepare, Rises
    <3> USE <3>1
    <3>2. LessEq(z, u.c)
      BY LessEqTransitive
    <3> QED BY <3>2, LessTotal DEF LessEq, areBallotsLessAndIncompatible
  <2> QED BY <2>1, <2>2, <2>3
<1> USE <1>10
<1>11. StandsPrepare(u, VP \cup more, AP \cup same, VC \cup CommitVotes(u))
  BY <1>7, <1>8, <1>9 DEF StandsPrepare
<1>12. Standing(VP \cup more, AP \cup same, VC \cup CommitVotes(u), st)
  <2> HIDE DEF VP, AP, VC, more, same
  <2> QED BY <1>1, <1>11, StandingMeans
<1>13. ASSUME NEW z \in Federated!RealBallot, z.x = u.b.x PROVE Federated!MayVotePrepare(n, z)
  <2>1. ASSUME NEW b \in VC, areBallotsLessAndIncompatible(b, z)
        PROVE  \E y \in AP : areBallotsLessAndIncompatible(b, y)
    BY <1>7, <1>13, <2>1 DEF areBallotsLessAndIncompatible
  <2> QED BY <2>1 DEF Federated!MayVotePrepare, Federated!Aborts,
        areBallotsLessAndIncompatible, Federated!areBallotsLessAndIncompatible,
        Less, Federated!Less
<1> QED BY <1>2, <1>12, <1>13 DEF Said

(* The ballot rises and nothing new is voted to commit. *)
LEMMA VotePrepareStep ==
    ASSUME NEW n \in Honest, NEW v, NEW u, NEW hint, NEW st, Context(v, u, hint, st),
           Preparing(n, v), Rises(v, u), CommitVotes(u) \subseteq votedCommit[n]
    PROVE  Explained(n, st)
<1>1. /\ Said(st, Federated!Down(u.b), Federated!Down(u.p) \cup Federated!Down(u.pp),
              CommitVotes(u), {}, {})
      /\ Federated!Down(u.p) \cup Federated!Down(u.pp) \subseteq acceptedPrepare[n]
      /\ \A z \in Federated!RealBallot : z.x = u.b.x => Federated!MayVotePrepare(n, z)
  BY RisesFacts
<1> USE <1>1
<1>2. ASSUME Tells(n, st) PROVE Federated!Next \/ UNCHANGED history
  <2> USE <1>2
  <2>1. CASE u.b = NoBallot
    <3>1. InHistory(n, st)
      BY SMT, <2>1, DownFacts DEF InHistory, Said
    <3> QED BY <3>1, SaysNothingNew DEF Context
  <2>2. CASE u.b # NoBallot
    <3>1. u.b \in Federated!RealBallot
      BY <2>2, NodeParts, RealBallots DEF Context, ProperState
    <3> USE <3>1
    <3>2. votedPrepare' = Federated!Add(votedPrepare, n, Federated!Down(u.b))
      BY DEF Tells, Said
    <3>3. /\ acceptedPrepare' = acceptedPrepare /\ votedCommit' = votedCommit
          /\ acceptedCommit' = acceptedCommit /\ externalized' = externalized
      BY HistoryFunctions, AddNothing DEF Tells, Said, Context
    <3>4. Federated!VotePrepare(n, u.b)
      BY <3>2, <3>3 DEF Federated!VotePrepare
    <3> QED BY <3>4 DEF Federated!Next
  <2> QED BY <2>1, <2>2
<1> QED BY <1>2, RisesFacts DEF Explained

LEMMA ConfirmsPreparedStep ==
    ASSUME NEW n \in Honest, NEW v, NEW u, NEW hint, NEW st, Context(v, u, hint, st),
           Preparing(n, v), NEW newC \in Ballot, NEW newH \in Ballot,
           ConfirmsPrepared(n, v, u, hint, newC, newH)
    PROVE  Explained(n, st)
<1>1. /\ v \in NodeState /\ u \in NodeState /\ ProperState(u)
      /\ checkInvariants(u) /\ checkInvariants(v)
      /\ v.b \in Ballot /\ u.b \in Ballot /\ v.h \in Ballot /\ u.h \in Ballot /\ u.c \in Ballot
  BY NodeParts DEF Context, Preparing
<1>2. /\ v.phase = "PREPARE" /\ u.phase = "PREPARE" /\ u.p = v.p /\ u.pp = v.pp
      /\ Less(v.h, newH) /\ ratifiesPrepared(n, v, newH)
  BY DEF ConfirmsPrepared
<1>3. newH \in Federated!RealBallot
  <2>1. Proper(newH)
    BY ProperCandidates DEF Context, Recorded, ConfirmsPrepared
  <2>2. newH # NoBallot
    BY SMT, <1>1, <1>2, BallotNumbers DEF Less, NoBallot
  <2> QED BY <2>1, <2>2, RealBallots
<1>4. v.h.n <= newH.n
  BY SMT, <1>1, <1>2, BallotNumbers DEF Less
<1>5. \/ u.b = v.b /\ v.b # NoBallot /\ ~Less(v.b, newH)
      \/ u.b = newH /\ LessEq(v.b, newH)
  <2>1. LessEq(NoBallot, newH)
    BY SMT, <1>3, RealBallots DEF LessEq, Less, NoBallot
  <2> QED BY <2>1 DEF ConfirmsPrepared, LessEq
<1>6. LessEq(v.b, u.b)
  BY <1>5 DEF LessEq
<1>7. v.c # NoBallot => u.c = v.c /\ v.b # NoBallot /\ v.h # NoBallot /\ v.h.x = v.b.x
  BY <1>1 DEF ConfirmsPrepared, checkInvariants, areBallotsLessAndCompatible
<1>8. CASE u.c = NoBallot
  <2> USE <1>8
  <2>1. v.c = NoBallot
    BY <1>7
  <2>2. Rises(v, u)
    BY <1>2, <1>6, <2>1 DEF Rises
  <2>3. CommitVotes(u) \subseteq votedCommit[n]
    BY DEF CommitVotes
  <2> QED BY <2>2, <2>3, VotePrepareStep
<1>9. CASE u.c # NoBallot /\ v.b # NoBallot /\ ~areBallotsCompatible(v.b, newH)
  <2> USE <1>9
  <2>1. u.c = v.c
    BY DEF ConfirmsPrepared
  <2> USE <2>1
  <2>2. ~Less(v.b, newH)
    <3>1. SUFFICES ASSUME Less(v.b, newH) PROVE FALSE
      OBVIOUS
    <3>2. ~areBallotsCompatible(newH, v.h)
      BY <1>7 DEF areBallotsCompatible
    <3>3. u.h = NoBallot
      BY <3>1, <3>2 DEF ConfirmsPrepared
    <3> QED BY <1>1, <3>3 DEF checkInvariants
  <2>3. u.b = v.b /\ u.h = v.h
    BY <2>2 DEF ConfirmsPrepared
  <2> USE <2>3
  <2>4. Rises(v, u)
    BY SMT, <1>1, <1>2, <1>6, BallotNumbers DEF Rises
  <2>5. CommitVotes(u) \subseteq votedCommit[n]
    BY DEF CommitVotes, Preparing
  <2> QED BY <2>4, <2>5, VotePrepareStep
<1>10. CASE u.c # NoBallot /\ (v.b = NoBallot \/ areBallotsCompatible(v.b, newH))
  <2> USE <1>10
  <2>1. u.h = newH
    BY DEF ConfirmsPrepared, areBallotsCompatible
  <2>2. v.c = NoBallot => LessEq(v.b, u.c)
    BY DEF ConfirmsPrepared
  <2>3. v.c # NoBallot => u.b.x = v.b.x
    BY <1>5, <1>7 DEF areBallotsCompatible
  <2>4. Rises(v, u)
    BY <1>2, <1>4, <1>6, <1>7, <2>1, <2>2, <2>3 DEF Rises
  <2>5. /\ u.c \in Federated!RealBallot /\ u.c.x = newH.x /\ u.c.n <= newH.n
        /\ newH.x = u.b.x
    <3>1. u.c \in Federated!RealBallot
      BY <1>1, RealBallots DEF ProperState
    <3> QED BY <1>1, <2>1, <3>1 DEF checkInvariants, areBallotsLessAndCompatible
  <2>6. /\ Said(st, Federated!Down(u.b), Federated!Down(u.p) \cup Federated!Down(u.pp),
                CommitVotes(u), {}, {})
        /\ Federated!Down(u.p) \cup Federated!Down(u.pp) \subseteq acceptedPrepare[n]
        /\ Federated!MayVotePrepare(n, newH)
        /\ \A z \in votedPrepare[n] : ~areBallotsLessAndIncompatible(u.c, z)
    BY <1>3, <2>4, <2>5, RisesFacts
  <2> USE <2>6
  <2>7. CommitVotes(u) = Federated!Interval(u.c, newH)
    BY <2>1 DEF CommitVotes
  <2>8. votedPrepare[n] \cup Federated!Down(u.b) = votedPrepare[n] \cup Federated!Down(newH)
    <3>1. CASE u.b = newH
      BY <3>1
    <3>2. CASE u.b = v.b /\ v.b # NoBallot /\ ~Less(v.b, newH)
      <4> USE <3>2
      <4>1. newH.n <= v.b.n /\ newH.x = v.b.x
        BY SMT, <1>1, BallotNumbers DEF Less, areBallotsCompatible
      <4> USE <4>1
      <4>2. ASSUME NEW z \in Federated!Down(newH) PROVE z \in Federated!Down(v.b)
        <5>1. z \in Federated!RealBallot /\ z.x = v.b.x /\ z.n <= newH.n
          BY DownFacts
        <5> USE <5>1
        <5>2. z.n <= v.b.n
          BY SMT, <1>1, <1>3, RealBallots, BallotNumbers
        <5> QED BY <5>2, DownFacts
      <4>3. Federated!Down(v.b) \subseteq votedPrepare[n]
        BY DEF Preparing
      <4> QED BY <4>2, <4>3
    <3> QED BY <1>5, <3>1, <3>2
  <2>9. ASSUME Tells(n, st) PROVE Federated!Next
    <3> USE <2>9
    <3>1. votedCommit' = Federated!Add(votedCommit, n, Federated!Interval(u.c, newH))
      BY <2>7 DEF Tells, Said
    <3>2. votedPrepare' = Federated!Add(votedPrepare, n, Federated!Down(newH))
      <4>1. votedPrepare' = Federated!Add(votedPrepare, n, Federated!Down(u.b))
        BY DEF Tells, Said
      <4>2. votedPrepare \in [Honest -> SUBSET Federated!RealBallot]
        BY HistoryFunctions DEF Context
      <4> QED BY ZenonT(30), <2>8, <4>1, <4>2, AddSame
    <3>3. /\ acceptedPrepare' = acceptedPrepare /\ acceptedCommit' = acceptedCommit
          /\ externalized' = externalized
      BY HistoryFunctions, AddNothing DEF Tells, Said, Context
    <3>4. Federated!FederatedRatify(n, Federated!Prepared(newH))
      BY <1>2, <1>3, RatifiesPreparedFederated DEF Context
    <3>5. /\ Federated!areBallotsLessAndCompatible(u.c, newH)
          /\ \A z \in votedPrepare[n] : ~Federated!Aborts(z, u.c)
      BY <2>5 DEF Federated!areBallotsLessAndCompatible, Federated!Aborts,
         areBallotsLessAndIncompatible, Federated!areBallotsLessAndIncompatible,
         Less, Federated!Less
    <3>6. Federated!ConfirmPrepare(n, u.c, newH)
      BY <3>1, <3>2, <3>3, <3>4, <3>5 DEF Federated!ConfirmPrepare
    <3> QED BY <1>3, <2>5, <3>6 DEF Federated!Next
  <2> QED BY <2>4, <2>9, RisesFacts DEF Explained
<1> QED BY <1>8, <1>9, <1>10

LEMMA BumpsStep ==
    ASSUME NEW n \in Honest, NEW v, NEW u, NEW hint, NEW st, Context(v, u, hint, st),
           Preparing(n, v) \/ Confirming(n, v), NEW ballot \in Ballot, Bumps(v, u, ballot)
    PROVE  Explained(n, st)
<1>1. /\ v \in NodeState /\ u \in NodeState /\ ProperState(u)
      /\ checkInvariants(u) /\ checkInvariants(v) /\ Says(st, u)
      /\ u.b = ballot /\ u.c = v.c /\ u.p = v.p /\ u.pp = v.pp /\ u.phase = v.phase
      /\ LessEq(v.b, u.b) /\ v.h.n \in Int
  BY NodeParts, BallotNumbers DEF Context, Preparing, Confirming, Bumps, LessEq
<1> USE <1>1
<1>2. v.c # NoBallot => v.c.x = v.h.x /\ v.h.x = v.b.x
  BY DEF checkInvariants, areBallotsLessAndCompatible
<1>3. v.c # NoBallot => u.b.x = v.b.x /\ u.h = v.h
  BY <1>2 DEF Bumps, areBallotsCompatible
<1> USE <1>3
<1>4. CASE Preparing(n, v)
  <2> USE <1>4
  <2>1. Rises(v, u)
    BY SMT DEF Rises, Preparing
  <2>2. CommitVotes(u) \subseteq votedCommit[n]
    BY DEF CommitVotes, Preparing
  <2> QED BY <2>1, <2>2, VotePrepareStep
<1>5. CASE Confirming(n, v)
  <2> USE <1>5
  <2>1. u.phase = "CONFIRM" /\ u.b.x = v.b.x /\ u.h = v.h
    BY RealBallots DEF Confirming
  <2> USE <2>1
  <2>2. Said(st, Federated!OfValue(v.b.x), Federated!Down(MakeBallot(v.p.n, v.b.x)),
             {}, Federated!Interval(v.c, v.h), {})
    BY SaysConfirm
  <2>3. InHistory(n, st)
    BY <2>2 DEF InHistory, Said, Confirming
  <2>4. Tells(n, st) => UNCHANGED history
    BY <2>3, SaysNothingNew DEF Context
  <2>5. st.type = "CONFIRM"
    BY DEF Says
  <2> QED BY SMT, <2>4, <2>5, PastVoting DEF Explained
<1> QED BY <1>4, <1>5

(* Whatever a node says when it moves its ballots is a step of federated   *)
(* voting.                                                                 *)
LEMMA SpeakStep ==
    ASSUME NEW n \in Honest, NEW s, NEW t, Spoke(n, s, t), Federated!TypeOK, Recorded(s.M),
           Standing(votedPrepare[n], acceptedPrepare[n], votedCommit[n], s.M[n])
    PROVE  Explained(n, t.M[n])
<1>1. PICK v \in NodeState, u \in NodeState : \E hint \in Statement :
         /\ Own(n, v) /\ ProperState(v) /\ v.M = s.M /\ WellFormed(hint)
         /\ Moved(n, v, u, hint) /\ checkInvariants(u) /\ ProperState(u)
         /\ t.M = [s.M EXCEPT ![n] = createStatement(u)]
  BY DEF Spoke
<1>2. PICK hint \in Statement :
         /\ Own(n, v) /\ ProperState(v) /\ v.M = s.M /\ WellFormed(hint)
         /\ Moved(n, v, u, hint) /\ checkInvariants(u) /\ ProperState(u)
         /\ t.M = [s.M EXCEPT ![n] = createStatement(u)]
  BY <1>1
<1> USE <1>2
<1> DEFINE st == createStatement(u)
<1>3. t.M[n] = st
  BY HonestNodes DEF Recorded
<1>4. Says(st, u)
  BY CreatedStatement
<1> HIDE DEF st
<1>5. Context(v, u, hint, st)
  BY <1>4 DEF Context
<1> USE <1>5
<1>6. InHistory(n, v.M[n]) /\ v.phase # "EXTERNALIZE"
      /\ Standing(votedPrepare[n], acceptedPrepare[n], votedCommit[n], v.M[n])
  BY MoveBasics DEF Recorded
<1>7. Preparing(n, v) \/ Confirming(n, v)
  BY <1>6, OwnPhase
<1> USE <1>7
<1>8. ASSUME NEW z \in Ballot, AcceptsPrepared(n, v, u, hint, z) PROVE Explained(n, st)
  BY <1>8, AcceptsPreparedStep, RaisesPreparedStep
<1>9. ASSUME NEW newC \in Ballot, NEW newH \in Ballot,
             ConfirmsPrepared(n, v, u, hint, newC, newH)
      PROVE  Explained(n, st)
  <2> USE <1>9
  <2>1. Preparing(n, v)
    BY DEF ConfirmsPrepared, Confirming
  <2> QED BY <2>1, ConfirmsPreparedStep
<1>10. ASSUME NEW c \in Ballot, NEW h \in Ballot, AcceptsCommit(n, v, u, c, h)
       PROVE  Explained(n, st)
  BY <1>10, AcceptsCommitStep
<1>11. ASSUME NEW c \in Ballot, NEW h \in Ballot, ConfirmsCommit(n, v, u, c, h)
       PROVE  Explained(n, st)
  <2> USE <1>11
  <2>1. Confirming(n, v)
    BY DEF ConfirmsCommit, Preparing
  <2> QED BY <2>1, ConfirmsCommitStep
<1>12. ASSUME NEW ballot \in Ballot, Bumps(v, u, ballot) PROVE Explained(n, st)
  BY <1>12, BumpsStep
<1>13. Explained(n, st)
  BY <1>8, <1>9, <1>10, <1>11, <1>12 DEF Moved
<1> QED BY <1>3, <1>13
=============================================================================

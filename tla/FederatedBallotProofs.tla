----------------------- MODULE FederatedBallotProofs -----------------------
(***************************************************************************)
(* Agreement of FederatedBallot for every set of nodes, every choice of    *)
(* slices that satisfies NetworkAssumption, every set of values and every  *)
(* bound on the counters.                                                  *)
(***************************************************************************)
EXTENDS FederatedBallot, TLAPS

(* b1 is dead: some quorum has voted to abort it without ever having voted *)
(* to commit it, and its members may not do so any more.                   *)
Rejects(n, b1) ==
    /\ b1 \notin votedCommit[n]
    /\ \E b \in votedPrepare[n] : Aborts(b, b1)

Dead(b1) ==
    \E n \in Honest : \E U \in QuorumFor(n) : \A m \in U \cap Honest : Rejects(m, b1)

AbortAccepted(b1) ==
    \E m \in Honest : \E b \in acceptedPrepare[m] : Aborts(b, b1)

(* b0 carried a commit through: a quorum voted to commit it, and an honest *)
(* node had accepted it as prepared.                                       *)
Root(b0) ==
    /\ \E n \in Honest : \E U \in QuorumFor(n) : \A m \in U \cap Honest : b0 \in votedCommit[m]
    /\ \E m \in Honest : b0 \in acceptedPrepare[m]

Rooted(b) == \E b0 \in RealBallot : areBallotsLessAndCompatible(b0, b) /\ Root(b0)

(* The parts of the inductive invariant. *)
DownClosed ==
    \A n \in Honest : \A b \in acceptedPrepare[n] : Down(b) \subseteq acceptedPrepare[n]

CommitVotesPrepared ==
    \A n \in Honest : \A b \in votedCommit[n] : \E m \in Honest : b \in acceptedPrepare[m]

NoContradiction ==
    \A n \in Honest : \A b1 \in votedCommit[n] : \A b2 \in votedPrepare[n] :
        Aborts(b2, b1) => AbortAccepted(b1)

AbortedIsDead ==
    \A b1 \in RealBallot : AbortAccepted(b1) => Dead(b1)

CommitsRooted ==
    \A n \in Honest : \A b \in acceptedCommit[n] : Rooted(b)

CommittersPrepare ==
    \A n \in Honest : \A b \in acceptedCommit[n] : OfValue(b.x) \subseteq votedPrepare[n]

ExternalizedCommitted ==
    \A n \in Honest : \A x \in externalized[n] :
        /\ \E b \in acceptedCommit[n] : b.x = x
        /\ OfValue(x) \subseteq acceptedPrepare[n]

IInv ==
    /\ TypeOK
    /\ DownClosed
    /\ CommitVotesPrepared
    /\ NoContradiction
    /\ AbortedIsDead
    /\ CommitsRooted
    /\ CommittersPrepare
    /\ ExternalizedCommitted

-----------------------------------------------------------------------------
(* Facts about the order of ballots (compareBallots and the two "less and" *)
(* predicates).                                                            *)

(* What a ballot aborts, every higher compatible ballot aborts, and so are *)
(* the lower compatible ones of what it aborts.                            *)
LEMMA AbortsMonotone ==
    ASSUME NEW b1 \in RealBallot, NEW b2 \in RealBallot,
           NEW lower \in RealBallot, NEW higher \in RealBallot,
           Aborts(b2, b1),
           areBallotsLessAndCompatible(lower, b1),
           areBallotsLessAndCompatible(b2, higher)
    PROVE  Aborts(higher, lower)
BY BallotAssumption
DEF Aborts, areBallotsLessAndIncompatible, areBallotsLessAndCompatible, Less, RealBallot

LEMMA CompatibleReflexive ==
    ASSUME NEW b \in RealBallot
    PROVE  areBallotsLessAndCompatible(b, b)
BY BallotAssumption DEF areBallotsLessAndCompatible, RealBallot

LEMMA CompatibleTransitive ==
    ASSUME NEW b1 \in RealBallot, NEW b2 \in RealBallot, NEW b3 \in RealBallot,
           areBallotsLessAndCompatible(b1, b2), areBallotsLessAndCompatible(b2, b3)
    PROVE  areBallotsLessAndCompatible(b1, b3)
BY BallotAssumption DEF areBallotsLessAndCompatible, RealBallot

(* Of two ballots with different values one aborts the other. *)
LEMMA AbortsTotal ==
    ASSUME NEW b1 \in RealBallot, NEW b2 \in RealBallot, b1.x # b2.x
    PROVE  Aborts(b1, b2) \/ Aborts(b2, b1)
<1>1. b1.n \in Int /\ b2.n \in Int
  BY BallotAssumption DEF RealBallot
<1>2. b1.x \in Value /\ b2.x \in Value
  BY DEF RealBallot
<1>3. \A v \in Value : v \in Int
  BY BallotAssumption
<1>4. b1.x \in Int /\ b2.x \in Int
  BY <1>2, <1>3
<1> QED BY <1>1, <1>4 DEF Aborts, areBallotsLessAndIncompatible, Less

-----------------------------------------------------------------------------
(* A ballot that carried a commit through is never accepted as aborted:    *)
(* the quorum that voted to commit it meets the quorum that rejects it.    *)
LEMMA RootNotAborted ==
    ASSUME IInv, NEW b0 \in RealBallot, Root(b0)
    PROVE  ~AbortAccepted(b0)
<1>1. SUFFICES ASSUME Dead(b0) PROVE FALSE
  BY DEF IInv, AbortedIsDead
<1>2. PICK n \in Honest : \E U \in QuorumFor(n) : \A m \in U \cap Honest : Rejects(m, b0)
  BY <1>1 DEF Dead
<1>3. PICK U \in QuorumFor(n) : \A m \in U \cap Honest : Rejects(m, b0)
  BY <1>2
<1>4. PICK k \in Honest : \E V \in QuorumFor(k) : \A m \in V \cap Honest : b0 \in votedCommit[m]
  BY DEF Root
<1>5. PICK V \in QuorumFor(k) : \A m \in V \cap Honest : b0 \in votedCommit[m]
  BY <1>4
<1>6. U \cap V \cap Honest # {}
  BY NetworkAssumption
<1> QED BY <1>3, <1>5, <1>6 DEF Rejects

(* Two such ballots have the same value: otherwise one aborts the other,   *)
(* and it was accepted as prepared.                                        *)
LEMMA RootsCompatible ==
    ASSUME IInv, NEW b1 \in RealBallot, NEW b2 \in RealBallot, Root(b1), Root(b2)
    PROVE  b1.x = b2.x
<1>1. SUFFICES ASSUME b1.x # b2.x PROVE FALSE
  OBVIOUS
<1>2. ~AbortAccepted(b1) /\ ~AbortAccepted(b2)
  BY RootNotAborted
<1>3. CASE Aborts(b1, b2)
  BY <1>2, <1>3 DEF Root, AbortAccepted
<1>4. CASE Aborts(b2, b1)
  BY <1>2, <1>4 DEF Root, AbortAccepted
<1> QED BY <1>1, <1>3, <1>4, AbortsTotal

(* Hence no two honest nodes accept to commit different values. *)
LEMMA CommitsCompatible ==
    ASSUME IInv, NEW n \in Honest, NEW m \in Honest,
           NEW b1 \in acceptedCommit[n], NEW b2 \in acceptedCommit[m]
    PROVE  b1.x = b2.x
<1>1. Rooted(b1) /\ Rooted(b2)
  BY DEF IInv, CommitsRooted
<1> QED BY <1>1, RootsCompatible DEF Rooted, areBallotsLessAndCompatible

(* What attemptAcceptCommit may accept is rooted. *)
LEMMA AcceptableIsRooted ==
    ASSUME IInv, NEW n \in Honest, NEW c \in RealBallot, NEW h \in RealBallot,
           areBallotsLessAndCompatible(c, h),
           FederatedAccept(n, VotesCommit(c, h), Committed(c, h))
    PROVE  Rooted(c)
<1>1. c \in Interval(c, h)
  BY BallotAssumption DEF Interval, OfValue, areBallotsLessAndCompatible, RealBallot
<1>2. ASSUME NEW m \in Honest, NEW b \in acceptedCommit[m], areBallotsLessAndCompatible(b, c)
      PROVE  Rooted(c)
  <2>1. b \in RealBallot /\ Rooted(b)
    BY <1>2 DEF IInv, TypeOK, CommitsRooted
  <2>2. PICK b0 \in RealBallot : areBallotsLessAndCompatible(b0, b) /\ Root(b0)
    BY <2>1 DEF Rooted
  <2> QED BY <1>2, <2>1, <2>2, CompatibleTransitive DEF Rooted
<1>3. ASSUME NEW m \in Committed(c, h) PROVE Rooted(c)
  BY <1>1, <1>2, <1>3, CompatibleReflexive DEF Committed
<1>4. CASE \E B \in BlockingFor(n) : B \cap Honest \subseteq Committed(c, h)
  BY <1>3, <1>4, NetworkAssumption
<1>5. CASE \E U \in QuorumFor(n) : U \cap Honest \subseteq VotesCommit(c, h) \cup Committed(c, h)
  <2>1. PICK U \in QuorumFor(n) : U \cap Honest \subseteq VotesCommit(c, h) \cup Committed(c, h)
    BY <1>5
  <2>2. CASE \A m \in U \cap Honest : c \in votedCommit[m]
    <3>1. PICK m \in Honest : m \in U
      BY NetworkAssumption
    <3>2. \E k \in Honest : c \in acceptedPrepare[k]
      BY <2>2, <3>1 DEF IInv, CommitVotesPrepared
    <3> QED BY <2>2, <3>2, CompatibleReflexive DEF Root, Rooted
  <2>3. CASE \E m \in U \cap Honest : c \notin votedCommit[m]
    <3>1. PICK m \in U \cap Honest : c \notin votedCommit[m]
      BY <2>3
    <3>2. m \in Committed(c, h) \/ \E b \in acceptedCommit[m] : areBallotsLessAndCompatible(b, c)
      BY <1>1, <2>1, <3>1 DEF VotesCommit
    <3> QED BY <1>2, <1>3, <3>2
  <2> QED BY <2>2, <2>3
<1>6. CASE Settled(Committed(c, h))
  BY <1>3, <1>6 DEF Settled
<1> QED BY <1>4, <1>5, <1>6 DEF FederatedAccept

-----------------------------------------------------------------------------
(* What honest nodes have said is never unsaid, and stays well typed. *)
Grows ==
    \A n \in Honest : /\ votedPrepare[n] \subseteq votedPrepare'[n]
                      /\ acceptedPrepare[n] \subseteq acceptedPrepare'[n]
                      /\ votedCommit[n] \subseteq votedCommit'[n]
                      /\ acceptedCommit[n] \subseteq acceptedCommit'[n]

LEMMA StepsGrow ==
    ASSUME TypeOK, Next
    PROVE  TypeOK' /\ Grows
<1>1. ASSUME NEW S, NEW f \in [Honest -> SUBSET S], NEW n \in Honest, NEW T \in SUBSET S
      PROVE  /\ Add(f, n, T) \in [Honest -> SUBSET S]
             /\ \A m \in Honest : f[m] \subseteq Add(f, n, T)[m]
  BY DEF Add
<1>2. \A b \in RealBallot, c \in RealBallot :
         /\ \A p : Down(p) \subseteq RealBallot
         /\ OfValue(b.x) \subseteq RealBallot
         /\ Interval(c, b) \subseteq RealBallot
         /\ From(c) \subseteq RealBallot
         /\ {c.x} \subseteq Value
  BY DEF Down, OfValue, Interval, From, RealBallot
<1>3. PICK n \in Honest, b \in RealBallot :
         \/ VotePrepare(n, b)
         \/ AcceptPrepare(n, b)
         \/ \E h \in RealBallot : \/ ConfirmPrepare(n, b, h)
                                  \/ \E p \in acceptedPrepare[n] : AcceptCommit(n, b, h, p)
                                  \/ ConfirmCommit(n, b, h)
  BY DEF Next
<1>4. CASE VotePrepare(n, b)
  BY <1>1, <1>2, <1>4, Zenon DEF VotePrepare, TypeOK, Grows
<1>5. CASE AcceptPrepare(n, b)
  BY <1>1, <1>2, <1>5, Zenon DEF AcceptPrepare, TypeOK, Grows
<1>6. ASSUME NEW h \in RealBallot, ConfirmPrepare(n, b, h) PROVE TypeOK' /\ Grows
  BY <1>1, <1>2, <1>6, Zenon DEF ConfirmPrepare, TypeOK, Grows
<1>7. ASSUME NEW h \in RealBallot, NEW p, AcceptCommit(n, b, h, p) PROVE TypeOK' /\ Grows
  BY <1>1, <1>2, <1>7, Zenon DEF AcceptCommit, TypeOK, Grows
<1>8. ASSUME NEW h \in RealBallot, ConfirmCommit(n, b, h) PROVE TypeOK' /\ Grows
  BY <1>1, <1>2, <1>8, Zenon DEF ConfirmCommit, TypeOK, Grows
<1> QED BY <1>3, <1>4, <1>5, <1>6, <1>7, <1>8

LEMMA RootedStable ==
    ASSUME Grows, NEW b, Rooted(b)
    PROVE  Rooted(b)'
<1>1. PICK b0 \in RealBallot : areBallotsLessAndCompatible(b0, b) /\ Root(b0)
  BY DEF Rooted
<1>2. Root(b0)'
  BY <1>1 DEF Root, Grows
<1> QED BY <1>1, <1>2 DEF Rooted

(* A dead ballot stays dead: ConfirmPrepare, the only step that adds votes *)
(* to commit, adds none for a ballot the node has voted to abort.          *)
LEMMA DeadStable ==
    ASSUME TypeOK, Next, NEW b1 \in RealBallot, Dead(b1)
    PROVE  Dead(b1)'
<1>1. Grows
  BY StepsGrow
<1>2. ASSUME NEW m \in Honest, Rejects(m, b1) PROVE b1 \notin votedCommit'[m]
  <2>1. PICK b \in votedPrepare[m] : Aborts(b, b1)
    BY <1>2 DEF Rejects
  <2>2. b \in RealBallot
    BY <2>1 DEF TypeOK
  <2>3. CASE UNCHANGED votedCommit
    BY <1>2, <2>3 DEF Rejects
  <2>4. ASSUME NEW n \in Honest, NEW c \in RealBallot, NEW h \in RealBallot,
               ConfirmPrepare(n, c, h)
        PROVE  b1 \notin votedCommit'[m]
    <3>1. CASE n # m
      BY <1>2, <2>4, <3>1 DEF ConfirmPrepare, Add, Rejects, TypeOK
    <3>2. CASE n = m
      <4>1. ~Aborts(b, c)
        BY <2>1, <2>4, <3>2 DEF ConfirmPrepare
      <4>2. ASSUME b1 \in Interval(c, h) PROVE FALSE
        <5>1. areBallotsLessAndCompatible(c, b1)
          BY <4>2 DEF Interval, OfValue, areBallotsLessAndCompatible
        <5> QED BY <2>1, <2>2, <4>1, <5>1, AbortsMonotone, CompatibleReflexive
      <4> QED BY <1>2, <2>4, <3>2, <4>2 DEF ConfirmPrepare, Add, Rejects, TypeOK
    <3> QED BY <3>1, <3>2
  <2> QED BY <2>3, <2>4 DEF Next, VotePrepare, AcceptPrepare, AcceptCommit, ConfirmCommit
<1>3. ASSUME NEW m \in Honest, Rejects(m, b1) PROVE Rejects(m, b1)'
  BY <1>1, <1>2, <1>3 DEF Rejects, Grows
<1> QED BY <1>3 DEF Dead

-----------------------------------------------------------------------------
(* The steps preserve the invariant.  Each lemma is about one action and   *)
(* proves the parts that the action can disturb; the rest follows from     *)
(* Grows, RootedStable and DeadStable.                                     *)

(* The parts that only need that nothing is unsaid. *)
LEMMA AbortedStaysDead ==
    ASSUME IInv, Next, NEW b1 \in RealBallot, AbortAccepted(b1)
    PROVE  AbortAccepted(b1)' /\ Dead(b1)'
<1>1. Grows
  BY StepsGrow DEF IInv
<1>2. AbortAccepted(b1)'
  BY <1>1 DEF AbortAccepted, Grows
<1>3. Dead(b1)'
  BY DeadStable DEF IInv, AbortedIsDead
<1> QED BY <1>2, <1>3

LEMMA VotePreparePreserves ==
    ASSUME IInv, NEW n \in Honest, NEW b \in RealBallot, VotePrepare(n, b), Next
    PROVE  IInv'
<1>1. TypeOK' /\ Grows
  BY StepsGrow DEF IInv
<1>2. UNCHANGED <<acceptedPrepare, votedCommit, acceptedCommit, externalized>>
  BY DEF VotePrepare
<1>3. DownClosed' /\ CommitVotesPrepared' /\ ExternalizedCommitted'
  BY <1>2 DEF IInv, DownClosed, CommitVotesPrepared, ExternalizedCommitted
<1>4. CommittersPrepare'
  BY <1>1, <1>2 DEF IInv, CommittersPrepare, Grows
<1>5. CommitsRooted'
  BY <1>1, <1>2, RootedStable DEF IInv, CommitsRooted
<1>6. AbortedIsDead'
  <2>1. \A b1 \in RealBallot : AbortAccepted(b1)' => AbortAccepted(b1)
    BY <1>2 DEF AbortAccepted
  <2> QED BY <2>1, AbortedStaysDead DEF AbortedIsDead
<1>7. NoContradiction'
  <2>1. SUFFICES ASSUME NEW m \in Honest, NEW b1 \in votedCommit[m],
                        NEW b2 \in votedPrepare'[m], Aborts(b2, b1)
                 PROVE  AbortAccepted(b1)
    BY <1>2 DEF NoContradiction, AbortAccepted
  <2>2. b1 \in RealBallot /\ b2 \in RealBallot
    BY <1>1, <2>1 DEF IInv, TypeOK
  <2>3. CASE b2 \in votedPrepare[m]
    BY <2>1, <2>3 DEF IInv, NoContradiction
  <2>4. CASE m = n /\ b2 \in Down(b)
    <3>1. Aborts(b, b1)
      BY <2>1, <2>2, <2>4, AbortsMonotone, CompatibleReflexive DEF Down
    <3> QED BY <2>1, <2>4, <3>1 DEF VotePrepare, MayVotePrepare, AbortAccepted
  <2> QED BY <2>1, <2>3, <2>4 DEF VotePrepare, Add, IInv, TypeOK
<1> QED BY <1>1, <1>3, <1>4, <1>5, <1>6, <1>7 DEF IInv

(* The first honest node to accept that b1 is aborted saw a quorum vote    *)
(* so, and no member had voted to commit b1.                               *)
LEMMA AcceptPreparePreserves ==
    ASSUME IInv, NEW n \in Honest, NEW b \in RealBallot, AcceptPrepare(n, b), Next
    PROVE  IInv'
<1>1. TypeOK' /\ Grows
  BY StepsGrow DEF IInv
<1>2. UNCHANGED <<votedPrepare, votedCommit, acceptedCommit, externalized>>
  BY DEF AcceptPrepare
<1>3. \A m \in Honest : acceptedPrepare'[m] \subseteq acceptedPrepare[m] \cup Down(b)
  BY DEF AcceptPrepare, Add, IInv, TypeOK
<1>4. DownClosed'
  <2>1. \A b1 \in Down(b) : Down(b1) \subseteq Down(b)
    BY CompatibleTransitive DEF Down
  <2> QED BY <2>1 DEF AcceptPrepare, Add, IInv, TypeOK, DownClosed
<1>5. CommitVotesPrepared'
  BY <1>1, <1>2 DEF IInv, CommitVotesPrepared, Grows
<1>6. CommittersPrepare' /\ ExternalizedCommitted'
  BY <1>1, <1>2 DEF IInv, CommittersPrepare, ExternalizedCommitted, Grows
<1>7. CommitsRooted'
  BY <1>1, <1>2, RootedStable DEF IInv, CommitsRooted
<1>8. NoContradiction'
  BY <1>1, <1>2 DEF IInv, NoContradiction, AbortAccepted, Grows
<1>9. AbortedIsDead'
  <2>1. SUFFICES ASSUME NEW b1 \in RealBallot, AbortAccepted(b1)', ~AbortAccepted(b1)
                 PROVE  Dead(b1)'
    BY AbortedStaysDead DEF AbortedIsDead
  <2>2. PICK b2 \in Down(b) : Aborts(b2, b1)
    BY <1>3, <2>1 DEF AbortAccepted
  <2>3. Aborts(b, b1)
    BY <2>2, AbortsMonotone, CompatibleReflexive DEF Down
  <2>4. Prepared(b) = {}
    BY <2>1, <2>3 DEF Prepared, AbortAccepted
  <2>5. PICK U \in QuorumFor(n) : U \cap Honest \subseteq {m \in Honest : b \in votedPrepare[m]}
    BY <2>4, NetworkAssumption DEF AcceptPrepare, FederatedAccept, Settled
  <2>6. \A m \in U \cap Honest : Rejects(m, b1)
    BY <2>1, <2>3, <2>5 DEF Rejects, IInv, NoContradiction
  <2>7. Dead(b1)
    BY <2>6 DEF Dead
  <2> QED BY <2>7, DeadStable DEF IInv
<1> QED BY <1>1, <1>4, <1>5, <1>6, <1>7, <1>8, <1>9 DEF IInv

(* A vote to commit is cast for prepared ballots only, and contradicts no  *)
(* vote to prepare.                                                        *)
LEMMA ConfirmPreparePreserves ==
    ASSUME IInv, NEW n \in Honest, NEW c \in RealBallot, NEW h \in RealBallot,
           ConfirmPrepare(n, c, h), Next
    PROVE  IInv'
<1>1. TypeOK' /\ Grows
  BY StepsGrow DEF IInv
<1>2. UNCHANGED <<acceptedPrepare, acceptedCommit, externalized>>
  BY DEF ConfirmPrepare
<1>3. \A m \in Honest :
         /\ votedCommit'[m] = IF m = n THEN votedCommit[m] \cup Interval(c, h) ELSE votedCommit[m]
         /\ votedPrepare'[m] = IF m = n THEN votedPrepare[m] \cup Down(h) ELSE votedPrepare[m]
  BY Zenon DEF ConfirmPrepare, Add, IInv, TypeOK
<1>4. \A b \in Interval(c, h) : /\ b \in RealBallot
                                /\ areBallotsLessAndCompatible(c, b)
                                /\ areBallotsLessAndCompatible(b, h)
  BY DEF Interval, OfValue, areBallotsLessAndCompatible, ConfirmPrepare
<1>5. DownClosed' /\ ExternalizedCommitted'
  BY <1>2 DEF IInv, DownClosed, ExternalizedCommitted
<1>6. CommitVotesPrepared'
  <2>1. PICK m \in Honest : h \in acceptedPrepare[m]
    <3>1. CASE \E U \in QuorumFor(n) : U \cap Honest \subseteq Prepared(h)
      BY <3>1, NetworkAssumption DEF Prepared
    <3>2. CASE Settled(Prepared(h))
      BY <3>2 DEF Settled, Prepared
    <3> QED BY <3>1, <3>2 DEF ConfirmPrepare, FederatedRatify
  <2>2. \A b \in Interval(c, h) : b \in acceptedPrepare[m]
    BY <1>4, <2>1 DEF IInv, DownClosed, Down
  <2> QED BY <1>2, <1>3, <2>2, Zenon DEF IInv, CommitVotesPrepared
<1>7. CommittersPrepare'
  BY <1>1, <1>2 DEF IInv, CommittersPrepare, Grows
<1>8. CommitsRooted'
  BY <1>1, <1>2, RootedStable DEF IInv, CommitsRooted
<1>9. AbortedIsDead'
  <2>1. \A b1 \in RealBallot : AbortAccepted(b1)' => AbortAccepted(b1)
    BY <1>2 DEF AbortAccepted
  <2> QED BY <2>1, AbortedStaysDead DEF AbortedIsDead
<1>10. NoContradiction'
  <2>1. SUFFICES ASSUME NEW m \in Honest, NEW b1 \in votedCommit'[m],
                        NEW b2 \in votedPrepare'[m], Aborts(b2, b1)
                 PROVE  AbortAccepted(b1)
    BY <1>2 DEF NoContradiction, AbortAccepted
  <2>2. b1 \in RealBallot /\ b2 \in RealBallot
    BY <1>1, <2>1 DEF TypeOK
  <2>3. CASE b1 \in votedCommit[m] /\ b2 \in votedPrepare[m]
    BY <2>1, <2>3 DEF IInv, NoContradiction
  <2>4. CASE m = n /\ b1 \in votedCommit[m] /\ b2 \in Down(h)
    <3>1. Aborts(h, b1)
      BY <2>1, <2>2, <2>4, AbortsMonotone, CompatibleReflexive DEF Down
    <3> QED BY <2>1, <2>4, <3>1 DEF ConfirmPrepare, MayVotePrepare, AbortAccepted
  <2>5. CASE m = n /\ b1 \in Interval(c, h) /\ b2 \in votedPrepare[m]
    <3>1. Aborts(b2, c)
      BY <1>4, <2>1, <2>2, <2>5, AbortsMonotone, CompatibleReflexive
    <3> QED BY <2>5, <3>1 DEF ConfirmPrepare
  <2>6. CASE b1 \in Interval(c, h) /\ b2 \in Down(h)
    BY <1>4, <2>1, <2>6
    DEF Down, Aborts, areBallotsLessAndIncompatible, areBallotsLessAndCompatible
  <2> QED BY <1>3, <2>1, <2>3, <2>4, <2>5, <2>6, Zenon
<1> QED BY <1>1, <1>5, <1>6, <1>7, <1>8, <1>9, <1>10 DEF IInv

(* Accepting a commit votes to prepare every ballot of its value.  A       *)
(* commit vote that this contradicts is below the root, hence aborted.     *)
(* What the CONFIRM statement says to be prepared some node had accepted   *)
(* already: p itself, or a ballot below the root.                          *)
LEMMA AcceptCommitPreserves ==
    ASSUME IInv, NEW n \in Honest, NEW c \in RealBallot, NEW h \in RealBallot,
           NEW p \in acceptedPrepare[n], AcceptCommit(n, c, h, p), Next
    PROVE  IInv'
<1> DEFINE q == MakeBallot(p.n, c.x)
<1>1. TypeOK' /\ Grows
  BY StepsGrow DEF IInv
<1>2. UNCHANGED <<votedCommit, externalized>>
  BY DEF AcceptCommit
<1>3. \A m \in Honest :
         /\ acceptedCommit'[m] =
               IF m = n THEN acceptedCommit[m] \cup Interval(c, h) ELSE acceptedCommit[m]
         /\ votedPrepare'[m] =
               IF m = n THEN votedPrepare[m] \cup OfValue(c.x) ELSE votedPrepare[m]
         /\ acceptedPrepare'[m] =
               IF m = n THEN acceptedPrepare[m] \cup Down(q) ELSE acceptedPrepare[m]
  BY Zenon DEF AcceptCommit, Add, IInv, TypeOK
<1>4. \A b \in Interval(c, h) : /\ b \in RealBallot
                                /\ b.x = c.x
                                /\ areBallotsLessAndCompatible(c, b)
  BY DEF Interval, OfValue, areBallotsLessAndCompatible
<1>5. PICK b0 \in RealBallot : areBallotsLessAndCompatible(b0, c) /\ Root(b0)
  BY AcceptableIsRooted DEF AcceptCommit, Rooted
<1>5a. p \in RealBallot /\ q \in RealBallot /\ q.n = p.n /\ q.x = c.x
  BY DEF IInv, TypeOK, RealBallot, MakeBallot
<1>5b. PICK l \in Honest : q \in acceptedPrepare[l]
  <2>1. CASE p.x = c.x
    BY <1>5a, <2>1 DEF RealBallot
  <2>2. CASE p.x # c.x
    <3>1. p.x # b0.x
      BY <1>5, <2>2 DEF areBallotsLessAndCompatible
    <3>2. ~Aborts(p, b0)
      BY <1>5, RootNotAborted DEF AbortAccepted
    <3>3. Aborts(b0, p)
      BY <1>5a, <3>1, <3>2, AbortsTotal
    <3>4. q \in Down(b0)
      <4>1. p.n \in Int /\ b0.n \in Int
        BY <1>5a DEF RealBallot
      <4>2. p.n <= b0.n
        BY <3>3, <4>1 DEF Aborts, areBallotsLessAndIncompatible, Less
      <4> QED BY <1>5, <1>5a, <4>2 DEF Down, areBallotsLessAndCompatible
    <3> QED BY <1>5, <3>4 DEF Root, IInv, DownClosed
  <2> QED BY <2>1, <2>2
<1> HIDE DEF q
<1>6. DownClosed' /\ CommitVotesPrepared'
  <2>1. \A b1 \in Down(q) : Down(b1) \subseteq Down(q)
    BY <1>5a, CompatibleTransitive DEF Down
  <2>2. DownClosed'
    BY <1>3, <2>1, Zenon DEF IInv, DownClosed
  <2> QED BY <1>1, <1>2, <2>2 DEF IInv, CommitVotesPrepared, Grows
<1>7. ExternalizedCommitted'
  BY <1>1, <1>2 DEF IInv, ExternalizedCommitted, Grows
<1>8. CommittersPrepare'
  <2>1. SUFFICES ASSUME NEW m \in Honest, NEW b \in acceptedCommit'[m]
                 PROVE  OfValue(b.x) \subseteq votedPrepare'[m]
    BY DEF CommittersPrepare
  <2>2. CASE b \in acceptedCommit[m]
    BY <1>1, <2>2 DEF IInv, CommittersPrepare, Grows
  <2>3. CASE m = n /\ b \in Interval(c, h)
    BY <1>3, <1>4, <2>3, Zenon
  <2> QED BY <1>3, <2>1, <2>2, <2>3, Zenon
<1>9. CommitsRooted'
  <2>1. \A b \in Interval(c, h) : Rooted(b)
    BY <1>4, <1>5, CompatibleTransitive DEF Rooted
  <2>2. \A m \in Honest : \A b \in acceptedCommit'[m] : Rooted(b)
    BY <1>3, <2>1, Zenon DEF IInv, CommitsRooted
  <2> QED BY <1>1, <2>2, RootedStable DEF CommitsRooted
<1>10. AbortedIsDead'
  <2>1. ASSUME NEW b1 \in RealBallot, AbortAccepted(b1)' PROVE AbortAccepted(b1)
    <3>1. PICK m \in Honest : \E b \in acceptedPrepare'[m] : Aborts(b, b1)
      BY <2>1 DEF AbortAccepted
    <3>1a. PICK b \in acceptedPrepare'[m] : Aborts(b, b1)
      BY <3>1
    <3>2. CASE b \in acceptedPrepare[m]
      BY <3>1a, <3>2 DEF AbortAccepted
    <3>3. CASE b \in Down(q)
      <4>1. b \in RealBallot /\ areBallotsLessAndCompatible(b, q)
        BY <3>3 DEF Down
      <4>2. Aborts(q, b1)
        BY <1>5a, <2>1, <3>1a, <4>1, AbortsMonotone, CompatibleReflexive
      <4> QED BY <1>5b, <4>2 DEF AbortAccepted
    <3> QED BY <1>3, <3>1a, <3>2, <3>3, Zenon
  <2> QED BY <2>1, AbortedStaysDead DEF AbortedIsDead
<1>11. NoContradiction'
  <2>1. SUFFICES ASSUME NEW m \in Honest, NEW b1 \in votedCommit[m],
                        NEW b2 \in votedPrepare'[m], Aborts(b2, b1)
                 PROVE  AbortAccepted(b1)
    BY <1>1, <1>2 DEF NoContradiction, AbortAccepted, Grows
  <2>2. b1 \in RealBallot /\ \E k \in Honest : b1 \in acceptedPrepare[k]
    BY DEF IInv, TypeOK, CommitVotesPrepared
  <2>3. CASE b2 \in votedPrepare[m]
    BY <2>1, <2>3 DEF IInv, NoContradiction
  <2>4. CASE b2 \in OfValue(c.x)
    <3>1. b1.x # b0.x
      BY <1>5, <2>1, <2>4
      DEF OfValue, Aborts, areBallotsLessAndIncompatible, areBallotsLessAndCompatible
    <3>2. ~Aborts(b1, b0)
      BY <1>5, <2>2, RootNotAborted DEF AbortAccepted
    <3>3. Aborts(b0, b1)
      BY <2>2, <3>1, <3>2, AbortsTotal
    <3> QED BY <1>5, <3>3 DEF Root, AbortAccepted
  <2> QED BY <1>3, <2>1, <2>3, <2>4, Zenon
<1> QED BY <1>1, <1>6, <1>7, <1>8, <1>9, <1>10, <1>11 DEF IInv

(* Externalizing accepts every ballot of the value as prepared.  A ballot  *)
(* that this aborts for the first time is rejected by the quorum that      *)
(* accepted the commit.                                                    *)
LEMMA ConfirmCommitPreserves ==
    ASSUME IInv, NEW n \in Honest, NEW c \in RealBallot, NEW h \in RealBallot,
           ConfirmCommit(n, c, h), Next
    PROVE  IInv'
<1>1. TypeOK' /\ Grows
  BY StepsGrow DEF IInv
<1>2. UNCHANGED <<votedPrepare, votedCommit>>
  BY DEF ConfirmCommit
<1>3. \A m \in Honest :
         /\ acceptedCommit'[m] =
               IF m = n THEN acceptedCommit[m] \cup From(c) ELSE acceptedCommit[m]
         /\ acceptedPrepare'[m] =
               IF m = n THEN acceptedPrepare[m] \cup OfValue(c.x) ELSE acceptedPrepare[m]
         /\ externalized'[m] =
               IF m = n THEN externalized[m] \cup {c.x} ELSE externalized[m]
  BY Zenon DEF ConfirmCommit, Add, IInv, TypeOK
<1>4. c \in Interval(c, h) /\ c \in From(c)
  BY BallotAssumption
  DEF ConfirmCommit, Interval, From, OfValue, areBallotsLessAndCompatible, RealBallot
<1>5. PICK k \in Honest : c \in acceptedCommit[k]
  <2>1. CASE \E U \in QuorumFor(n) : U \cap Honest \subseteq Committed(c, h)
    BY <1>4, <2>1, NetworkAssumption DEF Committed
  <2>2. CASE Settled(Committed(c, h))
    BY <1>4, <2>2 DEF Settled, Committed
  <2> QED BY <2>1, <2>2 DEF ConfirmCommit, FederatedRatify
<1>6. DownClosed'
  <2>1. \A b \in OfValue(c.x) : Down(b) \subseteq OfValue(c.x)
    BY DEF Down, OfValue, areBallotsLessAndCompatible
  <2> QED BY <1>3, <2>1, Zenon DEF IInv, DownClosed
<1>7. CommitVotesPrepared'
  BY <1>1, <1>2 DEF IInv, CommitVotesPrepared, Grows
<1>8. NoContradiction'
  BY <1>1, <1>2 DEF IInv, NoContradiction, AbortAccepted, Grows
<1>9. ExternalizedCommitted'
  <2>1. SUFFICES ASSUME NEW m \in Honest, NEW x \in externalized'[m]
                 PROVE  /\ \E b \in acceptedCommit'[m] : b.x = x
                        /\ OfValue(x) \subseteq acceptedPrepare'[m]
    BY DEF ExternalizedCommitted
  <2>2. CASE x \in externalized[m]
    BY <1>1, <2>2 DEF IInv, ExternalizedCommitted, Grows
  <2>3. CASE m = n /\ x = c.x
    BY <1>3, <1>4, <2>3, Zenon
  <2> QED BY <1>3, <2>1, <2>2, <2>3, Zenon
<1>10. CommittersPrepare'
  <2>1. PICK b \in acceptedCommit[n] : areBallotsCompatible(b, c)
    BY DEF ConfirmCommit
  <2>2. OfValue(c.x) \subseteq votedPrepare[n]
    BY <2>1 DEF IInv, CommittersPrepare, areBallotsCompatible
  <2>3. \A b1 \in From(c) : b1.x = c.x
    BY DEF From, OfValue
  <2> QED BY <1>2, <1>3, <2>2, <2>3, Zenon DEF IInv, CommittersPrepare
<1>11. CommitsRooted'
  <2>1. PICK b0 \in RealBallot : areBallotsLessAndCompatible(b0, c) /\ Root(b0)
    BY <1>5 DEF IInv, CommitsRooted, Rooted
  <2>2. \A b \in From(c) : b \in RealBallot /\ areBallotsLessAndCompatible(c, b)
    BY DEF From, OfValue, areBallotsLessAndCompatible
  <2>3. \A b \in From(c) : Rooted(b)
    BY <2>1, <2>2, CompatibleTransitive DEF Rooted
  <2>4. \A m \in Honest : \A b \in acceptedCommit'[m] : Rooted(b)
    BY <1>3, <2>3, Zenon DEF IInv, CommitsRooted
  <2> QED BY <1>1, <2>4, RootedStable DEF CommitsRooted
<1>12. AbortedIsDead'
  <2>1. SUFFICES ASSUME NEW b1 \in RealBallot, AbortAccepted(b1)', ~AbortAccepted(b1)
                 PROVE  Dead(b1)'
    BY AbortedStaysDead DEF AbortedIsDead
  <2>2. PICK b2 \in OfValue(c.x) : Aborts(b2, b1)
    BY <1>3, <2>1, Zenon DEF AbortAccepted
  <2>3. ASSUME NEW m \in Honest, c \in acceptedCommit[m] PROVE Rejects(m, b1)
    <3>1. b2 \in votedPrepare[m]
      BY <2>3 DEF IInv, CommittersPrepare
    <3> QED BY <2>1, <2>2, <3>1 DEF Rejects, IInv, NoContradiction
  <2>4. CASE \E U \in QuorumFor(n) : U \cap Honest \subseteq Committed(c, h)
    <3>1. Dead(b1)
      BY <1>4, <2>3, <2>4 DEF Committed, Dead
    <3> QED BY <3>1, DeadStable DEF IInv
  <2>5. CASE Settled(Committed(c, h))
    <3>1. PICK m \in Honest : c \in acceptedCommit[m] /\ externalized[m] # {}
      BY <1>4, <2>5 DEF Settled, Committed
    <3>2. PICK x \in externalized[m] : OfValue(x) \subseteq acceptedPrepare[m]
      BY <3>1 DEF IInv, ExternalizedCommitted
    <3>3. x = c.x
      BY <3>1, <3>2, CommitsCompatible DEF IInv, ExternalizedCommitted
    <3> QED BY <2>1, <2>2, <3>2, <3>3 DEF AbortAccepted
  <2> QED BY <2>4, <2>5 DEF ConfirmCommit, FederatedRatify
<1> QED BY <1>1, <1>6, <1>7, <1>8, <1>9, <1>10, <1>11, <1>12 DEF IInv

-----------------------------------------------------------------------------
LEMMA InvariantInitially == Init => IInv
BY DEF Init, IInv, TypeOK, DownClosed, CommitVotesPrepared, NoContradiction, AbortedIsDead,
       AbortAccepted, CommitsRooted, CommittersPrepare, ExternalizedCommitted

LEMMA InvariantPreserved == IInv /\ [Next]_vars => IInv'
<1> SUFFICES ASSUME IInv, [Next]_vars PROVE IInv'
  OBVIOUS
<1>1. CASE UNCHANGED vars
  BY <1>1
  DEF vars, IInv, TypeOK, DownClosed, CommitVotesPrepared, NoContradiction, AbortedIsDead,
      AbortAccepted, Dead, Rejects, CommitsRooted, Rooted, Root, CommittersPrepare,
      ExternalizedCommitted
<1>2. CASE Next
  BY <1>2, VotePreparePreserves, AcceptPreparePreserves, ConfirmPreparePreserves,
     AcceptCommitPreserves, ConfirmCommitPreserves
  DEF Next
<1> QED BY <1>1, <1>2

(* Every reachable state satisfies the inductive invariant. *)
THEOREM InvariantHolds == Spec => []IInv
BY InvariantInitially, InvariantPreserved, PTL DEF Spec

(* The sets of what the honest nodes have said stay well typed. *)
THEOREM TypeCorrect == Spec => []TypeOK
<1>1. IInv => TypeOK
  BY DEF IInv
<1> QED BY <1>1, InvariantHolds, PTL

(* Safety of the ballot protocol: whatever the quorum slices, as long as   *)
(* quorums intersect in an honest node and honest nodes cannot be blocked  *)
(* by the others alone, no two honest nodes externalize different values.  *)
THEOREM AgreementHolds == Spec => []Agreement
<1>1. IInv => Agreement
  BY CommitsCompatible DEF IInv, ExternalizedCommitted, Agreement
<1> QED BY <1>1, InvariantHolds, PTL

=============================================================================

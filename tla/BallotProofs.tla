---------------------------- MODULE BallotProofs ----------------------------
(***************************************************************************)
(* Safety of BallotProtocol for every network, every set of values, every  *)
(* bound on the counters and every choice of what nomination produces and  *)
(* validation answers.                                                     *)
(***************************************************************************)
EXTENDS BallotProtocol, BallotOutcomeProofs

(* Zenon proves what names no other prover. *)
USE Zenon

-----------------------------------------------------------------------------
(* The inductive invariant of one node n, of which S is what it has sent.  *)

(* Statement and checks depend on nothing but the ballots and the phase. *)
LEMMA SameStatement ==
    ASSUME NEW s \in NodeState, NEW t \in NodeState, SameBallots(s, t)
    PROVE  /\ createStatement(t) = createStatement(s)
           /\ checkInvariants(t) = checkInvariants(s)
BY DEF SameBallots, createStatement, checkInvariants

-----------------------------------------------------------------------------
(* Validation: what the node has emitted names only values it has fully    *)
(* validated, and so does its latest statement while it may be emitted.    *)

ValidFor(n, st) ==
    \A x \in getStatementValues(st) : Validity[n][x] = "fullyValidated"

Trusted(n, s, S) ==
    /\ s.fullyValidated => ValidFor(n, s.M[n])
    /\ ValidFor(n, s.emit)
    /\ \A st \in S : ValidFor(n, st)

-----------------------------------------------------------------------------
(* Order: each statement is newer than what was emitted before. *)

Ordered(s, S) ==
    /\ s.emit = s.last \/ isNewerStatement(s.emit, s.last)
    /\ \A st \in S : /\ st \in Statement /\ st.type # "NONE"
                     /\ st = s.emit \/ isNewerStatement(st, s.emit)

(* A node that names no ballot has sent nothing. *)
LEMMA NothingSent ==
    ASSUME NEW n \in Node, NEW s \in NodeState, NEW S,
           Own(n, s), Ordered(s, S), s.b = NoBallot
    PROVE  S = {} /\ s.last = NoStatement /\ s.emit = NoStatement
<1>1. s.last = NoStatement /\ NoStatement.type = "NONE"
  BY DEF Own, NoStatement
<1> USE <1>1
<1>2. \A st \in Statement : ~isNewerStatement(st, NoStatement)
  BY StatementTypes, NewerKeeps
<1> USE <1>2
<1>3. s.emit = NoStatement
  BY NodeParts DEF Ordered
<1> QED BY <1>3 DEF Ordered

(* Nothing a node has sent is newer than its own record. *)
LEMMA SentIsOld ==
    ASSUME NEW n \in Node, NEW s \in NodeState, NEW S,
           Own(n, s), Ordered(s, S), NEW st \in S
    PROVE  ~isNewerStatement(s.M[n], st)
<1>1. s.b # NoBallot /\ s.last = s.M[n]
  BY NothingSent DEF Own
<1>2. st \in Statement /\ s.emit \in Statement /\ s.last \in Statement
  BY NodeParts DEF Ordered
<1> USE <1>2
<1>3. st = s.last \/ isNewerStatement(st, s.last)
  BY NewerTransitive DEF Ordered
<1>4. ~isNewerStatement(st, st)
  BY NewerKeeps
<1> QED BY <1>1, <1>3, <1>4, NewerTransitive

-----------------------------------------------------------------------------
(* Hearing from a quorum. *)

Here(s) == {m \in Senders(s) : s.M[m].type = "PREPARE" => s.b.n <= s.M[m].b.n}

HeardOK(n, s) ==
    /\ s.heard => s.b # NoBallot /\ isQuorum(QSetOf[n], Here(s), Externalized(s))
    /\ s.b = NoBallot => ~s.timer

(* With newer statements the same nodes are still at the counter. *)
LEMMA HereGrows ==
    ASSUME NEW n \in Node, NEW s \in NodeState, NEW t \in NodeState,
           t.b.n = s.b.n, NEW m \in Node, NEW st \in Statement,
           isNewerStatement(s.M[m], st), t.M = [s.M EXCEPT ![m] = st],
           isQuorum(QSetOf[n], Here(s), Externalized(s))
    PROVE  isQuorum(QSetOf[n], Here(t), Externalized(t))
<1>1. s.M \in [Node -> Statement] /\ s.M[m] \in Statement /\ s.b.n \in Nat
  BY NodeParts, BallotNumbers
<1> USE <1>1
<1>2. t.M[m] = st /\ \A k \in Node \ {m} : t.M[k] = s.M[k]
  OBVIOUS
<1> USE <1>2
<1>3. /\ st.type # "NONE" /\ s.M[m].type # "EXTERNALIZE"
      /\ s.M[m].type = "CONFIRM" => st.type \in {"CONFIRM", "EXTERNALIZE"}
      /\ s.M[m].type = "PREPARE" /\ st.type = "PREPARE" => s.M[m].b.n <= st.b.n
  BY NewerKeeps
<1> USE <1>3
<1>4. s.M[m].b.n \in Nat /\ st.b.n \in Nat /\ s.M[m].type \in StatementType
  BY StatementParts, BallotNumbers
<1>5. m \in Here(s) => m \in Here(t)
  BY SMT, <1>4 DEF Here, Senders, StatementType
<1>6. Here(s) \subseteq Here(t)
  BY <1>5 DEF Here, Senders
<1>7. Externalized(s) \subseteq Externalized(t)
  BY DEF Externalized
<1>8. /\ Here(s) \in SUBSET Node /\ Here(t) \in SUBSET Node
      /\ Externalized(s) \in SUBSET Node /\ Externalized(t) \in SUBSET Node
      /\ QSetOf[n] \in QSetId
  BY QSetAssumption DEF Here, Senders, Externalized
<1> QED BY <1>6, <1>7, <1>8, QuorumMonotone

-----------------------------------------------------------------------------
(* Votes to commit. *)

(* After st1, which voted to commit up to (nH, x), the node says st: it    *)
(* still votes for x, or has accepted that (nH, x) is aborted, or is past  *)
(* voting.                                                                 *)
AbortedBy(st1, st) ==
    \E z \in {st.p, st.pp} : areBallotsLessAndIncompatible(MakeBallot(st1.nH, st1.b.x), z)

KeptBy(st1, st) ==
    st1.type = "PREPARE" /\ st1.nC # 0 =>
        \/ st.type # "PREPARE"
        \/ st.nC # 0 /\ st.b.x = st1.b.x /\ st1.nH <= st.nH
        \/ AbortedBy(st1, st)

VotesKept(n, s, S) ==
    /\ \A st1 \in S \cup {s.last} : KeptBy(st1, s.M[n])
    /\ \A st1 \in S : KeptBy(st1, s.emit)
    /\ \A st1, st2 \in S : isNewerStatement(st1, st2) => KeptBy(st1, st2)

(* What the node holds, its hints and what it has sent are well formed. *)
Sound(s, S) ==
    /\ ProperState(s)
    /\ \A m \in Node : WellFormed(s.M[m])
    /\ \A st \in HintsOf(s.stack) \cup S : WellFormed(st)

LEMMA NothingWellFormed == WellFormed(NoStatement)
BY DEF WellFormed, NoStatement, Proper

LEMMA StatementWellFormed ==
    ASSUME NEW u \in NodeState, ProperState(u), checkInvariants(u)
    PROVE  WellFormed(createStatement(u))
<1> DEFINE st == createStatement(u)
<1>1. Says(st, u) /\ u.phase \in {"PREPARE", "CONFIRM", "EXTERNALIZE"}
  BY CreatedStatement, NodeParts DEF Phase
<1> USE <1>1
<1>2. Proper(NoBallot) /\ NoBallot.n = 0
  BY DEF Proper, NoBallot
<1> USE <1>2
<1> HIDE DEF st
<1>3. Proper(st.b) /\ Proper(st.p) /\ Proper(st.pp)
  BY DEF Says, ProperState
<1>4. u.c # NoBallot => u.b # NoBallot /\ u.c.n <= u.h.n /\ u.c.n # 0
  BY DEF checkInvariants, areBallotsLessAndCompatible, ProperState, Proper
<1>5. u.phase = "CONFIRM" => u.p.n # 0 /\ u.c # NoBallot
  BY DEF checkInvariants, ProperState, Proper
<1>6. u.phase = "EXTERNALIZE" => u.c # NoBallot
  BY DEF checkInvariants
<1>7. WellFormed(st)
  BY <1>3, <1>4, <1>5, <1>6 DEF WellFormed, Says
<1> QED BY <1>7 DEF st

(* A node that knows the ledger answers yes or no about every value. *)
NeverDoubts(n) == \A x \in Value : Validity[n][x] # "maybeValid"

LEMMA NoDoubt ==
    ASSUME NEW n \in Node, NeverDoubts(n), NEW st \in Statement
    PROVE  validateValues(n, st) # "maybeValid"
<1> DEFINE values == getStatementValues(st)
           doubtful == {v \in values : Validity[n][v] # "fullyValidated"}
           top == st.b.x + st.p.x + st.pp.x
<1>1. SUFFICES ASSUME doubtful # {}, validateValues(n, st) = Validity[n][MaxNat(doubtful)]
               PROVE  validateValues(n, st) # "maybeValid"
  BY DEF validateValues
<1> USE <1>1
<1>2. /\ st.b.x \in Nat /\ st.p.x \in Nat /\ st.pp.x \in Nat
      /\ st.b.x \in Value \cup {0} /\ st.p.x \in Value \cup {0} /\ st.pp.x \in Value \cup {0}
  BY SMT, StatementParts, BallotNumbers
<1> USE <1>2
<1>3. values = {st.b.x, st.p.x, st.pp.x} \ {0}
  BY DEF getStatementValues
<1> USE <1>3
<1>4. top \in Nat /\ doubtful \in SUBSET Nat /\ \A i \in doubtful : i <= top
  BY SMT
<1>5. MaxNat(doubtful) \in doubtful
  <2> HIDE DEF doubtful, top
  <2> QED BY <1>4, NatExtremes
<1>6. MaxNat(doubtful) \in Value
  BY <1>5
<1> QED BY <1>6 DEF NeverDoubts

-----------------------------------------------------------------------------
(* The invariant of a node, and what it is kept by. *)

(* setStateFromEnvelope can restore what st says. *)
Restorable(st) ==
    \/ st = NoStatement
    \/ \E u \in NodeState :
          /\ st = createStatement(u) /\ checkInvariants(u) /\ u.b # NoBallot
          /\ u.c # NoBallot => u.c.n # 0
          /\ u.phase # "PREPARE" => u.c.x # 0
          /\ ProperState(u)

NodeInv(n, s, S) ==
    /\ s \in NodeState /\ Own(n, s) /\ Trusted(n, s, S) /\ Ordered(s, S)
    /\ HeardOK(n, s) /\ VotesKept(n, s, S) /\ Restorable(s.emit)
    /\ Sound(s, S) /\ (NeverDoubts(n) => s.fullyValidated)

(* Heard from a quorum at a counter, always heard at this counter. *)
StaysHeard(s, t) == s.heard /\ t.b.n = s.b.n => t.heard

(* Nothing that the invariant speaks of changes, or less is heard. *)
LEMMA QuietInv ==
    ASSUME NEW n \in Node, NEW S, NEW s, NodeInv(n, s, S), NEW t \in NodeState, Own(n, t),
           t.b = s.b, t.M = s.M, t.last = s.last, t.emit = s.emit,
           t.fullyValidated = s.fullyValidated, t.heard => s.heard, t.timer => s.timer,
           ProperState(t), HintsOf(t.stack) \subseteq HintsOf(s.stack)
    PROVE  NodeInv(n, t, S)
<1>1. Here(t) = Here(s) /\ Externalized(t) = Externalized(s)
  BY DEF Here, Externalized, Senders
<1>2. HeardOK(n, t)
  BY <1>1 DEF NodeInv, HeardOK
<1>3. Trusted(n, t, S) /\ Ordered(t, S) /\ VotesKept(n, t, S) /\ Restorable(t.emit)
  BY DEF NodeInv, Trusted, Ordered, VotesKept
<1>4. Sound(t, S)
  BY DEF NodeInv, Sound
<1> QED BY <1>2, <1>3, <1>4 DEF NodeInv

LEMMA SameOwn ==
    ASSUME NEW n \in Node, NEW s \in NodeState, NEW t \in NodeState, Own(n, s),
           SameBallots(s, t), t.M = s.M, t.last = s.last
    PROVE  Own(n, t) /\ (ProperState(s) => ProperState(t))
<1>1. createStatement(t) = createStatement(s) /\ checkInvariants(t) = checkInvariants(s)
  BY SameStatement
<1> QED BY <1>1 DEF Own, Fresh, SameBallots, ProperState

LEMMA SpokeSame ==
    ASSUME NEW n, NEW s, NEW t, NEW s2, NEW t2, Spoke(n, s, t), s2.M = s.M, t2.M = t.M
    PROVE  Spoke(n, s2, t2)
BY DEF Spoke

(* After the attempts made so far, from s to t: they were quiet, or one of *)
(* them moved the ballots and either called advanceSlot again or ended the *)
(* slot.                                                                   *)
Goes(n, s, t) ==
    /\ t.emit = s.emit
    /\ \/ /\ Len(t.stack) = Len(s.stack) /\ t.b = s.b /\ (s.heard => t.heard)
          /\ t.M = s.M
       \/ /\ Len(t.stack) >= Len(s.stack)
          /\ t.phase # "EXTERNALIZE" => Len(t.stack) > Len(s.stack)
          /\ StaysHeard(s, t) /\ Spoke(n, s, t)

(* Once the slot is over nothing moves. *)
Still(s, t) ==
    SameBallots(s, t) /\ t.heard = s.heard /\ t.stack = s.stack /\ t.M = s.M

LEMMA OutcomeFault ==
    ASSUME NEW n, NEW s, NEW t, NEW hint, Outcome(n, s, t, hint)
    PROVE  t.fault \in Fault
BY NodeParts DEF Outcome, Failed, SameRest, Emitted

LEMMA OutcomeInv ==
    \A n \in Node :
    \A S, s, t :
    \A hint \in Statement :
        /\ NodeInv(n, s, S)
        /\ WellFormed(hint)
        /\ Outcome(n, s, t, hint)
        /\ t.fault = "none"
        => NodeInv(n, t, S) /\ Goes(n, s, t) /\ (s.phase = "EXTERNALIZE" => Still(s, t))
  (* What an acceptable statement of the node itself has to name. *)
<1>NamesValue.
    ASSUME NEW n \in Node, NEW st \in Statement, validateValues(n, st) # "invalid"
    PROVE  st.p = NoBallot /\ st.pp = NoBallot => st.b.x # 0
  <2> USE <1>NamesValue
  <2>1. getStatementValues(st) # {}
    BY DEF validateValues
  <2> QED BY SMT, <2>1 DEF getStatementValues, NoBallot
<1>EmittedOwn.
    ASSUME NEW n \in Node, NEW s \in NodeState, NEW u \in NodeState, NEW hint, NEW t,
           Own(n, s), Moved(n, s, u, hint), Emitted(n, u, t)
    PROVE  Own(n, t) /\ t.M[n] = createStatement(u)
  <2> USE <1>EmittedOwn
  <2> DEFINE st == createStatement(u)
  <2>1. /\ SameRest(s, u) /\ s.phase # "EXTERNALIZE"
        /\ s.b # NoBallot => u.b # NoBallot
        /\ (s.c # NoBallot => s.c.n # 0) => (u.c # NoBallot => u.c.n # 0)
    BY MoveBasics
  <2>2. t \in NodeState /\ SameBallots(u, t)
    BY DEF Emitted
  <2> USE <2>2
  <2>3. createStatement(t) = st /\ checkInvariants(t)
    BY SameStatement DEF Emitted
  <2>4. t.M[n] = st
    BY NodeParts DEF Emitted
  <2>5. st \in Statement /\ Says(st, u)
    BY CreatedStatement
  <2>6. t.phase # "PREPARE" => t.c.x # 0
    <3> SUFFICES ASSUME t.phase # "PREPARE" PROVE t.c.x # 0
      OBVIOUS
    <3>1. u.phase \in {"CONFIRM", "EXTERNALIZE"} /\ u.c = t.c
      BY NodeParts DEF SameBallots, Phase
    <3> USE <3>1
    <3>2. st.b.x # 0
      BY <2>5, <1>NamesValue DEF Says, Emitted, acceptableStatement
    <3>3. u.b.x = u.c.x
      BY DEF Emitted, checkInvariants, areBallotsLessAndCompatible
    <3> QED BY <2>5, <3>2, <3>3 DEF Says
  <2>7. t.last = IF t.b # NoBallot THEN t.M[n] ELSE NoStatement
    <3>1. u.b # NoBallot => isNewerStatement(u.last, st)
      <4> SUFFICES ASSUME u.b # NoBallot PROVE isNewerStatement(u.last, st)
        OBVIOUS
      <4>1. isNewerStatement(u.M[n], st)
        BY DEF Emitted, acceptableStatement
      <4>2. u.M[n] = s.M[n] /\ u.last = s.last
        BY <2>1 DEF SameRest
      <4> USE <4>2
      <4>3. CASE s.b # NoBallot
        BY <4>1, <4>3 DEF Own
      <4>4. CASE s.b = NoBallot
        <5>1. u.last = NoStatement /\ NoStatement.type = "NONE"
          BY <4>4 DEF Own, NoStatement
        <5>2. st.type \in {"PREPARE", "CONFIRM", "EXTERNALIZE"}
          BY <2>5, NodeParts DEF Says, Phase
        <5> QED BY SMT, <5>1, <5>2, TypeOrderNumbers DEF isNewerStatement
      <4> QED BY <4>3, <4>4
    <3>2. u.b = NoBallot => u.last = NoStatement
      BY <2>1 DEF Own, SameRest
    <3>3. t.b = u.b
      BY DEF SameBallots
    <3> QED BY <2>4, <3>1, <3>2, <3>3 DEF Emitted
  <2> QED BY <2>1, <2>3, <2>4, <2>6, <2>7 DEF Own, SameBallots
  (* A move that leaves nothing new to say leaves the ballots that the       *)
  (* statement names.                                                        *)
<1>SilentMove.
    ASSUME NEW n \in Node, NEW s \in NodeState, NEW u \in NodeState, NEW hint,
           Own(n, s), Moved(n, s, u, hint), checkInvariants(u), u.M[n] = createStatement(u)
    PROVE  Own(n, u) /\ u.b = s.b /\ u.phase = s.phase /\ s.M[n] = createStatement(s)
  <2> USE <1>SilentMove
  <2>1. /\ SameRest(s, u) /\ s.phase # "EXTERNALIZE"
        /\ (s.c # NoBallot => s.c.n # 0) => (u.c # NoBallot => u.c.n # 0)
    BY MoveBasics
  <2> USE <2>1
  <2>2. u.M[n] = s.M[n] /\ u.last = s.last
    BY DEF SameRest
  <2> USE <2>2
  <2>3. Says(createStatement(u), u) /\ Says(createStatement(s), s)
    BY CreatedStatement
  <2> USE <2>3
  <2>4. s.M[n] = createStatement(s) /\ checkInvariants(s)
    <3>1. s.M[n] # NoStatement
      BY SMTT(30), NodeParts DEF Says, NoStatement, Phase
    <3> QED BY <3>1 DEF Own
  <2> USE <2>4
  <2>5. u.phase = s.phase /\ u.b = s.b
    BY SMT DEF Says
  <2> USE <2>5
  <2>6. u.phase # "PREPARE" => u.c.x # 0
    <3> SUFFICES ASSUME u.phase # "PREPARE" PROVE u.c.x # 0
      OBVIOUS
    <3>1. u.c.x = u.b.x /\ s.c.x = s.b.x
      BY DEF checkInvariants, areBallotsLessAndCompatible
    <3> QED BY <3>1 DEF Own
  <2> QED BY <2>6 DEF Own
<1>ValuesValidated.
    ASSUME NEW n \in Node, NEW st \in Statement,
           validateValues(n, st) # "invalid", validateValues(n, st) # "maybeValid"
    PROVE  ValidFor(n, st)
  <2> USE <1>ValuesValidated
  <2> DEFINE values == getStatementValues(st)
             doubtful == {v \in values : Validity[n][v] # "fullyValidated"}
             top == st.b.x + st.p.x + st.pp.x
  <2>1. SUFFICES ASSUME doubtful # {} PROVE FALSE
    BY DEF ValidFor
  <2> USE <2>1
  <2>2. /\ st.b.x \in Nat /\ st.p.x \in Nat /\ st.pp.x \in Nat
        /\ st.b.x \in Value \cup {0} /\ st.p.x \in Value \cup {0} /\ st.pp.x \in Value \cup {0}
    BY SMT, StatementParts, BallotNumbers
  <2> USE <2>2
  <2>3. values = {st.b.x, st.p.x, st.pp.x} \ {0}
    BY DEF getStatementValues
  <2> USE <2>3
  <2>4. top \in Nat /\ doubtful \in SUBSET Nat /\ \A i \in doubtful : i <= top
    BY SMT
  <2>5. MaxNat(doubtful) \in doubtful
    <3> HIDE DEF doubtful, top
    <3> QED BY <2>4, NatExtremes
  <2>6. validateValues(n, st) = Validity[n][MaxNat(doubtful)]
    BY DEF validateValues
  <2>7. MaxNat(doubtful) \in Value /\ Validity[n][MaxNat(doubtful)] # "fullyValidated"
    BY <2>5
  <2> USE <2>7
  <2>8. Validity[n][MaxNat(doubtful)] \in ValidationLevel
    BY ValidityAssumption
  <2> QED BY <2>6, <2>8 DEF ValidationLevel
<1>EmittedTrusted.
    ASSUME NEW n \in Node, NEW s \in NodeState, NEW u \in NodeState, NEW hint, NEW t, NEW S,
           Own(n, s), Trusted(n, s, S), Moved(n, s, u, hint), Emitted(n, u, t)
    PROVE  Trusted(n, t, S)
  <2> USE <1>EmittedTrusted
  <2> DEFINE st == createStatement(u)
  <2>1. SameRest(s, u) /\ s.phase # "EXTERNALIZE"
    BY MoveBasics
  <2> USE <2>1
  <2>2. t.M[n] = st /\ st \in Statement /\ Says(st, u)
    BY SMT, <1>EmittedOwn, CreatedStatement
  <2> USE <2>2
  <2>3. t.emit = s.emit
    BY DEF Emitted, SameRest
  <2>4. SUFFICES ASSUME t.fullyValidated PROVE ValidFor(n, st)
    BY <2>3 DEF Trusted
  <2>5. validateValues(n, st) # "invalid"
    BY DEF Emitted, acceptableStatement
  <2>6. CASE u.phase # "EXTERNALIZE"
    BY <2>4, <2>5, <2>6, <1>ValuesValidated DEF Emitted
  <2>7. CASE u.phase = "EXTERNALIZE"
    <3> USE <2>7
    <3>1. PICK c \in Ballot, h \in Ballot : ConfirmsCommit(n, s, u, c, h)
      BY
      DEF Moved, AcceptsPrepared, ConfirmsPrepared, AcceptsCommit, Bumps
    <3>2. s.phase = "CONFIRM" /\ u.c.x = s.c.x
      BY <3>1 DEF ConfirmsCommit
    <3> USE <3>2
    <3>3. s.M[n] = createStatement(s) /\ checkInvariants(s)
      BY DEF Own, Fresh
    <3>4. s.M[n].b = s.b /\ s.b.x = s.c.x
      BY <3>3, CreatedStatement DEF Says, checkInvariants, areBallotsLessAndCompatible
    <3>5. ValidFor(n, s.M[n])
      BY <2>4 DEF Trusted, Emitted, SameRest
    <3>6. st.b = u.c /\ st.p = NoBallot /\ st.pp = NoBallot
      BY DEF Says
    <3>7. getStatementValues(st) \subseteq getStatementValues(s.M[n])
      BY SMT, <3>4, <3>6 DEF getStatementValues, NoBallot
    <3> QED BY <3>5, <3>7 DEF ValidFor
  <2> QED BY <2>6, <2>7
<1>EmittedOrdered.
    ASSUME NEW n \in Node, NEW s \in NodeState, NEW u \in NodeState, NEW hint, NEW t, NEW S,
           Ordered(s, S), Moved(n, s, u, hint), Emitted(n, u, t)
    PROVE  Ordered(t, S)
  <2> USE <1>EmittedOrdered
  <2> DEFINE st == createStatement(u)
  <2>1. SameRest(s, u)
    BY MoveBasics
  <2>2. t.emit = s.emit /\ u.last = s.last /\ st \in Statement
    BY <2>1 DEF Emitted, SameRest
  <2> USE <2>2
  <2>3. s.emit \in Statement /\ s.last \in Statement
    BY NodeParts
  <2>4. t.last = s.last \/ (t.last = st /\ isNewerStatement(s.last, st))
    BY DEF Emitted
  <2>5. t.emit = t.last \/ isNewerStatement(t.emit, t.last)
    BY <2>3, <2>4, NewerTransitive DEF Ordered
  <2> QED BY <2>5 DEF Ordered
<1>MoveHeard.
    ASSUME NEW n, NEW s \in NodeState, NEW u \in NodeState, NEW hint, Moved(n, s, u, hint)
    PROVE  /\ u.heard => s.heard /\ u.b.n = s.b.n
           /\ s.heard /\ s.b # NoBallot /\ u.b.n = s.b.n => u.heard
  BY <1>MoveHeard DEF Moved, AcceptsPrepared, ConfirmsPrepared, AcceptsCommit, ConfirmsCommit, Bumps, HeardAfter
<1>EmittedHeard.
    ASSUME NEW n \in Node, NEW s \in NodeState, NEW u \in NodeState, NEW hint, NEW t,
           HeardOK(n, s), Moved(n, s, u, hint), Emitted(n, u, t)
    PROVE  HeardOK(n, t)
  <2> USE <1>EmittedHeard
  <2>1. SameRest(s, u) /\ (s.b # NoBallot => u.b # NoBallot)
    BY MoveBasics
  <2> USE <2>1
  <2>2. t \in NodeState /\ t.b = u.b /\ t.heard = u.heard /\ t.timer = s.timer
    BY DEF Emitted, SameBallots, SameRest
  <2> USE <2>2
  <2>3. t.b = NoBallot => ~t.timer
    BY DEF HeardOK
  <2>4. ASSUME t.heard
        PROVE  t.b # NoBallot /\ isQuorum(QSetOf[n], Here(t), Externalized(t))
    <3>1. s.heard /\ t.b.n = s.b.n
      <4>1. u.heard => s.heard /\ u.b.n = s.b.n
        BY <1>MoveHeard
      <4> QED BY <2>4, <4>1
    <3> USE <3>1
    <3>2. s.b # NoBallot /\ isQuorum(QSetOf[n], Here(s), Externalized(s))
      BY DEF HeardOK
    <3>3. /\ t.M = [s.M EXCEPT ![n] = createStatement(u)] /\ createStatement(u) \in Statement
          /\ isNewerStatement(s.M[n], createStatement(u))
      BY DEF Emitted, SameRest, acceptableStatement
    <3> QED BY <3>2, <3>3, HereGrows
  <2> QED BY <2>3, <2>4 DEF HeardOK
  (* setPrepared moves p and p' up, so that one of them still aborts what    *)
  (* one of them aborted.                                                    *)
<1>AbortsStay.
    ASSUME NEW s \in NodeState, NEW z \in Ballot, NEW low \in Ballot,
           checkInvariants(s), raisesPrepared(s, z),
           \E y \in {s.p, s.pp} : areBallotsLessAndIncompatible(low, y)
    PROVE  \E y \in {setPrepared(s, z).p, setPrepared(s, z).pp} :
              areBallotsLessAndIncompatible(low, y)
  <2> USE <1>AbortsStay
  <2> DEFINE p == s.p
             pp == s.pp
             w == setPrepared(s, z)
  <2>1. /\ p.n \in Int /\ p.x \in Int /\ pp.n \in Int /\ pp.x \in Int
        /\ z.n \in Int /\ z.x \in Int /\ low.n \in Int /\ low.x \in Int
        /\ p \in Ballot /\ pp \in Ballot
        /\ p.n >= 0 /\ p.x >= 0 /\ pp.n >= 0 /\ pp.x >= 0 /\ low.n >= 0 /\ low.x >= 0
    BY NodeParts, BallotNumbers
  <2> USE <2>1
  <2>2. p # NoBallot /\ pp # NoBallot => areBallotsLessAndIncompatible(pp, p)
    BY DEF checkInvariants
  <2> USE <2>2
  <2>3. pp # NoBallot => Less(pp, z)
    BY DEF raisesPrepared
  <2> USE <2>3
  <2>4. \/ Less(p, z) /\ w.p = z /\ w.pp = p /\ p # NoBallot /\ p.x # z.x
        \/ Less(p, z) /\ w.p = z /\ w.pp = pp /\ (p = NoBallot \/ p.x = z.x)
        \/ Less(z, p) /\ w.p = p /\ w.pp = z /\ (pp = NoBallot \/ p.x # z.x)
        \/ w.p = p /\ w.pp = pp
    BY DEF setPrepared, areBallotsCompatible, NodeState
  <2> USE <2>4
  <2> HIDE DEF w, p, pp
  <2>5. NoBallot.n = 0 /\ NoBallot.x = 0
    BY DEF NoBallot
  <2> USE <2>5
  <2>6. ~areBallotsLessAndIncompatible(low, NoBallot)
    BY SMT DEF areBallotsLessAndIncompatible, Less
  <2> USE <2>6
  <2>7. ASSUME areBallotsLessAndIncompatible(low, p)
        PROVE  areBallotsLessAndIncompatible(low, w.p) \/ areBallotsLessAndIncompatible(low, w.pp)
    BY SMT, <2>7 DEF areBallotsLessAndIncompatible, Less
  <2>8. ASSUME areBallotsLessAndIncompatible(low, pp)
        PROVE  areBallotsLessAndIncompatible(low, w.p) \/ areBallotsLessAndIncompatible(low, w.pp)
    BY SMTT(30), <2>8 DEF areBallotsLessAndIncompatible, Less
  <2> QED BY <2>7, <2>8 DEF p, pp, w
  (* A statement keeps the votes to commit that the one before it kept. *)
<1>MoveKeepsVotes.
    ASSUME NEW n \in Node, NEW s \in NodeState, NEW u \in NodeState, NEW hint,
           Moved(n, s, u, hint), checkInvariants(s), checkInvariants(u),
           s.c # NoBallot => s.c.n # 0,
           NEW st1 \in Statement, KeptBy(st1, createStatement(s))
    PROVE  KeptBy(st1, createStatement(u))
  <2> USE <1>MoveKeepsVotes
  <2> DEFINE old == createStatement(s)
             new == createStatement(u)
             low == MakeBallot(st1.nH, st1.b.x)
  <2>1. SUFFICES ASSUME st1.type = "PREPARE", st1.nC # 0, u.phase = "PREPARE"
                 PROVE  \/ new.nC # 0 /\ new.b.x = st1.b.x /\ st1.nH <= new.nH
                        \/ AbortedBy(st1, new)
    BY CreatedStatement DEF KeptBy, Says
  <2>2. s.phase = "PREPARE"
    BY <2>1, NodeParts
    DEF Moved, AcceptsPrepared, ConfirmsPrepared, AcceptsCommit, ConfirmsCommit, Bumps
  <2>3. /\ old.type = "PREPARE" /\ old.b = s.b /\ old.p = s.p /\ old.pp = s.pp
        /\ old.nC = s.c.n /\ old.nH = s.h.n
    BY <2>2, CreatedStatement DEF Says
  <2>4. /\ new.b = u.b /\ new.p = u.p /\ new.pp = u.pp /\ new.nC = u.c.n /\ new.nH = u.h.n
    BY <2>1, CreatedStatement DEF Says
  <2> HIDE DEF old, new
  <2>5. \/ s.c.n # 0 /\ s.b.x = st1.b.x /\ st1.nH <= s.h.n
        \/ \E y \in {s.p, s.pp} : areBallotsLessAndIncompatible(low, y)
    BY <2>1, <2>3 DEF KeptBy, AbortedBy, old
  <2>6. SUFFICES \/ u.c.n # 0 /\ u.b.x = st1.b.x /\ st1.nH <= u.h.n
                 \/ \E y \in {u.p, u.pp} : areBallotsLessAndIncompatible(low, y)
    BY <2>4 DEF AbortedBy
  <2>7. /\ low \in Ballot /\ low.n = st1.nH /\ low.x = st1.b.x
        /\ st1.nH \in Int /\ st1.b.x \in Int
    BY SMT, StatementParts, BallotNumbers DEF MakeBallot, Ballot
  <2>8. /\ s.b \in Ballot /\ s.h \in Ballot /\ s.c \in Ballot /\ u.p \in Ballot /\ u.pp \in Ballot
        /\ s.h.n \in Int /\ s.h.x \in Int
        /\ u.p.n \in Int /\ u.p.x \in Int /\ u.pp.n \in Int /\ u.pp.x \in Int
    BY NodeParts, BallotNumbers
  <2>9. s.c.n # 0 => s.c # NoBallot /\ s.h # NoBallot /\ s.b # NoBallot
                       /\ s.c.x = s.h.x /\ s.h.x = s.b.x
    BY SMTT(30) DEF checkInvariants, NoBallot, areBallotsLessAndCompatible
  <2> HIDE DEF low
  <2>10. CASE \E z \in Ballot : AcceptsPrepared(n, s, u, hint, z)
    <3>1. PICK z \in Ballot : AcceptsPrepared(n, s, u, hint, z)
      BY <2>10
    <3> USE <3>1
    <3>2. CASE \E y \in {s.p, s.pp} : areBallotsLessAndIncompatible(low, y)
      <4>1. raisesPrepared(s, z) /\ u.p = setPrepared(s, z).p /\ u.pp = setPrepared(s, z).pp
        BY DEF AcceptsPrepared
      <4> USE <4>1
      <4>2. \E y \in {setPrepared(s, z).p, setPrepared(s, z).pp} :
               areBallotsLessAndIncompatible(low, y)
        BY <2>7, <3>2, <1>AbortsStay
      <4> QED BY <4>2
    <3>3. CASE s.c.n # 0 /\ s.b.x = st1.b.x /\ st1.nH <= s.h.n
      <4> USE <3>3
      <4>1. CASE u.c = s.c
        BY <4>1 DEF AcceptsPrepared
      <4>2. CASE u.c # s.c
        <5>1. areBallotsLessAndIncompatible(s.h, u.p) \/ areBallotsLessAndIncompatible(s.h, u.pp)
          BY <4>2 DEF AcceptsPrepared
        <5>2. low.x = s.h.x /\ low.n <= s.h.n /\ low.n \in Int
          BY <2>7, <2>9
        <5>3. areBallotsLessAndIncompatible(low, u.p) \/ areBallotsLessAndIncompatible(low, u.pp)
          BY SMT, <2>8, <5>1, <5>2 DEF areBallotsLessAndIncompatible, Less
        <5> QED BY <5>3
      <4> QED BY <4>1, <4>2
    <3> QED BY <2>5, <3>2, <3>3
  <2>11. CASE \E newC, newH \in Ballot : ConfirmsPrepared(n, s, u, hint, newC, newH)
    <3>1. PICK newC \in Ballot, newH \in Ballot : ConfirmsPrepared(n, s, u, hint, newC, newH)
      BY <2>11
    <3> USE <3>1
    <3>2. CASE \E y \in {s.p, s.pp} : areBallotsLessAndIncompatible(low, y)
      BY <3>2 DEF ConfirmsPrepared
    <3>3. CASE s.c.n # 0 /\ s.b.x = st1.b.x /\ st1.nH <= s.h.n
      <4> USE <3>3
      <4>1. s.c # NoBallot /\ s.b # NoBallot /\ s.h.x = s.b.x
        BY <2>9
      <4> USE <4>1
      <4>2. u.c = s.c
        BY DEF ConfirmsPrepared
      <4> USE <4>2
      <4>3. newH.n \in Int /\ newH.x \in Int /\ Less(s.h, newH)
        BY BallotNumbers DEF ConfirmsPrepared
      <4> USE <4>3
      <4>4. CASE areBallotsCompatible(s.b, newH)
        <5>1. u.h = newH /\ u.b.x = s.b.x
          BY <4>4 DEF ConfirmsPrepared, areBallotsCompatible
        <5>2. s.h.n <= newH.n
          BY SMT, <2>8 DEF Less
        <5> QED BY SMTT(30), <2>7, <2>8, <5>1, <5>2
      <4>5. CASE ~areBallotsCompatible(s.b, newH)
        <5> USE <4>5
        <5>1. CASE Less(s.b, newH)
          <6>1. u.h = NoBallot
            BY <5>1 DEF ConfirmsPrepared, areBallotsCompatible
          <6> QED BY <6>1 DEF checkInvariants
        <5>2. CASE ~Less(s.b, newH)
          <6>1. u.b = s.b /\ u.h = s.h
            BY <5>2 DEF ConfirmsPrepared
          <6> QED BY <6>1
        <5> QED BY <5>1, <5>2
      <4> QED BY <4>4, <4>5
    <3> QED BY <2>5, <3>2, <3>3
  <2>12. CASE \E ballot \in Ballot : Bumps(s, u, ballot)
    <3>1. PICK ballot \in Ballot : Bumps(s, u, ballot)
      BY <2>12
    <3> USE <3>1
    <3>2. CASE \E y \in {s.p, s.pp} : areBallotsLessAndIncompatible(low, y)
      BY <3>2 DEF Bumps
    <3>3. CASE s.c.n # 0 /\ s.b.x = st1.b.x /\ st1.nH <= s.h.n
      <4> USE <3>3
      <4>1. u.c = s.c /\ u.b = ballot /\ ballot.x = s.c.x /\ u.h = s.h
        BY <2>9 DEF Bumps, areBallotsCompatible
      <4> QED BY <2>9, <4>1
    <3> QED BY <2>5, <3>2, <3>3
  <2> QED BY <2>1, <2>10, <2>11, <2>12 DEF Moved, AcceptsCommit, ConfirmsCommit
<1>EmittedVotes.
    ASSUME NEW n \in Node, NEW s \in NodeState, NEW u \in NodeState, NEW hint, NEW t, NEW S,
           Own(n, s), Ordered(s, S), VotesKept(n, s, S),
           Moved(n, s, u, hint), Emitted(n, u, t)
    PROVE  VotesKept(n, t, S)
  <2> USE <1>EmittedVotes
  <2> DEFINE st == createStatement(u)
  <2>1. SameRest(s, u) /\ (s.b # NoBallot => u.b # NoBallot)
    BY MoveBasics
  <2>2. t.M[n] = st /\ st \in Statement /\ Own(n, t)
    BY SMT, <1>EmittedOwn, CreatedStatement
  <2> USE <2>2
  <2>3. t.emit = s.emit /\ t.b = u.b
    BY <2>1 DEF Emitted, SameRest, SameBallots
  <2>4. \A st1 \in S : KeptBy(st1, t.emit)
    BY <2>3 DEF VotesKept
  <2>5. KeptBy(st, st)
    <3>1. st.nH \in Nat
      BY StatementParts
    <3> QED BY SMT, <3>1 DEF KeptBy
  <2>6. KeptBy(NoStatement, st)
    BY DEF KeptBy, NoStatement
  <2>7. KeptBy(t.last, t.M[n])
    BY <2>5, <2>6 DEF Own
  <2>8. ASSUME NEW st1 \in S PROVE KeptBy(st1, t.M[n])
    <3> USE <2>8
    <3>1. s.b # NoBallot
      BY NothingSent
    <3>2. s.M[n] = createStatement(s) /\ checkInvariants(s)
      BY <3>1 DEF Own, Fresh
    <3> USE <3>2
    <3>3. st1 \in Statement /\ KeptBy(st1, createStatement(s))
      BY DEF Ordered, VotesKept
    <3>4. checkInvariants(u) /\ (s.c # NoBallot => s.c.n # 0)
      BY DEF Emitted, Own
    <3>5. KeptBy(st1, st)
      BY <3>3, <3>4, <1>MoveKeepsVotes
    <3> QED BY <3>5
  <2> QED BY <2>4, <2>7, <2>8 DEF VotesKept
<1>MoveProper.
    ASSUME NEW n, NEW s \in NodeState, NEW S, Sound(s, S), NEW u \in NodeState,
           NEW hint \in Statement, WellFormed(hint), Moved(n, s, u, hint),
           checkInvariants(u), u.phase # "PREPARE" => u.c.x # 0
    PROVE  ProperState(u)
  <2> USE <1>MoveProper
  <2>1. ProperState(s) /\ s.M \in [Node -> Statement] /\ \A m \in Node : WellFormed(s.M[m])
    BY NodeParts DEF Sound
  <2> USE <2>1
  <2>2. \A b \in getPrepareCandidates(s, hint) : Proper(b)
    BY ProperCandidates
  <2>3. Proper(NoBallot)
    BY DEF Proper
  <2> USE <2>3
  <2>4. ASSUME NEW z \in Ballot, AcceptsPrepared(n, s, u, hint, z) PROVE ProperState(u)
    BY <2>2, <2>4, SetPreparedProper DEF AcceptsPrepared, ProperState
  <2>5. ASSUME NEW newC \in Ballot, NEW newH \in Ballot,
               ConfirmsPrepared(n, s, u, hint, newC, newH)
        PROVE  ProperState(u)
    <3> USE <2>5
    <3>1. Proper(newH) /\ Less(s.h, newH)
      BY <2>2 DEF ConfirmsPrepared
    <3> USE <3>1
    <3>2. newH # NoBallot
      BY SMT, NodeParts, BallotNumbers DEF Less, NoBallot
    <3>3. newC.n # 0 => Proper(newC)
      BY <3>2 DEF ConfirmsPrepared, areBallotsLessAndCompatible, Proper
    <3>4. /\ u.p = s.p /\ u.pp = s.pp
          /\ u.c = s.c \/ (newC.n # 0 /\ u.c = newC)
          /\ u.b \in {s.b, newH} /\ u.h \in {s.h, newH, NoBallot}
      BY DEF ConfirmsPrepared
    <3> QED BY <3>3, <3>4 DEF ProperState
  <2>6. ASSUME NEW c \in Ballot, NEW h \in Ballot,
               AcceptsCommit(n, s, u, c, h) \/ ConfirmsCommit(n, s, u, c, h)
        PROVE  ProperState(u)
    <3>1. /\ c.n # 0 /\ c.x = h.x /\ c.n <= h.n /\ u.c = c /\ u.h = h /\ u.phase # "PREPARE"
          /\ u.p = s.p /\ u.pp \in {NoBallot, s.pp} /\ u.b \in {h, s.b}
      BY <2>6 DEF AcceptsCommit, ConfirmsCommit
    <3> USE <3>1
    <3>2. h.n # 0 /\ c.x # 0
      BY SMTT(30), BallotNumbers
    <3> QED BY <3>2 DEF ProperState, Proper
  <2>7. ASSUME NEW ballot \in Ballot, Bumps(s, u, ballot) PROVE ProperState(u)
    <3>1. /\ u.b = ballot /\ ballot.x # 0 /\ u.p = s.p /\ u.pp = s.pp /\ u.c = s.c
          /\ u.h \in {s.h, NoBallot}
      BY <2>7 DEF Bumps
    <3> USE <3>1
    <3>2. u.b.n # 0
      BY SMTT(30) DEF checkInvariants, NoBallot
    <3> QED BY <3>2 DEF ProperState, Proper
  <2> QED BY <2>4, <2>5, <2>6, <2>7 DEF Moved
<1>EmittedSound.
    ASSUME NEW n \in Node, NEW s \in NodeState, NEW u \in NodeState, NEW hint \in Statement,
           NEW t, NEW S, Own(n, s), Sound(s, S), WellFormed(hint),
           Moved(n, s, u, hint), Emitted(n, u, t)
    PROVE  Sound(t, S) /\ ProperState(u)
  <2> USE <1>EmittedSound
  <2>1. SameRest(s, u)
    BY MoveBasics
  <2> USE <2>1
  <2>2. Own(n, t) /\ SameBallots(u, t) /\ checkInvariants(u)
    BY <1>EmittedOwn DEF Emitted
  <2> USE <2>2
  <2>3. ProperState(u)
    BY <1>MoveProper DEF Own, SameBallots
  <2> USE <2>3
  <2>4. WellFormed(createStatement(u))
    BY StatementWellFormed
  <2> USE <2>4
  <2>5. \A m \in Node : WellFormed(t.M[m])
    <3>1. s.M \in [Node -> Statement] /\ t.M = [s.M EXCEPT ![n] = createStatement(u)]
      BY NodeParts DEF SameRest, Emitted
    <3> QED BY <3>1 DEF Sound
  <2>6. HintsOf(t.stack) \subseteq HintsOf(s.stack) \cup {createStatement(u)}
    BY DEF Emitted, SameRest
  <2>7. ProperState(t)
    BY DEF ProperState, SameBallots
  <2> QED BY <2>5, <2>6, <2>7 DEF Sound
<1> SUFFICES ASSUME NEW n \in Node, NEW S, NEW s, NodeInv(n, s, S),
                    NEW t, NEW hint \in Statement, WellFormed(hint),
                    Outcome(n, s, t, hint), t.fault = "none"
             PROVE  NodeInv(n, t, S) /\ Goes(n, s, t) /\ (s.phase = "EXTERNALIZE" => Still(s, t))
  OBVIOUS
<1>1. s \in NodeState /\ Own(n, s) /\ HeardOK(n, s) /\ Sound(s, S) /\ ProperState(s)
  BY DEF NodeInv, Sound
<1> USE <1>1
<1>2. CASE SameRest(s, t) /\ SameBallots(s, t) /\ t.heard = s.heard
  <2> USE <1>2
  <2>1. t \in NodeState /\ t.M = s.M /\ t.last = s.last
    BY DEF SameRest
  <2> USE <2>1
  <2>2. Own(n, t) /\ ProperState(t)
    BY SameOwn
  <2>3. NodeInv(n, t, S)
    BY <2>2, QuietInv DEF SameRest, SameBallots
  <2> QED BY <2>3 DEF Goes, Still, SameRest, SameBallots
<1>3. ASSUME NEW u \in NodeState, Moved(n, s, u, hint), Emitted(n, u, t)
      PROVE  NodeInv(n, t, S) /\ Goes(n, s, t) /\ s.phase # "EXTERNALIZE"
  <2> USE <1>3
  <2>1. SameRest(s, u) /\ s.phase # "EXTERNALIZE"
    BY MoveBasics
  <2> USE <2>1
  <2>2. t \in NodeState /\ t.emit = s.emit
    BY DEF Emitted, SameRest
  <2>3. Own(n, t)
    BY <1>EmittedOwn
  <2>4. Trusted(n, t, S)
    BY <1>EmittedTrusted DEF NodeInv
  <2>5. Ordered(t, S)
    BY <1>EmittedOrdered DEF NodeInv
  <2>6. HeardOK(n, t)
    BY <1>EmittedHeard
  <2>7. VotesKept(n, t, S)
    BY <1>EmittedVotes DEF NodeInv
  <2>11. Sound(t, S) /\ ProperState(u)
    BY <1>EmittedSound
  <2>12. NeverDoubts(n) => t.fullyValidated
    <3> SUFFICES ASSUME NeverDoubts(n) PROVE t.fullyValidated
      OBVIOUS
    <3>1. u.fullyValidated /\ createStatement(u) \in Statement
      BY DEF NodeInv, SameRest, Emitted
    <3> USE <3>1
    <3>2. validateValues(n, createStatement(u)) # "maybeValid"
      BY NoDoubt
    <3> QED BY <3>2 DEF Emitted
  <2>13. Spoke(n, s, t)
    <3>1. t.M = [s.M EXCEPT ![n] = createStatement(u)] /\ checkInvariants(u)
      BY DEF Emitted, SameRest
    <3> QED BY <2>11, <3>1 DEF Spoke
  <2>8. NodeInv(n, t, S)
    BY <2>2, <2>3, <2>4, <2>5, <2>6, <2>7, <2>11, <2>12 DEF NodeInv
  <2>9. StaysHeard(s, t)
    <3>1. s.heard /\ s.b # NoBallot /\ u.b.n = s.b.n => u.heard
      BY <1>MoveHeard
    <3>2. t.heard = u.heard /\ t.b = u.b
      BY DEF Emitted, SameBallots
    <3>3. s.heard => s.b # NoBallot
      BY DEF HeardOK
    <3> QED BY <3>1, <3>2, <3>3 DEF StaysHeard
  <2>10. /\ Len(t.stack) >= Len(s.stack)
         /\ t.phase # "EXTERNALIZE" => Len(t.stack) > Len(s.stack)
    <3>1. s.stack \in Seq(Frame)
      BY NodeParts
    <3>2. Len(s.stack) \in Nat
      BY <3>1, SeqElements
    <3> QED BY SMTT(30), <3>2 DEF Emitted, SameBallots, SameRest
  <2> QED BY <2>2, <2>8, <2>9, <2>10, <2>13 DEF Goes
<1>4. ASSUME NEW u \in NodeState, Moved(n, s, u, hint), t = u, checkInvariants(u),
             u.M[n] = createStatement(u)
      PROVE  NodeInv(n, t, S) /\ Goes(n, s, t) /\ s.phase # "EXTERNALIZE"
  <2> USE <1>4
  <2>1. SameRest(s, u) /\ s.phase # "EXTERNALIZE"
    BY MoveBasics
  <2> USE <2>1
  <2>2. Own(n, u) /\ u.b = s.b
    BY <1>SilentMove
  <2> USE <2>2
  <2>3. u.heard => s.heard
    BY <1>MoveHeard
  <2>4. s.heard /\ s.b # NoBallot /\ u.b.n = s.b.n => u.heard
    BY <1>MoveHeard
  <2>7. ProperState(u)
    BY <1>MoveProper DEF Own
  <2>5. NodeInv(n, t, S)
    BY <2>3, <2>7, QuietInv DEF SameRest
  <2>6. s.heard => t.heard
    BY <2>4 DEF HeardOK
  <2> QED BY <2>5, <2>6 DEF Goes, SameRest
<1> QED BY <1>2, <1>3, <1>4 DEF Outcome, Failed

-----------------------------------------------------------------------------
(* advanceSlot. *)

(* The attempts of the activation made so far have taken s to a. *)
Along(n, S, s, a) ==
    /\ a.fault \in Fault
    /\ a.fault = "none" =>
         NodeInv(n, a, S) /\ Goes(n, s, a) /\ Len(a.stack) >= Len(s.stack)

(* The timer runs only when a quorum is heard and the slot is not over. *)
TimerOK(s) == s.timer => s.heard /\ s.phase # "EXTERNALIZE"

(* What node n has on record changes by what it says and by what it hears. *)
Told(n, s, t) ==
    \/ t.M = s.M
    \/ Spoke(n, s, t)
    \/ \E m \in Node \ {n} : \E st \in sent[m] : t.M = [s.M EXCEPT ![m] = st]

(* What a handler takes node n from and to, when it does not fail. *)
Handled(n, S, s, t) ==
    /\ NodeInv(n, t, S) /\ StaysHeard(s, t) /\ t.emit = s.emit
    /\ t.stack = <<>> => TimerOK(t)
    /\ Told(n, s, t)

Result(n, S, s, t) ==
    t.fault \in Fault /\ (t.fault = "none" => Handled(n, S, s, t))

(* A step of advanceSlot keeps the invariant of the node; when it is the   *)
(* last one of the event, checkHeardFromQuorum has dealt with the timer.   *)
LEMMA StepInv ==
    \A n \in Node :
    \A S, s, t :
        /\ NodeInv(n, s, S)
        /\ s.stack # <<>>
        /\ t = Step(n, s)
        => Result(n, S, s, t)
<1>SeqTail.
    ASSUME NEW S, NEW s \in Seq(S), s # <<>>
    PROVE  /\ Head(s) \in S /\ Head(s) = s[1]
           /\ Tail(s) \in Seq(S) /\ Len(Tail(s)) = Len(s) - 1 /\ Len(s) \in Nat \ {0}
           /\ \A i \in 1..Len(Tail(s)) : Tail(s)[i] = s[i + 1]
  BY SMT, <1>SeqTail
<1>SeqFirstChanged.
    ASSUME NEW S, NEW e \in S, NEW s \in Seq(S), s # <<>>
    PROVE  /\ [s EXCEPT ![1] = e] \in Seq(S) /\ Len([s EXCEPT ![1] = e]) = Len(s)
           /\ \A i \in 1..Len(s) : [s EXCEPT ![1] = e][i] = IF i = 1 THEN e ELSE s[i]
  BY SMT, <1>SeqFirstChanged
  (* advanceSlot. *)
  (* w is s with another attempt of the innermost activation to make next. *)
<1> DEFINE Framed(s, w) ==
               /\ w \in NodeState /\ SameBallots(s, w)
               /\ w.heard = s.heard /\ w.timer = s.timer
               /\ w.M = s.M /\ w.last = s.last /\ w.emit = s.emit
               /\ w.fullyValidated = s.fullyValidated
               /\ Len(w.stack) = Len(s.stack)
               /\ HintsOf(w.stack) \subseteq HintsOf(s.stack)
               /\ Head(s.stack).hint \in Statement /\ Head(s.stack).hint \in HintsOf(s.stack)
<1> HIDE DEF Framed
  (* The innermost activation has made attempt k. *)
<1>FrameMoves.
    ASSUME NEW s \in NodeState, s.stack # <<>>, NEW k \in 1..4,
           NEW w, w = [s EXCEPT !.stack[1].pc = k + 1]
    PROVE  Framed(s, w)
  <2> USE <1>FrameMoves
  <2> DEFINE f == [s.stack[1] EXCEPT !.pc = k + 1]
             r == [s.stack EXCEPT ![1] = f]
  <2>1. s.stack \in Seq(Frame)
    BY NodeParts
  <2> USE <2>1
  <2>2. 1 \in 1..Len(s.stack) /\ s.stack[1] \in Frame /\ Head(s.stack) = s.stack[1]
    BY SMT
  <2> USE <2>2
  <2>3. f \in Frame /\ f.hint = s.stack[1].hint
    BY SMT DEF Frame
  <2> USE <2>3
  <2>4. r \in Seq(Frame) /\ Len(r) = Len(s.stack)
        /\ \A i \in 1..Len(r) : r[i].hint = s.stack[i].hint
    <3> HIDE DEF f
    <3>1. /\ r \in Seq(Frame) /\ Len(r) = Len(s.stack)
          /\ \A i \in 1..Len(s.stack) : r[i] = IF i = 1 THEN f ELSE s.stack[i]
      BY SMT, <1>SeqFirstChanged
    <3> QED BY <3>1
  <2> USE <2>4
  <2>5. w = [s EXCEPT !.stack = r]
    OBVIOUS
  <2> HIDE DEF r
  <2>6. /\ w \in NodeState /\ SameBallots(s, w)
        /\ w.heard = s.heard /\ w.timer = s.timer
        /\ w.M = s.M /\ w.last = s.last /\ w.emit = s.emit
        /\ w.fullyValidated = s.fullyValidated /\ w.stack = r
    BY <2>5 DEF NodeState, SameBallots
  <2> USE <2>6
  <2>7. Head(s.stack).hint \in Statement /\ Head(s.stack).hint \in HintsOf(s.stack)
    BY DEF Frame, HintsOf
  <2>8. HintsOf(w.stack) \subseteq HintsOf(s.stack)
    BY SMT DEF HintsOf
  <2> QED BY <2>7, <2>8 DEF Framed
<1>GoesOn.
    ASSUME NEW n, NEW s \in NodeState, NEW a \in NodeState, NEW t \in NodeState,
           Goes(n, s, a), Len(a.stack) = Len(s.stack), Goes(n, a, t),
           a.phase = "EXTERNALIZE" => Still(a, t)
    PROVE  Goes(n, s, t)
  <2> USE <1>GoesOn
  <2>1. s.stack \in Seq(Frame) /\ a.stack \in Seq(Frame) /\ t.stack \in Seq(Frame)
    BY NodeParts
  <2>2. Len(s.stack) \in Nat /\ Len(a.stack) \in Nat /\ Len(t.stack) \in Nat
    BY <2>1, SeqElements
  <2> USE <2>2
  <2>3. CASE a.phase = "EXTERNALIZE"
    <3> USE <2>3
    <3>1. Spoke(n, s, a) => Spoke(n, s, t)
      BY SpokeSame DEF Still
    <3> QED BY <3>1 DEF Goes, StaysHeard, Still, SameBallots
  <2>4. CASE a.phase # "EXTERNALIZE"
    <3> USE <2>4
    <3>1. a.M = s.M
      BY SMT DEF Goes
    <3> USE <3>1
    <3>2. Spoke(n, a, t) => Spoke(n, s, t)
      BY SpokeSame
    <3> QED BY SMT, <3>2 DEF Goes, StaysHeard
  <2> QED BY <2>3, <2>4
<1>TryInv.
    ASSUME NEW n \in Node, NEW S, NEW s \in NodeState, s.stack # <<>>,
           NEW a, Along(n, S, s, a), NEW k \in 1..4, NEW t, t = Try(k, n, a, Len(s.stack))
    PROVE  Along(n, S, s, t)
  <2> USE <1>TryInv
  <2> DEFINE w == [a EXCEPT !.stack[1].pc = k + 1]
             hint == Head(a.stack).hint
  <2>1. SUFFICES ASSUME a.fault = "none", Len(a.stack) = Len(s.stack),
                        t = Attempt(k, n, w, hint)
                 PROVE  Along(n, S, s, t)
    BY DEF Try
  <2> USE <2>1
  <2>2. a \in NodeState /\ NodeInv(n, a, S) /\ Goes(n, s, a)
    BY DEF NodeInv, Along
  <2> USE <2>2
  <2>3. s.stack \in Seq(Frame) /\ a.stack \in Seq(Frame)
    BY NodeParts
  <2>4. a.stack # <<>> /\ Len(a.stack) \in Nat
    BY SMT, <2>3
  <2>5. /\ w \in NodeState /\ SameBallots(a, w)
        /\ w.heard = a.heard /\ w.timer = a.timer
        /\ w.M = a.M /\ w.last = a.last /\ w.emit = a.emit
        /\ w.fullyValidated = a.fullyValidated
        /\ Len(w.stack) = Len(a.stack) /\ HintsOf(w.stack) \subseteq HintsOf(a.stack)
        /\ hint \in Statement /\ hint \in HintsOf(a.stack)
    <3>1. Framed(a, w)
      BY <2>4, <1>FrameMoves
    <3> HIDE DEF w
    <3> QED BY <3>1 DEF Framed
  <2> USE <2>5
  <2> HIDE DEF w, hint
  <2>15. WellFormed(hint) /\ ProperState(a)
    BY DEF NodeInv, Sound
  <2>6. Own(n, w) /\ ProperState(w)
    BY <2>15, SameOwn DEF NodeInv
  <2>7. NodeInv(n, w, S)
    BY <2>6, QuietInv DEF SameBallots
  <2>8. Outcome(n, w, t, hint) /\ t.fault \in Fault
    BY AttemptOutcome, OutcomeFault
  <2> USE <2>8
  <2>9. SUFFICES ASSUME t.fault = "none"
                 PROVE  NodeInv(n, t, S) /\ Goes(n, s, t) /\ Len(t.stack) >= Len(s.stack)
    BY DEF Along
  <2>10. NodeInv(n, t, S) /\ Goes(n, w, t) /\ (w.phase = "EXTERNALIZE" => Still(w, t))
    <3>1. hint \in Statement /\ WellFormed(hint) /\ Outcome(n, w, t, hint)
      BY <2>15
    <3> QED BY <2>7, <2>9, <3>1, OutcomeInv
  <2> USE <2>10
  <2>11. Goes(n, s, w)
    <3>1. Spoke(n, s, a) => Spoke(n, s, w)
      BY SpokeSame
    <3> QED BY <3>1 DEF Goes, StaysHeard, SameBallots
  <2>12. t \in NodeState
    BY DEF NodeInv
  <2> USE <2>12
  <2>13. Goes(n, s, t)
    BY <2>11, <1>GoesOn
  <2>14. Len(t.stack) >= Len(s.stack)
    <3>1. Len(t.stack) \in Nat
      BY NodeParts, SeqElements
    <3> QED BY SMTT(30), <2>4, <3>1 DEF Goes
  <2> QED BY <2>13, <2>14
<1>CheckHeardInv.
    ASSUME NEW n \in Node, NEW S, NEW s, NodeInv(n, s, S),
           NEW t, t = checkHeardFromQuorum(n, s)
    PROVE  /\ NodeInv(n, t, S) /\ TimerOK(t) /\ (s.heard => t.heard) /\ t.b = s.b
           /\ t.emit = s.emit /\ t.M = s.M
  <2> USE <1>CheckHeardInv
  <2>1. s \in NodeState /\ Own(n, s) /\ HeardOK(n, s) /\ Sound(s, S) /\ ProperState(s)
    BY DEF NodeInv, Sound
  <2> USE <2>1
  <2>2. CASE s.b = NoBallot
    BY <2>2 DEF checkHeardFromQuorum, TimerOK, HeardOK
  <2>3. CASE s.b # NoBallot
    <3> DEFINE hears == isQuorum(QSetOf[n], Here(s), Externalized(s))
               runs == hears /\ s.phase # "EXTERNALIZE" /\ (s.timer \/ ~s.heard)
    <3>1. hears \in BOOLEAN
      BY SMT DEF isQuorum
    <3>2. t = [s EXCEPT !.heard = hears, !.timer = runs]
      BY <2>3 DEF checkHeardFromQuorum, Here
    <3>3. s.heard => hears
      BY DEF HeardOK
    <3> HIDE DEF hears
    <3>4. /\ t \in NodeState /\ SameBallots(s, t) /\ t.heard = hears /\ t.timer = runs
          /\ t.M = s.M /\ t.last = s.last /\ t.emit = s.emit /\ t.stack = s.stack
          /\ t.fullyValidated = s.fullyValidated /\ t.fault = s.fault
      BY <3>1, <3>2 DEF NodeState, SameBallots
    <3> USE <3>4
    <3>5. Own(n, t) /\ ProperState(t)
      BY SameOwn
    <3> USE <3>5
    <3>6. Here(t) = Here(s) /\ Externalized(t) = Externalized(s) /\ t.b = s.b
      BY DEF Here, Externalized, Senders, SameBallots
    <3> USE <3>6
    <3>7. HeardOK(n, t)
      BY <2>3 DEF HeardOK, hears
    <3>8. Trusted(n, t, S) /\ Ordered(t, S) /\ VotesKept(n, t, S) /\ Restorable(t.emit)
      BY DEF NodeInv, Trusted, Ordered, VotesKept
    <3>10. Sound(t, S)
      BY DEF Sound
    <3>9. NodeInv(n, t, S)
      BY <3>7, <3>8, <3>10 DEF NodeInv
    <3> QED BY <3>3, <3>9 DEF TimerOK, SameBallots
  <2> QED BY <2>2, <2>3
<1>PoppedInv.
    ASSUME NEW n \in Node, NEW S, NEW s, NodeInv(n, s, S), s.stack # <<>>,
           NEW t, t = [s EXCEPT !.stack = Tail(@)]
    PROVE  /\ NodeInv(n, t, S) /\ SameBallots(s, t) /\ t.heard = s.heard
           /\ Len(t.stack) = Len(s.stack) - 1 /\ t.emit = s.emit /\ t.M = s.M
  <2> USE <1>PoppedInv
  <2>1. s \in NodeState /\ Own(n, s) /\ ProperState(s)
    BY DEF NodeInv, Sound
  <2> USE <2>1
  <2>2. s.stack \in Seq(Frame)
    BY NodeParts
  <2> USE <2>2
  <2>3. /\ Tail(s.stack) \in Seq(Frame) /\ Len(Tail(s.stack)) = Len(s.stack) - 1
        /\ HintsOf(Tail(s.stack)) \subseteq HintsOf(s.stack)
    <3>1. /\ Tail(s.stack) \in Seq(Frame) /\ Len(Tail(s.stack)) = Len(s.stack) - 1
          /\ \A i \in 1..Len(Tail(s.stack)) : Tail(s.stack)[i] = s.stack[i + 1]
      BY <1>SeqTail
    <3>2. Len(s.stack) \in Nat
      BY SeqElements
    <3> QED BY SMT, <3>1, <3>2 DEF HintsOf
  <2> USE <2>3
  <2>4. /\ t \in NodeState /\ SameBallots(s, t) /\ t.heard = s.heard /\ t.timer = s.timer
        /\ t.M = s.M /\ t.last = s.last /\ t.emit = s.emit /\ t.stack = Tail(s.stack)
        /\ t.fullyValidated = s.fullyValidated /\ t.fault = s.fault
    BY DEF NodeState, SameBallots
  <2> USE <2>4
  <2>5. Own(n, t) /\ ProperState(t)
    BY SameOwn
  <2>6. NodeInv(n, t, S)
    BY <2>5, QuietInv DEF SameBallots
  <2> QED BY <2>6
<1> SUFFICES ASSUME NEW n \in Node, NEW S, NEW s, NodeInv(n, s, S), s.stack # <<>>,
                    NEW t, t = Step(n, s)
             PROVE  Result(n, S, s, t)
  OBVIOUS
<1> DEFINE d == Len(s.stack)
           s1 == Try(1, n, s, d)
           s2 == Try(2, n, s1, d)
           s3 == Try(3, n, s2, d)
           s4 == Try(4, n, s3, d)
           bumped == attemptBump(n, s4)
           popped == [s4 EXCEPT !.stack = Tail(@)]
<1>1. s \in NodeState /\ s.stack \in Seq(Frame)
  BY NodeParts DEF NodeInv
<1>2. d \in Nat /\ d >= 1
  BY SMT, <1>1
<1>3. t = IF s4.fault # "none" \/ Len(s4.stack) # d THEN s4
          ELSE IF d > 1 THEN popped
          ELSE IF bumped # s4 THEN bumped
          ELSE checkHeardFromQuorum(n, popped)
  BY DEF Step, Leave
<1>4. Along(n, S, s, s)
  BY SMTT(30), <1>1, <1>2, NodeParts DEF Goes, Along
<1> HIDE DEF d
<1>5. Along(n, S, s, s1)
  BY SMTT(30), <1>1, <1>4, <1>TryInv DEF d
<1> HIDE DEF s1
<1>6. Along(n, S, s, s2)
  BY SMTT(30), <1>1, <1>5, <1>TryInv DEF d
<1> HIDE DEF s2
<1>7. Along(n, S, s, s3)
  BY SMT, <1>1, <1>6, <1>TryInv DEF d
<1> HIDE DEF s3
<1>8. Along(n, S, s, s4)
  BY SMT, <1>1, <1>7, <1>TryInv DEF d
<1> HIDE DEF s4
<1>9. SUFFICES ASSUME s4.fault = "none" PROVE Result(n, S, s, t)
  BY <1>3, <1>8 DEF Along, Result
<1>10. NodeInv(n, s4, S) /\ Goes(n, s, s4) /\ Len(s4.stack) >= Len(s.stack)
  BY <1>8, <1>9 DEF Along
<1> USE <1>10
<1>11. s4 \in NodeState /\ s4.stack \in Seq(Frame)
  BY NodeParts DEF NodeInv
<1>12. Len(s4.stack) \in Nat /\ s4.stack # <<>> /\ Len(s4.stack) >= d
  BY SMT, <1>2, <1>11 DEF d
<1>13. StaysHeard(s, s4) /\ s4.emit = s.emit /\ (s4.M = s.M \/ Spoke(n, s, s4))
  BY DEF Goes, StaysHeard
<1>18. ASSUME NEW w, w.M = s4.M PROVE Told(n, s, w)
  BY <1>13, <1>18, SpokeSame DEF Told
<1>14. CASE Len(s4.stack) # d
  <2>1. t = s4 /\ Len(t.stack) > d
    BY SMT, <1>2, <1>3, <1>12, <1>14
  <2> USE <2>1
  <2>2. t.stack # <<>>
    BY SMT, <1>2
  <2> QED BY <1>8, <1>13, <1>18, <2>2 DEF Handled, Result, Along
<1>15. CASE Len(s4.stack) = d /\ d > 1
  <2> USE <1>15
  <2>1. t = popped
    BY <1>3, <1>9
  <2>2. NodeInv(n, t, S) /\ SameBallots(s4, t) /\ t.heard = s4.heard /\ Len(t.stack) = d - 1
        /\ t.emit = s4.emit /\ t.M = s4.M
    BY SMT, <1>12, <2>1, <1>PoppedInv
  <2> USE <2>2
  <2>3. t.stack # <<>>
    BY SMT, <1>2
  <2>4. Told(n, s, t)
    BY <1>18
  <2> QED BY <1>13, <2>3, <2>4, NodeParts
    DEF Handled, Result, NodeInv, StaysHeard, SameBallots
<1>16. CASE Len(s4.stack) = d /\ d = 1 /\ bumped # s4
  <2> USE <1>16
  <2>1. t = bumped
    BY SMT, <1>3, <1>9
  <2>2. Outcome(n, s4, t, NoStatement) /\ t.fault \in Fault
    BY <1>9, <1>11, <2>1, AttemptBumpOutcome, OutcomeFault
  <2>0. SUFFICES ASSUME t.fault = "none" PROVE Handled(n, S, s, t)
    BY <2>2 DEF Result
  <2>3. NodeInv(n, t, S) /\ Goes(n, s4, t)
    BY <2>0, <2>2, OutcomeInv, NothingWellFormed, StatementTypes
  <2> USE <2>3
  <2>4. t.stack \in Seq(Frame) /\ t \in NodeState
    BY NodeParts DEF NodeInv
  <2>5. t.stack # <<>>
    BY SMT, <1>12, <2>4 DEF Goes
  <2>6. StaysHeard(s, t) /\ Told(n, s, t)
    <3>1. CASE s4.phase # "EXTERNALIZE" /\ Len(s4.stack) = Len(s.stack)
      <4>1. s4.M = s.M /\ StaysHeard(s, t)
        BY SMT, <1>2, <3>1 DEF Goes, StaysHeard, d
      <4>2. t.M = s4.M \/ Spoke(n, s4, t)
        BY DEF Goes
      <4> QED BY <4>1, <4>2, SpokeSame DEF Told
    <3>2. CASE s4.phase = "EXTERNALIZE"
      <4>1. bumped = s4
        BY <3>2 DEF attemptBump
      <4> QED BY <4>1
    <3> QED BY <3>1, <3>2 DEF d
  <2>7. t.emit = s.emit
    BY <1>13 DEF Goes
  <2> QED BY <2>5, <2>6, <2>7 DEF Handled
<1>17. CASE Len(s4.stack) = d /\ d = 1 /\ bumped = s4
  <2>1. t = checkHeardFromQuorum(n, popped)
    BY SMT, <1>3, <1>9, <1>17
  <2>2. NodeInv(n, popped, S) /\ SameBallots(s4, popped) /\ popped.heard = s4.heard
        /\ popped.emit = s4.emit /\ popped.M = s4.M
    BY SMT, <1>12, <1>PoppedInv
  <2> USE <2>2
  <2>3. NodeInv(n, t, S) /\ TimerOK(t) /\ (popped.heard => t.heard) /\ t.b = popped.b
        /\ t.emit = popped.emit /\ t.M = popped.M
    <3> HIDE DEF popped
    <3> QED BY SMTT(30), <2>1, <1>CheckHeardInv
  <2> USE <2>3
  <2> HIDE DEF popped
  <2>4. Told(n, s, t)
    BY <1>18
  <2> QED BY <1>13, <2>4, NodeParts
    DEF Handled, Result, NodeInv, StaysHeard, SameBallots
<1> QED BY SMT, <1>2, <1>14, <1>15, <1>16, <1>17

-----------------------------------------------------------------------------
(* The events. *)

LEMMA IdleOutcome ==
    ASSUME NEW n \in Node, NEW S, NEW s, NodeInv(n, s, S), s.stack = <<>>, TimerOK(s),
           NEW t, Outcome(n, s, t, NoStatement), t.fault = "none", t.phase = s.phase
    PROVE  Handled(n, S, s, t)
<1>1. s \in NodeState /\ HeardOK(n, s)
  BY DEF NodeInv
<1>2. NodeInv(n, t, S) /\ Goes(n, s, t) /\ (s.phase = "EXTERNALIZE" => Still(s, t))
  BY OutcomeInv, NothingWellFormed, StatementTypes
<1> USE <1>2
<1>3. t.timer = s.timer
  <2>1. ASSUME NEW u \in NodeState, Moved(n, s, u, NoStatement) PROVE u.timer = s.timer
    BY <1>1, <2>1, MoveBasics DEF SameRest
  <2> QED BY <2>1 DEF Outcome, Failed, SameRest, Emitted
<1> USE <1>3
<1>4. StaysHeard(s, t) /\ t.emit = s.emit /\ Told(n, s, t)
  BY DEF Goes, StaysHeard, Told
<1>5. t \in NodeState /\ t.stack \in Seq(Frame)
  BY NodeParts DEF NodeInv
<1>6. ASSUME t.stack = <<>> PROVE TimerOK(t)
  <2>1. CASE s.phase = "EXTERNALIZE"
    BY <2>1 DEF TimerOK, Still
  <2>2. CASE s.phase # "EXTERNALIZE"
    <3>1. Len(t.stack) = 0 /\ Len(s.stack) = 0
      BY <1>6
    <3>2. ~(Len(t.stack) > Len(s.stack))
      BY SMT, <3>1
    <3>3. s.heard => t.heard
      BY <2>2, <3>2 DEF Goes
    <3> QED BY <3>3 DEF TimerOK
  <2> QED BY <2>1, <2>2
<1> QED BY <1>4, <1>6 DEF Handled

LEMMA NominatedInv ==
    ASSUME NEW n \in Node, NEW S, NEW s, NodeInv(n, s, S), s.stack = <<>>, TimerOK(s),
           s.fault = "none", NEW value \in Value,
           NEW t, t = nominationComposite(n, s, value)
    PROVE  Result(n, S, s, t)
<1> DEFINE w == [s EXCEPT !.composite = value]
<1>1. s \in NodeState /\ Own(n, s) /\ ProperState(s)
  BY DEF NodeInv, Sound
<1> USE <1>1
<1>2. /\ w \in NodeState /\ SameBallots(s, w)
      /\ w.heard = s.heard /\ w.timer = s.timer
      /\ w.M = s.M /\ w.last = s.last /\ w.emit = s.emit
      /\ w.fullyValidated = s.fullyValidated /\ w.stack = s.stack /\ w.fault = s.fault
  BY DEF NodeState, SameBallots
<1> USE <1>2
<1>3. t = IF w.b = NoBallot THEN bumpState(n, w, value, 1) ELSE w
  BY DEF nominationComposite
<1> HIDE DEF w
<1>4. Own(n, w) /\ ProperState(w)
  BY SameOwn
<1>5. NodeInv(n, w, S) /\ TimerOK(w)
  BY <1>4, QuietInv DEF SameBallots, TimerOK
<1>6. 1 \in Counter
  BY SMT, BallotNumbers DEF Counter
<1>7. Outcome(n, w, t, NoStatement) /\ (t.fault = "none" => t.phase = w.phase)
  BY <1>3, <1>6, BumpStateOutcome, NothingDone
<1>8. t.fault \in Fault /\ (t.fault = "none" => Handled(n, S, w, t))
  BY <1>5, <1>7, IdleOutcome, OutcomeFault
<1>9. Told(n, w, t) => Told(n, s, t)
  BY SpokeSame DEF Told
<1> QED BY <1>8, <1>9 DEF Handled, Result, StaysHeard, SameBallots

LEMMA ExpiredInv ==
    ASSUME NEW n \in Node, NEW S, NEW s, NodeInv(n, s, S), s.stack = <<>>,
           s.fault = "none",
           NEW t, t = ballotProtocolTimerExpired(n, s)
    PROVE  Result(n, S, s, t)
<1> DEFINE w == [s EXCEPT !.timer = FALSE]
<1>1. s \in NodeState /\ Own(n, s) /\ ProperState(s)
  BY DEF NodeInv, Sound
<1> USE <1>1
<1>2. /\ w \in NodeState /\ SameBallots(s, w)
      /\ w.heard = s.heard /\ w.timer = FALSE
      /\ w.M = s.M /\ w.last = s.last /\ w.emit = s.emit
      /\ w.fullyValidated = s.fullyValidated /\ w.stack = s.stack /\ w.fault = s.fault
  BY DEF NodeState, SameBallots
<1> USE <1>2
<1>3. t = abandonBallot(n, w, 0)
  BY DEF ballotProtocolTimerExpired
<1> HIDE DEF w
<1>4. Own(n, w) /\ ProperState(w)
  BY SameOwn
<1>5. NodeInv(n, w, S) /\ TimerOK(w)
  BY <1>4, QuietInv DEF SameBallots, TimerOK
<1>6. 0 \in Counter
  BY SMT, BallotNumbers DEF Counter
<1>7. Outcome(n, w, t, NoStatement) /\ (t.fault = "none" => t.phase = w.phase)
  BY <1>3, <1>6, AbandonOutcome
<1>8. t.fault \in Fault /\ (t.fault = "none" => Handled(n, S, w, t))
  BY <1>5, <1>7, IdleOutcome, OutcomeFault
<1>9. Told(n, w, t) => Told(n, s, t)
  BY SpokeSame DEF Told
<1> QED BY <1>8, <1>9 DEF Handled, Result, StaysHeard, SameBallots

LEMMA ReceivedInv ==
    ASSUME NEW n \in Node, NEW S, NEW s, NodeInv(n, s, S), s.phase # "EXTERNALIZE",
           NEW m \in Node, m # n, NEW st \in Statement, acceptableStatement(n, s, m, st),
           st \in sent[m], WellFormed(st),
           NEW t, t = processEnvelope(n, s, m, st)
    PROVE  Result(n, S, s, t)
<1>1. s \in NodeState /\ Own(n, s) /\ HeardOK(n, s) /\ s.M \in [Node -> Statement]
      /\ Sound(s, S)
  BY NodeParts DEF NodeInv
<1> USE <1>1
<1>0. SUFFICES ASSUME t.fault = "none" PROVE Handled(n, S, s, t)
  BY ProcessFault DEF Result
<1>2. Processed(n, s, m, st, t)
  BY <1>0, ProcessCases
<1> USE <1>2
<1>3. t \in NodeState /\ t.M[n] = s.M[n] /\ t.M = [s.M EXCEPT ![m] = st]
  BY DEF Processed
<1> USE <1>3
<1>4. createStatement(t) = createStatement(s) /\ checkInvariants(t) = checkInvariants(s)
  BY SameStatement DEF Processed
<1>5. Own(n, t)
  BY <1>4 DEF Own, Fresh, Processed, SameBallots
<1>6. HeardOK(n, t)
  <2>1. t.heard = s.heard /\ t.timer = s.timer /\ t.b = s.b
    BY DEF Processed, SameBallots
  <2>2. isNewerStatement(s.M[m], st)
    BY DEF acceptableStatement
  <2> QED BY <2>1, <2>2, HereGrows DEF HeardOK
<1>7. Trusted(n, t, S) /\ Ordered(t, S) /\ VotesKept(n, t, S) /\ Restorable(t.emit)
  BY DEF NodeInv, Trusted, Ordered, VotesKept, Processed
<1>10. Sound(t, S)
  <2>1. ProperState(t) /\ HintsOf(t.stack) \subseteq HintsOf(s.stack) \cup {st}
    BY DEF Sound, ProperState, Processed, SameBallots
  <2>2. \A k \in Node : WellFormed(t.M[k])
    BY DEF Sound
  <2> QED BY <2>1, <2>2 DEF Sound
<1>11. NeverDoubts(n) => t.fullyValidated
  BY NoDoubt DEF NodeInv, Processed
<1>8. NodeInv(n, t, S)
  BY <1>5, <1>6, <1>7, <1>10, <1>11 DEF NodeInv
<1>9. t.stack # <<>>
  <2>1. Len(s.stack) \in Nat
    BY NodeParts, SeqElements
  <2> QED BY SMTT(30), <2>1 DEF Processed
<1>12. Told(n, s, t)
  BY DEF Told
<1> QED BY <1>8, <1>9, <1>12 DEF Handled, StaysHeard, Processed

LEMMA InitialInv ==
    ASSUME NEW n \in Node
    PROVE  NodeInv(n, InitNode, {}) /\ TimerOK(InitNode)
<1>1. InitNode \in NodeState
  <2>1. <<>> \in Seq(Frame) /\ NoStatement \in Statement /\ NoBallot \in Ballot
    BY SMT, StatementTypes, BallotNumbers
  <2> QED BY <2>1 DEF InitNode, NodeState, Phase, Fault
<1>2. /\ InitNode.b = NoBallot /\ InitNode.c = NoBallot /\ InitNode.M[n] = NoStatement
      /\ InitNode.last = NoStatement /\ InitNode.emit = NoStatement /\ Fresh(InitNode)
      /\ InitNode.heard = FALSE /\ InitNode.timer = FALSE
  BY DEF InitNode, Fresh
<1> USE <1>2
<1>3. ValidFor(n, NoStatement)
  BY SMTT(30) DEF ValidFor, NoStatement, NoBallot, getStatementValues
<1>4. KeptBy(NoStatement, NoStatement)
  BY DEF KeptBy, NoStatement
<1>5. Own(n, InitNode)
  BY DEF Own, Fresh
<1>6. Trusted(n, InitNode, {}) /\ Ordered(InitNode, {}) /\ HeardOK(n, InitNode)
      /\ VotesKept(n, InitNode, {}) /\ Restorable(InitNode.emit)
  BY <1>3, <1>4 DEF Trusted, Ordered, HeardOK, VotesKept, Restorable
<1>7. Sound(InitNode, {})
  <2>1. ProperState(InitNode)
    BY DEF Fresh, ProperState, Proper
  <2>2. \A m \in Node : InitNode.M[m] = NoStatement
    BY DEF InitNode
  <2>3. HintsOf(InitNode.stack) = {}
    BY SMT DEF InitNode, HintsOf
  <2> QED BY <2>1, <2>2, <2>3, NothingWellFormed DEF Sound
<1>8. InitNode.fullyValidated
  BY DEF InitNode
<1> QED BY <1>1, <1>5, <1>6, <1>7, <1>8 DEF NodeInv, TimerOK

(* What a restart restores satisfies the invariant with the statements     *)
(* sent before.                                                            *)
LEMMA RestoredInv ==
    \A n \in Node :
    \A S, s, r :
        /\ NodeInv(n, s, S)
        /\ r = setStateFromEnvelope(n, s.emit)
        => /\ NodeInv(n, r, S) /\ TimerOK(r) /\ r.emit = s.emit /\ r.last = s.emit
           /\ r.M[n] = s.emit /\ \A m \in Node \ {n} : r.M[m] = NoStatement
  (* The fields that setStateFromEnvelope restores say the statement. *)
<1> DEFINE Restores(st, r) ==
               /\ r \in NodeState /\ st = createStatement(r) /\ checkInvariants(r)
               /\ r.c # NoBallot => r.c.n # 0
               /\ r.phase # "PREPARE" => r.c.x # 0
               /\ r.b # NoBallot /\ ProperState(r)
<1> HIDE DEF Restores
<1>RestoredFields.
    ASSUME NEW n \in Node, NEW st \in Statement, st # NoStatement, Restorable(st),
           NEW r, r = setStateFromEnvelope(n, st)
    PROVE  /\ Restores(st, r) /\ r.M[n] = st /\ r.last = st /\ r.emit = st
           /\ ~r.heard /\ ~r.timer /\ r.fullyValidated /\ r.stack = <<>>
           /\ \A m \in Node \ {n} : r.M[m] = NoStatement
  <2> USE <1>RestoredFields
  <2> DEFINE v == st.b.x
             s == [InitNode EXCEPT !.M[n] = st, !.last = st, !.emit = st]
             M == [[m \in Node |-> NoStatement] EXCEPT ![n] = st]
             Untouched(q) ==
               /\ q.M = M /\ q.last = st /\ q.emit = st
               /\ q.heard = FALSE /\ q.timer = FALSE /\ q.fullyValidated = TRUE
               /\ q.stack = <<>> /\ q.fault = "none"
  <2>0. M \in [Node -> Statement] /\ M[n] = st /\ \A m \in Node \ {n} : M[m] = NoStatement
    BY StatementTypes
  <2>1. PICK u \in NodeState :
            /\ st = createStatement(u) /\ checkInvariants(u) /\ u.b # NoBallot
            /\ u.c # NoBallot => u.c.n # 0
            /\ u.phase # "PREPARE" => u.c.x # 0
            /\ ProperState(u)
    BY DEF Restorable
  <2>2. Says(st, u) /\ u.phase \in {"PREPARE", "CONFIRM", "EXTERNALIZE"}
    BY <2>1, CreatedStatement, NodeParts DEF Phase
  <2>3. /\ st.b \in Ballot /\ st.p \in Ballot /\ st.pp \in Ballot
        /\ st.nP \in Counter /\ st.nC \in Counter /\ st.nH \in Counter /\ UINT32_MAX \in Counter
        /\ v \in Value \cup {0} /\ NoBallot \in Ballot
    BY SMT, StatementParts, BallotNumbers DEF Counter
  <2>4. \A i \in Counter : MakeBallot(i, v) \in Ballot
                             /\ MakeBallot(i, v).n = i /\ MakeBallot(i, v).x = v
    BY <2>3 DEF MakeBallot, Ballot
  <2>5. s \in NodeState /\ Untouched(s) /\ s.p = NoBallot /\ s.pp = NoBallot /\ s.phase = "PREPARE"
    <3>2. s = [InitNode EXCEPT !.M = M, !.last = st, !.emit = st]
      BY DEF InitNode
    <3> HIDE DEF M
    <3>3. InitNode \in NodeState
      BY InitialInv DEF NodeInv
    <3>4. /\ InitNode.p = NoBallot /\ InitNode.pp = NoBallot /\ InitNode.phase = "PREPARE"
          /\ InitNode.heard = FALSE /\ InitNode.timer = FALSE /\ InitNode.fullyValidated = TRUE
          /\ InitNode.stack = <<>> /\ InitNode.fault = "none"
      BY DEF InitNode
    <3>5. /\ s \in NodeState /\ s.M = M /\ s.last = st /\ s.emit = st
          /\ s.p = InitNode.p /\ s.pp = InitNode.pp /\ s.phase = InitNode.phase
          /\ s.heard = InitNode.heard /\ s.timer = InitNode.timer
          /\ s.fullyValidated = InitNode.fullyValidated
          /\ s.stack = InitNode.stack /\ s.fault = InitNode.fault
      <4> HIDE DEF s
      <4> QED BY <2>0, <3>2, <3>3 DEF NodeState
    <3> QED BY <3>4, <3>5
  <2> HIDE DEF M
  <2>6. /\ u.b \in Ballot /\ u.c \in Ballot /\ u.h \in Ballot /\ u.p \in Ballot
        /\ u.b.n \in Nat /\ u.c.n \in Nat /\ u.h.n \in Nat /\ u.p.n \in Nat
    BY NodeParts, BallotNumbers
  <2>7. CASE u.phase = "PREPARE"
    <3> DEFINE h == IF st.nH = 0 THEN NoBallot ELSE MakeBallot(st.nH, v)
               c == IF st.nC = 0 THEN NoBallot ELSE MakeBallot(st.nC, v)
    <3>1. r = [s EXCEPT !.b = st.b, !.p = st.p, !.pp = st.pp, !.h = h, !.c = c]
      BY <2>2, <2>7 DEF setStateFromEnvelope, Says
    <3>2. h \in Ballot /\ c \in Ballot
      BY <2>3, <2>4
    <3>3. h.n = st.nH /\ c.n = st.nC /\ (st.nH # 0 => h.x = v) /\ (st.nC # 0 => c.x = v)
      BY <2>3, <2>4 DEF NoBallot
    <3>4. (h # NoBallot => st.nH # 0) /\ (c # NoBallot => st.nC # 0)
      OBVIOUS
    <3> HIDE DEF h, c, s
    <3>5. /\ r \in NodeState /\ Untouched(r) /\ r.b = st.b /\ r.p = st.p /\ r.pp = st.pp
          /\ r.h = h /\ r.c = c /\ r.phase = "PREPARE"
      BY ZenonT(30), <2>3, <2>5, <3>1, <3>2 DEF NodeState
    <3>6. st.b = u.b /\ st.p = u.p /\ st.pp = u.pp /\ st.nC = u.c.n /\ st.nH = u.h.n
      BY <2>2, <2>7 DEF Says
    <3>7. createStatement(r) = st
      BY SMT, <2>1, <2>7, <3>3, <3>5, <3>6 DEF createStatement
    <3>8. st.nH # 0 => u.h.x = v /\ st.nH <= st.b.n
      BY SMTT(30), <2>1, <3>6 DEF checkInvariants, areBallotsLessAndCompatible, NoBallot
    <3>9. st.nC # 0 => st.nH # 0 /\ st.nC <= st.nH
      BY SMTT(30), <2>1, <2>6, <3>6 DEF checkInvariants, areBallotsLessAndCompatible, NoBallot
    <3>10. checkInvariants(r)
      BY SMTT(30), <2>1, <3>3, <3>4, <3>5, <3>6, <3>8, <3>9
      DEF checkInvariants, areBallotsLessAndCompatible, NoBallot
    <3>11. ProperState(r)
      <4>1. v # 0 /\ Proper(st.b) /\ Proper(st.p) /\ Proper(st.pp)
        BY <2>1, <3>6 DEF ProperState, Proper
      <4> QED BY <3>3, <3>4, <3>5, <4>1 DEF ProperState, Proper
    <3> QED BY <2>0, <2>1, <3>3, <3>4, <3>5, <3>6, <3>7, <3>10, <3>11 DEF Restores
  <2>8. CASE u.phase = "CONFIRM"
    <3> DEFINE p == MakeBallot(st.nP, v)
               h == MakeBallot(st.nH, v)
               c == MakeBallot(st.nC, v)
    <3>1. r = [s EXCEPT !.b = st.b, !.p = p, !.h = h, !.c = c, !.phase = "CONFIRM"]
      BY <2>2, <2>8 DEF setStateFromEnvelope, Says
    <3>0. /\ p \in Ballot /\ h \in Ballot /\ c \in Ballot
          /\ p.n = st.nP /\ p.x = v /\ h.n = st.nH /\ h.x = v /\ c.n = st.nC /\ c.x = v
      BY <2>3, <2>4
    <3> HIDE DEF s, p, h, c
    <3>2. /\ r \in NodeState /\ Untouched(r) /\ r.b = st.b /\ r.p = p
          /\ r.pp = NoBallot /\ r.h = h /\ r.c = c /\ r.phase = "CONFIRM"
      <4>0. s \in NodeState /\ st.b \in Ballot /\ "CONFIRM" \in Phase
        BY <2>3, <2>5 DEF Phase
      <4>1. /\ r \in NodeState /\ r.b = st.b /\ r.p = p
            /\ r.pp = s.pp /\ r.h = h /\ r.c = c /\ r.phase = "CONFIRM"
            /\ r.M = s.M /\ r.last = s.last /\ r.emit = s.emit /\ r.heard = s.heard
            /\ r.timer = s.timer /\ r.fullyValidated = s.fullyValidated /\ r.stack = s.stack
            /\ r.fault = s.fault
        BY ZenonT(30), <3>0, <3>1, <4>0 DEF NodeState
      <4> QED BY <2>5, <4>1
    <3>3. st.b = u.b /\ st.nP = u.p.n /\ st.nC = u.c.n /\ st.nH = u.h.n
      BY <2>2, <2>8 DEF Says
    <3>4. createStatement(r) = st
      BY SMT, <2>1, <2>8, <3>0, <3>2, <3>3 DEF createStatement
    <3>5. /\ u.c.x = v /\ v # 0 /\ st.nC # 0 /\ st.nC <= st.nH /\ st.nH <= st.b.n
      BY <2>1, <2>8, <3>3 DEF checkInvariants, areBallotsLessAndCompatible
    <3>6. checkInvariants(r)
      BY SMTT(30), <2>1, <3>0, <3>2, <3>3, <3>5
      DEF checkInvariants, areBallotsLessAndCompatible, NoBallot
    <3>7. ProperState(r)
      <4>1. st.nP # 0 /\ st.nH # 0 /\ Proper(st.b)
        BY <2>1, <2>3, <2>8, <3>3, <3>5, BallotNumbers DEF checkInvariants, ProperState, Proper
      <4> QED BY <3>0, <3>2, <3>5, <4>1 DEF ProperState, Proper
    <3> QED BY <2>0, <2>1, <3>0, <3>2, <3>3, <3>4, <3>5, <3>6, <3>7 DEF Restores
  <2>9. CASE u.phase = "EXTERNALIZE"
    <3> DEFINE top == MakeBallot(UINT32_MAX, v)
               h == MakeBallot(st.nH, v)
    <3>1. r = [s EXCEPT !.b = top, !.p = top, !.h = h, !.c = st.b, !.phase = "EXTERNALIZE"]
      BY <2>2, <2>9 DEF setStateFromEnvelope, Says
    <3>0. /\ top \in Ballot /\ h \in Ballot
          /\ top.n = UINT32_MAX /\ top.x = v /\ h.n = st.nH /\ h.x = v
      BY <2>3, <2>4
    <3> HIDE DEF s, top, h
    <3>2. /\ r \in NodeState /\ Untouched(r) /\ r.b = top /\ r.p = top
          /\ r.pp = NoBallot /\ r.h = h /\ r.c = st.b /\ r.phase = "EXTERNALIZE"
      BY ZenonT(30), <2>3, <2>5, <3>0, <3>1 DEF NodeState, Phase
    <3>3. st.b = u.c /\ st.nH = u.h.n
      BY <2>2, <2>9 DEF Says
    <3>4. createStatement(r) = st
      BY ZenonT(30), <2>1, <2>9, <3>0, <3>2, <3>3 DEF createStatement
    <3>5. v # 0 /\ st.b.n # 0 /\ st.b.n <= st.nH /\ st.nH <= UINT32_MAX /\ UINT32_MAX # 0
      <4>1. u.c # NoBallot /\ u.c.n <= u.h.n
        BY <2>1, <2>9 DEF checkInvariants, areBallotsLessAndCompatible
      <4>2. st.nH <= UINT32_MAX /\ UINT32_MAX # 0
        <5>1. st.nH <= UINT32_MAX /\ UINT32_MAX \in Nat /\ UINT32_MAX > 0
          BY <2>3, BallotNumbers
        <5> QED BY SMT, <5>1
      <4> QED BY <2>1, <2>9, <3>3, <4>1, <4>2
    <3>6. checkInvariants(r)
      BY SMTT(30), <3>0, <3>2, <3>5
      DEF checkInvariants, areBallotsLessAndCompatible, NoBallot
    <3>7. r.b # NoBallot
      BY SMT, <3>0, <3>2, <3>5 DEF NoBallot
    <3>8. ProperState(r)
      <4>1. st.nH # 0
        BY SMT, <2>3, <3>5, BallotNumbers
      <4> QED BY <3>0, <3>2, <3>5, <4>1 DEF ProperState, Proper
    <3> QED BY <2>0, <3>2, <3>4, <3>5, <3>6, <3>7, <3>8 DEF Restores
  <2> QED BY <2>2, <2>7, <2>8, <2>9
<1> SUFFICES ASSUME NEW n \in Node, NEW S, NEW s, NodeInv(n, s, S),
                    NEW r, r = setStateFromEnvelope(n, s.emit)
             PROVE  /\ NodeInv(n, r, S) /\ TimerOK(r) /\ r.emit = s.emit /\ r.last = s.emit
                    /\ r.M[n] = s.emit /\ \A m \in Node \ {n} : r.M[m] = NoStatement
  BY SMT
<1>1. s \in NodeState /\ s.emit \in Statement /\ Restorable(s.emit) /\ Ordered(s, S)
  BY NodeParts DEF NodeInv
<1>2. CASE s.emit = NoStatement
  <2>1. r = InitNode
    BY SMT, <1>2 DEF setStateFromEnvelope, NoStatement
  <2>2. S = {}
    <3>1. \A st \in Statement : ~isNewerStatement(st, NoStatement)
      BY StatementTypes, NewerKeeps DEF NoStatement
    <3> QED BY SMT, <1>1, <1>2, <3>1 DEF Ordered, NoStatement
  <2>3. /\ InitNode.emit = NoStatement /\ InitNode.last = NoStatement
        /\ \A m \in Node : InitNode.M[m] = NoStatement
    BY DEF InitNode
  <2> QED BY <1>2, <2>1, <2>2, <2>3, InitialInv
<1>3. CASE s.emit # NoStatement
  <2>1. /\ Restores(s.emit, r) /\ r.M[n] = s.emit /\ r.last = s.emit /\ r.emit = s.emit
        /\ ~r.heard /\ ~r.timer /\ r.fullyValidated /\ r.stack = <<>>
        /\ \A m \in Node \ {n} : r.M[m] = NoStatement
    <3> DEFINE st == s.emit
    <3>1. st \in Statement /\ st # NoStatement /\ Restorable(st) /\ r = setStateFromEnvelope(n, st)
      BY <1>1, <1>3
    <3> HIDE DEF st
    <3>2. /\ Restores(st, r) /\ r.M[n] = st /\ r.last = st /\ r.emit = st
          /\ ~r.heard /\ ~r.timer /\ r.fullyValidated /\ r.stack = <<>>
          /\ \A m \in Node \ {n} : r.M[m] = NoStatement
      BY SMT, <3>1, <1>RestoredFields
    <3> QED BY <3>2 DEF st
  <2>2. r \in NodeState /\ Own(n, r)
    BY <2>1 DEF Own, Restores
  <2>3. Trusted(n, r, S) /\ Ordered(r, S) /\ HeardOK(n, r) /\ Restorable(r.emit)
    BY <1>1, <2>1 DEF NodeInv, Trusted, Ordered, HeardOK
  <2>4. VotesKept(n, r, S)
    <3>1. KeptBy(s.emit, s.emit)
      BY SMT, <1>1, StatementParts DEF KeptBy
    <3> QED BY <2>1, <3>1 DEF NodeInv, VotesKept
  <2>5. Sound(r, S)
    <3>1. ProperState(r) /\ WellFormed(s.emit)
      BY <2>1, StatementWellFormed DEF Restores
    <3>2. \A m \in Node : WellFormed(r.M[m])
      BY <2>1, <3>1, NothingWellFormed
    <3>3. HintsOf(r.stack) = {}
      BY SMT, <2>1 DEF HintsOf
    <3> QED BY <3>1, <3>2, <3>3 DEF NodeInv, Sound
  <2> QED BY <2>1, <2>2, <2>3, <2>4, <2>5 DEF NodeInv, TimerOK
<1> QED BY <1>2, <1>3

-----------------------------------------------------------------------------
(* The network. *)

(* Between events the timer has been dealt with, and a node that trusts    *)
(* what it says has sent it.                                               *)
AtRest(s, S) ==
    /\ s.emit = NoStatement \/ s.emit \in S
    /\ s.fault = "none" /\ s.stack = <<>> =>
         TimerOK(s) /\ (s.fullyValidated => s.emit = s.last)

(* The inductive invariant. *)
IInv ==
    /\ TypeOK
    /\ \A n \in Node :
          /\ NodeInv(n, node[n], sent[n]) /\ AtRest(node[n], sent[n])
          /\ \A m \in Node \ {n} : node[n].M[m] \in sent[m] \cup {NoStatement}

(* What an action that Becomes does: only node n moves, on from what it    *)
(* has emitted and heard.                                                  *)
Moves(n) ==
    /\ \E r \in NodeState : \E S \in SUBSET Statement :
          /\ node' = [node EXCEPT ![n] = r] /\ sent' = [sent EXCEPT ![n] = S]
          /\ NodeInv(n, r, S) /\ AtRest(r, S)
          /\ StaysHeard(node[n], r) /\ Told(n, node[n], r)
          /\ sent[n] \subseteq S /\ S \subseteq sent[n] \cup {r.M[n]}
          /\ r.emit # node[n].emit => isNewerStatement(node[n].emit, r.emit)

LEMMA BecomeMoves ==
    \A n \in Node :
    \A t :
        /\ IInv
        /\ Result(n, sent[n], node[n], t)
        /\ Become(n, t)
        => Moves(n)
  (* sendLatestEnvelope at the end of the event. *)
<1> DEFINE Sends(s) == s.fullyValidated /\ s.last # s.emit
<1> HIDE DEF Sends
<1>SentInv.
    ASSUME NEW n \in Node, NEW S, NEW s, NodeInv(n, s, S), Sends(s),
           NEW t \in NodeState, SameBallots(s, t), t.heard = s.heard, t.timer = s.timer,
           t.M = s.M, t.last = s.last, t.emit = s.last, t.fullyValidated = s.fullyValidated,
           t.stack = s.stack
    PROVE  /\ NodeInv(n, t, S \cup {s.last}) /\ isNewerStatement(s.emit, s.last)
           /\ s.last = s.M[n]
  <2> USE <1>SentInv
  <2>1. /\ s \in NodeState /\ Own(n, s) /\ Trusted(n, s, S) /\ Ordered(s, S) /\ HeardOK(n, s)
        /\ VotesKept(n, s, S) /\ Sound(s, S) /\ ProperState(s)
    BY DEF NodeInv, Sound
  <2>2. /\ t \in NodeState /\ SameBallots(s, t) /\ t.heard = s.heard /\ t.timer = s.timer
        /\ t.M = s.M /\ t.last = s.last /\ t.emit = s.last
        /\ t.fullyValidated = s.fullyValidated /\ t.stack = s.stack
    OBVIOUS
  <2>3. isNewerStatement(s.emit, s.last) /\ s.emit \in Statement /\ s.last \in Statement
    BY <2>1, NodeParts DEF Ordered, Sends
  <2>4. s.last.type # "NONE"
    BY <2>3, NewerKeeps
  <2>5. s.b # NoBallot /\ s.last = s.M[n]
    BY SMTT(30), <2>4 DEF Own, NoStatement, NodeInv
  <2>6. Own(n, t) /\ ProperState(t)
    BY <2>1, <2>2, SameOwn
  <2>7. Trusted(n, t, S \cup {s.last})
    BY <2>1, <2>2, <2>5 DEF Trusted, Sends
  <2>8. Ordered(t, S \cup {s.last})
    <3>1. ASSUME NEW st \in S
          PROVE  st \in Statement /\ st.type # "NONE" /\ isNewerStatement(st, s.last)
      BY <2>1, <2>3, NewerTransitive DEF Ordered
    <3> QED BY <2>2, <2>3, <2>4, <3>1 DEF Ordered
  <2>9. HeardOK(n, t)
    <3>1. Here(t) = Here(s) /\ Externalized(t) = Externalized(s) /\ t.b = s.b
      BY <2>2 DEF Here, Externalized, Senders, SameBallots
    <3> QED BY <2>1, <2>2, <3>1 DEF HeardOK
  <2>10. VotesKept(n, t, S \cup {s.last})
    <3>1. ASSUME NEW st \in S \cup {s.last} PROVE ~isNewerStatement(s.last, st)
      <4>1. ~isNewerStatement(s.last, s.last)
        BY <2>3, NewerKeeps
      <4>2. st # s.last => st \in Statement /\ isNewerStatement(st, s.last)
        BY <2>1, <2>3, NewerTransitive DEF Ordered
      <4> QED BY <2>3, <4>1, <4>2, NewerTransitive
    <3>2. \A st1 \in S \cup {s.last} : KeptBy(st1, s.last)
      BY <2>1, <2>5 DEF VotesKept
    <3> QED BY <2>1, <2>2, <2>5, <3>1, <3>2 DEF VotesKept
  <2>11. Restorable(t.emit)
    <3>1. s.M[n] = createStatement(s) /\ checkInvariants(s)
      BY SMTT(30), <2>4, <2>5 DEF Own, NoStatement, NodeInv
    <3> QED BY <2>1, <2>2, <2>5, <3>1 DEF Restorable, Own
  <2>12. Sound(t, S \cup {s.last})
    BY <2>1, <2>2, <2>5, <2>6 DEF Sound
  <2> QED BY <2>2, <2>3, <2>5, <2>6, <2>7, <2>8, <2>9, <2>10, <2>11, <2>12 DEF NodeInv
<1> SUFFICES ASSUME IInv, NEW n \in Node, NEW t,
                    Result(n, sent[n], node[n], t),
                    Become(n, t)
             PROVE  Moves(n)
  OBVIOUS
<1> DEFINE s == node[n]
           S == sent[n]
           send == t.fault = "none" /\ t.stack = <<>> /\ t.fullyValidated /\ t.last # t.emit
           r == IF t.fault # "none" THEN [s EXCEPT !.fault = t.fault, !.stack = <<>>]
                ELSE IF send THEN [t EXCEPT !.emit = t.last] ELSE t
           R == IF send THEN S \cup {t.last} ELSE S
<1>1. /\ s \in NodeState /\ S \in SUBSET Statement /\ NodeInv(n, s, S) /\ Own(n, s)
      /\ AtRest(s, S) /\ ProperState(s)
  BY DEF IInv, TypeOK, NodeInv, Sound
<1>2. node' = [node EXCEPT ![n] = r] /\ sent' = [sent EXCEPT ![n] = R]
  BY DEF Become
<1>3. SUFFICES /\ r \in NodeState /\ R \in SUBSET Statement /\ NodeInv(n, r, R)
               /\ AtRest(r, R)
               /\ StaysHeard(s, r) /\ Told(n, s, r)
               /\ S \subseteq R /\ R \subseteq S \cup {r.M[n]}
               /\ r.emit # s.emit => isNewerStatement(s.emit, r.emit)
  <2> HIDE DEF r, R
  <2> QED BY <1>2 DEF Moves
<1>4. CASE t.fault # "none"
  <2>1. r = [s EXCEPT !.fault = t.fault, !.stack = <<>>] /\ R = S
    BY <1>4
  <2>2. t.fault \in Fault /\ <<>> \in Seq(Frame)
    BY SMT DEF Result
  <2> HIDE DEF s, r, R
  <2>3. /\ r \in NodeState /\ SameBallots(s, r) /\ r.heard = s.heard /\ r.timer = s.timer
        /\ r.M = s.M /\ r.last = s.last /\ r.emit = s.emit
        /\ r.fullyValidated = s.fullyValidated /\ r.fault # "none" /\ r.stack = <<>>
    BY <1>1, <1>4, <2>1, <2>2 DEF NodeState, SameBallots
  <2>4. Own(n, r) /\ ProperState(r) /\ HintsOf(r.stack) = {}
    BY SMTT(30), <1>1, <2>3, SameOwn DEF HintsOf
  <2>5. NodeInv(n, r, R)
    BY <1>1, <2>1, <2>3, <2>4, QuietInv DEF SameBallots
  <2> QED BY <1>1, <2>1, <2>3, <2>5 DEF StaysHeard, AtRest, Told
<1>5. CASE t.fault = "none" /\ ~send
  <2>1. r = t /\ R = S
    BY <1>5
  <2>2. Handled(n, S, s, t) /\ t \in NodeState
    BY <1>5 DEF Result, Handled, NodeInv
  <2>3. t.stack = <<>> /\ t.fullyValidated => t.emit = t.last
    BY <1>5
  <2> HIDE DEF s, r, R, S
  <2> QED BY <1>1, <2>1, <2>2, <2>3 DEF Handled, AtRest
<1>6. CASE send
  <2>1. r = [t EXCEPT !.emit = t.last] /\ R = S \cup {t.last} /\ t.stack = <<>>
        /\ Sends(t)
    BY <1>6 DEF Sends
  <2>2. Handled(n, S, s, t) /\ NodeInv(n, t, S) /\ t \in NodeState /\ t.last \in Statement
    BY <1>6, NodeParts DEF Result, Handled, NodeInv
  <2> HIDE DEF s, r, R, S, send
  <2>3. /\ NodeInv(n, r, R) /\ isNewerStatement(t.emit, r.emit)
        /\ r.emit = t.last /\ r.heard = t.heard /\ r.timer = t.timer /\ SameBallots(t, r)
        /\ r.M = t.M /\ r.last = t.last /\ t.last = t.M[n]
    <3>1. /\ r \in NodeState /\ SameBallots(t, r) /\ r.heard = t.heard /\ r.timer = t.timer
          /\ r.M = t.M /\ r.last = t.last /\ r.emit = t.last
          /\ r.fullyValidated = t.fullyValidated /\ r.stack = t.stack
      BY <2>1, <2>2 DEF NodeState, SameBallots
    <3>2. /\ NodeInv(n, r, S \cup {t.last}) /\ isNewerStatement(t.emit, t.last)
          /\ t.last = t.M[n]
      <4>1. Sends(t)
        BY <2>1
      <4> QED BY SMTT(30), <2>2, <3>1, <4>1, <1>SentInv
    <3> QED BY <2>1, <3>1, <3>2
  <2>4. r \in NodeState /\ R \in SUBSET Statement
    BY <1>1, <2>1, <2>2, <2>3 DEF NodeInv
  <2>5. TimerOK(r)
    BY <2>1, <2>2, <2>3 DEF Handled, TimerOK, SameBallots
  <2>6. StaysHeard(s, r) /\ isNewerStatement(s.emit, r.emit)
    BY <2>2, <2>3 DEF Handled, StaysHeard, SameBallots
  <2>7. Told(n, s, r)
    BY <2>2, <2>3, SpokeSame DEF Handled, Told
  <2>8. AtRest(r, R) /\ S \subseteq R /\ R \subseteq S \cup {r.M[n]}
    BY SMT, <2>1, <2>3, <2>5 DEF AtRest
  <2> QED BY <2>3, <2>4, <2>6, <2>7, <2>8
<1> QED BY <1>4, <1>5, <1>6

LEMMA MovesKeep ==
    \A n \in Node :
        /\ IInv
        /\ Moves(n)
        => /\ node' \in [Node -> NodeState] /\ sent' \in [Node -> SUBSET Statement]
           /\ \A k \in Node : /\ NodeInv(k, node'[k], sent'[k])
                              /\ AtRest(node'[k], sent'[k])
                              /\ \A m \in Node \ {k} :
                                    node'[k].M[m] \in sent'[m] \cup {NoStatement}
                              /\ StaysHeard(node[k], node'[k])
                              /\ node'[k].emit # node[k].emit
                                   => isNewerStatement(node[k].emit, node'[k].emit)
<1>ToldOthers.
    ASSUME NEW n \in Node, NEW s \in NodeState, NEW t, Told(n, s, t)
    PROVE  \A m \in Node \ {n} : t.M[m] = s.M[m] \/ t.M[m] \in sent[m]
  <2> USE <1>ToldOthers
  <2>1. s.M \in [Node -> Statement]
    BY NodeParts
  <2> USE <2>1
  <2>2. CASE Spoke(n, s, t)
    <3>1. PICK u \in NodeState : t.M = [s.M EXCEPT ![n] = createStatement(u)]
      BY <2>2 DEF Spoke
    <3> QED BY <3>1
  <2>3. ASSUME NEW m \in Node \ {n}, NEW st \in sent[m], t.M = [s.M EXCEPT ![m] = st]
        PROVE  \A k \in Node \ {n} : t.M[k] = s.M[k] \/ t.M[k] \in sent[k]
    BY <2>3
  <2> QED BY <2>2, <2>3 DEF Told
<1> SUFFICES ASSUME IInv, NEW n \in Node, Moves(n)
             PROVE  /\ node' \in [Node -> NodeState] /\ sent' \in [Node -> SUBSET Statement]
                    /\ \A k \in Node : /\ NodeInv(k, node'[k], sent'[k])
                                       /\ AtRest(node'[k], sent'[k])
                                       /\ \A m \in Node \ {k} :
                                             node'[k].M[m] \in sent'[m] \cup {NoStatement}
                                       /\ StaysHeard(node[k], node'[k])
                                       /\ node'[k].emit # node[k].emit
                                            => isNewerStatement(node[k].emit, node'[k].emit)
  OBVIOUS
<1>1. PICK r \in NodeState, S \in SUBSET Statement :
          /\ node' = [node EXCEPT ![n] = r] /\ sent' = [sent EXCEPT ![n] = S]
          /\ NodeInv(n, r, S) /\ AtRest(r, S)
          /\ StaysHeard(node[n], r) /\ Told(n, node[n], r)
          /\ sent[n] \subseteq S /\ S \subseteq sent[n] \cup {r.M[n]}
          /\ r.emit # node[n].emit => isNewerStatement(node[n].emit, r.emit)
  BY DEF Moves
<1> USE <1>1
<1>2. node \in [Node -> NodeState] /\ sent \in [Node -> SUBSET Statement]
  BY DEF IInv, TypeOK
<1> USE <1>2
<1>3. node' \in [Node -> NodeState] /\ sent' \in [Node -> SUBSET Statement]
  OBVIOUS
<1>4. ASSUME NEW k \in Node, k # n
      PROVE  node'[k] = node[k] /\ sent'[k] = sent[k]
  BY <1>4
<1> USE <1>4
<1>5. node'[n] = r /\ sent'[n] = S
  OBVIOUS
<1> USE <1>5
<1>6. ASSUME NEW k \in Node
      PROVE  /\ NodeInv(k, node'[k], sent'[k]) /\ AtRest(node'[k], sent'[k])
             /\ StaysHeard(node[k], node'[k])
             /\ node'[k].emit # node[k].emit => isNewerStatement(node[k].emit, node'[k].emit)
  <2>1. CASE k = n
    BY <2>1
  <2>2. CASE k # n
    BY <2>2 DEF IInv, StaysHeard
  <2> QED BY <2>1, <2>2
<1>7. ASSUME NEW k \in Node, NEW m \in Node \ {k}
      PROVE  node'[k].M[m] \in sent'[m] \cup {NoStatement}
  <2>1. sent[m] \subseteq sent'[m] /\ node[k].M[m] \in sent[m] \cup {NoStatement}
    BY DEF IInv
  <2> USE <2>1
  <2>2. CASE k = n
    <3> USE <2>2
    <3>1. r.M[m] = node[n].M[m] \/ r.M[m] \in sent[m]
      BY <1>ToldOthers
    <3> QED BY <3>1
  <2>3. CASE k # n
    BY <2>3
  <2> QED BY <2>2, <2>3
<1> QED BY <1>3, <1>6, <1>7

(* Every action but Restart makes one node move. *)
LEMMA NextMoves ==
    ASSUME IInv, Next
    PROVE  /\ nominated' \in [Node -> Nat] /\ restarts' \in 0..MaxRestarts
           /\ \/ restarts' = restarts /\ \E n \in Node : Moves(n)
              \/ restarts' # restarts /\ \E n \in Node : Restart(n)
<1>1. PICK n \in Node : \/ AdvanceSlot(n) \/ Nominate(n)
                        \/ \E m \in Hears[n] : \E st \in sent[m] : ReceiveEnvelope(n, m, st)
                        \/ BallotTimerExpired(n) \/ Restart(n)
  BY DEF Next
<1>2. /\ NodeInv(n, node[n], sent[n]) /\ nominated \in [Node -> Nat]
      /\ restarts \in 0..MaxRestarts /\ MaxRestarts \in Nat
  BY ProtocolAssumption DEF IInv, TypeOK
<1> USE <1>2
<1>3. Ready(n) => node[n].stack = <<>> /\ node[n].fault = "none" /\ TimerOK(node[n])
  BY DEF Ready, Idle, IInv, AtRest
<1>4. CASE AdvanceSlot(n)
  <2> USE <1>4
  <2>1. Result(n, sent[n], node[n], Step(n, node[n]))
    BY StepInv DEF AdvanceSlot
  <2>2. Moves(n)
    BY <2>1, BecomeMoves DEF AdvanceSlot
  <2> QED BY <2>2 DEF AdvanceSlot
<1>5. CASE Nominate(n)
  <2> USE <1>5
  <2> DEFINE value == Composites[n][nominated[n] + 1]
             t == nominationComposite(n, node[n], value)
  <2>1. value \in Value
    <3>1. Composites[n] \in Seq(Value) /\ nominated[n] \in Nat
      BY ProtocolAssumption
    <3> USE <3>1
    <3>2. nominated[n] + 1 \in 1..Len(Composites[n])
      BY SMT DEF Nominate
    <3> QED BY SMT, <3>2
  <2>2. Become(n, t) /\ Ready(n)
    BY DEF Nominate
  <2> USE <2>2
  <2>3. nominated' \in [Node -> Nat] /\ restarts' = restarts
    BY SMT DEF Nominate
  <2>4. Result(n, sent[n], node[n], t)
    <3> HIDE DEF value
    <3> QED BY <1>3, <2>1, NominatedInv
  <2> HIDE DEF t
  <2>5. Moves(n)
    BY <2>4, BecomeMoves
  <2> QED BY <2>3, <2>5
<1>6. ASSUME NEW m \in Hears[n], NEW st \in sent[m], ReceiveEnvelope(n, m, st)
      PROVE  /\ nominated' \in [Node -> Nat] /\ restarts' \in 0..MaxRestarts
             /\ restarts' = restarts /\ Moves(n)
  <2> DEFINE t == processEnvelope(n, node[n], m, st)
  <2>1. m \in Node /\ st \in Statement /\ WellFormed(st)
    BY ProtocolAssumption DEF IInv, TypeOK, NodeInv, Sound
  <2>2. /\ node[n].phase # "EXTERNALIZE" /\ acceptableStatement(n, node[n], m, st)
        /\ Become(n, t) /\ UNCHANGED <<nominated, restarts>>
    BY <1>6 DEF ReceiveEnvelope
  <2> USE <2>2
  <2>3. m # n
    <3>1. isNewerStatement(node[n].M[m], st)
      BY DEF acceptableStatement
    <3> QED BY <3>1, SentIsOld DEF NodeInv
  <2>4. Result(n, sent[n], node[n], t)
    BY <2>1, <2>3, ReceivedInv
  <2> HIDE DEF t
  <2>5. Moves(n)
    BY <2>4, BecomeMoves
  <2> QED BY <2>5
<1>7. CASE BallotTimerExpired(n)
  <2> DEFINE t == ballotProtocolTimerExpired(n, node[n])
  <2>1. Become(n, t) /\ Ready(n) /\ UNCHANGED <<nominated, restarts>>
    BY <1>7 DEF BallotTimerExpired
  <2> USE <2>1
  <2>2. Result(n, sent[n], node[n], t)
    BY <1>3, ExpiredInv
  <2> HIDE DEF t
  <2>3. Moves(n)
    BY <2>2, BecomeMoves
  <2> QED BY <2>3
<1>8. CASE Restart(n)
  <2> USE <1>8
  <2>1. restarts' = restarts + 1 /\ restarts < MaxRestarts /\ nominated' = nominated
    BY DEF Restart
  <2> QED BY SMT, <2>1
<1> QED BY <1>1, <1>4, <1>5, <1>6, <1>7, <1>8

LEMMA RestartKeeps ==
    ASSUME IInv, NEW n \in Node, Restart(n)
    PROVE  /\ node' \in [Node -> NodeState] /\ sent' \in [Node -> SUBSET Statement]
           /\ \A k \in Node : /\ NodeInv(k, node'[k], sent'[k])
                              /\ AtRest(node'[k], sent'[k])
                              /\ \A m \in Node \ {k} :
                                    node'[k].M[m] \in sent'[m] \cup {NoStatement}
                              /\ node'[k].emit = node[k].emit
<1> DEFINE r == setStateFromEnvelope(n, node[n].emit)
<1>1. /\ node' = [node EXCEPT ![n] = r] /\ sent' = sent
      /\ node \in [Node -> NodeState] /\ sent \in [Node -> SUBSET Statement]
  BY DEF Restart, IInv, TypeOK
<1> USE <1>1
<1>2. /\ NodeInv(n, r, sent[n]) /\ TimerOK(r) /\ r.emit = node[n].emit /\ r.last = node[n].emit
      /\ \A m \in Node \ {n} : r.M[m] = NoStatement
  BY SMTT(30), RestoredInv DEF IInv
<1> USE <1>2
<1> HIDE DEF r
<1>3. node' \in [Node -> NodeState] /\ node'[n] = r /\ \A k \in Node \ {n} : node'[k] = node[k]
  BY DEF NodeInv
<1>4. AtRest(r, sent[n])
  BY DEF IInv, AtRest
<1> QED BY <1>3, <1>4 DEF IInv

-----------------------------------------------------------------------------
(* The theorems. *)

LEMMA InitIInv == Init => IInv
<1> SUFFICES ASSUME Init PROVE IInv
  OBVIOUS
<1>1. \A n \in Node : NodeInv(n, InitNode, {}) /\ TimerOK(InitNode) /\ InitNode \in NodeState
  BY InitialInv DEF NodeInv
<1> USE <1>1
<1>2. \A n \in Node : node[n] = InitNode /\ sent[n] = {}
  BY DEF Init
<1>3. TypeOK
  BY SMT, ProtocolAssumption DEF Init, TypeOK
<1>4. /\ InitNode.emit = NoStatement /\ InitNode.last = NoStatement
      /\ \A m \in Node : InitNode.M[m] = NoStatement
  BY DEF InitNode
<1> QED BY <1>2, <1>3, <1>4 DEF IInv, AtRest

LEMMA NextIInv == IInv /\ [Next]_vars => IInv'
<1> SUFFICES ASSUME IInv, [Next]_vars PROVE IInv'
  OBVIOUS
<1>1. CASE UNCHANGED vars
  BY <1>1 DEF vars, IInv, TypeOK
<1>2. CASE Next
  <2> USE <1>2
  <2>1. nominated' \in [Node -> Nat] /\ restarts' \in 0..MaxRestarts
    BY NextMoves
  <2> USE <2>1
  <2>2. CASE \E n \in Node : Moves(n)
    BY <2>2, MovesKeep DEF IInv, TypeOK
  <2>3. CASE \E n \in Node : Restart(n)
    BY <2>3, RestartKeeps DEF IInv, TypeOK
  <2> QED BY <2>2, <2>3, NextMoves
<1> QED BY <1>1, <1>2

(* The invariant holds throughout. *)
LEMMA Invariance == Spec => []IInv
BY InitIInv, NextIInv, PTL DEF Spec

(* Every BallotProtocol object keeps its type, whatever the attempts of    *)
(* advanceSlot compute: ballots, counters below UINT32_MAX, statements.    *)
THEOREM TypeCorrect == Spec => []TypeOK
<1>1. IInv => TypeOK
  BY DEF IInv
<1> QED BY <1>1, Invariance, PTL

(* No node ever emits a statement that names a value it has not fully      *)
(* validated: processEnvelope clears fullyValidated for the slot as soon   *)
(* as a statement it records, its own included, names a doubtful value.    *)
THEOREM OnlyValidatedSent == Spec => []SentValidated
<1>1. IInv => SentValidated
  BY DEF IInv, NodeInv, Trusted, ValidFor, SentValidated
<1> QED BY <1>1, Invariance, PTL

(* The timer of a running process is armed only when a quorum is at the    *)
(* counter of the current ballot.                                          *)
THEOREM TimerOnlyWithQuorum == Spec => []TimerJustified
<1>1. IInv => TimerJustified
  BY DEF IInv, AtRest, NodeInv, TimerOK, TimerJustified, Idle, HeardOK, Here
<1> QED BY <1>1, Invariance, PTL

(* A vote to commit is withdrawn only for a ballot accepted as prepared    *)
(* that aborts all of it, over any number of counters and restarts.        *)
THEOREM VotesToCommitKept == Spec => []CommitVotesKept
<1>1. ASSUME IInv, NEW n \in Node, NEW st1 \in sent[n], NEW st2 \in sent[n],
             st1.type = "PREPARE", st1.nC # 0, isNewerStatement(st1, st2),
             st2.type = "PREPARE", ~areBallotsCompatible(st1.b, st2.b)
      PROVE  AbortedBy(st1, st2)
  <2> USE <1>1
  <2>1. KeptBy(st1, st2)
    BY DEF IInv, NodeInv, VotesKept
  <2> QED BY <2>1 DEF KeptBy, areBallotsCompatible
<1>2. IInv => CommitVotesKept
  BY <1>1 DEF CommitVotesKept, AbortedBy
<1> QED BY <1>2, Invariance, PTL

(* Each statement a node emits is newer than all it has emitted before,    *)
(* a restart from the persisted one included.                              *)
THEOREM AlwaysNewer == Spec => EmitsNewer
<1>1. IInv /\ [Next]_vars =>
        [\A n \in Node : node'[n].emit # node[n].emit
                           => isNewerStatement(node[n].emit, node'[n].emit)]_vars
  <2> SUFFICES ASSUME IInv, Next, NEW n \in Node
               PROVE  node'[n].emit # node[n].emit
                        => isNewerStatement(node[n].emit, node'[n].emit)
    OBVIOUS
  <2>1. CASE \E k \in Node : Moves(k)
    BY <2>1, MovesKeep
  <2>2. CASE \E k \in Node : Restart(k)
    BY <2>2, RestartKeeps
  <2> QED BY <2>1, <2>2, NextMoves
<1> QED BY <1>1, Invariance, PTL DEF Spec, EmitsNewer

(* Once a node has heard from a quorum at a counter, it has heard at that  *)
(* counter until it moves on or restarts.                                  *)
THEOREM NoFlipFlop == Spec => HeardStays
<1>1. IInv /\ [Next]_vars =>
        [\A n \in Node :
           node[n].heard /\ node'[n].b.n = node[n].b.n /\ restarts' = restarts
             => node'[n].heard]_vars
  <2> SUFFICES ASSUME IInv, Next, NEW n \in Node, node[n].heard,
                      node'[n].b.n = node[n].b.n, restarts' = restarts
               PROVE  node'[n].heard
    OBVIOUS
  <2>1. PICK k \in Node : Moves(k)
    BY NextMoves
  <2> QED BY <2>1, MovesKeep DEF StaysHeard
<1> QED BY <1>1, Invariance, PTL DEF Spec, HeardStays
=============================================================================

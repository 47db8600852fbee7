------------------------ MODULE BallotOutcomeProofs -------------------------
(***************************************************************************)
(* What one activation of a handler of BallotProtocol does to its node:    *)
(* each of the four attempts of advanceSlot, bumpState, abandonBallot and  *)
(* attemptBump either leaves the node alone, fails an assertion, or makes  *)
(* one of five moves and emits the statement that tells of it.             *)
(***************************************************************************)
EXTENDS BallotNode, LocalNodeProofs

(* Zenon proves what names no other prover. *)
USE Zenon

-----------------------------------------------------------------------------
(* The orders of ballots and statements. *)

LEMMA BallotNumbers ==
    /\ UINT32_MAX \in Nat /\ UINT32_MAX > 0
    /\ \A i \in Counter : i \in Nat /\ i <= UINT32_MAX
    /\ \A v \in Value : v \in Nat /\ v > 0
    /\ \A b \in Ballot : /\ b.n \in Counter /\ b.x \in Value \cup {0}
                         /\ b.n \in Int /\ b.x \in Int /\ b.n >= 0 /\ b.x >= 0
    /\ NoBallot \in Ballot
<1>1. \A v \in Value : v \in Nat /\ v > 0
  BY SMT, BallotAssumption
<1> USE <1>1
<1>2. UINT32_MAX \in Nat /\ UINT32_MAX > 0
  BY SMT, BallotAssumption
<1> USE <1>2
<1>3. \A i \in Counter : i \in Nat /\ i <= UINT32_MAX
  BY SMT DEF Counter
<1> USE <1>3
<1>4. ASSUME NEW b \in Ballot
      PROVE  /\ b.n \in Counter /\ b.x \in Value \cup {0}
             /\ b.n \in Int /\ b.x \in Int /\ b.n >= 0 /\ b.x >= 0
  <2>1. b.n \in Counter /\ b.x \in Value \cup {0}
    BY DEF Ballot
  <2> USE <2>1
  <2>2. b.n \in Nat
    OBVIOUS
  <2>3. b.x \in Nat
    BY SMT
  <2> QED BY SMT, <2>2, <2>3
<1>5. NoBallot \in Ballot
  BY SMT DEF NoBallot, Ballot, Counter
<1> QED BY <1>4, <1>5

LEMMA BallotEqual ==
    ASSUME NEW b1 \in Ballot, NEW b2 \in Ballot, b1.n = b2.n, b1.x = b2.x
    PROVE  b1 = b2
BY SMT DEF Ballot

LEMMA LessTransitive ==
    ASSUME NEW b1 \in Ballot, NEW b2 \in Ballot, NEW b3 \in Ballot,
           Less(b1, b2), Less(b2, b3)
    PROVE  Less(b1, b3)
BY SMT, BallotNumbers DEF Less

LEMMA LessTotal ==
    ASSUME NEW b1 \in Ballot, NEW b2 \in Ballot
    PROVE  /\ Less(b1, b2) \/ b1 = b2 \/ Less(b2, b1)
           /\ ~(Less(b1, b2) /\ Less(b2, b1))
           /\ ~Less(b1, b1)
BY SMT, BallotNumbers, BallotEqual DEF Less

LEMMA StatementParts ==
    ASSUME NEW st \in Statement
    PROVE  /\ st.type \in StatementType
           /\ st.b \in Ballot /\ st.p \in Ballot /\ st.pp \in Ballot
           /\ st.nP \in Counter /\ st.nC \in Counter /\ st.nH \in Counter
           /\ st.nP \in Nat /\ st.nC \in Nat /\ st.nH \in Nat
<1>1. /\ st.type \in StatementType
      /\ st.b \in Ballot /\ st.p \in Ballot /\ st.pp \in Ballot
      /\ st.nP \in Counter /\ st.nC \in Counter /\ st.nH \in Counter
  BY DEF Statement
<1> QED BY <1>1, BallotNumbers

LEMMA TypeOrderNumbers ==
    /\ typeOrder("NONE") = 0 /\ typeOrder("PREPARE") = 1
    /\ typeOrder("CONFIRM") = 2 /\ typeOrder("EXTERNALIZE") = 3
BY DEF typeOrder

(* isNewerStatement is a strict order. *)
LEMMA NewerTransitive ==
    ASSUME NEW s1 \in Statement, NEW s2 \in Statement, NEW s3 \in Statement,
           isNewerStatement(s1, s2), isNewerStatement(s2, s3)
    PROVE  isNewerStatement(s1, s3)
<1>1. /\ s1.type \in StatementType /\ s2.type \in StatementType /\ s3.type \in StatementType
  BY StatementParts
<1> USE <1>1
<1>2. CASE s1.type # s2.type \/ s2.type # s3.type
  BY SMT, <1>2, TypeOrderNumbers DEF isNewerStatement, StatementType
<1>3. CASE s1.type = s2.type /\ s2.type = s3.type
  <2> USE <1>3
  <2>0. /\ s1.b \in Ballot /\ s2.b \in Ballot /\ s3.b \in Ballot
        /\ s1.p \in Ballot /\ s2.p \in Ballot /\ s3.p \in Ballot
        /\ s1.pp \in Ballot /\ s2.pp \in Ballot /\ s3.pp \in Ballot
        /\ s1.nP \in Nat /\ s2.nP \in Nat /\ s3.nP \in Nat
        /\ s1.nH \in Nat /\ s2.nH \in Nat /\ s3.nH \in Nat
    BY StatementParts
  <2> USE <2>0
  <2>1. /\ Less(s1.b, s2.b) /\ Less(s2.b, s3.b) => Less(s1.b, s3.b)
        /\ Less(s1.p, s2.p) /\ Less(s2.p, s3.p) => Less(s1.p, s3.p)
        /\ Less(s1.pp, s2.pp) /\ Less(s2.pp, s3.pp) => Less(s1.pp, s3.pp)
    BY LessTransitive
  <2>2. ~(typeOrder(s1.type) < typeOrder(s2.type)) /\ ~(typeOrder(s2.type) < typeOrder(s3.type))
    BY SMT, TypeOrderNumbers DEF StatementType
  <2> QED
    BY SMT, <2>1, <2>2 DEF isNewerStatement
<1> QED BY <1>2, <1>3

(* What a newer statement keeps. *)
LEMMA NewerKeeps ==
    ASSUME NEW s1 \in Statement, NEW s2 \in Statement, isNewerStatement(s1, s2)
    PROVE  /\ s2.type # "NONE"
           /\ s1.type = "CONFIRM" => s2.type \in {"CONFIRM", "EXTERNALIZE"}
           /\ s1.type # "EXTERNALIZE"
           /\ s1.type = "PREPARE" /\ s2.type = "PREPARE" => s1.b.n <= s2.b.n
           /\ s1 # s2
<1>1. s1.type \in StatementType /\ s2.type \in StatementType
  BY StatementParts
<1> USE <1>1
<1>2. s1.b \in Ballot /\ s2.b \in Ballot
  BY StatementParts
<1>3. s1.type # "EXTERNALIZE" /\ s2.type # "NONE"
      /\ (s1.type = "CONFIRM" => s2.type \in {"CONFIRM", "EXTERNALIZE"})
  BY SMT, TypeOrderNumbers DEF isNewerStatement, StatementType
<1>4. s1.type = "PREPARE" /\ s2.type = "PREPARE" => s1.b.n <= s2.b.n
  BY SMT, <1>2, TypeOrderNumbers, BallotNumbers DEF isNewerStatement, Less
<1>5. s1 # s2
  <2> SUFFICES ASSUME s1 = s2 PROVE FALSE
    OBVIOUS
  <2>1. ~Less(s1.b, s1.b) /\ ~Less(s1.p, s1.p) /\ ~Less(s1.pp, s1.pp)
    BY StatementParts, LessTotal
  <2>2. s1.nP \in Nat /\ s1.nH \in Nat
    BY StatementParts
  <2>3. ~(typeOrder(s1.type) < typeOrder(s1.type))
    BY SMT, TypeOrderNumbers DEF StatementType
  <2> QED BY SMT, <2>1, <2>2, <2>3 DEF isNewerStatement
<1> QED BY <1>3, <1>4, <1>5

-----------------------------------------------------------------------------
(* The greatest and least members that the code finds by iterating over    *)
(* ordered containers.                                                     *)

LEMMA NatExtremes ==
    ASSUME NEW S \in SUBSET Nat, S # {}, NEW top \in Nat, \A i \in S : i <= top
    PROVE  /\ MaxNat(S) \in S /\ \A j \in S : j <= MaxNat(S)
           /\ MinNat(S) \in S /\ \A j \in S : MinNat(S) <= j
<1>1. PICK m \in S : \A j \in S : m <= j
  BY LeastNatural
<1> DEFINE D == {top - i : i \in S}
<1>2. D \in SUBSET Nat /\ D # {}
  BY SMT
<1>3. PICK d \in D : \A e \in D : d <= e
  <2> HIDE DEF D
  <2> QED BY <1>2, LeastNatural
<1>4. PICK i \in S : d = top - i
  OBVIOUS
<1>5. \A j \in S : j <= i
  <2> TAKE j \in S
  <2>1. d <= top - j
    BY <1>3
  <2> HIDE DEF D
  <2> QED BY SMT, <2>1, <1>4
<1>6. MinNat(S) \in S /\ \A j \in S : MinNat(S) <= j
  BY <1>1 DEF MinNat
<1>7. MaxNat(S) \in S /\ \A j \in S : j <= MaxNat(S)
  BY <1>5 DEF MaxNat
<1> QED BY <1>6, <1>7

LEMMA CounterExtremes ==
    ASSUME NEW S \in SUBSET Counter, S # {}
    PROVE  /\ MaxNat(S) \in S /\ \A j \in S : j <= MaxNat(S)
           /\ MinNat(S) \in S /\ \A j \in S : MinNat(S) <= j
<1>1. S \in SUBSET Nat /\ \A i \in S : i <= UINT32_MAX
  BY BallotNumbers
<1> QED BY <1>1, BallotNumbers, NatExtremes

-----------------------------------------------------------------------------
(* Emitting. *)

(* u has the fields of s that no attempt touches before it emits. *)
SameRest(s, u) ==
    /\ u \in NodeState
    /\ u.composite = s.composite /\ u.timer = s.timer /\ u.M = s.M /\ u.last = s.last
    /\ u.emit = s.emit /\ u.fullyValidated = s.fullyValidated /\ u.stack = s.stack
    /\ u.fault = s.fault

SameBallots(s, u) ==
    /\ u.b = s.b /\ u.p = s.p /\ u.pp = s.pp /\ u.h = s.h /\ u.c = s.c /\ u.phase = s.phase

(* The hints of the activations of advanceSlot in progress. *)
HintsOf(stack) == {stack[i].hint : i \in 1..Len(stack)}

(* emitCurrentStateStatement took u to t and the process goes on. *)
Emitted(n, u, t) ==
    /\ t \in NodeState /\ SameBallots(u, t)
    /\ t.valueOverride = u.valueOverride /\ t.composite = u.composite
    /\ t.heard = u.heard /\ t.timer = u.timer /\ t.emit = u.emit /\ t.fault = u.fault
    /\ checkInvariants(u)
    /\ createStatement(u) \in Statement
    /\ acceptableStatement(n, u, n, createStatement(u))
    /\ t.M = [u.M EXCEPT ![n] = createStatement(u)]
    /\ t.last = IF u.b # NoBallot /\ isNewerStatement(u.last, createStatement(u))
                THEN createStatement(u) ELSE u.last
    /\ u.phase = "EXTERNALIZE" =>
         t.stack = u.stack /\ t.fullyValidated = u.fullyValidated
    /\ u.phase # "EXTERNALIZE" =>
         /\ Len(t.stack) = Len(u.stack) + 1
         /\ HintsOf(t.stack) \subseteq HintsOf(u.stack) \cup {createStatement(u)}
         /\ t.fullyValidated = (u.fullyValidated
                                  /\ validateValues(n, createStatement(u)) # "maybeValid")

LEMMA StatementTypes ==
    /\ NoStatement \in Statement
    /\ \A b, p, pp \in Ballot : \A nC, nH \in Counter : Prepare(b, p, pp, nC, nH) \in Statement
    /\ \A b \in Ballot : \A nP, nC, nH \in Counter : Confirm(b, nP, nC, nH) \in Statement
    /\ \A c \in Ballot : \A nH \in Counter : Externalize(c, nH) \in Statement
<1>1. 0 \in Counter /\ NoBallot \in Ballot
  BY SMT, BallotNumbers DEF Counter
<1> USE <1>1
<1>2. NoStatement \in Statement
  BY DEF NoStatement, Statement, StatementType
<1> QED BY <1>2 DEF NoStatement, Prepare, Confirm, Externalize, Statement, StatementType

(* The types of the fields of a node. *)
LEMMA NodeParts ==
    ASSUME NEW s \in NodeState
    PROVE  /\ s.b \in Ballot /\ s.p \in Ballot /\ s.pp \in Ballot /\ s.h \in Ballot /\ s.c \in Ballot
           /\ s.phase \in Phase /\ s.valueOverride \in Value \cup {0}
           /\ s.composite \in Value \cup {0} /\ s.heard \in BOOLEAN /\ s.timer \in BOOLEAN
           /\ s.M \in [Node -> Statement] /\ s.last \in Statement /\ s.emit \in Statement
           /\ s.fullyValidated \in BOOLEAN /\ s.stack \in Seq(Frame) /\ s.fault \in Fault
BY DEF NodeState

(* st says what the fields of s are. *)
Says(st, s) ==
    /\ st.type = s.phase
    /\ s.phase # "EXTERNALIZE" => st.b = s.b
    /\ s.phase = "EXTERNALIZE" => st.b = s.c
    /\ s.phase = "PREPARE" => st.p = s.p /\ st.pp = s.pp
    /\ s.phase # "PREPARE" => st.p = NoBallot /\ st.pp = NoBallot
    /\ s.phase = "CONFIRM" => st.nP = s.p.n
    /\ s.phase # "CONFIRM" => st.nP = 0
    /\ s.phase # "EXTERNALIZE" => st.nC = s.c.n
    /\ s.phase = "EXTERNALIZE" => st.nC = 0
    /\ st.nH = s.h.n

LEMMA CreatedStatement ==
    ASSUME NEW s \in NodeState
    PROVE  createStatement(s) \in Statement /\ Says(createStatement(s), s)
<1>1. /\ s.b \in Ballot /\ s.p \in Ballot /\ s.pp \in Ballot /\ s.c \in Ballot
      /\ s.p.n \in Counter /\ s.c.n \in Counter /\ s.h.n \in Counter
  BY NodeParts, BallotNumbers
<1> USE <1>1
<1>2. s.phase \in {"PREPARE", "CONFIRM", "EXTERNALIZE"}
  BY NodeParts DEF Phase
<1>3. CASE s.phase = "PREPARE"
  <2> USE <1>3
  <2>1. createStatement(s) = Prepare(s.b, s.p, s.pp, s.c.n, s.h.n)
    BY DEF createStatement
  <2> USE <2>1
  <2>2. createStatement(s) \in Statement
    BY StatementTypes
  <2> QED BY <2>2 DEF Says, Prepare, NoStatement
<1>4. CASE s.phase = "CONFIRM"
  <2> USE <1>4
  <2>1. createStatement(s) = Confirm(s.b, s.p.n, s.c.n, s.h.n)
    BY DEF createStatement
  <2> USE <2>1
  <2>2. createStatement(s) \in Statement
    BY StatementTypes
  <2> QED BY <2>2 DEF Says, Confirm, NoStatement
<1>5. CASE s.phase = "EXTERNALIZE"
  <2> USE <1>5
  <2>1. createStatement(s) = Externalize(s.c, s.h.n)
    BY DEF createStatement
  <2> USE <2>1
  <2>2. createStatement(s) \in Statement
    BY StatementTypes
  <2> QED BY <2>2 DEF Says, Externalize, NoStatement
<1> QED BY <1>2, <1>3, <1>4, <1>5

(* processEnvelope took s to t and the process goes on. *)
Processed(n, s, m, st, t) ==
    /\ t \in NodeState /\ SameBallots(s, t)
    /\ t.valueOverride = s.valueOverride /\ t.composite = s.composite
    /\ t.heard = s.heard /\ t.timer = s.timer /\ t.emit = s.emit /\ t.fault = s.fault
    /\ t.last = s.last
    /\ t.M = [s.M EXCEPT ![m] = st]
    /\ s.phase = "EXTERNALIZE" =>
         t.stack = s.stack /\ t.fullyValidated = s.fullyValidated
    /\ s.phase # "EXTERNALIZE" =>
         /\ Len(t.stack) = Len(s.stack) + 1
         /\ HintsOf(t.stack) \subseteq HintsOf(s.stack) \cup {st}
         /\ t.fullyValidated = (s.fullyValidated /\ validateValues(n, st) # "maybeValid")

LEMMA ProcessCases ==
    \A n \in Node, s \in NodeState, m \in Node, st \in Statement :
    \A t :
        /\ t = processEnvelope(n, s, m, st)
        /\ t.fault = "none"
        => Processed(n, s, m, st, t)
  (* recordEnvelope and enterAdvanceSlot, for a process that goes on. *)
<1>EnterAdvances.
    ASSUME NEW s \in NodeState, NEW hint \in Statement,
           NEW t, t = enterAdvanceSlot(s, hint), t.fault = "none"
    PROVE  /\ SameBallots(s, t) /\ t \in NodeState
           /\ t.valueOverride = s.valueOverride /\ t.composite = s.composite
           /\ t.heard = s.heard /\ t.timer = s.timer /\ t.M = s.M /\ t.last = s.last
           /\ t.emit = s.emit /\ t.fullyValidated = s.fullyValidated /\ t.fault = s.fault
           /\ Len(t.stack) = Len(s.stack) + 1
           /\ HintsOf(t.stack) \subseteq HintsOf(s.stack) \cup {hint}
  <2> USE <1>EnterAdvances
  <2> DEFINE frame == [hint |-> hint, pc |-> 1]
             r == <<frame>> \o s.stack
             w == [s EXCEPT !.stack = r]
  <2>1. Fail(s, "recursion").fault = "recursion"
    BY DEF Fail, NodeState
  <2>2. t = w
    BY <2>1 DEF enterAdvanceSlot
  <2>3. frame \in Frame
    BY SMT DEF Frame
  <2>4. s.stack \in Seq(Frame)
    BY NodeParts
  <2> USE <2>4
  <2>5. r \in Seq(Frame) /\ Len(r) = 1 + Len(s.stack)
    <3> HIDE DEF frame
    <3> QED BY <2>3, SeqCons
  <2> USE <2>5
  <2>6. Len(s.stack) \in Nat
    BY SeqElements
  <2> USE <2>6
  <2>8. HintsOf(r) \subseteq HintsOf(s.stack) \cup {hint}
    <3>2. frame.hint = hint
      OBVIOUS
    <3> HIDE DEF frame
    <3>3. \A i \in 1..(1 + Len(s.stack)) : r[i] = IF i <= 1 THEN frame ELSE s.stack[i - 1]
      BY <2>3, SeqCons
    <3> USE <3>3
    <3> HIDE DEF r
    <3> SUFFICES ASSUME NEW i \in 1..(1 + Len(s.stack)) PROVE r[i].hint \in HintsOf(s.stack) \cup {hint}
      BY DEF HintsOf
    <3>4. CASE i = 1
      BY SMT, <3>2, <3>4
    <3>5. CASE i # 1
      <4>1. i - 1 \in 1..Len(s.stack) /\ r[i] = s.stack[i - 1]
        BY SMT, <3>5
      <4> QED BY <4>1 DEF HintsOf
    <3> QED BY <3>4, <3>5
  <2> HIDE DEF r
  <2>7. /\ w \in NodeState /\ SameBallots(s, w)
        /\ w.valueOverride = s.valueOverride /\ w.composite = s.composite
        /\ w.heard = s.heard /\ w.timer = s.timer /\ w.M = s.M /\ w.last = s.last
        /\ w.emit = s.emit /\ w.fullyValidated = s.fullyValidated /\ w.fault = s.fault
        /\ w.stack = r
    BY DEF NodeState, SameBallots
  <2> HIDE DEF w
  <2> QED BY SMT, <2>2, <2>7, <2>8
<1> SUFFICES ASSUME NEW n \in Node, NEW s \in NodeState, NEW m \in Node, NEW st \in Statement,
                    NEW t, t = processEnvelope(n, s, m, st), t.fault = "none"
             PROVE  Processed(n, s, m, st, t)
  OBVIOUS
<1> DEFINE w == recordEnvelope(s, m, st)
           ok == s.fullyValidated /\ validateValues(n, st) # "maybeValid"
           v == [w EXCEPT !.fullyValidated = ok]
<1>1. s.M \in [Node -> Statement] /\ s.fullyValidated \in BOOLEAN
  BY NodeParts
<1>2. /\ w \in NodeState /\ SameBallots(s, w)
      /\ w.valueOverride = s.valueOverride /\ w.composite = s.composite
      /\ w.heard = s.heard /\ w.timer = s.timer /\ w.M = [s.M EXCEPT ![m] = st]
      /\ w.last = s.last /\ w.emit = s.emit /\ w.fullyValidated = s.fullyValidated
      /\ w.fault = s.fault /\ w.stack = s.stack
  BY <1>1 DEF NodeState, SameBallots, recordEnvelope
<1> USE <1>2
<1>3. v = [recordEnvelope(s, m, st) EXCEPT
              !.fullyValidated = @ /\ validateValues(n, st) # "maybeValid"]
  <2> HIDE DEF w
  <2>1. v = [w EXCEPT !.fullyValidated = @ /\ validateValues(n, st) # "maybeValid"]
    OBVIOUS
  <2> QED BY <2>1 DEF w
<1>4. t = IF s.phase = "EXTERNALIZE" THEN w ELSE enterAdvanceSlot(v, st)
  BY <1>3 DEF processEnvelope
<1> USE <1>4
<1>5. ok \in BOOLEAN
  OBVIOUS
<1> HIDE DEF w, ok
<1>6. /\ v \in NodeState /\ SameBallots(w, v)
      /\ v.valueOverride = w.valueOverride /\ v.composite = w.composite
      /\ v.heard = w.heard /\ v.timer = w.timer /\ v.M = w.M
      /\ v.last = w.last /\ v.emit = w.emit /\ v.fullyValidated = ok
      /\ v.fault = w.fault /\ v.stack = w.stack
  BY <1>5 DEF NodeState, SameBallots
<1> USE <1>6
<1> HIDE DEF v
<1>7. CASE s.phase = "EXTERNALIZE"
  BY <1>7 DEF Processed
<1>8. CASE s.phase # "EXTERNALIZE"
  <2> USE <1>8
  <2>1. t = enterAdvanceSlot(v, st)
    OBVIOUS
  <2>2. /\ SameBallots(v, t) /\ t \in NodeState
        /\ t.valueOverride = v.valueOverride /\ t.composite = v.composite
        /\ t.heard = v.heard /\ t.timer = v.timer /\ t.M = v.M /\ t.last = v.last
        /\ t.emit = v.emit /\ t.fullyValidated = v.fullyValidated /\ t.fault = v.fault
        /\ Len(t.stack) = Len(v.stack) + 1
        /\ HintsOf(t.stack) \subseteq HintsOf(v.stack) \cup {st}
    BY <2>1, <1>EnterAdvances
  <2> QED BY <2>2 DEF Processed, SameBallots, ok
<1> QED BY <1>7, <1>8

(* emitCurrentStateStatement fails, has nothing new to say, or emits. *)
LEMMA EmitCases ==
    ASSUME NEW n \in Node, NEW u \in NodeState,
           NEW t, t = emitCurrentStateStatement(n, u), t.fault = "none"
    PROVE  \/ Emitted(n, u, t)
           \/ t = u /\ checkInvariants(u) /\ u.M[n] = createStatement(u)
<1> DEFINE st == createStatement(u)
           last == IF u.b # NoBallot /\ isNewerStatement(u.last, st) THEN st ELSE u.last
           w == [u EXCEPT !.last = last]
<1>1. \A why \in {"assert", "badState"} : Fail(u, why).fault = why
  BY DEF Fail, NodeState
<1>2. w = [u EXCEPT !.last = IF u.b # NoBallot /\ isNewerStatement(@, st) THEN st ELSE @]
  OBVIOUS
<1>3. SUFFICES ASSUME checkInvariants(u), u.M[n] # st, acceptableStatement(n, u, n, st)
               PROVE  Emitted(n, u, t)
  BY <1>1 DEF emitCurrentStateStatement
<1> USE <1>3
<1>4. t = processEnvelope(n, w, n, st)
  BY <1>2 DEF emitCurrentStateStatement
<1>5. st \in Statement
  BY CreatedStatement
<1> USE <1>5
<1>6. last \in Statement
  BY NodeParts
<1> HIDE DEF st, last
<1>7. /\ w \in NodeState /\ SameBallots(u, w)
      /\ w.valueOverride = u.valueOverride /\ w.composite = u.composite
      /\ w.heard = u.heard /\ w.timer = u.timer /\ w.M = u.M /\ w.stack = u.stack
      /\ w.last = last /\ w.emit = u.emit /\ w.fullyValidated = u.fullyValidated
      /\ w.fault = u.fault
  BY <1>6 DEF NodeState, SameBallots
<1> USE <1>7
<1> HIDE DEF w
<1>8. Processed(n, w, n, st, t)
  BY <1>4, ProcessCases
<1> QED BY <1>8 DEF Processed, Emitted, SameBallots, st, last

-----------------------------------------------------------------------------
(* What the attempts change before they emit.  Each of the following is a  *)
(* change of the ballots from s to u.                                      *)

(* bumpToBallot and updateCurrentIfNeeded. *)
HeardAfter(s, ballot) == s.heard /\ s.b # NoBallot /\ s.b.n = ballot.n

(* setAcceptPrepared for ballot z. *)
AcceptsPrepared(n, s, u, hint, z) ==
    /\ SameRest(s, u) /\ s.phase # "EXTERNALIZE"
    /\ z \in getPrepareCandidates(s, hint)
    /\ raisesPrepared(s, z) /\ acceptsPrepared(n, s, z)
    /\ s.phase = "CONFIRM" => areBallotsCompatible(s.c, z)
    /\ u.p = setPrepared(s, z).p /\ u.pp = setPrepared(s, z).pp
    /\ u.b = s.b /\ u.h = s.h /\ u.phase = s.phase
    /\ u.valueOverride = s.valueOverride /\ u.heard = s.heard
    /\ \/ /\ s.phase = "PREPARE" /\ s.c # NoBallot /\ u.c = NoBallot
          /\ \/ areBallotsLessAndIncompatible(s.h, u.p)
             \/ u.pp # NoBallot /\ areBallotsLessAndIncompatible(s.h, u.pp)
       \/ u.c = s.c

(* setConfirmPrepared for newC and newH. *)
ConfirmsPrepared(n, s, u, hint, newC, newH) ==
    LET onBallot == s.b = NoBallot \/ areBallotsCompatible(s.b, newH)
        bumps == s.b = NoBallot \/ Less(s.b, newH)
        h == IF onBallot THEN newH ELSE s.h
    IN  /\ SameRest(s, u) /\ s.phase = "PREPARE" /\ u.phase = s.phase
        /\ u.p = s.p /\ u.pp = s.pp
        /\ newH \in getPrepareCandidates(s, hint)
        /\ Less(s.h, newH) /\ ratifiesPrepared(n, s, newH)
        /\ newC.n # 0 => /\ s.c = NoBallot /\ LessEq(s.b, newC)
                         /\ areBallotsLessAndCompatible(newC, newH)
        /\ u.valueOverride = newH.x
        /\ u.c = IF onBallot /\ newC.n # 0 THEN newC ELSE s.c
        /\ u.b = IF bumps THEN newH ELSE s.b
        /\ u.h = IF bumps /\ ~areBallotsCompatible(newH, h) THEN NoBallot ELSE h
        /\ u.heard = IF bumps THEN HeardAfter(s, newH) ELSE s.heard

(* setAcceptCommit for c and h. *)
AcceptsCommit(n, s, u, c, h) ==
    LET bumps == \/ s.b = NoBallot \/ Less(s.b, h)
                 \/ s.phase = "PREPARE" /\ ~areBallotsLessAndCompatible(h, s.b)
    IN  /\ SameRest(s, u) /\ s.phase # "EXTERNALIZE" /\ u.phase = "CONFIRM"
        /\ c.n # 0 /\ c.x = h.x /\ c.n <= h.n
        /\ acceptsCommit(n, s, c.x, c.n, h.n)
        /\ s.phase = "CONFIRM" => h.x = s.h.x /\ h.n > s.h.n
        /\ u.valueOverride = h.x /\ u.c = c /\ u.h = h
        /\ u.p = s.p
        /\ u.pp = IF s.phase = "PREPARE" THEN NoBallot ELSE s.pp
        /\ u.b = IF bumps THEN h ELSE s.b
        /\ u.heard = IF bumps THEN HeardAfter(s, h) ELSE s.heard

(* setConfirmCommit for c and h. *)
ConfirmsCommit(n, s, u, c, h) ==
    LET bumps == s.b = NoBallot \/ Less(s.b, h)
    IN  /\ SameRest(s, u) /\ s.phase = "CONFIRM" /\ u.phase = "EXTERNALIZE"
        /\ c.n # 0 /\ c.x = h.x /\ c.n <= h.n /\ c.x = s.c.x
        /\ ratifiesCommit(n, s, c.x, c.n, h.n)
        /\ u.valueOverride = s.valueOverride /\ u.c = c /\ u.h = h
        /\ u.p = s.p /\ u.pp = s.pp
        /\ u.b = IF bumps THEN h ELSE s.b
        /\ u.heard = IF bumps THEN HeardAfter(s, h) ELSE s.heard

(* updateCurrentValue, in bumpState. *)
Bumps(s, u, ballot) ==
    /\ SameRest(s, u) /\ s.phase # "EXTERNALIZE" /\ u.phase = s.phase
    /\ Less(s.b, ballot)
    /\ s.c # NoBallot => areBallotsCompatible(s.c, ballot)
    /\ ballot.x # 0
    /\ checkInvariants(u)
    /\ u.valueOverride = s.valueOverride
    /\ u.b = ballot /\ u.p = s.p /\ u.pp = s.pp /\ u.c = s.c
    /\ u.h = IF areBallotsCompatible(ballot, s.h) THEN s.h ELSE NoBallot
    /\ u.heard = HeardAfter(s, ballot)

Moved(n, s, u, hint) ==
    \/ \E z \in Ballot : AcceptsPrepared(n, s, u, hint, z)
    \/ \E newC, newH \in Ballot : ConfirmsPrepared(n, s, u, hint, newC, newH)
    \/ \E c, h \in Ballot : AcceptsCommit(n, s, u, c, h) \/ ConfirmsCommit(n, s, u, c, h)
    \/ \E ballot \in Ballot : Bumps(s, u, ballot)

(* An attempt fails, does nothing but note the value, or moves the ballots *)
(* and emits unless that leaves nothing new to say.                        *)
Failed(t) == t.fault \in Fault /\ t.fault # "none"

Outcome(n, s, t, hint) ==
    \/ Failed(t)
    \/ SameRest(s, t) /\ SameBallots(s, t) /\ t.heard = s.heard
    \/ \E u \in NodeState :
          /\ Moved(n, s, u, hint)
          /\ \/ Emitted(n, u, t)
             \/ t = u /\ checkInvariants(u) /\ u.M[n] = createStatement(u)

-----------------------------------------------------------------------------
(* The attempts, one by one. *)

LEMMA NothingDone ==
    ASSUME NEW n, NEW s \in NodeState, NEW hint
    PROVE  Outcome(n, s, s, hint)
BY DEF Outcome, SameRest, SameBallots

LEMMA ProcessFault ==
    \A n \in Node, s \in NodeState, m \in Node, st \in Statement :
        processEnvelope(n, s, m, st).fault \in Fault
  (* A fault is one of the faults. *)
<1>EnterFault.
    ASSUME NEW s \in NodeState, NEW hint
    PROVE  enterAdvanceSlot(s, hint).fault \in Fault
  BY DEF enterAdvanceSlot, Fail, NodeState, Fault
<1> SUFFICES ASSUME NEW n \in Node, NEW s \in NodeState, NEW m \in Node, NEW st \in Statement
             PROVE  processEnvelope(n, s, m, st).fault \in Fault
  OBVIOUS
<1> DEFINE w == recordEnvelope(s, m, st)
           v == [w EXCEPT !.fullyValidated = @ /\ validateValues(n, st) # "maybeValid"]
<1>1. w \in NodeState
  BY NodeParts DEF NodeState, recordEnvelope
<1> USE <1>1
<1>2. processEnvelope(n, s, m, st) = IF s.phase = "EXTERNALIZE" THEN w ELSE enterAdvanceSlot(v, st)
  BY DEF processEnvelope
<1> HIDE DEF w
<1>3. v \in NodeState
  BY ZenonT(30), NodeParts DEF NodeState
<1> HIDE DEF v
<1> QED BY <1>2, <1>3, <1>EnterFault, NodeParts

LEMMA EmitsMoved ==
    \A n \in Node, s \in NodeState :
    \A hint :
    \A u \in NodeState :
    \A t :
        /\ Moved(n, s, u, hint)
        /\ t = emitCurrentStateStatement(n, u)
        => Outcome(n, s, t, hint)
<1>EmitFault.
    ASSUME NEW n \in Node, NEW u \in NodeState
    PROVE  emitCurrentStateStatement(n, u).fault \in Fault
  <2> DEFINE st == createStatement(u)
             last == IF u.b # NoBallot /\ isNewerStatement(u.last, st) THEN st ELSE u.last
             w == [u EXCEPT !.last = last]
  <2>1. \A why \in {"assert", "badState"} : Fail(u, why).fault \in Fault
    BY DEF Fail, NodeState, Fault
  <2>2. w = [u EXCEPT !.last = IF u.b # NoBallot /\ isNewerStatement(@, st) THEN st ELSE @]
    OBVIOUS
  <2>3. st \in Statement /\ last \in Statement
    BY CreatedStatement, NodeParts
  <2> USE <2>3
  <2>4. emitCurrentStateStatement(n, u) \in {Fail(u, "assert"), u, Fail(u, "badState"),
                                             processEnvelope(n, w, n, st)}
    BY <2>2 DEF emitCurrentStateStatement
  <2> HIDE DEF st, last
  <2>5. w \in NodeState
    BY DEF NodeState
  <2> HIDE DEF w
  <2>6. processEnvelope(n, w, n, st).fault \in Fault /\ u.fault \in Fault
    BY <2>5, ProcessFault, NodeParts
  <2> QED BY <2>1, <2>4, <2>6
<1> SUFFICES ASSUME NEW n \in Node, NEW s \in NodeState, NEW hint, NEW u \in NodeState,
                    Moved(n, s, u, hint),
                    NEW t, t = emitCurrentStateStatement(n, u)
             PROVE  Outcome(n, s, t, hint)
  OBVIOUS
<1> QED BY SMT, EmitCases, <1>EmitFault DEF Outcome, Failed

LEMMA AssertFails ==
    ASSUME NEW s \in NodeState
    PROVE  Failed(Fail(s, "assert")) /\ Fail(s, "assert").fault = "assert"
BY DEF Fail, NodeState, Failed, Fault

(* bumpToBallot to a ballot that is compatible with h. *)
LEMMA BumpFields ==
    ASSUME NEW s \in NodeState, NEW ballot \in Ballot,
           NEW w, w = bumpToBallot(s, ballot)
    PROVE  /\ SameRest(s, w)
           /\ w.p = s.p /\ w.pp = s.pp /\ w.c = s.c /\ w.phase = s.phase
           /\ w.valueOverride = s.valueOverride /\ w.b = ballot
           /\ w.h = IF areBallotsCompatible(ballot, s.h) THEN s.h ELSE NoBallot
           /\ w.heard = HeardAfter(s, ballot)
<1>1. HeardAfter(s, ballot) \in BOOLEAN /\ NoBallot \in Ballot
  BY NodeParts, BallotNumbers DEF HeardAfter
<1> QED
  BY <1>1 DEF bumpToBallot, HeardAfter, NodeState, SameRest

LEMMA AttemptOutcome ==
    \A n \in Node, s \in NodeState, hint \in Statement, k \in 1..4 :
    \A t :
        t = Attempt(k, n, s, hint)
        => Outcome(n, s, t, hint)
<1>BallotExtremes.
    ASSUME NEW A \in SUBSET Ballot, IsFiniteSet(A), A # {}
    PROVE  /\ MaxBallot(A) \in A /\ \A b \in A : LessEq(b, MaxBallot(A))
           /\ MinBallot(A) \in A /\ \A b \in A : LessEq(MinBallot(A), b)
  <2> USE <1>BallotExtremes
  <2> DEFINE HasMax(T) == \E b \in T : \A b2 \in T : LessEq(b2, b)
             HasMin(T) == \E b \in T : \A b2 \in T : LessEq(b, b2)
             S == {T \in SUBSET A : T = {} \/ (HasMax(T) /\ HasMin(T))}
  <2>1. {} \in S
    OBVIOUS
  <2>2. ASSUME NEW T \in SUBSET A, NEW x \in A \ T, T \in S
        PROVE  T \cup {x} \in S
    <3> SUFFICES HasMax(T \cup {x}) /\ HasMin(T \cup {x})
      OBVIOUS
    <3>1. CASE T = {}
      BY <3>1 DEF LessEq
    <3>2. CASE T # {}
      <4>1. PICK top \in T : \A b2 \in T : LessEq(b2, top)
        BY <2>2, <3>2
      <4>2. PICK low \in T : \A b2 \in T : LessEq(low, b2)
        BY <2>2, <3>2
      <4>3. HasMax(T \cup {x})
        <5>1. CASE Less(top, x)
          <6>1. \A b2 \in T \cup {x} : LessEq(b2, x)
            BY <4>1, <5>1, LessTransitive DEF LessEq
          <6> QED BY <6>1
        <5>2. CASE ~Less(top, x)
          <6>1. \A b2 \in T \cup {x} : LessEq(b2, top)
            BY <4>1, <5>2, LessTotal DEF LessEq
          <6> QED BY <6>1
        <5> QED BY <5>1, <5>2
      <4>4. HasMin(T \cup {x})
        <5>1. CASE Less(x, low)
          <6>1. \A b2 \in T \cup {x} : LessEq(x, b2)
            BY <4>2, <5>1, LessTransitive DEF LessEq
          <6> QED BY <6>1
        <5>2. CASE ~Less(x, low)
          <6>1. \A b2 \in T \cup {x} : LessEq(low, b2)
            BY <4>2, <5>2, LessTotal DEF LessEq
          <6> QED BY <6>1
        <5> QED BY <5>1, <5>2
      <4> QED BY <4>3, <4>4
    <3> QED BY <3>1, <3>2
  <2>3. A \in S
    <3> HIDE DEF S
    <3> QED BY <2>1, <2>2, SubsetInduction
  <2>4. HasMax(A) /\ HasMin(A)
    BY <2>3
  <2> QED BY <2>4 DEF MaxBallot, MinBallot
  (* What the queries over mLatestEnvelopes return. *)
  (* The ballots a statement names. *)
<1> DEFINE Mentioned(st) == {st.b, st.p, st.pp, MakeBallot(st.nP, st.b.x)}
<1> HIDE DEF Mentioned
<1>MentionedBallots.
    ASSUME NEW st \in Statement
    PROVE  /\ Mentioned(st) \subseteq Ballot /\ IsFiniteSet(Mentioned(st))
           /\ hintBallots(st) \subseteq Mentioned(st) \cup {MakeBallot(UINT32_MAX, st.b.x)}
           /\ MakeBallot(UINT32_MAX, st.b.x) \in Ballot
  <2>1. /\ st.b \in Ballot /\ st.p \in Ballot /\ st.pp \in Ballot /\ st.nP \in Counter
        /\ st.b.x \in Value \cup {0}
    BY StatementParts, BallotNumbers
  <2> USE <2>1
  <2>2. \A i \in Counter : MakeBallot(i, st.b.x) \in Ballot
    BY DEF MakeBallot, Ballot
  <2>3. UINT32_MAX \in Counter
    BY SMT, BallotNumbers DEF Counter
  <2>4. IsFiniteSet({st.b}) /\ IsFiniteSet({st.p}) /\ IsFiniteSet({st.pp})
        /\ IsFiniteSet({MakeBallot(st.nP, st.b.x)})
    BY FiniteSingleton
  <2>5. IsFiniteSet({st.b} \cup {st.p}) /\ IsFiniteSet({st.pp} \cup {MakeBallot(st.nP, st.b.x)})
    BY <2>4, FiniteUnion
  <2>6. IsFiniteSet(({st.b} \cup {st.p}) \cup ({st.pp} \cup {MakeBallot(st.nP, st.b.x)}))
    BY <2>5, FiniteUnion
  <2>7. ({st.b} \cup {st.p}) \cup ({st.pp} \cup {MakeBallot(st.nP, st.b.x)}) = Mentioned(st)
    BY DEF Mentioned
  <2>8. hintBallots(st) \subseteq Mentioned(st) \cup {MakeBallot(UINT32_MAX, st.b.x)}
    BY DEF hintBallots, Mentioned
  <2> QED BY <2>2, <2>3, <2>6, <2>7, <2>8 DEF Mentioned
  (* st is why b is a candidate. *)
<1> DEFINE Names(st, b) ==
               \/ st.type = "PREPARE" /\ b = st.b
               \/ st.type = "PREPARE" /\ b # NoBallot /\ b \in {st.p, st.pp}
               \/ st.type = "CONFIRM" /\ b = MakeBallot(st.nP, st.b.x)
<1> HIDE DEF Names
  (* Every candidate is named by a statement, up to the counter of a vote    *)
  (* for all ballots of a value.                                             *)
<1>Candidates.
    ASSUME NEW s, s.M \in [Node -> Statement], NEW hint \in Statement
    PROVE  /\ getPrepareCandidates(s, hint) \subseteq Ballot
           /\ IsFiniteSet(getPrepareCandidates(s, hint))
           /\ \A b \in getPrepareCandidates(s, hint) :
                 b \in hintBallots(hint) \/ \E m \in Node : Names(s.M[m], b)
  <2> USE <1>Candidates
  <2> DEFINE C == getPrepareCandidates(s, hint)
             Named(b) == \E m \in Node : Names(s.M[m], b)
             f == [m \in Node |-> Mentioned(s.M[m])]
             N == {f[m] : m \in Node}
             top == MakeBallot(UINT32_MAX, hint.b.x)
             All == (Mentioned(hint) \cup {top}) \cup UNION N
  <2>1. ASSUME NEW b \in C PROVE b \in hintBallots(hint) \/ Named(b)
    BY <2>1 DEF getPrepareCandidates, Senders, Names
  <2>2. \A m \in Node : s.M[m] \in Statement
    OBVIOUS
  <2>3. IsFiniteSet(N)
    BY QSetAssumption, FiniteImage
  <2>4. \A T \in N : IsFiniteSet(T) /\ T \subseteq Ballot
    BY <2>2, <1>MentionedBallots
  <2>5. IsFiniteSet(UNION N) /\ UNION N \subseteq Ballot
    BY <2>3, <2>4, FiniteFamily
  <2>6. IsFiniteSet(Mentioned(hint) \cup {top})
    BY <1>MentionedBallots, FiniteSingleton, FiniteUnion
  <2>7. IsFiniteSet(All)
    BY <2>5, <2>6, FiniteUnion
  <2>8. All \subseteq Ballot
    BY <2>5, <1>MentionedBallots
  <2>9. C \subseteq All
    <3> SUFFICES ASSUME NEW b \in C PROVE b \in All
      OBVIOUS
    <3>1. CASE b \in hintBallots(hint)
      BY <3>1, <1>MentionedBallots
    <3>2. CASE Named(b)
      <4>1. PICK m \in Node : b \in Mentioned(s.M[m])
        BY <3>2 DEF Mentioned, Names
      <4>2. f[m] \in N /\ b \in f[m]
        BY <4>1
      <4> QED BY <4>2
    <3> QED BY <2>1, <3>1, <3>2
  <2> USE <2>9
  <2>10. IsFiniteSet(C)
    <3> HIDE DEF C, All
    <3> QED BY <2>7, FiniteSubset
  <2> QED BY <2>1, <2>8, <2>10
<1>Boundaries.
    ASSUME NEW s, s.M \in [Node -> Statement], NEW value
    PROVE  getCommitBoundariesFromStatements(s, value) \subseteq Counter
  <2> USE <1>Boundaries
  <2>1. \A m \in Node : /\ s.M[m].nC \in Counter /\ s.M[m].nH \in Counter
                         /\ s.M[m].b.n \in Counter
    BY StatementParts, BallotNumbers
  <2>2. UINT32_MAX \in Counter
    BY SMT, BallotNumbers DEF Counter
  <2>3. SUFFICES ASSUME NEW i \in getCommitBoundariesFromStatements(s, value),
                        i # UINT32_MAX
                 PROVE  \E m \in Node : i \in {s.M[m].nC, s.M[m].nH, s.M[m].b.n}
    BY <2>1, <2>2
  <2> USE <2>3
  <2> DEFINE speaks == {m \in Senders(s) : s.M[m].b.x = value}
             ofPrepare == {m \in speaks : s.M[m].type = "PREPARE" /\ s.M[m].nC # 0}
             ofConfirm == {m \in speaks : s.M[m].type = "CONFIRM"}
             ofExternalize == speaks \cap Externalized(s)
             A == {{s.M[m].nC, s.M[m].nH} : m \in ofPrepare \cup ofConfirm}
             B == {{s.M[m].b.n, s.M[m].nH, UINT32_MAX} : m \in ofExternalize}
  <2>4. i \in UNION A \/ i \in UNION B
    <3>1. getCommitBoundariesFromStatements(s, value) = (UNION A) \cup (UNION B)
      BY DEF getCommitBoundariesFromStatements
    <3> QED BY <3>1
  <2>5. speaks \subseteq Node
    BY DEF Senders
  <2> USE <2>5
  <2>6. CASE i \in UNION A
    <3>1. PICK T \in A : i \in T
      BY <2>6
    <3>2. PICK m \in ofPrepare \cup ofConfirm : T = {s.M[m].nC, s.M[m].nH}
      OBVIOUS
    <3> QED BY <3>1, <3>2
  <2>7. CASE i \in UNION B
    <3>1. PICK T \in B : i \in T
      BY <2>7
    <3>2. PICK m \in ofExternalize : T = {s.M[m].b.n, s.M[m].nH, UINT32_MAX}
      OBVIOUS
    <3> QED BY <3>1, <3>2
  <2> QED BY <2>4, <2>6, <2>7
  (* findExtendedInterval returns the empty interval or one for which the    *)
  (* predicate holds.                                                        *)
<1>IntervalHolds.
    ASSUME NEW boundaries \in SUBSET Counter, NEW holding
    PROVE  LET r == findExtendedInterval(boundaries, holding)
           IN  \/ r = <<0, 0>>
               \/ \E low, high \in boundaries :
                     r = <<low, high>> /\ low <= high /\ <<low, high>> \in holding
  <2> DEFINE tops == {i \in boundaries : <<i, i>> \in holding}
             high == MaxNat(tops)
             lows == {i \in boundaries : i <= high
                        /\ \A j \in boundaries : i <= j /\ j <= high => <<j, high>> \in holding}
             low == MinNat(lows)
  <2>1. SUFFICES ASSUME tops # {}
                 PROVE  /\ low \in boundaries /\ high \in boundaries
                        /\ low <= high /\ <<low, high>> \in holding
    BY DEF findExtendedInterval
  <2>2. high \in tops
    <3> tops \in SUBSET Counter
      OBVIOUS
    <3> HIDE DEF tops
    <3> QED BY <2>1, CounterExtremes
  <2> USE <2>2
  <2>3. high \in Nat
    BY BallotNumbers
  <2> USE <2>3
  <2> HIDE DEF high
  <2>4. high \in lows
    <3> SUFFICES ASSUME NEW j \in boundaries, high <= j, j <= high
                 PROVE  <<j, high>> \in holding
      BY SMT
    <3>1. j = high
      BY SMT, BallotNumbers
    <3> QED BY <3>1
  <2>5. low \in lows
    <3> lows \in SUBSET Counter
      OBVIOUS
    <3> HIDE DEF lows
    <3> QED BY <2>4, CounterExtremes
  <2> USE <2>5
  <2> HIDE DEF low
  <2>6. low <= high /\ low \in boundaries
    OBVIOUS
  <2> USE <2>6
  <2>7. low <= low
    BY SMT, BallotNumbers
  <2> QED BY <2>7
<1> DEFINE Clears(u) ==
               /\ u.c # NoBallot /\ u.h # NoBallot
               /\ \/ areBallotsLessAndIncompatible(u.h, u.p)
                  \/ u.pp # NoBallot /\ areBallotsLessAndIncompatible(u.h, u.pp)
<1> HIDE DEF Clears
<1>SetPreparedFields.
    ASSUME NEW s \in NodeState, NEW z \in Ballot
    PROVE  LET w == setPrepared(s, z)
           IN  /\ SameRest(s, w)
               /\ w.b = s.b /\ w.h = s.h /\ w.c = s.c /\ w.phase = s.phase
               /\ w.valueOverride = s.valueOverride /\ w.heard = s.heard
  BY DEF setPrepared, NodeState, SameRest
<1>AcceptPreparedOutcome.
    ASSUME NEW n \in Node, NEW s \in NodeState, NEW hint \in Statement,
           NEW t, t = attemptAcceptPrepared(n, s, hint)
    PROVE  Outcome(n, s, t, hint)
  <2> USE <1>AcceptPreparedOutcome
  <2> DEFINE candidates == getPrepareCandidates(s, hint)
             accepted == {ballot \in candidates : /\ raisesPrepared(s, ballot)
                                                  /\ acceptsPrepared(n, s, ballot)}
             z == MaxBallot(accepted)
             w == setPrepared(s, z)
             v == [w EXCEPT !.c = NoBallot]
             u == IF Clears(w) THEN v ELSE w
  <2>0. Failed(Fail(s, "assert"))
    BY AssertFails
  <2>1. SUFFICES ASSUME /\ s.phase # "EXTERNALIZE" /\ accepted # {}
                        /\ s.phase = "CONFIRM" => \A ballot \in candidates :
                              areBallotsLessAndCompatible(s.p, ballot)
                                => areBallotsCompatible(s.c, ballot),
                        t = setAcceptPrepared(n, s, z)
                 PROVE  Outcome(n, s, t, hint)
    BY <2>0, NothingDone DEF attemptAcceptPrepared, Outcome
  <2> USE <2>1
  <2>2. z \in accepted /\ z \in Ballot
    <3>1. candidates \subseteq Ballot /\ IsFiniteSet(candidates)
      BY NodeParts, <1>Candidates
    <3>2. accepted \in SUBSET Ballot /\ IsFiniteSet(accepted)
      <4> HIDE DEF candidates
      <4> QED BY <3>1, FiniteSubset
    <3> HIDE DEF accepted
    <3> QED BY <3>2, <1>BallotExtremes
  <2> USE <2>2
  <2>3. /\ z \in candidates /\ raisesPrepared(s, z) /\ acceptsPrepared(n, s, z)
        /\ s.phase = "CONFIRM" => areBallotsCompatible(s.c, z)
    BY DEF raisesPrepared
  <2> HIDE DEF candidates, accepted, z
  <2>4. /\ SameRest(s, w)
        /\ w.b = s.b /\ w.h = s.h /\ w.c = s.c /\ w.phase = s.phase
        /\ w.valueOverride = s.valueOverride /\ w.heard = s.heard
    BY <1>SetPreparedFields
  <2> USE <2>4
  <2>5. \/ t = s \/ Failed(t)
        \/ t = emitCurrentStateStatement(n, u) /\ (Clears(w) => s.phase = "PREPARE")
    <3>1. t = IF Clears(w) /\ s.phase # "PREPARE" THEN Fail(s, "assert")
              ELSE IF w = s /\ ~Clears(w) THEN s
              ELSE emitCurrentStateStatement(n, u)
      BY DEF setAcceptPrepared, Clears
    <3> QED BY <2>0, <3>1
  <2> USE <2>5
  <2> HIDE DEF w
  <2>6. /\ v \in NodeState /\ SameRest(w, v) /\ v.c = NoBallot /\ v.p = w.p /\ v.pp = w.pp
        /\ v.b = w.b /\ v.h = w.h /\ v.phase = w.phase
        /\ v.valueOverride = w.valueOverride /\ v.heard = w.heard
    BY BallotNumbers DEF NodeState, SameRest
  <2> USE <2>6
  <2> HIDE DEF v
  <2>7. CASE t # s /\ ~Failed(t) /\ Clears(w)
    <3> USE <2>7
    <3>1. AcceptsPrepared(n, s, v, hint, z)
      BY <2>3
      DEF AcceptsPrepared, SameRest, Clears, candidates, w
    <3>2. Moved(n, s, v, hint)
      BY <3>1 DEF Moved
    <3> QED BY <3>2, EmitsMoved
  <2>8. CASE t # s /\ ~Failed(t) /\ ~Clears(w)
    <3> USE <2>8
    <3>1. AcceptsPrepared(n, s, w, hint, z)
      BY <2>3 DEF AcceptsPrepared, candidates, w
    <3>2. Moved(n, s, w, hint)
      BY <3>1 DEF Moved
    <3>3. w \in NodeState
      BY DEF SameRest
    <3> QED BY <3>2, <3>3, EmitsMoved
  <2> QED BY SMT, <2>7, <2>8, NothingDone DEF Outcome
  (* updateCurrentIfNeeded. *)
<1>UpdateFields.
    ASSUME NEW s \in NodeState, NEW ballot \in Ballot,
           NEW w, w = updateCurrentIfNeeded(s, ballot)
    PROVE  LET bumps == s.b = NoBallot \/ Less(s.b, ballot)
           IN  /\ SameRest(s, w)
               /\ w.p = s.p /\ w.pp = s.pp /\ w.c = s.c /\ w.phase = s.phase
               /\ w.valueOverride = s.valueOverride
               /\ w.b = IF bumps THEN ballot ELSE s.b
               /\ w.h = IF bumps /\ ~areBallotsCompatible(ballot, s.h) THEN NoBallot ELSE s.h
               /\ w.heard = IF bumps THEN HeardAfter(s, ballot) ELSE s.heard
  <2> USE <1>UpdateFields
  <2>1. HeardAfter(s, ballot) \in BOOLEAN /\ NoBallot \in Ballot
    BY NodeParts, BallotNumbers DEF HeardAfter
  <2> QED
    BY <2>1 DEF updateCurrentIfNeeded, bumpToBallot, HeardAfter, NodeState, SameRest
<1>ConfirmPreparedOutcome.
    ASSUME NEW n \in Node, NEW s \in NodeState, NEW hint \in Statement,
           NEW t, t = attemptConfirmPrepared(n, s, hint)
    PROVE  Outcome(n, s, t, hint)
  <2> USE <1>ConfirmPreparedOutcome
  <2> DEFINE candidates == getPrepareCandidates(s, hint)
             confirmed == {ballot \in candidates : /\ Less(s.h, ballot)
                                                   /\ ratifiesPrepared(n, s, ballot)}
             newH == MaxBallot(confirmed)
             below == {ballot \in candidates : /\ LessEq(s.b, ballot)
                                               /\ areBallotsLessAndCompatible(ballot, newH)}
             commits == {low \in below : \A ballot \in below :
                            LessEq(low, ballot) => ratifiesPrepared(n, s, ballot)}
             mayCommit == /\ s.c = NoBallot
                          /\ ~areBallotsLessAndIncompatible(newH, s.p)
                          /\ s.pp # NoBallot => ~areBallotsLessAndIncompatible(newH, s.pp)
                          /\ commits # {}
             newC == IF mayCommit THEN MinBallot(commits) ELSE NoBallot
             onBallot == s.b = NoBallot \/ areBallotsCompatible(s.b, newH)
             h == IF onBallot /\ Less(s.h, newH) THEN newH ELSE s.h
             c == IF onBallot /\ newC.n # 0 THEN newC ELSE s.c
             w == [s EXCEPT !.valueOverride = newH.x, !.h = h, !.c = c]
             u == updateCurrentIfNeeded(w, newH)
  <2>0. Failed(Fail(s, "assert"))
    BY AssertFails
  <2>1. SUFFICES ASSUME s.phase = "PREPARE", confirmed # {},
                        t = setConfirmPrepared(n, s, newC, newH)
                 PROVE  Outcome(n, s, t, hint)
    BY NothingDone DEF attemptConfirmPrepared
  <2>2. candidates \subseteq Ballot /\ IsFiniteSet(candidates)
    BY NodeParts, <1>Candidates
  <2>3. newH \in confirmed /\ newH \in Ballot
    <3>1. confirmed \in SUBSET Ballot /\ IsFiniteSet(confirmed)
      <4> HIDE DEF candidates
      <4> QED BY <2>2, FiniteSubset
    <3> HIDE DEF confirmed
    <3> QED BY <2>1, <3>1, <1>BallotExtremes
  <2> USE <2>3
  <2> HIDE DEF newH
  <2>4. mayCommit => MinBallot(commits) \in commits /\ MinBallot(commits) \in Ballot
    <3>1. commits \in SUBSET Ballot /\ IsFiniteSet(commits)
      <4>1. commits \in SUBSET candidates
        OBVIOUS
      <4> HIDE DEF candidates, commits
      <4> QED BY <2>2, <4>1, FiniteSubset
    <3> HIDE DEF commits
    <3> QED BY <3>1, <1>BallotExtremes
  <2>5. /\ newC \in Ballot
        /\ newC.n # 0 => /\ s.c = NoBallot /\ LessEq(s.b, newC)
                         /\ areBallotsLessAndCompatible(newC, newH)
    <3>1. CASE mayCommit
      <4> USE <3>1
      <4>1. newC = MinBallot(commits)
        OBVIOUS
      <4> QED BY <2>4, <4>1
    <3>2. CASE ~mayCommit
      <4>1. newC = NoBallot
        BY <3>2
      <4> QED BY SMTT(30), <4>1, BallotNumbers DEF NoBallot
    <3> QED BY <3>1, <3>2
  <2>6. newH \in candidates /\ Less(s.h, newH) /\ ratifiesPrepared(n, s, newH)
    OBVIOUS
  <2> HIDE DEF candidates, confirmed, newC
  <2>7. newH.x \in Value \cup {0}
    BY BallotNumbers
  <2>8. h = (IF onBallot THEN newH ELSE s.h) /\ h \in Ballot /\ c \in Ballot
    BY <2>5, <2>6, NodeParts
  <2>9. w = [s EXCEPT !.valueOverride = newH.x,
                      !.h = IF onBallot /\ Less(@, newH) THEN newH ELSE @,
                      !.c = IF onBallot /\ newC.n # 0 THEN newC ELSE @]
    OBVIOUS
  <2>10. \/ t = u /\ u.h = s.h /\ u.c = s.c /\ u.b = s.b
         \/ t = emitCurrentStateStatement(n, u) \/ Failed(t)
    <3>1. t = IF onBallot /\ newC.n # 0 /\ s.c # NoBallot THEN Fail(s, "assert")
              ELSE IF u.h = s.h /\ u.c = s.c /\ u.b = s.b THEN u
              ELSE emitCurrentStateStatement(n, u)
      BY <2>1, <2>9 DEF setConfirmPrepared
    <3> QED BY <2>0, <3>1
  <2> HIDE DEF h, c
  <2>11. /\ SameRest(s, w) /\ w.b = s.b /\ w.p = s.p /\ w.pp = s.pp /\ w.phase = s.phase
         /\ w.h = h /\ w.c = c /\ w.valueOverride = newH.x /\ w.heard = s.heard
    BY <2>7, <2>8 DEF NodeState, SameRest
  <2> USE <2>11
  <2> HIDE DEF w, u
  <2>12. LET bumps == w.b = NoBallot \/ Less(w.b, newH)
         IN  /\ SameRest(w, u)
             /\ u.p = w.p /\ u.pp = w.pp /\ u.c = w.c /\ u.phase = w.phase
             /\ u.valueOverride = w.valueOverride
             /\ u.b = IF bumps THEN newH ELSE w.b
             /\ u.h = IF bumps /\ ~areBallotsCompatible(newH, w.h) THEN NoBallot ELSE w.h
             /\ u.heard = IF bumps THEN HeardAfter(w, newH) ELSE w.heard
    <3>1. w \in NodeState
      BY DEF SameRest
    <3> QED BY <3>1, <1>UpdateFields DEF u
  <2> USE <2>12
  <2>13. ConfirmsPrepared(n, s, u, hint, newC, newH)
    <3>1. SameRest(s, u)
      BY DEF SameRest
    <3>2. HeardAfter(w, newH) = HeardAfter(s, newH)
      BY DEF HeardAfter
    <3>3. u.c = IF onBallot /\ newC.n # 0 THEN newC ELSE s.c
      BY DEF c
    <3> QED
      BY <2>1, <2>5, <2>6, <2>8, <3>1, <3>2, <3>3
      DEF ConfirmsPrepared, candidates
  <2> USE <2>13
  <2>14. u \in NodeState /\ Moved(n, s, u, hint)
    BY <2>5 DEF Moved, ConfirmsPrepared, SameRest
  <2>15. CASE t = u /\ u.h = s.h /\ u.c = s.c /\ u.b = s.b
    <3> USE <2>15
    <3>1. ~(s.b = NoBallot \/ Less(s.b, newH))
      <4> SUFFICES ASSUME s.b = NoBallot \/ Less(s.b, newH), s.b = newH PROVE FALSE
        BY DEF ConfirmsPrepared
      <4>1. ~Less(newH, newH) /\ s.h \in Ballot
        BY NodeParts, LessTotal
      <4> USE <4>1
      <4>2. newH # NoBallot
        BY SMT, <2>6, BallotNumbers DEF Less, NoBallot
      <4> QED BY <4>2
    <3>2. u.heard = s.heard
      BY <3>1 DEF ConfirmsPrepared
    <3> QED BY <3>2 DEF Outcome, ConfirmsPrepared, SameBallots
  <2>16. CASE t = emitCurrentStateStatement(n, u)
    BY <2>14, <2>16, EmitsMoved
  <2> QED BY <2>10, <2>15, <2>16 DEF Outcome
<1>AcceptCommitOutcome.
    ASSUME NEW n \in Node, NEW s \in NodeState, NEW hint \in Statement,
           NEW t, t = attemptAcceptCommit(n, s, hint)
    PROVE  Outcome(n, s, t, hint)
  <2> USE <1>AcceptCommitOutcome
  <2> DEFINE value == hint.b.x
             boundaries == getCommitBoundariesFromStatements(s, value)
             holding == {i \in IntervalsOf(boundaries) : acceptsCommit(n, s, value, i[1], i[2])}
             interval == findExtendedInterval(boundaries, holding)
  <2>1. SUFFICES ASSUME s.phase # "EXTERNALIZE", interval[1] # 0,
                        s.phase = "CONFIRM" => value = s.h.x /\ ~(interval[2] <= s.h.n),
                        t = setAcceptCommit(n, s, MakeBallot(interval[1], value),
                                                  MakeBallot(interval[2], value))
                 PROVE  Outcome(n, s, t, hint)
    BY NothingDone DEF attemptAcceptCommit
  <2> USE <2>1
  <2>2. boundaries \in SUBSET Counter
    BY NodeParts, <1>Boundaries
  <2>3. PICK low \in Counter, high \in Counter :
           /\ interval = <<low, high>> /\ low <= high /\ acceptsCommit(n, s, value, low, high)
    <3>1. interval # <<0, 0>>
      BY SMT
    <3>2. PICK low \in boundaries, high \in boundaries :
             interval = <<low, high>> /\ low <= high /\ <<low, high>> \in holding
      <4> HIDE DEF boundaries, holding
      <4> QED BY <2>2, <3>1, <1>IntervalHolds
    <3> QED BY <2>2, <3>2
  <2> HIDE DEF boundaries, holding, interval
  <2> DEFINE c == MakeBallot(low, value)
             h == MakeBallot(high, value)
  <2>4. value \in Value \cup {0}
    BY StatementParts, BallotNumbers
  <2>5. low # 0 /\ interval[2] = high
    BY <2>3
  <2>6. /\ c \in Ballot /\ h \in Ballot /\ c.n # 0 /\ c.x = h.x /\ c.n <= h.n
        /\ c.n = low /\ h.n = high /\ c.x = value /\ h.x = value
    BY <2>3, <2>4, <2>5 DEF MakeBallot, Ballot
  <2> USE <2>6
  <2>7. /\ t = setAcceptCommit(n, s, c, h)
        /\ acceptsCommit(n, s, c.x, c.n, h.n)
        /\ s.phase = "CONFIRM" => h.x = s.h.x /\ h.n > s.h.n
    BY SMT, <2>3, NodeParts, BallotNumbers
  <2> HIDE DEF c, h, value
  <2> DEFINE w == [s EXCEPT !.valueOverride = h.x, !.c = c, !.h = h]
             rebase == s.b # NoBallot /\ ~areBallotsLessAndCompatible(h, s.b)
             u == IF rebase THEN bumpToBallot(w, h) ELSE w
             v == IF s.phase = "PREPARE"
                  THEN [u EXCEPT !.phase = "CONFIRM", !.pp = NoBallot] ELSE w
             z == updateCurrentIfNeeded(v, h)
  <2>8. t = emitCurrentStateStatement(n, z)
    <3>1. s.h # h \/ s.c # c \/ s.phase = "PREPARE"
      BY SMTT(30), <2>7, NodeParts, BallotNumbers DEF Phase
    <3> QED BY <2>7, <3>1 DEF setAcceptCommit
  <2>9. /\ SameRest(s, w) /\ w.b = s.b /\ w.p = s.p /\ w.pp = s.pp /\ w.phase = s.phase
        /\ w.h = h /\ w.c = c /\ w.valueOverride = h.x /\ w.heard = s.heard
    BY <2>4 DEF NodeState, SameRest
  <2> USE <2>9
  <2> HIDE DEF w
  <2>10. HeardAfter(w, h) = HeardAfter(s, h)
    BY DEF HeardAfter
  <2>11. /\ SameRest(s, u) /\ u.p = s.p /\ u.pp = s.pp /\ u.phase = s.phase
         /\ u.h = h /\ u.c = c /\ u.valueOverride = h.x
         /\ u.b = (IF rebase THEN h ELSE s.b)
         /\ u.heard = (IF rebase THEN HeardAfter(s, h) ELSE s.heard)
    <3>1. CASE rebase
      <4> USE <3>1
      <4>1. w \in NodeState /\ u = bumpToBallot(w, h)
        BY DEF SameRest
      <4> HIDE DEF u, rebase
      <4>2. /\ SameRest(w, u)
            /\ u.p = w.p /\ u.pp = w.pp /\ u.c = w.c /\ u.phase = w.phase
            /\ u.valueOverride = w.valueOverride /\ u.b = h
            /\ u.h = IF areBallotsCompatible(h, w.h) THEN w.h ELSE NoBallot
            /\ u.heard = HeardAfter(w, h)
        BY SMT, <4>1, BumpFields
      <4> QED BY <2>10, <4>2 DEF SameRest, areBallotsCompatible
    <3>2. CASE ~rebase
      BY <3>2
    <3> QED BY <3>1, <3>2
  <2> HIDE DEF u
  <2>12. /\ SameRest(s, v) /\ v.p = s.p /\ v.phase = "CONFIRM"
         /\ v.pp = (IF s.phase = "PREPARE" THEN NoBallot ELSE s.pp)
         /\ v.h = h /\ v.c = c /\ v.valueOverride = h.x
         /\ v.b = (IF s.phase = "PREPARE" /\ rebase THEN h ELSE s.b)
         /\ v.heard = (IF s.phase = "PREPARE" /\ rebase THEN HeardAfter(s, h) ELSE s.heard)
    <3>1. CASE s.phase = "PREPARE"
      <4> USE <3>1
      <4>1. v = [u EXCEPT !.phase = "CONFIRM", !.pp = NoBallot]
        OBVIOUS
      <4>2. u \in NodeState /\ NoBallot \in Ballot
        BY <2>11, BallotNumbers DEF SameRest
      <4>3. /\ v \in NodeState /\ SameRest(u, v) /\ v.p = u.p /\ v.phase = "CONFIRM"
            /\ v.pp = NoBallot /\ v.h = u.h /\ v.c = u.c /\ v.valueOverride = u.valueOverride
            /\ v.b = u.b /\ v.heard = u.heard
        BY <4>1, <4>2 DEF NodeState, SameRest, Phase
      <4> HIDE DEF v, rebase
      <4> QED BY <2>11, <4>3 DEF SameRest
    <3>2. CASE s.phase # "PREPARE"
      BY <3>2, NodeParts DEF Phase
    <3> QED BY <3>1, <3>2
  <2> USE <2>12
  <2> HIDE DEF v
  <2>13. LET bumps == v.b = NoBallot \/ Less(v.b, h)
         IN  /\ SameRest(v, z)
             /\ z.p = v.p /\ z.pp = v.pp /\ z.c = v.c /\ z.phase = v.phase
             /\ z.valueOverride = v.valueOverride
             /\ z.b = IF bumps THEN h ELSE v.b
             /\ z.h = IF bumps /\ ~areBallotsCompatible(h, v.h) THEN NoBallot ELSE v.h
             /\ z.heard = IF bumps THEN HeardAfter(v, h) ELSE v.heard
    BY SMTT(30), <1>UpdateFields DEF SameRest
  <2> USE <2>13
  <2> HIDE DEF z
  <2>14. ~Less(h, h) /\ h # NoBallot
    BY SMT, LessTotal, BallotNumbers DEF NoBallot
  <2>15. AcceptsCommit(n, s, z, c, h)
    <3>1. SameRest(s, z) /\ z.h = h
      BY DEF SameRest, areBallotsCompatible
    <3> USE <3>1
    <3>2. CASE s.phase = "PREPARE" /\ rebase
      <4> USE <3>2
      <4>1. z.b = h /\ z.heard = HeardAfter(s, h)
        BY <2>14
      <4> QED BY <2>7, <4>1 DEF AcceptsCommit
    <3>3. CASE ~(s.phase = "PREPARE" /\ rebase)
      <4> USE <3>3
      <4>1. HeardAfter(v, h) = HeardAfter(s, h) /\ v.b = s.b /\ v.heard = s.heard
        BY DEF HeardAfter
      <4> QED BY <2>7, <4>1 DEF AcceptsCommit
    <3> QED BY <3>2, <3>3
  <2>16. z \in NodeState /\ Moved(n, s, z, hint)
    BY <2>15 DEF Moved, AcceptsCommit, SameRest
  <2> QED BY <2>8, <2>16, EmitsMoved
<1>ConfirmCommitOutcome.
    ASSUME NEW n \in Node, NEW s \in NodeState, NEW hint \in Statement,
           NEW t, t = attemptConfirmCommit(n, s, hint)
    PROVE  Outcome(n, s, t, hint)
  <2> USE <1>ConfirmCommitOutcome
  <2> DEFINE value == hint.b.x
             boundaries == getCommitBoundariesFromStatements(s, value)
             holding == {i \in IntervalsOf(boundaries) : ratifiesCommit(n, s, value, i[1], i[2])}
             interval == findExtendedInterval(boundaries, holding)
  <2>1. SUFFICES ASSUME s.phase = "CONFIRM", interval[1] # 0, value = s.c.x,
                        t = setConfirmCommit(n, s, MakeBallot(interval[1], value),
                                                   MakeBallot(interval[2], value))
                 PROVE  Outcome(n, s, t, hint)
    BY NothingDone DEF attemptConfirmCommit
  <2> USE <2>1
  <2>2. boundaries \in SUBSET Counter
    BY NodeParts, <1>Boundaries
  <2>3. PICK low \in Counter, high \in Counter :
           /\ interval = <<low, high>> /\ low <= high /\ ratifiesCommit(n, s, value, low, high)
    <3>1. interval # <<0, 0>>
      BY SMT
    <3>2. PICK low \in boundaries, high \in boundaries :
             interval = <<low, high>> /\ low <= high /\ <<low, high>> \in holding
      <4> HIDE DEF boundaries, holding
      <4> QED BY <2>2, <3>1, <1>IntervalHolds
    <3> QED BY <2>2, <3>2
  <2> USE <2>3
  <2> HIDE DEF boundaries, holding, interval
  <2> DEFINE c == MakeBallot(low, value)
             h == MakeBallot(high, value)
  <2>4. value \in Value \cup {0}
    BY StatementParts, BallotNumbers
  <2>5. low # 0 /\ interval[2] = high
    OBVIOUS
  <2>6. /\ c \in Ballot /\ h \in Ballot /\ c.n # 0 /\ c.x = h.x /\ c.n <= h.n
        /\ c.n = low /\ h.n = high /\ c.x = value /\ h.x = value
    BY <2>4, <2>5 DEF MakeBallot, Ballot
  <2> USE <2>6
  <2>7. /\ t = setConfirmCommit(n, s, c, h)
        /\ ratifiesCommit(n, s, c.x, c.n, h.n) /\ c.x = s.c.x
    OBVIOUS
  <2> USE <2>7
  <2> HIDE DEF c, h, value
  <2> DEFINE w == [s EXCEPT !.c = c, !.h = h]
             v == updateCurrentIfNeeded(w, h)
             u == [v EXCEPT !.phase = "EXTERNALIZE"]
  <2>8. t = emitCurrentStateStatement(n, u)
    BY DEF setConfirmCommit
  <2>9. /\ SameRest(s, w) /\ w.b = s.b /\ w.p = s.p /\ w.pp = s.pp /\ w.phase = s.phase
        /\ w.h = h /\ w.c = c /\ w.valueOverride = s.valueOverride /\ w.heard = s.heard
    BY DEF NodeState, SameRest
  <2> USE <2>9
  <2> HIDE DEF w
  <2>10. HeardAfter(w, h) = HeardAfter(s, h)
    BY DEF HeardAfter
  <2>11. LET bumps == w.b = NoBallot \/ Less(w.b, h)
         IN  /\ SameRest(w, v)
             /\ v.p = w.p /\ v.pp = w.pp /\ v.c = w.c /\ v.phase = w.phase
             /\ v.valueOverride = w.valueOverride
             /\ v.b = IF bumps THEN h ELSE w.b
             /\ v.h = IF bumps /\ ~areBallotsCompatible(h, w.h) THEN NoBallot ELSE w.h
             /\ v.heard = IF bumps THEN HeardAfter(w, h) ELSE w.heard
    BY SMTT(30), <1>UpdateFields DEF SameRest
  <2> USE <2>11
  <2> HIDE DEF v
  <2>12. /\ u \in NodeState /\ SameRest(v, u) /\ u.phase = "EXTERNALIZE"
         /\ u.b = v.b /\ u.p = v.p /\ u.pp = v.pp /\ u.h = v.h /\ u.c = v.c
         /\ u.valueOverride = v.valueOverride /\ u.heard = v.heard
    <3>1. v \in NodeState
      BY DEF SameRest
    <3> QED BY <3>1 DEF NodeState, SameRest, Phase
  <2> USE <2>12
  <2> HIDE DEF u
  <2>13. ConfirmsCommit(n, s, u, c, h)
    <3>1. SameRest(s, u) /\ u.h = h
      BY DEF SameRest, areBallotsCompatible
    <3> QED BY <2>10, <3>1 DEF ConfirmsCommit
  <2>14. Moved(n, s, u, hint)
    BY <2>13 DEF Moved
  <2> QED BY <2>8, <2>14, EmitsMoved
<1> SUFFICES ASSUME NEW n \in Node, NEW s \in NodeState, NEW hint \in Statement, NEW k \in 1..4,
                    NEW t, t = Attempt(k, n, s, hint)
             PROVE  Outcome(n, s, t, hint)
  OBVIOUS
<1>1. CASE k = 1
  BY SMT, <1>1, <1>AcceptPreparedOutcome DEF Attempt
<1>2. CASE k = 2
  <2>1. t = attemptConfirmPrepared(n, s, hint)
    BY SMT, <1>2 DEF Attempt
  <2> QED BY <2>1, <1>ConfirmPreparedOutcome
<1>3. CASE k = 3
  <2>1. t = attemptAcceptCommit(n, s, hint)
    BY SMT, <1>3 DEF Attempt
  <2> QED BY <2>1, <1>AcceptCommitOutcome
<1>4. CASE k = 4
  <2>1. t = attemptConfirmCommit(n, s, hint)
    BY SMT, <1>4 DEF Attempt
  <2> QED BY <2>1, <1>ConfirmCommitOutcome
<1> QED BY SMT, <1>1, <1>2, <1>3, <1>4

(* bumpState, for a value that is not empty. *)
LEMMA BumpStateOutcome ==
    ASSUME NEW n \in Node, NEW s \in NodeState, s.fault = "none", NEW hint,
           NEW value \in Value, NEW counter \in Counter,
           NEW t, t = bumpState(n, s, value, counter)
    PROVE  Outcome(n, s, t, hint) /\ (t.fault = "none" => t.phase = s.phase)
<1> DEFINE x == IF s.valueOverride # 0 THEN s.valueOverride ELSE value
           ballot == MakeBallot(counter, x)
           w == updateCurrentValue(s, ballot)
           u == bumpToBallot(s, ballot)
<1>1. x \in Value /\ x # 0
  BY SMT, NodeParts, BallotNumbers
<1>2. ballot \in Ballot /\ ballot.x = x
  BY <1>1 DEF MakeBallot, Ballot
<1> USE <1>2
<1>3. t = IF w = s \/ w.fault # "none" THEN w ELSE emitCurrentStateStatement(n, w)
  BY DEF bumpState
<1> USE <1>3
<1> HIDE DEF ballot, x
<1>4. Failed(Fail(s, "assert"))
  BY AssertFails
<1>5. w = s \/ Failed(w)
      \/ /\ w = u /\ s.phase # "EXTERNALIZE" /\ ~Less(ballot, s.b)
         /\ s.c # NoBallot => areBallotsCompatible(s.c, ballot)
         /\ s.b # ballot /\ checkInvariants(u)
  BY <1>4 DEF updateCurrentValue
<1> USE <1>5
<1>6. SUFFICES ASSUME w # s, ~Failed(w)
               PROVE  Outcome(n, s, t, hint) /\ (t.fault = "none" => t.phase = s.phase)
  <2>1. CASE w = s
    BY <2>1, NothingDone
  <2>2. CASE Failed(w)
    BY <2>2 DEF Failed, Outcome
  <2> QED BY <2>1, <2>2
<1> USE <1>6
<1>7. /\ SameRest(s, u)
      /\ u.p = s.p /\ u.pp = s.pp /\ u.c = s.c /\ u.phase = s.phase
      /\ u.valueOverride = s.valueOverride /\ u.b = ballot
      /\ u.h = IF areBallotsCompatible(ballot, s.h) THEN s.h ELSE NoBallot
      /\ u.heard = HeardAfter(s, ballot)
  BY SMT, BumpFields
<1> USE <1>7
<1> HIDE DEF w, u
<1>8. Less(s.b, ballot)
  BY NodeParts, LessTotal
<1>9. Bumps(s, u, ballot)
  BY <1>1, <1>8 DEF Bumps
<1>10. Moved(n, s, u, hint) /\ u \in NodeState
  BY <1>9 DEF Moved, SameRest
<1> USE <1>10
<1>11. t = emitCurrentStateStatement(n, u)
  BY DEF SameRest
<1> USE <1>11
<1>12. t.fault = "none" => t.phase = s.phase
  BY EmitCases DEF Emitted, SameBallots
<1> QED BY <1>12, EmitsMoved

LEMMA AbandonOutcome ==
    ASSUME NEW n \in Node, NEW s \in NodeState, s.fault = "none", NEW hint,
           NEW counter \in Counter,
           NEW t, t = abandonBallot(n, s, counter)
    PROVE  Outcome(n, s, t, hint) /\ (t.fault = "none" => t.phase = s.phase)
<1> DEFINE value == IF s.composite # 0 THEN s.composite ELSE s.b.x
           next == IF s.b = NoBallot THEN 1 ELSE (s.b.n + 1) % (UINT32_MAX + 1)
           k == IF counter = 0 THEN next ELSE counter
<1>1. value \in Value \cup {0}
  BY NodeParts, BallotNumbers
<1>2. next \in Counter
  <2>1. s.b.n \in Nat /\ UINT32_MAX \in Nat /\ UINT32_MAX > 0
    BY NodeParts, BallotNumbers
  <2> QED BY SMT, <2>1 DEF Counter
<1>3. t = IF value = 0 THEN s ELSE bumpState(n, s, value, k)
  BY DEF abandonBallot
<1>4. k \in Counter
  BY <1>2
<1> HIDE DEF value, k
<1> QED BY SMT, <1>1, <1>3, <1>4, NothingDone, BumpStateOutcome

LEMMA AttemptBumpOutcome ==
    ASSUME NEW n \in Node, NEW s \in NodeState, s.fault = "none", NEW hint,
           NEW t, t = attemptBump(n, s)
    PROVE  Outcome(n, s, t, hint)
<1> DEFINE counters == {statementBallotCounter(s.M[m]) : m \in Senders(s)}
           ahead == {i \in counters : i > s.b.n}
           enough == {i \in ahead : ~hasVBlockingSubsetStrictlyAheadOf(n, s, i)}
<1>1. SUFFICES ASSUME hasVBlockingSubsetStrictlyAheadOf(n, s, s.b.n),
                      t = abandonBallot(n, s, MinNat(enough))
               PROVE  Outcome(n, s, t, hint)
  BY NothingDone DEF attemptBump
<1>2. QSetOf[n] \in QSetId
  BY QSetAssumption
<1>3. counters \in SUBSET Counter
  <2> SUFFICES ASSUME NEW m \in Senders(s) PROVE statementBallotCounter(s.M[m]) \in Counter
    OBVIOUS
  <2>1. s.M[m] \in Statement
    BY NodeParts DEF Senders
  <2>2. s.M[m].b.n \in Counter
    BY <2>1, StatementParts, BallotNumbers
  <2> QED BY SMT, <2>2, BallotNumbers DEF statementBallotCounter, Counter
<1> USE <1>3
<1>4. ahead # {}
  <2>1. {m \in Senders(s) : statementBallotCounter(s.M[m]) > s.b.n} # {}
    BY <1>1, <1>2, EmptyBlocksNothing DEF hasVBlockingSubsetStrictlyAheadOf
  <2> QED BY <2>1
<1> DEFINE top == MaxNat(ahead)
<1>5. top \in ahead /\ \A j \in ahead : j <= top
  <2> ahead \in SUBSET Counter
    OBVIOUS
  <2> HIDE DEF ahead
  <2> QED BY <1>4, CounterExtremes
<1> USE <1>5
<1> HIDE DEF top
<1>6. {m \in Senders(s) : statementBallotCounter(s.M[m]) > top} = {}
  <2> SUFFICES ASSUME NEW m \in Senders(s), statementBallotCounter(s.M[m]) > top PROVE FALSE
    OBVIOUS
  <2> DEFINE i == statementBallotCounter(s.M[m])
  <2>1. i \in Nat /\ top \in Nat /\ s.b.n \in Nat /\ top > s.b.n
    BY NodeParts, BallotNumbers
  <2> USE <2>1
  <2>2. i \in ahead
    <3>1. i > s.b.n
      <4> HIDE DEF i
      <4> QED BY SMT DEF i
    <3> QED BY <3>1
  <2> HIDE DEF i, ahead
  <2> QED BY SMT, <2>2 DEF i
<1>7. top \in enough
  BY <1>2, <1>6, EmptyBlocksNothing DEF hasVBlockingSubsetStrictlyAheadOf
<1>8. MinNat(enough) \in Counter
  <2> enough \in SUBSET Counter
    OBVIOUS
  <2> HIDE DEF enough
  <2> QED BY <1>7, CounterExtremes
<1> HIDE DEF enough
<1> QED BY <1>1, <1>8, AbandonOutcome

-----------------------------------------------------------------------------
(* The statement a node has on record for itself. *)

Fresh(s) ==
    /\ s.b = NoBallot /\ s.p = NoBallot /\ s.pp = NoBallot
    /\ s.h = NoBallot /\ s.c = NoBallot /\ s.phase = "PREPARE"

(* The latest statement a node has recorded for itself says what its       *)
(* fields are, and unless it names no ballot it is the last one to emit.   *)
Own(n, s) ==
    /\ \/ s.M[n] = NoStatement /\ Fresh(s)
       \/ s.M[n] = createStatement(s) /\ checkInvariants(s)
    /\ s.c # NoBallot => s.c.n # 0
    /\ s.phase # "PREPARE" => s.c.x # 0
    /\ s.last = IF s.b # NoBallot THEN s.M[n] ELSE NoStatement

LEMMA MoveBasics ==
    ASSUME NEW n, NEW s \in NodeState, NEW u \in NodeState, NEW hint, Moved(n, s, u, hint)
    PROVE  /\ SameRest(s, u) /\ s.phase # "EXTERNALIZE"
           /\ s.b # NoBallot => u.b # NoBallot
           /\ (s.c # NoBallot => s.c.n # 0) => (u.c # NoBallot => u.c.n # 0)
<1>1. ASSUME NEW z \in Ballot, AcceptsPrepared(n, s, u, hint, z)
      PROVE  /\ SameRest(s, u) /\ s.phase # "EXTERNALIZE"
             /\ u.b = s.b /\ u.c \in {s.c, NoBallot}
  BY <1>1 DEF AcceptsPrepared
<1>2. ASSUME NEW newC \in Ballot, NEW newH \in Ballot,
             ConfirmsPrepared(n, s, u, hint, newC, newH)
      PROVE  /\ SameRest(s, u) /\ s.phase # "EXTERNALIZE"
             /\ s.b # NoBallot => u.b # NoBallot
             /\ u.c = s.c \/ u.c.n # 0
  <2> USE <1>2
  <2>1. newH # NoBallot
    <3>1. s.h \in Ballot /\ Less(s.h, newH)
      BY NodeParts DEF ConfirmsPrepared
    <3> QED BY SMT, <3>1, BallotNumbers DEF Less, NoBallot
  <2> QED BY <2>1 DEF ConfirmsPrepared
<1>3. ASSUME NEW c \in Ballot, NEW h \in Ballot,
             AcceptsCommit(n, s, u, c, h) \/ ConfirmsCommit(n, s, u, c, h)
      PROVE  /\ SameRest(s, u) /\ s.phase # "EXTERNALIZE"
             /\ s.b # NoBallot => u.b # NoBallot
             /\ u.c.n # 0
  <2> USE <1>3
  <2>1. c.n # 0 /\ c.n <= h.n
    BY DEF AcceptsCommit, ConfirmsCommit
  <2>2. h # NoBallot
    BY SMT, <2>1, BallotNumbers DEF NoBallot
  <2> QED BY <2>2 DEF AcceptsCommit, ConfirmsCommit
<1>4. ASSUME NEW ballot \in Ballot, Bumps(s, u, ballot)
      PROVE  /\ SameRest(s, u) /\ s.phase # "EXTERNALIZE"
             /\ u.b # NoBallot /\ u.c = s.c
  <2> USE <1>4
  <2>1. ballot # NoBallot
    BY SMT DEF Bumps, NoBallot
  <2> QED BY <2>1 DEF Bumps
<1> QED BY <1>1, <1>2, <1>3, <1>4 DEF Moved

-----------------------------------------------------------------------------
(* Well-formedness: a ballot is null or has both a counter and a value,    *)
(* and a statement claims no more than its type allows.                    *)

Proper(b) == b = NoBallot \/ (b.n # 0 /\ b.x # 0)

ProperState(s) == Proper(s.b) /\ Proper(s.p) /\ Proper(s.pp) /\ Proper(s.h) /\ Proper(s.c)

WellFormed(st) ==
    /\ Proper(st.b) /\ Proper(st.p) /\ Proper(st.pp)
    /\ st.type = "PREPARE" /\ st.nC # 0 => st.b # NoBallot /\ st.nC <= st.nH
    /\ st.type = "CONFIRM" =>
         st.b # NoBallot /\ st.nP # 0 /\ st.nC # 0 /\ st.nC <= st.nH
    /\ st.type = "EXTERNALIZE" => st.b # NoBallot

(* The candidates are taken from well-formed statements. *)
LEMMA ProperCandidates ==
    ASSUME NEW s, s.M \in [Node -> Statement], \A m \in Node : WellFormed(s.M[m]),
           NEW hint \in Statement, WellFormed(hint),
           NEW b \in getPrepareCandidates(s, hint)
    PROVE  Proper(b)
<1> DEFINE prepared == {m \in Senders(s) : s.M[m].type = "PREPARE"}
           settled == {s.M[m] : m \in Senders(s) \ prepared}
<1>1. \A m \in Node : WellFormed(s.M[m]) /\ s.M[m] \in Statement /\ Senders(s) \subseteq Node
  BY DEF Senders
<1>2. ASSUME NEW st \in settled PROVE st.b.x # 0 /\ (st.type = "CONFIRM" => st.nP # 0)
  <2>1. PICK m \in Node : st = s.M[m] /\ st.type \notin {"NONE", "PREPARE"}
    BY DEF Senders
  <2>2. WellFormed(st) /\ st.type \in {"CONFIRM", "EXTERNALIZE"}
    BY <1>1, <2>1, StatementParts DEF StatementType
  <2> QED BY <2>2 DEF WellFormed, Proper
<1> USE <1>2
<1>3. \/ \E m \in Node : b \in {s.M[m].b, s.M[m].p, s.M[m].pp}
      \/ b \in hintBallots(hint) /\ \E st \in settled : areBallotsCompatible(b, st.b)
      \/ \E st \in settled : st.type = "CONFIRM" /\ b = MakeBallot(st.nP, st.b.x)
  BY DEF getPrepareCandidates, Senders
<1>4. CASE \E m \in Node : b \in {s.M[m].b, s.M[m].p, s.M[m].pp}
  BY <1>1, <1>4 DEF WellFormed
<1>5. CASE b \in hintBallots(hint) /\ \E st \in settled : areBallotsCompatible(b, st.b)
  <2> USE <1>5
  <2>1. b.x # 0
    BY DEF areBallotsCompatible
  <2>2. \/ Proper(b)
        \/ b = MakeBallot(UINT32_MAX, hint.b.x)
        \/ hint.type = "CONFIRM" /\ b = MakeBallot(hint.nP, hint.b.x)
    BY DEF hintBallots, WellFormed
  <2>3. UINT32_MAX # 0 /\ (hint.type = "CONFIRM" => hint.nP # 0)
    BY SMT, BallotNumbers DEF WellFormed
  <2> QED BY SMT, <2>1, <2>2, <2>3 DEF Proper, MakeBallot
<1>6. CASE \E st \in settled : st.type = "CONFIRM" /\ b = MakeBallot(st.nP, st.b.x)
  BY SMT, <1>6 DEF Proper, MakeBallot
<1> QED BY <1>3, <1>4, <1>5, <1>6

LEMMA SetPreparedProper ==
    ASSUME NEW s \in NodeState, NEW z
    PROVE  setPrepared(s, z).p \in {s.p, z} /\ setPrepared(s, z).pp \in {s.p, s.pp, z}
BY DEF setPrepared, NodeState

(* The node says something new: from v, which may differ from s in what no *)
(* statement tells, a move took it to u, of which it recorded the          *)
(* statement.                                                              *)
Spoke(n, s, t) ==
    \E v, u \in NodeState : \E hint \in Statement :
        /\ Own(n, v) /\ ProperState(v) /\ v.M = s.M /\ WellFormed(hint)
        /\ Moved(n, v, u, hint) /\ checkInvariants(u) /\ ProperState(u)
        /\ t.M = [s.M EXCEPT ![n] = createStatement(u)]
=============================================================================

----------------------------- MODULE BallotNode -----------------------------
(***************************************************************************)
(* The BallotProtocol object of one node: its state and the methods that   *)
(* change it, as functions from state to state.  Translated from           *)
(* src/src/scp/BallotProtocol.cpp.                                         *)
(*                                                                         *)
(* Emitting a statement processes it as an envelope from self, which calls *)
(* advanceSlot again from inside one of its attempts.  The field `stack'   *)
(* holds the activations of advanceSlot in progress, innermost first; a    *)
(* frame keeps the hint of its activation and the attempt to make next, so *)
(* the recursion of the code is a sequence of calls of Step.               *)
(***************************************************************************)
EXTENDS LocalNode, Ballots, Sequences

CONSTANT
    Validity   \* Validity[n][x]: what validateValue answers n about x

ValidationLevel == {"fullyValidated", "maybeValid", "invalid"}

ASSUME ValidityAssumption == Validity \in [Node -> [Value -> ValidationLevel]]

MAX_ADVANCE_SLOT_RECURSION == 50

Phase == {"PREPARE", "CONFIRM", "EXTERNALIZE"}

(* Why a process stopped: a failed dbgAssert (or a null dereference, which *)
(* the asserts come before) or one of the two exceptions thrown by the     *)
(* protocol.                                                               *)
Fault == {"none", "assert", "badState", "recursion"}

Frame == [hint : Statement, pc : 1..5]

NodeState ==
    [b : Ballot, p : Ballot, pp : Ballot, h : Ballot, c : Ballot,
     phase : Phase,
     valueOverride : Value \cup {0},       \* mValueOverride, 0 when null
     composite : Value \cup {0},           \* getLatestCompositeCandidate
     heard : BOOLEAN,                      \* mHeardFromQuorum
     timer : BOOLEAN,                      \* the ballot timer is armed
     M : [Node -> Statement],              \* mLatestEnvelopes
     last : Statement,                     \* mLastEnvelope
     emit : Statement,                     \* mLastEnvelopeEmit
     fullyValidated : BOOLEAN,
     stack : Seq(Frame),
     fault : Fault]

InitNode ==
    [b |-> NoBallot, p |-> NoBallot, pp |-> NoBallot, h |-> NoBallot,
     c |-> NoBallot, phase |-> "PREPARE", valueOverride |-> 0,
     composite |-> 0, heard |-> FALSE, timer |-> FALSE,
     M |-> [m \in Node |-> NoStatement], last |-> NoStatement,
     emit |-> NoStatement, fullyValidated |-> TRUE, stack |-> <<>>,
     fault |-> "none"]

Fail(s, why) == [s EXCEPT !.fault = why]

-----------------------------------------------------------------------------
(* Queries over mLatestEnvelopes. *)

Senders(s) == {m \in Node : s.M[m].type # "NONE"}
Externalized(s) == {m \in Node : s.M[m].type = "EXTERNALIZE"}

MaxBallot(S) == CHOOSE b \in S : \A b2 \in S : LessEq(b2, b)
MinBallot(S) == CHOOSE b \in S : \A b2 \in S : LessEq(b, b2)
MaxNat(S) == CHOOSE i \in S : \A j \in S : j <= i
MinNat(S) == CHOOSE i \in S : \A j \in S : i <= j

acceptsPrepared(n, s, ballot) ==
    federatedAccept(n, {m \in Node : votesPrepare(ballot, s.M[m])},
                       {m \in Node : hasPreparedBallot(ballot, s.M[m])},
                       Externalized(s))

ratifiesPrepared(n, s, ballot) ==
    federatedRatify(n, {m \in Node : hasPreparedBallot(ballot, s.M[m])},
                       Externalized(s))

acceptsCommit(n, s, value, low, high) ==
    federatedAccept(n, {m \in Node : votesCommit(value, low, high, s.M[m])},
                       {m \in Node : commitPredicate(value, low, high, s.M[m])},
                       Externalized(s))

ratifiesCommit(n, s, value, low, high) ==
    federatedRatify(n, {m \in Node : commitPredicate(value, low, high, s.M[m])},
                       Externalized(s))

(* The last value that is not fully validated decides, as in the loop of   *)
(* validateValues over the ordered set of values.                          *)
validateValues(n, st) ==
    LET values == getStatementValues(st)
        doubtful == {v \in values : Validity[n][v] # "fullyValidated"}
    IN  IF values = {} THEN "invalid"
        ELSE IF doubtful = {} THEN "fullyValidated"
        ELSE Validity[n][MaxNat(doubtful)]

hintBallots(hint) ==
    IF hint.type = "PREPARE"
    THEN {hint.b} \cup ({hint.p, hint.pp} \ {NoBallot})
    ELSE {MakeBallot(UINT32_MAX, hint.b.x)}
           \cup (IF hint.type = "CONFIRM"
                 THEN {MakeBallot(hint.nP, hint.b.x)} ELSE {})

getPrepareCandidates(s, hint) ==
    LET topVotes == hintBallots(hint)
        prepared == {m \in Senders(s) : s.M[m].type = "PREPARE"}
        named == {s.M[m].b : m \in prepared}
                   \cup ((UNION {{s.M[m].p, s.M[m].pp} : m \in prepared}) \ {NoBallot})
        settled == {s.M[m] : m \in Senders(s) \ prepared}
        reached == {v \in topVotes : \E st \in settled : areBallotsCompatible(v, st.b)}
        confirmed == {MakeBallot(st.nP, st.b.x) : st \in {r \in settled : r.type = "CONFIRM"}}
    IN  {b \in named : \E v \in topVotes : areBallotsLessAndCompatible(b, v)}
          \cup reached
          \cup {b \in confirmed : \E v \in topVotes : b.x = v.x /\ b.n < v.n}

getCommitBoundariesFromStatements(s, value) ==
    LET speaks == {m \in Senders(s) : s.M[m].b.x = value}
        ofPrepare == {m \in speaks : s.M[m].type = "PREPARE" /\ s.M[m].nC # 0}
        ofConfirm == {m \in speaks : s.M[m].type = "CONFIRM"}
        ofExternalize == speaks \cap Externalized(s)
    IN  (UNION {{s.M[m].nC, s.M[m].nH} : m \in ofPrepare \cup ofConfirm})
          \cup (UNION {{s.M[m].b.n, s.M[m].nH, UINT32_MAX} : m \in ofExternalize})

(* The intervals between two boundaries. *)
IntervalsOf(boundaries) == {i \in boundaries \X boundaries : i[1] <= i[2]}

(* findExtendedInterval: the highest boundary that satisfies the predicate *)
(* alone, then down as long as the interval from each next boundary does.  *)
(* holding is the set of intervals that satisfy the predicate; an empty    *)
(* result is <<0, 0>>.                                                     *)
findExtendedInterval(boundaries, holding) ==
    LET tops == {i \in boundaries : <<i, i>> \in holding}
        high == MaxNat(tops)
        lows == {i \in boundaries : i <= high
                   /\ \A j \in boundaries : i <= j /\ j <= high => <<j, high>> \in holding}
    IN  IF tops = {} THEN <<0, 0>> ELSE <<MinNat(lows), high>>

-----------------------------------------------------------------------------
(* Emitting the current state. *)

(* checkInvariants, with the null dereferences of createStatement: a       *)
(* CONFIRM statement reads p as well.                                      *)
checkInvariants(s) ==
    /\ s.b # NoBallot => s.b.n # 0
    /\ s.p # NoBallot /\ s.pp # NoBallot => areBallotsLessAndIncompatible(s.pp, s.p)
    /\ s.h # NoBallot => s.b # NoBallot /\ areBallotsLessAndCompatible(s.h, s.b)
    /\ s.c # NoBallot => /\ s.b # NoBallot /\ s.h # NoBallot
                         /\ areBallotsLessAndCompatible(s.c, s.h)
    /\ s.phase # "PREPARE" => s.c # NoBallot /\ s.h # NoBallot
    /\ s.phase = "CONFIRM" => s.p # NoBallot

createStatement(s) ==
    CASE s.phase = "PREPARE"     -> Prepare(s.b, s.p, s.pp, s.c.n, s.h.n)
      [] s.phase = "CONFIRM"     -> Confirm(s.b, s.p.n, s.c.n, s.h.n)
      [] s.phase = "EXTERNALIZE" -> Externalize(s.c, s.h.n)

(* recordEnvelope, then advanceSlot with the statement as hint. *)
recordEnvelope(s, m, st) == [s EXCEPT !.M[m] = st]

enterAdvanceSlot(s, hint) ==
    IF Len(s.stack) + 1 >= MAX_ADVANCE_SLOT_RECURSION
    THEN Fail(s, "recursion")
    ELSE [s EXCEPT !.stack = <<[hint |-> hint, pc |-> 1]>> \o @]

(* processEnvelope for a statement of node m that reached node n.  The     *)
(* result is s itself when the envelope is refused.                        *)
acceptableStatement(n, s, m, st) ==
    /\ isStatementSane(st, m = n)
    /\ isNewerStatement(s.M[m], st)
    /\ validateValues(n, st) # "invalid"
    /\ s.phase = "EXTERNALIZE" => getWorkingBallot(st).x = s.c.x

(* Slip: doubtful values do not silence the node. *)
processEnvelopeNotSilenced(n, s, m, st) ==
    IF s.phase = "EXTERNALIZE"
    THEN recordEnvelope(s, m, st)
    ELSE enterAdvanceSlot(recordEnvelope(s, m, st), st)

processEnvelope(n, s, m, st) ==
    IF s.phase = "EXTERNALIZE"
    THEN recordEnvelope(s, m, st)
    ELSE enterAdvanceSlot(
           [recordEnvelope(s, m, st) EXCEPT
              !.fullyValidated = @ /\ validateValues(n, st) # "maybeValid"],
           st)

(* mLastEnvelope is set here rather than after the nested activation has   *)
(* returned: every statement emitted by that activation is newer, so the   *)
(* last one wins in both orders.                                           *)
emitCurrentStateStatement(n, s) ==
    LET st == createStatement(s)
    IN  IF ~checkInvariants(s) THEN Fail(s, "assert")
        ELSE IF s.M[n] = st THEN s
        ELSE IF ~acceptableStatement(n, s, n, st) THEN Fail(s, "badState")
        ELSE processEnvelope(n,
               [s EXCEPT !.last = IF s.b # NoBallot /\ isNewerStatement(@, st)
                                  THEN st ELSE @],
               n, st)

-----------------------------------------------------------------------------
(* Moving the ballot. *)

bumpToBallot(s, ballot) ==
    [s EXCEPT !.b = ballot,
              !.h = IF areBallotsCompatible(ballot, @) THEN @ ELSE NoBallot,
              !.heard = @ /\ s.b # NoBallot /\ s.b.n = ballot.n]

updateCurrentIfNeeded(s, ballot) ==
    IF s.b = NoBallot \/ Less(s.b, ballot)
    THEN bumpToBallot(s, ballot) ELSE s

(* updateCurrentValue; the result is s itself when the bump is refused. *)
updateCurrentValue(s, ballot) ==
    IF s.phase = "EXTERNALIZE" THEN s
    ELSE IF Less(ballot, s.b) THEN Fail(s, "assert")
    ELSE IF s.c # NoBallot /\ ~areBallotsCompatible(s.c, ballot) THEN s
    ELSE IF s.b = ballot THEN s
    ELSE LET t == bumpToBallot(s, ballot)
         IN  IF checkInvariants(t) THEN t ELSE Fail(s, "assert")

(* bumpState.  The checkHeardFromQuorum that ends it is repeated by the    *)
(* activation of advanceSlot that emitting starts, or by the one it runs   *)
(* in, in the same state.                                                  *)
bumpState(n, s, value, counter) ==
    LET ballot == MakeBallot(counter, IF s.valueOverride # 0
                                      THEN s.valueOverride ELSE value)
        t == updateCurrentValue(s, ballot)
    IN  IF t = s \/ t.fault # "none" THEN t ELSE emitCurrentStateStatement(n, t)

(* abandonBallot; counter 0 asks for the next one, in uint32 arithmetic. *)
abandonBallot(n, s, counter) ==
    LET value == IF s.composite # 0 THEN s.composite ELSE s.b.x
        next == IF s.b = NoBallot THEN 1 ELSE (s.b.n + 1) % (UINT32_MAX + 1)
    IN  IF value = 0 THEN s
        ELSE bumpState(n, s, value, IF counter = 0 THEN next ELSE counter)

-----------------------------------------------------------------------------
(* The attempts of advanceSlot.  Each returns s when it does nothing. *)

(* Slip: the old p becomes p' also when the new p is compatible with it. *)
setPreparedKeepsCompatible(s, ballot) ==
    IF Less(s.p, ballot) THEN [s EXCEPT !.p = ballot, !.pp = s.p] ELSE s

setPrepared(s, ballot) ==
    IF Less(s.p, ballot)
    THEN [s EXCEPT !.p = ballot,
                   !.pp = IF s.p = NoBallot \/ areBallotsCompatible(s.p, ballot)
                          THEN @ ELSE s.p]
    ELSE IF /\ Less(ballot, s.p)
            /\ \/ s.pp = NoBallot
               \/ Less(s.pp, ballot) /\ ~areBallotsCompatible(s.p, ballot)
    THEN [s EXCEPT !.pp = ballot]
    ELSE s

setAcceptPrepared(n, s, ballot) ==
    LET t == setPrepared(s, ballot)
        clear == /\ t.c # NoBallot /\ t.h # NoBallot
                 /\ \/ areBallotsLessAndIncompatible(t.h, t.p)
                    \/ t.pp # NoBallot /\ areBallotsLessAndIncompatible(t.h, t.pp)
    IN  IF clear /\ s.phase # "PREPARE" THEN Fail(s, "assert")
        ELSE IF t = s /\ ~clear THEN s
        ELSE emitCurrentStateStatement(n, IF clear THEN [t EXCEPT !.c = NoBallot] ELSE t)

(* The ballots that could raise p or p'. *)
raisesPrepared(s, ballot) ==
    /\ s.phase = "CONFIRM" => areBallotsLessAndCompatible(s.p, ballot)
    /\ s.pp # NoBallot => Less(s.pp, ballot)
    /\ s.p # NoBallot => ~areBallotsLessAndCompatible(ballot, s.p)

attemptAcceptPrepared(n, s, hint) ==
    LET candidates == getPrepareCandidates(s, hint)
        accepted == {ballot \in candidates : /\ raisesPrepared(s, ballot)
                                             /\ acceptsPrepared(n, s, ballot)}
    IN  IF s.phase = "EXTERNALIZE" THEN s
        ELSE IF /\ s.phase = "CONFIRM"
                /\ \E ballot \in candidates :
                      /\ areBallotsLessAndCompatible(s.p, ballot)
                      /\ ~areBallotsCompatible(s.c, ballot)
        THEN Fail(s, "assert")
        ELSE IF accepted = {} THEN s
        ELSE setAcceptPrepared(n, s, MaxBallot(accepted))

setConfirmPrepared(n, s, newC, newH) ==
    LET onBallot == s.b = NoBallot \/ areBallotsCompatible(s.b, newH)
        t == [s EXCEPT !.valueOverride = newH.x,
                       !.h = IF onBallot /\ Less(@, newH)
                             THEN newH ELSE @,
                       !.c = IF onBallot /\ newC.n # 0 THEN newC ELSE @]
        u == updateCurrentIfNeeded(t, newH)
    IN  IF onBallot /\ newC.n # 0 /\ s.c # NoBallot THEN Fail(s, "assert")
        ELSE IF u.h = s.h /\ u.c = s.c /\ u.b = s.b THEN u
        ELSE emitCurrentStateStatement(n, u)

(* Slip: only ballots above the current one are considered for newC. *)
attemptConfirmPreparedAbove(n, s, hint) ==
    LET candidates == getPrepareCandidates(s, hint)
        confirmed == {ballot \in candidates : /\ Less(s.h, ballot)
                                              /\ ratifiesPrepared(n, s, ballot)}
        newH == MaxBallot(confirmed)
        below == {ballot \in candidates : /\ Less(s.b, ballot)
                                          /\ areBallotsLessAndCompatible(ballot, newH)
                                          /\ ratifiesPrepared(n, s, ballot)}
    IN  IF s.phase # "PREPARE" \/ s.p = NoBallot \/ confirmed = {} THEN s
        ELSE setConfirmPrepared(n, s, IF s.c = NoBallot /\ below # {}
                                      THEN MinBallot(below) ELSE NoBallot, newH)

(* newH is the highest candidate confirmed prepared; newC is the lowest    *)
(* one such that it and all the candidates from it up to newH are, looked  *)
(* for only while nothing aborts newH.                                     *)
attemptConfirmPrepared(n, s, hint) ==
    LET candidates == getPrepareCandidates(s, hint)
        confirmed == {ballot \in candidates : /\ Less(s.h, ballot)
                                              /\ ratifiesPrepared(n, s, ballot)}
        newH == MaxBallot(confirmed)
        below == {ballot \in candidates : /\ LessEq(s.b, ballot)
                                          /\ areBallotsLessAndCompatible(ballot, newH)}
        commits == {low \in below : \A ballot \in below :
                       LessEq(low, ballot) => ratifiesPrepared(n, s, ballot)}
        mayCommit == /\ s.c = NoBallot
                     /\ ~areBallotsLessAndIncompatible(newH, s.p)
                     /\ s.pp # NoBallot => ~areBallotsLessAndIncompatible(newH, s.pp)
                     /\ commits # {}
    IN  IF s.phase # "PREPARE" \/ s.p = NoBallot \/ confirmed = {} THEN s
        ELSE setConfirmPrepared(n, s, IF mayCommit THEN MinBallot(commits) ELSE NoBallot,
                                newH)

setAcceptCommit(n, s, c, h) ==
    LET changed == s.h # h \/ s.c # c
        t == [s EXCEPT !.valueOverride = h.x, !.c = c, !.h = h]
        u == IF s.b # NoBallot /\ ~areBallotsLessAndCompatible(h, s.b)
             THEN bumpToBallot(t, h) ELSE t
        v == IF s.phase = "PREPARE"
             THEN [u EXCEPT !.phase = "CONFIRM", !.pp = NoBallot] ELSE t
    IN  IF changed \/ s.phase = "PREPARE"
        THEN emitCurrentStateStatement(n, updateCurrentIfNeeded(v, h))
        ELSE t

attemptAcceptCommit(n, s, hint) ==
    LET value == hint.b.x
        boundaries == getCommitBoundariesFromStatements(s, value)
        interval == findExtendedInterval(boundaries,
                      {i \in IntervalsOf(boundaries) : acceptsCommit(n, s, value, i[1], i[2])})
    IN  IF \/ s.phase = "EXTERNALIZE"
           \/ hint.type = "PREPARE" /\ hint.nC = 0
           \/ s.phase = "CONFIRM" /\ value # s.h.x
           \/ interval[1] = 0
           \/ s.phase = "CONFIRM" /\ interval[2] <= s.h.n
        THEN s
        ELSE setAcceptCommit(n, s, MakeBallot(interval[1], value),
                                   MakeBallot(interval[2], value))

(* setConfirmCommit: besides the externalize message, nomination stops and *)
(* the value is handed to the herder.                                      *)
setConfirmCommit(n, s, c, h) ==
    emitCurrentStateStatement(n,
        [updateCurrentIfNeeded([s EXCEPT !.c = c, !.h = h], h)
           EXCEPT !.phase = "EXTERNALIZE"])

attemptConfirmCommit(n, s, hint) ==
    LET value == hint.b.x
        boundaries == getCommitBoundariesFromStatements(s, value)
        interval == findExtendedInterval(boundaries,
                      {i \in IntervalsOf(boundaries) : ratifiesCommit(n, s, value, i[1], i[2])})
    IN  IF \/ s.phase # "CONFIRM" \/ s.h = NoBallot \/ s.c = NoBallot
           \/ hint.type = "PREPARE" \/ value # s.c.x
           \/ interval[1] = 0
        THEN s
        ELSE setConfirmCommit(n, s, MakeBallot(interval[1], value),
                                    MakeBallot(interval[2], value))

hasVBlockingSubsetStrictlyAheadOf(n, s, counter) ==
    isVBlocking(QSetOf[n], {m \in Senders(s) :
                              statementBallotCounter(s.M[m]) > counter})

attemptBump(n, s) ==
    LET ahead == {i \in {statementBallotCounter(s.M[m]) : m \in Senders(s)} : i > s.b.n}
        enough == {i \in ahead : ~hasVBlockingSubsetStrictlyAheadOf(n, s, i)}
    IN  IF \/ s.phase = "EXTERNALIZE"
           \/ ~hasVBlockingSubsetStrictlyAheadOf(n, s, s.b.n)
        THEN s
        ELSE abandonBallot(n, s, MinNat(enough))

(* Slips: the timer is not stopped; only PREPARE statements are heard. *)
checkHeardKeepsTimer(n, s) ==
    LET here == {m \in Senders(s) : s.M[m].type = "PREPARE" => s.b.n <= s.M[m].b.n}
        heard == isQuorum(QSetOf[n], here, Externalized(s))
    IN  IF s.b = NoBallot THEN s
        ELSE [s EXCEPT !.heard = heard, !.timer = @ \/ (heard /\ ~s.heard)]
checkHeardPrepareOnly(n, s) ==
    LET here == {m \in Senders(s) : s.M[m].type = "PREPARE" /\ s.b.n <= s.M[m].b.n}
        heard == isQuorum(QSetOf[n], here, Externalized(s))
    IN  IF s.b = NoBallot THEN s
        ELSE [s EXCEPT !.heard = heard,
                       !.timer = heard /\ s.phase # "EXTERNALIZE" /\ (@ \/ ~s.heard)]

checkHeardFromQuorum(n, s) ==
    LET here == {m \in Senders(s) : s.M[m].type = "PREPARE" => s.b.n <= s.M[m].b.n}
        heard == isQuorum(QSetOf[n], here, Externalized(s))
    IN  IF s.b = NoBallot THEN s
        ELSE [s EXCEPT !.heard = heard,
                       !.timer = heard /\ s.phase # "EXTERNALIZE" /\ (@ \/ ~s.heard)]

-----------------------------------------------------------------------------
(* advanceSlot.  A Step runs the innermost activation until it calls       *)
(* advanceSlot again (through an emitted statement), returns, or fails:    *)
(* the attempts in order; then, in the outermost activation only,          *)
(* attemptBump until it does nothing, and checkHeardFromQuorum.            *)

Attempt(k, n, s, hint) ==
    CASE k = 1 -> attemptAcceptPrepared(n, s, hint)
      [] k = 2 -> attemptConfirmPrepared(n, s, hint)
      [] k = 3 -> attemptAcceptCommit(n, s, hint)
      [] k = 4 -> attemptConfirmCommit(n, s, hint)

(* Attempt k of the activation that was innermost at depth d, unless it is *)
(* past it or an earlier attempt has not come back.                        *)
Try(k, n, s, d) ==
    LET f == Head(s.stack)
    IN  IF s.fault # "none" \/ Len(s.stack) # d \/ f.pc > k THEN s
        ELSE Attempt(k, n, [s EXCEPT !.stack[1].pc = k + 1], f.hint)

Leave(n, s, d) ==
    LET bumped == attemptBump(n, s)
        popped == [s EXCEPT !.stack = Tail(@)]
    IN  IF s.fault # "none" \/ Len(s.stack) # d THEN s
        ELSE IF d > 1 THEN popped
        ELSE IF bumped # s THEN bumped
        ELSE checkHeardFromQuorum(n, popped)

Step(n, s) ==
    LET d == Len(s.stack)
        s1 == Try(1, n, s, d)
        s2 == Try(2, n, s1, d)
        s3 == Try(3, n, s2, d)
        s4 == Try(4, n, s3, d)
    IN  Leave(n, s4, d)

-----------------------------------------------------------------------------
(* What the events that reach the object do before advanceSlot runs. *)

(* Nomination has a new composite value: Slot::bumpState(value, false). *)
nominationComposite(n, s, value) ==
    LET t == [s EXCEPT !.composite = value]
    IN  IF t.b = NoBallot THEN bumpState(n, t, value, 1) ELSE t

ballotProtocolTimerExpired(n, s) ==
    abandonBallot(n, [s EXCEPT !.timer = FALSE], 0)

(* Slips: nothing but the fact of having emitted survives; the vote to     *)
(* commit does not survive.                                                *)
setStateForgetsEverything(n, st) == [InitNode EXCEPT !.emit = st]
setStateForgetsCommit(n, st) ==
    LET s == [InitNode EXCEPT !.M[n] = st, !.last = st, !.emit = st]
    IN  IF st.type = "NONE" THEN InitNode
        ELSE [s EXCEPT !.b = st.b, !.p = st.p, !.pp = st.pp]

(* setStateFromEnvelope, on a fresh object, from the statement that the    *)
(* herder had persisted.                                                   *)
setStateFromEnvelope(n, st) ==
    LET s == [InitNode EXCEPT !.M[n] = st, !.last = st, !.emit = st]
        v == st.b.x
    IN  CASE st.type = "NONE" -> InitNode
          [] st.type = "PREPARE" ->
               [s EXCEPT !.b = st.b, !.p = st.p, !.pp = st.pp,
                         !.h = IF st.nH = 0 THEN NoBallot ELSE MakeBallot(st.nH, v),
                         !.c = IF st.nC = 0 THEN NoBallot ELSE MakeBallot(st.nC, v)]
          [] st.type = "CONFIRM" ->
               [s EXCEPT !.b = st.b, !.p = MakeBallot(st.nP, v),
                         !.h = MakeBallot(st.nH, v), !.c = MakeBallot(st.nC, v),
                         !.phase = "CONFIRM"]
          [] st.type = "EXTERNALIZE" ->
               [s EXCEPT !.b = MakeBallot(UINT32_MAX, v), !.p = MakeBallot(UINT32_MAX, v),
                         !.h = MakeBallot(st.nH, v), !.c = st.b,
                         !.phase = "EXTERNALIZE"]
=============================================================================

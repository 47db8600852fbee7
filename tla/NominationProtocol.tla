------------------------- MODULE NominationProtocol -------------------------
(***************************************************************************)
(* The nomination protocol of one slot, run by every validator of a        *)
(* network: src/src/scp/NominationProtocol.cpp.                            *)
(*                                                                         *)
(* A node emits its votes and its accepted values by processing them as an *)
(* envelope from itself, from inside processEnvelope or nominate, which    *)
(* may make it emit again.  Only the innermost of these nested emissions   *)
(* reaches the overlay: when the outer ones return, their statement is     *)
(* older than mLastEnvelope.  Each nested activation is one AdvanceNode    *)
(* step, and the node takes no other event until they are done.            *)
(***************************************************************************)
EXTENDS LocalNode, Sequences

CONSTANTS
    Value,
    NodeOrder,   \* the nodes in the order of their ids
    Proposal,    \* Proposal[n]: the value the herder of n asks it to nominate
    Valid,       \* Valid[n]: the values validateValue fully validates at n
    Extracted,   \* Extracted[n][v]: extractValidValue at n, NoValue for none
    NoValue,
    Priority,    \* Priority[r][n][m]: getNodePriority of m computed by n in round r
    ValueHash,   \* ValueHash[r][v]: hashValue in round r
    MayStop,     \* the nodes whose ballot protocol may externalize
    MaxRounds,   \* bound: nomination rounds of a node between restarts
    MayRestart,  \* bound: the nodes whose process restarts
    MaxRestarts  \* bound: restarts in a behaviour

Round == 1..MaxRounds

ASSUME NominationAssumption ==
    /\ NoValue \notin Value
    /\ NodeOrder \in Seq(Node) /\ Len(NodeOrder) = Cardinality(Node)
    /\ \A n \in Node : \E i \in DOMAIN NodeOrder : NodeOrder[i] = n
    /\ Proposal \in [Node -> Value]
    /\ Valid \in [Node -> SUBSET Value]
    /\ \A n \in Node : Proposal[n] \in Valid[n]
    /\ \A n \in Node : \A v \in Value : Extracted[n][v] \in Valid[n] \cup {NoValue}
    /\ Priority \in [Round -> [Node -> [Node -> Nat]]]
    /\ ValueHash \in [Round -> [Value -> Nat]]
    /\ \A r \in Round : \A v, w \in Value : ValueHash[r][v] = ValueHash[r][w] => v = w
    /\ MayStop \subseteq Node /\ MayRestart \subseteq Node
    /\ MaxRounds \in Nat \ {0}
    /\ MaxRestarts \in Nat

Statement == [votes : SUBSET Value, accepted : SUBSET Value]
NoStatement == [votes |-> {}, accepted |-> {}]

NodeState ==
    [started : BOOLEAN,                 \* mNominationStarted
     stopped : BOOLEAN,                 \* stopNomination was called
     round : 0..MaxRounds,              \* mRoundNumber
     leaders : SUBSET Node,             \* mRoundLeaders
     votes : SUBSET Value, accepted : SUBSET Value, candidates : SUBSET Value,
     composite : SUBSET Value,          \* what combineCandidates was given last
     M : [Node -> Statement],           \* mLatestNominations
     last : Statement,                  \* mLastEnvelope
     timer : BOOLEAN,                   \* the nomination timer is armed
     emitting : BOOLEAN,                \* inside emitNomination
     newCandidates : BOOLEAN,           \* combineCandidates is due on return
     fault : BOOLEAN]                   \* emitNomination has thrown

InitNode ==
    [started |-> FALSE, stopped |-> FALSE, round |-> 0, leaders |-> {},
     votes |-> {}, accepted |-> {}, candidates |-> {}, composite |-> {},
     M |-> [m \in Node |-> NoStatement], last |-> NoStatement, timer |-> FALSE,
     emitting |-> FALSE, newCandidates |-> FALSE, fault |-> FALSE]

(* Neither set lost a value and one of them grew. *)
isNewerStatement(oldst, st) ==
    /\ oldst.votes \subseteq st.votes
    /\ oldst.accepted \subseteq st.accepted
    /\ oldst # st

isSane(st) == st # NoStatement

-----------------------------------------------------------------------------
QSetNodes(n) ==
    LET nodes[q \in QSetId] ==
            QSets[q].validators \cup UNION {nodes[i] : i \in QSets[q].innerSets}
    IN  nodes[QSetOf[n]]

(* The nodes of highest priority among the local node and its quorum set;  *)
(* the local node when nobody has a priority.                              *)
updateRoundLeaders(n, r) ==
    LET P == Priority[r][n]
        known == {n} \cup QSetNodes(n)
    IN  {m \in known : /\ \A k \in known : P[k] <= P[m]
                       /\ P[m] > 0 \/ m = n}

(* What n can vote for of a statement: its valid values and valid          *)
(* variations of the others, unless it has voted for them.                 *)
NewValues(n, votes, st) ==
    {IF v \in Valid[n] THEN v ELSE Extracted[n][v] : v \in st.votes \cup st.accepted}
      \ (votes \cup {NoValue})

(* The choice of the highest hash; a set of at most one value. *)
getNewValueFromNomination(n, r, votes, st) ==
    LET choices == NewValues(n, votes, st)
    IN  {v \in choices : \A w \in choices : ValueHash[r][w] <= ValueHash[r][v]}

-----------------------------------------------------------------------------
voters(s, v) == {m \in Node : v \in s.M[m].votes}
accepters(s, v) == {m \in Node : v \in s.M[m].accepted}

(* Slip: a supported value is accepted without being validated. *)
promoteUnchecked(n, t, st) ==
    LET supported == {v \in st.votes \ t.accepted :
                        federatedAccept(n, voters(t, v), accepters(t, v), {})}
    IN  [t EXCEPT !.accepted = @ \cup supported, !.votes = @ \cup supported]

(* Votes of the statement that have enough support are accepted if they    *)
(* are valid; otherwise the node votes for a valid variation.              *)
promote(n, t, st) ==
    LET supported == {v \in st.votes \ t.accepted :
                        federatedAccept(n, voters(t, v), accepters(t, v), {})}
        valid == supported \cap Valid[n]
        variations == {Extracted[n][v] : v \in supported \ valid} \ {NoValue}
    IN  [t EXCEPT !.accepted = @ \cup valid, !.votes = @ \cup valid \cup variations]

ratify(n, t, st) ==
    [t EXCEPT !.candidates =
       @ \cup {v \in t.accepted : federatedRatify(n, accepters(t, v), {})}]

(* Slip: what changed is emitted and the new candidates are forgotten. *)
afterProcessForgets(s, t) ==
    IF t.votes # s.votes \/ t.accepted # s.accepted
    THEN [t EXCEPT !.emitting = TRUE]
    ELSE [t EXCEPT !.emitting = FALSE,
                   !.newCandidates = t.candidates # s.candidates]

(* The end of processEnvelope: emit what was modified, then, if there are  *)
(* new candidates, combine all of them.                                    *)
afterProcess(s, t) ==
    [t EXCEPT !.emitting = t.votes # s.votes \/ t.accepted # s.accepted,
              !.newCandidates = @ \/ t.candidates # s.candidates]

(* processEnvelope of a newer statement.  Values are taken over from a     *)
(* leader only while there is no candidate.                                *)
processEnvelope(n, s, m, st) ==
    LET r == [s EXCEPT !.M[m] = st]
        t == ratify(n, promote(n, r, st), st)
        new == IF t.candidates = {} /\ m \in t.leaders
               THEN getNewValueFromNomination(n, t.round, t.votes, st) ELSE {}
    IN  IF r.started THEN afterProcess(r, [t EXCEPT !.votes = @ \cup new])
        ELSE [r EXCEPT !.emitting = FALSE]

(* Slip: a new round does not look at what the leaders said so far. *)
nominateOwnValue(n, s) ==
    LET r == s.round + 1
        leaders == s.leaders \cup updateRoundLeaders(n, r)
        votes == s.votes \cup (IF n \in leaders THEN {Proposal[n]} ELSE {})
    IN  [s EXCEPT !.started = TRUE, !.round = r, !.leaders = leaders,
                  !.votes = votes, !.timer = TRUE, !.emitting = votes # s.votes]

(* One more value of each leader in turn, in the order of the node ids. *)
takeFromLeaders(n, r, leaders, own, M) ==
    LET taken[k \in 0..Len(NodeOrder)] ==
            IF k = 0 THEN own
            ELSE LET m == NodeOrder[k]
                     votes == taken[k - 1]
                 IN  IF m \in leaders
                     THEN votes \cup getNewValueFromNomination(n, r, votes, M[m])
                     ELSE votes
    IN  taken[Len(NodeOrder)]

(* nominate: the own value if the node is a leader, then values of the     *)
(* leaders, and the timer for the next round.                              *)
nominate(n, s) ==
    LET r == s.round + 1
        leaders == s.leaders \cup updateRoundLeaders(n, r)
        own == s.votes \cup (IF n \in leaders THEN {Proposal[n]} ELSE {})
        votes == takeFromLeaders(n, r, leaders, own, s.M)
    IN  [s EXCEPT !.started = TRUE, !.round = r, !.leaders = leaders,
                  !.votes = votes, !.timer = TRUE, !.emitting = votes # s.votes]

(* Slip: only the own record is restored. *)
setStateRecordOnly(n, st) ==
    [InitNode EXCEPT !.M[n] = st, !.last = st]

(* What a restart restores from the last envelope; mCandidates, the round  *)
(* and the leaders start afresh.                                           *)
setStateFromEnvelope(n, st) ==
    [InitNode EXCEPT !.M[n] = st, !.last = st, !.votes = st.votes,
                     !.accepted = st.accepted]
-----------------------------------------------------------------------------
VARIABLES
    node,     \* the NominationProtocol object of each node
    sent,     \* the statements each node has handed to the overlay
    restarts

vars == <<node, sent, restarts>>

Init ==
    /\ node = [n \in Node |-> InitNode]
    /\ sent = [n \in Node |-> {}]
    /\ restarts = 0

Idle == \A n \in Node : ~node[n].emitting
Ready(n) == Idle /\ ~node[n].fault

(* On return from the nested calls the last statement is emitted and the   *)
(* candidates are combined, for each call that found new ones.             *)
Unwind(s) ==
    IF s.emitting THEN s
    ELSE [s EXCEPT !.composite = IF s.newCandidates THEN s.candidates ELSE @,
                   !.newCandidates = FALSE]

Set(n, s) == node' = [node EXCEPT ![n] = Unwind(s)]

(* emitNomination processes the statement of the node itself, which is     *)
(* emitted once no nested call has emitted a newer one.                    *)
AdvanceNode(n) ==
    LET s == node[n]
        st == [votes |-> s.votes, accepted |-> s.accepted]
        t == processEnvelope(n, s, n, st)
        bad == ~isNewerStatement(s.M[n], st) \/ ~isSane(st)
        emits == ~bad /\ ~t.emitting /\ isNewerStatement(s.last, st)
    IN  /\ s.emitting
        /\ IF bad THEN node' = [node EXCEPT ![n].fault = TRUE, ![n].emitting = FALSE]
           ELSE Set(n, IF emits THEN [t EXCEPT !.last = st] ELSE t)
        /\ sent' = [sent EXCEPT ![n] = IF emits THEN @ \cup {st} ELSE @]
        /\ UNCHANGED restarts

(* The herder of n triggers the ledger: SCP::nominate. *)
Nominate(n) ==
    /\ Ready(n)
    /\ ~node[n].started /\ ~node[n].stopped
    /\ Set(n, nominate(n, node[n]))
    /\ UNCHANGED <<sent, restarts>>

(* The nomination timer of n: nominate with timedout, which does nothing   *)
(* once nomination is stopped.                                             *)
NominationTimerExpired(n) ==
    /\ Ready(n)
    /\ node[n].timer
    /\ node[n].started => node[n].round < MaxRounds
    /\ Set(n, IF node[n].started THEN nominate(n, node[n])
              ELSE [node[n] EXCEPT !.timer = FALSE])
    /\ UNCHANGED <<sent, restarts>>

(* Any statement of m may arrive at any time; the ones processEnvelope     *)
(* refuses change nothing.                                                 *)
ReceiveEnvelope(n, m, st) ==
    /\ Ready(n)
    /\ isNewerStatement(node[n].M[m], st)
    /\ isSane(st)
    /\ Set(n, processEnvelope(n, node[n], m, st))
    /\ UNCHANGED <<sent, restarts>>

(* The ballot protocol of n externalizes the slot. *)
StopNomination(n) ==
    /\ Ready(n)
    /\ n \in MayStop /\ ~node[n].stopped
    /\ node' = [node EXCEPT ![n].started = FALSE, ![n].stopped = TRUE]
    /\ UNCHANGED <<sent, restarts>>

Restart(n) ==
    /\ Ready(n)
    /\ n \in MayRestart /\ ~node[n].stopped
    /\ restarts < MaxRestarts
    /\ restarts' = restarts + 1
    /\ node' = [node EXCEPT ![n] = setStateFromEnvelope(n, @.last)]
    /\ UNCHANGED sent

Next ==
    \E n \in Node :
        \/ AdvanceNode(n)
        \/ Nominate(n)
        \/ NominationTimerExpired(n)
        \/ \E m \in Node \ {n} : \E st \in sent[m] : ReceiveEnvelope(n, m, st)
        \/ StopNomination(n)
        \/ Restart(n)

Spec == Init /\ [][Next]_vars

-----------------------------------------------------------------------------
(* Properties. *)

(* The fields of every NominationProtocol object and the statements in     *)
(* flight have their types.                                                *)
TypeOK ==
    /\ node \in [Node -> NodeState]
    /\ sent \in [Node -> SUBSET Statement]
    /\ restarts \in 0..MaxRestarts

(* emitNomination never throws "moved to a bad state (nomination)": what a *)
(* node has to say is always newer than its own statement on record, also  *)
(* when the record comes from setStateFromEnvelope.                        *)
NoFault == \A n \in Node : ~node[n].fault

(* A node votes for, and accepts, only values it validated itself, however *)
(* much support the others give to a value.                                *)
VotesValid == \A n \in Node : \A st \in sent[n] : st.votes \cup st.accepted \subseteq Valid[n]

(* Between two events the composite value that the ballot protocol was     *)
(* last given stands for all the candidates there are.                     *)
CompositeCurrent == Idle => \A n \in Node : node[n].composite = node[n].candidates

-----------------------------------------------------------------------------
(* Liveness.  A process finishes the event it handles, the herder triggers *)
(* the slot, the nomination timer fires while it is armed, and the latest  *)
(* statement of a peer, which its herder rebroadcasts, does not stay       *)
(* undelivered.  These are weak fairness of the four actions, written with *)
(* the conditions that enable them.                                        *)
Undelivered(n, m) ==
    \E st \in sent[m] : /\ \A st2 \in sent[m] : ~isNewerStatement(st, st2)
                        /\ isNewerStatement(node[n].M[m], st)

Fairness ==
    \A n \in Node :
        /\ []<>~node[n].emitting
        /\ []<>(node[n].started \/ node[n].stopped)
        /\ []<>~(node[n].timer /\ node[n].started /\ node[n].round < MaxRounds)
        /\ \A m \in Node \ {n} : []<>~Undelivered(n, m)

FairSpec == Spec /\ Fairness

(* A candidate of one node that every node validates becomes a candidate   *)
(* of every node whose slot is not over, unless a node restarts.  A node   *)
(* that starts after the others have said all they have to say processes   *)
(* no further envelope of theirs; the timer, which makes it take values    *)
(* over from the leaders of later rounds, is what lets it catch up.        *)
CandidatesSpread ==
    \A v \in Value : (\A n \in Node : v \in Valid[n]) =>
        ((\E n \in Node : v \in node[n].candidates)
           ~> (\/ \A n \in Node : v \in node[n].candidates \/ node[n].stopped
               \/ restarts > 0))

(* Every node finds a candidate, so that the ballot protocol can start,    *)
(* although the nodes do not agree on the leader of the first round, nor   *)
(* on which values are valid, and one of them may be done with the slot.   *)
CandidateFound ==
    <>(\/ \A n \in Node : node[n].candidates # {} \/ node[n].stopped
       \/ restarts > 0)
=============================================================================

--------------------------- MODULE BallotProtocol ---------------------------
(***************************************************************************)
(* The ballot protocol of one slot run by every node of a network, over an *)
(* overlay that loses, delays, reorders and repeats envelopes, with timers *)
(* and restarts.  A process handles one event at a time to completion: the *)
(* event, then AdvanceSlot steps until no activation of advanceSlot is     *)
(* left, when sendLatestEnvelope emits what the event produced.            *)
(***************************************************************************)
EXTENDS BallotNode

CONSTANTS
    Composites,       \* Composites[n]: the composite values nomination gives n, in order
    Hears,            \* Hears[n]: the nodes whose envelopes the herder passes to n
    MaxBallotCounter, \* bound: the timer of n fires below counter MaxBallotCounter[n]
    MaxRestarts       \* bound: restarts in a behaviour

ASSUME ProtocolAssumption ==
    /\ Composites \in [Node -> Seq(Value)]
    /\ Hears \in [Node -> SUBSET Node]
    /\ MaxBallotCounter \in [Node -> Counter]
    /\ MaxRestarts \in Nat

VARIABLES
    node,      \* the BallotProtocol object of each node
    sent,      \* the statements each node has handed to the overlay
    nominated, \* how many of its composite values each node has got
    restarts   \* number of restarts so far

vars == <<node, sent, nominated, restarts>>

Init ==
    /\ node = [n \in Node |-> InitNode]
    /\ sent = [n \in Node |-> {}]
    /\ nominated = [n \in Node |-> 0]
    /\ restarts = 0

(* No event is being handled.  The processes share nothing but `sent', so  *)
(* handling their events one after the other loses no behaviour.           *)
Idle == \A n \in Node : node[n].stack = <<>>
Ready(n) == Idle /\ node[n].fault = "none"

(* Node n moves to state s.  When the outermost activation is over,        *)
(* sendLatestEnvelope emits the last statement, once.  A process that      *)
(* fails emits nothing and stops.                                          *)
Become(n, s) ==
    LET failed == s.fault # "none"
        send == ~failed /\ s.stack = <<>> /\ s.fullyValidated /\ s.last # s.emit
    IN  /\ node' = [node EXCEPT ![n] =
                      IF failed THEN [@ EXCEPT !.fault = s.fault, !.stack = <<>>]
                      ELSE IF send THEN [s EXCEPT !.emit = s.last] ELSE s]
        /\ sent' = [sent EXCEPT ![n] = IF send THEN @ \cup {s.last} ELSE @]

AdvanceSlot(n) ==
    /\ node[n].stack # <<>>
    /\ Become(n, Step(n, node[n]))
    /\ UNCHANGED <<nominated, restarts>>

(* The nomination protocol computed a (new) composite candidate value. *)
Nominate(n) ==
    /\ Ready(n)
    /\ node[n].phase # "EXTERNALIZE"
    /\ nominated[n] < Len(Composites[n])
    /\ nominated' = [nominated EXCEPT ![n] = @ + 1]
    /\ Become(n, nominationComposite(n, node[n], Composites[n][nominated[n] + 1]))
    /\ UNCHANGED restarts

(* An envelope of m reaches n.  Any statement ever sent may arrive at any  *)
(* time and as often as it likes; the ones processEnvelope refuses change  *)
(* nothing.  What an externalized node still records is read only by       *)
(* getExternalizingState, to save the history of the slot, and is left     *)
(* out.                                                                    *)
ReceiveEnvelope(n, m, st) ==
    /\ Ready(n)
    /\ node[n].phase # "EXTERNALIZE"
    /\ acceptableStatement(n, node[n], m, st)
    /\ Become(n, processEnvelope(n, node[n], m, st))
    /\ UNCHANGED <<nominated, restarts>>

BallotTimerExpired(n) ==
    /\ Ready(n)
    /\ node[n].timer
    /\ node[n].b.n < MaxBallotCounter[n]
    /\ Become(n, ballotProtocolTimerExpired(n, node[n]))
    /\ UNCHANGED <<nominated, restarts>>

(* The process of n dies and restarts.  What survives is the last envelope *)
(* it emitted, which is persisted before it is broadcast.                  *)
Restart(n) ==
    /\ Ready(n)
    /\ restarts < MaxRestarts
    /\ restarts' = restarts + 1
    /\ node' = [node EXCEPT ![n] = setStateFromEnvelope(n, node[n].emit)]
    /\ UNCHANGED <<sent, nominated>>

Next ==
    \E n \in Node :
        \/ AdvanceSlot(n)
        \/ Nominate(n)
        \/ \E m \in Hears[n] : \E st \in sent[m] : ReceiveEnvelope(n, m, st)
        \/ BallotTimerExpired(n)
        \/ Restart(n)

Spec == Init /\ [][Next]_vars
-----------------------------------------------------------------------------
(* Properties. *)

(* The fields of every BallotProtocol object, the statements in flight and *)
(* the counters of the environment have their types.                       *)
TypeOK ==
    /\ node \in [Node -> NodeState]
    /\ sent \in [Node -> SUBSET Statement]
    /\ nominated \in [Node -> Nat]
    /\ restarts \in 0..MaxRestarts

(* No two nodes externalize different values; already their CONFIRM        *)
(* statements agree, those of a node before and after a restart included:  *)
(* setAcceptCommit moves at most one value to CONFIRM.                     *)
CommitAgreement ==
    \A m, n \in Node : \A st1 \in sent[m], st2 \in sent[n] :
        st1.type # "PREPARE" /\ st2.type # "PREPARE" => st1.b.x = st2.b.x

(* No dbgAssert fails, emitCurrentStateStatement never throws "moved to a  *)
(* bad state", and advanceSlot never throws "maximum number of transitions *)
(* reached".                                                               *)
NoFault == \A n \in Node : node[n].fault = "none"

(* A node that voted to commit (c..h) votes for another value only after   *)
(* it has accepted that all of c..h is aborted: updateCurrentValue refuses *)
(* an incompatible ballot until setAcceptPrepared clears mCommit.          *)
CommitVotesKept ==
    \A n \in Node : \A st1, st2 \in sent[n] :
        /\ st1.type = "PREPARE" /\ st1.nC # 0
        /\ isNewerStatement(st1, st2)
        /\ st2.type = "PREPARE" /\ ~areBallotsCompatible(st1.b, st2.b)
        => \E ballot \in {st2.p, st2.pp} :
              areBallotsLessAndIncompatible(MakeBallot(st1.nH, st1.b.x), ballot)

(* A node emits no statement that names a value it has not fully validated *)
(* (processEnvelope, setFullyValidated and sendLatestEnvelope).            *)
SentValidated ==
    \A n \in Node : \A st \in sent[n] : \A x \in getStatementValues(st) :
        Validity[n][x] = "fullyValidated"

(* Between events, the ballot timer of a process that has not failed runs  *)
(* only while a quorum has reached the counter of the current ballot       *)
(* (checkHeardFromQuorum), and not after the slot is externalized.         *)
TimerJustified ==
    \A n \in Node : Idle /\ node[n].fault = "none" /\ node[n].timer =>
        /\ node[n].heard
        /\ node[n].phase # "EXTERNALIZE"
        /\ isQuorum(QSetOf[n],
                    {m \in Senders(node[n]) :
                       node[n].M[m].type = "PREPARE" => node[n].b.n <= node[n].M[m].b.n},
                    Externalized(node[n]))

(* Each statement a node emits is newer than the one before, a restart in  *)
(* between or not, so no peer ever drops it as old.                        *)
EmitsNewer ==
    [][\A n \in Node : node'[n].emit # node[n].emit
                         => isNewerStatement(node[n].emit, node'[n].emit)]_vars

(* "the local node will not flip flop between "seen" and "not seen" for a  *)
(* given counter" (checkHeardFromQuorum).                                  *)
HeardStays ==
    [][\A n \in Node :
         node[n].heard /\ node'[n].b.n = node[n].b.n /\ restarts' = restarts
           => node'[n].heard]_vars

(* The ballot timer abandons the ballot: the counter goes up               *)
(* (BallotProtocol.h, abandonBallot).                                      *)
TimeoutAdvances ==
    [][\A n \in Node : BallotTimerExpired(n) => node'[n].b.n = node[n].b.n + 1]_vars

-----------------------------------------------------------------------------
(* Liveness.  A process finishes the event it handles, and the latest      *)
(* statement of a peer does not stay undelivered: the herder rebroadcasts  *)
(* the latest envelopes of the node until the slot is over.  These are     *)
(* weak fairness of AdvanceSlot(n) and of receiving the latest statement   *)
(* of m, written with the conditions that enable the two.  Nothing is      *)
(* assumed of nomination, timers and restarts.                             *)
Undelivered(n, m) ==
    /\ node[n].phase # "EXTERNALIZE"
    /\ \E st \in sent[m] : /\ \A st2 \in sent[m] : ~isNewerStatement(st, st2)
                           /\ acceptableStatement(n, node[n], m, st)

Fairness ==
    \A n \in Node : /\ []<>(node[n].stack = <<>>)
                    /\ \A m \in Hears[n] : []<>~Undelivered(n, m)

FairSpec == Spec /\ Fairness

(* Once one node has externalized, all nodes do. *)
ExternalizeSpreads ==
    (\E n \in Node : node[n].phase = "EXTERNALIZE")
      ~> (\A n \in Node : node[n].phase = "EXTERNALIZE")

(* When the nodes that nominate all get one value, and each node's quorum  *)
(* set is satisfied by them, every node externalizes, unless a timer moves *)
(* one of them to another counter: messages alone carry the slot through,  *)
(* also past a restart, and past the timer of a node that only listens.    *)
Nominators == {n \in Node : Composites[n] # <<>>}

UnanimityDecides ==
    (/\ \E x \in Value : \A n \in Nominators : Composites[n] = <<x>>
     /\ \A n \in Node : isQuorum(QSetOf[n], Nominators, {})
     /\ \A n \in Nominators : nominated[n] = 1)
      ~> (\/ \A n \in Node : node[n].phase = "EXTERNALIZE"
          \/ \E n \in Nominators : node[n].b.n > 1)
=============================================================================

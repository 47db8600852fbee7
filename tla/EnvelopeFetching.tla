-------------------------- MODULE EnvelopeFetching --------------------------
(***************************************************************************)
(* How the herder of one node holds an envelope back until it has the      *)
(* quorum set and the transaction sets the envelope refers to:             *)
(* src/src/herder/PendingEnvelopes.cpp, src/src/overlay/ItemFetcher.cpp    *)
(* and Tracker.cpp, with the parts of HerderImpl.cpp that drive them.      *)
(*                                                                         *)
(* The node is in sync.  Peers answer requests in any order and at any    *)
(* time; a timer may fire whenever it is armed.  An event runs alone, but  *)
(* from inside it envelopes become ready, SCP takes them and may           *)
(* externalize the slot, which makes further envelopes ready: "stack"      *)
(* holds the loops that are in progress, and each of their iterations is   *)
(* one step.                                                               *)
(***************************************************************************)
EXTENDS Integers, Sequences, Functions

CONSTANTS
    Envelope,
    Slot,          \* Slot[e]: the slot of an envelope
    Sender,        \* Sender[e]: the node that signed it
    QSetHash,      \* QSetHash[e]: its companion quorum set
    TxSetHashes,   \* TxSetHashes[e]: the transaction sets its values name, a sequence
    QItem,         \* quorum sets
    TItem,         \* transaction sets
    Sane,          \* the quorum sets isQuorumSetSane accepts
    Proposed,      \* transaction sets this node may propose itself
    Peer, NoPeer,
    Refusals,      \* bound: how often an item is answered with DONT_HAVE
    Quorums,       \* the sets isNodeDefinitelyInQuorum may stand for
    MaxSlots,      \* MAX_SLOTS_TO_REMEMBER
    MaxSlot        \* bound: the last slot that is externalized

Item == QItem \cup TItem
Needs(e) == {QSetHash[e]} \cup Range(TxSetHashes[e])
SlotIndex == 0..MaxSlot + 1

ASSUME FetchAssumption ==
    /\ QItem \cap TItem = {} /\ Sane \subseteq QItem /\ Proposed \subseteq TItem
    /\ \A e \in Envelope : /\ Slot[e] \in 2..MaxSlot + 1
                           /\ QSetHash[e] \in QItem /\ TxSetHashes[e] \in Seq(TItem)
    /\ NoPeer \notin Peer /\ Refusals \in [Item -> Nat]
    /\ MaxSlots \in Nat \ {0} /\ MaxSlot \in Nat \ {0}

-----------------------------------------------------------------------------
(* The last element of a vector, and the vector without it. *)
back(v) == v[Len(v)]
pop_back(v) == SubSeq(v, 1, Len(v) - 1)

(* The entries of waiting that are not in gone, in their order. *)
Without(waiting, gone) ==
    LET rest[k \in 0..Len(waiting)] ==
            IF k = 0 THEN <<>>
            ELSE IF waiting[k] \in gone THEN rest[k - 1] ELSE Append(rest[k - 1], waiting[k])
    IN  rest[Len(waiting)]

(* Tracker: the search for one item.  mPeersToAsk is in random order, so   *)
(* it is a set and the next peer is any of it.  NoTracker stands for an    *)
(* item without an entry in mTrackers.                                     *)

Tracker ==
    [waiting : Seq(Envelope),           \* mWaitingEnvelopes
     toAsk : SUBSET Peer,               \* mPeersToAsk
     last : Peer \cup {NoPeer},         \* mLastAskedPeer
     lastSeen : SlotIndex,              \* mLastSeenSlotIndex
     timer : BOOLEAN,                   \* mTimer is armed
     exists : BOOLEAN]                  \* there is an entry in mTrackers

NoTracker ==
    [waiting |-> <<>>, toAsk |-> {}, last |-> NoPeer, lastSeen |-> 0,
     timer |-> FALSE, exists |-> FALSE]

(* An envelope that names the item several times listens as often. *)
listen(tr, e, times) ==
    [tr EXCEPT !.waiting = @ \o [k \in 1..times |-> e],
               !.lastSeen = IF Slot[e] > @ THEN Slot[e] ELSE @]

cancel(tr) == [tr EXCEPT !.timer = FALSE, !.lastSeen = 0]

(* Slip: the search ends when every peer has been asked. *)
tryNextPeerGivesUp(tr, p) ==
    LET list == IF tr.toAsk = {} /\ tr.last = NoPeer THEN Peer ELSE tr.toAsk
        next == IF p \in list THEN p ELSE CHOOSE q \in list : TRUE
    IN  IF list = {} THEN [tr EXCEPT !.last = NoPeer, !.timer = FALSE]
        ELSE [tr EXCEPT !.last = next, !.toAsk = list \ {next}, !.timer = TRUE]

(* The list of peers to ask is rebuilt only when no request is out; when   *)
(* it is exhausted the timer starts the next attempt.  The next peer is p, *)
(* if p is on the list.                                                    *)
tryNextPeer(tr, p) ==
    LET list == IF tr.toAsk = {} /\ tr.last = NoPeer THEN Peer ELSE tr.toAsk
        next == IF p \in list THEN p ELSE CHOOSE q \in list : TRUE
    IN  IF list = {} THEN [tr EXCEPT !.last = NoPeer, !.timer = TRUE]
        ELSE [tr EXCEPT !.last = next, !.toAsk = list \ {next}, !.timer = TRUE]

clearEnvelopesBelow(tr, slot) ==
    LET waiting == Without(tr.waiting, {e \in Envelope : Slot[e] < slot})
    IN  IF waiting = <<>> THEN NoTracker ELSE [tr EXCEPT !.waiting = waiting]

(* ItemFetcher::fetch: an item that has a tracker is not asked for again. *)
fetch(tr, e, times, p) ==
    IF tr.exists THEN listen(tr, e, times)
    ELSE tryNextPeer(listen([NoTracker EXCEPT !.exists = TRUE], e, times), p)

(* For each of the envelopes in gone; a search that nobody waits for is    *)
(* called off when the last of them goes.                                  *)
stopFetch(tr, gone) ==
    LET rest == [tr EXCEPT !.waiting = Without(@, gone)]
    IN  IF gone = {} THEN tr
        ELSE IF tr.exists /\ rest.waiting = <<>> THEN cancel(rest) ELSE rest

-----------------------------------------------------------------------------
(* The process: PendingEnvelopes, the two fetchers, and what the herder    *)
(* and SCP keep.  "queue" k on the stack is processSCPQueueUpToIndex(k),   *)
(* "recv" i is ItemFetcher::recv of item i.                                *)

Loop == [kind : {"queue"}, upTo : SlotIndex] \cup [kind : {"recv"}, item : Item]

State ==
    [discarded : SUBSET Envelope, processed : SUBSET Envelope,
     fetching : SUBSET Envelope,
     ready : [SlotIndex -> Seq(Envelope)],
     qsets : SUBSET QItem,                    \* mQsetCache
     txsets : [TItem -> SlotIndex \cup {-1}], \* mTxSetCache: its slot, -1 for none
     tracker : [Item -> Tracker],
     scp : SUBSET Envelope,                   \* the envelopes SCP has
     lastIndex : 1..MaxSlot,                  \* lastConsensusLedgerIndex
     posted : SUBSET SlotIndex,               \* stopFetchingBelow on the main thread
     trigger : BOOLEAN,                       \* mTriggerTimer is armed
     stack : Seq(Loop)]

(* An item is known while a cache or a wrapped envelope refers to it. *)
Held(s) == s.scp \cup UNION {Range(s.ready[k]) : k \in SlotIndex}
getKnown(s, i) ==
    \/ i \in s.qsets
    \/ i \in TItem /\ s.txsets[i] # -1
    \/ \E e \in Held(s) : i \in Needs(e)

Missing(s, e) == {i \in Needs(e) : ~getKnown(s, i)}
isFullyFetched(s, e) == Missing(s, e) = {}

putTxSet(s, i, slot) == [s EXCEPT !.txsets[i] = IF slot > @ THEN slot ELSE @]

touchFetchCache(s, e) ==
    LET known == {i \in Needs(e) : getKnown(s, i)}
    IN  [s EXCEPT !.qsets = @ \cup (known \cap QItem),
                  !.txsets = [i \in TItem |-> IF i \in known /\ Slot[e] > @[i]
                                              THEN Slot[e] ELSE @[i]]]

(* pick[i] is the peer that is asked for item i. *)
startFetch(s, e, pick) ==
    LET hashes == <<QSetHash[e]>> \o TxSetHashes[e]
        Times(i) == Len(Without(hashes, Item \ {i}))
    IN  [s EXCEPT !.tracker = [i \in Item |-> IF i \in Missing(s, e)
                                              THEN fetch(@[i], e, Times(i), pick[i]) ELSE @[i]]]

Push(s, loop) == [s EXCEPT !.stack = <<loop>> \o @]

(* MAX_SLOTS_TO_REMEMBER slots below the current one are of interest. *)
MinSlot(s) == IF s.lastIndex > MaxSlots THEN s.lastIndex - MaxSlots ELSE s.lastIndex

(* A complete envelope becomes ready, and the queue is processed. *)
envelopeReady(s, e) ==
    Push([s EXCEPT !.processed = @ \cup {e}, !.fetching = @ \ {e},
                   !.ready[Slot[e]] = Append(@, e)],
         [kind |-> "queue", upTo |-> s.lastIndex + 1])

(* Slip: an envelope that was processed is taken again. *)
recvSCPEnvelopeAgain(s, members, e, pick) ==
    LET t == touchFetchCache(s, e)
        f == IF e \in t.fetching THEN t
             ELSE startFetch([t EXCEPT !.fetching = @ \cup {e}], e, pick)
    IN  IF Slot[e] < MinSlot(s) \/ Sender[e] \notin members \/ e \in s.discarded THEN s
        ELSE IF isFullyFetched(f, e) THEN envelopeReady(f, e) ELSE f

(* recvSCPEnvelope of the herder and of PendingEnvelopes. *)
recvSCPEnvelope(s, members, e, pick) ==
    LET t == touchFetchCache(s, e)
        f == IF e \in t.fetching THEN t
             ELSE startFetch([t EXCEPT !.fetching = @ \cup {e}], e, pick)
    IN  IF Slot[e] < MinSlot(s) \/ Sender[e] \notin members \/ e \in s.discarded THEN s
        ELSE IF e \in s.processed /\ e \notin s.fetching THEN t
        ELSE IF isFullyFetched(f, e) THEN envelopeReady(f, e) ELSE f

(* discardSCPEnvelope of every envelope that waits for a bad quorum set. *)
discardSCPEnvelopesWithQSet(s, q) ==
    LET bad == Range(s.tracker[q].waiting) \ s.discarded
    IN  [s EXCEPT !.discarded = @ \cup bad, !.fetching = @ \ bad,
                  !.tracker = [i \in Item |-> stopFetch(@[i], {e \in bad : i \in Needs(e)})]]

(* addTxSet, addSCPQuorumSet: ItemFetcher::recv sends the waiting          *)
(* envelopes back to the herder.                                           *)
recv(s, i) == IF s.tracker[i].exists THEN Push(s, [kind |-> "recv", item |-> i]) ELSE s
addTxSet(s, i, slot) == recv(putTxSet(s, i, slot), i)
addSCPQuorumSet(s, i) == recv([s EXCEPT !.qsets = @ \cup {i}], i)

(* recvTxSet and recvSCPQuorumSet: only what is being fetched is welcome. *)
recvItem(s, i) ==
    CASE s.tracker[i].lastSeen = 0 -> s
      [] s.tracker[i].lastSeen # 0 /\ i \in TItem -> addTxSet(s, i, s.tracker[i].lastSeen)
      [] s.tracker[i].lastSeen # 0 /\ i \in Sane -> addSCPQuorumSet(s, i)
      [] s.tracker[i].lastSeen # 0 /\ i \in QItem \ Sane -> discardSCPEnvelopesWithQSet(s, i)

stopFetchingBelowInternal(s, slot) ==
    [s EXCEPT !.tracker = [i \in Item |-> clearEnvelopesBelow(@[i], slot)]]

(* The entries of mEnvelopes for some slots go. *)
Forget(s, slots) ==
    LET gone == {e \in Envelope : Slot[e] \in slots}
    IN  [s EXCEPT !.discarded = @ \ gone, !.processed = @ \ gone, !.fetching = @ \ gone,
                  !.ready = [k \in SlotIndex |-> IF k \in slots THEN <<>> ELSE @[k]]]
DropTxSets(s, slots) ==
    [s EXCEPT !.txsets = [i \in TItem |-> IF @[i] \in slots THEN -1 ELSE @[i]]]

(* SCP::purgeSlots and PendingEnvelopes::eraseBelow; slot 0 marks data     *)
(* whose slot is not known.                                                *)
eraseBelow(s, slot) ==
    [DropTxSets(Forget(s, 0..slot - 1), 1..slot - 1)
        EXCEPT !.scp = {e \in @ : Slot[e] >= slot}]

(* Slip: the trackers are cleaned up on the spot. *)
slotClosedAtOnce(s, slot) ==
    stopFetchingBelowInternal(DropTxSets(Forget(s, {slot}), {slot}), slot + 1)

(* PendingEnvelopes::slotClosed, of the slot that falls off the window. *)
slotClosed(s, slot) ==
    [DropTxSets(Forget(s, {slot}), {slot}) EXCEPT !.posted = @ \cup {slot + 1}]

(* The window moves on to the slot that follows lastIndex. *)
NextSlot(s) ==
    LET slot == s.lastIndex + 1
        t == [s EXCEPT !.lastIndex = slot, !.trigger = TRUE]
    IN  IF slot > MaxSlots
        THEN slotClosed(eraseBelow(t, slot - MaxSlots), slot - MaxSlots) ELSE t

(* Slip: the queue is not looked at when a slot begins. *)
valueExternalizedOnly(s) == NextSlot(s)

(* valueExternalized and ledgerClosed of the herder: the window moves, and *)
(* what has been waiting for the next slot is processed.                   *)
valueExternalized(s) ==
    Push(NextSlot(s), [kind |-> "queue", upTo |-> s.lastIndex + 2])

(* pop: the last ready envelope of the lowest slot. *)
readySlots(s, upTo) == {k \in SlotIndex : k <= upTo /\ s.ready[k] # <<>>}
lowest(S) == CHOOSE k \in S : \A j \in S : k <= j

-----------------------------------------------------------------------------
VARIABLES
    node,      \* the process
    quorum,    \* the nodes of the transitive quorum
    requests,  \* the requests <<p, i>> that peers have yet to answer
    refused    \* how often a peer did not have the item

vars == <<node, quorum, requests, refused>>

(* The node starts at the genesis ledger. *)
Init ==
    /\ node = [discarded |-> {}, processed |-> {}, fetching |-> {},
               ready |-> [k \in SlotIndex |-> <<>>],
               qsets |-> {}, txsets |-> [i \in TItem |-> -1],
               tracker |-> [i \in Item |-> NoTracker],
               scp |-> {}, lastIndex |-> 1, posted |-> {}, trigger |-> TRUE, stack |-> <<>>]
    /\ quorum \in Quorums
    /\ requests = {}
    /\ refused = [i \in Item |-> 0]

Idle == node.stack = <<>>

(* mAskPeer: the requests the trackers of t make that those of s did not. *)
Asked(s, t) ==
    {<<t.tracker[i].last, i>> : i \in {j \in Item :
        /\ t.tracker[j].last # NoPeer
        /\ t.tracker[j].toAsk # s.tracker[j].toAsk \/ t.tracker[j].last # s.tracker[j].last}}

(* The process becomes t, when the answers in "answered" have come in. *)
Become(t, answered) ==
    /\ node' = t
    /\ requests' = (requests \ answered) \cup Asked(node, t)

(* A peer sends an envelope, perhaps again. *)
ReceiveEnvelope(e) ==
    /\ Idle
    /\ \E pick \in [Needs(e) -> Peer] : Become(recvSCPEnvelope(node, quorum, e, pick), {})
    /\ UNCHANGED <<quorum, refused>>

(* A peer answers a request with the item. *)
ReceiveItem(p, i) ==
    /\ Idle
    /\ <<p, i>> \in requests
    /\ Become(recvItem(node, i), {<<p, i>>})
    /\ UNCHANGED <<quorum, refused>>

(* A peer answers DONT_HAVE, and may have the item when it is asked again; *)
(* only the peer that was asked last counts.                               *)
PeerDoesntHave(p, i) ==
    /\ Idle
    /\ <<p, i>> \in requests
    /\ refused[i] < Refusals[i] /\ refused' = [refused EXCEPT ![i] = @ + 1]
    /\ \E q \in Peer :
         Become(IF node.tracker[i].last = p
                THEN [node EXCEPT !.tracker[i] = tryNextPeer(@, q)] ELSE node, {<<p, i>>})
    /\ UNCHANGED quorum

(* The timer of a tracker. *)
TimerExpired(i) ==
    /\ Idle
    /\ node.tracker[i].timer
    /\ \E q \in Peer : Become([node EXCEPT !.tracker[i] = tryNextPeer(@, q)], {})
    /\ UNCHANGED <<quorum, refused>>

(* triggerNextLedger adds the transaction set this node proposes for the   *)
(* next slot; a transaction set names the ledger it builds on.             *)
ProposeTxSet(i) ==
    /\ Idle
    /\ node.trigger
    /\ \A e \in Envelope : i \in Needs(e) => Slot[e] = node.lastIndex + 1
    /\ Become(addTxSet([node EXCEPT !.trigger = FALSE], i, node.lastIndex + 1), {})
    /\ UNCHANGED <<quorum, refused>>

(* The clean-up that slotClosed posted, from the top of the main loop. *)
StopFetchingBelow(slot) ==
    /\ Idle
    /\ slot \in node.posted
    /\ Become(stopFetchingBelowInternal([node EXCEPT !.posted = @ \ {slot}], slot), {})
    /\ UNCHANGED <<quorum, refused>>

(* One iteration of ItemFetcher::recv. *)
RecvLoop ==
    /\ ~Idle /\ Head(node.stack).kind = "recv"
    /\ LET i == Head(node.stack).item
           tr == node.tracker[i]
           popped == [node EXCEPT !.tracker[i].waiting = pop_back(@)]
       IN  IF tr.waiting = <<>>
           THEN Become([node EXCEPT !.tracker[i] = cancel(tr), !.stack = Tail(@)], {})
           ELSE \E pick \in [Needs(back(tr.waiting)) -> Peer] :
                  Become(recvSCPEnvelope(popped, quorum, back(tr.waiting), pick), {})
    /\ UNCHANGED <<quorum, refused>>

(* One iteration of processSCPQueueUpToIndex; SCP may externalize the next *)
(* slot when it gets an envelope of that slot, and the transitive quorum   *)
(* is computed afresh.                                                     *)
QueueLoop ==
    /\ ~Idle /\ Head(node.stack).kind = "queue"
    /\ LET slots == readySlots(node, Head(node.stack).upTo)
           k == lowest(slots)
           e == back(node.ready[k])
           taken == [node EXCEPT !.ready[k] = pop_back(@), !.scp = @ \cup {e}]
       IN  \/ slots = {} /\ Become([node EXCEPT !.stack = Tail(@)], {}) /\ UNCHANGED quorum
           \/ slots # {} /\ Become(taken, {}) /\ UNCHANGED quorum
           \/ /\ slots # {} /\ k = node.lastIndex + 1 /\ k <= MaxSlot
              /\ Become(valueExternalized(taken), {}) /\ quorum' \in Quorums
    /\ UNCHANGED refused

Next ==
    \/ \E e \in Envelope : ReceiveEnvelope(e)
    \/ \E p \in Peer, i \in Item : ReceiveItem(p, i) \/ PeerDoesntHave(p, i)
    \/ \E i \in Item : TimerExpired(i)
    \/ \E i \in Proposed : ProposeTxSet(i)
    \/ \E slot \in SlotIndex : StopFetchingBelow(slot)
    \/ RecvLoop
    \/ QueueLoop

Spec == Init /\ [][Next]_vars

(* What has begun comes to its end, a peer answers what it was asked, and  *)
(* the main loop gets to a timer that stays armed: when it has expired it  *)
(* has moved on from the peer that was asked, or from none.                *)
FairSpec ==
    /\ Spec
    /\ []<>Idle
    /\ \A i \in Item :
         /\ \A p \in Peer : []<>(<<p, i>> \notin requests)
         /\ []<>(node.tracker[i].timer => node.tracker[i].last = NoPeer)
         /\ []<>(node.tracker[i].timer => node.tracker[i].last # NoPeer)

-----------------------------------------------------------------------------
TypeOK ==
    /\ node \in State
    /\ quorum \in Quorums
    /\ requests \subseteq Peer \X Item
    /\ refused \in [Item -> Nat]

(* The slots that neither fell off the window nor are about to. *)
InWindow(e) == Slot[e] + MaxSlots > node.lastIndex

(* ItemFetcher::recv keeps a reference to its tracker while the herder     *)
(* processes envelopes and closes slots: the tracker is not erased under   *)
(* it.                                                                     *)
TrackerOutlivesLoop ==
    \A k \in DOMAIN node.stack :
        node.stack[k].kind = "recv" => node.tracker[node.stack[k].item].exists

(* However often it is sent, and in whatever order its items come in, SCP  *)
(* is given an envelope once while its slot is in the window.              *)
DeliveredOnce ==
    \A k \in SlotIndex :
        /\ IsInjective(node.ready[k])
        /\ \A e \in Range(node.ready[k]) : InWindow(e) => e \notin node.scp

(* Back in the main loop no envelope that is complete waits for a slot     *)
(* that has begun: every path that makes an envelope ready, or begins a    *)
(* slot, goes through the queue.                                           *)
NothingLeftBehind ==
    Idle => readySlots(node, node.lastIndex + 1) = {}

(* Back in the main loop, what a held-back envelope lacks is being asked   *)
(* for: a request is out, or the timer that leads to the next one is       *)
(* armed.  This is what ItemFetcher promises to each envelope that needs   *)
(* an item.                                                                *)
StillAsked ==
    Idle => \A e \in node.fetching : InWindow(e) => \A i \in Missing(node, e) :
                node.tracker[i].timer \/ \E p \in Peer : <<p, i>> \in requests

(* What a held-back envelope lacks comes in, or the envelope is discarded, *)
(* or its slot leaves the window: ItemFetcher keeps asking for an item as  *)
(* long as an envelope needs it.                                           *)
FetchCompletes ==
    \A e \in Envelope :
        LET HeldBack == e \in node.fetching /\ InWindow(e) /\ Missing(node, e) # {}
        IN  HeldBack ~> ~HeldBack
=============================================================================

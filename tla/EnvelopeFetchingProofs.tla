----------------------- MODULE EnvelopeFetchingProofs -----------------------
(***************************************************************************)
(* Proofs about EnvelopeFetching, for any set of envelopes, items and      *)
(* peers and any length of the window: types, the life of a tracker while  *)
(* ItemFetcher::recv refers to it, delivery to SCP at most once, and no    *)
(* complete envelope left behind.                                          *)
(***************************************************************************)
EXTENDS EnvelopeFetching, WellFoundedInduction, TLAPS

(* A set of naturals that is not empty has a least member. *)
LEMMA LeastNatural ==
    ASSUME NEW S \in SUBSET Nat, S # {}
    PROVE  \E m \in S : \A k \in S : m <= k
<1>1. PICK m \in S : \A k \in S : ~(<<k, m>> \in OpToRel(<, Nat))
  BY Zenon, NatLessThanWellFounded, WFMin
<1>2. \A k \in S : ~(k < m)
  BY Zenon, <1>1 DEF OpToRel
<1> QED
  BY <1>2

(* Induction: a set that holds 0 and every successor of its members holds  *)
(* every natural number.                                                   *)
LEMMA SetInduction ==
    ASSUME NEW S, 0 \in S, \A n \in Nat : n \in S => n + 1 \in S
    PROVE  \A n \in Nat : n \in S
<1> DEFINE Out == Nat \ S
<1> SUFFICES ASSUME Out # {} PROVE FALSE
  OBVIOUS
<1>1. PICK m \in Out : \A k \in Out : m <= k
  <2> HIDE DEF Out
  <2> Out \in SUBSET Nat
    BY DEF Out
  <2> QED
    BY LeastNatural
<1>2. m # 0 /\ m - 1 \in Nat
  OBVIOUS
<1>3. m - 1 \in S
  BY <1>1, <1>2
<1> QED
  BY <1>2, <1>3

(* The first element of a sequence and the others. *)

LEMMA SeqTail ==
    ASSUME NEW S, NEW s \in Seq(S), s # <<>>
    PROVE  /\ Head(s) \in S /\ Head(s) = s[1]
           /\ Tail(s) \in Seq(S) /\ Len(Tail(s)) = Len(s) - 1 /\ Len(s) \in Nat \ {0}
           /\ \A i \in 1..Len(Tail(s)) : Tail(s)[i] = s[i + 1]
OBVIOUS

(* What is left of a list of envelopes is a list of envelopes. *)
LEMMA WithoutType ==
    ASSUME NEW E, NEW waiting \in Seq(E), NEW gone
    PROVE  Without(waiting, gone) \in Seq(E)
<1> DEFINE S == 0..Len(waiting)
           T == Seq(E)
           Rest(g, k) == IF k = 0 THEN <<>>
                         ELSE IF waiting[k] \in gone THEN g[k - 1]
                         ELSE Append(g[k - 1], waiting[k])
           rest == CHOOSE g : g = [k \in S |-> Rest(g, k)]
           UpTo(n, g) == \A k \in S : k <= n => g[k] = Rest(g, k)
           Good == {n \in Nat : \E g \in [S -> T] : UpTo(n, g)}
<1>1. Len(waiting) \in Nat /\ S \in SUBSET Nat /\ <<>> \in T
  OBVIOUS
<1>2. Without(waiting, gone) = rest[Len(waiting)]
  BY DEF Without
<1>3. ASSUME NEW k \in S, NEW g \in [S -> T] PROVE Rest(g, k) \in T
  <2>1. CASE k = 0
    BY <2>1
  <2>2. CASE k # 0
    <3>1. k - 1 \in S /\ waiting[k] \in E
      BY <1>1, <2>2
    <3>2. g[k - 1] \in T
      BY <3>1
    <3> QED BY <2>2, <3>1, <3>2
  <2> QED BY <2>1, <2>2
<1>4. ASSUME NEW k \in S, NEW a, NEW b, \A i \in S : i < k => a[i] = b[i]
      PROVE  Rest(a, k) = Rest(b, k)
  <2>1. k # 0 => k - 1 \in S /\ k - 1 < k
    BY <1>1
  <2> QED BY <1>4, <2>1
<1> HIDE DEF Rest, T
<1>5. 0 \in Good
  <2> DEFINE g == [k \in S |-> <<>>]
  <2>1. g \in [S -> T] /\ \A k \in S : k <= 0 => k = 0
    BY <1>1
  <2>2. 0 \in S => g[0] = Rest(g, 0)
    BY DEF Rest
  <2> HIDE DEF g
  <2> QED BY <2>1, <2>2
<1>6. ASSUME NEW n \in Nat, n \in Good PROVE n + 1 \in Good
  <2>1. PICK g \in [S -> T] : UpTo(n, g)
    BY <1>6
  <2> DEFINE h == [k \in S |-> IF k = n + 1 THEN Rest(g, k) ELSE g[k]]
  <2>2. h \in [S -> T]
    BY <1>3
  <2>3. ASSUME NEW k \in S, k <= n + 1 PROVE h[k] = Rest(h, k)
    <3>1. \A i \in S : i < k => h[i] = g[i]
      BY <1>1, <2>3
    <3>2. Rest(h, k) = Rest(g, k)
      <4> HIDE DEF h
      <4> QED BY <1>4, <3>1
    <3>3. CASE k = n + 1
      BY <3>2, <3>3
    <3>4. CASE k # n + 1
      <4>1. k <= n /\ h[k] = g[k]
        BY <1>1, <2>3, <3>4
      <4> QED BY <2>1, <3>2, <4>1
    <3> QED BY <3>3, <3>4
  <2> HIDE DEF h
  <2> QED BY <2>2, <2>3
<1>7. Len(waiting) \in Good
  <2> HIDE DEF Good
  <2> QED BY <1>1, <1>5, <1>6, SetInduction
<1>8. rest = [k \in S |-> Rest(rest, k)]
  <2>1. PICK g \in [S -> T] : UpTo(Len(waiting), g)
    BY <1>7
  <2>2. \A k \in S : k <= Len(waiting)
    BY <1>1
  <2>3. g = [k \in S |-> Rest(g, k)]
    BY <2>1, <2>2
  <2> QED BY Zenon, <2>3
<1> HIDE DEF rest
<1> USE DEF T
<1>9. \A k \in Nat : k \in {j \in Nat : j \in S => rest[j] \in T}
  <2> DEFINE Typed == {j \in Nat : j \in S => rest[j] \in T}
  <2>1. 0 \in Typed
    BY <1>1, <1>8 DEF Rest
  <2>2. ASSUME NEW k \in Nat, k \in Typed PROVE k + 1 \in Typed
    <3>1. SUFFICES ASSUME k + 1 \in S PROVE rest[k + 1] \in T
      OBVIOUS
    <3>2. k \in S /\ k + 1 # 0 /\ (k + 1) - 1 = k /\ waiting[k + 1] \in E
      BY <1>1, <3>1
    <3>3. rest[k] \in T
      BY <2>2, <3>2
    <3>4. rest[k + 1] = Rest(rest, k + 1)
      BY <1>8, <3>1
    <3> QED BY <3>2, <3>3, <3>4 DEF Rest
  <2> HIDE DEF Typed
  <2>3. \A k \in Nat : k \in Typed
    BY <2>1, <2>2, SetInduction
  <2> QED BY <2>3 DEF Typed
<1> QED BY <1>1, <1>2, <1>9

-----------------------------------------------------------------------------
(* The operations of a tracker yield trackers, and only clearEnvelopesBelow *)
(* ends a search's entry in mTrackers.                                      *)

LEMMA Constants ==
    /\ MaxSlot \in Nat \ {0} /\ MaxSlots \in Nat \ {0} /\ SlotIndex = 0..MaxSlot + 1
    /\ \A e \in Envelope : /\ Slot[e] \in SlotIndex /\ Slot[e] \in Nat /\ Slot[e] >= 2
                           /\ Needs(e) \in SUBSET Item /\ QSetHash[e] \in Item
                           /\ TxSetHashes[e] \in Seq(Item)
<1>1. /\ MaxSlot \in Nat \ {0} /\ MaxSlots \in Nat \ {0} /\ SlotIndex = 0..MaxSlot + 1
  BY FetchAssumption DEF SlotIndex
<1>2. ASSUME NEW e \in Envelope
      PROVE  /\ Slot[e] \in SlotIndex /\ Slot[e] \in Nat /\ Slot[e] >= 2
             /\ Needs(e) \in SUBSET Item /\ QSetHash[e] \in Item
             /\ TxSetHashes[e] \in Seq(Item)
  <2>1. Slot[e] \in 2..MaxSlot + 1 /\ QSetHash[e] \in QItem /\ TxSetHashes[e] \in Seq(TItem)
    BY FetchAssumption
  <2>2. Slot[e] \in SlotIndex /\ Slot[e] \in Nat /\ Slot[e] >= 2
    BY <1>1, <2>1
  <2>3. \A k \in DOMAIN TxSetHashes[e] : TxSetHashes[e][k] \in TItem
    BY <2>1
  <2>4. Range(TxSetHashes[e]) \in SUBSET TItem
    BY <2>3 DEF Range
  <2>5. TxSetHashes[e] \in Seq(Item)
    BY <2>1 DEF Item
  <2> QED BY <2>1, <2>2, <2>4, <2>5 DEF Needs, Item
<1> QED BY <1>1, <1>2

LEMMA NoTrackerType ==
    NoTracker \in Tracker
BY Constants DEF NoTracker, Tracker

LEMMA ListenType ==
    ASSUME NEW tr \in Tracker, NEW e \in Envelope, NEW times \in Nat
    PROVE  listen(tr, e, times) \in Tracker /\ listen(tr, e, times).exists = tr.exists
<1> DEFINE copies == [k \in 1..times |-> e]
           old == tr.waiting
<1>1. copies \in Seq(Envelope) /\ old \in Seq(Envelope)
  BY DEF Tracker
<1>2. old \o copies \in Seq(Envelope)
  <2> HIDE DEF old, copies
  <2> QED BY <1>1
<1> HIDE DEF copies
<1>3. listen(tr, e, times) = [tr EXCEPT !.waiting = old \o copies,
                                        !.lastSeen = IF Slot[e] > @ THEN Slot[e] ELSE @]
  BY DEF listen, copies
<1>4. (IF Slot[e] > tr.lastSeen THEN Slot[e] ELSE tr.lastSeen) \in SlotIndex
  BY Constants DEF Tracker
<1> HIDE DEF old
<1> QED BY Zenon, <1>2, <1>3, <1>4 DEF Tracker

LEMMA CancelType ==
    ASSUME NEW tr \in Tracker
    PROVE  cancel(tr) \in Tracker /\ cancel(tr).exists = tr.exists
<1>1. 0 \in SlotIndex
  BY Constants
<1> QED BY Zenon, <1>1 DEF cancel, Tracker

LEMMA TryNextPeerType ==
    ASSUME NEW tr \in Tracker, NEW p
    PROVE  tryNextPeer(tr, p) \in Tracker /\ tryNextPeer(tr, p).exists = tr.exists
<1> DEFINE list == IF tr.toAsk = {} /\ tr.last = NoPeer THEN Peer ELSE tr.toAsk
           next == IF p \in list THEN p ELSE CHOOSE q \in list : TRUE
<1>1. list \in SUBSET Peer
  BY DEF Tracker
<1>2. list # {} => next \in list
  <2> HIDE DEF list
  <2> QED OBVIOUS
<1>3. tryNextPeer(tr, p) = IF list = {} THEN [tr EXCEPT !.last = NoPeer, !.timer = TRUE]
                           ELSE [tr EXCEPT !.last = next, !.toAsk = list \ {next}, !.timer = TRUE]
  BY DEF tryNextPeer
<1> HIDE DEF list, next
<1> QED BY Zenon, <1>1, <1>2, <1>3 DEF Tracker

LEMMA FetchType ==
    ASSUME NEW tr \in Tracker, NEW e \in Envelope, NEW times \in Nat, NEW p
    PROVE  fetch(tr, e, times, p) \in Tracker /\ fetch(tr, e, times, p).exists
<1> DEFINE new == [NoTracker EXCEPT !.exists = TRUE]
<1>1. new \in Tracker /\ new.exists
  BY Zenon, NoTrackerType DEF Tracker
<1> HIDE DEF new
<1> DEFINE heard == listen(new, e, times)
<1>2. heard \in Tracker /\ heard.exists
  BY <1>1, ListenType
<1> HIDE DEF heard
<1>3. tryNextPeer(heard, p) \in Tracker /\ tryNextPeer(heard, p).exists
  BY <1>2, TryNextPeerType
<1>4. fetch(tr, e, times, p) = IF tr.exists THEN listen(tr, e, times) ELSE tryNextPeer(heard, p)
  BY DEF fetch, heard, new
<1> QED BY <1>3, <1>4, ListenType

LEMMA StopFetchType ==
    ASSUME NEW tr \in Tracker, NEW gone
    PROVE  stopFetch(tr, gone) \in Tracker /\ stopFetch(tr, gone).exists = tr.exists
<1> DEFINE left == Without(tr.waiting, gone)
           rest == [tr EXCEPT !.waiting = left]
<1>1. left \in Seq(Envelope)
  BY WithoutType DEF Tracker
<1> HIDE DEF left
<1>2. rest \in Tracker /\ rest.exists = tr.exists /\ rest.waiting = left
  BY <1>1 DEF Tracker
<1>3. stopFetch(tr, gone) = IF gone = {} THEN tr
                            ELSE IF tr.exists /\ rest.waiting = <<>> THEN cancel(rest) ELSE rest
  BY DEF stopFetch, left
<1> HIDE DEF rest
<1> QED BY <1>2, <1>3, CancelType

LEMMA ClearType ==
    ASSUME NEW tr \in Tracker, NEW slot
    PROVE  clearEnvelopesBelow(tr, slot) \in Tracker
<1> DEFINE waiting == Without(tr.waiting, {e \in Envelope : Slot[e] < slot})
<1>1. waiting \in Seq(Envelope)
  BY WithoutType DEF Tracker
<1>2. clearEnvelopesBelow(tr, slot) =
        IF waiting = <<>> THEN NoTracker ELSE [tr EXCEPT !.waiting = waiting]
  BY DEF clearEnvelopesBelow
<1> HIDE DEF waiting
<1>3. [tr EXCEPT !.waiting = waiting] \in Tracker
  BY <1>1 DEF Tracker
<1> QED BY <1>2, <1>3, NoTrackerType

-----------------------------------------------------------------------------
(* The operations of the process yield states.  What the invariant below   *)
(* speaks of is in two parts: the books that decide whether SCP gets an    *)
(* envelope, and the searches and loops.                                   *)

SameBooks(s, t) ==
    /\ t.processed = s.processed /\ t.fetching = s.fetching /\ t.ready = s.ready
    /\ t.scp = s.scp /\ t.lastIndex = s.lastIndex

KeepsSearches(s, t) == \A i \in Item : s.tracker[i].exists => t.tracker[i].exists

LEMMA PushType ==
    ASSUME NEW s \in State, NEW loop \in Loop
    PROVE  /\ Push(s, loop) \in State /\ SameBooks(s, Push(s, loop))
           /\ Push(s, loop).tracker = s.tracker
           /\ Push(s, loop).stack = <<loop>> \o s.stack
<1> DEFINE new == <<loop>> \o s.stack
<1>1. new \in Seq(Loop)
  BY DEF State
<1>2. Push(s, loop) = [s EXCEPT !.stack = new]
  BY DEF Push
<1> HIDE DEF new
<1>3. Push(s, loop) \in State /\ Push(s, loop).tracker = s.tracker /\ Push(s, loop).stack = new
  BY Zenon, <1>1, <1>2 DEF State
<1>4. SameBooks(s, Push(s, loop))
  BY <1>2 DEF State, SameBooks
<1> QED BY <1>3, <1>4 DEF new

LEMMA TouchType ==
    ASSUME NEW s \in State, NEW e \in Envelope
    PROVE  /\ touchFetchCache(s, e) \in State /\ SameBooks(s, touchFetchCache(s, e))
           /\ touchFetchCache(s, e).tracker = s.tracker
           /\ touchFetchCache(s, e).stack = s.stack
<1> DEFINE known == {i \in Needs(e) : getKnown(s, i)}
           qsets == s.qsets \cup (known \cap QItem)
           txsets == [i \in TItem |-> IF i \in known /\ Slot[e] > s.txsets[i]
                                       THEN Slot[e] ELSE s.txsets[i]]
           t == touchFetchCache(s, e)
<1>1. qsets \in SUBSET QItem /\ txsets \in [TItem -> SlotIndex \cup {-1}]
  BY Constants DEF State
<1>2. t = [s EXCEPT !.qsets = qsets, !.txsets = txsets]
  BY DEF touchFetchCache
<1> HIDE DEF qsets, txsets, t
<1>3. t \in State
  BY Zenon, <1>1, <1>2 DEF State
<1>4. SameBooks(s, t) /\ t.tracker = s.tracker /\ t.stack = s.stack
  BY <1>2 DEF State, SameBooks
<1> QED BY <1>3, <1>4 DEF t

LEMMA StartFetchType ==
    ASSUME NEW s \in State, NEW e \in Envelope, NEW pick
    PROVE  /\ startFetch(s, e, pick) \in State /\ SameBooks(s, startFetch(s, e, pick))
           /\ KeepsSearches(s, startFetch(s, e, pick))
           /\ startFetch(s, e, pick).stack = s.stack
<1> DEFINE hashes == <<QSetHash[e]>> \o TxSetHashes[e]
           Times(i) == Len(Without(hashes, Item \ {i}))
           After(i) == IF i \in Missing(s, e) THEN fetch(s.tracker[i], e, Times(i), pick[i])
                       ELSE s.tracker[i]
           tracker == [i \in Item |-> After(i)]
           t == startFetch(s, e, pick)
<1>1. ASSUME NEW i PROVE Times(i) \in Nat
  <2>1. hashes \in Seq(Item)
    BY Constants
  <2> HIDE DEF hashes
  <2>2. Without(hashes, Item \ {i}) \in Seq(Item)
    BY <2>1, WithoutType
  <2> QED BY <2>2
<1>2. t = [s EXCEPT !.tracker = tracker]
  BY DEF startFetch
<1> HIDE DEF Times
<1>3. ASSUME NEW i \in Item
      PROVE  s.tracker[i] \in Tracker
  BY DEF State
<1>4. ASSUME NEW i \in Item
      PROVE  After(i) \in Tracker /\ (s.tracker[i].exists => After(i).exists)
  BY <1>1, <1>3, FetchType
<1> HIDE DEF After, t
<1>5. tracker \in [Item -> Tracker]
  BY <1>4
<1>6. t \in State /\ t.tracker = tracker
  <2> HIDE DEF tracker
  <2> QED BY Zenon, <1>2, <1>5 DEF State
<1>7. SameBooks(s, t) /\ t.stack = s.stack
  <2> HIDE DEF tracker
  <2> QED BY <1>2 DEF State, SameBooks
<1>8. KeepsSearches(s, t)
  BY <1>4, <1>6 DEF KeepsSearches
<1> QED BY <1>6, <1>7, <1>8 DEF t

-----------------------------------------------------------------------------
(* The inductive invariant of the process.                                 *)

Within(s, e) == Slot[e] + MaxSlots > s.lastIndex
Done(s, e) == e \in s.processed /\ e \notin s.fetching

(* A loop of ItemFetcher::recv has its tracker. *)
LoopsOK(s) ==
    \A k \in DOMAIN s.stack : s.stack[k].kind = "recv" => s.tracker[s.stack[k].item].exists

(* Whoever makes an envelope ready for a slot that has begun is about to   *)
(* go through the queue that far.                                          *)
QueueOK(s) ==
    readySlots(s, s.lastIndex + 1) # {} =>
        \E k \in DOMAIN s.stack : s.stack[k].kind = "queue" /\ s.stack[k].upTo >= s.lastIndex + 1

(* An envelope that is ready, or that SCP has while its slot is in the     *)
(* window, is on the books as processed and is not being fetched.          *)
ReadyOK(s) ==
    \A k \in SlotIndex :
        /\ IsInjective(s.ready[k])
        /\ \A e \in Range(s.ready[k]) :
              Slot[e] = k /\ Done(s, e) /\ (Within(s, e) => e \notin s.scp)
ScpOK(s) == \A e \in s.scp : Within(s, e) => Done(s, e)

NodeInv(s) == s \in State /\ LoopsOK(s) /\ QueueOK(s) /\ ReadyOK(s) /\ ScpOK(s)

(* A step that leaves the books alone and ends no search, and that begins  *)
(* at most a loop whose tracker exists.                                    *)
LEMMA QuietStep ==
    ASSUME NEW s, NodeInv(s), NEW t \in State, SameBooks(s, t), KeepsSearches(s, t),
           \/ t.stack = s.stack
           \/ \E loop \in Loop : /\ t.stack = <<loop>> \o s.stack
                                 /\ loop.kind = "recv" => t.tracker[loop.item].exists
    PROVE  NodeInv(t)
<1>1. s \in State /\ s.stack \in Seq(Loop)
  BY DEF NodeInv, State
<1>2. ReadyOK(t) /\ ScpOK(t)
  BY DEF NodeInv, ReadyOK, ScpOK, Done, Within, SameBooks
<1>3. readySlots(t, t.lastIndex + 1) = readySlots(s, s.lastIndex + 1) /\ t.lastIndex = s.lastIndex
  BY DEF readySlots, SameBooks
<1>4. ASSUME NEW k \in DOMAIN s.stack, s.stack[k].kind = "recv"
      PROVE  t.tracker[s.stack[k].item].exists
  <2>1. s.stack[k] \in Loop
    BY <1>1
  <2>2. s.stack[k].item \in Item
    BY <1>4, <2>1 DEF Loop
  <2>3. s.tracker[s.stack[k].item].exists
    BY <1>4 DEF NodeInv, LoopsOK
  <2> QED BY <2>2, <2>3 DEF KeepsSearches
<1>5. CASE t.stack = s.stack
  <2>1. LoopsOK(t)
    BY <1>4, <1>5 DEF LoopsOK
  <2>2. QueueOK(t)
    BY <1>3, <1>5 DEF NodeInv, QueueOK
  <2> QED BY <1>2, <2>1, <2>2 DEF NodeInv
<1>6. ASSUME NEW loop \in Loop, t.stack = <<loop>> \o s.stack,
             loop.kind = "recv" => t.tracker[loop.item].exists
      PROVE  NodeInv(t)
  <2>1. /\ DOMAIN t.stack = 1..Len(s.stack) + 1 /\ t.stack[1] = loop
        /\ \A k \in DOMAIN t.stack : k # 1 => k - 1 \in DOMAIN s.stack /\ t.stack[k] = s.stack[k - 1]
        /\ \A k \in DOMAIN s.stack : k + 1 \in DOMAIN t.stack /\ t.stack[k + 1] = s.stack[k]
    BY <1>1, <1>6
  <2>2. LoopsOK(t)
    BY <1>4, <1>6, <2>1 DEF LoopsOK
  <2>3. QueueOK(t)
    BY <1>3, <2>1 DEF NodeInv, QueueOK
  <2> QED BY <1>2, <2>2, <2>3 DEF NodeInv
<1> QED BY Zenon, <1>5, <1>6

(* An envelope that has not been processed is put on hold. *)
LEMMA HoldStep ==
    ASSUME NEW s, NodeInv(s), NEW e \in Envelope, ~Done(s, e)
    PROVE  NodeInv([s EXCEPT !.fetching = @ \cup {e}])
<1> DEFINE t == [s EXCEPT !.fetching = @ \cup {e}]
<1>1. t \in State /\ t.fetching = s.fetching \cup {e}
  BY Zenon DEF NodeInv, State
<1>2. /\ t.processed = s.processed /\ t.ready = s.ready /\ t.scp = s.scp
      /\ t.lastIndex = s.lastIndex /\ t.stack = s.stack /\ t.tracker = s.tracker
  BY DEF NodeInv, State
<1> HIDE DEF t
<1>3. LoopsOK(t) /\ QueueOK(t)
  BY <1>2 DEF NodeInv, LoopsOK, QueueOK, readySlots
<1>4. ReadyOK(t)
  BY <1>1, <1>2 DEF NodeInv, ReadyOK, Done, Within
<1>5. ScpOK(t)
  BY <1>1, <1>2 DEF NodeInv, ScpOK, Done, Within
<1> QED BY <1>1, <1>3, <1>4, <1>5 DEF NodeInv, t

(* What an appended envelope makes of a list without it. *)
LEMMA AppendOnce ==
    ASSUME NEW w \in Seq(Envelope), NEW e \in Envelope, IsInjective(w), e \notin Range(w)
    PROVE  /\ Append(w, e) \in Seq(Envelope) /\ IsInjective(Append(w, e))
           /\ Range(Append(w, e)) = Range(w) \cup {e}
<1> DEFINE v == Append(w, e)
<1>1. /\ v \in Seq(Envelope) /\ DOMAIN v = 1..Len(w) + 1 /\ v[Len(w) + 1] = e
      /\ DOMAIN w = 1..Len(w) /\ Len(w) \in Nat /\ \A k \in 1..Len(w) : v[k] = w[k]
  OBVIOUS
<1> HIDE DEF v
<1>2. Range(v) = Range(w) \cup {e}
  BY <1>1 DEF Range
<1>3. IsInjective(v)
  <2>1. \A k \in 1..Len(w) : w[k] # e
    BY <1>1 DEF Range
  <2>2. \A k \in DOMAIN v : k \in 1..Len(w) \/ k = Len(w) + 1
    BY <1>1
  <2> QED BY <1>1, <2>1, <2>2 DEF IsInjective
<1> QED BY <1>1, <1>2, <1>3 DEF v

(* A complete envelope that was on hold becomes ready, and the queue is    *)
(* looked at.                                                              *)
LEMMA ReadyStep ==
    ASSUME NEW s, NodeInv(s), NEW e \in Envelope, e \in s.fetching
    PROVE  NodeInv(envelopeReady(s, e))
<1> DEFINE w == s.ready[Slot[e]]
           ready == [s.ready EXCEPT ![Slot[e]] = Append(w, e)]
           m == [s EXCEPT !.processed = @ \cup {e}, !.fetching = @ \ {e}, !.ready = ready]
           loop == [kind |-> "queue", upTo |-> s.lastIndex + 1]
           t == envelopeReady(s, e)
<1>1. s \in State /\ s.lastIndex \in 1..MaxSlot /\ s.stack \in Seq(Loop)
  BY DEF NodeInv, State
<1>2. Slot[e] \in SlotIndex /\ loop \in Loop
  <2>1. Slot[e] \in SlotIndex
    BY Constants
  <2>2. s.lastIndex + 1 \in SlotIndex
    BY <1>1, Constants
  <2> QED BY <2>1, <2>2 DEF Loop
<1>3. w \in Seq(Envelope) /\ IsInjective(w) /\ e \notin Range(w)
  BY <1>2 DEF NodeInv, State, ReadyOK, Done
<1> HIDE DEF w
<1>4. /\ Append(w, e) \in Seq(Envelope) /\ IsInjective(Append(w, e))
      /\ Range(Append(w, e)) = Range(w) \cup {e}
  BY <1>3, AppendOnce
<1>5. /\ ready \in [SlotIndex -> Seq(Envelope)] /\ ready[Slot[e]] = Append(w, e)
      /\ \A k \in SlotIndex : k # Slot[e] => ready[k] = s.ready[k]
  BY <1>1, <1>2, <1>4 DEF State
<1>6. t = Push(m, loop)
  BY <1>1 DEF envelopeReady, State, w
<1> HIDE DEF ready
<1>7. /\ m \in State /\ m.processed = s.processed \cup {e} /\ m.fetching = s.fetching \ {e}
      /\ m.ready = ready /\ m.scp = s.scp /\ m.lastIndex = s.lastIndex
      /\ m.stack = s.stack /\ m.tracker = s.tracker
  BY Zenon, <1>1, <1>5 DEF State
<1> HIDE DEF m, t
<1>8. /\ t \in State /\ t.processed = s.processed \cup {e} /\ t.fetching = s.fetching \ {e}
      /\ t.ready = ready /\ t.scp = s.scp /\ t.lastIndex = s.lastIndex
      /\ t.stack = <<loop>> \o s.stack /\ t.tracker = s.tracker
  BY ZenonT(30), <1>2, <1>6, <1>7, PushType DEF SameBooks
<1>9. /\ DOMAIN t.stack = 1..Len(s.stack) + 1 /\ t.stack[1] = loop
      /\ \A k \in DOMAIN t.stack : k # 1 => k - 1 \in DOMAIN s.stack /\ t.stack[k] = s.stack[k - 1]
  BY <1>1, <1>8
<1>10. LoopsOK(t)
  BY <1>8, <1>9 DEF NodeInv, LoopsOK
<1>11. QueueOK(t)
  <2>1. 1 \in DOMAIN t.stack /\ t.stack[1].kind = "queue" /\ t.stack[1].upTo = t.lastIndex + 1
    BY <1>1, <1>8, <1>9
  <2> QED BY <1>1, <1>8, <2>1 DEF QueueOK
<1>12. ASSUME NEW f \in Envelope, Done(s, f) \/ f = e PROVE Done(t, f)
  BY <1>8, <1>12 DEF Done
<1>13. ScpOK(t)
  BY <1>1, <1>8, <1>12 DEF NodeInv, State, ScpOK, Within
<1>14. e \in s.scp => ~Within(s, e)
  BY DEF NodeInv, ScpOK, Done
<1>15. ASSUME NEW k \in SlotIndex
       PROVE  /\ IsInjective(t.ready[k])
              /\ \A f \in Range(t.ready[k]) :
                    Slot[f] = k /\ Done(t, f) /\ (Within(t, f) => f \notin t.scp)
  <2>1. ASSUME NEW f \in Range(s.ready[k])
        PROVE  /\ f \in Envelope /\ Slot[f] = k /\ Done(s, f)
               /\ (Within(s, f) => f \notin s.scp)
    <3>1. s.ready[k] \in Seq(Envelope)
      BY <1>1 DEF State
    <3>2. f \in Envelope
      BY <3>1 DEF Range
    <3> QED BY <3>2 DEF NodeInv, ReadyOK
  <2>2. CASE k # Slot[e]
    <3>1. t.ready[k] = s.ready[k] /\ IsInjective(s.ready[k])
      BY <1>5, <1>8, <2>2 DEF NodeInv, ReadyOK
    <3> QED BY <1>8, <1>12, <2>1, <3>1 DEF Within
  <2>3. CASE k = Slot[e]
    <3>1. IsInjective(t.ready[k]) /\ Range(t.ready[k]) = Range(s.ready[k]) \cup {e}
      BY Zenon, <1>4, <1>5, <1>8, <2>3 DEF w
    <3> QED BY <1>8, <1>12, <1>14, <2>1, <2>3, <3>1 DEF Within
  <2> QED BY <2>2, <2>3
<1>16. ReadyOK(t)
  BY <1>15 DEF ReadyOK
<1> QED BY <1>8, <1>10, <1>11, <1>13, <1>16 DEF NodeInv, t

(* recvSCPEnvelope, whoever sends the envelope: an envelope that is on the *)
(* books as processed is not taken again.                                  *)
LEMMA EnvelopeStep ==
    ASSUME NEW s, NodeInv(s), NEW e \in Envelope, NEW members, NEW pick
    PROVE  NodeInv(recvSCPEnvelope(s, members, e, pick))
<1> DEFINE t == touchFetchCache(s, e)
           u == [t EXCEPT !.fetching = @ \cup {e}]
           f == IF e \in t.fetching THEN t ELSE startFetch(u, e, pick)
<1>1. s \in State
  BY DEF NodeInv
<1>2. t \in State /\ SameBooks(s, t) /\ t.tracker = s.tracker /\ t.stack = s.stack
  BY <1>1, TouchType
<1>3. recvSCPEnvelope(s, members, e, pick) =
        IF Slot[e] < MinSlot(s) \/ Sender[e] \notin members \/ e \in s.discarded THEN s
        ELSE IF e \in s.processed /\ e \notin s.fetching THEN t
        ELSE IF isFullyFetched(f, e) THEN envelopeReady(f, e) ELSE f
  BY DEF recvSCPEnvelope
<1> HIDE DEF t
<1>4. NodeInv(t)
  <2>1. KeepsSearches(s, t)
    BY <1>2 DEF KeepsSearches
  <2> QED BY <1>2, <2>1, QuietStep
<1>5. ASSUME ~(e \in s.processed /\ e \notin s.fetching)
      PROVE  NodeInv(f) /\ e \in f.fetching
  <2>1. CASE e \in t.fetching
    BY <1>4, <2>1
  <2>2. CASE e \notin t.fetching
    <3>1. ~Done(t, e)
      BY <1>2, <1>5 DEF Done, SameBooks
    <3>2. u.fetching = t.fetching \cup {e}
      BY <1>2 DEF State
    <3>3. NodeInv(u)
      BY <1>4, <3>1, HoldStep
    <3> HIDE DEF u
    <3>4. u \in State
      BY <3>3 DEF NodeInv
    <3> DEFINE g == startFetch(u, e, pick)
    <3>5. g \in State /\ SameBooks(u, g) /\ KeepsSearches(u, g) /\ g.stack = u.stack
      BY <3>4, StartFetchType
    <3> HIDE DEF g
    <3>6. NodeInv(g) /\ e \in g.fetching
      BY ZenonT(30), <3>2, <3>3, <3>5, QuietStep DEF SameBooks
    <3> QED BY <2>2, <3>6 DEF g
  <2> QED BY <2>1, <2>2
<1> HIDE DEF f
<1>6. ASSUME ~(e \in s.processed /\ e \notin s.fetching)
      PROVE  NodeInv(f) /\ NodeInv(envelopeReady(f, e))
  BY <1>5, <1>6, ReadyStep
<1> QED BY <1>3, <1>4, <1>6

(* The envelopes that wait for a bad quorum set are discarded. *)
LEMMA DiscardStep ==
    ASSUME NEW s, NodeInv(s), NEW q \in Item
    PROVE  NodeInv(discardSCPEnvelopesWithQSet(s, q))
<1> DEFINE bad == Range(s.tracker[q].waiting) \ s.discarded
           Gone(i) == {e \in bad : i \in Needs(e)}
           tracker == [i \in Item |-> stopFetch(s.tracker[i], Gone(i))]
           t == discardSCPEnvelopesWithQSet(s, q)
<1>1. s \in State /\ s.tracker \in [Item -> Tracker]
  BY DEF NodeInv, State
<1>2. bad \in SUBSET Envelope
  <2>1. s.tracker[q].waiting \in Seq(Envelope)
    BY <1>1 DEF Tracker
  <2>2. Range(s.tracker[q].waiting) \in SUBSET Envelope
    BY <2>1 DEF Range
  <2> QED BY <2>2
<1>3. t = [s EXCEPT !.discarded = @ \cup bad, !.fetching = @ \ bad, !.tracker = tracker]
  BY DEF discardSCPEnvelopesWithQSet
<1> HIDE DEF bad, Gone, t
<1>4. ASSUME NEW i \in Item
      PROVE  /\ stopFetch(s.tracker[i], Gone(i)) \in Tracker
             /\ stopFetch(s.tracker[i], Gone(i)).exists = s.tracker[i].exists
  BY <1>1, StopFetchType
<1>5. /\ tracker \in [Item -> Tracker]
      /\ \A i \in Item : tracker[i].exists = s.tracker[i].exists
  BY <1>4
<1> HIDE DEF tracker
<1>6. /\ t \in State /\ t.processed = s.processed /\ t.fetching = s.fetching \ bad
      /\ t.ready = s.ready /\ t.scp = s.scp /\ t.lastIndex = s.lastIndex
      /\ t.stack = s.stack /\ t.tracker = tracker
  BY Zenon, <1>1, <1>2, <1>3, <1>5 DEF State
<1>7. QueueOK(t)
  BY <1>6 DEF NodeInv, QueueOK, readySlots
<1>8. LoopsOK(t)
  <2>1. ASSUME NEW k \in DOMAIN s.stack, s.stack[k].kind = "recv"
        PROVE  tracker[s.stack[k].item].exists
    <3>1. s.stack[k] \in Loop /\ s.tracker[s.stack[k].item].exists
      BY <1>1, <2>1 DEF NodeInv, LoopsOK, State
    <3>2. s.stack[k].item \in Item
      BY <2>1, <3>1 DEF Loop
    <3> QED BY <1>5, <3>1, <3>2
  <2> QED BY <1>6, <2>1 DEF LoopsOK
<1>9. ReadyOK(t) /\ ScpOK(t)
  BY <1>6 DEF NodeInv, ReadyOK, ScpOK, Done, Within
<1> QED BY <1>6, <1>7, <1>8, <1>9 DEF NodeInv, t

(* ItemFetcher::recv begins its loop when there is a tracker. *)
LEMMA RecvStep ==
    ASSUME NEW s, NodeInv(s), NEW i \in Item
    PROVE  NodeInv(recv(s, i))
<1> DEFINE loop == [kind |-> "recv", item |-> i]
           t == Push(s, loop)
<1>1. s \in State /\ loop \in Loop
  BY DEF NodeInv, Loop
<1> HIDE DEF loop
<1>2. t \in State /\ SameBooks(s, t) /\ t.tracker = s.tracker /\ t.stack = <<loop>> \o s.stack
  BY <1>1, PushType
<1> HIDE DEF t
<1>3. ASSUME s.tracker[i].exists PROVE NodeInv(t)
  <2>1. KeepsSearches(s, t) /\ (loop.kind = "recv" => t.tracker[loop.item].exists)
    BY <1>2, <1>3 DEF KeepsSearches, loop
  <2> QED BY <1>1, <1>2, <2>1, QuietStep
<1> QED BY <1>3 DEF recv, t, loop

LEMMA AddTxSetStep ==
    ASSUME NEW s, NodeInv(s), NEW i \in TItem, NEW slot \in SlotIndex
    PROVE  NodeInv(addTxSet(s, i, slot))
<1> DEFINE txsets == [s.txsets EXCEPT ![i] = IF slot > @ THEN slot ELSE @]
           t == putTxSet(s, i, slot)
<1>1. s \in State /\ i \in Item
  BY DEF NodeInv, Item
<1>2. txsets \in [TItem -> SlotIndex \cup {-1}]
  BY <1>1 DEF State
<1>3. t = [s EXCEPT !.txsets = txsets]
  BY <1>1 DEF putTxSet, State
<1> HIDE DEF txsets, t
<1>4. t \in State /\ SameBooks(s, t) /\ t.tracker = s.tracker /\ t.stack = s.stack
  BY Zenon, <1>1, <1>2, <1>3 DEF State, SameBooks
<1>5. NodeInv(t)
  <2>1. KeepsSearches(s, t)
    BY <1>4 DEF KeepsSearches
  <2> QED BY <1>4, <2>1, QuietStep
<1> QED BY <1>1, <1>5, RecvStep DEF addTxSet, t

LEMMA AddQSetStep ==
    ASSUME NEW s, NodeInv(s), NEW i \in QItem
    PROVE  NodeInv(addSCPQuorumSet(s, i))
<1> DEFINE t == [s EXCEPT !.qsets = @ \cup {i}]
<1>1. s \in State /\ i \in Item
  BY DEF NodeInv, Item
<1>2. t \in State /\ SameBooks(s, t) /\ t.tracker = s.tracker /\ t.stack = s.stack
  BY Zenon, <1>1 DEF State, SameBooks
<1>3. addSCPQuorumSet(s, i) = recv(t, i)
  BY DEF addSCPQuorumSet
<1> HIDE DEF t
<1>4. NodeInv(t)
  <2>1. KeepsSearches(s, t)
    BY <1>2 DEF KeepsSearches
  <2> QED BY <1>2, <2>1, QuietStep
<1> QED BY <1>1, <1>3, <1>4, RecvStep

(* An answer: a transaction set, a quorum set, or one that is not sane. *)
LEMMA ItemStep ==
    ASSUME NEW s, NodeInv(s), NEW i \in Item
    PROVE  NodeInv(recvItem(s, i))
<1> DEFINE seen == s.tracker[i].lastSeen
<1>1. seen \in SlotIndex
  BY DEF NodeInv, State, Tracker
<1>2. i \in TItem \/ i \in Sane \/ i \in QItem \ Sane
  BY DEF Item
<1>3. Sane \subseteq QItem /\ QItem \cap TItem = {}
  BY FetchAssumption
<1>4. CASE seen = 0
  <2>1. recvItem(s, i) = s
    BY <1>4 DEF recvItem
  <2> QED BY <2>1
<1>5. CASE seen # 0 /\ i \in TItem
  <2>1. recvItem(s, i) = addTxSet(s, i, seen)
    BY <1>3, <1>5 DEF recvItem
  <2> QED BY <1>1, <1>5, <2>1, AddTxSetStep
<1>6. CASE seen # 0 /\ i \in Sane
  <2>1. recvItem(s, i) = addSCPQuorumSet(s, i)
    BY <1>3, <1>6 DEF recvItem
  <2> QED BY <1>3, <1>6, <2>1, AddQSetStep
<1>7. CASE seen # 0 /\ i \in QItem \ Sane
  <2>1. recvItem(s, i) = discardSCPEnvelopesWithQSet(s, i)
    BY <1>3, <1>7 DEF recvItem
  <2> QED BY <2>1, DiscardStep
<1> QED BY <1>2, <1>4, <1>5, <1>6, <1>7

-----------------------------------------------------------------------------
(* The window moves: what is forgotten belongs to slots outside it.        *)

LEMMA ForgetType ==
    ASSUME NEW s \in State, NEW slots
    PROVE  LET t == Forget(s, slots)
           IN  /\ t \in State
               /\ \A e \in Envelope : Slot[e] \notin slots /\ Done(s, e) => Done(t, e)
               /\ t.ready = [k \in SlotIndex |-> IF k \in slots THEN <<>> ELSE s.ready[k]]
               /\ t.scp = s.scp /\ t.lastIndex = s.lastIndex /\ t.stack = s.stack
               /\ t.tracker = s.tracker /\ t.posted = s.posted
<1> DEFINE gone == {e \in Envelope : Slot[e] \in slots}
           ready == [k \in SlotIndex |-> IF k \in slots THEN <<>> ELSE s.ready[k]]
           t == Forget(s, slots)
<1>1. ready \in [SlotIndex -> Seq(Envelope)]
  BY DEF State
<1>2. t = [s EXCEPT !.discarded = @ \ gone, !.processed = @ \ gone, !.fetching = @ \ gone,
                    !.ready = ready]
  BY DEF Forget
<1>3. \A e \in Envelope : e \in gone <=> Slot[e] \in slots
  OBVIOUS
<1> HIDE DEF gone, ready, t
<1>4. /\ t \in State /\ t.processed = s.processed \ gone /\ t.fetching = s.fetching \ gone
      /\ t.ready = ready /\ t.scp = s.scp /\ t.lastIndex = s.lastIndex /\ t.stack = s.stack
      /\ t.tracker = s.tracker /\ t.posted = s.posted
  BY Zenon, <1>1, <1>2 DEF State
<1>5. \A e \in Envelope : Slot[e] \notin slots /\ Done(s, e) => Done(t, e)
  BY <1>3, <1>4 DEF Done
<1> QED BY <1>4, <1>5 DEF t, ready

LEMMA DropTxSetsType ==
    ASSUME NEW s \in State, NEW slots
    PROVE  LET t == DropTxSets(s, slots)
           IN  /\ t \in State /\ SameBooks(s, t) /\ t.stack = s.stack
               /\ t.tracker = s.tracker /\ t.posted = s.posted
<1> DEFINE txsets == [i \in TItem |-> IF s.txsets[i] \in slots THEN -1 ELSE s.txsets[i]]
           t == DropTxSets(s, slots)
<1>1. txsets \in [TItem -> SlotIndex \cup {-1}]
  BY DEF State
<1>2. t = [s EXCEPT !.txsets = txsets]
  BY DEF DropTxSets
<1> HIDE DEF txsets, t
<1>3. /\ t \in State /\ SameBooks(s, t) /\ t.stack = s.stack
      /\ t.tracker = s.tracker /\ t.posted = s.posted
  BY Zenon, <1>1, <1>2 DEF State, SameBooks
<1> QED BY <1>3 DEF t

(* t is s after the slots in "slots" were forgotten. *)
Forgot(s, t, slots) ==
    /\ t \in State
    /\ \A e \in Envelope : Slot[e] \notin slots /\ Done(s, e) => Done(t, e)
    /\ \A k \in SlotIndex : t.ready[k] = IF k \in slots THEN <<>> ELSE s.ready[k]
    /\ t.scp \subseteq s.scp
    /\ t.lastIndex = s.lastIndex /\ t.stack = s.stack /\ t.tracker = s.tracker

LEMMA EraseBelowForgets ==
    ASSUME NEW s \in State, NEW slot \in Nat
    PROVE  Forgot(s, eraseBelow(s, slot), 0..slot - 1)
<1> DEFINE a == Forget(s, 0..slot - 1)
           b == DropTxSets(a, 1..slot - 1)
           kept == {e \in b.scp : Slot[e] >= slot}
           t == eraseBelow(s, slot)
<1>1. /\ a \in State
      /\ \A e \in Envelope : Slot[e] \notin 0..slot - 1 /\ Done(s, e) => Done(a, e)
      /\ a.ready = [k \in SlotIndex |-> IF k \in 0..slot - 1 THEN <<>> ELSE s.ready[k]]
      /\ a.scp = s.scp /\ a.lastIndex = s.lastIndex /\ a.stack = s.stack
      /\ a.tracker = s.tracker /\ a.posted = s.posted
  BY ForgetType
<1>2. t = [b EXCEPT !.scp = kept]
  BY DEF eraseBelow
<1> HIDE DEF a
<1>3. b \in State /\ SameBooks(a, b) /\ b.stack = a.stack /\ b.tracker = a.tracker
  BY <1>1, DropTxSetsType
<1> HIDE DEF b
<1>4. kept \subseteq b.scp
  OBVIOUS
<1> HIDE DEF kept, t
<1>5. /\ t \in State /\ t.processed = b.processed /\ t.fetching = b.fetching
      /\ t.ready = b.ready /\ t.scp = kept /\ t.lastIndex = b.lastIndex
      /\ t.stack = b.stack /\ t.tracker = b.tracker
  BY ZenonT(30), <1>2, <1>3, <1>4 DEF State
<1>6. \A e \in Envelope : Done(a, e) => Done(t, e)
  BY <1>3, <1>5 DEF Done, SameBooks
<1>7. t.ready = a.ready /\ t.scp \subseteq s.scp /\ t.lastIndex = s.lastIndex
  BY <1>1, <1>3, <1>4, <1>5 DEF SameBooks
<1>8. t.stack = s.stack /\ t.tracker = s.tracker
  BY <1>1, <1>3, <1>5
<1>9. Forgot(s, t, 0..slot - 1)
  BY <1>1, <1>5, <1>6, <1>7, <1>8 DEF Forgot
<1> QED BY <1>9 DEF t

LEMMA SlotClosedForgets ==
    ASSUME NEW s \in State, NEW slot \in Nat, slot + 1 \in SlotIndex
    PROVE  Forgot(s, slotClosed(s, slot), {slot})
<1> DEFINE a == Forget(s, {slot})
           b == DropTxSets(a, {slot})
           t == slotClosed(s, slot)
<1>1. /\ a \in State
      /\ \A e \in Envelope : Slot[e] \notin {slot} /\ Done(s, e) => Done(a, e)
      /\ a.ready = [k \in SlotIndex |-> IF k \in {slot} THEN <<>> ELSE s.ready[k]]
      /\ a.scp = s.scp /\ a.lastIndex = s.lastIndex /\ a.stack = s.stack
      /\ a.tracker = s.tracker /\ a.posted = s.posted
  BY ForgetType
<1>2. t = [b EXCEPT !.posted = @ \cup {slot + 1}]
  BY DEF slotClosed
<1> HIDE DEF a
<1>3. b \in State /\ SameBooks(a, b) /\ b.stack = a.stack /\ b.tracker = a.tracker
  BY <1>1, DropTxSetsType
<1> HIDE DEF b, t
<1>4. /\ t \in State /\ SameBooks(b, t) /\ t.stack = b.stack /\ t.tracker = b.tracker
  BY ZenonT(30), <1>2, <1>3 DEF State, SameBooks
<1>5. \A e \in Envelope : Done(a, e) => Done(t, e)
  BY <1>3, <1>4 DEF Done, SameBooks
<1>6. t.ready = a.ready /\ t.scp = s.scp /\ t.lastIndex = s.lastIndex
  BY <1>1, <1>3, <1>4 DEF SameBooks
<1>7. Forgot(s, t, {slot})
  BY <1>1, <1>3, <1>4, <1>5, <1>6 DEF Forgot
<1> QED BY <1>7 DEF t

(* The next slot begins: its books are those of the slots that stay in     *)
(* the window.                                                             *)
LEMMA NextSlotForgets ==
    ASSUME NEW s \in State, s.lastIndex + 1 <= MaxSlot
    PROVE  /\ NextSlot(s) \in State /\ NextSlot(s).lastIndex = s.lastIndex + 1
           /\ NextSlot(s).stack = s.stack /\ NextSlot(s).tracker = s.tracker
           /\ NextSlot(s).scp \subseteq s.scp
           /\ \A e \in Envelope : Within(NextSlot(s), e) /\ Done(s, e) => Done(NextSlot(s), e)
           /\ \A k \in SlotIndex : \/ NextSlot(s).ready[k] = <<>>
                                   \/ /\ NextSlot(s).ready[k] = s.ready[k]
                                      /\ \A e \in Envelope : Slot[e] = k /\ Done(s, e) =>
                                                                Done(NextSlot(s), e)
<1> DEFINE slot == s.lastIndex + 1
           d == slot - MaxSlots
           t == [s EXCEPT !.lastIndex = slot, !.trigger = TRUE]
           a == eraseBelow(t, d)
           b == slotClosed(a, d)
           r == NextSlot(s)
<1>1. slot \in 1..MaxSlot /\ MaxSlots \in Nat \ {0} /\ MaxSlot \in Nat
  BY Constants DEF State
<1>2. r = IF slot > MaxSlots THEN b ELSE t
  BY DEF NextSlot
<1> HIDE DEF slot, r
<1>3. /\ t \in State /\ t.lastIndex = slot /\ t.stack = s.stack /\ t.tracker = s.tracker
      /\ t.scp = s.scp /\ t.ready = s.ready /\ t.processed = s.processed
      /\ t.fetching = s.fetching
  BY Zenon, <1>1 DEF State
<1>4. \A e \in Envelope : Done(s, e) => Done(t, e)
  BY <1>3 DEF Done
<1> HIDE DEF t
<1>5. CASE slot <= MaxSlots
  <2>1. r = t
    BY <1>1, <1>2, <1>5
  <2> QED BY <1>3, <1>4, <2>1 DEF slot, r
<1>6. CASE slot > MaxSlots
  <2>1. d \in Nat /\ d + 1 \in SlotIndex
    BY <1>1, <1>6, Constants
  <2> HIDE DEF d
  <2>2. Forgot(t, a, 0..d - 1)
    BY <1>3, <2>1, EraseBelowForgets
  <2> HIDE DEF a
  <2>3. a \in State
    BY <2>2 DEF Forgot
  <2>4. Forgot(a, b, {d})
    BY <2>1, <2>3, SlotClosedForgets
  <2> HIDE DEF b
  <2>5. r = b
    BY <1>2, <1>6
  <2>6. ASSUME NEW e \in Envelope, Slot[e] > d, Done(s, e) PROVE Done(b, e)
    <3>1. Slot[e] \in Nat
      BY Constants
    <3>2. Slot[e] \notin 0..d - 1 /\ Slot[e] \notin {d}
      BY <2>1, <2>6, <3>1
    <3> QED BY <1>4, <2>2, <2>4, <2>6, <3>2 DEF Forgot
  <2>7. ASSUME NEW k \in SlotIndex
        PROVE  \/ b.ready[k] = <<>>
               \/ b.ready[k] = s.ready[k] /\ k > d
    <3>1. k \in Nat
      BY Constants
    <3>2. k \in 0..d - 1 \/ k \in {d} \/ k > d
      BY <2>1, <3>1
    <3>3. b.ready[k] = IF k \in {d} THEN <<>> ELSE a.ready[k]
      BY <2>4 DEF Forgot
    <3>4. a.ready[k] = IF k \in 0..d - 1 THEN <<>> ELSE s.ready[k]
      BY <1>3, <2>2 DEF Forgot
    <3> QED BY <3>2, <3>3, <3>4
  <2>8. /\ b \in State /\ b.lastIndex = slot /\ b.stack = s.stack /\ b.tracker = s.tracker
        /\ b.scp \subseteq s.scp
    BY <1>3, <2>2, <2>4 DEF Forgot
  <2>9. \A e \in Envelope : Within(b, e) => Slot[e] > d
    BY <1>1, <2>8, Constants DEF Within, d
  <2>10. \A e \in Envelope : Within(b, e) /\ Done(s, e) => Done(b, e)
    BY <2>6, <2>9
  <2>11. \A k \in SlotIndex : \/ b.ready[k] = <<>>
                              \/ /\ b.ready[k] = s.ready[k]
                                 /\ \A e \in Envelope : Slot[e] = k /\ Done(s, e) => Done(b, e)
    BY <2>6, <2>7
  <2> QED BY <2>5, <2>8, <2>10, <2>11 DEF slot, r
<1> QED BY <1>1, <1>5, <1>6

(* SCP externalizes the next slot. *)
LEMMA ExternalizeStep ==
    ASSUME NEW s, NodeInv(s), s.lastIndex + 1 <= MaxSlot
    PROVE  NodeInv(valueExternalized(s))
<1> DEFINE n == NextSlot(s)
           loop == [kind |-> "queue", upTo |-> s.lastIndex + 2]
           t == Push(n, loop)
<1>1. s \in State /\ s.lastIndex \in 1..MaxSlot /\ s.stack \in Seq(Loop)
  BY DEF NodeInv, State
<1>2. loop \in Loop
  <2>1. s.lastIndex + 2 \in SlotIndex
    BY <1>1, Constants
  <2> QED BY <2>1 DEF Loop
<1>3. /\ n \in State /\ n.lastIndex = s.lastIndex + 1 /\ n.stack = s.stack
      /\ n.tracker = s.tracker /\ n.scp \subseteq s.scp
      /\ \A e \in Envelope : Within(n, e) /\ Done(s, e) => Done(n, e)
      /\ \A k \in SlotIndex : \/ n.ready[k] = <<>>
                              \/ /\ n.ready[k] = s.ready[k]
                                 /\ \A e \in Envelope : Slot[e] = k /\ Done(s, e) => Done(n, e)
  BY <1>1, NextSlotForgets
<1>4. valueExternalized(s) = t
  BY DEF valueExternalized
<1> HIDE DEF n
<1>5. t \in State /\ SameBooks(n, t) /\ t.tracker = s.tracker /\ t.stack = <<loop>> \o s.stack
  BY ZenonT(30), <1>2, <1>3, PushType
<1> HIDE DEF t
<1>6. /\ DOMAIN t.stack = 1..Len(s.stack) + 1 /\ t.stack[1] = loop
      /\ \A k \in DOMAIN t.stack : k # 1 => k - 1 \in DOMAIN s.stack /\ t.stack[k] = s.stack[k - 1]
  BY <1>1, <1>5
<1>7. LoopsOK(t)
  BY <1>5, <1>6 DEF NodeInv, LoopsOK
<1>8. QueueOK(t)
  <2>1. t.lastIndex = s.lastIndex + 1
    BY <1>3, <1>5 DEF SameBooks
  <2>2. 1 \in DOMAIN t.stack /\ t.stack[1].kind = "queue" /\ t.stack[1].upTo >= t.lastIndex + 1
    BY <1>1, <1>6, <2>1
  <2> QED BY <2>2 DEF QueueOK
<1>9. \A e \in Envelope : /\ Within(t, e) => Within(s, e)
                         /\ Within(t, e) = Within(n, e) /\ Done(t, e) = Done(n, e)
  BY <1>1, <1>3, <1>5, Constants DEF Within, Done, SameBooks
<1>10. ScpOK(t)
  <2>1. \A e \in t.scp : e \in s.scp /\ e \in Envelope
    BY <1>1, <1>3, <1>5 DEF SameBooks, State
  <2> QED BY <1>3, <1>9, <2>1 DEF NodeInv, ScpOK
<1>11. ASSUME NEW k \in SlotIndex
       PROVE  /\ IsInjective(t.ready[k])
              /\ \A e \in Range(t.ready[k]) :
                    Slot[e] = k /\ Done(t, e) /\ (Within(t, e) => e \notin t.scp)
  <2>1. t.ready[k] = n.ready[k] /\ t.scp \subseteq s.scp
    BY <1>3, <1>5 DEF SameBooks
  <2>2. CASE n.ready[k] = <<>>
    BY <2>1, <2>2 DEF IsInjective, Range
  <2>3. CASE /\ n.ready[k] = s.ready[k]
             /\ \A e \in Envelope : Slot[e] = k /\ Done(s, e) => Done(n, e)
    <3>1. s.ready[k] \in Seq(Envelope)
      BY <1>1 DEF State
    <3>2. \A e \in Range(s.ready[k]) : e \in Envelope
      BY <3>1 DEF Range
    <3>3. /\ IsInjective(s.ready[k])
          /\ \A e \in Range(s.ready[k]) :
                Slot[e] = k /\ Done(s, e) /\ (Within(s, e) => e \notin s.scp)
      BY DEF NodeInv, ReadyOK
    <3> QED BY <1>9, <2>1, <2>3, <3>2, <3>3
  <2> QED BY <1>3, <2>2, <2>3
<1>12. ReadyOK(t)
  BY <1>11 DEF ReadyOK
<1> QED BY <1>4, <1>5, <1>7, <1>8, <1>10, <1>12 DEF NodeInv

(* A list without its last envelope. *)
LEMMA PoppedOnce ==
    ASSUME NEW w \in Seq(Envelope), w # <<>>
    PROVE  /\ pop_back(w) \in Seq(Envelope) /\ back(w) \in Envelope /\ back(w) \in Range(w)
           /\ Range(pop_back(w)) \subseteq Range(w)
           /\ IsInjective(w) => IsInjective(pop_back(w)) /\ back(w) \notin Range(pop_back(w))
<1> DEFINE v == pop_back(w)
<1>1. Len(w) \in Nat \ {0} /\ DOMAIN w = 1..Len(w)
  OBVIOUS
<1>2. /\ v \in Seq(Envelope) /\ DOMAIN v = 1..Len(w) - 1
      /\ \A k \in DOMAIN v : v[k] = w[k]
  BY <1>1 DEF pop_back
<1>3. back(w) = w[Len(w)]
  BY DEF back
<1> HIDE DEF v
<1>4. back(w) \in Envelope /\ back(w) \in Range(w)
  BY <1>1, <1>3 DEF Range
<1>5. Range(v) \subseteq Range(w)
  BY <1>1, <1>2 DEF Range
<1>6. ASSUME IsInjective(w) PROVE IsInjective(v) /\ back(w) \notin Range(v)
  <2>1. \A k \in DOMAIN v : k \in DOMAIN w /\ k # Len(w)
    BY <1>1, <1>2
  <2>2. IsInjective(v)
    BY <1>2, <1>6, <2>1 DEF IsInjective
  <2>3. \A k \in DOMAIN v : v[k] # w[Len(w)]
    BY <1>1, <1>2, <1>6, <2>1 DEF IsInjective
  <2> QED BY <1>3, <2>2, <2>3 DEF Range
<1> QED BY <1>2, <1>4, <1>5, <1>6 DEF v

(* SCP is given the last ready envelope of a slot. *)
LEMMA TakeStep ==
    ASSUME NEW s, NodeInv(s), NEW k \in SlotIndex, s.ready[k] # <<>>
    PROVE  LET t == [s EXCEPT !.ready[k] = pop_back(@), !.scp = @ \cup {back(s.ready[k])}]
           IN  NodeInv(t) /\ t.lastIndex = s.lastIndex
<1> DEFINE w == s.ready[k]
           e == back(w)
           ready == [s.ready EXCEPT ![k] = pop_back(w)]
           t == [s EXCEPT !.ready[k] = pop_back(@), !.scp = @ \cup {back(s.ready[k])}]
<1>1. s \in State /\ w \in Seq(Envelope) /\ w # <<>> /\ IsInjective(w)
  BY DEF NodeInv, State, ReadyOK
<1>2. t = [s EXCEPT !.ready = ready, !.scp = @ \cup {e}]
  BY <1>1 DEF State
<1>3. Slot[e] = k /\ Done(s, e)
  <2>1. e \in Range(w)
    <3> HIDE DEF w
    <3> QED BY <1>1, PoppedOnce
  <2> QED BY <2>1 DEF NodeInv, ReadyOK
<1> HIDE DEF w, t
<1>4. /\ pop_back(w) \in Seq(Envelope) /\ e \in Envelope
      /\ Range(pop_back(w)) \subseteq Range(w)
      /\ IsInjective(pop_back(w)) /\ e \notin Range(pop_back(w))
  BY <1>1, PoppedOnce
<1> HIDE DEF e
<1>5. /\ ready \in [SlotIndex -> Seq(Envelope)] /\ ready[k] = pop_back(w)
      /\ \A j \in SlotIndex : j # k => ready[j] = s.ready[j]
  BY <1>1, <1>4 DEF State
<1> HIDE DEF ready
<1>6. /\ t \in State /\ t.processed = s.processed /\ t.fetching = s.fetching
      /\ t.ready = ready /\ t.scp = s.scp \cup {e} /\ t.lastIndex = s.lastIndex
      /\ t.stack = s.stack /\ t.tracker = s.tracker
  BY Zenon, <1>1, <1>2, <1>4, <1>5 DEF State
<1>7. LoopsOK(t)
  BY <1>6 DEF NodeInv, LoopsOK
<1>8. QueueOK(t)
  <2>1. readySlots(t, t.lastIndex + 1) \subseteq readySlots(s, s.lastIndex + 1)
    BY <1>5, <1>6 DEF readySlots
  <2> QED BY <1>6, <2>1 DEF NodeInv, QueueOK
<1>9. ScpOK(t)
  BY <1>3, <1>6 DEF NodeInv, ScpOK, Done, Within
<1>10. ASSUME NEW j \in SlotIndex
       PROVE  /\ IsInjective(t.ready[j])
              /\ \A f \in Range(t.ready[j]) :
                    Slot[f] = j /\ Done(t, f) /\ (Within(t, f) => f \notin t.scp)
  <2>1. /\ IsInjective(s.ready[j])
        /\ \A f \in Range(s.ready[j]) :
              Slot[f] = j /\ Done(s, f) /\ (Within(s, f) => f \notin s.scp)
    BY DEF NodeInv, ReadyOK
  <2>2. IsInjective(t.ready[j]) /\ Range(t.ready[j]) \subseteq Range(s.ready[j])
    BY <1>4, <1>5, <1>6, <2>1 DEF w
  <2>3. e \notin Range(t.ready[j])
    <3>1. CASE j = k
      BY <1>4, <1>5, <1>6, <3>1
    <3>2. CASE j # k
      BY <1>3, <2>1, <2>2, <3>2
    <3> QED BY <3>1, <3>2
  <2> QED BY <1>6, <2>1, <2>2, <2>3 DEF Done, Within
<1>11. ReadyOK(t)
  BY <1>10 DEF ReadyOK
<1> QED BY <1>6, <1>7, <1>8, <1>9, <1>11 DEF NodeInv, t

(* A loop ends.  One through the queue ends when nothing is ready as far   *)
(* as it looks.                                                            *)
LEMMA LoopEnds ==
    ASSUME NEW s, NodeInv(s), s.stack # <<>>, NEW t \in State, SameBooks(s, t),
           KeepsSearches(s, t), t.stack = Tail(s.stack),
           \/ Head(s.stack).kind = "recv"
           \/ readySlots(s, Head(s.stack).upTo) = {}
    PROVE  NodeInv(t)
<1> DEFINE st == s.stack
<1>1. s \in State /\ st \in Seq(Loop) /\ st # <<>> /\ s.lastIndex \in Nat
  BY DEF NodeInv, State
<1>2. t.stack = Tail(st)
  OBVIOUS
<1>3. st[1] = Head(st) /\ st[1] \in Loop
  BY <1>1
<1> HIDE DEF st
<1>4. /\ \A k \in DOMAIN t.stack : k + 1 \in DOMAIN st /\ t.stack[k] = st[k + 1]
      /\ \A k \in DOMAIN st : k # 1 => k - 1 \in DOMAIN t.stack /\ t.stack[k - 1] = st[k]
  <2> DEFINE rest == Tail(st)
  <2>1. /\ rest \in Seq(Loop) /\ Len(rest) = Len(st) - 1 /\ Len(st) \in Nat \ {0}
        /\ \A k \in 1..Len(rest) : rest[k] = st[k + 1]
    BY <1>1, SeqTail
  <2>2. DOMAIN st = 1..Len(st) /\ DOMAIN rest = 1..Len(rest)
    BY <1>1, <2>1
  <2> HIDE DEF rest
  <2>3. \A k \in DOMAIN rest : k + 1 \in DOMAIN st /\ rest[k] = st[k + 1]
    BY <2>1, <2>2
  <2>4. ASSUME NEW k \in DOMAIN st, k # 1
        PROVE  k - 1 \in DOMAIN rest /\ rest[k - 1] = st[k]
    <3>1. k - 1 \in 1..Len(rest) /\ (k - 1) + 1 = k
      BY <2>1, <2>2, <2>4
    <3> QED BY <2>1, <2>2, <3>1
  <2> QED BY ZenonT(30), <1>2, <2>3, <2>4 DEF rest
<1>5. \A k \in DOMAIN st : st[k] \in Loop
  BY <1>1
<1>6. LoopsOK(t)
  <2>1. ASSUME NEW k \in DOMAIN st, st[k].kind = "recv" PROVE t.tracker[st[k].item].exists
    <3>1. s.tracker[st[k].item].exists
      BY <2>1 DEF NodeInv, LoopsOK, st
    <3>2. st[k].item \in Item
      BY <1>5, <2>1 DEF Loop
    <3> QED BY <3>1, <3>2 DEF KeepsSearches
  <2> QED BY <1>4, <2>1 DEF LoopsOK
<1>7. QueueOK(t)
  <2>1. readySlots(t, t.lastIndex + 1) = readySlots(s, s.lastIndex + 1) /\ t.lastIndex = s.lastIndex
    BY DEF readySlots, SameBooks
  <2>2. SUFFICES ASSUME readySlots(s, s.lastIndex + 1) # {}
                 PROVE  \E k \in DOMAIN t.stack :
                            t.stack[k].kind = "queue" /\ t.stack[k].upTo >= s.lastIndex + 1
    BY <2>1 DEF QueueOK
  <2>3. PICK k \in DOMAIN st : st[k].kind = "queue" /\ st[k].upTo >= s.lastIndex + 1
    BY <2>2 DEF NodeInv, QueueOK, st
  <2>4. k # 1
    <3>1. SUFFICES ASSUME k = 1 PROVE FALSE
      OBVIOUS
    <3>2. readySlots(s, Head(st).upTo) = {} /\ Head(st).upTo >= s.lastIndex + 1
      BY <1>3, <2>3, <3>1 DEF st
    <3>3. Head(st).upTo \in Nat
      BY <1>3, <2>3, <3>1, Constants DEF Loop
    <3>4. readySlots(s, s.lastIndex + 1) \subseteq readySlots(s, Head(st).upTo)
      BY <1>1, <3>2, <3>3, Constants DEF readySlots
    <3> QED BY <2>2, <3>2, <3>4
  <2> QED BY <1>4, <2>3, <2>4
<1>8. ReadyOK(t) /\ ScpOK(t)
  BY DEF NodeInv, ReadyOK, ScpOK, Done, Within, SameBooks
<1> QED BY <1>6, <1>7, <1>8 DEF NodeInv

-----------------------------------------------------------------------------
(* Every step of the node keeps the invariant.                             *)

Inv == /\ NodeInv(node)
       /\ quorum \in Quorums /\ requests \subseteq Peer \X Item /\ refused \in [Item -> Nat]

(* A peer is asked for an item. *)
LEMMA AskedType ==
    ASSUME NEW s, NEW t \in State
    PROVE  Asked(s, t) \subseteq Peer \X Item
<1>1. ASSUME NEW i \in Item, t.tracker[i].last # NoPeer
      PROVE  t.tracker[i].last \in Peer
  <2>1. t.tracker[i] \in Tracker
    BY DEF State
  <2> QED BY <1>1, <2>1 DEF Tracker
<1> QED BY <1>1 DEF Asked

LEMMA BecomeStep ==
    ASSUME requests \subseteq Peer \X Item, NEW t, NodeInv(t), NEW answered, Become(t, answered)
    PROVE  NodeInv(node') /\ requests' \subseteq Peer \X Item
<1>1. Asked(node, t) \subseteq Peer \X Item
  BY AskedType DEF NodeInv
<1> QED BY <1>1 DEF Become

(* tryNextPeer, when a peer does not have the item or its time is up. *)
LEMMA NextPeerStep ==
    ASSUME NEW s, NodeInv(s), NEW i \in Item, NEW q
    PROVE  NodeInv([s EXCEPT !.tracker[i] = tryNextPeer(@, q)])
<1> DEFINE tr == s.tracker[i]
           tracker == [s.tracker EXCEPT ![i] = tryNextPeer(tr, q)]
           t == [s EXCEPT !.tracker[i] = tryNextPeer(@, q)]
<1>1. s \in State /\ s.tracker \in [Item -> Tracker] /\ tr \in Tracker
  BY DEF NodeInv, State
<1>2. tryNextPeer(tr, q) \in Tracker /\ tryNextPeer(tr, q).exists = tr.exists
  BY <1>1, TryNextPeerType
<1>3. /\ tracker \in [Item -> Tracker]
      /\ \A j \in Item : s.tracker[j].exists => tracker[j].exists
  BY <1>1, <1>2
<1>4. t = [s EXCEPT !.tracker = tracker]
  BY <1>1 DEF State
<1> HIDE DEF tracker, t
<1>5. t \in State /\ SameBooks(s, t) /\ t.tracker = tracker /\ t.stack = s.stack
  BY Zenon, <1>1, <1>3, <1>4 DEF State, SameBooks
<1>6. KeepsSearches(s, t)
  BY <1>3, <1>5 DEF KeepsSearches
<1> QED BY Zenon, <1>5, <1>6, QuietStep DEF t

(* The posted clean-up runs from the main loop, when no loop is under way. *)
LEMMA CleanUpStep ==
    ASSUME NEW s, NodeInv(s), s.stack = <<>>, NEW slot
    PROVE  NodeInv(stopFetchingBelowInternal([s EXCEPT !.posted = @ \ {slot}], slot))
<1> DEFINE u == [s EXCEPT !.posted = @ \ {slot}]
           tracker == [i \in Item |-> clearEnvelopesBelow(s.tracker[i], slot)]
           t == stopFetchingBelowInternal(u, slot)
<1>1. s \in State
  BY DEF NodeInv
<1>2. u \in State /\ u.tracker = s.tracker /\ SameBooks(s, u) /\ u.stack = s.stack
  BY Zenon, <1>1 DEF State, SameBooks
<1> HIDE DEF u
<1>3. tracker \in [Item -> Tracker]
  BY <1>1, ClearType DEF State
<1>4. t = [u EXCEPT !.tracker = tracker]
  BY <1>2 DEF stopFetchingBelowInternal
<1> HIDE DEF tracker, t
<1>5. t \in State /\ SameBooks(u, t) /\ t.stack = u.stack
  BY ZenonT(30), <1>2, <1>3, <1>4 DEF State, SameBooks
<1>6. SameBooks(s, t) /\ t.stack = <<>>
  BY <1>2, <1>5 DEF SameBooks
<1>7. ReadyOK(t) /\ ScpOK(t)
  BY <1>6 DEF NodeInv, ReadyOK, ScpOK, Done, Within, SameBooks
<1>8. LoopsOK(t)
  BY <1>6 DEF LoopsOK
<1>9. QueueOK(t)
  BY <1>6 DEF NodeInv, QueueOK, SameBooks, readySlots
<1> QED BY <1>5, <1>7, <1>8, <1>9 DEF NodeInv, t, u

(* One iteration of ItemFetcher::recv. *)
LEMMA RecvLoopStep ==
    ASSUME Inv, RecvLoop
    PROVE  NodeInv(node') /\ requests' \subseteq Peer \X Item
<1> DEFINE i == Head(node.stack).item
           tr == node.tracker[i]
           popped == [node EXCEPT !.tracker[i].waiting = pop_back(@)]
           ended == [node EXCEPT !.tracker[i] = cancel(tr), !.stack = Tail(@)]
<1>1. /\ NodeInv(node) /\ node \in State /\ requests \subseteq Peer \X Item
      /\ node.stack \in Seq(Loop) /\ node.stack # <<>> /\ node.tracker \in [Item -> Tracker]
  BY DEF Inv, NodeInv, State, RecvLoop, Idle
<1>2. i \in Item
  <2>1. Head(node.stack) \in Loop
    BY <1>1
  <2> QED BY Zenon, <2>1 DEF Loop, RecvLoop
<1>3. tr \in Tracker
  BY <1>1, <1>2
<1>4. Head(node.stack).kind = "recv"
  BY ZenonT(30) DEF RecvLoop
<1>5. IF tr.waiting = <<>> THEN Become(ended, {})
      ELSE \E pick \in [Needs(back(tr.waiting)) -> Peer] :
             Become(recvSCPEnvelope(popped, quorum, back(tr.waiting), pick), {})
  BY Zenon DEF RecvLoop
<1> HIDE DEF i
<1>6. CASE tr.waiting = <<>>
  <2> DEFINE new == cancel(tr)
             tracker == [node.tracker EXCEPT ![i] = new]
             rest == Tail(node.stack)
  <2>1. new \in Tracker /\ new.exists = tr.exists
    BY <1>3, CancelType
  <2>2. rest \in Seq(Loop)
    BY <1>1, SeqTail
  <2>3. ended = [node EXCEPT !.tracker = tracker, !.stack = rest]
    BY <1>1, <1>2 DEF State
  <2> HIDE DEF new, rest, ended
  <2>4. /\ tracker \in [Item -> Tracker]
        /\ \A j \in Item : node.tracker[j].exists => tracker[j].exists
    BY <1>1, <1>2, <2>1
  <2> HIDE DEF tracker
  <2>5. /\ ended \in State /\ SameBooks(node, ended) /\ ended.tracker = tracker
        /\ ended.stack = rest
    BY Zenon, <1>1, <2>2, <2>3, <2>4 DEF State, SameBooks
  <2>6. KeepsSearches(node, ended)
    BY <2>4, <2>5 DEF KeepsSearches
  <2>7. NodeInv(ended)
    BY <1>1, <1>4, <2>5, <2>6, LoopEnds DEF rest
  <2> QED BY <1>1, <1>5, <1>6, <2>7, BecomeStep
<1>7. CASE tr.waiting # <<>>
  <2> DEFINE w == tr.waiting
             e == back(w)
             new == [tr EXCEPT !.waiting = pop_back(w)]
             tracker == [node.tracker EXCEPT ![i] = new]
  <2>1. pop_back(w) \in Seq(Envelope) /\ e \in Envelope
    <3>1. w \in Seq(Envelope)
      BY <1>3 DEF Tracker
    <3> HIDE DEF w
    <3> QED BY <1>7, <3>1, PoppedOnce DEF w
  <2>2. new \in Tracker /\ new.exists = tr.exists
    BY <1>3, <2>1 DEF Tracker
  <2>3. popped = [node EXCEPT !.tracker = tracker]
    BY <1>1, <1>2, <1>3 DEF State, Tracker
  <2> HIDE DEF new, popped
  <2>4. /\ tracker \in [Item -> Tracker]
        /\ \A j \in Item : node.tracker[j].exists => tracker[j].exists
    BY <1>1, <1>2, <2>2
  <2> HIDE DEF tracker
  <2>5. /\ popped \in State /\ SameBooks(node, popped) /\ popped.tracker = tracker
        /\ popped.stack = node.stack
    BY ZenonT(30), <1>1, <2>3, <2>4 DEF State, SameBooks
  <2>6. KeepsSearches(node, popped)
    BY <2>4, <2>5 DEF KeepsSearches
  <2>7. NodeInv(popped)
    BY <1>1, <2>5, <2>6, QuietStep
  <2>8. PICK pick \in [Needs(e) -> Peer] : Become(recvSCPEnvelope(popped, quorum, e, pick), {})
    BY <1>5, <1>7
  <2> HIDE DEF e
  <2>9. NodeInv(recvSCPEnvelope(popped, quorum, e, pick))
    BY <2>1, <2>7, EnvelopeStep
  <2> QED BY <1>1, <2>8, <2>9, BecomeStep
<1> QED BY <1>6, <1>7

(* One iteration of processSCPQueueUpToIndex. *)
LEMMA QueueLoopStep ==
    ASSUME Inv, QueueLoop
    PROVE  NodeInv(node') /\ requests' \subseteq Peer \X Item
<1> DEFINE slots == readySlots(node, Head(node.stack).upTo)
           k == lowest(slots)
           e == back(node.ready[k])
           taken == [node EXCEPT !.ready[k] = pop_back(@), !.scp = @ \cup {e}]
           ended == [node EXCEPT !.stack = Tail(@)]
<1>1. /\ NodeInv(node) /\ node \in State /\ requests \subseteq Peer \X Item
      /\ node.stack \in Seq(Loop) /\ node.stack # <<>>
  BY DEF Inv, NodeInv, State, QueueLoop, Idle
<1>2. \/ slots = {} /\ Become(ended, {})
      \/ slots # {} /\ Become(taken, {})
      \/ /\ slots # {} /\ k = node.lastIndex + 1 /\ k <= MaxSlot
         /\ Become(valueExternalized(taken), {})
  BY DEF QueueLoop
<1>3. CASE slots = {}
  <2> DEFINE rest == Tail(node.stack)
  <2>1. rest \in Seq(Loop)
    BY <1>1, SeqTail
  <2>2. ended = [node EXCEPT !.stack = rest]
    OBVIOUS
  <2> HIDE DEF rest, ended
  <2>3. /\ ended \in State /\ SameBooks(node, ended) /\ ended.tracker = node.tracker
        /\ ended.stack = rest
    BY ZenonT(30), <1>1, <2>1, <2>2 DEF State, SameBooks
  <2>4. KeepsSearches(node, ended)
    BY <2>3 DEF KeepsSearches
  <2>5. NodeInv(ended)
    BY <1>1, <1>3, <2>3, <2>4, LoopEnds DEF rest
  <2> QED BY <1>1, <1>2, <1>3, <2>5, BecomeStep
<1>4. CASE slots # {}
  <2>1. slots \in SUBSET Nat
    BY Constants DEF readySlots
  <2>2. k \in slots
    <3> HIDE DEF slots
    <3>1. \E m \in slots : \A j \in slots : m <= j
      BY <1>4, <2>1, LeastNatural
    <3> QED BY <3>1 DEF lowest
  <2>3. k \in SlotIndex /\ node.ready[k] # <<>>
    BY <2>2 DEF readySlots
  <2> HIDE DEF slots, k
  <2>4. NodeInv(taken) /\ taken.lastIndex = node.lastIndex
    BY Zenon, <1>1, <2>3, TakeStep
  <2> HIDE DEF taken
  <2>5. node.lastIndex + 1 <= MaxSlot => NodeInv(valueExternalized(taken))
    BY <2>4, ExternalizeStep
  <2>6. CASE Become(taken, {})
    BY <1>1, <2>4, <2>6, BecomeStep
  <2>7. CASE k = node.lastIndex + 1 /\ k <= MaxSlot /\ Become(valueExternalized(taken), {})
    <3>1. NodeInv(valueExternalized(taken))
      BY <2>5, <2>7
    <3> QED BY Zenon, <1>1, <2>7, <3>1, BecomeStep
  <2> QED BY <1>2, <1>4, <2>6, <2>7
<1> QED BY <1>3, <1>4

LEMMA InitInv ==
    Init => Inv
<1> SUFFICES ASSUME Init PROVE Inv
  OBVIOUS
<1>1. node \in State
  <2>1. 1 \in 1..MaxSlot
    BY Constants
  <2> QED BY <2>1, NoTrackerType DEF Init, State
<1>2. LoopsOK(node)
  BY DEF Init, LoopsOK
<1>3. \A k \in SlotIndex : node.ready[k] = <<>>
  BY DEF Init
<1>4. QueueOK(node)
  BY <1>3 DEF QueueOK, readySlots
<1>5. ReadyOK(node)
  BY <1>3 DEF ReadyOK, IsInjective, Range
<1>6. ScpOK(node)
  BY DEF Init, ScpOK
<1>7. quorum \in Quorums /\ requests \subseteq Peer \X Item /\ refused \in [Item -> Nat]
  BY DEF Init
<1> QED BY <1>1, <1>2, <1>4, <1>5, <1>6, <1>7 DEF Inv, NodeInv

LEMMA NextInv ==
    Inv /\ [Next]_vars => Inv'
<1> SUFFICES ASSUME Inv, [Next]_vars PROVE Inv'
  OBVIOUS
<1>1. NodeInv(node) /\ requests \subseteq Peer \X Item /\ refused \in [Item -> Nat]
      /\ quorum \in Quorums
  BY DEF Inv
<1>2. SUFFICES /\ NodeInv(node') /\ requests' \subseteq Peer \X Item
               /\ quorum' \in Quorums /\ refused' \in [Item -> Nat]
  BY DEF Inv
<1>3. ASSUME NEW e \in Envelope, ReceiveEnvelope(e)
      PROVE  /\ NodeInv(node') /\ requests' \subseteq Peer \X Item
             /\ quorum' \in Quorums /\ refused' \in [Item -> Nat]
  <2>1. PICK pick \in [Needs(e) -> Peer] : Become(recvSCPEnvelope(node, quorum, e, pick), {})
    BY <1>3 DEF ReceiveEnvelope
  <2>2. NodeInv(recvSCPEnvelope(node, quorum, e, pick))
    BY <1>1, EnvelopeStep
  <2>3. quorum' = quorum /\ refused' = refused
    BY <1>3 DEF ReceiveEnvelope
  <2> QED BY <1>1, <2>1, <2>2, <2>3, BecomeStep
<1>4. ASSUME NEW p \in Peer, NEW i \in Item, ReceiveItem(p, i)
      PROVE  /\ NodeInv(node') /\ requests' \subseteq Peer \X Item
             /\ quorum' \in Quorums /\ refused' \in [Item -> Nat]
  <2>1. /\ Become(recvItem(node, i), {<<p, i>>})
        /\ quorum' = quorum /\ refused' = refused
    BY <1>4 DEF ReceiveItem
  <2>2. NodeInv(recvItem(node, i))
    BY <1>1, ItemStep
  <2> QED BY <1>1, <2>1, <2>2, BecomeStep
<1>5. ASSUME NEW p \in Peer, NEW i \in Item, PeerDoesntHave(p, i)
      PROVE  /\ NodeInv(node') /\ requests' \subseteq Peer \X Item
             /\ quorum' \in Quorums /\ refused' \in [Item -> Nat]
  <2>1. PICK q \in Peer :
          Become(IF node.tracker[i].last = p
                 THEN [node EXCEPT !.tracker[i] = tryNextPeer(@, q)] ELSE node, {<<p, i>>})
    BY <1>5 DEF PeerDoesntHave
  <2> DEFINE moved == [node EXCEPT !.tracker[i] = tryNextPeer(@, q)]
             t == IF node.tracker[i].last = p THEN moved ELSE node
  <2>2. NodeInv(moved)
    BY <1>1, NextPeerStep
  <2> HIDE DEF moved
  <2>3. NodeInv(t)
    BY <1>1, <2>2
  <2>4. Become(t, {<<p, i>>})
    BY <2>1 DEF moved
  <2> HIDE DEF t
  <2>5. quorum' = quorum /\ refused' = [refused EXCEPT ![i] = @ + 1]
    BY <1>5 DEF PeerDoesntHave
  <2>6. refused' \in [Item -> Nat]
    BY <1>1, <2>5
  <2> QED BY <1>1, <2>3, <2>4, <2>5, <2>6, BecomeStep
<1>6. ASSUME NEW i \in Item, TimerExpired(i)
      PROVE  /\ NodeInv(node') /\ requests' \subseteq Peer \X Item
             /\ quorum' \in Quorums /\ refused' \in [Item -> Nat]
  <2>1. PICK q \in Peer : Become([node EXCEPT !.tracker[i] = tryNextPeer(@, q)], {})
    BY <1>6 DEF TimerExpired
  <2> DEFINE moved == [node EXCEPT !.tracker[i] = tryNextPeer(@, q)]
  <2>2. NodeInv(moved)
    BY <1>1, NextPeerStep
  <2>3. Become(moved, {})
    BY <2>1
  <2> HIDE DEF moved
  <2>4. quorum' = quorum /\ refused' = refused
    BY <1>6 DEF TimerExpired
  <2> QED BY <1>1, <2>2, <2>3, <2>4, BecomeStep
<1>7. ASSUME NEW i \in Proposed, ProposeTxSet(i)
      PROVE  /\ NodeInv(node') /\ requests' \subseteq Peer \X Item
             /\ quorum' \in Quorums /\ refused' \in [Item -> Nat]
  <2> DEFINE u == [node EXCEPT !.trigger = FALSE]
  <2>1. /\ Become(addTxSet(u, i, node.lastIndex + 1), {})
        /\ quorum' = quorum /\ refused' = refused
    BY <1>7 DEF ProposeTxSet
  <2>2. node \in State /\ i \in TItem
    BY <1>1, FetchAssumption DEF NodeInv
  <2>3. node.lastIndex + 1 \in SlotIndex
    BY <2>2, Constants DEF State
  <2>4. u \in State /\ SameBooks(node, u) /\ u.tracker = node.tracker /\ u.stack = node.stack
    BY ZenonT(30), <2>2 DEF State, SameBooks
  <2> HIDE DEF u
  <2>5. KeepsSearches(node, u)
    BY <2>4 DEF KeepsSearches
  <2>6. NodeInv(u)
    BY <1>1, <2>4, <2>5, QuietStep
  <2>7. NodeInv(addTxSet(u, i, node.lastIndex + 1))
    BY <2>2, <2>3, <2>6, AddTxSetStep
  <2> QED BY <1>1, <2>1, <2>7, BecomeStep
<1>8. ASSUME NEW slot \in SlotIndex, StopFetchingBelow(slot)
      PROVE  /\ NodeInv(node') /\ requests' \subseteq Peer \X Item
             /\ quorum' \in Quorums /\ refused' \in [Item -> Nat]
  <2> DEFINE t == stopFetchingBelowInternal([node EXCEPT !.posted = @ \ {slot}], slot)
  <2>1. Become(t, {}) /\ node.stack = <<>> /\ quorum' = quorum /\ refused' = refused
    BY <1>8 DEF StopFetchingBelow, Idle
  <2>2. NodeInv(t)
    BY <1>1, <2>1, CleanUpStep
  <2> HIDE DEF t
  <2> QED BY <1>1, <2>1, <2>2, BecomeStep
<1>9. CASE RecvLoop
  <2>1. quorum' = quorum /\ refused' = refused
    BY Zenon, <1>9 DEF RecvLoop
  <2> QED BY <1>1, <1>9, <2>1, RecvLoopStep
<1>10. CASE QueueLoop
  <2>1. quorum' \in Quorums /\ refused' = refused
    BY <1>1, <1>10 DEF QueueLoop
  <2> QED BY <1>1, <1>10, <2>1, QueueLoopStep
<1>11. CASE UNCHANGED vars
  BY <1>1, <1>11 DEF vars
<1> QED BY <1>3, <1>4, <1>5, <1>6, <1>7, <1>8, <1>9, <1>10, <1>11 DEF Next

(* The invariant, for every choice of envelopes, items, peers and bounds.  *)
THEOREM InvariantHolds ==
    Spec => []Inv
BY InitInv, NextInv, PTL DEF Spec

(* Every operation of PendingEnvelopes, ItemFetcher and Tracker keeps the  *)
(* state of the node well-formed.                                          *)
THEOREM TypeCorrect ==
    Spec => []TypeOK
<1>1. Inv => TypeOK
  BY DEF Inv, NodeInv, TypeOK
<1> QED BY <1>1, InvariantHolds, PTL

(* The reference that ItemFetcher::recv keeps to its tracker stays valid   *)
(* while the herder takes envelopes and closes slots from inside the loop: *)
(* trackers are erased only from the main loop.                            *)
THEOREM TrackersOutliveLoops ==
    Spec => []TrackerOutlivesLoop
<1>1. Inv => TrackerOutlivesLoop
  BY DEF Inv, NodeInv, LoopsOK, TrackerOutlivesLoop
<1> QED BY <1>1, InvariantHolds, PTL

(* SCP gets an envelope at most once while its slot is in the window: an   *)
(* envelope that is ready or delivered stays in processed and out of       *)
(* fetching, which is what recvSCPEnvelope looks at, until eraseBelow and  *)
(* slotClosed drop the books of its slot.                                  *)
THEOREM AtMostOnce ==
    Spec => []DeliveredOnce
<1>1. Inv => DeliveredOnce
  BY DEF Inv, NodeInv, ReadyOK, DeliveredOnce, InWindow, Within
<1> QED BY <1>1, InvariantHolds, PTL

(* Whenever the main loop runs, the queue has been emptied up to the next  *)
(* slot: an envelope that becomes ready, and a slot that begins, start a   *)
(* processSCPQueueUpToIndex that reaches far enough.                       *)
THEOREM QueueEmptied ==
    Spec => []NothingLeftBehind
<1>1. Inv => NothingLeftBehind
  <2> SUFFICES ASSUME Inv, Idle PROVE readySlots(node, node.lastIndex + 1) = {}
    BY DEF NothingLeftBehind
  <2>1. DOMAIN node.stack = {}
    BY DEF Idle
  <2> QED BY <2>1 DEF Inv, NodeInv, QueueOK
<1> QED BY <1>1, InvariantHolds, PTL
=============================================================================

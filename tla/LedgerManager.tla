--------------------------- MODULE LedgerManager ---------------------------
(***************************************************************************)
(* A node that closes ledgers and keeps them: the steps of closeLedger     *)
(* with the bucket list, the transaction of the database, the publish      *)
(* queue and the collection of bucket files; merges on worker threads;     *)
(* publication to an archive; catchup from the archive's buckets; and the  *)
(* process dying anywhere, being stopped, started or given a new database. *)
(*                                                                         *)
(* node.pc is "down", "idle", inside closeLedger ("sealed": its            *)
(* transaction is open; "committed"), or inside a catchup ("downloaded",   *)
(* "assumed").  node.db is what the disk holds of the database, node.tx    *)
(* what the open transaction sees; besides the last closed ledger, its     *)
(* HistoryArchiveState and the publish queue, `first' is the oldest ledger *)
(* of the unbroken run of headers up to the last.                          *)
(***************************************************************************)
EXTENDS HistoryManager

CONSTANTS UpgradeLedger, \* the ledger that moves the protocol from 11 to 12
          Quiet,         \* ledgers that change no entry
          MaxLedger,     \* ledgers are closed up to this one
          MaxTroubles,   \* crashes, stops and failed publications of one database
          MaxResets      \* databases made anew

VARIABLES node,
          beat           \* flips with every step that the node owes

vars == <<node, beat>>

GENESIS_LEDGER_SEQ == 1

Version(ledger) == IF ledger < UpgradeLedger THEN 11 ELSE 12
Changed(ledger) == {ledger} \ Quiet

NoState == HistoryArchiveState(0, EmptyList)

(* What is lost when the process ends. *)
Down(a) == [a EXCEPT !.pc = "down", !.lcl = 0, !.list = EmptyList, !.shared = {},
                     !.tasks = {}, !.finished = {}, !.usage = EmptyBag, !.filled = FALSE,
                     !.work = {}, !.posted = FALSE, !.held = {}, !.tx = a.db]

(* storeCurrentLedger and advanceLedgerPointers, in the open transaction. *)
storeCurrentLedger(a, ledger) ==
    [a EXCEPT !.lcl = ledger, !.tx.lcl = ledger,
              !.tx.has = HistoryArchiveState(ledger, a.list)]

ledgerClosed(a, ledger) ==
    storeCurrentLedger(addBatch(a, ledger, Version(ledger), Changed(ledger)), ledger)

Commit(a) == [a EXCEPT !.db = a.tx]

(* newDB: the tables and the bucket directory are dropped, and the genesis *)
(* ledger is closed; the process then ends.                                *)
newDB(a) ==
    LET empty == [Down(a) EXCEPT !.files = {},
                                 !.tx = [lcl |-> 0, has |-> NoState, queue |-> {}, first |-> 1]]
    IN  Down(Commit(ledgerClosed(empty, GENESIS_LEDGER_SEQ)))

NewNode ==
    LET nothing == [lcl |-> 0, has |-> NoState, queue |-> {}, first |-> 1]
    IN  newDB([pc |-> "down", lcl |-> 0, list |-> EmptyList, shared |-> {}, tasks |-> {},
               finished |-> {}, usage |-> EmptyBag, filled |-> FALSE, work |-> {},
               posted |-> FALSE, held |-> {}, target |-> NoState, files |-> {},
               db |-> nothing, tx |-> nothing,
               archive |-> [states |-> {}, wellKnown |-> NoState, files |-> {}],
               troubles |-> 0, resets |-> 0, fault |-> FALSE])

Init == node = NewNode /\ beat = 0

Up == node.pc \in {"idle", "downloaded", "assumed"}
Do(a) == ~node.fault /\ node' = a /\ beat' = 1 - beat
May(a) == ~node.fault /\ node' = a /\ UNCHANGED beat
Ends(a) == ~node.fault /\ node' = a /\ beat' = 0

-----------------------------------------------------------------------------
(* closeLedger. *)
SealLedger ==
    /\ node.pc = "idle" /\ node.lcl < MaxLedger
    /\ Do([maybeQueueHistoryCheckpoint(ledgerClosed(node, node.lcl + 1))
             EXCEPT !.pc = "sealed"])

CommitLedger ==
    /\ node.pc = "sealed"
    /\ Do([Commit(node) EXCEPT !.pc = "committed"])

FinishLedger ==
    /\ node.pc = "committed"
    /\ Do([forgetUnreferencedBuckets(publishQueuedHistory(node)) EXCEPT !.pc = "idle"])

(* Worker threads. *)
MergeEnds == \E key \in node.tasks : Do(endMerge(node, key))

(* The wait for merges between the ledgers of a replay. *)
ResolveReady ==
    /\ node.pc = "idle"
    /\ \E i \in Levels : isMerging(node.list[i].next) /\ mergeComplete(node, node.list[i].next)
    /\ May(resolveAnyReadyFutures(node))

-----------------------------------------------------------------------------
(* The works of a publication.  A run of ResolveSnapshotWork that finds    *)
(* nothing new only waits again.                                           *)
SnapshotMoves(w) ==
    LET nexts == {w.has.level[i].next : i \in Levels}
    IN  \/ \E fb \in nexts : hasHashes(fb) \/ (isMerging(fb) /\ mergeComplete(node, fb))
        \/ node.lcl > w.has.ledger /\ \A fb \in nexts : ~isMerging(fb)
ResolveSnapshot ==
    \E w \in node.work :
        /\ Up /\ w.stage = "resolve" /\ SnapshotMoves(w)
        /\ Do(resolveSnapshot(node, w))

WriteSnapshot ==
    \E w \in node.work :
        /\ Up /\ w.stage = "write" /\ writeHistoryBlocks(node, w)
        /\ Do([node EXCEPT !.work = {[w EXCEPT !.stage = "files"]}])

PutFiles ==
    \E w \in node.work : Up /\ w.stage = "files" /\ Do(putFiles(node, w))

PutState ==
    \E w \in node.work, place \in {"ledger", "well-known"} :
        /\ Up /\ w.stage = "state" /\ place \notin w.put
        /\ Do(putHistoryArchiveState(node, w, place))

PublishFails ==
    \E w \in node.work :
        /\ Up /\ w.stage # "resolve" /\ node.troubles < MaxTroubles
        /\ May([historyPublished(node, w, FALSE) EXCEPT !.troubles = @ + 1])

PublishNext ==
    /\ Up /\ node.posted
    /\ Do(publishQueuedHistory([node EXCEPT !.posted = FALSE]))

(* ExternalQueue::deleteOldEntries, by the maintainer; without subscribers. *)
DeleteOldEntries ==
    LET ql == getMinLedgerQueuedToPublish(node)
        qmin == IF ql = 0 THEN node.lcl ELSE Min({ql, node.lcl})
        lmin == IF qmin >= Frequency THEN qmin - Frequency ELSE 0
    IN  /\ Up /\ lmin >= node.db.first
        /\ May([node EXCEPT !.db.first = lmin + 1, !.tx.first = lmin + 1])

-----------------------------------------------------------------------------
(* A catchup of a node at the genesis ledger, from the buckets of a state  *)
(* of the archive.                                                         *)
DownloadBuckets ==
    \E has \in node.archive.states :
        LET differing == allBuckets(has) \ allBuckets(node.db.has)
        IN  /\ node.pc = "idle" /\ node.lcl = GENESIS_LEDGER_SEQ
            /\ differing \subseteq node.archive.files
            /\ May([node EXCEPT !.pc = "downloaded", !.target = has, !.held = differing,
                               !.files = @ \cup differing, !.shared = @ \cup differing])

ApplyBuckets ==
    /\ node.pc = "downloaded" /\ containsValidBuckets(node.target)
    /\ Do([assumeState(node, node.target, Version(node.target.ledger)) EXCEPT !.pc = "assumed"])

SetLastClosedLedger ==
    LET ledger == node.target.ledger
    IN  /\ node.pc = "assumed"
        /\ Do([Commit([storeCurrentLedger(node, ledger) EXCEPT !.tx.first = ledger])
                 EXCEPT !.pc = "idle", !.target = NoState, !.held = {}])

-----------------------------------------------------------------------------
(* The process. *)
Crash ==
    /\ node.pc # "down" /\ node.troubles < MaxTroubles
    /\ Ends([Down(node) EXCEPT !.troubles = @ + 1, !.target = NoState])

GracefulStop ==
    /\ Up /\ node.troubles < MaxTroubles
    /\ Ends([Down(forgetUnreferencedBuckets(node)) EXCEPT !.troubles = @ + 1, !.target = NoState])

(* loadLastKnownLedger: no bucket may be missing. *)
Restart ==
    LET needed == allBuckets(node.db.has) \cup UNION {allBuckets(row) : row \in node.db.queue}
        a == assumeState(Fault(node, needed \subseteq node.files), node.db.has,
                         Version(node.db.lcl))
    IN  /\ node.pc = "down"
        /\ Do(publishQueuedHistory([a EXCEPT !.pc = "idle", !.lcl = node.db.lcl]))

NewDB ==
    /\ node.pc = "down" /\ node.resets < MaxResets /\ node.archive.states # {}
    /\ Ends([newDB(node) EXCEPT !.resets = @ + 1, !.troubles = 0])

Next == \/ SealLedger \/ CommitLedger \/ FinishLedger
        \/ MergeEnds \/ ResolveReady
        \/ ResolveSnapshot \/ WriteSnapshot \/ PutFiles \/ PutState
        \/ PublishFails \/ PublishNext \/ DeleteOldEntries
        \/ DownloadBuckets \/ ApplyBuckets \/ SetLastClosedLedger
        \/ Crash \/ GracefulStop \/ Restart \/ NewDB

(* The network goes on closing ledgers, the threads and the main loop run, *)
(* commands end, and the node is started again: while the node has such a  *)
(* step to take, some such step is taken.  Each brings a bounded count     *)
(* forward, so none can be put off for ever by the others.                 *)
Owes == /\ ~node.fault
        /\ \/ node.pc \in {"down", "sealed", "committed", "downloaded", "assumed"}
           \/ node.pc = "idle" /\ node.lcl < MaxLedger
           \/ node.tasks # {} \/ node.posted
           \/ \E w \in node.work :
                CASE w.stage = "resolve" -> SnapshotMoves(w)
                  [] w.stage = "write" -> writeHistoryBlocks(node, w)
                  [] OTHER -> TRUE
Fairness == WF_beat(Owes /\ beat' = 1 - beat)

Spec == Init /\ [][Next]_vars /\ Fairness

-----------------------------------------------------------------------------
(* No assertion fails and nothing is thrown: a start finds every bucket of *)
(* its last closed ledger and of its publish queue wherever the process    *)
(* ended before, a merge and a publication find their files, one merge at  *)
(* a time is prepared on a level, with the shadows its version allows, and *)
(* no checkpoint is queued twice.                                          *)
NoFault == ~node.fault

(* The ledgers that the code's own arithmetic says a level holds. *)
CurrLedgers == [l \in 1 .. 2 * MaxLedger, i \in Levels |->
                  oldestLedgerInCurr(l, i) .. oldestLedgerInCurr(l, i) + sizeOfCurr(l, i) - 1]
SnapLedgers == [l \in 1 .. 2 * MaxLedger, i \in Levels |->
                  oldestLedgerInSnap(l, i) .. oldestLedgerInSnap(l, i) + sizeOfSnap(l, i) - 1]

Exact(levels, ledger) ==
    \A i \in Levels :
        LET next == levels[i].next
            nextChange == mask(ledger, levelHalf(i - 1)) + levelHalf(i - 1)
        IN  /\ levels[i].curr.in = CurrLedgers[ledger, i] \ Quiet
            /\ levels[i].snap.in = SnapLedgers[ledger, i] \ Quiet
            /\ ~isClear(next) =>
                 /\ i > 0
                 /\ (IF hasOutputHash(next) THEN next.out ELSE merge(next.key)).in
                        = CurrLedgers[nextChange, i] \ Quiet

(* Whatever the merges, restarts and catchups in between, the bucket list, *)
(* the state stored with the last closed ledger, every queued checkpoint   *)
(* and every published one hold, level by level, exactly the ledgers that  *)
(* sizeOfCurr, sizeOfSnap and the oldestLedgerIn functions promise (the    *)
(* deletion of rows in ApplyBucketsWork rests on that), a pending merge    *)
(* gives what the level will hold next, and the archive has every bucket   *)
(* of the states it offers.                                                *)
HistoryExact ==
    LET archived == node.archive.states \cup ({node.archive.wellKnown} \ {NoState})
    IN  /\ node.pc \notin {"down", "assumed"} => Exact(node.list, node.lcl)
        /\ \A has \in {node.db.has} \cup node.db.queue \cup archived : Exact(has.level, has.ledger)
        /\ \A has \in archived : allBuckets(has) \subseteq node.archive.files

(* A checkpoint whose row is in the database is published and its row      *)
(* deleted, through failed publications, crashes and restarts: even when   *)
(* the database is dropped, for the node closes the ledger again or        *)
(* catches up from an archive that has it.                                 *)
Checkpoints == {c \in 1 .. MaxLedger - 1 : c + 1 = nextCheckpointLedger(c + 1)}
Queued(c) == \E row \in node.db.queue : row.ledger = c
Archived(c) == \E has \in node.archive.states : has.ledger = c
CheckpointsPublished ==
    \A c \in Checkpoints : Queued(c) ~> ~Queued(c) /\ Archived(c)
=============================================================================

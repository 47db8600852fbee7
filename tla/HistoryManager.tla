--------------------------- MODULE HistoryManager ---------------------------
(***************************************************************************)
(* The history manager: the publish queue in the database, the buckets it  *)
(* keeps alive, and the one publication at a time that takes the oldest    *)
(* row to the archive and then deletes the row.                            *)
(*                                                                         *)
(* The archive is external: the states published by ledger (states), the   *)
(* well-known state (wellKnown) and the bucket files.  A put either writes *)
(* its file or fails.                                                      *)
(***************************************************************************)
EXTENDS BucketList

CONSTANT Frequency   \* getCheckpointFrequency()

ASSUME FrequencyAssumption == Frequency \in Nat \ {0}

CurrentProtocol == 13   \* Config::CURRENT_LEDGER_PROTOCOL_VERSION

prevCheckpointLedger(ledger) == (ledger \div Frequency) * Frequency
nextCheckpointLedger(ledger) ==
    IF ledger = 0 THEN Frequency ELSE ((ledger + Frequency - 1) \div Frequency) * Frequency

maybeQueueHistoryCheckpoint(a) ==
    LET has == HistoryArchiveState(a.lcl, a.list)
        b == [a EXCEPT !.tx.queue = @ \cup {has}, !.usage = @ (+) SetToBag(allBuckets(has))]
    IN  IF a.lcl + 1 # nextCheckpointLedger(a.lcl + 1) THEN a
        ELSE Fault(b, \A row \in a.tx.queue : row.ledger # a.lcl)

getMinLedgerQueuedToPublish(a) ==
    IF a.tx.queue = {} THEN 0 ELSE Min({row.ledger : row \in a.tx.queue})

(* takeSnapshotAndPublish of the oldest row, unless a publication runs. *)
publishQueuedHistory(a) ==
    IF a.tx.queue = {} \/ a.work # {} THEN a
    ELSE LET row == CHOOSE r \in a.tx.queue : \A q \in a.tx.queue : r.ledger <= q.ledger
         IN  [a EXCEPT !.work = {[has |-> row, orig |-> allBuckets(row),
                                  stage |-> "resolve", put |-> {}]}]

(* Merges of protocol 12 are not published; the others must have ended. *)
prepareLevel(r, i) ==
    LET next == r.has.level[i].next
        snapped == r.has.level[i - 1].snap
        b == getBuckets(r.app, {snapped})
        live == makeLive(b, next, CurrentProtocol, i)
    IN  IF snapped.v >= FIRST_PROTOCOL_SHADOWS_REMOVED
        THEN [app |-> b, has |-> [r.has EXCEPT !.level[i].next = Clear]]
        ELSE IF hasHashes(next)
        THEN [app |-> live.app, has |-> [r.has EXCEPT !.level[i].next = live.fb]]
        ELSE [r EXCEPT !.app = b]
prepareForPublish(a, has) ==
    FoldLeft(prepareLevel, [app |-> Fault(a, isClear(has.level[0].next)), has |-> has],
             [i \in 1 .. NumLevels - 1 |-> i])

(* ResolveSnapshotWork, run until a later ledger has closed and the merges *)
(* of the snapshot have ended.                                             *)
resolveSnapshot(a, w) ==
    LET r == prepareForPublish(a, w.has)
        has == [r.has EXCEPT !.level =
                  [i \in Levels |-> [@[i] EXCEPT !.next = resolveReady(r.app, @)]]]
        ready == a.lcl > has.ledger /\ \A i \in Levels : ~isMerging(has.level[i].next)
        next == [w EXCEPT !.has = has, !.stage = IF ready THEN "write" ELSE @]
    IN  Fault([r.app EXCEPT !.work = {next}], ready => containsValidBuckets(has))

(* StateSnapshot::writeHistoryBlocks: are the headers all in the database? *)
writeHistoryBlocks(a, w) ==
    a.db.first <= Max({1, prevCheckpointLedger(w.has.ledger)})

(* The buckets that the archive's current state does not name, if they     *)
(* have a file.                                                            *)
putFiles(a, w) ==
    LET differing == allBuckets(w.has) \ allBuckets(a.archive.wellKnown)
        b == getBuckets(a, differing)
        next == [w EXCEPT !.stage = "state"]
    IN  Fault([b EXCEPT !.archive.files = @ \cup (differing \cap b.files), !.work = {next}],
              containsValidBuckets(w.has))

(* A mutant of historyPublished that deletes the row of a failure too. *)
historyPublishedOnce(a, w, success) ==
    LET remaining == {row \in a.db.queue : row.ledger # w.has.ledger}
    IN  [a EXCEPT !.db.queue = remaining, !.tx.queue = remaining,
                  !.usage = @ (-) SetToBag(w.orig), !.work = {}, !.posted = TRUE]

historyPublished(a, w, success) ==
    LET remaining == {row \in a.db.queue : row.ledger # w.has.ledger}
        b == IF success
             THEN [a EXCEPT !.db.queue = remaining, !.tx.queue = remaining,
                            !.usage = @ (-) SetToBag(w.orig)]
             ELSE a
    IN  [b EXCEPT !.work = {}, !.posted = TRUE]

(* The state is put under its ledger and at the well-known place, in any   *)
(* order; the work succeeds when both are there.                           *)
Published(has) == HistoryArchiveState(has.ledger, has.level)
putHistoryArchiveState(a, w, place) ==
    LET b == IF place = "ledger"
             THEN [a EXCEPT !.archive.states =
                     {s \in @ : s.ledger # w.has.ledger} \cup {Published(w.has)}]
             ELSE [a EXCEPT !.archive.wellKnown = Published(w.has)]
        next == [w EXCEPT !.put = @ \cup {place}]
    IN  IF next.put = {"ledger", "well-known"} THEN historyPublished(b, w, TRUE)
        ELSE [b EXCEPT !.work = {next}]
=============================================================================

----------------------------- MODULE BucketList -----------------------------
(***************************************************************************)
(* The bucket list: what a closed ledger does to its levels, and how the   *)
(* levels and their merges come back from a stored HistoryArchiveState.    *)
(* A level is a record with the buckets curr and snap and the FutureBucket *)
(* next.                                                                   *)
(***************************************************************************)
EXTENDS BucketManager

EmptyList == [i \in Levels |-> [curr |-> Null, snap |-> Null, next |-> Clear]]

(* HistoryArchiveState(ledger, list), as toString() writes it. *)
HistoryArchiveState(ledger, list) ==
    [ledger |-> ledger,
     level |-> [i \in Levels |-> [list[i] EXCEPT !.next = save(@)]]]

(* Start the merge that makes the next curr of a level.  When the level    *)
(* will spill at its next change, its curr is left out of it.              *)
prepare(a, i, ledger, version, snapped, shadows) ==
    LET skip == i # 0 /\ levelShouldSpill(ledger + levelHalf(i - 1), i)
        key == [keep |-> keepDeadEntries(i),
                curr |-> IF skip THEN Null ELSE a.list[i].curr,
                snap |-> snapped,
                shadows |-> IF snapped.v >= FIRST_PROTOCOL_SHADOWS_REMOVED
                            THEN <<>> ELSE shadows]
        r == startMerge(Fault(a, ~isMerging(a.list[i].next)), key, version)
    IN  [r.app EXCEPT !.list[i].next = r.fb]

commit(a, i) ==
    IF ~isLive(a.list[i].next) THEN a
    ELSE LET r == resolve(a, a.list[i].next)
         IN  [r.app EXCEPT !.list[i].curr = r.fb.out, !.list[i].next = Clear]

snap(a, i) == [a EXCEPT !.list[i].snap = a.list[i].curr, !.list[i].curr = Null]

resolveAnyReadyFutures(a) ==
    [a EXCEPT !.list = [i \in Levels |-> [@[i] EXCEPT !.next = resolveReady(a, @)]]]

(* Spill the levels from the oldest down, then put the changes of the      *)
(* ledger in level 0, whose merge is waited for.                           *)
addBatch(a, ledger, version, changed) ==
    LET shadows(i) == FlattenSeq([l \in 1 .. i - 1 |-> <<a.list[l - 1].curr, a.list[l - 1].snap>>])
        spill(b, i) ==
            IF ~levelShouldSpill(ledger, i - 1) THEN b
            ELSE LET s == snap(b, i - 1)
                 IN  prepare(commit(s, i), i, ledger, version, s.list[i - 1].snap, shadows(i))
        spilled == FoldLeft(spill, a, [k \in 1 .. NumLevels - 1 |-> NumLevels - k])
        fresh == [v |-> version, in |-> changed]
        zero == prepare(adoptFileAsBucket(spilled, fresh), 0, ledger, version, fresh, <<>>)
    IN  resolveAnyReadyFutures(commit(zero, 0))

(* A mutant of restartMerge that does not round the ledger down to the     *)
(* last spill.                                                             *)
restartMergeUnrounded(a, i, maxProtocolVersion, ledger) ==
    LET next == a.list[i].next
        snapped == a.list[i - 1].snap
        r == makeLive(a, next, maxProtocolVersion, i)
    IN  IF hasHashes(next) THEN [r.app EXCEPT !.list[i].next = r.fb]
        ELSE IF isClear(next) /\ i > 0 /\ snapped # Null
        THEN prepare(a, i, ledger, snapped.v, snapped, <<>>)
        ELSE a

(* Level by level: a stored merge is started again, or its output loaded;  *)
(* a merge that was not stored is the one that the last spill of the level *)
(* below started.                                                          *)
restartMerge(a, i, maxProtocolVersion, ledger) ==
    LET next == a.list[i].next
        snapped == a.list[i - 1].snap
        r == makeLive(a, next, maxProtocolVersion, i)
    IN  IF hasHashes(next) THEN [r.app EXCEPT !.list[i].next = r.fb]
        ELSE IF isClear(next) /\ i > 0 /\ snapped # Null
        THEN prepare(Fault(a, snapped.v >= FIRST_PROTOCOL_SHADOWS_REMOVED), i,
                     mask(ledger, levelHalf(i - 1)), snapped.v, snapped, <<>>)
        ELSE a

(* The loop ends at the first level that has never been filled. *)
restartMerges(a, maxProtocolVersion, ledger) ==
    LET untouched == {i \in Levels \ {0} : isClear(a.list[i].next) /\ a.list[i - 1].snap = Null}
        end == Min(untouched \cup {NumLevels})
    IN  FoldLeft(LAMBDA b, i : restartMerge(b, i - 1, maxProtocolVersion, ledger),
                 a, [k \in 1 .. end |-> k])

assumeState(a, has, maxProtocolVersion) ==
    LET buckets == UNION {{has.level[i].curr, has.level[i].snap} : i \in Levels}
        b == [getBuckets(a, buckets) EXCEPT !.list = has.level]
    IN  cleanupStaleFiles(restartMerges(b, maxProtocolVersion, has.ledger))

(* HistoryArchiveState::containsValidBuckets *)
containsValidBuckets(has) ==
    \A i \in Levels \ {0} :
        LET snapped == has.level[i - 1].snap
        IN  snapped # Null =>
                IF snapped.v >= FIRST_PROTOCOL_SHADOWS_REMOVED
                THEN isClear(has.level[i].next) ELSE hasOutputHash(has.level[i].next)
=============================================================================

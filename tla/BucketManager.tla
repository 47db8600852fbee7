--------------------------- MODULE BucketManager ---------------------------
(***************************************************************************)
(* The bucket manager, and the FutureBucket of a level: bucket files, the  *)
(* buckets in memory, the merges of the worker threads, and the collection *)
(* of files that nothing needs.  `a' is the record of the node:            *)
(*   files     bucket files on disk                                        *)
(*   shared    mSharedBuckets                                              *)
(*   tasks     keys of the merges given to the worker threads, which are   *)
(*             also those of mLiveFutures                                  *)
(*   finished  mFinishedMerges, as pairs of a key and its output           *)
(*   list      the levels of the bucket list                               *)
(*   tx        the database as the open transaction sees it                *)
(*   usage     mPublishQueueBuckets; filled: mPublishQueueBucketsFilled    *)
(*   work      the publication in progress, held its downloaded buckets    *)
(*                                                                         *)
(* An operator that stands for a method gives back the new record; with a  *)
(* result, a record with the fields app and fb.                            *)
(***************************************************************************)
EXTENDS Buckets

Fault(a, ok) == IF ok THEN a ELSE [a EXCEPT !.fault = TRUE]

(* The states of a FutureBucket. *)
Clear == [st |-> "FB_CLEAR"]
LiveInputs(key) == [st |-> "FB_LIVE_INPUTS", key |-> key]
LiveOutput(b) == [st |-> "FB_LIVE_OUTPUT", out |-> b]
isClear(fb) == fb.st = "FB_CLEAR"
isMerging(fb) == fb.st = "FB_LIVE_INPUTS"
isLive(fb) == fb.st \in {"FB_LIVE_INPUTS", "FB_LIVE_OUTPUT"}
hasHashes(fb) == fb.st \in {"FB_HASH_INPUTS", "FB_HASH_OUTPUT"}
hasOutputHash(fb) == fb.st \in {"FB_LIVE_OUTPUT", "FB_HASH_OUTPUT"}

(* What the database and the archive keep of a FutureBucket. *)
save(fb) ==
    CASE isMerging(fb) -> [st |-> "FB_HASH_INPUTS", key |-> fb.key]
      [] fb.st = "FB_LIVE_OUTPUT" -> [st |-> "FB_HASH_OUTPUT", out |-> fb.out]
      [] OTHER -> fb

Inputs(key) == ({key.curr, key.snap} \cup ToSet(key.shadows)) \ {Null}
getHashes(fb) == IF isClear(fb) THEN {}
                 ELSE IF hasOutputHash(fb) THEN {fb.out} ELSE Inputs(fb.key)

(* Bucket::merge: the version is that of the inputs and of the old shadows. *)
mergeVersion(key) ==
    Max({key.curr.v, key.snap.v}
          \cup {s.v : s \in {t \in ToSet(key.shadows) : t.v < FIRST_PROTOCOL_SHADOWS_REMOVED}})
merge(key) == [v |-> mergeVersion(key), in |-> key.curr.in \cup key.snap.in]

(* getBucketByHash for each bucket of B, none of which may be missing. *)
getBuckets(a, B) ==
    LET b == [a EXCEPT !.shared = @ \cup ((B \ {Null}) \cap a.files)]
    IN  Fault(b, B \ {Null} \subseteq b.shared)

adoptFileAsBucket(a, b) == [a EXCEPT !.files = @ \cup {b}, !.shared = @ \cup {b}]

(* The worker reads the inputs, adopts the output and makes the future     *)
(* ready; until then the worker's own pointer keeps the output.            *)
endMerge(a, key) ==
    LET b == adoptFileAsBucket(Fault(a, Inputs(key) \subseteq a.files), merge(key))
    IN  [b EXCEPT !.tasks = @ \ {key},
                  !.finished = @ \cup {[key |-> key, out |-> merge(key)]}]

mergeComplete(a, fb) == fb.key \notin a.tasks

(* Attach to the running merge, or to the output of a finished one, or     *)
(* give a new merge to the worker threads.                                 *)
startMerge(a, key, maxProtocolVersion) ==
    LET known == key \notin a.tasks /\ \E m \in a.finished : m.key = key
        legal == /\ mergeVersion(key) <= maxProtocolVersion
                 /\ mergeVersion(key) >= FIRST_PROTOCOL_SHADOWS_REMOVED => key.shadows = <<>>
    IN  [app |-> IF known THEN a ELSE Fault([a EXCEPT !.tasks = @ \cup {key}], legal),
         fb |-> LiveInputs(key)]

(* The output; the main thread waits for a merge that has not ended. *)
resolve(a, fb) ==
    IF ~isMerging(fb) THEN [app |-> a, fb |-> fb]
    ELSE [app |-> IF mergeComplete(a, fb) THEN a ELSE endMerge(a, fb.key),
          fb |-> LiveOutput(merge(fb.key))]

resolveReady(a, fb) == IF isMerging(fb) /\ mergeComplete(a, fb)
                       THEN LiveOutput(merge(fb.key)) ELSE fb

makeLive(a, fb, maxProtocolVersion, level) ==
    IF hasOutputHash(fb)
    THEN [app |-> getBuckets(a, {fb.out}), fb |-> LiveOutput(fb.out)]
    ELSE startMerge(getBuckets(a, Inputs(fb.key)),
                    [fb.key EXCEPT !.keep = keepDeadEntries(level)], maxProtocolVersion)

(* HistoryArchiveState: the buckets it names. *)
allBuckets(has) ==
    UNION {{has.level[i].curr, has.level[i].snap} \cup getHashes(has.level[i].next) :
             i \in Levels} \ {Null}

(* Buckets that someone besides mSharedBuckets points to: use_count() > 1. *)
InUse(a) ==
    LET future(fb) ==
            IF ~isLive(fb) THEN {}
            ELSE getHashes(fb) \cup
                 (IF isMerging(fb) /\ mergeComplete(a, fb) THEN {merge(fb.key)} ELSE {})
    IN  UNION {{a.list[i].curr, a.list[i].snap} \cup future(a.list[i].next) : i \in Levels}
          \cup UNION {Inputs(key) : key \in a.tasks}
          \cup UNION {future(w.has.level[i].next) : w \in a.work, i \in Levels}
          \cup a.held

(* loadBucketsReferencedByPublishQueue, once. *)
fillUsage(a) ==
    IF a.filled THEN a
    ELSE [a EXCEPT !.filled = TRUE,
                   !.usage = FoldSet(LAMBDA has, u : u (+) SetToBag(allBuckets(has)),
                                     EmptyBag, a.tx.queue)]

(* A mutant of getReferencedBuckets that trusts the list in memory to be   *)
(* what the database says of it.                                           *)
getReferencedBucketsInMemory(a) ==
    LET listed == UNION {{a.list[i].curr, a.list[i].snap} \cup getHashes(a.list[i].next) :
                           i \in Levels}
    IN  listed \cup BagToSet(a.usage)

(* The list, the last closed ledger of the database and the publish queue, *)
(* with the outputs of merges that the queue could attach to again.        *)
getReferencedBuckets(a) ==
    LET listed == UNION {{a.list[i].curr, a.list[i].snap} \cup getHashes(a.list[i].next) :
                           i \in Levels}
        queued == BagToSet(a.usage) \ (listed \cup allBuckets(a.tx.has))
        outputs == {m.out : m \in {n \in a.finished : Inputs(n.key) \cap queued # {}}}
    IN  listed \cup allBuckets(a.tx.has) \cup queued \cup outputs

forgetUnreferencedBuckets(a) ==
    LET b == fillUsage(a)
        drop == a.shared \ (getReferencedBuckets(b) \cup InUse(b))
    IN  [b EXCEPT !.shared = @ \ drop, !.files = @ \ drop,
                  !.finished = {m \in @ : m.out \notin drop}]

(* Files left over by an earlier process. *)
cleanupStaleFiles(a) ==
    LET b == fillUsage(a)
    IN  [b EXCEPT !.files = @ \cap (getReferencedBuckets(b) \cup b.shared)]
=============================================================================

------------------------------ MODULE Buckets ------------------------------
(***************************************************************************)
(* Buckets and the schedule of the bucket list.  A bucket is known by what *)
(* it holds: the protocol version of its META entry, and the ledgers whose *)
(* changes it holds.  Two buckets with the same contents are the same      *)
(* file.  Each ledger changes entries of its own, so a merge is a union    *)
(* and no entry is shadowed by another; a shadow only has to be there.     *)
(***************************************************************************)
EXTENDS Integers, FiniteSets, Bags, SequencesExt

CONSTANT NumLevels   \* BucketList::kNumLevels

ASSUME LevelsAssumption == NumLevels \in Nat \ {0, 1}

Levels == 0 .. NumLevels - 1

FIRST_PROTOCOL_SHADOWS_REMOVED == 12

Null == [v |-> 0, in |-> {}]   \* the empty bucket, whose hash is zero

levelSize(level) == 4 ^ (level + 1)
levelHalf(level) == levelSize(level) \div 2
mask(v, m) == v - (v % m)      \* m is a power of two

levelShouldSpill(ledger, level) ==
    /\ level # NumLevels - 1
    /\ \/ ledger = mask(ledger, levelHalf(level))
       \/ ledger = mask(ledger, levelSize(level))

keepDeadEntries(level) == level < NumLevels - 1

(* How many ledgers the curr and the snap of a level hold after a ledger:  *)
(* the closed form that the code computes beside the list itself.          *)
RECURSIVE sizeOfCurr(_, _), sizeOfSnap(_, _)
Younger(ledger, level) ==
    MapThenSumSet(LAMBDA l : sizeOfCurr(ledger, l) + sizeOfSnap(ledger, l), 0 .. level - 1)

sizeOfCurr(ledger, level) ==
    LET size == levelSize(level)
        half == levelHalf(level)
        delta == 2 ^ (2 * level - 1)
        prevSize == levelSize(level - 1)
        prevHalf == levelHalf(level - 1)
        previous == Max({mask(ledger - 1, m) : m \in {prevHalf, prevSize, half, size}})
    IN  IF level = 0 THEN IF ledger = 1 THEN 1 ELSE 1 + (ledger % 2)
        ELSE IF level # NumLevels - 1 /\ mask(ledger, half) # 0
        THEN IF ledger \in {mask(ledger, half), mask(ledger, size)} THEN delta
             ELSE IF ledger \in {mask(ledger, prevHalf), mask(ledger, prevSize)}
             THEN sizeOfCurr(previous, level) + delta
             ELSE sizeOfCurr(previous, level)
        ELSE ledger - Younger(ledger, level)

sizeOfSnap(ledger, level) ==
    IF level = NumLevels - 1 THEN 0
    ELSE IF mask(ledger, levelSize(level)) # 0 THEN levelHalf(level)
    ELSE ledger - (Younger(ledger, level) + sizeOfCurr(ledger, level))

oldestLedgerInCurr(ledger, level) ==
    ledger - (Younger(ledger, level) + sizeOfCurr(ledger, level)) + 1
oldestLedgerInSnap(ledger, level) == ledger - Younger(ledger, level + 1) + 1
=============================================================================

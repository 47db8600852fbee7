------------------------------- MODULE TxSet -------------------------------
(***************************************************************************)
(* Transaction sets: what makes one valid, how an invalid one is trimmed   *)
(* and which transactions surge pricing keeps.  These are the operations   *)
(* of src/src/herder/TxSetFrame.cpp, for protocol versions from 11 on.     *)
(*                                                                         *)
(* A transaction is a record with its type, its source account and its fee *)
(* account, its sequence number, its fee bid and its number of operations. *)
(* "env" is what a set is judged by: the version, the sequence numbers and *)
(* the available balances of the ledger, the transactions that are invalid *)
(* by themselves (bad signatures, past time bounds and the like) and the   *)
(* limit.                                                                  *)
(***************************************************************************)
EXTENDS Integers, Sequences, SequencesExt, FiniteSetsExt

SumOps(S) == MapThenSumSet(LAMBDA tx : tx.ops, S)
SumFees(S) == MapThenSumSet(LAMBDA tx : tx.fee, S)
Sources(S) == {tx.src : tx \in S}

buildAccountTxQueues(S) ==
    [a \in Sources(S) |->
        SetToSortSeq({tx \in S : tx.src = a}, LAMBDA t, u : t.seq < u.seq)]

(* TransactionFrame::commonValid: the version, the sequence number and the *)
(* fee; lastSeq is 0 for the first transaction of an account.              *)
isBadSeq(env, tx, lastSeq) ==
    tx.seq # (IF lastSeq = 0 THEN env.seq[tx.src] ELSE lastSeq) + 1
CanAfford(env, tx) == tx.fee <= env.balance[tx.feeSrc]
commonValid(env, tx, lastSeq) ==
    /\ tx.type = IF env.upgraded THEN "V1" ELSE "V0"
    /\ ~isBadSeq(env, tx, lastSeq)
    /\ CanAfford(env, tx)

(* FeeBumpTransactionFrame::checkValid: the fee account pays, and the      *)
(* transaction inside is charged nothing.                                  *)
checkValidBump(env, tx, lastSeq) ==
    env.upgraded /\ CanAfford(env, tx) /\ ~isBadSeq(env, tx, lastSeq)

checkValidTx(env, tx, lastSeq) ==
    /\ tx \notin env.bad
    /\ IF tx.type = "BUMP" THEN checkValidBump(env, tx, lastSeq)
       ELSE commonValid(env, tx, lastSeq)

(* The first loop of checkOrTrim keeps the valid transactions of an        *)
(* account, each judged after the last one that was kept.                  *)
KeepValid(env, txs) ==
    LET Keep(kept, tx) ==
            LET lastSeq == IF kept = <<>> THEN 0 ELSE Last(kept).seq
            IN  IF checkValidTx(env, tx, lastSeq) THEN Append(kept, tx) ELSE kept
    IN  FoldLeft(Keep, <<>>, txs)

(* What checkOrTrim leaves of a set.  The second loop drops a transaction  *)
(* whose fee account cannot pay for all that it is to pay for, and with it *)
(* the later ones of the same source.                                      *)
checkOrTrim(env, S) ==
    LET txs == buildAccountTxQueues(S)
        valid == UNION {ToSet(KeepValid(env, txs[a])) : a \in Sources(S)}
        CanPay(tx) == SumFees({u \in valid : u.feeSrc = tx.feeSrc}) <= env.balance[tx.feeSrc]
    IN  {tx \in valid : \A u \in valid : u.src = tx.src /\ u.seq <= tx.seq => CanPay(u)}

trimInvalid(env, S) == checkOrTrim(env, S)

checkValidSet(env, S) == SumOps(S) <= env.maxOps /\ checkOrTrim(env, S) = S

-----------------------------------------------------------------------------
(* Surge pricing takes transactions by fee per operation, the transactions *)
(* of an account in order; a tie is broken at random.                      *)

BidsLess(t, u) == t.fee * u.ops < u.fee * t.ops

(* Slip: the transactions that follow one that does not fit are kept. *)
InspectSkipsOne(x, a) ==
    LET top == Head(x.txs[a])
    IN  IF top.ops <= x.opsLeft
        THEN [txs |-> [x.txs EXCEPT ![a] = Tail(@)],
              opsLeft |-> x.opsLeft - top.ops, updated |-> x.updated \cup {top}]
        ELSE [x EXCEPT !.txs[a] = Tail(@)]

(* Slip: the first transaction that does not fit ends the search. *)
InspectStops(x, a) ==
    LET top == Head(x.txs[a])
    IN  IF top.ops <= x.opsLeft
        THEN [txs |-> [x.txs EXCEPT ![a] = Tail(@)],
              opsLeft |-> x.opsLeft - top.ops, updated |-> x.updated \cup {top}]
        ELSE [x EXCEPT !.opsLeft = 0]

(* One pass of the loop: the top transaction of account a is taken, or     *)
(* dropped with all that follow it.                                        *)
Inspect(x, a) ==
    LET top == Head(x.txs[a])
    IN  IF top.ops <= x.opsLeft
        THEN [txs |-> [x.txs EXCEPT ![a] = Tail(@)],
              opsLeft |-> x.opsLeft - top.ops, updated |-> x.updated \cup {top}]
        ELSE [x EXCEPT !.txs[a] = <<>>]

SurgeStep(x) ==
    LET live == {a \in DOMAIN x.txs : x.txs[a] # <<>>}
        best == {a \in live : \A b \in live : ~BidsLess(Head(x.txs[a]), Head(x.txs[b]))}
    IN  IF x.opsLeft = 0 \/ live = {} THEN {x} ELSE {Inspect(x, a) : a \in best}

(* The sets surgePricingFilter may leave of S. *)
surgePricingFilter(env, S) ==
    LET start == [txs |-> buildAccountTxQueues(S), opsLeft |-> env.maxOps, updated |-> {}]
        reached[k \in 0..Cardinality(S)] ==
            IF k = 0 THEN {start} ELSE UNION {SurgeStep(x) : x \in reached[k - 1]}
    IN  IF SumOps(S) <= env.maxOps THEN {S}
        ELSE {x.updated : x \in reached[Cardinality(S)]}
=============================================================================

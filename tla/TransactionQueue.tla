-------------------------- MODULE TransactionQueue --------------------------
(***************************************************************************)
(* The queue of transactions that wait to be proposed:                     *)
(* src/src/herder/TransactionQueue.cpp, with the calls the herder makes    *)
(* when a ledger closes (HerderImpl::updateTransactionQueue) and when it   *)
(* proposes one (HerderImpl::triggerNextLedger).                           *)
(*                                                                         *)
(* A transaction is a record; the record is its full hash.  "BUMP" is a    *)
(* fee-bump transaction, whose fee account may differ from its source and  *)
(* which holds the hash of the transaction inside.  A protocol upgrade     *)
(* turns every "V0" transaction into the "V1" transaction with the same    *)
(* content.                                                                *)
(***************************************************************************)
EXTENDS TxSet, Functions

CONSTANTS
    Account,
    Tx,               \* the transactions that may be submitted
    PendingDepth,     \* ledgers an account may go without an applied transaction
    BanDepth,         \* ledgers a transaction stays banned
    MaxTxSetOps,      \* the limits of a transaction set the ledger header may state
    PoolMultiplier,   \* mPoolLedgerMultiplier
    FeeMultiplier,    \* FEE_MULTIPLIER
    MaxSeq,           \* bound: the largest sequence number of each account
    MayBump,          \* accounts whose sequence number an operation may raise
    Balance           \* the available balances an account may have

(* A fee-bump's "inner" is the transaction it wraps; others are their own. *)
TxType == {"V0", "V1", "BUMP"}
ToV1(tx) == IF tx.type = "V0" THEN [tx EXCEPT !.type = "V1"] ELSE tx
TxHash == Tx \cup {ToV1(tx) : tx \in Tx}

ASSUME QueueAssumption ==
    /\ \A tx \in Tx : /\ tx.src \in Account /\ tx.feeSrc \in Account
                      /\ tx.seq \in 1..MaxSeq[tx.src] /\ tx.fee \in Nat \ {0}
                      /\ tx.ops \in Nat \ {0} /\ tx.type \in TxType
                      /\ tx.type # "BUMP" => tx.feeSrc = tx.src
    /\ PendingDepth \in Nat \ {0} /\ BanDepth \in Nat \ {0}
    /\ MaxSeq \in [Account -> Nat]
    /\ MaxTxSetOps \subseteq Nat /\ MaxTxSetOps # {} /\ PoolMultiplier \in Nat
    /\ FeeMultiplier \in Nat
    /\ Balance \subseteq Nat /\ Balance # {} /\ MayBump \subseteq Account

Age == 0..PendingDepth - 1
HighestSeq == Max(Range(MaxSeq))

(* mAccountStates; "NoState" stands for an account without an entry. *)
AccountState ==
    [entry : BOOLEAN, totalFees : Nat, ops : Nat, age : Age, txs : Seq(TxHash)]
NoState == [entry |-> FALSE, totalFees |-> 0, ops |-> 0, age |-> 0, txs |-> <<>>]

Queue ==
    [acc : [Account -> AccountState],
     sizeByAge : [Age -> Int],               \* mSizeByAge
     ops : Nat,                              \* mQueueSizeOps
     banned : Seq(SUBSET TxHash),            \* mBannedTransactions
     fault : BOOLEAN]                        \* an assert failed

isBanned(q, tx) == \E k \in DOMAIN q.banned : tx \in q.banned[k]

-----------------------------------------------------------------------------
(* findBySeq: the place of a sequence number, Len + 1 for the end, or 0    *)
(* when it is out of range.  The two asserts are part of it.               *)
findBySeq(seq, txs) ==
    IF seq < Head(txs).seq \/ seq > Last(txs).seq + 1 THEN 0 ELSE seq - Head(txs).seq + 1
BadPlace(seq, txs) ==
    LET at == findBySeq(seq, txs)
    IN  at > Len(txs) + 1 \/ (at \in DOMAIN txs /\ txs[at].seq # seq)

isDuplicateTx(old, tx) ==
    old = tx \/ (old.type = "BUMP" /\ tx.type = "V1" /\ old.inner = tx.inner)

canReplaceByFee(tx, old) == tx.fee * old.ops >= FeeMultiplier * old.fee * tx.ops

(* Slip: the source of the transaction gets the fee back. *)
releaseFeeToSource(q, tx) ==
    LET st == q.acc[tx.src]
        left == st.totalFees - tx.fee
    IN  IF ~st.entry \/ left < 0 THEN [q EXCEPT !.fault = TRUE]
        ELSE [q EXCEPT !.acc[tx.src] =
                 IF st.txs = <<>> /\ left = 0 THEN NoState ELSE [st EXCEPT !.totalFees = left]]

(* releaseFeeMaybeEraseAccountState *)
releaseFee(q, tx) ==
    LET st == q.acc[tx.feeSrc]
        left == st.totalFees - tx.fee
    IN  IF ~st.entry \/ left < 0 THEN [q EXCEPT !.fault = TRUE]
        ELSE [q EXCEPT !.acc[tx.feeSrc] =
                 IF st.txs = <<>> /\ left = 0 THEN NoState ELSE [st EXCEPT !.totalFees = left]]

(* dropTransactions: the transactions of account a at the places in range  *)
(* are dropped.                                                            *)
DropOne(q, tx) ==
    releaseFee([q EXCEPT !.acc[tx.src].ops = @ - tx.ops, !.ops = @ - tx.ops], tx)
dropTransactions(q, a, range) ==
    LET txs == q.acc[a].txs
        At(places) == [k \in 1..Cardinality(places) |-> txs[SetToSortSeq(places, <)[k]]]
        r == FoldLeft(DropOne, q, At(range))
        rest == At(DOMAIN txs \ range)
        st == [r.acc[a] EXCEPT !.txs = rest]
    IN  [r EXCEPT !.acc[a] = IF rest # <<>> THEN st
                             ELSE IF st.totalFees = 0 THEN NoState ELSE [st EXCEPT !.age = 0]]

-----------------------------------------------------------------------------
(* Slip: only the transaction itself goes. *)
BannedRangeOfOne(txs, S) ==
    LET matches == {k \in DOMAIN txs : txs[k] \in S}
    IN  IF matches = {} THEN {} ELSE {Min(matches)}

(* The transactions of an account that ban drops: the first that is in S   *)
(* and all that follow it.                                                 *)
BannedRange(txs, S) ==
    LET matches == {k \in DOMAIN txs : txs[k] \in S}
    IN  IF matches = {} THEN {} ELSE Min(matches)..Len(txs)

(* ban: the transactions in S are banned; of each account the first that   *)
(* is in the queue goes, and with it all that follow it.                   *)
BanFrom(q, a, S) ==
    LET txs == q.acc[a].txs
        range == BannedRange(txs, S)
    IN  IF txs = <<>> THEN q
        ELSE dropTransactions(
               [q EXCEPT !.banned[1] = @ \cup {txs[k] : k \in range},
                         !.sizeByAge[q.acc[a].age] = @ - Cardinality(range),
                         !.fault = @ \/ \E tx \in S : tx.src = a /\ BadPlace(tx.seq, txs)],
               a, range)
ban(q, S) ==
    FoldSet(LAMBDA a, r : BanFrom(r, a, S), [q EXCEPT !.banned[1] = @ \cup S],
            {tx.src : tx \in S})

(* removeApplied: seq[a] is the highest sequence number of a that was      *)
(* applied, 0 for none.                                                    *)
AppliedUpTo(txs, seq) ==
    LET at == findBySeq(seq, txs)
    IN  IF at \in DOMAIN txs THEN 1..at ELSE DOMAIN txs
RemoveUpTo(q, a, seq) ==
    LET st == q.acc[a]
        range == AppliedUpTo(st.txs, seq)
        young == [q EXCEPT !.acc[a].age = 0, !.sizeByAge[st.age] = @ - Len(st.txs),
                           !.fault = @ \/ BadPlace(seq, st.txs)]
    IN  IF st.txs = <<>> \/ Head(st.txs).seq > seq THEN q
        ELSE dropTransactions([young EXCEPT !.sizeByAge[0] = @ + Len(st.txs) - Cardinality(range)],
                              a, range)
removeApplied(q, seq) ==
    FoldSet(LAMBDA a, r : RemoveUpTo(r, a, seq[a]), q, {a \in Account : seq[a] # 0})

(* Slip: the operations of the account are still counted. *)
ExpireKeepsOps(q, a) ==
    LET r == FoldLeft(releaseFee, q, q.acc[a].txs)
        st == [r.acc[a] EXCEPT !.txs = <<>>, !.age = 0]
    IN  [r EXCEPT !.banned[1] = @ \cup ToSet(q.acc[a].txs),
                  !.ops = @ - q.acc[a].ops,
                  !.acc[a] = IF st.totalFees = 0 THEN NoState ELSE st]

(* shift: every account with transactions is a ledger older, and the ones  *)
(* that are too old lose theirs.                                           *)
Expire(q, a) ==
    LET r == FoldLeft(releaseFee, q, q.acc[a].txs)
        st == [r.acc[a] EXCEPT !.txs = <<>>, !.ops = 0, !.age = 0]
    IN  [r EXCEPT !.banned[1] = @ \cup ToSet(q.acc[a].txs),
                  !.ops = @ - q.acc[a].ops,
                  !.acc[a] = IF st.totalFees = 0 THEN NoState ELSE st]

Older(q) == [q EXCEPT !.banned = <<{}>> \o Front(@),
    !.acc = [a \in Account |->
                IF @[a].txs # <<>> THEN [@[a] EXCEPT !.age = @ + 1] ELSE @[a]]]
CountByAge(q) == [k \in Age |-> SumFunction([a \in Account |->
                    IF q.acc[a].age = k THEN Len(q.acc[a].txs) ELSE 0])]
shift(q) ==
    LET older == Older(q)
        left == FoldSet(LAMBDA a, r : Expire(r, a), older,
                        {a \in Account : older.acc[a].age = PendingDepth})
    IN  [left EXCEPT !.sizeByAge = CountByAge(left)]

(* Slip: the bans stay. *)
maybeVersionUpgradedKeepsBans(q) ==
    [q EXCEPT !.acc = [a \in Account |->
                [@[a] EXCEPT !.txs = [k \in DOMAIN @ |-> ToV1(@[k])]]]]

(* maybeVersionUpgraded, when the protocol version has reached 13. *)
maybeVersionUpgraded(q) ==
    [q EXCEPT !.banned = [k \in DOMAIN @ |-> {}],
              !.acc = [a \in Account |->
                [@[a] EXCEPT !.txs = [k \in DOMAIN @ |-> ToV1(@[k])]]]]

-----------------------------------------------------------------------------
VARIABLES
    queue,     \* the TransactionQueue
    ledger,    \* of each account: the sequence number, and the highest one a
               \* transaction of its own used
    upgraded,  \* the protocol version is 13
    threw      \* triggerNextLedger threw "wanting to emit an invalid txSet"

vars == <<queue, ledger, upgraded, threw>>

Init ==
    /\ queue = [acc |-> [a \in Account |-> NoState], sizeByAge |-> [k \in Age |-> 0],
                ops |-> 0, banned |-> [k \in 1..BanDepth |-> {}], fault |-> FALSE]
    /\ ledger \in [Account -> [seq : {0}, used : {0}]]
    /\ upgraded \in BOOLEAN
    /\ threw = FALSE

(* The transaction with the sequence number of tx, if there is one. *)
Old(q, tx) ==
    LET txs == q.acc[tx.src].txs
        at == findBySeq(tx.seq, txs)
    IN  IF txs # <<>> /\ at \in DOMAIN txs THEN {txs[at]} ELSE {}
Replaced(q, tx) == IF tx.type = "BUMP" THEN Old(q, tx) ELSE {}

(* What a transaction is judged by; which of them are invalid by           *)
(* themselves changes from call to call.                                   *)
Env(balance, maxOps, bad) ==
    [seq |-> [a \in Account |-> ledger[a].seq], upgraded |-> upgraded,
     balance |-> balance, maxOps |-> maxOps, bad |-> bad]

(* Slip: the fee of the replaced transaction is always set against the new *)
(* one.                                                                    *)
NetFeeAnyPayer(tx, replaced) == tx.fee - SumFees(replaced)

NetFee(tx, replaced) == tx.fee - SumFees({old \in replaced : old.feeSrc = tx.feeSrc})

maxQueueSizeOps(maxOps) == maxOps * PoolMultiplier

canAdd(q, tx, env) ==
    LET txs == q.acc[tx.src].txs
        replaced == Replaced(q, tx)
        netOps == tx.ops - SumOps(replaced)
        seqNum == IF txs = <<>> THEN 0
                  ELSE IF tx.type = "BUMP" THEN tx.seq - 1 ELSE Last(txs).seq
    IN  IF isBanned(q, tx) THEN "TRY_AGAIN_LATER"
        ELSE IF \E old \in Old(q, tx) : isDuplicateTx(old, tx) THEN "DUPLICATE"
        ELSE IF tx.type = "BUMP" /\ txs # <<>> /\ findBySeq(tx.seq, txs) = 0 THEN "ERROR"
        ELSE IF \E old \in replaced : ~canReplaceByFee(tx, old) THEN "ERROR"
        ELSE IF netOps + q.ops > maxQueueSizeOps(env.maxOps) THEN "FULL"
        ELSE IF ~checkValidTx(env, tx, seqNum) THEN "ERROR"
        ELSE IF env.balance[tx.feeSrc] - NetFee(tx, replaced) < q.acc[tx.feeSrc].totalFees THEN "ERROR"
        ELSE "PENDING"

Charge(q, tx) ==
    [q EXCEPT !.acc[tx.feeSrc].entry = TRUE, !.acc[tx.feeSrc].totalFees = @ + tx.fee]

(* The part of tryAdd that follows canAdd. *)
Insert(q, tx) ==
    LET txs == q.acc[tx.src].txs
        at == findBySeq(tx.seq, txs)
        age == q.acc[tx.src].age
        freed == IF Replaced(q, tx) = {}
                 THEN [q EXCEPT !.acc[tx.src].txs = Append(@, tx), !.sizeByAge[age] = @ + 1]
                 ELSE [DropOne(q, txs[at]) EXCEPT !.acc[tx.src].txs[at] = tx]
        counted == [freed EXCEPT !.acc[tx.src].entry = TRUE,
                                 !.acc[tx.src].ops = @ + tx.ops, !.ops = @ + tx.ops]
    IN  Charge(counted, tx)

(* A transaction is submitted; one that finds the queue full is banned.    *)
(* The balance of the account that pays is whatever it is by now; one that *)
(* is invalid by itself changes nothing.                                   *)
tryAdd(tx) ==
    \E balance \in Balance, maxOps \in MaxTxSetOps :
        LET res == canAdd(queue, tx, Env([a \in Account |-> balance], maxOps, {}))
        IN  /\ \/ res = "PENDING" /\ queue' = Insert(queue, tx)
               \/ res = "FULL" /\ queue' = ban(queue, {tx})
            /\ UNCHANGED <<ledger, upgraded, threw>>

Queued == UNION {ToSet(queue.acc[a].txs) : a \in Account}

(* Of each account toTxSet takes the transactions up to the one before     *)
(* startingSeq, if there is one.                                           *)
toTxSet(q, startingSeq) ==
    {tx \in Queued : \A u \in Queued : u.src = tx.src /\ u.seq = startingSeq - 1
                                         => tx.seq <= u.seq}

(* triggerNextLedger proposes the queue: what trimInvalid removes is       *)
(* banned, and what surge pricing leaves is checked before it is emitted.  *)
(* Any transactions may have become invalid by themselves.                 *)
TriggerNextLedger ==
    \E startingSeq \in 2..HighestSeq + 1, bad \in SUBSET Queued,
       balance \in [Account -> Balance], maxOps \in MaxTxSetOps :
        LET env == Env(balance, maxOps, bad)
            proposedSet == toTxSet(queue, startingSeq)
            trimmed == trimInvalid(env, proposedSet)
        IN  /\ queue' = ban(queue, proposedSet \ trimmed)
            /\ \E final \in surgePricingFilter(env, trimmed) :
                 threw' = (threw \/ ~checkValidSet(env, final))
            /\ UNCHANGED <<ledger, upgraded>>

(* A ledger closes.  It may hold transactions this queue never saw, and an *)
(* operation may have raised a sequence number.                            *)
LedgerClosed ==
    \E seq, newSeq \in [Account -> 0..HighestSeq] :
        /\ \A a \in Account :
             /\ newSeq[a] <= MaxSeq[a]
             /\ seq[a] = 0 \/ seq[a] > ledger[a].seq
             /\ newSeq[a] >= seq[a] /\ newSeq[a] >= ledger[a].seq
             /\ a \in MayBump \/ newSeq[a] \in {seq[a], ledger[a].seq}
        /\ ledger' = [a \in Account |->
                        [seq |-> newSeq[a],
                         used |-> IF seq[a] = 0 THEN ledger[a].used ELSE seq[a]]]
        /\ UNCHANGED threw
        /\ LET q == shift(removeApplied(queue, seq))
           IN  \/ queue' = q /\ UNCHANGED upgraded
               \/ ~upgraded /\ upgraded' = TRUE /\ queue' = maybeVersionUpgraded(q)

Next ==
    \/ \E tx \in Tx : tryAdd(tx)
    \/ TriggerNextLedger
    \/ LedgerClosed

Spec == Init /\ [][Next]_vars

-----------------------------------------------------------------------------
TypeOK ==
    /\ queue \in Queue /\ Len(queue.banned) = BanDepth
    /\ \A a \in Account : ledger[a] \in [seq : 0..MaxSeq[a], used : 0..MaxSeq[a]]
    /\ upgraded \in BOOLEAN /\ threw \in BOOLEAN

(* No assert of TransactionQueue.cpp fails: a fee is always released from  *)
(* an account that has it, and a sequence number is where it should be.    *)
NoFault == ~queue.fault

(* The transactions of an account have consecutive sequence numbers, which *)
(* findBySeq relies on, and leave no gap to the ledger.                    *)
Consecutive ==
    \A a \in Account : LET txs == queue.acc[a].txs IN
        /\ \A k \in DOMAIN txs : txs[k].src = a /\ txs[k].seq = Head(txs).seq + k - 1
        /\ txs # <<>> => Head(txs).seq <= ledger[a].seq + 1

(* The books of the queue are those of the transactions in it, however     *)
(* they were replaced, banned, applied or expired: mTotalFees is what an   *)
(* account bids in all that it pays for, the sizes count the operations    *)
(* and, by age, the transactions, and an account has an entry as long as   *)
(* it takes part in one.                                                   *)
BooksExact ==
    /\ \A a \in Account : LET st == queue.acc[a]
                              paid == {tx \in Queued : tx.feeSrc = a} IN
         /\ st.totalFees = SumFees(paid)
         /\ st.ops = SumOps(ToSet(st.txs))
         /\ st.entry <=> (paid # {} \/ st.txs # <<>>)
    /\ queue.ops = SumOps(Queued)
    /\ queue.sizeByAge = CountByAge(queue)

(* The queue keeps its limits: no more operations than it may hold, and no *)
(* account that bids more than it ever had.  Of the fee of a transaction   *)
(* that is replaced, only what the same account would have paid is set     *)
(* against the new one.                                                    *)
WithinLimits ==
    /\ queue.ops <= maxQueueSizeOps(Max(MaxTxSetOps))
    /\ \A a \in Account : queue.acc[a].totalFees <= Max(Balance)

(* The queue holds nothing that is dead: no transaction whose sequence     *)
(* number a ledger has used, under whatever hash, and none that isBanned   *)
(* knows of.  An upgrade turns a queued transaction into one that may have *)
(* been banned already; it lifts all bans at that moment, so a transaction *)
(* banned before the upgrade may come back at once under its new hash, and *)
(* the property says nothing of that one.                                  *)
NothingDead ==
    \A tx \in Queued : tx.seq > ledger[tx.src].used /\ ~isBanned(queue, tx)

(* What a node proposes passes its own check: whatever trimming and surge  *)
(* pricing take out of the queue, the rest is a valid transaction set, and *)
(* triggerNextLedger does not throw.                                       *)
ProposalValid == ~threw

(* Surge pricing leaves no room that the next transaction of some account  *)
(* would fit in.                                                           *)
SurgeFills ==
    \A maxOps \in MaxTxSetOps :
        \A S \in surgePricingFilter([maxOps |-> maxOps], Queued) :
            \A a \in Account : LET left == {tx \in Queued \ S : tx.src = a} IN
                left # {} => LET next == CHOOSE t \in left : \A u \in left : t.seq <= u.seq
                             IN  SumOps(S) + next.ops > maxOps
=============================================================================

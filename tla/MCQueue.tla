------------------------------ MODULE MCQueue ------------------------------
(* A small instance of TransactionQueue: four transactions of one account  *)
(* and one of another, which also offers to pay for the first.             *)
EXTENDS TransactionQueue, TLC

CONSTANTS A, B

Single(id, a, seq, fee, ops, types) ==
    {[inner |-> id, src |-> a, feeSrc |-> a, seq |-> seq, fee |-> fee, ops |-> ops,
      type |-> t] : t \in types}
Bump(id, a, payer, seq, fee, ops) ==
    {[inner |-> id, src |-> a, feeSrc |-> payer, seq |-> seq, fee |-> fee, ops |-> ops,
      type |-> "BUMP"]}

(* B pays for a1 in one fee-bump, and in the other one for a different     *)
(* transaction with the same sequence number.                              *)
Txs == Single("a1", A, 1, 1, 1, {"V0", "V1"}) \cup Single("a2", A, 2, 1, 1, {"V0", "V1"})
       \cup Single("b1", B, 1, 3, 2, {"V1"})
       \cup Bump("a1", A, B, 1, 2, 1) \cup Bump("x", A, B, 1, 8, 2)

Seqs == [a \in Account |-> IF a = A THEN 2 ELSE 1]
=============================================================================

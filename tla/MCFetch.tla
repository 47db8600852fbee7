------------------------------ MODULE MCFetch ------------------------------
(* Small instances of EnvelopeFetching.  A transaction set names the       *)
(* ledger it builds on, so no two slots share one.                         *)
EXTENDS EnvelopeFetching, TLC

CONSTANTS a1, a2, a3, b1, n1, n2, q1, q2, ta, tb, tc, p1

Slots == a1 :> 2 @@ a2 :> 2 @@ b1 :> 3 @@ a3 :> 2
Senders == a1 :> n1 @@ a2 :> n2 @@ b1 :> n1 @@ a3 :> n2

(* a2 has a quorum set that is not sane. *)
QSets == a1 :> q1 @@ a2 :> q2 @@ b1 :> q1 @@ a3 :> q1
(* a1 names its transaction set twice; a2 shares it, or not. *)
TxSets == a1 :> <<ta, ta>> @@ a2 :> <<tc>> @@ b1 :> <<tb>> @@ a3 :> <<ta>>
SharedTxSets == a1 :> <<ta, ta>> @@ a2 :> <<ta>> @@ b1 :> <<tb>> @@ a3 :> <<ta>>

OneRefusal == [i \in Item |-> IF i = q1 THEN 1 ELSE 0]
Members == {{n1, n2}, {n2}}
=============================================================================

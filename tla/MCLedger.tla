------------------------------ MODULE MCLedger ------------------------------
(***************************************************************************)
(* An instance of LedgerManager: three levels, a checkpoint every four     *)
(* ledgers, and a protocol upgrade between the first two checkpoints.      *)
(***************************************************************************)
EXTENDS LedgerManager

(* Two ledgers in a row without changes give equal buckets. *)
QuietPair == {3, 4}
=============================================================================

------------------------------- MODULE MCWork -------------------------------
(* Two checkpoints: downloaded side by side, or one after the other while a *)
(* command of another work competes for the only process; and one after    *)
(* the other when closing a ledger may throw.                              *)
EXTENDS WorkTree

Setting(processes, puts, throws) ==
    {[processes |-> processes, puts |-> puts, throws |-> throws]}

SideBySide == Setting(2, 0, FALSE) \cup Setting(1, 1, FALSE)
Throwing == Setting(1, 0, TRUE)
=============================================================================

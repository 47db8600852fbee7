------------------------------- MODULE Nodes -------------------------------
(* The nodes of the network, those that run the protocol and the others. *)
CONSTANT Node
=============================================================================

---------------------------- MODULE MCRefinement ----------------------------
(* The instances of MCBallot, with the history variables. *)
EXTENDS BallotRefinement, MCBallot
=============================================================================

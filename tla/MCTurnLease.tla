--------------------------- MODULE MCTurnLease ---------------------------
(* Instances of TurnLease for TLC. *)
EXTENDS TurnLease
==========================================================================

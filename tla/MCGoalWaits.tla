---------------------------- MODULE MCGoalWaits ----------------------------
(***************************************************************************)
(* Model values for TLC.                                                   *)
(***************************************************************************)
EXTENDS GoalWaits, TLC

Symmetry == Permutations(Agents)

=============================================================================

---------------------------- MODULE MCRestartQueue ----------------------------
(***************************************************************************)
(* Instances of RestartQueue for TLC.                                      *)
(***************************************************************************)
EXTENDS RestartQueue, TLC

CONSTANTS o1, r1, r2, t1, t2, c1, w1, w2, none

(* Watchers are interchangeable; requests are minted by CHOOSE, so they    *)
(* are not.                                                                *)
Symmetry == Permutations({w1, w2})
=============================================================================

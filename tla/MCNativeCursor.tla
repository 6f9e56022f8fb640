--------------------------- MODULE MCNativeCursor ---------------------------
(***************************************************************************)
(* Small instance of NativeCursor: two calls in progress at once.          *)
(***************************************************************************)
EXTENDS NativeCursor, TLC

CONSTANTS c1, c2

MCCall == {c1, c2}
Symmetry == Permutations(MCCall)
=============================================================================

------------------------ MODULE MCResponsePublication ------------------------
(* ResponsePublication on two reply routes: a batch answers one route today, *)
(* the publication code and its tests handle several.                        *)
EXTENDS ResponsePublication
=============================================================================

------------------------ MODULE MCMaintenanceBarrier ------------------------
(* Instances of MaintenanceBarrier for model checking. *)
EXTENDS MaintenanceBarrier, TLC

Symmetry == Permutations(Operator) \cup Permutations(Process)
=============================================================================

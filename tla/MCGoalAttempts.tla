--------------------------- MODULE MCGoalAttempts ---------------------------
(* Instances of GoalAttempts for model checking. *)
EXTENDS GoalAttempts, TLC

CONSTANTS g1, s1, s2, c1, c2, c3

OneGoal == {g1}
TwoStores == {s1, s2}
ThreeCallers == {c1, c2, c3}

\* Two callers share one process, the third has its own.
SharedAndSeparate == c1 :> s1 @@ c2 :> s1 @@ c3 :> s2

Symmetry == Permutations(AttemptId) \cup Permutations(Grant) \cup Permutations({c1, c2})
=============================================================================

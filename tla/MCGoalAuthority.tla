-------------------------- MODULE MCGoalAuthority --------------------------
(* TLC instance of GoalAuthority: identities are interchangeable.          *)
EXTENDS GoalAuthority, TLC

Symmetry == Permutations(Goals) \cup Permutations(Assignments)
            \cup Permutations(Invocations)
=============================================================================

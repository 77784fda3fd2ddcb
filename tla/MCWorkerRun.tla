---------------------------- MODULE MCWorkerRun ----------------------------
(* TLC instance of WorkerRun.                                              *)
EXTENDS WorkerRun, TLC

Symmetry == Permutations(Assignments) \cup Permutations(Invocations)
            \cup Permutations(Workers)
=============================================================================

-------------------------- MODULE MCUpdateWorker --------------------------
(* UpdateWorker for TLC. *)
EXTENDS UpdateWorkerProps, TLC

Symmetry == Permutations(Updates) \cup Permutations(Processes)
            \cup Permutations(Slots)
=============================================================================

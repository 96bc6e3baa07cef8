---------------------------- MODULE MCWorkerPool ----------------------------
(* Model values and symmetry for the runs of WorkerPool. *)
EXTENDS WorkerPool, TLC

Symmetry == Permutations(Worker) \cup Permutations(Task)

=============================================================================

---------------------------- MODULE MCFileStore ----------------------------
(* Symmetry for the runs of FileStore. *)
EXTENDS FileStore, TLC

Symmetry == Permutations(Goroutine) \cup Permutations(Name)

=============================================================================

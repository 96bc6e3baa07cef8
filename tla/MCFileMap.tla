----------------------------- MODULE MCFileMap -----------------------------
(* Model values and symmetry for the runs of FileMap. *)
EXTENDS FileMap, FiniteSets

Symmetry == Permutations(Goroutine) \cup Permutations(Name)
                \cup Permutations(Entry)

=============================================================================

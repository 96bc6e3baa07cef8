--------------------------- MODULE MCCacheManager ---------------------------
(* Model values and symmetry for the runs of CacheManager. *)
EXTENDS CacheManager, TLC

Symmetry == Permutations(Builder) \cup Permutations(CacheID)
                \cup Permutations(Layer) \cup Permutations(Push)

=============================================================================

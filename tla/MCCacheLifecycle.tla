-------------------------- MODULE MCCacheLifecycle --------------------------
(* CacheLifecycle on small instances.                                       *)
EXTENDS CacheLifecycle, TLC

CONSTANTS r1, r2, w1, w2, i1, i2, i3

Symmetry ==
  Permutations(Readers) \cup Permutations(Restorers) \cup Permutations(RowIds)

=============================================================================

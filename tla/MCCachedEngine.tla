--------------------------- MODULE MCCachedEngine ---------------------------
(* Small instances of CachedEngine for TLC. *)
EXTENDS CachedEngine, TLC

\* Keys, values and threads are interchangeable.
Symmetry == Permutations(Key) \cup Permutations(Value) \cup Permutations(Thread)
=============================================================================

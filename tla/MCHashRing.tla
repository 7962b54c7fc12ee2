----------------------------- MODULE MCHashRing -----------------------------
(* Small instances of HashRing for TLC. *)
EXTENDS HashRing, TLC

\* Nodes are interchangeable: Init places them in every way.
Symmetry == Permutations(Node)
=============================================================================

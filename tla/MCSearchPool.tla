---------------------------- MODULE MCSearchPool ----------------------------
(* SearchPool on a few searches and interchangeable paths. *)
EXTENDS SearchPool, TLC

Symmetry == Permutations(Paths)
=============================================================================

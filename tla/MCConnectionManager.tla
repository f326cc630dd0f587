------------------------- MODULE MCConnectionManager -------------------------
(* ConnectionManager for TLC. *)
EXTENDS ConnectionManager, TLC

\* Objects and timer handles are interchangeable.
Symmetry == Permutations(Conns) \cup Permutations(Timers)

==============================================================================

------------------------- MODULE MCStatusConditions -------------------------
(* An instance of StatusConditions for TLC. *)
EXTENDS StatusConditions, TLC

CONSTANTS i1, i2, a1, a2, a3, a4

\* Neither the items nor the places in memory are told apart.
MemorySymmetry == Permutations({i1, i2}) \cup Permutations({a1, a2, a3, a4})
=============================================================================

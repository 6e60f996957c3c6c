-------------------------- MODULE MCMetamethods --------------------------
(* Metamethods with a few tables, for TLC. *)
EXTENDS Metamethods, TLC

CONSTANTS g, p, f, s, x

MCUsed == {x, "__index", "__newindex"}
MCStored == Table \cup Function

Symmetry == Permutations(Table)

=============================================================================

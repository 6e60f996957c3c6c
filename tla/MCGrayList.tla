----------------------------- MODULE MCGrayList -----------------------------
(* GrayList on a small heap, for TLC. *)
EXTENDS GrayList

CONSTANTS globals, registry, f, g, k, u

MCContainer == {globals, registry, f, g}
MCClosure == {f, g}
MCString == {k}
MCUpvalue == {u}
MCRoot == {globals, registry}
MCFixed == {k}

\* No action tells two closures, or the two roots, apart.
Symmetric == Permutations(MCClosure) \cup Permutations(MCRoot)

=============================================================================

-------------------------------- MODULE MCGc --------------------------------
(* Gc on a small heap, for TLC. *)
EXTENDS Gc, TLC

CONSTANTS globals, t, f, x, u

MCContainer == {globals, t, f}
MCString == {x}
MCClosure == {f}
MCUpvalue == {u}
MCFixed == {}
MCRoot == {globals}

=============================================================================

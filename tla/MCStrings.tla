----------------------------- MODULE MCStrings ------------------------------
(* Strings with few contents, for TLC. *)
EXTENDS Strings, TLC

CONSTANTS k, x, y, o1, o2, o3

MCText == {k, x, y}
MCFixedText == {k}
MCObject == {o1, o2, o3}
MCHash == (k :> 0 @@ x :> 1 @@ y :> 3)
Symmetric == Permutations(MCObject)

=============================================================================

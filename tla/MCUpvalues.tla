----------------------------- MODULE MCUpvalues -----------------------------
(* Upvalues on a small stack, for TLC. *)
EXTENDS Upvalues, TLC

\* No action and no property tells the upvalue objects or the values apart.
Symmetric == Permutations(Upvalue) \cup Permutations(Value)

\* States that differ in the following only have the same future.  What a slot
\* above the top was left with is not read again, unless an upvalue is open on
\* it: it is overwritten when the slot is next pushed.  Nor is the value of a
\* closed upvalue that no closure has.  The names of variables do not matter,
\* only which slot and which captures have the same one.
View ==
  LET used == (1 .. top) \cup {at[u] : u \in Upvalue}
  IN  <<[s \in Slot |-> IF s \in used THEN stack[s] ELSE Blank],
        marks, open_upvalues, at, ref, maker, ordered, top,
        [u \in Upvalue |-> IF Free(u) THEN Blank ELSE closed[u]],
        [h \in Capture |-> {s \in DOMAIN scope : scope[s] = bound[h]}],
        {h \in Capture \X Capture : bound[h[1]] = bound[h[2]]}>>
=============================================================================

----------------------------- MODULE MCLuaTable -----------------------------
(* LuaTable with few keys, for TLC. *)
EXTENDS LuaTable, TLC

CONSTANTS a, b, c

SmallIndex == {1, 2, 3, 5}
MCIndex == (1..9) \cup (17..23)
MCName == {a, b}
ManyNames == {a, b, c}
MCWalked == {a, 1, 5}
MCPresize == {<<0, 0>>, <<0, 8>>, <<0, 64>>}
NoPresize == {<<0, 0>>}
MCHash == [k \in Key |->
  CASE k = a -> 1 [] k = b -> 3 [] k = c -> 1 [] k = 5 -> 3
    [] k \in 6..23 -> k [] OTHER -> 2]

\* Each key is stored as its own value: one that ends up under another key is
\* then told apart.
MCStored == [k \in Key |-> {k}]

\* A bound: small tables, with assignments in every order, and large ones.
Small ==
  /\ {k \in Key : map[k] # Nil} \subseteq SmallIndex \cup MCName
  /\ call.key \in SmallIndex \cup MCName \cup {Nil}
  /\ Len(t.array) <= 8 /\ Len(t.entries) <= 4

\* The indices are assigned in ascending order, 1 at any time, and no key is
\* deleted.  Nine at the front and seven from 17 on fill the entries that the
\* seven are moved to when an array of 64 elements is cut to 16 for a name.
Large ==
  /\ \A k, l \in Index \ {1} : k < l /\ map[l] # Nil => map[k] # Nil
  /\ call # Empty => call.value # Nil
  /\ Len(t.array) >= 16

Explored == Small \/ Large

=============================================================================

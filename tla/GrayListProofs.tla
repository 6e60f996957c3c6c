--------------------------- MODULE GrayListProofs ---------------------------
(***************************************************************************)
(* Proofs about GrayList for every heap and program: the list is in shape, *)
(* the collector with its pointers implements Gc, step by step, and so     *)
(* frees nothing that the program can reach.                               *)
(***************************************************************************)
EXTENDS GrayList, FiniteSetTheorems, TLAPS

\* Gc as Abstract sees it, with what is proved about it.
P == INSTANCE GcProofs WITH mark <- before,
                            phase <- IF phase = "MARK" THEN "PAUSED" ELSE phase

-----------------------------------------------------------------------------
(* The inductive invariant *)

Grays(m) == {c \in Container : m[c] = "gray"}

\* order is the list from head on, and holds the containers of a set; no other
\* container has a link.
IsList(order, head, link, set) ==
  /\ order \in Seq(Container)
  /\ \A i, j \in 1..Len(order) : order[i] = order[j] => i = j
  /\ set = {order[i] : i \in 1..Len(order)}
  /\ head = IF order = <<>> THEN Nil ELSE order[1]
  /\ link \in [Container -> Container \cup {Nil}]
  /\ \A i \in 1..Len(order) :
       link[order[i]] = IF i = Len(order) THEN Nil ELSE order[i + 1]
  /\ \A c \in Container \ set : link[c] = Nil

\* Where gray_tail points in each phase.
IsTail(order, tail, ph) ==
  CASE ph = "MARK"  -> tail = IF Len(order) < 2 THEN Nil ELSE order[Len(order)]
    [] ph = "TRACE" -> order # <<>> => tail = order[Len(order)]
    [] OTHER        -> tail = Nil /\ order = <<>>

GoodList(g, ph) ==
  \E order : IsList(order, g.head, g.link, Grays(g.mark)) /\ IsTail(order, g.tail, ph)

ListInv == GoodList(Collector, phase)

\* The marks after the values V were marked and the upvalues U blackened.
Marks(m, V, U) == P!gc_blacken_upvalues(P!gc_mark(m, V), U)

\* What a running function has marked is what it no longer has to mark.
LoopInv ==
  /\ mark \in [P!Obj -> P!Colour]
  /\ phase = "MARK" =>
       /\ object = Nil
       /\ values \subseteq P!StackValues /\ upvalues \subseteq P!OpenUpvalues
       /\ tables \subseteq Root
       /\ mark = Marks(before, (P!StackValues \ values) \cup (Root \ tables),
                       P!OpenUpvalues \ upvalues)
  /\ object # Nil =>
       /\ phase = "TRACE" /\ object \in Container /\ object = gray_head
       /\ before[object] = "gray"
       /\ values \subseteq refs[object] /\ upvalues \subseteq caps[object]
       /\ tables = {}
       /\ mark = Marks(before, refs[object] \ values, caps[object] \ upvalues)
  /\ ~Running => mark = before /\ Looped

IInv == P!IInv /\ ListInv /\ LoopInv

-----------------------------------------------------------------------------
(* The list *)

\* A sequence of length n that fits is the list.
LEMMA IsListFacts ==
  ASSUME NEW order \in Seq(Container), NEW n, n = Len(order),
         NEW head, NEW link \in [Container -> Container \cup {Nil}], NEW set,
         \A i, j \in 1..n : order[i] = order[j] => i = j,
         set = {order[i] : i \in 1..n},
         head = IF n = 0 THEN Nil ELSE order[1],
         \A i \in 1..n : link[order[i]] = IF i = n THEN Nil ELSE order[i + 1],
         \A c \in Container \ set : link[c] = Nil
  PROVE  IsList(order, head, link, set)
  <1>1. n = 0 <=> order = <<>>
    OBVIOUS
  <1> QED BY <1>1 DEF IsList

\* A container is put in front.
LEMMA Pushed ==
  ASSUME NEW order, NEW head, NEW tail, NEW link, NEW set,
         IsList(order, head, link, set), IsTail(order, tail, "MARK"),
         NEW c \in Container \ set
  PROVE  LET longer == <<c>> \o order
         IN  /\ IsList(longer, c, [link EXCEPT ![c] = head], set \cup {c})
             /\ IsTail(longer, IF tail = Nil THEN head ELSE tail, "MARK")
  <1> DEFINE longer == <<c>> \o order
             n == Len(order)
             l == [link EXCEPT ![c] = head]
  <1>0. /\ order \in Seq(Container) /\ n \in Nat /\ Nil \notin Container
        /\ \A i \in 1..n : order[i] \in Container
        /\ link \in [Container -> Container \cup {Nil}]
        /\ \A i \in 1..n : order[i] # c
        /\ head = IF n = 0 THEN Nil ELSE order[1]
        /\ \A i, j \in 1..n : order[i] = order[j] => i = j
        /\ set = {order[i] : i \in 1..n}
        /\ \A i \in 1..n : link[order[i]] = IF i = n THEN Nil ELSE order[i + 1]
        /\ \A x \in Container \ set : link[x] = Nil
        /\ tail = IF n < 2 THEN Nil ELSE order[n]
    BY GrayListAssumption DEF IsList, IsTail
  <1>1. /\ longer \in Seq(Container) /\ Len(longer) = n + 1 /\ longer[1] = c
        /\ \A i \in 1..n : longer[i + 1] = order[i]
    BY <1>0
  <1>2. \A i \in 2..(n + 1) : i - 1 \in 1..n /\ longer[i] = order[i - 1]
    BY <1>0, <1>1
  <1> HIDE DEF longer, n, l
  <1>2a. \A i \in 1..(n + 1) : i # 1 => i \in 2..(n + 1) /\ longer[i] # c
    BY <1>0, <1>2
  <1>3. \A i, j \in 1..(n + 1) : longer[i] = longer[j] => i = j
    <2> SUFFICES ASSUME NEW i \in 1..(n + 1), NEW j \in 1..(n + 1), longer[i] = longer[j]
                 PROVE  i = j
      OBVIOUS
    <2>1. CASE i = 1 /\ j # 1
      BY <1>1, <1>2a, <2>1
    <2>2. CASE j = 1 /\ i # 1
      BY <1>1, <1>2a, <2>2
    <2>3. CASE i # 1 /\ j # 1
      <3>1. i - 1 \in 1..n /\ j - 1 \in 1..n /\ order[i - 1] = order[j - 1]
        BY <1>0, <1>2, <2>3
      <3> QED BY <1>0, <3>1
    <2> QED BY <2>1, <2>2, <2>3
  <1>4. set \cup {c} = {longer[i] : i \in 1..(n + 1)}
    <2>1. ASSUME NEW x \in set \cup {c} PROVE \E i \in 1..(n + 1) : x = longer[i]
      <3>1. CASE x = c
        BY <1>0, <1>1, <3>1
      <3>2. CASE x \in set
        <4>1. PICK i \in 1..n : x = order[i]
          BY <1>0, <3>2
        <4>2. i + 1 \in 1..(n + 1) /\ x = longer[i + 1]
          BY <1>0, <1>1, <4>1
        <4> QED BY <4>2
      <3> QED BY <3>1, <3>2
    <2>2. ASSUME NEW i \in 1..(n + 1) PROVE longer[i] \in set \cup {c}
      <3>1. CASE i = 1
        BY <1>1, <3>1
      <3>2. CASE i # 1
        <4>1. i - 1 \in 1..n /\ longer[i] = order[i - 1]
          BY <1>0, <1>2, <3>2
        <4> QED BY <1>0, <4>1
      <3> QED BY <3>1, <3>2
    <2> QED BY <2>1, <2>2
  <1>5. /\ l \in [Container -> Container \cup {Nil}] /\ l[c] = head
        /\ \A x \in Container \ {c} : l[x] = link[x]
    BY <1>0 DEF l
  <1>6. ASSUME NEW i \in 1..(n + 1)
        PROVE  l[longer[i]] = IF i = n + 1 THEN Nil ELSE longer[i + 1]
    <2>1. CASE i = 1
      <3>1. l[longer[i]] = head
        BY <1>1, <1>5, <2>1
      <3>2. n # 0 => longer[2] = order[1]
        BY <1>0, <1>2
      <3> QED BY <1>0, <2>1, <3>1, <3>2
    <2>2. CASE i # 1
      <3>1. i - 1 \in 1..n /\ longer[i] = order[i - 1] /\ longer[i] # c /\ longer[i] \in Container
        BY <1>0, <1>2, <2>2
      <3>2. l[longer[i]] = IF i - 1 = n THEN Nil ELSE order[i - 1 + 1]
        BY <1>0, <1>5, <3>1
      <3>3. i # n + 1 => longer[i + 1] = order[i]
        BY <1>0, <1>2, <2>2
      <3> QED BY <1>0, <3>2, <3>3
    <2> QED BY <2>1, <2>2
  <1>7. \A x \in Container \ (set \cup {c}) : l[x] = Nil
    BY <1>0, <1>5
  <1>8. IsTail(longer, IF tail = Nil THEN head ELSE tail, "MARK")
    <2>1. CASE n = 0
      BY <1>0, <1>1, <2>1 DEF IsTail
    <2>2. CASE n = 1
      <3>1. longer[2] = order[1]
        BY <1>1, <2>2
      <3> QED BY <1>0, <1>1, <2>2, <3>1 DEF IsTail
    <2>3. CASE n > 1
      <3>1. longer[n + 1] = order[n] /\ order[n] # Nil
        BY <1>0, <1>1, <2>3
      <3> QED BY <1>0, <1>1, <2>3, <3>1 DEF IsTail
    <2> QED BY <1>0, <2>1, <2>2, <2>3
  <1>9. IsList(longer, c, l, set \cup {c})
    <2>1. c = IF n + 1 = 0 THEN Nil ELSE longer[1]
      BY <1>0, <1>1
    <2> QED BY <1>1, <1>3, <1>4, <1>5, <1>6, <1>7, <2>1, IsListFacts
  <1> QED BY <1>8, <1>9 DEF longer, l

\* A container is put at the end.
LEMMA Appended ==
  ASSUME NEW order, NEW head, NEW tail, NEW link, NEW set,
         IsList(order, head, link, set), IsTail(order, tail, "TRACE"), head # Nil,
         NEW c \in Container \ set
  PROVE  LET longer == Append(order, c)
         IN  /\ IsList(longer, head, [link EXCEPT ![c] = Nil, ![tail] = c], set \cup {c})
             /\ IsTail(longer, c, "TRACE")
  <1> DEFINE longer == Append(order, c)
             n == Len(order)
             l == [link EXCEPT ![c] = Nil, ![tail] = c]
  <1>0. /\ order \in Seq(Container) /\ n \in Nat \ {0} /\ Nil \notin Container
        /\ \A i \in 1..n : order[i] \in Container
        /\ link \in [Container -> Container \cup {Nil}]
        /\ \A i \in 1..n : order[i] # c
        /\ head = order[1]
        /\ \A i, j \in 1..n : order[i] = order[j] => i = j
        /\ set = {order[i] : i \in 1..n}
        /\ \A i \in 1..n : link[order[i]] = IF i = n THEN Nil ELSE order[i + 1]
        /\ \A x \in Container \ set : link[x] = Nil
        /\ tail = order[n]
    BY GrayListAssumption DEF IsList, IsTail
  <1>1. /\ longer \in Seq(Container) /\ Len(longer) = n + 1 /\ longer[n + 1] = c
        /\ \A i \in 1..n : longer[i] = order[i]
    BY <1>0
  <1>2. /\ l \in [Container -> Container \cup {Nil}] /\ l[c] = Nil /\ l[order[n]] = c
        /\ \A x \in Container \ {c, order[n]} : l[x] = link[x]
    <2>1. order[n] \in Container /\ order[n] # c
      BY <1>0
    <2> DEFINE k == [link EXCEPT ![c] = Nil]
    <2>2. k \in [Container -> Container \cup {Nil}] /\ l = [k EXCEPT ![order[n]] = c]
      BY <1>0
    <2>3. k[c] = Nil /\ \A x \in Container \ {c} : k[x] = link[x]
      BY <1>0
    <2> HIDE DEF k, l
    <2> QED BY <2>1, <2>2, <2>3
  <1> HIDE DEF longer, n, l
  <1>3. \A i \in 1..(n + 1) : i \in 1..n \/ i = n + 1
    BY <1>0
  <1>4. \A i, j \in 1..(n + 1) : longer[i] = longer[j] => i = j
    BY <1>0, <1>1, <1>3
  <1>5. set \cup {c} = {longer[i] : i \in 1..(n + 1)}
    <2>1. ASSUME NEW x \in set PROVE \E i \in 1..(n + 1) : x = longer[i]
      <3>1. PICK i \in 1..n : x = order[i]
        BY <1>0
      <3> QED BY <1>0, <1>1, <3>1
    <2>2. ASSUME NEW i \in 1..(n + 1) PROVE longer[i] \in set \cup {c}
      BY <1>0, <1>1, <1>3
    <2>3. n + 1 \in 1..(n + 1)
      BY <1>0
    <2> QED BY <1>1, <2>1, <2>2, <2>3
  <1>6. ASSUME NEW i \in 1..(n + 1)
        PROVE  l[longer[i]] = IF i = n + 1 THEN Nil ELSE longer[i + 1]
    <2>1. CASE i = n + 1
      BY <1>1, <1>2, <2>1
    <2>2. CASE i = n
      BY <1>0, <1>1, <1>2, <2>2
    <2>3. CASE i # n /\ i # n + 1
      <3>1. i \in 1..n /\ n \in 1..n /\ i + 1 \in 1..n
        BY <1>0, <1>3, <2>3
      <3>2. longer[i] = order[i] /\ longer[i + 1] = order[i + 1]
            /\ order[i] \in Container \ {c, order[n]}
        BY <1>0, <1>1, <2>3, <3>1
      <3> QED BY <1>0, <1>2, <2>3, <3>1, <3>2
    <2> QED BY <2>1, <2>2, <2>3
  <1>7. \A x \in Container \ (set \cup {c}) : l[x] = Nil
    BY <1>0, <1>2
  <1>8. head = IF n + 1 = 0 THEN Nil ELSE longer[1]
    BY <1>0, <1>1
  <1>9. IsList(longer, head, l, set \cup {c})
    BY <1>1, <1>2, <1>4, <1>5, <1>6, <1>7, <1>8, IsListFacts
  <1>10. IsTail(longer, c, "TRACE")
    BY <1>1 DEF IsTail
  <1> QED BY <1>9, <1>10 DEF longer, l

\* The front is taken.
LEMMA Popped ==
  ASSUME NEW order, NEW head, NEW tail, NEW link, NEW set,
         IsList(order, head, link, set), IsTail(order, tail, "TRACE"), head # Nil
  PROVE  /\ head \in set
         /\ IsList(Tail(order), link[head], [link EXCEPT ![head] = Nil], set \ {head})
         /\ IsTail(Tail(order), tail, "TRACE")
  <1> DEFINE rest == Tail(order)
             n == Len(order)
             l == [link EXCEPT ![head] = Nil]
  <1>0. /\ order \in Seq(Container) /\ n \in Nat \ {0} /\ Nil \notin Container
        /\ \A i \in 1..n : order[i] \in Container
        /\ link \in [Container -> Container \cup {Nil}]
        /\ head = order[1]
        /\ \A i, j \in 1..n : order[i] = order[j] => i = j
        /\ set = {order[i] : i \in 1..n}
        /\ \A i \in 1..n : link[order[i]] = IF i = n THEN Nil ELSE order[i + 1]
        /\ \A x \in Container \ set : link[x] = Nil
        /\ tail = order[n]
    BY GrayListAssumption DEF IsList, IsTail
  <1>1. /\ rest \in Seq(Container) /\ Len(rest) = n - 1
        /\ \A i \in 1..(n - 1) : rest[i] = order[i + 1]
    BY <1>0
  <1>2. head \in set /\ 1 \in 1..n
    BY <1>0
  <1>3. /\ l \in [Container -> Container \cup {Nil}] /\ l[head] = Nil
        /\ \A x \in Container \ {head} : l[x] = link[x]
    BY <1>0
  <1> HIDE DEF rest, n, l
  <1>4. \A i \in 1..(n - 1) : i \in 1..n /\ i + 1 \in 1..n /\ i + 1 # 1
    BY <1>0
  <1>5. \A i, j \in 1..(n - 1) : rest[i] = rest[j] => i = j
    <2> SUFFICES ASSUME NEW i \in 1..(n - 1), NEW j \in 1..(n - 1), rest[i] = rest[j]
                 PROVE  i = j
      OBVIOUS
    <2>1. i + 1 = j + 1
      BY <1>0, <1>1, <1>4
    <2> QED BY <2>1
  <1>6. set \ {head} = {rest[i] : i \in 1..(n - 1)}
    <2>1. ASSUME NEW x \in set \ {head} PROVE \E i \in 1..(n - 1) : x = rest[i]
      <3>1. PICK i \in 1..n : x = order[i] /\ i # 1
        BY <1>0
      <3>2. i - 1 \in 1..(n - 1) /\ rest[i - 1] = order[i]
        BY <1>0, <1>1, <3>1
      <3> QED BY <3>1, <3>2
    <2>2. ASSUME NEW i \in 1..(n - 1) PROVE rest[i] \in set \ {head}
      <3>1. rest[i] = order[i + 1] /\ i + 1 \in 1..n /\ i + 1 # 1
        BY <1>1, <1>4
      <3>2. order[i + 1] # head /\ order[i + 1] \in set
        BY <1>0, <1>2, <3>1
      <3> QED BY <3>1, <3>2
    <2> QED BY <2>1, <2>2
  <1>7. ASSUME NEW i \in 1..(n - 1)
        PROVE  l[rest[i]] = IF i = n - 1 THEN Nil ELSE rest[i + 1]
    <2>1. i + 1 \in 1..n /\ rest[i] = order[i + 1] /\ rest[i] \in Container \ {head}
      BY <1>0, <1>1, <1>2, <1>4
    <2>2. l[rest[i]] = IF i + 1 = n THEN Nil ELSE order[i + 1 + 1]
      BY <1>0, <1>3, <2>1
    <2>3. i # n - 1 => i + 1 \in 1..(n - 1)
      BY <1>0
    <2> QED BY <1>0, <1>1, <2>2, <2>3
  <1>8. \A x \in Container \ (set \ {head}) : l[x] = Nil
    BY <1>0, <1>3
  <1>9. link[head] = IF rest = <<>> THEN Nil ELSE rest[1]
    <2>1. link[head] = IF 1 = n THEN Nil ELSE order[2]
      BY <1>0, <1>2
    <2>2. CASE n = 1
      BY <1>1, <2>1, <2>2
    <2>3. CASE n # 1
      <3>1. rest[1] = order[2] /\ rest # <<>>
        BY <1>0, <1>1, <2>3
      <3> QED BY <2>1, <2>3, <3>1
    <2> QED BY <2>2, <2>3
  <1>10. IsList(rest, link[head], l, set \ {head})
    <2>1. n - 1 \in Nat /\ (rest = <<>> <=> n - 1 = 0)
      BY <1>0, <1>1
    <2> QED BY <1>1, <1>3, <1>5, <1>6, <1>7, <1>8, <1>9, <2>1, IsListFacts
  <1>11. IsTail(rest, tail, "TRACE")
    <2>1. n # 1 => n - 1 \in 1..(n - 1) /\ rest[n - 1] = order[n]
      BY <1>0, <1>1
    <2>2. n = 1 => rest = <<>>
      BY <1>1
    <2> QED BY <1>0, <1>1, <2>1, <2>2 DEF IsTail
  <1> QED BY <1>2, <1>10, <1>11 DEF rest, l

-----------------------------------------------------------------------------
(* The marks *)

\* The assumption on the constants gives the one of Gc.
LEMMA GraphConstants ==
  /\ P!Obj = P!Val \cup Upvalue /\ P!Val = Container \cup String
  /\ Container \cap String = {} /\ P!Val \cap Upvalue = {}
  /\ Closure \subseteq Container /\ Root \subseteq Container \ Closure
  /\ Fixed \subseteq String /\ NSlots \in Nat
  /\ Nil \notin P!Obj \cup Nat
  BY GrayListAssumption DEF P!Obj, P!Val

\* The values that blackening U adds to those marked.
Inside(m, U) ==
  {closed[u] : u \in {x \in U : m[x] # "black" /\ open[x] = Nil}} \ {Nil}

\* Marks, object by object.
AreMarks(n, m, V, U) ==
  /\ n \in [P!Obj -> P!Colour]
  /\ \A u \in Upvalue : n[u] = IF u \in U THEN "black" ELSE m[u]
  /\ \A v \in P!Val : n[v] = IF m[v] = "white" /\ v \in V \cup Inside(m, U)
                             THEN "gray" ELSE m[v]

LEMMA MarksAt ==
  ASSUME P!TypeOK, NEW m \in [P!Obj -> P!Colour],
         NEW V \in SUBSET P!Val, NEW U \in SUBSET Upvalue
  PROVE  AreMarks(Marks(m, V, U), m, V, U)
  <1> USE GraphConstants
  <1> DEFINE n == P!gc_mark(m, V)
             fresh == {u \in U : n[u] # "black"}
             inside == {closed[u] : u \in {x \in fresh : open[x] = Nil}} \ {Nil}
             k == P!gc_mark(n, inside)
             r == Marks(m, V, U)
  <1>1. \A o \in P!Obj : n[o] = IF o \in V /\ m[o] = "white" THEN "gray" ELSE m[o]
    BY DEF P!gc_mark
  <1>2. \A u \in Upvalue : n[u] = m[u]
    BY <1>1
  <1>3. inside = Inside(m, U)
    BY <1>2 DEF Inside
  <1>4. inside \subseteq P!Val
    BY DEF P!TypeOK
  <1> HIDE DEF n
  <1>5. \A o \in P!Obj : k[o] = IF o \in inside /\ n[o] = "white" THEN "gray" ELSE n[o]
    BY DEF P!gc_mark
  <1>6. r = [o \in P!Obj |-> IF o \in fresh THEN "black" ELSE k[o]]
    BY DEF Marks, P!gc_blacken_upvalues, n
  <1>7. \A o \in P!Obj : r[o] = IF o \in fresh THEN "black" ELSE k[o]
    BY <1>6
  <1> HIDE DEF k, inside, r
  <1>8. \A u \in Upvalue : r[u] = IF u \in U THEN "black" ELSE m[u]
    BY <1>2, <1>4, <1>5, <1>7
  <1>9. \A v \in P!Val : r[v] = IF m[v] = "white" /\ v \in V \cup inside THEN "gray" ELSE m[v]
    BY <1>1, <1>5, <1>7
  <1>10. \A o \in P!Obj : r[o] \in P!Colour
    BY <1>8, <1>9 DEF P!Colour
  <1> QED BY <1>3, <1>6, <1>8, <1>9, <1>10 DEF r, AreMarks

\* Functions on the objects that agree everywhere.
LEMMA SameMarks ==
  ASSUME NEW m \in [P!Obj -> P!Colour], NEW n \in [P!Obj -> P!Colour],
         \A u \in Upvalue : m[u] = n[u], \A v \in P!Val : m[v] = n[v]
  PROVE  m = n
  <1>1. \A o \in P!Obj : m[o] = n[o]
    BY GraphConstants
  <1> QED BY <1>1

\* Nothing to mark leaves the marks as they are.
LEMMA MarksNone ==
  ASSUME P!TypeOK, NEW m \in [P!Obj -> P!Colour]
  PROVE  Marks(m, {}, {}) = m
  <1>1. Inside(m, {}) = {}
    BY DEF Inside
  <1> DEFINE n == Marks(m, {}, {})
  <1>2. /\ n \in [P!Obj -> P!Colour]
        /\ \A u \in Upvalue : n[u] = m[u]
        /\ \A v \in P!Val : n[v] = m[v]
    <2>1. {} \in SUBSET P!Val /\ {} \in SUBSET Upvalue
      OBVIOUS
    <2>2. AreMarks(n, m, {}, {})
      BY <2>1, MarksAt
    <2> HIDE DEF n
    <2> QED BY <1>1, <2>2 DEF AreMarks
  <1> HIDE DEF n
  <1>3. n = m
    BY <1>2, SameMarks
  <1> QED BY <1>3 DEF n

\* One value more.
LEMMA MarksValue ==
  ASSUME P!TypeOK, NEW m \in [P!Obj -> P!Colour],
         NEW V \in SUBSET P!Val, NEW U \in SUBSET Upvalue, NEW v \in P!Val
  PROVE  Marks(m, V \cup {v}, U) = P!gc_mark(Marks(m, V, U), {v})
  <1> DEFINE n == Marks(m, V, U)
             k == P!gc_mark(n, {v})
             r == Marks(m, V \cup {v}, U)
  <1>1. AreMarks(n, m, V, U)
    BY MarksAt
  <1>2. AreMarks(r, m, V \cup {v}, U)
    <2>1. V \cup {v} \in SUBSET P!Val
      OBVIOUS
    <2> QED BY <2>1, MarksAt
  <1> HIDE DEF n, r
  <1> USE DEF AreMarks
  <1>3. /\ k \in [P!Obj -> P!Colour]
        /\ \A o \in P!Obj : k[o] = IF o \in {v} /\ n[o] = "white" THEN "gray" ELSE n[o]
    BY <1>1 DEF P!gc_mark, P!Colour
  <1> HIDE DEF k
  <1>4. \A u \in Upvalue : k[u] = r[u]
    BY <1>1, <1>2, <1>3, GraphConstants
  <1>5. \A w \in P!Val : k[w] = r[w]
    BY <1>1, <1>2, <1>3, GraphConstants
  <1>6. k = r
    BY <1>2, <1>3, <1>4, <1>5, SameMarks
  <1> QED BY <1>6 DEF k, n, r

\* The marks after u is blackened.
Blackened(m, u) ==
  IF m[u] = "black" THEN m
  ELSE [P!gc_mark(m, IF open[u] = Nil THEN {closed[u]} \ {Nil} ELSE {})
          EXCEPT ![u] = "black"]

\* One upvalue more.
LEMMA MarksUpvalue ==
  ASSUME P!TypeOK, NEW m \in [P!Obj -> P!Colour],
         NEW V \in SUBSET P!Val, NEW U \in SUBSET Upvalue, NEW u \in Upvalue,
         NEW n, n = Marks(m, V, U)
  PROVE  Marks(m, V, U \cup {u}) = Blackened(n, u)
  <1> DEFINE S == IF open[u] = Nil THEN {closed[u]} \ {Nil} ELSE {}
             k == P!gc_mark(n, S)
             r == Marks(m, V, U \cup {u})
  <1>1. AreMarks(n, m, V, U)
    BY MarksAt
  <1>2. AreMarks(r, m, V, U \cup {u})
    <2>1. U \cup {u} \in SUBSET Upvalue
      OBVIOUS
    <2> QED BY <2>1, MarksAt
  <1> HIDE DEF r
  <1> USE DEF AreMarks
  <1>3. CASE n[u] = "black"
    <2>1. Inside(m, U \cup {u}) = Inside(m, U)
      BY <1>1, <1>3 DEF Inside
    <2>2. \A x \in Upvalue : r[x] = n[x]
      BY <1>1, <1>2, <1>3
    <2>3. \A w \in P!Val : r[w] = n[w]
      BY <1>1, <1>2, <2>1
    <2>4. r = n
      BY <1>1, <1>2, <2>2, <2>3, SameMarks
    <2> QED BY <1>3, <2>4 DEF r, Blackened
  <1>4. CASE n[u] # "black"
    <2>1. u \notin U /\ m[u] # "black"
      BY <1>1, <1>4
    <2>2. Inside(m, U \cup {u}) = Inside(m, U) \cup S
      BY <2>1 DEF Inside
    <2>3. S \subseteq P!Val
      BY DEF P!TypeOK
    <2> HIDE DEF S
    <2>4. /\ k \in [P!Obj -> P!Colour]
          /\ \A o \in P!Obj : k[o] = IF o \in S /\ n[o] = "white" THEN "gray" ELSE n[o]
      BY <1>1 DEF P!gc_mark, P!Colour
    <2> HIDE DEF k
    <2> DEFINE j == [k EXCEPT ![u] = "black"]
    <2>5. /\ j \in [P!Obj -> P!Colour] /\ j[u] = "black"
          /\ \A o \in P!Obj \ {u} : j[o] = k[o]
      BY <2>4, GraphConstants DEF P!Colour
    <2> HIDE DEF j
    <2>6. \A x \in Upvalue : r[x] = j[x]
      BY <1>1, <1>2, <2>3, <2>4, <2>5, GraphConstants
    <2>7. \A w \in P!Val : r[w] = j[w]
      <3> SUFFICES ASSUME NEW w \in P!Val PROVE r[w] = j[w]
        OBVIOUS
      <3>1. w \in P!Obj /\ w # u
        BY GraphConstants
      <3>2. j[w] = IF w \in S /\ n[w] = "white" THEN "gray" ELSE n[w]
        BY <2>4, <2>5, <3>1
      <3> QED BY <1>1, <1>2, <2>2, <3>2
    <2>8. r = j
      BY <1>2, <2>5, <2>6, <2>7, SameMarks
    <2> QED BY <1>4, <2>8 DEF r, j, k, S, Blackened
  <1> QED BY <1>3, <1>4

-----------------------------------------------------------------------------
(* Marking with pointers *)

Record(m, head, tail, link) == [mark |-> m, head |-> head, tail |-> tail, link |-> link]

\* gc_mark_value marks v and keeps the list in shape.
LEMMA MarkedValue ==
  ASSUME NEW m \in [P!Obj -> P!Colour], NEW head, NEW tail, NEW link,
         NEW g, g = Record(m, head, tail, link),
         NEW v \in P!Val \cup {Nil},
         GoodList(g, phase), phase = "MARK" \/ (phase = "TRACE" /\ head # Nil)
  PROVE  \E hd, tl, ln :
           /\ gc_mark_value(g, v) = Record(P!gc_mark(m, {v} \ {Nil}), hd, tl, ln)
           /\ GoodList(gc_mark_value(g, v), phase)
           /\ phase = "TRACE" => hd = head
  <1> DEFINE n == P!gc_mark(m, {v} \ {Nil})
             h == gc_mark_value(g, v)
  <1>1. /\ g.mark = m /\ g.head = head /\ g.tail = tail /\ g.link = link
        /\ \A x : [g EXCEPT !.mark[v] = x] = Record([m EXCEPT ![v] = x], head, tail, link)
    BY DEF Record
  <1>2. n \in [P!Obj -> P!Colour]
        /\ \A o \in P!Obj : n[o] = IF o \in {v} \ {Nil} /\ m[o] = "white" THEN "gray" ELSE m[o]
    BY DEF P!gc_mark, P!Colour
  <1> HIDE DEF n
  <1>3. CASE v = Nil \/ m[v] # "white"
    <2>1. h = g
      BY <1>1, <1>3 DEF gc_mark_value, gc_mark_object
    <2>2. n = m
      <3>1. \A o \in P!Obj : n[o] = m[o]
        BY <1>2, <1>3
      <3> QED BY <1>2, <3>1
    <2> HIDE DEF h
    <2> QED BY <2>1, <2>2 DEF n, h
  <1> DEFINE k == [m EXCEPT ![v] = "gray"]
  <1>4. CASE v # Nil /\ m[v] = "white"
    <2>0. v \in P!Obj /\ v \in P!Val /\ gc_mark_value(g, v) = gc_mark_object(g, v)
      BY <1>4, GraphConstants DEF gc_mark_value
    <2>1. n = k
      <3>1. k \in [P!Obj -> P!Colour] /\ \A o \in P!Obj : n[o] = k[o]
        BY <1>2, <1>4, <2>0 DEF P!Colour
      <3> HIDE DEF k
      <3> QED BY <1>2, <3>1
    <2>2. CASE v \in String
      <3>1. h = Record(k, head, tail, link)
        BY <1>1, <1>4, <2>0, <2>2 DEF gc_mark_object
      <3>2. Grays(k) = Grays(m)
        BY <2>0, <2>2, GraphConstants DEF Grays
      <3>3. GoodList(Record(k, head, tail, link), phase)
        BY <1>1, <3>2 DEF GoodList, Record
      <3> HIDE DEF k, h
      <3> QED BY <2>1, <3>1, <3>3 DEF n, h
    <2>3. CASE v \in Container
      <3>1. v \notin String /\ v \in Container \ Grays(m)
        BY <1>4, <2>3, GraphConstants DEF Grays
      <3>2. Grays(k) = Grays(m) \cup {v}
        BY <2>0, <2>3, GraphConstants DEF Grays
      <3>3. PICK order : IsList(order, head, link, Grays(m)) /\ IsTail(order, tail, phase)
        BY <1>1 DEF GoodList
      <3>4. CASE phase = "MARK"
        <4> DEFINE ln == [link EXCEPT ![v] = head]
                   tl == IF tail = Nil THEN head ELSE tail
        <4>1. h = Record(k, v, tl, ln)
          BY <1>1, <1>4, <2>0, <3>1, <3>4 DEF gc_mark_object, Record
        <4>2. /\ IsList(<<v>> \o order, v, ln, Grays(m) \cup {v})
              /\ IsTail(<<v>> \o order, tl, phase)
          BY <3>1, <3>3, <3>4, Pushed
        <4> HIDE DEF k, h, ln, tl
        <4>3. GoodList(Record(k, v, tl, ln), phase)
          BY <3>2, <4>2 DEF GoodList, Record
        <4> QED BY <2>1, <3>4, <4>1, <4>3 DEF n, h
      <3>5. CASE phase = "TRACE" /\ head # Nil
        <4> DEFINE ln == [link EXCEPT ![v] = Nil, ![tail] = v]
        <4>1. h = Record(k, head, v, ln)
          BY <1>1, <1>4, <2>0, <3>1, <3>5 DEF gc_mark_object, Record
        <4>2. /\ IsList(Append(order, v), head, ln, Grays(m) \cup {v})
              /\ IsTail(Append(order, v), v, phase)
          BY <3>1, <3>3, <3>5, Appended
        <4> HIDE DEF k, h, ln
        <4>3. GoodList(Record(k, head, v, ln), phase)
          BY <3>2, <4>2 DEF GoodList, Record
        <4> QED BY <2>1, <3>5, <4>1, <4>3 DEF n, h
      <3> QED BY <3>4, <3>5
    <2> QED BY <2>0, <2>2, <2>3, GraphConstants
  <1> QED BY <1>3, <1>4

\* gc_blacken_upvalue blackens u, marks its value unless it is open, and keeps
\* the list in shape.
LEMMA BlackenedUpvalue ==
  ASSUME P!TypeOK,
         NEW m \in [P!Obj -> P!Colour], NEW head, NEW tail, NEW link,
         NEW g, g = Record(m, head, tail, link),
         NEW u \in Upvalue,
         GoodList(g, phase), phase = "MARK" \/ (phase = "TRACE" /\ head # Nil)
  PROVE  \E hd, tl, ln :
           /\ gc_blacken_upvalue(g, u) = Record(Blackened(m, u), hd, tl, ln)
           /\ GoodList(gc_blacken_upvalue(g, u), phase)
           /\ phase = "TRACE" => hd = head
  <1> DEFINE v == IF open[u] = Nil THEN closed[u] ELSE Nil
             n == P!gc_mark(m, {v} \ {Nil})
             k == [n EXCEPT ![u] = "black"]
             h == gc_blacken_upvalue(g, u)
  <1>1. g.mark = m
    BY DEF Record
  <1>2. CASE m[u] = "black"
    <2>1. h = g
      BY <1>1, <1>2 DEF gc_blacken_upvalue
    <2> HIDE DEF h
    <2> QED BY <1>2, <2>1 DEF h, Blackened
  <1>3. CASE m[u] # "black"
    <2>1. v \in P!Val \cup {Nil}
      BY DEF P!TypeOK
    <2>2. {v} \ {Nil} = IF open[u] = Nil THEN {closed[u]} \ {Nil} ELSE {}
      OBVIOUS
    <2>3. h = [gc_mark_value(g, v) EXCEPT !.mark[u] = "black"]
      BY <1>1, <1>3 DEF gc_blacken_upvalue
    <2> HIDE DEF v
    <2>4. PICK hd, tl, ln :
             /\ gc_mark_value(g, v) = Record(n, hd, tl, ln)
             /\ GoodList(gc_mark_value(g, v), phase)
             /\ phase = "TRACE" => hd = head
      BY <2>1, MarkedValue
    <2>5. n \in [P!Obj -> P!Colour]
      BY DEF P!gc_mark, P!Colour
    <2> HIDE DEF n, h
    <2>6. h = Record(k, hd, tl, ln)
      BY <2>3, <2>4 DEF Record
    <2>7. Grays(k) = Grays(n)
      BY <2>5, GraphConstants DEF Grays
    <2> HIDE DEF k
    <2>8. GoodList(h, phase)
      BY <2>4, <2>6, <2>7 DEF GoodList, Record
    <2>9. k = Blackened(m, u)
      BY <1>3, <2>2 DEF k, n, Blackened
    <2> QED BY <2>4, <2>6, <2>8, <2>9 DEF h
  <1> QED BY <1>2, <1>3

-----------------------------------------------------------------------------
(* The actions *)

\* A step of Gc or none.
Simulated == P!Next \/ UNCHANGED P!vars

\* What every action starts from.
LEMMA Start ==
  ASSUME IInv
  PROVE  /\ P!IInv /\ P!TypeOK /\ ListInv /\ LoopInv
         /\ mark \in [P!Obj -> P!Colour]
         /\ Collector = Record(mark, gray_head, gray_tail, gc_list)
         /\ P!StackValues \subseteq P!Val /\ P!OpenUpvalues \subseteq Upvalue
         /\ Root \subseteq P!Val
         /\ \A c \in Container : refs[c] \subseteq P!Val /\ caps[c] \subseteq Upvalue
         /\ phase \in {"PAUSED", "MARK", "TRACE", "SWEEP", "UNDEFINED"}
         /\ object # Nil => phase = "TRACE" /\ gray_head # Nil
  <1>1. P!IInv /\ P!TypeOK /\ ListInv /\ LoopInv
    BY DEF IInv, P!IInv
  <1>2. object # Nil => phase = "TRACE" /\ gray_head # Nil
    BY <1>1 DEF LoopInv
  <1>3. phase \in {"PAUSED", "MARK", "TRACE", "SWEEP", "UNDEFINED"}
    BY <1>1 DEF P!TypeOK
  <1>4. P!StackValues \subseteq P!Val /\ P!OpenUpvalues \subseteq Upvalue
        /\ \A c \in Container : refs[c] \subseteq P!Val /\ caps[c] \subseteq Upvalue
    BY <1>1 DEF P!TypeOK, P!StackValues, P!OpenUpvalues
  <1>5. Collector = Record(mark, gray_head, gray_tail, gc_list)
    BY DEF Collector, Record
  <1> QED BY <1>1, <1>2, <1>3, <1>4, <1>5, GraphConstants DEF LoopInv

\* Marking a value is gc_mark on the marks and keeps the list in shape.
LEMMA ValueStep ==
  ASSUME IInv, Running, NEW v \in P!Val,
         Becomes(gc_mark_value(Collector, v)), phase' = phase
  PROVE  /\ mark' = P!gc_mark(mark, {v}) /\ mark' \in [P!Obj -> P!Colour]
         /\ ListInv'
         /\ phase = "TRACE" => gray_head' = gray_head
  <1> DEFINE h == gc_mark_value(Collector, v)
  <1>1. /\ P!TypeOK /\ ListInv /\ mark \in [P!Obj -> P!Colour]
        /\ Collector = Record(mark, gray_head, gray_tail, gc_list)
        /\ phase = "MARK" \/ (phase = "TRACE" /\ gray_head # Nil)
    BY Start DEF Running
  <1>2. v \in P!Val \cup {Nil} /\ {v} \ {Nil} = {v}
    BY GraphConstants
  <1>3. GoodList(Collector, phase)
    BY <1>1 DEF ListInv
  <1>4. PICK hd, tl, ln :
           /\ h = Record(P!gc_mark(mark, {v} \ {Nil}), hd, tl, ln)
           /\ GoodList(h, phase)
           /\ phase = "TRACE" => hd = gray_head
    BY <1>1, <1>2, <1>3, MarkedValue
  <1>5. Becomes(h)
    OBVIOUS
  <1> HIDE DEF h
  <1>6. mark' = P!gc_mark(mark, {v}) /\ gray_head' = hd /\ Collector' = h
    BY <1>2, <1>4, <1>5 DEF Becomes, Record, Collector
  <1>7. P!gc_mark(mark, {v}) \in [P!Obj -> P!Colour]
    BY <1>1 DEF P!gc_mark, P!Colour
  <1>8. ListInv'
    BY <1>4, <1>6 DEF ListInv, GoodList
  <1> QED BY <1>4, <1>6, <1>7, <1>8

\* Blackening an upvalue does the same to what Marks says of one upvalue more.
LEMMA UpvalueStep ==
  ASSUME IInv, Running, NEW u \in Upvalue,
         Becomes(gc_blacken_upvalue(Collector, u)), phase' = phase,
         NEW V \in SUBSET P!Val, NEW U \in SUBSET Upvalue, mark = Marks(before, V, U)
  PROVE  /\ mark' = Marks(before, V, U \cup {u}) /\ mark' \in [P!Obj -> P!Colour]
         /\ ListInv'
         /\ phase = "TRACE" => gray_head' = gray_head
  <1> DEFINE h == gc_blacken_upvalue(Collector, u)
             n == Blackened(mark, u)
  <1>1. /\ P!TypeOK /\ ListInv /\ mark \in [P!Obj -> P!Colour]
        /\ before \in [P!Obj -> P!Colour]
        /\ Collector = Record(mark, gray_head, gray_tail, gc_list)
        /\ phase = "MARK" \/ (phase = "TRACE" /\ gray_head # Nil)
    BY Start DEF Running, P!TypeOK
  <1>2. GoodList(Collector, phase)
    BY <1>1 DEF ListInv
  <1>3. PICK hd, tl, ln :
           /\ h = Record(n, hd, tl, ln)
           /\ GoodList(h, phase)
           /\ phase = "TRACE" => hd = gray_head
    BY <1>1, <1>2, BlackenedUpvalue
  <1>4. Becomes(h)
    OBVIOUS
  <1>5. n = Marks(before, V, U \cup {u})
    BY <1>1, MarksUpvalue
  <1>6. U \cup {u} \in SUBSET Upvalue
    OBVIOUS
  <1>7. AreMarks(Marks(before, V, U \cup {u}), before, V, U \cup {u})
    BY <1>1, <1>6, MarksAt
  <1> HIDE DEF h, n
  <1>8. mark' = n /\ gray_head' = hd /\ Collector' = h
    BY <1>3, <1>4 DEF Becomes, Record, Collector
  <1>9. ListInv'
    BY <1>3, <1>8 DEF ListInv, GoodList
  <1> QED BY <1>3, <1>5, <1>7, <1>8, <1>9 DEF AreMarks

\* What LoopInv says of the next state, given the sets of that state.
LEMMA RootsThen ==
  ASSUME UNCHANGED <<open, closed, before>>, NEW V, NEW U,
         V = ((P!StackValues \ values) \cup (Root \ tables))',
         U = (P!OpenUpvalues \ upvalues)'
  PROVE  Marks(before, (P!StackValues \ values) \cup (Root \ tables),
               P!OpenUpvalues \ upvalues)' = Marks(before, V, U)
  <1> DEFINE A == (P!StackValues \ values) \cup (Root \ tables)
             B == P!OpenUpvalues \ upvalues
  <1>1. A' = V /\ B' = U
    OBVIOUS
  <1> HIDE DEF A, B
  <1>2. Marks(before, A, B)' = Marks(before, V, U)
    BY <1>1 DEF Marks, P!gc_blacken_upvalues, P!gc_mark
  <1> QED BY <1>2 DEF A, B

LEMMA ChildrenThen ==
  ASSUME UNCHANGED <<open, closed, before>>, NEW V, NEW U,
         V = (refs[object] \ values)', U = (caps[object] \ upvalues)'
  PROVE  Marks(before, refs[object] \ values, caps[object] \ upvalues)'
           = Marks(before, V, U)
  <1> DEFINE A == refs[object] \ values
             B == caps[object] \ upvalues
  <1>1. A' = V /\ B' = U
    OBVIOUS
  <1> HIDE DEF A, B
  <1>2. Marks(before, A, B)' = Marks(before, V, U)
    BY <1>1 DEF Marks, P!gc_blacken_upvalues, P!gc_mark
  <1> QED BY <1>2 DEF A, B

\* A turn of one of the loops leaves the heap of Gc alone.
LEMMA ArrayStep ==
  ASSUME IInv, gc_mark_array
  PROVE  Simulated /\ ListInv' /\ LoopInv'
  <1>0. PICK v \in values :
          /\ Becomes(gc_mark_value(Collector, v))
          /\ values' = values \ {v}
          /\ UNCHANGED <<heap, todo, stale, phase, object, upvalues, tables, before>>
    BY DEF gc_mark_array
  <1>1. UNCHANGED <<alloc, refs, caps, stack, open, closed>>
    BY <1>0 DEF heap
  <1>2. Running /\ P!TypeOK /\ LoopInv
    BY <1>0, Start DEF LoopInv, Looped
  <1>3. before \in [P!Obj -> P!Colour]
    BY <1>2 DEF P!TypeOK
  <1>4. v \in P!Val
    BY <1>0, <1>2, Start DEF LoopInv, Running
  <1>5. /\ mark' = P!gc_mark(mark, {v}) /\ mark' \in [P!Obj -> P!Colour]
        /\ ListInv' /\ (phase = "TRACE" => gray_head' = gray_head)
    BY <1>0, <1>2, <1>4, ValueStep
  <1>6. Simulated
    BY <1>0, <1>1 DEF Simulated, P!vars
  <1>7. LoopInv'
    <2>1. CASE phase = "MARK"
      <3> DEFINE V == (P!StackValues \ values) \cup (Root \ tables)
                 U == P!OpenUpvalues \ upvalues
      <3>1. V \in SUBSET P!Val /\ U \in SUBSET Upvalue /\ mark = Marks(before, V, U)
        BY <1>2, <2>1, Start DEF LoopInv
      <3>2. P!StackValues' = P!StackValues /\ P!OpenUpvalues' = P!OpenUpvalues
        BY <1>1 DEF P!StackValues, P!OpenUpvalues
      <3>3. V' = V \cup {v} /\ U' = U
        BY <1>0, <1>2, <2>1, <3>2 DEF LoopInv
      <3>4. Marks(before, V, U)' = Marks(before, V \cup {v}, U)
        BY <1>0, <1>1, <3>3, RootsThen
      <3> HIDE DEF V, U
      <3>5. mark' = Marks(before, V \cup {v}, U)
        BY <1>2, <1>3, <1>4, <1>5, <3>1, MarksValue
      <3>6. mark' = Marks(before, V, U)'
        BY <3>4, <3>5
      <3> QED BY <1>0, <1>2, <1>5, <2>1, <3>2, <3>6 DEF LoopInv, V, U, Running
    <2>2. CASE object # Nil
      <3> DEFINE V == refs[object] \ values
                 U == caps[object] \ upvalues
      <3>1. V \in SUBSET P!Val /\ U \in SUBSET Upvalue /\ mark = Marks(before, V, U)
        BY <1>2, <2>2, Start DEF LoopInv
      <3>2. V' = V \cup {v} /\ U' = U
        BY <1>0, <1>1, <1>2, <2>2 DEF LoopInv
      <3>3. Marks(before, V, U)' = Marks(before, V \cup {v}, U)
        BY <1>0, <1>1, <3>2, ChildrenThen
      <3> HIDE DEF V, U
      <3>4. mark' = Marks(before, V \cup {v}, U)
        BY <1>2, <1>3, <1>4, <1>5, <3>1, MarksValue
      <3>5. mark' = Marks(before, V, U)'
        BY <3>3, <3>4
      <3> QED BY <1>0, <1>1, <1>2, <1>5, <2>2, <3>5 DEF LoopInv, V, U, Running
    <2> QED BY <1>2, <2>1, <2>2 DEF Running
  <1> QED BY <1>5, <1>6, <1>7

LEMMA UpvaluesStep ==
  ASSUME IInv, gc_blacken_upvalues
  PROVE  Simulated /\ ListInv' /\ LoopInv'
  <1>0. PICK u \in upvalues :
          /\ Becomes(gc_blacken_upvalue(Collector, u))
          /\ upvalues' = upvalues \ {u}
          /\ UNCHANGED <<heap, todo, stale, phase, object, values, tables, before>>
    BY DEF gc_blacken_upvalues
  <1>1. UNCHANGED <<alloc, refs, caps, stack, open, closed>>
    BY <1>0 DEF heap
  <1>2. Running /\ P!TypeOK /\ LoopInv
    BY <1>0, Start DEF LoopInv, Looped
  <1>3. u \in Upvalue
    BY <1>0, <1>2, Start DEF LoopInv, Running
  <1>4. Simulated
    BY <1>0, <1>1 DEF Simulated, P!vars
  <1>5. CASE phase = "MARK"
    <2> DEFINE V == (P!StackValues \ values) \cup (Root \ tables)
               U == P!OpenUpvalues \ upvalues
    <2>1. V \in SUBSET P!Val /\ U \in SUBSET Upvalue /\ mark = Marks(before, V, U)
      BY <1>2, <1>5, Start DEF LoopInv
    <2>2. P!StackValues' = P!StackValues /\ P!OpenUpvalues' = P!OpenUpvalues
      BY <1>1 DEF P!StackValues, P!OpenUpvalues
    <2>3. V' = V /\ U' = U \cup {u}
      BY <1>0, <1>2, <1>5, <2>2 DEF LoopInv
    <2>4. Marks(before, V, U)' = Marks(before, V, U \cup {u})
      BY <1>0, <1>1, <2>3, RootsThen
    <2> HIDE DEF V, U
    <2>5. mark' = Marks(before, V, U \cup {u}) /\ mark' \in [P!Obj -> P!Colour] /\ ListInv'
      BY <1>0, <1>2, <1>3, <2>1, UpvalueStep
    <2>6. mark' = Marks(before, V, U)'
      BY <2>4, <2>5
    <2>7. LoopInv'
      BY <1>0, <1>2, <1>5, <2>2, <2>5, <2>6 DEF LoopInv, V, U, Running
    <2> QED BY <1>4, <2>5, <2>7
  <1>6. CASE object # Nil
    <2> DEFINE V == refs[object] \ values
               U == caps[object] \ upvalues
    <2>1. V \in SUBSET P!Val /\ U \in SUBSET Upvalue /\ mark = Marks(before, V, U)
      BY <1>2, <1>6, Start DEF LoopInv
    <2>2. V' = V /\ U' = U \cup {u}
      BY <1>0, <1>1, <1>2, <1>6 DEF LoopInv
    <2>3. Marks(before, V, U)' = Marks(before, V, U \cup {u})
      BY <1>0, <1>1, <2>2, ChildrenThen
    <2> HIDE DEF V, U
    <2>4. /\ mark' = Marks(before, V, U \cup {u}) /\ mark' \in [P!Obj -> P!Colour] /\ ListInv'
          /\ phase = "TRACE" => gray_head' = gray_head
      BY <1>0, <1>2, <1>3, <2>1, UpvalueStep
    <2>5. mark' = Marks(before, V, U)'
      BY <2>3, <2>4
    <2>6. LoopInv'
      BY <1>0, <1>1, <1>2, <1>6, <2>4, <2>5 DEF LoopInv, V, U, Running
    <2> QED BY <1>4, <2>4, <2>6
  <1> QED BY <1>2, <1>5, <1>6 DEF Running

LEMMA TablesStep ==
  ASSUME IInv, MarkTables
  PROVE  Simulated /\ ListInv' /\ LoopInv'
  <1>0. PICK r \in tables :
          /\ Becomes(gc_mark_value(Collector, r))
          /\ tables' = tables \ {r}
          /\ UNCHANGED <<heap, todo, stale, phase, object, values, upvalues, before>>
    BY DEF MarkTables
  <1>1. UNCHANGED <<alloc, refs, caps, stack, open, closed>>
    BY <1>0 DEF heap
  <1>2. phase = "MARK" /\ Running /\ P!TypeOK /\ LoopInv
    BY <1>0, Start DEF LoopInv, Looped, Running
  <1>3. before \in [P!Obj -> P!Colour]
    BY <1>2 DEF P!TypeOK
  <1>4. r \in P!Val
    BY <1>0, <1>2, Start DEF LoopInv
  <1>5. mark' = P!gc_mark(mark, {r}) /\ mark' \in [P!Obj -> P!Colour] /\ ListInv'
    BY <1>0, <1>2, <1>4, ValueStep
  <1>6. Simulated
    BY <1>0, <1>1 DEF Simulated, P!vars
  <1> DEFINE V == (P!StackValues \ values) \cup (Root \ tables)
             U == P!OpenUpvalues \ upvalues
  <1>7. V \in SUBSET P!Val /\ U \in SUBSET Upvalue /\ mark = Marks(before, V, U)
    BY <1>2, Start DEF LoopInv
  <1>8. P!StackValues' = P!StackValues /\ P!OpenUpvalues' = P!OpenUpvalues
    BY <1>1 DEF P!StackValues, P!OpenUpvalues
  <1>9. V' = V \cup {r} /\ U' = U
    BY <1>0, <1>2, <1>8 DEF LoopInv
  <1>10. Marks(before, V, U)' = Marks(before, V \cup {r}, U)
    BY <1>0, <1>1, <1>9, RootsThen
  <1> HIDE DEF V, U
  <1>11. mark' = Marks(before, V \cup {r}, U)
    BY <1>2, <1>3, <1>4, <1>5, <1>7, MarksValue
  <1>12. mark' = Marks(before, V, U)'
    BY <1>10, <1>11
  <1>13. LoopInv'
    BY <1>0, <1>2, <1>5, <1>8, <1>12 DEF LoopInv, V, U, Running
  <1> QED BY <1>5, <1>6, <1>13

\* A step after which no function that marks runs: what LoopInv says of it.
LEMMA Settled ==
  ASSUME P!IInv', mark' = before', Looped', phase' # "MARK", object' = Nil
  PROVE  LoopInv'
  <1>1. mark' \in [P!Obj -> P!Colour]
    BY DEF P!IInv, P!TypeOK
  <1>2. ~Running'
    BY DEF Running
  <1> QED BY <1>1, <1>2 DEF LoopInv, Running

\* Outside the two loops the list is empty and no container gray.
LEMMA EmptyList ==
  ASSUME ListInv, phase \notin {"MARK", "TRACE"}
  PROVE  /\ gray_head = Nil /\ gray_tail = Nil /\ Grays(mark) = {}
         /\ gc_list \in [Container -> Container \cup {Nil}]
         /\ \A c \in Container : gc_list[c] = Nil
  <1>1. PICK order : /\ IsList(order, gray_head, gc_list, Grays(mark))
                     /\ IsTail(order, gray_tail, phase)
    BY DEF ListInv, GoodList, Collector
  <1>2. gray_tail = Nil /\ order = <<>>
    BY <1>1 DEF IsTail
  <1>3. Len(order) = 0
    BY <1>2
  <1> QED BY <1>1, <1>2, <1>3 DEF IsList

\* The other way round.
LEMMA ListEmpty ==
  ASSUME NEW g, NEW ph,
         g.head = Nil, g.tail = Nil, Grays(g.mark) = {},
         g.link \in [Container -> Container \cup {Nil}],
         \A c \in Container : g.link[c] = Nil
  PROVE  GoodList(g, ph)
  <1>1. IsList(<<>>, g.head, g.link, Grays(g.mark))
    BY DEF IsList
  <1>2. IsTail(<<>>, g.tail, ph)
    BY DEF IsTail
  <1> QED BY <1>1, <1>2 DEF GoodList

LEMMA RootsStep ==
  ASSUME IInv, gc_mark_roots
  PROVE  Simulated /\ ListInv' /\ LoopInv'
  <1>0. /\ phase = "PAUSED" /\ phase' = "MARK"
        /\ values' = G!StackValues /\ upvalues' = G!OpenUpvalues /\ tables' = Root
        /\ UNCHANGED <<alloc, refs, caps, stack, open, closed, mark, todo, stale,
                       gray_head, gray_tail, gc_list, object, before>>
    BY DEF gc_mark_roots, heap, list
  <1>1. /\ P!TypeOK /\ ListInv /\ LoopInv /\ mark \in [P!Obj -> P!Colour]
        /\ mark = before /\ object = Nil
    BY <1>0, Start DEF LoopInv, Running
  <1>2. Simulated
    BY <1>0 DEF Simulated, P!vars
  <1>3. ListInv'
    <2>1. /\ Collector'.head = Nil /\ Collector'.tail = Nil /\ Grays(Collector'.mark) = {}
          /\ Collector'.link \in [Container -> Container \cup {Nil}]
          /\ \A c \in Container : Collector'.link[c] = Nil
      BY <1>0, <1>1, EmptyList DEF Collector
    <2>2. GoodList(Collector', phase')
      BY <2>1, ListEmpty
    <2> QED BY <2>2 DEF ListInv, GoodList
  <1>4. values' = P!StackValues /\ upvalues' = P!OpenUpvalues
        /\ P!StackValues' = P!StackValues /\ P!OpenUpvalues' = P!OpenUpvalues
    BY <1>0 DEF G!StackValues, P!StackValues, G!OpenUpvalues, P!OpenUpvalues, G!Slot, P!Slot
  <1> DEFINE V == (P!StackValues \ values) \cup (Root \ tables)
             U == P!OpenUpvalues \ upvalues
  <1>5. V' = {} /\ U' = {}
    BY <1>0, <1>4
  <1>6. Marks(before, V, U)' = Marks(before, {}, {})
    BY <1>0, <1>5, RootsThen
  <1> HIDE DEF V, U
  <1>7. Marks(before, {}, {}) = mark
    BY <1>1, MarksNone
  <1>8. mark' = Marks(before, V, U)'
    BY <1>0, <1>6, <1>7
  <1>9. LoopInv'
    BY <1>0, <1>1, <1>4, <1>8 DEF LoopInv, V, U, Running
  <1> QED BY <1>2, <1>3, <1>9

LEMMA TraceStep ==
  ASSUME IInv, gc_trace_references
  PROVE  Simulated /\ ListInv' /\ LoopInv'
  <1>0. /\ phase = "TRACE" /\ object = Nil /\ gray_head # Nil
        /\ object' = gray_head /\ values' = refs[gray_head] /\ upvalues' = caps[gray_head]
        /\ UNCHANGED <<alloc, refs, caps, stack, open, closed, mark, todo, stale, phase,
                       gray_head, gray_tail, gc_list, tables, before>>
    BY DEF gc_trace_references, heap, list
  <1>1. /\ P!TypeOK /\ ListInv /\ LoopInv /\ mark \in [P!Obj -> P!Colour]
        /\ mark = before /\ tables = {}
    BY <1>0, Start DEF LoopInv, Running, Looped
  <1>2. Simulated
    BY <1>0 DEF Simulated, P!vars
  <1>3. ListInv'
    BY <1>0, <1>1 DEF ListInv, GoodList, Collector
  <1>4. gray_head \in Grays(mark)
    <2>1. PICK order : /\ IsList(order, gray_head, gc_list, Grays(mark))
                       /\ IsTail(order, gray_tail, "TRACE")
      BY <1>0, <1>1 DEF ListInv, GoodList, Collector
    <2> QED BY <1>0, <2>1, Popped
  <1>5. gray_head \in Container /\ before[gray_head] = "gray"
    BY <1>1, <1>4 DEF Grays
  <1> DEFINE V == refs[object] \ values
             U == caps[object] \ upvalues
  <1>6. V' = {} /\ U' = {}
    BY <1>0
  <1>7. Marks(before, V, U)' = Marks(before, {}, {})
    BY <1>0, <1>6, ChildrenThen
  <1> HIDE DEF V, U
  <1>8. Marks(before, {}, {}) = mark
    BY <1>1, MarksNone
  <1>9. mark' = Marks(before, V, U)'
    BY <1>0, <1>7, <1>8
  <1>10. LoopInv'
    BY <1>0, <1>1, <1>5, <1>9 DEF LoopInv, V, U, Running
  <1> QED BY <1>2, <1>3, <1>10

\* The loops over the roots are done: what they did is gc_mark_roots of Gc, and
\* registry and globals make the list long enough to have a tail.
LEMMA RootsMarkedStep ==
  ASSUME IInv, RootsMarked
  PROVE  P!gc_mark_roots /\ ListInv' /\ LoopInv'
  <1>0. /\ phase = "MARK" /\ Looped /\ phase' = "TRACE" /\ before' = mark
        /\ stale' = {u \in Upvalue : before[u] = "black" /\ open[u] = Nil}
        /\ UNCHANGED <<alloc, refs, caps, stack, open, closed, mark, todo,
                       gray_head, gray_tail, gc_list, object, values, upvalues, tables>>
    BY DEF RootsMarked, heap, list, loops
  <1>1. /\ P!IInv /\ P!TypeOK /\ ListInv /\ LoopInv /\ mark \in [P!Obj -> P!Colour]
        /\ before \in [P!Obj -> P!Colour] /\ object = Nil
        /\ Root \in SUBSET P!Val /\ P!StackValues \in SUBSET P!Val
        /\ P!OpenUpvalues \in SUBSET Upvalue
    BY <1>0, Start DEF LoopInv, P!TypeOK
  <1> DEFINE V == Root \cup P!StackValues
             U == P!OpenUpvalues
  <1>2. mark = Marks(before, V, U)
    <2>1. /\ (P!StackValues \ values) \cup (Root \ tables) = V
          /\ P!OpenUpvalues \ upvalues = U
      BY <1>0 DEF Looped
    <2> QED BY <1>0, <1>1, <2>1 DEF LoopInv
  <1>3. P!gc_mark_roots
    BY <1>0, <1>2 DEF P!gc_mark_roots, P!Mutating, Marks, P!heap
  <1>4. AreMarks(mark, before, V, U)
    <2>1. V \in SUBSET P!Val /\ U \in SUBSET Upvalue
      BY <1>1
    <2> QED BY <1>1, <1>2, <2>1, MarksAt
  <1>5. Root \subseteq Grays(mark)
    <2> SUFFICES ASSUME NEW r \in Root PROVE r \in Container /\ mark[r] = "gray"
      BY DEF Grays
    <2>1. r \in Container /\ r \in P!Val /\ r \in V
      BY GraphConstants
    <2>2. r \in alloc /\ todo = {}
      <3>1. r \in P!Obj /\ \A S \in SUBSET P!Obj : P!Roots \subseteq S => r \in S
        BY <2>1, GraphConstants DEF P!Roots
      <3>2. r \in P!Reachable
        BY <3>1 DEF P!Reachable, P!ReachableAvoiding
      <3> QED BY <1>0, <1>1, <3>2 DEF P!IInv, P!IntactInv, P!Intact, P!TodoInv
    <2>3. before[r] = "white"
      BY <1>0, <1>1, <2>1, <2>2 DEF P!IInv, P!MarkInv
    <2> QED BY <1>4, <2>1, <2>3 DEF AreMarks
  <1>6. PICK order : /\ IsList(order, gray_head, gc_list, Grays(mark))
                     /\ IsTail(order, gray_tail, "MARK")
    BY <1>0, <1>1 DEF ListInv, GoodList, Collector
  <1>7. Len(order) \in Nat /\ Len(order) >= 2
    <2>1. PICK r1 \in Root, r2 \in Root : r1 # r2
      BY GrayListAssumption
    <2>2. PICK i \in 1..Len(order), j \in 1..Len(order) : order[i] = r1 /\ order[j] = r2
      BY <1>5, <1>6 DEF IsList
    <2>3. i # j /\ Len(order) \in Nat
      BY <1>6, <2>1, <2>2 DEF IsList
    <2> QED BY <2>2, <2>3
  <1>8. IsTail(order, gray_tail, "TRACE")
    BY <1>6, <1>7 DEF IsTail
  <1>9. ListInv'
    BY <1>0, <1>6, <1>8 DEF ListInv, GoodList, Collector
  <1>10. LoopInv'
    BY <1>0, <1>1 DEF LoopInv, Running, Looped
  <1> QED BY <1>3, <1>9, <1>10

\* The children are marked: the object leaves the list and turns black, and
\* gc_trace_references of Gc is done with it.
LEMMA BlackenStep ==
  ASSUME IInv, gc_blacken_object
  PROVE  P!gc_trace_references(object) /\ object \in Container /\ ListInv' /\ LoopInv'
  <1>0. /\ object # Nil /\ Looped
        /\ mark' = [mark EXCEPT ![object] = "black"] /\ before' = mark'
        /\ gray_head' = gc_list[object]
        /\ gc_list' = [gc_list EXCEPT ![object] = Nil]
        /\ object' = Nil
        /\ UNCHANGED <<alloc, refs, caps, stack, open, closed, todo, stale, phase,
                       gray_tail, values, upvalues, tables>>
    BY DEF gc_blacken_object, heap
  <1>1. /\ P!TypeOK /\ ListInv /\ LoopInv /\ mark \in [P!Obj -> P!Colour]
        /\ phase = "TRACE" /\ object \in Container /\ object = gray_head
        /\ gray_head # Nil /\ before[object] = "gray"
    BY <1>0, Start DEF LoopInv
  <1>2. mark = Marks(before, refs[object], caps[object])
    <2>1. refs[object] \ values = refs[object] /\ caps[object] \ upvalues = caps[object]
      BY <1>0 DEF Looped
    <2> QED BY <1>0, <1>1, <2>1 DEF LoopInv
  <1>3. P!gc_trace_references(object)
    BY <1>0, <1>1, <1>2 DEF P!gc_trace_references, P!GrayContainers, P!gc_blacken, Marks, P!heap
  <1>4. PICK order : /\ IsList(order, gray_head, gc_list, Grays(mark))
                     /\ IsTail(order, gray_tail, "TRACE")
    BY <1>1 DEF ListInv, GoodList, Collector
  <1>5. /\ IsList(Tail(order), gc_list[object], [gc_list EXCEPT ![object] = Nil],
                  Grays(mark) \ {object})
        /\ IsTail(Tail(order), gray_tail, "TRACE")
    BY <1>1, <1>4, Popped
  <1>6. Grays(mark') = Grays(mark) \ {object}
    BY <1>0, <1>1, GraphConstants DEF Grays
  <1>7. ListInv'
    BY <1>0, <1>1, <1>5, <1>6 DEF ListInv, GoodList, Collector
  <1>8. mark' \in [P!Obj -> P!Colour]
    BY <1>0, <1>1 DEF P!Colour
  <1>9. LoopInv'
    BY <1>0, <1>1, <1>8 DEF LoopInv, Running, Looped
  <1> QED BY <1>1, <1>3, <1>7, <1>9

\* The list is empty: so no container is gray.
LEMMA RemoveInternStep ==
  ASSUME IInv, gc_remove_intern
  PROVE  P!gc_remove_intern /\ ListInv' /\ LoopInv'
  <1>0. /\ phase = "TRACE" /\ object = Nil /\ gray_head = Nil /\ gray_tail' = Nil
        /\ alloc' = (alloc \ String) \cup Interned
        /\ mark' = [o \in G!Obj |-> IF o \in String THEN "white" ELSE mark[o]]
        /\ before' = mark' /\ todo' = G!Objects /\ phase' = "SWEEP"
        /\ UNCHANGED <<refs, caps, stack, open, closed, stale, gray_head, gc_list,
                       object, values, upvalues, tables>>
    BY DEF gc_remove_intern, loops
  <1>1. /\ P!IInv /\ P!TypeOK /\ ListInv /\ LoopInv /\ mark \in [P!Obj -> P!Colour]
        /\ mark = before /\ Looped
    BY <1>0, Start DEF LoopInv, Running
  <1>2. G!Obj = P!Obj /\ G!Objects = P!Objects
    BY DEF G!Obj, P!Obj, G!Val, P!Val, G!Objects, P!Objects
  <1>3. PICK order : /\ IsList(order, gray_head, gc_list, Grays(mark))
                     /\ IsTail(order, gray_tail, "TRACE")
    BY <1>0, <1>1 DEF ListInv, GoodList, Collector
  <1>4. order = <<>> /\ Len(order) = 0
    BY <1>0, <1>3, GrayListAssumption DEF IsList
  <1>5. /\ Grays(mark) = {} /\ gc_list \in [Container -> Container \cup {Nil}]
        /\ \A c \in Container : gc_list[c] = Nil
    BY <1>3, <1>4 DEF IsList
  <1>6. P!GrayContainers = {}
    BY <1>1, <1>5 DEF Grays, P!GrayContainers
  <1>7. P!gc_remove_intern
    BY <1>0, <1>1, <1>2, <1>6 DEF P!gc_remove_intern, Interned
  <1>8. \A c \in Container : mark'[c] = mark[c]
    BY <1>0, <1>2, GraphConstants
  <1>9. ListInv'
    <2>1. /\ Collector'.head = Nil /\ Collector'.tail = Nil /\ Grays(Collector'.mark) = {}
          /\ Collector'.link \in [Container -> Container \cup {Nil}]
          /\ \A c \in Container : Collector'.link[c] = Nil
      BY <1>0, <1>5, <1>8 DEF Collector, Grays
    <2>2. GoodList(Collector', phase')
      BY <2>1, ListEmpty
    <2> QED BY <2>2 DEF ListInv, GoodList
  <1>10. P!IInv'
    BY <1>1, <1>7, GraphConstants, P!RemoveInternKeepsInv
  <1>11. LoopInv'
    BY <1>0, <1>1, <1>10, Settled DEF Looped
  <1> QED BY <1>7, <1>9, <1>11

\* The sweep, the end and the mutator are those of Gc, on the same marks.
LEMMA SweepStep ==
  ASSUME IInv, Sweep
  PROVE  (\E o \in P!Obj : P!gc_sweep(o)) /\ ListInv' /\ LoopInv'
  <1>0. PICK o \in G!Obj : G!gc_sweep(o)
    BY DEF Sweep
  <1>1. /\ before' = mark' /\ phase = "SWEEP" /\ phase' = "SWEEP"
        /\ mark' = [mark EXCEPT ![o] = "white"]
        /\ UNCHANGED <<gray_head, gray_tail, gc_list, object, values, upvalues, tables>>
    BY <1>0 DEF Sweep, G!gc_sweep, list, loops
  <1>2. /\ P!IInv /\ ListInv /\ LoopInv /\ mark \in [P!Obj -> P!Colour]
        /\ mark = before /\ object = Nil /\ Looped
    BY <1>1, Start DEF LoopInv, Running
  <1>3. o \in P!Obj
    BY DEF G!Obj, P!Obj, G!Val, P!Val
  <1>4. P!gc_sweep(o)
    BY <1>0, <1>1, <1>2 DEF P!gc_sweep, G!gc_sweep
  <1>5. ListInv'
    <2>1. /\ Collector'.head = Nil /\ Collector'.tail = Nil /\ Grays(Collector'.mark) = {}
          /\ Collector'.link \in [Container -> Container \cup {Nil}]
          /\ \A c \in Container : Collector'.link[c] = Nil
      <3>1. Grays(mark') = {}
        BY <1>1, <1>2, EmptyList, GraphConstants DEF Grays
      <3> QED BY <1>1, <1>2, <3>1, EmptyList DEF Collector
    <2>2. GoodList(Collector', phase')
      BY <2>1, ListEmpty
    <2> QED BY <2>2 DEF ListInv, GoodList
  <1>6. P!IInv'
    BY <1>2, <1>3, <1>4, GraphConstants, P!SweepKeepsInv
  <1>7. LoopInv'
    BY <1>1, <1>2, <1>6, Settled DEF Looped
  <1> QED BY <1>3, <1>4, <1>5, <1>7

LEMMA FinishStep ==
  ASSUME IInv, Finish
  PROVE  P!gc_finish /\ ListInv' /\ LoopInv'
  <1>0. G!gc_finish
    BY DEF Finish
  <1>1. /\ before' = mark' /\ mark' = mark
        /\ phase = "SWEEP" /\ phase' \in {"PAUSED", "UNDEFINED"}
        /\ UNCHANGED <<gray_head, gray_tail, gc_list, object, values, upvalues, tables>>
    BY <1>0 DEF Finish, G!gc_finish, list, loops
  <1>2. /\ P!IInv /\ ListInv /\ LoopInv /\ mark = before /\ object = Nil /\ Looped
    BY <1>1, Start DEF LoopInv, Running
  <1>3. G!Intact = P!Intact
    BY DEF G!Intact, P!Intact, G!Reachable, P!Reachable, G!ReachableAvoiding,
      P!ReachableAvoiding, G!Roots, P!Roots, G!Targets, P!Targets, G!Obj, P!Obj, G!Val, P!Val,
      G!StackValues, P!StackValues, G!OpenUpvalues, P!OpenUpvalues, G!Slot, P!Slot
  <1>4. P!gc_finish
    BY <1>0, <1>1, <1>2, <1>3 DEF P!gc_finish, G!gc_finish, P!heap, G!heap
  <1>5. ListInv'
    <2>1. /\ Collector'.head = Nil /\ Collector'.tail = Nil /\ Grays(Collector'.mark) = {}
          /\ Collector'.link \in [Container -> Container \cup {Nil}]
          /\ \A c \in Container : Collector'.link[c] = Nil
      BY <1>1, <1>2, EmptyList DEF Collector
    <2>2. GoodList(Collector', phase')
      BY <2>1, ListEmpty
    <2> QED BY <2>2 DEF ListInv, GoodList
  <1>6. P!IInv'
    BY <1>2, <1>4, GraphConstants, P!FinishKeepsInv
  <1>7. LoopInv'
    BY <1>1, <1>2, <1>6, Settled DEF Looped
  <1> QED BY <1>4, <1>5, <1>7

LEMMA MutateStep ==
  ASSUME IInv, Mutate
  PROVE  P!Mutate /\ ListInv' /\ LoopInv'
  <1>0. /\ G!Mutate /\ before' = mark'
        /\ UNCHANGED <<gray_head, gray_tail, gc_list, object, values, upvalues, tables>>
    BY DEF Mutate, list, loops
  <1>1. /\ phase = "PAUSED" /\ phase' = phase
        /\ mark' = mark \/ \E o : mark' = [mark EXCEPT ![o] = "white"]
    BY <1>0, Zenon DEF G!Mutate, G!NewTable, G!NewString, G!NewClosure, G!Move, G!GetTable,
      G!SetTable, G!Capture, G!Inherit, G!upvalue_close, G!GetUpvalue, G!SetUpvalue,
      G!object_new, G!Mutating
  <1>2. /\ P!IInv /\ ListInv /\ LoopInv /\ mark \in [P!Obj -> P!Colour]
        /\ mark = before /\ object = Nil /\ Looped
    BY <1>1, Start DEF LoopInv, Running
  <1>3. P!Mutate
    <2>1. before' = mark' /\ mark = before /\ phase = "PAUSED" /\ phase' = "PAUSED"
      BY <1>0, <1>1, <1>2
    <2>2. /\ P!Slot = G!Slot /\ P!Val = G!Val
          /\ P!StackValues = G!StackValues /\ P!OpenUpvalues = G!OpenUpvalues
      BY DEF P!Slot, G!Slot, P!Val, G!Val, P!StackValues, G!StackValues,
        P!OpenUpvalues, G!OpenUpvalues
    <2> USE DEF P!Mutating
    <2>3. \A c, s : G!NewTable(c, s) => P!NewTable(c, s)
      BY <2>1, <2>2 DEF P!NewTable, G!NewTable, P!object_new, G!object_new
    <2>4. \A c, s : G!NewString(c, s) => P!NewString(c, s)
      BY <2>1, <2>2 DEF P!NewString, G!NewString, P!object_new, G!object_new
    <2>5. \A c, p, s : G!NewClosure(c, p, s) => P!NewClosure(c, p, s)
      BY <2>1, <2>2 DEF P!NewClosure, G!NewClosure, P!object_new, G!object_new,
        P!InStack, G!InStack
    <2>6. \A s, v : G!Move(s, v) => P!Move(s, v)
      BY <2>1, <2>2 DEF P!Move, G!Move, P!InStack, G!InStack
    <2>7. \A c, v, s : G!GetTable(c, v, s) => P!GetTable(c, v, s)
      BY <2>1, <2>2 DEF P!GetTable, G!GetTable, P!Accessible, G!Accessible,
        P!InStack, G!InStack
    <2>8. \A c, w, v : G!SetTable(c, w, v) => P!SetTable(c, w, v)
      BY <2>1, <2>2 DEF P!SetTable, G!SetTable, P!Accessible, G!Accessible,
        P!InStack, G!InStack
    <2>9. \A c, s, u : G!Capture(c, s, u) => P!Capture(c, s, u)
      BY <2>1, <2>2 DEF P!Capture, G!Capture, P!InStack, G!InStack,
        P!object_new, G!object_new
    <2>10. \A c, d, u : G!Inherit(c, d, u) => P!Inherit(c, d, u)
      BY <2>1, <2>2 DEF P!Inherit, G!Inherit, P!InStack, G!InStack
    <2>11. \A U : G!upvalue_close(U) => P!upvalue_close(U)
      BY <2>1, <2>2 DEF P!upvalue_close, G!upvalue_close
    <2>12. \A c, u, s : G!GetUpvalue(c, u, s) => P!GetUpvalue(c, u, s)
      BY <2>1, <2>2 DEF P!GetUpvalue, G!GetUpvalue, P!InStack, G!InStack
    <2>13. \A c, u, v : G!SetUpvalue(c, u, v) => P!SetUpvalue(c, u, v)
      BY <2>1, <2>2 DEF P!SetUpvalue, G!SetUpvalue, P!InStack, G!InStack
    <2> QED BY <1>0, <2>2, <2>3, <2>4, <2>5, <2>6, <2>7, <2>8, <2>9, <2>10, <2>11, <2>12, <2>13
      DEF P!Mutate, G!Mutate
  <1>4. ListInv'
    <2>1. /\ Collector'.head = Nil /\ Collector'.tail = Nil /\ Grays(Collector'.mark) = {}
          /\ Collector'.link \in [Container -> Container \cup {Nil}]
          /\ \A c \in Container : Collector'.link[c] = Nil
      <3>1. Grays(mark) = {}
        BY <1>1, <1>2, EmptyList
      <3>2. \A c \in Container : mark'[c] = mark[c] \/ mark'[c] = "white"
        BY <1>1, <1>2, GraphConstants
      <3>3. Grays(mark') = {}
        BY <3>1, <3>2 DEF Grays
      <3> QED BY <1>0, <1>1, <1>2, <3>3, EmptyList DEF Collector
    <2>2. GoodList(Collector', phase')
      BY <2>1, ListEmpty
    <2> QED BY <2>2 DEF ListInv, GoodList
  <1>5. P!IInv'
    BY <1>2, <1>3, GraphConstants, P!MutateKeepsInv
  <1>6. LoopInv'
    BY <1>0, <1>1, <1>2, <1>5, Settled DEF Looped
  <1> QED BY <1>3, <1>4, <1>6

-----------------------------------------------------------------------------
(* The theorems *)

\* lulu_open leaves the list empty and nothing running.
LEMMA InitKeepsInv ==
  ASSUME Init
  PROVE  P!Init /\ IInv
  <1>0. /\ G!Init /\ before = mark /\ object = Nil
        /\ gray_head = Nil /\ gray_tail = Nil /\ gc_list = [c \in Container |-> Nil]
        /\ values = {} /\ upvalues = {} /\ tables = {}
    BY DEF Init
  <1>1. P!Init
    BY <1>0 DEF P!Init, G!Init, P!Slot, G!Slot, P!Obj, G!Obj, P!Val, G!Val
  <1>2. P!IInv
    BY <1>1, GraphConstants, P!InitInv
  <1>3. phase = "PAUSED" /\ mark \in [P!Obj -> P!Colour] /\ Grays(mark) = {}
    BY <1>0, GraphConstants DEF G!Init, G!Obj, P!Obj, G!Val, P!Val, P!Colour, Grays
  <1>4. ListInv
    <2>1. /\ Collector.head = Nil /\ Collector.tail = Nil /\ Grays(Collector.mark) = {}
          /\ Collector.link \in [Container -> Container \cup {Nil}]
          /\ \A c \in Container : Collector.link[c] = Nil
      BY <1>0, <1>3 DEF Collector
    <2> QED BY <2>1, ListEmpty DEF ListInv
  <1>5. LoopInv
    BY <1>0, <1>3 DEF LoopInv, Running, Looped
  <1> QED BY <1>1, <1>2, <1>4, <1>5 DEF IInv

\* Every step is a step of Gc or leaves the variables of Gc alone, and keeps
\* the invariant.
LEMMA StepKeepsInv ==
  ASSUME IInv, [Next]_vars
  PROVE  [P!Next]_(P!vars) /\ IInv'
  <1>1. Simulated /\ ListInv' /\ LoopInv'
    <2>1. CASE UNCHANGED vars
      <3>1. UNCHANGED <<alloc, refs, caps, stack, open, closed, mark, todo, stale, phase,
                        gray_head, gray_tail, gc_list, object, values, upvalues, tables, before>>
        BY <2>1 DEF vars, heap, list, loops
      <3>2. Simulated
        BY <3>1 DEF Simulated, P!vars
      <3>3. ListInv'
        BY <3>1 DEF IInv, ListInv, GoodList, Collector
      <3>4. LoopInv'
        BY <3>1 DEF IInv, LoopInv, Running, Looped, Marks, P!gc_mark, P!gc_blacken_upvalues,
          P!StackValues, P!OpenUpvalues
      <3> QED BY <3>2, <3>3, <3>4
    <2>2. CASE Mutate
      BY <2>2, MutateStep DEF Simulated, P!Next
    <2>3. CASE gc_mark_roots
      BY <2>3, RootsStep
    <2>4. CASE RootsMarked
      BY <2>4, RootsMarkedStep DEF Simulated, P!Next
    <2>5. CASE gc_mark_array
      BY <2>5, ArrayStep
    <2>6. CASE gc_blacken_upvalues
      BY <2>6, UpvaluesStep
    <2>7. CASE MarkTables
      BY <2>7, TablesStep
    <2>8. CASE gc_trace_references
      BY <2>8, TraceStep
    <2>9. CASE gc_blacken_object
      BY <2>9, BlackenStep DEF Simulated, P!Next, P!Collect
    <2>10. CASE gc_remove_intern
      BY <2>10, RemoveInternStep DEF Simulated, P!Next, P!Collect
    <2>11. CASE Sweep
      BY <2>11, SweepStep DEF Simulated, P!Next, P!Collect
    <2>12. CASE Finish
      BY <2>12, FinishStep DEF Simulated, P!Next, P!Collect
    <2> QED BY <2>1, <2>2, <2>3, <2>4, <2>5, <2>6, <2>7, <2>8, <2>9, <2>10, <2>11, <2>12
      DEF Next
  <1>2. [P!Next]_(P!vars)
    BY <1>1 DEF Simulated
  <1>3. P!IInv'
    BY <1>2, GraphConstants, P!StepInv DEF IInv
  <1> QED BY <1>1, <1>2, <1>3 DEF IInv

LEMMA Invariant == Spec => []IInv
  BY InitKeepsInv, StepKeepsInv, PTL DEF Spec

\* The list is in shape in every state.
THEOREM ListsAreInShape == Spec => []ListShape
  <1>1. IInv => ListShape
    <2> SUFFICES ASSUME IInv PROVE ListShape
      OBVIOUS
    <2>0. G!GrayContainers = Grays(mark)
      BY DEF G!GrayContainers, Grays
    <2>1. PICK order : /\ IsList(order, gray_head, gc_list, Grays(mark))
                       /\ IsTail(order, gray_tail, phase)
      BY DEF IInv, ListInv, GoodList, Collector
    <2> DEFINE n == Len(order)
    <2>2. /\ order \in Seq(Container) /\ n \in Nat /\ order \in [1..n -> Grays(mark)]
          /\ \A i, j \in 1..n : order[i] = order[j] => i = j
          /\ Grays(mark) = {order[i] : i \in 1..n}
          /\ DOMAIN order = 1..n
      BY <2>1 DEF IsList
    <2>3. Cardinality(Grays(mark)) = n
      <3>1. order \in Bijection(1..n, Grays(mark))
        BY <2>2 DEF Bijection, Injection, Surjection, IsInjective
      <3> QED BY <2>2, <3>1, FS_CountingElements DEF ExistsBijection
    <2>4. order \in SetToSeqs(Grays(mark))
      BY <2>2, <2>3 DEF SetToSeqs
    <2>5. Spells(order)
      BY <2>1, <2>2 DEF IsList, Spells
    <2>6. phase = "TRACE" /\ order # <<>> => gray_tail = Last(order)
      BY <2>1 DEF IsTail, Last
    <2>7. \A c \in Container \ Grays(mark) : gc_list[c] = Nil
      BY <2>1 DEF IsList
    <2>8. phase \notin {"MARK", "TRACE"} => gray_head = Nil /\ gray_tail = Nil
      BY EmptyList DEF IInv
    <2> QED BY <2>0, <2>4, <2>5, <2>6, <2>7, <2>8 DEF ListShape
  <1> QED BY <1>1, Invariant, PTL

\* Gc under the two instances is the same specification.
LEMMA SameGc ==
  P!Init = Abstract!Init /\ P!Next = Abstract!Next
  <1>1. P!Init = Abstract!Init
    BY DEF P!Init, Abstract!Init, P!Slot, Abstract!Slot, P!Obj, Abstract!Obj, P!Val,
      Abstract!Val
  <1>2. P!Mutate = Abstract!Mutate
    BY DEF P!Mutate, Abstract!Mutate, P!NewTable, Abstract!NewTable, P!NewString,
      Abstract!NewString, P!NewClosure, Abstract!NewClosure, P!Move, Abstract!Move,
      P!GetTable, Abstract!GetTable, P!SetTable, Abstract!SetTable, P!Capture,
      Abstract!Capture, P!Inherit, Abstract!Inherit, P!upvalue_close,
      Abstract!upvalue_close, P!GetUpvalue, Abstract!GetUpvalue, P!SetUpvalue,
      Abstract!SetUpvalue, P!object_new, Abstract!object_new, P!Mutating,
      Abstract!Mutating, P!InStack, Abstract!InStack, P!Accessible, Abstract!Accessible,
      P!StackValues, Abstract!StackValues, P!OpenUpvalues, Abstract!OpenUpvalues, P!Slot,
      Abstract!Slot, P!Obj, Abstract!Obj, P!Val, Abstract!Val
  <1>3. P!gc_mark_roots = Abstract!gc_mark_roots
    BY DEF P!gc_mark_roots, Abstract!gc_mark_roots, P!gc_mark, Abstract!gc_mark,
      P!gc_blacken_upvalues, Abstract!gc_blacken_upvalues, P!Mutating, Abstract!Mutating,
      P!heap, Abstract!heap, P!StackValues, Abstract!StackValues, P!OpenUpvalues,
      Abstract!OpenUpvalues, P!Slot, Abstract!Slot, P!Obj, Abstract!Obj, P!Val,
      Abstract!Val
  <1>4. P!Intact = Abstract!Intact
    BY DEF P!Intact, Abstract!Intact, P!Reachable, Abstract!Reachable, P!ReachableAvoiding,
      Abstract!ReachableAvoiding, P!Roots, Abstract!Roots, P!Targets, Abstract!Targets,
      P!StackValues, Abstract!StackValues, P!OpenUpvalues, Abstract!OpenUpvalues, P!Slot,
      Abstract!Slot, P!Obj, Abstract!Obj, P!Val, Abstract!Val
  <1>5. P!Collect = Abstract!Collect
    BY <1>4 DEF P!Collect, Abstract!Collect, P!gc_trace_references, Abstract!gc_trace_references,
      P!gc_remove_intern, Abstract!gc_remove_intern, P!gc_sweep, Abstract!gc_sweep,
      P!gc_finish, Abstract!gc_finish, P!gc_mark, Abstract!gc_mark,
      P!gc_blacken_upvalues, Abstract!gc_blacken_upvalues, P!gc_blacken,
      Abstract!gc_blacken, P!GrayContainers, Abstract!GrayContainers, P!Objects,
      Abstract!Objects, P!heap, Abstract!heap, P!OpenUpvalues, Abstract!OpenUpvalues,
      P!Obj, Abstract!Obj, P!Val, Abstract!Val
  <1> QED BY <1>1, <1>2, <1>3, <1>5 DEF P!Next, Abstract!Next

\* The collector with its pointers is the collector of Gc, step by step.
THEOREM ListsImplementGc == Spec => ImplementsGc
  <1>1. IInv /\ [Next]_vars => [Abstract!Next]_(Abstract!vars)
    BY StepKeepsInv, SameGc DEF P!vars, Abstract!vars
  <1>2. Init => Abstract!Init
    BY InitKeepsInv, SameGc
  <1> QED BY <1>1, <1>2, Invariant, PTL DEF Spec, ImplementsGc, Abstract!Spec

\* So what is proved of Gc holds of it: it frees nothing the program can reach,
\* except through an upvalue that entered the collection black, and leaves
\* nothing else behind.
THEOREM ListsFreeGarbage == Spec => Abstract!FreedIsGarbage /\ []Abstract!CycleExact
  <1>1. Spec => P!Spec
    BY InitKeepsInv, StepKeepsInv, Invariant, PTL DEF Spec, P!Spec
  <1>2. P!Spec => P!FreedIsGarbage
    BY GraphConstants, P!NothingReachableIsFreed
  <1>3. P!Spec => []P!CycleExact
    BY GraphConstants, P!CollectionsAreExact
  <1>4. P!ReachableAvoiding(stale) = Abstract!ReachableAvoiding(stale)
    BY DEF P!ReachableAvoiding, Abstract!ReachableAvoiding, P!Roots, Abstract!Roots,
      P!Targets, Abstract!Targets, P!StackValues, Abstract!StackValues, P!OpenUpvalues,
      Abstract!OpenUpvalues, P!Slot, Abstract!Slot, P!Obj, Abstract!Obj, P!Val, Abstract!Val
  <1>5. P!CycleExact <=> Abstract!CycleExact
    BY <1>4 DEF P!CycleExact, Abstract!CycleExact
  <1>6. [\A o \in alloc \ alloc' : o \notin P!ReachableAvoiding(stale)]_(P!vars)
        => [\A o \in alloc \ alloc' : o \notin Abstract!ReachableAvoiding(stale)]_(Abstract!vars)
    BY <1>4 DEF P!vars, Abstract!vars
  <1> QED BY <1>1, <1>2, <1>3, <1>5, <1>6, PTL DEF P!FreedIsGarbage, Abstract!FreedIsGarbage

=============================================================================

------------------------------ MODULE GcProofs ------------------------------
(***************************************************************************)
(* Proofs about Gc for every heap, program and number of collections: its  *)
(* type invariant, the tricolour invariant, that no reachable object is    *)
(* freed except through an upvalue that entered the collection black, and  *)
(* that a collection leaves nothing unreachable.                           *)
(***************************************************************************)
EXTENDS Gc, TLAPS

-----------------------------------------------------------------------------
(* The inductive invariant *)

\* A sweep is the only time objects wait to be swept.
TodoInv == phase # "SWEEP" => todo = {}

\* The fields of a free address were reset.
FreeInv ==
  /\ \A c \in Container \ alloc : refs[c] = {} /\ caps[c] = {}
  /\ \A u \in Upvalue \ alloc : closed[u] = Nil

\* Strings are never black and upvalues never gray, and a container the sweep
\* is done with is white.
MarkInv ==
  /\ \A x \in String : mark[x] # "black"
  /\ \A u \in Upvalue : mark[u] # "gray"
  /\ phase \in {"PAUSED", "SWEEP"} =>
       \A c \in (Container \cap alloc) \ todo : mark[c] = "white"

\* What the sweep will leave alone from here on.
Kept == Obj \ {o \in todo : mark[o] # "black"}

\* The sweep leaves alone the roots and, stale upvalues apart, whatever an
\* object it leaves alone refers to.
SweepInv ==
  phase = "SWEEP" =>
    /\ Roots \subseteq Kept
    /\ \A o \in Kept \ stale : Targets(o) \subseteq Kept

\* While the mutator runs nothing it can reach is free.
IntactInv == phase = "PAUSED" => Intact

IInv ==
  /\ TypeOK /\ TodoInv /\ FreeInv /\ MarkInv
  /\ Tricolour /\ SweepInv /\ IntactInv

-----------------------------------------------------------------------------
(* The heap as a graph *)

\* Roots and targets are objects.
LEMMA GraphType ==
  ASSUME TypeOK
  PROVE  /\ Roots \subseteq Obj
         /\ \A o \in Obj : Targets(o) \subseteq Obj
  BY GcAssumption DEF TypeOK, Roots, StackValues, OpenUpvalues, Targets, Obj, Val

\* A set that holds the roots and the targets of its members outside cut holds
\* everything reachable while avoiding cut.
LEMMA ReachableLeast ==
  ASSUME NEW cut, NEW S \in SUBSET Obj,
         Roots \subseteq S,
         \A o \in S \ cut : Targets(o) \subseteq S
  PROVE  ReachableAvoiding(cut) \subseteq S
  BY DEF ReachableAvoiding

\* The objects reachable while avoiding cut are such a set.
LEMMA ReachableClosed ==
  ASSUME TypeOK, NEW cut
  PROVE  /\ Roots \subseteq ReachableAvoiding(cut)
         /\ ReachableAvoiding(cut) \subseteq Obj
         /\ \A o \in ReachableAvoiding(cut) \ cut : Targets(o) \subseteq ReachableAvoiding(cut)
  <1> DEFINE R == ReachableAvoiding(cut)
  <1>1. Roots \subseteq Obj /\ \A o \in Obj : Targets(o) \subseteq Obj
    BY GraphType
  <1>2. R \subseteq Obj
    BY DEF ReachableAvoiding
  <1>3. Roots \subseteq R
    BY <1>1 DEF ReachableAvoiding
  <1>4. ASSUME NEW o \in R \ cut, NEW t \in Targets(o)
        PROVE  t \in R
    <2>1. ASSUME NEW S \in SUBSET Obj, Roots \subseteq S,
                 \A q \in S \ cut : Targets(q) \subseteq S
          PROVE  t \in S
      <3>1. o \in S
        BY <2>1 DEF ReachableAvoiding
      <3>2. QED
        BY <2>1, <3>1
    <2>2. t \in Obj
      BY <1>1, <1>2
    <2>3. QED
      BY <2>1, <2>2 DEF ReachableAvoiding
  <1>5. QED
    BY <1>2, <1>3, <1>4

\* Avoiding an object reaches less.
LEMMA ReachableFewer ==
  ASSUME TypeOK, NEW cut
  PROVE  ReachableAvoiding(cut) \subseteq Reachable
  <1>1. /\ Roots \subseteq Reachable /\ Reachable \in SUBSET Obj
        /\ \A o \in Reachable \ cut : Targets(o) \subseteq Reachable
    BY ReachableClosed DEF Reachable
  <1>2. QED
    BY <1>1, ReachableLeast

\* How IntactInv is preserved: whatever the step made reachable is old, or is
\* allocated by the step.
LEMMA IntactKept ==
  ASSUME NEW S \in SUBSET Obj,
         S \subseteq alloc',
         Roots' \subseteq S,
         \A o \in S : Targets(o)' \subseteq S
  PROVE  Intact'
  BY DEF Intact, Reachable, ReachableAvoiding

-----------------------------------------------------------------------------
(* The marking operators *)

\* gc_mark turns white into gray on S and changes nothing else.
LEMMA gc_mark_Facts ==
  ASSUME NEW m \in [Obj -> Colour], NEW S \in SUBSET Obj
  PROVE  /\ gc_mark(m, S) \in [Obj -> Colour]
         /\ \A o \in Obj : m[o] # "white" => gc_mark(m, S)[o] = m[o]
         /\ \A o \in Obj : gc_mark(m, S)[o] = "black" => m[o] = "black"
         /\ \A o \in Obj : gc_mark(m, S)[o] = "gray" => m[o] = "gray" \/ o \in S
         /\ \A o \in S : gc_mark(m, S)[o] # "white"
  BY DEF gc_mark, Colour

\* gc_blacken_upvalues blackens U, grays the values of the closed upvalues it
\* had not met, and never whitens.
LEMMA gc_blacken_upvalues_Facts ==
  ASSUME TypeOK, NEW m \in [Obj -> Colour], NEW U \in SUBSET Upvalue
  PROVE  LET n == gc_blacken_upvalues(m, U) IN
         /\ n \in [Obj -> Colour]
         /\ \A o \in Obj : m[o] # "white" => n[o] # "white"
         /\ \A o \in Obj : n[o] = "black" => m[o] = "black" \/ o \in U
         /\ \A o \in U : n[o] = "black"
         /\ \A o \in Upvalue : n[o] = "gray" => m[o] = "gray"
         /\ \A u \in U : m[u] # "black" /\ open[u] = Nil /\ closed[u] # Nil =>
                          n[closed[u]] # "white"
  <1> DEFINE fresh  == {u \in U : m[u] # "black"}
             values == {closed[u] : u \in {x \in fresh : open[x] = Nil}} \ {Nil}
             n == gc_blacken_upvalues(m, U)
  <1>1. values \subseteq Val
    BY DEF TypeOK
  <1>2. values \subseteq Obj /\ values \cap Upvalue = {}
    BY <1>1, GcAssumption DEF Obj
  <1>3. /\ gc_mark(m, values) \in [Obj -> Colour]
        /\ \A o \in Obj : m[o] # "white" => gc_mark(m, values)[o] = m[o]
        /\ \A o \in Obj : gc_mark(m, values)[o] = "black" => m[o] = "black"
        /\ \A o \in Obj : gc_mark(m, values)[o] = "gray" => m[o] = "gray" \/ o \in values
        /\ \A o \in values : gc_mark(m, values)[o] # "white"
    BY <1>2, gc_mark_Facts
  <1>4. n = [o \in Obj |-> IF o \in fresh THEN "black" ELSE gc_mark(m, values)[o]]
    BY DEF gc_blacken_upvalues
  <1>5. \A o \in Obj : n[o] = IF o \in fresh THEN "black" ELSE gc_mark(m, values)[o]
    BY <1>4
  <1> HIDE DEF n, values
  <1>6. U \subseteq Obj /\ Upvalue \subseteq Obj
    BY DEF Obj
  <1>7. n \in [Obj -> Colour]
    BY <1>3, <1>4 DEF Colour
  <1>8. \A o \in Obj : m[o] # "white" => n[o] # "white"
    BY <1>3, <1>5
  <1>9. \A o \in Obj : n[o] = "black" => m[o] = "black" \/ o \in U
    BY <1>3, <1>5
  <1>10. \A o \in U : n[o] = "black"
    BY <1>3, <1>5, <1>6
  <1>11. \A o \in Upvalue : n[o] = "gray" => m[o] = "gray"
    BY <1>2, <1>3, <1>5, <1>6
  <1>12. ASSUME NEW u \in U, m[u] # "black", open[u] = Nil, closed[u] # Nil
         PROVE  n[closed[u]] # "white"
    <2>1. closed[u] \in values
      BY <1>12 DEF values
    <2>2. QED
      BY <2>1, <1>2, <1>3, <1>5
  <1>13. QED
    BY <1>7, <1>8, <1>9, <1>10, <1>11, <1>12 DEF n

-----------------------------------------------------------------------------
(* The mutator *)

\* A step that only the mutator takes keeps the invariant when it keeps the
\* types and the marks of what was allocated, and everything it makes
\* reachable is in a set S of allocated objects.
LEMMA MutatorStep ==
  ASSUME IInv, TypeOK', FreeInv', phase = "PAUSED",
         UNCHANGED <<phase, todo, stale>>,
         \A o \in Obj : mark'[o] = mark[o] \/ mark'[o] = "white",
         Objects' \cap Container \subseteq Objects \cup {o \in Obj : mark'[o] = "white"},
         NEW S \in SUBSET Obj,
         S \subseteq alloc',
         Roots' \subseteq S,
         \A o \in S : Targets(o)' \subseteq S
  PROVE  IInv'
  <1>1. TodoInv' /\ Tricolour' /\ SweepInv'
    BY DEF IInv, TodoInv, Tricolour, SweepInv
  <1>2. IntactInv'
    BY IntactKept DEF IntactInv
  <1>3. MarkInv'
    BY GcAssumption DEF IInv, MarkInv, Obj, Val, Objects, TypeOK
  <1>4. QED
    BY <1>1, <1>2, <1>3 DEF IInv

\* Between collections: every operation of the VM on the heap keeps the invariant.
LEMMA MutateKeepsInv ==
  ASSUME IInv, Mutate
  PROVE  IInv'
  <1> USE GcAssumption
  <1>0. /\ TypeOK /\ FreeInv /\ MarkInv /\ Obj = Val \cup Upvalue
        /\ phase = "PAUSED" => todo = {} /\ Reachable \subseteq alloc
    BY DEF IInv, Obj, TodoInv, IntactInv, Intact
  <1>R. /\ Roots \subseteq Reachable
        /\ Reachable \subseteq Obj
        /\ \A o \in Reachable : Targets(o) \subseteq Reachable
    BY <1>0, ReachableClosed DEF Reachable
  <1>1. ASSUME NEW c \in Container, NEW s \in Slot, NewTable(c, s)
        PROVE  IInv'
    <2> DEFINE S == Reachable \cup {c}
    <2> USE <1>1 DEF NewTable, Mutating, object_new
    <2>1. TypeOK'
      BY <1>0 DEF TypeOK, Val, Obj, Colour, Objects, OpenUpvalues
    <2>2. FreeInv'
      BY <1>0 DEF FreeInv
    <2>3. S \in SUBSET Obj /\ S \subseteq alloc'
      BY <1>0, <1>R DEF Obj, Val
    <2>4. Roots' \subseteq S
      BY <1>R DEF Roots, StackValues, OpenUpvalues, TypeOK, Slot
    <2>5. \A o \in S : Targets(o)' \subseteq S
      BY <1>0, <1>R DEF Targets, FreeInv
    <2>6. \A o \in Obj : mark'[o] = mark[o] \/ mark'[o] = "white"
      BY <1>0 DEF TypeOK
    <2>7. Objects' \cap Container \subseteq Objects \cup {o \in Obj : mark'[o] = "white"}
      BY <1>0 DEF Objects, TypeOK, Obj, Val
    <2>8. QED
      BY <2>1, <2>2, <2>3, <2>4, <2>5, <2>6, <2>7, MutatorStep
  <1>2. ASSUME NEW x \in String, NEW s \in Slot, NewString(x, s)
        PROVE  IInv'
    <2> DEFINE S == Reachable \cup {x}
    <2> USE <1>2 DEF NewString, Mutating, object_new
    <2>1. TypeOK'
      BY <1>0 DEF TypeOK, Val, Obj, Colour, Objects, OpenUpvalues
    <2>2. FreeInv'
      BY <1>0 DEF FreeInv
    <2>3. S \in SUBSET Obj /\ S \subseteq alloc'
      BY <1>0, <1>R DEF Obj, Val
    <2>4. Roots' \subseteq S
      BY <1>R DEF Roots, StackValues, OpenUpvalues, TypeOK, Slot
    <2>5. \A o \in S : Targets(o)' \subseteq S
      BY <1>0, <1>R DEF Targets, Val
    <2>6. \A o \in Obj : mark'[o] = mark[o] \/ mark'[o] = "white"
      BY <1>0 DEF TypeOK
    <2>7. Objects' \cap Container \subseteq Objects \cup {o \in Obj : mark'[o] = "white"}
      BY <1>0 DEF Objects, Val
    <2>8. QED
      BY <2>1, <2>2, <2>3, <2>4, <2>5, <2>6, <2>7, MutatorStep
  <1>3. ASSUME NEW c \in Closure, NEW p \in Val, NEW s \in Slot, NewClosure(c, p, s)
        PROVE  IInv'
    <2> DEFINE S == Reachable \cup {c}
    <2> USE <1>3 DEF NewClosure, Mutating, object_new
    <2>1. TypeOK'
      BY <1>0 DEF TypeOK, Val, Obj, Colour, Objects, OpenUpvalues
    <2>2. FreeInv'
      BY <1>0 DEF FreeInv, TypeOK
    <2>3. S \in SUBSET Obj /\ S \subseteq alloc'
      BY <1>0, <1>R DEF Obj, Val
    <2>4. Roots' \subseteq S /\ p \in Reachable
      BY <1>R DEF Roots, StackValues, OpenUpvalues, TypeOK, Slot, InStack
    <2>5. \A o \in S : Targets(o)' \subseteq S
      BY <1>0, <1>R, <2>4 DEF Targets, FreeInv, TypeOK
    <2>6. \A o \in Obj : mark'[o] = mark[o] \/ mark'[o] = "white"
      BY <1>0 DEF TypeOK
    <2>7. Objects' \cap Container \subseteq Objects \cup {o \in Obj : mark'[o] = "white"}
      BY <1>0 DEF Objects, TypeOK, Obj, Val
    <2>8. QED
      BY <2>1, <2>2, <2>3, <2>4, <2>5, <2>6, <2>7, MutatorStep
  <1>4. ASSUME NEW s \in Slot, NEW v \in Val \cup {Nil}, Move(s, v)
        PROVE  IInv'
    <2> DEFINE S == Reachable
    <2> USE <1>4 DEF Move, Mutating
    <2>1. TypeOK'
      BY <1>0 DEF TypeOK, Objects, OpenUpvalues
    <2>2. FreeInv'
      BY <1>0 DEF FreeInv
    <2>4. Roots' \subseteq S
      BY <1>R DEF Roots, StackValues, OpenUpvalues, TypeOK, Slot, InStack
    <2>5. \A o \in S : Targets(o)' \subseteq S
      BY <1>R DEF Targets
    <2>7. Objects' = Objects
      BY DEF Objects
    <2>8. QED
      BY <1>0, <1>R, <2>1, <2>2, <2>4, <2>5, <2>7, MutatorStep
  <1>5. ASSUME NEW c \in Container, NEW v \in Val, NEW s \in Slot, GetTable(c, v, s)
        PROVE  IInv'
    <2> DEFINE S == Reachable
    <2> USE <1>5 DEF GetTable, Mutating
    <2>1. TypeOK'
      BY <1>0 DEF TypeOK, Objects, OpenUpvalues
    <2>2. FreeInv'
      BY <1>0 DEF FreeInv
    <2>3. v \in Reachable
      BY <1>R DEF Roots, Targets, Accessible, InStack
    <2>4. Roots' \subseteq S
      BY <1>R, <2>3 DEF Roots, StackValues, OpenUpvalues, TypeOK, Slot
    <2>5. \A o \in S : Targets(o)' \subseteq S
      BY <1>R DEF Targets
    <2>7. Objects' = Objects
      BY DEF Objects
    <2>8. QED
      BY <1>0, <1>R, <2>1, <2>2, <2>4, <2>5, <2>7, MutatorStep
  <1>6. ASSUME NEW c \in Container, NEW old \in Val \cup {Nil}, NEW v \in Val \cup {Nil},
               SetTable(c, old, v)
        PROVE  IInv'
    <2> DEFINE S == Reachable
    <2> USE <1>6 DEF SetTable, Mutating
    <2>1. TypeOK'
      BY <1>0 DEF TypeOK, Objects, OpenUpvalues
    <2>2. c \in Reachable /\ (v = Nil \/ v \in Reachable)
      BY <1>R DEF Roots, Accessible, InStack
    <2>3. FreeInv'
      BY <1>0, <2>2 DEF FreeInv, TypeOK
    <2>4. Roots' \subseteq S
      BY <1>R DEF Roots, StackValues, OpenUpvalues
    <2>5. \A o \in S : Targets(o)' \subseteq S
      BY <1>0, <1>R, <2>2 DEF Targets, TypeOK
    <2>7. Objects' = Objects
      BY DEF Objects
    <2>8. QED
      BY <1>0, <1>R, <2>1, <2>3, <2>4, <2>5, <2>7, MutatorStep
  <1>7. ASSUME NEW c \in Closure, NEW s \in Slot, NEW u \in Upvalue, Capture(c, s, u)
        PROVE  IInv'
    <2> DEFINE S == Reachable \cup {u}
    <2> USE <1>7 DEF Capture, Mutating, object_new
    <2>1. TypeOK'
      BY <1>0 DEF TypeOK, Obj, Colour, Objects, OpenUpvalues
    <2>2. c \in Reachable
      BY <1>R DEF Roots, InStack
    <2>3. FreeInv'
      BY <1>0, <2>2 DEF FreeInv, TypeOK
    <2>4. S \in SUBSET Obj /\ S \subseteq alloc'
      BY <1>0, <1>R DEF Obj, TypeOK
    <2>5. Roots' \subseteq S
      BY <1>0, <1>R DEF Roots, StackValues, OpenUpvalues, TypeOK
    <2>6. \A o \in S : Targets(o)' \subseteq S
      <3> SUFFICES ASSUME NEW o \in S
                   PROVE  Targets(o)' \subseteq S
        OBVIOUS
      <3>1. CASE o \in Container
        <4>1. o \in Reachable
          BY <3>1 DEF Val
        <4>2. refs[o] \cup caps[o] \subseteq Reachable
          BY <1>R, <3>1, <4>1 DEF Targets
        <4>3. refs'[o] \cup caps'[o] \subseteq refs[o] \cup caps[o] \cup {u}
          BY <1>0, <3>1 DEF TypeOK
        <4>4. QED
          BY <3>1, <4>2, <4>3 DEF Targets
      <3>2. CASE o = u
        <4>1. open'[u] # Nil
          BY <1>0 DEF TypeOK, OpenUpvalues, Slot
        <4>2. QED
          BY <3>2, <4>1 DEF Targets, Val
      <3>3. CASE o \notin Container /\ o # u
        BY <1>0, <1>R, <3>3 DEF Targets, TypeOK
      <3>4. QED
        BY <3>1, <3>2, <3>3
    <2>7. \A o \in Obj : mark'[o] = mark[o] \/ mark'[o] = "white"
      BY <1>0 DEF TypeOK
    <2>8. Objects' \cap Container \subseteq Objects \cup {o \in Obj : mark'[o] = "white"}
      BY <1>0 DEF Objects, Val
    <2>9. QED
      BY <2>1, <2>3, <2>4, <2>5, <2>6, <2>7, <2>8, MutatorStep
  <1>8. ASSUME NEW c \in Closure, NEW d \in Closure, NEW u \in Upvalue, Inherit(c, d, u)
        PROVE  IInv'
    <2> DEFINE S == Reachable
    <2> USE <1>8 DEF Inherit, Mutating
    <2>1. TypeOK'
      BY <1>0 DEF TypeOK, Objects, OpenUpvalues
    <2>2. c \in Reachable /\ d \in Reachable /\ u \in Reachable
      BY <1>R DEF Roots, InStack, Targets
    <2>3. FreeInv'
      BY <1>0, <2>2 DEF FreeInv, TypeOK
    <2>4. Roots' \subseteq S
      BY <1>R DEF Roots, StackValues, OpenUpvalues
    <2>5. \A o \in S : Targets(o)' \subseteq S
      BY <1>0, <1>R, <2>2 DEF Targets, TypeOK
    <2>7. Objects' = Objects
      BY DEF Objects
    <2>8. QED
      BY <1>0, <1>R, <2>1, <2>3, <2>4, <2>5, <2>7, MutatorStep
  <1>9. ASSUME NEW U \in SUBSET Upvalue, upvalue_close(U)
        PROVE  IInv'
    <2> DEFINE S == Reachable
    <2> USE <1>9 DEF upvalue_close, Mutating
    <2>1. \A u \in U : u \in alloc /\ u \in Reachable /\ open[u] \in Slot
      BY <1>0, <1>R DEF TypeOK, OpenUpvalues, Roots
    <2>2. \A u \in U : stack[open[u]] \in Val \cup {Nil}
      BY <1>0, <2>1 DEF TypeOK
    <2>3. TypeOK'
      BY <1>0, <2>1, <2>2 DEF TypeOK, Objects, OpenUpvalues
    <2>4. FreeInv'
      BY <1>0, <2>1 DEF FreeInv
    <2>5. Roots' \subseteq S
      BY <1>R DEF Roots, StackValues, OpenUpvalues
    <2>6. \A u \in U : stack[open[u]] = Nil \/ stack[open[u]] \in Reachable
      BY <1>R, <2>1 DEF Roots, StackValues
    <2>7. \A o \in S : Targets(o)' \subseteq S
      BY <1>R, <2>6 DEF Targets
    <2>8. Objects' \cap Container \subseteq Objects
      BY <1>0 DEF Objects, Val
    <2>9. QED
      BY <1>0, <1>R, <2>3, <2>4, <2>5, <2>7, <2>8, MutatorStep
  <1>10. ASSUME NEW c \in Closure, NEW u \in Upvalue, NEW s \in Slot, GetUpvalue(c, u, s)
         PROVE  IInv'
    <2> DEFINE S == Reachable
    <2> USE <1>10 DEF GetUpvalue, Mutating
    <2>1. TypeOK'
      BY <1>0 DEF TypeOK, Objects, OpenUpvalues
    <2>2. FreeInv'
      BY <1>0 DEF FreeInv
    <2>3. u \in Reachable
      BY <1>R DEF Roots, Targets, InStack
    <2>4. open[u] = Nil /\ u \notin Container
      BY DEF OpenUpvalues, Val
    <2>5. closed[u] = Nil \/ closed[u] \in Reachable
      BY <1>R, <2>3, <2>4 DEF Targets
    <2>6. Roots' \subseteq S
      BY <1>R, <2>5 DEF Roots, StackValues, OpenUpvalues, TypeOK, Slot
    <2>7. \A o \in S : Targets(o)' \subseteq S
      BY <1>R DEF Targets
    <2>8. Objects' = Objects
      BY DEF Objects
    <2>9. QED
      BY <1>0, <1>R, <2>1, <2>2, <2>6, <2>7, <2>8, MutatorStep
  <1>11. ASSUME NEW c \in Closure, NEW u \in Upvalue, NEW v \in Val \cup {Nil},
                SetUpvalue(c, u, v)
         PROVE  IInv'
    <2> DEFINE S == Reachable
    <2> USE <1>11 DEF SetUpvalue, Mutating
    <2>1. TypeOK'
      BY <1>0 DEF TypeOK, Objects, OpenUpvalues
    <2>2. u \in Reachable /\ (v = Nil \/ v \in Reachable)
      BY <1>R DEF Roots, Targets, InStack
    <2>3. FreeInv'
      BY <1>0, <2>2 DEF FreeInv
    <2>4. Roots' \subseteq S
      BY <1>R DEF Roots, StackValues, OpenUpvalues
    <2>5. \A o \in S : Targets(o)' \subseteq S
      BY <1>0, <1>R, <2>2 DEF Targets, TypeOK
    <2>7. Objects' = Objects
      BY DEF Objects
    <2>8. QED
      BY <1>0, <1>R, <2>1, <2>3, <2>4, <2>5, <2>7, MutatorStep
  <1>12. QED
    BY <1>1, <1>2, <1>3, <1>4, <1>5, <1>6, <1>7, <1>8, <1>9, <1>10, <1>11 DEF Mutate

-----------------------------------------------------------------------------
(* The collector *)

\* gc_mark_roots starts a collection from clean marks and grays or blackens every root.
LEMMA MarkRootsKeepsInv ==
  ASSUME IInv, gc_mark_roots
  PROVE  IInv'
  <1> USE GcAssumption DEF gc_mark_roots, Mutating, heap
  <1> DEFINE m == gc_mark(mark, Root \cup StackValues)
             n == gc_blacken_upvalues(m, OpenUpvalues)
  <1>0. TypeOK /\ TodoInv /\ FreeInv /\ MarkInv
    BY DEF IInv
  <1>1. /\ Root \cup StackValues \in SUBSET Obj
        /\ OpenUpvalues \in SUBSET Upvalue
        /\ mark \in [Obj -> Colour]
        /\ String \subseteq Obj /\ Upvalue \subseteq Obj /\ Container \subseteq Obj
        /\ (Root \cup StackValues) \cap Upvalue = {}
        /\ String \cap Upvalue = {} /\ String \cap Container = {}
    BY <1>0 DEF TypeOK, StackValues, OpenUpvalues, Obj, Val
  <1>2. /\ m \in [Obj -> Colour]
        /\ \A o \in Obj : mark[o] # "white" => m[o] = mark[o]
        /\ \A o \in Obj : m[o] = "black" => mark[o] = "black"
        /\ \A o \in Obj : m[o] = "gray" => mark[o] = "gray" \/ o \in Root \cup StackValues
        /\ \A o \in Root \cup StackValues : m[o] # "white"
    BY <1>1, gc_mark_Facts
  <1>3. /\ n \in [Obj -> Colour]
        /\ \A o \in Obj : m[o] # "white" => n[o] # "white"
        /\ \A o \in Obj : n[o] = "black" => m[o] = "black" \/ o \in OpenUpvalues
        /\ \A o \in OpenUpvalues : n[o] = "black"
        /\ \A o \in Upvalue : n[o] = "gray" => m[o] = "gray"
    <2> HIDE DEF m
    <2>1. QED
      BY <1>0, <1>1, <1>2, gc_blacken_upvalues_Facts
  <1>4. mark' = n
    OBVIOUS
  <1> HIDE DEF m, n
  <1>5. UNCHANGED <<alloc, refs, caps, stack, open, closed, todo>> /\ phase' = "TRACE"
    OBVIOUS
  <1>6. Roots' = Roots /\ (\A o : Targets(o)' = Targets(o)) /\ Objects' = Objects
    BY <1>5 DEF Roots, StackValues, OpenUpvalues, Targets, Objects
  <1>7. stale' = {u \in Upvalue : mark[u] = "black" /\ open[u] = Nil}
    OBVIOUS
  <1>8. TypeOK'
    BY <1>0, <1>3, <1>4, <1>5, <1>6, <1>7 DEF TypeOK, OpenUpvalues
  <1>9. TodoInv' /\ FreeInv' /\ SweepInv' /\ IntactInv'
    BY <1>0, <1>5 DEF TodoInv, FreeInv, SweepInv, IntactInv
  <1>10. MarkInv'
    BY <1>0, <1>1, <1>2, <1>3, <1>4, <1>5 DEF MarkInv, OpenUpvalues
  <1>11. ASSUME NEW o \in Obj \ stale', mark'[o] = "black", NEW t \in Targets(o)
         PROVE  mark'[t] # "white"
    <2>1. o \in OpenUpvalues \/ mark[o] = "black"
      BY <1>2, <1>3, <1>4, <1>11
    <2>2. CASE o \in OpenUpvalues
      BY <2>2 DEF Targets, OpenUpvalues, Val
    <2>3. CASE o \in Upvalue /\ o \notin OpenUpvalues
      BY <1>7, <1>11, <2>1, <2>3 DEF OpenUpvalues
    <2>4. CASE o \in Container
      <3>1. o \notin alloc
        BY <1>0, <2>1, <2>2, <2>4, <1>1 DEF MarkInv, TodoInv, OpenUpvalues, Val
      <3>2. QED
        BY <1>0, <2>4, <3>1 DEF FreeInv, Targets
    <2>5. CASE o \in String
      BY <2>5, <1>1 DEF Targets
    <2>6. QED
      BY <2>2, <2>3, <2>4, <2>5 DEF Obj, Val
  <1>12. ASSUME NEW r \in Roots
         PROVE  mark'[r] # "white"
    BY <1>1, <1>2, <1>3, <1>4 DEF Roots
  <1>13. Tricolour'
    BY <1>6, <1>11, <1>12 DEF Tricolour
  <1>14. QED
    BY <1>8, <1>9, <1>10, <1>13 DEF IInv

\* gc_trace_references grays the children of the container it blackens.
LEMMA TraceKeepsInv ==
  ASSUME IInv, NEW c \in Container, gc_trace_references(c)
  PROVE  IInv'
  <1> USE GcAssumption DEF gc_trace_references, heap
  <1> DEFINE m == gc_mark(mark, refs[c])
             n == gc_blacken_upvalues(m, caps[c])
  <1>0. TypeOK /\ TodoInv /\ FreeInv /\ MarkInv /\ Tricolour /\ phase = "TRACE"
    BY DEF IInv
  <1>1. /\ refs[c] \in SUBSET Obj /\ refs[c] \cap Upvalue = {}
        /\ caps[c] \in SUBSET Upvalue
        /\ mark \in [Obj -> Colour]
        /\ String \subseteq Obj /\ Upvalue \subseteq Obj /\ Container \subseteq Obj
        /\ String \cap Upvalue = {} /\ String \cap Container = {}
        /\ Upvalue \cap Container = {}
    BY <1>0 DEF TypeOK, Obj, Val
  <1>2. /\ m \in [Obj -> Colour]
        /\ \A o \in Obj : mark[o] # "white" => m[o] = mark[o]
        /\ \A o \in Obj : m[o] = "black" => mark[o] = "black"
        /\ \A o \in Obj : m[o] = "gray" => mark[o] = "gray" \/ o \in refs[c]
        /\ \A o \in refs[c] : m[o] # "white"
    BY <1>1, gc_mark_Facts
  <1>3. /\ n \in [Obj -> Colour]
        /\ \A o \in Obj : m[o] # "white" => n[o] # "white"
        /\ \A o \in Obj : n[o] = "black" => m[o] = "black" \/ o \in caps[c]
        /\ \A o \in caps[c] : n[o] = "black"
        /\ \A o \in Upvalue : n[o] = "gray" => m[o] = "gray"
        /\ \A u \in caps[c] : m[u] # "black" /\ open[u] = Nil /\ closed[u] # Nil =>
                             n[closed[u]] # "white"
    <2> HIDE DEF m
    <2>1. QED
      BY <1>0, <1>1, <1>2, gc_blacken_upvalues_Facts
  <1>4. mark' = [n EXCEPT ![c] = "black"]
    BY DEF gc_blacken
  <1> HIDE DEF m, n
  <1>5. UNCHANGED <<alloc, refs, caps, stack, open, closed, phase, todo, stale>>
    OBVIOUS
  <1>6. Roots' = Roots /\ (\A o : Targets(o)' = Targets(o)) /\ Objects' = Objects
    BY <1>5 DEF Roots, StackValues, OpenUpvalues, Targets, Objects
  <1>7. /\ mark' \in [Obj -> Colour]
        /\ \A o \in Obj : o # c => mark'[o] = n[o]
        /\ mark'[c] = "black"
        /\ \A o \in Obj : mark[o] # "white" => mark'[o] # "white"
    BY <1>1, <1>2, <1>3, <1>4 DEF Colour
  <1>8. TypeOK'
    BY <1>0, <1>5, <1>6, <1>7 DEF TypeOK, OpenUpvalues
  <1>9. TodoInv' /\ FreeInv' /\ SweepInv' /\ IntactInv'
    BY <1>0, <1>5 DEF TodoInv, FreeInv, SweepInv, IntactInv
  <1>10. MarkInv'
    BY <1>0, <1>1, <1>2, <1>3, <1>5, <1>7 DEF MarkInv
  <1>11. ASSUME NEW o \in Obj \ stale, mark'[o] = "black", NEW t \in Targets(o)
         PROVE  mark'[t] # "white"
    <2>1. t \in Obj /\ Targets(o) \subseteq Obj
      BY <1>0, GraphType
    <2>2. CASE mark[o] = "black"
      BY <1>0, <1>7, <2>1, <2>2 DEF Tricolour
    <2>3. CASE o = c
      BY <1>2, <1>3, <1>7, <1>1, <2>1, <2>3 DEF Targets
    <2>4. CASE o # c /\ mark[o] # "black"
      <3>1. o \in caps[c] /\ m[o] # "black"
        BY <1>2, <1>3, <1>7, <1>11, <2>4
      <3>2. open[o] = Nil /\ closed[o] # Nil /\ t = closed[o]
        BY <3>1, <1>1 DEF Targets
      <3>3. n[t] # "white"
        BY <1>3, <3>1, <3>2
      <3>4. QED
        BY <1>7, <2>1, <3>3
    <2>5. QED
      BY <2>2, <2>3, <2>4
  <1>12. ASSUME NEW r \in Roots
         PROVE  mark'[r] # "white"
    BY <1>0, <1>7, GraphType DEF Tricolour
  <1>13. Tricolour'
    BY <1>5, <1>6, <1>11, <1>12 DEF Tricolour
  <1>14. QED
    BY <1>8, <1>9, <1>10, <1>13 DEF IInv

\* When the gray list is empty the marked objects are closed under Targets, and
\* gc_remove_intern frees strings outside them.
LEMMA RemoveInternKeepsInv ==
  ASSUME IInv, gc_remove_intern
  PROVE  IInv'
  <1> USE GcAssumption DEF gc_remove_intern
  <1>0. /\ TypeOK /\ FreeInv /\ MarkInv /\ Tricolour
        /\ String \subseteq Obj /\ Upvalue \subseteq Obj /\ Container \subseteq Obj
        /\ String \cap Upvalue = {} /\ String \cap Container = {}
        /\ Upvalue \cap Container = {}
    BY DEF IInv, Obj, Val
  <1>1. /\ UNCHANGED <<refs, caps, stack, open, closed, stale>>
        /\ todo' = Objects /\ phase' = "SWEEP"
        /\ alloc' \ String = alloc \ String /\ alloc' \subseteq alloc
        /\ \A o \in Obj : mark'[o] = IF o \in String THEN "white" ELSE mark[o]
        /\ mark' \in [Obj -> Colour]
    BY <1>0 DEF TypeOK, Colour
  <1>2. Roots' = Roots /\ (\A o : Targets(o)' = Targets(o)) /\ Objects' = Objects
        /\ OpenUpvalues' = OpenUpvalues
    BY <1>0, <1>1 DEF Roots, StackValues, OpenUpvalues, Targets, Objects
  <1>3. TypeOK'
    BY <1>0, <1>1, <1>2 DEF TypeOK, OpenUpvalues
  <1>4. TodoInv' /\ Tricolour' /\ IntactInv'
    BY <1>1 DEF TodoInv, Tricolour, IntactInv
  <1>5. FreeInv'
    BY <1>0, <1>1 DEF FreeInv
  <1>6. MarkInv'
    BY <1>0, <1>1 DEF MarkInv, Objects
  <1>7. ASSUME NEW t \in Obj, mark[t] # "white"
        PROVE  t \in Kept'
    BY <1>0, <1>1, <1>7 DEF Kept, MarkInv, Objects, GrayContainers, TypeOK, Colour
  <1>8. Roots \subseteq Kept'
    BY <1>0, <1>7, GraphType DEF Tricolour
  <1>9. ASSUME NEW o \in Kept' \ stale, NEW t \in Targets(o)
        PROVE  t \in Kept'
    <2>1. o \in Obj /\ t \in Obj
      BY <1>0, GraphType DEF Kept
    <2>2. o \in Objects
      BY <1>0, <1>9, <2>1 DEF Objects, Targets, FreeInv
    <2>3. mark[o] = "black"
      BY <1>0, <1>1, <2>1, <2>2 DEF Kept, Objects
    <2>4. mark[t] # "white"
      BY <1>0, <1>9, <2>1, <2>3 DEF Tricolour
    <2>5. QED
      BY <1>7, <2>1, <2>4
  <1>10. SweepInv'
    BY <1>1, <1>2, <1>8, <1>9 DEF SweepInv
  <1>11. QED
    BY <1>3, <1>4, <1>5, <1>6, <1>10 DEF IInv

\* gc_sweep frees white objects and whitens the others.
LEMMA SweepKeepsInv ==
  ASSUME IInv, NEW o \in Obj, gc_sweep(o)
  PROVE  IInv'
  <1> USE GcAssumption DEF gc_sweep
  <1>0. /\ TypeOK /\ FreeInv /\ MarkInv /\ SweepInv /\ phase = "SWEEP"
        /\ String \subseteq Obj /\ Upvalue \subseteq Obj /\ Container \subseteq Obj
        /\ String \cap Upvalue = {} /\ String \cap Container = {}
        /\ Upvalue \cap Container = {}
    BY DEF IInv, Obj, Val
  <1>1. /\ UNCHANGED <<stack, open, phase, stale>>
        /\ o \in todo /\ o \in Objects /\ todo' = todo \ {o}
        /\ mark' = [mark EXCEPT ![o] = "white"]
        /\ alloc' = IF mark[o] = "black" THEN alloc ELSE alloc \ {o}
    BY <1>0 DEF TypeOK
  <1>2. /\ refs' \in [Container -> SUBSET Val] /\ caps' \in [Container -> SUBSET Upvalue]
        /\ closed' \in [Upvalue -> Val \cup {Nil}]
        /\ \A c \in Container : c # o => refs'[c] = refs[c] /\ caps'[c] = caps[c]
        /\ \A u \in Upvalue : u # o => closed'[u] = closed[u]
        /\ mark[o] # "black" =>
             /\ o \in Container => (refs'[o] = {} /\ caps'[o] = {})
             /\ o \in Upvalue => closed'[o] = Nil
        /\ mark[o] = "black" => UNCHANGED <<refs, caps, closed>>
    BY <1>0 DEF TypeOK
  <1>3. /\ Roots' = Roots /\ OpenUpvalues' = OpenUpvalues
        /\ \A q \in Obj : Targets(q)' \subseteq Targets(q)
        /\ mark[o] # "black" => Targets(o)' = {}
    BY <1>0, <1>1, <1>2 DEF Roots, StackValues, OpenUpvalues, Targets
  <1>4. TypeOK'
    BY <1>0, <1>1, <1>2, <1>3 DEF TypeOK, Objects, OpenUpvalues, Colour
  <1>5. TodoInv' /\ Tricolour' /\ IntactInv'
    BY <1>0, <1>1 DEF TodoInv, Tricolour, IntactInv
  <1>6. FreeInv'
    BY <1>0, <1>1, <1>2 DEF FreeInv
  <1>7. MarkInv'
    BY <1>0, <1>1 DEF MarkInv, TypeOK
  <1>8. /\ mark[o] = "black" => Kept' = Kept
        /\ Kept' = Kept \cup {o}
    BY <1>0, <1>1 DEF Kept, TypeOK
  <1>9. SweepInv'
    BY <1>0, <1>1, <1>3, <1>8 DEF SweepInv, Kept
  <1>10. QED
    BY <1>4, <1>5, <1>6, <1>7, <1>9 DEF IInv

\* A finished sweep leaves clean marks, and goes on only with an intact heap.
LEMMA FinishKeepsInv ==
  ASSUME IInv, gc_finish
  PROVE  IInv'
  <1> USE DEF gc_finish, heap
  <1>0. TypeOK /\ FreeInv /\ MarkInv /\ String \subseteq Obj
    BY DEF IInv, Obj, Val
  <1>1. TypeOK'
    BY <1>0 DEF TypeOK, Objects, OpenUpvalues
  <1>2. TodoInv' /\ FreeInv' /\ Tricolour' /\ SweepInv'
    BY <1>0 DEF TodoInv, FreeInv, Tricolour, SweepInv
  <1>3. Intact' = Intact
    BY DEF Intact, Reachable, ReachableAvoiding, Roots, StackValues, OpenUpvalues, Targets
  <1>4. IntactInv'
    BY <1>3 DEF IntactInv
  <1>5. MarkInv'
    BY <1>0 DEF MarkInv
  <1>6. QED
    BY <1>1, <1>2, <1>4, <1>5 DEF IInv

-----------------------------------------------------------------------------
(* The theorems *)

\* lulu_open establishes the invariant.
LEMMA InitInv == Init => IInv
  <1> SUFFICES ASSUME Init PROVE IInv
    OBVIOUS
  <1> USE GcAssumption DEF Init
  <1>1. TypeOK
    BY DEF TypeOK, Obj, Val, Colour, OpenUpvalues
  <1>2. TodoInv /\ FreeInv /\ MarkInv /\ Tricolour /\ SweepInv
    BY DEF TodoInv, FreeInv, MarkInv, Tricolour, SweepInv, Obj, Val
  <1>3. Roots \subseteq Root /\ \A q \in Root : Targets(q) \subseteq Root
    BY DEF Roots, StackValues, OpenUpvalues, Targets
  <1>4. Root \in SUBSET Obj /\ Root \subseteq alloc
    BY DEF Obj, Val
  <1>5. Reachable \subseteq Root
    BY <1>3, <1>4, ReachableLeast DEF Reachable
  <1>6. IntactInv
    BY <1>4, <1>5 DEF IntactInv, Intact
  <1>7. QED
    BY <1>1, <1>2, <1>6 DEF IInv

\* Every step of the VM and of the collector keeps the invariant.
LEMMA StepInv == IInv /\ [Next]_vars => IInv'
  <1> SUFFICES ASSUME IInv, [Next]_vars PROVE IInv'
    OBVIOUS
  <1>1. CASE Mutate
    BY <1>1, MutateKeepsInv
  <1>2. CASE gc_mark_roots
    BY <1>2, MarkRootsKeepsInv
  <1>3. CASE Collect
    BY <1>3, TraceKeepsInv, RemoveInternKeepsInv, SweepKeepsInv, FinishKeepsInv DEF Collect
  <1>4. CASE UNCHANGED vars
    BY <1>4 DEF vars, IInv, TypeOK, TodoInv, FreeInv, MarkInv, Tricolour, SweepInv,
      IntactInv, Intact, Reachable, ReachableAvoiding, Roots, StackValues,
      OpenUpvalues, Targets, Kept, Objects
  <1>5. QED
    BY <1>1, <1>2, <1>3, <1>4 DEF Next

\* The inductive invariant holds in every reachable state.
THEOREM InductiveInvariant == Spec => []IInv
  <1>1. QED
    BY InitInv, StepInv, PTL DEF Spec

\* Type correctness.
THEOREM TypeCorrect == Spec => []TypeOK
  <1>1. IInv => TypeOK
    BY DEF IInv
  <1>2. QED
    BY <1>1, InductiveInvariant, PTL

\* While tracing, no root is white and no black object refers to a white one,
\* upvalues that entered the collection black apart.
THEOREM TracingIsTricolour == Spec => []Tricolour
  <1>1. IInv => Tricolour
    BY DEF IInv
  <1>2. QED
    BY <1>1, InductiveInvariant, PTL

\* gc_remove_intern frees unreachable strings only: the marked objects hold the
\* roots and their own targets, and no freed string is among them.
LEMMA FreedStringsAreGarbage ==
  ASSUME IInv, gc_remove_intern, NEW o \in alloc \ alloc'
  PROVE  o \notin ReachableAvoiding(stale)
  <1> USE GcAssumption DEF gc_remove_intern
  <1> DEFINE S == {q \in Obj : mark[q] # "white"}
  <1>0. TypeOK /\ MarkInv /\ Tricolour
    BY DEF IInv
  <1>1. Roots \subseteq S
    BY <1>0, GraphType DEF Tricolour
  <1>2. ASSUME NEW q \in S \ stale
        PROVE  Targets(q) \subseteq S
    <2>1. q \in String \/ mark[q] = "black"
      BY <1>0 DEF MarkInv, TypeOK, Colour, GrayContainers, Obj, Val
    <2>2. CASE q \in String
      BY <2>2 DEF Targets, Val
    <2>3. CASE mark[q] = "black"
      BY <1>0, <2>3, GraphType DEF Tricolour
    <2>4. QED
      BY <2>1, <2>2, <2>3
  <1>3. o \in String /\ mark[o] # "gray"
    BY <1>0 DEF TypeOK
  <1>4. o \notin S
    BY <1>0, <1>3 DEF MarkInv, TypeOK, Colour
  <1>5. ReachableAvoiding(stale) \subseteq S
    BY <1>1, <1>2, ReachableLeast
  <1>6. QED
    BY <1>4, <1>5

\* gc_sweep frees unreachable objects only.
LEMMA FreedObjectsAreGarbage ==
  ASSUME IInv, NEW q \in Obj, gc_sweep(q), NEW o \in alloc \ alloc'
  PROVE  o \notin ReachableAvoiding(stale)
  <1>1. o = q /\ o \in todo /\ mark[o] # "black" /\ phase = "SWEEP"
    BY DEF gc_sweep
  <1>2. ReachableAvoiding(stale) \subseteq Kept
    BY <1>1, ReachableLeast DEF IInv, SweepInv, Kept
  <1>3. QED
    BY <1>1, <1>2 DEF Kept

\* No step frees an object the program can reach without going through the
\* value of an upvalue that entered the collection black.
THEOREM NothingReachableIsFreed == Spec => FreedIsGarbage
  <1> DEFINE Harmless == \A o \in alloc \ alloc' : o \notin ReachableAvoiding(stale)
  <1>1. IInv /\ [Next]_vars => [Harmless]_vars
    <2> SUFFICES ASSUME IInv, Next PROVE Harmless
      OBVIOUS
    <2>1. CASE Mutate \/ gc_mark_roots
      <3>1. alloc \subseteq alloc'
        BY <2>1 DEF Mutate, NewTable, NewString, NewClosure, Move, GetTable, SetTable,
          Capture, Inherit, upvalue_close, GetUpvalue, SetUpvalue, object_new,
          gc_mark_roots, heap
      <3>2. QED
        BY <3>1
    <2>2. ASSUME NEW c \in Container, gc_trace_references(c) PROVE Harmless
      BY <2>2 DEF gc_trace_references, heap
    <2>3. CASE gc_remove_intern
      BY <2>3, FreedStringsAreGarbage
    <2>4. ASSUME NEW q \in Obj, gc_sweep(q) PROVE Harmless
      BY <2>4, FreedObjectsAreGarbage
    <2>5. CASE gc_finish
      BY <2>5 DEF gc_finish, heap
    <2>6. QED
      BY <2>1, <2>2, <2>3, <2>4, <2>5 DEF Next, Collect
  <1>2. QED
    BY <1>1, InductiveInvariant, PTL DEF Spec, FreedIsGarbage

-----------------------------------------------------------------------------
(* What a collection leaves behind *)

Live == ReachableAvoiding(stale)

\* Between collections every mark is white but that of an upvalue in use.
CleanInv ==
  /\ phase \in {"PAUSED", "SWEEP"} =>
       /\ \A x \in String : mark[x] = "white"
       /\ \A c \in Container \ todo : mark[c] = "white"
  /\ \A u \in Upvalue : mark[u] = "black" => u \in alloc

\* What a collection may not touch is allocated while it runs.
HeldInv ==
  /\ Fixed \subseteq alloc
  /\ phase \in {"TRACE", "SWEEP"} => Live \subseteq alloc /\ stale \subseteq alloc

\* Only live objects and the stale upvalues are marked.
MarkedInv ==
  phase = "TRACE" =>
    /\ \A o \in Obj : mark[o] # "white" => o \in Live \cup stale
    /\ \A u \in stale : mark[u] = "black"

\* Garbage still allocated waits for the sweep, which will find it white, and
\* finds no stale upvalue so.
GarbageInv ==
  phase = "SWEEP" =>
    /\ alloc \subseteq Live \cup stale \cup Fixed \cup todo
    /\ \A o \in todo : mark[o] = "black" => o \in Live \cup stale
    /\ \A u \in stale \cap todo : mark[u] = "black"

ExactInv == CleanInv /\ HeldInv /\ MarkedInv /\ GarbageInv

\* The live objects, and how a step that leaves the heap alone keeps them.
LEMMA LiveFacts ==
  ASSUME TypeOK
  PROVE  /\ Roots \subseteq Live /\ Live \subseteq Obj
         /\ \A o \in Live \ stale : Targets(o) \subseteq Live
         /\ Live \subseteq Reachable
  <1>1. PICK cut : cut = stale
    OBVIOUS
  <1>2. QED
    BY <1>1, ReachableClosed, ReachableFewer DEF Live

LEMMA LiveKept ==
  ASSUME UNCHANGED <<refs, caps, stack, open, closed, stale>>
  PROVE  Live' = Live
  BY DEF Live, ReachableAvoiding, Roots, StackValues, OpenUpvalues, Targets

\* The mutator makes white objects and frees none.
LEMMA MutateKeepsExact ==
  ASSUME IInv, ExactInv, Mutate
  PROVE  ExactInv'
  <1>1. /\ phase = "PAUSED" /\ UNCHANGED <<phase, todo, stale>>
        /\ alloc \subseteq alloc'
        /\ mark' = mark \/ \E o : mark' = [mark EXCEPT ![o] = "white"]
    BY Zenon DEF Mutate, NewTable, NewString, NewClosure, Move, GetTable, SetTable, Capture,
      Inherit, upvalue_close, GetUpvalue, SetUpvalue, object_new, Mutating
  <1>2. \A o \in Obj : mark'[o] = mark[o] \/ mark'[o] = "white"
    BY <1>1 DEF IInv, TypeOK
  <1>3. CleanInv'
    BY <1>1, <1>2 DEF ExactInv, CleanInv, Obj, Val
  <1>4. HeldInv' /\ MarkedInv' /\ GarbageInv'
    BY <1>1 DEF ExactInv, HeldInv, MarkedInv, GarbageInv
  <1>5. QED
    BY <1>3, <1>4 DEF ExactInv

\* gc_mark_roots marks the roots on clean marks: any other upvalue still black
\* is stale.
LEMMA MarkRootsKeepsExact ==
  ASSUME IInv, ExactInv, gc_mark_roots
  PROVE  ExactInv'
  <1> USE GcAssumption
  <1> DEFINE m == gc_mark(mark, Root \cup StackValues)
             n == gc_blacken_upvalues(m, OpenUpvalues)
  <1>0. /\ TypeOK /\ TodoInv /\ CleanInv /\ HeldInv /\ IntactInv /\ phase = "PAUSED"
        /\ Obj = Val \cup Upvalue /\ Val = Container \cup String
    BY DEF IInv, ExactInv, Obj, Val, gc_mark_roots, Mutating
  <1>1. /\ UNCHANGED <<alloc, refs, caps, stack, open, closed, todo>> /\ phase' = "TRACE"
        /\ mark' = n
        /\ stale' = {u \in Upvalue : mark[u] = "black" /\ open[u] = Nil}
    BY DEF gc_mark_roots, heap
  <1>2. PICK cut : cut = stale'
    OBVIOUS
  <1>3. Live' = ReachableAvoiding(cut)
    BY <1>1, <1>2 DEF Live, ReachableAvoiding, Roots, StackValues, OpenUpvalues, Targets
  <1>4. Roots \subseteq Live' /\ Live' \subseteq Reachable
    BY <1>0, <1>3, ReachableClosed, ReachableFewer
  <1>5. \A o \in Obj : mark'[o] # mark[o] => o \in Roots
    <2>1. {closed[u] : u \in {x \in {y \in OpenUpvalues : m[y] # "black"} : open[x] = Nil}} = {}
      BY DEF OpenUpvalues
    <2>2. \A o \in Obj : n[o] = IF o \in OpenUpvalues /\ m[o] # "black" THEN "black" ELSE m[o]
      BY <2>1 DEF gc_blacken_upvalues, gc_mark
    <2>3. \A o \in Obj : m[o] # mark[o] => o \in Root \cup StackValues
      BY DEF gc_mark
    <2>4. QED
      BY <1>1, <2>2, <2>3 DEF Roots
  <1>6. ASSUME NEW o \in Obj, mark[o] # "white"
        PROVE  o \in Roots \cup stale' /\ mark[o] = "black" /\ o \in Upvalue
    <2>1. o \in Upvalue
      BY <1>0, <1>6 DEF CleanInv, TodoInv
    <2>2. mark[o] = "black"
      BY <1>6, <2>1 DEF IInv, MarkInv, TypeOK, Colour
    <2>3. QED
      BY <1>1, <2>1, <2>2 DEF Roots, OpenUpvalues
  <1>7. MarkedInv'
    <2>1. \A o \in Obj : mark'[o] # "white" => o \in Live' \cup stale'
      BY <1>4, <1>5, <1>6
    <2>2. \A u \in stale' : u \in Upvalue /\ u \notin Roots
      BY <1>0, <1>1 DEF Roots, StackValues, OpenUpvalues, TypeOK
    <2>3. \A u \in stale' : mark'[u] = "black"
      BY <1>0, <1>1, <1>5, <2>2
    <2>4. QED
      BY <2>1, <2>3 DEF MarkedInv
  <1>8. HeldInv'
    BY <1>0, <1>1, <1>4 DEF HeldInv, IntactInv, Intact, CleanInv
  <1>9. CleanInv'
    <2>1. \A u \in Roots : u \in alloc
      BY <1>0, <1>4 DEF IntactInv, Intact
    <2>2. QED
      BY <1>0, <1>1, <1>5, <2>1 DEF CleanInv
  <1>10. GarbageInv'
    BY <1>1 DEF GarbageInv
  <1>11. QED
    BY <1>7, <1>8, <1>9, <1>10 DEF ExactInv

\* gc_trace_references marks what a live container refers to, directly or
\* through the closed upvalues it blackens.
LEMMA TraceKeepsExact ==
  ASSUME IInv, ExactInv, NEW c \in Container, gc_trace_references(c)
  PROVE  ExactInv'
  <1> USE GcAssumption
  <1> DEFINE m == gc_mark(mark, refs[c])
             n == gc_blacken_upvalues(m, caps[c])
  <1>0. /\ TypeOK /\ CleanInv /\ HeldInv /\ MarkedInv /\ phase = "TRACE"
        /\ Obj = Val \cup Upvalue /\ Val = Container \cup String
        /\ mark[c] = "gray" /\ mark \in [Obj -> Colour]
    BY DEF IInv, ExactInv, Obj, Val, gc_trace_references, GrayContainers, TypeOK
  <1>1. /\ UNCHANGED <<alloc, refs, caps, stack, open, closed, phase, todo, stale>>
        /\ mark' = [n EXCEPT ![c] = "black"]
    BY DEF gc_trace_references, heap, gc_blacken
  <1>2. Live' = Live
    BY <1>1, LiveKept
  <1>3. /\ \A o \in Live \ stale : Targets(o) \subseteq Live
        /\ stale \subseteq Upvalue
    BY <1>0, LiveFacts DEF TypeOK
  <1>4. c \in Live /\ refs[c] \subseteq Live /\ caps[c] \subseteq Live
    BY <1>0, <1>3 DEF MarkedInv, Targets
  <1>5. \A o \in Obj : m[o] = mark[o] \/ (o \in refs[c] /\ mark[o] = "white" /\ m[o] = "gray")
    BY DEF gc_mark
  <1> HIDE DEF m
  <1> DEFINE fresh  == {u \in caps[c] : m[u] # "black"}
             values == {closed[u] : u \in {x \in fresh : open[x] = Nil}} \ {Nil}
  <1>6. values \subseteq Live
    <2> SUFFICES ASSUME NEW u \in caps[c], m[u] # "black", open[u] = Nil, closed[u] # Nil
                 PROVE  closed[u] \in Live
      OBVIOUS
    <2>1. u \in Upvalue /\ u \in Obj
      BY <1>0 DEF TypeOK
    <2>2. mark[u] # "black"
      BY <1>5, <2>1
    <2>3. u \in Live \ stale
      BY <1>0, <1>4, <2>2 DEF MarkedInv
    <2>4. closed[u] \in Targets(u)
      BY <1>0, <2>1 DEF Targets
    <2>5. QED
      BY <1>3, <2>3, <2>4
  <1>7. \A o \in Obj : \/ n[o] = m[o]
                       \/ o \in caps[c] /\ n[o] = "black"
                       \/ o \in values /\ m[o] = "white" /\ n[o] = "gray"
    BY DEF gc_blacken_upvalues, gc_mark
  <1>8. DOMAIN n = Obj
    BY DEF gc_blacken_upvalues
  <1> HIDE DEF n, values
  <1>9. \A o \in Obj : \/ mark'[o] = mark[o]
                       \/ o \in Live /\ (o \in Upvalue => mark'[o] = "black" \/ mark[o] = "white")
    BY <1>1, <1>4, <1>5, <1>6, <1>7, <1>8, <1>0
  <1>10. MarkedInv'
    <2>1. \A o \in Obj : mark'[o] # "white" => o \in Live \cup stale
      BY <1>0, <1>9 DEF MarkedInv
    <2>2. \A u \in stale : mark'[u] = "black"
      BY <1>0, <1>3, <1>9 DEF MarkedInv
    <2>3. QED
      BY <1>1, <1>2, <2>1, <2>2 DEF MarkedInv
  <1>11. HeldInv'
    BY <1>0, <1>1, <1>2 DEF HeldInv
  <1>12. CleanInv'
    BY <1>0, <1>1, <1>9 DEF CleanInv, HeldInv
  <1>13. GarbageInv'
    BY <1>0, <1>1 DEF GarbageInv
  <1>14. QED
    BY <1>10, <1>11, <1>12, <1>13 DEF ExactInv

\* gc_remove_intern: what is marked is live or stale, so that no string but
\* those and the fixed ones is left.
LEMMA RemoveInternKeepsExact ==
  ASSUME IInv, ExactInv, gc_remove_intern
  PROVE  ExactInv'
  <1> USE GcAssumption
  <1>0. /\ TypeOK /\ MarkInv /\ CleanInv /\ HeldInv /\ MarkedInv /\ phase = "TRACE"
        /\ Obj = Val \cup Upvalue /\ Val = Container \cup String
        /\ stale \in SUBSET Upvalue /\ alloc \in SUBSET Obj
    BY DEF IInv, ExactInv, Obj, Val, gc_remove_intern, TypeOK
  <1>1. /\ UNCHANGED <<refs, caps, stack, open, closed, stale>>
        /\ todo' = Objects /\ phase' = "SWEEP"
        /\ \A o \in Obj : mark'[o] = IF o \in String THEN "white" ELSE mark[o]
        /\ alloc' = (alloc \ String) \cup {x \in alloc \cap String : mark[x] = "gray" \/ x \in Fixed}
    BY DEF gc_remove_intern
  <1>2. Live' = Live
    BY <1>1, LiveKept
  <1>3. \A o \in alloc \ alloc' : o \notin Live
    BY FreedStringsAreGarbage DEF Live
  <1>4. CleanInv'
    BY <1>0, <1>1 DEF CleanInv, Objects, MarkedInv, HeldInv
  <1>5. HeldInv'
    BY <1>0, <1>1, <1>2, <1>3 DEF HeldInv
  <1>6. GarbageInv'
    <2>1. OpenUpvalues \subseteq Live
      BY <1>0, LiveFacts DEF Roots
    <2>2. alloc' \subseteq Live \cup stale \cup Fixed \cup Objects
      BY <1>0, <1>1, <2>1 DEF MarkedInv, Objects, OpenUpvalues
    <2>3. \A o \in Objects : mark'[o] = "black" => o \in Live \cup stale
      BY <1>0, <1>1 DEF MarkedInv, Objects
    <2>4. \A u \in stale \cap Objects : mark'[u] = "black"
      BY <1>0, <1>1 DEF MarkedInv
    <2>5. QED
      BY <1>1, <1>2, <2>2, <2>3, <2>4 DEF GarbageInv
  <1>7. MarkedInv'
    BY <1>1 DEF MarkedInv
  <1>8. QED
    BY <1>4, <1>5, <1>6, <1>7 DEF ExactInv

\* Freeing an object that is not live changes nothing for the live ones.
LEMMA SweepKeepsLive ==
  ASSUME IInv, NEW o \in Obj, gc_sweep(o), mark[o] # "black" => o \notin Live
  PROVE  Live' = Live
  <1> USE GcAssumption
  <1>0. /\ TypeOK /\ Obj = Val \cup Upvalue /\ Val = Container \cup String
        /\ UNCHANGED <<stack, open, stale>>
        /\ \A q \in Obj : Targets(q)' \subseteq Targets(q)
        /\ \A q \in Obj : q # o \/ mark[o] = "black" => Targets(q)' = Targets(q)
        /\ Roots' = Roots
    BY DEF IInv, Obj, Val, gc_sweep, Targets, Roots, StackValues, OpenUpvalues
  <1>1. /\ Roots \subseteq Live /\ Live \in SUBSET Obj
        /\ \A q \in Live \ stale : Targets(q) \subseteq Live
    BY <1>0, LiveFacts
  <1>2. \A S \in SUBSET Obj :
           Roots \subseteq S /\ (\A q \in S \ stale : Targets(q)' \subseteq S) => Live \subseteq S
    <2> SUFFICES ASSUME NEW S \in SUBSET Obj, Roots \subseteq S,
                        \A q \in S \ stale : Targets(q)' \subseteq S
                 PROVE  Live \subseteq S \cap Live
      OBVIOUS
    <2>1. \A q \in (S \cap Live) \ stale : Targets(q)' = Targets(q)
      BY <1>0
    <2>2. \A q \in (S \cap Live) \ stale : Targets(q) \subseteq S \cap Live
      BY <1>1, <2>1
    <2>3. Roots \subseteq S \cap Live /\ S \cap Live \in SUBSET Obj
      BY <1>1
    <2>4. PICK cut : cut = stale
      OBVIOUS
    <2>5. QED
      BY <2>2, <2>3, <2>4, ReachableLeast DEF Live
  <1>3. Live' = {q \in Obj : \A S \in SUBSET Obj :
                    Roots \subseteq S /\ (\A r \in S \ stale : Targets(r)' \subseteq S) => q \in S}
    BY <1>0 DEF Live, ReachableAvoiding
  <1>4. \A q \in Live \ stale : Targets(q)' \subseteq Live
    BY <1>0, <1>1
  <1>5. QED
    BY <1>1, <1>2, <1>3, <1>4

\* gc_sweep: a freed object was not live, so that the live ones stay so.
LEMMA SweepKeepsExact ==
  ASSUME IInv, ExactInv, NEW o \in Obj, gc_sweep(o)
  PROVE  ExactInv'
  <1> USE GcAssumption
  <1>0. /\ TypeOK /\ CleanInv /\ HeldInv /\ GarbageInv /\ phase = "SWEEP"
        /\ Obj = Val \cup Upvalue /\ Val = Container \cup String
        /\ stale \in SUBSET Upvalue /\ alloc \in SUBSET Obj /\ o \in Objects
    BY DEF IInv, ExactInv, Obj, Val, gc_sweep, TypeOK
  <1>1. /\ UNCHANGED <<stack, open, phase, stale>>
        /\ o \in todo /\ todo' = todo \ {o}
        /\ \A q \in Obj : mark'[q] = IF q = o THEN "white" ELSE mark[q]
        /\ alloc' = IF mark[o] = "black" THEN alloc ELSE alloc \ {o}
        /\ mark[o] = "black" => UNCHANGED <<refs, caps, closed>>
    BY <1>0 DEF gc_sweep, TypeOK
  <1>2. mark[o] # "black" => o \notin Live /\ o \notin stale
    BY <1>0, <1>1, FreedObjectsAreGarbage DEF Live, Objects, GarbageInv
  <1>3. Live' = Live
    BY <1>2, SweepKeepsLive
  <1>4. CleanInv'
    BY <1>0, <1>1 DEF CleanInv
  <1>5. HeldInv'
    BY <1>0, <1>1, <1>2, <1>3 DEF HeldInv, Objects
  <1>6. GarbageInv'
    <2>1. alloc' \subseteq Live \cup stale \cup Fixed \cup todo'
      BY <1>0, <1>1 DEF GarbageInv
    <2>2. todo' \subseteq Obj
      BY <1>0, <1>1 DEF TypeOK, Objects
    <2>3. /\ \A q \in todo' : mark'[q] = "black" => q \in Live \cup stale
          /\ \A q \in stale \cap todo' : mark'[q] = "black"
      BY <1>0, <1>1, <2>2 DEF GarbageInv
    <2>4. QED
      BY <1>1, <1>3, <2>1, <2>3 DEF GarbageInv
  <1>7. MarkedInv'
    BY <1>0, <1>1 DEF MarkedInv
  <1>8. QED
    BY <1>4, <1>5, <1>6, <1>7 DEF ExactInv

\* When the mutator goes on every mark is clean.
LEMMA FinishKeepsExact ==
  ASSUME IInv, ExactInv, gc_finish
  PROVE  ExactInv'
  BY DEF gc_finish, heap, ExactInv, CleanInv, HeldInv, MarkedInv, GarbageInv

\* lulu_open leaves the fixed strings and clean marks, and every step keeps
\* what a collection needs to be exact.
LEMMA ExactInvariant == Spec => []ExactInv
  <1>1. Init => ExactInv
    <2>1. Init => Fixed \subseteq alloc
      BY DEF Init
    <2>2. QED
      BY <2>1 DEF Init, ExactInv, CleanInv, HeldInv, MarkedInv, GarbageInv, Obj, Val
  <1>2. IInv /\ ExactInv /\ [Next]_vars => ExactInv'
    <2> SUFFICES ASSUME IInv, ExactInv, [Next]_vars PROVE ExactInv'
      OBVIOUS
    <2>1. CASE UNCHANGED vars
      <3>1. Live' = Live
        BY <2>1, LiveKept DEF vars
      <3>2. QED
        BY <2>1, <3>1 DEF vars, ExactInv, CleanInv, HeldInv, MarkedInv, GarbageInv
    <2>2. QED
      BY <2>1, MutateKeepsExact, MarkRootsKeepsExact, TraceKeepsExact,
        RemoveInternKeepsExact, SweepKeepsExact, FinishKeepsExact DEF Next, Collect
  <1>3. QED
    BY <1>1, <1>2, InductiveInvariant, PTL DEF Spec

\* A finished collection has left exactly the live objects, the fixed strings
\* and the upvalues that entered it black.
THEOREM CollectionsAreExact == Spec => []CycleExact
  <1>1. ExactInv => CycleExact
    BY DEF ExactInv, HeldInv, GarbageInv, CycleExact, Live
  <1>2. QED
    BY <1>1, ExactInvariant, PTL

=============================================================================

------------------------------ MODULE GrayList ------------------------------
(***************************************************************************)
(* The gray list of the collector: gc.cpp keeps the containers still to be *)
(* traversed in a singly linked list threaded through their gc_list        *)
(* fields.  While the roots are marked a container is put in front; while  *)
(* the list is traversed its front is taken and its children go to the     *)
(* back, through gray_tail.  Gc knows only which containers are gray, and  *)
(* marks all roots, or all children of a container, in one step; this      *)
(* module is the collector with its pointers, one turn of a loop at a time *)
(* and in any order of the elements, and implements Gc.                    *)
(***************************************************************************)
EXTENDS Naturals, FiniteSets, Sequences, SequencesExt

CONSTANTS Container, Closure, String, Upvalue, Root, Fixed, NSlots, Nil

VARIABLES
  alloc, refs, caps, stack, open, closed, mark, todo, stale,  \* as in Gc
  phase,      \* as in Gc, and MARK while the roots are being marked
  gray_head,  \* the first container of the list, Nil for nullptr
  gray_tail,  \* where to append; Nil until the second container is marked
  gc_list,    \* gc_list[c]: the link field of container c
  object,     \* the container gc_blacken_object is at, or Nil
  values,     \* what the running function still has to mark,
  upvalues,   \* the upvalues it has to blacken after that,
  tables,     \* and the tables it has to mark in the end
  before      \* history: the marks before the running function, if one runs

heap == <<alloc, refs, caps, stack, open, closed>>
list == <<gray_head, gray_tail, gc_list>>
loops == <<object, values, upvalues, tables>>
vars == <<heap, mark, todo, stale, phase, list, loops, before>>

\* The collector's part of the state under the names of Gc: the mutator and
\* the sweep are its actions.
G == INSTANCE Gc

ASSUME GrayListAssumption ==
  /\ Container \cap String = {}
  /\ (Container \cup String) \cap Upvalue = {}
  /\ Closure \subseteq Container
  /\ Root \subseteq Container \ Closure
  /\ Fixed \subseteq String
  /\ NSlots \in Nat
  /\ Nil \notin Container \cup String \cup Upvalue \cup Nat
  \* required_allocations makes registry and globals two different tables,
  \* which is why the first container traversed never is the last one marked.
  /\ \E r1, r2 \in Root : r1 # r2

-----------------------------------------------------------------------------
(* Marking, as functions on the collector's part of lulu_Global *)

Collector == [mark |-> mark, head |-> gray_head, tail |-> gray_tail, link |-> gc_list]

\* Mutant: containers found while tracing are put in front as well.
gc_mark_object_Mutant_prepends(g, o) ==
  IF g.mark[o] # "white" THEN g
  ELSE IF o \in String THEN [g EXCEPT !.mark[o] = "gray"]
  ELSE [g EXCEPT !.mark[o] = "gray", !.link[o] = g.head, !.head = o,
                 !.tail = IF @ = Nil THEN g.head ELSE @]

\* Strings turn gray but have no place in the list.
gc_mark_object(g, o) ==
  IF g.mark[o] # "white" THEN g
  ELSE IF o \in String THEN [g EXCEPT !.mark[o] = "gray"]
  ELSE IF phase = "MARK"
  THEN [g EXCEPT !.mark[o] = "gray", !.link[o] = g.head, !.head = o,
                 !.tail = IF @ = Nil THEN g.head ELSE @]
  ELSE [g EXCEPT !.mark[o] = "gray", !.link[o] = Nil, !.link[g.tail] = o,
                 !.tail = o]

gc_mark_value(g, v) == IF v = Nil THEN g ELSE gc_mark_object(g, v)

gc_blacken_upvalue(g, u) ==
  IF g.mark[u] = "black" THEN g
  ELSE [gc_mark_value(g, IF open[u] = Nil THEN closed[u] ELSE Nil)
          EXCEPT !.mark[u] = "black"]

Becomes(g) ==
  /\ mark' = g.mark
  /\ gray_head' = g.head
  /\ gray_tail' = g.tail
  /\ gc_list' = g.link

-----------------------------------------------------------------------------
(* The loops of a function that marks *)

Running == phase = "MARK" \/ object # Nil

\* gc_mark_array, and the other loops over objects.
gc_mark_array ==
  \E v \in values :
    /\ Becomes(gc_mark_value(Collector, v))
    /\ values' = values \ {v}
    /\ UNCHANGED <<heap, todo, stale, phase, object, upvalues, tables, before>>

\* The loop over the captures of a closure, or over the open upvalues.
gc_blacken_upvalues ==
  /\ values = {}
  /\ \E u \in upvalues :
       /\ Becomes(gc_blacken_upvalue(Collector, u))
       /\ upvalues' = upvalues \ {u}
       /\ UNCHANGED <<heap, todo, stale, phase, object, values, tables, before>>

\* Registry and globals.
MarkTables ==
  /\ values = {} /\ upvalues = {}
  /\ \E r \in tables :
       /\ Becomes(gc_mark_value(Collector, r))
       /\ tables' = tables \ {r}
       /\ UNCHANGED <<heap, todo, stale, phase, object, values, upvalues, before>>

Looped == values = {} /\ upvalues = {} /\ tables = {}

-----------------------------------------------------------------------------

\* Stack and frames, then the open upvalues, then registry and globals.
gc_mark_roots ==
  /\ phase = "PAUSED"
  /\ phase' = "MARK"
  /\ values' = G!StackValues /\ upvalues' = G!OpenUpvalues /\ tables' = Root
  /\ UNCHANGED <<heap, mark, todo, stale, list, object, before>>

RootsMarked ==
  /\ phase = "MARK" /\ Looped
  /\ phase' = "TRACE" /\ before' = mark
  /\ stale' = {u \in Upvalue : before[u] = "black" /\ open[u] = Nil}
  /\ UNCHANGED <<heap, mark, todo, list, loops>>

\* gc_trace_references takes the front of the list, gc_blacken_object marks its
\* children.
gc_trace_references ==
  /\ phase = "TRACE" /\ object = Nil /\ gray_head # Nil
  /\ object' = gray_head
  /\ values' = refs[gray_head] /\ upvalues' = caps[gray_head]
  /\ UNCHANGED <<heap, mark, todo, stale, phase, list, tables, before>>

\* The end of gc_blacken_object: the object is unlinked only after its children
\* have been appended, possibly to itself.  Some containers turn black before
\* that, which nothing looks at in between.
gc_blacken_object ==
  /\ object # Nil /\ Looped
  /\ mark' = [mark EXCEPT ![object] = "black"] /\ before' = mark'
  /\ gray_head' = gc_list[object]
  /\ gc_list' = [gc_list EXCEPT ![object] = Nil]
  /\ object' = Nil
  /\ UNCHANGED <<heap, todo, stale, phase, gray_tail, values, upvalues, tables>>

Interned == {x \in alloc \cap String : mark[x] = "gray" \/ x \in Fixed}

\* Mutant: gray_tail is not cleared after the loop.
gc_remove_intern_Mutant_keeps_tail ==
  /\ phase = "TRACE" /\ object = Nil /\ gray_head = Nil
  /\ alloc' = (alloc \ String) \cup Interned
  /\ mark' = [o \in G!Obj |-> IF o \in String THEN "white" ELSE mark[o]]
  /\ before' = mark'
  /\ todo' = G!Objects
  /\ phase' = "SWEEP"
  /\ UNCHANGED <<refs, caps, stack, open, closed, stale, list, loops>>

\* The loop ends on an empty list; the tail is cleared for the next collection.
gc_remove_intern ==
  /\ phase = "TRACE" /\ object = Nil /\ gray_head = Nil
  /\ gray_tail' = Nil
  /\ alloc' = (alloc \ String) \cup Interned
  /\ mark' = [o \in G!Obj |-> IF o \in String THEN "white" ELSE mark[o]]
  /\ before' = mark'
  /\ todo' = G!Objects
  /\ phase' = "SWEEP"
  /\ UNCHANGED <<refs, caps, stack, open, closed, stale, gray_head, gc_list, loops>>

Sweep == (\E o \in G!Obj : G!gc_sweep(o)) /\ before' = mark' /\ UNCHANGED <<list, loops>>
Finish == G!gc_finish /\ before' = mark' /\ UNCHANGED <<list, loops>>
Mutate == G!Mutate /\ before' = mark' /\ UNCHANGED <<list, loops>>

Init ==
  /\ G!Init
  /\ gray_head = Nil
  /\ gray_tail = Nil
  /\ gc_list = [c \in Container |-> Nil]
  /\ object = Nil /\ values = {} /\ upvalues = {} /\ tables = {}
  /\ before = mark

Next ==
  \/ Mutate
  \/ gc_mark_roots \/ RootsMarked
  \/ gc_mark_array \/ gc_blacken_upvalues \/ MarkTables
  \/ gc_trace_references \/ gc_blacken_object
  \/ gc_remove_intern
  \/ Sweep
  \/ Finish

Spec == Init /\ [][Next]_vars

-----------------------------------------------------------------------------
(* Properties *)

\* The gray containers in an order in which the links lead from the first to
\* the last one.
Spells(order) ==
  /\ gray_head = IF order = <<>> THEN Nil ELSE order[1]
  /\ \A i \in DOMAIN order :
       gc_list[order[i]] = IF i = Len(order) THEN Nil ELSE order[i + 1]

\* The list is acyclic and holds exactly the gray containers, no other link is
\* left over, and while there is something to traverse gray_tail, which
\* gc_mark_object dereferences without a check, is its last node.  Between
\* collections nothing of it is left.
ListShape ==
  /\ \A c \in Container \ G!GrayContainers : gc_list[c] = Nil
  /\ \E order \in SetToSeqs(G!GrayContainers) :
       /\ Spells(order)
       /\ phase = "TRACE" /\ order # <<>> => gray_tail = Last(order)
  /\ phase \notin {"MARK", "TRACE"} => gray_head = Nil /\ gray_tail = Nil

\* The pointer-level collector is the collector of Gc: it traverses every gray
\* container before it frees anything, whatever the shape of the heap.
Abstract == INSTANCE Gc WITH mark <- before,
                             phase <- IF phase = "MARK" THEN "PAUSED" ELSE phase
ImplementsGc == Abstract!Spec
=============================================================================

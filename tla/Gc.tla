--------------------------------- MODULE Gc ---------------------------------
(***************************************************************************)
(* The tracing collector of cpp/src/gc.cpp and the heap it works on.       *)
(*                                                                         *)
(* A collection is one uninterrupted call (gc_collect_garbage, reached     *)
(* from mem_rawrealloc whenever an allocation grows the heap past the      *)
(* threshold, or from lulu_gc).  It is broken here into the steps of its   *)
(* loops so that the invariants between the steps can be stated.  Between  *)
(* two collections the VM mutates the heap: it allocates, moves values     *)
(* between stack slots, tables and upvalues, captures slots in upvalues    *)
(* and closes them.  A collection may start between any two mutator steps, *)
(* which is where the code allocates.                                      *)
(*                                                                         *)
(* Values that are not collectable do not appear; Nil stands for all of    *)
(* them.  g->objects and L->open_upvalues are the two sets Objects and     *)
(* OpenUpvalues: the order of these lists is irrelevant to the collector   *)
(* (the order of the gray list is the subject of GrayList).                *)
(***************************************************************************)
EXTENDS Naturals, FiniteSets

CONSTANTS
  Container,  \* addresses of tables, functions, chunks and userdata
  Closure,    \* those among them that functions are made at
  String,     \* addresses of interned strings
  Upvalue,    \* addresses of upvalue objects
  Root,       \* the containers lulu_open makes: registry and globals
  Fixed,      \* the strings lulu_open fixes: keywords, metamethod names
  NSlots,     \* stack slots in use, a call frame's function slot included
  Nil         \* any value that is not a collectable object

Val  == Container \cup String
Obj  == Val \cup Upvalue
Slot == 1 .. NSlots

ASSUME GcAssumption ==
  /\ Container \cap String = {}
  /\ Val \cap Upvalue = {}
  /\ Closure \subseteq Container
  /\ Root \subseteq Container \ Closure
  /\ Fixed \subseteq String
  /\ NSlots \in Nat
  /\ Nil \notin Obj \cup Nat

VARIABLES
  alloc,   \* the objects that are allocated
  refs,    \* refs[c]: the values container c holds (keys, values, constants,
           \*   children, metatable, chunk, upvalues of a C closure)
  caps,    \* caps[c]: the upvalues a Lua closure c captured
  stack,   \* stack[s]: the value in a slot below the top of the window
  open,    \* open[u]: the slot u points at, Nil once u is closed
  closed,  \* closed[u]: u's own value once it is closed
  mark,    \* Object_Header.mark: gray is neither the white nor the black bit
  phase,   \* where gc_collect_garbage is
  todo,    \* members of g->objects gc_sweep has not passed yet
  stale    \* history: the closed upvalues that entered this collection black

heap == <<alloc, refs, caps, stack, open, closed>>
vars == <<alloc, refs, caps, stack, open, closed, mark, phase, todo, stale>>

-----------------------------------------------------------------------------
(* The heap as a graph *)

OpenUpvalues == {u \in Upvalue : open[u] # Nil}

\* g->objects: strings are in the Intern table, open upvalues in their own list.
Objects == {o \in alloc : o \in Container \/ (o \in Upvalue /\ open[o] = Nil)}

StackValues == {stack[s] : s \in Slot} \ {Nil}

Roots == Root \cup StackValues \cup OpenUpvalues

Targets(o) ==
  IF o \in Container THEN refs[o] \cup caps[o]
  ELSE IF o \in Upvalue /\ open[o] = Nil THEN {closed[o]} \ {Nil}
  ELSE {}

\* The objects in every set that holds the roots and, for each object outside
\* cut, what it refers to: what the program can still reach without looking
\* through an object of cut.
ReachableAvoiding(cut) ==
  LET HoldsItsTargets(S) == \A o \in S \ cut : Targets(o) \subseteq S
  IN  {o \in Obj : \A S \in SUBSET Obj :
                     Roots \subseteq S /\ HoldsItsTargets(S) => o \in S}

Reachable == ReachableAvoiding({})

\* No reference the program can follow dangles.
Intact == Reachable \subseteq alloc

-----------------------------------------------------------------------------
(* Between collections: what the VM does to the heap *)

Mutating == phase = "PAUSED"

InStack(o) == o \in StackValues

\* The tables an instruction can name: globals, and those in registers.
Accessible(c) == c \in Root \/ (InStack(c) /\ c \in Container \ Closure)

\* object_new: every object starts white, linked into its list.
object_new(o) ==
  /\ o \notin alloc
  /\ alloc' = alloc \cup {o}
  /\ mark' = [mark EXCEPT ![o] = "white"]

\* OP_NEW_TABLE; the fresh object is in a register before anything else runs.
NewTable(c, s) ==
  /\ Mutating /\ c \notin Closure /\ object_new(c)
  /\ stack' = [stack EXCEPT ![s] = c]
  /\ UNCHANGED <<refs, caps, open, closed, phase, todo, stale>>

\* ostring_new: the interned node with these bytes if there is one, reachable
\* or not; the result is put in a register.
NewString(x, s) ==
  /\ Mutating
  /\ \/ object_new(x)
     \/ x \in alloc /\ UNCHANGED <<alloc, mark>>
  /\ stack' = [stack EXCEPT ![s] = x]
  /\ UNCHANGED <<refs, caps, open, closed, phase, todo, stale>>

\* closure_lua_new with upvalue pointers still null, put in the register of
\* OP_CLOSURE: its chunk (or another value it holds) is alive at that point.
NewClosure(c, p, s) ==
  /\ Mutating /\ c \in Closure /\ object_new(c)
  /\ InStack(p)
  /\ refs' = [refs EXCEPT ![c] = {p}]
  /\ stack' = [stack EXCEPT ![s] = c]
  /\ UNCHANGED <<caps, open, closed, phase, todo, stale>>

\* OP_MOVE, or the nil of OP_NIL, a return or a pop: slot s is overwritten.
Move(s, v) ==
  /\ Mutating
  /\ v = Nil \/ InStack(v)
  /\ stack' = [stack EXCEPT ![s] = v]
  /\ UNCHANGED <<alloc, refs, caps, open, closed, mark, phase, todo, stale>>

\* OP_GET_GLOBAL, OP_GET_TABLE: a value of a container goes to a register.
GetTable(c, v, s) ==
  /\ Mutating /\ Accessible(c) /\ v \in refs[c]
  /\ stack' = [stack EXCEPT ![s] = v]
  /\ UNCHANGED <<alloc, refs, caps, open, closed, mark, phase, todo, stale>>

\* OP_SET_GLOBAL, OP_SET_TABLE: v is stored over what the field held.
SetTable(c, old, v) ==
  /\ Mutating /\ Accessible(c)
  /\ old \in refs[c] \cup {Nil}
  /\ v = Nil \/ InStack(v)
  /\ refs' = [refs EXCEPT ![c] = (@ \ {old}) \cup ({v} \ {Nil})]
  /\ UNCHANGED <<alloc, caps, stack, open, closed, mark, phase, todo, stale>>

\* upvalue_find for OP_CLOSURE: closure c captures slot s, through an upvalue
\* already open on it or through a new one.  Which of the two the list search
\* picks is the subject of Upvalues; the collector must cope with either.
Capture(c, s, u) ==
  /\ Mutating /\ InStack(c)
  /\ \/ u \in OpenUpvalues /\ open[u] = s /\ UNCHANGED <<alloc, open, mark>>
     \/ object_new(u) /\ open' = [open EXCEPT ![u] = s]
  /\ caps' = [caps EXCEPT ![c] = @ \cup {u}]
  /\ UNCHANGED <<refs, stack, closed, phase, todo, stale>>

\* OP_CLOSURE with OP_GET_UPVALUE: c shares an upvalue of the running closure.
Inherit(c, d, u) ==
  /\ Mutating /\ InStack(c) /\ InStack(d)
  /\ u \in caps[d]
  /\ caps' = [caps EXCEPT ![c] = @ \cup {u}]
  /\ UNCHANGED <<alloc, refs, stack, open, closed, mark, phase, todo, stale>>

\* upvalue_close and upvalue_link: a front part of the open list (any set of
\* open upvalues here, the order being abstracted) moves its values out of the
\* stack and goes to g->objects.  Nothing touches the mark.
upvalue_close(U) ==
  /\ Mutating /\ U # {} /\ U \subseteq OpenUpvalues
  /\ closed' = [u \in Upvalue |-> IF u \in U THEN stack[open[u]] ELSE closed[u]]
  /\ open' = [u \in Upvalue |-> IF u \in U THEN Nil ELSE open[u]]
  /\ UNCHANGED <<alloc, refs, caps, stack, mark, phase, todo, stale>>

\* OP_GET_UPVALUE and OP_SET_UPVALUE on a closed upvalue (an open one is read
\* and written by Move on its slot).
GetUpvalue(c, u, s) ==
  /\ Mutating /\ InStack(c)
  /\ u \in caps[c] \ OpenUpvalues
  /\ stack' = [stack EXCEPT ![s] = closed[u]]
  /\ UNCHANGED <<alloc, refs, caps, open, closed, mark, phase, todo, stale>>

SetUpvalue(c, u, v) ==
  /\ Mutating /\ InStack(c)
  /\ u \in caps[c] \ OpenUpvalues
  /\ v = Nil \/ InStack(v)
  /\ closed' = [closed EXCEPT ![u] = v]
  /\ UNCHANGED <<alloc, refs, caps, stack, open, mark, phase, todo, stale>>

-----------------------------------------------------------------------------
(* The collection.  An operator on marks maps the marks before to those      *)
(* after; gc_mark_object leaves gray and black objects alone.                *)

gc_mark(m, S) ==
  [o \in Obj |-> IF o \in S /\ m[o] = "white" THEN "gray" ELSE m[o]]

\* gc_blacken_upvalue on each member of U: a black one is skipped altogether,
\* a closed one marks its value, an open one leaves it to the stack.
gc_blacken_upvalues(m, U) ==
  LET fresh  == {u \in U : m[u] # "black"}
      values == {closed[u] : u \in {x \in fresh : open[x] = Nil}} \ {Nil}
  IN  [o \in Obj |-> IF o \in fresh THEN "black" ELSE gc_mark(m, values)[o]]

\* Mutant: the upvalues of a Lua closure are not visited.
gc_blacken_Mutant_no_upvalues(m, c) == [gc_mark(m, refs[c]) EXCEPT ![c] = "black"]

\* Mutant: the object taken from the gray list is not blackened.
gc_blacken_Mutant_stays_gray(m, c) ==
  gc_blacken_upvalues(gc_mark(m, refs[c]), caps[c])

\* gc_blacken_table, _chunk, _userdata and _function: children gray, then black.
gc_blacken(m, c) ==
  [gc_blacken_upvalues(gc_mark(m, refs[c]), caps[c]) EXCEPT ![c] = "black"]

GrayContainers == {c \in Container : mark[c] = "gray"}

gc_mark_roots ==
  /\ Mutating
  /\ mark' = gc_blacken_upvalues(gc_mark(mark, Root \cup StackValues), OpenUpvalues)
  /\ stale' = {u \in Upvalue : mark[u] = "black" /\ open[u] = Nil}
  /\ phase' = "TRACE"
  /\ UNCHANGED <<heap, todo>>

gc_trace_references(c) ==
  /\ phase = "TRACE" /\ c \in GrayContainers
  /\ mark' = gc_blacken(mark, c)
  /\ UNCHANGED <<heap, phase, todo, stale>>

\* Mutant: strings are freed while containers still wait to be traversed.
gc_remove_intern_Mutant_early ==
  /\ phase = "TRACE"
  /\ LET kept == {x \in alloc \cap String : mark[x] = "gray" \/ x \in Fixed}
     IN  /\ alloc' = (alloc \ String) \cup kept
         /\ mark' = [o \in Obj |-> IF o \in String THEN "white" ELSE mark[o]]
  /\ todo' = Objects
  /\ phase' = "SWEEP"
  /\ UNCHANGED <<refs, caps, stack, open, closed, stale>>

\* The gray list ran empty: free the strings nobody marked, whiten the others,
\* and start the sweep at the head of g->objects.
gc_remove_intern ==
  /\ phase = "TRACE" /\ GrayContainers = {}
  /\ LET kept == {x \in alloc \cap String : mark[x] = "gray" \/ x \in Fixed}
     IN  /\ alloc' = (alloc \ String) \cup kept
         /\ mark' = [o \in Obj |-> IF o \in String THEN "white" ELSE mark[o]]
  /\ todo' = Objects
  /\ phase' = "SWEEP"
  /\ UNCHANGED <<refs, caps, stack, open, closed, stale>>

\* Mutant: a survivor is not made white again for the next collection.
gc_sweep_Mutant_stays_black(o) ==
  /\ phase = "SWEEP" /\ o \in todo
  /\ todo' = todo \ {o}
  /\ IF mark[o] = "black"
     THEN UNCHANGED <<alloc, refs, caps, closed, mark>>
     ELSE /\ mark' = [mark EXCEPT ![o] = "white"]
          /\ alloc' = alloc \ {o}
          /\ refs' = [c \in Container |-> IF c = o THEN {} ELSE refs[c]]
          /\ caps' = [c \in Container |-> IF c = o THEN {} ELSE caps[c]]
          /\ closed' = [u \in Upvalue |-> IF u = o THEN Nil ELSE closed[u]]
  /\ UNCHANGED <<stack, open, phase, stale>>

\* One turn of gc_sweep's loop.  A freed object's fields are reset so that its
\* address can be used again.
gc_sweep(o) ==
  /\ phase = "SWEEP" /\ o \in todo
  /\ todo' = todo \ {o}
  /\ mark' = [mark EXCEPT ![o] = "white"]
  /\ IF mark[o] = "black"
     THEN UNCHANGED <<alloc, refs, caps, closed>>
     ELSE /\ alloc' = alloc \ {o}
          /\ refs' = [c \in Container |-> IF c = o THEN {} ELSE refs[c]]
          /\ caps' = [c \in Container |-> IF c = o THEN {} ELSE caps[c]]
          /\ closed' = [u \in Upvalue |-> IF u = o THEN Nil ELSE closed[u]]
  /\ UNCHANGED <<stack, open, phase, stale>>

\* The mutator goes on.  When the program can now follow a reference to freed
\* memory its behaviour is undefined: nothing is specified from there on.
gc_finish ==
  /\ phase = "SWEEP" /\ todo = {}
  /\ phase' = IF Intact THEN "PAUSED" ELSE "UNDEFINED"
  /\ stale' = {}
  /\ UNCHANGED <<heap, mark, todo>>

-----------------------------------------------------------------------------

\* After lulu_open: two empty tables and the fixed strings.
Init ==
  /\ alloc = Root \cup Fixed
  /\ refs = [c \in Container |-> {}]
  /\ caps = [c \in Container |-> {}]
  /\ stack = [s \in Slot |-> Nil]
  /\ open = [u \in Upvalue |-> Nil]
  /\ closed = [u \in Upvalue |-> Nil]
  /\ mark = [o \in Obj |-> "white"]
  /\ phase = "PAUSED"
  /\ todo = {}
  /\ stale = {}

Mutate ==
  \/ \E c \in Container, s \in Slot : NewTable(c, s)
  \/ \E x \in String, s \in Slot : NewString(x, s)
  \/ \E c \in Closure, p \in Val, s \in Slot : NewClosure(c, p, s)
  \/ \E s \in Slot, v \in Val \cup {Nil} : Move(s, v)
  \/ \E c \in Container, v \in Val, s \in Slot : GetTable(c, v, s)
  \/ \E c \in Container, old, v \in Val \cup {Nil} : SetTable(c, old, v)
  \/ \E c \in Closure, s \in Slot, u \in Upvalue : Capture(c, s, u)
  \/ \E c, d \in Closure, u \in Upvalue : Inherit(c, d, u)
  \/ \E U \in SUBSET Upvalue : upvalue_close(U)
  \/ \E c \in Closure, u \in Upvalue, s \in Slot : GetUpvalue(c, u, s)
  \/ \E c \in Closure, u \in Upvalue, v \in Val \cup {Nil} : SetUpvalue(c, u, v)

Collect ==
  \/ \E c \in Container : gc_trace_references(c)
  \/ gc_remove_intern
  \/ \E o \in Obj : gc_sweep(o)
  \/ gc_finish

Next == Mutate \/ gc_mark_roots \/ Collect

Spec == Init /\ [][Next]_vars

\* A collection that started runs on: it is a sequence of plain loops in one
\* call, and nothing else runs until it returns.
FairSpec == Spec /\ WF_vars(Collect)

-----------------------------------------------------------------------------
(* Properties *)

Colour == {"white", "gray", "black"}

\* Every variable has its type, and the two lists hold allocated objects only.
TypeOK ==
  /\ alloc \in SUBSET Obj
  /\ refs \in [Container -> SUBSET Val]
  /\ caps \in [Container -> SUBSET Upvalue]
  /\ stack \in [Slot -> Val \cup {Nil}]
  /\ open \in [Upvalue -> Slot \cup {Nil}]
  /\ closed \in [Upvalue -> Val \cup {Nil}]
  /\ mark \in [Obj -> Colour]
  /\ phase \in {"PAUSED", "TRACE", "SWEEP", "UNDEFINED"}
  /\ todo \in SUBSET Objects
  /\ stale \in SUBSET Upvalue
  /\ OpenUpvalues \subseteq alloc

\* While the collector traces, the roots and the children of black objects are
\* marked, except the values of upvalues that were black from the start: those
\* open during one collection are blackened, never whitened and closed black, so
\* that the next one takes them for traversed.
Tricolour ==
  phase = "TRACE" =>
    /\ \A r \in Roots : mark[r] # "white"
    /\ \A o \in Obj \ stale :
         mark[o] = "black" => \A t \in Targets(o) : mark[t] # "white"

\* gc_remove_intern and gc_sweep free no object the program can still reach,
\* except through an upvalue that entered the collection black.
FreedIsGarbage ==
  [][\A o \in alloc \ alloc' : o \notin ReachableAvoiding(stale)]_vars

\* A collection leaves no garbage behind: what is allocated at its end is
\* reachable, fixed, or one of the upvalues that entered it black.
CycleExact ==
  phase = "SWEEP" /\ todo = {} =>
    alloc = ReachableAvoiding(stale) \cup Fixed \cup stale

\* Every collection ends.
CollectionEnds == phase \in {"TRACE", "SWEEP"} ~> phase \notin {"TRACE", "SWEEP"}
=============================================================================

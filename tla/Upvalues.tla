------------------------------ MODULE Upvalues ------------------------------
(***************************************************************************)
(* Captured variables: function.cpp's list of open upvalues and the places *)
(* of the VM that maintain it.  A local variable lives in a stack slot; a  *)
(* closure that captures it shares an Upvalue object that points at the    *)
(* slot until the variable's scope ends and the object takes its value     *)
(* along (OP_CLOSE, OP_RETURN, a caught error).                            *)
(*                                                                         *)
(* Control flow is a stack of marks: C functions, calls of Lua functions   *)
(* (protected ones too) and blocks.  Any program the compiler accepts is   *)
(* a sequence of the actions below.  Each capture of each closure is       *)
(* one member of Capture; a closure that uses its capture does so without  *)
(* a call of its own.                                                      *)
(***************************************************************************)
EXTENDS Naturals, Sequences, FiniteSets, FiniteSetsExt

CONSTANTS
  NSlots,   \* slots of L->stack
  MaxMarks, \* bound on nested calls and blocks
  MaxArgs,  \* bound on the arguments of an unprotected call
  MaxProtectedArgs, \* and of a protected one
  Capture, Upvalue,
  NVars,    \* variables that can be named at one time
  Value,
  Blank,    \* the content of a slot or upvalue that was never assigned
  Nil       \* nothing

Slot == 1 .. NSlots
Var  == 1 .. NVars

ASSUME UpvaluesAssumption ==
  /\ NSlots \in Nat /\ MaxMarks \in Nat /\ NVars \in Nat
  /\ MaxArgs \in Nat /\ MaxProtectedArgs \in 0 .. MaxArgs
  /\ Blank \notin Value
  /\ Nil \notin Value \cup Upvalue \cup Nat

VARIABLES
  stack,  \* stack[s]: the value in slot s; a slot above the top keeps its own
  marks,  \* what is active, innermost last: see C, Lua, Block
  open_upvalues, \* L->open_upvalues, its head first
  at,     \* at[u]: the slot u->value points at, Nil when u is closed
  closed, \* closed[u]: u's own value
  ref,    \* ref[h]: the upvalue in place h of some closure, Nil when unused
  \* History variables: they are not in the code and no action depends on them.
  scope,  \* scope[s]: the variable that lives in slot s, up to the top
  bound,  \* bound[h]: the variable h was meant to capture
  maker,  \* maker[u]: the index in marks of the call that made u
  ordered \* every upvalue was made above those that were open

vars == <<stack, marks, open_upvalues, at, closed, ref, scope, bound, maker, ordered>>

-----------------------------------------------------------------------------
(* Marks.  level is the first slot of the mark's own variables.             *)

\* A C function's frame; keep is unused.
C(level) == [kind |-> "C", level |-> level, has_upvalue |-> FALSE, keep |-> Nil]

\* A Lua function's frame.  In a protected call keep is the old_top of vm_pcall:
\* how many slots are below the top once the function and its arguments are pushed.
Lua(level, keep) == [kind |-> "Lua", level |-> level, has_upvalue |-> FALSE, keep |-> keep]

\* Block of the compiler, has_upvalue when OP_CLOSE ends it.
Block(level) == [kind |-> "block", level |-> level, has_upvalue |-> FALSE, keep |-> Nil]

top == Len(scope)

\* The innermost frame (the caller) is at this index of marks.
caller == Max({i \in DOMAIN marks : marks[i].kind # "block"})

InLua == marks[caller].kind = "Lua"

\* The locals of the running function: its registers in use.
window == marks[caller].level .. top

\* The names that no slot and no capture has.
Unused == Var \ ({scope[s] : s \in DOMAIN scope} \cup {bound[h] : h \in Capture})

EnoughVars(n) == Cardinality(Unused) >= n

\* Names for n new variables.
Fresh(n) ==
  CHOOSE f \in [1 .. n -> Unused] : \A i, j \in 1 .. n : f[i] = f[j] => i = j

-----------------------------------------------------------------------------
(* function.cpp *)

\* The place in the list where upvalue_find stops: the first upvalue that is
\* not above the slot.
Stop(local) ==
  LET below == {i \in DOMAIN open_upvalues : at[open_upvalues[i]] <= local}
  IN  IF below = {} THEN Len(open_upvalues) + 1 ELSE Min(below)

Finds(u, local) ==
  /\ Stop(local) \in DOMAIN open_upvalues
  /\ u = open_upvalues[Stop(local)]
  /\ at[u] = local

Free(u) == at[u] = Nil /\ \A h \in Capture : ref[h] # u

\* Mutant: a slot that is captured already gets another upvalue.
upvalue_find_Mutant_never_reuses(u, local) ==
  /\ Free(u)
  /\ open_upvalues' = <<u>> \o open_upvalues
  /\ at' = [at EXCEPT ![u] = local]
  /\ maker' = [maker EXCEPT ![u] = caller]
  /\ ordered' = (ordered /\ \A w \in Upvalue : at[w] # Nil => at[w] <= local)

\* upvalue_find: the upvalue found, or a new one at the head of the list.
upvalue_find(u, local) ==
  \/ /\ Finds(u, local)
     /\ UNCHANGED <<open_upvalues, at, maker, ordered>>
  \/ /\ ~ \E w \in Upvalue : Finds(w, local)
     /\ Free(u)
     /\ open_upvalues' = <<u>> \o open_upvalues
     /\ at' = [at EXCEPT ![u] = local]
     /\ maker' = [maker EXCEPT ![u] = caller]
     /\ ordered' = (ordered /\ \A w \in Upvalue : at[w] # Nil => at[w] < local)

\* upvalue_close: the front of the list, up to the first one below the level.
upvalue_close(level) ==
  LET kept  == {i \in DOMAIN open_upvalues : at[open_upvalues[i]] < level}
      n     == IF kept = {} THEN Len(open_upvalues) ELSE Min(kept) - 1
      front == {open_upvalues[i] : i \in 1 .. n}
  IN  /\ closed' = [u \in Upvalue |-> IF u \in front THEN stack[at[u]] ELSE closed[u]]
      /\ at' = [u \in Upvalue |-> IF u \in front THEN Nil ELSE at[u]]
      /\ maker' = [u \in Upvalue |-> IF u \in front THEN Nil ELSE maker[u]]
      /\ open_upvalues' = SubSeq(open_upvalues, n + 1, Len(open_upvalues))

\* What *up->value designates.
Deref(u) == IF at[u] = Nil THEN closed[u] ELSE stack[at[u]]

-----------------------------------------------------------------------------
(* The running Lua function *)

\* A local comes into scope, its register initialised.
Local(x) ==
  /\ InLua /\ top < NSlots /\ EnoughVars(1)
  /\ scope' = scope \o Fresh(1)
  /\ stack' = [stack EXCEPT ![top + 1] = x]
  /\ UNCHANGED <<marks, open_upvalues, at, closed, ref, bound, maker, ordered>>

\* An assignment to a local: any instruction with destination R(A).
Assign(s, x) ==
  /\ InLua /\ s \in window
  /\ stack' = [stack EXCEPT ![s] = x]
  /\ UNCHANGED <<marks, open_upvalues, at, closed, ref, scope, bound, maker, ordered>>

EnterBlock ==
  /\ InLua /\ Len(marks) < MaxMarks
  /\ marks' = Append(marks, Block(top + 1))
  /\ UNCHANGED <<stack, open_upvalues, at, closed, ref, scope, bound, maker, ordered>>

\* The innermost k blocks are left.  OP_CLOSE is executed if one of them declares
\* a captured variable; the capture may also be in code that did not run.
LeaveBlocks(k) ==
  /\ k \in 1 .. Len(marks) - caller
  /\ LET left  == Len(marks) - k
         level == marks[left + 1].level
         mustClose == \E i \in left + 1 .. Len(marks) : marks[i].has_upvalue
     IN  /\ marks' = SubSeq(marks, 1, left)
         /\ scope' = SubSeq(scope, 1, level - 1)
         /\ \/ upvalue_close(level)
            \/ ~mustClose /\ UNCHANGED <<open_upvalues, at, closed, maker>>
  /\ UNCHANGED <<stack, ref, bound, ordered>>

\* block_pop, at the end of a block.
EndBlock == LeaveBlocks(1)

\* break_statement: the blocks inside the loop and the loop's own are left at
\* once, and one OP_CLOSE does for all.
Break(k) == k > 1 /\ LeaveBlocks(k)

\* Mutant: the first local of a block is taken for one of the enclosing block.
mark_upvalue_Mutant_off_by_one(s) ==
  LET declaring == Max({caller} \cup {i \in DOMAIN marks : marks[i].level < s})
  IN  IF marks[declaring].kind = "block"
      THEN [marks EXCEPT ![declaring].has_upvalue = TRUE]
      ELSE marks

\* mark_upvalue: the block that declares slot s ends in OP_CLOSE, unless it is
\* the body of the function.
mark_upvalue(s) ==
  LET declaring == Max({i \in DOMAIN marks : marks[i].level <= s})
  IN  IF marks[declaring].kind = "block"
      THEN [marks EXCEPT ![declaring].has_upvalue = TRUE]
      ELSE marks

\* One turn of OP_CLOSURE's loop for OP_MOVE: place h of the new closure
\* captures the local in slot s.
Closure(h, s, u) ==
  /\ InLua /\ s \in window
  /\ upvalue_find(u, s)
  /\ ref' = [ref EXCEPT ![h] = u]
  /\ bound' = [bound EXCEPT ![h] = scope[s]]
  /\ marks' = mark_upvalue(s)
  /\ UNCHANGED <<stack, closed, scope>>

\* OP_GET_UPVALUE and OP_SET_UPVALUE of a closure with h, to and from the
\* register that the caller's local in slot s is passed in.
GetUpvalue(h, s) ==
  /\ InLua /\ s \in window /\ ref[h] # Nil
  /\ stack' = [stack EXCEPT ![s] = Deref(ref[h])]
  /\ UNCHANGED <<marks, open_upvalues, at, closed, ref, scope, bound, maker, ordered>>

SetUpvalue(h, s) ==
  /\ InLua /\ s \in window /\ ref[h] # Nil
  /\ IF at[ref[h]] = Nil
     THEN closed' = [closed EXCEPT ![ref[h]] = stack[s]] /\ UNCHANGED stack
     ELSE stack' = [stack EXCEPT ![at[ref[h]]] = stack[s]] /\ UNCHANGED closed
  /\ UNCHANGED <<marks, open_upvalues, at, ref, scope, bound, maker, ordered>>

-----------------------------------------------------------------------------
(* Calls and returns *)

\* The function (a value no variable of the model has) and n arguments are
\* pushed; the arguments are its first locals.
\* A Lua function calls with OP_CALL, a C function with lulu_call or lulu_pcall.
Call(n, x, protected) ==
  /\ Len(marks) < MaxMarks /\ top + 1 + n <= NSlots /\ EnoughVars(1 + n)
  /\ protected => marks[caller].kind = "C" /\ n <= MaxProtectedArgs
  /\ scope' = scope \o Fresh(1 + n)
  /\ stack' = [s \in Slot |-> IF s = top + 1 THEN Blank
                              ELSE IF s \in top + 2 .. top + 1 + n THEN x ELSE stack[s]]
  /\ marks' = Append(marks, Lua(top + 2, IF protected THEN top + 1 + n ELSE Nil))
  /\ UNCHANGED <<open_upvalues, at, closed, ref, bound, maker, ordered>>

CallC ==
  /\ InLua /\ Len(marks) < MaxMarks /\ top < NSlots /\ EnoughVars(1)
  /\ scope' = scope \o Fresh(1)
  /\ stack' = [stack EXCEPT ![top + 1] = Blank]
  /\ marks' = Append(marks, C(top + 2))
  /\ UNCHANGED <<open_upvalues, at, closed, ref, bound, maker, ordered>>

\* OP_RETURN closes what the function's window holds, then the frame goes.
Return ==
  /\ InLua
  /\ upvalue_close(marks[caller].level)
  /\ scope' = SubSeq(scope, 1, marks[caller].level - 2)
  /\ marks' = SubSeq(marks, 1, caller - 1)
  /\ UNCHANGED <<stack, ref, bound, ordered>>

\* A C function pops values, or returns: it closes nothing.
PopC(n) ==
  /\ marks[caller].kind = "C"
  /\ n \in marks[caller].level - 1 .. top - 1
  /\ scope' = SubSeq(scope, 1, n)
  /\ UNCHANGED <<stack, marks, open_upvalues, at, closed, ref, bound, maker, ordered>>

ReturnC ==
  /\ caller > 1 /\ marks[caller].kind = "C"
  /\ scope' = SubSeq(scope, 1, marks[caller].level - 2)
  /\ marks' = SubSeq(marks, 1, caller - 1)
  /\ UNCHANGED <<stack, open_upvalues, at, closed, ref, bound, maker, ordered>>

Handlers == {i \in DOMAIN marks : marks[i].kind = "Lua" /\ marks[i].keep # Nil}

\* Mutant: a caught error leaves the open upvalues to the next return.
Throw_Mutant_closes_nothing ==
  /\ Handlers # {}
  /\ LET catch == Max(Handlers)
     IN  /\ scope' = SubSeq(scope, 1, marks[catch].keep)
         /\ marks' = SubSeq(marks, 1, catch - 1)
  /\ UNCHANGED <<stack, open_upvalues, at, closed, ref, bound, maker, ordered>>

\* vm_throw, caught by the innermost vm_pcall: set_error_object closes from
\* old_top on, and the frames above that of lulu_pcall's caller go.
Throw ==
  /\ Handlers # {}
  /\ LET catch == Max(Handlers)
     IN  /\ upvalue_close(marks[catch].keep + 1)
         /\ scope' = SubSeq(scope, 1, marks[catch].keep)
         /\ marks' = SubSeq(marks, 1, catch - 1)
  /\ UNCHANGED <<stack, ref, bound, ordered>>

\* A closure is collected, its capture with it.
Drop(h) ==
  /\ ref[h] # Nil
  /\ ref' = [ref EXCEPT ![h] = Nil]
  /\ bound' = [bound EXCEPT ![h] = Nil]
  /\ UNCHANGED <<stack, marks, open_upvalues, at, closed, scope, maker, ordered>>

-----------------------------------------------------------------------------

\* The host program runs, with nothing on the stack.
Init ==
  /\ stack = [s \in Slot |-> Blank]
  /\ marks = <<C(1)>>
  /\ open_upvalues = <<>>
  /\ at = [u \in Upvalue |-> Nil]
  /\ closed = [u \in Upvalue |-> Blank]
  /\ ref = [h \in Capture |-> Nil]
  /\ scope = <<>>
  /\ bound = [h \in Capture |-> Nil]
  /\ maker = [u \in Upvalue |-> Nil]
  /\ ordered = TRUE

Next ==
  \/ \E x \in Value : Local(x)
  \/ \E s \in Slot, x \in Value : Assign(s, x)
  \/ EnterBlock
  \/ EndBlock
  \/ \E k \in 1 .. MaxMarks : Break(k)
  \/ \E h \in Capture, s \in Slot, u \in Upvalue : Closure(h, s, u)
  \/ \E h \in Capture, s \in Slot : GetUpvalue(h, s) \/ SetUpvalue(h, s)
  \/ \E n \in 0 .. MaxArgs, x \in Value, protected \in BOOLEAN : Call(n, x, protected)
  \/ CallC
  \/ Return
  \/ \E n \in 0 .. NSlots : PopC(n)
  \/ ReturnC
  \/ Throw
  \/ \E h \in Capture : Drop(h)

Spec == Init /\ [][Next]_vars

-----------------------------------------------------------------------------
(* Properties *)

Kind == {"C", "Lua", "block"}

\* Every variable has its type, and the list holds the open upvalues, each once.
TypeOK ==
  /\ stack \in [Slot -> Value \cup {Blank}]
  /\ marks \in Seq([kind : Kind, level : Nat, has_upvalue : BOOLEAN, keep : Nat \cup {Nil}])
  /\ open_upvalues \in Seq(Upvalue)
  /\ at \in [Upvalue -> Slot \cup {Nil}]
  /\ closed \in [Upvalue -> Value \cup {Blank}]
  /\ ref \in [Capture -> Upvalue \cup {Nil}]
  /\ scope \in Seq(Var)
  /\ bound \in [Capture -> Var \cup {Nil}]
  /\ maker \in [Upvalue -> Nat \cup {Nil}]
  /\ ordered \in BOOLEAN
  /\ {open_upvalues[i] : i \in DOMAIN open_upvalues} = {u \in Upvalue : at[u] # Nil}
  /\ Cardinality({u \in Upvalue : at[u] # Nil}) = Len(open_upvalues)

\* "We assume the upvalue list is sorted (in terms of stack slots)": the slots
\* descend from the head of the list.  upvalue_find puts a new upvalue at the
\* head wherever its slot is, so they do not when a closure captures an earlier
\* local after a later one.
Sorted ==
  \A i, j \in DOMAIN open_upvalues :
    i < j => at[open_upvalues[i]] > at[open_upvalues[j]]

\* The upvalues a call made are closed when it has returned or was unwound by an
\* error: none of those still open was made by a call that is gone.  This does
\* not depend on the order of the list within one function.
FramesClosed ==
  \A u \in Upvalue : at[u] # Nil =>
    /\ maker[u] \in DOMAIN marks
    /\ marks[maker[u]].kind = "Lua"
    /\ marks[maker[u]].level <= at[u]

\* In a program whose closures capture in ascending order, an open upvalue is on
\* the slot of the variable it was made for, and two captures have the same
\* upvalue just when they name the same variable.  The list holds the open
\* upvalues, each once, whatever the order.
OnePerVariable ==
  /\ TypeOK
  /\ ordered =>
       /\ Sorted
       /\ \A h \in Capture : ref[h] # Nil /\ at[ref[h]] # Nil =>
            at[ref[h]] <= top /\ scope[at[ref[h]]] = bound[h]
       /\ \A h, i \in Capture : ref[h] # Nil /\ ref[i] # Nil =>
            (ref[h] = ref[i] <=> bound[h] = bound[i])

\* Where the content of cell v is: its slot, or the upvalue of a capture.
Content(v) ==
  IF \E s \in DOMAIN scope : scope[s] = v
  THEN stack[CHOOSE s \in DOMAIN scope : scope[s] = v]
  ELSE IF \E h \in Capture : bound[h] = v
  THEN Deref(ref[CHOOSE h \in Capture : bound[h] = v])
  ELSE Blank

Cell == INSTANCE Cells WITH val <- [v \in Var |-> Content(v)], MaxDeclared <- MaxArgs + 1

\* In such a program slots and upvalues behave as the cells of Cells: a capture
\* reads what was last assigned to its variable, by whichever closure or by the
\* function itself, before and after the variable's scope ended.
ImplementsCells == Cell!Init /\ [][ordered' => [Cell!Next]_Cell!vars]_vars
=============================================================================

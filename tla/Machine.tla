------------------------------ MODULE Machine -------------------------------
(***************************************************************************)
(* The register machine (vm_execute in vm.cpp) running what the compiler   *)
(* made of a program: one action for each instruction.  Each behaviour     *)
(* runs one of Programs, with the C function print as the only library.    *)
(*                                                                         *)
(* Registers are slots of one stack, so that a wrong register, a wrong     *)
(* window or an upvalue left open shows as a wrong value.  Metatables and  *)
(* collections are left out: Metamethods and Gc have them.  So are strings *)
(* as operands of arithmetic; no program has one.  A table is a function   *)
(* from its keys, which LuaTable says how to keep.                         *)
(***************************************************************************)
EXTENDS Parser, Meaning, TLC

CONSTANTS
  Programs,   \* a sequence of programs, see Parser
  StackSize,  \* slots of L->stack
  Avoided     \* departures from the language, see compiler_make: programs with
              \* one of them are not run

VARIABLES
  program,    \* the one that runs
  main,       \* what the compiler made of it
  verdict,    \* what failed while it was compiled and where it departs
  frames,     \* calls of Lua functions, the innermost last
  stack,      \* L->stack
  top,        \* the end of L->window
  open,       \* L->open_upvalues, its head first
  upvalues, closures, tables, globals,   \* what was allocated
  output,     \* what was printed
  status,     \* "running", "ended", "error", or "refused" if it does not run
  stray       \* a convention between caller and callee was left: see Strays

heap == <<open, upvalues, closures, tables, globals>>
fixed == <<program, main, verdict>>
vars == <<fixed, frames, stack, top, heap, output, status, stray>>

\* The function at the end of path, which leads from main through its children.
ChunkAt(path) == FoldLeft(LAMBDA ch, i : ch.children[i + 1], main, path)

-----------------------------------------------------------------------------
(* Values and registers *)

Table(t)    == <<"table", t>>
Function(f) == <<"function", f>>
PrintFunction == <<"function", 0>>

is_falsy(v) == v \in {Nil, Boolean(FALSE)}

frame == Last(frames)
closure == closures[frame.closure]
chunk_now == ChunkAt(closure.path)
inst == chunk_now.code[frame.pc + 1]

Slot(i) == frame.base + i + 1
R(i) == stack[Slot(i)]
K(i) == chunk_now.constants[i + 1]
RKv(i) == IF reg_is_k(i) THEN K(i - BIT_RK) ELSE R(i)

Executes(op) == status = "running" /\ inst.op \in op

Goto(at) == frames' = [frames EXCEPT ![Len(frames)].pc = at]
Step == Goto(frame.pc + 1)
JumpTarget(at) == at + 1 + chunk_now.code[at + 1].b

\* R(A) := v.
Load(v) ==
  /\ stack' = [stack EXCEPT ![Slot(inst.a)] = v]
  /\ Step
  /\ UNCHANGED <<fixed, top, heap, output, status, stray>>

vm_runtime_error ==
  /\ status' = "error"
  /\ UNCHANGED <<fixed, frames, stack, top, heap, output, stray>>

-----------------------------------------------------------------------------
(* Loads, stores and operators *)

Move == Executes({"MOVE"}) /\ Load(R(inst.b))
Constant == Executes({"CONSTANT"}) /\ Load(K(inst.b))

LoadNil ==
  /\ Executes({"NIL"})
  /\ stack' = [i \in DOMAIN stack |-> IF i \in Slot(inst.a)..Slot(inst.b) THEN Nil ELSE stack[i]]
  /\ Step
  /\ UNCHANGED <<fixed, top, heap, output, status, stray>>

LoadBool ==
  /\ Executes({"BOOL"})
  /\ stack' = [stack EXCEPT ![Slot(inst.a)] = Boolean(inst.b = 1)]
  /\ Goto(frame.pc + 1 + inst.c)
  /\ UNCHANGED <<fixed, top, heap, output, status, stray>>

GetGlobal ==
  /\ Executes({"GET_GLOBAL"})
  /\ IF K(inst.b)[2] \in DOMAIN globals THEN Load(globals[K(inst.b)[2]]) ELSE vm_runtime_error

SetGlobal ==
  /\ Executes({"SET_GLOBAL"})
  /\ globals' = (K(inst.b)[2] :> R(inst.a)) @@ globals
  /\ Step
  /\ UNCHANGED <<fixed, stack, top, open, upvalues, closures, tables, output, status, stray>>

NewTable ==
  /\ Executes({"NEW_TABLE"})
  /\ tables' = Append(tables, <<>>)
  /\ stack' = [stack EXCEPT ![Slot(inst.a)] = Table(Len(tables) + 1)]
  /\ Step
  /\ UNCHANGED <<fixed, top, open, upvalues, closures, globals, output, status, stray>>

\* Keys without a value are not kept.
Field(t, k) == IF k \in DOMAIN tables[t] THEN tables[t][k] ELSE Nil
Stored(t, k, v) ==
  IF v = Nil THEN [x \in DOMAIN t \ {k} |-> t[x]] ELSE (k :> v) @@ t

GetTable ==
  /\ Executes({"GET_TABLE"})
  /\ IF R(inst.b)[1] = "table" THEN Load(Field(R(inst.b)[2], RKv(inst.c))) ELSE vm_runtime_error

SetTable ==
  /\ Executes({"SET_TABLE"})
  /\ IF R(inst.a)[1] = "table" /\ RKv(inst.b) # Nil
     THEN /\ tables' = [tables EXCEPT ![R(inst.a)[2]] = Stored(@, RKv(inst.b), RKv(inst.c))]
          /\ Step
          /\ UNCHANGED <<fixed, stack, top, open, upvalues, closures, globals, output,
                         status, stray>>
     ELSE vm_runtime_error

\* With VARARG the elements go up to the end of the window.
SetArray ==
  /\ Executes({"SET_ARRAY"})
  /\ LET n == IF inst.b = VARARG THEN top - frame.base - inst.a - 1 ELSE inst.b
         stored(t, i) == Stored(t, Number(inst.c * FIELDS_PER_FLUSH + i), R(inst.a + i))
     IN  tables' = [tables EXCEPT ![R(inst.a)[2]] = FoldLeft(stored, @, [i \in 1..n |-> i])]
  /\ Step
  /\ UNCHANGED <<fixed, stack, top, open, upvalues, closures, globals, output, status, stray>>

Deref(u) == IF upvalues[u].slot = 0 THEN upvalues[u].closed ELSE stack[upvalues[u].slot]

GetUpvalue == Executes({"GET_UPVALUE"}) /\ Load(Deref(closure.upvalues[inst.b + 1]))

SetUpvalue ==
  /\ Executes({"SET_UPVALUE"})
  /\ LET u == closure.upvalues[inst.b + 1]
         slot == upvalues[u].slot
     IN  IF slot = 0
         THEN upvalues' = [upvalues EXCEPT ![u].closed = R(inst.a)] /\ UNCHANGED stack
         ELSE stack' = [stack EXCEPT ![slot] = R(inst.a)] /\ UNCHANGED upvalues
  /\ Step
  /\ UNCHANGED <<fixed, top, open, closures, tables, globals, output, status, stray>>

Numbers(v, w) == v[1] = "number" /\ w[1] = "number"

Arithmetics ==
  /\ Executes(Arithmetic)
  /\ LET v == RKv(inst.b)
         w == RKv(inst.c)
     IN  IF Numbers(v, w) THEN Load(Number(Arith(inst.op, v[2], w[2]))) ELSE vm_runtime_error

Unm == /\ Executes({"UNM"})
       /\ IF R(inst.b)[1] = "number" THEN Load(Number(-R(inst.b)[2])) ELSE vm_runtime_error

Not == Executes({"NOT"}) /\ Load(Boolean(is_falsy(R(inst.b))))

\* Tables have no holes here: a border is the number of elements.
Length(t) == Cardinality({k \in DOMAIN t : k[1] = "number"})
Size ==
  /\ Executes({"LEN"})
  /\ LET v == R(inst.b)
     IN  CASE v[1] = "table"  -> Load(Number(Length(tables[v[2]])))
           [] v[1] = "string" -> Load(Number(Len(v[2])))
           [] OTHER -> vm_runtime_error

\* The numbers are small integers, which are formatted as such.
vm_to_string(v) == IF v[1] = "number" THEN String(ToString(v[2])) ELSE v

\* vm_concat: the operands become strings in their registers, one after the other
\* up to the first that is neither a string nor a number.
Concat ==
  /\ Executes({"CONCAT"})
  /\ LET joined == [i \in 1..(inst.c - inst.b + 1) |-> Slot(inst.b + i - 1)]
         wrong == {s \in Range(joined) : stack[s][1] \notin {"string", "number"}}
         reached == {s \in Range(joined) : \A w \in wrong : s < w}
         converted == [s \in DOMAIN stack |->
                         IF s \in reached THEN vm_to_string(stack[s]) ELSE stack[s]]
         text == FoldLeft(LAMBDA t, s : t \o converted[s][2], "", joined)
     IN  IF wrong = {}
         THEN /\ stack' = [converted EXCEPT ![Slot(inst.a)] = String(text)]
              /\ Step
              /\ UNCHANGED status
         ELSE stack' = converted /\ status' = "error" /\ UNCHANGED frames
  /\ UNCHANGED <<fixed, top, heap, output, stray>>

-----------------------------------------------------------------------------
(* Tests and jumps *)

\* The instruction after a test is the jump it takes or skips.
Branch(taken) == Goto(IF taken THEN JumpTarget(frame.pc + 1) ELSE frame.pc + 2)

Comparisons ==
  /\ Executes({"EQ", "LT", "LEQ"})
  /\ LET v == RKv(inst.b)
         w == RKv(inst.c)
         branch(holds) ==
           /\ Branch(holds = (inst.a = 1))
           /\ UNCHANGED <<fixed, stack, top, heap, output, status, stray>>
     IN  IF inst.op = "EQ" THEN branch(v = w)
         ELSE IF Numbers(v, w) THEN branch(Compare(inst.op, v[2], w[2]))
         ELSE vm_runtime_error

TestJump ==
  /\ Executes({"TEST"})
  /\ Branch(~is_falsy(R(inst.a)) = (inst.c = 1))
  /\ UNCHANGED <<fixed, stack, top, heap, output, status, stray>>

TestSet ==
  /\ Executes({"TEST_SET"})
  /\ LET taken == ~is_falsy(R(inst.b)) = (inst.c = 1)
     IN  /\ stack' = IF taken THEN [stack EXCEPT ![Slot(inst.a)] = R(inst.b)] ELSE stack
         /\ Branch(taken)
  /\ UNCHANGED <<fixed, top, heap, output, status, stray>>

Jump ==
  /\ Executes({"JUMP"})
  /\ Goto(JumpTarget(frame.pc))
  /\ UNCHANGED <<fixed, stack, top, heap, output, status, stray>>

ForPrep ==
  /\ Executes({"FOR_PREP"})
  /\ IF \A i \in 0..2 : R(inst.a + i)[1] = "number"
     THEN /\ stack' = [stack EXCEPT ![Slot(inst.a)] = Number(@[2] - R(inst.a + 2)[2])]
          /\ Goto(JumpTarget(frame.pc))
          /\ UNCHANGED <<fixed, top, heap, output, status, stray>>
     ELSE vm_runtime_error

ForLoop ==
  /\ Executes({"FOR_LOOP"})
  /\ LET limit == R(inst.a + 1)[2]
         incr == R(inst.a + 2)[2]
         next == R(inst.a)[2] + incr
         again == IF 0 < incr THEN next <= limit ELSE limit <= next
     IN  /\ Goto(IF again THEN JumpTarget(frame.pc) ELSE frame.pc + 1)
         /\ stack' = IF again
                     THEN [stack EXCEPT ![Slot(inst.a)] = Number(next),
                                        ![Slot(inst.a + 3)] = Number(next)]
                     ELSE stack
  /\ UNCHANGED <<fixed, top, heap, output, status, stray>>

-----------------------------------------------------------------------------
(* Calls.  A frame that is left resumes its caller, whose window is whole   *)
(* again unless all results were asked for.                                 *)

Caller == frames[Len(frames) - 1]
WindowEnd(f) == f.base + ChunkAt(closures[f.closure].path).stack_used

\* The slots from at on hold what call_init_lua was given; the parameters it does
\* not cover become nil, if it was told how many it covers.
call_init_lua(st, at, n_args, n_rets, forIn) ==
  LET f == st[at][2]
      ch == ChunkAt(closures[f].path)
      covered == IF n_args = VARARG THEN ch.n_params
                 ELSE IF n_args < ch.n_params THEN n_args ELSE ch.n_params
      new == [closure |-> f, base |-> at, pc |-> 0, to_return |-> n_rets, for_in |-> forIn]
      end == at + ch.stack_used
  IN  /\ frames' = [Append(frames, new) EXCEPT ![Len(frames)].pc = @ + 1]
      /\ stack' = [i \in DOMAIN st |-> IF i \in (at + covered + 1)..end THEN Nil ELSE st[i]]
      /\ top' = end
      /\ stray' = (stray \/ (n_args = VARARG /\ top - at < ch.n_params))
      /\ UNCHANGED <<fixed, heap, output, status>>

\* What a value looks like when it is printed.
Shown(v) == IF v[1] \in {"table", "function"} THEN <<v[1]>> ELSE v

\* print returns nothing; what its caller wants of it is nil.
call_print(at, n_args, n_rets) ==
  LET last == IF n_args = VARARG THEN top ELSE at + n_args
      wanted == IF n_rets = VARARG THEN 0 ELSE n_rets
  IN  /\ output' = Append(output, [i \in 1..(last - at) |-> Shown(stack[at + i])])
      /\ stack' = [i \in DOMAIN stack |->
                     IF i \in at..(at + wanted - 1) THEN Nil ELSE stack[i]]
      /\ top' = IF n_rets = VARARG THEN at - 1 ELSE WindowEnd(frame)
      /\ Step
      /\ UNCHANGED <<fixed, heap, status, stray>>

Call ==
  /\ Executes({"CALL"})
  /\ IF R(inst.a)[1] # "function" THEN vm_runtime_error
     ELSE IF R(inst.a) = PrintFunction THEN call_print(Slot(inst.a), inst.b, inst.c)
     ELSE call_init_lua(stack, Slot(inst.a), inst.b, inst.c, FALSE)

\* The generator, its state and its control variable are copied and called.
ForIn ==
  /\ Executes({"FOR_IN"})
  /\ LET st == [stack EXCEPT ![Slot(inst.a + 3)] = R(inst.a),
                             ![Slot(inst.a + 4)] = R(inst.a + 1),
                             ![Slot(inst.a + 5)] = R(inst.a + 2)]
     IN  IF R(inst.a)[1] # "function" THEN vm_runtime_error
         ELSE call_init_lua(st, Slot(inst.a + 3), 2, inst.c, TRUE)

Self ==
  /\ Executes({"SELF"})
  /\ IF R(inst.b)[1] = "table"
     THEN /\ stack' = [stack EXCEPT ![Slot(inst.a + 1)] = R(inst.b),
                                    ![Slot(inst.a)] = Field(R(inst.b)[2], RKv(inst.c))]
          /\ Step
          /\ UNCHANGED <<fixed, top, heap, output, status, stray>>
     ELSE vm_runtime_error

\* upvalue_find: found at the head part of the list that is not below the slot,
\* or new.
Captured(h, slot) ==
  LET above == {i \in DOMAIN h.open : \A j \in 1..i : h.upvalues[h.open[j]].slot >= slot}
      found == {i \in above : h.upvalues[h.open[i]].slot = slot}
  IN  IF found # {}
      THEN [h EXCEPT !.got = Append(@, h.open[CHOOSE i \in found : TRUE])]
      ELSE [h EXCEPT !.upvalues = Append(@, [slot |-> slot, closed |-> Nil]),
                     !.open = <<Len(h.upvalues) + 1>> \o @,
                     !.got = Append(@, Len(h.upvalues) + 1),
                     !.stray = @ \/ above # {}]

\* The instructions that follow say what is captured.
NewClosure ==
  /\ Executes({"CLOSURE"})
  /\ LET path == Append(closure.path, inst.b)
         n == ChunkAt(path).n_upvalues
         infos == SubSeq(chunk_now.code, frame.pc + 2, frame.pc + 1 + n)
         take(h, info) ==
           IF info.op = "MOVE" THEN Captured(h, Slot(info.b))
           ELSE [h EXCEPT !.got = Append(@, closure.upvalues[info.b + 1])]
         h == FoldLeft(take, [open |-> open, upvalues |-> upvalues, got |-> <<>>,
                              stray |-> stray], infos)
     IN  /\ open' = h.open
         /\ upvalues' = h.upvalues
         /\ stray' = h.stray
         /\ closures' = Append(closures, [path |-> path, upvalues |-> h.got])
         /\ stack' = [stack EXCEPT ![Slot(inst.a)] = Function(Len(closures) + 1)]
         /\ Goto(frame.pc + 1 + n)
  /\ UNCHANGED <<fixed, top, tables, globals, output, status>>

\* From the head of the list to the first upvalue below level.
upvalue_close(level) ==
  LET closing == {i \in DOMAIN open : \A j \in 1..i : upvalues[open[j]].slot >= level}
      gone == {open[i] : i \in closing}
  IN  /\ open' = SubSeq(open, Cardinality(closing) + 1, Len(open))
      /\ upvalues' = [u \in DOMAIN upvalues |->
                        IF u \in gone THEN [slot |-> 0, closed |-> stack[upvalues[u].slot]]
                        ELSE upvalues[u]]

Close ==
  /\ Executes({"CLOSE"})
  /\ upvalue_close(Slot(inst.a))
  /\ Step
  /\ UNCHANGED <<fixed, stack, top, closures, tables, globals, output, status, stray>>

\* vm_call_fini: the results replace the function, filled up with nil.  A for
\* loop goes on if the first of them is not nil.
Return ==
  /\ Executes({"RETURN"})
  /\ upvalue_close(frame.base + 1)
  /\ LET n == IF inst.b = VARARG THEN top - frame.base ELSE inst.b
         wanted == IF frame.to_return = VARARG THEN n ELSE frame.to_return
         moved == [i \in DOMAIN stack |->
                     LET k == i - frame.base
                     IN  IF k \in 0..(n - 1) THEN R(inst.a + k)
                         ELSE IF k \in n..(wanted - 1) THEN Nil ELSE stack[i]]
         first == moved[frame.base]
         goesOn == first # Nil
         code == ChunkAt(closures[Caller.closure].path).code
         after == IF goesOn THEN Caller.pc + 1 + code[Caller.pc + 1].b ELSE Caller.pc + 1
     IN  /\ stray' = (stray \/ (inst.b = VARARG /\ inst.a > 0 /\ frame.to_return = VARARG))
         /\ IF Len(frames) = 1
            THEN frames' = <<>> /\ status' = "ended" /\ UNCHANGED <<stack, top>>
            ELSE /\ UNCHANGED status
                 /\ top' = IF frame.to_return = VARARG THEN frame.base + n - 1
                           ELSE WindowEnd(Caller)
                 /\ IF frame.for_in
                    THEN /\ frames' = [Front(frames) EXCEPT ![Len(frames) - 1].pc = after]
                         /\ stack' = IF goesOn THEN [moved EXCEPT ![frame.base - 1] = first]
                                     ELSE moved
                    ELSE frames' = Front(frames) /\ stack' = moved
  /\ UNCHANGED <<fixed, closures, tables, globals, output>>

-----------------------------------------------------------------------------
Compiled(c) ==
  /\ main = Chunk(c)
  /\ verdict = [failed |-> c.failed, departs |-> c.departs]

Init ==
  /\ program \in DOMAIN Programs
  /\ Compiled(parser_program(Programs[program]))
  /\ status = IF verdict.failed = {} /\ verdict.departs \cap Avoided = {} THEN "running"
              ELSE "refused"
  /\ frames = <<[closure |-> 1, base |-> 1, pc |-> 0, to_return |-> 0, for_in |-> FALSE]>>
  /\ stack = [i \in 1..StackSize |-> IF i = 1 THEN Function(1) ELSE Nil]
  /\ top = 1 + main.stack_used
  /\ open = <<>> /\ upvalues = <<>> /\ tables = <<>>
  /\ closures = <<[path |-> <<>>, upvalues |-> <<>>]>>
  /\ globals = [x \in {"print"} |-> PrintFunction]
  /\ output = <<>> /\ stray = FALSE

Next ==
  \/ Move \/ Constant \/ LoadNil \/ LoadBool \/ GetGlobal \/ SetGlobal
  \/ NewTable \/ GetTable \/ SetTable \/ SetArray \/ GetUpvalue \/ SetUpvalue
  \/ Arithmetics \/ Unm \/ Not \/ Size \/ Concat
  \/ Comparisons \/ TestJump \/ TestSet \/ Jump \/ ForPrep \/ ForLoop
  \/ Call \/ ForIn \/ Self \/ NewClosure \/ Close \/ Return

\* The process runs on as long as it can.
Spec == Init /\ [][Next]_vars /\ WF_vars(Next)

-----------------------------------------------------------------------------
(* Properties *)

\* The frames lie one above the other in the stack, and the open upvalues are
\* exactly those on the list, each for a slot of its own.  The highest is first,
\* unless variables were captured in another order.
TypeOK ==
  /\ status \in {"running", "ended", "error", "refused"}
  /\ frames = <<>> <=> status = "ended"
  /\ top \in 0..StackSize
  /\ \A i \in 2..Len(frames) :
       frames[i].base \in (frames[i - 1].base + 1)..WindowEnd(frames[i - 1])
  /\ \A f \in DOMAIN frames :
       frames[f].closure \in DOMAIN closures /\ WindowEnd(frames[f]) <= StackSize
  /\ {u \in DOMAIN upvalues : upvalues[u].slot # 0} = {open[i] : i \in DOMAIN open}
  /\ ~stray => \A i \in 2..Len(open) : upvalues[open[i]].slot < upvalues[open[i - 1]].slot

\* A program does what it means: it prints the same values in the same order and
\* ends or fails likewise, whatever registers, jumps and windows the compiler
\* chose for it.
OutcomeIsMeaning ==
  [][status' \in {"ended", "error"} /\ ~stray' =>
       [output |-> output', status |-> status'] = Outcome(Programs[program])]_vars

\* The assertions of the register allocator hold for every program whose code
\* departs from the language nowhere: a register freed is the last one reserved,
\* locals are below temporaries, and the operands of .. are adjacent.
AllocatorAsserts ==
  verdict.departs \cap Avoided = {} =>
    verdict.failed \cap {"Register cannot be popped", "registers of locals", "operands of .."}
      = {}

\* The registers an instruction uses besides those that a, b and c name.
Registers(ip) ==
  LET rk(i) == IF reg_is_k(i) THEN {} ELSE {i}
      upTo(n) == IF n = VARARG THEN {ip.a} ELSE ip.a..(ip.a + n)
  IN  CASE ip.op \in {"JUMP"} -> {}
        [] ip.op \in {"EQ", "LT", "LEQ"} -> rk(ip.b) \cup rk(ip.c)
        [] ip.op \in Arithmetic -> {ip.a} \cup rk(ip.b) \cup rk(ip.c)
        [] ip.op = "GET_TABLE" -> {ip.a, ip.b} \cup rk(ip.c)
        [] ip.op = "SET_TABLE" -> {ip.a} \cup rk(ip.b) \cup rk(ip.c)
        [] ip.op = "SELF"      -> {ip.a + 1, ip.b} \cup rk(ip.c)
        [] ip.op \in {"MOVE", "UNM", "NOT", "LEN", "NIL", "TEST_SET"} -> {ip.a, ip.b}
        [] ip.op = "CONCAT"    -> {ip.a, ip.b, ip.c}
        [] ip.op = "SET_ARRAY" -> upTo(ip.b)
        [] ip.op = "CALL"      -> upTo(ip.b) \cup upTo(IF ip.c = VARARG THEN VARARG ELSE ip.c - 1)
        [] ip.op \in {"FOR_PREP", "FOR_LOOP"} -> upTo(3)
        [] ip.op = "FOR_IN"    -> upTo(5) \cup upTo(2 + ip.c)
        [] ip.op = "RETURN"    -> IF ip.b = VARARG THEN {} ELSE ip.a..(ip.a + ip.b - 1)
        [] ip.op = "CLOSE"     -> {}
        [] OTHER -> {ip.a}

\* Frames are in their place (TypeOK), and what an instruction names is there when it
\* runs: its registers are inside the window that stack_used reserved for the
\* function, its constants in the chunk, and the jump that follows a test or is one
\* stays in the function.
FrameFits ==
  /\ TypeOK
  /\ status = "running" =>
      /\ frame.pc < Len(chunk_now.code)
      /\ \A r \in Registers(inst) : r < chunk_now.stack_used
      /\ inst.op \in {"CONSTANT", "GET_GLOBAL", "SET_GLOBAL"} => inst.b < Len(chunk_now.constants)
      /\ inst.op \in {"EQ", "LT", "LEQ", "TEST", "TEST_SET", "FOR_IN"} =>
           chunk_now.code[frame.pc + 2].op = "JUMP"
      /\ inst.op \in {"JUMP", "FOR_PREP", "FOR_LOOP"} =>
           JumpTarget(frame.pc) \in 0..(Len(chunk_now.code) - 1)

\* Every program that runs comes to its end: no jump leads back to itself.
Ends == <>(status # "running")

=============================================================================

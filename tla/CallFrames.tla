----------------------------- MODULE CallFrames -----------------------------
(***************************************************************************)
(* The call protocol of vm.cpp and the C API: call frames, their windows   *)
(* on the one stack of values, how arguments and results are handed over   *)
(* and how an error unwinds.                                               *)
(*                                                                         *)
(* A program is any sequence of the actions below.  Instructions and API   *)
(* functions that only compute values are Load and SetTop.  Any value may  *)
(* be the function of a call: which function it is, is chosen at the call. *)
(* That what is called is a function at all was checked before.            *)
(***************************************************************************)
EXTENDS Integers, Sequences, FiniteSets, FiniteSetsExt

CONSTANTS
  NSlots,    \* MAX_STACK
  MaxFrames, \* the capacity of L->frames
  StackMin,  \* LULU_STACK_MIN, the slots a C function may use
  StackUsed, \* what chunk->stack_used may be
  HostMax,   \* bound on the values the host program pushes
  MaxParams, \* bound on the parameters of a Lua function
  MaxResults, \* bound on a fixed number of results
  VARARG,    \* as many arguments or results as there are
  Value,
  Nil,       \* the value nil, and no vm_pcall
  Err        \* an error message

Slot == 0 .. NSlots - 1

ASSUME CallFramesAssumption ==
  /\ NSlots \in Nat /\ MaxFrames \in Nat /\ StackMin \in Nat
  /\ HostMax \in Nat /\ HostMax < NSlots
  /\ IsFiniteSet(StackUsed) /\ StackUsed \subseteq Nat /\ StackUsed # {}
  /\ MaxResults \in Nat /\ MaxParams \in Nat
  /\ VARARG \notin Nat /\ Value # {} /\ {Nil, Err} \cap Value = {}
  /\ Nil \notin Nat \cup [cf : Nat, base : Slot, top : Slot, host : BOOLEAN]

VARIABLES
  stack,  \* L->stack
  frames, \* L->frames, and of each frame what its caller knows: see Frame
  window, \* L->window: its first slot and its length
  live,   \* of the running Lua function: its registers in use
  open,   \* it has just received VARARG results, from register live on
  leaked, \* L->frames has a frame though only the host program runs
  strays  \* history: what has happened that call conventions do not foresee

vars == <<stack, frames, window, live, open, leaked, strays>>

\* A Call_Frame: kind is that of the function, the window is base and len.  The
\* rest is on the C stack or in the caller's code: by is what made the call,
\* keep how many values of the caller are not part of it, out the slot for the
\* result of a metamethod, resume the local `base` of lulu_call, and catch are
\* the locals of the vm_pcall around it.
Frame(kind, base, len, to_return, how) ==
  [kind |-> kind, base |-> base, len |-> len, to_return |-> to_return, how |-> how]

How(by, keep, out, resume, catch) ==
  [by |-> by, keep |-> keep, out |-> out, resume |-> resume, catch |-> catch]

caller == frames[Len(frames)]

\* The host program runs when no frame is its own: L->caller is null, or left
\* over from an error.
InHost == Len(frames) = IF leaked THEN 1 ELSE 0
InC    == IF InHost THEN TRUE ELSE caller.kind = "C"
InLua  == ~InC

\* vm_save_top: the first slot above the window.
top == window.base + window.len

\* What the stack holds at a slot; beyond its end is no value of the program.
At(s) == IF s \in Slot THEN stack[s] ELSE Err

Window(base, end) == [base |-> base, len |-> end - base]

Stray(what, happened) == IF happened THEN strays \cup {what} ELSE strays

-----------------------------------------------------------------------------
(* Errors *)

\* set_error_object, in the vm_pcall with the locals of c: the message goes to
\* its top, the frame of its caller is the last.  frame_index(nullptr) is 0, so
\* from the host program one frame is left, whichever was there.
Caught(c, st) ==
  /\ stack' = [st EXCEPT ![c.top] = Err]
  /\ frames' = SubSeq(frames, 1, c.cf + 1)
  /\ window' = Window(c.base, c.top + 1)
  /\ leaked' = (leaked \/ c.host)
  /\ strays' = Stray("leaked", c.host)
  /\ live' = 0 /\ open' = FALSE

\* The innermost vm_pcall.
Handlers == {i \in DOMAIN frames : frames[i].how.catch # Nil}

Throw ==
  /\ Handlers # {}
  /\ Caught(frames[Max(Handlers)].how.catch, stack)

\* Mutant: the base that is restored after an error is the top.
PCall_Mutant_swaps == [cf |-> IF Len(frames) = 0 THEN 0 ELSE Len(frames) - 1,
                       base |-> top, top |-> top, host |-> InHost]

\* The locals of a vm_pcall that starts now.
PCall == [cf |-> IF Len(frames) = 0 THEN 0 ELSE Len(frames) - 1,
          base |-> window.base, top |-> top, host |-> InHost]

-----------------------------------------------------------------------------
(* vm_call_init *)

\* frame_push, before it takes a frame.
FrameLeft == Len(frames) < MaxFrames

\* Mutant: a frame may end with the last slot.
StackHas_Mutant_off_by_one(n, w) == w.base + w.len + n <= NSlots

\* vm_check_stack, w being L->window.
StackHas(n, w) == w.base + w.len + n < NSlots

\* vm_call copies the window of a C function to its frame, an OP_CALL does not.
Noted(w, how) ==
  IF how.by # "op" /\ Len(frames) > 0 /\ caller.kind = "C"
  THEN [frames EXCEPT ![Len(frames)] = [@ EXCEPT !.base = w.base, !.len = w.len]]
  ELSE frames

\* Mutant: missing parameters are not set to nil.
StartNil_Mutant_locals_only(base, stack_used, n_params, n_args) == base + n_params

\* Where call_init_lua starts to fill with nil.  For VARARG it counts the window
\* of the function to be called, not the arguments.
StartNil(base, stack_used, n_params, n_args) ==
  LET extra == n_params - IF n_args = VARARG THEN stack_used ELSE n_args
  IN  base + n_params - Max({extra, 0})

\* overflow_error: caught by the vm_pcall of this very call, or further out.
\* vm_runtime_error needs a caller to blame.
overflow_error(st, how) ==
  /\ Len(frames) > 0
  /\ IF how.catch # Nil THEN Caught(how.catch, st)
     ELSE Handlers # {} /\ Caught(frames[Max(Handlers)].how.catch, st)

frame_push(frame, w) ==
  /\ frames' = Append(Noted(w, frame.how), frame)
  /\ window' = Window(frame.base, frame.base + frame.len)
  /\ open' = FALSE
  /\ UNCHANGED leaked

call_init_c(f, n_args, n_rets, st, w, how) ==
  LET base == f + 1
      end  == IF n_args = VARARG THEN w.base + w.len ELSE base + n_args
  IN  /\ StackHas(StackMin, w) /\ FrameLeft
      /\ stack' = st
      /\ frame_push(Frame("C", base, end - base, n_rets, how), w)
      /\ live' = 0
      /\ strays' = strays

call_init_lua(f, stack_used, n_params, n_args, n_rets, st, w, how) ==
  LET base   == f + 1
      start  == StartNil(base, stack_used, n_params, n_args)
      filled == [s \in Slot |-> IF start <= s /\ s < base + stack_used THEN Nil ELSE st[s]]
      given  == IF n_args = VARARG THEN w.base + w.len - base ELSE n_args
  IN  /\ StackHas(stack_used, w)
      /\ \/ /\ FrameLeft
            /\ stack' = filled
            /\ frame_push(Frame("Lua", base, stack_used, n_rets, how), w)
            /\ live' = n_params
            /\ strays' = Stray("missing", n_args = VARARG /\ given < n_params)
         \/ ~FrameLeft /\ overflow_error(filled, how)

\* A call of the function in slot f, whichever that is, with stack and window as
\* the caller left them.  A function needs more slots than there are, or it is C
\* and there is no frame for it.
vm_call_init(f, n_args, n_rets, st, w, how) ==
  \/ /\ ~(FrameLeft /\ StackHas(Max({StackMin} \cup StackUsed), w))
     /\ overflow_error(st, how)
  \/ call_init_c(f, n_args, n_rets, st, w, how)
  \/ \E u \in StackUsed : \E p \in 0 .. Min({MaxParams, u}) :
       call_init_lua(f, u, p, n_args, n_rets, st, w, how)

-----------------------------------------------------------------------------
(* vm_call_fini and what follows it in the caller *)

\* frame_pop, without the window.
frame_pop == SubSeq(frames, 1, Len(frames) - 1)

\* The n results, from slot first on, go to where the function was.  All are
\* copied, wanted or not, and nil is put for those missing.
vm_call_fini(first, n) ==
  LET dst    == window.base - 1
      want   == caller.to_return
      how    == caller.how
      len    == IF want = VARARG THEN n ELSE Max({n, want})
      moved  == [s \in Slot |-> IF dst <= s /\ s < dst + n THEN At(first + s - dst)
                                ELSE IF dst <= s /\ s < dst + len THEN Nil
                                ELSE stack[s]]
      below  == frame_pop[Len(frame_pop)]
      popped == IF frame_pop = <<>> THEN Window(dst, dst + len)
                ELSE IF want = VARARG THEN Window(below.base, dst + len)
                ELSE Window(below.base, below.base + below.len)
      toLua  == frame_pop # <<>> /\ below.kind = "Lua" /\ ~(leaked /\ Len(frame_pop) = 1)
  IN  /\ frames' = frame_pop
      \* lulu_call restores its window; vm_call_mt_res moves the result.
      /\ window' = IF how.by = "api" /\ want # VARARG
                   THEN Window(how.resume, dst + want) ELSE popped
      /\ stack' = IF how.by = "meta" /\ want = 1
                  THEN [moved EXCEPT ![how.out] = moved[dst]] ELSE moved
      /\ open' = (toLua /\ want = VARARG)
      /\ live' = IF ~toLua THEN 0
                 ELSE IF how.by = "meta" \/ want = VARARG THEN how.keep
                 ELSE how.keep + want
      /\ UNCHANGED leaked

\* To the host program vm_call_fini hands a window that starts at the function's
\* slot.  One that C code gets back after a metamethod still has the call in it.
Misfit ==
  LET host == Len(frames) = 1
  IN  {s \in {"host", "grown"} :
         \/ s = "host" /\ host /\ caller.to_return = VARARG /\ window.base - 1 > 0
         \/ s = "host" /\ host /\ caller.how.by = "meta"
         \/ s = "grown" /\ ~host /\ frames[Len(frames) - 1].kind = "C"
              /\ caller.how.by = "meta"}

\* vm_call_mt_res and vm_call_mt_newindex: a metamethod is called above the
\* window with copies of the values in the slots args; its result goes to out.
Metamethod(args, n_rets, out, keep) ==
  LET f == CHOOSE x \in Value : TRUE
      n == Len(args)
      pushed == [s \in Slot |-> IF s = top THEN f
                                ELSE IF s \in top + 1 .. top + n THEN At(args[s - top])
                                ELSE stack[s]]
  IN  IF StackHas(n + 1, window)
      THEN vm_call_init(top, n, n_rets, pushed, [window EXCEPT !.len = @ + n + 1],
                        How("meta", keep, out, Nil, Nil))
      ELSE overflow_error(stack, How("meta", keep, out, Nil, Nil))

-----------------------------------------------------------------------------
(* Lua functions *)

R(i) == window.base + i

\* An instruction that puts a value in the next register.
Load(x) ==
  /\ InLua /\ ~open /\ live < caller.len
  /\ stack' = [stack EXCEPT ![R(live)] = x]
  /\ live' = live + 1
  /\ UNCHANGED <<frames, window, open, leaked, strays>>

\* The end of a block or an expression: registers are free again.
Free(n) ==
  /\ InLua /\ ~open /\ n < live
  /\ live' = n
  /\ UNCHANGED <<stack, frames, window, open, leaked, strays>>

\* OP_CALL of the function in register a.  With VARARG results just received
\* these are its last arguments.
OpCall(a, n_args, n_rets) ==
  /\ InLua /\ a < live
  /\ IF open THEN n_args = VARARG ELSE n_args = live - a - 1
  /\ a + (IF n_rets = VARARG THEN 0 ELSE n_rets) <= caller.len
  /\ vm_call_init(R(a), n_args, n_rets, stack, window, How("op", a, Nil, Nil, Nil))

\* OP_FOR_IN: copies of the generator, the state and the control variable, in
\* the three registers from a on, are called.
OpForIn(a, n_vars) ==
  LET base == R(a + 3)
  IN  /\ InLua /\ ~open /\ live = a + 3
      /\ a + 6 <= caller.len /\ a + 3 + n_vars <= caller.len
      /\ vm_call_init(base, 2, n_vars,
           [s \in Slot |-> IF base <= s /\ s < base + 3 THEN stack[s - 3] ELSE stack[s]],
           Window(window.base, base + 3),
           How("op", live, Nil, Nil, Nil))

\* OP_SET_ARRAY with VARARG results for the table in register a.  The table's
\* contents are not modelled, the window stays as the call left it.
OpSetArray(a) ==
  /\ InLua /\ open /\ a < live
  /\ live' = a + 1
  /\ open' = FALSE
  /\ strays' = Stray("window", window.len < caller.len)
  /\ UNCHANGED <<stack, frames, window, leaked>>

\* OP_RETURN of registers from a on.  For VARARG the number is the length of the
\* window, whatever a is.
OpReturn(a, n_rets) ==
  /\ InLua
  /\ IF open THEN a <= live /\ n_rets = VARARG ELSE a <= live /\ n_rets = live - a
  /\ vm_call_fini(R(a), IF open THEN window.len ELSE n_rets)
  /\ strays' = Misfit \cup Stray("returned", open /\ a > 0)

\* An instruction whose operands have a metamethod for it, R(a) := R(a) op R(last),
\* and an assignment R(a)[R(last)] := R(last) that __newindex handles.
OpMeta(a) ==
  /\ InLua /\ ~open /\ a < live
  /\ Metamethod(<<R(a), R(live - 1)>>, 1, R(a), live)

OpNewindex(a) ==
  /\ InLua /\ ~open /\ a < live
  /\ Metamethod(<<R(a), R(live - 1), R(live - 1)>>, 0, Nil, live)

-----------------------------------------------------------------------------
(* C functions, and the host program *)

\* A C function keeps within the slots it was given.
MayPush(n) == window.len + n <= IF InHost THEN HostMax ELSE StackMin

\* lulu_set_top, lulu_pop, lulu_push_nil
SetTop(n) ==
  /\ InC /\ MayPush(n - window.len)
  /\ stack' = [s \in Slot |-> IF top <= s /\ s < window.base + n THEN Nil ELSE stack[s]]
  /\ window' = [window EXCEPT !.len = n]
  /\ UNCHANGED <<frames, live, open, leaked, strays>>

Push(x) ==
  /\ InC /\ MayPush(1)
  /\ stack' = [stack EXCEPT ![top] = x]
  /\ window' = [window EXCEPT !.len = @ + 1]
  /\ UNCHANGED <<frames, live, open, leaked, strays>>

\* lulu_call, and lulu_pcall when protected.
lulu_call(n_args, n_rets, protected) ==
  /\ InC /\ n_args < window.len
  /\ MayPush(IF protected THEN 1 ELSE 0)
  /\ MayPush(IF n_rets = VARARG THEN 0 ELSE n_rets - n_args - 1)
  /\ vm_call_init(top - n_args - 1, n_args, n_rets, stack, window,
       How("api", window.len - n_args - 1, Nil, window.base, IF protected THEN PCall ELSE Nil))

\* lulu_cpcall: pushes the C function and its argument after vm_pcall began.
lulu_cpcall(f, x) ==
  LET how    == How("api", window.len, Nil, window.base, PCall)
      pushed == [stack EXCEPT ![top] = f, ![top + 1] = x]
      w      == [window EXCEPT !.len = @ + 2]
  IN  /\ InC /\ (InHost \/ MayPush(2))
      /\ \/ ~(FrameLeft /\ StackHas(StackMin, w)) /\ overflow_error(pushed, how)
         \/ call_init_c(top, 1, 0, pushed, w, how)

ReturnC(n) ==
  /\ InC /\ ~InHost /\ n <= window.len
  /\ vm_call_fini(IF n > 0 THEN top - n ELSE window.base - 1, n)
  /\ strays' = strays \cup Misfit

\* lulu_get_table, of a table at t with an __index function: the key on top is
\* replaced by the value.
lulu_get_table(t) ==
  /\ InC /\ window.len > 0 /\ t \in window.base .. top - 1
  /\ Metamethod(<<t, top - 1>>, 1, top - 1, window.len)

-----------------------------------------------------------------------------

\* lulu_open has returned.
Init ==
  /\ stack = [s \in Slot |-> Nil]
  /\ frames = <<>>
  /\ window = Window(0, 0)
  /\ live = 0
  /\ open = FALSE
  /\ leaked = FALSE
  /\ strays = {}

Register == 0 .. Max(StackUsed) - 1
Results  == 0 .. MaxResults \cup {VARARG}

LuaNext ==
  \/ \E x \in Value : Load(x)
  \/ \E n \in Register : Free(n)
  \/ \E a \in Register, n_args \in Register \cup {VARARG}, n_rets \in Results :
       OpCall(a, n_args, n_rets)
  \/ \E a \in Register, n_vars \in 1 .. MaxResults : OpForIn(a, n_vars)
  \/ \E a \in Register : OpSetArray(a)
  \/ \E a \in 0 .. Max(StackUsed), n_rets \in 0 .. Max(StackUsed) \cup {VARARG} :
       OpReturn(a, n_rets)
  \/ \E a \in Register : OpMeta(a) \/ OpNewindex(a)

CNext ==
  \/ \E n \in 0 .. StackMin : SetTop(n)
  \/ \E x \in Value : Push(x)
  \/ \E n_args \in 0 .. StackMin, n_rets \in Results, protected \in BOOLEAN :
       lulu_call(n_args, n_rets, protected)
  \/ \E f, x \in Value : lulu_cpcall(f, x)
  \/ \E n \in 0 .. StackMin : ReturnC(n)
  \/ \E t \in Slot : lulu_get_table(t)

Next == LuaNext \/ CNext \/ Throw

Spec == Init /\ [][Next]_vars

-----------------------------------------------------------------------------
(* Properties *)

HowType ==
  [by : {"op", "api", "meta"}, keep : Nat, out : Slot \cup {Nil}, resume : Slot \cup {Nil},
   catch : {Nil} \cup [cf : Nat, base : Slot, top : Slot, host : BOOLEAN]]

\* Every variable has its type, and there are no more frames than L->frames holds.
TypeOK ==
  /\ stack \in [Slot -> Value \cup {Nil, Err}]
  /\ frames \in Seq([kind : {"C", "Lua"}, base : Slot, len : 0 .. NSlots,
                     to_return : Nat \cup {VARARG}, how : HowType])
  /\ Len(frames) <= MaxFrames
  /\ window \in [base : Slot, len : 0 .. NSlots]
  /\ live \in 0 .. Max(StackUsed)
  /\ open \in BOOLEAN /\ leaked \in BOOLEAN
  /\ strays \subseteq {"missing", "returned", "window", "grown", "host", "leaked"}

Contents(from, end) == [i \in 1 .. end - from |-> At(from + i - 1)]

\* The values of the function of frame i: a function that waits for a call has
\* those that are not part of the call, a running one its registers in use, or
\* all that is in the window.
Values(i) ==
  Contents(frames[i].base,
        IF i < Len(frames) THEN frames[i].base + frames[i + 1].how.keep
        ELSE IF InC \/ open THEN top ELSE window.base + live)

HostValues == Contents(0, IF frames = <<>> THEN top ELSE frames[1].how.keep)

\* The activation of frame i.
Activation(i) ==
  LET how  == frames[i].how
      base == IF i = 1 THEN 0 ELSE frames[i - 1].base
  IN  [vals |-> Values(i), want |-> frames[i].to_return,
       into |-> IF how.out # Nil THEN how.out - base + 1 ELSE how.keep + 1,
       protected |-> IF how.catch = Nil THEN Nil
                     ELSE how.catch.top - (frames[i].base - 1)]

Activations ==
  <<[vals |-> HostValues, want |-> 0, into |-> 1, protected |-> Nil]>>
    \o [i \in DOMAIN frames |-> Activation(i)]

Call == INSTANCE Calls WITH acts <- Activations, All <- VARARG, None <- Nil

\* As long as no step departed from what call conventions foresee, windows and
\* frames behave as the activations of Calls: arguments and results are handed
\* over exactly, callers keep their values and errors unwind to the caller of the
\* innermost vm_pcall.
ImplementsCalls ==
  Call!Init /\ [][strays' = {} => [Call!Next]_Call!vars]_vars

\* There are no more frames than L->frames holds, there is always a slot for one
\* more value, the message of an error, and the windows of all frames are on the
\* stack, each above what its caller keeps (frame_push, vm_check_stack).
StackRoom ==
  /\ TypeOK
  /\ top < NSlots
  /\ \A i \in DOMAIN frames :
       /\ frames[i].base > 0 /\ frames[i].base + frames[i].len < NSlots
       /\ i > 1 => frames[i].base > frames[i - 1].base + frames[i].how.keep

\* Whenever a function runs, L->window is its own: after every return and every
\* caught error it starts where it did when the function was called, and that
\* of a Lua function covers all its registers again.
WindowRestored ==
  strays = {} /\ ~InHost =>
    /\ window.base = caller.base
    /\ InLua /\ ~open => window.len >= caller.len
=============================================================================

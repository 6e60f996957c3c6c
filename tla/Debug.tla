-------------------------------- MODULE Debug -------------------------------
(***************************************************************************)
(* What a runtime error says of the value that caused it (debug.cpp, and   *)
(* the locals of a chunk in chunk.cpp): the name is found by looking at    *)
(* the code again, after the fact.  Meaning knows what it should be.       *)
(***************************************************************************)
EXTENDS Machine

NoName == <<>>

\* The form of a bug: a local is there before it has a value.
chunk_get_local_Mutant_early(ch, number, at) ==
  LET live == {i \in DOMAIN ch.locals : at <= ch.locals[i].end_pc}
      nth == {i \in live : Cardinality({j \in live : j <= i}) = number}
  IN  IF nth = {} THEN NoName ELSE <<ch.locals[CHOOSE i \in nth : TRUE].ident>>

\* The local in a register, counted from 1, as the instruction at is executed: all
\* that started up to there and end there or later are counted.
chunk_get_local(ch, number, at) ==
  LET late(l) == l.start_pc > at
      stop == SelectInSeq(ch.locals, late)
      live == {i \in DOMAIN ch.locals : at <= ch.locals[i].end_pc /\ (stop = 0 \/ i < stop)}
      nth == {i \in live : Cardinality({j \in live : j <= i}) = number}
  IN  IF nth = {} THEN NoName ELSE <<ch.locals[CHOOSE i \in nth : TRUE].ident>>

\* The instructions that change R(A), by the table of modes (opinfo).
ChangesA == {"MOVE", "CONSTANT", "NIL", "BOOL", "GET_GLOBAL", "NEW_TABLE", "GET_TABLE",
             "SET_ARRAY", "GET_UPVALUE", "UNM", "NOT", "LEN", "CONCAT", "TEST_SET",
             "FOR_PREP", "FOR_LOOP", "CALL", "SELF", "CLOSURE"} \cup Arithmetic

\* The last instruction before at that changed a register, in the order of the
\* code, counted from 1; 0 if there is none.  Jumps are meant to be followed, but
\* the offset looked at is always 0.
last_change(ch, at, reg) ==
  LET changes(ip) == \/ ip.op \in ChangesA /\ ip.a = reg
                     \/ ip.op = "NIL" /\ reg \in ip.a..ip.b
  IN  SelectLastInSeq(SubSeq(ch.code, 1, at), changes)

get_variable_ip(ch, at, reg) ==
  LET last == last_change(ch, at, reg)
  IN  ch.code[IF last = 0 THEN Len(ch.code) ELSE last]

get_rk_name(ch, k) ==
  IF reg_is_k(k) /\ ch.constants[k - BIT_RK + 1][1] = "string"
  THEN ch.constants[k - BIT_RK + 1][2] ELSE "?"

\* A register that was copied from a lower one has the name of that one.
RECURSIVE get_obj_name(_, _, _)
get_obj_name(ch, at, reg) ==
  LET ident == chunk_get_local(ch, reg + 1, at)
      ip == get_variable_ip(ch, at, reg)
  IN  IF ident # NoName THEN <<"local", ident[1]>>
      ELSE CASE ip.op = "MOVE" /\ ip.b < ip.a -> get_obj_name(ch, at, ip.b)
             [] ip.op = "GET_GLOBAL" -> <<"global", ch.constants[ip.b + 1][2]>>
             [] ip.op = "GET_TABLE"  -> <<"field", get_rk_name(ch, ip.c)>>
             [] ip.op = "SELF"       -> <<"method", get_rk_name(ch, ip.c)>>
             [] OTHER -> NoName

\* The operand that the instruction which fails complains about, if it names one:
\* of two operands of arithmetic the second one when the first is a number.
Complaint ==
  LET joined == (inst.b)..(inst.c)
      wrong == {r \in joined : R(r)[1] \notin {"string", "number"}}
  IN  CASE inst.op \in {"GET_TABLE", "SELF", "UNM", "LEN"} -> {inst.b}
        [] inst.op = "SET_TABLE" -> {IF R(inst.a)[1] = "table" THEN inst.b ELSE inst.a}
        [] inst.op \in Arithmetic -> {IF RKv(inst.b)[1] = "number" THEN inst.c ELSE inst.b}
        [] inst.op = "CONCAT" -> {r \in wrong : \A q \in wrong : r <= q}
        [] inst.op = "CALL"   -> {inst.a}
        [] inst.op = "FOR_IN" -> {inst.a + 3}
        [] OTHER -> {}

\* debug_type_error: what is not in a register has no name.
debug_type_error ==
  LET named == {r \in Complaint : ~reg_is_k(r)}
  IN  IF named = {} THEN NoName ELSE get_obj_name(chunk_now, frame.pc, CHOOSE r \in named : TRUE)

-----------------------------------------------------------------------------
(* Where the name is known to be of something else *)

\* A local that ended just before the instruction still counts (chunk.cpp:93), and
\* the locals after it are counted one too far.
AtBoundary == \E i \in DOMAIN chunk_now.locals : chunk_now.locals[i].end_pc = frame.pc

\* A jump led past the last instruction that changed the register, as in the value
\* of an "and" or "or": which operand was left is not seen (debug.cpp:457).
Bypassed(reg) ==
  LET last == last_change(chunk_now, frame.pc, reg)
  IN  \E from \in 1..(last - 1) : /\ chunk_now.code[from].op = "JUMP"
                                  /\ JumpTarget(from - 1) \in last..(frame.pc)

\* An error that names a variable, field or method names one whose value was at
\* fault: the local that was in the register then, not one that was there before or
\* after it, and the global or field that the value at fault was read from.
CulpritNamed ==
  [][status' = "error" /\ debug_type_error # NoName
       /\ ~AtBoundary /\ (\A r \in Complaint : ~Bypassed(r)) =>
       debug_type_error \in Final(Programs[program]).culprits]_vars

=============================================================================

------------------------------ MODULE Compiler ------------------------------
(***************************************************************************)
(* The one-pass compiler (compiler.cpp): registers, jump lists and the     *)
(* instructions that expressions and variables become.  Parser drives it.  *)
(*                                                                         *)
(* A function of the source that changes the compiler c is an operator     *)
(* from c to c; one that also transforms an expression works on a pair r   *)
(* of c and the expression e.  Instructions are numbered from 0, as pc is  *)
(* in the source.                                                          *)
(***************************************************************************)
EXTENDS Integers, Sequences, SequencesExt, FiniteSets

CONSTANTS
  MAX_RK,            \* the last constant an operand can name, 255
  MAX_REG,           \* registers of a function, 250
  FIELDS_PER_FLUSH   \* array elements a constructor stores at once, 50

NO_JUMP == -1
NO_REG  == 255
BIT_RK  == 256
VARARG  == 511

ASSUME CompilerAssumption ==
  /\ MAX_RK \in 0..(BIT_RK - 1)
  /\ MAX_REG \in 2..(NO_REG - 5)
  /\ FIELDS_PER_FLUSH \in Nat \ {0}

-----------------------------------------------------------------------------
(* Values, as the constants of a chunk hold them *)

Nil        == <<"nil">>
Boolean(b) == <<"boolean", b>>
Number(n)  == <<"number", n>>
String(s)  == <<"string", s>>

-----------------------------------------------------------------------------
(* The compiler of one function *)

\* An expression on its way into a register: the lists of jumps taken when it is
\* true and false, and u, a number, pc, index or register, as the type says.
Expr(type, u) == [type |-> type, patch_true |-> NO_JUMP, patch_false |-> NO_JUMP, u |-> u]

NONE == Expr("NONE", 0)

\* level 0 is the main function, any other one has its enclosing compiler in
\* prev.  locals are all the locals there were, active the places in it of those that
\* are visible, pending the names of those not yet visible.  failed collects
\* the assertions that fail, which end the process, and the errors reported to
\* the program; departs those places where the code made differs from what the
\* language says, as the README lists them.
compiler_make(level, prev) ==
  [level |-> level, prev |-> prev, code |-> <<>>, constants |-> <<>>,
   children |-> <<>>, n_params |-> 0, stack_used |-> 2, block |-> <<>>,
   upvalues |-> <<>>, locals |-> <<>>, active |-> <<>>, pending |-> <<>>, free_reg |-> 0,
   last_target |-> NO_JUMP, failed |-> {}, departs |-> {}]

Check(c, condition, what) == IF condition THEN c ELSE [c EXCEPT !.failed = @ \cup {what}]

Departs(c, condition, what) == IF condition THEN [c EXCEPT !.departs = @ \cup {what}] ELSE c

pc(c) == Len(c.code)
get_code(c, at) == c.code[at + 1]

code_push(c, op, a, b, k) ==
  [c EXCEPT !.code = Append(@, [op |-> op, a |-> a, b |-> b, c |-> k])]
code_pop(c) == [c EXCEPT !.code = Front(@)]
set_a(c, at, a) == [c EXCEPT !.code[at + 1].a = a]
set_b(c, at, b) == [c EXCEPT !.code[at + 1].b = b]
set_c(c, at, k) == [c EXCEPT !.code[at + 1].c = k]

compiler_label_get(c) == [c EXCEPT !.last_target = pc(c)]

\* R(reg) to R(reg + n - 1) become nil.  The frame starts as nil, so that the
\* first instruction need not say so; the test for a jump target is inverted, and
\* a function that starts with a target makes it look at instruction -1, which
\* ends the process where indexes are checked and is undefined where they are not.
compiler_load_nil(c, reg, n) ==
  LET last == reg + n - 1
      new == code_push(c, "NIL", reg, last, 0)
      before == get_code(c, pc(c) - 1)
  IN  IF pc(c) > c.last_target
      THEN IF pc(c) = 0 /\ reg >= Len(c.active) THEN c ELSE new
      ELSE IF pc(c) = 0 THEN Check(new, FALSE, "Out of bounds index")
      ELSE IF before.op = "NIL" /\ before.a <= last /\ last > before.b
      THEN Departs(set_b(c, pc(c) - 1, last), TRUE, "nil folded at a jump target")
      ELSE new

\* add_constant: the same value has one index.
ConstantIndex(c, v) == SelectInSeq(c.constants, LAMBDA x : x = v) - 1
add_constant(c, v) ==
  IF \E i \in DOMAIN c.constants : c.constants[i] = v THEN c
  ELSE [c EXCEPT !.constants = Append(@, v)]

-----------------------------------------------------------------------------
(* Registers *)

reg_is_k(reg) == reg >= BIT_RK

\* The form of a bug: one register too many is let through.
compiler_check_stack_Mutant_one_more(c, n) ==
  IF c.free_reg + n > c.stack_used + 1
  THEN Check([c EXCEPT !.stack_used = c.free_reg + n], c.free_reg + n <= MAX_REG, "registers")
  ELSE c

compiler_check_stack(c, n) ==
  IF c.free_reg + n > c.stack_used
  THEN Check([c EXCEPT !.stack_used = c.free_reg + n], c.free_reg + n <= MAX_REG, "registers")
  ELSE c
compiler_reserve_reg(c, n) == [compiler_check_stack(c, n) EXCEPT !.free_reg = @ + n]

\* The form of a bug: the register of a local is freed as well.
pop_reg_Mutant_locals(c, reg) ==
  IF ~reg_is_k(reg) THEN [c EXCEPT !.free_reg = @ - 1] ELSE c

pop_reg(c, reg) ==
  IF ~reg_is_k(reg) /\ reg >= Len(c.active)
  THEN Check([c EXCEPT !.free_reg = @ - 1], c.free_reg - 1 = reg, "Register cannot be popped")
  ELSE c

pop_expr(c, e) == IF e.type = "DISCHARGED" THEN pop_reg(c, e.u) ELSE c

-----------------------------------------------------------------------------
(* Jump lists: a list is linked through the offsets of its jumps *)

jump_get(c, at) ==
  IF get_code(c, at).b = NO_JUMP THEN NO_JUMP ELSE at + 1 + get_code(c, at).b
jump_set(c, at, target) == set_b(c, at, target - (at + 1))

compiler_jump_new(c) == code_push(c, "JUMP", 0, NO_JUMP, 0)

\* The tests, which skip the jump that follows them (opinfo).
Test == {"EQ", "LT", "LEQ", "TEST", "TEST_SET", "FOR_PREP", "FOR_LOOP", "FOR_IN"}

jump_get_control(c, at) ==
  IF at >= 1 /\ get_code(c, at - 1).op \in Test THEN at - 1 ELSE at

RECURSIVE JumpEnd(_, _)
JumpEnd(c, at) == IF jump_get(c, at) = NO_JUMP THEN at ELSE JumpEnd(c, jump_get(c, at))

\* compiler_jump_add: the list and the compiler after another jump, or another
\* list, was appended.
JumpList(list, at) == IF list = NO_JUMP THEN at ELSE list
compiler_jump_add(c, list, at) ==
  IF at = NO_JUMP \/ list = NO_JUMP THEN c ELSE jump_set(c, JumpEnd(c, list), at)

\* The value of the test goes to reg, unless it is not wanted or already there.
test_reg_patch(c, at, reg) ==
  LET control == jump_get_control(c, at)
      ip == get_code(c, control)
  IN  IF ip.op # "TEST_SET" THEN c
      ELSE IF reg # NO_REG /\ reg # ip.b THEN set_a(c, control, reg)
      ELSE [c EXCEPT !.code[control + 1] =
              [op |-> "TEST", a |-> ip.b, b |-> 0, c |-> ip.c]]

RECURSIVE PatchList(_, _, _, _)
PatchList(c, at, target, reg) ==
  LET done == jump_set(test_reg_patch(c, at, reg), at, target)
      next == jump_get(c, at)
  IN  IF next = NO_JUMP THEN done ELSE PatchList(done, next, target, reg)

\* Every jump of the list goes to target, or to the next instruction.
compiler_jump_patch(c, list, target, reg) ==
  IF list = NO_JUMP THEN c
  ELSE IF target # NO_JUMP THEN PatchList(c, list, target, reg)
  ELSE PatchList(compiler_label_get(c), list, pc(c), reg)
PatchHere(c, list) == compiler_jump_patch(c, list, NO_JUMP, NO_REG)

RECURSIVE need_value(_, _)
need_value(c, list) ==
  list # NO_JUMP /\ \/ get_code(c, jump_get_control(c, list)).op # "TEST_SET"
                    \/ need_value(c, jump_get(c, list))

\* Whether a jump of the list leaves the value it tested.
RECURSIVE LeavesValue(_, _)
LeavesValue(c, list) ==
  list # NO_JUMP /\ \/ get_code(c, jump_get_control(c, list)).op = "TEST_SET"
                    \/ LeavesValue(c, jump_get(c, list))

jump_if(c, op, a, b, k) == compiler_jump_new(code_push(c, op, a, b, k))

jump_invert(c, at) ==
  LET control == jump_get_control(c, at)
  IN  set_a(c, control, 1 - get_code(c, control).a)

-----------------------------------------------------------------------------
(* Expressions and registers *)

Pair(c, e) == [c |-> c, e |-> e]
Retype(e, type, u) == [e EXCEPT !.type = type, !.u = u]

has_jumps(e) == e.patch_true # e.patch_false
has_multret(e) == e.type = "CALL"

compiler_set_returns(c, e, n) == IF e.type = "CALL" THEN set_c(c, e.u, n) ELSE c
compiler_set_one_return(r) ==
  IF r.e.type = "CALL"
  THEN Pair(set_c(r.c, r.e.u, 1), Retype(r.e, "DISCHARGED", get_code(r.c, r.e.u).a))
  ELSE r

\* A variable, element or call becomes an instruction whose register is open.
discharge_vars(r) ==
  LET emit(op, b, k) ==
        Pair(code_push(r.c, op, NO_REG, b, k), Retype(r.e, "RELOCABLE", pc(r.c)))
  IN  CASE r.e.type = "GLOBAL"  -> emit("GET_GLOBAL", r.e.u, 0)
        [] r.e.type = "LOCAL"   -> Pair(r.c, Retype(r.e, "DISCHARGED", r.e.u))
        [] r.e.type = "UPVALUE" -> emit("GET_UPVALUE", r.e.u, 0)
        [] r.e.type = "INDEXED" ->
             LET p == emit("GET_TABLE", r.e.u.reg, r.e.u.field_rk)
             IN  Pair(pop_reg(pop_reg(p.c, r.e.u.field_rk), r.e.u.reg), p.e)
        [] OTHER -> compiler_set_one_return(r)

\* A value that is no variable, by the instruction that puts it in reg.
ValueTo(r, reg) ==
  LET c == r.c
      e == r.e
      in(d) == Pair(d, Retype(e, "DISCHARGED", reg))
      k == add_constant(c, Number(e.u))
  IN  CASE e.type = "NIL"   -> in(compiler_load_nil(c, reg, 1))
        [] e.type = "FALSE" -> in(code_push(c, "BOOL", reg, 0, 0))
        [] e.type = "TRUE"  -> in(code_push(c, "BOOL", reg, 1, 0))
        [] e.type = "NUMBER" ->
             in(code_push(k, "CONSTANT", reg, ConstantIndex(k, Number(e.u)), 0))
        [] e.type = "CONSTANT"   -> in(code_push(c, "CONSTANT", reg, e.u, 0))
        [] e.type = "RELOCABLE"  -> in(set_a(c, e.u, reg))
        [] e.type = "DISCHARGED" ->
             in(IF e.u = reg THEN c ELSE code_push(c, "MOVE", reg, e.u, 0))
        [] OTHER -> r

discharge_to_reg(r, reg) == ValueTo(discharge_vars(r), reg)

discharge_any_reg(r) ==
  IF r.e.type = "DISCHARGED" THEN r
  ELSE discharge_to_reg(Pair(compiler_reserve_reg(r.c, 1), r.e), r.c.free_reg)

label_code(c, reg, b, do_jump) == code_push(compiler_label_get(c), "BOOL", reg, b, do_jump)

\* The jumps of the two lists end up behind the instructions that load false or
\* true, or just here.  If one of them needs true or false loaded, all of them go
\* there, those too whose value was already in reg.
JumpsToReg(c, true, false, isJump, reg) ==
  LET need == need_value(c, true) \/ need_value(c, false)
      over == IF isJump THEN c ELSE compiler_jump_new(c)
      loads == PatchHere(label_code(label_code(over, reg, 0, 1), reg, 1, 0),
                         IF isJump THEN NO_JUMP ELSE pc(c))
      lost == LeavesValue(c, true) \/ LeavesValue(c, false)
      load(i) == IF need THEN pc(over) + i ELSE NO_JUMP
  IN  IF true = false THEN c
      ELSE compiler_jump_patch(
             compiler_jump_patch(IF need THEN Departs(loads, lost, "value of a test") ELSE c,
                                 false, load(0), reg),
             true, load(1), reg)

\* The value of e, whichever of its jumps are taken, ends up in reg.  A comparison
\* is itself one more jump of its true list.
JumpsOf(r, reg) ==
  LET isJump == r.e.type = "JUMP"
  IN  Pair(JumpsToReg(IF isJump THEN compiler_jump_add(r.c, r.e.patch_true, r.e.u) ELSE r.c,
                      IF isJump THEN JumpList(r.e.patch_true, r.e.u) ELSE r.e.patch_true,
                      r.e.patch_false, isJump, reg),
           Expr("DISCHARGED", reg))
expr_to_reg(r, reg) == JumpsOf(discharge_to_reg(r, reg), reg)

ValueToFree(c, e) == expr_to_reg(Pair(compiler_reserve_reg(c, 1), e), c.free_reg)
ValueToNext(r) == ValueToFree(pop_expr(r.c, r.e), r.e)
compiler_expr_next_reg(r) == ValueToNext(discharge_vars(r))

\* A value in a register whose jumps are still open cannot be used as it is.
ValueToAny(r) ==
  IF r.e.type = "DISCHARGED" /\ ~has_jumps(r.e) THEN r
  ELSE compiler_expr_next_reg(
         Pair(Check(r.c, r.e.type # "DISCHARGED", "Expr with jumps"), r.e))
compiler_expr_any_reg(r) == ValueToAny(discharge_vars(r))

\* The operand that names e: a constant if its index fits, even when e may also
\* have the value of an operand of `and' or `or' it came from, whose jumps then
\* stay open.  true and false are taken for one another.
Literal == {"NIL", "FALSE", "TRUE", "NUMBER", "CONSTANT"}
OpenJumps(c, e) == Departs(c, has_jumps(e), "operand with jumps")

value_to_rk(r, v) ==
  LET indexed(c) == Pair(c, Retype(r.e, "CONSTANT", ConstantIndex(c, v)))
  IN  indexed(add_constant(r.c, v))
LiteralAsConstant(r) ==
  LET swapped == Pair(Departs(r.c, TRUE, "boolean operand"), r.e)
  IN  CASE r.e.type = "NIL"    -> value_to_rk(r, Nil)
        [] r.e.type = "FALSE"  -> value_to_rk(swapped, Boolean(TRUE))
        [] r.e.type = "TRUE"   -> value_to_rk(swapped, Boolean(FALSE))
        [] r.e.type = "NUMBER" -> value_to_rk(r, Number(r.e.u))
        [] OTHER -> r

IsOperand(e) == e.type = "CONSTANT" /\ e.u <= MAX_RK
RK(e) == IF IsOperand(e) THEN BIT_RK + e.u ELSE e.u
ValueToRK(r) ==
  IF IsOperand(r.e) THEN Pair(OpenJumps(r.c, r.e), r.e) ELSE compiler_expr_any_reg(r)
compiler_expr_rk(r) == ValueToRK(LiteralAsConstant(r))

-----------------------------------------------------------------------------
(* Operators.  Numbers are integers, and division is left out. *)

Arith(op, a, b) ==
  CASE op = "ADD" -> a + b
    [] op = "SUB" -> a - b
    [] op = "MUL" -> a * b

\* Both operands are named before either register is freed, the higher first.
Freed(c, left, right) ==
  [c |-> IF RK(right) > RK(left) THEN pop_expr(pop_expr(c, right), left)
         ELSE pop_expr(pop_expr(c, left), right),
   left |-> left, b |-> RK(left), k |-> RK(right)]
Both(l, right) == Freed(l.c, l.e, right)
AndLeft(r, left) == Both(compiler_expr_rk(Pair(r.c, left)), r.e)
Operands(c, left, right) == AndLeft(compiler_expr_rk(Pair(c, right)), left)

CodeArith(o, op) ==
  Pair(code_push(o.c, op, NO_REG, o.b, o.k), Retype(o.left, "RELOCABLE", pc(o.c)))
compiler_code_arith(c, op, left, right) ==
  IF left.type = "NUMBER" /\ right.type = "NUMBER"
  THEN Pair(OpenJumps(OpenJumps(c, left), right),
            [left EXCEPT !.u = Arith(op, left.u, right.u)])
  ELSE CodeArith(Operands(c, left, right), op)

\* A negated literal or comparison keeps its two lists as they were.
compiler_code_unary(op, r) ==
  LET e == r.e
      kept(u) == Pair(Departs(r.c, has_jumps(e), "not of jumps"), u)
      operator(c, u) == Pair(code_push(c, op, NO_REG, u.u, 0), Retype(u, "RELOCABLE", pc(c)))
      operand(p) == operator(pop_expr(p.c, p.e), p.e)
  IN  IF op = "UNM" /\ e.type = "NUMBER"
      THEN Pair(OpenJumps(r.c, e), [e EXCEPT !.u = -@])
      ELSE IF op = "NOT" /\ e.type \in {"NIL", "FALSE"} THEN kept([e EXCEPT !.type = "TRUE"])
      ELSE IF op = "NOT" /\ e.type \in Literal THEN kept([e EXCEPT !.type = "FALSE"])
      ELSE IF op = "NOT" /\ e.type = "JUMP"
      THEN Pair(jump_invert(kept(e).c, e.u), e)
      ELSE operand(compiler_expr_any_reg(r))

Compare(op, a, b) ==
  CASE op = "EQ"  -> a = b
    [] op = "LT"  -> a < b
    [] op = "LEQ" -> a <= b

\* cond is FALSE for ~=, > and >=: the last two swap their operands.
compiler_code_compare(c, op, cond, left, right) ==
  IF left.type = "NUMBER" /\ right.type = "NUMBER"
  THEN LET holds == IF op = "EQ" THEN Compare(op, left.u, right.u) = cond
                    ELSE IF cond THEN Compare(op, left.u, right.u)
                    ELSE Compare(op, right.u, left.u)
       IN  Pair(OpenJumps(OpenJumps(c, left), right),
                [left EXCEPT !.type = IF holds THEN "TRUE" ELSE "FALSE"])
  ELSE LET swap == ~cond /\ op # "EQ"
           a == IF cond \/ swap THEN 1 ELSE 0
           code(o) ==
             Pair(IF swap THEN jump_if(o.c, op, a, o.k, o.b) ELSE jump_if(o.c, op, a, o.b, o.k),
                  Retype(o.left, "JUMP", pc(o.c) + 1))
       IN  code(Operands(c, left, right))

\* a .. (b .. c) becomes one instruction over adjacent registers.
CodeConcat(left, r) == compiler_code_arith(r.c, "CONCAT", left, r.e)
compiler_code_concat(c, left, right) ==
  LET joined == Check(c, left.u = get_code(c, right.u).b - 1, "operands of ..")
  IN  IF right.type = "RELOCABLE" /\ get_code(c, right.u).op = "CONCAT"
      THEN Pair(set_b(pop_expr(OpenJumps(joined, right), left), right.u, left.u),
                Retype(left, "RELOCABLE", right.u))
      ELSE CodeConcat(left, compiler_expr_next_reg(Pair(c, right)))

-----------------------------------------------------------------------------
(* and, or and conditions *)

\* The jump taken when left decides the value, and left with it.
logical_target_get(r, cond) ==
  LET never == r.e.type \in Literal /\ (r.e.type \in {"NIL", "FALSE"}) # cond
      isNot == r.e.type = "RELOCABLE" /\ get_code(r.c, r.e.u).op = "NOT"
      operand == get_code(r.c, r.e.u).b
      jump(c, e) == [c |-> c, e |-> e, at |-> pc(c) - 1]
      test(p) ==
        jump(jump_if(pop_expr(p.c, p.e), "TEST_SET", NO_REG, p.e.u, IF cond THEN 0 ELSE 1), p.e)
  IN  IF never THEN [c |-> r.c, e |-> r.e, at |-> NO_JUMP]
      ELSE IF r.e.type = "JUMP"
      THEN [c |-> IF cond THEN jump_invert(r.c, r.e.u) ELSE r.c, e |-> r.e, at |-> r.e.u]
      ELSE IF isNot
      THEN jump(jump_if(code_pop(r.c), "TEST", operand, 0, IF cond THEN 1 ELSE 0), r.e)
      ELSE test(discharge_any_reg(r))

JumpLists(e, true, false) == [e EXCEPT !.patch_true = true, !.patch_false = false]

\* The list that decides gets the jump at, the other one ends here.
LeftDone(t, cond) ==
  LET mine  == IF cond THEN t.e.patch_false ELSE t.e.patch_true
      other == IF cond THEN t.e.patch_true ELSE t.e.patch_false
      list == IF t.at = NO_JUMP THEN mine ELSE JumpList(mine, t.at)
  IN  Pair(PatchHere(compiler_jump_add(t.c, mine, t.at), other),
           IF cond THEN JumpLists(t.e, NO_JUMP, list) ELSE JumpLists(t.e, list, NO_JUMP))
compiler_logical_new(r, cond) == LeftDone(logical_target_get(discharge_vars(r), cond), cond)

compiler_logical_patch(c, left, right, cond) ==
  LET list == IF cond THEN left.patch_false ELSE left.patch_true
      mine(e) == IF cond THEN e.patch_false ELSE e.patch_true
      all(e) == IF list = NO_JUMP THEN mine(e) ELSE JumpList(mine(e), list)
      joined(r) ==
        Pair(compiler_jump_add(r.c, mine(r.e), list),
             IF cond THEN JumpLists(r.e, r.e.patch_true, all(r.e))
             ELSE JumpLists(r.e, all(r.e), r.e.patch_false))
  IN  joined(discharge_vars(Pair(c, right)))

-----------------------------------------------------------------------------
(* Variables *)

\* Resets the registers of an expression's value once it was stored.
compiler_set_variable(c, var, expr) ==
  LET store(p, op, a, b, k) == pop_expr(code_push(p.c, op, a, b, k), p.e)
      fromReg(p) ==
        store(p, IF var.type = "GLOBAL" THEN "SET_GLOBAL" ELSE "SET_UPVALUE", p.e.u, var.u, 0)
      fromRK(p) == store(p, "SET_TABLE", var.u.reg, var.u.field_rk, RK(p.e))
      inLocal(p) == pop_expr(p.c, p.e)
  IN  CASE var.type \in {"GLOBAL", "UPVALUE"} -> fromReg(compiler_expr_any_reg(Pair(c, expr)))
        [] var.type = "INDEXED" -> fromRK(compiler_expr_rk(Pair(c, expr)))
        [] var.type = "LOCAL" -> inLocal(expr_to_reg(Pair(pop_expr(c, expr), expr), var.u))

compiler_code_return(c, reg, count) == code_push(c, "RETURN", reg, count, 0)

CodeSelf(t, key, func) ==
  Pair(pop_expr(code_push(key.c, "SELF", func, t.u, RK(key.e)), key.e),
       Retype(t, "DISCHARGED", func))
SelfAt(c, t, k) ==
  CodeSelf(t, compiler_expr_rk(Pair(compiler_reserve_reg(c, 2), k)), c.free_reg)
SelfOf(t, k) == SelfAt(pop_expr(t.c, t.e), t.e, k)
compiler_code_self(r, k) == SelfOf(compiler_expr_any_reg(r), k)

\* The register of the innermost visible local of that name, from limit up.
compiler_get_local(c, limit, ident) ==
  LET regs == {i \in limit..(Len(c.active) - 1) : c.locals[c.active[i + 1]].ident = ident}
  IN  IF regs = {} THEN NO_REG ELSE CHOOSE i \in regs : \A j \in regs : j <= i

Indexed(k, t) == Pair(k.c, Retype(t, "INDEXED", [reg |-> t.u, field_rk |-> RK(k.e)]))
compiler_get_table(r, t) == Indexed(compiler_expr_rk(r), t)

\* Elements up to n_array, the last to_store of which are in registers.
compiler_set_array(c, table_reg, n_array, to_store) ==
  [code_push(c, "SET_ARRAY", table_reg, to_store, (n_array - 1) \div FIELDS_PER_FLUSH)
     EXCEPT !.free_reg = table_reg + 1]

=============================================================================

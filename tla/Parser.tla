------------------------------- MODULE Parser -------------------------------
(***************************************************************************)
(* The parser (parser.cpp) as it drives the compiler: what each statement  *)
(* and each form of expression makes the compiler do, in which order.      *)
(* Recognising them in the source text is left out: a program is a tree    *)
(* of tuples <<"kind", ...>>, in the order in which the parser meets its   *)
(* parts:                                                                  *)
(*   expressions  nil, true, false, number n, string s, name id,           *)
(*     index t k, call f args, method t id args, function params body,     *)
(*     table items (each  item e  or  field k e), unary op e,              *)
(*     binary op l r                                                       *)
(*   statements  local ids es, localfunction id params body,               *)
(*     function var params body, assign vars es, call e, do b, while e b,  *)
(*     repeat b e, if clauses else, fornum id e e e b, forin ids es b,     *)
(*     return es, break                                                    *)
(* where clauses are pairs of a condition and a block, else a sequence of  *)
(* at most one block, and a block a sequence of statements.                *)
(***************************************************************************)
EXTENDS Compiler

-----------------------------------------------------------------------------
(* Variables *)

add_upvalue(c, index, type) ==
  LET info == [type |-> type, data |-> index]
  IN  IF \E i \in DOMAIN c.upvalues : c.upvalues[i] = info
      THEN [c |-> c, up |-> SelectInSeq(c.upvalues, LAMBDA x : x = info) - 1]
      ELSE [c |-> [c EXCEPT !.upvalues = Append(@, info)], up |-> Len(c.upvalues)]

\* The form of a bug: the first local of a block is taken for one outside it.
mark_upvalue_Mutant_outer(c, reg) ==
  LET b == SelectLastInSeq(c.block, LAMBDA x : x.n_locals < reg)
  IN  IF b > 1 THEN [c EXCEPT !.block[b].has_upvalue = TRUE] ELSE c

\* The block a captured register belongs to has to close it, unless it is the
\* whole function.
mark_upvalue(c, reg) ==
  LET b == SelectLastInSeq(c.block, LAMBDA x : x.n_locals <= reg)
  IN  IF b > 1 THEN [c EXCEPT !.block[b].has_upvalue = TRUE] ELSE c

RECURSIVE resolve_upvalue(_, _)
Through(c, r) ==
  IF r.up # NO_REG THEN add_upvalue([c EXCEPT !.prev = r.c], r.up, "UPVALUE")
  ELSE [c |-> c, up |-> NO_REG]
resolve_upvalue(c, ident) ==
  LET reg == compiler_get_local(c.prev, 0, ident)
  IN  IF c.level = 0 THEN [c |-> c, up |-> NO_REG]
      ELSE IF reg # NO_REG
      THEN add_upvalue([c EXCEPT !.prev = mark_upvalue(@, reg)], reg, "LOCAL")
      ELSE Through(c, resolve_upvalue(c.prev, ident))

constant_string(c, s) ==
  LET d == add_constant(c, String(s))
  IN  Pair(d, Expr("CONSTANT", ConstantIndex(d, String(s))))

GlobalVariable(k) == Pair(k.c, Expr("GLOBAL", k.e.u))
OuterVariable(c, r, ident) ==
  IF r.up # NO_REG THEN Pair(r.c, Expr("UPVALUE", r.up))
  ELSE GlobalVariable(constant_string(c, ident))
resolve_variable(c, ident) ==
  LET reg == compiler_get_local(c, 0, ident)
  IN  IF reg # NO_REG THEN Pair(c, Expr("LOCAL", reg))
      ELSE OuterVariable(c, resolve_upvalue(c, ident), ident)

-----------------------------------------------------------------------------
(* Blocks and locals *)

block_push(c, breakable) ==
  Check([c EXCEPT !.block = Append(@, [break_list |-> NO_JUMP, n_locals |-> Len(c.active),
                                       breakable |-> breakable, has_upvalue |-> FALSE])],
        c.free_reg = Len(c.active), "registers of locals")

\* The locals from the n-th on are no more.
end_locals(c, n) ==
  LET gone == {c.active[i] : i \in (n + 1)..Len(c.active)}
      ended(i) == IF i \in gone THEN [c.locals[i] EXCEPT !.end_pc = pc(c)] ELSE c.locals[i]
  IN  [c EXCEPT !.locals = [i \in DOMAIN @ |-> ended(i)]]

block_pop(c) ==
  LET b == Last(c.block)
      ended == end_locals(c, b.n_locals)
      closed == IF b.has_upvalue THEN code_push(ended, "CLOSE", b.n_locals, 0, 0) ELSE ended
      left(d) == [d EXCEPT !.free_reg = b.n_locals, !.block = Front(@)]
  IN  Check(left(PatchHere([closed EXCEPT !.active = SubSeq(@, 1, b.n_locals)], b.break_list)),
            ~(b.breakable /\ b.has_upvalue), "block both breaks and controls scope")

local_push(c, ident) ==
  Check([c EXCEPT !.pending = Append(@, ident)],
        compiler_get_local(c, Last(c.block).n_locals, ident) = NO_REG \/ ident = "_",
        "shadowing")
local_push_all(c, idents) == FoldLeft(local_push, c, idents)

local_start(c, n) ==
  LET start(i) == [ident |-> c.pending[i], start_pc |-> pc(c), end_pc |-> 0]
  IN  [c EXCEPT !.locals = @ \o [i \in 1..n |-> start(i)],
                !.active = @ \o [i \in 1..n |-> Len(c.locals) + i],
                !.pending = SubSeq(@, n + 1, Len(@))]

PushUnlessNone(r) == IF r.e.type = "NONE" THEN r.c ELSE compiler_expr_next_reg(r).c

\* An expression list in front of n_vars targets: calls and nil fill it up.
assign_adjust(r, count, n_vars) ==
  LET extra == n_vars - count
      wanted == IF extra + 1 > 0 THEN extra + 1 ELSE 0
      called(c) == IF wanted > 1 THEN compiler_reserve_reg(c, wanted - 1) ELSE c
      filled(c) ==
        IF extra > 0
        THEN compiler_load_nil(compiler_reserve_reg(c, extra), c.free_reg, extra)
        ELSE c
  IN  IF has_multret(r.e) THEN called(compiler_set_returns(r.c, r.e, wanted))
      ELSE filled(PushUnlessNone(r))

break_statement(c) ==
  LET b == SelectLastInSeq(c.block, LAMBDA x : x.breakable)
      inner == {i \in DOMAIN c.block : i > b /\ c.block[i].has_upvalue}
      left(d, list) ==
        [compiler_jump_add(compiler_jump_new(d), list, pc(d)) EXCEPT
           !.block[b].break_list = JumpList(list, pc(d))]
  IN  IF b = 0 THEN Check(c, FALSE, "No block to 'break'")
      ELSE left(IF inner = {} THEN c ELSE code_push(c, "CLOSE", c.block[b].n_locals, 0, 0),
                c.block[b].break_list)

-----------------------------------------------------------------------------
(* Expressions *)

\* What a binary operator of the language is compiled to, and cond.
Opcode(op) ==
  CASE op = "NEQ" -> [op |-> "EQ",  cond |-> FALSE]
    [] op = "GT"  -> [op |-> "LT",  cond |-> FALSE]
    [] op = "GEQ" -> [op |-> "LEQ", cond |-> FALSE]
    [] OTHER -> [op |-> op, cond |-> TRUE]

Arithmetic == {"ADD", "SUB", "MUL"}
Comparison == {"EQ", "LT", "LEQ", "NEQ", "GT", "GEQ"}

\* A function that was compiled, and how much it needs.
Chunk(c) ==
  [code |-> c.code, constants |-> c.constants, children |-> c.children,
   n_params |-> c.n_params, stack_used |-> c.stack_used, n_upvalues |-> Len(c.upvalues),
   locals |-> c.locals]

function_close(c) == compiler_code_return(c, 0, 0)

\* The instructions after CLOSURE say where each upvalue comes from.
function_push(child) ==
  LET c == child.prev
      pushed == [code_push(c, "CLOSURE", NO_REG, Len(c.children), 0)
                   EXCEPT !.children = Append(@, Chunk(child)),
                          !.failed = @ \cup child.failed, !.departs = @ \cup child.departs]
      capture(d, info) ==
        code_push(d, IF info.type = "LOCAL" THEN "MOVE" ELSE "GET_UPVALUE", 0, info.data, 0)
  IN  Pair(FoldLeft(capture, pushed, child.upvalues), Expr("RELOCABLE", pc(c)))

RECURSIVE expression(_, _)
RECURSIVE expression_list(_, _)
RECURSIVE constructor(_, _, _)
RECURSIVE function_definition(_, _, _)
RECURSIVE chunk(_, _)

\* All but the last are pushed.
OtherExpressions(r, es) ==
  IF es = <<>> THEN r ELSE expression_list(compiler_expr_next_reg(r).c, es)
expression_list(c, es) ==
  IF es = <<>> THEN Pair(c, NONE) ELSE OtherExpressions(expression(c, es[1]), Tail(es))

\* f is on top of the registers: its arguments follow it.
function_call(c, base, es) ==
  LET call(d, count) ==
        Pair([code_push(d, "CALL", base, count, 1) EXCEPT !.free_reg = base + 1],
             Expr("CALL", pc(d)))
      counted(d) == call(d, d.free_reg - (base + 1))
      with(r) == IF has_multret(r.e) THEN call(compiler_set_returns(r.c, r.e, VARARG), VARARG)
                 ELSE counted(PushUnlessNone(r))
  IN  with(expression_list(c, es))

\* The right operand follows; what they make is the compiler's business.
CodeBinary(op, l, right) ==
  CASE op \in Arithmetic -> compiler_code_arith(right.c, op, l, right.e)
    [] op \in Comparison ->
         compiler_code_compare(right.c, Opcode(op).op, Opcode(op).cond, l, right.e)
    [] op = "CONCAT"        -> compiler_code_concat(right.c, l, right.e)
    [] op \in {"AND", "OR"} -> compiler_logical_patch(right.c, l, right.e, op = "AND")

\* The left operand as it has to be before the right one is looked at.
LeftOperand(op, r) ==
  CASE op \in Arithmetic -> IF r.e.type = "NUMBER" THEN r ELSE compiler_expr_rk(r)
    [] op \in Comparison -> IF r.e.type \in Literal THEN r ELSE compiler_expr_rk(r)
    [] op = "CONCAT"        -> compiler_expr_next_reg(r)
    [] op \in {"AND", "OR"} -> compiler_logical_new(r, op = "AND")

RightOperand(op, l, e) == CodeBinary(op, l.e, expression(l.c, e))
binary(r, op, e) == RightOperand(op, LeftOperand(op, r), e)

\* ctor is the constructor's table register, the element not yet pushed, and
\* how many there were and are waiting to be stored.
FieldStored(ctor, key, v, free) ==
  [code_push(v.c, "SET_TABLE", ctor.table, RK(key), RK(v.e)) EXCEPT !.free_reg = free]
FieldValue(ctor, key, e, free) ==
  FieldStored(ctor, key.e, compiler_expr_rk(expression(key.c, e)), free)
constructor_field(c, ctor, k, e) ==
  FieldValue(ctor, compiler_expr_rk(expression(c, k)), e, c.free_reg)

Flushed(c, ctor) ==
  IF ctor.to_store = FIELDS_PER_FLUSH
  THEN [c |-> compiler_set_array(c, ctor.table, ctor.n_array, ctor.to_store),
        ctor |-> [ctor EXCEPT !.value = NONE, !.to_store = 0]]
  ELSE [c |-> c, ctor |-> [ctor EXCEPT !.value = NONE]]
set_array(c, ctor) ==
  IF ctor.value.type = "NONE" THEN [c |-> c, ctor |-> ctor]
  ELSE Flushed(compiler_expr_next_reg(Pair(c, ctor.value)).c, ctor)

constructor_array_last(c, ctor) ==
  LET stored(d, count) == compiler_set_array(d, ctor.table, ctor.n_array, count)
  IN  IF ctor.to_store = 0 THEN c
      ELSE IF has_multret(ctor.value)
      THEN stored(compiler_set_returns(c, ctor.value, VARARG), VARARG)
      ELSE stored(PushUnlessNone(Pair(c, ctor.value)), ctor.to_store)

\* The next item: a field is stored at once, an element waits for what follows.
Waiting(r, ctor) ==
  [c |-> r.c, ctor |-> [ctor EXCEPT !.value = r.e, !.n_array = @ + 1, !.to_store = @ + 1]]
ConstructorItem(s, item) ==
  IF item[1] = "field"
  THEN [s EXCEPT !.c = constructor_field(s.c, s.ctor, item[2], item[3])]
  ELSE Waiting(expression(s.c, item[2]), s.ctor)
OtherItems(s, items) == constructor(s.c, s.ctor, items)
constructor(c, ctor, items) ==
  IF items = <<>> THEN Pair(constructor_array_last(c, ctor), Expr("DISCHARGED", ctor.table))
  ELSE OtherItems(ConstructorItem(set_array(c, ctor), Head(items)), Tail(items))

index(t, k) == compiler_get_table(expression(t.c, k), t.e)
call(f, es) == function_call(f.c, f.e.u, es)
MethodOf(k, t) == compiler_code_self(Pair(k.c, t), k.e)
method(r, ident, es) == call(MethodOf(constant_string(r.c, ident), r.e), es)
table(t, items) ==
  constructor(t.c, [table |-> t.e.u, value |-> NONE, n_array |-> 0, to_store |-> 0], items)

\* prefix_expr, primary_expr and expression.  When something has failed before, what
\* the rest would become is of no consequence.
expression(c, e) ==
  CASE c.failed # {}   -> Pair(c, Expr("LOCAL", 0))
    [] e[1] = "nil"    -> Pair(c, Expr("NIL", 0))
    [] e[1] = "true"   -> Pair(c, Expr("TRUE", 0))
    [] e[1] = "false"  -> Pair(c, Expr("FALSE", 0))
    [] e[1] = "number" -> Pair(c, Expr("NUMBER", e[2]))
    [] e[1] = "string" -> constant_string(c, e[2])
    [] e[1] = "name"   -> resolve_variable(c, e[2])
    [] e[1] = "index"  -> index(compiler_expr_any_reg(expression(c, e[2])), e[3])
    [] e[1] = "call"   -> call(compiler_expr_next_reg(expression(c, e[2])), e[3])
    [] e[1] = "method" -> method(expression(c, e[2]), e[3], e[4])
    [] e[1] = "function" -> function_definition(c, e[2], e[3])
    [] e[1] = "table"  ->
         table(compiler_expr_next_reg(Pair(code_push(c, "NEW_TABLE", NO_REG, 0, 0),
                                           Expr("RELOCABLE", pc(c)))),
               e[2])
    [] e[1] = "unary"  -> compiler_code_unary(e[2], expression(c, e[3]))
    [] e[1] = "binary" -> binary(expression(c, e[3]), e[2], e[4])

function_definition(enclosing, params, body) ==
  LET n == Len(params)
      open == block_push(compiler_make(enclosing.level + 1, enclosing), FALSE)
      begun == compiler_reserve_reg(local_start(local_push_all(open, params), n), n)
      c == chunk([begun EXCEPT !.n_params = n], body)
  IN  function_push(function_close(block_pop(c)))

-----------------------------------------------------------------------------
(* Statements *)

block(c, stats) == block_pop(chunk(block_push(c, FALSE), stats))

\* The jumps taken when the condition is false.
NotNil(e) == [e EXCEPT !.type = IF @ = "NIL" THEN "FALSE" ELSE @]
FalseJumps(r) == compiler_logical_new(Pair(r.c, NotNil(r.e)), TRUE)
condition(c, e) == FalseJumps(expression(c, e))

local_statement(c, idents, es) ==
  local_start(assign_adjust(expression_list(local_push_all(c, idents), es), Len(es), Len(idents)),
              Len(idents))

StoreIn(var, f) == compiler_set_variable(f.c, var, f.e)
local_function(c, ident, params, body) ==
  StoreIn(Expr("LOCAL", c.free_reg),
          function_definition(compiler_reserve_reg(local_start(local_push(c, ident), 1), 1),
                              params, body))

DefinedAs(var, params, body) == StoreIn(var.e, function_definition(var.c, params, body))
function_decl(c, e, params, body) == DefinedAs(expression(c, e), params, body)

\* The targets, as they are before anything is assigned.
RECURSIVE OtherTargets(_, _, _)
NextTarget(r, es, vars) == OtherTargets(r.c, Append(es, r.e), vars)
OtherTargets(c, es, vars) ==
  IF vars = <<>> THEN [c |-> c, es |-> es]
  ELSE NextTarget(expression(c, Head(vars)), es, Tail(vars))

\* A local that an element to its left is found through is assigned first.
Conflict(es) ==
  \E i, j \in DOMAIN es :
    /\ i < j /\ es[i].type = "INDEXED" /\ es[j].type = "LOCAL"
    /\ es[j].u \in {es[i].u.reg, es[i].u.field_rk}

\* From the last target to the first; tmp is the last value in a register.
assign_rest(c, es) ==
  FoldLeft(LAMBDA d, var :
             compiler_set_variable(d, var, Expr("DISCHARGED", d.free_reg - 1)),
           c, Reverse(es))

AssignLast(r, es) == assign_rest(compiler_set_variable(r.c, Last(es), r.e), Front(es))
AssignAll(c, es, extra) ==
  assign_rest([c EXCEPT !.free_reg = IF extra > 0 THEN @ - extra ELSE @], es)
AssignFrom(es, r, n) ==
  IF n = Len(es) THEN AssignLast(compiler_set_one_return(r), es)
  ELSE AssignAll(assign_adjust(r, n, Len(es)), es, n - Len(es))
AssignTo(t, exprs) ==
  AssignFrom(t.es,
             expression_list(Departs(t.c, Conflict(t.es), "assignment conflict"), exprs),
             Len(exprs))
assignment(c, vars, exprs) == AssignTo(OtherTargets(c, <<>>, vars), exprs)

Returned(c, r, n) ==
  IF has_multret(r.e)
  THEN compiler_code_return(compiler_set_returns(r.c, r.e, VARARG), Len(c.active), VARARG)
  ELSE compiler_code_return(compiler_expr_next_reg(r).c, c.free_reg, n)
return_statement(c, es) ==
  IF es = <<>> THEN compiler_code_return(c, c.free_reg, 0)
  ELSE Returned(c, expression_list(c, es), Len(es))

\* Each clause ends with a jump over the others, unless it is the last one.
RECURSIVE if_statement(_, _, _, _)
JumpOver(then, false, else_jump) ==
  PatchHere(compiler_jump_add(compiler_jump_new(then), else_jump, pc(then)), false)
LastClause(then, false, else_jump) ==
  PatchHere(compiler_jump_add(then, else_jump, false),
            IF false = NO_JUMP THEN else_jump ELSE JumpList(else_jump, false))
AfterClause(then, false, clauses, otherwise, else_jump) ==
  IF clauses # <<>>
  THEN if_statement(JumpOver(then, false, else_jump), clauses, otherwise,
                    JumpList(else_jump, pc(then)))
  ELSE IF otherwise # <<>>
  THEN PatchHere(block(JumpOver(then, false, else_jump), otherwise[1]),
                 JumpList(else_jump, pc(then)))
  ELSE LastClause(then, false, else_jump)
Clause(cond, clauses, otherwise, else_jump) ==
  AfterClause(block(cond.c, clauses[1][2]), cond.e.patch_false, Tail(clauses), otherwise, else_jump)
if_statement(c, clauses, otherwise, else_jump) ==
  Clause(condition(c, clauses[1][1]), clauses, otherwise, else_jump)

\* The form of a bug: the label is taken when the jump is made.
JumpBack_Mutant_late(c, start) ==
  compiler_jump_patch(compiler_jump_new(c), pc(c), pc(c), NO_REG)

JumpBack(c, start) == compiler_jump_patch(compiler_jump_new(c), pc(c), start, NO_REG)
WhileBody(cond, body, start) ==
  PatchHere(JumpBack(block(block_push(cond.c, TRUE), body), start), cond.e.patch_false)
while_statement(c, e, body) ==
  block_pop(WhileBody(condition(compiler_label_get(c), e), body, pc(c)))

Until(cond, start) == compiler_jump_patch(cond.c, cond.e.patch_false, start, NO_REG)
repeat_statement(c, body, e) ==
  block_pop(Until(condition(chunk(compiler_label_get(block_push(c, TRUE)), body), e), pc(c)))

expr_immediate(c, e) == compiler_expr_next_reg(expression(c, e)).c

ForVariables(c, n) ==
  local_start(compiler_reserve_reg(block_push(local_start(c, 3), FALSE), n), n)
PushForPrep(c, base, is_numeric) ==
  IF is_numeric THEN code_push(c, "FOR_PREP", base, NO_JUMP, 0) ELSE compiler_jump_new(c)
PushForLoop(c, base, n_vars, is_numeric) ==
  IF is_numeric THEN code_push(c, "FOR_LOOP", base, NO_JUMP, 0)
  ELSE compiler_jump_new(code_push(c, "FOR_IN", base, 0, n_vars))
ForBack(c, prep) == compiler_jump_patch(c, pc(c) - 1, prep + 1, NO_REG)
for_body(c, base, n_vars, is_numeric, body) ==
  LET begun == PushForPrep(ForVariables(c, n_vars), base, is_numeric)
  IN  ForBack(PushForLoop(compiler_jump_patch(block_pop(block(begun, body)), pc(c), NO_JUMP, NO_REG),
                      base, n_vars, is_numeric),
              pc(c))

RECURSIVE Immediates(_, _)
Immediates(c, es) ==
  IF es = <<>> THEN c ELSE Immediates(expr_immediate(c, Head(es)), Tail(es))

for_numeric(c, ident, es, body) ==
  for_body(local_push_all(Immediates(c, es),
                          <<"(for index)", "(for limit)", "(for increment)", ident>>),
           c.free_reg, 1, TRUE, body)

Generator(c, es) ==
  assign_adjust(expression_list(Departs(c, Len(es) > 3, "values of for in"), es), Len(es), 3)
for_generic(c, idents, es, body) ==
  for_body(compiler_check_stack(
             Generator(local_push_all(c, <<"(for generator)", "(for state)", "(for control)">>
                                         \o idents), es), 3),
           c.free_reg, Len(idents), FALSE, body)

call_statement(r) == compiler_set_returns(r.c, r.e, 0)

declaration(c, s) ==
  CASE s[1] = "local"         -> local_statement(c, s[2], s[3])
    [] s[1] = "localfunction" -> local_function(c, s[2], s[3], s[4])
    [] s[1] = "function"      -> function_decl(c, s[2], s[3], s[4])
    [] s[1] = "assign"        -> assignment(c, s[2], s[3])
    [] s[1] = "call"   -> call_statement(expression(c, s[2]))
    [] s[1] = "do"     -> block(c, s[2])
    [] s[1] = "while"  -> while_statement(c, s[2], s[3])
    [] s[1] = "repeat" -> repeat_statement(c, s[2], s[3])
    [] s[1] = "if"     -> if_statement(c, s[2], s[3], NO_JUMP)
    [] s[1] = "fornum" ->
         block_pop(for_numeric(block_push(c, TRUE), s[2], <<s[3], s[4], s[5]>>, s[6]))
    [] s[1] = "forin"  -> block_pop(for_generic(block_push(c, TRUE), s[2], s[3], s[4]))
    [] s[1] = "return" -> return_statement(c, s[2])
    [] s[1] = "break"  -> break_statement(c)

\* After each statement the registers of its temporaries are free again.  What
\* failed ends the compilation.
NextStatement(c, stats) == chunk([c EXCEPT !.free_reg = Len(c.active)], stats)
chunk(c, stats) ==
  IF stats = <<>> \/ c.failed # {} THEN c
  ELSE NextStatement(declaration(c, Head(stats)), Tail(stats))

parser_program(stats) ==
  function_close(block_pop(chunk(block_push(compiler_make(0, <<>>), FALSE), stats)))

=============================================================================

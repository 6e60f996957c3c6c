------------------------------ MODULE Meaning -------------------------------
(***************************************************************************)
(* What a program means: the language as its documentation and tests use   *)
(* it, with variables and environments instead of registers and jumps.     *)
(* Machine is compared with it.                                            *)
(*                                                                         *)
(* A variable is a cell; an environment gives the cell of each local name  *)
(* in scope.  s is everything a program changes.  After an error nothing   *)
(* changes any more, and culprits are the names of what caused it, as far  *)
(* as it has any: a variable, or the field or method it was found as.      *)
(***************************************************************************)
EXTENDS Integers, Sequences, SequencesExt, TLC

LOCAL Nil        == <<"nil">>
LOCAL Boolean(b) == <<"boolean", b>>
LOCAL Number(n)  == <<"number", n>>
LOCAL String(t)  == <<"string", t>>

Start ==
  [cells |-> <<>>, tables |-> <<>>, functions |-> <<>>,
   globals |-> [x \in {"print"} |-> <<"function", 0>>], output |-> <<>>,
   error |-> FALSE, culprits |-> {}]

Fail(s, names) == IF s.error THEN s ELSE [s EXCEPT !.error = TRUE, !.culprits = names]
Truth(v) == v \notin {Nil, Boolean(FALSE)}
Nth(vs, i) == IF i <= Len(vs) THEN vs[i] ELSE Nil
Adjusted(vs, n) == [i \in 1..n |-> Nth(vs, i)]

\* New variables of these names, and their environment.
RECURSIVE Declare(_, _, _, _)
Declare(s, env, names, vs) ==
  IF names = <<>> THEN [s |-> s, env |-> env]
  ELSE Declare([s EXCEPT !.cells = Append(@, Nth(vs, 1))],
               (Head(names) :> Len(s.cells) + 1) @@ env,
               Tail(names), SubSeq(vs, 2, Len(vs)))

LOCAL Shown(v) == IF v[1] \in {"table", "function"} THEN <<v[1]>> ELSE v

\* t is the value of something with these names.
GetField(s, t, k, names) ==
  IF t[1] # "table" THEN [s |-> Fail(s, names), v |-> Nil]
  ELSE [s |-> s, v |-> IF k \in DOMAIN s.tables[t[2]] THEN s.tables[t[2]][k] ELSE Nil]

PutField(s, t, k, v, names) ==
  IF s.error \/ t[1] # "table" \/ k = Nil THEN Fail(s, names[IF t[1] = "table" THEN 2 ELSE 1])
  ELSE [s EXCEPT !.tables[t[2]] =
          IF v = Nil THEN [x \in DOMAIN @ \ {k} |-> @[x]] ELSE (k :> v) @@ @]

GetName(s, env, x) ==
  IF x \in DOMAIN env THEN [s |-> s, v |-> s.cells[env[x]]]
  ELSE IF x \in DOMAIN s.globals THEN [s |-> s, v |-> s.globals[x]]
  ELSE [s |-> Fail(s, {}), v |-> Nil]

PutName(s, env, x, v) ==
  IF s.error THEN s
  ELSE IF x \in DOMAIN env THEN [s EXCEPT !.cells[env[x]] = v]
  ELSE [s EXCEPT !.globals = (x :> v) @@ @]

\* A table's length, which is defined for tables without holes.
Elements(t) == CHOOSE n \in 0..30 : /\ Number(n + 1) \notin DOMAIN t
                                    /\ \A i \in 1..n : Number(i) \in DOMAIN t

Unary(s, op, v, names) ==
  LET yes(w) == [s |-> s, v |-> w]
      no == [s |-> Fail(s, names), v |-> Nil]
  IN  CASE op = "NOT" -> yes(Boolean(~Truth(v)))
        [] op = "UNM" -> IF v[1] = "number" THEN yes(Number(-v[2])) ELSE no
        [] op = "LEN" -> IF v[1] = "string" THEN yes(Number(Len(v[2])))
                         ELSE IF v[1] = "table" THEN yes(Number(Elements(s.tables[v[2]])))
                         ELSE no

\* Numbers are joined as they are printed.
Joined(v) == IF v[1] = "number" THEN ToString(v[2]) ELSE v[2]

\* Either operand that is at fault is a culprit; a comparison has none.
Binary(s, op, v, w, names) ==
  LET yes(x) == [s |-> s, v |-> x]
      types == IF op = "CONCAT" THEN {"string", "number"} ELSE {"number"}
      faulty == {i \in 1..2 : <<v, w>>[i][1] \notin types}
      wrong == UNION {names[i] : i \in faulty}
      no == [s |-> Fail(s, IF op \in {"LT", "LEQ", "GT", "GEQ"} THEN {} ELSE wrong), v |-> Nil]
      numbers == v[1] = "number" /\ w[1] = "number"
  IN  CASE op = "EQ"  -> yes(Boolean(v = w))
        [] op = "NEQ" -> yes(Boolean(v # w))
        [] op = "CONCAT" -> IF faulty = {} THEN yes(String(Joined(v) \o Joined(w))) ELSE no
        [] OTHER -> IF ~numbers THEN no
                    ELSE CASE op = "ADD" -> yes(Number(v[2] + w[2]))
                           [] op = "SUB" -> yes(Number(v[2] - w[2]))
                           [] op = "MUL" -> yes(Number(v[2] * w[2]))
                           [] op = "LT"  -> yes(Boolean(v[2] < w[2]))
                           [] op = "LEQ" -> yes(Boolean(v[2] <= w[2]))
                           [] op = "GT"  -> yes(Boolean(v[2] > w[2]))
                           [] op = "GEQ" -> yes(Boolean(v[2] >= w[2]))

RECURSIVE Eval(_, _, _)
RECURSIVE NamesOf(_, _, _)
RECURSIVE EvalList(_, _, _)
RECURSIVE Items(_, _, _, _, _)
RECURSIVE Apply(_, _, _, _)
RECURSIVE Exec(_, _, _)
RECURSIVE Run(_, _, _)

\* How the value of an expression was found; of `and' and `or' the operand that
\* gave it.
NamesOf(e, env, s) ==
  CASE e[1] = "name"  -> {<<IF e[2] \in DOMAIN env THEN "local" ELSE "global", e[2]>>}
    [] e[1] = "index" -> {<<"field", IF e[3][1] = "string" THEN e[3][2] ELSE "?">>}
    [] e[1] = "binary" /\ e[2] \in {"AND", "OR"} ->
         NamesOf(e[IF Truth(Eval(e[3], env, s).v) = (e[2] = "AND") THEN 4 ELSE 3], env, s)
    [] OTHER -> {}

\* One call gives any number of values; the last expression of a list keeps all.
EvalAll(e, env, s) ==
  IF e[1] = "call"
  THEN LET f == Eval(e[2], env, s)
           args == EvalList(e[3], env, f.s)
       IN  Apply(args.s, f.v, args.vs, NamesOf(e[2], env, s))
  ELSE IF e[1] = "method"
  THEN LET t == Eval(e[2], env, s)
           f == GetField(t.s, t.v, String(e[3]), NamesOf(e[2], env, s))
           args == EvalList(e[4], env, f.s)
       IN  Apply(args.s, f.v, <<t.v>> \o args.vs, {<<"method", e[3]>>})
  ELSE LET r == Eval(e, env, s) IN [s |-> r.s, vs |-> <<r.v>>]

EvalList(es, env, s) ==
  IF es = <<>> THEN [s |-> s, vs |-> <<>>]
  ELSE IF Len(es) = 1 THEN EvalAll(es[1], env, s)
  ELSE LET first == Eval(es[1], env, s)
           others == EvalList(Tail(es), env, first.s)
       IN  [s |-> others.s, vs |-> <<first.v>> \o others.vs]

\* Elements are stored after the fields, at n + 1 and so on.
Items(s, env, t, items, vs) ==
  LET item == Head(items)
      k == Eval(item[2], env, s)
      v == Eval(item[3], env, k.s)
      r == IF Len(items) = 1 THEN EvalAll(item[2], env, s)
           ELSE [s |-> k.s, vs |-> <<k.v>>]
  IN  IF items = <<>>
      THEN FoldLeft(LAMBDA u, i : IF vs[i] = Nil THEN u
                                  ELSE PutField(u, t, Number(i), vs[i], <<{}, {}>>),
                    s, [i \in 1..Len(vs) |-> i])
      ELSE IF item[1] = "field"
      THEN Items(PutField(v.s, t, k.v, v.v, <<{}, NamesOf(item[2], env, s)>>),
                 env, t, Tail(items), vs)
      ELSE Items(r.s, env, t, Tail(items), vs \o r.vs)

Eval(e, env, s) ==
  CASE e[1] = "nil"      -> [s |-> s, v |-> Nil]
    [] e[1] = "true"     -> [s |-> s, v |-> Boolean(TRUE)]
    [] e[1] = "false"    -> [s |-> s, v |-> Boolean(FALSE)]
    [] e[1] = "number"   -> [s |-> s, v |-> Number(e[2])]
    [] e[1] = "string"   -> [s |-> s, v |-> String(e[2])]
    [] e[1] = "name"     -> GetName(s, env, e[2])
    [] e[1] = "index"    -> LET t == Eval(e[2], env, s)
                                k == Eval(e[3], env, t.s)
                            IN  GetField(k.s, t.v, k.v, NamesOf(e[2], env, s))
    [] e[1] = "function" ->
         [s |-> [s EXCEPT !.functions = Append(@, [params |-> e[2], body |-> e[3], env |-> env])],
          v |-> <<"function", Len(s.functions) + 1>>]
    [] e[1] = "table"    -> LET t == <<"table", Len(s.tables) + 1>>
                                made == [s EXCEPT !.tables = Append(@, <<>>)]
                            IN  [s |-> Items(made, env, t, e[2], <<>>), v |-> t]
    [] e[1] = "unary"    -> LET r == Eval(e[3], env, s)
                            IN  Unary(r.s, e[2], r.v, NamesOf(e[3], env, s))
    [] e[1] = "binary"   ->
         LET l == Eval(e[3], env, s)
             r == Eval(e[4], env, l.s)
         IN  CASE e[2] = "AND" -> IF Truth(l.v) THEN r ELSE l
               [] e[2] = "OR"  -> IF Truth(l.v) THEN l ELSE r
               [] OTHER -> Binary(r.s, e[2], l.v, r.v,
                                  <<NamesOf(e[3], env, s), NamesOf(e[4], env, s)>>)
    [] e[1] \in {"call", "method"} ->
         LET r == EvalAll(e, env, s) IN [s |-> r.s, v |-> Nth(r.vs, 1)]

Apply(s, f, args, names) ==
  LET body == s.functions[f[2]]
      d == Declare(s, body.env, body.params, args)
      r == Run(body.body, d.env, d.s)
      given == IF r.signal = "return" THEN r.vs ELSE <<>>
  IN  IF s.error \/ f[1] # "function" THEN [s |-> Fail(s, names), vs |-> <<>>]
      ELSE IF f[2] = 0
      THEN [s |-> [s EXCEPT !.output = Append(@, [i \in DOMAIN args |-> Shown(args[i])])],
            vs |-> <<>>]
      ELSE [s |-> r.s, vs |-> given]

\* How a statement ends: signal says whether the block goes on.
Goes(s, env) == [s |-> s, env |-> env, signal |-> "next", vs |-> <<>>]
Scoped(r, env) == [r EXCEPT !.env = env]

Run(stats, env, s) ==
  IF stats = <<>> \/ s.error THEN Goes(s, env)
  ELSE LET r == Exec(Head(stats), env, s)
       IN  IF r.signal # "next" THEN r ELSE Run(Tail(stats), r.env, r.s)

\* A loop after its body ended as r: the rest is done unless it was left.
After(r, env, rest) ==
  IF r.signal = "return" THEN Scoped(r, env)
  ELSE IF r.signal = "break" \/ r.s.error THEN Goes(r.s, env) ELSE rest

RECURSIVE ForNum(_, _, _, _, _, _, _)
ForNum(s, env, x, i, limit, step, body) ==
  LET d == Declare(s, env, <<x>>, <<Number(i)>>)
      r == Run(body, d.env, d.s)
  IN  IF IF 0 < step THEN i <= limit ELSE limit <= i
      THEN After(r, env, ForNum(r.s, env, x, i + step, limit, step, body))
      ELSE Goes(s, env)

RECURSIVE ForEach(_, _, _, _, _, _, _)
ForEach(s, env, names, f, state, control, body) ==
  LET got == Apply(s, f, <<state, control>>, {})
      vs == Adjusted(got.vs, Len(names))
      d == Declare(got.s, env, names, vs)
      r == Run(body, d.env, d.s)
  IN  IF got.s.error \/ vs[1] = Nil THEN Goes(got.s, env)
      ELSE After(r, env, ForEach(r.s, env, names, f, state, vs[1], body))

RECURSIVE If(_, _, _, _)
If(s, env, clauses, otherwise) ==
  LET cond == Eval(clauses[1][1], env, s)
  IN  IF clauses = <<>>
      THEN IF otherwise = <<>> THEN Goes(s, env) ELSE Scoped(Run(otherwise[1], env, s), env)
      ELSE IF Truth(cond.v) THEN Scoped(Run(clauses[1][2], env, cond.s), env)
      ELSE If(cond.s, env, Tail(clauses), otherwise)

\* What an assignment needs of its targets is found before anything is assigned.
RECURSIVE Places(_, _, _)
Places(vars, env, s) ==
  IF vars = <<>> THEN [s |-> s, places |-> <<>>]
  ELSE LET x == Head(vars)
           t == Eval(x[2], env, s)
           k == Eval(x[3], env, t.s)
           names == <<NamesOf(x[2], env, s), NamesOf(x[3], env, s)>>
           p == IF x[1] = "index" THEN [s |-> k.s, place |-> <<"field", t.v, k.v, names>>]
                ELSE [s |-> s, place |-> <<"name", x[2]>>]
           others == Places(Tail(vars), env, p.s)
       IN  [s |-> others.s, places |-> <<p.place>> \o others.places]

Put(s, env, place, v) ==
  IF place[1] = "name" THEN PutName(s, env, place[2], v)
  ELSE PutField(s, place[2], place[3], v, place[4])

Assign(s, env, places, vs) ==
  FoldLeft(LAMBDA u, i : Put(u, env, places[i], Nth(vs, i)), s,
           Reverse([i \in DOMAIN places |-> i]))

Exec(x, env, s) ==
  CASE x[1] = "local" ->
         LET r == EvalList(x[3], env, s)
             d == Declare(r.s, env, x[2], r.vs)
         IN  Goes(d.s, d.env)
    [] x[1] = "localfunction" ->
         LET d == Declare(s, env, <<x[2]>>, <<>>)
             f == Eval(<<"function", x[3], x[4]>>, d.env, d.s)
         IN  Goes(PutName(f.s, d.env, x[2], f.v), d.env)
    [] x[1] = "function" ->
         LET p == Places(<<x[2]>>, env, s)
             f == Eval(<<"function", x[3], x[4]>>, env, p.s)
         IN  Goes(Put(f.s, env, p.places[1], f.v), env)
    [] x[1] = "assign" ->
         LET p == Places(x[2], env, s)
             r == EvalList(x[3], env, p.s)
         IN  Goes(Assign(r.s, env, p.places, r.vs), env)
    [] x[1] = "call" -> Goes(EvalAll(x[2], env, s).s, env)
    [] x[1] = "do"   -> Scoped(Run(x[2], env, s), env)
    [] x[1] = "while" ->
         LET cond == Eval(x[2], env, s)
             r == Run(x[3], env, cond.s)
         IN  IF Truth(cond.v) THEN After(r, env, Exec(x, env, r.s)) ELSE Goes(cond.s, env)
    [] x[1] = "repeat" ->
         LET r == Run(x[2], env, s)
             cond == Eval(x[3], r.env, r.s)
         IN  After(r, env, IF Truth(cond.v) THEN Goes(cond.s, env) ELSE Exec(x, env, cond.s))
    [] x[1] = "if" -> If(s, env, x[2], x[3])
    [] x[1] = "fornum" ->
         LET r == EvalList(<<x[3], x[4], x[5]>>, env, s)
         IN  IF r.s.error \/ \E i \in 1..3 : r.vs[i][1] # "number" THEN Goes(Fail(r.s, {}), env)
             ELSE ForNum(r.s, env, x[2], r.vs[1][2], r.vs[2][2], r.vs[3][2], x[6])
    [] x[1] = "forin" ->
         LET r == EvalList(x[3], env, s)
             three == Adjusted(r.vs, 3)
         IN  ForEach(r.s, env, x[2], three[1], three[2], three[3], x[4])
    [] x[1] = "return" ->
         LET r == EvalList(x[2], env, s)
         IN  [s |-> r.s, env |-> env, signal |-> "return", vs |-> r.vs]
    [] x[1] = "break" -> [s |-> s, env |-> env, signal |-> "break", vs |-> <<>>]

Final(stats) == Run(stats, [x \in {} |-> 0], Start).s

\* What can be seen of a program.
Outcome(stats) ==
  LET s == Final(stats)
  IN  [output |-> s.output, status |-> IF s.error THEN "error" ELSE "ended"]

=============================================================================

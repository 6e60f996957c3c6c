----------------------------- MODULE MCCompiler -----------------------------
(***************************************************************************)
(* The programs Machine runs.  Expressions are crossed with the places a   *)
(* value can be wanted in, statements with what can happen in their body,  *)
(* and the rest are the forms of calls, closures, constructors and         *)
(* assignments that use registers in a way of their own.                   *)
(***************************************************************************)
EXTENDS Debug

Name(x)    == <<"name", x>>
Num(n)     == <<"number", n>>
Str(s)     == <<"string", s>>
NilE       == <<"nil">>
TrueE      == <<"true">>
FalseE     == <<"false">>
Dot(t, k)  == <<"index", t, Str(k)>>
CallE(f, args) == <<"call", f, args>>
Bin(op, l, r)  == <<"binary", op, l, r>>
Un(op, e)      == <<"unary", op, e>>
Fun(ps, body)  == <<"function", ps, body>>
Local(ids, es) == <<"local", ids, es>>
Assign1(v, e)  == <<"assign", <<v>>, <<e>>>>
ShowE(es)      == <<"call", CallE(Name("print"), es)>>
Return1(es)    == <<"return", es>>
Break1         == <<"break">>

\* Sequences of everything op makes of the elements of one, two or three.
Each(op(_), A) == <<>> \o [i \in DOMAIN A |-> op(A[i])]
Cross(op(_, _), A, B) ==
  <<>> \o [i \in 1..(Len(A) * Len(B)) |-> op(A[((i - 1) \div Len(B)) + 1], B[((i - 1) % Len(B)) + 1])]

-----------------------------------------------------------------------------
(* Expressions: x is a local 1, y a local nil, g a global 2, t.k is 3 *)

Setting == << Local(<<"x", "y">>, <<Num(1)>>), Assign1(Name("g"), Num(2)),
              Assign1(Name("t"), <<"table", << <<"field", Str("k"), Num(3)>> >> >>) >>

Operands1 == << Name("x"), Name("y"), Name("g"), FalseE, Num(3), Dot(Name("t"), "k") >>
Few       == << Name("x"), Name("y"), Name("g") >>
Logic     == << "AND", "OR" >>
Tests     == << Bin("LT", Name("x"), Name("g")), Bin("EQ", Name("y"), NilE),
                Bin("GEQ", Name("x"), Num(2)), Bin("NEQ", Name("x"), Name("y")),
                Un("NOT", Name("x")), Un("NOT", Un("NOT", Name("y"))), TrueE, NilE,
                Bin("GT", Num(1), Num(2)) >>
Other     == << Bin("ADD", Name("x"), Num(2)), Bin("SUB", Dot(Name("t"), "k"), Name("x")),
                Bin("MUL", Num(2), Bin("ADD", Name("x"), Name("g"))),
                Bin("ADD", Bin("MUL", Name("g"), Name("x")), Bin("SUB", Num(3), Num(1))),
                Un("UNM", Name("x")), Un("UNM", Num(2)), Un("LEN", Str("ab")),
                Bin("CONCAT", Str("a"), Bin("CONCAT", Str("b"), Str("c"))),
                Bin("CONCAT", Name("x"), Bin("CONCAT", Str("b"), Name("g"))),
                Bin("CONCAT", Dot(Name("t"), "k"), Num(7)),
                Bin("ADD", Name("x"), Name("y")), Bin("LT", Name("y"), Num(1)),
                CallE(Fun(<<"p">>, << Return1(<<Bin("ADD", Name("p"), Name("x"))>>) >>), <<Num(4)>>),
                Un("LEN", <<"table", << <<"item", Name("x")>>, <<"item", Name("g")>>, <<"item", Num(7)>> >> >>) >>

Logical2 == Cross(LAMBDA op, ab : Bin(op, ab[1], ab[2]), Logic,
                  Cross(LAMBDA a, b : <<a, b>>, Operands1, Operands1))
Logical3(inner) ==
  Cross(LAMBDA op, ab : Bin(op, ab[1], ab[2]), Logic, Cross(LAMBDA a, b : <<a, b>>, inner, Few))
  \o Cross(LAMBDA op, ab : Bin(op, ab[1], ab[2]), Logic, Cross(LAMBDA a, b : <<a, b>>, Few, inner))
Small2 == Cross(LAMBDA op, ab : Bin(op, ab[1], ab[2]), Logic, Cross(LAMBDA a, b : <<a, b>>, Few, Few))

-----------------------------------------------------------------------------
(* Places a value is wanted in *)

InCall(e)   == << ShowE(<<e, Num(9)>>) >>
InLocal(e)  == << Local(<<"v">>, <<e>>), ShowE(<<Name("v")>>) >>
InPlace(e)  == << Assign1(Name("x"), e), ShowE(<<Name("x")>>) >>
InGlobal(e) == << Assign1(Name("g"), e), ShowE(<<Name("g")>>) >>
InField(e)  == << Assign1(Dot(Name("t"), "k"), e), ShowE(<<Dot(Name("t"), "k")>>) >>
InReturn(e) == << ShowE(<<CallE(Fun(<<>>, << Return1(<<e>>) >>), <<>>)>>) >>
InItem(e)   == << ShowE(<<Dot(<<"table", << <<"item", e>>, <<"field", Str("k"), e>> >> >>, "k")>>) >>
InUpvalue(e) ==
  << <<"localfunction", "f", <<>>, << Assign1(Name("x"), e) >> >>,
     <<"call", CallE(Name("f"), <<>>)>>, ShowE(<<Name("x")>>) >>
InIf(e)     == << <<"if", << << e, << ShowE(<<Num(1)>>) >> >> >>, << << ShowE(<<Num(2)>>) >> >> >> >>
InWhile(e)  == << <<"while", e, << ShowE(<<Num(1)>>), Assign1(Name("x"), NilE), Break1 >> >> >>
InRepeat(e) == << <<"repeat", << ShowE(<<Name("x")>>), Assign1(Name("x"), Bin("ADD", Num(1), Num(1))) >>,
                    Bin("OR", e, TrueE)>> >>
InOperand(e) == << ShowE(<<Bin("EQ", e, Num(1))>>) >>

Places2 == << 1, 2, 3, 4, 5, 6, 7, 8, 9, 10, 11, 12 >>
Use(i, e) ==
  CASE i = 1 -> InCall(e)  [] i = 2 -> InLocal(e)  [] i = 3 -> InPlace(e) [] i = 4 -> InGlobal(e)
    [] i = 5 -> InField(e) [] i = 6 -> InReturn(e) [] i = 7 -> InItem(e)  [] i = 8 -> InUpvalue(e)
    [] i = 9 -> InIf(e)    [] i = 10 -> InWhile(e) [] i = 11 -> InRepeat(e)
    [] i = 12 -> InOperand(e)

ExpressionPrograms ==
  Cross(LAMBDA i, e : Setting \o Use(i, e), Places2, Logical2 \o Tests \o Other)
  \o Cross(LAMBDA i, e : Setting \o Use(i, e), << 2, 9 >>, Logical3(Small2))
  \o Cross(LAMBDA i, e : Setting \o Use(i, e), << 3, 9 >>, Logical3(Tests))

-----------------------------------------------------------------------------
(* Statements: each body in each loop, in the main function and in another *)

Function1(id, ps, body) == <<"function", Name(id), ps, body>>
Call1(f, args) == <<"call", CallE(Name(f), args)>>
If1(e, b)      == <<"if", << <<e, b>> >>, <<>> >>
Plus(x, n)     == Bin("ADD", Name(x), Num(n))

\* it counts to its state; two returns its argument and 7.
Library == << Local(<<"x", "y">>, <<Num(1)>>), Assign1(Name("g"), Num(2)),
              Assign1(Name("t"), <<"table", << <<"field", Str("k"), Num(3)>> >> >>),
              Function1("f", <<>>, << Return1(<<Num(0)>>) >>),
              Function1("two", <<"a">>, << Return1(<<Name("a"), Num(7)>>) >>),
              Function1("it", <<"n", "i">>,
                        << If1(Bin("EQ", Name("i"), NilE), << Return1(<<Num(1)>>) >>),
                           If1(Bin("LT", Name("i"), Name("n")), << Return1(<<Plus("i", 1), Num(9)>>) >>) >>) >>

Bodies == <<
  << ShowE(<<Name("i"), Name("x")>>) >>,
  << If1(Bin("EQ", Name("i"), Num(2)), << Break1 >>), ShowE(<<Name("i")>>) >>,
  << Local(<<"v">>, <<Name("i")>>),
     Function1("f", <<>>, << Assign1(Name("v"), Plus("v", 1)), Return1(<<Name("v")>>) >>) >>,
  << <<"do", << Local(<<"v">>, <<Plus("i", 4)>>),
                Function1("f", <<>>, << Return1(<<Name("v")>>) >>),
                If1(Bin("EQ", Name("i"), Num(2)), << Break1 >>) >> >>,
     Assign1(Name("x"), Name("i")) >>,
  << <<"fornum", "j", Num(1), Name("i"), Num(1),
       << If1(Bin("GT", Name("j"), Num(1)), << Break1 >>), ShowE(<<Name("i"), Name("j")>>) >> >> >>,
  << <<"if", << <<Bin("EQ", Name("i"), Num(1)), << ShowE(<<Num(1)>>) >> >>,
                <<Bin("AND", Bin("LT", Name("i"), Num(3)), Name("x")), << ShowE(<<Num(2)>>) >> >> >>,
       << << Local(<<"w">>, <<Name("i")>>), ShowE(<<Name("w")>>) >> >> >> >>,
  << <<"localfunction", "r", <<"n">>,
       << If1(Bin("EQ", Name("n"), Num(0)), << Return1(<<Name("i")>>) >>),
          Return1(<<CallE(Name("r"), <<Bin("SUB", Name("n"), Num(1))>>)>>) >> >>,
     ShowE(<<CallE(Name("r"), <<Num(2)>>)>>) >>,
  << <<"while", TrueE, << Assign1(Name("x"), Plus("x", 1)),
                          If1(Bin("GEQ", Name("x"), Name("i")), << Break1 >>) >> >>,
     ShowE(<<Name("x")>>) >>,
  << Local(<<"v", "w">>, <<CallE(Name("two"), <<Name("i")>>)>>), Assign1(Dot(Name("t"), "k"), Name("w")),
     Function1("f", <<>>, << Return1(<<Name("v"), Name("w")>>) >>) >> >>

Counted(body) == << Assign1(Name("i"), Plus("i", 1)) >> \o body
Loops(k, body) ==
  CASE k = 1 -> << <<"fornum", "i", Num(1), Num(3), Num(1), body>> >>
    [] k = 2 -> << <<"fornum", "i", Num(3), Name("x"), Un("UNM", Num(1)), body>> >>
    [] k = 3 -> << <<"forin", <<"i">>, <<Name("it"), Num(3)>>, body>> >>
    [] k = 4 -> << <<"forin", <<"i", "z">>, <<Name("it"), Num(2), NilE, Num(5)>>, body>> >>
    [] k = 5 -> << Local(<<"i">>, <<Num(0)>>),
                   <<"while", Bin("LT", Name("i"), Num(3)), Counted(body)>> >>
    [] k = 6 -> << Local(<<"i">>, <<Num(0)>>),
                   <<"repeat", Counted(body), Bin("GEQ", Name("i"), Num(3))>> >>
    [] k = 7 -> << Local(<<"i">>, <<Num(5)>>), <<"do", body>>,
                   <<"fornum", "j", Num(1), Num(2), Num(1), << <<"do", body>> >> >> >>

Seen == << ShowE(<<Name("x"), Name("y"), CallE(Name("f"), <<>>), CallE(Name("f"), <<>>)>>) >>
LoopPrograms ==
  Cross(LAMBDA k, body : Library \o Loops(k, body) \o Seen, << 1, 2, 3, 4, 5, 6, 7 >>, Bodies)
  \o Cross(LAMBDA k, body :
              Library \o << Function1("main", <<"i", "j">>, Loops(k, body) \o << Return1(<<Num(8)>>) >>),
                            ShowE(<<CallE(Name("main"), <<Num(1), Num(1)>>)>>) >> \o Seen,
            << 1, 2, 3, 4, 5, 6, 7 >>, Bodies)

-----------------------------------------------------------------------------
(* Assignments and calls: numbers of targets, arguments and values *)

Targets == << Name("x"), Name("y"), Name("g"), Dot(Name("t"), "k") >>
Two(n) == CallE(Name("two"), <<n>>)
Lists == << <<Name("y"), Name("x")>>, <<Plus("x", 3)>>, <<Name("g"), Dot(Name("t"), "k"), Name("x")>>,
            <<Two(Num(5))>>, <<Num(4), Two(Name("x"))>>, <<Two(Num(5)), Name("x")>>,
            <<Bin("AND", Name("x"), Name("g")), Bin("OR", Name("y"), Num(6))>> >>
Values == << ShowE(<<Name("x"), Name("y"), Name("g"), Dot(Name("t"), "k")>>) >>

Uses(k, es) ==
  CASE k = 1 -> << ShowE(es) >>
    [] k = 2 -> << Local(<<"a", "b", "c">>, es), ShowE(<<Name("a"), Name("b"), Name("c")>>) >>
    [] k = 3 -> << Function1("h", <<"a", "b">>, << Return1(es) >>), ShowE(<<CallE(Name("h"), es)>>) >>
    [] k = 4 -> << Local(<<"u">>, << <<"table", [i \in DOMAIN es |-> <<"item", es[i]>>]>> >>),
                   ShowE([i \in 1..4 |-> <<"index", Name("u"), Num(i)>>]) >>
    [] k = 5 -> << Function1("h", <<"a", "b">>, << ShowE(<<Name("b"), Name("a")>>), Return1(<<Name("b")>>) >>),
                   ShowE(<<CallE(Name("h"), es), CallE(Name("h"), es)>>) >>
    [] k = 6 -> << <<"function", Dot(Name("t"), "m"), <<"self", "a">>,
                     << Return1(<<Dot(Name("self"), "k"), Name("a")>>) >> >>,
                   ShowE(<< <<"method", Name("t"), "m", es>> >>),
                   Local(<<"r">>, << <<"method", Name("t"), "m", es>> >>), ShowE(<<Name("r")>>) >>
    [] k = 7 -> << Assign1(Name("u"), <<"table", <<>> >>),
                   <<"assign", << <<"index", Name("u"), Name("x")>>, <<"index", Name("u"), Plus("x", 1)>> >>, es>>,
                   ShowE(<< <<"index", Name("u"), Num(1)>>, <<"index", Name("u"), Num(2)>> >>) >>

AssignmentPrograms ==
  Cross(LAMBDA vs, es : Library \o << <<"assign", vs, es>> >> \o Values,
        Cross(LAMBDA a, b : <<a, b>>, Targets, Targets) \o << <<Name("x"), Name("g"), Name("y")>> >>, Lists)
  \o Cross(LAMBDA k, es : Library \o Uses(k, es), << 1, 2, 3, 4, 5, 6, 7 >>, Lists \o << <<>> >>)

-----------------------------------------------------------------------------
(* Closures and constructors *)

Counter == Fun(<<>>, << Local(<<"n">>, <<Num(0)>>),
                        Return1(<<Fun(<<>>, << Assign1(Name("n"), Plus("n", 1)), Return1(<<Name("n")>>) >>),
                                  Fun(<<>>, << Return1(<<Name("n")>>) >>)>>) >>)
Item(e) == <<"item", e>>
OtherPrograms == <<
  << Local(<<"up", "get">>, <<CallE(Counter, <<>>)>>), Call1("up", <<>>), Call1("up", <<>>),
     ShowE(<<CallE(Name("get"), <<>>), CallE(Name("up"), <<>>)>>) >>,
  << Local(<<"a">>, <<Num(1)>>),
     <<"localfunction", "outer", <<>>,
       << <<"localfunction", "inner", <<>>, << Assign1(Name("a"), Plus("a", 1)), Return1(<<Name("a")>>) >> >>,
          Return1(<<CallE(Name("inner"), <<>>), Name("inner")>>) >> >>,
     ShowE(<<CallE(Name("outer"), <<>>)>>), ShowE(<<Name("a")>>) >>,
  << <<"do", << Local(<<"a">>, <<Num(1)>>), Function1("f", <<>>, << Return1(<<Name("a")>>) >>),
                <<"do", << Local(<<"a">>, <<Num(2)>>), Function1("g", <<>>, << Return1(<<Name("a")>>) >>) >> >>,
                Assign1(Name("a"), Num(3)) >> >>,
     Local(<<"b">>, <<Num(4)>>), ShowE(<<CallE(Name("f"), <<>>), CallE(Name("g"), <<>>), Name("b")>>) >>,
  Library \o << Assign1(Name("u"), <<"table", << Item(Num(1)), Item(Two(Num(2))), <<"field", Str("k"), Num(9)>>,
                                                 Item(Name("x")), Item(Num(4)) >> >>),
                ShowE(<<Un("LEN", Name("u")), <<"index", Name("u"), Num(4)>>, Dot(Name("u"), "k")>>) >>,
  << Function1("two", <<"a">>, << Return1(<<Name("a"), Num(7)>>) >>),
     Assign1(Name("u"), <<"table", << Item(Num(8)), Item(Num(9)), Item(Two(Num(5))) >> >>),
     ShowE(<<Un("LEN", Name("u")), <<"index", Name("u"), Num(4)>> >>) >>,
  << Assign1(Name("u"), <<"table", << Item(Num(8)), Item(<<"table", << Item(Num(4)) >> >>), Item(Num(5)) >> >>),
     ShowE(<<Un("LEN", <<"index", Name("u"), Num(2)>>)>>) >>,
  << <<"localfunction", "fib", <<"n">>,
       << If1(Bin("LT", Name("n"), Num(2)), << Return1(<<Name("n")>>) >>),
          Return1(<<Bin("ADD", CallE(Name("fib"), <<Bin("SUB", Name("n"), Num(1))>>),
                               CallE(Name("fib"), <<Bin("SUB", Name("n"), Num(2))>>))>>) >> >>,
     ShowE(<<CallE(Name("fib"), <<Num(5)>>)>>) >>,
  << Local(<<"a">>, <<>>), <<"if", << <<Name("a"), <<>> >>, <<Un("NOT", Name("a")), << ShowE(<<Num(1)>>) >> >> >>, <<>> >> >>,
  << Function1("f", <<>>, << <<"repeat", << Local(<<"a">>, <<>>) >>, TrueE>> >>), Call1("f", <<>>) >>,
  << Function1("f", <<>>, << <<"while", NilE, <<>> >> >>), Call1("f", <<>>), ShowE(<<Num(1)>>) >> >>

-----------------------------------------------------------------------------
(* Programs that fail: something without a value, or of the wrong type, is *)
(* called, indexed, stored into, used as a key or as an operand, in places *)
(* where the registers and locals around it differ.                        *)

\* As in Setting; n is a global nil, t also has a method m, and no z; f returns
\* nothing.
FailSetting ==
  Setting \o << Assign1(Name("n"), NilE), Function1("f", <<>>, << Return1(<<>>) >>),
                <<"function", Dot(Name("t"), "m"), <<"self">>, << Return1(<<>>) >> >> >>

Culprits == << Name("x"), Name("y"), Name("g"), Name("n"), Dot(Name("t"), "k"), Dot(Name("t"), "z"),
               <<"index", Name("t"), Name("x")>>, CallE(Name("f"), <<>>),
               <<"method", Name("t"), "m", <<>>>>, Num(5) >>

Fails(k, e) ==
  CASE k = 1 -> << <<"call", CallE(e, <<Name("x"), Name("g")>>)>> >>
    [] k = 2 -> << ShowE(<<Num(1), Dot(e, "k")>>) >>
    [] k = 3 -> << Assign1(Dot(e, "k"), Name("x")) >>
    [] k = 4 -> << Assign1(<<"index", Name("t"), e>>, Num(1)), Assign1(Name("x"), Un("LEN", e)) >>
    [] k = 5 -> << Local(<<"v">>, <<Bin("ADD", e, Dot(e, "k"))>>) >>
    [] k = 6 -> << Local(<<"v">>, <<Num(1)>>), ShowE(<<Bin("MUL", Name("v"), Un("UNM", e))>>) >>
    [] k = 7 -> << Local(<<"v", "w">>, <<Bin("CONCAT", Name("x"), Bin("CONCAT", e, Name("g"))), Name("x")>>),
                   ShowE(<<Name("v"), Name("w"), Name("x"), Name("g")>>) >>
    [] k = 8 -> << <<"call", <<"method", e, "k", <<Name("x")>> >> >> >>
    [] k = 9 -> << <<"return", <<Name("x"), CallE(Dot(Name("t"), "m"), <<Bin("SUB", Num(1), e)>>)>> >> >>
    [] k = 10 -> << Assign1(Name("x"), <<"table", << <<"field", e, e>>, <<"item", CallE(e, <<>>)>> >> >>) >>
    [] k = 11 -> << <<"call", <<"method", Name("t"), "z", <<e>> >> >> >>

Around(k, body) ==
  CASE k = 1 -> body
    [] k = 2 -> << <<"do", << Local(<<"a", "b">>, <<Num(1)>>) >> >> >> \o body
    [] k = 3 -> << Local(<<"v", "w">>, <<Name("g")>>), <<"do", body>> >>
    [] k = 4 -> << <<"localfunction", "h", <<"y">>, body>>, <<"call", CallE(Name("h"), <<>>)>> >>
    [] k = 5 -> << <<"localfunction", "h", <<>>, body>>, <<"call", CallE(Name("h"), <<>>)>> >>
    [] k = 6 -> << <<"fornum", "i", Num(1), Num(2), Num(1), << Local(<<"a">>, <<Name("i")>>) >> \o body>> >>
    [] k = 7 -> << <<"repeat", << <<"do", << Local(<<"a">>, <<>>) >> >> >> \o body, <<"true">> >> >>
    [] k = 8 -> << <<"do", << Local(<<"a">>, <<Num(1)>>),
                              Function1("c", <<>>, << <<"return", <<Name("a")>> >> >>) >> >> >> \o body
    [] k = 9 -> << <<"if", << <<Name("y"), << Local(<<"a">>, <<Num(1)>>) >> >> >>, << body >> >> >>

\* The last ones have the names that Debug excludes: of the last operand in the
\* code, of the variables of a loop and of a local that is no more.
FailingPrograms ==
  Cross(LAMBDA k, fails : FailSetting \o Around(k, fails), << 1, 2, 3, 4, 5, 6, 7, 8, 9 >>,
        Cross(Fails, << 1, 2, 3, 4, 5, 6, 7, 8, 9, 10, 11 >>, Culprits))
  \o Cross(LAMBDA k, e : FailSetting \o Fails(k, e), << 1, 2, 8 >>,
           << Bin("OR", Name("g"), Name("n")), Bin("AND", Name("n"), Name("g")) >>)
  \o << FailSetting \o << <<"forin", <<"v">>, <<Name("y")>>, << ShowE(<<Name("v")>>) >> >> >>,
        << <<"do", << Local(<<"a">>, <<>>) >> >>, Local(<<"b">>, <<>>), Assign1(Dot(Name("b"), "k"), Num(1)) >> >>

AllPrograms == ExpressionPrograms \o LoopPrograms \o AssignmentPrograms \o OtherPrograms
               \o FailingPrograms

=============================================================================

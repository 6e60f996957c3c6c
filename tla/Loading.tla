------------------------------ MODULE Loading ------------------------------
(***************************************************************************)
(* Who keeps the strings of a program alive while it is compiled: the      *)
(* parser of parser.cpp holds tokens in C variables, which the collector   *)
(* does not see, the lexer puts every string it makes into a table of the  *)
(* function being compiled, and any allocation may collect.                *)
(*                                                                         *)
(* A step is an operation of the parser between two allocations.  What the *)
(* program says is left to choice; strings are known by their text.        *)
(*                                                                         *)
(* What Lexer defines too has a name of its own here (LoadingSpec, Lex):   *)
(* LexerProofs extends both.                                               *)
(***************************************************************************)
EXTENDS Naturals, Sequences

CONSTANTS
  Text,        \* the texts of names and string literals
  NoText,
  LiteralText, \* those of the locals that the parser declares itself
  MaxFunctions \* a bound: how deep functions nest

ASSUME LoadingAssumption ==
  /\ NoText \notin Text
  /\ LiteralText \in [{"self", "index", "limit", "increment",
                       "generator", "state", "control"} -> Text]
  /\ MaxFunctions \in Nat \ {0}

VARIABLES
  strings,   \* the strings that are interned and not freed
  functions, \* the functions being compiled, the main one first.  Of each the VM
             \* stack holds its constant table and its chunk: the strings in them;
             \* ident is the variable of a `for' whose header is being compiled, a
             \* C variable of for_numeric and for_generic
  indexes,   \* Lexer::indexes: whose table it is, 0 for null
  current,   \* Parser::current
  lookahead, \* Parser::lookahead
  held,      \* a token that was consumed and is still used (consume_ident)
  step,      \* what the parser does next
  after,     \* and what it does once the lexer has returned
  loaded     \* the strings of the function that lulu_load has left on the stack

loadingVars == <<strings, functions, indexes, current, lookahead, held, step, after, loaded>>

\* Tokens: names and string literals have a text, `open' is the parenthesis
\* of a function's parameters, `end' the end of a function, `for' the keyword.  late is history:
\* the table into which the lexer put the string was dropped, and it is nowhere
\* else.
Token == [kind : {"name", "string", "open", "end", "for", "eof", "other", "none"},
          text : Text \cup {NoText}, late : BOOLEAN]
TokenOf(kind, t) == [kind |-> kind, text |-> t, late |-> FALSE]
NoToken == TokenOf("none", NoText)

TokenTexts ==
  {<<"name", t>> : t \in Text} \cup {<<"string", t>> : t \in Text}
  \cup {<<k, NoText>> : k \in {"open", "end", "for", "eof", "other"}}

Depth == Len(functions)
NewFunction == [table |-> {}, chunk |-> {}, ident |-> NoText]

\* Add texts to the chunk or the table of function d.
InChunk(d, texts) == [functions EXCEPT ![d].chunk = @ \cup texts]
InTable(d, texts) == [functions EXCEPT ![d].table = @ \cup texts]

-----------------------------------------------------------------------------
(* Collections *)

\* Mutant: the arrays of a chunk that is being compiled are not traversed.
Reachable_Mutant_tables == loaded \cup UNION {functions[d].table : d \in 1..Depth}

\* What the collector finds from the stack (gc_mark_roots, gc_blacken_chunk).
Reachable ==
  loaded \cup UNION {functions[d].table \cup functions[d].chunk : d \in 1..Depth}

Held == {current, lookahead, held}
Idents == {functions[d].ident : d \in 1..Depth} \ {NoText}
HeldTexts == ({t.text : t \in Held} \ {NoText}) \cup Idents

\* The next step allocates and the allocation collects: what the parser goes on
\* with is undefined if it holds a string that is freed.
Collect ==
  /\ step \notin {"done", "failed", "UNDEFINED"}
  /\ strings' = strings \cap Reachable
  /\ step' = IF HeldTexts \subseteq strings' THEN step ELSE "UNDEFINED"
  /\ UNCHANGED <<functions, indexes, current, lookahead, held, after, loaded>>

-----------------------------------------------------------------------------
(* The lexer *)

\* Mutant: the string is not kept.
lexer_new_ostring_Mutant_loose(t) ==
  /\ strings' = strings \cup ({t} \ {NoText})
  /\ UNCHANGED functions

\* lexer_new_ostring: the string is on the stack until it is in the table.
lexer_new_ostring(t) ==
  /\ strings' = strings \cup ({t} \ {NoText})
  /\ functions' = InTable(indexes, {t} \ {NoText})

Advance(what, then) == step' = "lex" /\ held' = what /\ after' = then

\* advance() takes the token that was looked ahead.
lexed ==
  /\ step = "lex" /\ lookahead # NoToken
  /\ current' = lookahead /\ lookahead' = NoToken /\ step' = after
  /\ UNCHANGED <<strings, functions, indexes, held, after, loaded>>

\* advance() calls lexer_lex.
Lex(tt) ==
  /\ step = "lex" /\ lookahead = NoToken
  /\ lexer_new_ostring(tt[2]) /\ current' = TokenOf(tt[1], tt[2])
  /\ step' = after
  /\ UNCHANGED <<indexes, lookahead, held, after, loaded>>

-----------------------------------------------------------------------------
(* The parser *)

\* Keywords, operators, numbers: no string is concerned.
Skip ==
  /\ step = "parse" /\ current.kind \in {"other", "open"}
  /\ Advance(NoToken, "parse")
  /\ UNCHANGED <<strings, functions, indexes, current, lookahead, loaded>>

\* consume_ident, and a string literal in prefix_expr: the next token is read
\* before the string is used.
Consume ==
  /\ step \in {"parse", "item"} /\ current.kind \in {"name", "string"}
  /\ Advance(current, "register")
  /\ UNCHANGED <<strings, functions, indexes, current, lookahead, loaded>>

\* function_call with a string as its argument: used first, then skipped.
StringArgument ==
  /\ step = "parse" /\ current.kind = "string"
  /\ functions' = InChunk(Depth, {current.text})
  /\ Advance(NoToken, "parse")
  /\ UNCHANGED <<strings, indexes, current, lookahead, loaded>>

\* local_push, or compiler_add_ostring for a constant or the name of a global
\* or of a field: the string is in the chunk.
Register ==
  /\ step = "register"
  /\ functions' = InChunk(Depth, {held.text})
  /\ held' = NoToken /\ step' = "parse"
  /\ UNCHANGED <<strings, indexes, current, lookahead, after, loaded>>

\* resolve_upvalue: a local of function d, an upvalue of all those in it.
RegisterUpvalue(d) ==
  /\ step = "register" /\ d < Depth /\ held.text \in functions[d].chunk
  /\ functions' = [e \in 1..Depth |->
                     IF e > d THEN [functions[e] EXCEPT !.chunk = @ \cup {held.text}]
                     ELSE functions[e]]
  /\ held' = NoToken /\ step' = "parse"
  /\ UNCHANGED <<strings, indexes, current, lookahead, after, loaded>>

\* A table constructor meets a name and looks at the token after it.
constructor ==
  /\ step = "parse" /\ current.kind = "name"
  /\ step' = "lookahead"
  /\ UNCHANGED <<strings, functions, indexes, current, lookahead, held, after, loaded>>

Lookahead(tt) ==
  /\ step = "lookahead"
  /\ lexer_new_ostring(tt[2]) /\ lookahead' = TokenOf(tt[1], tt[2])
  /\ step' = "item"
  /\ UNCHANGED <<indexes, current, held, after, loaded>>

\* function_definition up to the parameters: the lexer uses the new table.
function_open ==
  /\ step = "parse" /\ current.kind = "open" /\ Depth < MaxFunctions
  /\ functions' = Append(functions, NewFunction) /\ indexes' = Depth + 1
  /\ step' = "params"
  /\ UNCHANGED <<strings, current, lookahead, held, after, loaded>>

\* The parenthesis is consumed before a method's first parameter, which is not
\* in the text, is declared.
Params(then) ==
  /\ step = "params" /\ then \in {"parse", "self"} /\ Advance(NoToken, then)
  /\ UNCHANGED <<strings, functions, indexes, current, lookahead, loaded>>

\* What follows the declaration of such a local: the next of the three that a
\* `for' has, and then its own variable.
AfterLiteral ==
  [self |-> "parse", index |-> "limit", limit |-> "increment", increment |-> "ident",
   generator |-> "state", state |-> "control", control |-> "ident"]

local_push_literal ==
  /\ step \in DOMAIN AfterLiteral
  /\ lexer_new_ostring(LiteralText[step]) /\ held' = TokenOf("name", LiteralText[step])
  /\ step' = "local" /\ after' = AfterLiteral[step]
  /\ UNCHANGED <<indexes, current, lookahead, loaded>>

LocalPush ==
  /\ step = "local"
  /\ functions' = InChunk(Depth, {held.text})
  /\ held' = NoToken /\ step' = after
  /\ UNCHANGED <<strings, indexes, current, lookahead, after, loaded>>

\* for_statement: the name of its variable, and the token after it.  An
\* expression has no statements but in its own functions: no function compiles
\* two headers at a time.
For ==
  /\ step = "parse" /\ current.kind = "for" /\ functions[Depth].ident = NoText
  /\ Advance(NoToken, "for")
  /\ UNCHANGED <<strings, functions, indexes, current, lookahead, loaded>>

ForIdent ==
  /\ step = "for" /\ current.kind = "name"
  /\ Advance(current, "header")
  /\ UNCHANGED <<strings, functions, indexes, current, lookahead, loaded>>

\* The `=' is consumed, and expressions follow ...
for_numeric ==
  /\ step = "header"
  /\ functions' = [functions EXCEPT ![Depth].ident = held.text]
  /\ Advance(NoToken, "parse")
  /\ UNCHANGED <<strings, indexes, current, lookahead, loaded>>

\* ... to their end.
ForLocals ==
  /\ step = "parse" /\ functions[Depth].ident # NoText
  /\ step' = "index"
  /\ UNCHANGED <<strings, functions, indexes, current, lookahead, held, after, loaded>>

for_generic ==
  /\ step = "header"
  /\ functions' = [functions EXCEPT ![Depth].ident = held.text]
  /\ held' = NoToken /\ step' = "generator"
  /\ UNCHANGED <<strings, indexes, current, lookahead, after, loaded>>

\* local_push of the variable.
ForLocal ==
  /\ step = "ident"
  /\ functions' = [functions EXCEPT ![Depth].chunk = @ \cup {functions[Depth].ident},
                                    ![Depth].ident = NoText]
  /\ step' = "parse"
  /\ UNCHANGED <<strings, indexes, current, lookahead, held, after, loaded>>

\* The end of a function: the token after it is lexed before it is closed.
ConsumeEnd ==
  /\ step = "parse" /\ current.kind = "end" /\ Depth > 1
  /\ functions[Depth].ident = NoText
  /\ Advance(NoToken, "close")
  /\ UNCHANGED <<strings, functions, indexes, current, lookahead, loaded>>

function_close ==
  /\ step = "close"
  /\ indexes' = Depth - 1 /\ step' = "push"
  /\ UNCHANGED <<strings, functions, current, lookahead, held, after, loaded>>

\* function_push: the parent has the chunk, the table is popped.
function_push ==
  /\ step = "push" /\ Depth > 1
  /\ functions' = [d \in 1..(Depth - 1) |->
                     IF d = Depth - 1
                     THEN [functions[d] EXCEPT !.chunk = @ \cup functions[Depth].chunk]
                     ELSE functions[d]]
  /\ UNCHANGED <<strings, indexes, lookahead, held, after, loaded>>
  /\ current' = [current EXCEPT !.late = current.text \notin Reachable' \cup {NoText}]
  /\ step' = "parse"

\* The end of the text: the main function becomes a closure on the stack.
parser_program ==
  /\ step = "parse" /\ current.kind = "eof" /\ Depth = 1
  /\ functions[1].ident = NoText
  /\ loaded' = functions[1].chunk
  /\ functions' = <<>> /\ indexes' = 0 /\ step' = "done"
  /\ UNCHANGED <<strings, current, lookahead, held, after>>

\* A syntax error, in any operation: vm_load catches it, the stack is cut.
vm_throw ==
  /\ step \notin {"done", "failed", "UNDEFINED"}
  /\ functions' = <<>> /\ step' = "failed"
  /\ current' = NoToken /\ lookahead' = NoToken /\ held' = NoToken
  /\ UNCHANGED <<strings, indexes, after, loaded>>

-----------------------------------------------------------------------------

\* function_open for the main function and the first token.
LoadingInit ==
  /\ strings = {} /\ functions = <<NewFunction>> /\ indexes = 1
  /\ current = NoToken /\ lookahead = NoToken /\ held = NoToken
  /\ step = "lex" /\ after = "parse" /\ loaded = {}

LoadingNext ==
  \/ Collect \/ lexed \/ (\E tt \in TokenTexts : Lex(tt) \/ Lookahead(tt))
  \/ Skip \/ Consume \/ StringArgument \/ Register
  \/ (\E d \in 1..MaxFunctions : RegisterUpvalue(d))
  \/ constructor \/ function_open \/ (\E then \in {"parse", "self"} : Params(then))
  \/ local_push_literal \/ LocalPush
  \/ For \/ ForIdent \/ for_numeric \/ ForLocals \/ for_generic \/ ForLocal
  \/ ConsumeEnd \/ function_close \/ function_push \/ parser_program \/ vm_throw

LoadingSpec == LoadingInit /\ [][LoadingNext]_loadingVars

-----------------------------------------------------------------------------
(* Properties *)

\* Types, and the assertion of lookahead(): it is called when nothing has been
\* looked ahead.
LoadingTypeOK ==
  /\ strings \subseteq Text /\ loaded \subseteq Text
  /\ functions \in Seq([table : SUBSET Text, chunk : SUBSET Text, ident : Text \cup {NoText}])
  /\ Depth <= MaxFunctions /\ indexes \in 0..MaxFunctions
  /\ {current, lookahead, held} \subseteq Token
  /\ step = "lookahead" => lookahead = NoToken

\* A string that the parser still holds is not freed, whatever the allocations
\* between lexing and use (consume_ident: "We assume the Lexer properly marked
\* the interned string somewhere."), but for the token that follows the end of
\* a function.  The variable of a `for' is held longest: while the expressions
\* of its header, with functions in them, are compiled.
TokensLive ==
  /\ \A t \in Held : t.text # NoText /\ ~t.late => t.text \in strings
  /\ Idents \subseteq strings

\* What is in the chunks and the tables, and in the function that is loaded in
\* the end, is not freed, although the tables are dropped one by one.
ConstantsLive ==
  /\ loaded \subseteq strings
  /\ \A d \in 1..Depth : functions[d].table \cup functions[d].chunk \subseteq strings

\* The lexer puts strings into the table of the innermost function, which is
\* still on the stack (function_open, function_close).
TableOnStack ==
  step \in {"lex", "lookahead"} \cup DOMAIN AfterLiteral => indexes = Depth

=============================================================================

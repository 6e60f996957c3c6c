------------------------------- MODULE Lexer -------------------------------
(***************************************************************************)
(* lexer.cpp over the stream of stream.hpp: a program arrives in blocks    *)
(* from a reader that is called for the next one in the middle of whatever *)
(* is being read.  A step reads one character, as every turn of a loop in  *)
(* the source does, or ends a token.                                       *)
(***************************************************************************)
EXTENDS Lexemes

CONSTANTS
  Alphabets, \* the sets of characters a text is made of
  MaxText,   \* bounds: the length of a text
  MaxTokens  \* and the number of tokens and comments

VARIABLES
  stream,    \* Stream: block, cursor, remaining
  character, \* the current character, or STREAM_END
  line,
  buffer,    \* the builder
  at,        \* where in lexer_lex it is: the loop it is in and its locals
  alphabet,  \* one of Alphabets
  supplied,  \* history: the blocks the reader gave, one after the other
  text,      \* history: the characters that get_char returned
  from,      \* history: where in text the token began
  tokens,    \* history: the tokens and comments found, with their places
  again,     \* history: the reader was called after it had come to its end
  departs    \* history: how this token was mistaken for another: stray, for a
             \* bracket in a long string or comment that does not close it, or
             \* cut, for a backslash that is the last character of the text

vars == <<stream, character, line, buffer, at, alphabet,
          supplied, text, from, tokens, again, departs>>

STREAM_END == "STREAM_END"

\* The byte 0xFF, which get_char cannot tell from STREAM_END, is in no text.
ASSUME LexerAssumption ==
  MaxText \in Nat /\ \A a \in Alphabets : STREAM_END \notin a

-----------------------------------------------------------------------------
(* The stream and the current character *)

\* Blocks of one or two characters: enough to end anywhere in a token.
NextBlocks ==
  LET Room(n) == Len(supplied) + n <= MaxText
  IN  {<<a>> : a \in {x \in alphabet : Room(1)}}
      \cup {<<a, b>> : a, b \in {x \in alphabet : Room(2)}}

\* The reader is called: it gives the next block, or comes to its end.
fill(s) ==
  {[char |-> STREAM_END, stream |-> s, block |-> <<>>]} \cup
  {[char |-> b[1], block |-> b,
    stream |-> [block |-> b, cursor |-> 2, remaining |-> Len(b) - 1]] : b \in NextBlocks}

\* What lies behind a block in memory.
Beyond == "beyond"

get_char(s) ==
  IF s.remaining > 0
  THEN {[char |-> IF s.cursor <= Len(s.block) THEN s.block[s.cursor] ELSE Beyond,
         stream |-> [s EXCEPT !.cursor = @ + 1, !.remaining = @ - 1],
         block |-> <<>>]}
  ELSE fill([s EXCEPT !.remaining = -1])   \* or less: any negative number

\* Read the next character.
advance ==
  \E next \in get_char(stream) :
    /\ character' = next.char /\ stream' = next.stream
    /\ supplied' = supplied \o next.block
    /\ text' = IF next.char = STREAM_END THEN text ELSE Append(text, next.char)
    /\ again' = (again \/ (character = STREAM_END))

save(chars) == buffer' = buffer \o chars
save_advance == advance /\ save(<<character>>)
skip_advance == advance /\ UNCHANGED buffer

Stay == UNCHANGED <<stream, character, supplied, text, again>>

is_eof == character = STREAM_END

\* The place of the last character that was discharged.
Done == IF is_eof THEN Len(text) ELSE Len(text) - 1

\* Mutant: newlines in strings and comments are not counted.
CountLine_Mutant_space(ch) ==
  line' = IF ch = "\n" /\ at.in = "space" THEN line + 1 ELSE line

\* A newline counts when it is discharged.
CountLine(ch) == line' = IF ch = "\n" THEN line + 1 ELSE line

-----------------------------------------------------------------------------
(* Tokens *)

Kept == UNCHANGED <<line, alphabet, from, tokens, departs>>

Goto(place) == at' = place /\ Kept
Loop(name) == [in |-> name]

Found(kind, contents, last) ==
  /\ tokens' = Append(tokens, [kind |-> kind, contents |-> contents, first |-> from,
                               last |-> last, mistaken |-> departs # {}])
  /\ at' = Loop(IF kind = "eof" THEN "end" ELSE "idle")
  /\ UNCHANGED <<buffer, line, alphabet, from, departs>>

\* The token ends with the current character, or before it.
EmitWith(kind, contents) == advance /\ Found(kind, contents, Done + 1)
Emit(kind, contents) == Stay /\ Found(kind, contents, Done)

error == Goto(Loop("error")) /\ Stay /\ UNCHANGED buffer

\* lexer_lex is called: the parser wants a token.  It starts over after a
\* comment.
lexer_lex ==
  /\ at.in = "idle" /\ Len(tokens) < MaxTokens
  /\ buffer' = <<>> /\ at' = Loop("space") /\ from' = Done + 1 /\ departs' = {}
  /\ Stay /\ UNCHANGED <<line, alphabet, tokens>>

skip_whitespace ==
  /\ at.in = "space" /\ character \in Space
  /\ skip_advance /\ CountLine(character)
  /\ from' = from + 1
  /\ UNCHANGED <<at, alphabet, tokens, departs>>

EndOfFile ==
  /\ at.in = "space" /\ is_eof
  /\ Emit("eof", <<>>)

First ==
  /\ at.in = "space" /\ ~is_eof /\ character \notin Space
  /\ save_advance /\ Goto(Loop("first"))

\* The first character of a token has been read: which loop comes next.
Begins(chars) == at.in = "first" /\ buffer[1] \in chars

-----------------------------------------------------------------------------
(* Names and numbers *)

Name ==
  /\ Begins(Letter)
  /\ IF character \in Ident
     THEN save_advance /\ Goto(at)
     ELSE Emit(IF buffer \in Keyword THEN "keyword" ELSE "ident", buffer)

\* The end of a number: the C library decides whether it is one.
EndNumber(valid) == IF valid THEN Emit("number", buffer) ELSE error

\* make_number after a zero that a letter follows.
Prefix ==
  /\ Begins({"0"}) /\ Len(buffer) = 1 /\ character \in Letter
  /\ IF character \in {"b", "o", "d", "x"}
     THEN save_advance /\ Goto(Loop("prefixed"))
     ELSE save_advance /\ Goto(Loop("error"))

Prefixed ==
  /\ at.in = "prefixed"
  /\ IF character \in Ident THEN save_advance /\ Goto(at)
     ELSE EndNumber(IsPrefixed(buffer))

\* Digits and points in any order, and perhaps the letter of an exponent.
Digits ==
  /\ \/ at.in = "digits"
     \/ Begins(Digit) /\ ~(buffer = <<"0">> /\ character \in Letter)
  /\ CASE character \in Digit \cup {"."} -> save_advance /\ Goto(Loop("digits"))
       [] character = "e" -> save_advance /\ Goto(Loop("sign"))
       [] OTHER -> Stay /\ UNCHANGED buffer /\ Goto(Loop("rest"))

\* The sign of an exponent.
Sign ==
  /\ at.in = "sign" /\ Goto(Loop("rest"))
  /\ IF character \in {"+", "-"} THEN save_advance ELSE Stay /\ UNCHANGED buffer

\* Everything up to the next separator belongs to the number.
Rest ==
  /\ at.in = "rest"
  /\ IF character \in Ident THEN save_advance /\ Goto(at)
     ELSE EndNumber(IsFloat(buffer))

-----------------------------------------------------------------------------
(* Strings *)

\* Mutant: the end of the text is not looked for.
String_Mutant_no_end ==
  /\ Begins(Quote)
  /\ CASE character = "\n" -> error
       [] character = buffer[1] -> EmitWith("string", Tail(buffer))
       [] character = "\\" -> skip_advance /\ Goto(Loop("escape"))
       [] OTHER -> save_advance /\ Goto(at)

\* Mutant: one kind of quote closes every string.
String_Mutant_double ==
  /\ Begins(Quote)
  /\ CASE is_eof \/ character = "\n" -> error
       [] character = "\"" -> EmitWith("string", Tail(buffer))
       [] character = "\\" -> skip_advance /\ Goto(Loop("escape"))
       [] OTHER -> save_advance /\ Goto(at)

\* make_string up to the quote or a backslash.
String ==
  /\ Begins(Quote)
  /\ CASE is_eof \/ character = "\n" -> error
       [] character = buffer[1] -> EmitWith("string", Tail(buffer))
       [] character = "\\" -> skip_advance /\ Goto(Loop("escape"))
       [] OTHER -> save_advance /\ Goto(at)

\* The character after the backslash.  At the end of the text get_char is
\* called once more all the same.
Escaped ==
  /\ at.in = "escape"
  /\ IF character \in DOMAIN Escape
     THEN /\ advance /\ save(<<Escape[character]>>)
          /\ at' = Loop("first") /\ CountLine(character)
          /\ UNCHANGED <<alphabet, from, tokens, departs>>
     ELSE /\ advance /\ UNCHANGED buffer
          /\ at' = Loop("error")
          /\ departs' = IF is_eof THEN departs \cup {"cut"} ELSE departs
          /\ UNCHANGED <<line, alphabet, from, tokens>>

\* get_nesting of an opening bracket, then the second bracket.
LongBracket ==
  /\ at.in = "open"
  /\ CASE character = "=" -> /\ IF at.do_save THEN save_advance ELSE skip_advance
                             /\ Goto([at EXCEPT !.nest = @ + 1])
       [] character = "[" -> /\ advance
                             /\ save(IF at.do_save THEN <<"[">> ELSE <<>>)
                             /\ Goto([at EXCEPT !.in = "long"])
       [] OTHER -> IF at.do_save THEN error
                   ELSE Goto(Loop("line")) /\ Stay /\ UNCHANGED buffer

\* skip_multiline up to a closing bracket.
Long ==
  /\ at.in = "long"
  /\ CASE is_eof -> error
       [] character = "]" -> /\ skip_advance
                             /\ Goto([in |-> "close", nest |-> at.nest,
                                      do_save |-> at.do_save, closing |-> 0])
       [] OTHER -> /\ IF at.do_save THEN save_advance ELSE skip_advance
                   /\ CountLine(character)
                   /\ UNCHANGED <<at, alphabet, from, tokens, departs>>

Opened == [in |-> "long", nest |-> at.nest, do_save |-> at.do_save]
EndLong ==
  IF at.do_save THEN EmitWith("string", From(buffer, at.nest + 3))
  ELSE EmitWith("comment", <<>>)

\* get_nesting of what may be the closing bracket, and the second bracket.
Close ==
  /\ at.in = "close"
  /\ CASE character = "=" -> skip_advance /\ Goto([at EXCEPT !.closing = @ + 1])
       [] character = "]" /\ at.closing = at.nest ->
            EndLong
       [] OTHER ->
            /\ IF character = "]" THEN advance ELSE Stay
            /\ save(IF at.do_save THEN LongClose(at.closing) ELSE <<>>)
            /\ at' = Opened
            /\ departs' = IF character = "]" \/ at.do_save
                          THEN departs \cup {"stray"} ELSE departs
            /\ UNCHANGED <<line, alphabet, from, tokens>>

-----------------------------------------------------------------------------
(* Operators and comments *)

\* Operators that = may continue.
Longer == {"~", "=", "<", ">"}

Operator ==
  /\ Begins(Longer)
  /\ IF character = "=" THEN EmitWith(Symbol[buffer \o <<"=">>], <<>>)
     ELSE IF buffer \in DOMAIN Symbol
     THEN Emit(Symbol[buffer], <<>>) ELSE error

\* Mutant: two points and no more.
Dots_Mutant_two ==
  /\ Begins({"."})
  /\ IF character = "." THEN EmitWith("CONCAT", <<>>)
     ELSE IF character \in Digit
     THEN Goto(Loop("digits")) /\ Stay /\ UNCHANGED buffer
     ELSE Emit("DOT", <<>>)

Dots ==
  /\ Begins({"."})
  /\ IF character = "." THEN skip_advance /\ Goto(Loop("dots"))
     ELSE IF character \in Digit
     THEN Goto(Loop("digits")) /\ Stay /\ UNCHANGED buffer
     ELSE Emit("DOT", <<>>)

ThirdDot ==
  /\ at.in = "dots"
  /\ IF character = "." THEN EmitWith("VARARG", <<>>)
     ELSE Emit("CONCAT", <<>>)

OpenBracket ==
  /\ Begins({"["})
  /\ IF character \in {"[", "="}
     THEN /\ Goto([in |-> "open", nest |-> 0, do_save |-> TRUE])
          /\ Stay /\ UNCHANGED buffer
     ELSE Emit("OPEN_BRACE", <<>>)

Dash ==
  /\ Begins({"-"})
  /\ IF character = "-" THEN skip_advance /\ Goto(Loop("comment"))
     ELSE Emit("DASH", <<>>)

\* skip_comment: a bracket may open a long comment.
Comment ==
  /\ at.in = "comment"
  /\ IF character = "["
     THEN skip_advance /\ Goto([in |-> "open", nest |-> 0, do_save |-> FALSE])
     ELSE Goto(Loop("line")) /\ Stay /\ UNCHANGED buffer

\* Mutant: only a newline ends the comment.
Line_Mutant_newline ==
  /\ at.in = "line"
  /\ IF character = "\n" THEN Emit("comment", <<>>) ELSE skip_advance /\ Goto(at)

\* The comment ends with the line; the lexer goes on to the next token.
Line ==
  /\ at.in = "line"
  /\ IF is_eof \/ character = "\n"
     THEN Emit("comment", <<>>)
     ELSE skip_advance /\ Goto(at)

\* Separators, and characters that begin nothing.
Single ==
  /\ at.in = "first"
  /\ buffer[1] \notin Ident \cup Quote \cup Longer \cup {".", "[", "-"}
  /\ IF buffer \in DOMAIN Symbol
     THEN Emit(Symbol[buffer], <<>>) ELSE error

-----------------------------------------------------------------------------

Init ==
  /\ alphabet \in Alphabets
  /\ stream = [block |-> <<>>, cursor |-> 1, remaining |-> 0]
  /\ character = "NUL" /\ line = 1 /\ buffer = <<>> /\ at = Loop("make")
  /\ supplied = <<>> /\ text = <<>> /\ again = FALSE
  /\ from = 1 /\ tokens = <<>> /\ departs = {}

lexer_make == at.in = "make" /\ skip_advance /\ Goto(Loop("idle"))

Next ==
  \/ lexer_make \/ lexer_lex \/ skip_whitespace \/ EndOfFile \/ First
  \/ Name \/ Prefix \/ Prefixed \/ Digits \/ Sign \/ Rest
  \/ String \/ Escaped \/ LongBracket \/ Long \/ Close
  \/ Operator \/ Dots \/ ThirdDot \/ OpenBracket \/ Dash \/ Comment \/ Line \/ Single

\* The parser asks for tokens until it has them all.
Spec == Init /\ [][Next]_vars /\ WF_vars(Next)

-----------------------------------------------------------------------------
(* Properties *)

\* Every variable has its type, and the text that was read its alphabet.
TypeOK ==
  /\ All(text, alphabet) /\ All(supplied, alphabet)
  /\ character \in alphabet \cup {STREAM_END, "NUL"}
  /\ stream.remaining \in -1..1 /\ line \in Nat \ {0}
  /\ from \in 1..(MaxText + 1) /\ departs \subseteq {"stray", "cut"}
  /\ \A i \in DOMAIN tokens :
       tokens[i].first \in 1..(MaxText + 1) /\ tokens[i].last \in 0..MaxText

\* However the reader cuts the text, every character is read once and in
\* order, and a reader that has come to its end is not called again, but for
\* a backslash that is cut off (Stream, and every loop of lexer.cpp).
ReadInOrder ==
  /\ TypeOK
  /\ text = SubSeq(supplied, 1, Len(text))
  /\ ~is_eof => stream.remaining = Len(supplied) - Len(text)
  /\ again => "cut" \in departs

\* The line is that of the current character: newlines are counted once
\* wherever they stand, in comments, long strings and after a backslash.
LineIsRight ==
  at.in # "make" => line = 1 + Cardinality({i \in 1..Done : text[i] = "\n"})

LexemeAt(token) == SubSeq(text, token.first, token.last)

\* Each token is the longest text that is a lexeme where it begins, whatever
\* comes after it, with its kind and contents, and between tokens there is
\* only space (lexer_lex), but for tokens that were mistaken.
TokensAreLongest ==
  /\ \A i \in DOMAIN tokens :
       LET token == tokens[i]
       IN  ~token.mistaken /\ token.kind # "eof" =>
             /\ IsLexeme(LexemeAt(token))
             /\ token.kind = KindOf(LexemeAt(token))
             /\ token.contents = ContentsOf(LexemeAt(token))
             /\ \A n \in (token.last + 1)..Len(text) :
                  ~IsLexeme(SubSeq(text, token.first, n))
  /\ \A i \in 1..(Len(tokens) - 1) :
       All(SubSeq(text, tokens[i].last + 1, tokens[i + 1].first - 1), Space)

\* The lexeme s at the beginning of rest is on the way to a longer one.
Unfinished(s, rest) ==
  LET next == SubSeq(rest, Len(s) + 1, Len(s) + 1)
  IN  \/ IsNumber(s) /\ next # <<>> /\ All(next, Ident \cup {"."})
      \/ s = <<"[">> /\ next # <<>> /\ All(next, {"[", "="})
      \/ s = <<".">> /\ next # <<>> /\ All(next, Digit)
      \/ \E n \in Levels(rest) :
           LET open == <<"-", "-">> \o LongOpen(n)
           IN  IsStrictPrefix(s, open) /\ IsPrefix(open, rest)

\* A text is refused only if there is no lexeme where the token began, other
\* than the beginning of one that is not finished (error, expect).
ErrorsAreJust ==
  at.in = "error" /\ departs = {} =>
    LET rest == From(text, from)
    IN  \A n \in 1..Len(rest) :
          IsLexeme(SubSeq(rest, 1, n)) => Unfinished(SubSeq(rest, 1, n), rest)

\* Every text comes to an end, with its last token or an error: no loop of
\* lexer.cpp goes on at the end of the text.
Ends == <>(at.in \in {"end", "error"} \/ Len(tokens) = MaxTokens)

=============================================================================

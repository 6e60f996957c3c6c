------------------------------ MODULE Lexemes ------------------------------
(***************************************************************************)
(* What the tokens of the language look like, as sets of texts: a text is  *)
(* a sequence of characters.  Nothing here says how a token is found.      *)
(***************************************************************************)
EXTENDS Integers, Sequences, SequencesExt, FiniteSets, FiniteSetsExt

Letter == {"a", "b", "d", "e", "n", "o", "x", "z", "_"}
Digit  == {"0", "1"}
Ident  == Letter \cup Digit
Space  == {" ", "\t", "\r", "\n"}
Quote  == {"'", "\""}

Keyword == {<<"d", "o">>, <<"e", "n", "d">>}

\* The operators and separators, each with its name in Token_Type.  There
\* `>' is TOKEN_GREATER_EQ and `>=' TOKEN_GREATER, as the parser takes them.
Symbol == [s \in {<<"(">>, <<")">>, <<"[">>, <<"]">>, <<"-">>, <<"+">>, <<"/">>,
                  <<"=">>, <<"=", "=">>, <<"~", "=">>, <<"<">>, <<"<", "=">>,
                  <<">">>, <<">", "=">>, <<".">>, <<".", ".">>,
                  <<".", ".", ".">>, <<",">>, <<";">>} |->
  CASE s = <<"(">> -> "OPEN_PAREN" [] s = <<")">> -> "CLOSE_PAREN"
    [] s = <<"[">> -> "OPEN_BRACE" [] s = <<"]">> -> "CLOSE_BRACE"
    [] s = <<"-">> -> "DASH" [] s = <<"+">> -> "PLUS" [] s = <<"/">> -> "SLASH"
    [] s = <<"=">> -> "ASSIGN" [] s = <<"=", "=">> -> "EQ"
    [] s = <<"~", "=">> -> "NOT_EQ"
    [] s = <<"<">> -> "LESS" [] s = <<"<", "=">> -> "LESS_EQ"
    [] s = <<">">> -> "GREATER_EQ" [] s = <<">", "=">> -> "GREATER"
    [] s = <<".">> -> "DOT" [] s = <<".", ".">> -> "CONCAT"
    [] s = <<".", ".", ".">> -> "VARARG"
    [] s = <<",">> -> "COMMA" [] s = <<";">> -> "SEMI"]

\* The characters an escape sequence may name, with what they stand for.
Escape == [c \in {"0", "a", "b", "n", "\n", "\\"} \cup Quote |->
  CASE c = "0" -> "NUL" [] c = "a" -> "BEL" [] c = "b" -> "BS"
    [] c = "n" -> "\n" [] OTHER -> c]

All(s, set) == \A i \in DOMAIN s : s[i] \in set
Repeat(c, n) == [i \in 1..n |-> c]
From(s, i) == SubSeq(s, i, Len(s))

-----------------------------------------------------------------------------

IsName(s) == s # <<>> /\ s[1] \in Letter /\ All(s, Ident)

IsDigits(s) == All(s, Digit)

\* Digits with at most one point among them, and at least one digit.
IsDecimal(s) ==
  \/ s # <<>> /\ IsDigits(s)
  \/ \E i \in DOMAIN s : /\ s[i] = "." /\ Len(s) > 1
                         /\ IsDigits(SubSeq(s, 1, i - 1)) /\ IsDigits(From(s, i + 1))

\* An exponent: its letter, perhaps a sign, and digits.
IsExponent(s) ==
  /\ Len(s) > 1 /\ s[1] = "e"
  /\ LET digits == From(s, IF s[2] \in {"+", "-"} THEN 3 ELSE 2)
     IN  digits # <<>> /\ IsDigits(digits)

DigitsOf(prefix) ==
  CASE prefix = "b" -> {"0", "1"} [] prefix = "o" -> {"0", "1"}
    [] prefix = "d" -> {"0", "1"} [] prefix = "x" -> {"0", "1", "a", "b", "d", "e"}

\* What strtoul takes after the letter of a base: in base 16 a prefix of its own
\* may come before the digits, so that 0x0x0 is a number.
IsInteger(s, base) ==
  \/ s # <<>> /\ All(s, DigitsOf(base))
  \/ base = "x" /\ Len(s) > 2 /\ s[1] = "0" /\ s[2] = "x" /\ All(From(s, 3), DigitsOf(base))

IsPrefixed(s) ==
  /\ Len(s) > 2 /\ s[1] = "0" /\ s[2] \in {"b", "o", "d", "x"}
  /\ IsInteger(From(s, 3), s[2])

\* What strtod takes.
IsFloat(s) ==
  \/ IsDecimal(s)
  \/ \E i \in DOMAIN s : IsDecimal(SubSeq(s, 1, i - 1)) /\ IsExponent(From(s, i))

\* A zero is not followed by a letter but by that of a base.
IsNumber(s) ==
  \/ IsPrefixed(s)
  \/ IsFloat(s) /\ ~(Len(s) > 1 /\ s[1] = "0" /\ s[2] \in Letter)

-----------------------------------------------------------------------------

\* The backslashes that begin an escape sequence: odd ones of a run.
Escaping(s) ==
  {i \in DOMAIN s :
     /\ s[i] = "\\"
     /\ LET before == {j \in 1..(i - 1) : s[j] # "\\"}
        IN  (i - (IF before = {} THEN 0 ELSE Max(before))) % 2 = 1}

\* A quoted string: only its last character is its quote, unless escaped, it
\* is on one line, unless the end of the line is escaped.
IsQuoted(s) ==
  LET n == Len(s)
      escaped == {i + 1 : i \in Escaping(s)}
  IN  /\ n > 1 /\ s[1] \in Quote
      /\ s[n] = s[1] /\ n \notin escaped
      /\ \A i \in 2..(n - 1) : IF i \in escaped THEN s[i] \in DOMAIN Escape
                               ELSE s[i] \notin {s[1], "\n"}

\* What a quoted string stands for.
Unquoted(s) ==
  LET esc  == Escaping(s)
      kept == SelectSeq([i \in 1..(Len(s) - 2) |-> i + 1], LAMBDA i : i \notin esc)
  IN  [k \in DOMAIN kept |-> IF kept[k] - 1 \in esc THEN Escape[s[kept[k]]]
                             ELSE s[kept[k]]]

LongOpen(n) == <<"[">> \o Repeat("=", n) \o <<"[">>
LongClose(n) == <<"]">> \o Repeat("=", n) \o <<"]">>

\* A text between long brackets of level n: it ends with the first closing
\* bracket of that level.
IsLong(s, n) ==
  /\ Len(s) >= 2 * n + 4
  /\ SubSeq(s, 1, n + 2) = LongOpen(n)
  /\ {i \in (n + 3)..(Len(s) - n - 1) : SubSeq(s, i, i + n + 1) = LongClose(n)}
     = {Len(s) - n - 1}

Levels(s) == 0..Len(s)
IsLongString(s) == \E n \in Levels(s) : IsLong(s, n)
Inside(s) == LET n == CHOOSE n \in Levels(s) : IsLong(s, n)
             IN  SubSeq(s, n + 3, Len(s) - n - 2)

\* A comment: two dashes, and a text between long brackets or else the rest
\* of the line.
IsComment(s) ==
  /\ Len(s) > 1 /\ s[1] = "-" /\ s[2] = "-"
  /\ LET rest == From(s, 3)
     IN  IF \E n \in Levels(s) : IsPrefix(LongOpen(n), rest)
         THEN IsLongString(rest)
         ELSE \A i \in DOMAIN rest : rest[i] # "\n"

-----------------------------------------------------------------------------

\* The kind of a text that is a lexeme, and what the parser is told with it.
IsLexeme(s) ==
  IsName(s) \/ IsNumber(s) \/ IsQuoted(s) \/ IsLongString(s) \/ IsComment(s)
  \/ s \in DOMAIN Symbol

KindOf(s) ==
  CASE IsName(s) -> IF s \in Keyword THEN "keyword" ELSE "ident"
    [] IsNumber(s) -> "number"
    [] IsQuoted(s) \/ IsLongString(s) -> "string"
    [] IsComment(s) -> "comment"
    [] s \in DOMAIN Symbol -> Symbol[s]

ContentsOf(s) ==
  CASE IsName(s) \/ IsNumber(s) -> s
    [] IsQuoted(s) -> Unquoted(s)
    [] IsLongString(s) -> Inside(s)
    [] OTHER -> <<>>

=============================================================================

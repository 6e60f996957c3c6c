---------------------------- MODULE LexerProofs -----------------------------
(***************************************************************************)
(* Proofs about Lexer for every set of alphabets and texts of any length:  *)
(* every character is read once and in order, and the line is right.       *)
(*                                                                         *)
(* The second half is about Loading, which takes the lexer's tokens in any *)
(* order, for any texts and any depth of nesting: what the parser holds is *)
(* in a table or a chunk the collector finds, and the lexer's table is the *)
(* innermost.                                                              *)
(***************************************************************************)
EXTENDS Lexer, Loading, SequenceTheorems, FiniteSetTheorems, TLAPS

-----------------------------------------------------------------------------
(* The inductive invariant *)

\* The text is what the reader supplied up to the current character, and
\* what remains of the block is what it supplied after that.
StreamOK ==
  /\ alphabet \in Alphabets
  /\ supplied \in Seq(alphabet) /\ text \in Seq(alphabet)
  /\ Len(text) <= Len(supplied) /\ Len(supplied) <= MaxText
  /\ \A i \in 1..Len(text) : text[i] = supplied[i]
  /\ stream \in [block : Seq(alphabet), cursor : Nat, remaining : -1..1]
  /\ stream.remaining = 1 => /\ stream.cursor = 2 /\ Len(stream.block) = 2
                             /\ stream.block[2] = supplied[Len(text) + 1]
  /\ IF is_eof THEN stream.remaining = -1 /\ Len(text) = Len(supplied)
     ELSE stream.remaining = Len(supplied) - Len(text)

\* The current character is the last of the text, but at its two ends.
CharacterOK ==
  \/ at.in = "make" /\ character = "NUL" /\ text = <<>>
  \/ at.in # "make" /\ is_eof
  \/ at.in # "make" /\ text # <<>> /\ character = text[Len(text)]

NewLines(t, n) == {i \in 1..n : t[i] = "\n"}

PlaceOK ==
  /\ "in" \in DOMAIN at
  /\ line \in Nat
  /\ IF at.in = "make" THEN line = 1 /\ from = 1
     ELSE line = 1 + Cardinality(NewLines(text, Done)) /\ from \in 1..(Done + 1)

\* The reader is called again only on the way to an error.
AgainOK ==
  /\ departs \subseteq {"stray", "cut"}
  /\ again \in BOOLEAN
  /\ again => at.in = "error" /\ "cut" \in departs

TokensOK ==
  /\ tokens \in Seq(Range(tokens))
  /\ \A i \in DOMAIN tokens : /\ tokens[i].first \in 1..(Len(text) + 1)
                              /\ tokens[i].last \in 0..Len(text)

IInv == StreamOK /\ CharacterOK /\ PlaceOK /\ AgainOK /\ TokensOK

-----------------------------------------------------------------------------
(* The stream *)

\* What one call of get_char does.
Reads ==
  /\ advance
  /\ UNCHANGED alphabet

\* get_char keeps the stream, and adds the character it returns to the text.
LEMMA Advanced ==
  ASSUME StreamOK, Reads
  PROVE  /\ StreamOK'
         /\ \/ character' = STREAM_END /\ text' = text
            \/ /\ character' \in alphabet /\ text' = Append(text, character')
               /\ character' # STREAM_END
  <1> DEFINE A == alphabet
  <1>0. /\ STREAM_END \notin A /\ MaxText \in Nat
        /\ supplied \in Seq(A) /\ text \in Seq(A) /\ Len(text) \in Nat /\ Len(supplied) \in Nat
        /\ alphabet' = A /\ A \in Alphabets
    BY LexerAssumption DEF StreamOK, Reads
  <1>1. PICK next \in get_char(stream) :
          /\ character' = next.char /\ stream' = next.stream
          /\ supplied' = supplied \o next.block
          /\ text' = IF next.char = STREAM_END THEN text ELSE Append(text, next.char)
    BY DEF Reads, advance
  <1>2. CASE stream.remaining > 0
    <2>1. stream.remaining = 1
      BY <1>2 DEF StreamOK
    <2>2. next = [char |-> stream.block[2],
                  stream |-> [stream EXCEPT !.cursor = @ + 1, !.remaining = @ - 1],
                  block |-> <<>>]
      BY <1>1, <1>2, <2>1 DEF get_char, StreamOK
    <2>3. /\ stream.block[2] = supplied[Len(text) + 1] /\ ~is_eof
          /\ Len(text) + 1 = Len(supplied) /\ Len(stream.block) = 2
      BY <1>0, <2>1 DEF StreamOK
    <2>4. supplied[Len(text) + 1] \in A
      BY <1>0, <2>3
    <2>5. /\ character' = supplied[Len(text) + 1] /\ character' # STREAM_END
          /\ text' = Append(text, character') /\ supplied' = supplied
          /\ stream' = [stream EXCEPT !.cursor = @ + 1, !.remaining = @ - 1]
      BY <1>0, <1>1, <2>2, <2>3, <2>4
    <2>6. /\ text' \in Seq(A) /\ Len(text') = Len(text) + 1
          /\ \A i \in 1..Len(text') : text'[i] = supplied[i]
      BY <1>0, <2>4, <2>5 DEF StreamOK
    <2>7. /\ stream' \in [block : Seq(A), cursor : Nat, remaining : -1..1]
          /\ stream'.remaining = 0
      <3>1. stream \in [block : Seq(A), cursor : Nat, remaining : -1..1]
        BY DEF StreamOK
      <3> HIDE DEF A
      <3>2. stream.cursor + 1 \in Nat /\ stream.remaining - 1 = 0
        BY <2>1, <3>1
      <3> DEFINE c == [stream EXCEPT !.cursor = @ + 1]
      <3>3. c \in [block : Seq(A), cursor : Nat, remaining : -1..1]
        BY <3>1, <3>2
      <3>4. stream' = [c EXCEPT !.remaining = 0]
        BY <2>5, <3>2
      <3> HIDE DEF c
      <3> QED BY <3>3, <3>4
    <2>8. ~is_eof'
      BY <2>5 DEF is_eof
    <2>9. StreamOK'
      <3>1. stream'.remaining # 1 /\ stream'.remaining = Len(supplied') - Len(text')
        BY <1>0, <2>3, <2>5, <2>6, <2>7
      <3>2. /\ Len(text') <= Len(supplied') /\ Len(supplied') <= MaxText
            /\ supplied' \in Seq(A) /\ \A i \in 1..Len(text') : text'[i] = supplied'[i]
        BY <1>0, <2>3, <2>5, <2>6 DEF StreamOK
      <3> QED BY <1>0, <2>6, <2>7, <2>8, <3>1, <3>2 DEF StreamOK
    <2> QED BY <2>4, <2>5, <2>9
  <1>3. CASE ~(stream.remaining > 0)
    <2>0. /\ Len(text) = Len(supplied)
          /\ \A i \in 1..Len(text) : text[i] = supplied[i]
      BY <1>0, <1>3 DEF StreamOK
    <2> DEFINE s == [stream EXCEPT !.remaining = -1]
    <2>1. s \in [block : Seq(A), cursor : Nat, remaining : -1..1] /\ s.remaining = -1
      <3>1. stream \in [block : Seq(A), cursor : Nat, remaining : -1..1]
        BY DEF StreamOK
      <3> QED BY <3>1
    <2>2. next \in fill(s)
      BY <1>1, <1>3 DEF get_char
    <2>3. CASE next = [char |-> STREAM_END, stream |-> s, block |-> <<>>]
      <3>1. /\ character' = STREAM_END /\ stream' = s /\ supplied' = supplied /\ text' = text
        BY <1>0, <1>1, <2>3
      <3>2. is_eof' /\ s.remaining # 1
        BY <2>1, <3>1 DEF is_eof
      <3>3. StreamOK'
        BY <1>0, <2>0, <2>1, <3>1, <3>2 DEF StreamOK
      <3> QED BY <3>1, <3>3
    <2>4. CASE \E b \in NextBlocks :
                 next = [char |-> b[1], block |-> b,
                         stream |-> [block |-> b, cursor |-> 2, remaining |-> Len(b) - 1]]
      <3>1. PICK b \in NextBlocks :
                 next = [char |-> b[1], block |-> b,
                         stream |-> [block |-> b, cursor |-> 2, remaining |-> Len(b) - 1]]
        BY <2>4
      <3>2. /\ b \in Seq(A) /\ Len(b) \in {1, 2} /\ b[1] \in A
            /\ Len(supplied) + Len(b) <= MaxText
        <4> DEFINE room(n) == Len(supplied) + n <= MaxText
        <4>1. CASE \E a \in {x \in A : room(1)} : b = <<a>>
          BY <4>1
        <4>2. CASE \E a, c \in {x \in A : room(2)} : b = <<a, c>>
          BY <4>2
        <4> QED BY <3>1, <4>1, <4>2 DEF NextBlocks
      <3>3. /\ character' = b[1] /\ character' # STREAM_END /\ text' = Append(text, b[1])
            /\ stream' = [block |-> b, cursor |-> 2, remaining |-> Len(b) - 1]
            /\ supplied' = supplied \o b
        BY <1>0, <1>1, <3>1, <3>2
      <3>4. /\ supplied' \in Seq(A) /\ Len(supplied') = Len(supplied) + Len(b)
            /\ \A i \in 1..Len(supplied) : supplied'[i] = supplied[i]
            /\ \A i \in 1..Len(b) : supplied'[Len(supplied) + i] = b[i]
        BY <1>0, <3>2, <3>3
      <3>5. /\ text' \in Seq(A) /\ Len(text') = Len(text) + 1
            /\ \A i \in 1..Len(text) : text'[i] = text[i]
            /\ text'[Len(text) + 1] = b[1]
        BY <1>0, <3>2, <3>3
      <3>6. \A i \in 1..Len(text') : text'[i] = supplied'[i]
        <4>1. supplied'[Len(text) + 1] = b[1]
          BY <2>0, <3>2, <3>4
        <4>2. ASSUME NEW i \in 1..Len(text) PROVE text'[i] = supplied'[i]
          BY <2>0, <3>4, <3>5, <4>2
        <4>3. \A i \in 1..(Len(text) + 1) : i \in 1..Len(text) \/ i = Len(text) + 1
          BY <1>0
        <4> QED BY <3>5, <4>1, <4>2, <4>3
      <3>7. stream' \in [block : Seq(A), cursor : Nat, remaining : -1..1]
        BY <3>2, <3>3
      <3>8. stream'.remaining = Len(supplied') - Len(text')
        <4>1. stream'.remaining = Len(b) - 1
          BY <3>3
        <4>2. Len(text') = Len(text) + 1 /\ Len(supplied') = Len(text) + Len(b)
          BY <2>0, <3>4, <3>5
        <4> QED BY <1>0, <3>2, <4>1, <4>2
      <3>9. stream'.remaining = 1 =>
              /\ stream'.cursor = 2 /\ Len(stream'.block) = 2
              /\ stream'.block[2] = supplied'[Len(text') + 1]
        <4>1. /\ stream'.remaining = Len(b) - 1 /\ stream'.cursor = 2
              /\ stream'.block = b
          BY <3>3
        <4>2. Len(text') + 1 = Len(supplied) + 2
          BY <1>0, <2>0, <3>5
        <4> QED BY <3>2, <3>4, <4>1, <4>2
      <3>10. Len(text') <= Len(supplied') /\ Len(supplied') <= MaxText
        BY <1>0, <2>0, <3>2, <3>4, <3>5
      <3>11. ~is_eof'
        BY <3>3 DEF is_eof
      <3>12. StreamOK'
        <4> HIDE DEF A
        <4>1. /\ alphabet' = A /\ A \in Alphabets
              /\ supplied' \in Seq(A) /\ text' \in Seq(A)
          BY <1>0, <3>4, <3>5
        <4> QED BY <3>6, <3>7, <3>8, <3>9, <3>10, <3>11, <4>1 DEF StreamOK
      <3> QED BY <3>2, <3>3, <3>12
    <2> QED BY <2>2, <2>3, <2>4 DEF fill
  <1> QED BY <1>2, <1>3

-----------------------------------------------------------------------------
(* What every step does with the text *)

\* A step discharges nothing, or the current character, or the end of the
\* text on the way to an error.  A token begins and ends within the text.
Orderly ==
  /\ UNCHANGED alphabet
  /\ at.in # "error" /\ at'.in # "make" /\ "in" \in DOMAIN at'
  /\ departs' \subseteq {"stray", "cut"}
  /\ \/ Stay /\ at.in # "make" /\ line' = line /\ from' \in {from, Done + 1}
     \/ /\ advance /\ ~is_eof
        /\ line' = IF character = "\n" THEN line + 1 ELSE line
        /\ from' = from \/ (from' = from + 1 /\ at.in # "make")
     \/ /\ advance /\ is_eof /\ line' = line /\ from' = from
        /\ at'.in = "error" /\ "cut" \in departs'
  /\ \/ tokens' = tokens
     \/ \E t : /\ tokens' = Append(tokens, t)
               /\ at.in # "make" /\ t.first = from /\ t.last \in 0..Len(text)

\* A loop goes on, or another begins.
LEMMA Going ==
  ASSUME IInv, NEW place, Goto(place),
         "in" \in DOMAIN place, place.in # "make", at.in # "error",
         \/ Stay /\ at.in # "make"
         \/ advance /\ ~is_eof /\ character # "\n"
  PROVE  Orderly
  BY DEF IInv, AgainOK, Goto, Kept, Orderly

\* The place of the last character that was discharged is in the text.
LEMMA Discharged ==
  ASSUME IInv, at.in # "make"
  PROVE  /\ Done \in 0..Len(text) /\ Len(text) \in Nat
         /\ Done = IF is_eof THEN Len(text) ELSE Len(text) - 1
         /\ ~is_eof => Len(text) # 0 /\ character = text[Len(text)]
  BY DEF IInv, StreamOK, CharacterOK, Done, is_eof

\* A token ends.
LEMMA Emitting ==
  ASSUME IInv, NEW kind, NEW contents, at.in \notin {"make", "error"},
         \/ Emit(kind, contents)
         \/ EmitWith(kind, contents) /\ ~is_eof /\ character # "\n"
  PROVE  Orderly
  <1>1. CASE Emit(kind, contents)
    <2>1. Stay /\ Found(kind, contents, Done) /\ Done \in 0..Len(text)
      BY <1>1, Discharged DEF Emit
    <2> QED BY <2>1 DEF Found, Loop, IInv, AgainOK, Orderly
  <1>2. CASE EmitWith(kind, contents) /\ ~is_eof /\ character # "\n"
    <2>1. advance /\ Found(kind, contents, Done + 1) /\ Done + 1 \in 0..Len(text)
      BY <1>2, Discharged DEF EmitWith
    <2> QED BY <1>2, <2>1 DEF Found, Loop, IInv, AgainOK, Orderly
  <1> QED BY <1>1, <1>2

\* No loop of the lexer passes over a newline that it does not count, or
\* calls the reader again, but after a backslash that is cut off.
LEMMA NextIsOrderly ==
  ASSUME IInv, Next
  PROVE  Orderly
  <1>0. /\ "in" \in DOMAIN at
        /\ STREAM_END \notin Ident /\ "\n" \notin Ident /\ STREAM_END # "\n"
        /\ at.in = "make" => character = "NUL"
    BY DEF IInv, PlaceOK, CharacterOK, STREAM_END, Ident, Letter, Digit
  <1> USE <1>0 DEF is_eof, STREAM_END, Loop
  <1>1. CASE lexer_make
    <2>1. "in" \in DOMAIN Loop("idle") /\ Loop("idle").in = "idle"
      OBVIOUS
    <2> HIDE DEF Loop
    <2> QED BY <1>1, <2>1, Going DEF lexer_make, skip_advance
  <1>2. CASE lexer_lex
    BY <1>2 DEF lexer_lex, IInv, AgainOK, Orderly
  <1>3. CASE skip_whitespace
    <2>1. character \in {" ", "\t", "\r", "\n"}
      BY <1>3 DEF skip_whitespace, Space
    <2> QED BY <1>3, <2>1 DEF skip_whitespace, skip_advance, CountLine, IInv, AgainOK, Orderly
  <1>4. CASE EndOfFile
    BY <1>4, Emitting DEF EndOfFile
  <1>5. CASE First
    <2>1. character # "\n"
      BY <1>5 DEF First, Space
    <2> QED BY <1>5, <2>1, Going DEF First, save_advance
  <1>6. CASE Name
    <2>1. CASE character \in Ident
      BY <1>6, <2>1, Going DEF Name, Begins, save_advance
    <2>2. CASE character \notin Ident
      BY <1>6, <2>2, Emitting DEF Name, Begins
    <2> QED BY <2>1, <2>2
  <1>7. CASE Prefix
    <2>1. character \in Ident /\ at.in = "first" /\ advance
      BY <1>7 DEF Prefix, Begins, Ident, save_advance
    <2>2. Goto(Loop("prefixed")) \/ Goto(Loop("error"))
      BY <1>7 DEF Prefix
    <2> QED BY <2>1, <2>2, Going
  <1>8. CASE Prefixed
    <2>1. CASE character \in Ident
      BY <1>8, <2>1, Going DEF Prefixed, save_advance
    <2>2. CASE character \notin Ident
      <3>1. Emit("number", buffer) \/ error
        BY <1>8, <2>2 DEF Prefixed, EndNumber
      <3> QED BY <1>8, <3>1, Emitting, Going DEF Prefixed, error
    <2> QED BY <2>1, <2>2
  <1>9. CASE Digits
    <2>0. at.in \in {"digits", "first"}
      BY <1>9 DEF Digits, Begins
    <2>1. CASE character \in Digit \cup {"."}
      <3>1. character # "\n" /\ character # STREAM_END
        BY <2>1 DEF Digit
      <3> QED BY <1>9, <2>0, <2>1, <3>1, Going DEF Digits, save_advance
    <2>2. CASE character \notin Digit \cup {"."} /\ character = "e"
      BY <1>9, <2>0, <2>2, Going DEF Digits, save_advance
    <2>3. CASE character \notin Digit \cup {"."} /\ character # "e"
      BY <1>9, <2>0, <2>3, Going DEF Digits
    <2> QED BY <2>1, <2>2, <2>3
  <1>10. CASE Sign
    <2>1. CASE character \in {"+", "-"}
      BY <1>10, <2>1, Going DEF Sign, save_advance
    <2>2. CASE character \notin {"+", "-"}
      BY <1>10, <2>2, Going DEF Sign
    <2> QED BY <2>1, <2>2
  <1>11. CASE Rest
    <2>1. CASE character \in Ident
      BY <1>11, <2>1, Going DEF Rest, save_advance
    <2>2. CASE character \notin Ident
      <3>1. Emit("number", buffer) \/ error
        BY <1>11, <2>2 DEF Rest, EndNumber
      <3> QED BY <1>11, <3>1, Emitting, Going DEF Rest, error
    <2> QED BY <2>1, <2>2
  <1>12. CASE String
    <2>0. at.in = "first" /\ buffer[1] # "\n" /\ buffer[1] # STREAM_END
      BY <1>12 DEF String, Begins, Quote
    <2>1. CASE is_eof \/ character = "\n"
      <3>1. error
        BY <1>12, <2>0, <2>1 DEF String
      <3> QED BY <2>0, <3>1, Going DEF error
    <2>2. CASE ~(is_eof \/ character = "\n")
      <3>1. \/ EmitWith("string", Tail(buffer))
            \/ advance /\ (Goto(Loop("escape")) \/ Goto(at))
        BY <1>12, <2>2 DEF String, skip_advance, save_advance
      <3> QED BY <2>0, <2>2, <3>1, Emitting, Going
    <2> QED BY <2>1, <2>2
  <1>13. CASE Escaped
    <2>0. DOMAIN Escape = {"0", "a", "b", "n", "\n", "\\"} \cup Quote
      BY DEF Escape
    <2>1. CASE character \in DOMAIN Escape
      <3>1. character # STREAM_END
        BY <2>0, <2>1 DEF Quote
      <3>2. /\ at.in = "escape" /\ advance /\ CountLine(character)
            /\ at' = Loop("first") /\ UNCHANGED <<alphabet, from, tokens, departs>>
        BY <1>13, <2>1 DEF Escaped
      <3> QED BY <3>1, <3>2 DEF CountLine, IInv, AgainOK, Orderly
    <2>2. CASE character \notin DOMAIN Escape
      <3>1. character # "\n"
        BY <2>0, <2>2
      <3>2. /\ at.in = "escape" /\ advance /\ at' = Loop("error")
            /\ departs' = IF is_eof THEN departs \cup {"cut"} ELSE departs
            /\ UNCHANGED <<line, alphabet, from, tokens>>
        BY <1>13, <2>2 DEF Escaped
      <3> QED BY <3>1, <3>2 DEF IInv, AgainOK, Orderly
    <2> QED BY <2>1, <2>2
  <1>14. CASE LongBracket
    <2>0. at.in = "open"
      BY <1>14 DEF LongBracket
    <2>1. CASE character = "="
      <3>1. advance /\ Goto([at EXCEPT !.nest = @ + 1])
        BY <1>14, <2>1 DEF LongBracket, save_advance, skip_advance
      <3>2. "in" \in DOMAIN [at EXCEPT !.nest = @ + 1] /\ [at EXCEPT !.nest = @ + 1].in = "open"
        BY <2>0
      <3> QED BY <2>0, <2>1, <3>1, <3>2, Going
    <2>2. CASE character = "["
      <3>1. advance /\ Goto([at EXCEPT !.in = "long"])
        BY <1>14, <2>2 DEF LongBracket
      <3>2. "in" \in DOMAIN [at EXCEPT !.in = "long"] /\ [at EXCEPT !.in = "long"].in = "long"
        BY <2>0
      <3> QED BY <2>0, <2>2, <3>1, <3>2, Going
    <2>3. CASE character \notin {"=", "["}
      <3>1. error \/ (Goto(Loop("line")) /\ Stay)
        BY <1>14, <2>3 DEF LongBracket
      <3> QED BY <2>0, <3>1, Going DEF error
    <2> QED BY <2>1, <2>2, <2>3
  <1>15. CASE Long
    <2>0. at.in = "long"
      BY <1>15 DEF Long
    <2>1. CASE is_eof
      BY <1>15, <2>0, <2>1, Going DEF Long, error
    <2>2. CASE character = "]"
      <3> DEFINE place == [in |-> "close", nest |-> at.nest, do_save |-> at.do_save, closing |-> 0]
      <3>1. advance /\ Goto(place)
        BY <1>15, <2>2 DEF Long, skip_advance
      <3>2. "in" \in DOMAIN place /\ place.in = "close"
        OBVIOUS
      <3> HIDE DEF place
      <3> QED BY <2>0, <2>2, <3>1, <3>2, Going
    <2>3. CASE ~is_eof /\ character # "]"
      <3>1. /\ advance /\ CountLine(character)
            /\ UNCHANGED <<at, alphabet, from, tokens, departs>>
        BY <1>15, <2>3 DEF Long, skip_advance, save_advance
      <3> QED BY <2>0, <2>3, <3>1 DEF CountLine, IInv, AgainOK, Orderly
    <2> QED BY <2>1, <2>2, <2>3
  <1>16. CASE Close
    <2>0. at.in = "close"
      BY <1>16 DEF Close
    <2>1. CASE character = "="
      <3>1. advance /\ Goto([at EXCEPT !.closing = @ + 1])
        BY <1>16, <2>1 DEF Close, skip_advance
      <3>2. "in" \in DOMAIN [at EXCEPT !.closing = @ + 1] /\ [at EXCEPT !.closing = @ + 1].in = "close"
        BY <2>0
      <3> QED BY <2>0, <2>1, <3>1, <3>2, Going
    <2>2. CASE character = "]" /\ at.closing = at.nest
      <3>1. \E kind, contents : EmitWith(kind, contents)
        BY <1>16, <2>2 DEF Close, EndLong
      <3> QED BY <2>0, <2>2, <3>1, Emitting
    <2>3. CASE character # "=" /\ ~(character = "]" /\ at.closing = at.nest)
      <3>1. /\ IF character = "]" THEN advance ELSE Stay
            /\ at' = Opened
            /\ departs' = IF character = "]" \/ at.do_save
                          THEN departs \cup {"stray"} ELSE departs
            /\ UNCHANGED <<line, alphabet, from, tokens>>
        BY <1>16, <2>3 DEF Close
      <3>2. "in" \in DOMAIN Opened /\ Opened.in = "long"
        BY DEF Opened
      <3> QED BY <2>0, <3>1, <3>2 DEF IInv, AgainOK, Orderly
    <2> QED BY <2>1, <2>2, <2>3
  <1>17. CASE Operator
    <2>0. at.in = "first"
      BY <1>17 DEF Operator, Begins
    <2>1. CASE character = "="
      BY <1>17, <2>0, <2>1, Emitting DEF Operator
    <2>2. CASE character # "="
      <3>1. Emit(Symbol[buffer], <<>>) \/ error
        BY <1>17, <2>2 DEF Operator
      <3> QED BY <2>0, <3>1, Emitting, Going DEF error
    <2> QED BY <2>1, <2>2
  <1>18. CASE Dots
    <2>0. at.in = "first"
      BY <1>18 DEF Dots, Begins
    <2>1. \/ character = "." /\ advance /\ Goto(Loop("dots"))
          \/ Stay /\ Goto(Loop("digits"))
          \/ Emit("DOT", <<>>)
      BY <1>18 DEF Dots, skip_advance
    <2> QED BY <2>0, <2>1, Emitting, Going
  <1>19. CASE ThirdDot
    <2>1. CASE character = "."
      BY <1>19, <2>1, Emitting DEF ThirdDot
    <2>2. CASE character # "."
      BY <1>19, <2>2, Emitting DEF ThirdDot
    <2> QED BY <2>1, <2>2
  <1>20. CASE OpenBracket
    <2>0. at.in = "first"
      BY <1>20 DEF OpenBracket, Begins
    <2> DEFINE place == [in |-> "open", nest |-> 0, do_save |-> TRUE]
    <2>1. (Stay /\ Goto(place)) \/ Emit("OPEN_BRACE", <<>>)
      BY <1>20 DEF OpenBracket
    <2>2. "in" \in DOMAIN place /\ place.in = "open"
      OBVIOUS
    <2> HIDE DEF place
    <2> QED BY <2>0, <2>1, <2>2, Emitting, Going
  <1>21. CASE Dash
    <2>0. at.in = "first"
      BY <1>21 DEF Dash, Begins
    <2>1. (character = "-" /\ advance /\ Goto(Loop("comment"))) \/ Emit("DASH", <<>>)
      BY <1>21 DEF Dash, skip_advance
    <2> QED BY <2>0, <2>1, Emitting, Going
  <1>22. CASE Comment
    <2>0. at.in = "comment"
      BY <1>22 DEF Comment
    <2> DEFINE place == [in |-> "open", nest |-> 0, do_save |-> FALSE]
    <2>1. (character = "[" /\ advance /\ Goto(place)) \/ (Stay /\ Goto(Loop("line")))
      BY <1>22 DEF Comment, skip_advance
    <2>2. "in" \in DOMAIN place /\ place.in = "open"
      OBVIOUS
    <2> HIDE DEF place
    <2> QED BY <2>0, <2>1, <2>2, Going
  <1>23. CASE Line
    <2>0. at.in = "line"
      BY <1>23 DEF Line
    <2>1. \/ Emit("comment", <<>>)
          \/ ~is_eof /\ character # "\n" /\ advance /\ Goto(at)
      BY <1>23 DEF Line, skip_advance
    <2> QED BY <2>0, <2>1, Emitting, Going
  <1>24. CASE Single
    <2>0. at.in = "first"
      BY <1>24 DEF Single
    <2>1. Emit(Symbol[buffer], <<>>) \/ error
      BY <1>24 DEF Single
    <2> QED BY <2>0, <2>1, Emitting, Going DEF error
  <1> QED
    BY <1>1, <1>2, <1>3, <1>4, <1>5, <1>6, <1>7, <1>8, <1>9, <1>10, <1>11, <1>12,
       <1>13, <1>14, <1>15, <1>16, <1>17, <1>18, <1>19, <1>20, <1>21, <1>22, <1>23,
       <1>24 DEF Next

-----------------------------------------------------------------------------
(* The invariant is inductive *)

\* Newlines before a place are finitely many; one more place is one more
\* newline, or none.
LEMMA CountOne ==
  ASSUME NEW t, NEW n \in Nat
  PROVE  /\ Cardinality(NewLines(t, n)) \in Nat
         /\ Cardinality(NewLines(t, n + 1)) =
              Cardinality(NewLines(t, n)) + IF t[n + 1] = "\n" THEN 1 ELSE 0
  <1>1. IsFiniteSet(NewLines(t, n)) /\ Cardinality(NewLines(t, n)) \in Nat
    <2>1. IsFiniteSet(1..n) /\ NewLines(t, n) \in SUBSET (1..n)
      BY FS_Interval DEF NewLines
    <2> QED BY <2>1, FS_Subset, FS_CardinalityType
  <1>2. CASE t[n + 1] = "\n"
    <2>1. NewLines(t, n + 1) = NewLines(t, n) \cup {n + 1} /\ n + 1 \notin NewLines(t, n)
      BY <1>2 DEF NewLines
    <2> QED BY <1>1, <1>2, <2>1, FS_AddElement
  <1>3. CASE t[n + 1] # "\n"
    <2>1. NewLines(t, n + 1) = NewLines(t, n)
      BY <1>3 DEF NewLines
    <2> QED BY <1>1, <1>3, <2>1
  <1> QED BY <1>1, <1>2, <1>3

\* The stream and the current character, and that no text is lost.
LEMMA StreamKept ==
  ASSUME IInv, Orderly
  PROVE  /\ StreamOK' /\ CharacterOK'
         /\ text \in Seq(alphabet) /\ text' \in Seq(alphabet) /\ Len(text) \in Nat
         /\ advance => \/ character' = STREAM_END /\ text' = text
                       \/ /\ character' # STREAM_END
                          /\ Len(text') = Len(text) + 1
                          /\ \A i \in 1..Len(text) : text'[i] = text[i]
  <1>0. StreamOK /\ CharacterOK /\ UNCHANGED alphabet /\ at'.in # "make"
    BY DEF IInv, Orderly
  <1>1. text \in Seq(alphabet) /\ Len(text) \in Nat
    BY <1>0 DEF StreamOK
  <1>2. CASE advance
    <2>1. /\ StreamOK'
          /\ \/ character' = STREAM_END /\ text' = text
             \/ /\ character' \in alphabet /\ text' = Append(text, character')
                /\ character' # STREAM_END
      BY <1>0, <1>2, Advanced DEF Reads
    <2>2. CASE character' = STREAM_END /\ text' = text
      BY <1>0, <1>1, <2>1, <2>2 DEF CharacterOK, is_eof
    <2>3. CASE /\ character' \in alphabet /\ text' = Append(text, character')
               /\ character' # STREAM_END
      <3>1. /\ text' \in Seq(alphabet) /\ Len(text') = Len(text) + 1
            /\ \A i \in 1..Len(text) : text'[i] = text[i]
            /\ text'[Len(text) + 1] = character'
        BY <1>1, <2>3
      <3>2. CharacterOK'
        BY <1>0, <1>1, <3>1 DEF CharacterOK
      <3> QED BY <1>1, <2>1, <2>3, <3>1, <3>2
    <2> QED BY <2>1, <2>2, <2>3
  <1>3. CASE ~advance
    <2>1. Stay /\ at.in # "make"
      BY <1>3 DEF Orderly
    <2> QED BY <1>0, <1>1, <1>3, <2>1 DEF Stay, StreamOK, CharacterOK, is_eof
  <1> QED BY <1>2, <1>3

\* The line and the beginning of the token.
LEMMA PlaceKept ==
  ASSUME IInv, Orderly
  PROVE  PlaceOK'
  <1> DEFINE N(t, n) == Cardinality(NewLines(t, n))
  <1>0. PlaceOK /\ at'.in # "make" /\ "in" \in DOMAIN at' /\ Len(text) \in Nat
    BY StreamKept DEF IInv, Orderly
  <1>1. CASE at.in = "make"
    <2>1. text = <<>> /\ character = "NUL" /\ line = 1 /\ from = 1
      BY <1>0, <1>1 DEF IInv, CharacterOK, PlaceOK, is_eof, STREAM_END
    <2>2. advance /\ line' = 1 /\ from' = 1
      BY <1>1, <2>1 DEF Orderly, is_eof, STREAM_END
    <2>3. Done' = 0
      BY <2>1, <2>2, StreamKept DEF Done, is_eof
    <2>4. N(text', 0) = 0
      BY FS_EmptySet DEF NewLines
    <2> QED BY <1>0, <2>2, <2>3, <2>4 DEF PlaceOK
  <1>2. CASE at.in # "make"
    <2>1. /\ Done \in 0..Len(text)
          /\ Done = IF is_eof THEN Len(text) ELSE Len(text) - 1
          /\ ~is_eof => Len(text) # 0 /\ character = text[Len(text)]
          /\ line = 1 + N(text, Done) /\ from \in 1..(Done + 1) /\ line \in Nat
      BY <1>0, <1>2, Discharged DEF PlaceOK
    <2>2. ASSUME NEW n \in 0..Len(text), \A i \in 1..Len(text) : text'[i] = text[i]
          PROVE  N(text', n) = N(text, n)
      <3>1. NewLines(text', n) = NewLines(text, n)
        BY <1>0, <2>2 DEF NewLines
      <3> QED BY <3>1
    <2>3. /\ N(text, Done) \in Nat
          /\ N(text, Done + 1) = N(text, Done) + IF text[Done + 1] = "\n" THEN 1 ELSE 0
      <3>1. Done \in Nat
        BY <1>0, <2>1
      <3> HIDE DEF Done
      <3> QED BY <3>1, CountOne
    <2>4. SUFFICES line' = 1 + N(text', Done') /\ from' \in 1..(Done' + 1) /\ line' \in Nat
      BY <1>0 DEF PlaceOK
    <2> HIDE DEF N
    <2>5. CASE Stay /\ line' = line /\ from' \in {from, Done + 1}
      <3>1. Done' = Done /\ text' = text
        BY <2>5 DEF Stay, Done, is_eof
      <3> QED BY <2>1, <2>5, <3>1
    <2>6. CASE /\ advance /\ ~is_eof
               /\ line' = IF character = "\n" THEN line + 1 ELSE line
               /\ from' = from \/ (from' = from + 1 /\ at.in # "make")
      <3>1. Done' = Done + 1 /\ Done + 1 = Len(text) /\ \A i \in 1..Len(text) : text'[i] = text[i]
        BY <1>0, <2>1, <2>6, StreamKept DEF Done, is_eof
      <3>2. N(text', Done') = N(text, Done) + IF character = "\n" THEN 1 ELSE 0
        BY <1>0, <2>1, <2>2, <2>3, <2>6, <3>1
      <3> QED BY <2>1, <2>3, <2>6, <3>1, <3>2
    <2>7. CASE advance /\ is_eof /\ line' = line /\ from' = from
      <3>1. Done' = Done /\ Done = Len(text) /\ \A i \in 1..Len(text) : text'[i] = text[i]
        BY <1>0, <2>1, <2>7, StreamKept DEF Done, is_eof
      <3> QED BY <1>0, <2>1, <2>2, <2>3, <2>7, <3>1
    <2> QED BY <2>5, <2>6, <2>7 DEF Orderly
  <1> QED BY <1>1, <1>2

\* The tokens found, and the calls of the reader.
LEMMA HistoryKept ==
  ASSUME IInv, Orderly
  PROVE  AgainOK' /\ TokensOK'
  <1>1. AgainOK'
    <2>1. again \in BOOLEAN /\ ~again /\ departs' \subseteq {"stray", "cut"}
      BY DEF IInv, AgainOK, Orderly
    <2>2. CASE Stay
      BY <2>1, <2>2 DEF Stay, AgainOK
    <2>3. CASE advance /\ ~is_eof
      <3>1. again' = FALSE
        BY <2>1, <2>3 DEF advance, is_eof
      <3> QED BY <2>1, <3>1 DEF AgainOK
    <2>4. CASE advance /\ is_eof /\ at'.in = "error" /\ "cut" \in departs'
      <3>1. again' \in BOOLEAN
        BY <2>4 DEF advance
      <3> QED BY <2>1, <2>4, <3>1 DEF AgainOK
    <2> QED BY <2>2, <2>3, <2>4 DEF Orderly
  <1>2. Len(text) \in Nat /\ Len(text') \in Nat /\ Len(text) <= Len(text')
    <2>1. CASE advance
      BY <2>1, StreamKept
    <2>2. CASE Stay
      BY <2>2, StreamKept DEF Stay
    <2> QED BY <2>1, <2>2 DEF Orderly
  <1>3. TokensOK'
    <2>1. /\ tokens \in Seq(Range(tokens))
          /\ \A i \in DOMAIN tokens : /\ tokens[i].first \in 1..(Len(text') + 1)
                                      /\ tokens[i].last \in 0..Len(text')
      BY <1>2 DEF IInv, TokensOK
    <2>2. CASE tokens' = tokens
      BY <2>1, <2>2 DEF TokensOK
    <2>3. CASE \E t : /\ tokens' = Append(tokens, t)
                      /\ at.in # "make" /\ t.first = from /\ t.last \in 0..Len(text)
      <3>1. PICK t : /\ tokens' = Append(tokens, t)
                     /\ at.in # "make" /\ t.first = from /\ t.last \in 0..Len(text)
        BY <2>3
      <3>2. t.first \in 1..(Len(text') + 1) /\ t.last \in 0..Len(text')
        BY <1>2, <3>1, Discharged DEF IInv, PlaceOK
      <3>3. tokens \in Seq(Range(tokens) \cup {t}) /\ DOMAIN tokens = 1..Len(tokens) /\ Len(tokens) \in Nat
        BY <2>1
      <3>4. /\ DOMAIN tokens' = 1..(Len(tokens) + 1) /\ tokens'[Len(tokens) + 1] = t
            /\ \A i \in 1..Len(tokens) : tokens'[i] = tokens[i]
            /\ tokens' \in Seq(Range(tokens) \cup {t})
        BY <3>1, <3>3
      <3>5. Range(tokens') = Range(tokens) \cup {t}
        BY <3>3, <3>4 DEF Range
      <3>6. \A i \in DOMAIN tokens' : /\ tokens'[i].first \in 1..(Len(text') + 1)
                                      /\ tokens'[i].last \in 0..Len(text')
        BY <2>1, <3>2, <3>3, <3>4
      <3> QED BY <3>4, <3>5, <3>6 DEF TokensOK
    <2> QED BY <2>2, <2>3 DEF Orderly
  <1> QED BY <1>1, <1>3

LEMMA InitIInv ==
  ASSUME Init
  PROVE  IInv
  <1>1. /\ alphabet \in Alphabets /\ supplied = <<>> /\ text = <<>>
        /\ stream = [block |-> <<>>, cursor |-> 1, remaining |-> 0]
        /\ character = "NUL" /\ tokens = <<>> /\ MaxText \in Nat
        /\ at = Loop("make") /\ line = 1 /\ from = 1 /\ again = FALSE /\ departs = {}
    BY LexerAssumption DEF Init
  <1>2. ~is_eof /\ Len(<<>>) = 0 /\ <<>> \in Seq(alphabet) /\ Range(<<>>) = {}
    BY <1>1 DEF is_eof, STREAM_END, Range
  <1>3. StreamOK
    BY <1>1, <1>2 DEF StreamOK
  <1>4. CharacterOK /\ PlaceOK
    BY <1>1 DEF CharacterOK, PlaceOK, Loop
  <1>5. AgainOK
    BY <1>1 DEF AgainOK
  <1>6. TokensOK
    BY <1>1, <1>2 DEF TokensOK
  <1> QED BY <1>3, <1>4, <1>5, <1>6 DEF IInv

LEMMA Inductive == Spec => []IInv
  <1>1. ASSUME IInv, [Next]_vars
        PROVE  IInv'
    <2>1. CASE Next
      BY <1>1, <2>1, NextIsOrderly, StreamKept, PlaceKept, HistoryKept DEF IInv
    <2>2. CASE UNCHANGED vars
      BY <1>1, <2>2 DEF vars, IInv, StreamOK, CharacterOK, PlaceOK, AgainOK, TokensOK,
                        Done, is_eof
    <2> QED BY <1>1, <2>1, <2>2
  <1> QED BY InitIInv, <1>1, PTL DEF Spec

-----------------------------------------------------------------------------
(* The properties *)

\* However the reader cuts a text into blocks, get_char returns every
\* character once and in order, and no loop of lexer.cpp calls the reader
\* again when it has come to its end, but for a backslash that is cut off.
THEOREM CharactersAreReadInOrder == Spec => []ReadInOrder
  <1>1. ASSUME IInv PROVE ReadInOrder
    <2>0. /\ StreamOK /\ CharacterOK /\ PlaceOK /\ AgainOK /\ TokensOK
          /\ MaxText \in Nat
          /\ text \in Seq(alphabet) /\ supplied \in Seq(alphabet)
          /\ Len(text) \in Nat /\ Len(supplied) \in Nat
          /\ Len(text) <= Len(supplied) /\ Len(supplied) <= MaxText
      BY <1>1, LexerAssumption DEF IInv, StreamOK
    <2>1. All(text, alphabet) /\ All(supplied, alphabet)
      BY <2>0 DEF All
    <2>2. character \in alphabet \cup {STREAM_END, "NUL"} /\ stream.remaining \in -1..1
      BY <2>0 DEF CharacterOK, StreamOK, is_eof
    <2>3. from \in 1..(MaxText + 1)
      <3>1. CASE at.in = "make"
        BY <2>0, <3>1 DEF PlaceOK
      <3>2. CASE at.in # "make"
        BY <1>1, <2>0, <3>2, Discharged DEF PlaceOK
      <3> QED BY <3>1, <3>2
    <2>4. line \in Nat \ {0}
      <3>1. CASE at.in = "make"
        BY <2>0, <3>1 DEF PlaceOK
      <3>2. CASE at.in # "make"
        BY <1>1, <2>0, <3>2, Discharged, CountOne DEF PlaceOK
      <3> QED BY <3>1, <3>2
    <2>5. \A i \in DOMAIN tokens :
            tokens[i].first \in 1..(MaxText + 1) /\ tokens[i].last \in 0..MaxText
      BY <2>0 DEF TokensOK
    <2>6. TypeOK
      BY <2>0, <2>1, <2>2, <2>3, <2>4, <2>5 DEF TypeOK, AgainOK
    <2>7. text = SubSeq(supplied, 1, Len(text))
      BY <2>0 DEF StreamOK
    <2> QED BY <2>0, <2>6, <2>7 DEF ReadInOrder, StreamOK, AgainOK
  <1> QED BY Inductive, <1>1, PTL

\* The line that lexer_lex gives a token or an error is that of the current
\* character: newlines count once wherever they stand.
THEOREM LinesAreRight == Spec => []LineIsRight
  <1>1. ASSUME IInv PROVE LineIsRight
    BY <1>1 DEF IInv, PlaceOK, NewLines, LineIsRight
  <1> QED BY Inductive, <1>1, PTL

-----------------------------------------------------------------------------
(* The strings the lexer makes: Loading *)

Compiled == [table : SUBSET Text, chunk : SUBSET Text, ident : Text \cup {NoText}]

LoadStep == {"lex", "parse", "register", "item", "lookahead", "params", "self", "local",
         "for", "header", "index", "limit", "increment", "generator", "state", "control",
         "ident", "close", "push", "done", "failed", "UNDEFINED"}

\* What follows a token, and what follows the declaration of a local.
AfterLex == {"parse", "register", "close", "self", "for", "header"}
AfterLocal == {"parse", "limit", "increment", "state", "control", "ident"}

\* A token has a text just when it is a name or a string.
WellFormed(t) == t \in Token /\ (t.kind \in {"name", "string"} <=> t.text # NoText)

LoadTypes ==
  /\ strings \subseteq Text /\ loaded \subseteq Text
  /\ functions \in Seq(Compiled) /\ Len(functions) <= MaxFunctions
  /\ indexes \in 0..MaxFunctions
  /\ WellFormed(current) /\ WellFormed(lookahead) /\ WellFormed(held)
  /\ step \in LoadStep /\ after \in AfterLex \cup AfterLocal

\* When a token is looked ahead or held, and whose table the lexer uses.
LoadSteps ==
  /\ step = "lex" => after \in AfterLex
  /\ step = "local" => after \in AfterLocal
  /\ lookahead # NoToken =>
       step \in {"item", "UNDEFINED"} \/ (step = "lex" /\ after = "register")
  /\ held # NoToken =>
       step \in {"register", "local", "header", "UNDEFINED"}
       \/ (step = "lex" /\ after \in {"register", "header"})
  /\ step \in {"register", "local", "header"}
     \/ (step = "lex" /\ after \in {"register", "header"}) => held.text # NoText
  /\ step \notin {"push", "done", "failed", "UNDEFINED"} =>
       indexes = Len(functions) /\ Len(functions) > 0
  /\ step = "push" => indexes = Len(functions) - 1

\* The three locals of a `for' are being declared, and then its variable.
InHeader ==
  \/ step \in {"index", "limit", "increment", "generator", "state", "control", "ident"}
  \/ step = "local" /\ after # "parse"

\* The variable of a `for' is in the table of the function that has the header:
\* it was lexed after the keyword, while that function was the innermost.
HeadersKept ==
  /\ \A d \in 1..Len(functions) :
       functions[d].ident # NoText => functions[d].ident \in functions[d].table
  /\ step = "for" /\ current.kind = "name" =>
       current.text \in functions[Len(functions)].table
  /\ step = "header" \/ (step = "lex" /\ after = "header") =>
       held.text \in functions[Len(functions)].table
  /\ InHeader => functions[Len(functions)].ident # NoText

\* What keeps the text of a token.
TextKept(t) ==
  t.text # NoText =>
    /\ t.late \/ t.text \in Reachable
    /\ step # "UNDEFINED" => t.text \in strings

LoadKeeps ==
  /\ Reachable \subseteq strings
  /\ TextKept(current) /\ TextKept(lookahead) /\ TextKept(held)

LoadingInv == LoadTypes /\ LoadSteps /\ HeadersKept /\ LoadKeeps

-----------------------------------------------------------------------------
(* The functions being compiled *)

LEMMA ReachableMembers ==
  ASSUME NEW x
  PROVE  x \in Reachable <=>
           \/ x \in loaded
           \/ \E d \in 1..Len(functions) : x \in functions[d].table \cup functions[d].chunk
  BY DEF Reachable, Depth

\* Giving function d other contents.
LEMMA Updated ==
  ASSUME LoadTypes, NEW d \in 1..Len(functions), NEW T, NEW f \in Compiled, loaded' = loaded,
         functions' = [functions EXCEPT ![d] = f],
         f.table \cup f.chunk = functions[d].table \cup functions[d].chunk \cup T
  PROVE  /\ functions' \in Seq(Compiled) /\ Len(functions') = Len(functions)
         /\ \A e \in 1..Len(functions) : functions'[e] = IF e = d THEN f ELSE functions[e]
         /\ Reachable' = Reachable \cup T
  <1> USE DEF LoadTypes
  <1>2. /\ functions' \in Seq(Compiled) /\ Len(functions') = Len(functions)
        /\ \A e \in 1..Len(functions) : functions'[e] = IF e = d THEN f ELSE functions[e]
    BY ExceptSeq
  <1>3. \A x : x \in Reachable' <=> x \in Reachable \/ x \in T
    <2> SUFFICES ASSUME NEW x PROVE x \in Reachable' <=> x \in Reachable \/ x \in T
      OBVIOUS
    <2>1. x \in Reachable' <=>
            \/ x \in loaded
            \/ \E e \in 1..Len(functions) : x \in functions'[e].table \cup functions'[e].chunk
      BY <1>2 DEF Reachable, Depth
    <2>2. x \in Reachable <=>
            \/ x \in loaded
            \/ \E e \in 1..Len(functions) : x \in functions[e].table \cup functions[e].chunk
      BY ReachableMembers
    <2> QED BY <2>1, <2>2, <1>2
  <1> QED BY <1>2, <1>3

\* Adding texts to a chunk or a table.
LEMMA AddTexts ==
  ASSUME LoadTypes, NEW d \in 1..Len(functions), NEW T \in SUBSET Text, loaded' = loaded,
         functions' = InChunk(d, T) \/ functions' = InTable(d, T)
  PROVE  /\ functions' \in Seq(Compiled) /\ Len(functions') = Len(functions)
         /\ Reachable' = Reachable \cup T
         /\ \A e \in 1..Len(functions) : /\ functions'[e].ident = functions[e].ident
                                         /\ functions[e].table \subseteq functions'[e].table
         /\ functions' = InTable(d, T) => T \subseteq functions'[d].table
  <1>0. functions[d] \in Compiled /\ functions \in Seq(Compiled)
    BY ElementOfSeq DEF LoadTypes
  <1>1. CASE functions' = InChunk(d, T) /\ functions' # InTable(d, T)
    <2> DEFINE g == [functions[d] EXCEPT !.chunk = @ \cup T]
    <2>1. /\ g \in Compiled /\ g.table = functions[d].table
          /\ g.chunk = functions[d].chunk \cup T /\ g.ident = functions[d].ident
      BY <1>0 DEF Compiled
    <2>2. functions' = [functions EXCEPT ![d] = g]
      BY <1>1 DEF InChunk
    <2> HIDE DEF g
    <2>3. g.table \cup g.chunk = functions[d].table \cup functions[d].chunk \cup T
      BY <2>1
    <2>4. /\ functions' \in Seq(Compiled) /\ Len(functions') = Len(functions)
          /\ \A e \in 1..Len(functions) : functions'[e] = IF e = d THEN g ELSE functions[e]
          /\ Reachable' = Reachable \cup T
      BY <2>1, <2>2, <2>3, Updated
    <2> QED BY <1>1, <2>1, <2>4
  <1>2. CASE functions' = InTable(d, T)
    <2> DEFINE g == [functions[d] EXCEPT !.table = @ \cup T]
    <2>1. /\ g \in Compiled /\ g.chunk = functions[d].chunk
          /\ g.table = functions[d].table \cup T /\ g.ident = functions[d].ident
      BY <1>0 DEF Compiled
    <2>2. functions' = [functions EXCEPT ![d] = g]
      BY <1>2 DEF InTable
    <2> HIDE DEF g
    <2>3. g.table \cup g.chunk = functions[d].table \cup functions[d].chunk \cup T
      BY <2>1
    <2>4. /\ functions' \in Seq(Compiled) /\ Len(functions') = Len(functions)
          /\ \A e \in 1..Len(functions) : functions'[e] = IF e = d THEN g ELSE functions[e]
          /\ Reachable' = Reachable \cup T
      BY <2>1, <2>2, <2>3, Updated
    <2> QED BY <2>1, <2>4
  <1> QED BY <1>1, <1>2

-----------------------------------------------------------------------------
(* The steps *)

LEMMA LoadingStarts == LoadingInit => LoadingInv
  <1> SUFFICES ASSUME LoadingInit PROVE LoadingInv
    OBVIOUS
  <1> USE LoadingAssumption DEF LoadingInit
  <1>1. NoToken \in Token /\ NoToken.text = NoText /\ NoToken.kind = "none"
    BY DEF NoToken, TokenOf, Token
  <1>2. functions \in Seq(Compiled) /\ Len(functions) = 1
    BY DEF NewFunction, Compiled
  <1>3. Reachable = {}
    <2> SUFFICES ASSUME NEW x \in Reachable PROVE FALSE
      OBVIOUS
    <2> QED BY ReachableMembers DEF NewFunction
  <1> QED BY <1>1, <1>2, <1>3 DEF LoadingInv, LoadTypes, LoadSteps, LoadKeeps, TextKept, WellFormed, LoadStep,
       AfterLex, AfterLocal, HeadersKept, InHeader, NewFunction

\* A step that changes no string, table or chunk.
LEMMA SameTexts ==
  ASSUME functions' = functions, loaded' = loaded
  PROVE  Reachable' = Reachable
  BY DEF Reachable, Depth

LEMMA NoTokenIs == WellFormed(NoToken) /\ NoToken.text = NoText
  BY LoadingAssumption DEF NoToken, TokenOf, WellFormed, Token

LEMMA CollectKeeps == LoadingInv /\ Collect => LoadingInv'
  <1> SUFFICES ASSUME LoadingInv, Collect PROVE LoadingInv'
    OBVIOUS
  <1> USE DEF LoadingInv, Collect
  <1>1. Reachable' = Reachable
    BY SameTexts
  <1>2. LoadTypes' /\ LoadSteps'
    BY DEF LoadTypes, LoadSteps, LoadStep
  <1>3. step' # "UNDEFINED" => {current.text, lookahead.text, held.text} \ {NoText} \subseteq strings'
    BY DEF HeldTexts, Held
  <1>4. LoadKeeps'
    BY <1>1, <1>3 DEF LoadKeeps, TextKept
  <1>5. HeadersKept'
    BY DEF HeadersKept, InHeader
  <1> QED BY <1>2, <1>4, <1>5

\* The lexer has put a string into the table of the innermost function.
LEMMA Lexed ==
  ASSUME LoadingInv, NEW t \in Text \cup {NoText}, lexer_new_ostring(t),
         step \notin {"push", "done", "failed", "UNDEFINED"}, loaded' = loaded
  PROVE  /\ functions' \in Seq(Compiled) /\ Len(functions') = Len(functions)
         /\ \A e \in 1..Len(functions) : /\ functions'[e].ident = functions[e].ident
                                         /\ functions[e].table \subseteq functions'[e].table
         /\ t # NoText => t \in functions'[Len(functions)].table
         /\ strings' = strings \cup ({t} \ {NoText}) /\ strings' \subseteq Text
         /\ Reachable' = Reachable \cup ({t} \ {NoText})
         /\ Reachable' \subseteq strings'
  <1>1. indexes \in 1..Len(functions) /\ indexes = Len(functions) /\ LoadTypes
    BY DEF LoadingInv, LoadSteps, LoadTypes
  <1>2. /\ functions' \in Seq(Compiled) /\ Len(functions') = Len(functions)
        /\ Reachable' = Reachable \cup ({t} \ {NoText})
        /\ \A e \in 1..Len(functions) : /\ functions'[e].ident = functions[e].ident
                                        /\ functions[e].table \subseteq functions'[e].table
        /\ {t} \ {NoText} \subseteq functions'[indexes].table
    <2> DEFINE T == {t} \ {NoText}
    <2>1. T \in SUBSET Text /\ functions' = InTable(indexes, T)
      BY DEF lexer_new_ostring
    <2> HIDE DEF T
    <2>2. /\ functions' \in Seq(Compiled) /\ Len(functions') = Len(functions)
          /\ Reachable' = Reachable \cup T
          /\ \A e \in 1..Len(functions) : /\ functions'[e].ident = functions[e].ident
                                          /\ functions[e].table \subseteq functions'[e].table
          /\ T \subseteq functions'[indexes].table
      BY <1>1, <2>1, AddTexts
    <2> QED BY <2>2 DEF T
  <1> QED BY <1>1, <1>2 DEF lexer_new_ostring, LoadingInv, LoadTypes, LoadKeeps

LEMMA TokenTextsAre ==
  ASSUME NEW tt \in TokenTexts
  PROVE  /\ tt[2] \in Text \cup {NoText} /\ WellFormed(TokenOf(tt[1], tt[2]))
         /\ TokenOf(tt[1], tt[2]).text = tt[2] /\ TokenOf(tt[1], tt[2]) # NoToken
         /\ TokenOf(tt[1], tt[2]).kind = "name" => tt[2] # NoText
  BY LoadingAssumption DEF TokenTexts, TokenOf, WellFormed, Token, NoToken

LEMMA LexKeeps ==
  ASSUME LoadingInv, NEW tt \in TokenTexts, Lex(tt) \/ Lookahead(tt)
  PROVE  LoadingInv'
  <1>1. /\ step \in {"lex", "lookahead"} /\ loaded' = loaded /\ lexer_new_ostring(tt[2])
        /\ tt[2] \in Text \cup {NoText}
    BY TokenTextsAre DEF Lex, Lookahead
  <1>2. /\ functions' \in Seq(Compiled) /\ Len(functions') = Len(functions)
        /\ \A e \in 1..Len(functions) : /\ functions'[e].ident = functions[e].ident
                                        /\ functions[e].table \subseteq functions'[e].table
        /\ tt[2] # NoText => tt[2] \in functions'[Len(functions)].table
        /\ strings' = strings \cup ({tt[2]} \ {NoText}) /\ strings' \subseteq Text
        /\ Reachable' = Reachable \cup ({tt[2]} \ {NoText})
        /\ Reachable' \subseteq strings'
    BY <1>1, Lexed
  <1>3. LoadTypes'
    BY <1>1, <1>2, TokenTextsAre
    DEF LoadingInv, LoadTypes, LoadSteps, Lex, Lookahead, LoadStep, AfterLex, AfterLocal
  <1>4. LoadSteps'
    BY <1>1, <1>2 DEF LoadingInv, LoadTypes, LoadSteps, Lex, Lookahead, AfterLex, AfterLocal
  <1>5. HeadersKept'
    <2>1. Len(functions) \in 1..Len(functions)
      BY <1>1 DEF LoadingInv, LoadTypes, LoadSteps
    <2>2. \A d \in 1..Len(functions') :
            functions'[d].ident # NoText => functions'[d].ident \in functions'[d].table
      BY <1>2 DEF LoadingInv, HeadersKept
    <2>3. ~InHeader'
      BY <1>1 DEF LoadingInv, LoadSteps, InHeader, Lex, Lookahead, AfterLex
    <2>4. CASE Lex(tt)
      <3>1. step' = "for" /\ current'.kind = "name" =>
              current'.text \in functions'[Len(functions')].table
        BY <1>2, <2>4, TokenTextsAre DEF Lex
      <3>2. step' = "header" => held'.text \in functions'[Len(functions')].table
        BY <1>2, <2>1, <2>4 DEF Lex, LoadingInv, HeadersKept
      <3>3. step' # "lex"
        BY <2>4 DEF Lex, LoadingInv, LoadSteps, AfterLex
      <3> QED BY <2>2, <2>3, <3>1, <3>2, <3>3 DEF HeadersKept
    <2>5. CASE Lookahead(tt)
      BY <2>2, <2>3, <2>5 DEF HeadersKept, Lookahead
    <2> QED BY <2>4, <2>5
  <1>6. LoadKeeps'
    BY <1>1, <1>2, TokenTextsAre
    DEF LoadingInv, LoadTypes, LoadSteps, LoadKeeps, TextKept, Lex, Lookahead, LoadStep, AfterLex
  <1> QED BY <1>3, <1>4, <1>5, <1>6 DEF LoadingInv

\* The parser makes the name of a local itself.
LEMMA LiteralKeeps == LoadingInv /\ local_push_literal => LoadingInv'
  <1> SUFFICES ASSUME LoadingInv, local_push_literal PROVE LoadingInv'
    OBVIOUS
  <1> DEFINE t == LiteralText[step]
  <1>1. /\ step \in {"self", "index", "limit", "increment", "generator", "state", "control"}
        /\ step' = "local" /\ after' \in AfterLocal /\ (step = "self" \/ InHeader)
        /\ step = "self" => after' = "parse"
    BY DEF local_push_literal, AfterLiteral, AfterLocal, InHeader
  <1>2. loaded' = loaded /\ lexer_new_ostring(t) /\ t \in Text /\ t # NoText
    BY <1>1, LoadingAssumption DEF local_push_literal
  <1>3. held' = TokenOf("name", t) /\ indexes' = indexes /\ current' = current /\ lookahead' = lookahead
    BY DEF local_push_literal
  <1> HIDE DEF t
  <1>4. TokenOf("name", t).text = t /\ WellFormed(TokenOf("name", t))
    BY <1>2 DEF TokenOf, WellFormed, Token
  <1>5. /\ functions' \in Seq(Compiled) /\ Len(functions') = Len(functions)
        /\ \A e \in 1..Len(functions) : /\ functions'[e].ident = functions[e].ident
                                        /\ functions[e].table \subseteq functions'[e].table
        /\ strings' = strings \cup ({t} \ {NoText}) /\ strings' \subseteq Text
        /\ Reachable' = Reachable \cup ({t} \ {NoText})
        /\ Reachable' \subseteq strings'
    BY <1>1, <1>2, Lexed
  <1>6. LoadTypes'
    BY <1>1, <1>2, <1>3, <1>4, <1>5 DEF LoadingInv, LoadTypes, LoadStep
  <1>7. LoadSteps'
    BY <1>1, <1>2, <1>3, <1>4, <1>5 DEF LoadingInv, LoadTypes, LoadSteps
  <1>8. HeadersKept'
    <2>1. Len(functions) \in 1..Len(functions)
      BY <1>1 DEF LoadingInv, LoadTypes, LoadSteps
    <2>2. \A d \in 1..Len(functions') :
            functions'[d].ident # NoText => functions'[d].ident \in functions'[d].table
      BY <1>5 DEF LoadingInv, HeadersKept
    <2>3. InHeader' => functions'[Len(functions')].ident # NoText
      BY <1>1, <1>5, <2>1 DEF LoadingInv, HeadersKept, InHeader
    <2> QED BY <1>1, <2>2, <2>3 DEF HeadersKept
  <1>9. LoadKeeps'
    BY <1>1, <1>2, <1>3, <1>4, <1>5 DEF LoadingInv, LoadKeeps, TextKept
  <1> QED BY <1>6, <1>7, <1>8, <1>9 DEF LoadingInv

\* Steps of the parser over tokens only.
LEMMA TokenStepsKeep ==
  ASSUME LoadingInv,
         \/ lexed \/ Skip \/ Consume \/ constructor \/ ConsumeEnd
         \/ (\E then \in {"parse", "self"} : Params(then))
         \/ For \/ ForIdent \/ ForLocals
  PROVE  LoadingInv'
  <1> USE DEF lexed, Skip, Consume, constructor, Params, ConsumeEnd, For, ForIdent, ForLocals,
              Advance
  <1>1. Reachable' = Reachable /\ strings' = strings /\ functions' = functions
    BY SameTexts
  <1>2. LoadTypes'
    BY <1>1, NoTokenIs DEF LoadingInv, LoadTypes, LoadSteps, LoadStep, AfterLex, AfterLocal
  <1>3. LoadSteps'
    BY <1>1 DEF LoadingInv, LoadTypes, LoadSteps, WellFormed, AfterLex
  <1>4. HeadersKept'
    BY <1>1 DEF LoadingInv, LoadSteps, HeadersKept, InHeader, Depth, AfterLex
  <1>5. LoadKeeps'
    BY <1>1, NoTokenIs DEF LoadingInv, LoadTypes, LoadKeeps, TextKept
  <1> QED BY <1>2, <1>3, <1>4, <1>5 DEF LoadingInv

\* The header of a `for': its variable is put aside, and declared in the end.
LEMMA HeaderKeeps ==
  ASSUME LoadingInv, for_numeric \/ for_generic \/ ForLocal
  PROVE  LoadingInv'
  <1> DEFINE n == Len(functions)
  <1>1. n \in 1..n /\ Depth = n /\ functions[n] \in Compiled /\ loaded' = loaded
    <2>1. n \in 1..n /\ functions \in Seq(Compiled)
      BY DEF LoadingInv, LoadTypes, LoadSteps, for_numeric, for_generic, ForLocal
    <2> QED BY <2>1, ElementOfSeq DEF Depth, for_numeric, for_generic, ForLocal
  <1>2. CASE for_numeric \/ for_generic
    <2> DEFINE f == [functions[n] EXCEPT !.ident = held.text]
    <2>1. held.text # NoText /\ held.text \in functions[n].table /\ held.text \in Text
      BY <1>2 DEF for_numeric, for_generic, LoadingInv, LoadTypes, LoadSteps, HeadersKept, WellFormed, Token
    <2>2. /\ f \in Compiled /\ f.table = functions[n].table /\ f.chunk = functions[n].chunk
          /\ f.ident = held.text
      BY <1>1, <2>1 DEF Compiled
    <2>3. functions' = [functions EXCEPT ![n] = f]
      BY <1>1, <1>2 DEF for_numeric, for_generic
    <2> HIDE DEF f
    <2>4. f.table \cup f.chunk = functions[n].table \cup functions[n].chunk \cup {}
      BY <2>2
    <2>5. /\ functions' \in Seq(Compiled) /\ Len(functions') = n
          /\ \A e \in 1..n : functions'[e] = IF e = n THEN f ELSE functions[e]
          /\ Reachable' = Reachable
      <3>1. LoadTypes
        BY DEF LoadingInv
      <3>2. /\ functions' \in Seq(Compiled) /\ Len(functions') = n
            /\ \A e \in 1..n : functions'[e] = IF e = n THEN f ELSE functions[e]
            /\ Reachable' = Reachable \cup {}
        BY <1>1, <2>2, <2>3, <2>4, <3>1, Updated
      <3> QED BY <3>2
    <2>6. /\ strings' = strings /\ indexes' = indexes /\ current' = current
          /\ lookahead' = lookahead /\ held' = NoToken /\ step = "header"
          /\ \/ step' = "lex" /\ after' = "parse"
             \/ step' = "generator" /\ after' = after
      BY <1>2 DEF for_numeric, for_generic, Advance
    <2>7. LoadTypes'
      BY <1>1, <2>5, <2>6, NoTokenIs DEF LoadingInv, LoadTypes, LoadStep, AfterLex
    <2>8. LoadSteps'
      BY <1>1, <2>5, <2>6 DEF LoadingInv, LoadSteps, AfterLex
    <2>9. HeadersKept'
      <3>1. \A d \in 1..Len(functions') :
              functions'[d].ident # NoText => functions'[d].ident \in functions'[d].table
        BY <2>1, <2>2, <2>5 DEF LoadingInv, HeadersKept
      <3> QED BY <1>1, <2>1, <2>2, <2>5, <2>6, <3>1 DEF HeadersKept, InHeader
    <2>10. LoadKeeps'
      BY <2>5, <2>6, NoTokenIs DEF LoadingInv, LoadKeeps, TextKept
    <2> QED BY <2>7, <2>8, <2>9, <2>10 DEF LoadingInv
  <1>3. CASE ForLocal
    <2> DEFINE i == functions[n].ident
               f == [functions[n] EXCEPT !.chunk = @ \cup {i}, !.ident = NoText]
    <2>1. i \in Text /\ i \in functions[n].table
      BY <1>1, <1>3 DEF ForLocal, LoadingInv, HeadersKept, InHeader, Compiled
    <2>2. /\ f \in Compiled /\ f.table = functions[n].table
          /\ f.chunk = functions[n].chunk \cup {i} /\ f.ident = NoText
      BY <1>1, <2>1 DEF Compiled
    <2>3. functions' = [functions EXCEPT ![n] = f]
      <3>1. functions' = [functions EXCEPT ![n].chunk = @ \cup {i}, ![n].ident = NoText]
        BY <1>1, <1>3 DEF ForLocal
      <3>2. functions \in [1..n -> Compiled]
        BY DEF LoadingInv, LoadTypes
      <3> QED BY <1>1, <3>1, <3>2 DEF Compiled
    <2> HIDE DEF f
    <2>4. f.table \cup f.chunk = functions[n].table \cup functions[n].chunk \cup {}
      BY <2>1, <2>2
    <2>5. /\ functions' \in Seq(Compiled) /\ Len(functions') = n
          /\ \A e \in 1..n : functions'[e] = IF e = n THEN f ELSE functions[e]
          /\ Reachable' = Reachable
      <3>1. LoadTypes
        BY DEF LoadingInv
      <3>2. /\ functions' \in Seq(Compiled) /\ Len(functions') = n
            /\ \A e \in 1..n : functions'[e] = IF e = n THEN f ELSE functions[e]
            /\ Reachable' = Reachable \cup {}
        BY <1>1, <2>2, <2>3, <2>4, <3>1, Updated
      <3> QED BY <3>2
    <2>6. /\ strings' = strings /\ indexes' = indexes /\ current' = current
          /\ lookahead' = lookahead /\ held' = held /\ step = "ident"
          /\ step' = "parse" /\ after' = after
      BY <1>3 DEF ForLocal
    <2>7. LoadTypes'
      BY <1>1, <2>5, <2>6 DEF LoadingInv, LoadTypes, LoadStep
    <2>8. LoadSteps'
      BY <1>1, <2>5, <2>6 DEF LoadingInv, LoadSteps
    <2>9. HeadersKept'
      <3>1. \A d \in 1..Len(functions') :
              functions'[d].ident # NoText => functions'[d].ident \in functions'[d].table
        BY <2>2, <2>5 DEF LoadingInv, HeadersKept
      <3> QED BY <2>6, <3>1 DEF HeadersKept, InHeader
    <2>10. LoadKeeps'
      BY <2>5, <2>6 DEF LoadingInv, LoadKeeps, TextKept
    <2> QED BY <2>7, <2>8, <2>9, <2>10 DEF LoadingInv
  <1> QED BY <1>2, <1>3

\* Steps that put the text of a token into the chunk of the innermost function.
LEMMA RegisterKeeps ==
  ASSUME LoadingInv, StringArgument \/ Register \/ LocalPush
  PROVE  LoadingInv'
  <1>1. PICK x \in strings : functions' = InChunk(Depth, {x})
    <2>1. CASE StringArgument
      BY <2>1 DEF StringArgument, LoadingInv, LoadTypes, LoadKeeps, TextKept, WellFormed
    <2>2. CASE Register \/ LocalPush
      <3>1. held.text # NoText => held.text \in strings
        BY <2>2 DEF Register, LocalPush, LoadingInv, LoadKeeps, TextKept
      <3>2. held.text # NoText
        BY <2>2 DEF Register, LocalPush, LoadingInv, LoadSteps
      <3> QED BY <2>2, <3>1, <3>2 DEF Register, LocalPush
    <2> QED BY <2>1, <2>2
  <1>2. LoadTypes /\ Depth \in 1..Len(functions) /\ {x} \in SUBSET Text /\ loaded' = loaded
    BY DEF LoadingInv, LoadTypes, LoadSteps, Depth, StringArgument, Register, LocalPush
  <1>3. /\ functions' \in Seq(Compiled) /\ Len(functions') = Len(functions)
        /\ Reachable' = Reachable \cup {x}
        /\ \A e \in 1..Len(functions) : /\ functions'[e].ident = functions[e].ident
                                        /\ functions[e].table \subseteq functions'[e].table
    BY <1>1, <1>2, AddTexts
  <1>4. LoadTypes'
    BY <1>3, NoTokenIs DEF LoadingInv, LoadTypes, LoadSteps, LoadStep, AfterLex, AfterLocal, StringArgument, Register, LocalPush, Advance
  <1>5. LoadSteps'
    BY <1>3 DEF LoadingInv, LoadTypes, LoadSteps, AfterLex, AfterLocal, StringArgument, Register, LocalPush, Advance
  <1>6. LoadKeeps'
    BY <1>3, NoTokenIs DEF LoadingInv, LoadTypes, LoadKeeps, TextKept, StringArgument, Register, LocalPush, Advance
  <1>7. HeadersKept'
    <2>1. Depth = Len(functions) /\ Len(functions) \in 1..Len(functions)
      BY <1>2 DEF Depth
    <2>2. \A d \in 1..Len(functions') :
            functions'[d].ident # NoText => functions'[d].ident \in functions'[d].table
      BY <1>3 DEF LoadingInv, HeadersKept
    <2>3. InHeader' => functions'[Len(functions')].ident # NoText
      BY <1>3, <2>1 DEF LoadingInv, LoadSteps, HeadersKept, InHeader, AfterLocal,
                        StringArgument, Register, LocalPush, Advance
    <2>4. step' \notin {"for", "header"} /\ ~(step' = "lex" /\ after' = "header")
      BY DEF LoadingInv, LoadSteps, AfterLocal, StringArgument, Register, LocalPush, Advance
    <2> QED BY <2>2, <2>3, <2>4 DEF HeadersKept
  <1> QED BY <1>4, <1>5, <1>6, <1>7 DEF LoadingInv

\* The name of an upvalue is added to the chunks of all functions between.
LEMMA UpvalueKeeps ==
  ASSUME LoadingInv, NEW d \in 1..MaxFunctions, RegisterUpvalue(d)
  PROVE  LoadingInv'
  <1> DEFINE t == held.text
  <1>1. /\ functions \in Seq(Compiled) /\ loaded' = loaded /\ t \in Text /\ t \in strings
        /\ d < Len(functions) /\ d \in 1..Len(functions)
    BY DEF RegisterUpvalue, Depth, LoadingInv, LoadTypes, LoadSteps, LoadKeeps, TextKept, WellFormed, Token
  <1>2. \A e \in 1..Len(functions) : functions[e] \in Compiled
    BY <1>1, ElementOfSeq
  <1>3. functions' = [e \in 1..Len(functions) |->
                        IF e > d THEN [functions[e] EXCEPT !.chunk = @ \cup {t}] ELSE functions[e]]
    BY DEF RegisterUpvalue, Depth
  <1>4. \A e \in 1..Len(functions) :
          /\ functions'[e] \in Compiled /\ functions'[e].ident = functions[e].ident
          /\ functions'[e].table = functions[e].table
          /\ functions'[e].table \cup functions'[e].chunk \subseteq
               functions[e].table \cup functions[e].chunk \cup {t}
          /\ functions[e].table \cup functions[e].chunk \subseteq
               functions'[e].table \cup functions'[e].chunk
    BY <1>1, <1>2, <1>3 DEF Compiled
  <1>5. Len(functions) \in Nat /\ functions' \in Seq(Compiled) /\ Len(functions') = Len(functions)
    BY <1>1, <1>3, <1>4
  <1>6. Reachable \subseteq Reachable' /\ Reachable' \subseteq Reachable \cup {t}
    <2>1. \A x : x \in Reachable' <=>
             \/ x \in loaded
             \/ \E e \in 1..Len(functions) : x \in functions'[e].table \cup functions'[e].chunk
      BY <1>1, <1>5 DEF Reachable, Depth
    <2> QED BY <2>1, <1>4, ReachableMembers
  <1>7. LoadTypes'
    BY <1>5, NoTokenIs DEF LoadingInv, LoadTypes, LoadStep, RegisterUpvalue
  <1>8. LoadSteps'
    BY <1>5 DEF LoadingInv, LoadTypes, LoadSteps, RegisterUpvalue
  <1>9. LoadKeeps'
    BY <1>1, <1>6, NoTokenIs DEF LoadingInv, LoadTypes, LoadKeeps, TextKept, RegisterUpvalue
  <1>10. HeadersKept'
    <2>1. \A e \in 1..Len(functions') :
            functions'[e].ident # NoText => functions'[e].ident \in functions'[e].table
      BY <1>4, <1>5 DEF LoadingInv, HeadersKept
    <2> QED BY <2>1 DEF HeadersKept, InHeader, RegisterUpvalue
  <1> QED BY <1>7, <1>8, <1>9, <1>10 DEF LoadingInv

LEMMA OpenKeeps == LoadingInv /\ function_open => LoadingInv'
  <1> SUFFICES ASSUME LoadingInv, function_open PROVE LoadingInv'
    OBVIOUS
  <1>1. functions \in Seq(Compiled) /\ Len(functions) \in Nat
    BY DEF LoadingInv, LoadTypes
  <1>2. /\ NewFunction \in Compiled /\ NewFunction.table \cup NewFunction.chunk = {}
        /\ NewFunction.ident = NoText
    BY DEF NewFunction, Compiled
  <1>3. /\ functions' \in Seq(Compiled) /\ Len(functions') = Len(functions) + 1
        /\ functions'[Len(functions) + 1] = NewFunction
        /\ \A e \in 1..Len(functions) : functions'[e] = functions[e]
    BY <1>1, <1>2 DEF function_open
  <1>4. Reachable' = Reachable
    <2>1. \A x : x \in Reachable' <=>
             \/ x \in loaded
             \/ \E e \in 1..(Len(functions) + 1) : x \in functions'[e].table \cup functions'[e].chunk
      BY <1>3 DEF Reachable, Depth, function_open
    <2>2. \A x : x \in Reachable' <=> x \in Reachable
      BY <2>1, <1>1, <1>2, <1>3, ReachableMembers
    <2> QED BY <2>2
  <1>s. /\ step = "parse" /\ step' = "params" /\ indexes' = Len(functions) + 1
        /\ Len(functions) < MaxFunctions
        /\ strings' = strings /\ current' = current /\ lookahead' = lookahead
        /\ held' = held /\ after' = after /\ loaded' = loaded
    BY DEF function_open, Depth
  <1>5. LoadTypes'
    <2>1. Len(functions) + 1 <= MaxFunctions /\ indexes' \in 0..MaxFunctions
      BY <1>1, <1>s, LoadingAssumption
    <2>2. WellFormed(current') /\ WellFormed(lookahead') /\ WellFormed(held')
      BY <1>s DEF LoadingInv, LoadTypes
    <2>3. step' \in LoadStep /\ after' \in AfterLex \cup AfterLocal
      BY <1>s DEF LoadingInv, LoadTypes, LoadStep
    <2>4. strings' \subseteq Text /\ loaded' \subseteq Text
      BY <1>s DEF LoadingInv, LoadTypes
    <2>5. functions' \in Seq(Compiled) /\ Len(functions') <= MaxFunctions
      BY <1>3, <2>1
    <2> QED BY <2>1, <2>2, <2>3, <2>4, <2>5 DEF LoadTypes
  <1>6. LoadSteps'
    BY <1>1, <1>3, <1>s DEF LoadingInv, LoadSteps
  <1>7. LoadKeeps'
    BY <1>4 DEF LoadingInv, LoadKeeps, TextKept, function_open
  <1>8. HeadersKept'
    <2>1. \A e \in 1..Len(functions') :
            functions'[e].ident # NoText => functions'[e].ident \in functions'[e].table
      BY <1>1, <1>2, <1>3 DEF LoadingInv, HeadersKept
    <2> QED BY <2>1, <1>s DEF HeadersKept, InHeader
  <1> QED BY <1>5, <1>6, <1>7, <1>8 DEF LoadingInv

LEMMA CloseKeeps == LoadingInv /\ function_close => LoadingInv'
  <1> SUFFICES ASSUME LoadingInv, function_close PROVE LoadingInv'
    OBVIOUS
  <1>1. Reachable' = Reachable
    BY SameTexts DEF function_close
  <1>2. LoadTypes'
    <2>1. functions \in Seq(Compiled) /\ Len(functions) \in Nat /\ Len(functions) > 0
      BY DEF LoadingInv, LoadTypes, LoadSteps, function_close
    <2>2. Len(functions) <= MaxFunctions
      BY DEF LoadingInv, LoadTypes
    <2>3. indexes' \in 0..MaxFunctions
      BY <2>1, <2>2, LoadingAssumption DEF function_close, Depth
    <2> QED BY <2>3 DEF LoadingInv, LoadTypes, LoadStep, function_close
  <1>3. LoadSteps'
    BY DEF LoadingInv, LoadTypes, LoadSteps, function_close, Depth
  <1>4. LoadKeeps'
    BY <1>1 DEF LoadingInv, LoadKeeps, TextKept, function_close
  <1>5. HeadersKept'
    BY DEF LoadingInv, HeadersKept, InHeader, function_close
  <1> QED BY <1>2, <1>3, <1>4, <1>5 DEF LoadingInv

\* The parent takes the chunk over, the table is dropped: the current token is
\* late if nothing else has its text.
LEMMA PushKeeps == LoadingInv /\ function_push => LoadingInv'
  <1> SUFFICES ASSUME LoadingInv, function_push PROVE LoadingInv'
    OBVIOUS
  <1> DEFINE n == Len(functions)
  <1>1. functions \in Seq(Compiled) /\ n \in Nat /\ n > 1 /\ loaded' = loaded
    BY DEF LoadingInv, LoadTypes, function_push, Depth
  <1>2. \A e \in 1..n : functions[e] \in Compiled
    BY <1>1, ElementOfSeq
  <1>3. functions' = [d \in 1..(n - 1) |->
                        IF d = n - 1 THEN [functions[d] EXCEPT !.chunk = @ \cup functions[n].chunk]
                        ELSE functions[d]]
    BY DEF function_push, Depth
  <1>4. \A e \in 1..(n - 1) :
          /\ functions'[e] \in Compiled /\ functions'[e].ident = functions[e].ident
          /\ functions'[e].table = functions[e].table
          /\ functions'[e].table \cup functions'[e].chunk \subseteq
               functions[e].table \cup functions[e].chunk \cup functions[n].chunk
    BY <1>1, <1>2, <1>3 DEF Compiled
  <1>5. functions' \in Seq(Compiled) /\ Len(functions') = n - 1
    BY <1>1, <1>3, <1>4
  <1>6. Reachable' \subseteq Reachable
    <2>1. \A x : x \in Reachable' <=>
             \/ x \in loaded
             \/ \E e \in 1..(n - 1) : x \in functions'[e].table \cup functions'[e].chunk
      BY <1>1, <1>5 DEF Reachable, Depth
    <2> QED BY <2>1, <1>1, <1>4, ReachableMembers
  <1>7. current' = [current EXCEPT !.late = current.text \notin Reachable' \cup {NoText}]
    BY DEF function_push
  <1>8. /\ WellFormed(current') /\ current'.text = current.text
        /\ current'.late \/ current'.text \in Reachable' \cup {NoText}
    BY <1>7 DEF LoadingInv, LoadTypes, WellFormed, Token
  <1>s. /\ step = "push" /\ step' = "parse"
        /\ strings' = strings /\ indexes' = indexes /\ lookahead' = lookahead
        /\ held' = held /\ after' = after
    BY DEF function_push
  <1>9. LoadTypes'
    BY <1>1, <1>5, <1>8, <1>s, LoadingAssumption DEF LoadingInv, LoadTypes, LoadStep
  <1>10. LoadSteps'
    BY <1>1, <1>5, <1>s DEF LoadingInv, LoadSteps
  <1>11. LoadKeeps'
    <2>1. lookahead' = NoToken /\ held' = NoToken
      BY <1>s DEF LoadingInv, LoadSteps
    <2> QED BY <1>6, <1>8, <1>s, <2>1, NoTokenIs DEF LoadingInv, LoadKeeps, TextKept
  <1>12. HeadersKept'
    <2>1. \A e \in 1..Len(functions') :
            functions'[e].ident # NoText => functions'[e].ident \in functions'[e].table
      BY <1>1, <1>4, <1>5 DEF LoadingInv, HeadersKept
    <2> QED BY <2>1, <1>s DEF HeadersKept, InHeader
  <1> QED BY <1>9, <1>10, <1>11, <1>12 DEF LoadingInv

\* The main function is loaded, or an error drops everything.
LEMMA EndKeeps ==
  ASSUME LoadingInv, parser_program \/ vm_throw
  PROVE  LoadingInv'
  <1>1. functions' = <<>> /\ <<>> \in Seq(Compiled) /\ Len(<<>>) = 0
    BY DEF parser_program, vm_throw
  <1>2. \A x : x \in Reachable' <=> x \in loaded'
    BY <1>1 DEF Reachable, Depth
  <1>3. loaded' \subseteq Reachable
    <2>1. CASE parser_program
      <3>1. 1 \in 1..Len(functions) /\ loaded' = functions[1].chunk
        BY <2>1 DEF parser_program, Depth
      <3> QED BY <3>1, ReachableMembers
    <2>2. CASE vm_throw
      BY <2>2, ReachableMembers DEF vm_throw
    <2> QED BY <2>1, <2>2
  <1>4. strings' = strings /\ Reachable \subseteq strings /\ strings \subseteq Text
    BY DEF LoadingInv, LoadTypes, LoadKeeps, parser_program, vm_throw
  <1>5. LoadTypes'
    BY <1>1, <1>3, <1>4, NoTokenIs, LoadingAssumption
    DEF LoadingInv, LoadTypes, LoadStep, parser_program, vm_throw
  <1>6. LoadSteps'
    BY DEF LoadingInv, LoadSteps, parser_program, vm_throw
  <1>7. /\ current'.text = NoText /\ lookahead'.text = NoText /\ held'.text = NoText
    BY NoTokenIs DEF LoadingInv, LoadTypes, LoadSteps, WellFormed, parser_program, vm_throw
  <1>8. LoadKeeps'
    BY <1>2, <1>3, <1>4, <1>7 DEF LoadKeeps, TextKept
  <1>9. HeadersKept'
    BY <1>1 DEF HeadersKept, InHeader, parser_program, vm_throw
  <1> QED BY <1>5, <1>6, <1>8, <1>9 DEF LoadingInv

LEMMA LoadingKeeps == LoadingInv /\ [LoadingNext]_loadingVars => LoadingInv'
  <1> SUFFICES ASSUME LoadingInv, [LoadingNext]_loadingVars PROVE LoadingInv'
    OBVIOUS
  <1>1. CASE UNCHANGED loadingVars
    <2>1. Reachable' = Reachable
      BY <1>1, SameTexts DEF loadingVars
    <2> QED BY <1>1, <2>1 DEF loadingVars, LoadingInv, LoadTypes, LoadSteps, HeadersKept, InHeader,
       LoadKeeps, TextKept
  <1>2. CASE LoadingNext
    BY <1>2, CollectKeeps, LexKeeps, LiteralKeeps, TokenStepsKeep, HeaderKeeps, RegisterKeeps,
       UpvalueKeeps, OpenKeeps, CloseKeeps, PushKeeps, EndKeeps DEF LoadingNext
  <1> QED BY <1>1, <1>2

-----------------------------------------------------------------------------
(* What it means *)

LEMMA LoadingMeans == LoadingInv => LoadingTypeOK /\ TokensLive /\ ConstantsLive /\ TableOnStack
  <1> SUFFICES ASSUME LoadingInv PROVE LoadingTypeOK /\ TokensLive /\ ConstantsLive /\ TableOnStack
    OBVIOUS
  <1>1. LoadingTypeOK
    BY DEF LoadingInv, LoadTypes, LoadSteps, LoadingTypeOK, Compiled, Depth, WellFormed
  <1>2. TokensLive
    <2>1. \A t \in Held : t.text # NoText /\ ~t.late => t.text \in strings
      BY DEF LoadingInv, LoadTypes, LoadKeeps, TextKept, Held
    <2>2. Idents \subseteq strings
      BY ReachableMembers DEF LoadingInv, LoadKeeps, HeadersKept, Idents, Depth
    <2> QED BY <2>1, <2>2 DEF TokensLive
  <1>3. ConstantsLive
    <2>1. Reachable \subseteq strings
      BY DEF LoadingInv, LoadKeeps
    <2> QED BY <2>1, ReachableMembers DEF ConstantsLive, Depth
  <1>4. TableOnStack
    BY DEF LoadingInv, LoadSteps, TableOnStack, AfterLiteral, Depth
  <1> QED BY <1>1, <1>2, <1>3, <1>4

\* The strengthened invariant holds of every compilation.
THEOREM LoadingInvariant == LoadingSpec => []LoadingInv
  BY LoadingStarts, LoadingKeeps, PTL DEF LoadingSpec

\* Every variable has its type, and nothing is looked ahead twice (lookahead).
THEOREM TypeCorrect == LoadingSpec => []LoadingTypeOK
  BY LoadingInvariant, LoadingMeans, PTL

\* No string that the parser holds is freed, the token after the end of a
\* function apart (consume_ident, lexer_new_ostring).
THEOREM TokensAreLive == LoadingSpec => []TokensLive
  BY LoadingInvariant, LoadingMeans, PTL

\* No string of a function that is compiled or loaded is freed
\* (gc_blacken_chunk, function_push).
THEOREM ConstantsAreLive == LoadingSpec => []ConstantsLive
  BY LoadingInvariant, LoadingMeans, PTL

\* The lexer always has the table of the innermost function (function_open,
\* function_close).
THEOREM TableIsInnermost == LoadingSpec => []TableOnStack
  BY LoadingInvariant, LoadingMeans, PTL

=============================================================================

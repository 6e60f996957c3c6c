------------------------------ MODULE MCLexer ------------------------------
(* Lexer over small alphabets, each with the characters of one kind of token. *)
EXTENDS Lexer

MCAlphabets == {
  {"[", "]", "=", "-", "\n"},      \* long strings and comments
  {"0", "e", "x", ".", "+"} ,  \* numbers, points
  {"'", "\"", "\\", "\n", "n"},   \* quoted strings and escapes
  {"d", "o", "~", "=", " "}}  \* names, keywords, operators

=============================================================================

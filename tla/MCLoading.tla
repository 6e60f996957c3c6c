----------------------------- MODULE MCLoading -----------------------------
(* Loading with few texts, for TLC. *)
EXTENDS Loading, TLC

CONSTANTS a, literal
MCText == {a, literal}

\* One text for the names the parser makes: it may be in the program too.
MCLiteralText == [l \in DOMAIN AfterLiteral |-> literal]
=============================================================================

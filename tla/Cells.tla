------------------------------- MODULE Cells -------------------------------
(***************************************************************************)
(* What lexical closures promise.  A variable is a cell: it is in scope    *)
(* until its block, function or protected call is left, and a capture goes *)
(* on naming that same cell afterwards.  Two captures of one variable see  *)
(* each other's assignments, and so does the function that declared it.    *)
(*                                                                         *)
(* Upvalues implements this with stack slots and upvalue objects.          *)
(***************************************************************************)
EXTENDS Naturals, Sequences

CONSTANTS
  Var,     \* variables: names of cells, used again when nothing names them
  Capture, \* the places in closures that hold a captured variable
  Value,   \* the values of variables
  MaxDeclared, \* bound on the variables that come into scope at once
  Blank,   \* what a cell holds that nothing names or that was never assigned
  Nil      \* no variable

VARIABLES
  scope,   \* the variables in scope, innermost last
  bound,   \* bound[h]: the variable capture h names
  val      \* val[v]: the content of cell v

vars == <<scope, bound, val>>

Named(sc, b) == {sc[i] : i \in DOMAIN sc} \cup ({b[h] : h \in Capture} \ {Nil})

Keep(sc, b) == [v \in Var |-> IF v \in Named(sc, b) THEN val[v] ELSE Blank]

Init ==
  /\ scope = <<>>
  /\ bound = [h \in Capture |-> Nil]
  /\ val = [v \in Var |-> Blank]

\* n new variables come into scope, with any contents.
Declare(n) ==
  /\ scope' \in Seq(Var) /\ Len(scope') = Len(scope) + n
  /\ SubSeq(scope', 1, Len(scope)) = scope
  /\ \A i \in Len(scope) + 1 .. Len(scope') : scope'[i] \notin Named(scope, bound)
  /\ \A i, j \in DOMAIN scope' : i # j => scope'[i] # scope'[j]
  /\ \A v \in Named(scope, bound) : val'[v] = val[v]
  /\ \A v \in Var \ Named(scope', bound) : val'[v] = Blank
  /\ UNCHANGED bound

Leave(n) ==
  /\ scope' = SubSeq(scope, 1, n)
  /\ val' = Keep(scope', bound)
  /\ UNCHANGED bound

Bind(h, i) ==
  /\ bound' = [bound EXCEPT ![h] = scope[i]]
  /\ val' = Keep(scope, bound')
  /\ UNCHANGED scope

\* A closure is collected, and its capture names nothing any more.
Unbind(h) ==
  /\ bound' = [bound EXCEPT ![h] = Nil]
  /\ val' = Keep(scope, bound')
  /\ UNCHANGED scope

Assign(i, x) ==
  /\ val' = [val EXCEPT ![scope[i]] = x]
  /\ UNCHANGED <<scope, bound>>

\* A closure reads its capture into a variable in scope, or the reverse.
Get(h, i) == bound[h] # Nil /\ Assign(i, val[bound[h]])

Set(h, i) ==
  /\ bound[h] # Nil
  /\ val' = [val EXCEPT ![bound[h]] = val[scope[i]]]
  /\ UNCHANGED <<scope, bound>>

Next ==
  \/ \E n \in 1 .. MaxDeclared : Declare(n)
  \/ \E n \in 0 .. Len(scope) : Leave(n)
  \/ \E h \in Capture : Unbind(h)
  \/ \E h \in Capture, i \in DOMAIN scope : Bind(h, i) \/ Get(h, i) \/ Set(h, i)
  \/ \E i \in DOMAIN scope, x \in Value : Assign(i, x)

Spec == Init /\ [][Next]_vars
=============================================================================

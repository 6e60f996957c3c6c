------------------------------- MODULE Calls -------------------------------
(***************************************************************************)
(* What calls promise.  Every call is an activation with values of its     *)
(* own.  It starts with exactly its arguments, nil for those missing; its  *)
(* caller gets exactly the results it asked for, nil for those missing,    *)
(* and nothing else of the caller changes; a caught error leaves the       *)
(* caller its values, followed by the error.                               *)
(*                                                                         *)
(* CallFrames implements this with windows on one stack of values.         *)
(***************************************************************************)
EXTENDS Naturals, Sequences

CONSTANTS
  Value,
  Nil, Err,   \* the values nil and an error message
  All,        \* as many results as there are
  MaxParams,  \* bound on the parameters of a function
  MaxResults, \* bound on the results asked for
  None        \* not protected

VARIABLE
  acts \* the activations, innermost last

vars == <<acts>>

\* A sequence cut or extended with nil to n values.
Adjust(s, n) == [i \in 1 .. n |-> IF i <= Len(s) THEN s[i] ELSE Nil]

\* The last n values of a sequence.
Last(s, n) == SubSeq(s, Len(s) - n + 1, Len(s))

\* The host program is the first activation.
Init == acts = <<[vals |-> <<>>, want |-> 0, into |-> 1, protected |-> None]>>

-----------------------------------------------------------------------------
(* Steps from the activations a to the activations b.  Running is the last of *)
(* a, with the values vals.                                                   *)

\* An activation does what it likes with its own values, and nothing else.
Compute(a, b, Running) ==
  /\ Len(b) = Running
  /\ b = [a EXCEPT ![Running].vals = b[Running].vals]

\* What functions make of their arguments: those with parameters have exactly
\* these, others take all arguments.
Received(args) == {args} \cup {Adjust(args, p) : p \in 0 .. MaxParams}

\* A call that leaves its caller the first `keep` values; the results go from
\* place `into` on.
Call(a, b, args, keep, want, into, protected) ==
  LET new == b[Len(b)]
  IN  /\ new.into = into /\ new.want = want /\ new.protected = protected
      /\ new.vals \in Received(args)
      /\ b = Append([a EXCEPT ![Len(a)].vals = SubSeq(@, 1, keep)], new)

\* A function and its n arguments, the last values of the caller, are consumed.
\* Under protection they are given back.
CallTop(a, b, vals, n, want) ==
  LET keep == Len(vals) - n - 1
  IN  /\ n + 1 <= Len(vals)
      /\ \E protected \in {None, n + 1} :
           Call(a, b, Last(vals, n), keep, want, keep + 1, protected)

\* A call of a function on copies: in a generic loop, for an operator.
CallOn(a, b, vals, args, want, into) == Call(a, b, args, Len(vals), want, into, None)

\* A protected call with one argument from outside.
CallData(a, b, vals, x) == Call(a, b, <<x>>, Len(vals), 0, Len(vals) + 1, 0)

\* Return of the last k values.
Return(a, b, vals, k) ==
  LET act     == a[Len(a)]
      caller  == a[Len(a) - 1].vals
      given   == Last(vals, k)
      results == IF act.want = All THEN given ELSE Adjust(given, act.want)
  IN  /\ Len(a) > 1
      /\ b = [SubSeq(a, 1, Len(a) - 1) EXCEPT ![Len(a) - 1].vals =
                SubSeq(caller, 1, act.into - 1) \o results
                  \o SubSeq(caller, act.into + Len(results), Len(caller))]

\* An error unwinds to the innermost protected call.
Throw(a, b) ==
  LET Protected == {i \in DOMAIN a : a[i].protected # None}
      i == CHOOSE j \in Protected : \A k \in Protected : k <= j
      v == b[i - 1].vals
  IN  /\ Protected # {}
      /\ Len(b) = i - 1
      /\ Len(v) = Len(a[i - 1].vals) + a[i].protected + 1
      /\ SubSeq(v, 1, Len(a[i - 1].vals)) = a[i - 1].vals
      /\ v[Len(v)] = Err
      /\ b = [SubSeq(a, 1, i - 1) EXCEPT ![i - 1].vals = v]

Step(a, b, vals) ==
  \/ Compute(a, b, Len(a))
  \/ /\ Len(b) > Len(a)
     /\ \/ \E n \in 0 .. Len(vals), want \in 0 .. MaxResults \cup {All} :
             CallTop(a, b, vals, n, want)
        \/ \E i, j, into \in DOMAIN vals : CallOn(a, b, vals, <<vals[i], vals[j]>>, 1, into)
        \/ \E i, j \in DOMAIN vals, want \in 0 .. MaxResults :
             CallOn(a, b, vals, <<vals[i], vals[j]>>, want, Len(vals) + 1)
        \/ \E i, j, k \in DOMAIN vals :
             CallOn(a, b, vals, <<vals[i], vals[j], vals[k]>>, 0, Len(vals) + 1)
        \/ \E x \in Value : CallData(a, b, vals, x)
  \/ /\ Len(b) < Len(a)
     /\ \/ \E k \in 0 .. Len(vals) : Return(a, b, vals, k)
        \/ Throw(a, b)

Next == \E a \in {acts}, b \in {acts'} : Step(a, b, a[Len(a)].vals)

Spec == Init /\ [][Next]_vars
=============================================================================

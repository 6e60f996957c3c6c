---------------------------- MODULE MCCallFrames ----------------------------
(* CallFrames on a short stack, for TLC. *)
EXTENDS CallFrames

\* What follows a departure from the conventions of calls is not explored.
Foreseen == strays = {}

\* The slots that are not read again, up to such a departure, before they are
\* written: above what the running function uses, and between what the caller of
\* a frame keeps and the frame, unless lulu_pcall gives these back.
Dead(s) ==
  \/ s >= IF InC \/ open THEN top ELSE window.base + live
  \/ \E i \in DOMAIN frames :
       LET f == frames[i].base - 1
           from == (IF i = 1 THEN 0 ELSE frames[i - 1].base) + frames[i].how.keep
       IN  /\ s \in from .. f
           /\ frames[i].how.catch = Nil \/ frames[i].how.catch.top = f

\* vm_call sets the window of a C frame before it is read.
View ==
  <<[s \in Slot |-> IF Dead(s) THEN Nil ELSE stack[s]],
    [i \in DOMAIN frames |-> IF i = Len(frames) /\ InC
                             THEN [frames[i] EXCEPT !.len = 0] ELSE frames[i]],
    window, live, open, leaked, strays>>
=============================================================================

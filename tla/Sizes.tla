-------------------------------- MODULE Sizes --------------------------------
(***************************************************************************)
(* The arithmetic the containers of lulu choose their sizes with: powers   *)
(* of two (mem.cpp) and the size of the array part of a Lua table          *)
(* (table.cpp).                                                            *)
(***************************************************************************)
EXTENDS Naturals

\* The exponents of the lookup table in mem_ceil_log2 go up to this one: the
\* table has 2^LOOKUP_BITS elements.  8 in the source.
CONSTANT LOOKUP_BITS

ASSUME LookupAssumption == LOOKUP_BITS \in Nat \ {0}

\* 1 << e
Pow2[e \in Nat] == IF e = 0 THEN 1 ELSE 2 * Pow2[e - 1]

\* ceil_log2_lookup_table[n - 1]
ceil_log2_lookup_table(n) ==
  CHOOSE e \in 0..LOOKUP_BITS :
    n <= Pow2[e] /\ \A d \in 0..(e - 1) : n > Pow2[d]

\* n >>= LOOKUP_BITS, that many times over.
Shifted(n, times) == n \div Pow2[times * LOOKUP_BITS]

\* n is shifted until the table has it, which rounds down what is looked up.
mem_ceil_log2(n) ==
  LET turns == CHOOSE j \in 0..n :
                 /\ Shifted(n, j) <= Pow2[LOOKUP_BITS]
                 /\ \A l \in 0..(j - 1) : Shifted(n, l) > Pow2[LOOKUP_BITS]
  IN  turns * LOOKUP_BITS + ceil_log2_lookup_table(Shifted(n, turns))

mem_next_pow2(n) == Pow2[mem_ceil_log2(n)]

-----------------------------------------------------------------------------
(* The array part of a table *)

\* table_array_compute_size: acc[b] is the accumulator after the turns 0..b of
\* the loop, n the parameter *n_array on entry.  Turn b comes about unless the
\* loop ended before, on one of its two breaks; the last turn in which the
\* indices counted so far fill more than half of 2^b slots decides.
table_array_compute_size(acc, n) ==
  LET Half(b) == Pow2[b] \div 2
      turns == {b \in 0..n : n > Half(b) /\ (b > 0 => acc[b - 1] # n)}
      fits == {b \in turns : acc[b] > Half(b) /\ (b > 0 => acc[b] > acc[b - 1])}
      last == CHOOSE b \in fits : \A c \in fits : c <= b
  IN  IF fits = {} THEN [optimal |-> 0, active |-> 0]
      ELSE [optimal |-> Pow2[last], active |-> acc[last]]

=============================================================================

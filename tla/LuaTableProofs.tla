--------------------------- MODULE LuaTableProofs ---------------------------
(***************************************************************************)
(* Proofs about LuaTable for all keys, values, hashes, minimal sizes and   *)
(* orders of assignments: the table is the dictionary it promises to be,   *)
(* #t is a border, traversals that no rehash disturbs are exact, a rehash *)
(* makes room for what it moves, and it never reallocates an array part    *)
(* that a table_resize above it is still moving elements out of.           *)
(*                                                                         *)
(* The module goes from numbers to the table at rest, what a rehash does   *)
(* to it, the pairs that the running rehashes carry, the steps, and the    *)
(* invariants.                                                             *)
(***************************************************************************)
EXTENDS LuaTable, FiniteSetTheorems, SequenceTheorems, WellFoundedInduction, NaturalsInduction, TLAPS

-----------------------------------------------------------------------------
(* Powers of two *)

\* A set of numbers has a least one: the interval that ends with it is in no other.
LEMMA LeastNumber ==
  ASSUME NEW S, S \subseteq Nat, S # {}
  PROVE  \E x \in S : \A y \in S : x <= y
  <1> DEFINE T == {1 .. x : x \in S}
  <1>1. T \subseteq FiniteSubsetsOf(Nat) /\ T # {}
    <2> SUFFICES ASSUME NEW x \in S PROVE 1 .. x \in FiniteSubsetsOf(Nat)
      OBVIOUS
    <2> QED BY FS_Interval DEF FiniteSubsetsOf
  <1>2. PICK e \in T : \A d \in T : <<d, e>> \notin StrictSubsetOrdering(Nat)
    BY <1>1, WFMin, FS_StrictSubsetOrderingWellFounded, Zenon
  <1>3. PICK x \in S : e = 1 .. x
    BY <1>2
  <1>4. ASSUME NEW y \in S, y < x PROVE FALSE
    <2>1. 1 .. y \subseteq 1 .. x /\ x \in 1 .. x /\ x \notin 1 .. y
      BY <1>4
    <2>2. <<1 .. y, e>> \in StrictSubsetOrdering(Nat)
      BY <2>1, <1>3, <1>1 DEF StrictSubsetOrdering
    <2> QED BY <2>2, <1>2
  <1> QED BY <1>4

-----------------------------------------------------------------------------
(* Powers of two *)

LEMMA Pow2Is == Pow2[0] = 1 /\ \A n \in Nat : Pow2[n + 1] = 2 * Pow2[n]
  <1> DEFINE Double(v, n) == 2 * v
  <1>1. NatInductiveDefHypothesis(Pow2, 1, Double)
    BY DEF NatInductiveDefHypothesis, Pow2
  <1>2. NatInductiveDefConclusion(Pow2, 1, Double)
    BY <1>1, NatInductiveDef
  <1>3. \A n \in Nat : Pow2[n] = IF n = 0 THEN 1 ELSE 2 * Pow2[n - 1]
    BY <1>2 DEF NatInductiveDefConclusion
  <1>4. ASSUME NEW n \in Nat PROVE Pow2[n + 1] = 2 * Pow2[n]
    <2>1. n + 1 \in Nat /\ n + 1 # 0 /\ (n + 1) - 1 = n
      OBVIOUS
    <2> QED BY <1>3, <2>1
  <1> QED BY <1>3, <1>4

\* A power of two is more than its exponent.
LEMMA Pow2Above == \A n \in Nat : Pow2[n] \in Nat /\ Pow2[n] > n
  <1> DEFINE S == {n \in Nat : ~(Pow2[n] \in Nat /\ Pow2[n] > n)}
  <1> SUFFICES ASSUME S # {} PROVE FALSE
    OBVIOUS
  <1>1. PICK x \in S : \A y \in S : x <= y
    BY LeastNumber
  <1>2. x # 0
    BY Pow2Is
  <1>3. x - 1 \in Nat /\ x - 1 \notin S /\ (x - 1) + 1 = x
    BY <1>1, <1>2
  <1>4. Pow2[x] = 2 * Pow2[x - 1]
    BY <1>3, Pow2Is
  <1> QED BY <1>3, <1>4

LEMMA Pow2Sum == \A m, n \in Nat : Pow2[m + n] = Pow2[m] * Pow2[n]
  <1> SUFFICES ASSUME NEW m \in Nat, NEW n \in Nat PROVE Pow2[m + n] = Pow2[m] * Pow2[n]
    OBVIOUS
  <1> DEFINE S == {l \in Nat : Pow2[m + l] # Pow2[m] * Pow2[l]}
  <1> SUFFICES ASSUME S # {} PROVE FALSE
    OBVIOUS
  <1>1. PICK x \in S : \A y \in S : x <= y
    BY LeastNumber
  <1>2. x # 0
    BY Pow2Is, Pow2Above
  <1>3. x - 1 \in Nat /\ x - 1 \notin S /\ (x - 1) + 1 = x /\ m + (x - 1) \in Nat /\ (m + (x - 1)) + 1 = m + x
    BY <1>1, <1>2
  <1>4. Pow2[x] = 2 * Pow2[x - 1] /\ Pow2[m + x] = 2 * Pow2[m + (x - 1)]
    BY <1>3, Pow2Is
  <1>5. Pow2[m + (x - 1)] = Pow2[m] * Pow2[x - 1]
    BY <1>3
  <1>6. Pow2[m] \in Nat /\ Pow2[x - 1] \in Nat
    BY <1>3, Pow2Above
  <1>7. 2 * (Pow2[m] * Pow2[x - 1]) = Pow2[m] * (2 * Pow2[x - 1])
    BY <1>6
  <1> QED BY <1>4, <1>5, <1>7

\* Powers of two are ordered as their exponents are.
LEMMA Pow2Order == \A m, n \in Nat : m < n => 2 * Pow2[m] <= Pow2[n]
  <1> SUFFICES ASSUME NEW m \in Nat, NEW n \in Nat, m < n PROVE 2 * Pow2[m] <= Pow2[n]
    OBVIOUS
  <1> DEFINE S == {l \in Nat : m < l /\ ~(2 * Pow2[m] <= Pow2[l])}
  <1> SUFFICES ASSUME S # {} PROVE FALSE
    OBVIOUS
  <1>1. PICK x \in S : \A y \in S : x <= y
    BY LeastNumber
  <1>2. x # m + 1
    BY Pow2Is, Pow2Above
  <1>3. x - 1 \in Nat /\ x - 1 \notin S /\ (x - 1) + 1 = x
    BY <1>1, <1>2
  <1>4. Pow2[x] = 2 * Pow2[x - 1]
    BY <1>3, Pow2Is
  <1>5. Pow2[m] \in Nat /\ Pow2[x - 1] \in Nat
    BY <1>3, Pow2Above
  <1> QED BY <1>2, <1>3, <1>4, <1>5

LEMMA Pow2Monotone == \A m, n \in Nat : m <= n <=> Pow2[m] <= Pow2[n]
  <1> SUFFICES ASSUME NEW m \in Nat, NEW n \in Nat PROVE m <= n <=> Pow2[m] <= Pow2[n]
    OBVIOUS
  <1>1. Pow2[m] \in Nat /\ Pow2[m] > 0 /\ Pow2[n] \in Nat /\ Pow2[n] > 0
    BY Pow2Above
  <1>2. (m < n => 2 * Pow2[m] <= Pow2[n]) /\ (n < m => 2 * Pow2[n] <= Pow2[m])
    BY Pow2Order
  <1> QED BY <1>1, <1>2

LEMMA Division ==
  ASSUME NEW n \in Nat, NEW p \in Nat \ {0}
  PROVE  /\ n \div p \in Nat
         /\ p * (n \div p) <= n
         /\ n < p * (n \div p) + p
  OBVIOUS

LEMMA Times ==
  ASSUME NEW p \in Nat, NEW q \in Nat, q >= 1
  PROVE  p * q >= p /\ p * q \in Nat
  <1> PICK r \in Nat : q = r + 1
    <2>1. q - 1 \in Nat /\ q = (q - 1) + 1
      OBVIOUS
    <2> QED BY <2>1
  <1>1. p * r \in Nat /\ p * q = p * r + p
    OBVIOUS
  <1> QED BY <1>1

\* The places a number is shifted by.
LEMMA ShiftedIs ==
  ASSUME NEW n \in Nat, NEW j \in Nat
  PROVE  /\ j * LOOKUP_BITS \in Nat /\ (j + 1) * LOOKUP_BITS = j * LOOKUP_BITS + LOOKUP_BITS
         /\ Pow2[j * LOOKUP_BITS] \in Nat \ {0}
         /\ Shifted(n, j) \in Nat
         /\ Pow2[j * LOOKUP_BITS] * Shifted(n, j) <= n
         /\ n < Pow2[j * LOOKUP_BITS] * Shifted(n, j) + Pow2[j * LOOKUP_BITS]
  <1>1. j * LOOKUP_BITS \in Nat /\ (j + 1) * LOOKUP_BITS = j * LOOKUP_BITS + LOOKUP_BITS
    BY LookupAssumption
  <1>2. Pow2[j * LOOKUP_BITS] \in Nat \ {0}
    BY <1>1, Pow2Above
  <1> QED BY <1>1, <1>2, Division DEF Shifted

\* The loop of mem_ceil_log2 ends after some turns, with a number that the lookup
\* table has.
LEMMA CeilLog2Is ==
  ASSUME NEW n \in Nat
  PROVE  \E j \in Nat, e \in 0 .. LOOKUP_BITS :
           /\ mem_ceil_log2(n) = j * LOOKUP_BITS + e
           /\ j = 0 \/ (j - 1 \in Nat /\ Shifted(n, j - 1) > Pow2[LOOKUP_BITS])
           /\ Shifted(n, j) <= Pow2[e]
           /\ \A d \in 0 .. (e - 1) : Shifted(n, j) > Pow2[d]
  <1> DEFINE S == {j \in 0 .. n : Shifted(n, j) <= Pow2[LOOKUP_BITS]}
             turns == CHOOSE j \in 0..n :
                 /\ Shifted(n, j) <= Pow2[LOOKUP_BITS]
                 /\ \A l \in 0..(j - 1) : Shifted(n, l) > Pow2[LOOKUP_BITS]
  <1> n * LOOKUP_BITS \in Nat
    BY ShiftedIs
  <1>0. /\ \A j \in Nat : Shifted(n, j) \in Nat
        /\ LOOKUP_BITS \in Nat /\ Pow2[LOOKUP_BITS] \in Nat
    BY ShiftedIs, Pow2Above, LookupAssumption
  <1>1. n \in S
    <2>1. n * LOOKUP_BITS >= n
      <3>1. LOOKUP_BITS \in Nat /\ LOOKUP_BITS >= 1
        BY LookupAssumption
      <3> QED BY <3>1, Times
    <2>2. Pow2[n * LOOKUP_BITS] > n
      BY <2>1, Pow2Above
    <2> DEFINE p == Pow2[n * LOOKUP_BITS]
               q == Shifted(n, n)
    <2>3. p \in Nat /\ q \in Nat /\ p > n /\ p * q <= n
      BY <2>2, ShiftedIs
    <2> HIDE DEF p, q
    <2>4. q = 0
      <3> SUFFICES ASSUME q >= 1 PROVE FALSE
        BY <2>3
      <3>1. p * q >= p
        BY <2>3, Times
      <3> QED BY <3>1, <2>3
    <2> QED BY <2>4, <1>0 DEF q
  <1>2. PICK x \in S : \A y \in S : x <= y
    <2>1. S \subseteq Nat
      OBVIOUS
    <2> QED BY <2>1, <1>1, LeastNumber
  <1>3. \A l \in 0 .. (x - 1) : Shifted(n, l) > Pow2[LOOKUP_BITS]
    <2> SUFFICES ASSUME NEW l \in 0 .. (x - 1) PROVE Shifted(n, l) > Pow2[LOOKUP_BITS]
      OBVIOUS
    <2>1. l \notin S /\ l \in 0 .. n
      BY <1>2
    <2> QED BY <2>1, <1>0
  <1>4. /\ turns \in 0 .. n /\ Shifted(n, turns) <= Pow2[LOOKUP_BITS]
        /\ \A l \in 0..(turns - 1) : Shifted(n, l) > Pow2[LOOKUP_BITS]
    BY <1>2, <1>3
  <1>5. mem_ceil_log2(n) = turns * LOOKUP_BITS + ceil_log2_lookup_table(Shifted(n, turns))
    BY DEF mem_ceil_log2
  <1> HIDE DEF turns
  <1> DEFINE s == Shifted(n, turns)
             R == {e \in 0 .. LOOKUP_BITS : s <= Pow2[e]}
             e0 == ceil_log2_lookup_table(s)
  <1>6. LOOKUP_BITS \in R
    BY <1>4, LookupAssumption
  <1>7. PICK x0 \in R : \A y \in R : x0 <= y
    <2>1. R \subseteq Nat
      BY <1>0
    <2> QED BY <2>1, <1>6, LeastNumber
  <1>8. s \in Nat
    BY <1>4, <1>0
  <1>9. \A d \in 0 .. (x0 - 1) : s > Pow2[d]
    <2> SUFFICES ASSUME NEW d \in 0 .. (x0 - 1) PROVE s > Pow2[d]
      OBVIOUS
    <2>1. d \notin R /\ d \in 0 .. LOOKUP_BITS
      BY <1>7, LookupAssumption
    <2> HIDE DEF s
    <2> QED BY <2>1, <1>8, Pow2Above
  <1>10. e0 \in 0 .. LOOKUP_BITS /\ s <= Pow2[e0] /\ \A d \in 0 .. (e0 - 1) : s > Pow2[d]
    <2> HIDE DEF s
    <2> QED BY <1>7, <1>9 DEF ceil_log2_lookup_table
  <1>11. turns = 0 \/ (turns - 1 \in Nat /\ Shifted(n, turns - 1) > Pow2[LOOKUP_BITS])
    BY <1>4
  <1>12. turns \in Nat
    BY <1>4
  <1> QED BY <1>5, <1>10, <1>11, <1>12

\* mem_ceil_log2 is between the logarithm rounded down and the one rounded up;
\* it is the one rounded up for the numbers that the lookup table has.
LEMMA CeilLog2Bounds ==
  ASSUME NEW n \in Nat
  PROVE  /\ mem_ceil_log2(n) \in Nat
         /\ \A bit \in Nat : Pow2[bit] <= n => bit <= mem_ceil_log2(n)
         /\ \A bit \in Nat : n <= Pow2[bit] => mem_ceil_log2(n) <= bit
         /\ n <= Pow2[LOOKUP_BITS] => n <= Pow2[mem_ceil_log2(n)]
  <1> DEFINE L == LOOKUP_BITS
  <1>1. PICK j \in Nat, e \in 0 .. L :
           /\ mem_ceil_log2(n) = j * L + e
           /\ j = 0 \/ (j - 1 \in Nat /\ Shifted(n, j - 1) > Pow2[L])
           /\ Shifted(n, j) <= Pow2[e]
           /\ \A d \in 0 .. (e - 1) : Shifted(n, j) > Pow2[d]
    BY CeilLog2Is
  <1> DEFINE p == Pow2[j * L]
             s == Shifted(n, j)
             m == j * L
  <1>2. /\ L \in Nat /\ L >= 1 /\ m \in Nat /\ e \in Nat /\ m + e \in Nat
        /\ p \in Nat /\ p > 0 /\ s \in Nat /\ p * s <= n /\ n < p * s + p
    <2>1. /\ j * LOOKUP_BITS \in Nat /\ (j + 1) * LOOKUP_BITS = j * LOOKUP_BITS + LOOKUP_BITS
          /\ Pow2[j * LOOKUP_BITS] \in Nat \ {0}
          /\ Shifted(n, j) \in Nat
          /\ Pow2[j * LOOKUP_BITS] * Shifted(n, j) <= n
          /\ n < Pow2[j * LOOKUP_BITS] * Shifted(n, j) + Pow2[j * LOOKUP_BITS]
      BY ShiftedIs
    <2> QED BY <2>1, LookupAssumption, <1>1
  <1>3. \A l \in Nat : Pow2[l] \in Nat /\ Pow2[l] > 0
    BY Pow2Above
  <1>4. ASSUME NEW bit \in Nat, Pow2[bit] <= n PROVE bit <= m + e
    <2> SUFFICES ASSUME bit > m PROVE bit - m <= e
      BY <1>2
    <2>1. bit - m \in Nat /\ bit = m + (bit - m)
      BY <1>2
    <2>2. Pow2[bit] = p * Pow2[bit - m]
      BY <2>1, <1>2, Pow2Sum
    <2> DEFINE r == Pow2[bit - m]
    <2>3. r \in Nat
      BY <2>1, <1>3
    <2>4. p * r < p * s + p
      BY <2>2, <1>4, <1>2, <2>3
    <2> HIDE DEF r, s, p
    <2>5. r <= s
      <3> SUFFICES ASSUME r >= s + 1 PROVE FALSE
        BY <2>3, <1>2
      <3>1. p * r >= p * (s + 1) /\ p * (s + 1) = p * s + p
        BY <2>3, <1>2
      <3> QED BY <3>1, <2>4, <1>2, <2>3
    <2>6. Pow2[bit - m] <= Pow2[e]
      BY <2>5, <1>1, <1>2, <1>3, <2>3 DEF r, s
    <2> QED BY <2>6, <2>1, <1>2, Pow2Monotone
  <1>5. ASSUME NEW bit \in Nat, n <= Pow2[bit] PROVE m + e <= bit
    <2>1. m <= bit
      <3>1. CASE j = 0
        BY <3>1, <1>2
      <3>2. CASE j # 0
        <4> DEFINE k == j - 1
                   q == Pow2[k * L]
                   u == Shifted(n, k)
        <4>1. k \in Nat /\ k + 1 = j /\ u > Pow2[L]
          BY <3>2, <1>1
        <4>2. k * L \in Nat /\ m = k * L + L /\ q \in Nat /\ q > 0 /\ u \in Nat /\ q * u <= n
          <5>1. /\ k * LOOKUP_BITS \in Nat /\ (k + 1) * LOOKUP_BITS = k * LOOKUP_BITS + LOOKUP_BITS
                /\ Pow2[k * LOOKUP_BITS] \in Nat \ {0}
                /\ Shifted(n, k) \in Nat
                /\ Pow2[k * LOOKUP_BITS] * Shifted(n, k) <= n
                /\ n < Pow2[k * LOOKUP_BITS] * Shifted(n, k) + Pow2[k * LOOKUP_BITS]
            BY <4>1, ShiftedIs
          <5> HIDE DEF k
          <5> QED BY <5>1, <4>1
        <4>3. Pow2[m] = q * Pow2[L]
          BY <4>2, <1>2, Pow2Sum
        <4> DEFINE v == Pow2[L]
        <4> HIDE DEF q, u, v
        <4>4. v \in Nat /\ u > v
          BY <4>1, <1>2, <1>3 DEF v
        <4>5. q * u >= q * v
          BY <4>4, <4>2
        <4>6. Pow2[m] <= n
          BY <4>5, <4>3, <4>2, <4>4 DEF v
        <4>7. Pow2[m] <= Pow2[bit]
          BY <4>6, <1>5, <1>2, <1>3
        <4> QED BY <4>7, <1>2, Pow2Monotone
      <3> QED BY <3>1, <3>2
    <2>2. bit - m \in Nat /\ bit = m + (bit - m)
      BY <2>1, <1>2
    <2>3. Pow2[bit] = p * Pow2[bit - m]
      BY <2>2, <1>2, Pow2Sum
    <2> DEFINE r == Pow2[bit - m]
    <2>4. r \in Nat /\ p * s <= p * r
      BY <2>3, <1>5, <1>2, <1>3, <2>2
    <2>5. s <= r
      <3> HIDE DEF r, s, p
      <3> SUFFICES ASSUME s >= r + 1 PROVE FALSE
        BY <2>4, <1>2
      <3>1. p * s >= p * (r + 1) /\ p * (r + 1) = p * r + p
        BY <2>4, <1>2
      <3> QED BY <3>1, <2>4, <1>2
    <2>6. ~(bit - m \in 0 .. (e - 1))
      <3> SUFFICES ASSUME bit - m \in 0 .. (e - 1) PROVE FALSE
        OBVIOUS
      <3>1. s > r
        BY <1>1
      <3> HIDE DEF r, s
      <3> QED BY <3>1, <2>5, <2>4, <1>2
    <2> QED BY <2>6, <2>2, <1>2
  <1>6. ASSUME n <= Pow2[L] PROVE n <= Pow2[m + e]
    <2>1. j = 0
      <3> SUFFICES ASSUME j # 0 PROVE FALSE
        OBVIOUS
      <3> DEFINE k == j - 1
                 q == Pow2[k * L]
                 u == Shifted(n, k)
      <3>1. k \in Nat /\ u > Pow2[L]
        BY <1>1
      <3>2. q \in Nat /\ q > 0 /\ u \in Nat /\ q * u <= n
        <4>1. /\ k * LOOKUP_BITS \in Nat /\ (k + 1) * LOOKUP_BITS = k * LOOKUP_BITS + LOOKUP_BITS
              /\ Pow2[k * LOOKUP_BITS] \in Nat \ {0}
              /\ Shifted(n, k) \in Nat
              /\ Pow2[k * LOOKUP_BITS] * Shifted(n, k) <= n
              /\ n < Pow2[k * LOOKUP_BITS] * Shifted(n, k) + Pow2[k * LOOKUP_BITS]
          BY <3>1, ShiftedIs
        <4> HIDE DEF k
        <4> QED BY <4>1, <3>1
      <3> HIDE DEF q, u
      <3>3. q * u >= u
        BY <3>2, Times
      <3>4. Pow2[L] \in Nat
        BY <1>2, <1>3
      <3> QED BY <3>3, <3>1, <3>2, <3>4, <1>6
    <2>2. m = 0
      BY <2>1, <1>2
    <2>3. p = 1 /\ m + e = e
      BY <2>2, <1>2, Pow2Is
    <2>4. s = n
      <3> HIDE DEF p, s
      <3> QED BY <2>3, <1>2
    <2> QED BY <2>3, <2>4, <1>1
  <1> QED BY <1>1, <1>2, <1>4, <1>5, <1>6

\* A power of two has its exponent for logarithm.
LEMMA CeilLog2Pow2 == \A bit \in Nat : mem_ceil_log2(Pow2[bit]) = bit
  <1> SUFFICES ASSUME NEW bit \in Nat PROVE mem_ceil_log2(Pow2[bit]) = bit
    OBVIOUS
  <1>1. Pow2[bit] \in Nat
    BY Pow2Above
  <1>2. mem_ceil_log2(Pow2[bit]) \in Nat /\ bit <= mem_ceil_log2(Pow2[bit]) /\ mem_ceil_log2(Pow2[bit]) <= bit
    BY <1>1, CeilLog2Bounds
  <1> QED BY <1>2

Slot == Value \cup {Nil}
Table == [array : Seq(Slot), entries : Seq(Entry), count : Nat]

Used(tab) == {i \in DOMAIN tab.entries : tab.entries[i] # Empty}

\* An entry without key is empty; every other is where a search for its key
\* ends, and the array part does not answer for it.
EntryInv(tab) ==
  \A i \in DOMAIN tab.entries :
    IF tab.entries[i].key = Nil THEN tab.entries[i] = Empty
    ELSE ~InArray(tab, tab.entries[i].key) /\ table_get_entry(tab, tab.entries[i].key) = i

Shape(tab) ==
  /\ tab \in Table /\ Len(tab.entries) > 0
  /\ Live(tab.array) \subseteq Index
  /\ tab.count = Cardinality(Used(tab))
  /\ EntryInv(tab)

\* The locals of a table_resize.
Frame == [old_array : Seq(Slot), old_entries : Seq(Entry), n_hash : Int,
          n_array : Nat, loop : {"array", "entries"}, i : Nat, call : Entry,
          nth : Nat]

\* A table_resize that cuts the array moves elements beyond a power of two, and
\* the array is that long already.
FrameInv(f) ==
  /\ f.call.key # Nil
  /\ \A i \in DOMAIN f.old_entries :
       f.old_entries[i].value # Nil => f.old_entries[i].key # Nil
  /\ f.loop = "array" =>
       /\ Live(f.old_array) \subseteq Index
       /\ f.n_array > ARRAY_MIN /\ \E bit \in Nat : f.n_array = Pow2[bit]
       /\ phase # "UNDEFINED" => Len(t.array) = f.n_array

TypeInv ==
  /\ Shape(t)
  /\ map \in [Key -> Slot]
  /\ call \in Entry /\ (call.key = Nil => call = Empty)
  /\ resizes \in Seq(Frame) /\ \A l \in DOMAIN resizes : FrameInv(resizes[l])
  /\ rehashes \in Nat
  /\ phase \in {"idle", "walk", "done", "error", "hung", "UNDEFINED"}
  /\ (phase \in {"hung", "UNDEFINED"} => call = Empty) /\ (phase = "hung" => resizes = <<>>)
  /\ cursor \in Key \cup {Nil}
  /\ seen \subseteq Key /\ stayed \subseteq Key
  /\ twice \in BOOLEAN /\ calm \in BOOLEAN

\* The calls of table_set are at levels: the program's at 1, one made by the
\* table_resize at a level at the next.
Level == Len(resizes) + 1
CallAt(l) == IF l = Level THEN call ELSE resizes[l].call

\* A pair that a table_resize moves is not in the table for a while: it waits
\* in the old array or in the old entries, or a call that is to insert it has it.
Carries(l, where, i) ==
  CASE where = "call" -> l \in 2..Level /\ i = 0 /\ CallAt(l) # Empty
    [] where = "array" -> /\ l \in DOMAIN resizes /\ resizes[l].loop = "array"
                          /\ i \in Vanishing(resizes[l])
    [] where = "entries" -> /\ l \in DOMAIN resizes
                            /\ i \in DOMAIN resizes[l].old_entries
                            /\ resizes[l].old_entries[i].value # Nil
                            /\ resizes[l].loop = "entries" => i > resizes[l].i
Carried == {x \in Nat \X {"call", "array", "entries"} \X Nat : Carries(x[1], x[2], x[3])}

Pair(x) ==
  CASE x[2] = "call" -> CallAt(x[1])
    [] x[2] = "array" -> [key |-> x[3], value |-> resizes[x[1]].old_array[x[3]]]
    [] x[2] = "entries" -> resizes[x[1]].old_entries[x[3]]

\* Each key is in one place: the table does not have what is on its way.
CarriedInv ==
  /\ \A x \in Carried : /\ Pair(x).key \in Key /\ Pair(x).value \in Value
                        /\ table_get(t, Pair(x).key) = Nil
  /\ \A x, y \in Carried : Pair(x).key = Pair(y).key => x = y

\* Where every value is that the program assigned, but for the one that it is
\* assigning.
KeptInv ==
  /\ CallAt(1) # Empty => CallAt(1).value = map[CallAt(1).key]
  /\ \A k \in Key : k # CallAt(1).key =>
       /\ \A x \in Carried : Pair(x).key = k => Pair(x).value = map[k]
       /\ (\A x \in Carried : Pair(x).key # k) => table_get(t, k) = map[k]

\* A key has an element or an entry, at this position of a traversal.
Placed(tab, k) ==
  \/ InArray(tab, k)
  \/ table_get_entry(tab, k) # 0 /\ tab.entries[table_get_entry(tab, k)].key = k
Position(tab, k) ==
  IF InArray(tab, k) THEN array_index(k) ELSE Len(tab.array) + table_get_entry(tab, k)

\* A traversal that no rehash disturbed has returned what is up to its cursor.
WalkInv == calm =>
  LET reached == IF cursor = Nil THEN 0 ELSE Position(t, cursor)
  IN  /\ resizes = <<>> /\ ~twice /\ phase \notin {"error", "hung"}
      /\ phase = "done" => stayed \subseteq seen
      /\ phase = "walk" =>
           /\ call.value = Nil => call.key \notin stayed
           /\ cursor # Nil => Placed(t, cursor)
           /\ \A k \in seen : Placed(t, k) /\ Position(t, k) <= reached
           /\ \A k \in stayed : /\ table_get(t, k) # Nil
                                /\ Position(t, k) <= reached => k \in seen

-----------------------------------------------------------------------------
(* Keys *)

\* The keys, and the array index each is.
LEMMA KeysAre ==
  /\ Nil \notin Key /\ Nil \notin Value
  /\ Index \subseteq Nat /\ \A k \in Index : k > 0 /\ k <= MAX_INDEX
  /\ Index \subseteq Key /\ \A k \in Key : hash[k] \in Nat
  /\ MAX_INDEX \in Nat /\ IsFiniteSet(Index)
  <1>1. /\ Nil \notin Key /\ Nil \notin Value
        /\ Index \subseteq 1 .. MAX_INDEX /\ MAX_INDEX \in Nat
        /\ hash \in [Key -> Nat]
    BY TableAssumption
  <1>2. IsFiniteSet(Index)
    <2>1. IsFiniteSet(1 .. MAX_INDEX)
      BY <1>1, FS_Interval
    <2> QED BY <2>1, <1>1, FS_Subset
  <1> QED BY <1>1, <1>2 DEF Key

LEMMA ArrayIndexIs == \A k : array_index(k) = IF k \in Index THEN k ELSE -1
  <1> SUFFICES ASSUME NEW k \in Index PROVE array_index(k) = k
    BY DEF array_index
  <1>1. INDEX_BITS - 1 \in Nat /\ (INDEX_BITS - 1) + 1 = INDEX_BITS
    BY TableAssumption
  <1>2. Pow2[INDEX_BITS] = 2 * Pow2[INDEX_BITS - 1] /\ Pow2[INDEX_BITS - 1] \in Nat
    BY <1>1, Pow2Is, Pow2Above
  <1>3. k \in Nat /\ k < Pow2[INDEX_BITS - 1]
    BY <1>2, KeysAre, TableAssumption
  <1>4. \A n \in Nat : k < n => k % n = k
    BY <1>3
  <1> QED BY <1>2, <1>3, <1>4 DEF array_index

LEMMA InArrayIs ==
  ASSUME NEW tab, Len(tab.array) \in Nat, NEW k
  PROVE  InArray(tab, k) <=> k \in Index /\ k <= Len(tab.array)
  <1>1. CASE k \in Index
    <2>1. array_index(k) = k /\ k \in Nat /\ k > 0
      BY <1>1, ArrayIndexIs, KeysAre
    <2> QED BY <2>1, <1>1 DEF InArray
  <1>2. CASE k \notin Index
    <2>1. array_index(k) = -1
      BY <1>2, ArrayIndexIs
    <2> QED BY <2>1, <1>2 DEF InArray
  <1> QED BY <1>1, <1>2

\* The elements of the array part of a table.
LEMMA ArrayIs ==
  ASSUME NEW tab, tab \in Table
  PROVE  /\ Len(tab.array) \in Nat /\ DOMAIN tab.array = 1 .. Len(tab.array)
         /\ \A i \in 1 .. Len(tab.array) : tab.array[i] \in Slot
         /\ Len(tab.entries) \in Nat /\ DOMAIN tab.entries = 1 .. Len(tab.entries)
         /\ \A i \in 1 .. Len(tab.entries) :
              tab.entries[i] \in Entry /\ tab.entries[i].key \in Key \cup {Nil}
                                       /\ tab.entries[i].value \in Slot
  <1>1. tab.array \in Seq(Slot) /\ tab.entries \in Seq(Entry)
    BY DEF Table
  <1>2. \A e \in Entry : e.key \in Key \cup {Nil} /\ e.value \in Slot
    BY DEF Entry, Slot
  <1> QED BY <1>1, <1>2

-----------------------------------------------------------------------------
(* Searching *)

LEMMA ProbesIn ==
  ASSUME NEW n \in Nat \ {0}, NEW start \in Nat, NEW j \in 1 .. n
  PROVE  Probes(n, start)[j] \in 1 .. n
  <1>1. (start + j - 1) % n \in 0 .. (n - 1)
    OBVIOUS
  <1>2. Probes(n, start)[j] = ((start + j - 1) % n) + 1
    BY DEF Probes
  <1> QED BY <1>1, <1>2

\* A search ends in the first turn that can end it.
LEMMA LeastIs ==
  ASSUME NEW S, S \subseteq Nat, S # {}
  PROVE  Least(S) \in S /\ \A j \in S : Least(S) <= j
  <1>1. \E x \in S : \A y \in S : x <= y
    BY LeastNumber
  <1> QED BY <1>1 DEF Least

LEMMA FindIs ==
  ASSUME NEW entries, entries \in Seq(Entry), Len(entries) > 0, NEW k, NEW start \in Nat
  PROVE  \/ Ends(entries, k, start) = {} /\ find_entry(entries, k, start) = 0
         \/ \E j \in 1 .. Len(entries) :
              /\ j \in Ends(entries, k, start)
              /\ \A l \in Ends(entries, k, start) : j <= l
              /\ find_entry(entries, k, start) = Probes(Len(entries), start)[j]
              /\ find_entry(entries, k, start) \in 1 .. Len(entries)
              /\ entries[find_entry(entries, k, start)].key \in {k, Nil}
  <1> DEFINE E == Ends(entries, k, start)
  <1>1. CASE E = {}
    BY <1>1 DEF find_entry
  <1>2. CASE E # {}
    <2>1. E \subseteq 1 .. Len(entries) /\ E \subseteq Nat
      BY DEF Ends
    <2>2. Least(E) \in E /\ \A l \in E : Least(E) <= l
      BY <2>1, <1>2, LeastIs
    <2>3. Probes(Len(entries), start)[Least(E)] \in 1 .. Len(entries)
      BY <2>1, <2>2, ProbesIn
    <2>4. find_entry(entries, k, start) = Probes(Len(entries), start)[Least(E)]
      BY <1>2 DEF find_entry
    <2>5. entries[Probes(Len(entries), start)[Least(E)]].key \in {k, Nil}
      BY <2>2 DEF Ends
    <2> QED BY <2>1, <2>2, <2>3, <2>4, <2>5
  <1> QED BY <1>1, <1>2

\* What a search finds in a table.
LEMMA FoundIs ==
  ASSUME NEW tab, tab \in Table, Len(tab.entries) > 0, NEW k \in Key, table_get_entry(tab, k) # 0
  PROVE  /\ Hashed(tab) /\ table_get_entry(tab, k) \in 1 .. Len(tab.entries)
         /\ tab.entries[table_get_entry(tab, k)].key \in {k, Nil}
         /\ hash[k] % Len(tab.entries) \in Nat
         /\ table_get_entry(tab, k) = find_entry(tab.entries, k, hash[k] % Len(tab.entries))
  <1>1. Len(tab.entries) \in Nat \ {0} /\ hash[k] \in Nat /\ tab.entries \in Seq(Entry)
    BY ArrayIs, KeysAre DEF Table
  <1>2. hash[k] % Len(tab.entries) \in Nat
    BY <1>1
  <1>3. Hashed(tab) /\ table_get_entry(tab, k) = find_entry(tab.entries, k, hash[k] % Len(tab.entries))
    BY DEF table_get_entry
  <1> QED BY <1>1, <1>2, <1>3, FindIs

\* The hash part has the value of the entry with the key, if there is one.
LEMMA HashGet ==
  ASSUME NEW tab, tab \in Table, Len(tab.entries) > 0, EntryInv(tab), NEW k \in Key
  PROVE  /\ \A i \in 1 .. Len(tab.entries) : tab.entries[i].key = k =>
              /\ table_get_entry(tab, k) = i
              /\ table_hash_get(tab, k) = tab.entries[i].value
         /\ (\A i \in 1 .. Len(tab.entries) : tab.entries[i].key # k) => table_hash_get(tab, k) = Nil
  <1>1. ASSUME NEW i \in 1 .. Len(tab.entries), tab.entries[i].key = k
        PROVE  table_get_entry(tab, k) = i /\ table_hash_get(tab, k) = tab.entries[i].value
    <2>1. table_get_entry(tab, k) = i
      BY <1>1, ArrayIs, KeysAre DEF EntryInv
    <2> QED BY <2>1 DEF table_hash_get
  <1>2. ASSUME \A i \in 1 .. Len(tab.entries) : tab.entries[i].key # k
        PROVE  table_hash_get(tab, k) = Nil
    <2>1. CASE table_get_entry(tab, k) = 0
      BY <2>1 DEF table_hash_get
    <2>2. CASE table_get_entry(tab, k) # 0
      <3> DEFINE at == table_get_entry(tab, k)
      <3>1. at \in 1 .. Len(tab.entries) /\ tab.entries[at].key \in {k, Nil}
        BY <2>2, FoundIs
      <3>2. tab.entries[at] = Empty
        BY <3>1, <1>2, ArrayIs DEF EntryInv
      <3> QED BY <3>2, <2>2 DEF table_hash_get, Empty
    <2> QED BY <2>1, <2>2
  <1> QED BY <1>1, <1>2

\* Putting a key where a search for it may end does not end another search.
LEMMA FindStays ==
  ASSUME NEW entries, entries \in Seq(Entry), Len(entries) > 0, NEW at \in 1 .. Len(entries),
         NEW e \in Entry, e.key # Nil, entries[at].key \in {e.key, Nil},
         NEW k \in Key, NEW start \in Nat, find_entry(entries, k, start) # 0,
         [entries EXCEPT ![at] = e][find_entry(entries, k, start)].key = k
  PROVE  find_entry([entries EXCEPT ![at] = e], k, start) = find_entry(entries, k, start)
  <1> DEFINE new == [entries EXCEPT ![at] = e]
             n == Len(entries)
             place == find_entry(entries, k, start)
  <1>1. new \in Seq(Entry) /\ Len(new) = n /\ n \in Nat \ {0} /\ DOMAIN entries = 1 .. n
    OBVIOUS
  <1>2. /\ new[at] = e
        /\ \A i \in 1 .. n : i # at => new[i] = entries[i]
    BY <1>1
  <1>3. PICK j \in 1 .. n :
          /\ j \in Ends(entries, k, start)
          /\ \A l \in Ends(entries, k, start) : j <= l
          /\ place = Probes(n, start)[j]
    BY FindIs
  <1> HIDE DEF place, new, n
  <1>4. j \in Ends(new, k, start)
    BY <1>3, <1>1 DEF Ends, place, new, n
  <1>5. ASSUME NEW l \in Ends(new, k, start) PROVE j <= l
    <2>1. l \in 1 .. n /\ new[Probes(n, start)[l]].key \in {k, Nil}
      BY <1>1 DEF Ends
    <2>2. Probes(n, start)[l] \in 1 .. n
      BY <2>1, <1>1, ProbesIn
    <2>3. entries[Probes(n, start)[l]].key \in {k, Nil}
      BY <2>1, <2>2, <1>2
    <2>4. l \in Ends(entries, k, start)
      BY <2>1, <2>3 DEF Ends, n
    <2> QED BY <2>4, <1>3
  <1>6. Ends(new, k, start) \subseteq Nat
    BY <1>1 DEF Ends
  <1>7. Least(Ends(new, k, start)) = j
    <2>1. Least(Ends(new, k, start)) \in Ends(new, k, start) /\ Least(Ends(new, k, start)) <= j
      BY <1>4, <1>6, LeastIs
    <2> QED BY <2>1, <1>4, <1>5, <1>6
  <1>8. find_entry(new, k, start) = Probes(n, start)[j]
    BY <1>4, <1>7, <1>1 DEF find_entry
  <1> QED BY <1>8, <1>3 DEF new, place

\* A key that has room has an element of the array or a place in the hash part.
LEMMA RoomIs ==
  ASSUME NEW tab, Shape(tab), NEW k \in Key, HasRoom(tab, k)
  PROVE  \/ InArray(tab, k) /\ array_index(k) = k /\ k \in 1 .. Len(tab.array) /\ k \in Index
         \/ /\ ~InArray(tab, k)
            /\ table_get_entry(tab, k) \in 1 .. Len(tab.entries)
            /\ tab.entries[table_get_entry(tab, k)].key \in {k, Nil}
            /\ tab.entries[table_get_entry(tab, k)] = Empty <=> tab.entries[table_get_entry(tab, k)].key = Nil
  <1>1. tab \in Table /\ Len(tab.entries) > 0 /\ EntryInv(tab)
    BY DEF Shape
  <1>2. CASE InArray(tab, k)
    <2>1. k \in Index /\ k <= Len(tab.array)
      BY <1>1, <1>2, InArrayIs, ArrayIs
    <2> QED BY <2>1, <1>2, ArrayIndexIs, KeysAre, ArrayIs, <1>1
  <1>3. CASE ~InArray(tab, k)
    <2> DEFINE at == table_get_entry(tab, k)
    <2>1. at # 0
      BY <1>3 DEF HasRoom
    <2>2. at \in 1 .. Len(tab.entries) /\ tab.entries[at].key \in {k, Nil}
      BY <2>1, <1>1, FoundIs
    <2>3. tab.entries[at] = Empty <=> tab.entries[at].key = Nil
      BY <2>2, <1>1, ArrayIs DEF EntryInv, Empty
    <2> QED BY <2>2, <2>3, <1>3
  <1> QED BY <1>2, <1>3

\* Storing in an element of the array.
LEMMA PutElement ==
  ASSUME NEW tab, Shape(tab), NEW e \in Entry, e.key # Nil, InArray(tab, e.key)
  PROVE  /\ Put(tab, e) = [tab EXCEPT !.array = [tab.array EXCEPT ![e.key] = e.value]]
         /\ e.key \in Index /\ e.key \in 1 .. Len(tab.array)
         /\ Put(tab, e) \in Table /\ Put(tab, e).entries = tab.entries
         /\ Put(tab, e).count = tab.count
         /\ Len(Put(tab, e).array) = Len(tab.array)
         /\ \A i \in 1 .. Len(tab.array) :
              Put(tab, e).array[i] = IF i = e.key THEN e.value ELSE tab.array[i]
         /\ Shape(Put(tab, e))
  <1> DEFINE k == e.key
             new == Put(tab, e)
  <1>1. tab \in Table /\ Len(tab.entries) > 0 /\ EntryInv(tab) /\ e.value \in Slot /\ k \in Key
    BY DEF Shape, Entry, Slot
  <1>2. k \in Index /\ k <= Len(tab.array) /\ array_index(k) = k
    BY <1>1, InArrayIs, ArrayIs, ArrayIndexIs
  <1>3. k \in 1 .. Len(tab.array)
    <2>1. k \in Nat /\ k > 0
      BY <1>2, KeysAre
    <2>2. Len(tab.array) \in Nat
      BY <1>1, ArrayIs
    <2> QED BY <2>1, <2>2, <1>2
  <1>4. new = [tab EXCEPT !.array = [tab.array EXCEPT ![k] = e.value]]
    BY <1>2, InArray(tab, k) DEF Put
  <1>5. tab.array \in Seq(Slot) /\ tab.entries \in Seq(Entry) /\ tab.count \in Nat
    BY <1>1 DEF Table
  <1> HIDE DEF k
  <1>6. [tab.array EXCEPT ![k] = e.value] \in Seq(Slot) /\ Len([tab.array EXCEPT ![k] = e.value]) = Len(tab.array)
    BY <1>1, <1>3, <1>5
  <1>7. new \in Table /\ new.entries = tab.entries /\ new.count = tab.count
        /\ new.array = [tab.array EXCEPT ![k] = e.value]
    BY <1>1, <1>4, <1>6 DEF Table
  <1>8. \A i \in 1 .. Len(tab.array) : new.array[i] = IF i = k THEN e.value ELSE tab.array[i]
    BY <1>7, <1>5, <1>3
  <1> HIDE DEF new
  <1>9. Live(new.array) \subseteq Index
    <2>1. Live(tab.array) \subseteq Index
      BY DEF Shape
    <2>2. DOMAIN new.array = 1 .. Len(tab.array) /\ DOMAIN tab.array = 1 .. Len(tab.array)
      BY <1>5, <1>6, <1>7
    <2> QED BY <2>1, <2>2, <1>8, <1>2 DEF Live
  <1>10. \A x : InArray(new, x) <=> InArray(tab, x)
    BY <1>6, <1>7 DEF InArray
  <1>11. \A x : table_get_entry(new, x) = table_get_entry(tab, x)
    BY <1>7 DEF table_get_entry, Hashed
  <1>12. EntryInv(new)
    BY <1>1, <1>7, <1>10, <1>11 DEF EntryInv
  <1>13. Used(new) = Used(tab)
    BY <1>7 DEF Used
  <1>14. Shape(new)
    BY <1>7, <1>9, <1>12, <1>13, <1>1 DEF Shape
  <1> QED BY <1>2, <1>3, <1>4, <1>6, <1>7, <1>8, <1>14 DEF k, new

\* Storing in an entry of the hash part.
LEMMA PutEntry ==
  ASSUME NEW tab, Shape(tab), NEW e \in Entry, e.key # Nil, ~InArray(tab, e.key), HasRoom(tab, e.key),
         NEW at, at = table_get_entry(tab, e.key)
  PROVE  /\ at \in 1 .. Len(tab.entries) /\ tab.entries[at].key \in {e.key, Nil}
         /\ Put(tab, e) \in Table /\ Put(tab, e).array = tab.array
         /\ Put(tab, e).entries = [tab.entries EXCEPT ![at] = e]
         /\ Len(Put(tab, e).entries) = Len(tab.entries)
         /\ Put(tab, e).entries[at] = e
         /\ \A i \in 1 .. Len(tab.entries) : i # at => Put(tab, e).entries[i] = tab.entries[i]
         /\ Put(tab, e).count = tab.count + (IF tab.entries[at].key = Nil THEN 1 ELSE 0)
         /\ \A k \in Key :
              /\ table_get_entry(tab, k) # 0
              /\ Put(tab, e).entries[table_get_entry(tab, k)].key = k
              => table_get_entry(Put(tab, e), k) = table_get_entry(tab, k)
         /\ Shape(Put(tab, e))
  <1> DEFINE k == e.key
             new == Put(tab, e)
             n == Len(tab.entries)
  <1>1. /\ tab \in Table /\ n > 0 /\ EntryInv(tab) /\ k \in Key
        /\ tab.array \in Seq(Slot) /\ tab.entries \in Seq(Entry) /\ tab.count \in Nat
    BY DEF Shape, Entry, Table
  <1>2. /\ at \in 1 .. n /\ tab.entries[at].key \in {k, Nil} /\ at # 0
        /\ tab.entries[at] = Empty <=> tab.entries[at].key = Nil
    BY <1>1, RoomIs
  <1>3. Hashed(tab)
    BY <1>1, <1>2, FoundIs
  <1>4. new = [tab EXCEPT !.entries[at] = e, !.count = IF tab.entries[at] = Empty THEN @ + 1 ELSE @]
    BY <1>1, ~InArray(tab, e.key), at = table_get_entry(tab, e.key) DEF Put
  <1> HIDE DEF k, n
  <1>5. [tab.entries EXCEPT ![at] = e] \in Seq(Entry) /\ Len([tab.entries EXCEPT ![at] = e]) = n
    BY <1>1, <1>2 DEF n
  <1>6. /\ new.entries = [tab.entries EXCEPT ![at] = e] /\ new.array = tab.array
        /\ new.count = tab.count + (IF tab.entries[at].key = Nil THEN 1 ELSE 0)
    BY <1>4, <1>1, <1>2 DEF Table
  <1>7. new \in Table
    <2>1. tab.count + (IF tab.entries[at].key = Nil THEN 1 ELSE 0) \in Nat
      BY <1>1
    <2>2. new = [array |-> new.array, entries |-> new.entries, count |-> new.count]
      BY <1>4, <1>1 DEF Table
    <2> HIDE DEF new
    <2> QED BY <2>1, <2>2, <1>1, <1>5, <1>6 DEF Table
  <1> HIDE DEF new
  <1>8. new.entries[at] = e /\ \A i \in 1 .. n : i # at => new.entries[i] = tab.entries[i]
    BY <1>6, <1>1, <1>2 DEF n
  <1>9. Len(new.entries) = n /\ DOMAIN new.entries = 1 .. n /\ DOMAIN tab.entries = 1 .. n /\ n \in Nat \ {0}
    BY <1>6, <1>5, <1>1 DEF n
  <1>10. Hashed(new)
    <2>1. e # Empty
      BY <1>1 DEF Empty, k
    <2>2. CASE n = 1
      <3>1. new.entries[1] # EMPTY_ENTRIES[1]
        BY <2>1, <2>2, <1>8, <1>2 DEF EMPTY_ENTRIES
      <3> QED BY <3>1 DEF Hashed
    <2>3. CASE n # 1
      <3>1. Len(new.entries) # Len(EMPTY_ENTRIES)
        BY <2>3, <1>9 DEF EMPTY_ENTRIES
      <3> QED BY <3>1 DEF Hashed
    <2> QED BY <2>2, <2>3
  <1>11. ASSUME NEW l \in Key, table_get_entry(tab, l) # 0, new.entries[table_get_entry(tab, l)].key = l
         PROVE  table_get_entry(new, l) = table_get_entry(tab, l)
    <2>1. hash[l] % n \in Nat
          /\ table_get_entry(tab, l) = find_entry(tab.entries, l, hash[l] % n)
      BY <1>11, <1>1, FoundIs DEF n
    <2>2. table_get_entry(new, l) = find_entry(new.entries, l, hash[l] % n)
      BY <1>10, <1>9 DEF table_get_entry
    <2>3. find_entry([tab.entries EXCEPT ![at] = e], l, hash[l] % n) = find_entry(tab.entries, l, hash[l] % n)
      BY <2>1, <1>1, <1>2, <1>6, <1>11, FindStays DEF k, n
    <2> QED BY <2>1, <2>2, <2>3, <1>6
  <1>12. \A x : InArray(new, x) <=> InArray(tab, x)
    BY <1>6 DEF InArray
  <1>13. EntryInv(new)
    <2> SUFFICES ASSUME NEW i \in 1 .. n
        PROVE IF new.entries[i].key = Nil THEN new.entries[i] = Empty
              ELSE ~InArray(new, new.entries[i].key) /\ table_get_entry(new, new.entries[i].key) = i
      BY <1>9 DEF EntryInv
    <2>1. CASE i = at
      <3>1. new.entries[i].key = k
        BY <2>1, <1>8 DEF k
      <3>2. table_get_entry(new, k) = at
        BY <3>1, <2>1, <1>11, <1>1, <1>2 DEF k
      <3> QED BY <3>1, <3>2, <2>1, <1>12 DEF k
    <2>2. CASE i # at
      <3>1. new.entries[i] = tab.entries[i]
        BY <2>2, <1>8
      <3>2. CASE tab.entries[i].key = Nil
        BY <3>1, <3>2, <1>1, <1>9 DEF EntryInv
      <3>3. CASE tab.entries[i].key # Nil
        <4>1. ~InArray(tab, tab.entries[i].key) /\ table_get_entry(tab, tab.entries[i].key) = i
          BY <3>3, <1>1, <1>9 DEF EntryInv
        <4>2. tab.entries[i].key \in Key
          BY <3>3, <1>1, <1>9, ArrayIs
        <4>3. table_get_entry(new, tab.entries[i].key) = i
          BY <4>1, <4>2, <3>1, <1>11, <1>9
        <4> QED BY <4>1, <4>3, <3>1, <3>3, <1>12
      <3> QED BY <3>2, <3>3
    <2> QED BY <2>1, <2>2
  <1>14. new.count = Cardinality(Used(new))
    <2>1. Used(tab) \subseteq 1 .. n /\ IsFiniteSet(Used(tab)) /\ tab.count = Cardinality(Used(tab))
      <3>1. Used(tab) \subseteq 1 .. n
        BY <1>9 DEF Used
      <3>2. IsFiniteSet(1 .. n)
        BY <1>9, FS_Interval
      <3> QED BY <3>1, <3>2, FS_Subset DEF Shape
    <2>2. Used(new) = Used(tab) \cup {at}
      <3>1. e # Empty
        BY <1>1 DEF Empty, k
      <3> QED BY <3>1, <1>8, <1>9, <1>2 DEF Used
    <2>3. at \in Used(tab) <=> tab.entries[at].key # Nil
      BY <1>2, <1>9 DEF Used
    <2>4. Cardinality(Used(tab) \cup {at}) = IF at \in Used(tab) THEN Cardinality(Used(tab)) ELSE Cardinality(Used(tab)) + 1
      BY <2>1, FS_AddElement
    <2> QED BY <2>1, <2>2, <2>3, <2>4, <1>6, <1>1
  <1>15. Shape(new)
    BY <1>6, <1>7, <1>9, <1>13, <1>14 DEF Shape
  <1> QED BY <1>2, <1>6, <1>7, <1>8, <1>9, <1>11, <1>15 DEF k, n, new

\* What reading a key gives.
LEMMA GetIs ==
  ASSUME NEW tab, Shape(tab), NEW k \in Key
  PROVE  /\ InArray(tab, k) => /\ k \in Index /\ k \in 1 .. Len(tab.array) /\ array_index(k) = k
                               /\ table_get(tab, k) = tab.array[k]
         /\ \A i \in 1 .. Len(tab.entries) : tab.entries[i].key = k =>
              /\ ~InArray(tab, k) /\ table_get_entry(tab, k) = i
              /\ table_get(tab, k) = tab.entries[i].value
         /\ ~InArray(tab, k) /\ (\A i \in 1 .. Len(tab.entries) : tab.entries[i].key # k) =>
              table_get(tab, k) = Nil
         /\ table_get(tab, k) \in Slot
         /\ table_get(tab, k) # Nil => Placed(tab, k)
  <1>1. tab \in Table /\ Len(tab.entries) > 0 /\ EntryInv(tab)
    BY DEF Shape
  <1>2. InArray(tab, k) => /\ k \in Index /\ k \in 1 .. Len(tab.array) /\ array_index(k) = k
                           /\ table_get(tab, k) = tab.array[k]
    BY ArrayIndexIs, KeysAre DEF InArray, table_get
  <1>3. ASSUME NEW i \in 1 .. Len(tab.entries), tab.entries[i].key = k
        PROVE /\ ~InArray(tab, k) /\ table_get_entry(tab, k) = i
              /\ table_get(tab, k) = tab.entries[i].value
    <2>1. ~InArray(tab, k) /\ table_get_entry(tab, k) = i
      BY <1>1, <1>3, ArrayIs, KeysAre DEF EntryInv
    <2> QED BY <2>1, <1>1, <1>3, HashGet DEF table_get
  <1>4. ASSUME ~InArray(tab, k), \A i \in 1 .. Len(tab.entries) : tab.entries[i].key # k
        PROVE  table_get(tab, k) = Nil
    BY <1>1, <1>4, HashGet DEF table_get
  <1>5. table_get(tab, k) \in Slot
    <2>1. CASE InArray(tab, k)
      BY <2>1, <1>2, <1>1, ArrayIs
    <2>2. CASE \E i \in 1 .. Len(tab.entries) : tab.entries[i].key = k
      BY <2>2, <1>3, <1>1, ArrayIs
    <2> QED BY <2>1, <2>2, <1>4 DEF Slot
  <1>6. ASSUME table_get(tab, k) # Nil PROVE Placed(tab, k)
    <2>1. CASE InArray(tab, k)
      BY <2>1 DEF Placed
    <2>2. CASE \E i \in 1 .. Len(tab.entries) : tab.entries[i].key = k
      BY <2>2, <1>3, <1>1, ArrayIs DEF Placed
    <2> QED BY <2>1, <2>2, <1>4, <1>6
  <1> QED BY <1>2, <1>3, <1>4, <1>5, <1>6

\* Storing changes what is read under its key and nothing else.
LEMMA PutReads ==
  ASSUME NEW tab, Shape(tab), NEW e \in Entry, e.key # Nil, HasRoom(tab, e.key), NEW k \in Key
  PROVE  /\ Shape(Put(tab, e))
         /\ Len(Put(tab, e).array) = Len(tab.array) /\ Len(Put(tab, e).entries) = Len(tab.entries)
         /\ InArray(Put(tab, e), k) <=> InArray(tab, k)
         /\ table_get(Put(tab, e), k) = IF k = e.key THEN e.value ELSE table_get(tab, k)
         /\ Placed(tab, k) => Placed(Put(tab, e), k) /\ Position(Put(tab, e), k) = Position(tab, k)
  <1> DEFINE new == Put(tab, e)
  <1>0. tab \in Table /\ e.key \in Key
    BY DEF Shape, Entry
  <1>1. CASE InArray(tab, e.key)
    <2>1. /\ new.entries = tab.entries /\ Len(new.array) = Len(tab.array) /\ Shape(new)
          /\ \A i \in 1 .. Len(tab.array) : new.array[i] = IF i = e.key THEN e.value ELSE tab.array[i]
          /\ e.key \in 1 .. Len(tab.array)
      BY <1>1, PutElement
    <2> HIDE DEF new
    <2>2. InArray(new, k) <=> InArray(tab, k)
      BY <2>1 DEF InArray
    <2>3. table_get_entry(new, k) = table_get_entry(tab, k) /\ table_hash_get(new, k) = table_hash_get(tab, k)
      BY <2>1 DEF table_get_entry, table_hash_get, Hashed
    <2>4. table_get(new, k) = IF k = e.key THEN e.value ELSE table_get(tab, k)
      <3>1. CASE InArray(tab, k)
        <4>1. k \in 1 .. Len(tab.array) /\ table_get(tab, k) = tab.array[k] /\ table_get(new, k) = new.array[k]
          BY <3>1, <2>1, <2>2, GetIs
        <4> QED BY <4>1, <2>1
      <3>2. CASE ~InArray(tab, k)
        <4>1. k # e.key
          BY <3>2, <1>1
        <4> QED BY <4>1, <3>2, <2>2, <2>3 DEF table_get
      <3> QED BY <3>1, <3>2
    <2>5. Placed(tab, k) => Placed(new, k) /\ Position(new, k) = Position(tab, k)
      BY <2>1, <2>2, <2>3 DEF Placed, Position
    <2> QED BY <2>1, <2>2, <2>4, <2>5 DEF new
  <1>2. CASE ~InArray(tab, e.key)
    <2> DEFINE n == Len(tab.entries)
    <2> PICK at : at = table_get_entry(tab, e.key)
      OBVIOUS
    <2>0. /\ at \in 1 .. Len(tab.entries) /\ tab.entries[at].key \in {e.key, Nil}
          /\ Put(tab, e) \in Table /\ Put(tab, e).array = tab.array
          /\ Put(tab, e).entries = [tab.entries EXCEPT ![at] = e]
          /\ Len(Put(tab, e).entries) = Len(tab.entries)
          /\ Put(tab, e).entries[at] = e
          /\ \A i \in 1 .. Len(tab.entries) : i # at => Put(tab, e).entries[i] = tab.entries[i]
          /\ Put(tab, e).count = tab.count + (IF tab.entries[at].key = Nil THEN 1 ELSE 0)
          /\ \A l \in Key :
               /\ table_get_entry(tab, l) # 0
               /\ Put(tab, e).entries[table_get_entry(tab, l)].key = l
               => table_get_entry(Put(tab, e), l) = table_get_entry(tab, l)
          /\ Shape(Put(tab, e))
      BY <1>2, PutEntry
    <2>1. /\ at \in 1 .. n /\ tab.entries[at].key \in {e.key, Nil}
          /\ new.array = tab.array /\ Len(new.entries) = n
          /\ new.entries[at] = e
          /\ \A i \in 1 .. n : i # at => new.entries[i] = tab.entries[i]
          /\ Shape(new)
      BY <2>0
    <2>2. table_get_entry(tab, k) # 0 /\ new.entries[table_get_entry(tab, k)].key = k =>
             table_get_entry(new, k) = table_get_entry(tab, k)
      BY <2>0
    <2> HIDE DEF new, n
    <2>3. \A x : InArray(new, x) <=> InArray(tab, x)
      BY <2>1 DEF InArray
    <2>4. CASE k = e.key
      <3>1. table_get(new, k) = e.value
        BY <2>1, <2>4, GetIs
      <3>2. table_get_entry(tab, k) = at /\ at # 0
        BY <2>1, <2>4
      <3>3. table_get_entry(new, k) = at
        BY <3>2, <2>1, <2>2, <2>4
      <3>4. Placed(new, k) /\ Position(new, k) = Position(tab, k)
        BY <3>2, <3>3, <2>1, <2>3, <2>4 DEF Placed, Position
      <3> QED BY <3>1, <3>4, <2>1, <2>3, <2>4 DEF new, n
    <2>5. CASE k # e.key
      <3>1. CASE InArray(tab, k)
        <4>1. table_get(tab, k) = tab.array[k] /\ table_get(new, k) = new.array[k]
          BY <3>1, <2>1, <2>3, GetIs
        <4>2. Placed(new, k) /\ Position(new, k) = Position(tab, k)
          BY <3>1, <2>3 DEF Placed, Position
        <4> QED BY <4>1, <4>2, <2>1, <2>3, <2>5 DEF new, n
      <3>2. CASE \E i \in 1 .. n : tab.entries[i].key = k
        <4> PICK i \in 1 .. n : tab.entries[i].key = k
          BY <3>2
        <4>1. k # Nil
          BY KeysAre
        <4>2. i # at /\ new.entries[i].key = k /\ new.entries[i].value = tab.entries[i].value
          BY <4>1, <2>1, <2>5
        <4>3. table_get(tab, k) = tab.entries[i].value /\ table_get_entry(tab, k) = i
          BY GetIs DEF n
        <4>4. table_get(new, k) = new.entries[i].value /\ table_get_entry(new, k) = i
          BY <4>2, <2>1, GetIs
        <4>5. Placed(tab, k) => Placed(new, k) /\ Position(new, k) = Position(tab, k)
          BY <4>2, <4>3, <4>4, <2>1, <2>3 DEF Placed, Position
        <4> QED BY <4>2, <4>3, <4>4, <4>5, <2>1, <2>3, <2>5 DEF new, n
      <3>3. CASE ~InArray(tab, k) /\ \A i \in 1 .. n : tab.entries[i].key # k
        <4>1. \A i \in 1 .. n : new.entries[i].key # k
          BY <3>3, <2>1, <2>5
        <4>2. table_get(tab, k) = Nil
          BY <3>3, GetIs DEF n
        <4>3. table_get(new, k) = Nil
          BY <3>3, <4>1, <2>1, <2>3, GetIs
        <4>4. ~Placed(tab, k)
          <5>1. table_get_entry(tab, k) # 0 => table_get_entry(tab, k) \in 1 .. n
            BY <1>0, FoundIs DEF n, Shape
          <5> QED BY <5>1, <3>3 DEF Placed
        <4> QED BY <4>2, <4>3, <4>4, <2>1, <2>3, <2>5 DEF new, n
      <3> QED BY <3>1, <3>2, <3>3
    <2> QED BY <2>4, <2>5
  <1> QED BY <1>1, <1>2

-----------------------------------------------------------------------------
(* Resizing *)

LEMMA NextSizeType ==
  ASSUME NEW n \in Int, NEW min \in Nat
  PROVE  table_next_size(n, min) \in Nat \ {0}
  <1> DEFINE m == IF n > min THEN n ELSE min
  <1>1. m \in Nat
    OBVIOUS
  <1>2. mem_ceil_log2(m) \in Nat
    BY <1>1, CeilLog2Bounds
  <1>3. table_next_size(n, min) = Pow2[mem_ceil_log2(m)]
    BY DEF table_next_size, mem_next_pow2
  <1>4. Pow2[mem_ceil_log2(m)] \in Nat \ {0}
    BY <1>2, Pow2Above
  <1> QED BY <1>3, <1>4

LEMMA NextSizeIs ==
  ASSUME NEW n \in Int, NEW min \in Nat
  PROVE  /\ table_next_size(n, min) \in Nat \ {0}
         /\ \A bit \in Nat : n = Pow2[bit] => n <= table_next_size(n, min)
         /\ \A bit \in Nat : n = Pow2[bit] /\ n >= min => table_next_size(n, min) = n
  <1> DEFINE m == IF n > min THEN n ELSE min
  <1>1. m \in Nat
    OBVIOUS
  <1>2. /\ mem_ceil_log2(m) \in Nat
        /\ \A bit \in Nat : Pow2[bit] <= m => bit <= mem_ceil_log2(m)
    BY <1>1, CeilLog2Bounds
  <1>3. table_next_size(n, min) = Pow2[mem_ceil_log2(m)]
    BY DEF table_next_size, mem_next_pow2
  <1>4. Pow2[mem_ceil_log2(m)] \in Nat \ {0}
    BY <1>2, Pow2Above
  <1>5. ASSUME NEW bit \in Nat, n = Pow2[bit] PROVE n <= Pow2[mem_ceil_log2(m)]
    <2>1. bit <= mem_ceil_log2(m)
      BY <1>5, <1>2
    <2> QED BY <2>1, <1>2, <1>5, Pow2Monotone
  <1>6. ASSUME NEW bit \in Nat, n = Pow2[bit], n >= min PROVE Pow2[mem_ceil_log2(m)] = n
    <2>1. m = Pow2[bit]
      BY <1>6
    <2> QED BY <2>1, <1>6, CeilLog2Pow2
  <1> QED BY <1>3, <1>4, <1>5, <1>6

\* table_resize before its first loop: the elements are where they were, those
\* that were cut off excepted, and the hash part is empty.
IsEmptied(new, tab, n_hash, n_array) ==
  /\ new \in Table
  /\ Len(new.array) =
       IF n_array > Len(tab.array) THEN table_next_size(n_array, ARRAY_MIN)
       ELSE IF Shrinks(tab, n_array) THEN n_array ELSE Len(tab.array)
  /\ \A i \in 1 .. Len(new.array) :
       new.array[i] = IF i <= Len(tab.array) THEN tab.array[i] ELSE Nil
  /\ new.entries = IF n_hash = 0 THEN EMPTY_ENTRIES
                   ELSE [i \in 1 .. table_next_size(n_hash, HASH_MIN) |-> Empty]
  /\ Len(new.entries) > 0 /\ \A i \in 1 .. Len(new.entries) : new.entries[i] = Empty
  /\ new.count = 0

LEMMA EmptiedIs ==
  ASSUME NEW tab, tab \in Table, Len(tab.entries) > 0, NEW n_hash \in Int, NEW n_array \in Nat,
         n_array > Len(tab.array) => Len(tab.array) <= table_next_size(n_array, ARRAY_MIN),
         NEW new, new = Emptied(tab, n_hash, n_array)
  PROVE  IsEmptied(new, tab, n_hash, n_array)
  <1> DEFINE last == Len(tab.array)
             wide == table_next_size(n_array, ARRAY_MIN)
             high == table_next_size(n_hash, HASH_MIN)
             grown == IF n_array > last THEN table_array_resize(tab, n_array) ELSE tab
             empty == table_hash_resize(grown, n_hash)
             entries == IF n_hash = 0 THEN EMPTY_ENTRIES ELSE [i \in 1 .. high |-> Empty]
             longer == [i \in 1 .. wide |-> IF i <= last THEN tab.array[i] ELSE Nil]
             shorter == [i \in 1 .. n_array |-> tab.array[i]]
             array == IF n_array > last THEN longer
                      ELSE IF Shrinks(tab, n_array) THEN shorter ELSE tab.array
  <1>1. /\ wide \in Nat \ {0} /\ high \in Nat \ {0}
    <2>1. ARRAY_MIN \in Nat /\ HASH_MIN \in Nat /\ n_array \in Int
      BY TableAssumption
    <2>2. wide \in Nat \ {0}
      BY <2>1, NextSizeType, Zenon
    <2>3. high \in Nat \ {0}
      BY <2>1, NextSizeType, Zenon
    <2> QED BY <2>2, <2>3
  <1>2. /\ tab.array \in Seq(Slot) /\ last \in Nat /\ tab.entries \in Seq(Entry) /\ tab.count \in Nat
        /\ \A i \in 1 .. last : tab.array[i] \in Slot
        /\ tab = [array |-> tab.array, entries |-> tab.entries, count |-> tab.count]
    BY DEF Table
  <1> HIDE DEF wide, high, last
  <1>3. Emptied(tab, n_hash, n_array) = [array |-> array, entries |-> entries, count |-> 0]
    <2>1. grown = [array |-> IF n_array > last THEN longer ELSE tab.array,
                   entries |-> tab.entries, count |-> tab.count]
      BY <1>2 DEF table_array_resize, last, wide
    <2>2. empty = [array |-> IF n_array > last THEN longer ELSE tab.array,
                   entries |-> entries, count |-> 0]
      <3> HIDE DEF grown
      <3> QED BY <2>1 DEF table_hash_resize, high
    <2>3. Emptied(tab, n_hash, n_array) =
            IF Shrinks(tab, n_array) THEN [empty EXCEPT !.array = shorter] ELSE empty
      BY DEF Emptied, last
    <2>4. Shrinks(tab, n_array) => ~(n_array > last)
      BY <1>2 DEF Shrinks, last
    <2> HIDE DEF empty
    <2> QED BY <2>2, <2>3, <2>4
  <1>4. entries \in Seq(Entry) /\ Len(entries) > 0 /\ \A i \in 1 .. Len(entries) : entries[i] = Empty
    <2>1. Empty \in Entry
      BY DEF Empty, Entry
    <2>2. CASE n_hash = 0
      BY <2>1, <2>2 DEF EMPTY_ENTRIES
    <2>3. CASE n_hash # 0
      <3>1. entries = [i \in 1 .. high |-> Empty]
        BY <2>3
      <3>2. entries \in Seq(Entry) /\ Len(entries) = high
        BY <3>1, <2>1, <1>1
      <3> QED BY <3>1, <3>2, <1>1
    <2> QED BY <2>2, <2>3
  <1>5. /\ array \in Seq(Slot)
        /\ Len(array) = IF n_array > last THEN wide ELSE IF Shrinks(tab, n_array) THEN n_array ELSE last
        /\ \A i \in 1 .. Len(array) : array[i] = IF i <= last THEN tab.array[i] ELSE Nil
    <2>1. Nil \in Slot
      BY DEF Slot
    <2>2. CASE n_array > last
      <3>1. array = longer
        BY <2>2
      <3>2. longer \in Seq(Slot) /\ Len(longer) = wide
        BY <1>1, <1>2, <2>1
      <3> QED BY <3>1, <3>2, <2>2, <1>1
    <2>3. CASE Shrinks(tab, n_array)
      <3>1. n_array < last
        BY <2>3 DEF Shrinks, last
      <3>2. array = shorter
        BY <3>1, <2>3, <1>2
      <3>3. shorter \in Seq(Slot) /\ Len(shorter) = n_array
        BY <3>1, <1>2
      <3> QED BY <3>1, <3>2, <3>3, <2>3, <1>2
    <2>4. CASE ~(n_array > last) /\ ~Shrinks(tab, n_array)
      <3>1. array = tab.array
        BY <2>4
      <3> QED BY <3>1, <2>4, <1>2 DEF last
    <2> QED BY <2>2, <2>3, <2>4
  <1> HIDE DEF array, entries
  <1>6. new.array = array /\ new.entries = entries /\ new.count = 0 /\ new \in Table
    BY <1>3, <1>4, <1>5 DEF Table
  <1>7. \A i \in 1 .. Len(new.array) : new.array[i] = IF i <= last THEN tab.array[i] ELSE Nil
    BY <1>5, <1>6
  <1>8. Len(new.array) = IF n_array > last THEN wide ELSE IF Shrinks(tab, n_array) THEN n_array ELSE last
    BY <1>5, <1>6
  <1>9. Len(new.entries) > 0 /\ \A i \in 1 .. Len(new.entries) : new.entries[i] = Empty
    BY <1>4, <1>6
  <1> QED BY <1>6, <1>7, <1>8, <1>9 DEF last, wide, entries, high, IsEmptied

\* What is read from the emptied table: the elements that stay.
LEMMA EmptiedReads ==
  ASSUME NEW tab, Shape(tab), NEW n_hash \in Int, NEW n_array \in Nat,
         n_array > Len(tab.array) => Len(tab.array) <= table_next_size(n_array, ARRAY_MIN),
         NEW new, new = Emptied(tab, n_hash, n_array)
  PROVE  /\ Shape(new)
         /\ \A k \in Key :
              table_get(new, k) = IF InArray(tab, k) /\ (Shrinks(tab, n_array) => k <= n_array)
                                  THEN table_get(tab, k) ELSE Nil
  <1> DEFINE last == Len(tab.array)
             size == Len(new.array)
  <1>1. tab \in Table /\ Len(tab.entries) > 0 /\ last \in Nat
    BY ArrayIs DEF Shape
  <1>2. /\ new \in Table
        /\ size = IF n_array > last THEN table_next_size(n_array, ARRAY_MIN)
                  ELSE IF Shrinks(tab, n_array) THEN n_array ELSE last
        /\ \A i \in 1 .. size : new.array[i] = IF i <= last THEN tab.array[i] ELSE Nil
        /\ Len(new.entries) > 0 /\ \A i \in 1 .. Len(new.entries) : new.entries[i] = Empty
        /\ new.count = 0
    <2>1. IsEmptied(new, tab, n_hash, n_array)
      BY <1>1, EmptiedIs
    <2> QED BY <2>1 DEF IsEmptied
  <1>3. size \in Nat /\ DOMAIN new.array = 1 .. size /\ DOMAIN tab.array = 1 .. last
        /\ DOMAIN new.entries = 1 .. Len(new.entries)
    BY <1>1, <1>2, ArrayIs
  <1>4. Live(new.array) \subseteq Index
    <2>1. Live(tab.array) \subseteq Index
      BY DEF Shape
    <2> SUFFICES ASSUME NEW i \in Live(new.array) PROVE i \in Live(tab.array)
      BY <2>1
    <2>2. i \in 1 .. size /\ new.array[i] # Nil
      BY <1>3 DEF Live
    <2>3. i <= last /\ tab.array[i] # Nil
      BY <2>2, <1>2
    <2> HIDE DEF size, last
    <2> QED BY <2>2, <2>3, <1>1, <1>3 DEF Live
  <1>5. Used(new) = {}
    BY <1>2, <1>3 DEF Used
  <1>6. new.count = Cardinality(Used(new))
    BY <1>5, <1>2, FS_EmptySet
  <1>7. EntryInv(new)
    BY <1>2, <1>3 DEF EntryInv, Empty
  <1>8. Shape(new)
    BY <1>2, <1>4, <1>6, <1>7 DEF Shape
  <1>9. ASSUME NEW k \in Key
        PROVE table_get(new, k) = IF InArray(tab, k) /\ (Shrinks(tab, n_array) => k <= n_array)
                                  THEN table_get(tab, k) ELSE Nil
    <2>1. (InArray(tab, k) <=> k \in Index /\ k <= last) /\ (InArray(new, k) <=> k \in Index /\ k <= size)
      BY <1>1, <1>3, InArrayIs
    <2>2. InArray(tab, k) => table_get(tab, k) = tab.array[k] /\ k \in 1 .. last
      BY GetIs
    <2>3. CASE InArray(new, k)
      <3>1. table_get(new, k) = new.array[k] /\ k \in 1 .. size
        BY <2>3, <1>8, GetIs
      <3>2. Shrinks(tab, n_array) => size = n_array
        BY <1>2, <1>1 DEF Shrinks
      <3> HIDE DEF size, last
      <3>3. CASE k <= last
        BY <3>1, <3>2, <3>3, <1>2, <2>1, <2>2, <2>3
      <3>4. CASE ~(k <= last)
        BY <3>1, <3>2, <3>4, <1>2, <2>1, <2>2, <2>3
      <3> QED BY <3>3, <3>4
    <2>4. CASE ~InArray(new, k)
      <3>1. \A i \in 1 .. Len(new.entries) : new.entries[i].key # k
        BY <1>2, KeysAre DEF Empty
      <3>2. table_get(new, k) = Nil
        BY <3>1, <2>4, <1>8, GetIs
      <3>3. InArray(tab, k) => Shrinks(tab, n_array) /\ k > n_array
        <4> SUFFICES ASSUME k \in Index, k <= last, ~(k <= size) PROVE Shrinks(tab, n_array) /\ k > n_array
          BY <2>1, <2>4
        <4>1. k \in Nat
          BY KeysAre
        <4>2. n_array > last => last <= size
          BY <1>2
        <4> HIDE DEF size, last
        <4>3. ~(n_array > last)
          BY <4>1, <4>2, <1>1, <1>3
        <4>4. Shrinks(tab, n_array) /\ size = n_array
          BY <4>1, <4>3, <1>2
        <4> QED BY <4>1, <4>4
      <3>4. InArray(tab, k) => k \in Nat
        BY <2>2
      <3> QED BY <3>2, <3>3, <3>4
    <2> QED BY <2>3, <2>4
  <1> QED BY <1>8, <1>9

\* A set of small numbers has a greatest one.
LEMMA GreatestNumber ==
  ASSUME NEW n \in Nat, NEW S, S \subseteq 0 .. n, S # {}
  PROVE  \E x \in S : \A y \in S : y <= x
  <1> DEFINE T == {n - x : x \in S}
  <1>1. T \subseteq Nat /\ T # {}
    <2>1. \A x \in S : n - x \in Nat
      OBVIOUS
    <2> QED BY <2>1
  <1>2. PICK y \in T : \A z \in T : y <= z
    BY <1>1, LeastNumber
  <1>3. PICK x \in S : y = n - x
    BY <1>2
  <1>4. ASSUME NEW z \in S PROVE z <= x
    <2>1. n - z \in T
      OBVIOUS
    <2>2. y <= n - z
      BY <2>1, <1>2
    <2> HIDE DEF T
    <2> QED BY <2>2, <1>3
  <1> QED BY <1>4

\* The loop of table_array_compute_size comes to turn bit.
Turn(acc, n, bit) == n > Pow2[bit] \div 2 /\ (bit > 0 => acc[bit - 1] # n)
Fits(acc, n) ==
  {bit \in 0 .. n : Turn(acc, n, bit) /\ acc[bit] > Pow2[bit] \div 2
                      /\ (bit > 0 => acc[bit] > acc[bit - 1])}

LEMMA ComputeSizeIs ==
  ASSUME NEW acc, NEW n \in Nat
  PROVE  \/ /\ Fits(acc, n) = {}
            /\ table_array_compute_size(acc, n) = [optimal |-> 0, active |-> 0]
         \/ \E bit \in Fits(acc, n) :
              /\ \A other \in Fits(acc, n) : other <= bit
              /\ table_array_compute_size(acc, n) = [optimal |-> Pow2[bit], active |-> acc[bit]]
  <1> DEFINE S == Fits(acc, n)
             last == CHOOSE b \in S : \A c \in S : c <= b
  <1>1. table_array_compute_size(acc, n) =
          IF S = {} THEN [optimal |-> 0, active |-> 0]
          ELSE [optimal |-> Pow2[last], active |-> acc[last]]
    <2> DEFINE R == {b \in {b \in 0 .. n : n > Pow2[b] \div 2 /\ (b > 0 => acc[b - 1] # n)} :
                       acc[b] > Pow2[b] \div 2 /\ (b > 0 => acc[b] > acc[b - 1])}
    <2>1. R = S
      BY DEF Fits, Turn
    <2>2. table_array_compute_size(acc, n) =
            IF R = {} THEN [optimal |-> 0, active |-> 0]
            ELSE [optimal |-> Pow2[CHOOSE b \in R : \A c \in R : c <= b],
                  active |-> acc[CHOOSE b \in R : \A c \in R : c <= b]]
      BY DEF table_array_compute_size
    <2> HIDE DEF R, S
    <2> QED BY <2>1, <2>2
  <1>2. CASE S = {}
    BY <1>1, <1>2
  <1>3. CASE S # {}
    <2>1. S \subseteq 0 .. n
      BY DEF Fits
    <2>2. \E x \in S : \A y \in S : y <= x
      BY <2>1, <1>3, GreatestNumber
    <2>3. last \in S /\ \A c \in S : c <= last
      BY <2>2
    <2> HIDE DEF last
    <2> QED BY <1>1, <1>3, <2>3
  <1> QED BY <1>2, <1>3

LEMMA FiniteParts ==
  ASSUME NEW tab, tab \in Table
  PROVE  /\ \A S \in SUBSET Live(tab.array) : IsFiniteSet(S) /\ Cardinality(S) \in Nat
         /\ \A S \in SUBSET DOMAIN tab.entries : IsFiniteSet(S) /\ Cardinality(S) \in Nat
  <1>1. /\ Len(tab.array) \in Nat /\ DOMAIN tab.array = 1 .. Len(tab.array)
        /\ Len(tab.entries) \in Nat /\ DOMAIN tab.entries = 1 .. Len(tab.entries)
    BY ArrayIs
  <1>2. IsFiniteSet(1 .. Len(tab.array)) /\ IsFiniteSet(1 .. Len(tab.entries))
    BY <1>1, FS_Interval
  <1>3. ASSUME NEW S, S \subseteq Live(tab.array) PROVE IsFiniteSet(S) /\ Cardinality(S) \in Nat
    <2>1. S \subseteq 1 .. Len(tab.array)
      BY <1>1, <1>3 DEF Live
    <2> QED BY <2>1, <1>2, FS_Subset, FS_CardinalityType
  <1>4. ASSUME NEW S, S \subseteq DOMAIN tab.entries PROVE IsFiniteSet(S) /\ Cardinality(S) \in Nat
    BY <1>1, <1>2, <1>4, FS_Subset, FS_CardinalityType
  <1> QED BY <1>3, <1>4

LEMMA RehashSizesAre ==
  ASSUME NEW tab, tab \in Table, NEW k
  PROVE  /\ RehashSizes(tab, k).n_hash \in Int /\ RehashSizes(tab, k).n_array \in Nat
         /\ RehashSizes(tab, k).n_array = 0 \/ \E bit \in Nat : RehashSizes(tab, k).n_array = Pow2[bit]
  <1> DEFINE n_live  == Cardinality(Live(tab.array))
             n_total == n_live + (IF Hashed(tab) THEN Len(tab.entries) ELSE 0) + 1
             n_array == n_live + Cardinality(HashedIndices(tab))
                        + IF array_index(k) > 0 THEN 1 ELSE 0
             acc     == [b \in 0..n_array |-> CountUpTo(tab, k, b)]
             size    == table_array_compute_size(acc, n_array)
  <1>1. RehashSizes(tab, k) = [n_hash |-> n_total - size.active, n_array |-> size.optimal]
    BY DEF RehashSizes
  <1>2. n_live \in Nat
    BY FiniteParts
  <1>3. n_array \in Nat
    <2>1. Cardinality(HashedIndices(tab)) \in Nat
      BY FiniteParts DEF HashedIndices
    <2> HIDE DEF n_live
    <2> QED BY <2>1, <1>2
  <1>4. n_total \in Nat
    <2>1. Len(tab.entries) \in Nat
      BY ArrayIs
    <2> HIDE DEF n_live
    <2> QED BY <2>1, <1>2
  <1>5. \A b \in 0 .. n_array : acc[b] \in Nat
    <2> SUFFICES ASSUME NEW b \in 0 .. n_array PROVE CountUpTo(tab, k, b) \in Nat
      OBVIOUS
    <2> DEFINE limit == Pow2[b]
               Counts(i) == i > 0 /\ mem_ceil_log2(i) <= b
               A == {i \in Live(tab.array) : i <= limit}
               H == {e \in HashedIndices(tab) : Counts(array_index(tab.entries[e].key))}
    <2>1. A \subseteq Live(tab.array) /\ H \subseteq DOMAIN tab.entries
      BY DEF HashedIndices
    <2>2. Cardinality(A) \in Nat /\ Cardinality(H) \in Nat
      BY <2>1, FiniteParts
    <2>3. CountUpTo(tab, k, b) = Cardinality(A) + Cardinality(H) + IF Counts(array_index(k)) THEN 1 ELSE 0
      BY DEF CountUpTo
    <2> HIDE DEF A, H, Counts
    <2> QED BY <2>2, <2>3
  <1> HIDE DEF n_total, n_array, acc
  <1>6. size = [optimal |-> 0, active |-> 0]
        \/ \E bit \in 0 .. n_array : size = [optimal |-> Pow2[bit], active |-> acc[bit]]
    BY <1>3, ComputeSizeIs DEF Fits
  <1>7. size.active \in Int /\ size.optimal \in Nat
        /\ (size.optimal = 0 \/ \E bit \in Nat : size.optimal = Pow2[bit])
    <2> HIDE DEF size
    <2>1. CASE size = [optimal |-> 0, active |-> 0]
      BY <2>1
    <2>2. CASE \E bit \in 0 .. n_array : size = [optimal |-> Pow2[bit], active |-> acc[bit]]
      BY <2>2, <1>3, <1>5, Pow2Above
    <2> QED BY <2>1, <2>2, <1>6
  <1> HIDE DEF size
  <1> QED BY <1>1, <1>4, <1>7

-----------------------------------------------------------------------------
(* Pairs on their way *)

LEMMA FramesAre ==
  ASSUME TypeInv, NEW l \in DOMAIN resizes
  PROVE  /\ Len(resizes) \in Nat /\ DOMAIN resizes = 1 .. Len(resizes) /\ l \in 1 .. Len(resizes)
         /\ resizes[l] \in Frame /\ FrameInv(resizes[l])
         /\ resizes[l].old_array \in Seq(Slot) /\ resizes[l].old_entries \in Seq(Entry)
         /\ resizes[l].i \in Nat /\ resizes[l].call \in Entry /\ resizes[l].n_array \in Nat
         /\ resizes[l].loop \in {"array", "entries"}
         /\ DOMAIN resizes[l].old_array \subseteq Nat \ {0}
         /\ DOMAIN resizes[l].old_entries \subseteq Nat \ {0}
  <1>1. resizes \in Seq(Frame)
    BY DEF TypeInv
  <1>2. /\ Len(resizes) \in Nat /\ DOMAIN resizes = 1 .. Len(resizes) /\ l \in 1 .. Len(resizes)
        /\ resizes[l] \in Frame
    BY <1>1
  <1>3. /\ resizes[l].old_array \in Seq(Slot) /\ resizes[l].old_entries \in Seq(Entry)
        /\ resizes[l].i \in Nat /\ resizes[l].call \in Entry /\ resizes[l].n_array \in Nat
        /\ resizes[l].loop \in {"array", "entries"}
    BY <1>2 DEF Frame
  <1>4. FrameInv(resizes[l])
    BY DEF TypeInv
  <1>5. DOMAIN resizes[l].old_array \subseteq Nat \ {0} /\ DOMAIN resizes[l].old_entries \subseteq Nat \ {0}
    BY <1>3
  <1> QED BY <1>2, <1>3, <1>4, <1>5

LEMMA CarriedIs ==
  /\ \A x \in Carried : /\ x = <<x[1], x[2], x[3]>> /\ x[1] \in Nat /\ x[3] \in Nat
                        /\ x[2] \in {"call", "array", "entries"} /\ Carries(x[1], x[2], x[3])
  /\ \A l, i \in Nat : \A where \in {"call", "array", "entries"} :
       Carries(l, where, i) => <<l, where, i>> \in Carried
  BY DEF Carried

LEMMA LevelIs ==
  ASSUME TypeInv
  PROVE  /\ Len(resizes) \in Nat /\ DOMAIN resizes = 1 .. Len(resizes)
         /\ Level = Len(resizes) + 1 /\ Level \in Nat /\ Level >= 1
         /\ \A l \in 1 .. Level : CallAt(l) \in Entry
         /\ \A l \in DOMAIN resizes : CallAt(l) = resizes[l].call /\ CallAt(l) # Empty
         /\ CallAt(Level) = call
         /\ resizes = <<>> <=> Level = 1
  <1>1. resizes \in Seq(Frame) /\ call \in Entry
    BY DEF TypeInv
  <1>2. /\ Len(resizes) \in Nat /\ DOMAIN resizes = 1 .. Len(resizes)
        /\ Level = Len(resizes) + 1 /\ Level \in Nat /\ Level >= 1
        /\ (resizes = <<>> <=> Level = 1)
    BY <1>1 DEF Level
  <1>3. \A l \in DOMAIN resizes : resizes[l].call # Empty /\ resizes[l].call \in Entry
    BY FramesAre DEF FrameInv, Empty
  <1>4. \A l \in DOMAIN resizes : CallAt(l) = resizes[l].call
    BY <1>2 DEF CallAt
  <1> QED BY <1>1, <1>2, <1>3, <1>4 DEF CallAt

LEMMA CarriedTypes ==
  ASSUME TypeInv, NEW x \in Carried
  PROVE  /\ Pair(x) \in Entry
         /\ x[2] = "call" => x[1] \in 2 .. Level /\ x[3] = 0 /\ CallAt(x[1]) # Empty /\ Pair(x) = CallAt(x[1])
         /\ x[2] = "array" =>
              /\ x[1] \in DOMAIN resizes /\ resizes[x[1]].loop = "array" /\ x[3] \in Vanishing(resizes[x[1]])
              /\ Pair(x) = [key |-> x[3], value |-> resizes[x[1]].old_array[x[3]]]
         /\ x[2] = "entries" =>
              /\ x[1] \in DOMAIN resizes /\ x[3] \in DOMAIN resizes[x[1]].old_entries
              /\ resizes[x[1]].old_entries[x[3]].value # Nil
              /\ (resizes[x[1]].loop = "entries" => x[3] > resizes[x[1]].i)
              /\ Pair(x) = resizes[x[1]].old_entries[x[3]]
  <1>1. /\ x = <<x[1], x[2], x[3]>> /\ x[1] \in Nat /\ x[3] \in Nat
        /\ x[2] \in {"call", "array", "entries"} /\ Carries(x[1], x[2], x[3])
    BY CarriedIs
  <1>2. CASE x[2] = "call"
    BY <1>1, <1>2, LevelIs DEF Carries, Pair
  <1>3. CASE x[2] = "array"
    <2>1. /\ x[1] \in DOMAIN resizes /\ resizes[x[1]].loop = "array" /\ x[3] \in Vanishing(resizes[x[1]])
          /\ Pair(x) = [key |-> x[3], value |-> resizes[x[1]].old_array[x[3]]]
      BY <1>1, <1>3 DEF Carries, Pair
    <2>2. x[3] \in Live(resizes[x[1]].old_array)
      BY <2>1 DEF Vanishing
    <2>3. x[3] \in Index /\ x[3] \in DOMAIN resizes[x[1]].old_array
      BY <2>1, <2>2, FramesAre DEF FrameInv, Live
    <2>4. resizes[x[1]].old_array[x[3]] \in Slot
      BY <2>1, <2>3, FramesAre
    <2>5. Pair(x) \in Entry
      BY <2>1, <2>3, <2>4, KeysAre DEF Entry, Slot
    <2> QED BY <2>1, <2>5, <1>3
  <1>4. CASE x[2] = "entries"
    <2>1. /\ x[1] \in DOMAIN resizes /\ x[3] \in DOMAIN resizes[x[1]].old_entries
          /\ resizes[x[1]].old_entries[x[3]].value # Nil
          /\ (resizes[x[1]].loop = "entries" => x[3] > resizes[x[1]].i)
          /\ Pair(x) = resizes[x[1]].old_entries[x[3]]
      BY <1>1, <1>4 DEF Carries, Pair
    <2>2. Pair(x) \in Entry
      BY <2>1, FramesAre
    <2> QED BY <2>1, <2>2, <1>4
  <1> QED BY <1>1, <1>2, <1>3, <1>4

\* A call that stores its pair carries it no more.
LEMMA CarriedStore ==
  ASSUME TypeInv, call # Empty, call' = Empty, UNCHANGED resizes
  PROVE  /\ \A x \in Carried' : x \in Carried /\ Pair(x)' = Pair(x) /\ x # <<Level, "call", 0>>
         /\ \A x \in Carried : x # <<Level, "call", 0>> => x \in Carried'
         /\ Level > 1 => <<Level, "call", 0>> \in Carried /\ Pair(<<Level, "call", 0>>) = call
         /\ Level = 1 => Carried = {}
         /\ CallAt(1)' = IF Level = 1 THEN Empty ELSE CallAt(1)
  <1>1. Level' = Level
    BY DEF Level
  <1>2. \A l : CallAt(l)' = IF l = Level THEN Empty ELSE CallAt(l)
    BY <1>1 DEF CallAt
  <1>3. ASSUME NEW l, NEW i, NEW where \in {"call", "array", "entries"}
        PROVE  Carries(l, where, i)' <=> Carries(l, where, i) /\ ~(l = Level /\ where = "call")
    <2>1. CASE where = "call"
      BY <2>1, <1>1, <1>2 DEF Carries
    <2>2. CASE where # "call"
      BY <2>2, <1>3 DEF Carries
    <2> QED BY <2>1, <2>2
  <1>4. ASSUME NEW x \in Carried' PROVE x \in Carried /\ Pair(x)' = Pair(x) /\ x # <<Level, "call", 0>>
    <2>1. /\ x \in Nat \X {"call", "array", "entries"} \X Nat /\ Carries(x[1], x[2], x[3])'
      BY DEF Carried
    <2>2. Carries(x[1], x[2], x[3]) /\ ~(x[1] = Level /\ x[2] = "call")
      BY <2>1, <1>3
    <2>3. Pair(x)' = Pair(x)
      <3>1. CASE x[2] = "call"
        <4>1. CallAt(x[1])' = CallAt(x[1])
          BY <3>1, <2>2, <1>2
        <4> QED BY <4>1, <3>1 DEF Pair
      <3>2. CASE x[2] # "call"
        <4>1. resizes' = resizes
          OBVIOUS
        <4> QED BY <4>1, <3>2, <2>1 DEF Pair
      <3> QED BY <3>1, <3>2
    <2> QED BY <2>1, <2>2, <2>3 DEF Carried
  <1>5. ASSUME NEW x \in Carried, x # <<Level, "call", 0>> PROVE x \in Carried'
    <2>1. /\ x = <<x[1], x[2], x[3]>> /\ x[1] \in Nat /\ x[3] \in Nat
          /\ x[2] \in {"call", "array", "entries"} /\ Carries(x[1], x[2], x[3])
      BY CarriedIs
    <2>2. ~(x[1] = Level /\ x[2] = "call")
      BY <2>1, <1>5 DEF Carries
    <2>3. Carries(x[1], x[2], x[3])'
      BY <2>1, <2>2, <1>3
    <2> QED BY <2>1, <2>3 DEF Carried
  <1>6. ASSUME Level > 1 PROVE <<Level, "call", 0>> \in Carried /\ Pair(<<Level, "call", 0>>) = call
    <2>1. Carries(Level, "call", 0)
      BY <1>6, LevelIs DEF Carries
    <2>2. <<Level, "call", 0>> \in Carried
      BY <2>1, LevelIs, CarriedIs
    <2> QED BY <2>2, LevelIs DEF Pair
  <1>7. ASSUME Level = 1 PROVE Carried = {}
    BY <1>7, LevelIs, CarriedTypes, CarriedIs
  <1> QED BY <1>2, <1>4, <1>5, <1>6, <1>7, LevelIs

\* Where a call or a pair is in transit is a fact of its own level.
LEMMA CarriedPrime ==
  /\ \A x \in Carried' : /\ x = <<x[1], x[2], x[3]>> /\ x[1] \in Nat /\ x[3] \in Nat
                         /\ x[2] \in {"call", "array", "entries"} /\ Carries(x[1], x[2], x[3])'
  /\ \A l, i \in Nat : \A where \in {"call", "array", "entries"} :
       Carries(l, where, i)' => <<l, where, i>> \in Carried'
  BY DEF Carried

LEMMA CarriesIs ==
  ASSUME NEW l, NEW i
  PROVE  /\ Carries(l, "call", i) <=> l \in 2..Level /\ i = 0 /\ CallAt(l) # Empty
         /\ Carries(l, "call", i)' <=> l \in 2..Level' /\ i = 0 /\ CallAt(l)' # Empty
         /\ Carries(l, "array", i) <=> /\ l \in DOMAIN resizes /\ resizes[l].loop = "array"
                                       /\ i \in Vanishing(resizes[l])
         /\ Carries(l, "array", i)' <=> /\ l \in DOMAIN resizes' /\ resizes'[l].loop = "array"
                                        /\ i \in Vanishing(resizes'[l])
         /\ Carries(l, "entries", i) <=>
              /\ l \in DOMAIN resizes /\ i \in DOMAIN resizes[l].old_entries
              /\ resizes[l].old_entries[i].value # Nil
              /\ resizes[l].loop = "entries" => i > resizes[l].i
         /\ Carries(l, "entries", i)' <=>
              /\ l \in DOMAIN resizes' /\ i \in DOMAIN resizes'[l].old_entries
              /\ resizes'[l].old_entries[i].value # Nil
              /\ resizes'[l].loop = "entries" => i > resizes'[l].i
  BY DEF Carries, Vanishing, Live

\* table_rehash calls table_resize, which carries what the frame f holds.
LEMMA CarriedRehash ==
  ASSUME TypeInv, call # Empty, call' = Empty, NEW f \in Frame, f.call = call,
         resizes' = Append(resizes, f)
  PROVE  /\ \A x \in Carried : x \in Carried' /\ Pair(x)' = Pair(x)
         /\ \A x \in Carried' : x \notin Carried =>
              \/ /\ x[2] = "array" /\ f.loop = "array" /\ x[3] \in Vanishing(f)
                 /\ Pair(x)' = [key |-> x[3], value |-> f.old_array[x[3]]]
                 /\ x = <<Level, "array", x[3]>>
              \/ /\ x[2] = "entries" /\ x[3] \in DOMAIN f.old_entries /\ f.old_entries[x[3]].value # Nil
                 /\ f.loop = "entries" => x[3] > f.i
                 /\ Pair(x)' = f.old_entries[x[3]]
                 /\ x = <<Level, "entries", x[3]>>
         /\ \A i \in Vanishing(f) : i \in Nat /\ f.loop = "array" => <<Level, "array", i>> \in Carried'
         /\ \A i \in DOMAIN f.old_entries :
              i \in Nat /\ f.old_entries[i].value # Nil /\ (f.loop = "entries" => i > f.i) =>
                <<Level, "entries", i>> \in Carried'
         /\ CallAt(1)' = CallAt(1)
  <1> PICK n : n = Len(resizes)
    OBVIOUS
  <1>1. /\ n \in Nat /\ resizes \in Seq(Frame) /\ DOMAIN resizes = 1 .. n
        /\ Len(resizes') = n + 1 /\ DOMAIN resizes' = 1 .. (n + 1)
        /\ \A l \in 1 .. n : resizes'[l] = resizes[l]
        /\ resizes'[n + 1] = f
    BY DEF TypeInv
  <1>2. Level = n + 1 /\ Level' = n + 2
    BY <1>1 DEF Level
  <1>3. /\ \A l \in 1 .. (n + 1) : CallAt(l)' = CallAt(l)
        /\ CallAt(n + 2)' = Empty
    <2>1. \A l : CallAt(l)' = IF l = n + 2 THEN Empty ELSE resizes'[l].call
      BY <1>2 DEF CallAt
    <2>2. \A l : CallAt(l) = IF l = n + 1 THEN call ELSE resizes[l].call
      BY <1>2 DEF CallAt
    <2>3. ASSUME NEW l \in 1 .. (n + 1) PROVE CallAt(l)' = CallAt(l)
      <3>1. l # n + 2
        BY <1>1
      <3>2. l # n + 1 => l \in 1 .. n
        BY <1>1
      <3> QED BY <2>1, <2>2, <3>1, <3>2, <1>1
    <2> QED BY <2>1, <2>3
  <1>4. ASSUME NEW l \in Nat, NEW i \in Nat, NEW where \in {"call", "array", "entries"}, Carries(l, where, i)
        PROVE  Carries(l, where, i)' /\ Pair(<<l, where, i>>)' = Pair(<<l, where, i>>)
    <2>1. CASE where = "call"
      <3>1. l \in 2 .. (n + 1) /\ i = 0 /\ CallAt(l) # Empty
        BY <2>1, <1>4, <1>2 DEF Carries
      <3>2. CallAt(l)' = CallAt(l) /\ l \in 2 .. Level'
        BY <3>1, <1>1, <1>2, <1>3
      <3> QED BY <3>1, <3>2, <2>1 DEF Carries, Pair
    <2>2. CASE where # "call"
      <3>1. l \in DOMAIN resizes
        BY <2>2, <1>4 DEF Carries
      <3>2. l \in DOMAIN resizes' /\ resizes'[l] = resizes[l]
        BY <3>1, <1>1
      <3> QED BY <3>1, <3>2, <2>2, <1>4 DEF Carries, Pair
    <2> QED BY <2>1, <2>2
  <1>5. ASSUME NEW l \in Nat, NEW i \in Nat, NEW where \in {"call", "array", "entries"},
               Carries(l, where, i)', ~Carries(l, where, i)
        PROVE  /\ l = Level /\ where # "call"
               /\ where = "array" => /\ f.loop = "array" /\ i \in Vanishing(f)
                                     /\ Pair(<<l, where, i>>)' = [key |-> i, value |-> f.old_array[i]]
               /\ where = "entries" => /\ i \in DOMAIN f.old_entries /\ f.old_entries[i].value # Nil
                                       /\ f.loop = "entries" => i > f.i
                                       /\ Pair(<<l, where, i>>)' = f.old_entries[i]
    <2>1. where # "call"
      <3> SUFFICES ASSUME where = "call" PROVE FALSE
        OBVIOUS
      <3>1. l \in 2 .. (n + 2) /\ i = 0 /\ CallAt(l)' # Empty
        BY <1>5, <1>2 DEF Carries
      <3>2. l \in 1 .. (n + 1)
        <4>1. l # n + 2
          BY <3>1, <1>3
        <4> QED BY <4>1, <3>1, <1>1
      <3>3. CallAt(l) # Empty /\ l \in 2 .. Level
        BY <3>1, <3>2, <1>2, <1>3, <1>1
      <3> QED BY <3>1, <3>3, <1>5 DEF Carries
    <2>2. l \in DOMAIN resizes'
      BY <2>1, <1>5 DEF Carries
    <2>3. l = n + 1
      <3> SUFFICES ASSUME l # n + 1 PROVE FALSE
        OBVIOUS
      <3>1. l \in DOMAIN resizes /\ resizes'[l] = resizes[l]
        BY <2>2, <1>1
      <3> QED BY <3>1, <2>1, <2>2, <1>5 DEF Carries
    <2>4. resizes'[l] = f
      BY <2>3, <1>1
    <2> QED BY <2>1, <2>3, <2>4, <1>2, <1>5 DEF Carries, Pair
  <1>6. ASSUME NEW i \in Nat
        PROVE /\ i \in Vanishing(f) /\ f.loop = "array" => <<Level, "array", i>> \in Carried'
              /\ i \in DOMAIN f.old_entries /\ f.old_entries[i].value # Nil /\ (f.loop = "entries" => i > f.i)
                   => <<Level, "entries", i>> \in Carried'
    <2> PICK l \in Nat : l = Level
      BY <1>1, <1>2
    <2>1. l \in DOMAIN resizes' /\ resizes'[l] = f
      BY <1>1, <1>2
    <2>2. i \in Vanishing(f) /\ f.loop = "array" => Carries(l, "array", i)'
      BY <2>1, CarriesIs
    <2>3. i \in DOMAIN f.old_entries /\ f.old_entries[i].value # Nil /\ (f.loop = "entries" => i > f.i)
            => Carries(l, "entries", i)'
      BY <2>1, CarriesIs
    <2> QED BY <2>2, <2>3, CarriedPrime
  <1>7. ASSUME NEW x \in Carried PROVE x \in Carried' /\ Pair(x)' = Pair(x)
    <2>1. /\ x = <<x[1], x[2], x[3]>> /\ x[1] \in Nat /\ x[3] \in Nat
          /\ x[2] \in {"call", "array", "entries"} /\ Carries(x[1], x[2], x[3])
      BY CarriedIs
    <2>2. Carries(x[1], x[2], x[3])' /\ Pair(<<x[1], x[2], x[3]>>)' = Pair(<<x[1], x[2], x[3]>>)
      BY <2>1, <1>4
    <2>3. <<x[1], x[2], x[3]>> \in Carried'
      BY <2>1, <2>2, CarriedPrime
    <2> QED BY <2>1, <2>2, <2>3
  <1>8. ASSUME NEW x \in Carried', x \notin Carried
        PROVE \/ /\ x[2] = "array" /\ f.loop = "array" /\ x[3] \in Vanishing(f)
                 /\ Pair(x)' = [key |-> x[3], value |-> f.old_array[x[3]]]
                 /\ x = <<Level, "array", x[3]>>
              \/ /\ x[2] = "entries" /\ x[3] \in DOMAIN f.old_entries /\ f.old_entries[x[3]].value # Nil
                 /\ f.loop = "entries" => x[3] > f.i
                 /\ Pair(x)' = f.old_entries[x[3]]
                 /\ x = <<Level, "entries", x[3]>>
    <2>1. /\ x = <<x[1], x[2], x[3]>> /\ x[1] \in Nat /\ x[3] \in Nat
          /\ x[2] \in {"call", "array", "entries"} /\ Carries(x[1], x[2], x[3])'
      BY CarriedPrime
    <2>2. ASSUME Carries(x[1], x[2], x[3]) PROVE FALSE
      <3>1. <<x[1], x[2], x[3]>> \in Carried
        BY <2>1, <2>2, CarriedIs
      <3> QED BY <3>1, <2>1, <1>8
    <2>3. /\ x[1] = Level /\ x[2] # "call"
          /\ x[2] = "array" => /\ f.loop = "array" /\ x[3] \in Vanishing(f)
                               /\ Pair(<<x[1], x[2], x[3]>>)' = [key |-> x[3], value |-> f.old_array[x[3]]]
          /\ x[2] = "entries" => /\ x[3] \in DOMAIN f.old_entries /\ f.old_entries[x[3]].value # Nil
                                 /\ f.loop = "entries" => x[3] > f.i
                                 /\ Pair(<<x[1], x[2], x[3]>>)' = f.old_entries[x[3]]
      BY <2>1, <2>2, <1>5
    <2>4. Pair(x)' = Pair(<<x[1], x[2], x[3]>>)'
      BY <2>1
    <2> QED BY <2>1, <2>3, <2>4
  <1>9. Level \in Nat /\ 1 \in 1 .. (n + 1)
    BY <1>1, <1>2
  <1>10. CallAt(1)' = CallAt(1)
    BY <1>3, <1>9
  <1> QED BY <1>6, <1>7, <1>8, <1>10

\* A turn of a loop of table_resize: the pair at src goes to the new call.
LEMMA CarriedMove ==
  ASSUME TypeInv, resizes # <<>>, call = Empty, NEW src \in Carried,
         call' = Pair(src), Pair(src) # Empty,
         resizes' = [resizes EXCEPT ![Len(resizes)].i = src[3]],
         src[1] = Len(resizes), src[2] \in {"array", "entries"},
         src[2] = resizes[Len(resizes)].loop,
         src[2] = "array" => src[3] = Least(Vanishing(resizes[Len(resizes)])),
         src[2] = "entries" => src[3] = Least(Waiting(resizes[Len(resizes)]))
  PROVE  /\ \A x \in Carried : x # src => x \in Carried' /\ Pair(x)' = Pair(x)
         /\ \A x \in Carried' : x # <<Level, "call", 0>> => x \in Carried /\ x # src
         /\ <<Level, "call", 0>> \in Carried' /\ Pair(<<Level, "call", 0>>)' = Pair(src)
         /\ <<Level, "call", 0>> \notin Carried
         /\ CallAt(1)' = CallAt(1)
  <1> DEFINE n == Len(resizes)
             f == resizes[n]
             top == <<Level, "call", 0>>
             i == src[3]
  <1>1. /\ n \in Nat \ {0} /\ resizes \in Seq(Frame) /\ DOMAIN resizes = 1 .. n /\ f \in Frame
        /\ n \in DOMAIN resizes
    BY DEF TypeInv
  <1>2. i \in Nat /\ src = <<n, src[2], i>> /\ Carries(n, src[2], i)
    BY CarriedIs, Zenon
  <1> HIDE DEF f
  <1>3. /\ Len(resizes') = n /\ DOMAIN resizes' = 1 .. n
        /\ \A l \in 1 .. n : l # n => resizes'[l] = resizes[l]
        /\ resizes'[n] = [f EXCEPT !.i = i]
    BY <1>1, <1>2 DEF f
  <1>4. /\ resizes'[n].loop = f.loop /\ resizes'[n].old_array = f.old_array
        /\ resizes'[n].old_entries = f.old_entries /\ resizes'[n].call = f.call /\ resizes'[n].i = i
    BY <1>1, <1>3 DEF Frame
  <1>5. Level = n + 1 /\ Level' = n + 1
    BY <1>3 DEF Level
  <1>6. (\A l \in 1 .. n : CallAt(l)' = CallAt(l)) /\ CallAt(Level) = Empty /\ CallAt(Level)' = Pair(src)
    <2>1. \A l \in 1 .. n : resizes'[l].call = resizes[l].call
      BY <1>3, <1>4 DEF f
    <2> QED BY <2>1, <1>1, <1>5 DEF CallAt
  <1>7. f.loop = "array" => Vanishing(resizes'[n]) = Vanishing(f) \ {i}
    <2> SUFFICES ASSUME f.loop = "array" PROVE Vanishing(resizes'[n]) = Vanishing(f) \ {i}
      OBVIOUS
    <2>1. Vanishing(f) \subseteq Nat /\ i \in Vanishing(f) /\ f.i \in Nat
      BY <1>1, <1>2, FramesAre DEF Vanishing, Live, Carries, f
    <2>2. \A j \in Vanishing(f) : i <= j
      BY <2>1, LeastIs DEF f
    <2>3. Live(resizes'[n].old_array) = Live(f.old_array)
      BY <1>4
    <2>4. \A j \in Live(f.old_array) : j > i <=> (j > f.i /\ j # i)
      <3> SUFFICES ASSUME NEW j \in Live(f.old_array) PROVE j > i <=> (j > f.i /\ j # i)
        OBVIOUS
      <3>1. j \in Nat
        BY <1>1, FramesAre DEF Live, f
      <3>2. i > f.i
        BY <2>1 DEF Vanishing
      <3>3. j > f.i => i <= j
        BY <2>2 DEF Vanishing
      <3> QED BY <3>1, <3>2, <3>3, <2>1, <1>2
    <2> QED BY <2>3, <2>4, <1>4 DEF Vanishing
  <1>8. f.loop = "entries" => \A j \in DOMAIN f.old_entries : f.old_entries[j].value # Nil =>
                                (j > i <=> j > f.i /\ j # i)
    <2> SUFFICES ASSUME f.loop = "entries", NEW j \in DOMAIN f.old_entries, f.old_entries[j].value # Nil
        PROVE j > i <=> (j > f.i /\ j # i)
      OBVIOUS
    <2>1. Waiting(f) \subseteq Nat /\ f.i \in Nat /\ j \in Nat
      BY <1>1, FramesAre DEF Waiting, f
    <2>2. i \in Waiting(f)
      BY <1>2 DEF Waiting, Carries, f
    <2>3. \A l \in Waiting(f) : i <= l
      BY <2>1, <2>2, LeastIs DEF f
    <2>4. i > f.i /\ (j > f.i => i <= j)
      BY <2>2, <2>3 DEF Waiting
    <2> QED BY <2>1, <2>4, <1>2
  <1>9. ASSUME NEW l \in Nat, NEW j \in Nat, NEW where \in {"call", "array", "entries"}
        PROVE  Carries(l, where, j)' <=>
                 (Carries(l, where, j) /\ ~(l = n /\ where = src[2] /\ j = i))
                   \/ (l = Level /\ where = "call" /\ j = 0)
    <2>1. CASE where = "call"
      <3>1. CASE l \in 2 .. n
        BY <3>1, <2>1, <1>1, <1>5, <1>6, CarriesIs
      <3>2. CASE l = Level
        <4>1. CallAt(l)' = Pair(src)
          <5>1. l = n + 1
            BY <3>2, <1>5
          <5>2. CallAt(l)' = call'
            BY <5>1, <1>5 DEF CallAt
          <5> QED BY <5>2
        <4>2. Carries(l, "call", j)' <=> j = 0
          BY <4>1, <3>2, <1>1, <1>5, CarriesIs
        <4>3. ~Carries(l, "call", j)
          BY <3>2, <1>6, CarriesIs
        <4> QED BY <4>2, <4>3, <2>1, <3>2
      <3>3. CASE l \notin 2 .. Level
        BY <3>3, <2>1, <1>1, <1>5, <1>6, CarriesIs
      <3> QED BY <3>1, <3>2, <3>3, <1>1, <1>5
    <2>2. CASE where # "call" /\ l # n
      BY <2>2, <1>1, <1>3 DEF Carries
    <2>3. CASE where = "array" /\ l = n
      BY <2>3, <1>1, <1>2, <1>3, <1>4, <1>7 DEF Carries, f
    <2>4. CASE where = "entries" /\ l = n
      <3>1. Carries(n, "entries", j) <=> /\ j \in DOMAIN f.old_entries /\ f.old_entries[j].value # Nil
                                         /\ f.loop = "entries" => j > f.i
        BY <1>1 DEF Carries, f
      <3>2. Carries(n, "entries", j)' <=> /\ j \in DOMAIN f.old_entries /\ f.old_entries[j].value # Nil
                                          /\ f.loop = "entries" => j > i
        BY <1>1, <1>3, <1>4 DEF Carries
      <3>3. src[2] = f.loop
        BY DEF f
      <3> QED BY <3>1, <3>2, <3>3, <2>4, <1>8, <1>2
    <2> QED BY <2>1, <2>2, <2>3, <2>4
  <1>10. ASSUME NEW l \in Nat, NEW j \in Nat, NEW where \in {"call", "array", "entries"},
                Carries(l, where, j), ~(l = Level /\ where = "call" /\ j = 0)
         PROVE  Pair(<<l, where, j>>)' = Pair(<<l, where, j>>)
    <2>1. CASE where = "call"
      <3>1. l \in 1 .. n
        BY <2>1, <1>10, <1>1, <1>5 DEF Carries
      <3> QED BY <3>1, <2>1, <1>6 DEF Pair
    <2>2. CASE where # "call"
      <3>1. l \in 1 .. n
        BY <2>2, <1>10, <1>1 DEF Carries
      <3>2. resizes'[l].old_array = resizes[l].old_array /\ resizes'[l].old_entries = resizes[l].old_entries
        BY <3>1, <1>3, <1>4 DEF f
      <3> QED BY <3>2, <2>2 DEF Pair
    <2> QED BY <2>1, <2>2
  <1>11. ASSUME NEW x \in Carried, x # src PROVE x \in Carried' /\ Pair(x)' = Pair(x)
    <2>1. /\ x = <<x[1], x[2], x[3]>> /\ x[1] \in Nat /\ x[3] \in Nat
          /\ x[2] \in {"call", "array", "entries"} /\ Carries(x[1], x[2], x[3])
      BY CarriedIs
    <2>2. ~(x[1] = n /\ x[2] = src[2] /\ x[3] = i)
      BY <2>1, <1>2, <1>11
    <2>3. Carries(x[1], x[2], x[3])'
      BY <2>1, <2>2, <1>9
    <2>4. ~(x[1] = Level /\ x[2] = "call" /\ x[3] = 0)
      BY <2>1, <1>6 DEF Carries
    <2>5. Pair(<<x[1], x[2], x[3]>>)' = Pair(<<x[1], x[2], x[3]>>)
      BY <2>1, <2>4, <1>10
    <2>6. <<x[1], x[2], x[3]>> \in Carried'
      BY <2>1, <2>3, CarriedPrime
    <2> QED BY <2>1, <2>5, <2>6
  <1>12. ASSUME NEW x \in Carried', x # top PROVE x \in Carried /\ x # src
    <2>1. /\ x = <<x[1], x[2], x[3]>> /\ x[1] \in Nat /\ x[3] \in Nat
          /\ x[2] \in {"call", "array", "entries"} /\ Carries(x[1], x[2], x[3])'
      BY CarriedPrime
    <2>2. ~(x[1] = Level /\ x[2] = "call" /\ x[3] = 0)
      BY <2>1, <1>12
    <2>3. Carries(x[1], x[2], x[3]) /\ ~(x[1] = n /\ x[2] = src[2] /\ x[3] = i)
      BY <2>1, <2>2, <1>9
    <2>4. <<x[1], x[2], x[3]>> \in Carried
      BY <2>1, <2>3, CarriedIs
    <2> QED BY <2>1, <2>3, <2>4
  <1>13. top \in Carried' /\ Pair(top)' = Pair(src) /\ top \notin Carried
    <2> PICK l \in Nat : l = Level
      BY <1>1, <1>5
    <2>1. Carries(l, "call", 0)'
      BY <1>9
    <2>2. <<l, "call", 0>> \in Carried'
      BY <2>1, CarriedPrime
    <2>3. Pair(<<l, "call", 0>>)' = CallAt(l)'
      BY DEF Pair
    <2>4. CallAt(l)' = call'
      BY <1>5 DEF CallAt
    <2>5. ~Carries(l, "call", 0)
      BY <1>6, CarriesIs
    <2>6. <<l, "call", 0>> \notin Carried
      BY <2>5, CarriedIs
    <2>7. Level' = l
      BY <1>5
    <2> QED BY <2>2, <2>3, <2>4, <2>6, <2>7
  <1>14. CallAt(1)' = CallAt(1)
    BY <1>6, <1>1
  <1> QED BY <1>11, <1>12, <1>13, <1>14

\* Nothing is on its way elsewhere when the first loop ends or table_resize returns.
LEMMA CarriedCut ==
  ASSUME TypeInv, resizes # <<>>, call = Empty, call' = Empty,
         resizes[Len(resizes)].loop = "array", Vanishing(resizes[Len(resizes)]) = {},
         NEW g, g.loop = "entries", g.i = 0, g.call = resizes[Len(resizes)].call,
         g.old_entries = resizes[Len(resizes)].old_entries,
         resizes' = [resizes EXCEPT ![Len(resizes)] = g]
  PROVE  /\ \A x : x \in Carried' <=> x \in Carried
         /\ \A x \in Carried : Pair(x)' = Pair(x)
         /\ CallAt(1)' = CallAt(1)
  <1> PICK n : n = Len(resizes)
    OBVIOUS
  <1> PICK f : f = resizes[n]
    OBVIOUS
  <1>1. /\ n \in Nat \ {0} /\ resizes \in Seq(Frame) /\ DOMAIN resizes = 1 .. n /\ f \in Frame
        /\ n \in DOMAIN resizes
    BY DEF TypeInv
  <1>2. /\ Len(resizes') = n /\ DOMAIN resizes' = 1 .. n
        /\ \A l \in 1 .. n : l # n => resizes'[l] = resizes[l]
        /\ resizes'[n] = g
    BY <1>1
  <1>3. /\ resizes'[n].loop = "entries" /\ resizes'[n].i = 0
        /\ resizes'[n].old_entries = f.old_entries /\ resizes'[n].call = f.call
    BY <1>1, <1>2 DEF Frame
  <1>4. Level = n + 1 /\ Level' = n + 1
    BY <1>2 DEF Level
  <1>5. \A l \in 1 .. (n + 1) : CallAt(l)' = CallAt(l)
    <2>1. \A l \in 1 .. n : resizes'[l].call = resizes[l].call
      BY <1>2, <1>3
    <2> QED BY <2>1, <1>1, <1>4 DEF CallAt
  <1>6. ASSUME NEW l \in Nat, NEW j \in Nat, NEW where \in {"call", "array", "entries"}
        PROVE  /\ Carries(l, where, j)' <=> Carries(l, where, j)
               /\ Carries(l, where, j) => Pair(<<l, where, j>>)' = Pair(<<l, where, j>>)
    <2>1. CASE where = "call"
      <3>1. l \in 2 .. (n + 1) => CallAt(l)' = CallAt(l)
        BY <1>1, <1>5
      <3>2. Carries(l, "call", j)' <=> Carries(l, "call", j)
        BY <3>1, <1>4, CarriesIs
      <3>3. Carries(l, "call", j) => Pair(<<l, where, j>>)' = Pair(<<l, where, j>>)
        BY <3>1, <2>1, <1>4, CarriesIs DEF Pair
      <3> QED BY <3>2, <3>3, <2>1
    <2>2. CASE where # "call" /\ l # n
      <3>1. l \in DOMAIN resizes <=> l \in DOMAIN resizes'
        BY <1>1, <1>2
      <3>2. l \in DOMAIN resizes => resizes'[l] = resizes[l]
        BY <2>2, <1>1, <1>2
      <3>3. Carries(l, where, j)' <=> Carries(l, where, j)
        BY <3>1, <3>2, <2>2, CarriesIs
      <3>4. Carries(l, where, j) => l \in DOMAIN resizes
        BY <2>2, CarriesIs
      <3> QED BY <3>2, <3>3, <3>4, <2>2 DEF Pair
    <2>3. CASE where = "array" /\ l = n
      <3>1. ~Carries(n, "array", j)
        BY CarriesIs
      <3>2. ~Carries(n, "array", j)'
        BY <1>3, CarriesIs
      <3> QED BY <3>1, <3>2, <2>3
    <2>4. CASE where = "entries" /\ l = n
      <3>1. \A i \in DOMAIN f.old_entries : i > 0
        BY <1>1, FramesAre
      <3>2. Carries(n, "entries", j) <=> j \in DOMAIN f.old_entries /\ f.old_entries[j].value # Nil
        BY <1>1, CarriesIs
      <3>3. Carries(n, "entries", j)' <=> j \in DOMAIN f.old_entries /\ f.old_entries[j].value # Nil
        BY <1>1, <1>2, <1>3, <3>1, CarriesIs
      <3>4. Pair(<<l, where, j>>)' = Pair(<<l, where, j>>)
        BY <2>4, <1>3 DEF Pair
      <3> QED BY <3>2, <3>3, <3>4, <2>4
    <2> QED BY <2>1, <2>2, <2>3, <2>4
  <1>7. ASSUME NEW x \in Carried PROVE x \in Carried' /\ Pair(x)' = Pair(x)
    <2>1. /\ x = <<x[1], x[2], x[3]>> /\ x[1] \in Nat /\ x[3] \in Nat
          /\ x[2] \in {"call", "array", "entries"} /\ Carries(x[1], x[2], x[3])
      BY CarriedIs
    <2>2. Carries(x[1], x[2], x[3])' /\ Pair(<<x[1], x[2], x[3]>>)' = Pair(<<x[1], x[2], x[3]>>)
      BY <2>1, <1>6
    <2>3. <<x[1], x[2], x[3]>> \in Carried'
      BY <2>1, <2>2, CarriedPrime
    <2> QED BY <2>1, <2>2, <2>3
  <1>8. ASSUME NEW x \in Carried' PROVE x \in Carried
    <2>1. /\ x = <<x[1], x[2], x[3]>> /\ x[1] \in Nat /\ x[3] \in Nat
          /\ x[2] \in {"call", "array", "entries"} /\ Carries(x[1], x[2], x[3])'
      BY CarriedPrime
    <2>2. <<x[1], x[2], x[3]>> \in Carried
      BY <2>1, <1>6, CarriedIs
    <2> QED BY <2>1, <2>2
  <1>9. CallAt(1)' = CallAt(1)
    BY <1>5, <1>1
  <1> QED BY <1>7, <1>8, <1>9

LEMMA CarriedReturn ==
  ASSUME TypeInv, resizes # <<>>, call = Empty, call' = resizes[Len(resizes)].call,
         resizes[Len(resizes)].loop = "entries", Waiting(resizes[Len(resizes)]) = {},
         resizes' = SubSeq(resizes, 1, Len(resizes) - 1)
  PROVE  /\ \A x : x \in Carried' <=> x \in Carried
         /\ \A x \in Carried : Pair(x)' = Pair(x)
         /\ CallAt(1)' = CallAt(1)
  <1> PICK n : n = Len(resizes)
    OBVIOUS
  <1>1. /\ n \in Nat \ {0} /\ resizes \in Seq(Frame) /\ DOMAIN resizes = 1 .. n
    BY DEF TypeInv
  <1>2. /\ Len(resizes') = n - 1 /\ DOMAIN resizes' = 1 .. (n - 1)
        /\ \A l \in 1 .. (n - 1) : resizes'[l] = resizes[l]
    BY <1>1
  <1>3. Level = n + 1 /\ Level' = n
    BY <1>1, <1>2 DEF Level
  <1>4. \A l \in 1 .. n : CallAt(l)' = CallAt(l)
    BY <1>1, <1>2, <1>3 DEF CallAt
  <1>5. CallAt(n + 1) = Empty
    BY <1>3 DEF CallAt
  <1>6. ASSUME NEW l \in Nat, NEW j \in Nat, NEW where \in {"call", "array", "entries"}
        PROVE  /\ Carries(l, where, j)' <=> Carries(l, where, j)
               /\ Carries(l, where, j) => Pair(<<l, where, j>>)' = Pair(<<l, where, j>>)
    <2>1. CASE where = "call"
      <3>1. l \in 2 .. n => CallAt(l)' = CallAt(l)
        BY <1>1, <1>4
      <3>2. l \in 2 .. (n + 1) /\ CallAt(l) # Empty => l \in 2 .. n
        BY <1>1, <1>5
      <3>3. Carries(l, "call", j)' <=> Carries(l, "call", j)
        BY <3>1, <3>2, <1>1, <1>3, CarriesIs
      <3>4. Carries(l, "call", j) => Pair(<<l, where, j>>)' = Pair(<<l, where, j>>)
        BY <3>1, <3>2, <2>1, <1>3, CarriesIs DEF Pair
      <3> QED BY <3>3, <3>4, <2>1
    <2>2. CASE where # "call" /\ l # n
      <3>1. l \in DOMAIN resizes <=> l \in DOMAIN resizes'
        BY <2>2, <1>1, <1>2
      <3>2. l \in DOMAIN resizes => resizes'[l] = resizes[l]
        BY <2>2, <1>1, <1>2
      <3>3. Carries(l, where, j)' <=> Carries(l, where, j)
        BY <3>1, <3>2, <2>2, CarriesIs
      <3>4. Carries(l, where, j) => l \in DOMAIN resizes
        BY <2>2, CarriesIs
      <3> QED BY <3>2, <3>3, <3>4, <2>2 DEF Pair
    <2>3. CASE where # "call" /\ l = n
      <3>1. ~Carries(l, where, j)
        BY <2>3, CarriesIs DEF Waiting
      <3>2. ~Carries(l, where, j)'
        BY <2>3, <1>1, <1>2, CarriesIs
      <3> QED BY <3>1, <3>2
    <2> QED BY <2>1, <2>2, <2>3
  <1>7. ASSUME NEW x \in Carried PROVE x \in Carried' /\ Pair(x)' = Pair(x)
    <2>1. /\ x = <<x[1], x[2], x[3]>> /\ x[1] \in Nat /\ x[3] \in Nat
          /\ x[2] \in {"call", "array", "entries"} /\ Carries(x[1], x[2], x[3])
      BY CarriedIs
    <2>2. Carries(x[1], x[2], x[3])' /\ Pair(<<x[1], x[2], x[3]>>)' = Pair(<<x[1], x[2], x[3]>>)
      BY <2>1, <1>6
    <2>3. <<x[1], x[2], x[3]>> \in Carried'
      BY <2>1, <2>2, CarriedPrime
    <2> QED BY <2>1, <2>2, <2>3
  <1>8. ASSUME NEW x \in Carried' PROVE x \in Carried
    <2>1. /\ x = <<x[1], x[2], x[3]>> /\ x[1] \in Nat /\ x[3] \in Nat
          /\ x[2] \in {"call", "array", "entries"} /\ Carries(x[1], x[2], x[3])'
      BY CarriedPrime
    <2>2. <<x[1], x[2], x[3]>> \in Carried
      BY <2>1, <1>6, CarriedIs
    <2> QED BY <2>1, <2>2
  <1>9. CallAt(1)' = CallAt(1)
    BY <1>4, <1>1
  <1> QED BY <1>7, <1>8, <1>9

-----------------------------------------------------------------------------
(* Types *)

LEMMA FrameStays ==
  ASSUME NEW f, FrameInv(f), phase' # "UNDEFINED" => phase # "UNDEFINED" /\ Len(t'.array) = Len(t.array)
  PROVE  FrameInv(f)'
  BY DEF FrameInv

LEMMA TypeAssign ==
  ASSUME TypeInv, NEW k \in Key, NEW v \in Stored[k] \cup {Nil}, Assign(k, v)
  PROVE  TypeInv'
  <1>1. /\ UNCHANGED <<t, resizes, rehashes, phase, cursor, seen, twice, calm>>
        /\ map' = [map EXCEPT ![k] = v] /\ call' = [key |-> k, value |-> v]
        /\ stayed' \subseteq stayed /\ resizes = <<>> /\ phase \notin {"hung", "UNDEFINED"}
    BY DEF Assign, Ready
  <1>2. v \in Slot
    BY TableAssumption DEF Slot
  <1>3. map' \in [Key -> Slot]
    BY <1>1, <1>2 DEF TypeInv
  <1>4. call' \in Entry /\ call'.key # Nil
    BY <1>1, <1>2, KeysAre DEF Entry, Slot
  <1>5. Shape(t)' /\ resizes' \in Seq(Frame) /\ DOMAIN resizes' = {}
    BY <1>1 DEF TypeInv, Shape
  <1> QED BY <1>1, <1>3, <1>4, <1>5 DEF TypeInv

LEMMA CallIs ==
  ASSUME TypeInv, call # Empty
  PROVE  call \in Entry /\ call.key \in Key /\ call.key # Nil /\ call.value \in Slot
         /\ phase \notin {"hung", "UNDEFINED"}
  <1>1. call \in Entry /\ (call.key = Nil => call = Empty)
    BY DEF TypeInv
  <1>2. call.key # Nil /\ call.key \in Key /\ call.value \in Slot
    BY <1>1 DEF Entry, Slot
  <1> QED BY <1>1, <1>2 DEF TypeInv

LEMMA TypeStore ==
  ASSUME TypeInv, Store
  PROVE  TypeInv'
  <1>1. /\ call # Empty /\ HasRoom(t, call.key) /\ t' = Put(t, call) /\ call' = Empty
        /\ rehashes' \in {0, rehashes}
        /\ UNCHANGED <<map, resizes, phase, cursor, seen, twice, stayed, calm>>
    BY DEF Store, walking
  <1>2. Shape(t) /\ call \in Entry /\ call.key \in Key /\ call.key # Nil
    BY <1>1, CallIs DEF TypeInv
  <1>3. Shape(t') /\ Len(t'.array) = Len(t.array)
    BY <1>1, <1>2, PutReads
  <1>4. Shape(t)'
    BY <1>3 DEF Shape, Table, EntryInv, InArray, Used, Live, table_get_entry, Hashed, find_entry, Ends
  <1>5. ASSUME NEW l \in DOMAIN resizes' PROVE FrameInv(resizes[l])'
    <2>1. FrameInv(resizes[l])
      BY <1>1 DEF TypeInv
    <2>2. PICK f : f = resizes[l]
      OBVIOUS
    <2>3. FrameInv(f)'
      BY <2>1, <2>2, <1>1, <1>3, FrameStays
    <2> QED BY <2>2, <2>3, <1>1
  <1>6. Empty \in Entry
    BY DEF Empty, Entry
  <1> QED BY <1>1, <1>4, <1>5, <1>6 DEF TypeInv

\* The frame that Rehash adds.
NewFrame ==
  LET sizes   == RehashSizes(t, call.key)
      shrinks == Shrinks(t, sizes.n_array)
  IN  [old_array |-> IF shrinks THEN t.array ELSE <<>>,
       old_entries |-> t.entries,
       n_hash |-> sizes.n_hash, n_array |-> sizes.n_array,
       loop |-> IF shrinks THEN "array" ELSE "entries",
       i |-> IF shrinks THEN sizes.n_array ELSE 0,
       call |-> call, nth |-> rehashes + 1]

LEMMA SizesAllowed ==
  ASSUME NEW tab, Shape(tab), NEW k
  PROVE  LET n_array == RehashSizes(tab, k).n_array
         IN  n_array > Len(tab.array) => Len(tab.array) <= table_next_size(n_array, ARRAY_MIN)
  <1> DEFINE n == RehashSizes(tab, k).n_array
  <1>1. tab \in Table
    BY DEF Shape
  <1>2. n \in Nat /\ (n = 0 \/ \E bit \in Nat : n = Pow2[bit])
    BY <1>1, RehashSizesAre
  <1>3. Len(tab.array) \in Nat /\ ARRAY_MIN \in Nat
    BY <1>1, ArrayIs, TableAssumption
  <1> HIDE DEF n
  <1>4. n \in Int
    BY <1>2
  <1>5. CASE n = 0
    BY <1>5, <1>3 DEF n
  <1>6. CASE \E bit \in Nat : n = Pow2[bit]
    <2>1. n <= table_next_size(n, ARRAY_MIN)
      BY <1>3, <1>4, <1>6, NextSizeIs
    <2>2. table_next_size(n, ARRAY_MIN) \in Nat
      BY <1>3, <1>4, NextSizeType
    <2> QED BY <2>1, <2>2, <1>2, <1>3 DEF n
  <1> QED BY <1>2, <1>5, <1>6

LEMMA RehashIs ==
  ASSUME TypeInv, Rehash
  PROVE  /\ call # Empty /\ call.key \in Key /\ call' = Empty
         /\ resizes' = Append(resizes, NewFrame) /\ NewFrame \in Frame
         /\ NewFrame.call = call /\ NewFrame.nth = rehashes + 1
         /\ NewFrame.old_entries = t.entries
         /\ NewFrame.i = IF NewFrame.loop = "array" THEN NewFrame.n_array ELSE 0
         /\ NewFrame.loop = IF Shrinks(t, NewFrame.n_array) THEN "array" ELSE "entries"
         /\ NewFrame.loop = "array" => NewFrame.old_array = t.array
         /\ NewFrame.n_hash = RehashSizes(t, call.key).n_hash
         /\ NewFrame.n_array = RehashSizes(t, call.key).n_array
         /\ (NewFrame.n_array = 0 \/ \E bit \in Nat : NewFrame.n_array = Pow2[bit])
         /\ Shape(t') /\ IsEmptied(t', t, NewFrame.n_hash, NewFrame.n_array)
         /\ \A k \in Key :
              table_get(t', k) = IF InArray(t, k) /\ (NewFrame.loop = "array" => k <= NewFrame.n_array)
                                 THEN table_get(t, k) ELSE Nil
         /\ UNCHANGED <<map, cursor, seen, twice, stayed>>
         /\ calm' = FALSE /\ rehashes' = rehashes + 1
         /\ phase \notin {"hung", "UNDEFINED"} /\ phase' \in {phase, "UNDEFINED"}
         /\ phase' # "UNDEFINED" => Moving = {} \/ Len(t'.array) = Len(t.array)
  <1> PICK s : s = RehashSizes(t, call.key)
    OBVIOUS
  <1>1. /\ call # Empty /\ call' = Empty /\ resizes' = Append(resizes, NewFrame)
        /\ t' = Emptied(t, s.n_hash, s.n_array)
        /\ UNCHANGED <<map, cursor, seen, twice, stayed>>
        /\ calm' = FALSE /\ rehashes' = rehashes + 1
        /\ phase' = IF Moving # {} /\ Len(t'.array) # Len(t.array) THEN "UNDEFINED" ELSE phase
    BY DEF Rehash, NewFrame, walking
  <1>2. Shape(t) /\ call \in Entry /\ call.key \in Key /\ phase \notin {"hung", "UNDEFINED"}
    BY <1>1, CallIs DEF TypeInv
  <1>3. t \in Table /\ Len(t.entries) > 0
    BY <1>2 DEF Shape
  <1>4. /\ s.n_hash \in Int /\ s.n_array \in Nat
        /\ (s.n_array = 0 \/ \E bit \in Nat : s.n_array = Pow2[bit])
    BY <1>3, RehashSizesAre
  <1>5. s.n_array > Len(t.array) => Len(t.array) <= table_next_size(s.n_array, ARRAY_MIN)
    BY <1>2, SizesAllowed
  <1>6. IsEmptied(t', t, s.n_hash, s.n_array)
    BY <1>1, <1>3, <1>4, <1>5, EmptiedIs
  <1>7. /\ Shape(t')
        /\ \A k \in Key :
             table_get(t', k) = IF InArray(t, k) /\ (Shrinks(t, s.n_array) => k <= s.n_array)
                                THEN table_get(t, k) ELSE Nil
    BY <1>1, <1>2, <1>4, <1>5, EmptiedReads
  <1>8. /\ NewFrame.call = call /\ NewFrame.old_entries = t.entries /\ NewFrame.nth = rehashes + 1
        /\ NewFrame.i = IF NewFrame.loop = "array" THEN NewFrame.n_array ELSE 0
        /\ NewFrame.loop = IF Shrinks(t, NewFrame.n_array) THEN "array" ELSE "entries"
        /\ NewFrame.old_array = IF Shrinks(t, s.n_array) THEN t.array ELSE <<>>
        /\ NewFrame.n_hash = s.n_hash /\ NewFrame.n_array = s.n_array
    BY DEF NewFrame
  <1>9. NewFrame \in Frame
    <2>1. t.array \in Seq(Slot) /\ t.entries \in Seq(Entry) /\ <<>> \in Seq(Slot)
      BY <1>3 DEF Table
    <2>2. NewFrame.old_array \in Seq(Slot) /\ NewFrame.loop \in {"array", "entries"} /\ NewFrame.i \in Nat
      BY <1>4, <1>8, <2>1
    <2>3. NewFrame = [old_array |-> NewFrame.old_array, old_entries |-> NewFrame.old_entries,
                      n_hash |-> NewFrame.n_hash, n_array |-> NewFrame.n_array,
                      loop |-> NewFrame.loop, i |-> NewFrame.i, call |-> NewFrame.call,
                      nth |-> NewFrame.nth]
      BY DEF NewFrame
    <2>4. NewFrame.nth \in Nat
      <3>1. rehashes \in Nat
        BY DEF TypeInv
      <3> QED BY <3>1, <1>8
    <2> QED BY <2>1, <2>2, <2>3, <2>4, <1>2, <1>4, <1>8 DEF Frame
  <1>10. \A k \in Key :
           table_get(t', k) = IF InArray(t, k) /\ (NewFrame.loop = "array" => k <= NewFrame.n_array)
                              THEN table_get(t, k) ELSE Nil
    BY <1>7, <1>8
  <1>11. NewFrame.loop = "array" => NewFrame.old_array = t.array
    BY <1>8
  <1>12. phase' \in {phase, "UNDEFINED"} /\ (phase' # "UNDEFINED" => Moving = {} \/ Len(t'.array) = Len(t.array))
    BY <1>1
  <1> HIDE DEF NewFrame
  <1> QED BY <1>1, <1>2, <1>4, <1>6, <1>7, <1>8, <1>9, <1>10, <1>11, <1>12

LEMMA TypeRehash ==
  ASSUME TypeInv, Rehash
  PROVE  TypeInv'
  <1> PICK f : f = NewFrame
    OBVIOUS
  <1>1. /\ call' = Empty /\ resizes' = Append(resizes, f) /\ f \in Frame
        /\ f.call = call /\ f.old_entries = t.entries
        /\ f.loop = IF Shrinks(t, f.n_array) THEN "array" ELSE "entries"
        /\ f.loop = "array" => f.old_array = t.array
        /\ (f.n_array = 0 \/ \E bit \in Nat : f.n_array = Pow2[bit])
        /\ Shape(t') /\ IsEmptied(t', t, f.n_hash, f.n_array)
        /\ UNCHANGED <<map, cursor, seen, twice, stayed>>
        /\ calm' = FALSE /\ rehashes' = rehashes + 1
        /\ phase \notin {"hung", "UNDEFINED"} /\ phase' \in {phase, "UNDEFINED"}
        /\ phase' # "UNDEFINED" => Moving = {} \/ Len(t'.array) = Len(t.array)
        /\ call # Empty
    BY RehashIs
  <1>2. Shape(t) /\ resizes \in Seq(Frame) /\ \A l \in DOMAIN resizes : FrameInv(resizes[l])
    BY DEF TypeInv
  <1>3. Shape(t)'
    BY <1>1 DEF Shape, Table, EntryInv, InArray, Used, Live, table_get_entry, Hashed, find_entry, Ends
  <1>4. /\ resizes' \in Seq(Frame) /\ DOMAIN resizes' = 1 .. (Len(resizes) + 1) /\ Len(resizes) \in Nat
        /\ DOMAIN resizes = 1 .. Len(resizes)
        /\ \A l \in DOMAIN resizes : resizes'[l] = resizes[l]
        /\ resizes'[Len(resizes) + 1] = f
    BY <1>1, <1>2
  <1>5. FrameInv(f)'
    <2>1. f.call.key # Nil
      BY <1>1, CallIs
    <2>2. \A i \in DOMAIN f.old_entries : f.old_entries[i].value # Nil => f.old_entries[i].key # Nil
      BY <1>1, <1>2 DEF Shape, EntryInv, Empty
    <2>3. ASSUME f.loop = "array"
          PROVE  /\ Live(f.old_array) \subseteq Index
                 /\ f.n_array > ARRAY_MIN /\ \E bit \in Nat : f.n_array = Pow2[bit]
                 /\ Len(t'.array) = f.n_array
      <3>1. Shrinks(t, f.n_array) /\ f.old_array = t.array
        BY <2>3, <1>1
      <3>2. f.n_array > ARRAY_MIN /\ f.n_array < Len(t.array)
        BY <3>1 DEF Shrinks
      <3>3. ARRAY_MIN \in Nat /\ f.n_array \in Nat /\ Len(t.array) \in Nat
        BY <1>1, <1>2, ArrayIs, TableAssumption DEF Frame, Shape
      <3>4. f.n_array # 0
        BY <3>2, <3>3
      <3>5. Len(t'.array) = f.n_array
        BY <3>1, <3>2, <3>3, <1>1 DEF IsEmptied
      <3> QED BY <3>1, <3>2, <3>4, <3>5, <1>1, <1>2 DEF Shape
    <2> QED BY <2>1, <2>2, <2>3 DEF FrameInv
  <1>6. ASSUME NEW l \in DOMAIN resizes PROVE FrameInv(resizes[l])'
    <2> PICK g : g = resizes[l]
      OBVIOUS
    <2>1. FrameInv(g)
      BY <1>2
    <2>2. FrameInv(g)'
      <3>1. CASE g.loop = "array"
        <4>1. l \in Moving
          BY <3>1 DEF Moving
        <4> QED BY <4>1, <1>1, <2>1, FrameStays
      <3>2. CASE g.loop # "array"
        BY <3>2, <2>1 DEF FrameInv
      <3> QED BY <3>1, <3>2
    <2> QED BY <2>2, <1>4
  <1>7. \A l \in DOMAIN resizes' : FrameInv(resizes[l])'
    <2> SUFFICES ASSUME NEW l \in DOMAIN resizes' PROVE FrameInv(resizes[l])'
      OBVIOUS
    <2>1. CASE l \in DOMAIN resizes
      BY <2>1, <1>4, <1>6
    <2>2. CASE l = Len(resizes) + 1
      <3>1. resizes'[l] = f
        BY <2>2, <1>4
      <3> QED BY <3>1, <1>5
    <2> QED BY <2>1, <2>2, <1>4
  <1>8. Empty \in Entry
    BY DEF Empty, Entry
  <1>9. rehashes' \in Nat
    BY <1>1 DEF TypeInv
  <1> QED BY <1>1, <1>3, <1>4, <1>7, <1>8, <1>9 DEF TypeInv

\* The pair that a turn of a loop of table_resize takes.
LEMMA MoveIs ==
  ASSUME TypeInv, MoveElement \/ InsertEntry,
         NEW src, src = <<Len(resizes), Innermost.loop,
                          IF Innermost.loop = "array" THEN Least(Vanishing(Innermost)) ELSE Least(Waiting(Innermost))>>
  PROVE  /\ src \in Carried /\ call' = Pair(src) /\ Pair(src) # Empty
         /\ Pair(src).key \in Key /\ Pair(src).value \in Value
         /\ resizes # <<>> /\ call = Empty /\ phase # "UNDEFINED"
         /\ src[1] = Len(resizes) /\ src[2] \in {"array", "entries"}
         /\ src[2] = resizes[Len(resizes)].loop
         /\ src[2] = "array" => src[3] = Least(Vanishing(resizes[Len(resizes)]))
         /\ src[2] = "entries" => src[3] = Least(Waiting(resizes[Len(resizes)]))
         /\ resizes' = [resizes EXCEPT ![Len(resizes)].i = src[3]]
         /\ UNCHANGED <<map, t, rehashes, phase, cursor, seen, twice, stayed, calm>>
  <1> PICK n : n = Len(resizes)
    OBVIOUS
  <1> PICK f : f = resizes[n]
    OBVIOUS
  <1>1. resizes # <<>> /\ call = Empty /\ phase # "UNDEFINED" /\ Innermost = f
        /\ UNCHANGED <<map, t, rehashes, phase, cursor, seen, twice, stayed, calm>>
    BY DEF MoveElement, InsertEntry, Resizing, walking, Innermost
  <1>2. n \in DOMAIN resizes /\ n \in Nat
    BY <1>1, LevelIs
  <1>3. /\ f \in Frame /\ FrameInv(f) /\ f.old_array \in Seq(Slot) /\ f.old_entries \in Seq(Entry)
        /\ DOMAIN f.old_array \subseteq Nat \ {0} /\ DOMAIN f.old_entries \subseteq Nat \ {0}
    BY <1>2, FramesAre
  <1>4. CASE MoveElement
    <2>1. /\ f.loop = "array" /\ Vanishing(f) # {}
          /\ call' = [key |-> Least(Vanishing(f)), value |-> f.old_array[Least(Vanishing(f))]]
          /\ resizes' = [resizes EXCEPT ![n].i = Least(Vanishing(f))]
      BY <1>1, <1>4 DEF MoveElement, Resizing
    <2> PICK i : i = Least(Vanishing(f))
      OBVIOUS
    <2>2. Vanishing(f) \subseteq Nat
      BY <1>3 DEF Vanishing, Live
    <2>3. i \in Vanishing(f)
      BY <2>1, <2>2, LeastIs
    <2>4. i \in DOMAIN f.old_array /\ f.old_array[i] # Nil /\ i \in Index
      BY <2>3, <2>1, <1>3 DEF Vanishing, Live, FrameInv
    <2>5. f.old_array[i] \in Value
      BY <2>4, <1>3 DEF Slot
    <2>6. src = <<n, "array", i>>
      BY <2>1, <1>1
    <2>7. Carries(n, "array", i)
      BY <2>1, <2>3, <1>2, CarriesIs
    <2>8. src \in Carried
      BY <2>6, <2>7, <2>2, <2>3, <1>2, CarriedIs
    <2>9. Pair(src) = [key |-> i, value |-> f.old_array[i]]
      BY <2>6 DEF Pair
    <2>10. i \in Key /\ i # Nil
      BY <2>4, KeysAre
    <2> QED BY <2>1, <2>5, <2>6, <2>8, <2>9, <2>10, <1>1 DEF Empty
  <1>5. CASE InsertEntry
    <2>1. /\ f.loop = "entries" /\ Waiting(f) # {}
          /\ call' = f.old_entries[Least(Waiting(f))]
          /\ resizes' = [resizes EXCEPT ![n].i = Least(Waiting(f))]
      BY <1>1, <1>5 DEF InsertEntry, Resizing
    <2> PICK i : i = Least(Waiting(f))
      OBVIOUS
    <2>2. Waiting(f) \subseteq Nat
      BY <1>3 DEF Waiting
    <2>3. i \in Waiting(f)
      BY <2>1, <2>2, LeastIs
    <2>4. i \in DOMAIN f.old_entries /\ f.old_entries[i].value # Nil /\ f.old_entries[i].key # Nil
      BY <2>3, <1>3 DEF Waiting, FrameInv
    <2>5. f.old_entries[i] \in Entry
      BY <2>4, <1>3
    <2>6. src = <<n, "entries", i>>
      BY <2>1, <1>1
    <2>7. Carries(n, "entries", i)
      BY <2>1, <2>3, <1>2, CarriesIs DEF Waiting
    <2>8. src \in Carried
      BY <2>6, <2>7, <2>2, <2>3, <1>2, CarriedIs
    <2>9. Pair(src) = f.old_entries[i]
      BY <2>6 DEF Pair
    <2>10. Pair(src).key \in Key /\ Pair(src).value \in Value /\ Pair(src) # Empty
      BY <2>4, <2>5, <2>9 DEF Entry, Empty
    <2>11. src[1] = n /\ src[2] = "entries" /\ src[3] = i
      BY <2>6
    <2>12. resizes' = [resizes EXCEPT ![Len(resizes)].i = src[3]]
      BY <2>1, <2>11
    <2>13. src[2] = resizes[Len(resizes)].loop /\ src[3] = Least(Waiting(resizes[Len(resizes)]))
      BY <2>1, <2>11
    <2>14. call' = Pair(src)
      BY <2>1, <2>9
    <2> QED BY <2>8, <2>10, <2>11, <2>12, <2>13, <2>14, <1>1
  <1> QED BY <1>4, <1>5

LEMMA TypeMove ==
  ASSUME TypeInv, MoveElement \/ InsertEntry
  PROVE  TypeInv'
  <1> PICK src : src = <<Len(resizes), Innermost.loop,
                         IF Innermost.loop = "array" THEN Least(Vanishing(Innermost)) ELSE Least(Waiting(Innermost))>>
    OBVIOUS
  <1>1. /\ src \in Carried /\ call' = Pair(src)
        /\ Pair(src).key \in Key /\ resizes # <<>> /\ phase # "UNDEFINED"
        /\ resizes' = [resizes EXCEPT ![Len(resizes)].i = src[3]]
        /\ UNCHANGED <<map, t, rehashes, phase, cursor, seen, twice, stayed, calm>>
    BY MoveIs
  <1> PICK n : n = Len(resizes)
    OBVIOUS
  <1> PICK f : f = resizes[n]
    OBVIOUS
  <1>2. n \in DOMAIN resizes /\ n \in Nat /\ resizes \in Seq(Frame) /\ f \in Frame /\ DOMAIN resizes = 1 .. n
    BY <1>1, FramesAre, LevelIs DEF TypeInv
  <1>3. Pair(src) \in Entry /\ Pair(src).key # Nil /\ src[3] \in Nat
    BY <1>1, CarriedTypes, CarriedIs, KeysAre
  <1> PICK g : g = [f EXCEPT !.i = src[3]]
    OBVIOUS
  <1>4. g \in Frame /\ g.call = f.call /\ g.old_entries = f.old_entries /\ g.loop = f.loop
        /\ g.old_array = f.old_array /\ g.n_array = f.n_array
    BY <1>2, <1>3 DEF Frame
  <1>5. resizes' = [resizes EXCEPT ![n] = g]
    BY <1>1
  <1>6. resizes' \in Seq(Frame) /\ DOMAIN resizes' = 1 .. n
    BY <1>2, <1>4, <1>5
  <1>7. ASSUME NEW l \in DOMAIN resizes' PROVE FrameInv(resizes[l])'
    <2> PICK h : h = resizes[l]
      OBVIOUS
    <2>1. FrameInv(h)
      BY <1>2, <1>6 DEF TypeInv
    <2>2. FrameInv(h)'
      BY <2>1, <1>1, FrameStays
    <2>3. CASE l # n
      <3>1. resizes'[l] = h
        BY <2>3, <1>2, <1>5, <1>6
      <3> QED BY <3>1, <2>2
    <2>4. CASE l = n
      <3>1. resizes'[l] = g
        BY <2>4, <1>2, <1>5
      <3>2. h = f
        BY <2>4
      <3>3. FrameInv(g)'
        BY <3>2, <2>2, <1>4 DEF FrameInv
      <3> QED BY <3>1, <3>3
    <2> QED BY <2>3, <2>4
  <1>8. Shape(t)'
    BY <1>1 DEF TypeInv, Shape
  <1> HIDE DEF TypeInv
  <1>9. /\ phase \in {"idle", "walk", "done", "error", "hung", "UNDEFINED"}
        /\ phase # "hung" /\ map \in [Key -> Slot] /\ rehashes \in Nat
        /\ cursor \in Key \cup {Nil} /\ seen \subseteq Key /\ stayed \subseteq Key
        /\ twice \in BOOLEAN /\ calm \in BOOLEAN
    BY <1>1 DEF TypeInv
  <1> QED BY <1>1, <1>3, <1>6, <1>7, <1>8, <1>9 DEF TypeInv

\* The array is as long as it is cut to: nothing is allocated.
LEMMA CutIs ==
  ASSUME TypeInv, CutArray
  PROVE  /\ t' = t /\ resizes # <<>> /\ call = Empty /\ call' = Empty /\ phase # "UNDEFINED"
         /\ resizes[Len(resizes)].loop = "array" /\ Vanishing(resizes[Len(resizes)]) = {}
         /\ resizes' = [resizes EXCEPT ![Len(resizes)] =
                          [@ EXCEPT !.loop = "entries", !.i = 0, !.old_array = <<>>]]
         /\ UNCHANGED <<map, rehashes, phase, cursor, seen, twice, stayed, calm>>
  <1> PICK n : n = Len(resizes)
    OBVIOUS
  <1> PICK f : f = resizes[n]
    OBVIOUS
  <1>1. /\ resizes # <<>> /\ call = Empty /\ call' = Empty /\ phase # "UNDEFINED"
        /\ f.loop = "array" /\ Vanishing(f) = {}
        /\ resizes' = [resizes EXCEPT ![Len(resizes)] =
                         [@ EXCEPT !.loop = "entries", !.i = 0, !.old_array = <<>>]]
        /\ t' = table_array_resize(t, f.n_array)
        /\ UNCHANGED <<map, rehashes, phase, cursor, seen, twice, stayed, calm>>
    BY DEF CutArray, Resizing, walking, Innermost
  <1>2. n \in DOMAIN resizes
    BY <1>1, LevelIs
  <1>3. /\ f.n_array \in Nat /\ f.n_array > ARRAY_MIN /\ \E bit \in Nat : f.n_array = Pow2[bit]
        /\ Len(t.array) = f.n_array
    BY <1>1, <1>2, FramesAre DEF FrameInv
  <1>4. table_next_size(f.n_array, ARRAY_MIN) = f.n_array
    <2> PICK size : size = f.n_array
      OBVIOUS
    <2>1. ARRAY_MIN \in Nat /\ size \in Int /\ size >= ARRAY_MIN
      BY <1>3, TableAssumption
    <2>2. PICK bit \in Nat : size = Pow2[bit]
      BY <1>3
    <2>3. table_next_size(size, ARRAY_MIN) = size
      BY <2>1, <2>2, NextSizeIs
    <2> QED BY <2>3
  <1>5. t \in Table
    BY DEF TypeInv, Shape
  <1>6. t.array \in Seq(Slot)
    BY <1>5 DEF Table
  <1>7. [i \in 1 .. f.n_array |-> IF i <= f.n_array THEN t.array[i] ELSE Nil] = t.array
    BY <1>3, <1>6
  <1>8. t' = [t EXCEPT !.array = t.array]
    BY <1>1, <1>3, <1>4, <1>7 DEF table_array_resize
  <1>9. [t EXCEPT !.array = t.array] = t
    BY <1>5 DEF Table
  <1> QED BY <1>1, <1>8, <1>9

LEMMA TypeCut ==
  ASSUME TypeInv, CutArray
  PROVE  TypeInv'
  <1> PICK n : n = Len(resizes)
    OBVIOUS
  <1> PICK f : f = resizes[n]
    OBVIOUS
  <1> PICK g : g = [f EXCEPT !.loop = "entries", !.i = 0, !.old_array = <<>>]
    OBVIOUS
  <1>1. /\ t' = t /\ resizes # <<>> /\ call' = Empty /\ phase # "UNDEFINED"
        /\ resizes' = [resizes EXCEPT ![n] = g]
        /\ UNCHANGED <<map, rehashes, phase, cursor, seen, twice, stayed, calm>>
    BY CutIs
  <1>2. n \in DOMAIN resizes /\ n \in Nat /\ resizes \in Seq(Frame) /\ f \in Frame /\ DOMAIN resizes = 1 .. n
    BY <1>1, FramesAre, LevelIs DEF TypeInv
  <1>3. g \in Frame /\ g.call = f.call /\ g.old_entries = f.old_entries /\ g.loop = "entries"
    <2>1. [f EXCEPT !.loop = "entries"] \in Frame
      BY <1>2 DEF Frame
    <2>2. [f EXCEPT !.loop = "entries", !.i = 0] \in Frame
      BY <2>1 DEF Frame
    <2>3. <<>> \in Seq(Slot)
      OBVIOUS
    <2>4. g \in Frame
      BY <2>2, <2>3 DEF Frame
    <2> QED BY <2>4, <1>2 DEF Frame
  <1>4. resizes' \in Seq(Frame) /\ DOMAIN resizes' = 1 .. n
    BY <1>2, <1>3, <1>1
  <1>5. ASSUME NEW l \in DOMAIN resizes' PROVE FrameInv(resizes[l])'
    <2> PICK h : h = resizes[l]
      OBVIOUS
    <2>1. FrameInv(h)
      BY <1>2, <1>4 DEF TypeInv
    <2>2. FrameInv(h)'
      BY <2>1, <1>1, FrameStays
    <2>3. CASE l # n
      <3>1. resizes'[l] = h
        BY <2>3, <1>1, <1>2, <1>4
      <3> QED BY <3>1, <2>2
    <2>4. CASE l = n
      <3>1. resizes'[l] = g
        BY <2>4, <1>1, <1>2
      <3>2. h = f
        BY <2>4
      <3>3. FrameInv(g)'
        BY <3>2, <2>2, <1>3 DEF FrameInv
      <3> QED BY <3>1, <3>3
    <2> QED BY <2>3, <2>4
  <1>6. Shape(t)'
    BY <1>1 DEF TypeInv, Shape
  <1>7. /\ phase \in {"idle", "walk", "done", "error", "hung", "UNDEFINED"}
        /\ phase # "hung" /\ map \in [Key -> Slot] /\ rehashes \in Nat
        /\ cursor \in Key \cup {Nil} /\ seen \subseteq Key /\ stayed \subseteq Key
        /\ twice \in BOOLEAN /\ calm \in BOOLEAN
    BY <1>1 DEF TypeInv
  <1>8. Empty \in Entry
    BY DEF Empty, Entry
  <1> QED BY <1>1, <1>4, <1>5, <1>6, <1>7, <1>8 DEF TypeInv

LEMMA TypeReturn ==
  ASSUME TypeInv, Return
  PROVE  TypeInv'
  <1> PICK n : n = Len(resizes)
    OBVIOUS
  <1>1. /\ resizes # <<>> /\ phase # "UNDEFINED" /\ call' = resizes[n].call
        /\ resizes' = SubSeq(resizes, 1, n - 1)
        /\ UNCHANGED <<map, t, rehashes, phase, cursor, seen, twice, stayed, calm>>
    BY DEF Return, Resizing, walking, Innermost
  <1>2. n \in DOMAIN resizes /\ n \in Nat /\ resizes \in Seq(Frame) /\ DOMAIN resizes = 1 .. n
    BY <1>1, FramesAre, LevelIs DEF TypeInv
  <1>3. call' \in Entry /\ call'.key # Nil
    BY <1>1, <1>2, FramesAre DEF FrameInv
  <1>4. resizes' \in Seq(Frame) /\ DOMAIN resizes' = 1 .. (n - 1) /\ \A l \in 1 .. (n - 1) : resizes'[l] = resizes[l]
    BY <1>1, <1>2
  <1>5. ASSUME NEW l \in DOMAIN resizes' PROVE FrameInv(resizes[l])'
    <2> PICK h : h = resizes[l]
      OBVIOUS
    <2>1. FrameInv(h)
      BY <1>2, <1>4 DEF TypeInv
    <2>2. FrameInv(h)'
      BY <2>1, <1>1, FrameStays
    <2> QED BY <2>2, <1>4
  <1>6. Shape(t)'
    BY <1>1 DEF TypeInv, Shape
  <1>7. /\ phase \in {"idle", "walk", "done", "error", "hung", "UNDEFINED"}
        /\ phase # "hung" /\ map \in [Key -> Slot] /\ rehashes \in Nat
        /\ cursor \in Key \cup {Nil} /\ seen \subseteq Key /\ stayed \subseteq Key
        /\ twice \in BOOLEAN /\ calm \in BOOLEAN
    BY <1>1 DEF TypeInv
  <1> QED BY <1>1, <1>3, <1>4, <1>5, <1>6, <1>7 DEF TypeInv

\* find_next gives a position, fails or never ends.
LEMMA FindNextIs ==
  ASSUME NEW tab, NEW k
  PROVE  find_next(tab, k).is \in {"index", "error", "hung"}
  <1> DEFINE n == Len(tab.entries)
             ends == Ends(tab.entries, k, hash[k] % n)
             at == Probes(n, hash[k] % n)[Least(ends)]
  <1>1. find_next(tab, k) \in
          {[is |-> "index", at |-> 0], [is |-> "index", at |-> array_index(k)], [is |-> "hung"],
           [is |-> "error"], [is |-> "index", at |-> Len(tab.array) + at]}
    BY DEF find_next
  <1> QED BY <1>1

\* The places of a table that a traversal visits.
Places(tab) == Len(tab.array) + Len(tab.entries)

\* A position and its key belong together.
LEMMA PositionIs ==
  ASSUME NEW tab, Shape(tab)
  PROVE  /\ Places(tab) \in Nat
         /\ \A p \in 1 .. Places(tab) : KeyAt(tab, p) # Nil =>
              /\ KeyAt(tab, p) \in Key /\ Placed(tab, KeyAt(tab, p)) /\ Position(tab, KeyAt(tab, p)) = p
         /\ \A k \in Key : Placed(tab, k) =>
              /\ Position(tab, k) \in 1 .. Places(tab)
              /\ find_next(tab, k) = [is |-> "index", at |-> Position(tab, k)]
              /\ table_get(tab, k) # Nil => KeyAt(tab, Position(tab, k)) = k
  <1>1. tab \in Table /\ Len(tab.entries) > 0 /\ EntryInv(tab) /\ Live(tab.array) \subseteq Index
    BY DEF Shape
  <1>n. PICK n : n = Len(tab.array)
    OBVIOUS
  <1>m. PICK m : m = Len(tab.entries)
    OBVIOUS
  <1>2. n \in Nat /\ m \in Nat \ {0}
    <2>1. n \in Nat
      BY <1>n, <1>1, ArrayIs
    <2>2. m \in Nat \ {0}
      BY <1>m, <1>1, ArrayIs
    <2> QED BY <2>1, <2>2
  <1>3. DOMAIN tab.array = 1 .. n
    BY <1>n, <1>1, ArrayIs
  <1>4. DOMAIN tab.entries = 1 .. m /\ \A i \in 1 .. m : tab.entries[i].key \in Key \cup {Nil}
    BY <1>m, <1>1, ArrayIs
  <1>5. \A p : KeyAt(tab, p) = IF p > n THEN tab.entries[p - n].key
                               ELSE IF tab.array[p] # Nil THEN p ELSE Nil
    BY <1>n DEF KeyAt
  <1>6. \A k : Position(tab, k) = IF InArray(tab, k) THEN array_index(k) ELSE n + table_get_entry(tab, k)
    BY <1>n DEF Position
  <1>7. n + m \in Nat
    BY <1>2
  <1>8. ASSUME NEW p \in 1 .. (n + m), KeyAt(tab, p) # Nil
        PROVE  /\ KeyAt(tab, p) \in Key /\ Placed(tab, KeyAt(tab, p))
               /\ Position(tab, KeyAt(tab, p)) = p
    <2>1. CASE p > n
      <3>1. PICK i \in 1 .. m : i = p - n /\ n + i = p
        BY <2>1, <1>2
      <3> PICK k : k = tab.entries[i].key
        OBVIOUS
      <3>2. k = KeyAt(tab, p)
        BY <3>1, <2>1, <1>5
      <3>3. k # Nil /\ k \in Key
        BY <3>2, <1>4, <1>8
      <3>4. ~InArray(tab, k) /\ table_get_entry(tab, k) = i
        BY <3>3, <1>m, GetIs
      <3>5. Placed(tab, k)
        BY <3>1, <3>4, <1>2 DEF Placed
      <3>6. Position(tab, k) = n + i
        BY <3>4, <1>6
      <3> QED BY <3>1, <3>2, <3>3, <3>5, <3>6
    <2>2. CASE ~(p > n)
      <3>1. p \in 1 .. n
        BY <2>2, <1>2
      <3>2. tab.array[p] # Nil /\ KeyAt(tab, p) = p
        BY <2>2, <1>5, <1>8
      <3>3. p \in Index
        BY <3>1, <3>2, <1>1, <1>3 DEF Live
      <3>4. InArray(tab, p) /\ array_index(p) = p
        BY <3>1, <3>3, <1>2, <1>n, InArrayIs, ArrayIndexIs
      <3> QED BY <3>2, <3>3, <3>4, <1>6, KeysAre DEF Placed
    <2> QED BY <2>1, <2>2
  <1>9. ASSUME NEW k \in Key, Placed(tab, k)
        PROVE  /\ Position(tab, k) \in 1 .. (n + m)
               /\ find_next(tab, k) = [is |-> "index", at |-> Position(tab, k)]
               /\ table_get(tab, k) # Nil => KeyAt(tab, Position(tab, k)) = k
    <2>0. k # Nil
      BY KeysAre
    <2>1. CASE InArray(tab, k)
      <3>1. k \in 1 .. n /\ array_index(k) = k /\ table_get(tab, k) = tab.array[k]
        BY <2>1, <1>n, GetIs
      <3>2. Position(tab, k) = k
        BY <2>1, <3>1, <1>6
      <3>3. find_next(tab, k) = [is |-> "index", at |-> k]
        BY <2>0, <2>1, <3>1 DEF find_next
      <3>4. ~(k > n) /\ k \in 1 .. (n + m)
        BY <3>1, <1>2
      <3>5. table_get(tab, k) # Nil => KeyAt(tab, k) = k
        BY <3>1, <3>4, <1>5
      <3> QED BY <3>2, <3>3, <3>4, <3>5
    <2>2. CASE ~InArray(tab, k)
      <3>i. PICK i : i = table_get_entry(tab, k)
        OBVIOUS
      <3>1. i # 0 /\ tab.entries[i].key = k
        BY <3>i, <2>2, <1>9 DEF Placed
      <3>2. Hashed(tab) /\ i \in 1 .. m /\ i = find_entry(tab.entries, k, hash[k] % m)
        BY <3>i, <3>1, <1>1, <1>m, FoundIs
      <3> DEFINE ends == Ends(tab.entries, k, hash[k] % m)
      <3>3. ends # {} /\ i = Probes(m, hash[k] % m)[Least(ends)]
        <4> HIDE DEF ends
        <4>1. find_entry(tab.entries, k, hash[k] % m) =
                IF ends = {} THEN 0 ELSE Probes(m, hash[k] % m)[Least(ends)]
          BY <1>m DEF find_entry, ends
        <4> QED BY <4>1, <3>1, <3>2
      <3>4. Position(tab, k) = n + i
        BY <3>i, <2>2, <1>6
      <3>5. find_next(tab, k) = [is |-> "index", at |-> n + i]
        BY <1>n, <1>m, <2>0, <2>2, <3>1, <3>3 DEF find_next
      <3>6. n + i > n /\ (n + i) - n = i /\ n + i \in 1 .. (n + m)
        BY <3>2, <1>2
      <3>7. KeyAt(tab, n + i) = k
        BY <3>1, <3>6, <1>5
      <3> QED BY <3>4, <3>5, <3>6, <3>7
    <2> QED BY <2>1, <2>2
  <1>10. Places(tab) = n + m
    BY <1>n, <1>m DEF Places
  <1> QED BY <1>7, <1>8, <1>9, <1>10

\* What table_next returns.
LEMMA NextIs ==
  ASSUME NEW tab, Shape(tab), NEW at, NEW rest, rest = Remaining(tab, at), rest # {},
         NEW p, p = Least(rest), NEW k, k = KeyAt(tab, p)
  PROVE  /\ p \in 1 .. Places(tab) /\ p > at
         /\ \A q \in 1 .. Places(tab) : q > at /\ KeyAt(tab, q) # Nil => p <= q
         /\ k \in Key /\ k # Nil /\ Placed(tab, k) /\ Position(tab, k) = p
  <1> PICK last : last = Places(tab)
    OBVIOUS
  <1>1. /\ last \in Nat
        /\ \A q \in 1 .. last : KeyAt(tab, q) # Nil =>
              /\ KeyAt(tab, q) \in Key /\ Placed(tab, KeyAt(tab, q)) /\ Position(tab, KeyAt(tab, q)) = q
    BY PositionIs
  <1>2. rest = {q \in 1 .. last : q > at /\ KeyAt(tab, q) # Nil}
    BY DEF Remaining, Places
  <1>3. rest \subseteq Nat
    BY <1>1, <1>2
  <1>4. p \in rest /\ \A q \in rest : p <= q
    BY <1>3, LeastIs
  <1>5. p \in 1 .. last /\ p > at /\ KeyAt(tab, p) # Nil
    BY <1>2, <1>4
  <1>6. \A q \in 1 .. last : q > at /\ KeyAt(tab, q) # Nil => p <= q
    BY <1>2, <1>4
  <1> QED BY <1>1, <1>5, <1>6

\* A step of a traversal changes nothing that an assignment uses.
LEMMA TypeKept ==
  ASSUME TypeInv, UNCHANGED <<map, t, call, resizes, rehashes>>,
         phase' \in {"idle", "walk", "done", "error", "hung", "UNDEFINED"},
         phase' = phase \/ (call = Empty /\ resizes = <<>>),
         cursor' \in Key \cup {Nil}, seen' \subseteq Key, stayed' \subseteq Key,
         twice' \in BOOLEAN, calm' \in BOOLEAN
  PROVE  TypeInv'
  <1>1. Shape(t)'
    BY DEF TypeInv, Shape
  <1>2. ASSUME NEW l \in DOMAIN resizes' PROVE FrameInv(resizes[l])'
    <2>1. resizes # <<>> /\ FrameInv(resizes[l])
      BY DEF TypeInv
    <2> QED BY <2>1 DEF FrameInv
  <1> QED BY <1>1, <1>2 DEF TypeInv

LEMMA TypeWalk ==
  ASSUME TypeInv, StartPairs \/ NextPair \/ \E k \in Key : NextOf(k)
  PROVE  TypeInv' /\ call = Empty /\ resizes = <<>> /\ UNCHANGED <<map, t, call, resizes, rehashes>>
  <1>0. /\ Shape(t) /\ cursor \in Key \cup {Nil} /\ seen \subseteq Key /\ stayed \subseteq Key
        /\ twice \in BOOLEAN /\ calm \in BOOLEAN
        /\ phase \in {"idle", "walk", "done", "error", "hung", "UNDEFINED"}
    BY DEF TypeInv
  <1>1. CASE StartPairs
    <2>1. /\ call = Empty /\ resizes = <<>> /\ UNCHANGED <<map, t, call, resizes, rehashes>>
          /\ phase' = "walk" /\ cursor' = Nil /\ seen' = {} /\ twice' = FALSE
          /\ stayed' = HasValue(t) /\ calm' = TRUE
      BY <1>1 DEF StartPairs, Ready
    <2>2. stayed' \subseteq Key
      BY <2>1 DEF HasValue
    <2> QED BY <2>1, <2>2, TypeKept
  <1>2. CASE NextPair
    <2> PICK from : from = find_next(t, cursor)
      OBVIOUS
    <2> PICK rest : rest = Remaining(t, from.at)
      OBVIOUS
    <2>1. /\ call = Empty /\ resizes = <<>> /\ UNCHANGED <<map, t, call, resizes, rehashes, stayed, calm>>
          /\ phase = "walk"
          /\ IF from.is # "index"
             THEN phase' = from.is /\ UNCHANGED <<cursor, seen, twice>>
             ELSE IF rest = {}
             THEN phase' = "done" /\ cursor' = Nil /\ UNCHANGED <<seen, twice>>
             ELSE /\ cursor' = KeyAt(t, Least(rest))
                  /\ seen' = seen \cup {cursor'}
                  /\ twice' = (twice \/ cursor' \in seen)
                  /\ UNCHANGED phase
      BY <1>2 DEF NextPair, Ready
    <2>2. from.is \in {"index", "error", "hung"}
      BY FindNextIs
    <2>3. rest # {} => KeyAt(t, Least(rest)) \in Key
      <3>1. PICK at : at = from.at
        OBVIOUS
      <3> QED BY <1>0, <3>1, NextIs
    <2>4. cursor' \in Key \cup {Nil} /\ seen' \subseteq Key
      BY <1>0, <2>1, <2>3
    <2>5. twice' \in BOOLEAN
      BY <1>0, <2>1
    <2>6. phase' \in {"idle", "walk", "done", "error", "hung", "UNDEFINED"}
      BY <2>1, <2>2
    <2> QED BY <1>0, <2>1, <2>4, <2>5, <2>6, TypeKept
  <1>3. CASE \E k \in Key : NextOf(k)
    <2>1. PICK k \in Key : NextOf(k)
      BY <1>3
    <2>2. /\ call = Empty /\ resizes = <<>> /\ UNCHANGED <<map, t, call, resizes, rehashes>>
          /\ UNCHANGED <<cursor, seen, twice, stayed>>
          /\ phase' = find_next(t, k).is /\ calm' = FALSE
      BY <2>1 DEF NextOf, Ready, walking
    <2>3. phase' \in {"index", "error", "hung"} /\ phase' # "index"
      BY <2>1, <2>2, FindNextIs DEF NextOf
    <2> QED BY <1>0, <2>2, <2>3, TypeKept
  <1> QED BY <1>1, <1>2, <1>3

\* Nothing that is on its way moves.
LEMMA KeptSame ==
  ASSUME CarriedInv, KeptInv, UNCHANGED <<map, t>>,
         \A x : x \in Carried' <=> x \in Carried,
         \A x \in Carried : Pair(x)' = Pair(x), CallAt(1)' = CallAt(1)
  PROVE  CarriedInv' /\ KeptInv'
  <1>1. CarriedInv'
    <2>1. ASSUME NEW x \in Carried'
          PROVE  Pair(x)'.key \in Key /\ Pair(x)'.value \in Value /\ table_get(t, Pair(x).key)' = Nil
      BY DEF CarriedInv
    <2>2. ASSUME NEW x \in Carried', NEW y \in Carried', Pair(x)'.key = Pair(y)'.key PROVE x = y
      BY <2>2 DEF CarriedInv
    <2> QED BY <2>1, <2>2 DEF CarriedInv
  <1>2. KeptInv'
    <2>1. CallAt(1)' # Empty => CallAt(1)'.value = map'[CallAt(1)'.key]
      BY DEF KeptInv
    <2>2. ASSUME NEW k \in Key, k # CallAt(1)'.key
          PROVE  /\ \A x \in Carried' : Pair(x)'.key = k => Pair(x)'.value = map'[k]
                 /\ (\A x \in Carried' : Pair(x)'.key # k) => table_get(t', k) = map'[k]
      BY <2>2 DEF KeptInv
    <2> QED BY <2>1, <2>2 DEF KeptInv
  <1> QED BY <1>1, <1>2

\* The same stack carries the same.
LEMMA CarriedSame ==
  ASSUME UNCHANGED <<call, resizes>>
  PROVE  /\ \A x : x \in Carried' <=> x \in Carried
         /\ \A x \in Carried : Pair(x)' = Pair(x)
         /\ CallAt(1)' = CallAt(1)
  <1>1. Level' = Level
    BY DEF Level
  <1>2. \A l : CallAt(l)' = CallAt(l)
    BY <1>1 DEF CallAt
  <1>3. ASSUME NEW l \in Nat, NEW i \in Nat, NEW where \in {"call", "array", "entries"}
        PROVE  Carries(l, where, i)' <=> Carries(l, where, i)
    <2>1. Carries(l, "call", i)' <=> Carries(l, "call", i)
      BY <1>1, <1>2, CarriesIs
    <2>2. Carries(l, "array", i)' <=> Carries(l, "array", i)
      BY CarriesIs
    <2>3. Carries(l, "entries", i)' <=> Carries(l, "entries", i)
      BY CarriesIs
    <2>4. where = "call" \/ where = "array" \/ where = "entries"
      OBVIOUS
    <2> QED BY <2>1, <2>2, <2>3, <2>4
  <1>4. \A x : Pair(x)' = Pair(x)
    BY <1>2 DEF Pair
  <1>5. \A x : x \in Carried' <=> x \in Carried
    <2>1. ASSUME NEW x \in Carried PROVE x \in Carried'
      <3>1. /\ x = <<x[1], x[2], x[3]>> /\ x[1] \in Nat /\ x[3] \in Nat
            /\ x[2] \in {"call", "array", "entries"} /\ Carries(x[1], x[2], x[3])
        BY CarriedIs
      <3>2. Carries(x[1], x[2], x[3])'
        BY <3>1, <1>3
      <3> QED BY <3>1, <3>2, CarriedPrime
    <2>2. ASSUME NEW x \in Carried' PROVE x \in Carried
      <3>1. /\ x = <<x[1], x[2], x[3]>> /\ x[1] \in Nat /\ x[3] \in Nat
            /\ x[2] \in {"call", "array", "entries"} /\ Carries(x[1], x[2], x[3])'
        BY CarriedPrime
      <3>2. Carries(x[1], x[2], x[3])
        BY <3>1, <1>3
      <3> QED BY <3>1, <3>2, CarriedIs
    <2> QED BY <2>1, <2>2
  <1> QED BY <1>2, <1>4, <1>5

\* No table_resize runs: nothing is on its way.
LEMMA CarriedNone ==
  ASSUME TypeInv, resizes = <<>>
  PROVE  Carried = {} /\ CallAt(1) = call
  <1>1. Level = 1 /\ DOMAIN resizes = {}
    BY LevelIs
  <1>2. ASSUME NEW x \in Carried PROVE FALSE
    BY <1>1, <1>2, CarriedTypes, CarriedIs
  <1> QED BY <1>1, <1>2, LevelIs

LEMMA KeptStore ==
  ASSUME TypeInv, CarriedInv, KeptInv, Store
  PROVE  CarriedInv' /\ KeptInv'
  <1>0. /\ call # Empty /\ call' = Empty /\ t' = Put(t, call) /\ HasRoom(t, call.key)
        /\ UNCHANGED <<map, resizes>>
    BY DEF Store
  <1>1. Shape(t) /\ call \in Entry /\ call.key \in Key /\ call.key # Nil
    BY <1>0, CallIs DEF TypeInv
  <1>2. \A k \in Key : table_get(t', k) = IF k = call.key THEN call.value ELSE table_get(t, k)
    BY <1>0, <1>1, PutReads
  <1> PICK src : src = <<Level, "call", 0>>
    OBVIOUS
  <1>3. /\ \A x \in Carried' : x \in Carried /\ Pair(x)' = Pair(x) /\ x # src
        /\ \A x \in Carried : x # src => x \in Carried'
        /\ Level > 1 => src \in Carried /\ Pair(src) = call
        /\ Level = 1 => Carried = {}
        /\ CallAt(1)' = IF Level = 1 THEN Empty ELSE CallAt(1)
    BY <1>0, CarriedStore
  <1>4. CASE Level = 1
    <2>1. Carried = {} /\ Carried' = {} /\ CallAt(1) = call /\ CallAt(1)' = Empty
      BY <1>3, <1>4, LevelIs
    <2>2. CarriedInv'
      BY <2>1 DEF CarriedInv
    <2>3. ASSUME NEW k \in Key PROVE table_get(t', k) = map'[k]
      <3>1. CASE k = call.key
        BY <3>1, <2>1, <1>0, <1>2 DEF KeptInv
      <3>2. CASE k # call.key
        BY <3>2, <2>1, <1>0, <1>2 DEF KeptInv
      <3> QED BY <3>1, <3>2
    <2> QED BY <2>1, <2>2, <2>3 DEF KeptInv
  <1>5. CASE Level # 1
    <2>1. src \in Carried /\ Pair(src) = call /\ CallAt(1)' = CallAt(1)
      BY <1>3, <1>5, LevelIs
    <2>2. ASSUME NEW x \in Carried'
          PROVE  Pair(x)'.key \in Key /\ Pair(x)'.value \in Value /\ table_get(t', Pair(x)'.key) = Nil
      <3>1. x \in Carried /\ x # src /\ Pair(x)' = Pair(x)
        BY <1>3
      <3>2. Pair(x).key # call.key
        BY <3>1, <2>1 DEF CarriedInv
      <3> QED BY <3>1, <3>2, <1>2 DEF CarriedInv
    <2>3. ASSUME NEW x \in Carried', NEW y \in Carried', Pair(x)'.key = Pair(y)'.key PROVE x = y
      BY <2>3, <1>3 DEF CarriedInv
    <2>4. CarriedInv'
      BY <2>2, <2>3 DEF CarriedInv
    <2>5. CallAt(1)' # Empty => CallAt(1)'.value = map'[CallAt(1)'.key]
      BY <2>1, <1>0 DEF KeptInv
    <2>6. ASSUME NEW k \in Key, k # CallAt(1)'.key
          PROVE  /\ \A x \in Carried' : Pair(x)'.key = k => Pair(x)'.value = map'[k]
                 /\ (\A x \in Carried' : Pair(x)'.key # k) => table_get(t', k) = map'[k]
      <3>1. /\ \A x \in Carried : Pair(x).key = k => Pair(x).value = map[k]
            /\ (\A x \in Carried : Pair(x).key # k) => table_get(t, k) = map[k]
        BY <2>6, <2>1 DEF KeptInv
      <3>2. CASE k = call.key
        BY <3>1, <3>2, <2>1, <1>0, <1>2, <1>3
      <3>3. CASE k # call.key
        BY <3>1, <3>3, <2>1, <1>0, <1>2, <1>3
      <3> QED BY <3>2, <3>3
    <2> QED BY <2>4, <2>5, <2>6 DEF KeptInv
  <1> QED BY <1>4, <1>5

\* The pairs that a rehash starts to move, each of its own key, are read from
\* the table before and not after.
LEMMA CarriedAnew ==
  ASSUME TypeInv, Rehash, NEW x \in Carried', x \notin Carried, NEW k, k = Pair(x)'.key
  PROVE  /\ k \in Key /\ Pair(x)'.value \in Value /\ Pair(x)'.value = table_get(t, k)
         /\ table_get(t', k) = Nil
         /\ InArray(t, k) => x = <<Level, "array", k>>
         /\ ~InArray(t, k) => x = <<Level, "entries", table_get_entry(t, k)>>
  <1> PICK f : f = NewFrame
    OBVIOUS
  <1>1. /\ call # Empty /\ call' = Empty /\ f \in Frame /\ f.call = call /\ resizes' = Append(resizes, f)
        /\ f.i = IF f.loop = "array" THEN f.n_array ELSE 0
        /\ f.old_entries = t.entries
        /\ (f.loop = "array" => f.old_array = t.array)
        /\ \A key \in Key :
              table_get(t', key) = IF InArray(t, key) /\ (f.loop = "array" => key <= f.n_array)
                                   THEN table_get(t, key) ELSE Nil
    BY RehashIs
  <1>2. Shape(t) /\ t \in Table
    BY DEF TypeInv, Shape
  <1>3. \/ /\ x[2] = "array" /\ f.loop = "array" /\ x[3] \in Vanishing(f)
           /\ Pair(x)' = [key |-> x[3], value |-> f.old_array[x[3]]]
           /\ x = <<Level, "array", x[3]>>
        \/ /\ x[2] = "entries" /\ x[3] \in DOMAIN f.old_entries /\ f.old_entries[x[3]].value # Nil
           /\ Pair(x)' = f.old_entries[x[3]]
           /\ x = <<Level, "entries", x[3]>>
    BY <1>1, CarriedRehash
  <1> PICK i : i = x[3]
    OBVIOUS
  <1>4. CASE x[2] = "array"
    <2>1. f.loop = "array" /\ i \in Vanishing(f) /\ Pair(x)' = [key |-> i, value |-> t.array[i]]
          /\ x = <<Level, "array", i>> /\ f.old_array = t.array /\ f.i = f.n_array
      BY <1>3, <1>4, <1>1
    <2>2. k = i /\ Pair(x)'.value = t.array[i]
      BY <2>1
    <2>3. i \in Live(t.array) /\ i > f.n_array
      BY <2>1 DEF Vanishing
    <2>4. i \in 1 .. Len(t.array) /\ t.array[i] # Nil /\ i \in Index /\ t.array[i] \in Slot
      BY <2>3, <1>2, ArrayIs DEF Live, Shape
    <2>5. i \in Key /\ InArray(t, i) /\ table_get(t, i) = t.array[i]
      <3>1. i \in Key
        BY <2>4, KeysAre
      <3>2. i <= Len(t.array) /\ Len(t.array) \in Nat
        BY <2>4, <1>2, ArrayIs
      <3>3. InArray(t, i)
        BY <3>2, <2>4, InArrayIs
      <3> QED BY <3>1, <3>3, <1>2, GetIs
    <2>6. ~(i <= f.n_array)
      <3>1. i \in Int /\ f.n_array \in Int
        BY <2>4, <1>1 DEF Frame
      <3> QED BY <3>1, <2>3
    <2>7. table_get(t', i) = Nil
      BY <2>5, <2>6, <2>1, <1>1
    <2> QED BY <2>1, <2>2, <2>4, <2>5, <2>7 DEF Slot
  <1>5. CASE x[2] # "array"
    <2>1. /\ i \in DOMAIN t.entries /\ t.entries[i].value # Nil /\ Pair(x)' = t.entries[i]
          /\ x = <<Level, "entries", i>>
      BY <1>3, <1>5, <1>1
    <2>2. i \in 1 .. Len(t.entries) /\ t.entries[i].key \in Key \cup {Nil} /\ t.entries[i].value \in Slot
      BY <2>1, <1>2, ArrayIs
    <2>3. k = t.entries[i].key /\ k # Nil
      <3>1. t.entries[i] # Empty
        BY <2>1 DEF Empty
      <3> QED BY <3>1, <2>1, <1>2 DEF Shape, EntryInv
    <2>4. k \in Key
      BY <2>2, <2>3
    <2>5. ~InArray(t, k) /\ table_get_entry(t, k) = i /\ table_get(t, k) = t.entries[i].value
      BY <2>2, <2>3, <2>4, <1>2, GetIs
    <2>6. table_get(t', k) = Nil
      BY <2>4, <2>5, <1>1
    <2> QED BY <2>1, <2>2, <2>4, <2>5, <2>6 DEF Slot
  <1> QED BY <1>4, <1>5

LEMMA KeptRehash ==
  ASSUME TypeInv, CarriedInv, KeptInv, Rehash
  PROVE  CarriedInv' /\ KeptInv'
  <1> PICK f : f = NewFrame
    OBVIOUS
  <1>1. /\ call # Empty /\ call' = Empty /\ f \in Frame /\ f.call = call /\ resizes' = Append(resizes, f)
        /\ f.i = IF f.loop = "array" THEN f.n_array ELSE 0
        /\ f.old_entries = t.entries /\ map' = map
        /\ (f.loop = "array" => f.old_array = t.array)
        /\ \A key \in Key :
              table_get(t', key) = IF InArray(t, key) /\ (f.loop = "array" => key <= f.n_array)
                                   THEN table_get(t, key) ELSE Nil
    BY RehashIs
  <1>2. Shape(t) /\ t \in Table
    BY DEF TypeInv, Shape
  <1>3. /\ \A x \in Carried : x \in Carried' /\ Pair(x)' = Pair(x)
        /\ \A i \in Vanishing(f) : i \in Nat /\ f.loop = "array" => <<Level, "array", i>> \in Carried'
        /\ \A i \in DOMAIN f.old_entries :
              i \in Nat /\ f.old_entries[i].value # Nil /\ (f.loop = "entries" => i > f.i) =>
                <<Level, "entries", i>> \in Carried'
        /\ CallAt(1)' = CallAt(1)
    BY <1>1, CarriedRehash
  <1>4. ASSUME NEW x \in Carried, NEW k, k = Pair(x)'.key
        PROVE  /\ k = Pair(x).key /\ k \in Key /\ Pair(x)'.value \in Value
               /\ table_get(t, k) = Nil /\ table_get(t', k) = Nil
    <2>1. Pair(x)' = Pair(x)
      BY <1>3
    <2>2. k = Pair(x).key /\ k \in Key /\ Pair(x)'.value \in Value /\ table_get(t, k) = Nil
      BY <2>1, <1>4 DEF CarriedInv
    <2> QED BY <2>2, <1>1
  <1>5. CarriedInv'
    <2>1. ASSUME NEW x \in Carried'
          PROVE  Pair(x)'.key \in Key /\ Pair(x)'.value \in Value /\ table_get(t', Pair(x)'.key) = Nil
      <3>1. CASE x \in Carried
        BY <3>1, <1>4
      <3>2. CASE x \notin Carried
        BY <3>2, CarriedAnew
      <3> QED BY <3>1, <3>2
    <2>2. ASSUME NEW x \in Carried', NEW y \in Carried', Pair(x)'.key = Pair(y)'.key PROVE x = y
      <3> PICK k : k = Pair(x)'.key
        OBVIOUS
      <3>1. CASE x \in Carried /\ y \in Carried
        BY <3>1, <2>2, <1>3 DEF CarriedInv
      <3>2. CASE x \in Carried /\ y \notin Carried
        <4>1. table_get(t, k) = Nil
          BY <3>2, <1>4
        <4>2. Pair(y)'.value \in Value /\ Pair(y)'.value = table_get(t, k)
          BY <3>2, <2>2, CarriedAnew
        <4> QED BY <4>1, <4>2, KeysAre
      <3>3. CASE x \notin Carried /\ y \in Carried
        <4>1. table_get(t, k) = Nil
          BY <3>3, <2>2, <1>4
        <4>2. Pair(x)'.value \in Value /\ Pair(x)'.value = table_get(t, k)
          BY <3>3, CarriedAnew
        <4> QED BY <4>1, <4>2, KeysAre
      <3>4. CASE x \notin Carried /\ y \notin Carried
        <4>1. /\ InArray(t, k) => x = <<Level, "array", k>>
              /\ ~InArray(t, k) => x = <<Level, "entries", table_get_entry(t, k)>>
          BY <3>4, CarriedAnew
        <4>2. /\ InArray(t, k) => y = <<Level, "array", k>>
              /\ ~InArray(t, k) => y = <<Level, "entries", table_get_entry(t, k)>>
          BY <3>4, <2>2, CarriedAnew
        <4> QED BY <4>1, <4>2
      <3> QED BY <3>1, <3>2, <3>3, <3>4
    <2> QED BY <2>1, <2>2 DEF CarriedInv
  <1>6. CallAt(1)' # Empty => CallAt(1)'.value = map'[CallAt(1)'.key]
    BY <1>1, <1>3 DEF KeptInv
  <1>7. ASSUME NEW k \in Key, k # CallAt(1)'.key
        PROVE  /\ \A x \in Carried' : Pair(x)'.key = k => Pair(x)'.value = map'[k]
               /\ (\A x \in Carried' : Pair(x)'.key # k) => table_get(t', k) = map'[k]
    <2>1. /\ \A x \in Carried : Pair(x).key = k => Pair(x).value = map[k]
          /\ (\A x \in Carried : Pair(x).key # k) => table_get(t, k) = map[k]
      BY <1>7, <1>3 DEF KeptInv
    <2>2. ASSUME NEW x \in Carried', Pair(x)'.key = k PROVE Pair(x)'.value = map'[k]
      <3>1. CASE x \in Carried
        BY <3>1, <2>1, <2>2, <1>1, <1>3
      <3>2. CASE x \notin Carried
        <4>1. Pair(x)'.value \in Value /\ Pair(x)'.value = table_get(t, k)
          BY <3>2, <2>2, CarriedAnew
        <4>2. ASSUME NEW y \in Carried, Pair(y).key = k PROVE FALSE
          BY <4>1, <4>2, KeysAre DEF CarriedInv
        <4> QED BY <4>1, <4>2, <2>1, <1>1
      <3> QED BY <3>1, <3>2
    <2>3. ASSUME \A x \in Carried' : Pair(x)'.key # k PROVE table_get(t', k) = map'[k]
      <3>1. \A x \in Carried : Pair(x).key # k
        BY <2>3, <1>3
      <3>2. table_get(t, k) = map'[k]
        BY <3>1, <2>1, <1>1
      <3>3. table_get(t', k) = table_get(t, k)
        <4>1. CASE InArray(t, k)
          <5>1. CASE f.loop = "array" => k <= f.n_array
            BY <4>1, <5>1, <1>1
          <5>2. CASE f.loop = "array" /\ ~(k <= f.n_array) /\ table_get(t, k) # Nil
            <6>1. k \in 1 .. Len(t.array) /\ table_get(t, k) = t.array[k]
              BY <4>1, <1>2, GetIs
            <6>2. DOMAIN t.array = 1 .. Len(t.array) /\ f.n_array \in Int /\ f.old_array = t.array
              BY <1>1, <1>2, <5>2, ArrayIs DEF Frame
            <6>3. k \in Live(f.old_array) /\ k > f.i /\ k \in Nat
              BY <6>1, <6>2, <5>2, <1>1 DEF Live
            <6>4. <<Level, "array", k>> \in Carried'
              BY <6>3, <5>2, <1>3 DEF Vanishing
            <6> PICK x : x = <<Level, "array", k>>
              OBVIOUS
            <6>5. CASE x \in Carried
              BY <6>5, <3>1, CarriedTypes
            <6>6. CASE x \notin Carried
              <7>1. x[2] = "array" /\ x[3] = k
                OBVIOUS
              <7>2. Pair(x)' = [key |-> k, value |-> f.old_array[k]]
                BY <6>4, <6>6, <7>1, <1>1, CarriedRehash
              <7> QED BY <7>2, <6>4, <2>3
            <6> QED BY <6>5, <6>6
          <5>3. CASE f.loop = "array" /\ ~(k <= f.n_array) /\ table_get(t, k) = Nil
            BY <5>3, <1>1
          <5> QED BY <5>1, <5>2, <5>3
        <4>2. CASE ~InArray(t, k)
          <5>1. table_get(t', k) = Nil
            BY <4>2, <1>1
          <5>2. ASSUME table_get(t, k) # Nil PROVE FALSE
            <6>1. PICK i \in 1 .. Len(t.entries) : t.entries[i].key = k
              BY <4>2, <5>2, <1>2, GetIs
            <6>2. i \in DOMAIN t.entries /\ t.entries[i].value # Nil
              BY <6>1, <5>2, <1>2, GetIs, ArrayIs
            <6>3. i \in Nat /\ i > 0
              OBVIOUS
            <6>4. f.loop = "entries" => i > f.i
              BY <6>3, <1>1
            <6>5. <<Level, "entries", i>> \in Carried'
              BY <6>2, <6>3, <6>4, <1>1, <1>3
            <6> PICK x : x = <<Level, "entries", i>>
              OBVIOUS
            <6>6. CASE x \in Carried
              BY <6>6, LevelIs, CarriedTypes
            <6>7. CASE x \notin Carried
              <7>1. x[2] = "entries" /\ x[3] = i
                OBVIOUS
              <7>2. Pair(x)' = f.old_entries[i]
                BY <6>5, <6>7, <7>1, <1>1, CarriedRehash
              <7> QED BY <7>2, <6>1, <6>5, <1>1, <2>3
            <6> QED BY <6>6, <6>7
          <5> QED BY <5>1, <5>2
        <4> QED BY <4>1, <4>2
      <3> QED BY <3>2, <3>3
    <2> QED BY <2>2, <2>3
  <1> QED BY <1>5, <1>6, <1>7 DEF KeptInv

LEMMA KeptMove ==
  ASSUME TypeInv, CarriedInv, KeptInv, MoveElement \/ InsertEntry
  PROVE  CarriedInv' /\ KeptInv'
  <1>s. PICK src : src = <<Len(resizes), Innermost.loop,
                           IF Innermost.loop = "array" THEN Least(Vanishing(Innermost)) ELSE Least(Waiting(Innermost))>>
    OBVIOUS
  <1>1. /\ src \in Carried /\ call' = Pair(src) /\ Pair(src) # Empty
        /\ resizes # <<>> /\ call = Empty
        /\ src[1] = Len(resizes) /\ src[2] \in {"array", "entries"}
        /\ src[2] = resizes[Len(resizes)].loop
        /\ src[2] = "array" => src[3] = Least(Vanishing(resizes[Len(resizes)]))
        /\ src[2] = "entries" => src[3] = Least(Waiting(resizes[Len(resizes)]))
        /\ resizes' = [resizes EXCEPT ![Len(resizes)].i = src[3]]
        /\ UNCHANGED <<map, t>>
    BY <1>s, MoveIs
  <1>a. /\ \A x \in Carried : x # src => x \in Carried' /\ Pair(x)' = Pair(x)
        /\ \A x \in Carried' : x # <<Level, "call", 0>> => x \in Carried /\ x # src
        /\ <<Level, "call", 0>> \in Carried' /\ Pair(<<Level, "call", 0>>)' = Pair(src)
        /\ <<Level, "call", 0>> \notin Carried
        /\ CallAt(1)' = CallAt(1)
    BY <1>1, CarriedMove
  <1>c. PICK c : c = <<Level, "call", 0>>
    OBVIOUS
  <1>2. /\ \A x \in Carried : x # src => x \in Carried' /\ Pair(x)' = Pair(x)
        /\ \A x \in Carried' : x # c => x \in Carried /\ x # src
        /\ c \in Carried' /\ Pair(c)' = Pair(src) /\ c \notin Carried
        /\ CallAt(1)' = CallAt(1)
    <2>1. Len(resizes') = Len(resizes)
      <3>1. resizes \in Seq(Frame)
        BY DEF TypeInv
      <3> QED BY <3>1, <1>1
    <2>2. Level' = Level
      BY <2>1 DEF Level
    <2>3. c = <<Level', "call", 0>>
      BY <2>2, <1>c
    <2>4. Pair(c)' = Pair(src)
      BY <2>3, <1>a
    <2> QED BY <2>4, <1>a, <1>c
  <1>3. ASSUME NEW x \in Carried'
        PROVE  \E y \in Carried : Pair(x)' = Pair(y) /\ y = IF x = c THEN src ELSE x
    <2>1. CASE x = c
      BY <2>1, <1>1, <1>2
    <2>2. CASE x # c
      BY <2>2, <1>2
    <2> QED BY <2>1, <2>2
  <1>4. CarriedInv'
    <2>1. ASSUME NEW x \in Carried'
          PROVE  Pair(x)'.key \in Key /\ Pair(x)'.value \in Value /\ table_get(t', Pair(x)'.key) = Nil
      BY <1>1, <1>3 DEF CarriedInv
    <2>2. ASSUME NEW x \in Carried', NEW y \in Carried', Pair(x)'.key = Pair(y)'.key PROVE x = y
      <3>1. PICK p \in Carried : Pair(x)' = Pair(p) /\ p = IF x = c THEN src ELSE x
        BY <1>3
      <3>2. PICK q \in Carried : Pair(y)' = Pair(q) /\ q = IF y = c THEN src ELSE y
        BY <1>3
      <3>3. p = q
        BY <3>1, <3>2, <2>2 DEF CarriedInv
      <3> QED BY <3>1, <3>2, <3>3, <1>2
    <2> QED BY <2>1, <2>2 DEF CarriedInv
  <1>5. CallAt(1)' # Empty => CallAt(1)'.value = map'[CallAt(1)'.key]
    BY <1>1, <1>2 DEF KeptInv
  <1>6. ASSUME NEW k \in Key, k # CallAt(1)'.key
        PROVE  /\ \A x \in Carried' : Pair(x)'.key = k => Pair(x)'.value = map'[k]
               /\ (\A x \in Carried' : Pair(x)'.key # k) => table_get(t', k) = map'[k]
    <2>1. /\ \A x \in Carried : Pair(x).key = k => Pair(x).value = map[k]
          /\ (\A x \in Carried : Pair(x).key # k) => table_get(t, k) = map[k]
      BY <1>6, <1>2 DEF KeptInv
    <2>2. \A x \in Carried' : Pair(x)'.key = k => Pair(x)'.value = map'[k]
      BY <2>1, <1>1, <1>3
    <2>3. ASSUME \A x \in Carried' : Pair(x)'.key # k PROVE table_get(t', k) = map'[k]
      <3>1. ASSUME NEW x \in Carried PROVE Pair(x).key # k
        BY <2>3, <1>2
      <3> QED BY <3>1, <2>1, <1>1
    <2> QED BY <2>2, <2>3
  <1> QED BY <1>4, <1>5, <1>6 DEF KeptInv

LEMMA KeptAssign ==
  ASSUME TypeInv, CarriedInv, KeptInv, NEW k \in Key, NEW v \in Stored[k] \cup {Nil}, Assign(k, v)
  PROVE  CarriedInv' /\ KeptInv'
  <1>1. /\ call = Empty /\ resizes = <<>> /\ resizes' = <<>> /\ t' = t
        /\ map' = [map EXCEPT ![k] = v] /\ call' = [key |-> k, value |-> v]
    BY DEF Assign, Ready
  <1>2. TypeInv'
    BY TypeAssign
  <1>3. Carried = {} /\ CallAt(1) = call
    BY <1>1, CarriedNone
  <1>4. Carried' = {} /\ CallAt(1)' = call'
    <2>1. Level' = 1
      BY <1>1 DEF Level
    <2>2. ASSUME NEW x \in Carried' PROVE FALSE
      <3>1. /\ x[1] \in Nat /\ x[2] \in {"call", "array", "entries"} /\ Carries(x[1], x[2], x[3])'
        BY CarriedPrime
      <3>2. DOMAIN resizes' = {}
        BY <1>1
      <3>3. CASE x[2] = "call"
        BY <3>1, <3>3, <2>1, CarriesIs
      <3>4. CASE x[2] = "array"
        BY <3>1, <3>2, <3>4, CarriesIs
      <3>5. CASE x[2] = "entries"
        BY <3>1, <3>2, <3>5, CarriesIs
      <3> QED BY <3>1, <3>3, <3>4, <3>5
    <2>3. CallAt(1)' = call'
      BY <2>1 DEF CallAt
    <2> QED BY <2>2, <2>3
  <1>5. map \in [Key -> Slot]
    BY DEF TypeInv
  <1>6. CarriedInv'
    BY <1>4 DEF CarriedInv
  <1>7. map'[k] = v /\ \A j \in Key : j # k => map'[j] = map[j]
    BY <1>1, <1>5
  <1>8. ASSUME NEW j \in Key, j # k PROVE table_get(t', j) = map'[j]
    <2>1. j # CallAt(1).key
      BY <1>1, <1>3, KeysAre DEF Empty
    <2>2. table_get(t, j) = map[j]
      BY <2>1, <1>3 DEF KeptInv
    <2> QED BY <2>2, <1>7, <1>8, <1>1
  <1> QED BY <1>1, <1>4, <1>6, <1>7, <1>8 DEF KeptInv

\* The table that is written to has a place for every key it walks.
LEMMA WalkStore ==
  ASSUME TypeInv, WalkInv, Store
  PROVE  WalkInv'
  <1>1. /\ call # Empty /\ call' = Empty /\ t' = Put(t, call) /\ HasRoom(t, call.key)
        /\ UNCHANGED <<resizes, phase, cursor, seen, twice, stayed, calm>>
    BY DEF Store, walking
  <1>2. Shape(t) /\ call \in Entry /\ call.key \in Key /\ call.key # Nil
        /\ cursor \in Key \cup {Nil} /\ seen \subseteq Key /\ stayed \subseteq Key
    BY <1>1, CallIs DEF TypeInv
  <1>3. ASSUME NEW k \in Key
        PROVE  /\ table_get(t', k) = IF k = call.key THEN call.value ELSE table_get(t, k)
               /\ Placed(t, k) => Placed(t', k) /\ Position(t', k) = Position(t, k)
               /\ table_get(t, k) # Nil => Placed(t, k)
    BY <1>1, <1>2, PutReads, GetIs
  <1> SUFFICES ASSUME calm PROVE WalkInv'
    BY <1>1 DEF WalkInv
  <1> PICK reached : reached = IF cursor = Nil THEN 0 ELSE Position(t, cursor)
    OBVIOUS
  <1>4. /\ resizes = <<>> /\ ~twice /\ phase \notin {"error", "hung"}
        /\ phase = "done" => stayed \subseteq seen
    BY DEF WalkInv
  <1>5. phase = "walk" =>
           /\ call.value = Nil => call.key \notin stayed
           /\ cursor # Nil => Placed(t, cursor)
           /\ \A k \in seen : Placed(t, k) /\ Position(t, k) <= reached
           /\ \A k \in stayed : /\ table_get(t, k) # Nil
                                /\ Position(t, k) <= reached => k \in seen
    BY DEF WalkInv
  <1>6. ASSUME phase = "walk"
        PROVE  /\ Empty.value = Nil => Empty.key \notin stayed
               /\ cursor # Nil => Placed(t', cursor)
               /\ reached = IF cursor = Nil THEN 0 ELSE Position(t', cursor)
               /\ \A k \in seen : Placed(t', k) /\ Position(t', k) <= reached
               /\ \A k \in stayed : /\ table_get(t', k) # Nil
                                    /\ Position(t', k) <= reached => k \in seen
    <2>1. Empty.key \notin stayed
      BY <1>2, KeysAre DEF Empty
    <2>2. cursor # Nil => Placed(t', cursor) /\ Position(t', cursor) = Position(t, cursor)
      BY <1>2, <1>3, <1>5, <1>6
    <2>3. ASSUME NEW k \in seen PROVE Placed(t', k) /\ Position(t', k) <= reached
      BY <1>2, <1>3, <1>5, <1>6
    <2>4. ASSUME NEW k \in stayed PROVE table_get(t', k) # Nil /\ (Position(t', k) <= reached => k \in seen)
      <3>1. k \in Key /\ table_get(t, k) # Nil /\ (Position(t, k) <= reached => k \in seen)
        BY <1>2, <1>5, <1>6
      <3>2. Position(t', k) = Position(t, k)
        BY <3>1, <1>3
      <3>3. k = call.key => call.value # Nil
        BY <1>5, <1>6
      <3> QED BY <3>1, <3>2, <3>3, <1>3
    <2> QED BY <2>1, <2>2, <2>3, <2>4
  <1> QED BY <1>1, <1>4, <1>6 DEF WalkInv

LEMMA WalkAssign ==
  ASSUME TypeInv, WalkInv, NEW k \in Key, NEW v \in Stored[k] \cup {Nil}, Assign(k, v)
  PROVE  WalkInv'
  <1>1. /\ call' = [key |-> k, value |-> v]
        /\ stayed' = IF v = Nil THEN stayed \ {k} ELSE stayed
        /\ UNCHANGED <<t, resizes, phase, cursor, seen, twice, calm>>
    BY DEF Assign
  <1>2. stayed' \subseteq stayed /\ (v = Nil => k \notin stayed')
    BY <1>1
  <1> QED BY <1>1, <1>2 DEF WalkInv

LEMMA WalkStart ==
  ASSUME TypeInv, StartPairs
  PROVE  WalkInv'
  <1>1. /\ call = Empty /\ resizes = <<>> /\ UNCHANGED <<t, call, resizes>>
        /\ phase' = "walk" /\ cursor' = Nil /\ seen' = {} /\ twice' = FALSE
        /\ stayed' = HasValue(t) /\ calm' = TRUE
    BY DEF StartPairs, Ready
  <1>2. call'.key \notin stayed'
    BY <1>1, KeysAre DEF HasValue, Empty
  <1>3. Shape(t)
    BY DEF TypeInv
  <1>4. ASSUME NEW k \in stayed' PROVE table_get(t', k) # Nil /\ ~(Position(t', k) <= 0)
    <2>1. k \in Key /\ table_get(t, k) # Nil
      BY <1>1 DEF HasValue
    <2>2. Placed(t, k)
      BY <2>1, <1>3, GetIs
    <2>3. Position(t, k) \in 1 .. Places(t) /\ Places(t) \in Nat
      BY <2>1, <2>2, <1>3, PositionIs
    <2>4. \A n \in Nat : \A p \in 1 .. n : ~(p <= 0)
      OBVIOUS
    <2>5. ~(Position(t, k) <= 0)
      BY <2>3, <2>4
    <2> QED BY <2>1, <2>5, <1>1
  <1> QED BY <1>1, <1>2, <1>4 DEF WalkInv

LEMMA WalkPair ==
  ASSUME TypeInv, WalkInv, NextPair
  PROVE  WalkInv'
  <1> PICK from : from = find_next(t, cursor)
    OBVIOUS
  <1>r. PICK rest : rest = Remaining(t, from.at)
    OBVIOUS
  <1>1. /\ call = Empty /\ resizes = <<>> /\ UNCHANGED <<map, t, call, resizes, rehashes, stayed, calm>>
        /\ phase = "walk"
        /\ IF from.is # "index"
           THEN phase' = from.is /\ UNCHANGED <<cursor, seen, twice>>
           ELSE IF rest = {}
           THEN phase' = "done" /\ cursor' = Nil /\ UNCHANGED <<seen, twice>>
           ELSE /\ cursor' = KeyAt(t, Least(rest))
                /\ seen' = seen \cup {cursor'}
                /\ twice' = (twice \/ cursor' \in seen)
                /\ UNCHANGED phase
    BY <1>r DEF NextPair, Ready
  <1> SUFFICES ASSUME calm PROVE WalkInv'
    BY <1>1 DEF WalkInv
  <1>p. PICK reached : reached = IF cursor = Nil THEN 0 ELSE Position(t, cursor)
    OBVIOUS
  <1>2. /\ ~twice /\ (cursor # Nil => Placed(t, cursor))
        /\ \A k \in seen : Placed(t, k) /\ Position(t, k) <= reached
        /\ \A k \in stayed : /\ table_get(t, k) # Nil
                             /\ Position(t, k) <= reached => k \in seen
    BY <1>1, <1>p DEF WalkInv
  <1>3. Shape(t) /\ cursor \in Key \cup {Nil} /\ seen \subseteq Key /\ stayed \subseteq Key
    BY DEF TypeInv
  <1>n. PICK last : last = Places(t)
    OBVIOUS
  <1>4. /\ last \in Nat
        /\ \A k \in Key : Placed(t, k) =>
              /\ Position(t, k) \in 1 .. last
              /\ find_next(t, k) = [is |-> "index", at |-> Position(t, k)]
              /\ table_get(t, k) # Nil => KeyAt(t, Position(t, k)) = k
    BY <1>3, <1>n, PositionIs
  <1>5. from.is = "index" /\ from.at = reached /\ reached \in Nat
    <2>1. CASE cursor = Nil
      <3>1. from = [is |-> "index", at |-> 0]
        BY <2>1 DEF find_next
      <3> QED BY <2>1, <3>1, <1>p
    <2>2. CASE cursor # Nil
      <3>1. /\ Position(t, cursor) \in 1 .. last
            /\ from = [is |-> "index", at |-> Position(t, cursor)]
        BY <2>2, <1>2, <1>3, <1>4
      <3> QED BY <2>2, <3>1, <1>p, <1>4
    <2> QED BY <2>1, <2>2
  <1>6. ASSUME NEW k \in stayed
        PROVE  Position(t, k) \in 1 .. last /\ KeyAt(t, Position(t, k)) = k /\ k # Nil
    <2>1. k \in Key /\ table_get(t, k) # Nil
      BY <1>2, <1>3
    <2>2. Placed(t, k)
      BY <2>1, <1>3, GetIs
    <2> QED BY <2>1, <2>2, <1>4, KeysAre
  <1>7. ASSUME NEW k \in stayed, k \notin seen PROVE Position(t, k) \in rest
    <2>1. ~(Position(t, k) <= reached)
      BY <1>2, <1>7
    <2>2. Position(t, k) > reached
      BY <2>1, <1>4, <1>5, <1>6
    <2>3. rest = {q \in 1 .. last : q > reached /\ KeyAt(t, q) # Nil}
      BY <1>5, <1>n, <1>r DEF Remaining, Places
    <2> QED BY <2>2, <2>3, <1>6
  <1>8. CASE rest = {}
    <2>1. phase' = "done" /\ UNCHANGED <<seen, twice, stayed, resizes>>
      BY <1>1, <1>5, <1>8
    <2>2. stayed \subseteq seen
      BY <1>7, <1>8
    <2> QED BY <2>1, <2>2, <1>1, <1>2 DEF WalkInv
  <1>9. CASE rest # {}
    <2>p. PICK p : p = Least(rest)
      OBVIOUS
    <2>k. PICK k : k = KeyAt(t, p)
      OBVIOUS
    <2>1. /\ p \in 1 .. last /\ p > reached
          /\ \A q \in 1 .. last : q > reached /\ KeyAt(t, q) # Nil => p <= q
          /\ k \in Key /\ k # Nil /\ Placed(t, k) /\ Position(t, k) = p
      <3>1. PICK at : at = from.at
        OBVIOUS
      <3>2. rest = Remaining(t, at) /\ at = reached
        BY <1>r, <1>5, <3>1
      <3>3. /\ p \in 1 .. last /\ p > at
            /\ \A q \in 1 .. last : q > at /\ KeyAt(t, q) # Nil => p <= q
            /\ k \in Key /\ k # Nil /\ Placed(t, k) /\ Position(t, k) = p
        BY <1>3, <1>9, <1>n, <3>2, <2>p, <2>k, NextIs
      <3> QED BY <3>2, <3>3
    <2>2. /\ cursor' = k /\ seen' = seen \cup {k} /\ twice' = (twice \/ k \in seen)
          /\ phase' = "walk"
      BY <1>1, <1>5, <1>9, <2>p, <2>k
    <2>3. p \in Nat
      BY <2>1, <1>4
    <2>4. k \notin seen
      BY <2>1, <2>3, <1>2, <1>5
    <2>5. ASSUME NEW j \in seen' PROVE Placed(t', j) /\ Position(t', j) <= p
      <3>1. CASE j \in seen
        <4>1. j \in Key /\ Placed(t, j) /\ Position(t, j) <= reached
          BY <3>1, <1>2, <1>3
        <4>2. Position(t, j) \in Nat
          BY <4>1, <1>4
        <4>3. Position(t, j) <= p
          BY <4>1, <4>2, <2>1, <2>3, <1>5
        <4> QED BY <4>1, <4>3, <1>1
      <3>2. CASE j = k
        BY <3>2, <2>1, <2>3, <1>1
      <3> QED BY <3>1, <3>2, <2>2
    <2>6. ASSUME NEW j \in stayed' PROVE table_get(t', j) # Nil /\ (Position(t', j) <= p => j \in seen')
      <3>1. j \in stayed /\ table_get(t, j) # Nil
        BY <1>1, <1>2
      <3>2. ASSUME Position(t, j) <= p, j \notin seen PROVE j = k
        <4>1. Position(t, j) \in 1 .. last /\ KeyAt(t, Position(t, j)) = j /\ j # Nil
          BY <3>1, <1>6
        <4>2. ~(Position(t, j) <= reached)
          BY <3>1, <3>2, <1>2
        <4>3. Position(t, j) > reached
          BY <4>1, <4>2, <1>4, <1>5
        <4>4. p <= Position(t, j)
          BY <4>1, <4>3, <2>1
        <4>5. Position(t, j) = p
          BY <4>1, <4>4, <3>2, <2>3, <1>4
        <4> QED BY <4>1, <4>5, <2>k
      <3> QED BY <3>1, <3>2, <2>2, <1>1
    <2>7. call'.key \notin stayed'
      BY <1>1, <1>3, KeysAre DEF Empty
    <2>8. ~twice' /\ resizes' = <<>> /\ cursor' # Nil /\ Placed(t', cursor') /\ Position(t', cursor') = p
      BY <1>1, <1>2, <2>1, <2>2, <2>4
    <2> QED BY <2>2, <2>5, <2>6, <2>7, <2>8 DEF WalkInv
  <1> QED BY <1>8, <1>9

\* A table_resize runs, so a rehash disturbed the traversal.
LEMMA WalkOther ==
  ASSUME TypeInv, WalkInv,
         Rehash \/ MoveElement \/ CutArray \/ InsertEntry \/ Return \/ (\E k \in Key : NextOf(k))
  PROVE  WalkInv'
  <1>1. CASE Rehash \/ \E k \in Key : NextOf(k)
    <2>1. calm' = FALSE
      BY <1>1 DEF Rehash, NextOf
    <2> QED BY <2>1 DEF WalkInv
  <1>2. CASE MoveElement \/ CutArray \/ InsertEntry \/ Return
    <2>1. resizes # <<>> /\ calm' = calm
      BY <1>2 DEF MoveElement, CutArray, InsertEntry, Return, Resizing
    <2>2. ~calm'
      BY <2>1 DEF WalkInv
    <2> QED BY <2>2 DEF WalkInv
  <1> QED BY <1>1, <1>2

-----------------------------------------------------------------------------

Inv == TypeInv /\ CarriedInv /\ KeptInv /\ WalkInv

LEMMA InitInv ==
  ASSUME Init
  PROVE  Inv
  <1>1. PICK size \in Presize : t = Emptied(NewTable, size[1], size[2])
    BY DEF Init
  <1>2. size[1] \in Int /\ size[2] \in Nat
    BY TableAssumption
  <1>3. Shape(NewTable)
    <2>1. /\ NewTable.array = <<>> /\ NewTable.entries = <<Empty>> /\ NewTable.count = 0
      BY DEF NewTable, EMPTY_ENTRIES
    <2>2. Empty \in Entry
      BY DEF Empty, Entry
    <2>3. NewTable \in Table
      <3>1. <<>> \in Seq(Slot) /\ <<Empty>> \in Seq(Entry)
        BY <2>2
      <3> QED BY <3>1 DEF NewTable, EMPTY_ENTRIES, Table
    <2>4. Len(NewTable.entries) > 0 /\ DOMAIN NewTable.entries = {1} /\ NewTable.entries[1] = Empty
      BY <2>1
    <2>5. Live(NewTable.array) = {}
      BY <2>1 DEF Live
    <2>6. Used(NewTable) = {}
      BY <2>4 DEF Used
    <2>7. EntryInv(NewTable)
      BY <2>4 DEF EntryInv, Empty
    <2> QED BY <2>1, <2>3, <2>4, <2>5, <2>6, <2>7, FS_EmptySet DEF Shape
  <1>4. /\ Shape(t)
        /\ \A k \in Key : table_get(t, k) = IF InArray(NewTable, k) /\ (Shrinks(NewTable, size[2]) => k <= size[2])
                                            THEN table_get(NewTable, k) ELSE Nil
    <2>1. Len(NewTable.array) = 0
      BY DEF NewTable
    <2>2. table_next_size(size[2], ARRAY_MIN) \in Nat \ {0}
      <3>1. ARRAY_MIN \in Nat /\ size[2] \in Int
        BY <1>2, TableAssumption
      <3> QED BY <3>1, NextSizeType
    <2>3. size[2] > Len(NewTable.array) => Len(NewTable.array) <= table_next_size(size[2], ARRAY_MIN)
      BY <2>1, <2>2
    <2> QED BY <1>1, <1>2, <1>3, <2>3, EmptiedReads
  <1>5. ASSUME NEW k \in Key PROVE table_get(t, k) = Nil
    <2>1. Len(NewTable.array) = 0
      BY DEF NewTable
    <2>2. ~InArray(NewTable, k)
      BY <2>1, InArrayIs, KeysAre
    <2> QED BY <2>2, <1>4
  <1>6. TypeInv
    <2>1. /\ map \in [Key -> Slot]
          /\ call = Empty /\ resizes = <<>> /\ rehashes = 0
          /\ phase = "idle" /\ cursor = Nil
          /\ seen = {} /\ twice = FALSE /\ stayed = {} /\ calm = TRUE
      BY DEF Init, Slot
    <2>2. Empty \in Entry
      BY DEF Empty, Entry
    <2>3. resizes \in Seq(Frame) /\ DOMAIN resizes = {}
      BY <2>1
    <2> QED BY <1>4, <2>1, <2>2, <2>3 DEF TypeInv
  <1>7. Carried = {} /\ CallAt(1) = Empty
    BY <1>6, CarriedNone DEF Init
  <1>8. CarriedInv
    BY <1>7 DEF CarriedInv
  <1>9. KeptInv
    <2>1. \A k \in Key : table_get(t, k) = map[k]
      BY <1>5 DEF Init
    <2> QED BY <1>7, <2>1 DEF KeptInv
  <1>10. WalkInv
    BY DEF Init, WalkInv
  <1> QED BY <1>6, <1>8, <1>9, <1>10 DEF Inv

LEMMA NextInv ==
  ASSUME Inv, [Next]_vars
  PROVE  Inv'
  <1> USE DEF Inv
  <1>1. ASSUME NEW k \in Key, NEW v \in Stored[k] \cup {Nil}, Assign(k, v) PROVE Inv'
    BY <1>1, TypeAssign, KeptAssign, WalkAssign
  <1>2. CASE Store
    BY <1>2, TypeStore, KeptStore, WalkStore
  <1>3. CASE Rehash
    BY <1>3, TypeRehash, KeptRehash, WalkOther
  <1>4. CASE MoveElement \/ InsertEntry
    BY <1>4, TypeMove, KeptMove, WalkOther
  <1>5. CASE CutArray
    <2> PICK f : f = resizes[Len(resizes)]
      OBVIOUS
    <2> PICK g : g = [f EXCEPT !.loop = "entries", !.i = 0, !.old_array = <<>>]
      OBVIOUS
    <2>1. /\ UNCHANGED <<map, t>> /\ resizes # <<>> /\ call = Empty /\ call' = Empty
          /\ resizes[Len(resizes)].loop = "array" /\ Vanishing(resizes[Len(resizes)]) = {}
          /\ resizes' = [resizes EXCEPT ![Len(resizes)] = g]
      BY <1>5, CutIs
    <2>2. f \in Frame
      BY <2>1, LevelIs, FramesAre
    <2>3. g.loop = "entries" /\ g.i = 0 /\ g.call = f.call /\ g.old_entries = f.old_entries
      BY <2>2 DEF Frame
    <2>4. /\ \A x : x \in Carried' <=> x \in Carried
          /\ \A x \in Carried : Pair(x)' = Pair(x)
          /\ CallAt(1)' = CallAt(1)
      BY <2>1, <2>3, CarriedCut
    <2> QED BY <2>1, <2>4, <1>5, KeptSame, TypeCut, WalkOther
  <1>6. CASE Return
    <2>1. /\ UNCHANGED <<map, t>> /\ resizes # <<>> /\ call = Empty
          /\ call' = resizes[Len(resizes)].call
          /\ resizes[Len(resizes)].loop = "entries" /\ Waiting(resizes[Len(resizes)]) = {}
          /\ resizes' = SubSeq(resizes, 1, Len(resizes) - 1)
      BY <1>6 DEF Return, Resizing, Innermost
    <2>2. /\ \A x : x \in Carried' <=> x \in Carried
          /\ \A x \in Carried : Pair(x)' = Pair(x)
          /\ CallAt(1)' = CallAt(1)
      BY <2>1, CarriedReturn
    <2> QED BY <2>1, <2>2, <1>6, KeptSame, TypeReturn, WalkOther
  <1>7. CASE StartPairs \/ NextPair \/ \E k \in Key : NextOf(k)
    <2>1. TypeInv' /\ UNCHANGED <<map, t, call, resizes>>
      BY <1>7, TypeWalk
    <2>2. CarriedInv' /\ KeptInv'
      BY <2>1, CarriedSame, KeptSame
    <2>3. WalkInv'
      BY <1>7, WalkStart, WalkPair, WalkOther
    <2> QED BY <2>1, <2>2, <2>3
  <1>8. CASE UNCHANGED vars
    <2>1. UNCHANGED <<map, t, call, resizes, rehashes, phase, cursor, seen, twice, stayed, calm>>
      BY <1>8 DEF vars, walking
    <2>2. CarriedInv' /\ KeptInv'
      BY <2>1, CarriedSame, KeptSame
    <2>3. TypeInv'
      <3>1. /\ phase \in {"idle", "walk", "done", "error", "hung", "UNDEFINED"}
            /\ cursor \in Key \cup {Nil} /\ seen \subseteq Key /\ stayed \subseteq Key
            /\ twice \in BOOLEAN /\ calm \in BOOLEAN
        BY DEF TypeInv
      <3> QED BY <2>1, <3>1, TypeKept
    <2>4. WalkInv'
      BY <2>1 DEF WalkInv
    <2> QED BY <2>2, <2>3, <2>4
  <1> QED BY <1>1, <1>2, <1>3, <1>4, <1>5, <1>6, <1>7, <1>8 DEF Next, AssignNext

THEOREM Invariant == Spec => []Inv
  <1>1. Init => Inv
    BY InitInv
  <1>2. Inv /\ [Next]_vars => Inv'
    BY NextInv
  <1> QED BY <1>1, <1>2, PTL DEF Spec

\* The shape of the table and the types of the variables (table_set,
\* table_resize, table_next).
THEOREM Types == Spec => []TypeOK
  <1>1. ASSUME Inv PROVE TypeOK
    <2>1. TypeInv /\ Shape(t) /\ t \in Table
      BY <1>1 DEF Inv, TypeInv, Shape
    <2>2. t.array \in Seq(Value \cup {Nil}) /\ t.entries \in Seq(Entry)
      BY <2>1 DEF Table, Slot
    <2>3. t.count = Cardinality({i \in DOMAIN t.entries : t.entries[i] # Empty})
      BY <2>1 DEF Shape, Used
    <2>4. \A i \in DOMAIN t.entries :
            t.entries[i].key # Nil => /\ ~InArray(t, t.entries[i].key)
                                      /\ table_get_entry(t, t.entries[i].key) = i
      BY <2>1 DEF Shape, EntryInv
    <2>5. /\ call \in Entry
          /\ phase \in {"idle", "walk", "done", "error", "hung", "UNDEFINED"}
          /\ cursor \in Key \cup {Nil}
          /\ seen \subseteq Key /\ stayed \subseteq Key
          /\ {twice, calm} \subseteq BOOLEAN
      BY <2>1 DEF TypeInv
    <2> QED BY <2>2, <2>3, <2>4, <2>5 DEF TypeOK
  <1> QED BY <1>1, Invariant, PTL

\* Every key reads as what the program assigned last, whatever the rehashes
\* moved (table_get, table_set, table_rehash, table_resize).
THEOREM Reads == Spec => []ReadsBack
  <1>1. ASSUME Inv PROVE ReadsBack
    <2> SUFFICES ASSUME Ready, NEW k \in Key PROVE table_get(t, k) = map[k]
      BY DEF ReadsBack
    <2>1. Carried = {} /\ CallAt(1) = Empty
      BY <1>1, CarriedNone DEF Inv, Ready
    <2>2. k # CallAt(1).key
      BY <2>1, KeysAre DEF Empty
    <2> QED BY <1>1, <2>1, <2>2 DEF Inv, KeptInv
  <1> QED BY <1>1, Invariant, PTL

\* A traversal that no rehash disturbs returns each key once and misses none
\* (find_next, table_next).
THEOREM Traversals == Spec => []TraversalExact
  <1>1. Inv => TraversalExact
    BY DEF Inv, WalkInv, TraversalExact
  <1> QED BY <1>1, Invariant, PTL

\* Integer keys are finitely many, so the run of elements ends.
LEMMA GapAbove ==
  ASSUME NEW n \in Nat
  PROVE  /\ Cardinality(Index) \in Nat
         /\ \E m \in n .. (n + Cardinality(Index)) : m + 1 \notin Index
  <1> DEFINE c == Cardinality(Index)
             S == (n + 1) .. (n + c + 1)
  <1>1. IsFiniteSet(Index) /\ c \in Nat
    BY KeysAre, FS_CardinalityType
  <1> HIDE DEF c
  <1>2. Cardinality(S) = c + 1
    <2>1. n + 1 \in Int /\ n + c + 1 \in Int /\ ~(n + 1 > n + c + 1) /\ (n + c + 1) - (n + 1) + 1 = c + 1
      BY <1>1
    <2> PICK a, b : a = n + 1 /\ b = n + c + 1
      OBVIOUS
    <2>2. Cardinality(a .. b) = IF a > b THEN 0 ELSE b - a + 1
      BY <2>1, FS_Interval
    <2> QED BY <2>1, <2>2
  <1>3. ASSUME S \subseteq Index PROVE FALSE
    <2>1. Cardinality(S) <= c
      BY <1>1, <1>3, FS_Subset DEF c
    <2> QED BY <2>1, <1>1, <1>2
  <1>4. PICK x \in S : x \notin Index
    BY <1>3
  <1>5. x - 1 \in n .. (n + c) /\ (x - 1) + 1 = x
    BY <1>1, <1>4
  <1> QED BY <1>1, <1>4, <1>5 DEF c

LEMMA BorderIs ==
  ASSUME NEW tab, Shape(tab), NEW n, n = table_len(tab)
  PROVE  /\ n \in Nat
         /\ n > 0 => n \in Index /\ table_get(tab, n) # Nil
         /\ n + 1 \in Index => table_get(tab, n + 1) = Nil
  <1>1. tab \in Table /\ Len(tab.entries) > 0 /\ EntryInv(tab) /\ Live(tab.array) \subseteq Index
    BY DEF Shape
  <1>m. PICK last : last = Len(tab.array)
    OBVIOUS
  <1>2. last \in Nat /\ DOMAIN tab.array = 1 .. last
    BY <1>1, <1>m, ArrayIs
  <1>3. \A k \in Index : InArray(tab, k) <=> k <= last
    BY <1>1, <1>2, <1>m, InArrayIs
  <1>4. \A k \in Key : /\ InArray(tab, k) => table_get(tab, k) = tab.array[k]
                       /\ ~InArray(tab, k) => table_get(tab, k) = table_hash_get(tab, k)
    BY GetIs DEF table_get
  <1>5. ASSUME NEW k \in 1 .. last, tab.array[k] # Nil PROVE k \in Index /\ table_get(tab, k) # Nil
    <2>1. k \in Index
      BY <1>1, <1>2, <1>5 DEF Live
    <2>2. InArray(tab, k)
      BY <2>1, <1>2, <1>3
    <2> QED BY <2>1, <2>2, <1>4, <1>5, KeysAre
  <1> DEFINE holes == {i \in DOMAIN tab.array : tab.array[i] = Nil}
             Gap(m) == m + 1 \notin Index \/ table_hash_get(tab, m + 1) = Nil
             Ends0(m) == Gap(m) /\ \A l \in last .. (m - 1) : ~Gap(l)
  <1>6. n = IF holes # {} THEN Least(holes) - 1
            ELSE IF Hashed(tab)
            THEN CHOOSE m \in last .. (last + Cardinality(Index)) : Ends0(m)
            ELSE last
    BY <1>m DEF table_len
  <1>7. CASE holes # {}
    <2>1. PICK h : h = Least(holes)
      OBVIOUS
    <2>2. holes \subseteq Nat
      BY <1>2
    <2>3. h \in holes /\ \A j \in holes : h <= j
      BY <2>1, <2>2, <1>7, LeastIs
    <2>4. h \in 1 .. last /\ tab.array[h] = Nil /\ n = h - 1
      BY <2>1, <2>3, <1>2, <1>6, <1>7
    <2>5. n \in Nat /\ n + 1 = h
      BY <2>4
    <2>6. ASSUME n > 0 PROVE n \in Index /\ table_get(tab, n) # Nil
      <3>1. n \in 1 .. last /\ ~(h <= n)
        BY <2>4, <2>6, <1>2
      <3>2. tab.array[n] # Nil
        BY <3>1, <2>3, <1>2
      <3> QED BY <3>1, <3>2, <1>5
    <2>7. ASSUME h \in Index PROVE table_get(tab, h) = Nil
      BY <2>4, <2>7, <1>3, <1>4, KeysAre
    <2> QED BY <2>5, <2>6, <2>7
  <1>8. CASE holes = {}
    <2>1. ASSUME last > 0 PROVE last \in Index /\ table_get(tab, last) # Nil
      <3>1. last \in 1 .. last
        BY <2>1, <1>2
      <3>2. tab.array[last] # Nil
        BY <3>1, <1>2, <1>8
      <3> QED BY <3>1, <3>2, <1>5
    <2>2. ASSUME NEW k \in Index, k > last
          PROVE  k \in Key /\ table_get(tab, k) = table_hash_get(tab, k)
      <3>1. ~(k <= last)
        BY <2>2, <1>2, KeysAre
      <3> QED BY <3>1, <1>3, <1>4, KeysAre
    <2>3. CASE ~Hashed(tab)
      <3>1. n = last
        BY <2>3, <1>6, <1>8
      <3>2. \A k \in Key : table_hash_get(tab, k) = Nil
        BY <2>3 DEF table_hash_get, table_get_entry
      <3>3. last + 1 > last
        BY <1>2
      <3>4. last + 1 \in Index => table_get(tab, last + 1) = Nil
        BY <2>2, <3>2, <3>3
      <3> QED BY <2>1, <3>1, <3>4, <1>2
    <2>4. CASE Hashed(tab)
      <3>0. /\ Cardinality(Index) \in Nat
            /\ \E m \in last .. (last + Cardinality(Index)) : m + 1 \notin Index
        BY <1>2, GapAbove
      <3>t. PICK top : top = last + Cardinality(Index)
        OBVIOUS
      <3>1. top \in Nat /\ \E m \in last .. top : m + 1 \notin Index
        BY <1>2, <3>0, <3>t
      <3> DEFINE S == {m \in last .. top : Gap(m)}
      <3>2. S \subseteq Nat /\ S # {}
        <4>1. S \subseteq last .. top /\ last .. top \subseteq Nat
          BY <3>1, <1>2
        <4>2. PICK m \in last .. top : m + 1 \notin Index
          BY <3>1
        <4>3. m \in S
          BY <4>2
        <4> QED BY <4>1, <4>3
      <3>3. PICK least : least = Least(S)
        OBVIOUS
      <3>4. least \in S /\ \A j \in S : least <= j
        BY <3>2, <3>3, LeastIs
      <3>5. least \in last .. top /\ Ends0(least)
        <4>1. least \in last .. top /\ Gap(least)
          BY <3>4
        <4>2. ASSUME NEW l \in last .. (least - 1) PROVE ~Gap(l)
          <5>1. l \in last .. top /\ ~(least <= l)
            BY <4>1, <1>2, <3>1
          <5> QED BY <5>1, <3>4
        <4> QED BY <4>1, <4>2
      <3> HIDE DEF Ends0
      <3>6. n = CHOOSE m \in last .. top : Ends0(m)
        BY <2>4, <1>6, <1>8, <3>t
      <3>7. n \in last .. top /\ Ends0(n)
        BY <3>5, <3>6
      <3> USE DEF Ends0
      <3>8. n \in Nat /\ n >= last
        BY <3>7, <1>2
      <3>9. CASE n = last
        <4>1. last + 1 > last
          BY <1>2
        <4>2. last + 1 \in Index => table_get(tab, last + 1) = Nil
          BY <3>7, <3>9, <4>1, <2>2
        <4> QED BY <2>1, <3>9, <4>2, <1>2
      <3>10. CASE n # last
        <4>1. n > last /\ n - 1 \in last .. (n - 1) /\ (n - 1) + 1 = n /\ n + 1 > last
          BY <3>8, <3>10, <1>2
        <4>2. ~Gap(n - 1)
          BY <4>1, <3>7
        <4>3. n \in Index /\ table_hash_get(tab, n) # Nil
          BY <4>1, <4>2
        <4>4. table_get(tab, n) # Nil
          BY <4>1, <4>3, <2>2
        <4>5. n + 1 \in Index => table_get(tab, n + 1) = Nil
          BY <4>1, <3>7, <2>2
        <4> QED BY <3>8, <4>3, <4>4, <4>5
      <3> QED BY <3>9, <3>10
    <2> QED BY <2>3, <2>4
  <1> QED BY <1>7, <1>8

\* #t is a border of the table, whichever of its parts the elements are in
\* (table_len).
THEOREM Lengths == Spec => []LenIsBorder
  <1>1. ASSUME Inv PROVE LenIsBorder
    <2>1. Shape(t)
      BY <1>1 DEF Inv, TypeInv
    <2> QED BY <2>1, BorderIs DEF LenIsBorder
  <1> QED BY <1>1, Invariant, PTL

\* Two parts of a finite set.
LEMMA TwoParts ==
  ASSUME NEW Whole, IsFiniteSet(Whole), NEW A, NEW B, A \subseteq Whole, B \subseteq Whole, A \cap B = {}
  PROVE  /\ Cardinality(A) \in Nat /\ Cardinality(B) \in Nat /\ Cardinality(Whole) \in Nat
         /\ Cardinality(A) + Cardinality(B) <= Cardinality(Whole)
  <1>1. IsFiniteSet(A) /\ IsFiniteSet(B)
    BY FS_Subset
  <1>2. Cardinality(A \cup B) = Cardinality(A) + Cardinality(B) - Cardinality(A \cap B)
    BY <1>1, FS_Union
  <1>3. Cardinality(A \cap B) = 0
    BY FS_EmptySet
  <1>4. Cardinality(A) \in Nat /\ Cardinality(B) \in Nat /\ Cardinality(Whole) \in Nat
    BY <1>1, FS_CardinalityType
  <1>5. A \cup B \subseteq Whole
    OBVIOUS
  <1>6. Cardinality(A \cup B) <= Cardinality(Whole)
    BY <1>5, FS_Subset
  <1> QED BY <1>2, <1>3, <1>4, <1>6

\* The lookup table has every index.
FewIndices == Index \subseteq 1 .. Pow2[LOOKUP_BITS]

LEMMA RangeIs ==
  ASSUME FewIndices, NEW i, array_index(i) > 0, NEW bit \in Nat
  PROVE  i \in Index /\ array_index(i) = i /\ (mem_ceil_log2(i) <= bit <=> i <= Pow2[bit])
  <1>1. i \in Index /\ array_index(i) = i
    <2>1. ~(-1 > 0)
      OBVIOUS
    <2> QED BY <2>1, ArrayIndexIs
  <1>2. i \in Nat /\ Pow2[bit] \in Nat
    BY <1>1, KeysAre, Pow2Above
  <1>3. i <= Pow2[LOOKUP_BITS]
    BY <1>1 DEF FewIndices
  <1>4. mem_ceil_log2(i) \in Nat /\ (i <= Pow2[bit] => mem_ceil_log2(i) <= bit) /\ i <= Pow2[mem_ceil_log2(i)]
    BY <1>2, <1>3, CeilLog2Bounds
  <1>5. ASSUME mem_ceil_log2(i) <= bit PROVE i <= Pow2[bit]
    <2>1. Pow2[mem_ceil_log2(i)] <= Pow2[bit] /\ Pow2[mem_ceil_log2(i)] \in Nat
      BY <1>4, <1>5, Pow2Monotone, Pow2Above
    <2> QED BY <2>1, <1>2, <1>4
  <1> QED BY <1>1, <1>4, <1>5

\* What table_array_count, table_hash_count_array and count_index count up to a
\* power of two.
CountedElements(tab, bit) == {i \in Live(tab.array) : i <= Pow2[bit]}
CountedEntries(tab, bit) == {e \in HashedIndices(tab) : tab.entries[e].key <= Pow2[bit]}

LEMMA CountIs ==
  ASSUME FewIndices, NEW tab, tab \in Table, NEW k \in Key, NEW bit \in Nat
  PROVE  /\ CountUpTo(tab, k, bit) = Cardinality(CountedElements(tab, bit))
                                     + Cardinality(CountedEntries(tab, bit))
                                     + (IF k \in Index /\ k <= Pow2[bit] THEN 1 ELSE 0)
         /\ CountedElements(tab, bit) \subseteq Live(tab.array)
         /\ CountedEntries(tab, bit) \subseteq DOMAIN tab.entries
         /\ \A e \in CountedEntries(tab, bit) :
              tab.entries[e].key \in Index /\ tab.entries[e].key <= Pow2[bit]
  <1> DEFINE Counts(i) == i > 0 /\ mem_ceil_log2(i) <= bit
             H == {e \in HashedIndices(tab) : Counts(array_index(tab.entries[e].key))}
  <1>1. CountUpTo(tab, k, bit) = Cardinality(CountedElements(tab, bit)) + Cardinality(H)
                                 + IF Counts(array_index(k)) THEN 1 ELSE 0
    BY DEF CountUpTo, CountedElements
  <1>2. H = CountedEntries(tab, bit)
    <2>1. ASSUME NEW e \in HashedIndices(tab)
          PROVE  Counts(array_index(tab.entries[e].key)) <=> tab.entries[e].key <= Pow2[bit]
      <3>1. array_index(tab.entries[e].key) > 0
        BY DEF HashedIndices
      <3> QED BY <3>1, RangeIs
    <2> HIDE DEF Counts
    <2> QED BY <2>1 DEF CountedEntries
  <1>3. Counts(array_index(k)) <=> k \in Index /\ k <= Pow2[bit]
    <2>1. CASE array_index(k) > 0
      BY <2>1, RangeIs
    <2>2. CASE ~(array_index(k) > 0)
      BY <2>2, ArrayIndexIs, KeysAre
    <2> QED BY <2>1, <2>2
  <1>4. \A e \in CountedEntries(tab, bit) : tab.entries[e].key \in Index /\ tab.entries[e].key <= Pow2[bit]
    <2> SUFFICES ASSUME NEW e \in CountedEntries(tab, bit) PROVE tab.entries[e].key \in Index
      BY DEF CountedEntries
    <2>1. array_index(tab.entries[e].key) > 0
      BY DEF HashedIndices, CountedEntries
    <2> QED BY <2>1, RangeIs
  <1>5. CountedElements(tab, bit) \subseteq Live(tab.array) /\ CountedEntries(tab, bit) \subseteq DOMAIN tab.entries
    BY DEF CountedElements, CountedEntries, HashedIndices
  <1> HIDE DEF Counts, H
  <1> QED BY <1>1, <1>2, <1>3, <1>4, <1>5

\* The sizes of a rehash by what it counts.
Counted(tab, k) ==
  Cardinality(Live(tab.array)) + Cardinality(HashedIndices(tab)) + IF array_index(k) > 0 THEN 1 ELSE 0
IndexRanges(tab, k) == [bit \in 0 .. Counted(tab, k) |-> CountUpTo(tab, k, bit)]

LEMMA SizesByCount ==
  ASSUME NEW tab, tab \in Table, NEW k
  PROVE  /\ Counted(tab, k) \in Nat
         /\ LET all == Cardinality(Live(tab.array)) + (IF Hashed(tab) THEN Len(tab.entries) ELSE 0) + 1
            IN  \/ /\ Fits(IndexRanges(tab, k), Counted(tab, k)) = {}
                   /\ RehashSizes(tab, k) = [n_hash |-> all, n_array |-> 0]
                \/ \E bit \in Fits(IndexRanges(tab, k), Counted(tab, k)) :
                     /\ \A other \in Fits(IndexRanges(tab, k), Counted(tab, k)) : other <= bit
                     /\ bit \in 0 .. Counted(tab, k)
                     /\ RehashSizes(tab, k) = [n_hash |-> all - CountUpTo(tab, k, bit), n_array |-> Pow2[bit]]
  <1> DEFINE all == Cardinality(Live(tab.array)) + (IF Hashed(tab) THEN Len(tab.entries) ELSE 0) + 1
             n == Counted(tab, k)
             acc == IndexRanges(tab, k)
             size == table_array_compute_size(acc, n)
  <1>1. n \in Nat
    <2>1. Cardinality(Live(tab.array)) \in Nat
      BY FiniteParts
    <2>2. Cardinality(HashedIndices(tab)) \in Nat
      BY FiniteParts DEF HashedIndices
    <2> QED BY <2>1, <2>2 DEF Counted
  <1>2. all \in Nat
    <2>1. Cardinality(Live(tab.array)) \in Nat
      BY FiniteParts
    <2>2. Len(tab.entries) \in Nat
      BY ArrayIs
    <2> QED BY <2>1, <2>2
  <1>3. RehashSizes(tab, k) = [n_hash |-> all - size.active, n_array |-> size.optimal]
    BY DEF RehashSizes, Counted, IndexRanges
  <1>4. \A bit \in 0 .. n : acc[bit] = CountUpTo(tab, k, bit)
    BY DEF IndexRanges
  <1> HIDE DEF all, n, acc
  <1>5. \/ Fits(acc, n) = {} /\ size = [optimal |-> 0, active |-> 0]
        \/ \E bit \in Fits(acc, n) :
              /\ \A other \in Fits(acc, n) : other <= bit
              /\ size = [optimal |-> Pow2[bit], active |-> acc[bit]]
    BY <1>1, ComputeSizeIs
  <1> HIDE DEF size
  <1>6. CASE Fits(acc, n) = {} /\ size = [optimal |-> 0, active |-> 0]
    <2>1. RehashSizes(tab, k) = [n_hash |-> all - 0, n_array |-> 0]
      BY <1>3, <1>6
    <2>2. all - 0 = all
      BY <1>2
    <2>3. Fits(acc, n) = {} /\ RehashSizes(tab, k) = [n_hash |-> all, n_array |-> 0]
      BY <2>1, <2>2, <1>6
    <2> QED BY <2>3, <1>1 DEF all, n, acc
  <1>7. CASE \E bit \in Fits(acc, n) :
              /\ \A other \in Fits(acc, n) : other <= bit
              /\ size = [optimal |-> Pow2[bit], active |-> acc[bit]]
    <2>1. PICK bit \in Fits(acc, n) :
              /\ \A other \in Fits(acc, n) : other <= bit
              /\ size = [optimal |-> Pow2[bit], active |-> acc[bit]]
      BY <1>7
    <2>2. bit \in 0 .. n
      BY DEF Fits
    <2>3. RehashSizes(tab, k) = [n_hash |-> all - CountUpTo(tab, k, bit), n_array |-> Pow2[bit]]
      BY <2>1, <2>2, <1>3, <1>4
    <2>4. \E b \in Fits(acc, n) :
                     /\ \A other \in Fits(acc, n) : other <= b
                     /\ b \in 0 .. n
                     /\ RehashSizes(tab, k) = [n_hash |-> all - CountUpTo(tab, k, b), n_array |-> Pow2[b]]
      BY <2>1, <2>2, <2>3
    <2> QED BY <2>4, <1>1 DEF all, n, acc
  <1> QED BY <1>5, <1>6, <1>7

\* What a rehash has to find an entry for.
Moved(tab, last) == {i \in Live(tab.array) : ~(i <= last)}
Reinserted(tab, last) ==
  {e \in DOMAIN tab.entries : /\ tab.entries[e].key # Nil
                              /\ ~(tab.entries[e].key \in Index /\ tab.entries[e].key <= last)}

LEMMA RoomFor ==
  ASSUME FewIndices, NEW tab, Shape(tab), NEW k \in Key,
         NEW last \in Nat, RehashSizes(tab, k).n_array <= last
  PROVE  /\ IsFiniteSet(Moved(tab, last)) /\ IsFiniteSet(Reinserted(tab, last))
         /\ Cardinality(Moved(tab, last)) \in Nat /\ Cardinality(Reinserted(tab, last)) \in Nat
         /\ Cardinality(Moved(tab, last)) + Cardinality(Reinserted(tab, last))
              + (IF k \in Index /\ k <= last THEN 0 ELSE 1) <= RehashSizes(tab, k).n_hash
  <1> DEFINE A == Moved(tab, last)
             B == Reinserted(tab, last)
             E == IF Hashed(tab) THEN Len(tab.entries) ELSE 0
             more == IF k \in Index /\ k <= last THEN 0 ELSE 1
  <1>1. tab \in Table
    BY DEF Shape
  <1>2. A \subseteq Live(tab.array) /\ B \subseteq DOMAIN tab.entries
    BY DEF Moved, Reinserted
  <1>3. IsFiniteSet(A) /\ IsFiniteSet(B)
    BY <1>1, <1>2, FiniteParts
  <1>4. IsFiniteSet(Live(tab.array)) /\ IsFiniteSet(DOMAIN tab.entries) /\ Cardinality(DOMAIN tab.entries) = Len(tab.entries)
    <2>1. Len(tab.entries) \in Nat /\ DOMAIN tab.entries = 1 .. Len(tab.entries)
      BY <1>1, ArrayIs
    <2>2. IsFiniteSet(Live(tab.array)) /\ IsFiniteSet(DOMAIN tab.entries)
      BY <1>1, FiniteParts
    <2> PICK n : n = Len(tab.entries)
      OBVIOUS
    <2>3. Cardinality(1 .. n) = n
      BY <2>1, FS_Interval
    <2> QED BY <2>1, <2>2, <2>3
  <1>5. ASSUME ~Hashed(tab) PROVE B = {} /\ HashedIndices(tab) = {}
    <2>1. DOMAIN tab.entries = {1} /\ tab.entries[1] = Empty
      BY <1>5 DEF Hashed, EMPTY_ENTRIES
    <2>2. array_index(Nil) = -1
      BY KeysAre, ArrayIndexIs DEF Key
    <2> QED BY <2>1, <2>2 DEF Reinserted, HashedIndices, Empty
  <1>6. ASSUME NEW H, H \subseteq DOMAIN tab.entries, H \cap B = {}, ~Hashed(tab) => H = {}
        PROVE  Cardinality(B) \in Nat /\ Cardinality(H) \in Nat /\ Cardinality(B) + Cardinality(H) <= E /\ E \in Nat
    <2>1. CASE Hashed(tab)
      <3>1. /\ Cardinality(H) \in Nat /\ Cardinality(B) \in Nat /\ Cardinality(DOMAIN tab.entries) \in Nat
            /\ Cardinality(H) + Cardinality(B) <= Cardinality(DOMAIN tab.entries)
        BY <1>2, <1>4, <1>6, TwoParts
      <3> QED BY <3>1, <2>1, <1>4
    <2>2. CASE ~Hashed(tab)
      <3>1. B = {} /\ H = {} /\ E = 0
        BY <2>2, <1>5, <1>6
      <3> QED BY <3>1, FS_EmptySet
    <2> QED BY <2>1, <2>2
  <1>7. ASSUME NEW L, L \subseteq Live(tab.array), L \cap A = {}
        PROVE  /\ Cardinality(A) \in Nat /\ Cardinality(L) \in Nat /\ Cardinality(Live(tab.array)) \in Nat
               /\ Cardinality(A) + Cardinality(L) <= Cardinality(Live(tab.array))
    <2>1. A \cap L = {}
      BY <1>7
    <2> QED BY <1>2, <1>4, <1>7, <2>1, TwoParts
  <1> DEFINE all == Cardinality(Live(tab.array)) + E + 1
  <1>8. \/ RehashSizes(tab, k) = [n_hash |-> all, n_array |-> 0]
        \/ \E bit \in Nat : RehashSizes(tab, k) = [n_hash |-> all - CountUpTo(tab, k, bit), n_array |-> Pow2[bit]]
    <2>1. Counted(tab, k) \in Nat
      BY <1>1, SizesByCount
    <2> QED BY <2>1, <1>1, SizesByCount
  <1> HIDE DEF A, B, E, all
  <1>9. CASE RehashSizes(tab, k) = [n_hash |-> all, n_array |-> 0]
    <2>1. Cardinality(B) \in Nat /\ Cardinality({}) \in Nat /\ Cardinality(B) + Cardinality({}) <= E /\ E \in Nat
      BY <1>6
    <2>2. /\ Cardinality(A) \in Nat /\ Cardinality({}) \in Nat /\ Cardinality(Live(tab.array)) \in Nat
          /\ Cardinality(A) + Cardinality({}) <= Cardinality(Live(tab.array))
      BY <1>7
    <2>3. Cardinality(A) + Cardinality(B) + more <= all
      BY <2>1, <2>2 DEF all
    <2>4. RehashSizes(tab, k).n_hash = all
      BY <1>9
    <2> QED BY <2>1, <2>2, <2>3, <2>4, <1>3 DEF A, B
  <1>10. CASE \E bit \in Nat : RehashSizes(tab, k) = [n_hash |-> all - CountUpTo(tab, k, bit), n_array |-> Pow2[bit]]
    <2> PICK bit \in Nat : RehashSizes(tab, k) = [n_hash |-> all - CountUpTo(tab, k, bit), n_array |-> Pow2[bit]]
      BY <1>10
    <2>1. RehashSizes(tab, k).n_hash = all - CountUpTo(tab, k, bit) /\ RehashSizes(tab, k).n_array = Pow2[bit]
      OBVIOUS
    <2> DEFINE L == CountedElements(tab, bit)
               H == CountedEntries(tab, bit)
               one == IF k \in Index /\ k <= Pow2[bit] THEN 1 ELSE 0
    <2>2. /\ CountUpTo(tab, k, bit) = Cardinality(L) + Cardinality(H) + one
          /\ L \subseteq Live(tab.array) /\ H \subseteq DOMAIN tab.entries
          /\ \A e \in H : tab.entries[e].key \in Index /\ tab.entries[e].key <= Pow2[bit]
      BY <1>1, CountIs
    <2>3. Pow2[bit] \in Nat /\ Pow2[bit] <= last
      BY <2>1, Pow2Above
    <2>4. \A i \in Index : i <= Pow2[bit] => i <= last
      BY <2>3, KeysAre
    <2>5. L \cap A = {}
      <3> SUFFICES ASSUME NEW i \in L, i \in A PROVE FALSE
        OBVIOUS
      <3>1. i \in Index /\ i <= Pow2[bit] /\ ~(i <= last)
        BY DEF CountedElements, Moved, A, Shape
      <3> QED BY <3>1, <2>4
    <2>6. H \cap B = {}
      BY <2>2, <2>4 DEF B, Reinserted
    <2>7. ~Hashed(tab) => H = {}
      BY <1>5 DEF CountedEntries
    <2> HIDE DEF L, H
    <2>8. Cardinality(B) \in Nat /\ Cardinality(H) \in Nat /\ Cardinality(B) + Cardinality(H) <= E /\ E \in Nat
      BY <1>6, <2>2, <2>6, <2>7
    <2>9. /\ Cardinality(A) \in Nat /\ Cardinality(L) \in Nat /\ Cardinality(Live(tab.array)) \in Nat
          /\ Cardinality(A) + Cardinality(L) <= Cardinality(Live(tab.array))
      BY <1>7, <2>2, <2>5
    <2>10. more + one <= 1 /\ more \in Nat /\ one \in Nat
      BY <2>4
    <2> HIDE DEF more, one
    <2>11. Cardinality(A) + Cardinality(B) + more <= all - CountUpTo(tab, k, bit)
      BY <2>2, <2>8, <2>9, <2>10 DEF all
    <2> QED BY <2>1, <2>8, <2>9, <2>11, <1>3 DEF A, B, more
  <1> QED BY <1>8, <1>9, <1>10

-----------------------------------------------------------------------------
(* Room for what a rehash moves *)

\* The pairs that the innermost table_resize moves, and their keys as far as the
\* hash part has to have an entry for them.
Own == {x \in Carried : x = <<Level, "call", 0>> \/ (x[1] = Len(resizes) /\ x[2] # "call")}
Bound == {k \in Key : ~InArray(t, k) /\ \E x \in Own : Pair(x).key = k}

\* Unless a rehash happened inside of it, the innermost table_resize has asked
\* for an entry for each of them and for one more, if the key needs it that the
\* rehash is for.
RoomFits(f) ==
  /\ IsFiniteSet(Bound) /\ Cardinality(Bound) \in Nat
  /\ t.count + Cardinality(Bound) + (IF InArray(t, f.call.key) THEN 0 ELSE 1) <= f.n_hash
  /\ f.n_hash > 0 => Len(t.entries) > 1
RoomInv ==
  /\ \A l \in DOMAIN resizes : /\ resizes[l].nth <= rehashes
                               /\ l < Len(resizes) => resizes[l].nth < rehashes
  /\ resizes # <<>> /\ Innermost.nth = rehashes => RoomFits(Innermost)

LEMMA RoomSame ==
  ASSUME TypeInv, NEW f, f.n_hash \in Int, RoomFits(f), UNCHANGED t,
         NEW g, g.call = f.call, g.n_hash = f.n_hash,
         \A k \in Key : (\E x \in Own' : Pair(x)'.key = k) => \E x \in Own : Pair(x).key = k
  PROVE  RoomFits(g)'
  <1>1. Bound' \subseteq Bound
    BY DEF Bound
  <1>2. IsFiniteSet(Bound') /\ Cardinality(Bound') <= Cardinality(Bound)
    BY <1>1, FS_Subset DEF RoomFits
  <1>3. Cardinality(Bound') \in Nat
    BY <1>2, FS_CardinalityType
  <1>4. t.count \in Nat
    BY DEF TypeInv, Shape, Table
  <1> PICK b, c : b = Cardinality(Bound) /\ c = Cardinality(Bound')
    OBVIOUS
  <1>5. /\ b \in Nat /\ t.count + b + (IF InArray(t, f.call.key) THEN 0 ELSE 1) <= f.n_hash
        /\ f.n_hash > 0 => Len(t.entries) > 1
    BY DEF RoomFits
  <1>6. t.count + c + (IF InArray(t, g.call.key) THEN 0 ELSE 1) <= g.n_hash
    BY <1>2, <1>3, <1>4, <1>5
  <1>7. t'.count + Cardinality(Bound') + (IF InArray(t', g.call.key) THEN 0 ELSE 1) <= g.n_hash
    BY <1>6
  <1> QED BY <1>2, <1>3, <1>5, <1>7 DEF RoomFits

LEMMA Innermosts ==
  ASSUME TypeInv, resizes # <<>>
  PROVE  /\ Len(resizes) \in DOMAIN resizes /\ Innermost = resizes[Len(resizes)]
         /\ Innermost \in Frame /\ Innermost.call \in Entry /\ Innermost.call.key \in Key
         /\ Innermost.n_hash \in Int /\ Innermost.nth \in Nat
         /\ DOMAIN resizes = 1 .. Len(resizes) /\ Len(resizes) \in Nat
         /\ \A l \in DOMAIN resizes : resizes[l] \in Frame /\ resizes[l].nth \in Nat
  <1>1. resizes \in Seq(Frame) /\ \A l \in DOMAIN resizes : FrameInv(resizes[l])
    BY DEF TypeInv
  <1>2. /\ Len(resizes) \in DOMAIN resizes /\ DOMAIN resizes = 1 .. Len(resizes) /\ Len(resizes) \in Nat
        /\ \A l \in DOMAIN resizes : resizes[l] \in Frame
    BY <1>1
  <1>3. Innermost = resizes[Len(resizes)]
    BY DEF Innermost
  <1>4. Innermost \in Frame /\ Innermost.call.key # Nil
    BY <1>1, <1>2, <1>3 DEF FrameInv
  <1>5. /\ Innermost.call \in Entry /\ Innermost.n_hash \in Int /\ Innermost.nth \in Nat
        /\ \A l \in DOMAIN resizes : resizes[l].nth \in Nat
    BY <1>2, <1>4 DEF Frame
  <1>6. Innermost.call.key \in Key
    BY <1>4, <1>5 DEF Entry
  <1> QED BY <1>2, <1>3, <1>4, <1>5, <1>6

LEMMA RoomStays ==
  ASSUME TypeInv, RoomInv, UNCHANGED <<t, rehashes>>, resizes # <<>>,
         NEW g, g.call = Innermost.call, g.n_hash = Innermost.n_hash, g.nth = Innermost.nth,
         resizes' = [resizes EXCEPT ![Len(resizes)] = g],
         \A k \in Key : (\E x \in Own' : Pair(x)'.key = k) => \E x \in Own : Pair(x).key = k
  PROVE  RoomInv'
  <1> PICK n : n = Len(resizes)
    OBVIOUS
  <1>1. n \in DOMAIN resizes /\ Innermost = resizes[n] /\ resizes \in Seq(Frame)
    BY Innermosts DEF TypeInv
  <1>2. /\ DOMAIN resizes' = DOMAIN resizes /\ Len(resizes') = n
        /\ \A l \in DOMAIN resizes : resizes'[l] = IF l = n THEN g ELSE resizes[l]
    BY <1>1
  <1>3. Innermost' = g /\ resizes' # <<>>
    BY <1>1, <1>2 DEF Innermost
  <1>4. \A l \in DOMAIN resizes' : resizes'[l].nth = resizes[l].nth
    BY <1>1, <1>2
  <1>5. ASSUME g.nth = rehashes PROVE RoomFits(g)'
    BY <1>5, Innermosts, RoomSame DEF RoomInv
  <1>6. ASSUME NEW l \in DOMAIN resizes'
        PROVE  resizes'[l].nth <= rehashes' /\ (l < Len(resizes') => resizes'[l].nth < rehashes')
    BY <1>2, <1>4 DEF RoomInv
  <1> QED BY <1>3, <1>5, <1>6 DEF RoomInv

LEMMA RoomMove ==
  ASSUME TypeInv, RoomInv, MoveElement \/ InsertEntry
  PROVE  RoomInv'
  <1> PICK src : src = <<Len(resizes), Innermost.loop,
                         IF Innermost.loop = "array" THEN Least(Vanishing(Innermost)) ELSE Least(Waiting(Innermost))>>
    OBVIOUS
  <1>1. /\ src \in Carried /\ call' = Pair(src) /\ Pair(src) # Empty
        /\ Pair(src).key \in Key /\ Pair(src).value \in Value
        /\ resizes # <<>> /\ call = Empty /\ phase # "UNDEFINED"
        /\ src[1] = Len(resizes) /\ src[2] \in {"array", "entries"}
        /\ src[2] = resizes[Len(resizes)].loop
        /\ src[2] = "array" => src[3] = Least(Vanishing(resizes[Len(resizes)]))
        /\ src[2] = "entries" => src[3] = Least(Waiting(resizes[Len(resizes)]))
        /\ resizes' = [resizes EXCEPT ![Len(resizes)].i = src[3]]
        /\ UNCHANGED <<t, rehashes>>
    BY MoveIs
  <1>2. /\ \A x \in Carried : x # src => x \in Carried' /\ Pair(x)' = Pair(x)
        /\ \A x \in Carried' : x # <<Level, "call", 0>> => x \in Carried /\ x # src
        /\ <<Level, "call", 0>> \in Carried' /\ Pair(<<Level, "call", 0>>)' = Pair(src)
    BY <1>1, CarriedMove
  <1> PICK g : g = [Innermost EXCEPT !.i = src[3]]
    OBVIOUS
  <1>3. Innermost \in Frame /\ Innermost = resizes[Len(resizes)] /\ Len(resizes) \in DOMAIN resizes
    BY <1>1, Innermosts
  <1>4. g.call = Innermost.call /\ g.n_hash = Innermost.n_hash /\ g.nth = Innermost.nth
    BY <1>3 DEF Frame
  <1>5. resizes' = [resizes EXCEPT ![Len(resizes)] = g]
    BY <1>1, <1>3
  <1>6. Len(resizes') = Len(resizes) /\ Level' = Level
    <2>1. resizes \in Seq(Frame)
      BY DEF TypeInv
    <2> QED BY <2>1, <1>5 DEF Level
  <1>7. ASSUME NEW k \in Key, NEW x \in Own', Pair(x)'.key = k PROVE \E y \in Own : Pair(y).key = k
    <2>1. CASE x = <<Level, "call", 0>>
      <3>1. Pair(src).key = k
        BY <2>1, <1>2, <1>6, <1>7
      <3>2. src \in Own
        BY <1>1 DEF Own
      <3> QED BY <3>1, <3>2
    <2>2. CASE x # <<Level, "call", 0>>
      <3>1. x \in Carried' /\ x[1] = Len(resizes) /\ x[2] # "call"
        BY <2>2, <1>6 DEF Own
      <3>2. x \in Carried /\ Pair(x)' = Pair(x)
        BY <3>1, <2>2, <1>2
      <3>3. x \in Own
        BY <3>1, <3>2 DEF Own
      <3> QED BY <3>2, <3>3, <1>7
    <2> QED BY <2>1, <2>2
  <1>8. \A k \in Key : (\E x \in Own' : Pair(x)'.key = k) => \E x \in Own : Pair(x).key = k
    BY <1>7
  <1> QED BY <1>1, <1>4, <1>5, <1>8, RoomStays

LEMMA PutCounts ==
  ASSUME NEW tab, tab \in Table, NEW e \in Entry, ~InArray(tab, e.key)
  PROVE  Put(tab, e).count \in Nat /\ Put(tab, e).count <= tab.count + 1
  <1> PICK at : at = table_get_entry(tab, e.key)
    OBVIOUS
  <1> PICK entries : entries = [tab.entries EXCEPT ![at] = e]
    OBVIOUS
  <1>1. Put(tab, e) = [tab EXCEPT !.entries = entries,
                                  !.count = IF tab.entries[at] = Empty THEN tab.count + 1 ELSE tab.count]
    BY DEF Put
  <1>2. Put(tab, e).count = IF tab.entries[at] = Empty THEN tab.count + 1 ELSE tab.count
    BY <1>1 DEF Table
  <1>3. tab.count \in Nat
    BY DEF Table
  <1> QED BY <1>2, <1>3

LEMMA RoomStore ==
  ASSUME TypeInv, CarriedInv, RoomInv, Store
  PROVE  RoomInv'
  <1>1. /\ call # Empty /\ call' = Empty /\ t' = Put(t, call) /\ HasRoom(t, call.key)
        /\ UNCHANGED resizes /\ (resizes # <<>> => rehashes' = rehashes)
    BY DEF Store
  <1>2. CASE resizes = <<>>
    <2>1. resizes' = <<>> /\ DOMAIN resizes' = {}
      BY <1>1, <1>2
    <2> QED BY <2>1 DEF RoomInv
  <1>3. CASE resizes # <<>>
    <2> SUFFICES ASSUME Innermost.nth = rehashes PROVE RoomFits(Innermost)'
      BY <1>1, <1>3 DEF RoomInv, Innermost
    <2> PICK f : f = Innermost
      OBVIOUS
    <2>1. f.n_hash \in Int /\ f.call.key \in Key /\ RoomFits(f)
      BY <1>3, Innermosts DEF RoomInv
    <2>2. Shape(t) /\ t \in Table /\ call \in Entry /\ call.key \in Key /\ call.key # Nil
      BY <1>1, CallIs DEF TypeInv, Shape
    <2>3. /\ \A x \in Carried' : x \in Carried /\ Pair(x)' = Pair(x) /\ x # <<Level, "call", 0>>
          /\ <<Level, "call", 0>> \in Carried /\ Pair(<<Level, "call", 0>>) = call
      <3>1. Level > 1
        BY <1>3, LevelIs
      <3> QED BY <3>1, <1>1, CarriedStore
    <2>4. \A k \in Key : InArray(t', k) <=> InArray(t, k)
      BY <1>1, <2>2, PutReads
    <2>5. Len(t'.entries) = Len(t.entries)
      BY <1>1, <2>2, PutReads
    <2>6. Bound' \subseteq Bound \ {call.key}
      <3> SUFFICES ASSUME NEW k \in Bound' PROVE k \in Bound /\ k # call.key
        OBVIOUS
      <3>1. k \in Key /\ ~InArray(t', k)
        BY DEF Bound
      <3>2. PICK x \in Own' : Pair(x)'.key = k
        BY DEF Bound
      <3>3. x \in Carried /\ Pair(x) = Pair(x)' /\ x # <<Level, "call", 0>>
        BY <2>3 DEF Own
      <3>4. x \in Own
        <4>1. x \in Carried' /\ (x = <<Level, "call", 0>>' \/ (x[1] = Len(resizes) /\ x[2] # "call"))
          BY <1>1 DEF Own
        <4>2. Level' = Level
          BY <1>1 DEF Level
        <4> QED BY <4>1, <4>2, <3>3 DEF Own
      <3>5. k # call.key
        BY <3>2, <3>3, <2>3 DEF CarriedInv
      <3> QED BY <3>1, <3>2, <3>3, <3>4, <3>5, <2>4 DEF Bound
    <2> PICK b, c, d : b = Cardinality(Bound) /\ c = Cardinality(Bound') /\ d = Cardinality(Bound \ {call.key})
      OBVIOUS
    <2>7. b \in Nat /\ IsFiniteSet(Bound) /\ t.count \in Nat
      BY <2>1, <2>2 DEF RoomFits, Table
    <2>8. IsFiniteSet(Bound \ {call.key}) /\ d = IF call.key \in Bound THEN b - 1 ELSE b
      BY <2>7, FS_RemoveElement
    <2>9. IsFiniteSet(Bound') /\ c <= d /\ c \in Nat /\ d \in Nat
      <3>1. IsFiniteSet(Bound') /\ c <= d
        BY <2>6, <2>8, FS_Subset
      <3> QED BY <3>1, <2>8, FS_CardinalityType
    <2>10. t'.count + c <= t.count + b /\ t'.count \in Nat
      <3>1. CASE InArray(t, call.key)
        <4>1. t'.count = t.count
          BY <3>1, <1>1, <2>2, PutElement
        <4> QED BY <4>1, <2>7, <2>8, <2>9
      <3>2. CASE ~InArray(t, call.key)
        <4>1. <<Level, "call", 0>> \in Own
          BY <2>3 DEF Own
        <4>2. call.key \in Bound
          BY <4>1, <3>2, <2>2, <2>3 DEF Bound
        <4>3. t'.count \in Nat /\ t'.count <= t.count + 1
          BY <3>2, <1>1, <2>2, PutCounts
        <4> QED BY <4>2, <4>3, <2>7, <2>8, <2>9
      <3> QED BY <3>1, <3>2
    <2>11. t.count + b + (IF InArray(t, f.call.key) THEN 0 ELSE 1) <= f.n_hash
      BY <2>1 DEF RoomFits
    <2>12. t'.count + c + (IF InArray(t', f.call.key) THEN 0 ELSE 1) <= f.n_hash
      BY <2>1, <2>4, <2>7, <2>9, <2>10, <2>11
    <2>13. f.n_hash > 0 => Len(t'.entries) > 1
      BY <2>1, <2>5 DEF RoomFits
    <2>14. Innermost' = f
      BY <1>1 DEF Innermost
    <2>15. RoomFits(f)'
      BY <2>9, <2>12, <2>13 DEF RoomFits
    <2> QED BY <2>14, <2>15
  <1> QED BY <1>2, <1>3

LEMMA RoomCut ==
  ASSUME TypeInv, RoomInv, CutArray
  PROVE  RoomInv'
  <1> PICK f : f = resizes[Len(resizes)]
    OBVIOUS
  <1> PICK g : g = [f EXCEPT !.loop = "entries", !.i = 0, !.old_array = <<>>]
    OBVIOUS
  <1>1. /\ UNCHANGED <<t, rehashes>> /\ resizes # <<>> /\ call = Empty /\ call' = Empty
        /\ resizes[Len(resizes)].loop = "array" /\ Vanishing(resizes[Len(resizes)]) = {}
        /\ resizes' = [resizes EXCEPT ![Len(resizes)] = g]
    BY CutIs
  <1>2. f \in Frame /\ f = Innermost
    BY <1>1, Innermosts
  <1>3. /\ g.loop = "entries" /\ g.i = 0 /\ g.call = f.call /\ g.old_entries = f.old_entries
        /\ g.n_hash = f.n_hash /\ g.nth = f.nth
    BY <1>2 DEF Frame
  <1>4. /\ \A x : x \in Carried' <=> x \in Carried
        /\ \A x \in Carried : Pair(x)' = Pair(x)
    BY <1>1, <1>3, CarriedCut
  <1>5. Len(resizes') = Len(resizes) /\ Level' = Level
    <2>1. resizes \in Seq(Frame)
      BY DEF TypeInv
    <2> QED BY <2>1, <1>1 DEF Level
  <1>6. \A x \in Own' : x \in Own /\ Pair(x)' = Pair(x)
    BY <1>4, <1>5 DEF Own
  <1>7. \A k \in Key : (\E x \in Own' : Pair(x)'.key = k) => \E x \in Own : Pair(x).key = k
    BY <1>6
  <1> QED BY <1>1, <1>2, <1>3, <1>7, RoomStays

LEMMA RoomReturn ==
  ASSUME TypeInv, RoomInv, Return
  PROVE  RoomInv'
  <1> PICK n : n = Len(resizes)
    OBVIOUS
  <1>1. resizes # <<>> /\ resizes' = SubSeq(resizes, 1, n - 1) /\ rehashes' = rehashes
    BY DEF Return, Resizing
  <1>2. resizes \in Seq(Frame) /\ DOMAIN resizes = 1 .. n /\ n \in Nat \ {0}
    BY <1>1 DEF TypeInv
  <1>3. /\ Len(resizes') = n - 1 /\ DOMAIN resizes' = 1 .. (n - 1)
        /\ \A l \in 1 .. (n - 1) : resizes'[l] = resizes[l]
    BY <1>1, <1>2
  <1>4. \A l \in 1 .. (n - 1) : resizes'[l].nth < rehashes /\ resizes[l].nth \in Nat
    <2>1. \A l \in DOMAIN resizes : l < n => resizes[l].nth < rehashes
      BY DEF RoomInv
    <2>2. \A l \in 1 .. (n - 1) : l \in DOMAIN resizes /\ l < n
      BY <1>2
    <2> QED BY <1>1, <1>3, <2>1, <2>2, Innermosts
  <1>5. rehashes \in Nat
    BY DEF TypeInv
  <1>6. ASSUME resizes' # <<>>, Innermost'.nth = rehashes PROVE FALSE
    <2>1. resizes' \in Seq(Frame)
      BY <1>1, <1>2
    <2>2. Len(resizes') \in 1 .. (n - 1)
      BY <2>1, <1>6, <1>3
    <2>3. Innermost' = resizes'[Len(resizes')]
      BY DEF Innermost
    <2> QED BY <2>2, <2>3, <1>4, <1>5, <1>6
  <1>7. \A l \in DOMAIN resizes' : resizes'[l].nth <= rehashes' /\ resizes'[l].nth < rehashes'
    BY <1>1, <1>3, <1>4, <1>5
  <1> QED BY <1>1, <1>6, <1>7 DEF RoomInv

\* The keys that the second loop of table_resize inserts into the hash part.
ReinsertedKeys(tab, last) == {tab.entries[e].key : e \in Reinserted(tab, last)}

LEMMA KeysOfEntries ==
  ASSUME NEW tab, NEW last, IsFiniteSet(Reinserted(tab, last))
  PROVE  /\ IsFiniteSet(ReinsertedKeys(tab, last))
         /\ Cardinality(ReinsertedKeys(tab, last)) <= Cardinality(Reinserted(tab, last))
  <1> DEFINE S == Reinserted(tab, last)
             T == ReinsertedKeys(tab, last)
             key == [e \in S |-> tab.entries[e].key]
  <1>1. key \in Surjection(S, T)
    <2>1. key \in [S -> T]
      BY DEF ReinsertedKeys
    <2>2. \A k \in T : \E e \in S : key[e] = k
      BY DEF ReinsertedKeys
    <2> HIDE DEF key, S, T
    <2> QED BY <2>1, <2>2 DEF Surjection
  <1> HIDE DEF key, S, T
  <1>2. IsFiniteSet(T) /\ Cardinality(T) <= Cardinality(S)
    BY <1>1, FS_Surjection DEF S
  <1> QED BY <1>2 DEF S, T

\* A size asked for is not less than one more when it is more than none.
LEMMA SomeEntries ==
  ASSUME NEW new, NEW tab, NEW n_hash \in Int, NEW n_array, IsEmptied(new, tab, n_hash, n_array), n_hash > 0
  PROVE  Len(new.entries) > 1
  <1> DEFINE m == IF n_hash > HASH_MIN THEN n_hash ELSE HASH_MIN
             high == table_next_size(n_hash, HASH_MIN)
  <1>1. HASH_MIN \in Nat /\ HASH_MIN > 1
    BY TableAssumption
  <1>2. m \in Nat /\ m >= 2
    BY <1>1
  <1>3. high = Pow2[mem_ceil_log2(m)]
    BY DEF table_next_size, mem_next_pow2
  <1>4. Pow2[1] = 2
    <2>1. Pow2[0 + 1] = 2 * Pow2[0] /\ Pow2[0] = 1
      BY Pow2Is
    <2> QED BY <2>1
  <1> HIDE DEF m, high
  <1>5. 1 <= mem_ceil_log2(m) /\ mem_ceil_log2(m) \in Nat
    BY <1>2, <1>4, CeilLog2Bounds
  <1>6. high > 1 /\ high \in Nat
    BY <1>3, <1>5, Pow2Above
  <1>7. new.entries = [i \in 1 .. high |-> Empty]
    BY DEF IsEmptied, high
  <1>8. Len(new.entries) = high
    BY <1>6, <1>7
  <1> QED BY <1>6, <1>8

LEMMA RoomRehash ==
  ASSUME FewIndices, TypeInv, RoomInv, Rehash
  PROVE  RoomInv'
  <1> PICK f : f = NewFrame
    OBVIOUS
  <1> PICK n : n = Len(resizes)
    OBVIOUS
  <1>1. /\ call # Empty /\ call.key \in Key /\ call' = Empty
        /\ resizes' = Append(resizes, f) /\ f \in Frame
        /\ f.call = call /\ f.nth = rehashes + 1
        /\ f.old_entries = t.entries
        /\ f.i = IF f.loop = "array" THEN f.n_array ELSE 0
        /\ (f.loop = "array" => f.old_array = t.array)
        /\ f.n_hash = RehashSizes(t, call.key).n_hash
        /\ f.n_array = RehashSizes(t, call.key).n_array
        /\ (f.n_array = 0 \/ \E bit \in Nat : f.n_array = Pow2[bit])
        /\ Shape(t') /\ IsEmptied(t', t, f.n_hash, f.n_array)
        /\ rehashes' = rehashes + 1
    BY RehashIs
  <1>2. /\ n \in Nat /\ resizes \in Seq(Frame) /\ DOMAIN resizes = 1 .. n
        /\ Len(resizes') = n + 1 /\ DOMAIN resizes' = 1 .. (n + 1)
        /\ \A l \in 1 .. n : resizes'[l] = resizes[l]
        /\ resizes'[n + 1] = f /\ resizes' # <<>>
    BY <1>1 DEF TypeInv
  <1>3. Level = n + 1 /\ Level' = n + 2 /\ Innermost' = f
    BY <1>2 DEF Level, Innermost
  <1>4. rehashes \in Nat /\ Shape(t) /\ t \in Table
    BY DEF TypeInv, Shape
  <1>5. ASSUME NEW l \in DOMAIN resizes'
        PROVE  resizes'[l].nth <= rehashes' /\ (l < Len(resizes') => resizes'[l].nth < rehashes')
    <2>1. CASE l = n + 1
      BY <2>1, <1>1, <1>2, <1>4
    <2>2. CASE l # n + 1
      <3>1. l \in DOMAIN resizes /\ resizes'[l] = resizes[l]
        BY <2>2, <1>2
      <3>2. resizes # <<>>
        BY <3>1, <1>2
      <3>3. resizes[l].nth <= rehashes /\ resizes[l].nth \in Nat
        BY <3>1, <3>2, Innermosts DEF RoomInv
      <3> QED BY <3>1, <3>3, <1>1, <1>4
    <2> QED BY <2>1, <2>2
  <1> PICK last : last = Len(t'.array)
    OBVIOUS
  <1>6. last \in Nat /\ f.n_array <= last /\ f.n_hash \in Int /\ f.n_array \in Nat
    <2>1. last \in Nat
      BY <1>1, ArrayIs DEF Shape
    <2>2. f.n_hash \in Int /\ f.n_array \in Nat
      BY <1>1 DEF Frame
    <2> PICK size : size = Len(t.array)
      OBVIOUS
    <2>3. size \in Nat
      BY <1>4, ArrayIs
    <2>4. last = IF f.n_array > size THEN table_next_size(f.n_array, ARRAY_MIN)
                 ELSE IF Shrinks(t, f.n_array) THEN f.n_array ELSE size
      BY <1>1 DEF IsEmptied
    <2>5. CASE f.n_array > size
      <3>1. \E bit \in Nat : f.n_array = Pow2[bit]
        BY <2>2, <2>3, <2>5, <1>1
      <3>2. ARRAY_MIN \in Nat /\ f.n_array \in Int
        BY <2>2, TableAssumption
      <3>3. f.n_array <= table_next_size(f.n_array, ARRAY_MIN)
        BY <3>1, <3>2, NextSizeIs
      <3>4. f.n_array <= last
        BY <3>3, <2>4, <2>5
      <3> QED BY <3>4, <2>1, <2>2
    <2>6. CASE ~(f.n_array > size)
      BY <2>1, <2>2, <2>3, <2>4, <2>6
    <2> QED BY <2>1, <2>2, <2>5, <2>6
  <1> DEFINE A == Moved(t, last)
             B == ReinsertedKeys(t, last)
             R == Reinserted(t, last)
             k == call.key
  <1>7. /\ IsFiniteSet(A) /\ IsFiniteSet(R) /\ Cardinality(A) \in Nat /\ Cardinality(R) \in Nat
        /\ Cardinality(A) + Cardinality(R) + (IF k \in Index /\ k <= last THEN 0 ELSE 1) <= f.n_hash
    BY <1>1, <1>4, <1>6, RoomFor
  <1>8. IsFiniteSet(B) /\ Cardinality(B) <= Cardinality(R) /\ Cardinality(B) \in Nat
    <2>1. IsFiniteSet(B) /\ Cardinality(B) <= Cardinality(R)
      BY <1>7, KeysOfEntries
    <2> QED BY <2>1, FS_CardinalityType
  <1>9. \A key : InArray(t', key) <=> key \in Index /\ key <= last
    BY <1>6, InArrayIs
  <1>10. Bound' \subseteq A \cup B
    <2> SUFFICES ASSUME NEW key \in Bound' PROVE key \in A \cup B
      OBVIOUS
    <2>1. key \in Key /\ ~(key \in Index /\ key <= last)
      BY <1>9 DEF Bound
    <2>2. PICK x \in Own' : Pair(x)'.key = key
      BY DEF Bound
    <2>3. x \in Carried' /\ x[1] = Level /\ x[2] # "call"
      <3>1. x \in Carried' /\ (x = <<n + 2, "call", 0>> \/ (x[1] = n + 1 /\ x[2] # "call"))
        BY <1>2, <1>3 DEF Own
      <3>2. x # <<n + 2, "call", 0>>
        <4>1. ASSUME x = <<n + 2, "call", 0>> PROVE FALSE
          <5>1. x[1] = n + 2 /\ x[2] = "call" /\ x[3] = 0
            BY <4>1
          <5>2. Carries(n + 2, "call", 0)'
            BY <5>1, <3>1, CarriedPrime
          <5>3. CallAt(n + 2)' # Empty
            BY <5>2, CarriesIs
          <5> QED BY <5>3, <1>1, <1>3 DEF CallAt
        <4> QED BY <4>1
      <3> QED BY <3>1, <3>2, <1>3
    <2>4. x \notin Carried
      <3> SUFFICES ASSUME x \in Carried PROVE FALSE
        OBVIOUS
      <3>1. x[2] \in {"call", "array", "entries"}
        BY CarriedIs
      <3>2. x[1] \in DOMAIN resizes
        BY <3>1, <2>3, CarriedTypes
      <3> QED BY <3>2, <2>3, <1>2, <1>3
    <2>5. \/ /\ x[2] = "array" /\ f.loop = "array" /\ x[3] \in Vanishing(f)
             /\ Pair(x)' = [key |-> x[3], value |-> f.old_array[x[3]]]
          \/ /\ x[2] = "entries" /\ x[3] \in DOMAIN f.old_entries /\ f.old_entries[x[3]].value # Nil
             /\ Pair(x)' = f.old_entries[x[3]]
      BY <2>3, <2>4, <1>1, CarriedRehash
    <2>6. CASE x[2] = "array"
      <3>1. key = x[3] /\ x[3] \in Vanishing(f) /\ f.old_array = t.array
        BY <2>2, <2>5, <2>6, <1>1
      <3>2. key \in Live(t.array)
        BY <3>1 DEF Vanishing
      <3>3. key \in Index
        BY <3>2, <1>4 DEF Shape
      <3> QED BY <2>1, <3>2, <3>3 DEF Moved
    <2>7. CASE x[2] # "array"
      <3>1. x[3] \in DOMAIN t.entries /\ t.entries[x[3]].key = key
        BY <2>2, <2>5, <2>7, <1>1
      <3>2. key # Nil
        BY <2>1, KeysAre
      <3>3. x[3] \in Reinserted(t, last)
        BY <3>1, <3>2, <2>1 DEF Reinserted
      <3> QED BY <3>1, <3>3 DEF ReinsertedKeys
    <2> QED BY <2>6, <2>7
  <1> HIDE DEF A, B, R, k
  <1>11. /\ IsFiniteSet(Bound') /\ Cardinality(Bound') \in Nat
         /\ Cardinality(Bound') <= Cardinality(A) + Cardinality(R)
    <2>1. IsFiniteSet(A \cup B) /\ Cardinality(A \cup B) = Cardinality(A) + Cardinality(B) - Cardinality(A \cap B)
      BY <1>7, <1>8, FS_Union
    <2>2. Cardinality(A \cap B) \in Nat
      <3>1. IsFiniteSet(A \cap B)
        BY <1>7, FS_Subset
      <3> QED BY <3>1, FS_CardinalityType
    <2>3. IsFiniteSet(Bound') /\ Cardinality(Bound') <= Cardinality(A \cup B)
      BY <2>1, <1>10, FS_Subset
    <2>4. Cardinality(Bound') \in Nat /\ Cardinality(A \cup B) \in Nat
      BY <2>1, <2>3, FS_CardinalityType
    <2> PICK a, b, c, d, e, r : a = Cardinality(A) /\ b = Cardinality(B) /\ c = Cardinality(A \cap B)
                             /\ d = Cardinality(A \cup B) /\ e = Cardinality(Bound') /\ r = Cardinality(R)
      OBVIOUS
    <2>5. e <= a + r
      BY <2>1, <2>2, <2>3, <2>4, <1>7, <1>8
    <2> QED BY <2>3, <2>4, <2>5
  <1>12. t'.count = 0
    BY <1>1 DEF IsEmptied
  <1>13. t'.count + Cardinality(Bound') + (IF InArray(t', f.call.key) THEN 0 ELSE 1) <= f.n_hash
    <2> PICK a, e, r : a = Cardinality(A) /\ e = Cardinality(Bound') /\ r = Cardinality(R)
      OBVIOUS
    <2>1. f.call.key = k /\ (InArray(t', k) <=> k \in Index /\ k <= last)
      BY <1>1, <1>9 DEF k
    <2>2. /\ a \in Nat /\ e \in Nat /\ r \in Nat /\ e <= a + r
          /\ a + r + (IF k \in Index /\ k <= last THEN 0 ELSE 1) <= f.n_hash
      BY <1>7, <1>11
    <2>3. t'.count + e + (IF InArray(t', f.call.key) THEN 0 ELSE 1) <= f.n_hash
      BY <2>1, <2>2, <1>6, <1>12
    <2> QED BY <2>3
  <1>14. f.n_hash > 0 => Len(t'.entries) > 1
    BY <1>1, <1>6, SomeEntries
  <1>15. RoomFits(f)'
    BY <1>11, <1>13, <1>14 DEF RoomFits
  <1> QED BY <1>3, <1>5, <1>15 DEF RoomInv

LEMMA NextRoom ==
  ASSUME FewIndices, Inv, RoomInv, [Next]_vars
  PROVE  RoomInv'
  <1>1. TypeInv /\ CarriedInv
    BY DEF Inv
  <1>2. CASE Store
    BY <1>1, <1>2, RoomStore
  <1>3. CASE Rehash
    BY <1>1, <1>3, RoomRehash
  <1>4. CASE MoveElement \/ InsertEntry
    BY <1>1, <1>4, RoomMove
  <1>5. CASE CutArray
    BY <1>1, <1>5, RoomCut
  <1>6. CASE Return
    BY <1>1, <1>6, RoomReturn
  <1>7. ASSUME resizes' = <<>> PROVE RoomInv'
    <2>1. DOMAIN resizes' = {}
      BY <1>7
    <2> QED BY <1>7, <2>1 DEF RoomInv
  <1>8. CASE \/ \E k \in Key : \E v \in Stored[k] \cup {Nil} : Assign(k, v)
             \/ StartPairs \/ NextPair \/ \E k \in Key : NextOf(k)
    <2>1. resizes' = <<>>
      BY <1>8 DEF Assign, StartPairs, NextPair, NextOf, Ready
    <2> QED BY <2>1, <1>7
  <1>9. CASE UNCHANGED vars
    <2>1. UNCHANGED <<t, call, resizes, rehashes>>
      BY <1>9 DEF vars
    <2>2. CASE resizes = <<>>
      BY <2>1, <2>2, <1>7
    <2>3. CASE resizes # <<>>
      <3>1. resizes' = [resizes EXCEPT ![Len(resizes)] = Innermost]
        <4>1. Innermost = resizes[Len(resizes)] /\ resizes \in Seq(Frame)
          BY <1>1, <2>3, Innermosts DEF TypeInv
        <4> QED BY <2>1, <4>1
      <3>2. /\ \A x : x \in Carried' <=> x \in Carried
            /\ \A x \in Carried : Pair(x)' = Pair(x)
        BY <2>1, CarriedSame
      <3>3. Level' = Level /\ Len(resizes') = Len(resizes)
        BY <2>1 DEF Level
      <3>4. \A x \in Own' : x \in Own /\ Pair(x)' = Pair(x)
        BY <3>2, <3>3 DEF Own
      <3>5. \A k \in Key : (\E x \in Own' : Pair(x)'.key = k) => \E x \in Own : Pair(x).key = k
        BY <3>4
      <3> PICK g : g = Innermost
        OBVIOUS
      <3> QED BY <1>1, <2>1, <2>3, <3>1, <3>5, RoomStays
    <2> QED BY <2>2, <2>3
  <1> QED BY <1>2, <1>3, <1>4, <1>5, <1>6, <1>8, <1>9 DEF Next, AssignNext

\* A search comes to every entry.
LEMMA ProbesReach ==
  ASSUME NEW n \in Nat \ {0}, NEW start \in 0 .. (n - 1), NEW i \in 1 .. n
  PROVE  \E j \in 1 .. n : Probes(n, start)[j] = i
  <1>1. \A m \in 0 .. (n - 1) : m % n = m /\ (m + n) % n = m
    OBVIOUS
  <1>2. CASE i - 1 >= start
    <2>1. i - start \in 1 .. n /\ start + (i - start) - 1 = i - 1 /\ i - 1 \in 0 .. (n - 1)
      BY <1>2
    <2>2. Probes(n, start)[i - start] = ((i - 1) % n) + 1
      BY <2>1 DEF Probes
    <2> QED BY <2>1, <2>2, <1>1
  <1>3. CASE ~(i - 1 >= start)
    <2>1. /\ i - start + n \in 1 .. n /\ start + (i - start + n) - 1 = (i - 1) + n
          /\ i - 1 \in 0 .. (n - 1)
      BY <1>3
    <2>2. Probes(n, start)[i - start + n] = (((i - 1) + n) % n) + 1
      BY <2>1 DEF Probes
    <2> QED BY <2>1, <2>2, <1>1
  <1> QED BY <1>2, <1>3

LEMMA CapacityIs ==
  ASSUME NEW n \in Nat
  PROVE  Capacity(n) \in Nat /\ Capacity(n) <= n
  BY DEF Capacity

LEMMA UpTo ==
  ASSUME NEW n \in Nat
  PROVE  Cardinality(1 .. n) = n
  <1>1. 1 \in Int /\ n \in Int /\ (IF 1 > n THEN 0 ELSE n - 1 + 1) = n
    OBVIOUS
  <1> QED BY <1>1, FS_Interval

\* Whoever has not filled the hash part finds an entry.
LEMMA RoomLeft ==
  ASSUME NEW tab, Shape(tab), NEW k \in Key,
         Len(tab.entries) > 1, tab.count + 1 <= Capacity(Len(tab.entries))
  PROVE  HasRoom(tab, k)
  <1> PICK n : n = Len(tab.entries)
    OBVIOUS
  <1>1. /\ n \in Nat \ {0} /\ n > 1 /\ DOMAIN tab.entries = 1 .. n /\ tab \in Table
        /\ tab.count \in Nat /\ tab.count = Cardinality(Used(tab)) /\ EntryInv(tab)
    BY ArrayIs DEF Shape, Table
  <1>2. ~table_is_full(tab)
    <2>1. Capacity(n) \in Nat
      BY <1>1, CapacityIs
    <2> QED BY <2>1, <1>1 DEF table_is_full
  <1>3. tab.count < n
    <2>1. Capacity(n) <= n /\ Capacity(n) \in Nat
      BY <1>1, CapacityIs
    <2> QED BY <2>1, <1>1
  <1>4. PICK i \in 1 .. n : tab.entries[i] = Empty
    <2> SUFFICES ASSUME \A i \in 1 .. n : tab.entries[i] # Empty PROVE FALSE
      OBVIOUS
    <2>1. Used(tab) = 1 .. n
      BY <1>1 DEF Used
    <2>2. Cardinality(1 .. n) = n
      BY <1>1, UpTo
    <2> QED BY <2>1, <2>2, <1>1, <1>3
  <1>5. hash[k] \in Nat
    BY KeysAre
  <1> PICK start : start = hash[k] % n
    OBVIOUS
  <1>6. start \in 0 .. (n - 1) /\ start \in Nat
    BY <1>1, <1>5
  <1>7. PICK j \in 1 .. n : Probes(n, start)[j] = i
    BY <1>1, <1>6, ProbesReach
  <1>8. j \in Ends(tab.entries, k, start)
    <2>1. tab.entries[i].key = Nil
      BY <1>4 DEF Empty
    <2> QED BY <2>1, <1>7 DEF Ends
  <1>9. find_entry(tab.entries, k, start) \in 1 .. n
    <2>1. tab.entries \in Seq(Entry)
      BY <1>1 DEF Table
    <2> QED BY <2>1, <1>1, <1>6, <1>8, FindIs
  <1>10. Hashed(tab)
    <2>1. Len(EMPTY_ENTRIES) = 1
      BY DEF EMPTY_ENTRIES
    <2>2. ASSUME tab.entries = EMPTY_ENTRIES PROVE FALSE
      <3>1. Len(tab.entries) = 1
        BY <2>1, <2>2, Zenon
      <3>2. n = 1
        BY <3>1
      <3> QED BY <3>2, <1>1
    <2> QED BY <2>2 DEF Hashed
  <1>11. table_get_entry(tab, k) \in 1 .. n
    BY <1>9, <1>10 DEF table_get_entry
  <1>12. table_get_entry(tab, k) # 0
    BY <1>11
  <1> QED BY <1>2, <1>12 DEF HasRoom

\* A rehash finds room for what it moves and for what it was started for, as long
\* as it got the entries it counted (table_rehash, table_resize).
THEOREM Rooms == ASSUME FewIndices PROVE Spec => []RoomAsAsked
  <1>1. Init => RoomInv
    <2> SUFFICES ASSUME resizes = <<>> PROVE RoomInv
      BY DEF Init
    <2>1. DOMAIN resizes = {}
      OBVIOUS
    <2> QED BY <2>1 DEF RoomInv
  <1>2. Inv /\ RoomInv /\ [Next]_vars => RoomInv'
    BY NextRoom
  <1>3. ASSUME Inv, RoomInv PROVE RoomAsAsked
    <2> SUFFICES ASSUME resizes # <<>>, Innermost.nth = rehashes, Innermost.n_hash <= Capacity(Len(t.entries))
                 PROVE  /\ call # Empty => HasRoom(t, call.key)
                        /\ Resizing("entries") /\ Waiting(Innermost) = {} => HasRoom(t, Innermost.call.key)
      BY DEF RoomAsAsked
    <2>1. TypeInv /\ Shape(t)
      BY <1>3 DEF Inv, TypeInv
    <2> PICK n : n = Len(t.entries)
      OBVIOUS
    <2> PICK b : b = Cardinality(Bound)
      OBVIOUS
    <2>2. /\ IsFiniteSet(Bound) /\ b \in Nat
          /\ t.count + b + (IF InArray(t, Innermost.call.key) THEN 0 ELSE 1) <= Innermost.n_hash
          /\ Innermost.n_hash > 0 => n > 1
      BY <1>3 DEF RoomInv, RoomFits
    <2>3. Innermost.n_hash \in Int /\ Innermost.call.key \in Key
      BY <2>1, Innermosts
    <2>4. t.count \in Nat /\ Capacity(n) \in Nat
      <3>1. n \in Nat
        BY <2>1, ArrayIs DEF Shape
      <3> QED BY <2>1, <3>1 DEF Shape, Table, Capacity
    <2>5. ASSUME NEW k \in Key, t.count + 1 <= Innermost.n_hash PROVE HasRoom(t, k)
      <3>1. t.count + 1 <= Capacity(n) /\ n > 1
        BY <2>2, <2>3, <2>4, <2>5
      <3> QED BY <3>1, <2>1, RoomLeft
    <2>6. ASSUME call # Empty PROVE HasRoom(t, call.key)
      <3>1. call.key \in Key
        BY <2>1, <2>6, CallIs
      <3>2. CASE InArray(t, call.key)
        BY <3>2 DEF HasRoom
      <3>3. CASE ~InArray(t, call.key)
        <4>1. Level \in 2 .. Level /\ CallAt(Level) = call /\ Level \in Nat
          BY <2>1, LevelIs
        <4> PICK x : x = <<Level, "call", 0>>
          OBVIOUS
        <4>2. x \in Carried /\ Pair(x) = call
          BY <4>1, <2>6, CarriesIs, CarriedIs DEF Pair
        <4>3. call.key \in Bound
          BY <4>2, <3>1, <3>3 DEF Own, Bound
        <4>4. b >= 1
          BY <4>3, <2>2, FS_EmptySet
        <4> QED BY <4>4, <2>2, <2>3, <2>4, <2>5, <3>1
      <3> QED BY <3>2, <3>3
    <2>7. HasRoom(t, Innermost.call.key)
      <3>1. CASE InArray(t, Innermost.call.key)
        BY <3>1 DEF HasRoom
      <3>2. CASE ~InArray(t, Innermost.call.key)
        BY <3>2, <2>2, <2>3, <2>4, <2>5
      <3> QED BY <3>1, <3>2
    <2> QED BY <2>6, <2>7
  <1> QED BY <1>1, <1>2, <1>3, Invariant, PTL DEF Spec

-----------------------------------------------------------------------------
(* The array part stays while elements are moved out of it *)

LEMMA Halves ==
  /\ Pow2[0] \div 2 = 0 /\ Pow2[0] = 1
  /\ \A bit \in Nat : Pow2[bit + 1] \div 2 = Pow2[bit] /\ Pow2[bit + 1] = 2 * Pow2[bit] /\ Pow2[bit] \in Nat
  /\ \A bit, n \in Nat : 2 * n > Pow2[bit] <=> n > Pow2[bit] \div 2
  <1>1. Pow2[0] = 1 /\ \A bit \in Nat : Pow2[bit] \in Nat /\ Pow2[bit + 1] = 2 * Pow2[bit]
    BY Pow2Is, Pow2Above
  <1>2. \A m \in Nat : (2 * m) \div 2 = m
    OBVIOUS
  <1>3. ASSUME NEW bit \in Nat PROVE Pow2[bit + 1] \div 2 = Pow2[bit]
    BY <1>1, <1>2
  <1>4. ASSUME NEW bit \in Nat, NEW n \in Nat PROVE 2 * n > Pow2[bit] <=> n > Pow2[bit] \div 2
    <2>1. \A p \in Nat : 2 * n > p <=> n > p \div 2
      OBVIOUS
    <2> QED BY <2>1, <1>1
  <1>5. Pow2[0] \div 2 = 0
    BY <1>1
  <1> QED BY <1>1, <1>3, <1>4, <1>5

\* No more are counted up to a power of two than altogether.
LEMMA CountWithin ==
  ASSUME FewIndices, NEW tab, Shape(tab), NEW k \in Key, NEW bit \in Nat
  PROVE  /\ Counted(tab, k) \in Nat /\ CountUpTo(tab, k, bit) \in Nat
         /\ CountUpTo(tab, k, bit) <= Counted(tab, k)
         /\ Cardinality(CountedElements(tab, bit)) \in Nat
         /\ Cardinality(CountedElements(tab, bit)) <= CountUpTo(tab, k, bit)
  <1> PICK L, H, one : /\ L = CountedElements(tab, bit) /\ H = CountedEntries(tab, bit)
                       /\ one = IF k \in Index /\ k <= Pow2[bit] THEN 1 ELSE 0
    OBVIOUS
  <1> PICK whole, hashed : whole = Live(tab.array) /\ hashed = HashedIndices(tab)
    OBVIOUS
  <1>1. tab \in Table
    BY DEF Shape
  <1>2. CountUpTo(tab, k, bit) = Cardinality(L) + Cardinality(H) + one
    BY <1>1, CountIs
  <1>3. L \subseteq whole /\ H \subseteq hashed
    BY DEF CountedElements, CountedEntries
  <1>4. IsFiniteSet(whole) /\ IsFiniteSet(hashed)
    <2>1. IsFiniteSet(Live(tab.array))
      BY <1>1, FiniteParts
    <2>2. IsFiniteSet(HashedIndices(tab))
      BY <1>1, FiniteParts DEF HashedIndices
    <2> QED BY <2>1, <2>2
  <1>5. /\ Cardinality(L) <= Cardinality(whole) /\ Cardinality(H) <= Cardinality(hashed)
        /\ IsFiniteSet(L) /\ IsFiniteSet(H)
    BY <1>3, <1>4, FS_Subset
  <1>6. /\ Cardinality(L) \in Nat /\ Cardinality(H) \in Nat
        /\ Cardinality(whole) \in Nat /\ Cardinality(hashed) \in Nat
    BY <1>4, <1>5, FS_CardinalityType
  <1>7. Counted(tab, k) = Cardinality(whole) + Cardinality(hashed) + IF array_index(k) > 0 THEN 1 ELSE 0
    BY DEF Counted
  <1>8. one \in Nat /\ one <= IF array_index(k) > 0 THEN 1 ELSE 0
    <2>1. k \in Index => array_index(k) = k /\ k > 0
      BY ArrayIndexIs, KeysAre
    <2> QED BY <2>1
  <1> PICK a, b, c, d : a = Cardinality(L) /\ b = Cardinality(H) /\ c = Cardinality(whole) /\ d = Cardinality(hashed)
    OBVIOUS
  <1>9. CountUpTo(tab, k, bit) = a + b + one /\ Counted(tab, k) = c + d + IF array_index(k) > 0 THEN 1 ELSE 0
    BY <1>2, <1>7
  <1>10. a \in Nat /\ b \in Nat /\ c \in Nat /\ d \in Nat /\ a <= c /\ b <= d
    BY <1>5, <1>6
  <1> QED BY <1>8, <1>9, <1>10

\* Small indices are few.
LEMMA SmallIndices ==
  ASSUME NEW S, S \subseteq Index, NEW bit \in Nat, \A i \in S : i <= Pow2[bit]
  PROVE  IsFiniteSet(S) /\ Cardinality(S) \in Nat /\ Cardinality(S) <= Pow2[bit]
  <1> PICK p \in Nat : p = Pow2[bit]
    BY Pow2Above
  <1>1. S \subseteq 1 .. p
    BY KeysAre
  <1>2. IsFiniteSet(1 .. p) /\ Cardinality(1 .. p) = p
    <2>1. 1 \in Int /\ p \in Int
      OBVIOUS
    <2> QED BY <2>1, FS_Interval, UpTo
  <1>3. IsFiniteSet(S) /\ Cardinality(S) <= p
    BY <1>1, <1>2, FS_Subset
  <1> QED BY <1>3, FS_CardinalityType

\* No entry has a key without a value.
NoNil(tab) == \A e \in DOMAIN tab.entries : tab.entries[e].key # Nil => tab.entries[e].value # Nil

UpToBit(whole, bit) == {i \in whole : i <= Pow2[bit]}

\* What is counted are different keys.
LEMMA CountedAreKeys ==
  ASSUME FewIndices, NEW tab, Shape(tab), NoNil(tab), NEW k \in Key, ~InArray(tab, k), table_get(tab, k) = Nil,
         NEW whole, IsFiniteSet(whole), Live(tab.array) \subseteq whole,
         k \in Index => k \in whole,
         \A e \in DOMAIN tab.entries : tab.entries[e].key \in Index => tab.entries[e].key \in whole,
         NEW bit \in Nat
  PROVE  /\ Cardinality(UpToBit(whole, bit)) \in Nat
         /\ CountUpTo(tab, k, bit) \in Nat
         /\ CountUpTo(tab, k, bit) <= Cardinality(UpToBit(whole, bit))
  <1> PICK W : W = UpToBit(whole, bit)
    OBVIOUS
  <1> PICK L, H, K : /\ L = CountedElements(tab, bit) /\ H = CountedEntries(tab, bit)
                     /\ K = IF k \in Index /\ k <= Pow2[bit] THEN {k} ELSE {}
    OBVIOUS
  <1>1. tab \in Table /\ Len(tab.array) \in Nat /\ DOMAIN tab.array = 1 .. Len(tab.array) /\ EntryInv(tab)
        /\ DOMAIN tab.entries = 1 .. Len(tab.entries) /\ Live(tab.array) \subseteq Index
    BY ArrayIs DEF Shape
  <1>2. /\ CountUpTo(tab, k, bit) = Cardinality(L) + Cardinality(H)
                                     + (IF k \in Index /\ k <= Pow2[bit] THEN 1 ELSE 0)
        /\ L \subseteq Live(tab.array) /\ H \subseteq DOMAIN tab.entries
        /\ \A e \in H : tab.entries[e].key \in Index /\ tab.entries[e].key <= Pow2[bit]
    BY <1>1, CountIs
  <1> DEFINE key == [e \in H |-> tab.entries[e].key]
             T == {tab.entries[e].key : e \in H}
  <1>3. \A e \in H : /\ tab.entries[e].key \in Key /\ ~InArray(tab, tab.entries[e].key)
                     /\ table_get_entry(tab, tab.entries[e].key) = e
                     /\ table_get(tab, tab.entries[e].key) # Nil
    <2> SUFFICES ASSUME NEW e \in H
                 PROVE  /\ tab.entries[e].key \in Key /\ ~InArray(tab, tab.entries[e].key)
                        /\ table_get_entry(tab, tab.entries[e].key) = e
                        /\ table_get(tab, tab.entries[e].key) # Nil
      OBVIOUS
    <2> PICK j : j = tab.entries[e].key
      OBVIOUS
    <2>1. j \in Key /\ j # Nil /\ e \in 1 .. Len(tab.entries)
      BY <1>1, <1>2, KeysAre
    <2>2. ~InArray(tab, j) /\ table_get_entry(tab, j) = e /\ table_get(tab, j) = tab.entries[e].value
      BY <2>1, GetIs
    <2>3. tab.entries[e].value # Nil
      BY <2>1, <1>1 DEF NoNil
    <2> QED BY <2>1, <2>2, <2>3
  <1>4. key \in Injection(H, T)
    <2>1. key \in [H -> T]
      OBVIOUS
    <2>2. ASSUME NEW d \in H, NEW e \in H, key[d] = key[e] PROVE d = e
      <3>1. tab.entries[d].key = tab.entries[e].key
        BY <2>2
      <3>2. d = table_get_entry(tab, tab.entries[d].key) /\ e = table_get_entry(tab, tab.entries[e].key)
        BY <1>3
      <3> QED BY <3>1, <3>2
    <2> HIDE DEF key, T
    <2>3. IsInjective(key)
      BY <2>1, <2>2 DEF IsInjective
    <2> QED BY <2>1, <2>3 DEF Injection
  <1>5. T \subseteq W /\ L \subseteq W /\ K \subseteq W
    <2>1. T \subseteq W
      BY <1>2 DEF UpToBit
    <2>2. L \subseteq W
      BY <1>2 DEF UpToBit, CountedElements
    <2>3. K \subseteq W
      BY DEF UpToBit
    <2> QED BY <2>1, <2>2, <2>3
  <1>6. IsFiniteSet(W)
    <2>1. W \subseteq whole
      BY DEF UpToBit
    <2> QED BY <2>1, FS_Subset
  <1>7. \A i \in L : InArray(tab, i)
    <2> SUFFICES ASSUME NEW i \in L PROVE InArray(tab, i)
      OBVIOUS
    <2>1. i \in Live(tab.array)
      BY <1>2
    <2>2. i \in 1 .. Len(tab.array) /\ i \in Index
      BY <2>1, <1>1 DEF Live
    <2> QED BY <2>2, <1>1, InArrayIs
  <1>8. L \cap T = {} /\ (L \cup T) \cap K = {}
    <2>1. L \cap T = {}
      BY <1>3, <1>7
    <2>2. k \notin L /\ k \notin T
      BY <1>3, <1>7
    <2> QED BY <2>1, <2>2
  <1> HIDE DEF key, T
  <1>9. IsFiniteSet(L) /\ IsFiniteSet(T) /\ IsFiniteSet(K) /\ IsFiniteSet(L \cup T) /\ L \cup T \subseteq W
    BY <1>5, <1>6, FS_Subset, FS_Union
  <1>10. IsFiniteSet(H) /\ Cardinality(H) <= Cardinality(T)
    BY <1>4, <1>9, FS_Injection
  <1>11. Cardinality(K) = IF k \in Index /\ k <= Pow2[bit] THEN 1 ELSE 0
    BY FS_Singleton, FS_EmptySet
  <1>12. /\ Cardinality(L \cup T) \in Nat /\ Cardinality(K) \in Nat /\ Cardinality(W) \in Nat
         /\ Cardinality(L \cup T) + Cardinality(K) <= Cardinality(W)
    BY <1>5, <1>6, <1>8, <1>9, TwoParts
  <1>13. Cardinality(L \cup T) = Cardinality(L) + Cardinality(T) - 0
    BY <1>8, <1>9, FS_Union, FS_EmptySet
  <1>14. Cardinality(L) \in Nat /\ Cardinality(T) \in Nat /\ Cardinality(H) \in Nat
    BY <1>9, <1>10, FS_CardinalityType
  <1> PICK a, b, c, d, e, g : /\ a = Cardinality(L) /\ b = Cardinality(T) /\ c = Cardinality(K)
                              /\ d = Cardinality(W) /\ e = Cardinality(H) /\ g = Cardinality(L \cup T)
    OBVIOUS
  <1>15. CountUpTo(tab, k, bit) = a + e + c
    BY <1>2, <1>11
  <1>16. a + e + c <= d /\ a + e + c \in Nat /\ d \in Nat
    BY <1>10, <1>12, <1>13, <1>14
  <1> QED BY <1>15, <1>16

\* The array part keeps its size when it is more than half full and no larger
\* size would have more than half.
LEMMA SizeStays ==
  ASSUME FewIndices, NEW tab, Shape(tab), NoNil(tab), NEW k \in Key, ~InArray(tab, k), table_get(tab, k) = Nil,
         NEW whole, whole \subseteq Index, Live(tab.array) \subseteq whole,
         k \in Index => k \in whole,
         \A e \in DOMAIN tab.entries : tab.entries[e].key \in Index => tab.entries[e].key \in whole,
         NEW p \in Nat, Len(tab.array) = Pow2[p], 2 * Cardinality(Live(tab.array)) > Pow2[p],
         \A bit \in Nat : bit > p => 2 * Cardinality(UpToBit(whole, bit)) <= Pow2[bit]
  PROVE  RehashSizes(tab, k).n_array = Pow2[p]
  <1>1. tab \in Table /\ Live(tab.array) \subseteq Index /\ DOMAIN tab.array = 1 .. Len(tab.array) /\ IsFiniteSet(whole)
    <2>1. IsFiniteSet(whole)
      BY KeysAre, FS_Subset
    <2> QED BY <2>1, ArrayIs DEF Shape
  <1> PICK n : n = Counted(tab, k)
    OBVIOUS
  <1>2. n \in Nat
    BY CountWithin
  <1>3. ASSUME NEW bit \in Nat
        PROVE  /\ CountUpTo(tab, k, bit) \in Nat /\ CountUpTo(tab, k, bit) <= n
               /\ Cardinality(CountedElements(tab, bit)) \in Nat
               /\ Cardinality(CountedElements(tab, bit)) <= CountUpTo(tab, k, bit)
               /\ Cardinality(UpToBit(whole, bit)) \in Nat
               /\ CountUpTo(tab, k, bit) <= Cardinality(UpToBit(whole, bit))
               /\ CountUpTo(tab, k, bit) <= Pow2[bit]
    <2>1. CountUpTo(tab, k, bit) \in Nat /\ CountUpTo(tab, k, bit) <= n
      BY CountWithin
    <2>2. /\ Cardinality(CountedElements(tab, bit)) \in Nat
          /\ Cardinality(CountedElements(tab, bit)) <= CountUpTo(tab, k, bit)
      BY CountWithin
    <2>3. Cardinality(UpToBit(whole, bit)) \in Nat /\ CountUpTo(tab, k, bit) <= Cardinality(UpToBit(whole, bit))
      BY <1>1, CountedAreKeys
    <2>4. Cardinality(UpToBit(whole, bit)) <= Pow2[bit]
      <3>1. UpToBit(whole, bit) \subseteq Index /\ \A i \in UpToBit(whole, bit) : i <= Pow2[bit]
        BY DEF UpToBit
      <3> QED BY <3>1, SmallIndices
    <2>5. Pow2[bit] \in Nat
      BY Pow2Above
    <2> QED BY <2>1, <2>2, <2>3, <2>4, <2>5
  <1>4. CountUpTo(tab, k, p) > Pow2[p] \div 2
    <2>1. CountedElements(tab, p) = Live(tab.array)
      <3>1. \A i \in Live(tab.array) : i <= Pow2[p]
        BY <1>1 DEF Live
      <3> QED BY <3>1 DEF CountedElements
    <2>2. Cardinality(Live(tab.array)) \in Nat /\ Cardinality(Live(tab.array)) > Pow2[p] \div 2
      BY <2>1, <1>3, Halves
    <2> PICK half \in Nat : half = Pow2[p] \div 2
      <3>1. Pow2[p] \in Nat
        BY Pow2Above
      <3> QED BY <3>1
    <2> QED BY <2>1, <2>2, <1>3
  <1>5. p \in Fits(IndexRanges(tab, k), n)
    <2>1. CASE p = 0
      <3>1. Pow2[p] \div 2 = 0
        BY <2>1, Halves
      <3>2. n > 0 /\ 0 \in 0 .. n
        BY <2>1, <3>1, <1>2, <1>3, <1>4
      <3>3. IndexRanges(tab, k)[0] = CountUpTo(tab, k, 0)
        BY <3>2 DEF IndexRanges
      <3> QED BY <2>1, <3>1, <3>2, <3>3, <1>4 DEF Fits, Turn
    <2>2. CASE p # 0
      <3> PICK q \in Nat : p = q + 1
        <4>1. p - 1 \in Nat /\ p = (p - 1) + 1
          BY <2>2
        <4> QED BY <4>1
      <3>1. Pow2[p] \div 2 = Pow2[q] /\ Pow2[q] \in Nat /\ Pow2[q] > q
        BY Halves, Pow2Above
      <3>2. CountUpTo(tab, k, p) \in Nat /\ CountUpTo(tab, k, p) <= n /\ CountUpTo(tab, k, p) > Pow2[q]
        BY <3>1, <1>3, <1>4
      <3>3. CountUpTo(tab, k, q) \in Nat /\ CountUpTo(tab, k, q) <= Pow2[q]
        BY <1>3
      <3>4. p \in 0 .. n /\ q \in 0 .. n /\ n > Pow2[q] /\ p > 0 /\ p - 1 = q
        BY <3>1, <3>2, <1>2, <2>2
      <3>5. IndexRanges(tab, k)[p] = CountUpTo(tab, k, p) /\ IndexRanges(tab, k)[q] = CountUpTo(tab, k, q)
        BY <3>4 DEF IndexRanges
      <3>6. CountUpTo(tab, k, p) > CountUpTo(tab, k, q) /\ CountUpTo(tab, k, q) # n
        BY <3>1, <3>2, <3>3, <1>2
      <3> QED BY <3>1, <3>2, <3>4, <3>5, <3>6 DEF Fits, Turn
    <2> QED BY <2>1, <2>2
  <1>6. ASSUME NEW bit \in Fits(IndexRanges(tab, k), n) PROVE bit <= p /\ bit \in Nat
    <2>1. bit \in 0 .. n /\ IndexRanges(tab, k)[bit] > Pow2[bit] \div 2
      BY DEF Fits
    <2>2. bit \in Nat /\ CountUpTo(tab, k, bit) > Pow2[bit] \div 2
      BY <2>1, <1>2 DEF IndexRanges
    <2>3. 2 * CountUpTo(tab, k, bit) > Pow2[bit]
      BY <2>2, <1>3, Halves
    <2>4. ASSUME bit > p PROVE FALSE
      <3>1. 2 * Cardinality(UpToBit(whole, bit)) <= Pow2[bit]
        BY <2>2, <2>4
      <3>2. Pow2[bit] \in Nat
        BY <2>2, Pow2Above
      <3>3. /\ CountUpTo(tab, k, bit) \in Nat /\ Cardinality(UpToBit(whole, bit)) \in Nat
            /\ CountUpTo(tab, k, bit) <= Cardinality(UpToBit(whole, bit))
        BY <2>2, <1>3
      <3> PICK a, b, c \in Nat : a = CountUpTo(tab, k, bit) /\ b = Cardinality(UpToBit(whole, bit)) /\ c = Pow2[bit]
        BY <3>2, <3>3
      <3> QED BY <3>1, <3>3, <2>3
    <2> QED BY <2>2, <2>4
  <1>7. PICK bit \in Fits(IndexRanges(tab, k), n) :
          /\ \A other \in Fits(IndexRanges(tab, k), n) : other <= bit
          /\ RehashSizes(tab, k).n_array = Pow2[bit]
    BY <1>1, <1>5, SizesByCount
  <1>8. bit = p
    <2>1. p <= bit /\ bit <= p /\ bit \in Nat
      BY <1>5, <1>6, <1>7
    <2> QED BY <2>1
  <1> QED BY <1>7, <1>8

\* While a table_resize, at a level, moves elements out of the array part, the part
\* stays more than half full, and no larger size would be: what is assigned below
\* are elements that were in the old one.
StayFits(f, l) == f.loop = "array" =>
  /\ 2 * Cardinality(Live(t.array)) > f.n_array
  /\ Live(t.array) \subseteq Live(f.old_array)
  /\ \A bit \in Nat : Pow2[bit] > f.n_array =>
       2 * Cardinality(UpToBit(Live(f.old_array), bit)) <= Pow2[bit]
  /\ \A e \in DOMAIN t.entries : t.entries[e].key \in Index => t.entries[e].key \in Live(f.old_array)
  /\ \A x \in Carried : x[1] > l /\ Pair(x).key \in Index => Pair(x).key \in Live(f.old_array)
StayInv ==
  /\ phase # "UNDEFINED"
  /\ resizes # <<>> => NoNil(t)
  /\ \A l \in DOMAIN resizes : StayFits(resizes[l], l)

\* The table is the same, and what is on its way was.
LEMMA FitsStays ==
  ASSUME NEW f, NEW l, StayFits(f, l), UNCHANGED t,
         NEW g, g.loop = "array" => f.loop = "array" /\ g.n_array = f.n_array /\ g.old_array = f.old_array,
         \A x \in Carried' : x[1] > l =>
           \/ x \in Carried /\ Pair(x)' = Pair(x)
           \/ Pair(x)'.key \in Live(f.old_array)
           \/ \E y \in Carried : y[1] > l /\ Pair(x)' = Pair(y)
  PROVE  StayFits(g, l)'
  <1> SUFFICES ASSUME g.loop = "array"
               PROVE  /\ 2 * Cardinality(Live(t'.array)) > g.n_array
                      /\ Live(t'.array) \subseteq Live(g.old_array)
                      /\ \A bit \in Nat : Pow2[bit] > g.n_array =>
                           2 * Cardinality(UpToBit(Live(g.old_array), bit)) <= Pow2[bit]
                      /\ \A e \in DOMAIN t'.entries :
                           t'.entries[e].key \in Index => t'.entries[e].key \in Live(g.old_array)
                      /\ \A x \in Carried' : x[1] > l /\ Pair(x)'.key \in Index => Pair(x)'.key \in Live(g.old_array)
    BY DEF StayFits
  <1>1. f.loop = "array" /\ g.n_array = f.n_array /\ g.old_array = f.old_array
    OBVIOUS
  <1>2. /\ 2 * Cardinality(Live(t.array)) > f.n_array
        /\ Live(t.array) \subseteq Live(f.old_array)
        /\ \A bit \in Nat : Pow2[bit] > f.n_array =>
             2 * Cardinality(UpToBit(Live(f.old_array), bit)) <= Pow2[bit]
        /\ \A e \in DOMAIN t.entries : t.entries[e].key \in Index => t.entries[e].key \in Live(f.old_array)
        /\ \A x \in Carried : x[1] > l /\ Pair(x).key \in Index => Pair(x).key \in Live(f.old_array)
    BY <1>1 DEF StayFits
  <1>3. ASSUME NEW x \in Carried', x[1] > l, Pair(x)'.key \in Index PROVE Pair(x)'.key \in Live(f.old_array)
    <2>1. CASE x \in Carried /\ Pair(x)' = Pair(x)
      BY <2>1, <1>2, <1>3
    <2>2. CASE \E y \in Carried : y[1] > l /\ Pair(x)' = Pair(y)
      BY <2>2, <1>2, <1>3
    <2> QED BY <2>1, <2>2, <1>3
  <1>4. t' = t
    OBVIOUS
  <1> QED BY <1>1, <1>2, <1>3, <1>4

\* A rehash without a stack above: the elements that stay are more than half of the
\* new size, and for no larger one would they be, for it would have been taken.
LEMMA CutFits ==
  ASSUME FewIndices, NEW tab, Shape(tab), NEW k \in Key, ~InArray(tab, k),
         NEW n_array, n_array = RehashSizes(tab, k).n_array, Shrinks(tab, n_array)
  PROVE  /\ 2 * Cardinality({i \in Live(tab.array) : i <= n_array}) > n_array
         /\ \A bit \in Nat : Pow2[bit] > n_array => 2 * Cardinality(UpToBit(Live(tab.array), bit)) <= Pow2[bit]
  <1> PICK n : n = Counted(tab, k)
    OBVIOUS
  <1> PICK size : size = Len(tab.array)
    OBVIOUS
  <1>1. tab \in Table /\ size \in Nat /\ DOMAIN tab.array = 1 .. size /\ Live(tab.array) \subseteq Index /\ EntryInv(tab)
    BY ArrayIs DEF Shape
  <1>2. n \in Nat
    BY CountWithin
  <1>3. n_array > ARRAY_MIN /\ ARRAY_MIN \in Nat /\ n_array < size
    BY TableAssumption DEF Shrinks
  <1>4. PICK p \in Fits(IndexRanges(tab, k), n) :
          /\ \A other \in Fits(IndexRanges(tab, k), n) : other <= p
          /\ p \in 0 .. n /\ n_array = Pow2[p]
    <2>1. n_array # 0
      BY <1>3
    <2> QED BY <2>1, <1>1, SizesByCount
  \* Below the length of the array only elements are counted.
  <1>5. ASSUME NEW bit \in Nat, Pow2[bit] <= size
        PROVE  CountUpTo(tab, k, bit) = Cardinality(CountedElements(tab, bit))
    <2>1. CountedEntries(tab, bit) = {}
      <3> SUFFICES ASSUME NEW e \in CountedEntries(tab, bit) PROVE FALSE
        OBVIOUS
      <3>1. tab.entries[e].key \in Index /\ tab.entries[e].key <= Pow2[bit] /\ e \in DOMAIN tab.entries
        BY <1>1, CountIs
      <3>2. tab.entries[e].key # Nil
        BY <3>1, KeysAre
      <3>3. ~InArray(tab, tab.entries[e].key)
        BY <3>1, <3>2, <1>1 DEF EntryInv
      <3>4. tab.entries[e].key \in Nat /\ Pow2[bit] \in Nat
        BY <3>1, KeysAre, Pow2Above
      <3>5. tab.entries[e].key <= size
        BY <3>1, <3>4, <1>1, <1>5
      <3> QED BY <3>1, <3>3, <3>5, <1>1, InArrayIs
    <2>2. ~(k \in Index /\ k <= Pow2[bit])
      <3> SUFFICES ASSUME k \in Index, k <= Pow2[bit] PROVE FALSE
        OBVIOUS
      <3>1. k \in Nat /\ Pow2[bit] \in Nat
        BY KeysAre, Pow2Above
      <3>2. k <= size
        BY <3>1, <1>1, <1>5
      <3> QED BY <3>2, <1>1, InArrayIs
    <2>3. Cardinality(CountedElements(tab, bit)) \in Nat
      BY CountWithin
    <2>4. CountUpTo(tab, k, bit) = Cardinality(CountedElements(tab, bit)) + Cardinality(CountedEntries(tab, bit)) + 0
      BY <2>2, <1>1, CountIs
    <2>5. Cardinality(CountedEntries(tab, bit)) = 0
      BY <2>1, FS_EmptySet
    <2> QED BY <2>3, <2>4, <2>5
  <1>6. 2 * Cardinality({i \in Live(tab.array) : i <= n_array}) > n_array
    <2>1. p \in Nat /\ IndexRanges(tab, k)[p] > Pow2[p] \div 2
      BY <1>2, <1>4 DEF Fits
    <2>2. IndexRanges(tab, k)[p] = CountUpTo(tab, k, p)
      BY <1>4 DEF IndexRanges
    <2>3. Pow2[p] <= size
      <3>1. Pow2[p] \in Nat
        BY <2>1, Pow2Above
      <3> QED BY <3>1, <1>1, <1>3, <1>4
    <2>4. Cardinality(CountedElements(tab, p)) > Pow2[p] \div 2 /\ Cardinality(CountedElements(tab, p)) \in Nat
      BY <2>1, <2>2, <2>3, <1>5, CountWithin
    <2>5. 2 * Cardinality(CountedElements(tab, p)) > Pow2[p]
      BY <2>1, <2>4, Halves
    <2> QED BY <2>5, <1>4 DEF CountedElements
  <1>7. ASSUME NEW bit \in Nat, Pow2[bit] > n_array, ~(2 * Cardinality(UpToBit(Live(tab.array), bit)) <= Pow2[bit])
        PROVE  FALSE
    <2>1. p \in Nat /\ Pow2[bit] \in Nat /\ Pow2[p] \in Nat
      BY <1>2, <1>4, Pow2Above
    <2>2. bit > p
      <3>1. bit <= p => Pow2[bit] <= Pow2[p]
        BY <2>1, Pow2Monotone
      <3> QED BY <3>1, <2>1, <1>4, <1>7
    <2> PICK q \in Nat : bit = q + 1
      <3>1. bit - 1 \in Nat /\ bit = (bit - 1) + 1
        BY <2>1, <2>2
      <3> QED BY <3>1
    <2> PICK a : a = Cardinality(UpToBit(Live(tab.array), bit))
      OBVIOUS
    <2>3. Pow2[bit] = 2 * Pow2[q] /\ Pow2[q] \in Nat /\ Pow2[q] > q /\ Pow2[bit] \div 2 = Pow2[q]
      BY Halves, Pow2Above
    <2>4. UpToBit(Live(tab.array), bit) = CountedElements(tab, bit)
      BY DEF UpToBit, CountedElements
    <2>5. a \in Nat /\ a > Pow2[q]
      <3>1. a \in Nat
        BY <2>4, CountWithin
      <3> QED BY <3>1, <2>1, <2>3, <1>7
    <2>6. /\ CountUpTo(tab, k, bit) \in Nat /\ CountUpTo(tab, k, bit) <= n
          /\ a <= CountUpTo(tab, k, bit)
      BY <2>4, CountWithin
    <2>7. size > Pow2[q]
      <3>1. UpToBit(Live(tab.array), bit) \subseteq 1 .. size
        BY <1>1 DEF UpToBit, Live
      <3>2. IsFiniteSet(1 .. size) /\ Cardinality(1 .. size) = size
        <4>1. 1 \in Int /\ size \in Int
          BY <1>1
        <4> QED BY <4>1, <1>1, FS_Interval, UpTo
      <3>3. a <= size
        BY <3>1, <3>2, FS_Subset
      <3> QED BY <3>3, <2>3, <2>5, <1>1
    <2>8. CountUpTo(tab, k, q) \in Nat /\ CountUpTo(tab, k, q) <= Pow2[q]
      <3>1. CountUpTo(tab, k, q) = Cardinality(CountedElements(tab, q))
        BY <2>3, <2>7, <1>1, <1>5
      <3>2. CountedElements(tab, q) \subseteq Index /\ \A i \in CountedElements(tab, q) : i <= Pow2[q]
        BY <1>1 DEF CountedElements
      <3> QED BY <3>1, <3>2, SmallIndices
    <2>9. bit \in 0 .. n /\ q \in 0 .. n /\ n > Pow2[q] /\ bit > 0 /\ bit - 1 = q
      BY <2>3, <2>5, <2>6, <1>2
    <2>10. IndexRanges(tab, k)[bit] = CountUpTo(tab, k, bit) /\ IndexRanges(tab, k)[q] = CountUpTo(tab, k, q)
      BY <2>9 DEF IndexRanges
    <2>11. /\ CountUpTo(tab, k, bit) > Pow2[q] /\ CountUpTo(tab, k, bit) > CountUpTo(tab, k, q)
           /\ CountUpTo(tab, k, q) # n
      BY <2>3, <2>5, <2>6, <2>8, <1>2
    <2>12. bit \in Fits(IndexRanges(tab, k), n)
      BY <2>3, <2>9, <2>10, <2>11 DEF Fits, Turn
    <2>13. bit <= p
      BY <2>12, <1>4
    <2> QED BY <2>1, <2>2, <2>13
  <1> QED BY <1>6, <1>7

\* Where the frames of the stack are.
LEMMA FramesFit ==
  ASSUME TypeInv
  PROVE  /\ Len(resizes) \in Nat /\ DOMAIN resizes = 1 .. Len(resizes) /\ resizes \in Seq(Frame)
         /\ Level = Len(resizes) + 1 /\ Level \in Nat
         /\ \A x \in Carried : x[1] \in Nat /\ x[1] <= Level
  <1>1. /\ Len(resizes) \in Nat /\ DOMAIN resizes = 1 .. Len(resizes)
        /\ Level = Len(resizes) + 1 /\ Level \in Nat
    BY LevelIs
  <1>2. ASSUME NEW x \in Carried PROVE x[1] \in Nat /\ x[1] <= Level
    <2>1. x[2] \in {"call", "array", "entries"} /\ x[1] \in Nat
      BY CarriedIs
    <2>2. x[1] \in 2 .. Level \/ x[1] \in DOMAIN resizes
      BY <2>1, CarriedTypes
    <2> QED BY <2>1, <2>2, <1>1
  <1> QED BY <1>1, <1>2 DEF TypeInv

\* Nothing changes but the innermost frame, and that leaves what counts.
LEMMA StaySame ==
  ASSUME TypeInv, StayInv, UNCHANGED t, phase' # "UNDEFINED", resizes # <<>>,
         NEW g, g.loop = "array" => /\ Innermost.loop = "array" /\ g.n_array = Innermost.n_array
                                    /\ g.old_array = Innermost.old_array,
         resizes' = [resizes EXCEPT ![Len(resizes)] = g],
         \A l \in DOMAIN resizes : resizes[l].loop = "array" =>
           \A x \in Carried' : x[1] > l =>
             \/ x \in Carried /\ Pair(x)' = Pair(x)
             \/ Pair(x)'.key \in Live(resizes[l].old_array)
             \/ \E y \in Carried : y[1] > l /\ Pair(x)' = Pair(y)
  PROVE  StayInv'
  <1> PICK n : n = Len(resizes)
    OBVIOUS
  <1>1. n \in Nat /\ DOMAIN resizes = 1 .. n /\ resizes \in Seq(Frame) /\ Innermost = resizes[n]
    BY FramesFit DEF Innermost
  <1>2. /\ DOMAIN resizes' = DOMAIN resizes
        /\ \A l \in DOMAIN resizes : resizes'[l] = IF l = n THEN g ELSE resizes[l]
    BY <1>1
  <1>3. ASSUME NEW l \in DOMAIN resizes' PROVE StayFits(resizes[l], l)'
    <2> PICK f : f = resizes[l]
      OBVIOUS
    <2> PICK h : h = resizes'[l]
      OBVIOUS
    <2>1. l \in DOMAIN resizes /\ StayFits(f, l)
      BY <1>2 DEF StayInv
    <2>2. h.loop = "array" => f.loop = "array" /\ h.n_array = f.n_array /\ h.old_array = f.old_array
      BY <2>1, <1>1, <1>2
    <2>3. CASE f.loop = "array"
      <3>1. \A x \in Carried' : x[1] > l =>
              \/ x \in Carried /\ Pair(x)' = Pair(x)
              \/ Pair(x)'.key \in Live(f.old_array)
              \/ \E y \in Carried : y[1] > l /\ Pair(x)' = Pair(y)
        BY <2>1, <2>3
      <3>2. StayFits(h, l)'
        BY <2>1, <2>2, <3>1, FitsStays
      <3> QED BY <3>2
    <2>4. CASE f.loop # "array"
      BY <2>2, <2>4 DEF StayFits
    <2> QED BY <2>3, <2>4
  <1>4. NoNil(t)'
    BY DEF StayInv, NoNil
  <1> QED BY <1>3, <1>4 DEF StayInv

LEMMA StayMove ==
  ASSUME TypeInv, StayInv, MoveElement \/ InsertEntry
  PROVE  StayInv'
  <1> PICK n : n = Len(resizes)
    OBVIOUS
  <1> PICK src : src = <<Len(resizes), Innermost.loop,
                         IF Innermost.loop = "array" THEN Least(Vanishing(Innermost)) ELSE Least(Waiting(Innermost))>>
    OBVIOUS
  <1>1. /\ src \in Carried /\ call' = Pair(src) /\ Pair(src) # Empty
        /\ resizes # <<>> /\ call = Empty /\ phase # "UNDEFINED"
        /\ src[1] = Len(resizes) /\ src[2] \in {"array", "entries"}
        /\ src[2] = resizes[Len(resizes)].loop
        /\ src[2] = "array" => src[3] = Least(Vanishing(resizes[Len(resizes)]))
        /\ src[2] = "entries" => src[3] = Least(Waiting(resizes[Len(resizes)]))
        /\ resizes' = [resizes EXCEPT ![Len(resizes)].i = src[3]]
        /\ UNCHANGED <<t, phase>>
    BY MoveIs
  <1>2. /\ \A x \in Carried' : x # <<Level, "call", 0>> => x \in Carried /\ x # src
        /\ \A x \in Carried : x # src => x \in Carried' /\ Pair(x)' = Pair(x)
        /\ Pair(<<Level, "call", 0>>)' = Pair(src)
    BY <1>1, CarriedMove
  <1>3. n \in Nat /\ DOMAIN resizes = 1 .. n /\ resizes \in Seq(Frame) /\ Innermost = resizes[n]
    BY FramesFit DEF Innermost
  <1> PICK g : g = [Innermost EXCEPT !.i = src[3]]
    OBVIOUS
  <1>4. resizes' = [resizes EXCEPT ![Len(resizes)] = g]
    BY <1>1, <1>3
  <1>5. g.loop = Innermost.loop /\ g.n_array = Innermost.n_array /\ g.old_array = Innermost.old_array
    <2>1. n \in DOMAIN resizes
      BY <1>1, <1>3
    <2>2. Innermost \in Frame
      BY <2>1, <1>3
    <2> QED BY <2>2 DEF Frame
  <1>6. ASSUME NEW l \in DOMAIN resizes, resizes[l].loop = "array", NEW x \in Carried', x[1] > l
        PROVE  \/ x \in Carried /\ Pair(x)' = Pair(x)
               \/ Pair(x)'.key \in Live(resizes[l].old_array)
               \/ \E y \in Carried : y[1] > l /\ Pair(x)' = Pair(y)
    <2>1. CASE x # <<Level, "call", 0>>
      BY <2>1, <1>2
    <2>2. CASE x = <<Level, "call", 0>>
      <3>1. Pair(x)' = Pair(src)
        <4>1. Level' = Level
          BY <1>3, <1>4 DEF Level
        <4> QED BY <2>2, <4>1, <1>2
      <3>2. CASE l < n
        BY <3>1, <3>2, <1>1
      <3>3. CASE l = n
        <4>1. src[2] = "array" /\ src[3] \in Vanishing(resizes[n])
          <5>1. src[2] = "array"
            BY <3>3, <1>1, <1>6
          <5> QED BY <5>1, <1>1, CarriedTypes
        <4>2. Pair(src) = [key |-> src[3], value |-> resizes[src[1]].old_array[src[3]]]
          BY <4>1, <1>1, CarriedTypes
        <4>3. Pair(src).key \in Live(resizes[l].old_array)
          <5>1. src[3] \in Live(resizes[n].old_array)
            BY <4>1 DEF Vanishing
          <5>2. Pair(src).key = src[3]
            BY <4>2
          <5> QED BY <5>1, <5>2, <3>3
        <4> QED BY <3>1, <4>3
      <3> QED BY <3>2, <3>3, <1>3
    <2> QED BY <2>1, <2>2
  <1> QED BY <1>1, <1>4, <1>5, <1>6, StaySame

LEMMA StayCut ==
  ASSUME TypeInv, StayInv, CutArray
  PROVE  StayInv'
  <1>1. /\ t' = t /\ resizes # <<>> /\ call = Empty /\ call' = Empty /\ phase # "UNDEFINED"
        /\ resizes[Len(resizes)].loop = "array" /\ Vanishing(resizes[Len(resizes)]) = {}
        /\ resizes' = [resizes EXCEPT ![Len(resizes)] =
                         [@ EXCEPT !.loop = "entries", !.i = 0, !.old_array = <<>>]]
        /\ UNCHANGED phase
    BY CutIs
  <1> PICK g : g = [Innermost EXCEPT !.loop = "entries", !.i = 0, !.old_array = <<>>]
    OBVIOUS
  <1>2. Innermost = resizes[Len(resizes)] /\ Len(resizes) \in DOMAIN resizes /\ Innermost \in Frame
    BY <1>1, Innermosts
  <1>3. resizes' = [resizes EXCEPT ![Len(resizes)] = g]
    BY <1>1, <1>2
  <1>4. /\ g.loop = "entries" /\ g.i = 0 /\ g.call = resizes[Len(resizes)].call
        /\ g.old_entries = resizes[Len(resizes)].old_entries
    BY <1>2 DEF Frame
  <1>5. /\ \A x : x \in Carried' <=> x \in Carried
        /\ \A x \in Carried : Pair(x)' = Pair(x)
    BY <1>1, <1>3, <1>4, CarriedCut
  <1> QED BY <1>1, <1>3, <1>4, <1>5, StaySame

LEMMA StayReturn ==
  ASSUME TypeInv, StayInv, Return
  PROVE  StayInv'
  <1> PICK n : n = Len(resizes)
    OBVIOUS
  <1>1. n \in Nat /\ DOMAIN resizes = 1 .. n /\ resizes \in Seq(Frame) /\ Innermost = resizes[n]
    BY FramesFit DEF Innermost
  <1>2. /\ resizes # <<>> /\ call = Empty /\ phase # "UNDEFINED"
        /\ resizes[Len(resizes)].loop = "entries" /\ Waiting(resizes[Len(resizes)]) = {}
        /\ call' = resizes[Len(resizes)].call
        /\ resizes' = SubSeq(resizes, 1, Len(resizes) - 1)
        /\ UNCHANGED <<t, phase>>
    BY <1>1 DEF Return, Resizing
  <1>3. /\ \A x : x \in Carried' <=> x \in Carried
        /\ \A x \in Carried : Pair(x)' = Pair(x)
    BY <1>2, CarriedReturn
  <1>4. DOMAIN resizes' \subseteq DOMAIN resizes /\ \A l \in DOMAIN resizes' : resizes'[l] = resizes[l]
    <2>1. n > 0
      BY <1>1, <1>2
    <2> QED BY <2>1, <1>1, <1>2
  <1>5. ASSUME NEW l \in DOMAIN resizes' PROVE StayFits(resizes[l], l)'
    <2> PICK f : f = resizes[l]
      OBVIOUS
    <2>1. StayFits(f, l) /\ resizes'[l] = f
      BY <1>4 DEF StayInv
    <2>2. StayFits(f, l)'
      BY <2>1, <1>2, <1>3, FitsStays
    <2> QED BY <2>1, <2>2
  <1>6. NoNil(t)'
    BY <1>2 DEF StayInv, NoNil
  <1> QED BY <1>2, <1>5, <1>6 DEF StayInv

\* An element or entry more of what was in the old array.
LEMMA StayStore ==
  ASSUME TypeInv, CarriedInv, StayInv, Store
  PROVE  StayInv'
  <1>1. /\ call # Empty /\ HasRoom(t, call.key) /\ t' = Put(t, call) /\ call' = Empty
        /\ UNCHANGED <<resizes, phase>>
    BY DEF Store
  <1>2. Shape(t) /\ t \in Table /\ call \in Entry /\ call.key \in Key /\ call.key # Nil
    BY <1>1, CallIs DEF TypeInv, Shape
  <1> PICK n : n = Len(resizes)
    OBVIOUS
  <1>3. n \in Nat /\ DOMAIN resizes = 1 .. n /\ Level = n + 1 /\ resizes \in Seq(Frame)
    BY FramesFit
  <1>4. CASE resizes = <<>>
    <2>1. DOMAIN resizes' = {} /\ resizes' = <<>>
      BY <1>1, <1>4
    <2> QED BY <1>1, <2>1 DEF StayInv
  <1>5. CASE resizes # <<>>
    <2>1. Level > 1
      BY <1>3, <1>5
    <2>2. <<Level, "call", 0>> \in Carried /\ Pair(<<Level, "call", 0>>) = call
      BY <2>1, <1>1, CarriedStore
    <2>3. call.value # Nil
      BY <2>2, KeysAre DEF CarriedInv
    <2>4. /\ \A x \in Carried' : x \in Carried /\ Pair(x)' = Pair(x)
      BY <1>1, CarriedStore
    <2>5. /\ \A e \in DOMAIN t'.entries :
               \/ e \in DOMAIN t.entries /\ t'.entries[e] = t.entries[e]
               \/ t'.entries[e] = call
          /\ Live(t.array) \subseteq Live(t'.array)
          /\ Live(t'.array) \subseteq Live(t.array) \cup {call.key}
          /\ t' \in Table
      <3> PICK new : new = Put(t, call)
        OBVIOUS
      <3>0. t' = new
        BY <1>1
      <3>1. CASE InArray(t, call.key)
        <4>1. /\ new.entries = t.entries /\ new \in Table
              /\ Len(new.array) = Len(t.array)
              /\ \A i \in 1 .. Len(t.array) : new.array[i] = IF i = call.key THEN call.value ELSE t.array[i]
          BY <3>1, <1>2, PutElement
        <4>2. DOMAIN t.array = 1 .. Len(t.array) /\ DOMAIN new.array = 1 .. Len(t.array)
          <5>1. DOMAIN t.array = 1 .. Len(t.array)
            BY <1>2, ArrayIs
          <5>2. DOMAIN new.array = 1 .. Len(new.array)
            BY <4>1, ArrayIs
          <5> QED BY <5>1, <5>2, <4>1
        <4>3. Live(t.array) \subseteq Live(new.array) /\ Live(new.array) \subseteq Live(t.array) \cup {call.key}
          BY <4>1, <4>2, <2>3 DEF Live
        <4> QED BY <3>0, <4>1, <4>3
      <3>2. CASE ~InArray(t, call.key)
        <4> PICK at : at = table_get_entry(t, call.key)
          OBVIOUS
        <4>1. /\ new.array = t.array /\ new \in Table /\ Len(new.entries) = Len(t.entries)
              /\ new.entries[at] = call
              /\ \A i \in 1 .. Len(t.entries) : i # at => new.entries[i] = t.entries[i]
          <5>0. HasRoom(t, call.key)
            BY <1>1
          <5>1. /\ Put(t, call) \in Table /\ Put(t, call).array = t.array
                /\ Put(t, call).entries = [t.entries EXCEPT ![at] = call]
                /\ Len(Put(t, call).entries) = Len(t.entries)
                /\ Put(t, call).entries[at] = call
                /\ \A i \in 1 .. Len(t.entries) : i # at => Put(t, call).entries[i] = t.entries[i]
            BY <5>0, <3>2, <1>2, PutEntry
          <5> QED BY <5>1
        <4>2. DOMAIN new.entries = 1 .. Len(t.entries) /\ DOMAIN t.entries = 1 .. Len(t.entries)
          <5>1. DOMAIN t.entries = 1 .. Len(t.entries)
            BY <1>2, ArrayIs
          <5>2. DOMAIN new.entries = 1 .. Len(new.entries)
            BY <4>1, ArrayIs
          <5> QED BY <5>1, <5>2, <4>1
        <4> QED BY <3>0, <4>1, <4>2
      <3> QED BY <3>1, <3>2
    <2>6. NoNil(t)'
      BY <2>3, <2>5, <1>5 DEF StayInv, NoNil
    <2>7. ASSUME NEW l \in DOMAIN resizes' PROVE StayFits(resizes[l], l)'
      <3> PICK f : f = resizes[l]
        OBVIOUS
      <3>1. StayFits(f, l) /\ resizes'[l] = f /\ f \in Frame /\ l <= n /\ l \in Nat
        BY <1>1, <1>3 DEF StayInv
      <3>2. CASE f.loop # "array"
        BY <3>1, <3>2 DEF StayFits
      <3>3. CASE f.loop = "array"
        <4> PICK whole : whole = Live(f.old_array)
          OBVIOUS
        <4>1. /\ 2 * Cardinality(Live(t.array)) > f.n_array
              /\ Live(t.array) \subseteq whole
              /\ \A bit \in Nat : Pow2[bit] > f.n_array => 2 * Cardinality(UpToBit(whole, bit)) <= Pow2[bit]
              /\ \A e \in DOMAIN t.entries : t.entries[e].key \in Index => t.entries[e].key \in whole
              /\ \A x \in Carried : x[1] > l /\ Pair(x).key \in Index => Pair(x).key \in whole
          BY <3>1, <3>3 DEF StayFits
        <4>2. call.key \in Index => call.key \in whole
          <5>1. <<Level, "call", 0>>[1] > l
            BY <3>1, <1>3
          <5> QED BY <5>1, <4>1, <2>2
        <4>3. Live(t'.array) \subseteq whole
          <5>1. Live(t'.array) \subseteq Index
            <6>1. Shape(t')
              BY <1>1, <1>2, PutReads
            <6> QED BY <6>1 DEF Shape
          <5> QED BY <5>1, <4>1, <4>2, <2>5
        <4>4. 2 * Cardinality(Live(t'.array)) > f.n_array
          <5>1. /\ IsFiniteSet(Live(t'.array)) /\ Cardinality(Live(t'.array)) \in Nat
            BY <2>5, FiniteParts
          <5>2. Cardinality(Live(t.array)) \in Nat
            BY <1>2, FiniteParts
          <5>3. Cardinality(Live(t.array)) <= Cardinality(Live(t'.array))
            BY <5>1, <2>5, FS_Subset
          <5>4. f.n_array \in Nat
            BY <3>1 DEF Frame
          <5> QED BY <5>1, <5>2, <5>3, <5>4, <4>1
        <4>5. \A e \in DOMAIN t'.entries : t'.entries[e].key \in Index => t'.entries[e].key \in whole
          BY <2>5, <4>1, <4>2
        <4>6. \A x \in Carried' : x[1] > l /\ Pair(x)'.key \in Index => Pair(x)'.key \in whole
          BY <2>4, <4>1
        <4>7. StayFits(f, l)'
          BY <4>1, <4>3, <4>4, <4>5, <4>6 DEF StayFits
        <4> QED BY <3>1, <4>7
      <3> QED BY <3>2, <3>3
    <2> QED BY <1>1, <2>6, <2>7 DEF StayInv
  <1> QED BY <1>4, <1>5

\* A rehash below a table_resize that moves elements leaves the array as it is.
LEMMA SizeKept ==
  ASSUME FewIndices, TypeInv, CarriedInv, StayInv, call # Empty, ~HasRoom(t, call.key),
         NEW l \in DOMAIN resizes, resizes[l].loop = "array"
  PROVE  RehashSizes(t, call.key).n_array = Len(t.array)
  <1> PICK f : f = resizes[l]
    OBVIOUS
  <1> PICK whole : whole = Live(f.old_array)
    OBVIOUS
  <1> PICK k : k = call.key
    OBVIOUS
  <1>1. /\ f \in Frame /\ FrameInv(f) /\ StayFits(f, l) /\ f.loop = "array" /\ Shape(t)
        /\ k \in Key /\ resizes # <<>> /\ phase # "UNDEFINED" /\ NoNil(t)
    <2>1. resizes # <<>>
      BY FramesFit
    <2> QED BY <2>1, FramesAre, CallIs DEF StayInv, TypeInv
  <1>2. /\ 2 * Cardinality(Live(t.array)) > f.n_array
        /\ Live(t.array) \subseteq whole
        /\ \A bit \in Nat : Pow2[bit] > f.n_array => 2 * Cardinality(UpToBit(whole, bit)) <= Pow2[bit]
        /\ \A e \in DOMAIN t.entries : t.entries[e].key \in Index => t.entries[e].key \in whole
        /\ \A x \in Carried : x[1] > l /\ Pair(x).key \in Index => Pair(x).key \in whole
    BY <1>1 DEF StayFits
  <1>3. whole \subseteq Index /\ Len(t.array) = f.n_array /\ \E bit \in Nat : f.n_array = Pow2[bit]
    BY <1>1 DEF FrameInv
  <1> PICK p \in Nat : f.n_array = Pow2[p]
    BY <1>3
  <1>4. ~InArray(t, k)
    BY DEF HasRoom
  <1>5. /\ Level > 1 /\ Level > l /\ CallAt(Level) = call /\ Level \in Nat
    BY <1>1, LevelIs
  <1>6. <<Level, "call", 0>> \in Carried /\ Pair(<<Level, "call", 0>>) = call
    <2>1. Carries(Level, "call", 0)
      <3>1. Level \in 2 .. Level
        BY <1>5
      <3> QED BY <3>1, <1>5, CarriesIs
    <2>2. <<Level, "call", 0>> \in Carried
      BY <2>1, <1>5, CarriedIs
    <2>3. Pair(<<Level, "call", 0>>) = CallAt(Level)
      BY DEF Pair
    <2> QED BY <2>2, <2>3, <1>5
  <1>7. table_get(t, k) = Nil /\ (k \in Index => k \in whole)
    <2>1. table_get(t, Pair(<<Level, "call", 0>>).key) = Nil
      BY <1>6 DEF CarriedInv
    <2>2. <<Level, "call", 0>>[1] > l
      BY <1>5
    <2> QED BY <2>1, <2>2, <1>2, <1>6
  <1>8. \A bit \in Nat : bit > p => 2 * Cardinality(UpToBit(whole, bit)) <= Pow2[bit]
    <2> SUFFICES ASSUME NEW bit \in Nat, bit > p PROVE Pow2[bit] > f.n_array
      BY <1>2
    <2>1. ~(Pow2[bit] <= Pow2[p]) /\ Pow2[bit] \in Nat /\ Pow2[p] \in Nat
      BY Pow2Monotone, Pow2Above
    <2> QED BY <2>1
  <1>9. RehashSizes(t, k).n_array = Pow2[p]
    <2>1. 2 * Cardinality(Live(t.array)) > Pow2[p] /\ Len(t.array) = Pow2[p]
      BY <1>2, <1>3
    <2> QED BY <2>1, <1>1, <1>2, <1>3, <1>4, <1>7, <1>8, SizeStays
  <1> QED BY <1>3, <1>9

LEMMA StayRehash ==
  ASSUME FewIndices, TypeInv, CarriedInv, StayInv, Rehash
  PROVE  StayInv'
  <1> PICK f : f = NewFrame
    OBVIOUS
  <1> PICK n : n = Len(resizes)
    OBVIOUS
  <1> PICK k : k = call.key
    OBVIOUS
  <1>1. /\ call # Empty /\ call' = Empty /\ k \in Key
        /\ resizes' = Append(resizes, f) /\ f \in Frame
        /\ f.call = call
        /\ f.old_entries = t.entries
        /\ f.i = (IF f.loop = "array" THEN f.n_array ELSE 0)
        /\ f.loop = (IF Shrinks(t, f.n_array) THEN "array" ELSE "entries")
        /\ (f.loop = "array" => f.old_array = t.array)
        /\ f.n_array = RehashSizes(t, k).n_array
        /\ Shape(t') /\ IsEmptied(t', t, f.n_hash, f.n_array)
    BY RehashIs
  <1>2. /\ n \in Nat /\ resizes \in Seq(Frame) /\ DOMAIN resizes = 1 .. n
        /\ Len(resizes') = n + 1 /\ DOMAIN resizes' = 1 .. (n + 1)
        /\ \A l \in 1 .. n : resizes'[l] = resizes[l]
        /\ resizes'[n + 1] = f /\ resizes' # <<>> /\ Level = n + 1
    BY <1>1, FramesFit
  <1>3. Shape(t) /\ t \in Table /\ ~HasRoom(t, k) /\ ~InArray(t, k)
    BY DEF TypeInv, Shape, Rehash, HasRoom
  <1> PICK size, last : size = Len(t.array) /\ last = Len(t'.array)
    OBVIOUS
  <1>4. /\ size \in Nat /\ last \in Nat /\ DOMAIN t.array = 1 .. size /\ DOMAIN t'.array = 1 .. last
        /\ f.n_array \in Nat
    <2>1. t' \in Table
      BY <1>1 DEF IsEmptied
    <2> QED BY <2>1, <1>1, <1>3, ArrayIs DEF Frame
  <1>5. /\ last = IF f.n_array > size THEN table_next_size(f.n_array, ARRAY_MIN)
                  ELSE IF Shrinks(t, f.n_array) THEN f.n_array ELSE size
        /\ \A i \in 1 .. last : t'.array[i] = IF i <= size THEN t.array[i] ELSE Nil
        /\ \A e \in DOMAIN t'.entries : t'.entries[e] = Empty
    <2>1. t' \in Table
      BY <1>1 DEF IsEmptied
    <2>2. DOMAIN t'.entries = 1 .. Len(t'.entries)
      BY <2>1, ArrayIs
    <2> QED BY <2>2, <1>1 DEF IsEmptied
  <1>6. Empty.key = Nil /\ Nil \notin Index
    BY KeysAre DEF Empty
  <1>7. NoNil(t)'
    BY <1>5, <1>6 DEF NoNil
  <1>8. ASSUME NEW l \in 1 .. n, resizes[l].loop = "array"
        PROVE  f.n_array = size /\ f.loop = "entries" /\ last = size /\ Live(t'.array) = Live(t.array)
    <2>1. f.n_array = size
      BY <1>1, <1>2, <1>3, <1>8, SizeKept
    <2>2. ~Shrinks(t, f.n_array)
      BY <2>1, <1>4 DEF Shrinks
    <2>3. last = size
      BY <2>1, <2>2, <1>4, <1>5
    <2>4. Live(t'.array) = Live(t.array)
      BY <2>3, <1>4, <1>5 DEF Live
    <2> QED BY <2>1, <2>2, <2>3, <2>4, <1>1
  <1>9. \A x \in Carried' :
          \/ x \in Carried /\ Pair(x)' = Pair(x)
          \/ x[1] = Level /\ x[2] = "array" /\ f.loop = "array"
          \/ x[1] = Level /\ \E e \in DOMAIN t.entries : Pair(x)' = t.entries[e]
    <2>1. /\ \A x \in Carried : x \in Carried' /\ Pair(x)' = Pair(x)
          /\ \A x \in Carried' : x \notin Carried =>
              \/ /\ x[2] = "array" /\ f.loop = "array" /\ x[3] \in Vanishing(f)
                 /\ Pair(x)' = [key |-> x[3], value |-> f.old_array[x[3]]]
                 /\ x = <<Level, "array", x[3]>>
              \/ /\ x[2] = "entries" /\ x[3] \in DOMAIN f.old_entries /\ f.old_entries[x[3]].value # Nil
                 /\ f.loop = "entries" => x[3] > f.i
                 /\ Pair(x)' = f.old_entries[x[3]]
                 /\ x = <<Level, "entries", x[3]>>
      BY <1>1, CarriedRehash
    <2> SUFFICES ASSUME NEW x \in Carried'
                 PROVE  \/ x \in Carried /\ Pair(x)' = Pair(x)
                        \/ x[1] = Level /\ x[2] = "array" /\ f.loop = "array"
                        \/ x[1] = Level /\ \E e \in DOMAIN t.entries : Pair(x)' = t.entries[e]
      OBVIOUS
    <2>2. CASE x \in Carried
      BY <2>1, <2>2
    <2>3. CASE x = <<Level, "array", x[3]>> /\ f.loop = "array"
      BY <2>3
    <2>4. CASE x = <<Level, "entries", x[3]>> /\ x[3] \in DOMAIN f.old_entries /\ Pair(x)' = f.old_entries[x[3]]
      <3>1. x[1] = Level
        BY <2>4
      <3> QED BY <3>1, <2>4, <1>1
    <2> QED BY <2>1, <2>2, <2>3, <2>4
  <1>10. ASSUME NEW l \in 1 .. n PROVE StayFits(resizes[l], l)'
    <2> PICK g : g = resizes[l]
      OBVIOUS
    <2>1. g = resizes'[l] /\ StayFits(g, l) /\ l \in Nat
      BY <1>2 DEF StayInv
    <2>2. CASE g.loop # "array"
      BY <2>1, <2>2 DEF StayFits
    <2>3. CASE g.loop = "array"
      <3> PICK whole : whole = Live(g.old_array)
        OBVIOUS
      <3>1. /\ 2 * Cardinality(Live(t.array)) > g.n_array
            /\ Live(t.array) \subseteq whole
            /\ \A bit \in Nat : Pow2[bit] > g.n_array => 2 * Cardinality(UpToBit(whole, bit)) <= Pow2[bit]
            /\ \A e \in DOMAIN t.entries : t.entries[e].key \in Index => t.entries[e].key \in whole
            /\ \A x \in Carried : x[1] > l /\ Pair(x).key \in Index => Pair(x).key \in whole
        BY <2>1, <2>3 DEF StayFits
      <3>2. Live(t'.array) = Live(t.array) /\ f.loop = "entries"
        BY <2>3, <1>8
      <3>3. \A e \in DOMAIN t'.entries : t'.entries[e].key \in Index => t'.entries[e].key \in whole
        BY <1>5, <1>6
      <3>4. ASSUME NEW x \in Carried', x[1] > l, Pair(x)'.key \in Index PROVE Pair(x)'.key \in whole
        BY <3>1, <3>2, <3>4, <1>9
      <3>5. StayFits(g, l)'
        BY <3>1, <3>2, <3>3, <3>4 DEF StayFits
      <3> QED BY <2>1, <3>5
    <2> QED BY <2>2, <2>3
  <1>11. StayFits(resizes[n + 1], n + 1)'
    <2>1. CASE f.loop # "array"
      <3>1. StayFits(f, n + 1)'
        BY <2>1 DEF StayFits
      <3>2. resizes'[n + 1] = f
        BY <1>2
      <3> QED BY <3>1, <3>2
    <2>2. CASE f.loop = "array"
      <3>1. Shrinks(t, f.n_array) /\ f.old_array = t.array
        BY <2>2, <1>1
      <3>2. f.n_array < size
        BY <3>1 DEF Shrinks
      <3>3. last = f.n_array
        BY <3>1, <3>2, <1>4, <1>5
      <3>4. /\ 2 * Cardinality({i \in Live(t.array) : i <= f.n_array}) > f.n_array
            /\ \A bit \in Nat : Pow2[bit] > f.n_array => 2 * Cardinality(UpToBit(Live(t.array), bit)) <= Pow2[bit]
        BY <3>1, <1>1, <1>3, CutFits
      <3>5. Live(t'.array) = {i \in Live(t.array) : i <= f.n_array}
        BY <3>2, <3>3, <1>4, <1>5 DEF Live
      <3>6. \A e \in DOMAIN t'.entries : t'.entries[e].key \in Index => t'.entries[e].key \in Live(f.old_array)
        BY <1>5, <1>6
      <3>7. \A x \in Carried' : ~(x[1] > n + 1)
        <4>1. \A x \in Carried : x[1] \in Nat /\ x[1] <= Level
          BY FramesFit
        <4> SUFFICES ASSUME NEW x \in Carried' PROVE ~(x[1] > n + 1)
          OBVIOUS
        <4>2. x \in Carried \/ x[1] = Level
          BY <1>9
        <4> QED BY <4>1, <4>2, <1>2
      <3>8. StayFits(f, n + 1)'
        BY <3>1, <3>4, <3>5, <3>6, <3>7 DEF StayFits
      <3>9. resizes'[n + 1] = f
        BY <1>2
      <3> QED BY <3>8, <3>9
    <2> QED BY <2>1, <2>2
  <1>12. \A l \in DOMAIN resizes' : StayFits(resizes[l], l)'
    <2> SUFFICES ASSUME NEW l \in DOMAIN resizes' PROVE StayFits(resizes[l], l)'
      OBVIOUS
    <2>1. l \in 1 .. n \/ l = n + 1
      BY <1>2
    <2>2. CASE l = n + 1
      BY <2>2, <1>11
    <2> QED BY <2>1, <2>2, <1>10
  <1>13. phase' # "UNDEFINED"
    <2>1. phase # "UNDEFINED"
      BY DEF StayInv
    <2>2. phase' = IF Moving # {} /\ last # size THEN "UNDEFINED" ELSE phase
      BY DEF Rehash
    <2>3. ASSUME Moving # {} PROVE last = size
      <3> PICK l \in DOMAIN resizes : resizes[l].loop = "array"
        BY <2>3 DEF Moving
      <3> QED BY <1>2, <1>8
    <2> QED BY <2>1, <2>2, <2>3
  <1> QED BY <1>7, <1>12, <1>13 DEF StayInv

LEMMA NextStay ==
  ASSUME FewIndices, Inv, StayInv, [Next]_vars
  PROVE  StayInv'
  <1>1. TypeInv /\ CarriedInv
    BY DEF Inv
  <1>2. CASE Store
    BY <1>1, <1>2, StayStore
  <1>3. CASE Rehash
    BY <1>1, <1>3, StayRehash
  <1>4. CASE MoveElement \/ InsertEntry
    BY <1>1, <1>4, StayMove
  <1>5. CASE CutArray
    BY <1>1, <1>5, StayCut
  <1>6. CASE Return
    BY <1>1, <1>6, StayReturn
  <1>7. CASE \/ \E k \in Key : \E v \in Stored[k] \cup {Nil} : Assign(k, v)
             \/ StartPairs \/ NextPair \/ \E k \in Key : NextOf(k)
    <2>1. resizes' = <<>>
      BY <1>7 DEF Assign, StartPairs, NextPair, NextOf, Ready
    <2>2. phase' # "UNDEFINED"
      <3>1. CASE \E k \in Key : \E v \in Stored[k] \cup {Nil} : Assign(k, v)
        BY <3>1 DEF Assign, StayInv
      <3>2. CASE StartPairs
        BY <3>2 DEF StartPairs
      <3>3. CASE NextPair
        BY <3>3, FindNextIs DEF NextPair, StayInv
      <3>4. CASE \E k \in Key : NextOf(k)
        BY <3>4, FindNextIs DEF NextOf
      <3> QED BY <1>7, <3>1, <3>2, <3>3, <3>4
    <2>3. DOMAIN resizes' = {}
      BY <2>1
    <2> QED BY <2>1, <2>2, <2>3 DEF StayInv
  <1>8. CASE UNCHANGED vars
    <2>1. UNCHANGED <<t, call, resizes, phase>>
      BY <1>8 DEF vars
    <2>2. CASE resizes = <<>>
      <3>1. DOMAIN resizes' = {} /\ resizes' = <<>>
        BY <2>1, <2>2
      <3> QED BY <2>1, <3>1 DEF StayInv
    <2>3. CASE resizes # <<>>
      <3>1. Innermost = resizes[Len(resizes)] /\ resizes \in Seq(Frame)
        BY <1>1, <2>3, Innermosts DEF TypeInv
      <3>2. resizes' = [resizes EXCEPT ![Len(resizes)] = Innermost]
        BY <2>1, <3>1
      <3>3. /\ \A x : x \in Carried' <=> x \in Carried
            /\ \A x \in Carried : Pair(x)' = Pair(x)
        BY <2>1, CarriedSame
      <3>4. phase' # "UNDEFINED"
        BY <2>1 DEF StayInv
      <3> PICK g : g = Innermost
        OBVIOUS
      <3> QED BY <1>1, <2>1, <2>3, <3>2, <3>3, <3>4, StaySame
    <2> QED BY <2>2, <2>3
  <1> QED BY <1>2, <1>3, <1>4, <1>5, <1>6, <1>7, <1>8 DEF Next, AssignNext

\* While a table_resize moves elements out of its array, the assignments it makes
\* do not reallocate it, whatever rehashes they set off: none is lost
\* (table_resize, table_rehash).
THEOREM Stays == ASSUME FewIndices PROVE Spec => []ArrayStays
  <1>1. Init => StayInv
    <2> SUFFICES ASSUME resizes = <<>>, phase = "idle" PROVE StayInv
      BY DEF Init
    <2>1. DOMAIN resizes = {}
      OBVIOUS
    <2> QED BY <2>1 DEF StayInv
  <1>2. Inv /\ StayInv /\ [Next]_vars => StayInv'
    BY NextStay
  <1>3. StayInv => ArrayStays
    BY DEF StayInv, ArrayStays
  <1>4. Spec => []Inv
    BY Invariant
  <1> QED BY <1>1, <1>2, <1>3, <1>4, PTL DEF Spec

=============================================================================

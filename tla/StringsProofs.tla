--------------------------- MODULE StringsProofs ----------------------------
(***************************************************************************)
(* Proofs about Strings for every set of contents and of addresses, every  *)
(* hash function, every size of the table and every width of usize.        *)
(* Strings stay in the chains of their hashes, are interned, and are not   *)
(* freed while the program refers to them; bytes are counted exactly; and  *)
(* collections are paused when the program wants them to be.               *)
(***************************************************************************)
EXTENDS Strings, FiniteSetTheorems, WellFoundedInduction, TLAPS

-----------------------------------------------------------------------------
(* The inductive invariant, of any contents, chains, number of chains and  *)
(* strings referred to: the operations go through intermediate ones.       *)

Taken(txt) == {o \in Object : txt[o] # Nil}

Placed(txt, table, n) ==
  /\ txt \in [Object -> Text \cup {Nil}]
  /\ n \in Nat \ {0}
  /\ table \in [0..(n - 1) -> SUBSET Taken(txt)]
  /\ \A o \in Taken(txt) : \A i \in 0..(n - 1) :
       o \in table[i] <=> i = intern_clamp_index(txt[o], n)

Unique(txt) == \A o, p \in Taken(txt) : txt[o] = txt[p] => o = p

Good(txt, table, n, rts) ==
  Placed(txt, table, n) /\ Unique(txt) /\ rts \subseteq Taken(txt)

IInv == Good(text, chains, slots, roots)

\* It says what the properties say.
LEMMA Meanings == IInv <=> InternOK /\ Interned /\ RootsLive
  BY DEF IInv, Good, Placed, Unique, Taken, InternOK, Interned, RootsLive, Used

-----------------------------------------------------------------------------
(* The operators *)

\* A hash is clamped to an index of the table.
LEMMA ClampedIndex ==
  ASSUME NEW x \in Text, NEW n \in Nat \ {0}
  PROVE  intern_clamp_index(x, n) \in 0..(n - 1)
  BY StringsAssumption DEF intern_clamp_index

\* An allocation frees nothing or all the garbage there is.
LEMMA AllocateFrees ==
  ASSUME NEW h, NEW size, h.freed \in {{}, Garbage}
  PROVE  Allocate(h, size).freed \in {{}, Garbage}
  BY DEF Allocate, Collected

\* A sweep leaves what is not garbage, in the chains it was in.
LEMMA SweepKeeps ==
  ASSUME IInv, NEW h, h.freed \in {{}, Garbage}
  PROVE  Good(TextAfter(h), Swept(h, chains), slots, roots)
  <1> DEFINE txt == TextAfter(h)
             tab == Swept(h, chains)
  <1>1. /\ txt \in [Object -> Text \cup {Nil}]
        /\ Taken(txt) = Used \ h.freed
        /\ \A o \in Taken(txt) : txt[o] = text[o]
    BY DEF IInv, Good, Placed, Taken, TextAfter, Garbage, Used
  <1>2. tab \in [0..(slots - 1) -> SUBSET Taken(txt)]
    <2>1. DOMAIN chains = 0..(slots - 1)
      BY DEF IInv, Good, Placed
    <2>2. \A i \in 0..(slots - 1) : chains[i] \subseteq Used
      BY DEF IInv, Good, Placed, Taken, Used
    <2> QED BY <1>1, <2>1, <2>2 DEF Swept
  <1>3. Placed(txt, tab, slots)
    BY <1>1, <1>2 DEF IInv, Good, Placed, Taken, Used, Swept
  <1>4. Unique(txt)
    BY <1>1 DEF IInv, Good, Unique, Taken, Used
  <1>5. roots \subseteq Taken(txt)
    BY <1>1 DEF IInv, Good, Taken, Used, Garbage
  <1> QED BY <1>3, <1>4, <1>5 DEF Good

\* A content that is not there may be given an address, if it is put into the
\* chain of its hash.
LEMMA AddKeeps ==
  ASSUME NEW txt, NEW table, NEW n, NEW rts, Good(txt, table, n, rts),
         NEW o \in Object, txt[o] = Nil,
         NEW x \in Text, \A p \in Object : txt[p] # x
  PROVE  Good([txt EXCEPT ![o] = x],
              [table EXCEPT ![intern_clamp_index(x, n)] = @ \cup {o}],
              n, rts \cup {o})
  <1> DEFINE txt2 == [txt EXCEPT ![o] = x]
             j == intern_clamp_index(x, n)
             tab2 == [table EXCEPT ![j] = @ \cup {o}]
  <1>1. j \in 0..(n - 1)
    BY ClampedIndex DEF Good, Placed
  <1>2. /\ txt2 \in [Object -> Text \cup {Nil}]
        /\ Taken(txt2) = Taken(txt) \cup {o}
        /\ txt2[o] = x
        /\ \A p \in Taken(txt) : txt2[p] = txt[p]
        /\ o \notin Taken(txt)
    BY StringsAssumption DEF Good, Placed, Taken
  <1> HIDE DEF j, txt2
  <1>3. /\ tab2 \in [0..(n - 1) -> SUBSET Taken(txt2)]
        /\ tab2[j] = table[j] \cup {o}
        /\ \A i \in 0..(n - 1) : i # j => tab2[i] = table[i]
    BY <1>1, <1>2 DEF Good, Placed
  <1> HIDE DEF tab2
  <1>4. \A p \in Taken(txt2) : \A i \in 0..(n - 1) :
          p \in tab2[i] <=> i = intern_clamp_index(txt2[p], n)
    <2> SUFFICES ASSUME NEW p \in Taken(txt2), NEW i \in 0..(n - 1)
                 PROVE  p \in tab2[i] <=> i = intern_clamp_index(txt2[p], n)
      OBVIOUS
    <2>1. CASE p = o
      <3>1. o \notin table[i]
        BY <1>2 DEF Good, Placed
      <3>2. intern_clamp_index(txt2[p], n) = j
        BY <2>1, <1>2 DEF j
      <3> QED BY <2>1, <1>3, <3>1, <3>2
    <2>2. CASE p # o
      <3>1. p \in Taken(txt) /\ txt2[p] = txt[p]
        BY <2>2, <1>2
      <3>2. p \in table[i] <=> i = intern_clamp_index(txt2[p], n)
        BY <3>1 DEF Good, Placed
      <3>3. p \in tab2[i] <=> p \in table[i]
        BY <2>2, <1>3
      <3> QED BY <3>2, <3>3
    <2> QED BY <2>1, <2>2
  <1>5. Placed(txt2, tab2, n)
    BY <1>2, <1>3, <1>4 DEF Good, Placed
  <1>6. Unique(txt2)
    BY <1>2 DEF Good, Unique, Taken
  <1>7. rts \cup {o} \subseteq Taken(txt2)
    BY <1>2 DEF Good
  <1> QED BY <1>5, <1>6, <1>7 DEF Good, txt2, tab2, j

\* Rehashing puts every string into the chain of its hash.
LEMMA RehashKeeps ==
  ASSUME NEW txt, NEW table, NEW n, NEW rts, Good(txt, table, n, rts),
         NEW m \in Nat \ {0}
  PROVE  Good(txt, Rehashed(table, txt, m), m, rts)
  <1>1. \A o \in Taken(txt) : \E i \in 0..(n - 1) : o \in table[i]
    BY ClampedIndex DEF Good, Placed, Taken
  <1>2. UNION {table[i] : i \in DOMAIN table} = Taken(txt)
    BY <1>1 DEF Good, Placed
  <1>3. Rehashed(table, txt, m) =
          [i \in 0..(m - 1) |->
             {o \in Taken(txt) : intern_clamp_index(txt[o], m) = i}]
    BY <1>2 DEF Rehashed
  <1> QED BY <1>3 DEF Good, Placed

-----------------------------------------------------------------------------
(* The actions *)

LEMMA InitialState ==
  ASSUME Init PROVE IInv
  BY StringsAssumption DEF Init, IInv, Good, Placed, Unique, Taken

\* What is not in the chain of its hash is nowhere.
LEMMA AbsentIsNowhere ==
  ASSUME IInv, NEW x \in Text, Absent(x)
  PROVE  \A o \in Object : text[o] # x
  BY ClampedIndex, StringsAssumption
  DEF IInv, Good, Placed, Taken, Absent, Chain

\* One allocation, and two in a row, leave the table of chains as it should be.
LEMMA AllocationKeeps ==
  ASSUME IInv, NEW a, NEW b
  PROVE  LET h1 == Allocate(Heap, a)
             h2 == Allocate(h1, b)
         IN  /\ Good(TextAfter(h1), Swept(h1, chains), slots, roots)
             /\ Good(TextAfter(h2), Swept(h2, chains), slots, roots)
  <1> DEFINE h1 == Allocate(Heap, a)
             h2 == Allocate(h1, b)
  <1>1. h1.freed \in {{}, Garbage}
    BY AllocateFrees DEF Heap
  <1> HIDE DEF h1
  <1>2. h2.freed \in {{}, Garbage}
    BY <1>1, AllocateFrees
  <1> HIDE DEF h2
  <1>3. /\ Good(TextAfter(h1), Swept(h1, chains), slots, roots)
        /\ Good(TextAfter(h2), Swept(h2, chains), slots, roots)
    BY <1>1, <1>2, SweepKeeps
  <1> QED BY <1>3 DEF h1, h2

\* A string is linked after allocations that may have collected.
LEMMA LinkKeeps ==
  ASSUME IInv, NEW h,
         Good(TextAfter(h), Swept(h, chains), slots, roots),
         NEW x \in Text, Absent(x), NEW o \in Object, text[o] = Nil
  PROVE  Good([TextAfter(h) EXCEPT ![o] = x], Linked(h, x, o), slots, roots \cup {o})
  <1>1. \A p \in Object : TextAfter(h)[p] # x
    BY AbsentIsNowhere, StringsAssumption DEF TextAfter
  <1>2. TextAfter(h)[o] = Nil
    BY DEF TextAfter
  <1> QED BY <1>1, <1>2, AddKeeps DEF Linked

\* Fewer strings referred to.
LEMMA FewerRoots ==
  ASSUME NEW txt, NEW table, NEW n, NEW rts, Good(txt, table, n, rts),
         NEW r, r \subseteq rts
  PROVE  Good(txt, table, n, r)
  BY DEF Good

LEMMA StepKeeps ==
  ASSUME IInv, [Next]_vars
  PROVE  IInv'
  <1> USE DEF IInv
  <1>1. ASSUME NEW x \in Text, FindString(x) PROVE IInv'
    BY <1>1, ClampedIndex DEF FindString, Chain, Good, Placed, Taken
  <1>2. ASSUME NEW x \in Text, NEW o \in Object, NewString(x, o) PROVE IInv'
    <2> DEFINE h == Allocate(Heap, STRING_SIZE)
    <2>1. Good(TextAfter(h), Swept(h, chains), slots, roots)
      BY AllocationKeeps
    <2>2. /\ Absent(x) /\ text[o] = Nil
          /\ text' = [TextAfter(h) EXCEPT ![o] = x]
          /\ chains' = Linked(h, x, o)
          /\ slots' = slots /\ roots' = roots \cup {o}
      BY <1>2 DEF NewString
    <2> HIDE DEF h
    <2> QED BY <2>1, <2>2, LinkKeeps
  <1>3. ASSUME NEW x \in Text, NewStringRefused(x) PROVE IInv'
    <2> DEFINE h == Allocate(Heap, STRING_SIZE)
    <2>1. Good(TextAfter(h), Swept(h, chains), slots, roots)
      BY AllocationKeeps
    <2>2. /\ text' = TextAfter(h) /\ chains' = Swept(h, chains)
          /\ slots' = slots /\ roots' = roots
      BY <1>3 DEF NewStringRefused
    <2> QED BY <2>1, <2>2
  <1>4. ASSUME NEW x \in Text, NEW o \in Object, NewStringGrows(x, o) PROVE IInv'
    <2> DEFINE h == Allocate(Allocate(Heap, STRING_SIZE), 2 * slots)
               txt == [TextAfter(h) EXCEPT ![o] = x]
    <2>1. Good(TextAfter(h), Swept(h, chains), slots, roots)
      BY AllocationKeeps
    <2>2. /\ Absent(x) /\ text[o] = Nil
          /\ text' = txt
          /\ chains' = Rehashed(Linked(h, x, o), txt, 2 * slots)
          /\ slots' = 2 * slots /\ roots' = roots \cup {o}
      BY <1>4 DEF NewStringGrows
    <2> HIDE DEF h
    <2>3. Good(txt, Linked(h, x, o), slots, roots \cup {o})
      BY <2>1, <2>2, LinkKeeps
    <2>4. 2 * slots \in Nat \ {0}
      BY DEF Good, Placed
    <2> HIDE DEF txt
    <2> QED BY <2>2, <2>3, <2>4, RehashKeeps
  <1>5. ASSUME NEW x \in Text, NEW o \in Object, NewStringGrowRefused(x, o)
        PROVE  IInv'
    <2> DEFINE h == Allocate(Allocate(Heap, STRING_SIZE), 2 * slots)
    <2>1. Good(TextAfter(h), Swept(h, chains), slots, roots)
      BY AllocationKeeps
    <2>2. /\ Absent(x) /\ text[o] = Nil
          /\ text' = [TextAfter(h) EXCEPT ![o] = x]
          /\ chains' = Linked(h, x, o)
          /\ slots' = slots /\ roots' = roots
      BY <1>5 DEF NewStringGrowRefused
    <2> HIDE DEF h
    <2>3. Good(text', chains', slots, roots \cup {o})
      BY <2>1, <2>2, LinkKeeps
    <2> QED BY <2>2, <2>3, FewerRoots
  <1>6. ASSUME NEW o \in Object, Forget(o) PROVE IInv'
    BY <1>6, FewerRoots DEF Forget
  <1>7. ASSUME NEW n \in 1..MIN_CAP, Write(n) PROVE IInv'
    <2> DEFINE len == buffer.len + n
               h == Allocate(Heap, NewCap(len) - buffer.cap)
    <2>1. Good(TextAfter(h), Swept(h, chains), slots, roots)
      BY AllocationKeeps
    <2>2. /\ \/ text' = text /\ chains' = chains
             \/ text' = TextAfter(h) /\ chains' = Swept(h, chains)
          /\ slots' = slots /\ roots' = roots
      BY <1>7 DEF Write
    <2> QED BY <2>1, <2>2
  <1>8. ASSUME NEW n \in 1..MIN_CAP, WriteRefused(n) PROVE IInv'
    <2> DEFINE len == buffer.len + n
               h == Allocate(Heap, NewCap(len) - buffer.cap)
    <2>1. Good(TextAfter(h), Swept(h, chains), slots, roots)
      BY AllocationKeeps
    <2>2. /\ text' = TextAfter(h) /\ chains' = Swept(h, chains)
          /\ slots' = slots /\ roots' = roots
      BY <1>8 DEF WriteRefused
    <2> QED BY <2>1, <2>2
  <1>9. CASE Collect
    <2>1. Collected(Heap).freed = Garbage
      BY DEF Collected
    <2>2. Good(TextAfter(Collected(Heap)), Swept(Collected(Heap), chains), slots, roots)
      BY <2>1, SweepKeeps
    <2> QED BY <1>9, <2>2 DEF Collect
  <1>10. CASE Reset \/ Stop \/ Restart \/ UNCHANGED vars
    BY <1>10 DEF Reset, Stop, Restart, vars, intern
  <1> QED BY <1>1, <1>2, <1>3, <1>4, <1>5, <1>6, <1>7, <1>8, <1>9, <1>10 DEF Next

-----------------------------------------------------------------------------
(* How many strings there are *)

\* The count is raised with every string, except one that could not double the
\* table, and lowered with none.
CountInv ==
  /\ count \in Nat /\ refusals.growing \in Nat
  /\ count <= slots
  /\ Cardinality(Used) <= count + refusals.growing

\* No set of addresses is larger than what it was, or than that and one more.
LEMMA FewerTaken ==
  ASSUME NEW txt, Taken(txt) \subseteq Used
  PROVE  /\ Cardinality(Taken(txt)) \in Nat /\ Cardinality(Used) \in Nat
         /\ Cardinality(Taken(txt)) <= Cardinality(Used)
  <1>1. IsFiniteSet(Used)
    BY StringsAssumption, FS_Subset DEF Used
  <1> QED BY <1>1, FS_Subset, FS_CardinalityType

LEMMA OneMoreTaken ==
  ASSUME NEW txt, NEW o \in Object, Taken(txt) \subseteq Used \cup {o}
  PROVE  /\ Cardinality(Taken(txt)) \in Nat /\ Cardinality(Used) \in Nat
         /\ Cardinality(Taken(txt)) <= Cardinality(Used) + 1
  <1>1. IsFiniteSet(Used) /\ Cardinality(Used) \in Nat
    BY StringsAssumption, FS_Subset, FS_CardinalityType DEF Used
  <1>2. /\ IsFiniteSet(Used \cup {o})
        /\ Cardinality(Used \cup {o}) \in {Cardinality(Used), Cardinality(Used) + 1}
    BY <1>1, FS_AddElement
  <1>3. /\ Cardinality(Taken(txt)) <= Cardinality(Used \cup {o})
        /\ Cardinality(Taken(txt)) \in Nat
    BY <1>2, FS_Subset, FS_CardinalityType
  <1> QED BY <1>1, <1>2, <1>3

\* What is in memory after allocations that may have collected,
LEMMA SweptTaken ==
  ASSUME NEW h
  PROVE  Taken(TextAfter(h)) \subseteq Used
  BY DEF Taken, TextAfter, Used

\* and after a string was added.
LEMMA AddedTaken ==
  ASSUME NEW h, NEW o \in Object, NEW x
  PROVE  Taken([TextAfter(h) EXCEPT ![o] = x]) \subseteq Used \cup {o}
  BY DEF Taken, TextAfter, Used

LEMMA CountStep ==
  ASSUME IInv, CountInv, [Next]_vars
  PROVE  CountInv'
  <1> USE DEF CountInv
  <1>1. slots \in Nat \ {0} /\ text \in [Object -> Text \cup {Nil}]
    BY DEF IInv, Good, Placed
  <1>2. Used' = Taken(text')
    BY DEF Used, Taken
  <1>3. ASSUME Taken(text') \subseteq Used,
               count' = count, slots' = slots,
               refusals'.growing = refusals.growing
        PROVE  CountInv'
    <2>1. /\ Cardinality(Used') \in Nat /\ Cardinality(Used) \in Nat
          /\ Cardinality(Used') <= Cardinality(Used)
      BY <1>2, <1>3, FewerTaken
    <2> QED BY <2>1, <1>1, <1>3
  <1>4. ASSUME NEW o \in Object, Taken(text') \subseteq Used \cup {o},
               count' = count + 1, slots' \in {slots, 2 * slots},
               count + 1 <= slots', refusals' = refusals
        PROVE  CountInv'
    BY <1>1, <1>2, <1>4, OneMoreTaken
  <1>5. ASSUME NEW x \in Text, FindString(x) PROVE CountInv'
    BY <1>5, <1>3 DEF FindString, history, Taken, Used
  <1>6. ASSUME NEW x \in Text, NEW o \in Object, NewString(x, o)
        PROVE  CountInv'
    <2>1. Taken(text') \subseteq Used \cup {o}
      BY <1>6, AddedTaken DEF NewString
    <2>2. /\ count' = count + 1 /\ slots' = slots /\ refusals' = refusals
          /\ count + 1 <= slots
      BY <1>6, <1>1 DEF NewString, MustGrow, history
    <2> QED BY <2>1, <2>2, <1>4
  <1>7. ASSUME NEW x \in Text, NewStringRefused(x) PROVE CountInv'
    <2> DEFINE h == Allocate(Heap, STRING_SIZE)
    <2>1. /\ text' = TextAfter(h) /\ slots' = slots /\ count' = count
          /\ refusals'.growing = refusals.growing
      BY <1>7 DEF NewStringRefused, Refused
    <2> QED BY <2>1, <1>3, SweptTaken
  <1>8. ASSUME NEW x \in Text, NEW o \in Object, NewStringGrows(x, o)
        PROVE  CountInv'
    <2>1. Taken(text') \subseteq Used \cup {o}
      BY <1>8, AddedTaken DEF NewStringGrows
    <2>2. /\ count' = count + 1 /\ slots' = 2 * slots /\ refusals' = refusals
      BY <1>8 DEF NewStringGrows, history
    <2>3. count + 1 <= 2 * slots
      BY <1>1
    <2> QED BY <2>1, <2>2, <2>3, <1>4
  <1>9. ASSUME NEW x \in Text, NEW o \in Object, NewStringGrowRefused(x, o)
        PROVE  CountInv'
    <2>1. Taken(text') \subseteq Used \cup {o}
      BY <1>9, AddedTaken DEF NewStringGrowRefused
    <2>2. /\ count' = count /\ slots' = slots
          /\ refusals'.growing = refusals.growing + 1
      BY <1>9 DEF NewStringGrowRefused, Refused
    <2> QED BY <2>1, <2>2, <1>1, <1>2, OneMoreTaken
  <1>10. ASSUME NEW n \in 1..MIN_CAP, Write(n) PROVE CountInv'
    <2> DEFINE h == Allocate(Heap, NewCap(buffer.len + n) - buffer.cap)
    <2>1. /\ text' \in {text, TextAfter(h)} /\ slots' = slots /\ count' = count
          /\ refusals' = refusals
      BY <1>10 DEF Write, history
    <2> QED BY <2>1, <1>3, SweptTaken DEF Taken, Used
  <1>11. ASSUME NEW n \in 1..MIN_CAP, WriteRefused(n) PROVE CountInv'
    <2> DEFINE h == Allocate(Heap, NewCap(buffer.len + n) - buffer.cap)
    <2>1. /\ text' = TextAfter(h) /\ slots' = slots /\ count' = count
          /\ refusals'.growing = refusals.growing
      BY <1>11 DEF WriteRefused, Refused
    <2> QED BY <2>1, <1>3, SweptTaken
  <1>12. CASE Collect
    BY <1>12, <1>3, SweptTaken DEF Collect
  <1>13. CASE Reset \/ Stop \/ Restart \/ (\E o \in Object : Forget(o)) \/ UNCHANGED vars
    <2>1. /\ text' = text /\ slots' = slots /\ count' = count
          /\ refusals' = refusals
      BY <1>13 DEF Reset, Stop, Restart, Forget, vars, intern, history
    <2> QED BY <2>1, <1>3 DEF Taken, Used
  <1> QED BY <1>5, <1>6, <1>7, <1>8, <1>9, <1>10, <1>11, <1>12, <1>13 DEF Next

-----------------------------------------------------------------------------
(* The capacity of a dynamic array *)

\* A set of numbers has a least one: the interval that ends with it is in no other.
LEMMA Least ==
  ASSUME NEW S, S \subseteq Nat, S # {}
  PROVE  \E m \in S : \A x \in S : m <= x
  <1> DEFINE T == {1 .. x : x \in S}
  <1>1. T \subseteq FiniteSubsetsOf(Nat) /\ T # {}
    <2> SUFFICES ASSUME NEW x \in S PROVE 1 .. x \in FiniteSubsetsOf(Nat)
      OBVIOUS
    <2> QED BY FS_Interval DEF FiniteSubsetsOf
  <1>2. PICK e \in T : \A d \in T : <<d, e>> \notin StrictSubsetOrdering(Nat)
    BY <1>1, WFMin, FS_StrictSubsetOrderingWellFounded, Zenon
  <1>3. PICK x \in S : e = 1 .. x
    BY <1>2
  <1>4. ASSUME NEW y \in S, y < x PROVE FALSE
    <2>1. 1 .. y \subseteq 1 .. x /\ x \in 1 .. x /\ x \notin 1 .. y
      BY <1>4
    <2>2. <<1 .. y, e>> \in StrictSubsetOrdering(Nat)
      BY <2>1, <1>3, <1>1 DEF StrictSubsetOrdering
    <2> QED BY <2>2, <1>2
  <1>5. \A y \in S : x =< y
    BY <1>4
  <1> QED BY <1>5

\* One and a half times a number.
Half(next) == (next * 3) \div 2

\* What Grow of mem_next_fib is asked to be, from some number on.
Grows(n, f, from) ==
  \A next \in Nat : next >= from => f[next] = IF next < n THEN f[Half(next)] ELSE next

LEMMA HalfIs ==
  ASSUME NEW next \in Nat
  PROVE  /\ Half(next) \in Nat
         /\ next > 1 => Half(next) > next
         /\ next <= 1 => Half(next) = next
  BY DEF Half

\* There is such a function: its values are given from n downwards, each by one
\* given before, 0 and 1 aside, of which nothing is asked.
LEMMA GrowExists ==
  ASSUME NEW n \in Nat
  PROVE  \E f \in [Nat -> Nat] : Grows(n, f, 0)
  <1> DEFINE Given(k) == \E f \in [Nat -> Nat] : Grows(n, f, n - k)
             Bad == {k \in 0 .. n : ~Given(k)}
  <1>1. Bad = {}
    <2> SUFFICES ASSUME Bad # {} PROVE FALSE
      OBVIOUS
    <2>1. PICK k \in Bad : \A j \in Bad : k <= j
      <3>1. Bad \subseteq Nat
        OBVIOUS
      <3> QED BY <3>1, Least
    <2>2. Given(0)
      <3> DEFINE f == [next \in Nat |-> next]
      <3>1. f \in [Nat -> Nat]
        OBVIOUS
      <3>2. Grows(n, f, n - 0)
        BY DEF Grows
      <3> QED BY <3>1, <3>2
    <2>3. k \in 1 .. n /\ k - 1 \in 0 .. n
      BY <2>1, <2>2
    <2>4. Given(k - 1)
      BY <2>1, <2>3
    <2>5. PICK f \in [Nat -> Nat] : Grows(n, f, n - (k - 1))
      BY <2>4
    <2> DEFINE p == n - k
               h == [f EXCEPT ![p] = f[Half(p)]]
    <2>6. p \in Nat /\ p < n /\ Half(p) \in Nat
      BY <2>3, HalfIs
    <2> HIDE DEF p
    <2>7. h \in [Nat -> Nat] /\ h[p] = f[Half(p)] /\ \A x \in Nat : x # p => h[x] = f[x]
      BY <2>6
    <2> HIDE DEF h
    <2>8. ASSUME NEW next \in Nat, next >= p
          PROVE  h[next] = IF next < n THEN h[Half(next)] ELSE next
      <3>0. /\ Half(next) \in Nat /\ (next > 1 => Half(next) > next)
            /\ next <= 1 => Half(next) = next
        BY HalfIs
      <3>1. CASE next = p
        <4>1. CASE p > 1
          BY <3>0, <3>1, <4>1, <2>6, <2>7
        <4>2. CASE p <= 1
          BY <3>0, <3>1, <4>2, <2>6, <2>7
        <4> QED BY <4>1, <4>2, <2>6
      <3>2. CASE next # p
        <4>1. next > p /\ Half(next) # p
          BY <3>0, <3>2, <2>6, <2>8
        <4>2. f[next] = IF next < n THEN f[Half(next)] ELSE next
          <5>1. next >= n - (k - 1)
            BY <4>1, <2>3, <2>6 DEF p
          <5> QED BY <5>1, <2>5 DEF Grows
        <4> QED BY <4>1, <4>2, <2>7, <3>0, <3>2
      <3> QED BY <3>1, <3>2
    <2>9. Grows(n, h, n - k)
      BY <2>8 DEF Grows, p
    <2> QED BY <2>9, <2>7, <2>1
  <1>2. Given(n)
    BY <1>1
  <1>3. n - n = 0
    OBVIOUS
  <1> QED BY <1>2, <1>3

\* mem_next_fib is at least what is asked for.
LEMMA NextFib ==
  ASSUME NEW n \in Nat
  PROVE  mem_next_fib[n] \in Nat /\ mem_next_fib[n] >= n
  <1> DEFINE Grow(f) == f = [next \in Nat |-> IF next < n THEN f[Half(next)] ELSE next]
  <1>1. mem_next_fib[n] = (CHOOSE f : Grow(f))[2]
    BY DEF mem_next_fib, Half
  <1>2. \E f : Grow(f)
    <2>1. PICK f \in [Nat -> Nat] : Grows(n, f, 0)
      BY GrowExists
    <2>2. f = [next \in Nat |-> IF next < n THEN f[Half(next)] ELSE next]
      BY <2>1 DEF Grows
    <2> QED BY <2>2
  <1>3. PICK f : Grow(f) /\ mem_next_fib[n] = f[2]
    BY <1>1, <1>2
  <1>4. \A next \in Nat : f[next] = IF next < n THEN f[Half(next)] ELSE next
    BY <1>3
  <1> HIDE DEF Grow
  <1> DEFINE Low == {k \in 0 .. n : n - k > 1 /\ ~(f[n - k] \in Nat /\ f[n - k] >= n)}
  <1>5. Low = {}
    <2> SUFFICES ASSUME Low # {} PROVE FALSE
      OBVIOUS
    <2>1. PICK k \in Low : \A j \in Low : k <= j
      <3>1. Low \subseteq Nat
        OBVIOUS
      <3> QED BY <3>1, Least
    <2> DEFINE p == n - k
    <2>2. p \in Nat /\ p > 1 /\ p <= n /\ n - p = k
      BY <2>1
    <2>3. ~(f[p] \in Nat /\ f[p] >= n)
      BY <2>1
    <2> HIDE DEF p
    <2>4. Half(p) \in Nat /\ Half(p) > p
      BY <2>2, HalfIs
    <2>5. p < n /\ f[p] = f[Half(p)]
      BY <2>2, <2>3, <1>4
    <2>6. Half(p) < n
      <3> SUFFICES ASSUME Half(p) >= n PROVE FALSE
        BY <2>4
      <3>1. f[Half(p)] = Half(p)
        BY <1>4, <2>4
      <3> QED BY <3>1, <2>3, <2>4, <2>5
    <2> DEFINE j == n - Half(p)
    <2>7. j \in 0 .. n /\ n - j = Half(p) /\ j < k
      BY <2>2, <2>4, <2>6
    <2>8. j \in Low
      BY <2>3, <2>4, <2>5, <2>7, <2>2
    <2> QED BY <2>1, <2>7, <2>8
  <1>6. CASE n <= 2
    BY <1>3, <1>4, <1>6
  <1>7. CASE n > 2
    <2>1. n - 2 \in 0 .. n /\ n - (n - 2) = 2
      BY <1>7
    <2>2. n - 2 \notin Low
      BY <1>5
    <2> QED BY <2>1, <2>2, <1>3
  <1> QED BY <1>6, <1>7

-----------------------------------------------------------------------------
(* Counting bytes *)

\* Twice a number is even, wrapped too: a collection does not pause collections.
LEMMA TwiceIsEven ==
  ASSUME NEW a \in Nat
  PROVE  Wrap(2 * a) \in Nat /\ Wrap(2 * a) % 2 = 0
  <1>1. PICK k \in Nat : USIZE_MAX + 3 = 2 * k /\ k > 0
    <2>1. PICK d \in Nat : USIZE_MAX = 2 * d + 1
      <3>1. USIZE_MAX = 2 * (USIZE_MAX \div 2) + (USIZE_MAX % 2) /\ USIZE_MAX \div 2 \in Nat
        BY StringsAssumption
      <3> QED BY <3>1, StringsAssumption
    <2>2. USIZE_MAX + 3 = 2 * (d + 2) /\ d + 2 \in Nat /\ d + 2 > 0
      BY <2>1
    <2> QED BY <2>2
  <1>2. PICK m \in Nat \ {0}, t \in Nat : m = 2 * k /\ t = 2 * a
    BY <1>1
  <1>3. t % m \in 0 .. m - 1 /\ t = m * (t \div m) + (t % m) /\ t \div m \in Int
    OBVIOUS
  <1>4. PICK w \in Nat, q \in Int : w = t % m /\ q = t \div m /\ t = m * q + w
    BY <1>3
  <1>5. PICK j \in Int : j = k * q
    OBVIOUS
  <1>6. m * q = 2 * j
    BY <1>2, <1>5
  <1>7. w = 2 * (a - j)
    BY <1>2, <1>4, <1>6
  <1>8. Wrap(2 * a) = w
    BY <1>1, <1>2, <1>4 DEF Wrap
  <1> QED BY <1>7, <1>8

HeapType == [bytes : Nat, threshold : Nat, freed : {{}, Garbage}]

\* What the strings that a collection leaves take.
Left(h) == STRING_SIZE * Cardinality(Used \ h.freed)

\* A heap counts its strings and n bytes more.
Counts(h, n) == h.bytes = Left(h) + n

LEMMA UsedIsFinite ==
  ASSUME NEW S, S \subseteq Object
  PROVE  IsFiniteSet(S) /\ Cardinality(S) \in Nat
  BY StringsAssumption, FS_Subset, FS_CardinalityType

LEMMA LeftIs ==
  ASSUME NEW h
  PROVE  Cardinality(Used \ h.freed) \in Nat /\ Left(h) \in Nat
  <1>1. Cardinality(Used \ h.freed) \in Nat
    BY UsedIsFinite DEF Used
  <1> QED BY <1>1, StringsAssumption DEF Left

\* A collection takes off what it frees.
LEMMA CollectedCounts ==
  ASSUME NEW h, h.freed \in {{}, Garbage}, NEW n \in Int, Counts(h, n)
  PROVE  Counts(Collected(h), n)
  <1> DEFINE before == Used \ h.freed
             freed == Garbage \ h.freed
             after == Used \ Garbage
  <1>1. /\ freed \subseteq before /\ before \ freed = after
        /\ before \subseteq Object /\ freed \subseteq Object /\ after \subseteq Object
    BY DEF Garbage, Used
  <1>2. /\ Cardinality(before) \in Nat /\ Cardinality(freed) \in Nat
        /\ Cardinality(after) = Cardinality(before) - Cardinality(freed)
    <2>1. IsFiniteSet(before) /\ Cardinality(before) \in Nat /\ Cardinality(freed) \in Nat
      BY <1>1, UsedIsFinite
    <2>2. before \cap freed = freed
      BY <1>1
    <2>3. Cardinality(before \ freed) = Cardinality(before) - Cardinality(before \cap freed)
      BY <2>1, FS_Difference
    <2> QED BY <2>1, <2>2, <2>3, <1>1
  <1>3. PICK b \in Nat, f \in Nat, s \in Nat :
          b = Cardinality(before) /\ f = Cardinality(freed) /\ s = STRING_SIZE
    BY <1>2, StringsAssumption
  <1>4. s * (b - f) = s * b - s * f
    OBVIOUS
  <1>5. Collected(h).bytes = (s * b + n) - s * f /\ Collected(h).freed = Garbage
    BY <1>3 DEF Collected, Counts, Left
  <1>6. Left(Collected(h)) = s * (b - f)
    BY <1>2, <1>3, <1>5 DEF Left
  <1> QED BY <1>4, <1>5, <1>6 DEF Counts

\* A threshold is the one before, or was set by a collection, of which there is
\* none while they are paused.
Kept(h) ==
  \/ h.threshold = threshold
  \/ h.threshold % 2 = 0 /\ threshold # USIZE_MAX

\* What holds of the heap after a part of an operation.
Accounts(h, n) == h \in HeapType /\ Counts(h, n) /\ Kept(h)

LEMMA CollectedIs ==
  ASSUME NEW h \in HeapType, NEW n \in Nat, Counts(h, n)
  PROVE  /\ Collected(h) \in HeapType /\ Collected(h).threshold % 2 = 0
         /\ Counts(Collected(h), n)
  <1>1. Counts(Collected(h), n)
    BY CollectedCounts DEF HeapType
  <1>2. PICK y \in Nat : y = Collected(h).bytes
    <2>1. Left(Collected(h)) \in Nat
      BY LeftIs
    <2> QED BY <1>1, <2>1 DEF Counts
  <1>3. Wrap(2 * y) \in Nat /\ Wrap(2 * y) % 2 = 0
    BY TwiceIsEven
  <1>4. Collected(h) = [bytes |-> y, threshold |-> Wrap(2 * y), freed |-> Garbage]
    BY <1>2 DEF Collected
  <1> QED BY <1>1, <1>3, <1>4 DEF HeapType

\* An allocation is counted, whether it collects or not,
LEMMA AllocateCounts ==
  ASSUME threshold \in Nat, NEW h, NEW n \in Nat, Accounts(h, n),
         NEW size \in Nat, Requestable(h, size)
  PROVE  Accounts(Allocate(h, size), n + size)
  <1> DEFINE c == [h EXCEPT !.bytes = h.bytes + size]
  <1>0. h \in HeapType /\ Counts(h, n) /\ Kept(h)
    BY DEF Accounts
  <1>1. c.freed = h.freed /\ c.bytes = h.bytes + size /\ c.threshold = h.threshold
    BY <1>0 DEF HeapType
  <1>2. Counts(c, n + size)
    <2>1. PICK l \in Nat : l = Left(h)
      BY LeftIs
    <2>2. Left(c) = l
      BY <2>1, <1>1 DEF Left
    <2> QED BY <2>1, <2>2, <1>0, <1>1 DEF Counts
  <1>3. c \in HeapType /\ c.bytes \in Nat /\ c.bytes <= USIZE_MAX
    BY <1>0, <1>1 DEF HeapType, Requestable
  <1>4. Allocate(h, size) = IF c.bytes > h.threshold THEN Collected(c) ELSE c
    BY <1>1 DEF Allocate
  <1> HIDE DEF c
  <1>5. /\ Collected(c) \in HeapType /\ Collected(c).threshold % 2 = 0
        /\ Counts(Collected(c), n + size)
    BY <1>2, <1>3, CollectedIs
  <1>6. CASE c.bytes > h.threshold
    <2>1. threshold # USIZE_MAX
      BY <1>0, <1>3, <1>6, StringsAssumption DEF Kept
    <2> QED BY <2>1, <1>4, <1>5, <1>6 DEF Accounts, Kept
  <1>7. CASE ~(c.bytes > h.threshold)
    BY <1>0, <1>1, <1>2, <1>3, <1>4, <1>7 DEF Accounts, Kept
  <1> QED BY <1>6, <1>7

\* and so is a release.
LEMMA ReleaseCounts ==
  ASSUME NEW h, NEW n \in Nat, Accounts(h, n), NEW size \in Nat, size <= n
  PROVE  Accounts(Release(h, size), n - size) /\ Release(h, size).freed = h.freed
  <1>0. h \in HeapType /\ Counts(h, n) /\ Kept(h)
    BY DEF Accounts
  <1>1. PICK l \in Nat : l = Left(h)
    BY LeftIs
  <1>2. /\ Release(h, size).bytes = h.bytes - size /\ Release(h, size).freed = h.freed
        /\ Release(h, size).threshold = h.threshold
    BY <1>0 DEF Release, HeapType
  <1>3. Left(Release(h, size)) = l
    BY <1>1, <1>2 DEF Left
  <1>4. Counts(Release(h, size), n - size)
    BY <1>0, <1>1, <1>2, <1>3 DEF Counts
  <1>5. Release(h, size) \in HeapType
    <2>1. h.bytes - size \in Nat
      BY <1>0, <1>1 DEF Counts
    <2> QED BY <2>1, <1>0 DEF HeapType, Release
  <1> QED BY <1>0, <1>2, <1>4, <1>5 DEF Accounts, Kept

-----------------------------------------------------------------------------
(* The count of bytes and the pauses *)

\* What is allocated apart from strings, or counted for nothing.
Others == slots + buffer.cap + lost

MemoryType ==
  /\ bytes \in Nat /\ threshold \in Nat /\ previous \in Nat
  /\ buffer \in [len : Nat, cap : Nat] /\ lost \in Nat
  /\ paused \in BOOLEAN /\ repeated \in BOOLEAN

\* A program that pauses only what runs, and collects only then, has a threshold
\* of its own put aside; its own are even.
PauseInv ==
  ~repeated => /\ previous % 2 = 0
               /\ paused => threshold = USIZE_MAX
               /\ ~paused => threshold % 2 = 0

MemoryInv == MemoryType /\ BytesExact /\ PauseInv

\* The heap at the start of an operation.
LEMMA HeapAccounts ==
  ASSUME IInv, MemoryInv
  PROVE  /\ Accounts(Heap, Others) /\ threshold \in Nat
         /\ Others \in Nat /\ slots \in Nat /\ buffer.cap \in Nat /\ lost \in Nat /\ STRING_SIZE \in Nat
  <1>1. /\ slots \in Nat /\ buffer.cap \in Nat /\ lost \in Nat /\ STRING_SIZE \in Nat
        /\ bytes \in Nat /\ threshold \in Nat
    BY StringsAssumption DEF IInv, Good, Placed, MemoryInv, MemoryType
  <1>2. Heap \in HeapType /\ Heap.freed = {} /\ Heap.bytes = bytes /\ Heap.threshold = threshold
    BY <1>1 DEF Heap, HeapType
  <1>3. Used \ Heap.freed = Used /\ Cardinality(Used) \in Nat
    BY <1>2, UsedIsFinite DEF Used
  <1>4. PICK l \in Nat : l = STRING_SIZE * Cardinality(Used)
    BY <1>1, <1>3
  <1>5. l + slots + buffer.cap + lost = l + Others
    BY <1>1, <1>4 DEF Others
  <1>6. Counts(Heap, Others)
    BY <1>2, <1>3, <1>4, <1>5 DEF Counts, Left, MemoryInv, BytesExact
  <1> QED BY <1>1, <1>2, <1>6 DEF Accounts, Kept, Others

\* The strings after an operation that made none, and after one that made o.
LEMMA StringsAfter ==
  ASSUME NEW h, h.freed \in {{}, Garbage}, text' = TextAfter(h)
  PROVE  STRING_SIZE * Cardinality(Used') = Left(h)
  <1>1. Used' = Used \ h.freed
    BY DEF Used, TextAfter
  <1> QED BY <1>1 DEF Left

WithNew(h, o, x) == [TextAfter(h) EXCEPT ![o] = x]

LEMMA StringsAfterNew ==
  ASSUME NEW h, h.freed \in {{}, Garbage}, NEW o \in Object, text[o] = Nil, NEW x \in Text,
         text' = WithNew(h, o, x)
  PROVE  STRING_SIZE * Cardinality(Used') = Left(h) + STRING_SIZE
  <1>1. Used' = (Used \ h.freed) \cup {o} /\ o \notin Used \ h.freed
    BY StringsAssumption DEF Used, TextAfter, WithNew
  <1>2. IsFiniteSet(Used \ h.freed) /\ Cardinality(Used \ h.freed) \in Nat
    BY UsedIsFinite DEF Used
  <1>3. Cardinality(Used') = Cardinality(Used \ h.freed) + 1
    BY <1>1, <1>2, FS_AddElement
  <1>4. PICK s \in Nat, n \in Nat : s = STRING_SIZE /\ n = Cardinality(Used \ h.freed)
    BY <1>2, StringsAssumption
  <1>5. s * (n + 1) = s * n + s
    OBVIOUS
  <1> QED BY <1>3, <1>4, <1>5 DEF Left

\* What is to be shown of an operation that leaves heap h.
LEMMA SettledCounts ==
  ASSUME IInv, MemoryInv, NEW h \in HeapType, NEW n \in Int, Counts(h, n), Becomes(h),
         UNCHANGED previous, paused' \in BOOLEAN, repeated' \in BOOLEAN,
         buffer' \in [len : Nat, cap : Nat], buffer'.len <= buffer'.cap, lost' \in Nat, slots' \in Nat,
         STRING_SIZE * Cardinality(Used') + Others' = Left(h) + n
  PROVE  MemoryType' /\ BytesExact'
  <1>1. bytes' = h.bytes /\ threshold' = h.threshold
    BY DEF Becomes
  <1>2. MemoryType'
    BY <1>1 DEF MemoryType, MemoryInv, HeapType
  <1>3. BytesExact'
    <2>1. PICK u \in Nat : u = STRING_SIZE * Cardinality(Used')
      <3>1. Cardinality(Used') \in Nat
        <4>1. Used' \subseteq Object
          BY DEF Used
        <4> QED BY <4>1, UsedIsFinite
      <3> QED BY <3>1, StringsAssumption
    <2>2. u + slots' + buffer'.cap + lost' = u + Others'
      BY <2>1 DEF Others
    <2>3. bytes' = u + Others'
      BY <1>1, <2>1 DEF Counts
    <2> QED BY <2>1, <2>2, <2>3 DEF BytesExact
  <1> QED BY <1>2, <1>3

LEMMA SettledKeeps ==
  ASSUME IInv, MemoryInv, NEW h, NEW n \in Int, Accounts(h, n), Becomes(h),
         UNCHANGED <<previous, paused, repeated>>,
         buffer' \in [len : Nat, cap : Nat], buffer'.len <= buffer'.cap, lost' \in Nat, slots' \in Nat,
         STRING_SIZE * Cardinality(Used') + Others' = Left(h) + n
  PROVE  MemoryInv'
  <1>1. MemoryType' /\ BytesExact'
    BY SettledCounts DEF Accounts, MemoryInv, MemoryType
  <1>2. PauseInv'
    <2>1. CASE threshold' = threshold
      BY <2>1 DEF PauseInv, MemoryInv
    <2>2. CASE threshold' % 2 = 0 /\ threshold # USIZE_MAX
      BY <2>2 DEF PauseInv, MemoryInv
    <2> QED BY <2>1, <2>2 DEF Accounts, Kept, Becomes
  <1> QED BY <1>1, <1>2 DEF MemoryInv

\* An operation that allocates nothing.
LEMMA IdleKeeps ==
  ASSUME MemoryInv, UNCHANGED <<text, slots, bytes, threshold, previous, buffer, lost, paused, repeated>>
  PROVE  MemoryInv'
  BY DEF MemoryInv, MemoryType, BytesExact, PauseInv, Used

\* One whose allocation was refused.
LEMMA RefusedKeeps ==
  ASSUME IInv, MemoryInv, NEW h, NEW n \in Nat, NEW d \in Nat, NEW growing, Accounts(h, n), Refused(h, d, growing),
         UNCHANGED <<previous, paused, repeated, buffer, slots>>,
         STRING_SIZE * Cardinality(Used') + Others + d = Left(h) + n
  PROVE  MemoryInv'
  <1>1. Becomes(h) /\ lost' = lost + d
    BY DEF Refused
  <1>2. /\ buffer \in [len : Nat, cap : Nat] /\ buffer.len <= buffer.cap /\ lost \in Nat /\ slots \in Nat
        /\ Others \in Nat
    BY HeapAccounts DEF MemoryInv, MemoryType, BytesExact
  <1>3. PICK u \in Nat : u = STRING_SIZE * Cardinality(Used')
    <2>1. Used' \subseteq Object
      BY DEF Used
    <2> QED BY <2>1, UsedIsFinite, StringsAssumption
  <1>4. Others' = Others + d
    BY <1>1, <1>2 DEF Others
  <1>5. u + Others' = u + Others + d
    BY <1>2, <1>3, <1>4
  <1> QED BY <1>1, <1>2, <1>3, <1>5, SettledKeeps

LEMMA MemoryStep ==
  ASSUME IInv, MemoryInv, [Next]_vars
  PROVE  MemoryInv'
  <1>1. /\ Accounts(Heap, Others) /\ threshold \in Nat
        /\ Others \in Nat /\ slots \in Nat /\ buffer.cap \in Nat /\ lost \in Nat /\ STRING_SIZE \in Nat
        /\ buffer \in [len : Nat, cap : Nat] /\ buffer.len <= buffer.cap
    BY HeapAccounts DEF MemoryInv, MemoryType, BytesExact
  <1> DEFINE S == STRING_SIZE
  <1>2. ASSUME NEW h, NEW n \in Int, Accounts(h, n) PROVE Left(h) \in Nat /\ h.freed \in {{}, Garbage}
    BY <1>2, LeftIs DEF Accounts, HeapType
  <1>3. ASSUME Requestable(Heap, S) PROVE Accounts(Allocate(Heap, S), Others + S)
    BY <1>1, <1>3, AllocateCounts
  <1>4. ASSUME Requestable(Heap, S), Requestable(Allocate(Heap, S), 2 * slots)
        PROVE  Accounts(Allocate(Allocate(Heap, S), 2 * slots), (Others + S) + 2 * slots)
    <2>1. Others + S \in Nat /\ 2 * slots \in Nat
      BY <1>1
    <2> QED BY <2>1, <1>1, <1>3, <1>4, AllocateCounts
  <1>5. ASSUME NEW x \in Text, NEW o \in Object, NewString(x, o) PROVE MemoryInv'
    <2> DEFINE h == Allocate(Heap, S)
    <2>1. /\ Requestable(Heap, S) /\ Becomes(h) /\ text[o] = Nil
          /\ text' = WithNew(h, o, x)
          /\ UNCHANGED <<slots, previous, buffer, lost, paused, repeated>>
      BY <1>5 DEF NewString, history, WithNew
    <2> HIDE DEF h
    <2>2. Left(h) \in Nat /\ h.freed \in {{}, Garbage} /\ Accounts(h, Others + S)
      BY <2>1, <1>1, <1>2, <1>3 DEF h
    <2>3. S * Cardinality(Used') = Left(h) + S
      BY <2>1, <2>2, StringsAfterNew
    <2>4. S * Cardinality(Used') + Others' = Left(h) + (Others + S)
      BY <2>1, <2>2, <2>3, <1>1 DEF Others
    <2> QED BY <2>1, <2>2, <2>4, <1>1, SettledKeeps
  <1>6. ASSUME NEW x \in Text, NewStringRefused(x) PROVE MemoryInv'
    <2> DEFINE h == Allocate(Heap, S)
    <2>1. /\ Requestable(Heap, S) /\ Refused(h, S, FALSE) /\ text' = TextAfter(h)
          /\ UNCHANGED <<slots, previous, buffer, paused, repeated>>
      BY <1>6 DEF NewStringRefused
    <2> HIDE DEF h
    <2>2. Left(h) \in Nat /\ h.freed \in {{}, Garbage} /\ Accounts(h, Others + S)
      BY <2>1, <1>1, <1>2, <1>3 DEF h
    <2>3. S * Cardinality(Used') = Left(h)
      BY <2>1, <2>2, StringsAfter
    <2>4. S * Cardinality(Used') + Others + S = Left(h) + (Others + S)
      BY <2>2, <2>3, <1>1
    <2>5. Others + S \in Nat
      BY <1>1
    <2> QED BY <2>1, <2>2, <2>4, <2>5, <1>1, RefusedKeeps
  <1>7. ASSUME NEW x \in Text, NEW o \in Object, NewStringGrows(x, o) PROVE MemoryInv'
    <2> DEFINE h == Allocate(Allocate(Heap, S), 2 * slots)
               r == Release(h, slots)
    <2>1. /\ Requestable(Heap, S) /\ Requestable(Allocate(Heap, S), 2 * slots)
          /\ Becomes(r) /\ text[o] = Nil /\ text' = WithNew(h, o, x)
          /\ slots' = 2 * slots
          /\ UNCHANGED <<previous, buffer, lost, paused, repeated>>
      BY <1>7 DEF NewStringGrows, history, WithNew
    <2> HIDE DEF h
    <2>2. Left(h) \in Nat /\ h.freed \in {{}, Garbage} /\ Accounts(h, (Others + S) + 2 * slots)
      BY <2>1, <1>1, <1>2, <1>4 DEF h
    <2>3. S * Cardinality(Used') = Left(h) + S
      BY <2>1, <2>2, StringsAfterNew
    <2>4. Accounts(r, ((Others + S) + 2 * slots) - slots) /\ r.freed = h.freed
      <3>1. (Others + S) + 2 * slots \in Nat /\ slots \in Nat /\ slots <= (Others + S) + 2 * slots
        BY <1>1
      <3> QED BY <3>1, <2>2, ReleaseCounts
    <2> HIDE DEF r
    <2>5. Left(r) = Left(h)
      BY <2>4 DEF Left
    <2>6. Others' = Others + slots
      BY <2>1, <1>1 DEF Others
    <2>7. S * Cardinality(Used') + Others' = Left(r) + (((Others + S) + 2 * slots) - slots)
      BY <2>2, <2>3, <2>5, <2>6, <1>1
    <2>8. ((Others + S) + 2 * slots) - slots \in Int /\ slots' \in Nat
      BY <2>1, <1>1
    <2> QED BY <2>1, <2>4, <2>7, <2>8, <1>1, SettledKeeps
  <1>8. ASSUME NEW x \in Text, NEW o \in Object, NewStringGrowRefused(x, o) PROVE MemoryInv'
    <2> DEFINE h == Allocate(Allocate(Heap, S), 2 * slots)
    <2>1. /\ Requestable(Heap, S) /\ Requestable(Allocate(Heap, S), 2 * slots)
          /\ Refused(h, 2 * slots, TRUE) /\ text[o] = Nil /\ text' = WithNew(h, o, x)
          /\ UNCHANGED <<slots, previous, buffer, paused, repeated>>
      BY <1>8 DEF NewStringGrowRefused, WithNew
    <2> HIDE DEF h
    <2>2. Left(h) \in Nat /\ h.freed \in {{}, Garbage} /\ Accounts(h, (Others + S) + 2 * slots)
      BY <2>1, <1>1, <1>2, <1>4 DEF h
    <2>3. S * Cardinality(Used') = Left(h) + S
      BY <2>1, <2>2, StringsAfterNew
    <2>4. S * Cardinality(Used') + Others + 2 * slots = Left(h) + ((Others + S) + 2 * slots)
      BY <2>2, <2>3, <1>1
    <2>5. (Others + S) + 2 * slots \in Nat /\ 2 * slots \in Nat
      BY <1>1
    <2> QED BY <2>1, <2>2, <2>4, <2>5, <1>1, RefusedKeeps
  <1>9. ASSUME NEW n \in 1..MIN_CAP
        PROVE  LET len == buffer.len + n
               IN  len \in Nat /\ NewCap(len) \in Nat /\ NewCap(len) >= len
    <2>1. buffer.len + n \in Nat /\ MIN_CAP \in Nat
      BY <1>1, StringsAssumption
    <2>2. PICK m \in Nat : m = (IF buffer.len + n > MIN_CAP THEN buffer.len + n ELSE MIN_CAP)
                           /\ m >= buffer.len + n
      BY <2>1
    <2>3. mem_next_fib[m] \in Nat /\ mem_next_fib[m] >= m
      BY NextFib
    <2> QED BY <2>1, <2>2, <2>3 DEF NewCap
  <1>10. ASSUME NEW n \in 1..MIN_CAP, Write(n) PROVE MemoryInv'
    <2> DEFINE len == buffer.len + n
               h == Allocate(Heap, NewCap(len) - buffer.cap)
    <2>1. PICK c : c = NewCap(len)
      OBVIOUS
    <2>2. len \in Nat /\ c \in Nat /\ c >= len
      BY <2>1, <1>9
    <2>3. UNCHANGED <<slots, previous, lost, paused, repeated>>
      BY <1>10 DEF Write, history, memory
    <2>4. CASE Fits(len)
      <3>1. /\ buffer' = [buffer EXCEPT !.len = len] /\ text' = text /\ len <= buffer.cap
            /\ UNCHANGED <<bytes, threshold>>
        BY <1>10, <2>4 DEF Write, Fits, memory
      <3>2. Becomes(Heap) /\ Heap.freed = {} /\ Left(Heap) \in Nat
        BY <3>1, <1>1, <1>2 DEF Becomes, Heap
      <3>3. buffer' \in [len : Nat, cap : Nat] /\ buffer'.len <= buffer'.cap /\ buffer'.cap = buffer.cap
        BY <3>1, <1>1, <2>2
      <3>4. STRING_SIZE * Cardinality(Used') = Left(Heap)
        <4>1. Used' = Used \ Heap.freed
          BY <3>1, <3>2 DEF Used
        <4> QED BY <4>1 DEF Left
      <3>5. STRING_SIZE * Cardinality(Used') + Others' = Left(Heap) + Others
        BY <2>3, <3>3, <3>4 DEF Others
      <3> QED BY <2>3, <3>2, <3>3, <3>5, <1>1, SettledKeeps
    <2>5. CASE ~Fits(len)
      <3>1. /\ buffer' = [len |-> len, cap |-> c] /\ text' = TextAfter(h) /\ Becomes(h)
        BY <1>10, <2>1, <2>5 DEF Write
      <3>a. c - buffer.cap \in Nat /\ Requestable(Heap, c - buffer.cap)
        <4>1. ~(len <= buffer.cap) /\ Requestable(Heap, c - buffer.cap)
          BY <1>10, <2>1, <2>5 DEF Write, Fits
        <4> QED BY <4>1, <2>2, <1>1
      <3>2. Accounts(h, Others + (c - buffer.cap))
        BY <3>a, <2>1, <1>1, AllocateCounts
      <3>3. Others + (c - buffer.cap) \in Int
        BY <2>2, <1>1
      <3> HIDE DEF h
      <3>4. Left(h) \in Nat /\ h.freed \in {{}, Garbage}
        BY <3>2, <3>3, <1>2
      <3>5. S * Cardinality(Used') = Left(h)
        BY <3>1, <3>4, StringsAfter
      <3>6. buffer' \in [len : Nat, cap : Nat] /\ buffer'.len <= buffer'.cap /\ buffer'.cap = c
        BY <3>1, <2>2
      <3>7. Others' = Others + (c - buffer.cap)
        BY <2>2, <2>3, <3>6, <1>1 DEF Others
      <3>8. S * Cardinality(Used') + Others' = Left(h) + (Others + (c - buffer.cap))
        BY <3>5, <3>7
      <3> QED BY <2>3, <3>1, <3>2, <3>3, <3>6, <3>8, <1>1, SettledKeeps
    <2> QED BY <2>4, <2>5
  <1>11. ASSUME NEW n \in 1..MIN_CAP, WriteRefused(n) PROVE MemoryInv'
    <2> DEFINE len == buffer.len + n
               h == Allocate(Heap, NewCap(len) - buffer.cap)
    <2>1. PICK d : d = NewCap(len) - buffer.cap
      OBVIOUS
    <2>2. d \in Nat
      <3>1. ~(len <= buffer.cap)
        BY <1>11 DEF WriteRefused, Fits
      <3> QED BY <3>1, <2>1, <1>1, <1>9
    <2>3. /\ Requestable(Heap, d) /\ Refused(h, d, FALSE) /\ text' = TextAfter(h)
          /\ UNCHANGED <<slots, previous, buffer, paused, repeated>>
      BY <1>11, <2>1 DEF WriteRefused
    <2>4. Accounts(h, Others + d)
      BY <2>1, <2>2, <2>3, <1>1, AllocateCounts
    <2> HIDE DEF h
    <2>5. Others + d \in Nat
      BY <2>2, <1>1
    <2>6. Left(h) \in Nat /\ h.freed \in {{}, Garbage}
      BY <2>4, <2>5, <1>2
    <2>7. S * Cardinality(Used') = Left(h)
      BY <2>3, <2>6, StringsAfter
    <2>8. S * Cardinality(Used') + Others + d = Left(h) + (Others + d)
      BY <2>2, <2>6, <2>7, <1>1
    <2> QED BY <2>2, <2>3, <2>4, <2>5, <2>8, <1>1, RefusedKeeps
  <1>12. CASE Reset
    <2>1. /\ buffer' = [buffer EXCEPT !.len = 0]
          /\ UNCHANGED <<text, slots, bytes, threshold, previous, lost, paused, repeated>>
      BY <1>12 DEF Reset, intern, memory, history
    <2>2. buffer' \in [len : Nat, cap : Nat] /\ buffer'.len <= buffer'.cap /\ buffer'.cap = buffer.cap
      BY <2>1, <1>1
    <2> QED BY <2>1, <2>2 DEF MemoryInv, MemoryType, BytesExact, PauseInv, Used
  <1>13. CASE Stop
    <2>1. /\ previous' = threshold /\ threshold' = USIZE_MAX /\ paused' = TRUE
          /\ repeated' = (repeated \/ paused)
          /\ UNCHANGED <<text, slots, bytes, buffer, lost>>
      BY <1>13 DEF Stop, intern
    <2>2. MemoryType' /\ BytesExact'
      BY <2>1, StringsAssumption DEF MemoryInv, MemoryType, BytesExact, Used
    <2>3. PauseInv'
      BY <2>1 DEF MemoryInv, PauseInv, MemoryType
    <2> QED BY <2>2, <2>3 DEF MemoryInv
  <1>14. CASE Restart
    <2>1. /\ threshold' = previous /\ paused' = FALSE
          /\ UNCHANGED <<text, slots, bytes, previous, buffer, lost, repeated>>
      BY <1>14 DEF Restart, intern
    <2>2. MemoryType' /\ BytesExact'
      BY <2>1 DEF MemoryInv, MemoryType, BytesExact, Used
    <2>3. PauseInv'
      BY <2>1 DEF MemoryInv, PauseInv, MemoryType
    <2> QED BY <2>2, <2>3 DEF MemoryInv
  <1>15. CASE Collect
    <2> DEFINE h == Collected(Heap)
    <2>1. /\ Becomes(h) /\ text' = TextAfter(h) /\ repeated' = (repeated \/ paused)
          /\ UNCHANGED <<slots, previous, buffer, lost, paused>>
      BY <1>15 DEF Collect
    <2>2. Counts(h, Others) /\ h \in HeapType /\ h.threshold % 2 = 0
      BY <1>1, CollectedIs DEF Accounts
    <2> HIDE DEF h
    <2>3. S * Cardinality(Used') = Left(h)
      BY <2>1, <2>2, StringsAfter DEF HeapType
    <2>4. MemoryType' /\ BytesExact'
      <3>1. S * Cardinality(Used') + Others' = Left(h) + Others
        BY <2>1, <2>3 DEF Others
      <3>2. paused' \in BOOLEAN /\ repeated' \in BOOLEAN
        BY <2>1 DEF MemoryInv, MemoryType
      <3> QED BY <2>1, <2>2, <3>1, <3>2, <1>1, SettledCounts
    <2>5. PauseInv'
      BY <2>1, <2>2 DEF MemoryInv, PauseInv, MemoryType, Becomes
    <2> QED BY <2>4, <2>5 DEF MemoryInv
  <1>16. CASE (\E x \in Text : FindString(x)) \/ (\E o \in Object : Forget(o)) \/ UNCHANGED vars
    <2>1. UNCHANGED <<text, slots, bytes, threshold, previous, buffer, lost, paused, repeated>>
      BY <1>16 DEF FindString, Forget, vars, intern, memory, history
    <2> QED BY <2>1, IdleKeeps
  <1> QED BY <1>5, <1>6, <1>7, <1>8, <1>10, <1>11, <1>12, <1>13, <1>14, <1>15, <1>16 DEF Next

-----------------------------------------------------------------------------
(* The theorems *)

\* The three facts that depend on each other hold always.
THEOREM InductiveInvariant == Spec => []IInv
  <1>1. Init => IInv
    BY InitialState
  <1>2. IInv /\ [Next]_vars => IInv'
    BY StepKeeps
  <1> QED BY <1>1, <1>2, PTL DEF Spec

\* Equal strings are one object, whatever collections, refused allocations and
\* doublings come between (string.cpp: ostring_new).
THEOREM StringsAreInterned == Spec => []Interned
  BY InductiveInvariant, Meanings, PTL

\* A string the program refers to is not freed, not even by a collection that
\* starts while it is made (mem.cpp: mem_rawrealloc).
THEOREM RootsAreLive == Spec => []RootsLive
  BY InductiveInvariant, Meanings, PTL

\* Every string in memory is in the chain of its hash and nowhere else, and the
\* chains hold no freed string (string.cpp: intern_resize, gc.cpp:
\* gc_remove_intern).
THEOREM ChainsAreRight == Spec => []InternOK
  BY InductiveInvariant, Meanings, PTL

\* Doublings that failed aside there are at least as many chains as strings, so
\* that chains stay short, although the count is never lowered (string.cpp:
\* ostring_new).
THEOREM ChainsStayShort == Spec => []LoadBound
  <1>1. Init => CountInv
    <2> SUFFICES ASSUME Init PROVE CountInv
      OBVIOUS
    <2>1. Used = {}
      BY DEF Init, Used
    <2> QED BY <2>1, FS_EmptySet, StringsAssumption DEF Init, CountInv
  <1>2. IInv /\ CountInv /\ [Next]_vars => CountInv'
    BY CountStep
  <1>3. IInv /\ CountInv => LoadBound
    <2>1. IInv => Cardinality(Used) \in Nat /\ slots \in Nat
      BY StringsAssumption, FS_Subset, FS_CardinalityType DEF Used, IInv, Good, Placed
    <2> QED BY <2>1 DEF CountInv, LoadBound
  <1> QED BY <1>1, <1>2, <1>3, InductiveInvariant, PTL DEF Spec

\* The count of bytes and the pauses hold together with the strings.
LEMMA MemoryInvariant == Spec => []MemoryInv
  <1>1. Init => MemoryInv
    <2> SUFFICES ASSUME Init PROVE MemoryInv
      OBVIOUS
    <2>1. Used = {} /\ Cardinality(Used) = 0
      <3>1. Used = {}
        BY DEF Init, Used
      <3> QED BY <3>1, FS_EmptySet
    <2>2. PICK n \in Nat : n = INIT_SLOTS
      BY StringsAssumption
    <2>3. MemoryType
      <3>1. /\ bytes = n /\ threshold = 2 * n /\ previous = 2 * n /\ lost = 0
            /\ buffer = [len |-> 0, cap |-> 0] /\ paused = FALSE /\ repeated = FALSE
        BY <2>2 DEF Init
      <3>2. 2 * n \in Nat
        OBVIOUS
      <3> QED BY <3>1, <3>2 DEF MemoryType
    <2>5. BytesExact
      <3>1. STRING_SIZE * Cardinality(Used) + slots + buffer.cap + lost = n
        BY <2>1, <2>2, StringsAssumption DEF Init
      <3> QED BY <3>1, <2>2 DEF Init, BytesExact
    <2>6. PauseInv
      <3>1. (2 * n) % 2 = 0
        OBVIOUS
      <3> QED BY <3>1, <2>2 DEF Init, PauseInv
    <2> QED BY <2>3, <2>5, <2>6 DEF MemoryInv
  <1>2. IInv /\ MemoryInv /\ [Next]_vars => MemoryInv'
    BY MemoryStep
  <1> QED BY <1>1, <1>2, InductiveInvariant, PTL DEF Spec

\* The count of allocated bytes is what strings, chains and buffer take and what
\* refused allocations left counted, and the buffer
\* has memory for what is in it (mem.cpp: mem_rawrealloc, dynamic.hpp:
\* dynamic_resize, mem.hpp: mem_next_fib).
THEOREM BytesAreExact == Spec => []BytesExact
  <1>1. MemoryInv => BytesExact
    BY DEF MemoryInv
  <1> QED BY <1>1, MemoryInvariant, PTL

\* Collections are paused exactly while the program wants it: no collection sets
\* the threshold that means a pause (api.cpp: lulu_gc, gc.cpp: gc_collect_garbage).
THEOREM PausesAreHonoured == Spec => []PauseHonoured
  <1>1. MemoryInv => PauseHonoured
    <2>1. USIZE_MAX % 2 # 0
      BY StringsAssumption
    <2> QED BY <2>1 DEF MemoryInv, PauseInv, PauseHonoured, MemoryType
  <1> QED BY <1>1, MemoryInvariant, PTL

=============================================================================

--------------------------- MODULE UpvaluesProofs ---------------------------
(***************************************************************************)
(* Theorems about Upvalues, for any stack, nesting, closures and program:  *)
(* what a call leaves open, one upvalue for one variable, and that stack   *)
(* and upvalues implement Cells.  Protected calls have no arguments here:  *)
(* with arguments the code leaves upvalues on them open after an error.    *)
(***************************************************************************)
EXTENDS Upvalues, FiniteSetTheorems, SequenceTheorems, WellFoundedInduction, TLAPS

Mark == [kind : Kind, level : Nat \ {0}, has_upvalue : BOOLEAN, keep : Nat \cup {Nil}]

TypeInv ==
  /\ stack \in [Slot -> Value \cup {Blank}]
  /\ marks \in Seq(Mark)
  /\ open_upvalues \in Seq(Upvalue)
  /\ at \in [Upvalue -> Slot \cup {Nil}]
  /\ closed \in [Upvalue -> Value \cup {Blank}]
  /\ ref \in [Capture -> Upvalue \cup {Nil}]
  /\ scope \in Seq(Var) /\ top <= NSlots
  /\ bound \in [Capture -> Var \cup {Nil}]
  /\ maker \in [Upvalue -> Nat \cup {Nil}]
  /\ ordered \in BOOLEAN

\* Marks are nested: each begins where the one before has its variables or above,
\* a call one slot further, and blocks are those of Lua functions.
MarksInv ==
  /\ Len(marks) > 0 /\ marks[1].kind = "C"
  /\ \A i \in DOMAIN marks :
       /\ marks[i].level <= top + 1
       /\ marks[i].kind = "Lua" => marks[i].keep \in {Nil, marks[i].level - 1}
  /\ \A i, j \in DOMAIN marks : i < j =>
       /\ marks[i].level <= marks[j].level
       /\ marks[j].kind # "block" => marks[i].level < marks[j].level
       /\ marks[i].kind = "C" /\ j = i + 1 => marks[j].kind # "block"

\* The list holds the open upvalues, each once, those of inner calls first.
ListInv ==
  /\ \A u \in Upvalue : at[u] # Nil <=> \E i \in DOMAIN open_upvalues : open_upvalues[i] = u
  /\ \A i, j \in DOMAIN open_upvalues : i < j =>
       /\ open_upvalues[i] # open_upvalues[j]
       /\ maker[open_upvalues[i]] >= maker[open_upvalues[j]]

FrameInv == MarksInv /\ ListInv /\ FramesClosed

\* Variables have names of their own; a variable that is no more has been given
\* up by the stack and all its captures have the one upvalue it became.
NamesInv ==
  /\ \A s, t \in DOMAIN scope : scope[s] = scope[t] => s = t
  /\ \A h \in Capture :
       /\ ref[h] = Nil <=> bound[h] = Nil
       /\ ref[h] # Nil /\ at[ref[h]] # Nil => scope[at[ref[h]]] = bound[h]
       /\ ref[h] # Nil /\ at[ref[h]] = Nil => \A s \in DOMAIN scope : scope[s] # bound[h]
  /\ \A h, i \in Capture : ref[h] # Nil /\ ref[i] # Nil =>
       (ref[h] = ref[i] <=> bound[h] = bound[i])

\* An open upvalue is on a variable in scope, and the innermost block with that
\* variable ends in OP_CLOSE; later calls begin above it and their function.
ScopeInv ==
  \A u \in Upvalue : at[u] # Nil =>
    /\ at[u] <= top
    /\ \A i \in DOMAIN marks :
         /\ i > maker[u] /\ marks[i].kind # "block" => at[u] + 2 <= marks[i].level
         /\ /\ marks[i].kind = "block" /\ marks[i].level <= at[u]
            /\ \A j \in DOMAIN marks : i < j => at[u] < marks[j].level
            => marks[i].has_upvalue

OrderInv == ordered => Sorted /\ NamesInv /\ ScopeInv

IInv == TypeInv /\ FrameInv /\ OrderInv

-----------------------------------------------------------------------------
(* Least and greatest numbers, and names *)

\* A set of numbers has a least one: the interval that ends with it is in no other.
LEMMA Least ==
  ASSUME NEW S, S \subseteq Nat, S # {}
  PROVE  Min(S) \in S /\ \A x \in S : Min(S) <= x
  <1> DEFINE T == {1 .. x : x \in S}
  <1>1. T \subseteq FiniteSubsetsOf(Nat) /\ T # {}
    <2> SUFFICES ASSUME NEW x \in S PROVE 1 .. x \in FiniteSubsetsOf(Nat)
      OBVIOUS
    <2> QED BY FS_Interval DEF FiniteSubsetsOf
  <1>2. PICK e \in T : \A d \in T : <<d, e>> \notin StrictSubsetOrdering(Nat)
    BY <1>1, WFMin, FS_StrictSubsetOrderingWellFounded, Zenon
  <1>3. PICK x \in S : e = 1 .. x
    BY <1>2
  <1>4. ASSUME NEW y \in S, y < x PROVE FALSE
    <2>1. 1 .. y \subseteq 1 .. x /\ x \in 1 .. x /\ x \notin 1 .. y
      BY <1>4
    <2>2. <<1 .. y, e>> \in StrictSubsetOrdering(Nat)
      BY <2>1, <1>3, <1>1 DEF StrictSubsetOrdering
    <2> QED BY <2>2, <1>2
  <1>5. \A y \in S : x =< y
    BY <1>4
  <1> QED BY <1>5 DEF Min

LEMMA Greatest ==
  ASSUME NEW S, NEW n \in Nat, S \subseteq 1 .. n, S # {}
  PROVE  Max(S) \in S /\ \A x \in S : x <= Max(S)
  <1> DEFINE T == {n - x : x \in S}
  <1>1. T \subseteq Nat /\ T # {}
    <2>1. \A x \in S : n - x \in Nat
      OBVIOUS
    <2>2. PICK x \in S : TRUE
      OBVIOUS
    <2>3. n - x \in T
      OBVIOUS
    <2> QED BY <2>1, <2>3
  <1>2. PICK m \in T : \A y \in T : m <= y
    BY <1>1, Least
  <1>3. PICK x \in S : m = n - x
    BY <1>2
  <1>4. \A y \in S : x >= y
    <2> SUFFICES ASSUME NEW y \in S PROVE x >= y
      OBVIOUS
    <2>1. n - x <= n - y
      BY <1>2, <1>3
    <2> QED BY <2>1
  <1> QED BY <1>4 DEF Max

LEMMA Between ==
  ASSUME NEW i \in Nat, NEW n \in Nat, i <= n, ~ i + 1 <= n
  PROVE  i = n
  OBVIOUS

\* New names are new and different.
LEMMA FreshNames ==
  ASSUME TypeInv, NEW n \in Nat, EnoughVars(n)
  PROVE  /\ Fresh(n) \in Seq(Var) /\ Len(Fresh(n)) = n
         /\ \A i \in 1 .. n : Fresh(n)[i] \in Unused
         /\ \A i, j \in 1 .. n : Fresh(n)[i] = Fresh(n)[j] => i = j
  <1>1. IsFiniteSet(Unused)
    <2>1. IsFiniteSet(Var)
      BY FS_Interval, UpvaluesAssumption DEF Var
    <2> QED BY <2>1, FS_Subset DEF Unused
  <1>2. n <= Cardinality(Unused) /\ Cardinality(Unused) \in Nat
    BY <1>1, FS_CardinalityType DEF EnoughVars
  <1>3. PICK b \in Bijection(1 .. Cardinality(Unused), Unused) : TRUE
    BY <1>1, FS_CardinalityType DEF ExistsBijection
  <1> DEFINE f == [i \in 1 .. n |-> b[i]]
  <1>4. f \in [1 .. n -> Unused]
    BY <1>2, <1>3 DEF Bijection, Injection, Surjection
  <1>5. \A i, j \in 1 .. n : f[i] = f[j] => i = j
    BY <1>2, <1>3 DEF Bijection, Injection, IsInjective
  <1> HIDE DEF f
  <1>6. /\ Fresh(n) \in [1 .. n -> Unused]
        /\ \A i, j \in 1 .. n : Fresh(n)[i] = Fresh(n)[j] => i = j
    BY <1>4, <1>5 DEF Fresh
  <1>7. Fresh(n) \in Seq(Unused) /\ Unused \subseteq Var
    BY <1>6 DEF Unused
  <1> QED BY <1>6, <1>7

-----------------------------------------------------------------------------
(* The running function, and closing *)

LEMMA MarkIs ==
  ASSUME TypeInv, NEW i \in DOMAIN marks
  PROVE  marks[i] \in Mark /\ marks[i].level \in Nat \ {0}
  <1>1. marks[i] \in Mark
    BY DEF TypeInv
  <1> QED BY <1>1 DEF Mark

LEMMA CallerIs ==
  ASSUME TypeInv, MarksInv
  PROVE  /\ caller \in 1 .. Len(marks) /\ marks[caller] \in Mark
         /\ marks[caller].kind # "block"
         /\ \A i \in DOMAIN marks : marks[i].kind # "block" => i <= caller
         /\ marks[caller].kind = "C" => caller = Len(marks)
         /\ InLua => caller > 1 /\ marks[caller].level > 1
  <1> DEFINE S == {i \in DOMAIN marks : marks[i].kind # "block"}
  <1>1. Len(marks) \in Nat /\ DOMAIN marks = 1 .. Len(marks) /\ 1 \in S
    BY DEF TypeInv, MarksInv
  <1>2. caller \in S /\ \A i \in S : i <= caller
    BY <1>1, Greatest DEF caller
  <1> HIDE DEF S
  <1>3. caller \in 1 .. Len(marks) /\ marks[caller] \in Mark
    BY <1>1, <1>2 DEF S, TypeInv
  <1>4. marks[caller].kind = "C" => caller = Len(marks)
    <2>1. ASSUME marks[caller].kind = "C", caller + 1 <= Len(marks) PROVE FALSE
      <3>1. caller \in DOMAIN marks /\ caller + 1 \in DOMAIN marks /\ caller < caller + 1
        BY <2>1, <1>1, <1>3
      <3>2. marks[caller + 1].kind # "block"
        BY <3>1, <2>1 DEF MarksInv
      <3>3. caller + 1 <= caller
        BY <3>1, <3>2, <1>2 DEF S
      <3> QED BY <3>3, <1>1, <1>3
    <2>2. caller \in Nat /\ Len(marks) \in Nat /\ caller <= Len(marks)
      BY <1>1, <1>3
    <2>3. caller + 1 <= Len(marks) \/ caller = Len(marks)
      BY <2>2
    <2> QED BY <2>1, <2>3, Zenon
  <1>5. InLua => caller > 1 /\ marks[caller].level > 1
    <2>1. ASSUME InLua PROVE caller > 1 /\ marks[caller].level > 1
      <3>1. caller > 1
        BY <2>1, <1>3 DEF InLua, MarksInv
      <3>2. 1 \in DOMAIN marks /\ caller \in DOMAIN marks /\ marks[caller].kind # "block"
        BY <1>1, <1>2, <1>3 DEF S
      <3>3. marks[1].level < marks[caller].level
        BY <3>1, <3>2 DEF MarksInv
      <3>4. marks[1].level \in Nat \ {0} /\ marks[caller].level \in Nat
        <4>1. marks[1] \in Mark /\ marks[caller] \in Mark
          BY <3>2, <1>1 DEF TypeInv
        <4> QED BY <4>1 DEF Mark
      <3> QED BY <3>1, <3>3, <3>4
    <2> QED BY <2>1
  <1> QED BY <1>2, <1>3, <1>4, <1>5, <1>1 DEF S

\* The list has upvalues that are open, each with the call that made it.
LEMMA Listed ==
  ASSUME TypeInv, ListInv, FramesClosed, NEW i \in 1 .. Len(open_upvalues)
  PROVE  /\ open_upvalues[i] \in Upvalue
         /\ at[open_upvalues[i]] \in Slot /\ at[open_upvalues[i]] \in Nat
         /\ maker[open_upvalues[i]] \in DOMAIN marks /\ maker[open_upvalues[i]] \in Nat
  <1>1. open_upvalues[i] \in Upvalue /\ at[open_upvalues[i]] # Nil
    BY DEF TypeInv, ListInv
  <1> QED BY <1>1 DEF TypeInv, Slot, FramesClosed

\* upvalue_close takes the front of the list.
LEMMA CloseTakes ==
  ASSUME TypeInv, ListInv, FramesClosed, NEW level \in Nat, upvalue_close(level)
  PROVE  \E n \in 0 .. Len(open_upvalues) :
           /\ open_upvalues' \in Seq(Upvalue) /\ Len(open_upvalues') = Len(open_upvalues) - n
           /\ \A i \in 1 .. Len(open_upvalues) - n : open_upvalues'[i] = open_upvalues[n + i]
           /\ \A i \in 1 .. n : at[open_upvalues[i]] >= level
           /\ n < Len(open_upvalues) => at[open_upvalues[n + 1]] < level
           /\ at' = [u \in Upvalue |-> IF \E i \in 1 .. n : open_upvalues[i] = u THEN Nil ELSE at[u]]
           /\ maker' = [u \in Upvalue |-> IF \E i \in 1 .. n : open_upvalues[i] = u THEN Nil ELSE maker[u]]
           /\ closed' = [u \in Upvalue |-> IF \E i \in 1 .. n : open_upvalues[i] = u
                                           THEN stack[at[u]] ELSE closed[u]]
           /\ closed' \in [Upvalue -> Value \cup {Blank}]
  <1> DEFINE kept  == {i \in DOMAIN open_upvalues : at[open_upvalues[i]] < level}
             n     == IF kept = {} THEN Len(open_upvalues) ELSE Min(kept) - 1
             front == {open_upvalues[i] : i \in 1 .. n}
  <1>1. Len(open_upvalues) \in Nat /\ DOMAIN open_upvalues = 1 .. Len(open_upvalues)
    BY DEF TypeInv
  <1>2. kept \subseteq Nat /\ (kept # {} => Min(kept) \in kept /\ \A i \in kept : Min(kept) <= i)
    <2>1. kept \subseteq Nat
      BY <1>1
    <2> HIDE DEF kept
    <2>2. ASSUME kept # {} PROVE Min(kept) \in kept /\ \A i \in kept : Min(kept) <= i
      BY <2>1, <2>2, Least
    <2> QED BY <2>1, <2>2
  <1>3. n \in 0 .. Len(open_upvalues)
    BY <1>1, <1>2
  <1>4. \A i \in 1 .. n : at[open_upvalues[i]] >= level
    <2> SUFFICES ASSUME NEW i \in 1 .. n PROVE i \notin kept
      BY <1>1, <1>3, Listed
    <2>1. CASE kept = {}
      BY <2>1
    <2>2. CASE kept # {}
      <3>1. Min(kept) \in Nat /\ i < Min(kept)
        BY <2>2, <1>2, <1>3
      <3>2. ASSUME i \in kept PROVE FALSE
        <4>1. Min(kept) <= i
          BY <3>2, <2>2, <1>2
        <4> QED BY <4>1, <3>1
      <3> QED BY <3>2
    <2> QED BY <2>1, <2>2
  <1>5. n < Len(open_upvalues) => n + 1 \in kept
    BY <1>1, <1>2
  <1>6. /\ closed' = [u \in Upvalue |-> IF u \in front THEN stack[at[u]] ELSE closed[u]]
        /\ at' = [u \in Upvalue |-> IF u \in front THEN Nil ELSE at[u]]
        /\ maker' = [u \in Upvalue |-> IF u \in front THEN Nil ELSE maker[u]]
        /\ open_upvalues' = SubSeq(open_upvalues, n + 1, Len(open_upvalues))
    BY DEF upvalue_close
  <1> HIDE DEF n, kept
  <1>7. \A u : u \in front <=> \E i \in 1 .. n : open_upvalues[i] = u
    OBVIOUS
  <1>8. /\ open_upvalues' \in Seq(Upvalue) /\ Len(open_upvalues') = Len(open_upvalues) - n
        /\ \A i \in 1 .. Len(open_upvalues) - n : open_upvalues'[i] = open_upvalues[n + i]
    <2>1. \A i \in n + 1 .. Len(open_upvalues) : open_upvalues[i] \in Upvalue
      BY <1>1, <1>3, Listed
    <2> DEFINE rest == SubSeq(open_upvalues, n + 1, Len(open_upvalues))
    <2>2. n + 1 \in Int /\ Len(open_upvalues) \in Int
      BY <1>1, <1>3
    <2>3. /\ rest \in Seq(Upvalue)
          /\ Len(rest) = IF n + 1 <= Len(open_upvalues)
                         THEN Len(open_upvalues) - (n + 1) + 1 ELSE 0
          /\ \A i \in 1 .. Len(open_upvalues) - (n + 1) + 1 :
               rest[i] = open_upvalues[n + 1 + i - 1]
      BY <2>1, <2>2, SubSeqProperties
    <2> HIDE DEF rest
    <2>4. open_upvalues' = rest
      BY <1>6 DEF rest
    <2>5. Len(open_upvalues) - (n + 1) + 1 = Len(open_upvalues) - n
      BY <1>1, <1>3
    <2>6. \A i \in 1 .. Len(open_upvalues) - n : n + 1 + i - 1 = n + i
      BY <1>1, <1>3
    <2>7. \A i \in 1 .. Len(open_upvalues) - n : rest[i] = open_upvalues[n + i]
      BY <2>3, <2>5, <2>6
    <2>8. Len(rest) = Len(open_upvalues) - n
      <3>1. n \in Nat /\ n <= Len(open_upvalues)
        BY <1>1, <1>3
      <3>2. Len(rest) = IF n + 1 <= Len(open_upvalues) THEN Len(open_upvalues) - n ELSE 0
        BY <2>3, <2>5
      <3>3. CASE n + 1 <= Len(open_upvalues)
        BY <3>2, <3>3
      <3>4. CASE ~ n + 1 <= Len(open_upvalues)
        <4>1. n = Len(open_upvalues)
          BY <3>1, <3>4, <1>1, Between
        <4> QED BY <4>1, <3>2, <3>4, <1>1
      <3> QED BY <3>3, <3>4
    <2> QED BY <2>3, <2>4, <2>7, <2>8
  <1>9. closed' \in [Upvalue -> Value \cup {Blank}]
    <2>1. \A u \in front : at[u] \in Slot
      BY <1>7, <1>3, <1>1, Listed
    <2> QED BY <2>1, <1>6 DEF TypeInv
  <1>10. n < Len(open_upvalues) => at[open_upvalues[n + 1]] < level
    BY <1>5 DEF kept
  <1>11. closed' = [u \in Upvalue |-> IF \E i \in 1 .. n : open_upvalues[i] = u
                                     THEN stack[at[u]] ELSE closed[u]]
    BY <1>6, <1>7
  <1>12. /\ at' = [u \in Upvalue |-> IF \E i \in 1 .. n : open_upvalues[i] = u THEN Nil ELSE at[u]]
         /\ maker' = [u \in Upvalue |-> IF \E i \in 1 .. n : open_upvalues[i] = u THEN Nil ELSE maker[u]]
    BY <1>6, <1>7
  <1> QED BY <1>3, <1>4, <1>8, <1>9, <1>10, <1>11, <1>12

\* What is open after upvalue_close.
LEMMA CloseKeeps ==
  ASSUME TypeInv, ListInv, FramesClosed, NEW level \in Nat, upvalue_close(level)
  PROVE  /\ ListInv'
         /\ open_upvalues' \in Seq(Upvalue) /\ at' \in [Upvalue -> Slot \cup {Nil}]
         /\ maker' \in [Upvalue -> Nat \cup {Nil}] /\ closed' \in [Upvalue -> Value \cup {Blank}]
         /\ \A u \in Upvalue : at'[u] # Nil => at'[u] = at[u] /\ maker'[u] = maker[u]
         /\ \A m \in Nat : (\A u \in Upvalue : at[u] # Nil /\ maker[u] >= m => at[u] >= level)
              => \A u \in Upvalue : at'[u] # Nil => maker[u] < m
         /\ Sorted => /\ Sorted'
                      /\ \A u \in Upvalue : at'[u] = Nil <=> at[u] = Nil \/ at[u] >= level
  <1>1. PICK n \in 0 .. Len(open_upvalues) :
           /\ open_upvalues' \in Seq(Upvalue) /\ Len(open_upvalues') = Len(open_upvalues) - n
           /\ \A i \in 1 .. Len(open_upvalues) - n : open_upvalues'[i] = open_upvalues[n + i]
           /\ \A i \in 1 .. n : at[open_upvalues[i]] >= level
           /\ n < Len(open_upvalues) => at[open_upvalues[n + 1]] < level
           /\ at' = [u \in Upvalue |-> IF \E i \in 1 .. n : open_upvalues[i] = u THEN Nil ELSE at[u]]
           /\ maker' = [u \in Upvalue |-> IF \E i \in 1 .. n : open_upvalues[i] = u THEN Nil ELSE maker[u]]
           /\ closed' \in [Upvalue -> Value \cup {Blank}]
    BY CloseTakes
  <1>2. Len(open_upvalues) \in Nat /\ DOMAIN open_upvalues = 1 .. Len(open_upvalues)
    BY DEF TypeInv
  <1>3. DOMAIN open_upvalues' = 1 .. Len(open_upvalues) - n
    BY <1>1
  <1>4. \A j \in n + 1 .. Len(open_upvalues) : \A i \in 1 .. n : open_upvalues[i] # open_upvalues[j]
    BY <1>2 DEF ListInv
  <1>5. \A u \in Upvalue : at'[u] # Nil =>
          \E j \in n + 1 .. Len(open_upvalues) : open_upvalues[j] = u
    <2> SUFFICES ASSUME NEW u \in Upvalue, at'[u] # Nil
                 PROVE  \E j \in n + 1 .. Len(open_upvalues) : open_upvalues[j] = u
      OBVIOUS
    <2>1. at[u] # Nil /\ ~ \E i \in 1 .. n : open_upvalues[i] = u
      BY <1>1
    <2>2. PICK j \in 1 .. Len(open_upvalues) : open_upvalues[j] = u
      BY <2>1, <1>2 DEF ListInv
    <2> QED BY <2>1, <2>2, <1>2
  <1>6. \A j \in n + 1 .. Len(open_upvalues) :
          /\ at'[open_upvalues[j]] = at[open_upvalues[j]] /\ at[open_upvalues[j]] # Nil
          /\ maker'[open_upvalues[j]] = maker[open_upvalues[j]]
    <2> SUFFICES ASSUME NEW j \in n + 1 .. Len(open_upvalues)
                 PROVE  /\ at'[open_upvalues[j]] = at[open_upvalues[j]]
                        /\ at[open_upvalues[j]] # Nil
                        /\ maker'[open_upvalues[j]] = maker[open_upvalues[j]]
      OBVIOUS
    <2>1. open_upvalues[j] \in Upvalue /\ at[open_upvalues[j]] # Nil
      BY <1>2, Listed, UpvaluesAssumption
    <2> QED BY <2>1, <1>1, <1>4
  <1>7. \A u \in Upvalue : at'[u] # Nil => at'[u] = at[u] /\ maker'[u] = maker[u]
    BY <1>1
  <1>8. ListInv'
    <2>1. \A u \in Upvalue : at'[u] # Nil <=>
            \E i \in DOMAIN open_upvalues' : open_upvalues'[i] = u
      <3> SUFFICES ASSUME NEW u \in Upvalue
                   PROVE  at'[u] # Nil <=> \E i \in DOMAIN open_upvalues' : open_upvalues'[i] = u
        OBVIOUS
      <3>1. ASSUME at'[u] # Nil PROVE \E i \in DOMAIN open_upvalues' : open_upvalues'[i] = u
        <4>1. PICK j \in n + 1 .. Len(open_upvalues) : open_upvalues[j] = u
          BY <3>1, <1>5
        <4>2. j - n \in DOMAIN open_upvalues' /\ open_upvalues'[j - n] = u
          BY <4>1, <1>1, <1>2, <1>3
        <4> QED BY <4>2
      <3>2. ASSUME NEW i \in DOMAIN open_upvalues', open_upvalues'[i] = u PROVE at'[u] # Nil
        <4>1. n + i \in n + 1 .. Len(open_upvalues) /\ open_upvalues[n + i] = u
          BY <3>2, <1>1, <1>2, <1>3
        <4> QED BY <4>1, <1>6
      <3> QED BY <3>1, <3>2
    <2>2. ASSUME NEW i \in DOMAIN open_upvalues', NEW j \in DOMAIN open_upvalues', i < j
          PROVE  /\ open_upvalues'[i] # open_upvalues'[j]
                 /\ maker'[open_upvalues'[i]] >= maker'[open_upvalues'[j]]
      <3>1. /\ n + i \in n + 1 .. Len(open_upvalues) /\ n + j \in n + 1 .. Len(open_upvalues)
            /\ n + i < n + j
            /\ open_upvalues'[i] = open_upvalues[n + i] /\ open_upvalues'[j] = open_upvalues[n + j]
        BY <2>2, <1>1, <1>2, <1>3
      <3>2. /\ open_upvalues[n + i] # open_upvalues[n + j]
            /\ maker[open_upvalues[n + i]] >= maker[open_upvalues[n + j]]
        BY <3>1, <1>2 DEF ListInv
      <3> QED BY <3>1, <3>2, <1>6
    <2> QED BY <2>1, <2>2 DEF ListInv
  <1>9. ASSUME NEW m \in Nat,
               \A u \in Upvalue : at[u] # Nil /\ maker[u] >= m => at[u] >= level,
               NEW u \in Upvalue, at'[u] # Nil
        PROVE  maker[u] < m
    <2>1. PICK j \in n + 1 .. Len(open_upvalues) : open_upvalues[j] = u
      BY <1>9, <1>5
    <2> DEFINE w == open_upvalues[n + 1]
    <2>2. n + 1 \in 1 .. Len(open_upvalues) /\ j \in 1 .. Len(open_upvalues)
      BY <2>1, <1>2
    <2>3. /\ w \in Upvalue /\ at[w] # Nil /\ at[w] \in Nat /\ maker[w] \in Nat
          /\ maker[u] \in Nat /\ at[w] < level
      BY <2>1, <2>2, <1>1, Listed, UpvaluesAssumption
    <2>4. maker[w] < m
      BY <2>3, <1>9
    <2>5. maker[w] >= maker[u]
      <3>1. CASE j = n + 1
        BY <3>1, <2>1, <2>3
      <3>2. CASE n + 1 < j
        BY <3>2, <2>1, <2>2, <1>2 DEF ListInv
      <3> QED BY <3>1, <3>2, <2>1
    <2> QED BY <2>3, <2>4, <2>5
  <1>10. ASSUME Sorted
         PROVE  /\ Sorted'
                /\ \A u \in Upvalue : at'[u] = Nil <=> at[u] = Nil \/ at[u] >= level
    <2>1. Sorted'
      <3> SUFFICES ASSUME NEW i \in DOMAIN open_upvalues', NEW j \in DOMAIN open_upvalues', i < j
                   PROVE  at'[open_upvalues'[i]] > at'[open_upvalues'[j]]
        BY DEF Sorted
      <3>1. /\ n + i \in n + 1 .. Len(open_upvalues) /\ n + j \in n + 1 .. Len(open_upvalues)
            /\ n + i < n + j
            /\ open_upvalues'[i] = open_upvalues[n + i] /\ open_upvalues'[j] = open_upvalues[n + j]
        BY <1>1, <1>2, <1>3
      <3>2. at[open_upvalues[n + i]] > at[open_upvalues[n + j]]
        BY <3>1, <1>2, <1>10 DEF Sorted
      <3> QED BY <3>1, <3>2, <1>6
    <2>2. ASSUME NEW u \in Upvalue, at[u] # Nil, at[u] >= level PROVE at'[u] = Nil
      <3> SUFFICES ASSUME at'[u] # Nil PROVE FALSE
        OBVIOUS
      <3>1. PICK j \in n + 1 .. Len(open_upvalues) : open_upvalues[j] = u
        BY <1>5
      <3>2. n + 1 \in 1 .. Len(open_upvalues) /\ j \in 1 .. Len(open_upvalues)
        BY <3>1, <1>2
      <3>3. /\ at[open_upvalues[n + 1]] \in Nat /\ at[u] \in Nat
            /\ at[open_upvalues[n + 1]] < level
        BY <3>1, <3>2, <1>1, Listed
      <3>4. j = n + 1 \/ at[open_upvalues[n + 1]] > at[u]
        BY <3>1, <3>2, <1>2, <1>10 DEF Sorted
      <3> QED BY <3>1, <3>3, <3>4, <2>2
    <2>3. ASSUME NEW u \in Upvalue, at'[u] = Nil, at[u] # Nil PROVE at[u] >= level
      <3>1. PICK i \in 1 .. n : open_upvalues[i] = u
        BY <2>3, <1>1
      <3> QED BY <3>1, <1>1
    <2>4. \A u \in Upvalue : at[u] = Nil => at'[u] = Nil
      BY <1>1
    <2> QED BY <2>1, <2>2, <2>3, <2>4
  <1>11. at' \in [Upvalue -> Slot \cup {Nil}] /\ maker' \in [Upvalue -> Nat \cup {Nil}]
    BY <1>1 DEF TypeInv
  <1> QED BY <1>1, <1>7, <1>8, <1>9, <1>10, <1>11

-----------------------------------------------------------------------------
(* Leaving blocks and calls *)

\* Marks and variables are cut off.
LEMMA CutMarks ==
  ASSUME TypeInv, MarksInv, NEW left \in 1 .. Len(marks), NEW t \in 0 .. top,
         marks' = SubSeq(marks, 1, left), scope' = SubSeq(scope, 1, t),
         \A i \in 1 .. left : marks[i].level <= t + 1
  PROVE  /\ MarksInv'
         /\ marks' \in Seq(Mark) /\ Len(marks') = left
         /\ \A i \in 1 .. left : marks'[i] = marks[i]
         /\ scope' \in Seq(Var) /\ Len(scope') = t
         /\ \A s \in 1 .. t : scope'[s] = scope[s]
  <1>1. /\ Len(marks) \in Nat /\ DOMAIN marks = 1 .. Len(marks)
        /\ Len(scope) \in Nat /\ DOMAIN scope = 1 .. Len(scope)
    BY DEF TypeInv
  <1>2. /\ marks' \in Seq(Mark) /\ Len(marks') = left
        /\ \A i \in 1 .. left : marks'[i] = marks[i]
    <2>1. \A i \in 1 .. left : marks[i] \in Mark
      BY <1>1 DEF TypeInv
    <2>2. /\ SubSeq(marks, 1, left) \in Seq(Mark)
          /\ Len(SubSeq(marks, 1, left)) = IF 1 <= left THEN left - 1 + 1 ELSE 0
          /\ \A i \in 1 .. left - 1 + 1 : SubSeq(marks, 1, left)[i] = marks[1 + i - 1]
      BY <2>1, SubSeqProperties
    <2> QED BY <2>2
  <1>3. /\ scope' \in Seq(Var) /\ Len(scope') = t
        /\ \A s \in 1 .. t : scope'[s] = scope[s]
    <2>1. \A s \in 1 .. t : scope[s] \in Var
      BY <1>1 DEF TypeInv, top
    <2>2. /\ SubSeq(scope, 1, t) \in Seq(Var)
          /\ Len(SubSeq(scope, 1, t)) = IF 1 <= t THEN t - 1 + 1 ELSE 0
          /\ \A s \in 1 .. t - 1 + 1 : SubSeq(scope, 1, t)[s] = scope[1 + s - 1]
      BY <2>1, SubSeqProperties
    <2>3. t \in Nat
      BY <1>1 DEF top
    <2> QED BY <2>2, <2>3
  <1>4. DOMAIN marks' = 1 .. left /\ \A i \in 1 .. left : i \in DOMAIN marks
    BY <1>1, <1>2
  <1>5. top' = t
    BY <1>3 DEF top
  <1>6. MarksInv'
    <2>1. Len(marks') > 0 /\ marks'[1].kind = "C"
      BY <1>2 DEF MarksInv
    <2>2. ASSUME NEW i \in DOMAIN marks'
          PROVE  /\ marks'[i].level <= top' + 1
                 /\ marks'[i].kind = "Lua" => marks'[i].keep \in {Nil, marks'[i].level - 1}
      BY <1>2, <1>4, <1>5 DEF MarksInv
    <2>3. ASSUME NEW i \in DOMAIN marks', NEW j \in DOMAIN marks', i < j
          PROVE  /\ marks'[i].level <= marks'[j].level
                 /\ marks'[j].kind # "block" => marks'[i].level < marks'[j].level
                 /\ marks'[i].kind = "C" /\ j = i + 1 => marks'[j].kind # "block"
      <3>1. i \in DOMAIN marks /\ j \in DOMAIN marks /\ marks'[i] = marks[i] /\ marks'[j] = marks[j]
        BY <1>2, <1>4
      <3> QED BY <3>1, <2>3 DEF MarksInv
    <2> QED BY <2>1, <2>2, <2>3 DEF MarksInv
  <1> QED BY <1>2, <1>3, <1>6

\* The first t variables and `left` marks remain, and of the upvalues those open
\* on these variables.
LEMMA LeaveKeeps ==
  ASSUME IInv, NEW left \in 1 .. Len(marks), NEW t \in 0 .. top,
         marks' = SubSeq(marks, 1, left), scope' = SubSeq(scope, 1, t),
         \A i \in 1 .. left : marks[i].level <= t + 1,
         ListInv',
         open_upvalues' \in Seq(Upvalue), at' \in [Upvalue -> Slot \cup {Nil}],
         maker' \in [Upvalue -> Nat \cup {Nil}], closed' \in [Upvalue -> Value \cup {Blank}],
         \A u \in Upvalue : at'[u] # Nil =>
           at'[u] = at[u] /\ maker'[u] = maker[u] /\ maker[u] <= left,
         ordered => /\ Sorted'
                    /\ \A u \in Upvalue :
                         /\ at'[u] # Nil => at[u] <= t
                         /\ at'[u] # Nil =>
                              \A j \in DOMAIN marks : j > left => at[u] < marks[j].level
                         /\ at'[u] = Nil /\ at[u] # Nil => at[u] > t,
         UNCHANGED <<stack, ref, bound, ordered>>
  PROVE  IInv'
  <1>1. TypeInv /\ MarksInv /\ ListInv /\ FramesClosed /\ OrderInv
    BY DEF IInv, FrameInv
  <1>2. /\ MarksInv'
        /\ marks' \in Seq(Mark) /\ Len(marks') = left
        /\ \A i \in 1 .. left : marks'[i] = marks[i]
        /\ scope' \in Seq(Var) /\ Len(scope') = t
        /\ \A s \in 1 .. t : scope'[s] = scope[s]
    BY <1>1, CutMarks
  <1>3. /\ Len(marks) \in Nat /\ DOMAIN marks = 1 .. Len(marks) /\ DOMAIN marks' = 1 .. left
        /\ Len(scope) \in Nat /\ DOMAIN scope = 1 .. top /\ DOMAIN scope' = 1 .. t /\ top' = t
        /\ t \in Nat /\ t <= top /\ top \in Nat
    BY <1>1, <1>2 DEF TypeInv, top
  <1>4. TypeInv'
    <2>1. t <= NSlots
      BY <1>1, <1>3, UpvaluesAssumption DEF TypeInv
    <2> QED BY <2>1, <1>1, <1>2, <1>3 DEF TypeInv
  <1>5. FramesClosed'
    <2> SUFFICES ASSUME NEW u \in Upvalue, at'[u] # Nil
                 PROVE  /\ maker'[u] \in DOMAIN marks'
                        /\ marks'[maker'[u]].kind = "Lua"
                        /\ marks'[maker'[u]].level <= at'[u]
      BY DEF FramesClosed
    <2>1. at'[u] = at[u] /\ maker'[u] = maker[u] /\ maker[u] <= left /\ at[u] # Nil
      OBVIOUS
    <2>2. /\ maker[u] \in DOMAIN marks /\ marks[maker[u]].kind = "Lua"
          /\ marks[maker[u]].level <= at[u]
      BY <2>1, <1>1 DEF FramesClosed
    <2>3. maker[u] \in 1 .. left
      BY <2>1, <2>2, <1>3
    <2> QED BY <2>1, <2>2, <2>3, <1>2, <1>3
  <1>6. ASSUME ordered PROVE NamesInv'
    <2>1. NamesInv
      BY <1>1, <1>6 DEF OrderInv
    <2>2. ASSUME NEW s \in DOMAIN scope', NEW r \in DOMAIN scope', scope'[s] = scope'[r]
          PROVE  s = r
      <3>1. s \in DOMAIN scope /\ r \in DOMAIN scope /\ scope[s] = scope[r]
        BY <2>2, <1>2, <1>3, SMTT(30)
      <3> QED BY <3>1, <2>1 DEF NamesInv
    <2>3. \A h \in Capture : ref'[h] = Nil <=> bound'[h] = Nil
      BY <2>1 DEF NamesInv
    <2>4. ASSUME NEW h \in Capture, ref'[h] # Nil
          PROVE  /\ at'[ref'[h]] # Nil => scope'[at'[ref'[h]]] = bound'[h]
                 /\ at'[ref'[h]] = Nil => \A s \in DOMAIN scope' : scope'[s] # bound'[h]
      <3> DEFINE u == ref[h]
      <3>1. u \in Upvalue /\ ref'[h] = u /\ bound'[h] = bound[h] /\ u # Nil
        BY <2>4, <1>1 DEF TypeInv
      <3>2. /\ at[u] # Nil => scope[at[u]] = bound[h]
            /\ at[u] = Nil => \A s \in DOMAIN scope : scope[s] # bound[h]
        BY <3>1, <2>1 DEF NamesInv
      <3> HIDE DEF u
      <3>3. CASE at'[u] # Nil
        <4>1. at'[u] = at[u] /\ at[u] # Nil /\ at[u] <= t
          BY <3>1, <3>3, <1>6
        <4>2. at[u] \in Slot
          BY <4>1, <3>1, <1>1 DEF TypeInv
        <4>3. at[u] \in 1 .. t
          BY <4>1, <4>2, <1>3, UpvaluesAssumption DEF Slot
        <4> QED BY <4>1, <4>3, <3>1, <3>2, <3>3, <1>2
      <3>4. CASE at'[u] = Nil /\ at[u] = Nil
        <4>1. ASSUME NEW s \in DOMAIN scope' PROVE scope'[s] # bound[h]
          <5>1. s \in DOMAIN scope /\ scope'[s] = scope[s]
            BY <1>2, <1>3
          <5> QED BY <5>1, <3>2, <3>4
        <4> QED BY <4>1, <3>1, <3>4
      <3>5. CASE at'[u] = Nil /\ at[u] # Nil
        <4>1. at[u] > t /\ at[u] \in Slot /\ at[u] <= top
          BY <3>1, <3>5, <1>6, <1>1 DEF TypeInv, OrderInv, ScopeInv
        <4>2. at[u] \in DOMAIN scope
          BY <4>1, <1>3, UpvaluesAssumption DEF Slot
        <4>3. ASSUME NEW s \in DOMAIN scope', scope'[s] = bound[h] PROVE FALSE
          <5>1. s \in DOMAIN scope /\ scope[s] = scope[at[u]] /\ s <= t
            BY <4>3, <3>2, <3>5, <1>2, <1>3
          <5>2. s = at[u]
            BY <5>1, <4>2, <2>1 DEF NamesInv
          <5> QED BY <5>1, <5>2, <4>1, <1>3
        <4> QED BY <4>3, <3>1, <3>5
      <3> QED BY <3>1, <3>3, <3>4, <3>5
    <2>5. \A h, i \in Capture : ref'[h] # Nil /\ ref'[i] # Nil =>
            (ref'[h] = ref'[i] <=> bound'[h] = bound'[i])
      BY <2>1 DEF NamesInv
    <2> QED BY <2>2, <2>3, <2>4, <2>5 DEF NamesInv
  <1>7. ASSUME ordered PROVE ScopeInv'
    <2> SUFFICES ASSUME NEW u \in Upvalue, at'[u] # Nil
                 PROVE  /\ at'[u] <= top'
                        /\ \A i \in DOMAIN marks' :
                             /\ i > maker'[u] /\ marks'[i].kind # "block"
                                  => at'[u] + 2 <= marks'[i].level
                             /\ /\ marks'[i].kind = "block" /\ marks'[i].level <= at'[u]
                                /\ \A j \in DOMAIN marks' : i < j => at'[u] < marks'[j].level
                                => marks'[i].has_upvalue
      BY DEF ScopeInv
    <2>1. at'[u] = at[u] /\ maker'[u] = maker[u] /\ at[u] # Nil /\ at[u] <= t
      BY <1>7
    <2>2. \A i \in DOMAIN marks :
            /\ i > maker[u] /\ marks[i].kind # "block" => at[u] + 2 <= marks[i].level
            /\ /\ marks[i].kind = "block" /\ marks[i].level <= at[u]
               /\ \A j \in DOMAIN marks : i < j => at[u] < marks[j].level
               => marks[i].has_upvalue
      BY <2>1, <1>1, <1>7 DEF OrderInv, ScopeInv
    <2>3. ASSUME NEW i \in DOMAIN marks'
          PROVE  /\ i > maker'[u] /\ marks'[i].kind # "block" => at'[u] + 2 <= marks'[i].level
                 /\ /\ marks'[i].kind = "block" /\ marks'[i].level <= at'[u]
                    /\ \A j \in DOMAIN marks' : i < j => at'[u] < marks'[j].level
                    => marks'[i].has_upvalue
      <3>1. i \in DOMAIN marks /\ marks'[i] = marks[i]
        BY <1>2, <1>3
      <3>2. ASSUME \A j \in DOMAIN marks' : i < j => at'[u] < marks'[j].level,
                   NEW j \in DOMAIN marks, i < j
            PROVE  at[u] < marks[j].level
        <4>1. CASE j <= left
          <5>1. j \in DOMAIN marks' /\ marks'[j] = marks[j]
            BY <4>1, <1>2, <1>3
          <5> QED BY <5>1, <3>2, <2>1
        <4>2. CASE j > left
          BY <4>2, <2>1, <1>7
        <4> QED BY <4>1, <4>2, <1>3
      <3> QED BY <3>1, <3>2, <2>1, <2>2
    <2> QED BY <2>1, <2>3, <1>3
  <1>8. OrderInv'
    BY <1>6, <1>7 DEF OrderInv
  <1> QED BY <1>2, <1>4, <1>5, <1>8 DEF IInv, FrameInv

\* As many marks and variables as left, with nothing closed.
LEMMA CutKeeps ==
  ASSUME IInv, NEW left \in 1 .. Len(marks), NEW t \in 0 .. top,
         marks' = SubSeq(marks, 1, left), scope' = SubSeq(scope, 1, t),
         \A i \in 1 .. left : marks[i].level <= t + 1,
         \A u \in Upvalue : at[u] # Nil => maker[u] <= left,
         ordered => \A u \in Upvalue : at[u] # Nil =>
                      /\ at[u] <= t
                      /\ \A j \in DOMAIN marks : j > left => at[u] < marks[j].level,
         UNCHANGED <<stack, open_upvalues, at, closed, ref, bound, maker, ordered>>
  PROVE  IInv'
  <1>1. /\ ListInv'
        /\ open_upvalues' \in Seq(Upvalue) /\ at' \in [Upvalue -> Slot \cup {Nil}]
        /\ maker' \in [Upvalue -> Nat \cup {Nil}] /\ closed' \in [Upvalue -> Value \cup {Blank}]
    BY DEF IInv, FrameInv, ListInv, TypeInv
  <1>2. ordered => Sorted'
    BY DEF IInv, OrderInv, Sorted
  <1> QED BY <1>1, <1>2, LeaveKeeps

\* The marks after `left` are closed: what was made since, and if upvalues are in
\* order everything from there on.
LEMMA ClosingKeeps ==
  ASSUME IInv, NEW left \in 1 .. Len(marks) - 1, NEW t \in 0 .. top,
         marks' = SubSeq(marks, 1, left), scope' = SubSeq(scope, 1, t),
         upvalue_close(marks[left + 1].level),
         \A i \in 1 .. left : marks[i].level <= t + 1,
         t < marks[left + 1].level,
         ordered => \A u \in Upvalue :
                      at[u] # Nil /\ at[u] < marks[left + 1].level => at[u] <= t,
         UNCHANGED <<stack, ref, bound, ordered>>
  PROVE  IInv'
  <1> DEFINE level == marks[left + 1].level
  <1>1. TypeInv /\ MarksInv /\ ListInv /\ FramesClosed /\ OrderInv
    BY DEF IInv, FrameInv
  <1>2. /\ Len(marks) \in Nat /\ DOMAIN marks = 1 .. Len(marks) /\ left + 1 \in DOMAIN marks
        /\ left \in 1 .. Len(marks) /\ left + 1 \in Nat
    BY <1>1 DEF TypeInv
  <1>3. level \in Nat
    <2>1. marks[left + 1] \in Mark
      BY <1>1, <1>2 DEF TypeInv
    <2> QED BY <2>1 DEF Mark
  <1>4. ASSUME NEW j \in DOMAIN marks, j > left PROVE level <= marks[j].level
    <2>1. CASE j = left + 1
      BY <2>1, <1>3
    <2>2. CASE left + 1 < j
      BY <2>2, <1>1, <1>2 DEF MarksInv
    <2> QED BY <2>1, <2>2, <1>2, <1>4
  <1>5. ASSUME NEW u \in Upvalue, at[u] # Nil, maker[u] >= left + 1 PROVE at[u] >= level
    <2>1. maker[u] \in DOMAIN marks /\ marks[maker[u]].level <= at[u] /\ at[u] \in Nat
      BY <1>5, <1>1 DEF FramesClosed, TypeInv, Slot
    <2>2. level <= marks[maker[u]].level
      <3>1. maker[u] > left
        BY <2>1, <1>2, <1>5
      <3> QED BY <3>1, <2>1, <1>4
    <2>3. marks[maker[u]].level \in Nat
      BY <2>1, <1>1, MarkIs
    <2> QED BY <2>1, <2>2, <2>3, <1>3
  <1> HIDE DEF level
  <1>6. upvalue_close(level)
    BY DEF level
  <1>7. /\ ListInv'
        /\ open_upvalues' \in Seq(Upvalue) /\ at' \in [Upvalue -> Slot \cup {Nil}]
        /\ maker' \in [Upvalue -> Nat \cup {Nil}] /\ closed' \in [Upvalue -> Value \cup {Blank}]
        /\ \A u \in Upvalue : at'[u] # Nil => at'[u] = at[u] /\ maker'[u] = maker[u]
        /\ \A u \in Upvalue : at'[u] # Nil => maker[u] < left + 1
        /\ Sorted => /\ Sorted'
                     /\ \A u \in Upvalue : at'[u] = Nil <=> at[u] = Nil \/ at[u] >= level
    BY <1>1, <1>2, <1>3, <1>5, <1>6, CloseKeeps
  <1>8. ASSUME NEW u \in Upvalue, at'[u] # Nil
        PROVE  at'[u] = at[u] /\ maker'[u] = maker[u] /\ maker[u] <= left
    <2>1. maker[u] \in DOMAIN marks /\ maker[u] < left + 1
      BY <1>7, <1>8, <1>1 DEF FramesClosed
    <2> QED BY <2>1, <1>2, <1>7, <1>8
  <1>9. ASSUME ordered
        PROVE  /\ Sorted'
               /\ \A u \in Upvalue :
                    /\ at'[u] # Nil => at[u] <= t
                    /\ at'[u] # Nil => \A j \in DOMAIN marks : j > left => at[u] < marks[j].level
                    /\ at'[u] = Nil /\ at[u] # Nil => at[u] > t
    <2>1. Sorted /\ Sorted' /\ \A u \in Upvalue : at'[u] = Nil <=> at[u] = Nil \/ at[u] >= level
      BY <1>1, <1>7, <1>9 DEF OrderInv
    <2>2. ASSUME NEW u \in Upvalue, at'[u] # Nil
          PROVE  at[u] <= t /\ \A j \in DOMAIN marks : j > left => at[u] < marks[j].level
      <3>1. at[u] # Nil /\ at[u] < level /\ at[u] \in Nat
        BY <2>1, <2>2, <1>1, <1>3 DEF TypeInv, Slot
      <3>2. at[u] <= t
        BY <3>1, <1>9 DEF level
      <3>3. ASSUME NEW j \in DOMAIN marks, j > left PROVE at[u] < marks[j].level
        <4>1. marks[j] \in Mark /\ level <= marks[j].level
          BY <3>3, <1>4, <1>1 DEF TypeInv
        <4> QED BY <4>1, <3>1, <1>3 DEF Mark
      <3> QED BY <3>2, <3>3
    <2>3. ASSUME NEW u \in Upvalue, at'[u] = Nil, at[u] # Nil PROVE at[u] > t
      <3>1. at[u] >= level /\ at[u] \in Nat /\ t < level /\ t \in Nat
        BY <2>1, <2>3, <1>1 DEF TypeInv, Slot, level, top
      <3> QED BY <3>1, <1>3
    <2> QED BY <2>1, <2>2, <2>3
  <1> QED BY <1>2, <1>7, <1>8, <1>9, LeaveKeeps

\* An OP_CLOSE for the blocks that were left, or none of them needs one.
LEMMA LeaveBlocksKeeps ==
  ASSUME IInv, NEW k, LeaveBlocks(k)
  PROVE  IInv'
  <1> DEFINE left  == Len(marks) - k
             level == marks[left + 1].level
             t     == level - 1
  <1>1. TypeInv /\ MarksInv /\ ListInv /\ FramesClosed /\ OrderInv
    BY DEF IInv, FrameInv
  <1>2. /\ caller \in 1 .. Len(marks) /\ Len(marks) \in Nat /\ DOMAIN marks = 1 .. Len(marks)
        /\ \A i \in DOMAIN marks : marks[i].kind # "block" => i <= caller
    BY <1>1, CallerIs DEF TypeInv
  <1>3. k \in 1 .. Len(marks) - caller
    BY DEF LeaveBlocks
  <1>4. /\ left \in 1 .. Len(marks) - 1 /\ left >= caller /\ left + 1 \in DOMAIN marks
    BY <1>2, <1>3
  <1>5. /\ marks' = SubSeq(marks, 1, left) /\ scope' = SubSeq(scope, 1, t)
        /\ \/ upvalue_close(level)
           \/ /\ ~ \E i \in left + 1 .. Len(marks) : marks[i].has_upvalue
              /\ UNCHANGED <<open_upvalues, at, closed, maker>>
        /\ UNCHANGED <<stack, ref, bound, ordered>>
    BY DEF LeaveBlocks
  <1>6. level \in Nat \ {0} /\ level <= top + 1 /\ top \in Nat
    <2>1. marks[left + 1] \in Mark
      BY <1>1, <1>4 DEF TypeInv
    <2> QED BY <2>1, <1>1, <1>4 DEF Mark, MarksInv, TypeInv, top
  <1> HIDE DEF left
  <1>7. t \in 0 .. top /\ t < level
    BY <1>6
  <1>8. ASSUME NEW i \in 1 .. left PROVE marks[i].level <= t + 1
    <2>1. i \in DOMAIN marks /\ i < left + 1
      BY <1>2, <1>4
    <2>2. marks[i].level <= level
      BY <2>1, <1>4, <1>1 DEF MarksInv
    <2> QED BY <2>2, <1>6
  <1>9. CASE upvalue_close(level)
    <2>1. ASSUME NEW u \in Upvalue, at[u] # Nil, at[u] < level PROVE at[u] <= t
      <3>1. at[u] \in Nat
        BY <2>1, <1>1 DEF TypeInv, Slot
      <3> QED BY <3>1, <2>1, <1>6
    <2> QED BY <2>1, <1>4, <1>5, <1>7, <1>8, <1>9, ClosingKeeps
  <1>10. CASE /\ ~ \E i \in left + 1 .. Len(marks) : marks[i].has_upvalue
              /\ UNCHANGED <<open_upvalues, at, closed, maker>>
    <2>1. ASSUME NEW u \in Upvalue, at[u] # Nil PROVE maker[u] <= left
      <3>1. maker[u] \in DOMAIN marks /\ marks[maker[u]].kind = "Lua"
        BY <2>1, <1>1 DEF FramesClosed
      <3>2. maker[u] <= caller
        BY <3>1, <1>2
      <3> QED BY <3>1, <3>2, <1>2, <1>4
    <2>2. ASSUME ordered, NEW u \in Upvalue, at[u] # Nil, at[u] >= level PROVE FALSE
      <3> DEFINE S == {i \in DOMAIN marks : marks[i].level <= at[u]}
      <3>1. left + 1 \in S
        BY <2>2, <1>1, <1>4 DEF TypeInv, Slot
      <3>2. Max(S) \in S /\ \A i \in S : i <= Max(S)
        BY <3>1, <1>2, Greatest
      <3>3. PICK d \in S : \A i \in S : i <= d
        BY <3>2
      <3>4. d \in left + 1 .. Len(marks) /\ d \in DOMAIN marks /\ marks[d].level <= at[u]
        BY <3>1, <3>3, <1>2, <1>4
      <3>5. marks[d].kind = "block"
        BY <3>4, <1>2, <1>4
      <3>6. ASSUME NEW j \in DOMAIN marks, d < j PROVE at[u] < marks[j].level
        <4>1. j \notin S
          BY <3>3, <3>4, <3>6, <1>2
        <4>2. at[u] \in Nat /\ marks[j].level \in Nat
          <5>1. marks[j].level \in Nat
            BY <1>1, MarkIs
          <5> QED BY <5>1, <2>2, <1>1 DEF TypeInv, Slot
        <4> QED BY <4>1, <4>2
      <3>7. marks[d].has_upvalue
        BY <3>4, <3>5, <3>6, <2>2, <1>1 DEF OrderInv, ScopeInv
      <3> QED BY <3>4, <3>7, <1>10
    <2>3. ASSUME ordered, NEW u \in Upvalue, at[u] # Nil
          PROVE  at[u] <= t /\ \A j \in DOMAIN marks : j > left => at[u] < marks[j].level
      <3>1. at[u] < level /\ at[u] \in Nat
        BY <2>2, <2>3, <1>1, <1>6 DEF TypeInv, Slot
      <3>2. ASSUME NEW j \in DOMAIN marks, j > left PROVE at[u] < marks[j].level
        <4>1. CASE j = left + 1
          BY <4>1, <3>1
        <4>2. CASE left + 1 < j
          <5>1. level <= marks[j].level /\ marks[j] \in Mark
            BY <4>2, <1>1, <1>4 DEF MarksInv, TypeInv
          <5> QED BY <5>1, <3>1, <1>6 DEF Mark
        <4> QED BY <4>1, <4>2, <3>2, <1>2, <1>4
      <3> QED BY <3>1, <3>2, <1>6
    <2>4. left \in 1 .. Len(marks)
      BY <1>2, <1>4
    <2> QED BY <2>1, <2>3, <2>4, <1>5, <1>7, <1>8, <1>10, CutKeeps
  <1> QED BY <1>5, <1>9, <1>10

\* A call with frame f goes and leaves the variables below its function, or
\* its function's slot too.
LEMMA UnwindKeeps ==
  ASSUME IInv, NEW f \in 2 .. Len(marks), marks[f].kind # "block",
         NEW t \in {marks[f].level - 2, marks[f].level - 1},
         upvalue_close(marks[f].level),
         marks' = SubSeq(marks, 1, f - 1), scope' = SubSeq(scope, 1, t),
         UNCHANGED <<stack, ref, bound, ordered>>
  PROVE  IInv'
  <1> DEFINE left == f - 1
  <1>1. TypeInv /\ MarksInv /\ ListInv /\ FramesClosed /\ OrderInv
    BY DEF IInv, FrameInv
  <1>2. Len(marks) \in Nat /\ DOMAIN marks = 1 .. Len(marks) /\ f \in DOMAIN marks /\ 1 \in DOMAIN marks
    BY <1>1 DEF TypeInv
  <1>3. marks[f].level \in Nat /\ marks[f].level > 1 /\ marks[f].level <= top + 1 /\ top \in Nat
    <2>1. marks[f].level \in Nat /\ marks[1].level \in Nat \ {0}
      BY <1>1, <1>2, MarkIs
    <2>2. marks[1].level < marks[f].level
      BY <1>1, <1>2 DEF MarksInv
    <2> QED BY <2>1, <2>2, <1>1, <1>2 DEF MarksInv, TypeInv, top
  <1>4. left \in 1 .. Len(marks) - 1 /\ left + 1 = f
    BY <1>2
  <1>5. t \in 0 .. top /\ t < marks[f].level
    BY <1>3
  <1>6. ASSUME NEW i \in 1 .. left PROVE marks[i].level <= t + 1
    <2>1. i \in DOMAIN marks /\ i < f
      BY <1>2, <1>4
    <2>2. marks[i].level < marks[f].level /\ marks[i].level \in Nat
      BY <2>1, <1>1, <1>2, MarkIs DEF MarksInv
    <2> QED BY <2>2, <1>3
  <1>7. ASSUME ordered, NEW u \in Upvalue, at[u] # Nil, at[u] < marks[f].level
        PROVE  at[u] <= t
    <2>1. /\ maker[u] \in DOMAIN marks /\ marks[maker[u]].level <= at[u] /\ at[u] \in Nat
          /\ marks[maker[u]].level \in Nat
      <3>1. maker[u] \in DOMAIN marks /\ marks[maker[u]].level <= at[u] /\ at[u] \in Nat
        BY <1>7, <1>1 DEF FramesClosed, TypeInv, Slot
      <3> QED BY <3>1, <1>1, MarkIs
    <2>2. ~ f <= maker[u]
      <3>1. CASE f = maker[u]
        BY <3>1, <2>1, <1>7, <1>3
      <3>2. CASE f < maker[u]
        <4>1. marks[f].level <= marks[maker[u]].level
          BY <3>2, <2>1, <1>1, <1>2 DEF MarksInv
        <4> QED BY <4>1, <2>1, <1>7, <1>3
      <3> QED BY <3>1, <3>2, <2>1, <1>2
    <2>3. f > maker[u]
      BY <2>1, <2>2, <1>2
    <2>4. at[u] + 2 <= marks[f].level
      BY <2>3, <1>7, <1>1, <1>2 DEF OrderInv, ScopeInv
    <2> QED BY <2>1, <2>4, <1>3
  <1> HIDE DEF left
  <1>8. upvalue_close(marks[left + 1].level) /\ marks' = SubSeq(marks, 1, left)
    BY <1>4 DEF left
  <1> QED BY <1>4, <1>5, <1>6, <1>7, <1>8, ClosingKeeps

LEMMA ReturnKeeps == IInv /\ Return => IInv'
  <1> SUFFICES ASSUME IInv, Return PROVE IInv'
    OBVIOUS
  <1>1. /\ caller \in 1 .. Len(marks) /\ marks[caller].kind # "block" /\ caller > 1
        /\ Len(marks) \in Nat
    BY CallerIs DEF IInv, FrameInv, Return, TypeInv
  <1>2. caller \in 2 .. Len(marks)
    BY <1>1
  <1> QED BY <1>1, <1>2, UnwindKeeps DEF Return

LEMMA ThrowKeeps == IInv /\ Throw => IInv'
  <1> SUFFICES ASSUME IInv, Throw PROVE IInv'
    OBVIOUS
  <1>1. TypeInv /\ MarksInv
    BY DEF IInv, FrameInv
  <1>2. Len(marks) \in Nat /\ DOMAIN marks = 1 .. Len(marks)
    BY <1>1 DEF TypeInv
  <1>3. PICK f \in Handlers :
          /\ upvalue_close(marks[f].keep + 1)
          /\ scope' = SubSeq(scope, 1, marks[f].keep)
          /\ marks' = SubSeq(marks, 1, f - 1)
          /\ UNCHANGED <<stack, ref, bound, ordered>>
    <2>1. Handlers # {} /\ Handlers \subseteq 1 .. Len(marks)
      BY <1>2 DEF Throw, Handlers
    <2>2. Max(Handlers) \in Handlers
      BY <2>1, <1>2, Greatest
    <2> QED BY <2>2 DEF Throw
  <1>4. /\ f \in 1 .. Len(marks) /\ marks[f].kind = "Lua" /\ marks[f].keep = marks[f].level - 1
        /\ f # 1
    BY <1>1, <1>2, <1>3 DEF Handlers, MarksInv
  <1>5. f \in 2 .. Len(marks) /\ marks[f].keep + 1 = marks[f].level
    <2>1. marks[f].level \in Nat
      BY <1>1, <1>2, <1>4, MarkIs
    <2> QED BY <2>1, <1>2, <1>4
  <1> QED BY <1>3, <1>4, <1>5, UnwindKeeps

\* C functions close nothing: what is open is further down.
LEMMA PopCKeeps ==
  ASSUME IInv, NEW n \in 0 .. NSlots, PopC(n)
  PROVE  IInv'
  <1>1. TypeInv /\ MarksInv /\ FramesClosed /\ OrderInv
    BY DEF IInv, FrameInv
  <1>2. /\ Len(marks) \in Nat /\ DOMAIN marks = 1 .. Len(marks)
        /\ caller = Len(marks) /\ caller \in 1 .. Len(marks)
        /\ marks[caller].level \in Nat \ {0} /\ marks[caller].level <= top + 1 /\ top \in Nat
    BY <1>1, CallerIs, MarkIs DEF TypeInv, MarksInv, PopC, top
  <1>3. /\ n \in 0 .. top /\ n >= marks[caller].level - 1 /\ n \in Nat
        /\ marks[caller].kind = "C"
    BY <1>2 DEF PopC
  <1>4. marks' = SubSeq(marks, 1, Len(marks))
    BY <1>1, SubSeqFull DEF PopC, TypeInv
  <1>5. ASSUME NEW i \in 1 .. Len(marks) PROVE marks[i].level <= n + 1
    <2>1. i = caller \/ i < caller
      <3>1. caller \in Nat /\ i \in Nat
        BY <1>2
      <3>2. i <= caller
        BY <1>2
      <3> QED BY <3>1, <3>2
    <2>2. marks[i].level \in Nat
      BY <1>1, <1>2, MarkIs
    <2>3. marks[i].level <= marks[caller].level
      <3>1. CASE i = caller
        BY <3>1, <2>2
      <3>2. CASE i < caller
        BY <3>2, <1>1, <1>2 DEF MarksInv
      <3> QED BY <2>1, <3>1, <3>2
    <2> QED BY <2>2, <2>3, <1>2, <1>3
  <1>6. ASSUME NEW u \in Upvalue, at[u] # Nil
        PROVE  maker[u] <= Len(marks) /\ maker[u] \in Nat /\ maker[u] # caller /\ at[u] \in Nat
    BY <1>6, <1>1, <1>2, <1>3 DEF FramesClosed, TypeInv, Slot
  <1>7. ASSUME ordered, NEW u \in Upvalue, at[u] # Nil PROVE at[u] <= n
    <2>1. maker[u] < caller
      BY <1>2, <1>6, <1>7
    <2>2. at[u] + 2 <= marks[caller].level
      BY <2>1, <1>1, <1>2, <1>3, <1>7 DEF OrderInv, ScopeInv
    <2> QED BY <2>2, <1>2, <1>3, <1>6, <1>7
  <1>8. Len(marks) \in 1 .. Len(marks) /\ \A j \in DOMAIN marks : ~ j > Len(marks)
    BY <1>2
  <1> QED BY <1>3, <1>4, <1>5, <1>6, <1>7, <1>8, CutKeeps DEF PopC

LEMMA ReturnCKeeps == IInv /\ ReturnC => IInv'
  <1> SUFFICES ASSUME IInv, ReturnC PROVE IInv'
    OBVIOUS
  <1> DEFINE left == caller - 1
             t    == marks[caller].level - 2
  <1>1. TypeInv /\ MarksInv /\ FramesClosed /\ OrderInv
    BY DEF IInv, FrameInv
  <1>2. /\ Len(marks) \in Nat /\ DOMAIN marks = 1 .. Len(marks)
        /\ caller = Len(marks) /\ caller \in 2 .. Len(marks) /\ marks[caller].kind = "C"
        /\ marks[caller].level \in Nat \ {0} /\ marks[caller].level <= top + 1 /\ top \in Nat
    <2>1. /\ Len(marks) \in Nat /\ DOMAIN marks = 1 .. Len(marks)
          /\ caller = Len(marks) /\ caller \in 1 .. Len(marks) /\ marks[caller].kind = "C"
          /\ caller > 1
      BY <1>1, CallerIs DEF TypeInv, ReturnC
    <2>2. caller \in 2 .. Len(marks) /\ caller \in DOMAIN marks
      BY <2>1
    <2>3. marks[caller].level \in Nat \ {0} /\ marks[caller].level <= top + 1 /\ top \in Nat
      BY <2>2, <1>1, MarkIs DEF MarksInv, TypeInv, top
    <2> QED BY <2>1, <2>2, <2>3
  <1>3. ASSUME NEW i \in 1 .. left PROVE marks[i].level < marks[caller].level /\ marks[i].level \in Nat \ {0}
    <2>1. i \in DOMAIN marks /\ i < caller
      BY <1>2
    <2> QED BY <2>1, <1>1, <1>2, MarkIs DEF MarksInv
  <1>4. left \in 1 .. Len(marks) /\ left < caller
    BY <1>2
  <1>5. t \in 0 .. top
    BY <1>2, <1>3, <1>4
  <1>6. \A i \in 1 .. left : marks[i].level <= t + 1
    BY <1>2, <1>3
  <1>7. ASSUME NEW u \in Upvalue, at[u] # Nil
        PROVE  maker[u] <= left /\ maker[u] < caller /\ at[u] \in Nat
    <2>1. maker[u] \in 1 .. Len(marks) /\ maker[u] # caller /\ at[u] \in Nat
      BY <1>7, <1>1, <1>2 DEF FramesClosed, TypeInv, Slot
    <2> QED BY <2>1, <1>2
  <1>8. ASSUME ordered, NEW u \in Upvalue, at[u] # Nil
        PROVE  at[u] <= t /\ \A j \in DOMAIN marks : j > left => at[u] < marks[j].level
    <2>1. at[u] + 2 <= marks[caller].level
      BY <1>7, <1>8, <1>1, <1>2 DEF OrderInv, ScopeInv
    <2>2. \A j \in DOMAIN marks : j > left => j = caller
      BY <1>2
    <2> QED BY <2>1, <2>2, <1>2, <1>7, <1>8
  <1>9. /\ marks' = SubSeq(marks, 1, left) /\ scope' = SubSeq(scope, 1, t)
        /\ UNCHANGED <<stack, open_upvalues, at, closed, ref, bound, maker, ordered>>
    BY DEF ReturnC
  <1> HIDE DEF left, t
  <1> QED BY <1>4, <1>5, <1>6, <1>7, <1>8, <1>9, CutKeeps

-----------------------------------------------------------------------------
(* Entering blocks and calls, and new variables *)

\* A mark that can follow the others.
Follows(m) ==
  /\ m \in Mark /\ m.level <= top' + 1
  /\ m.kind = "block" => m.level = top + 1 /\ marks[Len(marks)].kind # "C"
  /\ m.kind # "block" => m.level = top + 2
  /\ m.kind = "Lua" => m.keep \in {Nil, m.level - 1}

LEMMA MoreMarks ==
  ASSUME TypeInv, MarksInv, Len(scope') \in Nat, top <= top',
         \/ marks' = marks
         \/ \E m : Follows(m) /\ marks' = Append(marks, m)
  PROVE  /\ MarksInv' /\ marks' \in Seq(Mark)
         /\ \A i \in DOMAIN marks : i \in DOMAIN marks' /\ marks'[i] = marks[i]
         /\ \A i \in DOMAIN marks' : i \notin DOMAIN marks =>
              /\ marks'[i].level >= top + 1
              /\ marks'[i].kind # "block" => marks'[i].level = top + 2
  <1>1. /\ Len(marks) \in Nat /\ DOMAIN marks = 1 .. Len(marks) /\ top \in Nat /\ top' \in Nat
        /\ Len(marks) > 0
    BY DEF TypeInv, MarksInv, top
  <1>2. \A i \in DOMAIN marks : marks[i].level \in Nat /\ marks[i].level <= top + 1
    BY MarkIs DEF MarksInv
  <1>3. CASE marks' = marks
    <2>1. \A i \in DOMAIN marks : marks[i].level <= top' + 1
      BY <1>1, <1>2
    <2> QED BY <2>1, <1>3 DEF MarksInv, TypeInv
  <1>4. CASE \E m : Follows(m) /\ marks' = Append(marks, m)
    <2>1. PICK m : Follows(m) /\ marks' = Append(marks, m)
      BY <1>4
    <2>2. /\ marks' \in Seq(Mark) /\ Len(marks') = Len(marks) + 1
          /\ \A i \in 1 .. Len(marks) : marks'[i] = marks[i]
          /\ marks'[Len(marks) + 1] = m
      BY <2>1, AppendProperties DEF Follows, TypeInv
    <2>3. DOMAIN marks' = 1 .. Len(marks) + 1
      BY <2>2
    <2>4. m.level \in Nat /\ m.level >= top + 1
      <3>1. m \in Mark /\ (m.level = top + 1 \/ m.level = top + 2)
        BY <2>1 DEF Follows
      <3> QED BY <3>1, <1>1 DEF Mark
    <2>5. ASSUME NEW i \in DOMAIN marks'
          PROVE  /\ marks'[i].level <= top' + 1
                 /\ marks'[i].kind = "Lua" => marks'[i].keep \in {Nil, marks'[i].level - 1}
      <3>1. CASE i \in DOMAIN marks
        BY <3>1, <1>1, <1>2, <2>2 DEF MarksInv
      <3>2. CASE i = Len(marks) + 1
        BY <3>2, <2>1, <2>2 DEF Follows
      <3> QED BY <3>1, <3>2, <2>3, <1>1
    <2>6. ASSUME NEW i \in DOMAIN marks', NEW j \in DOMAIN marks', i < j
          PROVE  /\ marks'[i].level <= marks'[j].level
                 /\ marks'[j].kind # "block" => marks'[i].level < marks'[j].level
                 /\ marks'[i].kind = "C" /\ j = i + 1 => marks'[j].kind # "block"
      <3>1. CASE j \in DOMAIN marks
        <4>1. i \in DOMAIN marks /\ marks'[i] = marks[i] /\ marks'[j] = marks[j]
          BY <3>1, <2>2, <2>3, <2>6, <1>1
        <4> QED BY <4>1, <3>1, <2>6 DEF MarksInv
      <3>2. CASE j = Len(marks) + 1
        <4>1. i \in DOMAIN marks /\ marks'[i] = marks[i] /\ marks'[j] = m
          BY <3>2, <2>2, <2>3, <2>6, <1>1
        <4>2. marks[i].level <= m.level
          BY <4>1, <2>4, <1>1, <1>2
        <4>3. m.kind # "block" => marks[i].level < m.level
          <5>1. m.kind # "block" => m.level = top + 2
            BY <2>1 DEF Follows
          <5>2. marks[i].level \in Nat /\ marks[i].level <= top + 1
            BY <4>1, <1>2
          <5> QED BY <5>1, <5>2, <1>1
        <4>4. j = i + 1 => i = Len(marks)
          BY <3>2, <4>1, <1>1
        <4>5. marks[i].kind = "C" /\ j = i + 1 => m.kind # "block"
          BY <4>4, <2>1 DEF Follows
        <4> QED BY <4>1, <4>2, <4>3, <4>5
      <3> QED BY <3>1, <3>2, <2>3, <1>1
    <2>7. MarksInv'
      <3>1. Len(marks') > 0 /\ marks'[1].kind = "C"
        BY <2>2, <1>1 DEF MarksInv
      <3> QED BY <3>1, <2>5, <2>6 DEF MarksInv
    <2>8. ASSUME NEW i \in DOMAIN marks', i \notin DOMAIN marks
          PROVE  /\ marks'[i].level >= top + 1
                 /\ marks'[i].kind # "block" => marks'[i].level = top + 2
      <3>1. marks'[i] = m
        BY <2>2, <2>3, <2>8, <1>1
      <3> QED BY <3>1, <2>1, <2>4 DEF Follows
    <2>9. \A i \in DOMAIN marks : i \in DOMAIN marks' /\ marks'[i] = marks[i]
      BY <2>2, <2>3, <1>1
    <2> QED BY <2>2, <2>7, <2>8, <2>9
  <1> QED BY <1>3, <1>4

LEMMA GrowKeeps ==
  ASSUME IInv, scope' \in Seq(Var), top <= top', top' <= NSlots,
         \A s \in 1 .. top : scope'[s] = scope[s],
         \A s \in top + 1 .. top' : scope'[s] \in Unused,
         \A s, r \in top + 1 .. top' : scope'[s] = scope'[r] => s = r,
         \/ marks' = marks
         \/ \E m : Follows(m) /\ marks' = Append(marks, m),
         stack' \in [Slot -> Value \cup {Blank}],
         UNCHANGED <<open_upvalues, at, closed, ref, bound, maker, ordered>>
  PROVE  IInv'
  <1>1. TypeInv /\ MarksInv /\ ListInv /\ FramesClosed /\ OrderInv
    BY DEF IInv, FrameInv
  <1>2. /\ Len(marks) \in Nat /\ DOMAIN marks = 1 .. Len(marks) /\ top \in Nat /\ top' \in Nat
        /\ DOMAIN scope = 1 .. top /\ DOMAIN scope' = 1 .. top' /\ Len(scope') \in Nat
    BY <1>1 DEF TypeInv, top
  <1>3. /\ MarksInv' /\ marks' \in Seq(Mark)
        /\ \A i \in DOMAIN marks : i \in DOMAIN marks' /\ marks'[i] = marks[i]
        /\ \A i \in DOMAIN marks' : i \notin DOMAIN marks =>
             /\ marks'[i].level >= top + 1
             /\ marks'[i].kind # "block" => marks'[i].level = top + 2
    BY <1>1, <1>2, MoreMarks
  <1>4. TypeInv'
    BY <1>1, <1>3 DEF TypeInv
  <1>5. ListInv'
    BY <1>1 DEF ListInv
  <1>6. FramesClosed'
    <2> SUFFICES ASSUME NEW u \in Upvalue, at[u] # Nil
                 PROVE  /\ maker[u] \in DOMAIN marks' /\ marks'[maker[u]].kind = "Lua"
                        /\ marks'[maker[u]].level <= at[u]
      BY DEF FramesClosed
    <2>1. /\ maker[u] \in DOMAIN marks /\ marks[maker[u]].kind = "Lua"
          /\ marks[maker[u]].level <= at[u]
      BY <1>1 DEF FramesClosed
    <2> QED BY <2>1, <1>3
  <1>7. ASSUME ordered PROVE NamesInv'
    <2>1. NamesInv
      BY <1>1, <1>7 DEF OrderInv
    <2>2. \A s \in 1 .. top, r \in top + 1 .. top' : scope[s] # scope'[r]
      BY <1>2 DEF Unused
    <2>3. \A h \in Capture, r \in top + 1 .. top' : bound[h] # scope'[r]
      BY DEF Unused
    <2>4. ASSUME NEW s \in DOMAIN scope', NEW r \in DOMAIN scope', scope'[s] = scope'[r]
          PROVE  s = r
      <3>1. CASE s \in 1 .. top /\ r \in 1 .. top
        BY <3>1, <2>1, <2>4, <1>2 DEF NamesInv
      <3>2. CASE s \in 1 .. top /\ r \in top + 1 .. top'
        BY <3>2, <2>2, <2>4
      <3>3. CASE r \in 1 .. top /\ s \in top + 1 .. top'
        BY <3>3, <2>2, <2>4
      <3>4. CASE s \in top + 1 .. top' /\ r \in top + 1 .. top'
        BY <3>4, <2>4
      <3> QED BY <3>1, <3>2, <3>3, <3>4, <1>2
    <2>5. ASSUME NEW h \in Capture, ref[h] # Nil, at[ref[h]] # Nil
          PROVE  scope'[at[ref[h]]] = bound[h]
      <3>1. scope[at[ref[h]]] = bound[h]
        BY <2>1, <2>5 DEF NamesInv
      <3>2. ref[h] \in Upvalue
        BY <2>5, <1>1 DEF TypeInv
      <3>3. at[ref[h]] \in Slot /\ at[ref[h]] <= top
        BY <3>2, <2>5, <1>1, <1>7 DEF TypeInv, OrderInv, ScopeInv
      <3>4. at[ref[h]] \in 1 .. top
        BY <3>3, <1>2, UpvaluesAssumption DEF Slot
      <3> QED BY <3>1, <3>4
    <2>6. ASSUME NEW h \in Capture, ref[h] # Nil, at[ref[h]] = Nil, NEW s \in DOMAIN scope'
          PROVE  scope'[s] # bound[h]
      <3>1. CASE s \in 1 .. top
        BY <3>1, <2>1, <2>6, <1>2 DEF NamesInv
      <3>2. CASE s \in top + 1 .. top'
        BY <3>2, <2>3
      <3> QED BY <3>1, <3>2, <1>2
    <2>7. \A h \in Capture : ref[h] = Nil <=> bound[h] = Nil
      BY <2>1 DEF NamesInv
    <2>8. \A h, i \in Capture : ref[h] # Nil /\ ref[i] # Nil =>
            (ref[h] = ref[i] <=> bound[h] = bound[i])
      BY <2>1 DEF NamesInv
    <2> QED BY <2>4, <2>5, <2>6, <2>7, <2>8 DEF NamesInv
  <1>8. ASSUME ordered PROVE ScopeInv'
    <2> SUFFICES ASSUME NEW u \in Upvalue, at[u] # Nil
                 PROVE  /\ at[u] <= top'
                        /\ \A i \in DOMAIN marks' :
                             /\ i > maker[u] /\ marks'[i].kind # "block"
                                  => at[u] + 2 <= marks'[i].level
                             /\ /\ marks'[i].kind = "block" /\ marks'[i].level <= at[u]
                                /\ \A j \in DOMAIN marks' : i < j => at[u] < marks'[j].level
                                => marks'[i].has_upvalue
      BY DEF ScopeInv
    <2>1. /\ at[u] <= top /\ at[u] \in Nat
          /\ \A i \in DOMAIN marks :
               /\ i > maker[u] /\ marks[i].kind # "block" => at[u] + 2 <= marks[i].level
               /\ /\ marks[i].kind = "block" /\ marks[i].level <= at[u]
                  /\ \A j \in DOMAIN marks : i < j => at[u] < marks[j].level
                  => marks[i].has_upvalue
      BY <1>1, <1>8 DEF OrderInv, ScopeInv, TypeInv, Slot
    <2>2. ASSUME NEW i \in DOMAIN marks'
          PROVE  /\ i > maker[u] /\ marks'[i].kind # "block" => at[u] + 2 <= marks'[i].level
                 /\ /\ marks'[i].kind = "block" /\ marks'[i].level <= at[u]
                    /\ \A j \in DOMAIN marks' : i < j => at[u] < marks'[j].level
                    => marks'[i].has_upvalue
      <3>1. CASE i \in DOMAIN marks
        <4>1. marks'[i] = marks[i]
          BY <3>1, <1>3
        <4>2. \A j \in DOMAIN marks : j \in DOMAIN marks' /\ marks'[j].level = marks[j].level
          BY <1>3
        <4> QED BY <4>1, <4>2, <3>1, <2>1
      <3>2. CASE i \notin DOMAIN marks
        <4>1. /\ marks'[i].level >= top + 1
              /\ marks'[i].kind # "block" => marks'[i].level = top + 2
              /\ marks'[i].level \in Nat
          <5>1. marks'[i].level \in Nat
            <6>1. marks'[i] \in Mark
              BY <1>3
            <6> QED BY <6>1 DEF Mark
          <5> QED BY <5>1, <3>2, <1>3
        <4> QED BY <4>1, <2>1, <1>2
      <3> QED BY <3>1, <3>2
    <2> QED BY <2>1, <2>2, <1>2
  <1>9. OrderInv'
    <2>1. ordered => Sorted'
      BY <1>1 DEF OrderInv, Sorted
    <2> QED BY <2>1, <1>7, <1>8 DEF OrderInv
  <1> QED BY <1>3, <1>4, <1>5, <1>6, <1>9 DEF IInv, FrameInv

LEMMA DeclareKeeps ==
  ASSUME IInv, NEW n \in Nat, EnoughVars(n), top + n <= NSlots, scope' = scope \o Fresh(n),
         \/ marks' = marks
         \/ \E m \in Mark : /\ marks' = Append(marks, m)
                            /\ m.kind # "block" /\ m.level = top + 2 /\ n > 0
                            /\ m.kind = "Lua" => m.keep \in {Nil, m.level - 1},
         stack' \in [Slot -> Value \cup {Blank}],
         UNCHANGED <<open_upvalues, at, closed, ref, bound, maker, ordered>>
  PROVE  IInv'
  <1>1. TypeInv /\ scope \in Seq(Var) /\ top \in Nat
    BY DEF IInv, TypeInv, top
  <1>2. /\ Fresh(n) \in Seq(Var) /\ Len(Fresh(n)) = n
        /\ \A i \in 1 .. n : Fresh(n)[i] \in Unused
        /\ \A i, j \in 1 .. n : Fresh(n)[i] = Fresh(n)[j] => i = j
    BY <1>1, FreshNames
  <1> DEFINE new == Fresh(n)
  <1> HIDE DEF new
  <1>3. /\ scope' \in Seq(Var) /\ Len(scope') = top + n
        /\ \A s \in 1 .. top + n : scope'[s] = IF s <= top THEN scope[s] ELSE new[s - top]
    <2>1. new \in Seq(Var) /\ Len(new) = n /\ scope' = scope \o new
      BY <1>2 DEF new
    <2>2. /\ scope \o new \in Seq(Var)
          /\ Len(scope \o new) = Len(scope) + Len(new)
          /\ \A i \in 1 .. Len(scope) + Len(new) : (scope \o new)[i] =
               IF i <= Len(scope) THEN scope[i] ELSE new[i - Len(scope)]
      BY <2>1, <1>1, ConcatProperties
    <2> QED BY <2>1, <2>2 DEF top
  <1>4. top' = top + n
    BY <1>3 DEF top
  <1>5. \A s \in 1 .. top : scope'[s] = scope[s]
    BY <1>1, <1>3
  <1>6. \A s \in top + 1 .. top' : s - top \in 1 .. n /\ scope'[s] = new[s - top]
    BY <1>1, <1>3, <1>4
  <1>7. \A s \in top + 1 .. top' : scope'[s] \in Unused
    BY <1>2, <1>6 DEF new
  <1>8. ASSUME NEW s \in top + 1 .. top', NEW r \in top + 1 .. top', scope'[s] = scope'[r]
        PROVE  s = r
    <2>1. s - top = r - top
      BY <1>2, <1>6, <1>8 DEF new
    <2> QED BY <2>1, <1>1
  <1>9. \/ marks' = marks
        \/ \E m : Follows(m) /\ marks' = Append(marks, m)
    <2>1. ASSUME NEW m \in Mark, m.kind # "block", m.level = top + 2, n > 0,
                 m.kind = "Lua" => m.keep \in {Nil, m.level - 1}
          PROVE  Follows(m)
      BY <2>1, <1>1, <1>4 DEF Follows
    <2> QED BY <2>1
  <1>10. top <= top' /\ top' <= NSlots
    BY <1>1, <1>4
  <1> QED BY <1>3, <1>5, <1>7, <1>8, <1>9, <1>10, GrowKeeps

LEMMA LocalKeeps ==
  ASSUME IInv, NEW x \in Value, Local(x)
  PROVE  IInv'
  <1>1. top + 1 <= NSlots /\ EnoughVars(1) /\ scope' = scope \o Fresh(1)
    BY UpvaluesAssumption DEF IInv, TypeInv, Local, top
  <1>2. stack' \in [Slot -> Value \cup {Blank}]
    BY DEF IInv, TypeInv, Local
  <1>3. marks' = marks /\ UNCHANGED <<open_upvalues, at, closed, ref, bound, maker, ordered>>
    BY DEF Local
  <1> QED BY <1>1, <1>2, <1>3, DeclareKeeps

LEMMA CallKeeps ==
  ASSUME IInv, MaxProtectedArgs = 0, NEW n \in 0 .. MaxArgs, NEW x \in Value,
         NEW protected \in BOOLEAN, Call(n, x, protected)
  PROVE  IInv'
  <1> DEFINE m == Lua(top + 2, IF protected THEN top + 1 + n ELSE Nil)
  <1>1. n \in Nat /\ top \in Nat /\ 1 + n \in Nat /\ 1 + n > 0
    BY UpvaluesAssumption DEF IInv, TypeInv, top
  <1>2. top + (1 + n) <= NSlots /\ EnoughVars(1 + n) /\ scope' = scope \o Fresh(1 + n)
    BY <1>1 DEF Call
  <1>3. stack' \in [Slot -> Value \cup {Blank}]
    BY DEF IInv, TypeInv, Call
  <1>4. /\ marks' = Append(marks, m) /\ m \in Mark
        /\ m.kind = "Lua" /\ m.level = top + 2 /\ m.keep \in {Nil, m.level - 1}
    <2>1. protected => n = 0
      BY <1>1 DEF Call
    <2>2. m.keep = Nil \/ m.keep = top + 1
      <3>1. CASE protected
        BY <3>1, <2>1, <1>1 DEF Lua
      <3>2. CASE ~protected
        BY <3>2 DEF Lua
      <3> QED BY <3>1, <3>2
    <2> QED BY <2>2, <1>1 DEF Call, Lua, Mark, Kind
  <1>5. UNCHANGED <<open_upvalues, at, closed, ref, bound, maker, ordered>>
    BY DEF Call
  <1> HIDE DEF m
  <1> QED BY <1>1, <1>2, <1>3, <1>4, <1>5, DeclareKeeps

LEMMA CallCKeeps == IInv /\ CallC => IInv'
  <1> SUFFICES ASSUME IInv, CallC PROVE IInv'
    OBVIOUS
  <1>1. top + 1 <= NSlots /\ EnoughVars(1) /\ scope' = scope \o Fresh(1) /\ top \in Nat
    BY UpvaluesAssumption DEF IInv, TypeInv, CallC, top
  <1>2. stack' \in [Slot -> Value \cup {Blank}]
    BY DEF IInv, TypeInv, CallC
  <1>3. /\ marks' = Append(marks, C(top + 2)) /\ C(top + 2) \in Mark
        /\ C(top + 2).kind = "C" /\ C(top + 2).level = top + 2
    BY <1>1 DEF CallC, C, Mark, Kind
  <1>4. UNCHANGED <<open_upvalues, at, closed, ref, bound, maker, ordered>>
    BY DEF CallC
  <1>5. \E m \in Mark : /\ marks' = Append(marks, m)
                        /\ m.kind # "block" /\ m.level = top + 2 /\ 1 > 0
                        /\ m.kind = "Lua" => m.keep \in {Nil, m.level - 1}
    <2>1. C(top + 2).kind # "block" /\ C(top + 2).kind # "Lua"
      BY <1>3
    <2> QED BY <1>3, <2>1
  <1> QED BY <1>1, <1>2, <1>4, <1>5, DeclareKeeps

LEMMA EnterBlockKeeps == IInv /\ EnterBlock => IInv'
  <1> SUFFICES ASSUME IInv, EnterBlock PROVE IInv'
    OBVIOUS
  <1>1. TypeInv /\ MarksInv
    BY DEF IInv, FrameInv
  <1>2. /\ scope' = scope /\ top' = top /\ top \in Nat /\ top <= NSlots /\ scope \in Seq(Var)
        /\ Len(marks) \in Nat /\ Len(marks) > 0 /\ DOMAIN marks = 1 .. Len(marks)
        /\ stack' \in [Slot -> Value \cup {Blank}]
    BY <1>1 DEF EnterBlock, TypeInv, MarksInv, top
  <1>3. marks[Len(marks)].kind # "C"
    <2> SUFFICES ASSUME marks[Len(marks)].kind = "C" PROVE FALSE
      OBVIOUS
    <2>1. Len(marks) <= caller /\ caller \in 1 .. Len(marks) /\ marks[caller].kind # "C"
      <3>1. marks[caller].kind = "Lua"
        BY DEF EnterBlock, InLua
      <3> QED BY <3>1, <1>1, <1>2, CallerIs
    <2>2. caller = Len(marks)
      <3>1. caller \in Nat /\ Len(marks) \in Nat /\ caller <= Len(marks)
        BY <2>1, <1>2
      <3> QED BY <3>1, <2>1
    <2> QED BY <2>1, <2>2
  <1>4. Follows(Block(top + 1)) /\ marks' = Append(marks, Block(top + 1))
    BY <1>2, <1>3 DEF Follows, Block, Mark, Kind, EnterBlock
  <1>5. UNCHANGED <<open_upvalues, at, closed, ref, bound, maker, ordered>>
    BY DEF EnterBlock
  <1>6. /\ top <= top' /\ top' <= NSlots /\ scope' \in Seq(Var)
        /\ \A s \in 1 .. top : scope'[s] = scope[s]
        /\ \A s \in top + 1 .. top' : scope'[s] \in Unused
        /\ \A s, r \in top + 1 .. top' : scope'[s] = scope'[r] => s = r
    BY <1>2
  <1>7. \E m : Follows(m) /\ marks' = Append(marks, m)
    BY <1>4
  <1> QED BY <1>2, <1>5, <1>6, <1>7, GrowKeeps

-----------------------------------------------------------------------------
(* Values *)

\* A step that changes what slots and upvalues hold, and nothing else.
LEMMA ContentsKeep ==
  ASSUME IInv, stack' \in [Slot -> Value \cup {Blank}], closed' \in [Upvalue -> Value \cup {Blank}],
         UNCHANGED <<marks, open_upvalues, at, ref, scope, bound, maker, ordered>>
  PROVE  IInv'
  <1>1. TypeInv'
    BY DEF IInv, TypeInv, top
  <1>2. FrameInv'
    BY DEF IInv, FrameInv, MarksInv, ListInv, FramesClosed, top
  <1>3. OrderInv'
    BY DEF IInv, OrderInv, Sorted, NamesInv, ScopeInv, top
  <1> QED BY <1>1, <1>2, <1>3 DEF IInv

LEMMA AssignKeeps ==
  ASSUME IInv, NEW s \in Slot, NEW x \in Value, Assign(s, x)
  PROVE  IInv'
  <1>1. stack' \in [Slot -> Value \cup {Blank}] /\ closed' \in [Upvalue -> Value \cup {Blank}]
    BY DEF IInv, TypeInv, Assign
  <1> QED BY <1>1, ContentsKeep DEF Assign

LEMMA UpvalueValuesKeep ==
  ASSUME IInv, NEW h \in Capture, NEW s \in Slot, GetUpvalue(h, s) \/ SetUpvalue(h, s)
  PROVE  IInv'
  <1>1. TypeInv /\ ref[h] \in Upvalue
    BY DEF IInv, TypeInv, GetUpvalue, SetUpvalue
  <1>2. at[ref[h]] \in Slot \cup {Nil}
    BY <1>1 DEF TypeInv
  <1>3. CASE GetUpvalue(h, s)
    <2>1. Deref(ref[h]) \in Value \cup {Blank}
      BY <1>1, <1>2 DEF Deref, TypeInv
    <2>2. stack' \in [Slot -> Value \cup {Blank}] /\ closed' \in [Upvalue -> Value \cup {Blank}]
      BY <2>1, <1>1, <1>3 DEF GetUpvalue, TypeInv
    <2> QED BY <2>2, <1>3, ContentsKeep DEF GetUpvalue
  <1>4. CASE SetUpvalue(h, s)
    <2>1. stack[s] \in Value \cup {Blank}
      BY <1>1 DEF TypeInv
    <2>2. stack' \in [Slot -> Value \cup {Blank}] /\ closed' \in [Upvalue -> Value \cup {Blank}]
      BY <2>1, <1>1, <1>2, <1>4 DEF SetUpvalue, TypeInv
    <2> QED BY <2>2, <1>4, ContentsKeep DEF SetUpvalue
  <1> QED BY <1>3, <1>4

LEMMA DropKeeps ==
  ASSUME IInv, NEW h \in Capture, Drop(h)
  PROVE  IInv'
  <1>1. TypeInv /\ FrameInv /\ OrderInv
    BY DEF IInv
  <1>2. /\ ref' = [ref EXCEPT ![h] = Nil] /\ bound' = [bound EXCEPT ![h] = Nil]
        /\ UNCHANGED <<stack, marks, open_upvalues, at, closed, scope, maker, ordered>>
    BY DEF Drop
  <1>3. TypeInv'
    BY <1>1, <1>2 DEF TypeInv, top
  <1>4. FrameInv'
    BY <1>1, <1>2 DEF FrameInv, MarksInv, ListInv, FramesClosed, top
  <1>5. ASSUME ordered PROVE NamesInv'
    <2>1. NamesInv
      BY <1>1, <1>5 DEF OrderInv
    <2>2. \A i \in Capture : /\ i = h => ref'[i] = Nil /\ bound'[i] = Nil
                             /\ i # h => ref'[i] = ref[i] /\ bound'[i] = bound[i]
      BY <1>1, <1>2 DEF TypeInv
    <2>3. scope' = scope /\ at' = at
      BY <1>2
    <2> QED BY <2>1, <2>2, <2>3 DEF NamesInv
  <1>6. ordered => Sorted' /\ ScopeInv'
    BY <1>1, <1>2 DEF OrderInv, Sorted, ScopeInv, top
  <1>7. OrderInv'
    BY <1>2, <1>5, <1>6 DEF OrderInv
  <1> QED BY <1>3, <1>4, <1>7 DEF IInv

-----------------------------------------------------------------------------
(* Captures *)

\* mark_upvalue marks the innermost block that has the slot, and nothing else.
LEMMA Marked ==
  ASSUME TypeInv, MarksInv, NEW s \in Nat, marks[caller].level <= s, marks' = mark_upvalue(s),
         scope' = scope
  PROVE  /\ MarksInv' /\ marks' \in Seq(Mark) /\ DOMAIN marks' = DOMAIN marks
         /\ \A i \in DOMAIN marks :
              /\ marks'[i].kind = marks[i].kind /\ marks'[i].level = marks[i].level
              /\ marks[i].has_upvalue => marks'[i].has_upvalue
              /\ marks[i].kind = "block" /\ marks[i].level <= s
                 /\ (\A j \in DOMAIN marks : i < j => s < marks[j].level)
                 => marks'[i].has_upvalue
  <1> DEFINE S == {i \in DOMAIN marks : marks[i].level <= s}
             d == Max(S)
  <1>1. /\ Len(marks) \in Nat /\ DOMAIN marks = 1 .. Len(marks) /\ caller \in S
    BY CallerIs DEF TypeInv
  <1>2. d \in S /\ \A i \in S : i <= d
    BY <1>1, Greatest
  <1> DEFINE m == [marks[d] EXCEPT !.has_upvalue = TRUE]
  <1>3. /\ d \in DOMAIN marks /\ marks[d] \in Mark /\ m \in Mark
        /\ m.kind = marks[d].kind /\ m.level = marks[d].level /\ m.keep = marks[d].keep
        /\ m.has_upvalue
    <2>1. d \in DOMAIN marks /\ marks[d] \in Mark
      BY <1>2, MarkIs
    <2> QED BY <2>1 DEF Mark
  <1>4. marks' = IF marks[d].kind = "block" THEN [marks EXCEPT ![d] = m] ELSE marks
    BY DEF mark_upvalue
  <1> HIDE DEF m, d
  <1>5. \A i, j \in DOMAIN marks : i < j => ~ j <= i
    BY <1>1
  <1>6. /\ marks' \in Seq(Mark) /\ Len(marks') = Len(marks) /\ DOMAIN marks' = DOMAIN marks
        /\ \A i \in DOMAIN marks :
             marks'[i] = IF i = d /\ marks[d].kind = "block" THEN m ELSE marks[i]
    BY <1>1, <1>3, <1>4 DEF TypeInv
  <1>7. \A i \in DOMAIN marks :
          /\ marks'[i].kind = marks[i].kind /\ marks'[i].level = marks[i].level
          /\ marks'[i].keep = marks[i].keep
          /\ marks[i].has_upvalue => marks'[i].has_upvalue
    BY <1>3, <1>6
  <1>8. MarksInv'
    <2>1. Len(marks') > 0 /\ marks'[1].kind = "C" /\ top' = top
      BY <1>1, <1>6, <1>7 DEF MarksInv, top
    <2> QED BY <2>1, <1>6, <1>7 DEF MarksInv
  <1>9. ASSUME NEW i \in DOMAIN marks, marks[i].kind = "block", marks[i].level <= s,
               \A j \in DOMAIN marks : i < j => s < marks[j].level
        PROVE  marks'[i].has_upvalue
    <2>1. i = d
      <3>1. i \in S /\ i <= d
        BY <1>2, <1>9
      <3>2. ~ i < d
        <4> SUFFICES ASSUME i < d PROVE FALSE
          OBVIOUS
        <4>1. s < marks[d].level /\ marks[d].level <= s
          BY <1>2, <1>9
        <4>2. marks[d].level \in Nat
          BY <1>3, MarkIs
        <4> QED BY <4>1, <4>2
      <3> QED BY <3>1, <3>2, <1>1, <1>3
    <2> QED BY <2>1, <1>3, <1>6, <1>9
  <1> QED BY <1>6, <1>7, <1>8, <1>9

\* In an ordered list the upvalue of a slot is found if there is one.
LEMMA FindFinds ==
  ASSUME TypeInv, ListInv, FramesClosed, Sorted, NEW s \in Slot, NEW u \in Upvalue, at[u] = s
  PROVE  Finds(u, s)
  <1> DEFINE below == {i \in DOMAIN open_upvalues : at[open_upvalues[i]] <= s}
  <1>1. /\ Len(open_upvalues) \in Nat /\ DOMAIN open_upvalues = 1 .. Len(open_upvalues)
        /\ s \in Nat /\ s # Nil
    BY UpvaluesAssumption DEF TypeInv, Slot
  <1>2. PICK j \in DOMAIN open_upvalues : open_upvalues[j] = u
    BY <1>1 DEF ListInv
  <1>3. j \in below /\ below \subseteq Nat
    BY <1>1, <1>2
  <1>4. Min(below) \in below /\ Min(below) <= j
    BY <1>3, Least
  <1>5. Stop(s) = Min(below)
    BY <1>3 DEF Stop
  <1>6. Stop(s) = j
    <2> SUFFICES ASSUME Min(below) < j PROVE FALSE
      BY <1>1, <1>2, <1>4, <1>5
    <2>1. at[open_upvalues[Min(below)]] > s /\ at[open_upvalues[Min(below)]] <= s
      BY <1>2, <1>4 DEF Sorted
    <2>2. at[open_upvalues[Min(below)]] \in Nat
      BY <1>1, <1>4, Listed
    <2> QED BY <2>1, <2>2, <1>1
  <1> QED BY <1>2, <1>6 DEF Finds

\* An upvalue that is found is open on the slot.
LEMMA FoundIs ==
  ASSUME TypeInv, ListInv, FramesClosed, NEW s \in Slot, NEW u, Finds(u, s)
  PROVE  u \in Upvalue /\ at[u] = s
  BY Listed DEF Finds, TypeInv

LEMMA ClosureKeepsFrames ==
  ASSUME IInv, NEW h \in Capture, NEW s \in Slot, NEW u \in Upvalue, Closure(h, s, u)
  PROVE  TypeInv' /\ FrameInv'
  <1>1. TypeInv /\ MarksInv /\ ListInv /\ FramesClosed /\ OrderInv
    BY DEF IInv, FrameInv
  <1>2. /\ InLua /\ s \in marks[caller].level .. top
        /\ upvalue_find(u, s)
        /\ ref' = [ref EXCEPT ![h] = u] /\ bound' = [bound EXCEPT ![h] = scope[s]]
        /\ marks' = mark_upvalue(s) /\ UNCHANGED <<stack, closed, scope>>
    BY DEF Closure, window
  <1>3. /\ caller \in DOMAIN marks /\ caller \in Nat /\ marks[caller].kind = "Lua"
        /\ \A i \in DOMAIN marks : marks[i].kind # "block" => i <= caller
        /\ marks[caller].level <= s /\ s \in Nat /\ s # Nil /\ s \in DOMAIN scope
    <2>1. /\ caller \in 1 .. Len(marks) /\ DOMAIN marks = 1 .. Len(marks)
          /\ \A i \in DOMAIN marks : marks[i].kind # "block" => i <= caller
      BY <1>1, CallerIs DEF TypeInv
    <2>2. marks[caller].kind = "Lua"
      BY <1>2 DEF InLua
    <2>3. s \in Nat /\ s >= 1 /\ s # Nil
      BY UpvaluesAssumption DEF Slot
    <2>4. marks[caller].level \in Nat /\ top \in Nat /\ DOMAIN scope = 1 .. top
      BY <2>1, <1>1, MarkIs DEF TypeInv, top
    <2> QED BY <2>1, <2>2, <2>3, <2>4, <1>2
  <1>4. /\ MarksInv' /\ marks' \in Seq(Mark) /\ DOMAIN marks' = DOMAIN marks
        /\ \A i \in DOMAIN marks :
             marks'[i].kind = marks[i].kind /\ marks'[i].level = marks[i].level
    BY <1>1, <1>2, <1>3, Marked
  <1>5. scope[s] \in Var /\ top' = top
    BY <1>1, <1>2, <1>3 DEF TypeInv, top
  <1>6. CASE UNCHANGED <<open_upvalues, at, maker, ordered>>
    <2>1. TypeInv'
      BY <1>1, <1>2, <1>4, <1>5, <1>6 DEF TypeInv
    <2>2. ListInv'
      BY <1>1, <1>6 DEF ListInv
    <2>3. FramesClosed'
      BY <1>1, <1>4, <1>6 DEF FramesClosed
    <2> QED BY <2>1, <2>2, <2>3, <1>4 DEF FrameInv
  <1>7. CASE /\ Free(u)
             /\ open_upvalues' = <<u>> \o open_upvalues
             /\ at' = [at EXCEPT ![u] = s]
             /\ maker' = [maker EXCEPT ![u] = caller]
             /\ ordered' = (ordered /\ \A w \in Upvalue : at[w] # Nil => at[w] < s)
    <2>1. /\ Len(open_upvalues) \in Nat /\ DOMAIN open_upvalues = 1 .. Len(open_upvalues)
          /\ open_upvalues \in Seq(Upvalue)
      BY <1>1 DEF TypeInv
    <2>2. /\ open_upvalues' \in Seq(Upvalue) /\ Len(open_upvalues') = Len(open_upvalues) + 1
          /\ open_upvalues'[1] = u
          /\ \A i \in 1 .. Len(open_upvalues) : open_upvalues'[i + 1] = open_upvalues[i]
      <3>1. <<u>> \in Seq(Upvalue) /\ Len(<<u>>) = 1 /\ <<u>>[1] = u
        OBVIOUS
      <3>2. /\ <<u>> \o open_upvalues \in Seq(Upvalue)
            /\ Len(<<u>> \o open_upvalues) = Len(<<u>>) + Len(open_upvalues)
            /\ \A i \in 1 .. Len(<<u>>) + Len(open_upvalues) : (<<u>> \o open_upvalues)[i] =
                 IF i <= Len(<<u>>) THEN <<u>>[i] ELSE open_upvalues[i - Len(<<u>>)]
        BY <3>1, <2>1, ConcatProperties
      <3>3. \A i \in 1 .. Len(open_upvalues) : (i + 1) - 1 = i /\ i + 1 \in 1 .. 1 + Len(open_upvalues)
        BY <2>1
      <3> QED BY <3>1, <3>2, <3>3, <2>1, <1>7
    <2>3. DOMAIN open_upvalues' = 1 .. Len(open_upvalues) + 1
      BY <2>2
    <2>4. at[u] = Nil /\ at'[u] = s /\ maker'[u] = caller
      BY <1>7, <1>1 DEF Free, TypeInv
    <2>5. \A w \in Upvalue : w # u => at'[w] = at[w] /\ maker'[w] = maker[w]
      BY <1>7, <1>1 DEF TypeInv
    <2>6. \A i \in DOMAIN open_upvalues : open_upvalues[i] # u /\ open_upvalues[i] \in Upvalue
      BY <2>1, <2>4, <1>1 DEF ListInv, TypeInv
    <2>7. \A i \in DOMAIN open_upvalues :
            maker[open_upvalues[i]] <= caller /\ maker[open_upvalues[i]] \in Nat
      <3> SUFFICES ASSUME NEW i \in DOMAIN open_upvalues
                   PROVE  maker[open_upvalues[i]] <= caller /\ maker[open_upvalues[i]] \in Nat
        OBVIOUS
      <3>1. /\ at[open_upvalues[i]] # Nil /\ open_upvalues[i] \in Upvalue
            /\ maker[open_upvalues[i]] \in Nat
        BY <2>1, <1>1, Listed, UpvaluesAssumption
      <3>2. /\ maker[open_upvalues[i]] \in DOMAIN marks
            /\ marks[maker[open_upvalues[i]]].kind = "Lua"
        BY <3>1, <1>1 DEF FramesClosed
      <3> QED BY <3>1, <3>2, <1>3
    <2>8. TypeInv'
      <3>1. ordered' \in BOOLEAN
        BY <1>7
      <3>2. at' \in [Upvalue -> Slot \cup {Nil}] /\ maker' \in [Upvalue -> Nat \cup {Nil}]
        BY <1>1, <1>3, <1>7 DEF TypeInv
      <3> QED BY <3>1, <3>2, <2>2, <1>1, <1>2, <1>4, <1>5 DEF TypeInv
    <2>9. ListInv'
      <3>1. ASSUME NEW w \in Upvalue
            PROVE  at'[w] # Nil <=> \E i \in DOMAIN open_upvalues' : open_upvalues'[i] = w
        <4>1. CASE w = u
          BY <4>1, <2>2, <2>3, <2>4, <2>1, <1>3
        <4>2. CASE w # u
          <5>1. ASSUME NEW i \in DOMAIN open_upvalues, open_upvalues[i] = w
                PROVE  \E j \in DOMAIN open_upvalues' : open_upvalues'[j] = w
            <6>1. i + 1 \in DOMAIN open_upvalues' /\ open_upvalues'[i + 1] = w
              BY <5>1, <2>1, <2>2, <2>3
            <6> QED BY <6>1
          <5>2. ASSUME NEW j \in DOMAIN open_upvalues', open_upvalues'[j] = w
                PROVE  \E i \in DOMAIN open_upvalues : open_upvalues[i] = w
            <6>1. j # 1
              BY <5>2, <4>2, <2>2
            <6>2. j - 1 \in DOMAIN open_upvalues /\ (j - 1) + 1 = j
              BY <6>1, <2>1, <2>3
            <6>3. open_upvalues[j - 1] = w
              BY <6>2, <5>2, <2>1, <2>2
            <6> QED BY <6>2, <6>3
          <5>3. at[w] # Nil <=> \E i \in DOMAIN open_upvalues : open_upvalues[i] = w
            BY <1>1 DEF ListInv
          <5> QED BY <5>1, <5>2, <5>3, <4>2, <2>5
        <4> QED BY <4>1, <4>2
      <3>2. ASSUME NEW i \in DOMAIN open_upvalues', NEW j \in DOMAIN open_upvalues', i < j
            PROVE  /\ open_upvalues'[i] # open_upvalues'[j]
                   /\ maker'[open_upvalues'[i]] >= maker'[open_upvalues'[j]]
        <4>1. /\ j - 1 \in DOMAIN open_upvalues /\ open_upvalues'[j] = open_upvalues[j - 1]
          <5>1. j - 1 \in 1 .. Len(open_upvalues) /\ (j - 1) + 1 = j
            BY <3>2, <2>1, <2>3
          <5> QED BY <5>1, <2>1, <2>2
        <4>2. /\ open_upvalues'[j] # u /\ open_upvalues'[j] \in Upvalue
              /\ maker'[open_upvalues'[j]] = maker[open_upvalues[j - 1]]
          BY <4>1, <2>5, <2>6
        <4>3. CASE i = 1
          <5>1. open_upvalues'[i] = u /\ maker'[open_upvalues'[i]] = caller
            BY <4>3, <2>2, <2>4
          <5>2. maker[open_upvalues[j - 1]] <= caller /\ maker[open_upvalues[j - 1]] \in Nat
            BY <4>1, <2>7
          <5> QED BY <5>1, <5>2, <4>2, <1>3
        <4>4. CASE i # 1
          <5>1. i - 1 \in 1 .. Len(open_upvalues) /\ (i - 1) + 1 = i /\ i - 1 < j - 1
            BY <4>4, <3>2, <2>1, <2>3
          <5>2. i - 1 \in DOMAIN open_upvalues /\ open_upvalues'[i] = open_upvalues[i - 1]
            BY <5>1, <2>1, <2>2
          <5>3. /\ open_upvalues[i - 1] # open_upvalues[j - 1]
                /\ maker[open_upvalues[i - 1]] >= maker[open_upvalues[j - 1]]
            BY <5>1, <5>2, <4>1, <1>1 DEF ListInv
          <5>4. maker'[open_upvalues'[i]] = maker[open_upvalues[i - 1]]
            BY <5>2, <2>5, <2>6
          <5> QED BY <5>2, <5>3, <5>4, <4>1, <4>2
        <4> QED BY <4>3, <4>4
      <3> QED BY <3>1, <3>2 DEF ListInv
    <2>10. FramesClosed'
      <3> SUFFICES ASSUME NEW w \in Upvalue, at'[w] # Nil
                   PROVE  /\ maker'[w] \in DOMAIN marks' /\ marks'[maker'[w]].kind = "Lua"
                          /\ marks'[maker'[w]].level <= at'[w]
        BY DEF FramesClosed
      <3>1. CASE w = u
        BY <3>1, <2>4, <1>3, <1>4
      <3>2. CASE w # u
        <4>1. at'[w] = at[w] /\ maker'[w] = maker[w]
          BY <3>2, <2>5
        <4>2. maker[w] \in DOMAIN marks /\ marks[maker[w]].kind = "Lua" /\ marks[maker[w]].level <= at[w]
          BY <4>1, <1>1 DEF FramesClosed
        <4> QED BY <4>1, <4>2, <1>4
      <3> QED BY <3>1, <3>2
    <2> QED BY <2>8, <2>9, <2>10, <1>4 DEF FrameInv
  <1> QED BY <1>2, <1>6, <1>7 DEF upvalue_find

\* In an ordered list no two upvalues are open on one slot.
LEMMA OneAtASlot ==
  ASSUME TypeInv, ListInv, Sorted, NEW u \in Upvalue, NEW w \in Upvalue,
         at[u] # Nil, at[u] = at[w]
  PROVE  u = w
  <1>1. Len(open_upvalues) \in Nat /\ DOMAIN open_upvalues = 1 .. Len(open_upvalues) /\ at[u] \in Nat
    BY DEF TypeInv, Slot
  <1>2. PICK i \in DOMAIN open_upvalues : open_upvalues[i] = u
    BY DEF ListInv
  <1>3. PICK j \in DOMAIN open_upvalues : open_upvalues[j] = w
    BY DEF ListInv
  <1>4. CASE i < j
    BY <1>1, <1>2, <1>3, <1>4 DEF Sorted
  <1>5. CASE j < i
    BY <1>1, <1>2, <1>3, <1>5 DEF Sorted
  <1>6. CASE i = j
    BY <1>2, <1>3, <1>6
  <1> QED BY <1>1, <1>4, <1>5, <1>6

LEMMA ClosureKeepsOrder ==
  ASSUME IInv, NEW h \in Capture, NEW s \in Slot, NEW u \in Upvalue, Closure(h, s, u)
  PROVE  OrderInv'
  <1> SUFFICES ASSUME ordered' PROVE Sorted' /\ NamesInv' /\ ScopeInv'
    BY DEF OrderInv
  <1>1. TypeInv /\ MarksInv /\ ListInv /\ FramesClosed
    BY DEF IInv, FrameInv
  <1>2. /\ InLua /\ s \in marks[caller].level .. top
        /\ upvalue_find(u, s)
        /\ ref' = [ref EXCEPT ![h] = u] /\ bound' = [bound EXCEPT ![h] = scope[s]]
        /\ marks' = mark_upvalue(s) /\ scope' = scope
    BY DEF Closure, window
  <1>3. ordered /\ Sorted /\ NamesInv /\ ScopeInv
    <2>1. ordered
      BY <1>2 DEF upvalue_find
    <2> QED BY <2>1 DEF IInv, OrderInv
  <1>4. /\ s \in Nat /\ s # Nil /\ s \in DOMAIN scope /\ s <= top /\ top' = top /\ top \in Nat
        /\ DOMAIN scope = 1 .. top
    <2>1. s \in Nat /\ s >= 1 /\ s # Nil
      BY UpvaluesAssumption DEF Slot
    <2>2. top \in Nat /\ DOMAIN scope = 1 .. top /\ top' = top
      BY <1>1, <1>2 DEF TypeInv, top
    <2>3. marks[caller].level \in Nat
      BY <1>1, CallerIs, MarkIs DEF TypeInv
    <2> QED BY <2>1, <2>2, <2>3, <1>2
  <1>5. scope[s] \in Var /\ scope[s] # Nil /\ u # Nil
    <2>1. scope[s] \in Var
      BY <1>1, <1>4 DEF TypeInv
    <2> QED BY <2>1, UpvaluesAssumption DEF Var
  <1>6. /\ ref'[h] = u /\ bound'[h] = scope[s]
        /\ \A i \in Capture : i # h => ref'[i] = ref[i] /\ bound'[i] = bound[i]
    BY <1>1, <1>2 DEF TypeInv
  <1>7. /\ DOMAIN marks' = DOMAIN marks
        /\ \A i \in DOMAIN marks :
             /\ marks'[i].kind = marks[i].kind /\ marks'[i].level = marks[i].level
             /\ marks[i].has_upvalue => marks'[i].has_upvalue
             /\ marks[i].kind = "block" /\ marks[i].level <= s
                /\ (\A j \in DOMAIN marks : i < j => s < marks[j].level)
                => marks'[i].has_upvalue
    <2>1. marks[caller].level <= s
      <3>1. marks[caller].level \in Nat
        BY <1>1, CallerIs, MarkIs DEF TypeInv
      <3> QED BY <3>1, <1>2, <1>4
    <2> QED BY <2>1, <1>1, <1>2, <1>4, Marked
  \* Whatever capture of the variable in slot s there is has an upvalue open on s.
  <1>8. ASSUME NEW i \in Capture, ref[i] # Nil, bound[i] = scope[s]
        PROVE  ref[i] \in Upvalue /\ at[ref[i]] = s
    <2>1. ref[i] \in Upvalue
      BY <1>8, <1>1 DEF TypeInv
    <2>2. at[ref[i]] # Nil /\ scope[at[ref[i]]] = scope[s]
      BY <1>8, <1>3, <1>4 DEF NamesInv
    <2>3. at[ref[i]] \in Slot /\ at[ref[i]] <= top
      BY <2>1, <2>2, <1>1, <1>3 DEF TypeInv, ScopeInv
    <2>4. at[ref[i]] \in DOMAIN scope
      BY <2>3, <1>4, UpvaluesAssumption DEF Slot
    <2> QED BY <2>1, <2>2, <2>4, <1>3, <1>4 DEF NamesInv
  \* What upvalue_find leaves: u is open on s and the others are as before.
  <1>9. /\ at'[u] = s
        /\ \A w \in Upvalue : w # u => at'[w] = at[w] /\ maker'[w] = maker[w]
        /\ \A i \in Capture : ref[i] # Nil => (ref[i] = u <=> bound[i] = scope[s])
        /\ Sorted'
        /\ (at[u] = s /\ maker'[u] = maker[u]) \/ maker'[u] = caller
    <2>1. CASE Finds(u, s) /\ UNCHANGED <<open_upvalues, at, maker, ordered>>
      <3>1. at[u] = s
        BY <2>1, <1>1, FoundIs
      <3>2. ASSUME NEW i \in Capture, ref[i] # Nil, bound[i] = scope[s] PROVE ref[i] = u
        <4>1. ref[i] \in Upvalue /\ at[ref[i]] = s
          BY <3>2, <1>8
        <4> QED BY <4>1, <3>1, <1>1, <1>3, <1>4, OneAtASlot
      <3>3. ASSUME NEW i \in Capture, ref[i] # Nil, ref[i] = u PROVE bound[i] = scope[s]
        BY <3>1, <3>3, <1>3, <1>4 DEF NamesInv
      <3>4. Sorted'
        BY <2>1, <1>3 DEF Sorted
      <3> QED BY <3>1, <3>2, <3>3, <3>4, <2>1
    <2>2. CASE /\ Free(u)
               /\ open_upvalues' = <<u>> \o open_upvalues
               /\ at' = [at EXCEPT ![u] = s]
               /\ maker' = [maker EXCEPT ![u] = caller]
               /\ ordered' = (ordered /\ \A w \in Upvalue : at[w] # Nil => at[w] < s)
      <3>1. /\ at'[u] = s /\ maker'[u] = caller /\ at[u] = Nil
            /\ \A w \in Upvalue : w # u => at'[w] = at[w] /\ maker'[w] = maker[w]
        BY <2>2, <1>1 DEF TypeInv, Free
      <3>2. \A w \in Upvalue : at[w] # Nil => at[w] < s
        BY <2>2
      <3>3. ASSUME NEW i \in Capture, ref[i] # Nil, bound[i] = scope[s] PROVE FALSE
        <4>1. ref[i] \in Upvalue /\ at[ref[i]] = s
          BY <3>3, <1>8
        <4> QED BY <4>1, <3>2, <1>4
      <3>4. \A i \in Capture : ref[i] # u
        BY <2>2 DEF Free
      <3>5. Sorted'
        <4>1. /\ Len(open_upvalues) \in Nat /\ DOMAIN open_upvalues = 1 .. Len(open_upvalues)
              /\ open_upvalues \in Seq(Upvalue)
          BY <1>1 DEF TypeInv
        <4>2. <<u>> \in Seq(Upvalue) /\ Len(<<u>>) = 1 /\ <<u>>[1] = u
          OBVIOUS
        <4>3. /\ open_upvalues' \in Seq(Upvalue)
              /\ Len(open_upvalues') = Len(<<u>>) + Len(open_upvalues)
              /\ \A i \in 1 .. Len(<<u>>) + Len(open_upvalues) : open_upvalues'[i] =
                   IF i <= Len(<<u>>) THEN <<u>>[i] ELSE open_upvalues[i - Len(<<u>>)]
          BY <2>2, <4>1, <4>2, ConcatProperties
        <4>4. DOMAIN open_upvalues' = 1 .. 1 + Len(open_upvalues) /\ open_upvalues'[1] = u
          BY <4>1, <4>2, <4>3
        <4>5. \A j \in DOMAIN open_upvalues' : j # 1 =>
                j - 1 \in DOMAIN open_upvalues /\ open_upvalues'[j] = open_upvalues[j - 1]
          BY <4>1, <4>2, <4>3, <4>4
        <4>6. \A i \in DOMAIN open_upvalues :
                /\ open_upvalues[i] \in Upvalue /\ open_upvalues[i] # u
                /\ at[open_upvalues[i]] # Nil
          BY <4>1, <3>1, <1>1 DEF ListInv, TypeInv
        <4> SUFFICES ASSUME NEW i \in DOMAIN open_upvalues', NEW j \in DOMAIN open_upvalues', i < j
                     PROVE  at'[open_upvalues'[i]] > at'[open_upvalues'[j]]
          BY DEF Sorted
        <4>7. j # 1 /\ i \in Nat /\ j \in Nat
          BY <4>1, <4>4
        <4>8. /\ j - 1 \in DOMAIN open_upvalues
              /\ at'[open_upvalues'[j]] = at[open_upvalues[j - 1]]
              /\ at[open_upvalues[j - 1]] < s /\ at[open_upvalues[j - 1]] \in Nat
          <5>1. j - 1 \in DOMAIN open_upvalues /\ open_upvalues'[j] = open_upvalues[j - 1]
            BY <4>5, <4>7
          <5>2. at[open_upvalues[j - 1]] \in Nat
            BY <5>1, <4>1, <1>1, Listed
          <5> QED BY <5>1, <5>2, <4>6, <3>1, <3>2
        <4>9. CASE i = 1
          BY <4>9, <4>4, <4>8, <3>1, <1>4
        <4>10. CASE i # 1
          <5>1. i - 1 \in DOMAIN open_upvalues /\ open_upvalues'[i] = open_upvalues[i - 1]
            BY <4>5, <4>10
          <5>2. i - 1 < j - 1
            BY <4>7
          <5>3. at[open_upvalues[i - 1]] > at[open_upvalues[j - 1]]
            BY <5>1, <5>2, <4>8, <1>3 DEF Sorted
          <5>4. at'[open_upvalues'[i]] = at[open_upvalues[i - 1]]
            BY <5>1, <4>6, <3>1
          <5> QED BY <5>3, <5>4, <4>8
        <4> QED BY <4>9, <4>10
      <3> QED BY <3>1, <3>3, <3>4, <3>5
    <2> QED BY <1>2, <2>1, <2>2 DEF upvalue_find
  <1>10. NamesInv'
    <2>1. \A t, r \in DOMAIN scope' : scope'[t] = scope'[r] => t = r
      BY <1>2, <1>3 DEF NamesInv
    <2>2. \A i \in Capture : ref'[i] = Nil <=> bound'[i] = Nil
      BY <1>3, <1>5, <1>6 DEF NamesInv
    <2>3. ASSUME NEW i \in Capture, ref'[i] # Nil
          PROVE  /\ at'[ref'[i]] # Nil => scope'[at'[ref'[i]]] = bound'[i]
                 /\ at'[ref'[i]] = Nil => \A t \in DOMAIN scope' : scope'[t] # bound'[i]
      <3>1. CASE ref'[i] = u
        <4>1. bound'[i] = scope[s]
          BY <3>1, <2>3, <1>6, <1>9
        <4> QED BY <4>1, <3>1, <1>2, <1>4, <1>9
      <3>2. CASE ref'[i] # u
        <4>1. i # h /\ ref'[i] = ref[i] /\ bound'[i] = bound[i]
          BY <3>2, <1>6
        <4>2. ref[i] \in Upvalue
          BY <4>1, <2>3, <1>1 DEF TypeInv
        <4>3. at'[ref[i]] = at[ref[i]]
          BY <4>1, <4>2, <3>2, <1>9
        <4> QED BY <4>1, <4>3, <2>3, <1>2, <1>3 DEF NamesInv
      <3> QED BY <3>1, <3>2
    <2>4. ASSUME NEW i \in Capture, NEW j \in Capture, ref'[i] # Nil, ref'[j] # Nil
          PROVE  ref'[i] = ref'[j] <=> bound'[i] = bound'[j]
      <3>1. CASE i = h
        BY <3>1, <2>4, <1>6, <1>9
      <3>2. CASE j = h
        BY <3>2, <2>4, <1>6, <1>9
      <3>3. CASE i # h /\ j # h
        BY <3>3, <2>4, <1>3, <1>6 DEF NamesInv
      <3> QED BY <3>1, <3>2, <3>3
    <2> QED BY <2>1, <2>2, <2>3, <2>4 DEF NamesInv
  <1>11. ScopeInv'
    <2> SUFFICES ASSUME NEW w \in Upvalue, at'[w] # Nil
                 PROVE  /\ at'[w] <= top'
                        /\ \A i \in DOMAIN marks' :
                             /\ i > maker'[w] /\ marks'[i].kind # "block"
                                  => at'[w] + 2 <= marks'[i].level
                             /\ /\ marks'[i].kind = "block" /\ marks'[i].level <= at'[w]
                                /\ \A j \in DOMAIN marks' : i < j => at'[w] < marks'[j].level
                                => marks'[i].has_upvalue
      BY DEF ScopeInv
    <2>1. CASE at'[w] = at[w] /\ maker'[w] = maker[w]
      <3>1. /\ at[w] <= top
            /\ \A i \in DOMAIN marks :
                 /\ i > maker[w] /\ marks[i].kind # "block" => at[w] + 2 <= marks[i].level
                 /\ /\ marks[i].kind = "block" /\ marks[i].level <= at[w]
                    /\ \A j \in DOMAIN marks : i < j => at[w] < marks[j].level
                    => marks[i].has_upvalue
        BY <2>1, <1>3 DEF ScopeInv
      <3> QED BY <3>1, <2>1, <1>4, <1>7
    <2>2. CASE w = u /\ maker'[u] = caller
      <3>1. ASSUME NEW i \in DOMAIN marks, marks[i].kind # "block" PROVE ~ i > caller
        <4>1. i <= caller /\ caller \in Nat /\ i \in Nat
          BY <3>1, <1>1, CallerIs DEF TypeInv
        <4> QED BY <4>1
      <3> QED BY <3>1, <2>2, <1>4, <1>7, <1>9
    <2> QED BY <2>1, <2>2, <1>9
  <1> QED BY <1>9, <1>10, <1>11

-----------------------------------------------------------------------------
(* The invariant and the properties *)

LEMMA InitialState == Init => IInv
  <1> SUFFICES ASSUME Init PROVE IInv
    OBVIOUS
  <1> USE UpvaluesAssumption DEF Init
  <1>1. /\ marks \in Seq(Mark) /\ Len(marks) = 1 /\ DOMAIN marks = {1}
        /\ marks[1].kind = "C" /\ marks[1].level = 1 /\ top = 0
    BY DEF C, Mark, Kind, top
  <1>2. TypeInv
    BY <1>1 DEF TypeInv
  <1>3. FrameInv
    BY <1>1 DEF FrameInv, MarksInv, ListInv, FramesClosed
  <1>4. OrderInv
    BY DEF OrderInv, Sorted, NamesInv, ScopeInv
  <1> QED BY <1>2, <1>3, <1>4 DEF IInv

LEMMA StepKeeps ==
  ASSUME MaxProtectedArgs = 0
  PROVE  IInv /\ [Next]_vars => IInv'
  <1> SUFFICES ASSUME IInv, [Next]_vars PROVE IInv'
    OBVIOUS
  <1>1. ASSUME NEW x \in Value, Local(x) PROVE IInv'
    BY <1>1, LocalKeeps
  <1>2. ASSUME NEW s \in Slot, NEW x \in Value, Assign(s, x) PROVE IInv'
    BY <1>2, AssignKeeps
  <1>3. CASE EnterBlock
    BY <1>3, EnterBlockKeeps
  <1>4. CASE EndBlock
    BY <1>4, LeaveBlocksKeeps DEF EndBlock
  <1>5. ASSUME NEW k \in 1 .. MaxMarks, Break(k) PROVE IInv'
    BY <1>5, LeaveBlocksKeeps DEF Break
  <1>6. ASSUME NEW h \in Capture, NEW s \in Slot, NEW u \in Upvalue, Closure(h, s, u) PROVE IInv'
    BY <1>6, ClosureKeepsFrames, ClosureKeepsOrder DEF IInv
  <1>7. ASSUME NEW h \in Capture, NEW s \in Slot, GetUpvalue(h, s) \/ SetUpvalue(h, s) PROVE IInv'
    BY <1>7, UpvalueValuesKeep
  <1>8. ASSUME NEW n \in 0 .. MaxArgs, NEW x \in Value, NEW protected \in BOOLEAN,
               Call(n, x, protected)
        PROVE  IInv'
    BY <1>8, CallKeeps
  <1>9. CASE CallC
    BY <1>9, CallCKeeps
  <1>10. CASE Return
    BY <1>10, ReturnKeeps
  <1>11. ASSUME NEW n \in 0 .. NSlots, PopC(n) PROVE IInv'
    BY <1>11, PopCKeeps
  <1>12. CASE ReturnC
    BY <1>12, ReturnCKeeps
  <1>13. CASE Throw
    BY <1>13, ThrowKeeps
  <1>14. ASSUME NEW h \in Capture, Drop(h) PROVE IInv'
    BY <1>14, DropKeeps
  <1>15. CASE UNCHANGED vars
    <2>1. /\ stack' \in [Slot -> Value \cup {Blank}] /\ closed' \in [Upvalue -> Value \cup {Blank}]
          /\ UNCHANGED <<marks, open_upvalues, at, ref, scope, bound, maker, ordered>>
      BY <1>15 DEF vars, IInv, TypeInv
    <2> QED BY <2>1, ContentsKeep
  <1> QED BY <1>1, <1>2, <1>3, <1>4, <1>5, <1>6, <1>7, <1>8, <1>9, <1>10, <1>11, <1>12,
             <1>13, <1>14, <1>15 DEF Next

\* As many upvalues are open as the list is long.
LEMMA ListLength ==
  ASSUME TypeInv, ListInv
  PROVE  Cardinality({u \in Upvalue : at[u] # Nil}) = Len(open_upvalues)
  <1> DEFINE T == {u \in Upvalue : at[u] # Nil}
             n == Len(open_upvalues)
  <1>1. n \in Nat /\ DOMAIN open_upvalues = 1 .. n
    BY DEF TypeInv
  <1>2. open_upvalues \in [1 .. n -> T]
    <2>1. \A i \in 1 .. n : open_upvalues[i] \in T
      BY <1>1 DEF TypeInv, ListInv
    <2> QED BY <2>1, <1>1 DEF TypeInv
  <1>3. \A i, j \in 1 .. n : open_upvalues[i] = open_upvalues[j] => i = j
    <2>1. \A i, j \in 1 .. n : i < j => open_upvalues[i] # open_upvalues[j]
      BY <1>1 DEF ListInv
    <2>2. \A i, j \in 1 .. n : i < j \/ j < i \/ i = j
      BY <1>1
    <2> QED BY <2>1, <2>2
  <1>4. \A u \in T : \E i \in 1 .. n : open_upvalues[i] = u
    BY <1>1 DEF ListInv
  <1>5. open_upvalues \in Bijection(1 .. n, T)
    BY <1>2, <1>3, <1>4 DEF Bijection, Injection, Surjection, IsInjective
  <1>6. ExistsBijection(1 .. n, T)
    BY <1>5 DEF ExistsBijection
  <1> QED BY <1>1, <1>6, FS_CountingElements

LEMMA Meanings == IInv => OnePerVariable /\ FramesClosed
  <1> SUFFICES ASSUME IInv PROVE OnePerVariable /\ FramesClosed
    OBVIOUS
  <1>1. TypeInv /\ ListInv /\ FramesClosed /\ OrderInv
    BY DEF IInv, FrameInv
  <1>2. {open_upvalues[i] : i \in DOMAIN open_upvalues} = {u \in Upvalue : at[u] # Nil}
    BY <1>1 DEF ListInv, TypeInv
  <1>3. marks \in Seq([kind : Kind, level : Nat, has_upvalue : BOOLEAN, keep : Nat \cup {Nil}])
    <2> DEFINE T == [kind : Kind, level : Nat, has_upvalue : BOOLEAN, keep : Nat \cup {Nil}]
    <2>1. Mark \subseteq T
      BY DEF Mark
    <2> HIDE DEF T
    <2>2. marks \in Seq(T)
      BY <2>1, <1>1 DEF TypeInv
    <2> QED BY <2>2 DEF T
  <1>4. TypeOK
    BY <1>1, <1>2, <1>3, ListLength DEF TypeOK, TypeInv
  <1>5. ASSUME ordered
        PROVE  /\ Sorted
               /\ \A h \in Capture : ref[h] # Nil /\ at[ref[h]] # Nil =>
                    at[ref[h]] <= top /\ scope[at[ref[h]]] = bound[h]
               /\ \A h, i \in Capture : ref[h] # Nil /\ ref[i] # Nil =>
                    (ref[h] = ref[i] <=> bound[h] = bound[i])
    <2>1. Sorted /\ NamesInv /\ ScopeInv
      BY <1>1, <1>5 DEF OrderInv
    <2>2. \A h \in Capture : ref[h] # Nil => ref[h] \in Upvalue
      BY <1>1 DEF TypeInv
    <2> QED BY <2>1, <2>2 DEF NamesInv, ScopeInv
  <1> QED BY <1>1, <1>4, <1>5 DEF OnePerVariable

\* The invariant holds of every program whose protected calls have no arguments
\* (MaxProtectedArgs): lulu_pcall would leave upvalues on them open.
THEOREM InductiveInvariant ==
  ASSUME MaxProtectedArgs = 0
  PROVE  Spec => []IInv
  <1>1. IInv /\ [Next]_vars => IInv'
    BY StepKeeps
  <1> QED BY <1>1, InitialState, PTL DEF Spec

\* A call that has returned, or was unwound by an error, has left none of its
\* upvalues open, in whatever order the list is (OP_RETURN, set_error_object).
THEOREM CallsCloseTheirs ==
  ASSUME MaxProtectedArgs = 0
  PROVE  Spec => []FramesClosed
  BY InductiveInvariant, Meanings, PTL

\* In a program whose closures capture in ascending order the captures of a
\* variable share one upvalue, and no others have it (upvalue_find, OP_CLOSE).
THEOREM UpvaluesAreVariables ==
  ASSUME MaxProtectedArgs = 0
  PROVE  Spec => []OnePerVariable
  BY InductiveInvariant, Meanings, PTL
-----------------------------------------------------------------------------
(* Slots and upvalues implement cells *)

\* Content is what the stack has for a variable in scope, what the upvalue of
\* its captures has, and nothing for a name without a variable.
Contents ==
  ordered =>
    /\ \A s \in DOMAIN scope : Content(scope[s]) = stack[s]
    /\ \A h \in Capture : ref[h] # Nil => Content(bound[h]) = Deref(ref[h])
    /\ \A v \in Var \ Cell!Named(scope, bound) : Content(v) = Blank

LEMMA ContentsRight == IInv => Contents
  <1> SUFFICES ASSUME IInv, ordered
               PROVE  /\ \A s \in DOMAIN scope : Content(scope[s]) = stack[s]
                      /\ \A h \in Capture : ref[h] # Nil => Content(bound[h]) = Deref(ref[h])
                      /\ \A v \in Var \ Cell!Named(scope, bound) : Content(v) = Blank
    BY DEF Contents
  <1>1. TypeInv /\ NamesInv /\ ScopeInv
    BY DEF IInv, OrderInv
  <1>2. ASSUME NEW s \in DOMAIN scope PROVE Content(scope[s]) = stack[s]
    <2>1. (CHOOSE t \in DOMAIN scope : scope[t] = scope[s]) = s
      BY <1>1 DEF NamesInv
    <2> QED BY <2>1 DEF Content
  <1>3. ASSUME NEW h \in Capture, ref[h] # Nil PROVE Content(bound[h]) = Deref(ref[h])
    <2>1. ref[h] \in Upvalue /\ bound[h] # Nil
      BY <1>1, <1>3 DEF TypeInv, NamesInv
    <2>2. CASE at[ref[h]] # Nil
      <3>1. at[ref[h]] \in DOMAIN scope /\ scope[at[ref[h]]] = bound[h]
        BY <1>1, <1>3, <2>1, <2>2 DEF TypeInv, NamesInv, ScopeInv, Slot, top
      <3> QED BY <3>1, <2>2, <1>2 DEF Deref
    <2>3. CASE at[ref[h]] = Nil
      <3>1. ~ \E s \in DOMAIN scope : scope[s] = bound[h]
        BY <1>1, <1>3, <2>3 DEF NamesInv
      <3>2. PICK g \in Capture : /\ bound[g] = bound[h]
                                /\ g = CHOOSE i \in Capture : bound[i] = bound[h]
        OBVIOUS
      <3>3. ref[g] # Nil /\ ref[g] = ref[h]
        BY <1>1, <1>3, <2>1, <3>2 DEF NamesInv
      <3> QED BY <3>1, <3>2, <3>3 DEF Content
    <2> QED BY <2>2, <2>3
  <1>4. ASSUME NEW v \in Var \ Cell!Named(scope, bound) PROVE Content(v) = Blank
    <2>1. v # Nil
      BY UpvaluesAssumption DEF Var
    <2>2. ~ (\E s \in DOMAIN scope : scope[s] = v) /\ ~ (\E h \in Capture : bound[h] = v)
      BY <2>1 DEF Cell!Named
    <2> QED BY <2>2 DEF Content
  <1> QED BY <1>2, <1>3, <1>4

\* A variable keeps its content when its slot stays and keeps its own, or one of
\* its captures does.
LEMMA ContentKept ==
  ASSUME IInv, IInv', ordered, ordered', NEW v,
         \/ \E s \in DOMAIN scope \cap DOMAIN scope' :
              scope[s] = v /\ scope'[s] = v /\ stack'[s] = stack[s]
         \/ \E h \in Capture :
              /\ ref[h] # Nil /\ ref'[h] = ref[h] /\ bound[h] = v /\ bound'[h] = v
              /\ Deref(ref[h])' = Deref(ref[h])
  PROVE  Content(v)' = Content(v)
  <1>1. Contents
    BY ContentsRight
  <1>2. IInv' => Contents'
    BY ContentsRight, PTL
  <1>3. ASSUME NEW s \in DOMAIN scope \cap DOMAIN scope',
               scope[s] = v, scope'[s] = v, stack'[s] = stack[s]
        PROVE  Content(v)' = Content(v)
    BY <1>1, <1>2, <1>3 DEF Contents
  <1>4. ASSUME NEW h \in Capture, ref[h] # Nil, ref'[h] = ref[h], bound[h] = v, bound'[h] = v,
               Deref(ref[h])' = Deref(ref[h])
        PROVE  Content(v)' = Content(v)
    <2>1. Content(v) = Deref(ref[h])
      BY <1>1, <1>4 DEF Contents
    <2>2. Content(v)' = Deref(ref[h])'
      BY <1>2, <1>4 DEF Contents
    <2> QED BY <2>1, <2>2, <1>4
  <1> QED BY <1>3, <1>4

\* What nothing names any more is blank, the rest keeps its content.
LEMMA CellsKept ==
  ASSUME IInv, IInv', ordered, ordered',
         \A v \in Cell!Named(scope', bound') : Content(v)' = Content(v)
  PROVE  [v \in Var |-> Content(v)]' = Cell!Keep(scope', bound')
  <1>1. IInv' => Contents'
    BY ContentsRight, PTL
  <1>2. \A v \in Var \ Cell!Named(scope', bound') : Content(v)' = Blank
    BY <1>1 DEF Contents, Cell!Named
  <1>3. \A v \in Var : Content(v)' = IF v \in Cell!Named(scope', bound') THEN Content(v) ELSE Blank
    BY <1>2
  <1> QED BY <1>3 DEF Cell!Keep

\* Variables go out of scope, and what their upvalues take along is the same.
LEMMA LeaveCells ==
  ASSUME IInv, IInv', ordered, ordered', NEW n \in 0 .. top,
         scope' = SubSeq(scope, 1, n), UNCHANGED <<stack, ref, bound>>,
         \A u \in Upvalue : Deref(u)' = Deref(u)
  PROVE  Cell!Next
  <1>1. TypeInv /\ (ordered => NamesInv) /\ top \in Nat
    BY DEF IInv, OrderInv, TypeInv, top
  <1>2. \A s \in DOMAIN scope' : s \in DOMAIN scope /\ scope'[s] = scope[s]
    BY <1>1 DEF TypeInv, top
  <1>3. ASSUME NEW v \in Cell!Named(scope', bound') PROVE Content(v)' = Content(v)
    <2>1. ASSUME NEW s \in DOMAIN scope', v = scope'[s] PROVE Content(v)' = Content(v)
      BY <2>1, <1>2, ContentKept
    <2>2. ASSUME NEW h \in Capture, v = bound'[h], v # Nil PROVE Content(v)' = Content(v)
      <3>1. ref[h] # Nil /\ ref[h] \in Upvalue
        BY <1>1, <2>2 DEF NamesInv, TypeInv
      <3> QED BY <3>1, <2>2, ContentKept
    <2> QED BY <2>1, <2>2 DEF Cell!Named
  <1>4. [v \in Var |-> Content(v)]' = Cell!Keep(scope', bound')
    BY <1>3, CellsKept
  <1>5. Cell!Leave(n)
    BY <1>4 DEF Cell!Leave
  <1> QED BY <1>5 DEF Cell!Next, top

\* An upvalue takes its value along when it is closed.
LEMMA CloseKeepsValues ==
  ASSUME TypeInv, ListInv, FramesClosed, NEW level \in Nat, upvalue_close(level), stack' = stack
  PROVE  \A u \in Upvalue : Deref(u)' = Deref(u)
  <1>1. PICK n \in 0 .. Len(open_upvalues) :
           /\ at' = [u \in Upvalue |-> IF \E i \in 1 .. n : open_upvalues[i] = u THEN Nil ELSE at[u]]
           /\ closed' = [u \in Upvalue |-> IF \E i \in 1 .. n : open_upvalues[i] = u
                                           THEN stack[at[u]] ELSE closed[u]]
    BY CloseTakes
  <1>2. \A i \in 1 .. n : i \in 1 .. Len(open_upvalues)
    BY DEF TypeInv
  <1>3. \A i \in 1 .. n : at[open_upvalues[i]] # Nil
    BY <1>2, Listed, UpvaluesAssumption
  <1> QED BY <1>1, <1>3 DEF Deref

LEMMA LeaveBlocksCells ==
  ASSUME IInv, IInv', ordered, ordered', NEW k, LeaveBlocks(k)
  PROVE  Cell!Next
  <1> DEFINE level == marks[Len(marks) - k + 1].level
  <1>1. TypeInv /\ MarksInv /\ ListInv /\ FramesClosed /\ top \in Nat
    BY DEF IInv, FrameInv, TypeInv, top
  <1>2. Len(marks) - k + 1 \in DOMAIN marks
    <2>1. caller \in 1 .. Len(marks) /\ Len(marks) \in Nat /\ k \in 1 .. Len(marks) - caller
      BY <1>1, CallerIs DEF TypeInv, LeaveBlocks
    <2> QED BY <2>1, <1>1 DEF TypeInv
  <1>3. level \in Nat \ {0} /\ level - 1 \in 0 .. top
    <2>1. level \in Nat \ {0} /\ level <= top + 1
      BY <1>1, <1>2, MarkIs DEF MarksInv
    <2> QED BY <2>1, <1>1
  <1>4. /\ scope' = SubSeq(scope, 1, level - 1) /\ UNCHANGED <<stack, ref, bound>>
        /\ upvalue_close(level) \/ UNCHANGED <<at, closed>>
    BY DEF LeaveBlocks
  <1> HIDE DEF level
  <1>5. \A u \in Upvalue : Deref(u)' = Deref(u)
    <2>1. CASE upvalue_close(level)
      BY <2>1, <1>1, <1>3, <1>4, CloseKeepsValues
    <2>2. CASE UNCHANGED <<at, closed>>
      BY <2>2, <1>4 DEF Deref
    <2> QED BY <2>1, <2>2, <1>4
  <1> QED BY <1>3, <1>4, <1>5, LeaveCells

\* A call goes, with its function's slot or without.
LEMMA UnwindCells ==
  ASSUME IInv, IInv', ordered, ordered', NEW f \in 2 .. Len(marks), marks[f].kind # "block",
         NEW t \in {marks[f].level - 2, marks[f].level - 1}, scope' = SubSeq(scope, 1, t),
         upvalue_close(marks[f].level) \/ UNCHANGED <<at, closed>>,
         UNCHANGED <<stack, ref, bound>>
  PROVE  Cell!Next
  <1>1. TypeInv /\ MarksInv /\ ListInv /\ FramesClosed /\ top \in Nat
    BY DEF IInv, FrameInv, TypeInv, top
  <1>2. Len(marks) \in Nat /\ DOMAIN marks = 1 .. Len(marks) /\ f \in DOMAIN marks /\ 1 \in DOMAIN marks
    BY <1>1 DEF TypeInv
  <1>3. marks[f].level \in Nat /\ marks[f].level > 1 /\ marks[f].level <= top + 1
    <2>1. marks[f].level \in Nat /\ marks[1].level \in Nat \ {0}
      BY <1>1, <1>2, MarkIs
    <2>2. marks[1].level < marks[f].level
      BY <1>1, <1>2 DEF MarksInv
    <2> QED BY <2>1, <2>2, <1>1, <1>2 DEF MarksInv
  <1>4. t \in 0 .. top
    BY <1>1, <1>3
  <1>5. \A u \in Upvalue : Deref(u)' = Deref(u)
    <2>1. CASE upvalue_close(marks[f].level)
      BY <2>1, <1>1, <1>3, CloseKeepsValues
    <2>2. CASE UNCHANGED <<at, closed>>
      BY <2>2 DEF Deref
    <2> QED BY <2>1, <2>2
  <1> QED BY <1>4, <1>5, LeaveCells

LEMMA ReturnCells ==
  ASSUME IInv, IInv', ordered, ordered', Return \/ ReturnC
  PROVE  Cell!Next
  <1>1. /\ caller \in 1 .. Len(marks) /\ marks[caller].kind # "block" /\ caller > 1
        /\ Len(marks) \in Nat
    BY CallerIs DEF IInv, FrameInv, Return, ReturnC, TypeInv
  <1>2. caller \in 2 .. Len(marks)
    BY <1>1
  <1>3. CASE Return
    BY <1>1, <1>2, <1>3, UnwindCells DEF Return
  <1>4. CASE ReturnC
    BY <1>1, <1>2, <1>4, UnwindCells DEF ReturnC
  <1> QED BY <1>3, <1>4

LEMMA ThrowCells ==
  ASSUME IInv, IInv', ordered, ordered', Throw
  PROVE  Cell!Next
  <1>1. TypeInv /\ MarksInv
    BY DEF IInv, FrameInv
  <1>2. Len(marks) \in Nat /\ DOMAIN marks = 1 .. Len(marks)
    BY <1>1 DEF TypeInv
  <1>3. PICK f \in Handlers :
          /\ upvalue_close(marks[f].keep + 1)
          /\ scope' = SubSeq(scope, 1, marks[f].keep)
          /\ UNCHANGED <<stack, ref, bound>>
    <2>1. Handlers # {} /\ Handlers \subseteq 1 .. Len(marks)
      BY <1>2 DEF Throw, Handlers
    <2>2. Max(Handlers) \in Handlers
      BY <2>1, <1>2, Greatest
    <2> QED BY <2>2 DEF Throw
  <1>4. /\ f \in 1 .. Len(marks) /\ marks[f].kind = "Lua" /\ marks[f].keep = marks[f].level - 1
        /\ f # 1
    BY <1>1, <1>2, <1>3 DEF Handlers, MarksInv
  <1>5. f \in 2 .. Len(marks) /\ marks[f].keep + 1 = marks[f].level
    <2>1. marks[f].level \in Nat
      BY <1>1, <1>2, <1>4, MarkIs
    <2> QED BY <2>1, <1>2, <1>4
  <1> QED BY <1>3, <1>4, <1>5, UnwindCells

LEMMA PopCCells ==
  ASSUME IInv, IInv', ordered, ordered', NEW n \in 0 .. NSlots, PopC(n)
  PROVE  Cell!Next
  <1>1. n \in 0 .. top
    <2>1. caller \in DOMAIN marks
      BY CallerIs DEF IInv, FrameInv, TypeInv
    <2>2. marks[caller].level \in Nat \ {0} /\ top \in Nat
      BY <2>1, MarkIs DEF IInv, TypeInv, top
    <2> QED BY <2>2 DEF PopC
  <1>2. /\ scope' = SubSeq(scope, 1, n) /\ UNCHANGED <<stack, ref, bound>>
        /\ \A u \in Upvalue : Deref(u)' = Deref(u)
    BY DEF PopC, Deref
  <1> QED BY <1>1, <1>2, LeaveCells

\* Variables come into scope on slots of their own.
LEMMA DeclareCells ==
  ASSUME IInv, IInv', ordered, ordered', NEW n \in 1 .. MaxArgs + 1, EnoughVars(n),
         scope' = scope \o Fresh(n), \A s \in 1 .. top : stack'[s] = stack[s],
         UNCHANGED <<at, closed, ref, bound>>
  PROVE  Cell!Next
  <1>1. /\ TypeInv /\ NamesInv /\ ScopeInv /\ NamesInv' /\ TypeInv' /\ n \in Nat
        /\ scope \in Seq(Var) /\ top = Len(scope) /\ DOMAIN scope = 1 .. top /\ top \in Nat
    BY UpvaluesAssumption DEF IInv, OrderInv, TypeInv, top
  <1>2. /\ Fresh(n) \in Seq(Var) /\ Len(Fresh(n)) = n
        /\ \A i \in 1 .. n : Fresh(n)[i] \in Unused
    BY <1>1, FreshNames
  <1> DEFINE new == Fresh(n)
  <1> HIDE DEF new
  <1>3. /\ scope' \in Seq(Var) /\ Len(scope') = top + n
        /\ \A s \in 1 .. top + n : scope'[s] = IF s <= top THEN scope[s] ELSE new[s - top]
    <2>1. new \in Seq(Var) /\ Len(new) = n /\ scope' = scope \o new
      BY <1>2 DEF new
    <2>2. /\ scope \o new \in Seq(Var)
          /\ Len(scope \o new) = Len(scope) + Len(new)
          /\ \A i \in 1 .. Len(scope) + Len(new) : (scope \o new)[i] =
               IF i <= Len(scope) THEN scope[i] ELSE new[i - Len(scope)]
      BY <2>1, <1>1, ConcatProperties
    <2> QED BY <1>1, <2>1, <2>2
  <1>4. \A s \in 1 .. top : s \in DOMAIN scope' /\ scope'[s] = scope[s]
    BY <1>1, <1>3
  <1>5. \A s \in top + 1 .. top + n : scope'[s] \notin Cell!Named(scope, bound)
    <2> SUFFICES ASSUME NEW s \in top + 1 .. top + n PROVE scope'[s] \notin Cell!Named(scope, bound)
      OBVIOUS
    <2>1. s - top \in 1 .. n /\ scope'[s] = new[s - top]
      BY <1>1, <1>3
    <2>2. scope'[s] \in Unused
      BY <1>2, <2>1 DEF new
    <2> QED BY <2>2 DEF Unused, Cell!Named
  <1>6. SubSeq(scope', 1, Len(scope)) = scope
    <2>1. Len(SubSeq(scope', 1, top)) = top /\ SubSeq(scope', 1, top) \in Seq(Var)
      BY <1>1, <1>3
    <2>2. \A i \in 1 .. top : SubSeq(scope', 1, top)[i] = scope[i]
      BY <1>1, <1>3, <1>4
    <2> QED BY <1>1, <2>1, <2>2, SeqEqual
  <1>7. \A i, j \in DOMAIN scope' : i # j => scope'[i] # scope'[j]
    BY <1>1 DEF NamesInv
  <1>8. \A u \in Upvalue : Deref(u)' = Deref(u)
    BY <1>1 DEF Deref, ScopeInv, TypeInv, Slot
  <1>9. ASSUME NEW v \in Cell!Named(scope, bound) PROVE Content(v)' = Content(v)
    <2>1. ASSUME NEW s \in DOMAIN scope, v = scope[s] PROVE Content(v)' = Content(v)
      BY <2>1, <1>1, <1>4, ContentKept
    <2>2. ASSUME NEW h \in Capture, v = bound[h], v # Nil PROVE Content(v)' = Content(v)
      <3>1. ref[h] # Nil /\ ref[h] \in Upvalue
        BY <1>1, <2>2 DEF NamesInv, TypeInv
      <3> QED BY <3>1, <2>2, <1>8, ContentKept
    <2> QED BY <2>1, <2>2 DEF Cell!Named
  <1>10. \A v \in Var \ Cell!Named(scope', bound) : Content(v)' = Blank
    <2>1. IInv' => Contents'
      BY ContentsRight, PTL
    <2> QED BY <2>1 DEF Contents, Cell!Named
  <1>11. Cell!Named(scope, bound) \subseteq Var
    BY <1>1 DEF Cell!Named, TypeInv
  <1>12. Cell!Declare(n)
    BY <1>1, <1>3, <1>5, <1>6, <1>7, <1>9, <1>10, <1>11 DEF Cell!Declare
  <1> QED BY <1>12 DEF Cell!Next

LEMMA CallCells ==
  ASSUME IInv, IInv', ordered, ordered',
         \/ \E x \in Value : Local(x)
         \/ \E n \in 0 .. MaxArgs, x \in Value, protected \in BOOLEAN : Call(n, x, protected)
         \/ CallC
  PROVE  Cell!Next
  <1> USE UpvaluesAssumption
  <1>1. TypeInv /\ top \in Nat /\ 1 \in 1 .. MaxArgs + 1
    BY DEF IInv, TypeInv, top
  <1>2. ASSUME NEW x \in Value, Local(x) PROVE Cell!Next
    <2>1. /\ EnoughVars(1) /\ scope' = scope \o Fresh(1) /\ UNCHANGED <<at, closed, ref, bound>>
          /\ \A s \in 1 .. top : stack'[s] = stack[s]
      BY <1>1, <1>2 DEF Local, TypeInv, Slot
    <2> QED BY <2>1, <1>1, DeclareCells
  <1>3. ASSUME NEW n \in 0 .. MaxArgs, NEW x \in Value, NEW protected \in BOOLEAN,
               Call(n, x, protected)
        PROVE  Cell!Next
    <2>1. /\ EnoughVars(1 + n) /\ scope' = scope \o Fresh(1 + n)
          /\ UNCHANGED <<at, closed, ref, bound>>
          /\ \A s \in 1 .. top : stack'[s] = stack[s]
      BY <1>1, <1>3 DEF Call, TypeInv, Slot
    <2>2. 1 + n \in 1 .. MaxArgs + 1
      OBVIOUS
    <2> QED BY <2>1, <2>2, DeclareCells
  <1>4. CASE CallC
    <2>1. /\ EnoughVars(1) /\ scope' = scope \o Fresh(1) /\ UNCHANGED <<at, closed, ref, bound>>
          /\ \A s \in 1 .. top : stack'[s] = stack[s]
      BY <1>1, <1>4 DEF CallC, TypeInv, Slot
    <2> QED BY <2>1, <1>1, DeclareCells
  <1> QED BY <1>2, <1>3, <1>4

\* A value put into the slot of a variable in scope is seen by it, and by its
\* captures, and by no other.
LEMMA SlotAssigned ==
  ASSUME IInv, IInv', ordered, ordered', NEW s \in DOMAIN scope, NEW x,
         stack' = [stack EXCEPT ![s] = x], UNCHANGED <<at, closed, ref, bound, scope>>
  PROVE  [v \in Var |-> Content(v)]' = [[v \in Var |-> Content(v)] EXCEPT ![scope[s]] = x]
  <1>1. /\ TypeInv /\ NamesInv /\ ScopeInv /\ Contents /\ Contents'
        /\ s \in Slot /\ scope[s] \in Var
    <2>1. IInv' => Contents'
      BY ContentsRight, PTL
    <2> QED BY <2>1, ContentsRight, UpvaluesAssumption DEF IInv, OrderInv, TypeInv, Slot, top
  <1>2. Content(scope[s])' = x
    BY <1>1 DEF Contents, TypeInv
  <1>3. ASSUME NEW v \in Var, v # scope[s] PROVE Content(v)' = Content(v)
    <2>1. CASE v \notin Cell!Named(scope, bound)
      BY <2>1, <1>1 DEF Contents, Cell!Named
    <2>2. ASSUME NEW t \in DOMAIN scope, v = scope[t] PROVE Content(v)' = Content(v)
      <3>1. stack'[t] = stack[t]
        BY <2>2, <1>1, <1>3 DEF TypeInv
      <3> QED BY <2>2, <3>1, ContentKept
    <2>3. ASSUME NEW h \in Capture, v = bound[h], v # Nil PROVE Content(v)' = Content(v)
      <3>1. ref[h] # Nil /\ ref[h] \in Upvalue
        BY <1>1, <2>3 DEF NamesInv, TypeInv
      <3>2. at[ref[h]] # s
        BY <1>1, <1>3, <2>3, <3>1, UpvaluesAssumption DEF NamesInv, Slot
      <3>3. Deref(ref[h])' = Deref(ref[h])
        BY <3>2, <1>1 DEF Deref, TypeInv
      <3> QED BY <3>1, <3>3, <2>3, ContentKept
    <2> QED BY <2>1, <2>2, <2>3 DEF Cell!Named
  <1> QED BY <1>2, <1>3

LEMMA WindowInScope ==
  ASSUME IInv, NEW s \in window
  PROVE  s \in DOMAIN scope
  <1>1. caller \in DOMAIN marks
    BY CallerIs DEF IInv, FrameInv, TypeInv
  <1>2. marks[caller].level \in Nat \ {0} /\ top \in Nat
    BY <1>1, MarkIs DEF IInv, TypeInv, top
  <1> QED BY <1>2 DEF window, IInv, TypeInv, top

LEMMA AssignCells ==
  ASSUME IInv, IInv', ordered, ordered', NEW s \in Slot, NEW x \in Value, Assign(s, x)
  PROVE  Cell!Next
  <1>1. s \in DOMAIN scope
    BY WindowInScope DEF Assign
  <1>2. [v \in Var |-> Content(v)]' = [[v \in Var |-> Content(v)] EXCEPT ![scope[s]] = x]
    BY <1>1, SlotAssigned DEF Assign
  <1>3. Cell!Assign(s, x)
    BY <1>2 DEF Cell!Assign, Assign
  <1> QED BY <1>1, <1>3 DEF Cell!Next

LEMMA GetUpvalueCells ==
  ASSUME IInv, IInv', ordered, ordered', NEW h \in Capture, NEW s \in Slot, GetUpvalue(h, s)
  PROVE  Cell!Next
  <1>1. s \in DOMAIN scope
    BY WindowInScope DEF GetUpvalue
  <1>2. bound[h] \in Var /\ bound[h] # Nil /\ Content(bound[h]) = Deref(ref[h])
    BY ContentsRight DEF Contents, IInv, OrderInv, NamesInv, TypeInv, GetUpvalue
  <1>3. [v \in Var |-> Content(v)]' = [[v \in Var |-> Content(v)] EXCEPT ![scope[s]] = Deref(ref[h])]
    BY <1>1, SlotAssigned DEF GetUpvalue
  <1>4. Cell!Get(h, s)
    BY <1>2, <1>3 DEF Cell!Get, Cell!Assign, GetUpvalue
  <1> QED BY <1>1, <1>4 DEF Cell!Next

\* Through an open upvalue the variable's slot is assigned; through a closed one
\* the cell that only captures name.
LEMMA SetUpvalueCells ==
  ASSUME IInv, IInv', ordered, ordered', NEW h \in Capture, NEW s \in Slot, SetUpvalue(h, s)
  PROVE  Cell!Next
  <1>1. s \in DOMAIN scope /\ scope[s] \in Var
    BY WindowInScope DEF SetUpvalue, IInv, TypeInv
  <1>2. TypeInv /\ NamesInv /\ ScopeInv /\ Contents /\ Contents'
    <2>1. IInv' => Contents'
      BY ContentsRight, PTL
    <2> QED BY <2>1, ContentsRight DEF IInv, OrderInv
  <1>3. ref[h] # Nil /\ ref[h] \in Upvalue /\ bound[h] \in Var /\ bound[h] # Nil
    BY <1>2 DEF NamesInv, TypeInv, SetUpvalue
  <1>4. Content(scope[s]) = stack[s]
    BY <1>1, <1>2 DEF Contents
  <1>5. UNCHANGED <<at, ref, scope, bound>>
    BY DEF SetUpvalue
  <1>6. [v \in Var |-> Content(v)]' = [[v \in Var |-> Content(v)] EXCEPT ![bound[h]] = stack[s]]
    <2>1. CASE at[ref[h]] # Nil
      <3>1. at[ref[h]] \in DOMAIN scope /\ scope[at[ref[h]]] = bound[h]
        BY <1>2, <1>3, <2>1 DEF TypeInv, NamesInv, ScopeInv, Slot, top
      <3>2. stack' = [stack EXCEPT ![at[ref[h]]] = stack[s]] /\ UNCHANGED closed
        BY <2>1 DEF SetUpvalue
      <3>3. [v \in Var |-> Content(v)]'
              = [[v \in Var |-> Content(v)] EXCEPT ![scope[at[ref[h]]]] = stack[s]]
        BY <3>1, <3>2, <1>5, SlotAssigned
      <3> QED BY <3>1, <3>3
    <2>2. CASE at[ref[h]] = Nil
      <3>1. closed' = [closed EXCEPT ![ref[h]] = stack[s]] /\ UNCHANGED stack
        BY <2>2 DEF SetUpvalue
      <3>2. Content(bound[h])' = stack[s]
        BY <1>2, <1>3, <1>5, <2>2, <3>1 DEF Contents, Deref, TypeInv
      <3>3. ASSUME NEW v \in Var, v # bound[h] PROVE Content(v)' = Content(v)
        <4>1. CASE v \notin Cell!Named(scope, bound)
          BY <4>1, <1>2, <1>5 DEF Contents, Cell!Named
        <4>2. ASSUME NEW t \in DOMAIN scope, v = scope[t] PROVE Content(v)' = Content(v)
          BY <4>2, <3>1, <1>5, ContentKept
        <4>3. ASSUME NEW g \in Capture, v = bound[g], v # Nil PROVE Content(v)' = Content(v)
          <5>1. ref[g] # Nil /\ ref[g] # ref[h]
            BY <1>2, <1>3, <3>3, <4>3 DEF NamesInv
          <5>2. Deref(ref[g])' = Deref(ref[g])
            BY <5>1, <3>1, <1>2, <1>5 DEF Deref, TypeInv
          <5> QED BY <5>1, <5>2, <4>3, <1>5, ContentKept
        <4> QED BY <4>1, <4>2, <4>3 DEF Cell!Named
      <3> QED BY <3>2, <3>3, <1>5
    <2> QED BY <2>1, <2>2
  <1>7. Cell!Set(h, s)
    BY <1>1, <1>3, <1>4, <1>5, <1>6 DEF Cell!Set
  <1> QED BY <1>1, <1>7 DEF Cell!Next

\* A capture names its variable; an upvalue that nothing has is no content.
LEMMA ClosureCells ==
  ASSUME IInv, IInv', ordered, ordered',
         NEW h \in Capture, NEW s \in Slot, NEW u \in Upvalue, Closure(h, s, u)
  PROVE  Cell!Next
  <1>1. s \in DOMAIN scope /\ TypeInv /\ NamesInv
    BY WindowInScope DEF Closure, IInv, OrderInv
  <1>2. /\ bound' = [bound EXCEPT ![h] = scope[s]] /\ UNCHANGED <<stack, closed, scope>>
        /\ \A g \in Capture : g # h => ref'[g] = ref[g] /\ bound'[g] = bound[g]
    BY <1>1 DEF Closure, TypeInv
  <1>3. \A g \in Capture : ref[g] # Nil => Deref(ref[g])' = Deref(ref[g]) \/ g = h
    <2> SUFFICES ASSUME NEW g \in Capture, ref[g] # Nil, g # h
                 PROVE  Deref(ref[g])' = Deref(ref[g])
      OBVIOUS
    <2>1. at'[ref[g]] = at[ref[g]]
      BY <1>1 DEF Closure, upvalue_find, Free, TypeInv
    <2> QED BY <2>1, <1>2 DEF Deref
  <1>4. ASSUME NEW v \in Cell!Named(scope', bound') PROVE Content(v)' = Content(v)
    <2>1. ASSUME NEW t \in DOMAIN scope, v = scope[t] PROVE Content(v)' = Content(v)
      BY <2>1, <1>2, ContentKept
    <2>2. ASSUME NEW g \in Capture, v = bound'[g], v # Nil, g # h PROVE Content(v)' = Content(v)
      <3>1. ref[g] # Nil /\ bound[g] = v /\ ref'[g] = ref[g]
        BY <1>1, <1>2, <2>2 DEF NamesInv
      <3>2. Deref(ref[g])' = Deref(ref[g])
        BY <3>1, <1>3, <2>2
      <3> QED BY <3>1, <3>2, <2>2, ContentKept
    <2>3. bound'[h] = scope[s]
      BY <1>1, <1>2 DEF TypeInv
    <2> QED BY <2>1, <2>2, <2>3, <1>1, <1>2 DEF Cell!Named
  <1>5. [v \in Var |-> Content(v)]' = Cell!Keep(scope', bound')
    BY <1>4, CellsKept
  <1>6. Cell!Bind(h, s)
    BY <1>2, <1>5 DEF Cell!Bind
  <1> QED BY <1>1, <1>6 DEF Cell!Next

LEMMA DropCells ==
  ASSUME IInv, IInv', ordered, ordered', NEW h \in Capture, Drop(h)
  PROVE  Cell!Next
  <1>1. TypeInv /\ NamesInv
    BY DEF IInv, OrderInv
  <1>2. /\ bound' = [bound EXCEPT ![h] = Nil] /\ UNCHANGED <<stack, closed, at, scope>>
        /\ \A g \in Capture : g # h => ref'[g] = ref[g] /\ bound'[g] = bound[g]
        /\ bound'[h] = Nil
    BY <1>1 DEF Drop, TypeInv
  <1>3. ASSUME NEW v \in Cell!Named(scope', bound') PROVE Content(v)' = Content(v)
    <2>1. ASSUME NEW t \in DOMAIN scope, v = scope[t] PROVE Content(v)' = Content(v)
      BY <2>1, <1>2, ContentKept
    <2>2. ASSUME NEW g \in Capture, v = bound'[g], v # Nil PROVE Content(v)' = Content(v)
      <3>1. g # h /\ ref[g] # Nil /\ bound[g] = v /\ ref'[g] = ref[g]
        BY <1>1, <1>2, <2>2 DEF NamesInv
      <3>2. Deref(ref[g])' = Deref(ref[g])
        BY <3>1, <1>2 DEF Deref
      <3> QED BY <3>1, <3>2, <2>2, ContentKept
    <2> QED BY <2>1, <2>2, <1>2 DEF Cell!Named
  <1>4. [v \in Var |-> Content(v)]' = Cell!Keep(scope', bound')
    BY <1>3, CellsKept
  <1>5. Cell!Unbind(h)
    BY <1>2, <1>4 DEF Cell!Unbind
  <1> QED BY <1>5 DEF Cell!Next

\* Once closures have captured out of order a program has.
LEMMA OrderedBefore ==
  ASSUME IInv, [Next]_vars, ordered'
  PROVE  ordered
  <1>1. CASE UNCHANGED vars
    BY <1>1 DEF vars
  <1>2. CASE \E h \in Capture, s \in Slot, u \in Upvalue : Closure(h, s, u)
    BY <1>2 DEF Closure, upvalue_find
  <1>3. CASE Next /\ ~ \E h \in Capture, s \in Slot, u \in Upvalue : Closure(h, s, u)
    <2>1. ordered' = ordered
      BY <1>3, Zenon DEF Next, Local, Assign, EnterBlock, EndBlock, Break, LeaveBlocks, GetUpvalue,
        SetUpvalue, Call, CallC, Return, PopC, ReturnC, Throw, Drop
    <2> QED BY <2>1
  <1> QED BY <1>1, <1>2, <1>3

LEMMA StepCells ==
  ASSUME IInv, IInv', [Next]_vars, ordered'
  PROVE  [Cell!Next]_(Cell!vars)
  <1>0. ordered
    BY OrderedBefore
  <1>1. ASSUME UNCHANGED <<stack, at, closed, ref, scope, bound>> PROVE UNCHANGED Cell!vars
    BY <1>1 DEF Cell!vars, Content, Deref
  <1>2. ASSUME NEW s \in Slot, NEW x \in Value, Assign(s, x) PROVE Cell!Next
    BY <1>0, <1>2, AssignCells
  <1>3. CASE EnterBlock
    BY <1>1, <1>3 DEF EnterBlock
  <1>4. CASE EndBlock
    BY <1>0, <1>4, LeaveBlocksCells DEF EndBlock
  <1>5. ASSUME NEW k \in 1 .. MaxMarks, Break(k) PROVE Cell!Next
    BY <1>0, <1>5, LeaveBlocksCells DEF Break
  <1>6. ASSUME NEW h \in Capture, NEW s \in Slot, NEW u \in Upvalue, Closure(h, s, u) PROVE Cell!Next
    BY <1>0, <1>6, ClosureCells
  <1>7. ASSUME NEW h \in Capture, NEW s \in Slot, GetUpvalue(h, s) \/ SetUpvalue(h, s) PROVE Cell!Next
    BY <1>0, <1>7, GetUpvalueCells, SetUpvalueCells
  <1>8. CASE \/ \E x \in Value : Local(x)
             \/ \E n \in 0 .. MaxArgs, x \in Value, protected \in BOOLEAN : Call(n, x, protected)
             \/ CallC
    BY <1>0, <1>8, CallCells
  <1>9. CASE Return \/ ReturnC
    BY <1>0, <1>9, ReturnCells
  <1>10. ASSUME NEW n \in 0 .. NSlots, PopC(n) PROVE Cell!Next
    BY <1>0, <1>10, PopCCells
  <1>11. CASE Throw
    BY <1>0, <1>11, ThrowCells
  <1>12. ASSUME NEW h \in Capture, Drop(h) PROVE Cell!Next
    BY <1>0, <1>12, DropCells
  <1>13. CASE UNCHANGED vars
    BY <1>1, <1>13 DEF vars
  <1> QED BY <1>2, <1>3, <1>4, <1>5, <1>6, <1>7, <1>8, <1>9, <1>10, <1>11, <1>12, <1>13 DEF Next

\* As long as closures capture in ascending order, the stack and the upvalues
\* are cells: every step is a step of Cells or changes none.
THEOREM UpvaluesImplementCells ==
  ASSUME MaxProtectedArgs = 0
  PROVE  Spec => ImplementsCells
  <1>1. Init => Cell!Init
    <2> SUFFICES ASSUME Init PROVE Cell!Init
      OBVIOUS
    <2>1. ordered /\ IInv
      BY InitialState DEF Init
    <2>2. \A v \in Var : v \notin Cell!Named(scope, bound)
      BY DEF Init, Cell!Named
    <2>3. \A v \in Var : Content(v) = Blank
      BY <2>1, <2>2, ContentsRight DEF Contents
    <2> QED BY <2>3 DEF Init, Cell!Init
  <1>2. IInv /\ IInv' /\ [Next]_vars => [ordered' => [Cell!Next]_(Cell!vars)]_vars
    BY StepCells
  <1> QED BY <1>1, <1>2, InductiveInvariant, PTL DEF Spec, ImplementsCells
=============================================================================

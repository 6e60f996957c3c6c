------------------------------ MODULE LuaTable ------------------------------
(***************************************************************************)
(* One Lua table as table.cpp keeps it: an array part for the keys 1..n    *)
(* and a hash part with open addressing for all the others, both resized   *)
(* when the hash part is full.  The program assigns and reads elements and *)
(* walks the table with next.                                              *)
(*                                                                         *)
(* An assignment is a table_set, which may rehash the table: table_resize  *)
(* then inserts what the old parts held, each pair with a table_set of its *)
(* own that may rehash in turn.  resizes is the stack of their locals, and *)
(* each step is a table_set or a turn of a loop of table_resize.           *)
(***************************************************************************)
EXTENDS Sizes, Integers, Sequences, FiniteSets

CONSTANTS
  Index,     \* the integer keys
  Name,      \* the other keys
  Value,     \* what the program stores besides nil
  Stored,    \* Stored[k]: what it stores under k, a bound
  Nil,
  hash,      \* hash[k]: the hash of key k
  ARRAY_MIN, \* TABLE_ARRAY_MIN_SIZE, 4
  HASH_MIN,  \* TABLE_HASH_MIN_SIZE, 2
  CROWD,     \* a larger hash part is never filled beyond three quarters, 8
  INDEX_BITS,\* the width of an array index, 32
  MAX_INDEX, \* the largest index that table_array_count counts, 2^25
  Presize,   \* the sizes <<n_hash, n_array>> of OP_NEW_TABLE
  MaxArray,  \* bounds: the sizes of the two parts,
  MaxHash,
  MaxRehash, \* the rehashes in one assignment, a bound of the C stack,
  Walked     \* and the keys of the tables that are walked

Key == Index \cup Name

\* Larger integers are not counted by a rehash, and still larger ones are the
\* same array index as a smaller one: no key is one.
ASSUME TableAssumption ==
  /\ Nil \notin Key \cup Value
  /\ hash \in [Key -> Nat]
  /\ Stored \in [Key -> SUBSET Value]
  /\ INDEX_BITS \in Nat \ {0}
  /\ MAX_INDEX \in Nat /\ MAX_INDEX < Pow2[INDEX_BITS - 1]
  /\ Index \subseteq 1..MAX_INDEX
  /\ {ARRAY_MIN, HASH_MIN, CROWD} \subseteq Nat /\ HASH_MIN > 1
  /\ Presize \subseteq Nat \X Nat

VARIABLES
  map,     \* history: what was last assigned to each key
  t,       \* the table: array, entries, count
  call,    \* the table_set that runs, its key and the value its caller stores;
           \* Empty when none does
  resizes, \* the table_resize calls that run, the innermost last
  rehashes,\* history: how many rehashes the running assignment made
  phase,   \* of the traversal: idle, walk, done, error (Invalid key to 'next')
           \* or hung, when find_next probes forever; UNDEFINED after a step
           \* that has no defined behaviour
  cursor,  \* its control variable
  seen,    \* history: the keys it returned
  twice,   \* history: it returned a key again
  stayed,  \* history: the keys that had a value all the time
  calm     \* history: no assignment rehashed the table meanwhile

walking == <<cursor, seen, twice, stayed>>
vars == <<map, t, call, resizes, rehashes, phase, walking, calm>>

\* The least element of a set of numbers.
Least(S) == CHOOSE i \in S : \A j \in S : i <= j

-----------------------------------------------------------------------------
(* Searching *)

Entry == [key : Key \cup {Nil}, value : Value \cup {Nil}]
Empty == [key |-> Nil, value |-> Nil]

\* EMPTY_ENTRY_SLICE, the hash part of a table that has none.  No hash part
\* that was allocated has one entry only.
EMPTY_ENTRIES == <<Empty>>
Hashed(tab) == tab.entries # EMPTY_ENTRIES

\* The key as an array index, cut to INDEX_BITS bits; -1 if it is none.
array_index(k) ==
  LET low == k % Pow2[INDEX_BITS]
  IN  IF k \notin Index THEN -1
      ELSE IF low < Pow2[INDEX_BITS - 1] THEN low ELSE low - Pow2[INDEX_BITS]

InArray(tab, k) == array_index(k) \in 1..Len(tab.array)

\* The places find_entry looks at: rightward from start, then the left side.
Probes(n, start) == [j \in 1..n |-> ((start + j - 1) % n) + 1]

\* The turn in which a search for k ends: at k or at an entry without key.
Ends(entries, k, start) ==
  {j \in 1..Len(entries) :
     entries[Probes(Len(entries), start)[j]].key \in {k, Nil}}

\* Where k is in entries, or where it may be put; 0 stands for &EMPTY_ENTRY.
\* A nil key with a value would be a tombstone: nothing makes one.
find_entry(entries, k, start) ==
  LET ends == Ends(entries, k, start)
  IN  IF ends = {} THEN 0 ELSE Probes(Len(entries), start)[Least(ends)]

table_get_entry(tab, k) ==
  IF Hashed(tab)
  THEN find_entry(tab.entries, k, hash[k] % Len(tab.entries))
  ELSE 0

table_hash_get(tab, k) ==
  LET at == table_get_entry(tab, k)
  IN  IF at = 0 THEN Nil ELSE tab.entries[at].value

table_get(tab, k) ==
  IF InArray(tab, k) THEN tab.array[array_index(k)] ELSE table_hash_get(tab, k)

\* How many of n entries may be in use.
Capacity(n) == IF n > CROWD THEN (n * 3) \div 4 ELSE n

table_is_full(tab) == tab.count + 1 > Capacity(Len(tab.entries))

-----------------------------------------------------------------------------
(* Sizes for a rehash *)

Live(array) == {i \in DOMAIN array : array[i] # Nil}

\* The entries whose keys could be in the array part, those without a value
\* included.
HashedIndices(tab) ==
  {e \in DOMAIN tab.entries : array_index(tab.entries[e].key) > 0}

\* The sum of index_ranges[0..bit] after table_array_count,
\* table_hash_count_array and count_index.
CountUpTo(tab, k, bit) ==
  LET limit == Pow2[bit]
      Counts(i) == i > 0 /\ mem_ceil_log2(i) <= bit
  IN  Cardinality({i \in Live(tab.array) : i <= limit})
      + Cardinality({e \in HashedIndices(tab) : Counts(array_index(tab.entries[e].key))})
      + IF Counts(array_index(k)) THEN 1 ELSE 0

\* Mutant: no room for k itself.
RehashSizes_Mutant_without_k(tab, k) ==
  LET n_live  == Cardinality(Live(tab.array))
      n_total == n_live + (IF Hashed(tab) THEN Len(tab.entries) ELSE 0)
      n_array == n_live + Cardinality(HashedIndices(tab))
                 + IF array_index(k) > 0 THEN 1 ELSE 0
      acc     == [b \in 0..n_array |-> CountUpTo(tab, k, b)]
      size    == table_array_compute_size(acc, n_array)
  IN  [n_hash |-> n_total - size.active, n_array |-> size.optimal]

\* Mutant: k is counted as an index twice.
RehashSizes_Mutant_k_twice(tab, k) ==
  LET n_live  == Cardinality(Live(tab.array))
      n_total == n_live + (IF Hashed(tab) THEN Len(tab.entries) ELSE 0) + 1
      Again(b) == IF CountUpTo(tab, k, b) > CountUpTo(tab, Nil, b) THEN 1 ELSE 0
      n_array == n_live + Cardinality(HashedIndices(tab))
                 + IF array_index(k) > 0 THEN 2 ELSE 0
      acc     == [b \in 0..n_array |-> CountUpTo(tab, k, b) + Again(b)]
      size    == table_array_compute_size(acc, n_array)
  IN  [n_hash |-> n_total - size.active, n_array |-> size.optimal]

\* The sizes table_rehash asks for to make room for k.  Every entry counts, in
\* use or not.
RehashSizes(tab, k) ==
  LET n_live  == Cardinality(Live(tab.array))
      n_total == n_live + (IF Hashed(tab) THEN Len(tab.entries) ELSE 0) + 1
      n_array == n_live + Cardinality(HashedIndices(tab))
                 + IF array_index(k) > 0 THEN 1 ELSE 0
      acc     == [b \in 0..n_array |-> CountUpTo(tab, k, b)]
      size    == table_array_compute_size(acc, n_array)
  IN  [n_hash |-> n_total - size.active, n_array |-> size.optimal]

-----------------------------------------------------------------------------
(* Resizing and assigning *)

table_next_size(n, min) == mem_next_pow2(IF n > min THEN n ELSE min)

\* Mutant: the count of the old entries stays.
table_hash_resize_Mutant_count(tab, n) ==
  IF n = 0 THEN [tab EXCEPT !.entries = EMPTY_ENTRIES, !.count = 0]
  ELSE [tab EXCEPT !.entries = [i \in 1..table_next_size(n, HASH_MIN) |-> Empty]]

table_hash_resize(tab, n) ==
  IF n = 0 THEN [tab EXCEPT !.entries = EMPTY_ENTRIES, !.count = 0]
  ELSE [tab EXCEPT !.entries = [i \in 1..table_next_size(n, HASH_MIN) |-> Empty],
                   !.count = 0]

table_array_resize(tab, n) ==
  LET last == Len(tab.array)
  IN  [tab EXCEPT !.array = [i \in 1..table_next_size(n, ARRAY_MIN) |->
                               IF i <= last THEN tab.array[i] ELSE Nil]]

\* The array part is to lose elements.
Shrinks(tab, n_array) == n_array < Len(tab.array) /\ n_array > ARRAY_MIN

\* table_resize up to its first loop: the array part grows first, or loses
\* those of its elements that will be moved; the hash part is empty.
Emptied(tab, n_hash, n_array) ==
  LET grown == IF n_array > Len(tab.array) THEN table_array_resize(tab, n_array)
               ELSE tab
      empty == table_hash_resize(grown, n_hash)
  IN  IF Shrinks(tab, n_array)
      THEN [empty EXCEPT !.array = [i \in 1..n_array |-> tab.array[i]]]
      ELSE empty

\* *table_set(L, t, k) needs no rehash.  A full hash part is rehashed although
\* k may be in it already, and then k is looked for again.
HasRoom(tab, k) ==
  InArray(tab, k) \/ (~table_is_full(tab) /\ table_get_entry(tab, k) # 0)

\* What the caller of table_set stores there.
Put(tab, e) ==
  LET at == table_get_entry(tab, e.key)
  IN  IF InArray(tab, e.key)
      THEN [tab EXCEPT !.array[array_index(e.key)] = e.value]
      ELSE [tab EXCEPT
              !.entries[at] = e,
              !.count = IF tab.entries[at] = Empty THEN @ + 1 ELSE @]

\* Mutant: the elements of the array are counted, holes or not.
table_len_Mutant_counts(tab) == Cardinality(Live(tab.array))

\* #t, counted from the front of the array and on into the hash part.
table_len(tab) ==
  LET holes == {i \in DOMAIN tab.array : tab.array[i] = Nil}
      Gap(n) == n + 1 \notin Index \/ table_hash_get(tab, n + 1) = Nil
      n == Len(tab.array)
  IN  IF holes # {} THEN Least(holes) - 1
      ELSE IF Hashed(tab)
      THEN CHOOSE m \in n..(n + Cardinality(Index)) :
             Gap(m) /\ \A l \in n..(m - 1) : ~Gap(l)
      ELSE n

-----------------------------------------------------------------------------
(* Traversal *)

\* The position after k among the elements of the array and the entries;
\* 0 when k is Nil.
find_next(tab, k) ==
  LET n == Len(tab.entries)
      ends == Ends(tab.entries, k, hash[k] % n)
      at == Probes(n, hash[k] % n)[Least(ends)]
  IN  IF k = Nil THEN [is |-> "index", at |-> 0]
      ELSE IF InArray(tab, k) THEN [is |-> "index", at |-> array_index(k)]
      ELSE IF ends = {} THEN [is |-> "hung"]
      ELSE IF tab.entries[at].key = Nil THEN [is |-> "error"]
      ELSE [is |-> "index", at |-> Len(tab.array) + at]

\* The key at a position: an array element that is not nil or an entry whose
\* key is not nil, whatever its value.
KeyAt(tab, p) ==
  LET n == Len(tab.array)
  IN  IF p > n THEN tab.entries[p - n].key
      ELSE IF tab.array[p] # Nil THEN p ELSE Nil

\* Mutant: the position the traversal stands at is not skipped.
Remaining_Mutant_again(tab, at) ==
  {p \in 1..(Len(tab.array) + Len(tab.entries)) : p >= at /\ KeyAt(tab, p) # Nil}

\* What table_next may find after a position; it returns the first.
Remaining(tab, at) ==
  {p \in 1..(Len(tab.array) + Len(tab.entries)) : p > at /\ KeyAt(tab, p) # Nil}

-----------------------------------------------------------------------------
(* The program's operations *)

NewTable == [array |-> <<>>, entries |-> EMPTY_ENTRIES, count |-> 0]

\* No operation on the table runs.
Ready == call = Empty /\ resizes = <<>> /\ phase \notin {"hung", "UNDEFINED"}

\* The table has these keys only, with or without a value.
Within(keys) ==
  /\ Live(t.array) \subseteq keys
  /\ {t.entries[i].key : i \in DOMAIN t.entries} \subseteq keys \cup {Nil}

HasValue(tab) == {k \in Key : table_get(tab, k) # Nil}

\* table_new
Init ==
  /\ \E size \in Presize : t = Emptied(NewTable, size[1], size[2])
  /\ map = [k \in Key |-> Nil]
  /\ call = Empty /\ resizes = <<>> /\ rehashes = 0
  /\ phase = "idle" /\ cursor = Nil
  /\ seen = {} /\ twice = FALSE /\ stayed = {} /\ calm = TRUE

\* OP_SET_TABLE on a table without metatable, or rawset, calls table_set.
Assign(k, v) ==
  /\ Ready
  /\ phase # "idle" => k \in Walked   \* a bound
  /\ map' = [map EXCEPT ![k] = v]
  /\ call' = [key |-> k, value |-> v]
  /\ stayed' = IF v = Nil THEN stayed \ {k} ELSE stayed
  /\ UNCHANGED <<t, resizes, rehashes, phase, cursor, seen, twice, calm>>

\* A generic for loop over pairs(t) starts.
StartPairs ==
  /\ Ready
  /\ Within(Walked)   \* a bound
  /\ phase' = "walk" /\ cursor' = Nil
  /\ seen' = {} /\ twice' = FALSE /\ stayed' = HasValue(t) /\ calm' = TRUE
  /\ UNCHANGED <<map, t, call, resizes, rehashes>>

\* The loop goes on with the key it got last (table_next).
NextPair ==
  LET from == find_next(t, cursor)
      rest == Remaining(t, from.at)
  IN  /\ Ready /\ phase = "walk"
      /\ IF from.is # "index"
         THEN phase' = from.is /\ UNCHANGED <<cursor, seen, twice>>
         ELSE IF rest = {}
         THEN phase' = "done" /\ cursor' = Nil /\ UNCHANGED <<seen, twice>>
         ELSE /\ cursor' = KeyAt(t, Least(rest))
              /\ seen' = seen \cup {cursor'}
              /\ twice' = (twice \/ cursor' \in seen)
              /\ UNCHANGED phase
      /\ UNCHANGED <<map, t, call, resizes, rehashes, stayed, calm>>

\* next(t, k) outside a loop, with any key: only a failure matters here.
NextOf(k) ==
  LET from == find_next(t, k)
  IN  /\ Ready /\ phase # "walk"
      /\ from.is # "index"
      /\ Within(Walked)   \* a bound
      /\ phase' = from.is /\ calm' = FALSE
      /\ UNCHANGED <<map, t, call, resizes, rehashes, walking>>

-----------------------------------------------------------------------------
(* The steps of an assignment *)

\* table_set finds an element or entry for its key, and its caller stores.
Store ==
  /\ call # Empty /\ HasRoom(t, call.key)
  /\ t' = Put(t, call) /\ call' = Empty
  /\ rehashes' = IF resizes = <<>> THEN 0 ELSE rehashes
  /\ UNCHANGED <<map, resizes, phase, walking, calm>>

\* A table_resize that moves elements out of its array has a pointer to it,
\* which must not be reallocated.
Moving == {f \in DOMAIN resizes : resizes[f].loop = "array"}

\* table_set finds none, and table_rehash calls table_resize.  The locals of
\* table_resize: what the old parts hold (old_array only if it is to be moved),
\* the sizes, the loop it is in and how far it got; and the table_set to repeat.
\* nth is history: which rehash of the assignment this is.
Rehash ==
  LET sizes   == RehashSizes(t, call.key)
      shrinks == Shrinks(t, sizes.n_array)
  IN  /\ call # Empty /\ ~HasRoom(t, call.key)
      /\ rehashes < MaxRehash   \* a bound
      /\ t' = Emptied(t, sizes.n_hash, sizes.n_array)
      /\ Len(t'.array) <= MaxArray /\ Len(t'.entries) <= MaxHash   \* bounds
      /\ resizes' = Append(resizes,
           [old_array |-> IF shrinks THEN t.array ELSE <<>>,
            old_entries |-> t.entries,
            n_hash |-> sizes.n_hash, n_array |-> sizes.n_array,
            loop |-> IF shrinks THEN "array" ELSE "entries",
            i |-> IF shrinks THEN sizes.n_array ELSE 0,
            call |-> call, nth |-> rehashes + 1])
      /\ call' = Empty /\ rehashes' = rehashes + 1 /\ calm' = FALSE
      /\ phase' = IF Moving # {} /\ Len(t'.array) # Len(t.array)
                  THEN "UNDEFINED" ELSE phase
      /\ UNCHANGED <<map, walking>>

\* The innermost table_resize goes on.
Innermost == resizes[Len(resizes)]
Resizing(loop) ==
  call = Empty /\ resizes # <<>> /\ phase # "UNDEFINED" /\ Innermost.loop = loop

\* Mutant: the vanishing elements of the array are not moved to the hash part.
Vanishing_Mutant_dropped(f) == {}

\* The elements its first loop has still to move, the entries its second loop
\* has still to insert anew.
Vanishing(f) == {i \in Live(f.old_array) : i > f.i}
Waiting(f) == {i \in DOMAIN f.old_entries : i > f.i /\ f.old_entries[i].value # Nil}

\* A turn of the first loop: table_set_integer.
MoveElement ==
  LET i == Least(Vanishing(Innermost))
  IN  /\ Resizing("array") /\ Vanishing(Innermost) # {}
      /\ call' = [key |-> i, value |-> Innermost.old_array[i]]
      /\ resizes' = [resizes EXCEPT ![Len(resizes)].i = i]
      /\ UNCHANGED <<map, t, rehashes, phase, walking, calm>>

\* The array part is cut.  Its length was already; nothing is allocated.
CutArray ==
  /\ Resizing("array") /\ Vanishing(Innermost) = {}
  /\ t' = table_array_resize(t, Innermost.n_array)
  /\ resizes' = [resizes EXCEPT ![Len(resizes)] =
                   [@ EXCEPT !.loop = "entries", !.i = 0, !.old_array = <<>>]]
  /\ UNCHANGED <<map, call, rehashes, phase, walking, calm>>

\* A turn of the second loop, which may move a pair to the array part.
InsertEntry ==
  LET i == Least(Waiting(Innermost))
  IN  /\ Resizing("entries") /\ Waiting(Innermost) # {}
      /\ call' = Innermost.old_entries[i]
      /\ resizes' = [resizes EXCEPT ![Len(resizes)].i = i]
      /\ UNCHANGED <<map, t, rehashes, phase, walking, calm>>

\* table_resize and table_rehash return, and k is looked for again.
Return ==
  /\ Resizing("entries") /\ Waiting(Innermost) = {}
  /\ call' = Innermost.call
  /\ resizes' = SubSeq(resizes, 1, Len(resizes) - 1)
  /\ UNCHANGED <<map, t, rehashes, phase, walking, calm>>

\* The program assigns only.
AssignNext ==
  \/ \E k \in Key : \E v \in Stored[k] \cup {Nil} : Assign(k, v)
  \/ Store
  \/ Rehash
  \/ MoveElement
  \/ CutArray
  \/ InsertEntry
  \/ Return

Assignments == Init /\ [][AssignNext]_vars

Next ==
  \/ AssignNext
  \/ StartPairs
  \/ NextPair
  \/ \E k \in Key : NextOf(k)

Spec == Init /\ [][Next]_vars

-----------------------------------------------------------------------------
(* Properties *)

\* Types, and the shape every operation relies on: every key where a search
\* for it ends, no key in the hash part that the array part would answer for,
\* and a count that is that of the entries in use.
TypeOK ==
  /\ t.array \in Seq(Value \cup {Nil}) /\ t.entries \in Seq(Entry)
  /\ t.count = Cardinality({i \in DOMAIN t.entries : t.entries[i] # Empty})
  /\ \A i \in DOMAIN t.entries : LET k == t.entries[i].key IN
       k # Nil => ~InArray(t, k) /\ table_get_entry(t, k) = i
  /\ call \in Entry
  /\ phase \in {"idle", "walk", "done", "error", "hung", "UNDEFINED"}
  /\ cursor \in Key \cup {Nil}
  /\ seen \subseteq Key /\ stayed \subseteq Key
  /\ {twice, calm} \subseteq BOOLEAN

\* The table is the dictionary it promises to be: whatever moves between the
\* two parts in a rehash, reading any key gives what was last assigned to it
\* (table_get, table_set, table_resize).
ReadsBack == Ready => \A k \in Key : table_get(t, k) = map[k]

\* #t is a border, t[#t] has a value and t[#t + 1] has none, even where the
\* run of elements goes on from the array part into the hash part (table_len).
LenIsBorder ==
  LET n == table_len(t)
  IN  /\ n > 0 => table_get(t, n) # Nil
      /\ n + 1 \in Index => table_get(t, n + 1) = Nil

\* A traversal during which no assignment rehashed the table returns no key
\* twice, misses no key that kept a value, and comes to an end: it neither
\* loses its place nor searches forever (find_next, table_next).
TraversalExact ==
  calm =>
    /\ ~twice
    /\ phase \notin {"error", "hung"}
    /\ phase = "done" => stayed \subseteq seen

\* A rehash makes room for the pairs it moves, so that nothing is allocated
\* while only C variables of table_resize refer to them (a collection would
\* free them), and for the key it was started for: it gets the entries that
\* were counted, unless that many entries may not all be in use or the size
\* was rounded down (table_rehash, table_resize).
RoomAsAsked ==
  /\ resizes # <<>> /\ Innermost.nth = rehashes
  /\ Innermost.n_hash <= Capacity(Len(t.entries))
  => /\ call # Empty => HasRoom(t, call.key)
     /\ Resizing("entries") /\ Waiting(Innermost) = {}
          => HasRoom(t, Innermost.call.key)

\* Be that as it may, an assignment finds room in the end and does not rehash
\* forever (table_hash_set).
RoomAfterRehash ==
  call # Empty /\ rehashes = MaxRehash => HasRoom(t, call.key)

\* A table_resize that cuts the array part moves the elements beyond the cut out
\* of it; the rehashes this brings about do not reallocate it, or the elements
\* would be lost (table_resize).
ArrayStays == phase # "UNDEFINED"

=============================================================================

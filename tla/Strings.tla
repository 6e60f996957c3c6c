------------------------------- MODULE Strings -------------------------------
(***************************************************************************)
(* Interned strings and the memory they take: string.cpp keeps every       *)
(* string once, in a table of chains that doubles when it is full; mem.cpp *)
(* counts the bytes of every block and starts a collection when the count  *)
(* passes a threshold, in the middle of whatever operation allocates; the  *)
(* allocator of the host program may refuse; lulu_gc (api.cpp) pauses and  *)
(* resumes collections by that threshold.  The buffer in which strings are *)
(* put together (Builder over Dynamic) grows under the same rules.         *)
(***************************************************************************)
EXTENDS Integers, FiniteSets

CONSTANTS
  Text,         \* the contents a string can have
  FixedText,    \* of the reserved words, never collected
  Object,       \* the memory of the strings
  Nil,
  hash,         \* hash_string
  STRING_SIZE,  \* the size of a string, in slots of the table of chains
  INIT_SLOTS,   \* the size of that table in a new state, 32
  MIN_CAP,      \* the least capacity of a dynamic array, 8
  USIZE_MAX,    \* 2^w - 3, where usize has w bits
  MaxSlots,     \* bounds: the size of the table,
  MaxLen,       \* the length of the buffer
  MaxRefusals   \* and how often the allocator refuses

ASSUME StringsAssumption ==
  /\ hash \in [Text -> Nat]
  /\ INIT_SLOTS \in Nat \ {0}
  /\ STRING_SIZE \in Nat
  /\ MIN_CAP \in Nat
  /\ USIZE_MAX \in Nat /\ USIZE_MAX % 2 = 1
  /\ FixedText \subseteq Text
  /\ Nil \notin Text
  /\ IsFiniteSet(Object)

VARIABLES
  text,       \* text[o]: the content of the string at o, Nil where there is none
  chains,     \* Intern::table: the strings of each chain
  slots,      \* its length
  count,      \* Intern::count
  roots,      \* the strings the program refers to
  bytes,      \* n_bytes_allocated
  threshold,  \* gc_threshold
  previous,   \* gc_prev_threshold
  buffer,     \* the length and the capacity of the Builder
  refusals,   \* history: refused allocations, and how many of them were to
              \* double the table
  lost,       \* history: what they were counted with
  paused,     \* history: the program paused collections
  repeated    \* history: it did so, or collected, when they were paused already

intern == <<text, chains, slots, count, roots>>
memory == <<bytes, threshold, previous>>
history == <<refusals, lost, paused, repeated>>
vars == <<intern, memory, buffer, history>>

-----------------------------------------------------------------------------
(* Memory *)

Used == {o \in Object : text[o] # Nil}
Fixed == {o \in Used : text[o] \in FixedText}

\* What a collection frees: gc_remove_intern keeps what is marked or fixed.
Garbage == Used \ (roots \cup Fixed)

\* Arithmetic of type usize.
Wrap(n) == n % (USIZE_MAX + 3)

Heap == [bytes |-> bytes, threshold |-> threshold, freed |-> {}]

\* gc_collect_garbage, as far as strings go.
Collected(h) ==
  LET left == h.bytes - STRING_SIZE * Cardinality(Garbage \ h.freed)
  IN  [bytes |-> left, threshold |-> Wrap(2 * left), freed |-> Garbage]

\* As much memory as USIZE_MAX can neither be requested nor acquired.
Requestable(h, size) == h.bytes + size <= USIZE_MAX

\* Mutant: the collection is checked for before the block is counted, which
\* then replaces the count the collection left.
Allocate_Mutant_stale(h, size) ==
  IF h.bytes > h.threshold
  THEN [Collected(h) EXCEPT !.bytes = h.bytes + size]
  ELSE [h EXCEPT !.bytes = @ + size]

\* mem_rawrealloc for a block that grows by size: it is counted, then gc_check,
\* and only then the allocator is asked.
Allocate(h, size) ==
  LET counted == [h EXCEPT !.bytes = @ + size]
  IN  IF counted.bytes > h.threshold THEN Collected(counted) ELSE counted

\* A block of this size is freed.
Release(h, size) == [h EXCEPT !.bytes = @ - size]

\* The heap, and the chains of some table without the strings that were freed.
Becomes(h) == bytes' = h.bytes /\ threshold' = h.threshold
TextAfter(h) == [o \in Object |-> IF o \in h.freed THEN Nil ELSE text[o]]

Swept(h, table) == [i \in DOMAIN table |-> table[i] \ h.freed]

\* The allocator returned nullptr: LULU_ERROR_MEMORY is thrown and caught, the
\* block is nobody's and stays counted.
Refused(h, size, growing) ==
  /\ refusals.all < MaxRefusals
  /\ Becomes(h)
  /\ refusals' = [all |-> refusals.all + 1,
                  growing |-> refusals.growing + IF growing THEN 1 ELSE 0]
  /\ lost' = lost + size

-----------------------------------------------------------------------------
(* ostring_new *)

intern_clamp_index(x, n) == hash[x] % n

Chain(x) == chains[intern_clamp_index(x, slots)]

\* A new string is put into the chain chosen before memory was allocated for
\* it, which may have collected some of that chain.
Linked(h, x, o) == [Swept(h, chains) EXCEPT ![intern_clamp_index(x, slots)] = @ \cup {o}]

Absent(x) == \A o \in Chain(x) : text[o] # x

\* Mutant: the table grows one string too late.
MustGrow_Mutant_late == count > slots

MustGrow == count + 1 > slots

\* Mutant: strings keep their chains.
Rehashed_Mutant_keeps(table, txt, n) ==
  [i \in 0..(n - 1) |-> IF i \in DOMAIN table THEN table[i] ELSE {}]

\* Mutant: the last chain is not gone through.
Rehashed_Mutant_short(table, txt, n) ==
  [i \in 0..(n - 1) |->
     {o \in UNION {table[j] : j \in 0..(Cardinality(DOMAIN table) - 2)} :
        intern_clamp_index(txt[o], n) = i}]

\* intern_resize: every string goes to the chain of its hash in n chains.
Rehashed(table, txt, n) ==
  [i \in 0..(n - 1) |->
     {o \in UNION {table[j] : j \in DOMAIN table} :
        intern_clamp_index(txt[o], n) = i}]

\* The string is there already.
FindString(x) ==
  /\ \E o \in Chain(x) : text[o] = x /\ roots' = roots \cup {o}
  /\ UNCHANGED <<text, chains, slots, count, memory, buffer, history>>

\* It is not, and there is room for it.
NewString(x, o) ==
  LET h == Allocate(Heap, STRING_SIZE)
  IN  /\ Absent(x) /\ ~MustGrow /\ text[o] = Nil
      /\ Requestable(Heap, STRING_SIZE)
      /\ Becomes(h)
      /\ text' = [TextAfter(h) EXCEPT ![o] = x]
      /\ chains' = Linked(h, x, o)
      /\ count' = count + 1 /\ roots' = roots \cup {o}
      /\ UNCHANGED <<slots, previous, buffer, history>>

\* Nothing of the new string is left, but the collection was done.
NewStringRefused(x) ==
  LET h == Allocate(Heap, STRING_SIZE)
  IN  /\ Absent(x) /\ Requestable(Heap, STRING_SIZE)
      /\ Refused(h, STRING_SIZE, FALSE)
      /\ text' = TextAfter(h) /\ chains' = Swept(h, chains)
      /\ UNCHANGED <<slots, count, roots, previous, buffer, paused, repeated>>

\* Mutant: while the table is doubled the new string is not on the stack.
NewStringGrows_Mutant_unprotected(x, o) ==
  LET h1 == Allocate(Heap, STRING_SIZE)
      h2 == Allocate(h1, 2 * slots)
      txt == [TextAfter(h2) EXCEPT ![o] = IF h1.freed = h2.freed THEN x ELSE Nil]
  IN  /\ Absent(x) /\ MustGrow /\ text[o] = Nil
      /\ 2 * slots <= MaxSlots
      /\ Requestable(Heap, STRING_SIZE) /\ Requestable(h1, 2 * slots)
      /\ Becomes(Release(h2, slots))
      /\ text' = txt
      /\ chains' = Rehashed(Swept(h2, chains), txt, 2 * slots)
      /\ slots' = 2 * slots /\ count' = count + 1 /\ roots' = roots \cup {o}
      /\ UNCHANGED <<previous, buffer, history>>

\* It is the one string too many: with it on the stack the table is doubled.
NewStringGrows(x, o) ==
  LET h1 == Allocate(Heap, STRING_SIZE)
      h2 == Allocate(h1, 2 * slots)
      txt == [TextAfter(h2) EXCEPT ![o] = x]
  IN  /\ Absent(x) /\ MustGrow /\ text[o] = Nil
      /\ 2 * slots <= MaxSlots
      /\ Requestable(Heap, STRING_SIZE) /\ Requestable(h1, 2 * slots)
      /\ Becomes(Release(h2, slots))
      /\ text' = txt
      /\ chains' = Rehashed(Linked(h2, x, o), txt, 2 * slots)
      /\ slots' = 2 * slots /\ count' = count + 1 /\ roots' = roots \cup {o}
      /\ UNCHANGED <<previous, buffer, history>>

\* Doubling fails: the string is in its chain, but not counted and nobody's.
NewStringGrowRefused(x, o) ==
  LET h1 == Allocate(Heap, STRING_SIZE)
      h2 == Allocate(h1, 2 * slots)
  IN  /\ Absent(x) /\ MustGrow /\ text[o] = Nil
      /\ Requestable(Heap, STRING_SIZE) /\ Requestable(h1, 2 * slots)
      /\ Refused(h2, 2 * slots, TRUE)
      /\ text' = [TextAfter(h2) EXCEPT ![o] = x]
      /\ chains' = Linked(h2, x, o)
      /\ UNCHANGED <<slots, count, roots, previous, buffer, paused, repeated>>

\* The program forgets a string: it is popped, overwritten, or what refers to
\* it is collected.
Forget(o) ==
  /\ o \in roots
  /\ roots' = roots \ {o}
  /\ UNCHANGED <<text, chains, slots, count, memory, buffer, history>>

-----------------------------------------------------------------------------
(* Builder and Dynamic *)

mem_next_fib[n \in Nat] ==
  LET Grow[next \in Nat] == IF next < n THEN Grow[(next * 3) \div 2] ELSE next
  IN  Grow[2]

Fits(len) == len <= buffer.cap

NewCap(len) == mem_next_fib[IF len > MIN_CAP THEN len ELSE MIN_CAP]

\* builder_write_lstring of n characters; dynamic_resize.
Write(n) ==
  LET len == buffer.len + n
      h == Allocate(Heap, NewCap(len) - buffer.cap)
  IN  /\ len <= MaxLen
      /\ IF Fits(len)
         THEN /\ buffer' = [buffer EXCEPT !.len = len]
              /\ UNCHANGED <<text, chains, memory>>
         ELSE /\ Requestable(Heap, NewCap(len) - buffer.cap)
              /\ buffer' = [len |-> len, cap |-> NewCap(len)]
              /\ Becomes(h)
              /\ text' = TextAfter(h) /\ chains' = Swept(h, chains)
              /\ UNCHANGED previous
      /\ UNCHANGED <<slots, count, roots, history>>

WriteRefused(n) ==
  LET len == buffer.len + n
      h == Allocate(Heap, NewCap(len) - buffer.cap)
  IN  /\ len <= MaxLen /\ ~Fits(len) /\ Requestable(Heap, NewCap(len) - buffer.cap)
      /\ Refused(h, NewCap(len) - buffer.cap, FALSE)
      /\ text' = TextAfter(h) /\ chains' = Swept(h, chains)
      /\ UNCHANGED <<slots, count, roots, previous, buffer, paused, repeated>>

\* builder_reset keeps the capacity.
Reset ==
  /\ buffer.len > 0
  /\ buffer' = [buffer EXCEPT !.len = 0]
  /\ UNCHANGED <<intern, memory, history>>

-----------------------------------------------------------------------------
(* lulu_gc *)

Stop ==
  /\ previous' = threshold /\ threshold' = USIZE_MAX
  /\ paused' = TRUE /\ repeated' = (repeated \/ paused)
  /\ UNCHANGED <<intern, bytes, buffer, refusals, lost>>

\* Mutant: the threshold is set anew and not as it was.
Restart_Mutant_forgets ==
  /\ threshold' = USIZE_MAX
  /\ paused' = FALSE
  /\ UNCHANGED <<intern, bytes, previous, buffer, refusals, lost, repeated>>

Restart ==
  /\ threshold' = previous
  /\ paused' = FALSE
  /\ UNCHANGED <<intern, bytes, previous, buffer, refusals, lost, repeated>>

Collect ==
  LET h == Collected(Heap)
  IN  /\ Becomes(h)
      /\ text' = TextAfter(h) /\ chains' = Swept(h, chains)
      /\ repeated' = (repeated \/ paused)
      /\ UNCHANGED <<slots, count, roots, previous, buffer, refusals, lost, paused>>

-----------------------------------------------------------------------------

\* lulu_open: an empty table of chains and a threshold that lets the first
\* allocation collect.
Init ==
  /\ text = [o \in Object |-> Nil]
  /\ chains = [i \in 0..(INIT_SLOTS - 1) |-> {}]
  /\ slots = INIT_SLOTS /\ count = 0 /\ roots = {}
  /\ bytes = INIT_SLOTS /\ threshold = 2 * INIT_SLOTS /\ previous = threshold
  /\ buffer = [len |-> 0, cap |-> 0]
  /\ refusals = [all |-> 0, growing |-> 0] /\ lost = 0
  /\ paused = FALSE /\ repeated = FALSE

Next ==
  \/ \E x \in Text : FindString(x)
  \/ \E x \in Text, o \in Object : NewString(x, o)
  \/ \E x \in Text : NewStringRefused(x)
  \/ \E x \in Text, o \in Object : NewStringGrows(x, o)
  \/ \E x \in Text, o \in Object : NewStringGrowRefused(x, o)
  \/ \E o \in Object : Forget(o)
  \/ \E n \in 1..MIN_CAP : Write(n) \/ WriteRefused(n)
  \/ Reset
  \/ Stop
  \/ Restart
  \/ Collect

Spec == Init /\ [][Next]_vars

-----------------------------------------------------------------------------
(* Properties *)

\* Where a string is looked for: every string in memory is in the chain of its
\* hash, and nothing else is in a chain.
InternOK ==
  /\ text \in [Object -> Text \cup {Nil}]
  /\ slots \in Nat \ {0}
  /\ chains \in [0..(slots - 1) -> SUBSET Used]
  /\ \A o \in Used : \A i \in DOMAIN chains :
       o \in chains[i] <=> i = intern_clamp_index(text[o], slots)

\* Strings are compared by address: no content is in memory twice, however
\* collections, refused allocations and doublings follow one another
\* (ostring_new, intern_resize, gc_remove_intern).
Interned == \A o, p \in Used : text[o] = text[p] => o = p

\* No string the program refers to is freed, the one it is being given
\* included: the collection may start inside ostring_new.
RootsLive == roots \subseteq Used

\* The count is what is allocated: strings, chains and buffer, and what was
\* counted for allocations that failed (mem_rawrealloc).  The buffer has memory
\* for what was written to it (dynamic_resize).
BytesExact ==
  /\ bytes = STRING_SIZE * Cardinality(Used) + slots + buffer.cap + lost
  /\ buffer.len <= buffer.cap

\* There are at least as many chains as strings, refused doublings aside.
LoadBound == Cardinality(Used) <= slots + refusals.growing

\* Collections are paused exactly while the program wants them to be, as long
\* as it neither pauses nor collects when they are paused (lulu_gc).
PauseHonoured == ~repeated => (threshold = USIZE_MAX <=> paused)

=============================================================================

------------------------- MODULE MetamethodsProofs --------------------------
(***************************************************************************)
(* Proofs about Metamethods for any tables, handlers and names, and any    *)
(* limit of the loops above the number of tables: an access ends where the *)
(* language says.                                                          *)
(*                                                                         *)
(* A turn of a loop goes on with the handler of an object that does not    *)
(* decide, so the objects of a walk are those the language asks; a walk    *)
(* that is still going on at the limit met some metatable twice.           *)
(***************************************************************************)
EXTENDS Metamethods, FiniteSetTheorems, WellFoundedInduction, NaturalsInduction, TLAPS

-----------------------------------------------------------------------------
(* Numbers *)

\* A set of numbers has a least one: the interval that ends with it is in no other.
LEMMA LeastNumber ==
  ASSUME NEW S, S \subseteq Nat, S # {}
  PROVE  \E x \in S : \A y \in S : x <= y
  <1> DEFINE T == {1 .. x : x \in S}
  <1>1. T \subseteq FiniteSubsetsOf(Nat) /\ T # {}
    <2> SUFFICES ASSUME NEW x \in S PROVE 1 .. x \in FiniteSubsetsOf(Nat)
      OBVIOUS
    <2> QED BY FS_Interval DEF FiniteSubsetsOf
  <1>2. PICK e \in T : \A d \in T : <<d, e>> \notin StrictSubsetOrdering(Nat)
    BY <1>1, WFMin, FS_StrictSubsetOrderingWellFounded, Zenon
  <1>3. PICK x \in S : e = 1 .. x
    BY <1>2
  <1>4. ASSUME NEW y \in S, y < x PROVE FALSE
    <2>1. 1 .. y \subseteq 1 .. x /\ x \in 1 .. x /\ x \notin 1 .. y
      BY <1>4
    <2>2. <<1 .. y, e>> \in StrictSubsetOrdering(Nat)
      BY <2>1, <1>3, <1>1 DEF StrictSubsetOrdering
    <2> QED BY <2>2, <1>2
  <1> QED BY <1>4

\* What the next number has whenever a number has it, all numbers from one on have.
LEMMA Upward ==
  ASSUME NEW S, NEW a \in Nat, NEW b \in Nat, a <= b, a \in S,
         \A i \in a .. b : i \in S /\ i < b => i + 1 \in S
  PROVE  \A i \in a .. b : i \in S
  <1> DEFINE Out == {i \in a .. b : i \notin S}
  <1> SUFFICES ASSUME Out # {} PROVE FALSE
    OBVIOUS
  <1>1. PICK x \in Out : \A y \in Out : x <= y
    <2>1. Out \subseteq Nat
      OBVIOUS
    <2> HIDE DEF Out
    <2> QED BY <2>1, LeastNumber
  <1>2. x # a /\ x \in a .. b
    BY <1>1
  <1>3. x - 1 \in a .. b /\ x - 1 \notin Out /\ (x - 1) + 1 = x /\ x - 1 < b
    BY <1>1, <1>2
  <1> QED BY <1>1, <1>3

\* The walks of a loop, one per turn.
LEMMA GetWalksAre ==
  ASSUME NEW v, NEW n
  PROVE  /\ GetWalks(v, n)[0] = Walk(v)
         /\ \A i \in Nat : GetWalks(v, n)[i + 1] =
              IF GetWalks(v, n)[i].end = "walking"
              THEN GetTurn(GetWalks(v, n)[i], n) ELSE GetWalks(v, n)[i]
  <1> DEFINE Turn(w, i) == IF w.end = "walking" THEN GetTurn(w, n) ELSE w
  <1> DEFINE f == GetWalks(v, n)
  <1>1. NatInductiveDefHypothesis(f, Walk(v), Turn)
    BY DEF NatInductiveDefHypothesis, GetWalks
  <1>2. NatInductiveDefConclusion(f, Walk(v), Turn)
    <2> HIDE DEF f, Turn
    <2> QED BY <1>1, NatInductiveDef
  <1>3. \A i \in Nat : f[i] = IF i = 0 THEN Walk(v) ELSE Turn(f[i - 1], i)
    <2> HIDE DEF f, Turn
    <2> QED BY <1>2 DEF NatInductiveDefConclusion
  <1>4. ASSUME NEW i \in Nat PROVE f[i + 1] = Turn(f[i], i)
    <2> HIDE DEF f
    <2>1. i + 1 \in Nat /\ i + 1 # 0 /\ (i + 1) - 1 = i
      OBVIOUS
    <2> QED BY <1>3, <2>1
  <1> QED BY <1>3, <1>4

LEMMA SetWalksAre ==
  ASSUME NEW v, NEW n
  PROVE  /\ SetWalks(v, n)[0] = Walk(v)
         /\ \A i \in Nat : SetWalks(v, n)[i + 1] =
              IF SetWalks(v, n)[i].end = "walking"
              THEN SetTurn(SetWalks(v, n)[i], n) ELSE SetWalks(v, n)[i]
  <1> DEFINE Turn(w, i) == IF w.end = "walking" THEN SetTurn(w, n) ELSE w
  <1> DEFINE f == SetWalks(v, n)
  <1>1. NatInductiveDefHypothesis(f, Walk(v), Turn)
    BY DEF NatInductiveDefHypothesis, SetWalks
  <1>2. NatInductiveDefConclusion(f, Walk(v), Turn)
    <2> HIDE DEF f, Turn
    <2> QED BY <1>1, NatInductiveDef
  <1>3. \A i \in Nat : f[i] = IF i = 0 THEN Walk(v) ELSE Turn(f[i - 1], i)
    <2> HIDE DEF f, Turn
    <2> QED BY <1>2 DEF NatInductiveDefConclusion
  <1>4. ASSUME NEW i \in Nat PROVE f[i + 1] = Turn(f[i], i)
    <2> HIDE DEF f
    <2>1. i + 1 \in Nat /\ i + 1 # 0 /\ (i + 1) - 1 = i
      OBVIOUS
    <2> QED BY <1>3, <2>1
  <1> QED BY <1>3, <1>4

-----------------------------------------------------------------------------
(* What a turn of a loop does *)

\* A remembered absence is one, or it is late.
Cached(cache) ==
  \A t \in Table : \A m \in cache[t] : Raw(t, m) = Nil \/ <<t, m>> \in late

\* A walk in a state.
WalkType ==
  [at : Value, cache : [Table -> SUBSET Fast], inserted : SUBSET (Table \X Name),
   local : BOOLEAN, late : BOOLEAN,
   end : {"walking", "value", "undefined", "error", "call", "stored", "loop"},
   value : Value \cup {Nil}, self : Value \cup {Nil}]
WalkOK(w) ==
  /\ w \in WalkType /\ Cached(w.cache)
  /\ \A p \in w.inserted : Raw(p[1], p[2]) = Nil

\* A turn goes on with the handler of an object that does not decide, or ends at
\* one that does, as long as nothing late hid it.
Turned(w, next, n, m) ==
  /\ w.late => next.late
  /\ next.end = "walking" /\ ~next.late =>
       ~Decides(w.at, n, m) /\ next.at = Handler(w.at, m)
  /\ next.end # "walking" =>
       /\ next.end # "loop" /\ next.at = w.at
       /\ ~Departs(next) =>
            Decides(w.at, n, m) /\ Outcome(next) = Decision(w.at, n, m)

\* Raw tells a value that is there from Nil, absent or not.
LEMMA RawIs ==
  ASSUME TypeOK, NEW t \in Table, NEW n \in Name
  PROVE  /\ Raw(t, n) \in Value \cup {Nil}
         /\ Raw(t, n) # Nil => slot[t][n] = Raw(t, n) /\ slot[t][n] # Absent
         /\ slot[t][n] = Nil \/ slot[t][n] = Absent <=> Raw(t, n) = Nil
  BY MetaAssumption DEF TypeOK, Raw

\* The handler a lookup finds is the one that is there, unless it is late.
LEMMA Lookup ==
  ASSUME TypeOK, NEW cache \in [Table -> SUBSET Fast], Cached(cache),
         NEW mt \in Table \cup {Nil}, NEW m \in Event
  PROVE  LET found == mt_get_fast(cache, mt, m)
         IN  /\ found.handler \in Value \cup {Nil}
             /\ found.cache \in [Table -> SUBSET Fast] /\ Cached(found.cache)
             /\ \/ found.handler = IF mt = Nil THEN Nil ELSE Raw(mt, m)
                \/ <<mt, m>> \in late /\ found.handler = Nil
  <1> DEFINE found == mt_get_fast(cache, mt, m)
  <1>0. m \in Name /\ Fast \subseteq Name
    BY DEF Name, Event
  <1>1. CASE mt = Nil \/ (mt # Nil /\ m \in cache[mt])
    <2>1. found = [handler |-> Nil, cache |-> cache]
      BY <1>1 DEF mt_get_fast
    <2>2. mt # Nil => mt \in Table
      OBVIOUS
    <2> QED BY <2>1, <2>2, <1>1 DEF Cached
  <1>2. CASE ~(mt = Nil \/ (mt # Nil /\ m \in cache[mt]))
    <2> DEFINE cache2 == IF Raw(mt, m) = Nil /\ m \in Fast
                         THEN [cache EXCEPT ![mt] = @ \cup {m}] ELSE cache
    <2>1. found = [handler |-> Raw(mt, m), cache |-> cache2]
      BY <1>2 DEF mt_get_fast
    <2>2. mt \in Table /\ Raw(mt, m) \in Value \cup {Nil}
      BY <1>0, <1>2, RawIs
    <2>3. cache2 \in [Table -> SUBSET Fast]
      BY <2>2
    <2>4. ASSUME NEW t \in Table, NEW e \in cache2[t] PROVE Raw(t, e) = Nil \/ <<t, e>> \in late
      BY <2>2, <2>4 DEF Cached
    <2>5. Cached(cache2)
      BY <2>4 DEF Cached
    <2> QED BY <2>1, <2>2, <2>3, <2>5, <1>2
  <1> QED BY <1>1, <1>2

\* The handler of an object is in its metatable.
LEMMA HandlerIs ==
  ASSUME TypeOK, NEW v \in Value, NEW m \in Event
  PROVE  /\ MetatableOf(v) \in Table \cup {Nil}
         /\ Handler(v, m) = IF MetatableOf(v) = Nil THEN Nil ELSE Raw(MetatableOf(v), m)
         /\ Handler(v, m) \in Value \cup {Nil}
  <1>1. MetatableOf(v) \in Table \cup {Nil}
    BY DEF TypeOK, MetatableOf
  <1>2. Handler(v, m) = IF MetatableOf(v) = Nil THEN Nil ELSE Raw(MetatableOf(v), m)
    BY DEF Handler, mt_get_method
  <1>3. m \in Name
    BY DEF Name
  <1> QED BY <1>1, <1>2, <1>3, RawIs

\* What a turn finds, in an object that may be a table.
LEMMA Finding ==
  ASSUME TypeOK, NEW w, WalkOK(w), NEW m \in Event, NEW found,
         found = IF w.at \in Table THEN mt_get_fast(w.cache, MetatableOf(w.at), m)
                 ELSE [handler |-> mt_get_method(w.at, m), cache |-> w.cache]
  PROVE  /\ found.handler \in Value \cup {Nil}
         /\ found.cache \in [Table -> SUBSET Fast] /\ Cached(found.cache)
         /\ <<MetatableOf(w.at), m>> \notin late => found.handler = Handler(w.at, m)
  <1>1. w.at \in Value /\ w.cache \in [Table -> SUBSET Fast] /\ Cached(w.cache)
    BY DEF WalkOK, WalkType
  <1>2. CASE w.at \in Table
    <2>1. found = mt_get_fast(w.cache, MetatableOf(w.at), m)
      BY <1>2
    <2> QED BY <2>1, <1>1, Lookup, HandlerIs
  <1>3. CASE w.at \notin Table
    <2>1. found.handler = Handler(w.at, m) /\ found.cache = w.cache
      BY <1>3 DEF Handler
    <2> QED BY <2>1, <1>1, HandlerIs
  <1> QED BY <1>2, <1>3

\* What Ended changes.
LEMMA EndedIs ==
  ASSUME NEW w \in WalkType, NEW how, NEW value, NEW self
  PROVE  /\ Ended(w, how, value, self).at = w.at
         /\ Ended(w, how, value, self).cache = w.cache
         /\ Ended(w, how, value, self).inserted = w.inserted
         /\ Ended(w, how, value, self).local = w.local
         /\ Ended(w, how, value, self).late = w.late
         /\ Ended(w, how, value, self).end = how
         /\ Ended(w, how, value, self).value = value
         /\ Ended(w, how, value, self).self = self
         /\ how \in {"value", "undefined", "error", "call", "stored", "loop"}
            /\ value \in Value \cup {Nil} /\ self \in Value \cup {Nil}
            => Ended(w, how, value, self) \in WalkType
  BY DEF Ended, WalkType

\* A turn of vm_table_get.
LEMMA GetTurnIs ==
  ASSUME TypeOK, NEW w, WalkOK(w), w.end = "walking", NEW n \in Name \cup {Nil},
         NEW next, next = GetTurn(w, n)
  PROVE  /\ WalkOK(next) /\ next.inserted = w.inserted
         /\ n \in Name => Turned(w, next, n, "__index")
         /\ next.end = "value" =>
              /\ next.at \in Table /\ n \in Name /\ next.value = Raw(next.at, n)
              /\ slot[next.at][n] # Absent
         /\ next.end = "undefined" => n = Nil \/ slot[next.at][n] = Absent
         /\ next.end # "stored"
  <1>a. PICK found : found = IF w.at \in Table THEN mt_get_fast(w.cache, MetatableOf(w.at), "__index")
                      ELSE [handler |-> mt_get_method(w.at, "__index"), cache |-> w.cache]
    OBVIOUS
  <1>b. PICK after : after = [w EXCEPT !.cache = found.cache,
                         !.late = w.late \/ <<MetatableOf(w.at), "__index">> \in late]
    OBVIOUS
  <1>c. PICK h : h = Handler(w.at, "__index")
    OBVIOUS
  <1>0. w \in WalkType /\ w.at \in Value /\ "__index" \in Event /\ Nil \notin Name /\ Nil \notin Value
    BY MetaAssumption DEF WalkOK, WalkType, Event, Fast
  <1>1. /\ found.handler \in Value \cup {Nil}
        /\ found.cache \in [Table -> SUBSET Fast] /\ Cached(found.cache)
        /\ <<MetatableOf(w.at), "__index">> \notin late => found.handler = h
    BY <1>0, Finding, <1>a, <1>c
  <1>2. /\ after \in WalkType /\ after.at = w.at /\ after.local = w.local
        /\ after.cache = found.cache /\ after.inserted = w.inserted /\ after.end = "walking"
        /\ w.late => after.late
        /\ ~after.late => found.handler = h
    BY <1>0, <1>1, <1>b DEF WalkType
  <1>3. CASE w.at \in Table /\ n = Nil
    <2>1. next = Ended(w, "undefined", Nil, Nil)
      BY <1>3 DEF GetTurn
    <2>2. next \in WalkType /\ next.cache = w.cache /\ next.inserted = w.inserted /\ next.end = "undefined"
      BY <2>1, <1>0, EndedIs
    <2> QED BY <2>2, <1>3, <1>0 DEF WalkOK
  <1>4. CASE Here(w.at, n) /\ n # Nil
    <2>0. w.at \in Table /\ Raw(w.at, n) # Nil /\ n \in Name /\ Raw(w.at, n) \in Value
          /\ slot[w.at][n] # Absent
      BY <1>4, RawIs DEF Here
    <2>1. next = Ended(w, "value", Raw(w.at, n), Nil)
      BY <2>0, <1>4 DEF GetTurn
    <2>2. /\ next \in WalkType /\ next.cache = w.cache /\ next.inserted = w.inserted
          /\ next.end = "value" /\ next.at = w.at /\ next.value = Raw(w.at, n) /\ next.late = w.late
      BY <2>0, <2>1, <1>0, EndedIs
    <2>3. Decides(w.at, n, "__index") /\ Outcome(next) = Decision(w.at, n, "__index")
      BY <2>2, <1>4 DEF Decides, Decision, Outcome
    <2> QED BY <2>0, <2>2, <2>3 DEF WalkOK, Turned
  <1>5. CASE ~(w.at \in Table /\ n = Nil) /\ ~(Here(w.at, n) /\ n # Nil)
    <2>a. PICK gone : gone = [after EXCEPT !.at = found.handler, !.local = TRUE]
      OBVIOUS
    <2>0. next = CASE found.handler = Nil /\ w.at \in Table ->
                        Ended(after, IF KeyExists(w.at, n) THEN "value" ELSE "undefined", Nil, Nil)
                   [] found.handler = Nil /\ w.at \notin Table -> Ended(after, "error", Nil, Nil)
                   [] found.handler \in Function ->
                        Ended(after, "call", found.handler, Self(w, found.handler))
                   [] OTHER -> gone
      <3>1. ~(w.at \in Table /\ n # Nil /\ Raw(w.at, n) # Nil) /\ ~(w.at \in Table /\ n = Nil)
        BY <1>5 DEF Here
      <3> QED BY <3>1, <1>a, <1>b, <2>a DEF GetTurn
    <2>1. ~Here(w.at, n)
      BY <1>5, <1>0 DEF Here
    <2>2. CASE found.handler = Nil /\ w.at \in Table
      <3>1. next = Ended(after, IF KeyExists(w.at, n) THEN "value" ELSE "undefined", Nil, Nil)
        BY ONLY <2>0, <2>2, MetaAssumption DEF Value
      <3>2. n \in Name /\ Raw(w.at, n) = Nil /\ (KeyExists(w.at, n) <=> slot[w.at][n] # Absent)
        BY <2>1, <2>2, <1>5 DEF Here, KeyExists
      <3>3. /\ next \in WalkType /\ next.cache = found.cache /\ next.inserted = w.inserted
            /\ next.end \in {"value", "undefined"} /\ next.at = w.at /\ next.value = Nil
            /\ next.late = after.late
            /\ next.end = "value" <=> KeyExists(w.at, n)
        BY <3>1, <1>2, EndedIs
      <3>4. ~next.late => Decides(w.at, n, "__index") /\ Outcome(next) = Decision(w.at, n, "__index")
        BY <3>3, <1>2, <1>c, <2>2, <2>1 DEF Decides, Decision, Outcome
      <3> QED BY <3>2, <3>3, <3>4, <2>2, <1>1, <1>2 DEF WalkOK, Turned, Departs
    <2>3. CASE found.handler = Nil /\ w.at \notin Table
      <3>1. next = Ended(after, "error", Nil, Nil)
        BY ONLY <2>0, <2>3, MetaAssumption DEF Value
      <3>3. /\ next \in WalkType /\ next.cache = found.cache /\ next.inserted = w.inserted
            /\ next.end = "error" /\ next.at = w.at
            /\ next.late = after.late
        BY <3>1, <1>2, EndedIs
      <3>4. ~next.late => Decides(w.at, n, "__index") /\ Outcome(next) = Decision(w.at, n, "__index")
        BY <3>3, <1>2, <1>c, <2>3, <2>1 DEF Decides, Decision, Outcome
      <3> QED BY <3>3, <3>4, <1>1, <1>2 DEF WalkOK, Turned, Departs
    <2>4. CASE found.handler \in Function
      <3>0. found.handler # Nil /\ Self(w, found.handler) \in Value
            /\ (~w.local => Self(w, found.handler) = w.at)
        BY <2>4, <1>0 DEF Self, Value
      <3>1. next = Ended(after, "call", found.handler, Self(w, found.handler))
        BY ONLY <2>0, <2>4, <3>0
      <3>3. /\ next \in WalkType /\ next.cache = found.cache /\ next.inserted = w.inserted
            /\ next.end = "call" /\ next.at = w.at /\ next.value = found.handler
            /\ next.late = after.late /\ next.local = w.local /\ next.self = Self(w, found.handler)
        BY <3>0, <3>1, <1>1, <1>2, EndedIs
      <3>4. ~Departs(next) => Decides(w.at, n, "__index") /\ Outcome(next) = Decision(w.at, n, "__index")
        BY <3>0, <3>3, <1>2, <1>c, <2>4, <2>1 DEF Decides, Decision, Outcome, Departs
      <3> QED BY <3>3, <3>4, <1>1, <1>2 DEF WalkOK, Turned
    <2>5. CASE found.handler # Nil /\ found.handler \notin Function
      <3>1. next = gone
        BY ONLY <2>0, <2>5
      <3>2. found.handler \in Value
        BY <2>5, <1>1
      <3>3. /\ next \in WalkType /\ next.cache = found.cache /\ next.inserted = w.inserted
            /\ next.end = "walking" /\ next.at = found.handler /\ next.late = after.late
        BY <3>1, <3>2, <2>a, <1>2 DEF WalkType
      <3>4. ~next.late => ~Decides(w.at, n, "__index") /\ next.at = h
        BY <3>3, <1>2, <1>c, <2>5, <2>1 DEF Decides
      <3> QED BY <3>3, <3>4, <1>1, <1>2, <1>c DEF WalkOK, Turned
    <2> QED BY <2>2, <2>3, <2>4, <2>5
  <1> QED BY <1>3, <1>4, <1>5

\* A turn of vm_table_set.
LEMMA SetTurnIs ==
  ASSUME TypeOK, NEW w, WalkOK(w), w.end = "walking", NEW n \in Name \cup {Nil},
         NEW next, next = SetTurn(w, n)
  PROVE  /\ WalkOK(next)
         /\ n \in Name => Turned(w, next, n, "__newindex")
         /\ next.end = "stored" =>
              /\ next.value = next.at /\ next.at \in Table /\ n \in Name
              /\ <<next.at, n>> \in next.inserted \/ slot[next.at][n] # Absent
  <1>a. PICK found : found = IF w.at \in Table THEN mt_get_fast(w.cache, MetatableOf(w.at), "__newindex")
                      ELSE [handler |-> mt_get_method(w.at, "__newindex"), cache |-> w.cache]
    OBVIOUS
  <1>i. PICK keys : keys = IF w.at \in Table THEN w.inserted \cup {<<w.at, n>>} ELSE w.inserted
    OBVIOUS
  <1>b. PICK after : after = [w EXCEPT !.cache = found.cache,
                         !.late = w.late \/ <<MetatableOf(w.at), "__newindex">> \in late,
                         !.inserted = keys]
    OBVIOUS
  <1>c. PICK h : h = Handler(w.at, "__newindex")
    OBVIOUS
  <1>0. w \in WalkType /\ w.at \in Value /\ "__newindex" \in Event /\ Nil \notin Name /\ Nil \notin Value
    BY MetaAssumption DEF WalkOK, WalkType, Event, Fast
  <1>1. /\ found.handler \in Value \cup {Nil}
        /\ found.cache \in [Table -> SUBSET Fast] /\ Cached(found.cache)
        /\ <<MetatableOf(w.at), "__newindex">> \notin late => found.handler = h
    BY <1>0, Finding, <1>a, <1>c
  <1>3. CASE w.at \in Table /\ n = Nil
    <2>1. next = Ended(w, "error", Nil, Nil)
      BY <1>3 DEF SetTurn
    <2>2. next \in WalkType /\ next.cache = w.cache /\ next.inserted = w.inserted /\ next.end = "error"
      BY <2>1, <1>0, EndedIs
    <2> QED BY <2>2, <1>3, <1>0 DEF WalkOK
  <1>4. CASE Here(w.at, n) /\ n # Nil
    <2>0. w.at \in Table /\ Raw(w.at, n) # Nil /\ n \in Name /\ slot[w.at][n] # Absent
      BY <1>4, RawIs DEF Here
    <2>1. next = Ended(w, "stored", w.at, Nil)
      BY <2>0, <1>4 DEF SetTurn
    <2>2. /\ next \in WalkType /\ next.cache = w.cache /\ next.inserted = w.inserted
          /\ next.end = "stored" /\ next.at = w.at /\ next.value = w.at /\ next.late = w.late
      BY <2>0, <2>1, <1>0, EndedIs
    <2>3. Decides(w.at, n, "__newindex") /\ Outcome(next) = Decision(w.at, n, "__newindex")
      BY <2>2, <1>4 DEF Decides, Decision, Outcome
    <2> QED BY <2>0, <2>2, <2>3 DEF WalkOK, Turned
  <1>5. CASE ~(w.at \in Table /\ n = Nil) /\ ~(Here(w.at, n) /\ n # Nil)
    <2>1. ~Here(w.at, n)
      BY <1>5, <1>0 DEF Here
    <2>k. /\ keys \subseteq Table \X Name /\ \A p \in keys : Raw(p[1], p[2]) = Nil
          /\ w.at \in Table => n \in Name /\ <<w.at, n>> \in keys
      <3>1. w.inserted \subseteq Table \X Name /\ \A p \in w.inserted : Raw(p[1], p[2]) = Nil
        BY <1>0 DEF WalkOK, WalkType
      <3>2. w.at \in Table => n \in Name /\ Raw(w.at, n) = Nil
        BY <1>5, <2>1 DEF Here
      <3> QED BY <3>1, <3>2, <1>i
    <2>z. /\ after \in WalkType /\ after.at = w.at /\ after.local = w.local
          /\ after.cache = found.cache /\ after.inserted = keys /\ after.end = "walking"
          /\ w.late => after.late
          /\ ~after.late => found.handler = h
      BY <1>0, <1>1, <1>b, <2>k DEF WalkType
    <2>a. PICK gone : gone = [after EXCEPT !.at = found.handler, !.local = TRUE]
      OBVIOUS
    <2>0. next = CASE found.handler = Nil /\ w.at \in Table -> Ended(after, "stored", w.at, Nil)
                   [] found.handler = Nil /\ w.at \notin Table -> Ended(after, "error", Nil, Nil)
                   [] found.handler \in Function ->
                        Ended(after, "call", found.handler, Self(w, found.handler))
                   [] OTHER -> gone
      <3>1. ~(w.at \in Table /\ n # Nil /\ Raw(w.at, n) # Nil) /\ ~(w.at \in Table /\ n = Nil)
        BY <1>5 DEF Here
      <3>2. after = [w EXCEPT !.cache = found.cache,
                         !.late = w.late \/ <<MetatableOf(w.at), "__newindex">> \in late,
                         !.inserted = IF w.at \in Table THEN @ \cup {<<w.at, n>>} ELSE @]
        BY <1>b, <1>i, <1>0 DEF WalkType
      <3> QED BY <3>1, <1>a, <3>2, <2>a DEF SetTurn
    <2>2. CASE found.handler = Nil /\ w.at \in Table
      <3>1. next = Ended(after, "stored", w.at, Nil)
        BY ONLY <2>0, <2>2, MetaAssumption DEF Value
      <3>3. /\ next \in WalkType /\ next.cache = found.cache /\ next.inserted = keys
            /\ next.end = "stored" /\ next.at = w.at /\ next.value = w.at
            /\ next.late = after.late
        BY <3>1, <2>z, <1>0, EndedIs
      <3>4. ~next.late => Decides(w.at, n, "__newindex") /\ Outcome(next) = Decision(w.at, n, "__newindex")
        BY <3>3, <2>z, <1>c, <2>2, <2>1 DEF Decides, Decision, Outcome
      <3> QED BY <3>3, <3>4, <2>2, <1>1, <2>k, <2>z DEF WalkOK, Turned, Departs
    <2>3. CASE found.handler = Nil /\ w.at \notin Table
      <3>1. next = Ended(after, "error", Nil, Nil)
        BY ONLY <2>0, <2>3, MetaAssumption DEF Value
      <3>3. /\ next \in WalkType /\ next.cache = found.cache /\ next.inserted = keys
            /\ next.end = "error" /\ next.at = w.at
            /\ next.late = after.late
        BY <3>1, <2>z, EndedIs
      <3>4. ~next.late => Decides(w.at, n, "__newindex") /\ Outcome(next) = Decision(w.at, n, "__newindex")
        BY <3>3, <2>z, <1>c, <2>3, <2>1 DEF Decides, Decision, Outcome
      <3> QED BY <3>3, <3>4, <1>1, <2>k, <2>z DEF WalkOK, Turned, Departs
    <2>4. CASE found.handler \in Function
      <3>0. found.handler # Nil /\ Self(w, found.handler) \in Value
            /\ (~w.local => Self(w, found.handler) = w.at)
        BY <2>4, <1>0 DEF Self, Value
      <3>1. next = Ended(after, "call", found.handler, Self(w, found.handler))
        BY ONLY <2>0, <2>4, <3>0
      <3>3. /\ next \in WalkType /\ next.cache = found.cache /\ next.inserted = keys
            /\ next.end = "call" /\ next.at = w.at /\ next.value = found.handler
            /\ next.late = after.late /\ next.local = w.local /\ next.self = Self(w, found.handler)
        BY <3>0, <3>1, <1>1, <2>z, EndedIs
      <3>4. ~Departs(next) => Decides(w.at, n, "__newindex") /\ Outcome(next) = Decision(w.at, n, "__newindex")
        BY <3>0, <3>3, <2>z, <1>c, <2>4, <2>1 DEF Decides, Decision, Outcome, Departs
      <3> QED BY <3>3, <3>4, <1>1, <2>k, <2>z DEF WalkOK, Turned
    <2>5. CASE found.handler # Nil /\ found.handler \notin Function
      <3>1. next = gone
        BY ONLY <2>0, <2>5
      <3>2. found.handler \in Value
        BY <2>5, <1>1
      <3>3. /\ next \in WalkType /\ next.cache = found.cache /\ next.inserted = keys
            /\ next.end = "walking" /\ next.at = found.handler /\ next.late = after.late
        BY <3>1, <3>2, <2>a, <2>z DEF WalkType
      <3>4. ~next.late => ~Decides(w.at, n, "__newindex") /\ next.at = h
        BY <3>3, <2>z, <1>c, <2>5, <2>1 DEF Decides
      <3> QED BY <3>3, <3>4, <1>1, <2>k, <2>z, <1>c DEF WalkOK, Turned
    <2> QED BY <2>2, <2>3, <2>4, <2>5
  <1> QED BY <1>3, <1>4, <1>5

-----------------------------------------------------------------------------
(* What an access means *)

\* What is asked is in every set with the object and, for each in it that does
\* not decide, its handler; and whatever is in all such sets is asked.
LEMMA AskedIs ==
  ASSUME NEW v \in Value, NEW n, NEW m
  PROVE  /\ \A S \in SUBSET Value :
              v \in S /\ (\A u \in S : Decides(u, n, m) \/ Handler(u, m) \in S)
              => Asked(v, n, m) \subseteq S
         /\ \A u \in Value :
              (\A S \in SUBSET Value :
                 v \in S /\ (\A x \in S : ~Decides(x, n, m) => Handler(x, m) \in S) => u \in S)
              => u \in Asked(v, n, m)
  <1> DEFINE asks == Asks(n, m)
             closed == {S \in SUBSET Value : v \in S /\ \A u \in S : asks[u] \in S}
  <1>1. Asked(v, n, m) = {u \in Value : \A S \in closed : u \in S}
    BY DEF Asked
  <1>2. \A u \in Value : asks[u] = IF Decides(u, n, m) THEN u ELSE Handler(u, m)
    BY DEF Asks
  <1>3. ASSUME NEW S \in SUBSET Value
        PROVE  (\A u \in S : asks[u] \in S) <=> \A u \in S : Decides(u, n, m) \/ Handler(u, m) \in S
    <2> HIDE DEF asks
    <2> QED BY <1>2
  <1> HIDE DEF asks
  <1> QED BY <1>1, <1>3

\* The walks up to one of them: what is late stays late, and an end stays.
LEMMA WalksStay ==
  ASSUME NEW f, \A i \in Nat : f[i] \in WalkType,
         \A i \in Nat : f[i].end # "walking" => f[i + 1] = f[i],
         \A i \in Nat : f[i].end = "walking" /\ f[i].late => f[i + 1].late,
         NEW i \in Nat, NEW j \in Nat, i <= j
  PROVE  /\ f[i].late => f[j].late
         /\ f[i].end # "walking" => f[j] = f[i]
  <1>1. ASSUME f[i].late PROVE f[j].late
    <2> DEFINE S == {k \in Nat : f[k].late}
    <2>1. \A k \in i .. j : k \in S /\ k < j => k + 1 \in S
      <3> TAKE k \in i .. j
      <3>1. k \in Nat /\ k + 1 \in Nat
        OBVIOUS
      <3>2. f[k].late => f[k + 1].late
        BY <3>1
      <3> QED BY <3>1, <3>2
    <2>2. i \in S /\ j \in i .. j
      BY <1>1
    <2> HIDE DEF S
    <2>3. j \in S
      BY <2>1, <2>2, Upward
    <2> QED BY <2>3 DEF S
  <1>2. ASSUME f[i].end # "walking" PROVE f[j] = f[i]
    <2> DEFINE S == {k \in Nat : f[k] = f[i]}
    <2>1. \A k \in i .. j : k \in S /\ k < j => k + 1 \in S
      <3> TAKE k \in i .. j
      <3>1. k \in Nat /\ k + 1 \in Nat
        OBVIOUS
      <3>2. f[k] = f[i] => f[k + 1] = f[i]
        BY <3>1, <1>2
      <3> QED BY <3>1, <3>2
    <2>2. i \in S /\ j \in i .. j
      BY <1>2
    <2> HIDE DEF S
    <2>3. j \in S
      BY <2>1, <2>2, Upward
    <2> QED BY <2>3 DEF S
  <1> QED BY <1>1, <1>2

\* A walk through objects that do not decide, to one that does, ends where the
\* language says.
LEMMA EndsThere ==
  ASSUME TypeOK, NEW v \in Value, NEW n \in Name, NEW m \in Event, NEW at, NEW e \in Nat,
         at[0] = v, \A k \in 0 .. e : at[k] \in Value,
         \A k \in 0 .. e : k < e => ~Decides(at[k], n, m) /\ at[k + 1] = Handler(at[k], m),
         Decides(at[e], n, m)
  PROVE  Place(v, n, m) = Decision(at[e], n, m)
  <1> DEFINE S == {at[k] : k \in 0 .. e}
  <1>1. S \in SUBSET Value /\ v \in S
    OBVIOUS
  <1>2. ASSUME NEW u \in S PROVE Decides(u, n, m) \/ Handler(u, m) \in S
    <2>1. PICK k \in 0 .. e : u = at[k]
      BY <1>2
    <2>2. CASE k < e
      <3>1. k + 1 \in 0 .. e /\ at[k + 1] = Handler(u, m)
        BY <2>1, <2>2
      <3> QED BY <3>1
    <2>3. CASE k = e
      BY <2>1, <2>3
    <2> QED BY <2>2, <2>3
  <1>3. \A u \in S : Decides(u, n, m) => u = at[e]
    <2> TAKE u \in S
    <2>1. PICK k \in 0 .. e : u = at[k]
      OBVIOUS
    <2>2. k < e => ~Decides(u, n, m)
      BY <2>1
    <2> QED BY <2>1, <2>2
  <1> HIDE DEF S
  <1>4. Asked(v, n, m) \subseteq S
    BY <1>1, <1>2, AskedIs
  <1>5. ASSUME NEW T \in SUBSET Value, v \in T, \A x \in T : ~Decides(x, n, m) => Handler(x, m) \in T
        PROVE  at[e] \in T
    <2> DEFINE In == {k \in Nat : at[k] \in T}
    <2>1. \A k \in 0 .. e : k \in In /\ k < e => k + 1 \in In
      <3> TAKE k \in 0 .. e
      <3>1. k + 1 \in Nat
        OBVIOUS
      <3> QED BY <3>1, <1>5
    <2>2. 0 \in In /\ e \in 0 .. e
      BY <1>5
    <2> HIDE DEF In
    <2>3. e \in In
      BY <2>1, <2>2, Upward
    <2> QED BY <2>3 DEF In
  <1>6. at[e] \in Asked(v, n, m)
    <2>1. at[e] \in Value
      OBVIOUS
    <2> QED BY <2>1, <1>5, AskedIs
  <1>7. {u \in Asked(v, n, m) : Decides(u, n, m)} = {at[e]}
    BY <1>3, <1>4, <1>6
  <1> QED BY <1>7 DEF Place

\* A walk through more objects than there are tables, none of which decides,
\* asks none that does.
LEMMA EndsNowhere ==
  ASSUME TypeOK, NEW v \in Value, NEW n \in Name, NEW m \in Event, NEW at,
         at[0] = v, \A k \in 0 .. MT_MAX_LOOP : at[k] \in Value,
         \A k \in 0 .. MT_MAX_LOOP :
           k < MT_MAX_LOOP => ~Decides(at[k], n, m) /\ at[k + 1] = Handler(at[k], m)
  PROVE  Place(v, n, m) = <<"loop", Nil, Nil>>
  <1>0. MT_MAX_LOOP \in Nat /\ IsFiniteSet(Table) /\ Cardinality(Table) \in Nat
        /\ MT_MAX_LOOP > Cardinality(Table)
    BY MetaAssumption, FS_CardinalityType
  <1> DEFINE Turn == 0 .. (MT_MAX_LOOP - 1)
             mt == [k \in Turn |-> MetatableOf(at[k])]
  <1>1. ASSUME NEW k \in Turn
        PROVE  /\ k \in 0 .. MT_MAX_LOOP /\ k + 1 \in 0 .. MT_MAX_LOOP /\ k < MT_MAX_LOOP
               /\ ~Decides(at[k], n, m) /\ mt[k] \in Table
               /\ at[k + 1] = Handler(at[k], m) /\ Handler(at[k], m) = Raw(mt[k], m)
    <2>1. k \in 0 .. MT_MAX_LOOP /\ k + 1 \in 0 .. MT_MAX_LOOP /\ k < MT_MAX_LOOP
      BY <1>0
    <2>2. ~Decides(at[k], n, m) /\ at[k + 1] = Handler(at[k], m) /\ at[k] \in Value
      BY <2>1
    <2>3. Handler(at[k], m) # Nil
      BY <2>2 DEF Decides
    <2>4. MetatableOf(at[k]) \in Table /\ Handler(at[k], m) = Raw(MetatableOf(at[k]), m)
      BY <2>2, <2>3, HandlerIs
    <2> QED BY <2>1, <2>2, <2>4
  <1>2. mt \in [Turn -> Table]
    BY <1>1
  <1>3. IsFiniteSet(Turn) /\ Cardinality(Turn) = MT_MAX_LOOP
    <2>1. 0 \in Int /\ MT_MAX_LOOP - 1 \in Int
      BY <1>0
    <2>2. IsFiniteSet(Turn) /\ Cardinality(Turn) = IF 0 > MT_MAX_LOOP - 1 THEN 0 ELSE (MT_MAX_LOOP - 1) - 0 + 1
      BY <2>1, FS_Interval
    <2> QED BY <2>2, <1>0
  <1>4. PICK i \in Turn, j \in Turn : i < j /\ mt[i] = mt[j]
    <2> HIDE DEF mt
    <2>1. PICK a \in Turn, b \in Turn : a # b /\ mt[a] = mt[b]
      <3> HIDE DEF Turn
      <3>1. Cardinality(Turn) > Cardinality(Table)
        BY <1>0, <1>3
      <3> QED BY <3>1, <1>0, <1>2, <1>3, FS_PigeonHole
    <2>2. a < b \/ b < a
      BY <2>1, <1>0
    <2> QED BY <2>1, <2>2
  <1> DEFINE S == {at[k] : k \in 0 .. j}
  <1>5. \A k \in 0 .. j : k \in Turn
    BY <1>0
  <1>6. v \in S /\ S \in SUBSET Value
    BY <1>0, <1>1, <1>5
  <1>7. ASSUME NEW u \in S PROVE ~Decides(u, n, m) /\ Handler(u, m) \in S
    <2>1. PICK k \in 0 .. j : u = at[k]
      BY <1>7
    <2>2. k \in Turn /\ ~Decides(u, n, m) /\ Handler(u, m) = at[k + 1]
      BY <2>1, <1>1, <1>5
    <2>3. CASE k < j
      <3>1. k + 1 \in 0 .. j
        BY <2>3
      <3> QED BY <3>1, <2>2
    <2>4. CASE k = j
      <3>1. i + 1 \in 0 .. j
        BY <1>4
      <3>2. at[j + 1] = at[i + 1]
        BY <1>1, <1>4
      <3> QED BY <3>1, <3>2, <2>2, <2>4
    <2> QED BY <2>3, <2>4
  <1> HIDE DEF S
  <1>8. Asked(v, n, m) \subseteq S
    BY <1>6, <1>7, AskedIs
  <1> QED BY <1>7, <1>8 DEF Place

\* The loop ends where the language says, unless something late hid a handler or
\* the second departure applies.
LEMMA LoopAgrees ==
  ASSUME TypeOK, NEW v \in Value, NEW n \in Name, NEW m \in Event, NEW f, f[0] = Walk(v),
         \A i \in Nat : f[i] \in WalkType,
         \A i \in Nat : f[i].end # "walking" => f[i + 1] = f[i],
         \A i \in Nat : f[i].end = "walking" => Turned(f[i], f[i + 1], n, m),
         NEW w, w = LoopEnd(f[MT_MAX_LOOP]), ~Departs(w)
  PROVE  Outcome(w) = Place(v, n, m)
  <1> DEFINE N == MT_MAX_LOOP
  <1>0. N \in Nat /\ f[0].end = "walking" /\ f[0].at = v
    BY MetaAssumption DEF Walk
  <1>1. ASSUME NEW i \in 0 .. N
        PROVE  /\ f[i].late => f[N].late
               /\ f[i].end # "walking" => f[N] = f[i]
    <2>1. \A k \in Nat : f[k].end = "walking" /\ f[k].late => f[k + 1].late
      BY DEF Turned
    <2>2. i \in Nat /\ i <= N
      BY <1>0
    <2> HIDE DEF N
    <2> QED BY <1>0, <2>1, <2>2, WalksStay
  <1>2. ~f[N].late
    <2>1. f[N] \in WalkType
      BY <1>0
    <2>2. CASE f[N].end = "walking"
      <3>1. w = Ended(f[N], "loop", Nil, Nil)
        BY <2>2 DEF LoopEnd
      <3> QED BY <3>1, <2>1, EndedIs DEF Departs
    <2>3. CASE f[N].end # "walking"
      BY <2>3 DEF LoopEnd, Departs
    <2> QED BY <2>2, <2>3
  <1> DEFINE at == [k \in Nat |-> f[k].at]
  <1>3. at[0] = v /\ \A k \in Nat : at[k] \in Value
    BY <1>0 DEF WalkType
  <1>4. ASSUME NEW k \in Nat, k < N, f[k].end = "walking", f[k + 1].end = "walking"
        PROVE  ~Decides(at[k], n, m) /\ at[k + 1] = Handler(at[k], m)
    <2>1. k + 1 \in 0 .. N /\ k + 1 \in Nat
      BY <1>4, <1>0
    <2>2. ~f[k + 1].late
      BY <2>1, <1>1, <1>2
    <2> QED BY <2>1, <2>2, <1>4 DEF Turned
  <1>5. CASE f[N].end = "walking"
    <2>1. \A k \in 0 .. N : f[k].end = "walking"
      BY <1>1, <1>5
    <2>2. \A k \in 0 .. N : k < N => ~Decides(at[k], n, m) /\ at[k + 1] = Handler(at[k], m)
      <3> TAKE k \in 0 .. N
      <3> HAVE k < N
      <3>1. k \in Nat /\ k \in 0 .. N /\ k + 1 \in 0 .. N
        BY <1>0
      <3> QED BY <3>1, <2>1, <1>4
    <2>3. Place(v, n, m) = <<"loop", Nil, Nil>>
      <3>1. \A k \in 0 .. N : at[k] \in Value
        BY <1>3
      <3> HIDE DEF at
      <3> QED BY <1>3, <2>2, <3>1, EndsNowhere
    <2>4. w.end = "loop"
      <3>1. f[N] \in WalkType
        BY <1>0
      <3>2. w = Ended(f[N], "loop", Nil, Nil)
        BY <1>5 DEF LoopEnd
      <3> QED BY <3>1, <3>2, EndedIs
    <2> QED BY <2>3, <2>4 DEF Outcome
  <1>6. CASE f[N].end # "walking"
    <2>1. w = f[N]
      BY <1>6 DEF LoopEnd
    <2> DEFINE Over == {i \in Nat : f[i].end # "walking"}
    <2>2. PICK e \in Over : \A y \in Over : e <= y
      <3>1. Over \subseteq Nat /\ N \in Over
        BY <1>0, <1>6
      <3> HIDE DEF Over
      <3> QED BY <3>1, LeastNumber
    <2>3. e \in Nat /\ e # 0 /\ e <= N /\ f[e] = f[N]
      BY <1>0, <1>1, <1>6, <2>2
    <2>4. PICK b \in Nat : e = b + 1
      <3>1. e - 1 \in Nat /\ e = (e - 1) + 1
        BY <2>3
      <3> QED BY <3>1
    <2>5. ASSUME NEW k \in 0 .. b PROVE f[k].end = "walking"
      <3>1. k \in Nat /\ ~(e <= k)
        BY <2>4
      <3> QED BY <3>1, <2>2
    <2>6. Decides(at[b], n, m) /\ Outcome(w) = Decision(at[b], n, m)
      <3>1. f[b].end = "walking"
        BY <2>5
      <3>2. Turned(f[b], f[b + 1], n, m) /\ f[b + 1] = w /\ w.end # "walking"
        BY <3>1, <2>1, <2>3, <2>4, <1>6
      <3> QED BY <3>2 DEF Turned
    <2>7. \A k \in 0 .. b : k < b => ~Decides(at[k], n, m) /\ at[k + 1] = Handler(at[k], m)
      <3> TAKE k \in 0 .. b
      <3> HAVE k < b
      <3>1. k \in Nat /\ k < N /\ k + 1 \in 0 .. b
        BY <2>3, <2>4, <1>0
      <3> QED BY <3>1, <2>5, <1>4
    <2>8. Place(v, n, m) = Decision(at[b], n, m)
      <3>1. \A k \in 0 .. b : at[k] \in Value
        BY <1>3
      <3> HIDE DEF at
      <3> QED BY <1>3, <2>6, <2>7, <3>1, EndsThere
    <2> QED BY <2>6, <2>8
  <1> QED BY <1>5, <1>6

\* Every walk of vm_table_get.
LEMMA GetWalkIs ==
  ASSUME TypeOK, Cached(flags), NEW v \in Value, NEW n \in Name \cup {Nil}, NEW i \in Nat
  PROVE  LET w == GetWalks(v, n)[i]
         IN  /\ WalkOK(w) /\ w.inserted = {}
             /\ w.end = "value" =>
                  /\ w.at \in Table /\ n \in Name /\ w.value = Raw(w.at, n)
                  /\ slot[w.at][n] # Absent
             /\ w.end = "undefined" => n = Nil \/ slot[w.at][n] = Absent
  <1> DEFINE f == GetWalks(v, n)
             Good(w) == /\ WalkOK(w) /\ w.inserted = {}
                        /\ w.end = "value" =>
                             /\ w.at \in Table /\ n \in Name /\ w.value = Raw(w.at, n)
                             /\ slot[w.at][n] # Absent
                        /\ w.end = "undefined" => n = Nil \/ slot[w.at][n] = Absent
                        S == {k \in Nat : Good(f[k])}
  <1>1. 0 \in S
    <2>1. f[0] = Walk(v)
      BY GetWalksAre
    <2>2. Walk(v) \in WalkType
      BY DEF Walk, WalkType, TypeOK
    <2>3. /\ Walk(v).cache = flags /\ Walk(v).inserted = {} /\ Walk(v).end = "walking"
      BY DEF Walk
    <2> HIDE DEF f
    <2>4. Good(f[0])
      BY <2>1, <2>2, <2>3 DEF WalkOK
    <2> QED BY <2>4
  <1>2. ASSUME NEW k \in Nat, k \in S PROVE k + 1 \in S
    <2>1. CASE f[k].end = "walking"
      <3>1. f[k + 1] = GetTurn(f[k], n)
        BY <2>1, GetWalksAre
      <3> HIDE DEF f
      <3>2. Good(f[k + 1])
        BY <3>1, <2>1, <1>2, GetTurnIs
      <3> QED BY <3>2
    <2>2. CASE f[k].end # "walking"
      <3>1. f[k + 1] = f[k]
        BY <2>2, GetWalksAre
      <3> HIDE DEF f
      <3> QED BY <3>1, <1>2
    <2> QED BY <2>1, <2>2
  <1>3. i \in S
    <2> HIDE DEF S
    <2>1. \A k \in 0 .. i : k \in S /\ k < i => k + 1 \in S
      BY <1>2
    <2> QED BY <1>1, <2>1, Upward
  <1> QED BY <1>3

\* Every walk of vm_table_set.
LEMMA SetWalkIs ==
  ASSUME TypeOK, Cached(flags), NEW v \in Value, NEW n \in Name \cup {Nil}, NEW i \in Nat
  PROVE  LET w == SetWalks(v, n)[i]
         IN  /\ WalkOK(w)
             /\ w.end = "stored" =>
                  /\ w.value = w.at /\ w.at \in Table /\ n \in Name
                  /\ <<w.at, n>> \in w.inserted \/ slot[w.at][n] # Absent
  <1> DEFINE f == SetWalks(v, n)
             Good(w) == /\ WalkOK(w)
                        /\ w.end = "stored" =>
                             /\ w.value = w.at /\ w.at \in Table /\ n \in Name
                             /\ <<w.at, n>> \in w.inserted \/ slot[w.at][n] # Absent
             S == {k \in Nat : Good(f[k])}
  <1>1. 0 \in S
    <2>1. f[0] = Walk(v)
      BY SetWalksAre
    <2>2. Walk(v) \in WalkType
      BY DEF Walk, WalkType, TypeOK
    <2>3. /\ Walk(v).cache = flags /\ Walk(v).inserted = {} /\ Walk(v).end = "walking"
      BY DEF Walk
    <2> HIDE DEF f
    <2>4. Good(f[0])
      BY <2>1, <2>2, <2>3 DEF WalkOK
    <2> QED BY <2>4
  <1>2. ASSUME NEW k \in Nat, k \in S PROVE k + 1 \in S
    <2>1. CASE f[k].end = "walking"
      <3>1. f[k + 1] = SetTurn(f[k], n)
        BY <2>1, SetWalksAre
      <3> HIDE DEF f
      <3>2. Good(f[k + 1])
        BY <3>1, <2>1, <1>2, SetTurnIs
      <3> QED BY <3>2
    <2>2. CASE f[k].end # "walking"
      <3>1. f[k + 1] = f[k]
        BY <2>2, SetWalksAre
      <3> HIDE DEF f
      <3> QED BY <3>1, <1>2
    <2> QED BY <2>1, <2>2
  <1>3. i \in S
    <2> HIDE DEF S
    <2>1. \A k \in 0 .. i : k \in S /\ k < i => k + 1 \in S
      BY <1>2
    <2> QED BY <1>1, <2>1, Upward
  <1> QED BY <1>3

\* The end of a loop is that of its last walk, or "loop".
LEMMA LoopEndIs ==
  ASSUME NEW w, WalkOK(w), NEW e, e = LoopEnd(w)
  PROVE  /\ WalkOK(e) /\ e.at = w.at /\ e.inserted = w.inserted /\ e.cache = w.cache
         /\ e = w \/ e.end = "loop"
  <1>0. w \in WalkType
    BY DEF WalkOK
  <1>1. CASE w.end = "walking"
    <2>1. e = Ended(w, "loop", Nil, Nil)
      BY <1>1 DEF LoopEnd
    <2>2. /\ e \in WalkType /\ e.at = w.at /\ e.inserted = w.inserted /\ e.cache = w.cache
          /\ e.end = "loop"
      BY <1>0, <2>1, EndedIs
    <2> QED BY <2>2 DEF WalkOK
  <1>2. CASE w.end # "walking"
    BY <1>2 DEF LoopEnd
  <1> QED BY <1>1, <1>2

\* A read that vm_table_get has finished.
LEMMA Gets ==
  ASSUME TypeOK, Cached(flags), NEW v \in Value, NEW n \in Name \cup {Nil},
         NEW w, w = vm_table_get(v, n)
  PROVE  /\ WalkOK(w)
         /\ w.end = "value" => /\ w.at \in Table /\ n \in Name /\ w.value = Raw(w.at, n)
                               /\ slot[w.at][n] # Absent
         /\ w.end = "undefined" => n = Nil \/ slot[w.at][n] = Absent
         /\ n \in Name /\ ~Departs(w) => Outcome(w) = Place(v, n, "__index")
  <1>0. MT_MAX_LOOP \in Nat
    BY MetaAssumption
  <1>1. PICK f : f = GetWalks(v, n)
    OBVIOUS
  <1>2. w = LoopEnd(f[MT_MAX_LOOP])
    BY <1>1 DEF vm_table_get, Turns
  <1>3. \A i \in Nat : WalkOK(f[i])
    BY <1>1, GetWalkIs
  <1>4. /\ WalkOK(w)
        /\ w = f[MT_MAX_LOOP] \/ w.end = "loop"
    BY <1>0, <1>2, <1>3, LoopEndIs
  <1>5. ASSUME w.end \in {"value", "undefined"}
        PROVE  /\ w.end = "value" => /\ w.at \in Table /\ n \in Name /\ w.value = Raw(w.at, n)
                                     /\ slot[w.at][n] # Absent
               /\ w.end = "undefined" => n = Nil \/ slot[w.at][n] = Absent
    <2>1. w = GetWalks(v, n)[MT_MAX_LOOP]
      BY <1>4, <1>5, <1>1
    <2> QED BY <2>1, <1>0, GetWalkIs
  <1>6. ASSUME n \in Name, ~Departs(w) PROVE Outcome(w) = Place(v, n, "__index")
    <2>1. f[0] = Walk(v)
      BY <1>1, GetWalksAre
    <2>2. ASSUME NEW i \in Nat
          PROVE  f[i + 1] = IF f[i].end = "walking" THEN GetTurn(f[i], n) ELSE f[i]
      BY <1>1, GetWalksAre
    <2>3. \A i \in Nat : f[i].end = "walking" => Turned(f[i], f[i + 1], n, "__index")
      BY <2>2, <1>3, <1>6, GetTurnIs
    <2>4. \A i \in Nat : f[i].end # "walking" => f[i + 1] = f[i]
      BY <2>2
    <2>5. \A i \in Nat : f[i] \in WalkType
      BY <1>3 DEF WalkOK
    <2>6. "__index" \in Event
      BY DEF Event, Fast
    <2> QED BY <2>1, <2>3, <2>4, <2>5, <2>6, <1>2, <1>6, LoopAgrees
  <1> QED BY <1>4, <1>5, <1>6

\* An assignment that vm_table_set has finished.
LEMMA Sets ==
  ASSUME TypeOK, Cached(flags), NEW v \in Value, NEW n \in Name \cup {Nil},
         NEW w, w = vm_table_set(v, n)
  PROVE  /\ WalkOK(w)
         /\ w.end = "stored" => /\ w.value \in Table /\ n \in Name
                                /\ <<w.value, n>> \in w.inserted \/ slot[w.value][n] # Absent
         /\ n \in Name /\ ~Departs(w) => Outcome(w) = Place(v, n, "__newindex")
  <1>0. MT_MAX_LOOP \in Nat
    BY MetaAssumption
  <1>1. PICK f : f = SetWalks(v, n)
    OBVIOUS
  <1>2. w = LoopEnd(f[MT_MAX_LOOP])
    BY <1>1 DEF vm_table_set, Turns
  <1>3. \A i \in Nat : WalkOK(f[i])
    BY <1>1, SetWalkIs
  <1>4. /\ WalkOK(w)
        /\ w = f[MT_MAX_LOOP] \/ w.end = "loop"
    BY <1>0, <1>2, <1>3, LoopEndIs
  <1>5. ASSUME w.end = "stored"
        PROVE  /\ w.value \in Table /\ n \in Name
               /\ <<w.value, n>> \in w.inserted \/ slot[w.value][n] # Absent
    <2>1. w = SetWalks(v, n)[MT_MAX_LOOP]
      BY <1>4, <1>5, <1>1
    <2>2. /\ w.value = w.at /\ w.at \in Table /\ n \in Name
          /\ <<w.at, n>> \in w.inserted \/ slot[w.at][n] # Absent
      BY ONLY <2>1, <1>0, <1>5, SetWalkIs, TypeOK, Cached(flags), v \in Value, n \in Name \cup {Nil}
    <2> QED BY <2>2
  <1>6. ASSUME n \in Name, ~Departs(w) PROVE Outcome(w) = Place(v, n, "__newindex")
    <2>1. f[0] = Walk(v)
      BY <1>1, SetWalksAre
    <2>2. ASSUME NEW i \in Nat
          PROVE  f[i + 1] = IF f[i].end = "walking" THEN SetTurn(f[i], n) ELSE f[i]
      BY <1>1, SetWalksAre
    <2>3. \A i \in Nat : f[i].end = "walking" => Turned(f[i], f[i + 1], n, "__newindex")
      BY <2>2, <1>3, <1>6, SetTurnIs
    <2>4. \A i \in Nat : f[i].end # "walking" => f[i + 1] = f[i]
      BY <2>2
    <2>5. \A i \in Nat : f[i] \in WalkType
      BY <1>3 DEF WalkOK
    <2>6. "__newindex" \in Event
      BY DEF Event, Fast
    <2> QED BY <2>1, <2>3, <2>4, <2>5, <2>6, <1>2, <1>6, LoopAgrees
  <1> QED BY <1>4, <1>5, <1>6

-----------------------------------------------------------------------------
(* The invariant *)

\* The state keeps its shape, and an absence a table remembers is one or is late.
IInv == TypeOK /\ Cached(flags)

\* Nothing is remembered at first.
LEMMA InitIInv == Init => IInv
  <1> SUFFICES ASSUME Init PROVE IInv
    OBVIOUS
  <1> QED BY MetaAssumption DEF Init, IInv, TypeOK, Cached

\* Insertions and the store after them.
LEMMA StoreKeeps ==
  ASSUME IInv, NEW keys, NEW t \in Table \cup {Nil}, NEW n \in Name \cup {Nil},
         NEW x \in Value \cup {Nil}, NEW cache \in [Table -> SUBSET Fast],
         keys \subseteq Table \X Name, Cached(cache),
         \A p \in keys : p = <<t, n>> \/ Raw(p[1], p[2]) = Nil,
         t \in Table => n \in Name /\ (<<t, n>> \in keys \/ slot[t][n] # Absent),
         Store(keys, t, n, x, cache), UNCHANGED <<metatable, mt_basic>>
  PROVE  IInv'
  <1>0. Nil \notin Table /\ Nil # Absent /\ Fast \subseteq Name /\ TypeOK
    BY MetaAssumption DEF Value, Name, Event, IInv
  <1>1. PICK rehashed : slot' = [u \in Table |-> [m \in Name |->
         CASE u = t /\ m = n -> x
           [] <<u, m>> \in keys /\ <<u, m>> # <<t, n>> -> Nil
           [] OTHER -> IF u \in rehashed /\ slot[u][m] = Nil THEN Absent ELSE slot[u][m]]]
    BY DEF Store
  <1>2. ASSUME NEW u \in Table, NEW m \in Name
        PROVE  /\ u = t /\ m = n => slot'[u][m] = x
               /\ ~(u = t /\ m = n) /\ <<u, m>> \in keys => slot'[u][m] = Nil
               /\ ~(u = t /\ m = n) /\ <<u, m>> \notin keys =>
                    slot'[u][m] = slot[u][m] \/ (slot[u][m] = Nil /\ slot'[u][m] = Absent)
    <2>1. slot'[u][m] =
            CASE u = t /\ m = n -> x
              [] <<u, m>> \in keys /\ <<u, m>> # <<t, n>> -> Nil
              [] OTHER -> IF u \in rehashed /\ slot[u][m] = Nil THEN Absent ELSE slot[u][m]
      BY <1>1
    <2>2. CASE u = t /\ m = n
      BY ONLY <2>1, <2>2
    <2>3. CASE ~(u = t /\ m = n) /\ <<u, m>> \in keys
      <3>1. <<u, m>> # <<t, n>>
        BY <2>3
      <3> QED BY ONLY <2>1, <2>3, <3>1
    <2>4. CASE ~(u = t /\ m = n) /\ <<u, m>> \notin keys
      <3>1. slot'[u][m] = IF u \in rehashed /\ slot[u][m] = Nil THEN Absent ELSE slot[u][m]
        BY <2>1, <2>4, Zenon
      <3> QED BY ONLY <3>1, <2>4
    <2> QED BY <2>2, <2>3, <2>4
  <1>3. assigned' = assigned \cup keys /\ flags' = cache
        /\ late' = late \cup (IF t \in Table /\ n \in cache[t] /\ x # Nil THEN {<<t, n>>} ELSE {})
    BY DEF Store
  <1>4. slot' \in [Table -> [Name -> Value \cup {Nil, Absent}]]
    <2>1. ASSUME NEW u \in Table, NEW m \in Name PROVE slot'[u][m] \in Value \cup {Nil, Absent}
      <3>1. slot[u][m] \in Value \cup {Nil, Absent}
        BY <1>0 DEF TypeOK
      <3> QED BY <3>1, <1>2
    <2>2. slot' = [u \in Table |-> [m \in Name |-> slot'[u][m]]]
      BY <1>1
    <2> QED BY <2>1, <2>2
  <1>5. metatable' \in [Table -> Table \cup {Nil}] /\ mt_basic' \in Table \cup {Nil}
        /\ flags' \in [Table -> SUBSET Fast] /\ assigned' \subseteq Table \X Name
    BY <1>0, <1>3 DEF TypeOK
  <1>6. ASSUME NEW u \in Table, NEW m \in Name, slot'[u][m] # Absent PROVE <<u, m>> \in assigned'
    <2>1. slot[u][m] # Absent => <<u, m>> \in assigned
      BY <1>0 DEF TypeOK
    <2> QED BY <2>1, <1>0, <1>2, <1>3, <1>6
  <1>7. late' \subseteq assigned'
    <2>1. late \subseteq assigned
      BY <1>0 DEF TypeOK
    <2>2. t \in Table => <<t, n>> \in assigned'
      <3>1. t \in Table /\ slot[t][n] # Absent => <<t, n>> \in assigned
        BY <1>0 DEF TypeOK
      <3> QED BY <3>1, <1>3
    <2> QED BY <2>1, <2>2, <1>3
  <1>8. ASSUME NEW u \in Table, NEW m \in cache[u]
        PROVE  Raw(u, m)' = Nil \/ <<u, m>> \in late'
    <2>1. m \in Name /\ (Raw(u, m) = Nil \/ <<u, m>> \in late)
      BY <1>0 DEF Cached
    <2>2. CASE u = t /\ m = n
      <3>1. x = Nil => Raw(u, m)' = Nil
        BY <2>1, <2>2, <1>0, <1>2 DEF Raw
      <3>2. x # Nil => <<u, m>> \in late'
        BY <2>2, <1>3
      <3> QED BY <3>1, <3>2
    <2>3. CASE ~(u = t /\ m = n) /\ <<u, m>> \in keys
      BY <2>1, <2>3, <1>0, <1>2 DEF Raw
    <2>4. CASE ~(u = t /\ m = n) /\ <<u, m>> \notin keys
      <3>1. Raw(u, m) = Nil => Raw(u, m)' = Nil
        BY <2>1, <2>4, <1>0, <1>2 DEF Raw
      <3> QED BY <3>1, <2>1, <1>3
    <2> QED BY <2>2, <2>3, <2>4
  <1>9. TypeOK'
    BY <1>4, <1>5, <1>6, <1>7 DEF TypeOK
  <1>10. Cached(flags)'
    BY <1>3, <1>8 DEF Cached
  <1> QED BY <1>9, <1>10 DEF IInv

\* An operation that only looks handlers up.
LEMMA LookingKeeps ==
  ASSUME IInv, flags' \in [Table -> SUBSET Fast], Cached(flags'),
         UNCHANGED <<slot, metatable, mt_basic, assigned, late>>
  PROVE  IInv'
  <1>1. TypeOK'
    BY DEF IInv, TypeOK
  <1>2. Cached(flags)'
    BY DEF Cached, Raw
  <1> QED BY <1>1, <1>2 DEF IInv

\* No operation remembers the absence of a handler that is there.
LEMMA StepIInv == IInv /\ [Next]_vars => IInv'
  <1> SUFFICES ASSUME IInv, [Next]_vars PROVE IInv'
    OBVIOUS
  <1>0. TypeOK /\ Cached(flags) /\ Used \subseteq Name /\ Stored \subseteq Value
        /\ Operator \subseteq Event /\ Table \cap String = {} /\ Nil \notin Table
    BY MetaAssumption DEF IInv, Value
  <1>1. ASSUME NEW v \in Value, NEW n \in Used \cup {Nil}, Get(v, n) PROVE IInv'
    <2>1. PICK w : w = vm_table_get(v, n)
      OBVIOUS
    <2>2. WalkOK(w)
      <3>1. n \in Name \cup {Nil}
        BY <1>0
      <3> QED BY <3>1, <2>1, <1>0, Gets
    <2>3. flags' = w.cache /\ UNCHANGED <<slot, metatable, mt_basic, assigned, late>>
      BY <1>1, <2>1 DEF Get
    <2>4. w.cache \in [Table -> SUBSET Fast] /\ Cached(w.cache)
      BY <2>2 DEF WalkOK, WalkType
    <2> QED BY <2>3, <2>4, LookingKeeps
  <1>2. ASSUME NEW v \in Value, NEW n \in Used \cup {Nil}, NEW x \in Stored \cup {Nil}, Set(v, n, x)
        PROVE  IInv'
    <2>1. PICK w : w = vm_table_set(v, n)
      OBVIOUS
    <2>2. n \in Name \cup {Nil} /\ x \in Value \cup {Nil}
      BY <1>0
    <2>3. /\ WalkOK(w)
          /\ w.end = "stored" => /\ w.value \in Table /\ n \in Name
                                 /\ <<w.value, n>> \in w.inserted \/ slot[w.value][n] # Absent
      BY <2>1, <2>2, <1>0, Sets
    <2>4. PICK t : t = IF w.end = "stored" THEN w.value ELSE Nil
      OBVIOUS
    <2>5. Store(w.inserted, t, n, x, w.cache) /\ UNCHANGED <<metatable, mt_basic>>
      BY <1>2, <2>1, <2>4 DEF Set
    <2>6. /\ t \in Table \cup {Nil}
          /\ t \in Table => n \in Name /\ (<<t, n>> \in w.inserted \/ slot[t][n] # Absent)
      BY <2>3, <2>4, <1>0
    <2>7. /\ w.cache \in [Table -> SUBSET Fast] /\ Cached(w.cache) /\ w.inserted \subseteq Table \X Name
          /\ \A p \in w.inserted : Raw(p[1], p[2]) = Nil
      BY <2>3 DEF WalkOK, WalkType
    <2> QED BY <2>2, <2>5, <2>6, <2>7, StoreKeeps
  <1>3. ASSUME NEW t \in Table, NEW n \in Used, NEW x \in Stored \cup {Nil}, RawSet(t, n, x)
        PROVE  IInv'
    <2>1. Store({<<t, n>>}, t, n, x, flags) /\ UNCHANGED <<metatable, mt_basic>>
      BY <1>3 DEF RawSet
    <2>2. flags \in [Table -> SUBSET Fast] /\ n \in Name /\ x \in Value \cup {Nil}
      BY <1>0 DEF TypeOK
    <2>3. PICK keys : keys = {<<t, n>>}
      OBVIOUS
    <2>4. /\ keys \subseteq Table \X Name /\ <<t, n>> \in keys /\ \A p \in keys : p = <<t, n>>
          /\ Store(keys, t, n, x, flags)
      BY <2>1, <2>2, <2>3
    <2>5. t \in Table \cup {Nil} /\ n \in Name \cup {Nil}
      BY <2>2
    <2> QED BY <1>0, <2>1, <2>2, <2>4, <2>5, StoreKeeps
  <1>4. ASSUME NEW v \in Table \cup String, NEW mt \in Table \cup {Nil}, lulu_set_metatable(v, mt)
        PROVE  IInv'
    <2>1. /\ metatable' \in [Table -> Table \cup {Nil}] /\ mt_basic' \in Table \cup {Nil}
          /\ UNCHANGED <<slot, flags, assigned, late>>
      BY <1>0, <1>4 DEF lulu_set_metatable, TypeOK
    <2>2. TypeOK'
      BY <1>0, <2>1 DEF TypeOK
    <2>3. Cached(flags)'
      BY <1>0, <2>1 DEF Cached, Raw
    <2> QED BY <2>2, <2>3 DEF IInv
  <1>5. ASSUME NEW m \in Operator, NEW v \in Value, Unary(m, v) PROVE IInv'
    <2>1. flags' = get_mt_unary(m, v).cache /\ UNCHANGED <<slot, metatable, mt_basic, assigned, late>>
      BY <1>5 DEF Unary
    <2>2. CASE v \in Table
      <3>1. metatable[v] \in Table \cup {Nil} /\ flags \in [Table -> SUBSET Fast] /\ m \in Event
        BY <1>0, <2>2 DEF TypeOK
      <3>2. get_mt_unary(m, v) = mt_get_fast(flags, metatable[v], m)
        BY <2>2 DEF get_mt_unary
      <3>3. flags' \in [Table -> SUBSET Fast] /\ Cached(flags')
        BY <1>0, <2>1, <3>1, <3>2, Lookup
      <3> QED BY <2>1, <3>3, LookingKeeps
    <2>3. CASE v \notin Table
      <3>1. flags' = flags
        BY <2>1, <2>3 DEF get_mt_unary
      <3>2. flags' \in [Table -> SUBSET Fast] /\ Cached(flags')
        BY <1>0, <3>1 DEF TypeOK
      <3> QED BY <2>1, <3>2, LookingKeeps
    <2> QED BY <2>2, <2>3
  <1>6. CASE UNCHANGED vars
    <2>1. UNCHANGED <<slot, metatable, mt_basic, assigned, late>> /\ flags' = flags
      BY <1>6 DEF vars
    <2>2. flags' \in [Table -> SUBSET Fast] /\ Cached(flags')
      BY <1>0, <2>1 DEF TypeOK
    <2> QED BY <2>1, <2>2, LookingKeeps
  <1> QED BY <1>1, <1>2, <1>3, <1>4, <1>5, <1>6 DEF Next

\* In every reachable state (metamethod.cpp, the vm_table_get family of vm.cpp).
THEOREM Invariant == Spec => []IInv
  BY InitIInv, StepIInv, PTL DEF Spec

-----------------------------------------------------------------------------
(* The properties *)

\* Every part of the state has its type, and an element has a value only once it
\* was inserted (table_set, mt_get_fast).
THEOREM Types == Spec => []TypeOK
  <1>1. IInv => TypeOK
    BY DEF IInv
  <1> QED BY <1>1, Invariant, PTL

\* Reading an element gives what the language says, for any chain of __index
\* handlers, cyclic ones included, but for the two departures (vm_table_get).
THEOREM Indexes == Spec => []IndexAgrees
  <1>1. IInv => IndexAgrees
    <2> SUFFICES ASSUME IInv, NEW v \in Value, NEW n \in Used, NEW w, w = vm_table_get(v, n), ~Departs(w)
                 PROVE  Outcome(w) = Place(v, n, "__index") /\ (w.end = "value" => w.value = Raw(w.at, n))
      BY DEF IndexAgrees
    <2>1. n \in Name
      BY MetaAssumption
    <2> QED BY <2>1, Gets DEF IInv
  <1> QED BY <1>1, Invariant, PTL

\* So does assigning to one, and no key with a value is inserted on the way
\* (vm_table_set).
THEOREM Assignments == Spec => []AssignAgrees
  <1>1. IInv => AssignAgrees
    <2> SUFFICES ASSUME IInv, NEW v \in Value, NEW n \in Used, NEW w, w = vm_table_set(v, n)
                 PROVE  /\ ~Departs(w) => Outcome(w) = Place(v, n, "__newindex")
                        /\ \A p \in w.inserted : Raw(p[1], p[2]) = Nil
      BY DEF AssignAgrees
    <2>1. n \in Name
      BY MetaAssumption
    <2>2. WalkOK(w) /\ (~Departs(w) => Outcome(w) = Place(v, n, "__newindex"))
      BY <2>1, Sets DEF IInv
    <2> QED BY <2>2 DEF WalkOK
  <1> QED BY <1>1, Invariant, PTL

\* Only an element without a key is undefined (vm_table_get, OP_GET_GLOBAL).
THEOREM Undefined == Spec => []UndefinedIsUnassigned
  <1>1. IInv => UndefinedIsUnassigned
    <2> SUFFICES ASSUME IInv, NEW t \in Table, NEW n \in Used, NEW w, w = vm_table_get(t, n)
                 PROVE  /\ w.end = "undefined" => slot[w.at][n] = Absent
                        /\ w.end = "value" => <<w.at, n>> \in assigned
      BY DEF IInv, UndefinedIsUnassigned
    <2>1. n \in Name /\ n # Nil /\ t \in Value
      BY MetaAssumption DEF Value
    <2>2. /\ w.end = "value" => w.at \in Table /\ slot[w.at][n] # Absent
          /\ w.end = "undefined" => n = Nil \/ slot[w.at][n] = Absent
      BY <2>1, Gets DEF IInv
    <2> QED BY <2>1, <2>2 DEF IInv, TypeOK
  <1> QED BY <1>1, Invariant, PTL

=============================================================================

---------------------------- MODULE Metamethods ----------------------------
(***************************************************************************)
(* Metatables: how an index, an assignment to an element, a length and an  *)
(* operator find the handler a program installed (metamethod.cpp and the   *)
(* vm_table_get family of vm.cpp).                                         *)
(*                                                                         *)
(* A table remembers, per event, that it was found to have no handler for  *)
(* it.  The tables of the model hold ordinary names and the names of       *)
(* events; which operations a handler performs when it is called is left   *)
(* to the following steps.                                                 *)
(***************************************************************************)
EXTENDS Naturals, FiniteSets

CONSTANTS
  Table,       \* the tables
  Function,    \* the functions that serve as handlers
  String,      \* the strings a program may index
  Ordinary,    \* the names a program uses beside those of events
  Nil,
  Absent,      \* a key a table does not have, while Nil is the value of one it has
  MT_MAX_LOOP, \* the tables one access may go through, 100
  Used,        \* bounds: the names a program stores under,
  Stored,      \* the values it stores there, the unary operators it uses,
  Operator,
  MaxKeys      \* and how many elements all tables together ever have

Fast == {"__index", "__newindex", "__len"}  \* the events before MT_GC
Event == Fast \cup {"__unm"}               \* __unm stands for the slow ones

Name == Ordinary \cup Event
Value == Table \cup Function \cup String

ASSUME MetaAssumption ==
  /\ {Nil, Absent} \cap (Value \cup Name) = {} /\ Nil # Absent
  /\ Table \cap Function = {} /\ Table \cap String = {} /\ Function \cap String = {}
  /\ Used \subseteq Name /\ Stored \subseteq Value /\ Operator \subseteq Event
  /\ IsFiniteSet(Table)
  /\ MT_MAX_LOOP \in Nat /\ MT_MAX_LOOP > Cardinality(Table)

VARIABLES
  slot,       \* slot[t][n]: the value of key n in table t
  metatable,  \* metatable[t]
  mt_basic,   \* the metatable of all strings
  flags,      \* flags[t]: the fast events t is remembered not to handle
  assigned,   \* history: the keys that were ever inserted, <<t, n>>
  late        \* history: the handlers <<t, m>> stored after t was remembered to
              \* have none, a departure from the language the README lists

vars == <<slot, metatable, mt_basic, flags, assigned, late>>

-----------------------------------------------------------------------------
(* Finding a handler *)

\* table_get_string: the value of a name, Nil when there is no such key.
Raw(t, n) == IF n \in Name /\ slot[t][n] # Absent THEN slot[t][n] ELSE Nil

\* The form of a bug: a key that lost its value is no key.
KeyExists_Mutant_value(t, n) == Raw(t, n) # Nil

\* What table_get says of the key beside the value.
KeyExists(t, n) == slot[t][n] # Absent

MetatableOf(v) ==
  CASE v \in Table  -> metatable[v]
    [] v \in String -> mt_basic
    [] OTHER        -> Nil

\* A lookup: the handler found and the absence cache left behind.  The bit of a
\* slow event does not fit into flags.
mt_get_fast(cache, mt, m) ==
  IF mt = Nil \/ (mt # Nil /\ m \in cache[mt])
  THEN [handler |-> Nil, cache |-> cache]
  ELSE [handler |-> Raw(mt, m),
        cache   |-> IF Raw(mt, m) = Nil /\ m \in Fast
                    THEN [cache EXCEPT ![mt] = @ \cup {m}] ELSE cache]

mt_get_method(v, m) == IF MetatableOf(v) = Nil THEN Nil ELSE Raw(MetatableOf(v), m)

-----------------------------------------------------------------------------
(* Following __index and __newindex *)

\* A walk through the chain of handlers: where it is, the absence cache, the
\* keys it inserted on its way, whether vt points at mt_index itself
\* (vt = &mt_index), so that the handler it finds next replaces the object the
\* handler is called with, whether it met a late handler, and its end.
Walk(v) ==
  [at |-> v, cache |-> flags, inserted |-> {}, local |-> FALSE,
   late |-> FALSE, end |-> "walking", value |-> Nil, self |-> Nil]

Ended(w, how, value, self) ==
  [w EXCEPT !.end = how, !.value = value, !.self = self]

\* The form of a bug: the handler itself is the first argument.
Self_Mutant_handler(w, handler) == handler

\* The object a handler is called with.
Self(w, handler) == IF w.local THEN handler ELSE w.at

\* One turn of the loop of vm_table_get; event is __index.
GetTurn(w, n) ==
  LET isTable == w.at \in Table
      mt == MetatableOf(w.at)
      found == IF isTable THEN mt_get_fast(w.cache, mt, "__index")
               ELSE [handler |-> mt_get_method(w.at, "__index"), cache |-> w.cache]
      after == [w EXCEPT !.cache = found.cache,
                         !.late = w.late \/ <<mt, "__index">> \in late]
  IN  CASE isTable /\ n = Nil        -> Ended(w, "undefined", Nil, Nil)
        [] isTable /\ n # Nil /\ Raw(w.at, n) # Nil
                                     -> Ended(w, "value", Raw(w.at, n), Nil)
        [] OTHER ->
           CASE found.handler = Nil /\ isTable ->
                  Ended(after, IF KeyExists(w.at, n) THEN "value" ELSE "undefined",
                        Nil, Nil)
             [] found.handler = Nil /\ ~isTable -> Ended(after, "error", Nil, Nil)
             [] found.handler \in Function ->
                  Ended(after, "call", found.handler, Self(w, found.handler))
             [] OTHER -> [after EXCEPT !.at = found.handler, !.local = TRUE]

\* One turn of the loop of vm_table_set.  table_set inserts the key before the
\* handler is looked for; the key then has the value Nil.
SetTurn(w, n) ==
  LET isTable == w.at \in Table
      mt == MetatableOf(w.at)
      found == IF isTable THEN mt_get_fast(w.cache, mt, "__newindex")
               ELSE [handler |-> mt_get_method(w.at, "__newindex"), cache |-> w.cache]
      after == [w EXCEPT !.cache = found.cache,
                         !.late = w.late \/ <<mt, "__newindex">> \in late,
                         !.inserted = IF isTable THEN @ \cup {<<w.at, n>>} ELSE @]
  IN  CASE isTable /\ n = Nil -> Ended(w, "error", Nil, Nil)
        [] isTable /\ n # Nil /\ Raw(w.at, n) # Nil -> Ended(w, "stored", w.at, Nil)
        [] OTHER ->
           CASE found.handler = Nil /\ isTable -> Ended(after, "stored", w.at, Nil)
             [] found.handler = Nil /\ ~isTable -> Ended(after, "error", Nil, Nil)
             [] found.handler \in Function ->
                  Ended(after, "call", found.handler, Self(w, found.handler))
             [] OTHER -> [after EXCEPT !.at = found.handler, !.local = TRUE]

\* The form of a bug: the loop gives up early.
Turns_Mutant_short == 2

Turns == MT_MAX_LOOP

\* The walks after so many turns.
GetWalks(v, n) ==
  LET walk[i \in Nat] ==
        IF i = 0 THEN Walk(v)
        ELSE LET w == walk[i - 1]
             IN  IF w.end = "walking" THEN GetTurn(w, n) ELSE w
  IN  walk

SetWalks(v, n) ==
  LET walk[i \in Nat] ==
        IF i = 0 THEN Walk(v)
        ELSE LET w == walk[i - 1]
             IN  IF w.end = "walking" THEN SetTurn(w, n) ELSE w
  IN  walk

LoopEnd(w) == IF w.end = "walking" THEN Ended(w, "loop", Nil, Nil) ELSE w

vm_table_get(v, n) == LoopEnd(GetWalks(v, n)[Turns])
vm_table_set(v, n) == LoopEnd(SetWalks(v, n)[Turns])

-----------------------------------------------------------------------------
(* The operations *)

\* t[n] read: OP_GET_TABLE, OP_SELF, OP_GET_GLOBAL, lulu_get_table.
Get(v, n) ==
  /\ flags' = vm_table_get(v, n).cache
  /\ UNCHANGED <<slot, metatable, mt_basic, assigned, late>>

\* The keys are inserted, and the rehash an insertion may need drops the keys of
\* that table whose value is Nil.  Then x is stored in table t, if any.  cache is
\* the absence cache the walk left.
Store(keys, t, n, x, cache) ==
  /\ Cardinality(assigned \cup keys) <= MaxKeys
  /\ \E rehashed \in SUBSET {p[1] : p \in {q \in keys : slot[q[1]][q[2]] = Absent}} :
       slot' = [u \in Table |-> [m \in Name |->
         CASE u = t /\ m = n -> x
           [] <<u, m>> \in keys /\ <<u, m>> # <<t, n>> -> Nil
           [] OTHER -> IF u \in rehashed /\ slot[u][m] = Nil THEN Absent ELSE slot[u][m]]]
  /\ assigned' = assigned \cup keys
  /\ flags' = cache
  /\ late' = late \cup IF t \in Table /\ n \in cache[t] /\ x # Nil
                      THEN {<<t, n>>} ELSE {}

\* t[n] = x: OP_SET_TABLE, OP_SET_GLOBAL, lulu_set_table.  Nothing happens but
\* insertions when the walk ends with an error or a handler to call.
Set(v, n, x) ==
  LET w == vm_table_set(v, n)
  IN  /\ Store(w.inserted, IF w.end = "stored" THEN w.value ELSE Nil, n, x, w.cache)
      /\ UNCHANGED <<metatable, mt_basic>>

\* lulu_raw_set: no handler is looked for.
RawSet(t, n, x) ==
  /\ Store({<<t, n>>}, t, n, x, flags)
  /\ UNCHANGED <<metatable, mt_basic>>

\* setmetatable for tables; a host program and the string library set that of
\* strings.
lulu_set_metatable(v, mt) ==
  /\ IF v \in Table
     THEN metatable' = [metatable EXCEPT ![v] = mt] /\ UNCHANGED mt_basic
     ELSE mt_basic' = mt /\ UNCHANGED metatable
  /\ UNCHANGED <<slot, flags, assigned, late>>

\* The handler of # (vm_len) and of unary minus (OP_UNM).  A value that is no
\* table is asked for __len, whatever m.
get_mt_unary(m, v) ==
  IF v \in Table THEN mt_get_fast(flags, metatable[v], m)
  ELSE [handler |-> mt_get_method(v, "__len"), cache |-> flags]

Unary(m, v) ==
  /\ flags' = get_mt_unary(m, v).cache
  /\ UNCHANGED <<slot, metatable, mt_basic, assigned, late>>

Init ==
  /\ slot = [t \in Table |-> [n \in Name |-> Absent]]
  /\ metatable = [t \in Table |-> Nil]
  /\ mt_basic = Nil
  /\ flags = [t \in Table |-> {}]
  /\ assigned = {}
  /\ late = {}

Next ==
  \/ \E v \in Value, n \in Used \cup {Nil} : Get(v, n)
  \/ \E v \in Value, n \in Used \cup {Nil}, x \in Stored \cup {Nil} : Set(v, n, x)
  \/ \E t \in Table, n \in Used, x \in Stored \cup {Nil} : RawSet(t, n, x)
  \/ \E v \in Table \cup String, mt \in Table \cup {Nil} : lulu_set_metatable(v, mt)
  \/ \E m \in Operator, v \in Value : Unary(m, v)

Spec == Init /\ [][Next]_vars

-----------------------------------------------------------------------------
(* What an access means *)

Handler(v, m) == mt_get_method(v, m)

\* The rule of the language: an element that has a value is it; otherwise the
\* handler of the object decides, called with that object if it is a function,
\* asked in turn if it is not.
Here(v, n) == v \in Table /\ Raw(v, n) # Nil
Decides(v, n, m) == Here(v, n) \/ Handler(v, m) \in Function \cup {Nil}
Decision(v, n, m) ==
  CASE Here(v, n)                              -> <<"here", v, Nil>>
    [] ~Here(v, n) /\ Handler(v, m) # Nil      -> <<"call", Handler(v, m), v>>
    [] OTHER -> IF v \in Table THEN <<"here", v, Nil>> ELSE <<"error", Nil, Nil>>

\* The objects an access to v asks: the least set with v and, for each in it that
\* does not decide, its handler.
Asks(n, m) == [u \in Value |-> IF Decides(u, n, m) THEN u ELSE Handler(u, m)]
Asked(v, n, m) ==
  LET asks == Asks(n, m)
      closed == {S \in SUBSET Value : v \in S /\ \A u \in S : asks[u] \in S}
  IN  {u \in Value : \A S \in closed : u \in S}

\* At most one of them decides.  If none does, the access would never end.
Place(v, n, m) ==
  LET deciding == {u \in Asked(v, n, m) : Decides(u, n, m)}
  IN  IF deciding = {} THEN <<"loop", Nil, Nil>>
      ELSE Decision(CHOOSE u \in deciding : TRUE, n, m)

\* What a walk ended with, in those terms.
Outcome(w) ==
  CASE w.end = "stored" -> <<"here", w.value, Nil>>
    [] w.end \in {"value", "undefined"} -> <<"here", w.at, Nil>>
    [] w.end = "call" -> <<"call", w.value, w.self>>
    [] OTHER -> <<w.end, Nil, Nil>>

\* The two departures: a handler the cache hides, and a function found behind
\* another handler, which is called with itself.
Departs(w) == w.late \/ (w.end = "call" /\ w.local)

\* Every part of the state keeps its shape, an element only has a value once it
\* was inserted, and only fast events are remembered (metamethod.cpp, table.hpp).
TypeOK ==
  /\ slot \in [Table -> [Name -> Value \cup {Nil, Absent}]]
  /\ metatable \in [Table -> Table \cup {Nil}]
  /\ mt_basic \in Table \cup {Nil}
  /\ flags \in [Table -> SUBSET Fast]
  /\ assigned \subseteq Table \X Name
  /\ \A t \in Table, n \in Name : slot[t][n] # Absent => <<t, n>> \in assigned
  /\ late \subseteq assigned

\* Reading any element of any object gives what the language says, through the
\* chain of __index handlers: the value found, the handler called and the object
\* it is called with, or the error for a chain that never ends (vm_table_get).
IndexAgrees ==
  \A v \in Value, n \in Used :
    LET w == vm_table_get(v, n)
    IN  ~Departs(w) =>
          /\ Outcome(w) = Place(v, n, "__index")
          /\ w.end = "value" => w.value = Raw(w.at, n)

\* So does assigning to one, through the __newindex handlers, and the keys
\* inserted on the way had no value that would be lost (vm_table_set).
AssignAgrees ==
  \A v \in Value, n \in Used :
    LET w == vm_table_set(v, n)
    IN  /\ ~Departs(w) => Outcome(w) = Place(v, n, "__newindex")
        /\ \A p \in w.inserted : Raw(p[1], p[2]) = Nil

\* A read is undefined, which for a global is an error, or nil: never undefined
\* when the element has a key, and never nil for a key no table ever had
\* (key_exists in vm_table_get, OP_GET_GLOBAL).
UndefinedIsUnassigned ==
  /\ TypeOK
  /\ \A t \in Table, n \in Used :
       LET w == vm_table_get(t, n)
       IN  /\ w.end = "undefined" => slot[w.at][n] = Absent
           /\ w.end = "value" => <<w.at, n>> \in assigned

=============================================================================

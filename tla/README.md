# A TLA+ model of Lulu

Lulu is a Lua 5.1 interpreter. This directory models the maintained C++
implementation, `src/cpp/src`; all paths below are relative to it. The program
is single-threaded and keeps nothing on disk. What is hard about it is
*re-entrancy*: any growing allocation may run a collection, any instruction may
call a metamethod, any call may throw through several frames, and each of these
happens while some operation is half done. What is hard about its compiler is
*order*: it emits code in one pass, for values whose place is decided later.

## 1. The system

| Component | State | Operations | Interacts with |
| --- | --- | --- | --- |
| Garbage collector (`gc.cpp`) | mark bits of every object, `gray_head`/`gray_tail`/`gc_list`, `g->objects`, `gc_state`, `gc_threshold` | mark roots, trace, remove unmarked strings, sweep | called from `mem_rawrealloc`; reads stack, frames, upvalues, tables, Intern |
| Upvalues and closures (`function.cpp`) | `L->open_upvalues`, `Upvalue::value/closed` | `upvalue_find`, `upvalue_close`, `closure_lua_new` | OP_CLOSURE, OP_CLOSE, OP_RETURN, `set_error_object`; blocks of the compiler |
| Calls, frames and errors (`vm.cpp`) | `L->frames`, `caller`, `window`, `saved_ip`, error handlers | `vm_call_init`, `vm_call_fini`, `vm_pcall`, `vm_throw` | the interpreter, the C API, metamethods |
| Bytecode interpreter (`vm.cpp`) | registers, `ip` | one per opcode | everything |
| Tables (`table.cpp`) | array part, open-addressing hash part, `count` | get, set, resize/rehash, next, length | the collector (allocates while rehashing), metamethods |
| String interning (`string.cpp`) | buckets, `count` | `ostring_new`, `intern_resize` | the collector frees strings out of the buckets |
| Memory and collector control (`mem.cpp`, `lulu_gc`) | `n_bytes_allocated`, `gc_threshold`, `gc_prev_threshold` | grow, shrink, stop, restart, collect | every allocation |
| Metamethods (`metamethod.cpp`, `vm.cpp`) | absence flags of metatables | `vm_table_get`, `vm_table_set`, `mt_get_fast` | tables, calls |
| Lexer (`lexer.cpp`, `stream.hpp`) | the block of the reader, current character, line, buffer | `lexer_lex` | called by the parser; calls the reader; makes strings |
| Compiler (`parser.cpp`, `compiler.cpp`) | tokens, blocks, active locals, free register, jump lists, chunk and constant table on the VM's stack | one per construct | the lexer, the collector; produces what the interpreter runs |
| Debug information (`debug.cpp`, `chunk.cpp`) | ranges of locals in a chunk | `chunk_get_local`, `get_obj_name`, `debug_type_error` | written by the compiler, read when the interpreter fails |
| Libraries, command line | | | see section 7 |

Correctness, component by component:

* **Collector.** Nothing the program can still reach is freed; all else is;
  every collection ends; the gray list never loses a container.
* **Upvalues.** A captured variable is one cell: shared by every closure that
  captures it, seen by the function that declared it, alive after its scope.
* **Calls.** Each frame gets its own window and the caller gets its own back,
  on return and after errors; missing arguments and results are nil.
* **Tables.** A table is a partial function from keys to values whatever its
  layout; resizing loses nothing; iteration visits each key once and ends.
* **Interning.** Equal strings are one object; a string in use stays interned.
* **Memory.** The count is what is allocated; stopped means stopped and
  restarted means running.
* **Metamethods.** A lookup sees the metatable as it is now.
* **Lexer.** A text is the tokens it looks like, however the reader cuts it.
* **Compiler.** The compiled program does what the source says; registers,
  jumps and blocks are an implementation of that. What it holds while it works
  is not collected.
* **Debug information.** A name in an error message is that of the value that
  caused the error.

`PROJECT.json` lists under `hazards` where the code is exposed to breaking
these, line by line.

## 2. Modules

| Module | Models | |
| --- | --- | --- |
| `Gc` | `gc.cpp`, and what the VM does to the object graph between collections | sets of objects; the lists are sets |
| `GrayList` | the pointers of the gray list in `gc.cpp` | implements `Gc` |
| `GcProofs` | | theorems about `Gc` |
| `GrayListProofs` | | theorems about `GrayList`, that it implements `Gc` among them |
| `Cells` | | what lexical closures promise |
| `Upvalues` | `function.cpp`, OP_CLOSURE/OP_CLOSE/OP_RETURN, `vm_pcall`, the compiler's blocks | implements `Cells` for programs that capture in ascending order |
| `Calls` | | what calls promise |
| `UpvaluesProofs` | | theorems about `Upvalues`, that it implements `Cells` among them |
| `CallFrames` | frames, windows, arguments, results and errors in `vm.cpp`, and the calling functions of `api.cpp` | implements `Calls` as long as calls keep to conventions (below) |
| `CallFramesProofs` | | theorems about `CallFrames`, that it implements `Calls` among them |
| `Sizes` | `mem_ceil_log2`, `mem_next_pow2`, `table_array_compute_size` | used by `LuaTable` |
| `LuaTable` | `table.cpp`: array and hash part, rehashing, length, traversal | against a dictionary `map` |
| `LuaTableProofs` | | theorems about `LuaTable`, that it is the dictionary among them |
| `Strings` | `string.cpp` (interning, the builder's buffer), `mem.cpp`, `dynamic.hpp`, `lulu_gc` | |
| `StringsProofs` | | theorems about `Strings` |
| `Metamethods` | `metamethod.cpp`, the `vm_table_get` family of `vm.cpp` | against the rule of the language, `Place` |
| `MetamethodsProofs` | | theorems about `Metamethods`, that it follows that rule among them |
| `Lexemes` | what a token looks like | reference definitions |
| `Lexer` | `lexer.cpp` over `stream.hpp` | against `Lexemes` |
| `LexerProofs` | | theorems about `Lexer` and about `Loading` |
| `Loading` | what keeps strings alive from lexer to closure: `lexer_new_ostring`, the parser's tokens, `function_open`/`close`/`push` | |
| `Compiler` | `compiler.cpp` | used by `Parser` |
| `Parser` | `parser.cpp` as it drives the compiler, over programs given as trees | used by `Machine` |
| `Machine` | `vm_execute`, one action per opcode, running what `Parser` produced | against `Meaning` |
| `Meaning` | what a program means, with cells and environments | reference definitions |
| `Debug` | `debug.cpp` and `chunk_get_local`: the names in error messages of a `Machine` that fails | against the culprits of `Meaning` |
| `MC...` | | small instances for TLC |

How they fit together. The lexer's tokens are what `Loading` takes any sequence
of and what `Parser`'s trees are made of. The code `Parser` makes runs on
`Machine`, which takes from the other modules what it leaves out: a table is a
function there (`LuaTable` shows that it is), a closure's variable is a slot or a
cell (`Upvalues`), a call copies arguments and results (`CallFrames`),
metatables are absent (`Metamethods`), nothing is collected (`Gc`, `Strings`,
`Loading`).

### Gc

`alloc`, `refs`, `caps`, `stack`, `open`, `closed` are the heap: the allocated
objects, what each container refers to (keys, values, metatable, constants,
child functions), the upvalues a Lua closure has, the value stack, and for each
upvalue its slot or its own value. `mark` is the header's colour. Tables,
chunks, userdata and functions are all *containers*: the collector treats them
alike except for the upvalues of Lua functions. Strings are separate, because
they are never in the gray list and are freed by `gc_remove_intern`.

One action per VM operation that changes the object graph, and the collection in
the steps of its loops: `gc_mark_roots`, one turn of `gc_trace_references`,
`gc_remove_intern`, one turn of `gc_sweep`, `gc_finish`. In the code these run
without interruption; splitting them exposes the intermediate states to the
invariants. A collection may start between any two mutator steps. This covers
the allocations of an instruction whose operands are in registers; collections
inside table resizing, interning and compilation are in `LuaTable`, `Strings`
and `Loading`.

`stale` is a history variable, the closed upvalues that were black when the
current collection started. It exists because the code has a defect (section 4):
what is true of the collector is true *except through such upvalues*, and the
properties say exactly that. When a collection has freed something reachable the
program has undefined behaviour; phase `UNDEFINED` stops the model there, which
is why these configurations set `CHECK_DEADLOCK FALSE`.

### GrayList

The same collector with `gray_head`, `gray_tail` and the `gc_list` links, one
object at a time: `gc_mark_roots` and `gc_trace_references` give a function that
marks its `values`, `upvalues` and `tables`, each later step is a turn of one of
its loops, and `RootsMarked` and `gc_blacken_object` are its end.
`gc_mark_object` prepends while roots are marked (phase `MARK`) and appends while
tracing. The loops take their elements in any order, since the code's (stack
slots, hash entries, captures) depends on what `Gc` abstracts. The code blackens
tables, chunks and userdata before their children rather than after them; no
step in between asks whether an object is gray or black.

`ImplementsGc` is refinement of `Gc`: the heap is the same, `before` stands for the
marks, which `Gc` changes in one step when all is marked, and `MARK` for
`PAUSED`. `GrayListAssumption` adds to what `Gc` assumes that there are two
roots, which makes `gray_tail` usable: the tail is only set by the second
container marked, so with a single one the first append would dereference null;
`required_allocations` makes two tables.

### Upvalues and Cells

`marks` is the control stack: C functions, Lua calls (protected or not) and
blocks. `open_upvalues`, `at`, `closed` are the list and the objects; `ref[h]` is
the upvalue pointer in one place `h` of some closure. The history variables
`scope`, `bound`, `maker`, `ordered` record which variable lives in a slot, which
variable a capture was meant for, which call made an upvalue, and whether every
upvalue so far was made above all open ones.

`Cells` has no stack and no upvalues: variables in scope, captures that name
them, contents. The refinement maps a variable's content to its slot while it is
in scope and to its upvalue afterwards, and is claimed for programs that capture
in ascending order (`ordered`). `FramesClosed` does not depend on the order.

Left out: the call of a closure that uses its upvalue (it reads and writes the
upvalue directly; `Machine` has it), the C function between a Lua function and a
protected call may be any number of slots, an error without a handler (the
process exits).

### CallFrames and Calls

`stack`, `frames` and `window` are the fields of `lulu_VM`. A frame has what
`Call_Frame` has and, in `how`, what its caller knows on the C stack: the locals
of `lulu_call`, `vm_call_mt_res` and `vm_pcall`, and how many of its values the
caller keeps. `live` and `open` stand for the compiler's bookkeeping of the
running Lua function: how many registers are in use, and whether a VARARG call
has just put an unknown number of values above them. `L->caller` is the last
frame, or null.

Actions are the instructions that call or return (OP_CALL, OP_FOR_IN, OP_RETURN,
OP_SET_ARRAY, those with metamethods) and the API functions a C function calls
with. Each takes `vm_call_init` through to the first state of the callee, or to
the vm_pcall that catches the overflow; a return takes `vm_call_fini` and what
the caller does at once with the results. Which function is called is chosen at
the call: a C function, or a Lua function with any `stack_used` of `StackUsed`
and any number of parameters. Instructions that only compute are `Load`; blocks
that end and temporaries that are dropped are `Free`.

`Calls` has no stack. It is a sequence of activations, each with its own values
and what its caller asked for; a call passes exactly the arguments, a return
exactly the results, an error unwinds to the innermost protection, and nothing
else of a caller changes. The refinement reads an activation's values out of the
window: the registers in use, or what a waiting caller keeps.

`strays` is a history variable. It names the departures from what callers rely
on, each at the step that makes it: `missing`, `returned` and `window` are
defects of section 4; with `grown` a C function gets its window back with the
arguments of a metamethod still in it (`vm.cpp:451`), with `host` the window of
the host program no longer starts at its first value (`vm.cpp:565`), with
`leaked` a frame stays in `L->frames` after an error that the host program
catches (`vm.cpp:196`: `frame_index(nullptr)` is 0, and frame 0 is kept). The
refinement is claimed for steps without a departure.

Left out: table contents (what OP_SET_ARRAY stores), upvalues (see `Upvalues`),
operands that are constants or C locals, the pushes that build an error message,
errors without a handler, and the check that what is called is a function.

### Sizes and LuaTable

`t` is a `Table`: `array`, `entries`, `count`. `map` is the dictionary it should
be. `Assign` is the program's assignment, which calls `table_set`: `call` is the
`table_set` that runs, its key and the value its caller is about to store. `Store`
finds a place and ends it; `Rehash` finds none and enters `table_rehash` and
`table_resize`. `resizes` is the C stack of the `table_resize` calls that are not
over, with their locals (the old parts, the loop and its index, the sizes, the
`table_set` to repeat): their loops call `table_set` for every pair they move
(`MoveElement`, `InsertEntry`), which may find no place and rehash in turn, so
that resizes nest. `CutArray` is between the two loops, `Return` repeats the
`table_set` that had no room. `rehashes` and `nth` count the rehashes of one
assignment, which the properties on room need. If a rehash inside the loop that
moves elements out of the array part reallocates that array, the outer
`table_resize` has a dangling slice: `phase` is then `"UNDEFINED"`, which
`ArrayStays` says it never is.

A traversal is `StartPairs` and `NextPair`, with assignments in between; `seen`,
`twice`, `stayed`, `calm` are its history. `NextOf` is `next` with any key.

Integer keys are numbers up to `MAX_INDEX`, the largest that `count_index`
counts, with a hash chosen so that they collide with names; numbers that are not
integers are among the names. `Stored` bounds the values an instance stores under
a key. Metatables are in `Metamethods`. `mem_ceil_log2` is what the loop of
`mem.cpp` computes, its turns being the least number after which the lookup table
covers what is left.

### Strings

`text[o]` is the content of the string at address `o`, `chains` and `slots` the
table of buckets, `count` is `Intern::count`; `bytes`, `threshold` and the saved
threshold are those of `lulu_Global`, `buffer` the length and capacity of a
`Builder`. Allocations count, then collect if the count has passed the
threshold, then may be refused by the host's allocator; each place in
`ostring_new` where that can happen is an action (`NewStringRefused`,
`NewStringGrows`, `NewStringGrowRefused`). The collection frees the strings that
are neither fixed nor in `roots`, as `gc_remove_intern` does (how they are found
is in `Gc`). `Stop`, `Restart` and `Collect` are `lulu_gc`.

### Metamethods

`slot[t][n]` distinguishes a key that is absent from one whose value is nil.
`vm_table_get` and `vm_table_set` are walks, `GetTurn` and `SetTurn` one turn of
their loops, with the locals of the source; `GetWalks` and `SetWalks` are where
such a loop is after so many turns. `Place` is the language's rule: of the
objects an access asks (`Asked`, the least set with the object and the handler of
each in it that does not decide) it is the one that decides, if there is one.
`IndexAgrees` and `AssignAgrees` compare every access in every reachable state
with it. `late` is history: the handlers that were stored when their absence had
been remembered.

### Lexemes, Lexer and Loading

A text is a sequence of characters, made up as the reader gives it in blocks of
one or two. `at` says in which loop of `lexer.cpp` the lexer is and holds its
locals; a step reads one character, as a turn of the loop does, or ends a token.
`Lexemes` says which texts are tokens without saying how they are found. The
alphabets hold some characters of each kind: two of the digits, nine letters,
two keywords, a few one-character operators.

`Loading` puts together the parser's C variables (`current`, `lookahead`, and
`held` for a token that was consumed), the functions being compiled, each with
the strings of its constant table and of its chunk on the VM's stack, the table
the lexer uses (`indexes`) and the interned strings. `Collect` may come between
any two steps. What the program says is left to choice, so that every order of
names, literals, constructors, functions and ends is taken. A function has
`ident` besides, the C variable of `for_numeric` or `for_generic` whose header is
being compiled: it is held longest, over whole expressions with functions in
them, and functions in a header may have headers of their own. The names of the
locals that the parser declares itself (`self` once the parenthesis is consumed,
those of a `for` loop) come one after the other (`AfterLiteral`). `late` marks
the token for which the code is wrong (section 4).

### Compiler, Parser, Machine and Meaning

A function of `compiler.cpp` that changes the compiler is an operator from
compiler to compiler; one that also changes an expression works on a pair. They
are pure, and a program is compiled in the initial state. `verdict` has the
assertions that failed and the places where the code made is known to differ
from the language (`departs`, listed in section 4); `Avoided` names the
departures with which programs are not run (status `refused`).

`Machine` has one stack for all frames, so that a wrong register, window or
upvalue shows as a wrong value. `Meaning` evaluates the same tree with cells and
environments. `OutcomeIsMeaning` compares what was printed and how the program
ended. `stray` notes that the running program left a convention on which the
interpreter is known to fail (as in `CallFrames` and `Upvalues`).

`Debug` reads the chunk of the frame that fails as `debug_type_error` does: the
ranges of its locals, which `local_start` and `end_locals` record, and the code
before the failing instruction. `Meaning` notes with an error the names of what
caused it (`culprits`), if it has any. `CulpritNamed` asks that a name that is
given is one of them; giving none is always allowed, as for upvalues.

Numbers that are concatenated become strings in their registers, as
`vm_to_string` makes them. Left out: recognising the tree in the tokens
(precedence, syntax errors), line tables, strings as operands of arithmetic (no
program has one), division and comparison of strings, metatables, limits on
constants and registers (`MAX_REG` and `MAX_RK` have their real values and are
not reached). The sizes that OP_NEW_TABLE carries are 0: they are hints.

## 3. Runs

| Run | Instance | Shows |
| --- | --- | --- |
| `gc` | globals, a table, a closure, a string, an upvalue, 2 slots | tricolour marking; no garbage left; nothing reachable freed; every collection ends |
| `gray_list` | globals, registry, 2 closures, a fixed string, an upvalue, 1 slot | shape of the gray list; refinement of `Gc` |
| `upvalues` | 4 slots, 4 marks, 2 captures, 2 upvalues, 5 variables, 2 values | one upvalue per variable; no upvalue outlives its call; refinement of `Cells` |
| `call_frames` | 10 slots, 3 frames, Lua functions with 1 or 6 registers, C functions with 2 slots | limits; each function finds its own window again; refinement of `Calls` |
| `tables` | 3 rehashes in an assignment; small: 2 names, 4 integer keys up to 5, up to 8 array elements and 4 entries; large: 64 array elements, 16 indices up to 23, up to 16 entries | a dictionary; length a border; a rehash makes room for what it moves and for its key, and leaves an array part that is being moved out of where it is; traversals exact |
| `tables_room` | 3 names, 4 integer keys, a logarithm table of 1 bit | violation, section 4 |
| `strings` | 3 addresses, 3 texts (one fixed), a table of 1 to 4 chains, buffers up to 3, one refusal of each kind | chains; interning; roots live; bytes; load; the pause |
| `metamethods` | 2 tables, a function, a string, an ordinary name, `__index`, `__newindex`, `__unm` | every access agrees with the language |
| `lexer` | 4 alphabets, texts up to 7 characters, 2 tokens | order, lines, longest tokens, errors, termination |
| `loading` | 2 texts, one of which the parser makes itself too, 3 nested functions | tokens and constants live |
| `compiler` | about 3000 programs, a third of which fail | assertions; registers and jumps fit; the outcome is the meaning; a name in an error is the culprit's; programs end |
| `compiler_values` | the same programs | violation, section 4 |

Why these bounds. In `gc` tables and the closure form cycles, through the
upvalue too, and an upvalue is captured, closed and handed over across
collections; one string is enough to see a child freed. Addresses are reused, so
behaviours are not limited to a number of allocations or of collections. In
`gray_list` two closures can share the upvalue, and four containers make lists
longer than the distance between head and tail, and cycles; the two closures are
interchangeable, and so are the two roots. In `upvalues` four
marks allow a block in a call from a protected call, with room for a call from
a function that left a block, the case in which an upvalue left open could be
mistaken for one of the callee's; four slots let two variables of a block be
captured in either order. `MaxProtectedArgs` is 0 because of section 4. In
`call_frames` three frames hold every caller and callee kind, with one between
the handler and the error, and the limit is met; six registers are what a
generic loop needs, and with ten slots both its call and a call that overflows
happen. One parameter, and up to one result or VARARG, tell missing, exact and
surplus apart. One value is enough because nil and error messages are others: a
slot that is not what it should be is stale, nil or a message. The host program
only calls `lulu_cpcall` (`HostMax` is 0), as `lulu.c` does.

In `tables` the smallest array has 1 element in place of 4, and hash parts are
used up to three quarters from 4 entries on in place of 16 (`CROWD` 2 in place of
8). The run explores (CONSTRAINT `Explored`) small tables in every way: 5 is an
index that hashes while smaller ones are in the array, arrays of 8 elements shrink,
and hash parts of 4 entries crowd, so that rehashes nest. Of the large ones (`Large`)
it explores those in which a rehash happens inside the loop that moves elements out
of the array part: seven elements beyond the cut fill the eight entries that are
made for them and for a name (thirteen and sixteen with the code's `CROWD`). Indices
get their values in ascending order there, 1 at any time, and none is deleted. When
all sixteen have one the array is as full as it may be without 32 elements being
chosen: counting one key twice breaks `ArrayStays`. An index has 8 bits in place of
32, which no key exceeds; only tables with the keys of `Walked` are traversed. With
`MaxRehash` 3 an assignment makes every rehash that it makes in these bounds (a
fourth would violate `RoomAfterRehash`, which is checked at the bound).
`tables_room` scales the lookup table from 8 bits to 1: the sizes at which the code
goes wrong are then 3 and more in place of 257 and more. In `strings` the table
starts with one bucket in place of 32 and buffers with 2 in place of 8, so that both grow twice. In
`metamethods` `MT_MAX_LOOP` is 4 in place of 100, more than chains of two tables
need; cycles of one and two tables reach it. `MaxKeys` is two elements, so that
a handler and an element, or two handlers, exist. In `lexer` each alphabet has
the characters that interact: brackets with `=`, `-` and newline; digits with
points and exponents; quotes with backslashes and newlines; letters with
operators. Seven characters hold a long string of level 1 with a character in it, a
comment, or two tokens with space between them; blocks of one and two characters
end anywhere. In `loading` three functions have one that is neither the main nor
the innermost one, each with a `for` header that the next is in; two texts tell
the string that is held from another that is still kept, and one of them is also
that of the names the parser makes itself, so that a program may contain it or
not. The programs of `compiler` cross every
operand with every place a value can be wanted in, every statement with what can
happen in its body, and add the forms of calls, closures, constructors and
assignments with registers of their own; two fields are flushed at a time
instead of 50. The programs that fail cross every use that can fail with every
kind of operand and with places before and after locals that had its register.

Deadlock. `gc` and `gray_list` stop at `UNDEFINED`, `tables` at `hung` (below)
and where the next assignment would pass the bounds, `lexer` at the end of the
text, an error or `MaxTokens`, `loading` when the load has ended or is
`UNDEFINED`, `compiler` when the program has: these set `CHECK_DEADLOCK FALSE`.
The others must always have a step, and do.

`MCUpvalues` and `MCCallFrames` have a VIEW that forgets what cannot be read
again; the reasons are in the modules. Symmetry is used over upvalues, values,
tables, closures, texts and addresses, which no action tells apart, and in no run with a
liveness property. `Foreseen` stops `call_frames` at departures.

Fairness. `FairSpec` of `Gc` assumes weak fairness of the collector's steps: a
collection is a sequence of loops in one call, and nothing else runs until it
returns. `Lexer` and `Machine` assume weak fairness of their next step: they are
loops of one thread. Nothing else assumes fairness, and nothing more is needed
for `CollectionEnds` and the two properties `Ends`.

Types. The modules whose runs do not list `TypeOK` have it as a conjunct of
another invariant (`OnePerVariable`, `StackRoom`, `UndefinedIsUnassigned`,
`ReadInOrder`, `FrameFits`), or proved (`Gc`, `Loading`); in `Strings` it is `InternOK`.

Every property of a passing run comes with a mutant in `PROJECT.json`: a version
of one definition with a plausible bug, under which that property fails.

## 4. Where the code disagrees with its own words

Two disagreements have a run of their own:

1. **Sizes are rounded down** (`mem.cpp:51`, run `tables_room`). `mem_ceil_log2`
   drops the low bits before it looks the logarithm up: `mem_next_pow2(257)` is
   256 (`mem.hpp:25`: "Rounds `n` to the next power of 2"). A hash part of 257
   keys is still full after its rehash, and `table_hash_set` calls itself for
   ever (`table.cpp:472`: "by that point there is already a free array index or
   free hash slot"). The code array of a chunk grows by the same rounding
   (`chunk.hpp:68`): the instruction after the 256th is written beyond it.
2. **An operand loses its value** (`compiler.cpp:340`, run `compiler_values`).
   When one of the jumps of an `and` or `or` comes from a comparison, all of
   them are sent to the instructions that load `false` and `true`, also those
   whose TEST_SET has left the operand: with `n = nil`, `print(n and (b < 3))`
   prints `false` (`tests/logic/logic2.lua:30`: "falsy and falsy -> first falsy").

The others are in the model as steps like any other. A history variable records
that one was taken, and the properties say what holds of behaviours without it:

* *Collector.* An upvalue blackened while open is moved to `g->objects` still
  black and is not traversed by the next collection (`gc.cpp:231`; `stale`).
* *Upvalues.* New upvalues go to the head of a list that both searches take for
  sorted (`function.cpp:71`, "We assume the upvalue list is sorted"; `ordered`).
  A caught error leaves upvalues on the arguments of the protected call open
  (`vm.cpp:208`; `MaxProtectedArgs`).
* *Calls.* Missing parameters keep stale values after VARARG arguments
  (`vm.cpp:501`; `missing`); OP_RETURN counts VARARG results from the start of
  the window (`vm.cpp:1229`; `returned`); the short window after `{f()}` is not
  reverted (`vm.cpp:983`; `window`); `grown`, `host`, `leaked` as above.
* *Tables.* `next` with an absent key never ends in a full hash part
  (`table.cpp:642`; `hung`); an assignment in a traversal may rehash, even one of
  nil to a key that exists, and a key is then seen twice or not at all (`calm`);
  `table_next` returns keys whose value is nil; 4294967297 is index 1
  (`table.cpp:210`; such keys are not in the model); shrinking the array loses
  its bytes from the count. With 13 to 16 keys for 16 entries reinsertion meets
  the load limit and rehashes the table it fills, although "We assume no
  reallocation will occur" (`table.cpp:364`). The rehash nests and the table is
  right in the end (`ReadsBack` is checked and proved with nested rehashes), but
  what the outer `table_resize` still holds is out of a collection's sight;
  `RoomAsAsked` says what holds otherwise: where all the entries that were asked
  for may be used, nothing rehashes again.
* *Strings.* `Intern.count` is never lowered (`string.cpp:283`): the table grows
  with the strings ever made. The bytes of a refused allocation stay counted
  (`lost`). Stopping twice, or collecting while stopped, loses the threshold
  (`repeated`).
* *Metatables.* The absence of a handler is remembered and not forgotten when it
  is stored (`metamethod.cpp:37`; `late`). A function found behind another
  handler is called with itself (`vm.cpp:660`; `local` of a walk). An assignment
  inserts its key before `__newindex` is looked for (`vm.cpp:677`). The unary
  operators of a value that is not a table ask for `__len` (`vm.cpp:715`). A
  global that was assigned nil is undefined or not depending on rehashes.
* *Lexer.* A bracket in a long string or comment that does not close it takes the
  next one along: `[[a]b]]` gains a bracket, `[=[x]]=]` does not end
  (`lexer.cpp:186`; `stray`). After a backslash at the end of the text the reader
  is called again (`lexer.cpp:429`; `cut`). The byte 0xFF is the end of the text.
  After the prefix of a base `strtoul` takes one of its own: `0x0x0` is a number
  (`string.cpp:57`); C23 libraries take `0b` in base 2 likewise, which is not
  modelled.
  `>` and `>=` have each other's token (`lexer.cpp:525`), which the parser's
  table of operators makes up for.
* *Names in errors.* Jumps are not followed when the source of a value is looked
  for, because the offset of OP_JUMP is never put into `b` (`debug.cpp:457`): with
  `g = 2` and `n = nil`, `(g or n)()` fails for the value of `g` and the message
  names global `n` (`Bypassed`). `end_pc` is the instruction after the block, and
  the range is taken with it (`chunk.cpp:93`): `for v in nil do end` complains of a
  local `v`, and `do local a end local b b.k = 1` of `a` (`AtBoundary`).
* *Loading.* The token after the `end` of a function is lexed into that
  function's table, which is then popped (`parser.cpp:986`): a name there may be
  freed before it is used, against `parser.cpp:206`, "We assume the Lexer
  properly marked the interned string somewhere." (`late`).
* *Compiler* (the names are those in `departs`).
  `operand with jumps`: an operand that becomes a constant keeps the jumps of its
  `and` or `or` unpatched (`compiler.cpp:398`, 430).
  `not of jumps`: `not` of a folded value or of a jump keeps the lists as they are.
  `boolean operand`: true and false are taken for one another when they become
  constants (`compiler.cpp:403`): `x == true` compares `x` with false, and
  `t.k = false` stores true.
  `nil folded at a jump target`: OP_NIL is folded into the instruction before
  just where a jump leads between them (`compiler.cpp:89`); a function that starts
  with a jump target and then has a nil to load, as `repeat local a until true`,
  looks at instruction -1 (`compiler.cpp:103`), on which an assertion fails in
  builds that check indexes: such a program is refused.
  `assignment conflict`: `t[i], i = ...` assigns to `t` at the new `i`.
  `value of a test`: finding 2. `values of for in`: the expressions of a generic
  loop are not adjusted to three when the last is a call (`parser.cpp:644`).
  Besides: a repeat loop whose local is captured fails an assertion
  (`parser.cpp:73`); a call as the last of several returned values returns too
  many (as `returned` above); `-2^2` is 4; parentheses do not truncate calls. A
  comparison that coerces or calls a metamethod overwrites R(0) or R(1)
  (`vm.cpp:811`), and OP_GET_GLOBAL with an `__index` function writes outside the
  stack (`vm.cpp:594`): neither is in `Machine`.

## 5. What is proved

`GcProofs`, for every heap, stack size, program and number of collections, from
`GcAssumption` only (the sorts are disjoint, the roots are containers):
`InductiveInvariant`, `TypeCorrect`, `TracingIsTricolour`,
`NothingReachableIsFreed`, `CollectionsAreExact`.

The argument. Reachability is defined as membership in every set that holds the
roots and is closed under references; `ReachableLeast` and `ReachableClosed` are
all that is used of it, so no induction over paths is needed. `Tricolour` is not
inductive alone: whether it is established by `gc_mark_roots` depends on the marks
being clean between collections (`MarkInv`), which depends on what the sweep has
done so far (`SweepInv`, `TodoInv`), which depends on the heap the mutator left
(`IntactInv`, `FreeInv`). `IInv` is the conjunction. That nothing reachable is
freed follows at the end of tracing, because the marked objects are then a
closed set that holds the roots (`FreedStringsAreGarbage`), and during the sweep
because what it will leave alone is such a set (`FreedObjectsAreGarbage`). The
converse, that a collection leaves no garbage, needs that what is marked is
live or stale (`MarkedInv`) and that garbage still allocated waits for the sweep,
which will find it white (`GarbageInv`).

`GrayListProofs`, for every heap, order of marking and number of collections, from
`GrayListAssumption`: `ListsAreInShape`, `ListsImplementGc`, `ListsFreeGarbage`.
The invariant says that there is a sequence of the gray containers that the
links spell (`IsList`) and where `gray_tail` is in each phase (`IsTail`); a push, an
append and a pop keep that (lemmas `Pushed`, `Appended`, `Popped`). While roots
are marked the tail is null on lists of length one, which an append would not
survive: that the list is longer when tracing begins needs that both roots were
white and so turned gray, which is `Gc`'s invariant between collections, carried
over by the refinement. That the loops together do what `Gc` does in one step is
`LoopInv`: the marks are always those of `before` with what is already taken from
`values`, `upvalues` and `tables` marked, whatever was taken first, because marking
one thing more is the same as marking it with the others (`MarksValue`,
`MarksUpvalue`). What is proved of `Gc` then holds of the pointers.

`StringsProofs`, for every set of texts, every hash function and every size of
the table and width of `usize`, from `StringsAssumption`: `StringsAreInterned`,
`RootsAreLive`, `ChainsAreRight`, `ChainsStayShort`, `BytesAreExact`,
`PausesAreHonoured`. Interning is inductive only together with
where strings are: a search that finds nothing means that there is no such
string only if every string is in the chain of its hash (`InternOK`). The lemmas
say that doubling and sweeping keep that; `ChainsStayShort` adds that the count
is at least the number of strings. `Accounts` says what holds of the heap in the
middle of an operation: its count is that of the strings a collection inside it
left, and of what was allocated before. The buffer's capacity is right because
`mem_next_fib` ends, at or above what it was asked for (`NextFib`). That no
collection pauses collections is arithmetic: the threshold it sets is twice a
number, so even, wrapped or not, and `USIZE_MAX` is odd (`private.hpp:39` defines
it as 2^w - 3). That paused collections stay away needs that the count never
passes `USIZE_MAX`, which is what `api.cpp:616` assumes (`Requestable`).

`LexerProofs`, in its second half, which is about `Loading`, for every set of
texts and depth of functions, from `LoadingAssumption`: `LoadingInvariant`,
`TypeCorrect`, `TokensAreLive`, `ConstantsAreLive`, `TableIsInnermost`. That a
token is not freed follows from where it is kept (`TextKept`: its text is in a
table or chunk on the stack, or it is late), which needs that the lexer's table
is the innermost function's whenever it makes a string, and that nothing is
looked ahead or held when a table is popped (`LoadSteps`). The variable of a `for`
outlives the functions in its header because it was lexed after the keyword, when
the function that has the header was the innermost: it is in that function's own
table, which is not popped before the header ends (`HeadersKept`).

`UpvaluesProofs`, for every stack size, nesting of blocks and calls, set of
closures and program, where protected calls have no arguments
(`MaxProtectedArgs = 0`; with arguments `lulu_pcall` leaves upvalues on them open
after an error, which section 4 describes): `CallsCloseTheirs`,
`UpvaluesAreVariables`, `UpvaluesImplementCells`. The list is ordered by the calls that made its upvalues
(`ListInv`), whatever slots they are on, so the front that `upvalue_close` cuts
off when a call leaves has all of that call's; that is `FrameInv`. That captures
of one variable share an upvalue needs more, and needs ascending captures: the
list is sorted, names in scope are distinct (`NamesInv`), and an open upvalue is
on a variable in scope whose innermost block is marked to end in OP_CLOSE
(`ScopeInv`), so no slot is given to a new variable while an upvalue is on it.

That `Upvalues` implements `Cells` is then a matter of contents: closing an
upvalue copies the slot of the very variable it is on, so the content `Cells`
remembers under the variable's name is what the refinement reads before and
after; each action maps to one of `Cells` or to a stutter.

`CallFramesProofs`, for every size of the stack and of the array of frames, every
set of sizes a function may need and every sequence of calls, from
`CallFramesAssumption` (the sizes fit the stack, the host's window fits it, `Nil`
is no frame and no number): `FramesInvariant`, `StackHasRoom`,
`WindowsAreRestored`. The invariant says nothing after the first departure, for
then the properties are false (section 4), and `StackHasRoom` says so in its
statement, as the run does with its CONSTRAINT `Foreseen`; `WindowRestored` is an
action property that names the departure itself. Before it, each frame is on the
stack with the slots its function may use (`OnStack`) and fits the frame below
(`Joined`): where its window begins, that the caller has room for the results it
asked for, that the stack index a metamethod's result goes to is in the caller's
window. That is what a return relies on, since it computes the caller's window
from these locals; and a `vm_pcall` further down has locals that fit the
frame it is going to restore (`Catches`), which an error relies on.

From the same, in the second half of the module: `CallFramesImplementCalls`, every
behaviour of `CallFrames` is one of `Calls`. Activations are slices of the stack: `ActsOf` gives
for each frame what its caller keeps or, for the last one, its registers in use
(`RunEnd`). The lemmas on slices say how a call splits the running slice into the
caller's and the callee's, how a return joins results to what the caller kept,
and that no step writes below what the innermost frame owns, so that the other
activations are unchanged. There is a lemma for each action and for each way it
can go (a C or a Lua callee, a fixed or a variable number of results, a frame or
slot too many, an error with and without a handler), and the theorem is by cases
on `Next`. Once a step has departed the refinement claims nothing.

`LuaTableProofs`, for all keys, values and hash functions, every minimal size of
the two parts, load limit, presize and order of assignments, and rehashes nested
to any depth, from `TableAssumption` and `LookupAssumption`: `Invariant`, `Types`,
`Reads`, `Traversals`, `Lengths`, `Rooms`, `Stays`. Four invariants make `Inv`:

* `TypeInv`: the table has a `Shape` (each key is where its search ends, the hash
  part has a power of two of entries, the count is that of those in use, none has
  a key the array part would answer for), and a `table_resize` that is moving
  elements out of the array has them beyond a size that is a power of two.
* `CarriedInv`: what was in the table when a rehash emptied it, and is not back, is
  in a local variable of some `table_resize` or is the pair of some `table_set`.
  `Carried` are the places where such pairs are (level of the stack, which
  variable, index). Two of them never have the same key, and the table has none of
  their keys.
* `KeptInv`: what is carried or in the table is what was assigned last. With
  nothing carried that is `ReadsBack`; and it is not inductive without the
  distinctness above, for an older value would overwrite a newer one.
* `WalkInv`: the keys a traversal returned are those up to the position of its
  cursor, as long as no rehash changes positions.

The lemmas on a single table come first: what a search returns in terms of the
entries before it (`Probes` is a permutation of the places), that `Put` stores
under one key and leaves all searches for others where they were, what emptying
and cutting leave. That a rehash nested in the moving loop keeps pairs in one
place needs that `Shrinks` cuts at a power of two not above the largest index.
`Lengths` holds in every state, the midst of a rehash included, because it needs
`Shape` alone.

`Rooms` says that where the entries that were asked for may all be used, the
insertions of a rehash do not rehash again: `RoomInv` counts the keys that still
have to go to the hash part (`Bound`) and those that are in it already against
`n_hash`. It needs that the elements counted into the array part really go there, and
so that no index is counted below its size: `FewIndices`, the indices are at most
2^`LOOKUP_BITS` (256). Beyond that `mem_ceil_log2` rounds down (section 4) and the
counts are wrong.

`Stays` says that while a `table_resize` moves elements out of its array part, no
rehash below it gives that part another size, which would leave it with a pointer
to freed elements: `"UNDEFINED"` is not reached. Such a rehash chooses a size anew,
with some elements counted where they are now, and some, those not moved yet,
not at all. It chooses the same one, because of what `StayInv` keeps for
every such loop on the stack (`StayFits`): the part is more than half full, since
nothing in it is touched; all that is assigned meanwhile was in the old array; and
of the old array no larger power of two would have been more than half full,
since the outer rehash took the largest that was (`CutFits`). What is counted are
different keys, since in the midst of a rehash no entry has a nil value
(`CountedAreKeys`), so there are no more of them than the old array had
(`SizeStays`). This too assumes `FewIndices`; the other theorems do not.

`LexerProofs`, for every set of alphabets, length of the text and number of
tokens, from `LexerAssumption` (no text has the byte 0xFF, which `get_char` cannot
tell from its end): `CharactersAreReadInOrder`, `LinesAreRight`. What is left of a
block is what the reader supplied beyond the text (`StreamOK`), so `get_char` adds
the next character or finds that there is none (`Advanced`). All steps are then
seen to be alike (`NextIsOrderly`): each discharges nothing, or the current
character, or the end of the text on the way to an error; a newline is never
discharged uncounted; and what an error leaves behind is not read on. Both
properties follow from that, the line by counting one place at a time
(`CountOne`).

`MetamethodsProofs`, for all tables, functions, strings and names, and every limit
of the loops above the number of tables, from `MetaAssumption`: `Types`,
`Indexes`, `Assignments`, `Undefined`, from `Invariant`: an absence that a table
remembers is one, or a handler was stored after it (`Cached`), which is the
departure `late`. That is inductive together with the types: a walk adds only
absences it has seen, inserts only keys without a value, so what was absent stays
so, and only a store can falsify what is remembered, and is noted then. A turn
of a loop goes on with the handler of an object that does not decide or ends at
one that does (`Turned`, `GetTurnIs`, `SetTurnIs`). Then there are two cases. If
the walk ends, the objects it passed are closed under asking and are all in every
set that is, so they are what the language asks, and the last is the only one
that decides (`EndsThere`). If it is still going on at the limit, it asked more
objects than there are tables, so two of them have the same metatable and the
same handler; the objects up to the second are closed under asking and none
decides (`EndsNowhere`): what the program calls a loop never ends. That walks are
as many as turns is the library's theorem on recursive functions; with 100
tables or more the limit may cut off a chain that does end, which the
assumption leaves out.

Where such a proof needs induction over numbers (the frame an error unwinds to,
the end of a slice) it goes by a least counterexample (lemmas `Least` and
`Greatest`, from the well-foundedness of the naturals): the library's
induction theorems take an operator as a parameter, which the provers here
cannot instantiate.

Only model-checked: `RoomAfterRehash` of `LuaTable`, which is false in general
(section 4) and in `tables` holds of its bounds; what tokens `Lexer` finds and what
it refuses; the compiler and the names in errors. `CollectionEnds` and `Ends` are
liveness, outside the prover's reach; `Meaning` has recursive operators, which it
cannot take.

## 6. Plan

Done: the collector, upvalues, calls, tables, interning and memory control,
metatables, the lexer, compilation and execution, names in errors, loading;
proofs for the collector, its gray list, upvalues and calls (their refinements
included), tables, interning, metatables, loading, and the lexer's reading. Left,
in this order:

1. Binary metamethods and the window they are called in, as one module over
   `Metamethods` and `CallFrames`.
2. Line tables of chunks (`chunk_line_push`, `chunk_line_get`) under popped
   instructions, which need a line for every part of a program's tree.
3. Recognition of trees in tokens: `expression`'s precedence climbing and the
   recursion limit.

## 7. Not modelled

Line tables of chunks and the disassembler, precedence and syntax errors of the
parser, number formatting and parsing (`Lexer` takes what `strtod` takes for
granted), the libraries and the command line program (I/O and string processing
over the C API), the Odin implementation, the vendored Lua 5.1.5, debugger
printers and the readline binding. The vendored and the Odin sources are more
than half of the repository's lines. Values that are not collectable objects
appear only where a property tells them apart. Of error messages
only the culprit's name is modelled; not modelled is an error outside any protected call, which ends the process.

-------------------------- MODULE CallFramesProofs --------------------------
(***************************************************************************)
(* Proofs about CallFrames for every size of the stack and of the array of *)
(* frames, every number of slots a function needs and every sequence of    *)
(* calls, returns and errors: as long as no step departed from what call   *)
(* conventions foresee, all windows are on the stack and a function that   *)
(* is returned to has its own window again; and the windows and frames     *)
(* behave as the activations of Calls: arguments and results are handed    *)
(* over exactly, callers keep their values and errors unwind to the caller *)
(* of the innermost vm_pcall.                                              *)
(***************************************************************************)
EXTENDS CallFrames, FiniteSetTheorems, SequenceTheorems, WellFoundedInduction, TLAPS

-----------------------------------------------------------------------------
(* The inductive invariant *)

FrameType ==
  [kind : {"C", "Lua"}, base : Slot, len : 0 .. NSlots,
   to_return : Nat \cup {VARARG}, how : HowType]

\* A frame's window is on the stack, with the slots its function may use.
OnStack(f) ==
  /\ f.base + f.len < NSlots
  /\ f.kind = "C" => f.base + StackMin < NSlots
  /\ f.kind = "Lua" => f.len \in StackUsed

\* The locals of a vm_pcall by the function of frame i - 1, or the host program:
\* where that function's window was, and that it had room for the error.
Catches(i, below, c) ==
  /\ c.host = (i = 1)
  /\ i > 1 => /\ below.kind = "C"
              /\ c.cf = i - 2 /\ c.base = below.base
              /\ c.base <= c.top /\ c.top + 1 <= c.base + StackMin

\* What frame i, which is f, has to do with the frame below: where its window is,
\* what called it, and that the caller has room for the results it asked for.
Joined(i, below, f) ==
  LET how  == f.how
      base == IF i = 1 THEN 0 ELSE below.base
      lua  == i > 1 /\ below.kind = "Lua"
  IN  /\ f.base > base + how.keep
      /\ how.by # "meta" => f.base = base + how.keep + 1
      /\ how.by = "op" => lua
      /\ how.by = "api" =>
           /\ ~lua /\ how.resume = base
           /\ f.to_return # VARARG => base + how.keep + f.to_return < NSlots
      /\ how.by # "meta" => how.out = Nil
      /\ how.by = "meta" =>
           \/ f.to_return = 1 /\ how.out \in Nat /\ base <= how.out /\ how.out < base + how.keep
           \/ f.to_return = 0 /\ how.out = Nil
      /\ lua =>
           /\ how.keep <= below.len
           /\ how.by = "op" /\ f.to_return # VARARG => how.keep + f.to_return <= below.len
      /\ how.catch # Nil => /\ how.by = "api" /\ base + how.keep <= how.catch.top
                            /\ Catches(i, below, how.catch)

FramesOK(fs) ==
  /\ fs \in Seq(FrameType)
  /\ \A i \in 1 .. Len(fs) : OnStack(fs[i]) /\ Joined(i, fs[i - 1], fs[i])

\* The window of the function that runs.
Running ==
  /\ top < NSlots
  /\ InHost => window.base = 0
  /\ ~InHost => window.base = caller.base
  /\ InLua => /\ live <= caller.len
              /\ open => window.base + live <= top
              /\ ~open => caller.len <= window.len

Good == TypeOK /\ ~leaked /\ FramesOK(frames) /\ Running

IInv == strays = {} => Good

-----------------------------------------------------------------------------
(* Least and greatest numbers *)

\* A set of numbers has a least one: the interval that ends with it is in no other.
LEMMA Least ==
  ASSUME NEW S, S \subseteq Nat, S # {}
  PROVE  Min(S) \in S /\ \A x \in S : Min(S) <= x
  <1> DEFINE T == {1 .. x : x \in S}
  <1>1. T \subseteq FiniteSubsetsOf(Nat) /\ T # {}
    <2> SUFFICES ASSUME NEW x \in S PROVE 1 .. x \in FiniteSubsetsOf(Nat)
      OBVIOUS
    <2> QED BY FS_Interval DEF FiniteSubsetsOf
  <1>2. PICK e \in T : \A d \in T : <<d, e>> \notin StrictSubsetOrdering(Nat)
    BY <1>1, WFMin, FS_StrictSubsetOrderingWellFounded, Zenon
  <1>3. PICK x \in S : e = 1 .. x
    BY <1>2
  <1>4. ASSUME NEW y \in S, y < x PROVE FALSE
    <2>1. 1 .. y \subseteq 1 .. x /\ x \in 1 .. x /\ x \notin 1 .. y
      BY <1>4
    <2>2. <<1 .. y, e>> \in StrictSubsetOrdering(Nat)
      BY <2>1, <1>3, <1>1 DEF StrictSubsetOrdering
    <2> QED BY <2>2, <1>2
  <1>5. \A y \in S : x =< y
    BY <1>4
  <1> QED BY <1>5 DEF Min

\* A bounded set of numbers has a greatest one.
LEMMA Greatest ==
  ASSUME NEW S, NEW n \in Nat, S \subseteq 0 .. n, S # {}
  PROVE  Max(S) \in S /\ \A x \in S : x <= Max(S)
  <1> DEFINE T == {n - x : x \in S}
  <1>1. T \subseteq Nat /\ T # {}
    <2>1. \A x \in S : n - x \in Nat
      OBVIOUS
    <2>2. PICK x \in S : TRUE
      OBVIOUS
    <2>3. n - x \in T
      OBVIOUS
    <2> QED BY <2>1, <2>3
  <1>2. PICK m \in T : \A y \in T : m <= y
    BY <1>1, Least
  <1>3. PICK x \in S : m = n - x
    BY <1>2
  <1>4. \A y \in S : x >= y
    <2> SUFFICES ASSUME NEW y \in S PROVE x >= y
      OBVIOUS
    <2>1. n - x <= n - y
      BY <1>2, <1>3
    <2> QED BY <2>1
  <1> QED BY <1>4 DEF Max

\* Of the members of a finite set, one has a least set of members above it.
LEMMA MaxOfFinite ==
  ASSUME NEW S, S \subseteq Nat, IsFiniteSet(S), S # {}
  PROVE  Max(S) \in S /\ \A x \in S : x <= Max(S)
  <1> DEFINE Above(x) == {y \in S : y > x}
             T == {Above(x) : x \in S}
  <1>1. T \subseteq FiniteSubsetsOf(S) /\ T # {}
    <2> SUFFICES ASSUME NEW x \in S PROVE Above(x) \in FiniteSubsetsOf(S)
      OBVIOUS
    <2>1. Above(x) \subseteq S
      OBVIOUS
    <2> QED BY <2>1, FS_Subset DEF FiniteSubsetsOf
  <1>2. PICK e \in T : \A d \in T : <<d, e>> \notin StrictSubsetOrdering(S)
    BY <1>1, WFMin, FS_StrictSubsetOrderingWellFounded, Zenon
  <1>3. PICK x \in S : e = Above(x)
    BY <1>2
  <1>4. ASSUME NEW y \in S, y > x PROVE FALSE
    <2>0. ASSUME NEW z \in S, z > y PROVE z > x
      <3>1. x \in Nat /\ y \in Nat /\ z \in Nat
        OBVIOUS
      <3> QED BY <3>1, <2>0, <1>4
    <2>1. Above(y) \subseteq Above(x) /\ y \in Above(x)
      BY <1>4, <2>0
    <2>3. y \in Nat /\ ~ y > y
      OBVIOUS
    <2>2. <<Above(y), e>> \in StrictSubsetOrdering(S)
      <3>1. Above(y) # Above(x)
        BY <2>1, <2>3
      <3> QED BY <2>1, <3>1, <1>3, <1>1 DEF StrictSubsetOrdering
    <2> QED BY <2>2, <1>2
  <1>5. \A y \in S : x >= y
    BY <1>4
  <1> QED BY <1>5 DEF Max

LEMMA MaxStackUsed ==
  Max(StackUsed) \in StackUsed /\ Max(StackUsed) \in Nat /\ \A u \in StackUsed : u <= Max(StackUsed)
  BY CallFramesAssumption, MaxOfFinite

-----------------------------------------------------------------------------
(* Frames *)

LEMMA JoinedFirst ==
  ASSUME NEW x, NEW y, NEW f, Joined(1, x, f)
  PROVE  Joined(1, y, f)
  BY DEF Joined, Catches

\* What matters of the frame below.
LEMMA JoinedSame ==
  ASSUME NEW i \in Nat, NEW x, NEW y, NEW f, Joined(i, x, f),
         y.kind = x.kind, y.base = x.base, x.kind = "Lua" => y.len = x.len
  PROVE  Joined(i, y, f)
  BY DEF Joined, Catches

LEMMA FramesPopped ==
  ASSUME NEW fs, FramesOK(fs), NEW n \in 0 .. Len(fs)
  PROVE  /\ FramesOK(SubSeq(fs, 1, n))
         /\ Len(SubSeq(fs, 1, n)) = n
         /\ \A i \in 1 .. n : SubSeq(fs, 1, n)[i] = fs[i]
  <1> DEFINE gs == SubSeq(fs, 1, n)
  <1>1. Len(fs) \in Nat /\ \A i \in 1 .. Len(fs) : fs[i] \in FrameType
    BY DEF FramesOK
  <1>2. gs \in Seq(FrameType) /\ Len(gs) = n /\ \A i \in 1 .. n : gs[i] = fs[i]
    <2>1. \A i \in 1 .. n : fs[i] \in FrameType
      BY <1>1
    <2>2. /\ gs \in Seq(FrameType) /\ Len(gs) = IF 1 <= n THEN n - 1 + 1 ELSE 0
          /\ \A i \in 1 .. n - 1 + 1 : gs[i] = fs[1 + i - 1]
      BY <2>1, SubSeqProperties
    <2> QED BY <2>2, <1>1
  <1> HIDE DEF gs
  <1>3. ASSUME NEW i \in 1 .. n PROVE OnStack(gs[i]) /\ Joined(i, gs[i - 1], gs[i])
    <2>1. i \in 1 .. Len(fs)
      BY <1>1
    <2>2. gs[i] = fs[i] /\ OnStack(fs[i]) /\ Joined(i, fs[i - 1], fs[i])
      BY <2>1, <1>2 DEF FramesOK
    <2>3. CASE i = 1
      BY <2>2, <2>3, JoinedFirst
    <2>4. CASE i # 1
      <3>1. i - 1 \in 1 .. n
        BY <2>4
      <3>2. gs[i - 1] = fs[i - 1]
        BY <3>1, <1>2
      <3> QED BY <2>2, <3>2
    <2> QED BY <2>3, <2>4
  <1> QED BY <1>2, <1>3 DEF FramesOK, gs

LEMMA FramesPushed ==
  ASSUME NEW fs, FramesOK(fs), NEW f \in FrameType, OnStack(f), Joined(Len(fs) + 1, fs[Len(fs)], f)
  PROVE  /\ FramesOK(Append(fs, f))
         /\ Len(Append(fs, f)) = Len(fs) + 1
         /\ Append(fs, f)[Len(fs) + 1] = f
         /\ \A i \in 1 .. Len(fs) : Append(fs, f)[i] = fs[i]
  <1> DEFINE gs == Append(fs, f)
             n  == Len(fs)
  <1>1. n \in Nat /\ fs \in Seq(FrameType)
    BY DEF FramesOK
  <1>2. /\ gs \in Seq(FrameType) /\ Len(gs) = n + 1 /\ gs[n + 1] = f
        /\ \A i \in 1 .. n : gs[i] = fs[i]
    BY <1>1, AppendProperties
  <1> HIDE DEF gs
  <1>3. ASSUME NEW i \in 1 .. n + 1 PROVE OnStack(gs[i]) /\ Joined(i, gs[i - 1], gs[i])
    <2>0. CASE i = 1 /\ n > 0
      <3>1. 1 \in 1 .. n
        BY <2>0, <1>1
      <3>2. gs[1] = fs[1] /\ OnStack(fs[1]) /\ Joined(1, fs[1 - 1], fs[1])
        BY <3>1, <1>2 DEF FramesOK
      <3> QED BY <3>2, <2>0, JoinedFirst
    <2>1. CASE i = 1 /\ n = 0
      <3>1. gs[1] = f /\ Joined(1, fs[0], f)
        BY <2>1, <1>2
      <3> QED BY <3>1, <2>1, JoinedFirst
    <2>2. CASE i > 1 /\ i <= n
      <3>1. i \in 1 .. n /\ i - 1 \in 1 .. n
        BY <2>2, <1>1
      <3> QED BY <3>1, <1>2 DEF FramesOK
    <2>3. CASE i > 1 /\ i = n + 1
      <3>1. i - 1 = n /\ n \in 1 .. n
        BY <2>3, <1>1
      <3>2. gs[i] = f /\ gs[i - 1] = fs[n]
        BY <2>3, <3>1, <1>2
      <3>3. Joined(i, fs[n], f)
        BY <2>3
      <3> QED BY <3>2, <3>3
    <2> QED BY <2>0, <2>1, <2>2, <2>3, <1>1
  <1> QED BY <1>1, <1>2, <1>3 DEF FramesOK, gs

\* The last frame may get another window, if it starts at the same slot and
\* the frame is a C function's.
LEMMA FramesNoted ==
  ASSUME NEW fs, FramesOK(fs), Len(fs) > 0, NEW len \in 0 .. NSlots,
         fs[Len(fs)].kind = "C", fs[Len(fs)].base + len < NSlots
  PROVE  LET n  == Len(fs)
             gs == [fs EXCEPT ![n] = [@ EXCEPT !.base = fs[n].base, !.len = len]]
         IN  /\ FramesOK(gs) /\ Len(gs) = n
             /\ \A i \in 1 .. n - 1 : gs[i] = fs[i]
             /\ gs[n] = [fs[n] EXCEPT !.len = len]
  <1> DEFINE n  == Len(fs)
             f  == [fs[n] EXCEPT !.base = fs[n].base, !.len = len]
             gs == [fs EXCEPT ![n] = f]
  <1>1. n \in Nat /\ n \in 1 .. n /\ fs \in Seq(FrameType) /\ fs[n] \in FrameType
    BY DEF FramesOK
  <1>2. /\ f \in FrameType /\ f = [fs[n] EXCEPT !.len = len]
        /\ f.kind = fs[n].kind /\ f.base = fs[n].base /\ f.len = len
        /\ f.to_return = fs[n].to_return /\ f.how = fs[n].how
    BY <1>1 DEF FrameType
  <1> HIDE DEF f
  <1>3. /\ gs \in Seq(FrameType) /\ Len(gs) = n
        /\ \A i \in 1 .. n : gs[i] = IF i = n THEN f ELSE fs[i]
    BY <1>1, <1>2, ExceptSeq
  <1> HIDE DEF gs
  <1>4. OnStack(fs[n]) /\ Joined(n, fs[n - 1], fs[n])
    BY <1>1 DEF FramesOK
  <1>5. OnStack(f) /\ Joined(n, fs[n - 1], f)
    BY <1>1, <1>2, <1>4 DEF OnStack, Joined, Catches
  <1>6. ASSUME NEW i \in 1 .. n PROVE OnStack(gs[i]) /\ Joined(i, gs[i - 1], gs[i])
    <2>1. OnStack(gs[i]) /\ Joined(i, fs[i - 1], gs[i])
      <3>1. OnStack(fs[i]) /\ Joined(i, fs[i - 1], fs[i])
        BY DEF FramesOK
      <3> QED BY <3>1, <1>3, <1>5
    <2>2. CASE i = 1
      BY <2>1, <2>2, JoinedFirst
    <2>3. CASE i # 1
      <3>1. i - 1 \in 1 .. n - 1
        BY <2>3
      <3>2. gs[i - 1] = fs[i - 1]
        BY <3>1, <1>3
      <3> QED BY <2>1, <3>2
    <2> QED BY <2>2, <2>3
  <1>7. gs = [fs EXCEPT ![n] = [@ EXCEPT !.base = fs[n].base, !.len = len]]
    BY DEF gs, f
  <1>8. \A i \in 1 .. n - 1 : gs[i] = fs[i]
    BY <1>3, <1>1
  <1> QED BY <1>1, <1>2, <1>3, <1>6, <1>7, <1>8 DEF FramesOK

-----------------------------------------------------------------------------
(* The state *)

CatchType == [cf : Nat, base : Slot, top : Slot, host : BOOLEAN]

Content == Value \cup {Nil, Err}

LEMMA Sizes ==
  /\ NSlots \in Nat /\ NSlots > 0 /\ MaxFrames \in Nat /\ StackMin \in Nat /\ HostMax \in Nat
  /\ VARARG \notin Nat /\ \A n \in Nat : n # VARARG
  BY CallFramesAssumption

LEMMA WindowIs ==
  ASSUME Good
  PROVE  /\ window.base \in Nat /\ window.base < NSlots /\ window.len \in Nat
         /\ window.base \in Slot
         /\ window = [base |-> window.base, len |-> window.len]
         /\ top = window.base + window.len /\ top \in Nat /\ top < NSlots /\ top \in Slot
  BY Sizes DEF Good, TypeOK, Running, top, Slot

LEMMA HostIs ==
  ASSUME Good
  PROVE  /\ Len(frames) \in Nat /\ Len(frames) <= MaxFrames
         /\ InHost <=> Len(frames) = 0
         /\ InLua => Len(frames) > 0 /\ caller.kind = "Lua"
         /\ InC /\ ~InHost => Len(frames) > 0 /\ caller.kind = "C"
         /\ InHost => InC
         /\ InLua <=> ~InC
  <1>1. Len(frames) \in Nat /\ Len(frames) <= MaxFrames
    BY DEF Good, FramesOK, TypeOK
  <1>2. InHost <=> Len(frames) = 0
    BY <1>1 DEF Good, InHost
  <1>3. ~InHost => Len(frames) \in 1 .. Len(frames) /\ frames[Len(frames)] \in FrameType
    BY <1>1, <1>2 DEF Good, FramesOK
  <1> QED BY <1>1, <1>2, <1>3 DEF InLua, InC, caller, FrameType

LEMMA FrameIs ==
  ASSUME Good, NEW i \in 1 .. Len(frames)
  PROVE  /\ frames[i] \in FrameType /\ i \in DOMAIN frames
         /\ frames[i].base \in Nat /\ frames[i].base < NSlots /\ frames[i].len \in Nat
         /\ frames[i].how \in HowType /\ frames[i].how.keep \in Nat
         /\ frames[i].to_return \in Nat \cup {VARARG}
         /\ OnStack(frames[i]) /\ Joined(i, frames[i - 1], frames[i])
  <1>1. frames[i] \in FrameType /\ OnStack(frames[i]) /\ Joined(i, frames[i - 1], frames[i])
    BY DEF Good, FramesOK
  <1>2. i \in DOMAIN frames
    BY DEF Good, FramesOK
  <1>3. /\ frames[i].base \in Nat /\ frames[i].base < NSlots /\ frames[i].len \in Nat
        /\ frames[i].how \in HowType /\ frames[i].to_return \in Nat \cup {VARARG}
    BY <1>1, Sizes DEF FrameType, Slot
  <1>4. frames[i].how.keep \in Nat
    BY <1>3 DEF HowType
  <1> QED BY <1>1, <1>2, <1>3, <1>4

LEMMA CallerIs ==
  ASSUME Good, ~InHost
  PROVE  /\ Len(frames) \in 1 .. Len(frames) /\ caller = frames[Len(frames)]
         /\ caller.base = window.base /\ caller.base \in Nat /\ caller.len \in Nat
         /\ OnStack(caller) /\ caller \in FrameType
         /\ caller.kind = "C" => window.base + StackMin < NSlots
  <1>1. Len(frames) \in 1 .. Len(frames) /\ caller = frames[Len(frames)]
    BY HostIs DEF caller
  <1>2. caller.base = window.base
    BY DEF Good, Running
  <1> QED BY <1>1, <1>2, FrameIs DEF OnStack

-----------------------------------------------------------------------------
(* Errors *)

\* After a caught error the function that called lulu_pcall runs, with room for
\* the error above its values.
LEMMA CaughtKeeps ==
  ASSUME Good, NEW i \in 1 .. Len(frames) + 1, NEW c \in CatchType,
         Catches(i, frames[i - 1], c), NEW st \in [Slot -> Content],
         Caught(c, st), strays' = {}
  PROVE  Good'
  <1>0. /\ stack' = [st EXCEPT ![c.top] = Err] /\ frames' = SubSeq(frames, 1, c.cf + 1)
        /\ live' = 0
    BY DEF Caught
  <1>c. window' = [base |-> c.base, len |-> (c.top + 1) - c.base]
    BY DEF Caught, Window
  <1>b. open' = FALSE
    BY DEF Caught
  <1>a. /\ strays' = IF c.host THEN strays \cup {"leaked"} ELSE strays
        /\ leaked' = (leaked \/ c.host)
    BY DEF Caught, Stray
  <1>1. ~c.host /\ i > 1
    <2>1. ~c.host
      BY <1>a
    <2>2. i # 1
      BY <2>1 DEF Catches
    <2> QED BY <2>1, <2>2, HostIs
  <1>2. /\ i - 1 \in 1 .. Len(frames) /\ c.cf = i - 2 /\ c.base = frames[i - 1].base
        /\ frames[i - 1].kind = "C" /\ c.base <= c.top /\ c.top + 1 <= c.base + StackMin
    BY <1>1, HostIs DEF Catches
  <1>3. c.base \in Nat /\ c.top \in Nat /\ c.top < NSlots /\ c.base < NSlots
    BY Sizes DEF CatchType, Slot
  <1>4. frames' = SubSeq(frames, 1, i - 1)
    <2>1. c.cf + 1 = i - 1
      BY <1>2, HostIs
    <2> QED BY <2>1, <1>0
  <1>5. /\ FramesOK(frames') /\ Len(frames') = i - 1 /\ frames'[i - 1] = frames[i - 1]
        /\ Len(frames') <= MaxFrames
    <2>1. i - 1 \in 0 .. Len(frames) /\ i - 1 \in 1 .. i - 1
      BY <1>2
    <2> QED BY <1>2, <1>4, <2>1, FramesPopped, HostIs, Sizes DEF Good
  <1>6. /\ window'.base = c.base /\ window'.len = (c.top + 1) - c.base
        /\ c.top + 1 < NSlots
        /\ window' \in [base : Slot, len : 0 .. NSlots]
    <2>1. window' = [base |-> c.base, len |-> (c.top + 1) - c.base]
      BY <1>c
    <2>2. OnStack(frames[i - 1])
      BY <1>2, FrameIs
    <2>3. c.top + 1 < NSlots
      BY <1>2, <1>3, <2>2, Sizes DEF OnStack
    <2> QED BY <2>1, <2>3, <1>2, <1>3, Sizes, SMTT(30) DEF Slot
  <1>7. /\ stack' \in [Slot -> Content] /\ live' = 0 /\ open' = FALSE /\ leaked' = FALSE
    BY <1>0, <1>a, <1>b, <1>1 DEF Good, Content, TypeOK
  <1>8. TypeOK'
    <2>1. 0 \in 0 .. Max(StackUsed)
      BY MaxStackUsed
    <2> QED BY <1>5, <1>6, <1>7, <2>1 DEF TypeOK, FramesOK, FrameType, Content
  <1>9. (~InHost)' /\ caller' = frames[i - 1] /\ InC'
    BY <1>5, <1>7, <1>2 DEF InHost, InC, caller
  <1>10. Running'
    BY <1>2, <1>3, <1>6, <1>9 DEF Running, top, InLua
  <1> QED BY <1>5, <1>7, <1>8, <1>10 DEF Good

\* The innermost vm_pcall is that of a frame.
LEMMA InnermostHandler ==
  ASSUME Good, Handlers # {}
  PROVE  /\ Max(Handlers) \in 1 .. Len(frames)
         /\ frames[Max(Handlers)].how.catch # Nil
         /\ frames[Max(Handlers)].how.catch \in CatchType
         /\ Catches(Max(Handlers), frames[Max(Handlers) - 1], frames[Max(Handlers)].how.catch)
         /\ \A i \in Handlers : i <= Max(Handlers)
  <1>1. Handlers \subseteq 0 .. Len(frames) /\ Handlers \subseteq 1 .. Len(frames)
    BY HostIs DEF Handlers, Good, FramesOK
  <1>2. Max(Handlers) \in Handlers /\ \A i \in Handlers : i <= Max(Handlers)
    BY <1>1, HostIs, Greatest
  <1>3. Max(Handlers) \in 1 .. Len(frames)
    BY <1>1, <1>2
  <1>4. frames[Max(Handlers)].how.catch # Nil
    BY <1>2 DEF Handlers
  <1>5. frames[Max(Handlers)].how \in HowType
        /\ Joined(Max(Handlers), frames[Max(Handlers) - 1], frames[Max(Handlers)])
    BY <1>3, FrameIs
  <1> QED BY <1>2, <1>3, <1>4, <1>5 DEF Joined, HowType, CatchType

LEMMA UnwindKeeps ==
  ASSUME Good, Handlers # {}, NEW st \in [Slot -> Content],
         Caught(frames[Max(Handlers)].how.catch, st), strays' = {}
  PROVE  Good'
  <1>1. Max(Handlers) \in 1 .. Len(frames) + 1
    BY InnermostHandler, HostIs
  <1> QED BY <1>1, InnermostHandler, CaughtKeeps

\* The vm_pcall that a call may bring, of the function that runs.
LEMMA OverflowKeeps ==
  ASSUME Good, NEW st \in [Slot -> Content], NEW how \in HowType,
         how.catch # Nil => Catches(Len(frames) + 1, frames[Len(frames)], how.catch),
         overflow_error(st, how), strays' = {}
  PROVE  Good'
  <1>1. CASE how.catch # Nil
    <2>1. how.catch \in CatchType /\ Caught(how.catch, st)
      BY <1>1 DEF overflow_error, HowType, CatchType
    <2>2. Len(frames) + 1 \in 1 .. Len(frames) + 1 /\ Len(frames) + 1 - 1 = Len(frames)
      BY HostIs
    <2>3. Catches(Len(frames) + 1, frames[Len(frames) + 1 - 1], how.catch)
      BY <1>1, <2>2
    <2> QED BY <2>1, <2>2, <2>3, CaughtKeeps
  <1>2. CASE how.catch = Nil
    BY <1>2, UnwindKeeps DEF overflow_error
  <1> QED BY <1>1, <1>2

-----------------------------------------------------------------------------
(* Calls *)

\* What callers of vm_call_init see to: the arguments are in the window w, and
\* they have room for the results they ask for.
CallReady(f, n_args, n_rets, w, how) ==
  /\ w = [base |-> window.base, len |-> w.len] /\ w.len \in Nat
  /\ f \in Nat /\ f + 1 <= w.base + w.len
  /\ n_args # VARARG => n_args \in Nat /\ (f + 1) + n_args <= w.base + w.len
  /\ n_rets \in Nat \cup {VARARG} /\ how \in HowType
  /\ \A g : g.base = f + 1 /\ g.to_return = n_rets /\ g.how = how
              => Joined(Len(frames) + 1, frames[Len(frames)], g)

\* The frames with what vm_call notes in the last of them.
LEMMA NotedKeeps ==
  ASSUME Good, NEW w, w.base = window.base, w.len \in Nat, w.base + w.len < NSlots, NEW how
  PROVE  /\ FramesOK(Noted(w, how)) /\ Len(Noted(w, how)) = Len(frames)
         /\ \A i \in 1 .. Len(frames) - 1 : Noted(w, how)[i] = frames[i]
         /\ Len(frames) > 0 =>
              LET g == Noted(w, how)[Len(frames)]
                  c == frames[Len(frames)]
              IN  /\ g.kind = c.kind /\ g.base = c.base /\ (c.kind = "Lua" => g.len = c.len)
                  /\ g.how = c.how /\ g.to_return = c.to_return
  <1> DEFINE n == Len(frames)
             fs == Noted(w, how)
  <1>1. n \in Nat /\ FramesOK(frames)
    BY HostIs DEF Good
  <1>2. CASE how.by # "op" /\ n > 0 /\ caller.kind = "C"
    <2>1. n \in 1 .. n /\ frames[n] \in FrameType /\ frames[n].kind = "C"
          /\ frames[n].base = window.base
      BY <1>1, <1>2, FrameIs, HostIs, CallerIs DEF caller
    <2>2. w.len \in 0 .. NSlots /\ frames[n].base + w.len < NSlots
      BY <2>1, WindowIs, Sizes
    <2> DEFINE gs == [frames EXCEPT ![n] = [@ EXCEPT !.base = frames[n].base, !.len = w.len]]
    <2>3. fs = gs
      BY <1>2, <2>1 DEF Noted
    <2>a. /\ FramesOK(gs) /\ Len(gs) = n /\ \A i \in 1 .. n - 1 : gs[i] = frames[i]
          /\ gs[n] = [frames[n] EXCEPT !.len = w.len]
      BY <1>1, <1>2, <2>1, <2>2, FramesNoted, ZenonT(60)
    <2> HIDE DEF gs
    <2>4. /\ FramesOK(fs) /\ Len(fs) = n /\ \A i \in 1 .. n - 1 : fs[i] = frames[i]
          /\ fs[n] = [frames[n] EXCEPT !.len = w.len]
      BY <2>3, <2>a
    <2>5. frames[n].kind # "Lua"
      BY <2>1
    <2> QED BY <2>1, <2>4, <2>5 DEF FrameType
  <1>3. CASE ~(how.by # "op" /\ n > 0 /\ caller.kind = "C")
    <2>1. fs = frames
      BY <1>3 DEF Noted
    <2> QED BY <2>1, <1>1
  <1> QED BY <1>2, <1>3

LEMMA PushKeeps ==
  ASSUME Good, NEW f, NEW n_args, NEW n_rets, NEW w, NEW how,
         CallReady(f, n_args, n_rets, w, how), w.base + w.len < NSlots, FrameLeft,
         NEW frame \in FrameType, OnStack(frame),
         frame.base = f + 1, frame.to_return = n_rets, frame.how = how,
         frame_push(frame, w), stack' \in [Slot -> Content], live' \in Nat,
         IF frame.kind = "Lua" THEN live' <= frame.len ELSE live' = 0, strays' = {}
  PROVE  Good'
  <1> DEFINE n == Len(frames)
             fs == Noted(w, how)
  <1>0. n \in Nat /\ n < MaxFrames
    BY HostIs DEF FrameLeft
  <1>1. w.base = window.base /\ w.len \in Nat
    BY DEF CallReady
  <1>2. /\ FramesOK(fs) /\ Len(fs) = n
        /\ n > 0 => /\ fs[n].kind = frames[n].kind /\ fs[n].base = frames[n].base
                    /\ frames[n].kind = "Lua" => fs[n].len = frames[n].len
    BY <1>1, NotedKeeps
  <1>3. Joined(n + 1, fs[n], frame)
    <2>1. Joined(n + 1, frames[n], frame)
      BY DEF CallReady
    <2>2. CASE n = 0
      BY <2>1, <2>2, JoinedFirst
    <2>3. CASE n > 0
      BY <2>1, <2>3, <1>0, <1>2, JoinedSame
    <2> QED BY <2>2, <2>3, <1>0
  <1>4. /\ frames' = Append(fs, frame)
        /\ window' = [base |-> frame.base, len |-> (frame.base + frame.len) - frame.base]
        /\ leaked' = leaked
    BY DEF frame_push, Window
  <1>5. open' = FALSE
    BY DEF frame_push
  <1> HIDE DEF fs
  <1>6. FramesOK(frames') /\ Len(frames') = n + 1 /\ frames'[n + 1] = frame
    BY <1>2, <1>3, <1>4, FramesPushed
  <1>7. /\ frame.base \in Nat /\ frame.base < NSlots /\ frame.len \in Nat /\ frame.len <= NSlots
        /\ frame.kind \in {"C", "Lua"} /\ frame.base + frame.len < NSlots
    BY Sizes DEF FrameType, Slot, OnStack
  <1>8. window' = [base |-> frame.base, len |-> frame.len]
    BY <1>4, <1>7
  <1>9. live' \in 0 .. Max(StackUsed)
    <2>1. CASE frame.kind = "Lua"
      <3>1. frame.len \in StackUsed
        BY <2>1 DEF OnStack
      <3> QED BY <2>1, <3>1, <1>7, MaxStackUsed
    <2>2. CASE frame.kind # "Lua"
      BY <2>2, MaxStackUsed
    <2> QED BY <2>1, <2>2
  <1>10. TypeOK'
    <2>1. Len(frames') <= MaxFrames
      BY <1>0, <1>6, Sizes
    <2>2. window' \in [base : Slot, len : 0 .. NSlots]
      BY <1>7, <1>8, Sizes DEF Slot
    <2>3. leaked' \in BOOLEAN /\ open' \in BOOLEAN
      BY <1>4, <1>5 DEF Good, TypeOK
    <2> QED BY <1>6, <1>9, <2>1, <2>2, <2>3 DEF TypeOK, FramesOK, FrameType, Content
  <1>11. ~leaked'
    BY <1>4 DEF Good
  <1>12. ~InHost' /\ caller' = frame
    BY <1>0, <1>6, <1>11 DEF InHost, caller
  <1>13. Running'
    <2>1. top' = frame.base + frame.len
      BY <1>8 DEF top
    <2>2. window'.base = frame.base /\ window'.len = frame.len
      BY <1>8
    <2>3. InLua' => frame.kind = "Lua"
      BY <1>7, <1>12 DEF InLua, InC
    <2> QED BY <2>1, <2>2, <2>3, <1>5, <1>7, <1>12 DEF Running
  <1> QED BY <1>6, <1>10, <1>11, <1>13 DEF Good

LEMMA CallCKeeps ==
  ASSUME Good, NEW f, NEW n_args, NEW n_rets, NEW w, NEW how,
         CallReady(f, n_args, n_rets, w, how), NEW st \in [Slot -> Content],
         call_init_c(f, n_args, n_rets, st, w, how), strays' = {}
  PROVE  Good'
  <1> DEFINE base == f + 1
             end  == IF n_args = VARARG THEN w.base + w.len ELSE base + n_args
             frame == Frame("C", base, end - base, n_rets, how)
  <1>1. /\ w.base + w.len + StackMin < NSlots /\ FrameLeft /\ stack' = st
        /\ frame_push(frame, w) /\ live' = 0
    BY DEF call_init_c, StackHas
  <1>2. /\ f \in Nat /\ w.base \in Nat /\ w.len \in Nat /\ base <= w.base + w.len
        /\ n_args # VARARG => n_args \in Nat /\ base + n_args <= w.base + w.len
        /\ n_rets \in Nat \cup {VARARG} /\ how \in HowType
    BY WindowIs DEF CallReady
  <1>3. end \in Nat /\ base <= end /\ end <= w.base + w.len
    BY <1>2
  <1>4. w.base + w.len < NSlots /\ base + StackMin < NSlots /\ end < NSlots
    BY <1>1, <1>2, <1>3, Sizes
  <1>5. /\ frame = [kind |-> "C", base |-> base, len |-> end - base, to_return |-> n_rets, how |-> how]
        /\ end - base \in 0 .. NSlots /\ base \in Slot
    BY <1>2, <1>3, <1>4, Sizes DEF Frame, Slot
  <1> HIDE DEF frame, end
  <1>6. frame \in FrameType
    BY <1>2, <1>5 DEF FrameType
  <1>7. frame.kind = "C" /\ frame.base = f + 1 /\ frame.to_return = n_rets /\ frame.how = how
        /\ frame.len = end - base
    BY <1>5
  <1>8. OnStack(frame)
    BY <1>2, <1>3, <1>4, <1>7 DEF OnStack
  <1>9. stack' \in [Slot -> Content] /\ live' \in Nat
    BY <1>1
  <1>10. IF frame.kind = "Lua" THEN live' <= frame.len ELSE live' = 0
    BY <1>1, <1>7
  <1> QED BY <1>1, <1>4, <1>6, <1>7, <1>8, <1>9, <1>10, PushKeeps

LEMMA CallLuaKeeps ==
  ASSUME Good, NEW f, NEW n_args, NEW n_rets, NEW w, NEW how,
         CallReady(f, n_args, n_rets, w, how), NEW st \in [Slot -> Content],
         NEW u \in StackUsed, NEW p \in 0 .. u,
         call_init_lua(f, u, p, n_args, n_rets, st, w, how), strays' = {}
  PROVE  Good'
  <1> DEFINE base  == f + 1
             frame == Frame("Lua", base, u, n_rets, how)
             start == StartNil(base, u, p, n_args)
             filled == [s \in Slot |-> IF start <= s /\ s < base + u THEN Nil ELSE st[s]]
  <1>1. /\ f \in Nat /\ w.base \in Nat /\ w.len \in Nat /\ base <= w.base + w.len
        /\ n_rets \in Nat \cup {VARARG} /\ how \in HowType /\ u \in Nat /\ p \in Nat /\ p <= u
    BY WindowIs, CallFramesAssumption DEF CallReady
  <1>2. w.base + w.len + u < NSlots
    BY DEF call_init_lua, StackHas
  <1>3. filled \in [Slot -> Content]
    BY DEF Content
  <1>4. \/ FrameLeft /\ stack' = filled /\ frame_push(frame, w) /\ live' = p
        \/ overflow_error(filled, how)
    BY DEF call_init_lua
  <1> HIDE DEF filled
  <1>5. /\ frame = [kind |-> "Lua", base |-> base, len |-> u, to_return |-> n_rets, how |-> how]
        /\ u \in 0 .. NSlots /\ base \in Slot /\ base + u < NSlots /\ w.base + w.len < NSlots
    BY <1>1, <1>2, Sizes DEF Frame, Slot
  <1> HIDE DEF frame
  <1>6. CASE FrameLeft /\ stack' = filled /\ frame_push(frame, w) /\ live' = p
    <2>1. frame \in FrameType
      BY <1>1, <1>5 DEF FrameType
    <2>2. frame.kind = "Lua" /\ frame.base = f + 1 /\ frame.to_return = n_rets /\ frame.how = how
          /\ frame.len = u
      BY <1>5
    <2>3. OnStack(frame)
      BY <1>5, <2>2 DEF OnStack
    <2>4. stack' \in [Slot -> Content] /\ live' \in Nat
      BY <1>1, <1>3, <1>6
    <2>5. IF frame.kind = "Lua" THEN live' <= frame.len ELSE live' = 0
      BY <1>1, <1>6, <2>2
    <2> QED BY <1>5, <1>6, <2>1, <2>2, <2>3, <2>4, <2>5, PushKeeps
  <1>7. CASE overflow_error(filled, how)
    <2>1. how.catch # Nil => Catches(Len(frames) + 1, frames[Len(frames)], how.catch)
      <3> DEFINE g == [base |-> f + 1, to_return |-> n_rets, how |-> how]
      <3>1. Joined(Len(frames) + 1, frames[Len(frames)], g)
        BY DEF CallReady
      <3> QED BY <3>1 DEF Joined
    <2> QED BY <1>1, <1>3, <1>7, <2>1, OverflowKeeps
  <1> QED BY <1>4, <1>6, <1>7

LEMMA CallKeeps ==
  ASSUME Good, NEW f, NEW n_args, NEW n_rets, NEW w, NEW how,
         CallReady(f, n_args, n_rets, w, how), NEW st \in [Slot -> Content],
         vm_call_init(f, n_args, n_rets, st, w, how), strays' = {}
  PROVE  Good'
  <1>1. CASE overflow_error(st, how)
    <2>1. how.catch # Nil => Catches(Len(frames) + 1, frames[Len(frames)], how.catch)
      <3> DEFINE g == [base |-> f + 1, to_return |-> n_rets, how |-> how]
      <3>1. Joined(Len(frames) + 1, frames[Len(frames)], g)
        BY DEF CallReady
      <3> QED BY <3>1 DEF Joined
    <2>2. how \in HowType
      BY DEF CallReady
    <2> QED BY <1>1, <2>1, <2>2, OverflowKeeps
  <1>2. CASE call_init_c(f, n_args, n_rets, st, w, how)
    BY <1>2, CallCKeeps
  <1>3. ASSUME NEW u \in StackUsed, NEW p \in 0 .. Min({MaxParams, u}),
               call_init_lua(f, u, p, n_args, n_rets, st, w, how)
        PROVE  Good'
    <2>1. p \in 0 .. u
      <3>1. u \in Nat /\ MaxParams \in Nat
        BY CallFramesAssumption
      <3>2. {MaxParams, u} \subseteq Nat /\ {MaxParams, u} # {} /\ u \in {MaxParams, u}
        BY <3>1
      <3>3. Min({MaxParams, u}) \in Nat /\ Min({MaxParams, u}) <= u
        BY <3>2, Least
      <3> QED BY <3>1, <3>3
    <2> QED BY <1>3, <2>1, CallLuaKeeps
  <1> QED BY <1>1, <1>2, <1>3 DEF vm_call_init

-----------------------------------------------------------------------------
(* Returns *)

LEMMA SameFramesKeep ==
  ASSUME Good, frames' = frames, leaked' = leaked, stack' \in [Slot -> Content],
         strays' = {}, window'.base = window.base, window' \in [base : Slot, len : Nat],
         window'.base + window'.len < NSlots, open' \in BOOLEAN, live' \in 0 .. Max(StackUsed),
         InLua => /\ live' <= caller.len
                  /\ open' => window'.base + live' <= window'.base + window'.len
                  /\ ~open' => caller.len <= window'.len
  PROVE  Good'
  <1>1. /\ window'.base \in Nat /\ window'.len \in Nat
        /\ window' = [base |-> window'.base, len |-> window'.len]
    BY Sizes DEF Slot
  <1>2. window' \in [base : Slot, len : 0 .. NSlots]
    BY <1>1, Sizes
  <1>3. TypeOK'
    BY <1>2 DEF Good, TypeOK, Content
  <1>4. (InHost' <=> InHost) /\ (InLua' <=> InLua) /\ caller' = caller
    BY DEF InHost, InLua, InC, caller
  <1>5. Running'
    BY <1>4 DEF Good, Running, top
  <1> QED BY <1>3, <1>5 DEF Good

LEMMA NoMisfit ==
  ASSUME Misfit = {}
  PROVE  /\ Len(frames) = 1 => /\ caller.how.by # "meta"
                               /\ caller.to_return = VARARG => ~ window.base - 1 > 0
         /\ Len(frames) # 1 /\ frames[Len(frames) - 1].kind = "C" => caller.how.by # "meta"
  <1>1. "host" \notin Misfit /\ "grown" \notin Misfit
    OBVIOUS
  <1> QED BY <1>1 DEF Misfit

\* Where the function was called that returns, and what that call promised.
CalleeBase == IF Len(frames) = 1 THEN 0 ELSE frames[Len(frames) - 1].base
ToLua == Len(frames) > 1 /\ frames[Len(frames) - 1].kind = "Lua"

LEMMA CallerBelowIs ==
  ASSUME Good, ~InHost, Len(frames) > 1
  PROVE  LET below == frames[Len(frames) - 1]
         IN  /\ Len(frames) - 1 \in 1 .. Len(frames)
             /\ CalleeBase = below.base /\ CalleeBase < NSlots /\ below.len \in Nat
             /\ below.kind \in {"C", "Lua"} /\ OnStack(below)
             /\ below.base + below.len < NSlots
             /\ below.kind = "Lua" => below.len \in StackUsed
  <1>1. Len(frames) - 1 \in 1 .. Len(frames)
    BY CallerIs
  <1>2. frames[Len(frames) - 1] \in FrameType
    BY <1>1, FrameIs
  <1> QED BY <1>1, <1>2, FrameIs DEF FrameType, CalleeBase, OnStack

LEMMA OneOrMore ==
  ASSUME NEW n \in Nat, n > 0
  PROVE  n = 1 \/ n > 1
  OBVIOUS

LEMMA CalleeIs ==
  ASSUME Good, ~InHost
  PROVE  LET below == frames[Len(frames) - 1]
             how   == caller.how
             want  == caller.to_return
         IN  /\ Len(frames) \in Nat /\ Len(frames) > 0 /\ CalleeBase \in Nat
             /\ how.keep \in Nat /\ want \in Nat \cup {VARARG}
             /\ how.by \in {"op", "api", "meta"}
             /\ window.base > CalleeBase + how.keep
             /\ how.by # "meta" => window.base = CalleeBase + how.keep + 1
             /\ how.by = "op" => ToLua
             /\ how.by = "api" => /\ ~ToLua /\ how.resume = CalleeBase
                                  /\ want # VARARG => CalleeBase + how.keep + want < NSlots
             /\ how.by = "meta" => want \in {0, 1}
             /\ how.by # "meta" => how.out = Nil
             /\ how.by = "meta" =>
                  \/ want = 1 /\ how.out \in Nat /\ CalleeBase <= how.out /\ how.out < CalleeBase + how.keep
                  \/ want = 0 /\ how.out = Nil
             /\ ToLua => /\ how.keep <= below.len
                         /\ how.by = "op" /\ want # VARARG => how.keep + want <= below.len
  <1> DEFINE n == Len(frames)
  <1>1. n \in 1 .. n /\ n \in Nat /\ n > 0 /\ caller = frames[n] /\ caller.base = window.base
    BY CallerIs, HostIs
  <1>2. /\ caller.how.keep \in Nat /\ caller.how \in HowType
        /\ caller.to_return \in Nat \cup {VARARG} /\ Joined(n, frames[n - 1], caller)
    BY <1>1, FrameIs
  <1>3. CalleeBase \in Nat
    <2>1. CASE n = 1
      BY <2>1 DEF CalleeBase
    <2>2. CASE n # 1
      <3>0. n > 1
        BY <1>1, <2>2, OneOrMore
      <3>1. n - 1 \in 1 .. n
        BY <1>1, <3>0
      <3> QED BY <3>1, <2>2, FrameIs DEF CalleeBase
    <2> QED BY <2>1, <2>2
  <1>4. caller.how.by \in {"op", "api", "meta"}
    BY <1>2 DEF HowType
  <1> QED BY <1>1, <1>2, <1>3, <1>4 DEF Joined, CalleeBase, ToLua

\* After a return the caller has its window, as far as it was not to change.
LEMMA FiniKeeps ==
  ASSUME Good, ~InHost, NEW first, NEW n \in Nat, n <= window.len,
         vm_call_fini(first, n), Misfit = {}, strays' = {}
  PROVE  Good'
  <1> DEFINE N    == Len(frames)
             base == CalleeBase
             dst  == window.base - 1
             want == caller.to_return
             how  == caller.how
             len  == IF want = VARARG THEN n ELSE Max({n, want})
             below == frames[N - 1]
             moved == [s \in Slot |-> IF dst <= s /\ s < dst + n THEN At(first + s - dst)
                                      ELSE IF dst <= s /\ s < dst + len THEN Nil
                                      ELSE stack[s]]
             toLua == ToLua
  <1>1. /\ N \in Nat /\ N > 0 /\ base \in Nat
        /\ how.keep \in Nat /\ want \in Nat \cup {VARARG}
        /\ how.by \in {"op", "api", "meta"} /\ window.base > base + how.keep
        /\ how.by # "meta" => dst = base + how.keep
    <2>1. window.base \in Nat
      BY WindowIs
    <2> QED BY <2>1, CalleeIs
  <1>a. N > 1 => /\ N - 1 \in 1 .. N /\ base = below.base /\ base < NSlots /\ below.len \in Nat
                 /\ below.kind \in {"C", "Lua"} /\ base + below.len < NSlots
                 /\ toLua => below.len \in StackUsed
    BY CallerBelowIs, Zenon DEF ToLua
  <1>b. N = 1 => base = 0
    BY DEF CalleeBase
  <1>2. /\ dst \in Nat /\ dst \in Slot /\ dst + n < NSlots /\ window.base \in Nat
    <2>1. /\ window.base \in Nat /\ window.base < NSlots /\ window.len \in Nat
          /\ window.base + window.len < NSlots
      BY WindowIs
    <2> QED BY <1>1, <2>1, Sizes, SMTT(30) DEF Slot
  <1>3. /\ FramesOK(frame_pop) /\ Len(frame_pop) = N - 1
        /\ N > 1 => frame_pop[N - 1] = below /\ frame_pop # <<>>
        /\ N = 1 => frame_pop = <<>>
    <2>1. /\ FramesOK(frame_pop) /\ Len(frame_pop) = N - 1
          /\ \A i \in 1 .. N - 1 : frame_pop[i] = frames[i]
      <3>1. N - 1 \in 0 .. N /\ FramesOK(frames)
        BY <1>1 DEF Good
      <3> QED BY <3>1, FramesPopped DEF frame_pop
    <2>2. N > 1 => N - 1 \in 1 .. N - 1
      BY <1>1
    <2>3. frame_pop \in Seq(FrameType)
      BY <2>1 DEF FramesOK
    <2> QED BY <2>1, <2>2, <2>3, <1>1
  <1>4. ~leaked
    BY DEF Good
  <1> DEFINE popped == IF frame_pop = <<>> THEN Window(dst, dst + len)
                       ELSE IF want = VARARG THEN Window(below.base, dst + len)
                       ELSE Window(below.base, below.base + below.len)
  <1>5. /\ frames' = frame_pop
        /\ window' = IF how.by = "api" /\ want # VARARG
                     THEN Window(how.resume, dst + want) ELSE popped
        /\ stack' = IF how.by = "meta" /\ want = 1
                    THEN [moved EXCEPT ![how.out] = moved[dst]] ELSE moved
        /\ open' = (toLua /\ want = VARARG)
        /\ live' = IF ~toLua THEN 0
                   ELSE IF how.by = "meta" \/ want = VARARG THEN how.keep
                   ELSE how.keep + want
        /\ leaked' = leaked
    <2>1. frame_pop[Len(frame_pop)] = below \/ frame_pop = <<>>
      BY <1>1, <1>3
    <2>2. toLua <=> frame_pop # <<>> /\ frame_pop[Len(frame_pop)].kind = "Lua"
                      /\ ~(leaked /\ Len(frame_pop) = 1)
      BY <1>1, <1>3, <1>4 DEF ToLua
    <2>3. toLua => N > 1
      BY DEF ToLua
    <2> QED BY <2>1, <2>2, <2>3 DEF vm_call_fini
  <1>6. moved \in [Slot -> Content] /\ moved[dst] \in Content
    <2>1. \A x : At(x) \in Content
      BY DEF At, Content, Good, TypeOK
    <2>2. moved \in [Slot -> Content]
      BY <2>1 DEF Content, Good, TypeOK
    <2> QED BY <2>2, <1>2
  <1> HIDE DEF moved
  <1>7. stack' \in [Slot -> Content]
    BY <1>5, <1>6
  <1>8. FramesOK(frames') /\ Len(frames') = N - 1 /\ Len(frames') <= MaxFrames /\ ~leaked'
    BY <1>1, <1>3, <1>4, <1>5, HostIs, Sizes
  <1>9. /\ how.by = "op" => toLua
        /\ how.by = "api" => /\ ~toLua /\ how.resume = base
                             /\ want # VARARG => base + how.keep + want < NSlots
        /\ how.by = "meta" => want \in {0, 1}
        /\ toLua => /\ how.keep <= below.len
                    /\ how.by = "op" /\ want # VARARG => how.keep + want <= below.len
    BY CalleeIs
  <1>10. ~toLua => how.by = "api"
    <2>0. N = 1 \/ N > 1
      BY <1>1, OneOrMore
    <2>1. N = 1 \/ (N > 1 /\ below.kind = "C") \/ toLua
      BY <2>0, <1>a DEF ToLua
    <2>2. ~toLua => how.by # "meta"
      BY <1>1, <2>1, NoMisfit
    <2> QED BY <1>1, <1>9, <2>2
  <1>11. toLua => N > 1 /\ how.by # "api"
    BY <1>9 DEF ToLua
  <1>12. toLua => /\ how.keep <= below.len
                  /\ want # VARARG => (how.by = "op" => how.keep + want <= below.len)
                  /\ want = VARARG => how.by = "op" /\ dst = base + how.keep
    <2>1. toLua /\ want = VARARG => how.by = "op"
      BY <1>1, <1>9, <1>11, Sizes
    <2> QED BY <2>1, <1>1, <1>9
  <1>13. ~toLua => dst = base + how.keep /\ (want # VARARG => dst + want < NSlots)
    BY <1>1, <1>9, <1>10
  <1> HIDE DEF base, how, want, below, toLua, N
  <1>14. /\ window'.base = base /\ window' \in [base : Slot, len : Nat]
         /\ window'.base + window'.len < NSlots
         /\ toLua /\ want # VARARG => window'.len = below.len
         /\ toLua /\ want = VARARG => window'.base + how.keep <= window'.base + window'.len
    <2> HIDE DEF len
    <2>1. CASE ~toLua /\ want # VARARG
      <3>1. window' = [base |-> base, len |-> (dst + want) - base]
        BY <2>1, <1>5, <1>9, <1>10 DEF Window
      <3>2. want \in Nat /\ dst + want >= base /\ dst + want < NSlots
        BY <2>1, <1>1, <1>2, <1>13
      <3>3. base \in Nat /\ base < NSlots /\ dst + want \in Nat
        BY <3>2, <1>1, <1>2, Sizes
      <3>4. (dst + want) - base \in Nat /\ base \in Slot /\ base + ((dst + want) - base) < NSlots
        BY <3>2, <3>3, Sizes DEF Slot
      <3> QED BY <2>1, <3>1, <3>4
    <2>2. CASE ~toLua /\ want = VARARG
      <3>0. len = n
        BY <2>2 DEF len
      <3>1. N = 1 \/ N > 1
        BY <1>1
      <3>2. CASE N = 1
        <4>1. dst = 0
          <5>1. ~ window.base - 1 > 0
            BY <2>2, <3>2, NoMisfit DEF N, want
          <5> QED BY <5>1, <1>2
        <4>2. window' = [base |-> 0, len |-> (0 + n) - 0]
          BY <2>2, <3>0, <3>2, <4>1, <1>3, <1>5 DEF Window
        <4>3. window' = [base |-> base, len |-> n] /\ n < NSlots /\ base = 0
          BY <3>2, <4>1, <4>2, <1>2, <1>b
        <4> QED BY <2>2, <4>3, Sizes DEF Slot
      <3>3. CASE N > 1
        <4>1. window' = [base |-> base, len |-> (dst + n) - base]
          BY <2>2, <3>0, <3>3, <1>3, <1>5, <1>a DEF Window
        <4>2. /\ base \in Nat /\ base < NSlots /\ dst + n \in Nat /\ base <= dst + n
              /\ dst + n < NSlots
          BY <2>2, <3>3, <1>1, <1>2, <1>a, <1>13
        <4>3. (dst + n) - base \in Nat /\ base \in Slot /\ base + ((dst + n) - base) < NSlots
          BY <4>2, Sizes DEF Slot
        <4> QED BY <2>2, <4>1, <4>3
      <3> QED BY <3>1, <3>2, <3>3
    <2>3. CASE toLua /\ want # VARARG
      <3>1. window' = [base |-> base, len |-> (base + below.len) - base]
        BY <2>3, <1>3, <1>5, <1>11, <1>a DEF Window
      <3>2. base + below.len < NSlots /\ base < NSlots /\ below.len \in Nat
        BY <2>3, <1>a, <1>11
      <3>3. window' = [base |-> base, len |-> below.len]
        BY <2>3, <3>1, <3>2, <1>1
      <3> QED BY <2>3, <3>2, <3>3, <1>1, Sizes DEF Slot
    <2>4. CASE toLua /\ want = VARARG
      <3>0. len = n
        BY <2>4 DEF len
      <3>1. window' = [base |-> base, len |-> (dst + n) - base]
        BY <2>4, <3>0, <1>3, <1>5, <1>11, <1>a DEF Window
      <3>2. /\ base \in Nat /\ base < NSlots /\ dst + n \in Nat /\ base + how.keep <= dst + n
            /\ dst + n < NSlots
        BY <2>4, <1>1, <1>2, <1>a, <1>11, <1>12
      <3>3. /\ (dst + n) - base \in Nat /\ base \in Slot
            /\ base + ((dst + n) - base) < NSlots /\ base + how.keep <= base + ((dst + n) - base)
        BY <3>2, <1>1, Sizes DEF Slot
      <3> QED BY <2>4, <3>1, <3>3
    <2> QED BY <2>1, <2>2, <2>3, <2>4
  <1>15. /\ live' \in Nat /\ (~toLua => live' = 0) /\ (toLua => live' <= below.len)
         /\ toLua /\ want = VARARG => live' = how.keep
    <2>1. toLua => how.by \in {"op", "meta"}
      BY <1>1, <1>11
    <2> QED BY <2>1, <1>1, <1>5, <1>12
  <1>16. live' \in 0 .. Max(StackUsed)
    <2>1. CASE toLua
      <3>1. below.len \in StackUsed
        BY <2>1, <1>a, <1>11
      <3>2. below.len \in Nat
        BY <2>1, <1>a, <1>11
      <3> QED BY <2>1, <3>1, <3>2, <1>15, MaxStackUsed
    <2>2. CASE ~toLua
      BY <2>2, <1>15, MaxStackUsed
    <2> QED BY <2>1, <2>2
  <1>17. open' \in BOOLEAN /\ (open' <=> toLua /\ want = VARARG)
    BY <1>5
  <1>18. TypeOK'
    <2>1. window' \in [base : Slot, len : 0 .. NSlots]
      <3>1. window'.base \in Slot /\ window'.len \in 0 .. NSlots
            /\ window' = [base |-> window'.base, len |-> window'.len]
        BY <1>1, <1>14, Sizes
      <3> QED BY <3>1
    <2>2. leaked' \in BOOLEAN
      BY <1>5 DEF Good, TypeOK
    <2>3. strays' \subseteq {"missing", "returned", "window", "grown", "host", "leaked"}
      OBVIOUS
    <2> QED BY <1>7, <1>8, <1>16, <1>17, <2>1, <2>2, <2>3 DEF TypeOK, FramesOK, FrameType, Content
  <1>19. /\ InHost' <=> N = 1
         /\ ~InHost' => caller' = below
         /\ InLua' <=> toLua
    <2>1. frames' = frame_pop /\ Len(frames') = N - 1 /\ (N > 1 => frames'[N - 1] = below)
      BY <1>3, <1>5, <1>8
    <2>2. (InHost' <=> N = 1) /\ (~InHost' => caller' = below)
      BY <2>1, <1>1, <1>8 DEF InHost, caller
    <2>3. toLua <=> N > 1 /\ below.kind = "Lua"
      BY DEF toLua, ToLua, N, below
    <2>4. N > 1 => below.kind \in {"C", "Lua"}
      BY <1>a
    <2> QED BY <2>2, <2>3, <2>4, <1>1 DEF InLua, InC
  <1>20. Running'
    <2>1. top' = window'.base + window'.len
      BY DEF top
    <2>2. InHost' => window'.base = 0
      BY <1>14, <1>19, <1>b
    <2>3. ~InHost' => window'.base = caller'.base
      BY <1>14, <1>19, <1>a, <1>1
    <2>4. InLua' => /\ live' <= caller'.len
                    /\ open' => window'.base + live' <= top'
                    /\ ~open' => caller'.len <= window'.len
      <3>1. ASSUME InLua'
            PROVE  toLua /\ caller' = below /\ below.len \in Nat
        BY <3>1, <1>19, <1>11, <1>a
      <3> QED BY <3>1, <2>1, <1>14, <1>15, <1>17
    <2> QED BY <2>1, <2>2, <2>3, <2>4, <1>14 DEF Running
  <1> QED BY <1>8, <1>18, <1>20 DEF Good

-----------------------------------------------------------------------------
(* The actions *)

\* In a Lua function the registers in use are in the window.
LEMMA RegistersInWindow ==
  ASSUME Good, InLua
  PROVE  /\ ~InHost /\ Len(frames) > 0 /\ Len(frames) \in Nat /\ caller = frames[Len(frames)]
         /\ caller.kind = "Lua" /\ caller.base = window.base /\ caller.len \in Nat
         /\ live \in Nat /\ live <= caller.len /\ window.base + live <= top
         /\ ~open => window.base + caller.len <= top
  <1>1. ~InHost /\ Len(frames) > 0 /\ caller.kind = "Lua" /\ Len(frames) \in Nat
    BY HostIs
  <1>2. caller.base = window.base /\ caller.len \in Nat /\ caller = frames[Len(frames)]
    BY <1>1, CallerIs
  <1>3. live \in Nat
    BY MaxStackUsed DEF Good, TypeOK
  <1>4. live <= caller.len /\ window.base + live <= top /\ (~open => window.base + caller.len <= top)
    BY <1>2, <1>3, WindowIs DEF Good, Running
  <1> QED BY <1>1, <1>2, <1>3, <1>4

LEMMA HowIs ==
  ASSUME NEW by \in {"op", "api", "meta"}, NEW keep \in Nat, NEW out \in Slot \cup {Nil},
         NEW resume \in Slot \cup {Nil}, NEW catch \in {Nil} \cup CatchType
  PROVE  /\ How(by, keep, out, resume, catch) \in HowType
         /\ How(by, keep, out, resume, catch).by = by
         /\ How(by, keep, out, resume, catch).keep = keep
         /\ How(by, keep, out, resume, catch).out = out
         /\ How(by, keep, out, resume, catch).resume = resume
         /\ How(by, keep, out, resume, catch).catch = catch
  BY DEF How, HowType, CatchType

\* The calls that instructions make.
LEMMA OpReady ==
  ASSUME Good, InLua, NEW a \in Nat, NEW n_args, NEW n_rets \in Nat \cup {VARARG},
         NEW w, w = [base |-> window.base, len |-> w.len], w.len \in Nat,
         window.base + a + 1 <= window.base + w.len,
         n_args # VARARG => /\ n_args \in Nat
                            /\ (window.base + a + 1) + n_args <= window.base + w.len,
         a <= caller.len, n_rets # VARARG => a + n_rets <= caller.len
  PROVE  CallReady(R(a), n_args, n_rets, w, How("op", a, Nil, Nil, Nil))
  <1> DEFINE how == How("op", a, Nil, Nil, Nil)
             i == Len(frames) + 1
  <1>1. /\ how \in HowType /\ how.by = "op" /\ how.keep = a /\ how.catch = Nil /\ how.out = Nil
    BY HowIs
  <1> HIDE DEF how
  <1>2. window.base \in Nat /\ R(a) = window.base + a /\ w.base = window.base
    BY WindowIs DEF R
  <1>3. ASSUME NEW g, g.base = R(a) + 1, g.to_return = n_rets, g.how = how
        PROVE  Joined(i, frames[Len(frames)], g)
    <2>1. /\ i > 1 /\ i # 1 /\ caller = frames[Len(frames)] /\ caller.kind = "Lua"
          /\ caller.base = window.base
      BY RegistersInWindow
    <2>2. how.by # "meta" /\ how.by # "api"
      BY <1>1
    <2> QED BY <1>1, <1>2, <1>3, <2>1, <2>2 DEF Joined
  <1>4. /\ R(a) \in Nat /\ R(a) + 1 <= w.base + w.len
        /\ n_args # VARARG => n_args \in Nat /\ (R(a) + 1) + n_args <= w.base + w.len
    BY <1>2
  <1> QED BY <1>1, <1>3, <1>4 DEF CallReady, how

LEMMA OpCallReady ==
  ASSUME Good, NEW a \in Register, NEW n_args, NEW n_rets \in Results,
         n_args \in Nat \cup {VARARG}, OpCall(a, n_args, n_rets)
  PROVE  /\ CallReady(R(a), n_args, n_rets, window, How("op", a, Nil, Nil, Nil))
         /\ vm_call_init(R(a), n_args, n_rets, stack, window, How("op", a, Nil, Nil, Nil))
         /\ InLua /\ a \in Nat /\ a < live
         /\ IF open THEN n_args = VARARG ELSE n_args = live - a - 1
  <1>1. /\ InLua /\ a < live
        /\ IF open THEN n_args = VARARG ELSE n_args = live - a - 1
        /\ a + (IF n_rets = VARARG THEN 0 ELSE n_rets) <= caller.len
        /\ vm_call_init(R(a), n_args, n_rets, stack, window, How("op", a, Nil, Nil, Nil))
    BY Zenon DEF OpCall
  <1>2. a \in Nat /\ n_rets \in Nat \cup {VARARG}
    BY MaxStackUsed, CallFramesAssumption DEF Register, Results
  <1>3. /\ live \in Nat /\ live <= caller.len /\ caller.len \in Nat
        /\ window.base + live <= window.base + window.len
        /\ window.base \in Nat /\ window.len \in Nat
        /\ window = [base |-> window.base, len |-> window.len]
    BY <1>1, RegistersInWindow, WindowIs
  <1>4. CallReady(R(a), n_args, n_rets, window, How("op", a, Nil, Nil, Nil))
    <2>1. window.base + a + 1 <= window.base + window.len /\ a <= caller.len
      BY <1>1, <1>2, <1>3
    <2>2. n_args # VARARG => /\ n_args \in Nat
                             /\ (window.base + a + 1) + n_args <= window.base + window.len
      BY <1>1, <1>2, <1>3
    <2>3. n_rets # VARARG => a + n_rets <= caller.len
      BY <1>1
    <2> QED BY <1>1, <1>2, <1>3, <2>1, <2>2, <2>3, OpReady
  <1> QED BY <1>1, <1>2, <1>4

LEMMA OpCallKeeps ==
  ASSUME Good, NEW a \in Register, NEW n_args, NEW n_rets \in Results,
         n_args \in Nat \cup {VARARG}, OpCall(a, n_args, n_rets), strays' = {}
  PROVE  Good'
  <1>1. stack \in [Slot -> Content]
    BY DEF Good, TypeOK, Content
  <1> QED BY <1>1, OpCallReady, CallKeeps

\* The stack with the copies of generator, state and control variable.
Copied(a) ==
  LET base == R(a + 3)
  IN  [s \in Slot |-> IF base <= s /\ s < base + 3 THEN stack[s - 3] ELSE stack[s]]

LEMMA OpForInReady ==
  ASSUME Good, NEW a \in Register, NEW n_vars \in 1 .. MaxResults, OpForIn(a, n_vars)
  PROVE  /\ CallReady(R(a + 3), 2, n_vars, Window(window.base, R(a + 3) + 3),
                      How("op", live, Nil, Nil, Nil))
         /\ vm_call_init(R(a + 3), 2, n_vars, Copied(a), Window(window.base, R(a + 3) + 3),
                         How("op", live, Nil, Nil, Nil))
         /\ Copied(a) \in [Slot -> Content]
         /\ InLua /\ ~open /\ a \in Nat /\ live = a + 3 /\ R(a + 3) + 3 < NSlots
  <1> DEFINE base == R(a + 3)
             st == Copied(a)
             w  == Window(window.base, base + 3)
             how == How("op", live, Nil, Nil, Nil)
  <1>1. /\ InLua /\ ~open /\ live = a + 3 /\ a + 6 <= caller.len /\ a + 3 + n_vars <= caller.len
        /\ vm_call_init(base, 2, n_vars, st, w, how)
    BY Zenon DEF OpForIn, Copied
  <1>2. a \in Nat /\ n_vars \in Nat
    BY MaxStackUsed, CallFramesAssumption DEF Register
  <1>3. /\ live \in Nat /\ live <= caller.len /\ caller.len \in Nat
        /\ window.base + caller.len <= top /\ top \in Nat /\ top < NSlots
        /\ window.base \in Nat /\ window.len \in Nat
    BY <1>1, RegistersInWindow, WindowIs
  <1>4. base = window.base + live /\ base + 3 <= top
    BY <1>1, <1>2, <1>3 DEF R
  <1>5. w = [base |-> window.base, len |-> live + 3] /\ w.len = live + 3
    BY <1>3, <1>4 DEF Window
  <1>6. st \in [Slot -> Content]
    <2>1. ASSUME NEW s \in Slot, base <= s, s < base + 3 PROVE stack[s - 3] \in Content
      <3>1. s - 3 \in Slot
        BY <2>1, <1>1, <1>2, <1>3, <1>4, Sizes DEF Slot
      <3> QED BY <3>1 DEF Good, TypeOK, Content
    <2>2. \A s \in Slot : stack[s] \in Content
      BY DEF Good, TypeOK, Content
    <2>3. st = [s \in Slot |-> IF base <= s /\ s < base + 3 THEN stack[s - 3] ELSE stack[s]]
      BY DEF Copied
    <2>4. \A s \in Slot : (IF base <= s /\ s < base + 3 THEN stack[s - 3] ELSE stack[s]) \in Content
      BY <2>1, <2>2
    <2> QED BY <2>3, <2>4
  <1> HIDE DEF st, w
  <1>7. CallReady(R(live), 2, n_vars, w, how)
    <2>1. /\ w = [base |-> window.base, len |-> w.len] /\ w.len \in Nat
          /\ window.base + live + 1 <= window.base + w.len
          /\ (window.base + live + 1) + 2 <= window.base + w.len
          /\ live + n_vars <= caller.len
      BY <1>1, <1>2, <1>3, <1>5
    <2> QED BY <1>1, <1>2, <1>3, <2>1, OpReady
  <1>8. R(live) = base /\ base + 3 < NSlots
    <2>1. R(live) = base
      BY <1>1
    <2>2. base \in Nat
      BY <1>3, <1>4
    <2> HIDE DEF base
    <2> QED BY <2>1, <2>2, <1>3, <1>4, Sizes
  <1> QED BY <1>1, <1>2, <1>6, <1>7, <1>8 DEF st, w

LEMMA OpForInKeeps ==
  ASSUME Good, NEW a \in Register, NEW n_vars \in 1 .. MaxResults, OpForIn(a, n_vars), strays' = {}
  PROVE  Good'
  BY OpForInReady, CallKeeps

\* Metamethods are called above the window.
LEMMA MetaReady ==
  ASSUME Good, NEW n \in Nat, NEW n_rets, NEW out \in Slot \cup {Nil}, NEW keep \in Nat,
         \/ n_rets = 1 /\ out \in Nat /\ window.base <= out /\ out < window.base + keep
         \/ n_rets = 0 /\ out = Nil,
         keep <= window.len, InLua => keep <= caller.len
  PROVE  CallReady(top, n, n_rets, [window EXCEPT !.len = @ + n + 1],
                   How("meta", keep, out, Nil, Nil))
  <1> DEFINE w == [window EXCEPT !.len = @ + n + 1]
             how == How("meta", keep, out, Nil, Nil)
  <1>1. how \in HowType /\ how.by = "meta" /\ how.keep = keep /\ how.catch = Nil /\ how.out = out
    BY DEF How, HowType
  <1>2. /\ w = [base |-> window.base, len |-> window.len + n + 1] /\ w.len = window.len + n + 1
        /\ w.base = window.base /\ top \in Nat
        /\ window.base \in Nat /\ window.len \in Nat /\ top = window.base + window.len
    BY WindowIs
  <1> HIDE DEF how, w
  <1>3. CallReady(top, n, n_rets, w, how)
    <2>1. ASSUME NEW g, g.base = top + 1, g.to_return = n_rets, g.how = how
          PROVE  Joined(Len(frames) + 1, frames[Len(frames)], g)
      <3>1. CASE InHost
        <4>1. Len(frames) + 1 = 1 /\ ~(Len(frames) + 1 > 1)
          BY <3>1, HostIs
        <4>2. top + 1 > 0 + keep /\ window.base = 0
          BY <1>2, <3>1 DEF Good, Running
        <4> QED BY <4>1, <4>2, <2>1, <1>1 DEF Joined
      <3>2. CASE ~InHost
        <4>1. Len(frames) + 1 > 1 /\ Len(frames) + 1 # 1 /\ frames[Len(frames)] = caller
              /\ caller.base = window.base
          BY <3>2, HostIs, CallerIs
        <4>2. top + 1 > window.base + keep
          BY <1>2
        <4>3. caller.kind = "Lua" => keep <= caller.len
          BY <3>2 DEF InLua, InC
        <4> QED BY <4>1, <4>2, <4>3, <2>1, <1>1 DEF Joined
      <3> QED BY <3>1, <3>2
    <2>2. /\ w = [base |-> window.base, len |-> w.len] /\ w.len \in Nat /\ top \in Nat
          /\ top + 1 <= w.base + w.len /\ n \in Nat /\ (top + 1) + n <= w.base + w.len
      BY <1>2
    <2> QED BY <2>1, <2>2, <1>1 DEF CallReady
  <1> QED BY <1>3 DEF w, how

LEMMA MetaKeeps ==
  ASSUME Good, NEW args, Len(args) \in Nat, NEW n_rets, NEW out \in Slot \cup {Nil},
         NEW keep \in Nat,
         \/ n_rets = 1 /\ out \in Nat /\ window.base <= out /\ out < window.base + keep
         \/ n_rets = 0 /\ out = Nil,
         keep <= window.len, InLua => keep <= caller.len,
         Metamethod(args, n_rets, out, keep), strays' = {}
  PROVE  Good'
  <1> DEFINE n == Len(args)
             f == CHOOSE x \in Value : TRUE
             st == [s \in Slot |-> IF s = top THEN f
                                   ELSE IF s \in top + 1 .. top + n THEN At(args[s - top])
                                   ELSE stack[s]]
             w == [window EXCEPT !.len = @ + n + 1]
             how == How("meta", keep, out, Nil, Nil)
  <1>1. \/ vm_call_init(top, n, n_rets, st, w, how)
        \/ overflow_error(stack, how)
    BY Zenon DEF Metamethod
  <1>2. st \in [Slot -> Content] /\ stack \in [Slot -> Content]
    <2>1. \A x : At(x) \in Content
      BY DEF At, Content, Good, TypeOK
    <2>2. f \in Content
      BY CallFramesAssumption DEF Content
    <2>3. stack \in [Slot -> Content]
      BY DEF Good, TypeOK, Content
    <2> QED BY <2>1, <2>2, <2>3
  <1>3. how \in HowType /\ how.by = "meta" /\ how.keep = keep /\ how.catch = Nil /\ how.out = out
    BY DEF How, HowType
  <1> HIDE DEF st, how, w
  <1>4. CallReady(top, n, n_rets, w, how)
    BY MetaReady DEF w, how
  <1>5. CASE vm_call_init(top, n, n_rets, st, w, how)
    BY <1>2, <1>4, <1>5, CallKeeps
  <1>6. CASE overflow_error(stack, how)
    BY <1>2, <1>3, <1>6, OverflowKeeps
  <1> QED BY <1>1, <1>5, <1>6

\* A vm_pcall that starts in a C function which has a free slot, or in the host.
LEMMA PCallIs ==
  ASSUME Good, InC, ~InHost => window.len + 1 <= StackMin
  PROVE  /\ PCall \in CatchType /\ Catches(Len(frames) + 1, frames[Len(frames)], PCall)
         /\ PCall.top = top
  <1>1. /\ Len(frames) \in Nat /\ (InHost <=> Len(frames) = 0)
        /\ window.base \in Slot /\ top \in Slot /\ window.base \in Nat /\ window.len \in Nat
        /\ top = window.base + window.len
    BY HostIs, WindowIs
  <1>2. InHost \in BOOLEAN
    BY DEF InHost
  <1>3. PCall \in CatchType /\ PCall.top = top
    BY <1>1, <1>2 DEF PCall, CatchType
  <1>4. CASE InHost
    <2>1. Len(frames) + 1 = 1 /\ ~(Len(frames) + 1 > 1)
      BY <1>1, <1>4
    <2> QED BY <1>3, <1>4, <2>1 DEF Catches, PCall
  <1>5. CASE ~InHost
    <2>1. /\ Len(frames) + 1 # 1 /\ Len(frames) # 0 /\ frames[Len(frames)] = caller
          /\ caller.base = window.base /\ caller.kind = "C"
      BY <1>1, <1>5, HostIs, CallerIs
    <2>2. /\ PCall.cf = (Len(frames) + 1) - 2 /\ PCall.base = window.base /\ PCall.top = top
          /\ PCall.host = FALSE
      BY <1>1, <1>5, <2>1 DEF PCall
    <2>3. window.base <= top /\ top + 1 <= window.base + StackMin
      BY <1>1, <1>5, Sizes
    <2> QED BY <1>3, <2>1, <2>2, <2>3 DEF Catches
  <1> QED BY <1>4, <1>5

\* The calls that C functions and the host program make.
LEMMA ApiReady ==
  ASSUME Good, InC, NEW keep \in Nat, NEW n_args \in Nat, NEW n_rets \in Nat \cup {VARARG},
         NEW w, w = [base |-> window.base, len |-> w.len], w.len \in Nat,
         (window.base + keep + 1) + n_args <= window.base + w.len,
         n_rets # VARARG => window.base + keep + n_rets < NSlots,
         NEW catch \in {Nil} \cup CatchType,
         catch # Nil => /\ window.base + keep <= catch.top
                        /\ Catches(Len(frames) + 1, frames[Len(frames)], catch)
  PROVE  CallReady(window.base + keep, n_args, n_rets, w, How("api", keep, Nil, window.base, catch))
  <1> DEFINE how == How("api", keep, Nil, window.base, catch)
             f == window.base + keep
  <1>1. window.base \in Nat /\ window.base \in Slot /\ w.base = window.base
    BY WindowIs
  <1>2. /\ how \in HowType /\ how.by = "api" /\ how.keep = keep /\ how.catch = catch
        /\ how.resume = window.base /\ how.out = Nil
    BY <1>1 DEF How, HowType, CatchType
  <1> HIDE DEF how
  <1>3. ASSUME NEW g, g.base = f + 1, g.to_return = n_rets, g.how = how
        PROVE  Joined(Len(frames) + 1, frames[Len(frames)], g)
    <2>1. CASE InHost
      <3>1. Len(frames) + 1 = 1 /\ ~(Len(frames) + 1 > 1) /\ window.base = 0
        BY <2>1, HostIs DEF Good, Running
      <3> QED BY <3>1, <1>1, <1>2, <1>3 DEF Joined
    <2>2. CASE ~InHost
      <3>1. /\ Len(frames) + 1 > 1 /\ Len(frames) + 1 # 1 /\ frames[Len(frames)] = caller
            /\ caller.base = window.base /\ caller.kind = "C"
        BY <2>2, HostIs, CallerIs
      <3> QED BY <3>1, <1>1, <1>2, <1>3 DEF Joined
    <2> QED BY <2>1, <2>2
  <1>4. f \in Nat /\ f + 1 <= w.base + w.len /\ (f + 1) + n_args <= w.base + w.len
    BY <1>1
  <1> QED BY <1>2, <1>3, <1>4 DEF CallReady, how

\* What MayPush says in C code.
LEMMA RoomToPush ==
  ASSUME Good, InC, NEW n \in Int, MayPush(n)
  PROVE  top + n < NSlots /\ (~InHost => window.len + n <= StackMin)
  <1>1. window.base \in Nat /\ window.len \in Nat /\ top = window.base + window.len
    BY WindowIs
  <1>2. CASE InHost
    <2>1. window.base = 0 /\ window.len + n <= HostMax
      BY <1>2 DEF Good, Running, MayPush
    <2> QED BY <1>1, <1>2, <2>1, CallFramesAssumption
  <1>3. CASE ~InHost
    <2>1. window.len + n <= StackMin /\ window.base + StackMin < NSlots
      BY <1>3, CallerIs, HostIs DEF MayPush
    <2> QED BY <1>1, <2>1, Sizes
  <1> QED BY <1>2, <1>3

LEMMA ApiCallReady ==
  ASSUME Good, NEW n_args \in 0 .. StackMin, NEW n_rets \in Results, NEW protected \in BOOLEAN,
         lulu_call(n_args, n_rets, protected)
  PROVE  LET keep  == window.len - n_args - 1
             catch == IF protected THEN PCall ELSE Nil
             how   == How("api", keep, Nil, window.base, catch)
         IN  /\ CallReady(top - n_args - 1, n_args, n_rets, window, how)
             /\ vm_call_init(top - n_args - 1, n_args, n_rets, stack, window, how)
             /\ InC /\ n_args \in Nat /\ keep \in Nat /\ top - n_args - 1 = window.base + keep
             /\ catch \in {Nil} \cup CatchType /\ (catch # Nil => catch.top = top)
  <1> DEFINE keep == window.len - n_args - 1
             catch == IF protected THEN PCall ELSE Nil
             how == How("api", keep, Nil, window.base, catch)
  <1>1. /\ InC /\ n_args < window.len /\ MayPush(IF protected THEN 1 ELSE 0)
        /\ MayPush(IF n_rets = VARARG THEN 0 ELSE n_rets - n_args - 1)
        /\ vm_call_init(top - n_args - 1, n_args, n_rets, stack, window, how)
    BY Zenon DEF lulu_call
  <1>2. n_args \in Nat /\ n_rets \in Nat \cup {VARARG}
    BY Sizes, CallFramesAssumption DEF Results
  <1>3. /\ window.base \in Nat /\ window.len \in Nat /\ top = window.base + window.len
        /\ window = [base |-> window.base, len |-> window.len]
    BY WindowIs
  <1>4. /\ keep \in Nat /\ top - n_args - 1 = window.base + keep
        /\ (window.base + keep + 1) + n_args <= window.base + window.len
    BY <1>1, <1>2, <1>3
  <1>5. n_rets # VARARG => window.base + keep + n_rets < NSlots
    <2>1. ASSUME n_rets # VARARG PROVE window.base + keep + n_rets < NSlots
      <3>1. n_rets - n_args - 1 \in Int /\ MayPush(n_rets - n_args - 1)
        BY <1>1, <1>2, <2>1
      <3>2. top + (n_rets - n_args - 1) < NSlots
        BY <3>1, <1>1, RoomToPush
      <3> QED BY <3>2, <2>1, <1>2, <1>3
    <2> QED BY <2>1
  <1>6. catch \in {Nil} \cup CatchType
        /\ (catch # Nil => /\ catch.top = top
                           /\ Catches(Len(frames) + 1, frames[Len(frames)], catch))
    <2>1. CASE protected
      <3>1. MayPush(1)
        BY <1>1, <2>1
      <3>2. ~InHost => window.len + 1 <= StackMin
        BY <3>1, <1>1, RoomToPush
      <3> QED BY <3>2, <2>1, <1>1, PCallIs
    <2>2. CASE ~protected
      BY <2>2
    <2> QED BY <2>1, <2>2
  <1>a. window.base + keep <= top
    BY <1>2, <1>3, <1>4
  <1> HIDE DEF catch, keep
  <1>7. CallReady(window.base + keep, n_args, n_rets, window, how)
    BY <1>1, <1>2, <1>3, <1>4, <1>5, <1>6, <1>a, ApiReady
  <1> QED BY <1>1, <1>2, <1>4, <1>6, <1>7 DEF keep, catch

LEMMA ApiCallKeeps ==
  ASSUME Good, NEW n_args \in 0 .. StackMin, NEW n_rets \in Results, NEW protected \in BOOLEAN,
         lulu_call(n_args, n_rets, protected), strays' = {}
  PROVE  Good'
  <1>1. stack \in [Slot -> Content]
    BY DEF Good, TypeOK, Content
  <1> QED BY <1>1, ApiCallReady, CallKeeps

LEMMA CPCallReady ==
  ASSUME Good, NEW f \in Value, NEW x \in Value, lulu_cpcall(f, x)
  PROVE  LET how    == How("api", window.len, Nil, window.base, PCall)
             pushed == [stack EXCEPT ![top] = f, ![top + 1] = x]
             w      == [window EXCEPT !.len = @ + 2]
         IN  /\ CallReady(top, 1, 0, w, how) /\ how \in HowType /\ pushed \in [Slot -> Content]
             /\ overflow_error(pushed, how) \/ call_init_c(top, 1, 0, pushed, w, how)
             /\ Catches(Len(frames) + 1, frames[Len(frames)], PCall)
             /\ InC /\ PCall \in CatchType /\ PCall.top = top
  <1> DEFINE how    == How("api", window.len, Nil, window.base, PCall)
             pushed == [stack EXCEPT ![top] = f, ![top + 1] = x]
             w      == [window EXCEPT !.len = @ + 2]
  <1>1. /\ InC /\ (InHost \/ MayPush(2))
        /\ \/ overflow_error(pushed, how)
           \/ call_init_c(top, 1, 0, pushed, w, how)
    BY Zenon DEF lulu_cpcall
  <1>2. /\ window.base \in Nat /\ window.len \in Nat /\ top = window.base + window.len
        /\ top < NSlots /\ w = [base |-> window.base, len |-> window.len + 2]
        /\ w.len = window.len + 2 /\ window.base \in Slot
    BY WindowIs
  <1>3. pushed \in [Slot -> Content]
    BY DEF Content, Good, TypeOK
  <1>4. ~InHost => window.len + 1 <= StackMin
    <2>1. ~InHost => window.len + 2 <= StackMin
      BY <1>1, RoomToPush
    <2> QED BY <2>1, <1>2, Sizes
  <1>5. /\ PCall \in CatchType /\ Catches(Len(frames) + 1, frames[Len(frames)], PCall)
        /\ window.base + window.len <= PCall.top
    BY <1>1, <1>2, <1>4, PCallIs
  <1> HIDE DEF pushed, w
  <1>6. CallReady(window.base + window.len, 1, 0, w, how)
    <2>1. /\ w = [base |-> window.base, len |-> w.len] /\ w.len \in Nat
          /\ (window.base + window.len + 1) + 1 <= window.base + w.len
          /\ window.base + window.len + 0 < NSlots
      BY <1>2
    <2> QED BY <1>1, <1>2, <1>5, <2>1, ApiReady
  <1>7. how \in HowType /\ how.catch = PCall
    BY <1>2, <1>5 DEF How, HowType, CatchType
  <1> HIDE DEF how
  <1>8. PCall.top = top
    BY <1>1, <1>4, PCallIs
  <1> QED BY <1>1, <1>2, <1>3, <1>5, <1>6, <1>7, <1>8 DEF how, pushed, w

LEMMA CPCallKeeps ==
  ASSUME Good, NEW f \in Value, NEW x \in Value, lulu_cpcall(f, x), strays' = {}
  PROVE  Good'
  <1> DEFINE how    == How("api", window.len, Nil, window.base, PCall)
             pushed == [stack EXCEPT ![top] = f, ![top + 1] = x]
             w      == [window EXCEPT !.len = @ + 2]
  <1>1. /\ CallReady(top, 1, 0, w, how) /\ how \in HowType /\ pushed \in [Slot -> Content]
        /\ overflow_error(pushed, how) \/ call_init_c(top, 1, 0, pushed, w, how)
        /\ Catches(Len(frames) + 1, frames[Len(frames)], PCall)
    BY CPCallReady
  <1>2. how.catch = PCall
    BY DEF How
  <1> HIDE DEF how, pushed, w
  <1> QED BY <1>1, <1>2, OverflowKeeps, CallCKeeps

LEMMA LuaKeeps ==
  ASSUME Good, LuaNext, strays' = {}
  PROVE  Good'
  <1>0. stack \in [Slot -> Content] /\ open \in BOOLEAN /\ leaked \in BOOLEAN
        /\ window \in [base : Slot, len : Nat]
    BY Sizes DEF Good, TypeOK, Content
  <1>1. ASSUME NEW x \in Value, Load(x) PROVE Good'
    <2>1. /\ InLua /\ ~open /\ live < caller.len /\ stack' = [stack EXCEPT ![R(live)] = x]
          /\ live' = live + 1 /\ UNCHANGED <<frames, window, open, leaked, strays>>
      BY <1>1 DEF Load
    <2>2. stack' \in [Slot -> Content]
      BY <2>1, <1>0 DEF Content
    <2>3. /\ live \in Nat /\ caller.len \in Nat /\ OnStack(caller) /\ caller.kind = "Lua"
          /\ caller.len <= window.len
      BY <2>1, RegistersInWindow, CallerIs DEF Good, Running
    <2>4. caller.len \in StackUsed
      BY <2>3 DEF OnStack
    <2>5. live' \in 0 .. Max(StackUsed) /\ live' <= caller.len
      BY <2>1, <2>3, <2>4, MaxStackUsed
    <2> QED BY <1>0, <2>1, <2>2, <2>3, <2>5, WindowIs, SameFramesKeep
  <1>2. ASSUME NEW n \in Register, Free(n) PROVE Good'
    <2>1. /\ InLua /\ ~open /\ n < live /\ live' = n
          /\ UNCHANGED <<stack, frames, window, open, leaked, strays>>
      BY <1>2 DEF Free
    <2>2. n \in Nat /\ live \in Nat /\ live <= caller.len /\ caller.len \in Nat
          /\ live \in 0 .. Max(StackUsed) /\ caller.len <= window.len
      BY <2>1, MaxStackUsed, RegistersInWindow DEF Register, Good, TypeOK, Running
    <2>3. live' \in 0 .. Max(StackUsed) /\ live' <= caller.len
      BY <2>1, <2>2, MaxStackUsed
    <2> QED BY <1>0, <2>1, <2>2, <2>3, WindowIs, SameFramesKeep
  <1>3. ASSUME NEW a \in Register, NEW n_args \in Register \cup {VARARG}, NEW n_rets \in Results,
               OpCall(a, n_args, n_rets)
        PROVE  Good'
    <2>1. n_args \in Nat \cup {VARARG}
      BY MaxStackUsed DEF Register
    <2> QED BY <1>3, <2>1, OpCallKeeps
  <1>4. ASSUME NEW a \in Register, NEW n_vars \in 1 .. MaxResults, OpForIn(a, n_vars)
        PROVE  Good'
    BY <1>4, OpForInKeeps
  <1>5. ASSUME NEW a \in Register, OpSetArray(a) PROVE Good'
    <2>1. /\ InLua /\ a < live /\ live' = a + 1 /\ UNCHANGED <<stack, frames, window, leaked>>
          /\ strays' = IF window.len < caller.len THEN strays \cup {"window"} ELSE strays
      BY <1>5 DEF OpSetArray, Stray
    <2>2. open' = FALSE
      BY <1>5 DEF OpSetArray
    <2>3. ~ window.len < caller.len
      BY <2>1
    <2>4. a \in Nat /\ live \in Nat /\ live <= caller.len /\ caller.len \in Nat
          /\ live \in 0 .. Max(StackUsed)
      BY <2>1, MaxStackUsed, RegistersInWindow DEF Register, Good, TypeOK
    <2>5. live' \in 0 .. Max(StackUsed) /\ live' <= caller.len
      BY <2>1, <2>4, MaxStackUsed
    <2>6. caller.len <= window.len
      BY <2>3, <2>4, WindowIs
    <2> QED BY <1>0, <2>1, <2>2, <2>5, <2>6, WindowIs, SameFramesKeep
  <1>6. ASSUME NEW a \in 0 .. Max(StackUsed), NEW n_rets, OpReturn(a, n_rets) PROVE Good'
    <2> DEFINE n == IF open THEN window.len ELSE n_rets
    <2>1. /\ InLua /\ a <= live /\ (~open => n_rets = live - a) /\ vm_call_fini(R(a), n)
          /\ Misfit = {}
      BY <1>6 DEF OpReturn, Stray
    <2>2. a \in Nat /\ live \in Nat /\ live <= caller.len /\ caller.len \in Nat /\ ~InHost
          /\ window.len \in Nat /\ (~open => caller.len <= window.len)
      BY <2>1, MaxStackUsed, RegistersInWindow, WindowIs DEF Good, Running
    <2>3. n \in Nat /\ n <= window.len
      BY <2>1, <2>2
    <2> QED BY <2>1, <2>2, <2>3, FiniKeeps
  <1>7. ASSUME NEW a \in Register, OpMeta(a) PROVE Good'
    <2> DEFINE args == <<R(a), R(live - 1)>>
    <2>1. InLua /\ ~open /\ a < live /\ Metamethod(args, 1, R(a), live)
      BY <1>7 DEF OpMeta
    <2>2. Len(args) \in Nat
      OBVIOUS
    <2> HIDE DEF args
    <2>3. /\ a \in Nat /\ live \in Nat /\ live <= caller.len /\ caller.len \in Nat
          /\ caller.len <= window.len /\ window.base + live <= top /\ window.base \in Nat
          /\ top < NSlots /\ window.len \in Nat /\ top \in Nat
      BY <2>1, MaxStackUsed, RegistersInWindow, WindowIs DEF Register, Good, Running
    <2>4. R(a) \in Slot
      BY <2>1, <2>3, Sizes DEF R, Slot
    <2>5. live <= window.len /\ R(a) \in Nat /\ window.base <= R(a) /\ R(a) < window.base + live
      BY <2>1, <2>3 DEF R
    <2> QED BY <2>1, <2>2, <2>3, <2>4, <2>5, MetaKeeps
  <1>8. ASSUME NEW a \in Register, OpNewindex(a) PROVE Good'
    <2> DEFINE args == <<R(a), R(live - 1), R(live - 1)>>
    <2>1. InLua /\ ~open /\ Metamethod(args, 0, Nil, live)
      BY <1>8 DEF OpNewindex
    <2>2. Len(args) \in Nat
      OBVIOUS
    <2> HIDE DEF args
    <2>3. /\ live \in Nat /\ live <= caller.len /\ caller.len \in Nat
          /\ caller.len <= window.len /\ window.len \in Nat
      BY <2>1, MaxStackUsed, RegistersInWindow, WindowIs DEF Good, Running
    <2>4. live <= window.len
      BY <2>3
    <2> QED BY <2>1, <2>2, <2>3, <2>4, MetaKeeps
  <1> QED BY <1>1, <1>2, <1>3, <1>4, <1>5, <1>6, <1>7, <1>8 DEF LuaNext

LEMMA CKeeps ==
  ASSUME Good, CNext, strays' = {}
  PROVE  Good'
  <1>0. stack \in [Slot -> Content] /\ open \in BOOLEAN /\ leaked \in BOOLEAN
        /\ live \in 0 .. Max(StackUsed)
    BY DEF Good, TypeOK, Content
  <1>a. /\ window.base \in Nat /\ window.base \in Slot /\ window.len \in Nat
        /\ top = window.base + window.len /\ top < NSlots
        /\ window = [base |-> window.base, len |-> window.len]
    BY WindowIs
  <1>1. ASSUME NEW n \in 0 .. StackMin, SetTop(n) PROVE Good'
    <2>1. /\ InC /\ MayPush(n - window.len) /\ window' = [window EXCEPT !.len = n]
          /\ stack' = [s \in Slot |-> IF top <= s /\ s < window.base + n THEN Nil ELSE stack[s]]
          /\ UNCHANGED <<frames, live, open, leaked, strays>>
      BY <1>1 DEF SetTop
    <2>2. n \in Nat /\ n - window.len \in Int
      BY <1>a, Sizes
    <2>3. window.base + n < NSlots
      <3>1. top + (n - window.len) < NSlots
        BY <2>1, <2>2, RoomToPush
      <3> QED BY <3>1, <2>2, <1>a
    <2>4. window' = [base |-> window.base, len |-> n]
      BY <2>1, <1>a
    <2>5. stack' \in [Slot -> Content] /\ ~InLua
      BY <2>1, <1>0 DEF Content, InLua
    <2> QED BY <1>0, <1>a, <2>1, <2>2, <2>3, <2>4, <2>5, SameFramesKeep
  <1>2. ASSUME NEW x \in Value, Push(x) PROVE Good'
    <2>1. /\ InC /\ MayPush(1) /\ window' = [window EXCEPT !.len = @ + 1]
          /\ stack' = [stack EXCEPT ![top] = x]
          /\ UNCHANGED <<frames, live, open, leaked, strays>>
      BY <1>2 DEF Push
    <2>2. top + 1 < NSlots
      BY <2>1, RoomToPush
    <2>3. window' = [base |-> window.base, len |-> window.len + 1]
      BY <2>1, <1>a
    <2>4. stack' \in [Slot -> Content] /\ ~InLua
      BY <2>1, <1>0 DEF Content, InLua
    <2>5. window.base + (window.len + 1) < NSlots /\ window.len + 1 \in Nat
      BY <2>2, <1>a
    <2> QED BY <1>0, <1>a, <2>1, <2>3, <2>4, <2>5, SameFramesKeep
  <1>3. ASSUME NEW n_args \in 0 .. StackMin, NEW n_rets \in Results, NEW protected \in BOOLEAN,
               lulu_call(n_args, n_rets, protected)
        PROVE  Good'
    BY <1>3, ApiCallKeeps
  <1>4. ASSUME NEW f \in Value, NEW x \in Value, lulu_cpcall(f, x) PROVE Good'
    BY <1>4, CPCallKeeps
  <1>5. ASSUME NEW n \in 0 .. StackMin, ReturnC(n) PROVE Good'
    <2>1. \E first : vm_call_fini(first, n)
      BY <1>5 DEF ReturnC
    <2>2. ~InHost /\ n <= window.len /\ Misfit = {}
      BY <1>5 DEF ReturnC
    <2>3. n \in Nat
      BY Sizes
    <2> QED BY <2>1, <2>2, <2>3, FiniKeeps
  <1>6. ASSUME NEW t \in Slot, lulu_get_table(t) PROVE Good'
    <2> DEFINE args == <<t, top - 1>>
    <2>1. InC /\ window.len > 0 /\ Metamethod(args, 1, top - 1, window.len)
      BY <1>6 DEF lulu_get_table
    <2>2. Len(args) \in Nat
      OBVIOUS
    <2> HIDE DEF args
    <2>3. /\ top - 1 \in Slot /\ top - 1 \in Nat /\ window.base <= top - 1
          /\ top - 1 < window.base + window.len
      BY <2>1, <1>a, Sizes DEF Slot
    <2>4. window.len <= window.len /\ ~InLua
      BY <2>1, <1>a DEF InLua
    <2> QED BY <2>1, <2>2, <2>3, <2>4, <1>a, MetaKeeps
  <1> QED BY <1>1, <1>2, <1>3, <1>4, <1>5, <1>6 DEF CNext

-----------------------------------------------------------------------------
(* The theorems *)

LEMMA InitGood == Init => IInv
  <1> SUFFICES ASSUME Init PROVE Good
    BY DEF IInv
  <1>1. /\ stack = [s \in Slot |-> Nil] /\ frames = <<>> /\ window = [base |-> 0, len |-> 0]
        /\ live = 0 /\ ~leaked /\ strays = {}
    BY DEF Init, Window
  <1>2. open = FALSE /\ leaked = FALSE
    BY DEF Init
  <1>3. FramesOK(frames) /\ Len(frames) = 0 /\ frames \in Seq(FrameType)
    BY <1>1 DEF FramesOK
  <1>4. InHost /\ ~InLua
    BY <1>1, <1>3 DEF InHost, InLua, InC
  <1>5. TypeOK
    <2>1. 0 \in 0 .. Max(StackUsed) /\ 0 <= MaxFrames /\ 0 \in Slot /\ 0 \in 0 .. NSlots
      BY Sizes, MaxStackUsed DEF Slot
    <2> QED BY <1>1, <1>2, <1>3, <2>1 DEF TypeOK, FrameType
  <1> QED BY <1>1, <1>3, <1>4, <1>5, Sizes DEF Good, Running, top

\* What did not happen was not noted.
LEMMA StraysStay ==
  ASSUME Next, strays' = {}
  PROVE  strays = {}
  <1>1. \A what, happened : strays \subseteq Stray(what, happened)
    BY DEF Stray
  <1>2. ASSUME NEW c, NEW st, Caught(c, st) PROVE strays \subseteq strays'
    BY <1>1, <1>2 DEF Caught
  <1>3. ASSUME NEW f, NEW n_args, NEW n_rets, NEW st, NEW w, NEW how,
               vm_call_init(f, n_args, n_rets, st, w, how)
        PROVE  strays \subseteq strays'
    BY <1>1, <1>2, <1>3, Zenon DEF vm_call_init, call_init_c, call_init_lua, overflow_error
  <1>4. ASSUME NEW args, NEW n_rets, NEW out, NEW keep, Metamethod(args, n_rets, out, keep)
        PROVE  strays \subseteq strays'
    BY <1>2, <1>3, <1>4, Zenon DEF Metamethod, overflow_error
  <1>5. ASSUME LuaNext PROVE strays \subseteq strays'
    <2>1. ASSUME NEW a, NEW n, OpReturn(a, n) PROVE strays \subseteq strays'
      BY <1>1, <2>1 DEF OpReturn
    <2>2. ASSUME NEW a, OpSetArray(a) PROVE strays \subseteq strays'
      BY <1>1, <2>2 DEF OpSetArray
    <2>3. ASSUME NEW x, Load(x) PROVE strays \subseteq strays'
      BY <2>3 DEF Load
    <2>4. ASSUME NEW n, Free(n) PROVE strays \subseteq strays'
      BY <2>4 DEF Free
    <2> QED BY <1>3, <1>4, <1>5, <2>1, <2>2, <2>3, <2>4, Zenon
            DEF LuaNext, OpCall, OpForIn, OpMeta, OpNewindex
  <1>6. ASSUME CNext PROVE strays \subseteq strays'
    <2>1. ASSUME NEW n, SetTop(n) PROVE strays \subseteq strays'
      BY <2>1 DEF SetTop
    <2>2. ASSUME NEW x, Push(x) PROVE strays \subseteq strays'
      BY <2>2 DEF Push
    <2>3. ASSUME NEW n, ReturnC(n) PROVE strays \subseteq strays'
      BY <2>3 DEF ReturnC
    <2>4. ASSUME NEW f, NEW x, lulu_cpcall(f, x) PROVE strays \subseteq strays'
      BY <1>2, <2>4, Zenon DEF lulu_cpcall, overflow_error, call_init_c
    <2> QED BY <1>3, <1>4, <1>6, <2>1, <2>2, <2>3, <2>4, Zenon DEF CNext, lulu_call, lulu_get_table
  <1>7. ASSUME Throw PROVE strays \subseteq strays'
    BY <1>2, <1>7 DEF Throw
  <1> QED BY <1>5, <1>6, <1>7 DEF Next

LEMMA StepGood == IInv /\ [Next]_vars => IInv'
  <1> SUFFICES ASSUME IInv, [Next]_vars, strays' = {} PROVE Good'
    BY DEF IInv
  <1>1. CASE Next
    <2>1. Good
      BY <1>1, StraysStay DEF IInv
    <2>2. CASE LuaNext
      BY <2>1, <2>2, LuaKeeps
    <2>3. CASE CNext
      BY <2>1, <2>3, CKeeps
    <2>4. CASE Throw
      <3>1. stack \in [Slot -> Content]
        BY <2>1 DEF Good, TypeOK, Content
      <3> QED BY <2>1, <2>4, <3>1, UnwindKeeps DEF Throw
    <2> QED BY <1>1, <2>2, <2>3, <2>4 DEF Next
  <1>2. CASE UNCHANGED vars
    <2>1. /\ stack' = stack /\ frames' = frames /\ window' = window /\ live' = live
          /\ leaked' = leaked /\ strays' = strays
      BY <1>2 DEF vars
    <2>2. open' = open
      BY <1>2 DEF vars
    <2>3. Good
      BY <2>1 DEF IInv
    <2>4. (InHost' <=> InHost) /\ (InLua' <=> InLua) /\ caller' = caller
      BY <2>1 DEF InHost, InLua, InC, caller
    <2> QED BY <2>1, <2>2, <2>3, <2>4 DEF Good, TypeOK, Running, top
  <1> QED BY <1>1, <1>2

\* Until a step departs from what call conventions foresee, every window is where
\* vm_call_init and vm_call_fini are to leave it, for stacks of every size.
THEOREM FramesInvariant == Spec => []IInv
  <1>1. Init => IInv
    BY InitGood
  <1>2. IInv /\ [Next]_vars => IInv'
    BY StepGood
  <1> QED BY <1>1, <1>2, PTL DEF Spec

\* There are no more frames than L->frames holds, all windows are on the stack, each
\* above what its caller keeps, and there is a slot for the message of an error
\* (frame_push, vm_check_stack), for every number of slots and of frames.
THEOREM StackHasRoom == Spec => [](strays = {} => StackRoom)
  <1>1. IInv => (strays = {} => StackRoom)
    <2> SUFFICES ASSUME Good PROVE StackRoom
      BY DEF IInv
    <2>1. TypeOK /\ top < NSlots
      BY DEF Good, Running
    <2>2. ASSUME NEW i \in DOMAIN frames
          PROVE  /\ frames[i].base > 0 /\ frames[i].base + frames[i].len < NSlots
                 /\ i > 1 => frames[i].base > frames[i - 1].base + frames[i].how.keep
      <3>1. i \in 1 .. Len(frames) /\ i \in Nat /\ i > 0
        BY DEF Good, FramesOK
      <3>2. /\ frames[i].base \in Nat /\ frames[i].how.keep \in Nat
            /\ OnStack(frames[i]) /\ Joined(i, frames[i - 1], frames[i])
        BY <3>1, FrameIs
      <3>3. frames[i].base > (IF i = 1 THEN 0 ELSE frames[i - 1].base) + frames[i].how.keep
        BY <3>2 DEF Joined
      <3>4. CASE i = 1
        BY <3>2, <3>3, <3>4 DEF OnStack
      <3>5. CASE i > 1
        <4>1. i - 1 \in 1 .. Len(frames)
          BY <3>1, <3>5
        <4>2. frames[i - 1].base \in Nat
          BY <4>1, FrameIs
        <4>3. frames[i].base > frames[i - 1].base + frames[i].how.keep
          BY <3>3, <3>5
        <4> QED BY <3>2, <4>2, <4>3 DEF OnStack
      <3> QED BY <3>1, <3>4, <3>5, OneOrMore
    <2> QED BY <2>1, <2>2 DEF StackRoom
  <1> QED BY <1>1, FramesInvariant, PTL

\* A function that is returned to, or in which an error is caught, has its own
\* window again, a Lua function all its registers, for every sequence of calls.
THEOREM WindowsAreRestored == Spec => []WindowRestored
  <1>1. IInv => WindowRestored
    <2> SUFFICES ASSUME Good, ~InHost
                 PROVE  window.base = caller.base /\ (InLua /\ ~open => window.len >= caller.len)
      BY DEF IInv, WindowRestored
    <2>1. window.base = caller.base /\ caller.len \in Nat /\ window.len \in Nat
      BY CallerIs, WindowIs
    <2>2. InLua /\ ~open => caller.len <= window.len
      BY DEF Good, Running
    <2> QED BY <2>1, <2>2
  <1> QED BY <1>1, FramesInvariant, PTL


-----------------------------------------------------------------------------
(* Steps of Calls *)

ActType == [vals : Seq(Content), want : Nat \cup {VARARG}, into : Nat, protected : Nat \cup {Nil}]

\* Activations x and y differ in their values at most.
SameBut(x, y) == x.want = y.want /\ x.into = y.into /\ x.protected = y.protected

LEMMA SameAct ==
  ASSUME NEW x \in ActType, NEW y \in ActType, x.vals = y.vals, SameBut(x, y)
  PROVE  x = y
  BY DEF ActType, SameBut

LEMMA ReplacedValues ==
  ASSUME NEW a \in Seq(ActType), NEW n \in Nat \ {0}, Len(a) = n, NEW v \in Seq(Content)
  PROVE  LET c == [a EXCEPT ![n].vals = v]
         IN  /\ c \in Seq(ActType) /\ Len(c) = n
             /\ \A j \in 1 .. n - 1 : c[j] = a[j]
             /\ c[n].vals = v /\ SameBut(c[n], a[n])
  <1> DEFINE x == [a[n] EXCEPT !.vals = v]
             c == [a EXCEPT ![n] = x]
  <1>1. n \in 1 .. Len(a) /\ a[n] \in ActType
    OBVIOUS
  <1>2. x \in ActType /\ x.vals = v /\ SameBut(x, a[n])
    BY <1>1 DEF ActType, SameBut
  <1> HIDE DEF x
  <1>3. /\ c \in Seq(ActType) /\ Len(c) = n
        /\ \A j \in 1 .. n : c[j] = IF j = n THEN x ELSE a[j]
    BY <1>1, <1>2, ExceptSeq
  <1> HIDE DEF c
  <1>4. c[n] = x /\ \A j \in 1 .. n - 1 : c[j] = a[j]
    BY <1>1, <1>3
  <1>5. c = [a EXCEPT ![n].vals = v]
    BY DEF c, x
  <1> QED BY <1>2, <1>3, <1>4, <1>5

LEMMA IsReplaced ==
  ASSUME NEW a \in Seq(ActType), NEW b \in Seq(ActType), NEW n \in Nat \ {0}, Len(a) = n, Len(b) = n,
         \A j \in 1 .. n - 1 : b[j] = a[j], SameBut(b[n], a[n])
  PROVE  b = [a EXCEPT ![n].vals = b[n].vals]
  <1> DEFINE c == [a EXCEPT ![n].vals = b[n].vals]
  <1>1. b[n] \in ActType /\ a[n] \in ActType /\ n \in 1 .. n
    OBVIOUS
  <1>2. /\ c \in Seq(ActType) /\ Len(c) = n /\ \A j \in 1 .. n - 1 : c[j] = a[j]
        /\ c[n].vals = b[n].vals /\ SameBut(c[n], a[n])
    <2>1. b[n].vals \in Seq(Content)
      BY <1>1 DEF ActType
    <2>2. \A v \in Seq(Content) :
            LET e == [a EXCEPT ![n].vals = v]
            IN  /\ e \in Seq(ActType) /\ Len(e) = n
                /\ \A j \in 1 .. n - 1 : e[j] = a[j]
                /\ e[n].vals = v /\ SameBut(e[n], a[n])
      BY ReplacedValues
    <2> QED BY <2>1, <2>2
  <1> HIDE DEF c
  <1>3. c[n] = b[n]
    <2>1. c[n] \in ActType
      BY <1>1, <1>2
    <2>2. SameBut(c[n], b[n])
      BY <1>2 DEF SameBut
    <2> QED BY <1>1, <1>2, <2>1, <2>2, SameAct
  <1>4. ASSUME NEW j \in 1 .. n PROVE b[j] = c[j]
    <2>1. j = n \/ j \in 1 .. n - 1
      OBVIOUS
    <2> QED BY <2>1, <1>2, <1>3
  <1>5. b = c
    BY <1>2, <1>4, SeqEqual
  <1> QED BY <1>5 DEF c

LEMMA ComputeStep ==
  ASSUME NEW a \in Seq(ActType), NEW b \in Seq(ActType), NEW n \in Nat \ {0}, Len(a) = n, Len(b) = n,
         \A j \in 1 .. n - 1 : b[j] = a[j], SameBut(b[n], a[n]), NEW vals
  PROVE  Call!Step(a, b, vals)
  BY IsReplaced DEF Call!Step, Call!Compute

LEMMA IsAppended ==
  ASSUME NEW a \in Seq(ActType), NEW b \in Seq(ActType), NEW n \in Nat \ {0}, Len(a) = n,
         Len(b) = n + 1, \A j \in 1 .. n - 1 : b[j] = a[j], SameBut(b[n], a[n])
  PROVE  b = Append([a EXCEPT ![n].vals = b[n].vals], b[n + 1])
  <1> DEFINE c == [a EXCEPT ![n].vals = b[n].vals]
             d == Append(c, b[n + 1])
  <1>1. /\ b[n] \in ActType /\ b[n + 1] \in ActType /\ a[n] \in ActType
        /\ n \in 1 .. n + 1 /\ n \in 1 .. n
    OBVIOUS
  <1>2. /\ c \in Seq(ActType) /\ Len(c) = n /\ \A j \in 1 .. n - 1 : c[j] = a[j]
        /\ c[n].vals = b[n].vals /\ SameBut(c[n], a[n])
    <2>1. b[n].vals \in Seq(Content)
      BY <1>1 DEF ActType
    <2>2. \A v \in Seq(Content) :
            LET e == [a EXCEPT ![n].vals = v]
            IN  /\ e \in Seq(ActType) /\ Len(e) = n
                /\ \A j \in 1 .. n - 1 : e[j] = a[j]
                /\ e[n].vals = v /\ SameBut(e[n], a[n])
      BY ReplacedValues
    <2> QED BY <2>1, <2>2
  <1> HIDE DEF c
  <1>3. c[n] = b[n]
    <2>1. c[n] \in ActType
      BY <1>1, <1>2
    <2>2. SameBut(c[n], b[n])
      BY <1>2 DEF SameBut
    <2> QED BY <1>1, <1>2, <2>1, <2>2, SameAct
  <1>4. /\ d \in Seq(ActType) /\ Len(d) = n + 1 /\ d[n + 1] = b[n + 1]
        /\ \A j \in 1 .. n : d[j] = c[j]
    BY <1>1, <1>2, AppendProperties
  <1> HIDE DEF d
  <1>5. ASSUME NEW j \in 1 .. n + 1 PROVE b[j] = d[j]
    <2>1. j = n \/ j = n + 1 \/ j \in 1 .. n - 1
      OBVIOUS
    <2>2. j \in 1 .. n - 1 => j \in 1 .. n
      OBVIOUS
    <2> QED BY <2>1, <2>2, <1>1, <1>2, <1>3, <1>4
  <1>6. b = d
    BY <1>4, <1>5, SeqEqual
  <1> QED BY <1>6 DEF d, c

LEMMA CallStep ==
  ASSUME NEW a \in Seq(ActType), NEW b \in Seq(ActType), NEW n \in Nat \ {0}, Len(a) = n,
         Len(b) = n + 1, \A j \in 1 .. n - 1 : b[j] = a[j], SameBut(b[n], a[n]),
         NEW keep, b[n].vals = SubSeq(a[n].vals, 1, keep),
         NEW args, b[n + 1].vals \in Call!Received(args),
         NEW want, b[n + 1].want = want, NEW into, b[n + 1].into = into,
         NEW protected, b[n + 1].protected = protected
  PROVE  Call!Call(a, b, args, keep, want, into, protected)
  <1>1. b = Append([a EXCEPT ![n].vals = b[n].vals], b[n + 1])
    BY IsAppended
  <1>2. b = Append([a EXCEPT ![Len(a)].vals = SubSeq(@, 1, keep)], b[Len(b)])
    BY <1>1
  <1> QED BY <1>2 DEF Call!Call

\* Of a step to one activation less: b is the rest of a with other values of its last.
LEMMA RestReplaced ==
  ASSUME NEW a \in Seq(ActType), NEW b \in Seq(ActType), NEW m \in 1 .. Len(a), Len(b) = m,
         \A j \in 1 .. m - 1 : b[j] = a[j], SameBut(b[m], a[m])
  PROVE  b = [SubSeq(a, 1, m) EXCEPT ![m].vals = b[m].vals]
  <1> DEFINE c == SubSeq(a, 1, m)
  <1>1. Len(a) \in Nat /\ m \in Nat \ {0} /\ 1 \in Int /\ m \in Int
    OBVIOUS
  <1>2. c \in Seq(ActType) /\ Len(c) = m /\ \A j \in 1 .. m : c[j] = a[j]
    <2>1. \A i \in 1 .. m : a[i] \in ActType
      BY <1>1
    <2>2. /\ c \in Seq(ActType) /\ Len(c) = IF 1 <= m THEN m - 1 + 1 ELSE 0
          /\ \A i \in 1 .. m - 1 + 1 : c[i] = a[1 + i - 1]
      BY <1>1, <2>1, SubSeqProperties
    <2> QED BY <1>1, <2>2
  <1> HIDE DEF c
  <1>3. (\A j \in 1 .. m - 1 : b[j] = c[j]) /\ SameBut(b[m], c[m])
    BY <1>1, <1>2
  <1> QED BY <1>1, <1>2, <1>3, IsReplaced DEF c

-----------------------------------------------------------------------------
(* The activations of a stack and its frames *)

\* The slots of activation j are those from Bottom to Upper: for one that waits
\* for a call, frame j, what is not part of it, for the last one those up to end.
Bottom(fs, j) == IF j = 1 THEN 0 ELSE fs[j - 1].base

Upper(fs, end, j) == IF j <= Len(fs) THEN Bottom(fs, j) + fs[j].how.keep ELSE end

Slice(st, from, end) ==
  [i \in 1 .. end - from |-> IF from + i - 1 \in Slot THEN st[from + i - 1] ELSE Err]

Want(fs, j) == IF j = 1 THEN 0 ELSE fs[j - 1].to_return

Into(fs, j) ==
  IF j = 1 THEN 1
  ELSE IF fs[j - 1].how.out # Nil THEN fs[j - 1].how.out - Bottom(fs, j - 1) + 1
  ELSE fs[j - 1].how.keep + 1

Shield(fs, j) ==
  IF j = 1 THEN Nil
  ELSE IF fs[j - 1].how.catch = Nil THEN Nil
  ELSE fs[j - 1].how.catch.top - (fs[j - 1].base - 1)

ActOf(fs, st, end, j) ==
  [vals |-> Slice(st, Bottom(fs, j), Upper(fs, end, j)), want |-> Want(fs, j),
   into |-> Into(fs, j), protected |-> Shield(fs, j)]

ActsOf(fs, st, end) == [j \in 1 .. Len(fs) + 1 |-> ActOf(fs, st, end, j)]

LEMMA FrameOf ==
  ASSUME NEW fs, FramesOK(fs), NEW i \in 1 .. Len(fs)
  PROVE  /\ Len(fs) \in Nat /\ i \in Nat /\ i > 0
         /\ fs[i] \in FrameType /\ fs[i].base \in Nat /\ fs[i].base < NSlots
         /\ fs[i].how \in HowType /\ fs[i].how.keep \in Nat
         /\ fs[i].to_return \in Nat \cup {VARARG}
         /\ OnStack(fs[i]) /\ Joined(i, fs[i - 1], fs[i])
         /\ Bottom(fs, i) \in Nat /\ Bottom(fs, i) + fs[i].how.keep < fs[i].base
  <1>1. Len(fs) \in Nat /\ \A k \in 1 .. Len(fs) : fs[k] \in FrameType
    BY DEF FramesOK
  <1>2. /\ fs[i] \in FrameType /\ OnStack(fs[i]) /\ Joined(i, fs[i - 1], fs[i])
        /\ i \in Nat /\ i > 0
    BY <1>1 DEF FramesOK
  <1>3. \A k \in 1 .. Len(fs) : fs[k].base \in Nat
    BY <1>1, Sizes DEF FrameType, Slot
  <1>4. /\ fs[i].base \in Nat /\ fs[i].base < NSlots
        /\ fs[i].how \in HowType /\ fs[i].to_return \in Nat \cup {VARARG}
    BY <1>2, Sizes DEF FrameType, Slot
  <1>5. fs[i].how.keep \in Nat
    BY <1>4 DEF HowType
  <1>6. Bottom(fs, i) \in Nat
    <2>1. CASE i = 1
      BY <2>1 DEF Bottom
    <2>2. CASE i > 1
      <3>1. i - 1 \in 1 .. Len(fs)
        BY <1>1, <2>2
      <3> QED BY <3>1, <2>2, <1>3 DEF Bottom
    <2> QED BY <2>1, <2>2, <1>2, OneOrMore
  <1>7. fs[i].base > (IF i = 1 THEN 0 ELSE fs[i - 1].base) + fs[i].how.keep
    BY <1>2 DEF Joined
  <1>8. fs[i].base > Bottom(fs, i) + fs[i].how.keep
    BY <1>7 DEF Bottom
  <1> QED BY <1>1, <1>2, <1>4, <1>5, <1>6, <1>8

\* Windows are above each other: of the numbers above k, the least one whose
\* window starts lower would be above one whose window does not.
LEMMA Bases ==
  ASSUME NEW fs, FramesOK(fs), NEW k \in 1 .. Len(fs), NEW m \in k .. Len(fs)
  PROVE  fs[k].base <= fs[m].base
  <1> DEFINE Lower == {i \in k .. Len(fs) : fs[i].base < fs[k].base}
  <1>1. Len(fs) \in Nat /\ k \in Nat /\ k > 0 /\ k <= Len(fs)
    BY FrameOf
  <1>2. \A i \in 1 .. Len(fs) : fs[i].base \in Nat
    BY FrameOf
  <1>3. SUFFICES ASSUME Lower # {} PROVE FALSE
    <2>1. m \in 1 .. Len(fs) /\ m \notin Lower
      BY <1>1, <1>3
    <2> QED BY <2>1, <1>1, <1>2
  <1>4. PICK i \in Lower : \A x \in Lower : i <= x
    <2>1. Lower \subseteq Nat
      BY <1>1
    <2> QED BY <2>1, <1>3, Least
  <1>5. i \in k .. Len(fs) /\ fs[i].base < fs[k].base
    BY <1>4
  <1>6. i > k
    <2>1. i # k
      BY <1>1, <1>2, <1>5
    <2> QED BY <2>1, <1>5, <1>1
  <1>7. i \in 1 .. Len(fs) /\ i - 1 \in k .. Len(fs) /\ i - 1 \in 1 .. Len(fs) /\ i # 1
    BY <1>1, <1>5, <1>6
  <1>8. i - 1 \notin Lower
    BY <1>4, <1>7
  <1>9. fs[k].base <= fs[i - 1].base
    BY <1>1, <1>2, <1>7, <1>8
  <1>10. fs[i - 1].base < fs[i].base
    <2>1. Bottom(fs, i) = fs[i - 1].base
      BY <1>7 DEF Bottom
    <2>2. Bottom(fs, i) + fs[i].how.keep < fs[i].base /\ fs[i].how.keep \in Nat /\ fs[i].base \in Nat
      BY <1>7, FrameOf
    <2>3. fs[i - 1].base \in Nat
      BY <1>2, <1>7
    <2> QED BY <2>1, <2>2, <2>3
  <1> QED BY <1>2, <1>5, <1>7, <1>9, <1>10, <1>1

LEMMA SliceIs ==
  ASSUME NEW st \in [Slot -> Content], NEW from \in Nat, NEW end \in Nat, from <= end
  PROVE  /\ Slice(st, from, end) \in Seq(Content) /\ Len(Slice(st, from, end)) = end - from
         /\ DOMAIN Slice(st, from, end) = 1 .. end - from
         /\ \A i \in 1 .. end - from :
              Slice(st, from, end)[i] = IF from + i - 1 \in Slot THEN st[from + i - 1] ELSE Err
  <1>1. Err \in Content
    BY DEF Content
  <1>2. \A i \in 1 .. end - from : (IF from + i - 1 \in Slot THEN st[from + i - 1] ELSE Err) \in Content
    BY <1>1
  <1> QED BY <1>2 DEF Slice

\* What slices depend on.
LEMMA SliceSame ==
  ASSUME NEW st \in [Slot -> Content], NEW tt \in [Slot -> Content],
         NEW from \in Nat, NEW end \in Nat, from <= end,
         \A s \in Slot : from <= s /\ s < end => tt[s] = st[s]
  PROVE  Slice(tt, from, end) = Slice(st, from, end)
  <1>1. ASSUME NEW i \in 1 .. end - from, from + i - 1 \in Slot
        PROVE  tt[from + i - 1] = st[from + i - 1]
    <2>1. from <= from + i - 1 /\ from + i - 1 < end
      OBVIOUS
    <2> QED BY <2>1, <1>1
  <1> QED BY <1>1 DEF Slice

LEMMA BottomIs ==
  ASSUME NEW fs, FramesOK(fs), NEW j \in 1 .. Len(fs) + 1
  PROVE  /\ Bottom(fs, j) \in Nat /\ j \in Nat /\ j > 0 /\ Len(fs) \in Nat
         /\ j = 1 => Bottom(fs, j) = 0
         /\ j > 1 => j - 1 \in 1 .. Len(fs) /\ Bottom(fs, j) = fs[j - 1].base
  <1>1. Len(fs) \in Nat /\ j \in Nat /\ j > 0
    BY DEF FramesOK
  <1>2. CASE j = 1
    BY <1>1, <1>2 DEF Bottom
  <1>3. CASE j > 1
    <2>1. j - 1 \in 1 .. Len(fs) /\ j # 1
      BY <1>1, <1>3
    <2> QED BY <1>1, <1>3, <2>1, FrameOf DEF Bottom
  <1> QED BY <1>1, <1>2, <1>3, OneOrMore

LEMMA UpperIs ==
  ASSUME NEW fs, FramesOK(fs), NEW j \in 1 .. Len(fs) + 1,
         NEW end \in Nat, Bottom(fs, Len(fs) + 1) <= end
  PROVE  /\ Upper(fs, end, j) \in Nat /\ Bottom(fs, j) <= Upper(fs, end, j)
         /\ j <= Len(fs) => Upper(fs, end, j) = Bottom(fs, j) + fs[j].how.keep
         /\ j > Len(fs) => j = Len(fs) + 1 /\ Upper(fs, end, j) = end
  <1>1. Len(fs) \in Nat /\ j \in Nat /\ j > 0
    BY DEF FramesOK
  <1>2. CASE j <= Len(fs)
    <2>1. j \in 1 .. Len(fs)
      BY <1>1, <1>2
    <2>2. fs[j].how.keep \in Nat /\ Bottom(fs, j) \in Nat
      BY <2>1, FrameOf
    <2> QED BY <1>1, <1>2, <2>2 DEF Upper
  <1>3. CASE j > Len(fs)
    BY <1>1, <1>3 DEF Upper
  <1> QED BY <1>1, <1>2, <1>3

LEMMA IntoIs ==
  ASSUME NEW fs, FramesOK(fs), NEW j \in 1 .. Len(fs) + 1
  PROVE  Into(fs, j) \in Nat /\ Want(fs, j) \in Nat \cup {VARARG} /\ Shield(fs, j) \in Nat \cup {Nil}
  <1>1. CASE j = 1
    BY <1>1 DEF Into, Want, Shield
  <1>2. CASE j > 1
    <2>1. j - 1 \in 1 .. Len(fs) /\ j # 1
      BY <1>2, BottomIs
    <2> DEFINE i == j - 1
               f == fs[i]
    <2>2. /\ Bottom(fs, i) \in Nat /\ f.base \in Nat /\ f.how.keep \in Nat /\ f.how \in HowType
          /\ f.to_return \in Nat \cup {VARARG} /\ Joined(i, fs[i - 1], f)
      BY <2>1, FrameOf
    <2>3. /\ f.how.by # "meta" => f.base = Bottom(fs, i) + f.how.keep + 1
          /\ f.how.out # Nil => f.how.by = "meta" /\ f.how.out \in Nat /\ Bottom(fs, i) <= f.how.out
          /\ f.how.catch # Nil => f.how.by = "api" /\ Bottom(fs, i) + f.how.keep <= f.how.catch.top
      <3>1. Bottom(fs, i) = IF i = 1 THEN 0 ELSE fs[i - 1].base
        BY DEF Bottom
      <3> QED BY <2>2, <3>1 DEF Joined
    <2>4. f.how.catch # Nil => f.how.catch.top \in Nat
      BY <2>2, Sizes DEF HowType, Slot
    <2> HIDE DEF f
    <2>5. Into(fs, j) = (IF f.how.out # Nil THEN f.how.out - Bottom(fs, i) + 1 ELSE f.how.keep + 1)
          /\ Want(fs, j) = f.to_return
          /\ Shield(fs, j) = (IF f.how.catch = Nil THEN Nil ELSE f.how.catch.top - (f.base - 1))
      BY <2>1 DEF Into, Want, Shield, f
    <2>6. Into(fs, j) \in Nat
      BY <2>2, <2>3, <2>5
    <2>7. Shield(fs, j) \in Nat \cup {Nil}
      <3>1. CASE f.how.catch = Nil
        BY <3>1, <2>5
      <3>2. CASE f.how.catch # Nil
        BY <3>2, <2>2, <2>3, <2>4, <2>5, SMTT(30)
      <3> QED BY <3>1, <3>2
    <2> QED BY <2>2, <2>5, <2>6, <2>7
  <1> QED BY <1>1, <1>2, BottomIs, OneOrMore

\* The activations have their type.
LEMMA ActsAre ==
  ASSUME NEW fs, FramesOK(fs), NEW st \in [Slot -> Content],
         NEW end \in Nat, Bottom(fs, Len(fs) + 1) <= end
  PROVE  /\ ActsOf(fs, st, end) \in Seq(ActType)
         /\ Len(ActsOf(fs, st, end)) = Len(fs) + 1
         /\ Len(fs) + 1 \in Nat \ {0}
         /\ \A j \in 1 .. Len(fs) + 1 :
              LET x == ActsOf(fs, st, end)[j]
              IN  /\ x = ActOf(fs, st, end, j)
                  /\ x.vals = Slice(st, Bottom(fs, j), Upper(fs, end, j))
                  /\ x.vals \in Seq(Content) /\ Len(x.vals) = Upper(fs, end, j) - Bottom(fs, j)
                  /\ x.want = Want(fs, j) /\ x.into = Into(fs, j) /\ x.protected = Shield(fs, j)
  <1>1. Len(fs) \in Nat
    BY DEF FramesOK
  <1>2. ASSUME NEW j \in 1 .. Len(fs) + 1
        PROVE  LET x == ActOf(fs, st, end, j)
               IN  /\ x \in ActType
                   /\ x.vals = Slice(st, Bottom(fs, j), Upper(fs, end, j))
                   /\ x.vals \in Seq(Content) /\ Len(x.vals) = Upper(fs, end, j) - Bottom(fs, j)
                   /\ x.want = Want(fs, j) /\ x.into = Into(fs, j) /\ x.protected = Shield(fs, j)
    <2>1. /\ Bottom(fs, j) \in Nat /\ Upper(fs, end, j) \in Nat /\ Bottom(fs, j) <= Upper(fs, end, j)
      BY BottomIs, UpperIs
    <2> DEFINE v == Slice(st, Bottom(fs, j), Upper(fs, end, j))
    <2>2. v \in Seq(Content) /\ Len(v) = Upper(fs, end, j) - Bottom(fs, j)
      BY <2>1, SliceIs
    <2>3. ActOf(fs, st, end, j) = [vals |-> v, want |-> Want(fs, j), into |-> Into(fs, j),
                                   protected |-> Shield(fs, j)]
      BY DEF ActOf
    <2> HIDE DEF v
    <2>4. Into(fs, j) \in Nat /\ Want(fs, j) \in Nat \cup {VARARG} /\ Shield(fs, j) \in Nat \cup {Nil}
      BY IntoIs
    <2>5. ActOf(fs, st, end, j) \in ActType
      BY <2>2, <2>3, <2>4 DEF ActType
    <2> QED BY <2>2, <2>3, <2>5 DEF v
  <1>3. ActsOf(fs, st, end) \in Seq(ActType) /\ Len(ActsOf(fs, st, end)) = Len(fs) + 1
    <2>1. \A j \in 1 .. Len(fs) + 1 : ActOf(fs, st, end, j) \in ActType
      BY <1>2
    <2> QED BY <1>1, <2>1 DEF ActsOf
  <1>4. \A j \in 1 .. Len(fs) + 1 : ActsOf(fs, st, end)[j] = ActOf(fs, st, end, j)
    BY DEF ActsOf
  <1> QED BY <1>1, <1>2, <1>3, <1>4

\* What activations have to do with a frame besides its window.
SameCall(f, g) == f.base = g.base /\ f.to_return = g.to_return /\ f.how = g.how

\* The first m frames of fs and gs were called in the same way.
SameCalls(fs, gs, m) ==
  m \in Nat /\ m <= Len(fs) /\ m <= Len(gs) /\ \A k \in 1 .. m : SameCall(fs[k], gs[k])

\* Two stacks that do not differ up to the slot before x.
SameBelow(st, tt, x) == \A s \in Slot : s + 1 < x => tt[s] = st[s]

LEMMA CalledSame ==
  ASSUME NEW fs, FramesOK(fs), NEW gs, FramesOK(gs), NEW m, SameCalls(fs, gs, m),
         NEW j \in 1 .. m + 1
  PROVE  /\ Bottom(gs, j) = Bottom(fs, j) /\ Want(gs, j) = Want(fs, j)
         /\ Into(gs, j) = Into(fs, j) /\ Shield(gs, j) = Shield(fs, j)
  <1>1. m \in Nat /\ j \in Nat /\ j > 0 /\ \A k \in 1 .. m : SameCall(fs[k], gs[k])
    BY DEF SameCalls
  <1>2. ASSUME NEW i \in 1 .. m + 1 PROVE Bottom(gs, i) = Bottom(fs, i)
    <2>1. i = 1 \/ i - 1 \in 1 .. m
      BY <1>1
    <2> QED BY <2>1, <1>1 DEF Bottom, SameCall
  <1>3. CASE j = 1
    BY <1>2, <1>3 DEF Want, Into, Shield
  <1>4. CASE j > 1
    <2>1. j - 1 \in 1 .. m /\ j - 1 \in 1 .. m + 1 /\ j # 1
      BY <1>1, <1>4
    <2>2. SameCall(fs[j - 1], gs[j - 1]) /\ Bottom(gs, j - 1) = Bottom(fs, j - 1)
      BY <1>1, <1>2, <2>1
    <2> QED BY <1>2, <2>1, <2>2 DEF Want, Into, Shield, SameCall
  <1> QED BY <1>1, <1>3, <1>4, OneOrMore

\* A waiting function keeps the values that are not part of its call as long as
\* the slots below that of the function called last do not change.
LEMMA ActKept ==
  ASSUME NEW fs, FramesOK(fs), NEW gs, FramesOK(gs), NEW m, SameCalls(fs, gs, m),
         NEW st \in [Slot -> Content], NEW tt \in [Slot -> Content],
         m > 0 => SameBelow(st, tt, fs[m].base),
         NEW e \in Nat, NEW x \in Nat,
         Bottom(fs, Len(fs) + 1) <= e, Bottom(gs, Len(gs) + 1) <= x
  PROVE  \A j \in 1 .. m : ActsOf(gs, tt, x)[j] = ActsOf(fs, st, e)[j]
  <1> SUFFICES ASSUME NEW j \in 1 .. m PROVE ActsOf(gs, tt, x)[j] = ActsOf(fs, st, e)[j]
    OBVIOUS
  <1>1. /\ m \in Nat /\ m > 0 /\ j \in Nat /\ j > 0 /\ j <= m /\ m <= Len(fs) /\ m <= Len(gs)
        /\ Len(fs) \in Nat /\ Len(gs) \in Nat
        /\ \A k \in 1 .. m : SameCall(fs[k], gs[k])
    BY DEF SameCalls, FramesOK
  <1>2. /\ j \in 1 .. Len(fs) /\ j \in 1 .. Len(fs) + 1 /\ j \in 1 .. Len(gs) + 1
        /\ j \in 1 .. m + 1 /\ m \in 1 .. Len(fs) /\ m \in j .. Len(fs)
    BY <1>1
  <1>3. /\ Bottom(gs, j) = Bottom(fs, j) /\ Want(gs, j) = Want(fs, j)
        /\ Into(gs, j) = Into(fs, j) /\ Shield(gs, j) = Shield(fs, j)
    BY <1>2, CalledSame
  <1>4. /\ Bottom(fs, j) \in Nat /\ fs[j].how.keep \in Nat /\ fs[j].base \in Nat
        /\ Bottom(fs, j) + fs[j].how.keep < fs[j].base
    BY <1>2, FrameOf
  <1>5. fs[j].base <= fs[m].base /\ fs[m].base \in Nat
    BY <1>2, Bases, FrameOf
  <1>6. gs[j].how.keep = fs[j].how.keep
    BY <1>1 DEF SameCall
  <1>7. /\ Upper(fs, e, j) = Bottom(fs, j) + fs[j].how.keep
        /\ Upper(gs, x, j) = Bottom(fs, j) + fs[j].how.keep
    BY <1>1, <1>3, <1>6 DEF Upper
  <1> DEFINE u == Bottom(fs, j) + fs[j].how.keep
  <1>8. Slice(tt, Bottom(fs, j), u) = Slice(st, Bottom(fs, j), u)
    <2>1. ASSUME NEW s \in Slot, s < u PROVE tt[s] = st[s]
      <3>0. s \in Nat
        BY Sizes DEF Slot
      <3>1. u \in Nat /\ u < fs[j].base /\ fs[j].base \in Nat
        BY <1>4
      <3> HIDE DEF u
      <3>2. s + 1 < fs[m].base
        BY <3>0, <3>1, <2>1, <1>5
      <3> QED BY <3>2, <1>1 DEF SameBelow
    <2>2. u \in Nat /\ Bottom(fs, j) <= u
      BY <1>4
    <2>3. \A s \in Slot : Bottom(fs, j) <= s /\ s < u => tt[s] = st[s]
      BY <2>1
    <2> HIDE DEF u
    <2> QED BY <2>2, <2>3, <1>4, SliceSame
  <1>9. ActOf(gs, tt, x, j) = ActOf(fs, st, e, j)
    BY <1>3, <1>7, <1>8 DEF ActOf
  <1> QED BY <1>2, <1>9 DEF ActsOf

\* The function of activation m + 1 is still called as it was.
LEMMA SameButVals ==
  ASSUME NEW fs, FramesOK(fs), NEW gs, FramesOK(gs), NEW m, SameCalls(fs, gs, m),
         NEW st \in [Slot -> Content], NEW tt \in [Slot -> Content],
         NEW e \in Nat, NEW x \in Nat,
         Bottom(fs, Len(fs) + 1) <= e, Bottom(gs, Len(gs) + 1) <= x
  PROVE  SameBut(ActsOf(gs, tt, x)[m + 1], ActsOf(fs, st, e)[m + 1])
  <1>1. m \in Nat /\ m <= Len(fs) /\ m <= Len(gs) /\ Len(fs) \in Nat /\ Len(gs) \in Nat
    BY DEF SameCalls, FramesOK
  <1>2. m + 1 \in 1 .. m + 1 /\ m + 1 \in 1 .. Len(fs) + 1 /\ m + 1 \in 1 .. Len(gs) + 1
    BY <1>1
  <1>3. /\ Want(gs, m + 1) = Want(fs, m + 1)
        /\ Into(gs, m + 1) = Into(fs, m + 1) /\ Shield(gs, m + 1) = Shield(fs, m + 1)
    BY <1>2, CalledSame
  <1> QED BY <1>2, <1>3, ActsAre DEF SameBut

-----------------------------------------------------------------------------
(* Steps between the activations of two stacks *)

\* What all steps have in common.
Stacks(fs, st, e, gs, tt, x) ==
  /\ FramesOK(fs) /\ st \in [Slot -> Content] /\ e \in Nat /\ Bottom(fs, Len(fs) + 1) <= e
  /\ FramesOK(gs) /\ tt \in [Slot -> Content] /\ x \in Nat /\ Bottom(gs, Len(gs) + 1) <= x

\* Only values of the function that runs change.
LEMMA ComputeActs ==
  ASSUME NEW fs, NEW st, NEW e, NEW gs, NEW tt, NEW x, Stacks(fs, st, e, gs, tt, x),
         Len(gs) = Len(fs), SameCalls(fs, gs, Len(fs)),
         Len(fs) > 0 => SameBelow(st, tt, fs[Len(fs)].base), NEW vals
  PROVE  Call!Step(ActsOf(fs, st, e), ActsOf(gs, tt, x), vals)
  <1> DEFINE n == Len(fs)
             a == ActsOf(fs, st, e)
             b == ActsOf(gs, tt, x)
  <1>1. /\ FramesOK(fs) /\ st \in [Slot -> Content] /\ e \in Nat /\ Bottom(fs, Len(fs) + 1) <= e
        /\ FramesOK(gs) /\ tt \in [Slot -> Content] /\ x \in Nat /\ Bottom(gs, Len(gs) + 1) <= x
    BY DEF Stacks
  <1>a. n \in Nat
    BY <1>1 DEF FramesOK
  <1>2. /\ a \in Seq(ActType) /\ Len(a) = n + 1 /\ n + 1 \in Nat \ {0}
        /\ b \in Seq(ActType) /\ Len(b) = n + 1
    BY <1>1, ActsAre
  <1>3. \A j \in 1 .. n : b[j] = a[j]
    BY <1>1, ActKept
  <1>4. SameBut(b[n + 1], a[n + 1])
    BY <1>1, SameButVals
  <1> HIDE DEF a, b, n
  <1>5. \A j \in 1 .. (n + 1) - 1 : b[j] = a[j]
    BY <1>a, <1>3
  <1>6. Call!Step(a, b, vals)
    BY <1>2, <1>4, <1>5, ComputeStep
  <1> QED BY <1>6 DEF a, b

\* A part of a slice is a slice.
Part(s, i, k) == SubSeq(s, i, k)

LEMMA SliceOfSlice ==
  ASSUME NEW st \in [Slot -> Content], NEW from \in Nat, NEW end \in Nat, from <= end,
         NEW i \in Nat \ {0}, NEW k \in Nat, i <= k + 1, k <= end - from
  PROVE  Part(Slice(st, from, end), i, k) = Slice(st, (from + i) - 1, from + k)
  <1> DEFINE s == Slice(st, from, end)
             lo == (from + i) - 1
             hi == from + k
             r == Slice(st, lo, hi)
  <1>1. /\ s \in Seq(Content) /\ Len(s) = end - from
        /\ \A j \in 1 .. end - from :
             s[j] = IF from + j - 1 \in Slot THEN st[from + j - 1] ELSE Err
    BY SliceIs
  <1>2. lo \in Nat /\ hi \in Nat /\ lo <= hi /\ hi - lo = (k - i) + 1
    OBVIOUS
  <1>3. /\ r \in Seq(Content) /\ Len(r) = hi - lo
        /\ \A j \in 1 .. hi - lo : r[j] = IF lo + j - 1 \in Slot THEN st[lo + j - 1] ELSE Err
    BY <1>2, SliceIs, ZenonT(60)
  <1> DEFINE c == SubSeq(s, i, k)
  <1> HIDE DEF s, r
  <1>4. /\ c \in Seq(Content) /\ Len(c) = (k - i) + 1
        /\ \A j \in 1 .. (k - i) + 1 : c[j] = s[(i + j) - 1]
    <2>1. \A j \in i .. k : s[j] \in Content
      BY <1>1
    <2>2. /\ c \in Seq(Content) /\ Len(c) = IF i <= k THEN k - i + 1 ELSE 0
          /\ \A j \in 1 .. k - i + 1 : c[j] = s[i + j - 1]
      BY <2>1, SubSeqProperties
    <2> QED BY <2>2
  <1>5. ASSUME NEW j \in 1 .. (k - i) + 1 PROVE c[j] = r[j]
    <2>1. (i + j) - 1 \in 1 .. end - from /\ from + ((i + j) - 1) - 1 = lo + j - 1
      OBVIOUS
    <2>2. j \in 1 .. hi - lo
      BY <1>2
    <2> HIDE DEF lo, hi
    <2>3. c[j] = s[(i + j) - 1]
      BY <1>4
    <2>4. PICK jj \in 1 .. end - from : jj = (i + j) - 1
      BY <2>1
    <2>5. from + jj - 1 = lo + j - 1
      BY <2>1, <2>4
    <2> QED BY <1>1, <1>3, <2>2, <2>3, <2>4, <2>5
  <1> HIDE DEF c, lo, hi
  <1>6. c = r
    <2>1. Len(c) = Len(r)
      BY <1>2, <1>3, <1>4
    <2> QED BY <1>3, <1>4, <1>5, <2>1, SeqEqual
  <1> QED BY <1>6 DEF c, r, s, lo, hi, Part

LEMMA FirstOfSlice ==
  ASSUME NEW st \in [Slot -> Content], NEW from \in Nat, NEW end \in Nat, from <= end,
         NEW k \in Nat, k <= end - from
  PROVE  Part(Slice(st, from, end), 1, k) = Slice(st, from, from + k)
  <1>1. PICK i \in Nat \ {0} : i = 1
    OBVIOUS
  <1>2. i <= k + 1 /\ (from + i) - 1 = from
    BY <1>1
  <1>3. Part(Slice(st, from, end), i, k) = Slice(st, (from + i) - 1, from + k)
    BY <1>2, SliceOfSlice
  <1> QED BY <1>1, <1>2, <1>3

\* A call: the caller keeps its values below the function, which starts with what
\* it makes of the arguments.
LEMMA CallActs ==
  ASSUME NEW fs, NEW st, NEW e, NEW gs, NEW tt, NEW x, Stacks(fs, st, e, gs, tt, x),
         NEW n, n = Len(fs), Len(gs) = n + 1, SameCalls(fs, gs, n),
         NEW f, f = gs[n + 1], SameBelow(st, tt, f.base), Bottom(fs, n + 1) + f.how.keep <= e,
         NEW args, Slice(tt, f.base, x) \in Call!Received(args)
  PROVE  Call!Call(ActsOf(fs, st, e), ActsOf(gs, tt, x), args, f.how.keep, f.to_return,
                   Into(gs, n + 2), Shield(gs, n + 2))
  <1> DEFINE a == ActsOf(fs, st, e)
             b == ActsOf(gs, tt, x)
             keep == f.how.keep
             bot == Bottom(fs, n + 1)
  <1>1. /\ FramesOK(fs) /\ st \in [Slot -> Content] /\ e \in Nat /\ bot <= e
        /\ FramesOK(gs) /\ tt \in [Slot -> Content] /\ x \in Nat /\ Bottom(gs, Len(gs) + 1) <= x
    BY DEF Stacks
  <1>a. n \in Nat
    BY <1>1 DEF FramesOK
  <1>b. /\ n + 1 \in 1 .. n + 1 /\ n + 1 \in 1 .. n + 2 /\ n + 2 \in 1 .. n + 2 /\ n + 2 # 1
        /\ (n + 2) - 1 = n + 1 /\ n + 1 \in 1 .. Len(gs) /\ n + 1 \in 1 .. Len(gs) + 1
        /\ n + 2 \in 1 .. Len(gs) + 1 /\ n + 2 > Len(gs) /\ n + 1 <= Len(gs) /\ n + 1 > n
        /\ n + 1 \in 1 .. Len(fs) + 1 /\ Len(gs) + 1 = n + 2 /\ n + 1 \in Nat \ {0}
    BY <1>a
  <1>2. /\ a \in Seq(ActType) /\ Len(a) = n + 1
        /\ b \in Seq(ActType) /\ Len(b) = n + 2
    BY <1>1, <1>b, ActsAre
  <1>3. /\ bot \in Nat /\ keep \in Nat /\ f.base \in Nat /\ Bottom(gs, n + 1) = bot
        /\ bot + keep < f.base
    <2>1. Bottom(gs, n + 1) = bot
      BY <1>1, <1>b, CalledSame
    <2> QED BY <2>1, <1>1, <1>b, FrameOf
  <1>4. \A j \in 1 .. n : b[j] = a[j]
    <2>1. n > 0 => SameBelow(st, tt, fs[n].base)
      <3>1. SUFFICES ASSUME n > 0, NEW s \in Slot, s + 1 < fs[n].base PROVE s + 1 < f.base
        BY DEF SameBelow
      <3>2. n \in 1 .. Len(fs) /\ n + 1 # 1 /\ (n + 1) - 1 = n
        BY <1>a, <3>1
      <3>3. bot = fs[n].base
        BY <3>2 DEF Bottom
      <3>4. s \in Nat /\ fs[n].base \in Nat
        BY <3>3, <1>3, Sizes DEF Slot
      <3> QED BY <3>1, <3>3, <3>4, <1>3
    <2> QED BY <2>1, <1>1, ActKept
  <1>5. SameBut(b[n + 1], a[n + 1])
    BY <1>1, SameButVals
  <1>6. a[n + 1].vals = Slice(st, bot, e)
    <2>1. Upper(fs, e, n + 1) = e
      BY <1>1, <1>b, UpperIs
    <2> QED BY <2>1, <1>1, <1>b, ActsAre
  <1>7. b[n + 1].vals = Slice(tt, bot, bot + keep)
    <2>1. Upper(gs, x, n + 1) = bot + keep
      <3>1. Upper(gs, x, n + 1) = Bottom(gs, n + 1) + gs[n + 1].how.keep
        BY <1>1, <1>b, UpperIs
      <3> QED BY <3>1, <1>3
    <2> QED BY <2>1, <1>1, <1>b, <1>3, ActsAre
  <1>8. b[n + 1].vals = SubSeq(a[n + 1].vals, 1, keep)
    <2> DEFINE u == bot + keep
    <2>1. u \in Nat /\ bot <= u /\ u < f.base
      BY <1>3
    <2>2. Slice(tt, bot, u) = Slice(st, bot, u)
      <3> HIDE DEF u, bot
      <3>1. ASSUME NEW s \in Slot, s < u PROVE tt[s] = st[s]
        <4>1. s \in Nat
          BY Sizes DEF Slot
        <4>2. s + 1 < f.base
          BY <4>1, <3>1, <2>1, <1>3
        <4> QED BY <4>2 DEF SameBelow
      <3> QED BY <3>1, <2>1, <1>1, <1>3, SliceSame
    <2>3. keep <= e - bot /\ 1 <= keep + 1
      BY <1>1, <1>3
    <2> HIDE DEF keep, bot, u
    <2>4. Part(Slice(st, bot, e), 1, keep) = Slice(st, bot, bot + keep)
      BY <1>1, <1>3, <2>3, FirstOfSlice
    <2> QED BY <1>6, <1>7, <2>2, <2>4 DEF u, Part
  <1>9. /\ b[n + 2].vals = Slice(tt, f.base, x) /\ b[n + 2].want = f.to_return
        /\ b[n + 2].into = Into(gs, n + 2) /\ b[n + 2].protected = Shield(gs, n + 2)
    <2>1. /\ Upper(gs, x, n + 2) = x /\ Bottom(gs, n + 2) = f.base /\ Want(gs, n + 2) = f.to_return
      BY <1>1, <1>b, UpperIs DEF Bottom, Want
    <2>2. LET y == b[n + 2]
          IN  /\ y.vals = Slice(tt, Bottom(gs, n + 2), Upper(gs, x, n + 2))
              /\ y.want = Want(gs, n + 2) /\ y.into = Into(gs, n + 2)
              /\ y.protected = Shield(gs, n + 2)
      BY <1>1, <1>b, ActsAre
    <2> QED BY <2>1, <2>2
  <1> HIDE DEF a, b, keep
  <1>10. Call!Call(a, b, args, keep, f.to_return, Into(gs, n + 2), Shield(gs, n + 2))
    <2>1. PICK m \in Nat \ {0} : m = n + 1
      BY <1>b
    <2>2. m + 1 = n + 2 /\ m - 1 = n
      BY <2>1, <1>a
    <2>3. \A j \in 1 .. m - 1 : b[j] = a[j]
      BY <2>2, <1>4
    <2>4. /\ Len(a) = m /\ Len(b) = m + 1 /\ SameBut(b[m], a[m])
          /\ b[m].vals = SubSeq(a[m].vals, 1, keep) /\ b[m + 1].vals \in Call!Received(args)
          /\ b[m + 1].want = f.to_return /\ b[m + 1].into = Into(gs, n + 2)
          /\ b[m + 1].protected = Shield(gs, n + 2)
      BY <2>1, <2>2, <1>2, <1>5, <1>8, <1>9
    <2> QED BY <2>3, <2>4, <1>2, CallStep, Zenon
  <1> QED BY <1>10 DEF a, b, keep

\* A return, apart from what the caller's values become.
LEMMA ReturnKept ==
  ASSUME NEW fs, NEW st, NEW e, NEW gs, NEW tt, NEW x, Stacks(fs, st, e, gs, tt, x),
         NEW n \in Nat, n = Len(fs), n > 0, Len(gs) = n - 1, SameCalls(fs, gs, n - 1),
         NEW f, f = fs[n], SameBelow(st, tt, Bottom(fs, n))
  PROVE  LET a == ActsOf(fs, st, e)
             b == ActsOf(gs, tt, x)
         IN  /\ Len(a) = n + 1
             /\ a[n].vals = Slice(st, Bottom(fs, n), Bottom(fs, n) + f.how.keep)
             /\ b[n].vals = Slice(tt, Bottom(fs, n), x)
             /\ a[n + 1].want = f.to_return /\ a[n + 1].into = Into(fs, n + 1)
             /\ b = [SubSeq(a, 1, n) EXCEPT ![n].vals = b[n].vals]
  <1> DEFINE a == ActsOf(fs, st, e)
             b == ActsOf(gs, tt, x)
             keep == f.how.keep
             bot == Bottom(fs, n)
  <1>1. /\ FramesOK(fs) /\ st \in [Slot -> Content] /\ e \in Nat /\ Bottom(fs, Len(fs) + 1) <= e
        /\ FramesOK(gs) /\ tt \in [Slot -> Content] /\ x \in Nat /\ Bottom(gs, Len(gs) + 1) <= x
    BY DEF Stacks
  <1>b. /\ n \in 1 .. n /\ n \in 1 .. n + 1 /\ n + 1 \in 1 .. n + 1 /\ n + 1 # 1
        /\ (n + 1) - 1 = n /\ n <= Len(fs) /\ n + 1 > Len(fs) /\ n \in 1 .. Len(fs) + 1
        /\ n + 1 \in 1 .. Len(fs) + 1 /\ n \in 1 .. Len(gs) + 1 /\ n > Len(gs)
        /\ Len(gs) + 1 = n /\ (n - 1) + 1 = n /\ n - 1 \in Nat
        /\ n \in 1 .. (n - 1) + 1 /\ n \in 1 .. Len(fs)
    OBVIOUS
  <1>2. /\ a \in Seq(ActType) /\ Len(a) = n + 1
        /\ b \in Seq(ActType) /\ Len(b) = n
    <2>1. a \in Seq(ActType) /\ Len(a) = n + 1
      BY <1>1, <1>b, ActsAre
    <2>2. b \in Seq(ActType) /\ Len(b) = n
      BY <1>1, <1>b, ActsAre
    <2> QED BY <2>1, <2>2
  <1>3. Bottom(gs, n) = bot /\ bot \in Nat
    BY <1>1, <1>b, CalledSame, FrameOf
  <1>4. \A j \in 1 .. n - 1 : b[j] = a[j]
    <2>1. n - 1 > 0 => SameBelow(st, tt, fs[n - 1].base)
      <3>1. SUFFICES ASSUME n - 1 > 0 PROVE fs[n - 1].base = bot
        OBVIOUS
      <3> QED BY <3>1 DEF Bottom
    <2>2. PICK m : m = n - 1
      OBVIOUS
    <2>3. SameCalls(fs, gs, m) /\ (m > 0 => SameBelow(st, tt, fs[m].base))
      BY <2>1, <2>2
    <2>4. \A j \in 1 .. m : b[j] = a[j]
      BY <2>3, <1>1, ActKept
    <2> QED BY <2>2, <2>4
  <1>5. SameBut(b[n], a[n])
    <2>1. PICK m : m = n - 1
      OBVIOUS
    <2>2. SameCalls(fs, gs, m) /\ m + 1 = n
      BY <2>1
    <2>3. SameBut(b[m + 1], a[m + 1])
      BY <2>2, <1>1, <1>b, SameButVals
    <2> QED BY <2>2, <2>3
  <1>6. a[n].vals = Slice(st, bot, bot + keep)
    <2>1. Upper(fs, e, n) = bot + keep
      BY <1>1, <1>b, UpperIs
    <2>2. a[n].vals = Slice(st, bot, Upper(fs, e, n))
      BY <1>1, <1>b, ActsAre
    <2> QED BY <2>1, <2>2
  <1>7. b[n].vals = Slice(tt, bot, x)
    <2>1. Upper(gs, x, n) = x
      BY <1>1, <1>b, UpperIs
    <2>2. b[n].vals = Slice(tt, Bottom(gs, n), Upper(gs, x, n))
      BY <1>1, <1>b, ActsAre
    <2> QED BY <2>1, <2>2, <1>3
  <1>8. a[n + 1].want = f.to_return /\ a[n + 1].into = Into(fs, n + 1)
    <2>1. Want(fs, n + 1) = f.to_return
      BY <1>b DEF Want
    <2> QED BY <2>1, <1>1, <1>b, ActsAre
  <1> HIDE DEF a, b
  <1>9. b = [SubSeq(a, 1, n) EXCEPT ![n].vals = b[n].vals]
    <2>1. n \in 1 .. Len(a)
      BY <1>2
    <2> QED BY <2>1, <1>2, <1>4, <1>5, RestReplaced
  <1> QED BY <1>2, <1>6, <1>7, <1>8, <1>9 DEF a, b

\* What the caller's values become: v, when it waits with the values callers for
\* results from place into on, and the last k of vals are returned.
GivenBack(v, callers, into, want, vals, k) ==
  LET given   == Call!Last(vals, k)
      results == IF want = VARARG THEN given ELSE Call!Adjust(given, want)
  IN  v = SubSeq(callers, 1, into - 1) \o results
            \o SubSeq(callers, into + Len(results), Len(callers))

\* A return: the caller's values change as the results say.
LEMMA ReturnActs ==
  ASSUME NEW fs, NEW st, NEW e, NEW gs, NEW tt, NEW x, Stacks(fs, st, e, gs, tt, x),
         NEW n \in Nat, n = Len(fs), n > 0, Len(gs) = n - 1, SameCalls(fs, gs, n - 1),
         NEW f, f = fs[n], SameBelow(st, tt, Bottom(fs, n)),
         NEW vals, NEW k,
         GivenBack(Slice(tt, Bottom(fs, n), x),
                   Slice(st, Bottom(fs, n), Bottom(fs, n) + f.how.keep),
                   Into(fs, n + 1), f.to_return, vals, k)
  PROVE  Call!Return(ActsOf(fs, st, e), ActsOf(gs, tt, x), vals, k)
  <1> DEFINE callers == Slice(st, Bottom(fs, n), Bottom(fs, n) + f.how.keep)
             into == Into(fs, n + 1)
  <1>1. PICK a : a = ActsOf(fs, st, e)
    OBVIOUS
  <1>2. PICK b : b = ActsOf(gs, tt, x)
    OBVIOUS
  <1>3. PICK v : v = Slice(tt, Bottom(fs, n), x)
    OBVIOUS
  <1>4. /\ Len(a) = n + 1 /\ a[n].vals = callers
        /\ b[n].vals = v /\ a[n + 1].want = f.to_return /\ a[n + 1].into = into
        /\ b = [SubSeq(a, 1, n) EXCEPT ![n].vals = b[n].vals]
    BY <1>1, <1>2, <1>3, ReturnKept
  <1>a. GivenBack(v, callers, into, f.to_return, vals, k)
    BY <1>3
  <1> HIDE DEF callers, into
  <1>5. /\ Len(a) > 1 /\ Len(a) - 1 = n
        /\ a[Len(a)].want = f.to_return /\ a[Len(a)].into = into
        /\ a[Len(a) - 1].vals = callers
    BY <1>4
  <1>6. b = [SubSeq(a, 1, Len(a) - 1) EXCEPT ![Len(a) - 1].vals = v]
    BY <1>4, <1>5, Zenon
  <1>7. Call!Return(a, b, vals, k)
    BY <1>a, <1>5, <1>6, Zenon DEF Call!Return, GivenBack
  <1> QED BY <1>1, <1>2, <1>7

\* An error: the caller of the innermost vm_pcall, that of frame i, gets it above
\* the values it had below the function.
LEMMA ThrowActs ==
  ASSUME NEW fs, NEW st, NEW e, NEW gs, NEW tt, NEW x, Stacks(fs, st, e, gs, tt, x),
         NEW i \in 1 .. Len(fs), NEW f, f = fs[i], NEW c, c = f.how.catch, c # Nil,
         \A k \in 1 .. Len(fs) : fs[k].how.catch # Nil => k <= i,
         Len(gs) = i - 1, SameCalls(fs, gs, i - 1), SameBelow(st, tt, f.base),
         c.top = x - 1, tt[c.top] = Err
  PROVE  Call!Throw(ActsOf(fs, st, e), ActsOf(gs, tt, x))
  <1> DEFINE a == ActsOf(fs, st, e)
             b == ActsOf(gs, tt, x)
             keep == f.how.keep
             bot == Bottom(fs, i)
             N == Len(fs)
  <1>1. /\ FramesOK(fs) /\ st \in [Slot -> Content] /\ e \in Nat /\ Bottom(fs, Len(fs) + 1) <= e
        /\ FramesOK(gs) /\ tt \in [Slot -> Content] /\ x \in Nat /\ Bottom(gs, Len(gs) + 1) <= x
    BY DEF Stacks
  <1>a. N \in Nat /\ i \in Nat /\ i > 0 /\ i <= N
    BY <1>1 DEF FramesOK
  <1>b. /\ i \in 1 .. N + 1 /\ i + 1 \in 1 .. N + 1 /\ i + 1 # 1 /\ (i + 1) - 1 = i
        /\ i \in 1 .. Len(gs) + 1 /\ i > Len(gs) /\ Len(gs) + 1 = i
        /\ (i - 1) + 1 = i /\ i \in 1 .. (i - 1) + 1 /\ i \in Nat \ {0} /\ i - 1 \in Nat
    BY <1>a
  <1>2. /\ a \in Seq(ActType) /\ Len(a) = N + 1 /\ N + 1 \in Nat
        /\ b \in Seq(ActType) /\ Len(b) = i
    BY <1>1, <1>b, ActsAre
  <1>3. /\ bot \in Nat /\ keep \in Nat /\ f.base \in Nat /\ bot + keep < f.base
        /\ Bottom(gs, i) = bot /\ f.how \in HowType
    BY <1>1, <1>b, CalledSame, FrameOf
  <1>4. /\ f.base = bot + keep + 1 /\ bot + keep <= c.top
        /\ c.top \in Nat /\ c.top \in Slot
    <2>1. Joined(i, fs[i - 1], f)
      BY <1>1, FrameOf
    <2>2. c \in CatchType
      BY <1>3 DEF HowType, CatchType
    <2>3. bot = IF i = 1 THEN 0 ELSE fs[i - 1].base
      BY DEF Bottom
    <2> QED BY <2>1, <2>2, <2>3, Sizes DEF Joined, CatchType, Slot
  <1>5. \A j \in 1 .. i - 1 : b[j] = a[j]
    <2>1. i - 1 > 0 => SameBelow(st, tt, fs[i - 1].base)
      <3>1. SUFFICES ASSUME i - 1 > 0, NEW s \in Slot, s + 1 < fs[i - 1].base PROVE s + 1 < f.base
        BY DEF SameBelow
      <3>2. fs[i - 1].base = bot
        BY <3>1 DEF Bottom
      <3>3. s \in Nat
        BY Sizes DEF Slot
      <3> QED BY <3>1, <3>2, <3>3, <1>3
    <2>2. PICK m : m = i - 1
      OBVIOUS
    <2> HIDE DEF a, b
    <2>3. \A j \in 1 .. m : b[j] = a[j]
      BY <2>1, <2>2, <1>1, ActKept DEF a, b
    <2> QED BY <2>2, <2>3
  <1>6. SameBut(b[i], a[i])
    <2>1. PICK m : m = i - 1
      OBVIOUS
    <2>2. SameCalls(fs, gs, m) /\ m + 1 = i
      BY <2>1, <1>b
    <2>3. SameBut(b[m + 1], a[m + 1])
      BY <2>2, <1>1, <1>b, SameButVals
    <2> QED BY <2>2, <2>3
  <1>7. a[i].vals = Slice(st, bot, bot + keep) /\ Len(a[i].vals) = keep
    <2>1. Upper(fs, e, i) = bot + keep
      BY <1>1, <1>a, <1>b, UpperIs
    <2>2. a[i].vals = Slice(st, bot, Upper(fs, e, i)) /\ Len(a[i].vals) = Upper(fs, e, i) - bot
      BY <1>1, <1>b, ActsAre
    <2> QED BY <2>1, <2>2, <1>3
  <1>8. b[i].vals = Slice(tt, bot, x)
    <2>1. Upper(gs, x, i) = x
      BY <1>1, <1>b, UpperIs
    <2> QED BY <2>1, <1>1, <1>b, <1>3, ActsAre
  <1>9. a[i + 1].protected = c.top - (bot + keep) /\ a[i + 1].protected # Nil
    <2>1. Shield(fs, i + 1) = c.top - (f.base - 1)
      BY <1>b DEF Shield
    <2>2. Shield(fs, i + 1) = c.top - (bot + keep) /\ Shield(fs, i + 1) \in Nat
      BY <2>1, <1>3, <1>4, SMTT(30)
    <2>3. Shield(fs, i + 1) # Nil
      BY <2>2, CallFramesAssumption
    <2> QED BY <2>2, <2>3, <1>1, <1>b, ActsAre
  <1>10. ASSUME NEW j \in 1 .. N + 1, a[j].protected # Nil PROVE j <= i + 1
    <2>1. a[j].protected = Shield(fs, j)
      BY <1>1, ActsAre
    <2>2. CASE j = 1
      BY <2>2, <1>a
    <2>3. CASE j # 1
      <3>1. j - 1 \in 1 .. N
        BY <2>3, <1>a
      <3>2. fs[j - 1].how.catch # Nil
        BY <1>10, <2>1, <2>3 DEF Shield
      <3> QED BY <3>1, <3>2, <1>a
    <2> QED BY <2>2, <2>3
  <1> DEFINE v == b[i].vals
  <1>11. /\ Len(v) = keep + a[i + 1].protected + 1
         /\ Part(v, 1, keep) = a[i].vals
         /\ v[Len(v)] = Err
    <2>0. v = Slice(tt, bot, x)
      BY <1>8
    <2> HIDE DEF bot, keep, v, a, b
    <2>a. PICK t \in Nat : t = c.top
      BY <1>4
    <2>b. bot \in Nat /\ keep \in Nat /\ bot + keep <= t /\ x = t + 1
      BY <1>1, <1>3, <1>4, <2>a
    <2>1. bot <= x /\ keep <= x - bot /\ x - bot = keep + (t - (bot + keep)) + 1
          /\ x - bot \in 1 .. x - bot /\ (bot + (x - bot)) - 1 = t
      BY <2>b
    <2>c. tt \in [Slot -> Content] /\ bot \in Nat /\ keep \in Nat /\ x \in Nat /\ bot <= x
      BY <1>1, <2>1, <2>b
    <2>2. /\ Len(v) = x - bot
          /\ \A j \in 1 .. x - bot : v[j] = IF bot + j - 1 \in Slot THEN tt[bot + j - 1] ELSE Err
      <3> DEFINE sl == Slice(tt, bot, x)
      <3>1. /\ Len(sl) = x - bot
            /\ \A j \in 1 .. x - bot : sl[j] = IF bot + j - 1 \in Slot THEN tt[bot + j - 1] ELSE Err
        BY <2>c, SliceIs, ZenonT(60)
      <3> HIDE DEF sl
      <3> QED BY <3>1, <2>0 DEF sl
    <2>3. Part(v, 1, keep) = Slice(tt, bot, bot + keep)
      <3>1. Part(Slice(tt, bot, x), 1, keep) = Slice(tt, bot, bot + keep)
        BY <2>c, <2>1, FirstOfSlice
      <3> QED BY <3>1, <2>0
    <2>4. Slice(tt, bot, bot + keep) = Slice(st, bot, bot + keep)
      <3> DEFINE u == bot + keep
      <3>0. u \in Nat /\ bot <= u /\ u + 1 = f.base
        BY <1>3, <1>4
      <3> HIDE DEF u, bot
      <3>1. ASSUME NEW s \in Slot, s < u PROVE tt[s] = st[s]
        <4>1. s \in Nat
          BY Sizes DEF Slot
        <4>2. s + 1 < f.base
          BY <4>1, <3>1, <3>0, <1>3
        <4> QED BY <4>2 DEF SameBelow
      <3>2. Slice(tt, bot, u) = Slice(st, bot, u)
        <4>1. \A s \in Slot : bot <= s /\ s < u => tt[s] = st[s]
          BY <3>1
        <4> QED BY <4>1, <3>0, <1>1, <1>3, SliceSame
      <3> QED BY <3>2 DEF u
    <2>5. v[Len(v)] = Err
      <3>1. PICK l : l = x - bot
        OBVIOUS
      <3>2. l \in 1 .. x - bot /\ bot + l - 1 = t
        BY <3>1, <2>1, <1>3
      <3> QED BY <3>1, <3>2, <2>2, <2>a, <1>4
    <2> QED BY <2>1, <2>2, <2>3, <2>4, <2>5, <2>a, <1>7, <1>9
  <1> HIDE DEF a, b, v, N, bot, keep
  <1>12. b = [SubSeq(a, 1, i) EXCEPT ![i].vals = v]
    <2>1. i \in 1 .. Len(a)
      BY <1>2, <1>a
    <2>2. b = [SubSeq(a, 1, i) EXCEPT ![i].vals = b[i].vals]
      BY <2>1, <1>2, <1>5, <1>6, RestReplaced
    <2> QED BY <2>2 DEF v
  <1>13. DOMAIN a = 1 .. N + 1
    BY <1>2
  <1> DEFINE Protected == {j \in DOMAIN a : a[j].protected # Nil}
             m == CHOOSE j \in Protected : \A k \in Protected : k <= j
  <1>14. m = i + 1 /\ Protected # {}
    <2>1. i + 1 \in Protected /\ \A k \in Protected : k <= i + 1
      BY <1>13, <1>b, <1>9, <1>10 DEF N
    <2>2. m \in Protected /\ \A k \in Protected : k <= m
      BY <2>1
    <2>3. m \in Nat /\ m <= i + 1 /\ i + 1 <= m
      BY <2>1, <2>2, <1>13, <1>2
    <2> QED BY <2>1, <2>3, <1>a
  <1> HIDE DEF m, Protected
  <1>15. m - 1 = i
    BY <1>14, <1>a
  <1>16. /\ Protected # {} /\ Len(b) = m - 1
         /\ Len(v) = Len(a[m - 1].vals) + a[m].protected + 1
         /\ SubSeq(v, 1, Len(a[m - 1].vals)) = a[m - 1].vals
         /\ v[Len(v)] = Err
         /\ b = [SubSeq(a, 1, m - 1) EXCEPT ![m - 1].vals = v]
         /\ v = b[m - 1].vals
    <2>1. SubSeq(v, 1, keep) = a[i].vals
      BY <1>11 DEF Part
    <2>2. v = b[m - 1].vals
      BY <1>15 DEF v
    <2> QED BY <2>1, <2>2, <1>2, <1>7, <1>11, <1>12, <1>14, <1>15
  <1>17. Call!Throw(a, b)
    BY <1>16, Zenon DEF Call!Throw, m, Protected
  <1> QED BY <1>17 DEF a, b

-----------------------------------------------------------------------------
(* The activations of a state *)

\* Where the values of the function that runs end.
RunEnd == IF InC \/ open THEN top ELSE window.base + live

LEMMA RunEndIs ==
  Good => /\ RunEnd \in Nat /\ window.base <= RunEnd /\ RunEnd <= top
          /\ window.base \in Nat /\ Bottom(frames, Len(frames) + 1) = window.base
          /\ FramesOK(frames) /\ stack \in [Slot -> Content] /\ Len(frames) \in Nat
  <1> SUFFICES ASSUME Good
               PROVE  /\ RunEnd \in Nat /\ window.base <= RunEnd /\ RunEnd <= top
                      /\ window.base \in Nat /\ Bottom(frames, Len(frames) + 1) = window.base
                      /\ FramesOK(frames) /\ stack \in [Slot -> Content] /\ Len(frames) \in Nat
    OBVIOUS
  <1>1. FramesOK(frames) /\ stack \in [Slot -> Content] /\ Len(frames) \in Nat
    BY HostIs DEF Good, TypeOK, Content
  <1>2. /\ window.base \in Nat /\ window.len \in Nat /\ top = window.base + window.len /\ top \in Nat
    BY WindowIs
  <1>3. RunEnd \in Nat /\ window.base <= RunEnd /\ RunEnd <= top
    <2>1. CASE InC \/ open
      BY <2>1, <1>2 DEF RunEnd
    <2>2. CASE ~(InC \/ open)
      <3>1. live \in Nat /\ window.base + live <= top
        BY <2>2, RegistersInWindow DEF InLua
      <3> QED BY <2>2, <3>1, <1>2 DEF RunEnd
    <2> QED BY <2>1, <2>2
  <1>4. Bottom(frames, Len(frames) + 1) = window.base
    <2>1. CASE InHost
      <3>1. Len(frames) = 0 /\ window.base = 0
        BY <2>1, HostIs DEF Good, Running
      <3> QED BY <3>1 DEF Bottom
    <2>2. CASE ~InHost
      <3>1. Len(frames) + 1 # 1 /\ (Len(frames) + 1) - 1 = Len(frames)
            /\ frames[Len(frames)].base = window.base
        BY <2>2, <1>1, HostIs, CallerIs
      <3> QED BY <3>1 DEF Bottom
    <2> QED BY <2>1, <2>2
  <1> QED BY <1>1, <1>2, <1>3, <1>4

LEMMA ActivationsAre == Good => Activations = ActsOf(frames, stack, RunEnd)
  <1> SUFFICES ASSUME Good PROVE Activations = ActsOf(frames, stack, RunEnd)
    OBVIOUS
  <1> DEFINE n == Len(frames)
             a == ActsOf(frames, stack, RunEnd)
             h == [vals |-> HostValues, want |-> 0, into |-> 1, protected |-> Nil]
             t == [i \in DOMAIN frames |-> Activation(i)]
  <1>1. /\ RunEnd \in Nat /\ window.base <= RunEnd /\ Bottom(frames, n + 1) <= RunEnd
        /\ FramesOK(frames) /\ stack \in [Slot -> Content] /\ n \in Nat
    BY RunEndIs
  <1>2. /\ a \in Seq(ActType) /\ Len(a) = n + 1
        /\ \A j \in 1 .. n + 1 : a[j] = ActOf(frames, stack, RunEnd, j)
    <2>1. PICK fs : fs = frames
      OBVIOUS
    <2>2. PICK st : st = stack
      OBVIOUS
    <2>3. PICK e : e = RunEnd
      OBVIOUS
    <2>4. FramesOK(fs) /\ st \in [Slot -> Content] /\ e \in Nat /\ Bottom(fs, Len(fs) + 1) <= e
      BY <1>1, <2>1, <2>2, <2>3
    <2>5. /\ ActsOf(fs, st, e) \in Seq(ActType) /\ Len(ActsOf(fs, st, e)) = Len(fs) + 1
          /\ \A j \in 1 .. Len(fs) + 1 : ActsOf(fs, st, e)[j] = ActOf(fs, st, e, j)
      BY <2>4, ActsAre
    <2> QED BY <2>1, <2>2, <2>3, <2>5
  <1>3. \A from, end : Contents(from, end) = Slice(stack, from, end)
    BY DEF Contents, At, Slice
  <1>4. DOMAIN frames = 1 .. n
    BY <1>1 DEF FramesOK
  <1>5. h = a[1]
    <2>1. Upper(frames, RunEnd, 1) = IF frames = <<>> THEN top ELSE frames[1].how.keep
      <3>1. CASE n = 0
        <4>1. frames = <<>> /\ InC
          BY <3>1, <1>1, HostIs DEF FramesOK
        <4> QED BY <3>1, <4>1 DEF Upper, RunEnd
      <3>2. CASE n # 0
        <4>1. 1 \in 1 .. n /\ 1 <= n /\ frames # <<>>
          BY <3>2, <1>1
        <4>2. frames[1].how.keep \in Nat
          BY <4>1, FrameIs
        <4> QED BY <4>1, <4>2 DEF Upper, Bottom
      <3> QED BY <3>1, <3>2
    <2>2. HostValues = Slice(stack, Bottom(frames, 1), Upper(frames, RunEnd, 1))
      BY <2>1, <1>3 DEF HostValues, Bottom
    <2>3. h = ActOf(frames, stack, RunEnd, 1)
      BY <2>2 DEF ActOf, Want, Into, Shield
    <2> QED BY <2>3, <1>1, <1>2
  <1>6. ASSUME NEW i \in 1 .. n PROVE Activation(i) = a[i + 1]
    <2>1. i \in Nat /\ i + 1 # 1 /\ (i + 1) - 1 = i /\ i + 1 \in 1 .. n + 1
          /\ (i + 1 <= n <=> i < n)
      BY <1>1
    <2>2. Upper(frames, RunEnd, i + 1)
            = IF i < n THEN frames[i].base + frames[i + 1].how.keep ELSE RunEnd
      BY <2>1 DEF Upper, Bottom
    <2>3. Values(i) = Slice(stack, Bottom(frames, i + 1), Upper(frames, RunEnd, i + 1))
      <3>1. Bottom(frames, i + 1) = frames[i].base
        BY <2>1 DEF Bottom
      <3> QED BY <2>2, <3>1, <1>3 DEF Values, RunEnd
    <2>4. Activation(i) = ActOf(frames, stack, RunEnd, i + 1)
      <3>1. /\ Want(frames, i + 1) = frames[i].to_return
            /\ Shield(frames, i + 1) = IF frames[i].how.catch = Nil THEN Nil
                                       ELSE frames[i].how.catch.top - (frames[i].base - 1)
            /\ Into(frames, i + 1) = IF frames[i].how.out # Nil
                                     THEN frames[i].how.out - Bottom(frames, i) + 1
                                     ELSE frames[i].how.keep + 1
        BY <2>1 DEF Want, Shield, Into
      <3>2. Bottom(frames, i) = IF i = 1 THEN 0 ELSE frames[i - 1].base
        BY DEF Bottom
      <3> QED BY <2>3, <3>1, <3>2, Zenon DEF Activation, ActOf
    <2> QED BY <2>1, <2>4, <1>2
  <1> HIDE DEF a, h
  <1>7. h \in ActType /\ t \in Seq(ActType) /\ Len(t) = n /\ \A i \in 1 .. n : t[i] = a[i + 1]
    <2>1. 1 \in 1 .. n + 1 /\ \A i \in 1 .. n : i + 1 \in 1 .. n + 1
      BY <1>1
    <2>2. \A i \in 1 .. n : Activation(i) \in ActType
      BY <2>1, <1>2, <1>6
    <2>3. t = [i \in 1 .. n |-> Activation(i)]
      BY <1>4
    <2>4. t \in Seq(ActType) /\ Len(t) = n
      BY <2>2, <2>3, <1>1
    <2> QED BY <2>1, <2>3, <2>4, <1>2, <1>5, <1>6
  <1> HIDE DEF t
  <1>8. PICK c : c = <<h>> \o t
    OBVIOUS
  <1>9. /\ c \in Seq(ActType) /\ Len(c) = n + 1
        /\ \A j \in 1 .. n + 1 : c[j] = IF j <= 1 THEN h ELSE t[j - 1]
    <2>1. <<h>> \in Seq(ActType) /\ Len(<<h>>) = 1 /\ <<h>>[1] = h
      BY <1>7
    <2>2. PICK s \in Seq(ActType) : s = <<h>>
      BY <2>1
    <2>a. PICK r \in Seq(ActType) : r = t
      BY <1>7
    <2>b. /\ s \o r \in Seq(ActType) /\ Len(s \o r) = Len(s) + Len(r)
          /\ \A j \in 1 .. Len(s) + Len(r) : (s \o r)[j] = IF j <= Len(s) THEN s[j] ELSE r[j - Len(s)]
      BY ConcatProperties, Zenon
    <2>3. /\ s \o t \in Seq(ActType) /\ Len(s \o t) = Len(s) + Len(t)
          /\ \A j \in 1 .. Len(s) + Len(t) : (s \o t)[j] = IF j <= Len(s) THEN s[j] ELSE t[j - Len(s)]
      BY <2>a, <2>b
    <2>4. c = s \o t /\ Len(s) = 1 /\ s[1] = h
      BY <2>1, <2>2, <1>8
    <2>5. Len(c) = n + 1 /\ 1 + Len(t) = n + 1
      BY <2>3, <2>4, <1>1, <1>7
    <2>6. ASSUME NEW j \in 1 .. n + 1 PROVE c[j] = IF j <= 1 THEN h ELSE t[j - 1]
      <3>1. j <= 1 => j = 1
        BY <1>1
      <3>2. c[j] = IF j <= 1 THEN s[j] ELSE t[j - 1]
        BY <2>3, <2>4, <2>5
      <3> QED BY <3>1, <3>2, <2>4
    <2> QED BY <2>3, <2>4, <2>5, <2>6
  <1>10. ASSUME NEW j \in 1 .. n + 1 PROVE c[j] = a[j]
    <2>1. CASE j = 1
      BY <2>1, <1>5, <1>9
    <2>2. CASE j # 1
      <3>1. j - 1 \in 1 .. n /\ ~(j <= 1) /\ (j - 1) + 1 = j
        BY <2>2, <1>1
      <3> QED BY <3>1, <1>7, <1>9
    <2> QED BY <2>1, <2>2
  <1>11. c = a
    BY <1>2, <1>9, <1>10, SeqEqual
  <1> QED BY <1>8, <1>11 DEF Activations, a, h, t

\* The values of the function that runs, to which its caller's activation is next.
LEMMA ActsNow ==
  Good => /\ Activations = ActsOf(frames, stack, RunEnd)
          /\ Len(Activations) = Len(frames) + 1 /\ Len(frames) \in Nat
          /\ Activations[Len(Activations)].vals = Slice(stack, window.base, RunEnd)
          /\ FramesOK(frames) /\ stack \in [Slot -> Content] /\ RunEnd \in Nat
          /\ Bottom(frames, Len(frames) + 1) = window.base /\ window.base \in Nat
          /\ window.base <= RunEnd /\ RunEnd <= top
  <1> SUFFICES ASSUME Good
               PROVE  /\ Activations = ActsOf(frames, stack, RunEnd)
                      /\ Len(Activations) = Len(frames) + 1
                      /\ Activations[Len(Activations)].vals = Slice(stack, window.base, RunEnd)
    BY RunEndIs
  <1>1. Activations = ActsOf(frames, stack, RunEnd)
    BY ActivationsAre
  <1>2. PICK fs : fs = frames
    OBVIOUS
  <1>3. PICK st : st = stack
    OBVIOUS
  <1>4. PICK e : e = RunEnd
    OBVIOUS
  <1>5. /\ FramesOK(fs) /\ st \in [Slot -> Content] /\ e \in Nat /\ Bottom(fs, Len(fs) + 1) <= e
        /\ Bottom(fs, Len(fs) + 1) = window.base /\ Len(fs) \in Nat
    BY <1>2, <1>3, <1>4, RunEndIs
  <1>6. Len(fs) + 1 \in 1 .. Len(fs) + 1 /\ Len(fs) + 1 > Len(fs)
    BY <1>5
  <1>7. Upper(fs, e, Len(fs) + 1) = e
    BY <1>5, <1>6, UpperIs
  <1>8. /\ Len(ActsOf(fs, st, e)) = Len(fs) + 1
        /\ ActsOf(fs, st, e)[Len(fs) + 1].vals
             = Slice(st, Bottom(fs, Len(fs) + 1), Upper(fs, e, Len(fs) + 1))
    BY <1>5, <1>6, ActsAre
  <1> QED BY <1>1, <1>2, <1>3, <1>4, <1>5, <1>7, <1>8

\* A step, as one between two stacks.
LEMMA StacksNow ==
  ASSUME Good, Good'
  PROVE  /\ Stacks(frames, stack, RunEnd, frames', stack', RunEnd')
         /\ Activations' = ActsOf(frames', stack', RunEnd')
         /\ Len(Activations') = Len(frames') + 1 /\ Len(frames') \in Nat
  <1>1. /\ FramesOK(frames') /\ stack' \in [Slot -> Content] /\ RunEnd' \in Nat
        /\ Bottom(frames', Len(frames') + 1) <= RunEnd'
        /\ Activations' = ActsOf(frames', stack', RunEnd')
        /\ Len(Activations') = Len(frames') + 1 /\ Len(frames') \in Nat
    <2>1. (/\ Activations = ActsOf(frames, stack, RunEnd)
           /\ Len(Activations) = Len(frames) + 1 /\ Len(frames) \in Nat
           /\ Activations[Len(Activations)].vals = Slice(stack, window.base, RunEnd)
           /\ FramesOK(frames) /\ stack \in [Slot -> Content] /\ RunEnd \in Nat
           /\ Bottom(frames, Len(frames) + 1) = window.base /\ window.base \in Nat
           /\ window.base <= RunEnd /\ RunEnd <= top)'
      BY ActsNow, PTL
    <2> QED BY <2>1
  <1>2. /\ FramesOK(frames) /\ stack \in [Slot -> Content] /\ RunEnd \in Nat
        /\ Bottom(frames, Len(frames) + 1) <= RunEnd
    BY ActsNow
  <1> QED BY <1>1, <1>2 DEF Stacks

LEMMA StepIsNext ==
  ASSUME Good, Call!Step(Activations, Activations', Slice(stack, window.base, RunEnd))
  PROVE  Call!Next
  <1>1. Activations[Len(Activations)].vals = Slice(stack, window.base, RunEnd)
    BY ActsNow
  <1> QED BY <1>1 DEF Call!Next

LEMMA ComputesNext ==
  ASSUME Good, Good', Len(frames') = Len(frames), SameCalls(frames, frames', Len(frames)),
         SameBelow(stack, stack', window.base)
  PROVE  Call!Next
  <1>1. PICK fs : fs = frames
    OBVIOUS
  <1>2. PICK st : st = stack
    OBVIOUS
  <1>3. PICK e : e = RunEnd
    OBVIOUS
  <1>4. PICK gs : gs = frames'
    OBVIOUS
  <1>5. PICK tt : tt = stack'
    OBVIOUS
  <1>6. PICK x : x = RunEnd'
    OBVIOUS
  <1>7. PICK vals : vals = Slice(stack, window.base, RunEnd)
    OBVIOUS
  <1>8. /\ Stacks(fs, st, e, gs, tt, x) /\ Len(gs) = Len(fs) /\ SameCalls(fs, gs, Len(fs))
        /\ Activations = ActsOf(fs, st, e) /\ Activations' = ActsOf(gs, tt, x)
    BY <1>1, <1>2, <1>3, <1>4, <1>5, <1>6, StacksNow, ActsNow
  <1>9. Len(fs) > 0 => SameBelow(st, tt, fs[Len(fs)].base)
    <2>1. SUFFICES ASSUME Len(frames) > 0 PROVE frames[Len(frames)].base = window.base
      BY <1>1, <1>2, <1>5
    <2>2. ~InHost
      BY <2>1, HostIs
    <2> QED BY <2>2, CallerIs
  <1>10. Call!Step(ActsOf(fs, st, e), ActsOf(gs, tt, x), vals)
    BY <1>8, <1>9, ComputeActs
  <1> QED BY <1>7, <1>8, <1>10, StepIsNext

\* Of the array of frames nothing changes, and nothing below the window.
LEMMA SameFramesNext ==
  ASSUME Good, Good', frames' = frames, SameBelow(stack, stack', window.base)
  PROVE  Call!Next
  <1>1. SameCalls(frames, frames', Len(frames))
    <2>1. Len(frames) \in Nat
      BY HostIs
    <2> QED BY <2>1 DEF SameCalls, SameCall
  <1> QED BY <1>1, ComputesNext

-----------------------------------------------------------------------------
(* Errors *)

LEMMA ThrowsNext ==
  ASSUME Good, Good', Handlers # {}, NEW st \in [Slot -> Content],
         SameBelow(stack, st, window.base),
         Caught(frames[Max(Handlers)].how.catch, st), strays' = {}
  PROVE  Call!Next
  <1> DEFINE i == Max(Handlers)
             f == frames[i]
             c == f.how.catch
  <1>1. /\ i \in 1 .. Len(frames) /\ c # Nil /\ c \in CatchType /\ Catches(i, frames[i - 1], c)
        /\ \A k \in Handlers : k <= i
    BY InnermostHandler
  <1>2. /\ Len(frames) \in Nat /\ i \in Nat /\ i > 0 /\ i <= Len(frames)
    BY <1>1, HostIs
  <1>3. /\ stack' = [st EXCEPT ![c.top] = Err] /\ frames' = SubSeq(frames, 1, c.cf + 1)
        /\ strays' = IF c.host THEN strays \cup {"leaked"} ELSE strays
        /\ window' = [base |-> c.base, len |-> (c.top + 1) - c.base]
    BY Zenon DEF Caught, Stray, Window
  <1> HIDE DEF c
  <1>4. ~c.host /\ i > 1
    <2>1. ~c.host
      BY <1>3
    <2>2. i # 1
      BY <2>1, <1>1 DEF Catches
    <2> QED BY <2>1, <2>2, <1>2, OneOrMore
  <1>5. /\ i - 1 \in 1 .. Len(frames) /\ c.cf = i - 2
        /\ c.base = frames[i - 1].base /\ c.base <= c.top /\ frames[i - 1].kind = "C"
    BY <1>1, <1>2, <1>4 DEF Catches
  <1>6. c.top \in Nat /\ c.top \in Slot /\ c.base \in Nat
    BY <1>1, Sizes DEF CatchType, Slot
  <1>7. /\ Len(frames') = i - 1 /\ \A k \in 1 .. i - 1 : frames'[k] = frames[k]
    <2>1. c.cf + 1 = i - 1 /\ i - 1 \in 0 .. Len(frames) /\ FramesOK(frames)
      BY <1>2, <1>5 DEF Good
    <2>2. frames' = SubSeq(frames, 1, i - 1)
      BY <1>3, <2>1
    <2>3. PICK m \in 0 .. Len(frames) : m = i - 1
      BY <2>1
    <2>4. /\ Len(SubSeq(frames, 1, m)) = m /\ \A k \in 1 .. m : SubSeq(frames, 1, m)[k] = frames[k]
      BY <2>1, FramesPopped
    <2> QED BY <2>2, <2>3, <2>4
  <1>8. RunEnd' = c.top + 1
    <2>1. InC'
      <3>1. ~leaked'
        BY DEF Good
      <3>2. ~InHost' /\ caller' = frames[i - 1]
        <4>1. i - 1 \in 1 .. i - 1 /\ i - 1 # 0
          BY <1>5
        <4> QED BY <4>1, <3>1, <1>7 DEF InHost, caller
      <3> QED BY <3>2, <1>5 DEF InC
    <2>2. top' = c.top + 1
      BY <1>3, <1>5, <1>6 DEF top
    <2> QED BY <2>1, <2>2 DEF RunEnd
  <1>9. SameCalls(frames, frames', i - 1)
    BY <1>2, <1>7 DEF SameCalls, SameCall
  <1>10. f.base <= window.base /\ f.base \in Nat /\ f.base <= c.top + 1
    <2>1. PICK fs : fs = frames
      OBVIOUS
    <2>2. FramesOK(fs) /\ i \in 1 .. Len(fs) /\ Len(fs) \in i .. Len(fs)
      BY <2>1, <1>2 DEF Good
    <2>3. PICK j \in 1 .. Len(fs) : j = i
      BY <2>2
    <2>4. fs[j].base <= fs[Len(fs)].base
      BY <2>2, <2>3, Bases
    <2>5. frames[Len(frames)].base = window.base
      BY <1>2, HostIs, CallerIs
    <2>6. /\ Bottom(fs, j) \in Nat /\ fs[j].how.keep \in Nat /\ fs[j].base \in Nat
          /\ Joined(j, fs[j - 1], fs[j])
      BY <2>2, FrameOf
    <2>7. fs[j].base = Bottom(fs, j) + fs[j].how.keep + 1
          /\ Bottom(fs, j) + fs[j].how.keep <= c.top
      <3>1. Bottom(fs, j) = IF j = 1 THEN 0 ELSE fs[j - 1].base
        BY DEF Bottom
      <3>2. fs[j].how.catch = c /\ c # Nil
        BY <2>1, <2>3, <1>1 DEF c
      <3> QED BY <2>6, <3>1, <3>2 DEF Joined
    <2> QED BY <2>1, <2>3, <2>4, <2>5, <2>6, <2>7, <1>6
  <1>11. SameBelow(stack, stack', f.base)
    <2>1. ASSUME NEW s \in Slot, s + 1 < f.base PROVE stack'[s] = stack[s]
      <3>1. s \in Nat /\ window.base \in Nat
        BY WindowIs, Sizes DEF Slot
      <3>2. s + 1 < window.base /\ s # c.top
        BY <3>1, <2>1, <1>6, <1>10
      <3>3. st[s] = stack[s]
        BY <3>2 DEF SameBelow
      <3> QED BY <3>2, <3>3, <1>3
    <2> QED BY <2>1 DEF SameBelow
  <1>12. stack'[c.top] = Err
    BY <1>3, <1>6
  <1>13. \A k \in 1 .. Len(frames) : frames[k].how.catch # Nil => k <= i
    <2>1. DOMAIN frames = 1 .. Len(frames)
      BY DEF Good, FramesOK
    <2> QED BY <2>1, <1>1 DEF Handlers
  <1>14. Call!Throw(Activations, Activations')
    <2> HIDE DEF i
    <2>1. PICK fs : fs = frames
      OBVIOUS
    <2>2. PICK s : s = stack
      OBVIOUS
    <2>3. PICK e : e = RunEnd
      OBVIOUS
    <2>4. PICK gs : gs = frames'
      OBVIOUS
    <2>5. PICK tt : tt = stack'
      OBVIOUS
    <2>6. PICK x : x = RunEnd'
      OBVIOUS
    <2>7. PICK j : j = i
      OBVIOUS
    <2>8. PICK g : g = f
      OBVIOUS
    <2>9. PICK d : d = c
      OBVIOUS
    <2>10. /\ Stacks(fs, s, e, gs, tt, x)
           /\ Activations = ActsOf(fs, s, e) /\ Activations' = ActsOf(gs, tt, x)
      BY <2>1, <2>2, <2>3, <2>4, <2>5, <2>6, StacksNow, ActsNow
    <2>11. /\ j \in 1 .. Len(fs) /\ g = fs[j] /\ d = g.how.catch /\ d # Nil
           /\ \A k \in 1 .. Len(fs) : fs[k].how.catch # Nil => k <= j
           /\ Len(gs) = j - 1 /\ SameCalls(fs, gs, j - 1) /\ SameBelow(s, tt, g.base)
      BY <2>1, <2>2, <2>4, <2>5, <2>7, <2>8, <2>9, <1>1, <1>7, <1>9, <1>11, <1>13 DEF c
    <2>12. d.top = x - 1 /\ tt[d.top] = Err
      BY <2>5, <2>6, <2>9, <1>6, <1>8, <1>12
    <2>13. Call!Throw(ActsOf(fs, s, e), ActsOf(gs, tt, x))
      BY <2>10, <2>11, <2>12, ThrowActs
    <2> QED BY <2>10, <2>13
  <1>15. Len(Activations') < Len(Activations)
    BY <1>2, <1>7, StacksNow, ActsNow
  <1>16. Call!Step(Activations, Activations', Slice(stack, window.base, RunEnd))
    BY <1>14, <1>15, Zenon DEF Call!Step
  <1> QED BY <1>16, StepIsNext

\* An error that the vm_pcall of the call that fails catches: the caller has it
\* above its values.
LEMMA OverflowsNext ==
  ASSUME Good, Good', NEW how \in HowType, NEW st \in [Slot -> Content],
         how.catch # Nil => /\ Catches(Len(frames) + 1, frames[Len(frames)], how.catch)
                            /\ window.base <= how.catch.top,
         SameBelow(stack, st, window.base), overflow_error(st, how), strays' = {}
  PROVE  Call!Next
  <1>1. CASE how.catch = Nil
    BY <1>1, ThrowsNext DEF overflow_error
  <1>2. CASE how.catch # Nil
    <2> DEFINE c == how.catch
               n == Len(frames)
    <2>1. /\ Caught(c, st) /\ n > 0 /\ c \in CatchType
          /\ Catches(n + 1, frames[n], c) /\ window.base <= c.top
      BY <1>2 DEF overflow_error, HowType, CatchType
    <2>2. n \in Nat /\ c.top \in Nat
      BY <2>1, HostIs, Sizes DEF CatchType, Slot
    <2> HIDE DEF c
    <2>3. c.cf + 1 = n
      BY <2>1, <2>2 DEF Catches
    <2>4. frames' = SubSeq(frames, 1, n) /\ stack' = [st EXCEPT ![c.top] = Err]
      BY <2>1, <2>3 DEF Caught
    <2>5. frames' = frames
      <3>1. FramesOK(frames) /\ n \in 0 .. n
        BY <2>2 DEF Good
      <3>2. frames \in Seq(FrameType) /\ frames' \in Seq(FrameType)
        BY <3>1 DEF Good, FramesOK
      <3>3. Len(frames') = n /\ \A k \in 1 .. n : frames'[k] = frames[k]
        BY <3>1, <2>4, FramesPopped
      <3> QED BY <3>2, <3>3, SeqEqual
    <2>6. SameBelow(stack, stack', window.base)
      <3>1. ASSUME NEW s \in Slot, s + 1 < window.base PROVE stack'[s] = stack[s]
        <4>1. s \in Nat /\ window.base \in Nat
          BY WindowIs, Sizes DEF Slot
        <4>2. s # c.top
          BY <4>1, <3>1, <2>1, <2>2
        <4>3. st[s] = stack[s]
          BY <3>1 DEF SameBelow
        <4> QED BY <4>2, <4>3, <2>4
      <3> QED BY <3>1 DEF SameBelow
    <2> QED BY <2>5, <2>6, SameFramesNext
  <1> QED BY <1>1, <1>2

-----------------------------------------------------------------------------
(* Calls *)

\* A call on n arguments of stack st, from slot f + 1 on.
GivenTo(f, n_args, st, w) ==
  Slice(st, f + 1, IF n_args = VARARG THEN w.base + w.len ELSE f + 1 + n_args)

\* The step of Calls for a call that vm_call_init starts.
Calls(args, keep, want, out, catch, f) ==
  /\ Len(Activations') > Len(Activations)
  /\ Call!Call(Activations, Activations', args, keep, want,
       IF out # Nil THEN out - window.base + 1 ELSE keep + 1,
       IF catch = Nil THEN Nil ELSE catch.top - f)

LEMMA PushesCall ==
  ASSUME Good, Good', NEW f, NEW n_args, NEW n_rets, NEW w, NEW how,
         CallReady(f, n_args, n_rets, w, how), w.base + w.len < NSlots,
         NEW frame \in FrameType,
         frame.base = f + 1, frame.to_return = n_rets, frame.how = how,
         frame_push(frame, w), SameBelow(stack, stack', f + 1),
         window.base + how.keep <= RunEnd,
         NEW args, Slice(stack', f + 1, RunEnd') \in Call!Received(args)
  PROVE  Calls(args, how.keep, n_rets, how.out, how.catch, f)
  <1> DEFINE n == Len(frames)
             noted == Noted(w, how)
  <1>0. n \in Nat /\ f \in Nat
    BY HostIs DEF CallReady
  <1>1. /\ FramesOK(noted) /\ Len(noted) = n
        /\ \A i \in 1 .. n - 1 : noted[i] = frames[i]
        /\ n > 0 => LET g == noted[n]
                        c == frames[n]
                    IN  g.base = c.base /\ g.how = c.how /\ g.to_return = c.to_return
    <2>1. w.base = window.base /\ w.len \in Nat
      BY DEF CallReady
    <2> QED BY <2>1, NotedKeeps
  <1>2. frames' = Append(noted, frame)
    BY DEF frame_push
  <1> HIDE DEF noted
  <1>3. /\ Len(frames') = n + 1 /\ frames'[n + 1] = frame
        /\ \A i \in 1 .. n : frames'[i] = noted[i]
    <2>1. noted \in Seq(FrameType)
      BY <1>1 DEF FramesOK
    <2> QED BY <2>1, <1>1, <1>2, AppendProperties
  <1>4. SameCalls(frames, frames', n)
    <2>1. ASSUME NEW i \in 1 .. n PROVE SameCall(frames[i], frames'[i])
      <3>1. CASE i = n
        <4>1. n > 0 /\ frames'[n] = noted[n]
          BY <3>1, <1>0, <1>3
        <4> QED BY <3>1, <4>1, <1>1 DEF SameCall
      <3>2. CASE i # n
        <4>1. i \in 1 .. n - 1
          BY <3>2, <1>0
        <4>2. frames'[i] = frames[i]
          BY <4>1, <1>1, <1>3
        <4> QED BY <4>2 DEF SameCall
      <3> QED BY <3>1, <3>2
    <2> QED BY <2>1, <1>0, <1>3 DEF SameCalls
  <1> HIDE DEF n
  <1>5. PICK fs : fs = frames
    OBVIOUS
  <1>6. PICK s : s = stack
    OBVIOUS
  <1>7. PICK e : e = RunEnd
    OBVIOUS
  <1>8. PICK gs : gs = frames'
    OBVIOUS
  <1>9. PICK tt : tt = stack'
    OBVIOUS
  <1>10. PICK x : x = RunEnd'
    OBVIOUS
  <1>11. PICK m \in Nat : m = n
    BY <1>0
  <1>12. PICK g : g = frame
    OBVIOUS
  <1>13. /\ Stacks(fs, s, e, gs, tt, x)
         /\ Activations = ActsOf(fs, s, e) /\ Activations' = ActsOf(gs, tt, x)
    BY <1>5, <1>6, <1>7, <1>8, <1>9, <1>10, StacksNow, ActsNow
  <1>14. /\ m = Len(fs) /\ Len(gs) = m + 1 /\ SameCalls(fs, gs, m) /\ g = gs[m + 1]
         /\ SameBelow(s, tt, g.base) /\ Slice(tt, g.base, x) \in Call!Received(args)
         /\ g.how = how /\ g.to_return = n_rets /\ g.base = f + 1
    BY <1>3, <1>4, <1>5, <1>6, <1>8, <1>9, <1>10, <1>11, <1>12 DEF n
  <1>15. Bottom(fs, m + 1) = window.base
    BY <1>5, <1>14, ActsNow
  <1>16. Bottom(fs, m + 1) + g.how.keep <= e
    BY <1>7, <1>14, <1>15
  <1>17. Call!Call(ActsOf(fs, s, e), ActsOf(gs, tt, x), args, g.how.keep, g.to_return,
                   Into(gs, m + 2), Shield(gs, m + 2))
    BY <1>13, <1>14, <1>16, CallActs
  <1>18. /\ m + 2 # 1 /\ (m + 2) - 1 = m + 1 /\ m + 1 \in 1 .. m + 1
    OBVIOUS
  <1>19. Bottom(gs, m + 1) = window.base
    <2>1. FramesOK(fs) /\ FramesOK(gs)
      BY <1>13 DEF Stacks
    <2> QED BY <2>1, <1>14, <1>15, <1>18, CalledSame
  <1>20. Into(gs, m + 2) = IF how.out # Nil THEN how.out - window.base + 1 ELSE how.keep + 1
    BY <1>14, <1>18, <1>19 DEF Into
  <1>21. Shield(gs, m + 2) = IF how.catch = Nil THEN Nil ELSE how.catch.top - f
    <2>1. (f + 1) - 1 = f
      BY <1>0
    <2>2. Shield(gs, m + 2) = IF how.catch = Nil THEN Nil ELSE how.catch.top - ((f + 1) - 1)
      BY <1>14, <1>18 DEF Shield
    <2> QED BY <2>1, <2>2
  <1>22. Len(Activations') > Len(Activations)
    BY <1>3, StacksNow, ActsNow DEF n
  <1> QED BY <1>13, <1>14, <1>17, <1>20, <1>21, <1>22 DEF Calls

\* The frame that was pushed runs.
LEMMA PushedRuns ==
  ASSUME Good, Good', NEW w, w.base = window.base, w.len \in Nat, w.base + w.len < NSlots,
         NEW how, NEW frame \in FrameType, frames' = Append(Noted(w, how), frame)
  PROVE  InC' <=> frame.kind = "C"
  <1>1. FramesOK(Noted(w, how)) /\ Len(Noted(w, how)) = Len(frames) /\ Len(frames) \in Nat
    BY NotedKeeps, HostIs
  <1>2. PICK fs : fs = Noted(w, how)
    OBVIOUS
  <1>3. fs \in Seq(FrameType) /\ Len(fs) \in Nat
    BY <1>1, <1>2 DEF FramesOK
  <1>4. Len(frames') = Len(fs) + 1 /\ frames'[Len(fs) + 1] = frame
    BY <1>2, <1>3, AppendProperties
  <1>5. ~leaked'
    BY DEF Good
  <1>6. ~InHost' /\ caller' = frame
    BY <1>3, <1>4, <1>5 DEF InHost, caller
  <1> QED BY <1>6 DEF InC

\* What is called is above what the caller keeps, a vm_pcall around it is its own.
LEMMA CallAbove ==
  ASSUME Good, NEW f, NEW n_args, NEW n_rets, NEW w, NEW how,
         CallReady(f, n_args, n_rets, w, how)
  PROVE  /\ window.base <= f
         /\ how.catch # Nil => /\ Catches(Len(frames) + 1, frames[Len(frames)], how.catch)
                               /\ window.base <= how.catch.top
  <1> DEFINE g == [base |-> f + 1, to_return |-> n_rets, how |-> how]
             n == Len(frames)
  <1>1. Joined(n + 1, frames[n], g) /\ g.base = f + 1 /\ g.how = how /\ f \in Nat
        /\ how \in HowType
    BY DEF CallReady
  <1> HIDE DEF g
  <1>2. window.base = (IF n + 1 = 1 THEN 0 ELSE frames[n].base) /\ window.base \in Nat
    <2>1. Bottom(frames, n + 1) = window.base /\ n \in Nat /\ window.base \in Nat
      BY ActsNow
    <2>2. (n + 1) - 1 = n
      BY <2>1
    <2> QED BY <2>1, <2>2 DEF Bottom
  <1>3. how.keep \in Nat /\ (how.catch # Nil => how.catch.top \in Nat)
    BY <1>1, Sizes DEF HowType, Slot
  <1>4. /\ f + 1 > window.base + how.keep
        /\ how.catch # Nil => window.base + how.keep <= how.catch.top
                              /\ Catches(n + 1, frames[n], how.catch)
    BY <1>1, <1>2 DEF Joined
  <1> QED BY <1>1, <1>2, <1>3, <1>4

LEMMA SameFurther ==
  ASSUME NEW st, NEW tt, NEW x \in Nat, NEW y \in Nat, y <= x, SameBelow(st, tt, x)
  PROVE  SameBelow(st, tt, y)
  <1>1. \A s \in Slot : s \in Nat
    BY Sizes DEF Slot
  <1>2. \A s \in Slot : s + 1 < y => s + 1 < x
    BY <1>1
  <1> QED BY <1>2 DEF SameBelow

LEMMA MaxWithZero ==
  ASSUME NEW x \in Int
  PROVE  Max({x, 0}) = IF x > 0 THEN x ELSE 0
  <1> DEFINE m == IF x > 0 THEN x ELSE 0
  <1>1. m \in {x, 0} /\ \A y \in {x, 0} : m >= y
    OBVIOUS
  <1>2. \A z \in {x, 0} : (\A y \in {x, 0} : z >= y) => z = m
    OBVIOUS
  <1> QED BY <1>1, <1>2, Zenon DEF Max

\* call_init_c: the window of the function is its arguments.
LEMMA CallsC ==
  ASSUME Good, Good', NEW f, NEW n_args, NEW n_rets, NEW w, NEW how,
         CallReady(f, n_args, n_rets, w, how), NEW st \in [Slot -> Content],
         call_init_c(f, n_args, n_rets, st, w, how), strays' = {},
         SameBelow(stack, st, f + 1), window.base + how.keep <= RunEnd,
         NEW args, args = GivenTo(f, n_args, st, w)
  PROVE  Calls(args, how.keep, n_rets, how.out, how.catch, f)
  <1> DEFINE base == f + 1
             end  == IF n_args = VARARG THEN w.base + w.len ELSE base + n_args
             frame == Frame("C", base, end - base, n_rets, how)
  <1>1. /\ w.base + w.len + StackMin < NSlots /\ stack' = st /\ frame_push(frame, w)
    BY DEF call_init_c, StackHas
  <1>2. /\ f \in Nat /\ w.base \in Nat /\ w.len \in Nat /\ base <= w.base + w.len
        /\ n_args # VARARG => n_args \in Nat /\ base + n_args <= w.base + w.len
        /\ n_rets \in Nat \cup {VARARG} /\ how \in HowType
    BY WindowIs DEF CallReady
  <1>3. end \in Nat /\ base <= end /\ end <= w.base + w.len /\ w.base + w.len < NSlots
    BY <1>1, <1>2, Sizes
  <1>4. frame = [kind |-> "C", base |-> base, len |-> end - base, to_return |-> n_rets, how |-> how]
        /\ end - base \in 0 .. NSlots /\ base \in Slot
    BY <1>2, <1>3, Sizes DEF Frame, Slot
  <1>5. args = Slice(st, base, end)
    BY DEF GivenTo
  <1>a. window' = [base |-> base, len |-> (base + (end - base)) - base] /\ leaked' = leaked
    BY <1>1, <1>4 DEF frame_push, Window
  <1>b. frames' = Append(Noted(w, how), frame)
    BY <1>1, <1>4 DEF frame_push
  <1> HIDE DEF frame, end
  <1>6. frame \in FrameType /\ frame.base = f + 1 /\ frame.to_return = n_rets /\ frame.how = how
        /\ frame.kind = "C"
    BY <1>2, <1>4 DEF FrameType
  <1>7. RunEnd' = end
    <2>0. w.base = window.base /\ w.len \in Nat /\ w.base + w.len < NSlots
      BY <1>2, <1>3 DEF CallReady
    <2>1. InC'
      BY <2>0, <1>6, <1>b, PushedRuns
    <2>2. top' = end
      BY <1>a, <1>2, <1>3 DEF top
    <2> QED BY <2>1, <2>2 DEF RunEnd
  <1>8. Slice(stack', f + 1, RunEnd') \in Call!Received(args)
    BY <1>1, <1>5, <1>7 DEF Call!Received
  <1>9. SameBelow(stack, stack', f + 1)
    BY <1>1
  <1> QED BY <1>1, <1>3, <1>6, <1>8, <1>9, PushesCall

\* call_init_lua: the parameters are the arguments, and nil for those missing.
LEMMA CallsLua ==
  ASSUME Good, Good', NEW f, NEW n_args, NEW n_rets, NEW w, NEW how,
         CallReady(f, n_args, n_rets, w, how), NEW st \in [Slot -> Content],
         NEW u \in StackUsed, NEW p \in 0 .. u, p <= MaxParams,
         call_init_lua(f, u, p, n_args, n_rets, st, w, how), strays' = {},
         SameBelow(stack, st, f + 1), window.base + how.keep <= RunEnd,
         how.catch # Nil => window.base <= how.catch.top,
         NEW args, args = GivenTo(f, n_args, st, w)
  PROVE  Call!Next \/ Calls(args, how.keep, n_rets, how.out, how.catch, f)
  <1> DEFINE base  == f + 1
             frame == Frame("Lua", base, u, n_rets, how)
             start == StartNil(base, u, p, n_args)
             filled == [s \in Slot |-> IF start <= s /\ s < base + u THEN Nil ELSE st[s]]
             end  == IF n_args = VARARG THEN w.base + w.len ELSE base + n_args
             given == IF n_args = VARARG THEN w.base + w.len - base ELSE n_args
  <1>1. /\ f \in Nat /\ w.base \in Nat /\ w.len \in Nat /\ base <= w.base + w.len
        /\ n_args # VARARG => n_args \in Nat /\ base + n_args <= w.base + w.len
        /\ n_rets \in Nat \cup {VARARG} /\ how \in HowType /\ u \in Nat /\ p \in Nat /\ p <= u
        /\ w.base = window.base
    BY WindowIs, CallFramesAssumption DEF CallReady
  <1>2. w.base + w.len + u < NSlots
    BY DEF call_init_lua, StackHas
  <1>3. filled \in [Slot -> Content]
    BY DEF Content
  <1>4. \/ /\ FrameLeft /\ stack' = filled /\ frame_push(frame, w) /\ live' = p
           /\ strays' = Stray("missing", n_args = VARARG /\ given < p)
        \/ overflow_error(filled, how)
    BY Zenon DEF call_init_lua
  <1>5. args = Slice(st, base, end) /\ end \in Nat /\ base <= end /\ end <= w.base + w.len
        /\ given = end - base
    BY <1>1 DEF GivenTo
  <1>6. start = IF n_args # VARARG /\ p > n_args THEN base + n_args ELSE base + p
    <2>1. CASE n_args = VARARG
      <3>1. p - u \in Int /\ ~(p - u > 0)
        BY <1>1
      <3>2. Max({p - u, 0}) = 0
        BY <3>1, MaxWithZero
      <3> QED BY <2>1, <3>2, <1>1 DEF StartNil
    <2>2. CASE n_args # VARARG
      <3>1. p - n_args \in Int /\ n_args \in Nat
        BY <1>1, <2>2
      <3>2. Max({p - n_args, 0}) = IF p - n_args > 0 THEN p - n_args ELSE 0
        BY <3>1, MaxWithZero
      <3>3. start = base + p - (IF p - n_args > 0 THEN p - n_args ELSE 0)
        BY <2>2, <3>2 DEF StartNil
      <3> QED BY <2>2, <3>1, <3>3, <1>1
    <2> QED BY <2>1, <2>2
  <1>7. start \in Nat /\ base <= start
    BY <1>1, <1>6
  <1>8. SameBelow(stack, filled, f + 1)
    <2>1. ASSUME NEW s \in Slot, s + 1 < f + 1 PROVE filled[s] = stack[s]
      <3>1. s \in Nat
        BY Sizes DEF Slot
      <3>2. ~(start <= s)
        BY <3>1, <2>1, <1>1, <1>7
      <3>3. st[s] = stack[s]
        BY <2>1 DEF SameBelow
      <3> QED BY <3>2, <3>3
    <2> QED BY <2>1 DEF SameBelow
  <1> HIDE DEF filled
  <1>9. CASE FrameLeft /\ stack' = filled /\ frame_push(frame, w) /\ live' = p
             /\ strays' = Stray("missing", n_args = VARARG /\ given < p)
    <2>1. n_args = VARARG => p <= given
      BY <1>9, <1>5, <1>1 DEF Stray
    <2>2. /\ frame = [kind |-> "Lua", base |-> base, len |-> u, to_return |-> n_rets, how |-> how]
          /\ u \in 0 .. NSlots /\ base \in Slot /\ base + u < NSlots /\ w.base + w.len < NSlots
      BY <1>1, <1>2, Sizes DEF Frame, Slot
    <2>a. window' = [base |-> base, len |-> (base + u) - base] /\ leaked' = leaked
      BY <1>9, <2>2 DEF frame_push, Window
    <2>b. frames' = Append(Noted(w, how), frame)
      <3>1. frame.how = how
        BY <2>2
      <3> QED BY <3>1, <1>9 DEF frame_push
    <2>c. open' = FALSE
      BY <1>9 DEF frame_push
    <2> HIDE DEF frame, start, end, given
    <2>3. /\ frame \in FrameType /\ frame.base = f + 1 /\ frame.to_return = n_rets
          /\ frame.how = how /\ frame.kind = "Lua"
      BY <1>1, <2>2 DEF FrameType
    <2>4. RunEnd' = base + p
      <3>1. ~InC'
        <4>1. w.base = window.base /\ w.len \in Nat /\ w.base + w.len < NSlots
          BY <1>1, <2>2
        <4> QED BY <4>1, <2>3, <2>b, PushedRuns
      <3>2. window'.base = base
        BY <2>a
      <3> QED BY <3>1, <3>2, <2>c, <1>9 DEF RunEnd
    <2>5. Slice(filled, base, base + p) = Call!Adjust(args, p)
      <3>1. Len(args) = end - base /\ \A i \in 1 .. end - base :
              args[i] = IF base + i - 1 \in Slot THEN st[base + i - 1] ELSE Err
        <4>1. PICK b \in Nat : b = base
          BY <1>1
        <4>2. PICK e \in Nat : e = end
          BY <1>5
        <4>3. b <= e /\ args = Slice(st, b, e)
          BY <4>1, <4>2, <1>5
        <4>4. /\ Len(Slice(st, b, e)) = e - b
              /\ \A i \in 1 .. e - b :
                   Slice(st, b, e)[i] = IF b + i - 1 \in Slot THEN st[b + i - 1] ELSE Err
          BY <4>3, SliceIs
        <4> QED BY <4>1, <4>2, <4>3, <4>4
      <3>2. ASSUME NEW i \in 1 .. p
            PROVE  (IF base + i - 1 \in Slot THEN filled[base + i - 1] ELSE Err)
                     = IF i <= Len(args) THEN args[i] ELSE Nil
        <4>1. PICK s \in Nat : s = base + i - 1
          BY <1>1
        <4>2. s \in Slot /\ base <= s /\ s < base + p /\ s < base + u
          BY <4>1, <1>1, <2>2, Sizes DEF Slot
        <4>3. CASE s < start
          <5>1. i <= Len(args) /\ i \in 1 .. end - base
            <6>1. CASE n_args = VARARG
              BY <6>1, <2>1, <1>5, <3>1, <1>1
            <6>2. CASE n_args # VARARG
              <7>1. given = n_args /\ n_args \in Nat
                BY <6>2, <1>1 DEF given
              <7>2. i <= n_args
                BY <6>2, <4>1, <4>3, <7>1, <1>1, <1>6
              <7> QED BY <7>1, <7>2, <1>5, <3>1
            <6> QED BY <6>1, <6>2
          <5>2. filled[s] = st[s]
            BY <4>2, <4>3, <1>7 DEF filled
          <5> QED BY <5>1, <5>2, <4>1, <4>2, <3>1
        <4>4. CASE start <= s
          <5>1. ~(i <= Len(args))
            <6>1. n_args # VARARG /\ n_args \in Nat
              BY <4>2, <4>4, <1>1, <1>6
            <6>2. given = n_args
              BY <6>1 DEF given
            <6>3. base + n_args <= s
              BY <6>1, <4>2, <4>4, <1>1, <1>6
            <6> QED BY <6>1, <6>2, <6>3, <4>1, <1>1, <1>5, <3>1
          <5>2. filled[s] = Nil
            BY <4>2, <4>4 DEF filled
          <5> QED BY <5>1, <5>2, <4>1, <4>2
        <4> QED BY <4>1, <4>3, <4>4, <1>7
      <3>3. (base + p) - base = p
        BY <1>1
      <3> QED BY <3>2, <3>3 DEF Slice, Call!Adjust
    <2>6. Slice(stack', f + 1, RunEnd') \in Call!Received(args)
      <3>1. p \in 0 .. MaxParams
        BY <1>1, CallFramesAssumption
      <3> QED BY <3>1, <1>9, <2>4, <2>5 DEF Call!Received
    <2>7. SameBelow(stack, stack', f + 1)
      BY <1>8, <1>9
    <2> QED BY <1>9, <2>2, <2>3, <2>6, <2>7, PushesCall
  <1>10. CASE overflow_error(filled, how)
    <2>1. SameBelow(stack, filled, window.base)
      <3>1. window.base \in Nat /\ window.base <= f + 1
        BY <1>1, WindowIs, CallAbove
      <3> QED BY <3>1, <1>1, <1>8, SameFurther
    <2>2. how.catch # Nil => Catches(Len(frames) + 1, frames[Len(frames)], how.catch)
      BY CallAbove
    <2> QED BY <1>1, <1>3, <1>10, <2>1, <2>2, OverflowsNext
  <1> QED BY <1>4, <1>9, <1>10

\* A call that vm_call_init makes, or the error that there is no room for it.
LEMMA CallMakes ==
  ASSUME Good, Good', NEW f, NEW n_args, NEW n_rets, NEW w, NEW how,
         CallReady(f, n_args, n_rets, w, how), NEW st \in [Slot -> Content],
         vm_call_init(f, n_args, n_rets, st, w, how), strays' = {},
         SameBelow(stack, st, f + 1), window.base + how.keep <= RunEnd,
         NEW args, args = GivenTo(f, n_args, st, w)
  PROVE  Call!Next \/ Calls(args, how.keep, n_rets, how.out, how.catch, f)
  <1>0. /\ f \in Nat /\ how \in HowType /\ window.base \in Nat /\ window.base <= f
        /\ how.catch # Nil => /\ Catches(Len(frames) + 1, frames[Len(frames)], how.catch)
                              /\ window.base <= how.catch.top
    <2>1. f \in Nat /\ how \in HowType
      BY DEF CallReady
    <2>2. /\ window.base <= f
          /\ how.catch # Nil => /\ Catches(Len(frames) + 1, frames[Len(frames)], how.catch)
                                /\ window.base <= how.catch.top
      BY CallAbove
    <2> QED BY <2>1, <2>2, WindowIs
  <1>1. CASE overflow_error(st, how)
    <2>1. SameBelow(stack, st, window.base)
      <3>1. f + 1 \in Nat /\ window.base <= f + 1
        BY <1>0
      <3>2. PICK x \in Nat : x = f + 1
        BY <3>1
      <3>3. SameBelow(stack, st, x) /\ window.base <= x
        BY <3>1, <3>2
      <3> QED BY <3>3, <1>0, SameFurther
    <2> QED BY <1>0, <1>1, <2>1, OverflowsNext
  <1>2. CASE call_init_c(f, n_args, n_rets, st, w, how)
    BY <1>2, CallsC
  <1>3. ASSUME NEW u \in StackUsed, NEW p \in 0 .. Min({MaxParams, u}),
               call_init_lua(f, u, p, n_args, n_rets, st, w, how)
        PROVE  Call!Next \/ Calls(args, how.keep, n_rets, how.out, how.catch, f)
    <2>1. p \in 0 .. u /\ p <= MaxParams
      <3>1. u \in Nat /\ MaxParams \in Nat
        BY CallFramesAssumption
      <3>2. {MaxParams, u} \subseteq Nat /\ {MaxParams, u} # {} /\ u \in {MaxParams, u}
            /\ MaxParams \in {MaxParams, u}
        BY <3>1
      <3>3. /\ Min({MaxParams, u}) \in Nat /\ Min({MaxParams, u}) <= u
            /\ Min({MaxParams, u}) <= MaxParams
        BY <3>2, Least
      <3> QED BY <3>1, <3>3
    <2> QED BY <1>0, <1>3, <2>1, CallsLua
  <1> QED BY <1>1, <1>2, <1>3 DEF vm_call_init

-----------------------------------------------------------------------------
(* What the actions that call are in Calls *)

\* A call of a function among the values of the caller, with those above as its
\* arguments.
LEMMA TopNext ==
  ASSUME Good, NEW keep \in Nat, window.base + keep < RunEnd,
         NEW want \in 0 .. MaxResults \cup {VARARG},
         NEW catch, catch # Nil => catch.top = RunEnd,
         NEW args, args = Slice(stack, window.base + keep + 1, RunEnd),
         Calls(args, keep, want, Nil, catch, window.base + keep)
  PROVE  Call!Next
  <1>1. PICK base \in Nat : base = window.base
    BY ActsNow
  <1>2. PICK end \in Nat : end = RunEnd
    BY ActsNow
  <1>3. PICK st \in [Slot -> Content] : st = stack
    BY ActsNow
  <1>4. PICK vals : vals = Slice(st, base, end)
    OBVIOUS
  <1>5. base + keep < end /\ base <= end
    BY <1>1, <1>2
  <1>6. Len(vals) = end - base
    <2>1. Len(Slice(st, base, end)) = end - base
      BY <1>5, SliceIs
    <2> QED BY <1>4, <2>1
  <1>7. PICK n \in Nat : n = end - base - keep - 1
    BY <1>5
  <1>8. /\ n + 1 <= end - base /\ (end - base) - n - 1 = keep /\ n \in 0 .. end - base
        /\ (end - base) - n + 1 = keep + 2
    BY <1>5, <1>7
  <1>9. args = Call!Last(vals, n)
    <2>1. PICK i \in Nat \ {0} : i = keep + 2
      OBVIOUS
    <2>2. PICK k \in Nat : k = end - base
      BY <1>5
    <2>3. i <= k + 1 /\ k <= end - base /\ (base + i) - 1 = base + keep + 1 /\ base + k = end
      BY <1>5, <2>1, <2>2
    <2>4. Part(Slice(st, base, end), i, k) = Slice(st, (base + i) - 1, base + k)
      BY <1>5, <2>3, SliceOfSlice
    <2>5. args = Slice(st, (base + i) - 1, base + k)
      BY <2>3, <1>1, <1>2, <1>3
    <2>6. Call!Last(vals, n) = SubSeq(vals, i, k)
      BY <1>6, <1>8, <2>1, <2>2 DEF Call!Last
    <2> QED BY <2>4, <2>5, <2>6, <1>4 DEF Part
  <1>10. PICK protected : protected = IF catch = Nil THEN Nil ELSE catch.top - (base + keep)
    OBVIOUS
  <1>11. protected \in {Nil, n + 1}
    BY <1>2, <1>5, <1>7, <1>10
  <1>12. /\ Len(Activations') > Len(Activations)
         /\ Call!Call(Activations, Activations', args, keep, want, keep + 1, protected)
    BY <1>1, <1>10 DEF Calls
  <1>13. Call!CallTop(Activations, Activations', vals, n, want)
    <2>1. Len(vals) - n - 1 = keep /\ n + 1 <= Len(vals)
      BY <1>6, <1>8
    <2> QED BY <2>1, <1>9, <1>11, <1>12 DEF Call!CallTop
  <1>14. n \in 0 .. Len(vals)
    BY <1>6, <1>8
  <1>15. Call!Step(Activations, Activations', vals)
    BY <1>12, <1>13, <1>14 DEF Call!Step
  <1> QED BY <1>1, <1>2, <1>3, <1>4, <1>15, StepIsNext

\* The values of the function that runs, by their slots.
LEMMA ValueAt ==
  ASSUME Good, NEW s \in Nat, window.base <= s, s < RunEnd
  PROVE  LET vals == Slice(stack, window.base, RunEnd)
         IN  (s - window.base) + 1 \in DOMAIN vals /\ vals[(s - window.base) + 1] = At(s)
  <1>1. PICK base \in Nat : base = window.base
    BY ActsNow
  <1>2. PICK end \in Nat : end = RunEnd
    BY ActsNow
  <1>3. PICK st \in [Slot -> Content] : st = stack
    BY ActsNow
  <1>4. PICK i \in 1 .. end - base : i = (s - base) + 1
    BY <1>1, <1>2
  <1>5. base <= end /\ base + i - 1 = s
    BY <1>1, <1>2, <1>4
  <1>6. /\ DOMAIN Slice(st, base, end) = 1 .. end - base
        /\ \A j \in 1 .. end - base :
             Slice(st, base, end)[j] = IF base + j - 1 \in Slot THEN st[base + j - 1] ELSE Err
    BY <1>5, SliceIs
  <1>7. Slice(st, base, end)[i] = IF s \in Slot THEN st[s] ELSE Err
    BY <1>5, <1>6
  <1> QED BY <1>1, <1>2, <1>3, <1>4, <1>6, <1>7 DEF At

\* A call on copies of values of the caller, which keeps all it has.
LEMMA OnNext ==
  ASSUME Good, NEW vals, vals = Slice(stack, window.base, RunEnd),
         NEW args, NEW want, NEW out, NEW f,
         Calls(args, RunEnd - window.base, want, out, Nil, f),
         \/ /\ out = Nil /\ want \in 0 .. MaxResults
            /\ \E i, j \in DOMAIN vals : args = <<vals[i], vals[j]>>
         \/ /\ out \in Nat /\ out # Nil /\ window.base <= out /\ out < RunEnd /\ want = 1
            /\ \E i, j \in DOMAIN vals : args = <<vals[i], vals[j]>>
         \/ /\ out = Nil /\ want = 0
            /\ \E i, j, k \in DOMAIN vals : args = <<vals[i], vals[j], vals[k]>>
  PROVE  Call!Next
  <1>1. Len(vals) = RunEnd - window.base /\ DOMAIN vals = 1 .. RunEnd - window.base
    <2>1. PICK base \in Nat : base = window.base
      BY ActsNow
    <2>2. PICK end \in Nat : end = RunEnd
      BY ActsNow
    <2>3. PICK st \in [Slot -> Content] : st = stack
      BY ActsNow
    <2>4. base <= end
      BY <2>1, <2>2, ActsNow
    <2>5. Len(Slice(st, base, end)) = end - base /\ DOMAIN Slice(st, base, end) = 1 .. end - base
      BY <2>4, SliceIs
    <2> QED BY <2>1, <2>2, <2>3, <2>5
  <1>2. PICK into : into = IF out # Nil THEN out - window.base + 1 ELSE Len(vals) + 1
    OBVIOUS
  <1>3. /\ Len(Activations') > Len(Activations)
        /\ Call!CallOn(Activations, Activations', vals, args, want, into)
    BY <1>1, <1>2 DEF Calls, Call!CallOn
  <1>4. \/ /\ into = Len(vals) + 1 /\ want \in 0 .. MaxResults
           /\ \E i, j \in DOMAIN vals : args = <<vals[i], vals[j]>>
        \/ /\ into \in DOMAIN vals /\ want = 1
           /\ \E i, j \in DOMAIN vals : args = <<vals[i], vals[j]>>
        \/ /\ into = Len(vals) + 1 /\ want = 0
           /\ \E i, j, k \in DOMAIN vals : args = <<vals[i], vals[j], vals[k]>>
    <2>1. ASSUME out \in Nat, out # Nil, window.base <= out, out < RunEnd PROVE into \in DOMAIN vals
      <3>1. window.base \in Nat /\ RunEnd \in Nat
        BY ActsNow
      <3> QED BY <2>1, <3>1, <1>1, <1>2
    <2>2. out = Nil => into = Len(vals) + 1
      BY <1>2
    <2> QED BY <2>1, <2>2
  <1>5. Call!Step(Activations, Activations', vals)
    <2> DEFINE On(as, n, m) == Call!CallOn(Activations, Activations', vals, as, n, m)
    <2>1. CASE into = Len(vals) + 1 /\ want \in 0 .. MaxResults
               /\ \E i, j \in DOMAIN vals : args = <<vals[i], vals[j]>>
      <3>1. \E i, j \in DOMAIN vals, n \in 0 .. MaxResults :
              On(<<vals[i], vals[j]>>, n, Len(vals) + 1)
        BY <2>1, <1>3, SMTT(30)
      <3> QED BY <3>1, <1>3, Zenon DEF Call!Step
    <2>2. CASE into \in DOMAIN vals /\ want = 1
               /\ \E i, j \in DOMAIN vals : args = <<vals[i], vals[j]>>
      <3>1. \E i, j, m \in DOMAIN vals : On(<<vals[i], vals[j]>>, 1, m)
        BY <2>2, <1>3, SMTT(30)
      <3> QED BY <3>1, <1>3, Zenon DEF Call!Step
    <2>3. CASE into = Len(vals) + 1 /\ want = 0
               /\ \E i, j, k \in DOMAIN vals : args = <<vals[i], vals[j], vals[k]>>
      <3>1. \E i, j, k \in DOMAIN vals : On(<<vals[i], vals[j], vals[k]>>, 0, Len(vals) + 1)
        <4>1. PICK i \in DOMAIN vals, j \in DOMAIN vals, k \in DOMAIN vals :
                args = <<vals[i], vals[j], vals[k]>>
          BY <2>3
        <4>2. On(args, 0, Len(vals) + 1)
          BY <2>3, <1>3
        <4>3. On(<<vals[i], vals[j], vals[k]>>, 0, Len(vals) + 1)
          BY <4>1, <4>2
        <4> HIDE DEF On
        <4> QED BY <4>3
      <3> QED BY <3>1, <1>3, Zenon DEF Call!Step
    <2> QED BY <1>4, <2>1, <2>2, <2>3
  <1> QED BY <1>5, StepIsNext

LEMMA OpCallNext ==
  ASSUME Good, Good', NEW a \in Register, NEW n_args, NEW n_rets \in Results,
         n_args \in Nat \cup {VARARG}, OpCall(a, n_args, n_rets), strays' = {}
  PROVE  Call!Next
  <1> DEFINE how == How("op", a, Nil, Nil, Nil)
             args == GivenTo(R(a), n_args, stack, window)
  <1>1. /\ CallReady(R(a), n_args, n_rets, window, how)
        /\ vm_call_init(R(a), n_args, n_rets, stack, window, how)
        /\ InLua /\ a \in Nat /\ a < live
        /\ IF open THEN n_args = VARARG ELSE n_args = live - a - 1
    BY OpCallReady
  <1>2. how.keep = a /\ how.out = Nil /\ how.catch = Nil
    BY DEF How
  <1> HIDE DEF how
  <1>3. /\ window.base \in Nat /\ live \in Nat /\ window.base + live <= top /\ top \in Nat
        /\ R(a) = window.base + a /\ top = window.base + window.len
    BY <1>1, RegistersInWindow, WindowIs DEF R
  <1>4. RunEnd = IF open THEN top ELSE window.base + live
    BY <1>1 DEF RunEnd, InLua
  <1>5. window.base + a < RunEnd
    BY <1>1, <1>3, <1>4
  <1>6. (IF n_args = VARARG THEN window.base + window.len ELSE R(a) + 1 + n_args) = RunEnd
    <2>1. CASE open
      BY <2>1, <1>1, <1>3, <1>4
    <2>2. CASE ~open
      <3>1. n_args \in Nat
        BY <2>2, <1>1, <1>3
      <3>2. n_args # VARARG
        BY <3>1, Sizes
      <3>3. R(a) + 1 + n_args = window.base + live
        BY <2>2, <3>1, <1>1, <1>3
      <3> QED BY <2>2, <3>2, <3>3, <1>4
    <2> QED BY <2>1, <2>2
  <1>7. args = Slice(stack, window.base + a + 1, RunEnd)
    <2>1. R(a) + 1 = window.base + a + 1
      BY <1>3
    <2> QED BY <2>1, <1>6, Zenon DEF GivenTo
  <1> HIDE DEF args
  <1>8. /\ stack \in [Slot -> Content] /\ SameBelow(stack, stack, R(a) + 1)
        /\ window.base + how.keep <= RunEnd
    <2>1. RunEnd \in Nat /\ stack \in [Slot -> Content]
      BY ActsNow
    <2>2. window.base + how.keep <= RunEnd
      BY <2>1, <1>1, <1>2, <1>3, <1>5
    <2> QED BY <2>1, <2>2 DEF SameBelow
  <1>9. Call!Next \/ Calls(args, a, n_rets, Nil, Nil, window.base + a)
    <2>1. Call!Next \/ Calls(args, how.keep, n_rets, how.out, how.catch, R(a))
      BY <1>1, <1>8, CallMakes DEF args
    <2> QED BY <2>1, <1>2, <1>3
  <1>10. n_rets \in 0 .. MaxResults \cup {VARARG}
    BY DEF Results
  <1>11. ASSUME Calls(args, a, n_rets, Nil, Nil, window.base + a) PROVE Call!Next
    <2>1. PICK catch : catch = Nil
      OBVIOUS
    <2>2. Calls(args, a, n_rets, Nil, catch, window.base + a)
      BY <2>1, <1>11
    <2> QED BY <2>1, <2>2, <1>1, <1>5, <1>7, <1>10, TopNext
  <1> QED BY <1>9, <1>11

LEMMA ApiCallNext ==
  ASSUME Good, Good', NEW n_args \in 0 .. StackMin, NEW n_rets \in Results,
         NEW protected \in BOOLEAN, lulu_call(n_args, n_rets, protected), strays' = {}
  PROVE  Call!Next
  <1> DEFINE keep == window.len - n_args - 1
             catch == IF protected THEN PCall ELSE Nil
             how == How("api", keep, Nil, window.base, catch)
             f == top - n_args - 1
             args == GivenTo(f, n_args, stack, window)
  <1>1. /\ CallReady(f, n_args, n_rets, window, how)
        /\ vm_call_init(f, n_args, n_rets, stack, window, how)
        /\ InC /\ n_args \in Nat /\ keep \in Nat /\ f = window.base + keep
        /\ (catch # Nil => catch.top = top)
    BY ApiCallReady
  <1>2. how.keep = keep /\ how.out = Nil /\ how.catch = catch
    BY DEF How
  <1> HIDE DEF how, catch
  <1>3. /\ window.base \in Nat /\ window.len \in Nat /\ top = window.base + window.len
        /\ RunEnd = top /\ n_args # VARARG
    BY <1>1, WindowIs, Sizes DEF RunEnd
  <1>4. /\ window.base + keep < RunEnd /\ f + 1 + n_args = RunEnd
        /\ f + 1 = window.base + keep + 1
    BY <1>1, <1>3
  <1> HIDE DEF keep, f
  <1>5. args = Slice(stack, window.base + keep + 1, RunEnd)
    BY <1>3, <1>4, Zenon DEF GivenTo
  <1> HIDE DEF args
  <1>6. /\ stack \in [Slot -> Content] /\ SameBelow(stack, stack, f + 1)
        /\ window.base + how.keep <= RunEnd
    BY <1>1, <1>2, <1>3, <1>4, ActsNow DEF SameBelow
  <1>7. Call!Next \/ Calls(args, how.keep, n_rets, how.out, how.catch, f)
    BY <1>1, <1>6, CallMakes DEF args
  <1>8. Call!Next \/ Calls(args, keep, n_rets, Nil, catch, window.base + keep)
    BY <1>1, <1>2, <1>7
  <1>9. n_rets \in 0 .. MaxResults \cup {VARARG}
    BY DEF Results
  <1> QED BY <1>1, <1>3, <1>4, <1>5, <1>8, <1>9, TopNext

LEMMA OpForInNext ==
  ASSUME Good, Good', NEW a \in Register, NEW n_vars \in 1 .. MaxResults, OpForIn(a, n_vars),
         strays' = {}
  PROVE  Call!Next
  <1> DEFINE base == R(a + 3)
             st == Copied(a)
             w  == Window(window.base, base + 3)
             how == How("op", live, Nil, Nil, Nil)
             args == GivenTo(base, 2, st, w)
             vals == Slice(stack, window.base, RunEnd)
  <1>1. /\ CallReady(base, 2, n_vars, w, how) /\ vm_call_init(base, 2, n_vars, st, w, how)
        /\ st \in [Slot -> Content]
        /\ InLua /\ ~open /\ a \in Nat /\ live = a + 3 /\ base + 3 < NSlots
    BY OpForInReady
  <1>2. how.keep = live /\ how.out = Nil /\ how.catch = Nil
    BY DEF How
  <1>3. /\ window.base \in Nat /\ RunEnd = window.base + live /\ live \in Nat
        /\ base = window.base + a + 3 /\ base \in Nat /\ base = RunEnd
    BY <1>1, WindowIs DEF RunEnd, InLua, R
  <1>a. st = [s \in Slot |-> IF base <= s /\ s < base + 3 THEN stack[s - 3] ELSE stack[s]]
    BY DEF Copied
  <1> HIDE DEF how, w, base, st, vals
  <1>4. SameBelow(stack, st, base + 1)
    <2>1. ASSUME NEW s \in Slot, s + 1 < base + 1 PROVE st[s] = stack[s]
      <3>1. s \in Nat
        BY Sizes DEF Slot
      <3>2. ~(base <= s)
        BY <3>1, <2>1, <1>3
      <3> QED BY <3>2, <1>a
    <2> QED BY <2>1 DEF SameBelow
  <1>5. args = <<vals[a + 2], vals[a + 3]>> /\ a + 2 \in DOMAIN vals /\ a + 3 \in DOMAIN vals
    <2>1. args = Slice(st, base + 1, base + 1 + 2)
      BY Sizes DEF GivenTo
    <2>2. /\ Len(args) = 2 /\ args \in Seq(Content)
          /\ args[1] = IF base + 1 \in Slot THEN st[base + 1] ELSE Err
          /\ args[2] = IF base + 2 \in Slot THEN st[base + 2] ELSE Err
      <3>1. PICK from \in Nat : from = base + 1
        BY <1>3
      <3>2. PICK end \in Nat : end = from + 2
        BY <3>1
      <3>3. from <= end /\ end - from = 2 /\ args = Slice(st, from, end)
        BY <2>1, <3>1, <3>2
      <3>4. /\ Slice(st, from, end) \in Seq(Content) /\ Len(Slice(st, from, end)) = end - from
            /\ \A i \in 1 .. end - from :
                 Slice(st, from, end)[i] = IF from + i - 1 \in Slot THEN st[from + i - 1] ELSE Err
        BY <3>3, <1>1, SliceIs
      <3>5. 1 \in 1 .. end - from /\ 2 \in 1 .. end - from
            /\ from + 1 - 1 = base + 1 /\ from + 2 - 1 = base + 2
        BY <3>1, <3>3, <1>3
      <3> QED BY <3>3, <3>4, <3>5
    <2>3. base + 1 \in Slot /\ base + 2 \in Slot
      BY <1>1, <1>3, Sizes, SMTT(30) DEF Slot
    <2>4. st[base + 1] = stack[base - 2] /\ st[base + 2] = stack[base - 1]
      <3>1. /\ base <= base + 1 /\ base + 1 < base + 3 /\ (base + 1) - 3 = base - 2
            /\ base <= base + 2 /\ base + 2 < base + 3 /\ (base + 2) - 3 = base - 1
        BY <1>3
      <3> QED BY <3>1, <2>3, <1>a
    <2>5. base - 2 \in Slot /\ base - 1 \in Slot
      BY <1>1, <1>3, Sizes, SMTT(30) DEF Slot
    <2>6. /\ base - 2 \in Nat /\ window.base <= base - 2 /\ base - 2 < RunEnd
          /\ base - 1 \in Nat /\ window.base <= base - 1 /\ base - 1 < RunEnd
          /\ ((base - 2) - window.base) + 1 = a + 2 /\ ((base - 1) - window.base) + 1 = a + 3
      BY <1>1, <1>3
    <2>7. ((base - 2) - window.base) + 1 \in DOMAIN vals
          /\ vals[((base - 2) - window.base) + 1] = At(base - 2)
      BY <2>6, ValueAt DEF vals
    <2>8. ((base - 1) - window.base) + 1 \in DOMAIN vals
          /\ vals[((base - 1) - window.base) + 1] = At(base - 1)
      BY <2>6, ValueAt DEF vals
    <2>9. /\ a + 2 \in DOMAIN vals /\ vals[a + 2] = stack[base - 2]
          /\ a + 3 \in DOMAIN vals /\ vals[a + 3] = stack[base - 1]
      BY <2>5, <2>6, <2>7, <2>8 DEF At
    <2>10. args[1] = vals[a + 2] /\ args[2] = vals[a + 3]
      BY <2>2, <2>3, <2>4, <2>9
    <2>11. args = <<args[1], args[2]>>
      BY <2>2
    <2> QED BY <2>9, <2>10, <2>11
  <1> HIDE DEF args
  <1>6. Call!Next \/ Calls(args, how.keep, n_vars, how.out, how.catch, base)
    <2>1. window.base + how.keep <= RunEnd
      BY <1>2, <1>3
    <2> QED BY <2>1, <1>1, <1>4, CallMakes DEF args
  <1>7. ASSUME Calls(args, how.keep, n_vars, how.out, how.catch, base) PROVE Call!Next
    <2>1. how.keep = RunEnd - window.base
      BY <1>2, <1>3
    <2>2. PICK out : out = Nil
      OBVIOUS
    <2>3. Calls(args, RunEnd - window.base, n_vars, out, Nil, base)
      BY <2>1, <2>2, <1>2, <1>7
    <2>4. n_vars \in 0 .. MaxResults
      BY CallFramesAssumption
    <2>5. \E i, j \in DOMAIN vals : args = <<vals[i], vals[j]>>
      BY <1>5
    <2> QED BY <2>2, <2>3, <2>4, <2>5, OnNext DEF vals
  <1> QED BY <1>6, <1>7

\* The first arguments of a metamethod are copies of the values in the slots args.
Pushed(args, f) ==
  [s \in Slot |-> IF s = top THEN f
                  ELSE IF s \in top + 1 .. top + Len(args) THEN At(args[s - top])
                  ELSE stack[s]]

LEMMA PushedIs ==
  ASSUME Good, NEW args, Len(args) \in Nat, NEW f \in Value, top + Len(args) + 1 < NSlots
  PROVE  /\ Pushed(args, f) \in [Slot -> Content]
         /\ SameBelow(stack, Pushed(args, f), top + 1)
         /\ \A i \in 1 .. Len(args) : top + i \in Slot /\ Pushed(args, f)[top + i] = At(args[i])
  <1>1. top \in Nat
    BY WindowIs
  <1>2. Pushed(args, f) \in [Slot -> Content]
    <2>1. \A x : At(x) \in Content
      BY DEF At, Content, Good, TypeOK
    <2>2. f \in Content /\ \A s \in Slot : stack[s] \in Content
      BY DEF Content, Good, TypeOK
    <2> QED BY <2>1, <2>2 DEF Pushed
  <1>3. SameBelow(stack, Pushed(args, f), top + 1)
    <2>1. ASSUME NEW s \in Slot, s + 1 < top + 1 PROVE Pushed(args, f)[s] = stack[s]
      <3>1. s \in Nat
        BY Sizes DEF Slot
      <3>2. s # top /\ s \notin top + 1 .. top + Len(args)
        BY <3>1, <2>1, <1>1
      <3> QED BY <3>2 DEF Pushed
    <2> QED BY <2>1 DEF SameBelow
  <1>4. ASSUME NEW i \in 1 .. Len(args)
        PROVE  top + i \in Slot /\ Pushed(args, f)[top + i] = At(args[i])
    <2>1. /\ top + i \in Slot /\ top + i # top /\ top + i \in top + 1 .. top + Len(args)
          /\ (top + i) - top = i
      BY <1>1, Sizes DEF Slot
    <2> QED BY <2>1 DEF Pushed
  <1> QED BY <1>2, <1>3, <1>4

\* What a metamethod is called with are values of the caller.
LEMMA GivenCopies ==
  ASSUME Good, NEW args, NEW n \in Nat, Len(args) = n, NEW f \in Value, top + n + 1 < NSlots, NEW w,
         \A i \in 1 .. n : args[i] \in Nat /\ window.base <= args[i] /\ args[i] < RunEnd
  PROVE  LET given == GivenTo(top, n, Pushed(args, f), w)
             vals  == Slice(stack, window.base, RunEnd)
         IN  /\ given \in Seq(Content) /\ Len(given) = n
             /\ \A i \in 1 .. n : /\ (args[i] - window.base) + 1 \in DOMAIN vals
                                  /\ given[i] = vals[(args[i] - window.base) + 1]
  <1> DEFINE st == Pushed(args, f)
             given == GivenTo(top, n, st, w)
             vals == Slice(stack, window.base, RunEnd)
  <1>1. /\ st \in [Slot -> Content]
        /\ \A i \in 1 .. n : top + i \in Slot /\ st[top + i] = At(args[i])
    BY PushedIs
  <1> HIDE DEF st
  <1>2. PICK from \in Nat : from = top + 1
    BY WindowIs
  <1>3. PICK end \in Nat : end = from + n
    BY <1>2
  <1>4. from <= end /\ end - from = n /\ given = Slice(st, from, end)
    <2>1. n # VARARG
      BY Sizes
    <2> QED BY <2>1, <1>2, <1>3 DEF GivenTo
  <1>5. /\ Slice(st, from, end) \in Seq(Content) /\ Len(Slice(st, from, end)) = end - from
        /\ \A i \in 1 .. end - from :
             Slice(st, from, end)[i] = IF from + i - 1 \in Slot THEN st[from + i - 1] ELSE Err
    <2>1. PICK tt \in [Slot -> Content] : tt = st
      BY <1>1
    <2>2. from <= end
      BY <1>4
    <2>3. /\ Slice(tt, from, end) \in Seq(Content) /\ Len(Slice(tt, from, end)) = end - from
          /\ \A i \in 1 .. end - from :
               Slice(tt, from, end)[i] = IF from + i - 1 \in Slot THEN tt[from + i - 1] ELSE Err
      BY <2>2, SliceIs
    <2> QED BY <2>1, <2>3
  <1> HIDE DEF given, vals
  <1>6. ASSUME NEW i \in 1 .. n
        PROVE  /\ (args[i] - window.base) + 1 \in DOMAIN vals
               /\ given[i] = vals[(args[i] - window.base) + 1]
    <2>1. from + i - 1 = top + i /\ i \in 1 .. end - from
      BY <1>2, <1>4, WindowIs
    <2>2. given[i] = At(args[i])
      BY <2>1, <1>1, <1>4, <1>5
    <2>3. PICK s \in Nat : s = args[i]
      OBVIOUS
    <2>4. (s - window.base) + 1 \in DOMAIN vals /\ vals[(s - window.base) + 1] = At(s)
      BY <2>3, ValueAt DEF vals
    <2> QED BY <2>2, <2>3, <2>4
  <1>7. given \in Seq(Content) /\ Len(given) = n
    BY <1>4, <1>5
  <1> QED BY <1>6, <1>7 DEF given, vals, st

LEMMA MetaNext ==
  ASSUME Good, Good', NEW args, NEW n \in Nat, Len(args) = n, NEW n_rets,
         NEW out \in Slot \cup {Nil}, NEW keep \in Nat, keep = RunEnd - window.base,
         \/ /\ n_rets = 1 /\ out \in Nat /\ window.base <= out /\ out < window.base + keep /\ n = 2
         \/ n_rets = 0 /\ out = Nil /\ n = 3,
         keep <= window.len, InLua => keep <= caller.len,
         \A i \in 1 .. n : args[i] \in Nat /\ window.base <= args[i] /\ args[i] < RunEnd,
         Metamethod(args, n_rets, out, keep), strays' = {}
  PROVE  Call!Next
  <1> DEFINE f == CHOOSE x \in Value : TRUE
             st == Pushed(args, f)
             w == [window EXCEPT !.len = @ + n + 1]
             how == How("meta", keep, out, Nil, Nil)
             given == GivenTo(top, n, st, w)
             vals == Slice(stack, window.base, RunEnd)
  <1>1. \/ /\ StackHas(n + 1, window) /\ vm_call_init(top, n, n_rets, st, w, how)
        \/ overflow_error(stack, how)
    BY Zenon DEF Metamethod, Pushed
  <1>2. how \in HowType /\ how.keep = keep /\ how.catch = Nil /\ how.out = out
    BY DEF How, HowType
  <1>3. f \in Value
    BY CallFramesAssumption
  <1>4. /\ window.base \in Nat /\ RunEnd \in Nat /\ window.base + keep = RunEnd
        /\ stack \in [Slot -> Content] /\ top \in Nat /\ window.len \in Nat
        /\ top = window.base + window.len
    BY ActsNow, WindowIs
  <1>5. CallReady(top, n, n_rets, w, how)
    BY MetaReady
  <1> HIDE DEF how, w
  <1>6. CASE overflow_error(stack, how)
    <2>1. SameBelow(stack, stack, window.base)
      BY DEF SameBelow
    <2> QED BY <2>1, <1>2, <1>4, <1>6, OverflowsNext
  <1>7. CASE StackHas(n + 1, window) /\ vm_call_init(top, n, n_rets, st, w, how)
    <2>1. top + n + 1 < NSlots
      BY <1>4, <1>7 DEF StackHas
    <2>2. st \in [Slot -> Content] /\ SameBelow(stack, st, top + 1)
      BY <2>1, <1>3, PushedIs
    <2>3. /\ given \in Seq(Content) /\ Len(given) = n
          /\ \A i \in 1 .. n : /\ (args[i] - window.base) + 1 \in DOMAIN vals
                               /\ given[i] = vals[(args[i] - window.base) + 1]
      BY <2>1, <1>3, GivenCopies
    <2> HIDE DEF f, st, vals
    <2>4. Call!Next \/ Calls(given, how.keep, n_rets, how.out, how.catch, top)
      <3>1. window.base + how.keep <= RunEnd
        BY <1>2, <1>4
      <3> QED BY <3>1, <2>2, <1>5, <1>7, CallMakes DEF given
    <2> HIDE DEF given
    <2>5. ASSUME Calls(given, how.keep, n_rets, how.out, how.catch, top) PROVE Call!Next
      <3>1. Calls(given, RunEnd - window.base, n_rets, out, Nil, top)
        BY <1>2, <2>5
      <3>2. CASE n = 2
        <4>1. given = <<given[1], given[2]>>
          BY <3>2, <2>3
        <4>2. 1 \in 1 .. n /\ 2 \in 1 .. n
          BY <3>2
        <4>3. \E i, j \in DOMAIN vals : given = <<vals[i], vals[j]>>
          BY <4>1, <4>2, <2>3
        <4>4. n_rets = 1 /\ out \in Nat /\ out # Nil /\ window.base <= out /\ out < RunEnd
          BY <3>2, <1>4, CallFramesAssumption
        <4> QED BY <3>1, <4>3, <4>4, OnNext DEF vals
      <3>3. CASE n = 3
        <4>1. given = <<given[1], given[2], given[3]>>
          BY <3>3, <2>3
        <4>2. 1 \in 1 .. n /\ 2 \in 1 .. n /\ 3 \in 1 .. n
          BY <3>3
        <4>3. \E i, j, k \in DOMAIN vals : given = <<vals[i], vals[j], vals[k]>>
          BY <4>1, <4>2, <2>3
        <4>4. n_rets = 0 /\ out = Nil
          BY <3>3
        <4> QED BY <3>1, <4>3, <4>4, OnNext DEF vals
      <3> QED BY <3>2, <3>3
    <2> QED BY <2>4, <2>5
  <1> QED BY <1>1, <1>6, <1>7

LEMMA CPCallNext ==
  ASSUME Good, Good', NEW f \in Value, NEW x \in Value, lulu_cpcall(f, x), strays' = {}
  PROVE  Call!Next
  <1> DEFINE how    == How("api", window.len, Nil, window.base, PCall)
             pushed == [stack EXCEPT ![top] = f, ![top + 1] = x]
             w      == [window EXCEPT !.len = @ + 2]
             given  == GivenTo(top, 1, pushed, w)
  <1>1. /\ CallReady(top, 1, 0, w, how) /\ how \in HowType /\ pushed \in [Slot -> Content]
        /\ overflow_error(pushed, how) \/ call_init_c(top, 1, 0, pushed, w, how)
        /\ Catches(Len(frames) + 1, frames[Len(frames)], PCall)
        /\ InC /\ PCall \in CatchType /\ PCall.top = top
    BY CPCallReady
  <1>2. how.keep = window.len /\ how.out = Nil /\ how.catch = PCall
    BY DEF How
  <1>3. /\ window.base \in Nat /\ window.len \in Nat /\ top = window.base + window.len
        /\ top \in Nat /\ RunEnd = top /\ w.base = window.base /\ w.len = window.len + 2
        /\ stack \in [Slot -> Content] /\ top \in Slot
    BY <1>1, WindowIs, ActsNow DEF RunEnd
  <1>4. SameBelow(stack, pushed, top + 1)
    <2>1. ASSUME NEW s \in Slot, s + 1 < top + 1 PROVE pushed[s] = stack[s]
      <3>1. s \in Nat
        BY Sizes DEF Slot
      <3>2. s # top /\ s # top + 1
        BY <3>1, <2>1, <1>3
      <3> QED BY <3>2, <1>3
    <2> QED BY <2>1 DEF SameBelow
  <1>5. top + 1 \in Slot => pushed[top + 1] = x
    BY <1>3
  <1> HIDE DEF how, pushed, w
  <1>6. CASE overflow_error(pushed, how)
    <2>1. SameBelow(stack, pushed, window.base)
      <3>1. PICK y \in Nat : y = top + 1
        BY <1>3
      <3>2. window.base <= y /\ SameBelow(stack, pushed, y)
        BY <3>1, <1>3, <1>4
      <3> QED BY <3>2, <1>3, SameFurther
    <2>2. how.catch # Nil => /\ Catches(Len(frames) + 1, frames[Len(frames)], how.catch)
                             /\ window.base <= how.catch.top
      BY <1>1, <1>2, <1>3
    <2> QED BY <2>1, <2>2, <1>1, <1>6, OverflowsNext
  <1>7. CASE call_init_c(top, 1, 0, pushed, w, how)
    <2>1. w.base + w.len + StackMin < NSlots
      BY <1>7 DEF call_init_c, StackHas
    <2>2. top + 1 \in Slot
      BY <2>1, <1>3, Sizes DEF Slot
    <2>3. given = <<x>>
      <3>1. PICK from \in Nat : from = top + 1
        BY <1>3
      <3>2. PICK end \in Nat : end = from + 1
        BY <3>1
      <3>3. from <= end /\ end - from = 1 /\ given = Slice(pushed, from, end)
        BY <3>1, <3>2, Sizes DEF GivenTo
      <3>4. /\ Slice(pushed, from, end) \in Seq(Content)
            /\ Len(Slice(pushed, from, end)) = end - from
            /\ \A i \in 1 .. end - from :
                 Slice(pushed, from, end)[i]
                   = IF from + i - 1 \in Slot THEN pushed[from + i - 1] ELSE Err
        BY <3>3, <1>1, SliceIs
      <3>5. 1 \in 1 .. end - from /\ from + 1 - 1 = top + 1
        BY <3>1, <3>3, <1>3
      <3>6. given \in Seq(Content) /\ Len(given) = 1 /\ given[1] = x
        BY <3>3, <3>4, <3>5, <2>2, <1>5
      <3> HIDE DEF given
      <3> QED BY <3>6
    <2>4. Calls(given, how.keep, 0, how.out, how.catch, top)
      <3>1. window.base + how.keep <= RunEnd
        BY <1>2, <1>3
      <3> QED BY <3>1, <1>1, <1>4, <1>7, CallsC DEF given
    <2> HIDE DEF given
    <2>5. PICK vals : vals = Slice(stack, window.base, RunEnd)
      OBVIOUS
    <2>6. Len(vals) = window.len
      <3>1. PICK base \in Nat : base = window.base
        BY <1>3
      <3>2. PICK end \in Nat : end = RunEnd
        BY <1>3
      <3>3. PICK st \in [Slot -> Content] : st = stack
        BY <1>3
      <3>4. base <= end /\ end - base = window.len
        BY <3>1, <3>2, <1>3
      <3>5. Len(Slice(st, base, end)) = end - base
        BY <3>4, SliceIs
      <3> QED BY <2>5, <3>1, <3>2, <3>3, <3>4, <3>5
    <2>7. PCall # Nil /\ PCall.top - top = 0
      <3>1. PCall # Nil
        BY <1>1, CallFramesAssumption DEF CatchType
      <3> QED BY <3>1, <1>1, <1>3
    <2>8. PICK protected : protected = IF how.catch = Nil THEN Nil ELSE how.catch.top - top
      OBVIOUS
    <2>9. /\ Len(Activations') > Len(Activations)
          /\ Call!Call(Activations, Activations', <<x>>, window.len, 0, window.len + 1, protected)
      BY <2>3, <2>4, <2>8, <1>2 DEF Calls
    <2>10. protected = 0
      BY <2>7, <2>8, <1>2
    <2>11. Call!CallData(Activations, Activations', vals, x)
      BY <2>6, <2>9, <2>10 DEF Call!CallData
    <2>12. Call!Step(Activations, Activations', vals)
      BY <2>9, <2>11, Zenon DEF Call!Step
    <2> QED BY <2>5, <2>12, StepIsNext
  <1> QED BY <1>1, <1>6, <1>7

-----------------------------------------------------------------------------
(* Returns *)

\* What is known of a part and of a concatenation.
PartFacts(s, i, k) ==
  /\ Part(s, i, k) \in Seq(Content)
  /\ Len(Part(s, i, k)) = IF i <= k THEN (k - i) + 1 ELSE 0
  /\ \A j \in 1 .. (k - i) + 1 : Part(s, i, k)[j] = s[(i + j) - 1]

ConcatFacts(q, r) ==
  /\ q \o r \in Seq(Content) /\ Len(q \o r) = Len(q) + Len(r)
  /\ \A i \in 1 .. Len(q) + Len(r) : (q \o r)[i] = IF i <= Len(q) THEN q[i] ELSE r[i - Len(q)]

LEMMA ConcatIs ==
  ASSUME NEW q \in Seq(Content), NEW r \in Seq(Content)
  PROVE  ConcatFacts(q, r)
  BY ConcatProperties DEF ConcatFacts

LEMMA PartIs ==
  ASSUME NEW s \in Seq(Content), NEW i \in Nat \ {0}, NEW k \in Nat, k <= Len(s)
  PROVE  PartFacts(s, i, k)
  <1>1. \A j \in i .. k : s[j] \in Content
    OBVIOUS
  <1>2. /\ SubSeq(s, i, k) \in Seq(Content)
        /\ Len(SubSeq(s, i, k)) = IF i <= k THEN k - i + 1 ELSE 0
        /\ \A j \in 1 .. k - i + 1 : SubSeq(s, i, k)[j] = s[i + j - 1]
    BY <1>1, SubSeqProperties
  <1> QED BY <1>2 DEF Part, PartFacts

\* Three parts one after the other.
Joins(v, q, r, s, a, b, c) ==
  /\ Len(q) = a /\ Len(r) = b /\ Len(s) = c /\ Len(v) = a + b + c
  /\ \A i \in 1 .. a : v[i] = q[i]
  /\ \A i \in 1 .. b : v[a + i] = r[i]
  /\ \A i \in 1 .. c : v[a + b + i] = s[i]

LEMMA ThreeParts ==
  ASSUME NEW q \in Seq(Content), NEW r \in Seq(Content), NEW s \in Seq(Content), NEW v \in Seq(Content),
         NEW a \in Nat, NEW b \in Nat, NEW c \in Nat, Joins(v, q, r, s, a, b, c)
  PROVE  v = q \o r \o s
  <1> USE DEF Joins
  <1>1. PICK x : x = q \o r
    OBVIOUS
  <1>2. /\ x \in Seq(Content) /\ Len(x) = a + b
        /\ \A i \in 1 .. a + b : x[i] = IF i <= a THEN q[i] ELSE r[i - a]
    <2>1. ConcatFacts(q, r)
      BY ConcatIs, Zenon
    <2> QED BY <2>1, <1>1 DEF ConcatFacts
  <1>3. PICK y : y = x \o s
    OBVIOUS
  <1>4. /\ y \in Seq(Content) /\ Len(y) = a + b + c
        /\ \A i \in 1 .. a + b + c : y[i] = IF i <= a + b THEN x[i] ELSE s[i - (a + b)]
    <2>1. PICK z \in Seq(Content) : z = x
      BY <1>2
    <2>2. ConcatFacts(z, s)
      BY ConcatIs, Zenon
    <2> QED BY <2>1, <2>2, <1>2, <1>3 DEF ConcatFacts
  <1>5. ASSUME NEW i \in 1 .. a + b + c PROVE v[i] = y[i]
    <2>1. CASE i <= a
      <3>1. i \in 1 .. a /\ i \in 1 .. a + b /\ i <= a + b
        BY <2>1
      <3> QED BY <3>1, <2>1, <1>2, <1>4
    <2>2. CASE ~(i <= a) /\ i <= a + b
      <3>1. PICK j \in 1 .. b : j = i - a
        BY <2>2
      <3>2. i \in 1 .. a + b /\ a + j = i
        BY <3>1, <2>2
      <3>3. v[i] = r[j]
        BY <3>2
      <3> QED BY <3>1, <3>2, <3>3, <2>2, <1>2, <1>4
    <2>3. CASE ~(i <= a + b)
      <3>1. PICK j \in 1 .. c : j = i - (a + b)
        BY <2>3
      <3>2. a + b + j = i
        BY <3>1
      <3>3. v[i] = s[j]
        BY <3>2
      <3> QED BY <3>1, <3>3, <2>3, <1>4
    <2> QED BY <2>1, <2>2, <2>3
  <1>6. v = y
    BY <1>4, <1>5, SeqEqual
  <1> QED BY <1>1, <1>3, <1>6

\* The values v a caller has after a return, place by place: rs of them, from place
\* into on, are results, the last k of vals.
Placed(v, callers, into, rs, vals, l, k) ==
  \A i \in 1 .. Len(v) :
    v[i] = IF into <= i /\ i < into + rs
           THEN IF (i - into) + 1 <= k THEN vals[(l - k) + (i - into) + 1] ELSE Nil
           ELSE callers[i]

LEMMA GivenBackIs ==
  ASSUME NEW callers \in Seq(Content), NEW vals \in Seq(Content), NEW v \in Seq(Content),
         NEW m \in Nat, m = Len(callers), NEW l \in Nat, l = Len(vals),
         NEW k \in Nat, k <= l, NEW want \in Nat \cup {VARARG},
         NEW rs \in Nat, rs = IF want = VARARG THEN k ELSE want,
         NEW into \in Nat, into > 0, into <= m + 1,
         Len(v) = IF into + rs > m + 1 THEN into + rs - 1 ELSE m,
         Placed(v, callers, into, rs, vals, l, k)
  PROVE  GivenBack(v, callers, into, want, vals, k)
  <1>1. PICK given : given = Call!Last(vals, k)
    OBVIOUS
  <1>2. /\ given \in Seq(Content) /\ Len(given) = k
        /\ \A j \in 1 .. k : given[j] = vals[(l - k) + j]
    <2>1. PICK i \in Nat \ {0} : i = (l - k) + 1
      OBVIOUS
    <2>2. given = Part(vals, i, l)
      BY <1>1, <2>1 DEF Call!Last, Part
    <2>3. PartFacts(vals, i, l)
      <3>1. l <= Len(vals)
        OBVIOUS
      <3> QED BY <3>1, PartIs, Zenon
    <2>4. (l - i) + 1 = k /\ (i <= l <=> k > 0)
      BY <2>1
    <2>5. \A j \in 1 .. k : (i + j) - 1 = (l - k) + j
      BY <2>1
    <2>6. Len(given) = k
      <3>1. Len(given) = IF i <= l THEN (l - i) + 1 ELSE 0
        BY <2>2, <2>3 DEF PartFacts
      <3>2. CASE i <= l
        BY <3>1, <3>2, <2>4
      <3>3. CASE ~(i <= l)
        <4>1. k = 0
          BY <3>3, <2>4
        <4> QED BY <3>1, <3>3, <4>1
      <3> QED BY <3>2, <3>3
    <2>7. ASSUME NEW j \in 1 .. k PROVE given[j] = vals[(l - k) + j]
      <3>1. j \in 1 .. (l - i) + 1
        BY <2>4
      <3> QED BY <3>1, <2>2, <2>3, <2>5 DEF PartFacts
    <2> QED BY <2>2, <2>3, <2>6, <2>7 DEF PartFacts
  <1>3. PICK results : results = IF want = VARARG THEN given ELSE Call!Adjust(given, want)
    OBVIOUS
  <1>4. /\ results \in Seq(Content) /\ Len(results) = rs
        /\ \A j \in 1 .. rs : results[j] = IF j <= k THEN vals[(l - k) + j] ELSE Nil
    <2>1. CASE want = VARARG
      BY <2>1, <1>2, <1>3
    <2>2. CASE want # VARARG
      <3>1. results = [j \in 1 .. rs |-> IF j <= Len(given) THEN given[j] ELSE Nil]
        BY <2>2, <1>3 DEF Call!Adjust
      <3>2. \A j \in 1 .. rs : j <= k => j \in 1 .. k /\ given[j] \in Content
        BY <1>2
      <3>3. Nil \in Content
        BY DEF Content
      <3>4. \A j \in 1 .. rs : (IF j <= Len(given) THEN given[j] ELSE Nil) \in Content
        BY <3>2, <3>3, <1>2
      <3> QED BY <3>1, <3>2, <3>4, <1>2
    <2> QED BY <2>1, <2>2
  <1>5. PICK q : q = Part(callers, 1, into - 1)
    OBVIOUS
  <1>6. PICK a \in Nat : a = into - 1
    OBVIOUS
  <1>7. q \in Seq(Content) /\ Len(q) = a /\ \A j \in 1 .. a : q[j] = callers[j]
    <2>1. PICK i \in Nat \ {0} : i = 1
      OBVIOUS
    <2>2. a <= Len(callers)
      BY <1>6
    <2>3. PartFacts(callers, i, a)
      BY <2>2, PartIs, Zenon
    <2>4. q = Part(callers, i, a) /\ (a - i) + 1 = a /\ \A j \in 1 .. a : (i + j) - 1 = j
      BY <1>5, <1>6, <2>1
    <2> QED BY <2>1, <2>3, <2>4 DEF PartFacts
  <1>8. PICK i \in Nat \ {0} : i = into + rs
    OBVIOUS
  <1>9. PICK s : s = Part(callers, i, m)
    OBVIOUS
  <1>10. PICK c \in Nat : c = IF i <= m THEN (m - i) + 1 ELSE 0
    <2>1. i <= m => (m - i) + 1 \in Nat
      OBVIOUS
    <2> QED BY <2>1, Zenon
  <1>11. s \in Seq(Content) /\ Len(s) = c /\ \A j \in 1 .. c : s[j] = callers[(i + j) - 1]
    <2>1. PartFacts(callers, i, m)
      <3>1. m <= Len(callers)
        OBVIOUS
      <3> QED BY <3>1, PartIs, Zenon
    <2>2. \A j \in 1 .. c : j \in 1 .. (m - i) + 1
      BY <1>10
    <2> QED BY <2>1, <2>2, <1>9, <1>10 DEF PartFacts
  <1>12. Len(v) = a + rs + c
    <2>1. CASE into + rs > m + 1
      <3>1. Len(v) = (into + rs) - 1
        BY <2>1
      <3>2. c = 0
        BY <2>1, <1>8, <1>10
      <3> QED BY <3>1, <3>2, <1>6
    <2>2. CASE ~(into + rs > m + 1)
      <3>1. Len(v) = m
        BY <2>2
      <3>2. into + rs + c = m + 1
        <4>1. CASE i <= m
          <5>1. c = (m - i) + 1
            BY <4>1, <1>10
          <5> QED BY <5>1, <1>8, SMTT(30)
        <4>2. CASE ~(i <= m)
          <5>1. c = 0 /\ i = m + 1
            BY <4>2, <2>2, <1>8, <1>10
          <5> QED BY <5>1, <1>8
        <4> QED BY <4>1, <4>2
      <3>3. a + 1 = into
        BY <1>6
      <3>4. a + rs + c = m
        BY <3>2, <3>3
      <3> QED BY <3>1, <3>4
    <2> QED BY <2>1, <2>2
  <1>13. \A j \in 1 .. a : v[j] = q[j]
    <2> SUFFICES ASSUME NEW j \in 1 .. a PROVE v[j] = q[j]
      OBVIOUS
    <2>1. j \in 1 .. Len(v) /\ ~(into <= j)
      BY <1>6, <1>12
    <2> QED BY <2>1, <1>7 DEF Placed
  <1>14. \A j \in 1 .. rs : v[a + j] = results[j]
    <2> SUFFICES ASSUME NEW j \in 1 .. rs PROVE v[a + j] = results[j]
      OBVIOUS
    <2>1. PICK p \in 1 .. Len(v) : p = a + j
      BY <1>12
    <2>2. into <= p /\ p < into + rs /\ (p - into) + 1 = j /\ (l - k) + (p - into) + 1 = (l - k) + j
      BY <2>1, <1>6
    <2>3. v[p] = IF j <= k THEN vals[(l - k) + j] ELSE Nil
      BY <2>2 DEF Placed
    <2> QED BY <2>1, <2>3, <1>4
  <1>15. \A j \in 1 .. c : v[a + rs + j] = s[j]
    <2> SUFFICES ASSUME NEW j \in 1 .. c PROVE v[a + rs + j] = s[j]
      OBVIOUS
    <2>1. PICK p \in 1 .. Len(v) : p = a + rs + j
      BY <1>12
    <2>2. ~(p < into + rs) /\ (i + j) - 1 = p
      BY <2>1, <1>6, <1>8
    <2>3. v[p] = callers[p]
      BY <2>2 DEF Placed
    <2> QED BY <2>1, <2>2, <2>3, <1>11
  <1>16. v = q \o results \o s
    <2>1. /\ q \in Seq(Content) /\ results \in Seq(Content) /\ s \in Seq(Content)
          /\ Len(q) = a /\ Len(results) = rs /\ Len(s) = c
      BY <1>4, <1>7, <1>11
    <2>2. Joins(v, q, results, s, a, rs, c)
      BY <2>1, <1>12, <1>13, <1>14, <1>15, Zenon DEF Joins
    <2> QED BY <2>1, <2>2, ThreeParts, Zenon
  <1>17. v = SubSeq(callers, 1, into - 1) \o results
               \o SubSeq(callers, into + Len(results), Len(callers))
    BY <1>4, <1>5, <1>8, <1>9, <1>16, Zenon DEF Part
  <1> QED BY <1>1, <1>3, <1>17, Zenon DEF GivenBack

\* The stack as a return leaves it: from slot a on there are rs results.
Handed(st, tt, a, rs, d, vals, l, k) ==
  /\ \A s \in Slot : s < d /\ ~(a <= s /\ s < a + rs) => tt[s] = st[s]
  /\ \A s \in Slot : a <= s /\ s < a + rs =>
       tt[s] = IF s - a < k THEN vals[(l - k) + (s - a) + 1] ELSE Nil

SliceFacts(v, st, from, end) ==
  /\ v \in Seq(Content) /\ Len(v) = end - from
  /\ \A i \in 1 .. end - from : v[i] = IF from + i - 1 \in Slot THEN st[from + i - 1] ELSE Err

LEMMA SliceFactsAre ==
  ASSUME NEW st \in [Slot -> Content], NEW from \in Nat, NEW end \in Nat, from <= end
  PROVE  SliceFacts(Slice(st, from, end), st, from, end)
  BY SliceIs DEF SliceFacts

LEMMA HandedIs ==
  ASSUME NEW st \in [Slot -> Content], NEW tt \in [Slot -> Content],
         NEW bot \in Nat, NEW keep \in Nat, NEW d \in Nat, d = bot + keep, d <= NSlots,
         NEW vals \in Seq(Content), NEW l \in Nat, l = Len(vals), NEW k \in Nat, k <= l,
         NEW want \in Nat \cup {VARARG}, NEW rs \in Nat, rs = IF want = VARARG THEN k ELSE want,
         NEW a \in Nat, bot <= a, a <= d, NEW into \in Nat, into = (a - bot) + 1,
         NEW x \in Nat, x = IF a + rs > d THEN a + rs ELSE d, x <= NSlots,
         Handed(st, tt, a, rs, d, vals, l, k)
  PROVE  GivenBack(Slice(tt, bot, x), Slice(st, bot, d), into, want, vals, k)
  <1>1. PICK v : v = Slice(tt, bot, x)
    OBVIOUS
  <1>2. PICK callers : callers = Slice(st, bot, d)
    OBVIOUS
  <1>3. bot <= x /\ bot <= d
    OBVIOUS
  <1>4. /\ callers \in Seq(Content) /\ Len(callers) = keep
        /\ \A i \in 1 .. keep : callers[i] = IF bot + i - 1 \in Slot THEN st[bot + i - 1] ELSE Err
    <2>1. d - bot = keep
      OBVIOUS
    <2>2. SliceFacts(callers, st, bot, d)
      BY <1>2, <1>3, SliceFactsAre, Zenon
    <2> QED BY <2>1, <2>2 DEF SliceFacts
  <1>5. PICK y \in Nat : y = x - bot
    BY <1>3
  <1>6. /\ v \in Seq(Content) /\ Len(v) = y
        /\ \A i \in 1 .. y : v[i] = IF bot + i - 1 \in Slot THEN tt[bot + i - 1] ELSE Err
    <2>1. SliceFacts(v, tt, bot, x)
      BY <1>1, <1>3, SliceFactsAre, Zenon
    <2> QED BY <2>1, <1>5 DEF SliceFacts
  <1>7. Len(v) = IF into + rs > keep + 1 THEN into + rs - 1 ELSE keep
    <2>1. into + rs > keep + 1 <=> a + rs > d
      OBVIOUS
    <2>2. y = IF into + rs > keep + 1 THEN into + rs - 1 ELSE keep
      <3>1. CASE a + rs > d
        BY <3>1, <2>1, <1>5
      <3>2. CASE ~(a + rs > d)
        BY <3>2, <2>1, <1>5
      <3> QED BY <3>1, <3>2
    <2> QED BY <2>2, <1>6
  <1>8. Placed(v, callers, into, rs, vals, l, k)
    <2> SUFFICES ASSUME NEW i \in 1 .. Len(v)
                 PROVE  v[i] = IF into <= i /\ i < into + rs
                               THEN IF (i - into) + 1 <= k THEN vals[(l - k) + (i - into) + 1]
                                    ELSE Nil
                               ELSE callers[i]
      BY DEF Placed
    <2>1. i \in 1 .. y /\ i \in Nat
      BY <1>6
    <2>2. PICK s \in Nat : s = bot + i - 1
      BY <2>1
    <2>3. s < x
      BY <2>1, <2>2, <1>5
    <2>4. s \in Slot
      <3>1. s < NSlots
        BY <2>3, Sizes
      <3> QED BY <3>1, <2>2, Sizes DEF Slot
    <2>5. v[i] = tt[s]
      BY <2>1, <2>2, <2>4, <1>6
    <2>6. CASE into <= i /\ i < into + rs
      <3>1. a <= s /\ s < a + rs
        BY <2>2, <2>6
      <3>2. s - a = i - into /\ (s - a < k <=> (i - into) + 1 <= k)
        BY <2>1, <2>2
      <3>3. tt[s] = IF s - a < k THEN vals[(l - k) + (s - a) + 1] ELSE Nil
        BY <3>1, <2>4, Zenon DEF Handed
      <3> QED BY <3>2, <3>3, <2>5, <2>6
    <2>7. CASE ~(into <= i /\ i < into + rs)
      <3>1. ~(a <= s /\ s < a + rs)
        BY <2>1, <2>2, <2>7
      <3>2. s < d
        BY <3>1, <2>3
      <3>3. i \in 1 .. keep
        BY <3>2, <2>1, <2>2
      <3>4. tt[s] = st[s]
        BY <3>1, <3>2, <2>4, Zenon DEF Handed
      <3>5. callers[i] = st[s]
        BY <3>3, <2>2, <2>4, <1>4
      <3> QED BY <3>4, <3>5, <2>5, <2>7
    <2> QED BY <2>6, <2>7
  <1>9. into > 0 /\ into <= keep + 1
    OBVIOUS
  <1>10. GivenBack(v, callers, into, want, vals, k)
    BY <1>4, <1>6, <1>7, <1>8, <1>9, GivenBackIs
  <1> QED BY <1>1, <1>2, <1>10

\* How many results the caller gets of k.
ResultsOf(k) == IF caller.to_return = VARARG THEN k ELSE caller.to_return

\* The stack when the k results, from slot first on, are moved.
Moved(first, k) ==
  LET dst == window.base - 1
      len == IF caller.to_return = VARARG THEN k ELSE Max({k, caller.to_return})
  IN  [s \in Slot |-> IF dst <= s /\ s < dst + k THEN At(first + s - dst)
                      ELSE IF dst <= s /\ s < dst + len THEN Nil
                      ELSE stack[s]]

\* What a return does to the frames, and where the values of the caller end then.
LEMMA FiniRuns ==
  ASSUME Good, Good', ~InHost, NEW first, NEW k \in Nat, vm_call_fini(first, k), Misfit = {}
  PROVE  /\ Len(frames') = Len(frames) - 1 /\ SameCalls(frames, frames', Len(frames) - 1)
         /\ stack' = IF caller.how.by = "meta" /\ caller.to_return = 1
                     THEN [Moved(first, k) EXCEPT ![caller.how.out] = Moved(first, k)[window.base - 1]]
                     ELSE Moved(first, k)
         /\ RunEnd' = IF caller.how.by = "meta" THEN CalleeBase + caller.how.keep
                      ELSE CalleeBase + caller.how.keep + ResultsOf(k)
  <1> DEFINE n == Len(frames)
             base == CalleeBase
             dst == window.base - 1
             want == caller.to_return
             how == caller.how
             below == frames[n - 1]
             len == IF want = VARARG THEN k ELSE Max({k, want})
  <1>1. /\ n \in Nat /\ n > 0 /\ base \in Nat /\ how.keep \in Nat /\ want \in Nat \cup {VARARG}
        /\ how.by \in {"op", "api", "meta"} /\ window.base \in Nat /\ window.base > base + how.keep
        /\ how.by # "meta" => window.base = base + how.keep + 1
        /\ how.by = "op" => ToLua
        /\ how.by = "api" => ~ToLua /\ how.resume = base
        /\ how.by = "meta" => want \in {0, 1}
    BY CalleeIs, WindowIs
  <1>2. /\ Len(frame_pop) = n - 1 /\ \A i \in 1 .. n - 1 : frame_pop[i] = frames[i]
        /\ FramesOK(frame_pop)
    <2>1. n - 1 \in 0 .. n /\ FramesOK(frames)
      BY <1>1 DEF Good
    <2> QED BY <2>1, FramesPopped DEF frame_pop
  <1>3. /\ n > 1 => frame_pop # <<>> /\ frame_pop[Len(frame_pop)] = below
        /\ n = 1 => frame_pop = <<>>
    <2>1. n > 1 => n - 1 \in 1 .. n - 1
      BY <1>1
    <2>2. frame_pop \in Seq(FrameType)
      BY <1>2 DEF FramesOK
    <2> QED BY <2>1, <2>2, <1>1, <1>2
  <1>4. ~leaked
    BY DEF Good
  <1>5. ToLua <=> frame_pop # <<>> /\ frame_pop[Len(frame_pop)].kind = "Lua"
                    /\ ~(leaked /\ Len(frame_pop) = 1)
    <2>1. n = 1 \/ n > 1
      BY <1>1, OneOrMore
    <2> QED BY <2>1, <1>1, <1>3, <1>4 DEF ToLua
  <1> DEFINE popped == IF frame_pop = <<>> THEN Window(dst, dst + len)
                       ELSE IF want = VARARG THEN Window(frame_pop[Len(frame_pop)].base, dst + len)
                       ELSE Window(frame_pop[Len(frame_pop)].base,
                                   frame_pop[Len(frame_pop)].base + frame_pop[Len(frame_pop)].len)
  <1>6. /\ frames' = frame_pop
        /\ window' = IF how.by = "api" /\ want # VARARG
                     THEN Window(how.resume, dst + want) ELSE popped
        /\ stack' = IF how.by = "meta" /\ want = 1
                    THEN [Moved(first, k) EXCEPT ![how.out] = Moved(first, k)[dst]]
                    ELSE Moved(first, k)
        /\ open' = (ToLua /\ want = VARARG)
        /\ live' = IF ~ToLua THEN 0
                   ELSE IF how.by = "meta" \/ want = VARARG THEN how.keep
                   ELSE how.keep + want
    BY <1>5 DEF vm_call_fini, Moved
  <1>7. Len(frames') = n - 1 /\ SameCalls(frames, frames', n - 1)
    <2>1. n - 1 \in Nat /\ n - 1 <= n
      BY <1>1
    <2> QED BY <2>1, <1>2, <1>6 DEF SameCalls, SameCall
  <1>8. window'.base = base
    <2>1. (Bottom(frames, Len(frames) + 1) = window.base)'
      <3>1. (/\ RunEnd \in Nat /\ window.base <= RunEnd /\ RunEnd <= top
             /\ window.base \in Nat /\ Bottom(frames, Len(frames) + 1) = window.base
             /\ FramesOK(frames) /\ stack \in [Slot -> Content] /\ Len(frames) \in Nat)'
        BY RunEndIs, PTL
      <3> QED BY <3>1
    <2>2. n = 1 \/ n > 1
      BY <1>1, OneOrMore
    <2>3. Len(frames') + 1 = n
      BY <1>1, <1>7
    <2>4. n > 1 => n # 1 /\ frames'[n - 1].base = below.base
      BY <1>1, <1>2, <1>3, <1>6
    <2>5. window'.base = IF n = 1 THEN 0 ELSE frames'[n - 1].base
      BY <2>1, <2>3 DEF Bottom
    <2> QED BY <2>2, <2>4, <2>5 DEF CalleeBase
  <1>9. InLua' <=> ToLua
    <2>1. n = 1 \/ n > 1
      BY <1>1, OneOrMore
    <2>2. ~leaked'
      BY DEF Good
    <2>3. n = 1 => InHost' /\ ~ToLua
      BY <1>1, <1>7, <2>2 DEF InHost, ToLua
    <2>4. n > 1 => ~InHost' /\ caller' = below
      <3>1. n > 1 => n - 1 # 0 /\ frames'[Len(frames')] = below
        BY <1>1, <1>3, <1>6
      <3> QED BY <3>1, <1>7, <2>2 DEF InHost, caller
    <2>5. n > 1 => below.kind \in {"C", "Lua"}
      BY CallerBelowIs
    <2> QED BY <2>1, <2>3, <2>4, <2>5 DEF InLua, InC, ToLua
  <1>10. ~ToLua => how.by = "api"
    <2>0. n = 1 \/ n > 1
      BY <1>1, OneOrMore
    <2>1. n = 1 \/ (n > 1 /\ below.kind = "C") \/ ToLua
      BY <2>0, CallerBelowIs DEF ToLua
    <2>2. ~ToLua => how.by # "meta"
      BY <1>1, <2>1, NoMisfit
    <2> QED BY <1>1, <2>2
  <1>11. RunEnd' = IF ToLua /\ want # VARARG THEN base + live' ELSE window'.base + window'.len
    <2>1. RunEnd' = IF ~ToLua \/ open' THEN window'.base + window'.len ELSE window'.base + live'
      BY <1>9 DEF RunEnd, top, InLua
    <2>2. open' => ToLua /\ want = VARARG
      BY <1>6
    <2>3. ToLua /\ want = VARARG => open'
      BY <1>6
    <2> QED BY <2>1, <2>2, <2>3, <1>8
  <1>12. ToLua => how.by # "api"
    BY <1>1
  <1>13. ~ToLua \/ want = VARARG => how.by # "meta" /\ dst = base + how.keep
    <2>1. want = VARARG => how.by # "meta"
      BY <1>1, Sizes
    <2> QED BY <2>1, <1>1, <1>10
  <1>14. window'.base + window'.len = base + how.keep + ResultsOf(k)
         \/ (ToLua /\ want # VARARG)
    <2>0. n = 1 \/ n > 1
      BY <1>1, OneOrMore
    <2>1. CASE ~ToLua /\ want # VARARG
      <3>1. window' = Window(base, dst + want) /\ dst = base + how.keep /\ want \in Nat
        BY <2>1, <1>1, <1>6, <1>10, <1>13
      <3>2. window'.base + window'.len = base + ((dst + want) - base)
        BY <3>1 DEF Window
      <3> HIDE DEF base, how, want, dst
      <3> QED BY <2>1, <3>1, <3>2, <1>1 DEF ResultsOf, want
    <2>2. CASE want = VARARG
      <3>1. len = k /\ ResultsOf(k) = k
        BY <2>2 DEF ResultsOf
      <3>2. window' = Window(window'.base, dst + k)
        BY <2>0, <2>2, <3>1, <1>3, <1>6 DEF Window
      <3>3. window'.base + window'.len = base + ((dst + k) - base)
        BY <3>2, <1>8 DEF Window
      <3>4. dst = base + how.keep
        BY <2>2, <1>13
      <3> HIDE DEF base, how, want, dst
      <3> QED BY <3>1, <3>3, <3>4, <1>1
    <2> QED BY <2>1, <2>2
  <1>15. RunEnd' = IF how.by = "meta" THEN base + how.keep ELSE base + how.keep + ResultsOf(k)
    <2>1. CASE ToLua /\ want # VARARG
      <3>1. RunEnd' = base + (IF how.by = "meta" THEN how.keep ELSE how.keep + want)
        BY <2>1, <1>6, <1>11
      <3>2. ResultsOf(k) = want /\ want \in Nat
        BY <2>1, <1>1 DEF ResultsOf
      <3> HIDE DEF base, how, want, dst
      <3> QED BY <3>1, <3>2, <1>1
    <2>2. CASE ~(ToLua /\ want # VARARG)
      BY <2>2, <1>11, <1>13, <1>14
    <2> QED BY <2>1, <2>2
  <1> QED BY <1>6, <1>7, <1>15

\* Moved puts the last k values of the function where it was, and nil after them.
LEMMA MovedIs ==
  ASSUME Good, ~InHost, NEW first, NEW k \in Nat, k <= RunEnd - window.base,
         k > 0 => first = RunEnd - k,
         NEW vals, vals = Slice(stack, window.base, RunEnd),
         NEW l \in Nat, l = RunEnd - window.base, NEW dst \in Nat, dst = window.base - 1,
         NEW rs, rs = ResultsOf(k), NEW m, m = Moved(first, k)
  PROVE  Handed(stack, m, dst, rs, dst, vals, l, k)
  <1>1. /\ RunEnd \in Nat /\ window.base <= RunEnd /\ window.base \in Nat
        /\ stack \in [Slot -> Content]
    BY RunEndIs
  <1>2. SliceFacts(vals, stack, window.base, RunEnd)
    <2>1. PICK st \in [Slot -> Content] : st = stack
      BY <1>1
    <2>2. PICK from \in Nat : from = window.base
      BY <1>1
    <2>3. PICK end \in Nat : end = RunEnd
      BY <1>1
    <2>4. from <= end
      BY <1>1, <2>2, <2>3
    <2>5. SliceFacts(Slice(st, from, end), st, from, end)
      BY <2>4, SliceFactsAre, Zenon
    <2> QED BY <2>1, <2>2, <2>3, <2>5
  <1>3. PICK len : len = IF caller.to_return = VARARG THEN k ELSE Max({k, caller.to_return})
    OBVIOUS
  <1>4. len \in Nat /\ ResultsOf(k) \in Nat /\ ResultsOf(k) <= len
    <2>1. caller.to_return \in Nat \cup {VARARG}
      BY CalleeIs
    <2>2. CASE caller.to_return = VARARG
      BY <2>2, <1>3 DEF ResultsOf
    <2>3. CASE caller.to_return # VARARG
      <3>1. PICK want \in Nat : want = caller.to_return
        BY <2>1, <2>3
      <3>2. PICK most : most = IF k >= want THEN k ELSE want
        OBVIOUS
      <3>3. /\ most \in {k, want} /\ \A y \in {k, want} : most >= y
            /\ \A z \in {k, want} : (\A y \in {k, want} : z >= y) => z = most
        BY <3>2
      <3>4. Max({k, want}) = most /\ want <= most /\ most \in Nat
        <4>1. Max({k, want}) = most
          BY <3>3, Zenon DEF Max
        <4> QED BY <4>1, <3>2
      <3>5. len = Max({k, want}) /\ ResultsOf(k) = want
        BY <2>3, <3>1, <1>3 DEF ResultsOf
      <3> QED BY <3>4, <3>5
    <2> QED BY <2>2, <2>3
  <1>6. \A s \in Slot : m[s] = IF dst <= s /\ s < dst + k THEN At(first + s - dst)
                               ELSE IF dst <= s /\ s < dst + len THEN Nil ELSE stack[s]
    BY <1>3 DEF Moved
  <1>7. ASSUME NEW s \in Slot, s < dst PROVE m[s] = stack[s]
    <2>1. ~(dst <= s)
      BY <1>7, Sizes DEF Slot
    <2> QED BY <2>1, <1>6
  <1>8. ASSUME NEW s \in Slot, dst <= s, s < dst + rs
        PROVE  m[s] = IF s - dst < k THEN vals[(l - k) + (s - dst) + 1] ELSE Nil
    <2>0. s \in Nat
      BY Sizes DEF Slot
    <2>1. CASE s - dst < k
      <3>1. s < dst + k /\ k > 0
        BY <2>0, <2>1, <1>8
      <3>2. m[s] = At(first + s - dst)
        BY <3>1, <1>6, <1>8
      <3>3. PICK i \in Nat : i = (l - k) + (s - dst) + 1
        BY <2>0, <1>8, <1>1
      <3>4. i \in 1 .. RunEnd - window.base
        BY <3>3, <2>0, <2>1, <1>1, <1>8
      <3>5. (window.base + i) - 1 = first + s - dst
        BY <3>1, <3>3, <2>0, <1>1
      <3>6. vals[i] = At((window.base + i) - 1)
        <4>1. PICK c : c = (window.base + i) - 1
          OBVIOUS
        <4>2. window.base + i - 1 = c
          BY <4>1, <3>3, <1>1
        <4>3. vals[i] = IF c \in Slot THEN stack[c] ELSE Err
          BY <4>2, <3>4, <1>2 DEF SliceFacts
        <4> QED BY <4>1, <4>3 DEF At
      <3> QED BY <3>2, <3>3, <3>5, <3>6, <2>1
    <2>2. CASE ~(s - dst < k)
      <3>1. ~(s < dst + k) /\ s < dst + len
        BY <2>0, <2>2, <1>4, <1>8
      <3> QED BY <3>1, <2>2, <1>6, <1>8
    <2> QED BY <2>1, <2>2
  <1> QED BY <1>7, <1>8, Zenon DEF Handed

LEMMA TopIsNat == Good => top \in Nat /\ top < NSlots
  BY WindowIs

\* A return gives the caller exactly the results it asked for.
LEMMA FiniNext ==
  ASSUME Good, Good', ~InHost, NEW first, NEW k \in Nat, k <= RunEnd - window.base,
         k > 0 => first = RunEnd - k, vm_call_fini(first, k), Misfit = {}
  PROVE  Call!Next
  <1>1. /\ Len(frames') = Len(frames) - 1 /\ SameCalls(frames, frames', Len(frames) - 1)
        /\ stack' = IF caller.how.by = "meta" /\ caller.to_return = 1
                    THEN [Moved(first, k) EXCEPT ![caller.how.out] = Moved(first, k)[window.base - 1]]
                    ELSE Moved(first, k)
        /\ RunEnd' = IF caller.how.by = "meta" THEN CalleeBase + caller.how.keep
                     ELSE CalleeBase + caller.how.keep + ResultsOf(k)
    BY FiniRuns
  <1>2. /\ RunEnd \in Nat /\ window.base <= RunEnd /\ RunEnd <= top /\ window.base \in Nat
        /\ stack \in [Slot -> Content] /\ top < NSlots
        /\ stack' \in [Slot -> Content] /\ RunEnd' \in Nat /\ RunEnd' < NSlots
    <2>1. (/\ RunEnd \in Nat /\ window.base <= RunEnd /\ RunEnd <= top
           /\ window.base \in Nat /\ Bottom(frames, Len(frames) + 1) = window.base
           /\ FramesOK(frames) /\ stack \in [Slot -> Content] /\ Len(frames) \in Nat)'
      BY RunEndIs, PTL
    <2>2. RunEnd' <= top' /\ top' < NSlots /\ RunEnd' \in Nat /\ top' \in Nat
      <3>1. (Good => /\ top \in Nat /\ top < NSlots)'
        BY TopIsNat, PTL
      <3> QED BY <2>1, <3>1
    <2> QED BY <2>1, <2>2, RunEndIs, WindowIs, Sizes, SMTT(30)
  <1>3. PICK n \in Nat : n = Len(frames) /\ n > 0 /\ caller = frames[n]
    BY CallerIs, HostIs
  <1>4. PICK bot \in Nat : bot = CalleeBase /\ bot = Bottom(frames, n)
    <2>1. CalleeBase \in Nat
      BY CalleeIs
    <2> QED BY <2>1, <1>3 DEF CalleeBase, Bottom
  <1>5. PICK keep \in Nat : keep = caller.how.keep
    BY CalleeIs
  <1>6. PICK d \in Nat : d = bot + keep
    OBVIOUS
  <1>7. PICK dst \in Nat : dst = window.base - 1 /\ window.base = dst + 1 /\ d <= dst /\ dst < NSlots
    <2>1. window.base > bot + keep
      BY <1>4, <1>5, CalleeIs
    <2>2. PICK b \in Nat : b = window.base /\ b < NSlots
      BY WindowIs
    <2>3. b - 1 \in Nat /\ b = (b - 1) + 1 /\ d <= b - 1 /\ b - 1 < NSlots
      BY <2>1, <2>2, <1>6, Sizes
    <2> QED BY <2>2, <2>3
  <1>8. PICK want \in Nat \cup {VARARG} : want = caller.to_return
    BY CalleeIs
  <1>9. PICK rs \in Nat : rs = ResultsOf(k) /\ rs = IF want = VARARG THEN k ELSE want
    BY <1>8 DEF ResultsOf
  <1>10. /\ caller.how.by # "meta" => dst = d /\ caller.how.out = Nil
         /\ caller.how.by = "meta" =>
              \/ want = 1 /\ caller.how.out \in Nat /\ bot <= caller.how.out /\ caller.how.out < d
              \/ want = 0 /\ caller.how.out = Nil
    BY <1>4, <1>5, <1>6, <1>7, <1>8, CalleeIs, SMTT(30)
  <1>11. PICK vals : vals = Slice(stack, window.base, RunEnd)
    OBVIOUS
  <1>12. PICK l \in Nat : l = RunEnd - window.base
    BY <1>2
  <1>13. vals \in Seq(Content) /\ Len(vals) = l /\ k <= l
    <2>1. PICK st \in [Slot -> Content] : st = stack
      BY <1>2
    <2>2. PICK from \in Nat : from = window.base
      BY <1>2
    <2>3. PICK end \in Nat : end = RunEnd
      BY <1>2
    <2>4. from <= end
      BY <1>2, <2>2, <2>3
    <2>5. SliceFacts(Slice(st, from, end), st, from, end)
      BY <2>4, SliceFactsAre, Zenon
    <2> QED BY <2>1, <2>2, <2>3, <2>5, <1>11, <1>12 DEF SliceFacts
  <1>14. PICK m : m = Moved(first, k)
    OBVIOUS
  <1>a. Handed(stack, m, dst, rs, dst, vals, l, k)
    <2>1. dst = window.base - 1 /\ rs = ResultsOf(k)
      BY <1>7, <1>9
    <2> QED BY <2>1, <1>11, <1>12, <1>14, MovedIs
  <1>15. /\ \A s \in Slot : s < dst => m[s] = stack[s]
         /\ \A s \in Slot : dst <= s /\ s < dst + rs =>
              m[s] = IF s - dst < k THEN vals[(l - k) + (s - dst) + 1] ELSE Nil
    <2>1. ASSUME NEW s \in Slot, s < dst PROVE m[s] = stack[s]
      <3>1. ~(dst <= s)
        BY <2>1, Sizes DEF Slot
      <3> QED BY <3>1, <2>1, <1>a DEF Handed
    <2> QED BY <2>1, <1>a DEF Handed
  <1>16. PICK a \in Nat : a = IF caller.how.out # Nil THEN caller.how.out ELSE d
    BY <1>10
  <1>17. bot <= a /\ a <= d
    BY <1>6, <1>10, <1>16
  <1>18. Handed(stack, stack', a, rs, d, vals, l, k)
         /\ RunEnd' = IF a + rs > d THEN a + rs ELSE d
    <2>1. CASE caller.how.by # "meta"
      <3>1. a = d /\ d = dst
        BY <2>1, <1>10, <1>16
      <3>2. stack' = m /\ RunEnd' = d + rs
        BY <2>1, <1>1, <1>4, <1>5, <1>6, <1>9, <1>14
      <3> QED BY <3>1, <3>2, <1>a
    <2>2. CASE caller.how.by = "meta" /\ caller.how.out = Nil
      <3>1. a = d /\ want = 0 /\ rs = 0
        <4>1. want = 0
          <5>1. ~(caller.how.out \in Nat)
            BY <2>2, CallFramesAssumption
          <5> QED BY <5>1, <2>2, <1>10
        <4> QED BY <4>1, <2>2, <1>9, <1>16, Sizes
      <3>2. stack' = m /\ RunEnd' = d
        BY <2>2, <3>1, <1>1, <1>4, <1>5, <1>6, <1>8, <1>14
      <3>3. Handed(stack, m, d, 0, d, vals, l, k)
        <4>1. \A s \in Slot : s < d => s < dst
          BY <1>7, Sizes DEF Slot
        <4>2. \A s \in Slot : ~(d <= s /\ s < d + 0)
          BY Sizes DEF Slot
        <4> QED BY <4>1, <4>2, <1>15 DEF Handed
      <3> QED BY <3>1, <3>2, <3>3
    <2>3. CASE caller.how.by = "meta" /\ caller.how.out # Nil
      <3>1. a = caller.how.out /\ want = 1 /\ rs = 1 /\ a < d
        BY <2>3, <1>9, <1>10, <1>16, Sizes
      <3>2. stack' = [m EXCEPT ![a] = m[dst]] /\ RunEnd' = d
        BY <2>3, <3>1, <1>1, <1>4, <1>5, <1>6, <1>7, <1>8, <1>14
      <3>3. m \in [Slot -> Content] \/ DOMAIN m = Slot
        BY <1>14 DEF Moved
      <3>4. DOMAIN m = Slot
        BY <3>3
      <3>5. dst \in Slot /\ a \in Slot
        BY <3>1, <1>7, Sizes DEF Slot
      <3>6. m[dst] = IF 0 < k THEN vals[(l - k) + 1] ELSE Nil
        <4>1. dst <= dst /\ dst < dst + rs /\ dst - dst = 0
          BY <3>1
        <4>2. m[dst] = IF dst - dst < k THEN vals[(l - k) + (dst - dst) + 1] ELSE Nil
          BY <3>5, <4>1, <1>15
        <4>3. (l - k) + 0 + 1 = (l - k) + 1
          BY <1>13
        <4> QED BY <4>1, <4>2, <4>3
      <3>7. ASSUME NEW s \in Slot, s < d, ~(a <= s /\ s < a + rs) PROVE stack'[s] = stack[s]
        <4>1. s \in Nat /\ s # a /\ s < dst
          BY <3>1, <3>7, <1>7, Sizes DEF Slot
        <4>2. stack'[s] = m[s]
          BY <4>1, <3>2, <3>4
        <4> QED BY <4>1, <4>2, <1>15
      <3>8. ASSUME NEW s \in Slot, a <= s, s < a + rs
            PROVE  stack'[s] = IF s - a < k THEN vals[(l - k) + (s - a) + 1] ELSE Nil
        <4>1. s = a /\ s - a = 0
          BY <3>1, <3>8, Sizes DEF Slot
        <4>2. stack'[s] = m[dst]
          BY <4>1, <3>2, <3>4, <3>5
        <4>3. (l - k) + 0 + 1 = (l - k) + 1
          BY <1>13
        <4> QED BY <4>1, <4>2, <4>3, <3>6
      <3>9. ~(a + rs > d)
        BY <3>1
      <3> QED BY <3>2, <3>7, <3>8, <3>9 DEF Handed
    <2> QED BY <2>1, <2>2, <2>3
  <1>19. GivenBack(Slice(stack', bot, RunEnd'), Slice(stack, bot, d), (a - bot) + 1, want, vals, k)
    <2>1. PICK st \in [Slot -> Content] : st = stack
      BY <1>2
    <2>2. PICK tt \in [Slot -> Content] : tt = stack'
      BY <1>2
    <2>3. PICK x \in Nat : x = RunEnd' /\ x <= NSlots
      BY <1>2, Sizes
    <2>4. PICK into \in Nat : into = (a - bot) + 1
      BY <1>17
    <2>5. x = IF a + rs > d THEN a + rs ELSE d
      BY <2>3, <1>18
    <2>6. Handed(st, tt, a, rs, d, vals, l, k) /\ d <= NSlots /\ rs = (IF want = VARARG THEN k ELSE want)
      BY <2>1, <2>2, <1>7, <1>9, <1>18, Sizes
    <2>7. l = Len(vals) /\ vals \in Seq(Content) /\ k <= l
      BY <1>13
    <2>8. GivenBack(Slice(tt, bot, x), Slice(st, bot, d), into, want, vals, k)
      BY <2>3, <2>4, <2>5, <2>6, <2>7, <1>6, <1>17, HandedIs
    <2> QED BY <2>1, <2>2, <2>3, <2>4, <2>8
  <1>20. Into(frames, n + 1) = (a - bot) + 1
    <2>1. n + 1 # 1 /\ (n + 1) - 1 = n
      BY <1>3
    <2>2. Into(frames, n + 1) = IF caller.how.out # Nil THEN caller.how.out - bot + 1 ELSE keep + 1
      BY <2>1, <1>3, <1>4, <1>5 DEF Into
    <2>3. CASE caller.how.out # Nil
      BY <2>2, <2>3, <1>16
    <2>4. CASE caller.how.out = Nil
      <3>1. a = d /\ (d - bot) + 1 = keep + 1
        BY <2>4, <1>6, <1>16
      <3> QED BY <2>2, <2>4, <3>1
    <2> QED BY <2>3, <2>4
  <1>21. SameBelow(stack, stack', bot)
    <2>1. ASSUME NEW s \in Slot, s + 1 < bot PROVE stack'[s] = stack[s]
      <3>1. s < d /\ ~(a <= s)
        BY <2>1, <1>6, <1>17, Sizes DEF Slot
      <3> QED BY <3>1, <1>18 DEF Handed
    <2> QED BY <2>1 DEF SameBelow
  <1>22. Call!Return(Activations, Activations', vals, k)
    <2>1. PICK fs : fs = frames
      OBVIOUS
    <2>2. PICK st : st = stack
      OBVIOUS
    <2>3. PICK e : e = RunEnd
      OBVIOUS
    <2>4. PICK gs : gs = frames'
      OBVIOUS
    <2>5. PICK tt : tt = stack'
      OBVIOUS
    <2>6. PICK x : x = RunEnd'
      OBVIOUS
    <2>7. PICK f : f = fs[n]
      OBVIOUS
    <2>8. /\ Stacks(fs, st, e, gs, tt, x)
          /\ Activations = ActsOf(fs, st, e) /\ Activations' = ActsOf(gs, tt, x)
      BY <2>1, <2>2, <2>3, <2>4, <2>5, <2>6, StacksNow, ActsNow
    <2>9. /\ n = Len(fs) /\ n > 0 /\ Len(gs) = n - 1 /\ SameCalls(fs, gs, n - 1)
          /\ SameBelow(st, tt, Bottom(fs, n))
      BY <2>1, <2>2, <2>4, <2>5, <1>1, <1>3, <1>4, <1>21
    <2>10. f.how.keep = keep /\ f.to_return = want /\ Bottom(fs, n) = bot
      BY <2>1, <2>7, <1>3, <1>4, <1>5, <1>8
    <2>11. GivenBack(Slice(tt, Bottom(fs, n), x), Slice(st, Bottom(fs, n), Bottom(fs, n) + f.how.keep),
                     Into(fs, n + 1), f.to_return, vals, k)
      BY <2>1, <2>2, <2>5, <2>6, <2>10, <1>6, <1>19, <1>20
    <2>12. Call!Return(ActsOf(fs, st, e), ActsOf(gs, tt, x), vals, k)
      BY <2>7, <2>8, <2>9, <2>11, ReturnActs
    <2> QED BY <2>8, <2>12
  <1>23. Len(Activations') < Len(Activations) /\ k \in 0 .. Len(vals)
    <2>1. Len(Activations') = Len(frames') + 1 /\ Len(Activations) = Len(frames) + 1
      BY StacksNow, ActsNow
    <2> QED BY <2>1, <1>1, <1>3, <1>13
  <1>24. Call!Step(Activations, Activations', vals)
    BY <1>22, <1>23, Zenon DEF Call!Step
  <1> QED BY <1>11, <1>24, StepIsNext

-----------------------------------------------------------------------------
(* Steps *)

LEMMA LuaSteps ==
  ASSUME Good, Good', LuaNext, strays' = {}
  PROVE  Call!Next
  <1>1. ASSUME NEW x \in Value, Load(x) PROVE Call!Next
    <2>1. InLua /\ stack' = [stack EXCEPT ![R(live)] = x] /\ frames' = frames
      BY <1>1 DEF Load
    <2>2. live \in Nat /\ window.base \in Nat
      BY <2>1, RegistersInWindow, WindowIs
    <2>3. ASSUME NEW s \in Slot, s + 1 < window.base PROVE stack'[s] = stack[s]
      <3>1. s # R(live)
        BY <2>2, <2>3, Sizes DEF Slot, R
      <3> QED BY <2>1, <3>1, RunEndIs
    <2> QED BY <2>1, <2>3, SameFramesNext DEF SameBelow
  <1>2. ASSUME NEW n \in Register, Free(n) PROVE Call!Next
    BY <1>2, SameFramesNext DEF Free, SameBelow
  <1>3. ASSUME NEW a \in Register, NEW n_args \in Register \cup {VARARG}, NEW n_rets \in Results,
               OpCall(a, n_args, n_rets)
        PROVE  Call!Next
    <2>1. n_args \in Nat \cup {VARARG}
      BY MaxStackUsed DEF Register
    <2> QED BY <1>3, <2>1, OpCallNext
  <1>4. ASSUME NEW a \in Register, NEW n_vars \in 1 .. MaxResults, OpForIn(a, n_vars)
        PROVE  Call!Next
    BY <1>4, OpForInNext
  <1>5. ASSUME NEW a \in Register, OpSetArray(a) PROVE Call!Next
    BY <1>5, SameFramesNext DEF OpSetArray, SameBelow
  <1>6. ASSUME NEW a \in 0 .. Max(StackUsed), NEW n_rets, OpReturn(a, n_rets) PROVE Call!Next
    <2>1. /\ InLua /\ a <= live /\ (~open => n_rets = live - a)
          /\ vm_call_fini(R(a), IF open THEN window.len ELSE n_rets)
          /\ Misfit = {} /\ ~(open /\ a > 0)
      BY <1>6 DEF OpReturn, Stray
    <2>2. /\ a \in Nat /\ live \in Nat /\ ~InHost /\ window.len \in Nat /\ window.base \in Nat
          /\ top = window.base + window.len
      BY <2>1, MaxStackUsed, RegistersInWindow, WindowIs
    <2>3. PICK k \in Nat : k = IF open THEN window.len ELSE n_rets
      BY <2>1, <2>2
    <2>4. CASE open
      <3>1. a = 0 /\ k = window.len /\ RunEnd = top
        BY <2>1, <2>2, <2>3, <2>4 DEF RunEnd
      <3>2. k <= RunEnd - window.base /\ R(a) = RunEnd - k
        BY <3>1, <2>2 DEF R
      <3> QED BY <3>2, <2>1, <2>2, <2>3, FiniNext
    <2>5. CASE ~open
      <3>1. k = live - a /\ RunEnd = window.base + live
        BY <2>1, <2>3, <2>5 DEF RunEnd, InLua
      <3>2. k <= RunEnd - window.base /\ R(a) = RunEnd - k
        BY <3>1, <2>1, <2>2 DEF R
      <3> QED BY <3>2, <2>1, <2>2, <2>3, FiniNext
    <2> QED BY <2>4, <2>5
  <1>7. ASSUME NEW a \in Register, OpMeta(a) PROVE Call!Next
    <2>1. InLua /\ ~open /\ a < live
      BY <1>7, Zenon DEF OpMeta
    <2>2. /\ a \in Nat /\ live \in Nat /\ live <= caller.len /\ caller.len \in Nat
          /\ caller.len <= window.len /\ window.base + live <= top /\ window.base \in Nat
          /\ top < NSlots /\ window.len \in Nat /\ top \in Nat /\ RunEnd = window.base + live
      BY <2>1, MaxStackUsed, RegistersInWindow, WindowIs DEF Register, Good, Running, RunEnd, InLua
    <2>3. PICK out \in Nat : out = R(a)
      BY <2>2 DEF R
    <2>4. PICK last \in Nat : last = R(live - 1)
      BY <2>1, <2>2 DEF R
    <2>5. /\ window.base <= out /\ out < window.base + live /\ out \in Slot
          /\ window.base <= last /\ last < window.base + live
      BY <2>1, <2>2, <2>3, <2>4, Sizes DEF R, Slot
    <2>6. PICK args : args = <<out, last>>
      OBVIOUS
    <2>7. PICK n \in Nat : n = 2
      OBVIOUS
    <2>8. Metamethod(args, 1, out, live)
      BY <1>7, <2>3, <2>4, <2>6, Zenon DEF OpMeta
    <2>9. Len(args) = n /\ \A i \in 1 .. n : args[i] \in Nat /\ window.base <= args[i] /\ args[i] < RunEnd
      <3>1. Len(args) = 2 /\ args[1] = out /\ args[2] = last
        BY <2>6
      <3>2. \A i \in 1 .. n : i = 1 \/ i = 2
        BY <2>7
      <3> QED BY <3>1, <3>2, <2>2, <2>5, <2>7
    <2>10. live = RunEnd - window.base /\ live <= window.len
      BY <2>2
    <2> QED BY <2>2, <2>5, <2>7, <2>8, <2>9, <2>10, MetaNext
  <1>8. ASSUME NEW a \in Register, OpNewindex(a) PROVE Call!Next
    <2>1. InLua /\ ~open /\ a < live
      BY <1>8, Zenon DEF OpNewindex
    <2>2. /\ a \in Nat /\ live \in Nat /\ live <= caller.len /\ caller.len \in Nat
          /\ caller.len <= window.len /\ window.base \in Nat
          /\ window.len \in Nat /\ RunEnd = window.base + live
      BY <2>1, MaxStackUsed, RegistersInWindow, WindowIs DEF Register, Good, Running, RunEnd, InLua
    <2>3. PICK t \in Nat : t = R(a)
      BY <2>2 DEF R
    <2>4. PICK last \in Nat : last = R(live - 1)
      BY <2>1, <2>2 DEF R
    <2>5. /\ window.base <= t /\ t < window.base + live
          /\ window.base <= last /\ last < window.base + live
      BY <2>1, <2>2, <2>3, <2>4 DEF R
    <2>6. PICK args : args = <<t, last, last>>
      OBVIOUS
    <2>7. PICK n \in Nat : n = 3
      OBVIOUS
    <2>8. Metamethod(args, 0, Nil, live)
      BY <1>8, <2>3, <2>4, <2>6, Zenon DEF OpNewindex
    <2>9. Len(args) = n /\ \A i \in 1 .. n : args[i] \in Nat /\ window.base <= args[i] /\ args[i] < RunEnd
      <3>1. Len(args) = 3 /\ args[1] = t /\ args[2] = last /\ args[3] = last
        BY <2>6
      <3>2. \A i \in 1 .. n : i = 1 \/ i = 2 \/ i = 3
        BY <2>7
      <3> QED BY <3>1, <3>2, <2>2, <2>5, <2>7
    <2>10. live = RunEnd - window.base /\ live <= window.len
      BY <2>2
    <2> QED BY <2>2, <2>7, <2>8, <2>9, <2>10, MetaNext
  <1> QED BY <1>1, <1>2, <1>3, <1>4, <1>5, <1>6, <1>7, <1>8, Zenon DEF LuaNext

LEMMA CSteps ==
  ASSUME Good, Good', CNext, strays' = {}
  PROVE  Call!Next
  <1>a. /\ window.base \in Nat /\ window.len \in Nat /\ top = window.base + window.len
        /\ top < NSlots /\ top \in Nat /\ stack \in [Slot -> Content]
    BY WindowIs, RunEndIs
  <1>1. ASSUME NEW n \in 0 .. StackMin, SetTop(n) PROVE Call!Next
    <2>1. /\ frames' = frames
          /\ stack' = [s \in Slot |-> IF top <= s /\ s < window.base + n THEN Nil ELSE stack[s]]
      BY <1>1 DEF SetTop
    <2>2. ASSUME NEW s \in Slot, s + 1 < window.base PROVE stack'[s] = stack[s]
      <3>1. ~(top <= s)
        BY <1>a, <2>2, Sizes DEF Slot
      <3> QED BY <2>1, <3>1
    <2> QED BY <2>1, <2>2, SameFramesNext DEF SameBelow
  <1>2. ASSUME NEW x \in Value, Push(x) PROVE Call!Next
    <2>1. frames' = frames /\ stack' = [stack EXCEPT ![top] = x]
      BY <1>2 DEF Push
    <2>2. ASSUME NEW s \in Slot, s + 1 < window.base PROVE stack'[s] = stack[s]
      <3>1. s # top
        BY <1>a, <2>2, Sizes DEF Slot
      <3> QED BY <2>1, <3>1, <1>a
    <2> QED BY <2>1, <2>2, SameFramesNext DEF SameBelow
  <1>3. ASSUME NEW n_args \in 0 .. StackMin, NEW n_rets \in Results, NEW protected \in BOOLEAN,
               lulu_call(n_args, n_rets, protected)
        PROVE  Call!Next
    BY <1>3, ApiCallNext
  <1>4. ASSUME NEW f \in Value, NEW x \in Value, lulu_cpcall(f, x) PROVE Call!Next
    BY <1>4, CPCallNext
  <1>5. ASSUME NEW n \in 0 .. StackMin, ReturnC(n) PROVE Call!Next
    <2>1. InC /\ ~InHost /\ n <= window.len /\ Misfit = {}
      BY <1>5 DEF ReturnC
    <2>2. PICK first : first = IF n > 0 THEN top - n ELSE window.base - 1
      OBVIOUS
    <2>3. vm_call_fini(first, n)
      BY <1>5, <2>2 DEF ReturnC
    <2>4. n \in Nat /\ RunEnd = top
      BY <2>1, Sizes DEF RunEnd
    <2>5. n <= RunEnd - window.base /\ (n > 0 => first = RunEnd - n)
      BY <1>a, <2>1, <2>2, <2>4
    <2> QED BY <2>1, <2>3, <2>4, <2>5, FiniNext
  <1>6. ASSUME NEW t \in Slot, lulu_get_table(t) PROVE Call!Next
    <2>1. InC /\ window.len > 0 /\ t \in window.base .. top - 1
      BY <1>6, Zenon DEF lulu_get_table
    <2>2. RunEnd = top /\ t \in Nat /\ ~InLua
      BY <2>1, Sizes DEF RunEnd, InLua, Slot
    <2>3. PICK out \in Nat : out = top - 1
      BY <1>a, <2>1
    <2>4. /\ window.base <= out /\ out < window.base + window.len /\ out \in Slot
          /\ window.base <= t /\ t < window.base + window.len
      BY <1>a, <2>1, <2>2, <2>3, Sizes DEF Slot
    <2>5. PICK args : args = <<t, out>>
      OBVIOUS
    <2>6. PICK n \in Nat : n = 2
      OBVIOUS
    <2>7. PICK keep \in Nat : keep = window.len
      BY <1>a
    <2>8. Metamethod(args, 1, out, keep)
      BY <1>6, <2>3, <2>5, <2>7, Zenon DEF lulu_get_table
    <2>9. Len(args) = n /\ \A i \in 1 .. n : args[i] \in Nat /\ window.base <= args[i] /\ args[i] < RunEnd
      <3>1. Len(args) = 2 /\ args[1] = t /\ args[2] = out
        BY <2>5
      <3>2. \A i \in 1 .. n : i = 1 \/ i = 2
        BY <2>6
      <3> QED BY <3>1, <3>2, <1>a, <2>2, <2>4, <2>6
    <2>10. keep = RunEnd - window.base /\ keep <= window.len
      BY <1>a, <2>2, <2>7
    <2> QED BY <2>2, <2>4, <2>6, <2>7, <2>8, <2>9, <2>10, MetaNext
  <1> QED BY <1>1, <1>2, <1>3, <1>4, <1>5, <1>6, Zenon DEF CNext

\* A step from one good state to the next is one of Calls, or changes nothing of it.
LEMMA StepImplements ==
  ASSUME IInv, IInv', [Next]_vars, strays' = {}
  PROVE  [Call!Next]_Call!vars
  <1>1. CASE Next
    <2>1. Good /\ Good'
      <3>1. strays = {}
        BY <1>1, StraysStay
      <3> QED BY <3>1 DEF IInv
    <2>2. CASE LuaNext
      BY <2>1, <2>2, LuaSteps
    <2>3. CASE CNext
      BY <2>1, <2>3, CSteps
    <2>4. CASE Throw
      <3>1. PICK st : st = stack
        OBVIOUS
      <3>2. st \in [Slot -> Content] /\ SameBelow(stack, st, window.base)
        BY <2>1, <3>1, RunEndIs DEF SameBelow
      <3>3. Handlers # {} /\ Caught(frames[Max(Handlers)].how.catch, st)
        BY <2>4, <3>1 DEF Throw
      <3> QED BY <2>1, <3>2, <3>3, ThrowsNext
    <2> QED BY <1>1, <2>2, <2>3, <2>4 DEF Next
  <1>2. CASE UNCHANGED vars
    <2>1. stack' = stack /\ frames' = frames /\ window' = window /\ live' = live
          /\ open' = open /\ leaked' = leaked
      BY <1>2 DEF vars
    <2>2. Activations' = Activations
      BY <2>1 DEF Activations, HostValues, Activation, Values, Contents, At, top, InC, InHost, caller
    <2> QED BY <2>2 DEF Call!vars
  <1> QED BY <1>1, <1>2

LEMMA InitImplements == Init => Call!Init
  <1> SUFFICES ASSUME Init PROVE Call!Init
    OBVIOUS
  <1>1. frames = <<>> /\ window = [base |-> 0, len |-> 0 - 0] /\ DOMAIN frames = {}
    BY DEF Init, Window
  <1>2. top = 0
    BY <1>1 DEF top
  <1>3. HostValues = <<>>
    BY <1>1, <1>2 DEF HostValues, Contents
  <1>4. [i \in DOMAIN frames |-> Activation(i)] = <<>>
    BY <1>1
  <1>5. Activations = <<[vals |-> <<>>, want |-> 0, into |-> 1, protected |-> Nil]>>
    BY <1>3, <1>4 DEF Activations
  <1> QED BY <1>5 DEF Call!Init

\* As long as no step departed from what call conventions foresee, the frames and
\* windows of vm_call_init, vm_call_fini and vm_pcall behave as the activations of
\* Calls: arguments and results are handed over exactly, a caller keeps its values,
\* and an error unwinds to the caller of the innermost vm_pcall; for stacks, frames
\* and functions of every size.
THEOREM CallFramesImplementCalls == Spec => ImplementsCalls
  <1>1. Init => Call!Init
    BY InitImplements
  <1>2. IInv /\ IInv' /\ [Next]_vars => (strays' = {} => [Call!Next]_Call!vars)
    BY StepImplements
  <1>3. Spec => []IInv
    BY FramesInvariant
  <1> QED BY <1>1, <1>2, <1>3, PTL DEF Spec, ImplementsCalls

=============================================================================

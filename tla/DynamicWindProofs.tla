------------------------- MODULE DynamicWindProofs -------------------------
(***************************************************************************)
(* The stacks of dynamic-wind fit the function stack, for any number of    *)
(* dynamic-winds, continuations, operands and jumps.                       *)
(*                                                                         *)
(* A process is seen as the sequence Now of the instructions control will  *)
(* return to, the one to execute last, and NowIn of the closures they are  *)
(* in.  An action calls (Pushed), goes on (Topped) or returns (Popped).    *)
(* What an invariant says of the live process it says of each continuation *)
(* as well, because calling one makes it the live process.                 *)
(*                                                                         *)
(*   Registers  the entry register belongs to the last before running      *)
(*   Afters     the after stack holds one entry for each "done" in Now     *)
(*   Extents    the wind stack holds one for each "before_after", and      *)
(*              while a wind runs, what it has still to enter and leave    *)
(*              makes up the difference to the continuation's              *)
(*   Bases      the bases of the entries go up along Now, and the last is  *)
(*              within the operand stack                                   *)
(*                                                                         *)
(* Each is inductive given Types, and Bases given Extents as well: where a *)
(* continuation is restored, the wind stack is the one it was captured     *)
(* with only because the trampoline has come to its end (WindEnded).       *)
(***************************************************************************)
EXTENDS DynamicWind, FiniteSetTheorems, SequenceTheorems, TLAPS

-----------------------------------------------------------------------------
(* Types *)

\* The closures, frames and continuations of a process with n entries.
ClosureOf(n) == [role : Role \cup {"main", "callback"}, entry : 0 .. n]

\* The instructions a closure can return to.
Later == {"body", "after_before", "before_after", "done", "wind", "halt"}

\* A frame of the function stack.
FrameOf(n) == [closure : ClosureOf(n), ret : Later]

\* A continuation object.
SavedOf(n) ==
    [closure : ClosureOf(n), fstack : Seq(FrameOf(n)), opstack : Seq(Value),
     dwStack : Seq(1 .. n), afterStack : Seq(1 .. n), entryReg : 0 .. n, thunkReg : 0 .. n]

\* What op_wind has still to do.
PendingOf(n) ==
    [cont : {0} \cup DOMAIN conts, value : Value, afters : Seq(1 .. n), befores : Seq(1 .. n)]

\* The process, as far as it refers to its n entries.
TypesOf(n) ==
    /\ pc \in Later \cup {"failed"}
    /\ closure \in ClosureOf(n) /\ fstack \in Seq(FrameOf(n)) /\ opstack \in Seq(Value)
    /\ dwStack \in Seq(1 .. n) /\ afterStack \in Seq(1 .. n)
    /\ entryReg \in 0 .. n /\ thunkReg \in 0 .. n
    /\ conts \in Seq(SavedOf(n))
    /\ pending \in PendingOf(n)

\* What an entry object holds.
EntryObject == [base : Nat, saved : Value]

\* The entries, and what is bounded.
Counters ==
    /\ entries \in Seq(EntryObject) /\ Len(entries) <= MaxEntries
    /\ windState \in 0 .. 3
    /\ windState # 0 => pending.cont # 0
    /\ jumps \in 0 .. MaxJumps
    /\ forked \in BOOLEAN

\* The type invariant.
Types == TypesOf(Len(entries)) /\ Counters

-----------------------------------------------------------------------------
\* What the front of a sequence, its last element, its tail and its head are.
LEMMA Ends ==
    ASSUME NEW S, NEW s \in Seq(S), s # <<>>
    PROVE  /\ Front(s) \in Seq(S) /\ Len(Front(s)) = Len(s) - 1
           /\ \A i \in 1 .. Len(s) - 1 : Front(s)[i] = s[i]
           /\ Last(s) \in S /\ Last(s) = s[Len(s)] /\ Len(s) \in Nat /\ Len(s) >= 1
           /\ Tail(s) \in Seq(S) /\ Head(s) \in S
<1>1. Len(s) \in Nat /\ Len(s) >= 1
  BY EmptySeq, LenProperties
<1>2. Len(s) - 1 \in Nat /\ 1 .. Len(s) - 1 \subseteq 1 .. Len(s)
  BY <1>1
<1>3. Front(s) = [i \in 1 .. Len(s) - 1 |-> s[i]]
  BY <1>1 DEF Front
<1>4. Front(s) \in Seq(S) /\ Len(Front(s)) = Len(s) - 1
  BY <1>1, <1>2, <1>3
<1> QED  BY <1>1, <1>2, <1>3, <1>4 DEF Last

\* What comes out when a sequence is turned round.
LEMMA Reversed ==
    ASSUME NEW S, NEW s \in Seq(S)
    PROVE  Reverse(s) \in Seq(S) /\ Len(Reverse(s)) = Len(s)
<1>1. Len(s) \in Nat /\ DOMAIN s = 1 .. Len(s)
  OBVIOUS
<1>2. \A i \in 1 .. Len(s) : (Len(s) - i) + 1 \in 1 .. Len(s)
  BY <1>1
<1>3. Reverse(s) \in [1 .. Len(s) -> S]
  BY <1>2, ElementOfSeq DEF Reverse
<1> QED  BY <1>1, <1>3, IsASeq

\* A process with more entries has more of everything.
LEMMA MoreEntries ==
    ASSUME NEW n \in Nat, NEW m \in Nat, n <= m, TypesOf(n)
    PROVE  TypesOf(m)
<1>1. 0 .. n \subseteq 0 .. m /\ 1 .. n \subseteq 1 .. m
  OBVIOUS
<1>2. ClosureOf(n) \subseteq ClosureOf(m)
  BY <1>1 DEF ClosureOf
<1>3. FrameOf(n) \subseteq FrameOf(m)
  BY <1>2 DEF FrameOf
<1>4. Seq(1 .. n) \subseteq Seq(1 .. m) /\ Seq(FrameOf(n)) \subseteq Seq(FrameOf(m))
  BY <1>1, <1>3, SeqMonotonic
<1>5. SavedOf(n) \subseteq SavedOf(m)
  BY <1>1, <1>2, <1>4 DEF SavedOf
<1>6. Seq(SavedOf(n)) \subseteq Seq(SavedOf(m)) /\ PendingOf(n) \subseteq PendingOf(m)
  BY <1>4, <1>5, SeqMonotonic DEF PendingOf
<1> QED  BY <1>1, <1>2, <1>4, <1>6 DEF TypesOf

\* Trimming leaves a stack of values, of the base's length or less.
LEMMA Trims ==
    ASSUME opstack \in Seq(Value), NEW b \in Nat
    PROVE  /\ Trimmed(b) \in Seq(Value) /\ LastPopped(b) \in Value
           /\ Len(Trimmed(b)) = IF Len(opstack) > b THEN b ELSE Len(opstack)
<1>1. CASE Len(opstack) > b
  <2>1. SubSeq(opstack, 1, b) = [i \in 1 .. b |-> opstack[i]]
    BY <1>1
  <2>2. \A i \in 1 .. b : opstack[i] \in Value
    BY <1>1
  <2>3. SubSeq(opstack, 1, b) \in Seq(Value) /\ Len(SubSeq(opstack, 1, b)) = b
    BY <2>1, <2>2
  <2>4. opstack[b + 1] \in Value
    BY <1>1
  <2> QED  BY <1>1, <2>3, <2>4 DEF Trimmed, LastPopped
<1>2. CASE ~(Len(opstack) > b)
  BY <1>2 DEF Trimmed, LastPopped, Value
<1> QED  BY <1>1, <1>2

\* An entry that saves a value stays an entry, with its base.
LEMMA SavedTyped ==
    ASSUME NEW s \in Seq(EntryObject), NEW e \in DOMAIN s, NEW v \in Value
    PROVE  LET t == [s EXCEPT ![e].saved = v]
           IN  /\ t \in Seq(EntryObject) /\ Len(t) = Len(s)
               /\ \A i \in 1 .. Len(s) : t[i].base = s[i].base
<1> DEFINE t == [s EXCEPT ![e].saved = v]
<1>1. Len(s) \in Nat /\ DOMAIN s = 1 .. Len(s)
  BY LenProperties
<1>2. DOMAIN t = 1 .. Len(s)
  BY <1>1
<1>3. ASSUME NEW i \in 1 .. Len(s)
      PROVE  t[i] \in EntryObject /\ t[i].base = s[i].base
  <2>1. PICK o \in EntryObject : o = s[i]
    BY ElementOfSeq
  <2>2. t[i] = IF i = e THEN [o EXCEPT !.saved = v] ELSE o
    BY <1>1, <2>1
  <2> HIDE DEF t
  <2> QED  BY <2>1, <2>2 DEF EntryObject
<1> HIDE DEF t
<1>4. t = [i \in 1 .. Len(s) |-> t[i]]
  BY <1>1, <1>2 DEF t
<1>5. t \in Seq(EntryObject)
  <2>1. [i \in 1 .. Len(s) |-> t[i]] \in Seq(EntryObject)
    BY <1>1, <1>3
  <2> QED  BY <1>4, <2>1
<1>6. Len(t) = Len(s)
  BY <1>1, <1>2, <1>5
<1> QED  BY <1>3, <1>5, <1>6 DEF t

\* The objects of the entries.
LEMMA EntryTyped ==
    ASSUME Counters, NEW e \in 1 .. Len(entries)
    PROVE  entries[e].base \in Nat /\ entries[e].saved \in Value
<1>1. entries[e] \in EntryObject
  BY ElementOfSeq DEF Counters
<1> QED  BY <1>1 DEF EntryObject

\* A closure is called.
LEMMA CallTypes ==
    ASSUME NEW n \in Nat, closure \in ClosureOf(n), fstack \in Seq(FrameOf(n)),
           NEW c \in ClosureOf(n), NEW ret \in Later, Call(c, ret)
    PROVE  pc' \in Later /\ closure' \in ClosureOf(n) /\ fstack' \in Seq(FrameOf(n))
<1>1. [closure |-> closure, ret |-> ret] \in FrameOf(n)
  BY DEF FrameOf
<1> QED  BY <1>1, AppendProperties DEF Call, Later

\* A continuation is restored.
LEMMA RestoreTypes ==
    ASSUME NEW n \in Nat, NEW k \in SavedOf(n), NEW v \in Value, Restore(k, v)
    PROVE  /\ pc' \in Later /\ closure' \in ClosureOf(n) /\ fstack' \in Seq(FrameOf(n))
           /\ opstack' \in Seq(Value) /\ afterStack' \in Seq(1 .. n)
           /\ entryReg' \in 0 .. n /\ thunkReg' \in 0 .. n
BY AppendProperties DEF Restore, SavedOf, Later

\* What two stacks share is as long as their common prefix, ...
LEMMA SharedPrefix ==
    ASSUME NEW S, NEW s \in Seq(S), NEW t \in Seq(S)
    PROVE  /\ CommonPrefix(s, t) \in Nat
           /\ CommonPrefix(s, t) <= Len(s) /\ CommonPrefix(s, t) <= Len(t)
           /\ \A i \in 1 .. CommonPrefix(s, t) : s[i] = t[i]
<1> DEFINE P == CommonPrefixes({s, t})
           T == {d \in Nat : \E p \in P : d = Len(s) - Len(p)}
<1>1. ASSUME NEW p \in P
      PROVE  /\ Len(p) \in Nat /\ Len(p) <= Len(s) /\ Len(p) <= Len(t)
             /\ \A i \in 1 .. Len(p) : s[i] = t[i]
  <2>1. IsPrefix(p, s) /\ IsPrefix(p, t)
    BY DEF CommonPrefixes
  <2>2. Len(p) <= Len(s) /\ Len(p) <= Len(t) /\ SubSeq(s, 1, Len(p)) = SubSeq(t, 1, Len(p))
    BY <2>1 DEF IsPrefix
  <2>3. Len(p) \in Nat
    <3>1. p \in Prefixes(s) \cup Prefixes(t)
      BY DEF CommonPrefixes
    <3> QED  BY <3>1, SubSeqProperties DEF Prefixes
  <2>4. ASSUME NEW i \in 1 .. Len(p)
        PROVE  s[i] = t[i]
    <3>1. SubSeq(s, 1, Len(p))[i] = s[i] /\ SubSeq(t, 1, Len(p))[i] = t[i]
      BY <2>2, <2>3
    <3> QED  BY <2>2, <3>1
  <2> QED  BY <2>2, <2>3, <2>4
<1>2. <<>> \in P
  BY DEF CommonPrefixes, Prefixes, IsPrefix
<1>3. \E p \in P : \A q \in P : Len(q) <= Len(p)
  <2>1. Len(s) \in T /\ T \in SUBSET Nat
    BY <1>2
  <2>2. PICK d \in T : \A x \in T : ~(x < d)
    <3>1. PICK d \in T : \A y \in T : ~(<<y, d>> \in OpToRel(<, Nat))
      BY <2>1, NatLessThanWellFounded, WFMin
    <3>2. \A y \in T : ~(y < d)
      BY <2>1, <3>1 DEF OpToRel
    <3> QED  BY <3>2, Zenon
  <2>3. PICK p \in P : d = Len(s) - Len(p)
    BY <2>2
  <2>4. ASSUME NEW q \in P
        PROVE  Len(q) <= Len(p)
    <3>1. Len(q) \in Nat /\ Len(q) <= Len(s) /\ Len(p) \in Nat /\ Len(p) <= Len(s)
      BY <1>1
    <3>2. Len(s) - Len(q) \in T /\ Len(s) \in Nat
      BY <3>1
    <3>3. ~(Len(s) - Len(q) < Len(s) - Len(p))
      BY <2>2, <2>3, <3>2
    <3> QED  BY <3>1, <3>2, <3>3
  <2> QED  BY <2>4
<1>4. LongestCommonPrefix({s, t}) \in P
  BY <1>3, Zenon DEF LongestCommonPrefix
<1> HIDE DEF P
<1> QED  BY <1>1, <1>4 DEF CommonPrefix

\* The closures of a dynamic-wind.
LEMMA Closures ==
    ASSUME NEW n \in Nat
    PROVE  /\ Main \in ClosureOf(n) /\ Callback \in ClosureOf(n)
           /\ \A e \in 1 .. n : {Before(e), Thunk(e), After(e)} \subseteq ClosureOf(n)
BY DEF ClosureOf, Main, Callback, Before, Thunk, After, Role

\* What a program does in a closure keeps the types, ...
LEMMA UserTypes ==
    ASSUME NEW n \in Nat, TypesOf(n), Counters, Len(entries) <= n,
           NEW m \in Nat, n <= m, Len(entries') <= m, User
    PROVE  TypesOf(m)' /\ Counters'
<1>0. TypesOf(m)
  BY MoreEntries
<1> USE DEF stackVars, windVars, countVars
<1>1. CASE \E v \in Values : Push(v)
  BY <1>0, <1>1, AppendProperties DEF Push, TypesOf, Counters, Value, PendingOf
<1>2. CASE Return
  <2>1. CASE fstack = <<>>
    BY <1>0, <1>2, <2>1 DEF Return, TypesOf, Counters, PendingOf, Later
  <2>2. CASE fstack # <<>>
    <3>1. Last(fstack) \in FrameOf(m) /\ Front(fstack) \in Seq(FrameOf(m))
      BY <1>0, <2>2, Ends DEF TypesOf
    <3>2. Last(fstack).ret \in Later /\ Last(fstack).closure \in ClosureOf(m)
      BY <3>1 DEF FrameOf
    <3> QED  BY <1>0, <1>2, <2>2, <3>1, <3>2 DEF Return, TypesOf, Counters, PendingOf
  <2> QED  BY <2>1, <2>2
<1>3. CASE DynamicWind
  <2>1. PICK e \in 1 .. m : e = Len(entries) + 1
    <3>1. Len(entries) \in Nat /\ Len(entries') = Len(entries) + 1
      BY <1>3, AppendProperties DEF DynamicWind, Counters
    <3> QED  BY <3>1
  <2>2. /\ entries' = Append(entries, [base |-> Len(opstack), saved |-> Undefined])
        /\ entryReg' = e /\ thunkReg' = e /\ Call(Before(e), "after_before")
        /\ UNCHANGED <<opstack, dwStack, afterStack, conts, windVars, countVars>>
        /\ Len(entries) < MaxEntries
    BY <1>3, <2>1 DEF DynamicWind
  <2>3. Before(e) \in ClosureOf(m) /\ "after_before" \in Later
    BY Closures DEF Later
  <2>4. pc' \in Later /\ closure' \in ClosureOf(m) /\ fstack' \in Seq(FrameOf(m))
    BY <1>0, <2>2, <2>3, CallTypes DEF TypesOf
  <2>5. e \in 0 .. m
    OBVIOUS
  <2>6. [base |-> Len(opstack), saved |-> Undefined] \in EntryObject
    BY <1>0 DEF TypesOf, Value, EntryObject
  <2>7. entries' \in Seq(EntryObject) /\ Len(entries') <= MaxEntries
    BY <2>2, <2>6, AppendProperties, BoundsAssumption DEF Counters
  <2> QED  BY <1>0, <2>2, <2>4, <2>5, <2>7 DEF TypesOf, Counters, PendingOf
<1>4. CASE Capture
  <2> DEFINE k == [closure |-> closure, fstack |-> fstack, opstack |-> opstack,
                   dwStack |-> dwStack, afterStack |-> afterStack,
                   entryReg |-> entryReg, thunkReg |-> thunkReg]
  <2>1. k \in SavedOf(m)
    BY <1>0 DEF SavedOf, TypesOf
  <2>2. conts' = Append(conts, k)
    BY <1>4 DEF Capture
  <2> HIDE DEF k
  <2>3. conts' \in Seq(SavedOf(m)) /\ DOMAIN conts \subseteq DOMAIN conts'
    BY <1>0, <2>1, <2>2, AppendProperties DEF TypesOf
  <2> QED  BY <1>0, <1>4, <2>3 DEF Capture, TypesOf, Counters, PendingOf
<1>5. CASE \E i \in DOMAIN conts, v \in Values : CallContinuation(i, v)
  <2>1. PICK i \in DOMAIN conts, v \in Values : CallContinuation(i, v)
    BY <1>5
  <2>2. conts[i] \in SavedOf(m) /\ v \in Value
    BY <1>0 DEF TypesOf, Value
  <2>3. /\ UNCHANGED <<entries, dwStack, conts, forked>>
        /\ jumps < MaxJumps /\ jumps' = jumps + 1
    BY <2>1 DEF CallContinuation
  <2>4. jumps' \in 0 .. MaxJumps
    BY <2>3, BoundsAssumption DEF Counters
  <2>5. CASE Restore(conts[i], v) /\ UNCHANGED windVars
    <3>1. /\ pc' \in Later /\ closure' \in ClosureOf(m) /\ fstack' \in Seq(FrameOf(m))
          /\ opstack' \in Seq(Value) /\ afterStack' \in Seq(1 .. m)
          /\ entryReg' \in 0 .. m /\ thunkReg' \in 0 .. m
      BY <2>2, <2>5, RestoreTypes
    <3> QED  BY <1>0, <2>3, <2>4, <2>5, <3>1 DEF TypesOf, Counters, PendingOf
  <2>6. CASE \E n0 \in Nat : StartWind(Adjustment(i, v, n0))
    <3>1. PICK c \in Nat : StartWind(Adjustment(i, v, c))
      BY <2>6
    <3>2. SubSeq(dwStack, c + 1, Len(dwStack)) \in Seq(1 .. m)
      BY <1>0, SubSeqProperties DEF TypesOf
    <3>3. Reverse(SubSeq(dwStack, c + 1, Len(dwStack))) \in Seq(1 .. m)
      BY <3>2, Reversed
    <3>4. SubSeq(conts[i].dwStack, c + 1, Len(conts[i].dwStack)) \in Seq(1 .. m)
      BY <2>2, SubSeqProperties DEF SavedOf
    <3>5. Adjustment(i, v, c) \in PendingOf(m) /\ Adjustment(i, v, c).cont # 0
      BY <1>0, <2>2, <3>3, <3>4 DEF Adjustment, PendingOf, TypesOf
    <3>6. [closure |-> closure, ret |-> "body"] \in FrameOf(m)
      BY <1>0 DEF FrameOf, TypesOf, Later
    <3>7. fstack' \in Seq(FrameOf(m))
      <4>1. Append(fstack, [closure |-> closure, ret |-> "body"]) \in Seq(FrameOf(m))
        BY <1>0, <3>6, AppendProperties DEF TypesOf
      <4> QED  BY <1>0, <3>1, <4>1 DEF StartWind, TypesOf
    <3> QED  BY <1>0, <2>3, <2>4, <3>1, <3>5, <3>7 DEF StartWind, TypesOf, Counters, PendingOf, Later
  <2>7. CommonPrefix(dwStack, conts[i].dwStack) \in Nat
    BY <1>0, <2>2, SharedPrefix DEF TypesOf, SavedOf
  <2> QED  BY <2>1, <2>5, <2>6, <2>7 DEF CallContinuation
<1>6. CASE Fork
  <2>1. conts' = [i \in DOMAIN conts |->
                   [conts[i] EXCEPT !.afterStack = <<>>, !.entryReg = 0, !.thunkReg = 0]]
    BY <1>6 DEF Fork
  <2>2. \A i \in DOMAIN conts :
          [conts[i] EXCEPT !.afterStack = <<>>, !.entryReg = 0, !.thunkReg = 0] \in SavedOf(m)
    <3>1. \A i \in DOMAIN conts : conts[i] \in SavedOf(m)
      BY <1>0 DEF TypesOf
    <3>2. ASSUME NEW k \in SavedOf(m)
          PROVE  [k EXCEPT !.afterStack = <<>>, !.entryReg = 0, !.thunkReg = 0] \in SavedOf(m)
      <4>1. <<>> \in Seq(1 .. m) /\ 0 \in 0 .. m
        BY EmptySeq
      <4>2. PICK none : none = <<>>
        OBVIOUS
      <4>3. [k EXCEPT !.afterStack = none, !.entryReg = 0, !.thunkReg = 0] \in SavedOf(m)
        BY <4>1, <4>2 DEF SavedOf
      <4> QED  BY <4>2, <4>3
    <3> QED  BY <3>1, <3>2, Zenon
  <2>3. conts' \in Seq(SavedOf(m)) /\ DOMAIN conts' = DOMAIN conts
    <3>1. DOMAIN conts = 1 .. Len(conts) /\ Len(conts) \in Nat
      BY <1>0 DEF TypesOf
    <3>2. conts' \in [1 .. Len(conts) -> SavedOf(m)]
      BY <2>1, <2>2, <3>1
    <3> QED  BY <3>1, <3>2, IsASeq
  <2>4. NoPending \in PendingOf(m)
    BY EmptySeq DEF NoPending, PendingOf, Value
  <2>5. jumps' \in 0 .. MaxJumps
    <3>1. jumps < MaxJumps /\ jumps' = jumps + 1
      BY <1>6 DEF Fork
    <3> QED  BY <3>1, BoundsAssumption DEF Counters
  <2>6. Counters'
    <3>1. windState' = 0 /\ forked' = TRUE /\ UNCHANGED entries
      BY <1>6 DEF Fork
    <3> QED  BY <2>5, <3>1 DEF Counters
  <2>7. pending' \in PendingOf(m)'
    BY <1>6, <2>3, <2>4 DEF Fork, PendingOf
  <2>8. /\ UNCHANGED <<pc, closure, fstack, opstack, dwStack, afterStack>>
        /\ entryReg' = 0 /\ thunkReg' = 0
    BY <1>6 DEF Fork
  <2> QED  BY <1>0, <2>3, <2>6, <2>7, <2>8 DEF TypesOf
<1> QED  BY <1>1, <1>2, <1>3, <1>4, <1>5, <1>6 DEF User

\* ... a timer callback does, ...
LEMMA TimerTypes ==
    ASSUME NEW n \in Nat, TypesOf(n), Counters, TimerCallback
    PROVE  TypesOf(n)' /\ Counters'
<1> USE DEF stackVars, windVars
<1>1. pc \in Later
  BY DEF TypesOf, TimerCallback
<1>2. pc' \in Later /\ closure' \in ClosureOf(n) /\ fstack' \in Seq(FrameOf(n))
  BY <1>1, CallTypes, Closures DEF TypesOf, TimerCallback
<1>3. jumps' \in 0 .. MaxJumps
  <2>1. jumps < MaxJumps /\ jumps' = jumps + 1
    BY DEF TimerCallback
  <2> QED  BY <2>1, BoundsAssumption DEF Counters
<1> QED  BY <1>2, <1>3 DEF TimerCallback, TypesOf, Counters, PendingOf

\* ... and the instructions of dynamic-wind and the trampoline do.
LEMMA InstructionTypes ==
    ASSUME NEW n \in Nat, TypesOf(n), Counters, Len(entries) = n, Instruction
    PROVE  TypesOf(n)' /\ Counters' /\ Len(entries') = n
<1> USE DEF stackVars, windVars, countVars
<1>1. CASE AfterBefore
  <2>1. CASE entryReg = 0
    BY <1>1, <2>1 DEF AfterBefore, Fail, TypesOf, Counters, PendingOf
  <2>2. CASE entryReg # 0
    <3>1. entryReg \in 1 .. n /\ entries[entryReg].base \in Nat
      BY <2>2, EntryTyped DEF TypesOf
    <3>2. opstack' \in Seq(Value)
      BY <1>1, <2>2, <3>1, Trims DEF AfterBefore, TypesOf
    <3>3. dwStack' \in Seq(1 .. n)
      <4>1. dwStack' = Append(dwStack, entryReg)
        BY <1>1, <2>2 DEF AfterBefore
      <4> QED  BY <3>1, <4>1, AppendProperties DEF TypesOf
    <3>4. pc' \in Later \cup {"failed"} /\ closure' \in ClosureOf(n) /\ fstack' \in Seq(FrameOf(n))
      <4>1. CASE thunkReg = 0
        BY <1>1, <2>2, <4>1 DEF AfterBefore, Fail, TypesOf
      <4>2. CASE thunkReg # 0
        <5>1. Thunk(thunkReg) \in ClosureOf(n) /\ "before_after" \in Later
          BY <4>2, Closures DEF TypesOf, Later
        <5>2. Call(Thunk(thunkReg), "before_after")
          BY <1>1, <2>2, <4>2 DEF AfterBefore
        <5> QED  BY <5>1, <5>2, CallTypes DEF TypesOf
      <4> QED  BY <4>1, <4>2
    <3>5. entryReg' = 0
      BY <1>1, <2>2 DEF AfterBefore
    <3> QED  BY <1>1, <3>2, <3>3, <3>4, <3>5 DEF AfterBefore, TypesOf, Counters, PendingOf
  <2> QED  BY <2>1, <2>2
<1>2. CASE BeforeAfter
  <2>1. CASE dwStack = <<>>
    BY <1>2, <2>1 DEF BeforeAfter, Fail, TypesOf, Counters, PendingOf
  <2>2. CASE dwStack # <<>>
    <3>1. PICK e \in 1 .. n : e = Last(dwStack)
      BY <2>2, Ends DEF TypesOf
    <3>2. PICK b \in Nat : b = entries[e].base
      BY EntryTyped
    <3>3. /\ dwStack' = Front(dwStack) /\ opstack' = Trimmed(b)
          /\ entries' = [entries EXCEPT ![e].saved = LastPopped(b)]
          /\ afterStack' = Append(afterStack, e) /\ thunkReg' = 0
          /\ Call(After(e), "done")
          /\ UNCHANGED <<entryReg, conts, windVars, countVars>>
      BY <1>2, <2>2, <3>1, <3>2, Zenon DEF BeforeAfter
    <3>4. pc' \in Later /\ closure' \in ClosureOf(n) /\ fstack' \in Seq(FrameOf(n))
      <4>1. After(e) \in ClosureOf(n) /\ "done" \in Later
        BY Closures DEF Later
      <4> QED  BY <3>3, <4>1, CallTypes DEF TypesOf
    <3>5. dwStack' \in Seq(1 .. n) /\ afterStack' \in Seq(1 .. n)
      BY <2>2, <3>3, Ends, AppendProperties DEF TypesOf
    <3>6. opstack' \in Seq(Value) /\ LastPopped(b) \in Value
      BY <3>3, Trims DEF TypesOf
    <3>7. entries' \in Seq(EntryObject) /\ Len(entries') = Len(entries)
      <4>1. entries \in Seq(EntryObject) /\ e \in DOMAIN entries
        BY DEF Counters
      <4> QED  BY <3>3, <3>6, <4>1, SavedTyped
    <3>8. 0 \in 0 .. n
      OBVIOUS
    <3>9. TypesOf(n)'
      BY <3>3, <3>4, <3>5, <3>6, <3>8 DEF TypesOf, PendingOf
    <3> QED  BY <3>3, <3>7, <3>9 DEF Counters
  <2> QED  BY <2>1, <2>2
<1>3. CASE Done
  <2>1. CASE afterStack = <<>>
    BY <1>3, <2>1 DEF Done, Fail, TypesOf, Counters, PendingOf
  <2>2. CASE afterStack # <<>>
    <3>1. PICK e \in 1 .. n : e = Last(afterStack)
      BY <2>2, Ends DEF TypesOf
    <3>2. entries[e].base \in Nat /\ entries[e].saved \in Value
      BY EntryTyped
    <3>3. opstack' \in Seq(Value) /\ afterStack' \in Seq(1 .. n)
      <4>1. /\ opstack' = Append(Trimmed(entries[e].base), entries[e].saved)
            /\ afterStack' = Front(afterStack)
        BY <1>3, <2>2, <3>1 DEF Done
      <4>2. Trimmed(entries[e].base) \in Seq(Value)
        BY <3>2, Trims DEF TypesOf
      <4> QED  BY <2>2, <3>2, <4>1, <4>2, Ends, AppendProperties DEF TypesOf
    <3> QED  BY <1>3, <2>2, <3>3 DEF Done, TypesOf, Counters, PendingOf, Later
  <2> QED  BY <2>1, <2>2
<1>4. CASE WindAfter
  <2>1. PICK e \in 1 .. n : e = Last(pending.afters)
    BY <1>4, Ends DEF WindAfter, TypesOf, PendingOf
  <2>2. Front(pending.afters) \in Seq(1 .. n)
    BY <1>4, Ends DEF WindAfter, TypesOf, PendingOf
  <2>3. pending' = [pending EXCEPT !.afters = Front(@)] /\ UNCHANGED conts
    BY <1>4 DEF WindAfter
  <2>4. pending' \in PendingOf(n)' /\ pending'.cont = pending.cont
    BY <2>2, <2>3 DEF TypesOf, PendingOf
  <2>5. /\ dwStack' \in Seq(1 .. n)
        /\ pc' \in Later \cup {"failed"} /\ closure' \in ClosureOf(n) /\ fstack' \in Seq(FrameOf(n))
    <3>1. CASE dwStack = <<>> \/ Last(dwStack) # e
      BY <1>4, <2>1, <3>1 DEF WindAfter, Fail, TypesOf
    <3>2. CASE ~(dwStack = <<>> \/ Last(dwStack) # e)
      <4>1. dwStack' = Front(dwStack) /\ Call(After(e), "wind")
        BY <1>4, <2>1, <3>2 DEF WindAfter
      <4>2. After(e) \in ClosureOf(n) /\ "wind" \in Later
        BY Closures DEF Later
      <4> QED  BY <3>2, <4>1, <4>2, CallTypes, Ends DEF TypesOf
    <3> QED  BY <3>1, <3>2
  <2> QED  BY <1>4, <2>4, <2>5 DEF WindAfter, TypesOf, Counters
<1>5. CASE WindBefore
  <2>1. PICK e \in 1 .. n : e = Head(pending.befores)
    BY <1>5, Ends DEF WindBefore, TypesOf, PendingOf
  <2>2. Tail(pending.befores) \in Seq(1 .. n)
    BY <1>5, Ends DEF WindBefore, TypesOf, PendingOf
  <2>3. /\ pending' = [pending EXCEPT !.befores = Tail(@)] /\ UNCHANGED conts
        /\ dwStack' = Append(dwStack, e) /\ Call(Before(e), "wind")
    BY <1>5, <2>1 DEF WindBefore
  <2>4. pending' \in PendingOf(n)' /\ pending'.cont = pending.cont
    BY <2>2, <2>3 DEF TypesOf, PendingOf
  <2>5. dwStack' \in Seq(1 .. n)
    BY <2>3, AppendProperties DEF TypesOf
  <2>6. pc' \in Later /\ closure' \in ClosureOf(n) /\ fstack' \in Seq(FrameOf(n))
    <3>1. Before(e) \in ClosureOf(n) /\ "wind" \in Later
      BY Closures DEF Later
    <3> QED  BY <2>3, <3>1, CallTypes DEF TypesOf
  <2> QED  BY <1>5, <2>4, <2>5, <2>6 DEF WindBefore, TypesOf, Counters
<1>6. CASE WindNext
  <2>1. windState' \in 0 .. 3 /\ (windState' # 0 => windState # 0)
    <3>1. windState' = windState + 1 /\ windState \in {1, 2}
      BY <1>6 DEF WindNext
    <3> QED  BY <3>1
  <2> QED  BY <1>6, <2>1 DEF WindNext, TypesOf, Counters, PendingOf
<1>7. CASE WindRestore
  <2>1. pending.cont \in DOMAIN conts /\ pending.value \in Value
    BY <1>7 DEF WindRestore, TypesOf, Counters, PendingOf
  <2>2. conts[pending.cont] \in SavedOf(n)
    BY <2>1 DEF TypesOf
  <2>3. /\ Restore(conts[pending.cont], pending.value)
        /\ windState' = 0 /\ pending' = NoPending
        /\ UNCHANGED <<entries, dwStack, conts, countVars>>
    BY <1>7 DEF WindRestore
  <2>4. /\ pc' \in Later /\ closure' \in ClosureOf(n) /\ fstack' \in Seq(FrameOf(n))
        /\ opstack' \in Seq(Value) /\ afterStack' \in Seq(1 .. n)
        /\ entryReg' \in 0 .. n /\ thunkReg' \in 0 .. n
    BY <2>1, <2>2, <2>3, RestoreTypes
  <2>5. NoPending \in PendingOf(n)
    BY EmptySeq DEF NoPending, PendingOf, Value
  <2>6. pending' \in PendingOf(n)'
    BY <2>3, <2>5 DEF PendingOf
  <2>7. TypesOf(n)'
    BY <2>3, <2>4, <2>6 DEF TypesOf
  <2> QED  BY <2>3, <2>7 DEF Counters
<1>8. CASE WindIllegal
  BY <1>8 DEF WindIllegal, Fail, TypesOf, Counters, PendingOf
<1> QED  BY <1>1, <1>2, <1>3, <1>4, <1>5, <1>6, <1>7, <1>8 DEF Instruction

\* The types are an invariant by themselves.
LEMMA NextTypes == Types /\ [Next]_vars => Types'
<1> SUFFICES ASSUME Types, [Next]_vars PROVE Types'
  OBVIOUS
<1>1. PICK n \in Nat : n = Len(entries)
  BY DEF Types, Counters
<1>2. TypesOf(n) /\ Counters
  BY <1>1 DEF Types
<1>3. CASE UNCHANGED vars
  BY <1>3 DEF Types, TypesOf, Counters, PendingOf, vars, stackVars, windVars, countVars
<1>4. CASE User
  <2>1. PICK m \in Nat : m = Len(entries') /\ n <= m
    <3>1. entries' = entries \/ entries' = Append(entries, [base |-> Len(opstack), saved |-> Undefined])
      BY <1>4 DEF User, Push, Return, DynamicWind, Capture, CallContinuation, Fork, stackVars
    <3>2. Len(entries') \in Nat /\ Len(entries) <= Len(entries')
      BY <1>1, <3>1, AppendProperties DEF Types, Counters
    <3> QED  BY <1>1, <3>2
  <2>2. TypesOf(m)' /\ Counters'
    BY <1>1, <1>2, <1>4, <2>1, UserTypes
  <2> QED  BY <2>1, <2>2 DEF Types
<1>5. CASE TimerCallback
  <2>1. TypesOf(n)' /\ Counters' /\ UNCHANGED entries
    BY <1>2, <1>5, TimerTypes DEF TimerCallback, stackVars
  <2> QED  BY <1>1, <2>1 DEF Types
<1>6. CASE Instruction
  <2>1. TypesOf(n)' /\ Counters' /\ Len(entries') = n
    BY <1>1, <1>2, <1>6, InstructionTypes
  <2> QED  BY <2>1 DEF Types
<1> QED  BY <1>3, <1>4, <1>5, <1>6 DEF Next

-----------------------------------------------------------------------------
(* What control has still to do *)

\* The instructions control will return to, and last the one to execute, ...
Todo(stack, i) == [k \in 1 .. Len(stack) + 1 |-> IF k <= Len(stack) THEN stack[k].ret ELSE i]

\* ... and the closures they are in.
In(stack, c) == [k \in 1 .. Len(stack) + 1 |-> IF k <= Len(stack) THEN stack[k].closure ELSE c]

\* How many of the first i are x.
Count(T, x, i) == Cardinality({k \in 1 .. i : T[k] = x})

\* T up to its last, which is now r, and then q: a call.
Pushed(T, T2, r, q) ==
    /\ Len(T2) = Len(T) + 1
    /\ T2[Len(T)] = r /\ T2[Len(T) + 1] = q
    /\ \A k \in 1 .. Len(T) - 1 : T2[k] = T[k]

\* T with q for its last.
Topped(T, T2, q) ==
    /\ Len(T2) = Len(T)
    /\ T2[Len(T)] = q
    /\ \A k \in 1 .. Len(T) - 1 : T2[k] = T[k]

\* T without its last: a return.
Popped(T, T2) ==
    /\ Len(T) > 1 /\ Len(T2) = Len(T) - 1
    /\ \A k \in 1 .. Len(T) - 1 : T2[k] = T[k]

\* C with c after its last.
Opened(C, C2, c) ==
    /\ Len(C2) = Len(C) + 1
    /\ C2[Len(C) + 1] = c
    /\ \A k \in 1 .. Len(C) : C2[k] = C[k]

-----------------------------------------------------------------------------
\* A count is a number, ...
LEMMA CountNat ==
    ASSUME NEW T, NEW x, NEW i \in Nat
    PROVE  IsFiniteSet({k \in 1 .. i : T[k] = x}) /\ Count(T, x, i) \in Nat
<1>1. IsFiniteSet(1 .. i) /\ {k \in 1 .. i : T[k] = x} \in SUBSET (1 .. i)
  BY FS_Interval
<1>2. IsFiniteSet({k \in 1 .. i : T[k] = x})
  BY <1>1, FS_Subset
<1> QED  BY <1>2, FS_CardinalityType DEF Count

\* ... that goes up by one where there is an x, ...
LEMMA CountNext ==
    ASSUME NEW T, NEW x, NEW i \in Nat
    PROVE  /\ Count(T, x, 0) = 0
           /\ T[i + 1] = x => Count(T, x, i + 1) = Count(T, x, i) + 1
           /\ T[i + 1] # x => Count(T, x, i + 1) = Count(T, x, i)
<1> DEFINE S(j) == {k \in 1 .. j : T[k] = x}
<1>1. S(0) = {}
  OBVIOUS
<1>2. CASE T[i + 1] = x
  <2>1. S(i + 1) = S(i) \cup {i + 1} /\ i + 1 \notin S(i)
    BY <1>2
  <2>2. IsFiniteSet(S(i))
    BY CountNat
  <2>3. Cardinality(S(i + 1)) = Cardinality(S(i)) + 1
    BY <2>1, <2>2, FS_AddElement
  <2> QED  BY <1>1, <1>2, <2>3, FS_EmptySet DEF Count
<1>3. CASE T[i + 1] # x
  <2>1. S(i + 1) = S(i)
    BY <1>3
  <2> QED  BY <1>1, <1>3, <2>1, FS_EmptySet DEF Count
<1> QED  BY <1>2, <1>3

\* ... never down, ...
LEMMA CountGrows ==
    ASSUME NEW T, NEW x, NEW i \in Nat, NEW j \in Nat, i <= j
    PROVE  /\ Count(T, x, i) <= Count(T, x, j)
           /\ i < j /\ T[j] = x => Count(T, x, i) < Count(T, x, j)
<1>1. ASSUME NEW k \in Nat, i <= k
      PROVE  Count(T, x, i) <= Count(T, x, k)
  <2>1. {l \in 1 .. i : T[l] = x} \in SUBSET {l \in 1 .. k : T[l] = x}
    BY <1>1
  <2>2. IsFiniteSet({l \in 1 .. k : T[l] = x})
    BY CountNat
  <2> QED  BY <2>1, <2>2, FS_Subset DEF Count
<1>2. ASSUME i < j, T[j] = x
      PROVE  Count(T, x, i) < Count(T, x, j)
  <2>1. j - 1 \in Nat /\ i <= j - 1 /\ (j - 1) + 1 = j
    BY <1>2
  <2>2. Count(T, x, j) = Count(T, x, j - 1) + 1
    BY <1>2, <2>1, CountNext
  <2>3. Count(T, x, i) <= Count(T, x, j - 1)
    BY <1>1, <2>1
  <2>4. Count(T, x, i) \in Nat /\ Count(T, x, j - 1) \in Nat
    BY <2>1, CountNat
  <2> QED  BY <2>2, <2>3, <2>4
<1> QED  BY <1>1, <1>2

\* ... and depends on nothing further on.
LEMMA CountSame ==
    ASSUME NEW T, NEW T2, NEW x, NEW i \in Nat, \A k \in 1 .. i : T2[k] = T[k]
    PROVE  Count(T2, x, i) = Count(T, x, i)
<1>1. {k \in 1 .. i : T2[k] = x} = {k \in 1 .. i : T[k] = x}
  OBVIOUS
<1> QED  BY <1>1 DEF Count

\* T2 is T up to the n-th, which is r.
Counted(T, T2, r, x, n) ==
    /\ \A i \in 0 .. n - 1 : Count(T2, x, i) = Count(T, x, i)
    /\ r = x => Count(T2, x, n) = Count(T, x, n - 1) + 1
    /\ r # x => Count(T2, x, n) = Count(T, x, n - 1)
    /\ T[n] = x => Count(T, x, n) = Count(T, x, n - 1) + 1
    /\ T[n] # x => Count(T, x, n) = Count(T, x, n - 1)
    /\ Count(T, x, n - 1) \in Nat

\* The counts of T2, which is a call away from T, ...
LEMMA CountPushed ==
    ASSUME NEW T, NEW T2, NEW r, NEW q, NEW x, NEW n \in Nat \ {0}, n = Len(T),
           Pushed(T, T2, r, q), q # x
    PROVE  Counted(T, T2, r, x, n) /\ Count(T2, x, n + 1) = Count(T2, x, n)
<1>1. n = Len(T)
  OBVIOUS
<1>2. ASSUME NEW i \in 0 .. n - 1
      PROVE  Count(T2, x, i) = Count(T, x, i)
  <2>1. i \in Nat /\ \A k \in 1 .. i : T2[k] = T[k]
    BY <1>1 DEF Pushed
  <2> QED  BY <2>1, CountSame
<1>3. n - 1 \in Nat /\ (n - 1) + 1 = n /\ n - 1 \in 0 .. n - 1
  OBVIOUS
<1>4. Count(T2, x, n + 1) = Count(T2, x, n)
  BY <1>1, CountNext DEF Pushed
<1>5. Count(T2, x, n) = IF r = x THEN Count(T2, x, n - 1) + 1 ELSE Count(T2, x, n - 1)
  BY <1>1, <1>3, CountNext DEF Pushed
<1>6. Count(T, x, n) = IF T[n] = x THEN Count(T, x, n - 1) + 1 ELSE Count(T, x, n - 1)
  BY <1>3, CountNext
<1>7. Count(T, x, n - 1) \in Nat
  BY <1>3, CountNat
<1> QED  BY <1>1, <1>2, <1>3, <1>4, <1>5, <1>6, <1>7 DEF Pushed, Counted

\* ... or has another last, ...
LEMMA CountTopped ==
    ASSUME NEW T, NEW T2, NEW q, NEW x, NEW n \in Nat \ {0}, n = Len(T), Topped(T, T2, q)
    PROVE  Counted(T, T2, q, x, n)
<1>1. n = Len(T)
  OBVIOUS
<1>2. ASSUME NEW i \in 0 .. n - 1
      PROVE  Count(T2, x, i) = Count(T, x, i)
  <2>1. i \in Nat /\ \A k \in 1 .. i : T2[k] = T[k]
    BY <1>1 DEF Topped
  <2> QED  BY <2>1, CountSame
<1>3. n - 1 \in Nat /\ (n - 1) + 1 = n /\ n - 1 \in 0 .. n - 1
  OBVIOUS
<1>4. Count(T2, x, n) = IF q = x THEN Count(T2, x, n - 1) + 1 ELSE Count(T2, x, n - 1)
  BY <1>1, <1>3, CountNext DEF Topped
<1>5. Count(T, x, n) = IF T[n] = x THEN Count(T, x, n - 1) + 1 ELSE Count(T, x, n - 1)
  BY <1>3, CountNext
<1>6. Count(T, x, n - 1) \in Nat
  BY <1>3, CountNat
<1> QED  BY <1>1, <1>2, <1>3, <1>4, <1>5, <1>6 DEF Topped, Counted

\* ... or is a return away, from another instruction than x.
LEMMA CountPopped ==
    ASSUME NEW T, NEW T2, NEW x, NEW n \in Nat \ {0}, n = Len(T), Popped(T, T2), T[n] # x
    PROVE  /\ \A i \in 0 .. n - 1 : Count(T2, x, i) = Count(T, x, i)
           /\ Count(T2, x, n - 1) = Count(T, x, n)
<1>1. n = Len(T)
  OBVIOUS
<1>2. ASSUME NEW i \in 0 .. n - 1
      PROVE  Count(T2, x, i) = Count(T, x, i)
  <2>1. i \in Nat /\ \A k \in 1 .. i : T2[k] = T[k]
    BY <1>1 DEF Popped
  <2> QED  BY <2>1, CountSame
<1>3. n - 1 \in Nat /\ (n - 1) + 1 = n /\ n - 1 \in 0 .. n - 1
  OBVIOUS
<1>4. Count(T, x, n) = Count(T, x, n - 1)
  BY <1>1, <1>3, CountNext
<1> QED  BY <1>1, <1>2, <1>3, <1>4 DEF Popped

\* The function stack and the instruction to execute, as one sequence.
LEMMA TodoIs ==
    ASSUME NEW X, NEW stack \in Seq(X), NEW i, NEW c
    PROVE  /\ Len(Todo(stack, i)) = Len(stack) + 1 /\ Len(In(stack, c)) = Len(stack) + 1
           /\ Len(stack) \in Nat
           /\ Todo(stack, i)[Len(stack) + 1] = i /\ In(stack, c)[Len(stack) + 1] = c
           /\ \A k \in 1 .. Len(stack) :
                 Todo(stack, i)[k] = stack[k].ret /\ In(stack, c)[k] = stack[k].closure
<1>1. PICK n \in Nat : n = Len(stack)
  OBVIOUS
<1>2. Len(Todo(stack, i)) = n + 1 /\ Len(In(stack, c)) = n + 1
  BY <1>1 DEF Todo, In
<1> QED  BY <1>1, <1>2 DEF Todo, In

\* A call, ...
LEMMA TodoCall ==
    ASSUME NEW X, NEW stack \in Seq(X), NEW i, NEW c, NEW f \in X, f.closure = c, NEW i2, NEW c2
    PROVE  /\ Pushed(Todo(stack, i), Todo(Append(stack, f), i2), f.ret, i2)
           /\ Opened(In(stack, c), In(Append(stack, f), c2), c2)
<1>1. PICK n \in Nat : n = Len(stack)
  OBVIOUS
<1>2. PICK t \in Seq(X) : t = Append(stack, f)
  BY AppendProperties
<1>3. Len(t) = n + 1 /\ t[n + 1] = f /\ \A k \in 1 .. n : t[k] = stack[k]
  BY <1>1, <1>2, AppendProperties
<1>4. /\ Len(Todo(t, i2)) = (n + 1) + 1 /\ Len(In(t, c2)) = (n + 1) + 1
      /\ Todo(t, i2)[(n + 1) + 1] = i2 /\ In(t, c2)[(n + 1) + 1] = c2
      /\ \A k \in 1 .. n + 1 : Todo(t, i2)[k] = t[k].ret /\ In(t, c2)[k] = t[k].closure
  <2>1. /\ Len(Todo(t, i2)) = Len(t) + 1 /\ Len(In(t, c2)) = Len(t) + 1
        /\ Todo(t, i2)[Len(t) + 1] = i2 /\ In(t, c2)[Len(t) + 1] = c2
        /\ \A k \in 1 .. Len(t) : Todo(t, i2)[k] = t[k].ret /\ In(t, c2)[k] = t[k].closure
    <3> HIDE <1>2
    <3>1. t \in Seq(X)
      OBVIOUS
    <3> QED  BY <3>1, TodoIs
  <2> QED  BY <1>3, <2>1
<1>5. /\ Len(Todo(stack, i)) = n + 1 /\ Len(In(stack, c)) = n + 1
      /\ Todo(stack, i)[n + 1] = i /\ In(stack, c)[n + 1] = c
      /\ \A k \in 1 .. n : Todo(stack, i)[k] = stack[k].ret /\ In(stack, c)[k] = stack[k].closure
  BY <1>1, TodoIs
<1>6. n + 1 \in 1 .. n + 1 /\ \A k \in 1 .. n : k \in 1 .. n + 1
  OBVIOUS
<1>7. Pushed(Todo(stack, i), Todo(t, i2), f.ret, i2)
  BY <1>3, <1>4, <1>5, <1>6 DEF Pushed
<1>8. Opened(In(stack, c), In(t, c2), c2)
  <2>1. \A k \in 1 .. n + 1 : In(t, c2)[k] = In(stack, c)[k]
    <3> SUFFICES ASSUME NEW k \in 1 .. n + 1
                 PROVE  In(t, c2)[k] = In(stack, c)[k]
      OBVIOUS
    <3>1. CASE k = n + 1
      BY <1>3, <1>4, <1>5, <3>1
    <3>2. CASE k \in 1 .. n
      BY <1>3, <1>4, <1>5, <3>2
    <3> QED  BY <3>1, <3>2
  <2> QED  BY <1>4, <1>5, <2>1 DEF Opened
<1> QED  BY <1>2, <1>7, <1>8

\* ... a return, ...
LEMMA TodoReturn ==
    ASSUME NEW X, NEW stack \in Seq(X), stack # <<>>, NEW i, NEW c
    PROVE  /\ Popped(Todo(stack, i), Todo(Front(stack), Last(stack).ret))
           /\ Popped(In(stack, c), In(Front(stack), Last(stack).closure))
<1>1. PICK n \in Nat \ {0} : n = Len(stack)
  BY Ends
<1>2. PICK t \in Seq(X) : t = Front(stack)
  BY Ends
<1>3. Len(t) = n - 1 /\ Last(stack) = stack[n] /\ \A k \in 1 .. n - 1 : t[k] = stack[k]
  BY <1>1, <1>2, Ends
<1>4. /\ Len(Todo(t, stack[n].ret)) = n /\ Len(In(t, stack[n].closure)) = n
      /\ Todo(t, stack[n].ret)[n] = stack[n].ret /\ In(t, stack[n].closure)[n] = stack[n].closure
      /\ \A k \in 1 .. n - 1 : /\ Todo(t, stack[n].ret)[k] = t[k].ret
                               /\ In(t, stack[n].closure)[k] = t[k].closure
  <2>1. (n - 1) + 1 = n
    OBVIOUS
  <2>2. /\ Len(Todo(t, stack[n].ret)) = Len(t) + 1 /\ Len(In(t, stack[n].closure)) = Len(t) + 1
        /\ Todo(t, stack[n].ret)[Len(t) + 1] = stack[n].ret
        /\ In(t, stack[n].closure)[Len(t) + 1] = stack[n].closure
        /\ \A k \in 1 .. Len(t) : /\ Todo(t, stack[n].ret)[k] = t[k].ret
                                 /\ In(t, stack[n].closure)[k] = t[k].closure
    BY <1>2, TodoIs
  <2> QED  BY <1>3, <2>1, <2>2
<1>5. /\ Len(Todo(stack, i)) = n + 1 /\ Len(In(stack, c)) = n + 1
      /\ \A k \in 1 .. n : Todo(stack, i)[k] = stack[k].ret /\ In(stack, c)[k] = stack[k].closure
  BY <1>1, TodoIs
<1>6. \A k \in 1 .. n : /\ Todo(t, stack[n].ret)[k] = Todo(stack, i)[k]
                        /\ In(t, stack[n].closure)[k] = In(stack, c)[k]
  <2> SUFFICES ASSUME NEW k \in 1 .. n
               PROVE  /\ Todo(t, stack[n].ret)[k] = Todo(stack, i)[k]
                      /\ In(t, stack[n].closure)[k] = In(stack, c)[k]
    OBVIOUS
  <2>1. CASE k = n
    BY <1>4, <1>5, <2>1
  <2>2. CASE k \in 1 .. n - 1
    BY <1>3, <1>4, <1>5, <2>2
  <2> QED  BY <2>1, <2>2
<1>7. (n + 1) - 1 = n /\ n + 1 > 1
  OBVIOUS
<1> QED  BY <1>2, <1>3, <1>4, <1>5, <1>6, <1>7 DEF Popped

\* ... and another instruction.
LEMMA TodoTop ==
    ASSUME NEW X, NEW stack \in Seq(X), NEW i, NEW i2
    PROVE  Topped(Todo(stack, i), Todo(stack, i2), i2)
<1>1. PICK n \in Nat : n = Len(stack)
  OBVIOUS
<1>2. /\ Len(Todo(stack, i)) = n + 1 /\ Len(Todo(stack, i2)) = n + 1
      /\ Todo(stack, i2)[n + 1] = i2
      /\ \A k \in 1 .. n : Todo(stack, i)[k] = stack[k].ret /\ Todo(stack, i2)[k] = stack[k].ret
  BY <1>1, TodoIs
<1> QED  BY <1>2 DEF Topped

-----------------------------------------------------------------------------
(* The registers *)

\* The instructions to execute, ...
Now == Todo(fstack, pc)
\* ... and the closures they are in.
NowIn == In(fstack, closure)

\* An entry in the register is the last one whose before is running, with its
\* thunk in the other register, and no thunk is running above it.
RegisterFits(T, er, tr) ==
    er # 0 =>
        /\ tr = er
        /\ \E i \in 1 .. Len(T) :
              /\ T[i] = "after_before"
              /\ \A k \in i + 1 .. Len(T) : T[k] \notin {"after_before", "before_after"}

\* The registers fit the function stack, now and in each continuation.
Registers ==
    /\ pc # "failed" => RegisterFits(Now, entryReg, thunkReg)
    /\ \A i \in DOMAIN conts :
          RegisterFits(Todo(conts[i].fstack, "body"), conts[i].entryReg, conts[i].thunkReg)

\* A call from within what is going on leaves the registers as they should be, ...
LEMMA FitsCall ==
    ASSUME NEW T, NEW T2, NEW r, NEW q, Len(T) \in Nat \ {0}, Pushed(T, T2, r, q), T[Len(T)] = r,
           q \notin {"after_before", "before_after"}, NEW er, NEW tr, RegisterFits(T, er, tr)
    PROVE  RegisterFits(T2, er, tr)
<1> SUFFICES ASSUME er # 0 PROVE RegisterFits(T2, er, tr)
  BY DEF RegisterFits
<1>1. PICK n \in Nat \ {0} : n = Len(T)
  OBVIOUS
<1>2. PICK i \in 1 .. n : /\ T[i] = "after_before"
                          /\ \A k \in i + 1 .. n : T[k] \notin {"after_before", "before_after"}
  BY <1>1 DEF RegisterFits
<1>3. Len(T2) = n + 1 /\ T2[n + 1] = q /\ \A k \in 1 .. n : T2[k] = T[k]
  BY <1>1 DEF Pushed
<1>4. \A k \in i + 1 .. n + 1 : k = n + 1 \/ k \in i + 1 .. n
  OBVIOUS
<1>5. \A k \in i + 1 .. n : k \in 1 .. n
  OBVIOUS
<1>6. \A k \in i + 1 .. n + 1 : T2[k] \notin {"after_before", "before_after"}
  BY <1>2, <1>3, <1>4, <1>5
<1>7. i \in 1 .. n + 1 /\ T2[i] = "after_before"
  BY <1>2, <1>3
<1>8. tr = er
  BY DEF RegisterFits
<1> QED  BY <1>3, <1>6, <1>7, <1>8 DEF RegisterFits

\* ... a dynamic-wind fills them, ...
LEMMA FitsEnter ==
    ASSUME NEW T, NEW T2, NEW q, Len(T) \in Nat \ {0}, Pushed(T, T2, "after_before", q),
           q \notin {"after_before", "before_after"}, NEW er
    PROVE  RegisterFits(T2, er, er)
<1>1. PICK n \in Nat \ {0} : n = Len(T)
  OBVIOUS
<1>2. Len(T2) = n + 1 /\ T2[n + 1] = q /\ T2[n] = "after_before"
  BY <1>1 DEF Pushed
<1>3. \A k \in n + 1 .. n + 1 : k = n + 1
  OBVIOUS
<1>4. n \in 1 .. n + 1
  OBVIOUS
<1> QED  BY <1>2, <1>3, <1>4 DEF RegisterFits

\* ... another instruction that is neither of theirs does nothing to them, ...
LEMMA FitsTop ==
    ASSUME NEW T, NEW T2, NEW q, Len(T) \in Nat \ {0}, Topped(T, T2, q),
           T[Len(T)] # "after_before", q \notin {"after_before", "before_after"},
           NEW er, NEW tr, RegisterFits(T, er, tr)
    PROVE  RegisterFits(T2, er, tr)
<1> SUFFICES ASSUME er # 0 PROVE RegisterFits(T2, er, tr)
  BY DEF RegisterFits
<1>1. PICK n \in Nat \ {0} : n = Len(T)
  OBVIOUS
<1>2. PICK i \in 1 .. n : /\ T[i] = "after_before"
                          /\ \A k \in i + 1 .. n : T[k] \notin {"after_before", "before_after"}
  BY <1>1 DEF RegisterFits
<1>3. i \in 1 .. n - 1
  BY <1>1, <1>2
<1>4. Len(T2) = n /\ T2[n] = q /\ \A k \in 1 .. n - 1 : T2[k] = T[k]
  BY <1>1 DEF Topped
<1>5. \A k \in i + 1 .. n : k = n \/ (k \in 1 .. n - 1 /\ k \in i + 1 .. n)
  BY <1>3
<1>6. \A k \in i + 1 .. n : T2[k] \notin {"after_before", "before_after"}
  BY <1>2, <1>4, <1>5
<1>7. T2[i] = "after_before"
  BY <1>2, <1>3, <1>4
<1>8. tr = er
  BY DEF RegisterFits
<1> QED  BY <1>2, <1>4, <1>6, <1>7, <1>8 DEF RegisterFits

\* ... nor does a return, ...
LEMMA FitsReturn ==
    ASSUME NEW T, NEW T2, Len(T) \in Nat \ {0}, Popped(T, T2),
           T[Len(T)] # "after_before", NEW er, NEW tr, RegisterFits(T, er, tr)
    PROVE  RegisterFits(T2, er, tr)
<1> SUFFICES ASSUME er # 0 PROVE RegisterFits(T2, er, tr)
  BY DEF RegisterFits
<1>1. PICK n \in Nat \ {0} : n = Len(T)
  OBVIOUS
<1>2. PICK i \in 1 .. n : /\ T[i] = "after_before"
                          /\ \A k \in i + 1 .. n : T[k] \notin {"after_before", "before_after"}
  BY <1>1 DEF RegisterFits
<1>3. i \in 1 .. n - 1
  BY <1>1, <1>2
<1>4. Len(T2) = n - 1 /\ \A k \in 1 .. n - 1 : T2[k] = T[k]
  BY <1>1 DEF Popped
<1>5. \A k \in i + 1 .. n - 1 : k \in 1 .. n - 1 /\ k \in i + 1 .. n
  BY <1>3
<1>6. \A k \in i + 1 .. n - 1 : T2[k] \notin {"after_before", "before_after"}
  BY <1>2, <1>4, <1>5
<1>7. T2[i] = "after_before"
  BY <1>2, <1>3, <1>4
<1>8. tr = er
  BY DEF RegisterFits
<1> QED  BY <1>3, <1>4, <1>6, <1>7, <1>8 DEF RegisterFits

\* ... and a thunk that returns finds nothing in the register.
LEMMA FitsNone ==
    ASSUME NEW T, Len(T) \in Nat \ {0}, T[Len(T)] = "before_after",
           NEW er, NEW tr, RegisterFits(T, er, tr)
    PROVE  er = 0
<1> SUFFICES ASSUME er # 0 PROVE FALSE
  OBVIOUS
<1>1. PICK n \in Nat \ {0} : n = Len(T)
  OBVIOUS
<1>2. PICK i \in 1 .. n : /\ T[i] = "after_before"
                          /\ \A k \in i + 1 .. n : T[k] \notin {"after_before", "before_after"}
  BY <1>1 DEF RegisterFits
<1>3. i # n
  BY <1>1, <1>2
<1>4. n \in i + 1 .. n
  BY <1>3
<1> QED  BY <1>1, <1>2, <1>4

\* The last instruction is the one to execute.
LEMMA NowIs ==
    ASSUME Types
    PROVE  /\ Len(Now) \in Nat \ {0} /\ Len(NowIn) = Len(Now) /\ Len(Now) = Len(fstack) + 1
           /\ Now[Len(Now)] = pc /\ NowIn[Len(Now)] = closure
<1>1. fstack \in Seq(FrameOf(Len(entries)))
  BY DEF Types, TypesOf
<1>2. PICK n \in Nat : n = Len(fstack)
  BY <1>1
<1>3. Len(Now) = n + 1 /\ Len(NowIn) = n + 1 /\ Now[n + 1] = pc /\ NowIn[n + 1] = closure
  BY <1>1, <1>2, TodoIs DEF Now, NowIn
<1> QED  BY <1>2, <1>3

\* What a call does to what is to be done, ...
LEMMA CallDoes ==
    ASSUME Types, NEW c, NEW ret \in Later, Call(c, ret)
    PROVE  Pushed(Now, Now', ret, "body") /\ Opened(NowIn, NowIn', c)
<1>1. PICK n \in Nat : n = Len(entries)
  BY DEF Types, Counters
<1>2. fstack \in Seq(FrameOf(n)) /\ closure \in ClosureOf(n)
  BY <1>1 DEF Types, TypesOf
<1>3. PICK f \in FrameOf(n) : f = [closure |-> closure, ret |-> ret]
  BY <1>2 DEF FrameOf
<1>4. f.closure = closure /\ f.ret = ret
  BY <1>3
<1>5. fstack' = Append(fstack, f) /\ closure' = c /\ pc' = "body"
  BY <1>3 DEF Call
<1> QED  BY <1>2, <1>4, <1>5, TodoCall DEF Now, NowIn

\* ... and the first step of a wind, ...
LEMMA StartDoes ==
    ASSUME Types, NEW p, StartWind(p), pc = "body"
    PROVE  \/ Pushed(Now, Now', "body", "wind") /\ Opened(NowIn, NowIn', closure)
           \/ Topped(Now, Now', "wind") /\ NowIn' = NowIn
<1>1. PICK n \in Nat : n = Len(entries)
  BY DEF Types, Counters
<1>2. fstack \in Seq(FrameOf(n)) /\ closure \in ClosureOf(n)
  BY <1>1 DEF Types, TypesOf
<1>3. closure' = closure /\ pc' = "wind"
  BY DEF StartWind
<1>4. CASE fstack' = Append(fstack, [closure |-> closure, ret |-> "body"])
  <2>1. PICK f \in FrameOf(n) : f = [closure |-> closure, ret |-> "body"]
    BY <1>2 DEF FrameOf, Later
  <2>2. f.closure = closure /\ f.ret = "body" /\ fstack' = Append(fstack, f)
    BY <1>4, <2>1
  <2> QED  BY <1>2, <1>3, <2>2, TodoCall DEF Now, NowIn
<1>5. CASE UNCHANGED fstack
  BY <1>2, <1>3, <1>5, TodoTop DEF Now, NowIn
<1> QED  BY <1>4, <1>5 DEF StartWind

\* ... and a return of the user's closure.
LEMMA ReturnDoes ==
    ASSUME Types, Return
    PROVE  \/ Popped(Now, Now') /\ Popped(NowIn, NowIn')
           \/ Topped(Now, Now', "halt") /\ NowIn' = NowIn
<1>1. PICK n \in Nat : n = Len(entries)
  BY DEF Types, Counters
<1>2. fstack \in Seq(FrameOf(n))
  BY <1>1 DEF Types, TypesOf
<1>3. CASE fstack = <<>>
  BY <1>2, <1>3, TodoTop DEF Return, Now, NowIn
<1>4. CASE fstack # <<>>
  <2>1. pc' = Last(fstack).ret /\ closure' = Last(fstack).closure /\ fstack' = Front(fstack)
    BY <1>4 DEF Return
  <2> QED  BY <1>2, <1>4, <2>1, TodoReturn DEF Now, NowIn
<1> QED  BY <1>3, <1>4

\* The registers are as they should be throughout.
LEMMA NextRegisters == Types /\ Registers /\ [Next]_vars => Registers'
<1> SUFFICES ASSUME Types, Registers, [Next]_vars PROVE Registers'
  OBVIOUS
<1> DEFINE Kept(k) == RegisterFits(Todo(k.fstack, "body"), k.entryReg, k.thunkReg)
           Live == RegisterFits(Now, entryReg, thunkReg)
<1>0. /\ Len(Now) \in Nat \ {0} /\ Now[Len(Now)] = pc
      /\ \A i \in DOMAIN conts : Kept(conts[i])
      /\ pc # "failed" => Live
  BY NowIs DEF Registers
<1>1. ASSUME UNCHANGED <<pc, fstack, entryReg, thunkReg, conts>>
      PROVE  Registers'
  BY <1>1 DEF Registers, Now
<1>2. ASSUME pc' = "failed", UNCHANGED conts
      PROVE  Registers'
  BY <1>2 DEF Registers
<1>3. ASSUME UNCHANGED conts, Live'
      PROVE  Registers'
  BY <1>3 DEF Registers
<1>4. ASSUME NEW c, NEW ret \in Later, Call(c, ret), pc # "failed", ret = pc, UNCHANGED <<entryReg, thunkReg, conts>>
      PROVE  Registers'
  <2>1. Pushed(Now, Now', ret, "body") /\ Now[Len(Now)] = ret
    BY <1>0, <1>4, CallDoes
  <2>2. RegisterFits(Now, entryReg, thunkReg) /\ "body" \notin {"after_before", "before_after"}
    BY <1>0, <1>4
  <2>3. RegisterFits(Now', entryReg, thunkReg)
    BY <1>0, <2>1, <2>2, FitsCall, Zenon
  <2> QED  BY <1>3, <1>4, <2>3
<1>5. ASSUME NEW i \in DOMAIN conts, NEW v, Restore(conts[i], v), UNCHANGED conts
      PROVE  Registers'
  <2>1. Now' = Todo(conts[i].fstack, "body") /\ entryReg' = conts[i].entryReg /\ thunkReg' = conts[i].thunkReg
    BY <1>5 DEF Restore, Now
  <2> QED  BY <1>0, <1>3, <1>5, <2>1
<1> USE DEF stackVars, windVars, countVars
<1>6. CASE UNCHANGED vars \/ (\E v \in Values : Push(v)) \/ WindNext
  BY <1>1, <1>6 DEF vars, Push, WindNext
<1>7. CASE Return
  <2>1. pc = "body" /\ UNCHANGED <<entryReg, thunkReg, conts>>
    BY <1>7 DEF Return
  <2>2. CASE Popped(Now, Now')
    BY <1>0, <1>3, <2>1, <2>2, FitsReturn
  <2>3. CASE Topped(Now, Now', "halt")
    BY <1>0, <1>3, <2>1, <2>3, FitsTop
  <2> QED  BY <1>7, <2>2, <2>3, ReturnDoes
<1>8. CASE DynamicWind
  <2>1. /\ Call(Before(Len(entries) + 1), "after_before") /\ UNCHANGED conts
        /\ entryReg' = Len(entries) + 1 /\ thunkReg' = entryReg'
    BY <1>8 DEF DynamicWind
  <2>2. Pushed(Now, Now', "after_before", "body")
    BY <2>1, CallDoes DEF Later
  <2> QED  BY <1>0, <1>3, <2>1, <2>2, FitsEnter
<1>9. CASE Capture
  <2> DEFINE k == [closure |-> closure, fstack |-> fstack, opstack |-> opstack,
                   dwStack |-> dwStack, afterStack |-> afterStack,
                   entryReg |-> entryReg, thunkReg |-> thunkReg]
  <2>1. pc = "body" /\ conts' = Append(conts, k) /\ UNCHANGED <<pc, fstack, entryReg, thunkReg>>
    BY <1>9 DEF Capture
  <2>2. Kept(k)
    BY <1>0, <2>1 DEF Now
  <2> HIDE DEF k
  <2>3. \A i \in DOMAIN conts' : Kept(conts'[i])
    <3>1. conts \in Seq(SavedOf(Len(entries)))
      BY DEF Types, TypesOf
    <3>2. \A i \in DOMAIN conts' : conts'[i] = k \/ (i \in DOMAIN conts /\ conts'[i] = conts[i])
      BY <2>1, <3>1, AppendProperties
    <3> HIDE DEF Kept
    <3> QED  BY <1>0, <2>2, <3>2
  <2> QED  BY <1>0, <2>1, <2>3 DEF Registers, Now
<1>10. CASE \E i \in DOMAIN conts, v \in Values : CallContinuation(i, v)
  <2>1. PICK i \in DOMAIN conts, v \in Values : CallContinuation(i, v)
    BY <1>10
  <2>2. pc = "body" /\ UNCHANGED conts
    BY <2>1 DEF CallContinuation
  <2>3. CASE Restore(conts[i], v)
    BY <1>5, <2>2, <2>3
  <2>4. ASSUME NEW p, StartWind(p)
        PROVE  Registers'
    <3>1. UNCHANGED <<entryReg, thunkReg>>
      BY <2>4 DEF StartWind
    <3>2. CASE Pushed(Now, Now', "body", "wind")
      <4>1. /\ "wind" \notin {"after_before", "before_after"} /\ Now[Len(Now)] = "body"
            /\ RegisterFits(Now, entryReg, thunkReg)
        BY <1>0, <2>2, <3>2
      <4>2. RegisterFits(Now', entryReg, thunkReg)
        BY <1>0, <3>2, <4>1, FitsCall, Zenon
      <4> QED  BY <1>3, <2>2, <3>1, <4>2
    <3>3. CASE Topped(Now, Now', "wind")
      BY <1>0, <1>3, <2>2, <3>1, <3>3, FitsTop
    <3> QED  BY <2>2, <2>4, <3>2, <3>3, StartDoes
  <2> QED  BY <2>1, <2>3, <2>4 DEF CallContinuation
<1>11. CASE Fork
  <2>1. /\ entryReg' = 0
        /\ conts' = [i \in DOMAIN conts |->
                   [conts[i] EXCEPT !.afterStack = <<>>, !.entryReg = 0, !.thunkReg = 0]]
    BY <1>11 DEF Fork
  <2>2. Live'
    BY <2>1 DEF RegisterFits
  <2>3. \A i \in DOMAIN conts' : conts'[i].entryReg = 0
    <3>1. conts \in Seq(SavedOf(Len(entries)))
      BY DEF Types, TypesOf
    <3>2. ASSUME NEW i \in DOMAIN conts
          PROVE  conts'[i].entryReg = 0
      <4>1. PICK k \in SavedOf(Len(entries)) : k = conts[i]
        BY <3>1, ElementOfSeq
      <4>2. PICK none : none = <<>>
        OBVIOUS
      <4>3. conts'[i] = [k EXCEPT !.afterStack = none, !.entryReg = 0, !.thunkReg = 0]
        BY <2>1, <4>1, <4>2, Zenon
      <4>4. [k EXCEPT !.afterStack = none, !.entryReg = 0, !.thunkReg = 0].entryReg = 0
        BY DEF SavedOf
      <4> QED  BY <4>3, <4>4
    <3> QED  BY <2>1, <3>2
  <2> QED  BY <2>2, <2>3 DEF Registers, RegisterFits
<1>12. CASE TimerCallback
  <2>1. pc # "failed" /\ Call(Callback, pc) /\ UNCHANGED <<entryReg, thunkReg, conts>>
    BY <1>12 DEF TimerCallback
  <2>2. pc \in Later
    BY <2>1 DEF Types, TypesOf
  <2> QED  BY <1>4, <2>1, <2>2
<1>13. CASE AfterBefore
  <2>1. entryReg' = 0
    BY <1>13 DEF AfterBefore
  <2> QED  BY <1>3, <1>13, <2>1 DEF AfterBefore, RegisterFits
<1>14. CASE BeforeAfter
  <2>1. CASE dwStack = <<>>
    BY <1>2, <1>14, <2>1 DEF BeforeAfter, Fail
  <2>2. CASE dwStack # <<>>
    <3>1. entryReg' = entryReg /\ UNCHANGED conts /\ pc = "before_after"
      BY <1>14, <2>2 DEF BeforeAfter
    <3>2. entryReg = 0
      BY <1>0, <3>1, FitsNone
    <3> QED  BY <1>3, <3>1, <3>2 DEF RegisterFits
  <2> QED  BY <2>1, <2>2
<1>15. CASE Done
  <2>1. CASE afterStack = <<>>
    BY <1>2, <1>15, <2>1 DEF Done, Fail
  <2>2. CASE afterStack # <<>>
    <3>1. pc = "done" /\ pc' = "body" /\ UNCHANGED <<fstack, entryReg, thunkReg, conts>>
      BY <1>15, <2>2 DEF Done
    <3>2. Topped(Now, Now', "body")
      <4>1. fstack \in Seq(FrameOf(Len(entries)))
        BY DEF Types, TypesOf
      <4> QED  BY <3>1, <4>1, TodoTop DEF Now
    <3> QED  BY <1>0, <1>3, <3>1, <3>2, FitsTop
  <2> QED  BY <2>1, <2>2
<1>16. CASE WindAfter
  <2>1. UNCHANGED <<entryReg, thunkReg, conts>> /\ pc = "wind"
    BY <1>16 DEF WindAfter
  <2>2. pc' = "failed" \/ \E c : Call(c, "wind")
    BY <1>16, Zenon DEF WindAfter, Fail
  <2> QED  BY <1>2, <1>4, <2>1, <2>2 DEF Later
<1>17. CASE WindBefore
  <2>1. UNCHANGED <<entryReg, thunkReg, conts>> /\ pc = "wind"
    BY <1>17 DEF WindBefore
  <2>2. \E c : Call(c, "wind")
    BY <1>17, Zenon DEF WindBefore
  <2> QED  BY <1>4, <2>1, <2>2 DEF Later
<1>18. CASE WindRestore
  <2>1. pending.cont \in DOMAIN conts
    BY <1>18 DEF WindRestore, Types, TypesOf, Counters, PendingOf
  <2> QED  BY <1>5, <1>18, <2>1 DEF WindRestore
<1>19. CASE WindIllegal
  BY <1>2, <1>19 DEF WindIllegal, Fail
<1> QED  BY <1>6, <1>7, <1>8, <1>9, <1>10, <1>11, <1>12, <1>13, <1>14, <1>15, <1>16,
            <1>17, <1>18, <1>19 DEF Next, User, Instruction

-----------------------------------------------------------------------------
(* A stack of entries and the closures above its instructions *)

\* The stack s holds one entry for each x in T, and above it runs the closure
\* of that entry, or a timer callback.
Matched(T, C, s, x, role) ==
    /\ Len(s) = Count(T, x, Len(T))
    /\ \A i \in 1 .. Len(T) - 1 :
          T[i] = x => C[i + 1] \in {[role |-> role, entry |-> s[Count(T, x, i)]], Callback}

\* An instruction's entry is on the stack.
LEMMA EntryThere ==
    ASSUME NEW T, NEW x, NEW i \in Nat \ {0}, NEW j \in Nat, i <= j, T[i] = x
    PROVE  Count(T, x, i) \in 1 .. Count(T, x, j)
<1>1. i - 1 \in Nat /\ i - 1 < i
  OBVIOUS
<1>2. Count(T, x, i - 1) < Count(T, x, i) /\ Count(T, x, i) <= Count(T, x, j)
  BY <1>1, CountGrows
<1>3. Count(T, x, i - 1) \in Nat /\ Count(T, x, i) \in Nat /\ Count(T, x, j) \in Nat
  BY <1>1, CountNat
<1> QED  BY <1>2, <1>3

\* A call that is none of the stack's business, ...
LEMMA MatchedCall ==
    ASSUME NEW T, NEW T2, NEW C, NEW C2, NEW r, NEW q, NEW c, NEW s, NEW x, NEW role,
           Len(T) \in Nat \ {0}, Len(C) = Len(T),
           Pushed(T, T2, r, q), Opened(C, C2, c), Matched(T, C, s, x, role),
           q # x, r = x <=> T[Len(T)] = x, r = x => c = Callback
    PROVE  Matched(T2, C2, s, x, role)
<1>1. PICK n \in Nat \ {0} : n = Len(T)
  OBVIOUS
<1>0. T[n] = x <=> T[Len(T)] = x
  BY <1>1
<1>2. /\ \A i \in 0 .. n - 1 : Count(T2, x, i) = Count(T, x, i)
      /\ Count(T2, x, n + 1) = Count(T, x, n)
  <2>1. Counted(T, T2, r, x, n) /\ Count(T2, x, n + 1) = Count(T2, x, n)
    BY <1>1, CountPushed
  <2> QED  BY <1>0, <2>1 DEF Counted
<1>3. ASSUME NEW i \in 1 .. n, T2[i] = x
      PROVE  C2[i + 1] \in {[role |-> role, entry |-> s[Count(T2, x, i)]], Callback}
  <2>1. CASE i = n
    BY <1>1, <1>3, <2>1 DEF Pushed, Opened
  <2>2. CASE i \in 1 .. n - 1
    <3>1. T[i] = x /\ C2[i + 1] = C[i + 1] /\ i \in 0 .. n - 1
      BY <1>1, <1>3, <2>2 DEF Pushed, Opened
    <3> QED  BY <1>1, <1>2, <2>2, <3>1 DEF Matched
  <2> QED  BY <2>1, <2>2
<1>4. Len(s) = Count(T2, x, n + 1)
  BY <1>1, <1>2 DEF Matched
<1>5. Len(T2) = n + 1 /\ (n + 1) - 1 = n
  BY <1>1 DEF Pushed
<1> QED  BY <1>3, <1>4, <1>5 DEF Matched

\* ... one that puts an entry on the stack, ...
LEMMA MatchedEnter ==
    ASSUME NEW S, NEW T, NEW T2, NEW C, NEW C2, NEW q, NEW e \in S, NEW s \in Seq(S), NEW x, NEW role,
           Len(T) \in Nat \ {0}, Len(C) = Len(T),
           Pushed(T, T2, x, q), Opened(C, C2, [role |-> role, entry |-> e]),
           Matched(T, C, s, x, role), q # x, T[Len(T)] # x
    PROVE  Matched(T2, C2, Append(s, e), x, role)
<1>1. PICK n \in Nat \ {0} : n = Len(T)
  OBVIOUS
<1>0. T[n] = x <=> T[Len(T)] = x
  BY <1>1
<1>2. PICK m \in Nat : m = Len(s)
  OBVIOUS
<1>3. /\ \A i \in 0 .. n - 1 : Count(T2, x, i) = Count(T, x, i)
      /\ Count(T2, x, n + 1) = Count(T2, x, n)
      /\ Count(T2, x, n) = Count(T, x, n - 1) + 1
      /\ Count(T, x, n) = Count(T, x, n - 1)
  <2>1. Counted(T, T2, x, x, n) /\ Count(T2, x, n + 1) = Count(T2, x, n)
    BY <1>1, CountPushed
  <2> QED  BY <1>0, <2>1 DEF Counted
<1>4. Count(T, x, n) = m
  BY <1>1, <1>2 DEF Matched
<1>5. PICK t : /\ t = Append(s, e) /\ Len(t) = m + 1 /\ t[m + 1] = e
                /\ \A k \in 1 .. m : t[k] = s[k]
  <2>1. PICK t : t = Append(s, e)
    OBVIOUS
  <2>2. Len(t) = m + 1 /\ t[m + 1] = e /\ \A k \in 1 .. m : t[k] = s[k]
    BY <1>2, <2>1, AppendProperties
  <2> QED  BY <2>1, <2>2, Zenon
<1>6. ASSUME NEW i \in 1 .. n, T2[i] = x
      PROVE  C2[i + 1] \in {[role |-> role, entry |-> t[Count(T2, x, i)]], Callback}
  <2>1. CASE i = n
    BY <1>1, <1>3, <1>4, <1>5, <2>1 DEF Opened
  <2>2. CASE i \in 1 .. n - 1
    <3>1. T[i] = x /\ C2[i + 1] = C[i + 1] /\ i \in 0 .. n - 1
      BY <1>1, <1>6, <2>2 DEF Pushed, Opened
    <3>2. Count(T, x, i) \in 1 .. m
      BY <1>4, <3>1, EntryThere
    <3>3. PICK a : a = s[Count(T, x, i)]
      OBVIOUS
    <3>4. C[i + 1] \in {[role |-> role, entry |-> a], Callback}
      BY <1>1, <2>2, <3>1, <3>3 DEF Matched
    <3>5. t[Count(T2, x, i)] = a
      BY <1>3, <1>5, <3>1, <3>2, <3>3
    <3> QED  BY <3>1, <3>4, <3>5
  <2> QED  BY <2>1, <2>2
<1>7. Len(T2) = n + 1 /\ (n + 1) - 1 = n
  BY <1>1 DEF Pushed
<1> QED  BY <1>3, <1>4, <1>5, <1>6, <1>7 DEF Matched

\* ... and one that takes the top off it, ...
LEMMA MatchedLeave ==
    ASSUME NEW S, NEW T, NEW T2, NEW C, NEW C2, NEW r, NEW q, NEW c, NEW s \in Seq(S), NEW x, NEW role,
           Len(T) \in Nat \ {0}, Len(C) = Len(T), s # <<>>,
           Pushed(T, T2, r, q), Opened(C, C2, c),
           Matched(T, C, s, x, role), q # x, r # x, T[Len(T)] = x
    PROVE  Matched(T2, C2, Front(s), x, role)
<1>1. PICK n \in Nat \ {0} : n = Len(T)
  OBVIOUS
<1>0. T[n] = x <=> T[Len(T)] = x
  BY <1>1
<1>2. PICK m \in Nat \ {0} : m = Len(s)
  BY Ends
<1>3. /\ \A i \in 0 .. n - 1 : Count(T2, x, i) = Count(T, x, i)
      /\ Count(T2, x, n + 1) = Count(T, x, n - 1)
      /\ Count(T, x, n) = Count(T, x, n - 1) + 1 /\ Count(T, x, n - 1) \in Nat
  <2>1. Counted(T, T2, r, x, n) /\ Count(T2, x, n + 1) = Count(T2, x, n)
    BY <1>1, CountPushed
  <2> QED  BY <1>0, <2>1 DEF Counted
<1>4. Count(T, x, n) = m
  BY <1>1, <1>2 DEF Matched
<1>5. Count(T, x, n - 1) = m - 1
  BY <1>3, <1>4
<1>6. Len(Front(s)) = m - 1 /\ \A k \in 1 .. m - 1 : Front(s)[k] = s[k]
  BY <1>2, Ends
<1>7. ASSUME NEW i \in 1 .. n, T2[i] = x
      PROVE  C2[i + 1] \in {[role |-> role, entry |-> Front(s)[Count(T2, x, i)]], Callback}
  <2>1. i \in 1 .. n - 1
    BY <1>1, <1>7 DEF Pushed
  <2>2. T[i] = x /\ C2[i + 1] = C[i + 1] /\ i \in 0 .. n - 1 /\ n - 1 \in Nat /\ i <= n - 1
    BY <1>1, <1>7, <2>1 DEF Pushed, Opened
  <2>3. Count(T, x, i) \in 1 .. m - 1
    BY <1>5, <2>2, EntryThere
  <2> QED  BY <1>1, <1>3, <1>6, <2>1, <2>2, <2>3 DEF Matched
<1>8. Len(T2) = n + 1 /\ (n + 1) - 1 = n
  BY <1>1 DEF Pushed
<1> QED  BY <1>3, <1>5, <1>6, <1>7, <1>8 DEF Matched

\* ... another instruction after one that has taken the top off it, ...
LEMMA MatchedDrop ==
    ASSUME NEW S, NEW T, NEW T2, NEW C, NEW q, NEW s \in Seq(S), NEW x, NEW role,
           Len(T) \in Nat \ {0}, s # <<>>,
           Topped(T, T2, q), Matched(T, C, s, x, role), q # x, T[Len(T)] = x
    PROVE  Matched(T2, C, Front(s), x, role)
<1>1. PICK n \in Nat \ {0} : n = Len(T)
  OBVIOUS
<1>0. T[n] = x <=> T[Len(T)] = x
  BY <1>1
<1>2. PICK m \in Nat \ {0} : m = Len(s)
  BY Ends
<1>3. /\ \A i \in 0 .. n - 1 : Count(T2, x, i) = Count(T, x, i)
      /\ Count(T2, x, n) = Count(T, x, n - 1)
      /\ Count(T, x, n) = Count(T, x, n - 1) + 1 /\ Count(T, x, n - 1) \in Nat
  <2>1. Counted(T, T2, q, x, n)
    BY <1>1, CountTopped
  <2> QED  BY <1>0, <2>1 DEF Counted
<1>4. Count(T, x, n) = m
  BY <1>1, <1>2 DEF Matched
<1>5. Count(T, x, n - 1) = m - 1
  BY <1>3, <1>4
<1>6. Len(Front(s)) = m - 1 /\ \A k \in 1 .. m - 1 : Front(s)[k] = s[k]
  BY <1>2, Ends
<1>7. ASSUME NEW i \in 1 .. n - 1, T2[i] = x
      PROVE  C[i + 1] \in {[role |-> role, entry |-> Front(s)[Count(T2, x, i)]], Callback}
  <2>1. T[i] = x /\ i \in 0 .. n - 1 /\ n - 1 \in Nat /\ i <= n - 1
    BY <1>1, <1>7 DEF Topped
  <2>2. Count(T, x, i) \in 1 .. m - 1
    BY <1>5, <2>1, EntryThere
  <2> QED  BY <1>1, <1>3, <1>6, <2>1, <2>2 DEF Matched
<1>8. Len(T2) = n
  BY <1>1 DEF Topped
<1> QED  BY <1>3, <1>5, <1>6, <1>7, <1>8 DEF Matched

\* ... or after one that has not, ...
LEMMA MatchedTop ==
    ASSUME NEW T, NEW T2, NEW C, NEW q, NEW s, NEW x, NEW role,
           Len(T) \in Nat \ {0},
           Topped(T, T2, q), Matched(T, C, s, x, role), q # x, T[Len(T)] # x
    PROVE  Matched(T2, C, s, x, role)
<1>1. PICK n \in Nat \ {0} : n = Len(T)
  OBVIOUS
<1>0. T[n] = x <=> T[Len(T)] = x
  BY <1>1
<1>2. /\ \A i \in 0 .. n - 1 : Count(T2, x, i) = Count(T, x, i)
      /\ Count(T2, x, n) = Count(T, x, n)
  <2>1. Counted(T, T2, q, x, n)
    BY <1>1, CountTopped
  <2> QED  BY <1>0, <2>1 DEF Counted
<1>3. ASSUME NEW i \in 1 .. n - 1, T2[i] = x
      PROVE  C[i + 1] \in {[role |-> role, entry |-> s[Count(T2, x, i)]], Callback}
  <2>1. T[i] = x /\ i \in 0 .. n - 1
    BY <1>1, <1>3 DEF Topped
  <2> QED  BY <1>1, <1>2, <2>1 DEF Matched
<1>4. Len(T2) = n
  BY <1>1 DEF Topped
<1> QED  BY <1>1, <1>2, <1>3, <1>4 DEF Matched

\* ... and a return.
LEMMA MatchedReturn ==
    ASSUME NEW T, NEW T2, NEW C, NEW C2, NEW s, NEW x, NEW role,
           Len(T) \in Nat \ {0}, Len(C) = Len(T),
           Popped(T, T2), Popped(C, C2), Matched(T, C, s, x, role), T[Len(T)] # x
    PROVE  Matched(T2, C2, s, x, role)
<1>1. PICK n \in Nat \ {0} : n = Len(T)
  OBVIOUS
<1>0. T[n] = x <=> T[Len(T)] = x
  BY <1>1
<1>2. /\ \A i \in 0 .. n - 1 : Count(T2, x, i) = Count(T, x, i)
      /\ Count(T2, x, n - 1) = Count(T, x, n)
  BY <1>0, <1>1, CountPopped DEF Popped
<1>3. ASSUME NEW i \in 1 .. (n - 1) - 1, T2[i] = x
      PROVE  C2[i + 1] \in {[role |-> role, entry |-> s[Count(T2, x, i)]], Callback}
  <2>1. T[i] = x /\ i \in 0 .. n - 1 /\ i \in 1 .. n - 1 /\ C2[i + 1] = C[i + 1]
    BY <1>1, <1>3, SMTT(20) DEF Popped
  <2> QED  BY <1>1, <1>2, <2>1 DEF Matched
<1>4. Len(T2) = n - 1
  BY <1>1 DEF Popped
<1> QED  BY <1>1, <1>2, <1>3, <1>4 DEF Matched

-----------------------------------------------------------------------------
(* The after stack *)

\* The after stack fits the function stack, now and in each continuation.
Afters ==
    ~forked =>
      /\ pc # "failed" => Matched(Now, NowIn, afterStack, "done", "after")
      /\ \A i \in DOMAIN conts :
            Matched(Todo(conts[i].fstack, "body"), In(conts[i].fstack, conts[i].closure),
                    conts[i].afterStack, "done", "after")

\* It does so throughout.
LEMMA NextAfters == Types /\ Afters /\ [Next]_vars => Afters'
<1> SUFFICES ASSUME Types, Afters, [Next]_vars, ~forked' PROVE Afters'
  BY DEF Afters
<1> DEFINE Kept(k) == Matched(Todo(k.fstack, "body"), In(k.fstack, k.closure),
                              k.afterStack, "done", "after")
           Live == Matched(Now, NowIn, afterStack, "done", "after")
<1> USE DEF stackVars, windVars, countVars
<1>00. ~forked
  BY DEF Next, User, Instruction, vars, Push, Return, DynamicWind, Capture, CallContinuation, Fork,
         TimerCallback, AfterBefore, BeforeAfter, Done, WindAfter, WindBefore, WindNext,
         WindRestore, WindIllegal
<1>0. /\ Len(Now) \in Nat \ {0} /\ Now[Len(Now)] = pc /\ Len(NowIn) = Len(Now)
      /\ \A i \in DOMAIN conts : Kept(conts[i])
      /\ pc # "failed" => Live
  BY <1>00, NowIs DEF Afters
<1>1. ASSUME UNCHANGED <<pc, closure, fstack, afterStack, conts>>
      PROVE  Afters'
  BY <1>0, <1>1 DEF Afters, Now, NowIn
<1>2. ASSUME pc' = "failed", UNCHANGED conts
      PROVE  Afters'
  BY <1>0, <1>2 DEF Afters
<1>3. ASSUME UNCHANGED conts, Live'
      PROVE  Afters'
  BY <1>0, <1>3 DEF Afters
<1>4. ASSUME NEW c, NEW ret \in Later, Call(c, ret), pc # "failed", UNCHANGED <<afterStack, conts>>,
             ret = "done" <=> pc = "done", ret = "done" => c = Callback
      PROVE  Afters'
  <2>1. Pushed(Now, Now', ret, "body") /\ Opened(NowIn, NowIn', c)
    BY <1>4, CallDoes
  <2>2. Matched(Now', NowIn', afterStack, "done", "after")
    BY <1>0, <1>4, <2>1, MatchedCall
  <2> QED  BY <1>3, <1>4, <2>2
<1>5. ASSUME NEW i \in DOMAIN conts, NEW v, Restore(conts[i], v), UNCHANGED conts
      PROVE  Afters'
  <2>1. /\ Now' = Todo(conts[i].fstack, "body") /\ NowIn' = In(conts[i].fstack, conts[i].closure)
        /\ afterStack' = conts[i].afterStack
    BY <1>5 DEF Restore, Now, NowIn
  <2> QED  BY <1>0, <1>3, <1>5, <2>1
<1>6. CASE UNCHANGED vars \/ (\E v \in Values : Push(v)) \/ WindNext
  BY <1>1, <1>6 DEF vars, Push, WindNext
<1>7. CASE Return
  <2>1. pc = "body" /\ UNCHANGED <<afterStack, conts>>
    BY <1>7 DEF Return
  <2>2. CASE Popped(Now, Now') /\ Popped(NowIn, NowIn')
    <3>1. Matched(Now', NowIn', afterStack, "done", "after")
      BY <1>0, <2>1, <2>2, MatchedReturn
    <3> QED  BY <1>3, <2>1, <3>1
  <2>3. CASE Topped(Now, Now', "halt") /\ NowIn' = NowIn
    <3>1. Matched(Now', NowIn, afterStack, "done", "after")
      BY <1>0, <2>1, <2>3, MatchedTop
    <3> QED  BY <1>3, <2>1, <2>3, <3>1
  <2> QED  BY <1>7, <2>2, <2>3, ReturnDoes
<1>8. CASE DynamicWind
  <2>1. /\ pc = "body" /\ Call(Before(Len(entries) + 1), "after_before")
        /\ UNCHANGED <<afterStack, conts>>
    BY <1>8 DEF DynamicWind
  <2> QED  BY <1>4, <2>1 DEF Later
<1>9. CASE Capture
  <2> DEFINE k == [closure |-> closure, fstack |-> fstack, opstack |-> opstack,
                   dwStack |-> dwStack, afterStack |-> afterStack,
                   entryReg |-> entryReg, thunkReg |-> thunkReg]
  <2>1. pc = "body" /\ conts' = Append(conts, k) /\ UNCHANGED <<pc, closure, fstack, afterStack>>
    BY <1>9 DEF Capture
  <2>2. Kept(k)
    BY <1>0, <2>1 DEF Now, NowIn
  <2> HIDE DEF k
  <2>3. \A i \in DOMAIN conts' : Kept(conts'[i])
    <3>1. conts \in Seq(SavedOf(Len(entries)))
      BY DEF Types, TypesOf
    <3>2. \A i \in DOMAIN conts' : conts'[i] = k \/ (i \in DOMAIN conts /\ conts'[i] = conts[i])
      BY <2>1, <3>1, AppendProperties
    <3> HIDE DEF Kept
    <3> QED  BY <1>0, <2>2, <3>2
  <2> QED  BY <1>0, <2>1, <2>3 DEF Afters, Now, NowIn
<1>10. CASE \E i \in DOMAIN conts, v \in Values : CallContinuation(i, v)
  <2>1. PICK i \in DOMAIN conts, v \in Values : CallContinuation(i, v)
    BY <1>10
  <2>2. pc = "body" /\ UNCHANGED conts
    BY <2>1 DEF CallContinuation
  <2>3. CASE Restore(conts[i], v)
    BY <1>5, <2>2, <2>3
  <2>4. ASSUME NEW p, StartWind(p)
        PROVE  Afters'
    <3>1. UNCHANGED afterStack
      BY <2>4 DEF StartWind
    <3>2. CASE Pushed(Now, Now', "body", "wind") /\ Opened(NowIn, NowIn', closure)
      <4>1. Matched(Now', NowIn', afterStack, "done", "after")
        BY <1>0, <2>2, <3>2, MatchedCall
      <4> QED  BY <1>3, <2>2, <3>1, <4>1
    <3>3. CASE Topped(Now, Now', "wind") /\ NowIn' = NowIn
      <4>1. Matched(Now', NowIn, afterStack, "done", "after")
        BY <1>0, <2>2, <3>3, MatchedTop
      <4> QED  BY <1>3, <2>2, <3>1, <3>3, <4>1
    <3> QED  BY <2>2, <2>4, <3>2, <3>3, StartDoes
  <2> QED  BY <2>1, <2>3, <2>4 DEF CallContinuation
<1>11. CASE Fork
  BY <1>11 DEF Fork
<1>12. CASE TimerCallback
  <2>1. pc # "failed" /\ Call(Callback, pc) /\ UNCHANGED <<afterStack, conts>>
    BY <1>12 DEF TimerCallback
  <2>2. pc \in Later
    BY <2>1 DEF Types, TypesOf
  <2> QED  BY <1>4, <2>1, <2>2
<1>13. CASE AfterBefore
  <2>1. UNCHANGED <<afterStack, conts>> /\ pc = "after_before"
    BY <1>13 DEF AfterBefore
  <2>2. pc' = "failed" \/ \E c : Call(c, "before_after")
    BY <1>13, Zenon DEF AfterBefore, Fail
  <2> QED  BY <1>2, <1>4, <2>1, <2>2 DEF Later
<1>14. CASE BeforeAfter
  <2>1. CASE dwStack = <<>>
    BY <1>2, <1>14, <2>1 DEF BeforeAfter, Fail
  <2>2. CASE dwStack # <<>>
    <3>1. PICK n \in Nat : n = Len(entries)
      BY DEF Types, Counters
    <3>2. PICK e \in 1 .. n : e = Last(dwStack)
      BY <2>2, <3>1, Ends DEF Types, TypesOf
    <3>3. /\ pc = "before_after" /\ Call(After(e), "done")
          /\ afterStack' = Append(afterStack, e) /\ UNCHANGED conts
      BY <1>14, <2>2, <3>2 DEF BeforeAfter
    <3>4. Pushed(Now, Now', "done", "body") /\ Opened(NowIn, NowIn', [role |-> "after", entry |-> e])
      BY <3>3, CallDoes DEF Later, After
    <3>5. afterStack \in Seq(1 .. n)
      BY <3>1 DEF Types, TypesOf
    <3>6. Matched(Now', NowIn', Append(afterStack, e), "done", "after")
      <4>1. Live /\ Now[Len(Now)] # "done" /\ "body" # "done"
        BY <1>0, <3>3
      <4> QED  BY <1>0, <3>4, <3>5, <4>1, MatchedEnter, Zenon
    <3> QED  BY <1>3, <3>3, <3>6
  <2> QED  BY <2>1, <2>2
<1>15. CASE Done
  <2>1. CASE afterStack = <<>>
    BY <1>2, <1>15, <2>1 DEF Done, Fail
  <2>2. CASE afterStack # <<>>
    <3>1. /\ pc = "done" /\ pc' = "body" /\ UNCHANGED <<closure, fstack, conts>>
          /\ afterStack' = Front(afterStack)
      BY <1>15, <2>2 DEF Done
    <3>2. Topped(Now, Now', "body") /\ NowIn' = NowIn
      <4>1. fstack \in Seq(FrameOf(Len(entries)))
        BY DEF Types, TypesOf
      <4> QED  BY <3>1, <4>1, TodoTop DEF Now, NowIn
    <3>3. afterStack \in Seq(1 .. Len(entries))
      BY DEF Types, TypesOf
    <3>4. Matched(Now', NowIn, Front(afterStack), "done", "after")
      BY <1>0, <2>2, <3>1, <3>2, <3>3, MatchedDrop
    <3> QED  BY <1>3, <3>1, <3>2, <3>4
  <2> QED  BY <2>1, <2>2
<1>16. CASE WindAfter
  <2>1. UNCHANGED <<afterStack, conts>> /\ pc = "wind"
    BY <1>16 DEF WindAfter
  <2>2. pc' = "failed" \/ \E c : Call(c, "wind")
    BY <1>16, Zenon DEF WindAfter, Fail
  <2> QED  BY <1>2, <1>4, <2>1, <2>2 DEF Later
<1>17. CASE WindBefore
  <2>1. UNCHANGED <<afterStack, conts>> /\ pc = "wind"
    BY <1>17 DEF WindBefore
  <2>2. \E c : Call(c, "wind")
    BY <1>17, Zenon DEF WindBefore
  <2> QED  BY <1>4, <2>1, <2>2 DEF Later
<1>18. CASE WindRestore
  <2>1. pending.cont \in DOMAIN conts
    BY <1>18 DEF WindRestore, Types, TypesOf, Counters, PendingOf
  <2> QED  BY <1>5, <1>18, <2>1 DEF WindRestore
<1>19. CASE WindIllegal
  BY <1>2, <1>19 DEF WindIllegal, Fail
<1> QED  BY <1>6, <1>7, <1>8, <1>9, <1>10, <1>11, <1>12, <1>13, <1>14, <1>15, <1>16,
            <1>17, <1>18, <1>19 DEF Next, User, Instruction

\* The counts and closures the properties speak of.
LEMMA Ranks ==
    ASSUME Types, NEW x
    PROVE  /\ Len(fstack) \in Nat /\ DOMAIN fstack = 1 .. Len(fstack) /\ Len(Now) = Len(fstack) + 1
           /\ Cardinality(Pending(x)) = Count(Now, x, Len(fstack))
           /\ Count(Now, x, Len(fstack)) \in Nat
           /\ Count(Now, x, Len(fstack) + 1) = Count(Now, x, Len(fstack)) + (IF pc = x THEN 1 ELSE 0)
           /\ \A i \in DOMAIN fstack :
                 /\ Above[i + 1] = NowIn[i + 1] /\ Now[i] = fstack[i].ret
                 /\ Cardinality({j \in Pending(x) : j <= i}) = Count(Now, x, i)
<1>1. fstack \in Seq(FrameOf(Len(entries)))
  BY DEF Types, TypesOf
<1>2. PICK n \in Nat : n = Len(fstack) /\ DOMAIN fstack = 1 .. n
  BY <1>1
<1>3. /\ Len(Now) = n + 1 /\ Now[n + 1] = pc /\ NowIn[n + 1] = closure
      /\ \A k \in 1 .. n : Now[k] = fstack[k].ret /\ NowIn[k] = fstack[k].closure
  BY <1>1, <1>2, TodoIs DEF Now, NowIn
<1>4. Pending(x) = {k \in 1 .. n : Now[k] = x}
  BY <1>2, <1>3 DEF Pending
<1>5. ASSUME NEW i \in 1 .. n
      PROVE  Cardinality({j \in Pending(x) : j <= i}) = Count(Now, x, i)
  <2>1. {j \in Pending(x) : j <= i} = {k \in 1 .. i : Now[k] = x}
    BY <1>4
  <2> QED  BY <2>1 DEF Count
<1>6. ASSUME NEW i \in 1 .. n
      PROVE  Above[i + 1] = NowIn[i + 1]
  <2>1. PICK t : t = [j \in 1 .. n |-> fstack[j].closure]
    OBVIOUS
  <2>2. t \in Seq(ClosureOf(Len(entries))) /\ Len(t) = n /\ \A j \in 1 .. n : t[j] = fstack[j].closure
    <3>1. \A j \in 1 .. n : fstack[j].closure \in ClosureOf(Len(entries))
      <4>1. \A j \in 1 .. n : fstack[j] \in FrameOf(Len(entries))
        BY <1>1, <1>2, ElementOfSeq
      <4> QED  BY <4>1 DEF FrameOf
    <3>2. t \in Seq(ClosureOf(Len(entries)))
      BY <2>1, <3>1
    <3> QED  BY <2>1, <3>2
  <2>3. Above = Append(t, closure)
    BY <1>2, <2>1 DEF Above
  <2>4. closure \in ClosureOf(Len(entries))
    BY DEF Types, TypesOf
  <2>5. CASE i = n
    BY <1>3, <2>2, <2>3, <2>4, <2>5, AppendProperties
  <2>6. CASE i # n
    <3>1. i + 1 \in 1 .. n
      BY <2>6
    <3>2. Above[i + 1] = t[i + 1]
      BY <2>2, <2>3, <2>4, <3>1, AppendProperties
    <3> QED  BY <1>3, <2>2, <3>1, <3>2
  <2> QED  BY <2>5, <2>6
<1>7. Count(Now, x, n) \in Nat /\ Cardinality(Pending(x)) = Count(Now, x, n)
  BY <1>4, CountNat DEF Count
<1>8. Count(Now, x, n + 1) = Count(Now, x, n) + (IF pc = x THEN 1 ELSE 0)
  <2>1. CASE pc = x
    BY <1>3, <2>1, CountNext
  <2>2. CASE pc # x
    BY <1>3, <1>7, <2>2, CountNext
  <2> QED  BY <2>1, <2>2
<1> QED  BY <1>2, <1>3, <1>5, <1>6, <1>7, <1>8

\* What the invariant says of the after stack is what the property says.
LEMMA AftersMatch ==
    ASSUME Types, Matched(Now, NowIn, afterStack, "done", "after")
    PROVE  Matches(afterStack, "done", After)
<1>1. ASSUME NEW i \in Pending("done")
      PROVE  Above[i + 1] \in {After(afterStack[Cardinality({j \in Pending("done") : j <= i})]), Callback}
  <2>1. i \in DOMAIN fstack /\ fstack[i].ret = "done"
    BY DEF Pending
  <2>2. /\ Above[i + 1] = NowIn[i + 1] /\ Now[i] = "done"
        /\ Cardinality({j \in Pending("done") : j <= i}) = Count(Now, "done", i)
    BY <2>1, Ranks
  <2>3. i \in 1 .. Len(Now) - 1
    BY <2>1, Ranks
  <2> QED  BY <2>2, <2>3 DEF Matched, After
<1>2. Len(afterStack) = Cardinality(Pending("done")) + (IF pc = "done" THEN 1 ELSE 0)
  BY Ranks DEF Matched
<1> QED  BY <1>1, <1>2 DEF Matches

-----------------------------------------------------------------------------
(* The wind stack and the trampoline *)

\* A wind is under way.
HasWind(T) == \E i \in 1 .. Len(T) : T[i] = "wind"

\* The last "wind" of T is the w-th, and when control is back there the wind
\* stack, of d entries now, will have k: the thunks above it are on it too.
Trampoline(T, d, k) ==
    \E w \in 1 .. Len(T) :
        /\ T[w] = "wind" /\ \A j \in w + 1 .. Len(T) : T[j] # "wind"
        /\ d + Count(T, "before_after", w) = k + Count(T, "before_after", Len(T))

\* A wind in state ws to the wind stack tg, with the afters fs and the befores
\* bs to run: m entries of tg are entered, they are the lower ones of the wind
\* stack dw, and the others are those of fs and of the thunks above the wind.
WindFits(T, dw, tg, fs, bs, ws) ==
    \E m \in Nat :
        /\ m <= Len(dw) /\ m + Len(bs) = Len(tg)
        /\ \A i \in 1 .. m : dw[i] = tg[i]
        /\ \A i \in 1 .. Len(bs) : bs[i] = tg[m + i]
        /\ ws > 1 => fs = <<>>
        /\ ws > 2 => bs = <<>>
        /\ Trampoline(T, Len(dw), m + Len(fs))

\* A trampoline that is about to run, ...
LEMMA TrampolineTop ==
    ASSUME NEW T, NEW n \in Nat \ {0}, n = Len(T), T[n] = "wind", NEW d \in Nat
    PROVE  /\ Trampoline(T, d, d)
           /\ \A k \in Nat : Trampoline(T, d, k) => d = k
<1>1. Trampoline(T, d, d)
  <2>1. n \in 1 .. Len(T) /\ \A j \in n + 1 .. Len(T) : FALSE
    OBVIOUS
  <2> QED  BY <2>1 DEF Trampoline
<1>2. ASSUME NEW k \in Nat, Trampoline(T, d, k)
      PROVE  d = k
  <2>1. PICK w \in 1 .. n : /\ T[w] = "wind" /\ \A j \in w + 1 .. n : T[j] # "wind"
                            /\ d + Count(T, "before_after", w) = k + Count(T, "before_after", n)
    BY <1>2 DEF Trampoline
  <2>2. w = n
    <3>1. w < n => n \in w + 1 .. n
      OBVIOUS
    <3> QED  BY <2>1, <3>1
  <2>3. Count(T, "before_after", n) \in Nat
    BY CountNat
  <2> QED  BY <2>1, <2>2, <2>3
<1> QED  BY <1>1, <1>2

\* ... that has made a call, ...
LEMMA TrampolineCalled ==
    ASSUME NEW T, NEW T2, NEW q, Len(T) \in Nat \ {0}, Pushed(T, T2, "wind", q),
           q \notin {"wind", "before_after"}, NEW d \in Nat
    PROVE  Trampoline(T2, d, d)
<1>1. PICK n \in Nat \ {0} : n = Len(T)
  OBVIOUS
<1>2. Len(T2) = n + 1 /\ T2[n] = "wind" /\ T2[n + 1] = q
  BY <1>1 DEF Pushed
<1>3. Count(T2, "before_after", n + 1) = Count(T2, "before_after", n)
  BY <1>2, CountNext
<1>4. n \in 1 .. n + 1 /\ \A j \in n + 1 .. n + 1 : j = n + 1
  OBVIOUS
<1> QED  BY <1>2, <1>3, <1>4 DEF Trampoline

\* ... below a call that is none of its business, ...
LEMMA TrampolineCall ==
    ASSUME NEW T, NEW T2, NEW r, NEW q, Len(T) \in Nat \ {0}, Pushed(T, T2, r, q),
           q \notin {"wind", "before_after"}, r = "wind" <=> T[Len(T)] = "wind",
           r = "before_after" <=> T[Len(T)] = "before_after",
           NEW d \in Nat, NEW k \in Nat, Trampoline(T, d, k)
    PROVE  Trampoline(T2, d, k)
<1>1. PICK n \in Nat \ {0} : n = Len(T)
  OBVIOUS
<1>2. PICK w \in 1 .. n : /\ T[w] = "wind" /\ \A j \in w + 1 .. n : T[j] # "wind"
                          /\ d + Count(T, "before_after", w) = k + Count(T, "before_after", n)
  BY <1>1 DEF Trampoline
<1>3. Len(T2) = n + 1 /\ T2[n] = r /\ T2[n + 1] = q /\ \A j \in 1 .. n - 1 : T2[j] = T[j]
  BY <1>1 DEF Pushed
<1>4. Counted(T, T2, r, "before_after", n)
      /\ Count(T2, "before_after", n + 1) = Count(T2, "before_after", n)
  BY <1>1, CountPushed
<1>5. CASE w = n
  <2>1. r = "wind"
    BY <1>1, <1>2, <1>5
  <2>2. d = k
    <3>1. Trampoline(T, d, k) /\ T[n] = "wind"
      BY <1>2, <1>5
    <3> QED  BY <1>1, <3>1, TrampolineTop
  <2>3. Trampoline(T2, d, d)
    BY <2>1, TrampolineCalled
  <2> QED  BY <2>2, <2>3
<1>6. CASE w \in 1 .. n - 1
  <2>1. T[n] # "wind" /\ r # "wind"
    <3>1. n \in w + 1 .. n
      BY <1>6
    <3> QED  BY <1>1, <1>2, <3>1
  <2>2. T2[w] = "wind"
    BY <1>2, <1>3, <1>6
  <2>3. \A j \in w + 1 .. n + 1 : T2[j] # "wind"
    <3>1. \A j \in w + 1 .. n + 1 : j = n + 1 \/ j = n \/ (j \in 1 .. n - 1 /\ j \in w + 1 .. n)
      OBVIOUS
    <3> QED  BY <1>2, <1>3, <2>1, <3>1
  <2>4. Count(T2, "before_after", w) = Count(T, "before_after", w)
    <3>1. w \in 0 .. n - 1
      BY <1>6
    <3> QED  BY <1>4, <3>1 DEF Counted
  <2>5. Count(T2, "before_after", n + 1) = Count(T, "before_after", n)
    BY <1>1, <1>4 DEF Counted
  <2>6. w \in 1 .. n + 1
    OBVIOUS
  <2> QED  BY <1>2, <1>3, <2>2, <2>3, <2>4, <2>5, <2>6 DEF Trampoline
<1> QED  BY <1>5, <1>6

\* ... below a thunk that is called, ...
LEMMA TrampolineEnter ==
    ASSUME NEW T, NEW T2, NEW q, Len(T) \in Nat \ {0}, Pushed(T, T2, "before_after", q),
           q \notin {"wind", "before_after"}, T[Len(T)] \notin {"wind", "before_after"},
           NEW d \in Nat, NEW k \in Nat, Trampoline(T, d, k)
    PROVE  Trampoline(T2, d + 1, k)
<1>1. PICK n \in Nat \ {0} : n = Len(T)
  OBVIOUS
<1>2. PICK w \in 1 .. n : /\ T[w] = "wind" /\ \A j \in w + 1 .. n : T[j] # "wind"
                          /\ d + Count(T, "before_after", w) = k + Count(T, "before_after", n)
  BY <1>1 DEF Trampoline
<1>3. Len(T2) = n + 1 /\ T2[n] = "before_after" /\ T2[n + 1] = q /\ \A j \in 1 .. n - 1 : T2[j] = T[j]
  BY <1>1 DEF Pushed
<1>4. Counted(T, T2, "before_after", "before_after", n)
      /\ Count(T2, "before_after", n + 1) = Count(T2, "before_after", n)
  BY <1>1, CountPushed
<1>5. w \in 1 .. n - 1
  BY <1>1, <1>2
<1>6. T2[w] = "wind"
  BY <1>2, <1>3, <1>5
<1>7. \A j \in w + 1 .. n + 1 : T2[j] # "wind"
  <2>1. \A j \in w + 1 .. n + 1 : j = n + 1 \/ j = n \/ (j \in 1 .. n - 1 /\ j \in w + 1 .. n)
    OBVIOUS
  <2> QED  BY <1>2, <1>3, <2>1
<1>8. Count(T2, "before_after", w) = Count(T, "before_after", w) /\ Count(T, "before_after", w) \in Nat
  <2>1. w \in 0 .. n - 1 /\ w \in Nat
    BY <1>5
  <2> QED  BY <1>4, <2>1, CountNat DEF Counted
<1>9. /\ Count(T2, "before_after", n + 1) = Count(T, "before_after", n) + 1
      /\ Count(T, "before_after", n) \in Nat
  BY <1>1, <1>4 DEF Counted
<1>10. w \in 1 .. n + 1
  OBVIOUS
<1>11. (d + 1) + Count(T2, "before_after", w) = k + Count(T2, "before_after", n + 1)
  BY <1>2, <1>8, <1>9
<1> QED  BY <1>3, <1>6, <1>7, <1>10, <1>11 DEF Trampoline

\* ... below one that has returned and whose after is called, ...
LEMMA TrampolineLeave ==
    ASSUME NEW T, NEW T2, NEW r, NEW q, Len(T) \in Nat \ {0}, Pushed(T, T2, r, q),
           q \notin {"wind", "before_after"}, r \notin {"wind", "before_after"},
           T[Len(T)] = "before_after",
           NEW d \in Nat, NEW k \in Nat, Trampoline(T, d, k)
    PROVE  k + 1 <= d /\ Trampoline(T2, d - 1, k)
<1>1. PICK n \in Nat \ {0} : n = Len(T)
  OBVIOUS
<1>2. PICK w \in 1 .. n : /\ T[w] = "wind" /\ \A j \in w + 1 .. n : T[j] # "wind"
                          /\ d + Count(T, "before_after", w) = k + Count(T, "before_after", n)
  BY <1>1 DEF Trampoline
<1>3. Len(T2) = n + 1 /\ T2[n] = r /\ T2[n + 1] = q /\ \A j \in 1 .. n - 1 : T2[j] = T[j]
  BY <1>1 DEF Pushed
<1>4. Counted(T, T2, r, "before_after", n)
      /\ Count(T2, "before_after", n + 1) = Count(T2, "before_after", n)
  BY <1>1, CountPushed
<1>5. w \in 1 .. n - 1
  BY <1>1, <1>2
<1>6. T2[w] = "wind"
  BY <1>2, <1>3, <1>5
<1>7. \A j \in w + 1 .. n + 1 : T2[j] # "wind"
  <2>1. \A j \in w + 1 .. n + 1 : j = n + 1 \/ j = n \/ (j \in 1 .. n - 1 /\ j \in w + 1 .. n)
    OBVIOUS
  <2> QED  BY <1>2, <1>3, <2>1
<1>8. Count(T2, "before_after", w) = Count(T, "before_after", w) /\ Count(T, "before_after", w) \in Nat
  <2>1. w \in 0 .. n - 1 /\ w \in Nat
    BY <1>5
  <2> QED  BY <1>4, <2>1, CountNat DEF Counted
<1>9. PICK c \in Nat : /\ Count(T2, "before_after", n + 1) = c
                       /\ Count(T, "before_after", n) = c + 1
  BY <1>1, <1>4 DEF Counted
<1>10. w \in 1 .. n + 1
  OBVIOUS
<1>11. Count(T, "before_after", w) <= c
  <2>1. w \in Nat /\ n - 1 \in Nat /\ w <= n - 1
    BY <1>5
  <2>2. Count(T, "before_after", w) <= Count(T, "before_after", n - 1)
    BY <2>1, CountGrows
  <2>3. Count(T, "before_after", n - 1) \in Nat
        /\ Count(T, "before_after", n) = Count(T, "before_after", n - 1) + 1
    BY <1>1, <1>4 DEF Counted
  <2> QED  BY <1>9, <2>2, <2>3
<1>12. k + 1 <= d /\ (d - 1) + Count(T2, "before_after", w) = k + Count(T2, "before_after", n + 1)
  BY <1>2, <1>8, <1>9, <1>11
<1> QED  BY <1>3, <1>6, <1>7, <1>10, <1>12 DEF Trampoline

\* ... below another instruction, ...
LEMMA TrampolineBelow ==
    ASSUME NEW T, NEW T2, NEW q, Len(T) \in Nat \ {0}, Topped(T, T2, q),
           q \notin {"wind", "before_after"}, T[Len(T)] \notin {"wind", "before_after"},
           NEW d \in Nat, NEW k \in Nat, Trampoline(T, d, k)
    PROVE  Trampoline(T2, d, k)
<1>1. PICK n \in Nat \ {0} : n = Len(T)
  OBVIOUS
<1>2. PICK w \in 1 .. n : /\ T[w] = "wind" /\ \A j \in w + 1 .. n : T[j] # "wind"
                          /\ d + Count(T, "before_after", w) = k + Count(T, "before_after", n)
  BY <1>1 DEF Trampoline
<1>3. Len(T2) = n /\ T2[n] = q /\ \A j \in 1 .. n - 1 : T2[j] = T[j]
  BY <1>1 DEF Topped
<1>4. Counted(T, T2, q, "before_after", n)
  BY <1>1, CountTopped
<1>5. w \in 1 .. n - 1
  BY <1>1, <1>2
<1>6. T2[w] = "wind"
  BY <1>2, <1>3, <1>5
<1>7. \A j \in w + 1 .. n : T2[j] # "wind"
  <2>1. \A j \in w + 1 .. n : j = n \/ (j \in 1 .. n - 1 /\ j \in w + 1 .. n)
    OBVIOUS
  <2> QED  BY <1>2, <1>3, <2>1
<1>8. Count(T2, "before_after", w) = Count(T, "before_after", w)
  <2>1. w \in 0 .. n - 1
    BY <1>5
  <2> QED  BY <1>4, <2>1 DEF Counted
<1>9. Count(T2, "before_after", n) = Count(T, "before_after", n)
  BY <1>1, <1>4 DEF Counted
<1> QED  BY <1>2, <1>3, <1>6, <1>7, <1>8, <1>9 DEF Trampoline

\* ... and below a return.
LEMMA TrampolineReturn ==
    ASSUME NEW T, NEW T2, Len(T) \in Nat \ {0}, Popped(T, T2),
           T[Len(T)] \notin {"wind", "before_after"},
           NEW d \in Nat, NEW k \in Nat, Trampoline(T, d, k)
    PROVE  Trampoline(T2, d, k)
<1>1. PICK n \in Nat \ {0} : n = Len(T)
  OBVIOUS
<1>2. PICK w \in 1 .. n : /\ T[w] = "wind" /\ \A j \in w + 1 .. n : T[j] # "wind"
                          /\ d + Count(T, "before_after", w) = k + Count(T, "before_after", n)
  BY <1>1 DEF Trampoline
<1>3. Len(T2) = n - 1 /\ \A j \in 1 .. n - 1 : T2[j] = T[j]
  BY <1>1 DEF Popped
<1>4. T[n] # "before_after"
  BY <1>1
<1>5. /\ \A i \in 0 .. n - 1 : Count(T2, "before_after", i) = Count(T, "before_after", i)
      /\ Count(T2, "before_after", n - 1) = Count(T, "before_after", n)
  <2>1. PICK x : x = "before_after"
    OBVIOUS
  <2>2. T[n] # x
    BY <1>4, <2>1
  <2>3. /\ \A i \in 0 .. n - 1 : Count(T2, x, i) = Count(T, x, i)
        /\ Count(T2, x, n - 1) = Count(T, x, n)
    BY <1>1, <2>2, CountPopped
  <2> QED  BY <2>1, <2>3
<1>6. w \in 1 .. n - 1 /\ w \in 0 .. n - 1
  BY <1>1, <1>2
<1>7. T2[w] = "wind"
  BY <1>2, <1>3, <1>6
<1>8. \A j \in w + 1 .. n - 1 : T2[j] # "wind"
  <2>1. \A j \in w + 1 .. n - 1 : j \in 1 .. n - 1 /\ j \in w + 1 .. n
    OBVIOUS
  <2> QED  BY <1>2, <1>3, <2>1
<1> QED  BY <1>2, <1>3, <1>5, <1>6, <1>7, <1>8 DEF Trampoline

\* The wind stack holds all that is entered and still to be left.
LEMMA TrampolineRoom ==
    ASSUME NEW T, Len(T) \in Nat \ {0}, NEW d \in Nat, NEW k \in Nat, Trampoline(T, d, k)
    PROVE  k <= d
<1>1. PICK n \in Nat \ {0} : n = Len(T)
  OBVIOUS
<1>2. PICK w \in 1 .. n : d + Count(T, "before_after", w) = k + Count(T, "before_after", n)
  BY <1>1 DEF Trampoline
<1>3. w \in Nat /\ w <= n
  OBVIOUS
<1>4. /\ Count(T, "before_after", w) <= Count(T, "before_after", n)
      /\ Count(T, "before_after", w) \in Nat /\ Count(T, "before_after", n) \in Nat
  BY <1>3, CountGrows, CountNat
<1> QED  BY <1>2, <1>4

\* What happens above a wind leaves it as it was, ...
LEMMA FitsAlike ==
    ASSUME NEW T, NEW T2, NEW dw, NEW tg, NEW fs, NEW bs, NEW ws,
           NEW l \in Nat, l = Len(dw), NEW a \in Nat, a = Len(fs),
           \A d, k \in Nat : Trampoline(T, d, k) => Trampoline(T2, d, k),
           WindFits(T, dw, tg, fs, bs, ws)
    PROVE  WindFits(T2, dw, tg, fs, bs, ws)
<1>1. PICK m \in Nat :
        /\ m <= Len(dw) /\ m + Len(bs) = Len(tg)
        /\ \A i \in 1 .. m : dw[i] = tg[i]
        /\ \A i \in 1 .. Len(bs) : bs[i] = tg[m + i]
        /\ ws > 1 => fs = <<>>
        /\ ws > 2 => bs = <<>>
        /\ Trampoline(T, Len(dw), m + Len(fs))
  BY DEF WindFits
<1>2. m + a \in Nat /\ Trampoline(T, l, m + a)
  BY <1>1
<1>3. Trampoline(T2, Len(dw), m + Len(fs))
  BY <1>2
<1> QED  BY <1>1, <1>3, Zenon DEF WindFits

\* ... and so does what changes the wind stack further up.
LEMMA FitsAbove ==
    ASSUME NEW T, NEW T2, NEW dw, NEW dw2, NEW tg, NEW fs, NEW bs, NEW ws,
           NEW l \in Nat, l = Len(dw), NEW l2 \in Nat, l2 = Len(dw2), NEW a \in Nat, a = Len(fs),
           \A k \in Nat : Trampoline(T, l, k) => k <= l2 /\ Trampoline(T2, l2, k),
           \A i \in 1 .. l : i <= l2 => dw2[i] = dw[i],
           WindFits(T, dw, tg, fs, bs, ws)
    PROVE  WindFits(T2, dw2, tg, fs, bs, ws)
<1>1. PICK m \in Nat :
        /\ m <= Len(dw) /\ m + Len(bs) = Len(tg)
        /\ \A i \in 1 .. m : dw[i] = tg[i]
        /\ \A i \in 1 .. Len(bs) : bs[i] = tg[m + i]
        /\ ws > 1 => fs = <<>>
        /\ ws > 2 => bs = <<>>
        /\ Trampoline(T, Len(dw), m + Len(fs))
  BY DEF WindFits
<1>2. m + a \in Nat /\ Trampoline(T, l, m + a)
  BY <1>1
<1>3. m + a <= l2 /\ Trampoline(T2, Len(dw2), m + Len(fs))
  BY <1>2
<1>4. m <= Len(dw2) /\ m <= l2
  BY <1>3
<1>5. \A i \in 1 .. m : dw2[i] = tg[i]
  <2>1. \A i \in 1 .. m : i \in 1 .. l /\ i <= l2
    BY <1>1, <1>4
  <2> QED  BY <1>1, <2>1
<1> QED  BY <1>1, <1>3, <1>4, <1>5, Zenon DEF WindFits

\* The wind that a call of a continuation starts.
LEMMA FitsStart ==
    ASSUME NEW S, NEW T, NEW n \in Nat \ {0}, n = Len(T), T[n] = "wind",
           NEW dw \in Seq(S), NEW tg \in Seq(S)
    PROVE  LET m == CommonPrefix(dw, tg)
           IN  WindFits(T, dw, tg, Reverse(SubSeq(dw, m + 1, Len(dw))), SubSeq(tg, m + 1, Len(tg)), 1)
<1>1. PICK m \in Nat : m = CommonPrefix(dw, tg)
  BY SharedPrefix
<1>2. m <= Len(dw) /\ m <= Len(tg) /\ \A i \in 1 .. m : dw[i] = tg[i]
  BY <1>1, SharedPrefix
<1>3. PICK fs \in Seq(S) : fs = Reverse(SubSeq(dw, m + 1, Len(dw))) /\ m + Len(fs) = Len(dw)
  <2>1. SubSeq(dw, m + 1, Len(dw)) \in Seq(S) /\ Len(SubSeq(dw, m + 1, Len(dw))) = Len(dw) - m
    BY <1>2, SubSeqProperties
  <2>2. PICK fs \in Seq(S) : fs = Reverse(SubSeq(dw, m + 1, Len(dw))) /\ Len(fs) = Len(dw) - m
    BY <2>1, Reversed
  <2>3. m + Len(fs) = Len(dw)
    BY <1>2, <2>2
  <2> QED  BY <2>2, <2>3
<1>4. PICK bs \in Seq(S) : /\ bs = SubSeq(tg, m + 1, Len(tg)) /\ m + Len(bs) = Len(tg)
                           /\ \A i \in 1 .. Len(bs) : bs[i] = tg[m + i]
  <2>0. SubSeq(tg, m + 1, Len(tg)) \in Seq(S) /\ Len(SubSeq(tg, m + 1, Len(tg))) = Len(tg) - m
    BY <1>2, SubSeqProperties
  <2>1. PICK bs \in Seq(S) : bs = SubSeq(tg, m + 1, Len(tg)) /\ Len(bs) = Len(tg) - m
    BY <2>0, Zenon
  <2>2. \A i \in 1 .. Len(tg) - m : bs[i] = tg[m + i]
    BY <1>2, <2>1
  <2>3. m + Len(bs) = Len(tg)
    BY <1>2, <2>1
  <2> QED  BY <2>1, <2>2, <2>3
<1>5. Trampoline(T, Len(dw), Len(dw))
  BY TrampolineTop
<1>6. WindFits(T, dw, tg, fs, bs, 1)
  <2>1. Trampoline(T, Len(dw), m + Len(fs))
    BY <1>3, <1>5, Zenon
  <2>2. ~(1 > 1) /\ ~(1 > 2)
    OBVIOUS
  <2> QED  BY <1>2, <1>4, <2>1, <2>2, Zenon DEF WindFits
<1> QED  BY <1>1, <1>3, <1>4, <1>6

\* The trampoline goes on to its next state, ...
LEMMA FitsNext ==
    ASSUME NEW T, NEW dw, NEW tg, NEW fs, NEW bs, NEW ws \in {1, 2},
           WindFits(T, dw, tg, fs, bs, ws), ws = 1 => fs = <<>>, ws = 2 => bs = <<>>
    PROVE  WindFits(T, dw, tg, fs, bs, ws + 1)
<1>1. ws + 1 > 2 => bs = <<>>
  OBVIOUS
<1>2. fs = <<>>
  <2>1. ws > 1 => fs = <<>>
    BY Zenon DEF WindFits
  <2> QED  BY <2>1
<1>3. PICK m \in Nat :
        /\ m <= Len(dw) /\ m + Len(bs) = Len(tg)
        /\ \A i \in 1 .. m : dw[i] = tg[i]
        /\ \A i \in 1 .. Len(bs) : bs[i] = tg[m + i]
        /\ Trampoline(T, Len(dw), m + Len(fs))
  BY DEF WindFits
<1> QED  BY <1>1, <1>2, <1>3, Zenon DEF WindFits

\* ... calls an after, ...
LEMMA FitsAfter ==
    ASSUME NEW S, NEW T, NEW T2, NEW n \in Nat \ {0}, n = Len(T), T[n] = "wind",
           NEW q, Pushed(T, T2, "wind", q), q \notin {"wind", "before_after"},
           NEW dw \in Seq(S), NEW fs \in Seq(S), NEW tg, NEW bs, Len(bs) \in Nat,
           WindFits(T, dw, tg, fs, bs, 1), fs # <<>>, dw # <<>>
    PROVE  WindFits(T2, Front(dw), tg, Front(fs), bs, 1)
<1>1. PICK m \in Nat :
        /\ m <= Len(dw) /\ m + Len(bs) = Len(tg)
        /\ \A i \in 1 .. m : dw[i] = tg[i]
        /\ \A i \in 1 .. Len(bs) : bs[i] = tg[m + i]
        /\ Trampoline(T, Len(dw), m + Len(fs))
  BY DEF WindFits
<1>2. PICK d \in Nat : d = Len(dw)
  OBVIOUS
<1>3. PICK a \in Nat \ {0} : a = Len(fs)
  <2>1. Len(fs) \in Nat /\ Len(fs) >= 1
    BY Ends
  <2> QED  BY <2>1
<1>4. d = m + a
  <2>1. m + a \in Nat /\ Trampoline(T, d, m + a)
    BY <1>1, <1>2, <1>3
  <2> QED  BY <2>1, TrampolineTop
<1>5. PICK dw2 \in Seq(S) : /\ dw2 = Front(dw) /\ Len(dw2) = m + (a - 1)
                            /\ \A i \in 1 .. m : dw2[i] = dw[i]
  <2>1. Front(dw) \in Seq(S) /\ Len(Front(dw)) = d - 1 /\ \A i \in 1 .. d - 1 : Front(dw)[i] = dw[i]
    BY <1>2, Ends
  <2>2. d - 1 = m + (a - 1) /\ \A i \in 1 .. m : i \in 1 .. d - 1
    BY <1>4
  <2> QED  BY <2>1, <2>2
<1>6. PICK fs2 \in Seq(S) : fs2 = Front(fs) /\ Len(fs2) = a - 1
  BY <1>3, Ends
<1>7. Trampoline(T2, m + (a - 1), m + (a - 1))
  <2>1. Len(T) \in Nat \ {0} /\ m + (a - 1) \in Nat
    OBVIOUS
  <2> QED  BY <2>1, TrampolineCalled
<1>8. m <= Len(dw2) /\ \A i \in 1 .. m : dw2[i] = tg[i]
  BY <1>1, <1>5
<1>9. Trampoline(T2, Len(dw2), m + Len(fs2))
  BY <1>5, <1>6, <1>7
<1>10. WindFits(T2, dw2, tg, fs2, bs, 1)
  BY <1>1, <1>8, <1>9 DEF WindFits
<1> QED  BY <1>5, <1>6, <1>10

\* ... or a before, ...
LEMMA FitsBefore ==
    ASSUME NEW S, NEW T, NEW T2, NEW n \in Nat \ {0}, n = Len(T), T[n] = "wind",
           NEW q, Pushed(T, T2, "wind", q), q \notin {"wind", "before_after"},
           NEW dw \in Seq(S), NEW tg \in Seq(S), NEW fs, NEW bs \in Seq(S),
           WindFits(T, dw, tg, fs, bs, 2), bs # <<>>
    PROVE  WindFits(T2, Append(dw, Head(bs)), tg, fs, Tail(bs), 2)
<1>1. PICK m \in Nat :
        /\ m <= Len(dw) /\ m + Len(bs) = Len(tg)
        /\ \A i \in 1 .. m : dw[i] = tg[i]
        /\ \A i \in 1 .. Len(bs) : bs[i] = tg[m + i]
        /\ fs = <<>>
        /\ Trampoline(T, Len(dw), m + Len(fs))
  BY SMTT(20) DEF WindFits
<1>2. PICK b \in Nat \ {0} : b = Len(bs)
  BY Ends
<1>3. Len(dw) = m
  <2>1. m + Len(fs) = m /\ Len(dw) \in Nat
    BY <1>1
  <2> QED  BY <1>1, <2>1, TrampolineTop
<1>4. PICK e \in S : e = Head(bs) /\ e = tg[m + 1]
  <2>1. Head(bs) \in S /\ Head(bs) = bs[1] /\ 1 \in 1 .. b
    BY <1>2, Ends
  <2> QED  BY <1>1, <1>2, <2>1
<1>5. PICK dw2 : dw2 = Append(dw, e)
  OBVIOUS
<1>6. /\ Len(dw2) = m + 1 /\ dw2[m + 1] = e
      /\ \A i \in 1 .. m : dw2[i] = dw[i]
  BY <1>3, <1>5, AppendProperties
<1>7. PICK bs2 : bs2 = Tail(bs)
  OBVIOUS
<1>8. Len(bs2) = b - 1 /\ \A i \in 1 .. b - 1 : bs2[i] = bs[i + 1]
  BY <1>2, <1>7
<1>9. \A i \in 1 .. b - 1 : bs2[i] = tg[(m + 1) + i]
  <2> SUFFICES ASSUME NEW i \in 1 .. b - 1 PROVE bs2[i] = tg[(m + 1) + i]
    OBVIOUS
  <2>1. i + 1 \in 1 .. b /\ m + (i + 1) = (m + 1) + i
    OBVIOUS
  <2> QED  BY <1>1, <1>2, <1>8, <2>1
<1>10. \A i \in 1 .. m + 1 : dw2[i] = tg[i]
  <2>1. \A i \in 1 .. m + 1 : i = m + 1 \/ i \in 1 .. m
    OBVIOUS
  <2> QED  BY <1>1, <1>4, <1>6, <2>1
<1>11. (m + 1) + (b - 1) = m + b /\ m + 1 \in Nat
  OBVIOUS
<1>12. Trampoline(T2, m + 1, m + 1)
  <2>1. Len(T) \in Nat \ {0}
    OBVIOUS
  <2> QED  BY <1>11, <2>1, TrampolineCalled
<1>13. (m + 1) + Len(fs) = m + 1
  BY <1>1
<1>14. WindFits(T2, dw2, tg, fs, bs2, 2)
  <2>1. m + 1 <= Len(dw2) /\ (m + 1) + Len(bs2) = Len(tg) /\ ~(2 > 2)
    BY <1>1, <1>2, <1>6, <1>8, <1>11
  <2>2. \A i \in 1 .. Len(bs2) : bs2[i] = tg[(m + 1) + i]
    BY <1>8, <1>9
  <2>3. Trampoline(T2, Len(dw2), (m + 1) + Len(fs))
    BY <1>6, <1>12, <1>13
  <2> QED  BY <1>1, <1>10, <1>11, <2>1, <2>2, <2>3, Zenon DEF WindFits
<1> QED  BY <1>4, <1>5, <1>7, <1>14

\* ... and ends on the wind stack it was to reach.
LEMMA FitsEnd ==
    ASSUME NEW S, NEW T, NEW n \in Nat \ {0}, n = Len(T), T[n] = "wind",
           NEW dw \in Seq(S), NEW tg \in Seq(S), NEW fs, NEW bs,
           WindFits(T, dw, tg, fs, bs, 3)
    PROVE  dw = tg
<1>1. PICK m \in Nat :
        /\ m <= Len(dw) /\ m + Len(bs) = Len(tg)
        /\ \A i \in 1 .. m : dw[i] = tg[i]
        /\ fs = <<>> /\ bs = <<>>
        /\ Trampoline(T, Len(dw), m + Len(fs))
  BY DEF WindFits
<1>2. m + Len(fs) = m /\ m + Len(bs) = m /\ Len(dw) \in Nat
  BY <1>1
<1>3. Len(dw) = m
  BY <1>1, <1>2, TrampolineTop
<1>4. Len(tg) = m
  BY <1>1, <1>2
<1> QED  BY <1>1, <1>3, <1>4

\* A call does not start or end a wind, ...
LEMMA HasWindCall ==
    ASSUME NEW T, NEW T2, NEW r, NEW q, Len(T) \in Nat \ {0}, Pushed(T, T2, r, q),
           q # "wind", r = "wind" <=> T[Len(T)] = "wind"
    PROVE  HasWind(T2) <=> HasWind(T)
<1>1. PICK n \in Nat \ {0} : n = Len(T)
  OBVIOUS
<1>2. /\ Len(T2) = n + 1 /\ T2[n + 1] # "wind" /\ (T2[n] = "wind" <=> T[n] = "wind")
      /\ \A j \in 1 .. n - 1 : T2[j] = T[j]
  BY <1>1 DEF Pushed
<1>3. \A j \in 1 .. n + 1 : j \in 1 .. n - 1 \/ j = n \/ j = n + 1
  OBVIOUS
<1>4. \A j \in 1 .. n : (j \in 1 .. n - 1 \/ j = n) /\ j \in 1 .. n + 1
  OBVIOUS
<1>5. n \in 1 .. n /\ \A j \in 1 .. n - 1 : j \in 1 .. n
  OBVIOUS
<1>6. ASSUME HasWind(T2) PROVE HasWind(T)
  BY <1>1, <1>2, <1>3, <1>5, <1>6 DEF HasWind
<1>7. ASSUME HasWind(T) PROVE HasWind(T2)
  BY <1>1, <1>2, <1>4, <1>7 DEF HasWind
<1> QED  BY <1>6, <1>7

\* ... nor does another instruction, ...
LEMMA HasWindTop ==
    ASSUME NEW T, NEW T2, NEW q, Len(T) \in Nat \ {0}, Topped(T, T2, q),
           q # "wind", T[Len(T)] # "wind"
    PROVE  HasWind(T2) <=> HasWind(T)
<1>1. PICK n \in Nat \ {0} : n = Len(T)
  OBVIOUS
<1>2. /\ Len(T2) = n /\ T2[n] # "wind" /\ T[n] # "wind"
      /\ \A j \in 1 .. n - 1 : T2[j] = T[j]
  BY <1>1 DEF Topped
<1>3. \A j \in 1 .. n : j \in 1 .. n - 1 \/ j = n
  OBVIOUS
<1>4. ASSUME HasWind(T2) PROVE HasWind(T)
  BY <1>1, <1>2, <1>3, <1>4 DEF HasWind
<1>5. ASSUME HasWind(T) PROVE HasWind(T2)
  BY <1>1, <1>2, <1>3, <1>5 DEF HasWind
<1> QED  BY <1>4, <1>5

\* ... nor a return.
LEMMA HasWindReturn ==
    ASSUME NEW T, NEW T2, Len(T) \in Nat \ {0}, Popped(T, T2), T[Len(T)] # "wind"
    PROVE  HasWind(T2) <=> HasWind(T)
<1>1. PICK n \in Nat \ {0} : n = Len(T)
  OBVIOUS
<1>2. Len(T2) = n - 1 /\ T[n] # "wind" /\ \A j \in 1 .. n - 1 : T2[j] = T[j]
  BY <1>1 DEF Popped
<1>3. \A j \in 1 .. n : j \in 1 .. n - 1 \/ j = n
  OBVIOUS
<1>4. \A j \in 1 .. n - 1 : j \in 1 .. n
  OBVIOUS
<1>5. ASSUME HasWind(T2) PROVE HasWind(T)
  BY <1>1, <1>2, <1>4, <1>5 DEF HasWind
<1>6. ASSUME HasWind(T) PROVE HasWind(T2)
  BY <1>1, <1>2, <1>3, <1>6 DEF HasWind
<1> QED  BY <1>5, <1>6

\* What the properties call a wind.
LEMMA HasWindIs ==
    ASSUME NEW X, NEW stack \in Seq(X), NEW i
    PROVE  HasWind(Todo(stack, i)) <=> InWind(stack) \/ i = "wind"
<1>1. PICK n \in Nat : n = Len(stack) /\ DOMAIN stack = 1 .. n
  OBVIOUS
<1>2. PICK T : T = Todo(stack, i)
  OBVIOUS
<1>3. Len(T) = n + 1 /\ T[n + 1] = i /\ \A k \in 1 .. n : T[k] = stack[k].ret
  BY <1>1, <1>2, TodoIs
<1>4. \A j \in 1 .. n + 1 : j \in 1 .. n \/ j = n + 1
  OBVIOUS
<1>5. n + 1 \in 1 .. n + 1 /\ \A j \in 1 .. n : j \in 1 .. n + 1
  OBVIOUS
<1>6. ASSUME HasWind(T) PROVE InWind(stack) \/ i = "wind"
  BY <1>1, <1>3, <1>4, <1>6 DEF HasWind, InWind
<1>7. ASSUME InWind(stack) \/ i = "wind" PROVE HasWind(T)
  BY <1>1, <1>3, <1>5, <1>7 DEF HasWind, InWind
<1> QED  BY <1>2, <1>6, <1>7

\* A continuation keeps its stacks and its closure.
LEMMA ContsKept ==
    ASSUME Types, [Next]_vars
    PROVE  \A i \in DOMAIN conts :
              /\ i \in DOMAIN conts' /\ conts'[i].fstack = conts[i].fstack
              /\ conts'[i].closure = conts[i].closure /\ conts'[i].dwStack = conts[i].dwStack
              /\ conts'[i].opstack = conts[i].opstack
<1>1. conts \in Seq(SavedOf(Len(entries)))
  BY DEF Types, TypesOf
<1>2. CASE Fork
  <2>1. conts' = [i \in DOMAIN conts |->
                   [conts[i] EXCEPT !.afterStack = <<>>, !.entryReg = 0, !.thunkReg = 0]]
    BY <1>2 DEF Fork
  <2>2. ASSUME NEW i \in DOMAIN conts
        PROVE  /\ i \in DOMAIN conts' /\ conts'[i].fstack = conts[i].fstack
               /\ conts'[i].closure = conts[i].closure /\ conts'[i].dwStack = conts[i].dwStack
               /\ conts'[i].opstack = conts[i].opstack
    <3>1. PICK k \in SavedOf(Len(entries)) : k = conts[i]
      BY <1>1, ElementOfSeq
    <3>2. PICK none : none = <<>>
      OBVIOUS
    <3>3. PICK k2 : k2 = [k EXCEPT !.afterStack = none, !.entryReg = 0, !.thunkReg = 0]
      OBVIOUS
    <3>4. conts'[i] = k2 /\ i \in DOMAIN conts'
      BY <2>1, <3>1, <3>2, <3>3, Zenon
    <3>5. k2.fstack = k.fstack /\ k2.closure = k.closure /\ k2.dwStack = k.dwStack /\ k2.opstack = k.opstack
      BY <3>3 DEF SavedOf
    <3> QED  BY <3>1, <3>4, <3>5
  <2> QED  BY <2>2
<1>3. CASE Capture
  <2>1. PICK k : conts' = Append(conts, k)
    BY <1>3 DEF Capture
  <2>2. \A i \in DOMAIN conts : i \in DOMAIN conts' /\ conts'[i] = conts[i]
    BY <1>1, <2>1, AppendProperties
  <2> QED  BY <2>2
<1>4. CASE UNCHANGED conts
  BY <1>4
<1>5. Fork \/ Capture \/ UNCHANGED conts
  BY DEF Next, User, Instruction, vars, stackVars, Push, Return, DynamicWind, CallContinuation,
         TimerCallback, AfterBefore, BeforeAfter, Done, WindAfter, WindBefore, WindNext,
         WindRestore, WindIllegal
<1> QED  BY <1>2, <1>3, <1>4, <1>5

\* The wind that is under way.
Winding == WindFits(Now, dwStack, conts[pending.cont].dwStack,
                    pending.afters, pending.befores, windState)

\* The wind stack fits the function stack when no wind is under way, and what
\* the wind has still to do when one is.
Extents ==
    NoneCapturedInWind =>
      /\ pc # "failed" /\ ~HasWind(Now) => Matched(Now, NowIn, dwStack, "before_after", "thunk")
      /\ pc # "failed" /\ HasWind(Now) /\ windState # 0 => Winding
      /\ \A i \in DOMAIN conts :
            Matched(Todo(conts[i].fstack, "body"), In(conts[i].fstack, conts[i].closure),
                    conts[i].dwStack, "before_after", "thunk")

\* Its parts are sequences of entries.
LEMMA WindingTyped ==
    ASSUME Types, windState # 0
    PROVE  /\ pending.cont \in DOMAIN conts /\ dwStack \in Seq(1 .. Len(entries))
           /\ conts[pending.cont].dwStack \in Seq(1 .. Len(entries))
           /\ pending.afters \in Seq(1 .. Len(entries)) /\ pending.befores \in Seq(1 .. Len(entries))
<1>1. /\ pending.cont \in DOMAIN conts /\ dwStack \in Seq(1 .. Len(entries))
      /\ pending.afters \in Seq(1 .. Len(entries)) /\ pending.befores \in Seq(1 .. Len(entries))
  BY DEF Types, TypesOf, Counters, PendingOf
<1>2. conts[pending.cont] \in SavedOf(Len(entries))
  BY <1>1, ElementOfSeq DEF Types, TypesOf
<1> QED  BY <1>1, <1>2 DEF SavedOf

\* A step that is no business of the extents, ...
LEMMA ExtentsAlike ==
    ASSUME Types, Extents, NoneCapturedInWind, pc # "failed",
           UNCHANGED <<dwStack, conts, windState, pending>>,
           HasWind(Now') <=> HasWind(Now),
           \A d, k \in Nat : Trampoline(Now, d, k) => Trampoline(Now', d, k),
           Matched(Now, NowIn, dwStack, "before_after", "thunk") =>
              Matched(Now', NowIn', dwStack, "before_after", "thunk")
    PROVE  Extents'
<1>1. CASE ~HasWind(Now)
  BY <1>1 DEF Extents
<1>2. CASE HasWind(Now) /\ windState = 0
  BY <1>2 DEF Extents
<1>3. CASE HasWind(Now) /\ windState # 0
  <2>1. PICK tg \in Seq(1 .. Len(entries)) : tg = conts[pending.cont].dwStack
    BY <1>3, WindingTyped
  <2>2. PICK fs \in Seq(1 .. Len(entries)) : fs = pending.afters
    BY <1>3, WindingTyped
  <2>3. PICK dw \in Seq(1 .. Len(entries)) : dw = dwStack
    BY <1>3, WindingTyped
  <2>4. WindFits(Now, dw, tg, fs, pending.befores, windState)
    BY <1>3, <2>1, <2>2, <2>3 DEF Extents, Winding
  <2>5. Len(dw) \in Nat /\ Len(fs) \in Nat
    OBVIOUS
  <2>6. WindFits(Now', dw, tg, fs, pending.befores, windState)
    BY <2>4, <2>5, FitsAlike
  <2>7. Winding'
    BY <2>1, <2>2, <2>3, <2>6 DEF Winding
  <2> QED  BY <1>3, <2>7 DEF Extents
<1> QED  BY <1>1, <1>2, <1>3

\* ... a call among them, ...
LEMMA ExtentsCall ==
    ASSUME Types, Extents, NoneCapturedInWind, pc # "failed",
           UNCHANGED <<dwStack, conts, windState, pending>>,
           NEW c, NEW ret \in Later, Call(c, ret),
           ret = pc \/ (pc = "body" /\ ret = "after_before"), ret = "before_after" => c = Callback
    PROVE  Extents'
<1>1. Len(Now) \in Nat \ {0} /\ Len(NowIn) = Len(Now) /\ Now[Len(Now)] = pc
  BY NowIs
<1>2. Pushed(Now, Now', ret, "body") /\ Opened(NowIn, NowIn', c)
  BY CallDoes
<1>3. /\ "body" \notin {"wind", "before_after"} /\ "body" # "wind" /\ "body" # "before_after"
      /\ ret = "wind" <=> Now[Len(Now)] = "wind"
      /\ ret = "before_after" <=> Now[Len(Now)] = "before_after"
  BY <1>1
<1>4. HasWind(Now') <=> HasWind(Now)
  BY <1>1, <1>2, <1>3, HasWindCall, Zenon
<1>5. ASSUME NEW d \in Nat, NEW k \in Nat, Trampoline(Now, d, k)
      PROVE  Trampoline(Now', d, k)
  BY <1>1, <1>2, <1>3, <1>5, TrampolineCall, Zenon
<1>6. ASSUME Matched(Now, NowIn, dwStack, "before_after", "thunk")
      PROVE  Matched(Now', NowIn', dwStack, "before_after", "thunk")
  BY <1>1, <1>2, <1>3, <1>6, MatchedCall, Zenon
<1> QED  BY <1>4, <1>5, <1>6, ExtentsAlike

\* ... and the next instruction, ...
LEMMA ExtentsTop ==
    ASSUME Types, Extents, NoneCapturedInWind, pc \in {"body", "done"},
           UNCHANGED <<dwStack, conts, windState, pending>>,
           NEW q \in {"body", "halt"}, Topped(Now, Now', q), NowIn' = NowIn
    PROVE  Extents'
<1>1. Len(Now) \in Nat \ {0} /\ Now[Len(Now)] = pc
  BY NowIs
<1>2. /\ q \notin {"wind", "before_after"} /\ q # "wind" /\ q # "before_after"
      /\ Now[Len(Now)] # "wind" /\ Now[Len(Now)] # "before_after"
      /\ Now[Len(Now)] \notin {"wind", "before_after"}
  BY <1>1
<1>3. HasWind(Now') <=> HasWind(Now)
  BY <1>1, <1>2, HasWindTop, Zenon
<1>4. ASSUME NEW d \in Nat, NEW k \in Nat, Trampoline(Now, d, k)
      PROVE  Trampoline(Now', d, k)
  BY <1>1, <1>2, <1>4, TrampolineBelow, Zenon
<1>5. ASSUME Matched(Now, NowIn, dwStack, "before_after", "thunk")
      PROVE  Matched(Now', NowIn', dwStack, "before_after", "thunk")
  <2>1. Matched(Now', NowIn, dwStack, "before_after", "thunk")
    BY <1>1, <1>2, <1>5, MatchedTop, Zenon
  <2> QED  BY <2>1
<1> QED  BY <1>3, <1>4, <1>5, ExtentsAlike

\* ... and a return.
LEMMA ExtentsReturn ==
    ASSUME Types, Extents, NoneCapturedInWind, pc = "body",
           UNCHANGED <<dwStack, conts, windState, pending>>,
           Popped(Now, Now'), Popped(NowIn, NowIn')
    PROVE  Extents'
<1>1. Len(Now) \in Nat \ {0} /\ Len(NowIn) = Len(Now) /\ Now[Len(Now)] = pc
  BY NowIs
<1>2. /\ Now[Len(Now)] # "wind" /\ Now[Len(Now)] # "before_after"
      /\ Now[Len(Now)] \notin {"wind", "before_after"}
  BY <1>1
<1>3. HasWind(Now') <=> HasWind(Now)
  BY <1>1, <1>2, HasWindReturn, Zenon
<1>4. ASSUME NEW d \in Nat, NEW k \in Nat, Trampoline(Now, d, k)
      PROVE  Trampoline(Now', d, k)
  BY <1>1, <1>2, <1>4, TrampolineReturn, Zenon
<1>5. ASSUME Matched(Now, NowIn, dwStack, "before_after", "thunk")
      PROVE  Matched(Now', NowIn', dwStack, "before_after", "thunk")
  BY <1>1, <1>2, <1>5, MatchedReturn, Zenon
<1> QED  BY <1>3, <1>4, <1>5, ExtentsAlike

\* A continuation is restored where the wind stack is its own: it fits.
LEMMA ExtentsRestored ==
    ASSUME Types, Extents, NoneCapturedInWind, UNCHANGED <<dwStack, conts>>,
           NEW i \in DOMAIN conts, NEW v, Restore(conts[i], v), dwStack = conts[i].dwStack
    PROVE  Extents'
<1>1. /\ Now' = Todo(conts[i].fstack, "body") /\ NowIn' = In(conts[i].fstack, conts[i].closure)
      /\ dwStack' = conts[i].dwStack
  BY DEF Restore, Now, NowIn
<1>2. Matched(Now', NowIn', dwStack', "before_after", "thunk")
  BY <1>1 DEF Extents
<1>3. ~HasWind(Now')
  <2>1. conts[i] \in SavedOf(Len(entries))
    BY ElementOfSeq DEF Types, TypesOf
  <2>2. conts[i].fstack \in Seq(FrameOf(Len(entries)))
    BY <2>1 DEF SavedOf
  <2>3. ~InWind(conts[i].fstack)
    BY DEF NoneCapturedInWind
  <2> QED  BY <1>1, <2>2, <2>3, HasWindIs
<1> QED  BY <1>2, <1>3 DEF Extents

\* Where the trampoline has come to its end, it is.
LEMMA WindEnded ==
    ASSUME Types, Extents, NoneCapturedInWind, pc = "wind", windState = 3
    PROVE  dwStack = conts[pending.cont].dwStack
<1>1. Len(Now) \in Nat \ {0} /\ Now[Len(Now)] = "wind"
  BY NowIs
<1>2. PICK n \in Nat \ {0} : n = Len(Now)
  BY <1>1
<1>3. HasWind(Now)
  <2>1. n \in 1 .. n
    OBVIOUS
  <2> QED  BY <1>1, <1>2, <2>1 DEF HasWind
<1>4. /\ dwStack \in Seq(1 .. Len(entries))
      /\ conts[pending.cont].dwStack \in Seq(1 .. Len(entries))
  BY WindingTyped
<1>5. WindFits(Now, dwStack, conts[pending.cont].dwStack, pending.afters, pending.befores, 3)
  BY <1>3 DEF Extents, Winding
<1> QED  BY <1>1, <1>2, <1>4, <1>5, FitsEnd

\* A call of a continuation that starts a wind starts it well.
LEMMA ExtentsStarted ==
    ASSUME Types, Extents, NoneCapturedInWind, pc = "body", UNCHANGED <<dwStack, conts>>,
           NEW i \in DOMAIN conts, NEW v,
           StartWind(Adjustment(i, v, CommonPrefix(dwStack, conts[i].dwStack)))
    PROVE  Extents'
<1>1. Len(Now) \in Nat \ {0} /\ Now[Len(Now)] = "body"
  BY NowIs
<1>2. PICK T : T = Now'
  OBVIOUS
<1>3. PICK n \in Nat \ {0} : n = Len(T) /\ T[n] = "wind"
  <2>1. CASE Pushed(Now, T, "body", "wind")
    <3>1. Len(T) = Len(Now) + 1 /\ T[Len(Now) + 1] = "wind"
      BY <2>1 DEF Pushed
    <3> QED  BY <1>1, <3>1
  <2>2. CASE Topped(Now, T, "wind")
    BY <1>1, <2>2 DEF Topped
  <2> QED  BY <1>2, <2>1, <2>2, StartDoes
<1>4. HasWind(T)
  <2>1. n \in 1 .. n
    OBVIOUS
  <2> QED  BY <1>3, <2>1 DEF HasWind
<1>5. PICK dw \in Seq(1 .. Len(entries)) : dw = dwStack
  BY DEF Types, TypesOf
<1>6. PICK tg \in Seq(1 .. Len(entries)) : tg = conts[i].dwStack
  <2>1. conts[i] \in SavedOf(Len(entries))
    BY ElementOfSeq DEF Types, TypesOf
  <2> QED  BY <2>1 DEF SavedOf
<1>7. PICK m : m = CommonPrefix(dw, tg)
  OBVIOUS
<1>8. WindFits(T, dw, tg, Reverse(SubSeq(dw, m + 1, Len(dw))), SubSeq(tg, m + 1, Len(tg)), 1)
  BY <1>3, <1>7, FitsStart
<1>9. /\ pending' = [cont |-> i, value |-> v,
                     afters |-> Reverse(SubSeq(dw, m + 1, Len(dw))),
                     befores |-> SubSeq(tg, m + 1, Len(tg))]
      /\ windState' = 1
  BY <1>5, <1>6, <1>7 DEF StartWind, Adjustment
<1>10. /\ pending'.cont = i
       /\ pending'.afters = Reverse(SubSeq(dw, m + 1, Len(dw)))
       /\ pending'.befores = SubSeq(tg, m + 1, Len(tg))
  BY <1>9
<1>11. Winding'
  BY <1>2, <1>5, <1>6, <1>8, <1>9, <1>10 DEF Winding
<1> QED  BY <1>2, <1>4, <1>11 DEF Extents

\* The trampoline goes on, ...
LEMMA ExtentsWind ==
    ASSUME Types, Extents, NoneCapturedInWind, WindAfter \/ WindBefore \/ WindNext
    PROVE  Extents'
<1> USE DEF stackVars, windVars, countVars
<1>1. Len(Now) \in Nat \ {0} /\ Now[Len(Now)] = "wind" /\ pc = "wind" /\ windState # 0
  BY NowIs DEF WindAfter, WindBefore, WindNext
<1>2. PICK n \in Nat \ {0} : n = Len(Now)
  BY <1>1
<1>3. HasWind(Now)
  <2>1. n \in 1 .. n
    OBVIOUS
  <2> QED  BY <1>1, <1>2, <2>1 DEF HasWind
<1>4. PICK dw \in Seq(1 .. Len(entries)) : dw = dwStack
  BY <1>1, WindingTyped
<1>5. PICK tg \in Seq(1 .. Len(entries)) : tg = conts[pending.cont].dwStack
  BY <1>1, WindingTyped
<1>6. PICK fs \in Seq(1 .. Len(entries)) : fs = pending.afters
  BY <1>1, WindingTyped
<1>7. PICK bs \in Seq(1 .. Len(entries)) : bs = pending.befores
  BY <1>1, WindingTyped
<1>8. WindFits(Now, dw, tg, fs, bs, windState)
  BY <1>1, <1>3, <1>4, <1>5, <1>6, <1>7 DEF Extents, Winding
<1>9. UNCHANGED conts
  BY DEF WindAfter, WindBefore, WindNext
<1>10. pending \in PendingOf(Len(entries))
  BY DEF Types, TypesOf
<1>11. ASSUME NEW c, Call(c, "wind")
       PROVE  /\ Pushed(Now, Now', "wind", "body") /\ HasWind(Now')
              /\ "body" \notin {"wind", "before_after"}
  <2>1. Pushed(Now, Now', "wind", "body")
    BY <1>11, CallDoes DEF Later
  <2>2. "body" # "wind"
    OBVIOUS
  <2>3. HasWind(Now')
    BY <1>1, <1>3, <2>1, <2>2, HasWindCall, Zenon
  <2> QED  BY <2>1, <2>3
<1>12. CASE WindAfter
  <2>1. PICK e : e = Last(fs)
    OBVIOUS
  <2>2. /\ windState = 1 /\ windState' = 1 /\ fs # <<>>
        /\ pending' = [pending EXCEPT !.afters = Front(fs)]
        /\ \/ pc' = "failed"
           \/ dw # <<>> /\ dwStack' = Front(dw) /\ Call(After(e), "wind")
    BY <1>4, <1>6, <1>12, <2>1 DEF WindAfter, Fail
  <2>3. CASE pc' = "failed"
    BY <1>9, <2>3 DEF Extents, NoneCapturedInWind
  <2>4. CASE dw # <<>> /\ dwStack' = Front(dw) /\ Call(After(e), "wind")
    <3>1. pending'.cont = pending.cont /\ pending'.befores = bs /\ pending'.afters = Front(fs)
      BY <1>7, <1>10, <2>2 DEF PendingOf
    <3>2. /\ Pushed(Now, Now', "wind", "body") /\ HasWind(Now')
          /\ "body" \notin {"wind", "before_after"}
      BY <1>11, <2>4
    <3>3. Len(bs) \in Nat /\ Now[n] = "wind" /\ WindFits(Now, dw, tg, fs, bs, 1)
      BY <1>1, <1>2, <1>8, <2>2
    <3>4. WindFits(Now', Front(dw), tg, Front(fs), bs, 1)
      BY <1>2, <2>2, <2>4, <3>2, <3>3, FitsAfter, Zenon
    <3>5. Winding'
      BY <1>5, <1>9, <2>2, <2>4, <3>1, <3>4 DEF Winding
    <3> QED  BY <1>9, <3>2, <3>5 DEF Extents, NoneCapturedInWind
  <2> QED  BY <2>2, <2>3, <2>4
<1>13. CASE WindBefore
  <2>1. PICK e : e = Head(bs)
    OBVIOUS
  <2>2. /\ windState = 2 /\ windState' = 2 /\ bs # <<>>
        /\ pending' = [pending EXCEPT !.befores = Tail(bs)]
        /\ dwStack' = Append(dw, e) /\ Call(Before(e), "wind")
    BY <1>4, <1>7, <1>13, <2>1 DEF WindBefore
  <2>3. pending'.cont = pending.cont /\ pending'.afters = fs /\ pending'.befores = Tail(bs)
    BY <1>6, <1>10, <2>2 DEF PendingOf
  <2>4. /\ Pushed(Now, Now', "wind", "body") /\ HasWind(Now')
        /\ "body" \notin {"wind", "before_after"}
    BY <1>11, <2>2
  <2>5. Now[n] = "wind" /\ WindFits(Now, dw, tg, fs, bs, 2)
    BY <1>1, <1>2, <1>8, <2>2
  <2>6. WindFits(Now', Append(dw, Head(bs)), tg, fs, Tail(bs), 2)
    BY <1>2, <2>2, <2>4, <2>5, FitsBefore, Zenon
  <2>7. Winding'
    BY <1>5, <1>9, <2>1, <2>2, <2>3, <2>6 DEF Winding
  <2> QED  BY <1>9, <2>4, <2>7 DEF Extents, NoneCapturedInWind
<1>14. CASE WindNext
  <2>1. /\ UNCHANGED <<pc, closure, fstack, dwStack, pending, conts>>
        /\ windState \in {1, 2} /\ windState' = windState + 1
        /\ windState = 1 => fs = <<>>
        /\ windState = 2 => bs = <<>>
    BY <1>6, <1>7, <1>14 DEF WindNext
  <2>2. WindFits(Now, dw, tg, fs, bs, windState + 1)
    BY <1>8, <2>1, FitsNext
  <2>3. Now' = Now /\ NowIn' = NowIn
    BY <2>1 DEF Now, NowIn
  <2>4. Winding'
    BY <1>4, <1>5, <1>6, <1>7, <2>1, <2>2, <2>3 DEF Winding
  <2> QED  BY <1>3, <1>9, <2>3, <2>4 DEF Extents, NoneCapturedInWind
<1> QED  BY <1>12, <1>13, <1>14

\* ... a thunk is entered, ...
LEMMA ExtentsEntered ==
    ASSUME Types, Extents, Registers, NoneCapturedInWind, AfterBefore
    PROVE  Extents'
<1> USE DEF stackVars, windVars, countVars
<1>1. /\ Len(Now) \in Nat \ {0} /\ Len(NowIn) = Len(Now)
      /\ Now[Len(Now)] = "after_before" /\ pc = "after_before"
  BY NowIs DEF AfterBefore
<1>2. UNCHANGED <<conts, windState, pending>>
  BY DEF AfterBefore
<1>3. CASE pc' = "failed"
  BY <1>2, <1>3 DEF Extents, NoneCapturedInWind
<1>4. CASE pc' # "failed"
  <2>1. PICK e \in 1 .. Len(entries) : e = entryReg /\ thunkReg = e
    <3>1. entryReg # 0 /\ entryReg \in 0 .. Len(entries)
      BY <1>4 DEF AfterBefore, Fail, Types, TypesOf
    <3>2. thunkReg = entryReg
      BY <1>1, <3>1 DEF Registers, RegisterFits
    <3>3. Len(entries) \in Nat
      BY DEF Types, Counters
    <3> QED  BY <3>1, <3>2, <3>3
  <2>2. PICK dw \in Seq(1 .. Len(entries)) : dw = dwStack
    BY DEF Types, TypesOf
  <2>3. dwStack' = Append(dw, e) /\ Call(Thunk(e), "before_after")
    BY <1>4, <2>1, <2>2 DEF AfterBefore, Fail
  <2>4. /\ Pushed(Now, Now', "before_after", "body")
        /\ Opened(NowIn, NowIn', [role |-> "thunk", entry |-> e])
    BY <2>3, CallDoes DEF Later, Thunk
  <2>5. /\ "body" \notin {"wind", "before_after"} /\ "body" # "wind" /\ "body" # "before_after"
        /\ "before_after" = "wind" <=> Now[Len(Now)] = "wind"
        /\ Now[Len(Now)] # "before_after" /\ Now[Len(Now)] \notin {"wind", "before_after"}
    BY <1>1
  <2>6. HasWind(Now') <=> HasWind(Now)
    BY <1>1, <2>4, <2>5, HasWindCall, Zenon
  <2>7. CASE ~HasWind(Now)
    <3>1. Matched(Now, NowIn, dw, "before_after", "thunk")
      BY <1>1, <2>2, <2>7 DEF Extents
    <3>2. Matched(Now', NowIn', Append(dw, e), "before_after", "thunk")
      BY <1>1, <2>4, <2>5, <3>1, MatchedEnter, Zenon
    <3> QED  BY <1>2, <2>3, <2>6, <2>7, <3>2 DEF Extents, NoneCapturedInWind
  <2>8. CASE HasWind(Now) /\ windState = 0
    BY <1>2, <2>6, <2>8 DEF Extents, NoneCapturedInWind
  <2>9. CASE HasWind(Now) /\ windState # 0
    <3>1. PICK tg \in Seq(1 .. Len(entries)) : tg = conts[pending.cont].dwStack
      BY <2>9, WindingTyped
    <3>2. PICK fs \in Seq(1 .. Len(entries)) : fs = pending.afters
      BY <2>9, WindingTyped
    <3>3. WindFits(Now, dw, tg, fs, pending.befores, windState)
      BY <1>1, <2>2, <2>9, <3>1, <3>2 DEF Extents, Winding
    <3>4. PICK l \in Nat : l = Len(dw)
      OBVIOUS
    <3>5. PICK a \in Nat : a = Len(fs)
      OBVIOUS
    <3>6. PICK dw2 : dw2 = Append(dw, e) /\ Len(dw2) = l + 1 /\ \A i \in 1 .. l : dw2[i] = dw[i]
      <4>1. PICK dw2 : dw2 = Append(dw, e)
        OBVIOUS
      <4>2. Len(dw2) = l + 1 /\ \A i \in 1 .. l : dw2[i] = dw[i]
        BY <3>4, <4>1, AppendProperties
      <4> QED  BY <4>1, <4>2, Zenon
    <3>7. ASSUME NEW k \in Nat, Trampoline(Now, l, k)
          PROVE  k <= l + 1 /\ Trampoline(Now', l + 1, k)
      <4>1. Trampoline(Now', l + 1, k)
        BY <1>1, <2>4, <2>5, <3>7, TrampolineEnter, Zenon
      <4>2. k <= l
        BY <1>1, <3>7, TrampolineRoom
      <4> QED  BY <4>1, <4>2
    <3>8. WindFits(Now', dw2, tg, fs, pending.befores, windState)
      <4>1. l + 1 \in Nat
        OBVIOUS
      <4>2. \A i \in 1 .. l : i <= l + 1 => dw2[i] = dw[i]
        BY <3>6
      <4>3. \A k \in Nat : Trampoline(Now, l, k) => k <= l + 1 /\ Trampoline(Now', l + 1, k)
        BY <3>7
      <4> QED  BY <3>3, <3>4, <3>5, <3>6, <4>1, <4>2, <4>3, FitsAbove
    <3>9. Winding'
      BY <1>2, <2>3, <3>1, <3>2, <3>6, <3>8 DEF Winding
    <3> QED  BY <1>2, <2>6, <2>9, <3>9 DEF Extents, NoneCapturedInWind
  <2> QED  BY <2>7, <2>8, <2>9
<1> QED  BY <1>3, <1>4

\* ... or left.
LEMMA ExtentsLeft ==
    ASSUME Types, Extents, NoneCapturedInWind, BeforeAfter
    PROVE  Extents'
<1> USE DEF stackVars, windVars, countVars
<1>1. /\ Len(Now) \in Nat \ {0} /\ Len(NowIn) = Len(Now)
      /\ Now[Len(Now)] = "before_after" /\ pc = "before_after"
  BY NowIs DEF BeforeAfter
<1>2. UNCHANGED <<conts, windState, pending>>
  BY DEF BeforeAfter
<1>3. CASE dwStack = <<>>
  BY <1>2, <1>3 DEF BeforeAfter, Fail, Extents, NoneCapturedInWind
<1>4. CASE dwStack # <<>>
  <2>1. PICK dw \in Seq(1 .. Len(entries)) : dw = dwStack /\ dw # <<>>
    BY <1>4 DEF Types, TypesOf
  <2>2. PICK e : e = Last(dwStack)
    OBVIOUS
  <2>3. dwStack' = Front(dw) /\ Call(After(e), "done")
    BY <1>4, <2>1, <2>2 DEF BeforeAfter
  <2>4. Pushed(Now, Now', "done", "body") /\ Opened(NowIn, NowIn', After(e))
    BY <2>3, CallDoes DEF Later
  <2>5. /\ "body" \notin {"wind", "before_after"} /\ "body" # "wind" /\ "body" # "before_after"
        /\ "done" = "wind" <=> Now[Len(Now)] = "wind"
        /\ "done" \notin {"wind", "before_after"} /\ "done" # "before_after"
    BY <1>1
  <2>6. HasWind(Now') <=> HasWind(Now)
    BY <1>1, <2>4, <2>5, HasWindCall, Zenon
  <2>7. CASE ~HasWind(Now)
    <3>1. Matched(Now, NowIn, dw, "before_after", "thunk")
      BY <1>1, <2>1, <2>7 DEF Extents
    <3>2. Matched(Now', NowIn', Front(dw), "before_after", "thunk")
      BY <1>1, <2>1, <2>4, <2>5, <3>1, MatchedLeave
    <3> QED  BY <1>2, <2>3, <2>6, <2>7, <3>2 DEF Extents, NoneCapturedInWind
  <2>8. CASE HasWind(Now) /\ windState = 0
    BY <1>2, <2>6, <2>8 DEF Extents, NoneCapturedInWind
  <2>9. CASE HasWind(Now) /\ windState # 0
    <3>1. PICK tg \in Seq(1 .. Len(entries)) : tg = conts[pending.cont].dwStack
      BY <2>9, WindingTyped
    <3>2. PICK fs \in Seq(1 .. Len(entries)) : fs = pending.afters
      BY <2>9, WindingTyped
    <3>3. WindFits(Now, dw, tg, fs, pending.befores, windState)
      BY <1>1, <2>1, <2>9, <3>1, <3>2 DEF Extents, Winding
    <3>4. PICK l \in Nat \ {0} : l = Len(dw)
      <4>1. Len(dw) \in Nat /\ Len(dw) >= 1
        BY <2>1, Ends
      <4> QED  BY <4>1
    <3>5. PICK a \in Nat : a = Len(fs)
      OBVIOUS
    <3>6. PICK dw2 : dw2 = Front(dw) /\ Len(dw2) = l - 1 /\ \A i \in 1 .. l - 1 : dw2[i] = dw[i]
      BY <2>1, <3>4, Ends, SMTT(20)
    <3>7. ASSUME NEW k \in Nat, Trampoline(Now, l, k)
          PROVE  k <= l - 1 /\ Trampoline(Now', l - 1, k)
      <4>1. l \in Nat
        OBVIOUS
      <4>2. k + 1 <= l /\ Trampoline(Now', l - 1, k)
        BY <1>1, <2>4, <2>5, <3>7, <4>1, TrampolineLeave, Zenon
      <4> QED  BY <4>2
    <3>8. WindFits(Now', dw2, tg, fs, pending.befores, windState)
      <4>1. l - 1 \in Nat /\ l \in Nat
        OBVIOUS
      <4>2. \A i \in 1 .. l : i <= l - 1 => dw2[i] = dw[i]
        BY <3>6
      <4>3. \A k \in Nat : Trampoline(Now, l, k) => k <= l - 1 /\ Trampoline(Now', l - 1, k)
        BY <3>7
      <4> QED  BY <3>3, <3>4, <3>5, <3>6, <4>1, <4>2, <4>3, FitsAbove
    <3>9. Winding'
      BY <1>2, <2>3, <3>1, <3>2, <3>6, <3>8 DEF Winding
    <3> QED  BY <1>2, <2>6, <2>9, <3>9 DEF Extents, NoneCapturedInWind
  <2> QED  BY <2>7, <2>8, <2>9
<1> QED  BY <1>3, <1>4

\* The extents fit throughout, as long as no continuation is captured in a wind.
LEMMA NextExtents == Types /\ Registers /\ Extents /\ [Next]_vars => Extents'
<1> SUFFICES ASSUME Types, Registers, Extents, [Next]_vars, NoneCapturedInWind' PROVE Extents'
  BY DEF Extents
<1> DEFINE Kept(k) == Matched(Todo(k.fstack, "body"), In(k.fstack, k.closure),
                              k.dwStack, "before_after", "thunk")
<1>1. NoneCapturedInWind
  BY ContsKept DEF NoneCapturedInWind
<1>2. \A i \in DOMAIN conts : Kept(conts[i])
  BY <1>1 DEF Extents
<1> USE DEF stackVars, windVars, countVars
<1>3. CASE UNCHANGED vars \/ (\E v \in Values : Push(v))
  <2>1. UNCHANGED <<pc, closure, fstack, dwStack, conts, windState, pending>>
    BY <1>3 DEF vars, Push
  <2> QED  BY <1>1, <2>1 DEF Extents, Winding, Now, NowIn
<1>4. CASE Return
  <2>1. pc = "body" /\ UNCHANGED <<dwStack, conts, windState, pending>>
    BY <1>4 DEF Return
  <2> QED  BY <1>1, <1>4, <2>1, ReturnDoes, ExtentsReturn, ExtentsTop
<1>5. CASE DynamicWind
  <2>1. /\ pc = "body" /\ Call(Before(Len(entries) + 1), "after_before")
        /\ UNCHANGED <<dwStack, conts, windState, pending>>
    BY <1>5 DEF DynamicWind
  <2> QED  BY <1>1, <2>1, ExtentsCall DEF Later
<1>6. CASE Capture
  <2> DEFINE k == [closure |-> closure, fstack |-> fstack, opstack |-> opstack,
                   dwStack |-> dwStack, afterStack |-> afterStack,
                   entryReg |-> entryReg, thunkReg |-> thunkReg]
  <2>1. /\ pc = "body" /\ conts' = Append(conts, k)
        /\ UNCHANGED <<pc, closure, fstack, dwStack, windState, pending>>
    BY <1>6 DEF Capture
  <2>2. k.fstack = fstack /\ k.closure = closure /\ k.dwStack = dwStack
    OBVIOUS
  <2> HIDE DEF k
  <2>3. conts \in Seq(SavedOf(Len(entries))) /\ fstack \in Seq(FrameOf(Len(entries)))
    BY DEF Types, TypesOf
  <2>4. Len(conts) + 1 \in DOMAIN conts' /\ conts'[Len(conts) + 1] = k
    BY <2>1, <2>3, AppendProperties
  <2>5. ~HasWind(Now)
    <3>1. ~InWind(fstack)
      BY <2>2, <2>4 DEF NoneCapturedInWind
    <3> QED  BY <2>1, <2>3, <3>1, HasWindIs DEF Now
  <2>6. Kept(k)
    BY <1>1, <2>1, <2>2, <2>5 DEF Extents, Now, NowIn
  <2>7. \A i \in DOMAIN conts' : Kept(conts'[i])
    <3>1. \A i \in DOMAIN conts' : conts'[i] = k \/ (i \in DOMAIN conts /\ conts'[i] = conts[i])
      BY <2>1, <2>3, AppendProperties
    <3> HIDE DEF Kept
    <3> QED  BY <1>2, <2>6, <3>1
  <2>8. Now' = Now /\ NowIn' = NowIn
    BY <2>1 DEF Now, NowIn
  <2> QED  BY <1>1, <2>1, <2>5, <2>7, <2>8 DEF Extents
<1>7. CASE \E i \in DOMAIN conts, v \in Values : CallContinuation(i, v)
  <2>1. PICK i \in DOMAIN conts, v \in Values : CallContinuation(i, v)
    BY <1>7
  <2>2. pc = "body" /\ UNCHANGED <<dwStack, conts>>
    BY <2>1 DEF CallContinuation
  <2>3. CASE dwStack = conts[i].dwStack
    <3>1. Restore(conts[i], v)
      BY <2>1, <2>3 DEF CallContinuation
    <3> QED  BY <1>1, <2>2, <2>3, <3>1, ExtentsRestored
  <2>4. CASE dwStack # conts[i].dwStack
    <3>1. StartWind(Adjustment(i, v, CommonPrefix(dwStack, conts[i].dwStack)))
      BY <2>1, <2>4 DEF CallContinuation
    <3> QED  BY <1>1, <2>2, <3>1, ExtentsStarted
  <2> QED  BY <2>3, <2>4
<1>8. CASE Fork
  <2>1. windState' = 0 /\ UNCHANGED <<pc, closure, fstack, dwStack>> /\ DOMAIN conts' = DOMAIN conts
    BY <1>8 DEF Fork
  <2>2. Now' = Now /\ NowIn' = NowIn
    BY <2>1 DEF Now, NowIn
  <2>3. \A i \in DOMAIN conts' : Kept(conts'[i])
    BY <1>2, <2>1, ContsKept
  <2> QED  BY <1>1, <2>1, <2>2, <2>3 DEF Extents
<1>9. CASE TimerCallback
  <2>1. pc # "failed" /\ Call(Callback, pc) /\ UNCHANGED <<dwStack, conts, windState, pending>>
    BY <1>9 DEF TimerCallback
  <2>2. pc \in Later
    BY <2>1 DEF Types, TypesOf
  <2> QED  BY <1>1, <2>1, <2>2, ExtentsCall
<1>10. CASE Done
  <2>1. pc = "done" /\ UNCHANGED <<dwStack, conts, windState, pending>>
    BY <1>10 DEF Done
  <2>2. CASE afterStack = <<>>
    BY <1>1, <1>10, <2>1, <2>2 DEF Done, Fail, Extents
  <2>3. CASE afterStack # <<>>
    <3>1. pc' = "body" /\ UNCHANGED <<closure, fstack>>
      BY <1>10, <2>3 DEF Done
    <3>2. Topped(Now, Now', "body") /\ NowIn' = NowIn
      <4>1. fstack \in Seq(FrameOf(Len(entries)))
        BY DEF Types, TypesOf
      <4> QED  BY <3>1, <4>1, TodoTop DEF Now, NowIn
    <3> QED  BY <1>1, <2>1, <3>2, ExtentsTop
  <2> QED  BY <2>2, <2>3
<1>11. CASE WindRestore
  <2>1. /\ pc = "wind" /\ windState = 3 /\ Restore(conts[pending.cont], pending.value)
        /\ UNCHANGED <<dwStack, conts>>
    BY <1>11 DEF WindRestore
  <2>2. dwStack = conts[pending.cont].dwStack /\ pending.cont \in DOMAIN conts
    BY <1>1, <2>1, WindEnded, WindingTyped
  <2> QED  BY <1>1, <2>1, <2>2, ExtentsRestored
<1>12. CASE WindIllegal
  BY <1>1, <1>12 DEF WindIllegal, Fail, Extents
<1> QED  BY <1>1, <1>3, <1>4, <1>5, <1>6, <1>7, <1>8, <1>9, <1>10, <1>11, <1>12,
            ExtentsWind, ExtentsEntered, ExtentsLeft DEF Next, User, Instruction

\* What the invariant says of the wind stack is what the property says.
LEMMA ThunksMatch ==
    ASSUME Types, Matched(Now, NowIn, dwStack, "before_after", "thunk")
    PROVE  Matches(dwStack, "before_after", Thunk)
<1>1. ASSUME NEW i \in Pending("before_after")
      PROVE  Above[i + 1] \in
                {Thunk(dwStack[Cardinality({j \in Pending("before_after") : j <= i})]), Callback}
  <2>1. i \in DOMAIN fstack /\ fstack[i].ret = "before_after"
    BY DEF Pending
  <2>2. /\ Above[i + 1] = NowIn[i + 1] /\ Now[i] = "before_after"
        /\ Cardinality({j \in Pending("before_after") : j <= i}) = Count(Now, "before_after", i)
    BY <2>1, Ranks
  <2>3. i \in 1 .. Len(Now) - 1
    BY <2>1, Ranks
  <2> QED  BY <2>2, <2>3 DEF Matched, Thunk
<1>2. Len(dwStack) = Cardinality(Pending("before_after")) + (IF pc = "before_after" THEN 1 ELSE 0)
  BY Ranks DEF Matched
<1> QED  BY <1>1, <1>2 DEF Matches

-----------------------------------------------------------------------------
(* The bases of the entries *)

\* Where in the stack s the entry of the i-th of T, an x, is: counted from the
\* top of both.
Place(T, s, x, i) == (Len(s) + Count(T, x, i)) - Count(T, x, Len(T))

\* The stack s holds the entry e of the i-th of T, an x.
HeldAt(T, s, x, i, e) ==
    i \in 1 .. Len(T) /\ T[i] = x /\ Place(T, s, x, i) > 0 /\ e = s[Place(T, s, x, i)]

\* The register holds the entry e of the i-th of T, the last after_before.
RegisterAt(T, er, i, e) ==
    /\ er # 0 /\ e = er
    /\ i \in 1 .. Len(T) /\ T[i] = "after_before"
    /\ \A k \in i + 1 .. Len(T) : T[k] # "after_before"

\* No wind is under way above the i-th of T.
Clear(T, i) == \A k \in i .. Len(T) : T[k] # "wind"

\* The i-th of T is an instruction that will trim the stack to the base of e.
Owns(T, dw, fs, er, i, e) ==
    \/ HeldAt(T, dw, "before_after", i, e) /\ Clear(T, i)
    \/ HeldAt(T, fs, "done", i, e)
    \/ RegisterAt(T, er, i, e)

\* The bases go up with the instructions, and the highest is within the l
\* operands on the stack.
Heights(T, dw, fs, er, l, B) ==
    \A i \in 1 .. Len(T), e \in DOMAIN B :
        Owns(T, dw, fs, er, i, e) =>
           /\ B[e] <= l
           /\ \A j \in i + 1 .. Len(T), f \in DOMAIN B :
                 Owns(T, dw, fs, er, j, f) => B[e] <= B[f]

\* A call that does not touch the stack keeps what it holds, ...
LEMMA HeldCall ==
    ASSUME NEW S, NEW s \in Seq(S), NEW x, NEW T, NEW T2, NEW n \in Nat \ {0}, n = Len(T),
           NEW r, NEW q, Pushed(T, T2, r, q), q # x, r = x <=> T[n] = x,
           NEW i, NEW e, HeldAt(T2, s, x, i, e)
    PROVE  HeldAt(T, s, x, i, e)
<1>1. Len(T2) = n + 1 /\ T2[n] = r /\ T2[n + 1] = q /\ \A j \in 1 .. n - 1 : T2[j] = T[j]
  BY DEF Pushed
<1>2. i \in 1 .. n + 1 /\ T2[i] = x
  BY <1>1 DEF HeldAt
<1>3. i \in 1 .. n - 1 \/ i = n
  BY <1>1, <1>2
<1>4. T[i] = x
  BY <1>1, <1>2, <1>3
<1>5. Counted(T, T2, r, x, n) /\ Count(T2, x, n + 1) = Count(T2, x, n)
  BY CountPushed
<1>6. Count(T2, x, n + 1) = Count(T, x, n)
  BY <1>5 DEF Counted
<1>7. Count(T2, x, i) = Count(T, x, i)
  <2>1. CASE i = n
    BY <1>5, <1>6, <2>1
  <2>2. CASE i \in 1 .. n - 1
    <3>1. i \in 0 .. n - 1
      BY <2>2
    <3> QED  BY <1>5, <3>1 DEF Counted
  <2> QED  BY <1>3, <2>1, <2>2
<1>8. Place(T2, s, x, i) = Place(T, s, x, i)
  BY <1>1, <1>6, <1>7 DEF Place
<1>9. i \in 1 .. n
  BY <1>3
<1> QED  BY <1>4, <1>8, <1>9 DEF HeldAt

\* ... one that puts an entry on it has the entry, ...
LEMMA HeldEnter ==
    ASSUME NEW S, NEW s \in Seq(S), NEW a \in S, NEW x, NEW T, NEW T2, NEW n \in Nat \ {0}, n = Len(T),
           NEW q, Pushed(T, T2, x, q), q # x, T[n] # x,
           NEW i, NEW e, HeldAt(T2, Append(s, a), x, i, e)
    PROVE  (i = n /\ e = a) \/ (i \in 1 .. n - 1 /\ HeldAt(T, s, x, i, e))
<1>1. Len(T2) = n + 1 /\ T2[n] = x /\ T2[n + 1] = q /\ \A j \in 1 .. n - 1 : T2[j] = T[j]
  BY DEF Pushed
<1>2. PICK m \in Nat : m = Len(s)
  OBVIOUS
<1>3. PICK t : t = Append(s, a)
  OBVIOUS
<1>4. Len(t) = m + 1 /\ t[m + 1] = a /\ \A k \in 1 .. m : t[k] = s[k]
  BY <1>2, <1>3, AppendProperties
<1>5. i \in 1 .. n + 1 /\ T2[i] = x /\ Place(T2, t, x, i) > 0 /\ e = t[Place(T2, t, x, i)]
  BY <1>1, <1>3 DEF HeldAt
<1>6. i \in 1 .. n - 1 \/ i = n
  BY <1>1, <1>5
<1>7. Counted(T, T2, x, x, n) /\ Count(T2, x, n + 1) = Count(T2, x, n)
  <2>1. PICK r : r = x
    OBVIOUS
  <2>2. Pushed(T, T2, r, q)
    BY <2>1
  <2>3. Counted(T, T2, r, x, n) /\ Count(T2, x, n + 1) = Count(T2, x, n)
    BY <2>2, CountPushed
  <2> QED  BY <2>1, <2>3
<1>8. PICK c \in Nat : c = Count(T, x, n - 1) /\ Count(T, x, n) = c /\ Count(T2, x, n) = c + 1
  BY <1>7 DEF Counted
<1>9. CASE i = n
  <2>1. Place(T2, t, x, i) = m + 1
    BY <1>1, <1>4, <1>7, <1>8, <1>9 DEF Place
  <2> QED  BY <1>4, <1>5, <1>9, <2>1
<1>10. CASE i \in 1 .. n - 1
  <2>1. i \in 0 .. n - 1 /\ i \in Nat /\ n - 1 \in Nat /\ i <= n - 1
    BY <1>10
  <2>2. PICK d \in Nat : d = Count(T, x, i) /\ d <= c /\ d = Count(T2, x, i)
    <3>1. Count(T, x, i) \in Nat /\ Count(T, x, i) <= Count(T, x, n - 1)
      BY <2>1, CountNat, CountGrows
    <3>2. Count(T2, x, i) = Count(T, x, i)
      BY <1>7, <2>1 DEF Counted
    <3> QED  BY <1>8, <3>1, <3>2
  <2>3. Place(T2, t, x, i) = (m + d) - c /\ Place(T, s, x, i) = (m + d) - c
    <3>1. Place(T2, t, x, i) = ((m + 1) + d) - (c + 1)
      BY <1>1, <1>4, <1>7, <1>8, <2>2 DEF Place
    <3>2. Place(T, s, x, i) = (m + d) - c
      BY <1>2, <1>8, <2>2 DEF Place
    <3>3. ((m + 1) + d) - (c + 1) = (m + d) - c
      OBVIOUS
    <3> QED  BY <3>1, <3>2, <3>3
  <2>4. (m + d) - c \in 1 .. m
    BY <1>5, <2>2, <2>3
  <2>5. T[i] = x /\ e = s[(m + d) - c] /\ i \in 1 .. n
    BY <1>1, <1>4, <1>5, <1>10, <2>3, <2>4
  <2> QED  BY <1>10, <2>3, <2>4, <2>5 DEF HeldAt
<1> QED  BY <1>6, <1>9, <1>10

\* ... and one that takes an entry off it has the others, ...
LEMMA HeldLeave ==
    ASSUME NEW S, NEW s \in Seq(S), s # <<>>, NEW x, NEW T, NEW T2, NEW n \in Nat \ {0}, n = Len(T),
           NEW r, r # x, T[n] = x, NEW q, q # x, Pushed(T, T2, r, q) \/ (r = q /\ Topped(T, T2, q)),
           NEW i, NEW e, HeldAt(T2, Front(s), x, i, e)
    PROVE  i \in 1 .. n - 1 /\ HeldAt(T, s, x, i, e)
<1>1. /\ Len(T2) \in {n, n + 1} /\ T2[n] = r /\ (Len(T2) = n + 1 => T2[n + 1] = q)
      /\ \A j \in 1 .. n - 1 : T2[j] = T[j]
  BY DEF Pushed, Topped
<1>2. PICK m \in Nat \ {0} : m = Len(s)
  <2>1. Len(s) \in Nat /\ Len(s) >= 1
    BY Ends
  <2> QED  BY <2>1
<1>3. PICK t : t = Front(s) /\ Len(t) = m - 1 /\ \A k \in 1 .. m - 1 : t[k] = s[k]
  BY <1>2, Ends
<1>4. i \in 1 .. Len(T2) /\ T2[i] = x /\ Place(T2, t, x, i) > 0 /\ e = t[Place(T2, t, x, i)]
  BY <1>3 DEF HeldAt
<1>5. i \in 1 .. n - 1
  BY <1>1, <1>4
<1>6. Counted(T, T2, r, x, n) /\ Count(T2, x, Len(T2)) = Count(T2, x, n)
  <2>1. CASE Pushed(T, T2, r, q)
    <3>1. Counted(T, T2, r, x, n) /\ Count(T2, x, n + 1) = Count(T2, x, n)
      BY <2>1, CountPushed
    <3>2. Len(T2) = n + 1
      BY <2>1 DEF Pushed
    <3> QED  BY <3>1, <3>2
  <2>2. CASE r = q /\ Topped(T, T2, q)
    <3>1. Counted(T, T2, q, x, n)
      BY <2>2, CountTopped
    <3>2. Len(T2) = n
      BY <2>2 DEF Topped
    <3> QED  BY <2>2, <3>1, <3>2
  <2> QED  BY <2>1, <2>2
<1>7. PICK c \in Nat : c = Count(T, x, n - 1) /\ Count(T, x, n) = c + 1 /\ Count(T2, x, n) = c
  BY <1>6 DEF Counted
<1>8. i \in 0 .. n - 1 /\ i \in Nat /\ n - 1 \in Nat /\ i <= n - 1
  BY <1>5
<1>9. PICK d \in Nat : d = Count(T, x, i) /\ d <= c /\ d = Count(T2, x, i)
  <2>1. Count(T, x, i) \in Nat /\ Count(T, x, i) <= Count(T, x, n - 1)
    BY <1>8, CountNat, CountGrows
  <2>2. Count(T2, x, i) = Count(T, x, i)
    BY <1>6, <1>8 DEF Counted
  <2> QED  BY <1>7, <2>1, <2>2
<1>10. PICK p \in Int : p = ((m - 1) + d) - c
  OBVIOUS
<1>11. Place(T2, t, x, i) = p /\ Place(T, s, x, i) = p
  <2>1. Place(T2, t, x, i) = p
    BY <1>3, <1>6, <1>7, <1>9, <1>10 DEF Place
  <2>2. Place(T, s, x, i) = (m + d) - (c + 1)
    BY <1>2, <1>7, <1>9 DEF Place
  <2> QED  BY <1>10, <2>1, <2>2
<1>12. p \in 1 .. m - 1
  BY <1>4, <1>9, <1>10, <1>11
<1>13. T[i] = x /\ e = s[p] /\ i \in 1 .. n
  BY <1>1, <1>3, <1>4, <1>5, <1>11, <1>12
<1> QED  BY <1>5, <1>11, <1>12, <1>13 DEF HeldAt

\* ... which was the one at the top, ...
LEMMA HeldLast ==
    ASSUME NEW S, NEW s \in Seq(S), s # <<>>, NEW x, NEW T, NEW n \in Nat \ {0}, n = Len(T), T[n] = x
    PROVE  /\ HeldAt(T, s, x, n, Last(s))
           /\ \A e : HeldAt(T, s, x, n, e) => e = Last(s)
<1>1. PICK m \in Nat \ {0} : m = Len(s) /\ Last(s) = s[m]
  <2>1. Len(s) \in Nat /\ Len(s) >= 1 /\ Last(s) = s[Len(s)]
    BY Ends
  <2> QED  BY <2>1
<1>2. Count(T, x, n) \in Nat
  BY CountNat
<1>3. Place(T, s, x, n) = m
  BY <1>1, <1>2 DEF Place
<1> QED  BY <1>1, <1>3 DEF HeldAt

\* ... another instruction does not change it, ...
LEMMA HeldTop ==
    ASSUME NEW S, NEW s \in Seq(S), NEW x, NEW T, NEW T2, NEW n \in Nat \ {0}, n = Len(T),
           NEW q, Topped(T, T2, q), q # x, T[n] # x,
           NEW i, NEW e, HeldAt(T2, s, x, i, e)
    PROVE  i \in 1 .. n - 1 /\ HeldAt(T, s, x, i, e)
<1>1. Len(T2) = n /\ T2[n] = q /\ \A j \in 1 .. n - 1 : T2[j] = T[j]
  BY DEF Topped
<1>2. i \in 1 .. n /\ T2[i] = x
  BY <1>1 DEF HeldAt
<1>3. i \in 1 .. n - 1 /\ i \in 0 .. n - 1
  BY <1>1, <1>2
<1>4. Counted(T, T2, q, x, n)
  BY CountTopped
<1>5. Count(T2, x, n) = Count(T, x, n) /\ Count(T2, x, i) = Count(T, x, i)
  BY <1>3, <1>4 DEF Counted
<1>6. Place(T2, s, x, i) = Place(T, s, x, i)
  BY <1>1, <1>5 DEF Place
<1>7. T[i] = x
  BY <1>1, <1>2, <1>3
<1> QED  BY <1>2, <1>3, <1>6, <1>7 DEF HeldAt

\* ... nor does a return.
LEMMA HeldReturn ==
    ASSUME NEW S, NEW s \in Seq(S), NEW x, NEW T, NEW T2, NEW n \in Nat \ {0}, n = Len(T),
           Popped(T, T2), T[n] # x,
           NEW i, NEW e, HeldAt(T2, s, x, i, e)
    PROVE  i \in 1 .. n - 1 /\ HeldAt(T, s, x, i, e)
<1>1. Len(T2) = n - 1 /\ \A j \in 1 .. n - 1 : T2[j] = T[j]
  BY DEF Popped
<1>2. i \in 1 .. n - 1 /\ T2[i] = x
  BY <1>1 DEF HeldAt
<1>3. i \in 1 .. n /\ i \in 0 .. n - 1
  BY <1>2
<1>4. /\ \A k \in 0 .. n - 1 : Count(T2, x, k) = Count(T, x, k)
      /\ Count(T2, x, n - 1) = Count(T, x, n)
  BY CountPopped
<1>5. Place(T2, s, x, i) = Place(T, s, x, i)
  BY <1>1, <1>3, <1>4 DEF Place
<1>6. T[i] = x
  BY <1>1, <1>2
<1> QED  BY <1>2, <1>3, <1>5, <1>6 DEF HeldAt

\* Where no wind is under way none was, ...
LEMMA ClearKept ==
    ASSUME NEW T, NEW T2, NEW n \in Nat \ {0}, n = Len(T), NEW r, NEW q,
           Pushed(T, T2, r, q) \/ (r = q /\ Topped(T, T2, q)), T[n] = "wind" => r = "wind",
           NEW i \in 1 .. n, Clear(T2, i)
    PROVE  Clear(T, i)
<1>1. Len(T2) \in {n, n + 1} /\ T2[n] = r /\ \A k \in 1 .. n - 1 : T2[k] = T[k]
  BY DEF Pushed, Topped
<1>2. ASSUME NEW k \in i .. n PROVE T[k] # "wind"
  <2>1. k \in i .. Len(T2) /\ (k \in 1 .. n - 1 \/ k = n)
    BY <1>1, <1>2
  <2>2. T2[k] # "wind"
    BY <2>1 DEF Clear
  <2> QED  BY <1>1, <2>1, <2>2
<1> QED  BY <1>2 DEF Clear

\* ... and what the register holds it held.
LEMMA RegisterKept ==
    ASSUME NEW T, NEW T2, NEW n \in Nat \ {0}, n = Len(T), NEW r, NEW q, q # "after_before",
           Pushed(T, T2, r, q) \/ (r = q /\ Topped(T, T2, q)),
           r = "after_before" <=> T[n] = "after_before",
           NEW er, NEW i, NEW e, RegisterAt(T2, er, i, e)
    PROVE  RegisterAt(T, er, i, e)
<1>1. /\ Len(T2) \in {n, n + 1} /\ T2[n] = r /\ (Len(T2) = n + 1 => T2[n + 1] = q)
      /\ \A k \in 1 .. n - 1 : T2[k] = T[k]
  BY DEF Pushed, Topped
<1>2. i \in 1 .. Len(T2) /\ T2[i] = "after_before" /\ er # 0 /\ e = er
  BY DEF RegisterAt
<1>3. i \in 1 .. n - 1 \/ i = n
  BY <1>1, <1>2
<1>4. i \in 1 .. n /\ T[i] = "after_before"
  BY <1>1, <1>2, <1>3
<1>5. ASSUME NEW k \in i + 1 .. n PROVE T[k] # "after_before"
  <2>1. k \in i + 1 .. Len(T2) /\ (k \in 1 .. n - 1 \/ k = n)
    BY <1>1, <1>4, <1>5
  <2>2. T2[k] # "after_before"
    BY <2>1 DEF RegisterAt
  <2> QED  BY <1>1, <2>1, <2>2
<1> QED  BY <1>2, <1>4, <1>5 DEF RegisterAt

\* A step that is no business of an entry's instructions leaves them those they
\* had, ...
LEMMA OwnsKept ==
    ASSUME NEW S, NEW dw \in Seq(S), NEW fs \in Seq(S), NEW er,
           NEW T, NEW T2, NEW n \in Nat \ {0}, n = Len(T), NEW r, NEW q,
           Pushed(T, T2, r, q) \/ (r = q /\ Topped(T, T2, q)),
           q \notin {"before_after", "done", "after_before"},
           \A x \in {"before_after", "done", "after_before"} : r = x <=> T[n] = x,
           T[n] = "wind" => r = "wind",
           NEW dw2, dw2 = dw \/ r = "wind",
           NEW i, NEW e, Owns(T2, dw2, fs, er, i, e)
    PROVE  Owns(T, dw, fs, er, i, e)
<1>1. ASSUME NEW x \in {"before_after", "done"}, NEW s \in Seq(S), HeldAt(T2, s, x, i, e)
      PROVE  HeldAt(T, s, x, i, e) /\ i \in 1 .. n
  <2>1. q # x /\ (r = x <=> T[n] = x)
    OBVIOUS
  <2>2. CASE Pushed(T, T2, r, q)
    <3>1. HeldAt(T, s, x, i, e)
      BY <1>1, <2>1, <2>2, HeldCall, Zenon
    <3> QED  BY <3>1 DEF HeldAt
  <2>3. CASE r = q /\ Topped(T, T2, q)
    <3>1. i \in 1 .. n - 1 /\ HeldAt(T, s, x, i, e)
      BY <1>1, <2>1, <2>3, HeldTop
    <3> QED  BY <3>1
  <2> QED  BY <2>2, <2>3
<1>2. ASSUME HeldAt(T2, dw2, "before_after", i, e), Clear(T2, i)
      PROVE  HeldAt(T, dw, "before_after", i, e) /\ Clear(T, i)
  <2>1. dw2 = dw
    <3> SUFFICES ASSUME r = "wind" PROVE FALSE
      OBVIOUS
    <3>1. Len(T2) \in {n, n + 1} /\ T2[n] = "wind" /\ (Len(T2) = n + 1 => T2[n + 1] = q)
      BY DEF Pushed, Topped
    <3>2. i \in 1 .. Len(T2) /\ T2[i] = "before_after"
      BY <1>2 DEF HeldAt
    <3>3. i \in 1 .. n
      BY <3>1, <3>2
    <3>4. n \in i .. Len(T2)
      BY <3>1, <3>3
    <3> QED  BY <1>2, <3>1, <3>4 DEF Clear
  <2>2. HeldAt(T, dw, "before_after", i, e) /\ i \in 1 .. n
    BY <1>1, <1>2, <2>1
  <2>3. Clear(T, i)
    BY <1>2, <2>2, ClearKept
  <2> QED  BY <2>2, <2>3
<1>3. ASSUME RegisterAt(T2, er, i, e) PROVE RegisterAt(T, er, i, e)
  BY <1>3, RegisterKept
<1> QED  BY <1>1, <1>2, <1>3 DEF Owns

\* ... as does a return.
LEMMA OwnsReturn ==
    ASSUME NEW S, NEW dw \in Seq(S), NEW fs \in Seq(S), NEW er,
           NEW T, NEW T2, NEW n \in Nat \ {0}, n = Len(T), Popped(T, T2), T[n] = "body",
           NEW i, NEW e, Owns(T2, dw, fs, er, i, e)
    PROVE  Owns(T, dw, fs, er, i, e)
<1>1. Len(T2) = n - 1 /\ \A k \in 1 .. n - 1 : T2[k] = T[k]
  BY DEF Popped
<1>2. ASSUME NEW x \in {"before_after", "done"}, NEW s \in Seq(S), HeldAt(T2, s, x, i, e)
      PROVE  i \in 1 .. n - 1 /\ HeldAt(T, s, x, i, e)
  <2>1. T[n] # x
    OBVIOUS
  <2> QED  BY <1>2, <2>1, HeldReturn
<1>3. ASSUME i \in 1 .. n - 1, Clear(T2, i) PROVE Clear(T, i)
  <2>1. \A k \in i .. n : k \in i .. n - 1 \/ k = n
    OBVIOUS
  <2>2. \A k \in i .. n - 1 : T[k] # "wind"
    BY <1>1, <1>3 DEF Clear
  <2> QED  BY <2>1, <2>2 DEF Clear
<1>4. ASSUME RegisterAt(T2, er, i, e) PROVE RegisterAt(T, er, i, e)
  <2>1. i \in 1 .. n - 1 /\ T2[i] = "after_before" /\ er # 0 /\ e = er
    BY <1>1, <1>4 DEF RegisterAt
  <2>2. \A k \in i + 1 .. n : k \in i + 1 .. n - 1 \/ k = n
    BY <2>1
  <2>3. \A k \in i + 1 .. n - 1 : T[k] # "after_before"
    BY <1>1, <1>4, <2>1 DEF RegisterAt
  <2>4. i \in 1 .. n /\ T[i] = "after_before"
    BY <1>1, <2>1
  <2> QED  BY <2>1, <2>2, <2>3, <2>4 DEF RegisterAt
<1> QED  BY <1>2, <1>3, <1>4 DEF Owns

\* An instruction that has an entry is one of those to do, and the entry is one
\* of the process.
LEMMA OwnsTyped ==
    ASSUME NEW N \in Nat, NEW dw \in Seq(1 .. N), NEW fs \in Seq(1 .. N), NEW er \in 0 .. N,
           NEW T, Len(T) \in Nat, NEW i, NEW e, Owns(T, dw, fs, er, i, e)
    PROVE  i \in 1 .. Len(T) /\ e \in 1 .. N
<1>1. ASSUME NEW s \in Seq(1 .. N), NEW x, HeldAt(T, s, x, i, e)
      PROVE  i \in 1 .. Len(T) /\ e \in 1 .. N
  <2>1. i \in 1 .. Len(T) /\ e = s[Place(T, s, x, i)] /\ Place(T, s, x, i) > 0
    BY <1>1 DEF HeldAt
  <2>2. PICK m \in Nat : m = Len(s)
    OBVIOUS
  <2>3. PICK c \in Nat : c = Count(T, x, i)
    <3>1. i \in Nat
      BY <2>1
    <3> QED  BY <3>1, CountNat
  <2>4. PICK d \in Nat : d = Count(T, x, Len(T))
    BY CountNat
  <2>5. c <= d
    BY <2>1, <2>3, <2>4, CountGrows
  <2>6. Place(T, s, x, i) = (m + c) - d
    BY <2>2, <2>3, <2>4 DEF Place
  <2>7. (m + c) - d \in 1 .. m
    BY <2>1, <2>5, <2>6
  <2>8. s[(m + c) - d] \in 1 .. N
    BY <2>2, <2>7, ElementOfSeq
  <2> QED  BY <2>1, <2>6, <2>8
<1>2. ASSUME RegisterAt(T, er, i, e) PROVE i \in 1 .. Len(T) /\ e \in 1 .. N
  BY <1>2 DEF RegisterAt
<1> QED  BY <1>1, <1>2 DEF Owns

\* Nothing is held by a stack that is empty.
LEMMA HeldNone ==
    ASSUME NEW T, Len(T) \in Nat, NEW x, NEW i, NEW e
    PROVE  ~HeldAt(T, <<>>, x, i, e)
<1> SUFFICES ASSUME HeldAt(T, <<>>, x, i, e) PROVE FALSE
  OBVIOUS
<1>1. i \in 1 .. Len(T) /\ Place(T, <<>>, x, i) > 0
  BY DEF HeldAt
<1>2. PICK c \in Nat : c = Count(T, x, i)
  <2>1. i \in Nat
    BY <1>1
  <2> QED  BY <2>1, CountNat
<1>3. PICK d \in Nat : d = Count(T, x, Len(T))
  BY CountNat
<1>4. c <= d
  BY <1>1, <1>2, <1>3, CountGrows
<1>5. Place(T, <<>>, x, i) = (0 + c) - d
  BY <1>2, <1>3 DEF Place
<1> QED  BY <1>1, <1>4, <1>5

\* The bases go up as before, where the instructions that are left have bases
\* within the operands.
LEMMA HeightsKept ==
    ASSUME NEW N \in Nat, NEW B \in [1 .. N -> Nat], NEW l, NEW l2,
           NEW T, NEW T2, NEW dw, NEW dw2, NEW fs, NEW fs2, NEW er, NEW er2,
           Len(T) \in Nat, Len(T2) \in Nat, Heights(T, dw, fs, er, l, B),
           \A i \in 1 .. Len(T2), e \in 1 .. N :
              Owns(T2, dw2, fs2, er2, i, e) =>
                 i \in 1 .. Len(T) /\ Owns(T, dw, fs, er, i, e) /\ B[e] <= l2
    PROVE  Heights(T2, dw2, fs2, er2, l2, B)
<1> SUFFICES ASSUME NEW i \in 1 .. Len(T2), NEW e \in 1 .. N, Owns(T2, dw2, fs2, er2, i, e)
             PROVE  /\ B[e] <= l2
                    /\ \A j \in i + 1 .. Len(T2), f \in 1 .. N :
                          Owns(T2, dw2, fs2, er2, j, f) => B[e] <= B[f]
  BY DEF Heights
<1>1. i \in 1 .. Len(T) /\ Owns(T, dw, fs, er, i, e) /\ B[e] <= l2
  OBVIOUS
<1>2. ASSUME NEW j \in i + 1 .. Len(T2), NEW f \in 1 .. N, Owns(T2, dw2, fs2, er2, j, f)
      PROVE  B[e] <= B[f]
  <2>1. j \in 1 .. Len(T2)
    OBVIOUS
  <2>2. j \in 1 .. Len(T) /\ Owns(T, dw, fs, er, j, f)
    BY <1>2, <2>1
  <2>3. j \in i + 1 .. Len(T)
    BY <2>2
  <2> QED  BY <1>1, <2>2, <2>3 DEF Heights
<1> QED  BY <1>1, <1>2

\* The instruction to execute has the highest base, ...
LEMMA HeightsTop ==
    ASSUME NEW N \in Nat, NEW B \in [1 .. N -> Nat], NEW l, NEW T, NEW dw, NEW fs, NEW er,
           NEW n \in Nat \ {0}, n = Len(T), Heights(T, dw, fs, er, l, B),
           NEW c \in 1 .. N, Owns(T, dw, fs, er, n, c),
           \A e : Owns(T, dw, fs, er, n, e) => e = c
    PROVE  /\ B[c] <= l
           /\ \A i \in 1 .. n, e \in 1 .. N : Owns(T, dw, fs, er, i, e) => B[e] <= B[c]
<1>1. B[c] <= l
  <2>1. n \in 1 .. n
    OBVIOUS
  <2> QED  BY <2>1 DEF Heights
<1>2. ASSUME NEW i \in 1 .. n, NEW e \in 1 .. N, Owns(T, dw, fs, er, i, e)
      PROVE  B[e] <= B[c]
  <2>1. CASE i = n
    <3>1. e = c /\ B[c] \in Nat
      BY <1>2, <2>1
    <3> QED  BY <3>1
  <2>2. CASE i # n
    <3>1. n \in i + 1 .. n
      BY <2>2
    <3> QED  BY <1>2, <3>1 DEF Heights
  <2> QED  BY <2>1, <2>2
<1> QED  BY <1>1, <1>2

\* ... which is that of the last extent when a thunk has returned, ...
LEMMA ThunkOwns ==
    ASSUME NEW S, NEW dw \in Seq(S), dw # <<>>, NEW fs, NEW er,
           NEW T, NEW n \in Nat \ {0}, n = Len(T), T[n] = "before_after"
    PROVE  /\ Owns(T, dw, fs, er, n, Last(dw))
           /\ \A e : Owns(T, dw, fs, er, n, e) => e = Last(dw)
<1>1. /\ HeldAt(T, dw, "before_after", n, Last(dw))
      /\ \A e : HeldAt(T, dw, "before_after", n, e) => e = Last(dw)
  BY HeldLast
<1>2. Clear(T, n)
  <2>1. \A k \in n .. n : k = n
    OBVIOUS
  <2> QED  BY <2>1 DEF Clear
<1>3. \A e : ~HeldAt(T, fs, "done", n, e) /\ ~RegisterAt(T, er, n, e)
  BY DEF HeldAt, RegisterAt
<1> QED  BY <1>1, <1>2, <1>3 DEF Owns

\* ... of the last after in progress when one has, ...
LEMMA AfterOwns ==
    ASSUME NEW S, NEW fs \in Seq(S), fs # <<>>, NEW dw, NEW er,
           NEW T, NEW n \in Nat \ {0}, n = Len(T), T[n] = "done"
    PROVE  /\ Owns(T, dw, fs, er, n, Last(fs))
           /\ \A e : Owns(T, dw, fs, er, n, e) => e = Last(fs)
<1>1. /\ HeldAt(T, fs, "done", n, Last(fs))
      /\ \A e : HeldAt(T, fs, "done", n, e) => e = Last(fs)
  BY HeldLast
<1>2. \A e : ~HeldAt(T, dw, "before_after", n, e) /\ ~RegisterAt(T, er, n, e)
  BY DEF HeldAt, RegisterAt
<1> QED  BY <1>1, <1>2 DEF Owns

\* ... and of the register when a before has.
LEMMA BeforeOwns ==
    ASSUME NEW er, er # 0, NEW dw, NEW fs,
           NEW T, NEW n \in Nat \ {0}, n = Len(T), T[n] = "after_before"
    PROVE  /\ Owns(T, dw, fs, er, n, er)
           /\ \A e : Owns(T, dw, fs, er, n, e) => e = er
<1>1. RegisterAt(T, er, n, er)
  BY DEF RegisterAt
<1>2. \A e : ~HeldAt(T, dw, "before_after", n, e) /\ ~HeldAt(T, fs, "done", n, e)
  BY DEF HeldAt
<1> QED  BY <1>1, <1>2 DEF Owns, RegisterAt

\* When a before has returned, its entry goes from the register to the wind
\* stack, ...
LEMMA OwnsThunk ==
    ASSUME NEW S, NEW dw \in Seq(S), NEW fs \in Seq(S), NEW er \in S, er # 0,
           NEW T, NEW T2, NEW n \in Nat \ {0}, n = Len(T), T[n] = "after_before",
           Pushed(T, T2, "before_after", "body"),
           NEW i, NEW e, Owns(T2, Append(dw, er), fs, 0, i, e)
    PROVE  Owns(T, dw, fs, er, i, e)
<1>1. ASSUME HeldAt(T2, Append(dw, er), "before_after", i, e), Clear(T2, i)
      PROVE  Owns(T, dw, fs, er, i, e)
  <2>1. "body" # "before_after" /\ T[n] # "before_after"
    OBVIOUS
  <2>2. (i = n /\ e = er) \/ HeldAt(T, dw, "before_after", i, e)
    BY <1>1, <2>1, HeldEnter
  <2>3. CASE i = n /\ e = er
    BY <2>3, BeforeOwns
  <2>4. CASE HeldAt(T, dw, "before_after", i, e)
    <3>1. i \in 1 .. n /\ T[n] # "wind"
      BY <2>4 DEF HeldAt
    <3>2. Clear(T, i)
      BY <1>1, <3>1, ClearKept
    <3> QED  BY <2>4, <3>2 DEF Owns
  <2> QED  BY <2>2, <2>3, <2>4
<1>2. ASSUME HeldAt(T2, fs, "done", i, e) PROVE HeldAt(T, fs, "done", i, e)
  <2>1. "body" # "done" /\ ("before_after" = "done" <=> T[n] = "done")
    OBVIOUS
  <2> QED  BY <1>2, <2>1, HeldCall
<1>3. ~RegisterAt(T2, 0, i, e)
  BY DEF RegisterAt
<1> QED  BY <1>1, <1>2, <1>3 DEF Owns

\* ... when a thunk has, from there to the after stack, ...
LEMMA OwnsAfter ==
    ASSUME NEW S, NEW dw \in Seq(S), dw # <<>>, NEW fs \in Seq(S), NEW er,
           NEW T, NEW T2, NEW n \in Nat \ {0}, n = Len(T), T[n] = "before_after",
           Pushed(T, T2, "done", "body"),
           NEW i, NEW e, Owns(T2, Front(dw), Append(fs, Last(dw)), er, i, e)
    PROVE  Owns(T, dw, fs, er, i, e)
<1>1. ASSUME HeldAt(T2, Front(dw), "before_after", i, e), Clear(T2, i)
      PROVE  HeldAt(T, dw, "before_after", i, e) /\ Clear(T, i)
  <2>1. "done" # "before_after" /\ "body" # "before_after"
    OBVIOUS
  <2>2. i \in 1 .. n - 1 /\ HeldAt(T, dw, "before_after", i, e)
    BY <1>1, <2>1, HeldLeave
  <2>3. i \in 1 .. n /\ T[n] # "wind"
    BY <2>2
  <2>4. Clear(T, i)
    BY <1>1, <2>3, ClearKept
  <2> QED  BY <2>2, <2>4
<1>2. ASSUME HeldAt(T2, Append(fs, Last(dw)), "done", i, e)
      PROVE  Owns(T, dw, fs, er, i, e)
  <2>1. "body" # "done" /\ T[n] # "done" /\ Last(dw) \in S
    BY Ends
  <2>2. (i = n /\ e = Last(dw)) \/ HeldAt(T, fs, "done", i, e)
    BY <1>2, <2>1, HeldEnter
  <2>3. CASE i = n /\ e = Last(dw)
    BY <2>3, ThunkOwns
  <2>4. CASE HeldAt(T, fs, "done", i, e)
    BY <2>4 DEF Owns
  <2> QED  BY <2>2, <2>3, <2>4
<1>3. ASSUME RegisterAt(T2, er, i, e) PROVE RegisterAt(T, er, i, e)
  <2>1. "body" # "after_before" /\ ("done" = "after_before" <=> T[n] = "after_before")
    OBVIOUS
  <2> QED  BY <1>3, <2>1, RegisterKept
<1> QED  BY <1>1, <1>2, <1>3 DEF Owns

\* ... and when an after has, from there to nowhere.
LEMMA OwnsDone ==
    ASSUME NEW S, NEW dw \in Seq(S), NEW fs \in Seq(S), fs # <<>>, NEW er,
           NEW T, NEW T2, NEW n \in Nat \ {0}, n = Len(T), T[n] = "done",
           Topped(T, T2, "body"),
           NEW i, NEW e, Owns(T2, dw, Front(fs), er, i, e)
    PROVE  Owns(T, dw, fs, er, i, e)
<1>1. ASSUME HeldAt(T2, dw, "before_after", i, e), Clear(T2, i)
      PROVE  HeldAt(T, dw, "before_after", i, e) /\ Clear(T, i)
  <2>1. "body" # "before_after" /\ T[n] # "before_after"
    OBVIOUS
  <2>2. i \in 1 .. n - 1 /\ HeldAt(T, dw, "before_after", i, e)
    BY <1>1, <2>1, HeldTop
  <2>3. i \in 1 .. n /\ T[n] # "wind"
    BY <2>2
  <2>4. Clear(T, i)
    BY <1>1, <2>3, ClearKept
  <2> QED  BY <2>2, <2>4
<1>2. ASSUME HeldAt(T2, Front(fs), "done", i, e) PROVE HeldAt(T, fs, "done", i, e)
  <2>1. "body" # "done"
    OBVIOUS
  <2> QED  BY <1>2, <2>1, HeldLeave
<1>3. ASSUME RegisterAt(T2, er, i, e) PROVE RegisterAt(T, er, i, e)
  <2>1. "body" # "after_before" /\ ("body" = "after_before" <=> T[n] = "after_before")
    OBVIOUS
  <2> QED  BY <1>3, <2>1, RegisterKept
<1> QED  BY <1>1, <1>2, <1>3 DEF Owns

\* A dynamic-wind's before is called: its entry comes to the others.
LEMMA OwnsBefore ==
    ASSUME NEW S, NEW dw \in Seq(S), NEW fs \in Seq(S), NEW er, NEW er2,
           NEW T, NEW T2, NEW n \in Nat \ {0}, n = Len(T), T[n] = "body",
           Pushed(T, T2, "after_before", "body"),
           NEW i, NEW e, Owns(T2, dw, fs, er2, i, e)
    PROVE  \/ i = n /\ e = er2
           \/ i < n /\ Owns(T, dw, fs, er, i, e)
<1>1. ASSUME NEW x \in {"before_after", "done"}, NEW s \in Seq(S), HeldAt(T2, s, x, i, e)
      PROVE  i < n /\ i \in 1 .. n /\ HeldAt(T, s, x, i, e)
  <2>1. "body" # x /\ ("after_before" = x <=> T[n] = x)
    OBVIOUS
  <2>2. HeldAt(T, s, x, i, e)
    BY <1>1, <2>1, HeldCall, Zenon
  <2>3. i \in 1 .. n /\ i # n
    BY <2>2 DEF HeldAt
  <2> QED  BY <2>2, <2>3
<1>2. ASSUME i \in 1 .. n, Clear(T2, i) PROVE Clear(T, i)
  <2>1. T[n] # "wind"
    OBVIOUS
  <2> QED  BY <1>2, <2>1, ClearKept
<1>3. ASSUME RegisterAt(T2, er2, i, e) PROVE i = n /\ e = er2
  <2>1. Len(T2) = n + 1 /\ T2[n] = "after_before" /\ T2[n + 1] = "body"
    BY DEF Pushed
  <2>2. i \in 1 .. n + 1 /\ T2[i] = "after_before" /\ e = er2
    BY <1>3, <2>1 DEF RegisterAt
  <2>3. ~(n \in i + 1 .. n + 1)
    BY <1>3, <2>1 DEF RegisterAt
  <2> QED  BY <2>1, <2>2, <2>3
<1> QED  BY <1>1, <1>2, <1>3 DEF Owns

\* Its base is the highest.
LEMMA HeightsNew ==
    ASSUME NEW N \in Nat, NEW M, M = N + 1, NEW l \in Nat,
           NEW B \in [1 .. N -> Nat], NEW B2 \in [1 .. M -> Nat],
           \A e \in 1 .. N : B2[e] = B[e], B2[M] = l,
           NEW T, NEW T2, NEW n \in Nat \ {0}, n = Len(T), T[n] = "body",
           Pushed(T, T2, "after_before", "body"),
           NEW dw \in Seq(1 .. N), NEW fs \in Seq(1 .. N), NEW er \in 0 .. N,
           Heights(T, dw, fs, er, l, B)
    PROVE  Heights(T2, dw, fs, M, l, B2)
<1>0. ASSUME NEW i, NEW e, Owns(T2, dw, fs, M, i, e)
      PROVE  (i = n /\ e = M) \/ (i < n /\ Owns(T, dw, fs, er, i, e))
  BY <1>0, OwnsBefore, SMTT(30)
<1> Len(T2) = n + 1
  BY DEF Pushed
<1> SUFFICES ASSUME NEW i \in 1 .. n + 1, NEW e \in 1 .. M, Owns(T2, dw, fs, M, i, e)
             PROVE  /\ B2[e] <= l
                    /\ \A j \in i + 1 .. n + 1, f \in 1 .. M :
                          Owns(T2, dw, fs, M, j, f) => B2[e] <= B2[f]
  BY DEF Heights
<1>1. CASE i = n /\ e = M
  <2>1. ASSUME NEW j \in i + 1 .. n + 1, NEW f \in 1 .. M, Owns(T2, dw, fs, M, j, f)
        PROVE  FALSE
    <3>1. j = n \/ j < n
      BY <1>0, <2>1
    <3>2. j > n
      BY <1>1
    <3> QED  BY <3>1, <3>2
  <2> QED  BY <1>1, <2>1
<1>2. CASE i < n /\ Owns(T, dw, fs, er, i, e)
  <2>1. e \in 1 .. N /\ i \in 1 .. n
    BY <1>2, OwnsTyped
  <2>2. B2[e] <= l /\ B2[e] = B[e]
    BY <1>2, <2>1 DEF Heights
  <2>3. ASSUME NEW j \in i + 1 .. n + 1, NEW f \in 1 .. M, Owns(T2, dw, fs, M, j, f)
        PROVE  B2[e] <= B2[f]
    <3>1. CASE j = n /\ f = M
      BY <2>2, <3>1
    <3>2. CASE j < n /\ Owns(T, dw, fs, er, j, f)
      <4>1. f \in 1 .. N /\ j \in i + 1 .. n
        BY <3>2, OwnsTyped
      <4>2. B[e] <= B[f]
        BY <1>2, <2>1, <3>2, <4>1 DEF Heights
      <4> QED  BY <2>2, <4>1, <4>2
    <3> QED  BY <1>0, <2>3, <3>1, <3>2
  <2> QED  BY <2>2, <2>3
<1> QED  BY <1>0, <1>1, <1>2

\* Those of a continuation go up all the same.
LEMMA HeightsMore ==
    ASSUME NEW N \in Nat, NEW B \in [1 .. N -> Nat], NEW B2 \in [1 .. N + 1 -> Nat], NEW l,
           \A e \in 1 .. N : B2[e] = B[e],
           NEW T, Len(T) \in Nat,
           NEW dw \in Seq(1 .. N), NEW fs \in Seq(1 .. N), NEW er \in 0 .. N,
           Heights(T, dw, fs, er, l, B)
    PROVE  Heights(T, dw, fs, er, l, B2)
<1> SUFFICES ASSUME NEW i \in 1 .. Len(T), NEW e \in 1 .. N + 1, Owns(T, dw, fs, er, i, e)
             PROVE  /\ B2[e] <= l
                    /\ \A j \in i + 1 .. Len(T), f \in 1 .. N + 1 :
                          Owns(T, dw, fs, er, j, f) => B2[e] <= B2[f]
  BY DEF Heights
<1>1. e \in 1 .. N
  BY OwnsTyped
<1>2. ASSUME NEW j \in i + 1 .. Len(T), NEW f \in 1 .. N + 1, Owns(T, dw, fs, er, j, f)
      PROVE  B2[e] <= B2[f]
  <2>1. f \in 1 .. N
    BY <1>2, OwnsTyped
  <2> QED  BY <1>1, <1>2, <2>1 DEF Heights
<1> QED  BY <1>1, <1>2 DEF Heights

\* More operands do no harm.
LEMMA HeightsRoom ==
    ASSUME NEW N \in Nat, NEW B \in [1 .. N -> Nat], NEW l \in Nat, NEW l2 \in Nat, l <= l2,
           NEW T, NEW dw, NEW fs, NEW er, Heights(T, dw, fs, er, l, B)
    PROVE  Heights(T, dw, fs, er, l2, B)
<1>1. ASSUME NEW e \in 1 .. N, B[e] <= l PROVE B[e] <= l2
  <2>1. B[e] \in Nat
    OBVIOUS
  <2> QED  BY <1>1, <2>1
<1> QED  BY <1>1 DEF Heights

-----------------------------------------------------------------------------
(* The bases throughout *)

\* The base of each entry.
BaseOf == [e \in DOMAIN entries |-> entries[e].base]

\* The bases fit the live process, ...
LiveHeights == Heights(Now, dwStack, afterStack, entryReg, Len(opstack), BaseOf)
\* ... and a continuation.
KeptHeights(k) ==
    Heights(Todo(k.fstack, "body"), k.dwStack, k.afterStack, k.entryReg, Len(k.opstack), BaseOf)

\* The bases fit the operand stack, now and in each continuation.
Bases ==
    NoneCapturedInWind =>
      /\ pc # "failed" => LiveHeights
      /\ \A i \in DOMAIN conts : KeptHeights(conts[i])

\* The bases are numbers.
LEMMA BaseOfIs ==
    ASSUME Types
    PROVE  /\ BaseOf \in [1 .. Len(entries) -> Nat]
           /\ \A e \in 1 .. Len(entries) : BaseOf[e] = entries[e].base
<1>1. entries \in Seq(EntryObject) /\ DOMAIN entries = 1 .. Len(entries)
  BY DEF Types, Counters
<1>2. \A e \in 1 .. Len(entries) : entries[e].base \in Nat
  BY EntryTyped DEF Types
<1> QED  BY <1>1, <1>2 DEF BaseOf

\* What the process has in this state, as numbers and sequences.
LEMMA BasesTyped ==
    ASSUME Types
    PROVE  /\ Len(entries) \in Nat /\ Len(opstack) \in Nat /\ Len(Now) \in Nat \ {0}
           /\ dwStack \in Seq(1 .. Len(entries)) /\ afterStack \in Seq(1 .. Len(entries))
           /\ entryReg \in 0 .. Len(entries)
BY NowIs DEF Types, TypesOf, Counters

\* A step after which each instruction has the entry it had, and a base within
\* the operands, keeps the bases in order.
LEMMA LiveKept ==
    ASSUME Types, Types', LiveHeights, BaseOf' = BaseOf,
           \A i, e : Owns(Now', dwStack', afterStack', entryReg', i, e) =>
              /\ Owns(Now, dwStack, afterStack, entryReg, i, e)
              /\ e \in 1 .. Len(entries) => BaseOf[e] <= Len(opstack')
    PROVE  LiveHeights'
<1>1. PICK N \in Nat : N = Len(entries)
  BY BasesTyped
<1>2. PICK dw \in Seq(1 .. N) : dw = dwStack
  BY <1>1, BasesTyped
<1>3. PICK fs \in Seq(1 .. N) : fs = afterStack
  BY <1>1, BasesTyped
<1>4. PICK er \in 0 .. N : er = entryReg
  BY <1>1, BasesTyped
<1>5. PICK T : T = Now
  OBVIOUS
<1>6. PICK B \in [1 .. N -> Nat] : B = BaseOf
  BY <1>1, BaseOfIs
<1>7. PICK T2 : T2 = Now'
  OBVIOUS
<1>8. PICK dw2, fs2, er2, l, l2 :
        dw2 = dwStack' /\ fs2 = afterStack' /\ er2 = entryReg' /\ l = Len(opstack) /\ l2 = Len(opstack')
  OBVIOUS
<1>9. Len(T) \in Nat /\ Len(T2) \in Nat
  <2>1. (Len(Now) \in Nat)'
    BY BasesTyped
  <2> QED  BY <1>5, <1>7, <2>1, BasesTyped
<1>10. Heights(T, dw, fs, er, l, B)
  BY <1>2, <1>3, <1>4, <1>5, <1>6, <1>8 DEF LiveHeights
<1>11. ASSUME NEW i \in 1 .. Len(T2), NEW e \in 1 .. N, Owns(T2, dw2, fs2, er2, i, e)
       PROVE  i \in 1 .. Len(T) /\ Owns(T, dw, fs, er, i, e) /\ B[e] <= l2
  <2>1. Owns(T, dw, fs, er, i, e) /\ B[e] <= l2
    BY <1>1, <1>2, <1>3, <1>4, <1>5, <1>6, <1>7, <1>8, <1>11
  <2> QED  BY <1>9, <2>1, OwnsTyped
<1>12. Heights(T2, dw2, fs2, er2, l2, B)
  BY <1>9, <1>10, <1>11, HeightsKept
<1> QED  BY <1>6, <1>7, <1>8, <1>12 DEF LiveHeights

\* Where there are no fewer operands, the entries are enough.
LEMMA LiveRoom ==
    ASSUME Types, Types', LiveHeights, BaseOf' = BaseOf, Len(opstack) <= Len(opstack'),
           \A i, e : Owns(Now', dwStack', afterStack', entryReg', i, e) =>
              Owns(Now, dwStack, afterStack, entryReg, i, e)
    PROVE  LiveHeights'
<1>1. ASSUME NEW i, NEW e \in 1 .. Len(entries), Owns(Now, dwStack, afterStack, entryReg, i, e)
      PROVE  BaseOf[e] <= Len(opstack')
  <2>1. i \in 1 .. Len(Now)
    BY <1>1, BasesTyped, OwnsTyped
  <2>2. e \in DOMAIN BaseOf /\ BaseOf[e] \in Nat
    BY BaseOfIs
  <2>3. BaseOf[e] <= Len(opstack)
    BY <1>1, <2>1, <2>2 DEF LiveHeights, Heights
  <2>4. Len(opstack) \in Nat /\ Len(opstack') \in Nat
    <3>1. (Len(opstack) \in Nat)'
      BY BasesTyped
    <3> QED  BY <3>1, BasesTyped
  <2> QED  BY <2>2, <2>3, <2>4
<1> QED  BY <1>1, LiveKept

\* An instruction that trims the operands to the base of its entry finds them.
LEMMA LiveTop ==
    ASSUME Types, LiveHeights, NEW c \in 1 .. Len(entries),
           Owns(Now, dwStack, afterStack, entryReg, Len(Now), c),
           \A e : Owns(Now, dwStack, afterStack, entryReg, Len(Now), e) => e = c
    PROVE  /\ entries[c].base <= Len(opstack)
           /\ Len(Trimmed(entries[c].base)) = entries[c].base
           /\ \A i, e : Owns(Now, dwStack, afterStack, entryReg, i, e) =>
                 (e \in 1 .. Len(entries) => BaseOf[e] <= entries[c].base)
<1>1. PICK N \in Nat : N = Len(entries)
  BY BasesTyped
<1>2. PICK B \in [1 .. N -> Nat] : B = BaseOf
  BY <1>1, BaseOfIs
<1>3. PICK n \in Nat \ {0} : n = Len(Now)
  BY BasesTyped
<1>4. Heights(Now, dwStack, afterStack, entryReg, Len(opstack), B)
  BY <1>2 DEF LiveHeights
<1>5. /\ B[c] <= Len(opstack)
      /\ \A i \in 1 .. n, e \in 1 .. N : Owns(Now, dwStack, afterStack, entryReg, i, e) => B[e] <= B[c]
  BY <1>1, <1>3, <1>4, HeightsTop
<1>6. B[c] = entries[c].base /\ entries[c].base \in Nat
  BY <1>1, <1>2, BaseOfIs, EntryTyped DEF Types
<1>7. \A i, e : Owns(Now, dwStack, afterStack, entryReg, i, e) => i \in 1 .. n
  BY <1>3, BasesTyped, OwnsTyped
<1>8. Len(Trimmed(entries[c].base)) = entries[c].base
  <2>1. Len(opstack) \in Nat /\ entries[c].base <= Len(opstack)
    BY <1>5, <1>6, BasesTyped
  <2>2. Len(Trimmed(entries[c].base)) =
          IF Len(opstack) > entries[c].base THEN entries[c].base ELSE Len(opstack)
    BY <1>6, Trims DEF Types, TypesOf
  <2> QED  BY <1>6, <2>1, <2>2
<1> QED  BY <1>1, <1>2, <1>5, <1>6, <1>7, <1>8

\* A call, or another instruction, that is no business of the entries keeps the
\* bases in order.
LEMMA LiveCalled ==
    ASSUME Types, Types', LiveHeights, UNCHANGED <<entries, afterStack, entryReg>>,
           Len(opstack) <= Len(opstack'), NEW r, NEW q,
           Pushed(Now, Now', r, q) \/ (r = q /\ Topped(Now, Now', q)),
           q \notin {"before_after", "done", "after_before"},
           r = pc \/ (pc = "body" /\ r \in {"halt", "wind"}),
           dwStack' = dwStack \/ r = "wind"
    PROVE  LiveHeights'
<1>1. PICK n \in Nat \ {0} : n = Len(Now) /\ Now[n] = pc
  BY NowIs
<1>2. BaseOf' = BaseOf
  BY DEF BaseOf
<1>3. PICK T : T = Now
  OBVIOUS
<1>4. PICK T2 : T2 = Now'
  OBVIOUS
<1>5. /\ \A x \in {"before_after", "done", "after_before"} : r = x <=> T[n] = x
      /\ T[n] = "wind" => r = "wind"
  BY <1>1, <1>3
<1>6. PICK dw \in Seq(1 .. Len(entries)) : dw = dwStack
  BY BasesTyped
<1>7. PICK fs \in Seq(1 .. Len(entries)) : fs = afterStack
  BY BasesTyped
<1>8. PICK er, dw2 : er = entryReg /\ dw2 = dwStack'
  OBVIOUS
<1>9. ASSUME NEW i, NEW e, Owns(T2, dw2, fs, er, i, e)
      PROVE  Owns(T, dw, fs, er, i, e)
  <2>1. Pushed(T, T2, r, q) \/ (r = q /\ Topped(T, T2, q))
    BY <1>3, <1>4
  <2>2. dw2 = dw \/ r = "wind"
    BY <1>6, <1>8
  <2>3. n = Len(T)
    BY <1>1, <1>3
  <2> QED  BY <1>5, <1>9, <2>1, <2>2, <2>3, OwnsKept, ZenonT(30)
<1>10. \A i, e : Owns(Now', dwStack', afterStack', entryReg', i, e) =>
          Owns(Now, dwStack, afterStack, entryReg, i, e)
  BY <1>3, <1>4, <1>6, <1>7, <1>8, <1>9
<1> QED  BY <1>2, <1>10, LiveRoom

\* They stay in order when a before returns, ...
LEMMA LiveThunk ==
    ASSUME Types, Types', LiveHeights, AfterBefore, pc' # "failed"
    PROVE  LiveHeights'
<1>1. entryReg # 0 /\ thunkReg # 0
  BY DEF AfterBefore, Fail
<1>2. /\ pc = "after_before" /\ opstack' = Trimmed(entries[entryReg].base) /\ entryReg' = 0
      /\ dwStack' = Append(dwStack, entryReg) /\ Call(Thunk(thunkReg), "before_after")
      /\ UNCHANGED <<entries, afterStack>>
  BY <1>1 DEF AfterBefore
<1>3. Pushed(Now, Now', "before_after", "body")
  BY <1>2, CallDoes DEF Later
<1>4. PICK n \in Nat \ {0} : n = Len(Now) /\ Now[n] = "after_before"
  BY <1>2, NowIs
<1>5. entryReg \in 1 .. Len(entries)
  BY <1>1, BasesTyped
<1>6. /\ Owns(Now, dwStack, afterStack, entryReg, Len(Now), entryReg)
      /\ \A e : Owns(Now, dwStack, afterStack, entryReg, Len(Now), e) => e = entryReg
  BY <1>1, <1>4, BeforeOwns
<1>7. /\ Len(opstack') = entries[entryReg].base
      /\ \A i, e : Owns(Now, dwStack, afterStack, entryReg, i, e) =>
            (e \in 1 .. Len(entries) => BaseOf[e] <= entries[entryReg].base)
  BY <1>2, <1>5, <1>6, LiveTop
<1>8. ASSUME NEW i, NEW e, Owns(Now', dwStack', afterStack', entryReg', i, e)
      PROVE  Owns(Now, dwStack, afterStack, entryReg, i, e)
  <2>1. PICK T : T = Now
    OBVIOUS
  <2>2. PICK T2 : T2 = Now'
    OBVIOUS
  <2>3. PICK dw \in Seq(1 .. Len(entries)) : dw = dwStack
    BY BasesTyped
  <2>4. PICK fs \in Seq(1 .. Len(entries)) : fs = afterStack
    BY BasesTyped
  <2>5. PICK er \in 1 .. Len(entries) : er = entryReg /\ er # 0
    BY <1>1, <1>5
  <2>6. Owns(T2, Append(dw, er), fs, 0, i, e)
    BY <1>2, <1>8, <2>2, <2>3, <2>4, <2>5
  <2>7. Pushed(T, T2, "before_after", "body") /\ n = Len(T) /\ T[n] = "after_before"
    BY <1>3, <1>4, <2>1, <2>2
  <2>8. Owns(T, dw, fs, er, i, e)
    BY <2>5, <2>6, <2>7, OwnsThunk
  <2> QED  BY <2>1, <2>3, <2>4, <2>5, <2>8
<1>9. BaseOf' = BaseOf
  BY <1>2 DEF BaseOf
<1> QED  BY <1>7, <1>8, <1>9, LiveKept

\* ... when a thunk does, ...
LEMMA LiveAfter ==
    ASSUME Types, Types', LiveHeights, BeforeAfter, pc' # "failed"
    PROVE  LiveHeights' /\ BaseOf' = BaseOf
<1>1. dwStack # <<>>
  BY DEF BeforeAfter, Fail
<1>2. PICK c : c = Last(dwStack)
  OBVIOUS
<1>3. /\ pc = "before_after" /\ dwStack' = Front(dwStack) /\ opstack' = Trimmed(entries[c].base)
      /\ entries' = [entries EXCEPT ![c].saved = LastPopped(entries[c].base)]
      /\ afterStack' = Append(afterStack, c) /\ Call(After(c), "done") /\ UNCHANGED entryReg
  BY <1>1, <1>2 DEF BeforeAfter
<1>4. Pushed(Now, Now', "done", "body")
  BY <1>3, CallDoes DEF Later
<1>5. PICK n \in Nat \ {0} : n = Len(Now) /\ Now[n] = "before_after"
  BY <1>3, NowIs
<1>6. c \in 1 .. Len(entries)
  BY <1>1, <1>2, BasesTyped, Ends
<1>7. /\ Owns(Now, dwStack, afterStack, entryReg, Len(Now), c)
      /\ \A e : Owns(Now, dwStack, afterStack, entryReg, Len(Now), e) => e = c
  BY <1>1, <1>2, <1>5, BasesTyped, ThunkOwns
<1>8. /\ Len(opstack') = entries[c].base
      /\ \A i, e : Owns(Now, dwStack, afterStack, entryReg, i, e) =>
            (e \in 1 .. Len(entries) => BaseOf[e] <= entries[c].base)
  BY <1>3, <1>6, <1>7, LiveTop
<1>9. ASSUME NEW i, NEW e, Owns(Now', dwStack', afterStack', entryReg', i, e)
      PROVE  Owns(Now, dwStack, afterStack, entryReg, i, e)
  <2>1. PICK T : T = Now
    OBVIOUS
  <2>2. PICK T2 : T2 = Now'
    OBVIOUS
  <2>3. PICK dw \in Seq(1 .. Len(entries)) : dw = dwStack
    BY BasesTyped
  <2>4. PICK fs \in Seq(1 .. Len(entries)) : fs = afterStack
    BY BasesTyped
  <2>5. PICK er : er = entryReg
    OBVIOUS
  <2>6. Owns(T2, Front(dw), Append(fs, Last(dw)), er, i, e)
    BY <1>2, <1>3, <1>9, <2>2, <2>3, <2>4, <2>5
  <2>7. Pushed(T, T2, "done", "body") /\ n = Len(T) /\ T[n] = "before_after" /\ dw # <<>>
    BY <1>1, <1>4, <1>5, <2>1, <2>2, <2>3
  <2>8. Owns(T, dw, fs, er, i, e)
    BY <2>6, <2>7, OwnsAfter
  <2> QED  BY <2>1, <2>3, <2>4, <2>5, <2>8
<1>10. BaseOf' = BaseOf
  <2>1. PICK s \in Seq(EntryObject) : s = entries
    BY DEF Types, Counters
  <2>2. PICK v \in Value : v = LastPopped(s[c].base)
    <3>1. s[c].base \in Nat
      BY <1>6, <2>1, EntryTyped DEF Types
    <3> QED  BY <3>1, Trims DEF Types, TypesOf
  <2>3. PICK t : t = [s EXCEPT ![c].saved = v]
    OBVIOUS
  <2>4. DOMAIN s = 1 .. Len(s) /\ c \in DOMAIN s
    BY <1>6, <2>1
  <2>5. /\ t \in Seq(EntryObject) /\ Len(t) = Len(s)
        /\ \A i \in 1 .. Len(s) : t[i].base = s[i].base
    BY <2>1, <2>3, <2>4, SavedTyped
  <2>6. DOMAIN t = DOMAIN s
    BY <2>1, <2>5
  <2>7. [e \in DOMAIN t |-> t[e].base] = [e \in DOMAIN s |-> s[e].base]
    BY <2>4, <2>5, <2>6
  <2>8. entries' = t
    BY <1>3, <2>1, <2>2, <2>3
  <2> QED  BY <2>1, <2>7, <2>8 DEF BaseOf
<1> QED  BY <1>8, <1>9, <1>10, LiveKept

\* ... and when an after does.
LEMMA LiveDone ==
    ASSUME Types, Types', LiveHeights, Done, pc' # "failed"
    PROVE  LiveHeights'
<1>1. afterStack # <<>>
  BY DEF Done, Fail
<1>2. PICK c : c = Last(afterStack)
  OBVIOUS
<1>3. /\ pc = "done" /\ afterStack' = Front(afterStack)
      /\ opstack' = Append(Trimmed(entries[c].base), entries[c].saved) /\ pc' = "body"
      /\ UNCHANGED <<fstack, entries, dwStack, entryReg>>
  BY <1>1, <1>2 DEF Done
<1>4. Topped(Now, Now', "body")
  <2>1. fstack \in Seq(FrameOf(Len(entries)))
    BY DEF Types, TypesOf
  <2> QED  BY <1>3, <2>1, TodoTop DEF Now
<1>5. PICK n \in Nat \ {0} : n = Len(Now) /\ Now[n] = "done"
  BY <1>3, NowIs
<1>6. c \in 1 .. Len(entries)
  BY <1>1, <1>2, BasesTyped, Ends
<1>7. /\ Owns(Now, dwStack, afterStack, entryReg, Len(Now), c)
      /\ \A e : Owns(Now, dwStack, afterStack, entryReg, Len(Now), e) => e = c
  BY <1>1, <1>2, <1>5, BasesTyped, AfterOwns
<1>8. PICK b \in Nat : b = entries[c].base
  BY <1>6, EntryTyped DEF Types
<1>9. /\ Len(Trimmed(b)) = b
      /\ \A i, e : Owns(Now, dwStack, afterStack, entryReg, i, e) =>
            (e \in 1 .. Len(entries) => BaseOf[e] <= b)
  BY <1>6, <1>7, <1>8, LiveTop
<1>10. Len(opstack') = b + 1
  <2>1. Trimmed(b) \in Seq(Value) /\ entries[c].saved \in Value
    BY <1>6, <1>8, Trims, EntryTyped DEF Types, TypesOf
  <2> QED  BY <1>3, <1>8, <1>9, <2>1, AppendProperties
<1>11. \A i, e : Owns(Now, dwStack, afterStack, entryReg, i, e) =>
          (e \in 1 .. Len(entries) => BaseOf[e] <= Len(opstack'))
  <2>1. \A e \in 1 .. Len(entries) : BaseOf[e] \in Nat
    BY BaseOfIs
  <2> QED  BY <1>9, <1>10, <2>1
<1>12. ASSUME NEW i, NEW e, Owns(Now', dwStack', afterStack', entryReg', i, e)
       PROVE  Owns(Now, dwStack, afterStack, entryReg, i, e)
  <2>1. PICK T : T = Now
    OBVIOUS
  <2>2. PICK T2 : T2 = Now'
    OBVIOUS
  <2>3. PICK dw \in Seq(1 .. Len(entries)) : dw = dwStack
    BY BasesTyped
  <2>4. PICK fs \in Seq(1 .. Len(entries)) : fs = afterStack
    BY BasesTyped
  <2>5. PICK er : er = entryReg
    OBVIOUS
  <2>6. Owns(T2, dw, Front(fs), er, i, e)
    BY <1>3, <1>12, <2>2, <2>3, <2>4, <2>5
  <2>7. Topped(T, T2, "body") /\ n = Len(T) /\ T[n] = "done" /\ fs # <<>>
    BY <1>1, <1>4, <1>5, <2>1, <2>2, <2>4
  <2>8. Owns(T, dw, fs, er, i, e)
    BY <2>6, <2>7, OwnsDone
  <2> QED  BY <2>1, <2>3, <2>4, <2>5, <2>8
<1>13. BaseOf' = BaseOf
  BY <1>3 DEF BaseOf
<1> QED  BY <1>11, <1>12, <1>13, LiveKept

\* A continuation is restored with the bases that fit it.
LEMMA LiveRestored ==
    ASSUME Types, NEW i \in DOMAIN conts, KeptHeights(conts[i]), NEW v \in Value, Restore(conts[i], v),
           UNCHANGED <<dwStack, entries>>, dwStack = conts[i].dwStack
    PROVE  LiveHeights'
<1>1. PICK k \in SavedOf(Len(entries)) : k = conts[i]
  BY ElementOfSeq DEF Types, TypesOf
<1>2. PICK N \in Nat : N = Len(entries)
  BY BasesTyped
<1>3. PICK B \in [1 .. N -> Nat] : B = BaseOf
  BY <1>2, BaseOfIs
<1>4. k.opstack \in Seq(Value)
  BY <1>1 DEF SavedOf
<1>5. PICK l \in Nat : l = Len(k.opstack)
  BY <1>4
<1>6. Len(opstack') = l + 1
  BY <1>1, <1>4, <1>5, AppendProperties DEF Restore
<1>7. PICK T : T = Todo(k.fstack, "body")
  OBVIOUS
<1>8. Now' = T /\ dwStack' = k.dwStack /\ afterStack' = k.afterStack /\ entryReg' = k.entryReg
  BY <1>1, <1>7 DEF Restore, Now
<1>9. Heights(T, k.dwStack, k.afterStack, k.entryReg, l, B)
  BY <1>1, <1>3, <1>5, <1>7 DEF KeptHeights
<1>10. Heights(T, k.dwStack, k.afterStack, k.entryReg, l + 1, B)
  <2>1. l + 1 \in Nat /\ l <= l + 1
    OBVIOUS
  <2> QED  BY <1>9, <2>1, HeightsRoom
<1>11. BaseOf' = B
  BY <1>3 DEF BaseOf
<1> QED  BY <1>6, <1>8, <1>10, <1>11 DEF LiveHeights

\* A process enters a dynamic-wind.
LEMMA LiveEntered ==
    ASSUME Types, Types', LiveHeights, DynamicWind
    PROVE  /\ LiveHeights'
           /\ \A i \in DOMAIN conts : KeptHeights(conts[i]) => KeptHeights(conts[i])'
<1>1. PICK N \in Nat : N = Len(entries)
  BY BasesTyped
<1>2. /\ entries' = Append(entries, [base |-> Len(opstack), saved |-> Undefined])
      /\ entryReg' = N + 1 /\ Call(Before(N + 1), "after_before") /\ pc = "body"
      /\ UNCHANGED <<opstack, dwStack, afterStack, conts>>
  BY <1>1 DEF DynamicWind
<1>3. PICK l \in Nat : l = Len(opstack)
  BY BasesTyped
<1>4. PICK B \in [1 .. N -> Nat] : B = BaseOf
  BY <1>1, BaseOfIs
<1>5. PICK o : o = [base |-> l, saved |-> Undefined]
  OBVIOUS
<1>6. o \in EntryObject /\ o.base = l
  BY <1>5 DEF EntryObject, Value
<1>7. PICK s \in Seq(EntryObject) : s = Append(entries, o)
  BY <1>6, AppendProperties DEF Types, Counters
<1>8. Len(s) = N + 1 /\ s[N + 1] = o /\ \A e \in 1 .. N : s[e] = entries[e]
  BY <1>1, <1>6, <1>7, AppendProperties DEF Types, Counters
<1>9. entries' = s
  BY <1>2, <1>3, <1>5, <1>7
<1>10. PICK B2 : B2 = [e \in DOMAIN s |-> s[e].base]
  OBVIOUS
<1>11. BaseOf' = B2
  BY <1>9, <1>10 DEF BaseOf
<1>12. DOMAIN s = 1 .. N + 1
  BY <1>8
<1>13. B2 \in [1 .. N + 1 -> Nat] /\ B2[N + 1] = l /\ \A e \in 1 .. N : B2[e] = B[e]
  <2>1. ASSUME NEW e \in 1 .. N PROVE e \in 1 .. N + 1 /\ s[e].base = B[e]
    <3>1. BaseOf[e] = entries[e].base
      BY <1>1, BaseOfIs
    <3> QED  BY <1>4, <1>8, <3>1
  <2>2. \A e \in 1 .. N + 1 : e \in 1 .. N \/ e = N + 1
    OBVIOUS
  <2>3. \A e \in 1 .. N + 1 : s[e].base \in Nat
    BY <1>6, <1>8, <2>1, <2>2
  <2>4. N + 1 \in 1 .. N + 1
    OBVIOUS
  <2> QED  BY <1>6, <1>8, <1>10, <1>12, <2>1, <2>3, <2>4
<1>14. LiveHeights'
  <2>1. PICK n \in Nat \ {0} : n = Len(Now) /\ Now[n] = "body"
    BY <1>2, NowIs
  <2>2. Pushed(Now, Now', "after_before", "body")
    BY <1>2, CallDoes DEF Later
  <2>3. PICK T : T = Now
    OBVIOUS
  <2>4. PICK T2 : T2 = Now'
    OBVIOUS
  <2>5. PICK dw \in Seq(1 .. N) : dw = dwStack
    BY <1>1, BasesTyped
  <2>6. PICK fs \in Seq(1 .. N) : fs = afterStack
    BY <1>1, BasesTyped
  <2>7. PICK er \in 0 .. N : er = entryReg
    BY <1>1, BasesTyped
  <2>8. n = Len(T) /\ T[n] = "body" /\ Pushed(T, T2, "after_before", "body")
    BY <2>1, <2>2, <2>3, <2>4
  <2>9. PICK m : m = N + 1
    OBVIOUS
  <2>10. Heights(T, dw, fs, er, l, B)
    BY <1>3, <1>4, <2>3, <2>5, <2>6, <2>7 DEF LiveHeights
  <2>11. B2 \in [1 .. m -> Nat] /\ B2[m] = l /\ \A e \in 1 .. N : B2[e] = B[e]
    BY <1>13, <2>9
  <2>12. Heights(T2, dw, fs, m, l, B2)
    BY <2>8, <2>9, <2>10, <2>11, HeightsNew
  <2> QED  BY <1>2, <1>3, <1>11, <2>4, <2>5, <2>6, <2>9, <2>12 DEF LiveHeights
<1>15. ASSUME NEW i \in DOMAIN conts, KeptHeights(conts[i])
       PROVE  KeptHeights(conts[i])'
  <2>1. PICK k \in SavedOf(N) : k = conts[i]
    BY <1>1, ElementOfSeq DEF Types, TypesOf
  <2>2. /\ k.dwStack \in Seq(1 .. N) /\ k.afterStack \in Seq(1 .. N) /\ k.entryReg \in 0 .. N
        /\ k.fstack \in Seq(FrameOf(N))
    BY <2>1 DEF SavedOf
  <2>3. PICK T : T = Todo(k.fstack, "body")
    OBVIOUS
  <2>4. Len(T) \in Nat
    <3>1. Len(Todo(k.fstack, "body")) = Len(k.fstack) + 1 /\ Len(k.fstack) \in Nat
      BY <2>2, TodoIs
    <3> QED  BY <2>3, <3>1
  <2>5. Heights(T, k.dwStack, k.afterStack, k.entryReg, Len(k.opstack), B)
    BY <1>4, <1>15, <2>1, <2>3 DEF KeptHeights
  <2>6. Heights(T, k.dwStack, k.afterStack, k.entryReg, Len(k.opstack), B2)
    BY <1>13, <2>2, <2>4, <2>5, HeightsMore
  <2>7. conts'[i] = k
    BY <1>2, <2>1
  <2> QED  BY <1>11, <2>3, <2>6, <2>7 DEF KeptHeights
<1> QED  BY <1>14, <1>15

\* Where a wind has the last word, the closures it calls keep the bases in order.
LEMMA LiveWind ==
    ASSUME Types, Types', LiveHeights, pc = "wind", pc' # "failed",
           UNCHANGED <<opstack, entries, afterStack, entryReg>>,
           WindAfter \/ WindBefore
    PROVE  LiveHeights'
<1>1. PICK c : Call(c, "wind")
  BY DEF WindAfter, WindBefore, Fail
<1>2. Pushed(Now, Now', "wind", "body")
  BY <1>1, CallDoes DEF Later
<1>3. Len(opstack) <= Len(opstack')
  BY BasesTyped
<1> QED  BY <1>2, <1>3, LiveCalled

\* They do so throughout.
LEMMA NextBases == Types /\ Extents /\ Bases /\ [Next]_vars => Bases'
<1> SUFFICES ASSUME Types, Extents, Bases, [Next]_vars, NoneCapturedInWind' PROVE Bases'
  BY DEF Bases
<1>1. NoneCapturedInWind
  BY ContsKept DEF NoneCapturedInWind
<1>2. /\ pc # "failed" => LiveHeights
      /\ \A i \in DOMAIN conts : KeptHeights(conts[i])
  BY <1>1 DEF Bases
<1>3. Types' /\ Len(opstack) \in Nat /\ Len(opstack) <= Len(opstack)
  BY NextTypes, BasesTyped
<1>4. ASSUME BaseOf' = BaseOf, UNCHANGED conts, pc' # "failed" => LiveHeights'
      PROVE  Bases'
  <2>1. \A i \in DOMAIN conts : KeptHeights(conts[i])'
    BY <1>2, <1>4 DEF KeptHeights
  <2> QED  BY <1>4, <2>1 DEF Bases
<1>5. UNCHANGED entries => BaseOf' = BaseOf
  BY DEF BaseOf
<1> USE DEF stackVars, windVars, countVars
<1>6. ASSUME UNCHANGED <<pc, fstack, stackVars, conts>>
      PROVE  Bases'
  <2>1. LiveHeights' <=> LiveHeights
    BY <1>5, <1>6 DEF LiveHeights, Now
  <2> QED  BY <1>2, <1>4, <1>5, <1>6, <2>1
<1>7. CASE UNCHANGED vars
  BY <1>6, <1>7 DEF vars
<1>8. CASE \E v \in Values : Push(v)
  <2>1. PICK v \in Values : Push(v)
    BY <1>8
  <2>2. /\ pc = "body" /\ opstack' = Append(opstack, v)
        /\ UNCHANGED <<pc, fstack, entries, dwStack, afterStack, entryReg, conts>>
    BY <2>1 DEF Push
  <2>3. Len(opstack) <= Len(opstack')
    <3>1. opstack \in Seq(Value) /\ v \in Value
      BY DEF Types, TypesOf, Value
    <3>2. Len(opstack') = Len(opstack) + 1
      BY <2>2, <3>1, AppendProperties
    <3> QED  BY <1>3, <3>2
  <2>4. Now' = Now
    BY <2>2 DEF Now
  <2>5. LiveHeights'
    BY <1>2, <1>3, <1>5, <2>2, <2>3, <2>4, LiveRoom
  <2> QED  BY <1>4, <1>5, <2>2, <2>5
<1>9. CASE Return
  <2>1. pc = "body" /\ UNCHANGED <<stackVars, conts>>
    BY <1>9 DEF Return
  <2>2. CASE Popped(Now, Now')
    <3>1. PICK n \in Nat \ {0} : n = Len(Now) /\ Now[n] = "body"
      BY <2>1, NowIs
    <3>2. ASSUME NEW i, NEW e, Owns(Now', dwStack', afterStack', entryReg', i, e)
          PROVE  Owns(Now, dwStack, afterStack, entryReg, i, e)
      <4>1. PICK T, T2, er : T = Now /\ T2 = Now' /\ er = entryReg
        OBVIOUS
      <4>2. PICK dw \in Seq(1 .. Len(entries)) : dw = dwStack
        BY BasesTyped
      <4>3. PICK fs \in Seq(1 .. Len(entries)) : fs = afterStack
        BY BasesTyped
      <4>4. Owns(T2, dw, fs, er, i, e) /\ Popped(T, T2) /\ n = Len(T) /\ T[n] = "body"
        BY <2>1, <2>2, <3>1, <3>2, <4>1, <4>2, <4>3
      <4>5. Owns(T, dw, fs, er, i, e)
        BY <4>4, OwnsReturn
      <4> QED  BY <4>1, <4>2, <4>3, <4>5
    <3>3. LiveHeights'
      BY <1>2, <1>3, <1>5, <2>1, <3>2, LiveRoom
    <3> QED  BY <1>4, <1>5, <2>1, <3>3
  <2>3. CASE Topped(Now, Now', "halt")
    <3>1. LiveHeights'
      BY <1>2, <1>3, <2>1, <2>3, LiveCalled
    <3> QED  BY <1>4, <1>5, <2>1, <3>1
  <2> QED  BY <1>9, <2>2, <2>3, ReturnDoes
<1>10. CASE DynamicWind
  <2>1. pc = "body" /\ UNCHANGED conts
    BY <1>10 DEF DynamicWind
  <2>2. LiveHeights' /\ \A i \in DOMAIN conts : KeptHeights(conts[i])'
    BY <1>2, <1>3, <1>10, <2>1, LiveEntered
  <2> QED  BY <2>1, <2>2 DEF Bases
<1>11. CASE Capture
  <2> DEFINE k == [closure |-> closure, fstack |-> fstack, opstack |-> opstack,
                   dwStack |-> dwStack, afterStack |-> afterStack,
                   entryReg |-> entryReg, thunkReg |-> thunkReg]
  <2>1. pc = "body" /\ conts' = Append(conts, k) /\ UNCHANGED <<pc, fstack, stackVars>>
    BY <1>11 DEF Capture
  <2>2. /\ k.fstack = fstack /\ k.opstack = opstack /\ k.dwStack = dwStack
        /\ k.afterStack = afterStack /\ k.entryReg = entryReg
    OBVIOUS
  <2> HIDE DEF k
  <2>3. LiveHeights' /\ LiveHeights /\ BaseOf' = BaseOf
    BY <1>2, <1>5, <2>1 DEF LiveHeights, Now
  <2>4. KeptHeights(k)
    BY <2>1, <2>2, <2>3 DEF LiveHeights, KeptHeights, Now
  <2>5. \A i \in DOMAIN conts' : conts'[i] = k \/ (i \in DOMAIN conts /\ conts'[i] = conts[i])
    <3>1. conts \in Seq(SavedOf(Len(entries)))
      BY DEF Types, TypesOf
    <3> QED  BY <2>1, <3>1, AppendProperties
  <2>6. ASSUME NEW i \in DOMAIN conts' PROVE KeptHeights(conts[i])'
    <3>1. PICK k2 : k2 = conts'[i] /\ KeptHeights(k2)
      BY <1>2, <2>4, <2>5
    <3> QED  BY <2>3, <3>1 DEF KeptHeights
  <2> QED  BY <2>3, <2>6 DEF Bases
<1>12. CASE \E i \in DOMAIN conts, v \in Values : CallContinuation(i, v)
  <2>1. PICK i \in DOMAIN conts, v \in Values : CallContinuation(i, v)
    BY <1>12
  <2>2. pc = "body" /\ UNCHANGED <<dwStack, conts, entries>> /\ v \in Value
    BY <2>1 DEF CallContinuation, Value
  <2>3. CASE dwStack = conts[i].dwStack
    <3>1. Restore(conts[i], v)
      BY <2>1, <2>3 DEF CallContinuation
    <3>2. LiveHeights'
      BY <1>2, <2>2, <2>3, <3>1, LiveRestored
    <3> QED  BY <1>4, <1>5, <2>2, <3>2
  <2>4. CASE dwStack # conts[i].dwStack
    <3>1. StartWind(Adjustment(i, v, CommonPrefix(dwStack, conts[i].dwStack)))
      BY <2>1, <2>4 DEF CallContinuation
    <3>2. Pushed(Now, Now', "body", "wind") \/ Topped(Now, Now', "wind")
      BY <2>2, <3>1, StartDoes
    <3>3. UNCHANGED <<opstack, afterStack, entryReg>>
      BY <3>1 DEF StartWind
    <3>4. LiveHeights'
      <4>1. CASE Pushed(Now, Now', "body", "wind")
        BY <1>2, <1>3, <2>2, <3>3, <4>1, LiveCalled
      <4>2. CASE Topped(Now, Now', "wind")
        BY <1>2, <1>3, <2>2, <3>3, <4>2, LiveCalled
      <4> QED  BY <3>2, <4>1, <4>2
    <3> QED  BY <1>4, <1>5, <2>2, <3>4
  <2> QED  BY <2>3, <2>4
<1>13. CASE TimerCallback
  <2>1. pc # "failed" /\ Call(Callback, pc) /\ UNCHANGED <<stackVars, conts>>
    BY <1>13 DEF TimerCallback
  <2>2. Pushed(Now, Now', pc, "body")
    <3>1. pc \in Later
      BY <2>1 DEF Types, TypesOf
    <3> QED  BY <2>1, <3>1, CallDoes
  <2>3. LiveHeights'
    BY <1>2, <1>3, <2>1, <2>2, LiveCalled
  <2> QED  BY <1>4, <1>5, <2>1, <2>3
<1>14. CASE AfterBefore
  <2>1. pc # "failed" /\ UNCHANGED <<entries, conts>>
    BY <1>14 DEF AfterBefore
  <2> QED  BY <1>2, <1>3, <1>4, <1>5, <1>14, <2>1, LiveThunk
<1>15. CASE BeforeAfter
  <2>1. pc = "before_after" /\ UNCHANGED conts
    BY <1>15 DEF BeforeAfter
  <2>2. CASE dwStack = <<>>
    BY <1>4, <1>5, <1>15, <2>1, <2>2 DEF BeforeAfter, Fail
  <2>3. CASE dwStack # <<>>
    <3>1. pc' # "failed"
      BY <1>15, <2>3 DEF BeforeAfter, Call
    <3> QED  BY <1>2, <1>3, <1>4, <1>15, <2>1, <3>1, LiveAfter
  <2> QED  BY <2>2, <2>3
<1>16. CASE Done
  <2>1. pc = "done" /\ UNCHANGED <<entries, conts>>
    BY <1>16 DEF Done
  <2> QED  BY <1>2, <1>3, <1>4, <1>5, <1>16, <2>1, LiveDone
<1>17. CASE WindAfter \/ WindBefore
  <2>1. pc = "wind" /\ UNCHANGED <<opstack, entries, afterStack, entryReg, conts>>
    BY <1>17 DEF WindAfter, WindBefore
  <2> QED  BY <1>2, <1>3, <1>4, <1>5, <1>17, <2>1, LiveWind
<1>18. CASE WindNext
  BY <1>6, <1>18 DEF WindNext
<1>19. CASE WindIllegal
  BY <1>4, <1>5, <1>19 DEF WindIllegal, Fail
<1>20. CASE WindRestore
  <2>1. /\ pc = "wind" /\ windState = 3 /\ Restore(conts[pending.cont], pending.value)
        /\ UNCHANGED <<dwStack, conts, entries>>
    BY <1>20 DEF WindRestore
  <2>2. dwStack = conts[pending.cont].dwStack /\ pending.cont \in DOMAIN conts
    BY <1>1, <2>1, WindEnded, WindingTyped
  <2>3. pending.value \in Value
    BY DEF Types, TypesOf, PendingOf
  <2>4. LiveHeights'
    BY <1>2, <2>1, <2>2, <2>3, LiveRestored
  <2> QED  BY <1>4, <1>5, <2>1, <2>4
<1>21. CASE Fork
  <2>1. /\ pc = "body" /\ entryReg' = 0 /\ UNCHANGED <<pc, fstack, opstack, entries, dwStack, afterStack>>
        /\ conts' = [i \in DOMAIN conts |->
                       [conts[i] EXCEPT !.afterStack = <<>>, !.entryReg = 0, !.thunkReg = 0]]
    BY <1>21 DEF Fork
  <2>2. \A T, i, e : ~RegisterAt(T, 0, i, e)
    BY DEF RegisterAt
  <2>3. Now' = Now
    BY <2>1 DEF Now
  <2>4. LiveHeights'
    <3>1. ASSUME NEW i, NEW e, Owns(Now', dwStack', afterStack', entryReg', i, e)
          PROVE  Owns(Now, dwStack, afterStack, entryReg, i, e)
      BY <2>1, <2>2, <2>3, <3>1 DEF Owns
    <3> QED  BY <1>2, <1>3, <1>5, <2>1, <3>1, LiveRoom
  <2>5. ASSUME NEW i \in DOMAIN conts' PROVE KeptHeights(conts[i])'
    <3>1. i \in DOMAIN conts
      BY <2>1
    <3>2. PICK k \in SavedOf(Len(entries)) : k = conts[i]
      BY <3>1, ElementOfSeq DEF Types, TypesOf
    <3>3. PICK none : none = <<>>
      OBVIOUS
    <3>4. PICK k2 : k2 = [k EXCEPT !.afterStack = none, !.entryReg = 0, !.thunkReg = 0]
      OBVIOUS
    <3>5. conts'[i] = k2
      BY <2>1, <3>1, <3>2, <3>3, <3>4, Zenon
    <3>6. /\ k2.fstack = k.fstack /\ k2.dwStack = k.dwStack /\ k2.opstack = k.opstack
          /\ k2.afterStack = none /\ k2.entryReg = 0
      BY <3>4 DEF SavedOf
    <3>7. PICK N \in Nat : N = Len(entries)
      BY BasesTyped
    <3>8. PICK B \in [1 .. N -> Nat] : B = BaseOf
      BY <3>7, BaseOfIs
    <3>9. /\ k.dwStack \in Seq(1 .. N) /\ k.afterStack \in Seq(1 .. N) /\ k.entryReg \in 0 .. N
          /\ k.opstack \in Seq(Value) /\ k.fstack \in Seq(FrameOf(N))
      BY <3>2, <3>7 DEF SavedOf
    <3>10. PICK T : T = Todo(k.fstack, "body")
      OBVIOUS
    <3>11. Len(T) \in Nat
      BY <3>9, <3>10, TodoIs
    <3>12. Heights(T, k.dwStack, k.afterStack, k.entryReg, Len(k.opstack), B)
      BY <1>2, <3>1, <3>2, <3>8, <3>10 DEF KeptHeights
    <3>13. ASSUME NEW j \in 1 .. Len(T), NEW e \in 1 .. N, Owns(T, k.dwStack, none, 0, j, e)
           PROVE  Owns(T, k.dwStack, k.afterStack, k.entryReg, j, e) /\ B[e] <= Len(k.opstack)
      <4>1. ~HeldAt(T, none, "done", j, e)
        BY <3>3, <3>11, HeldNone
      <4>2. Owns(T, k.dwStack, k.afterStack, k.entryReg, j, e)
        BY <2>2, <3>13, <4>1 DEF Owns
      <4> QED  BY <3>12, <4>2 DEF Heights
    <3>14. Heights(T, k.dwStack, none, 0, Len(k.opstack), B)
      BY <3>11, <3>12, <3>13, HeightsKept
    <3>15. BaseOf' = B
      BY <1>5, <2>1, <3>8
    <3> QED  BY <3>5, <3>6, <3>10, <3>14, <3>15 DEF KeptHeights
  <2> QED  BY <2>4, <2>5 DEF Bases
<1> QED  BY <1>7, <1>8, <1>9, <1>10, <1>11, <1>12, <1>13, <1>14, <1>15, <1>16, <1>17,
            <1>18, <1>19, <1>20, <1>21 DEF Next, User, Instruction

-----------------------------------------------------------------------------
(* The theorems *)

\* The inductive invariant.
IInv == Types /\ Registers /\ Afters /\ Extents /\ Bases

\* A process that starts has nothing on its stacks.
LEMMA InitIInv == Init => IInv
<1> SUFFICES ASSUME Init PROVE IInv
  OBVIOUS
<1>1. /\ fstack = <<>> /\ pc = "body" /\ conts = <<>> /\ entryReg = 0
      /\ afterStack = <<>> /\ dwStack = <<>>
  BY DEF Init
<1>2. Types
  <2>1. entries = <<>> /\ opstack = <<>> /\ thunkReg = 0 /\ windState = 0 /\ forked = FALSE /\ jumps = 0
    BY DEF Init
  <2>2. Main \in ClosureOf(0) /\ closure = Main
    BY DEF Init, Main, ClosureOf
  <2>3. NoPending \in PendingOf(0) /\ pending = NoPending
    BY DEF Init, NoPending, PendingOf, Value
  <2>4. MaxEntries \in Nat /\ MaxJumps \in Nat
    BY BoundsAssumption
  <2>5. Len(entries) = 0 /\ entries \in Seq(EntryObject)
    BY <2>1
  <2>6. Counters
    <3>1. Len(entries) <= MaxEntries /\ 0 \in 0 .. MaxJumps /\ 0 \in 0 .. 3
      BY <2>4, <2>5
    <3> QED  BY <2>1, <2>5, <3>1 DEF Counters
  <2>7. TypesOf(0)
    BY <1>1, <2>1, <2>2, <2>3 DEF TypesOf, Later
  <2> QED  BY <2>5, <2>6, <2>7 DEF Types
<1>3. \A i : i \notin DOMAIN conts
  BY <1>1
<1>4. Registers
  BY <1>1, <1>3 DEF Registers, RegisterFits
<1>5. Len(Now) = 1 /\ Now[1] = "body"
  <2>1. fstack \in Seq({}) /\ Len(fstack) = 0
    BY <1>1
  <2>2. /\ Len(Todo(fstack, "body")) = Len(fstack) + 1
        /\ Todo(fstack, "body")[Len(fstack) + 1] = "body"
    BY <2>1, TodoIs
  <2>3. Len(Now) = 0 + 1 /\ Now[0 + 1] = "body"
    BY <1>1, <2>1, <2>2 DEF Now
  <2> QED  BY <2>3
<1>6. ASSUME NEW x, x # "body" PROVE Count(Now, x, 1) = 0
  <2>1. Count(Now, x, 0) = 0
    <3>1. {k \in 1 .. 0 : Now[k] = x} = {}
      OBVIOUS
    <3> QED  BY <3>1, FS_EmptySet DEF Count
  <2>2. 0 \in Nat /\ Now[0 + 1] # x
    BY <1>5, <1>6
  <2> QED  BY <2>1, <2>2, CountNext
<1>7. ASSUME NEW x, x # "body", NEW role PROVE Matched(Now, NowIn, <<>>, x, role)
  <2>1. Len(<<>>) = Count(Now, x, Len(Now))
    BY <1>5, <1>6, <1>7
  <2> QED  BY <1>5, <2>1 DEF Matched
<1>8. "done" # "body" /\ "before_after" # "body" /\ "wind" # "body"
  OBVIOUS
<1>9. Afters
  BY <1>1, <1>3, <1>7, <1>8 DEF Afters
<1>10. ~HasWind(Now)
  BY <1>5 DEF HasWind
<1>11. Extents
  BY <1>1, <1>3, <1>7, <1>8, <1>10 DEF Extents
<1>12. Bases
  <2>1. Heights(Now, <<>>, <<>>, 0, Len(opstack), BaseOf)
    <3>1. ASSUME NEW i, NEW e PROVE ~Owns(Now, <<>>, <<>>, 0, i, e)
      <4>1. \A x : ~HeldAt(Now, <<>>, x, i, e)
        BY <1>5, HeldNone
      <4> QED  BY <4>1 DEF Owns, RegisterAt
    <3> QED  BY <3>1 DEF Heights
  <2> QED  BY <1>1, <1>3, <2>1 DEF Bases, LiveHeights
<1> QED  BY <1>2, <1>4, <1>9, <1>11, <1>12 DEF IInv

\* The inductive invariant holds after any sequence of actions.
THEOREM Inductive == Spec => []IInv
<1>1. IInv /\ [Next]_vars => IInv'
  BY NextTypes, NextRegisters, NextAfters, NextExtents, NextBases DEF IInv
<1> QED  BY <1>1, InitIInv, PTL DEF Spec

\* It says what TypeOK does.
LEMMA TypesAreOK == Types => TypeOK
<1> SUFFICES ASSUME Types PROVE TypeOK
  OBVIOUS
<1>1. PICK n \in Nat : n = Len(entries) /\ DOMAIN entries = 1 .. n
  BY DEF Types, Counters
<1>2. TypesOf(n) /\ Counters
  BY <1>1 DEF Types
<1>3. pc \in {"body", "after_before", "before_after", "done", "wind", "halt", "failed"}
  BY <1>2 DEF TypesOf, Later
<1>4. n <= MaxEntries /\ MaxEntries \in Nat
  BY <1>1, <1>2, BoundsAssumption DEF Counters
<1>5. closure \in [role : Role \cup {"main", "callback"}, entry : 0 .. MaxEntries]
  BY <1>2, <1>4 DEF TypesOf, ClosureOf
<1>6. ASSUME NEW i \in DOMAIN fstack PROVE fstack[i].closure.entry <= Len(entries)
  <2>1. fstack[i] \in FrameOf(n)
    BY <1>2, ElementOfSeq DEF TypesOf
  <2> QED  BY <1>1, <2>1 DEF FrameOf, ClosureOf
<1>7. Range(dwStack) \cup Range(afterStack) \subseteq DOMAIN entries
  <2>1. dwStack \in Seq(1 .. n) /\ afterStack \in Seq(1 .. n)
    BY <1>2 DEF TypesOf
  <2> QED  BY <1>1, <2>1 DEF Range
<1>8. {entryReg, thunkReg} \subseteq {0} \cup DOMAIN entries
  BY <1>1, <1>2 DEF TypesOf
<1>9. windState # 0 => pending.cont \in DOMAIN conts
  BY <1>2 DEF TypesOf, Counters, PendingOf
<1> QED  BY <1>1, <1>2, <1>3, <1>4, <1>5, <1>6, <1>7, <1>8, <1>9 DEF TypeOK, TypesOf, Counters

\* The registers, the stacks and the entry and continuation objects hold what
\* they are meant to, after any sequence of instructions (types of process.h).
THEOREM TypeCorrect == Spec => []TypeOK
BY Inductive, TypesAreOK, PTL DEF IInv

\* The entries on dynamic_wind_after_stack are those of the afters in progress,
\* in their order, until a fork: an after that returns finds its own entry.
THEOREM AfterStackCorrect == Spec => []AfterStackMatchesFrames
<1>1. IInv => AfterStackMatchesFrames
  BY AftersMatch DEF IInv, Afters, AfterStackMatchesFrames
<1> QED  BY <1>1, Inductive, PTL

\* The entries on dynamic_wind_stack are those of the thunks control is inside,
\* in their order, whatever continuations were called to get there.
THEOREM WindStackCorrect == Spec => []WindStackMatchesFrames
<1>1. ASSUME IInv PROVE WindStackMatchesFrames
  <2> SUFFICES ASSUME NoneCapturedInWind, pc \notin {"failed", "wind"}, ~InWind(fstack)
               PROVE  Matches(dwStack, "before_after", Thunk)
    BY DEF WindStackMatchesFrames
  <2>1. fstack \in Seq(FrameOf(Len(entries)))
    BY <1>1 DEF IInv, Types, TypesOf
  <2>2. ~HasWind(Now)
    BY <2>1, HasWindIs DEF Now
  <2> QED  BY <1>1, <2>2, ThunksMatch DEF IInv, Extents
<1> QED  BY <1>1, Inductive, PTL

\* op_wind restores a continuation only when the wind stack is the one it was
\* captured with, though the wind stack is not part of what is restored.
THEOREM RestoredCorrect == Spec => RestoredInItsExtents
<1>1. IInv => (NoneCapturedInWind /\ pc = "wind" /\ pc' = "body" /\ windState = 3
                  => dwStack = conts[pending.cont].dwStack)
  BY WindEnded DEF IInv
<1>2. IInv /\ [Next]_vars =>
        [NoneCapturedInWind /\ pc = "wind" /\ pc' = "body" /\ windState = 3
            => dwStack = conts[pending.cont].dwStack]_vars
  BY <1>1
<1> QED  BY <1>2, Inductive, PTL DEF Spec, RestoredInItsExtents

\* A step enters or leaves one extent at most, the innermost, and runs its thunk
\* or before, or its after.
THEOREM ExtentsInOrderCorrect == Spec => ExtentsCrossedInOrder
<1> DEFINE Crossed ==
      \/ dwStack' = dwStack
      \/ dwStack # <<>> /\ dwStack' = Front(dwStack) /\ closure' = After(Last(dwStack))
      \/ /\ dwStack' # <<>> /\ dwStack = Front(dwStack')
         /\ pc' # "failed" => closure' \in {Before(Last(dwStack')), Thunk(Last(dwStack'))}
<1>1. ASSUME IInv, [Next]_vars PROVE Crossed
  <2>1. Types /\ Registers
    BY <1>1 DEF IInv
  <2>2. PICK n \in Nat : n = Len(entries)
    BY <2>1 DEF Types, Counters
  <2>3. dwStack \in Seq(1 .. n)
    BY <2>1, <2>2 DEF Types, TypesOf
  <2>4. ASSUME NEW e \in 1 .. n, dwStack' = Append(dwStack, e)
        PROVE  dwStack' # <<>> /\ dwStack = Front(dwStack') /\ Last(dwStack') = e
    <3>1. PICK t \in Seq(1 .. n) : t = dwStack'
      BY <2>3, <2>4, AppendProperties
    <3>2. PICK l \in Nat : l = Len(dwStack)
      BY <2>3
    <3>3. Len(t) = l + 1 /\ t[l + 1] = e /\ \A i \in 1 .. l : t[i] = dwStack[i]
      BY <2>3, <2>4, <3>1, <3>2, AppendProperties
    <3>4. t # <<>>
      BY <3>3, <3>2
    <3>5. /\ Front(t) \in Seq(1 .. n) /\ Len(Front(t)) = Len(t) - 1 /\ Last(t) = t[Len(t)]
          /\ \A i \in 1 .. Len(t) - 1 : Front(t)[i] = t[i]
      BY <3>4, Ends
    <3>6. Last(t) = e /\ Len(Front(t)) = l /\ \A i \in 1 .. l : Front(t)[i] = t[i]
      BY <3>2, <3>3, <3>5
    <3>7. Front(t) = dwStack
      BY <2>3, <3>2, <3>3, <3>5, <3>6, SeqEqual
    <3> QED  BY <3>1, <3>4, <3>6, <3>7
  <2>5. CASE AfterBefore
    <3>1. CASE entryReg = 0
      BY <2>5, <3>1 DEF AfterBefore
    <3>2. CASE entryReg # 0
      <4>1. pc = "after_before" /\ dwStack' = Append(dwStack, entryReg)
            /\ IF thunkReg = 0 THEN Fail ELSE Call(Thunk(thunkReg), "before_after")
        BY <2>5, <3>2 DEF AfterBefore
      <4>2. thunkReg = entryReg
        BY <2>1, <3>2, <4>1 DEF Registers, RegisterFits
      <4>3. closure' = Thunk(entryReg) /\ entryReg \in 1 .. n
        BY <2>1, <2>2, <3>2, <4>1, <4>2 DEF Call, Types, TypesOf
      <4> QED  BY <2>4, <4>1, <4>3
    <3> QED  BY <3>1, <3>2
  <2>6. CASE BeforeAfter
    BY <2>6 DEF BeforeAfter, Call, stackVars
  <2>7. CASE WindAfter
    BY <2>7 DEF WindAfter, Call
  <2>8. CASE WindBefore
    <3>1. dwStack' = Append(dwStack, Head(pending.befores)) /\ closure' = Before(Head(pending.befores))
      BY <2>8 DEF WindBefore, Call
    <3>2. Head(pending.befores) \in 1 .. n
      BY <2>1, <2>2, <2>8, Ends DEF WindBefore, Types, TypesOf, PendingOf
    <3> QED  BY <2>4, <3>1, <3>2
  <2>9. CASE UNCHANGED dwStack
    BY <2>9
  <2>10. AfterBefore \/ BeforeAfter \/ WindAfter \/ WindBefore \/ UNCHANGED dwStack
    BY <1>1 DEF Next, User, Instruction, vars, stackVars, Push, Return, DynamicWind, Capture,
                CallContinuation, Fork, TimerCallback, Done, WindNext, WindRestore, WindIllegal
  <2> QED  BY <2>5, <2>6, <2>7, <2>8, <2>9, <2>10
<1>2. IInv /\ [Next]_vars => [Crossed]_vars
  BY <1>1
<1> QED  BY <1>2, Inductive, PTL DEF Spec, ExtentsCrossedInOrder

\* An instruction that trims the operand stack to the base of its entry finds at
\* least as many operands there.
THEOREM BasesCorrect == Spec => []BaseInBounds
<1>1. ASSUME IInv PROVE BaseInBounds
  <2> SUFFICES ASSUME NoneCapturedInWind PROVE BaseInBounds
    BY DEF BaseInBounds
  <2>1. Types /\ (pc # "failed" => LiveHeights)
    BY <1>1 DEF IInv, Bases
  <2>2. PICK n \in Nat \ {0} : n = Len(Now) /\ Now[n] = pc
    BY <2>1, NowIs
  <2>3. ASSUME pc = "after_before", entryReg # 0
        PROVE  entries[entryReg].base <= Len(opstack)
    <3>1. entryReg \in 1 .. Len(entries)
      BY <2>1, <2>3, BasesTyped
    <3>2. /\ Owns(Now, dwStack, afterStack, entryReg, Len(Now), entryReg)
          /\ \A e : Owns(Now, dwStack, afterStack, entryReg, Len(Now), e) => e = entryReg
      BY <2>2, <2>3, BeforeOwns
    <3> QED  BY <2>1, <2>3, <3>1, <3>2, LiveTop
  <2>4. ASSUME pc = "before_after", dwStack # <<>>
        PROVE  entries[Last(dwStack)].base <= Len(opstack)
    <3>1. Last(dwStack) \in 1 .. Len(entries)
      BY <2>1, <2>4, BasesTyped, Ends
    <3>2. /\ Owns(Now, dwStack, afterStack, entryReg, Len(Now), Last(dwStack))
          /\ \A e : Owns(Now, dwStack, afterStack, entryReg, Len(Now), e) => e = Last(dwStack)
      BY <2>1, <2>2, <2>4, BasesTyped, ThunkOwns
    <3> QED  BY <2>1, <2>4, <3>1, <3>2, LiveTop
  <2>5. ASSUME pc = "done", afterStack # <<>>
        PROVE  entries[Last(afterStack)].base <= Len(opstack)
    <3>1. Last(afterStack) \in 1 .. Len(entries)
      BY <2>1, <2>5, BasesTyped, Ends
    <3>2. /\ Owns(Now, dwStack, afterStack, entryReg, Len(Now), Last(afterStack))
          /\ \A e : Owns(Now, dwStack, afterStack, entryReg, Len(Now), e) => e = Last(afterStack)
      BY <2>1, <2>2, <2>5, BasesTyped, AfterOwns
    <3> QED  BY <2>1, <2>5, <3>1, <3>2, LiveTop
  <2> QED  BY <2>3, <2>4, <2>5 DEF BaseInBounds
<1> QED  BY <1>1, Inductive, PTL
=============================================================================

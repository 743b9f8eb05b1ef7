---------------------------- MODULE ExecutionProofs ----------------------------
(***************************************************************************)
(* Proofs about the run of a process, for every program the compiler could *)
(* make (LoadableMachine) and every set of texts that it evaluates         *)
(* (LoadableText): evaluated code is taken out without a trace, an object  *)
(* stays what it is, and the look-up of a variable ends at a closure that  *)
(* binds it.                                                               *)
(*                                                                         *)
(* Every instruction but the clean-up leaves the code and the names alone  *)
(* and keeps every object (Kept); CodeInv says how the pieces of code that *)
(* are stacked behind the program and their records fit together.          *)
(***************************************************************************)
EXTENDS Execution, FiniteSetTheorems, SequenceTheorems, WellFoundedInduction, TLAPS

MachineFields == {"il", "pc", "ops", "fs", "cur", "heap", "next", "vocab", "vtype", "vartop", "arn",
                  "temps", "out", "mode", "why", "loaded"}

IsSeq(s) == s \in Seq(Range(s))

----------------------------------------------------------------------------
(* What holds of the heap and of the stacks *)

IsClosureIn(heap, h) == h \in DOMAIN heap /\ heap[h].type = "CLOSURE"

\* Where a call can come from: nowhere, or a closure.
IsCaller(heap, h) == h = NullHandle \/ IsClosureIn(heap, h)
Frames(heap, fs)  == IsSeq(fs) /\ \A i \in DOMAIN fs : IsCaller(heap, fs[i][1])

\* A closure is younger than the one around it; a continuation has calls of closures.
ObjectOk(heap, h, o) ==
    /\ "type" \in DOMAIN o
    /\ o.type = "CLOSURE" =>
          /\ {"iaddr", "parent", "bs"} \subseteq DOMAIN o
          /\ IsCaller(heap, o.parent) /\ o.parent \in 0..(h - 1)
    /\ o.type = "CONTINUATION" => IsCaller(heap, o.cur) /\ Frames(heap, o.fs)

Good(m) ==
    /\ MachineFields \subseteq DOMAIN m
    /\ m.next \in Nat \ {0}
    /\ \A h \in DOMAIN m.heap : h \in 1..(m.next - 1) /\ ObjectOk(m.heap, h, m.heap[h])
    /\ IsCaller(m.heap, m.cur)
    /\ Frames(m.heap, m.fs)

\* What no instruction does to an object: change its kind, the code or the parent
\* of a closure, or anything of what is neither a closure nor a list.
SameObject(o, p) ==
    /\ DOMAIN p = DOMAIN o
    /\ p.type = o.type
    /\ o.type = "CLOSURE" => p.iaddr = o.iaddr /\ p.parent = o.parent
    /\ o.type \notin ListTypes \cup {"CLOSURE"} => p = o

SameCode(m, n) ==
    /\ MachineFields \subseteq DOMAIN n
    /\ n.il = m.il /\ n.vocab = m.vocab /\ n.vtype = m.vtype
    /\ n.vartop = m.vartop /\ n.arn = m.arn /\ n.loaded = m.loaded

\* All but the clean-up and the evaluation of a text.
Kept(m, n) ==
    /\ SameCode(m, n)
    /\ n.next \in Nat /\ n.next >= m.next
    /\ \A h \in DOMAIN m.heap : h \in DOMAIN n.heap /\ SameObject(m.heap[h], n.heap[h])
    /\ \A h \in DOMAIN n.heap \ DOMAIN m.heap : h >= m.next /\ n.heap[h].type # "EVAL_RECORD"

Moves(m, n) == Good(n) /\ Kept(m, n)

----------------------------------------------------------------------------
(* How the pieces of code and their records fit together *)

RecordFields == {"type", "ret", "ops", "il", "vocab"}

IsCleanup(m, i) == m.il[i][1] = "evalcleanup"
RecordOf(m, i)  == m.heap[Held(m.il[i][2])]
HasRecord(m, i) == IsType(m, m.il[i][2], "EVAL_RECORD") /\ DOMAIN RecordOf(m, i) = RecordFields

\* The first n instructions name only the first k variables.
NamesOnly(il, n, k) == \A j \in 1..n : Tag(il[j][2]) = "var" => Held(il[j][2]) \in 1..k

Begins(s, t) == IsSeq(s) /\ IsSeq(t) /\ Len(s) <= Len(t) /\ \A i \in 1..Len(s) : t[i] = s[i]

\* The record of the clean-up at i takes away the code from i - 1 on: what stays
\* names only variables that stay, and has records that fit in turn.
RecordFits(m, i) ==
    LET r == RecordOf(m, i)
        own == m.loaded
    IN /\ HasRecord(m, i)
       /\ r.il = i - 2
       /\ r.il = Len(own.il) \/ r.il >= Len(own.il) + 2
       /\ r.vocab \in Len(own.vocab)..Len(m.vocab)
       /\ r.il = Len(own.il) => r.vocab = Len(own.vocab)
       /\ NamesOnly(m.il, r.il, r.vocab)
       /\ \A j \in 1..r.il : IsCleanup(m, j) => RecordOf(m, j).vocab <= r.vocab

CodeInv(m) ==
    /\ Begins(m.loaded.il, m.il) /\ Begins(m.loaded.vocab, m.vocab)
    /\ NamesOnly(m.il, Len(m.il), Len(m.vocab))
    /\ \A i \in 1..Len(m.il) : IsCleanup(m, i) => RecordFits(m, i)
    /\ Len(m.il) = Len(m.loaded.il) => Len(m.vocab) = Len(m.loaded.vocab)
    /\ Len(m.il) > Len(m.loaded.il) =>
          Len(m.il) >= Len(m.loaded.il) + 2 /\ IsCleanup(m, Len(m.loaded.il) + 2)

TopsKnown(m) == m.vartop \in Seq(1..Len(m.loaded.vocab))

IInv == Good(work) /\ CodeInv(work) /\ TopsKnown(work)

----------------------------------------------------------------------------
(* Sequences and least elements *)

LEMMA SeqFacts ==
  ASSUME NEW s, IsSeq(s)
  PROVE  Len(s) \in Nat /\ DOMAIN s = 1..Len(s)
  BY DEF IsSeq

LEMMA SeqOfIsSeq ==
  ASSUME NEW S, NEW s \in Seq(S)
  PROVE  IsSeq(s)
<1>1. \A i \in 1..Len(s) : s[i] \in Range(s)
  BY DEF Range
<1> QED  BY <1>1 DEF IsSeq

LEMMA AppendIsSeq ==
  ASSUME NEW s, IsSeq(s), NEW x
  PROVE  /\ IsSeq(Append(s, x))
         /\ Len(Append(s, x)) = Len(s) + 1
         /\ \A i \in 1..Len(s) : Append(s, x)[i] = s[i]
         /\ Append(s, x)[Len(s) + 1] = x
<1> DEFINE S == Range(s) \cup {x}
<1>1. s \in Seq(Range(s))
  BY DEF IsSeq
<1>2. s \in Seq(S)
  BY <1>1
<1>3. Append(s, x) \in Seq(S)
  BY <1>2
<1>4. IsSeq(Append(s, x))
  BY <1>3, SeqOfIsSeq
<1> QED  BY <1>1, <1>4

LEMMA InitialIsSeq ==
  ASSUME NEW s, IsSeq(s), NEW n \in Nat, n <= Len(s)
  PROVE  /\ IsSeq(SubSeq(s, 1, n))
         /\ Len(SubSeq(s, 1, n)) = n
         /\ \A i \in 1..n : SubSeq(s, 1, n)[i] = s[i]
<1>1. s \in Seq(Range(s))
  BY DEF IsSeq
<1>2. SubSeq(s, 1, n) \in Seq(Range(s))
  BY <1>1
<1>3. IsSeq(SubSeq(s, 1, n))
  BY <1>2, SeqOfIsSeq
<1> QED  BY <1>1, <1>3

LEMMA ConcatIsSeq ==
  ASSUME NEW s, IsSeq(s), NEW t, IsSeq(t)
  PROVE  /\ IsSeq(s \o t)
         /\ Len(s \o t) = Len(s) + Len(t)
         /\ \A i \in 1..Len(s) : (s \o t)[i] = s[i]
         /\ \A i \in 1..Len(t) : (s \o t)[Len(s) + i] = t[i]
<1> DEFINE S == Range(s) \cup Range(t)
<1>1. s \in Seq(Range(s)) /\ t \in Seq(Range(t))
  BY DEF IsSeq
<1>2. s \in Seq(S) /\ t \in Seq(S)
  BY <1>1
<1>3. s \o t \in Seq(S)
  BY <1>2
<1>4. IsSeq(s \o t)
  BY <1>3, SeqOfIsSeq
<1>5. Len(s \o t) = Len(s) + Len(t) /\ \A i \in 1..(Len(s) + Len(t)) : (s \o t)[i] = IF i <= Len(s) THEN s[i] ELSE t[i - Len(s)]
  BY <1>2
<1>6. ASSUME NEW i \in 1..Len(t)
      PROVE  (s \o t)[Len(s) + i] = t[i]
  <2>1. Len(s) \in Nat /\ Len(t) \in Nat
    BY <1>2
  <2>2. Len(s) + i \in 1..(Len(s) + Len(t)) /\ ~(Len(s) + i <= Len(s)) /\ Len(s) + i - Len(s) = i
    BY <2>1
  <2> QED  BY <2>2, <1>5
<1>7. ASSUME NEW i \in 1..Len(s)
      PROVE  (s \o t)[i] = s[i]
  BY <1>2, <1>5, <1>7
<1> QED  BY <1>4, <1>5, <1>6, <1>7

LEMMA MinIsElement ==
  ASSUME NEW S \in SUBSET Nat, S # {}
  PROVE  Min(S) \in S
<1>1. PICK m \in S : \A y \in S : ~(<<y, m>> \in OpToRel(<, Nat))
  BY NatLessThanWellFounded, WFMin
<1>2. \A y \in S : ~(y < m)
  BY <1>1 DEF OpToRel
<1>3. \A y \in S : m <= y
  BY <1>2
<1> QED  BY <1>3 DEF Min

----------------------------------------------------------------------------
(* The moves an instruction is made of *)

LEMMA FramesGrow ==
  ASSUME NEW m, NEW n, NEW fs, Frames(m.heap, fs),
         \A h \in DOMAIN m.heap : h \in DOMAIN n.heap /\ SameObject(m.heap[h], n.heap[h])
  PROVE  Frames(n.heap, fs)
  BY DEF Frames, IsCaller, IsClosureIn, SameObject

LEMMA CallersGrow ==
  ASSUME NEW m, NEW n, NEW h, IsCaller(m.heap, h),
         \A d \in DOMAIN m.heap : d \in DOMAIN n.heap /\ SameObject(m.heap[d], n.heap[d])
  PROVE  IsCaller(n.heap, h)
  BY DEF IsCaller, IsClosureIn, SameObject

LEMMA ObjectsGrow ==
  ASSUME NEW m, NEW n, NEW h, NEW o, NEW p, ObjectOk(m.heap, h, o), SameObject(o, p),
         \A d \in DOMAIN m.heap : d \in DOMAIN n.heap /\ SameObject(m.heap[d], n.heap[d])
  PROVE  ObjectOk(n.heap, h, p)
<1>1. "type" \in DOMAIN p /\ p.type = o.type
  BY DEF ObjectOk, SameObject
<1>2. CASE o.type = "CLOSURE"
  <2>1. IsCaller(m.heap, o.parent) /\ o.parent \in 0..(h - 1) /\ {"iaddr", "parent", "bs"} \subseteq DOMAIN o
    BY <1>2 DEF ObjectOk
  <2>2. IsCaller(n.heap, o.parent)
    BY <2>1, CallersGrow
  <2>3. p.parent = o.parent /\ DOMAIN p = DOMAIN o
    BY <1>2 DEF SameObject
  <2> QED  BY <1>1, <1>2, <2>1, <2>2, <2>3 DEF ObjectOk
<1>3. CASE o.type = "CONTINUATION"
  <2>1. p = o
    BY <1>3 DEF SameObject, ListTypes
  <2>2. IsCaller(m.heap, o.cur) /\ Frames(m.heap, o.fs)
    BY <1>3 DEF ObjectOk
  <2>3. IsCaller(n.heap, p.cur) /\ Frames(n.heap, p.fs)
    BY <2>1, <2>2, CallersGrow, FramesGrow
  <2> QED  BY <1>1, <1>3, <2>3 DEF ObjectOk
<1>4. CASE o.type \notin {"CLOSURE", "CONTINUATION"}
  BY <1>1, <1>4 DEF ObjectOk
<1> QED  BY <1>2, <1>3, <1>4

LEMMA SameIsSame ==
  ASSUME NEW o
  PROVE  SameObject(o, o)
  BY DEF SameObject

LEMMA MovesTrans ==
  ASSUME NEW m, NEW n, NEW k, Good(m), Moves(m, n), Moves(n, k)
  PROVE  Moves(m, k)
<1>1. m.next \in Nat /\ n.next \in Nat /\ k.next \in Nat /\ n.next >= m.next /\ k.next >= n.next
  BY DEF Moves, Good, Kept
<1>2. SameCode(m, k)
  BY DEF Moves, Kept, SameCode
<1>3. ASSUME NEW h \in DOMAIN m.heap
      PROVE  h \in DOMAIN k.heap /\ SameObject(m.heap[h], k.heap[h])
  <2>1. h \in DOMAIN n.heap /\ SameObject(m.heap[h], n.heap[h])
    BY DEF Moves, Kept
  <2>2. h \in DOMAIN k.heap /\ SameObject(n.heap[h], k.heap[h])
    BY <2>1 DEF Moves, Kept
  <2> QED  BY <2>1, <2>2 DEF SameObject
<1>4. ASSUME NEW h \in DOMAIN k.heap \ DOMAIN m.heap
      PROVE  h >= m.next /\ k.heap[h].type # "EVAL_RECORD"
  <2>1. CASE h \in DOMAIN n.heap
    <3>1. h >= m.next /\ n.heap[h].type # "EVAL_RECORD"
      BY <2>1 DEF Moves, Kept
    <3>2. k.heap[h].type = n.heap[h].type
      BY <2>1 DEF Moves, Kept, SameObject
    <3> QED  BY <3>1, <3>2
  <2>2. CASE h \notin DOMAIN n.heap
    <3>1. h >= n.next /\ k.heap[h].type # "EVAL_RECORD" /\ h \in Nat
      BY <2>2 DEF Moves, Kept, Good
    <3> QED  BY <3>1, <1>1
  <2> QED  BY <2>1, <2>2
<1>5. k.next >= m.next
  BY <1>1
<1> QED  BY <1>1, <1>2, <1>3, <1>4, <1>5 DEF Moves, Kept

\* Only the operands, the address, the output or the mode change.
SameData(m, n) ==
    SameCode(m, n) /\ n.heap = m.heap /\ n.next = m.next /\ n.cur = m.cur /\ n.fs = m.fs

LEMMA SameDataMoves ==
  ASSUME NEW m, NEW n, Good(m), SameData(m, n)
  PROVE  Moves(m, n)
<1>1. Good(n)
  BY DEF Good, SameData, SameCode
<1>2. \A h \in DOMAIN m.heap : h \in DOMAIN n.heap /\ SameObject(m.heap[h], n.heap[h])
  BY SameIsSame DEF SameData
<1>3. n.next \in Nat /\ n.next >= m.next
  BY DEF Good, SameData
<1>4. DOMAIN n.heap \ DOMAIN m.heap = {}
  BY DEF SameData
<1> QED  BY <1>1, <1>2, <1>3, <1>4 DEF Moves, Kept, SameData

\* The calls change.
LEMMA CallsMove ==
  ASSUME NEW m, NEW n, Good(m), SameCode(m, n), n.heap = m.heap, n.next = m.next,
         IsCaller(m.heap, n.cur), Frames(m.heap, n.fs)
  PROVE  Moves(m, n)
<1>1. Good(n)
  BY DEF Good, SameCode
<1>2. \A h \in DOMAIN m.heap : h \in DOMAIN n.heap /\ SameObject(m.heap[h], n.heap[h])
  BY SameIsSame
<1>3. n.next \in Nat /\ n.next >= m.next
  BY DEF Good
<1> QED  BY <1>1, <1>2, <1>3 DEF Moves, Kept

\* Objects change, and none is added.
LEMMA ObjectsMove ==
  ASSUME NEW m, NEW n, Good(m), SameCode(m, n), n.next = m.next, n.cur = m.cur, n.fs = m.fs,
         DOMAIN n.heap = DOMAIN m.heap,
         \A h \in DOMAIN m.heap : SameObject(m.heap[h], n.heap[h])
  PROVE  Moves(m, n)
<1>1. \A h \in DOMAIN m.heap : h \in DOMAIN n.heap /\ SameObject(m.heap[h], n.heap[h])
  OBVIOUS
<1>2. IsCaller(n.heap, n.cur) /\ Frames(n.heap, n.fs)
  BY <1>1, CallersGrow, FramesGrow DEF Good
<1>3. ASSUME NEW h \in DOMAIN n.heap
      PROVE  h \in 1..(n.next - 1) /\ ObjectOk(n.heap, h, n.heap[h])
  <2>1. h \in 1..(m.next - 1) /\ ObjectOk(m.heap, h, m.heap[h])
    BY DEF Good
  <2>2. SameObject(m.heap[h], n.heap[h])
    OBVIOUS
  <2>3. ObjectOk(n.heap, h, n.heap[h])
    BY <2>1, <2>2, <1>1, ObjectsGrow
  <2> QED  BY <2>1, <2>3
<1>4. n.next \in Nat \ {0} /\ n.next >= m.next
  BY DEF Good
<1>5. Good(n)
  BY <1>2, <1>3, <1>4 DEF Good, SameCode
<1>6. Kept(m, n)
  BY <1>1, <1>4 DEF Kept
<1> QED  BY <1>5, <1>6 DEF Moves

\* One object is added.
LEMMA AddObjectFacts ==
  ASSUME NEW m, NEW o, Good(m), ObjectOk(m.heap, m.next, o)
  PROVE  /\ Good(AddObject(m, o)) /\ SameCode(m, AddObject(m, o))
         /\ \A h \in DOMAIN m.heap : /\ h \in DOMAIN AddObject(m, o).heap
                                    /\ AddObject(m, o).heap[h] = m.heap[h]
         /\ DOMAIN AddObject(m, o).heap = DOMAIN m.heap \cup {m.next}
         /\ AddObject(m, o).heap[m.next] = o
         /\ AddObject(m, o).next = m.next + 1
         /\ AddObject(m, o).cur = m.cur /\ AddObject(m, o).fs = m.fs
<1> DEFINE n == AddObject(m, o)
<1>1. MachineFields \subseteq DOMAIN m /\ m.next \in Nat \ {0}
  BY DEF Good
<1>2. SameCode(m, n) /\ n.cur = m.cur /\ n.fs = m.fs /\ n.next = m.next + 1
  BY <1>1 DEF AddObject, SameCode, MachineFields
<1>3. n.heap = [h \in DOMAIN m.heap \cup {m.next} |-> IF h = m.next THEN o ELSE m.heap[h]]
  BY <1>1 DEF AddObject, MachineFields
<1> HIDE DEF n
<1>4. m.next \notin DOMAIN m.heap
  BY DEF Good
<1>5. \A h \in DOMAIN m.heap : h \in DOMAIN n.heap /\ n.heap[h] = m.heap[h]
  BY <1>3, <1>4
<1>6. \A h \in DOMAIN m.heap : h \in DOMAIN n.heap /\ SameObject(m.heap[h], n.heap[h])
  BY <1>5, SameIsSame
<1>7. IsCaller(n.heap, n.cur) /\ Frames(n.heap, n.fs)
  BY <1>2, <1>6, CallersGrow, FramesGrow DEF Good
<1>8. ASSUME NEW h \in DOMAIN n.heap
      PROVE  h \in 1..(n.next - 1) /\ ObjectOk(n.heap, h, n.heap[h])
  <2>1. CASE h = m.next
    <3>1. n.heap[h] = o
      BY <2>1, <1>3
    <3>2. ObjectOk(n.heap, h, o)
      BY <2>1, <1>6, SameIsSame, ObjectsGrow
    <3> QED  BY <2>1, <3>1, <3>2, <1>1, <1>2
  <2>2. CASE h \in DOMAIN m.heap
    <3>1. h \in 1..(m.next - 1) /\ ObjectOk(m.heap, h, m.heap[h])
      BY <2>2 DEF Good
    <3>2. ObjectOk(n.heap, h, n.heap[h])
      BY <2>2, <3>1, <1>6, ObjectsGrow
    <3> QED  BY <3>1, <3>2, <1>1, <1>2
  <2> QED  BY <2>1, <2>2, <1>3
<1>9. Good(n)
  BY <1>1, <1>2, <1>7, <1>8 DEF Good, SameCode
<1>10. n.heap[m.next] = o /\ DOMAIN n.heap = DOMAIN m.heap \cup {m.next}
  BY <1>3
<1> QED  BY <1>2, <1>5, <1>9, <1>10 DEF n

LEMMA AddObjectMoves ==
  ASSUME NEW m, NEW o, Good(m), ObjectOk(m.heap, m.next, o), o.type # "EVAL_RECORD"
  PROVE  /\ Moves(m, AddObject(m, o))
         /\ AddObject(m, o).heap[m.next] = o /\ m.next \in DOMAIN AddObject(m, o).heap
         /\ AddObject(m, o).next = m.next + 1
         /\ AddObject(m, o).cur = m.cur /\ AddObject(m, o).fs = m.fs
<1> DEFINE n == AddObject(m, o)
<1>1. /\ Good(n) /\ SameCode(m, n)
      /\ \A h \in DOMAIN m.heap : h \in DOMAIN n.heap /\ n.heap[h] = m.heap[h]
      /\ DOMAIN n.heap = DOMAIN m.heap \cup {m.next} /\ n.heap[m.next] = o
      /\ n.next = m.next + 1 /\ n.cur = m.cur /\ n.fs = m.fs
  BY AddObjectFacts
<1> HIDE DEF n
<1>2. m.next \in Nat
  BY DEF Good
<1>3. \A h \in DOMAIN m.heap : h \in DOMAIN n.heap /\ SameObject(m.heap[h], n.heap[h])
  BY <1>1, SameIsSame
<1>4. \A h \in DOMAIN n.heap \ DOMAIN m.heap : h >= m.next /\ n.heap[h].type # "EVAL_RECORD"
  BY <1>1, <1>2
<1>5. Kept(m, n)
  BY <1>1, <1>2, <1>3, <1>4 DEF Kept
<1> QED  BY <1>1, <1>5 DEF Moves, n

----------------------------------------------------------------------------
(* Steps that every instruction ends with *)

LEMMA StepOnMoves ==
  ASSUME NEW m, Good(m)
  PROVE  Moves(m, StepOn(m)) /\ SameData(m, StepOn(m))
<1>1. SameData(m, StepOn(m))
  BY DEF Good, MachineFields, StepOn, SameData, SameCode
<1> QED  BY <1>1, SameDataMoves

LEMMA GotoMoves ==
  ASSUME NEW m, Good(m), NEW addr
  PROVE  Moves(m, Goto(m, addr)) /\ SameData(m, Goto(m, addr))
<1>1. SameData(m, Goto(m, addr))
  BY DEF Good, MachineFields, Goto, SameData, SameCode
<1> QED  BY <1>1, SameDataMoves

LEMMA PushOpMoves ==
  ASSUME NEW m, Good(m), NEW v
  PROVE  Moves(m, PushOp(m, v)) /\ SameData(m, PushOp(m, v))
<1>1. SameData(m, PushOp(m, v))
  BY DEF Good, MachineFields, PushOp, SameData, SameCode
<1> QED  BY <1>1, SameDataMoves

LEMMA DropOpsMoves ==
  ASSUME NEW m, Good(m), NEW n
  PROVE  Moves(m, DropOps(m, n)) /\ SameData(m, DropOps(m, n))
<1>1. SameData(m, DropOps(m, n))
  BY DEF Good, MachineFields, DropOps, SameData, SameCode
<1> QED  BY <1>1, SameDataMoves

LEMMA FaultMoves ==
  ASSUME NEW m, Good(m), NEW why
  PROVE  Moves(m, Fault(m, why)) /\ SameData(m, Fault(m, why))
<1>1. SameData(m, Fault(m, why))
  BY DEF Good, MachineFields, Fault, SameData, SameCode
<1> QED  BY <1>1, SameDataMoves

LEMMA ResultMoves ==
  ASSUME NEW m, Good(m), NEW n, NEW v
  PROVE  Moves(m, Result(m, n, v))
<1>1. Moves(m, DropOps(m, n))
  BY DropOpsMoves
<1>2. Moves(DropOps(m, n), PushOp(DropOps(m, n), v))
  BY <1>1, PushOpMoves DEF Moves
<1>3. Moves(m, PushOp(DropOps(m, n), v))
  BY <1>1, <1>2, MovesTrans
<1>4. Moves(PushOp(DropOps(m, n), v), Result(m, n, v))
  BY <1>3, StepOnMoves DEF Moves, Result
<1> QED  BY <1>3, <1>4, MovesTrans

\* The result of an operation on a machine that an operation has moved.
LEMMA ThenResult ==
  ASSUME NEW m, NEW n, Good(m), Moves(m, n), NEW k, NEW v
  PROVE  Moves(m, Result(n, k, v))
<1>1. Moves(n, Result(n, k, v))
  BY ResultMoves DEF Moves
<1> QED  BY <1>1, MovesTrans

LEMMA ThenStepOn ==
  ASSUME NEW m, NEW n, Good(m), Moves(m, n)
  PROVE  Moves(m, StepOn(n))
<1>1. Moves(n, StepOn(n))
  BY StepOnMoves DEF Moves
<1> QED  BY <1>1, MovesTrans

LEMMA ThenGoto ==
  ASSUME NEW m, NEW n, Good(m), Moves(m, n), NEW addr
  PROVE  Moves(m, Goto(n, addr))
<1>1. Moves(n, Goto(n, addr))
  BY GotoMoves DEF Moves
<1> QED  BY <1>1, MovesTrans

LEMMA PushFrameMoves ==
  ASSUME NEW m, Good(m), NEW ret
  PROVE  /\ Moves(m, PushFrame(m, ret))
         /\ PushFrame(m, ret).heap = m.heap /\ PushFrame(m, ret).next = m.next
         /\ PushFrame(m, ret).cur = m.cur
<1> DEFINE n == PushFrame(m, ret)
           f == <<m.cur, ret>>
<1>1. SameCode(m, n) /\ n.heap = m.heap /\ n.next = m.next /\ n.cur = m.cur /\ n.fs = Append(m.fs, f)
  BY DEF Good, MachineFields, PushFrame, SameCode
<1> HIDE DEF n
<1>2. IsSeq(m.fs) /\ \A i \in DOMAIN m.fs : IsCaller(m.heap, m.fs[i][1])
  BY DEF Good, Frames
<1>3. IsCaller(m.heap, m.cur) /\ f[1] = m.cur
  BY DEF Good
<1> HIDE DEF f
<1>4. IsSeq(n.fs) /\ Len(n.fs) = Len(m.fs) + 1 /\ n.fs[Len(m.fs) + 1] = f
      /\ \A i \in 1..Len(m.fs) : n.fs[i] = m.fs[i]
  BY <1>1, <1>2, AppendIsSeq
<1>5. ASSUME NEW i \in DOMAIN n.fs
      PROVE  IsCaller(m.heap, n.fs[i][1])
  <2>1. i \in 1..(Len(m.fs) + 1) /\ Len(m.fs) \in Nat /\ DOMAIN m.fs = 1..Len(m.fs)
    BY <1>2, <1>4, SeqFacts
  <2>2. CASE i = Len(m.fs) + 1
    BY <2>2, <1>3, <1>4
  <2>3. CASE i \in 1..Len(m.fs)
    BY <2>1, <2>3, <1>2, <1>4
  <2> QED  BY <2>1, <2>2, <2>3
<1>6. Frames(m.heap, n.fs) /\ IsCaller(m.heap, n.cur)
  BY <1>1, <1>3, <1>4, <1>5 DEF Frames
<1>7. Moves(m, n)
  BY <1>1, <1>6, CallsMove
<1> QED  BY <1>1, <1>7 DEF n

LEMMA EnterMoves ==
  ASSUME NEW m, Good(m), NEW h, IsClosureIn(m.heap, h)
  PROVE  Moves(m, Enter(m, h))
<1> DEFINE n == [m EXCEPT !.cur = h]
<1>1. SameCode(m, n) /\ n.heap = m.heap /\ n.next = m.next /\ n.cur = h /\ n.fs = m.fs
  BY DEF Good, MachineFields, SameCode
<1> HIDE DEF n
<1>2. IsCaller(m.heap, n.cur) /\ Frames(m.heap, n.fs)
  BY <1>1 DEF IsCaller, Good
<1>3. Moves(m, n)
  BY <1>1, <1>2, CallsMove
<1>4. Enter(m, h) = Goto(n, m.heap[h].iaddr)
  BY DEF Enter, n
<1> QED  BY <1>3, <1>4, ThenGoto

\* An object of the heap replaced by one of its kind.
LEMMA UpdateMoves ==
  ASSUME NEW m, NEW n, Good(m), NEW c, NEW o,
         MachineFields \subseteq DOMAIN n,
         n.il = m.il, n.vocab = m.vocab, n.vtype = m.vtype, n.vartop = m.vartop, n.arn = m.arn,
         n.loaded = m.loaded, n.next = m.next, n.cur = m.cur, n.fs = m.fs,
         n.heap = [m.heap EXCEPT ![c] = o],
         c \in DOMAIN m.heap => SameObject(m.heap[c], o)
  PROVE  Moves(m, n)
<1>1. SameCode(m, n)
  BY DEF SameCode
<1>2. DOMAIN n.heap = DOMAIN m.heap
  OBVIOUS
<1>3. \A h \in DOMAIN m.heap : SameObject(m.heap[h], n.heap[h])
  <2> TAKE h \in DOMAIN m.heap
  <2>1. CASE h = c
    BY <2>1
  <2>2. CASE h # c
    <3>1. n.heap[h] = m.heap[h]
      BY <2>2
    <3> QED  BY <3>1, SameIsSame
  <2> QED  BY <2>1, <2>2
<1> QED  BY <1>1, <1>2, <1>3, ObjectsMove

LEMMA ClosureUpdate ==
  ASSUME NEW m, Good(m), NEW c, IsClosureIn(m.heap, c), NEW bs
  PROVE  Moves(m, [m EXCEPT !.heap[c].bs = bs])
<1> DEFINE n == [m EXCEPT !.heap[c].bs = bs]
           o == [m.heap[c] EXCEPT !.bs = bs]
<1>1. MachineFields \subseteq DOMAIN m
  BY DEF Good
<1>2. /\ MachineFields \subseteq DOMAIN n
      /\ n.il = m.il /\ n.vocab = m.vocab /\ n.vtype = m.vtype /\ n.vartop = m.vartop /\ n.arn = m.arn
      /\ n.loaded = m.loaded /\ n.next = m.next /\ n.cur = m.cur /\ n.fs = m.fs
  BY <1>1 DEF MachineFields
<1>3. n.heap = [m.heap EXCEPT ![c] = o]
  BY <1>1 DEF MachineFields
<1>4. m.heap[c].type = "CLOSURE" /\ {"type", "iaddr", "parent", "bs"} \subseteq DOMAIN m.heap[c]
  BY DEF Good, ObjectOk, IsClosureIn
<1>5. SameObject(m.heap[c], o)
  BY <1>4 DEF SameObject, ListTypes
<1> HIDE DEF n, o
<1>6. Moves(m, n)
  BY <1>2, <1>3, <1>5, UpdateMoves
<1> QED  BY <1>6 DEF n

LEMMA ListUpdate ==
  ASSUME NEW m, Good(m), NEW c, c \in DOMAIN m.heap, m.heap[c].type \in ListTypes, NEW items
  PROVE  Moves(m, [m EXCEPT !.heap[c].ch = items])
<1> DEFINE n == [m EXCEPT !.heap[c].ch = items]
           o == [m.heap[c] EXCEPT !.ch = items]
<1>1. MachineFields \subseteq DOMAIN m
  BY DEF Good
<1>2. /\ MachineFields \subseteq DOMAIN n
      /\ n.il = m.il /\ n.vocab = m.vocab /\ n.vtype = m.vtype /\ n.vartop = m.vartop /\ n.arn = m.arn
      /\ n.loaded = m.loaded /\ n.next = m.next /\ n.cur = m.cur /\ n.fs = m.fs
  BY <1>1 DEF MachineFields
<1>3. n.heap = [m.heap EXCEPT ![c] = o]
  BY <1>1 DEF MachineFields
<1>4. "type" \in DOMAIN m.heap[c]
  BY DEF Good, ObjectOk
<1>5. SameObject(m.heap[c], o)
  BY <1>4 DEF SameObject, ListTypes
<1> HIDE DEF n, o
<1>6. Moves(m, n)
  BY <1>2, <1>3, <1>5, UpdateMoves
<1> QED  BY <1>6 DEF n

----------------------------------------------------------------------------
(* The look-up of a variable *)

Closures(m) == {d \in DOMAIN m.heap : IsClosure(m, d)}

\* What the look-up finds at the closure c when f is what it finds at its parent.
FoundAt(m, v, f, c) ==
    IF HasBound(Bindings(m, c), v) THEN c
    ELSE IF IsClosure(m, m.heap[c].parent) THEN f[m.heap[c].parent]
    ELSE NullHandle

ClosuresTo(m, n)   == {c \in Closures(m) : c <= n}
LooksTo(m, v, n, f) == f = [c \in ClosuresTo(m, n) |-> FoundAt(m, v, f, c)]
Looks(m, v, f)     == f = [c \in Closures(m) |-> FoundAt(m, v, f, c)]

LEMMA ClosureIsClosure ==
  ASSUME NEW m, NEW h
  PROVE  IsClosure(m, h) <=> IsClosureIn(m.heap, h)
  BY DEF IsClosure, IsType, HasObject, Object, Handle, Tag, Held, IsClosureIn

LEMMA ParentIsOlder ==
  ASSUME NEW m, Good(m), NEW c, IsClosure(m, c)
  PROVE  /\ c \in 1..(m.next - 1) /\ m.heap[c].parent \in 0..(c - 1)
         /\ m.heap[c].parent = NullHandle \/ IsClosure(m, m.heap[c].parent)
<1>1. IsClosureIn(m.heap, c)
  BY ClosureIsClosure
<1>2. c \in 1..(m.next - 1) /\ ObjectOk(m.heap, c, m.heap[c]) /\ m.heap[c].type = "CLOSURE"
  BY <1>1 DEF Good, IsClosureIn
<1>3. m.heap[c].parent \in 0..(c - 1) /\ IsCaller(m.heap, m.heap[c].parent)
  BY <1>2 DEF ObjectOk
<1> QED  BY <1>2, <1>3, ClosureIsClosure DEF IsCaller

LEMMA LookUpTo ==
  ASSUME NEW m, Good(m), NEW v
  PROVE  \A n \in Nat : \E f : LooksTo(m, v, n, f)
<1> DEFINE Bad == {n \in Nat : ~\E f : LooksTo(m, v, n, f)}
<1>1. SUFFICES ASSUME Bad # {} PROVE FALSE
  OBVIOUS
<1>2. PICK n \in Bad : \A y \in Bad : ~(<<y, n>> \in OpToRel(<, Nat))
  BY <1>1, NatLessThanWellFounded, WFMin
<1>3. \A y \in Bad : ~(y < n)
  BY <1>2 DEF OpToRel
<1>4. n \in Nat /\ ~\E f : LooksTo(m, v, n, f)
  OBVIOUS
<1>5. CASE n = 0
  <2>1. ClosuresTo(m, n) = {}
    BY <1>5, ParentIsOlder DEF ClosuresTo, Closures
  <2> DEFINE f == [c \in {} |-> NullHandle]
  <2>2. f = [c \in ClosuresTo(m, n) |-> FoundAt(m, v, f, c)]
    BY <2>1
  <2> QED  BY <2>2, <1>4 DEF LooksTo
<1>6. CASE n # 0
  <2>1. n - 1 \in Nat /\ n - 1 < n
    BY <1>4, <1>6
  <2>2. n - 1 \notin Bad
    BY <2>1, <1>3
  <2>3. PICK f : LooksTo(m, v, n - 1, f)
    BY <2>1, <2>2
  <2> DEFINE g == [c \in ClosuresTo(m, n) |-> FoundAt(m, v, f, c)]
  <2>4. \A c \in ClosuresTo(m, n - 1) : f[c] = FoundAt(m, v, f, c) /\ c \in ClosuresTo(m, n)
    <3> TAKE c \in ClosuresTo(m, n - 1)
    <3>1. c \in ClosuresTo(m, n)
      BY <2>1, <1>4, ParentIsOlder DEF ClosuresTo, Closures, Good
    <3>2. f[c] = FoundAt(m, v, f, c)
      BY <2>3 DEF LooksTo
    <3> QED  BY <3>1, <3>2
  <2>5. ASSUME NEW c \in ClosuresTo(m, n)
        PROVE  FoundAt(m, v, f, c) = FoundAt(m, v, g, c)
    <3>1. CASE IsClosure(m, m.heap[c].parent)
      <4> DEFINE p == m.heap[c].parent
      <4>1. IsClosure(m, c) /\ c <= n /\ c \in 1..(m.next - 1) /\ m.next \in Nat
        BY ParentIsOlder DEF ClosuresTo, Closures, Good
      <4>2. p \in 0..(c - 1)
        BY <4>1, ParentIsOlder
      <4>3. p \in ClosuresTo(m, n - 1)
        <5>1. p \in DOMAIN m.heap
          BY <3>1, ClosureIsClosure DEF IsClosureIn
        <5>2. p <= n - 1
          BY <4>1, <4>2, <1>4
        <5> HIDE DEF p
        <5> QED  BY <5>1, <5>2, <3>1 DEF ClosuresTo, Closures, p
      <4>4. g[p] = f[p]
        BY <4>3, <2>4
      <4> QED  BY <4>4 DEF FoundAt
    <3>2. CASE ~IsClosure(m, m.heap[c].parent)
      BY <3>2 DEF FoundAt
    <3> QED  BY <3>1, <3>2
  <2>6. g = [c \in ClosuresTo(m, n) |-> FoundAt(m, v, g, c)]
    BY <2>5
  <2> QED  BY <2>6, <1>4 DEF LooksTo
<1> QED  BY <1>5, <1>6

LEMMA LookUpExists ==
  ASSUME NEW m, Good(m), NEW v
  PROVE  \E f : Looks(m, v, f)
<1>1. m.next \in Nat
  BY DEF Good
<1>2. PICK f : LooksTo(m, v, m.next, f)
  BY <1>1, LookUpTo
<1>3. ClosuresTo(m, m.next) = Closures(m)
  BY <1>1, ParentIsOlder DEF ClosuresTo, Closures
<1> QED  BY <1>2, <1>3 DEF LooksTo, Looks

LEMMA BinderIsLookUp ==
  ASSUME NEW m, NEW h, NEW v
  PROVE  Binder(m, h, v) = IF IsClosure(m, h) THEN (CHOOSE f : Looks(m, v, f))[h] ELSE NullHandle
  BY Zenon DEF Binder, Looks, Closures, FoundAt

\* It is the nearest of the enclosing closures that binds the variable, and none if
\* no closure around does.
LookUpIsLexical(m) ==
    \A h, v :
        /\ Binder(m, h, v) = IF ~IsClosure(m, h) THEN NullHandle
                             ELSE IF HasBound(Bindings(m, h), v) THEN h
                             ELSE Binder(m, m.heap[h].parent, v)
        /\ \/ Binder(m, h, v) = NullHandle
           \/ IsClosure(m, Binder(m, h, v)) /\ HasBound(Bindings(m, Binder(m, h, v)), v)

LEMMA LookUpEnds ==
  ASSUME NEW m, Good(m)
  PROVE  LookUpIsLexical(m)
<1> SUFFICES ASSUME NEW h, NEW v
             PROVE  /\ Binder(m, h, v) = IF ~IsClosure(m, h) THEN NullHandle
                                         ELSE IF HasBound(Bindings(m, h), v) THEN h
                                         ELSE Binder(m, m.heap[h].parent, v)
                    /\ \/ Binder(m, h, v) = NullHandle
                       \/ IsClosure(m, Binder(m, h, v)) /\ HasBound(Bindings(m, Binder(m, h, v)), v)
  BY DEF LookUpIsLexical
<1> DEFINE f == CHOOSE g : Looks(m, v, g)
<1>1. Looks(m, v, f)
  BY LookUpExists
<1>2. \A c \in Closures(m) : f[c] = FoundAt(m, v, f, c)
  BY <1>1 DEF Looks
<1>3. \A d : Binder(m, d, v) = IF IsClosure(m, d) THEN f[d] ELSE NullHandle
  BY BinderIsLookUp
<1>4. \A d : IsClosure(m, d) => d \in Closures(m)
  BY ClosureIsClosure DEF Closures, IsClosureIn
<1> HIDE DEF f
<1>5. \A d : Binder(m, d, v) = IF ~IsClosure(m, d) THEN NullHandle
                              ELSE IF HasBound(Bindings(m, d), v) THEN d
                              ELSE Binder(m, m.heap[d].parent, v)
  BY <1>2, <1>3, <1>4 DEF FoundAt
<1> DEFINE Fine(d) == \/ f[d] = NullHandle
                      \/ IsClosure(m, f[d]) /\ HasBound(Bindings(m, f[d]), v)
           Bad == {d \in Closures(m) : ~Fine(d)}
<1>6. Bad = {}
  <2>1. SUFFICES ASSUME Bad # {} PROVE FALSE
    OBVIOUS
  <2>2. Bad \subseteq Nat
    BY ParentIsOlder DEF Closures
  <2>3. PICK c \in Bad : \A y \in Bad : ~(<<y, c>> \in OpToRel(<, Nat))
    BY <2>1, <2>2, NatLessThanWellFounded, WFMin
  <2>4. \A y \in Bad : ~(y < c)
    BY <2>2, <2>3 DEF OpToRel
  <2>5. IsClosure(m, c) /\ c \in Closures(m) /\ c \in Nat
    BY <2>2 DEF Closures
  <2>6. f[c] = FoundAt(m, v, f, c)
    BY <2>5, <1>2
  <2>7. CASE HasBound(Bindings(m, c), v)
    BY <2>5, <2>6, <2>7 DEF FoundAt
  <2>8. CASE ~HasBound(Bindings(m, c), v) /\ IsClosure(m, m.heap[c].parent)
    <3>1. m.heap[c].parent < c
      BY <2>5, ParentIsOlder
    <3>2. Fine(m.heap[c].parent)
      BY <3>1, <2>4, <2>8, <1>4
    <3>3. f[c] = f[m.heap[c].parent]
      BY <2>6, <2>8 DEF FoundAt
    <3> QED  BY <3>2, <3>3
  <2>9. CASE ~HasBound(Bindings(m, c), v) /\ ~IsClosure(m, m.heap[c].parent)
    BY <2>6, <2>9 DEF FoundAt
  <2> QED  BY <2>7, <2>8, <2>9
<1>7. \/ Binder(m, h, v) = NullHandle
      \/ IsClosure(m, Binder(m, h, v)) /\ HasBound(Bindings(m, Binder(m, h, v)), v)
  <2>1. CASE IsClosure(m, h)
    <3>1. Fine(h)
      BY <1>4, <1>6, <2>1
    <3>2. Binder(m, h, v) = f[h]
      BY <2>1, <1>3
    <3> QED  BY <3>1, <3>2
  <2>2. CASE ~IsClosure(m, h)
    BY <2>2, <1>3
  <2> QED  BY <2>1, <2>2
<1> QED  BY <1>5, <1>7

----------------------------------------------------------------------------
(* Access and calls *)

LEMMA MakeClosureMoves ==
  ASSUME NEW m, Good(m), NEW addr
  PROVE  /\ Moves(m, MakeClosure(m, addr))
         /\ IsClosureIn(MakeClosure(m, addr).heap, m.next)
<1> DEFINE o == [type |-> "CLOSURE", iaddr |-> addr, parent |-> m.cur, bs |-> CopiedBindings(m)]
<1>1. MakeClosure(m, addr) = AddObject(m, o)
  BY DEF MakeClosure
<1>2. o.type = "CLOSURE" /\ o.parent = m.cur /\ {"type", "iaddr", "parent", "bs"} \subseteq DOMAIN o
  OBVIOUS
<1> HIDE DEF o
<1>3. IsCaller(m.heap, m.cur) /\ m.next \in Nat \ {0}
  BY DEF Good
<1>4. m.cur \in 0..(m.next - 1)
  BY <1>3 DEF IsCaller, NullHandle, IsClosureIn, Good
<1>5. ObjectOk(m.heap, m.next, o)
  BY <1>2, <1>3, <1>4 DEF ObjectOk
<1>6. o.type # "EVAL_RECORD"
  BY <1>2
<1> QED  BY <1>1, <1>2, <1>5, <1>6, AddObjectMoves DEF IsClosureIn

LEMMA OpStoreMoves ==
  ASSUME NEW m, Good(m), NEW v
  PROVE  Moves(m, OpStore(m, v))
<1>1. CASE ~HasCurrent(m)
  BY <1>1, FaultMoves DEF OpStore
<1>2. CASE HasCurrent(m)
  <2> DEFINE n == DropOps(m, 1)
             bs == InitVar(n.heap[m.cur].bs, Held(v), "bound", Popped(m, 1))
             k == [n EXCEPT !.heap[m.cur].bs = bs]
  <2>1. Moves(m, n) /\ n.heap = m.heap
    BY DropOpsMoves DEF SameData
  <2>2. OpStore(m, v) = StepOn(k)
    BY <1>2 DEF OpStore
  <2> HIDE DEF n, bs
  <2>3. IsClosureIn(n.heap, m.cur)
    BY <1>2, <2>1, ClosureIsClosure DEF HasCurrent
  <2>4. Moves(n, k)
    BY <2>1, <2>3, ClosureUpdate DEF Moves
  <2> HIDE DEF k
  <2>5. Moves(m, k)
    BY <2>1, <2>4, MovesTrans
  <2> QED  BY <2>2, <2>5, ThenStepOn
<1> QED  BY <1>1, <1>2

LEMMA OpLoadMoves ==
  ASSUME NEW m, Good(m), NEW v
  PROVE  Moves(m, OpLoad(m, v))
<1> DEFINE value == Dereference(m, Held(v))
<1>1. CASE value = NoValue
  BY <1>1, FaultMoves DEF OpLoad
<1>2. CASE value # NoValue /\ Tag(value) = "iaddr"
  <2>1. Moves(m, MakeClosure(m, Held(value)))
    BY MakeClosureMoves
  <2> QED  BY <1>2, <2>1, ThenResult DEF OpLoad
<1>3. CASE value # NoValue /\ Tag(value) # "iaddr"
  BY <1>3, ResultMoves DEF OpLoad
<1> QED  BY <1>1, <1>2, <1>3

LEMMA OpLoadClosureMoves ==
  ASSUME NEW m, Good(m), NEW addr
  PROVE  Moves(m, OpLoadClosure(m, addr))
<1>1. Moves(m, MakeClosure(m, Held(addr)))
  BY MakeClosureMoves
<1> QED  BY <1>1, ThenResult DEF OpLoadClosure

LEMMA OpSwapMoves ==
  ASSUME NEW m, Good(m)
  PROVE  Moves(m, OpSwap(m))
<1>1. CASE NoValue \in {Popped(m, 1), Popped(m, 2)}
  BY <1>1, FaultMoves DEF OpSwap
<1>2. CASE NoValue \notin {Popped(m, 1), Popped(m, 2)}
  <2> DEFINE a == DropOps(m, 2)
             b == PushOp(a, Popped(m, 1))
             c == PushOp(b, Popped(m, 2))
  <2>1. Moves(m, a)
    BY DropOpsMoves
  <2> HIDE DEF a
  <2>2. Moves(a, b)
    BY <2>1, PushOpMoves DEF Moves
  <2> HIDE DEF b
  <2>3. Moves(b, c)
    BY <2>2, PushOpMoves DEF Moves
  <2> HIDE DEF c
  <2>4. Moves(m, c)
    BY <2>1, <2>2, <2>3, MovesTrans
  <2>5. OpSwap(m) = StepOn(c)
    BY <1>2 DEF OpSwap, a, b, c
  <2> QED  BY <2>4, <2>5, ThenStepOn
<1> QED  BY <1>1, <1>2

\* Assignment, which changes the copy of the current closure and the binding where
\* the look-up finds it.
LEMMA OpSetMoves ==
  ASSUME NEW m, Good(m), NEW v
  PROVE  Moves(m, OpSet(m, v))
<1>1. CASE ~HasCurrent(m)
  BY <1>1, FaultMoves DEF OpSet
<1>2. CASE HasCurrent(m)
  <2> DEFINE x == Held(v)
             value == Popped(m, 1)
             n == DropOps(m, 1)
             m1 == IF HasFree(Bindings(m, m.cur), x)
                   THEN [n EXCEPT !.heap[m.cur].bs = SetVar(n.heap[m.cur].bs, x, "free", value)]
                   ELSE n
             b == Binder(m1, m1.cur, x)
             k == IF b = NullHandle THEN m1
                  ELSE [m1 EXCEPT !.heap[b].bs = SetVar(m1.heap[b].bs, x, "bound", value)]
  <2>1. OpSet(m, v) = StepOn(k)
    BY <1>2 DEF OpSet
  <2>2. Moves(m, n) /\ n.heap = m.heap
    BY DropOpsMoves DEF SameData
  <2> HIDE DEF n, value
  <2>3. Moves(m, m1)
    <3>1. CASE ~HasFree(Bindings(m, m.cur), x)
      BY <3>1, <2>2
    <3>2. CASE HasFree(Bindings(m, m.cur), x)
      <4> DEFINE bs == SetVar(n.heap[m.cur].bs, x, "free", value)
      <4>1. IsClosureIn(n.heap, m.cur)
        BY <1>2, <2>2, ClosureIsClosure DEF HasCurrent
      <4>2. m1 = [n EXCEPT !.heap[m.cur].bs = bs]
        BY <3>2
      <4> HIDE DEF m1, bs
      <4>3. Moves(n, m1)
        BY <2>2, <4>1, <4>2, ClosureUpdate DEF Moves
      <4> QED  BY <2>2, <4>3, MovesTrans
    <3> QED  BY <3>1, <3>2
  <2> HIDE DEF m1
  <2>4. b = NullHandle \/ IsClosureIn(m1.heap, b)
    BY <2>3, LookUpEnds, ClosureIsClosure DEF Moves, LookUpIsLexical
  <2> HIDE DEF b
  <2>5. Moves(m, k)
    <3>1. CASE b = NullHandle
      BY <3>1, <2>3
    <3>2. CASE b # NullHandle
      <4> DEFINE bs == SetVar(m1.heap[b].bs, x, "bound", value)
      <4>1. k = [m1 EXCEPT !.heap[b].bs = bs]
        BY <3>2
      <4> HIDE DEF k, bs
      <4>2. Moves(m1, k)
        BY <2>3, <2>4, <3>2, <4>1, ClosureUpdate DEF Moves
      <4> QED  BY <2>3, <4>2, MovesTrans
    <3> QED  BY <3>1, <3>2
  <2> QED  BY <2>1, <2>5, ThenStepOn
<1> QED  BY <1>1, <1>2

LEMMA CallAddressMoves ==
  ASSUME NEW m, Good(m), NEW addr, NEW isTail
  PROVE  Moves(m, CallAddress(m, addr, isTail))
<1>1. CASE isTail /\ HasCurrent(m) /\ m.heap[m.cur].iaddr = addr
  BY <1>1, GotoMoves DEF CallAddress
<1>2. CASE ~(isTail /\ HasCurrent(m) /\ m.heap[m.cur].iaddr = addr)
  <2> DEFINE m1 == IF isTail THEN m ELSE PushFrame(m, m.pc + 1)
             m2 == MakeClosure(m1, addr)
  <2>1. CallAddress(m, addr, isTail) = Enter(m2, m.next)
    BY <1>2 DEF CallAddress
  <2>2. Moves(m, m1) /\ m1.next = m.next
    <3>1. CASE isTail
      <4>1. Moves(m, m)
        BY SameDataMoves DEF SameData, SameCode, Good
      <4> QED  BY <3>1, <4>1
    <3>2. CASE ~isTail
      BY <3>2, PushFrameMoves
    <3> QED  BY <3>1, <3>2
  <2> HIDE DEF m1
  <2>3. Moves(m1, m2) /\ IsClosureIn(m2.heap, m.next)
    BY <2>2, MakeClosureMoves DEF Moves
  <2> HIDE DEF m2
  <2>4. Moves(m2, Enter(m2, m.next))
    BY <2>3, EnterMoves DEF Moves
  <2>5. Moves(m, m2)
    BY <2>2, <2>3, MovesTrans
  <2> QED  BY <2>1, <2>4, <2>5, MovesTrans
<1> QED  BY <1>1, <1>2

LEMMA CaptureMoves ==
  ASSUME NEW m, Good(m), NEW ret
  PROVE  /\ Moves(m, Capture(m, ret)) /\ Capture(m, ret).cur = m.cur
<1> DEFINE o == [type |-> "CONTINUATION", ret |-> ret, cur |-> m.cur, ops |-> m.ops, fs |-> m.fs]
<1>1. Capture(m, ret) = AddObject(m, o)
  BY DEF Capture
<1>2. o.type = "CONTINUATION" /\ o.cur = m.cur /\ o.fs = m.fs /\ "type" \in DOMAIN o
  OBVIOUS
<1> HIDE DEF o
<1>3. IsCaller(m.heap, m.cur) /\ Frames(m.heap, m.fs)
  BY DEF Good
<1>4. ObjectOk(m.heap, m.next, o)
  BY <1>2, <1>3 DEF ObjectOk
<1>5. o.type # "EVAL_RECORD"
  BY <1>2
<1> QED  BY <1>1, <1>4, <1>5, AddObjectMoves

LEMMA OpCaptureCCMoves ==
  ASSUME NEW m, Good(m), NEW v
  PROVE  Moves(m, OpCaptureCC(m, v))
<1>1. CASE ~HasCurrent(m)
  BY <1>1, FaultMoves DEF OpCaptureCC
<1>2. CASE HasCurrent(m)
  <2> DEFINE n == Capture(m, m.pc + 3)
             bs == InitVar(n.heap[m.cur].bs, Held(v), "bound", Handle(m.next))
             k == [n EXCEPT !.heap[m.cur].bs = bs]
  <2>1. Moves(m, n)
    BY CaptureMoves
  <2>2. OpCaptureCC(m, v) = StepOn(k)
    BY <1>2 DEF OpCaptureCC
  <2> HIDE DEF n, bs
  <2>3. IsClosureIn(m.heap, m.cur)
    BY <1>2, ClosureIsClosure DEF HasCurrent
  <2>4. IsClosureIn(n.heap, m.cur)
    BY <2>1, <2>3 DEF Moves, Kept, IsClosureIn, SameObject
  <2>5. Moves(n, k)
    BY <2>1, <2>4, ClosureUpdate DEF Moves
  <2> HIDE DEF k
  <2>6. Moves(m, k)
    BY <2>1, <2>5, MovesTrans
  <2> QED  BY <2>2, <2>6, ThenStepOn
<1> QED  BY <1>1, <1>2

LEMMA RestoreMoves ==
  ASSUME NEW m, Good(m), NEW h, h \in DOMAIN m.heap, m.heap[h].type = "CONTINUATION", NEW value
  PROVE  Moves(m, Restore(m, h, value))
<1> DEFINE k == m.heap[h]
           n == [m EXCEPT !.ops = k.ops, !.fs = k.fs, !.cur = k.cur]
<1>1. IsCaller(m.heap, k.cur) /\ Frames(m.heap, k.fs)
  BY DEF Good, ObjectOk
<1>2. SameCode(m, n) /\ n.heap = m.heap /\ n.next = m.next /\ n.cur = k.cur /\ n.fs = k.fs
  BY DEF Good, MachineFields, SameCode
<1>3. Restore(m, h, value) = Goto(PushOp(n, value), k.ret)
  BY DEF Restore
<1> HIDE DEF n, k
<1>4. Moves(m, n)
  BY <1>1, <1>2, CallsMove
<1>5. Moves(n, PushOp(n, value))
  BY <1>4, PushOpMoves DEF Moves
<1>6. Moves(m, PushOp(n, value))
  BY <1>4, <1>5, MovesTrans
<1> QED  BY <1>3, <1>6, ThenGoto

LEMMA OpReturnMoves ==
  ASSUME NEW m, Good(m)
  PROVE  Moves(m, OpReturn(m))
<1>1. CASE m.fs = <<>>
  BY <1>1, FaultMoves DEF OpReturn
<1>2. CASE m.fs # <<>>
  <2> DEFINE n == [m EXCEPT !.fs = Front(m.fs), !.cur = Last(m.fs)[1]]
  <2>1. SameCode(m, n) /\ n.heap = m.heap /\ n.next = m.next /\ n.cur = Last(m.fs)[1] /\ n.fs = Front(m.fs)
    BY DEF Good, MachineFields, SameCode
  <2>2. OpReturn(m) = Goto(n, Last(m.fs)[2])
    BY <1>2 DEF OpReturn
  <2> HIDE DEF n
  <2>3. IsSeq(m.fs) /\ \A i \in DOMAIN m.fs : IsCaller(m.heap, m.fs[i][1])
    BY DEF Good, Frames
  <2>4. Len(m.fs) \in Nat \ {0} /\ DOMAIN m.fs = 1..Len(m.fs)
    BY <1>2, <2>3, SeqFacts DEF IsSeq
  <2>5. IsCaller(m.heap, n.cur)
    BY <2>1, <2>3, <2>4 DEF Last
  <2>6. Len(m.fs) - 1 \in Nat /\ Len(m.fs) - 1 <= Len(m.fs)
    BY <2>4
  <2>7. n.fs = SubSeq(m.fs, 1, Len(m.fs) - 1)
    BY <2>1 DEF Front
  <2>8. IsSeq(n.fs) /\ Len(n.fs) = Len(m.fs) - 1 /\ \A i \in 1..(Len(m.fs) - 1) : n.fs[i] = m.fs[i]
    BY <2>3, <2>6, <2>7, InitialIsSeq
  <2>9. DOMAIN n.fs = 1..(Len(m.fs) - 1)
    BY <2>8, SeqFacts
  <2>10. \A i \in DOMAIN n.fs : IsCaller(m.heap, n.fs[i][1])
    BY <2>3, <2>4, <2>8, <2>9
  <2>11. Moves(m, n)
    BY <2>1, <2>5, <2>8, <2>10, CallsMove DEF Frames
  <2> QED  BY <2>2, <2>11, ThenGoto
<1> QED  BY <1>1, <1>2

LEMMA OpCallNativeMoves ==
  ASSUME NEW m, Good(m), NEW v
  PROVE  Moves(m, OpCallNative(m, v))
  BY FaultMoves DEF OpCallNative

----------------------------------------------------------------------------
(* Lists *)

LEMMA ListIsObject ==
  ASSUME NEW m, NEW v, IsList(m, v)
  PROVE  Held(v) \in DOMAIN m.heap /\ m.heap[Held(v)].type \in ListTypes /\ Object(m, v) = m.heap[Held(v)]
  BY DEF IsList, HasObject, Object

LEMMA AddListMoves ==
  ASSUME NEW m, Good(m), NEW type \in ListTypes \cup {"STRING"}, NEW parent, NEW items
  PROVE  Moves(m, AddObject(m, ListObject(type, parent, items)))
<1> DEFINE o == ListObject(type, parent, items)
<1>1. "type" \in DOMAIN o /\ o.type = type
  BY DEF ListObject
<1>2. type \notin {"CLOSURE", "CONTINUATION", "EVAL_RECORD"}
  BY DEF ListTypes
<1> HIDE DEF o
<1>3. ObjectOk(m.heap, m.next, o) /\ o.type # "EVAL_RECORD"
  BY <1>1, <1>2 DEF ObjectOk
<1>4. Moves(m, AddObject(m, o))
  BY <1>3, AddObjectMoves
<1> QED  BY <1>4 DEF o

LEMMA FromListMoves ==
  ASSUME NEW m, Good(m), NEW v, IsList(m, v), NEW items
  PROVE  Moves(m, FromList(m, v, items))
<1>1. Object(m, v).type \in ListTypes
  BY DEF IsList
<1> QED  BY <1>1, AddListMoves DEF FromList

LEMMA OnListMoves ==
  ASSUME NEW m, Good(m), NEW v, NEW r, IsList(m, v) => Moves(m, r)
  PROVE  Moves(m, OnList(m, v, r))
  BY FaultMoves DEF OnList

LEMMA OpCarMoves ==
  ASSUME NEW m, Good(m)
  PROVE  Moves(m, OpCar(m))
  BY FaultMoves, ResultMoves DEF OpCar

LEMMA OpCdrMoves ==
  ASSUME NEW m, Good(m)
  PROVE  Moves(m, OpCdr(m))
<1>1. CASE IsList(m, Arg(m)) /\ Items(m, Arg(m)) # <<>>
  <2>1. Moves(m, FromList(m, Arg(m), Tail(Items(m, Arg(m)))))
    BY <1>1, FromListMoves
  <2> QED  BY <1>1, <2>1, ThenResult DEF OpCdr
<1>2. CASE ~(IsList(m, Arg(m)) /\ Items(m, Arg(m)) # <<>>)
  BY <1>2, FaultMoves DEF OpCdr
<1> QED  BY <1>1, <1>2

LEMMA OpConsMoves ==
  ASSUME NEW m, Good(m)
  PROVE  Moves(m, OpCons(m))
<1> DEFINE r == Result(FromList(m, Arg(m), <<Popped(m, 2)>> \o Items(m, Arg(m))), 2, Handle(m.next))
<1>1. ASSUME IsList(m, Arg(m))
      PROVE  Moves(m, r)
  <2>1. Moves(m, FromList(m, Arg(m), <<Popped(m, 2)>> \o Items(m, Arg(m))))
    BY <1>1, FromListMoves
  <2> QED  BY <2>1, ThenResult
<1>2. OpCons(m) = OnList(m, Arg(m), r)
  BY DEF OpCons
<1> HIDE DEF r
<1> QED  BY <1>1, <1>2, OnListMoves

LEMMA OpLengthMoves ==
  ASSUME NEW m, Good(m)
  PROVE  Moves(m, OpLength(m))
  BY OnListMoves, ResultMoves DEF OpLength

LEMMA OpGetItemMoves ==
  ASSUME NEW m, Good(m)
  PROVE  Moves(m, OpGetItem(m))
<1>1. CASE ~IsNumber(Arg(m))
  BY <1>1, FaultMoves DEF OpGetItem
<1>2. CASE IsNumber(Arg(m))
  <2> DEFINE l == Popped(m, 2)
             i == Held(Arg(m))
             x == IF i \in 0..(Len(Items(m, l)) - 1) THEN Items(m, l)[i + 1] ELSE Undefined
  <2>1. OpGetItem(m) = OnList(m, l, Result(m, 2, x))
    BY <1>2 DEF OpGetItem
  <2> HIDE DEF l, x
  <2> QED  BY <2>1, OnListMoves, ResultMoves
<1> QED  BY <1>1, <1>2

\* The items of a list change, after operands were taken from the stack.
LEMMA ListChangeMoves ==
  ASSUME NEW m, Good(m), NEW v, IsList(m, v), NEW n, NEW items
  PROVE  Moves(m, [DropOps(m, n) EXCEPT !.heap[Held(v)].ch = items])
<1> DEFINE d == DropOps(m, n)
           k == [d EXCEPT !.heap[Held(v)].ch = items]
<1>1. Moves(m, d) /\ d.heap = m.heap
  BY DropOpsMoves DEF SameData
<1> HIDE DEF d
<1>2. Held(v) \in DOMAIN d.heap /\ d.heap[Held(v)].type \in ListTypes
  BY <1>1, ListIsObject
<1>3. Moves(d, k)
  BY <1>1, <1>2, ListUpdate DEF Moves
<1> HIDE DEF k
<1>4. Moves(m, k)
  BY <1>1, <1>3, MovesTrans
<1> QED  BY <1>4 DEF k, d

LEMMA OpSetItemMoves ==
  ASSUME NEW m, Good(m)
  PROVE  Moves(m, OpSetItem(m))
<1> DEFINE i == Held(Popped(m, 2))
           l == Popped(m, 3)
<1>1. CASE ~IsList(m, l) \/ ~IsNumber(Popped(m, 2))
  BY <1>1, FaultMoves DEF OpSetItem
<1>2. CASE ~(~IsList(m, l) \/ ~IsNumber(Popped(m, 2))) /\ i \notin 0..(Len(Items(m, l)) - 1)
  BY <1>2, FaultMoves DEF OpSetItem
<1>3. CASE ~(~IsList(m, l) \/ ~IsNumber(Popped(m, 2))) /\ i \in 0..(Len(Items(m, l)) - 1)
  <2> DEFINE d == DropOps(m, 3)
             items == [d.heap[Held(l)].ch EXCEPT ![i + 1] = Arg(m)]
             k == [d EXCEPT !.heap[Held(l)].ch = items]
  <2>1. OpSetItem(m) = StepOn(k)
    BY <1>3 DEF OpSetItem
  <2>2. Moves(m, k)
    BY <1>3, ListChangeMoves
  <2> HIDE DEF k
  <2> QED  BY <2>1, <2>2, ThenStepOn
<1> QED  BY <1>1, <1>2, <1>3

LEMMA OpListPushMoves ==
  ASSUME NEW m, Good(m)
  PROVE  Moves(m, OpListPush(m))
<1> DEFINE l == Popped(m, 2)
<1>1. CASE ~IsList(m, l)
  BY <1>1, FaultMoves DEF OpListPush
<1>2. CASE IsList(m, l)
  <2> DEFINE d == DropOps(m, 2)
             items == Append(d.heap[Held(l)].ch, Arg(m))
             k == [d EXCEPT !.heap[Held(l)].ch = items]
  <2>1. OpListPush(m) = StepOn(k)
    BY <1>2 DEF OpListPush
  <2>2. Moves(m, k)
    BY <1>2, ListChangeMoves
  <2> HIDE DEF k
  <2> QED  BY <2>1, <2>2, ThenStepOn
<1> QED  BY <1>1, <1>2

LEMMA OpListPopMoves ==
  ASSUME NEW m, Good(m)
  PROVE  Moves(m, OpListPop(m))
<1> DEFINE l == Arg(m)
<1>1. CASE ~IsList(m, l)
  BY <1>1, FaultMoves DEF OpListPop
<1>2. CASE IsList(m, l) /\ Items(m, l) = <<>>
  BY <1>2, ResultMoves DEF OpListPop
<1>3. CASE IsList(m, l) /\ Items(m, l) # <<>>
  <2> DEFINE items == Front(m.heap[Held(l)].ch)
             k == [m EXCEPT !.heap[Held(l)].ch = items]
  <2>1. OpListPop(m) = Result(k, 1, Last(Items(m, l)))
    BY <1>3 DEF OpListPop
  <2> HIDE DEF items
  <2>2. Moves(m, k)
    BY <1>3, ListIsObject, ListUpdate
  <2> HIDE DEF k
  <2> QED  BY <2>1, <2>2, ThenResult
<1> QED  BY <1>1, <1>2, <1>3

\* The new list becomes the parent of the lists in it.
LEMMA OpConcatMoves ==
  ASSUME NEW m, Good(m)
  PROVE  Moves(m, OpConcat(m))
<1>1. CASE ~IsNumber(Arg(m))
  BY <1>1, FaultMoves DEF OpConcat
<1>2. CASE IsNumber(Arg(m))
  <2> DEFINE n     == Held(Arg(m))
             items == [i \in 1..n |-> Popped(m, n + 2 - i)]
             m1    == AddObject(m, ListObject("LIST", NullHandle, items))
             inner == {Held(items[i]) : i \in {k \in 1..n : IsList(m, items[k])}}
             heap  == [h \in DOMAIN m1.heap |->
                         IF h \in inner THEN [m1.heap[h] EXCEPT !.parent = m.next] ELSE m1.heap[h]]
             k     == [m1 EXCEPT !.heap = heap]
  <2>1. OpConcat(m) = Result(k, n + 1, Handle(m.next))
    BY <1>2 DEF OpConcat
  <2>2. \A h \in inner : h \in DOMAIN m.heap /\ m.heap[h].type \in ListTypes
    <3> TAKE h \in inner
    <3>1. PICK j \in 1..n : IsList(m, items[j]) /\ h = Held(items[j])
      OBVIOUS
    <3> QED  BY <3>1, ListIsObject
  <2> HIDE DEF items, inner, n
  <2>3. Moves(m, m1)
    BY AddListMoves DEF ListTypes
  <2> HIDE DEF m1
  <2>4. MachineFields \subseteq DOMAIN m1
    BY <2>3 DEF Moves, Good
  <2>5. SameCode(m1, k) /\ k.next = m1.next /\ k.cur = m1.cur /\ k.fs = m1.fs /\ k.heap = heap
    BY <2>4 DEF MachineFields, SameCode
  <2>6. DOMAIN k.heap = DOMAIN m1.heap
    BY <2>5
  <2>7. ASSUME NEW h \in DOMAIN m1.heap
        PROVE  SameObject(m1.heap[h], k.heap[h])
    <3>1. CASE h \in inner
      <4> DEFINE o == m1.heap[h]
      <4>1. o.type \in ListTypes /\ "type" \in DOMAIN o
        BY <2>2, <2>3, <3>1 DEF Moves, Kept, SameObject, Good, ObjectOk
      <4>2. k.heap[h] = [o EXCEPT !.parent = m.next]
        BY <2>5, <3>1
      <4> HIDE DEF o
      <4>3. SameObject(o, k.heap[h])
        BY <4>1, <4>2 DEF SameObject, ListTypes
      <4> QED  BY <4>3 DEF o
    <3>2. CASE h \notin inner
      <4>1. k.heap[h] = m1.heap[h]
        BY <2>5, <3>2
      <4> QED  BY <4>1, SameIsSame
    <3> QED  BY <3>1, <3>2
  <2> HIDE DEF k, heap
  <2>8. Moves(m1, k)
    BY <2>3, <2>5, <2>6, <2>7, ObjectsMove DEF Moves
  <2>9. Moves(m, k)
    BY <2>3, <2>8, MovesTrans
  <2> QED  BY <2>1, <2>9, ThenResult
<1> QED  BY <1>1, <1>2

LEMMA OpDuplicateMoves ==
  ASSUME NEW m, Good(m)
  PROVE  Moves(m, OpDuplicate(m))
<1>1. CASE ~HasObject(m, Arg(m))
  BY <1>1, FaultMoves DEF OpDuplicate
<1>2. CASE HasObject(m, Arg(m)) /\ IsList(m, Arg(m))
  <2> DEFINE o == Object(m, Arg(m))
  <2>1. o.type \in ListTypes /\ "type" \in DOMAIN o
    BY <1>2, ListIsObject DEF Good, ObjectOk
  <2>2. OpDuplicate(m) = Result(AddObject(m, o), 1, Handle(m.next))
    BY <1>2 DEF OpDuplicate
  <2> HIDE DEF o
  <2>3. ObjectOk(m.heap, m.next, o) /\ o.type # "EVAL_RECORD"
    BY <2>1 DEF ObjectOk, ListTypes
  <2>4. Moves(m, AddObject(m, o))
    BY <2>3, AddObjectMoves
  <2> QED  BY <2>2, <2>4, ThenResult
<1>3. CASE HasObject(m, Arg(m)) /\ ~IsList(m, Arg(m))
  BY <1>3, ResultMoves DEF OpDuplicate
<1> QED  BY <1>1, <1>2, <1>3

----------------------------------------------------------------------------
(* Numbers, names and output *)

LEMMA OpArithMoves ==
  ASSUME NEW m, Good(m), NEW op
  PROVE  Moves(m, OpArith(m, op))
  BY FaultMoves, ResultMoves DEF OpArith

LEMMA OpTypeofMoves ==
  ASSUME NEW m, Good(m)
  PROVE  Moves(m, OpTypeof(m))
<1> DEFINE name == <<TypeName(Arg(m))>>
           same == {h \in DOMAIN m.heap : m.heap[h].type = "STRING" /\ m.heap[h].ch = <<name>>}
<1>1. CASE same = {}
  <2>1. OpTypeof(m) = Result(AddObject(m, ListObject("STRING", NullHandle, <<name>>)), 1, Handle(m.next))
    BY <1>1 DEF OpTypeof
  <2> HIDE DEF name, same
  <2>2. Moves(m, AddObject(m, ListObject("STRING", NullHandle, <<name>>)))
    BY AddListMoves
  <2> QED  BY <2>1, <2>2, ThenResult
<1>2. CASE same # {}
  <2>1. OpTypeof(m) = Result(m, 1, Handle(Min(same)))
    BY <1>2 DEF OpTypeof
  <2> HIDE DEF same
  <2> QED  BY <2>1, ResultMoves
<1> QED  BY <1>1, <1>2

LEMMA OutputMoves ==
  ASSUME NEW m, Good(m), NEW out
  PROVE  Moves(m, [m EXCEPT !.out = out])
<1>1. SameData(m, [m EXCEPT !.out = out])
  BY DEF Good, MachineFields, SameData, SameCode
<1> QED  BY <1>1, SameDataMoves

LEMMA OpDisplayMoves ==
  ASSUME NEW m, Good(m)
  PROVE  Moves(m, OpDisplay(m))
<1> DEFINE n == DropOps(m, 1)
           out == Append(n.out, Shown(m, Arg(m)))
<1>1. OpDisplay(m) = StepOn([n EXCEPT !.out = out])
  BY DEF OpDisplay
<1>2. Moves(m, n)
  BY DropOpsMoves
<1> HIDE DEF n, out
<1>3. Moves(n, [n EXCEPT !.out = out])
  BY <1>2, OutputMoves DEF Moves
<1>4. Moves(m, [n EXCEPT !.out = out])
  BY <1>2, <1>3, MovesTrans
<1> QED  BY <1>1, <1>4, ThenStepOn

LEMMA OpNewlineMoves ==
  ASSUME NEW m, Good(m)
  PROVE  Moves(m, OpNewline(m))
<1> DEFINE out == Append(m.out, <<"newline", 0>>)
<1>1. OpNewline(m) = StepOn([m EXCEPT !.out = out])
  BY DEF OpNewline
<1> HIDE DEF out
<1>2. Moves(m, [m EXCEPT !.out = out])
  BY OutputMoves
<1> QED  BY <1>1, <1>2, ThenStepOn

LEMMA ModeMoves ==
  ASSUME NEW m, Good(m), NEW mode
  PROVE  Moves(m, [m EXCEPT !.mode = mode])
<1>1. SameData(m, [m EXCEPT !.mode = mode])
  BY DEF Good, MachineFields, SameData, SameCode
<1> QED  BY <1>1, SameDataMoves

----------------------------------------------------------------------------
(* Dispatch *)

LEMMA DropAndStepMoves ==
  ASSUME NEW m, Good(m), NEW n
  PROVE  Moves(m, StepOn(DropOps(m, n)))
  BY DropOpsMoves, ThenStepOn

LEMMA BranchMoves ==
  ASSUME NEW m, Good(m), NEW op, NEW addr
  PROVE  Moves(m, Branch(m, op, addr))
<1>1. Moves(m, DropOps(m, 1))
  BY DropOpsMoves
<1> QED  BY <1>1, ThenGoto, ThenStepOn DEF Branch

LEMMA PlainMoves ==
  ASSUME NEW m, Good(m), NEW op \in NoOperandOps
  PROVE  Moves(m, Plain(m, op))
<1>1. CASE op = "pop"
  BY <1>1, DropAndStepMoves DEF Plain
<1>2. CASE op = "swap"
  BY <1>2, OpSwapMoves DEF Plain
<1>3. CASE op = "return"
  BY <1>3, OpReturnMoves DEF Plain
<1>4. CASE op = "car"
  BY <1>4, OpCarMoves DEF Plain
<1>5. CASE op = "cdr"
  BY <1>5, OpCdrMoves DEF Plain
<1>6. CASE op = "cons"
  BY <1>6, OpConsMoves DEF Plain
<1>7. CASE op = "length"
  BY <1>7, OpLengthMoves DEF Plain
<1>8. CASE op = "get_item"
  BY <1>8, OpGetItemMoves DEF Plain
<1>9. CASE op = "set_item"
  BY <1>9, OpSetItemMoves DEF Plain
<1>10. CASE op = "list_push"
  BY <1>10, OpListPushMoves DEF Plain
<1>11. CASE op = "list_pop"
  BY <1>11, OpListPopMoves DEF Plain
<1>12. CASE op = "concat"
  BY <1>12, OpConcatMoves DEF Plain
<1>13. CASE op = "duplicate"
  BY <1>13, OpDuplicateMoves DEF Plain
<1>14. CASE op = "typeof"
  BY <1>14, OpTypeofMoves DEF Plain
<1>15. CASE op = "display"
  BY <1>15, OpDisplayMoves DEF Plain
<1>16. CASE op = "newline"
  BY <1>16, OpNewlineMoves DEF Plain
<1>17. CASE op \in {"read", "write", "nop"}
  BY <1>17, StepOnMoves DEF Plain
<1>18. CASE op = "pause"
  BY <1>18, ModeMoves DEF Plain
<1>19. CASE op = "halt"
  BY <1>19, ModeMoves DEF Plain
<1>20. CASE op = "fork"
  BY <1>20, FaultMoves DEF Plain
<1> QED  BY <1>1, <1>2, <1>3, <1>4, <1>5, <1>6, <1>7, <1>8, <1>9, <1>10, <1>11, <1>12, <1>13, <1>14, <1>15, <1>16, <1>17, <1>18, <1>19, <1>20 DEF NoOperandOps

LEMMA OpMoves ==
  ASSUME NEW m, Good(m), NEW op
  PROVE  Moves(m, Op(m, op))
<1>1. CASE op \in Numerical
  BY <1>1, OpArithMoves DEF Op
<1>2. CASE op \notin Numerical /\ op \in Comparisons
  BY <1>2, ResultMoves DEF Op
<1>3. CASE op \notin Numerical /\ op \notin Comparisons /\ op \in Predicates
  BY <1>3, ResultMoves DEF Op
<1>4. CASE op \notin Numerical /\ op \notin Comparisons /\ op \notin Predicates /\ op \in NoOperandOps
  BY <1>4, PlainMoves DEF Op
<1>5. CASE op \notin Numerical /\ op \notin Comparisons /\ op \notin Predicates /\ op \notin NoOperandOps
  BY <1>5, FaultMoves DEF Op
<1> QED  BY <1>1, <1>2, <1>3, <1>4, <1>5

LEMMA OpCallMoves ==
  ASSUME NEW m, Good(m), NEW v, NEW isTail
  PROVE  Moves(m, OpCall(m, v, isTail))
<1> DEFINE target == IF Tag(v) = "var" THEN Dereference(m, Held(v)) ELSE v
           framed == IF isTail THEN m ELSE PushFrame(m, m.pc + 1)
<1>1. Moves(m, framed) /\ framed.heap = m.heap
  <2>1. CASE isTail
    <3>1. Moves(m, m)
      BY SameDataMoves DEF SameData, SameCode, Good
    <3> QED  BY <2>1, <3>1
  <2>2. CASE ~isTail
    BY <2>2, PushFrameMoves
  <2> QED  BY <2>1, <2>2
<1>2. CASE IsNativeVar(m, v)
  BY <1>2, OpCallNativeMoves DEF OpCall
<1>3. CASE ~IsNativeVar(m, v) /\ target = NoValue
  BY <1>3, FaultMoves DEF OpCall
<1>4. CASE ~IsNativeVar(m, v) /\ target # NoValue /\ Tag(target) = "iaddr"
  BY <1>4, CallAddressMoves DEF OpCall
<1> DEFINE Called == ~IsNativeVar(m, v) /\ target # NoValue /\ Tag(target) # "iaddr"
<1>5. CASE Called /\ IsType(m, target, "CLOSURE")
  <2>1. OpCall(m, v, isTail) = Enter(framed, Held(target))
    BY <1>5 DEF OpCall
  <2>2. IsClosureIn(m.heap, Held(target))
    BY <1>5 DEF IsType, HasObject, Object, IsClosureIn
  <2> HIDE DEF framed, target
  <2>3. Moves(framed, Enter(framed, Held(target)))
    BY <1>1, <2>2, EnterMoves DEF Moves
  <2> QED  BY <1>1, <2>1, <2>3, MovesTrans
<1>6. CASE Called /\ ~IsType(m, target, "CLOSURE") /\ IsType(m, target, "CONTINUATION")
  <2> DEFINE n == DropOps(framed, 1)
  <2>1. OpCall(m, v, isTail) = Restore(n, Held(target), Arg(m))
    BY <1>6 DEF OpCall
  <2>2. Held(target) \in DOMAIN m.heap /\ m.heap[Held(target)].type = "CONTINUATION"
    BY <1>6 DEF IsType, HasObject, Object
  <2> HIDE DEF framed, target
  <2>3. Moves(framed, n) /\ n.heap = framed.heap
    BY <1>1, DropOpsMoves DEF SameData, Moves
  <2> HIDE DEF n
  <2>4. Moves(n, Restore(n, Held(target), Arg(m)))
    BY <1>1, <2>2, <2>3, RestoreMoves DEF Moves
  <2>5. Moves(m, n)
    BY <1>1, <2>3, MovesTrans
  <2> QED  BY <2>1, <2>4, <2>5, MovesTrans
<1> DEFINE Named == Tag(target) = "var" /\ OpcodesOf(m.vocab[Held(target)]) # {}
<1>7. CASE Called /\ ~IsType(m, target, "CLOSURE") /\ ~IsType(m, target, "CONTINUATION") /\ Named
  BY <1>7, OpMoves DEF OpCall
<1>8. CASE Called /\ ~IsType(m, target, "CLOSURE") /\ ~IsType(m, target, "CONTINUATION") /\ ~Named
  BY <1>8, FaultMoves DEF OpCall
<1> QED  BY <1>2, <1>3, <1>4, <1>5, <1>6, <1>7, <1>8

\* The instruction that comes next, if there is one.
NextOp(m) == m.il[m.pc + 1][1]
HasNext(m) == m.pc \in 0..(Len(m.il) - 1)

LEMMA ExecuteMoves ==
  ASSUME NEW m, Good(m), ~(HasNext(m) /\ NextOp(m) = "evalcleanup")
  PROVE  Moves(m, Execute(m))
<1> DEFINE op == m.il[m.pc + 1][1]
           v  == m.il[m.pc + 1][2]
<1>1. CASE ~HasNext(m)
  BY <1>1, FaultMoves DEF Execute, HasNext
<1>2. CASE HasNext(m) /\ op = "push"
  BY <1>2, ResultMoves DEF Execute, HasNext
<1>3. CASE HasNext(m) /\ op = "load"
  BY <1>3, OpLoadMoves DEF Execute, HasNext
<1>4. CASE HasNext(m) /\ op = "loadclosure"
  BY <1>4, OpLoadClosureMoves DEF Execute, HasNext
<1>5. CASE HasNext(m) /\ op = "store"
  BY <1>5, OpStoreMoves DEF Execute, HasNext
<1>6. CASE HasNext(m) /\ op = "set"
  BY <1>6, OpSetMoves DEF Execute, HasNext
<1>7. CASE HasNext(m) /\ op = "callnative"
  BY <1>7, OpCallNativeMoves DEF Execute, HasNext
<1>8. CASE HasNext(m) /\ op = "capturecc"
  BY <1>8, OpCaptureCCMoves DEF Execute, HasNext
<1>9. CASE HasNext(m) /\ op = "goto"
  BY <1>9, GotoMoves DEF Execute, HasNext
<1>10. CASE HasNext(m) /\ op \in {"call", "tailcall"}
  BY <1>10, OpCallMoves DEF Execute, HasNext
<1>11. CASE HasNext(m) /\ op \in {"iftrue", "iffalse"}
  BY <1>11, BranchMoves DEF Execute, HasNext
<1>12. CASE HasNext(m) /\ op \notin {"push", "load", "loadclosure", "store", "set", "callnative", "capturecc", "goto",
                                  "call", "tailcall", "iftrue", "iffalse", "evalcleanup"}
  BY <1>12, OpMoves DEF Execute, HasNext
<1> QED  BY <1>1, <1>2, <1>3, <1>4, <1>5, <1>6, <1>7, <1>8, <1>9, <1>10, <1>11, <1>12 DEF NextOp

----------------------------------------------------------------------------
(* The pieces of code *)

LEMMA RecordsStay ==
  ASSUME NEW m, NEW n, Kept(m, n), NEW i, HasRecord(m, i)
  PROVE  HasRecord(n, i) /\ RecordOf(n, i) = RecordOf(m, i)
<1> DEFINE h == Held(m.il[i][2])
<1>1. n.il = m.il
  BY DEF Kept, SameCode
<1>2. Tag(m.il[i][2]) = "h" /\ h \in DOMAIN m.heap /\ m.heap[h].type = "EVAL_RECORD" /\ DOMAIN m.heap[h] = RecordFields
  BY DEF HasRecord, IsType, HasObject, Object, RecordOf
<1>3. h \in DOMAIN n.heap /\ n.heap[h] = m.heap[h]
  BY <1>2 DEF Kept, SameObject, ListTypes
<1> QED  BY <1>1, <1>2, <1>3 DEF HasRecord, IsType, HasObject, Object, RecordOf

\* Instructions other than the clean-up leave all this alone.
LEMMA KeptCode ==
  ASSUME NEW m, NEW n, Kept(m, n), CodeInv(m)
  PROVE  CodeInv(n)
<1>1. n.il = m.il /\ n.vocab = m.vocab /\ n.loaded = m.loaded
  BY DEF Kept, SameCode
<1>2. \A i : IsCleanup(n, i) <=> IsCleanup(m, i)
  BY <1>1 DEF IsCleanup
<1>3. ASSUME NEW i \in 1..Len(n.il), IsCleanup(n, i)
      PROVE  RecordFits(n, i)
  <2>1. RecordFits(m, i)
    BY <1>1, <1>2, <1>3 DEF CodeInv
  <2>2. HasRecord(n, i) /\ RecordOf(n, i) = RecordOf(m, i)
    BY <2>1, RecordsStay DEF RecordFits
  <2>3. ASSUME NEW j \in 1..RecordOf(n, i).il, IsCleanup(n, j)
        PROVE  RecordOf(n, j).vocab <= RecordOf(n, i).vocab
    <3>1. RecordOf(n, i).il = i - 2 /\ Len(m.il) \in Nat
      BY <2>1, <2>2, SeqFacts DEF RecordFits, CodeInv, Begins
    <3>2. j \in 1..Len(m.il) /\ IsCleanup(m, j)
      BY <3>1, <1>1, <1>2, <2>3
    <3>3. RecordFits(m, j)
      BY <3>2 DEF CodeInv
    <3>4. RecordOf(n, j) = RecordOf(m, j)
      BY <3>3, RecordsStay DEF RecordFits
    <3>5. RecordOf(m, j).vocab <= RecordOf(m, i).vocab
      BY <2>1, <2>2, <3>2 DEF RecordFits
    <3> QED  BY <3>4, <3>5, <2>2
  <2> QED  BY <1>1, <2>1, <2>2, <2>3 DEF RecordFits
<1> QED  BY <1>1, <1>2, <1>3 DEF CodeInv

LEMMA CutFacts ==
  ASSUME NEW s, IsSeq(s), NEW n \in Nat, n <= Len(s)
  PROVE  /\ IsSeq(Cut(s, n)) /\ Len(Cut(s, n)) = n
         /\ \A i \in 1..n : Cut(s, n)[i] = s[i]
<1>1. Len(s) \in Nat
  BY SeqFacts
<1>2. CASE n < Len(s)
  BY <1>2, InitialIsSeq DEF Cut
<1>3. CASE ~(n < Len(s))
  BY <1>1, <1>3 DEF Cut
<1> QED  BY <1>2, <1>3

\* What the clean-up at pc does, in terms of its record r: all that remains of the
\* machine is the same, and of the heap all but r.
CleansUp(m, n, r, k) ==
    /\ MachineFields \subseteq DOMAIN n
    /\ n.il = Cut(m.il, r.il) /\ n.vocab = Cut(m.vocab, r.vocab)
    /\ n.vartop = m.vartop /\ n.arn = m.arn /\ n.loaded = m.loaded
    /\ n.next = m.next /\ n.cur = m.cur /\ n.fs = m.fs
    /\ n.heap = [h \in DOMAIN m.heap \ {k} |-> m.heap[h]]

LEMMA CleanupCleansUp ==
  ASSUME NEW m, Good(m), NEW v, IsType(m, v, "EVAL_RECORD")
  PROVE  CleansUp(m, OpEvalCleanup(m, v), m.heap[Held(v)], Held(v))
<1> DEFINE r == Object(m, v)
           heap == [h \in DOMAIN m.heap \ {Held(v)} |-> m.heap[h]]
           n == [m EXCEPT !.ops = Cut(m.ops, r.ops), !.il = Cut(m.il, r.il),
                          !.vocab = Cut(m.vocab, r.vocab), !.vtype = Cut(m.vtype, r.vocab),
                          !.heap = heap]
<1>1. OpEvalCleanup(m, v) = Goto(n, r.ret)
  BY DEF OpEvalCleanup
<1>2. MachineFields \subseteq DOMAIN m
  BY DEF Good
<1>3. r = m.heap[Held(v)]
  BY DEF Object
<1> HIDE DEF heap, r
<1>4. /\ MachineFields \subseteq DOMAIN n
      /\ n.il = Cut(m.il, r.il) /\ n.vocab = Cut(m.vocab, r.vocab)
      /\ n.vartop = m.vartop /\ n.arn = m.arn /\ n.loaded = m.loaded
      /\ n.next = m.next /\ n.cur = m.cur /\ n.fs = m.fs
      /\ n.heap = heap
  BY <1>2 DEF MachineFields
<1> HIDE DEF n
<1> DEFINE g == Goto(n, r.ret)
<1>5. /\ MachineFields \subseteq DOMAIN g
      /\ g.il = n.il /\ g.vocab = n.vocab
      /\ g.vartop = n.vartop /\ g.arn = n.arn /\ g.loaded = n.loaded
      /\ g.next = n.next /\ g.cur = n.cur /\ g.fs = n.fs
      /\ g.heap = n.heap
  BY <1>4 DEF Goto, MachineFields
<1> HIDE DEF g
<1>6. CleansUp(m, g, r, Held(v))
  BY <1>4, <1>5 DEF CleansUp, heap
<1> QED  BY <1>1, <1>3, <1>6 DEF g

\* What goes with the record is no closure and no continuation.
LEMMA CleanupIsGood ==
  ASSUME NEW m, Good(m), NEW n, NEW r, NEW k, CleansUp(m, n, r, k),
         k \in DOMAIN m.heap, m.heap[k].type = "EVAL_RECORD"
  PROVE  Good(n)
<1>1. \A h \in DOMAIN n.heap : h \in DOMAIN m.heap /\ n.heap[h] = m.heap[h]
  BY DEF CleansUp
<1>2. \A h \in DOMAIN m.heap : m.heap[h].type # "EVAL_RECORD" => h \in DOMAIN n.heap /\ n.heap[h] = m.heap[h]
  BY DEF CleansUp
<1>3. \A h : IsCaller(m.heap, h) => IsCaller(n.heap, h)
  BY <1>2 DEF IsCaller, IsClosureIn
<1>4. \A fs : Frames(m.heap, fs) => Frames(n.heap, fs)
  BY <1>3 DEF Frames
<1>5. \A h \in DOMAIN n.heap : ObjectOk(m.heap, h, m.heap[h]) => ObjectOk(n.heap, h, n.heap[h])
  BY <1>1, <1>3, <1>4 DEF ObjectOk
<1>6. \A h \in DOMAIN n.heap : h \in 1..(n.next - 1) /\ ObjectOk(n.heap, h, n.heap[h])
  BY <1>1, <1>5 DEF Good, CleansUp
<1>7. IsCaller(n.heap, n.cur) /\ Frames(n.heap, n.fs)
  BY <1>3, <1>4 DEF Good, CleansUp
<1> QED  BY <1>6, <1>7 DEF Good, CleansUp

\* The clean-up at pc leaves a machine whose code fits together again.
LEMMA CleanupKeepsCodeInv ==
  ASSUME NEW m, Good(m), CodeInv(m), NEW c \in 1..Len(m.il), IsCleanup(m, c),
         NEW n, NEW r, r = RecordOf(m, c), NEW k, k = Held(m.il[c][2]), CleansUp(m, n, r, k)
  PROVE  CodeInv(n)
<1> DEFINE own == m.loaded
           L == Len(own.il)
           V == Len(own.vocab)
<1>1. RecordFits(m, c)
  BY DEF CodeInv
<1>2. Begins(own.il, m.il) /\ Begins(own.vocab, m.vocab)
  BY DEF CodeInv
<1>3. IsSeq(own.il) /\ IsSeq(m.il) /\ IsSeq(own.vocab) /\ IsSeq(m.vocab)
  BY <1>2 DEF Begins
<1>4. L \in Nat /\ Len(m.il) \in Nat /\ V \in Nat /\ Len(m.vocab) \in Nat
  BY <1>3, SeqFacts
<1>5. r.il = c - 2 /\ (r.il = L \/ r.il >= L + 2) /\ r.vocab \in V..Len(m.vocab)
      /\ (r.il = L => r.vocab = V) /\ NamesOnly(m.il, r.il, r.vocab)
      /\ \A j \in 1..r.il : IsCleanup(m, j) => RecordOf(m, j).vocab <= r.vocab
  BY <1>1 DEF RecordFits
<1>6. r.il \in Nat /\ r.il <= Len(m.il) /\ r.vocab \in Nat /\ r.vocab <= Len(m.vocab) /\ L <= r.il
  BY <1>4, <1>5
<1>7. /\ IsSeq(n.il) /\ Len(n.il) = r.il /\ \A i \in 1..r.il : n.il[i] = m.il[i]
      /\ IsSeq(n.vocab) /\ Len(n.vocab) = r.vocab /\ \A i \in 1..r.vocab : n.vocab[i] = m.vocab[i]
  BY <1>3, <1>6, CutFacts DEF CleansUp
<1>8. n.loaded = own
  BY DEF CleansUp
<1>9. Begins(own.il, n.il) /\ Begins(own.vocab, n.vocab)
  BY <1>2, <1>4, <1>5, <1>6, <1>7 DEF Begins
<1>10. NamesOnly(n.il, Len(n.il), Len(n.vocab))
  BY <1>5, <1>7 DEF NamesOnly
<1>11. \A i \in 1..r.il : IsCleanup(n, i) <=> IsCleanup(m, i)
  BY <1>7 DEF IsCleanup
<1>12. ASSUME NEW i \in 1..r.il, IsCleanup(n, i)
       PROVE  HasRecord(n, i) /\ RecordOf(n, i) = RecordOf(m, i) /\ RecordFits(m, i)
  <2>1. i \in 1..Len(m.il) /\ IsCleanup(m, i)
    BY <1>4, <1>6, <1>11, <1>12
  <2>2. RecordFits(m, i)
    BY <2>1 DEF CodeInv
  <2>3. HasRecord(m, i) /\ RecordOf(m, i).il = i - 2
    BY <2>2 DEF RecordFits
  <2> DEFINE h == Held(m.il[i][2])
  <2>4. i - 2 # c - 2
    BY <1>4, <1>5, <1>6
  <2>5. h # k
    BY <2>3, <2>4, <1>5 DEF RecordOf
  <2>6. Tag(m.il[i][2]) = "h" /\ h \in DOMAIN m.heap /\ m.heap[h].type = "EVAL_RECORD" /\ DOMAIN m.heap[h] = RecordFields
    BY <2>3 DEF HasRecord, IsType, HasObject, Object, RecordOf
  <2>7. h \in DOMAIN n.heap /\ n.heap[h] = m.heap[h]
    BY <2>5, <2>6 DEF CleansUp
  <2>8. n.il[i] = m.il[i]
    BY <1>7
  <2>9. HasRecord(n, i) /\ RecordOf(n, i) = RecordOf(m, i)
    BY <2>6, <2>7, <2>8 DEF HasRecord, IsType, HasObject, Object, RecordOf
  <2> QED  BY <2>2, <2>9
<1>13. ASSUME NEW i \in 1..Len(n.il), IsCleanup(n, i)
       PROVE  RecordFits(n, i)
  <2>1. i \in 1..r.il /\ IsCleanup(m, i)
    BY <1>7, <1>11, <1>13
  <2>2. HasRecord(n, i) /\ RecordOf(n, i) = RecordOf(m, i) /\ RecordFits(m, i)
    BY <1>12, <1>13, <2>1
  <2> DEFINE s == RecordOf(m, i)
  <2>3. s.il = i - 2 /\ (s.il = L \/ s.il >= L + 2) /\ s.vocab \in V..Len(m.vocab)
        /\ (s.il = L => s.vocab = V) /\ NamesOnly(m.il, s.il, s.vocab)
        /\ \A j \in 1..s.il : IsCleanup(m, j) => RecordOf(m, j).vocab <= s.vocab
    BY <2>2 DEF RecordFits
  <2>4. s.vocab <= r.vocab
    BY <2>1, <1>5
  <2>5. s.vocab \in V..r.vocab
    BY <2>3, <2>4, <1>4, <1>6
  <2>6. \A j \in 1..s.il : j \in 1..r.il
    BY <2>1, <2>3, <1>6
  <2>7. NamesOnly(n.il, s.il, s.vocab)
    BY <2>3, <2>6, <1>7 DEF NamesOnly
  <2>8. ASSUME NEW j \in 1..s.il, IsCleanup(n, j)
        PROVE  RecordOf(n, j).vocab <= s.vocab
    <3>1. j \in 1..r.il /\ IsCleanup(m, j)
      BY <2>6, <2>8, <1>11
    <3>2. RecordOf(n, j) = RecordOf(m, j)
      BY <3>1, <2>8, <1>12
    <3>3. RecordOf(m, j).vocab <= s.vocab
      BY <3>1, <2>3, <2>8
    <3> QED  BY <3>2, <3>3
  <2> HIDE DEF s
  <2>9. RecordOf(n, i) = s
    BY <2>2 DEF s
  <2> QED  BY <2>2, <2>3, <2>5, <2>7, <2>8, <2>9, <1>7, <1>8 DEF RecordFits
<1>14. Len(n.il) = L => Len(n.vocab) = V
  BY <1>5, <1>7
<1>15. Len(n.il) > L => Len(n.il) >= L + 2 /\ IsCleanup(n, L + 2)
  <2> SUFFICES ASSUME Len(n.il) > L PROVE Len(n.il) >= L + 2 /\ IsCleanup(n, L + 2)
    OBVIOUS
  <2>1. r.il >= L + 2
    BY <1>4, <1>5, <1>6, <1>7
  <2>2. Len(m.il) > L /\ L + 2 \in 1..r.il
    BY <2>1, <1>4, <1>6
  <2>3. IsCleanup(m, L + 2)
    BY <2>2 DEF CodeInv
  <2> QED  BY <2>1, <2>2, <2>3, <1>7, <1>11
<1> QED  BY <1>7, <1>8, <1>9, <1>10, <1>13, <1>14, <1>15 DEF CodeInv

\* Code that ends up behind the code of m, with R the handle of its record.
Appends(m, n, code, R) ==
    /\ n.il = m.il \o code /\ n.loaded = m.loaded
    /\ IsSeq(code) /\ Len(code) >= 2
    /\ code[2] = <<"evalcleanup", Handle(R)>>
    /\ \A i \in 1..Len(code) : i # 2 => code[i][1] # "evalcleanup"
    /\ NamesOnly(code, Len(code), Len(n.vocab))
    /\ Begins(m.vocab, n.vocab)
    /\ \A h \in DOMAIN m.heap : m.heap[h].type = "EVAL_RECORD" => h \in DOMAIN n.heap /\ n.heap[h] = m.heap[h]
    /\ R \in DOMAIN n.heap /\ DOMAIN n.heap[R] = RecordFields
    /\ n.heap[R].type = "EVAL_RECORD" /\ n.heap[R].il = Len(m.il) /\ n.heap[R].vocab = Len(m.vocab)

\* Appended code fits to what was there.
LEMMA AppendKeepsCodeInv ==
  ASSUME NEW m, CodeInv(m), NEW n, NEW code, NEW R, Appends(m, n, code, R)
  PROVE  CodeInv(n)
<1> DEFINE own == m.loaded
           L == Len(own.il)
           V == Len(own.vocab)
           M == Len(m.il)
           W == Len(m.vocab)
<1>1. Begins(own.il, m.il) /\ Begins(own.vocab, m.vocab)
  BY DEF CodeInv
<1>2. IsSeq(own.il) /\ IsSeq(m.il) /\ IsSeq(own.vocab) /\ IsSeq(m.vocab) /\ L <= M /\ V <= W
  BY <1>1 DEF Begins
<1>3. L \in Nat /\ M \in Nat /\ V \in Nat /\ W \in Nat
  BY <1>2, SeqFacts
<1>4. IsSeq(code) /\ Len(code) >= 2 /\ n.il = m.il \o code /\ n.loaded = own /\ Begins(m.vocab, n.vocab)
  BY DEF Appends
<1>5. Len(code) \in Nat /\ IsSeq(n.vocab) /\ Len(n.vocab) \in Nat /\ W <= Len(n.vocab)
  BY <1>4, SeqFacts DEF Begins
<1>6. /\ IsSeq(n.il) /\ Len(n.il) = M + Len(code)
      /\ \A i \in 1..M : n.il[i] = m.il[i]
      /\ \A i \in 1..Len(code) : n.il[M + i] = code[i]
  BY <1>2, <1>4, ConcatIsSeq
<1>7. Begins(own.il, n.il)
  BY <1>1, <1>3, <1>5, <1>6 DEF Begins
<1>8. Begins(own.vocab, n.vocab)
  BY <1>1, <1>3, <1>4, <1>5 DEF Begins
<1>9. NamesOnly(n.il, M, W)
  BY <1>6 DEF CodeInv, NamesOnly
<1>10. NamesOnly(n.il, Len(n.il), Len(n.vocab))
  <2> SUFFICES ASSUME NEW j \in 1..Len(n.il), Tag(n.il[j][2]) = "var"
               PROVE  Held(n.il[j][2]) \in 1..Len(n.vocab)
    BY DEF NamesOnly
  <2>1. CASE j \in 1..M
    <3>1. Held(n.il[j][2]) \in 1..W
      BY <2>1, <1>9 DEF NamesOnly
    <3> QED  BY <3>1, <1>3, <1>5
  <2>2. CASE j \notin 1..M
    <3>1. j - M \in 1..Len(code) /\ M + (j - M) = j
      BY <2>2, <1>3, <1>5, <1>6
    <3>2. n.il[j] = code[j - M]
      BY <3>1, <1>6
    <3> QED  BY <3>1, <3>2 DEF Appends, NamesOnly
  <2> QED  BY <2>1, <2>2
<1>11. \A i \in 1..M : IsCleanup(n, i) <=> IsCleanup(m, i)
  BY <1>6 DEF IsCleanup
<1>12. ASSUME NEW i \in 1..M, IsCleanup(n, i)
       PROVE  HasRecord(n, i) /\ RecordOf(n, i) = RecordOf(m, i) /\ RecordFits(m, i)
  <2>1. RecordFits(m, i)
    BY <1>11, <1>12 DEF CodeInv
  <2> DEFINE h == Held(m.il[i][2])
  <2>2. Tag(m.il[i][2]) = "h" /\ h \in DOMAIN m.heap /\ m.heap[h].type = "EVAL_RECORD" /\ DOMAIN m.heap[h] = RecordFields
    BY <2>1 DEF RecordFits, HasRecord, IsType, HasObject, Object, RecordOf
  <2>3. h \in DOMAIN n.heap /\ n.heap[h] = m.heap[h]
    BY <2>2 DEF Appends
  <2>4. n.il[i] = m.il[i]
    BY <1>6
  <2>5. HasRecord(n, i) /\ RecordOf(n, i) = RecordOf(m, i)
    BY <2>2, <2>3, <2>4 DEF HasRecord, IsType, HasObject, Object, RecordOf
  <2> QED  BY <2>1, <2>5
<1>13. M + 2 \in 1..Len(n.il) /\ n.il[M + 2] = <<"evalcleanup", Handle(R)>>
  <2>1. n.il[M + 2] = code[2] /\ M + 2 \in 1..Len(n.il)
    BY <1>3, <1>4, <1>5, <1>6
  <2> QED  BY <2>1 DEF Appends
<1>14. IsCleanup(n, M + 2) /\ RecordOf(n, M + 2) = n.heap[R] /\ HasRecord(n, M + 2)
  BY <1>13 DEF IsCleanup, RecordOf, HasRecord, IsType, HasObject, Object, Handle, Tag, Held, Appends
<1>15. ASSUME NEW i \in 1..M, IsCleanup(n, i)
       PROVE  RecordFits(n, i)
  <2>1. HasRecord(n, i) /\ RecordOf(n, i) = RecordOf(m, i) /\ RecordFits(m, i)
    BY <1>12, <1>15
  <2> DEFINE s == RecordOf(m, i)
  <2>2. s.il = i - 2 /\ (s.il = L \/ s.il >= L + 2) /\ s.vocab \in V..W
        /\ (s.il = L => s.vocab = V) /\ NamesOnly(m.il, s.il, s.vocab)
        /\ \A j \in 1..s.il : IsCleanup(m, j) => RecordOf(m, j).vocab <= s.vocab
    BY <2>1 DEF RecordFits
  <2>3. s.vocab \in V..Len(n.vocab)
    BY <2>2, <1>3, <1>5
  <2>4. \A j \in 1..s.il : j \in 1..M
    BY <2>2, <1>3
  <2>5. NamesOnly(n.il, s.il, s.vocab)
    BY <2>2, <2>4, <1>6 DEF NamesOnly
  <2>6. ASSUME NEW j \in 1..s.il, IsCleanup(n, j)
        PROVE  RecordOf(n, j).vocab <= s.vocab
    <3>1. j \in 1..M /\ IsCleanup(m, j)
      BY <2>4, <2>6, <1>11
    <3>2. RecordOf(n, j) = RecordOf(m, j)
      BY <3>1, <2>6, <1>12
    <3>3. RecordOf(m, j).vocab <= s.vocab
      BY <3>1, <2>2, <2>6
    <3> QED  BY <3>2, <3>3
  <2> HIDE DEF s
  <2>7. RecordOf(n, i) = s
    BY <2>1 DEF s
  <2> QED  BY <2>1, <2>2, <2>3, <2>5, <2>6, <2>7, <1>4 DEF RecordFits
<1>16. RecordFits(n, M + 2)
  <2> DEFINE s == n.heap[R]
  <2>1. s.il = M /\ s.vocab = W
    BY DEF Appends
  <2>2. M = L \/ M >= L + 2
    BY <1>2, <1>3 DEF CodeInv
  <2>3. W \in V..Len(n.vocab)
    BY <1>2, <1>3, <1>5
  <2>4. M = L => W = V
    BY DEF CodeInv
  <2>5. ASSUME NEW j \in 1..M, IsCleanup(n, j)
        PROVE  RecordOf(n, j).vocab <= W
    <3>1. RecordOf(n, j) = RecordOf(m, j) /\ RecordFits(m, j)
      BY <2>5, <1>12
    <3>2. RecordOf(m, j).vocab \in V..W
      BY <3>1 DEF RecordFits
    <3> QED  BY <3>1, <3>2, <1>3
  <2>6. M + 2 - 2 = M
    BY <1>3
  <2> HIDE DEF s
  <2>7. RecordOf(n, M + 2) = s
    BY <1>14 DEF s
  <2> QED  BY <2>1, <2>2, <2>3, <2>4, <2>5, <2>6, <2>7, <1>4, <1>9, <1>14 DEF RecordFits
<1>17. ASSUME NEW i \in 1..Len(n.il), IsCleanup(n, i)
       PROVE  RecordFits(n, i)
  <2>1. CASE i \in 1..M
    BY <2>1, <1>15, <1>17
  <2>2. CASE i = M + 2
    BY <2>2, <1>16
  <2>3. CASE i \notin 1..M /\ i # M + 2
    <3>1. i - M \in 1..Len(code) /\ M + (i - M) = i /\ i - M # 2
      BY <2>3, <1>3, <1>5, <1>6
    <3>2. n.il[i] = code[i - M]
      BY <3>1, <1>6
    <3>3. n.il[i][1] # "evalcleanup"
      BY <3>1, <3>2 DEF Appends
    <3> QED  BY <3>3, <1>17 DEF IsCleanup
  <2> QED  BY <2>1, <2>2, <2>3
<1>18. Len(n.il) # L /\ Len(n.il) >= L + 2
  BY <1>2, <1>3, <1>4, <1>5, <1>6
<1>19. IsCleanup(n, L + 2)
  <2>1. CASE M = L
    BY <2>1, <1>14
  <2>2. CASE M # L
    <3>1. M > L
      BY <2>2, <1>2, <1>3
    <3>2. M >= L + 2 /\ IsCleanup(m, L + 2)
      BY <3>1 DEF CodeInv
    <3>3. L + 2 \in 1..M
      BY <3>2, <1>3
    <3> QED  BY <3>2, <3>3, <1>11
  <2> QED  BY <2>1, <2>2
<1> QED  BY <1>4, <1>7, <1>8, <1>10, <1>17, <1>18, <1>19 DEF CodeInv

----------------------------------------------------------------------------
(* The names of a text *)

\* Only names are added.
AddsNames(m, n) ==
    /\ MachineFields \subseteq DOMAIN n
    /\ n.il = m.il /\ n.vartop = m.vartop /\ n.loaded = m.loaded
    /\ n.heap = m.heap /\ n.next = m.next /\ n.cur = m.cur /\ n.fs = m.fs
    /\ Begins(m.vocab, n.vocab)

LEMMA AddsNamesTrans ==
  ASSUME NEW m, NEW n, NEW k, AddsNames(m, n), AddsNames(n, k)
  PROVE  AddsNames(m, k)
<1>1. IsSeq(m.vocab) /\ IsSeq(n.vocab) /\ IsSeq(k.vocab)
  BY DEF AddsNames, Begins
<1>2. Len(m.vocab) \in Nat /\ Len(n.vocab) \in Nat /\ Len(k.vocab) \in Nat
  BY <1>1, SeqFacts
<1>3. Len(m.vocab) <= Len(n.vocab) /\ Len(n.vocab) <= Len(k.vocab)
  BY DEF AddsNames, Begins
<1>4. ASSUME NEW i \in 1..Len(m.vocab)
      PROVE  k.vocab[i] = m.vocab[i]
  <2>1. i \in 1..Len(n.vocab)
    BY <1>2, <1>3
  <2>2. n.vocab[i] = m.vocab[i] /\ k.vocab[i] = n.vocab[i]
    BY <2>1 DEF AddsNames, Begins
  <2> QED  BY <2>2
<1>5. Begins(m.vocab, k.vocab)
  BY <1>1, <1>2, <1>3, <1>4 DEF Begins
<1> QED  BY <1>5 DEF AddsNames

LEMMA VarIdOfKnown ==
  ASSUME NEW a, IsSeq(a.vocab), NEW name, Known(a, name)
  PROVE  VarId(a, name) \in 1..Len(a.vocab)
<1> DEFINE S == VarIds(a, name)
<1>1. DOMAIN a.vocab = 1..Len(a.vocab) /\ Len(a.vocab) \in Nat
  BY SeqFacts
<1>2. S \subseteq 1..Len(a.vocab) /\ S # {}
  BY <1>1 DEF VarIds, Known
<1>3. S \in SUBSET Nat
  BY <1>2
<1> HIDE DEF S
<1>4. Min(S) \in S
  BY <1>2, <1>3, MinIsElement
<1> QED  BY <1>2, <1>4 DEF VarId, S

LEMMA BeginsItself ==
  ASSUME NEW s, IsSeq(s)
  PROVE  Begins(s, s)
<1>1. Len(s) \in Nat
  BY SeqFacts
<1> QED  BY <1>1 DEF Begins

LEMMA InternAddsName ==
  ASSUME NEW m, MachineFields \subseteq DOMAIN m, IsSeq(m.vocab), NEW name, NEW type
  PROVE  /\ AddsNames(m, Intern(m, name, type))
         /\ VarId(Intern(m, name, type), name) \in 1..Len(Intern(m, name, type).vocab)
<1> DEFINE b == [m EXCEPT !.vocab = Append(@, name), !.vtype = Append(@, type)]
<1>1. CASE Known(m, name)
  <2>1. Intern(m, name, type) = m
    BY <1>1 DEF Intern
  <2>2. AddsNames(m, m)
    BY BeginsItself DEF AddsNames
  <2> QED  BY <1>1, <2>1, <2>2, VarIdOfKnown
<1>2. CASE ~Known(m, name)
  <2>1. Intern(m, name, type) = b
    BY <1>2 DEF Intern
  <2>2. /\ MachineFields \subseteq DOMAIN b
        /\ b.il = m.il /\ b.vartop = m.vartop /\ b.loaded = m.loaded
        /\ b.heap = m.heap /\ b.next = m.next /\ b.cur = m.cur /\ b.fs = m.fs
        /\ b.vocab = Append(m.vocab, name)
    BY DEF MachineFields
  <2> HIDE DEF b
  <2>3. /\ IsSeq(b.vocab) /\ Len(b.vocab) = Len(m.vocab) + 1
        /\ \A i \in 1..Len(m.vocab) : b.vocab[i] = m.vocab[i]
        /\ b.vocab[Len(m.vocab) + 1] = name
    BY <2>2, AppendIsSeq
  <2>4. Len(m.vocab) \in Nat /\ DOMAIN b.vocab = 1..Len(b.vocab)
    BY <2>3, SeqFacts
  <2>5. Begins(m.vocab, b.vocab)
    BY <2>3, <2>4 DEF Begins
  <2>6. Len(m.vocab) + 1 \in VarIds(b, name)
    BY <2>3, <2>4 DEF VarIds
  <2>7. VarId(b, name) \in 1..Len(b.vocab)
    BY <2>3, <2>6, VarIdOfKnown DEF Known
  <2> QED  BY <2>1, <2>2, <2>5, <2>7 DEF AddsNames
<1> QED  BY <1>1, <1>2

LEMMA InternAsAddsName ==
  ASSUME NEW m, MachineFields \subseteq DOMAIN m, IsSeq(m.vocab), NEW name, NEW type, NEW temps
  PROVE  LET n == [InternAs(m, name, type) EXCEPT !.temps = temps]
         IN AddsNames(m, n) /\ VarId(n, name) \in 1..Len(n.vocab)
<1> DEFINE b == Intern(m, name, type)
           v == VarId(b, name)
           n == [InternAs(m, name, type) EXCEPT !.temps = temps]
<1>1. AddsNames(m, b) /\ v \in 1..Len(b.vocab)
  BY InternAddsName
<1>2. InternAs(m, name, type) = [b EXCEPT !.vtype[v] = type]
  BY DEF InternAs
<1>3. MachineFields \subseteq DOMAIN b
  BY <1>1 DEF AddsNames
<1> HIDE DEF b, v
<1>4. /\ MachineFields \subseteq DOMAIN n
      /\ n.il = b.il /\ n.vartop = b.vartop /\ n.loaded = b.loaded
      /\ n.heap = b.heap /\ n.next = b.next /\ n.cur = b.cur /\ n.fs = b.fs
      /\ n.vocab = b.vocab
  BY <1>2, <1>3 DEF MachineFields
<1> HIDE DEF n
<1>5. AddsNames(m, n)
  BY <1>1, <1>4 DEF AddsNames
<1>6. VarIds(n, name) = VarIds(b, name)
  BY <1>4 DEF VarIds
<1>7. VarId(n, name) = v
  BY <1>6 DEF VarId, v
<1> QED  BY <1>1, <1>4, <1>5, <1>7 DEF n

\* The first n names of a text have been mapped.
NamesMapped(m, n, x) ==
    /\ {"m", "of", "ok"} \subseteq DOMAIN x
    /\ AddsNames(m, x.m)
    /\ x.ok => x.of \in Seq(1..Len(x.m.vocab)) /\ Len(x.of) = n

LEMMA MappedMore ==
  ASSUME NEW m, NEW n \in Nat, NEW x, NamesMapped(m, n, x), x.ok, NEW k, AddsNames(x.m, k),
         NEW v \in 1..Len(k.vocab)
  PROVE  NamesMapped(m, n + 1, Mapped(x, v, k))
<1> DEFINE y == Mapped(x, v, k)
<1>1. {"m", "of", "ok"} \subseteq DOMAIN y /\ y.m = k /\ y.of = Append(x.of, v) /\ y.ok = x.ok
  BY DEF Mapped, NamesMapped
<1> HIDE DEF y
<1>2. AddsNames(m, y.m)
  BY <1>1, AddsNamesTrans DEF NamesMapped
<1>3. Len(x.m.vocab) \in Nat /\ Len(k.vocab) \in Nat /\ Len(x.m.vocab) <= Len(k.vocab)
  BY SeqFacts DEF AddsNames, Begins
<1>4. 1..Len(x.m.vocab) \subseteq 1..Len(k.vocab)
  BY <1>3
<1>5. x.of \in Seq(1..Len(x.m.vocab)) /\ Len(x.of) = n
  BY DEF NamesMapped
<1> DEFINE S == 1..Len(x.m.vocab)
           T == 1..Len(k.vocab)
           s == x.of
<1> HIDE DEF S, T, s
<1>6. s \in Seq(T)
  <2>1. s \in Seq(S) /\ S \subseteq T
    BY <1>4, <1>5 DEF S, T, s
  <2> QED  BY <2>1
<1>7. v \in T
  BY DEF T
<1>8. Append(s, v) \in Seq(T) /\ Len(Append(s, v)) = Len(s) + 1
  BY <1>6, <1>7
<1>9. y.of \in Seq(1..Len(y.m.vocab))
  BY <1>1, <1>8 DEF s, T
<1>10. Len(y.of) = n + 1
  BY <1>1, <1>5, <1>8 DEF s
<1>11. NamesMapped(m, n + 1, y)
  BY <1>1, <1>2, <1>9, <1>10 DEF NamesMapped
<1> QED  BY <1>11 DEF y

LEMMA MapVarMaps ==
  ASSUME NEW m, MachineFields \subseteq DOMAIN m, Begins(m.loaded.vocab, m.vocab), TopsKnown(m),
         NEW n \in Nat, NEW x, NamesMapped(m, n, x), NEW name, NEW type
  PROVE  NamesMapped(m, n + 1, MapVar(x, name, type))
<1> DEFINE tops  == TopsCalled(x.m, name)
           fresh == <<"__eval_" \o ToString(x.m.temps) \o "_" \o name[1]>>
           temp  == [InternAs(x.m, fresh, type) EXCEPT !.temps = @ + 1]
           plain == Intern(x.m, name, type)
<1>1. AddsNames(m, x.m)
  BY DEF NamesMapped
<1>2. MachineFields \subseteq DOMAIN x.m /\ IsSeq(x.m.vocab) /\ IsSeq(m.vocab) /\ IsSeq(m.loaded.vocab)
  BY <1>1 DEF AddsNames, Begins
<1>3. CASE ~x.ok
  BY <1>3 DEF MapVar, NamesMapped
<1>4. CASE x.ok /\ type = "ILTEMP"
  <2> HIDE DEF fresh
  <2> DEFINE i == InternAs(x.m, fresh, type)
             t == i.temps + 1
  <2>1. temp = [i EXCEPT !.temps = t]
    OBVIOUS
  <2> HIDE DEF t
  <2>2. AddsNames(x.m, [i EXCEPT !.temps = t]) /\ VarId([i EXCEPT !.temps = t], fresh) \in 1..Len([i EXCEPT !.temps = t].vocab)
    BY <1>2, InternAsAddsName
  <2> HIDE DEF i
  <2>3. AddsNames(x.m, temp) /\ VarId(temp, fresh) \in 1..Len(temp.vocab)
    BY <2>1, <2>2
  <2>4. MapVar(x, name, type) = Mapped(x, VarId(temp, fresh), temp)
    BY <1>4 DEF MapVar, i, fresh
  <2> HIDE DEF temp
  <2> QED  BY <1>4, <2>3, <2>4, MappedMore
<1>5. CASE x.ok /\ type \notin {"ILTEMP", "GLOBAL_FREE"}
  <2>1. AddsNames(x.m, plain) /\ VarId(plain, name) \in 1..Len(plain.vocab)
    BY <1>2, InternAddsName
  <2>2. MapVar(x, name, type) = Mapped(x, VarId(plain, name), plain)
    BY <1>5 DEF MapVar
  <2> HIDE DEF plain
  <2> QED  BY <1>5, <2>1, <2>2, MappedMore
<1>6. CASE x.ok /\ type = "GLOBAL_FREE" /\ tops # {}
  <2>1. MapVar(x, name, type) = Mapped(x, x.m.vartop[Min(tops)], x.m)
    BY <1>6 DEF MapVar
  <2>2. x.m.vartop \in Seq(1..Len(m.loaded.vocab))
    BY <1>1 DEF AddsNames, TopsKnown
  <2>3. tops \in SUBSET (DOMAIN x.m.vartop) /\ DOMAIN x.m.vartop \subseteq Nat
    BY <2>2 DEF TopsCalled
  <2> HIDE DEF tops
  <2>4. Min(tops) \in tops
    BY <1>6, <2>3, MinIsElement
  <2>5. x.m.vartop[Min(tops)] \in 1..Len(m.loaded.vocab)
    BY <2>2, <2>3, <2>4
  <2>6. /\ Len(m.loaded.vocab) \in Nat /\ Len(m.vocab) \in Nat /\ Len(x.m.vocab) \in Nat
        /\ Len(m.loaded.vocab) <= Len(m.vocab) /\ Len(m.vocab) <= Len(x.m.vocab)
    BY <1>1, <1>2, SeqFacts DEF AddsNames, Begins
  <2>7. x.m.vartop[Min(tops)] \in 1..Len(x.m.vocab)
    BY <2>5, <2>6
  <2>8. AddsNames(x.m, x.m)
    BY <1>2, BeginsItself DEF AddsNames
  <2> QED  BY <1>6, <2>1, <2>7, <2>8, MappedMore
<1>7. CASE x.ok /\ type = "GLOBAL_FREE" /\ tops = {}
  <2> DEFINE y == [x EXCEPT !.ok = FALSE]
  <2>1. MapVar(x, name, type) = y
    BY <1>7 DEF MapVar
  <2>2. {"m", "of", "ok"} \subseteq DOMAIN y /\ y.m = x.m /\ y.ok = FALSE
    BY DEF NamesMapped
  <2> QED  BY <1>1, <2>1, <2>2 DEF NamesMapped
<1> QED  BY <1>3, <1>4, <1>5, <1>6, <1>7

\* The names of a text up to the n-th, mapped one after another.
MapsTo(m, a, n, f) ==
    f = [k \in 0..n |-> IF k = 0 THEN [m |-> m, of |-> <<>>, ok |-> TRUE]
                        ELSE MapVar(f[k - 1], a.vocab[k], a.vtype[k])]

LEMMA MapExists ==
  ASSUME NEW m, NEW a
  PROVE  \A n \in Nat : \E f : MapsTo(m, a, n, f)
<1> DEFINE Bad == {n \in Nat : ~\E f : MapsTo(m, a, n, f)}
           start == [m |-> m, of |-> <<>>, ok |-> TRUE]
<1>1. SUFFICES ASSUME Bad # {} PROVE FALSE
  OBVIOUS
<1>2. PICK n \in Bad : \A y \in Bad : ~(<<y, n>> \in OpToRel(<, Nat))
  BY <1>1, NatLessThanWellFounded, WFMin
<1>3. \A y \in Bad : ~(y < n)
  BY <1>2 DEF OpToRel
<1>4. n \in Nat /\ ~\E f : MapsTo(m, a, n, f)
  OBVIOUS
<1> HIDE DEF start
<1>5. CASE n = 0
  <2> DEFINE f == [k \in 0..n |-> start]
  <2>1. f = [k \in 0..n |-> IF k = 0 THEN start ELSE MapVar(f[k - 1], a.vocab[k], a.vtype[k])]
    BY <1>5
  <2> QED  BY <2>1, <1>4 DEF MapsTo, start
<1>6. CASE n # 0
  <2>1. n - 1 \in Nat /\ n - 1 < n
    BY <1>4, <1>6
  <2>2. PICK f : MapsTo(m, a, n - 1, f)
    BY <2>1, <1>3
  <2> DEFINE g == [k \in 0..n |-> IF k = n THEN MapVar(f[k - 1], a.vocab[k], a.vtype[k]) ELSE f[k]]
  <2>3. \A k \in 0..(n - 1) : f[k] = IF k = 0 THEN start ELSE MapVar(f[k - 1], a.vocab[k], a.vtype[k])
    BY <2>2 DEF MapsTo, start
  <2>4. \A k \in 0..(n - 1) : g[k] = f[k]
    BY <1>4
  <2>5. ASSUME NEW k \in 0..n
        PROVE  g[k] = IF k = 0 THEN start ELSE MapVar(g[k - 1], a.vocab[k], a.vtype[k])
    <3>1. CASE k = 0
      BY <3>1, <1>6, <2>1, <2>3, <2>4
    <3>2. CASE k # 0
      <4>1. k - 1 \in 0..(n - 1) /\ k # 0
        BY <3>2, <1>4
      <4>2. g[k - 1] = f[k - 1]
        BY <4>1, <2>4
      <4>3. CASE k = n
        BY <4>1, <4>2, <4>3
      <4>4. CASE k # n
        <5>1. k \in 0..(n - 1)
          BY <4>4, <1>4
        <5>2. g[k] = MapVar(f[k - 1], a.vocab[k], a.vtype[k])
          BY <5>1, <2>3, <2>4, <4>1
        <5> QED  BY <5>2, <4>1, <4>2
      <4> QED  BY <4>3, <4>4
    <3> QED  BY <3>1, <3>2
  <2>6. g = [k \in 0..n |-> IF k = 0 THEN start ELSE MapVar(g[k - 1], a.vocab[k], a.vtype[k])]
    BY <2>5
  <2> QED  BY <2>6, <1>4 DEF MapsTo, start
<1> QED  BY <1>5, <1>6

LEMMA MapVarsIsLast ==
  ASSUME NEW m, NEW a
  PROVE  MapVars(m, a) = (CHOOSE f : MapsTo(m, a, Len(a.vocab), f))[Len(a.vocab)]
  BY Zenon DEF MapVars, MapsTo

LEMMA MapVarsMaps ==
  ASSUME NEW m, MachineFields \subseteq DOMAIN m, Begins(m.loaded.vocab, m.vocab), TopsKnown(m),
         NEW a, IsSeq(a.vocab)
  PROVE  NamesMapped(m, Len(a.vocab), MapVars(m, a))
<1> DEFINE N == Len(a.vocab)
           f == CHOOSE g : MapsTo(m, a, N, g)
<1>1. N \in Nat
  BY SeqFacts
<1>2. MapsTo(m, a, N, f)
  BY <1>1, MapExists
<1>3. MapVars(m, a) = f[N]
  BY MapVarsIsLast
<1> HIDE DEF f, N
<1>4. \A k \in 0..N : f[k] = IF k = 0 THEN [m |-> m, of |-> <<>>, ok |-> TRUE]
                             ELSE MapVar(f[k - 1], a.vocab[k], a.vtype[k])
  BY <1>2 DEF MapsTo
<1> DEFINE Bad == {k \in 0..N : ~NamesMapped(m, k, f[k])}
<1>5. Bad = {}
  <2>1. SUFFICES ASSUME Bad # {} PROVE FALSE
    OBVIOUS
  <2>2. Bad \subseteq Nat
    BY <1>1
  <2>3. PICK k \in Bad : \A y \in Bad : ~(<<y, k>> \in OpToRel(<, Nat))
    BY <2>1, <2>2, NatLessThanWellFounded, WFMin
  <2>4. \A y \in Bad : ~(y < k)
    BY <2>2, <2>3 DEF OpToRel
  <2>5. k \in 0..N /\ ~NamesMapped(m, k, f[k])
    OBVIOUS
  <2>6. CASE k = 0
    <3> DEFINE x == [m |-> m, of |-> <<>>, ok |-> TRUE]
    <3>1. f[k] = x
      BY <2>5, <2>6, <1>4
    <3>2. {"m", "of", "ok"} \subseteq DOMAIN x /\ x.m = m /\ x.of = <<>>
      OBVIOUS
    <3>3. IsSeq(m.vocab)
      BY DEF Begins
    <3>4. AddsNames(m, m)
      BY <3>3, BeginsItself DEF AddsNames
    <3>5. x.of \in Seq(1..Len(x.m.vocab)) /\ Len(x.of) = k
      BY <3>2, <2>6
    <3>6. NamesMapped(m, k, x)
      BY <3>2, <3>4, <3>5 DEF NamesMapped
    <3> QED  BY <3>1, <3>6, <2>5
  <2>7. CASE k # 0
    <3>1. k - 1 \in 0..N /\ k - 1 < k /\ k - 1 \in Nat /\ k - 1 + 1 = k
      BY <2>5, <2>7, <1>1
    <3>2. NamesMapped(m, k - 1, f[k - 1])
      BY <3>1, <2>4
    <3>3. NamesMapped(m, k - 1 + 1, MapVar(f[k - 1], a.vocab[k], a.vtype[k]))
      BY <3>1, <3>2, MapVarMaps
    <3>4. f[k] = MapVar(f[k - 1], a.vocab[k], a.vtype[k])
      BY <2>5, <2>7, <1>4
    <3> QED  BY <3>1, <3>3, <3>4, <2>5
  <2> QED  BY <2>6, <2>7
<1> QED  BY <1>1, <1>3, <1>5 DEF N

----------------------------------------------------------------------------
(* The objects and the code of a text *)

LEMMA CopiedNodeIsNode ==
  ASSUME NEW m, NEW c, NEW o, IsNode(o)
  PROVE  /\ "type" \in DOMAIN CopiedNode(m, c, o)
         /\ CopiedNode(m, c, o).type \notin {"CLOSURE", "CONTINUATION", "EVAL_RECORD"}
<1> DEFINE ch == [i \in DOMAIN o.ch |-> CopiedValue(m, c, o.ch[i])]
           p == [o EXCEPT !.ch = ch]
<1>1. "type" \in DOMAIN o /\ o.type \notin {"CLOSURE", "CONTINUATION", "EVAL_RECORD"}
  BY DEF IsNode, ListTypes
<1>2. CopiedNode(m, c, o) = IF o.type = "STRING" THEN o ELSE p
  BY DEF CopiedNode
<1> HIDE DEF ch
<1>3. "type" \in DOMAIN p /\ p.type = o.type
  BY <1>1
<1> HIDE DEF p
<1> QED  BY <1>1, <1>2, <1>3

LEMMA CopyObjectsMoves ==
  ASSUME NEW m, Good(m), NEW c, c.ok, LoadableText(c)
  PROVE  /\ Moves(m, CopyObjects(m, c))
         /\ \A h \in DOMAIN m.heap : CopyObjects(m, c).heap[h] = m.heap[h]
<1> DEFINE n == CopyObjects(m, c)
           K == Len(Copied(c))
           copies == m.next..(m.next + K - 1)
           Copy(h) == CopiedNode(m, c, Node(c.ast, Copied(c)[h - m.next + 1]))
           heap == [h \in DOMAIN m.heap \cup copies |-> IF h \in copies THEN Copy(h) ELSE m.heap[h]]
<1>1. MachineFields \subseteq DOMAIN m /\ m.next \in Nat \ {0}
  BY DEF Good
<1>2. Copied(c) \in Seq(DOMAIN c.ast.nodes) /\ \A h \in DOMAIN c.ast.nodes : IsNode(c.ast.nodes[h])
  BY DEF LoadableText
<1>3. K \in Nat
  BY <1>2
<1>4. n = [m EXCEPT !.heap = heap, !.next = m.next + K]
  BY DEF CopyObjects
<1> HIDE DEF n, heap
<1>5. /\ MachineFields \subseteq DOMAIN n
      /\ n.il = m.il /\ n.vocab = m.vocab /\ n.vtype = m.vtype
      /\ n.vartop = m.vartop /\ n.arn = m.arn /\ n.loaded = m.loaded
      /\ n.cur = m.cur /\ n.fs = m.fs /\ n.heap = heap /\ n.next = m.next + K
  BY <1>1, <1>4 DEF MachineFields
<1>6. SameCode(m, n)
  BY <1>5 DEF SameCode
<1>7. ASSUME NEW h \in copies
      PROVE  "type" \in DOMAIN Copy(h) /\ Copy(h).type \notin {"CLOSURE", "CONTINUATION", "EVAL_RECORD"}
  <2> DEFINE i == h - m.next + 1
  <2>1. i \in 1..K
    BY <1>1, <1>3
  <2>2. i \in DOMAIN Copied(c)
    BY <2>1, <1>2
  <2> HIDE DEF i
  <2>3. Copied(c)[i] \in DOMAIN c.ast.nodes
    BY <2>2, <1>2
  <2>4. IsNode(Node(c.ast, Copied(c)[i]))
    BY <2>3, <1>2 DEF Node
  <2> QED  BY <2>4, CopiedNodeIsNode DEF i
<1> HIDE DEF Copy
<1>8. \A h \in DOMAIN m.heap : h \notin copies /\ h \in 1..(m.next - 1)
  BY <1>1 DEF Good
<1> HIDE DEF copies
<1>9. DOMAIN heap = DOMAIN m.heap \cup copies
      /\ \A h \in DOMAIN heap : heap[h] = IF h \in copies THEN Copy(h) ELSE m.heap[h]
  BY DEF heap
<1>10. \A h \in DOMAIN m.heap : h \in DOMAIN n.heap /\ n.heap[h] = m.heap[h]
  BY <1>5, <1>8, <1>9
<1>11. \A h \in DOMAIN m.heap : h \in DOMAIN n.heap /\ SameObject(m.heap[h], n.heap[h])
  BY <1>10, SameIsSame
<1>12. \A h \in DOMAIN n.heap : h \in DOMAIN m.heap \/ (h \in copies /\ n.heap[h] = Copy(h))
  BY <1>5, <1>8, <1>9
<1>13. ASSUME NEW h \in copies
       PROVE  h \in 1..(m.next + K - 1) /\ h >= m.next
  BY <1>1, <1>3, <1>13 DEF copies
<1>14. ASSUME NEW h \in DOMAIN n.heap
       PROVE  h \in 1..(n.next - 1) /\ ObjectOk(n.heap, h, n.heap[h])
  <2>1. CASE h \in DOMAIN m.heap
    <3>1. h \in 1..(m.next - 1) /\ ObjectOk(m.heap, h, m.heap[h])
      BY <2>1 DEF Good
    <3>2. ObjectOk(n.heap, h, n.heap[h])
      BY <2>1, <3>1, <1>11, ObjectsGrow
    <3> QED  BY <3>1, <3>2, <1>1, <1>3, <1>5
  <2>2. CASE h \in copies /\ n.heap[h] = Copy(h)
    <3>1. "type" \in DOMAIN n.heap[h] /\ n.heap[h].type \notin {"CLOSURE", "CONTINUATION", "EVAL_RECORD"}
      BY <2>2, <1>7
    <3>2. ObjectOk(n.heap, h, n.heap[h])
      BY <3>1 DEF ObjectOk
    <3>3. h \in 1..(m.next + K - 1)
      BY <2>2, <1>13
    <3>4. n.next - 1 = m.next + K - 1
      BY <1>1, <1>3, <1>5
    <3> QED  BY <3>2, <3>3, <3>4
  <2> QED  BY <2>1, <2>2, <1>12
<1>15. n.next \in Nat \ {0} /\ n.next >= m.next
  BY <1>1, <1>3, <1>5
<1>16. IsCaller(n.heap, n.cur) /\ Frames(n.heap, n.fs)
  BY <1>5, <1>11, CallersGrow, FramesGrow DEF Good
<1>17. Good(n)
  BY <1>5, <1>14, <1>15, <1>16 DEF Good
<1>18. ASSUME NEW h \in DOMAIN n.heap \ DOMAIN m.heap
       PROVE  h >= m.next /\ n.heap[h].type # "EVAL_RECORD"
  BY <1>7, <1>12, <1>13
<1>19. Kept(m, n)
  BY <1>6, <1>11, <1>15, <1>18 DEF Kept
<1> QED  BY <1>10, <1>17, <1>19 DEF Moves, n

\* The code of a text, for a process with k variables.
IsTextCode(code, record, k) ==
    /\ IsSeq(code) /\ Len(code) >= 2
    /\ code[2] = <<"evalcleanup", record>>
    /\ \A i \in 1..Len(code) : i # 2 => code[i][1] # "evalcleanup"
    /\ NamesOnly(code, Len(code), k)

LEMMA RelocatedFacts ==
  ASSUME NEW m, NEW c, c.ok, LoadableText(c), NEW k \in Nat, NEW vars \in Seq(1..k),
         Len(vars) = Len(c.ast.vocab), NEW record, Tag(record) # "var"
  PROVE  IsTextCode(Relocated(m, c, vars, record), record, k)
<1> DEFINE il == Resolve(c, Len(m.il)).il
           N == Len(c.il)
           Address(v) == IF Tag(v) = "label" THEN <<"iaddr", c.at[Held(v)] + Len(m.il)>> ELSE v
           Operand(v) == IF Tag(v) = "var" THEN Var(vars[Held(v)]) ELSE CopiedValue(m, c, v)
           code == Relocated(m, c, vars, record)
<1>1. /\ "il" \in DOMAIN c /\ IsSeq(c.il) /\ IsSeq(c.ast.vocab) /\ N >= 2
      /\ \A i \in DOMAIN c.il : /\ c.il[i][1] # "evalcleanup"
                                /\ Tag(c.il[i][2]) = "var" => Held(c.il[i][2]) \in DOMAIN c.ast.vocab
  BY DEF LoadableText, PlainCode, IsSeq
<1>2. N \in Nat /\ DOMAIN c.il = 1..N /\ DOMAIN c.ast.vocab = 1..Len(c.ast.vocab)
  BY <1>1, SeqFacts
<1>3. il = [i \in DOMAIN c.il |-> <<c.il[i][1], Address(c.il[i][2])>>]
  BY <1>1 DEF Resolve
<1>4. code = [i \in DOMAIN il |-> IF i = 2 THEN <<"evalcleanup", record>> ELSE <<il[i][1], Operand(il[i][2])>>]
  BY DEF Relocated
<1> HIDE DEF il, code, N
<1>5. DOMAIN il = 1..N /\ \A i \in 1..N : il[i] = <<c.il[i][1], Address(c.il[i][2])>>
  BY <1>2, <1>3
<1>6. code = [i \in 1..N |-> IF i = 2 THEN <<"evalcleanup", record>> ELSE <<il[i][1], Operand(il[i][2])>>]
  BY <1>4, <1>5
<1>7. /\ DOMAIN code = 1..N
      /\ \A i \in 1..N : code[i] = IF i = 2 THEN <<"evalcleanup", record>> ELSE <<il[i][1], Operand(il[i][2])>>
  BY <1>6
<1>8. IsSeq(code) /\ Len(code) = N
  <2>1. \A i \in 1..N : code[i] \in Range(code)
    BY <1>7 DEF Range
  <2>2. code \in [1..N -> Range(code)]
    BY <2>1, <1>6, <1>7
  <2>3. code \in Seq(Range(code))
    BY <2>2, <1>2
  <2> QED  BY <2>3, <1>2, <1>7 DEF IsSeq
<1>9. ASSUME NEW i \in 1..N, i # 2
      PROVE  code[i][1] # "evalcleanup" /\ (Tag(code[i][2]) = "var" => Held(code[i][2]) \in 1..k)
  <2> DEFINE u == c.il[i][2]
             w == Address(u)
  <2>1. il[i][1] = c.il[i][1] /\ il[i][2] = w
    BY <1>5
  <2>2. code[i][1] = c.il[i][1] /\ code[i][2] = Operand(w)
    BY <2>1, <1>7, <1>9
  <2>3. code[i][1] # "evalcleanup"
    BY <2>2, <1>1, <1>2
  <2>4. Tag(u) = "var" => Held(u) \in DOMAIN vars
    BY <1>1, <1>2
  <2>5. Tag(w) = "var" => w = u /\ Tag(u) = "var"
    BY DEF Tag
  <2> HIDE DEF w, u, Address
  <2>6. CASE Tag(w) = "var"
    <3>1. Held(w) \in DOMAIN vars
      BY <2>4, <2>5, <2>6
    <3>2. vars[Held(w)] \in 1..k
      BY <3>1
    <3>3. code[i][2] = Var(vars[Held(w)])
      BY <2>2, <2>6
    <3> QED  BY <2>3, <3>2, <3>3 DEF Var, Held
  <2>7. CASE Tag(w) # "var"
    <3>1. code[i][2] = CopiedValue(m, c, w)
      BY <2>2, <2>7
    <3>2. Tag(CopiedValue(m, c, w)) # "var"
      BY <2>7 DEF CopiedValue, Handle, Tag
    <3> QED  BY <2>3, <3>1, <3>2
  <2> QED  BY <2>6, <2>7
<1>10. code[2] = <<"evalcleanup", record>>
  BY <1>1, <1>2, <1>7 DEF N
<1>11. NamesOnly(code, Len(code), k)
  BY <1>8, <1>9, <1>10 DEF NamesOnly, Tag
<1>12. N >= 2
  BY <1>1 DEF N
<1> QED  BY <1>8, <1>9, <1>10, <1>11, <1>12 DEF IsTextCode, code

----------------------------------------------------------------------------
(* One evaluated text *)

\* What EvalText is made of.
NamesFor(m, c)  == MapVars(DropOps(m, 1), c.ast)
CopiedFor(m, c) == CopyObjects(NamesFor(m, c).m, c)
CodeFor(m, c)   == Relocated(NamesFor(m, c).m, c, NamesFor(m, c).of, Handle(CopiedFor(m, c).next))
WithText(m, c)  ==
    Goto([AddObject(CopiedFor(m, c), CleanupRecord(DropOps(m, 1))) EXCEPT !.il = @ \o CodeFor(m, c)], Len(m.il))

LEMMA EvalTextAppends ==
  ASSUME NEW m, Good(m), CodeInv(m), TopsKnown(m), NEW c, c.ok, LoadableText(c), NamesFor(m, c).ok
  PROVE  /\ Good(WithText(m, c)) /\ Appends(m, WithText(m, c), CodeFor(m, c), CopiedFor(m, c).next)
         /\ WithText(m, c).vartop = m.vartop
         /\ \A h \in DOMAIN m.heap : /\ h \in DOMAIN WithText(m, c).heap
                                    /\ WithText(m, c).heap[h] = m.heap[h]
         /\ \A h \in DOMAIN WithText(m, c).heap \ DOMAIN m.heap : h >= m.next
<1> DEFINE names  == NamesFor(m, c)
           copied == CopiedFor(m, c)
           code   == CodeFor(m, c)
           n      == WithText(m, c)
<1>1. names = MapVars(DropOps(m, 1), c.ast) /\ names.ok
  BY DEF NamesFor
<1>2. copied = CopyObjects(names.m, c)
  BY DEF CopiedFor
<1>3. code = Relocated(names.m, c, names.of, Handle(copied.next))
  BY DEF CodeFor
<1>4. n = Goto([AddObject(copied, CleanupRecord(DropOps(m, 1))) EXCEPT !.il = @ \o code], Len(m.il))
  BY DEF WithText
<1> HIDE DEF names, copied, code, n
<1> DEFINE caller == DropOps(m, 1)
           record == CleanupRecord(caller)
           added  == AddObject(copied, record)
           put    == [added EXCEPT !.il = @ \o code]
<1>5. Good(caller) /\ SameData(m, caller)
  BY DropOpsMoves DEF Moves
<1>6. record = [type |-> "EVAL_RECORD", ret |-> caller.pc + 1, ops |-> Len(caller.ops), il |-> Len(m.il), vocab |-> Len(m.vocab)]
  BY <1>5 DEF CleanupRecord, SameData, SameCode
<1>7. /\ DOMAIN record = RecordFields /\ record.type = "EVAL_RECORD"
      /\ record.il = Len(m.il) /\ record.vocab = Len(m.vocab)
  BY <1>6 DEF RecordFields
<1> HIDE DEF caller, record
<1>8. IsSeq(c.ast.vocab)
  BY DEF LoadableText, IsSeq
<1>9. NamesMapped(caller, Len(c.ast.vocab), names)
  <2>1. MachineFields \subseteq DOMAIN caller /\ Begins(caller.loaded.vocab, caller.vocab) /\ TopsKnown(caller)
    BY <1>5 DEF SameData, SameCode, CodeInv, TopsKnown
  <2> QED  BY <2>1, <1>8, <1>1, MapVarsMaps DEF caller
<1>10. /\ AddsNames(caller, names.m)
      /\ names.of \in Seq(1..Len(names.m.vocab)) /\ Len(names.of) = Len(c.ast.vocab)
  BY <1>9, <1>1 DEF NamesMapped
<1>11. Good(names.m)
  BY <1>5, <1>10 DEF Good, AddsNames
<1>12. Moves(names.m, copied) /\ \A h \in DOMAIN names.m.heap : copied.heap[h] = names.m.heap[h]
  BY <1>11, <1>2, CopyObjectsMoves
<1>13. /\ Good(copied) /\ copied.il = m.il /\ copied.loaded = m.loaded /\ copied.vartop = m.vartop
      /\ Begins(m.vocab, copied.vocab) /\ copied.vocab = names.m.vocab /\ copied.next \in Nat /\ copied.next >= m.next
      /\ MachineFields \subseteq DOMAIN copied
  BY <1>5, <1>10, <1>12 DEF Moves, Kept, SameCode, AddsNames, SameData, Good
<1>14. ObjectOk(copied.heap, copied.next, record)
  BY <1>7 DEF ObjectOk, RecordFields
<1>15. /\ Good(added) /\ SameCode(copied, added)
       /\ \A h \in DOMAIN copied.heap : h \in DOMAIN added.heap /\ added.heap[h] = copied.heap[h]
       /\ DOMAIN added.heap = DOMAIN copied.heap \cup {copied.next}
       /\ added.heap[copied.next] = record
  BY <1>13, <1>14, AddObjectFacts
<1> HIDE DEF added
<1>16. /\ MachineFields \subseteq DOMAIN put /\ put.il = m.il \o code /\ put.loaded = m.loaded
       /\ put.vartop = m.vartop /\ put.vocab = names.m.vocab
       /\ put.heap = added.heap /\ put.next = added.next /\ put.cur = added.cur /\ put.fs = added.fs
  BY <1>13, <1>15 DEF SameCode, MachineFields
<1> HIDE DEF put
<1>17. Good(put)
  BY <1>15, <1>16 DEF Good
<1>18. n = Goto(put, Len(m.il))
  BY <1>4 DEF put, added, record, caller
<1>19. Good(n) /\ SameData(put, n)
  BY <1>17, <1>18, GotoMoves DEF Moves
<1>20. /\ n.il = m.il \o code /\ n.loaded = m.loaded /\ n.vartop = m.vartop
       /\ n.vocab = names.m.vocab /\ n.heap = added.heap
  BY <1>16, <1>19 DEF SameData, SameCode
<1>21. Len(names.m.vocab) \in Nat
  BY <1>10, SeqFacts DEF AddsNames, Begins
<1>22. Tag(Handle(copied.next)) # "var"
  BY DEF Tag, Handle
<1>23. IsTextCode(code, Handle(copied.next), Len(n.vocab))
  <2> DEFINE k == Len(names.m.vocab)
             vars == names.of
             R == Handle(copied.next)
  <2>1. vars \in Seq(1..k) /\ k \in Nat /\ Len(vars) = Len(c.ast.vocab) /\ Len(n.vocab) = k /\ Tag(R) # "var"
    BY <1>10, <1>20, <1>21, <1>22
  <2> HIDE DEF vars, k, R
  <2>2. IsTextCode(Relocated(names.m, c, vars, R), R, k)
    BY <2>1, RelocatedFacts
  <2> QED  BY <2>1, <2>2, <1>3 DEF vars, R
<1>24. \A h \in DOMAIN m.heap : h \in DOMAIN n.heap /\ n.heap[h] = m.heap[h]
  <2> SUFFICES ASSUME NEW h \in DOMAIN m.heap
               PROVE  h \in DOMAIN n.heap /\ n.heap[h] = m.heap[h]
    OBVIOUS
  <2>1. h \in DOMAIN names.m.heap /\ names.m.heap[h] = m.heap[h]
    BY <1>5, <1>10 DEF SameData, AddsNames
  <2>2. h \in DOMAIN copied.heap /\ copied.heap[h] = m.heap[h]
    BY <2>1, <1>12 DEF Moves, Kept
  <2> QED  BY <2>2, <1>15, <1>20
<1>25. \A h \in DOMAIN n.heap \ DOMAIN m.heap : h >= m.next
  <2> SUFFICES ASSUME NEW h \in DOMAIN n.heap \ DOMAIN m.heap
               PROVE  h >= m.next
    OBVIOUS
  <2>1. names.m.heap = m.heap /\ names.m.next = m.next
    BY <1>5, <1>10 DEF SameData, AddsNames
  <2>2. h \in DOMAIN copied.heap \/ h = copied.next
    BY <1>15, <1>20
  <2>3. CASE h \in DOMAIN copied.heap
    BY <2>1, <2>3, <1>12 DEF Moves, Kept
  <2>4. CASE h = copied.next
    BY <2>4, <1>13
  <2> QED  BY <2>2, <2>3, <2>4
<1>26. /\ copied.next \in DOMAIN n.heap /\ n.heap[copied.next] = record
       /\ Begins(m.vocab, n.vocab)
  BY <1>13, <1>15, <1>20
<1>27. Appends(m, n, code, copied.next)
  BY <1>7, <1>20, <1>23, <1>24, <1>26 DEF Appends, IsTextCode
<1> QED  BY <1>19, <1>20, <1>24, <1>25, <1>27 DEF n, code, copied

\* What a step does to the objects: those of the start stay what they are, but for
\* records, which may go, and new ones get handles that no object had.
ObjectsStay(m, n) ==
    /\ n.loaded = m.loaded
    /\ \A h \in DOMAIN m.heap :
          IF h \in DOMAIN n.heap THEN SameObject(m.heap[h], n.heap[h]) ELSE m.heap[h].type = "EVAL_RECORD"
    /\ \A h \in DOMAIN n.heap \ DOMAIN m.heap : h >= m.next

LEMMA MovesKeep ==
  ASSUME NEW m, CodeInv(m), TopsKnown(m), NEW n, Moves(m, n)
  PROVE  Good(n) /\ CodeInv(n) /\ TopsKnown(n) /\ ObjectsStay(m, n)
<1>1. CodeInv(n)
  BY KeptCode DEF Moves
<1>2. TopsKnown(n)
  BY DEF TopsKnown, Moves, Kept, SameCode
<1>3. ObjectsStay(m, n)
  BY DEF ObjectsStay, Moves, Kept, SameCode
<1> QED  BY <1>1, <1>2, <1>3 DEF Moves

LEMMA EvalTextKeeps ==
  ASSUME NEW m, Good(m), CodeInv(m), TopsKnown(m), NEW texts, \A text \in DOMAIN texts : LoadableText(texts[text])
  PROVE  LET n == EvalText(m, texts) IN Good(n) /\ CodeInv(n) /\ TopsKnown(n) /\ ObjectsStay(m, n)
<1> DEFINE text  == Object(m, Arg(m)).ch[1]
           c     == texts[text]
           given == IsType(m, Arg(m), "STRING") /\ text \in DOMAIN texts /\ c.ok
           n     == WithText(m, c)
<1>1. \/ \E why : EvalText(m, texts) = Fault(m, why)
      \/ given /\ NamesFor(m, c).ok /\ EvalText(m, texts) = n
  BY DEF EvalText, WithText, CodeFor, CopiedFor, NamesFor
<1>2. ASSUME NEW why
      PROVE  LET k == Fault(m, why) IN Good(k) /\ CodeInv(k) /\ TopsKnown(k) /\ ObjectsStay(m, k)
  BY FaultMoves, MovesKeep
<1>3. ASSUME given, NamesFor(m, c).ok
      PROVE  Good(n) /\ CodeInv(n) /\ TopsKnown(n) /\ ObjectsStay(m, n)
  <2>1. c.ok /\ LoadableText(c)
    BY <1>3
  <2> HIDE DEF c
  <2>2. /\ Good(n) /\ Appends(m, n, CodeFor(m, c), CopiedFor(m, c).next) /\ n.vartop = m.vartop
        /\ \A h \in DOMAIN m.heap : h \in DOMAIN n.heap /\ n.heap[h] = m.heap[h]
        /\ \A h \in DOMAIN n.heap \ DOMAIN m.heap : h >= m.next
    BY <1>3, <2>1, EvalTextAppends
  <2> HIDE DEF n
  <2>3. CodeInv(n)
    BY <2>2, AppendKeepsCodeInv
  <2>4. TopsKnown(n)
    BY <2>2 DEF TopsKnown, Appends
  <2>5. ObjectsStay(m, n)
    BY <2>2, SameIsSame DEF ObjectsStay, Appends
  <2> QED  BY <2>2, <2>3, <2>4, <2>5
<1> HIDE DEF given, n
<1> QED  BY <1>1, <1>2, <1>3

----------------------------------------------------------------------------
(* The run *)

LEMMA ExecuteKeeps ==
  ASSUME NEW m, Good(m), CodeInv(m), TopsKnown(m)
  PROVE  LET n == Execute(m) IN Good(n) /\ CodeInv(n) /\ TopsKnown(n) /\ ObjectsStay(m, n)
<1> DEFINE n == Execute(m)
<1>1. CASE ~(HasNext(m) /\ NextOp(m) = "evalcleanup")
  <2>1. Moves(m, n)
    BY <1>1, ExecuteMoves
  <2> HIDE DEF n
  <2>2. Good(n) /\ CodeInv(n) /\ TopsKnown(n) /\ ObjectsStay(m, n)
    BY <2>1, MovesKeep
  <2> QED  BY <2>2 DEF n
<1>2. CASE HasNext(m) /\ NextOp(m) = "evalcleanup"
  <2> DEFINE i == m.pc + 1
             v == m.il[i][2]
             k == Held(v)
             r == m.heap[k]
  <2>1. m.pc \in 0..(Len(m.il) - 1) /\ m.il[i][1] = "evalcleanup"
    BY <1>2 DEF HasNext, NextOp
  <2>2. n = OpEvalCleanup(m, v)
    BY <2>1 DEF Execute
  <2>3. Len(m.il) \in Nat
    BY SeqFacts DEF CodeInv, Begins
  <2>4. i \in 1..Len(m.il)
    BY <2>1, <2>3
  <2>5. IsCleanup(m, i)
    BY <2>1 DEF IsCleanup
  <2> HIDE DEF n, i
  <2>6. RecordFits(m, i)
    BY <2>4, <2>5 DEF CodeInv
  <2>7. IsType(m, v, "EVAL_RECORD") /\ r = RecordOf(m, i)
    BY <2>6 DEF RecordFits, HasRecord, RecordOf
  <2>8. k \in DOMAIN m.heap /\ m.heap[k].type = "EVAL_RECORD"
    BY <2>7 DEF IsType, HasObject, Object
  <2>9. CleansUp(m, n, r, k)
    BY <2>2, <2>7, CleanupCleansUp
  <2>10. Good(n)
    BY <2>8, <2>9, CleanupIsGood
  <2>11. CodeInv(n)
    BY <2>4, <2>5, <2>7, <2>9, CleanupKeepsCodeInv
  <2>12. TopsKnown(n)
    BY <2>9 DEF TopsKnown, CleansUp
  <2>13. ObjectsStay(m, n)
    BY <2>8, <2>9, SameIsSame DEF ObjectsStay, CleansUp
  <2> QED  BY <2>10, <2>11, <2>12, <2>13 DEF n
<1> QED  BY <1>1, <1>2

LEMMA BeginsGood ==
  ASSUME NEW il, NEW heap, NEW next, NEW a, LoadableMachine(il, heap, next, a)
  PROVE  LET m == NewMachine(il, heap, next, a) IN Good(m) /\ CodeInv(m) /\ TopsKnown(m)
<1> DEFINE m == NewMachine(il, heap, next, a)
<1>1. /\ IsSeq(il) /\ IsSeq(a.vocab) /\ PlainCode(il, a.vocab)
      /\ a.vartop \in Seq(DOMAIN a.vocab) /\ next \in Nat \ {0}
      /\ \A h \in DOMAIN heap : h \in 1..(next - 1) /\ IsNode(heap[h])
  BY DEF LoadableMachine, IsSeq
<1>2. /\ MachineFields \subseteq DOMAIN m /\ m.il = il /\ m.vocab = a.vocab /\ m.vartop = a.vartop
      /\ m.loaded.il = il /\ m.loaded.vocab = a.vocab
      /\ m.next = next /\ m.heap = heap /\ m.cur = NullHandle /\ m.fs = <<>>
  BY DEF NewMachine, MachineFields
<1> HIDE DEF m
<1>3. DOMAIN il = 1..Len(il) /\ DOMAIN a.vocab = 1..Len(a.vocab) /\ Len(il) \in Nat /\ Len(a.vocab) \in Nat
  BY <1>1, SeqFacts
<1>4. \A h \in DOMAIN heap : ObjectOk(heap, h, heap[h])
  BY <1>1 DEF IsNode, ObjectOk, ListTypes
<1>5. IsCaller(m.heap, m.cur) /\ Frames(m.heap, m.fs)
  BY <1>2 DEF IsCaller, Frames, IsSeq
<1>6. Good(m)
  BY <1>1, <1>2, <1>4, <1>5 DEF Good
<1>7. \A i \in 1..Len(il) : ~IsCleanup(m, i)
  BY <1>1, <1>2, <1>3 DEF PlainCode, IsCleanup
<1>8. NamesOnly(il, Len(il), Len(a.vocab))
  BY <1>1, <1>3 DEF PlainCode, NamesOnly
<1>9. Begins(il, il) /\ Begins(a.vocab, a.vocab)
  BY <1>1, BeginsItself
<1>10. CodeInv(m)
  BY <1>2, <1>3, <1>7, <1>8, <1>9 DEF CodeInv
<1>11. TopsKnown(m)
  BY <1>1, <1>2, <1>3 DEF TopsKnown
<1> QED  BY <1>6, <1>10, <1>11 DEF m

\* The invariant is that of the machine, whatever has stopped it.
LEMMA StepKeeps ==
  ASSUME NEW texts, \A text \in DOMAIN texts : LoadableText(texts[text]),
         IInv, Run \/ EvaluateText(texts)
  PROVE  IInv' /\ ObjectsStay(work, work')
<1>1. CASE Run
  <2>1. work' = Execute(work)
    BY <1>1 DEF Run
  <2>2. LET n == Execute(work) IN Good(n) /\ CodeInv(n) /\ TopsKnown(n) /\ ObjectsStay(work, n)
    BY ExecuteKeeps DEF IInv
  <2> QED  BY <2>1, <2>2 DEF IInv
<1>2. CASE EvaluateText(texts)
  <2>1. work' = EvalText(work, texts)
    BY <1>2 DEF EvaluateText
  <2>2. LET n == EvalText(work, texts) IN Good(n) /\ CodeInv(n) /\ TopsKnown(n) /\ ObjectsStay(work, n)
    BY EvalTextKeeps DEF IInv
  <2> QED  BY <2>1, <2>2 DEF IInv
<1> QED  BY <1>1, <1>2

\* A part of a sequence that is all of it.
LEMMA BeginsIsPrefix ==
  ASSUME NEW s, NEW t, Begins(s, t)
  PROVE  IsPrefix(s, t) /\ (Len(t) = Len(s) => t = s)
<1>1. IsSeq(s) /\ IsSeq(t) /\ Len(s) <= Len(t) /\ \A i \in 1..Len(s) : t[i] = s[i]
  BY DEF Begins
<1>2. Len(s) \in Nat /\ Len(t) \in Nat /\ DOMAIN s = 1..Len(s) /\ DOMAIN t = 1..Len(t)
  BY <1>1, SeqFacts
<1> DEFINE p == SubSeq(s, 1, Len(s))
           q == SubSeq(t, 1, Len(s))
<1>3. IsSeq(p) /\ Len(p) = Len(s) /\ \A i \in 1..Len(s) : p[i] = s[i]
  BY <1>1, <1>2, InitialIsSeq
<1>4. IsSeq(q) /\ Len(q) = Len(s) /\ \A i \in 1..Len(s) : q[i] = t[i]
  BY <1>1, <1>2, InitialIsSeq
<1>5. \A u, w : IsSeq(u) /\ IsSeq(w) /\ Len(u) = Len(w) /\ (\A i \in 1..Len(u) : u[i] = w[i]) => u = w
  <2> SUFFICES ASSUME NEW u, NEW w, IsSeq(u), IsSeq(w), Len(u) = Len(w), \A i \in 1..Len(u) : u[i] = w[i]
               PROVE  u = w
    OBVIOUS
  <2> DEFINE S == Range(u) \cup Range(w)
  <2>1. u \in Seq(Range(u)) /\ w \in Seq(Range(w))
    BY DEF IsSeq
  <2>2. u \in Seq(S) /\ w \in Seq(S)
    BY <2>1
  <2> HIDE DEF S
  <2> QED  BY <2>2, SeqEqual
<1> HIDE DEF p, q
<1>6. p = q
  BY <1>1, <1>3, <1>4, <1>5
<1>7. Len(t) = Len(s) => t = s
  BY <1>1, <1>5
<1> QED  BY <1>1, <1>6, <1>7 DEF IsPrefix, p, q

LEMMA FitsIsTakenOut ==
  ASSUME IInv
  PROVE  EvaluatedCodeIsTakenOut
<1> DEFINE own == work.loaded
<1>1. CodeInv(work)
  BY DEF IInv
<1>2. Begins(own.il, work.il) /\ Begins(own.vocab, work.vocab) /\ NamesOnly(work.il, Len(work.il), Len(work.vocab))
  BY <1>1 DEF CodeInv
<1>3. /\ Len(own.il) \in Nat /\ Len(work.il) \in Nat /\ Len(own.il) <= Len(work.il)
      /\ DOMAIN work.il = 1..Len(work.il) /\ DOMAIN work.vocab = 1..Len(work.vocab)
  BY <1>2, SeqFacts DEF Begins
<1>4. ASSUME NEW i \in DOMAIN work.il
      PROVE  /\ Tag(work.il[i][2]) = "var" => Held(work.il[i][2]) \in DOMAIN work.vocab
             /\ work.il[i][1] = "evalcleanup" => Held(work.il[i][2]) \in EvalRecords
  <2>1. Tag(work.il[i][2]) = "var" => Held(work.il[i][2]) \in DOMAIN work.vocab
    BY <1>2, <1>3 DEF NamesOnly
  <2>2. ASSUME work.il[i][1] = "evalcleanup"
        PROVE  Held(work.il[i][2]) \in EvalRecords
    <3>1. RecordFits(work, i)
      BY <2>2, <1>1, <1>3 DEF CodeInv, IsCleanup
    <3> QED  BY <3>1 DEF RecordFits, HasRecord, IsType, HasObject, Object, EvalRecords
  <2> QED  BY <2>1, <2>2
<1>5. ASSUME EvalRecords = {}
      PROVE  work.il = own.il /\ work.vocab = own.vocab
  <2>1. Len(work.il) = Len(own.il)
    <3>1. SUFFICES ASSUME Len(work.il) > Len(own.il) PROVE FALSE
      BY <1>3
    <3>2. Len(own.il) + 2 \in DOMAIN work.il /\ IsCleanup(work, Len(own.il) + 2)
      BY <3>1, <1>1, <1>3 DEF CodeInv
    <3> QED  BY <3>2, <1>4, <1>5 DEF IsCleanup
  <2>2. Len(work.vocab) = Len(own.vocab)
    BY <2>1, <1>1 DEF CodeInv
  <2> QED  BY <2>1, <2>2, <1>2, BeginsIsPrefix
<1>6. IsPrefix(own.il, work.il) /\ IsPrefix(own.vocab, work.vocab)
  BY <1>2, BeginsIsPrefix
<1> QED  BY <1>4, <1>5, <1>6 DEF EvaluatedCodeIsTakenOut

\* The pieces of code behind that of the program, their records and the names they
\* use fit together; a closure is younger than its parent; every frame and every
\* continuation leads to a closure; the top variables are the program's.
THEOREM ExecutionFits ==
  ASSUME NEW il, NEW heap, NEW next, NEW a, LoadableMachine(il, heap, next, a),
         NEW texts, \A text \in DOMAIN texts : LoadableText(texts[text])
  PROVE  Runs(NewMachine(il, heap, next, a), texts) => []IInv
<1> DEFINE m == NewMachine(il, heap, next, a)
<1>1. work = m => IInv
  BY BeginsGood DEF IInv
<1>2. IInv /\ [Run \/ EvaluateText(texts)]_<<stage, work>> => IInv'
  <2> SUFFICES ASSUME IInv, [Run \/ EvaluateText(texts)]_<<stage, work>> PROVE IInv'
    OBVIOUS
  <2>1. CASE Run \/ EvaluateText(texts)
    BY <2>1, StepKeeps
  <2>2. CASE UNCHANGED <<stage, work>>
    BY <2>2 DEF IInv
  <2> QED  BY <2>1, <2>2
<1> HIDE DEF m
<1>3. Runs(m, texts) => []IInv
  BY <1>1, <1>2, PTL DEF Runs
<1> QED  BY <1>3 DEF m

\* Evaluated code is taken out of a process without a trace, for every program, every
\* set of texts, and however the program jumps (native_System.c, am_native_System_eval;
\* runtime.c, am_vm_execute for the clean-up).
THEOREM EvaluatedCodeIsTakenOutHolds ==
  ASSUME NEW il, NEW heap, NEW next, NEW a, LoadableMachine(il, heap, next, a),
         NEW texts, \A text \in DOMAIN texts : LoadableText(texts[text])
  PROVE  Runs(NewMachine(il, heap, next, a), texts) => []EvaluatedCodeIsTakenOut
<1> DEFINE m == NewMachine(il, heap, next, a)
<1>1. Runs(m, texts) => []IInv
  BY ExecutionFits
<1> HIDE DEF m
<1>2. IInv => EvaluatedCodeIsTakenOut
  BY FitsIsTakenOut
<1>3. Runs(m, texts) => []EvaluatedCodeIsTakenOut
  BY <1>1, <1>2, PTL
<1> QED  BY <1>3 DEF m

\* No step changes what an object is: the kind of it, the code and the parent of a
\* closure, and all of a string, a continuation or a record stay; only records are
\* taken away, and no handle is given a second time (runtime.c, the instructions).
THEOREM ObjectsStayHolds ==
  ASSUME NEW il, NEW heap, NEW next, NEW a, LoadableMachine(il, heap, next, a),
         NEW texts, \A text \in DOMAIN texts : LoadableText(texts[text])
  PROVE  Runs(NewMachine(il, heap, next, a), texts) => [][ObjectsStay(work, work')]_<<stage, work>>
<1> DEFINE m == NewMachine(il, heap, next, a)
<1>1. Runs(m, texts) => []IInv
  BY ExecutionFits
<1> HIDE DEF m
<1>2. IInv /\ [Run \/ EvaluateText(texts)]_<<stage, work>> => [ObjectsStay(work, work')]_<<stage, work>>
  BY StepKeeps
<1>3. Runs(m, texts) => [][ObjectsStay(work, work')]_<<stage, work>>
  BY <1>1, <1>2, PTL DEF Runs
<1> QED  BY <1>3 DEF m

\* The look-up of a variable always ends, and by lexical scope: although it follows the
\* parents of closures until there is none, with no bound of its own (process.c, 633-669,
\* am_process_dereference).  What is bound is the value of Dereference in Machine.
THEOREM LookUpIsLexicalHolds ==
  ASSUME NEW il, NEW heap, NEW next, NEW a, LoadableMachine(il, heap, next, a),
         NEW texts, \A text \in DOMAIN texts : LoadableText(texts[text])
  PROVE  Runs(NewMachine(il, heap, next, a), texts) => []LookUpIsLexical(work)
<1> DEFINE m == NewMachine(il, heap, next, a)
<1>1. Runs(m, texts) => []IInv
  BY ExecutionFits
<1> HIDE DEF m
<1>2. IInv => LookUpIsLexical(work)
  BY LookUpEnds DEF IInv
<1>3. Runs(m, texts) => []LookUpIsLexical(work)
  BY <1>1, <1>2, PTL
<1> QED  BY <1>3 DEF m

=============================================================================

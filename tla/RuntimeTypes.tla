---------------------------- MODULE RuntimeTypes ----------------------------
(***************************************************************************)
(* Type correctness of module Runtime, for every number of processes,      *)
(* queues and timers and every set of inputs.  It is not inductive alone:  *)
(* FireStopped queues the pid of the timer it visits, so a timer still to  *)
(* be visited must be set, which holds because only the current process    *)
(* clears or kills, and none executes outside the ticks (LoopInv).         *)
(***************************************************************************)
EXTENDS Runtime, FiniteSetTheorems, SequenceTheorems, TLAPS

-----------------------------------------------------------------------------
(* The lists of RuntimeState: what Compact, Append, Tail and an insertion at the head keep *)

\* The write index of kept entries is a bijection to 1 .. Cardinality(keep):
\* the compaction loops of runtime.c move every kept entry to a place of its
\* own and leave no place empty.
LEMMA WriteIndex ==
    ASSUME NEW n \in Nat, NEW keep \in SUBSET (1 .. n)
    PROVE  LET write(i) == Cardinality({j \in keep : j <= i}) IN
           /\ IsFiniteSet(keep)
           /\ Cardinality(keep) \in Nat
           /\ \A i \in keep : write(i) \in 1 .. Cardinality(keep)
           /\ \A i, j \in keep : write(i) = write(j) => i = j
           /\ \A k \in 1 .. Cardinality(keep) : \E i \in keep : write(i) = k
<1> DEFINE upto(i) == {j \in keep : j <= i}
           write(i) == Cardinality(upto(i))
           N == Cardinality(keep)
<1>0. \A k \in keep : k \in Int
  OBVIOUS
<1>1. IsFiniteSet(keep) /\ N \in Nat
  <2>1. IsFiniteSet(1 .. n)
    BY FS_Interval
  <2> QED
    BY <2>1, FS_Subset, FS_CardinalityType
<1>2. \A i \in keep : /\ IsFiniteSet(upto(i))
                      /\ write(i) \in Nat
                      /\ write(i) <= N
  <2> SUFFICES ASSUME NEW i \in keep
               PROVE  IsFiniteSet(upto(i)) /\ write(i) \in Nat /\ write(i) <= N
    OBVIOUS
  <2>1. upto(i) \in SUBSET keep
    OBVIOUS
  <2>2. IsFiniteSet(upto(i)) /\ write(i) <= N
    BY <2>1, <1>1, FS_Subset
  <2>3. write(i) \in Nat
    BY <2>2, FS_CardinalityType
  <2> QED
    BY <2>2, <2>3
<1>3. \A i \in keep : write(i) # 0
  <2> SUFFICES ASSUME NEW i \in keep, write(i) = 0
               PROVE  FALSE
    OBVIOUS
  <2>1. upto(i) = {}
    BY <1>2, FS_EmptySet
  <2>2. i \in upto(i)
    BY <1>0
  <2> QED
    BY <2>1, <2>2
<1>4. \A i, j \in keep : i < j => write(i) # write(j)
  <2> SUFFICES ASSUME NEW i \in keep, NEW j \in keep, i < j, write(i) = write(j)
               PROVE  FALSE
    OBVIOUS
  <2>1. upto(i) \in SUBSET upto(j)
    <3> SUFFICES ASSUME NEW k \in keep, k <= i
                 PROVE  k <= j
      OBVIOUS
    <3> QED
      BY <1>0
  <2>2. upto(i) = upto(j)
    BY <2>1, <1>2, FS_Subset
  <2>3. j \in upto(j) /\ j \notin upto(i)
    BY <1>0
  <2> QED
    BY <2>2, <2>3
<1>5. \A i, j \in keep : write(i) = write(j) => i = j
  BY <1>4
<1>6. \A i \in keep : write(i) \in 1 .. N
  BY <1>1, <1>2, <1>3
<1>7. \A k \in 1 .. N : \E i \in keep : write(i) = k
  <2> DEFINE f == [i \in keep |-> write(i)]
  <2> HIDE DEF N, upto
  <2>1. f \in Injection(keep, 1 .. N)
    BY <1>5, <1>6 DEF Injection, IsInjective
  <2>2. IsFiniteSet(1 .. N) /\ Cardinality(1 .. N) = N
    BY <1>1, FS_Interval
  <2>3. f \in Surjection(keep, 1 .. N)
    <3>1. Cardinality(keep) = Cardinality(1 .. N)
      BY <2>2 DEF N
    <3> QED
      BY <2>1, <2>2, <3>1, FS_Injection
  <2> QED
    BY <2>3 DEF Surjection
<1> QED
  BY <1>1, <1>5, <1>6, <1>7

\* Compact keeps the entries it is told to keep, each once, and no others.
LEMMA CompactProps ==
    ASSUME NEW S, NEW s \in Seq(S), NEW keep \in SUBSET DOMAIN s
    PROVE  LET c == Compact(s, keep) IN
           /\ c \in Seq(S)
           /\ \E f \in [DOMAIN c -> keep] :
                /\ \A k \in DOMAIN c : c[k] = s[f[k]]
                /\ \A k, l \in DOMAIN c : f[k] = f[l] => k = l
                /\ \A i \in keep : \E k \in DOMAIN c : f[k] = i
<1> DEFINE write(i) == Cardinality({j \in keep : j <= i})
           N == Cardinality(keep)
           f == [k \in 1 .. N |-> CHOOSE i \in keep : write(i) = k]
           c == Compact(s, keep)
<1>1. Len(s) \in Nat /\ keep \in SUBSET (1 .. Len(s))
  BY LenProperties
<1>2. /\ N \in Nat
      /\ \A i \in keep : write(i) \in 1 .. N
      /\ \A i, j \in keep : write(i) = write(j) => i = j
      /\ \A k \in 1 .. N : \E i \in keep : write(i) = k
  BY <1>1, WriteIndex
<1> HIDE DEF N, write
<1>3. f \in [1 .. N -> keep] /\ \A k \in 1 .. N : write(f[k]) = k
  BY <1>2
<1>4. c = [k \in 1 .. N |-> s[f[k]]]
  BY DEF Compact, N, write
<1>5. DOMAIN c = 1 .. N
  BY <1>4
<1>6. c \in Seq(S)
  <2>1. \A k \in 1 .. N : s[f[k]] \in S
    BY <1>1, <1>3, ElementOfSeq
  <2> QED
    BY <1>2, <1>4, <2>1, IsASeq
<1>7. \A k, l \in DOMAIN c : f[k] = f[l] => k = l
  BY <1>3, <1>5
<1>8. \A i \in keep : \E k \in DOMAIN c : f[k] = i
  BY <1>2, <1>3, <1>5
<1> HIDE DEF c, f
<1> QED
  BY <1>3, <1>4, <1>5, <1>6, <1>7, <1>8 DEF c

-----------------------------------------------------------------------------
(* The run queue *)

\* Appending a pid that is not queued queues it once, at the end.
LEMMA AppendPid ==
    ASSUME NEW S, NEW s \in Seq(S), NEW x \in S
    PROVE  /\ Append(s, x) \in Seq(S)
           /\ Range(Append(s, x)) = Range(s) \cup {x}
           /\ IsInjective(s) /\ x \notin Range(s) => IsInjective(Append(s, x))
<1>1. Append(s, x) \in Seq(S)
  BY AppendProperties
<1>2. /\ Len(s) \in Nat
      /\ DOMAIN s = 1 .. Len(s)
      /\ DOMAIN Append(s, x) = 1 .. Len(s) + 1
      /\ \A i \in 1 .. Len(s) : Append(s, x)[i] = s[i]
      /\ Append(s, x)[Len(s) + 1] = x
  BY <1>1, AppendProperties, LenProperties
<1> DEFINE a == Append(s, x)
<1> HIDE DEF a
<1>3. Range(a) = Range(s) \cup {x}
  BY <1>2 DEF Range, a
<1>4. ASSUME IsInjective(s), x \notin Range(s)
      PROVE  IsInjective(a)
  <2> SUFFICES ASSUME NEW i \in DOMAIN a, NEW j \in DOMAIN a, a[i] = a[j]
               PROVE  i = j
    BY DEF IsInjective
  <2>1. CASE i \in 1 .. Len(s) /\ j \in 1 .. Len(s)
    BY <1>2, <1>4, <2>1 DEF IsInjective, a
  <2>2. CASE i = Len(s) + 1 /\ j \in 1 .. Len(s)
    BY <1>2, <1>4, <2>2 DEF Range, a
  <2>3. CASE j = Len(s) + 1 /\ i \in 1 .. Len(s)
    BY <1>2, <1>4, <2>3 DEF Range, a
  <2>4. CASE i = Len(s) + 1 /\ j = Len(s) + 1
    BY <2>4
  <2> QED
    BY <1>2, <2>1, <2>2, <2>3, <2>4 DEF a
<1> QED
  BY <1>1, <1>3, <1>4 DEF a

\* Taking the head off the queue leaves the others, each once.
LEMMA TailPids ==
    ASSUME NEW S, NEW s \in Seq(S), s # <<>>
    PROVE  /\ Head(s) \in S
           /\ Head(s) \in Range(s)
           /\ Tail(s) \in Seq(S)
           /\ IsInjective(s) => /\ IsInjective(Tail(s))
                               /\ Range(Tail(s)) = Range(s) \ {Head(s)}
<1>1. /\ Tail(s) \in Seq(S)
      /\ Len(s) \in Nat \ {0}
      /\ DOMAIN s = 1 .. Len(s)
      /\ DOMAIN Tail(s) = 1 .. Len(s) - 1
      /\ \A i \in 1 .. Len(s) - 1 : Tail(s)[i] = s[i + 1]
      /\ Head(s) = s[1]
  BY HeadTailProperties, LenProperties, EmptySeq
<1> DEFINE t == Tail(s)
<1> HIDE DEF t
<1>2. Head(s) \in S /\ Head(s) \in Range(s)
  BY <1>1, ElementOfSeq DEF Range
<1>3. ASSUME IsInjective(s)
      PROVE  IsInjective(t)
  BY <1>1, <1>3 DEF IsInjective, t
<1>4. ASSUME IsInjective(s)
      PROVE  Range(t) = Range(s) \ {Head(s)}
  <2>1. ASSUME NEW y \in Range(t)
        PROVE  y \in Range(s) \ {Head(s)}
    <3>1. PICK i \in 1 .. Len(s) - 1 : y = s[i + 1]
      BY <1>1, <2>1 DEF Range, t
    <3>2. i + 1 \in DOMAIN s /\ 1 \in DOMAIN s /\ i + 1 # 1
      BY <1>1
    <3> QED
      BY <1>1, <1>4, <3>1, <3>2 DEF IsInjective, Range
  <2>2. ASSUME NEW y \in Range(s) \ {Head(s)}
        PROVE  y \in Range(t)
    <3>1. PICK i \in 1 .. Len(s) : y = s[i]
      BY <1>1, <2>2 DEF Range
    <3>2. i # 1
      BY <1>1, <2>2, <3>1
    <3>3. i - 1 \in 1 .. Len(s) - 1 /\ t[i - 1] = s[i]
      BY <1>1, <3>2 DEF t
    <3> QED
      BY <1>1, <3>1, <3>3 DEF Range, t
  <2> QED
    BY <2>1, <2>2
<1> QED
  BY <1>1, <1>2, <1>3, <1>4 DEF t

\* runtime_process_queue_remove_pid takes out every entry of the pid, and only
\* those.
LEMMA WithoutPidProps ==
    ASSUME NEW S, NEW s \in Seq(S), NEW p
    PROVE  /\ WithoutPid(s, p) \in Seq(S)
           /\ Range(WithoutPid(s, p)) = Range(s) \ {p}
           /\ IsInjective(s) => IsInjective(WithoutPid(s, p))
<1> DEFINE keep == {i \in DOMAIN s : s[i] # p}
           c == Compact(s, keep)
<1>1. /\ c \in Seq(S)
      /\ \E f \in [DOMAIN c -> keep] :
           /\ \A k \in DOMAIN c : c[k] = s[f[k]]
           /\ \A k, l \in DOMAIN c : f[k] = f[l] => k = l
           /\ \A i \in keep : \E k \in DOMAIN c : f[k] = i
  <2>1. keep \in SUBSET DOMAIN s
    OBVIOUS
  <2> HIDE DEF keep
  <2> QED
    BY <2>1, CompactProps
<1>2. PICK f \in [DOMAIN c -> keep] :
           /\ \A k \in DOMAIN c : c[k] = s[f[k]]
           /\ \A k, l \in DOMAIN c : f[k] = f[l] => k = l
           /\ \A i \in keep : \E k \in DOMAIN c : f[k] = i
  BY <1>1
<1>3. WithoutPid(s, p) = c
  BY DEF WithoutPid
<1> HIDE DEF c
<1>4. Range(c) = Range(s) \ {p}
  BY <1>2 DEF Range
<1>5. IsInjective(s) => IsInjective(c)
  BY <1>2 DEF IsInjective
<1> QED
  BY <1>1, <1>3, <1>4, <1>5

-----------------------------------------------------------------------------
(* The waiter lists *)

\* The processes that wait in a list, and that each waits there once.
PidsOf(ws)  == {ws[i].pid : i \in DOMAIN ws}
OneEach(ws) == \A i, j \in DOMAIN ws : ws[i].pid = ws[j].pid => i = j

\* An empty list is one nobody waits in.
LEMMA NobodyWaits ==
    ASSUME NEW S, NEW ws \in Seq(S)
    PROVE  /\ PidsOf(ws) = {} <=> ws = <<>>
           /\ OneEach(<<>>)
           /\ PidsOf(<<>>) = {}
<1>1. ws = <<>> <=> DOMAIN ws = {}
  BY EmptySeq, LenProperties
<1>2. PidsOf(ws) = {} <=> DOMAIN ws = {}
  BY DEF PidsOf
<1>3. OneEach(<<>>) /\ PidsOf(<<>>) = {}
  BY DEF OneEach, PidsOf
<1> QED
  BY <1>1, <1>2, <1>3

\* A call that starts to wait is linked in at the head.
LEMMA PrependWaiter ==
    ASSUME NEW S, NEW ws \in Seq(S), NEW w \in S
    PROVE  /\ <<w>> \o ws \in Seq(S)
           /\ <<w>> \o ws # <<>>
           /\ PidsOf(<<w>> \o ws) = PidsOf(ws) \cup {w.pid}
           /\ OneEach(ws) /\ w.pid \notin PidsOf(ws) => OneEach(<<w>> \o ws)
<1> DEFINE c == <<w>> \o ws
<1>1. /\ c \in Seq(S)
      /\ Len(ws) \in Nat
      /\ DOMAIN ws = 1 .. Len(ws)
      /\ Len(c) = 1 + Len(ws)
      /\ DOMAIN c = 1 .. 1 + Len(ws)
      /\ c[1] = w
      /\ \A i \in 1 .. Len(ws) : c[i + 1] = ws[i]
  <2>1. <<w>> \in Seq(S) /\ Len(<<w>>) = 1 /\ <<w>>[1] = w
    OBVIOUS
  <2>2. c \in Seq(S) /\ Len(ws) \in Nat /\ DOMAIN ws = 1 .. Len(ws) /\ Len(c) = 1 + Len(ws)
    BY <2>1, ConcatProperties, LenProperties
  <2>3. DOMAIN c = 1 .. 1 + Len(ws)
    BY <2>2, LenProperties
  <2>4. \A i \in 1 .. 1 + Len(ws) : c[i] = IF i <= 1 THEN <<w>>[i] ELSE ws[i - 1]
    BY <2>1, <2>2, ConcatProperties
  <2> HIDE DEF c
  <2> QED
    BY <2>1, <2>2, <2>3, <2>4
<1> HIDE DEF c
<1>2. \A i \in DOMAIN c : i # 1 => i - 1 \in DOMAIN ws /\ c[i] = ws[i - 1]
  <2> SUFFICES ASSUME NEW i \in DOMAIN c, i # 1
               PROVE  i - 1 \in DOMAIN ws /\ c[i] = ws[i - 1]
    OBVIOUS
  <2>1. i - 1 \in 1 .. Len(ws) /\ (i - 1) + 1 = i
    BY <1>1
  <2> QED
    BY <1>1, <2>1
<1>3. PidsOf(c) = PidsOf(ws) \cup {w.pid}
  <2>1. ASSUME NEW x \in PidsOf(c)
        PROVE  x \in PidsOf(ws) \cup {w.pid}
    <3>1. PICK i \in DOMAIN c : x = c[i].pid
      BY <2>1 DEF PidsOf
    <3> QED
      BY <1>1, <1>2, <3>1 DEF PidsOf
  <2>2. ASSUME NEW x \in PidsOf(ws)
        PROVE  x \in PidsOf(c)
    <3>1. PICK i \in DOMAIN ws : x = ws[i].pid
      BY <2>2 DEF PidsOf
    <3>2. i + 1 \in DOMAIN c /\ c[i + 1] = ws[i]
      BY <1>1
    <3> QED
      BY <3>1, <3>2 DEF PidsOf
  <2>3. w.pid \in PidsOf(c)
    <3>1. 1 \in DOMAIN c
      BY <1>1
    <3> QED
      BY <1>1, <3>1 DEF PidsOf
  <2> QED
    BY <2>1, <2>2, <2>3
<1>4. ASSUME OneEach(ws), w.pid \notin PidsOf(ws)
      PROVE  OneEach(c)
  <2> SUFFICES ASSUME NEW i \in DOMAIN c, NEW j \in DOMAIN c, c[i].pid = c[j].pid
               PROVE  i = j
    BY DEF OneEach
  <2>1. CASE i # 1 /\ j # 1
    <3>1. ws[i - 1].pid = ws[j - 1].pid /\ i - 1 \in DOMAIN ws /\ j - 1 \in DOMAIN ws
      BY <1>2, <2>1
    <3>2. i - 1 = j - 1
      BY <1>4, <3>1 DEF OneEach
    <3> QED
      BY <1>1, <3>2
  <2>2. CASE i = 1 /\ j # 1
    BY <1>1, <1>2, <1>4, <2>2 DEF PidsOf
  <2>3. CASE i # 1 /\ j = 1
    BY <1>1, <1>2, <1>4, <2>3 DEF PidsOf
  <2> QED
    BY <2>1, <2>2, <2>3
<1>5. c # <<>>
  BY <1>1
<1> QED
  BY <1>1, <1>3, <1>4, <1>5 DEF c

\* A waiter is unlinked at position n: the head when a peer serves it, any
\* place when its time is up.
LEMMA WithoutIndexProps ==
    ASSUME NEW S, NEW ws \in Seq(S), NEW n \in DOMAIN ws, OneEach(ws)
    PROVE  LET c == WithoutIndex(ws, n) IN
           /\ c \in Seq(S)
           /\ PidsOf(c) = PidsOf(ws) \ {ws[n].pid}
           /\ OneEach(c)
<1> DEFINE keep == DOMAIN ws \ {n}
           c == Compact(ws, keep)
<1>1. /\ c \in Seq(S)
      /\ \E f \in [DOMAIN c -> keep] :
           /\ \A k \in DOMAIN c : c[k] = ws[f[k]]
           /\ \A k, l \in DOMAIN c : f[k] = f[l] => k = l
           /\ \A j \in keep : \E k \in DOMAIN c : f[k] = j
  <2>1. keep \in SUBSET DOMAIN ws
    OBVIOUS
  <2> HIDE DEF keep
  <2> QED
    BY <2>1, CompactProps, SMTT(30)
<1>2. PICK f \in [DOMAIN c -> keep] :
           /\ \A k \in DOMAIN c : c[k] = ws[f[k]]
           /\ \A k, l \in DOMAIN c : f[k] = f[l] => k = l
           /\ \A j \in keep : \E k \in DOMAIN c : f[k] = j
  BY <1>1
<1>3. WithoutIndex(ws, n) = c
  BY DEF WithoutIndex
<1> HIDE DEF c
<1>4. PidsOf(c) = PidsOf(ws) \ {ws[n].pid}
  BY <1>2 DEF PidsOf, OneEach
<1>5. OneEach(c)
  BY <1>2 DEF OneEach
<1> QED
  BY <1>1, <1>3, <1>4, <1>5

LEMMA TailWaiters ==
    ASSUME NEW S, NEW ws \in Seq(S), ws # <<>>, OneEach(ws)
    PROVE  /\ Head(ws) \in S
           /\ Head(ws).pid \in PidsOf(ws)
           /\ Tail(ws) \in Seq(S)
           /\ PidsOf(Tail(ws)) = PidsOf(ws) \ {Head(ws).pid}
           /\ OneEach(Tail(ws))
<1>1. /\ Tail(ws) \in Seq(S)
      /\ Len(ws) \in Nat \ {0}
      /\ DOMAIN ws = 1 .. Len(ws)
      /\ DOMAIN Tail(ws) = 1 .. Len(ws) - 1
      /\ \A i \in 1 .. Len(ws) - 1 : Tail(ws)[i] = ws[i + 1]
      /\ Head(ws) = ws[1]
  BY HeadTailProperties, LenProperties, EmptySeq
<1> DEFINE t == Tail(ws)
<1> HIDE DEF t
<1>2. 1 \in DOMAIN ws /\ Head(ws) \in S /\ Head(ws).pid \in PidsOf(ws)
  <2>1. 1 \in DOMAIN ws
    BY <1>1
  <2> QED
    BY <1>1, <2>1, ElementOfSeq DEF PidsOf
<1>3. \A i \in DOMAIN t : i + 1 \in DOMAIN ws /\ i + 1 # 1 /\ t[i] = ws[i + 1]
  BY <1>1 DEF t
<1>4. \A j \in DOMAIN ws : j # 1 => j - 1 \in DOMAIN t /\ t[j - 1] = ws[j]
  <2> SUFFICES ASSUME NEW j \in DOMAIN ws, j # 1
               PROVE  j - 1 \in DOMAIN t /\ t[j - 1] = ws[j]
    OBVIOUS
  <2>1. j - 1 \in 1 .. Len(ws) - 1 /\ (j - 1) + 1 = j
    BY <1>1
  <2> QED
    BY <1>1, <2>1 DEF t
<1>5. PidsOf(t) = PidsOf(ws) \ {Head(ws).pid}
  <2>1. ASSUME NEW x \in PidsOf(t)
        PROVE  x \in PidsOf(ws) \ {Head(ws).pid}
    <3>1. PICK i \in DOMAIN t : x = t[i].pid
      BY <2>1 DEF PidsOf
    <3> QED
      BY <1>1, <1>2, <1>3, <3>1 DEF PidsOf, OneEach
  <2>2. ASSUME NEW x \in PidsOf(ws) \ {Head(ws).pid}
        PROVE  x \in PidsOf(t)
    <3>1. PICK j \in DOMAIN ws : x = ws[j].pid
      BY <2>2 DEF PidsOf
    <3>2. j # 1
      BY <1>1, <2>2, <3>1
    <3> QED
      BY <1>4, <3>1, <3>2 DEF PidsOf
  <2> QED
    BY <2>1, <2>2
<1>6. OneEach(t)
  <2> SUFFICES ASSUME NEW i \in DOMAIN t, NEW j \in DOMAIN t, t[i].pid = t[j].pid
               PROVE  i = j
    BY DEF OneEach
  <2>1. i + 1 = j + 1
    BY <1>3 DEF OneEach
  <2> QED
    BY <1>1, <2>1 DEF t
<1> QED
  BY <1>1, <1>2, <1>5, <1>6 DEF t

\* A kill unlinks every waiter of the process, and only those.
LEMMA WithoutWaiterProps ==
    ASSUME NEW S, NEW ws \in Seq(S), NEW p
    PROVE  LET c == WithoutWaiter(ws, p) IN
           /\ c \in Seq(S)
           /\ PidsOf(c) = PidsOf(ws) \ {p}
           /\ OneEach(ws) => OneEach(c)
<1> DEFINE keep == {i \in DOMAIN ws : ws[i].pid # p}
           c == Compact(ws, keep)
<1>1. /\ c \in Seq(S)
      /\ \E f \in [DOMAIN c -> keep] :
           /\ \A k \in DOMAIN c : c[k] = ws[f[k]]
           /\ \A k, l \in DOMAIN c : f[k] = f[l] => k = l
           /\ \A j \in keep : \E k \in DOMAIN c : f[k] = j
  <2>1. keep \in SUBSET DOMAIN ws
    OBVIOUS
  <2> HIDE DEF keep
  <2> QED
    BY <2>1, CompactProps
<1>2. PICK f \in [DOMAIN c -> keep] :
           /\ \A k \in DOMAIN c : c[k] = ws[f[k]]
           /\ \A k, l \in DOMAIN c : f[k] = f[l] => k = l
           /\ \A j \in keep : \E k \in DOMAIN c : f[k] = j
  BY <1>1
<1>3. WithoutWaiter(ws, p) = c
  BY DEF WithoutWaiter
<1> HIDE DEF c
<1>4. PidsOf(c) = PidsOf(ws) \ {p}
  BY <1>2 DEF PidsOf
<1>5. OneEach(ws) => OneEach(c)
  BY <1>2 DEF OneEach
<1> QED
  BY <1>1, <1>3, <1>4, <1>5

-----------------------------------------------------------------------------
(* The invariant *)

\* Where the loop can be while a process executes, and that a timer the scan
\* has yet to visit is still set.
LoopInv ==
    /\ cur # NoPid => phase = "ticks"
    /\ phase # "timers" => due = {}
    /\ \A t \in due : timer[t].pid \in Pid

USE BoundsAssumption, InputsAssumption

-----------------------------------------------------------------------------
(* Types *)

LEMMA TypeInit == Init => TypeOK /\ LoopInv
<1> SUFFICES ASSUME Init PROVE TypeOK /\ LoopInv
  OBVIOUS
<1>1. runq \in Seq(Pid)
  BY DEF Init, Pid
<1>2. LoopInv
  BY DEF Init, LoopInv
<1> QED
  BY <1>1, <1>2 DEF Init, TypeOK, Pid, ProcState, Target, Result, Phase, QueueId, TimerId, NoTimer

\* A process can only execute inside a tick.
LEMMA ExecutingInTicks ==
    ASSUME LoopInv, NEW p \in Pid, cur = p
    PROVE  phase = "ticks" /\ due = {} /\ cur # NoPid
  BY DEF LoopInv, Pid, NoPid

\* Wake appends a process to the run queue.
LEMMA WakeType ==
    ASSUME TypeOK, NEW p \in Pid, NEW r \in Result, NEW result0 \in [Pid -> Result],
           Wake(p, r, result0)
    PROVE  /\ result' \in [Pid -> Result]
           /\ state' \in [Pid -> ProcState]
           /\ runq' \in Seq(Pid)
<1>1. runq' \in Seq(Pid)
  BY AppendProperties DEF TypeOK, Wake
<1> QED
  BY <1>1 DEF TypeOK, Wake, ProcState

LEMMA WriteType ==
    ASSUME TypeOK, LoopInv, NEW p \in Pid, NEW q \in QueueId, NEW v \in Values,
           NEW t \in Timeouts, QueueWrite(p, q, v, t)
    PROVE  TypeOK' /\ LoopInv'
<1>1. ASSUME WriteNoQueue(p, q)
      PROVE  TypeOK' /\ LoopInv'
  BY <1>1 DEF WriteNoQueue, Return, QueueWrite, TypeOK, LoopInv, timerVars, loopVars, Result
<1>2. ASSUME WriteHandOver(p, q, v)
      PROVE  TypeOK' /\ LoopInv'
  <2> DEFINE w == Head(recvq[q])
             result0 == [result EXCEPT ![p] = "#t"]
  <2>1. w \in Receiver /\ recvq' \in [QueueId -> Seq(Receiver)]
    BY <1>2, HeadTailProperties DEF TypeOK, WriteHandOver
  <2>2. result0 \in [Pid -> Result] /\ v \in Result /\ w.pid \in Pid
    BY <2>1 DEF TypeOK, Result, Receiver
  <2>3. Wake(w.pid, v, result0)
    BY <1>2 DEF WriteHandOver
  <2> HIDE DEF w, result0
  <2>4. /\ result' \in [Pid -> Result]
        /\ state' \in [Pid -> ProcState]
        /\ runq' \in Seq(Pid)
    BY <2>2, <2>3, WakeType
  <2> QED
    BY <1>2, <2>1, <2>4 DEF WriteHandOver, QueueWrite, TypeOK, LoopInv, timerVars, loopVars
<1>3. ASSUME WriteItem(p, q, v)
      PROVE  TypeOK' /\ LoopInv'
  <2>1. items' \in [QueueId -> Seq(Values)]
    BY <1>3, AppendProperties DEF TypeOK, WriteItem
  <2> QED
    BY <1>3, <2>1 DEF WriteItem, Return, QueueWrite, TypeOK, LoopInv, timerVars, loopVars, Result
<1>4. ASSUME WriteFull(p, q, v, t)
      PROVE  TypeOK' /\ LoopInv'
  <2>1. CASE t = 0 /\ Return(p, "#f") /\ UNCHANGED sendq
    BY <1>4, <2>1 DEF WriteFull, Return, QueueWrite, TypeOK, LoopInv, timerVars, loopVars, Result
  <2>2. CASE t > 0 /\ Block(p) /\ sendq' = [sendq EXCEPT ![q] = <<[pid |-> p, value |-> v, left |-> t]>> \o @]
    <3>1. [pid |-> p, value |-> v, left |-> t] \in Sender
      BY DEF Sender
    <3>2. sendq' \in [QueueId -> Seq(Sender)]
      BY <2>2, <3>1, PrependWaiter DEF TypeOK
    <3> QED
      BY <1>4, <2>2, <3>2 DEF WriteFull, Block, QueueWrite, TypeOK, LoopInv, timerVars, loopVars, Result, ProcState
  <2> QED
    BY <1>4, <2>1, <2>2 DEF WriteFull
<1> QED
  BY <1>1, <1>2, <1>3, <1>4 DEF QueueWrite

LEMMA ReadType ==
    ASSUME TypeOK, LoopInv, NEW p \in Pid, NEW q \in QueueId,
           NEW t \in Timeouts, QueueRead(p, q, t)
    PROVE  TypeOK' /\ LoopInv'
<1>1. ASSUME ReadNoQueue(p, q)
      PROVE  TypeOK' /\ LoopInv'
  BY <1>1 DEF ReadNoQueue, Return, QueueRead, TypeOK, LoopInv, timerVars, loopVars, Result
<1>2. ASSUME ReadItem(p, q)
      PROVE  TypeOK' /\ LoopInv'
  <2>1. Head(items[q]) \in Values /\ items' \in [QueueId -> Seq(Values)]
    BY <1>2, HeadTailProperties DEF TypeOK, ReadItem
  <2> QED
    BY <1>2, <2>1 DEF ReadItem, Return, QueueRead, TypeOK, LoopInv, timerVars, loopVars, Result
<1>3. ASSUME ReadItemAndAdmit(p, q)
      PROVE  TypeOK' /\ LoopInv'
  <2> DEFINE w == Head(sendq[q])
             result0 == [result EXCEPT ![p] = Head(items[q])]
  <2>1. w \in Sender /\ sendq' \in [QueueId -> Seq(Sender)]
    BY <1>3, HeadTailProperties DEF TypeOK, ReadItemAndAdmit
  <2>2. Head(items[q]) \in Values /\ Tail(items[q]) \in Seq(Values)
    BY <1>3, HeadTailProperties DEF TypeOK, ReadItemAndAdmit
  <2>3. items' \in [QueueId -> Seq(Values)]
    BY <1>3, <2>1, <2>2, AppendProperties DEF TypeOK, ReadItemAndAdmit, Sender
  <2>4. result0 \in [Pid -> Result] /\ "#t" \in Result /\ w.pid \in Pid
    BY <2>1, <2>2 DEF TypeOK, Result, Sender
  <2>5. Wake(w.pid, "#t", result0)
    BY <1>3 DEF ReadItemAndAdmit
  <2> HIDE DEF w, result0
  <2>6. /\ result' \in [Pid -> Result]
        /\ state' \in [Pid -> ProcState]
        /\ runq' \in Seq(Pid)
    BY <2>4, <2>5, WakeType
  <2> QED
    BY <1>3, <2>1, <2>3, <2>6 DEF ReadItemAndAdmit, QueueRead, TypeOK, LoopInv, timerVars, loopVars
<1>4. ASSUME ReadEmpty(p, q, t)
      PROVE  TypeOK' /\ LoopInv'
  <2>1. CASE t = 0 /\ Return(p, "#undefined") /\ UNCHANGED recvq
    BY <1>4, <2>1 DEF ReadEmpty, Return, QueueRead, TypeOK, LoopInv, timerVars, loopVars, Result
  <2>2. CASE t > 0 /\ Block(p) /\ recvq' = [recvq EXCEPT ![q] = <<[pid |-> p, left |-> t]>> \o @]
    <3>1. [pid |-> p, left |-> t] \in Receiver
      BY DEF Receiver
    <3>2. recvq' \in [QueueId -> Seq(Receiver)]
      BY <2>2, <3>1, PrependWaiter DEF TypeOK
    <3> QED
      BY <1>4, <2>2, <3>2 DEF ReadEmpty, Block, QueueRead, TypeOK, LoopInv, timerVars, loopVars, Result, ProcState
  <2> QED
    BY <1>4, <2>1, <2>2 DEF ReadEmpty
<1> QED
  BY <1>1, <1>2, <1>3, <1>4 DEF QueueRead

\* What the current process does to itself, to its children and to others.
LEMMA InstructionType ==
    ASSUME TypeOK, LoopInv, NEW p \in Pid, Instruction(p)
    PROVE  TypeOK' /\ LoopInv'
<1>0. Executing(p) => phase = "ticks" /\ due = {} /\ cur # NoPid
  BY ExecutingInTicks DEF Executing
<1>1. CASE Halt(p)
  BY <1>1 DEF Halt, TypeOK, LoopInv, queueVars, timerVars, loopVars, ProcState, Target
<1>2. CASE Fail(p)
  BY <1>2 DEF Fail, TypeOK, LoopInv, queueVars, timerVars, loopVars, ProcState, Target
<1>3. CASE CallbackReturn(p)
  <2> DEFINE fs == frames[p]
  <2>1. fs \in Seq(Target) /\ fs # <<>>
    BY <1>3 DEF CallbackReturn, TypeOK
  <2>2. Len(fs) \in DOMAIN fs /\ Len(fs) \in Nat \ {0}
    BY <2>1, LenProperties, EmptySeq
  <2>3. fs[Len(fs)] \in Target
    BY <2>1, <2>2, ElementOfSeq
  <2>4. SubSeq(fs, 1, Len(fs) - 1) \in Seq(Target)
    BY <2>1, <2>2, SubSeqProperties
  <2>5. pc' \in [Pid -> Target] /\ frames' \in [Pid -> Seq(Target)]
    BY <1>3, <2>3, <2>4 DEF CallbackReturn, TypeOK
  <2> QED
    BY <1>3, <2>5 DEF CallbackReturn, TypeOK, LoopInv, queueVars, timerVars, loopVars
<1>4. CASE Fork(p)
  <2>1. nprocs \in Pid /\ nprocs + 1 \in 1 .. MaxProcs
    BY <1>4 DEF Fork, TypeOK, Pid
  <2>2. runq' \in Seq(Pid)
    BY <1>4, <2>1, AppendProperties DEF Fork, TypeOK
  <2> QED
    BY <1>4, <2>1, <2>2 DEF Fork, TypeOK, LoopInv, queueVars, timerVars, loopVars, ProcState
<1>5. CASE Exec(p)
  <2>1. <<>> \in Seq(Target) /\ image[p] + 1 \in 0 .. MaxImages
    BY <1>5 DEF Exec, TypeOK
  <2> QED
    BY <1>5, <2>1 DEF Exec, TypeOK, LoopInv, queueVars, timerVars, loopVars, Result
<1>6. ASSUME NEW k \in Pid, Kill(p, k)
      PROVE  TypeOK' /\ LoopInv'
  <2>1. runq' \in Seq(Pid)
    BY <1>6, WithoutPidProps DEF Kill, TypeOK
  <2>2. \A q \in QueueId : WithoutWaiter(sendq[q], k) \in Seq(Sender)
    BY WithoutWaiterProps DEF TypeOK
  <2>3. \A q \in QueueId : WithoutWaiter(recvq[q], k) \in Seq(Receiver)
    BY WithoutWaiterProps DEF TypeOK
  <2>4. /\ sendq' \in [QueueId -> Seq(Sender)]
        /\ recvq' \in [QueueId -> Seq(Receiver)]
        /\ timer' \in [TimerId -> Timer \cup {NoTimer}]
        /\ state' \in [Pid -> ProcState]
    BY <1>6, <2>2, <2>3 DEF Kill, TypeOK, ProcState
  <2>5. <<>> \in Seq(Target)
    OBVIOUS
  <2>6. /\ pending' \in [Pid -> BOOLEAN]
        /\ gutted' \in [Pid -> BOOLEAN]
        /\ pc' \in [Pid -> Target]
        /\ frames' \in [Pid -> Seq(Target)]
        /\ conts' \in [Pid -> SUBSET Seq(Target)]
    BY <1>6, <2>5 DEF Kill, GutOrDefer, TypeOK, Target
  <2>7. LoopInv'
    BY <1>0, <1>6 DEF Kill, LoopInv, loopVars
  <2> QED
    BY <1>6, <2>1, <2>4, <2>6, <2>7 DEF Kill, TypeOK, loopVars
<1>7. ASSUME NEW len \in Capacities, MakeQueue(p, len)
      PROVE  TypeOK' /\ LoopInv'
  <2>1. nqueues' \in 0 .. MaxQueues
    BY <1>7 DEF MakeQueue, TypeOK
  <2>2. capacity' \in [QueueId -> Nat]
    BY <1>7 DEF MakeQueue, TypeOK
  <2>3. LoopInv'
    BY <1>7 DEF MakeQueue, LoopInv, timerVars, loopVars
  <2> QED
    BY <1>7, <2>1, <2>2, <2>3 DEF MakeQueue, TypeOK, procVars, timerVars, loopVars
<1>8. ASSUME NEW q \in QueueId, NEW v \in Values, NEW t \in Timeouts, QueueWrite(p, q, v, t)
      PROVE  TypeOK' /\ LoopInv'
  BY <1>8, WriteType
<1>9. ASSUME NEW q \in QueueId, NEW t \in Timeouts, QueueRead(p, q, t)
      PROVE  TypeOK' /\ LoopInv'
  BY <1>9, ReadType
<1>10. ASSUME NEW d \in Delays, NEW repeat \in BOOLEAN, SetTimer(p, d, repeat)
       PROVE  TypeOK' /\ LoopInv'
  <2> DEFINE new == [pid |-> p, left |-> d, repeat |-> repeat, image |-> image[p],
                     interval |-> IF repeat THEN d ELSE 0]
  <2>1. new \in Timer
    <3>1. p \in Pid /\ d \in Nat /\ image[p] \in Nat /\ 0 \in Nat
      BY DEF TypeOK
    <3>2. (IF repeat THEN d ELSE 0) \in Nat
      BY <3>1
    <3> QED
      BY <3>1, <3>2 DEF Timer
  <2>2. timer' \in [TimerId -> Timer \cup {NoTimer}] /\ ntimers' \in 0 .. MaxTimers
    <3>1. timer' = [timer EXCEPT ![ntimers + 1] = new]
      BY <1>10 DEF SetTimer
    <3>2. ntimers' \in 0 .. MaxTimers
      BY <1>10 DEF SetTimer, TypeOK
    <3> HIDE DEF new
    <3> QED
      BY <2>1, <3>1, <3>2 DEF TypeOK
  <2>3. LoopInv'
    BY <1>0, <1>10 DEF SetTimer, LoopInv, loopVars
  <2> QED
    BY <1>10, <2>2, <2>3 DEF SetTimer, TypeOK, procVars, queueVars, loopVars
<1>11. ASSUME NEW t \in TimerId, ClearTimer(p, t)
       PROVE  TypeOK' /\ LoopInv'
  <2>1. timer' \in [TimerId -> Timer \cup {NoTimer}]
    BY <1>11 DEF ClearTimer, TypeOK
  <2>2. LoopInv'
    BY <1>0, <1>11 DEF ClearTimer, LoopInv, loopVars
  <2> QED
    BY <1>11, <2>1, <2>2 DEF ClearTimer, TypeOK, procVars, queueVars, loopVars
<1>12. CASE Capture(p)
  <2>1. conts' \in [Pid -> SUBSET Seq(Target)]
    BY <1>12 DEF Capture, TypeOK
  <2> QED
    BY <1>12, <2>1 DEF Capture, TypeOK, LoopInv, queueVars, timerVars, loopVars
<1>13. CASE CallContinuation(p)
  <2>1. frames' \in [Pid -> Seq(Target)]
    BY <1>13 DEF CallContinuation, TypeOK
  <2> QED
    BY <1>13, <2>1 DEF CallContinuation, TypeOK, LoopInv, queueVars, timerVars, loopVars
<1> QED
  BY <1>1, <1>2, <1>3, <1>4, <1>5, <1>6, <1>7, <1>8, <1>9, <1>10, <1>11, <1>12, <1>13 DEF Instruction

\* The entry of a waiter whose time is up leaves the list; its process wakes.
LEMMA TimeOutType ==
    ASSUME TypeOK, LoopInv, NEW q \in QueueId, TimeOutSender(q) \/ TimeOutReceiver(q)
    PROVE  TypeOK' /\ LoopInv'
<1>1. ASSUME NEW w, w.pid \in Pid, NEW r \in Result, TimeOutWaiter(w, r)
      PROVE  /\ result' \in [Pid -> Result]
             /\ state' \in [Pid -> ProcState]
             /\ runq' \in Seq(Pid)
  <2>1. CASE state[w.pid] = "KILLED"
    BY <1>1, <2>1 DEF TimeOutWaiter, TypeOK
  <2>2. CASE state[w.pid] # "KILLED"
    <3>1. result \in [Pid -> Result] /\ Wake(w.pid, r, result)
      BY <1>1, <2>2 DEF TimeOutWaiter, TypeOK
    <3> QED
      BY <1>1, <3>1, WakeType
  <2> QED
    BY <2>1, <2>2
<1>2. CASE TimeOutSender(q)
  <2>1. PICK i \in DOMAIN sendq[q] :
          /\ sendq' = [sendq EXCEPT ![q] = WithoutIndex(@, i)]
          /\ TimeOutWaiter(sendq[q][i], "#f")
    BY <1>2 DEF TimeOutSender
  <2>2. sendq[q][i] \in Sender
    BY <2>1, ElementOfSeq, LenProperties DEF TypeOK
  <2>3. WithoutIndex(sendq[q], i) \in Seq(Sender)
    BY <2>1, CompactProps DEF TypeOK, WithoutIndex
  <2>4. sendq' \in [QueueId -> Seq(Sender)]
    BY <2>1, <2>3 DEF TypeOK
  <2>5. /\ result' \in [Pid -> Result]
        /\ state' \in [Pid -> ProcState]
        /\ runq' \in Seq(Pid)
    BY <1>1, <2>1, <2>2 DEF Sender, Result
  <2> QED
    BY <1>2, <2>4, <2>5 DEF TimeOutSender, TypeOK, LoopInv, timerVars, loopVars
<1>3. CASE TimeOutReceiver(q)
  <2>1. PICK i \in DOMAIN recvq[q] :
          /\ recvq' = [recvq EXCEPT ![q] = WithoutIndex(@, i)]
          /\ TimeOutWaiter(recvq[q][i], "#undefined")
    BY <1>3 DEF TimeOutReceiver
  <2>2. recvq[q][i] \in Receiver
    BY <2>1, ElementOfSeq, LenProperties DEF TypeOK
  <2>3. WithoutIndex(recvq[q], i) \in Seq(Receiver)
    BY <2>1, CompactProps DEF TypeOK, WithoutIndex
  <2>4. recvq' \in [QueueId -> Seq(Receiver)]
    BY <2>1, <2>3 DEF TypeOK
  <2>5. /\ result' \in [Pid -> Result]
        /\ state' \in [Pid -> ProcState]
        /\ runq' \in Seq(Pid)
    BY <1>1, <2>1, <2>2 DEF Receiver, Result
  <2> QED
    BY <1>3, <2>4, <2>5 DEF TimeOutReceiver, TypeOK, LoopInv, timerVars, loopVars
<1> QED
  BY <1>2, <1>3

\* A timer the scan visits is kept, set again or freed.
LEMMA VisitType ==
    ASSUME TypeOK, LoopInv, VisitTimer
    PROVE  TypeOK' /\ LoopInv'
<1>1. PICK t \in TimerId :
        /\ t \in due
        /\ due' = due \ {t}
        /\ SkipTimer(t) \/ FireStopped(t) \/ FireQueued(t)
  BY DEF VisitTimer, IsNewest
<1> DEFINE p == timer[t].pid
<1>2. p \in Pid /\ p # NoPid /\ timer[t] \in Timer
  <2>1. p \in Pid /\ p # NoPid
    BY <1>1 DEF LoopInv, Pid, NoPid
  <2> QED
    BY <1>1, <2>1 DEF TypeOK, NoTimer
<1>3. CASE SkipTimer(t)
  <2>1. timer' \in [TimerId -> Timer \cup {NoTimer}] /\ \A u \in due' : timer'[u].pid \in Pid
    BY <1>1, <1>3 DEF SkipTimer, TypeOK, LoopInv
  <2> QED
    BY <1>1, <1>3, <2>1 DEF VisitTimer, SkipTimer, TypeOK, LoopInv, queueVars
<1>4. ASSUME Rearm(t)
      PROVE  timer' \in [TimerId -> Timer \cup {NoTimer}] /\ \A u \in due' : timer'[u].pid \in Pid
  <2>1. [timer[t] EXCEPT !.left = timer[t].interval] \in Timer
    BY <1>2 DEF Timer
  <2> QED
    BY <1>1, <1>4, <2>1 DEF Rearm, TypeOK, LoopInv
<1>5. ASSUME NEW target \in Target, CallAsync(p, t, target)
      PROVE  frames' \in [Pid -> Seq(Target)] /\ pc' \in [Pid -> Target]
  <2>1. CASE frames' = [frames EXCEPT ![p] = Append(@, target)] /\ pc' = [pc EXCEPT ![p] = "code"]
    <3>1. Append(frames[p], target) \in Seq(Target)
      BY <1>2, AppendProperties DEF TypeOK
    <3> QED
      BY <2>1, <3>1 DEF TypeOK, Target
  <2> QED
    BY <1>5, <2>1 DEF CallAsync, TypeOK
<1>6. CASE FireStopped(t)
  <2>1. runq' \in Seq(Pid) /\ state' \in [Pid -> ProcState]
    BY <1>2, <1>6, AppendProperties DEF FireStopped, TypeOK, ProcState
  <2>2. frames' \in [Pid -> Seq(Target)] /\ pc' \in [Pid -> Target]
    BY <1>5, <1>6 DEF FireStopped, Target
  <2>3. timer' \in [TimerId -> Timer \cup {NoTimer}] /\ \A u \in due' : timer'[u].pid \in Pid
    BY <1>4, <1>6 DEF FireStopped
  <2> QED
    BY <1>1, <2>1, <2>2, <2>3 DEF VisitTimer, TypeOK, LoopInv, queueVars
<1>7. CASE FireQueued(t)
  <2>1. runq' \in Seq(Pid) /\ state' \in [Pid -> ProcState]
    BY <1>2, <1>7 DEF FireQueued, TypeOK, ProcState
  <2>2. pc[p] \in Target
    BY <1>2 DEF TypeOK
  <2>3. frames' \in [Pid -> Seq(Target)] /\ pc' \in [Pid -> Target]
    BY <1>5, <1>7, <2>2 DEF FireQueued
  <2>4. timer' \in [TimerId -> Timer \cup {NoTimer}] /\ \A u \in due' : timer'[u].pid \in Pid
    BY <1>4, <1>7 DEF FireQueued
  <2> QED
    BY <1>1, <2>1, <2>3, <2>4 DEF VisitTimer, TypeOK, LoopInv, queueVars
<1> QED
  BY <1>1, <1>3, <1>6, <1>7

\* The time of every waiter and timer goes on.
LEMMA PassType ==
    ASSUME TypeOK, NEW d \in Nat, Pass(d)
    PROVE  /\ sendq' \in [QueueId -> Seq(Sender)]
           /\ recvq' \in [QueueId -> Seq(Receiver)]
           /\ timer' \in [TimerId -> Timer \cup {NoTimer}]
           /\ \A t \in TimerId : timer'[t].pid = timer[t].pid
           /\ \A q \in QueueId : /\ DOMAIN sendq'[q] = DOMAIN sendq[q]
                                 /\ \A i \in DOMAIN sendq[q] : sendq'[q][i].pid = sendq[q][i].pid
                                 /\ DOMAIN recvq'[q] = DOMAIN recvq[q]
                                 /\ \A i \in DOMAIN recvq[q] : recvq'[q][i].pid = recvq[q][i].pid
<1>1. \A n \in Nat : Later(n, d) \in Nat
  BY DEF Later
<1>2. sendq' \in [QueueId -> Seq(Sender)]
  <2> SUFFICES ASSUME NEW q \in QueueId
               PROVE  [i \in DOMAIN sendq[q] |-> [sendq[q][i] EXCEPT !.left = Later(@, d)]] \in Seq(Sender)
    BY DEF Pass, LaterWaiters
  <2>1. sendq[q] \in Seq(Sender) /\ Len(sendq[q]) \in Nat /\ DOMAIN sendq[q] = 1 .. Len(sendq[q])
    BY LenProperties DEF TypeOK
  <2>2. \A i \in 1 .. Len(sendq[q]) : [sendq[q][i] EXCEPT !.left = Later(@, d)] \in Sender
    <3> SUFFICES ASSUME NEW i \in 1 .. Len(sendq[q])
                 PROVE  [sendq[q][i] EXCEPT !.left = Later(@, d)] \in Sender
      OBVIOUS
    <3>1. sendq[q][i] \in Sender
      BY <2>1, ElementOfSeq
    <3> QED
      BY <1>1, <3>1 DEF Sender
  <2> QED
    BY <2>1, <2>2, IsASeq
<1>3. recvq' \in [QueueId -> Seq(Receiver)]
  <2> SUFFICES ASSUME NEW q \in QueueId
               PROVE  [i \in DOMAIN recvq[q] |-> [recvq[q][i] EXCEPT !.left = Later(@, d)]] \in Seq(Receiver)
    BY DEF Pass, LaterWaiters
  <2>1. recvq[q] \in Seq(Receiver) /\ Len(recvq[q]) \in Nat /\ DOMAIN recvq[q] = 1 .. Len(recvq[q])
    BY LenProperties DEF TypeOK
  <2>2. \A i \in 1 .. Len(recvq[q]) : [recvq[q][i] EXCEPT !.left = Later(@, d)] \in Receiver
    <3> SUFFICES ASSUME NEW i \in 1 .. Len(recvq[q])
                 PROVE  [recvq[q][i] EXCEPT !.left = Later(@, d)] \in Receiver
      OBVIOUS
    <3>1. recvq[q][i] \in Receiver
      BY <2>1, ElementOfSeq
    <3> QED
      BY <1>1, <3>1 DEF Receiver
  <2> QED
    BY <2>1, <2>2, IsASeq
<1>4. ASSUME NEW t \in TimerId
      PROVE  timer'[t] \in Timer \cup {NoTimer} /\ timer'[t].pid = timer[t].pid
  <2>1. timer'[t] = [timer[t] EXCEPT !.left = Later(@, d)]
    BY DEF Pass
  <2>2. CASE timer[t] = NoTimer
    <3>1. timer[t].left = 0
      BY <2>2 DEF NoTimer
    <3>2. Later(timer[t].left, d) = 0
      BY <3>1 DEF Later
    <3>3. timer'[t] = [NoTimer EXCEPT !.left = 0]
      BY <2>1, <2>2, <3>2
    <3>4. NoTimer.left = 0 /\ NoTimer = [x \in DOMAIN NoTimer |-> NoTimer[x]]
      BY DEF NoTimer
    <3>5. [NoTimer EXCEPT !.left = 0] = NoTimer
      BY <3>4
    <3> QED
      BY <2>2, <3>3, <3>5
  <2>3. CASE timer[t] \in Timer
    BY <1>1, <2>1, <2>3 DEF Timer
  <2> QED
    BY <2>2, <2>3 DEF TypeOK
<1>5. timer' \in [TimerId -> Timer \cup {NoTimer}]
  BY <1>4 DEF Pass
<1>6. ASSUME NEW q \in QueueId
      PROVE  /\ DOMAIN sendq'[q] = DOMAIN sendq[q]
             /\ \A i \in DOMAIN sendq[q] : sendq'[q][i].pid = sendq[q][i].pid
             /\ DOMAIN recvq'[q] = DOMAIN recvq[q]
             /\ \A i \in DOMAIN recvq[q] : recvq'[q][i].pid = recvq[q][i].pid
  <2>1. \A i \in DOMAIN sendq[q] : sendq[q][i] \in Sender
    BY ElementOfSeq, LenProperties DEF TypeOK
  <2>2. \A i \in DOMAIN recvq[q] : recvq[q][i] \in Receiver
    BY ElementOfSeq, LenProperties DEF TypeOK
  <2>3. /\ sendq'[q] = [i \in DOMAIN sendq[q] |-> [sendq[q][i] EXCEPT !.left = Later(@, d)]]
        /\ recvq'[q] = [i \in DOMAIN recvq[q] |-> [recvq[q][i] EXCEPT !.left = Later(@, d)]]
    BY DEF Pass, LaterWaiters
  <2>4. \A i \in DOMAIN sendq[q] : sendq'[q][i].pid = sendq[q][i].pid
    BY <2>1, <2>3 DEF Sender
  <2>5. \A i \in DOMAIN recvq[q] : recvq'[q][i].pid = recvq[q][i].pid
    BY <2>2, <2>3 DEF Receiver
  <2> QED
    BY <2>3, <2>4, <2>5
<1> QED
  BY <1>2, <1>3, <1>4, <1>5, <1>6

\* The nearest deadline the loop sleeps to is a number of milliseconds.
LEMMA DeadlineType ==
    ASSUME TypeOK, NEW d \in Deadlines
    PROVE  d \in Nat
<1>1. CASE d \in WaiterTimes
  <2>1. PICK q \in 1 .. nqueues : d \in {w.left : w \in Range(sendq[q]) \cup Range(recvq[q])}
    BY <1>1 DEF WaiterTimes
  <2>2. q \in QueueId
    BY DEF TypeOK, QueueId
  <2>3. PICK w \in Range(sendq[q]) \cup Range(recvq[q]) : d = w.left
    BY <2>1
  <2>4. Range(sendq[q]) \subseteq Sender /\ Range(recvq[q]) \subseteq Receiver
    BY <2>2, ElementOfSeq, LenProperties DEF TypeOK, Range
  <2> QED
    BY <2>3, <2>4 DEF Sender, Receiver
<1>2. CASE d \in {timer[t].left : t \in NonblockedTimers}
  BY <1>2 DEF NonblockedTimers, IsSet, TypeOK, Timer
<1> QED
  BY <1>1, <1>2 DEF Deadlines

LEMMA LoopType ==
    ASSUME TypeOK, LoopInv, Loop \/ Elapse
    PROVE  TypeOK' /\ LoopInv'
<1>1. CASE TickBegin
  <2>1. Head(runq) \in Pid /\ Tail(runq) \in Seq(Pid) /\ ticks - 1 \in 0 .. PhaseLength
    BY <1>1, HeadTailProperties DEF TickBegin, TypeOK
  <2> QED
    BY <1>1, <2>1 DEF TickBegin, TypeOK, LoopInv, queueVars, timerVars, ProcState
<1>2. CASE SliceEnd
  <2>1. cur \in Pid
    BY <1>2 DEF SliceEnd, TypeOK
  <2>2. Append(runq, cur) \in Seq(Pid)
    BY <2>1, AppendProperties DEF TypeOK
  <2> QED
    BY <1>2, <2>2 DEF SliceEnd, TypeOK, LoopInv, queueVars, timerVars, loopVars, ProcState
<1>3. CASE TickEnd
  <2>1. <<>> \in Seq(Target) /\ NoPid \in Pid \cup {NoPid}
    OBVIOUS
  <2>2. /\ gutted' \in [Pid -> BOOLEAN]
        /\ pending' \in [Pid -> BOOLEAN]
        /\ pc' \in [Pid -> Target]
        /\ frames' \in [Pid -> Seq(Target)]
        /\ conts' \in [Pid -> SUBSET Seq(Target)]
    <3>1. CASE UNCHANGED <<gutted, pending, pc, frames, conts>>
      BY <3>1 DEF TypeOK
    <3>2. CASE /\ gutted' = [gutted EXCEPT ![cur] = TRUE]
               /\ pending' = [pending EXCEPT ![cur] = FALSE]
               /\ pc' = [pc EXCEPT ![cur] = "code"]
               /\ frames' = [frames EXCEPT ![cur] = <<>>]
               /\ conts' = [conts EXCEPT ![cur] = {}]
      BY <2>1, <3>2 DEF TypeOK, Target
    <3> QED
      BY <1>3, <3>1, <3>2 DEF TickEnd
  <2>3. LoopInv'
    BY <1>3 DEF TickEnd, LoopInv, timerVars, loopVars
  <2> QED
    BY <1>3, <2>1, <2>2, <2>3 DEF TickEnd, TypeOK, queueVars, timerVars, loopVars
<1>4. CASE PhaseEnd
  BY <1>4 DEF PhaseEnd, TypeOK, LoopInv, procVars, queueVars, timerVars, Phase
<1>5. ASSUME NEW q \in QueueId, TimeOutSender(q) \/ TimeOutReceiver(q)
      PROVE  TypeOK' /\ LoopInv'
  BY <1>5, TimeOutType
<1>6. CASE WaitersEnd
  <2>1. \A t \in TimerId : IsSet(t) => timer[t].pid \in Pid
    BY DEF TypeOK, IsSet, Timer
  <2>2. TypeOK'
    BY <1>6 DEF WaitersEnd, TypeOK, procVars, queueVars, timerVars, Phase
  <2>3. LoopInv'
    BY <1>6, <2>1 DEF WaitersEnd, LoopInv, procVars, queueVars, timerVars
  <2> QED
    BY <2>2, <2>3
<1>7. CASE VisitTimer
  BY <1>7, VisitType
<1>8. CASE TimersEnd
  BY <1>8 DEF TimersEnd, TypeOK, LoopInv, procVars, queueVars, timerVars, Phase
<1>9. CASE GoOn
  BY <1>9 DEF GoOn, NextCycle, TypeOK, LoopInv, procVars, queueVars, timerVars, Phase
<1>10. CASE Sleep
  <2>1. PICK d \in Nat : Pass(d)
    BY <1>10, DeadlineType DEF Sleep, IsNearest
  <2>2. /\ sendq' \in [QueueId -> Seq(Sender)]
        /\ recvq' \in [QueueId -> Seq(Receiver)]
        /\ timer' \in [TimerId -> Timer \cup {NoTimer}]
    BY <2>1, PassType
  <2> QED
    BY <1>10, <2>2 DEF Sleep, NextCycle, TypeOK, LoopInv, procVars, Phase
<1>11. CASE GoIdle
  BY <1>11 DEF GoIdle, TypeOK, LoopInv, procVars, queueVars, timerVars, Phase
<1>12. CASE Elapse
  <2>1. /\ sendq' \in [QueueId -> Seq(Sender)]
        /\ recvq' \in [QueueId -> Seq(Receiver)]
        /\ timer' \in [TimerId -> Timer \cup {NoTimer}]
    BY <1>12, PassType DEF Elapse
  <2> QED
    BY <1>12, <2>1 DEF Elapse, TypeOK, LoopInv, procVars, loopVars
<1> QED
  BY <1>1, <1>2, <1>3, <1>4, <1>5, <1>6, <1>7, <1>8, <1>9, <1>10, <1>11, <1>12 DEF Loop

LEMMA TypeNext ==
    ASSUME TypeOK, LoopInv, [Next]_vars
    PROVE  TypeOK' /\ LoopInv'
<1>1. CASE UNCHANGED vars
  BY <1>1 DEF vars, procVars, queueVars, timerVars, loopVars, TypeOK, LoopInv
<1>2. ASSUME NEW p \in Pid, Instruction(p)
      PROVE  TypeOK' /\ LoopInv'
  BY <1>2, InstructionType
<1>3. CASE Loop \/ Elapse
  BY <1>3, LoopType
<1>4. CASE Idle
  BY <1>1, <1>4 DEF Idle
<1> QED
  BY <1>1, <1>2, <1>3, <1>4 DEF Next

\* Every variable of the runtime keeps its type; in particular the run queue
\* holds pids of the process pool only, and a timer that is about to fire
\* belongs to a process.
THEOREM TypeCorrect == Spec => []TypeOK
<1>1. Init => TypeOK /\ LoopInv
  BY TypeInit
<1>2. TypeOK /\ LoopInv /\ [Next]_vars => (TypeOK /\ LoopInv)'
  BY TypeNext
<1> QED
  BY <1>1, <1>2, PTL DEF Spec
=============================================================================

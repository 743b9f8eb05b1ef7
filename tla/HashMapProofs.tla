--------------------------- MODULE HashMapProofs ---------------------------
(***************************************************************************)
(* The hash table for every capacity, every set of keys and every hash     *)
(* function: searches end and find, the counters are right, and seen from  *)
(* outside the table is a map.                                             *)
(***************************************************************************)
EXTENDS HashMap, FiniteSetTheorems, WellFoundedInduction, TLAPS

\* Place and Search of any slots s, c of them.
At(k, d, c) == IF (Hash[k] % c) + d < c THEN (Hash[k] % c) + d ELSE (Hash[k] % c) + d - c

Stops(s, c, k, d) ==
    /\ d \in 0 .. c - 1
    /\ s[At(k, d, c)].key \in {k, Empty}
    /\ \A e \in 0 .. d - 1 : s[At(k, e, c)].key \notin {k, Empty}

\* From the home of each key its slot is reached over used slots that do not
\* have the key.
Reaches(s, c) == \A i \in Live(s) : \E d \in 0 .. c - 1 :
    At(s[i].key, d, c) = i /\ Stops(s, c, s[i].key, d)

Slots(c) == [0 .. c - 1 -> Slot]

\* The pairs of other keys.
Others(p, k) == {x \in p : x[1] # k}

-----------------------------------------------------------------------------
(* Places *)

\* Going c steps on from the home of a key passes every slot once.
LEMMA Places ==
    ASSUME NEW c \in Nat \ {0}, NEW k \in Keys
    PROVE  /\ \A d \in 0 .. c - 1 : At(k, d, c) \in 0 .. c - 1
           /\ \A d, e \in 0 .. c - 1 : At(k, d, c) = At(k, e, c) => d = e
           /\ \A i \in 0 .. c - 1 : \E d \in 0 .. c - 1 : At(k, d, c) = i
<1> DEFINE h == Hash[k] % c
<1>1. Hash[k] \in Nat
  BY MapAssumption
<1>2. h \in 0 .. c - 1
  BY <1>1
<1> HIDE DEF h
<1>3. \A d : At(k, d, c) = IF h + d < c THEN h + d ELSE h + d - c
  BY DEF At, h
<1>4. \A i \in 0 .. c - 1 : \E d \in 0 .. c - 1 : At(k, d, c) = i
  <2> TAKE i \in 0 .. c - 1
  <2> DEFINE d == IF i >= h THEN i - h ELSE i - h + c
  <2>1. d \in 0 .. c - 1 /\ At(k, d, c) = i
    BY <1>2, <1>3
  <2> QED  BY <2>1
<1> QED  BY <1>2, <1>3, <1>4

\* Every set of numbers that is not empty has a least one.
LEMMA Least ==
    ASSUME NEW T \in SUBSET Nat, T # {}
    PROVE  \E x \in T : \A y \in T : x <= y
<1>1. PICK x \in T : \A y \in T : ~(<<y, x>> \in OpToRel(<, Nat))
  BY NatLessThanWellFounded, WFMin
<1>2. \A y \in T : ~(y < x)
  BY <1>1 DEF OpToRel
<1> QED  BY <1>2

\* A search ends if any slot was never used.
LEMMA SearchEnds ==
    ASSUME NEW c \in Nat \ {0}, NEW s \in Slots(c), NEW k \in Keys,
           NEW i \in 0 .. c - 1, s[i].key = Empty
    PROVE  \E d \in 0 .. c - 1 : Stops(s, c, k, d)
<1> DEFINE T == {d \in 0 .. c - 1 : s[At(k, d, c)].key \in {k, Empty}}
<1>1. T # {}
  BY Places
<1>2. PICK d \in T : \A e \in T : d <= e
  <2>1. T \in SUBSET Nat
    OBVIOUS
  <2> QED  BY <2>1, <1>1, Least
<1>3. \A e \in 0 .. d - 1 : e \in 0 .. c - 1 /\ ~(d <= e)
  BY DEF T
<1> QED  BY <1>2, <1>3 DEF Stops

\* It ends in one place only,
LEMMA StopsOnce ==
    ASSUME NEW c \in Nat \ {0}, NEW s, NEW k, NEW d, NEW e,
           Stops(s, c, k, d), Stops(s, c, k, e)
    PROVE  d = e
BY DEF Stops

\* which is the slot of the key, if it has one;
LEMMA SearchFinds ==
    ASSUME NEW c \in Nat \ {0}, NEW s \in Slots(c), Reaches(s, c),
           NEW i \in Live(s), NEW d, Stops(s, c, s[i].key, d)
    PROVE  At(s[i].key, d, c) = i
BY StopsOnce DEF Reaches

\* so no key has two.
LEMMA KeysDiffer ==
    ASSUME NEW c \in Nat \ {0}, NEW s \in Slots(c), Reaches(s, c),
           NEW i \in Live(s), NEW j \in Live(s), s[i].key = s[j].key
    PROVE  i = j
<1>1. PICK d \in 0 .. c - 1 : At(s[i].key, d, c) = i /\ Stops(s, c, s[i].key, d)
  BY DEF Reaches
<1> QED  BY <1>1, SearchFinds

-----------------------------------------------------------------------------
(* What a write does to the slots *)

\* The search for k ends after d steps, and k goes to offset e.
Goes(s, c, k, d, e) ==
    /\ Stops(s, c, k, d)
    /\ e \in 0 .. d
    /\ IF s[At(k, d, c)].key = k
       THEN e = d
       ELSE /\ s[At(k, e, c)].key \in {Empty, Tombstone}
            /\ \A f \in 0 .. e - 1 : s[At(k, f, c)].key # Tombstone

With(s, i, k, v) == [s EXCEPT ![i] = [key |-> k, value |-> v]]

\* A key that has a slot is written to it, another one to a slot without a key.
LEMMA Target ==
    ASSUME NEW c \in Nat \ {0}, NEW s \in Slots(c), Reaches(s, c), NEW k \in Keys,
           NEW d, NEW e, Goes(s, c, k, d, e)
    PROVE  /\ At(k, e, c) \in 0 .. c - 1
           /\ e \in 0 .. c - 1
           /\ \A i \in Live(s) : s[i].key = k => i = At(k, e, c)
           /\ s[At(k, d, c)].key = k => At(k, e, c) \in Live(s) /\ s[At(k, e, c)].key = k
           /\ s[At(k, d, c)].key # k => At(k, e, c) \notin Live(s)
<1>1. d \in 0 .. c - 1 /\ e \in 0 .. c - 1
  BY DEF Goes, Stops
<1>2. At(k, e, c) \in 0 .. c - 1
  BY <1>1, Places
<1>3. DOMAIN s = 0 .. c - 1
  BY DEF Slots
<1>4. ASSUME NEW i \in Live(s), s[i].key = k
      PROVE  i = At(k, d, c) /\ e = d
  BY <1>4, SearchFinds DEF Goes
<1>5. s[At(k, d, c)].key = k => At(k, e, c) \in Live(s) /\ s[At(k, e, c)].key = k
  BY <1>2, <1>3 DEF Goes, Live
<1>6. s[At(k, d, c)].key # k => At(k, e, c) \notin Live(s)
  BY MapAssumption DEF Goes, Live
<1> QED  BY <1>1, <1>2, <1>4, <1>5, <1>6

\* A write keeps every key within reach, and uses one slot more at most.
LEMMA WriteSlots ==
    ASSUME NEW c \in Nat \ {0}, NEW s \in Slots(c), Reaches(s, c),
           NEW k \in Keys, NEW v \in Values \cup {Null},
           NEW d, NEW e, Goes(s, c, k, d, e)
    PROVE  LET t == With(s, At(k, e, c), k, v)
           IN  /\ t \in Slots(c)
               /\ Reaches(t, c)
               /\ Live(t) = Live(s) \cup {At(k, e, c)}
               /\ Tombs(t) = Tombs(s) \ {At(k, e, c)}
<1> DEFINE a == At(k, e, c)
           t == With(s, a, k, v)
<1>1. a \in 0 .. c - 1 /\ e \in 0 .. c - 1
  BY Target
<1>2. DOMAIN s = 0 .. c - 1 /\ DOMAIN t = 0 .. c - 1
  BY DEF Slots, With
<1>3. t[a] = [key |-> k, value |-> v] /\ \A i \in 0 .. c - 1 : i # a => t[i] = s[i]
  BY <1>1, <1>2 DEF With
<1>4. t \in Slots(c)
  <2>1. [key |-> k, value |-> v] \in Slot
    BY DEF Slot
  <2> QED  BY <2>1, <1>1 DEF Slots, With
<1>5. k # Empty /\ k # Tombstone
  BY MapAssumption
<1> HIDE DEF a, t
<1>6. Live(t) = Live(s) \cup {a} /\ Tombs(t) = Tombs(s) \ {a}
  BY <1>1, <1>2, <1>3, <1>5 DEF Live, Tombs
<1>7. Reaches(t, c)
  <2> SUFFICES ASSUME NEW i \in Live(t)
               PROVE  \E x \in 0 .. c - 1 : At(t[i].key, x, c) = i /\ Stops(t, c, t[i].key, x)
    BY DEF Reaches
  <2>1. CASE i = a
    <3>1. \A f \in 0 .. e - 1 : f \in 0 .. c - 1 /\ f # e /\ At(k, f, c) # a
      <4>1. \A f \in 0 .. e - 1 : f \in 0 .. c - 1 /\ f # e
        BY <1>1
      <4> QED  BY <4>1, <1>1, Places DEF a
    <3>2. \A f \in 0 .. e - 1 : t[At(k, f, c)] = s[At(k, f, c)] /\ f \in 0 .. d - 1
      <4>1. \A f \in 0 .. e - 1 : f \in 0 .. d - 1
        BY DEF Goes, Stops
      <4> QED  BY <4>1, <3>1, <1>3, Places
    <3>3. Stops(t, c, k, e)
      BY <1>1, <1>3, <3>2 DEF Stops, Goes, a
    <3> QED  BY <2>1, <3>3, <1>1, <1>3 DEF a
  <2>2. CASE i # a
    <3>1. i \in Live(s) /\ t[i] = s[i] /\ i \in 0 .. c - 1
      BY <2>2, <1>6, <1>2, <1>3 DEF Live
    <3> DEFINE m == s[i].key
    <3>2. m # k /\ m \in Keys
      BY <3>1, <2>2, Target DEF a, Live
    <3>3. PICK x \in 0 .. c - 1 : At(m, x, c) = i /\ Stops(s, c, m, x)
      BY <3>1 DEF Reaches
    <3> HIDE DEF m
    <3>4. \A f \in 0 .. x - 1 : t[At(m, f, c)].key \notin {m, Empty}
      <4> TAKE f \in 0 .. x - 1
      <4>1. f \in 0 .. c - 1 /\ At(m, f, c) \in 0 .. c - 1
        BY <3>2, Places
      <4>2. s[At(m, f, c)].key \notin {m, Empty}
        BY <3>3 DEF Stops
      <4> QED  BY <4>1, <4>2, <1>3, <1>5, <3>2
    <3>5. Stops(t, c, m, x)
      BY <3>1, <3>3, <3>4 DEF Stops, m
    <3> QED  BY <3>1, <3>3, <3>5 DEF m
  <2> QED  BY <2>1, <2>2
<1> QED  BY <1>4, <1>6, <1>7 DEF a, t

-----------------------------------------------------------------------------
(* What a write and a deletion do to the pairs *)

\* A write puts one pair in the place of those of its key.
LEMMA WritePairs ==
    ASSUME NEW c \in Nat \ {0}, NEW s \in Slots(c), Reaches(s, c),
           NEW k \in Keys, NEW v \in Values \cup {Null},
           NEW d, NEW e, Goes(s, c, k, d, e)
    PROVE  PairsOf(With(s, At(k, e, c), k, v), 0) = Others(PairsOf(s, 0), k) \cup {<<k, v>>}
<1> DEFINE a == At(k, e, c)
           t == With(s, a, k, v)
<1>1. a \in 0 .. c - 1 /\ \A i \in Live(s) : s[i].key = k => i = a
  BY Target
<1>2. DOMAIN s = 0 .. c - 1 /\ Live(s) \subseteq 0 .. c - 1
  BY DEF Slots, Live
<1>3. t[a] = [key |-> k, value |-> v] /\ \A i \in 0 .. c - 1 : i # a => t[i] = s[i]
  BY <1>1, <1>2 DEF With
<1>4. Live(t) = Live(s) \cup {a}
  BY WriteSlots
<1> HIDE DEF a, t
<1>5. ASSUME NEW p \in PairsOf(t, 0)
      PROVE  p \in Others(PairsOf(s, 0), k) \cup {<<k, v>>}
  <2>1. PICK i \in Live(t) : p = <<t[i].key, t[i].value>> /\ i >= 0
    BY <1>5 DEF PairsOf
  <2>2. CASE i = a
    BY <2>1, <2>2, <1>3
  <2>3. CASE i # a
    <3>1. i \in Live(s) /\ t[i] = s[i] /\ s[i].key # k
      BY <2>1, <2>3, <1>1, <1>2, <1>3, <1>4
    <3> QED  BY <3>1, <2>1 DEF PairsOf, Others
  <2> QED  BY <2>2, <2>3
<1>6. ASSUME NEW p \in Others(PairsOf(s, 0), k)
      PROVE  p \in PairsOf(t, 0)
  <2>1. PICK i \in Live(s) : p = <<s[i].key, s[i].value>> /\ i >= 0 /\ s[i].key # k
    BY <1>6 DEF PairsOf, Others
  <2>2. i # a
    BY <2>1, Target DEF a
  <2> QED  BY <2>1, <2>2, <1>2, <1>3, <1>4 DEF PairsOf
<1>7. <<k, v>> \in PairsOf(t, 0)
  BY <1>1, <1>3, <1>4 DEF PairsOf
<1> QED  BY <1>5, <1>6, <1>7 DEF a, t

\* What Erased leaves.
Without(s, i) == [s EXCEPT ![i] = [key |-> Tombstone, value |-> Null]]

\* A deletion keeps every other key within reach, and takes out the pair of one key.
LEMMA EraseSlots ==
    ASSUME NEW c \in Nat \ {0}, NEW s \in Slots(c), Reaches(s, c), NEW a \in Live(s)
    PROVE  LET t == Without(s, a)
           IN  /\ t \in Slots(c)
               /\ Reaches(t, c)
               /\ Live(t) = Live(s) \ {a}
               /\ Tombs(t) = Tombs(s) \cup {a}
               /\ PairsOf(t, 0) = Others(PairsOf(s, 0), s[a].key)
<1> DEFINE t == Without(s, a)
<1>1. DOMAIN s = 0 .. c - 1 /\ DOMAIN t = 0 .. c - 1 /\ a \in 0 .. c - 1
  BY DEF Slots, Without, Live
<1>2. t[a] = [key |-> Tombstone, value |-> Null] /\ \A i \in 0 .. c - 1 : i # a => t[i] = s[i]
  BY <1>1 DEF Without
<1>3. t \in Slots(c)
  <2>1. [key |-> Tombstone, value |-> Null] \in Slot
    BY DEF Slot
  <2> QED  BY <2>1, <1>1 DEF Slots, Without
<1>4. Tombstone \notin Keys /\ Tombstone # Empty
  BY MapAssumption
<1> HIDE DEF t
<1>5. Live(t) = Live(s) \ {a} /\ Tombs(t) = Tombs(s) \cup {a}
  BY <1>1, <1>2, <1>4 DEF Live, Tombs
<1>6. \A i \in Live(t) : i # a /\ i \in Live(s) /\ t[i] = s[i] /\ s[i].key \in Keys
  BY <1>5, <1>1, <1>2 DEF Live
<1>7. Reaches(t, c)
  <2> SUFFICES ASSUME NEW i \in Live(t)
               PROVE  \E x \in 0 .. c - 1 : At(t[i].key, x, c) = i /\ Stops(t, c, t[i].key, x)
    BY DEF Reaches
  <2> DEFINE m == s[i].key
  <2>1. PICK x \in 0 .. c - 1 : At(m, x, c) = i /\ Stops(s, c, m, x)
    BY <1>6 DEF Reaches
  <2>2. m \in Keys /\ t[i].key = m
    BY <1>6
  <2> HIDE DEF m
  <2>3. \A f \in 0 .. x - 1 : t[At(m, f, c)].key \notin {m, Empty}
    <3> TAKE f \in 0 .. x - 1
    <3>1. f \in 0 .. c - 1 /\ At(m, f, c) \in 0 .. c - 1
      BY <2>2, Places
    <3>2. s[At(m, f, c)].key \notin {m, Empty}
      BY <2>1 DEF Stops
    <3> QED  BY <3>1, <3>2, <1>2, <1>4, <2>2
  <2>4. Stops(t, c, m, x)
    BY <2>1, <2>2, <2>3 DEF Stops
  <2> QED  BY <2>1, <2>2, <2>4
<1>8. PairsOf(t, 0) = Others(PairsOf(s, 0), s[a].key)
  <2>1. ASSUME NEW p \in PairsOf(t, 0)
        PROVE  p \in Others(PairsOf(s, 0), s[a].key)
    <3>1. PICK i \in Live(t) : p = <<s[i].key, s[i].value>> /\ i >= 0
      BY <2>1, <1>6 DEF PairsOf
    <3>2. i \in Live(s) /\ s[i].key # s[a].key
      BY <1>6, KeysDiffer
    <3> QED  BY <3>1, <3>2 DEF PairsOf, Others
  <2>2. ASSUME NEW p \in Others(PairsOf(s, 0), s[a].key)
        PROVE  p \in PairsOf(t, 0)
    <3>1. PICK i \in Live(s) : p = <<s[i].key, s[i].value>> /\ i >= 0 /\ s[i].key # s[a].key
      BY <2>2 DEF PairsOf, Others
    <3>2. i \in Live(t)
      BY <3>1, <1>5
    <3> QED  BY <3>1, <3>2, <1>6 DEF PairsOf
  <2> QED  BY <2>1, <2>2
<1> QED  BY <1>3, <1>5, <1>7, <1>8 DEF t

-----------------------------------------------------------------------------
(* The inductive invariant *)

\* What is used, and what has still to come, leaves a slot unused.
Room ==
    (length + tombstones + Cardinality(Left) + (IF pending = <<>> THEN 0 ELSE 1)) * 4
        <= capacity * 3

\* No key has still to come twice, or is there already.
NoneTwice ==
    /\ \A i, j \in Left : old[i].key = old[j].key => i = j
    /\ \A i \in Left : \A p \in PairsOf(slots, 0) : p[1] # old[i].key

Inv ==
    /\ TypeOK
    /\ Reaches(slots, capacity)
    /\ CountersExact
    /\ Room
    /\ NoneTwice
    /\ ~Rebuilding => at = 0 /\ pending = <<>>
    /\ pending # <<>> => call = Call(pending[1], {pending[2]})

\* Slots are finitely many.
LEMMA Finite ==
    ASSUME NEW c \in Nat, NEW s \in Slots(c)
    PROVE  /\ IsFiniteSet(Live(s)) /\ IsFiniteSet(Tombs(s))
           /\ Cardinality(Live(s)) \in Nat /\ Cardinality(Tombs(s)) \in Nat
<1>1. IsFiniteSet(0 .. c - 1)
  BY FS_Interval
<1>2. Live(s) \in SUBSET (0 .. c - 1) /\ Tombs(s) \in SUBSET (0 .. c - 1)
  BY DEF Live, Tombs, Slots
<1>3. IsFiniteSet(Live(s)) /\ IsFiniteSet(Tombs(s))
  BY <1>1, <1>2, FS_Subset
<1> QED  BY <1>3, FS_CardinalityType

\* What has still to come is finite, and nothing when no rebuild is under way.
LEMMA LeftFinite ==
    ASSUME TypeOK
    PROVE  /\ Left \subseteq Live(old) /\ IsFiniteSet(Left) /\ Cardinality(Left) \in Nat
           /\ ~Rebuilding => Left = {} /\ Cardinality(Left) = 0
<1>1. old \in Slots(oldCapacity) /\ oldCapacity \in Nat
  BY DEF TypeOK, Slots
<1>2. Left \in SUBSET Live(old)
  BY DEF Left
<1>3. IsFiniteSet(Left)
  BY <1>1, <1>2, Finite, FS_Subset
<1>4. Cardinality(Left) \in Nat
  BY <1>3, FS_CardinalityType
<1>5. ~Rebuilding => Left = {}
  BY <1>1, <1>2 DEF Rebuilding, Live, Slots
<1>6. ~Rebuilding => Cardinality(Left) = 0
  BY <1>5, FS_EmptySet
<1> QED  BY <1>2, <1>3, <1>4, <1>5, <1>6

\* New slots have nothing in them.
LEMMA BlankSlots ==
    ASSUME NEW n \in Nat
    PROVE  /\ Blank(n) \in Slots(n)
           /\ Live(Blank(n)) = {} /\ Tombs(Blank(n)) = {}
           /\ Reaches(Blank(n), n)
           /\ \A m : PairsOf(Blank(n), m) = {}
<1>1. Blank(n) \in Slots(n)
  BY DEF Blank, Slots, Slot
<1>2. Live(Blank(n)) = {} /\ Tombs(Blank(n)) = {}
  BY MapAssumption DEF Live, Tombs, Blank
<1> QED  BY <1>1, <1>2 DEF Reaches, PairsOf

\* A table with room has a slot that was never used.
LEMMA UnusedSlot ==
    ASSUME Inv
    PROVE  \E i \in 0 .. capacity - 1 : slots[i].key = Empty
<1> SUFFICES ASSUME \A i \in 0 .. capacity - 1 : slots[i].key # Empty
             PROVE  FALSE
  OBVIOUS
<1>1. capacity \in Nat \ {0} /\ slots \in Slots(capacity)
  BY MapAssumption DEF Inv, TypeOK, Slots
<1>2. Live(slots) \cup Tombs(slots) = 0 .. capacity - 1
  <2>1. \A i \in 0 .. capacity - 1 : slots[i] \in Slot
    BY <1>1 DEF Slots
  <2>2. DOMAIN slots = 0 .. capacity - 1
    BY <1>1 DEF Slots
  <2> QED  BY <2>1, <2>2 DEF Live, Tombs, Slot
<1>3. Live(slots) \cap Tombs(slots) = {}
  BY MapAssumption DEF Live, Tombs
<1>4. Cardinality(0 .. capacity - 1) = capacity
  BY <1>1, FS_Interval
<1>5. Cardinality(Live(slots) \cup Tombs(slots)) = length + tombstones
  <2>1. Cardinality(Live(slots) \cup Tombs(slots))
          = Cardinality(Live(slots)) + Cardinality(Tombs(slots)) - Cardinality(Live(slots) \cap Tombs(slots))
    BY <1>1, Finite, FS_Union
  <2>2. Cardinality(Live(slots) \cap Tombs(slots)) = 0
    BY <1>3, FS_EmptySet
  <2> QED  BY <2>1, <2>2, <1>1, Finite DEF Inv, CountersExact
<1>6. length \in Nat /\ tombstones \in Nat /\ Cardinality(Left) \in Nat
  BY LeftFinite DEF Inv, TypeOK
<1>7. (length + tombstones) * 4 <= capacity * 3
  BY <1>1, <1>6 DEF Inv, Room
<1>8. length + tombstones = capacity
  <2> HIDE DEF Live, Tombs
  <2> QED  BY ONLY <1>2, <1>4, <1>5, Zenon
<1> QED  BY <1>1, <1>6, <1>7, <1>8

\* Write, as the lemmas above know it.
LEMMA Writing ==
    ASSUME TypeOK, Reaches(slots, capacity), CountersExact,
           NEW k \in Keys, NEW v \in Values \cup {Null}, Write(k, v)
    PROVE  /\ slots' \in Slots(capacity)
           /\ Reaches(slots', capacity)
           /\ PairsOf(slots', 0) = Others(PairsOf(slots, 0), k) \cup {<<k, v>>}
           /\ length' = Cardinality(Live(slots')) /\ tombstones' = Cardinality(Tombs(slots'))
           /\ length' \in Nat /\ tombstones' \in Nat
           /\ length' + tombstones' <= length + tombstones + 1
<1>1. capacity \in Nat \ {0} /\ slots \in Slots(capacity)
  BY MapAssumption DEF TypeOK, Slots
<1>2. \A d : Place(k, d) = At(k, d, capacity)
  BY DEF Place, Home, At
<1>3. PICK d \in Offsets, e \in Offsets :
        /\ Search(k, d)
        /\ IF Finds(k, d) THEN e = d ELSE IsFree(k, d, e)
        /\ slots' = [slots EXCEPT ![Place(k, e)] = [key |-> k, value |-> v]]
        /\ length' = IF Finds(k, d) THEN length ELSE length + 1
        /\ tombstones' = IF slots[Place(k, e)].key = Tombstone THEN tombstones - 1 ELSE tombstones
  BY DEF Write
<1> DEFINE a == At(k, e, capacity)
<1>4. Goes(slots, capacity, k, d, e)
  BY <1>2, <1>3 DEF Goes, Stops, Search, Ends, Finds, IsFree, Offsets
<1>5. slots' = With(slots, a, k, v)
  BY <1>2, <1>3 DEF With
<1>6. Live(slots') = Live(slots) \cup {a} /\ Tombs(slots') = Tombs(slots) \ {a}
  BY <1>1, <1>4, <1>5, WriteSlots
<1>7. a \in 0 .. capacity - 1 /\ (a \in Live(slots) <=> Finds(k, d))
  BY <1>1, <1>2, <1>3, <1>4, Target DEF Finds
<1>8. a \in Tombs(slots) <=> slots[Place(k, e)].key = Tombstone
  BY <1>1, <1>2, <1>7 DEF Tombs, Slots
<1> HIDE DEF a
<1>9. length = Cardinality(Live(slots)) /\ tombstones = Cardinality(Tombs(slots))
      /\ length \in Nat /\ tombstones \in Nat
  BY DEF CountersExact, TypeOK
<1>10. length' = Cardinality(Live(slots'))
  <2>1. Cardinality(Live(slots) \cup {a})
          = IF a \in Live(slots) THEN Cardinality(Live(slots)) ELSE Cardinality(Live(slots)) + 1
    BY <1>1, Finite, FS_AddElement
  <2> QED  BY <2>1, <1>3, <1>6, <1>7, <1>9
<1>11. tombstones' = Cardinality(Tombs(slots'))
  <2>1. Cardinality(Tombs(slots) \ {a})
          = IF a \in Tombs(slots) THEN Cardinality(Tombs(slots)) - 1 ELSE Cardinality(Tombs(slots))
    BY <1>1, Finite, FS_RemoveElement
  <2> QED  BY <2>1, <1>3, <1>6, <1>8, <1>9
<1>12. slots' \in Slots(capacity) /\ Reaches(slots', capacity)
  BY <1>1, <1>4, <1>5, WriteSlots DEF a
<1>13. PairsOf(slots', 0) = Others(PairsOf(slots, 0), k) \cup {<<k, v>>}
  BY <1>1, <1>4, <1>5, WritePairs DEF a
<1>14. length' \in Nat /\ tombstones' \in Nat
  BY <1>1, <1>10, <1>11, <1>12, Finite
<1>15. length' + tombstones' <= length + tombstones + 1
  BY <1>3, <1>9
<1> QED  BY <1>10, <1>11, <1>12, <1>13, <1>14, <1>15

\* The pairs that have still to come.
LEMMA PairsLeft ==
    PairsOf(old, at) = {<<old[i].key, old[i].value>> : i \in Left}
BY DEF PairsOf, Left

\* The backend for arithmetic does not take primed variables for numbers: where
\* they are added, the facts are stated of any numbers first.
LEMMA Arithmetic ==
    /\ \A l, t, m, u, c \in Nat :
          m + u <= l + t + 1 /\ (l + t + 1) * 4 <= c * 3 => (m + u) * 4 <= c * 3
    /\ \A l, t, m, u, c, x, y, q \in Nat :
          m + u <= l + t + 1 /\ x = y + 1 /\ (l + t + x + q) * 4 <= c * 3
            => (m + u + y + q) * 4 <= c * 3
OBVIOUS

-----------------------------------------------------------------------------
(* The actions *)

\* A rebuild begins: everything has still to come.
LEMMA RebuildStep ==
    ASSUME Inv, NEW s \in Slots(capacity), Reaches(s, capacity),
           NEW n \in Nat, n >= capacity, NEW q, q = <<>> \/ q \in Keys \X Values,
           (Cardinality(Live(s)) + (IF q = <<>> THEN 0 ELSE 1)) * 4 <= n * 3,
           call' \in Calls, q # <<>> => call' = Call(q[1], {q[2]}),
           Rebuild(s, n, q)
    PROVE  Inv' /\ pending' = q /\ Contents' = PairsOf(s, 0)
<1>1. /\ old' = s /\ oldCapacity' = capacity /\ at' = 0 /\ pending' = q
      /\ capacity' = n /\ slots' = Blank(n) /\ length' = 0 /\ tombstones' = 0
  BY DEF Rebuild
<1>2. capacity \in Nat \ {0} /\ capacity >= MinCapacity
  BY MapAssumption DEF Inv, TypeOK
<1>3. Live(s) \subseteq 0 .. capacity - 1
  BY DEF Live, Slots
<1>4. Left' = Live(s)
  BY <1>1, <1>3 DEF Left, Live
<1>5. TypeOK'
  <2>1. slots' \in [0 .. capacity' - 1 -> Slot]
    BY <1>1, BlankSlots DEF Slots
  <2>2. old' \in [0 .. oldCapacity' - 1 -> Slot]
    BY <1>1 DEF Slots
  <2>3. capacity' \in Nat /\ capacity' >= MinCapacity
    BY <1>1, <1>2, MapAssumption
  <2>4. oldCapacity' \in Nat /\ at' \in 0 .. oldCapacity' /\ length' \in Nat /\ tombstones' \in Nat
    BY <1>1, <1>2
  <2>5. pending' = <<>> \/ pending' \in Keys \X Values
    BY <1>1
  <2> QED  BY <2>1, <2>2, <2>3, <2>4, <2>5 DEF TypeOK
<1>6. Reaches(slots', capacity')
  BY <1>1, BlankSlots
<1>7. CountersExact'
  <2>1. Live(slots') = {} /\ Tombs(slots') = {}
    BY <1>1, BlankSlots
  <2>2. Cardinality(Live(slots')) = 0 /\ Cardinality(Tombs(slots')) = 0
    BY <2>1, FS_EmptySet
  <2> QED  BY <1>1, <2>2 DEF CountersExact
<1>8. Room'
  <2>1. Cardinality(Live(s)) \in Nat
    BY <1>2, Finite
  <2>2. Cardinality(Left') = Cardinality(Live(s))
    BY <1>4
  <2> QED  BY <1>1, <2>1, <2>2 DEF Room
<1>9. PairsOf(slots', 0) = {}
  BY <1>1, BlankSlots
<1>10. NoneTwice'
  BY <1>1, <1>2, <1>4, <1>9, KeysDiffer DEF NoneTwice
<1>11. Rebuilding'
  BY <1>1, <1>2 DEF Rebuilding
<1>12. Contents' = PairsOf(s, 0)
  BY <1>1, <1>9 DEF Contents
<1>13. pending' # <<>> => call' = Call(pending'[1], {pending'[2]})
  BY <1>1
<1> QED  BY <1>1, <1>5, <1>6, <1>7, <1>8, <1>10, <1>11, <1>12, <1>13 DEF Inv

\* A key is written to a table that is not being rebuilt.
LEMMA WriteStep ==
    ASSUME Inv, ~Rebuilding, NEW k \in Keys, NEW v \in Values \cup {Null}, Write(k, v),
           (length' + tombstones') * 4 <= capacity * 3, UNCHANGED <<capacity, rebuildVars>>,
           call' \in Calls
    PROVE  Inv' /\ pending' = <<>> /\ Contents' = Others(Contents, k) \cup {<<k, v>>}
<1>1. /\ capacity' = capacity /\ old' = old /\ oldCapacity' = oldCapacity
      /\ at' = at /\ pending' = pending
  BY DEF rebuildVars
<1>2. /\ slots' \in Slots(capacity)
      /\ Reaches(slots', capacity)
      /\ PairsOf(slots', 0) = Others(PairsOf(slots, 0), k) \cup {<<k, v>>}
      /\ length' = Cardinality(Live(slots')) /\ tombstones' = Cardinality(Tombs(slots'))
      /\ length' \in Nat /\ tombstones' \in Nat
  BY Writing DEF Inv
<1>3. Left = {} /\ Left' = {} /\ pending = <<>>
  BY <1>1, LeftFinite DEF Left, Inv
<1>4. Cardinality(Left') = 0
  BY <1>3, FS_EmptySet
<1>5. TypeOK'
  BY <1>1, <1>2 DEF Inv, TypeOK, Slots
<1>6. CountersExact'
  BY <1>2 DEF CountersExact
<1>7. Room'
  BY <1>1, <1>2, <1>3, <1>4 DEF Room
<1>8. NoneTwice'
  BY <1>3 DEF NoneTwice
<1>9. PairsOf(old, at) = {} /\ PairsOf(old', at') = {}
  BY <1>1, <1>3, PairsLeft
<1>10. Contents' = Others(Contents, k) \cup {<<k, v>>}
  BY <1>2, <1>9 DEF Contents
<1> QED  BY <1>1, <1>2, <1>3, <1>5, <1>6, <1>7, <1>8, <1>10 DEF Inv, Rebuilding

\* A call to put in a value, and one to delete, are calls.
LEMMA CallTypes ==
    ASSUME NEW k \in Keys, NEW v \in Values
    PROVE  Call(k, {v}) \in Calls
BY DEF Call, Calls

LEMMA DeletionTypes ==
    ASSUME NEW k \in Keys
    PROVE  Call(k, {}) \in Calls
BY DEF Call, Calls

\* am_map_set: the pair is there at once, or a larger table is to be filled first
\* and the pair waits.
LEMMA SetStep ==
    ASSUME Inv, NEW k \in Keys, NEW v \in Values, Set(k, v)
    PROVE  /\ Inv' /\ call' = Call(k, {v}) /\ pending = <<>>
           /\ \/ pending' # <<>> /\ Contents' = Contents
              \/ pending' = <<>> /\ Contents' = Others(Contents, k) \cup {<<k, v>>}
<1>1. capacity \in Nat /\ capacity >= 2 /\ length \in Nat /\ tombstones \in Nat
      /\ slots \in Slots(capacity) /\ ~Rebuilding /\ pending = <<>>
  BY MapAssumption DEF Inv, TypeOK, Set, Slots
<1>0. call' = Call(k, {v}) /\ call' \in Calls
  BY CallTypes DEF Set
<1>2. CASE ~Crowded /\ Write(k, v) /\ UNCHANGED <<capacity, rebuildVars>>
  <2>1. /\ length' \in Nat /\ tombstones' \in Nat
        /\ length' + tombstones' <= length + tombstones + 1
    BY <1>2, Writing DEF Inv
  <2>2. (length' + tombstones') * 4 <= capacity * 3
    <3>1. (length + tombstones + 1) * 4 <= capacity * 3
      BY <1>1, <1>2 DEF Crowded
    <3> QED  BY <1>1, <2>1, <3>1, Arithmetic, Zenon
  <2> QED  BY <1>0, <1>1, <1>2, <2>2, WriteStep
<1>3. CASE Rebuild(slots, 2 * capacity, <<k, v>>)
  <2>1. <<k, v>> \in Keys \X Values /\ <<k, v>> # <<>> /\ call' = Call(<<k, v>>[1], {<<k, v>>[2]})
    BY <1>0
  <2>2. length = Cardinality(Live(slots)) /\ Cardinality(Left) \in Nat
    BY LeftFinite DEF Inv, CountersExact
  <2>3. length * 4 <= capacity * 3
    BY <1>1, <2>2 DEF Inv, Room
  <2>4. (Cardinality(Live(slots)) + (IF <<k, v>> = <<>> THEN 0 ELSE 1)) * 4 <= (2 * capacity) * 3
    BY <1>1, <2>1, <2>2, <2>3
  <2>5. 2 * capacity \in Nat /\ 2 * capacity >= capacity /\ Reaches(slots, capacity)
    BY <1>1 DEF Inv
  <2>6. Inv' /\ pending' = <<k, v>> /\ Contents' = PairsOf(slots, 0)
    BY <1>0, <1>1, <1>3, <2>1, <2>4, <2>5, RebuildStep
  <2>7. PairsOf(old, at) = {}
    BY <1>1, LeftFinite, PairsLeft DEF Inv
  <2> QED  BY <1>0, <1>1, <2>1, <2>6, <2>7 DEF Contents
<1> QED  BY <1>2, <1>3 DEF Set

\* am_map_set_stable writes to a slot that has the key.
LEMMA SetStableStep ==
    ASSUME Inv, NEW k \in Keys, NEW v \in Values, SetStable(k, v)
    PROVE  /\ Inv' /\ call' = Call(k, {v}) /\ pending = <<>> /\ pending' = <<>>
           /\ Contents' = Others(Contents, k) \cup {<<k, v>>}
<1>1. PICK d \in Offsets : Finds(k, d) /\ slots' = [slots EXCEPT ![Place(k, d)].value = v]
  BY DEF SetStable
<1>2. UNCHANGED <<capacity, length, tombstones, rebuildVars>> /\ ~Rebuilding
      /\ call' = Call(k, {v}) /\ call' \in Calls /\ pending = <<>>
  BY CallTypes DEF SetStable, Inv
<1>3. capacity \in Nat \ {0} /\ slots \in Slots(capacity)
      /\ length \in Nat /\ tombstones \in Nat
  BY MapAssumption DEF Inv, TypeOK, Slots
<1>4. Place(k, d) \in 0 .. capacity - 1
  BY <1>1, <1>3, Places DEF Place, Home, At, Offsets
<1>5. slots[Place(k, d)].key = k /\ slots[Place(k, d)] \in Slot /\ k # Tombstone
  BY <1>1, <1>3, <1>4, MapAssumption DEF Finds, Slots
<1>6. slots' = [slots EXCEPT ![Place(k, d)] = [key |-> k, value |-> v]]
  <2>1. [slots[Place(k, d)] EXCEPT !.value = v] = [key |-> k, value |-> v]
    BY <1>5 DEF Slot
  <2> QED  BY <1>1, <2>1
<1>7. Write(k, v)
  <2>1. length' = length /\ tombstones' = tombstones
    BY <1>2
  <2> QED  BY <1>1, <1>5, <1>6, <2>1 DEF Write, Finds
<1>8. (length' + tombstones') * 4 <= capacity * 3
  <2>1. Cardinality(Left) \in Nat
    BY LeftFinite DEF Inv
  <2> QED  BY <1>2, <1>3, <2>1 DEF Inv, Room
<1> QED  BY <1>2, <1>7, <1>8, WriteStep

\* am_map_delete, with and without the rebuild that follows it.
LEMMA DeleteStep ==
    ASSUME Inv, NEW k \in Keys, Delete(k)
    PROVE  /\ Inv' /\ call' = Call(k, {}) /\ pending = <<>> /\ pending' = <<>>
           /\ Contents' = Others(Contents, k)
<1>1. capacity \in Nat \ {0} /\ slots \in Slots(capacity) /\ Reaches(slots, capacity)
      /\ length \in Nat /\ tombstones \in Nat /\ ~Rebuilding
  BY MapAssumption DEF Inv, TypeOK, Slots, Delete
<1>0. call' = Call(k, {}) /\ call' \in Calls
  BY DeletionTypes DEF Delete
<1>2. PICK d \in Offsets :
        /\ Finds(k, d)
        /\ \/ /\ slots' = Erased(Place(k, d))
              /\ length' = length - 1 /\ tombstones' = tombstones + 1
              /\ UNCHANGED <<capacity, rebuildVars>>
           \/ Rebuild(Erased(Place(k, d)), capacity, <<>>)
  BY DEF Delete
<1> DEFINE a == Place(k, d)
           t == Without(slots, a)
<1>3. a \in Live(slots) /\ slots[a].key = k
  <2>1. a \in 0 .. capacity - 1
    BY <1>1, Places DEF Place, Home, At, Offsets
  <2> QED  BY <1>1, <1>2, <2>1 DEF Finds, Live, Slots
<1>4. Erased(a) = t
  BY DEF Erased, Without
<1>5. /\ t \in Slots(capacity) /\ Reaches(t, capacity)
      /\ Live(t) = Live(slots) \ {a} /\ Tombs(t) = Tombs(slots) \cup {a}
      /\ PairsOf(t, 0) = Others(PairsOf(slots, 0), k)
  BY <1>1, <1>3, EraseSlots
<1>6. a \notin Tombs(slots)
  BY <1>3, MapAssumption DEF Live, Tombs
<1> HIDE DEF a, t
<1>7. length = Cardinality(Live(slots)) /\ tombstones = Cardinality(Tombs(slots))
  BY DEF Inv, CountersExact
<1>8. Cardinality(Live(t)) = length - 1 /\ Cardinality(Tombs(t)) = tombstones + 1
      /\ Cardinality(Live(t)) \in Nat
  <2>1. Cardinality(Live(slots) \ {a}) = length - 1
    BY <1>1, <1>3, <1>7, Finite, FS_RemoveElement
  <2>2. Cardinality(Tombs(slots) \cup {a}) = tombstones + 1
    BY <1>1, <1>6, <1>7, Finite, FS_AddElement
  <2> QED  BY <1>1, <1>5, <2>1, <2>2, Finite
<1>9. Left = {} /\ Cardinality(Left) = 0 /\ pending = <<>> /\ PairsOf(old, at) = {}
  BY <1>1, LeftFinite, PairsLeft DEF Inv
<1>10. (length + tombstones) * 4 <= capacity * 3
  BY <1>1, <1>9 DEF Inv, Room
<1>11. CASE /\ slots' = t
            /\ length' = length - 1 /\ tombstones' = tombstones + 1
            /\ UNCHANGED <<capacity, rebuildVars>>
  <2>1. /\ capacity' = capacity /\ old' = old /\ oldCapacity' = oldCapacity
        /\ at' = at /\ pending' = pending
    BY <1>11 DEF rebuildVars
  <2>2. length' \in Nat /\ tombstones' \in Nat
    BY <1>1, <1>8, <1>11
  <2>3. TypeOK'
    BY <1>0, <1>5, <1>11, <2>1, <2>2 DEF Inv, TypeOK, Slots
  <2>4. CountersExact'
    BY <1>8, <1>11 DEF CountersExact
  <2>5. Left' = Left
    BY <2>1 DEF Left
  <2>6. Room'
    <3>1. Cardinality(Left') = 0
      BY <1>9, <2>5
    <3> QED  BY <1>1, <1>8, <1>9, <1>10, <1>11, <2>1, <3>1 DEF Room
  <2>7. NoneTwice'
    BY <1>9, <2>5 DEF NoneTwice
  <2>8. Contents' = Others(Contents, k)
    <3>1. PairsOf(old', at') = {}
      BY <1>9, <2>1
    <3> QED  BY <1>5, <1>9, <1>11, <3>1 DEF Contents
  <2> QED  BY <1>0, <1>1, <1>5, <1>9, <1>11, <2>1, <2>3, <2>4, <2>6, <2>7, <2>8 DEF Inv, Rebuilding
<1>12. CASE Rebuild(t, capacity, <<>>)
  <2>1. (Cardinality(Live(t)) + (IF <<>> = <<>> THEN 0 ELSE 1)) * 4 <= capacity * 3
    BY <1>1, <1>8, <1>10
  <2>2. capacity \in Nat /\ capacity >= capacity
    BY <1>1
  <2>3. Inv' /\ pending' = <<>> /\ Contents' = PairsOf(t, 0)
    BY <1>0, <1>5, <1>12, <2>1, <2>2, RebuildStep, Zenon
  <2> QED  BY <1>0, <1>5, <1>9, <2>3 DEF Contents
<1> QED  BY <1>2, <1>4, <1>11, <1>12 DEF a

\* An entry is put back: it is one that was not there yet.
LEMMA RefillStep ==
    ASSUME Inv, Refill
    PROVE  Inv' /\ UNCHANGED <<Contents, call, pending>>
<1>1. PICK i \in Left :
        /\ \A j \in Left : i <= j
        /\ Write(old[i].key, old[i].value)
        /\ at' = i + 1
  BY DEF Refill
<1>2. /\ capacity' = capacity /\ old' = old /\ oldCapacity' = oldCapacity /\ pending' = pending
      /\ call' = call /\ Rebuilding
  BY <1>1, LeftFinite DEF Refill, Inv
<1> DEFINE k == old[i].key
           v == old[i].value
<1>3. /\ capacity \in Nat /\ length \in Nat /\ tombstones \in Nat /\ oldCapacity \in Nat
      /\ at \in 0 .. oldCapacity
      /\ old \in [0 .. oldCapacity - 1 -> Slot]
  BY DEF Inv, TypeOK
<1>4. i \in 0 .. oldCapacity - 1 /\ i >= at /\ k \in Keys /\ v \in Values \cup {Null}
  BY <1>3 DEF Left, Live, Slot
<1>5. Left' = Left \ {i}
  <2>1. \A j \in Live(old) : j \in Nat
    BY <1>3 DEF Live
  <2>2. Left' = {j \in Live(old) : j >= i + 1}
    BY <1>1, <1>2 DEF Left
  <2>3. ASSUME NEW j \in Live(old)
        PROVE  j >= i + 1 <=> j >= at /\ j # i
    <3>1. j >= at => i <= j
      BY <1>1 DEF Left
    <3> QED  BY <1>3, <1>4, <2>1, <3>1
  <2> QED  BY <2>2, <2>3 DEF Left
<1>6. /\ slots' \in Slots(capacity)
      /\ Reaches(slots', capacity)
      /\ PairsOf(slots', 0) = Others(PairsOf(slots, 0), k) \cup {<<k, v>>}
      /\ length' = Cardinality(Live(slots')) /\ tombstones' = Cardinality(Tombs(slots'))
      /\ length' \in Nat /\ tombstones' \in Nat
      /\ length' + tombstones' <= length + tombstones + 1
  BY <1>1, <1>4, Writing DEF Inv
<1>7. Others(PairsOf(slots, 0), k) = PairsOf(slots, 0)
  BY DEF Inv, NoneTwice, Others
<1>8. \A j \in Left' : j \in Left /\ old[j].key # k
  BY <1>5 DEF Inv, NoneTwice
<1>9. TypeOK'
  <2>1. at' \in 0 .. oldCapacity'
    BY <1>1, <1>2, <1>3, <1>4
  <2>2. slots' \in [0 .. capacity' - 1 -> Slot]
    BY <1>2, <1>6 DEF Slots
  <2> QED  BY <1>2, <1>6, <2>1, <2>2 DEF Inv, TypeOK
<1>10. CountersExact'
  BY <1>6 DEF CountersExact
<1>11. Room'
  <2>1. Cardinality(Left) \in Nat /\ IsFiniteSet(Left)
    BY LeftFinite DEF Inv
  <2>2. Cardinality(Left') = Cardinality(Left) - 1 /\ Cardinality(Left') \in Nat
    <3>1. Cardinality(Left \ {i}) = Cardinality(Left) - 1
      BY <2>1, FS_RemoveElement
    <3>2. IsFiniteSet(Left \ {i})
      BY <2>1, FS_RemoveElement
    <3>3. Cardinality(Left \ {i}) \in Nat
      BY <3>2, FS_CardinalityType
    <3> QED  BY <1>5, <3>1, <3>3
  <2>3. Cardinality(Left) = Cardinality(Left') + 1
    <3>1. \A x, y : x \in Nat /\ y = x - 1 => x = y + 1
      OBVIOUS
    <3> QED  BY <2>1, <2>2, <3>1, Zenon
  <2> DEFINE q == IF pending = <<>> THEN 0 ELSE 1
  <2>4. q \in Nat
    OBVIOUS
  <2>5. (length + tombstones + Cardinality(Left) + q) * 4 <= capacity * 3
    BY DEF Inv, Room
  <2> HIDE DEF q
  <2>6. (length' + tombstones' + Cardinality(Left') + q) * 4 <= capacity * 3
    BY <1>3, <1>6, <2>1, <2>2, <2>3, <2>4, <2>5, Arithmetic, Zenon
  <2> QED  BY <1>2, <2>6 DEF Room, q
<1>12. NoneTwice'
  <2>1. \A j \in Left' : \A p \in PairsOf(slots', 0) : p[1] # old[j].key
    BY <1>6, <1>7, <1>8 DEF Inv, NoneTwice
  <2> QED  BY <1>2, <1>8, <2>1 DEF Inv, NoneTwice
<1>13. Contents' = Contents
  <2>1. PairsOf(old, at) = {<<old[j].key, old[j].value>> : j \in Left}
    BY PairsLeft
  <2>2. PairsOf(old', at') = {<<old[j].key, old[j].value>> : j \in Left'}
    BY <1>2 DEF PairsOf, Left
  <2>3. PairsOf(old, at) = PairsOf(old', at') \cup {<<k, v>>}
    BY <1>5, <2>1, <2>2
  <2> QED  BY <1>6, <1>7, <2>3 DEF Contents
<1> QED  BY <1>2, <1>6, <1>9, <1>10, <1>11, <1>12, <1>13 DEF Inv, Rebuilding

\* The rebuild is over, and am_map_set puts in what it waited with.
LEMMA RefilledStep ==
    ASSUME Inv, Refilled
    PROVE  /\ Inv' /\ call' = call /\ pending' = <<>>
           /\ \/ pending = <<>> /\ Contents' = Contents
              \/ /\ pending # <<>>
                 /\ \E k \in Keys, v \in Values :
                       call = Call(k, {v}) /\ Contents' = Others(Contents, k) \cup {<<k, v>>}
<1>1. /\ Left = {} /\ capacity' = capacity /\ call' = call
      /\ old' = Blank(0) /\ oldCapacity' = 0 /\ at' = 0 /\ pending' = <<>>
  BY DEF Refilled
<1>2. /\ capacity \in Nat /\ length \in Nat /\ tombstones \in Nat
      /\ slots \in Slots(capacity)
  BY DEF Inv, TypeOK, Slots
<1>3. Left' = {} /\ PairsOf(old, at) = {} /\ PairsOf(old', at') = {}
  BY <1>1, PairsLeft, BlankSlots DEF Left
<1>4. Cardinality(Left) = 0 /\ Cardinality(Left') = 0
  BY <1>1, <1>3, FS_EmptySet
<1>5. old' \in [0 .. oldCapacity' - 1 -> Slot]
  BY <1>1, BlankSlots DEF Slots
<1>6. NoneTwice' /\ ~Rebuilding'
  BY <1>1, <1>3 DEF NoneTwice, Rebuilding
<1>7. CASE pending = <<>>
  <2>1. slots' = slots /\ length' = length /\ tombstones' = tombstones
    BY <1>7 DEF Refilled
  <2>2. TypeOK'
    BY <1>1, <1>5, <2>1 DEF Inv, TypeOK
  <2>3. CountersExact'
    BY <2>1 DEF Inv, CountersExact
  <2>4. Room'
    BY <1>1, <1>2, <1>4, <1>7, <2>1 DEF Inv, Room
  <2>5. Contents' = Contents
    BY <1>3, <2>1 DEF Contents
  <2> QED  BY <1>1, <1>6, <1>7, <2>1, <2>2, <2>3, <2>4, <2>5 DEF Inv
<1>8. CASE pending # <<>>
  <2>1. PICK k \in Keys, v \in Values : pending = <<k, v>>
    BY <1>8 DEF Inv, TypeOK
  <2>2. Write(k, v) /\ call = Call(k, {v})
    BY <1>8, <2>1 DEF Refilled, Inv
  <2>3. /\ slots' \in Slots(capacity)
        /\ Reaches(slots', capacity)
        /\ PairsOf(slots', 0) = Others(PairsOf(slots, 0), k) \cup {<<k, v>>}
        /\ length' = Cardinality(Live(slots')) /\ tombstones' = Cardinality(Tombs(slots'))
        /\ length' \in Nat /\ tombstones' \in Nat
        /\ length' + tombstones' <= length + tombstones + 1
    BY <2>2, Writing DEF Inv
  <2>4. TypeOK'
    BY <1>1, <1>5, <2>3 DEF Inv, TypeOK, Slots
  <2>5. CountersExact'
    BY <2>3 DEF CountersExact
  <2>6. (length' + tombstones') * 4 <= capacity * 3
    <3>1. (length + tombstones + 1) * 4 <= capacity * 3
      BY <1>2, <1>4, <1>8 DEF Inv, Room
    <3> QED  BY <1>2, <2>3, <3>1, Arithmetic, Zenon
  <2>7. Room'
    BY <1>1, <1>4, <2>3, <2>6 DEF Room
  <2>8. Contents' = Others(Contents, k) \cup {<<k, v>>}
    BY <1>3, <2>3 DEF Contents
  <2> QED  BY <1>1, <1>6, <1>8, <2>2, <2>3, <2>4, <2>5, <2>7, <2>8 DEF Inv
<1> QED  BY <1>7, <1>8

-----------------------------------------------------------------------------
(* The theorems *)

\* A new table.
LEMMA InitInv == Init => Inv
<1> SUFFICES ASSUME Init PROVE Inv
  OBVIOUS
<1>1. /\ capacity = MinCapacity /\ slots = Blank(MinCapacity) /\ length = 0 /\ tombstones = 0
      /\ old = Blank(0) /\ oldCapacity = 0 /\ at = 0 /\ pending = <<>> /\ call \in Calls
  BY DEF Init, Call, Calls
<1>2. MinCapacity \in Nat /\ MinCapacity >= 2
  BY MapAssumption
<1>3. /\ slots \in Slots(capacity) /\ Reaches(slots, capacity)
      /\ Live(slots) = {} /\ Tombs(slots) = {}
  BY <1>1, <1>2, BlankSlots
<1>4. Left = {} /\ old \in Slots(0)
  BY <1>1, BlankSlots DEF Left
<1>5. TypeOK
  BY <1>1, <1>2, <1>3, <1>4 DEF TypeOK, Slots
<1>6. Cardinality(Live(slots)) = 0 /\ Cardinality(Tombs(slots)) = 0 /\ Cardinality(Left) = 0
  BY <1>3, <1>4, FS_EmptySet
<1>7. CountersExact /\ Room /\ NoneTwice
  BY <1>1, <1>2, <1>4, <1>6 DEF CountersExact, Room, NoneTwice
<1> QED  BY <1>1, <1>3, <1>5, <1>7 DEF Inv

\* Nothing happens.
LEMMA StutterInv == Inv /\ UNCHANGED vars => Inv' /\ UNCHANGED <<Contents, call, pending>>
BY DEF Inv, vars, rebuildVars, TypeOK, CountersExact, Room, NoneTwice, Rebuilding, Left, Contents

\* What a call asks for, in terms of the map: a pair in place of the key's others,
\* or none of the key's.
LEMMA CallsOfTable ==
    ASSUME NEW k \in Keys, NEW v \in Values
    PROVE  /\ Call(k, {v}) \in Promise!Calls
           /\ Promise!After(Call(k, {v})) = Others(Contents, k) \cup {<<k, v>>}
BY DEF Call, Promise!Call, Promise!Calls, Promise!After, Others

LEMMA DeletionsOfTable ==
    ASSUME NEW k \in Keys
    PROVE  /\ Call(k, {}) \in Promise!Calls
           /\ Promise!After(Call(k, {})) = Others(Contents, k)
BY DEF Call, Promise!Call, Promise!Calls, Promise!After, Others

\* Every step keeps the invariant and is one of the map, or none.
LEMMA Step ==
    ASSUME Inv, [Next]_vars
    PROVE  Inv' /\ [Promise!Next]_(Promise!vars)
<1>1. ASSUME NEW k \in Keys, Delete(k)
      PROVE  Inv' /\ Promise!Next
  <2>1. /\ Inv' /\ call' = Call(k, {}) /\ pending = <<>> /\ pending' = <<>>
        /\ Contents' = Others(Contents, k)
    BY <1>1, DeleteStep
  <2>2. Promise!Do
    BY <2>1, DeletionsOfTable DEF Promise!Do
  <2> QED  BY <2>1, <2>2 DEF Promise!Next
<1>2. ASSUME NEW k \in Keys, NEW v \in Values, Set(k, v)
      PROVE  Inv' /\ Promise!Next
  <2>1. /\ Inv' /\ call' = Call(k, {v}) /\ pending = <<>>
        /\ \/ pending' # <<>> /\ Contents' = Contents
           \/ pending' = <<>> /\ Contents' = Others(Contents, k) \cup {<<k, v>>}
    BY <1>2, SetStep
  <2>2. Promise!Do \/ Promise!Ask
    BY <2>1, CallsOfTable DEF Promise!Do, Promise!Ask
  <2> QED  BY <2>1, <2>2 DEF Promise!Next
<1>3. ASSUME NEW k \in Keys, NEW v \in Values, SetStable(k, v)
      PROVE  Inv' /\ Promise!Next
  <2>1. /\ Inv' /\ call' = Call(k, {v}) /\ pending = <<>> /\ pending' = <<>>
        /\ Contents' = Others(Contents, k) \cup {<<k, v>>}
    BY <1>3, SetStableStep
  <2>2. Promise!Do
    BY <2>1, CallsOfTable DEF Promise!Do
  <2> QED  BY <2>1, <2>2 DEF Promise!Next
<1>4. CASE Refill
  BY <1>4, RefillStep DEF Promise!vars
<1>5. CASE Refilled
  <2>1. Inv' /\ call' = call /\ pending' = <<>>
    BY <1>5, RefilledStep
  <2>2. CASE pending = <<>>
    <3>1. Contents' = Contents
      BY <1>5, <2>2, RefilledStep
    <3> QED  BY <2>1, <2>2, <3>1 DEF Promise!vars
  <2>3. CASE pending # <<>>
    <3>1. PICK k \in Keys, v \in Values :
            call = Call(k, {v}) /\ Contents' = Others(Contents, k) \cup {<<k, v>>}
      BY <1>5, <2>3, RefilledStep
    <3>2. Promise!Finish
      BY <2>1, <3>1, CallsOfTable DEF Promise!Finish
    <3> QED  BY <2>1, <2>3, <3>2 DEF Promise!Next
  <2> QED  BY <2>2, <2>3
<1>6. CASE UNCHANGED vars
  BY <1>6, StutterInv DEF Promise!vars
<1> QED  BY <1>1, <1>2, <1>3, <1>4, <1>5, <1>6 DEF Next

\* The invariant: counters, reach, room and no key twice, for every capacity,
\* set of keys and hash function.
THEOREM Inductive == Spec => []Inv
<1>1. Inv /\ [Next]_vars => Inv'
  BY Step
<1> QED  BY InitInv, <1>1, PTL DEF Spec

\* The table is well typed: no counter goes below 0.
THEOREM TypeCorrect == Spec => []TypeOK
<1>1. Inv => TypeOK
  BY DEF Inv
<1> QED  BY Inductive, <1>1, PTL

\* am_map_set and am_map_delete count the keys and the tombstones right.
THEOREM CountersCorrect == Spec => []CountersExact
<1>1. Inv => CountersExact
  BY DEF Inv
<1> QED  BY Inductive, <1>1, PTL

\* am_map_find_slot ends and finds what is there.
THEOREM LookupCorrect == Spec => []LookupExact
<1>1. Inv => LookupExact
  <2> SUFFICES ASSUME Inv, ~Rebuilding, NEW k \in Keys
               PROVE  \E d \in Offsets :
                        /\ Search(k, d)
                        /\ \A v \in Values \cup {Null} :
                              <<k, v>> \in Contents <=> Finds(k, d) /\ slots[Place(k, d)].value = v
    BY DEF LookupExact
  <2>1. capacity \in Nat \ {0} /\ slots \in Slots(capacity) /\ Reaches(slots, capacity)
    BY MapAssumption DEF Inv, TypeOK, Slots
  <2>2. \A d : Place(k, d) = At(k, d, capacity)
    BY DEF Place, Home, At
  <2>3. PICK d \in Offsets : Stops(slots, capacity, k, d)
    BY <2>1, UnusedSlot, SearchEnds DEF Offsets
  <2>4. Search(k, d)
    BY <2>2, <2>3 DEF Search, Ends, Stops, Offsets
  <2>5. Contents = PairsOf(slots, 0)
    <3>1. PairsOf(old, at) = {}
      BY LeftFinite, PairsLeft DEF Inv
    <3> QED  BY <3>1 DEF Contents
  <2>6. ASSUME NEW v, <<k, v>> \in Contents
        PROVE  Finds(k, d) /\ slots[Place(k, d)].value = v
    <3>1. PICK i \in Live(slots) : <<k, v>> = <<slots[i].key, slots[i].value>>
      BY <2>5, <2>6 DEF PairsOf
    <3>2. slots[i].key = k /\ slots[i].value = v
      BY <3>1
    <3>3. At(k, d, capacity) = i
      BY <2>1, <2>3, <3>2, SearchFinds
    <3> QED  BY <2>2, <2>4, <3>2, <3>3 DEF Finds
  <2>7. ASSUME NEW v, Finds(k, d), slots[Place(k, d)].value = v
        PROVE  <<k, v>> \in Contents
    <3>1. Place(k, d) \in 0 .. capacity - 1
      BY <2>1, <2>2, Places DEF Offsets
    <3>2. Place(k, d) \in Live(slots) /\ Place(k, d) >= 0
      BY <2>1, <2>7, <3>1 DEF Live, Slots, Finds
    <3> QED  BY <2>5, <2>7, <3>2 DEF PairsOf, Finds
  <2> QED  BY <2>4, <2>6, <2>7
<1> QED  BY Inductive, <1>1, PTL

\* Seen from outside the table is a map that only its calls change, each its own
\* key only, through growth, rebuilding and refused memory.
THEOREM MapCorrect == Spec => ImplementsTable
<1>1. Init => Promise!Init
  <2> SUFFICES ASSUME Init PROVE Contents = {}
    BY DEF Init, Call, Promise!Init
  <2>1. PairsOf(slots, 0) = {} /\ PairsOf(old, at) = {}
    BY MapAssumption, BlankSlots DEF Init
  <2> QED  BY <2>1 DEF Contents
<1>2. Inv /\ [Next]_vars => [Promise!Next]_(Promise!vars)
  BY Step
<1> QED  BY Inductive, <1>1, <1>2, PTL DEF Spec, ImplementsTable, Promise!Spec
=============================================================================

------------------------------ MODULE HashMap ------------------------------
(***************************************************************************)
(* The hash table of src/src/map.c: open addressing, linear probing,       *)
(* tombstones.  It is the handle table of every heap, the tables of trees, *)
(* labels and imports, and the table of a program (Table.set).             *)
(*                                                                         *)
(* A table that grows or is rid of its tombstones is filled again one      *)
(* entry a step; nothing else happens in between.  Memory may run out      *)
(* whenever the code asks for some.                                        *)
(***************************************************************************)
EXTENDS Naturals, FiniteSets

CONSTANTS
    Keys,          \* what a key can be
    Values,        \* and a value
    Empty,         \* AM_MAP_KEY_EMPTY
    Tombstone,     \* AM_MAP_KEY_TOMBSTONE
    Null,          \* AM_VALUE_NULL
    Hash,          \* am_value_hash, a function
    MinCapacity,   \* of a new table
    MaxCapacity    \* bound: there is no memory for a larger one

ASSUME MapAssumption ==
    /\ Empty # Tombstone /\ {Empty, Tombstone} \cap Keys = {}
    /\ Hash \in [Keys -> Nat]
    /\ MinCapacity \in Nat /\ MinCapacity >= 2
    /\ MaxCapacity \in Nat

VARIABLES
    capacity,
    slots,        \* from 0 up
    length,       \* how many keys there are, as the table counts them
    tombstones,   \* and how many tombstones
    old,          \* while the table is filled again: the slots as they were,
    oldCapacity,  \* their number, or 0,
    at,           \* the one that comes next,
    pending,      \* and what to put in afterwards: <<>> or <<key, value>>
    call          \* the last call, which the code does not keep

rebuildVars == <<old, oldCapacity, at, pending>>
vars == <<capacity, slots, length, tombstones, rebuildVars, call>>

Slot == [key : Keys \cup {Empty, Tombstone}, value : Values \cup {Null}]

Blank(n) == [i \in 0 .. n - 1 |-> [key |-> Empty, value |-> Null]]

\* Key k is to have these values: one, or none to delete it.
Call(k, vs) == [key |-> k, values |-> vs]
Calls == [key : Keys \cup {Empty}, values : SUBSET Values]

Live(s) == {i \in DOMAIN s : s[i].key \in Keys}
Tombs(s) == {i \in DOMAIN s : s[i].key = Tombstone}

\* am_map_create
Init ==
    /\ capacity = MinCapacity
    /\ slots = Blank(MinCapacity)
    /\ length = 0 /\ tombstones = 0
    /\ old = Blank(0) /\ oldCapacity = 0 /\ at = 0 /\ pending = <<>>
    /\ call = Call(Empty, {})

Rebuilding == oldCapacity # 0

-----------------------------------------------------------------------------
(* am_map_find_slot *)

\* The capacity is a power of two, so that the mask makes a remainder.
Home(k) == Hash[k] % capacity

\* The slot d steps on, around the end.
Place(k, d) == IF Home(k) + d < capacity THEN Home(k) + d ELSE Home(k) + d - capacity

Offsets == 0 .. capacity - 1

\* The search for k ends after d steps, at k or at a slot that was never used.
Ends(k, d) == slots[Place(k, d)].key \in {k, Empty}

Search(k, d) == d \in Offsets /\ Ends(k, d) /\ \A e \in 0 .. d - 1 : ~Ends(k, e)

Finds(k, d) == Search(k, d) /\ slots[Place(k, d)].key = k

\* Offset e is where a new key goes when its search ends after d steps: to the
\* first tombstone on the way, if there is one.
IsFree(k, d, e) ==
    /\ e \in 0 .. d
    /\ slots[Place(k, e)].key \in {Empty, Tombstone}
    /\ \A f \in 0 .. e - 1 : slots[Place(k, f)].key # Tombstone

-----------------------------------------------------------------------------
(* Insertion *)

\* Mutant: a tombstone that is used again is still counted.
WriteKeepsCount(k, v) ==
    \E d \in Offsets : Search(k, d) /\ \E e \in Offsets :
        /\ IF Finds(k, d) THEN e = d ELSE IsFree(k, d, e)
        /\ slots' = [slots EXCEPT ![Place(k, e)] = [key |-> k, value |-> v]]
        /\ length' = IF Finds(k, d) THEN length ELSE length + 1
        /\ UNCHANGED tombstones

\* Mutant: a key that is replaced counts as a tombstone used again.
WriteOverTombstone(k, v) ==
    \E d \in Offsets : Search(k, d) /\ \E e \in Offsets :
        /\ IF Finds(k, d) THEN e = d ELSE IsFree(k, d, e)
        /\ slots' = [slots EXCEPT ![Place(k, e)] = [key |-> k, value |-> v]]
        /\ length' = IF Finds(k, d) THEN length ELSE length + 1
        /\ tombstones' = IF slots[Place(k, e)].key = Empty THEN tombstones ELSE tombstones - 1

\* Key k gets value v: in its slot, or in a free one.
Write(k, v) ==
    \E d \in Offsets : Search(k, d) /\ \E e \in Offsets :
        /\ IF Finds(k, d) THEN e = d ELSE IsFree(k, d, e)
        /\ slots' = [slots EXCEPT ![Place(k, e)] = [key |-> k, value |-> v]]
        /\ length' = IF Finds(k, d) THEN length ELSE length + 1
        /\ tombstones' = IF slots[Place(k, e)].key = Tombstone THEN tombstones - 1 ELSE tombstones

\* The table s is filled again, into n new slots.
Rebuild(s, n, afterwards) ==
    /\ old' = s /\ oldCapacity' = capacity /\ at' = 0 /\ pending' = afterwards
    /\ capacity' = n /\ slots' = Blank(n)
    /\ length' = 0 /\ tombstones' = 0

\* More than three quarters would be used, tombstones included.
Crowded == (length + tombstones + 1) * 4 > capacity * 3

\* am_map_set: a crowded table grows first, or else refuses.
Set(k, v) ==
    /\ ~Rebuilding
    /\ call' = Call(k, {v})
    /\ \/ ~Crowded /\ Write(k, v) /\ UNCHANGED <<capacity, rebuildVars>>
       \/ Crowded /\ 2 * capacity <= MaxCapacity /\ Rebuild(slots, 2 * capacity, <<k, v>>)

\* am_map_set_stable, by am_heap_set: the handle is there already.
SetStable(k, v) ==
    /\ ~Rebuilding
    /\ call' = Call(k, {v})
    /\ \E d \in Offsets :
          Finds(k, d) /\ slots' = [slots EXCEPT ![Place(k, d)].value = v]
    /\ UNCHANGED <<capacity, length, tombstones, rebuildVars>>

-----------------------------------------------------------------------------
(* Deletion *)

\* Mutant: the slot is marked as never used.
ErasedAsEmpty(i) == [slots EXCEPT ![i] = [key |-> Empty, value |-> Null]]

Erased(i) == [slots EXCEPT ![i] = [key |-> Tombstone, value |-> Null]]

\* am_map_delete: with too many tombstones the table is filled again, memory
\* permitting.
Delete(k) ==
    /\ ~Rebuilding /\ length # 0
    /\ call' = Call(k, {})
    /\ \E d \in Offsets :
        /\ Finds(k, d)
        /\ \/ /\ slots' = Erased(Place(k, d))
              /\ length' = length - 1 /\ tombstones' = tombstones + 1
              /\ UNCHANGED <<capacity, rebuildVars>>
           \/ /\ (tombstones + 1) * 2 > capacity
              /\ Rebuild(Erased(Place(k, d)), capacity, <<>>)

-----------------------------------------------------------------------------
(* am_map_rehash, am_map_resize *)

\* Mutant: the loop over the old slots begins at 1.
LeftFromOne == {i \in Live(old) : i >= at /\ i > 0}

\* The entries of the old slots that are not in the new ones yet.
Left == {i \in Live(old) : i >= at}

Refill ==
    /\ \E i \in Left :
        /\ \A j \in Left : i <= j
        /\ Write(old[i].key, old[i].value)
        /\ at' = i + 1
    /\ UNCHANGED <<capacity, old, oldCapacity, pending, call>>

\* The old slots are given back, and am_map_set goes on.
Refilled ==
    /\ Rebuilding /\ Left = {}
    /\ old' = Blank(0) /\ oldCapacity' = 0 /\ at' = 0 /\ pending' = <<>>
    /\ IF pending = <<>>
       THEN UNCHANGED <<slots, length, tombstones>>
       ELSE Write(pending[1], pending[2])
    /\ UNCHANGED <<capacity, call>>

-----------------------------------------------------------------------------
Next ==
    \/ \E k \in Keys : Delete(k) \/ \E v \in Values : Set(k, v) \/ SetStable(k, v)
    \/ Refill \/ Refilled

Spec == Init /\ [][Next]_vars

-----------------------------------------------------------------------------
\* Type invariant.
TypeOK ==
    /\ capacity \in Nat /\ capacity >= MinCapacity
    /\ slots \in [0 .. capacity - 1 -> Slot]
    /\ length \in Nat /\ tombstones \in Nat
    /\ oldCapacity \in Nat /\ at \in 0 .. oldCapacity
    /\ old \in [0 .. oldCapacity - 1 -> Slot]
    /\ pending = <<>> \/ pending \in Keys \X Values
    /\ call \in Calls

\* The entries of table s from slot n on.
PairsOf(s, n) == {<<s[i].key, s[i].value>> : i \in {j \in Live(s) : j >= n}}

Contents == PairsOf(slots, 0) \cup PairsOf(old, at)

\* A search ends, whatever was put in and taken out before, and it finds what
\* is there (am_map_find_slot loops for ever without an unused slot, and misses
\* a key behind one).
LookupExact ==
    ~Rebuilding => \A k \in Keys : \E d \in Offsets :
        /\ Search(k, d)
        /\ \A v \in Values \cup {Null} :
              <<k, v>> \in Contents <=> Finds(k, d) /\ slots[Place(k, d)].value = v

\* The table counts right: am_map_keys makes room for length keys, and the
\* counts decide when the table grows.
CountersExact == length = Cardinality(Live(slots)) /\ tombstones = Cardinality(Tombs(slots))

Promise == INSTANCE Table WITH pairs <- Contents, waiting <- pending # <<>>

\* Seen from outside the table is a map that only its calls change, each its own
\* key only: it grows, and loses its tombstones, without losing a pair, doubling
\* a key or bringing one back (am_map_resize, am_map_rehash, am_map_delete).
ImplementsTable == Promise!Spec
=============================================================================

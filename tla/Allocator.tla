------------------------------ MODULE Allocator ------------------------------
(***************************************************************************)
(* The memory pool (allocator.c): the user heap from below, managed by     *)
(* first fit, the VM area from above, managed by size classes, the         *)
(* compaction of the heap, and the border between the two, which moves.    *)
(*                                                                         *)
(* Addresses and sizes are counted in units of the alignment.  A block is  *)
(* known by the address of its header, which holds its size, the size of   *)
(* the block before it (the boundary tag), whether it is used, and, in     *)
(* place of its contents, the name of whoever it was given to.  A header   *)
(* that has become the inside of another block is dropped.                 *)
(***************************************************************************)
EXTENDS Integers, Sequences, FiniteSets, SequencesExt, FiniteSetsExt

CONSTANTS
    Total,                  \* units of the pool
    HeapHeader, VmHeader,   \* units of a header
    Classes,                \* the size classes of the VM area, ascending
    MinBorder, MaxBorder,   \* AM_POOL_MIN_HEAP_RATIO and AM_POOL_MIN_VM_RATIO of the pool
    Step,                   \* AM_POOL_BOUNDARY_ADJ_STEP of the pool
    Objects,                \* handles of all processes: what the heap is for
    Tables,                 \* users of the VM area
    ObjectSizes, TableSizes \* what they ask for

ASSUME PoolAssumption ==
    /\ {Total, HeapHeader, VmHeader, MinBorder, MaxBorder, Step} \subseteq Nat \ {0}
    /\ ObjectSizes \cup TableSizes \subseteq Nat \ {0}
    /\ MinBorder <= Total \div 2 /\ Total \div 2 <= MaxBorder /\ MaxBorder < Total
    /\ Classes \in Seq(Nat) /\ \A i \in 2..Len(Classes) : Classes[i - 1] < Classes[i]

MinHeapBlock == HeapHeader + 1
MinVmBlock   == VmHeader + 1
ASSUME ScaleAssumption == Step >= MinHeapBlock /\ MinBorder >= MinHeapBlock /\ Total - MaxBorder >= MinVmBlock

VARIABLES
    border,   \* end of the heap, beginning of the VM area
    heap,     \* [blocks, lists, used, base, end]: lists has the one free list
    vm,       \* the same; lists[i] is the bucket of class i, the last one is for the large blocks
    slot,     \* where the handle tables say an object is: handle -> address
    slotSize, \* how many units it was given for, which the code does not keep
    place,    \* where the users of the VM area hold theirs
    placeSize,
    refused   \* the allocation the last step could not make: [area, size], size 0 if none

vars == <<border, heap, vm, slot, slotSize, place, placeSize, refused>>

NoRefusal == [area |-> "none", size |-> 0]
Header(size, prev, used, owner) == [size |-> size, prev |-> prev, used |-> used, owner |-> owner]
Nobody == "nobody"

----------------------------------------------------------------------------
(* Blocks and free lists, the same in both areas *)

\* The class of a block, or of a request: the first that is not smaller.
ClassOf(size) ==
    IF \E i \in DOMAIN Classes : Classes[i] >= size THEN Min({i \in DOMAIN Classes : Classes[i] >= size})
    ELSE Len(Classes) + 1

\* Mutant: a free block goes to the class below, where it is too large for it.
ListIndexBelow(s, size) ==
    IF Len(s.lists) = 1 THEN 1 ELSE IF ClassOf(size) > 1 THEN ClassOf(size) - 1 ELSE 1

ListIndex(s, size) == IF Len(s.lists) = 1 THEN 1 ELSE ClassOf(size)

SizeAt(s, b) == s.blocks[b].size
IsUsed(s, b) == s.blocks[b].used
NextOf(s, b) == b + SizeAt(s, b)
HasNext(s, b) == NextOf(s, b) < s.end
PrevOf(s, b) == b - s.blocks[b].prev
HasPrev(s, b) == s.blocks[b].prev > 0

\* Free blocks enter a list at its head.
Insert(s, b)   == [s EXCEPT !.lists[ListIndex(s, SizeAt(s, b))] = <<b>> \o @]
TakeOut(s, b)  == [s EXCEPT !.lists[ListIndex(s, SizeAt(s, b))] = RemoveFirst(@, b)]

Put(s, b, h) == [s EXCEPT !.blocks = [c \in DOMAIN @ \cup {b} |-> IF c = b THEN h ELSE @[c]]]
Drop(s, bs)  == [s EXCEPT !.blocks = [b \in DOMAIN @ \ bs |-> @[b]]]
\* The block after b is told b's size.
Tag(s, b)    == IF HasNext(s, b) THEN [s EXCEPT !.blocks[NextOf(s, b)].prev = SizeAt(s, b)] ELSE s

JoinsBelow(s, b) == HasPrev(s, b) /\ ~IsUsed(s, PrevOf(s, b))
JoinsAbove(s, b) == HasNext(s, b) /\ ~IsUsed(s, NextOf(s, b))

\* Mutant: the block after a joined one keeps its old tag.
CoalesceUntagged(s, b) ==
    LET above == IF JoinsAbove(s, b) THEN {NextOf(s, b)} ELSE {}
        size  == NextOf(s, Max({b} \cup above)) - b
        taken == IF JoinsAbove(s, b) THEN TakeOut(s, NextOf(s, b)) ELSE s
    IN Insert(Put(Drop(taken, above), b, Header(size, s.blocks[b].prev, FALSE, Nobody)), b)

\* A block that has become free joins the free blocks beside it.
Coalesce(s, b) ==
    LET first == IF JoinsBelow(s, b) THEN PrevOf(s, b) ELSE b
        end   == IF JoinsAbove(s, b) THEN NextOf(s, NextOf(s, b)) ELSE NextOf(s, b)
        s1    == IF JoinsBelow(s, b) THEN TakeOut(s, PrevOf(s, b)) ELSE s
        s2    == IF JoinsAbove(s, b) THEN TakeOut(s1, NextOf(s, b)) ELSE s1
        joined == Put(Drop(s2, {c \in DOMAIN s.blocks : first < c /\ c < end}), first,
                      Header(end - first, s.blocks[first].prev, FALSE, Nobody))
    IN Insert(Tag(joined, first), first)

Free(s, b) == Coalesce([s EXCEPT !.used = @ - SizeAt(s, b)], b)

\* An area of one free block.
Area(base, end, lists) ==
    Insert([base |-> base, end |-> end, used |-> 0, lists |-> lists,
            blocks |-> [b \in {base} |-> Header(end - base, 0, FALSE, Nobody)]], base)
HeapArea(end) == Area(0, end, <<<<>>>>)
VmArea(base)  == Area(base, Total, [i \in 1..(Len(Classes) + 1) |-> <<>>])

----------------------------------------------------------------------------
(* Allocation *)

\* Mutant: a block that is a unit too small will do.
HeapFitNearly(size) == SelectInSeq(heap.lists[1], LAMBDA b : SizeAt(heap, b) >= size - 1)

\* freelist_malloc: the first block of the list that is large enough, its low part.
HeapFit(size) == SelectInSeq(heap.lists[1], LAMBDA b : SizeAt(heap, b) >= size)

HeapTake(size, owner) ==
    LET b  == heap.lists[1][HeapFit(size)]
        rest == SizeAt(heap, b) - size
        prev == heap.blocks[b].prev
        s  == TakeOut(heap, b)
        s1 == IF rest < MinHeapBlock
              THEN Put(s, b, Header(SizeAt(s, b), prev, TRUE, owner))
              ELSE LET s2 == Put(Put(s, b, Header(size, prev, TRUE, owner)), b + size, Header(rest, size, FALSE, Nobody))
                   IN Insert(Tag(s2, b + size), b + size)
    IN <<[s1 EXCEPT !.used = @ + SizeAt(s1, b)], b>>

\* vm_find_free_block: in the first bucket from that of the request upwards that
\* has a block large enough, the one at the highest address.
VmFits(size) ==
    {i \in ClassOf(size)..Len(vm.lists) : \E j \in DOMAIN vm.lists[i] : SizeAt(vm, vm.lists[i][j]) >= size}

\* A class is given whole; the high part of the block is used.
Rounded(size) == IF ClassOf(size) <= Len(Classes) THEN Classes[ClassOf(size)] ELSE size

VmTake(size, owner) ==
    LET bucket == vm.lists[Min(VmFits(size))]
        b    == Max({c \in Range(bucket) : SizeAt(vm, c) >= size})
        rest == SizeAt(vm, b) - size
        prev == vm.blocks[b].prev
        s    == TakeOut(vm, b)
    IN IF rest < MinVmBlock
       THEN <<[Put(s, b, Header(SizeAt(s, b), prev, TRUE, owner)) EXCEPT !.used = @ + SizeAt(s, b)], b>>
       ELSE LET s1 == Put(Put(s, b, Header(rest, prev, FALSE, Nobody)), b + rest, Header(size, rest, TRUE, owner))
            IN <<[Insert(Tag(s1, b + rest), b) EXCEPT !.used = @ + size], b + rest>>

----------------------------------------------------------------------------
(* The owners of blocks *)

Nowhere == -1
Held(at) == {o \in DOMAIN at : at[o] # Nowhere}

Refuse(area, size) ==
    /\ refused' = [area |-> area, size |-> size]
    /\ UNCHANGED <<border, heap, vm, slot, slotSize, place, placeSize>>

\* An object is made: freelist_malloc, and its address goes into the handle table.
New(o, size) ==
    /\ slot[o] = Nowhere
    /\ IF HeapFit(HeapHeader + size) = 0
       THEN Refuse("heap", HeapHeader + size)
       ELSE LET taken == HeapTake(HeapHeader + size, o)
            IN /\ heap' = taken[1]
               /\ slot' = [slot EXCEPT ![o] = taken[2]]
               /\ slotSize' = [slotSize EXCEPT ![o] = HeapHeader + size]
               /\ refused' = NoRefusal
               /\ UNCHANGED <<border, vm, place, placeSize>>

\* An object grows: freelist_realloc copies it, and only then gives the old block back.
Grow(o, size) ==
    /\ slot[o] # Nowhere /\ HeapHeader + size > SizeAt(heap, slot[o])
    /\ IF HeapFit(HeapHeader + size) = 0
       THEN Refuse("heap", HeapHeader + size)
       ELSE LET taken == HeapTake(HeapHeader + size, o)
            IN /\ heap' = Free(taken[1], slot[o])
               /\ slot' = [slot EXCEPT ![o] = taken[2]]
               /\ slotSize' = [slotSize EXCEPT ![o] = HeapHeader + size]
               /\ refused' = NoRefusal
               /\ UNCHANGED <<border, vm, place, placeSize>>

\* The sweep frees an object.
Release(o) ==
    /\ slot[o] # Nowhere
    /\ heap' = Free(heap, slot[o])
    /\ slot' = [slot EXCEPT ![o] = Nowhere]
    /\ slotSize' = [slotSize EXCEPT ![o] = 0]
    /\ refused' = NoRefusal
    /\ UNCHANGED <<border, vm, place, placeSize>>

\* The same three in the VM area, whose users keep plain pointers.
NewTable(w, size) ==
    /\ place[w] = Nowhere
    /\ IF VmFits(Rounded(VmHeader + size)) = {}
       THEN Refuse("vm", Rounded(VmHeader + size))
       ELSE LET taken == VmTake(Rounded(VmHeader + size), w)
            IN /\ vm' = taken[1]
               /\ place' = [place EXCEPT ![w] = taken[2]]
               /\ placeSize' = [placeSize EXCEPT ![w] = Rounded(VmHeader + size)]
               /\ refused' = NoRefusal
               /\ UNCHANGED <<border, heap, slot, slotSize>>

GrowTable(w, size) ==
    /\ place[w] # Nowhere /\ VmHeader + size > SizeAt(vm, place[w])
    /\ IF VmFits(Rounded(VmHeader + size)) = {}
       THEN Refuse("vm", Rounded(VmHeader + size))
       ELSE LET taken == VmTake(Rounded(VmHeader + size), w)
            IN /\ vm' = Free(taken[1], place[w])
               /\ place' = [place EXCEPT ![w] = taken[2]]
               /\ placeSize' = [placeSize EXCEPT ![w] = Rounded(VmHeader + size)]
               /\ refused' = NoRefusal
               /\ UNCHANGED <<border, heap, slot, slotSize>>

FreeTable(w) ==
    /\ place[w] # Nowhere
    /\ vm' = Free(vm, place[w])
    /\ place' = [place EXCEPT ![w] = Nowhere]
    /\ placeSize' = [placeSize EXCEPT ![w] = 0]
    /\ refused' = NoRefusal
    /\ UNCHANGED <<border, heap, slot, slotSize>>

----------------------------------------------------------------------------
(* Compaction: what a handle refers to moves to the front, in its order *)

\* What the blocks of bs take together.
Units(s, bs)    == UNION {b .. NextOf(s, b) - 1 : b \in bs}
SumSizes(s, bs) == Cardinality(Units(s, bs))

Live == {slot[o] : o \in Held(slot)}

\* Mutant: the live blocks are sorted the other way round.
LiveAbove(b) == {c \in Live : c > b}

LiveBelow(b) == {c \in Live : c < b}
Moved(b)     == SumSizes(heap, LiveBelow(b))

\* Mutant: the handle table is not told of the move.
MovedSlotsForgotten == slot

MovedSlots == [o \in Objects |-> IF slot[o] = Nowhere THEN Nowhere ELSE Moved(slot[o])]

Compacted ==
    LET prev(at) == IF at = 0 THEN 0 ELSE SizeAt(heap, CHOOSE b \in Live : Moved(b) + SizeAt(heap, b) = at)
        moved == [at \in {Moved(b) : b \in Live} |->
                     LET b == CHOOSE c \in Live : Moved(c) = at
                     IN Header(SizeAt(heap, b), prev(at), TRUE, heap.blocks[b].owner)]
        used  == SumSizes(heap, Live)
        front == [heap EXCEPT !.blocks = moved, !.used = used, !.lists = <<<<>>>>]
    IN IF Live = {} THEN HeapArea(heap.end)
       ELSE IF used = heap.end THEN front
       ELSE Insert(Put(front, used, Header(heap.end - used, prev(used), FALSE, Nobody)), used)

----------------------------------------------------------------------------
(* The border (am_allocator_pool_auto_adjust) *)

VmPressure(h, v)   == 4 * v.used > 3 * (Total - border) /\ 10 * h.used < 3 * border
HeapPressure(h, v) == 4 * h.used > 3 * border /\ 10 * v.used < 3 * (Total - border)

\* Mutant: the heap is not kept from becoming too small.
WithinMax(b) == Min({MaxBorder, b})

Within(b) == Max({MinBorder, Min({MaxBorder, b})})

Wanted(h, v) ==
    IF VmPressure(h, v) THEN Within(border - Step)
    ELSE IF HeapPressure(h, v) THEN Within(border + Step) ELSE border

\* vm_lowest_used_offset
LowestUsed(v) == IF v.used = 0 THEN v.end ELSE Min({b \in DOMAIN v.blocks : IsUsed(v, b)})

\* Mutant: the border moves up without looking at the VM area.
GivenBlindly(v, wanted) == wanted

\* The border goes up no further than the first used block, but a rest that is
\* too small for a block goes with it.
Given(v, wanted) ==
    LET low  == LowestUsed(v)
        most == Min({wanted, low, MaxBorder})
    IN IF low - most < MinVmBlock THEN low ELSE most

NewBorder(h, v) == IF Wanted(h, v) > border THEN Given(v, Wanted(h, v)) ELSE Wanted(h, v)

TopBlock(h) == {b \in DOMAIN h.blocks : ~IsUsed(h, b) /\ NextOf(h, b) = h.end}

\* pool_reinit_heap_at: when it returns -1 the border stays.
CanEnd(h, end) ==
    IF end > h.end THEN TopBlock(h) # {} ELSE end - h.used = 0 \/ end - h.used >= MinHeapBlock

\* Growing, the free block at the top grows; shrinking, one is made behind the used ones.
HeapUpTo(h, end) ==
    IF end > h.end
    THEN LET top == Max(TopBlock(h)) IN [h EXCEPT !.end = end, !.blocks[top].size = end - top]
    ELSE LET kept  == {b \in DOMAIN h.blocks : b < h.used}
             prev  == IF kept = {} THEN 0 ELSE SizeAt(h, Max(kept))
             front == [h EXCEPT !.end = end, !.lists = <<<<>>>>, !.blocks = [b \in kept |-> @[b]]]
         IN IF end = h.used THEN front ELSE Insert(Put(front, h.used, Header(end - h.used, prev, FALSE, Nobody)), h.used)

\* pool_reinit_vm_at: an empty area begins anew; below the first block a free
\* block is added, if there is room for one; from the first block the low part is taken.
VmDownTo(v, base) ==
    LET added == v.base - base
        s     == [v EXCEPT !.base = base]
    IN IF added < MinVmBlock THEN s
       ELSE Coalesce(Tag(Put(s, base, Header(added, 0, FALSE, Nobody)), base), base)

VmUpFrom(v, base) ==
    LET rest == SizeAt(v, v.base) - (base - v.base)
        next == NextOf(v, v.base)
        s    == [Drop(TakeOut(v, v.base), {v.base}) EXCEPT !.base = base]
    IN IF rest < MinVmBlock THEN [s EXCEPT !.blocks[next].prev = 0]
       ELSE Insert(Tag(Put(s, base, Header(rest, 0, FALSE, Nobody)), base), base)

VmFrom(v, base) ==
    IF v.used = 0 THEN VmArea(base) ELSE IF base <= v.base THEN VmDownTo(v, base) ELSE VmUpFrom(v, base)

\* Below the first block of the VM area there is room without a header: to walk
\* the area from its base is then undefined, and the model does not do it.
HasGap(v) == v.used # 0 /\ v.base \notin DOMAIN v.blocks

\* The end of a phase of the event loop: the heap is compacted and the border set.
SafePoint ==
    LET h   == Compacted
        new == NewBorder(h, vm)
        set == new # border /\ CanEnd(h, new)
    IN /\ HasGap(vm) => Wanted(h, vm) = border
       /\ border' = IF set THEN new ELSE border
       /\ heap' = IF set THEN HeapUpTo(h, new) ELSE h
       /\ vm' = IF set THEN VmFrom(vm, new) ELSE vm
       /\ slot' = MovedSlots
       /\ refused' = NoRefusal
       /\ UNCHANGED <<slotSize, place, placeSize>>

----------------------------------------------------------------------------

Init ==
    /\ border = Total \div 2
    /\ heap = HeapArea(border)
    /\ vm = VmArea(border)
    /\ slot = [o \in Objects |-> Nowhere]
    /\ slotSize = [o \in Objects |-> 0]
    /\ place = [w \in Tables |-> Nowhere]
    /\ placeSize = [w \in Tables |-> 0]
    /\ refused = NoRefusal

Next ==
    \/ \E o \in Objects, size \in ObjectSizes : New(o, size) \/ Grow(o, size)
    \/ \E o \in Objects : Release(o)
    \/ \E w \in Tables, size \in TableSizes : NewTable(w, size) \/ GrowTable(w, size)
    \/ \E w \in Tables : FreeTable(w)
    \/ SafePoint

Spec == Init /\ [][Next]_vars

----------------------------------------------------------------------------
(* Properties *)

Areas == {heap, vm}
Addresses == 0..Total

\* Types.  The heap keeps its share of the pool, and of the VM area a block is left.
TypeOK ==
    /\ border \in MinBorder..(Total - MinVmBlock)
    /\ \A s \in Areas :
          /\ s.base \in Addresses /\ s.end \in Addresses /\ s.used \in Addresses
          /\ DOMAIN s.blocks \subseteq Addresses
          /\ \A b \in DOMAIN s.blocks : s.blocks[b] \in [size : Addresses, prev : Addresses, used : BOOLEAN,
                                                           owner : Objects \cup Tables \cup {Nobody}]
          /\ \A i \in DOMAIN s.lists : Range(s.lists[i]) \subseteq Addresses
    /\ slot \in [Objects -> Addresses \cup {Nowhere}]
    /\ place \in [Tables -> Addresses \cup {Nowhere}]

\* The blocks from first on lie one behind the other up to the end, each tagged
\* with the size of the one before it, no two free ones side by side, the free
\* ones in the list they belong to, each once, and used is what the others take.
Tiled(s, first, smallest) ==
    LET blocks == DOMAIN s.blocks
        free   == {b \in blocks : ~IsUsed(s, b)}
    IN /\ first \in blocks
       /\ \A b \in blocks :
             /\ b >= first /\ SizeAt(s, b) >= smallest
             /\ NextOf(s, b) \in blocks \cup {s.end}
             /\ s.blocks[b].prev = 0 <=> b = first
             /\ HasNext(s, b) => s.blocks[NextOf(s, b)].prev = SizeAt(s, b)
             /\ HasNext(s, b) => IsUsed(s, b) \/ IsUsed(s, NextOf(s, b))
       /\ \A i \in DOMAIN s.lists :
             /\ Cardinality(Range(s.lists[i])) = Len(s.lists[i])
             /\ Range(s.lists[i]) = {b \in free : ListIndex(s, SizeAt(s, b)) = i}
       /\ s.used = SumSizes(s, blocks \ free)

\* The heap is tiled from the beginning of the pool to the border, whatever was
\* taken, split, joined, moved together or cut off at the border.
HeapTiled == heap.base = 0 /\ heap.end = border /\ Tiled(heap, 0, MinHeapBlock)

\* The VM area is tiled to the end of the pool.  It begins at the border, or
\* above it by less than a block (HasGap).
VmTiled ==
    LET first == Min(DOMAIN vm.blocks)
    IN /\ vm.base = border /\ vm.end = Total /\ Tiled(vm, first, MinVmBlock)
       /\ first \in border..(border + MinVmBlock - 1)

\* Both are, whatever moves the border between them.
AreasTiled == HeapTiled /\ VmTiled

\* Whoever was given a block still holds that one, and no used block is
\* without a holder: nothing is given twice, overwritten or lost, also not by
\* compaction, which moves the objects behind the holders' backs.
HoldersKept ==
    /\ {<<o, slot[o]>> : o \in Held(slot)} = {<<heap.blocks[b].owner, b>> : b \in {c \in DOMAIN heap.blocks : IsUsed(heap, c)}}
    /\ {<<w, place[w]>> : w \in Held(place)} = {<<vm.blocks[b].owner, b>> : b \in {c \in DOMAIN vm.blocks : IsUsed(vm, c)}}

\* An allocation is refused only if no free block of its area is large enough.
RefusedOnlyWhenFull ==
    refused # NoRefusal =>
        LET s == IF refused.area = "heap" THEN heap ELSE vm
        IN \A b \in DOMAIN s.blocks : ~IsUsed(s, b) => SizeAt(s, b) < refused.size

\* A safe point leaves the VM area's blocks where they are and every object with
\* the size it had.  Objects only move down and past no other, so that copying
\* one never overwrites another, and the free room of the heap is in one block.
SafePointKeepsAll ==
    [][place' = place /\ Held(slot') = Held(slot) /\ SafePoint =>
          /\ \A w \in Held(place) : SizeAt(vm', place[w]) = SizeAt(vm, place[w])
          /\ \A o \in Held(slot) : SizeAt(heap', slot'[o]) = SizeAt(heap, slot[o]) /\ slot'[o] <= slot[o]
          /\ \A o, p \in Held(slot) : slot[o] < slot[p] => slot'[o] < slot'[p]
          /\ Cardinality({b \in DOMAIN heap'.blocks : ~IsUsed(heap', b)}) <= 1]_vars

\* What the users of an area see of it: where their blocks are and how large.
Seen(at, s, asked) ==
    [o \in DOMAIN at |->
        IF at[o] = Nowhere THEN [at |-> -1, size |-> 0, asked |-> 0]
        ELSE [at |-> at[o], size |-> SizeAt(s, at[o]), asked |-> asked[o]]]

Promise == INSTANCE Memory WITH
    Lost           <- MinVmBlock - 1,
    ObjectRequests <- {HeapHeader + size : size \in ObjectSizes},
    TableRequests  <- {Rounded(VmHeader + size) : size \in TableSizes},
    objects        <- Seen(slot, heap, slotSize),
    tables         <- Seen(place, vm, placeSize)

\* The pool keeps its promise, whatever is split, joined, sorted into classes,
\* moved and cut off: a block is as large as was asked for and free of all
\* others, also of the one it replaces, whose contents are copied; and what is
\* refused is not there in one piece.
ImplementsMemory == Promise!Spec

=============================================================================

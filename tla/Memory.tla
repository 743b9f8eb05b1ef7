------------------------------- MODULE Memory -------------------------------
(***************************************************************************)
(* What the memory pool promises (allocator.h), without headers, tags,     *)
(* free lists and size classes: objects have blocks below a border and     *)
(* tables above it, each one of its own and as large as was asked for.  A  *)
(* table stays where it is; objects are moved, all at once, down and into  *)
(* one piece.  A request is refused only when so many units in a row are   *)
(* not to be had.                                                          *)
(***************************************************************************)
EXTENDS Integers

CONSTANTS
    Total,                         \* units of the pool
    Lost,                          \* units above the border that may be of no use
    Objects, Tables,               \* who asks for memory
    ObjectRequests, TableRequests  \* how many units they ask for

VARIABLES
    border,    \* below it lie the objects' blocks, above it the tables'
    objects,   \* their blocks
    tables,
    refused    \* the request that the last step refused

vars == <<border, objects, tables, refused>>

\* The units from at on, size of them, for a request of so many as were asked for.
Block(at, size, asked) == [at |-> at, size |-> size, asked |-> asked]

\* Who has nothing has no units, below all others.
Nothing == Block(-1, 0, 0)

End(b)      == b.at + b.size
Units(b)    == b.at..(End(b) - 1)
Apart(b, c) == End(b) <= c.at \/ End(c) <= b.at

\* Nobody among these has a unit of b.
Unused(b, owned) == \A h \in DOMAIN owned : Apart(owned[h], b)

\* A request that was refused.
Refusal(area, n) == [area |-> area, size |-> n]
NoRefusal        == Refusal("none", 0)

Init ==
    /\ border = Total \div 2
    /\ objects = [o \in Objects |-> Nothing]
    /\ tables = [w \in Tables |-> Nothing]
    /\ refused = NoRefusal

\* Somebody asks for n units and gets a block.  What they had is theirs until
\* its contents are copied: the new block lies apart from it, too.
GiveObject(o, n) ==
    /\ refused' = NoRefusal /\ UNCHANGED <<border, tables>>
    /\ objects[o].size < n
    /\ LET b == objects'[o]
       IN /\ b.at >= 0 /\ b.size >= n /\ b.asked = n /\ End(b) <= border
          /\ Unused(b, objects)
          /\ objects' = [objects EXCEPT ![o] = b]

GiveTable(w, n) ==
    /\ refused' = NoRefusal /\ UNCHANGED <<border, objects>>
    /\ tables[w].size < n
    /\ LET b == tables'[w]
       IN /\ b.at >= border /\ b.size >= n /\ b.asked = n /\ End(b) <= Total
          /\ Unused(b, tables)
          /\ tables' = [tables EXCEPT ![w] = b]

TakeObject(o) ==
    /\ refused' = NoRefusal /\ UNCHANGED <<border, tables>>
    /\ objects[o] # Nothing
    /\ objects' = [objects EXCEPT ![o] = Nothing]

TakeTable(w) ==
    /\ refused' = NoRefusal /\ UNCHANGED <<border, objects>>
    /\ tables[w] # Nothing
    /\ tables' = [tables EXCEPT ![w] = Nothing]

\* A refusal: wherever n units would lie, somebody has one of them.
RefuseObject(n) ==
    /\ refused' = Refusal("heap", n) /\ UNCHANGED <<border, objects, tables>>
    /\ \A at \in 0..(border - n) : ~Unused(Block(at, n, n), objects)

RefuseTable(n) ==
    /\ refused' = Refusal("vm", n) /\ UNCHANGED <<border, objects, tables>>
    /\ \A at \in (border + Lost)..(Total - n) : ~Unused(Block(at, n, n), tables)

\* The objects are moved and the border is set.
Settle ==
    /\ refused' = NoRefusal /\ UNCHANGED tables
    /\ border' \in 0..Total
    /\ \A w \in Tables : tables[w] # Nothing => tables[w].at >= border'
    /\ objects' = [o \in Objects |-> [objects[o] EXCEPT !.at = objects'[o].at]]
    /\ \A o \in Objects : objects'[o].at <= objects[o].at
    /\ \A o, p \in Objects : objects[o].at < objects[p].at => End(objects'[o]) <= objects'[p].at
    /\ \E top \in 0..border' : UNION {Units(objects'[o]) : o \in Objects} = 0..(top - 1)

Next ==
    \/ \E o \in Objects : TakeObject(o) \/ \E n \in ObjectRequests : GiveObject(o, n)
    \/ \E w \in Tables : TakeTable(w) \/ \E n \in TableRequests : GiveTable(w, n)
    \/ \E n \in ObjectRequests : RefuseObject(n)
    \/ \E n \in TableRequests : RefuseTable(n)
    \/ Settle

Spec == Init /\ [][Next]_vars

----------------------------------------------------------------------------

\* No unit of memory belongs to two, every block lies on its side of the border,
\* and everybody has what they asked for.
Separate ==
    /\ \A o, p \in Objects : o # p => Apart(objects[o], objects[p])
    /\ \A v, w \in Tables : v # w => Apart(tables[v], tables[w])
    /\ \A o \in Objects : objects[o] # Nothing => objects[o].at >= 0 /\ End(objects[o]) <= border
    /\ \A w \in Tables : tables[w] # Nothing => tables[w].at >= border /\ End(tables[w]) <= Total
    /\ \A o \in Objects : objects[o].size >= objects[o].asked
    /\ \A w \in Tables : tables[w].size >= tables[w].asked
=============================================================================

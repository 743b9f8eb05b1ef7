--------------------------- MODULE AllocatorProofs ---------------------------
(***************************************************************************)
(* Proofs about the memory pool, for a pool of any size, any classes and   *)
(* any requests: both areas stay tiled, everybody keeps the block they     *)
(* were given, an allocation is refused only when no block would do, and   *)
(* a safe point, which compacts the heap and moves the border, loses       *)
(* nothing.                                                                *)
(*                                                                         *)
(* The invariant says of an area that its blocks form a chain and that its *)
(* free blocks are in their lists.  It holds between operations only:      *)
(* inside one, blocks are in hand (Loose), out of their list and not       *)
(* counted.  There is a lemma for every helper that an operation is made   *)
(* of, which says what it does to an area with blocks in hand; those of    *)
(* the operations are put together from them.                              *)
(***************************************************************************)
EXTENDS Allocator, FiniteSetTheorems, SequenceTheorems, WellFoundedInduction, TLAPS

-----------------------------------------------------------------------------
(* Numbers and lists *)

\* Every set of numbers that is not empty has a least one.
LEMMA Least ==
    ASSUME NEW S \in SUBSET Nat, S # {}
    PROVE  Min(S) \in S /\ \A x \in S : Min(S) <= x
<1>1. PICK m \in S : \A y \in S : ~(<<y, m>> \in OpToRel(<, Nat))
  BY NatLessThanWellFounded, WFMin
<1>2. \A y \in S : ~(y < m)
  BY <1>1 DEF OpToRel
<1>3. \A y \in S : m <= y
  BY <1>2
<1> QED  BY <1>3 DEF Min

\* ... and a greatest one, if it has a bound.
LEMMA Greatest ==
    ASSUME NEW S \in SUBSET Nat, S # {}, NEW n \in Nat, \A x \in S : x <= n
    PROVE  Max(S) \in S /\ \A x \in S : x <= Max(S)
<1> DEFINE T == {n - x : x \in S}
<1>1. T \in SUBSET Nat /\ T # {}
  <2>1. \A x \in S : n - x \in Nat
    <3> TAKE x \in S
    <3>1. x \in Nat /\ x <= n
      OBVIOUS
    <3> QED  BY <3>1
  <2> QED  BY <2>1
<1>2. PICK t \in T : \A y \in T : t <= y
  BY <1>1, Least
<1>3. PICK m \in S : t = n - m
  OBVIOUS
<1>4. \A x \in S : x <= m
  <2> TAKE x \in S
  <2>1. t <= n - x
    BY <1>2
  <2> QED  BY <1>3, <2>1
<1>5. \A x \in S : m >= x
  BY <1>4
<1>6. \E k \in S : \A x \in S : k >= x
  BY <1>5
<1>7. Max(S) \in S /\ \A x \in S : Max(S) >= x
  BY <1>6 DEF Max
<1> QED  BY <1>7

\* A block taken out of a list it is once in is gone, the rest is as before.
LEMMA RemoveFirstProps ==
    ASSUME NEW S, NEW l \in Seq(S), IsInjective(l), NEW b, b \in Range(l)
    PROVE  /\ RemoveFirst(l, b) \in Seq(S)
           /\ IsInjective(RemoveFirst(l, b))
           /\ Range(RemoveFirst(l, b)) = Range(l) \ {b}
<1>1. PICK n \in Nat : n = Len(l) /\ DOMAIN l = 1 .. n
  OBVIOUS
<1>2. PICK i \in 1 .. n : l[i] = b
  BY <1>1 DEF Range
<1>3. \A j \in 1 .. n : l[j] = b => j = i
  BY <1>1, <1>2 DEF IsInjective
<1>4. {j \in 1 .. Len(l) : l[j] = b} = {i}
  BY <1>1, <1>2, <1>3
<1>5. Min({i}) = i
  BY DEF Min
<1>6. SelectInSeq(l, LAMBDA v : v = b) = i
  BY <1>4, <1>5 DEF SelectInSeq
<1>7. RemoveFirst(l, b) = RemoveAt(l, i)
  BY <1>1, <1>2, <1>6 DEF RemoveFirst
<1>8. PICK p : p = SubSeq(l, 1, i - 1)
  OBVIOUS
<1>9. PICK q : q = SubSeq(l, i + 1, n)
  OBVIOUS
<1>10. p \in Seq(S) /\ Len(p) = i - 1 /\ \A j \in 1 .. i - 1 : p[j] = l[j]
  <2>1. \A j \in 1 .. i - 1 : l[j] \in S
    BY <1>1, ElementOfSeq
  <2> QED  BY <1>1, <1>8, <2>1, SubSeqProperties
<1>11. q \in Seq(S) /\ Len(q) = n - i /\ \A j \in 1 .. n - i : q[j] = l[i + j]
  <2>1. \A j \in i + 1 .. n : l[j] \in S
    BY <1>1, ElementOfSeq
  <2> QED  BY <1>1, <1>9, <2>1, SubSeqProperties
<1>12. PICK r : r = RemoveFirst(l, b)
  OBVIOUS
<1>13. r = p \o q
  BY <1>1, <1>7, <1>8, <1>9, <1>12 DEF RemoveAt
<1>14. r \in Seq(S) /\ Len(r) = n - 1 /\ DOMAIN r = 1 .. n - 1
  <2>1. r \in Seq(S) /\ Len(r) = Len(p) + Len(q)
    BY <1>10, <1>11, <1>13, ConcatProperties
  <2>2. DOMAIN r = 1 .. Len(r)
    BY <2>1, LenProperties
  <2> QED  BY <1>10, <1>11, <2>1, <2>2
<1>15. \A j \in 1 .. n - 1 : r[j] = IF j < i THEN l[j] ELSE l[j + 1]
  <2> TAKE j \in 1 .. n - 1
  <2>1. CASE j < i
    BY <1>10, <1>11, <1>13, <2>1, ConcatProperties
  <2>2. CASE ~(j < i)
    <3>1. r[j] = q[j - (i - 1)] /\ j - (i - 1) \in 1 .. n - i
      BY <1>10, <1>11, <1>13, <2>2, ConcatProperties
    <3> QED  BY <1>11, <2>2, <3>1
  <2> QED  BY <2>1, <2>2
<1>16. IsInjective(r)
  <2> SUFFICES ASSUME NEW j \in 1 .. n - 1, NEW k \in 1 .. n - 1, r[j] = r[k]
               PROVE  j = k
    BY <1>14 DEF IsInjective
  <2>1. PICK u \in 1 .. n : u = IF j < i THEN j ELSE j + 1
    OBVIOUS
  <2>2. PICK v \in 1 .. n : v = IF k < i THEN k ELSE k + 1
    OBVIOUS
  <2>3. l[u] = l[v]
    BY <1>15, <2>1, <2>2
  <2>4. u = v
    BY <1>1, <2>3 DEF IsInjective
  <2> QED  BY <2>1, <2>2, <2>4
<1>17. Range(r) = Range(l) \ {b}
  <2>1. ASSUME NEW x \in Range(r)
        PROVE  x \in Range(l) \ {b}
    BY <1>1, <1>2, <1>3, <1>14, <1>15 DEF Range
  <2>2. ASSUME NEW x \in Range(l) \ {b}
        PROVE  x \in Range(r)
    <3>1. PICK j \in 1 .. n : l[j] = x
      BY <1>1 DEF Range
    <3>2. j # i
      BY <1>2, <3>1
    <3>3. CASE j < i
      BY <1>1, <1>14, <1>15, <3>1, <3>3 DEF Range
    <3>4. CASE j > i
      <4>1. PICK k \in 1 .. n - 1 : k = j - 1
        BY <3>4
      <4>2. r[k] = x
        BY <1>15, <3>1, <3>4, <4>1
      <4> QED  BY <1>14, <4>1, <4>2 DEF Range
    <3> QED  BY <3>2, <3>3, <3>4
  <2> QED  BY <2>1, <2>2
<1> QED  BY <1>12, <1>16, <1>17, <1>14

-----------------------------------------------------------------------------
(* Blocks that lie one behind the other *)

\* The block maps of an area from first to end: the blocks follow one another
\* without room between them, and each is tagged with the size of the one before.
Chain(f, first, end) ==
    /\ DOMAIN f \subseteq Nat /\ first \in DOMAIN f /\ end \in Nat
    /\ \A b \in DOMAIN f :
          /\ f[b].size \in Nat \ {0} /\ f[b].prev \in Nat
          /\ first <= b /\ b + f[b].size <= end
          /\ b + f[b].size \in DOMAIN f \cup {end}
    /\ \A b, c \in DOMAIN f : b < c => b + f[b].size <= c
    /\ f[first].prev = 0
    /\ \A b \in DOMAIN f \ {first} :
          b - f[b].prev \in DOMAIN f /\ f[b - f[b].prev].size = f[b].prev

\* The tag of a block is the size of the one that ends where it begins.
LEMMA TagOfNext ==
    ASSUME NEW f, NEW first, NEW end, Chain(f, first, end),
           NEW b \in DOMAIN f, NEW c \in DOMAIN f, c = b + f[b].size
    PROVE  f[c].prev = f[b].size /\ c # first
<1>1. b \in Nat /\ c \in Nat /\ f[b].size \in Nat \ {0} /\ first <= b /\ first \in Nat
  BY DEF Chain
<1>2. c # first
  BY <1>1
<1>3. PICK p \in DOMAIN f : p = c - f[c].prev /\ f[p].size = f[c].prev
  BY <1>2 DEF Chain
<1>4. p \in Nat /\ f[c].prev \in Nat /\ f[p].size \in Nat \ {0}
  BY DEF Chain
<1>5. p = b
  <2>1. p < b => p + f[p].size <= b
    BY DEF Chain
  <2>2. b < p => c <= p
    BY DEF Chain
  <2> QED  BY <1>1, <1>3, <1>4, <2>1, <2>2
<1> QED  BY <1>2, <1>3, <1>5

\* A block is cut in two.
LEMMA ChainSplit ==
    ASSUME NEW f, NEW first, NEW end, Chain(f, first, end),
           NEW b \in DOMAIN f, NEW x \in Nat \ {0}, x < f[b].size,
           NEW g, NEW m, m = b + x, DOMAIN g = DOMAIN f \cup {m},
           g[b].size = x, g[b].prev = f[b].prev,
           g[m].size = f[b].size - x, g[m].prev = x,
           \A c \in DOMAIN f \ {b} :
              /\ g[c].size = f[c].size
              /\ g[c].prev = IF c = b + f[b].size THEN f[b].size - x ELSE f[c].prev
    PROVE  Chain(g, first, end) /\ m \notin DOMAIN f /\ b < m /\ m < b + f[b].size
<1>1. b \in Nat /\ f[b].size \in Nat \ {0} /\ m \in Nat /\ b < m /\ first \in Nat
  BY DEF Chain
<1>2. m \notin DOMAIN f
  BY <1>1 DEF Chain
<1>3. DOMAIN g \subseteq Nat /\ first \in DOMAIN g /\ end \in Nat
  BY <1>1 DEF Chain
<1>4. ASSUME NEW c \in DOMAIN g
      PROVE  /\ g[c].size \in Nat \ {0} /\ g[c].prev \in Nat
             /\ first <= c /\ c + g[c].size <= end
             /\ c + g[c].size \in DOMAIN g \cup {end}
  <2>1. CASE c = b
    BY <1>1, <2>1 DEF Chain
  <2>2. CASE c = m
    BY <1>1, <2>2 DEF Chain
  <2>3. CASE c \in DOMAIN f \ {b}
    <3>1. g[c].size = f[c].size /\ (g[c].prev = f[b].size - x \/ g[c].prev = f[c].prev)
      BY <2>3
    <3> QED  BY <1>1, <2>3, <3>1 DEF Chain
  <2> QED  BY <2>1, <2>2, <2>3
<1>5. ASSUME NEW c \in DOMAIN g, NEW d \in DOMAIN g, c < d
      PROVE  c + g[c].size <= d
  <2>1. c \in Nat /\ d \in Nat
    BY <1>3
  <2>2. \A y \in DOMAIN f : (y < b => y + f[y].size <= b) /\ (b < y => b + f[b].size <= y) /\ f[y].size \in Nat
    BY DEF Chain
  <2>3. CASE c = b
    <3>1. d # b /\ (d = m \/ (d \in DOMAIN f /\ b + f[b].size <= d))
      BY <1>1, <1>5, <2>1, <2>2, <2>3
    <3> QED  BY <1>1, <2>1, <2>3, <3>1
  <2>4. CASE c = m
    <3>1. d \in DOMAIN f /\ d # b
      BY <1>1, <1>5, <2>1, <2>4
    <3>2. b + f[b].size <= d
      BY <1>1, <1>5, <2>1, <2>2, <2>4, <3>1
    <3> QED  BY <1>1, <2>1, <2>4, <3>2
  <2>5. CASE c \in DOMAIN f \ {b}
    <3>1. g[c].size = f[c].size
      BY <2>5
    <3>2. CASE d \in DOMAIN f
      BY <1>5, <2>5, <3>1, <3>2 DEF Chain
    <3>3. CASE d = m
      <4>1. c < b
        BY <1>1, <1>5, <2>1, <2>2, <2>5, <3>3
      <4> QED  BY <1>1, <2>1, <2>2, <2>5, <3>1, <3>3, <4>1
    <3> QED  BY <3>2, <3>3
  <2> QED  BY <2>3, <2>4, <2>5
<1>6. g[first].prev = 0
  <2>1. CASE first = b
    BY <2>1 DEF Chain
  <2>2. CASE first # b
    <3>1. first # b + f[b].size
      BY <1>1 DEF Chain
    <3> QED  BY <2>2, <3>1 DEF Chain
  <2> QED  BY <2>1, <2>2
<1>7. ASSUME NEW c \in DOMAIN g \ {first}
      PROVE  c - g[c].prev \in DOMAIN g /\ g[c - g[c].prev].size = g[c].prev
  <2>1. CASE c = m
    <3>1. c - g[c].prev = b
      BY <1>1, <2>1
    <3> QED  BY <2>1, <3>1
  <2>2. CASE c \in DOMAIN f /\ c = b + f[b].size
    <3>1. c # b /\ g[c].prev = f[b].size - x
      BY <1>1, <2>2
    <3>2. c - g[c].prev = m
      BY <1>1, <2>2, <3>1
    <3> QED  BY <3>1, <3>2
  <2>3. CASE c \in DOMAIN f /\ c # b + f[b].size
    <3>1. g[c].prev = f[c].prev
      BY <2>3
    <3>2. PICK p \in DOMAIN f : p = c - f[c].prev /\ f[p].size = f[c].prev
      BY <1>7, <2>3 DEF Chain
    <3>3. p # b
      <4>1. c \in Nat /\ f[c].prev \in Nat
        BY <2>3 DEF Chain
      <4> QED  BY <1>1, <2>3, <3>2, <4>1
    <3> QED  BY <3>1, <3>2, <3>3
  <2> QED  BY <2>1, <2>2, <2>3
<1> QED  BY <1>1, <1>2, <1>3, <1>4, <1>5, <1>6, <1>7 DEF Chain

\* Blocks become one, from lo up to hi.
LEMMA ChainJoin ==
    ASSUME NEW f, NEW first, NEW end, Chain(f, first, end),
           NEW lo \in DOMAIN f, NEW hi \in DOMAIN f \cup {end}, lo < hi,
           NEW g, DOMAIN g = {c \in DOMAIN f : c <= lo \/ hi <= c},
           g[lo].size = hi - lo, g[lo].prev = f[lo].prev,
           \A c \in DOMAIN g \ {lo} :
              /\ g[c].size = f[c].size
              /\ g[c].prev = IF c = hi THEN hi - lo ELSE f[c].prev
    PROVE  Chain(g, first, end)
<1>1. lo \in Nat /\ hi \in Nat /\ first \in Nat /\ end \in Nat /\ first <= lo
  BY DEF Chain
<1>2. DOMAIN g \subseteq Nat /\ first \in DOMAIN g /\ lo \in DOMAIN g
  BY <1>1 DEF Chain
<1>3. \A c \in DOMAIN f : c < lo => c + f[c].size <= lo
  BY DEF Chain
<1>4. hi \in DOMAIN g \cup {end}
  BY <1>1
<1>5. hi <= end
  BY <1>1 DEF Chain
<1>6. ASSUME NEW c \in DOMAIN g
      PROVE  /\ g[c].size \in Nat \ {0} /\ g[c].prev \in Nat
             /\ first <= c /\ c + g[c].size <= end
             /\ c + g[c].size \in DOMAIN g \cup {end}
  <2>1. CASE c = lo
    <3>1. c + g[c].size = hi
      BY <1>1, <2>1
    <3> QED  BY <1>1, <1>4, <1>5, <2>1, <3>1 DEF Chain
  <2>2. CASE c # lo
    <3>1. g[c].size = f[c].size /\ (g[c].prev = hi - lo \/ g[c].prev = f[c].prev)
      BY <2>2
    <3>2. c \in Nat /\ f[c].size \in Nat \ {0} /\ f[c].prev \in Nat /\ c + f[c].size <= end /\ first <= c
      BY DEF Chain
    <3>3. c + f[c].size \in DOMAIN f \cup {end}
      BY DEF Chain
    <3>4. c + f[c].size <= lo \/ hi <= c + f[c].size
      BY <1>1, <1>3, <2>2, <3>2
    <3> QED  BY <1>1, <3>1, <3>2, <3>3, <3>4
  <2> QED  BY <2>1, <2>2
<1>7. ASSUME NEW c \in DOMAIN g, NEW d \in DOMAIN g, c < d
      PROVE  c + g[c].size <= d
  <2>1. CASE c = lo
    <3>1. hi <= d
      BY <1>1, <1>2, <1>7, <2>1
    <3> QED  BY <1>1, <1>2, <2>1, <3>1
  <2>2. CASE c # lo
    BY <1>7, <2>2 DEF Chain
  <2> QED  BY <2>1, <2>2
<1>8. g[first].prev = 0
  <2>1. first # hi
    BY <1>1
  <2> QED  BY <1>2, <2>1 DEF Chain
<1>9. ASSUME NEW c \in DOMAIN g \ {first}
      PROVE  c - g[c].prev \in DOMAIN g /\ g[c - g[c].prev].size = g[c].prev
  <2>1. CASE c = hi
    <3>1. c # lo /\ c - g[c].prev = lo
      BY <1>1, <2>1
    <3> QED  BY <1>2, <2>1, <3>1
  <2>2. CASE c # hi
    <3>1. g[c].prev = f[c].prev
      BY <2>2
    <3>2. PICK p \in DOMAIN f : p = c - f[c].prev /\ f[p].size = f[c].prev
      BY <1>9 DEF Chain
    <3>3. c \in Nat /\ p \in Nat /\ f[p].size \in Nat \ {0} /\ c = p + f[p].size
      <4>1. c \in Nat /\ p \in Nat /\ f[p].size \in Nat \ {0} /\ f[c].prev \in Nat
        BY DEF Chain
      <4> QED  BY <3>2, <4>1
    <3>4. p # lo /\ (p < lo \/ hi <= p)
      <4>1. CASE c <= lo
        BY <1>1, <3>3, <4>1
      <4>2. CASE hi < c
        <5>1. p < hi => hi \in DOMAIN f /\ c <= hi
          <6>1. hi \in DOMAIN f
            BY <1>1, <3>3, <4>2 DEF Chain
          <6> QED  BY <3>3, <6>1 DEF Chain
        <5> QED  BY <1>1, <3>3, <4>2, <5>1
      <4> QED  BY <1>1, <1>2, <2>2, <4>1, <4>2
    <3>5. p \in DOMAIN g /\ g[p].size = f[p].size
      BY <1>1, <3>3, <3>4
    <3> QED  BY <3>1, <3>2, <3>5
  <2> QED  BY <2>1, <2>2
<1> QED  BY <1>1, <1>2, <1>6, <1>7, <1>8, <1>9 DEF Chain

-----------------------------------------------------------------------------
(* What blocks take together *)

\* The units of blocks lie in their area, so that they can be counted.
LEMMA UnitsIn ==
    ASSUME NEW s, NEW first, Chain(s.blocks, first, s.end), NEW bs \in SUBSET DOMAIN s.blocks
    PROVE  /\ Units(s, bs) \subseteq 0 .. s.end - 1
           /\ IsFiniteSet(Units(s, bs)) /\ SumSizes(s, bs) \in Nat
<1>1. s.end \in Nat
  BY DEF Chain
<1>2. Units(s, bs) \subseteq 0 .. s.end - 1
  <2> SUFFICES ASSUME NEW b \in bs, NEW u \in b .. NextOf(s, b) - 1
               PROVE  u \in 0 .. s.end - 1
    BY DEF Units
  <2>1. b \in Nat /\ s.blocks[b].size \in Nat /\ b + s.blocks[b].size <= s.end
    BY DEF Chain
  <2>2. NextOf(s, b) = b + s.blocks[b].size
    BY DEF NextOf, SizeAt
  <2> QED  BY <1>1, <2>1, <2>2
<1>3. IsFiniteSet(0 .. s.end - 1)
  BY <1>1, FS_Interval
<1>4. IsFiniteSet(Units(s, bs))
  BY <1>2, <1>3, FS_Subset
<1> QED  BY <1>2, <1>4, FS_CardinalityType DEF SumSizes

\* More blocks do not take less.
LEMMA SumMonotone ==
    ASSUME NEW s, NEW first, Chain(s.blocks, first, s.end),
           NEW cs \in SUBSET DOMAIN s.blocks, NEW bs \in SUBSET cs
    PROVE  SumSizes(s, bs) <= SumSizes(s, cs)
<1>1. IsFiniteSet(Units(s, cs))
  BY UnitsIn
<1>2. Units(s, bs) \subseteq Units(s, cs)
  BY DEF Units
<1> QED  BY <1>1, <1>2, FS_Subset DEF SumSizes

\* What lies below e takes no more than e.
LEMMA SumBelow ==
    ASSUME NEW s, NEW first, Chain(s.blocks, first, s.end),
           NEW bs \in SUBSET DOMAIN s.blocks, NEW e \in Nat,
           \A b \in bs : NextOf(s, b) <= e
    PROVE  SumSizes(s, bs) <= e
<1>1. Units(s, bs) \subseteq 0 .. e - 1
  <2> SUFFICES ASSUME NEW b \in bs, NEW u \in b .. NextOf(s, b) - 1
               PROVE  u \in 0 .. e - 1
    BY DEF Units
  <2>1. b \in Nat /\ s.blocks[b].size \in Nat
    BY DEF Chain
  <2>2. NextOf(s, b) = b + s.blocks[b].size /\ NextOf(s, b) <= e
    BY DEF NextOf, SizeAt
  <2> QED  BY <2>1, <2>2
<1>2. IsFiniteSet(0 .. e - 1) /\ Cardinality(0 .. e - 1) = e
  BY FS_Interval
<1> QED  BY <1>1, <1>2, FS_Subset DEF SumSizes

\* Another block adds its size.
LEMMA SumAdd ==
    ASSUME NEW s, NEW first, Chain(s.blocks, first, s.end),
           NEW bs \in SUBSET DOMAIN s.blocks, NEW b \in DOMAIN s.blocks, b \notin bs
    PROVE  SumSizes(s, bs \cup {b}) = SumSizes(s, bs) + s.blocks[b].size
<1>1. b \in Nat /\ s.blocks[b].size \in Nat \ {0}
  BY DEF Chain
<1>2. NextOf(s, b) = b + s.blocks[b].size
  BY DEF NextOf, SizeAt
<1> DEFINE own == b .. NextOf(s, b) - 1
<1>3. IsFiniteSet(own) /\ Cardinality(own) = s.blocks[b].size
  <2>1. PICK e \in Nat : e = NextOf(s, b) - 1 /\ b <= e /\ e - b + 1 = s.blocks[b].size
    BY <1>1, <1>2
  <2>2. IsFiniteSet(b .. e) /\ Cardinality(b .. e) = e - b + 1
    BY <1>1, <2>1, FS_Interval
  <2> QED  BY <2>1, <2>2
<1>4. Units(s, bs \cup {b}) = Units(s, bs) \cup own
  BY DEF Units
<1>5. Units(s, bs) \cap own = {}
  <2> SUFFICES ASSUME NEW c \in bs, NEW u \in c .. NextOf(s, c) - 1, u \in own
               PROVE  FALSE
    BY DEF Units
  <2>1. c \in Nat /\ s.blocks[c].size \in Nat \ {0} /\ c # b
    BY DEF Chain
  <2>2. NextOf(s, c) = c + s.blocks[c].size
    BY DEF NextOf, SizeAt
  <2>3. c < b => c + s.blocks[c].size <= b
    BY DEF Chain
  <2>4. b < c => b + s.blocks[b].size <= c
    BY DEF Chain
  <2> QED  BY <1>1, <1>2, <2>1, <2>2, <2>3, <2>4
<1>6. IsFiniteSet(Units(s, bs)) /\ SumSizes(s, bs) \in Nat
  BY UnitsIn
<1>7. Cardinality(Units(s, bs) \cup own) =
        Cardinality(Units(s, bs)) + Cardinality(own) - Cardinality(Units(s, bs) \cap own)
  <2> HIDE DEF own
  <2> QED  BY <1>3, <1>6, FS_Union
<1>8. Cardinality(Units(s, bs) \cap own) = 0
  BY <1>5, FS_EmptySet
<1> HIDE DEF own
<1>9. SumSizes(s, bs \cup {b}) = Cardinality(Units(s, bs) \cup own)
  BY <1>4 DEF SumSizes
<1>10. SumSizes(s, bs) = Cardinality(Units(s, bs))
  BY DEF SumSizes
<1> QED  BY <1>1, <1>3, <1>6, <1>7, <1>8, <1>9, <1>10

\* Only the sizes of the blocks count.
LEMMA SumSame ==
    ASSUME NEW s, NEW t, NEW bs, \A b \in bs : t.blocks[b].size = s.blocks[b].size
    PROVE  SumSizes(t, bs) = SumSizes(s, bs)
BY DEF SumSizes, Units, NextOf, SizeAt

\* Nothing taken is no block.
LEMMA SumZero ==
    ASSUME NEW s, NEW first, Chain(s.blocks, first, s.end), NEW bs \in SUBSET DOMAIN s.blocks
    PROVE  SumSizes(s, bs) = 0 <=> bs = {}
<1>1. CASE bs = {}
  <2>1. Units(s, bs) = {}
    BY <1>1 DEF Units
  <2> QED  BY <1>1, <2>1, FS_EmptySet DEF SumSizes
<1>2. CASE bs # {}
  <2>1. PICK b \in bs : TRUE
    BY <1>2
  <2>2. b \in Nat /\ s.blocks[b].size \in Nat \ {0}
    BY DEF Chain
  <2>3. b \in b .. NextOf(s, b) - 1
    BY <2>2 DEF NextOf, SizeAt
  <2>4. b \in Units(s, bs)
    BY <2>3 DEF Units
  <2>5. IsFiniteSet(Units(s, bs))
    BY UnitsIn
  <2> QED  BY <1>2, <2>4, <2>5, FS_EmptySet DEF SumSizes
<1> QED  BY <1>1, <1>2

-----------------------------------------------------------------------------
(* Areas in the middle of an operation *)

\* Headers with numbers of any size: that they stay within the pool is proved, not assumed.
Owner == Objects \cup Tables \cup {Nobody}
Block == [size : Nat, prev : Nat, used : BOOLEAN, owner : Owner]

\* The fields of an area.
Record(s) ==
    s = [blocks |-> s.blocks, lists |-> s.lists, used |-> s.used, base |-> s.base, end |-> s.end]

\* Of a block map, without the blocks in hand: the used blocks, and the free ones.
Taken(f, X) == {b \in DOMAIN f \ X : f[b].used}
Idle(f, X)  == {b \in DOMAIN f \ X : ~f[b].used}

\* No two free blocks lie side by side.
Apart(f, X) == \A b \in Idle(f, X) : b + f[b].size \notin Idle(f, X)

\* Every free block is in the list it belongs to, once, and in no other.
Filed(s, X) ==
    /\ s.lists \in Seq(Seq(Nat)) /\ Len(s.lists) \in {1, Len(Classes) + 1}
    /\ \A i \in 1 .. Len(s.lists) :
          /\ IsInjective(s.lists[i])
          /\ Range(s.lists[i]) = {b \in Idle(s.blocks, X) : ListIndex(s, s.blocks[b].size) = i}

\* What the area says is used is what the used blocks take.
Counted(s, X) == s.used = SumSizes(s, Taken(s.blocks, X))

\* An area whose blocks X an operation has in hand: they are neither in a list
\* nor counted, and what their headers say of their use is not yet settled.
Loose(s, first, least, X) ==
    /\ Record(s) /\ Chain(s.blocks, first, s.end) /\ X \subseteq DOMAIN s.blocks
    /\ \A b \in DOMAIN s.blocks : s.blocks[b] \in Block /\ (b \notin X => s.blocks[b].size >= least)
    /\ Apart(s.blocks, X) /\ Filed(s, X) /\ Counted(s, X)

\* Every size has a list.
LEMMA IndexProps ==
    ASSUME NEW s, Len(s.lists) \in {1, Len(Classes) + 1}, NEW z \in Nat
    PROVE  ListIndex(s, z) \in 1 .. Len(s.lists)
<1>1. PICK n \in Nat : n = Len(Classes) /\ DOMAIN Classes = 1 .. n
  BY PoolAssumption
<1> DEFINE I == {i \in DOMAIN Classes : Classes[i] >= z}
<1>2. I # {} => Min(I) \in I
  <2>1. I \in SUBSET Nat
    BY <1>1
  <2> HIDE DEF I
  <2> QED  BY <2>1, Least
<1>3. ClassOf(z) \in 1 .. n + 1
  <2>1. CASE I = {}
    <3>1. ClassOf(z) = n + 1
      BY <1>1, <2>1 DEF ClassOf
    <3> QED  BY <3>1
  <2>2. CASE I # {}
    <3>1. ClassOf(z) = Min(I)
      BY <2>2 DEF ClassOf
    <3> QED  BY <1>1, <1>2, <2>2, <3>1
  <2> QED  BY <2>1, <2>2
<1>4. 1 \in 1 .. 1
  OBVIOUS
<1>5. Len(s.lists) = 1 \/ Len(s.lists) = n + 1
  BY <1>1
<1> QED  BY <1>3, <1>4, <1>5 DEF ListIndex

\* In which list a size belongs depends on the number of lists only.
LEMMA IndexSame ==
    ASSUME NEW s, NEW t, Len(t.lists) = Len(s.lists), NEW z
    PROVE  ListIndex(t, z) = ListIndex(s, z)
BY DEF ListIndex

\* Headers in hand may change; the other parts stay as they are.
LEMMA FiledSame ==
    ASSUME NEW s, NEW X, Filed(s, X), NEW t, t.lists = s.lists, NEW Y,
           Idle(t.blocks, Y) = Idle(s.blocks, X),
           \A b \in Idle(s.blocks, X) : t.blocks[b].size = s.blocks[b].size
    PROVE  Filed(t, Y)
<1>1. \A z : ListIndex(t, z) = ListIndex(s, z)
  BY DEF ListIndex
<1> QED  BY <1>1 DEF Filed

\* A free block is taken out of its list, and is then in hand.
Unlisted(s, t, X, Y, b) == t = TakeOut(s, b) /\ b \in Idle(s.blocks, X) /\ Y = X \cup {b}

\* TakeOut leaves an area as it should be, with one block more in hand.
LEMMA TakeOutLoose ==
    ASSUME NEW s, NEW first, NEW least, NEW X, Loose(s, first, least, X),
           NEW t, NEW Y, NEW b, Unlisted(s, t, X, Y, b)
    PROVE  /\ Loose(t, first, least, Y)
           /\ t.blocks = s.blocks /\ t.used = s.used /\ t.base = s.base /\ t.end = s.end
           /\ Len(t.lists) = Len(s.lists)
<1>1. t = TakeOut(s, b) /\ b \in Idle(s.blocks, X) /\ Y = X \cup {b}
  BY DEF Unlisted
<1> USE <1>1
<1>2. PICK k : k = ListIndex(s, s.blocks[b].size)
  OBVIOUS
<1>3. b \in DOMAIN s.blocks /\ b \in Nat /\ s.blocks[b].size \in Nat
  BY DEF Idle, Loose, Chain
<1>4. k \in 1 .. Len(s.lists)
  <2>1. Len(s.lists) \in {1, Len(Classes) + 1}
    BY DEF Loose, Filed
  <2>2. PICK z \in Nat : z = s.blocks[b].size
    BY <1>3
  <2>3. ListIndex(s, z) \in 1 .. Len(s.lists)
    BY <2>1, IndexProps
  <2> QED  BY <1>2, <2>2, <2>3
<1>5. PICK ls : ls = [s.lists EXCEPT ![k] = RemoveFirst(s.lists[k], b)]
  OBVIOUS
<1>6. /\ t.blocks = s.blocks /\ t.used = s.used /\ t.base = s.base /\ t.end = s.end
      /\ t.lists = ls /\ Record(t)
  BY <1>2, <1>5 DEF TakeOut, Loose, Record, SizeAt
<1>7. b \in Range(s.lists[k]) /\ IsInjective(s.lists[k]) /\ s.lists[k] \in Seq(Nat)
  BY <1>2, <1>4, ElementOfSeq DEF Loose, Filed
<1>8. PICK l \in Seq(Nat) :
         l = RemoveFirst(s.lists[k], b) /\ IsInjective(l) /\ Range(l) = Range(s.lists[k]) \ {b}
  BY <1>7, RemoveFirstProps
<1>9. ls \in Seq(Seq(Nat)) /\ Len(ls) = Len(s.lists)
  BY <1>4, <1>5, <1>8 DEF Loose, Filed
<1>10. ls[k] = l /\ \A i \in 1 .. Len(s.lists) : i # k => ls[i] = s.lists[i]
  BY <1>4, <1>5, <1>8 DEF Loose, Filed
<1>11. \A z : ListIndex(t, z) = ListIndex(s, z)
  BY <1>6, <1>9, IndexSame
<1>12. Idle(t.blocks, Y) = Idle(s.blocks, X) \ {b}
  BY <1>6 DEF Idle
<1>13. Taken(t.blocks, Y) = Taken(s.blocks, X)
  BY <1>6 DEF Idle, Taken
<1>14. Filed(t, Y)
  <2> SUFFICES ASSUME NEW i \in 1 .. Len(s.lists)
               PROVE  /\ IsInjective(ls[i])
                      /\ Range(ls[i]) = {c \in Idle(s.blocks, X) \ {b} : ListIndex(s, s.blocks[c].size) = i}
    <3>1. \A j : {c \in Idle(s.blocks, X) \ {b} : ListIndex(s, s.blocks[c].size) = j}
            = {c \in Idle(t.blocks, Y) : ListIndex(t, t.blocks[c].size) = j}
      BY <1>6, <1>11, <1>12
    <3>2. t.lists \in Seq(Seq(Nat)) /\ Len(t.lists) = Len(s.lists) /\ Len(t.lists) \in {1, Len(Classes) + 1}
      BY <1>6, <1>9 DEF Filed, Loose
    <3> QED  BY <1>6, <3>1, <3>2 DEF Filed
  <2>1. Range(s.lists[i]) = {c \in Idle(s.blocks, X) : ListIndex(s, s.blocks[c].size) = i}
    BY DEF Filed, Loose
  <2>2. CASE i = k
    BY <1>8, <1>10, <2>1, <2>2
  <2>3. CASE i # k
    <3>1. IsInjective(ls[i]) /\ ls[i] = s.lists[i]
      BY <1>10, <2>3 DEF Filed, Loose
    <3> QED  BY <1>2, <2>1, <2>3, <3>1
  <2> QED  BY <2>2, <2>3
<1>15. Apart(t.blocks, Y)
  BY <1>6, <1>12 DEF Apart, Loose
<1>16. Counted(t, Y)
  BY <1>6, <1>13, SumSame DEF Counted, Loose
<1> QED  BY <1>3, <1>6, <1>9, <1>14, <1>15, <1>16 DEF Loose

\* A block in hand that has no free neighbour goes into its list.
Listed(s, t, least, X, Y, b) ==
    /\ t = Insert(s, b) /\ Y = X \ {b}
    /\ b \in X /\ ~s.blocks[b].used /\ s.blocks[b].size >= least
    /\ b + s.blocks[b].size \notin Idle(s.blocks, X)
    /\ \A c \in Idle(s.blocks, X) : c + s.blocks[c].size # b

\* Insert leaves it so with one block less in hand.
LEMMA InsertLoose ==
    ASSUME NEW s, NEW first, NEW least, NEW X, Loose(s, first, least, X),
           NEW t, NEW Y, NEW b, Listed(s, t, least, X, Y, b)
    PROVE  /\ Loose(t, first, least, Y)
           /\ t.blocks = s.blocks /\ t.used = s.used /\ t.base = s.base /\ t.end = s.end
           /\ Len(t.lists) = Len(s.lists)
<1>1. /\ b \in X /\ ~s.blocks[b].used /\ s.blocks[b].size >= least
      /\ b + s.blocks[b].size \notin Idle(s.blocks, X)
      /\ \A c \in Idle(s.blocks, X) : c + s.blocks[c].size # b
      /\ t = Insert(s, b) /\ Y = X \ {b}
  BY DEF Listed
<1> USE <1>1
<1>2. PICK k : k = ListIndex(s, s.blocks[b].size)
  OBVIOUS
<1>3. b \in DOMAIN s.blocks /\ b \in Nat /\ s.blocks[b].size \in Nat \ {0}
  BY DEF Loose, Chain
<1>4. k \in 1 .. Len(s.lists)
  <2>1. Len(s.lists) \in {1, Len(Classes) + 1}
    BY DEF Loose, Filed
  <2>2. PICK z \in Nat : z = s.blocks[b].size
    BY <1>3
  <2>3. ListIndex(s, z) \in 1 .. Len(s.lists)
    BY <2>1, IndexProps
  <2> QED  BY <1>2, <2>2, <2>3
<1>5. PICK ls : ls = [s.lists EXCEPT ![k] = <<b>> \o s.lists[k]]
  OBVIOUS
<1>6. /\ t.blocks = s.blocks /\ t.used = s.used /\ t.base = s.base /\ t.end = s.end
      /\ t.lists = ls /\ Record(t)
  BY <1>2, <1>5 DEF Insert, Loose, Record, SizeAt
<1>7. PICK old \in Seq(Nat) : old = s.lists[k]
  BY <1>4, ElementOfSeq DEF Loose, Filed
<1>8. b \notin Range(old) /\ IsInjective(old)
  BY <1>4, <1>7 DEF Loose, Filed, Idle
<1>9. PICK l \in Seq(Nat) : l = <<b>> \o old
  <2>1. <<b>> \in Seq(Nat)
    BY <1>3
  <2> QED  BY <2>1, ConcatProperties
<1>10. Len(l) = Len(old) + 1 /\ l[1] = b /\ \A i \in 2 .. Len(l) : l[i] = old[i - 1]
  BY <1>3, <1>9
<1>11. Range(l) = Range(old) \cup {b} /\ IsInjective(l)
  <2>1. PICK n \in Nat : n = Len(old) /\ DOMAIN old = 1 .. n /\ DOMAIN l = 1 .. n + 1
    BY <1>10
  <2>2. \A i \in 1 .. n : old[i] = l[i + 1] /\ old[i] # b
    <3> TAKE i \in 1 .. n
    <3>1. PICK j \in 2 .. n + 1 : j = i + 1
      OBVIOUS
    <3>2. l[j] = old[i]
      BY <1>10, <2>1, <3>1
    <3>3. old[i] # b
      BY <1>8, <2>1 DEF Range
    <3> QED  BY <3>1, <3>2, <3>3
  <2>3. ASSUME NEW i \in 1 .. n + 1, NEW j \in 1 .. n + 1, l[i] = l[j]
        PROVE  i = j
    <3>1. CASE i = 1 \/ j = 1
      <4>1. \A m \in 1 .. n + 1 : m # 1 => l[m] # b
        BY <1>10, <2>1, <2>2
      <4> QED  BY <1>10, <2>3, <3>1, <4>1
    <3>2. CASE i # 1 /\ j # 1
      <4>1. i - 1 \in 1 .. n /\ j - 1 \in 1 .. n /\ old[i - 1] = old[j - 1]
        BY <1>10, <2>1, <2>3, <3>2
      <4>2. i - 1 = j - 1
        BY <1>8, <2>1, <4>1 DEF IsInjective
      <4> QED  BY <4>2
    <3> QED  BY <3>1, <3>2
  <2>4. \A x : x \in Range(l) <=> x \in Range(old) \/ x = b
    <3>1. ASSUME NEW x \in Range(l)
          PROVE  x \in Range(old) \/ x = b
      <4>1. PICK i \in 1 .. n + 1 : l[i] = x
        BY <2>1 DEF Range
      <4>2. i = 1 \/ (i - 1 \in 1 .. n /\ old[i - 1] = x)
        BY <1>10, <2>1, <4>1
      <4> QED  BY <1>10, <2>1, <4>1, <4>2 DEF Range
    <3>2. ASSUME NEW x \in Range(old)
          PROVE  x \in Range(l)
      <4>1. PICK i \in 1 .. n : old[i] = x
        BY <2>1 DEF Range
      <4>2. i + 1 \in 1 .. n + 1 /\ l[i + 1] = x
        BY <2>2, <4>1
      <4> QED  BY <2>1, <4>2 DEF Range
    <3>3. b \in Range(l)
      <4>1. 1 \in 1 .. n + 1
        BY <2>1
      <4> QED  BY <1>10, <2>1, <4>1 DEF Range
    <3> QED  BY <3>1, <3>2, <3>3
  <2> QED  BY <2>1, <2>3, <2>4 DEF IsInjective
<1>12. ls \in Seq(Seq(Nat)) /\ Len(ls) = Len(s.lists)
  BY <1>4, <1>5, <1>7, <1>9 DEF Loose, Filed
<1>13. ls[k] = l /\ \A i \in 1 .. Len(s.lists) : i # k => ls[i] = s.lists[i]
  BY <1>4, <1>5, <1>7, <1>9 DEF Loose, Filed
<1>14. \A z : ListIndex(t, z) = ListIndex(s, z)
  BY <1>6, <1>12, IndexSame
<1>15. Idle(t.blocks, Y) = Idle(s.blocks, X) \cup {b}
  BY <1>3, <1>6 DEF Idle
<1>16. Taken(t.blocks, Y) = Taken(s.blocks, X)
  BY <1>6 DEF Taken
<1>17. Filed(t, Y)
  <2> SUFFICES ASSUME NEW i \in 1 .. Len(s.lists)
               PROVE  /\ IsInjective(ls[i])
                      /\ Range(ls[i]) = {c \in Idle(s.blocks, X) \cup {b} : ListIndex(s, s.blocks[c].size) = i}
    <3>1. \A j : {c \in Idle(s.blocks, X) \cup {b} : ListIndex(s, s.blocks[c].size) = j}
            = {c \in Idle(t.blocks, Y) : ListIndex(t, t.blocks[c].size) = j}
      BY <1>6, <1>14, <1>15
    <3>2. t.lists \in Seq(Seq(Nat)) /\ Len(t.lists) = Len(s.lists) /\ Len(t.lists) \in {1, Len(Classes) + 1}
      BY <1>6, <1>12 DEF Filed, Loose
    <3> QED  BY <1>6, <3>1, <3>2 DEF Filed
  <2>1. Range(s.lists[i]) = {c \in Idle(s.blocks, X) : ListIndex(s, s.blocks[c].size) = i}
    BY DEF Filed, Loose
  <2>2. CASE i = k
    BY <1>2, <1>7, <1>11, <1>13, <2>1, <2>2
  <2>3. CASE i # k
    <3>1. IsInjective(ls[i]) /\ ls[i] = s.lists[i]
      BY <1>13, <2>3 DEF Filed, Loose
    <3> QED  BY <1>2, <2>1, <2>3, <3>1
  <2> QED  BY <2>2, <2>3
<1>18. Apart(t.blocks, Y)
  <2> SUFFICES ASSUME NEW c \in Idle(s.blocks, X) \cup {b}, c + s.blocks[c].size \in Idle(s.blocks, X) \cup {b}
               PROVE  FALSE
    BY <1>6, <1>15 DEF Apart
  <2>1. b + s.blocks[b].size # b
    BY <1>3
  <2> QED  BY <2>1 DEF Apart, Loose
<1>19. Counted(t, Y)
  BY <1>6, <1>16, SumSame DEF Counted, Loose
<1> QED  BY <1>3, <1>6, <1>12, <1>17, <1>18, <1>19 DEF Loose

-----------------------------------------------------------------------------
(* Writing headers *)

\* t is s but for its blocks.
OnlyBlocks(s, t) ==
    /\ Record(t)
    /\ t.lists = s.lists /\ t.used = s.used /\ t.base = s.base /\ t.end = s.end

\* Put writes one header.
LEMMA PutProps ==
    ASSUME NEW s, Record(s), NEW b, NEW h, NEW t, t = Put(s, b, h)
    PROVE  /\ OnlyBlocks(s, t)
           /\ DOMAIN t.blocks = DOMAIN s.blocks \cup {b} /\ t.blocks[b] = h
           /\ \A c \in DOMAIN s.blocks : c # b => t.blocks[c] = s.blocks[c]
<1>1. PICK g : g = [c \in DOMAIN s.blocks \cup {b} |-> IF c = b THEN h ELSE s.blocks[c]]
  OBVIOUS
<1>2. t = [s EXCEPT !.blocks = g]
  BY <1>1 DEF Put
<1>3. OnlyBlocks(s, t) /\ t.blocks = g
  BY <1>2 DEF OnlyBlocks, Record
<1> QED  BY <1>1, <1>3

\* Drop removes headers.
LEMMA DropProps ==
    ASSUME NEW s, Record(s), NEW bs, NEW t, t = Drop(s, bs)
    PROVE  /\ OnlyBlocks(s, t)
           /\ DOMAIN t.blocks = DOMAIN s.blocks \ bs
           /\ \A c \in DOMAIN s.blocks \ bs : t.blocks[c] = s.blocks[c]
<1>1. PICK g : g = [c \in DOMAIN s.blocks \ bs |-> s.blocks[c]]
  OBVIOUS
<1>2. t = [s EXCEPT !.blocks = g]
  BY <1>1 DEF Drop
<1>3. OnlyBlocks(s, t) /\ t.blocks = g
  BY <1>2 DEF OnlyBlocks, Record
<1> QED  BY <1>1, <1>3

\* Tag writes the tag of the block behind b, if there is one.
LEMMA TagProps ==
    ASSUME NEW s, Record(s), NEW b, NEW t, t = Tag(s, b),
           NEW n, n = b + s.blocks[b].size,
           n < s.end => n \in DOMAIN s.blocks /\ s.blocks[n] \in Block
    PROVE  /\ OnlyBlocks(s, t)
           /\ DOMAIN t.blocks = DOMAIN s.blocks
           /\ \A c \in DOMAIN s.blocks : c # n => t.blocks[c] = s.blocks[c]
           /\ n < s.end => /\ t.blocks[n].prev = s.blocks[b].size /\ t.blocks[n].size = s.blocks[n].size
                           /\ t.blocks[n].used = s.blocks[n].used /\ t.blocks[n].owner = s.blocks[n].owner
                           /\ s.blocks[b].size \in Nat => t.blocks[n] \in Block
<1>1. CASE n < s.end
  <2>1. PICK h \in Block : h = s.blocks[n]
    BY <1>1
  <2>2. PICK k : k = [h EXCEPT !.prev = s.blocks[b].size]
    OBVIOUS
  <2>3. /\ k.prev = s.blocks[b].size /\ k.size = h.size /\ k.used = h.used /\ k.owner = h.owner
        /\ s.blocks[b].size \in Nat => k \in Block
    BY <2>2 DEF Block
  <2>4. PICK g : g = [s.blocks EXCEPT ![n] = k]
    OBVIOUS
  <2>5. t = [s EXCEPT !.blocks = g]
    BY <1>1, <2>1, <2>2, <2>4 DEF Tag, HasNext, NextOf, SizeAt
  <2>6. OnlyBlocks(s, t) /\ t.blocks = g
    BY <2>5 DEF OnlyBlocks, Record
  <2>7. DOMAIN g = DOMAIN s.blocks /\ g[n] = k /\ \A c \in DOMAIN s.blocks : c # n => g[c] = s.blocks[c]
    BY <1>1, <2>4
  <2> QED  BY <2>1, <2>3, <2>6, <2>7
<1>2. CASE ~(n < s.end)
  <2>1. t = s
    BY <1>2 DEF Tag, HasNext, NextOf, SizeAt
  <2> QED  BY <1>2, <2>1 DEF OnlyBlocks
<1> QED  BY <1>1, <1>2

\* Where a block is followed by another.
LEMMA NextProps ==
    ASSUME NEW s, NEW first, Chain(s.blocks, first, s.end), NEW b \in DOMAIN s.blocks,
           NEW n, n = b + s.blocks[b].size
    PROVE  /\ n \in Nat /\ (n < s.end <=> n \in DOMAIN s.blocks) /\ (n < s.end \/ n = s.end)
           /\ NextOf(s, b) = n /\ (HasNext(s, b) <=> n \in DOMAIN s.blocks)
<1>1. b \in Nat /\ s.blocks[b].size \in Nat \ {0} /\ s.end \in Nat /\ n \in Nat
  BY DEF Chain
<1>2. n \in DOMAIN s.blocks \cup {s.end} /\ n <= s.end
  BY DEF Chain
<1>3. n \in DOMAIN s.blocks => n < s.end
  <2> HAVE n \in DOMAIN s.blocks
  <2>1. s.blocks[n].size \in Nat \ {0} /\ n + s.blocks[n].size <= s.end
    BY DEF Chain
  <2> QED  BY <1>1, <2>1
<1>4. NextOf(s, b) = n /\ (HasNext(s, b) <=> n < s.end)
  BY DEF NextOf, HasNext, SizeAt
<1> QED  BY <1>1, <1>2, <1>3, <1>4

\* Of the other blocks than b only the tag may have changed.
Kept(s, t, b) ==
    \A c \in DOMAIN s.blocks \cap DOMAIN t.blocks : c # b =>
        /\ t.blocks[c].size = s.blocks[c].size /\ t.blocks[c].used = s.blocks[c].used
        /\ t.blocks[c].owner = s.blocks[c].owner

\* A block in hand is cut in two, which are both in hand: h and k are their headers.
Halved(s, t, X, Y, b, m, h, k) ==
    /\ t = Tag(Put(Put(s, b, h), m, k), m) /\ Y = X \cup {m}
    /\ b \in X /\ h \in Block /\ k \in Block
    /\ h.size # 0 /\ h.size < s.blocks[b].size /\ m = b + h.size
    /\ k.size = s.blocks[b].size - h.size
    /\ h.prev = s.blocks[b].prev /\ k.prev = h.size

\* A cut leaves an area as it should be.
LEMMA SplitLoose ==
    ASSUME NEW s, NEW first, NEW least, NEW X, Loose(s, first, least, X),
           NEW t, NEW Y, NEW b, NEW m, NEW h, NEW k, Halved(s, t, X, Y, b, m, h, k)
    PROVE  /\ Loose(t, first, least, Y) /\ OnlyBlocks(s, t)
           /\ m \notin DOMAIN s.blocks
           /\ DOMAIN t.blocks = DOMAIN s.blocks \cup {m} /\ t.blocks[b] = h /\ t.blocks[m] = k
           /\ Kept(s, t, b)
<1>1. PICK f : f = s.blocks
  OBVIOUS
<1>2. PICK x \in Nat \ {0} :
         /\ b \in X /\ h \in Block /\ k \in Block /\ h.size = x /\ x < f[b].size /\ m = b + x
         /\ h.prev = f[b].prev /\ k.size = f[b].size - x /\ k.prev = x
         /\ t = Tag(Put(Put(s, b, h), m, k), m) /\ Y = X \cup {m}
  BY <1>1 DEF Halved, Block
<1> USE <1>2
<1>3. Chain(f, first, s.end) /\ Record(s) /\ b \in DOMAIN f /\ \A c \in DOMAIN f : f[c] \in Block
  BY <1>1 DEF Loose
<1>4. PICK n \in Nat : n = b + f[b].size /\ (n < s.end <=> n \in DOMAIN f)
  BY <1>1, <1>3, NextProps
<1>5. b \in Nat /\ f[b].size \in Nat /\ m \in Nat /\ b < m /\ m < n
  BY <1>1, <1>3, <1>4 DEF Chain
<1>6. m \notin DOMAIN f
  <2>1. \A c \in DOMAIN f : b < c => n <= c
    BY <1>3, <1>4 DEF Chain
  <2> QED  BY <1>4, <1>5, <2>1
<1>7. PICK s1 : s1 = Put(s, b, h)
  OBVIOUS
<1>8. /\ OnlyBlocks(s, s1) /\ DOMAIN s1.blocks = DOMAIN f /\ s1.blocks[b] = h
      /\ \A c \in DOMAIN f : c # b => s1.blocks[c] = f[c]
  <2>1. /\ OnlyBlocks(s, s1) /\ DOMAIN s1.blocks = DOMAIN s.blocks \cup {b} /\ s1.blocks[b] = h
        /\ \A c \in DOMAIN s.blocks : c # b => s1.blocks[c] = s.blocks[c]
    BY <1>3, <1>7, PutProps
  <2> QED  BY <1>1, <1>3, <2>1
<1>9. PICK s2 : s2 = Put(s1, m, k)
  OBVIOUS
<1>10. /\ OnlyBlocks(s, s2) /\ DOMAIN s2.blocks = DOMAIN f \cup {m} /\ s2.blocks[m] = k /\ s2.blocks[b] = h
       /\ \A c \in DOMAIN f : c # b => s2.blocks[c] = f[c]
  <2>1. /\ OnlyBlocks(s1, s2) /\ DOMAIN s2.blocks = DOMAIN s1.blocks \cup {m} /\ s2.blocks[m] = k
        /\ \A c \in DOMAIN s1.blocks : c # m => s2.blocks[c] = s1.blocks[c]
    <3>1. Record(s1)
      BY <1>8 DEF OnlyBlocks
    <3> QED  BY <1>9, <3>1, PutProps
  <2>2. OnlyBlocks(s, s2)
    BY <1>8, <2>1 DEF OnlyBlocks
  <2> QED  BY <1>3, <1>5, <1>6, <1>8, <2>1, <2>2
<1>11. t = Tag(s2, m) /\ n = m + s2.blocks[m].size
  BY <1>1, <1>4, <1>5, <1>7, <1>9, <1>10
<1>12. n < s.end => n \in DOMAIN s2.blocks /\ s2.blocks[n] = f[n] /\ f[n] \in Block
  BY <1>3, <1>4, <1>5, <1>10
<1>13. /\ OnlyBlocks(s2, t) /\ DOMAIN t.blocks = DOMAIN s2.blocks
       /\ \A c \in DOMAIN s2.blocks : c # n => t.blocks[c] = s2.blocks[c]
       /\ n < s.end => /\ t.blocks[n].prev = k.size /\ t.blocks[n].size = f[n].size
                       /\ t.blocks[n].used = f[n].used /\ t.blocks[n].owner = f[n].owner
                       /\ t.blocks[n] \in Block
  <2>1. Record(s2) /\ s2.end = s.end /\ k.size \in Nat
    BY <1>10 DEF OnlyBlocks, Block
  <2> QED  BY <1>10, <1>11, <1>12, <2>1, TagProps
<1>14. PICK g : g = t.blocks
  OBVIOUS
<1>15. OnlyBlocks(s, t)
  BY <1>10, <1>13 DEF OnlyBlocks
<1>16. DOMAIN g = DOMAIN f \cup {m} /\ g[b] = h /\ g[m] = k
  BY <1>3, <1>5, <1>10, <1>13, <1>14
<1>17. ASSUME NEW c \in DOMAIN f \ {b}
       PROVE  /\ g[c].size = f[c].size /\ g[c].used = f[c].used /\ g[c].owner = f[c].owner /\ g[c] \in Block
              /\ g[c].prev = IF c = n THEN k.size ELSE f[c].prev
  <2>1. CASE c = n
    BY <1>4, <1>13, <1>14, <2>1
  <2>2. CASE c # n
    BY <1>3, <1>10, <1>13, <1>14, <2>2
  <2> QED  BY <2>1, <2>2
<1>18. Chain(g, first, s.end)
  BY <1>1, <1>3, <1>4, <1>16, <1>17, ChainSplit
<1>19. Idle(g, Y) = Idle(f, X) /\ Taken(g, Y) = Taken(f, X)
  BY <1>6, <1>16, <1>17 DEF Idle, Taken
<1>20. \A c \in Idle(f, X) \cup Taken(f, X) : g[c].size = f[c].size
  BY <1>17 DEF Idle, Taken
<1>21. Apart(g, Y)
  BY <1>1, <1>19, <1>20 DEF Apart, Loose
<1>22. Filed(t, Y)
  BY <1>1, <1>14, <1>15, <1>19, <1>20, FiledSame DEF Loose, OnlyBlocks
<1>23. Counted(t, Y)
  <2>1. SumSizes(t, Taken(f, X)) = SumSizes(s, Taken(f, X))
    BY <1>1, <1>14, <1>20, SumSame
  <2> QED  BY <1>1, <1>14, <1>15, <1>19, <2>1 DEF Counted, Loose, OnlyBlocks
<1>24. \A c \in DOMAIN g : g[c] \in Block /\ (c \notin Y => g[c].size >= least)
  BY <1>1, <1>3, <1>16, <1>17 DEF Loose
<1>25. Loose(t, first, least, Y)
  BY <1>1, <1>14, <1>15, <1>16, <1>18, <1>21, <1>22, <1>23, <1>24 DEF Loose, OnlyBlocks
<1> QED  BY <1>1, <1>6, <1>14, <1>15, <1>16, <1>17, <1>25 DEF Kept

\* Blocks in hand from lo up to hi become one, which is in hand.
Joined(s, t, X, Y, lo, hi, gone, h) ==
    /\ t = Tag(Put(Drop(s, gone), lo, h), lo) /\ Y = X \ gone
    /\ lo \in X /\ hi \in DOMAIN s.blocks \cup {s.end} /\ lo < hi
    /\ gone = {c \in DOMAIN s.blocks : lo < c /\ c < hi} /\ gone \subseteq X
    /\ h \in Block /\ h.size = hi - lo /\ h.prev = s.blocks[lo].prev

\* Making several blocks one leaves an area as it should be.
LEMMA JoinLoose ==
    ASSUME NEW s, NEW first, NEW least, NEW X, Loose(s, first, least, X),
           NEW t, NEW Y, NEW lo, NEW hi, NEW gone, NEW h, Joined(s, t, X, Y, lo, hi, gone, h)
    PROVE  /\ Loose(t, first, least, Y) /\ OnlyBlocks(s, t)
           /\ DOMAIN t.blocks = DOMAIN s.blocks \ gone /\ t.blocks[lo] = h /\ lo \notin gone
           /\ Kept(s, t, lo)
<1>1. /\ t = Tag(Put(Drop(s, gone), lo, h), lo) /\ Y = X \ gone
      /\ lo \in X /\ hi \in DOMAIN s.blocks \cup {s.end} /\ lo < hi
      /\ gone = {c \in DOMAIN s.blocks : lo < c /\ c < hi} /\ gone \subseteq X
      /\ h \in Block /\ h.size = hi - lo /\ h.prev = s.blocks[lo].prev
  BY DEF Joined
<1> USE <1>1
<1>2. PICK f : f = s.blocks
  OBVIOUS
<1>3. Chain(f, first, s.end) /\ Record(s) /\ lo \in DOMAIN f /\ \A c \in DOMAIN f : f[c] \in Block
  BY <1>2 DEF Loose
<1>4. lo \in Nat /\ hi \in Nat /\ s.end \in Nat /\ \A c \in DOMAIN f : c \in Nat
  BY <1>2, <1>3 DEF Chain
<1>5. lo \notin gone /\ hi \notin gone
  BY <1>4
<1>6. hi < s.end <=> hi \in DOMAIN f
  <2>1. \A c \in DOMAIN f : f[c].size \in Nat \ {0} /\ c + f[c].size <= s.end
    BY <1>3 DEF Chain
  <2> QED  BY <1>2, <1>4, <2>1
<1>7. PICK s1 : s1 = Drop(s, gone)
  OBVIOUS
<1>8. /\ OnlyBlocks(s, s1) /\ DOMAIN s1.blocks = DOMAIN f \ gone
      /\ \A c \in DOMAIN f \ gone : s1.blocks[c] = f[c]
  <2>1. /\ OnlyBlocks(s, s1) /\ DOMAIN s1.blocks = DOMAIN s.blocks \ gone
        /\ \A c \in DOMAIN s.blocks \ gone : s1.blocks[c] = s.blocks[c]
    BY <1>3, <1>7, DropProps
  <2> QED  BY <1>2, <2>1
<1>9. PICK s2 : s2 = Put(s1, lo, h)
  OBVIOUS
<1>10. /\ OnlyBlocks(s, s2) /\ DOMAIN s2.blocks = DOMAIN f \ gone /\ s2.blocks[lo] = h
       /\ \A c \in DOMAIN f \ gone : c # lo => s2.blocks[c] = f[c]
  <2>1. /\ OnlyBlocks(s1, s2) /\ DOMAIN s2.blocks = DOMAIN s1.blocks \cup {lo} /\ s2.blocks[lo] = h
        /\ \A c \in DOMAIN s1.blocks : c # lo => s2.blocks[c] = s1.blocks[c]
    <3>1. Record(s1)
      BY <1>8 DEF OnlyBlocks
    <3> QED  BY <1>9, <3>1, PutProps
  <2>2. OnlyBlocks(s, s2)
    BY <1>8, <2>1 DEF OnlyBlocks
  <2> QED  BY <1>3, <1>5, <1>8, <2>1, <2>2
<1>11. t = Tag(s2, lo) /\ hi = lo + s2.blocks[lo].size
  BY <1>4, <1>7, <1>9, <1>10
<1>12. hi < s.end => hi \in DOMAIN s2.blocks /\ s2.blocks[hi] = f[hi] /\ f[hi] \in Block
  <2>1. hi # lo
    BY <1>4
  <2> QED  BY <1>3, <1>5, <1>6, <1>10, <2>1
<1>13. /\ OnlyBlocks(s2, t) /\ DOMAIN t.blocks = DOMAIN s2.blocks
       /\ \A c \in DOMAIN s2.blocks : c # hi => t.blocks[c] = s2.blocks[c]
       /\ hi < s.end => /\ t.blocks[hi].prev = h.size /\ t.blocks[hi].size = f[hi].size
                        /\ t.blocks[hi].used = f[hi].used /\ t.blocks[hi].owner = f[hi].owner
                        /\ t.blocks[hi] \in Block
  <2>1. Record(s2) /\ s2.end = s.end /\ h.size \in Nat
    BY <1>10 DEF OnlyBlocks, Block
  <2>2. hi < s2.end => hi \in DOMAIN s2.blocks /\ s2.blocks[hi] \in Block
    BY <1>12, <2>1
  <2>3. /\ OnlyBlocks(s2, t) /\ DOMAIN t.blocks = DOMAIN s2.blocks
        /\ \A c \in DOMAIN s2.blocks : c # hi => t.blocks[c] = s2.blocks[c]
        /\ hi < s2.end => /\ t.blocks[hi].prev = s2.blocks[lo].size /\ t.blocks[hi].size = s2.blocks[hi].size
                          /\ t.blocks[hi].used = s2.blocks[hi].used /\ t.blocks[hi].owner = s2.blocks[hi].owner
                          /\ s2.blocks[lo].size \in Nat => t.blocks[hi] \in Block
    <3>1. PICK n : n = hi
      OBVIOUS
    <3>2. n = lo + s2.blocks[lo].size /\ Record(s2) /\ t = Tag(s2, lo)
      BY <1>11, <2>1, <3>1
    <3>3. n < s2.end => n \in DOMAIN s2.blocks /\ s2.blocks[n] \in Block
      BY <2>2, <3>1
    <3>4. OnlyBlocks(s2, t) /\ DOMAIN t.blocks = DOMAIN s2.blocks
      BY <3>2, <3>3, TagProps
    <3>5. \A c \in DOMAIN s2.blocks : c # n => t.blocks[c] = s2.blocks[c]
      BY <3>2, <3>3, TagProps
    <3>6. n < s2.end => /\ t.blocks[n].prev = s2.blocks[lo].size /\ t.blocks[n].size = s2.blocks[n].size
                        /\ t.blocks[n].used = s2.blocks[n].used /\ t.blocks[n].owner = s2.blocks[n].owner
                        /\ s2.blocks[lo].size \in Nat => t.blocks[n] \in Block
      BY <3>2, <3>3, TagProps
    <3> QED  BY <3>1, <3>4, <3>5, <3>6
  <2> QED  BY <1>10, <1>12, <2>1, <2>3
<1>14. PICK g : g = t.blocks
  OBVIOUS
<1>15. OnlyBlocks(s, t)
  BY <1>10, <1>13 DEF OnlyBlocks
<1>16. DOMAIN g = DOMAIN f \ gone /\ g[lo] = h
  <2>1. hi # lo
    BY <1>4
  <2> QED  BY <1>3, <1>5, <1>10, <1>13, <1>14, <2>1
<1>17. ASSUME NEW c \in DOMAIN g \ {lo}
       PROVE  /\ g[c].size = f[c].size /\ g[c].used = f[c].used /\ g[c].owner = f[c].owner /\ g[c] \in Block
              /\ g[c].prev = IF c = hi THEN hi - lo ELSE f[c].prev
  <2>1. CASE c = hi
    BY <1>6, <1>13, <1>14, <1>16, <2>1
  <2>2. CASE c # hi
    BY <1>3, <1>10, <1>13, <1>14, <1>16, <2>2
  <2> QED  BY <2>1, <2>2
<1>18. Chain(g, first, s.end)
  <2>1. DOMAIN g = {c \in DOMAIN f : c <= lo \/ hi <= c}
    BY <1>2, <1>4, <1>16
  <2> QED  BY <1>2, <1>3, <1>16, <1>17, <2>1, ChainJoin
<1>19. Idle(g, Y) = Idle(f, X) /\ Taken(g, Y) = Taken(f, X)
  <2>1. \A c \in DOMAIN f \ X : c \in DOMAIN g \ {lo}
    BY <1>16
  <2> QED  BY <1>16, <1>17, <2>1 DEF Idle, Taken
<1>20. \A c \in Idle(f, X) \cup Taken(f, X) : g[c].size = f[c].size
  BY <1>16, <1>17 DEF Idle, Taken
<1>21. Apart(g, Y)
  BY <1>2, <1>19, <1>20 DEF Apart, Loose
<1>22. Filed(t, Y)
  <2>1. Filed(s, X) /\ t.lists = s.lists
    BY <1>15 DEF Loose, OnlyBlocks
  <2>2. Idle(t.blocks, Y) = Idle(s.blocks, X) /\ \A c \in Idle(s.blocks, X) : t.blocks[c].size = s.blocks[c].size
    BY <1>2, <1>14, <1>19, <1>20
  <2> QED  BY <2>1, <2>2, FiledSame
<1>23. Counted(t, Y)
  <2>1. PICK T : T = Taken(f, X)
    OBVIOUS
  <2>2. \A c \in T : t.blocks[c].size = s.blocks[c].size
    BY <1>2, <1>14, <1>20, <2>1
  <2>3. SumSizes(t, T) = SumSizes(s, T)
    BY <2>2, SumSame
  <2> QED  BY <1>2, <1>14, <1>15, <1>19, <2>1, <2>3 DEF Counted, Loose, OnlyBlocks
<1>24. \A c \in DOMAIN g : g[c] \in Block /\ (c \notin Y => g[c].size >= least)
  BY <1>2, <1>3, <1>5, <1>16, <1>17 DEF Loose
<1>25. Loose(t, first, least, Y)
  BY <1>2, <1>5, <1>14, <1>15, <1>16, <1>18, <1>21, <1>22, <1>23, <1>24 DEF Loose, OnlyBlocks
<1> QED  BY <1>2, <1>5, <1>14, <1>15, <1>16, <1>17, <1>25 DEF Kept

\* The header of a block in hand is written: its size and tag are as they were.
LEMMA PutLoose ==
    ASSUME NEW s, NEW first, NEW least, NEW X, Loose(s, first, least, X),
           NEW b \in X, NEW h \in Block, h.size = s.blocks[b].size, h.prev = s.blocks[b].prev,
           NEW t, t = Put(s, b, h)
    PROVE  /\ Loose(t, first, least, X) /\ OnlyBlocks(s, t)
           /\ DOMAIN t.blocks = DOMAIN s.blocks /\ t.blocks[b] = h
           /\ \A c \in DOMAIN s.blocks : c # b => t.blocks[c] = s.blocks[c]
<1>1. PICK f : f = s.blocks
  OBVIOUS
<1>2. Chain(f, first, s.end) /\ Record(s) /\ b \in DOMAIN f /\ \A c \in DOMAIN f : f[c] \in Block
  BY <1>1 DEF Loose
<1>3. PICK g : g = t.blocks
  OBVIOUS
<1>4. /\ OnlyBlocks(s, t) /\ DOMAIN g = DOMAIN f /\ g[b] = h
      /\ \A c \in DOMAIN f : c # b => g[c] = f[c]
  <2>1. /\ OnlyBlocks(s, t) /\ DOMAIN t.blocks = DOMAIN s.blocks \cup {b} /\ t.blocks[b] = h
        /\ \A c \in DOMAIN s.blocks : c # b => t.blocks[c] = s.blocks[c]
    BY <1>2, PutProps
  <2> QED  BY <1>1, <1>2, <1>3, <2>1
<1>5. \A c \in DOMAIN f : g[c].size = f[c].size /\ g[c].prev = f[c].prev
  BY <1>1, <1>4
<1>6. Chain(g, first, s.end)
  BY <1>2, <1>4, <1>5 DEF Chain
<1>7. Idle(g, X) = Idle(f, X) /\ Taken(g, X) = Taken(f, X)
  BY <1>4 DEF Idle, Taken
<1>8. \A c \in Idle(f, X) \cup Taken(f, X) : g[c].size = f[c].size
  BY <1>5 DEF Idle, Taken
<1>9. Apart(g, X)
  BY <1>1, <1>7, <1>8 DEF Apart, Loose
<1>10. Filed(t, X)
  BY <1>1, <1>3, <1>4, <1>7, <1>8, FiledSame DEF Loose, OnlyBlocks
<1>11. Counted(t, X)
  <2>1. SumSizes(t, Taken(f, X)) = SumSizes(s, Taken(f, X))
    BY <1>1, <1>3, <1>8, SumSame
  <2> QED  BY <1>1, <1>3, <1>4, <1>7, <2>1 DEF Counted, Loose, OnlyBlocks
<1>12. \A c \in DOMAIN g : g[c] \in Block /\ (c \notin X => g[c].size >= least)
  BY <1>1, <1>2, <1>4 DEF Loose
<1>13. Loose(t, first, least, X)
  BY <1>1, <1>3, <1>4, <1>6, <1>9, <1>10, <1>11, <1>12 DEF Loose, OnlyBlocks
<1> QED  BY <1>1, <1>3, <1>4, <1>13

\* t is s but for what it says is used.
OnlyCount(s, t) ==
    /\ Record(t)
    /\ t.blocks = s.blocks /\ t.lists = s.lists /\ t.base = s.base /\ t.end = s.end

\* A block in hand is given out.
GivenOut(s, t, least, X, Y, b) ==
    /\ t = [s EXCEPT !.used = @ + s.blocks[b].size] /\ Y = X \ {b}
    /\ b \in X /\ s.blocks[b].used /\ s.blocks[b].size >= least

\* Giving a block out leaves it so.
LEMMA GiveLoose ==
    ASSUME NEW s, NEW first, NEW least, NEW X, Loose(s, first, least, X),
           NEW t, NEW Y, NEW b, GivenOut(s, t, least, X, Y, b)
    PROVE  Loose(t, first, least, Y) /\ OnlyCount(s, t)
<1>1. /\ t = [s EXCEPT !.used = @ + s.blocks[b].size] /\ Y = X \ {b}
      /\ b \in X /\ s.blocks[b].used /\ s.blocks[b].size >= least
  BY DEF GivenOut
<1>2. Record(s) /\ Chain(s.blocks, first, s.end) /\ b \in DOMAIN s.blocks
  BY <1>1 DEF Loose
<1>3. OnlyCount(s, t) /\ t.used = s.used + s.blocks[b].size
  BY <1>1, <1>2 DEF OnlyCount, Record
<1>4. t.blocks = s.blocks /\ t.lists = s.lists /\ t.base = s.base /\ t.end = s.end /\ Record(t)
  BY <1>3 DEF OnlyCount
<1>5. Y = X \ {b} /\ b \in X /\ s.blocks[b].used /\ s.blocks[b].size >= least
  BY <1>1
<1>6. Idle(t.blocks, Y) = Idle(s.blocks, X)
  BY <1>4, <1>5 DEF Idle
<1>7. Taken(t.blocks, Y) = Taken(s.blocks, X) \cup {b} /\ b \notin Taken(s.blocks, X)
  BY <1>2, <1>4, <1>5 DEF Taken
<1>8. Apart(t.blocks, Y)
  BY <1>4, <1>6 DEF Apart, Loose
<1>9. Filed(t, Y)
  <2>1. \A c \in Idle(s.blocks, X) : t.blocks[c].size = s.blocks[c].size
    BY <1>4
  <2>2. Filed(s, X)
    BY DEF Loose
  <2> QED  BY <1>4, <1>6, <2>1, <2>2, FiledSame
<1>10. Counted(t, Y)
  <2>1. PICK T \in SUBSET DOMAIN s.blocks : T = Taken(s.blocks, X)
    BY DEF Taken
  <2>2. SumSizes(s, T \cup {b}) = SumSizes(s, T) + s.blocks[b].size
    BY <1>2, <1>7, <2>1, SumAdd
  <2>3. PICK B : B = T \cup {b}
    OBVIOUS
  <2>4. SumSizes(t, B) = SumSizes(s, B)
    BY <1>4, SumSame
  <2> QED  BY <1>3, <1>7, <2>1, <2>2, <2>3, <2>4 DEF Counted, Loose
<1>11. \A c \in DOMAIN t.blocks : t.blocks[c] \in Block /\ (c \notin Y => t.blocks[c].size >= least)
  BY <1>4, <1>5 DEF Loose
<1>12. Y \subseteq DOMAIN t.blocks /\ Chain(t.blocks, first, t.end)
  BY <1>2, <1>4, <1>5 DEF Loose
<1> QED  BY <1>3, <1>4, <1>8, <1>9, <1>10, <1>11, <1>12 DEF Loose

\* A block that was given out is taken back in hand.
Reclaimed(s, t, X, Y, b) ==
    t = [s EXCEPT !.used = @ - s.blocks[b].size] /\ b \in Taken(s.blocks, X) /\ Y = X \cup {b}

\* Taking a block back in hand leaves it so.
LEMMA ReclaimLoose ==
    ASSUME NEW s, NEW first, NEW least, NEW X, Loose(s, first, least, X),
           NEW t, NEW Y, NEW b, Reclaimed(s, t, X, Y, b)
    PROVE  Loose(t, first, least, Y) /\ OnlyCount(s, t)
<1>1. t = [s EXCEPT !.used = @ - s.blocks[b].size] /\ b \in Taken(s.blocks, X) /\ Y = X \cup {b}
  BY DEF Reclaimed
<1> USE <1>1
<1>2. Record(s) /\ Chain(s.blocks, first, s.end) /\ b \in DOMAIN s.blocks /\ s.blocks[b].size \in Nat
  BY DEF Loose, Taken, Chain
<1>3. OnlyCount(s, t) /\ t.used = s.used - s.blocks[b].size
  BY <1>2 DEF OnlyCount, Record
<1>4. Idle(t.blocks, Y) = Idle(s.blocks, X)
  BY <1>3 DEF Idle, Taken, OnlyCount
<1>5. PICK T \in SUBSET DOMAIN s.blocks : T = Taken(t.blocks, Y)
  BY <1>3 DEF Taken, OnlyCount
<1>6. b \notin T /\ Taken(s.blocks, X) = T \cup {b}
  BY <1>2, <1>3, <1>5 DEF Taken, OnlyCount
<1>7. Apart(t.blocks, Y)
  BY <1>3, <1>4 DEF Apart, OnlyCount, Loose
<1>8. Filed(t, Y)
  BY <1>3, <1>4, FiledSame DEF Loose, OnlyCount
<1>9. Counted(t, Y)
  <2>1. SumSizes(s, T \cup {b}) = SumSizes(s, T) + s.blocks[b].size
    BY <1>2, <1>6, SumAdd
  <2>2. SumSizes(t, T) = SumSizes(s, T) /\ SumSizes(s, T) \in Nat
    BY <1>2, <1>3, SumSame, UnitsIn DEF OnlyCount
  <2> QED  BY <1>2, <1>3, <1>5, <1>6, <2>1, <2>2 DEF Counted, Loose
<1> QED  BY <1>2, <1>3, <1>7, <1>8, <1>9 DEF Loose, OnlyCount
-----------------------------------------------------------------------------
(* Giving blocks out and taking them back *)

\* An area with no block in hand.
Whole(s, first, least) == Loose(s, first, least, {})

\* The used blocks of an area, and the free ones.
UsedOf(s) == {b \in DOMAIN s.blocks : s.blocks[b].used}
FreeOf(s) == {b \in DOMAIN s.blocks : ~s.blocks[b].used}

\* Another block of s is given out in t, to owner ...
Gave(s, t, b, owner) ==
    /\ t.base = s.base /\ t.end = s.end /\ Len(t.lists) = Len(s.lists)
    /\ b \notin UsedOf(s) /\ UsedOf(t) = UsedOf(s) \cup {b}
    /\ t.blocks[b].owner = owner
    /\ \A c \in UsedOf(s) :
          t.blocks[c].owner = s.blocks[c].owner /\ t.blocks[c].size = s.blocks[c].size

\* ... or a block that s gives out no longer is in t.
TookBack(s, t, b) ==
    /\ t.base = s.base /\ t.end = s.end /\ Len(t.lists) = Len(s.lists)
    /\ UsedOf(t) = UsedOf(s) \ {b}
    /\ \A c \in UsedOf(s) \ {b} :
          t.blocks[c].owner = s.blocks[c].owner /\ t.blocks[c].size = s.blocks[c].size

\* A free block is given out whole.
TookWhole(s, s1, t, b, owner) ==
    /\ b \in FreeOf(s) /\ owner \in Owner
    /\ s1 = Put(TakeOut(s, b), b, Header(s.blocks[b].size, s.blocks[b].prev, TRUE, owner))
    /\ t = [s1 EXCEPT !.used = @ + s1.blocks[b].size]

\* An area of which a whole block was given out is whole, and it gave just that block.
LEMMA TakeWhole ==
    ASSUME NEW s, NEW first, NEW least, Whole(s, first, least),
           NEW s1, NEW t, NEW b, NEW owner, TookWhole(s, s1, t, b, owner)
    PROVE  /\ Whole(t, first, least) /\ Gave(s, t, b, owner)
           /\ s1.blocks[b].size = s.blocks[b].size /\ t.blocks[b].size = s.blocks[b].size
<1>1. PICK f : f = s.blocks
  OBVIOUS
<1>2. /\ b \in DOMAIN f /\ ~f[b].used /\ f[b].size \in Nat /\ f[b].prev \in Nat /\ owner \in Owner
      /\ f[b].size >= least
  BY <1>1 DEF TookWhole, FreeOf, Whole, Loose, Block
<1>3. PICK h \in Block : h = Header(f[b].size, f[b].prev, TRUE, owner)
  BY <1>2 DEF Header, Block
<1>4. h.size = f[b].size /\ h.prev = f[b].prev /\ h.used /\ h.owner = owner
  BY <1>3 DEF Header
<1>5. PICK s0 : s0 = TakeOut(s, b)
  OBVIOUS
<1>6. s1 = Put(s0, b, h)
  BY <1>1, <1>3, <1>5 DEF TookWhole
<1>7. PICK X : X = {b}
  OBVIOUS
<1>8. PICK E : E = {}
  OBVIOUS
<1>9. Loose(s, first, least, E)
  BY <1>8 DEF Whole
<1>10. Unlisted(s, s0, E, X, b)
  BY <1>1, <1>2, <1>5, <1>7, <1>8 DEF Unlisted, Idle
<1>11. /\ Loose(s0, first, least, X)
       /\ s0.blocks = f /\ s0.base = s.base /\ s0.end = s.end /\ Len(s0.lists) = Len(s.lists)
  BY <1>1, <1>9, <1>10, TakeOutLoose
<1>12. /\ Loose(s1, first, least, X) /\ OnlyBlocks(s0, s1)
       /\ DOMAIN s1.blocks = DOMAIN f /\ s1.blocks[b] = h
       /\ \A c \in DOMAIN f : c # b => s1.blocks[c] = f[c]
  <2>1. b \in X /\ h.size = s0.blocks[b].size /\ h.prev = s0.blocks[b].prev
    BY <1>4, <1>7, <1>11
  <2> QED  BY <1>6, <1>11, <2>1, PutLoose
<1>13. GivenOut(s1, t, least, X, E, b)
  BY <1>2, <1>4, <1>7, <1>8, <1>12 DEF GivenOut, TookWhole
<1>14. Loose(t, first, least, E) /\ OnlyCount(s1, t)
  BY <1>12, <1>13, GiveLoose
<1>15. UsedOf(t) = UsedOf(s) \cup {b} /\ b \notin UsedOf(s)
  BY <1>1, <1>2, <1>4, <1>12, <1>14 DEF UsedOf, OnlyCount
<1>16. Gave(s, t, b, owner)
  BY <1>1, <1>4, <1>11, <1>12, <1>14, <1>15 DEF Gave, UsedOf, OnlyCount, OnlyBlocks
<1> QED  BY <1>1, <1>4, <1>8, <1>12, <1>14, <1>16 DEF OnlyCount, Whole

\* The low part of a free block is given out.
TookLow(s, s1, t, b, size, owner) ==
    LET rest == s.blocks[b].size - size
        s2   == Put(Put(TakeOut(s, b), b, Header(size, s.blocks[b].prev, TRUE, owner)),
                    b + size, Header(rest, size, FALSE, Nobody))
    IN /\ b \in FreeOf(s) /\ owner \in Owner /\ size \in Nat
       /\ s1 = Insert(Tag(s2, b + size), b + size)
       /\ t = [s1 EXCEPT !.used = @ + s1.blocks[b].size]

\* It is also when the low part was given out, the rest being large enough for a block.
LEMMA TakeLow ==
    ASSUME NEW s, NEW first, NEW least \in Nat \ {0}, Whole(s, first, least),
           NEW s1, NEW t, NEW b, NEW size, NEW owner, TookLow(s, s1, t, b, size, owner),
           least <= size, least <= s.blocks[b].size - size
    PROVE  /\ Whole(t, first, least) /\ Gave(s, t, b, owner)
           /\ s1.blocks[b].size = size /\ t.blocks[b].size = size
<1>1. PICK f : f = s.blocks
  OBVIOUS
<1>2. /\ b \in DOMAIN f /\ b \in Nat /\ ~f[b].used /\ f[b].size \in Nat /\ f[b].prev \in Nat
      /\ owner \in Owner /\ size \in Nat \ {0}
      /\ Chain(f, first, s.end) /\ Apart(f, {})
  BY <1>1 DEF TookLow, FreeOf, Whole, Loose, Block, Chain
<1>3. PICK rest \in Nat : rest = f[b].size - size /\ least <= rest
  BY <1>1, <1>2
<1>4. PICK m \in Nat : m = b + size
  BY <1>2
<1>5. PICK h \in Block : h = Header(size, f[b].prev, TRUE, owner)
  BY <1>2 DEF Header, Block
<1>6. h.size = size /\ h.prev = f[b].prev /\ h.used /\ h.owner = owner
  BY <1>5 DEF Header
<1>7. PICK k \in Block : k = Header(rest, size, FALSE, Nobody)
  BY <1>2, <1>3 DEF Header, Block, Owner
<1>8. k.size = rest /\ k.prev = size /\ ~k.used
  BY <1>7 DEF Header
<1>9. PICK s0 : s0 = TakeOut(s, b)
  OBVIOUS
<1>10. PICK s3 : s3 = Tag(Put(Put(s0, b, h), m, k), m)
  OBVIOUS
<1>11. s1 = Insert(s3, m)
  BY <1>1, <1>3, <1>4, <1>5, <1>7, <1>9, <1>10 DEF TookLow
<1>12. PICK X : X = {b}
  OBVIOUS
<1>13. PICK E : E = {}
  OBVIOUS
<1>14. PICK Y : Y = {b, m}
  OBVIOUS
<1>15. Loose(s, first, least, E)
  BY <1>13 DEF Whole
<1>16. Unlisted(s, s0, E, X, b)
  BY <1>1, <1>2, <1>9, <1>12, <1>13 DEF Unlisted, Idle
<1>17. /\ Loose(s0, first, least, X)
       /\ s0.blocks = f /\ s0.base = s.base /\ s0.end = s.end /\ Len(s0.lists) = Len(s.lists)
  BY <1>1, <1>15, <1>16, TakeOutLoose
<1>18. Halved(s0, s3, X, Y, b, m, h, k)
  BY <1>2, <1>3, <1>4, <1>6, <1>8, <1>10, <1>12, <1>14, <1>17 DEF Halved
<1>19. /\ Loose(s3, first, least, Y) /\ OnlyBlocks(s0, s3)
       /\ m \notin DOMAIN f
       /\ DOMAIN s3.blocks = DOMAIN f \cup {m} /\ s3.blocks[b] = h /\ s3.blocks[m] = k
       /\ Kept(s0, s3, b)
  BY <1>17, <1>18, SplitLoose
<1>20. ASSUME NEW c \in DOMAIN f \ {b}
       PROVE  s3.blocks[c].size = f[c].size /\ s3.blocks[c].used = f[c].used /\ s3.blocks[c].owner = f[c].owner
  BY <1>17, <1>19 DEF Kept
<1>21. PICK n : n = b + f[b].size /\ n \in Nat /\ m < n /\ n = m + k.size /\ n <= s.end /\ b < m
  BY <1>2, <1>3, <1>4, <1>8 DEF Chain
<1>22. PICK I : I = Idle(s3.blocks, Y)
  OBVIOUS
<1>23. m \notin I /\ \A c \in I : c \in DOMAIN f \ {b} /\ ~f[c].used
  BY <1>14, <1>19, <1>20, <1>22 DEF Idle
<1>24. n \notin I
  BY <1>2, <1>21, <1>23 DEF Apart, Idle
<1>25. \A c \in I : c + s3.blocks[c].size # m
  <2> TAKE c \in I
  <2>1. c \in DOMAIN f \ {b} /\ s3.blocks[c].size = f[c].size
    BY <1>20, <1>23
  <2>2. c + f[c].size \in DOMAIN f \cup {s.end}
    BY <1>2, <2>1 DEF Chain
  <2> QED  BY <1>19, <1>21, <2>1, <2>2
<1>26. Listed(s3, s1, least, Y, X, m)
  <2>1. X = Y \ {m} /\ m \in Y
    BY <1>12, <1>14, <1>21
  <2>2. m + s3.blocks[m].size \notin Idle(s3.blocks, Y) /\ \A c \in Idle(s3.blocks, Y) : c + s3.blocks[c].size # m
    BY <1>19, <1>21, <1>23, <1>24, <1>25, <1>22
  <2>3. ~s3.blocks[m].used /\ s3.blocks[m].size >= least
    BY <1>3, <1>8, <1>19
  <2> QED  BY <1>11, <2>1, <2>2, <2>3 DEF Listed
<1>27. /\ Loose(s1, first, least, X)
       /\ s1.blocks = s3.blocks /\ s1.base = s3.base /\ s1.end = s3.end /\ Len(s1.lists) = Len(s3.lists)
  BY <1>19, <1>26, InsertLoose
<1>28. GivenOut(s1, t, least, X, E, b)
  BY <1>6, <1>12, <1>13, <1>19, <1>27 DEF GivenOut, TookLow
<1>29. Loose(t, first, least, E) /\ OnlyCount(s1, t)
  BY <1>27, <1>28, GiveLoose
<1>30. t.blocks = s3.blocks /\ t.base = s.base /\ t.end = s.end /\ Len(t.lists) = Len(s.lists)
  BY <1>17, <1>19, <1>27, <1>29 DEF OnlyBlocks, OnlyCount
<1>31. UsedOf(t) = UsedOf(s) \cup {b} /\ b \notin UsedOf(s)
  BY <1>1, <1>2, <1>6, <1>8, <1>19, <1>20, <1>30 DEF UsedOf
<1>32. Gave(s, t, b, owner)
  <2>1. \A c \in UsedOf(s) : c \in DOMAIN f \ {b}
    BY <1>1, <1>31 DEF UsedOf
  <2> QED  BY <1>1, <1>6, <1>19, <1>20, <1>30, <1>31, <2>1 DEF Gave
<1> QED  BY <1>6, <1>13, <1>19, <1>27, <1>29, <1>30, <1>32 DEF Whole

\* The high part of a free block is given out.
TookHigh(s, t, b, m, size, owner) ==
    LET rest == s.blocks[b].size - size
        s2   == Put(Put(TakeOut(s, b), b, Header(rest, s.blocks[b].prev, FALSE, Nobody)),
                    b + rest, Header(size, rest, TRUE, owner))
    IN /\ b \in FreeOf(s) /\ owner \in Owner /\ size \in Nat /\ m = b + rest
       /\ t = [Insert(Tag(s2, b + rest), b) EXCEPT !.used = @ + size]

\* It is also when the high part was given out.
LEMMA TakeHigh ==
    ASSUME NEW s, NEW first, NEW least \in Nat \ {0}, Whole(s, first, least),
           NEW t, NEW b, NEW m, NEW size, NEW owner, TookHigh(s, t, b, m, size, owner),
           least <= size, least <= s.blocks[b].size - size
    PROVE  Whole(t, first, least) /\ Gave(s, t, m, owner) /\ t.blocks[m].size = size
<1>1. PICK f : f = s.blocks
  OBVIOUS
<1>2. /\ b \in DOMAIN f /\ b \in Nat /\ ~f[b].used /\ f[b].size \in Nat /\ f[b].prev \in Nat
      /\ owner \in Owner /\ size \in Nat \ {0}
      /\ Chain(f, first, s.end) /\ Apart(f, {})
  BY <1>1 DEF TookHigh, FreeOf, Whole, Loose, Block, Chain
<1>3. PICK rest \in Nat \ {0} : rest = f[b].size - size /\ least <= rest
  BY <1>1, <1>2
<1>4. m \in Nat /\ m = b + rest /\ b < m
  BY <1>1, <1>2, <1>3 DEF TookHigh
<1>5. PICK h \in Block : h = Header(rest, f[b].prev, FALSE, Nobody)
  BY <1>2, <1>3 DEF Header, Block, Owner
<1>6. h.size = rest /\ h.prev = f[b].prev /\ ~h.used
  BY <1>5 DEF Header
<1>7. PICK k \in Block : k = Header(size, rest, TRUE, owner)
  BY <1>2, <1>3 DEF Header, Block
<1>8. k.size = size /\ k.prev = rest /\ k.used /\ k.owner = owner
  BY <1>7 DEF Header
<1>9. PICK s0 : s0 = TakeOut(s, b)
  OBVIOUS
<1>10. PICK s3 : s3 = Tag(Put(Put(s0, b, h), m, k), m)
  OBVIOUS
<1>11. PICK s1 : s1 = Insert(s3, b)
  OBVIOUS
<1>12. t = [s1 EXCEPT !.used = @ + size]
  BY <1>1, <1>3, <1>4, <1>5, <1>7, <1>9, <1>10, <1>11 DEF TookHigh
<1>13. PICK X : X = {b}
  OBVIOUS
<1>14. PICK E : E = {}
  OBVIOUS
<1>15. PICK Y : Y = {b, m}
  OBVIOUS
<1>16. PICK Z : Z = {m}
  OBVIOUS
<1>17. Loose(s, first, least, E)
  BY <1>14 DEF Whole
<1>18. Unlisted(s, s0, E, X, b)
  BY <1>1, <1>2, <1>9, <1>13, <1>14 DEF Unlisted, Idle
<1>19. /\ Loose(s0, first, least, X)
       /\ s0.blocks = f /\ s0.base = s.base /\ s0.end = s.end /\ Len(s0.lists) = Len(s.lists)
  BY <1>1, <1>17, <1>18, TakeOutLoose
<1>20. Halved(s0, s3, X, Y, b, m, h, k)
  BY <1>2, <1>3, <1>4, <1>6, <1>8, <1>10, <1>13, <1>15, <1>19 DEF Halved
<1>21. /\ Loose(s3, first, least, Y) /\ OnlyBlocks(s0, s3)
       /\ m \notin DOMAIN f
       /\ DOMAIN s3.blocks = DOMAIN f \cup {m} /\ s3.blocks[b] = h /\ s3.blocks[m] = k
       /\ Kept(s0, s3, b)
  BY <1>19, <1>20, SplitLoose
<1>22. ASSUME NEW c \in DOMAIN f \ {b}
       PROVE  s3.blocks[c].size = f[c].size /\ s3.blocks[c].used = f[c].used /\ s3.blocks[c].owner = f[c].owner
  BY <1>19, <1>21 DEF Kept
<1>23. PICK I : I = Idle(s3.blocks, Y)
  OBVIOUS
<1>24. m \notin I /\ b \notin I /\ \A c \in I : c \in DOMAIN f \ {b} /\ ~f[c].used
  BY <1>15, <1>21, <1>22, <1>23 DEF Idle
<1>25. \A c \in I : c + s3.blocks[c].size # b
  <2> TAKE c \in I
  <2>1. c \in DOMAIN f \ {b} /\ ~f[c].used /\ s3.blocks[c].size = f[c].size
    BY <1>22, <1>24
  <2> QED  BY <1>2, <2>1 DEF Apart, Idle
<1>26. Listed(s3, s1, least, Y, Z, b)
  <2>1. Z = Y \ {b} /\ b \in Y
    BY <1>2, <1>4, <1>15, <1>16
  <2>2. b + s3.blocks[b].size \notin Idle(s3.blocks, Y) /\ \A c \in Idle(s3.blocks, Y) : c + s3.blocks[c].size # b
    BY <1>4, <1>6, <1>21, <1>24, <1>25, <1>23
  <2>3. ~s3.blocks[b].used /\ s3.blocks[b].size >= least
    BY <1>3, <1>6, <1>21
  <2> QED  BY <1>11, <2>1, <2>2, <2>3 DEF Listed
<1>27. /\ Loose(s1, first, least, Z)
       /\ s1.blocks = s3.blocks /\ s1.base = s3.base /\ s1.end = s3.end /\ Len(s1.lists) = Len(s3.lists)
  BY <1>21, <1>26, InsertLoose
<1>28. GivenOut(s1, t, least, Z, E, m)
  BY <1>8, <1>12, <1>14, <1>16, <1>21, <1>27 DEF GivenOut
<1>29. Loose(t, first, least, E) /\ OnlyCount(s1, t)
  BY <1>27, <1>28, GiveLoose
<1>30. t.blocks = s3.blocks /\ t.base = s.base /\ t.end = s.end /\ Len(t.lists) = Len(s.lists)
  BY <1>19, <1>21, <1>27, <1>29 DEF OnlyBlocks, OnlyCount
<1>31. UsedOf(t) = UsedOf(s) \cup {m} /\ m \notin UsedOf(s)
  BY <1>1, <1>2, <1>6, <1>8, <1>21, <1>22, <1>30 DEF UsedOf
<1>32. Gave(s, t, m, owner)
  <2>1. \A c \in UsedOf(s) : c \in DOMAIN f \ {b}
    BY <1>1, <1>2 DEF UsedOf
  <2> QED  BY <1>1, <1>8, <1>21, <1>22, <1>30, <1>31, <2>1 DEF Gave
<1> QED  BY <1>8, <1>14, <1>21, <1>29, <1>30, <1>32 DEF Whole

\* A block in hand joins its free neighbours, and the area is whole again.
Coalesced(s, t, least, X, b) == t = Coalesce(s, b) /\ X = {b} /\ s.blocks[b].size >= least

\* The blocks in hand of s are not used in t.
Emptied(s, t, X) ==
    /\ t.base = s.base /\ t.end = s.end /\ Len(t.lists) = Len(s.lists)
    /\ UsedOf(t) = Taken(s.blocks, X)
    /\ \A c \in UsedOf(t) :
          t.blocks[c].owner = s.blocks[c].owner /\ t.blocks[c].size = s.blocks[c].size

\* Whatever a block in hand is joined with, the area is whole afterwards.
LEMMA CoalesceLoose ==
    ASSUME NEW s, NEW first, NEW least \in Nat \ {0}, NEW X, Loose(s, first, least, X),
           NEW t, NEW b, Coalesced(s, t, least, X, b)
    PROVE  Whole(t, first, least) /\ Emptied(s, t, X)
<1>1. t = Coalesce(s, b) /\ X = {b} /\ s.blocks[b].size >= least
  BY DEF Coalesced
<1> USE <1>1
<1>2. PICK f : f = s.blocks
  OBVIOUS
<1>3. Chain(f, first, s.end) /\ Apart(f, X) /\ b \in DOMAIN f /\ Record(s) /\ \A c \in DOMAIN f : f[c] \in Block
  BY <1>2 DEF Loose
<1>4. \A c \in DOMAIN f : c \in Nat /\ f[c].size \in Nat \ {0} /\ f[c].prev \in Nat /\ c + f[c].size \in DOMAIN f \cup {s.end}
  BY <1>3 DEF Chain
<1>5. s.end \in Nat /\ \A c \in DOMAIN f : c + f[c].size <= s.end
  BY <1>3 DEF Chain
<1>6. PICK n \in Nat : n = b + f[b].size /\ NextOf(s, b) = n /\ (HasNext(s, b) <=> n \in DOMAIN f) /\ b < n
  <2>1. PICK i : i = b + f[b].size
    OBVIOUS
  <2>2. i \in Nat /\ NextOf(s, b) = i /\ (HasNext(s, b) <=> i \in DOMAIN f)
    BY <1>2, <1>3, <2>1, NextProps
  <2> QED  BY <1>3, <1>4, <2>1, <2>2
<1>7. PICK lo : lo = IF JoinsBelow(s, b) THEN PrevOf(s, b) ELSE b
  OBVIOUS
<1>8. PICK up : up = IF JoinsAbove(s, b) THEN n ELSE b
  OBVIOUS
<1>9. JoinsBelow(s, b) => /\ lo \in Idle(f, X) /\ lo + f[lo].size = b /\ lo < b
  <2> HAVE JoinsBelow(s, b)
  <2>1. f[b].prev > 0 /\ lo = b - f[b].prev /\ ~f[lo].used
    BY <1>2, <1>7 DEF JoinsBelow, HasPrev, PrevOf, IsUsed
  <2>2. b # first
    BY <1>3, <2>1 DEF Chain
  <2>3. lo \in DOMAIN f /\ f[lo].size = f[b].prev
    BY <1>3, <2>1, <2>2 DEF Chain
  <2>4. lo + f[lo].size = b /\ lo < b
    BY <1>3, <1>4, <2>1, <2>3
  <2> QED  BY <1>3, <1>4, <2>1, <2>3, <2>4 DEF Idle
<1>10. JoinsAbove(s, b) => up = n /\ n \in Idle(f, X)
  BY <1>2, <1>3, <1>4, <1>6, <1>8 DEF JoinsAbove, IsUsed, Idle
<1>11. ~JoinsBelow(s, b) => lo = b /\ \A c \in Idle(f, X) : c + f[c].size # b
  <2> HAVE ~JoinsBelow(s, b)
  <2>1. ASSUME NEW c \in Idle(f, X), c + f[c].size = b
        PROVE  FALSE
    <3>1. c \in DOMAIN f /\ ~f[c].used
      BY DEF Idle
    <3>2. f[b].prev = f[c].size
      BY <1>3, <2>1, <3>1, TagOfNext
    <3>3. b - f[b].prev = c /\ f[b].prev > 0
      BY <1>3, <1>4, <2>1, <3>1, <3>2
    <3> QED  BY <1>2, <3>1, <3>3 DEF JoinsBelow, HasPrev, PrevOf, IsUsed
  <2> QED  BY <1>7, <2>1
<1>12. ~JoinsAbove(s, b) => up = b /\ n \notin Idle(f, X)
  BY <1>2, <1>6, <1>8 DEF JoinsAbove, IsUsed, Idle
<1>13. lo \in DOMAIN f /\ up \in DOMAIN f /\ lo <= b /\ b <= up /\ (lo = b \/ lo + f[lo].size = b) /\ (up = b \/ up = n)
  BY <1>3, <1>4, <1>6, <1>9, <1>10, <1>11, <1>12 DEF Idle
<1>14. PICK hi \in Nat : hi = up + f[up].size /\ hi \in DOMAIN f \cup {s.end} /\ up < hi
  BY <1>4, <1>13
<1>15. hi = IF JoinsAbove(s, b) THEN NextOf(s, NextOf(s, b)) ELSE NextOf(s, b)
  <2>1. NextOf(s, up) = hi
    BY <1>2, <1>14 DEF NextOf, SizeAt
  <2> QED  BY <1>6, <1>10, <1>12, <2>1
<1>16. lo <= up /\ lo < hi
  BY <1>4, <1>13, <1>14
<1>17. PICK s1 : s1 = IF JoinsBelow(s, b) THEN TakeOut(s, lo) ELSE s
  OBVIOUS
<1>18. PICK X1 : X1 = {b, lo}
  OBVIOUS
<1>19. /\ Loose(s1, first, least, X1)
       /\ s1.blocks = f /\ s1.base = s.base /\ s1.end = s.end /\ Len(s1.lists) = Len(s.lists)
  <2>1. CASE JoinsBelow(s, b)
    <3>1. Unlisted(s, s1, X, X1, lo)
      BY <1>2, <1>9, <1>17, <1>18, <2>1 DEF Unlisted
    <3> QED  BY <1>2, <3>1, TakeOutLoose
  <2>2. CASE ~JoinsBelow(s, b)
    <3>1. s1 = s /\ X1 = X
      BY <1>11, <1>17, <1>18, <2>2
    <3> QED  BY <1>2, <3>1
  <2> QED  BY <2>1, <2>2
<1>20. PICK s2 : s2 = IF JoinsAbove(s, b) THEN TakeOut(s1, n) ELSE s1
  OBVIOUS
<1>21. PICK X2 : X2 = {b, lo, up}
  OBVIOUS
<1>22. /\ Loose(s2, first, least, X2)
       /\ s2.blocks = f /\ s2.base = s.base /\ s2.end = s.end /\ Len(s2.lists) = Len(s.lists)
  <2>1. CASE JoinsAbove(s, b)
    <3>1. n # lo
      BY <1>4, <1>6, <1>13
    <3>2. n \in Idle(f, X1)
      BY <1>6, <1>10, <1>18, <2>1, <3>1, <1>3, <1>4 DEF Idle
    <3>3. X2 = X1 \cup {n} /\ s2 = TakeOut(s1, n)
      BY <1>10, <1>18, <1>20, <1>21, <2>1
    <3>4. Unlisted(s1, s2, X1, X2, n)
      BY <1>19, <3>2, <3>3 DEF Unlisted
    <3> QED  BY <1>19, <3>4, TakeOutLoose
  <2>2. CASE ~JoinsAbove(s, b)
    <3>1. s2 = s1 /\ X2 = X1
      BY <1>12, <1>18, <1>20, <1>21, <2>2
    <3> QED  BY <1>19, <3>1
  <2> QED  BY <2>1, <2>2
<1>23. PICK gone : gone = {c \in DOMAIN f : lo < c /\ c < hi}
  OBVIOUS
<1>24. \A c \in DOMAIN f : lo < c /\ c < hi => c = b \/ c = up
  <2> TAKE c \in DOMAIN f
  <2> HAVE lo < c /\ c < hi
  <2>1. c \in Nat /\ lo \in Nat /\ up \in Nat /\ b \in Nat
    BY <1>3, <1>4, <1>13
  <2>2. lo + f[lo].size <= c
    BY <1>3, <1>13 DEF Chain
  <2>3. b < c => n <= c
    BY <1>3, <1>6 DEF Chain
  <2>4. up < c => hi <= c
    BY <1>3, <1>13, <1>14 DEF Chain
  <2>5. b <= c
    BY <1>13, <2>1, <2>2, <1>4, <1>6
  <2>6. c <= up
    BY <1>14, <2>1, <2>4
  <2> QED  BY <1>6, <1>13, <2>1, <2>3, <2>5, <2>6
<1>25. PICK X3 : X3 = {lo}
  OBVIOUS
<1>26. X3 = X2 \ gone /\ gone \subseteq X2 /\ lo \notin gone
  <2>1. b # lo => b \in gone
    BY <1>3, <1>4, <1>13, <1>14, <1>23
  <2>2. up # lo => up \in gone
    BY <1>3, <1>4, <1>13, <1>14, <1>23
  <2>3. lo \notin gone
    BY <1>4, <1>13, <1>23
  <2> QED  BY <1>21, <1>23, <1>24, <1>25, <2>1, <2>2, <2>3
<1>27. PICK h \in Block : h = Header(hi - lo, f[lo].prev, FALSE, Nobody)
  <2>1. hi - lo \in Nat /\ f[lo].prev \in Nat
    BY <1>4, <1>13, <1>14, <1>16
  <2> QED  BY <2>1 DEF Header, Block, Owner
<1>28. h.size = hi - lo /\ h.prev = f[lo].prev /\ ~h.used
  BY <1>27 DEF Header
<1>29. PICK s3 : s3 = Tag(Put(Drop(s2, gone), lo, h), lo)
  OBVIOUS
<1>30. t = Insert(s3, lo)
  <2>1. s1 = IF JoinsBelow(s, b) THEN TakeOut(s, PrevOf(s, b)) ELSE s
    BY <1>7, <1>17
  <2>2. s2 = IF JoinsAbove(s, b) THEN TakeOut(s1, NextOf(s, b)) ELSE s1
    BY <1>6, <1>20
  <2> QED  BY <1>2, <1>7, <1>15, <1>23, <1>27, <1>29, <2>1, <2>2 DEF Coalesce
<1>31. Joined(s2, s3, X2, X3, lo, hi, gone, h)
  BY <1>14, <1>16, <1>21, <1>22, <1>23, <1>26, <1>28, <1>29 DEF Joined
<1>32. /\ Loose(s3, first, least, X3) /\ OnlyBlocks(s2, s3)
       /\ DOMAIN s3.blocks = DOMAIN f \ gone /\ s3.blocks[lo] = h
       /\ Kept(s2, s3, lo)
  BY <1>22, <1>31, JoinLoose
<1>33. ASSUME NEW c \in DOMAIN f \ gone, c # lo
       PROVE  s3.blocks[c].size = f[c].size /\ s3.blocks[c].used = f[c].used /\ s3.blocks[c].owner = f[c].owner
  BY <1>22, <1>32, <1>33 DEF Kept
<1>34. ASSUME NEW c
       PROVE  c \in Idle(s3.blocks, X3) => c \in Idle(f, X) /\ c \notin gone /\ c # lo /\ s3.blocks[c].size = f[c].size
  <2> HAVE c \in Idle(s3.blocks, X3)
  <2>1. c \in DOMAIN f \ gone /\ c # lo /\ ~s3.blocks[c].used
    BY <1>25, <1>32 DEF Idle
  <2>2. c # b
    BY <1>3, <1>4, <1>13, <1>14, <1>23, <2>1
  <2> QED  BY <1>33, <2>1, <2>2 DEF Idle
<1>35. hi \notin Idle(s3.blocks, X3)
  <2>1. hi \notin Idle(f, X)
    <3>1. CASE JoinsAbove(s, b)
      BY <1>3, <1>10, <1>14, <3>1 DEF Apart
    <3>2. CASE ~JoinsAbove(s, b)
      BY <1>6, <1>12, <1>14, <3>2
    <3> QED  BY <3>1, <3>2
  <2> QED  BY <1>34, <2>1
<1>36. \A c \in Idle(s3.blocks, X3) : c + s3.blocks[c].size # lo
  <2> TAKE c \in Idle(s3.blocks, X3)
  <2>1. c \in Idle(f, X) /\ s3.blocks[c].size = f[c].size
    BY <1>34
  <2>2. c + f[c].size # lo
    <3>1. CASE JoinsBelow(s, b)
      BY <1>3, <1>9, <2>1, <3>1 DEF Apart
    <3>2. CASE ~JoinsBelow(s, b)
      BY <1>11, <2>1, <3>2
    <3> QED  BY <3>1, <3>2
  <2> QED  BY <2>1, <2>2
<1>37. PICK E : E = {}
  OBVIOUS
<1>38. Listed(s3, t, least, X3, E, lo)
  <2>1. lo + s3.blocks[lo].size = hi
    BY <1>4, <1>13, <1>28, <1>32
  <2>2. s3.blocks[lo].size >= least
    <3>1. hi - lo >= f[b].size
      <4>1. hi >= n
        BY <1>4, <1>6, <1>13, <1>14
      <4> QED  BY <1>3, <1>4, <1>6, <1>13, <4>1
    <3> QED  BY <1>2, <1>3, <1>4, <1>13, <1>28, <1>32, <3>1
  <2>3. E = X3 \ {lo} /\ lo \in X3
    BY <1>25, <1>37
  <2> QED  BY <1>28, <1>30, <1>32, <1>35, <1>36, <2>1, <2>2, <2>3 DEF Listed
<1>39. /\ Loose(t, first, least, E)
       /\ t.blocks = s3.blocks /\ t.base = s3.base /\ t.end = s3.end /\ Len(t.lists) = Len(s3.lists)
  BY <1>32, <1>38, InsertLoose
<1>40. t.base = s.base /\ t.end = s.end /\ Len(t.lists) = Len(s.lists)
  BY <1>22, <1>32, <1>39 DEF OnlyBlocks
<1>41. \A c \in UsedOf(t) : c \in DOMAIN f \ gone /\ c # lo /\ c # b
  <2> TAKE c \in UsedOf(t)
  <2>1. c \in DOMAIN f \ gone /\ c # lo
    BY <1>28, <1>32, <1>39 DEF UsedOf
  <2> QED  BY <1>3, <1>4, <1>13, <1>14, <1>23, <2>1
<1>42. \A c \in Taken(f, X) : c \in DOMAIN f \ gone /\ c # lo
  <2> TAKE c \in Taken(f, X)
  <2>1. c \in DOMAIN f /\ f[c].used /\ c # b
    BY DEF Taken
  <2>2. c # lo /\ c # up
    BY <1>9, <1>10, <1>11, <1>12, <2>1 DEF Idle
  <2> QED  BY <1>23, <1>24, <2>1, <2>2
<1>43. UsedOf(t) = Taken(f, X)
  <2>1. \A c \in UsedOf(t) : c \in Taken(f, X)
    BY <1>33, <1>39, <1>41 DEF UsedOf, Taken
  <2>2. \A c \in Taken(f, X) : c \in UsedOf(t)
    BY <1>32, <1>33, <1>39, <1>42 DEF UsedOf, Taken
  <2> QED  BY <2>1, <2>2
<1> QED  BY <1>2, <1>33, <1>37, <1>39, <1>40, <1>41, <1>43 DEF Whole, Emptied

\* Free gives a block back.
LEMMA FreeWhole ==
    ASSUME NEW s, NEW first, NEW least \in Nat \ {0}, Whole(s, first, least),
           NEW b \in UsedOf(s), NEW t, t = Free(s, b)
    PROVE  Whole(t, first, least) /\ TookBack(s, t, b)
<1>1. PICK X : X = {b}
  OBVIOUS
<1>2. PICK E : E = {}
  OBVIOUS
<1>3. Loose(s, first, least, E)
  BY <1>2 DEF Whole
<1>4. PICK s0 : s0 = [s EXCEPT !.used = @ - s.blocks[b].size]
  OBVIOUS
<1>5. Reclaimed(s, s0, E, X, b)
  BY <1>1, <1>2, <1>4 DEF Reclaimed, Taken, UsedOf
<1>6. Loose(s0, first, least, X) /\ OnlyCount(s, s0)
  BY <1>3, <1>5, ReclaimLoose
<1>7. t = Coalesce(s0, b)
  BY <1>4 DEF Free, SizeAt
<1>8. s0.blocks = s.blocks /\ s.blocks[b].size >= least
  BY <1>2, <1>3, <1>6 DEF OnlyCount, Loose, UsedOf
<1>9. Whole(t, first, least) /\ Emptied(s0, t, X)
  <2>1. Coalesced(s0, t, least, X, b)
    BY <1>1, <1>7, <1>8 DEF Coalesced
  <2> QED  BY <1>6, <2>1, CoalesceLoose
<1>10. Taken(s0.blocks, X) = UsedOf(s) \ {b}
  BY <1>1, <1>8 DEF Taken, UsedOf
<1> QED  BY <1>6, <1>8, <1>9, <1>10 DEF TookBack, Emptied, OnlyCount
-----------------------------------------------------------------------------
(* Allocation *)

\* The numbers of the pool, and how they lie.
LEMMA Scale ==
    /\ MinHeapBlock \in Nat \ {0} /\ MinVmBlock \in Nat \ {0} /\ HeapHeader \in Nat \ {0} /\ VmHeader \in Nat \ {0}
    /\ MinHeapBlock = HeapHeader + 1 /\ MinVmBlock = VmHeader + 1
    /\ Total \in Nat \ {0} /\ MinBorder \in Nat \ {0} /\ MaxBorder \in Nat \ {0} /\ Step \in Nat \ {0}
    /\ MinBorder >= MinHeapBlock /\ Total - MaxBorder >= MinVmBlock /\ MinBorder <= MaxBorder /\ MaxBorder < Total
BY PoolAssumption, ScaleAssumption DEF MinHeapBlock, MinVmBlock

\* What the lists of an area hold.
LEMMA ListProps ==
    ASSUME NEW s, NEW first, NEW least, Whole(s, first, least)
    PROVE  \A i \in 1 .. Len(s.lists) :
              /\ s.lists[i] \in Seq(Nat) /\ IsInjective(s.lists[i])
              /\ \A b : b \in Range(s.lists[i]) <=> b \in FreeOf(s) /\ ListIndex(s, s.blocks[b].size) = i
<1>1. PICK E : E = {}
  OBVIOUS
<1>2. Filed(s, E)
  BY <1>1 DEF Whole, Loose
<1>3. Idle(s.blocks, E) = FreeOf(s)
  BY <1>1 DEF Idle, FreeOf
<1> TAKE i \in 1 .. Len(s.lists)
<1>4. s.lists[i] \in Seq(Nat)
  BY <1>2, ElementOfSeq DEF Filed
<1>5. IsInjective(s.lists[i]) /\ Range(s.lists[i]) = {b \in Idle(s.blocks, E) : ListIndex(s, s.blocks[b].size) = i}
  BY <1>2 DEF Filed
<1> QED  BY <1>3, <1>4, <1>5

\* The heap finds a block if one is large enough.
LEMMA HeapFitProps ==
    ASSUME NEW least, Whole(heap, 0, least), Len(heap.lists) = 1, NEW size
    PROVE  /\ HeapFit(size) = 0 => \A b \in FreeOf(heap) : ~(heap.blocks[b].size >= size)
           /\ HeapFit(size) # 0 => /\ heap.lists[1][HeapFit(size)] \in FreeOf(heap)
                                   /\ heap.blocks[heap.lists[1][HeapFit(size)]].size >= size
<1>1. PICK l \in Seq(Nat) : l = heap.lists[1] /\ \A b : b \in Range(l) <=> b \in FreeOf(heap)
  <2>1. \A b : ListIndex(heap, heap.blocks[b].size) = 1
    BY DEF ListIndex
  <2>2. 1 \in 1 .. Len(heap.lists)
    OBVIOUS
  <2> QED  BY <2>1, <2>2, ListProps
<1>2. PICK n \in Nat : n = Len(l) /\ DOMAIN l = 1 .. n
  OBVIOUS
<1> DEFINE I == {i \in 1 .. Len(l) : SizeAt(heap, l[i]) >= size}
<1>3. HeapFit(size) = IF I # {} THEN Min(I) ELSE 0
  BY <1>1 DEF HeapFit, SelectInSeq
<1>4. I \in SUBSET Nat
  BY <1>2
<1>5. I # {} => Min(I) \in I
  <2> HIDE DEF I
  <2> QED  BY <1>4, Least
<1>6. CASE I = {}
  <2>1. HeapFit(size) = 0
    BY <1>3, <1>6
  <2>2. \A b \in FreeOf(heap) : ~(heap.blocks[b].size >= size)
    BY <1>1, <1>2, <1>6 DEF Range, SizeAt
  <2> QED  BY <2>1, <2>2
<1>7. CASE I # {}
  <2>1. PICK i \in 1 .. n : i = HeapFit(size) /\ SizeAt(heap, l[i]) >= size
    BY <1>2, <1>3, <1>5, <1>7
  <2>2. l[i] \in FreeOf(heap)
    BY <1>1, <1>2, <2>1 DEF Range
  <2>3. heap.blocks[l[i]].size >= size /\ HeapFit(size) # 0
    BY <2>1 DEF SizeAt
  <2> QED  BY <1>1, <2>1, <2>2, <2>3
<1> QED  BY <1>6, <1>7

\* Taking a block out of its list changes no header.
LEMMA TakeOutBlocks ==
    ASSUME NEW s, Record(s), NEW b
    PROVE  TakeOut(s, b).blocks = s.blocks
<1>1. PICK ls : ls = [s.lists EXCEPT ![ListIndex(s, SizeAt(s, b))] = RemoveFirst(s.lists[ListIndex(s, SizeAt(s, b))], b)]
  OBVIOUS
<1>2. TakeOut(s, b) = [s EXCEPT !.lists = ls]
  BY <1>1 DEF TakeOut
<1> QED  BY <1>2 DEF Record

\* Whatever the heap gives is a free block, or its low part, and is large enough.
LEMMA HeapTakeGives ==
    ASSUME Whole(heap, 0, MinHeapBlock), Len(heap.lists) = 1,
           NEW size \in Nat, size >= MinHeapBlock, HeapFit(size) # 0, NEW owner \in Owner,
           NEW t, t = HeapTake(size, owner)[1], NEW b, b = HeapTake(size, owner)[2]
    PROVE  Whole(t, 0, MinHeapBlock) /\ Gave(heap, t, b, owner) /\ t.blocks[b].size >= size
<1>1. PICK c : c = heap.lists[1][HeapFit(size)]
  OBVIOUS
<1>2. c \in FreeOf(heap) /\ heap.blocks[c].size >= size
  BY <1>1, HeapFitProps
<1>3. Record(heap) /\ heap.blocks[c].size \in Nat
  BY <1>2 DEF Whole, Loose, Block, FreeOf
<1>4. PICK rest \in Nat : rest = heap.blocks[c].size - size
  BY <1>2, <1>3
<1>5. PICK s : s = TakeOut(heap, c) /\ s.blocks = heap.blocks
  BY <1>3, TakeOutBlocks
<1>6. PICK s1 : s1 = IF rest < MinHeapBlock
              THEN Put(s, c, Header(SizeAt(s, c), heap.blocks[c].prev, TRUE, owner))
              ELSE Insert(Tag(Put(Put(s, c, Header(size, heap.blocks[c].prev, TRUE, owner)),
                                  c + size, Header(rest, size, FALSE, Nobody)), c + size), c + size)
  OBVIOUS
<1>7. HeapTake(size, owner) = <<[s1 EXCEPT !.used = @ + SizeAt(s1, c)], c>>
  BY <1>1, <1>4, <1>5, <1>6 DEF HeapTake, SizeAt
<1>8. t = [s1 EXCEPT !.used = @ + s1.blocks[c].size] /\ b = c
  BY <1>7 DEF SizeAt
<1>9. CASE rest < MinHeapBlock
  <2>1. TookWhole(heap, s1, t, c, owner)
    BY <1>2, <1>5, <1>6, <1>8, <1>9 DEF TookWhole, SizeAt
  <2>2. Whole(t, 0, MinHeapBlock) /\ Gave(heap, t, c, owner) /\ t.blocks[c].size = heap.blocks[c].size
    BY <2>1, TakeWhole
  <2> QED  BY <1>2, <1>8, <2>2
<1>10. CASE ~(rest < MinHeapBlock)
  <2>1. TookLow(heap, s1, t, c, size, owner)
    BY <1>2, <1>4, <1>5, <1>6, <1>8, <1>10 DEF TookLow
  <2>2. MinHeapBlock <= size /\ MinHeapBlock <= heap.blocks[c].size - size /\ MinHeapBlock \in Nat \ {0}
    BY <1>3, <1>4, <1>10, Scale
  <2>3. Whole(t, 0, MinHeapBlock) /\ Gave(heap, t, c, owner) /\ t.blocks[c].size = size
    BY <2>1, <2>2, TakeLow
  <2> QED  BY <1>8, <2>3
<1> QED  BY <1>9, <1>10

\* Classes grow, and with a size the class does not fall.
LEMMA ClassProps ==
    ASSUME NEW y \in Nat
    PROVE  /\ ClassOf(y) \in 1 .. Len(Classes) + 1
           /\ ClassOf(y) <= Len(Classes) => Classes[ClassOf(y)] \in Nat /\ Classes[ClassOf(y)] >= y
           /\ \A z \in Nat : y <= z => ClassOf(y) <= ClassOf(z)
<1>1. PICK n \in Nat : n = Len(Classes) /\ DOMAIN Classes = 1 .. n
  BY PoolAssumption
<1>2. \A i \in 1 .. n : Classes[i] \in Nat
  BY <1>1, PoolAssumption
<1> DEFINE I(z) == {i \in DOMAIN Classes : Classes[i] >= z}
<1>3. \A z \in Nat : I(z) # {} => ClassOf(z) \in I(z) /\ \A i \in I(z) : ClassOf(z) <= i
  <2> TAKE z \in Nat
  <2> HAVE I(z) # {}
  <2>1. ClassOf(z) = Min(I(z))
    BY DEF ClassOf
  <2>2. PICK S : S = I(z)
    OBVIOUS
  <2>3. S \subseteq Nat /\ S # {}
    BY <1>1, <2>2
  <2>4. Min(S) \in S /\ \A i \in S : Min(S) <= i
    BY <2>3, Least
  <2> QED  BY <2>1, <2>2, <2>4
<1>4. \A z \in Nat : I(z) = {} => ClassOf(z) = n + 1
  BY <1>1 DEF ClassOf
<1>5. \A z \in Nat : I(z) # {} => ClassOf(z) \in 1 .. n /\ Classes[ClassOf(z)] >= z
  BY <1>1, <1>3
<1>6. ASSUME NEW z \in Nat, y <= z
      PROVE  ClassOf(y) <= ClassOf(z)
  <2>1. I(z) \subseteq I(y)
    BY <1>1, <1>2, <1>6
  <2>2. CASE I(z) = {}
    BY <1>4, <1>5, <2>2
  <2>3. CASE I(z) # {}
    BY <1>1, <1>3, <1>5, <2>1, <2>3
  <2> QED  BY <2>2, <2>3
<1> QED  BY <1>1, <1>2, <1>4, <1>5, <1>6

\* A request is rounded up.
LEMMA RoundedProps ==
    ASSUME NEW size \in Nat
    PROVE  Rounded(size) \in Nat /\ Rounded(size) >= size
BY ClassProps DEF Rounded

\* The VM area finds a block if one is large enough.
LEMMA VmFitsProps ==
    ASSUME NEW first, NEW least, Whole(vm, first, least), Len(vm.lists) = Len(Classes) + 1,
           NEW size \in Nat
    PROVE  /\ VmFits(size) = {} => \A b \in FreeOf(vm) : ~(vm.blocks[b].size >= size)
           /\ VmFits(size) # {} =>
                 LET b == Max({c \in Range(vm.lists[Min(VmFits(size))]) : SizeAt(vm, c) >= size})
                 IN b \in FreeOf(vm) /\ vm.blocks[b].size >= size
<1>1. PICK n \in Nat : n = Len(vm.lists) /\ n = Len(Classes) + 1
  BY PoolAssumption
<1>2. \A b \in DOMAIN vm.blocks : b \in Nat /\ vm.blocks[b].size \in Nat /\ b <= vm.end /\ vm.end \in Nat
  BY DEF Whole, Loose, Chain
<1>3. \A b \in DOMAIN vm.blocks : ListIndex(vm, vm.blocks[b].size) = ClassOf(vm.blocks[b].size)
  BY <1>1, <1>2, ClassProps DEF ListIndex
<1>4. \A i \in 1 .. n : /\ vm.lists[i] \in Seq(Nat)
                        /\ \A b : b \in Range(vm.lists[i]) <=> b \in FreeOf(vm) /\ ClassOf(vm.blocks[b].size) = i
  BY <1>1, <1>3, ListProps DEF FreeOf
<1>5. ClassOf(size) \in 1 .. n
  BY <1>1, ClassProps
<1>6. ASSUME VmFits(size) = {}, NEW b \in FreeOf(vm), vm.blocks[b].size >= size
      PROVE  FALSE
  <2>1. PICK k : k = ClassOf(vm.blocks[b].size) /\ k \in 1 .. n /\ k >= ClassOf(size)
    BY <1>1, <1>2, <1>6, ClassProps DEF FreeOf
  <2>2. b \in Range(vm.lists[k])
    BY <1>4, <1>6, <2>1
  <2>3. PICK j \in DOMAIN vm.lists[k] : vm.lists[k][j] = b
    BY <2>2 DEF Range
  <2>4. k \in VmFits(size)
    BY <1>1, <1>5, <1>6, <2>1, <2>3 DEF VmFits, SizeAt
  <2> QED  BY <1>6, <2>4
<1>7. ASSUME VmFits(size) # {}, NEW b, b = Max({c \in Range(vm.lists[Min(VmFits(size))]) : SizeAt(vm, c) >= size})
      PROVE  b \in FreeOf(vm) /\ vm.blocks[b].size >= size
  <2>1. PICK V : V = VmFits(size)
    OBVIOUS
  <2>2. V \subseteq Nat /\ V # {} /\ \A i \in V : i \in 1 .. n
    BY <1>1, <1>5, <1>7, <2>1 DEF VmFits
  <2>3. PICK i \in 1 .. n : i = Min(V) /\ i \in V
    BY <2>2, Least
  <2>4. PICK j \in DOMAIN vm.lists[i] : SizeAt(vm, vm.lists[i][j]) >= size
    BY <2>1, <2>3 DEF VmFits
  <2>5. PICK S : S = {c \in Range(vm.lists[i]) : SizeAt(vm, c) >= size}
    OBVIOUS
  <2>6. S # {}
    BY <2>4, <2>5 DEF Range
  <2>7. S \in SUBSET Nat /\ \A c \in S : c <= vm.end
    BY <1>2, <1>4, <2>5 DEF FreeOf
  <2>8. vm.end \in Nat
    BY <1>2, <1>4, <2>5, <2>6 DEF FreeOf
  <2>9. Max(S) \in S
    BY <2>6, <2>7, <2>8, Greatest
  <2>10. b = Max(S)
    BY <1>7, <2>1, <2>3, <2>5
  <2> QED  BY <1>4, <2>5, <2>9, <2>10 DEF SizeAt
<1> QED  BY <1>6, <1>7

\* Whatever the VM area gives is a free block, or its high part, and is large enough.
LEMMA VmTakeGives ==
    ASSUME NEW first, Whole(vm, first, MinVmBlock), Len(vm.lists) = Len(Classes) + 1,
           NEW size \in Nat, size >= MinVmBlock, VmFits(size) # {}, NEW owner \in Owner,
           NEW t, t = VmTake(size, owner)[1], NEW m, m = VmTake(size, owner)[2]
    PROVE  Whole(t, first, MinVmBlock) /\ Gave(vm, t, m, owner) /\ t.blocks[m].size >= size
<1>1. PICK b : b = Max({c \in Range(vm.lists[Min(VmFits(size))]) : SizeAt(vm, c) >= size})
  OBVIOUS
<1>2. b \in FreeOf(vm) /\ vm.blocks[b].size >= size
  BY <1>1, VmFitsProps
<1>3. Record(vm) /\ vm.blocks[b].size \in Nat /\ b \in DOMAIN vm.blocks
  BY <1>2 DEF Whole, Loose, Block, FreeOf
<1>4. PICK rest \in Nat : rest = vm.blocks[b].size - size
  BY <1>2, <1>3
<1>5. PICK s : s = TakeOut(vm, b) /\ s.blocks = vm.blocks
  BY <1>3, TakeOutBlocks
<1>6. CASE rest < MinVmBlock
  <2>1. PICK s1 : s1 = Put(s, b, Header(SizeAt(s, b), vm.blocks[b].prev, TRUE, owner))
    OBVIOUS
  <2>2. VmTake(size, owner) = <<[s1 EXCEPT !.used = @ + SizeAt(s, b)], b>>
    BY <1>1, <1>4, <1>5, <1>6, <2>1 DEF VmTake, SizeAt
  <2>3. s1.blocks[b].size = SizeAt(s, b)
    <3>1. PICK h : h = Header(SizeAt(s, b), vm.blocks[b].prev, TRUE, owner)
      OBVIOUS
    <3>2. h = Header(SizeAt(s, b), vm.blocks[b].prev, TRUE, owner) /\ h.size = SizeAt(s, b)
      BY <3>1 DEF Header
    <3>3. Record(s)
      <4>1. PICK ls : ls = [vm.lists EXCEPT ![ListIndex(vm, SizeAt(vm, b))]
                              = RemoveFirst(vm.lists[ListIndex(vm, SizeAt(vm, b))], b)]
        OBVIOUS
      <4>2. s = [vm EXCEPT !.lists = ls]
        BY <1>5, <4>1 DEF TakeOut
      <4> QED  BY <1>3, <4>2 DEF Record
    <3>4. s1 = Put(s, b, h)
      BY <2>1, <3>2
    <3>5. s1.blocks[b] = h
      BY <3>3, <3>4, PutProps
    <3> QED  BY <3>2, <3>5
  <2>4. t = [s1 EXCEPT !.used = @ + s1.blocks[b].size] /\ m = b
    BY <2>2, <2>3
  <2>5. TookWhole(vm, s1, t, b, owner)
    BY <1>2, <1>5, <2>1, <2>4 DEF TookWhole, SizeAt
  <2>6. Whole(t, first, MinVmBlock) /\ Gave(vm, t, b, owner) /\ t.blocks[b].size = vm.blocks[b].size
    BY <2>5, TakeWhole
  <2> QED  BY <1>2, <2>4, <2>6
<1>7. CASE ~(rest < MinVmBlock)
  <2>1. PICK s1 : s1 = Insert(Tag(Put(Put(s, b, Header(rest, vm.blocks[b].prev, FALSE, Nobody)),
                                     b + rest, Header(size, rest, TRUE, owner)), b + rest), b)
    OBVIOUS
  <2>2. VmTake(size, owner) = <<[s1 EXCEPT !.used = @ + size], b + rest>>
    BY <1>1, <1>4, <1>5, <1>7, <2>1 DEF VmTake, SizeAt
  <2>3. t = [s1 EXCEPT !.used = @ + size] /\ m = b + (vm.blocks[b].size - size)
    BY <1>4, <2>2
  <2>4. TookHigh(vm, t, b, m, size, owner)
    BY <1>2, <1>4, <1>5, <2>1, <2>3 DEF TookHigh
  <2>5. MinVmBlock <= size /\ MinVmBlock <= vm.blocks[b].size - size /\ MinVmBlock \in Nat \ {0}
    BY <1>3, <1>4, <1>7, Scale
  <2>6. Whole(t, first, MinVmBlock) /\ Gave(vm, t, m, owner) /\ t.blocks[m].size = size
    BY <2>4, <2>5, TakeHigh
  <2> QED  BY <2>6
<1> QED  BY <1>6, <1>7

-----------------------------------------------------------------------------
(* Who holds the blocks *)

\* The holders of an area's blocks: each holds the block that bears its name.
Owned(at, s, D) ==
    /\ at \in [D -> Nat \cup {Nowhere}]
    /\ \A b \in UsedOf(s) : b \in Nat /\ \E o \in D : at[o] = b
    /\ \A o \in D : at[o] # Nowhere => at[o] \in UsedOf(s) /\ s.blocks[at[o]].owner = o

\* Nowhere is no address.
LEMMA NowhereProps == Nowhere \notin Nat
BY DEF Nowhere

\* A block is given to a holder that held none: the holders are as they should be.
LEMMA OwnedGave ==
    ASSUME NEW at, NEW s, NEW D, Owned(at, s, D), NEW o \in D, at[o] = Nowhere,
           NEW t, NEW b \in Nat, Gave(s, t, b, o), NEW to, to = [at EXCEPT ![o] = b]
    PROVE  Owned(to, t, D)
<1>1. at \in [D -> Nat \cup {Nowhere}]
  BY DEF Owned
<1>2. to \in [D -> Nat \cup {Nowhere}] /\ to[o] = b /\ \A p \in D : p # o => to[p] = at[p]
  BY <1>1
<1>3. ASSUME NEW c \in UsedOf(t)
      PROVE  c \in Nat /\ \E p \in D : to[p] = c
  <2>1. CASE c = b
    BY <1>2, <2>1
  <2>2. CASE c # b
    <3>1. c \in UsedOf(s)
      BY <2>2 DEF Gave
    <3>2. PICK p \in D : at[p] = c /\ c \in Nat
      BY <3>1 DEF Owned
    <3>3. p # o
      BY <3>2, NowhereProps
    <3> QED  BY <1>2, <3>2, <3>3
  <2> QED  BY <2>1, <2>2
<1>4. ASSUME NEW p \in D, to[p] # Nowhere
      PROVE  to[p] \in UsedOf(t) /\ t.blocks[to[p]].owner = p
  <2>1. CASE p = o
    BY <1>2, <2>1 DEF Gave
  <2>2. CASE p # o
    BY <1>2, <1>4, <2>2 DEF Gave, Owned
  <2> QED  BY <2>1, <2>2
<1> QED  BY <1>2, <1>3, <1>4 DEF Owned

\* A holder gives its block back: they still are.
LEMMA OwnedTook ==
    ASSUME NEW at, NEW s, NEW D, Owned(at, s, D), NEW o \in D, at[o] # Nowhere,
           NEW t, TookBack(s, t, at[o]), NEW to, to = [at EXCEPT ![o] = Nowhere]
    PROVE  Owned(to, t, D)
<1>1. at \in [D -> Nat \cup {Nowhere}]
  BY DEF Owned
<1>2. to \in [D -> Nat \cup {Nowhere}] /\ to[o] = Nowhere /\ \A p \in D : p # o => to[p] = at[p]
  BY <1>1
<1>3. ASSUME NEW c \in UsedOf(t)
      PROVE  c \in Nat /\ \E p \in D : to[p] = c
  <2>1. c \in UsedOf(s) /\ c # at[o]
    BY DEF TookBack
  <2>2. PICK p \in D : at[p] = c /\ c \in Nat
    BY <2>1 DEF Owned
  <2> QED  BY <1>2, <2>1, <2>2
<1>4. ASSUME NEW p \in D, to[p] # Nowhere
      PROVE  to[p] \in UsedOf(t) /\ t.blocks[to[p]].owner = p
  <2>1. p # o /\ to[p] = at[p]
    BY <1>2, <1>4
  <2>2. at[p] \in UsedOf(s) /\ s.blocks[at[p]].owner = p /\ s.blocks[at[o]].owner = o
    BY <1>4, <2>1 DEF Owned
  <2>3. at[p] # at[o]
    BY <2>1, <2>2
  <2> QED  BY <2>1, <2>2, <2>3 DEF TookBack
<1> QED  BY <1>2, <1>3, <1>4 DEF Owned

\* A holder is given another block and gives the old one back: they still are.
LEMMA OwnedMoved ==
    ASSUME NEW at, NEW s, NEW D, Owned(at, s, D), NEW o \in D, at[o] # Nowhere,
           NEW t, NEW b \in Nat, Gave(s, t, b, o), NEW u, TookBack(t, u, at[o]),
           NEW to, to = [at EXCEPT ![o] = b]
    PROVE  Owned(to, u, D)
<1>1. at \in [D -> Nat \cup {Nowhere}]
  BY DEF Owned
<1>2. to \in [D -> Nat \cup {Nowhere}] /\ to[o] = b /\ \A p \in D : p # o => to[p] = at[p]
  BY <1>1
<1>3. at[o] \in UsedOf(s) /\ at[o] # b /\ b \in UsedOf(u) /\ u.blocks[b].owner = o
  <2>1. at[o] \in UsedOf(s) /\ at[o] # b
    BY DEF Owned, Gave
  <2>2. b \in UsedOf(t) /\ t.blocks[b].owner = o
    BY DEF Gave
  <2> QED  BY <2>1, <2>2 DEF TookBack
<1>4. ASSUME NEW c \in UsedOf(u)
      PROVE  c \in Nat /\ \E p \in D : to[p] = c
  <2>1. c \in UsedOf(t) /\ c # at[o]
    BY DEF TookBack
  <2>2. CASE c = b
    BY <1>2, <2>2
  <2>3. CASE c # b
    <3>1. c \in UsedOf(s)
      BY <2>1, <2>3 DEF Gave
    <3>2. PICK p \in D : at[p] = c /\ c \in Nat
      BY <3>1 DEF Owned
    <3> QED  BY <1>2, <2>1, <3>2
  <2> QED  BY <2>2, <2>3
<1>5. ASSUME NEW p \in D, to[p] # Nowhere
      PROVE  to[p] \in UsedOf(u) /\ u.blocks[to[p]].owner = p
  <2>1. CASE p = o
    BY <1>2, <1>3, <2>1
  <2>2. CASE p # o
    <3>1. to[p] = at[p] /\ at[p] # Nowhere
      BY <1>2, <1>5, <2>2
    <3>2. at[p] \in UsedOf(s) /\ s.blocks[at[p]].owner = p /\ s.blocks[at[o]].owner = o
      BY <3>1 DEF Owned
    <3>3. at[p] # at[o]
      BY <2>2, <3>2
    <3>4. at[p] \in UsedOf(t) /\ t.blocks[at[p]].owner = p
      BY <3>2 DEF Gave
    <3> QED  BY <3>1, <3>3, <3>4 DEF TookBack
  <2> QED  BY <2>1, <2>2
<1> QED  BY <1>2, <1>4, <1>5 DEF Owned

-----------------------------------------------------------------------------
(* The inductive invariant, and the steps that leave the border where it is *)

\* The heap is whole up to top; the VM area from first on, which lies less than a block above its bottom.
HeapInv(h, top) ==
    Whole(h, 0, MinHeapBlock) /\ h.base = 0 /\ h.end = top /\ Len(h.lists) = 1

VmInv(v, bottom, first) ==
    /\ Whole(v, first, MinVmBlock) /\ v.base = bottom /\ v.end = Total /\ Len(v.lists) = Len(Classes) + 1
    /\ bottom <= first /\ first < bottom + MinVmBlock

\* No free block of s would have done for what was refused.
Refusal(s) == \A b \in FreeOf(s) : ~(s.blocks[b].size >= refused.size)

\* The inductive invariant: both areas are whole, their blocks have the holders they bear the
\* names of, the border lies where both have room, and what was refused could not be had.
IInv ==
    /\ border \in Nat /\ MinBorder <= border /\ border + MinVmBlock <= Total
    /\ HeapInv(heap, border)
    /\ \E first : VmInv(vm, border, first)
    /\ Owned(slot, heap, Objects) /\ Owned(place, vm, Tables)
    /\ refused # NoRefusal => refused.size \in Nat /\ Refusal(IF refused.area = "heap" THEN heap ELSE vm)

\* A refused allocation changes nothing else.
LEMMA RefuseStep ==
    ASSUME IInv, NEW area \in {"heap", "vm"}, NEW size \in Nat, Refuse(area, size),
           \A b \in FreeOf(IF area = "heap" THEN heap ELSE vm) :
              ~((IF area = "heap" THEN heap ELSE vm).blocks[b].size >= size)
    PROVE  IInv'
<1>1. PICK r : r = refused'
  OBVIOUS
<1>2. /\ r.area = area /\ r.size = size
      /\ border' = border /\ heap' = heap /\ vm' = vm /\ slot' = slot /\ place' = place
  BY <1>1 DEF Refuse
<1>3. (refused.size \in Nat /\ Refusal(IF refused.area = "heap" THEN heap ELSE vm))'
  <2>1. CASE area = "heap"
    BY <1>1, <1>2, <2>1 DEF Refusal, FreeOf
  <2>2. CASE area = "vm"
    BY <1>1, <1>2, <2>2 DEF Refusal, FreeOf
  <2> QED  BY <2>1, <2>2
<1>4. /\ (border \in Nat /\ MinBorder <= border /\ border + MinVmBlock <= Total)'
      /\ HeapInv(heap, border)' /\ (\E first : VmInv(vm, border, first))'
      /\ Owned(slot, heap, Objects)' /\ Owned(place, vm, Tables)'
  BY <1>2 DEF IInv
<1> QED  BY <1>3, <1>4 DEF IInv

\* What is asked for is never less than the smallest block.
LEMMA Sizes ==
    /\ \A size \in ObjectSizes : HeapHeader + size \in Nat /\ HeapHeader + size >= MinHeapBlock
    /\ \A size \in TableSizes : /\ Rounded(VmHeader + size) \in Nat /\ Rounded(VmHeader + size) >= MinVmBlock
<1>1. \A size \in ObjectSizes \cup TableSizes : size \in Nat /\ size >= 1
  BY PoolAssumption
<1>2. ASSUME NEW size \in TableSizes
      PROVE  Rounded(VmHeader + size) \in Nat /\ Rounded(VmHeader + size) >= MinVmBlock
  <2>1. PICK n \in Nat : n = VmHeader + size /\ n >= MinVmBlock
    BY <1>1, Scale
  <2>2. Rounded(n) \in Nat /\ Rounded(n) >= n
    BY <2>1, RoundedProps
  <2> QED  BY <2>1, <2>2, Scale
<1> QED  BY <1>1, <1>2, Scale

\* The heap changes from heap to h, the slots change with it, nothing else does.
LEMMA HeapOnly ==
    ASSUME IInv, NEW h, heap' = h, HeapInv(h, border), Owned(slot, heap, Objects)',
           refused' = NoRefusal, UNCHANGED <<border, vm, place>>
    PROVE  IInv'
<1>1. border' = border /\ vm' = vm /\ place' = place /\ heap' = h
  OBVIOUS
<1>2. HeapInv(heap, border)'
  BY <1>1
<1>3. /\ (border \in Nat /\ MinBorder <= border /\ border + MinVmBlock <= Total)'
      /\ (\E first : VmInv(vm, border, first))' /\ Owned(place, vm, Tables)'
  BY <1>1 DEF IInv
<1> QED  BY <1>2, <1>3 DEF IInv

\* The VM area changes, the places change with it, nothing else does.
LEMMA VmOnly ==
    ASSUME IInv, NEW v, vm' = v, \E first : VmInv(v, border, first), Owned(place, vm, Tables)',
           refused' = NoRefusal, UNCHANGED <<border, heap, slot>>
    PROVE  IInv'
<1>1. border' = border /\ heap' = heap /\ slot' = slot /\ vm' = v
  OBVIOUS
<1>2. (\E first : VmInv(vm, border, first))'
  BY <1>1
<1>3. /\ (border \in Nat /\ MinBorder <= border /\ border + MinVmBlock <= Total)'
      /\ HeapInv(heap, border)' /\ Owned(slot, heap, Objects)'
  BY <1>1 DEF IInv
<1> QED  BY <1>2, <1>3 DEF IInv

\* An object is made.
LEMMA NewStep ==
    ASSUME IInv, NEW o \in Objects, NEW size \in ObjectSizes, New(o, size)
    PROVE  IInv'
<1>1. PICK n \in Nat : n = HeapHeader + size /\ n >= MinHeapBlock
  BY Sizes
<1>2. Whole(heap, 0, MinHeapBlock) /\ Len(heap.lists) = 1 /\ heap.base = 0 /\ heap.end = border /\ Owned(slot, heap, Objects)
  BY DEF IInv, HeapInv
<1>3. CASE HeapFit(n) = 0
  <2>1. Refuse("heap", n)
    BY <1>1, <1>3 DEF New
  <2>2. \A b \in FreeOf(heap) : ~(heap.blocks[b].size >= n)
    BY <1>2, <1>3, HeapFitProps
  <2> QED  BY <2>1, <2>2, RefuseStep
<1>4. CASE HeapFit(n) # 0
  <2>1. PICK t : t = HeapTake(n, o)[1]
    OBVIOUS
  <2>2. PICK b : b = HeapTake(n, o)[2]
    OBVIOUS
  <2>3. /\ slot[o] = Nowhere /\ heap' = t /\ slot' = [slot EXCEPT ![o] = b]
        /\ refused' = NoRefusal /\ UNCHANGED <<border, vm, place>>
    BY <1>1, <1>4, <2>1, <2>2 DEF New
  <2>4. Whole(t, 0, MinHeapBlock) /\ Gave(heap, t, b, o)
    BY <1>1, <1>2, <1>4, <2>1, <2>2, HeapTakeGives DEF Owner
  <2>5. HeapInv(t, border)
    BY <1>2, <2>4 DEF HeapInv, Gave
  <2>6. b \in Nat
    BY <2>4 DEF Gave, Whole, Loose, Chain, UsedOf
  <2>7. PICK to : to = [slot EXCEPT ![o] = b]
    OBVIOUS
  <2>8. Owned(to, t, Objects)
    BY <1>2, <2>3, <2>4, <2>6, <2>7, OwnedGave
  <2> QED  BY <2>3, <2>5, <2>7, <2>8, HeapOnly
<1> QED  BY <1>3, <1>4

\* An object grows: there are two blocks for a moment, and then again one.
LEMMA GrowStep ==
    ASSUME IInv, NEW o \in Objects, NEW size \in ObjectSizes, Grow(o, size)
    PROVE  IInv'
<1>1. PICK n \in Nat : n = HeapHeader + size /\ n >= MinHeapBlock
  BY Sizes
<1>2. Whole(heap, 0, MinHeapBlock) /\ Len(heap.lists) = 1 /\ heap.base = 0 /\ heap.end = border /\ Owned(slot, heap, Objects)
  BY DEF IInv, HeapInv
<1>3. CASE HeapFit(n) = 0
  <2>1. Refuse("heap", n)
    BY <1>1, <1>3 DEF Grow
  <2>2. \A b \in FreeOf(heap) : ~(heap.blocks[b].size >= n)
    BY <1>2, <1>3, HeapFitProps
  <2> QED  BY <2>1, <2>2, RefuseStep
<1>4. CASE HeapFit(n) # 0
  <2>1. PICK t : t = HeapTake(n, o)[1]
    OBVIOUS
  <2>2. PICK b : b = HeapTake(n, o)[2]
    OBVIOUS
  <2>3. PICK u : u = Free(t, slot[o])
    OBVIOUS
  <2>4. /\ slot[o] # Nowhere /\ heap' = u /\ slot' = [slot EXCEPT ![o] = b]
        /\ refused' = NoRefusal /\ UNCHANGED <<border, vm, place>>
    BY <1>1, <1>4, <2>1, <2>2, <2>3 DEF Grow
  <2>5. Whole(t, 0, MinHeapBlock) /\ Gave(heap, t, b, o)
    BY <1>1, <1>2, <1>4, <2>1, <2>2, HeapTakeGives DEF Owner
  <2>6. slot[o] \in UsedOf(t)
    BY <1>2, <2>4, <2>5 DEF Owned, Gave
  <2>7. Whole(u, 0, MinHeapBlock) /\ TookBack(t, u, slot[o])
    BY <2>3, <2>5, <2>6, Scale, FreeWhole
  <2>8. HeapInv(u, border)
    BY <1>2, <2>5, <2>7 DEF HeapInv, Gave, TookBack
  <2>9. b \in Nat
    BY <2>5 DEF Gave, Whole, Loose, Chain, UsedOf
  <2>10. PICK to : to = [slot EXCEPT ![o] = b]
    OBVIOUS
  <2>11. Owned(to, u, Objects)
    BY <1>2, <2>4, <2>5, <2>7, <2>9, <2>10, OwnedMoved
  <2> QED  BY <2>4, <2>8, <2>10, <2>11, HeapOnly
<1> QED  BY <1>3, <1>4

\* An object is freed.
LEMMA ReleaseStep ==
    ASSUME IInv, NEW o \in Objects, Release(o)
    PROVE  IInv'
<1>1. Whole(heap, 0, MinHeapBlock) /\ Len(heap.lists) = 1 /\ heap.base = 0 /\ heap.end = border /\ Owned(slot, heap, Objects)
  BY DEF IInv, HeapInv
<1>2. PICK u : u = Free(heap, slot[o])
  OBVIOUS
<1>3. PICK to : to = [slot EXCEPT ![o] = Nowhere]
  OBVIOUS
<1>4. /\ slot[o] # Nowhere /\ heap' = u /\ slot' = to
      /\ refused' = NoRefusal /\ UNCHANGED <<border, vm, place>>
  BY <1>2, <1>3 DEF Release
<1>5. slot[o] \in UsedOf(heap)
  BY <1>1, <1>4 DEF Owned
<1>6. Whole(u, 0, MinHeapBlock) /\ TookBack(heap, u, slot[o])
  BY <1>1, <1>2, <1>5, Scale, FreeWhole
<1>7. HeapInv(u, border)
  BY <1>1, <1>6 DEF HeapInv, TookBack
<1>8. Owned(to, u, Objects)
  BY <1>1, <1>3, <1>4, <1>6, OwnedTook
<1> QED  BY <1>4, <1>7, <1>8, HeapOnly

\* A user of the VM area gets a block.
LEMMA NewTableStep ==
    ASSUME IInv, NEW w \in Tables, NEW size \in TableSizes, NewTable(w, size)
    PROVE  IInv'
<1>1. PICK n \in Nat : n = Rounded(VmHeader + size) /\ n >= MinVmBlock
  BY Sizes
<1>2. PICK first : VmInv(vm, border, first)
  BY DEF IInv
<1>3. Whole(vm, first, MinVmBlock) /\ Len(vm.lists) = Len(Classes) + 1 /\ Owned(place, vm, Tables)
  BY <1>2 DEF IInv, VmInv
<1>4. CASE VmFits(n) = {}
  <2>1. Refuse("vm", n)
    BY <1>1, <1>4 DEF NewTable
  <2>2. \A b \in FreeOf(vm) : ~(vm.blocks[b].size >= n)
    BY <1>3, <1>4, VmFitsProps
  <2>3. "vm" # "heap"
    OBVIOUS
  <2> QED  BY <2>1, <2>2, <2>3, RefuseStep
<1>5. CASE VmFits(n) # {}
  <2>1. PICK t : t = VmTake(n, w)[1]
    OBVIOUS
  <2>2. PICK b : b = VmTake(n, w)[2]
    OBVIOUS
  <2>3. PICK to : to = [place EXCEPT ![w] = b]
    OBVIOUS
  <2>4. /\ place[w] = Nowhere /\ vm' = t /\ place' = to
        /\ refused' = NoRefusal /\ UNCHANGED <<border, heap, slot>>
    BY <1>1, <1>5, <2>1, <2>2, <2>3 DEF NewTable
  <2>5. Whole(t, first, MinVmBlock) /\ Gave(vm, t, b, w)
    BY <1>1, <1>3, <1>5, <2>1, <2>2, VmTakeGives DEF Owner
  <2>6. VmInv(t, border, first)
    BY <1>2, <2>5 DEF VmInv, Gave
  <2>7. b \in Nat
    BY <2>5 DEF Gave, Whole, Loose, Chain, UsedOf
  <2>8. Owned(to, t, Tables)
    BY <1>3, <2>3, <2>4, <2>5, <2>7, OwnedGave
  <2> QED  BY <2>4, <2>6, <2>8, VmOnly
<1> QED  BY <1>4, <1>5

\* A user of the VM area gets a larger one.
LEMMA GrowTableStep ==
    ASSUME IInv, NEW w \in Tables, NEW size \in TableSizes, GrowTable(w, size)
    PROVE  IInv'
<1>1. PICK n \in Nat : n = Rounded(VmHeader + size) /\ n >= MinVmBlock
  BY Sizes
<1>2. PICK first : VmInv(vm, border, first)
  BY DEF IInv
<1>3. Whole(vm, first, MinVmBlock) /\ Len(vm.lists) = Len(Classes) + 1 /\ Owned(place, vm, Tables)
  BY <1>2 DEF IInv, VmInv
<1>4. CASE VmFits(n) = {}
  <2>1. Refuse("vm", n)
    BY <1>1, <1>4 DEF GrowTable
  <2>2. \A b \in FreeOf(vm) : ~(vm.blocks[b].size >= n)
    BY <1>3, <1>4, VmFitsProps
  <2>3. "vm" # "heap"
    OBVIOUS
  <2> QED  BY <2>1, <2>2, <2>3, RefuseStep
<1>5. CASE VmFits(n) # {}
  <2>1. PICK t : t = VmTake(n, w)[1]
    OBVIOUS
  <2>2. PICK b : b = VmTake(n, w)[2]
    OBVIOUS
  <2>3. PICK to : to = [place EXCEPT ![w] = b]
    OBVIOUS
  <2>4. PICK u : u = Free(t, place[w])
    OBVIOUS
  <2>5. /\ place[w] # Nowhere /\ vm' = u /\ place' = to
        /\ refused' = NoRefusal /\ UNCHANGED <<border, heap, slot>>
    BY <1>1, <1>5, <2>1, <2>2, <2>3, <2>4 DEF GrowTable
  <2>6. Whole(t, first, MinVmBlock) /\ Gave(vm, t, b, w)
    BY <1>1, <1>3, <1>5, <2>1, <2>2, VmTakeGives DEF Owner
  <2>7. place[w] \in UsedOf(t)
    BY <1>3, <2>5, <2>6 DEF Owned, Gave
  <2>8. Whole(u, first, MinVmBlock) /\ TookBack(t, u, place[w])
    BY <2>4, <2>6, <2>7, Scale, FreeWhole
  <2>9. VmInv(u, border, first)
    BY <1>2, <2>6, <2>8 DEF VmInv, Gave, TookBack
  <2>10. b \in Nat
    BY <2>6 DEF Gave, Whole, Loose, Chain, UsedOf
  <2>11. Owned(to, u, Tables)
    BY <1>3, <2>3, <2>5, <2>6, <2>8, <2>10, OwnedMoved
  <2> QED  BY <2>5, <2>9, <2>11, VmOnly
<1> QED  BY <1>4, <1>5

\* A user of the VM area gives its block back.
LEMMA FreeTableStep ==
    ASSUME IInv, NEW w \in Tables, FreeTable(w)
    PROVE  IInv'
<1>1. PICK first : VmInv(vm, border, first)
  BY DEF IInv
<1>2. Whole(vm, first, MinVmBlock) /\ Owned(place, vm, Tables)
  BY <1>1 DEF IInv, VmInv
<1>3. PICK u : u = Free(vm, place[w])
  OBVIOUS
<1>4. PICK to : to = [place EXCEPT ![w] = Nowhere]
  OBVIOUS
<1>5. /\ place[w] # Nowhere /\ vm' = u /\ place' = to
      /\ refused' = NoRefusal /\ UNCHANGED <<border, heap, slot>>
  BY <1>3, <1>4 DEF FreeTable
<1>6. place[w] \in UsedOf(vm)
  BY <1>2, <1>5 DEF Owned
<1>7. Whole(u, first, MinVmBlock) /\ TookBack(vm, u, place[w])
  BY <1>2, <1>3, <1>6, Scale, FreeWhole
<1>8. VmInv(u, border, first)
  BY <1>1, <1>7 DEF VmInv, TookBack
<1>9. Owned(to, u, Tables)
  BY <1>2, <1>4, <1>5, <1>7, OwnedTook
<1> QED  BY <1>5, <1>8, <1>9, VmOnly
-----------------------------------------------------------------------------
(* Areas made anew *)

\* The blocks of an area take all of it.
LEMMA SumAll ==
    ASSUME NEW s, NEW first, Chain(s.blocks, first, s.end)
    PROVE  SumSizes(s, DOMAIN s.blocks) = s.end - first
<1>1. PICK f : f = s.blocks
  OBVIOUS
<1>2. PICK e : e = s.end
  OBVIOUS
<1>3. first \in Nat /\ e \in Nat /\ Chain(f, first, e)
  BY <1>1, <1>2 DEF Chain
<1>4. \A b \in DOMAIN f : /\ b \in Nat /\ f[b].size \in Nat \ {0} /\ first <= b /\ b + f[b].size <= e
                          /\ NextOf(s, b) = b + f[b].size
  BY <1>1, <1>3 DEF Chain, NextOf, SizeAt
<1>5. first < e
  BY <1>3, <1>4 DEF Chain
<1>6. PICK V : V = Units(s, DOMAIN s.blocks)
  OBVIOUS
<1>7. ASSUME NEW u \in first .. e - 1
      PROVE  u \in V
  <2>1. PICK S : S = {b \in DOMAIN f : b <= u}
    OBVIOUS
  <2>2. S \subseteq Nat /\ S # {} /\ \A b \in S : b <= u
    BY <1>3, <1>4, <2>1 DEF Chain
  <2>3. u \in Nat
    BY <1>3
  <2>4. Max(S) \in S /\ \A c \in S : c <= Max(S)
    BY <2>2, <2>3, Greatest
  <2>5. PICK b \in S : \A c \in S : c <= b
    BY <2>4
  <2>6. b \in DOMAIN f /\ b <= u
    BY <2>1
  <2>7. b + f[b].size \in DOMAIN f \cup {e}
    BY <1>3, <2>6 DEF Chain
  <2>8. u < b + f[b].size
    <3>1. CASE b + f[b].size = e
      BY <1>3, <3>1
    <3>2. CASE b + f[b].size \in DOMAIN f
      <4>1. b + f[b].size <= u => b + f[b].size <= b
        BY <2>1, <2>5, <3>2
      <4> QED  BY <1>3, <1>4, <2>6, <4>1
    <3> QED  BY <2>7, <3>1, <3>2
  <2>9. u \in b .. NextOf(s, b) - 1
    BY <1>3, <1>4, <2>6, <2>8
  <2> QED  BY <1>1, <1>6, <2>6, <2>9 DEF Units
<1>8. ASSUME NEW u \in V
      PROVE  u \in first .. e - 1
  <2>1. PICK b \in DOMAIN f : u \in b .. NextOf(s, b) - 1
    BY <1>1, <1>6 DEF Units
  <2>2. u \in Int /\ b <= u /\ u < b + f[b].size
    BY <1>4, <2>1
  <2> QED  BY <1>3, <1>4, <2>1, <2>2
<1>9. V = first .. e - 1
  BY <1>7, <1>8
<1>10. Cardinality(V) = e - first
  <2>1. PICK l \in Nat : l = e - 1 /\ first <= l
    BY <1>3, <1>5
  <2>2. Cardinality(first .. l) = l - first + 1
    BY <1>3, <2>1, FS_Interval
  <2> QED  BY <1>3, <1>9, <2>1, <2>2
<1> QED  BY <1>2, <1>6, <1>10 DEF SumSizes

\* An area of one free block is whole.
NewArea(t, base, end, least, lists) ==
    /\ t = Area(base, end, lists) /\ base \in Nat /\ end \in Nat /\ base + least <= end
    /\ lists \in Seq(Seq(Nat)) /\ Len(lists) \in {1, Len(Classes) + 1}
    /\ \A i \in 1 .. Len(lists) : lists[i] = <<>>

\* It is whole with the one block, which is free.
LEMMA AreaWhole ==
    ASSUME NEW least \in Nat \ {0}, NEW t, NEW base, NEW end, NEW lists, NewArea(t, base, end, least, lists)
    PROVE  /\ Whole(t, base, least) /\ t.base = base /\ t.end = end /\ Len(t.lists) = Len(lists)
           /\ UsedOf(t) = {} /\ t.used = 0 /\ \A c \in DOMAIN t.blocks : c = base
<1>1. /\ t = Area(base, end, lists) /\ base \in Nat /\ end \in Nat /\ base + least <= end
      /\ lists \in Seq(Seq(Nat)) /\ Len(lists) \in {1, Len(Classes) + 1}
      /\ \A i \in 1 .. Len(lists) : lists[i] = <<>>
  BY DEF NewArea
<1> USE <1>1
<1>2. end - base \in Nat
  OBVIOUS
<1>3. PICK h \in Block : h = Header(end - base, 0, FALSE, Nobody)
  BY <1>2 DEF Header, Block, Owner
<1>4. h.size = end - base /\ h.prev = 0 /\ ~h.used
  BY <1>3 DEF Header
<1>5. PICK f : f = [b \in {base} |-> h]
  OBVIOUS
<1>6. PICK s : s = [base |-> base, end |-> end, used |-> 0, lists |-> lists, blocks |-> f]
  OBVIOUS
<1>7. t = Insert(s, base)
  BY <1>3, <1>5, <1>6 DEF Area
<1>8. s.blocks = f /\ s.end = end /\ s.base = base /\ s.used = 0 /\ s.lists = lists /\ Record(s)
  BY <1>6 DEF Record
<1>9. DOMAIN f = {base} /\ f[base] = h
  BY <1>5
<1>10. Chain(f, base, end)
  BY <1>4, <1>9 DEF Chain
<1>11. PICK X : X = {base}
  OBVIOUS
<1>12. PICK E : E = {}
  OBVIOUS
<1>13. Idle(f, X) = E /\ Taken(f, X) = E
  BY <1>9, <1>11, <1>12 DEF Idle, Taken
<1>14. Filed(s, X)
  <2>1. ASSUME NEW i \in 1 .. Len(lists)
        PROVE  IsInjective(lists[i]) /\ Range(lists[i]) = {}
    <3>1. PICK l : l = lists[i] /\ DOMAIN l = {}
      BY <2>1
    <3> QED  BY <3>1 DEF IsInjective, Range
  <2> QED  BY <1>8, <1>12, <1>13, <2>1 DEF Filed
<1>15. Counted(s, X)
  <2>1. E \subseteq DOMAIN s.blocks /\ Chain(s.blocks, base, s.end)
    BY <1>8, <1>10, <1>12
  <2>2. SumSizes(s, E) = 0
    BY <1>12, <2>1, SumZero
  <2> QED  BY <1>8, <1>13, <2>2 DEF Counted
<1>16. Loose(s, base, least, X)
  <2>1. Apart(f, X)
    BY <1>12, <1>13 DEF Apart
  <2> QED  BY <1>3, <1>8, <1>9, <1>10, <1>11, <1>14, <1>15, <2>1 DEF Loose
<1>17. Listed(s, t, least, X, E, base)
  <2>1. Idle(s.blocks, X) = E /\ s.blocks[base] = h
    BY <1>8, <1>9, <1>13
  <2>2. base + s.blocks[base].size \notin Idle(s.blocks, X) /\ \A c \in Idle(s.blocks, X) : c + s.blocks[c].size # base
    BY <1>12, <2>1
  <2>3. E = X \ {base} /\ base \in X /\ ~s.blocks[base].used /\ s.blocks[base].size >= least
    BY <1>4, <1>11, <1>12, <2>1
  <2> QED  BY <1>7, <2>2, <2>3 DEF Listed
<1>18. /\ Loose(t, base, least, E)
       /\ t.blocks = s.blocks /\ t.used = s.used /\ t.base = s.base /\ t.end = s.end
       /\ Len(t.lists) = Len(s.lists)
  BY <1>16, <1>17, InsertLoose
<1> QED  BY <1>4, <1>8, <1>9, <1>12, <1>18 DEF Whole, UsedOf

\* A heap of one free block is whole.
LEMMA HeapAreaWhole ==
    ASSUME NEW end \in Nat, end >= MinHeapBlock, NEW t, t = HeapArea(end)
    PROVE  HeapInv(t, end) /\ UsedOf(t) = {} /\ t.used = 0 /\ \A c \in DOMAIN t.blocks : c = 0
<1>1. PICK none : none = <<>>
  OBVIOUS
<1>2. none \in Seq(Nat) /\ none = <<>>
  BY <1>1
<1>3. PICK lists : lists = <<none>>
  OBVIOUS
<1>4. lists \in Seq(Seq(Nat)) /\ lists = <<none>> /\ Len(lists) = 1 /\ lists[1] = none
  BY <1>2, <1>3
<1>5. t = Area(0, end, lists)
  BY <1>2, <1>4 DEF HeapArea
<1>6. 0 + MinHeapBlock <= end /\ MinHeapBlock \in Nat \ {0} /\ Len(lists) \in {1, Len(Classes) + 1}
  BY <1>4, Scale
<1>7. \A i \in 1 .. Len(lists) : lists[i] = <<>>
  BY <1>2, <1>4
<1>8. /\ Whole(t, 0, MinHeapBlock) /\ t.base = 0 /\ t.end = end /\ Len(t.lists) = Len(lists)
      /\ UsedOf(t) = {} /\ t.used = 0 /\ \A c \in DOMAIN t.blocks : c = 0
  <2>1. NewArea(t, 0, end, MinHeapBlock, lists)
    BY <1>4, <1>5, <1>6, <1>7 DEF NewArea
  <2> QED  BY <1>6, <2>1, AreaWhole
<1> QED  BY <1>4, <1>8 DEF HeapInv

\* A VM area of one free block is whole.
LEMMA VmAreaWhole ==
    ASSUME NEW base \in Nat, base + MinVmBlock <= Total, NEW t, t = VmArea(base)
    PROVE  VmInv(t, base, base) /\ UsedOf(t) = {} /\ t.used = 0
<1>1. PICK none : none = <<>>
  OBVIOUS
<1>2. none \in Seq(Nat) /\ none = <<>>
  BY <1>1
<1>3. PICK n \in Nat : n = Len(Classes) + 1
  BY PoolAssumption
<1>4. PICK lists : lists = [i \in 1 .. n |-> none]
  OBVIOUS
<1>5. lists \in Seq(Seq(Nat)) /\ Len(lists) = n
  BY <1>2, <1>4
<1>6. t = Area(base, Total, lists)
  BY <1>2, <1>3, <1>4 DEF VmArea
<1>7. Len(lists) \in {1, Len(Classes) + 1} /\ \A i \in 1 .. Len(lists) : lists[i] = <<>>
  BY <1>2, <1>3, <1>4, <1>5
<1>8. MinVmBlock \in Nat \ {0} /\ Total \in Nat
  BY Scale
<1>9. /\ Whole(t, base, MinVmBlock) /\ t.base = base /\ t.end = Total /\ Len(t.lists) = Len(lists)
      /\ UsedOf(t) = {} /\ t.used = 0
  <2>1. NewArea(t, base, Total, MinVmBlock, lists)
    BY <1>5, <1>6, <1>7, <1>8 DEF NewArea
  <2> QED  BY <1>8, <2>1, AreaWhole
<1> QED  BY <1>3, <1>5, <1>8, <1>9 DEF VmInv

\* The pool begins whole.
LEMMA InitIInv ==
    ASSUME Init
    PROVE  IInv
<1>1. PICK b \in Nat : b = border /\ b = Total \div 2
  BY Scale DEF Init
<1>2. MinBorder <= b /\ b <= MaxBorder
  BY <1>1, PoolAssumption
<1>3. b >= MinHeapBlock /\ b + MinVmBlock <= Total
  BY <1>2, Scale
<1>4. heap = HeapArea(b) /\ vm = VmArea(b) /\ refused = NoRefusal
  BY <1>1 DEF Init
<1>5. HeapInv(heap, b) /\ UsedOf(heap) = {}
  BY <1>3, <1>4, HeapAreaWhole
<1>6. VmInv(vm, b, b) /\ UsedOf(vm) = {}
  BY <1>3, <1>4, VmAreaWhole
<1>7. Owned(slot, heap, Objects) /\ Owned(place, vm, Tables)
  BY <1>5, <1>6 DEF Owned, Init
<1> QED  BY <1>1, <1>2, <1>3, <1>4, <1>5, <1>6, <1>7 DEF IInv
-----------------------------------------------------------------------------
(* Compaction *)

\* Where the live blocks go: to the front, in their order, without room between them.
LEMMA MovedProps ==
    ASSUME HeapInv(heap, border), border \in Nat, Live = UsedOf(heap),
           NEW U, U = SumSizes(heap, Live)
    PROVE  /\ U \in Nat /\ U <= border /\ heap.used = U
           /\ \A b \in Live : Moved(b) \in Nat /\ Moved(b) <= b /\ Moved(b) + heap.blocks[b].size <= U
           /\ \A b, c \in Live : b < c => Moved(b) + heap.blocks[b].size <= Moved(c)
           /\ \A b \in Live : \/ \E c \in Live : Moved(c) = Moved(b) + heap.blocks[b].size
                              \/ Moved(b) + heap.blocks[b].size = U
           /\ Live # {} => \E b \in Live : Moved(b) = 0
           /\ \A b \in Live : Moved(b) # 0 => \E c \in Live : Moved(c) + heap.blocks[c].size = Moved(b)
<1>1. PICK f : f = heap.blocks
  OBVIOUS
<1>2. /\ Chain(heap.blocks, 0, heap.end) /\ heap.end = border /\ Live \subseteq DOMAIN heap.blocks
  BY DEF HeapInv, Whole, Loose, UsedOf
<1>3. \A b \in DOMAIN f : b \in Nat /\ f[b].size \in Nat \ {0} /\ b + f[b].size <= border /\ NextOf(heap, b) = b + f[b].size
  BY <1>1, <1>2 DEF Chain, NextOf, SizeAt
<1>4. \A b, c \in DOMAIN f : b < c => b + f[b].size <= c
  BY <1>1, <1>2 DEF Chain
<1>5. heap.used = U
  <2>1. PICK E : E = {} /\ Counted(heap, E)
    BY DEF HeapInv, Whole, Loose
  <2>2. Taken(heap.blocks, E) = Live
    BY <2>1 DEF Taken, UsedOf
  <2> QED  BY <2>1, <2>2 DEF Counted
<1>6. \A B \in SUBSET DOMAIN heap.blocks : SumSizes(heap, B) \in Nat
  BY <1>2, UnitsIn
<1>7. U \in Nat /\ U <= border
  <2>1. \A b \in Live : NextOf(heap, b) <= border
    BY <1>1, <1>2, <1>3
  <2> QED  BY <1>2, <1>6, <2>1, SumBelow
<1>8. \A b : LiveBelow(b) \subseteq Live /\ LiveBelow(b) \in SUBSET DOMAIN heap.blocks
  BY <1>2 DEF LiveBelow
<1>9. \A b \in Live : Moved(b) \in Nat
  BY <1>6, <1>8 DEF Moved
<1>10. ASSUME NEW b \in Live, NEW B, B = LiveBelow(b) \cup {b}
       PROVE  SumSizes(heap, B) = Moved(b) + f[b].size
  <2>1. PICK A \in SUBSET DOMAIN heap.blocks : A = LiveBelow(b)
    BY <1>8
  <2>2. b \notin A /\ b \in DOMAIN heap.blocks
    <3>1. ~(b < b)
      BY <1>1, <1>2, <1>3
    <3> QED  BY <1>2, <2>1, <3>1 DEF LiveBelow
  <2>3. SumSizes(heap, A \cup {b}) = SumSizes(heap, A) + heap.blocks[b].size
    BY <1>2, <2>2, SumAdd
  <2> QED  BY <1>1, <1>10, <2>1, <2>3 DEF Moved
<1>11. ASSUME NEW b \in Live
       PROVE  Moved(b) <= b
  <2>1. PICK A \in SUBSET DOMAIN heap.blocks : A = LiveBelow(b)
    BY <1>8
  <2>2. \A c \in A : NextOf(heap, c) <= b
    BY <1>1, <1>2, <1>3, <1>4, <2>1 DEF LiveBelow
  <2>3. b \in Nat
    BY <1>1, <1>2, <1>3
  <2>4. SumSizes(heap, A) <= b
    BY <1>2, <2>2, <2>3, SumBelow
  <2> QED  BY <2>1, <2>4 DEF Moved
<1>12. ASSUME NEW b \in Live
       PROVE  Moved(b) + f[b].size <= U
  <2>1. PICK B : B = LiveBelow(b) \cup {b}
    OBVIOUS
  <2>2. B \in SUBSET Live /\ Live \in SUBSET DOMAIN heap.blocks
    BY <1>2, <1>8, <2>1
  <2>3. SumSizes(heap, B) <= SumSizes(heap, Live)
    BY <1>2, <2>2, SumMonotone
  <2> QED  BY <1>10, <2>1, <2>3
<1>13. ASSUME NEW b \in Live, NEW c \in Live, b < c
       PROVE  Moved(b) + f[b].size <= Moved(c)
  <2>1. PICK B : B = LiveBelow(b) \cup {b}
    OBVIOUS
  <2>2. PICK C \in SUBSET DOMAIN heap.blocks : C = LiveBelow(c)
    BY <1>8
  <2>3. B \in SUBSET C
    <3>1. b \in Nat /\ c \in Nat /\ \A d \in Live : d \in Nat
      BY <1>1, <1>2, <1>3
    <3>2. \A d \in Live : d < b => d < c
      BY <1>13, <3>1
    <3>3. \A d \in B : d \in C
      BY <1>13, <2>1, <2>2, <3>2 DEF LiveBelow
    <3> QED  BY <3>3
  <2>4. SumSizes(heap, B) <= SumSizes(heap, C)
    BY <1>2, <2>2, <2>3, SumMonotone
  <2> QED  BY <1>10, <2>1, <2>2, <2>4 DEF Moved
<1>14. ASSUME NEW b \in Live
       PROVE  \/ \E c \in Live : Moved(c) = Moved(b) + f[b].size
              \/ Moved(b) + f[b].size = U
  <2>1. PICK A : A = {c \in Live : b < c}
    OBVIOUS
  <2>2. \A d \in Live : d \in Nat
    BY <1>1, <1>2, <1>3
  <2>3. CASE A = {}
    <3>1. Live = LiveBelow(b) \cup {b}
      BY <2>1, <2>2, <2>3 DEF LiveBelow
    <3> QED  BY <1>10, <3>1
  <2>4. CASE A # {}
    <3>1. A \subseteq Nat
      BY <2>1, <2>2
    <3>2. Min(A) \in A /\ \A x \in A : Min(A) <= x
      BY <2>4, <3>1, Least
    <3>3. PICK c \in Live : b < c /\ \A x \in Live : b < x => c <= x
      BY <2>1, <3>2
    <3>4. LiveBelow(c) = LiveBelow(b) \cup {b}
      BY <2>2, <3>3 DEF LiveBelow
    <3>5. Moved(c) = Moved(b) + f[b].size
      BY <1>10, <3>4 DEF Moved
    <3> QED  BY <3>5
  <2> QED  BY <2>3, <2>4
<1>15. ASSUME Live # {}
       PROVE  \E b \in Live : Moved(b) = 0
  <2>1. Live \subseteq Nat
    BY <1>1, <1>2, <1>3
  <2>2. Min(Live) \in Live /\ \A x \in Live : Min(Live) <= x
    BY <1>15, <2>1, Least
  <2>3. PICK b \in Live : \A x \in Live : b <= x
    BY <2>2
  <2>4. LiveBelow(b) = {}
    BY <2>1, <2>3 DEF LiveBelow
  <2>5. PICK E \in SUBSET DOMAIN heap.blocks : E = {}
    OBVIOUS
  <2>6. SumSizes(heap, E) = 0
    BY <1>2, <2>5, SumZero
  <2> QED  BY <2>4, <2>5, <2>6 DEF Moved
<1>16. ASSUME NEW b \in Live, Moved(b) # 0
       PROVE  \E c \in Live : Moved(c) + f[c].size = Moved(b)
  <2>1. PICK A \in SUBSET DOMAIN heap.blocks : A = LiveBelow(b)
    BY <1>8
  <2>2. A # {}
    <3>1. A = {} => SumSizes(heap, A) = 0
      BY <1>2, SumZero
    <3> QED  BY <1>16, <2>1, <3>1 DEF Moved
  <2>3. b \in Nat /\ \A d \in Live : d \in Nat
    BY <1>1, <1>2, <1>3
  <2>4. \A x \in A : x \in Live /\ x < b
    BY <2>1 DEF LiveBelow
  <2>5. ASSUME NEW x \in A
        PROVE  x \in Nat /\ x <= b
    <3>1. x \in Live /\ x < b
      BY <2>4
    <3>2. x \in Nat /\ b \in Nat
      BY <2>3, <3>1
    <3>3. x <= b
      BY <3>1, <3>2
    <3> QED  BY <3>2, <3>3
  <2>6. A \subseteq Nat /\ \A x \in A : x <= b
    BY <2>5
  <2>7. Max(A) \in A /\ \A x \in A : x <= Max(A)
    BY <2>2, <2>3, <2>6, Greatest
  <2>8. PICK c \in A : \A x \in A : x <= c
    BY <2>7
  <2>9. c \in Live /\ c < b /\ \A x \in Live : x < b => x <= c
    BY <2>1, <2>8 DEF LiveBelow
  <2>10. LiveBelow(b) = LiveBelow(c) \cup {c}
    <3>1. ASSUME NEW x \in Live
          PROVE  x < b <=> x < c \/ x = c
      <4>1. x \in Nat /\ b \in Nat /\ c \in Nat
        BY <2>3, <2>9
      <4>2. x < b => x <= c
        BY <2>9
      <4> QED  BY <2>9, <4>1, <4>2
    <3>2. \A x : x \in LiveBelow(b) <=> x \in LiveBelow(c) \/ x = c
      BY <2>9, <3>1 DEF LiveBelow
    <3> QED  BY <3>2
  <2>11. Moved(c) + f[c].size = Moved(b)
    BY <1>10, <2>9, <2>10 DEF Moved
  <2> QED  BY <2>9, <2>11
<1> QED  BY <1>1, <1>5, <1>7, <1>9, <1>11, <1>12, <1>13, <1>14, <1>15, <1>16

\* The used blocks lie in front, and what is behind them is one free block.
Packed(s) ==
    /\ Record(s) /\ Chain(s.blocks, 0, s.end) /\ s.used \in Nat /\ s.used <= s.end
    /\ s.used # s.end => s.used \in DOMAIN s.blocks
    /\ \A b \in DOMAIN s.blocks :
          /\ s.blocks[b] \in Block /\ s.blocks[b].size >= MinHeapBlock
          /\ b <= s.used /\ (s.blocks[b].used <=> b < s.used)

\* What such an area says is used is used, and the one free block ends it.
LEMMA PackedCounted ==
    ASSUME NEW s, Packed(s)
    PROVE  SumSizes(s, UsedOf(s)) = s.used /\ \A b \in FreeOf(s) : b = s.used /\ b + s.blocks[b].size = s.end
<1>1. PICK f : f = s.blocks
  OBVIOUS
<1>2. PICK U \in Nat : U = s.used
  BY DEF Packed
<1>3. PICK e \in Nat : e = s.end /\ U <= e
  BY <1>2 DEF Packed, Chain
<1>4. /\ Chain(s.blocks, 0, s.end) /\ Chain(f, 0, e)
      /\ \A b \in DOMAIN f : b \in Nat /\ f[b].size \in Nat \ {0} /\ b <= U /\ (f[b].used <=> b < U)
  BY <1>1, <1>2, <1>3 DEF Packed, Chain
<1>5. \A b \in DOMAIN f : b + f[b].size \in DOMAIN f \cup {e}
  BY <1>4 DEF Chain
<1>6. ASSUME NEW b \in FreeOf(s)
      PROVE  b = U /\ b + f[b].size = e
  <2>1. b \in DOMAIN f /\ ~f[b].used
    BY <1>1 DEF FreeOf
  <2>2. b = U
    BY <1>4, <2>1
  <2>3. ~(b + f[b].size <= U)
    BY <1>4, <2>1, <2>2
  <2>4. b + f[b].size \notin DOMAIN f
    BY <1>4, <2>3
  <2> QED  BY <1>5, <2>1, <2>2, <2>4
<1>7. SumSizes(s, DOMAIN s.blocks) = e
  <2>1. SumSizes(s, DOMAIN s.blocks) = s.end - 0
    BY <1>4, SumAll
  <2> QED  BY <1>3, <2>1
<1>8. CASE U \in DOMAIN f
  <2>1. U \in FreeOf(s)
    BY <1>1, <1>4, <1>8 DEF FreeOf
  <2>2. f[U].size = e - U /\ U \notin UsedOf(s)
    BY <1>1, <1>4, <1>6, <1>8, <2>1 DEF UsedOf, FreeOf
  <2>3. PICK B \in SUBSET DOMAIN s.blocks : B = UsedOf(s)
    BY DEF UsedOf
  <2>4. B \cup {U} = DOMAIN s.blocks
    <3>1. \A b \in DOMAIN f : b \in B \/ b = U
      BY <1>1, <1>4, <2>3 DEF UsedOf
    <3> QED  BY <1>1, <1>8, <2>3, <3>1
  <2>5. SumSizes(s, B \cup {U}) = SumSizes(s, B) + s.blocks[U].size
    BY <1>1, <1>4, <1>8, <2>2, <2>3, SumAdd
  <2>6. SumSizes(s, B) \in Nat
    BY <1>4, UnitsIn
  <2>7. PICK S \in Nat : S = SumSizes(s, B)
    BY <2>6
  <2>8. e = S + (e - U)
    <3>1. SumSizes(s, B \cup {U}) = S + (e - U)
      BY <1>1, <2>2, <2>5, <2>7
    <3>2. SumSizes(s, B \cup {U}) = e
      BY <1>7, <2>4
    <3> QED  BY <3>1, <3>2
  <2>9. S = U
    BY <1>2, <1>3, <2>8
  <2> QED  BY <1>1, <1>2, <1>3, <1>6, <2>3, <2>7, <2>9
<1>9. CASE U \notin DOMAIN f
  <2>1. U = e
    BY <1>1, <1>2, <1>3, <1>9 DEF Packed
  <2>2. UsedOf(s) = DOMAIN s.blocks
    BY <1>1, <1>4, <1>9 DEF UsedOf
  <2> QED  BY <1>1, <1>2, <1>3, <1>6, <1>7, <2>1, <2>2
<1> QED  BY <1>8, <1>9

\* Such an area is whole when the free block is in the one list.
LEMMA PackedWhole ==
    ASSUME NEW s, Packed(s), Len(s.lists) = 1, s.base = 0, s.lists \in Seq(Seq(Nat)),
           IsInjective(s.lists[1]), Range(s.lists[1]) = FreeOf(s)
    PROVE  HeapInv(s, s.end)
<1>1. PICK E : E = {}
  OBVIOUS
<1>2. Idle(s.blocks, E) = FreeOf(s) /\ Taken(s.blocks, E) = UsedOf(s)
  BY <1>1 DEF Idle, Taken, FreeOf, UsedOf
<1>3. Apart(s.blocks, E)
  <2> SUFFICES ASSUME NEW b \in FreeOf(s), b + s.blocks[b].size \in FreeOf(s)
               PROVE  FALSE
    BY <1>2 DEF Apart
  <2>1. b = s.used /\ b + s.blocks[b].size = s.used
    BY PackedCounted
  <2>2. b \in Nat /\ s.blocks[b].size \in Nat \ {0}
    BY DEF FreeOf, Packed, Chain
  <2> QED  BY <2>1, <2>2
<1>4. Counted(s, E)
  BY <1>2, PackedCounted DEF Counted
<1>5. Filed(s, E)
  <2>1. \A b : ListIndex(s, s.blocks[b].size) = 1
    BY DEF ListIndex
  <2> QED  BY <1>2, <2>1 DEF Filed
<1>6. Loose(s, 0, MinHeapBlock, E)
  BY <1>1, <1>3, <1>4, <1>5 DEF Loose, Packed
<1> QED  BY <1>1, <1>6 DEF HeapInv, Whole

\* The free block is put into the empty list, if there is one.
LEMMA PackedListed ==
    ASSUME NEW s, Packed(s), s.base = 0, NEW none \in Seq(Nat), none = <<>>, s.lists = <<none>>,
           NEW t, t = IF s.used = s.end THEN s ELSE Insert(s, s.used)
    PROVE  HeapInv(t, s.end) /\ Packed(t) /\ t.blocks = s.blocks /\ t.used = s.used /\ t.end = s.end
<1>1. s.lists \in Seq(Seq(Nat)) /\ Len(s.lists) = 1 /\ s.lists[1] = none /\ Record(s)
  BY DEF Packed
<1>2. CASE s.used = s.end
  <2>1. FreeOf(s) = {}
    <3>1. \A b \in FreeOf(s) : b = s.end /\ b + s.blocks[b].size = s.end /\ b \in Nat /\ s.blocks[b].size \in Nat \ {0}
      BY <1>2, PackedCounted DEF FreeOf, Packed, Chain
    <3>2. \A b \in FreeOf(s) : FALSE
      BY <3>1
    <3> QED  BY <3>2
  <2>2. DOMAIN none = {}
    OBVIOUS
  <2>3. IsInjective(none) /\ Range(none) = {}
    BY <2>2 DEF IsInjective, Range
  <2>4. t = s
    BY <1>2
  <2>5. HeapInv(s, s.end)
    BY <1>1, <2>1, <2>3, PackedWhole
  <2> QED  BY <2>4, <2>5
<1>3. CASE s.used # s.end
  <2>1. PICK U \in Nat : U = s.used /\ U \in DOMAIN s.blocks
    BY <1>3 DEF Packed
  <2>2. FreeOf(s) = {U}
    <3>1. U \in FreeOf(s)
      BY <2>1 DEF Packed, FreeOf
    <3>2. \A b \in FreeOf(s) : b = U
      BY <2>1, PackedCounted
    <3> QED  BY <3>1, <3>2
  <2>3. PICK l \in Seq(Nat) : l = <<U>> \o none
    <3>1. <<U>> \in Seq(Nat)
      OBVIOUS
    <3> QED  BY <3>1, ConcatProperties
  <2>4. l = <<U>>
    <3>1. <<U>> \in Seq(Nat)
      OBVIOUS
    <3> QED  BY <2>3, <3>1, ConcatEmptySeq
  <2>5. IsInjective(l) /\ Range(l) = {U}
    <3>1. DOMAIN l = {1} /\ l[1] = U
      BY <2>4
    <3> QED  BY <3>1 DEF IsInjective, Range
  <2>6. ListIndex(s, SizeAt(s, U)) = 1
    BY <1>1 DEF ListIndex
  <2>7. PICK ls : ls = [s.lists EXCEPT ![1] = <<U>> \o s.lists[1]]
    OBVIOUS
  <2>8. t = [s EXCEPT !.lists = ls]
    BY <1>3, <2>1, <2>6, <2>7 DEF Insert
  <2>9. ls \in Seq(Seq(Nat)) /\ Len(ls) = 1 /\ ls[1] = l
    BY <1>1, <2>3, <2>7
  <2>10. /\ Record(t) /\ t.blocks = s.blocks /\ t.used = s.used /\ t.base = s.base /\ t.end = s.end
         /\ t.lists = ls
    BY <1>1, <2>8 DEF Record
  <2>11. Packed(t)
    BY <2>10 DEF Packed
  <2>12. FreeOf(t) = {U}
    BY <2>2, <2>10 DEF FreeOf
  <2>13. HeapInv(t, t.end)
    BY <2>5, <2>9, <2>10, <2>11, <2>12, PackedWhole
  <2> QED  BY <2>10, <2>11, <2>13
<1> QED  BY <1>2, <1>3

\* Each live block has a place of its own, in the old order, and the last ends where the free room begins.
LEMMA PlacesApart ==
    ASSUME HeapInv(heap, border), border \in Nat, Live = UsedOf(heap),
           NEW U, U = SumSizes(heap, Live)
    PROVE  /\ \A b, c \in Live : Moved(b) = Moved(c) => b = c
           /\ \A b, c \in Live : Moved(b) < Moved(c) => Moved(b) + heap.blocks[b].size <= Moved(c)
           /\ Live # {} => \E b \in Live : Moved(b) + heap.blocks[b].size = U
<1>1. PICK f : f = heap.blocks
  OBVIOUS
<1>2. \A b \in Live : b \in Nat /\ b <= border /\ f[b].size \in Nat \ {0}
  BY <1>1 DEF HeapInv, Whole, Loose, Chain, UsedOf
<1>3. \A b \in Live : Moved(b) \in Nat
  BY MovedProps
<1>4. \A b, c \in Live : b < c => Moved(b) + f[b].size <= Moved(c)
  BY <1>1, MovedProps
<1>5. ASSUME NEW b \in Live, NEW c \in Live
      PROVE  /\ Moved(b) = Moved(c) => b = c
             /\ Moved(b) < Moved(c) => Moved(b) + f[b].size <= Moved(c)
  <2>1. PICK x \in Nat, y \in Nat : x = Moved(b) /\ y = Moved(c)
    BY <1>3
  <2>2. PICK k \in Nat \ {0}, l \in Nat \ {0} : k = f[b].size /\ l = f[c].size
    BY <1>2
  <2>3. b < c => x + k <= y
    BY <1>4, <2>1, <2>2
  <2>4. c < b => y + l <= x
    BY <1>4, <2>1, <2>2
  <2>5. b = c \/ b < c \/ c < b
    BY <1>2
  <2>6. x = y => b = c
    BY <2>3, <2>4, <2>5
  <2>7. b = c => x = y
    BY <2>1
  <2>8. x < y => x + k <= y
    BY <2>3, <2>4, <2>5, <2>7
  <2> QED  BY <2>1, <2>2, <2>6, <2>8
<1>6. ASSUME Live # {}
      PROVE  \E b \in Live : Moved(b) + f[b].size = U
  <2>1. PICK L \in SUBSET Nat : L = Live
    BY <1>2
  <2>2. Max(L) \in L /\ \A x \in L : x <= Max(L)
    BY <1>2, <1>6, <2>1, Greatest
  <2>3. PICK m \in Live : \A x \in Live : x <= m
    BY <2>1, <2>2
  <2>4. ASSUME NEW c \in Live, Moved(c) = Moved(m) + f[m].size
        PROVE  FALSE
    <3>1. PICK x \in Nat, k \in Nat \ {0} : x = Moved(m) /\ k = f[m].size
      BY <1>2, <1>3
    <3>2. PICK y \in Nat, l \in Nat \ {0} : y = Moved(c) /\ l = f[c].size
      BY <1>2, <1>3
    <3>3. c < m => y + l <= x
      BY <1>4, <3>1, <3>2
    <3>4. c <= m /\ c \in Nat /\ m \in Nat
      BY <1>2, <2>3
    <3>5. c = m => x = y
      BY <3>1, <3>2
    <3>6. y = x + k
      BY <2>4, <3>1, <3>2
    <3> QED  BY <3>3, <3>4, <3>5, <3>6
  <2>5. \/ \E c \in Live : Moved(c) = Moved(m) + f[m].size
        \/ Moved(m) + f[m].size = U
    BY <1>1, MovedProps
  <2> QED  BY <2>4, <2>5
<1> QED  BY <1>1, <1>5, <1>6

\* The size of the block that ends at an address, when the live blocks have moved.
PrevAt(at) == IF at = 0 THEN 0 ELSE SizeAt(heap, CHOOSE b \in Live : Moved(b) + SizeAt(heap, b) = at)

\* Behind a live block, and so in front of each but the first, and of the free room, ends another.
LEMMA PrevAtProps ==
    ASSUME HeapInv(heap, border), border \in Nat, Live = UsedOf(heap),
           NEW U, U = SumSizes(heap, Live), NEW at, at # 0,
           at = U \/ \E b \in Live : at = Moved(b)
    PROVE  Live # {} => \E c \in Live : PrevAt(at) = heap.blocks[c].size /\ Moved(c) + heap.blocks[c].size = at
<1> SUFFICES ASSUME Live # {}
             PROVE  \E c \in Live : PrevAt(at) = heap.blocks[c].size /\ Moved(c) + heap.blocks[c].size = at
  OBVIOUS
<1>1. \E c \in Live : Moved(c) + heap.blocks[c].size = at
  <2>1. CASE at = U
    BY <2>1, PlacesApart
  <2>2. CASE \E b \in Live : at = Moved(b)
    BY <2>2, MovedProps
  <2> QED  BY <2>1, <2>2
<1>2. PICK c : c = CHOOSE b \in Live : Moved(b) + SizeAt(heap, b) = at
  OBVIOUS
<1>3. c \in Live /\ Moved(c) + SizeAt(heap, c) = at
  BY <1>1, <1>2 DEF SizeAt
<1>4. PrevAt(at) = SizeAt(heap, c)
  BY <1>2 DEF PrevAt
<1> QED  BY <1>3, <1>4 DEF SizeAt

\* If there is free room at all, there is enough for a block.
LEMMA RoomIsABlock ==
    ASSUME HeapInv(heap, border), border \in Nat, Live = UsedOf(heap),
           NEW U, U = SumSizes(heap, Live), U # border
    PROVE  U \in Nat /\ U + MinHeapBlock <= border
<1>1. Chain(heap.blocks, 0, heap.end) /\ heap.end = border
  BY DEF HeapInv, Whole, Loose
<1>2. PICK D \in SUBSET DOMAIN heap.blocks : D = DOMAIN heap.blocks
  OBVIOUS
<1>3. SumSizes(heap, D) = border
  <2>1. SumSizes(heap, DOMAIN heap.blocks) = heap.end - 0
    BY <1>1, SumAll
  <2> QED  BY <1>1, <1>2, <2>1
<1>4. Live # D
  BY <1>3
<1>5. PICK b \in DOMAIN heap.blocks : b \notin Live
  BY <1>2, <1>4 DEF UsedOf
<1>6. heap.blocks[b].size \in Nat /\ heap.blocks[b].size >= MinHeapBlock
  <2>1. PICK E : E = {} /\ Loose(heap, 0, MinHeapBlock, E)
    BY DEF HeapInv, Whole
  <2> QED  BY <1>5, <2>1 DEF Loose, Block
<1>7. PICK L \in SUBSET DOMAIN heap.blocks : L = Live
  BY DEF UsedOf
<1>8. SumSizes(heap, L \cup {b}) = U + heap.blocks[b].size
  BY <1>1, <1>5, <1>7, SumAdd
<1>9. PICK B : B = L \cup {b}
  OBVIOUS
<1>10. B \in SUBSET D /\ D \in SUBSET DOMAIN heap.blocks
  BY <1>2, <1>5, <1>7, <1>9
<1>11. SumSizes(heap, B) <= SumSizes(heap, D)
  BY <1>1, <1>10, SumMonotone
<1>12. U \in Nat
  BY MovedProps
<1> QED  BY <1>3, <1>6, <1>8, <1>9, <1>11, <1>12, Scale

\* The live blocks in front, and a free one behind them if there is room.
InFront(s, U) ==
    /\ Record(s) /\ s.used = U /\ s.end = border
    /\ \A c : c \in DOMAIN s.blocks <=> (\E b \in Live : c = Moved(b)) \/ (U # border /\ c = U)
    /\ \A b \in Live :
          /\ s.blocks[Moved(b)] \in Block /\ s.blocks[Moved(b)].used
          /\ s.blocks[Moved(b)].size = heap.blocks[b].size /\ s.blocks[Moved(b)].owner = heap.blocks[b].owner
          /\ s.blocks[Moved(b)].prev = PrevAt(Moved(b))
    /\ U # border => /\ s.blocks[U] \in Block /\ ~s.blocks[U].used
                     /\ s.blocks[U].size = border - U /\ s.blocks[U].prev = PrevAt(U)

\* Such an area is packed.
LEMMA FrontPacked ==
    ASSUME HeapInv(heap, border), border \in Nat, Live = UsedOf(heap), Live # {},
           NEW U, U = SumSizes(heap, Live), NEW s, InFront(s, U)
    PROVE  Packed(s)
<1>1. PICK g : g = s.blocks
  OBVIOUS
<1>2. PICK f : f = heap.blocks
  OBVIOUS
<1>3. U \in Nat /\ U <= border /\ (U # border => U + MinHeapBlock <= border)
  BY MovedProps, RoomIsABlock
<1>4. /\ Record(s) /\ s.used = U /\ s.end = border
      /\ \A c : c \in DOMAIN g <=> (\E b \in Live : c = Moved(b)) \/ (U # border /\ c = U)
  BY <1>1 DEF InFront
<1>5. \A b \in Live :
         /\ Moved(b) \in DOMAIN g /\ g[Moved(b)] \in Block /\ g[Moved(b)].used
         /\ g[Moved(b)].size = f[b].size /\ g[Moved(b)].prev = PrevAt(Moved(b))
  BY <1>1, <1>2 DEF InFront
<1>6. U # border => /\ U \in DOMAIN g /\ g[U] \in Block /\ ~g[U].used
                    /\ g[U].size = border - U /\ g[U].prev = PrevAt(U)
  BY <1>1 DEF InFront
<1>7. \A b \in Live : f[b].size \in Nat \ {0} /\ f[b].size >= MinHeapBlock
  <2>1. PICK E : E = {} /\ Loose(heap, 0, MinHeapBlock, E)
    BY DEF HeapInv, Whole
  <2> QED  BY <1>2, <2>1 DEF Loose, Chain, UsedOf
<1>8. \A b \in Live : Moved(b) \in Nat /\ Moved(b) + f[b].size <= U /\ Moved(b) < U
  BY <1>2, <1>3, <1>7, MovedProps
<1>9. MinHeapBlock \in Nat \ {0}
  BY Scale
<1>10. U # 0
  BY <1>3, <1>8
<1>11. ASSUME NEW c \in DOMAIN g
       PROVE  /\ c \in Nat /\ g[c] \in Block /\ g[c].size \in Nat \ {0} /\ g[c].size >= MinHeapBlock /\ g[c].prev \in Nat
              /\ c <= U /\ (g[c].used <=> c < U)
              /\ c + g[c].size <= border /\ c + g[c].size \in DOMAIN g \cup {border}
  <2>1. CASE U # border /\ c = U
    BY <1>3, <1>6, <1>9, <2>1 DEF Block
  <2>2. ASSUME NEW b \in Live, c = Moved(b)
        PROVE  c + g[c].size \in DOMAIN g \cup {border}
    <3>1. \/ \E d \in Live : Moved(d) = Moved(b) + f[b].size
          \/ Moved(b) + f[b].size = U
      BY <1>2, MovedProps
    <3> QED  BY <1>4, <1>5, <2>2, <3>1
  <2>3. ASSUME NEW b \in Live, c = Moved(b)
        PROVE  /\ c \in Nat /\ g[c] \in Block /\ g[c].size \in Nat \ {0} /\ g[c].size >= MinHeapBlock /\ g[c].prev \in Nat
               /\ c <= U /\ (g[c].used <=> c < U) /\ c + g[c].size <= border
    <3>1. g[c].size = f[b].size /\ g[c].used /\ g[c] \in Block
      BY <1>5, <2>3
    <3>2. c \in Nat /\ c + f[b].size <= U /\ c < U /\ f[b].size \in Nat \ {0} /\ f[b].size >= MinHeapBlock
      BY <1>7, <1>8, <2>3
    <3>3. g[c].prev \in Nat
      BY <3>1 DEF Block
    <3> QED  BY <1>3, <3>1, <3>2, <3>3
  <2> QED  BY <1>4, <2>1, <2>2, <2>3
<1>12. ASSUME NEW c \in DOMAIN g, NEW d \in DOMAIN g, c < d
       PROVE  c + g[c].size <= d
  <2>1. c \in Nat /\ d \in Nat /\ d <= U /\ c <= U
    BY <1>11
  <2>2. PICK b \in Live : c = Moved(b)
    BY <1>3, <1>4, <1>12, <2>1
  <2>3. g[c].size = f[b].size /\ c + f[b].size <= U
    BY <1>5, <1>8, <2>2
  <2>4. CASE d = U
    BY <2>3, <2>4
  <2>5. CASE d # U
    <3>1. PICK e \in Live : d = Moved(e)
      BY <1>4, <2>5
    <3>2. Moved(b) + f[b].size <= Moved(e)
      BY <1>2, <1>12, <2>2, <3>1, PlacesApart
    <3> QED  BY <2>2, <2>3, <3>1, <3>2
  <2> QED  BY <2>4, <2>5
<1>13. 0 \in DOMAIN g /\ g[0].prev = 0
  <2>1. PICK b \in Live : Moved(b) = 0
    BY MovedProps
  <2>2. PrevAt(0) = 0
    BY DEF PrevAt
  <2> QED  BY <1>5, <2>1, <2>2
<1>14. ASSUME NEW c \in DOMAIN g \ {0}
       PROVE  c - g[c].prev \in DOMAIN g /\ g[c - g[c].prev].size = g[c].prev
  <2>1. c = U \/ \E b \in Live : c = Moved(b)
    BY <1>4
  <2>2. g[c].prev = PrevAt(c)
    BY <1>4, <1>5, <1>6
  <2>3. PICK b \in Live : PrevAt(c) = f[b].size /\ Moved(b) + f[b].size = c
    BY <1>2, <1>14, <2>1, PrevAtProps
  <2>4. c - g[c].prev = Moved(b)
    <3>1. PICK x \in Nat, k \in Nat : x = Moved(b) /\ k = f[b].size
      BY <1>7, <1>8
    <3>2. c = x + k /\ g[c].prev = k
      BY <2>2, <2>3, <3>1
    <3>3. c - k = x
      BY <3>1, <3>2
    <3> QED  BY <3>1, <3>2, <3>3
  <2> QED  BY <1>5, <2>2, <2>3, <2>4
<1>15. DOMAIN g \subseteq Nat
  BY <1>11
<1>16. \A c \in DOMAIN g : 0 <= c
  BY <1>15
<1>17. Chain(g, 0, border)
  BY <1>11, <1>12, <1>13, <1>14, <1>15, <1>16 DEF Chain
<1> QED  BY <1>1, <1>3, <1>4, <1>6, <1>11, <1>17 DEF Packed

\* A heap of one free block is packed.
LEMMA AreaPacked ==
    ASSUME NEW end \in Nat, end >= MinHeapBlock, NEW t, t = HeapArea(end)
    PROVE  Packed(t)
<1>1. HeapInv(t, end) /\ UsedOf(t) = {} /\ t.used = 0 /\ \A c \in DOMAIN t.blocks : c = 0
  BY HeapAreaWhole
<1>2. PICK E : E = {} /\ Loose(t, 0, MinHeapBlock, E) /\ t.end = end
  BY <1>1 DEF HeapInv, Whole
<1>3. /\ Record(t) /\ Chain(t.blocks, 0, t.end) /\ 0 \in DOMAIN t.blocks
      /\ \A b \in DOMAIN t.blocks : t.blocks[b] \in Block /\ t.blocks[b].size >= MinHeapBlock
  BY <1>2 DEF Loose, Chain
<1>4. \A b \in DOMAIN t.blocks : b = 0 /\ ~t.blocks[b].used
  BY <1>1 DEF UsedOf
<1> QED  BY <1>1, <1>2, <1>3, <1>4 DEF Packed

\* What compaction leaves: the heap whole, with the same objects, at their new places.
MovedHeap(h) ==
    /\ HeapInv(h, border) /\ Packed(h) /\ h.used = heap.used
    /\ \A c : c \in UsedOf(h) <=> \E b \in Live : c = Moved(b)
    /\ \A b \in Live : /\ h.blocks[Moved(b)].size = heap.blocks[b].size
                       /\ h.blocks[Moved(b)].owner = heap.blocks[b].owner

\* Compaction leaves what it should when no block is live.
LEMMA CompactedNone ==
    ASSUME HeapInv(heap, border), border \in Nat, border >= MinHeapBlock, Live = UsedOf(heap), Live = {},
           NEW h, h = Compacted
    PROVE  MovedHeap(h)
<1>1. h = HeapArea(border)
  BY DEF Compacted, HeapInv
<1>2. HeapInv(h, border) /\ Packed(h) /\ UsedOf(h) = {} /\ h.used = 0
  BY <1>1, HeapAreaWhole, AreaPacked
<1>3. heap.used = 0
  <2>1. PICK E \in SUBSET DOMAIN heap.blocks : E = Live
    BY DEF UsedOf
  <2>2. Chain(heap.blocks, 0, heap.end)
    BY DEF HeapInv, Whole, Loose
  <2>3. SumSizes(heap, E) = 0
    BY <2>1, <2>2, SumZero
  <2> QED  BY <2>1, <2>3, MovedProps
<1> QED  BY <1>2, <1>3 DEF MovedHeap

\* The blocks of the compacted heap.
MovedBlocks ==
    [at \in {Moved(b) : b \in Live} |->
        LET b == CHOOSE c \in Live : Moved(c) = at
        IN Header(SizeAt(heap, b), PrevAt(at), TRUE, heap.blocks[b].owner)]

\* Each live block is found again at its new place.
LEMMA MovedBlocksProps ==
    ASSUME HeapInv(heap, border), border \in Nat, Live = UsedOf(heap), NEW m, m = MovedBlocks
    PROVE  /\ \A c : c \in DOMAIN m <=> \E b \in Live : c = Moved(b)
           /\ \A b \in Live :
                /\ m[Moved(b)] \in Block /\ m[Moved(b)].used
                /\ m[Moved(b)].size = heap.blocks[b].size /\ m[Moved(b)].owner = heap.blocks[b].owner
                /\ m[Moved(b)].prev = PrevAt(Moved(b))
<1>1. PICK U : U = SumSizes(heap, Live)
  OBVIOUS
<1>2. DOMAIN m = {Moved(b) : b \in Live}
  BY DEF MovedBlocks
<1>3. ASSUME NEW b \in Live
      PROVE  /\ m[Moved(b)] \in Block /\ m[Moved(b)].used
             /\ m[Moved(b)].size = heap.blocks[b].size /\ m[Moved(b)].owner = heap.blocks[b].owner
             /\ m[Moved(b)].prev = PrevAt(Moved(b))
  <2>1. b = CHOOSE c \in Live : Moved(c) = Moved(b)
    <3>1. PICK d : d = CHOOSE c \in Live : Moved(c) = Moved(b)
      OBVIOUS
    <3>2. d \in Live /\ Moved(d) = Moved(b)
      BY <3>1
    <3>3. d = b
      BY <1>1, <3>2, PlacesApart
    <3> QED  BY <3>1, <3>3
  <2>2. Moved(b) \in {Moved(c) : c \in Live}
    OBVIOUS
  <2>3. m[Moved(b)] = Header(SizeAt(heap, b), PrevAt(Moved(b)), TRUE, heap.blocks[b].owner)
    BY <2>1, <2>2 DEF MovedBlocks
  <2>4. heap.blocks[b] \in Block
    BY DEF HeapInv, Whole, Loose, UsedOf
  <2>5. PICK z \in Nat : z = SizeAt(heap, b)
    BY <2>4 DEF SizeAt, Block
  <2>6. PICK o \in Owner : o = heap.blocks[b].owner
    BY <2>4 DEF Block
  <2>7. PrevAt(Moved(b)) \in Nat
    <3>1. CASE Moved(b) = 0
      BY <3>1 DEF PrevAt
    <3>2. CASE Moved(b) # 0
      <4>1. PICK c \in Live : PrevAt(Moved(b)) = heap.blocks[c].size
        BY <1>1, <3>2, PrevAtProps
      <4>2. heap.blocks[c] \in Block
        BY DEF HeapInv, Whole, Loose, UsedOf
      <4> QED  BY <4>1, <4>2 DEF Block
    <3> QED  BY <3>1, <3>2
  <2>8. PICK p \in Nat : p = PrevAt(Moved(b))
    BY <2>7
  <2>9. PICK h \in Block : h = Header(z, p, TRUE, o)
    BY DEF Header, Block
  <2>10. h.size = z /\ h.prev = p /\ h.used /\ h.owner = o
    BY <2>9 DEF Header
  <2>11. m[Moved(b)] = h
    BY <2>3, <2>5, <2>6, <2>8, <2>9
  <2> QED  BY <2>5, <2>6, <2>8, <2>10, <2>11 DEF SizeAt
<1> QED  BY <1>2, <1>3

\* The live blocks at their new places, before the room behind them has a header.
FrontPart == [heap EXCEPT !.blocks = MovedBlocks, !.used = SumSizes(heap, Live), !.lists = <<<<>>>>]

\* Compacted in these terms.
LEMMA CompactedIs ==
    Compacted =
        IF Live = {} THEN HeapArea(heap.end)
        ELSE IF SumSizes(heap, Live) = heap.end THEN FrontPart
        ELSE Insert(Put(FrontPart, SumSizes(heap, Live),
                        Header(heap.end - SumSizes(heap, Live), PrevAt(SumSizes(heap, Live)), FALSE, Nobody)),
                    SumSizes(heap, Live))
BY Zenon DEF Compacted, FrontPart, MovedBlocks, PrevAt

\* It does when some are.
LEMMA CompactedSome ==
    ASSUME HeapInv(heap, border), border \in Nat, Live = UsedOf(heap), Live # {},
           NEW h, h = Compacted
    PROVE  MovedHeap(h)
<1>1. PICK U \in Nat : U = SumSizes(heap, Live) /\ heap.used = U /\ U <= border
  BY MovedProps
<1>2. PICK m : m = MovedBlocks
  OBVIOUS
<1>3. PICK none : none = <<>>
  OBVIOUS
<1>4. none \in Seq(Nat) /\ none = <<>>
  BY <1>3
<1>5. heap.end = border /\ heap.base = 0 /\ Record(heap)
  BY DEF HeapInv, Whole, Loose
<1>6. PICK front : front = [heap EXCEPT !.blocks = m, !.used = U, !.lists = <<none>>]
  OBVIOUS
<1>7. /\ Record(front) /\ front.blocks = m /\ front.used = U /\ front.lists = <<none>>
      /\ front.base = 0 /\ front.end = border
  BY <1>5, <1>6 DEF Record
<1>8. ASSUME U # border
      PROVE  \E k \in Block : /\ k = Header(border - U, PrevAt(U), FALSE, Nobody)
                              /\ ~k.used /\ k.size = border - U /\ k.prev = PrevAt(U)
  <2>1. border - U \in Nat
    BY <1>1
  <2>2. PrevAt(U) \in Nat
    <3>1. CASE U = 0
      BY <3>1 DEF PrevAt
    <3>2. CASE U # 0
      <4>1. PICK c \in Live : PrevAt(U) = heap.blocks[c].size
        BY <1>1, <3>2, PrevAtProps
      <4>2. heap.blocks[c] \in Block
        BY DEF HeapInv, Whole, Loose, UsedOf
      <4> QED  BY <4>1, <4>2 DEF Block
    <3> QED  BY <3>1, <3>2
  <2>3. PICK k \in Block : k = Header(border - U, PrevAt(U), FALSE, Nobody)
    BY <2>1, <2>2 DEF Header, Block, Owner
  <2>4. ~k.used /\ k.size = border - U /\ k.prev = PrevAt(U)
    BY <2>3 DEF Header
  <2> QED  BY <2>3, <2>4
<1>9. PICK s : s = IF U = border THEN front ELSE Put(front, U, Header(border - U, PrevAt(U), FALSE, Nobody))
  OBVIOUS
<1>10. h = IF s.used = s.end THEN s ELSE Insert(s, s.used)
  <2>1. h = IF U = border THEN front ELSE Insert(Put(front, U, Header(border - U, PrevAt(U), FALSE, Nobody)), U)
    <3>1. front = FrontPart
      BY <1>1, <1>2, <1>4, <1>6 DEF FrontPart
    <3> QED  BY <1>1, <1>5, <3>1, CompactedIs
  <2>2. s.used = U /\ s.end = border
    BY <1>7, <1>9 DEF Put
  <2> QED  BY <1>9, <2>1, <2>2
<1>11. /\ \A c : c \in DOMAIN m <=> \E b \in Live : c = Moved(b)
       /\ \A b \in Live :
            /\ m[Moved(b)] \in Block /\ m[Moved(b)].used
            /\ m[Moved(b)].size = heap.blocks[b].size /\ m[Moved(b)].owner = heap.blocks[b].owner
            /\ m[Moved(b)].prev = PrevAt(Moved(b))
  BY <1>2, MovedBlocksProps
<1>12. \A b \in Live : Moved(b) # U
  <2>1. \A b \in Live : Moved(b) \in Nat /\ Moved(b) + heap.blocks[b].size <= U
    BY <1>1, MovedProps
  <2>2. \A b \in Live : heap.blocks[b].size \in Nat \ {0}
    BY DEF HeapInv, Whole, Loose, Chain, UsedOf
  <2> QED  BY <2>1, <2>2
<1>13. InFront(s, U) /\ s.base = 0 /\ s.lists = <<none>>
  <2>1. CASE U = border
    <3>1. s = front
      BY <1>9, <2>1
    <3> QED  BY <1>7, <1>11, <2>1, <3>1 DEF InFront
  <2>2. CASE U # border
    <3>1. PICK k \in Block : /\ k = Header(border - U, PrevAt(U), FALSE, Nobody)
                             /\ ~k.used /\ k.size = border - U /\ k.prev = PrevAt(U)
      BY <1>8, <2>2
    <3>2. s = Put(front, U, k)
      BY <1>9, <2>2, <3>1
    <3>3. /\ OnlyBlocks(front, s)
          /\ DOMAIN s.blocks = DOMAIN m \cup {U} /\ s.blocks[U] = k
          /\ \A c \in DOMAIN m : c # U => s.blocks[c] = m[c]
      BY <1>7, <3>2, PutProps
    <3>4. \A b \in Live : s.blocks[Moved(b)] = m[Moved(b)]
      BY <1>11, <1>12, <3>3
    <3>5. Record(s) /\ s.used = U /\ s.end = border /\ s.base = 0 /\ s.lists = <<none>>
      BY <1>7, <3>3 DEF OnlyBlocks
    <3>6. \A c : c \in DOMAIN s.blocks <=> (\E b \in Live : c = Moved(b)) \/ (U # border /\ c = U)
      BY <1>11, <2>2, <3>3
    <3> QED  BY <1>11, <3>1, <3>3, <3>4, <3>5, <3>6 DEF InFront
  <2> QED  BY <2>1, <2>2
<1>14. s.end = border /\ s.used = U
  BY <1>13 DEF InFront
<1>15. Packed(s)
  BY <1>1, <1>13, FrontPacked
<1>16. HeapInv(h, border) /\ Packed(h) /\ h.blocks = s.blocks /\ h.used = U
  BY <1>4, <1>10, <1>13, <1>14, <1>15, PackedListed
<1>17. \A c : c \in UsedOf(h) <=> \E b \in Live : c = Moved(b)
  BY <1>13, <1>16 DEF UsedOf, InFront
<1>18. \A b \in Live : /\ h.blocks[Moved(b)].size = heap.blocks[b].size
                       /\ h.blocks[Moved(b)].owner = heap.blocks[b].owner
  BY <1>13, <1>16 DEF InFront
<1> QED  BY <1>1, <1>16, <1>17, <1>18 DEF MovedHeap

\* Compaction leaves what it should.
LEMMA CompactedMoves ==
    ASSUME HeapInv(heap, border), border \in Nat, border >= MinHeapBlock, Live = UsedOf(heap)
    PROVE  MovedHeap(Compacted)
BY CompactedNone, CompactedSome
-----------------------------------------------------------------------------
(* The end of the heap *)

\* An area with the same used blocks.
SameUsed(h, t) ==
    \A b : /\ b \in UsedOf(t) <=> b \in UsedOf(h)
           /\ b \in UsedOf(h) => /\ t.blocks[b].size = h.blocks[b].size
                                 /\ t.blocks[b].owner = h.blocks[b].owner

\* What is known of a packed area whose free room begins at U.
LEMMA PackedProps ==
    ASSUME NEW h, Packed(h)
    PROVE  /\ h.used \in Nat /\ h.end \in Nat /\ h.used <= h.end
           /\ \A b \in DOMAIN h.blocks :
                 /\ b \in Nat /\ b <= h.used /\ h.blocks[b] \in Block
                 /\ h.blocks[b].size \in Nat \ {0} /\ h.blocks[b].size >= MinHeapBlock
                 /\ (h.blocks[b].used <=> b < h.used)
                 /\ b < h.used => b + h.blocks[b].size <= h.used
           /\ 0 \in DOMAIN h.blocks
<1>1. PICK U \in Nat, e \in Nat : U = h.used /\ e = h.end /\ U <= e
  BY DEF Packed, Chain
<1>2. PICK f : f = h.blocks
  OBVIOUS
<1>3. \A b \in DOMAIN f :
         /\ b \in Nat /\ b <= U /\ f[b] \in Block
         /\ f[b].size \in Nat \ {0} /\ f[b].size >= MinHeapBlock
         /\ (f[b].used <=> b < U)
  BY <1>1, <1>2 DEF Packed, Chain
<1>4. ASSUME NEW b \in DOMAIN f, b < U
      PROVE  b + f[b].size <= U
  <2>1. CASE U = e
    BY <1>1, <1>2, <2>1 DEF Packed, Chain
  <2>2. CASE U # e
    BY <1>1, <1>2, <1>4, <2>2 DEF Packed, Chain
  <2> QED  BY <2>1, <2>2
<1>5. 0 \in DOMAIN f
  BY <1>2 DEF Packed, Chain
<1> QED  BY <1>1, <1>2, <1>3, <1>4, <1>5

\* The heap grows: its last block, which is free, grows with it.
LEMMA HeapGrows ==
    ASSUME NEW e \in Nat, NEW h, HeapInv(h, e), Packed(h), NEW n \in Nat, n > e, CanEnd(h, n),
           NEW t, t = HeapUpTo(h, n)
    PROVE  HeapInv(t, n) /\ Packed(t) /\ SameUsed(h, t)
<1>1. PICK f : f = h.blocks
  OBVIOUS
<1>2. h.end = e /\ h.base = 0 /\ Record(h) /\ Chain(f, 0, e) /\ Len(h.lists) = 1
  BY <1>1 DEF HeapInv, Whole, Loose
<1>3. PICK U \in Nat : U = h.used /\ U <= e
  BY <1>2 DEF Packed
<1>4. /\ \A b \in DOMAIN f : /\ b \in Nat /\ b <= U /\ f[b] \in Block /\ f[b].size \in Nat \ {0} /\ f[b].size >= MinHeapBlock
                             /\ (f[b].used <=> b < U)
                             /\ b < U => b + f[b].size <= U
      /\ 0 \in DOMAIN f
  BY <1>1, <1>3, PackedProps
<1>5. \A b \in TopBlock(h) : b = U /\ b \in DOMAIN f /\ b + f[b].size = e
  <2>1. \A b \in TopBlock(h) : b \in FreeOf(h)
    BY DEF TopBlock, FreeOf, IsUsed
  <2> QED  BY <1>1, <1>2, <1>3, <2>1, PackedCounted DEF FreeOf
<1>6. TopBlock(h) # {}
  BY <1>2 DEF CanEnd
<1>7. PICK T \in SUBSET Nat : T = TopBlock(h)
  BY <1>5
<1>8. U \in T /\ \A b \in T : b = U
  BY <1>5, <1>6, <1>7
<1>9. Max(T) = U
  <2>1. Max(T) \in T
    BY <1>8, Greatest
  <2> QED  BY <1>8, <2>1
<1>10. U \in DOMAIN f /\ U + f[U].size = e /\ ~f[U].used
  BY <1>4, <1>5, <1>7, <1>8
<1>11. U < e /\ U < n
  BY <1>4, <1>10
<1>12. PICK k \in Nat \ {0} : k = n - U
  BY <1>11
<1>13. k >= MinHeapBlock
  <2>1. f[U].size \in Nat /\ f[U].size >= MinHeapBlock
    BY <1>4, <1>10
  <2> QED  BY <1>10, <1>12, <2>1, Scale
<1>14. PICK g : g = [f EXCEPT ![U].size = k]
  OBVIOUS
<1>15. t = [h EXCEPT !.end = n, !.blocks = g]
  BY <1>1, <1>2, <1>7, <1>9, <1>12, <1>14 DEF HeapUpTo
<1>16. /\ Record(t) /\ t.blocks = g /\ t.used = U /\ t.lists = h.lists /\ t.base = 0 /\ t.end = n
  BY <1>2, <1>3, <1>15 DEF Record
<1>17. /\ DOMAIN g = DOMAIN f /\ g[U].size = k /\ g[U].prev = f[U].prev /\ ~g[U].used /\ g[U] \in Block
       /\ \A b \in DOMAIN f : b # U => g[b] = f[b]
  BY <1>4, <1>10, <1>14 DEF Block
<1>18. ASSUME NEW b \in DOMAIN f, b # U
       PROVE  b < U /\ b + f[b].size <= U /\ b + f[b].size \in DOMAIN f
  <2>1. b < U /\ b + f[b].size <= U
    BY <1>4, <1>18
  <2>2. b + f[b].size \in DOMAIN f \cup {e}
    BY <1>2 DEF Chain
  <2>3. b + f[b].size \in Nat
    BY <1>4
  <2>4. b + f[b].size # e
    BY <1>11, <2>1, <2>3
  <2> QED  BY <2>1, <2>2, <2>4
<1>19. Chain(g, 0, n)
  <2>1. ASSUME NEW b \in DOMAIN g
        PROVE  /\ g[b].size \in Nat \ {0} /\ g[b].prev \in Nat /\ 0 <= b
               /\ b + g[b].size <= n /\ b + g[b].size \in DOMAIN g \cup {n}
    <3>1. CASE b = U
      BY <1>12, <1>17, <3>1 DEF Block
    <3>2. CASE b # U
      <4>1. g[b] = f[b] /\ b + f[b].size <= U /\ b + f[b].size \in DOMAIN f
        BY <1>17, <1>18, <2>1, <3>2
      <4>2. f[b].size \in Nat \ {0} /\ f[b].prev \in Nat /\ b \in Nat
        BY <1>4, <1>17, <2>1 DEF Block
      <4> QED  BY <1>11, <1>17, <4>1, <4>2
    <3> QED  BY <3>1, <3>2
  <2>2. ASSUME NEW b \in DOMAIN g, NEW c \in DOMAIN g, b < c
        PROVE  b + g[b].size <= c
    <3>1. b # U
      BY <1>4, <1>17, <2>2
    <3>2. b + f[b].size <= c
      BY <1>2, <1>17, <2>2 DEF Chain
    <3> QED  BY <1>17, <3>1, <3>2
  <2>3. g[0].prev = 0
    BY <1>2, <1>4, <1>17 DEF Chain
  <2>4. ASSUME NEW c \in DOMAIN g \ {0}
        PROVE  c - g[c].prev \in DOMAIN g /\ g[c - g[c].prev].size = g[c].prev
    <3>1. g[c].prev = f[c].prev
      BY <1>17, <2>4
    <3>2. PICK b \in DOMAIN f : b = c - f[c].prev /\ f[b].size = f[c].prev
      BY <1>2, <1>17, <2>4 DEF Chain
    <3>3. b # U
      <4>1. PICK x \in Nat, y \in Nat, z \in Nat \ {0} : x = c /\ y = b /\ z = f[b].size
        BY <1>4, <1>17, <2>4
      <4>2. y = x - z /\ x <= U
        BY <1>4, <1>17, <2>4, <3>2, <4>1
      <4> QED  BY <4>1, <4>2
    <3>4. g[b] = f[b]
      BY <1>17, <3>3
    <3> QED  BY <1>17, <3>1, <3>2, <3>4
  <2>5. DOMAIN g \subseteq Nat /\ 0 \in DOMAIN g
    BY <1>4, <1>17
  <2> QED  BY <2>1, <2>2, <2>3, <2>4, <2>5 DEF Chain
<1>20. ASSUME NEW b \in DOMAIN g
       PROVE  g[b] \in Block /\ g[b].size >= MinHeapBlock /\ b <= U /\ (g[b].used <=> b < U)
  <2>1. CASE b = U
    BY <1>13, <1>17, <2>1
  <2>2. CASE b # U
    BY <1>4, <1>17, <1>20, <2>2
  <2> QED  BY <2>1, <2>2
<1>21. Packed(t)
  <2>1. U <= n /\ U \in DOMAIN g
    BY <1>10, <1>11, <1>17
  <2> QED  BY <1>16, <1>19, <1>20, <2>1 DEF Packed
<1>22. \A b : /\ b \in FreeOf(t) <=> b \in FreeOf(h)
              /\ b \in UsedOf(t) <=> b \in UsedOf(h)
              /\ b \in UsedOf(h) => g[b] = f[b]
  BY <1>1, <1>4, <1>10, <1>16, <1>17 DEF FreeOf, UsedOf
<1>23. h.lists \in Seq(Seq(Nat)) /\ IsInjective(h.lists[1]) /\ Range(h.lists[1]) = FreeOf(h)
  <2>1. Whole(h, 0, MinHeapBlock)
    BY DEF HeapInv
  <2>2. /\ IsInjective(h.lists[1])
        /\ \A b : b \in Range(h.lists[1]) <=> b \in FreeOf(h) /\ ListIndex(h, h.blocks[b].size) = 1
    BY <1>2, <2>1, ListProps
  <2>3. \A z : ListIndex(h, z) = 1
    BY <1>2 DEF ListIndex
  <2>4. h.lists \in Seq(Seq(Nat))
    BY <2>1 DEF Whole, Loose, Filed
  <2> QED  BY <2>2, <2>3, <2>4
<1>24. FreeOf(t) = FreeOf(h)
  BY <1>22
<1>25. HeapInv(t, n)
  BY <1>2, <1>16, <1>21, <1>23, <1>24, PackedWhole
<1> QED  BY <1>1, <1>16, <1>21, <1>22, <1>25 DEF SameUsed

\* The used blocks are kept, and the room behind them up to the new end is one free block.
KeptPart(h) == {b \in DOMAIN h.blocks : b < h.used}
LastKept(h) == IF KeptPart(h) = {} THEN 0 ELSE SizeAt(h, Max(KeptPart(h)))

\* The last kept block ends where the free room begins.
LEMMA LastKeptProps ==
    ASSUME NEW h, Packed(h)
    PROVE  /\ LastKept(h) \in Nat
           /\ h.used # 0 => \E b \in KeptPart(h) : b + h.blocks[b].size = h.used /\ LastKept(h) = h.blocks[b].size
<1>1. PICK f : f = h.blocks
  OBVIOUS
<1>2. PICK U \in Nat : U = h.used /\ U <= h.end /\ h.end \in Nat
  BY PackedProps
<1>3. /\ \A b \in DOMAIN f : /\ b \in Nat /\ b <= U /\ f[b].size \in Nat \ {0}
                             /\ b < U => b + f[b].size <= U
      /\ 0 \in DOMAIN f
  BY <1>1, <1>2, PackedProps
<1>4. PICK K \in SUBSET Nat : K = KeptPart(h)
  BY <1>1, <1>3 DEF KeptPart
<1>5. \A b : b \in K <=> b \in DOMAIN f /\ b < U
  BY <1>1, <1>2, <1>4 DEF KeptPart
<1>6. CASE K = {}
  <2>1. U = 0
    BY <1>3, <1>5, <1>6
  <2> QED  BY <1>2, <1>4, <1>6, <2>1 DEF LastKept
<1>7. CASE K # {}
  <2>1. \A b \in K : b <= U
    BY <1>3, <1>5
  <2>2. Max(K) \in K /\ \A b \in K : b <= Max(K)
    BY <1>7, <2>1, Greatest
  <2>3. PICK m \in K : m = Max(K) /\ \A b \in K : b <= m
    BY <2>2
  <2>4. LastKept(h) = f[m].size
    BY <1>1, <1>4, <1>7, <2>3 DEF LastKept, SizeAt
  <2>5. PICK x \in Nat, k \in Nat \ {0} : x = m /\ k = f[m].size /\ x < U /\ x + k <= U
    BY <1>3, <1>5
  <2>6. x + k \in DOMAIN f \cup {h.end}
    BY <1>1, <1>5, <2>5 DEF Packed, Chain
  <2>7. x + k = U
    <3>1. CASE x + k \in DOMAIN f
      <4>1. x + k < U => x + k \in K
        BY <1>5, <3>1
      <4>2. ~(x + k <= m)
        BY <2>5
      <4> QED  BY <2>3, <2>5, <4>1, <4>2
    <3>2. CASE x + k = h.end
      BY <1>2, <2>5, <3>2
    <3> QED  BY <2>6, <3>1, <3>2
  <2> QED  BY <1>1, <1>2, <1>4, <2>3, <2>4, <2>5, <2>7
<1> QED  BY <1>6, <1>7

\* The parts of HeapUpTo when the heap becomes smaller.
CutAt(h, s, n) ==
    /\ Record(s) /\ s.used = h.used /\ s.end = n
    /\ \A b : b \in DOMAIN s.blocks <=> b \in KeptPart(h) \/ (h.used # n /\ b = h.used)
    /\ \A b \in KeptPart(h) : s.blocks[b] = h.blocks[b]
    /\ h.used # n => /\ s.blocks[h.used] \in Block /\ ~s.blocks[h.used].used
                     /\ s.blocks[h.used].size = n - h.used /\ s.blocks[h.used].prev = LastKept(h)

\* Such an area is packed.
LEMMA CutPacked ==
    ASSUME NEW h, Packed(h), NEW n \in Nat \ {0}, n < h.end, n = h.used \/ n >= h.used + MinHeapBlock,
           NEW s, CutAt(h, s, n)
    PROVE  Packed(s)
<1>1. PICK f : f = h.blocks
  OBVIOUS
<1>2. PICK g : g = s.blocks
  OBVIOUS
<1>3. PICK U \in Nat : U = h.used
  BY PackedProps
<1>4. PICK e \in Nat : e = h.end /\ n < e
  BY PackedProps
<1>5. /\ \A b \in DOMAIN f : /\ b \in Nat /\ b <= U /\ f[b] \in Block /\ f[b].size \in Nat \ {0} /\ f[b].size >= MinHeapBlock
                             /\ (f[b].used <=> b < U)
                             /\ b < U => b + f[b].size <= U
      /\ 0 \in DOMAIN f
  BY <1>1, <1>3, PackedProps
<1>6. U <= n /\ (U # n => n - U \in Nat \ {0} /\ n - U >= MinHeapBlock) /\ MinHeapBlock \in Nat \ {0}
  BY <1>3, Scale
<1>7. Chain(f, 0, e)
  BY <1>1, <1>4 DEF Packed
<1>8. Record(s) /\ s.used = U /\ s.end = n
  BY <1>3 DEF CutAt
<1>9. \A b : b \in DOMAIN g <=> (b \in DOMAIN f /\ b < U) \/ (U # n /\ b = U)
  BY <1>1, <1>2, <1>3 DEF CutAt, KeptPart
<1>10. \A b \in DOMAIN f : b < U => g[b] = f[b]
  BY <1>1, <1>2, <1>3 DEF CutAt, KeptPart
<1>11. U # n => g[U] \in Block /\ ~g[U].used /\ g[U].size = n - U /\ g[U].prev = LastKept(h)
  BY <1>2, <1>3 DEF CutAt
<1>12. ASSUME NEW b \in DOMAIN g
       PROVE  /\ b \in Nat /\ g[b] \in Block /\ g[b].size \in Nat \ {0} /\ g[b].size >= MinHeapBlock
              /\ b <= U /\ (g[b].used <=> b < U) /\ b + g[b].size <= n
  <2>1. CASE U # n /\ b = U
    BY <1>6, <1>11, <2>1
  <2>2. CASE b \in DOMAIN f /\ b < U
    BY <1>5, <1>6, <1>10, <2>2
  <2> QED  BY <1>9, <2>1, <2>2
<1>13. ASSUME NEW b \in DOMAIN g
       PROVE  b + g[b].size \in DOMAIN g \cup {n}
  <2>1. CASE U # n /\ b = U
    BY <1>6, <1>11, <2>1
  <2>2. CASE b \in DOMAIN f /\ b < U
    <3>1. g[b] = f[b] /\ b + f[b].size <= U /\ b + f[b].size \in DOMAIN f \cup {e}
      BY <1>5, <1>7, <1>10, <2>2 DEF Chain
    <3>2. PICK z \in Nat : z = b + f[b].size
      BY <1>5, <2>2
    <3>3. z <= U /\ z # e
      BY <1>4, <1>6, <3>1, <3>2
    <3>4. z \in DOMAIN f
      BY <3>1, <3>2, <3>3
    <3>5. z < U \/ z = U
      BY <3>3
    <3> QED  BY <1>9, <3>1, <3>2, <3>4, <3>5
  <2> QED  BY <1>9, <2>1, <2>2
<1>14. ASSUME NEW b \in DOMAIN g, NEW c \in DOMAIN g, b < c
       PROVE  b + g[b].size <= c
  <2>1. b \in Nat /\ c \in Nat /\ b <= U /\ c <= U
    BY <1>12
  <2>2. b < U
    BY <1>14, <2>1
  <2>3. b \in DOMAIN f /\ g[b] = f[b] /\ b + f[b].size <= U
    BY <1>5, <1>9, <1>10, <2>2
  <2>4. c = U \/ c \in DOMAIN f
    BY <1>9
  <2> QED  BY <1>7, <1>14, <2>3, <2>4 DEF Chain
<1>15. U # 0 \/ U # n
  OBVIOUS
<1>16. 0 \in DOMAIN g
  BY <1>5, <1>9, <1>15
<1>17. g[0].prev = 0
  <2>1. CASE U = 0
    <3>1. KeptPart(h) = {}
      <4>1. \A b \in DOMAIN h.blocks : ~(b < 0)
        BY <1>1, <1>5
      <4> QED  BY <1>3, <2>1, <4>1 DEF KeptPart
    <3> QED  BY <1>11, <1>15, <2>1, <3>1 DEF LastKept
  <2>2. CASE U # 0
    BY <1>5, <1>7, <1>10, <2>2 DEF Chain
  <2> QED  BY <2>1, <2>2
<1>18. ASSUME NEW c \in DOMAIN g \ {0}
       PROVE  c - g[c].prev \in DOMAIN g /\ g[c - g[c].prev].size = g[c].prev
  <2>1. CASE U # n /\ c = U
    <3>1. PICK b \in KeptPart(h) : b + f[b].size = U /\ LastKept(h) = f[b].size
      BY <1>1, <1>3, <1>18, <2>1, LastKeptProps
    <3>2. b \in DOMAIN f /\ b < U
      BY <1>1, <1>3 DEF KeptPart
    <3>3. PICK x \in Nat, k \in Nat : x = b /\ k = f[b].size
      BY <1>5, <3>2
    <3>4. c - g[c].prev = b
      <4>1. x + k = U /\ g[c].prev = k
        BY <1>11, <2>1, <3>1, <3>3
      <4>2. U - k = x
        BY <4>1
      <4> QED  BY <2>1, <3>3, <4>1, <4>2
    <3> QED  BY <1>9, <1>10, <1>11, <2>1, <3>1, <3>2, <3>4
  <2>2. CASE c \in DOMAIN f /\ c < U
    <3>1. g[c] = f[c]
      BY <1>10, <2>2
    <3>2. PICK b \in DOMAIN f : b = c - f[c].prev /\ f[b].size = f[c].prev
      BY <1>7, <1>18, <2>2 DEF Chain
    <3>3. b < U
      <4>1. f[c].prev \in Nat /\ c \in Nat /\ b \in Nat
        BY <1>5, <2>2 DEF Block
      <4> QED  BY <2>2, <3>2, <4>1
    <3> QED  BY <1>9, <1>10, <3>1, <3>2, <3>3
  <2> QED  BY <1>9, <2>1, <2>2
<1>19. DOMAIN g \subseteq Nat /\ \A b \in DOMAIN g : 0 <= b /\ g[b].prev \in Nat
  BY <1>12 DEF Block
<1>20. Chain(g, 0, n)
  BY <1>12, <1>13, <1>14, <1>16, <1>17, <1>18, <1>19 DEF Chain
<1>21. U # n => U \in DOMAIN g
  BY <1>9
<1> QED  BY <1>2, <1>6, <1>8, <1>12, <1>20, <1>21 DEF Packed

\* The heap shrinks: it is cut off behind the used blocks.
LEMMA HeapShrinks ==
    ASSUME NEW e \in Nat, NEW h, HeapInv(h, e), Packed(h), NEW n \in Nat \ {0}, n < e, CanEnd(h, n),
           NEW t, t = HeapUpTo(h, n)
    PROVE  HeapInv(t, n) /\ Packed(t) /\ SameUsed(h, t)
<1>1. h.end = e /\ h.base = 0 /\ Record(h) /\ ~(n > h.end)
  BY DEF HeapInv, Whole, Loose
<1>2. PICK U \in Nat : U = h.used
  BY PackedProps
<1>3. PICK f : f = h.blocks
  OBVIOUS
<1>4. n = U \/ n >= U + MinHeapBlock
  <2>1. n - U = 0 \/ n - U >= MinHeapBlock
    BY <1>1, <1>2 DEF CanEnd
  <2> QED  BY <1>2, <2>1, Scale
<1>5. PICK none : none = <<>>
  OBVIOUS
<1>6. none \in Seq(Nat) /\ none = <<>>
  BY <1>5
<1>7. PICK K : K = KeptPart(h)
  OBVIOUS
<1>8. PICK kf : kf = [b \in K |-> f[b]]
  OBVIOUS
<1>9. PICK p \in Nat : p = LastKept(h)
  BY LastKeptProps
<1>10. PICK cut : cut = [h EXCEPT !.end = n, !.lists = <<none>>, !.blocks = kf]
  OBVIOUS
<1>11. /\ Record(cut) /\ cut.blocks = kf /\ cut.used = U /\ cut.lists = <<none>>
       /\ cut.base = 0 /\ cut.end = n
  BY <1>1, <1>2, <1>10 DEF Record
<1>12. DOMAIN kf = K /\ \A b \in K : kf[b] = f[b]
  BY <1>8
<1>13. PICK s : s = IF n = U THEN cut ELSE Put(cut, U, Header(n - U, p, FALSE, Nobody))
  OBVIOUS
<1>14. t = IF n = U THEN cut ELSE Insert(Put(cut, U, Header(n - U, p, FALSE, Nobody)), U)
  <2>1. h.used = U /\ h.blocks = f
    BY <1>2, <1>3
  <2>2. cut = [h EXCEPT !.end = n, !.lists = <<<<>>>>, !.blocks = [b \in K |-> h.blocks[b]]]
    BY <1>3, <1>6, <1>8, <1>10
  <2>3. {b \in DOMAIN h.blocks : b < h.used} = K
    BY <1>7 DEF KeptPart
  <2>4. IF K = {} THEN p = 0 ELSE p = SizeAt(h, Max(K))
    BY <1>7, <1>9 DEF LastKept
  <2> QED  BY <1>1, <2>1, <2>2, <2>3, <2>4 DEF HeapUpTo
<1>15. K \subseteq DOMAIN f /\ \A b \in K : b \in Nat /\ b < U
  BY <1>2, <1>3, <1>7, PackedProps DEF KeptPart
<1>16. CutAt(h, s, n) /\ s.base = 0 /\ s.lists = <<none>>
  <2>1. CASE n = U
    <3>1. s = cut
      BY <1>13, <2>1
    <3> QED  BY <1>2, <1>3, <1>7, <1>11, <1>12, <2>1, <3>1 DEF CutAt
  <2>2. CASE n # U
    <3>1. n - U \in Nat
      BY <1>4, <2>2, Scale
    <3>2. PICK k \in Block : k = Header(n - U, p, FALSE, Nobody)
      BY <3>1 DEF Header, Block, Owner
    <3>3. ~k.used /\ k.size = n - U /\ k.prev = p
      BY <3>2 DEF Header
    <3>4. s = Put(cut, U, k)
      BY <1>13, <2>2, <3>2
    <3>5. /\ OnlyBlocks(cut, s)
          /\ DOMAIN s.blocks = K \cup {U} /\ s.blocks[U] = k
          /\ \A c \in K : c # U => s.blocks[c] = kf[c]
      BY <1>11, <1>12, <3>4, PutProps
    <3>6. Record(s) /\ s.used = U /\ s.end = n /\ s.base = 0 /\ s.lists = <<none>>
      BY <1>11, <3>5 DEF OnlyBlocks
    <3>7. \A b \in K : s.blocks[b] = f[b]
      <4>1. \A b \in K : b # U
        BY <1>15
      <4> QED  BY <1>12, <3>5, <4>1
    <3> QED  BY <1>2, <1>3, <1>7, <1>9, <2>2, <3>2, <3>3, <3>5, <3>6, <3>7 DEF CutAt
  <2> QED  BY <2>1, <2>2
<1>17. s.used = U /\ s.end = n
  BY <1>2, <1>16 DEF CutAt
<1>18. Packed(s)
  BY <1>1, <1>2, <1>4, <1>16, CutPacked
<1>19. t = IF s.used = s.end THEN s ELSE Insert(s, s.used)
  BY <1>13, <1>14, <1>17
<1>20. HeapInv(t, n) /\ Packed(t) /\ t.blocks = s.blocks /\ t.used = U
  BY <1>6, <1>16, <1>17, <1>18, <1>19, PackedListed
<1>21. \A b : b \in UsedOf(t) <=> b \in K
  <2>1. \A b \in DOMAIN s.blocks : s.blocks[b].used <=> b < U
    BY <1>17, <1>18, PackedProps
  <2>2. \A b \in DOMAIN s.blocks : b \in K \/ b = U
    BY <1>2, <1>7, <1>16 DEF CutAt
  <2>3. \A b \in K : b \in DOMAIN s.blocks
    BY <1>7, <1>16 DEF CutAt
  <2> QED  BY <1>15, <1>20, <2>1, <2>2, <2>3 DEF UsedOf
<1>22. \A b : b \in UsedOf(h) <=> b \in K
  BY <1>2, <1>7, PackedProps DEF UsedOf, KeptPart
<1>23. \A b \in K : t.blocks[b] = h.blocks[b]
  BY <1>7, <1>16, <1>20 DEF CutAt
<1> QED  BY <1>20, <1>21, <1>22, <1>23 DEF SameUsed

\* Wherever the heap is made to end, it stays whole, packed, and with the same used blocks.
LEMMA HeapMovesEnd ==
    ASSUME NEW e \in Nat, NEW h, HeapInv(h, e), Packed(h), NEW n \in Nat \ {0}, n # e, CanEnd(h, n)
    PROVE  HeapInv(HeapUpTo(h, n), n) /\ Packed(HeapUpTo(h, n)) /\ SameUsed(h, HeapUpTo(h, n))
<1>1. CASE n > e
  BY <1>1, HeapGrows
<1>2. CASE n < e
  BY <1>2, HeapShrinks
<1> QED  BY <1>1, <1>2
-----------------------------------------------------------------------------
(* The beginning of the VM area *)

\* A block is added below the first one.
LEMMA ChainBelow ==
    ASSUME NEW f, NEW first, NEW end, Chain(f, first, end), NEW base \in Nat, base < first,
           NEW g, \A c : c \in DOMAIN g <=> c \in DOMAIN f \/ c = base, g[base].size = first - base, g[base].prev = 0,
           \A c \in DOMAIN f : /\ g[c].size = f[c].size
                               /\ g[c].prev = IF c = first THEN first - base ELSE f[c].prev
    PROVE  Chain(g, base, end) /\ base \notin DOMAIN f
<1>1. /\ DOMAIN f \subseteq Nat /\ first \in DOMAIN f /\ first \in Nat /\ end \in Nat
      /\ \A b \in DOMAIN f : /\ f[b].size \in Nat \ {0} /\ f[b].prev \in Nat /\ first <= b /\ b \in Nat
                             /\ b + f[b].size <= end /\ b + f[b].size \in DOMAIN f \cup {end}
      /\ \A b, c \in DOMAIN f : b < c => b + f[b].size <= c
      /\ \A b \in DOMAIN f \ {first} : b - f[b].prev \in DOMAIN f /\ f[b - f[b].prev].size = f[b].prev
  BY DEF Chain
<1>2. \A b \in DOMAIN f : base < b
  BY <1>1
<1>3. base \notin DOMAIN f
  BY <1>2
<1>4. PICK k \in Nat \ {0} : k = first - base
  BY <1>1
<1>5. base + k = first
  BY <1>1, <1>4
<1>6. ASSUME NEW b \in DOMAIN g
      PROVE  /\ g[b].size \in Nat \ {0} /\ g[b].prev \in Nat /\ base <= b
             /\ b + g[b].size <= end /\ b + g[b].size \in DOMAIN g \cup {end}
  <2>1. CASE b = base
    <3>1. first <= end
      BY <1>1
    <3> QED  BY <1>1, <1>4, <1>5, <2>1, <3>1
  <2>2. CASE b \in DOMAIN f
    <3>1. g[b].size = f[b].size /\ (g[b].prev = k \/ g[b].prev = f[b].prev)
      BY <1>4, <2>2
    <3>2. base <= b
      BY <1>1, <1>2, <2>2
    <3> QED  BY <1>1, <2>2, <3>1, <3>2
  <2> QED  BY <2>1, <2>2
<1>7. ASSUME NEW b \in DOMAIN g, NEW c \in DOMAIN g, b < c
      PROVE  b + g[b].size <= c
  <2>1. c \in DOMAIN f
    <3>1. CASE c = base
      <4>1. CASE b = base
        BY <1>7, <3>1, <4>1
      <4>2. CASE b \in DOMAIN f
        BY <1>1, <1>2, <1>7, <3>1, <4>2
      <4> QED  BY <4>1, <4>2
    <3> QED  BY <3>1
  <2>2. CASE b = base
    BY <1>1, <1>4, <1>5, <2>1, <2>2
  <2>3. CASE b \in DOMAIN f
    BY <1>1, <1>7, <2>1, <2>3
  <2> QED  BY <2>2, <2>3
<1>8. ASSUME NEW c \in DOMAIN g \ {base}
      PROVE  c - g[c].prev \in DOMAIN g /\ g[c - g[c].prev].size = g[c].prev
  <2>1. CASE c = first
    <3>1. g[c].prev = k /\ c - k = base
      BY <1>1, <1>4, <1>5, <2>1
    <3> QED  BY <1>4, <3>1
  <2>2. CASE c # first
    BY <1>1, <1>8, <2>2
  <2> QED  BY <2>1, <2>2
<1>9. DOMAIN g \subseteq Nat
  BY <1>1
<1> QED  BY <1>1, <1>3, <1>6, <1>7, <1>8, <1>9 DEF Chain

\* Of the first block the low part is taken, or all of it.
LEMMA ChainCut ==
    ASSUME NEW f, NEW first, NEW end, Chain(f, first, end),
           NEW next \in DOMAIN f, next = first + f[first].size,
           NEW base \in Nat, first < base, base <= next,
           NEW g, \A c : c \in DOMAIN g <=> (c \in DOMAIN f /\ c # first) \/ c = base,
           base # next => g[base].size = next - base /\ g[base].prev = 0,
           \A c \in DOMAIN f \ {first} : /\ g[c].size = f[c].size
                                         /\ g[c].prev = IF c = next THEN next - base ELSE f[c].prev
    PROVE  Chain(g, base, end)
<1>1. /\ DOMAIN f \subseteq Nat /\ first \in DOMAIN f /\ first \in Nat /\ end \in Nat
      /\ \A b \in DOMAIN f : /\ f[b].size \in Nat \ {0} /\ f[b].prev \in Nat /\ first <= b /\ b \in Nat
                             /\ b + f[b].size <= end /\ b + f[b].size \in DOMAIN f \cup {end}
      /\ \A b, c \in DOMAIN f : b < c => b + f[b].size <= c
      /\ \A b \in DOMAIN f \ {first} : b - f[b].prev \in DOMAIN f /\ f[b - f[b].prev].size = f[b].prev
  BY DEF Chain
<1>2. next \in Nat /\ next # first /\ next <= end
  BY <1>1
<1>3. \A c \in DOMAIN f \ {first} : next <= c
  <2> TAKE c \in DOMAIN f \ {first}
  <2>1. first < c
    BY <1>1
  <2> QED  BY <1>1, <2>1
<1>4. PICK k \in Nat : k = next - base /\ base + k = next /\ (base # next => k # 0)
  BY <1>2
<1>5. ASSUME NEW b \in DOMAIN g
      PROVE  /\ g[b].size \in Nat \ {0} /\ g[b].prev \in Nat /\ base <= b
             /\ b + g[b].size <= end /\ b + g[b].size \in DOMAIN g \cup {end}
  <2>1. CASE b = base /\ base # next
    BY <1>2, <1>4, <2>1
  <2>2. CASE b \in DOMAIN f \ {first}
    <3>1. g[b].size = f[b].size /\ (g[b].prev = k \/ g[b].prev = f[b].prev)
      BY <1>4, <2>2
    <3>2. b + f[b].size # first
      BY <1>1, <2>2
    <3>3. base <= b
      BY <1>1, <1>2, <1>3, <2>2
    <3> QED  BY <1>1, <2>2, <3>1, <3>2, <3>3
  <2> QED  BY <1>2, <2>1, <2>2
<1>6. ASSUME NEW b \in DOMAIN g, NEW c \in DOMAIN g, b < c
      PROVE  b + g[b].size <= c
  <2>1. CASE b = base /\ base # next
    <3>1. c \in DOMAIN f \ {first}
      BY <1>6, <2>1
    <3>2. next <= c
      BY <1>3, <3>1
    <3>3. b + g[b].size = next
      BY <1>4, <2>1
    <3> QED  BY <3>2, <3>3
  <2>2. CASE b \in DOMAIN f \ {first}
    <3>1. next <= b /\ b \in Nat
      BY <1>1, <1>3, <2>2
    <3>2. c \in DOMAIN f
      <4>1. CASE c = base
        BY <1>2, <1>6, <3>1, <4>1
      <4> QED  BY <4>1
    <3> QED  BY <1>1, <1>6, <2>2, <3>2
  <2> QED  BY <1>2, <2>1, <2>2
<1>7. g[base].prev = 0 /\ base \in DOMAIN g
  <2>1. CASE base = next
    BY <1>2, <2>1
  <2>2. CASE base # next
    BY <2>2
  <2> QED  BY <2>1, <2>2
<1>8. ASSUME NEW c \in DOMAIN g \ {base}
      PROVE  c - g[c].prev \in DOMAIN g /\ g[c - g[c].prev].size = g[c].prev
  <2>1. CASE c = next
    <3>1. g[c].prev = k /\ c - k = base /\ base # next
      BY <1>2, <1>4, <1>8, <2>1
    <3> QED  BY <1>4, <1>7, <3>1
  <2>2. CASE c # next
    <3>1. c \in DOMAIN f \ {first} /\ g[c].prev = f[c].prev
      BY <1>8, <2>2
    <3>2. PICK b \in DOMAIN f : b = c - f[c].prev /\ f[b].size = f[c].prev
      BY <1>1, <3>1
    <3>3. b # first
      <4>1. PICK x \in Nat, y \in Nat, z \in Nat : x = c /\ y = b /\ z = f[b].size /\ z = f[c].prev
        BY <1>1, <3>1, <3>2
      <4>2. x = y + z
        BY <3>2, <4>1
      <4> QED  BY <2>2, <4>1, <4>2
    <3> QED  BY <3>1, <3>2, <3>3
  <2> QED  BY <2>1, <2>2
<1>9. DOMAIN g \subseteq Nat
  BY <1>1
<1> QED  BY <1>1, <1>5, <1>6, <1>7, <1>8, <1>9 DEF Chain

\* An area stays as it is when its blocks that are not in hand do.
LEMMA ChangedLoose ==
    ASSUME NEW s, NEW first, NEW least, NEW X, Loose(s, first, least, X),
           NEW t, Record(t), t.lists = s.lists, t.used = s.used,
           NEW start, Chain(t.blocks, start, t.end), NEW Y \in SUBSET DOMAIN t.blocks,
           \A c : c \in DOMAIN t.blocks \ Y <=> c \in DOMAIN s.blocks \ X,
           \A c \in DOMAIN s.blocks \ X : t.blocks[c].size = s.blocks[c].size /\ t.blocks[c].used = s.blocks[c].used,
           \A c \in DOMAIN t.blocks : t.blocks[c] \in Block
    PROVE  Loose(t, start, least, Y)
<1>1. PICK f : f = s.blocks
  OBVIOUS
<1>2. PICK g : g = t.blocks
  OBVIOUS
<1>3. Idle(g, Y) = Idle(f, X) /\ Taken(g, Y) = Taken(f, X)
  BY <1>1, <1>2 DEF Idle, Taken
<1>4. \A c \in Idle(f, X) \cup Taken(f, X) : g[c].size = f[c].size
  BY <1>1, <1>2 DEF Idle, Taken
<1>5. Apart(g, Y)
  BY <1>1, <1>3, <1>4 DEF Apart, Loose
<1>6. Filed(t, Y)
  BY <1>1, <1>2, <1>3, <1>4, FiledSame DEF Loose
<1>7. Counted(t, Y)
  <2>1. SumSizes(t, Taken(f, X)) = SumSizes(s, Taken(f, X))
    BY <1>1, <1>2, <1>4, SumSame
  <2> QED  BY <1>1, <1>2, <1>3, <2>1 DEF Counted, Loose
<1>8. \A c \in DOMAIN g : g[c] \in Block /\ (c \notin Y => g[c].size >= least)
  BY <1>1, <1>2 DEF Loose
<1> QED  BY <1>1, <1>2, <1>5, <1>6, <1>7, <1>8 DEF Loose

\* The VM area grows downwards: by a block, or by room too small for one.
LEMMA VmGoesDown ==
    ASSUME NEW bottom \in Nat, NEW v, VmInv(v, bottom, bottom), NEW base \in Nat, base < bottom,
           NEW t, t = VmDownTo(v, base)
    PROVE  (\E first : VmInv(t, base, first)) /\ SameUsed(v, t)
<1>1. PICK E : E = {}
  OBVIOUS
<1>2. Loose(v, bottom, MinVmBlock, E) /\ v.base = bottom /\ v.end = Total /\ Len(v.lists) = Len(Classes) + 1
  BY <1>1 DEF VmInv, Whole
<1>3. PICK least \in Nat \ {0} : least = MinVmBlock
  BY Scale
<1>4. PICK added \in Nat \ {0} : added = bottom - base
  OBVIOUS
<1>5. PICK f : f = v.blocks
  OBVIOUS
<1>6. PICK s : s = [v EXCEPT !.base = base]
  OBVIOUS
<1>7. /\ Record(v) /\ Record(s) /\ s.blocks = f /\ s.lists = v.lists /\ s.used = v.used /\ s.end = v.end /\ s.base = base
      /\ Chain(f, bottom, v.end) /\ \A c \in DOMAIN f : f[c] \in Block
  BY <1>2, <1>5, <1>6 DEF Loose, Record
<1>8. CASE added < least
  <2>1. t = s
    BY <1>2, <1>3, <1>4, <1>6, <1>8 DEF VmDownTo
  <2>2. E \in SUBSET DOMAIN s.blocks
    BY <1>1
  <2>3. Loose(s, bottom, MinVmBlock, E)
    BY <1>2, <1>5, <1>7, <2>2, ChangedLoose
  <2>4. VmInv(s, base, bottom)
    BY <1>1, <1>2, <1>3, <1>4, <1>7, <1>8, <2>3 DEF VmInv, Whole
  <2> QED  BY <1>5, <1>7, <2>1, <2>4 DEF SameUsed, UsedOf
<1>9. CASE ~(added < least)
  <2>1. PICK h \in Block : h = Header(added, 0, FALSE, Nobody)
    BY DEF Header, Block, Owner
  <2>2. h.size = added /\ h.prev = 0 /\ ~h.used
    BY <2>1 DEF Header
  <2>3. PICK s1 : s1 = Put(s, base, h)
    OBVIOUS
  <2>4. PICK s2 : s2 = Tag(s1, base)
    OBVIOUS
  <2>5. t = Coalesce(s2, base)
    BY <1>2, <1>3, <1>4, <1>6, <1>9, <2>1, <2>3, <2>4 DEF VmDownTo
  <2>6. /\ OnlyBlocks(s, s1) /\ DOMAIN s1.blocks = DOMAIN f \cup {base} /\ s1.blocks[base] = h
        /\ \A c \in DOMAIN f : c # base => s1.blocks[c] = f[c]
    BY <1>7, <2>3, PutProps
  <2>7. bottom \in DOMAIN f /\ \A c \in DOMAIN f : c \in Nat /\ bottom <= c
    BY <1>7 DEF Chain
  <2>8. base \notin DOMAIN f
    BY <2>7
  <2>9. bottom = base + s1.blocks[base].size
    BY <1>4, <2>2, <2>6
  <2>10. s1.blocks[bottom] = f[bottom] /\ f[bottom] \in Block /\ Record(s1) /\ s1.end = v.end
    BY <1>7, <2>6, <2>7 DEF OnlyBlocks
  <2>11. bottom < v.end
    BY <1>7, <2>7 DEF Chain
  <2>12. /\ OnlyBlocks(s1, s2) /\ DOMAIN s2.blocks = DOMAIN s1.blocks
         /\ \A c \in DOMAIN s1.blocks : c # bottom => s2.blocks[c] = s1.blocks[c]
         /\ s2.blocks[bottom].prev = h.size /\ s2.blocks[bottom].size = f[bottom].size
         /\ s2.blocks[bottom].used = f[bottom].used /\ s2.blocks[bottom].owner = f[bottom].owner
         /\ s2.blocks[bottom] \in Block
    <3>1. s1.blocks[base].size \in Nat /\ bottom < s1.end
      BY <2>2, <2>6, <2>10, <2>11
    <3>2. bottom < s1.end => bottom \in DOMAIN s1.blocks /\ s1.blocks[bottom] \in Block
      BY <2>6, <2>7, <2>10
    <3> QED  BY <2>4, <2>6, <2>9, <2>10, <3>1, <3>2, TagProps
  <2>13. PICK g : g = s2.blocks
    OBVIOUS
  <2>14. DOMAIN g = DOMAIN f \cup {base} /\ g[base] = h
    BY <2>6, <2>7, <2>8, <2>12, <2>13
  <2>15. ASSUME NEW c \in DOMAIN f
         PROVE  /\ g[c].size = f[c].size /\ g[c].used = f[c].used /\ g[c].owner = f[c].owner /\ g[c] \in Block
                /\ g[c].prev = IF c = bottom THEN bottom - base ELSE f[c].prev
    <3>1. CASE c = bottom
      BY <1>4, <2>2, <2>12, <2>13, <3>1
    <3>2. CASE c # bottom
      BY <1>7, <2>6, <2>8, <2>12, <2>13, <3>2
    <3> QED  BY <3>1, <3>2
  <2>16. g[base].size = bottom - base /\ g[base].prev = 0
    BY <1>4, <2>2, <2>14
  <2>17. Chain(g, base, v.end)
    <3>1. \A c : c \in DOMAIN g <=> c \in DOMAIN f \/ c = base
      BY <2>14
    <3> QED  BY <1>7, <2>15, <2>16, <3>1, ChainBelow
  <2>18. /\ Record(s2) /\ s2.lists = v.lists /\ s2.used = v.used /\ s2.end = v.end /\ s2.base = base
    BY <1>7, <2>6, <2>12 DEF OnlyBlocks
  <2>19. PICK X : X = {base}
    OBVIOUS
  <2>20. Loose(s2, base, MinVmBlock, X)
    <3>1. X \in SUBSET DOMAIN s2.blocks
      BY <2>13, <2>14, <2>19
    <3>2. \A c : c \in DOMAIN s2.blocks \ X <=> c \in DOMAIN v.blocks \ E
      BY <1>1, <1>5, <2>8, <2>13, <2>14, <2>19
    <3>3. \A c \in DOMAIN v.blocks \ E : s2.blocks[c].size = v.blocks[c].size /\ s2.blocks[c].used = v.blocks[c].used
      BY <1>5, <2>13, <2>15
    <3>4. \A c \in DOMAIN s2.blocks : s2.blocks[c] \in Block
      BY <2>13, <2>14, <2>15
    <3> QED  BY <1>2, <2>13, <2>17, <2>18, <3>1, <3>2, <3>3, <3>4, ChangedLoose
  <2>21. Coalesced(s2, t, MinVmBlock, X, base)
    BY <1>3, <1>9, <2>2, <2>5, <2>13, <2>14, <2>19 DEF Coalesced
  <2>22. Whole(t, base, MinVmBlock) /\ Emptied(s2, t, X)
    BY <1>3, <2>20, <2>21, CoalesceLoose
  <2>23. \A c : c \in UsedOf(t) <=> c \in UsedOf(v)
    <3>1. UsedOf(t) = Taken(g, X)
      BY <2>13, <2>22 DEF Emptied
    <3>2. \A c : c \in Taken(g, X) <=> c \in DOMAIN f /\ f[c].used
      BY <2>8, <2>14, <2>15, <2>19 DEF Taken
    <3> QED  BY <1>5, <3>1, <3>2 DEF UsedOf
  <2>24. \A c \in UsedOf(v) : t.blocks[c].size = f[c].size /\ t.blocks[c].owner = f[c].owner
    <3>1. \A c \in UsedOf(t) : t.blocks[c].owner = g[c].owner /\ t.blocks[c].size = g[c].size
      BY <2>13, <2>22 DEF Emptied
    <3>2. \A c \in UsedOf(v) : c \in DOMAIN f
      BY <1>5 DEF UsedOf
    <3> QED  BY <2>15, <2>23, <3>1, <3>2
  <2>25. VmInv(t, base, base)
    <3>1. t.base = base /\ t.end = Total /\ Len(t.lists) = Len(Classes) + 1
      BY <1>2, <2>18, <2>22 DEF Emptied
    <3> QED  BY <1>3, <2>22, <3>1 DEF VmInv
  <2> QED  BY <1>5, <2>23, <2>24, <2>25 DEF SameUsed
<1> QED  BY <1>8, <1>9

\* The first used block.
LEMMA LowestProps ==
    ASSUME NEW v, NEW first, NEW least, Whole(v, first, least), v.used # 0
    PROVE  LowestUsed(v) \in UsedOf(v) /\ LowestUsed(v) \in Nat /\ \A b \in UsedOf(v) : LowestUsed(v) <= b
<1>1. PICK E : E = {} /\ Loose(v, first, least, E)
  BY DEF Whole
<1>2. Chain(v.blocks, first, v.end) /\ Counted(v, E)
  BY <1>1 DEF Loose
<1>3. PICK U \in SUBSET DOMAIN v.blocks : U = UsedOf(v)
  BY DEF UsedOf
<1>4. Taken(v.blocks, E) = U
  BY <1>1, <1>3 DEF Taken, UsedOf
<1>5. U # {}
  <2>1. SumSizes(v, U) # 0
    BY <1>2, <1>4 DEF Counted
  <2> QED  BY <1>2, <2>1, SumZero
<1>6. U \in SUBSET Nat
  BY <1>2, <1>3 DEF Chain
<1>7. Min(U) \in U /\ \A x \in U : Min(U) <= x
  BY <1>5, <1>6, Least
<1>8. LowestUsed(v) = Min(U)
  BY <1>3 DEF LowestUsed, UsedOf, IsUsed
<1> QED  BY <1>3, <1>6, <1>7, <1>8

\* What is left of the first block when the border moves up, out of its list and in hand.
FirstOut(v, bottom, base, X, s, f, next) ==
    /\ bottom \in Nat /\ base \in Nat /\ bottom < base /\ base <= next
    /\ v.used # 0 /\ next = LowestUsed(v)
    /\ X = {bottom} /\ s = TakeOut(v, bottom) /\ f = v.blocks

\* The first block is free, and the first used one follows it.
LEMMA VmFirstOut ==
    ASSUME NEW v, NEW bottom, VmInv(v, bottom, bottom),
           NEW base, NEW X, NEW s, NEW f, NEW next, FirstOut(v, bottom, base, X, s, f, next)
    PROVE  /\ Loose(s, bottom, MinVmBlock, X) /\ Record(s) /\ s.blocks = f /\ s.used = v.used /\ s.end = v.end
           /\ Len(s.lists) = Len(v.lists)
           /\ Chain(f, bottom, v.end) /\ bottom \in DOMAIN f /\ ~f[bottom].used
           /\ next \in DOMAIN f /\ next \in Nat /\ f[next].used /\ next = bottom + f[bottom].size /\ next < v.end
           /\ \A c \in DOMAIN f : c \in Nat /\ (c # bottom => next <= c) /\ f[c] \in Block
<1>1. /\ bottom \in Nat /\ base \in Nat /\ bottom < base /\ base <= next
      /\ v.used # 0 /\ next = LowestUsed(v)
      /\ X = {bottom} /\ s = TakeOut(v, bottom) /\ f = v.blocks
  BY DEF FirstOut
<1> USE <1>1
<1>2. PICK E : E = {} /\ Loose(v, bottom, MinVmBlock, E) /\ Whole(v, bottom, MinVmBlock)
  BY DEF VmInv, Whole
<1>3. Chain(f, bottom, v.end) /\ \A c \in DOMAIN f : f[c] \in Block
  BY <1>2 DEF Loose
<1>4. next \in DOMAIN f /\ f[next].used /\ next \in Nat /\ \A b \in DOMAIN f : f[b].used => next <= b
  BY <1>2, LowestProps DEF UsedOf
<1>5. bottom \in DOMAIN f /\ bottom < next /\ \A c \in DOMAIN f : c \in Nat /\ f[c].size \in Nat \ {0} /\ bottom <= c
  BY <1>3, <1>4 DEF Chain
<1>6. ~f[bottom].used
  BY <1>4, <1>5
<1>7. PICK n \in Nat : n = bottom + f[bottom].size
  BY <1>5
<1>8. \A c \in DOMAIN f : c # bottom => n <= c
  <2> TAKE c \in DOMAIN f
  <2>1. c # bottom => bottom < c
    BY <1>5
  <2> QED  BY <1>3, <1>7, <2>1 DEF Chain
<1>9. n <= next
  BY <1>4, <1>5, <1>8
<1>10. next < v.end /\ n # v.end
  <2>1. next + f[next].size <= v.end /\ v.end \in Nat
    BY <1>3, <1>4 DEF Chain
  <2> QED  BY <1>4, <1>5, <1>9, <2>1
<1>11. n \in DOMAIN f
  BY <1>3, <1>5, <1>7, <1>10 DEF Chain
<1>12. f[n].used
  <2>1. Apart(f, E)
    BY <1>2 DEF Loose
  <2>2. bottom \in Idle(f, E)
    BY <1>2, <1>5, <1>6 DEF Idle
  <2> QED  BY <1>2, <1>7, <1>11, <2>1, <2>2 DEF Apart, Idle
<1>13. next = n
  BY <1>4, <1>9, <1>11, <1>12
<1>14. Unlisted(v, s, E, X, bottom)
  BY <1>2, <1>5, <1>6 DEF Unlisted, Idle
<1>15. /\ Loose(s, bottom, MinVmBlock, X)
       /\ s.blocks = v.blocks /\ s.used = v.used /\ s.base = v.base /\ s.end = v.end
       /\ Len(s.lists) = Len(v.lists)
  BY <1>2, <1>14, TakeOutLoose
<1>16. Record(s)
  BY <1>15 DEF Loose
<1> QED  BY <1>3, <1>4, <1>5, <1>6, <1>7, <1>8, <1>10, <1>13, <1>15, <1>16

\* The VM area shrinks from below, by a part of its first block or by all of it.
LEMMA VmGoesUp ==
    ASSUME NEW bottom \in Nat, NEW v, VmInv(v, bottom, bottom), NEW base \in Nat, bottom < base,
           v.used # 0, base <= LowestUsed(v), base = LowestUsed(v) \/ base + MinVmBlock <= LowestUsed(v),
           NEW t, t = VmUpFrom(v, base)
    PROVE  VmInv(t, base, base) /\ SameUsed(v, t)
<1>1. PICK E : E = {}
  OBVIOUS
<1>2. PICK X : X = {bottom}
  OBVIOUS
<1>3. PICK f : f = v.blocks
  OBVIOUS
<1>4. PICK next : next = LowestUsed(v)
  OBVIOUS
<1>5. PICK s1 : s1 = TakeOut(v, bottom)
  OBVIOUS
<1>6. /\ Loose(s1, bottom, MinVmBlock, X) /\ Record(s1) /\ s1.blocks = f /\ s1.used = v.used /\ s1.end = v.end
      /\ Len(s1.lists) = Len(v.lists)
      /\ Chain(f, bottom, v.end) /\ bottom \in DOMAIN f /\ ~f[bottom].used
      /\ next \in DOMAIN f /\ next \in Nat /\ f[next].used /\ next = bottom + f[bottom].size /\ next < v.end
      /\ \A c \in DOMAIN f : c \in Nat /\ (c # bottom => next <= c) /\ f[c] \in Block
  <2>1. FirstOut(v, bottom, base, X, s1, f, next)
    BY <1>2, <1>3, <1>4, <1>5 DEF FirstOut
  <2> QED  BY <2>1, VmFirstOut
<1>7. v.base = bottom /\ v.end = Total /\ Len(v.lists) = Len(Classes) + 1
  BY DEF VmInv
<1>8. PICK least \in Nat \ {0} : least = MinVmBlock
  BY Scale
<1>9. PICK z \in Nat : z = f[bottom].size /\ next = bottom + z
  BY <1>6 DEF Chain
<1>10. PICK k \in Nat : k = next - base /\ base + k = next
  BY <1>4, <1>6
<1>11. k = 0 \/ ~(k < least)
  BY <1>4, <1>6, <1>8, <1>10
<1>12. z - (base - bottom) = k
  BY <1>9, <1>10
<1>13. PICK gone : gone = {bottom}
  OBVIOUS
<1>14. PICK s2 : s2 = Drop(s1, gone)
  OBVIOUS
<1>15. /\ OnlyBlocks(s1, s2) /\ DOMAIN s2.blocks = DOMAIN f \ gone
       /\ \A c \in DOMAIN f \ gone : s2.blocks[c] = f[c]
  BY <1>6, <1>14, DropProps
<1>16. PICK s3 : s3 = [s2 EXCEPT !.base = base]
  OBVIOUS
<1>17. /\ Record(s3) /\ s3.blocks = s2.blocks /\ s3.lists = s1.lists /\ s3.used = s1.used /\ s3.end = v.end
       /\ s3.base = base
  BY <1>6, <1>15, <1>16 DEF OnlyBlocks, Record
<1>18. /\ \A c : c \in DOMAIN s3.blocks <=> c \in DOMAIN f /\ c # bottom
       /\ \A c \in DOMAIN f : c # bottom => s3.blocks[c] = f[c]
  BY <1>13, <1>15, <1>17
<1>19. next # bottom
  BY <1>4, <1>6
<1>20. t = IF k < least THEN [s3 EXCEPT !.blocks[next].prev = 0]
           ELSE Insert(Tag(Put(s3, base, Header(k, 0, FALSE, Nobody)), base), base)
  <2>1. SizeAt(v, v.base) = z /\ NextOf(v, v.base) = next
    BY <1>3, <1>7, <1>9 DEF SizeAt, NextOf
  <2> QED  BY <1>5, <1>7, <1>8, <1>12, <1>13, <1>14, <1>16, <2>1 DEF VmUpFrom
<1>21. CASE k < least
  <2>1. k = 0 /\ base = next
    BY <1>10, <1>11, <1>21
  <2>2. PICK g : g = [s3.blocks EXCEPT ![next].prev = 0]
    OBVIOUS
  <2>3. t = [s3 EXCEPT !.blocks = g]
    BY <1>20, <1>21, <2>2
  <2>4. /\ Record(t) /\ t.blocks = g /\ t.lists = s1.lists /\ t.used = s1.used /\ t.end = v.end /\ t.base = base
    BY <1>17, <2>3 DEF Record
  <2>5. DOMAIN g = DOMAIN s3.blocks /\ \A c \in DOMAIN s3.blocks : c # next => g[c] = s3.blocks[c]
    BY <2>2
  <2>6. s3.blocks[next] = f[next] /\ f[next] \in Block /\ next \in DOMAIN s3.blocks
    BY <1>6, <1>18, <1>19
  <2>7. /\ g[next] \in Block /\ g[next].size = f[next].size /\ g[next].used = f[next].used
        /\ g[next].owner = f[next].owner /\ g[next].prev = 0
    BY <2>2, <2>6 DEF Block
  <2>8. ASSUME NEW c \in DOMAIN f, c # bottom
        PROVE  /\ g[c].size = f[c].size /\ g[c].used = f[c].used /\ g[c].owner = f[c].owner /\ g[c] \in Block
               /\ g[c].prev = IF c = next THEN next - base ELSE f[c].prev
    <3>1. CASE c = next
      BY <1>10, <2>1, <2>7, <3>1
    <3>2. CASE c # next
      BY <1>6, <1>18, <2>5, <2>8, <3>2
    <3> QED  BY <3>1, <3>2
  <2>9. Chain(g, base, v.end)
    <3>1. \A c : c \in DOMAIN g <=> (c \in DOMAIN f /\ c # bottom) \/ c = base
      BY <1>18, <2>1, <2>5, <2>6
    <3>2. base <= next
      BY <2>1, <1>6
    <3> QED  BY <1>6, <2>1, <2>8, <3>1, <3>2, ChainCut
  <2>10. Loose(t, base, MinVmBlock, E)
    <3>1. E \in SUBSET DOMAIN t.blocks
      BY <1>1
    <3>2. \A c : c \in DOMAIN t.blocks \ E <=> c \in DOMAIN s1.blocks \ X
      BY <1>1, <1>2, <1>6, <1>18, <2>4, <2>5
    <3>3. \A c \in DOMAIN s1.blocks \ X : t.blocks[c].size = s1.blocks[c].size /\ t.blocks[c].used = s1.blocks[c].used
      BY <1>2, <1>6, <2>4, <2>8
    <3>4. \A c \in DOMAIN t.blocks : t.blocks[c] \in Block
      BY <1>18, <2>4, <2>5, <2>8
    <3> QED  BY <1>6, <2>4, <2>9, <3>1, <3>2, <3>3, <3>4, ChangedLoose
  <2>11. VmInv(t, base, base)
    <3>1. base < base + MinVmBlock /\ base <= base
      BY <1>8
    <3>2. Len(t.lists) = Len(Classes) + 1 /\ t.end = Total
      BY <1>6, <1>7, <2>4
    <3> QED  BY <1>1, <2>4, <2>10, <3>1, <3>2 DEF VmInv, Whole
  <2>12. SameUsed(v, t)
    <3>1. \A c : c \in DOMAIN g <=> c \in DOMAIN f /\ c # bottom
      BY <1>18, <2>5
    <3>2. \A c : c \in UsedOf(t) <=> c \in UsedOf(v)
      BY <1>3, <1>6, <2>4, <2>8, <3>1 DEF UsedOf
    <3>3. \A c \in UsedOf(v) : c \in DOMAIN f /\ c # bottom
      BY <1>3, <1>6 DEF UsedOf
    <3> QED  BY <1>3, <2>4, <2>8, <3>2, <3>3 DEF SameUsed
  <2> QED  BY <2>11, <2>12
<1>22. CASE ~(k < least)
  <2>1. k # 0 /\ base < next /\ base # next
    BY <1>8, <1>10, <1>22
  <2>2. PICK h \in Block : h = Header(k, 0, FALSE, Nobody)
    BY DEF Header, Block, Owner
  <2>3. h.size = k /\ h.prev = 0 /\ ~h.used
    BY <2>2 DEF Header
  <2>4. PICK s4 : s4 = Put(s3, base, h)
    OBVIOUS
  <2>5. PICK s5 : s5 = Tag(s4, base)
    OBVIOUS
  <2>6. t = Insert(s5, base)
    BY <1>20, <1>22, <2>2, <2>4, <2>5
  <2>7. base \notin DOMAIN f
    BY <1>6, <2>1
  <2>8. /\ OnlyBlocks(s3, s4) /\ DOMAIN s4.blocks = DOMAIN s3.blocks \cup {base} /\ s4.blocks[base] = h
        /\ \A c \in DOMAIN s3.blocks : c # base => s4.blocks[c] = s3.blocks[c]
    BY <1>17, <2>4, PutProps
  <2>9. /\ \A c : c \in DOMAIN s4.blocks <=> (c \in DOMAIN f /\ c # bottom) \/ c = base
        /\ \A c \in DOMAIN f : c # bottom => s4.blocks[c] = f[c]
    BY <1>18, <2>7, <2>8
  <2>10. Record(s4) /\ s4.end = v.end /\ s4.lists = s1.lists /\ s4.used = s1.used /\ s4.base = base
    BY <1>17, <2>8 DEF OnlyBlocks
  <2>11. next = base + s4.blocks[base].size /\ s4.blocks[base].size \in Nat
    BY <1>10, <2>3, <2>8
  <2>12. next \in DOMAIN s4.blocks /\ s4.blocks[next] = f[next] /\ f[next] \in Block /\ next < s4.end
    BY <1>6, <1>19, <2>9, <2>10
  <2>13. /\ OnlyBlocks(s4, s5) /\ DOMAIN s5.blocks = DOMAIN s4.blocks
         /\ \A c \in DOMAIN s4.blocks : c # next => s5.blocks[c] = s4.blocks[c]
         /\ s5.blocks[next].prev = k /\ s5.blocks[next].size = f[next].size
         /\ s5.blocks[next].used = f[next].used /\ s5.blocks[next].owner = f[next].owner
         /\ s5.blocks[next] \in Block
    <3>1. next < s4.end => next \in DOMAIN s4.blocks /\ s4.blocks[next] \in Block
      BY <2>12
    <3>2. s4.blocks[base].size = k
      BY <2>3, <2>8
    <3> QED  BY <2>5, <2>10, <2>11, <2>12, <3>1, <3>2, TagProps
  <2>14. PICK g : g = s5.blocks
    OBVIOUS
  <2>15. /\ \A c : c \in DOMAIN g <=> (c \in DOMAIN f /\ c # bottom) \/ c = base
         /\ g[base] = h
    BY <2>1, <2>8, <2>9, <2>13, <2>14
  <2>16. ASSUME NEW c \in DOMAIN f, c # bottom
         PROVE  /\ g[c].size = f[c].size /\ g[c].used = f[c].used /\ g[c].owner = f[c].owner /\ g[c] \in Block
                /\ g[c].prev = IF c = next THEN next - base ELSE f[c].prev
    <3>1. CASE c = next
      BY <1>10, <2>13, <2>14, <3>1
    <3>2. CASE c # next
      <4>1. g[c] = f[c]
        BY <2>9, <2>13, <2>14, <2>16, <3>2
      <4> QED  BY <1>6, <3>2, <4>1
    <3> QED  BY <3>1, <3>2
  <2>17. Chain(g, base, v.end)
    <3>1. base <= next
      BY <1>6, <2>1
    <3>2. base # next => g[base].size = next - base /\ g[base].prev = 0
      BY <1>10, <2>3, <2>15
    <3> QED  BY <1>6, <2>15, <2>16, <3>1, <3>2, ChainCut
  <2>18. Record(s5) /\ s5.end = v.end /\ s5.lists = s1.lists /\ s5.used = s1.used /\ s5.base = base
    BY <2>10, <2>13 DEF OnlyBlocks
  <2>19. PICK Y : Y = {base}
    OBVIOUS
  <2>20. Loose(s5, base, MinVmBlock, Y)
    <3>1. Y \in SUBSET DOMAIN s5.blocks
      BY <2>14, <2>15, <2>19
    <3>2. \A c : c \in DOMAIN s5.blocks \ Y <=> c \in DOMAIN s1.blocks \ X
      BY <1>2, <1>6, <2>7, <2>14, <2>15, <2>19
    <3>3. \A c \in DOMAIN s1.blocks \ X : s5.blocks[c].size = s1.blocks[c].size /\ s5.blocks[c].used = s1.blocks[c].used
      BY <1>2, <1>6, <2>14, <2>16
    <3>4. \A c \in DOMAIN s5.blocks : s5.blocks[c] \in Block
      BY <2>2, <2>14, <2>15, <2>16
    <3> QED  BY <1>6, <2>14, <2>17, <2>18, <3>1, <3>2, <3>3, <3>4, ChangedLoose
  <2>21. Listed(s5, t, MinVmBlock, Y, E, base)
    <3>1. \A c \in Idle(g, Y) : c \in DOMAIN f /\ c # bottom /\ ~f[c].used
      BY <2>15, <2>16, <2>19 DEF Idle
    <3>2. next \notin Idle(g, Y)
      BY <1>6, <3>1
    <3>3. \A c \in Idle(g, Y) : c + g[c].size # base
      <4> TAKE c \in Idle(g, Y)
      <4>1. c \in DOMAIN f /\ c # bottom /\ c \in Nat /\ next <= c /\ g[c].size \in Nat
        BY <1>6, <2>16, <3>1 DEF Block
      <4> QED  BY <1>6, <2>1, <4>1
    <3>4. base + g[base].size = next /\ ~g[base].used /\ g[base].size >= MinVmBlock
      BY <1>8, <1>10, <1>22, <2>3, <2>15
    <3>5. E = Y \ {base} /\ base \in Y
      BY <1>1, <2>19
    <3> QED  BY <2>6, <2>14, <3>2, <3>3, <3>4, <3>5 DEF Listed
  <2>22. /\ Loose(t, base, MinVmBlock, E)
         /\ t.blocks = s5.blocks /\ t.used = s5.used /\ t.base = s5.base /\ t.end = s5.end
         /\ Len(t.lists) = Len(s5.lists)
    BY <2>20, <2>21, InsertLoose
  <2>23. VmInv(t, base, base)
    <3>1. base < base + MinVmBlock /\ base <= base
      BY <1>8
    <3>2. Len(t.lists) = Len(Classes) + 1 /\ t.end = Total /\ t.base = base
      BY <1>6, <1>7, <2>18, <2>22
    <3> QED  BY <1>1, <2>22, <3>1, <3>2 DEF VmInv, Whole
  <2>24. SameUsed(v, t)
    <3>1. t.blocks = g
      BY <2>14, <2>22
    <3>2. ~g[base].used
      BY <2>3, <2>15
    <3>3. \A c : c \in UsedOf(t) <=> c \in UsedOf(v)
      BY <1>3, <1>6, <2>7, <2>15, <2>16, <3>1, <3>2 DEF UsedOf
    <3>4. \A c \in UsedOf(v) : c \in DOMAIN f /\ c # bottom
      BY <1>3, <1>6 DEF UsedOf
    <3> QED  BY <1>3, <2>16, <3>1, <3>3, <3>4 DEF SameUsed
  <2> QED  BY <2>23, <2>24
<1> QED  BY <1>21, <1>22
-----------------------------------------------------------------------------
(* Where the border goes *)

\* The smaller and the larger of two numbers.
LEMMA OfTwo ==
    ASSUME NEW a \in Int, NEW b \in Int
    PROVE  /\ Min({a, b}) \in {a, b} /\ Min({a, b}) <= a /\ Min({a, b}) <= b
           /\ Max({a, b}) \in {a, b} /\ Max({a, b}) >= a /\ Max({a, b}) >= b
<1>1. PICK S : S = {a, b}
  OBVIOUS
<1>2. \E x \in S : \A y \in S : x <= y
  <2>1. CASE a <= b
    BY <1>1, <2>1
  <2>2. CASE ~(a <= b)
    <3>1. b <= a /\ b <= b
      BY <2>2
    <3> QED  BY <1>1, <3>1
  <2> QED  BY <2>1, <2>2
<1>3. \E x \in S : \A y \in S : x >= y
  <2>1. CASE a >= b
    BY <1>1, <2>1
  <2>2. CASE ~(a >= b)
    <3>1. b >= a /\ b >= b
      BY <2>2
    <3> QED  BY <1>1, <3>1
  <2> QED  BY <2>1, <2>2
<1>4. Min(S) \in S /\ \A y \in S : Min(S) <= y
  BY <1>2 DEF Min
<1>5. Max(S) \in S /\ \A y \in S : Max(S) >= y
  BY <1>3 DEF Max
<1> QED  BY <1>1, <1>4, <1>5

\* A border that is wanted lies within its limits.
LEMMA WithinProps ==
    ASSUME NEW b \in Int
    PROVE  Within(b) \in Nat /\ MinBorder <= Within(b) /\ Within(b) <= MaxBorder
<1>1. PICK m \in Int : m = Min({MaxBorder, b}) /\ m <= MaxBorder
  <2>1. MaxBorder \in Int
    BY Scale
  <2>2. Min({MaxBorder, b}) \in {MaxBorder, b} /\ Min({MaxBorder, b}) <= MaxBorder
    BY <2>1, OfTwo
  <2> QED  BY <2>1, <2>2
<1>2. MinBorder \in Nat /\ MaxBorder \in Nat /\ MinBorder <= MaxBorder
  BY Scale
<1>3. Max({MinBorder, m}) \in {MinBorder, m} /\ Max({MinBorder, m}) >= MinBorder
  BY <1>2, OfTwo
<1>4. PICK w : w = Max({MinBorder, m})
  OBVIOUS
<1>5. w \in Nat /\ MinBorder <= w /\ w <= MaxBorder
  BY <1>1, <1>2, <1>3, <1>4
<1> QED  BY <1>1, <1>4, <1>5 DEF Within

\* How far the border goes up: to the first used block, or so far below it that a block is left.
LEMMA GivenProps ==
    ASSUME NEW w \in Nat, MinBorder <= w, NEW v, NEW low \in Nat, low = LowestUsed(v), MinBorder <= low,
           NEW n, n = Given(v, w)
    PROVE  /\ n \in Nat /\ MinBorder <= n /\ (n = low \/ n + MinVmBlock <= low)
           /\ n # low => n <= MaxBorder
<1>1. PICK S \in SUBSET Nat : S = {w, low, MaxBorder}
  BY Scale
<1>2. Min(S) \in S /\ \A x \in S : Min(S) <= x
  BY <1>1, Least
<1>3. PICK most \in Nat : most = Min(S) /\ most <= low /\ most <= MaxBorder /\ MinBorder <= most
  BY <1>1, <1>2, Scale
<1>4. n = IF low - most < MinVmBlock THEN low ELSE most
  BY <1>1, <1>3 DEF Given
<1> QED  BY <1>3, <1>4, Scale

\* Wherever the border goes, both areas have room, and no used block of the VM area is in its way.
LEMMA NewBorderProps ==
    ASSUME border \in Nat, MinBorder <= border, border + MinVmBlock <= Total,
           NEW first, VmInv(vm, border, first), NEW h, NEW n, n = NewBorder(h, vm)
    PROVE  /\ n \in Nat /\ MinBorder <= n /\ n + MinVmBlock <= Total
           /\ n # border => Wanted(h, vm) # border
           /\ n > border /\ vm.used # 0 =>
                 n <= LowestUsed(vm) /\ (n = LowestUsed(vm) \/ n + MinVmBlock <= LowestUsed(vm))
<1>1. PICK w : w = Wanted(h, vm)
  OBVIOUS
<1>2. w = border \/ (w \in Nat /\ MinBorder <= w /\ w <= MaxBorder)
  <2>1. border - Step \in Int /\ border + Step \in Int
    BY Scale
  <2>2. w = border \/ w = Within(border - Step) \/ w = Within(border + Step)
    BY <1>1 DEF Wanted
  <2> QED  BY <2>1, <2>2, WithinProps
<1>3. w \in Nat /\ MinBorder <= w
  BY <1>2
<1>4. MaxBorder + MinVmBlock <= Total /\ MaxBorder \in Nat /\ MinVmBlock \in Nat \ {0} /\ Total \in Nat /\ MinBorder \in Nat
  BY Scale
<1>5. PICK low \in Nat : /\ low = LowestUsed(vm) /\ MinBorder <= low
                         /\ vm.used # 0 => low + MinVmBlock <= Total
                         /\ vm.used = 0 => low = Total
  <2>1. CASE vm.used = 0
    <3>1. LowestUsed(vm) = Total
      BY <2>1 DEF LowestUsed, VmInv
    <3> QED  BY <1>4, <2>1, <3>1
  <2>2. CASE vm.used # 0
    <3>1. Whole(vm, first, MinVmBlock) /\ vm.end = Total /\ border <= first
      BY DEF VmInv
    <3>2. PICK l \in UsedOf(vm) : l = LowestUsed(vm) /\ l \in Nat
      BY <2>2, <3>1, LowestProps
    <3>3. PICK E : E = {} /\ Loose(vm, first, MinVmBlock, E)
      BY <3>1 DEF Whole
    <3>4. l \in DOMAIN vm.blocks /\ l \notin E
      BY <3>2, <3>3 DEF UsedOf
    <3>5. vm.blocks[l].size \in Nat /\ vm.blocks[l].size >= MinVmBlock /\ l + vm.blocks[l].size <= Total /\ first <= l
          /\ first \in Nat
      BY <3>1, <3>3, <3>4 DEF Loose, Chain
    <3>6. l + MinVmBlock <= Total /\ MinBorder <= l
      BY <1>4, <3>1, <3>2, <3>5
    <3> QED  BY <2>2, <3>2, <3>6
  <2> QED  BY <2>1, <2>2
<1>6. CASE w > border
  <2>1. n = Given(vm, w)
    BY <1>1, <1>6 DEF NewBorder
  <2>2. /\ n \in Nat /\ MinBorder <= n /\ (n = low \/ n + MinVmBlock <= low)
        /\ n # low => n <= MaxBorder
    BY <1>3, <1>5, <2>1, GivenProps
  <2>3. n + MinVmBlock <= Total
    <3>1. CASE vm.used # 0
      BY <1>4, <1>5, <2>2, <3>1
    <3>2. CASE vm.used = 0
      <4>1. low = Total
        BY <1>5, <3>2
      <4>2. n # Total
        <5>1. PICK S \in SUBSET Nat : S = {w, low, MaxBorder}
          BY <1>3, <1>4
        <5>2. Min(S) \in S /\ \A x \in S : Min(S) <= x
          BY <5>1, Least
        <5>3. PICK most \in Nat : most = Min(S) /\ most <= MaxBorder
          BY <5>1, <5>2
        <5>4. n = IF low - most < MinVmBlock THEN low ELSE most
          BY <1>5, <2>1, <5>1, <5>3 DEF Given
        <5>5. ~(low - most < MinVmBlock)
          BY <1>4, <4>1, <5>3
        <5> QED  BY <1>4, <5>3, <5>4, <5>5
      <4> QED  BY <1>4, <2>2, <4>1, <4>2
    <3> QED  BY <3>1, <3>2
  <2>4. w # border
    BY <1>6
  <2>5. n <= low
    BY <1>4, <2>2
  <2> QED  BY <1>1, <1>5, <2>2, <2>3, <2>4, <2>5
<1>7. CASE ~(w > border)
  <2>1. n = w /\ ~(n > border)
    BY <1>1, <1>7 DEF NewBorder
  <2>2. n + MinVmBlock <= Total
    BY <1>2, <1>4, <2>1
  <2> QED  BY <1>1, <1>3, <2>1, <2>2
<1> QED  BY <1>6, <1>7

\* If nothing is used, no block is.
LEMMA NoneUsed ==
    ASSUME NEW v, NEW first, NEW least, Whole(v, first, least), v.used = 0
    PROVE  UsedOf(v) = {}
<1>1. PICK E : E = {} /\ Loose(v, first, least, E)
  BY DEF Whole
<1>2. PICK U \in SUBSET DOMAIN v.blocks : U = UsedOf(v)
  BY DEF UsedOf
<1>3. Taken(v.blocks, E) = U
  BY <1>1, <1>2 DEF Taken, UsedOf
<1>4. SumSizes(v, U) = 0 /\ Chain(v.blocks, first, v.end)
  BY <1>1, <1>3 DEF Loose, Counted
<1> QED  BY <1>2, <1>4, SumZero

\* The VM area follows the border, and its used blocks stay where they are.
LEMMA VmFollows ==
    ASSUME border \in Nat, MinBorder <= border, border + MinVmBlock <= Total,
           NEW first, VmInv(vm, border, first), NEW h, NEW n, n = NewBorder(h, vm), n # border,
           HasGap(vm) => Wanted(h, vm) = border, NEW t, t = VmFrom(vm, n)
    PROVE  (\E start : VmInv(t, n, start)) /\ SameUsed(vm, t)
<1>1. /\ n \in Nat /\ MinBorder <= n /\ n + MinVmBlock <= Total
      /\ n # border => Wanted(h, vm) # border
      /\ n > border /\ vm.used # 0 =>
            n <= LowestUsed(vm) /\ (n = LowestUsed(vm) \/ n + MinVmBlock <= LowestUsed(vm))
  BY NewBorderProps
<1>2. ~HasGap(vm)
  BY <1>1
<1>3. Whole(vm, first, MinVmBlock) /\ vm.base = border /\ border <= first
  BY DEF VmInv
<1>4. CASE vm.used = 0
  <2>1. t = VmArea(n)
    BY <1>4 DEF VmFrom
  <2>2. VmInv(t, n, n) /\ UsedOf(t) = {}
    BY <1>1, <2>1, VmAreaWhole
  <2>3. UsedOf(vm) = {}
    BY <1>3, <1>4, NoneUsed
  <2> QED  BY <2>2, <2>3 DEF SameUsed
<1>5. CASE vm.used # 0
  <2>1. border \in DOMAIN vm.blocks
    BY <1>2, <1>3, <1>5 DEF HasGap
  <2>2. first = border
    <3>1. first \in Nat /\ first <= border
      BY <1>3, <2>1 DEF Whole, Loose, Chain
    <3> QED  BY <1>3, <3>1
  <2>3. VmInv(vm, border, border)
    BY <2>2
  <2>4. CASE n < border
    <3>1. t = VmDownTo(vm, n)
      BY <1>1, <1>3, <1>5, <2>4 DEF VmFrom
    <3> QED  BY <1>1, <2>3, <2>4, <3>1, VmGoesDown
  <2>5. CASE n > border
    <3>1. t = VmUpFrom(vm, n)
      BY <1>1, <1>3, <1>5, <2>5 DEF VmFrom
    <3>2. VmInv(t, n, n) /\ SameUsed(vm, t)
      BY <1>1, <1>5, <2>3, <2>5, <3>1, VmGoesUp
    <3> QED  BY <3>2
  <2> QED  BY <1>1, <2>4, <2>5
<1> QED  BY <1>4, <1>5

\* Holders keep what is still there.
LEMMA OwnedSame ==
    ASSUME NEW at, NEW s, NEW D, Owned(at, s, D), NEW t, SameUsed(s, t)
    PROVE  Owned(at, t, D)
<1>1. \A b : /\ b \in UsedOf(t) <=> b \in UsedOf(s)
             /\ b \in UsedOf(s) => t.blocks[b].owner = s.blocks[b].owner
  BY DEF SameUsed
<1>2. \A b \in UsedOf(t) : b \in Nat /\ \E o \in D : at[o] = b
  BY <1>1 DEF Owned
<1>3. \A o \in D : at[o] # Nowhere => at[o] \in UsedOf(t) /\ t.blocks[at[o]].owner = o
  BY <1>1 DEF Owned
<1> QED  BY <1>2, <1>3 DEF Owned

\* What the handles refer to is what is used.
LEMMA LiveIsUsed ==
    ASSUME Owned(slot, heap, Objects)
    PROVE  Live = UsedOf(heap)
<1>1. DOMAIN slot = Objects
  BY DEF Owned
<1>2. \A b : b \in Live <=> \E o \in Objects : slot[o] # Nowhere /\ b = slot[o]
  BY <1>1 DEF Live, Held
<1>3. \A b \in UsedOf(heap) : \E o \in Objects : slot[o] # Nowhere /\ b = slot[o]
  BY NowhereProps DEF Owned
<1>4. \A o \in Objects : slot[o] # Nowhere => slot[o] \in UsedOf(heap)
  BY DEF Owned
<1> QED  BY <1>2, <1>3, <1>4

\* After compaction the handles know the new places.
LEMMA MovedOwned ==
    ASSUME border \in Nat, HeapInv(heap, border), Owned(slot, heap, Objects), NEW h, MovedHeap(h)
    PROVE  Owned(MovedSlots, h, Objects)
<1>1. Live = UsedOf(heap)
  BY LiveIsUsed
<1>2. PICK U : U = SumSizes(heap, Live)
  OBVIOUS
<1>3. \A b \in Live : Moved(b) \in Nat
  BY <1>1, <1>2, MovedProps
<1>4. \A o \in Objects : slot[o] # Nowhere => slot[o] \in Live /\ heap.blocks[slot[o]].owner = o
  BY <1>1 DEF Owned
<1>5. PICK to : to = MovedSlots
  OBVIOUS
<1>6. /\ DOMAIN to = Objects
      /\ \A o \in Objects : to[o] = IF slot[o] = Nowhere THEN Nowhere ELSE Moved(slot[o])
  BY <1>5 DEF MovedSlots
<1>7. to \in [Objects -> Nat \cup {Nowhere}]
  <2>1. \A o \in Objects : to[o] \in Nat \cup {Nowhere}
    BY <1>3, <1>4, <1>6
  <2> QED  BY <1>5, <2>1 DEF MovedSlots
<1>8. \A b \in UsedOf(h) : b \in Nat /\ \E o \in Objects : to[o] = b
  <2> TAKE b \in UsedOf(h)
  <2>1. PICK c \in Live : b = Moved(c)
    BY DEF MovedHeap
  <2>2. PICK o \in Objects : slot[o] = c /\ c \in Nat
    BY <1>1 DEF Owned
  <2>3. slot[o] # Nowhere
    BY <2>2, NowhereProps
  <2>4. to[o] = b
    BY <1>6, <2>1, <2>2, <2>3
  <2> QED  BY <1>3, <2>1, <2>4
<1>9. \A o \in Objects : to[o] # Nowhere => to[o] \in UsedOf(h) /\ h.blocks[to[o]].owner = o
  <2> SUFFICES ASSUME NEW o \in Objects, to[o] # Nowhere
               PROVE  to[o] \in UsedOf(h) /\ h.blocks[to[o]].owner = o
    OBVIOUS
  <2>1. slot[o] # Nowhere /\ to[o] = Moved(slot[o])
    BY <1>6
  <2>2. PICK b \in Live : b = slot[o] /\ heap.blocks[b].owner = o
    BY <1>4, <2>1
  <2>3. Moved(b) \in UsedOf(h) /\ h.blocks[Moved(b)].owner = heap.blocks[b].owner
    BY DEF MovedHeap
  <2> QED  BY <2>1, <2>2, <2>3
<1> QED  BY <1>5, <1>7, <1>8, <1>9 DEF Owned

\* A safe point: the heap is moved together to h, and then both areas follow the border to n.
Reached(n, h, k, v) ==
    /\ n \in Nat /\ MinBorder <= n /\ n + MinVmBlock <= Total
    /\ MovedHeap(h) /\ HeapInv(k, n) /\ Packed(k) /\ SameUsed(h, k)
    /\ (\E start : VmInv(v, n, start)) /\ SameUsed(vm, v)
    /\ border' = n /\ heap' = k /\ vm' = v
    /\ slot' = MovedSlots /\ refused' = NoRefusal /\ place' = place

\* Every safe point is one of these.
LEMMA SafePointReaches ==
    ASSUME IInv, SafePoint
    PROVE  \E n, h, k, v : Reached(n, h, k, v)
<1>1. /\ border \in Nat /\ MinBorder <= border /\ border + MinVmBlock <= Total
      /\ HeapInv(heap, border) /\ Owned(slot, heap, Objects) /\ Owned(place, vm, Tables)
  BY DEF IInv
<1>2. PICK first : VmInv(vm, border, first)
  BY DEF IInv
<1>3. PICK h : h = Compacted
  OBVIOUS
<1>4. PICK n : n = NewBorder(h, vm)
  OBVIOUS
<1>5. MovedHeap(h)
  <2>1. border >= MinHeapBlock
    BY <1>1, Scale
  <2> QED  BY <1>1, <1>3, <2>1, LiveIsUsed, CompactedMoves
<1>6. HeapInv(h, border) /\ Packed(h)
  BY <1>5 DEF MovedHeap
<1>7. /\ HasGap(vm) => Wanted(h, vm) = border
      /\ border' = IF n # border /\ CanEnd(h, n) THEN n ELSE border
      /\ heap' = IF n # border /\ CanEnd(h, n) THEN HeapUpTo(h, n) ELSE h
      /\ vm' = IF n # border /\ CanEnd(h, n) THEN VmFrom(vm, n) ELSE vm
      /\ slot' = MovedSlots /\ refused' = NoRefusal /\ place' = place
  BY <1>3, <1>4 DEF SafePoint
<1>8. CASE n # border /\ CanEnd(h, n)
  <2>1. n \in Nat /\ MinBorder <= n /\ n + MinVmBlock <= Total
    BY <1>1, <1>2, <1>4, NewBorderProps
  <2>2. n \in Nat \ {0}
    BY <2>1, Scale
  <2>3. PICK k : k = HeapUpTo(h, n)
    OBVIOUS
  <2>4. HeapInv(k, n) /\ Packed(k) /\ SameUsed(h, k)
    BY <1>1, <1>6, <1>8, <2>2, <2>3, HeapMovesEnd
  <2>5. PICK v : v = VmFrom(vm, n)
    OBVIOUS
  <2>6. (\E start : VmInv(v, n, start)) /\ SameUsed(vm, v)
    BY <1>1, <1>2, <1>4, <1>7, <1>8, <2>5, VmFollows
  <2>7. border' = n /\ heap' = k /\ vm' = v
    BY <1>7, <1>8, <2>3, <2>5
  <2>8. Reached(n, h, k, v)
    BY <1>5, <1>7, <2>1, <2>4, <2>6, <2>7 DEF Reached
  <2> QED  BY <2>8
<1>9. CASE ~(n # border /\ CanEnd(h, n))
  <2>1. border' = border /\ heap' = h /\ vm' = vm
    BY <1>7, <1>9
  <2>2. SameUsed(h, h) /\ SameUsed(vm, vm)
    BY DEF SameUsed
  <2>3. Reached(border, h, h, vm)
    BY <1>1, <1>2, <1>5, <1>6, <1>7, <2>1, <2>2 DEF Reached
  <2> QED  BY <2>3
<1> QED  BY <1>8, <1>9

\* A safe point leaves both areas whole, and everybody with what they held.
LEMMA SafePointStep ==
    ASSUME IInv, SafePoint
    PROVE  IInv'
<1>1. PICK n, h, k, v : Reached(n, h, k, v)
  BY SafePointReaches
<1>2. Owned(MovedSlots, h, Objects)
  BY <1>1, MovedOwned DEF IInv, Reached
<1>3. Owned(MovedSlots, k, Objects)
  BY <1>1, <1>2, OwnedSame DEF Reached
<1>4. Owned(place, v, Tables)
  BY <1>1, OwnedSame DEF IInv, Reached
<1>5. (border \in Nat /\ MinBorder <= border /\ border + MinVmBlock <= Total)' /\ HeapInv(heap, border)'
  BY <1>1 DEF Reached
<1>6. (\E first : VmInv(vm, border, first))'
  BY <1>1 DEF Reached
<1>7. Owned(slot, heap, Objects)' /\ Owned(place, vm, Tables)'
  BY <1>1, <1>3, <1>4 DEF Reached
<1>8. refused' = NoRefusal
  BY <1>1 DEF Reached
<1> QED  BY <1>5, <1>6, <1>7, <1>8 DEF IInv

\* The invariant holds in every state.
THEOREM Inductive == Spec => []IInv
<1>1. Init => IInv
  BY InitIInv
<1>2. IInv /\ [Next]_vars => IInv'
  <2> SUFFICES ASSUME IInv, [Next]_vars
               PROVE  IInv'
    OBVIOUS
  <2>1. CASE UNCHANGED vars
    BY <2>1 DEF vars, IInv, Refusal
  <2>2. ASSUME NEW o \in Objects, NEW size \in ObjectSizes, New(o, size) \/ Grow(o, size)
        PROVE  IInv'
    BY <2>2, NewStep, GrowStep
  <2>3. ASSUME NEW o \in Objects, Release(o)
        PROVE  IInv'
    BY <2>3, ReleaseStep
  <2>4. ASSUME NEW w \in Tables, NEW size \in TableSizes, NewTable(w, size) \/ GrowTable(w, size)
        PROVE  IInv'
    BY <2>4, NewTableStep, GrowTableStep
  <2>5. ASSUME NEW w \in Tables, FreeTable(w)
        PROVE  IInv'
    BY <2>5, FreeTableStep
  <2>6. CASE SafePoint
    BY <2>6, SafePointStep
  <2> QED  BY <2>1, <2>2, <2>3, <2>4, <2>5, <2>6 DEF Next
<1> QED  BY <1>1, <1>2, PTL DEF Spec
-----------------------------------------------------------------------------
(* What follows from it *)

\* A list that has each block once is as long as its blocks are many.
LEMMA ListLength ==
    ASSUME NEW l \in Seq(Nat), IsInjective(l)
    PROVE  Cardinality(Range(l)) = Len(l)
<1>1. PICK n \in Nat : n = Len(l) /\ DOMAIN l = 1 .. n
  OBVIOUS
<1>2. l \in [1 .. n -> Range(l)]
  <2>1. \A i \in 1 .. n : l[i] \in Range(l)
    BY <1>1 DEF Range
  <2> QED  BY <1>1, <2>1
<1>3. \A y \in Range(l) : \E i \in 1 .. n : l[i] = y
  BY <1>1 DEF Range
<1>4. l \in Bijection(1 .. n, Range(l))
  BY <1>2, <1>3 DEF Bijection, Injection, Surjection
<1>5. ExistsBijection(1 .. n, Range(l))
  BY <1>4 DEF ExistsBijection
<1> QED  BY <1>1, <1>5, FS_CountingElements

\* A whole area is tiled.
LEMMA WholeTiled ==
    ASSUME NEW s, NEW first, NEW least, Whole(s, first, least)
    PROVE  Tiled(s, first, least)
<1>1. PICK E : E = {} /\ Loose(s, first, least, E)
  BY DEF Whole
<1>2. PICK f : f = s.blocks
  OBVIOUS
<1>3. Chain(f, first, s.end) /\ Apart(f, E) /\ Filed(s, E) /\ Counted(s, E)
  BY <1>1, <1>2 DEF Loose
<1>4. PICK e \in Nat : e = s.end
  BY <1>3 DEF Chain
<1>5. PICK free : free = {b \in DOMAIN s.blocks : ~IsUsed(s, b)}
  OBVIOUS
<1>6. free = Idle(f, E) /\ DOMAIN f \ free = Taken(f, E)
  BY <1>1, <1>2, <1>5 DEF Idle, Taken, IsUsed
<1>7. ASSUME NEW b \in DOMAIN f
      PROVE  /\ b >= first /\ SizeAt(s, b) >= least
             /\ NextOf(s, b) \in DOMAIN f \cup {s.end}
             /\ f[b].prev = 0 <=> b = first
             /\ HasNext(s, b) => f[NextOf(s, b)].prev = SizeAt(s, b)
             /\ HasNext(s, b) => IsUsed(s, b) \/ IsUsed(s, NextOf(s, b))
  <2>1. b \in Nat /\ first \in Nat /\ first <= b /\ f[b].size \in Nat \ {0} /\ b + f[b].size \in DOMAIN f \cup {s.end}
    BY <1>3 DEF Chain
  <2>2. SizeAt(s, b) = f[b].size /\ f[b].size >= least
    BY <1>1, <1>2 DEF SizeAt, Loose
  <2>3. PICK n \in Nat : n = b + f[b].size /\ NextOf(s, b) = n /\ (HasNext(s, b) <=> n \in DOMAIN f)
    BY <1>2, <1>3, NextProps
  <2>4. f[b].prev = 0 <=> b = first
    <3>1. f[first].prev = 0
      BY <1>3 DEF Chain
    <3>2. ASSUME f[b].prev = 0, b # first
          PROVE  FALSE
      <4>1. b - 0 \in DOMAIN f /\ f[b - 0].size = 0
        BY <1>3, <3>2 DEF Chain
      <4>2. b - 0 = b
        BY <2>1
      <4> QED  BY <2>1, <4>1, <4>2
    <3> QED  BY <3>1, <3>2
  <2>5. n \in DOMAIN f => f[n].prev = f[b].size
    BY <1>3, <2>3, TagOfNext
  <2>6. n \in DOMAIN f => f[b].used \/ f[n].used
    BY <1>1, <1>3, <2>3 DEF Apart, Idle
  <2>7. b >= first
    BY <2>1
  <2> QED  BY <1>2, <2>1, <2>2, <2>3, <2>4, <2>5, <2>6, <2>7 DEF IsUsed
<1>8. ASSUME NEW i \in DOMAIN s.lists
      PROVE  /\ Cardinality(Range(s.lists[i])) = Len(s.lists[i])
             /\ Range(s.lists[i]) = {b \in free : ListIndex(s, SizeAt(s, b)) = i}
  <2>1. i \in 1 .. Len(s.lists) /\ s.lists[i] \in Seq(Nat)
    BY <1>3 DEF Filed
  <2>2. /\ IsInjective(s.lists[i])
        /\ Range(s.lists[i]) = {b \in Idle(s.blocks, E) : ListIndex(s, s.blocks[b].size) = i}
    BY <1>3, <2>1 DEF Filed
  <2> QED  BY <1>2, <1>6, <2>1, <2>2, ListLength DEF SizeAt
<1>9. s.used = SumSizes(s, DOMAIN s.blocks \ free)
  BY <1>2, <1>3, <1>6 DEF Counted
<1>10. first \in DOMAIN f
  BY <1>3 DEF Chain
<1> QED  BY <1>2, <1>5, <1>7, <1>8, <1>9, <1>10 DEF Tiled

\* The heap is tiled from the beginning of the pool to the border.
THEOREM HeapTiledCorrect == Spec => []HeapTiled
<1>1. IInv => HeapTiled
  BY WholeTiled DEF IInv, HeapInv, HeapTiled
<1> QED  BY <1>1, Inductive, PTL

\* The VM area is tiled from the border, or less than a block above it, to the end of the pool.
THEOREM VmTiledCorrect == Spec => []VmTiled
<1>1. IInv => VmTiled
  <2> SUFFICES ASSUME IInv
               PROVE  VmTiled
    OBVIOUS
  <2>1. PICK first : VmInv(vm, border, first)
    BY DEF IInv
  <2>2. Whole(vm, first, MinVmBlock) /\ vm.base = border /\ vm.end = Total /\ border <= first /\ first < border + MinVmBlock
    BY <2>1 DEF VmInv
  <2>3. PICK D \in SUBSET Nat : D = DOMAIN vm.blocks /\ first \in D /\ \A b \in D : first <= b
    BY <2>2 DEF Whole, Loose, Chain
  <2>4. Min(D) \in D /\ Min(D) <= first
    BY <2>3, Least
  <2>5. Min(D) = first
    <3>1. first <= Min(D) /\ first \in Nat /\ Min(D) \in Nat
      BY <2>3, <2>4
    <3> QED  BY <2>4, <3>1
  <2>6. Tiled(vm, first, MinVmBlock)
    BY <2>2, WholeTiled
  <2>7. border \in Nat /\ first \in Nat
    BY <2>3 DEF IInv
  <2>8. first \in border .. (border + MinVmBlock - 1)
    BY <2>2, <2>7, Scale
  <2> QED  BY <2>2, <2>3, <2>5, <2>6, <2>8 DEF VmTiled
<1> QED  BY <1>1, Inductive, PTL

\* Both areas are tiled, wherever the border between them is.
THEOREM AreasTiledCorrect == Spec => []AreasTiled
BY HeapTiledCorrect, VmTiledCorrect, PTL DEF AreasTiled

\* Whoever was given a block holds it, and no used block is without a holder.
LEMMA OwnedHolds ==
    ASSUME NEW at, NEW s, NEW D, Owned(at, s, D)
    PROVE  {<<o, at[o]>> : o \in Held(at)} =
           {<<s.blocks[b].owner, b>> : b \in {c \in DOMAIN s.blocks : IsUsed(s, c)}}
<1>1. PICK U : U = {c \in DOMAIN s.blocks : IsUsed(s, c)}
  OBVIOUS
<1>2. U = UsedOf(s)
  BY <1>1 DEF UsedOf, IsUsed
<1>3. DOMAIN at = D
  BY DEF Owned
<1>4. \A o \in Held(at) : at[o] \in U /\ s.blocks[at[o]].owner = o
  BY <1>2, <1>3 DEF Held, Owned
<1>5. ASSUME NEW b \in U
      PROVE  \E o \in Held(at) : at[o] = b /\ s.blocks[b].owner = o
  <2>1. PICK o \in D : at[o] = b /\ b \in Nat
    BY <1>2 DEF Owned
  <2>2. at[o] # Nowhere
    BY <2>1, NowhereProps
  <2>3. o \in Held(at)
    BY <1>3, <2>1, <2>2 DEF Held
  <2> QED  BY <1>4, <2>1, <2>3
<1>6. \A p : p \in {<<o, at[o]>> : o \in Held(at)} => p \in {<<s.blocks[b].owner, b>> : b \in U}
  BY <1>4
<1>7. \A p : p \in {<<s.blocks[b].owner, b>> : b \in U} => p \in {<<o, at[o]>> : o \in Held(at)}
  BY <1>5
<1> QED  BY <1>1, <1>6, <1>7

\* Nothing is given twice, overwritten or lost, by allocation, compaction or a move of the border.
THEOREM HoldersKeptCorrect == Spec => []HoldersKept
<1>1. IInv => HoldersKept
  BY OwnedHolds DEF IInv, HoldersKept
<1> QED  BY <1>1, Inductive, PTL

\* An allocation is refused only if no free block is large enough for it.
THEOREM RefusedOnlyWhenFullCorrect == Spec => []RefusedOnlyWhenFull
<1>1. IInv => RefusedOnlyWhenFull
  <2> SUFFICES ASSUME IInv, refused # NoRefusal
               PROVE  RefusedOnlyWhenFull
    BY DEF RefusedOnlyWhenFull
  <2>1. PICK s : s = IF refused.area = "heap" THEN heap ELSE vm
    OBVIOUS
  <2>2. refused.size \in Nat /\ Refusal(s)
    BY <2>1 DEF IInv
  <2>3. \A b \in DOMAIN s.blocks : s.blocks[b].size \in Nat
    <3>1. CASE s = heap
      BY <3>1 DEF IInv, HeapInv, Whole, Loose, Chain
    <3>2. CASE s = vm
      BY <3>2 DEF IInv, VmInv, Whole, Loose, Chain
    <3> QED  BY <2>1, <3>1, <3>2
  <2>4. ASSUME NEW b \in DOMAIN s.blocks, ~IsUsed(s, b)
        PROVE  SizeAt(s, b) < refused.size
    <3>1. ~(s.blocks[b].size >= refused.size)
      BY <2>2, <2>4 DEF Refusal, FreeOf, IsUsed
    <3> QED  BY <2>2, <2>3, <3>1 DEF SizeAt
  <2> QED  BY <2>1, <2>4 DEF RefusedOnlyWhenFull
<1> QED  BY <1>1, Inductive, PTL

\* The types.
AreaOK(s) ==
    /\ s.base \in Addresses /\ s.end \in Addresses /\ s.used \in Addresses
    /\ DOMAIN s.blocks \subseteq Addresses
    /\ \A b \in DOMAIN s.blocks : s.blocks[b] \in [size : Addresses, prev : Addresses, used : BOOLEAN,
                                                    owner : Objects \cup Tables \cup {Nobody}]
    /\ \A i \in DOMAIN s.lists : Range(s.lists[i]) \subseteq Addresses

\* The numbers of a whole area stay within the pool.
LEMMA WholeOK ==
    ASSUME NEW s, NEW first, NEW least, Whole(s, first, least), s.base \in Nat, s.base <= s.end, s.end <= Total
    PROVE  AreaOK(s)
<1>1. PICK E : E = {} /\ Loose(s, first, least, E)
  BY DEF Whole
<1>2. PICK f : f = s.blocks
  OBVIOUS
<1>3. /\ Chain(f, first, s.end) /\ Filed(s, E) /\ Counted(s, E)
      /\ \A b \in DOMAIN f : f[b] \in Block
  BY <1>1, <1>2 DEF Loose
<1>4. PICK e \in Nat : e = s.end /\ e <= Total
  BY <1>3 DEF Chain
<1>5. Total \in Nat /\ s.base \in Addresses /\ s.end \in Addresses
  BY <1>4, Scale DEF Addresses
<1>6. ASSUME NEW b \in DOMAIN f
      PROVE  b \in Addresses /\ f[b].size \in Addresses /\ f[b].prev \in Addresses
  <2>1. b \in Nat /\ f[b].size \in Nat /\ f[b].prev \in Nat /\ b + f[b].size <= e
    BY <1>3, <1>4 DEF Chain
  <2>2. f[b].prev <= b
    <3>1. b - f[b].prev \in Nat \/ f[b].prev = 0
      BY <1>3 DEF Chain
    <3> QED  BY <2>1, <3>1
  <2> QED  BY <1>4, <1>5, <2>1, <2>2 DEF Addresses
<1>7. \A b \in DOMAIN f : f[b] \in [size : Addresses, prev : Addresses, used : BOOLEAN,
                                    owner : Objects \cup Tables \cup {Nobody}]
  BY <1>3, <1>6 DEF Block, Owner
<1>8. \A i \in DOMAIN s.lists : Range(s.lists[i]) \subseteq Addresses
  <2> TAKE i \in DOMAIN s.lists
  <2>1. i \in 1 .. Len(s.lists)
    BY <1>3 DEF Filed
  <2>2. \A b \in Range(s.lists[i]) : b \in DOMAIN f
    BY <1>2, <1>3, <2>1 DEF Filed, Idle
  <2> QED  BY <1>6, <2>2
<1>9. s.used \in Addresses
  <2>1. PICK T \in SUBSET DOMAIN s.blocks : T = Taken(s.blocks, E)
    BY DEF Taken
  <2>2. \A b \in T : NextOf(s, b) <= e
    BY <1>2, <1>3, <1>4 DEF Chain, NextOf, SizeAt
  <2>3. SumSizes(s, T) \in Nat /\ SumSizes(s, T) <= e
    BY <1>2, <1>3, <2>2, UnitsIn, SumBelow
  <2> QED  BY <1>3, <1>4, <1>5, <2>1, <2>3 DEF Counted, Addresses
<1> QED  BY <1>2, <1>5, <1>6, <1>7, <1>8, <1>9 DEF AreaOK

\* What is held is at an address.
LEMMA OwnedType ==
    ASSUME NEW at, NEW s, NEW D, Owned(at, s, D), DOMAIN s.blocks \subseteq Addresses
    PROVE  at \in [D -> Addresses \cup {Nowhere}]
<1>1. at \in [D -> Nat \cup {Nowhere}]
  BY DEF Owned
<1>2. \A o \in D : at[o] \in Addresses \cup {Nowhere}
  BY DEF Owned, UsedOf
<1> QED  BY <1>1, <1>2

\* Every number of the pool stays within it, and the border within its limits.
THEOREM TypeCorrect == Spec => []TypeOK
<1>1. IInv => TypeOK
  <2> SUFFICES ASSUME IInv
               PROVE  TypeOK
    OBVIOUS
  <2>1. border \in Nat /\ MinBorder <= border /\ border + MinVmBlock <= Total
    BY DEF IInv
  <2>2. border \in MinBorder .. (Total - MinVmBlock)
    BY <2>1, Scale
  <2>3. AreaOK(heap)
    <3>1. Whole(heap, 0, MinHeapBlock) /\ heap.base = 0 /\ heap.end = border
      BY DEF IInv, HeapInv
    <3>2. heap.base \in Nat /\ heap.base <= heap.end /\ heap.end <= Total
      BY <2>1, <3>1, Scale
    <3> QED  BY <3>1, <3>2, WholeOK
  <2>4. AreaOK(vm)
    <3>1. PICK first : Whole(vm, first, MinVmBlock) /\ vm.base = border /\ vm.end = Total
      BY DEF IInv, VmInv
    <3>2. vm.base \in Nat /\ vm.base <= vm.end /\ vm.end <= Total
      BY <2>1, <3>1, Scale
    <3> QED  BY <3>1, <3>2, WholeOK
  <2>5. slot \in [Objects -> Addresses \cup {Nowhere}]
    BY <2>3, OwnedType DEF IInv, AreaOK
  <2>6. place \in [Tables -> Addresses \cup {Nowhere}]
    BY <2>4, OwnedType DEF IInv, AreaOK
  <2>7. \A s \in Areas : AreaOK(s)
    BY <2>3, <2>4 DEF Areas
  <2> QED  BY <2>2, <2>5, <2>6, <2>7 DEF TypeOK, AreaOK
<1> QED  BY <1>1, Inductive, PTL

\* A packed heap has one free block at most.
LEMMA OneFree ==
    ASSUME NEW s, Packed(s)
    PROVE  Cardinality({b \in DOMAIN s.blocks : ~IsUsed(s, b)}) <= 1
<1>1. PICK F : F = {b \in DOMAIN s.blocks : ~IsUsed(s, b)}
  OBVIOUS
<1>2. \A b \in F : b \in FreeOf(s)
  BY <1>1 DEF FreeOf, IsUsed
<1>3. \A b \in F : b = s.used
  BY <1>2, PackedCounted
<1>4. CASE F = {}
  <2>1. Cardinality(F) = 0
    BY <1>4, FS_EmptySet
  <2> QED  BY <1>1, <2>1
<1>5. CASE F # {}
  <2>1. F = {s.used}
    BY <1>3, <1>5
  <2>2. Cardinality(F) = 1
    BY <2>1, FS_Singleton
  <2> QED  BY <1>1, <2>2
<1> QED  BY <1>4, <1>5

\* What one safe point does to the objects and to the tables.
LEMMA SafePointKeeps ==
    ASSUME IInv, SafePoint, Held(slot') = Held(slot)
    PROVE  /\ \A w \in Held(place) : SizeAt(vm', place[w]) = SizeAt(vm, place[w])
           /\ \A o \in Held(slot) : SizeAt(heap', slot'[o]) = SizeAt(heap, slot[o]) /\ slot'[o] <= slot[o]
           /\ \A o, p \in Held(slot) : slot[o] < slot[p] => slot'[o] < slot'[p]
           /\ Cardinality({b \in DOMAIN heap'.blocks : ~IsUsed(heap', b)}) <= 1
<1>1. PICK n, h, k, v : Reached(n, h, k, v)
  BY SafePointReaches
<1>2. /\ MovedHeap(h) /\ Packed(k) /\ SameUsed(h, k) /\ SameUsed(vm, v)
      /\ heap' = k /\ vm' = v /\ slot' = MovedSlots
  BY <1>1 DEF Reached
<1>3. border \in Nat /\ HeapInv(heap, border) /\ Owned(slot, heap, Objects) /\ Owned(place, vm, Tables)
  BY DEF IInv
<1>4. PICK U : U = SumSizes(heap, Live)
  OBVIOUS
<1>5. Live = UsedOf(heap)
  BY <1>3, LiveIsUsed
<1>6. \A w \in Held(place) : SizeAt(v, place[w]) = SizeAt(vm, place[w])
  <2>1. \A w \in Held(place) : place[w] \in UsedOf(vm)
    BY <1>3 DEF Held, Owned
  <2> QED  BY <1>2, <2>1 DEF SameUsed, SizeAt
<1>7. PICK to : to = MovedSlots
  OBVIOUS
<1>8. \A o \in Held(slot) : slot[o] \in Live /\ to[o] = Moved(slot[o])
  <2>1. \A o \in Held(slot) : o \in Objects /\ slot[o] # Nowhere
    BY <1>3 DEF Held, Owned
  <2> QED  BY <1>3, <1>5, <1>7, <2>1 DEF MovedSlots, Owned
<1>9. ASSUME NEW b \in Live
      PROVE  SizeAt(k, Moved(b)) = SizeAt(heap, b) /\ Moved(b) <= b /\ Moved(b) \in Nat
  <2>1. Moved(b) \in UsedOf(h) /\ h.blocks[Moved(b)].size = heap.blocks[b].size
    BY <1>2 DEF MovedHeap
  <2>2. k.blocks[Moved(b)].size = heap.blocks[b].size
    BY <1>2, <2>1 DEF SameUsed
  <2>3. Moved(b) <= b /\ Moved(b) \in Nat
    BY <1>3, <1>4, <1>5, MovedProps
  <2> QED  BY <2>2, <2>3 DEF SizeAt
<1>10. ASSUME NEW b \in Live, NEW c \in Live, b < c
       PROVE  Moved(b) < Moved(c)
  <2>1. Moved(b) + heap.blocks[b].size <= Moved(c)
    BY <1>3, <1>4, <1>5, <1>10, MovedProps
  <2>2. heap.blocks[b].size \in Nat \ {0}
    BY <1>3, <1>5 DEF HeapInv, Whole, Loose, Chain, UsedOf
  <2> QED  BY <1>9, <2>1, <2>2
<1>11. \A o \in Held(slot) : SizeAt(k, to[o]) = SizeAt(heap, slot[o]) /\ to[o] <= slot[o]
  BY <1>8, <1>9
<1>12. \A o, p \in Held(slot) : slot[o] < slot[p] => to[o] < to[p]
  BY <1>8, <1>10
<1>13. Cardinality({b \in DOMAIN k.blocks : ~IsUsed(k, b)}) <= 1
  BY <1>2, OneFree
<1> QED  BY <1>2, <1>6, <1>7, <1>11, <1>12, <1>13

\* A safe point leaves the tables alone and moves the objects down, in their order, into one piece.
THEOREM SafePointKeepsAllCorrect == Spec => SafePointKeepsAll
<1>1. IInv /\ [Next]_vars =>
        [place' = place /\ Held(slot') = Held(slot) /\ SafePoint =>
           /\ \A w \in Held(place) : SizeAt(vm', place[w]) = SizeAt(vm, place[w])
           /\ \A o \in Held(slot) : SizeAt(heap', slot'[o]) = SizeAt(heap, slot[o]) /\ slot'[o] <= slot[o]
           /\ \A o, p \in Held(slot) : slot[o] < slot[p] => slot'[o] < slot'[p]
           /\ Cardinality({b \in DOMAIN heap'.blocks : ~IsUsed(heap', b)}) <= 1]_vars
  BY SafePointKeeps
<1> QED  BY <1>1, Inductive, PTL DEF Spec, SafePointKeepsAll

-----------------------------------------------------------------------------
(* What the pool promises *)

\* Every unit of an area lies in one of its blocks.
LEMMA UnitInBlock ==
    ASSUME NEW f, NEW first, NEW end, Chain(f, first, end), NEW u \in first .. end - 1
    PROVE  \E b \in DOMAIN f : b <= u /\ u < b + f[b].size
<1>1. first \in Nat /\ end \in Nat /\ first \in DOMAIN f
  BY DEF Chain
<1>2. \A b \in DOMAIN f : b \in Nat /\ f[b].size \in Nat \ {0} /\ b + f[b].size \in DOMAIN f \cup {end}
  BY DEF Chain
<1>3. PICK S : S = {b \in DOMAIN f : b <= u}
  OBVIOUS
<1>4. S \subseteq Nat /\ S # {} /\ u \in Nat /\ \A b \in S : b <= u
  BY <1>1, <1>2, <1>3
<1>5. PICK b \in S : \A c \in S : c <= b
  BY <1>4, Greatest
<1>6. ASSUME b + f[b].size \in DOMAIN f, b + f[b].size <= u
      PROVE  FALSE
  <2>1. b + f[b].size <= b
    BY <1>3, <1>5, <1>6
  <2> QED  BY <1>2, <1>3, <2>1
<1>7. u < end
  BY <1>1
<1> QED  BY <1>1, <1>2, <1>3, <1>4, <1>5, <1>6, <1>7

\* What is seen of who has a block, and of who has none.
LEMMA SeenProps ==
    ASSUME NEW at, NEW s, NEW D, Owned(at, s, D), NEW asked, NEW o \in D
    PROVE  /\ at[o] = Nowhere => Seen(at, s, asked)[o] = Promise!Nothing
           /\ at[o] # Nowhere => Seen(at, s, asked)[o] = Promise!Block(at[o], s.blocks[at[o]].size, asked[o])
BY DEF Owned, Seen, SizeAt, Promise!Nothing, Promise!Block

LEMMA SeenFields ==
    ASSUME NEW at, NEW s, NEW D, Owned(at, s, D), NEW asked, NEW seen, seen = Seen(at, s, asked), NEW o \in D
    PROVE  /\ at[o] = Nowhere => seen[o].at = -1 /\ seen[o].size = 0 /\ seen[o].asked = 0
           /\ at[o] # Nowhere => seen[o].at = at[o] /\ seen[o].size = s.blocks[at[o]].size /\ seen[o].asked = asked[o]
<1>1. PICK e : e = seen[o]
  OBVIOUS
<1>2. at[o] = Nowhere => e = Promise!Nothing
  BY <1>1, SeenProps
<1>3. at[o] # Nowhere => e = Promise!Block(at[o], s.blocks[at[o]].size, asked[o])
  BY <1>1, SeenProps
<1>4. at[o] = Nowhere => e.at = -1 /\ e.size = 0 /\ e.asked = 0
  BY <1>2 DEF Promise!Nothing, Promise!Block
<1>5. at[o] # Nowhere => e.at = at[o] /\ e.size = s.blocks[at[o]].size /\ e.asked = asked[o]
  BY <1>3 DEF Promise!Block
<1> QED  BY <1>1, <1>4, <1>5

\* One holder's block changes, the others see nothing of it.
LEMMA SeenChanges ==
    ASSUME NEW at, NEW s, NEW D, Owned(at, s, D), NEW asked, NEW o \in D,
           NEW to, NEW t, Owned(to, t, D), NEW asked1,
           \A p \in D \ {o} : /\ to[p] = at[p] /\ asked1[p] = asked[p]
                              /\ at[p] # Nowhere => t.blocks[at[p]].size = s.blocks[at[p]].size
    PROVE  Seen(to, t, asked1) = [Seen(at, s, asked) EXCEPT ![o] = Seen(to, t, asked1)[o]]
<1>1. PICK old : old = Seen(at, s, asked)
  OBVIOUS
<1>2. PICK new : new = Seen(to, t, asked1)
  OBVIOUS
<1>3. DOMAIN at = D /\ DOMAIN to = D
  BY DEF Owned
<1>4. old = [p \in D |-> old[p]] /\ new = [p \in D |-> new[p]]
  BY <1>1, <1>2, <1>3 DEF Seen
<1>5. \A p \in D \ {o} : new[p] = old[p]
  BY <1>1, <1>2, SeenProps
<1> QED  BY <1>1, <1>2, <1>4, <1>5

\* Somebody has a block now that is t's but not s's, and may have given back the one they had.
Handed(at, s, t, b, to, u, o) ==
    /\ Gave(s, t, b, o) /\ to = [at EXCEPT ![o] = b]
    /\ \A c \in UsedOf(t) : c # at[o] => u.blocks[c].size = t.blocks[c].size

\* It was given n units, and had less.
HandedMore(at, s, asked, D, t, b, first, least, to, u, asked1, o, n) ==
    /\ Owned(at, s, D) /\ asked \in [D -> Nat] /\ o \in D /\ n \in Nat \ {0}
    /\ Whole(t, first, least) /\ t.blocks[b].size >= n
    /\ Handed(at, s, t, b, to, u, o) /\ Owned(to, u, D)
    /\ at[o] # Nowhere => s.blocks[at[o]].size < n
    /\ asked1[o] = n /\ \A p \in D \ {o} : asked1[p] = asked[p]

\* All others keep theirs.
LEMMA HandedKeeps ==
    ASSUME NEW at, NEW s, NEW asked, NEW D, NEW t, NEW b, NEW first, NEW least, NEW to, NEW u, NEW asked1, NEW o, NEW n,
           HandedMore(at, s, asked, D, t, b, first, least, to, u, asked1, o, n)
    PROVE  /\ to[o] = b /\ b # Nowhere /\ b \in UsedOf(t) /\ u.blocks[b].size = t.blocks[b].size
           /\ \A p \in D \ {o} : /\ to[p] = at[p] /\ asked1[p] = asked[p]
                                 /\ at[p] # Nowhere => u.blocks[at[p]].size = s.blocks[at[p]].size
<1>1. Owned(at, s, D) /\ o \in D /\ Whole(t, first, least) /\ Handed(at, s, t, b, to, u, o)
  BY DEF HandedMore
<1>2. at \in [D -> Nat \cup {Nowhere}] /\ \A p \in D : at[p] # Nowhere => at[p] \in UsedOf(s)
  BY <1>1 DEF Owned
<1>3. /\ UsedOf(t) = UsedOf(s) \cup {b} /\ b \notin UsedOf(s)
      /\ \A c \in UsedOf(s) : t.blocks[c].size = s.blocks[c].size
      /\ \A c \in UsedOf(t) : c # at[o] => u.blocks[c].size = t.blocks[c].size
  BY <1>1 DEF Handed, Gave
<1>4. b \in Nat
  BY <1>1, <1>3 DEF Whole, Loose, Chain, UsedOf
<1>5. b # Nowhere /\ b # at[o] /\ b \in UsedOf(t) /\ u.blocks[b].size = t.blocks[b].size
  BY <1>1, <1>2, <1>3, <1>4, NowhereProps
<1>6. to[o] = b /\ \A p \in D \ {o} : to[p] = at[p]
  BY <1>1, <1>2 DEF Handed
<1>7. \A p \in D \ {o} : asked1[p] = asked[p]
  BY DEF HandedMore
<1>8. ASSUME NEW p \in D \ {o}, at[p] # Nowhere
      PROVE  u.blocks[at[p]].size = s.blocks[at[p]].size
  <2>1. at[p] \in UsedOf(s) /\ at[p] \in UsedOf(t)
    BY <1>2, <1>3, <1>8
  <2>2. at[p] # at[o]
    BY <1>1, <1>8 DEF Owned
  <2> QED  BY <1>3, <2>1, <2>2
<1> QED  BY <1>5, <1>6, <1>7, <1>8

\* It is apart from all there were.
LEMMA SeenHanded ==
    ASSUME NEW at, NEW s, NEW asked, NEW D, NEW t, NEW b, NEW first, NEW least, NEW to, NEW u, NEW asked1, NEW o, NEW n,
           HandedMore(at, s, asked, D, t, b, first, least, to, u, asked1, o, n),
           NEW old, old = Seen(at, s, asked), NEW new, new = Seen(to, u, asked1)
    PROVE  /\ old[o].size < n
           /\ new[o].at \in Nat /\ new[o].at >= first /\ new[o].size >= n /\ new[o].asked = n /\ Promise!End(new[o]) <= t.end
           /\ Promise!Unused(new[o], old)
           /\ new = [old EXCEPT ![o] = new[o]]
<1>1. /\ Owned(at, s, D) /\ asked \in [D -> Nat] /\ o \in D /\ n \in Nat \ {0}
      /\ Whole(t, first, least) /\ t.blocks[b].size >= n
      /\ Gave(s, t, b, o) /\ Owned(to, u, D)
      /\ at[o] # Nowhere => s.blocks[at[o]].size < n
      /\ asked1[o] = n
  BY DEF HandedMore, Handed
<1>2. at \in [D -> Nat \cup {Nowhere}] /\ \A p \in D : at[p] # Nowhere => at[p] \in UsedOf(s)
  BY <1>1 DEF Owned
<1>3. PICK f : f = t.blocks
  OBVIOUS
<1>4. /\ Chain(f, first, t.end) /\ first \in Nat /\ t.end \in Nat
      /\ \A c \in UsedOf(t) : c \in DOMAIN f /\ c \in Nat /\ f[c].size \in Nat \ {0} /\ first <= c /\ c + f[c].size <= t.end
  BY <1>1, <1>3 DEF Whole, Loose, Chain, UsedOf
<1>5. to[o] = b /\ b # Nowhere /\ b \in UsedOf(t) /\ u.blocks[b].size = f[b].size
  BY <1>3, HandedKeeps
<1>6. \A p \in D \ {o} : /\ to[p] = at[p] /\ asked1[p] = asked[p]
                         /\ at[p] # Nowhere => u.blocks[at[p]].size = s.blocks[at[p]].size
  BY HandedKeeps
<1>7. \A p \in D : /\ at[p] = Nowhere => old[p].at = -1 /\ old[p].size = 0
                   /\ at[p] # Nowhere => old[p].at = at[p] /\ old[p].size = s.blocks[at[p]].size
  BY <1>1, SeenFields
<1>8. new[o].at = b /\ new[o].size = f[b].size /\ new[o].asked = n
  <2>1. to[o] # Nowhere => new[o].at = to[o] /\ new[o].size = u.blocks[to[o]].size /\ new[o].asked = asked1[o]
    BY <1>1, SeenFields
  <2> QED  BY <1>1, <1>5, <2>1
<1>9. new[o].at \in Nat /\ new[o].at >= first /\ new[o].size >= n /\ new[o].asked = n /\ Promise!End(new[o]) <= t.end
  BY <1>1, <1>3, <1>4, <1>5, <1>8 DEF Promise!End
<1>10. old[o].size < n
  BY <1>1, <1>7
<1>11. DOMAIN old = D
  BY <1>2 DEF Seen
<1>12. ASSUME NEW p \in D
       PROVE  Promise!Apart(old[p], new[o])
  <2>1. CASE at[p] = Nowhere
    <3>1. old[p].at = -1 /\ old[p].size = 0 /\ new[o].at = b
      BY <1>7, <1>8, <2>1
    <3> QED  BY <1>4, <1>5, <3>1 DEF Promise!Apart, Promise!End
  <2>2. CASE at[p] # Nowhere
    <3>1. PICK c \in UsedOf(s) : c = at[p]
      BY <1>2, <2>2
    <3>2. c # b /\ c \in UsedOf(t) /\ f[c].size = s.blocks[c].size
      BY <1>1, <1>3 DEF Gave
    <3>3. old[p].at = c /\ old[p].size = f[c].size /\ new[o].at = b /\ new[o].size = f[b].size
      BY <1>7, <1>8, <2>2, <3>1, <3>2
    <3>4. c + f[c].size <= b \/ b + f[b].size <= c
      BY <1>4, <1>5, <3>2 DEF Chain
    <3> QED  BY <3>3, <3>4 DEF Promise!Apart, Promise!End
  <2> QED  BY <2>1, <2>2
<1>13. new = [old EXCEPT ![o] = new[o]]
  <2>1. Owned(at, s, D) /\ Owned(to, u, D) /\ o \in D
    BY <1>1
  <2>2. Seen(to, u, asked1) = [Seen(at, s, asked) EXCEPT ![o] = Seen(to, u, asked1)[o]]
    BY ONLY <1>6, <2>1, SeenChanges
  <2> QED  BY <2>2
<1> QED  BY <1>9, <1>10, <1>11, <1>12, <1>13 DEF Promise!Unused

\* No free block has n units: then wherever n units would lie, somebody has one of them.
LEMMA NoRoom ==
    ASSUME NEW at, NEW s, NEW D, Owned(at, s, D), NEW asked,
           NEW first, NEW least, Whole(s, first, least),
           NEW n \in Nat \ {0}, \A b \in FreeOf(s) : ~(s.blocks[b].size >= n),
           NEW a \in Nat, first <= a, a + n <= s.end
    PROVE  ~Promise!Unused(Promise!Block(a, n, n), Seen(at, s, asked))
<1>1. PICK f : f = s.blocks
  OBVIOUS
<1>2. PICK E : E = {} /\ Loose(s, first, least, E)
  BY DEF Whole
<1>3. Chain(f, first, s.end) /\ Apart(f, E) /\ first \in Nat /\ s.end \in Nat
  BY <1>1, <1>2 DEF Loose, Chain
<1>4. \A b \in DOMAIN f : b \in Nat /\ f[b].size \in Nat \ {0} /\ b + f[b].size \in DOMAIN f \cup {s.end}
  BY <1>3 DEF Chain
<1>5. DOMAIN Seen(at, s, asked) = D
  BY DEF Owned, Seen
<1>6. ASSUME NEW c \in UsedOf(s), c < a + n, a < c + f[c].size
      PROVE  ~Promise!Unused(Promise!Block(a, n, n), Seen(at, s, asked))
  <2>1. PICK o \in D : at[o] = c /\ c \in Nat
    BY DEF Owned
  <2>2. at[o] # Nowhere
    BY <2>1, NowhereProps
  <2>3. Seen(at, s, asked)[o] = Promise!Block(c, f[c].size, asked[o])
    BY <1>1, <2>1, <2>2, SeenProps
  <2>4. f[c].size \in Nat
    BY <1>1, <1>4 DEF UsedOf
  <2>5. ~Promise!Apart(Promise!Block(c, f[c].size, asked[o]), Promise!Block(a, n, n))
    BY <1>6, <2>1, <2>4 DEF Promise!Apart, Promise!End, Promise!Block
  <2> QED  BY <1>5, <2>3, <2>5 DEF Promise!Unused
<1>7. PICK b \in DOMAIN f : b <= a /\ a < b + f[b].size
  <2>1. a \in first .. s.end - 1
    BY <1>3
  <2> QED  BY <1>3, <2>1, UnitInBlock
<1>8. CASE f[b].used
  <2>1. b \in UsedOf(s)
    BY <1>1, <1>8 DEF UsedOf
  <2>2. b < a + n
    BY <1>4, <1>7
  <2> QED  BY <1>6, <1>7, <2>1, <2>2
<1>9. CASE ~f[b].used
  <2>1. b \in FreeOf(s) /\ f[b].size < n
    BY <1>1, <1>4, <1>9 DEF FreeOf
  <2>2. PICK c \in Nat : c = b + f[b].size /\ a < c /\ c < a + n
    BY <1>4, <1>7, <2>1
  <2>3. c \in DOMAIN f
    BY <1>3, <1>4, <2>2
  <2>4. c \in UsedOf(s)
    BY <1>1, <1>2, <1>3, <1>9, <2>2, <2>3 DEF Apart, Idle, UsedOf
  <2>5. a < c + f[c].size
    BY <1>4, <2>2, <2>3
  <2> QED  BY <1>6, <2>2, <2>4, <2>5
<1> QED  BY <1>8, <1>9

\* What was asked for is a number, and who has a block has as much.
Asked(at, s, D, asked) ==
    /\ asked \in [D -> Nat]
    /\ \A o \in D : at[o] # Nowhere => s.blocks[at[o]].size >= asked[o]

AskedInv == Asked(slot, heap, Objects, slotSize) /\ Asked(place, vm, Tables, placeSize)

\* Who is handed a block has as much as was asked for, the others still have.
LEMMA AskedHanded ==
    ASSUME NEW at, NEW s, NEW asked, NEW D, NEW t, NEW b, NEW first, NEW least, NEW to, NEW u, NEW asked1, NEW o, NEW n,
           HandedMore(at, s, asked, D, t, b, first, least, to, u, asked1, o, n),
           Asked(at, s, D, asked), asked1 = [asked EXCEPT ![o] = n]
    PROVE  Asked(to, u, D, asked1)
<1>1. o \in D /\ n \in Nat /\ asked \in [D -> Nat] /\ t.blocks[b].size >= n
  BY DEF HandedMore
<1>2. asked1 \in [D -> Nat] /\ asked1[o] = n
  BY <1>1
<1>3. /\ to[o] = b /\ u.blocks[b].size = t.blocks[b].size
      /\ \A p \in D \ {o} : /\ to[p] = at[p] /\ asked1[p] = asked[p]
                            /\ at[p] # Nowhere => u.blocks[at[p]].size = s.blocks[at[p]].size
  BY HandedKeeps
<1>4. ASSUME NEW p \in D, to[p] # Nowhere
      PROVE  u.blocks[to[p]].size >= asked1[p]
  <2>1. CASE p = o
    BY <1>1, <1>2, <1>3, <2>1
  <2>2. CASE p # o
    BY <1>3, <1>4, <2>2 DEF Asked
  <2> QED  BY <2>1, <2>2
<1> QED  BY <1>2, <1>4 DEF Asked

\* An object is given a block.
LEMMA ObjectGiven ==
    ASSUME IInv, AskedInv, NEW o \in Objects, NEW n \in Nat \ {0},
           slot[o] # Nowhere => heap.blocks[slot[o]].size < n,
           NEW t, NEW b, Whole(t, 0, MinHeapBlock), t.blocks[b].size >= n, t.end = border,
           Handed(slot, heap, t, b, slot', heap', o), slotSize' = [slotSize EXCEPT ![o] = n],
           Owned(slot, heap, Objects)', refused' = NoRefusal, UNCHANGED <<border, vm, place, placeSize>>
    PROVE  Promise!GiveObject(o, n) /\ AskedInv'
<1>1. slotSize \in [Objects -> Nat] /\ Owned(slot, heap, Objects)
  BY DEF IInv, AskedInv, Asked
<1>2. slotSize'[o] = n /\ \A p \in Objects \ {o} : slotSize'[p] = slotSize[p]
  BY <1>1
<1>3. PICK old : old = Seen(slot, heap, slotSize)
  OBVIOUS
<1>4. PICK new : new = Seen(slot', heap', slotSize')
  OBVIOUS
<1>5. /\ old[o].size < n
      /\ new[o].at \in Nat /\ new[o].size >= n /\ new[o].asked = n /\ Promise!End(new[o]) <= border
      /\ Promise!Unused(new[o], old)
      /\ new = [old EXCEPT ![o] = new[o]]
      /\ Asked(slot, heap, Objects, slotSize)'
  <2>1. PICK to : to = slot'
    OBVIOUS
  <2>2. PICK u : u = heap'
    OBVIOUS
  <2>3. PICK asked1 : asked1 = slotSize'
    OBVIOUS
  <2>4. new = Seen(to, u, asked1)
    BY <1>4, <2>1, <2>2, <2>3
  <2>5. Handed(slot, heap, t, b, to, u, o) /\ Owned(to, u, Objects)
    BY <2>1, <2>2
  <2>6. asked1[o] = n /\ \A p \in Objects \ {o} : asked1[p] = slotSize[p]
    BY <1>2, <2>3
  <2>7. HandedMore(slot, heap, slotSize, Objects, t, b, 0, MinHeapBlock, to, u, asked1, o, n)
    BY <1>1, <2>5, <2>6 DEF HandedMore
  <2>8. /\ old[o].size < n
        /\ new[o].at \in Nat /\ new[o].at >= 0
        /\ new[o].size >= n /\ new[o].asked = n /\ Promise!End(new[o]) <= t.end
        /\ Promise!Unused(new[o], old)
        /\ new = [old EXCEPT ![o] = new[o]]
    BY <1>3, <2>4, <2>7, SeenHanded
  <2>9. Asked(to, u, Objects, asked1)
    <3>1. Asked(slot, heap, Objects, slotSize) /\ asked1 = [slotSize EXCEPT ![o] = n]
      BY <2>3 DEF AskedInv
    <3> QED  BY <2>7, <3>1, AskedHanded
  <2>10. Asked(slot, heap, Objects, slotSize)'
    BY <2>1, <2>2, <2>3, <2>9
  <2> QED  BY <2>8, <2>10
<1>6. new[o].at >= 0
  BY <1>5
<1>7. refused' = Promise!NoRefusal
  BY DEF NoRefusal, Promise!NoRefusal, Promise!Refusal
<1>8. Seen(place, vm, placeSize)' = Seen(place, vm, placeSize)
  OBVIOUS
<1>9. AskedInv'
  <2>1. Asked(place, vm, Tables, placeSize)'
    BY DEF AskedInv
  <2> QED  BY <1>5, <2>1 DEF AskedInv
<1>10. Promise!GiveObject(o, n)
  BY <1>3, <1>4, <1>5, <1>6, <1>7, <1>8 DEF Promise!GiveObject
<1> QED  BY <1>9, <1>10

\* A table is.
LEMMA TableGiven ==
    ASSUME IInv, AskedInv, NEW w \in Tables, NEW n \in Nat \ {0}, NEW first, VmInv(vm, border, first),
           place[w] # Nowhere => vm.blocks[place[w]].size < n,
           NEW t, NEW b, Whole(t, first, MinVmBlock), t.blocks[b].size >= n, t.end = Total,
           Handed(place, vm, t, b, place', vm', w), placeSize' = [placeSize EXCEPT ![w] = n],
           Owned(place, vm, Tables)', refused' = NoRefusal, UNCHANGED <<border, heap, slot, slotSize>>
    PROVE  Promise!GiveTable(w, n) /\ AskedInv'
<1>1. placeSize \in [Tables -> Nat] /\ Owned(place, vm, Tables) /\ border \in Nat
  BY DEF IInv, AskedInv, Asked
<1>2. placeSize'[w] = n /\ \A p \in Tables \ {w} : placeSize'[p] = placeSize[p]
  BY <1>1
<1>3. PICK old : old = Seen(place, vm, placeSize)
  OBVIOUS
<1>4. PICK new : new = Seen(place', vm', placeSize')
  OBVIOUS
<1>5. /\ old[w].size < n
      /\ new[w].at \in Nat /\ new[w].at >= first
      /\ new[w].size >= n /\ new[w].asked = n /\ Promise!End(new[w]) <= Total
      /\ Promise!Unused(new[w], old)
      /\ new = [old EXCEPT ![w] = new[w]]
      /\ Asked(place, vm, Tables, placeSize)'
  <2>1. PICK to : to = place'
    OBVIOUS
  <2>2. PICK u : u = vm'
    OBVIOUS
  <2>3. PICK asked1 : asked1 = placeSize'
    OBVIOUS
  <2>4. new = Seen(to, u, asked1)
    BY <1>4, <2>1, <2>2, <2>3
  <2>5. Handed(place, vm, t, b, to, u, w) /\ Owned(to, u, Tables)
    BY <2>1, <2>2
  <2>6. asked1[w] = n /\ \A p \in Tables \ {w} : asked1[p] = placeSize[p]
    BY <1>2, <2>3
  <2>7. HandedMore(place, vm, placeSize, Tables, t, b, first, MinVmBlock, to, u, asked1, w, n)
    BY <1>1, <2>5, <2>6 DEF HandedMore
  <2>8. /\ old[w].size < n
        /\ new[w].at \in Nat /\ new[w].at >= first
        /\ new[w].size >= n /\ new[w].asked = n /\ Promise!End(new[w]) <= t.end
        /\ Promise!Unused(new[w], old)
        /\ new = [old EXCEPT ![w] = new[w]]
    BY <1>3, <2>4, <2>7, SeenHanded
  <2>9. Asked(to, u, Tables, asked1)
    <3>1. Asked(place, vm, Tables, placeSize) /\ asked1 = [placeSize EXCEPT ![w] = n]
      BY <2>3 DEF AskedInv
    <3> QED  BY <2>7, <3>1, AskedHanded
  <2>10. Asked(place, vm, Tables, placeSize)'
    BY <2>1, <2>2, <2>3, <2>9
  <2> QED  BY <2>8, <2>10
<1>6. new[w].at >= border
  <2>1. first \in Nat /\ border <= first
    BY DEF VmInv, Whole, Loose, Chain
  <2> QED  BY <1>1, <1>5, <2>1
<1>7. refused' = Promise!NoRefusal
  BY DEF NoRefusal, Promise!NoRefusal, Promise!Refusal
<1>8. Seen(slot, heap, slotSize)' = Seen(slot, heap, slotSize)
  OBVIOUS
<1>9. AskedInv'
  <2>1. Asked(slot, heap, Objects, slotSize)'
    BY DEF AskedInv
  <2> QED  BY <1>5, <2>1 DEF AskedInv
<1>10. Promise!GiveTable(w, n)
  BY <1>3, <1>4, <1>5, <1>6, <1>7, <1>8 DEF Promise!GiveTable
<1> QED  BY <1>9, <1>10

\* A request of the heap is refused.
LEMMA ObjectRefused ==
    ASSUME IInv, NEW n \in Nat \ {0}, Refuse("heap", n), \A b \in FreeOf(heap) : ~(heap.blocks[b].size >= n)
    PROVE  Promise!RefuseObject(n)
<1>1. /\ Owned(slot, heap, Objects) /\ Whole(heap, 0, MinHeapBlock) /\ heap.end = border /\ border \in Nat
  BY DEF IInv, HeapInv
<1>2. refused' = Promise!Refusal("heap", n)
  BY DEF Refuse, Promise!Refusal
<1>3. ASSUME NEW a \in 0 .. border - n
      PROVE  ~Promise!Unused(Promise!Block(a, n, n), Seen(slot, heap, slotSize))
  <2>1. a \in Nat /\ 0 <= a /\ a + n <= heap.end
    BY <1>1
  <2> QED  BY <1>1, <2>1, NoRoom
<1>4. border' = border /\ UNCHANGED <<slot, heap, slotSize, place, vm, placeSize>>
  BY DEF Refuse
<1>5. UNCHANGED <<border, Seen(slot, heap, slotSize), Seen(place, vm, placeSize)>>
  BY <1>4
<1> QED  BY <1>2, <1>3, <1>5 DEF Promise!RefuseObject

\* A request of the VM area is, whose lowest units may be in no block.
LEMMA TableRefused ==
    ASSUME IInv, NEW n \in Nat \ {0}, Refuse("vm", n), \A b \in FreeOf(vm) : ~(vm.blocks[b].size >= n)
    PROVE  Promise!RefuseTable(n)
<1>1. Owned(place, vm, Tables) /\ border \in Nat
  BY DEF IInv
<1>2. PICK first \in Nat : Whole(vm, first, MinVmBlock) /\ vm.end = Total /\ first < border + MinVmBlock
  BY DEF IInv, VmInv, Whole, Loose, Chain
<1>3. refused' = Promise!Refusal("vm", n)
  BY DEF Refuse, Promise!Refusal
<1>4. ASSUME NEW a \in border + (MinVmBlock - 1) .. Total - n
      PROVE  ~Promise!Unused(Promise!Block(a, n, n), Seen(place, vm, placeSize))
  <2>1. a \in Nat /\ first <= a /\ a + n <= vm.end
    BY <1>1, <1>2, Scale
  <2> QED  BY <1>1, <1>2, <2>1, NoRoom
<1>5. border' = border /\ UNCHANGED <<slot, heap, slotSize, place, vm, placeSize>>
  BY DEF Refuse
<1>6. UNCHANGED <<border, Seen(slot, heap, slotSize), Seen(place, vm, placeSize)>>
  BY <1>5
<1> QED  BY <1>3, <1>4, <1>6 DEF Promise!RefuseTable

\* Somebody gives their block back.
TakenFrom(at, s, asked, D, t, to, asked1, o) ==
    /\ Owned(at, s, D) /\ asked \in [D -> Nat] /\ o \in D /\ at[o] # Nowhere
    /\ TookBack(s, t, at[o]) /\ to = [at EXCEPT ![o] = Nowhere] /\ Owned(to, t, D)
    /\ asked1 = [asked EXCEPT ![o] = 0]

\* They have nothing then, and the others see nothing of it.
LEMMA SeenTook ==
    ASSUME NEW at, NEW s, NEW asked, NEW D, NEW t, NEW to, NEW asked1, NEW o,
           TakenFrom(at, s, asked, D, t, to, asked1, o)
    PROVE  /\ Seen(to, t, asked1) = [Seen(at, s, asked) EXCEPT ![o] = Promise!Nothing]
           /\ Seen(at, s, asked)[o] # Promise!Nothing
           /\ Asked(at, s, D, asked) => Asked(to, t, D, asked1)
<1> USE DEF TakenFrom
<1>1. at \in [D -> Nat \cup {Nowhere}] /\ \A p \in D : at[p] # Nowhere => at[p] \in UsedOf(s)
  BY DEF Owned
<1>2. to[o] = Nowhere /\ \A p \in D \ {o} : to[p] = at[p]
  BY <1>1
<1>3. asked1 \in [D -> Nat] /\ \A p \in D \ {o} : asked1[p] = asked[p]
  OBVIOUS
<1>4. ASSUME NEW p \in D \ {o}, at[p] # Nowhere
      PROVE  t.blocks[at[p]].size = s.blocks[at[p]].size
  <2>1. at[p] \in UsedOf(s) /\ at[p] # at[o]
    BY <1>1, <1>4 DEF Owned
  <2> QED  BY <2>1 DEF TookBack
<1>5. Seen(to, t, asked1) = [Seen(at, s, asked) EXCEPT ![o] = Seen(to, t, asked1)[o]]
  <2>1. \A p \in D \ {o} : /\ to[p] = at[p] /\ asked1[p] = asked[p]
                           /\ at[p] # Nowhere => t.blocks[at[p]].size = s.blocks[at[p]].size
    BY <1>2, <1>3, <1>4
  <2>2. Owned(at, s, D) /\ Owned(to, t, D) /\ o \in D
    OBVIOUS
  <2> QED  BY ONLY <2>1, <2>2, SeenChanges
<1>6. Seen(to, t, asked1)[o] = Promise!Nothing
  <2>1. Owned(to, t, D) /\ o \in D
    OBVIOUS
  <2> QED  BY ONLY <1>2, <2>1, SeenProps
<1>7. Seen(at, s, asked)[o] # Promise!Nothing
  <2>1. PICK old : old = Seen(at, s, asked)
    OBVIOUS
  <2>2. old[o].at = at[o] /\ at[o] \in Nat
    BY <1>1, <2>1, SeenFields
  <2>3. Promise!Nothing.at = -1
    BY DEF Promise!Nothing, Promise!Block
  <2>4. old[o].at # -1
    BY <2>2
  <2> QED  BY <2>1, <2>3, <2>4
<1>8. Asked(at, s, D, asked) => Asked(to, t, D, asked1)
  BY <1>2, <1>3, <1>4 DEF Asked
<1> QED  BY <1>5, <1>6, <1>7, <1>8

-----------------------------------------------------------------------------
(* Every step is one that was promised *)

\* A refused request.
LEMMA RefusedAsked ==
    ASSUME AskedInv, NEW area, NEW n, Refuse(area, n)
    PROVE  AskedInv'
<1>1. UNCHANGED <<slot, heap, slotSize, place, vm, placeSize>>
  BY DEF Refuse
<1> QED  BY <1>1 DEF AskedInv

\* An object is made.
LEMMA NewPromised ==
    ASSUME IInv, AskedInv, IInv', NEW o \in Objects, NEW size \in ObjectSizes, New(o, size)
    PROVE  AskedInv' /\ (Promise!GiveObject(o, HeapHeader + size) \/ Promise!RefuseObject(HeapHeader + size))
<1>1. PICK n \in Nat : n = HeapHeader + size /\ n >= MinHeapBlock
  BY Sizes
<1>2. n \in Nat \ {0}
  BY <1>1, Scale
<1>3. Whole(heap, 0, MinHeapBlock) /\ Len(heap.lists) = 1 /\ heap.end = border
  BY DEF IInv, HeapInv
<1>4. CASE HeapFit(n) = 0
  <2>1. Refuse("heap", n)
    BY <1>1, <1>4 DEF New
  <2>2. \A b \in FreeOf(heap) : ~(heap.blocks[b].size >= n)
    BY <1>3, <1>4, HeapFitProps
  <2> QED  BY <1>1, <1>2, <2>1, <2>2, ObjectRefused, RefusedAsked
<1>5. CASE HeapFit(n) # 0
  <2>1. PICK t : t = HeapTake(n, o)[1]
    OBVIOUS
  <2>2. PICK b : b = HeapTake(n, o)[2]
    OBVIOUS
  <2>3. /\ slot[o] = Nowhere /\ heap' = t /\ slot' = [slot EXCEPT ![o] = b]
        /\ slotSize' = [slotSize EXCEPT ![o] = n]
        /\ refused' = NoRefusal /\ UNCHANGED <<border, vm, place, placeSize>>
    BY <1>1, <1>5, <2>1, <2>2 DEF New
  <2>4. Whole(t, 0, MinHeapBlock) /\ Gave(heap, t, b, o) /\ t.blocks[b].size >= n
    BY <1>1, <1>3, <1>5, <2>1, <2>2, HeapTakeGives DEF Owner
  <2>5. t.end = border
    BY <1>3, <2>4 DEF Gave
  <2>6. Handed(slot, heap, t, b, slot', heap', o)
    BY <2>3, <2>4 DEF Handed
  <2>7. Owned(slot, heap, Objects)'
    BY DEF IInv
  <2> QED  BY <1>1, <1>2, <2>3, <2>4, <2>5, <2>6, <2>7, ObjectGiven
<1> QED  BY <1>4, <1>5

\* An object grows.
LEMMA GrowPromised ==
    ASSUME IInv, AskedInv, IInv', NEW o \in Objects, NEW size \in ObjectSizes, Grow(o, size)
    PROVE  AskedInv' /\ (Promise!GiveObject(o, HeapHeader + size) \/ Promise!RefuseObject(HeapHeader + size))
<1>1. PICK n \in Nat : n = HeapHeader + size /\ n >= MinHeapBlock
  BY Sizes
<1>2. n \in Nat \ {0}
  BY <1>1, Scale
<1>3. /\ Whole(heap, 0, MinHeapBlock) /\ Len(heap.lists) = 1 /\ heap.end = border
      /\ Owned(slot, heap, Objects)
  BY DEF IInv, HeapInv
<1>4. CASE HeapFit(n) = 0
  <2>1. Refuse("heap", n)
    BY <1>1, <1>4 DEF Grow
  <2>2. \A b \in FreeOf(heap) : ~(heap.blocks[b].size >= n)
    BY <1>3, <1>4, HeapFitProps
  <2> QED  BY <1>1, <1>2, <2>1, <2>2, ObjectRefused, RefusedAsked
<1>5. CASE HeapFit(n) # 0
  <2>1. PICK t : t = HeapTake(n, o)[1]
    OBVIOUS
  <2>2. PICK b : b = HeapTake(n, o)[2]
    OBVIOUS
  <2>3. PICK u : u = Free(t, slot[o])
    OBVIOUS
  <2>4. /\ slot[o] # Nowhere /\ n > SizeAt(heap, slot[o]) /\ heap' = u /\ slot' = [slot EXCEPT ![o] = b]
        /\ slotSize' = [slotSize EXCEPT ![o] = n]
        /\ refused' = NoRefusal /\ UNCHANGED <<border, vm, place, placeSize>>
    BY <1>1, <1>5, <2>1, <2>2, <2>3 DEF Grow
  <2>5. Whole(t, 0, MinHeapBlock) /\ Gave(heap, t, b, o) /\ t.blocks[b].size >= n
    BY <1>1, <1>3, <1>5, <2>1, <2>2, HeapTakeGives DEF Owner
  <2>6. slot[o] \in UsedOf(heap) /\ slot[o] \in UsedOf(t)
    BY <1>3, <2>4, <2>5 DEF Owned, Gave
  <2>7. TookBack(t, u, slot[o])
    BY <2>3, <2>5, <2>6, Scale, FreeWhole
  <2>8. t.end = border
    BY <1>3, <2>5 DEF Gave
  <2>9. Handed(slot, heap, t, b, slot', heap', o)
    BY <2>4, <2>5, <2>7 DEF Handed, TookBack
  <2>10. Owned(slot, heap, Objects)'
    BY DEF IInv
  <2>11. heap.blocks[slot[o]].size < n
    <3>1. heap.blocks[slot[o]].size \in Nat
      BY <1>3, <2>6 DEF Whole, Loose, Chain, UsedOf
    <3> QED  BY <2>4, <3>1 DEF SizeAt
  <2> QED  BY <1>1, <1>2, <2>4, <2>5, <2>8, <2>9, <2>10, <2>11, ObjectGiven
<1> QED  BY <1>4, <1>5

\* An object is freed.
LEMMA ReleasePromised ==
    ASSUME IInv, AskedInv, IInv', NEW o \in Objects, Release(o)
    PROVE  AskedInv' /\ Promise!TakeObject(o)
<1>1. Whole(heap, 0, MinHeapBlock) /\ Owned(slot, heap, Objects) /\ Owned(slot, heap, Objects)'
  BY DEF IInv, HeapInv
<1>2. PICK u : u = Free(heap, slot[o])
  OBVIOUS
<1>3. PICK to : to = [slot EXCEPT ![o] = Nowhere]
  OBVIOUS
<1>4. PICK asked1 : asked1 = [slotSize EXCEPT ![o] = 0]
  OBVIOUS
<1>5. /\ slot[o] # Nowhere /\ heap' = u /\ slot' = to /\ slotSize' = asked1
      /\ refused' = NoRefusal /\ UNCHANGED <<border, vm, place, placeSize>>
  BY <1>2, <1>3, <1>4 DEF Release
<1>6. slot[o] \in UsedOf(heap)
  BY <1>1, <1>5 DEF Owned
<1>7. TookBack(heap, u, slot[o])
  BY <1>1, <1>2, <1>6, Scale, FreeWhole
<1>8. Owned(to, u, Objects) /\ slotSize \in [Objects -> Nat] /\ Asked(slot, heap, Objects, slotSize)
  BY <1>1, <1>5 DEF AskedInv, Asked
<1>9. /\ Seen(to, u, asked1) = [Seen(slot, heap, slotSize) EXCEPT ![o] = Promise!Nothing]
      /\ Seen(slot, heap, slotSize)[o] # Promise!Nothing
      /\ Asked(to, u, Objects, asked1)
  <2>1. TakenFrom(slot, heap, slotSize, Objects, u, to, asked1, o)
    BY <1>1, <1>3, <1>4, <1>5, <1>7, <1>8 DEF TakenFrom
  <2> QED  BY <1>8, <2>1, SeenTook
<1>10. AskedInv'
  <2>1. Asked(slot, heap, Objects, slotSize)'
    BY <1>5, <1>9
  <2>2. Asked(place, vm, Tables, placeSize)'
    BY <1>5 DEF AskedInv
  <2> QED  BY <2>1, <2>2 DEF AskedInv
<1>11. refused' = Promise!NoRefusal
  BY <1>5 DEF NoRefusal, Promise!NoRefusal, Promise!Refusal
<1>12. Seen(place, vm, placeSize)' = Seen(place, vm, placeSize)
  BY <1>5
<1>13. Seen(slot, heap, slotSize)' = Seen(to, u, asked1)
  BY <1>5
<1>14. Promise!TakeObject(o)
  BY <1>5, <1>9, <1>11, <1>12, <1>13 DEF Promise!TakeObject
<1> QED  BY <1>10, <1>14

\* A user of the VM area gets a block.
LEMMA NewTablePromised ==
    ASSUME IInv, AskedInv, IInv', NEW w \in Tables, NEW size \in TableSizes, NewTable(w, size)
    PROVE  AskedInv' /\ (\/ Promise!GiveTable(w, Rounded(VmHeader + size))
                         \/ Promise!RefuseTable(Rounded(VmHeader + size)))
<1>1. PICK n \in Nat : n = Rounded(VmHeader + size) /\ n >= MinVmBlock
  BY Sizes
<1>2. n \in Nat \ {0}
  BY <1>1, Scale
<1>3. PICK first : VmInv(vm, border, first)
  BY DEF IInv
<1>4. Whole(vm, first, MinVmBlock) /\ Len(vm.lists) = Len(Classes) + 1 /\ vm.end = Total
  BY <1>3 DEF VmInv
<1>5. CASE VmFits(n) = {}
  <2>1. Refuse("vm", n)
    BY <1>1, <1>5 DEF NewTable
  <2>2. \A b \in FreeOf(vm) : ~(vm.blocks[b].size >= n)
    BY <1>4, <1>5, VmFitsProps
  <2> QED  BY <1>1, <1>2, <2>1, <2>2, TableRefused, RefusedAsked
<1>6. CASE VmFits(n) # {}
  <2>1. PICK t : t = VmTake(n, w)[1]
    OBVIOUS
  <2>2. PICK b : b = VmTake(n, w)[2]
    OBVIOUS
  <2>3. /\ place[w] = Nowhere /\ vm' = t /\ place' = [place EXCEPT ![w] = b]
        /\ placeSize' = [placeSize EXCEPT ![w] = n]
        /\ refused' = NoRefusal /\ UNCHANGED <<border, heap, slot, slotSize>>
    BY <1>1, <1>6, <2>1, <2>2 DEF NewTable
  <2>4. Whole(t, first, MinVmBlock) /\ Gave(vm, t, b, w) /\ t.blocks[b].size >= n
    BY <1>1, <1>4, <1>6, <2>1, <2>2, VmTakeGives DEF Owner
  <2>5. t.end = Total
    BY <1>4, <2>4 DEF Gave
  <2>6. Handed(place, vm, t, b, place', vm', w)
    BY <2>3, <2>4 DEF Handed
  <2>7. Owned(place, vm, Tables)'
    BY DEF IInv
  <2> QED  BY <1>1, <1>2, <1>3, <2>3, <2>4, <2>5, <2>6, <2>7, TableGiven
<1> QED  BY <1>5, <1>6

\* A user of the VM area gets a larger one.
LEMMA GrowTablePromised ==
    ASSUME IInv, AskedInv, IInv', NEW w \in Tables, NEW size \in TableSizes, GrowTable(w, size)
    PROVE  AskedInv' /\ (\/ Promise!GiveTable(w, Rounded(VmHeader + size))
                         \/ Promise!RefuseTable(Rounded(VmHeader + size)))
<1>1. PICK m \in Nat, n \in Nat : m = VmHeader + size /\ n = Rounded(m) /\ n >= m /\ n >= MinVmBlock
  <2>1. VmHeader + size \in Nat /\ VmHeader + size >= MinVmBlock
    <3>1. size \in Nat /\ size >= 1
      BY PoolAssumption
    <3> QED  BY <3>1, Scale
  <2>2. Rounded(VmHeader + size) \in Nat /\ Rounded(VmHeader + size) >= VmHeader + size
    BY <2>1, RoundedProps
  <2> QED  BY <2>1, <2>2, Sizes
<1>2. n \in Nat \ {0}
  BY <1>1, Scale
<1>3. PICK first : VmInv(vm, border, first)
  BY DEF IInv
<1>4. /\ Whole(vm, first, MinVmBlock) /\ Len(vm.lists) = Len(Classes) + 1 /\ vm.end = Total
      /\ Owned(place, vm, Tables)
  BY <1>3 DEF VmInv, IInv
<1>5. CASE VmFits(n) = {}
  <2>1. Refuse("vm", n)
    BY <1>1, <1>5 DEF GrowTable
  <2>2. \A b \in FreeOf(vm) : ~(vm.blocks[b].size >= n)
    BY <1>4, <1>5, VmFitsProps
  <2> QED  BY <1>1, <1>2, <2>1, <2>2, TableRefused, RefusedAsked
<1>6. CASE VmFits(n) # {}
  <2>1. PICK t : t = VmTake(n, w)[1]
    OBVIOUS
  <2>2. PICK b : b = VmTake(n, w)[2]
    OBVIOUS
  <2>3. PICK u : u = Free(t, place[w])
    OBVIOUS
  <2>4. /\ place[w] # Nowhere /\ m > SizeAt(vm, place[w]) /\ vm' = u /\ place' = [place EXCEPT ![w] = b]
        /\ placeSize' = [placeSize EXCEPT ![w] = n]
        /\ refused' = NoRefusal /\ UNCHANGED <<border, heap, slot, slotSize>>
    BY <1>1, <1>6, <2>1, <2>2, <2>3 DEF GrowTable
  <2>5. Whole(t, first, MinVmBlock) /\ Gave(vm, t, b, w) /\ t.blocks[b].size >= n
    BY <1>1, <1>4, <1>6, <2>1, <2>2, VmTakeGives DEF Owner
  <2>6. place[w] \in UsedOf(vm) /\ place[w] \in UsedOf(t)
    BY <1>4, <2>4, <2>5 DEF Owned, Gave
  <2>7. TookBack(t, u, place[w])
    BY <2>3, <2>5, <2>6, Scale, FreeWhole
  <2>8. t.end = Total
    BY <1>4, <2>5 DEF Gave
  <2>9. Handed(place, vm, t, b, place', vm', w)
    BY <2>4, <2>5, <2>7 DEF Handed, TookBack
  <2>10. Owned(place, vm, Tables)'
    BY DEF IInv
  <2>11. vm.blocks[place[w]].size < n
    <3>1. vm.blocks[place[w]].size \in Nat
      BY <1>4, <2>6 DEF Whole, Loose, Chain, UsedOf
    <3> QED  BY <1>1, <2>4, <3>1 DEF SizeAt
  <2> QED  BY <1>1, <1>2, <1>3, <2>4, <2>5, <2>8, <2>9, <2>10, <2>11, TableGiven
<1> QED  BY <1>5, <1>6

\* A user of the VM area gives its block back.
LEMMA FreeTablePromised ==
    ASSUME IInv, AskedInv, IInv', NEW w \in Tables, FreeTable(w)
    PROVE  AskedInv' /\ Promise!TakeTable(w)
<1>1. PICK first : Whole(vm, first, MinVmBlock)
  BY DEF IInv, VmInv
<1>2. Owned(place, vm, Tables) /\ Owned(place, vm, Tables)'
  BY DEF IInv
<1>3. PICK u : u = Free(vm, place[w])
  OBVIOUS
<1>4. PICK to : to = [place EXCEPT ![w] = Nowhere]
  OBVIOUS
<1>5. PICK asked1 : asked1 = [placeSize EXCEPT ![w] = 0]
  OBVIOUS
<1>6. /\ place[w] # Nowhere /\ vm' = u /\ place' = to /\ placeSize' = asked1
      /\ refused' = NoRefusal /\ UNCHANGED <<border, heap, slot, slotSize>>
  BY <1>3, <1>4, <1>5 DEF FreeTable
<1>7. place[w] \in UsedOf(vm)
  BY <1>2, <1>6 DEF Owned
<1>8. TookBack(vm, u, place[w])
  BY <1>1, <1>3, <1>7, Scale, FreeWhole
<1>9. Owned(to, u, Tables) /\ placeSize \in [Tables -> Nat] /\ Asked(place, vm, Tables, placeSize)
  BY <1>2, <1>6 DEF AskedInv, Asked
<1>10. /\ Seen(to, u, asked1) = [Seen(place, vm, placeSize) EXCEPT ![w] = Promise!Nothing]
       /\ Seen(place, vm, placeSize)[w] # Promise!Nothing
       /\ Asked(to, u, Tables, asked1)
  <2>1. TakenFrom(place, vm, placeSize, Tables, u, to, asked1, w)
    BY <1>2, <1>4, <1>5, <1>6, <1>8, <1>9 DEF TakenFrom
  <2> QED  BY <1>9, <2>1, SeenTook
<1>11. AskedInv'
  <2>1. Asked(place, vm, Tables, placeSize)'
    BY <1>6, <1>10
  <2>2. Asked(slot, heap, Objects, slotSize)'
    BY <1>6 DEF AskedInv
  <2> QED  BY <2>1, <2>2 DEF AskedInv
<1>12. refused' = Promise!NoRefusal
  BY <1>6 DEF NoRefusal, Promise!NoRefusal, Promise!Refusal
<1>13. Seen(slot, heap, slotSize)' = Seen(slot, heap, slotSize)
  BY <1>6
<1>14. Seen(place, vm, placeSize)' = Seen(to, u, asked1)
  BY <1>6
<1>15. Promise!TakeTable(w)
  BY <1>6, <1>10, <1>12, <1>13, <1>14 DEF Promise!TakeTable
<1> QED  BY <1>11, <1>15

\* Nothing is seen of a change that keeps the used blocks.
LEMMA SeenSame ==
    ASSUME NEW at, NEW s, NEW D, Owned(at, s, D), NEW t, SameUsed(s, t), Owned(at, t, D), NEW asked
    PROVE  /\ Seen(at, t, asked) = Seen(at, s, asked)
           /\ Asked(at, s, D, asked) => Asked(at, t, D, asked)
<1>1. \A o \in D : at[o] # Nowhere => t.blocks[at[o]].size = s.blocks[at[o]].size
  BY DEF Owned, SameUsed
<1>2. PICK old : old = Seen(at, s, asked)
  OBVIOUS
<1>3. PICK new : new = Seen(at, t, asked)
  OBVIOUS
<1>4. DOMAIN at = D
  BY DEF Owned
<1>5. old = [p \in D |-> old[p]] /\ new = [p \in D |-> new[p]]
  BY <1>2, <1>3, <1>4 DEF Seen
<1>6. \A p \in D : new[p] = old[p]
  BY <1>1, <1>2, <1>3, SeenProps
<1>7. Asked(at, s, D, asked) => Asked(at, t, D, asked)
  BY <1>1 DEF Asked
<1> QED  BY <1>2, <1>3, <1>5, <1>6, <1>7

\* A block that moves keeps its size.
LEMMA BlockMoves ==
    ASSUME NEW x, NEW y, NEW z, NEW m
    PROVE  /\ [Promise!Block(x, y, z) EXCEPT !.at = Promise!Block(m, y, z).at] = Promise!Block(m, y, z)
           /\ Promise!Block(x, y, z).at = x /\ Promise!Block(x, y, z).size = y
BY DEF Promise!Block

\* What the objects' users see of a safe point: h is the heap then, to says where they are.
LEMMA SeenMoves ==
    ASSUME NEW at, NEW s, NEW D, Owned(at, s, D), NEW to, NEW t, Owned(to, t, D), NEW asked,
           \A o \in D : /\ at[o] = Nowhere <=> to[o] = Nowhere
                        /\ at[o] # Nowhere => t.blocks[to[o]].size = s.blocks[at[o]].size,
           NEW old, old = Seen(at, s, asked), NEW new, new = Seen(to, t, asked)
    PROVE  new = [o \in D |-> [old[o] EXCEPT !.at = new[o].at]]
<1>1. DOMAIN to = D
  BY DEF Owned
<1>2. new = [o \in D |-> new[o]]
  BY <1>1 DEF Seen
<1>3. ASSUME NEW o \in D
      PROVE  new[o] = [old[o] EXCEPT !.at = new[o].at]
  <2>1. CASE at[o] = Nowhere
    <3>1. old[o] = Promise!Nothing /\ new[o] = Promise!Nothing
      BY <2>1, SeenProps
    <3>2. [Promise!Nothing EXCEPT !.at = Promise!Nothing.at] = Promise!Nothing
      BY BlockMoves DEF Promise!Nothing
    <3> QED  BY <3>1, <3>2
  <2>2. CASE at[o] # Nowhere
    <3>1. /\ old[o] = Promise!Block(at[o], s.blocks[at[o]].size, asked[o])
          /\ new[o] = Promise!Block(to[o], s.blocks[at[o]].size, asked[o])
      BY <2>2, SeenProps
    <3> QED  BY <3>1, BlockMoves
  <2> QED  BY <2>1, <2>2
<1> QED  BY <1>2, <1>3

\* The blocks of a packed area take all units up to where the free room begins.
LEMMA PackedUnits ==
    ASSUME NEW at, NEW s, NEW D, Owned(at, s, D), Packed(s), NEW asked,
           NEW seen, seen = Seen(at, s, asked)
    PROVE  UNION {Promise!Units(seen[o]) : o \in D} = 0 .. (s.used - 1)
<1>1. PICK f : f = s.blocks
  OBVIOUS
<1>2. PICK U \in Nat : U = s.used /\ U <= s.end /\ s.end \in Nat
  BY PackedProps
<1>3. /\ Chain(f, 0, s.end)
      /\ \A b \in DOMAIN f : /\ b \in Nat /\ f[b].size \in Nat \ {0} /\ (f[b].used <=> b < U)
                             /\ b < U => b + f[b].size <= U
  BY <1>1, <1>2, PackedProps DEF Packed
<1>4. \A b \in UsedOf(s) : b \in DOMAIN f /\ f[b].used
  BY <1>1 DEF UsedOf
<1>5. \A o \in D : /\ at[o] = Nowhere => Promise!Units(seen[o]) = {}
                   /\ at[o] # Nowhere => Promise!Units(seen[o]) = at[o] .. (at[o] + f[at[o]].size - 1)
  <2> TAKE o \in D
  <2>1. CASE at[o] = Nowhere
    <3>1. seen[o].at = -1 /\ seen[o].size = 0
      BY <2>1, SeenFields
    <3>2. Promise!Units(seen[o]) = -1 .. (-1 + 0 - 1)
      BY <3>1 DEF Promise!Units, Promise!End
    <3> QED  BY <2>1, <3>2
  <2>2. CASE at[o] # Nowhere
    <3>1. seen[o].at = at[o] /\ seen[o].size = f[at[o]].size
      BY <1>1, <2>2, SeenFields
    <3>2. PICK b \in Nat, z \in Nat : b = at[o] /\ z = f[at[o]].size
      BY <1>3, <1>4, <2>2 DEF Owned
    <3>3. Promise!Units(seen[o]) = b .. (b + z - 1)
      BY <3>1, <3>2 DEF Promise!Units, Promise!End
    <3> QED  BY <2>2, <3>2, <3>3
  <2> QED  BY <2>1, <2>2
<1>6. ASSUME NEW o \in D, NEW x \in Promise!Units(seen[o])
      PROVE  x \in 0 .. U - 1
  <2>1. at[o] # Nowhere /\ x \in at[o] .. (at[o] + f[at[o]].size - 1)
    BY <1>5, <1>6
  <2>2. PICK b \in UsedOf(s) : b = at[o]
    BY <2>1 DEF Owned
  <2>3. b \in Nat /\ f[b].size \in Nat /\ b + f[b].size <= U
    BY <1>3, <1>4
  <2> QED  BY <1>2, <2>1, <2>2, <2>3
<1>7. ASSUME NEW x \in 0 .. U - 1
      PROVE  \E o \in D : x \in Promise!Units(seen[o])
  <2>1. x \in 0 .. s.end - 1 /\ x \in Nat /\ x < U
    BY <1>2
  <2>2. PICK b \in DOMAIN f : b <= x /\ x < b + f[b].size
    BY <1>3, <2>1, UnitInBlock
  <2>3. b < U /\ b \in Nat /\ f[b].size \in Nat
    BY <1>3, <2>1, <2>2
  <2>4. b \in UsedOf(s)
    BY <1>1, <1>3, <2>3 DEF UsedOf
  <2>5. PICK o \in D : at[o] = b
    BY <2>4 DEF Owned
  <2>6. at[o] # Nowhere
    BY <2>3, <2>5, NowhereProps
  <2>7. x \in at[o] .. (at[o] + f[at[o]].size - 1)
    BY <2>1, <2>2, <2>3, <2>5
  <2> QED  BY <1>5, <2>6, <2>7
<1> QED  BY <1>2, <1>6, <1>7

\* A safe point.
LEMMA SettlePromised ==
    ASSUME IInv, AskedInv, IInv', SafePoint
    PROVE  AskedInv' /\ Promise!Settle
<1>1. PICK n, h, k, v : Reached(n, h, k, v)
  BY SafePointReaches
<1>2. /\ n \in Nat /\ n + MinVmBlock <= Total
      /\ MovedHeap(h) /\ HeapInv(k, n) /\ Packed(k) /\ SameUsed(h, k) /\ SameUsed(vm, v)
      /\ border' = n /\ heap' = k /\ vm' = v /\ slot' = MovedSlots /\ place' = place /\ refused' = NoRefusal
  BY <1>1 DEF Reached
<1>3. slotSize' = slotSize /\ placeSize' = placeSize
  BY DEF SafePoint
<1>4. border \in Nat /\ HeapInv(heap, border) /\ Owned(slot, heap, Objects) /\ Owned(place, vm, Tables)
  BY DEF IInv
<1>5. PICK to : to = MovedSlots
  OBVIOUS
<1>6. Owned(to, k, Objects) /\ Owned(place, v, Tables)
  BY <1>2, <1>5 DEF IInv
<1>7. Live = UsedOf(heap)
  BY <1>4, LiveIsUsed
<1>8. \A b \in Live : /\ Moved(b) \in Nat /\ Moved(b) <= b /\ b \in Nat /\ heap.blocks[b].size \in Nat \ {0}
                      /\ \A c \in Live : b < c => Moved(b) + heap.blocks[b].size <= Moved(c)
  <2>1. \A b \in Live : b \in Nat /\ heap.blocks[b].size \in Nat \ {0}
    BY <1>4, <1>7 DEF HeapInv, Whole, Loose, Chain, UsedOf
  <2> QED  BY <1>4, <1>7, <2>1, MovedProps
<1>9. \A b \in Live : k.blocks[Moved(b)].size = heap.blocks[b].size
  BY <1>2 DEF MovedHeap, SameUsed
<1>10. \A o \in Objects : /\ slot[o] = Nowhere => to[o] = Nowhere
                          /\ slot[o] # Nowhere => slot[o] \in Live /\ to[o] = Moved(slot[o]) /\ to[o] # Nowhere
  <2>1. \A o \in Objects : slot[o] # Nowhere => slot[o] \in Live
    BY <1>4, <1>7 DEF Owned
  <2> QED  BY <1>5, <1>8, <2>1, NowhereProps DEF MovedSlots
<1>11. \A o \in Objects : /\ slot[o] = Nowhere <=> to[o] = Nowhere
                          /\ slot[o] # Nowhere => k.blocks[to[o]].size = heap.blocks[slot[o]].size
  BY <1>9, <1>10
<1>12. PICK old : old = Seen(slot, heap, slotSize)
  OBVIOUS
<1>13. PICK new : new = Seen(to, k, slotSize)
  OBVIOUS
<1>14. new = [o \in Objects |-> [old[o] EXCEPT !.at = new[o].at]]
  BY <1>4, <1>6, <1>11, <1>12, <1>13, SeenMoves
<1>15. \A o \in Objects :
          /\ slot[o] = Nowhere => old[o].at = -1 /\ new[o].at = -1 /\ new[o].size = 0
          /\ slot[o] # Nowhere => /\ old[o].at = slot[o] /\ new[o].at = Moved(slot[o])
                                  /\ new[o].size = heap.blocks[slot[o]].size
  <2>1. \A o \in Objects :
          /\ slot[o] = Nowhere => old[o].at = -1
          /\ slot[o] # Nowhere => old[o].at = slot[o]
    BY <1>4, <1>12, SeenFields
  <2>2. \A o \in Objects :
          /\ to[o] = Nowhere => new[o].at = -1 /\ new[o].size = 0
          /\ to[o] # Nowhere => new[o].at = to[o] /\ new[o].size = k.blocks[to[o]].size
    BY <1>6, <1>13, SeenFields
  <2> QED  BY <1>10, <1>11, <2>1, <2>2
<1>16. \A o \in Objects : new[o].at <= old[o].at
  BY <1>8, <1>10, <1>15
<1>17. ASSUME NEW o \in Objects, NEW p \in Objects, old[o].at < old[p].at
       PROVE  Promise!End(new[o]) <= new[p].at
  <2>1. slot[p] # Nowhere
    BY <1>8, <1>10, <1>15, <1>17
  <2>2. CASE slot[o] = Nowhere
    BY <1>8, <1>10, <1>15, <2>1, <2>2 DEF Promise!End
  <2>3. CASE slot[o] # Nowhere
    BY <1>8, <1>10, <1>15, <1>17, <2>1, <2>3 DEF Promise!End
  <2> QED  BY <2>2, <2>3
<1>18. \E top \in 0 .. n : UNION {Promise!Units(new[o]) : o \in Objects} = 0 .. (top - 1)
  <2>1. PICK top \in Nat : top = k.used /\ top <= n
    BY <1>2, PackedProps DEF HeapInv
  <2>2. UNION {Promise!Units(new[o]) : o \in Objects} = 0 .. (top - 1)
    BY <1>2, <1>6, <1>13, <2>1, PackedUnits
  <2> QED  BY <1>2, <2>1, <2>2
<1>19. Seen(place, v, placeSize) = Seen(place, vm, placeSize)
  BY <1>2, <1>4, <1>6, SeenSame
<1>20. PICK tables : tables = Seen(place, vm, placeSize)
  OBVIOUS
<1>21. ASSUME NEW w \in Tables, tables[w] # Promise!Nothing
       PROVE  tables[w].at >= n
  <2>1. place[w] # Nowhere /\ tables[w].at = place[w]
    BY <1>4, <1>20, <1>21, SeenProps, SeenFields
  <2>2. place[w] \in UsedOf(v)
    BY <1>6, <2>1 DEF Owned
  <2>3. PICK start : VmInv(v, n, start)
    BY <1>1 DEF Reached
  <2>4. start \in Nat /\ n <= start /\ place[w] \in Nat /\ start <= place[w]
    BY <2>2, <2>3 DEF VmInv, Whole, Loose, Chain, UsedOf
  <2> QED  BY <1>2, <2>1, <2>4
<1>22. AskedInv'
  <2>1. Asked(to, k, Objects, slotSize)
    BY <1>11 DEF AskedInv, Asked
  <2>2. Asked(place, v, Tables, placeSize)
    BY <1>2, <1>4, <1>6, SeenSame DEF AskedInv
  <2>3. Asked(slot, heap, Objects, slotSize)'
    BY <1>2, <1>3, <1>5, <2>1
  <2>4. Asked(place, vm, Tables, placeSize)'
    BY <1>2, <1>3, <2>2
  <2> QED  BY <2>3, <2>4 DEF AskedInv
<1>23. refused' = Promise!NoRefusal
  BY <1>2 DEF NoRefusal, Promise!NoRefusal, Promise!Refusal
<1>24. Seen(slot, heap, slotSize)' = new
  BY <1>2, <1>3, <1>5, <1>13
<1>25. Seen(place, vm, placeSize)' = tables
  BY <1>2, <1>3, <1>19, <1>20
<1>26. n \in 0 .. Total
  BY <1>2, Scale
<1>27. Promise!Settle
  <2>1. Seen(place, vm, placeSize)' = Seen(place, vm, placeSize)
    BY <1>20, <1>25
  <2>2. \A w \in Tables : Seen(place, vm, placeSize)[w] # Promise!Nothing => Seen(place, vm, placeSize)[w].at >= border'
    BY <1>2, <1>20, <1>21
  <2>3. border' \in 0 .. Total
    BY <1>2, <1>26
  <2>4. Seen(slot, heap, slotSize)' =
          [o \in Objects |-> [Seen(slot, heap, slotSize)[o] EXCEPT !.at = Seen(slot, heap, slotSize)'[o].at]]
    BY <1>12, <1>14, <1>24
  <2>5. \A o \in Objects : Seen(slot, heap, slotSize)'[o].at <= Seen(slot, heap, slotSize)[o].at
    BY <1>12, <1>16, <1>24
  <2>6. \A o, p \in Objects :
          Seen(slot, heap, slotSize)[o].at < Seen(slot, heap, slotSize)[p].at
            => Promise!End(Seen(slot, heap, slotSize)'[o]) <= Seen(slot, heap, slotSize)'[p].at
    BY <1>12, <1>17, <1>24
  <2>7. \E top \in 0 .. border' : UNION {Promise!Units(Seen(slot, heap, slotSize)'[o]) : o \in Objects} = 0 .. (top - 1)
    BY <1>2, <1>18, <1>24
  <2> QED  BY <1>23, <2>1, <2>2, <2>3, <2>4, <2>5, <2>6, <2>7 DEF Promise!Settle
<1> QED  BY <1>22, <1>27

\* At first nobody has anything.
LEMMA InitPromised ==
    ASSUME Init
    PROVE  Promise!Init /\ AskedInv
<1>1. /\ border = Total \div 2 /\ refused = NoRefusal
      /\ slot = [o \in Objects |-> Nowhere] /\ slotSize = [o \in Objects |-> 0]
      /\ place = [w \in Tables |-> Nowhere] /\ placeSize = [w \in Tables |-> 0]
  BY DEF Init
<1>2. Seen(slot, heap, slotSize) = [o \in Objects |-> Promise!Nothing]
  BY <1>1 DEF Seen, Promise!Nothing, Promise!Block
<1>3. Seen(place, vm, placeSize) = [w \in Tables |-> Promise!Nothing]
  BY <1>1 DEF Seen, Promise!Nothing, Promise!Block
<1>4. refused = Promise!NoRefusal
  BY <1>1 DEF NoRefusal, Promise!NoRefusal, Promise!Refusal
<1>5. AskedInv
  BY <1>1 DEF AskedInv, Asked
<1> QED  BY <1>1, <1>2, <1>3, <1>4, <1>5 DEF Promise!Init

\* Every step is promised, or nothing is seen of it.
LEMMA StepPromised ==
    ASSUME IInv, AskedInv, IInv', [Next]_vars
    PROVE  AskedInv' /\ [Promise!Next]_(Promise!vars)
<1>1. CASE UNCHANGED vars
  <2>1. UNCHANGED <<border, heap, vm, slot, slotSize, place, placeSize, refused>>
    BY <1>1 DEF vars
  <2>2. AskedInv'
    BY <2>1 DEF AskedInv
  <2>3. UNCHANGED <<border, Seen(slot, heap, slotSize), Seen(place, vm, placeSize), refused>>
    BY <2>1
  <2> QED  BY <2>2, <2>3 DEF Promise!vars
<1>2. ASSUME NEW o \in Objects, NEW size \in ObjectSizes, New(o, size) \/ Grow(o, size)
      PROVE  AskedInv' /\ Promise!Next
  <2>1. PICK n \in {HeapHeader + s : s \in ObjectSizes} : n = HeapHeader + size
    OBVIOUS
  <2>2. AskedInv' /\ (Promise!GiveObject(o, n) \/ Promise!RefuseObject(n))
    BY <1>2, <2>1, NewPromised, GrowPromised
  <2> QED  BY <2>2 DEF Promise!Next
<1>3. ASSUME NEW o \in Objects, Release(o)
      PROVE  AskedInv' /\ Promise!Next
  BY <1>3, ReleasePromised DEF Promise!Next
<1>4. ASSUME NEW w \in Tables, NEW size \in TableSizes, NewTable(w, size) \/ GrowTable(w, size)
      PROVE  AskedInv' /\ Promise!Next
  <2>1. PICK n \in {Rounded(VmHeader + s) : s \in TableSizes} : n = Rounded(VmHeader + size)
    OBVIOUS
  <2>2. AskedInv' /\ (Promise!GiveTable(w, n) \/ Promise!RefuseTable(n))
    BY <1>4, <2>1, NewTablePromised, GrowTablePromised
  <2> QED  BY <2>2 DEF Promise!Next
<1>5. ASSUME NEW w \in Tables, FreeTable(w)
      PROVE  AskedInv' /\ Promise!Next
  BY <1>5, FreeTablePromised DEF Promise!Next
<1>6. CASE SafePoint
  BY <1>6, SettlePromised DEF Promise!Next
<1> QED  BY <1>1, <1>2, <1>3, <1>4, <1>5, <1>6 DEF Next

\* Who has a block has as many units as were asked for.
THEOREM AskedCorrect == Spec => []AskedInv
<1>1. Init => AskedInv
  BY InitPromised
<1>2. AskedInv /\ IInv /\ IInv' /\ [Next]_vars => AskedInv'
  BY StepPromised
<1> QED  BY <1>1, <1>2, Inductive, PTL DEF Spec

\* The pool implements what it promises.
THEOREM ImplementsMemoryCorrect == Spec => ImplementsMemory
<1>1. Init => Promise!Init
  BY InitPromised
<1>2. IInv /\ AskedInv /\ IInv' /\ [Next]_vars => [Promise!Next]_(Promise!vars)
  BY StepPromised
<1> QED  BY <1>1, <1>2, Inductive, AskedCorrect, PTL DEF Spec, ImplementsMemory, Promise!Spec

\* The blocks that are seen of a whole area are apart, in it, and as large as they should be.
LEMMA SeenApart ==
    ASSUME NEW at, NEW s, NEW D, Owned(at, s, D), NEW asked, Asked(at, s, D, asked),
           NEW first, NEW least, Whole(s, first, least),
           NEW seen, seen = Seen(at, s, asked)
    PROVE  /\ \A o, p \in D : o # p => Promise!Apart(seen[o], seen[p])
           /\ \A o \in D : seen[o] # Promise!Nothing =>
                 seen[o].at \in Nat /\ seen[o].at >= first /\ Promise!End(seen[o]) <= s.end
           /\ \A o \in D : seen[o].size >= seen[o].asked
<1>1. PICK f : f = s.blocks
  OBVIOUS
<1>2. /\ Chain(f, first, s.end) /\ first \in Nat /\ s.end \in Nat
      /\ \A b \in UsedOf(s) : b \in DOMAIN f /\ b \in Nat /\ f[b].size \in Nat \ {0} /\ first <= b /\ b + f[b].size <= s.end
  BY <1>1 DEF Whole, Loose, Chain, UsedOf
<1>3. \A o \in D : at[o] # Nowhere => at[o] \in UsedOf(s) /\ s.blocks[at[o]].owner = o
  BY DEF Owned
<1>4. \A o \in D : /\ at[o] = Nowhere => seen[o] = Promise!Nothing /\ seen[o].at = -1 /\ seen[o].size = 0 /\ seen[o].asked = 0
                   /\ at[o] # Nowhere => seen[o].at = at[o] /\ seen[o].size = f[at[o]].size /\ seen[o].asked = asked[o]
  BY <1>1, SeenProps, SeenFields
<1>5. ASSUME NEW o \in D, NEW p \in D, o # p
      PROVE  Promise!Apart(seen[o], seen[p])
  <2>1. CASE at[o] = Nowhere /\ at[p] = Nowhere
    BY <1>4, <2>1 DEF Promise!Apart, Promise!End
  <2>2. CASE at[o] = Nowhere /\ at[p] # Nowhere
    BY <1>2, <1>3, <1>4, <2>2 DEF Promise!Apart, Promise!End
  <2>3. CASE at[o] # Nowhere /\ at[p] = Nowhere
    BY <1>2, <1>3, <1>4, <2>3 DEF Promise!Apart, Promise!End
  <2>4. CASE at[o] # Nowhere /\ at[p] # Nowhere
    <3>1. PICK b \in UsedOf(s), c \in UsedOf(s) : b = at[o] /\ c = at[p] /\ b # c
      BY <1>3, <1>5, <2>4
    <3>2. b + f[b].size <= c \/ c + f[c].size <= b
      BY <1>2, <3>1 DEF Chain
    <3> QED  BY <1>4, <2>4, <3>1, <3>2 DEF Promise!Apart, Promise!End
  <2> QED  BY <2>1, <2>2, <2>3, <2>4
<1>6. ASSUME NEW o \in D, seen[o] # Promise!Nothing
      PROVE  seen[o].at \in Nat /\ seen[o].at >= first /\ Promise!End(seen[o]) <= s.end
  BY <1>2, <1>3, <1>4, <1>6 DEF Promise!End
<1>7. ASSUME NEW o \in D
      PROVE  seen[o].size >= seen[o].asked
  <2>1. CASE at[o] = Nowhere
    BY <1>4, <2>1
  <2>2. CASE at[o] # Nowhere
    BY <1>1, <1>4, <2>2 DEF Asked
  <2> QED  BY <2>1, <2>2
<1> QED  BY <1>5, <1>6, <1>7

\* No unit of the pool belongs to two, everything lies on its side of the border, and
\* everybody has what they asked for.
THEOREM SeparateCorrect == Spec => []Promise!Separate
<1>1. IInv /\ AskedInv => Promise!Separate
  <2> SUFFICES ASSUME IInv, AskedInv
               PROVE  Promise!Separate
    OBVIOUS
  <2>1. Whole(heap, 0, MinHeapBlock) /\ heap.end = border /\ Owned(slot, heap, Objects) /\ border \in Nat
    BY DEF IInv, HeapInv
  <2>2. PICK first \in Nat : Whole(vm, first, MinVmBlock) /\ vm.end = Total /\ border <= first
    BY DEF IInv, VmInv, Whole, Loose, Chain
  <2>3. Owned(place, vm, Tables)
    BY DEF IInv
  <2>4. PICK os : os = Seen(slot, heap, slotSize)
    OBVIOUS
  <2>5. PICK ts : ts = Seen(place, vm, placeSize)
    OBVIOUS
  <2>6. /\ \A o, p \in Objects : o # p => Promise!Apart(os[o], os[p])
        /\ \A o \in Objects : os[o] # Promise!Nothing => os[o].at >= 0 /\ Promise!End(os[o]) <= border
        /\ \A o \in Objects : os[o].size >= os[o].asked
    BY <2>1, <2>4, SeenApart DEF AskedInv
  <2>7. /\ \A v, w \in Tables : v # w => Promise!Apart(ts[v], ts[w])
        /\ \A w \in Tables : ts[w] # Promise!Nothing => ts[w].at \in Nat /\ ts[w].at >= first /\ Promise!End(ts[w]) <= Total
        /\ \A w \in Tables : ts[w].size >= ts[w].asked
    BY <2>2, <2>3, <2>5, SeenApart DEF AskedInv
  <2>8. \A w \in Tables : ts[w] # Promise!Nothing => ts[w].at >= border
    BY <2>1, <2>2, <2>7
  <2> QED  BY <2>4, <2>5, <2>6, <2>7, <2>8 DEF Promise!Separate
<1> QED  BY <1>1, Inductive, AskedCorrect, PTL
=============================================================================

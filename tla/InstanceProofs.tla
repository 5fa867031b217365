---------------------------- MODULE InstanceProofs ----------------------------
(***************************************************************************)
(* The reading of an instance, for every file, chunk and heap size: the    *)
(* constructor counts what the file holds, ReadCNF has the clauses it is   *)
(* given wherever the chunks and the copies put them, a hard clause        *)
(* outweighs the soft ones, and the allocator keeps what is in its heaps   *)
(* apart.                                                                  *)
(*                                                                         *)
(* The argument about the readers is about places in the text: a turn      *)
(* begins at the end of a line, or behind it, and ends at such a place,    *)
(* with what the lines between hold (TurnWithWeights, TurnWithout).  That  *)
(* about the chunks is about the clause that is being written, which is at *)
(* the end of the last chunk (Writing), and about those before it, which   *)
(* stay where they are (Grown).  That about the counts is about the loops  *)
(* of isTautologicalClause, which end with each literal once (Sorting).    *)
(***************************************************************************)
EXTENDS Instance, Loops, SequenceTheorems

-----------------------------------------------------------------------------
(***************************************************************************)
(* The allocator keeps its blocks apart whatever is asked of it, in what   *)
(* order: each request, and the return of the end of the last one, leaves  *)
(* a heap that is well formed as it found it.                              *)
(***************************************************************************)

HeapRecords  == [bytes : Nat, free : Nat, bytesFree : Nat]
BlockRecords == [heap : Nat, from : Nat, size : Nat]

(* Of two blocks of a heap the later one lies behind the earlier. *)
InOrder(h) ==
    \A i, k \in DOMAIN h.blocks :
        i < k /\ h.blocks[i].heap = h.blocks[k].heap =>
            h.blocks[i].from + h.blocks[i].size <= h.blocks[k].from

Within(h) ==
    \A i \in DOMAIN h.blocks :
        /\ h.blocks[i].heap \in DOMAIN h.heaps
        /\ h.blocks[i].from + h.blocks[i].size <= h.heaps[h.blocks[i].heap].free

(* What is taken and what is free of a heap is all of it; that the blocks  *)
(* are apart is not enough, as one could lie where another was padded.     *)
WellFormed(h) ==
    /\ h \in [heaps : Seq(HeapRecords), last : Nat, lastSize : Nat,
              blocks : Seq(BlockRecords)]
    /\ \A j \in DOMAIN h.heaps : h.heaps[j].free + h.heaps[j].bytesFree = h.heaps[j].bytes
    /\ Within(h)
    /\ InOrder(h)

(* Nothing was taken behind the last block. *)
LastIsLast(h) ==
    LET b == h.blocks[Len(h.blocks)]
    IN  /\ h.blocks # <<>>
        /\ b.heap = h.last
        /\ h.lastSize = Padded(b.size)
        /\ b.from + h.lastSize = h.heaps[h.last].free

(* Blocks in order are apart. *)
LEMMA KeptIfWellFormed ==
    ASSUME NEW h, WellFormed(h)
    PROVE  BlocksKept(h)
  BY DEF WellFormed, Within, InOrder, BlocksKept, Apart

(* What is taken is no longer free. *)
LEMMA TakenIsRecord ==
    ASSUME NEW x \in HeapRecords, NEW d \in Int,
           x.free + d \in Nat, x.bytesFree - d \in Nat,
           x.free + x.bytesFree = x.bytes
    PROVE  /\ Taken(x, d) \in HeapRecords
           /\ Taken(x, d).free = x.free + d
           /\ Taken(x, d).free + Taken(x, d).bytesFree = Taken(x, d).bytes
  BY DEF Taken, HeapRecords

LEMMA PaddedIsMore ==
    ASSUME NEW size \in Nat
    PROVE  Padded(size) \in Nat /\ Padded(size) > size
  BY DEF Padded

(* Rounding up keeps the order, so that less is given back than was taken. *)
LEMMA PaddedIsMonotone ==
    ASSUME NEW a \in Nat, NEW b \in Nat, a <= b
    PROVE  Padded(a) <= Padded(b)
<1> DEFINE qa == a \div 4
           qb == b \div 4
<1>1. /\ qa \in Int /\ qb \in Int
      /\ a = 4 * qa + (a % 4) /\ b = 4 * qb + (b % 4)
      /\ a % 4 \in 0..3 /\ b % 4 \in 0..3
  OBVIOUS
<1>2. Padded(a) = 4 * qa + 4 /\ Padded(b) = 4 * qb + 4
  BY <1>1 DEF Padded
<1>3. qa <= qb
  BY <1>1
<1> QED BY <1>1, <1>2, <1>3

(* The heap that serves has room, and every other stays as it was. *)
LEMMA ServingHasRoom ==
    ASSUME NEW h, WellFormed(h), NEW n \in Nat
    PROVE  /\ Heaps(h, n) \in Seq(HeapRecords)
           /\ Serving(h, n) \in DOMAIN Heaps(h, n)
           /\ Heaps(h, n)[Serving(h, n)].bytesFree >= n
           /\ \A j \in DOMAIN h.heaps : j \in DOMAIN Heaps(h, n) /\ Heaps(h, n)[j] = h.heaps[j]
           /\ \A j \in DOMAIN Heaps(h, n) :
                 Heaps(h, n)[j].free + Heaps(h, n)[j].bytesFree = Heaps(h, n)[j].bytes
<1> USE DefaultHeapSizeAssumption
<1>1. h.heaps \in Seq(HeapRecords)
  BY DEF WellFormed
<1>2. CASE WithRoom(h, n) = {}
  <2>1. Fresh(n) \in HeapRecords /\ Fresh(n).bytesFree >= n
        /\ Fresh(n).free + Fresh(n).bytesFree = Fresh(n).bytes
    BY DEF Fresh, HeapRecords
  <2>2. Heaps(h, n) = Append(h.heaps, Fresh(n)) /\ Serving(h, n) = Len(h.heaps) + 1
    BY <1>2 DEF Heaps, Serving
  <2>3. /\ Append(h.heaps, Fresh(n)) \in Seq(HeapRecords)
        /\ DOMAIN Append(h.heaps, Fresh(n)) = 1..(Len(h.heaps) + 1)
        /\ DOMAIN h.heaps = 1..Len(h.heaps)
        /\ Append(h.heaps, Fresh(n))[Len(h.heaps) + 1] = Fresh(n)
        /\ \A j \in 1..Len(h.heaps) : Append(h.heaps, Fresh(n))[j] = h.heaps[j]
        /\ Len(h.heaps) \in Nat
    BY <1>1, <2>1
  <2> QED BY <2>1, <2>2, <2>3 DEF WellFormed
<1>3. CASE WithRoom(h, n) # {}
  <2>1. WithRoom(h, n) \subseteq Nat
    BY <1>1 DEF WithRoom
  <2>2. \E j \in WithRoom(h, n) : \A k \in WithRoom(h, n) : j <= k
    BY <1>3, <2>1, LeastNatural
  <2>3. Serving(h, n) \in WithRoom(h, n)
    BY <1>3, <2>2 DEF Serving
  <2> QED BY <1>1, <1>3, <2>3 DEF Heaps, WithRoom, WellFormed
<1> QED BY <1>2, <1>3

(* A request gets bytes that nobody else has (AllocateRAM). *)
THEOREM Allocated ==
    ASSUME NEW h, WellFormed(h), NEW size \in Nat
    PROVE  WellFormed(AllocateRAM(h, size)) /\ LastIsLast(AllocateRAM(h, size))
<1> DEFINE n  == Padded(size)
           hs == Heaps(h, n)
           j  == Serving(h, n)
           x  == hs[j]
           y  == Taken(x, n)
           b  == [heap |-> j, from |-> x.free, size |-> size]
           g  == AllocateRAM(h, size)
<1>1. n \in Nat /\ n > size
  BY PaddedIsMore
<1>2. /\ hs \in Seq(HeapRecords)
      /\ j \in DOMAIN hs
      /\ x.bytesFree >= n
      /\ \A i \in DOMAIN h.heaps : i \in DOMAIN hs /\ hs[i] = h.heaps[i]
      /\ \A i \in DOMAIN hs : hs[i].free + hs[i].bytesFree = hs[i].bytes
  BY <1>1, ServingHasRoom
<1>n. n = Padded(size)
  OBVIOUS
<1> HIDE DEF n, hs, j
<1>3. x \in HeapRecords /\ j \in Nat
  BY <1>2
<1>4. y \in HeapRecords /\ y.free = x.free + n /\ y.free + y.bytesFree = y.bytes
  <2>1. x.free + n \in Nat /\ x.bytesFree - n \in Nat /\ x.free + x.bytesFree = x.bytes
    BY <1>1, <1>2, <1>3 DEF HeapRecords
  <2> QED BY <1>1, <1>3, <2>1, TakenIsRecord
<1>5. b \in BlockRecords
  BY <1>3 DEF BlockRecords, HeapRecords
<1> HIDE DEF y
<1>6. /\ g.heaps = [hs EXCEPT ![j] = y]
      /\ g.last = j
      /\ g.lastSize = n
      /\ g.blocks = Append(h.blocks, b)
      /\ g = [heaps |-> g.heaps, last |-> g.last, lastSize |-> g.lastSize,
              blocks |-> g.blocks]
  BY DEF AllocateRAM, n, hs, j, y
<1>7. /\ h.blocks \in Seq(BlockRecords)
      /\ DOMAIN h.blocks = 1..Len(h.blocks)
      /\ Len(h.blocks) \in Nat
      /\ Within(h)
      /\ InOrder(h)
  BY DEF WellFormed
<1>8. /\ g.heaps \in Seq(HeapRecords)
      /\ DOMAIN g.heaps = DOMAIN hs
      /\ g.heaps[j] = y
      /\ \A i \in DOMAIN hs : i # j => g.heaps[i] = hs[i]
  BY <1>2, <1>4, <1>6
<1>9. /\ g.blocks \in Seq(BlockRecords)
      /\ DOMAIN g.blocks = 1..(Len(h.blocks) + 1)
      /\ Len(g.blocks) = Len(h.blocks) + 1
      /\ g.blocks[Len(h.blocks) + 1] = b
      /\ \A i \in 1..Len(h.blocks) : g.blocks[i] = h.blocks[i]
  BY <1>5, <1>6, <1>7
<1>10. g \in [heaps : Seq(HeapRecords), last : Nat, lastSize : Nat, blocks : Seq(BlockRecords)]
  BY <1>1, <1>3, <1>6, <1>8, <1>9
<1>11. \A i \in DOMAIN g.heaps : g.heaps[i].free + g.heaps[i].bytesFree = g.heaps[i].bytes
  BY <1>2, <1>4, <1>8
<1>12. ASSUME NEW i \in 1..Len(h.blocks)
       PROVE  /\ h.blocks[i].heap \in DOMAIN hs
              /\ h.blocks[i].from \in Nat /\ h.blocks[i].size \in Nat
              /\ h.blocks[i].from + h.blocks[i].size <= hs[h.blocks[i].heap].free
  <2>1. /\ h.blocks[i] \in BlockRecords
        /\ h.blocks[i].heap \in DOMAIN h.heaps
        /\ h.blocks[i].from + h.blocks[i].size <= h.heaps[h.blocks[i].heap].free
    BY <1>7 DEF Within
  <2>2. /\ h.blocks[i].heap \in DOMAIN hs
        /\ hs[h.blocks[i].heap] = h.heaps[h.blocks[i].heap]
    BY <1>2, <2>1
  <2> QED BY <2>1, <2>2 DEF BlockRecords
<1> HIDE DEF b, g
<1>b. b.heap = j /\ b.from = x.free /\ b.size = size
  BY DEF b
<1>x. x.free \in Nat
  BY <1>3 DEF HeapRecords
<1> HIDE DEF x
<1>y. hs[j] = x
  BY DEF x
<1>13. ASSUME NEW i \in DOMAIN g.blocks
       PROVE  /\ g.blocks[i].heap \in DOMAIN g.heaps
              /\ g.blocks[i].from + g.blocks[i].size <= g.heaps[g.blocks[i].heap].free
  <2>1. CASE i = Len(h.blocks) + 1
    <3>1. g.blocks[i] = b
      BY <1>9, <2>1
    <3>2. g.blocks[i].heap = j /\ g.blocks[i].from = x.free /\ g.blocks[i].size = size
      BY <1>b, <3>1
    <3>3. g.heaps[j].free = x.free + n /\ j \in DOMAIN g.heaps
      BY <1>2, <1>4, <1>8
    <3> QED BY <1>1, <1>x, <3>2, <3>3
  <2>2. CASE i \in 1..Len(h.blocks) /\ h.blocks[i].heap = j
    <3>1. g.blocks[i] = h.blocks[i]
      BY <1>9, <2>2
    <3>2. /\ h.blocks[i].from \in Nat /\ h.blocks[i].size \in Nat
          /\ h.blocks[i].from + h.blocks[i].size <= x.free
      BY <1>12, <1>y, <2>2
    <3>3. g.heaps[j].free = x.free + n /\ j \in DOMAIN g.heaps
      BY <1>2, <1>4, <1>8
    <3>4. /\ g.blocks[i].heap = j
          /\ g.blocks[i].from \in Nat /\ g.blocks[i].size \in Nat
          /\ g.blocks[i].from + g.blocks[i].size <= x.free
      BY <2>2, <3>1, <3>2
    <3> QED BY <1>1, <1>x, <3>3, <3>4
  <2>3. CASE i \in 1..Len(h.blocks) /\ h.blocks[i].heap # j
    BY <1>8, <1>9, <1>12, <2>3
  <2> QED BY <1>7, <1>9, <2>1, <2>2, <2>3
<1>14. ASSUME NEW i \in DOMAIN g.blocks, NEW k \in DOMAIN g.blocks, i < k,
              g.blocks[i].heap = g.blocks[k].heap
       PROVE  g.blocks[i].from + g.blocks[i].size <= g.blocks[k].from
  <2>1. i \in 1..Len(h.blocks)
    BY <1>7, <1>9, <1>14
  <2>2. CASE k = Len(h.blocks) + 1
    BY <1>9, <1>12, <1>14, <1>b, <1>y, <2>1, <2>2
  <2>3. CASE k \in 1..Len(h.blocks)
    BY <1>7, <1>9, <1>14, <2>1, <2>3 DEF InOrder
  <2> QED BY <1>7, <1>9, <2>2, <2>3
<1>15. Within(g) /\ InOrder(g)
  BY <1>13, <1>14 DEF Within, InOrder
<1>16. LastIsLast(g)
  <2>1. g.blocks # <<>>
    BY <1>7, <1>9
  <2>2. g.blocks[Len(g.blocks)] = b
    BY <1>9
  <2>3. g.heaps[j].free = x.free + n
    BY <1>4, <1>8
  <2> QED BY <1>6, <1>b, <1>n, <2>1, <2>2, <2>3 DEF LastIsLast
<1>17. WellFormed(g)
  BY <1>10, <1>11, <1>15 DEF WellFormed
<1> QED BY <1>16, <1>17 DEF g

(* The end of the last request is given back without touching what the     *)
(* others hold (AdjustLastRAM), if there was such a request and it was for *)
(* as much: ReadCNF calls it without one when it has read no literal.      *)
THEOREM Adjusted ==
    ASSUME NEW h, WellFormed(h), LastIsLast(h),
           NEW size \in Nat, size <= h.blocks[Len(h.blocks)].size
    PROVE  WellFormed(Trimmed(AdjustLastRAM(h, size), size))
<1> DEFINE last == Len(h.blocks)
           b    == h.blocks[last]
           left == h.lastSize - Padded(size)
           x    == h.heaps[h.last]
           y    == Taken(x, 0 - left)
           g    == Trimmed(AdjustLastRAM(h, size), size)
<1>1. /\ h.heaps \in Seq(HeapRecords)
      /\ h.blocks \in Seq(BlockRecords)
      /\ DOMAIN h.blocks = 1..last
      /\ last \in Nat
      /\ Within(h)
      /\ InOrder(h)
      /\ \A j \in DOMAIN h.heaps : h.heaps[j].free + h.heaps[j].bytesFree = h.heaps[j].bytes
  BY DEF WellFormed
<1>2. last \in DOMAIN h.blocks /\ b \in BlockRecords
  BY <1>1 DEF LastIsLast
<1>3. /\ h.last = b.heap
      /\ h.last \in DOMAIN h.heaps
      /\ x \in HeapRecords
      /\ b.from \in Nat /\ b.size \in Nat /\ size <= b.size
      /\ h.lastSize = Padded(b.size)
      /\ b.from + h.lastSize = x.free
  <2>1. h.last = b.heap /\ h.lastSize = Padded(b.size) /\ b.from + h.lastSize = x.free
    BY DEF LastIsLast
  <2>2. b.from \in Nat /\ b.size \in Nat
    BY <1>2 DEF BlockRecords
  <2>3. b.heap \in DOMAIN h.heaps
    BY <1>1, <1>2 DEF Within
  <2>4. x \in HeapRecords
    BY <1>1, <2>1, <2>3
  <2> QED BY <2>1, <2>2, <2>3, <2>4
<1>4. /\ Padded(size) \in Nat /\ Padded(size) > size
      /\ h.lastSize \in Nat /\ Padded(size) <= h.lastSize
  BY <1>3, PaddedIsMore, PaddedIsMonotone
<1>5. /\ y \in HeapRecords
      /\ y.free = b.from + Padded(size)
      /\ y.free + y.bytesFree = y.bytes
  <2>1. /\ 0 - left \in Int
        /\ x.free + (0 - left) \in Nat
        /\ x.free + (0 - left) = b.from + Padded(size)
        /\ x.bytesFree - (0 - left) \in Nat
        /\ x.free + x.bytesFree = x.bytes
    <3>1. x.free \in Nat /\ x.bytesFree \in Nat /\ x.free + x.bytesFree = x.bytes
      BY <1>1, <1>3 DEF HeapRecords
    <3> HIDE DEF x, b
    <3> QED BY <1>3, <1>4, <3>1, SMTT(30)
  <2> HIDE DEF left, x
  <2> QED BY <1>3, <2>1, TakenIsRecord
<1>6. /\ g.heaps = [h.heaps EXCEPT ![h.last] = y]
      /\ g.blocks = [h.blocks EXCEPT ![last] = [b EXCEPT !.size = size]]
      /\ g = [heaps |-> g.heaps, last |-> h.last, lastSize |-> h.lastSize,
              blocks |-> g.blocks]
      /\ h.last \in Nat
  <2>1. h \in [heaps : Seq(HeapRecords), last : Nat, lastSize : Nat, blocks : Seq(BlockRecords)]
    BY DEF WellFormed
  <2> DEFINE k == AdjustLastRAM(h, size)
  <2>2. /\ k \in [heaps : {k.heaps}, last : Nat, lastSize : Nat, blocks : Seq(BlockRecords)]
        /\ k.heaps = [h.heaps EXCEPT ![h.last] = y]
        /\ k.blocks = h.blocks /\ k.last = h.last /\ k.lastSize = h.lastSize
    BY <2>1 DEF AdjustLastRAM
  <2>3. g = [k EXCEPT !.blocks[Len(k.blocks)].size = size]
    BY DEF Trimmed
  <2> HIDE DEF k, g, y
  <2> QED BY <2>1, <2>2, <2>3
<1> HIDE DEF g, y
<1>7. /\ g.heaps \in Seq(HeapRecords)
      /\ DOMAIN g.heaps = DOMAIN h.heaps
      /\ g.heaps[h.last] = y
      /\ \A i \in DOMAIN h.heaps : i # h.last => g.heaps[i] = h.heaps[i]
  BY <1>1, <1>3, <1>5, <1>6
<1>8. /\ g.blocks \in Seq(BlockRecords)
      /\ DOMAIN g.blocks = 1..last
      /\ g.blocks[last].heap = b.heap
      /\ g.blocks[last].from = b.from
      /\ g.blocks[last].size = size
      /\ \A i \in 1..last : i # last => g.blocks[i] = h.blocks[i]
  <2> DEFINE c == [b EXCEPT !.size = size]
  <2>1. c \in BlockRecords /\ c.heap = b.heap /\ c.from = b.from /\ c.size = size
    BY <1>2 DEF BlockRecords
  <2>2. g.blocks = [h.blocks EXCEPT ![last] = c]
    BY <1>6
  <2> HIDE DEF b, c
  <2> QED BY <1>1, <1>2, <2>1, <2>2
<1>9. g \in [heaps : Seq(HeapRecords), last : Nat, lastSize : Nat, blocks : Seq(BlockRecords)]
  <2>1. g.heaps \in Seq(HeapRecords) /\ g.blocks \in Seq(BlockRecords)
    BY <1>7, <1>8
  <2>2. h.last \in Nat /\ h.lastSize \in Nat
    BY <1>4, <1>6
  <2>3. g = [heaps |-> g.heaps, last |-> h.last, lastSize |-> h.lastSize,
             blocks |-> g.blocks]
    BY <1>6
  <2> QED BY <2>1, <2>2, <2>3
<1>10. \A i \in DOMAIN g.heaps : g.heaps[i].free + g.heaps[i].bytesFree = g.heaps[i].bytes
  BY <1>1, <1>5, <1>7
(* The other blocks of this heap end before the last one begins. *)
<1>11. ASSUME NEW i \in 1..last, i # last
       PROVE  /\ h.blocks[i].heap = h.last => h.blocks[i].from + h.blocks[i].size <= b.from
              /\ h.blocks[i].heap \in DOMAIN h.heaps
              /\ h.blocks[i].from \in Nat /\ h.blocks[i].size \in Nat
              /\ h.blocks[i].from + h.blocks[i].size <= h.heaps[h.blocks[i].heap].free
  <2>1. h.blocks[i] \in BlockRecords /\ i < last
    BY <1>1, <1>11
  <2>2. h.blocks[i].from \in Nat /\ h.blocks[i].size \in Nat
    BY <2>1 DEF BlockRecords
  <2>3. h.blocks[i].heap = b.heap => h.blocks[i].from + h.blocks[i].size <= b.from
    BY <1>1, <1>2, <2>1 DEF InOrder
  <2> QED BY <1>1, <1>3, <2>2, <2>3 DEF Within
<1> HIDE DEF b, x
<1>12. ASSUME NEW i \in DOMAIN g.blocks
       PROVE  /\ g.blocks[i].heap \in DOMAIN g.heaps
              /\ g.blocks[i].from + g.blocks[i].size <= g.heaps[g.blocks[i].heap].free
  <2>1. CASE i = last
    <3>1. g.blocks[i].heap = h.last /\ g.blocks[i].from = b.from /\ g.blocks[i].size = size
      BY <1>3, <1>8, <2>1
    <3>2. h.last \in DOMAIN g.heaps /\ g.heaps[h.last].free = b.from + Padded(size)
      BY <1>3, <1>5, <1>7
    <3>3. b.from \in Nat
      BY <1>3
    <3> QED BY <1>4, <3>1, <3>2, <3>3
  <2>2. CASE i # last /\ h.blocks[i].heap = h.last
    <3>1. /\ g.blocks[i].heap = h.last
          /\ g.blocks[i].from \in Nat /\ g.blocks[i].size \in Nat
          /\ g.blocks[i].from + g.blocks[i].size <= b.from
      BY <1>8, <1>11, <2>2
    <3>2. h.last \in DOMAIN g.heaps /\ g.heaps[h.last].free = b.from + Padded(size)
      BY <1>3, <1>5, <1>7
    <3>3. b.from \in Nat
      BY <1>3
    <3> QED BY <1>4, <3>1, <3>2, <3>3
  <2>3. CASE i # last /\ h.blocks[i].heap # h.last
    BY <1>7, <1>8, <1>11, <2>3
  <2> QED BY <2>1, <2>2, <2>3
<1>13. ASSUME NEW i \in DOMAIN g.blocks, NEW k \in DOMAIN g.blocks, i < k,
              g.blocks[i].heap = g.blocks[k].heap
       PROVE  g.blocks[i].from + g.blocks[i].size <= g.blocks[k].from
  <2>1. i \in 1..last /\ i # last
    BY <1>1, <1>8, <1>13
  <2>2. CASE k = last
    BY <1>3, <1>8, <1>11, <1>13, <2>1, <2>2
  <2>3. CASE k # last
    BY <1>1, <1>8, <1>13, <2>1, <2>3 DEF InOrder
  <2> QED BY <2>2, <2>3
<1>14. Within(g) /\ InOrder(g)
  BY <1>12, <1>13 DEF Within, InOrder
<1>15. WellFormed(g)
  BY <1>9, <1>10, <1>14 DEF WellFormed
<1> QED BY <1>15 DEF g

-----------------------------------------------------------------------------
(* Text. *)

Words == {"newline", "space", "c", "text", "p", "hard", "soft"}

Tokens == [kind : {"number"}, num : Int] \cup [kind : Words, num : {0}]

LEMMA TokenTypes ==
    /\ NL \in Tokens /\ SP \in Tokens
    /\ \A k \in Int : Num(k) \in Tokens
    /\ \A w \in {"c", "text", "p", "hard", "soft"} : Word(w) \in Tokens
  BY DEF Tokens, Words, NL, SP, Num, Word

(* The least of some numbers. *)
LEMMA LeastIs ==
    ASSUME NEW T, T \subseteq Nat, NEW m \in T, \A x \in T : m <= x
    PROVE  Min(T) = m
<1>1. \E x \in T : \A y \in T : x <= y
  OBVIOUS
<1>2. Min(T) \in T /\ \A y \in T : Min(T) <= y
  BY <1>1 DEF Min
<1>3. Min(T) \in Nat /\ m \in Nat /\ m <= Min(T) /\ Min(T) <= m
  BY <1>2
<1> HIDE DEF Min
<1> QED BY <1>3

LEMMA CatCat ==
    ASSUME NEW A, NEW p \in Seq(A), NEW q \in Seq(A), NEW r \in Seq(A)
    PROVE  (p \o q) \o r = p \o (q \o r)
  BY ConcatAssociative

LEMMA TextCat ==
    ASSUME NEW a \in Seq(Tokens), NEW b \in Seq(Tokens), NEW c \in Seq(Tokens)
    PROVE  a \o (b \o c) = (a \o b) \o c
  BY ConcatAssociative

LEMMA AppendCat ==
    ASSUME NEW A, NEW p \in Seq(A), NEW q \in Seq(A), NEW e \in A
    PROVE  Append(p \o q, e) = p \o Append(q, e)
<1>1. <<e>> \in Seq(A) /\ p \o q \in Seq(A)
  BY ConcatProperties
<1>2. Append(p \o q, e) = (p \o q) \o <<e>> /\ Append(q, e) = q \o <<e>>
  BY <1>1, AppendIsConcat
<1>3. (p \o q) \o <<e>> = p \o (q \o <<e>>)
  BY <1>1, CatCat
<1> QED BY <1>2, <1>3

(* Short sequences. *)
LEMMA OneMore ==
    ASSUME NEW s \in Seq(Tokens), NEW t \in Seq(Tokens), NEW e \in Tokens,
           Len(t) = Len(s) + 1,
           \A i \in 1..Len(s) : t[i] = s[i], t[Len(s) + 1] = e
    PROVE  s \o <<e>> = t
<1>1. /\ Append(s, e) \in Seq(Tokens)
      /\ Len(Append(s, e)) = Len(s) + 1
      /\ \A i \in 1..Len(s) : Append(s, e)[i] = s[i]
      /\ Append(s, e)[Len(s) + 1] = e
  BY AppendProperties
<1>2. \A i \in 1..(Len(s) + 1) : i \in 1..Len(s) \/ i = Len(s) + 1
  OBVIOUS
<1>3. Append(s, e) = t
  BY <1>1, <1>2, SeqEqual
<1> QED BY <1>3, AppendIsConcat

LEMMA OneOne ==
    ASSUME NEW x \in Tokens, NEW y \in Tokens
    PROVE  <<x>> \o <<y>> = <<x, y>>
<1>1. /\ <<x>> \in Seq(Tokens) /\ <<x, y>> \in Seq(Tokens) /\ Len(<<x, y>>) = Len(<<x>>) + 1
      /\ \A i \in 1..Len(<<x>>) : <<x, y>>[i] = <<x>>[i]
      /\ <<x, y>>[Len(<<x>>) + 1] = y
  OBVIOUS
<1> QED BY <1>1, OneMore

LEMMA TwoOne ==
    ASSUME NEW x \in Tokens, NEW y \in Tokens, NEW z \in Tokens
    PROVE  <<x, y>> \o <<z>> = <<x, y, z>>
<1>1. /\ <<x, y>> \in Seq(Tokens) /\ <<x, y, z>> \in Seq(Tokens)
      /\ Len(<<x, y, z>>) = Len(<<x, y>>) + 1
      /\ \A i \in 1..Len(<<x, y>>) : <<x, y, z>>[i] = <<x, y>>[i]
      /\ <<x, y, z>>[Len(<<x, y>>) + 1] = z
  OBVIOUS
<1> QED BY <1>1, OneMore

LEMMA OneTwo ==
    ASSUME NEW x \in Tokens, NEW y \in Tokens, NEW z \in Tokens
    PROVE  <<x>> \o <<y, z>> = <<x, y, z>>
<1>1. <<x>> \in Seq(Tokens) /\ <<y>> \in Seq(Tokens) /\ <<z>> \in Seq(Tokens)
  OBVIOUS
<1>2. (<<x>> \o <<y>>) \o <<z>> = <<x>> \o (<<y>> \o <<z>>)
  BY <1>1, CatCat
<1>3. <<x>> \o <<y>> = <<x, y>>
  BY OneOne
<1>4. <<y>> \o <<z>> = <<y, z>>
  BY OneOne
<1>5. <<x, y>> \o <<z>> = <<x, y, z>>
  BY TwoOne
<1> QED BY <1>2, <1>3, <1>4, <1>5

LEMMA OneThree ==
    ASSUME NEW w \in Tokens, NEW x \in Tokens, NEW y \in Tokens, NEW z \in Tokens
    PROVE  <<w>> \o <<x, y, z>> = <<w, x, y, z>>
<1>1. <<w>> \in Seq(Tokens) /\ <<x, y>> \in Seq(Tokens) /\ <<z>> \in Seq(Tokens)
  OBVIOUS
<1>2. (<<w>> \o <<x, y>>) \o <<z>> = <<w>> \o (<<x, y>> \o <<z>>)
  BY <1>1, CatCat
<1>3. <<w>> \o <<x, y>> = <<w, x, y>>
  BY OneTwo
<1>4. <<x, y>> \o <<z>> = <<x, y, z>>
  BY TwoOne
<1>5. <<w, x, y>> \o <<z>> = <<w, x, y, z>>
  <2>1. /\ <<w, x, y>> \in Seq(Tokens) /\ <<w, x, y, z>> \in Seq(Tokens)
        /\ Len(<<w, x, y, z>>) = Len(<<w, x, y>>) + 1
        /\ \A i \in 1..Len(<<w, x, y>>) : <<w, x, y, z>>[i] = <<w, x, y>>[i]
        /\ <<w, x, y, z>>[Len(<<w, x, y>>) + 1] = z
    OBVIOUS
  <2> QED BY <2>1, OneMore
<1> QED BY <1>2, <1>3, <1>4, <1>5

(* What is left of a sequence behind its first n entries. *)
LEMMA Ending ==
    ASSUME NEW A, NEW s \in Seq(A), NEW n \in 0..Len(s)
    PROVE  /\ SubSeq(s, n + 1, Len(s)) \in Seq(A)
           /\ Len(SubSeq(s, n + 1, Len(s))) = Len(s) - n
           /\ \A i \in 1..(Len(s) - n) : SubSeq(s, n + 1, Len(s))[i] = s[n + i]
<1> DEFINE m == Len(s)
<1>1. m \in Nat /\ n \in Nat /\ n <= m /\ n + 1 \in Int /\ m \in Int
  OBVIOUS
<1>2. \A i \in (n + 1)..m : s[i] \in A
  <2> TAKE i \in (n + 1)..m
  <2>1. i \in 1..m
    BY <1>1
  <2> QED BY <2>1, ElementOfSeq
<1>3. /\ SubSeq(s, n + 1, m) \in Seq(A)
      /\ Len(SubSeq(s, n + 1, m)) = IF n + 1 <= m THEN m - (n + 1) + 1 ELSE 0
      /\ \A i \in 1..(m - (n + 1) + 1) : SubSeq(s, n + 1, m)[i] = s[(n + 1) + i - 1]
  BY <1>1, <1>2, SubSeqProperties
<1>4. m - (n + 1) + 1 = m - n /\ (IF n + 1 <= m THEN m - (n + 1) + 1 ELSE 0) = m - n
  BY <1>1
<1>5. \A i \in 1..(m - n) : (n + 1) + i - 1 = n + i
  BY <1>1
<1> HIDE DEF m
<1>6. \A i \in 1..(m - n) : SubSeq(s, n + 1, m)[i] = s[n + i]
  BY <1>3, <1>4, <1>5
<1> QED BY <1>3, <1>4, <1>6 DEF m

(* A text that goes on with z behind a part: what is there, and what is    *)
(* behind it.                                                              *)
LEMMA Cut ==
    ASSUME NEW A, NEW a \in Seq(A), NEW z \in A, NEW b \in Seq(A), NEW s, s = a \o (<<z>> \o b)
    PROVE  /\ s \in Seq(A) /\ Len(s) = Len(a) + 1 + Len(b) /\ Len(a) + 1 \in 1..Len(s)
           /\ \A i \in 1..Len(a) : s[i] = a[i]
           /\ s[Len(a) + 1] = z
           /\ SubSeq(s, 1, Len(a)) = a
           /\ SubSeq(s, Len(a) + 1, Len(s)) = <<z>> \o b
           /\ SubSeq(s, Len(a) + 2, Len(s)) = b
           /\ s # <<>>
<1> DEFINE d == <<z>> \o b
           n == Len(a)
           m == Len(b)
<1>1. <<z>> \in Seq(A) /\ Len(<<z>>) = 1 /\ <<z>>[1] = z
  OBVIOUS
<1>2. n \in Nat /\ m \in Nat
  OBVIOUS
<1>3. d \in Seq(A) /\ Len(d) = m + 1 /\ d[1] = z /\ \A i \in 1..m : d[i + 1] = b[i]
  <2>1. \A i \in 1..(1 + m) : d[i] = IF i <= 1 THEN <<z>>[i] ELSE b[i - 1]
    BY <1>1, ConcatProperties
  <2>2. d \in Seq(A) /\ Len(d) = m + 1
    BY <1>1, ConcatProperties
  <2>3. d[1] = z
    BY <1>1, <1>2, <2>1
  <2>4. ASSUME NEW i \in 1..m PROVE d[i + 1] = b[i]
    <3>1. i + 1 \in 1..(1 + m) /\ ~(i + 1 <= 1) /\ (i + 1) - 1 = i
      BY <1>2
    <3> HIDE DEF d
    <3> QED BY <2>1, <3>1
  <2> QED BY <2>2, <2>3, <2>4
<1> HIDE DEF d
<1>4. /\ s \in Seq(A) /\ Len(s) = n + (m + 1)
      /\ \A i \in 1..(n + (m + 1)) : s[i] = IF i <= n THEN a[i] ELSE d[i - n]
  BY <1>3, ConcatProperties DEF d
<1> HIDE DEF n, m
<1>5. s[n + 1] = z /\ \A i \in 1..n : s[i] = a[i]
  <2>1. n + 1 \in 1..(n + (m + 1)) /\ ~(n + 1 <= n) /\ (n + 1) - n = 1
    BY <1>2
  <2>2. s[n + 1] = z
    BY <1>3, <1>4, <2>1
  <2>3. \A i \in 1..n : i \in 1..(n + (m + 1)) /\ i <= n
    BY <1>2
  <2> QED BY <1>4, <2>2, <2>3
<1>6. SubSeq(s, 1, n) = a
  <2>1. \A i \in 1..n : s[i] \in A
    BY <1>5, ElementOfSeq DEF n
  <2>2. /\ SubSeq(s, 1, n) \in Seq(A)
        /\ Len(SubSeq(s, 1, n)) = n
        /\ \A i \in 1..n : SubSeq(s, 1, n)[i] = s[i]
    BY <1>2, <1>4, <2>1
  <2> QED BY <1>5, <2>2, SeqEqual DEF n
<1>7. SubSeq(s, n + 1, Len(s)) = d
  <2>1. \A i \in 1..(m + 1) : n + i \in 1..(n + (m + 1)) /\ ~(n + i <= n) /\ (n + i) - n = i
    BY <1>2
  <2>2. /\ SubSeq(s, n + 1, Len(s)) \in Seq(A)
        /\ Len(SubSeq(s, n + 1, Len(s))) = m + 1
        /\ \A i \in 1..(m + 1) : SubSeq(s, n + 1, Len(s))[i] = s[n + i]
    <3>1. n \in 0..Len(s) /\ Len(s) - n = m + 1
      BY <1>2, <1>4
    <3>2. /\ SubSeq(s, n + 1, Len(s)) \in Seq(A)
          /\ Len(SubSeq(s, n + 1, Len(s))) = Len(s) - n
          /\ \A i \in 1..(Len(s) - n) : SubSeq(s, n + 1, Len(s))[i] = s[n + i]
      BY <1>4, <3>1, Ending
    <3> QED BY <3>1, <3>2, Zenon
  <2>3. \A i \in 1..(m + 1) : SubSeq(s, n + 1, Len(s))[i] = d[i]
    BY <1>4, <2>1, <2>2
  <2> QED BY <1>3, <2>2, <2>3, SeqEqual
<1>8. SubSeq(s, n + 2, Len(s)) = b
  <2>1. \A i \in 1..m : /\ n + 1 + i \in 1..(n + (m + 1)) /\ ~(n + 1 + i <= n)
                        /\ (n + 1 + i) - n = i + 1
    BY <1>2
  <2>2. /\ SubSeq(s, n + 2, Len(s)) \in Seq(A)
        /\ Len(SubSeq(s, n + 2, Len(s))) = m
        /\ \A i \in 1..m : SubSeq(s, n + 2, Len(s))[i] = s[n + 1 + i]
    <3>1. n + 1 \in 0..Len(s) /\ Len(s) - (n + 1) = m
      BY <1>2, <1>4
    <3>2. (n + 1) + 1 = n + 2
      BY <1>2
    <3>3. /\ SubSeq(s, (n + 1) + 1, Len(s)) \in Seq(A)
          /\ Len(SubSeq(s, (n + 1) + 1, Len(s))) = Len(s) - (n + 1)
          /\ \A i \in 1..(Len(s) - (n + 1)) : SubSeq(s, (n + 1) + 1, Len(s))[i] = s[n + 1 + i]
      BY <1>4, <3>1, Ending
    <3> QED BY <3>1, <3>2, <3>3, Zenon
  <2>3. \A i \in 1..m : SubSeq(s, n + 2, Len(s))[i] = b[i]
    <3> TAKE i \in 1..m
    <3>1. SubSeq(s, n + 2, Len(s))[i] = s[n + 1 + i]
      BY <2>2
    <3>2. s[n + 1 + i] = d[(n + 1 + i) - n]
      BY <1>4, <2>1
    <3> QED BY <1>3, <2>1, <3>1, <3>2
  <2> QED BY <2>2, <2>3, SeqEqual DEF m
<1>9. Len(s) = n + 1 + m /\ n + 1 \in 1..Len(s) /\ s # <<>>
  BY <1>2, <1>4
<1> QED BY <1>4, <1>5, <1>6, <1>7, <1>8, <1>9 DEF n, m, d

(* The first entry of a set. *)
Places(s, n, S) == {i \in 1..n : s[i] \in S}

LEMMA FirstIs ==
    ASSUME NEW n \in Nat, NEW s, NEW S, NEW k \in 1..n,
           s[k] \in S, \A i \in 1..(k - 1) : s[i] \notin S
    PROVE  Min(Places(s, n, S)) = k
<1> DEFINE T == {i \in 1..n : s[i] \in S}
<1>1. T \subseteq Nat /\ k \in T
  OBVIOUS
<1>2. ASSUME NEW x \in T PROVE k <= x
  <2>1. x \in 1..n /\ s[x] \in S
    OBVIOUS
  <2>2. x \notin 1..(k - 1)
    BY <2>1
  <2> QED BY <2>1, <2>2
<1> HIDE DEF T
<1>3. Min(T) = k
  BY <1>1, <1>2, LeastIs
<1> QED BY <1>3 DEF T, Places

LEMMA TailOfOne ==
    ASSUME NEW A, NEW z \in A, NEW b \in Seq(A)
    PROVE  /\ <<z>> \o b \in Seq(A) /\ <<z>> \o b # <<>>
           /\ Head(<<z>> \o b) = z /\ Tail(<<z>> \o b) = b
           /\ Len(<<z>> \o b) = Len(b) + 1 /\ (<<z>> \o b)[1] = z
<1> DEFINE s == <<z>> \o b
<1>0. <<>> \in Seq(A) /\ Len(<<>>) = 0 /\ <<>> \o s = s
  <2>1. <<z>> \in Seq(A)
    OBVIOUS
  <2>2. s \in Seq(A)
    BY <2>1, ConcatProperties
  <2> HIDE DEF s
  <2> QED BY <2>2, ConcatEmptySeq
<1>1. /\ s \in Seq(A) /\ Len(s) = 1 + Len(b) /\ s # <<>>
      /\ s[1] = z /\ SubSeq(s, 2, Len(s)) = b
  <2>1. /\ s \in Seq(A) /\ Len(s) = 0 + 1 + Len(b) /\ s # <<>>
        /\ s[0 + 1] = z /\ SubSeq(s, 0 + 2, Len(s)) = b
    BY <1>0, Cut
  <2> HIDE DEF s
  <2> QED BY <2>1
<1> HIDE DEF s
<1>2. Head(s) = z /\ Tail(s) = b
  BY <1>1, TailIsSubSeq
<1>3. Len(s) = Len(b) + 1
  BY <1>1
<1> QED BY <1>1, <1>2, <1>3 DEF s

(* What the readers make of a text whose beginning has no end for them. *)
NoStop(a)  == \A i \in 1..Len(a) : ~Stops(a[i])
AllBlank(a) == \A i \in 1..Len(a) : Blank(a[i])
NoNL(a)    == \A i \in 1..Len(a) : a[i] # NL

LEMMA StopIs ==
    ASSUME NEW a \in Seq(Tokens), NEW z \in Tokens, NEW b \in Seq(Tokens), NEW S,
           z \in S, \A i \in 1..Len(a) : a[i] \notin S,
           NEW s, s = a \o (<<z>> \o b)
    PROVE  /\ Min(Places(s, Len(s), S)) = Len(a) + 1
           /\ Places(s, Len(s), S) # {}
<1>1. /\ s \in Seq(Tokens) /\ Len(a) + 1 \in 1..Len(s)
      /\ \A i \in 1..Len(a) : s[i] = a[i]
      /\ s[Len(a) + 1] = z
  BY Cut
<1>2. Len(a) \in Nat /\ Len(s) \in Nat /\ (Len(a) + 1) - 1 = Len(a)
  BY <1>1
<1>3. \A i \in 1..((Len(a) + 1) - 1) : s[i] \notin S
  BY <1>1, <1>2
<1>4. s[Len(a) + 1] \in S
  BY <1>1
<1>5. Min(Places(s, Len(s), S)) = Len(a) + 1
  BY <1>1, <1>2, <1>3, <1>4, FirstIs
<1> QED BY <1>1, <1>4, <1>5 DEF Places

LEMMA LiteralsUpTo ==
    ASSUME NEW a \in Seq(Tokens), NoStop(a), NEW z \in Tokens, Stops(z),
           NEW b \in Seq(Tokens)
    PROVE  Literals(a \o (<<z>> \o b))
              = [lits |-> Numbers(a), ok |-> z = Num(0),
                 rest |-> IF z = Num(0) THEN b ELSE <<z>> \o b]
<1> DEFINE s == a \o (<<z>> \o b)
           S == {t \in Tokens : Stops(t)}
           n == Len(a)
<1>1. /\ s \in Seq(Tokens) /\ n + 1 \in 1..Len(s)
      /\ s[n + 1] = z
      /\ SubSeq(s, 1, n) = a
      /\ SubSeq(s, n + 1, Len(s)) = <<z>> \o b
      /\ SubSeq(s, n + 2, Len(s)) = b
  BY Cut
<1>2. n \in Nat /\ (n + 1) - 1 = n /\ (n + 1) + 1 = n + 2 /\ n + 1 # 0 /\ n + 2 # 0
  OBVIOUS
<1>3. \A i \in 1..n : a[i] \notin S
  BY DEF NoStop
<1>4. /\ Min(Places(s, Len(s), S)) = n + 1
      /\ Places(s, Len(s), S) # {}
  <2>1. z \in S
    OBVIOUS
  <2> HIDE DEF S
  <2> QED BY <1>3, <2>1, StopIs
<1> HIDE DEF s
<1>5. Places(s, Len(s), S) = {i \in 1..Len(s) : Stops(s[i])}
  <2>1. \A i \in 1..Len(s) : s[i] \in Tokens
    BY <1>1
  <2> QED BY <2>1 DEF Places
<1>6. SelectInSeq(s, Stops) = n + 1
  <2> HIDE DEF S
  <2> QED BY <1>4, <1>5 DEF SelectInSeq
<1> HIDE DEF n, S
<1>7. Literals(s) = [lits |-> Numbers(a), ok |-> z = Num(0),
                     rest |-> IF z = Num(0) THEN b ELSE <<z>> \o b]
  <2>1. From(s, n + 1) = <<z>> \o b /\ From(s, (n + 1) + 1) = b
    BY <1>1, <1>2 DEF From
  <2>2. SubSeq(s, 1, (n + 1) - 1) = a
    BY <1>1, <1>2
  <2> QED BY <1>1, <1>2, <1>6, <2>1, <2>2 DEF Literals
<1> QED BY <1>7 DEF s

LEMMA LiteralsToEnd ==
    ASSUME NEW a \in Seq(Tokens), NoStop(a)
    PROVE  Literals(a) = [lits |-> Numbers(a), ok |-> FALSE, rest |-> <<>>]
<1>1. {i \in 1..Len(a) : Stops(a[i])} = {}
  BY DEF NoStop
<1>2. SelectInSeq(a, Stops) = 0
  BY <1>1 DEF SelectInSeq
<1> QED BY <1>2 DEF Literals, From

LEMMA SkipsBlanks ==
    ASSUME NEW a \in Seq(Tokens), AllBlank(a), NEW z \in Tokens, ~Blank(z),
           NEW b \in Seq(Tokens)
    PROVE  SkipBlanks(a \o (<<z>> \o b)) = <<z>> \o b
<1> DEFINE s == a \o (<<z>> \o b)
           S == {t \in Tokens : ~Blank(t)}
           n == Len(a)
<1>1. /\ s \in Seq(Tokens) /\ n + 1 \in 1..Len(s)
      /\ SubSeq(s, n + 1, Len(s)) = <<z>> \o b
  BY Cut
<1>2. n \in Nat /\ n + 1 # 0
  OBVIOUS
<1>3. \A i \in 1..n : a[i] \notin S
  BY DEF AllBlank
<1>4. /\ Min(Places(s, Len(s), S)) = n + 1
      /\ Places(s, Len(s), S) # {}
  <2>1. z \in S
    OBVIOUS
  <2> HIDE DEF S
  <2> QED BY <1>3, <2>1, StopIs
<1> HIDE DEF s
<1>5. Places(s, Len(s), S) = {i \in 1..Len(s) : ~Blank(s[i])}
  <2>1. \A i \in 1..Len(s) : s[i] \in Tokens
    BY <1>1
  <2> QED BY <2>1 DEF Places
<1>6. SkipBlanks(s) = From(s, n + 1)
  <2> HIDE DEF S
  <2> QED BY <1>4, <1>5 DEF SelectInSeq, SkipBlanks
<1> HIDE DEF n, S
<1>7. SkipBlanks(s) = <<z>> \o b
  BY <1>1, <1>2, <1>6 DEF From
<1> QED BY <1>7 DEF s

LEMMA SkipsLine ==
    ASSUME NEW a \in Seq(Tokens), NoNL(a), NEW b \in Seq(Tokens)
    PROVE  AfterLine(a \o (<<NL>> \o b)) = b
<1> DEFINE s == a \o (<<NL>> \o b)
           S == {NL}
           n == Len(a)
<1>0. NL \in Tokens
  BY TokenTypes
<1>1. /\ s \in Seq(Tokens) /\ n + 1 \in 1..Len(s)
      /\ SubSeq(s, n + 1, Len(s)) = <<NL>> \o b
  BY <1>0, Cut
<1>2. n \in Nat /\ n + 1 # 0
  OBVIOUS
<1>3. \A i \in 1..n : a[i] \notin S
  BY DEF NoNL
<1>4. /\ Min(Places(s, Len(s), S)) = n + 1
      /\ Places(s, Len(s), S) # {}
  <2>1. NL \in S
    OBVIOUS
  <2> HIDE DEF S
  <2> QED BY <1>0, <1>3, <2>1, StopIs
<1> HIDE DEF s
<1>5. Places(s, Len(s), S) = {i \in 1..Len(s) : s[i] = NL}
  BY DEF Places
<1>6. AfterLine(s) = Tail(From(s, n + 1))
  <2> HIDE DEF S
  <2> QED BY <1>4, <1>5 DEF SelectInSeq, AfterLine
<1>8. Tail(<<NL>> \o b) = b
  BY <1>0, TailOfOne
<1> HIDE DEF n, S
<1>7. AfterLine(s) = b
  BY <1>1, <1>2, <1>6, <1>8 DEF From
<1> QED BY <1>7 DEF s

-----------------------------------------------------------------------------
(* The numbers of a text. *)
NumbersTurn(q, t) == IF t.kind = "number" THEN Append(q, t.num) ELSE q

NumbersTurns(s, G) ==
    /\ G \in [0..Len(s) -> Seq(Int)]
    /\ G[0] = <<>>
    /\ \A k \in 1..Len(s) : G[k] = NumbersTurn(G[k - 1], s[k])
    /\ Numbers(s) = G[Len(s)]

LEMMA NumbersLoop ==
    ASSUME NEW s \in Seq(Tokens)
    PROVE  \E G : NumbersTurns(s, G)
<1> DEFINE n == Len(s)
           B == Seq(Int)
           turn == [k \in 1..n |-> [q \in B |-> NumbersTurn(q, s[k])]]
           it == CHOOSE g : g = [t \in SUBSET (1..n) |-> IF t = {} THEN <<>>
                                        ELSE NumbersTurn(g[t \ {Max(t)}], s[Max(t)])]
<1>1. n \in Nat /\ <<>> \in B /\ DOMAIN s = 1..n
  OBVIOUS
<1>2. turn \in Turns(n, B)
  <2> SUFFICES ASSUME NEW k \in 1..n, NEW q \in B PROVE NumbersTurn(q, s[k]) \in B
    BY DEF Turns
  <2>1. s[k] \in Tokens
    OBVIOUS
  <2> QED BY <1>1, <2>1 DEF Tokens, NumbersTurn
<1>3. Numbers(s) = it[1..n]
  BY <1>1, Zenon DEF Numbers, FoldLeft, MapThenFoldSet, NumbersTurn
<1> HIDE DEF n, B
<1>4. 1..n \subseteq Nat /\ IsFiniteSet(1..n)
  BY <1>1, FS_Interval
<1>5. \A t \in SUBSET (1..n) : t # {} => Max(t) \in 1..n
  BY <1>4, FS_Subset, MaxUpTo
<1>6. it = [t \in SUBSET (1..n) |-> IF t = {} THEN <<>>
                                  ELSE NumbersTurn(it[t \ {Max(t)}], s[Max(t)])]
  <2>1. PICK g : IsLoop(g, n, B, <<>>, turn)
    <3> HIDE DEF turn
    <3> QED BY <1>1, <1>2, LoopExists
  <2>2. g = [t \in SUBSET (1..n) |-> IF t = {} THEN <<>>
                                    ELSE NumbersTurn(g[t \ {Max(t)}], s[Max(t)])]
    BY <1>5, <2>1 DEF IsLoop
  <2> QED BY <2>2
<1> HIDE DEF it
<1>7. Iterates(it, n, B, <<>>, turn)
  BY <1>5, <1>6 DEF Iterates
<1>8. PICK G : Values(G, n, B, <<>>, turn) /\ G[n] = it[1..n]
  <2> HIDE DEF turn
  <2> QED BY <1>1, <1>2, <1>7, LoopValues
<1>9. G \in [0..n -> B] /\ G[0] = <<>>
  BY <1>8 DEF Values
<1>10. \A k \in 1..n : G[k] = NumbersTurn(G[k - 1], s[k])
  <2> TAKE k \in 1..n
  <2>1. k - 1 \in 0..n
    BY <1>1
  <2>2. G[k - 1] \in B
    BY <1>9, <2>1
  <2>3. G[k] = turn[k][G[k - 1]]
    BY <1>8 DEF Values
  <2> QED BY <1>1, <2>2, <2>3
<1> HIDE DEF turn
<1>11. NumbersTurns(s, G)
  BY <1>3, <1>8, <1>9, <1>10 DEF n, B, NumbersTurns
<1> QED BY <1>11

LEMMA NumbersCat ==
    ASSUME NEW a \in Seq(Tokens), NEW b \in Seq(Tokens)
    PROVE  /\ Numbers(a) \in Seq(Int)
           /\ Numbers(a \o b) = Numbers(a) \o Numbers(b)
<1> DEFINE s == a \o b
           m == Len(a)
           n == Len(b)
<1>1. /\ s \in Seq(Tokens) /\ Len(s) = m + n /\ m \in Nat /\ n \in Nat
      /\ \A i \in 1..m : i \in 1..(m + n) /\ s[i] = a[i]
      /\ \A i \in 1..n : m + i \in 1..(m + n) /\ s[m + i] = b[i]
  <2>1. /\ s \in Seq(Tokens) /\ Len(s) = m + n
        /\ \A i \in 1..(m + n) : s[i] = IF i <= m THEN a[i] ELSE b[i - m]
    BY ConcatProperties
  <2>2. m \in Nat /\ n \in Nat
    OBVIOUS
  <2> HIDE DEF s, m, n
  <2>3. \A i \in 1..n : m + i \in 1..(m + n) /\ ~(m + i <= m) /\ (m + i) - m = i
    BY <2>2
  <2>4. \A i \in 1..m : i \in 1..(m + n) /\ i <= m
    BY <2>2
  <2> QED BY <2>1, <2>2, <2>3, <2>4
<1>2. PICK G : NumbersTurns(s, G)
  BY <1>1, NumbersLoop
<1>3. PICK F : NumbersTurns(a, F)
  BY NumbersLoop
<1>4. PICK H : NumbersTurns(b, H)
  BY NumbersLoop
<1>5. /\ G \in [0..(m + n) -> Seq(Int)] /\ G[0] = <<>>
      /\ \A k \in 1..(m + n) : G[k] = NumbersTurn(G[k - 1], s[k])
      /\ Numbers(s) = G[m + n]
  BY <1>1, <1>2 DEF NumbersTurns
<1>6. /\ F \in [0..m -> Seq(Int)] /\ F[0] = <<>>
      /\ \A k \in 1..m : F[k] = NumbersTurn(F[k - 1], a[k])
      /\ Numbers(a) = F[m]
  BY <1>3 DEF NumbersTurns
<1>7. /\ H \in [0..n -> Seq(Int)] /\ H[0] = <<>>
      /\ \A k \in 1..n : H[k] = NumbersTurn(H[k - 1], b[k])
      /\ Numbers(b) = H[n]
  BY <1>4 DEF NumbersTurns
<1>8. \A k \in 1..n : b[k].kind = "number" => b[k].num \in Int
  <2> TAKE k \in 1..n
  <2>1. b[k] \in Tokens
    OBVIOUS
  <2> QED BY <2>1 DEF Tokens
<1> HIDE DEF s, m, n
<1> DEFINE T == {k \in 0..m : G[k] = F[k]}
           U == {k \in 0..n : G[m + k] = F[m] \o H[k]}
<1>9. \A k \in 0..m : k \in T
  <2>1. 0 \in T
    BY <1>1, <1>5, <1>6
  <2>2. \A k \in 1..m : k - 1 \in T => k \in T
    <3> TAKE k \in 1..m
    <3>1. k \in 0..m
      BY <1>1
    <3> QED BY <1>1, <1>5, <1>6, <3>1
  <2> HIDE DEF T
  <2> QED BY <1>1, <2>1, <2>2, UpTo
<1>10. F[m] \in Seq(Int) /\ G[m] = F[m]
  <2>1. m \in 0..m
    BY <1>1
  <2> QED BY <1>6, <1>9, <2>1
<1>11. \A k \in 0..n : k \in U
  <2>1. 0 \in U
    <3>1. m + 0 = m /\ 0 \in 0..n
      BY <1>1
    <3> QED BY <1>7, <1>10, <3>1, ConcatEmptySeq
  <2>2. \A k \in 1..n : k - 1 \in U => k \in U
    <3> TAKE k \in 1..n
    <3> HAVE k - 1 \in U
    <3>1. k \in 0..n /\ k - 1 \in 0..n /\ (m + k) - 1 = m + (k - 1) /\ m + k \in 1..(m + n)
      BY <1>1
    <3>2. G[m + k] = NumbersTurn(F[m] \o H[k - 1], b[k])
      BY <1>1, <1>5, <3>1
    <3>3. H[k] = NumbersTurn(H[k - 1], b[k]) /\ H[k - 1] \in Seq(Int)
      BY <1>7, <3>1
    <3>4. CASE b[k].kind = "number"
      <4>1. b[k].num \in Int
        BY <1>8, <3>4
      <4> DEFINE q == H[k - 1]
                 e == b[k].num
                 p == F[m]
      <4>2. G[m + k] = Append(p \o q, e) /\ H[k] = Append(q, e)
        BY <3>2, <3>3, <3>4 DEF NumbersTurn
      <4>3. q \in Seq(Int) /\ p \in Seq(Int) /\ e \in Int
        BY <1>10, <3>3, <4>1
      <4> HIDE DEF p, q, e
      <4>6. Append(p \o q, e) = p \o Append(q, e)
        <5> SUFFICES ASSUME NEW x \in Seq(Int), NEW y \in Seq(Int), NEW z \in Int
                     PROVE  Append(x \o y, z) = x \o Append(y, z)
          BY <4>3
        <5> QED BY AppendCat, SMTT(20)
      <4>7. G[m + k] = p \o H[k]
        BY <4>2, <4>6
      <4> QED BY <3>1, <4>7 DEF p
    <3>5. CASE b[k].kind # "number"
      BY <3>1, <3>2, <3>3, <3>5 DEF NumbersTurn
    <3> QED BY <3>4, <3>5
  <2> HIDE DEF U
  <2> QED BY <1>1, <2>1, <2>2, UpTo
<1>12. n \in 0..n
  BY <1>1
<1>13. G[m + n] = F[m] \o H[n]
  BY <1>11, <1>12
<1> QED BY <1>5, <1>6, <1>7, <1>10, <1>13 DEF s

-----------------------------------------------------------------------------
LEMMA NumbersOfOne ==
    /\ Numbers(<<>>) = <<>>
    /\ \A t \in Tokens : Numbers(<<t>>) = IF t.kind = "number" THEN <<t.num>> ELSE <<>>
<1>1. Numbers(<<>>) = <<>>
  <2>1. <<>> \in Seq(Tokens) /\ Len(<<>>) = 0
    OBVIOUS
  <2>2. PICK G : NumbersTurns(<<>>, G)
    BY <2>1, NumbersLoop
  <2> QED BY <2>1, <2>2 DEF NumbersTurns
<1>2. ASSUME NEW t \in Tokens
      PROVE  Numbers(<<t>>) = IF t.kind = "number" THEN <<t.num>> ELSE <<>>
  <2>1. <<t>> \in Seq(Tokens) /\ Len(<<t>>) = 1 /\ <<t>>[1] = t
    OBVIOUS
  <2>2. PICK G : NumbersTurns(<<t>>, G)
    BY <2>1, NumbersLoop
  <2>3. G[1] = NumbersTurn(G[0], t) /\ G[0] = <<>> /\ Numbers(<<t>>) = G[1]
    <3>1. 1 \in 1..Len(<<t>>) /\ 1 - 1 = 0
      BY <2>1
    <3> QED BY <2>1, <2>2, <3>1 DEF NumbersTurns
  <2>4. Numbers(<<t>>) = NumbersTurn(<<>>, t)
    BY <2>3
  <2> QED BY <2>4 DEF NumbersTurn
<1> QED BY <1>1, <1>2

LEMMA StopsCat ==
    ASSUME NEW a \in Seq(Tokens), NEW b \in Seq(Tokens)
    PROVE  /\ a \o b \in Seq(Tokens)
           /\ NoStop(a \o b) <=> NoStop(a) /\ NoStop(b)
           /\ NoNL(a \o b) <=> NoNL(a) /\ NoNL(b)
<1> DEFINE s == a \o b
           m == Len(a)
           n == Len(b)
<1>1. /\ s \in Seq(Tokens) /\ Len(s) = m + n /\ m \in Nat /\ n \in Nat
      /\ \A i \in 1..(m + n) : s[i] = IF i <= m THEN a[i] ELSE b[i - m]
  BY ConcatProperties
<1> HIDE DEF s, m, n
<1>2. \A i \in 1..m : i \in 1..(m + n) /\ s[i] = a[i]
  BY <1>1
<1>3. \A i \in 1..n : m + i \in 1..(m + n) /\ s[m + i] = b[i]
  <2> TAKE i \in 1..n
  <2>1. m + i \in 1..(m + n) /\ ~(m + i <= m) /\ (m + i) - m = i
    BY <1>1
  <2> QED BY <1>1, <2>1
<1>4. \A i \in 1..(m + n) : i \in 1..m \/ \E j \in 1..n : i = m + j
  <2> TAKE i \in 1..(m + n)
  <2>1. i \notin 1..m => i - m \in 1..n /\ i = m + (i - m)
    BY <1>1
  <2> QED BY <2>1
<1>5. NoStop(s) <=> NoStop(a) /\ NoStop(b)
  BY <1>1, <1>2, <1>3, <1>4 DEF NoStop, m, n
<1>6. NoNL(s) <=> NoNL(a) /\ NoNL(b)
  <2> DEFINE Other(t) == t # NL
  <2>1. /\ NoNL(s) <=> \A i \in 1..(m + n) : Other(s[i])
        /\ NoNL(a) <=> \A i \in 1..m : Other(a[i])
        /\ NoNL(b) <=> \A i \in 1..n : Other(b[i])
    BY <1>1 DEF NoNL, m, n
  <2> HIDE DEF Other
  <2> QED BY <1>2, <1>3, <1>4, <2>1
<1> QED BY <1>1, <1>5, <1>6 DEF s

(* The text of literals. *)
LEMMA LitsTextIs ==
    ASSUME NEW lits \in Seq(Int \ {0})
    PROVE  /\ LitsText(lits) \in Seq(Tokens)
           /\ Numbers(LitsText(lits)) = lits
           /\ NoStop(LitsText(lits))
           /\ lits = <<>> => LitsText(lits) = <<>>
           /\ lits # <<>> => LitsText(lits) # <<>>
<1> DEFINE n == Len(lits)
           seqs == [i \in DOMAIN lits |-> <<Num(lits[i]), SP>>]
<1>1. n \in Nat /\ DOMAIN lits = 1..n /\ \A k \in 1..n : lits[k] \in Int \ {0}
  OBVIOUS
<1>2. ASSUME NEW x \in Int \ {0}
      PROVE  /\ <<Num(x), SP>> \in Seq(Tokens)
             /\ Numbers(<<Num(x), SP>>) = <<x>>
             /\ NoStop(<<Num(x), SP>>)
  <2>1. Num(x) \in Tokens /\ SP \in Tokens /\ x # 0
    BY TokenTypes
  <2>2. /\ <<Num(x), SP>> \in Seq(Tokens)
        /\ <<Num(x)>> \in Seq(Tokens) /\ <<SP>> \in Seq(Tokens)
        /\ <<Num(x), SP>> = <<Num(x)>> \o <<SP>>
    BY <2>1
  <2>3. Numbers(<<Num(x)>>) = <<x>> /\ Numbers(<<SP>>) = <<>>
    <3>1. Num(x).kind = "number" /\ Num(x).num = x /\ SP.kind # "number"
      BY DEF Num, SP, Word
    <3> QED BY <2>1, <3>1, NumbersOfOne
  <2>4. Numbers(<<Num(x), SP>>) = <<x>> \o <<>>
    BY <2>2, <2>3, NumbersCat
  <2>5. <<x>> \in Seq(Int) /\ <<x>> \o <<>> = <<x>>
    BY ConcatEmptySeq
  <2>6. ~Stops(Num(x)) /\ ~Stops(SP)
    BY <2>1 DEF Stops, Num, SP, Word, Blank
  <2>7. NoStop(<<Num(x), SP>>)
    <3>1. \A i \in 1..2 : ~Stops(<<Num(x), SP>>[i])
      BY <2>6
    <3>2. Len(<<Num(x), SP>>) = 2
      OBVIOUS
    <3> QED BY <3>1, <3>2 DEF NoStop
  <2> QED BY <2>2, <2>4, <2>5, <2>7
<1>3. /\ seqs \in Seq(Seq(Tokens)) /\ Len(seqs) = n
      /\ \A k \in 1..n : seqs[k] = <<Num(lits[k]), SP>>
  <2>1. \A k \in 1..n : <<Num(lits[k]), SP>> \in Seq(Tokens)
    BY <1>1, <1>2
  <2>2. seqs = [i \in 1..n |-> <<Num(lits[i]), SP>>]
    BY <1>1
  <2> QED BY <1>1, <2>1, <2>2
<1>4. PICK P : Joins(seqs, Tokens, P)
  <2> HIDE DEF seqs
  <2> QED BY <1>3, FlattenLoop
<1>5. /\ P \in [0..n -> Seq(Tokens)] /\ P[0] = <<>>
      /\ \A k \in 1..n : P[k] = P[k - 1] \o <<Num(lits[k]), SP>>
      /\ LitsText(lits) = P[n]
  BY <1>3, <1>4 DEF Joins, LitsText
<1> HIDE DEF n, seqs
<1> DEFINE Upto(k) == /\ NoStop(P[k])
                      /\ Len(Numbers(P[k])) = k
                      /\ \A i \in 1..k : Numbers(P[k])[i] = lits[i]
           T == {k \in 0..n : Upto(k)}
<1>6. \A k \in 0..n : k \in T
  <2>1. 0 \in T
    <3>1. NoStop(<<>>)
      BY DEF NoStop
    <3> QED BY <1>1, <1>5, <3>1, NumbersOfOne
  <2>2. \A k \in 1..n : k - 1 \in T => k \in T
    <3> TAKE k \in 1..n
    <3> HAVE k - 1 \in T
    <3> DEFINE p == P[k - 1]
               e == <<Num(lits[k]), SP>>
    <3>1. k \in 0..n /\ k - 1 \in 0..n /\ k \in Nat
      BY <1>1
    <3>2. /\ e \in Seq(Tokens) /\ Numbers(e) = <<lits[k]>> /\ NoStop(e)
          /\ lits[k] \in Int
      BY <1>1, <1>2
    <3>3. p \in Seq(Tokens) /\ P[k] = p \o e
      BY <1>5, <3>1
    <3>4. /\ NoStop(p) /\ Len(Numbers(p)) = k - 1
          /\ \A i \in 1..(k - 1) : Numbers(p)[i] = lits[i]
      OBVIOUS
    <3> HIDE DEF p, e
    <3>5. NoStop(P[k])
      BY <3>2, <3>3, <3>4, StopsCat
    <3>6. Numbers(P[k]) = Numbers(p) \o <<lits[k]>> /\ Numbers(p) \in Seq(Int)
      BY <3>2, <3>3, NumbersCat
    <3> DEFINE q == Numbers(p)
    <3>7. Len(q \o <<lits[k]>>) = k /\ \A i \in 1..k : (q \o <<lits[k]>>)[i] = lits[i]
      <4>1. q \in Seq(Int) /\ Len(q) = k - 1 /\ \A i \in 1..(k - 1) : q[i] = lits[i]
        BY <3>4, <3>6
      <4> HIDE DEF q
      <4>2. q \o <<lits[k]>> = Append(q, lits[k])
        BY <3>2, <4>1, AppendIsConcat
      <4>3. /\ Len(Append(q, lits[k])) = (k - 1) + 1
            /\ \A i \in 1..(k - 1) : Append(q, lits[k])[i] = q[i]
            /\ Append(q, lits[k])[(k - 1) + 1] = lits[k]
        BY <3>2, <4>1, AppendProperties
      <4>4. (k - 1) + 1 = k /\ \A i \in 1..k : i \in 1..(k - 1) \/ i = k
        BY <3>1
      <4> QED BY <4>1, <4>2, <4>3, <4>4
    <3> QED BY <3>1, <3>5, <3>6, <3>7
  <2> HIDE DEF T
  <2> QED BY <1>1, <2>1, <2>2, UpTo
<1>7. n \in 0..n
  BY <1>1
<1>8. P[n] \in Seq(Tokens) /\ NoStop(P[n]) /\ Len(Numbers(P[n])) = n
      /\ \A i \in 1..n : Numbers(P[n])[i] = lits[i]
  BY <1>5, <1>6, <1>7
<1>9. Numbers(P[n]) = lits
  <2>1. Numbers(P[n]) \in Seq(Int) /\ lits \in Seq(Int)
    <3>1. P[n] \o P[n] \in Seq(Tokens)
      BY <1>8, ConcatProperties
    <3>2. Numbers(P[n]) \in Seq(Int)
      BY <1>8, NumbersCat
    <3>3. lits \in Seq(Int)
      BY SeqMonotonic
    <3> QED BY <3>2, <3>3
  <2> QED BY <1>8, <2>1, SeqEqual DEF n
<1>10. lits = <<>> => P[n] = <<>>
  BY <1>5 DEF n
<1>11. lits # <<>> => P[n] # <<>>
  BY <1>9, NumbersOfOne
<1> QED BY <1>5, <1>8, <1>9, <1>10, <1>11

-----------------------------------------------------------------------------
(* Lines. *)

Before(format, x) ==
    (IF x.blank THEN <<SP>> ELSE <<>>) \o (IF format = "wcnf" THEN <<Num(x.weight), SP>> ELSE <<>>)

(* The word that a line which is no clause begins with, and the rest of it. *)
FirstWord(x) == IF x.kind = "comment" THEN Word("c") ELSE Word("p")
Remark(x)    == IF x.kind = "comment" THEN <<SP, Word("text")>> ELSE <<SP, Word(x.kind)>>

LEMMA LineTypes ==
    ASSUME NEW x \in Lines
    PROVE  /\ x.lits \in Seq(Int \ {0}) /\ x.lits \in Seq(Int)
           /\ x.weight \in Nat /\ x.blank \in BOOLEAN
           /\ x.kind \in {"clause", "comment", "hard", "soft"}
<1>1. /\ x.lits \in Seq(((-NumVars)..NumVars) \ {0})
      /\ x.weight \in Nat /\ x.blank \in BOOLEAN
      /\ x.kind \in {"clause", "comment", "hard", "soft"}
  BY DEF Lines
<1>2. ((-NumVars)..NumVars) \ {0} \subseteq Int \ {0} /\ Int \ {0} \subseteq Int
  BY NumVarsAssumption
<1>3. x.lits \in Seq(Int \ {0})
  BY <1>1, <1>2, SeqMonotonic
<1>4. x.lits \in Seq(Int)
  BY <1>2, <1>3, SeqMonotonic
<1> QED BY <1>1, <1>3, <1>4

LEMMA BeforeIs ==
    ASSUME NEW x \in Lines, NEW format
    PROVE  /\ Before(format, x) \in Seq(Tokens)
           /\ format # "wcnf" => Before(format, x) = IF x.blank THEN <<SP>> ELSE <<>>
           /\ format # "wcnf" => /\ NoStop(Before(format, x))
                                 /\ Numbers(Before(format, x)) = <<>>
<1>1. /\ <<SP>> \in Seq(Tokens) /\ <<>> \in Seq(Tokens)
      /\ <<Num(x.weight), SP>> \in Seq(Tokens)
      /\ <<SP>> \o <<>> = <<SP>> /\ <<>> \o <<>> = <<>>
  <2>1. x.weight \in Int
    BY LineTypes
  <2>2. SP \in Tokens /\ Num(x.weight) \in Tokens
    BY <2>1, TokenTypes
  <2>3. <<SP>> \in Seq(Tokens) /\ <<>> \in Seq(Tokens) /\ <<Num(x.weight), SP>> \in Seq(Tokens)
    BY <2>2
  <2> QED BY <2>3, ConcatEmptySeq
<1>2. Before(format, x) \in Seq(Tokens)
  BY <1>1, ConcatProperties DEF Before
<1>3. format # "wcnf" => Before(format, x) = IF x.blank THEN <<SP>> ELSE <<>>
  BY <1>1 DEF Before
<1>4. /\ NoStop(<<SP>>) /\ NoStop(<<>>)
      /\ Numbers(<<SP>>) = <<>> /\ Numbers(<<>>) = <<>>
  <2>1. ~Stops(SP) /\ SP.kind # "number" /\ SP \in Tokens
    BY TokenTypes DEF Stops, Num, SP, Word, Blank
  <2>2. Numbers(<<SP>>) = <<>> /\ Numbers(<<>>) = <<>>
    BY <2>1, NumbersOfOne
  <2>3. /\ Len(<<SP>>) = 1 /\ <<SP>>[1] = SP /\ Len(<<>>) = 0
        /\ 1..0 = {} /\ 1..1 = {1}
    OBVIOUS
  <2>4. NoStop(<<SP>>) /\ NoStop(<<>>)
    BY <2>1, <2>3, Zenon DEF NoStop
  <2> QED BY <2>2, <2>4
<1> QED BY <1>2, <1>3, <1>4

LEMMA ClauseText ==
    ASSUME NEW x \in Lines, x.kind = "clause", NEW format, NEW c \in Seq(Tokens)
    PROVE  /\ LineText(format, x) \in Seq(Tokens)
           /\ LitsText(x.lits) \in Seq(Tokens)
           /\ <<NL>> \o c \in Seq(Tokens)
           /\ LineText(format, x) \o c
                 = Before(format, x) \o (LitsText(x.lits) \o (<<Num(0)>> \o (<<NL>> \o c)))
           /\ LineText(format, x)
                 = (Before(format, x) \o LitsText(x.lits)) \o <<Num(0), NL>>
<1> DEFINE a == Before(format, x)
           b == LitsText(x.lits)
           d == <<Num(0), NL>>
<1>1. /\ a \in Seq(Tokens) /\ b \in Seq(Tokens) /\ d \in Seq(Tokens)
      /\ <<Num(0)>> \in Seq(Tokens) /\ <<NL>> \in Seq(Tokens) /\ d = <<Num(0)>> \o <<NL>>
  <2>1. Num(0) \in Tokens /\ NL \in Tokens
    BY TokenTypes
  <2> QED BY <2>1, BeforeIs, LineTypes, LitsTextIs
<1>2. LineText(format, x) = (a \o b) \o d
  <2>1. x.kind # "comment" /\ x.kind \notin {"hard", "soft"}
    OBVIOUS
  <2> QED BY <2>1 DEF LineText, Before
<1> HIDE DEF a, b, d
<1>3. a \o b \in Seq(Tokens) /\ (a \o b) \o d \in Seq(Tokens)
  BY <1>1, ConcatProperties
<1>4. d \o c = <<Num(0)>> \o (<<NL>> \o c)
  BY <1>1, CatCat
<1>5. d \o c \in Seq(Tokens) /\ <<NL>> \o c \in Seq(Tokens)
  BY <1>1, ConcatProperties
<1>6. ((a \o b) \o d) \o c = (a \o b) \o (d \o c)
  BY <1>1, <1>3, CatCat
<1>7. (a \o b) \o (d \o c) = a \o (b \o (d \o c))
  BY <1>1, <1>5, CatCat, SMTT(20)
<1>8. LineText(format, x) \o c = a \o (b \o (<<Num(0)>> \o (<<NL>> \o c)))
  BY <1>2, <1>4, <1>6, <1>7
<1> QED BY <1>1, <1>2, <1>3, <1>5, <1>8 DEF a, b, d

LEMMA RemarkText ==
    ASSUME NEW x \in Lines, x.kind # "clause", NEW format, NEW c \in Seq(Tokens)
    PROVE  /\ LineText(format, x) \in Seq(Tokens)
           /\ LineText(format, x) = <<FirstWord(x)>> \o (Remark(x) \o <<NL>>)
           /\ LineText(format, x) \o c = <<FirstWord(x)>> \o (Remark(x) \o (<<NL>> \o c))
           /\ FirstWord(x) \in Tokens /\ Remark(x) \in Seq(Tokens)
           /\ Stops(FirstWord(x)) /\ FirstWord(x) # Num(0) /\ ~Blank(FirstWord(x))
           /\ FirstWord(x).kind = IF x.kind = "comment" THEN "c" ELSE "p"
           /\ FirstWord(x).num = 0
           /\ NoNL(<<FirstWord(x)>> \o Remark(x))
<1>1. x.kind \in {"comment", "hard", "soft"}
  BY LineTypes
<1> DEFINE first == FirstWord(x)
           other == IF x.kind = "comment" THEN Word("text") ELSE Word(x.kind)
<1>2. /\ first \in Tokens /\ other \in Tokens /\ SP \in Tokens /\ NL \in Tokens
      /\ Remark(x) = <<SP, other>>
  BY <1>1, TokenTypes DEF FirstWord, Remark
<1>3. LineText(format, x) = <<first, SP, other, NL>>
  <2>1. CASE x.kind = "comment"
    BY <2>1 DEF LineText, FirstWord
  <2>2. CASE x.kind \in {"hard", "soft"}
    <3>1. x.kind # "comment" /\ x.kind # "clause"
      BY <2>2
    <3> QED BY <2>2, <3>1 DEF LineText, FirstWord
  <2> QED BY <1>1, <2>1, <2>2
<1>4. /\ Stops(first) /\ first # Num(0) /\ ~Blank(first) /\ first # NL /\ SP # NL /\ other # NL
      /\ first.kind = (IF x.kind = "comment" THEN "c" ELSE "p")
      /\ first.num = 0
  BY <1>1 DEF FirstWord, Stops, Blank, Num, NL, SP, Word
<1> HIDE DEF first, other
<1>5. /\ <<first>> \in Seq(Tokens) /\ <<SP, other>> \in Seq(Tokens) /\ <<NL>> \in Seq(Tokens)
      /\ <<SP, other>> \o <<NL>> = <<SP, other, NL>>
      /\ <<SP, other, NL>> \in Seq(Tokens)
      /\ <<first>> \o <<SP, other, NL>> = <<first, SP, other, NL>>
      /\ <<first, SP, other, NL>> \in Seq(Tokens)
      /\ <<first>> \o <<SP, other>> = <<first, SP, other>>
  <2>1. /\ <<first>> \in Seq(Tokens) /\ <<SP, other>> \in Seq(Tokens) /\ <<NL>> \in Seq(Tokens)
        /\ <<SP, other, NL>> \in Seq(Tokens) /\ <<first, SP, other, NL>> \in Seq(Tokens)
    BY <1>2
  <2>0. first \in Tokens /\ other \in Tokens /\ SP \in Tokens /\ NL \in Tokens
    BY <1>2
  <2>2. <<SP, other>> \o <<NL>> = <<SP, other, NL>>
    BY <2>0, TwoOne
  <2>3. <<first>> \o <<SP, other>> = <<first, SP, other>>
    BY <2>0, OneTwo
  <2>4. <<first>> \o <<SP, other, NL>> = <<first, SP, other, NL>>
    BY <2>0, OneThree
  <2> QED BY <2>1, <2>2, <2>3, <2>4
<1>6. LineText(format, x) = <<first>> \o (Remark(x) \o <<NL>>)
  BY <1>2, <1>3, <1>5
<1>7. (<<first>> \o <<SP, other, NL>>) \o c = <<first>> \o (<<SP, other, NL>> \o c)
  BY <1>5, CatCat
<1>8. (<<SP, other>> \o <<NL>>) \o c = <<SP, other>> \o (<<NL>> \o c)
  BY <1>5, CatCat
<1>9. LineText(format, x) \o c = <<first>> \o (Remark(x) \o (<<NL>> \o c))
  BY <1>2, <1>3, <1>5, <1>7, <1>8
<1>10. NoNL(<<first>> \o Remark(x))
  <2>1. Len(<<first, SP, other>>) = 3 /\ \A i \in 1..3 : <<first, SP, other>>[i] # NL
    BY <1>4
  <2> QED BY <1>2, <1>5, <2>1 DEF NoNL
<1>11. LineText(format, x) \in Seq(Tokens)
  BY <1>3, <1>5
<1> QED BY <1>2, <1>4, <1>5, <1>6, <1>9, <1>10, <1>11 DEF first

-----------------------------------------------------------------------------
(* What is read of a line. *)

Leads == {<<>>, <<NL>>}

Got1(lits, ok, rest1) == [lits |-> lits, ok |-> ok, rest |-> rest1]

LEMMA LeadIs ==
    ASSUME NEW lead \in Leads
    PROVE  /\ lead \in Seq(Tokens) /\ NoStop(lead) /\ AllBlank(lead)
           /\ Numbers(lead) = <<>>
<1>1. /\ NL \in Tokens /\ <<NL>> \in Seq(Tokens) /\ <<>> \in Seq(Tokens)
      /\ Len(<<NL>>) = 1 /\ <<NL>>[1] = NL /\ Len(<<>>) = 0
      /\ 1..0 = {} /\ 1..1 = {1}
  BY TokenTypes
<1>2. ~Stops(NL) /\ Blank(NL) /\ NL.kind # "number"
  BY DEF Stops, Num, NL, Word, Blank
<1>3. Numbers(<<NL>>) = <<>> /\ Numbers(<<>>) = <<>>
  BY <1>1, <1>2, NumbersOfOne
<1>4. NoStop(<<NL>>) /\ NoStop(<<>>) /\ AllBlank(<<NL>>) /\ AllBlank(<<>>)
  BY <1>1, <1>2, Zenon DEF NoStop, AllBlank
<1> QED BY <1>1, <1>3, <1>4 DEF Leads

LEMMA ReadLits ==
    ASSUME NEW b \in Seq(Tokens), NoStop(b), Numbers(b) = <<>>,
           NEW lits \in Seq(Int \ {0}), NEW c \in Seq(Tokens)
    PROVE  Literals(b \o (LitsText(lits) \o (<<Num(0)>> \o (<<NL>> \o c))))
              = Got1(lits, TRUE, <<NL>> \o c)
<1> DEFINE d == LitsText(lits)
           e == <<NL>> \o c
           f == <<Num(0)>> \o e
<1>1. /\ d \in Seq(Tokens) /\ NoStop(d) /\ Numbers(d) = lits
  BY LitsTextIs
<1>2. e \in Seq(Tokens) /\ f \in Seq(Tokens) /\ Num(0) \in Tokens /\ Stops(Num(0))
  <2>1. <<NL>> \in Seq(Tokens) /\ <<Num(0)>> \in Seq(Tokens) /\ Num(0) \in Tokens
    BY TokenTypes
  <2>2. e \in Seq(Tokens)
    BY <2>1, ConcatProperties
  <2>3. f \in Seq(Tokens)
    BY <2>1, <2>2, ConcatProperties
  <2> QED BY <2>1, <2>2, <2>3 DEF Stops
<1> HIDE DEF d, e
<1>3. b \o (d \o f) = (b \o d) \o f
  <2> HIDE DEF f
  <2> QED BY <1>1, <1>2, TextCat
<1>4. b \o d \in Seq(Tokens) /\ NoStop(b \o d)
  BY <1>1, StopsCat
<1>5. Numbers(b \o d) = lits
  <2>1. Numbers(b \o d) = <<>> \o lits /\ lits \in Seq(Int \ {0})
    BY <1>1, NumbersCat
  <2> QED BY <2>1, ConcatEmptySeq
<1>6. Literals((b \o d) \o f)
         = [lits |-> Numbers(b \o d), ok |-> Num(0) = Num(0),
            rest |-> IF Num(0) = Num(0) THEN e ELSE <<Num(0)>> \o e]
  BY <1>2, <1>4, LiteralsUpTo
<1>7. Literals((b \o d) \o f) = [lits |-> lits, ok |-> TRUE, rest |-> e]
  BY <1>5, <1>6
<1> QED BY <1>3, <1>7 DEF d, e, Got1

(* A clause line is read up to its end, wherever it is begun. *)
LEMMA ReadClauseLine ==
    ASSUME NEW x \in Lines, x.kind = "clause", NEW format, format # "wcnf",
           NEW lead \in Leads, NEW c \in Seq(Tokens)
    PROVE  Literals(lead \o (LineText(format, x) \o c)) = Got1(x.lits, TRUE, <<NL>> \o c)
<1> DEFINE a == Before(format, x)
           d == LitsText(x.lits)
           e == <<NL>> \o c
           f == <<Num(0)>> \o e
<1>1. /\ d \in Seq(Tokens) /\ e \in Seq(Tokens)
      /\ LineText(format, x) \o c = a \o (d \o f)
  BY ClauseText, SMTT(20)
<1>2. a \in Seq(Tokens) /\ NoStop(a) /\ Numbers(a) = <<>>
  BY BeforeIs
<1>3. lead \in Seq(Tokens) /\ NoStop(lead) /\ Numbers(lead) = <<>>
  BY LeadIs
<1>4. f \in Seq(Tokens) /\ d \o f \in Seq(Tokens)
  <2>1. <<Num(0)>> \in Seq(Tokens)
    BY TokenTypes
  <2>2. f \in Seq(Tokens)
    BY <1>1, <2>1, ConcatProperties
  <2> HIDE DEF f
  <2> QED BY <1>1, <2>2, ConcatProperties
<1>5. lead \o (a \o (d \o f)) = (lead \o a) \o (d \o f)
  <2> HIDE DEF a, d, f
  <2>1. d \o f \in Seq(Tokens) /\ a \in Seq(Tokens) /\ lead \in Seq(Tokens)
    BY <1>2, <1>3, <1>4
  <2> QED BY <2>1, TextCat
<1>6. lead \o a \in Seq(Tokens) /\ NoStop(lead \o a)
  BY <1>2, <1>3, StopsCat
<1>7. Numbers(lead \o a) = <<>>
  <2>1. Numbers(lead \o a) = <<>> \o <<>>
    BY <1>2, <1>3, NumbersCat
  <2>2. <<>> \in Seq(Int)
    OBVIOUS
  <2> QED BY <2>1, <2>2, ConcatEmptySeq
<1>8. x.lits \in Seq(Int \ {0})
  BY LineTypes
<1> HIDE DEF a
<1>9. Literals((lead \o a) \o (d \o f)) = Got1(x.lits, TRUE, e)
  BY <1>6, <1>7, <1>8, ReadLits
<1> QED BY <1>1, <1>5, <1>9

(* No literal is read of another line, nor behind the last. *)
LEMMA ReadRemark ==
    ASSUME NEW x \in Lines, x.kind # "clause", NEW format,
           NEW lead \in Leads, NEW c \in Seq(Tokens)
    PROVE  Literals(lead \o (LineText(format, x) \o c))
              = Got1(<<>>, FALSE, LineText(format, x) \o c)
<1> DEFINE e == Remark(x) \o (<<NL>> \o c)
<1>1. /\ LineText(format, x) \o c = <<FirstWord(x)>> \o e
      /\ FirstWord(x) \in Tokens /\ Remark(x) \in Seq(Tokens)
      /\ Stops(FirstWord(x)) /\ FirstWord(x) # Num(0)
  BY RemarkText
<1>2. e \in Seq(Tokens)
  <2>1. <<NL>> \in Seq(Tokens)
    BY TokenTypes
  <2>2. <<NL>> \o c \in Seq(Tokens)
    BY <2>1, ConcatProperties
  <2> QED BY <1>1, <2>2, ConcatProperties
<1>3. lead \in Seq(Tokens) /\ NoStop(lead) /\ Numbers(lead) = <<>>
  BY LeadIs
<1> HIDE DEF e
<1>4. Literals(lead \o (<<FirstWord(x)>> \o e))
         = [lits |-> Numbers(lead), ok |-> FirstWord(x) = Num(0),
            rest |-> IF FirstWord(x) = Num(0) THEN e ELSE <<FirstWord(x)>> \o e]
  BY <1>1, <1>2, <1>3, LiteralsUpTo
<1> QED BY <1>1, <1>3, <1>4 DEF Got1

LEMMA ReadNothing ==
    ASSUME NEW lead \in Leads
    PROVE  Literals(lead \o <<>>) = Got1(<<>>, FALSE, <<>>)
<1>1. lead \in Seq(Tokens) /\ NoStop(lead) /\ Numbers(lead) = <<>>
  BY LeadIs
<1>2. lead \o <<>> = lead
  BY <1>1, ConcatEmptySeq
<1> QED BY <1>1, <1>2, LiteralsToEnd DEF Got1

(* A character taken away. *)
LEMMA BiteOne ==
    ASSUME NEW z \in Tokens, NEW b \in Seq(Tokens)
    PROVE  Bite(<<z>> \o b) = IF z.num < 0 THEN <<Num(0 - z.num)>> \o b ELSE b
<1>1. <<z>> \o b # <<>> /\ Head(<<z>> \o b) = z /\ Tail(<<z>> \o b) = b
  BY TailOfOne
<1> DEFINE s == <<z>> \o b
<1>2. s # <<>> /\ Head(s) = z /\ Tail(s) = b
  BY <1>1
<1> HIDE DEF s
<1>3. Bite(s) = IF z.num < 0 THEN <<Num(0 - z.num)>> \o b ELSE b
  BY <1>2 DEF Bite
<1> QED BY <1>3 DEF s

LEMMA BiteWhole ==
    ASSUME NEW z \in Tokens, z.num = 0, NEW b \in Seq(Tokens)
    PROVE  Bite(<<z>> \o b) = b
<1>1. ~(z.num < 0)
  OBVIOUS
<1> QED BY <1>1, BiteOne

LEMMA HeadFirst ==
    ASSUME NEW a \in Seq(Tokens), a # <<>>
    PROVE  /\ Head(a) \in Tokens /\ Tail(a) \in Seq(Tokens)
           /\ a = <<Head(a)>> \o Tail(a)
<1>1. Head(a) \in Tokens /\ Tail(a) \in Seq(Tokens)
  BY HeadTailProperties
<1>2. Len(a) \in Nat /\ Len(a) # 0 /\ Head(a) = a[1] /\ Tail(a) = SubSeq(a, 2, Len(a))
  BY TailIsSubSeq
<1>3. SubSeq(a, 1, Len(a)) = <<a[1]>> \o SubSeq(a, 1 + 1, Len(a))
  <2>1. 1 \in 1..Len(a) /\ Len(a) \in 1..Len(a)
    BY <1>2
  <2> QED BY <2>1, SubSeqRecursiveFirst
<1>4. SubSeq(a, 1, Len(a)) = a
  BY SubSeqFull
<1> QED BY <1>1, <1>2, <1>3, <1>4

(* What one character less leaves of a part without an end. *)
LEMMA BiteKeeps ==
    ASSUME NEW a \in Seq(Tokens), a # <<>>, NoStop(a), NEW b \in Seq(Tokens)
    PROVE  \E d \in Seq(Tokens) : /\ Bite(a \o b) = d \o b
                                  /\ NoStop(d)
                                  /\ Len(Numbers(d)) <= Len(Numbers(a))
<1> DEFINE z == Head(a)
           t == Tail(a)
           y == Num(0 - z.num)
<1>1. z \in Tokens /\ t \in Seq(Tokens) /\ a = <<z>> \o t
  BY HeadFirst
<1>2. z.num \in Int /\ (z.num # 0 => z.kind = "number")
  BY <1>1 DEF Tokens
<1>3. y \in Tokens /\ y.kind = "number" /\ y.num = 0 - z.num
  BY <1>2, TokenTypes DEF Num
<1> HIDE DEF z, t, y
<1>4. <<z>> \in Seq(Tokens) /\ <<y>> \in Seq(Tokens)
  BY <1>1, <1>3
<1>5. NoStop(<<z>>) /\ NoStop(t)
  BY <1>1, <1>4, StopsCat
<1>6. Numbers(a) = Numbers(<<z>>) \o Numbers(t) /\ Numbers(<<z>>) \in Seq(Int) /\ Numbers(t) \in Seq(Int)
  BY <1>1, <1>4, NumbersCat
<1>7. Len(Numbers(a)) = Len(Numbers(<<z>>)) + Len(Numbers(t))
      /\ Len(Numbers(<<z>>)) \in Nat /\ Len(Numbers(t)) \in Nat
  BY <1>6, ConcatProperties
<1>8. t \o b \in Seq(Tokens)
  BY <1>1, ConcatProperties
<1>9. a \o b = <<z>> \o (t \o b)
  BY <1>1, <1>4, TextCat
<1>10. Bite(a \o b) = IF z.num < 0 THEN <<y>> \o (t \o b) ELSE t \o b
  BY <1>1, <1>8, <1>9, BiteOne DEF y
<1>11. CASE z.num < 0
  <2>1. Bite(a \o b) = (<<y>> \o t) \o b
    <3>1. <<y>> \o (t \o b) = (<<y>> \o t) \o b
      BY <1>1, <1>4, TextCat
    <3> QED BY <1>10, <1>11, <3>1
  <2>2. NoStop(<<y>>)
    <3>1. ~Stops(y)
      <4>1. y.num # 0
        BY <1>2, <1>3, <1>11
      <4>2. y # Num(0)
        BY <4>1 DEF Num
      <4> QED BY <1>3, <4>2 DEF Stops
    <3>2. Len(<<y>>) = 1 /\ <<y>>[1] = y /\ 1..1 = {1}
      OBVIOUS
    <3> QED BY <3>1, <3>2, Zenon DEF NoStop
  <2>3. <<y>> \o t \in Seq(Tokens) /\ NoStop(<<y>> \o t)
    BY <1>1, <1>4, <1>5, <2>2, StopsCat
  <2>4. Len(Numbers(<<y>> \o t)) = Len(Numbers(a))
    <3>1. Numbers(<<y>> \o t) = Numbers(<<y>>) \o Numbers(t)
      BY <1>1, <1>4, NumbersCat
    <3>2. Numbers(<<y>>) = <<y.num>> /\ Numbers(<<z>>) = <<z.num>>
      <4>1. y \in Tokens /\ z \in Tokens /\ y.kind = "number" /\ z.kind = "number"
        BY <1>1, <1>2, <1>3, <1>11
      <4>2. Numbers(<<y>>) = <<y.num>>
        BY <4>1, NumbersOfOne
      <4>3. Numbers(<<z>>) = <<z.num>>
        BY <4>1, NumbersOfOne
      <4> QED BY <4>2, <4>3
    <3>3. Len(<<y.num>>) = 1 /\ Len(<<z.num>>) = 1 /\ <<y.num>> \in Seq(Int)
      BY <1>2, <1>3
    <3>4. Len(<<y.num>> \o Numbers(t)) = Len(<<y.num>>) + Len(Numbers(t))
      BY <1>6, <3>3, ConcatProperties
    <3> QED BY <1>7, <3>1, <3>2, <3>3, <3>4
  <2>5. Len(Numbers(<<y>> \o t)) <= Len(Numbers(a))
    BY <1>7, <2>4
  <2> QED BY <2>1, <2>3, <2>5
<1>12. CASE ~(z.num < 0)
  <2>1. Bite(a \o b) = t \o b
    BY <1>10, <1>12
  <2>2. Len(Numbers(t)) <= Len(Numbers(a))
    BY <1>7
  <2> QED BY <1>1, <1>5, <2>1, <2>2
<1> QED BY <1>11, <1>12

(* The first clause of a cnf file, whose first character is gone. *)
LEMMA BiteClauseLine ==
    ASSUME NEW x \in Lines, x.kind = "clause", NEW format, format # "wcnf",
           NEW c \in Seq(Tokens)
    PROVE  /\ x.blank => Literals(Bite(LineText(format, x) \o c)) = Got1(x.lits, TRUE, <<NL>> \o c)
           /\ ~x.blank /\ x.lits = <<>> => Bite(LineText(format, x) \o c) = <<NL>> \o c
           /\ ~x.blank /\ x.lits # <<>> =>
                 \E q \in Seq(Int) :
                    /\ Literals(Bite(LineText(format, x) \o c)) = Got1(q, TRUE, <<NL>> \o c)
                    /\ Len(q) <= Len(x.lits)
<1> DEFINE a == Before(format, x)
           d == LitsText(x.lits)
           e == <<NL>> \o c
           f == <<Num(0)>> \o e
           s == LineText(format, x) \o c
<1>1. d \in Seq(Tokens) /\ e \in Seq(Tokens) /\ s = a \o (d \o f)
  BY ClauseText, ZenonT(40)
<1>2. a = IF x.blank THEN <<SP>> ELSE <<>>
  BY BeforeIs
<1>3. /\ x.lits \in Seq(Int \ {0}) /\ NoStop(d) /\ Numbers(d) = x.lits
      /\ x.lits = <<>> => d = <<>>
      /\ x.lits # <<>> => d # <<>>
  BY LineTypes, LitsTextIs
<1>4. /\ Num(0) \in Tokens /\ SP \in Tokens /\ SP.num = 0 /\ Num(0).num = 0
      /\ f \in Seq(Tokens) /\ d \o f \in Seq(Tokens) /\ <<>> \o (d \o f) = d \o f
      /\ <<>> \in Seq(Tokens)
  <2>1. <<Num(0)>> \in Seq(Tokens) /\ Num(0) \in Tokens /\ SP \in Tokens
    BY TokenTypes
  <2>2. f \in Seq(Tokens)
    BY <1>1, <2>1, ConcatProperties
  <2>3. SP.num = 0 /\ Num(0).num = 0
    BY DEF SP, Num, Word
  <2> HIDE DEF f, d
  <2>4. d \o f \in Seq(Tokens)
    BY <1>1, <2>2, ConcatProperties
  <2> QED BY <2>1, <2>2, <2>3, <2>4, ConcatEmptySeq
<1> HIDE DEF a, d, s
<1>5. CASE x.blank
  <2>1. s = <<SP>> \o (d \o f)
    BY <1>1, <1>2, <1>5
  <2>2. Bite(s) = d \o f
    <3>1. d \o f \in Seq(Tokens) /\ SP \in Tokens /\ SP.num = 0
      BY <1>4
    <3> QED BY <2>1, <3>1, BiteWhole
  <2>3. NoStop(<<>>) /\ Numbers(<<>>) = <<>>
    BY NumbersOfOne DEF NoStop
  <2>4. Literals(<<>> \o (d \o f)) = Got1(x.lits, TRUE, e)
    BY <1>3, <1>4, <2>3, ReadLits DEF d
  <2> QED BY <1>4, <1>5, <2>2, <2>4 DEF s
<1>6. CASE ~x.blank /\ x.lits = <<>>
  <2>1. s = f
    <3>1. s = <<>> \o (<<>> \o f)
      BY <1>1, <1>2, <1>3, <1>6
    <3> HIDE DEF f
    <3> QED BY <1>4, <3>1, ConcatEmptySeq
  <2>2. Bite(s) = e
    <3>1. e \in Seq(Tokens) /\ Num(0) \in Tokens /\ Num(0).num = 0
      BY <1>1, <1>4
    <3> HIDE DEF e
    <3> QED BY <2>1, <3>1, BiteWhole
  <2> QED BY <1>6, <2>2 DEF s
<1>7. CASE ~x.blank /\ x.lits # <<>>
  <2>1. s = d \o f
    BY <1>1, <1>2, <1>4, <1>7
  <2>2. PICK g \in Seq(Tokens) : /\ Bite(s) = g \o f /\ NoStop(g)
                                 /\ Len(Numbers(g)) <= Len(Numbers(d))
    <3> HIDE DEF f
    <3> QED BY <1>1, <1>3, <1>4, <1>7, <2>1, BiteKeeps
  <2>3. Literals(g \o f) = [lits |-> Numbers(g), ok |-> Num(0) = Num(0),
                            rest |-> IF Num(0) = Num(0) THEN e ELSE <<Num(0)>> \o e]
    <3>1. Stops(Num(0))
      BY DEF Stops
    <3> HIDE DEF e
    <3> QED BY <1>1, <1>4, <2>2, <3>1, LiteralsUpTo
  <2>4. Numbers(g) \in Seq(Int)
    BY <2>2, NumbersCat
  <2>5. Literals(Bite(s)) = Got1(Numbers(g), TRUE, e)
    BY <2>2, <2>3 DEF Got1
  <2> QED BY <1>3, <1>7, <2>2, <2>4, <2>5 DEF s
<1> QED BY <1>5, <1>6, <1>7 DEF s

(* A weight, and then the clause. *)
LEMMA ReadWeightedLine ==
    ASSUME NEW x \in Lines, x.kind = "clause", NEW lead \in Leads, NEW c \in Seq(Tokens)
    PROVE  \E b \in Seq(Tokens) :
              /\ SkipBlanks(lead \o (LineText("wcnf", x) \o c)) = <<Num(x.weight)>> \o (<<SP>> \o b)
              /\ Literals(b) = Got1(x.lits, TRUE, <<NL>> \o c)
<1> DEFINE d == LitsText(x.lits)
           e == <<NL>> \o c
           f == <<Num(0)>> \o e
           blank == IF x.blank THEN <<SP>> ELSE <<>>
           w == Num(x.weight)
           b == d \o f
<1>1. /\ d \in Seq(Tokens) /\ e \in Seq(Tokens)
      /\ LineText("wcnf", x) \o c = Before("wcnf", x) \o b
  BY ClauseText, ZenonT(40)
<1>2. Before("wcnf", x) = blank \o <<w, SP>>
  BY DEF Before
<1>3. /\ blank \in Seq(Tokens) /\ w \in Tokens /\ SP \in Tokens /\ AllBlank(blank) /\ ~Blank(w)
  <2>1. w \in Tokens /\ SP \in Tokens
    BY LineTypes, TokenTypes
  <2>2. /\ <<SP>> \in Seq(Tokens) /\ <<>> \in Seq(Tokens) /\ 1..0 = {} /\ 1..1 = {1}
        /\ Len(<<SP>>) = 1 /\ <<SP>>[1] = SP /\ Len(<<>>) = 0
    BY <2>1
  <2>3. Blank(SP) /\ ~Blank(w)
    BY DEF Blank, SP, NL, Num, Word
  <2>4. AllBlank(<<SP>>) /\ AllBlank(<<>>)
    BY <2>2, <2>3, Zenon DEF AllBlank
  <2>5. blank \in Seq(Tokens) /\ AllBlank(blank)
    BY <2>2, <2>4
  <2> QED BY <2>1, <2>3, <2>5
<1>4. b \in Seq(Tokens)
  <2>1. <<Num(0)>> \in Seq(Tokens)
    BY TokenTypes
  <2>2. f \in Seq(Tokens)
    BY <1>1, <2>1, ConcatProperties
  <2> HIDE DEF f, d
  <2> QED BY <1>1, <2>2, ConcatProperties
<1>5. Literals(b) = Got1(x.lits, TRUE, e)
  <2>1. NoStop(<<>>) /\ Numbers(<<>>) = <<>> /\ <<>> \in Seq(Tokens)
    BY NumbersOfOne DEF NoStop
  <2>2. x.lits \in Seq(Int \ {0})
    BY LineTypes
  <2>3. Literals(<<>> \o b) = Got1(x.lits, TRUE, e)
    BY <2>1, <2>2, ReadLits
  <2> HIDE DEF b
  <2>4. <<>> \o b = b
    BY <1>4, ConcatEmptySeq
  <2> QED BY <2>3, <2>4
<1>6. lead \in Seq(Tokens) /\ AllBlank(lead)
  BY LeadIs
<1> HIDE DEF b, w, blank, d
<1> DEFINE all == lead \o blank
<1>7. all \in Seq(Tokens) /\ AllBlank(all)
  <2>1. /\ all \in Seq(Tokens) /\ Len(all) = Len(lead) + Len(blank)
        /\ \A i \in 1..(Len(lead) + Len(blank)) :
              all[i] = IF i <= Len(lead) THEN lead[i] ELSE blank[i - Len(lead)]
    BY <1>3, <1>6, ConcatProperties
  <2>2. Len(lead) \in Nat /\ Len(blank) \in Nat
    BY <1>3, <1>6
  <2> HIDE DEF all
  <2>3. ASSUME NEW i \in 1..Len(all) PROVE Blank(all[i])
    <3>1. CASE i <= Len(lead)
      BY <1>6, <2>1, <2>2, <3>1 DEF AllBlank
    <3>2. CASE ~(i <= Len(lead))
      <4>1. i - Len(lead) \in 1..Len(blank)
        BY <2>1, <2>2, <3>2
      <4>2. all[i] = blank[i - Len(lead)]
        BY <2>1, <3>2
      <4> QED BY <1>3, <4>1, <4>2 DEF AllBlank
    <3> QED BY <3>1, <3>2
  <2> QED BY <2>1, <2>3 DEF AllBlank
<1>8. lead \o (Before("wcnf", x) \o b) = all \o (<<w>> \o (<<SP>> \o b))
  <2>1. <<w, SP>> \in Seq(Tokens) /\ <<w>> \in Seq(Tokens) /\ <<SP>> \in Seq(Tokens)
    BY <1>3
  <2>2. <<w>> \o <<SP>> = <<w, SP>>
    BY <1>3, OneOne
  <2>3. <<w, SP>> \o b \in Seq(Tokens)
    BY <1>4, <2>1, ConcatProperties
  <2>4. <<w>> \o (<<SP>> \o b) = <<w, SP>> \o b
    BY <1>4, <2>1, <2>2, TextCat
  <2>5. blank \o (<<w, SP>> \o b) = (blank \o <<w, SP>>) \o b
    BY <1>3, <1>4, <2>1, TextCat
  <2>6. lead \o (blank \o (<<w, SP>> \o b)) = (lead \o blank) \o (<<w, SP>> \o b)
    BY <1>3, <1>6, <2>3, TextCat
  <2> QED BY <1>2, <2>4, <2>5, <2>6
<1>9. <<SP>> \o b \in Seq(Tokens)
  BY <1>3, <1>4, ConcatProperties
<1> HIDE DEF all
<1>10. SkipBlanks(all \o (<<w>> \o (<<SP>> \o b))) = <<w>> \o (<<SP>> \o b)
  BY <1>3, <1>7, <1>9, SkipsBlanks
<1>11. SkipBlanks(lead \o (LineText("wcnf", x) \o c)) = <<w>> \o (<<SP>> \o b)
  BY <1>1, <1>8, <1>10
<1> QED BY <1>4, <1>5, <1>11 DEF w

(* A line that is no clause, and where a comment ends. *)
LEMMA ReadWeightedRemark ==
    ASSUME NEW x \in Lines, x.kind # "clause", NEW lead \in Leads, NEW format,
           NEW c \in Seq(Tokens)
    PROVE  /\ SkipBlanks(lead \o (LineText(format, x) \o c)) = LineText(format, x) \o c
           /\ AfterLine(LineText(format, x) \o c) = c
           /\ StartsWith(LineText(format, x) \o c, IF x.kind = "comment" THEN "c" ELSE "p")
           /\ \A w : StartsWith(LineText(format, x) \o c, w)
                        => w = IF x.kind = "comment" THEN "c" ELSE "p"
<1> DEFINE t == Remark(x) \o (<<NL>> \o c)
           z == FirstWord(x)
<1>1. /\ LineText(format, x) \o c = <<z>> \o t
      /\ z \in Tokens /\ Remark(x) \in Seq(Tokens)
      /\ ~Blank(z)
      /\ z.kind = (IF x.kind = "comment" THEN "c" ELSE "p")
      /\ NoNL(<<z>> \o Remark(x))
  BY RemarkText
<1>2. <<NL>> \o c \in Seq(Tokens) /\ t \in Seq(Tokens) /\ <<z>> \in Seq(Tokens)
      /\ <<z>> \o Remark(x) \in Seq(Tokens)
  <2>1. <<NL>> \in Seq(Tokens) /\ <<z>> \in Seq(Tokens)
    BY <1>1, TokenTypes
  <2>2. <<NL>> \o c \in Seq(Tokens)
    BY <2>1, ConcatProperties
  <2>3. <<z>> \o Remark(x) \in Seq(Tokens)
    BY <1>1, <2>1, ConcatProperties
  <2>4. t \in Seq(Tokens)
    BY <1>1, <2>2, ConcatProperties
  <2> QED BY <2>1, <2>2, <2>3, <2>4
<1>3. <<z>> \o t = (<<z>> \o Remark(x)) \o (<<NL>> \o c)
  BY <1>1, <1>2, TextCat
<1>4. lead \in Seq(Tokens) /\ AllBlank(lead)
  BY LeadIs
<1>5. AfterLine((<<z>> \o Remark(x)) \o (<<NL>> \o c)) = c
  BY <1>1, <1>2, SkipsLine
<1> HIDE DEF t, z
<1>6. SkipBlanks(lead \o (<<z>> \o t)) = <<z>> \o t
  BY <1>1, <1>2, <1>4, SkipsBlanks
<1>7. <<z>> \o t # <<>> /\ Head(<<z>> \o t) = z
  BY <1>1, <1>2, TailOfOne
<1> QED BY <1>1, <1>3, <1>5, <1>6, <1>7 DEF StartsWith

(* Nothing is read behind the first character of a line that is no clause. *)
LEMMA BiteRemark ==
    ASSUME NEW x \in Lines, x.kind # "clause", NEW format, NEW c \in Seq(Tokens)
    PROVE  Literals(Bite(LineText(format, x) \o c)).lits = <<>>
<1> DEFINE word == IF x.kind = "comment" THEN Word("text") ELSE Word(x.kind)
           e == <<NL>> \o c
           t == Remark(x) \o e
           first == FirstWord(x)
<1>1. /\ LineText(format, x) \o c = <<first>> \o t
      /\ first \in Tokens /\ Remark(x) \in Seq(Tokens) /\ first.num = 0
  BY RemarkText
<1>2. word \in Tokens /\ SP \in Tokens /\ Remark(x) = <<SP, word>>
      /\ Stops(word) /\ word # Num(0)
  <2>1. x.kind \in {"comment", "hard", "soft"}
    BY LineTypes
  <2>2. word \in Tokens /\ SP \in Tokens
    BY <2>1, TokenTypes
  <2>3. Remark(x) = <<SP, word>>
    BY <2>1 DEF Remark
  <2>4. Stops(word) /\ word # Num(0)
    BY <2>1 DEF Stops, Blank, Num, NL, SP, Word
  <2> QED BY <2>2, <2>3, <2>4
<1> HIDE DEF word, first
<1>3. e \in Seq(Tokens) /\ t \in Seq(Tokens) /\ <<SP>> \in Seq(Tokens) /\ <<word>> \in Seq(Tokens)
  <2>1. <<NL>> \in Seq(Tokens) /\ <<SP>> \in Seq(Tokens) /\ <<word>> \in Seq(Tokens)
    BY <1>2, TokenTypes
  <2>2. e \in Seq(Tokens)
    BY <2>1, ConcatProperties
  <2>3. t \in Seq(Tokens)
    BY <1>1, <2>2, ConcatProperties
  <2> QED BY <2>1, <2>2, <2>3
<1> HIDE DEF e
<1>4. Bite(<<first>> \o t) = t
  <2> HIDE DEF t
  <2> QED BY <1>1, <1>3, BiteWhole
<1>5. t = <<SP>> \o (<<word>> \o e)
  <2>1. <<SP>> \o <<word>> = <<SP, word>>
    BY <1>2, OneOne
  <2>2. <<SP>> \o (<<word>> \o e) = (<<SP>> \o <<word>>) \o e
    BY <1>3, TextCat
  <2> QED BY <1>2, <2>1, <2>2
<1> HIDE DEF t
<1>6. NoStop(<<SP>>) /\ Numbers(<<SP>>) = <<>>
  <2>1. ~Stops(SP) /\ SP.kind # "number"
    BY DEF Stops, Blank, Num, NL, SP, Word
  <2>2. Len(<<SP>>) = 1 /\ <<SP>>[1] = SP /\ 1..1 = {1}
    OBVIOUS
  <2>3. NoStop(<<SP>>)
    BY <2>1, <2>2, Zenon DEF NoStop
  <2> QED BY <1>2, <2>1, <2>3, NumbersOfOne
<1>7. Literals(<<SP>> \o (<<word>> \o e))
         = [lits |-> Numbers(<<SP>>), ok |-> word = Num(0),
            rest |-> IF word = Num(0) THEN e ELSE <<word>> \o e]
  BY <1>2, <1>3, <1>6, LiteralsUpTo
<1>8. Bite(LineText(format, x) \o c) = t
  BY <1>1, <1>4
<1>9. Literals(t).lits = Numbers(<<SP>>)
  BY <1>5, <1>7
<1> QED BY <1>6, <1>8, <1>9

-----------------------------------------------------------------------------
(* Files: what of the text lies behind each line, and the clauses up to it. *)

Behind(f, S) ==
    /\ S \in [0..Len(f.lines) -> Seq(Tokens)]
    /\ S[Len(f.lines)] = <<>>
    /\ \A k \in 1..Len(f.lines) : S[k - 1] = LineText(f.format, f.lines[k]) \o S[k]

Tails(f) == CHOOSE S : Behind(f, S)

LEMMA LineIsText ==
    ASSUME NEW x \in Lines, NEW format
    PROVE  LineText(format, x) \in Seq(Tokens)
<1>1. <<>> \in Seq(Tokens)
  OBVIOUS
<1> QED BY <1>1, ClauseText, RemarkText

LEMMA TailsAre ==
    ASSUME NEW f, f.lines \in Seq(Lines)
    PROVE  Behind(f, Tails(f)) /\ Text(f) = Tails(f)[0]
<1> DEFINE n == Len(f.lines)
           L(k) == LineText(f.format, f.lines[k])
           B == Seq(Tokens)
           turn == [k \in 1..n |-> [t \in B |-> L(n + 1 - k) \o t]]
           seqs == [i \in DOMAIN f.lines |-> LineText(f.format, f.lines[i])]
<1>1. n \in Nat /\ DOMAIN f.lines = 1..n /\ <<>> \in B
      /\ \A k \in 1..n : f.lines[k] \in Lines
  OBVIOUS
<1>2. \A k \in 1..n : L(k) \in B
  BY <1>1, LineIsText
<1>3. seqs \in Seq(B) /\ Len(seqs) = n /\ \A k \in 1..n : seqs[k] = L(k)
  <2>1. seqs = [i \in 1..n |-> L(i)]
    BY <1>1
  <2> HIDE DEF seqs, L, B
  <2> QED BY <1>1, <1>2, <2>1
<1>4. PICK P : Joins(seqs, Tokens, P)
  <2> HIDE DEF seqs
  <2> QED BY <1>3, FlattenLoop
<1>5. Text(f) = FlattenSeq(seqs)
  BY DEF Text
<1>6. /\ P \in [0..n -> B] /\ P[0] = <<>> /\ Text(f) = P[n]
      /\ \A k \in 1..n : P[k] = P[k - 1] \o L(k)
  BY <1>3, <1>4, <1>5 DEF Joins
<1> HIDE DEF n, L, seqs
<1>7. turn \in Turns(n, B)
  <2> SUFFICES ASSUME NEW k \in 1..n, NEW t \in B PROVE L(n + 1 - k) \o t \in B
    BY DEF Turns
  <2>1. n + 1 - k \in 1..n
    BY <1>1
  <2>2. L(n + 1 - k) \in B
    BY <1>2, <2>1
  <2> QED BY <2>2, ConcatProperties
<1> HIDE DEF B
<1>8. PICK it : IsLoop(it, n, B, <<>>, turn)
  <2> HIDE DEF turn
  <2> QED BY <1>1, <1>7, LoopExists
<1>9. Iterates(it, n, B, <<>>, turn)
  <2>1. 1..n \subseteq Nat /\ IsFiniteSet(1..n)
    BY <1>1, FS_Interval
  <2>2. \A t \in SUBSET (1..n) : t # {} => Max(t) \in 1..n
    BY <2>1, FS_Subset, MaxUpTo
  <2> HIDE DEF turn
  <2> QED BY <1>8, <2>2 DEF IsLoop, Iterates
<1>10. PICK G : Values(G, n, B, <<>>, turn)
  <2> HIDE DEF turn
  <2> QED BY <1>1, <1>7, <1>9, LoopValues
<1>11. /\ G \in [0..n -> B] /\ G[0] = <<>>
       /\ \A k \in 1..n : G[k] = turn[k][G[k - 1]]
  BY <1>10 DEF Values
<1> DEFINE S == [k \in 0..n |-> G[n - k]]
<1>12. S \in [0..n -> B] /\ S[n] = <<>>
  <2>1. \A k \in 0..n : n - k \in 0..n
    BY <1>1
  <2>2. n \in 0..n /\ n - n = 0
    BY <1>1
  <2> QED BY <1>11, <2>1, <2>2
<1>13. \A k \in 1..n : k - 1 \in 0..n /\ S[k - 1] = L(k) \o S[k]
  <2> TAKE k \in 1..n
  <2>1. /\ k \in 0..n /\ k - 1 \in 0..n /\ n - (k - 1) \in 1..n /\ n - k \in 0..n
        /\ (n - (k - 1)) - 1 = n - k /\ n + 1 - (n - (k - 1)) = k
    BY <1>1
  <2>2. G[n - (k - 1)] = turn[n - (k - 1)][G[n - k]] /\ G[n - k] \in B
    BY <1>11, <2>1
  <2>3. G[n - (k - 1)] = L(k) \o G[n - k]
    BY <2>1, <2>2
  <2> QED BY <2>1, <2>3
<1> HIDE DEF turn, S
<1>14. Behind(f, S)
  BY <1>12, <1>13 DEF Behind, n, L, B
<1>15. Behind(f, Tails(f))
  BY <1>14 DEF Tails
<1> DEFINE R == Tails(f)
           T == {k \in 0..n : P[k] \o R[k] = R[0]}
<1>16. /\ R \in [0..n -> B] /\ R[n] = <<>>
       /\ \A k \in 1..n : R[k - 1] = L(k) \o R[k]
  BY <1>15 DEF Behind, n, L, B
<1> HIDE DEF R
<1>17. \A k \in 0..n : k \in T
  <2>1. 0 \in T
    <3>1. 0 \in 0..n /\ R[0] \in B
      BY <1>1, <1>16
    <3> QED BY <1>6, <3>1, ConcatEmptySeq DEF B
  <2>2. \A k \in 1..n : k - 1 \in T => k \in T
    <3> TAKE k \in 1..n
    <3> HAVE k - 1 \in T
    <3>1. k \in 0..n /\ k - 1 \in 0..n
      BY <1>1
    <3>2. P[k - 1] \in Seq(Tokens) /\ L(k) \in Seq(Tokens) /\ R[k] \in Seq(Tokens)
      BY <1>2, <1>6, <1>16, <3>1 DEF B
    <3>3. P[k - 1] \o (L(k) \o R[k]) = (P[k - 1] \o L(k)) \o R[k]
      BY <3>2, TextCat
    <3>4. P[k] \o R[k] = R[0]
      BY <1>6, <1>16, <3>3
    <3> QED BY <3>1, <3>4
  <2> HIDE DEF T
  <2> QED BY <1>1, <2>1, <2>2, UpTo
<1>18. P[n] \o <<>> = R[0] /\ P[n] \in B
  <2>1. n \in 0..n
    BY <1>1
  <2> QED BY <1>6, <1>16, <1>17, <2>1
<1>19. Text(f) = R[0]
  BY <1>6, <1>18, ConcatEmptySeq DEF B
<1> QED BY <1>15, <1>19 DEF R

(* The clauses of a file, line by line. *)
ClausesTurn(q, x) == IF IsClause(x) THEN Append(q, x) ELSE q

(* The clauses of the first k lines. *)
ClausesTurns(f, G) ==
    /\ G \in [0..Len(f.lines) -> Seq(Lines)]
    /\ G[0] = <<>>
    /\ \A k \in 1..Len(f.lines) : G[k] = ClausesTurn(G[k - 1], f.lines[k])
    /\ Clauses(f) = G[Len(f.lines)]

LEMMA ClausesLoop ==
    ASSUME NEW f, f.lines \in Seq(Lines)
    PROVE  \E G : ClausesTurns(f, G)
<1> DEFINE n == Len(f.lines)
           B == Seq(Lines)
           turn == [k \in 1..n |-> [q \in B |-> ClausesTurn(q, f.lines[k])]]
           it == CHOOSE g : g = [t \in SUBSET (1..n) |-> IF t = {} THEN <<>>
                                        ELSE ClausesTurn(g[t \ {Max(t)}], f.lines[Max(t)])]
<1>1. n \in Nat /\ <<>> \in B /\ DOMAIN f.lines = 1..n
  OBVIOUS
<1>2. turn \in Turns(n, B)
  <2> SUFFICES ASSUME NEW k \in 1..n, NEW q \in B PROVE ClausesTurn(q, f.lines[k]) \in B
    BY DEF Turns
  <2>1. f.lines[k] \in Lines
    OBVIOUS
  <2> QED BY <1>1, <2>1 DEF ClausesTurn
<1>3. Clauses(f) = it[1..n]
  BY <1>1, Zenon DEF Clauses, FoldLeft, MapThenFoldSet, ClausesTurn
<1> HIDE DEF n, B
<1>4. 1..n \subseteq Nat /\ IsFiniteSet(1..n)
  BY <1>1, FS_Interval
<1>5. \A t \in SUBSET (1..n) : t # {} => Max(t) \in 1..n
  BY <1>4, FS_Subset, MaxUpTo
<1>6. it = [t \in SUBSET (1..n) |-> IF t = {} THEN <<>>
                                  ELSE ClausesTurn(it[t \ {Max(t)}], f.lines[Max(t)])]
  <2>1. PICK g : IsLoop(g, n, B, <<>>, turn)
    <3> HIDE DEF turn
    <3> QED BY <1>1, <1>2, LoopExists
  <2>2. g = [t \in SUBSET (1..n) |-> IF t = {} THEN <<>>
                                    ELSE ClausesTurn(g[t \ {Max(t)}], f.lines[Max(t)])]
    BY <1>5, <2>1 DEF IsLoop
  <2> QED BY <2>2
<1> HIDE DEF it
<1>7. Iterates(it, n, B, <<>>, turn)
  BY <1>5, <1>6 DEF Iterates
<1>8. PICK G : Values(G, n, B, <<>>, turn) /\ G[n] = it[1..n]
  <2> HIDE DEF turn
  <2> QED BY <1>1, <1>2, <1>7, LoopValues
<1>9. G \in [0..n -> B] /\ G[0] = <<>>
  BY <1>8 DEF Values
<1>10. \A k \in 1..n : G[k] = ClausesTurn(G[k - 1], f.lines[k])
  <2> TAKE k \in 1..n
  <2>1. k - 1 \in 0..n
    BY <1>1
  <2>2. G[k - 1] \in B
    BY <1>9, <2>1
  <2>3. G[k] = turn[k][G[k - 1]]
    BY <1>8 DEF Values
  <2> QED BY <1>1, <2>2, <2>3
<1> HIDE DEF turn
<1>11. ClausesTurns(f, G)
  BY <1>3, <1>8, <1>9, <1>10 DEF n, B, ClausesTurns
<1> QED BY <1>11

Indices(f) == [i \in DOMAIN f.lines |-> i]

LitsOf(f) == {f.lines[i].lits : i \in 1..Len(f.lines)}

(* The literals of the clauses a section begins with, line by line. *)
WhereTurn(f, soft, q, i) ==
    IF IsClause(f.lines[i]) /\ IsSoft(f, i) = soft THEN Append(q, f.lines[i].lits) ELSE q

(* The soft or hard clauses of the first k lines. *)
WhereTurns(f, soft, G) ==
    /\ G \in [0..Len(f.lines) -> Seq(LitsOf(f))]
    /\ G[0] = <<>>
    /\ \A k \in 1..Len(f.lines) : G[k] = WhereTurn(f, soft, G[k - 1], Indices(f)[k])
    /\ ClausesWhere(f, soft) = G[Len(f.lines)]

LEMMA WhereLoop ==
    ASSUME NEW f, f.lines \in Seq(Lines), NEW soft
    PROVE  \E G : WhereTurns(f, soft, G)
<1> DEFINE n == Len(f.lines)
           B == Seq(LitsOf(f))
           turn == [k \in 1..n |-> [q \in B |-> WhereTurn(f, soft, q, Indices(f)[k])]]
           it == CHOOSE g : g = [t \in SUBSET (1..n) |-> IF t = {} THEN <<>>
                                        ELSE WhereTurn(f, soft, g[t \ {Max(t)}], Indices(f)[Max(t)])]
<1>1. n \in Nat /\ <<>> \in B /\ DOMAIN f.lines = 1..n
  OBVIOUS
<1>2. turn \in Turns(n, B)
  <2> SUFFICES ASSUME NEW k \in 1..n, NEW q \in B PROVE WhereTurn(f, soft, q, Indices(f)[k]) \in B
    BY DEF Turns
  <2>1. Indices(f)[k] = k /\ f.lines[k] \in Lines
    BY <1>1 DEF Indices
  <2>2. f.lines[k].lits \in LitsOf(f)
    BY <2>1 DEF LitsOf
  <2> QED BY <1>1, <2>1, <2>2 DEF WhereTurn
<1>3. ClausesWhere(f, soft) = it[1..n]
  <2>1. DOMAIN Indices(f) = 1..n
    BY <1>1 DEF Indices
  <2>2. ClausesWhere(f, soft) = FoldLeft(LAMBDA q, i : WhereTurn(f, soft, q, i), <<>>, Indices(f))
    BY DEF ClausesWhere, FoldLeftDomain, WhereTurn, Indices
  <2> QED BY <2>1, <2>2, Zenon DEF FoldLeft, MapThenFoldSet
<1> HIDE DEF n, B
<1>4. 1..n \subseteq Nat /\ IsFiniteSet(1..n)
  BY <1>1, FS_Interval
<1>5. \A t \in SUBSET (1..n) : t # {} => Max(t) \in 1..n
  BY <1>4, FS_Subset, MaxUpTo
<1>6. it = [t \in SUBSET (1..n) |-> IF t = {} THEN <<>>
                                  ELSE WhereTurn(f, soft, it[t \ {Max(t)}], Indices(f)[Max(t)])]
  <2>1. PICK g : IsLoop(g, n, B, <<>>, turn)
    <3> HIDE DEF turn
    <3> QED BY <1>1, <1>2, LoopExists
  <2>2. g = [t \in SUBSET (1..n) |-> IF t = {} THEN <<>>
                                    ELSE WhereTurn(f, soft, g[t \ {Max(t)}], Indices(f)[Max(t)])]
    BY <1>5, <2>1 DEF IsLoop
  <2> QED BY <2>2
<1> HIDE DEF it
<1>7. Iterates(it, n, B, <<>>, turn)
  BY <1>5, <1>6 DEF Iterates
<1>8. PICK G : Values(G, n, B, <<>>, turn) /\ G[n] = it[1..n]
  <2> HIDE DEF turn
  <2> QED BY <1>1, <1>2, <1>7, LoopValues
<1>9. G \in [0..n -> B] /\ G[0] = <<>>
  BY <1>8 DEF Values
<1>10. \A k \in 1..n : G[k] = WhereTurn(f, soft, G[k - 1], Indices(f)[k])
  <2> TAKE k \in 1..n
  <2>1. k - 1 \in 0..n
    BY <1>1
  <2>2. G[k - 1] \in B
    BY <1>9, <2>1
  <2>3. G[k] = turn[k][G[k - 1]]
    BY <1>8 DEF Values
  <2> QED BY <1>1, <2>2, <2>3
<1> HIDE DEF turn
<1>11. WhereTurns(f, soft, G)
  BY <1>3, <1>8, <1>9, <1>10 DEF n, B, WhereTurns
<1> QED BY <1>11

-----------------------------------------------------------------------------
(* What a turn of ReadCNF takes: from a place in the text to a later one. *)

(* A clause does not look like a comment. *)
LEMMA ClauseIsNoComment ==
    ASSUME NEW x \in Lines, x.kind = "clause", NEW format, format # "wcnf",
           NEW c \in Seq(Tokens)
    PROVE  ~StartsWith(LineText(format, x) \o c, "c")
<1> DEFINE a == Before(format, x) \o LitsText(x.lits)
           e == <<Num(0)>> \o (<<NL>> \o c)
           s == LineText(format, x) \o c
<1>1. /\ LitsText(x.lits) \in Seq(Tokens) /\ <<NL>> \o c \in Seq(Tokens)
      /\ s = Before(format, x) \o (LitsText(x.lits) \o e)
  BY ClauseText, SMTT(20)
<1>2. /\ Before(format, x) \in Seq(Tokens) /\ NoStop(Before(format, x))
      /\ NoStop(LitsText(x.lits))
  BY BeforeIs, LineTypes, LitsTextIs
<1>3. Num(0) \in Tokens /\ <<Num(0)>> \in Seq(Tokens) /\ e \in Seq(Tokens)
  <2>1. Num(0) \in Tokens
    BY TokenTypes
  <2>2. <<Num(0)>> \in Seq(Tokens)
    BY <2>1
  <2> QED BY <1>1, <2>1, <2>2, ConcatProperties
<1>4. a \in Seq(Tokens) /\ NoStop(a)
  BY <1>1, <1>2, StopsCat
<1>5. s = a \o e
  <2> HIDE DEF s, e
  <2> QED BY <1>1, <1>2, <1>3, TextCat
<1>6. e # <<>> /\ Head(e) = Num(0)
  BY <1>1, <1>3, TailOfOne
<1> HIDE DEF a, e, s
<1>7. CASE a = <<>>
  <2>1. s = e
    BY <1>3, <1>5, <1>7, ConcatEmptySeq
  <2> QED BY <1>6, <2>1 DEF StartsWith, Num, s
<1>8. CASE a # <<>>
  <2>1. s = <<Head(a)>> \o (Tail(a) \o e) /\ Tail(a) \o e \in Seq(Tokens) /\ Head(a) \in Tokens
    <3>1. Head(a) \in Tokens /\ Tail(a) \in Seq(Tokens) /\ a = <<Head(a)>> \o Tail(a)
      BY <1>4, <1>8, HeadFirst
    <3>2. <<Head(a)>> \in Seq(Tokens)
      BY <3>1
    <3>3. <<Head(a)>> \o (Tail(a) \o e) = (<<Head(a)>> \o Tail(a)) \o e
      BY <1>3, <3>1, <3>2, TextCat
    <3> QED BY <1>3, <1>5, <3>1, <3>3, ConcatProperties
  <2>2. Head(s) = Head(a)
    BY <2>1, TailOfOne
  <2>3. ~Stops(Head(a))
    BY <1>4, <1>8 DEF NoStop
  <2> QED BY <2>2, <2>3 DEF StartsWith, Stops, Blank, NL, SP, Word, s
<1> QED BY <1>7, <1>8

(* A file whose lines are clauses and comments, as ReadCNF is given. *)
Readable(f) ==
    /\ f.lines \in Seq(Lines)
    /\ \A i \in 1..Len(f.lines) : f.lines[i].kind \in {"clause", "comment"}

Spot(f, s) == \E k \in 0..Len(f.lines), lead \in Leads : s = lead \o Tails(f)[k]

Fits(f, lits) == lits = <<>> \/ \E i \in 1..Len(f.lines) : Len(lits) <= Len(f.lines[i].lits)

LEMMA TailsText ==
    ASSUME NEW f, f.lines \in Seq(Lines), NEW k \in 0..Len(f.lines)
    PROVE  /\ Tails(f)[k] \in Seq(Tokens)
           /\ <<>> \o Tails(f)[k] = Tails(f)[k]
           /\ k = Len(f.lines) => Tails(f)[k] = <<>>
           /\ k < Len(f.lines) =>
                 /\ k + 1 \in 0..Len(f.lines) /\ k + 1 \in 1..Len(f.lines)
                 /\ f.lines[k + 1] \in Lines
                 /\ Tails(f)[k + 1] \in Seq(Tokens)
                 /\ Tails(f)[k] = LineText(f.format, f.lines[k + 1]) \o Tails(f)[k + 1]
<1>1. /\ Tails(f) \in [0..Len(f.lines) -> Seq(Tokens)]
      /\ Tails(f)[Len(f.lines)] = <<>>
      /\ \A i \in 1..Len(f.lines) : Tails(f)[i - 1] = LineText(f.format, f.lines[i]) \o Tails(f)[i]
  BY TailsAre DEF Behind
<1>2. Tails(f)[k] \in Seq(Tokens)
  BY <1>1
<1>3. <<>> \o Tails(f)[k] = Tails(f)[k]
  BY <1>2, ConcatEmptySeq
<1>4. k = Len(f.lines) => Tails(f)[k] = <<>>
  BY <1>1
<1>5. ASSUME k < Len(f.lines)
      PROVE  k + 1 \in 0..Len(f.lines) /\ k + 1 \in 1..Len(f.lines) /\ (k + 1) - 1 = k
  BY <1>5
<1>6. ASSUME k < Len(f.lines)
      PROVE  /\ f.lines[k + 1] \in Lines
             /\ Tails(f)[k + 1] \in Seq(Tokens)
             /\ Tails(f)[k] = LineText(f.format, f.lines[k + 1]) \o Tails(f)[k + 1]
  <2>1. k + 1 \in 0..Len(f.lines) /\ k + 1 \in 1..Len(f.lines) /\ (k + 1) - 1 = k
    BY <1>5, <1>6
  <2>2. Tails(f)[(k + 1) - 1] = LineText(f.format, f.lines[k + 1]) \o Tails(f)[k + 1]
    BY <1>1, <2>1
  <2>3. f.lines[k + 1] \in Lines
    BY <2>1
  <2>4. Tails(f)[k + 1] \in Seq(Tokens)
    BY <1>1, <2>1
  <2> QED BY <2>1, <2>2, <2>3, <2>4
<1> QED BY <1>2, <1>3, <1>4, <1>5, <1>6

(* The literals behind a newline, or at the beginning of a line. *)
LEMMA LiteralsAt ==
    ASSUME NEW f, Readable(f), f.format # "wcnf", NEW k \in 0..Len(f.lines), NEW lead \in Leads,
           NEW r, r = Literals(lead \o Tails(f)[k])
    PROVE  /\ r.lits \in Seq(Int) /\ Fits(f, r.lits) /\ Spot(f, r.rest)
           /\ k < Len(f.lines) /\ f.lines[k + 1].kind = "clause"
                 => r = Got1(f.lines[k + 1].lits, TRUE, <<NL>> \o Tails(f)[k + 1])
<1> DEFINE x == f.lines[k + 1]
<1>0. Len(f.lines) \in Nat /\ k \in Nat /\ k <= Len(f.lines)
  BY DEF Readable
<1>1. <<>> \in Leads /\ <<NL>> \in Leads /\ <<>> \in Seq(Int)
  BY DEF Leads
<1>2. /\ Tails(f)[k] \in Seq(Tokens)
      /\ <<>> \o Tails(f)[k] = Tails(f)[k]
      /\ k = Len(f.lines) => Tails(f)[k] = <<>>
      /\ k < Len(f.lines) =>
            /\ k + 1 \in 0..Len(f.lines) /\ k + 1 \in 1..Len(f.lines)
            /\ x \in Lines
            /\ Tails(f)[k + 1] \in Seq(Tokens)
            /\ Tails(f)[k] = LineText(f.format, x) \o Tails(f)[k + 1]
  BY TailsText DEF Readable
<1>3. CASE k = Len(f.lines)
  <2>1. r = Got1(<<>>, FALSE, <<>>)
    BY <1>2, <1>3, ReadNothing
  <2>2. Spot(f, <<>>)
    BY <1>1, <1>2, <1>3 DEF Spot
  <2>3. r.lits = <<>> /\ r.rest = <<>>
    BY <2>1 DEF Got1
  <2>4. Fits(f, r.lits) /\ r.lits \in Seq(Int) /\ Spot(f, r.rest)
    BY <1>1, <2>2, <2>3 DEF Fits
  <2>5. ~(k < Len(f.lines))
    BY <1>0, <1>3
  <2> QED BY <2>4, <2>5, Zenon
<1>4. CASE k < Len(f.lines) /\ x.kind = "clause"
  <2>1. Literals(lead \o (LineText(f.format, x) \o Tails(f)[k + 1]))
           = Got1(x.lits, TRUE, <<NL>> \o Tails(f)[k + 1])
    BY <1>2, <1>4, ReadClauseLine
  <2>2. r = Got1(x.lits, TRUE, <<NL>> \o Tails(f)[k + 1])
    BY <1>2, <1>4, <2>1
  <2>3. r.lits = x.lits /\ r.rest = <<NL>> \o Tails(f)[k + 1]
    BY <2>2 DEF Got1
  <2>4. x.lits \in Seq(Int)
    BY <1>2, <1>4, LineTypes
  <2>5. Spot(f, r.rest)
    BY <1>1, <1>2, <1>4, <2>3 DEF Spot
  <2>6. Fits(f, r.lits)
    <3>1. Len(r.lits) <= Len(f.lines[k + 1].lits)
      BY <2>3, <2>4
    <3> QED BY <1>2, <1>4, <3>1 DEF Fits
  <2> QED BY <2>2, <2>3, <2>4, <2>5, <2>6
<1>5. CASE k < Len(f.lines) /\ x.kind # "clause"
  <2>0. Literals(lead \o (LineText(f.format, x) \o Tails(f)[k + 1]))
           = Got1(<<>>, FALSE, LineText(f.format, x) \o Tails(f)[k + 1])
    BY <1>2, <1>5, ReadRemark
  <2>1. r = Got1(<<>>, FALSE, Tails(f)[k])
    BY <1>2, <1>5, <2>0
  <2>2. Spot(f, Tails(f)[k])
    BY <1>1, <1>2 DEF Spot
  <2>3. r.lits = <<>> /\ r.rest = Tails(f)[k]
    BY <2>1 DEF Got1
  <2>4. Fits(f, r.lits) /\ r.lits \in Seq(Int) /\ Spot(f, r.rest)
    BY <1>1, <2>2, <2>3 DEF Fits
  <2> QED BY <1>5, <2>4, Zenon
<1>6. k = Len(f.lines) \/ k < Len(f.lines)
  BY <1>0
<1> QED BY <1>3, <1>4, <1>5, <1>6, Zenon

(* What one character less makes of it, without a newline before it: with  *)
(* the sign of its first literal gone, or all of an empty clause, or a     *)
(* comment, which the line is skipped for.                                 *)
LEMMA CnfTurn ==
    ASSUME NEW f, Readable(f), f.format # "wcnf", NEW k \in 0..Len(f.lines), NEW lead \in Leads,
           NEW s, s = lead \o Tails(f)[k], NEW r, r = Literals(Bite(s))
    PROVE  /\ r.lits \in Seq(Int) /\ Fits(f, r.lits)
           /\ StartsWith(s, "c") => Spot(f, AfterLine(s)) /\ r.lits = <<>>
           /\ ~StartsWith(s, "c") => Spot(f, r.rest)
           /\ k < Len(f.lines) /\ f.lines[k + 1].kind = "clause" =>
                 /\ ~StartsWith(s, "c")
                 /\ lead = <<NL>> \/ f.lines[k + 1].blank => r.lits = f.lines[k + 1].lits
                 /\ lead = <<NL>> \/ f.lines[k + 1].blank \/ f.lines[k + 1].lits # <<>>
                       => r.rest = <<NL>> \o Tails(f)[k + 1]
<1> DEFINE x == f.lines[k + 1]
           Goal == /\ r.lits \in Seq(Int) /\ Fits(f, r.lits)
                   /\ StartsWith(s, "c") => Spot(f, AfterLine(s)) /\ r.lits = <<>>
                   /\ ~StartsWith(s, "c") => Spot(f, r.rest)
                   /\ k < Len(f.lines) /\ x.kind = "clause" =>
                         /\ ~StartsWith(s, "c")
                         /\ lead = <<NL>> \/ x.blank => r.lits = x.lits
                         /\ lead = <<NL>> \/ x.blank \/ x.lits # <<>>
                               => r.rest = <<NL>> \o Tails(f)[k + 1]
<1>0. Len(f.lines) \in Nat /\ k \in Nat /\ k <= Len(f.lines)
  BY DEF Readable
<1>1. <<>> \in Leads /\ <<NL>> \in Leads /\ <<>> \in Seq(Int) /\ (lead = <<>> \/ lead = <<NL>>)
  BY DEF Leads
<1>2. /\ Tails(f)[k] \in Seq(Tokens)
      /\ <<>> \o Tails(f)[k] = Tails(f)[k]
      /\ k = Len(f.lines) => Tails(f)[k] = <<>>
      /\ k < Len(f.lines) =>
            /\ k + 1 \in 0..Len(f.lines) /\ k + 1 \in 1..Len(f.lines)
            /\ x \in Lines
            /\ Tails(f)[k + 1] \in Seq(Tokens)
            /\ Tails(f)[k] = LineText(f.format, x) \o Tails(f)[k + 1]
  BY TailsText DEF Readable
(* The newline is what is taken. *)
<1>3. CASE lead = <<NL>>
  <2>1. NL \in Tokens /\ NL.num = 0 /\ NL.kind # "c"
    BY TokenTypes DEF NL, Word
  <2>2. Bite(s) = <<>> \o Tails(f)[k]
    BY <1>2, <1>3, <2>1, BiteWhole
  <2>3. /\ r.lits \in Seq(Int) /\ Fits(f, r.lits) /\ Spot(f, r.rest)
        /\ k < Len(f.lines) /\ f.lines[k + 1].kind = "clause"
              => r = Got1(f.lines[k + 1].lits, TRUE, <<NL>> \o Tails(f)[k + 1])
    BY <1>1, <2>2, LiteralsAt
  <2>4. Head(s) = NL
    BY <1>2, <1>3, <2>1, TailOfOne
  <2>5. ~StartsWith(s, "c")
    BY <2>1, <2>4 DEF StartsWith
  <2>6. k < Len(f.lines) /\ x.kind = "clause"
           => r.lits = x.lits /\ r.rest = <<NL>> \o Tails(f)[k + 1]
    BY <2>3 DEF Got1
  <2>7. Goal
    BY <2>3, <2>5, <2>6, Zenon
  <2> QED BY <2>7
<1>4. CASE lead = <<>> /\ k = Len(f.lines)
  <2>1. s = <<>> /\ Bite(s) = <<>> /\ <<>> \o <<>> = <<>>
    BY <1>2, <1>4 DEF Bite
  <2>2. r = Got1(<<>>, FALSE, <<>>)
    BY <1>1, <2>1, ReadNothing
  <2>3. Spot(f, <<>>)
    BY <1>1, <1>2, <1>4 DEF Spot
  <2>4. r.lits = <<>> /\ r.rest = <<>>
    BY <2>2 DEF Got1
  <2>5. Fits(f, r.lits) /\ r.lits \in Seq(Int) /\ Spot(f, r.rest)
    BY <1>1, <2>3, <2>4 DEF Fits
  <2>6. ~StartsWith(s, "c") /\ ~(k < Len(f.lines))
    BY <1>0, <1>4, <2>1 DEF StartsWith
  <2> QED BY <2>5, <2>6
<1>5. CASE lead = <<>> /\ k < Len(f.lines) /\ x.kind = "comment"
  <2>1. s = LineText(f.format, x) \o Tails(f)[k + 1]
    BY <1>2, <1>5
  <2>2. r.lits = <<>>
    BY <1>2, <1>5, <2>1, BiteRemark
  <2> DEFINE c == Tails(f)[k + 1]
  <2>a. c \in Seq(Tokens) /\ x \in Lines /\ x.kind # "clause"
    BY <1>2, <1>5
  <2>b. /\ AfterLine(LineText(f.format, x) \o c) = c
        /\ StartsWith(LineText(f.format, x) \o c, IF x.kind = "comment" THEN "c" ELSE "p")
    <3> HIDE DEF c, x
    <3> QED BY <1>1, <2>a, ReadWeightedRemark
  <2>3. AfterLine(s) = Tails(f)[k + 1] /\ StartsWith(s, "c")
    BY <1>5, <2>1, <2>b
  <2>4. <<>> \o Tails(f)[k + 1] = Tails(f)[k + 1]
    BY <1>2, <1>5, TailsText DEF Readable
  <2>5. Spot(f, AfterLine(s))
    BY <1>1, <1>2, <1>5, <2>3, <2>4 DEF Spot
  <2>6. Fits(f, r.lits) /\ r.lits \in Seq(Int)
    BY <1>1, <2>2 DEF Fits
  <2> QED BY <1>5, <2>2, <2>3, <2>5, <2>6
<1>6. CASE lead = <<>> /\ k < Len(f.lines) /\ x.kind = "clause"
  <2> DEFINE c == Tails(f)[k + 1]
  <2>1. s = LineText(f.format, x) \o c /\ c \in Seq(Tokens) /\ x \in Lines
    BY <1>2, <1>6
  <2>2. ~StartsWith(s, "c")
    BY <1>6, <2>1, ClauseIsNoComment
  <2>3. x.lits \in Seq(Int) /\ x.blank \in BOOLEAN
    BY <2>1, LineTypes
  <2>4. k + 1 \in 0..Len(f.lines) /\ k + 1 \in 1..Len(f.lines)
    BY <1>2, <1>6
  <2>5. Spot(f, <<NL>> \o c)
    BY <1>1, <2>4 DEF Spot
  <2>6. lead # <<NL>>
    BY <1>6
  <2>7. CASE x.blank
    <3>0. Literals(Bite(LineText(f.format, x) \o c)) = Got1(x.lits, TRUE, <<NL>> \o c)
      BY <1>6, <2>1, <2>7, BiteClauseLine
    <3>1. r = Got1(x.lits, TRUE, <<NL>> \o c)
      BY <2>1, <3>0
    <3>2. r.lits = x.lits /\ r.rest = <<NL>> \o c
      BY <3>1 DEF Got1
    <3>3. Len(r.lits) <= Len(f.lines[k + 1].lits)
      BY <2>3, <3>2
    <3>4. Fits(f, r.lits)
      BY <2>4, <3>3 DEF Fits
    <3>5. r.lits \in Seq(Int) /\ Spot(f, r.rest)
      BY <2>3, <2>5, <3>2
    <3> QED BY <2>2, <3>2, <3>4, <3>5
  <2>8. CASE ~x.blank /\ x.lits = <<>>
    <3>1. Bite(s) = <<NL>> \o c
      BY <1>6, <2>1, <2>8, BiteClauseLine
    <3>2. r.lits \in Seq(Int) /\ Fits(f, r.lits) /\ Spot(f, r.rest)
      BY <1>1, <2>4, <3>1, LiteralsAt
    <3> QED BY <2>2, <2>6, <2>8, <3>2
  <2>9. CASE ~x.blank /\ x.lits # <<>>
    <3>1. PICK q \in Seq(Int) : /\ Literals(Bite(s)) = Got1(q, TRUE, <<NL>> \o c)
                                /\ Len(q) <= Len(x.lits)
      BY <1>6, <2>1, <2>9, BiteClauseLine
    <3>2. r.lits = q /\ r.rest = <<NL>> \o c
      BY <3>1 DEF Got1
    <3>3. Fits(f, r.lits)
      BY <2>4, <3>1, <3>2 DEF Fits
    <3>4. r.lits \in Seq(Int) /\ Spot(f, r.rest)
      BY <2>5, <3>1, <3>2
    <3> QED BY <2>2, <2>6, <2>9, <3>2, <3>3, <3>4
  <2> QED BY <2>7, <2>8, <2>9
<1>7. k < Len(f.lines) => x.kind \in {"clause", "comment"}
  BY <1>2 DEF Readable
<1> QED BY <1>0, <1>1, <1>3, <1>4, <1>5, <1>6, <1>7

(* With weights: a clause has a number before it, and what is taken behind *)
(* the number is a space.                                                  *)
LEMMA WcnfTurn ==
    ASSUME NEW f, Readable(f), f.format = "wcnf", NEW k \in 0..Len(f.lines), k < Len(f.lines),
           NEW lead \in Leads, NEW next, next = SkipBlanks(lead \o Tails(f)[k])
    PROVE  /\ f.lines[k + 1].kind = "clause" =>
                 /\ StartsWith(next, "number")
                 /\ Head(next).num = f.lines[k + 1].weight
                 /\ ~StartsWith(Tail(next), "c")
                 /\ Literals(Bite(Tail(next)))
                       = Got1(f.lines[k + 1].lits, TRUE, <<NL>> \o Tails(f)[k + 1])
           /\ f.lines[k + 1].kind # "clause" =>
                 /\ ~StartsWith(next, "number") /\ StartsWith(next, "c")
                 /\ AfterLine(next) = Tails(f)[k + 1]
                 /\ Literals(Bite(next)).lits = <<>>
<1> DEFINE x == f.lines[k + 1]
           c == Tails(f)[k + 1]
<1>1. /\ k + 1 \in 1..Len(f.lines)
      /\ x \in Lines
      /\ c \in Seq(Tokens)
      /\ Tails(f)[k] = LineText("wcnf", x) \o c
  BY TailsText DEF Readable
<1>2. x.kind \in {"clause", "comment"}
  BY <1>1 DEF Readable
<1> HIDE DEF x, c
<1>3. ASSUME x.kind = "clause"
      PROVE  /\ StartsWith(next, "number")
             /\ Head(next).num = x.weight
             /\ ~StartsWith(Tail(next), "c")
             /\ Literals(Bite(Tail(next))) = Got1(x.lits, TRUE, <<NL>> \o c)
  <2>1. PICK b \in Seq(Tokens) :
           /\ SkipBlanks(lead \o (LineText("wcnf", x) \o c)) = <<Num(x.weight)>> \o (<<SP>> \o b)
           /\ Literals(b) = Got1(x.lits, TRUE, <<NL>> \o c)
    BY <1>1, <1>3, ReadWeightedLine
  <2>2. next = <<Num(x.weight)>> \o (<<SP>> \o b)
    BY <1>1, <2>1
  <2>3. Num(x.weight) \in Tokens /\ SP \in Tokens /\ SP.num = 0 /\ SP.kind # "c"
    <3>1. x.weight \in Int
      BY <1>1, LineTypes
    <3> QED BY <3>1, TokenTypes DEF SP, Word
  <2>4. /\ <<SP>> \o b \in Seq(Tokens) /\ <<SP>> \o b # <<>> /\ Head(<<SP>> \o b) = SP
    BY <2>3, TailOfOne
  <2>5. next # <<>> /\ Head(next) = Num(x.weight) /\ Tail(next) = <<SP>> \o b
    BY <2>2, <2>3, <2>4, TailOfOne
  <2>6. Bite(Tail(next)) = b
    BY <2>3, <2>5, BiteWhole
  <2>7. StartsWith(next, "number") /\ Head(next).num = x.weight
    BY <2>5 DEF StartsWith, Num
  <2>8. ~StartsWith(Tail(next), "c")
    BY <2>3, <2>4, <2>5 DEF StartsWith
  <2> QED BY <2>1, <2>6, <2>7, <2>8
<1>4. ASSUME x.kind # "clause"
      PROVE  /\ ~StartsWith(next, "number") /\ StartsWith(next, "c")
             /\ AfterLine(next) = c
             /\ Literals(Bite(next)).lits = <<>>
  <2>1. x.kind = "comment"
    BY <1>2, <1>4
  <2>2. /\ next = LineText("wcnf", x) \o c
        /\ AfterLine(LineText("wcnf", x) \o c) = c
        /\ StartsWith(LineText("wcnf", x) \o c, "c")
        /\ \A w : StartsWith(LineText("wcnf", x) \o c, w) => w = "c"
    BY <1>1, <1>4, <2>1, ReadWeightedRemark
  <2>3. Literals(Bite(LineText("wcnf", x) \o c)).lits = <<>>
    BY <1>1, <1>4, BiteRemark
  <2>4. ~StartsWith(next, "number")
    BY <2>2
  <2> QED BY <2>2, <2>3, <2>4
<1> QED BY <1>3, <1>4 DEF x, c

-----------------------------------------------------------------------------
(* The clauses that are passed when so many lines are. *)
Passed(f) == CHOOSE G : ClausesTurns(f, G)

Begins(p, q) == Len(p) <= Len(q) /\ \A j \in 1..Len(p) : q[j] = p[j]

LEMMA PassedOne ==
    ASSUME NEW f, f.lines \in Seq(Lines), NEW k \in 1..Len(f.lines)
    PROVE  /\ Passed(f)[k - 1] \in Seq(Lines) /\ Passed(f)[k] \in Seq(Lines)
           /\ f.lines[k].kind = "clause" =>
                 /\ Len(Passed(f)[k]) = Len(Passed(f)[k - 1]) + 1
                 /\ Passed(f)[k][Len(Passed(f)[k])] = f.lines[k]
           /\ f.lines[k].kind # "clause" => Passed(f)[k] = Passed(f)[k - 1]
           /\ Begins(Passed(f)[k - 1], Passed(f)[k])
<1> DEFINE x == f.lines[k]
           p == Passed(f)[k - 1]
           q == Passed(f)[k]
<1>1. ClausesTurns(f, Passed(f))
  BY ClausesLoop DEF Passed
<1>2. k - 1 \in 0..Len(f.lines) /\ k \in 0..Len(f.lines)
  OBVIOUS
<1>3. p \in Seq(Lines) /\ q \in Seq(Lines) /\ q = ClausesTurn(p, x)
  BY <1>1, <1>2 DEF ClausesTurns
<1>4. x \in Lines
  OBVIOUS
<1> HIDE DEF p, q, x
<1>5. CASE x.kind = "clause"
  <2>1. q = Append(p, x)
    BY <1>3, <1>5 DEF ClausesTurn, IsClause
  <2>2. Len(q) = Len(p) + 1 /\ q[Len(p) + 1] = x /\ Len(p) \in Nat
        /\ \A j \in 1..Len(p) : q[j] = p[j]
    BY <1>3, <1>4, <2>1
  <2>3. Begins(p, q)
    BY <2>2 DEF Begins
  <2> QED BY <1>3, <1>5, <2>2, <2>3 DEF p, q, x
<1>6. CASE x.kind # "clause"
  <2>1. q = p
    BY <1>3, <1>6 DEF ClausesTurn, IsClause
  <2>2. Begins(p, p)
    BY <1>3 DEF Begins
  <2> QED BY <1>3, <1>6, <2>1, <2>2 DEF p, q, x
<1> QED BY <1>5, <1>6

LEMMA PassedAre ==
    ASSUME NEW f, f.lines \in Seq(Lines)
    PROVE  /\ Passed(f) \in [0..Len(f.lines) -> Seq(Lines)]
           /\ Passed(f)[0] = <<>>
           /\ Passed(f)[Len(f.lines)] = Clauses(f)
           /\ Clauses(f) \in Seq(Lines)
<1>1. ClausesTurns(f, Passed(f))
  BY ClausesLoop DEF Passed
<1>2. Len(f.lines) \in 0..Len(f.lines)
  OBVIOUS
<1> QED BY <1>1, <1>2 DEF ClausesTurns

LEMMA PassedBegin ==
    ASSUME NEW f, f.lines \in Seq(Lines), NEW k \in 0..Len(f.lines)
    PROVE  Begins(Passed(f)[k], Clauses(f))
<1> DEFINE n == Len(f.lines)
           T == {m \in 0..n : k <= m => Begins(Passed(f)[k], Passed(f)[m])}
<1>1. n \in Nat /\ k \in Nat /\ k <= n /\ 0 \in 0..n /\ n \in 0..n
  OBVIOUS
<1>2. \A m \in 0..n : Passed(f)[m] \in Seq(Lines)
  BY PassedAre
<1>3. Begins(Passed(f)[k], Passed(f)[k])
  BY <1>2 DEF Begins
<1>4. 0 \in T
  BY <1>1, <1>3
<1>5. ASSUME NEW m \in 1..n, m - 1 \in T PROVE m \in T
  <2>1. m \in 0..n /\ m - 1 \in 0..n /\ m \in Nat
    BY <1>1
  <2>2. CASE k = m
    BY <1>3, <2>1, <2>2
  <2>3. CASE k < m
    <3>1. k <= m - 1
      BY <1>1, <2>1, <2>3
    <3>2. Begins(Passed(f)[k], Passed(f)[m - 1])
      BY <1>5, <3>1
    <3>3. Begins(Passed(f)[m - 1], Passed(f)[m])
      BY PassedOne
    <3>4. /\ Passed(f)[k] \in Seq(Lines)
          /\ Passed(f)[m - 1] \in Seq(Lines)
          /\ Passed(f)[m] \in Seq(Lines)
      BY <1>2, <2>1
    <3> DEFINE a == Passed(f)[k]
               b == Passed(f)[m - 1]
               c == Passed(f)[m]
    <3> HIDE DEF a, b, c
    <3>5. Len(a) \in Nat /\ Len(b) \in Nat /\ Len(c) \in Nat
      BY <3>4 DEF a, b, c
    <3>6. Begins(a, c)
      BY <3>2, <3>3, <3>5 DEF a, b, c, Begins
    <3> QED BY <2>1, <3>6 DEF a, c
  <2>4. CASE m < k
    BY <1>1, <2>1, <2>4
  <2> QED BY <1>1, <2>1, <2>2, <2>3, <2>4
<1>6. \A m \in 0..n : m \in T
  <2> HIDE DEF T
  <2> QED BY <1>1, <1>4, <1>5, UpTo
<1>7. Begins(Passed(f)[k], Passed(f)[n])
  BY <1>1, <1>6
<1> QED BY <1>7, PassedAre

(* A clause line is the next clause. *)
LEMMA NextClause ==
    ASSUME NEW f, f.lines \in Seq(Lines), NEW k \in 0..Len(f.lines)
    PROVE  /\ Len(Passed(f)[k]) \in Nat /\ Len(Passed(f)[k]) <= Len(Clauses(f))
           /\ Len(Passed(f)[k]) < Len(Clauses(f)) => k < Len(f.lines)
           /\ k < Len(f.lines) /\ f.lines[k + 1].kind = "clause" =>
                 /\ Len(Passed(f)[k + 1]) = Len(Passed(f)[k]) + 1
                 /\ Len(Passed(f)[k]) + 1 \in 1..Len(Clauses(f))
                 /\ Clauses(f)[Len(Passed(f)[k]) + 1] = f.lines[k + 1]
           /\ k < Len(f.lines) /\ f.lines[k + 1].kind # "clause" =>
                 Passed(f)[k + 1] = Passed(f)[k]
<1> DEFINE n == Len(f.lines)
           G == Passed(f)
<1>1. n \in Nat /\ k \in Nat /\ k <= n
  OBVIOUS
<1>2. G \in [0..n -> Seq(Lines)] /\ G[n] = Clauses(f) /\ Clauses(f) \in Seq(Lines)
  BY PassedAre
<1>3. Begins(G[k], Clauses(f))
  BY PassedBegin
<1>4. Len(G[k]) \in Nat /\ Len(Clauses(f)) \in Nat
  BY <1>2
<1>5. Len(G[k]) <= Len(Clauses(f))
  BY <1>3 DEF Begins
<1>6. Len(G[k]) < Len(Clauses(f)) => k < n
  <2> SUFFICES ASSUME ~(k < n) PROVE Len(G[k]) = Len(Clauses(f))
    BY <1>4
  <2>1. k = n
    BY <1>1
  <2> QED BY <1>2, <2>1
<1>7. ASSUME k < n
      PROVE  k + 1 \in 1..n /\ (k + 1) - 1 = k /\ k + 1 \in 0..n
  BY <1>1, <1>7
<1>8. ASSUME k < n, f.lines[k + 1].kind = "clause"
      PROVE  /\ Len(G[k + 1]) = Len(G[k]) + 1
             /\ Len(G[k]) + 1 \in 1..Len(Clauses(f))
             /\ Clauses(f)[Len(G[k]) + 1] = f.lines[k + 1]
  <2>1. k + 1 \in 1..n /\ (k + 1) - 1 = k /\ k + 1 \in 0..n
    BY <1>7, <1>8
  <2>2. /\ Len(G[k + 1]) = Len(G[(k + 1) - 1]) + 1
        /\ G[k + 1][Len(G[k + 1])] = f.lines[k + 1]
    <3>1. ASSUME NEW i \in 1..Len(f.lines), f.lines[i].kind = "clause"
          PROVE  /\ Len(G[i]) = Len(G[i - 1]) + 1 /\ G[i][Len(G[i])] = f.lines[i]
      BY <3>1, PassedOne
    <3> QED BY <1>8, <2>1, <3>1
  <2>3. Len(G[k + 1]) = Len(G[k]) + 1 /\ G[k + 1][Len(G[k]) + 1] = f.lines[k + 1]
    BY <2>1, <2>2
  <2>4. Begins(G[k + 1], Clauses(f))
    BY <2>1, PassedBegin
  <2> HIDE DEF G
  <2>5. Len(G[k]) + 1 \in 1..Len(G[k + 1])
    BY <1>4, <2>3
  <2>6. Len(G[k + 1]) <= Len(Clauses(f)) /\ Clauses(f)[Len(G[k]) + 1] = G[k + 1][Len(G[k]) + 1]
    BY <2>4, <2>5 DEF Begins
  <2> QED BY <1>4, <2>3, <2>6
<1>9. ASSUME k < n, f.lines[k + 1].kind # "clause"
      PROVE  G[k + 1] = G[k]
  <2>1. k + 1 \in 1..n /\ (k + 1) - 1 = k /\ k + 1 \in 0..n
    BY <1>7, <1>9
  <2>2. ASSUME NEW i \in 1..Len(f.lines), f.lines[i].kind # "clause"
        PROVE  G[i] = G[i - 1]
    BY <2>2, PassedOne
  <2>3. G[k + 1] = G[(k + 1) - 1]
    BY <1>9, <2>1, <2>2
  <2> QED BY <2>1, <2>3
<1> QED BY <1>4, <1>5, <1>6, <1>8, <1>9

(* Without comments every line is one. *)
AllClauses(f) == \A i \in 1..Len(f.lines) : f.lines[i].kind = "clause"

LEMMA AllPassed ==
    ASSUME NEW f, f.lines \in Seq(Lines), AllClauses(f)
    PROVE  /\ \A k \in 0..Len(f.lines) : Len(Passed(f)[k]) = k
           /\ Len(Clauses(f)) = Len(f.lines)
           /\ \A k \in 1..Len(f.lines) : Clauses(f)[k] = f.lines[k]
<1> DEFINE n == Len(f.lines)
           T == {k \in 0..n : Len(Passed(f)[k]) = k}
<1>1. n \in Nat /\ 0 \in 0..n /\ n \in 0..n
  OBVIOUS
<1>2. 0 \in T
  BY <1>1, PassedAre
<1>3. ASSUME NEW k \in 1..n, k - 1 \in T PROVE k \in T
  <2>1. Len(Passed(f)[k]) = Len(Passed(f)[k - 1]) + 1
    BY PassedOne DEF AllClauses
  <2> QED BY <1>3, <2>1
<1>4. \A k \in 0..n : k \in T
  <2> HIDE DEF T
  <2> QED BY <1>1, <1>2, <1>3, UpTo
<1>5. Len(Clauses(f)) = n
  BY <1>1, <1>4, PassedAre
<1>6. ASSUME NEW k \in 1..n PROVE Clauses(f)[k] = f.lines[k]
  <2>1. k \in 0..n /\ Len(Passed(f)[k]) = k
    BY <1>4
  <2>2. Passed(f)[k][Len(Passed(f)[k])] = f.lines[k]
    BY PassedOne DEF AllClauses
  <2>3. Begins(Passed(f)[k], Clauses(f))
    BY <2>1, PassedBegin
  <2>4. k \in 1..Len(Passed(f)[k])
    BY <2>1
  <2> QED BY <2>1, <2>2, <2>3, <2>4 DEF Begins
<1> QED BY <1>4, <1>5, <1>6

-----------------------------------------------------------------------------
(* What ubcsat is given for a partial instance. *)
LEMMA WhereIs ==
    ASSUME NEW f, f.lines \in Seq(Lines), NEW soft
    PROVE  ClausesWhere(f, soft) \in Seq(LitsOf(f))
<1>1. PICK G : WhereTurns(f, soft, G)
  BY WhereLoop
<1>2. Len(f.lines) \in 0..Len(f.lines)
  OBVIOUS
<1> QED BY <1>1, <1>2 DEF WhereTurns

(* Every clause is either soft or hard. *)
LEMMA WhereAll ==
    ASSUME NEW f, f.lines \in Seq(Lines)
    PROVE  Len(ClausesWhere(f, TRUE)) + Len(ClausesWhere(f, FALSE)) = Len(Clauses(f))
<1> DEFINE n == Len(f.lines)
<1>1. PICK A : WhereTurns(f, TRUE, A)
  BY WhereLoop
<1>2. PICK B : WhereTurns(f, FALSE, B)
  BY WhereLoop
<1>3. ClausesTurns(f, Passed(f))
  BY ClausesLoop DEF Passed
<1> DEFINE G == Passed(f)
           T == {k \in 0..n : Len(A[k]) + Len(B[k]) = Len(G[k])}
<1>4. n \in Nat /\ 0 \in 0..n /\ n \in 0..n
  OBVIOUS
<1>5. 0 \in T
  <2>1. A[0] = <<>> /\ B[0] = <<>> /\ G[0] = <<>>
    BY <1>1, <1>2, <1>3 DEF WhereTurns, ClausesTurns
  <2>2. Len(A[0]) = 0 /\ Len(B[0]) = 0 /\ Len(G[0]) = 0
    BY <2>1
  <2>3. 0 + 0 = 0
    OBVIOUS
  <2>4. Len(A[0]) + Len(B[0]) = Len(G[0])
    BY <2>2, <2>3, Zenon
  <2> HIDE DEF G
  <2> QED BY <1>4, <2>4
<1>6. ASSUME NEW k \in 1..n, k - 1 \in T PROVE k \in T
  <2> DEFINE x == f.lines[k]
             a == A[k - 1]
             b == B[k - 1]
             c == G[k - 1]
  <2>1. k - 1 \in 0..n /\ k \in 0..n
    BY <1>4
  <2>2. a \in Seq(LitsOf(f)) /\ b \in Seq(LitsOf(f)) /\ c \in Seq(Lines)
    BY <1>1, <1>2, <1>3, <2>1 DEF WhereTurns, ClausesTurns
  <2>3. Indices(f)[k] = k
    BY DEF Indices
  <2>4. A[k] = WhereTurn(f, TRUE, a, k) /\ B[k] = WhereTurn(f, FALSE, b, k)
        /\ G[k] = ClausesTurn(c, x)
    BY <1>1, <1>2, <1>3, <2>3 DEF WhereTurns, ClausesTurns
  <2>5. IsSoft(f, k) \in BOOLEAN
    BY DEF IsSoft
  <2>6. x \in Lines /\ x.lits \in LitsOf(f)
    BY DEF LitsOf
  <2>6a. Len(a) + Len(b) = Len(c)
    BY <1>6
  <2>7. Len(a) \in Nat /\ Len(b) \in Nat /\ Len(c) \in Nat /\ Len(a) + Len(b) = Len(c)
    <3> HIDE DEF a, b, c
    <3> QED BY <2>2, <2>6a
  <2>8. /\ Len(Append(a, x.lits)) = Len(a) + 1 /\ Len(Append(b, x.lits)) = Len(b) + 1
        /\ Len(Append(c, x)) = Len(c) + 1
    <3> HIDE DEF a, b, c, x
    <3> QED BY <2>2, <2>6
  <2>9. /\ Len(A[k]) = IF IsClause(x) /\ IsSoft(f, k) = TRUE THEN Len(a) + 1 ELSE Len(a)
        /\ Len(B[k]) = IF IsClause(x) /\ IsSoft(f, k) = FALSE THEN Len(b) + 1 ELSE Len(b)
        /\ Len(G[k]) = IF IsClause(x) THEN Len(c) + 1 ELSE Len(c)
    <3> HIDE DEF a, b, c, G
    <3> QED BY <2>4, <2>8 DEF WhereTurn, ClausesTurn
  <2> HIDE DEF a, b, c, x, G
  <2>10. Len(A[k]) + Len(B[k]) = Len(G[k])
    <3>1. CASE ~IsClause(x)
      BY <2>7, <2>9, <3>1
    <3>2. CASE IsClause(x) /\ IsSoft(f, k) = TRUE
      BY <2>7, <2>9, <3>2
    <3>3. CASE IsClause(x) /\ IsSoft(f, k) = FALSE
      BY <2>7, <2>9, <3>3
    <3> QED BY <2>5, <3>1, <3>2, <3>3
  <2> QED BY <2>1, <2>10
<1>7. \A k \in 0..n : k \in T
  <2> HIDE DEF T
  <2> QED BY <1>4, <1>5, <1>6, UpTo
<1>8. Len(A[n]) + Len(B[n]) = Len(G[n])
  BY <1>4, <1>7
<1> QED BY <1>1, <1>2, <1>3, <1>8 DEF WhereTurns, ClausesTurns

LEMMA LitsOfLines ==
    ASSUME NEW f, f.lines \in Seq(Lines), NEW lits \in LitsOf(f)
    PROVE  /\ lits \in Seq(((-NumVars)..NumVars) \ {0})
           /\ Fits(f, lits)
<1>1. PICK i \in 1..Len(f.lines) : lits = f.lines[i].lits
  BY DEF LitsOf
<1>2. f.lines[i] \in Lines
  BY <1>1
<1>3. lits \in Seq(((-NumVars)..NumVars) \ {0})
  BY <1>1, <1>2 DEF Lines
<1>4. Len(lits) <= Len(f.lines[i].lits)
  BY <1>1, <1>3
<1> QED BY <1>1, <1>3, <1>4 DEF Fits

LEMMA LinesCat ==
    ASSUME NEW p \in Seq(Lines), NEW q \in Seq(Lines)
    PROVE  /\ p \o q \in Seq(Lines) /\ Len(p \o q) = Len(p) + Len(q)
           /\ \A i \in 1..(Len(p) + Len(q)) :
                 (p \o q)[i] = IF i <= Len(p) THEN p[i] ELSE q[i - Len(p)]
  OBVIOUS

LEMMA ConvertedIs ==
    ASSUME NEW f, f.lines \in Seq(Lines)
    PROVE  LET soft == Len(ClausesWhere(f, TRUE))
               g    == Converted(f)
           IN  /\ soft \in Nat /\ soft <= Len(Clauses(f))
               /\ g.format = "wcnf" /\ g.lines \in Seq(Lines)
               /\ Len(g.lines) = Len(Clauses(f))
               /\ \A i \in 1..Len(g.lines) :
                     /\ g.lines[i].kind = "clause"
                     /\ g.lines[i].weight = IF i <= soft THEN 1 ELSE soft + 1
                     /\ g.lines[i].lits \in LitsOf(f)
<1> DEFINE line(w, lits) == [kind |-> "clause", weight |-> w, blank |-> FALSE, lits |-> lits]
           S == ClausesWhere(f, TRUE)
           H == ClausesWhere(f, FALSE)
           p == [k \in DOMAIN S |-> line(1, S[k])]
           q == [k \in DOMAIN H |-> line(HardWeight(f), H[k])]
           g == Converted(f)
           a == Len(S)
           b == Len(H)
<1>1. S \in Seq(LitsOf(f)) /\ H \in Seq(LitsOf(f))
  BY WhereIs
<1> HIDE DEF S, H
<1>2. a \in Nat /\ b \in Nat /\ DOMAIN S = 1..a /\ DOMAIN H = 1..b
      /\ (\A k \in 1..a : S[k] \in LitsOf(f)) /\ (\A k \in 1..b : H[k] \in LitsOf(f))
  BY <1>1
<1>3. a + b = Len(Clauses(f)) /\ HardWeight(f) = a + 1
  BY WhereAll DEF HardWeight, S, H
<1>4. g = [format |-> "wcnf", lines |-> p \o q]
  BY DEF Converted, S, H
<1> HIDE DEF p, q, a, b, g, line
<1>5. g.format = "wcnf" /\ g.lines = p \o q
  BY <1>4
<1>6. \A w \in Nat, lits \in LitsOf(f) : line(w, lits) \in Lines
  <2> TAKE w \in Nat, lits \in LitsOf(f)
  <2>1. lits \in Seq(((-NumVars)..NumVars) \ {0})
    BY LitsOfLines
  <2> QED BY <2>1 DEF Lines, line
<1>7. \A w, lits : /\ line(w, lits).kind = "clause" /\ line(w, lits).weight = w
                   /\ line(w, lits).lits = lits
  BY DEF line
<1>8. p \in Seq(Lines) /\ Len(p) = a /\ \A k \in 1..a : p[k] = line(1, S[k])
  <2>1. p = [k \in 1..a |-> line(1, S[k])]
    BY <1>2 DEF p
  <2>2. \A k \in 1..a : line(1, S[k]) \in Lines
    BY <1>2, <1>6
  <2> QED BY <1>2, <2>1, <2>2
<1>9. q \in Seq(Lines) /\ Len(q) = b /\ \A k \in 1..b : q[k] = line(a + 1, H[k])
  <2>1. q = [k \in 1..b |-> line(a + 1, H[k])]
    BY <1>2, <1>3 DEF q
  <2>2. \A k \in 1..b : line(a + 1, H[k]) \in Lines
    <3>1. a + 1 \in Nat
      BY <1>2
    <3> QED BY <1>2, <1>6, <3>1
  <2> QED BY <1>2, <2>1, <2>2
<1>10. g.lines \in Seq(Lines) /\ Len(g.lines) = a + b
       /\ (\A i \in 1..a : g.lines[i] = p[i])
       /\ \A i \in 1..(a + b) : i > a => g.lines[i] = q[i - a]
  <2> HIDE DEF p, q
  <2>1. p \o q \in Seq(Lines) /\ Len(p \o q) = a + b
    BY <1>8, <1>9, LinesCat
  <2>2. \A i \in 1..(a + b) : (p \o q)[i] = IF i <= a THEN p[i] ELSE q[i - a]
    BY <1>8, <1>9, LinesCat
  <2> QED BY <1>2, <1>5, <2>1, <2>2
<1>11. ASSUME NEW i \in 1..Len(g.lines)
       PROVE  /\ g.lines[i].kind = "clause"
              /\ g.lines[i].weight = IF i <= a THEN 1 ELSE a + 1
              /\ g.lines[i].lits \in LitsOf(f)
  <2>1. CASE i <= a
    <3>1. i \in 1..a
      BY <1>2, <1>10, <2>1
    <3>2. g.lines[i] = line(1, S[i]) /\ S[i] \in LitsOf(f)
      BY <1>2, <1>8, <1>10, <3>1
    <3> QED BY <1>7, <2>1, <3>2
  <2>2. CASE i > a
    <3>1. i \in 1..(a + b) /\ i - a \in 1..b
      BY <1>2, <1>10, <2>2
    <3>2. g.lines[i] = line(a + 1, H[i - a]) /\ H[i - a] \in LitsOf(f)
      BY <1>2, <1>9, <1>10, <2>2, <3>1
    <3>3. ~(i <= a)
      BY <1>2, <2>2
    <3> QED BY <1>7, <3>2, <3>3
  <2>3. i \in Nat
    OBVIOUS
  <2> QED BY <1>2, <2>1, <2>2, <2>3
<1>12. a <= Len(Clauses(f))
  BY <1>2, <1>3
<1> QED BY <1>2, <1>3, <1>5, <1>10, <1>11, <1>12 DEF S, a, g

-----------------------------------------------------------------------------
(* The literals of a clause in the chunks (Store), and the heap under them. *)

GoodHeaps == {h \in [heaps : Seq(HeapRecords), last : Nat, lastSize : Nat,
                     blocks : Seq(BlockRecords)] : WellFormed(h)}

LastSize(h) == h.blocks[Len(h.blocks)].size

LEMMA AllocatedIs ==
    ASSUME NEW h \in GoodHeaps, NEW size \in Nat
    PROVE  /\ AllocateRAM(h, size) \in GoodHeaps
           /\ LastIsLast(AllocateRAM(h, size))
           /\ LastSize(AllocateRAM(h, size)) = size
<1> DEFINE g == AllocateRAM(h, size)
<1>1. WellFormed(h) /\ h.blocks \in Seq(BlockRecords)
  BY DEF GoodHeaps
<1>2. WellFormed(g) /\ LastIsLast(g)
  BY <1>1, Allocated
<1>3. g \in GoodHeaps
  BY <1>2 DEF WellFormed, GoodHeaps
<1>4. \E b : g.blocks = Append(h.blocks, b) /\ b.size = size
  BY DEF AllocateRAM
<1>5. PICK b : g.blocks = Append(h.blocks, b) /\ b.size = size
  BY <1>4
<1>6. g.blocks \in Seq(BlockRecords)
  BY <1>3 DEF GoodHeaps
<1>7. g.blocks[Len(g.blocks)] = b
  <2> HIDE DEF g
  <2> QED BY <1>1, <1>5
<1> QED BY <1>2, <1>3, <1>5, <1>7 DEF LastSize

(* Between two literals of a clause: the clause so far is at the end of    *)
(* the last chunk, which the last block of the heap is for.                *)
Writing(t) ==
    /\ t.at[1] = Len(t.chunks)
    /\ t.chunks = <<>> => t.at[2] = 0 /\ t.len = 0
    /\ t.chunks # <<>> =>
          /\ Len(Last(t.chunks)) = t.at[2] + t.len
          /\ LastIsLast(t.heap) /\ LastSize(t.heap) = 4 * ChunkLits
          /\ Len(Last(t.chunks)) <= ChunkLits \/ t.len > ChunkLits
    /\ \A i \in 1..Len(t.chunks) : i < Len(t.chunks) => Len(t.chunks[i]) <= ChunkLits

Writers == {t \in [chunks : Seq(Seq(Int)), at : Nat \X Nat, len : Nat, heap : GoodHeaps] :
                Writing(t)}

Grown(old, new) ==
    /\ Len(old) <= Len(new)
    /\ \A i \in 1..Len(old) : Begins(old[i], new[i])

(* The clause so far is the same in both. *)
SameSoFar(t, u) ==
    \A i \in 1..t.len : Last(u.chunks)[u.at[2] + i] = Last(t.chunks)[t.at[2] + i]

LEMMA WriterIs ==
    ASSUME NEW t \in Writers
    PROVE  /\ t \in [chunks : Seq(Seq(Int)), at : Nat \X Nat, len : Nat, heap : GoodHeaps]
           /\ t.chunks \in Seq(Seq(Int)) /\ Len(t.chunks) \in Nat
           /\ t.at[1] \in Nat /\ t.at[2] \in Nat /\ t.len \in Nat /\ t.heap \in GoodHeaps
           /\ Writing(t)
           /\ t.chunks # <<>> => /\ Len(t.chunks) \in 1..Len(t.chunks)
                                 /\ Last(t.chunks) = t.chunks[Len(t.chunks)]
                                 /\ Last(t.chunks) \in Seq(Int) /\ Len(Last(t.chunks)) \in Nat
<1>1. /\ t \in [chunks : Seq(Seq(Int)), at : Nat \X Nat, len : Nat, heap : GoodHeaps]
      /\ Writing(t)
  BY DEF Writers
<1>2. t.chunks \in Seq(Seq(Int)) /\ t.at \in Nat \X Nat /\ t.len \in Nat /\ t.heap \in GoodHeaps
  BY <1>1
<1>3. t.at[1] \in Nat /\ t.at[2] \in Nat
  BY <1>2
<1>4. Len(t.chunks) \in Nat
  BY <1>2
<1>5. t.chunks # <<>> => /\ Len(t.chunks) \in 1..Len(t.chunks)
                         /\ Last(t.chunks) = t.chunks[Len(t.chunks)]
                         /\ Last(t.chunks) \in Seq(Int) /\ Len(Last(t.chunks)) \in Nat
  <2> SUFFICES ASSUME t.chunks # <<>>
               PROVE  /\ Len(t.chunks) \in 1..Len(t.chunks)
                      /\ Last(t.chunks) = t.chunks[Len(t.chunks)]
                      /\ Last(t.chunks) \in Seq(Int) /\ Len(Last(t.chunks)) \in Nat
    OBVIOUS
  <2>1. Len(t.chunks) \in 1..Len(t.chunks)
    BY <1>2
  <2>2. t.chunks[Len(t.chunks)] \in Seq(Int)
    BY <1>2, <2>1
  <2>3. Last(t.chunks) = t.chunks[Len(t.chunks)]
    BY DEF Last
  <2> QED BY <2>1, <2>2, <2>3
<1> QED BY <1>1, <1>2, <1>3, <1>4, <1>5

(* The clause so far. *)
LEMMA SoFarIs ==
    ASSUME NEW t \in Writers
    PROVE  /\ SoFar(t) \in Seq(Int) /\ Len(SoFar(t)) = t.len
           /\ \A i \in 1..t.len : SoFar(t)[i] = Last(t.chunks)[t.at[2] + i]
<1>1. CASE t.len = 0
  <2>1. SoFar(t) = <<>>
    BY <1>1 DEF SoFar
  <2>2. 1..0 = {} /\ Len(<<>>) = 0 /\ <<>> \in Seq(Int)
    OBVIOUS
  <2> QED BY <1>1, <2>1, <2>2
<1>2. CASE t.len # 0
  <2> DEFINE c == Last(t.chunks)
             p == t.at[2]
  <2>1. t.chunks # <<>> /\ t.at[1] = Len(t.chunks)
    BY <1>2, WriterIs DEF Writing
  <2>2. /\ c \in Seq(Int) /\ Len(c) \in Nat /\ c = t.chunks[Len(t.chunks)]
        /\ p \in Nat /\ t.len \in Nat /\ Len(c) = p + t.len
    BY <2>1, WriterIs DEF Writing
  <2>3. SoFar(t) = SubSeq(c, p + 1, p + t.len)
    BY <1>2, <2>1, <2>2 DEF SoFar
  <2> HIDE DEF c, p
  <2>4. p \in 0..Len(c) /\ Len(c) - p = t.len
    BY <2>2
  <2>5. /\ SubSeq(c, p + 1, Len(c)) \in Seq(Int)
        /\ Len(SubSeq(c, p + 1, Len(c))) = Len(c) - p
        /\ \A i \in 1..(Len(c) - p) : SubSeq(c, p + 1, Len(c))[i] = c[p + i]
    BY <2>2, <2>4, Ending
  <2>6. SoFar(t) = SubSeq(c, p + 1, Len(c))
    BY <2>2, <2>3
  <2> QED BY <2>4, <2>5, <2>6 DEF c, p
<1> QED BY <1>1, <1>2

(* Room for a literal. *)
Opened(t) ==
    IF t.chunks = <<>> \/ Len(Last(t.chunks)) = ChunkLits
    THEN [t EXCEPT !.chunks = Append(@, SoFar(t)), !.at = <<Len(t.chunks) + 1, 0>>,
                   !.heap = AllocateRAM(@, 4 * ChunkLits)]
    ELSE t

LEMMA OpenedIs ==
    ASSUME NEW t \in Writers, NEW w, w = Opened(t)
    PROVE  /\ w \in [chunks : Seq(Seq(Int)), at : Nat \X Nat, len : Nat, heap : GoodHeaps]
           /\ w.len = t.len /\ w.chunks # <<>>
           /\ w.at[1] = Len(w.chunks)
           /\ Len(Last(w.chunks)) = w.at[2] + w.len
           /\ LastIsLast(w.heap) /\ LastSize(w.heap) = 4 * ChunkLits
           /\ Len(Last(w.chunks)) + 1 <= ChunkLits \/ w.len + 1 > ChunkLits
           /\ \A i \in 1..Len(w.chunks) : i < Len(w.chunks) => Len(w.chunks[i]) <= ChunkLits
           /\ Grown(t.chunks, w.chunks)
           /\ SameSoFar(t, w)
<1> USE ChunkLitsAssumption
<1>1. /\ t \in [chunks : Seq(Seq(Int)), at : Nat \X Nat, len : Nat, heap : GoodHeaps]
      /\ t.chunks \in Seq(Seq(Int)) /\ Len(t.chunks) \in Nat
      /\ t.at[1] \in Nat /\ t.at[2] \in Nat /\ t.len \in Nat /\ t.heap \in GoodHeaps
      /\ Writing(t)
      /\ t.chunks # <<>> => /\ Len(t.chunks) \in 1..Len(t.chunks)
                            /\ Last(t.chunks) = t.chunks[Len(t.chunks)]
                            /\ Last(t.chunks) \in Seq(Int) /\ Len(Last(t.chunks)) \in Nat
  BY WriterIs
<1>2. CASE t.chunks = <<>> \/ Len(Last(t.chunks)) = ChunkLits
  <2> DEFINE s == SoFar(t)
             n == Len(t.chunks)
             g == AllocateRAM(t.heap, 4 * ChunkLits)
  <2>1. /\ s \in Seq(Int) /\ Len(s) = t.len
        /\ \A i \in 1..t.len : s[i] = Last(t.chunks)[t.at[2] + i]
    BY SoFarIs
  <2>2. 4 * ChunkLits \in Nat
    OBVIOUS
  <2>3. g \in GoodHeaps /\ LastIsLast(g) /\ LastSize(g) = 4 * ChunkLits
    BY <1>1, <2>2, AllocatedIs
  <2>4. w = [t EXCEPT !.chunks = Append(@, s), !.at = <<n + 1, 0>>, !.heap = g]
    BY <1>2 DEF Opened
  <2> HIDE DEF s, g
  <2>5. Append(t.chunks, s) \in Seq(Seq(Int)) /\ <<n + 1, 0>> \in Nat \X Nat
    BY <1>1, <2>1
  <2>6. /\ w \in [chunks : Seq(Seq(Int)), at : Nat \X Nat, len : Nat, heap : GoodHeaps]
        /\ w.chunks = Append(t.chunks, s) /\ w.at = <<n + 1, 0>> /\ w.heap = g /\ w.len = t.len
    BY <1>1, <2>3, <2>4, <2>5
  <2>7. /\ Len(w.chunks) = n + 1 /\ w.chunks[n + 1] = s
        /\ \A i \in 1..n : w.chunks[i] = t.chunks[i]
    BY <1>1, <2>1, <2>6
  <2>8. w.chunks # <<>> /\ Last(w.chunks) = s
    <3>1. Len(w.chunks) # 0
      BY <1>1, <2>7
    <3>2. w.chunks # <<>>
      BY <3>1
    <3> QED BY <2>7, <3>2 DEF Last
  <2>9. w.at[1] = n + 1 /\ w.at[2] = 0
    BY <2>6
  <2>10. Len(s) + 1 <= ChunkLits \/ t.len + 1 > ChunkLits
    BY <1>1, <2>1
  <2>11. \A i \in 1..Len(w.chunks) : i < Len(w.chunks) => Len(w.chunks[i]) <= ChunkLits
    <3> SUFFICES ASSUME NEW i \in 1..Len(w.chunks), i < Len(w.chunks)
                 PROVE  Len(w.chunks[i]) <= ChunkLits
      OBVIOUS
    <3>0. i \in 1..(n + 1) /\ i < n + 1
      BY <2>7
    <3>1. i \in 1..n /\ n # 0
      BY <1>1, <3>0
    <3>2. t.chunks # <<>>
      BY <3>1
    <3>3. Len(t.chunks[i]) <= ChunkLits
      <4>1. CASE i < n
        BY <1>1, <3>1, <4>1 DEF Writing
      <4>2. CASE i = n
        BY <1>1, <1>2, <3>2, <4>2
      <4> QED BY <1>1, <3>1, <4>1, <4>2
    <3> QED BY <2>7, <3>1, <3>3
  <2>12. Grown(t.chunks, w.chunks)
    <3>1. ASSUME NEW i \in 1..n PROVE Begins(t.chunks[i], w.chunks[i])
      <4>1. t.chunks[i] \in Seq(Int) /\ w.chunks[i] = t.chunks[i]
        BY <1>1, <2>7
      <4>2. Begins(t.chunks[i], t.chunks[i])
        BY <4>1 DEF Begins
      <4> QED BY <4>1, <4>2
    <3> QED BY <1>1, <2>7, <3>1 DEF Grown
  <2>13. SameSoFar(t, w)
    <3>1. ASSUME NEW i \in 1..t.len PROVE Last(w.chunks)[w.at[2] + i] = Last(t.chunks)[t.at[2] + i]
      <4>1. w.at[2] + i = i
        BY <2>9
      <4> QED BY <2>1, <2>8, <4>1
    <3> QED BY <3>1 DEF SameSoFar
  <2>14. Len(Last(w.chunks)) = w.at[2] + w.len
    BY <1>1, <2>1, <2>6, <2>8, <2>9
  <2> QED BY <2>3, <2>6, <2>7, <2>8, <2>9, <2>10, <2>11, <2>12, <2>13, <2>14
<1>3. CASE t.chunks # <<>> /\ Len(Last(t.chunks)) # ChunkLits
  <2>1. w = t
    BY <1>3 DEF Opened
  <2>2. /\ t.at[1] = Len(t.chunks)
        /\ Len(Last(t.chunks)) = t.at[2] + t.len
        /\ LastIsLast(t.heap) /\ LastSize(t.heap) = 4 * ChunkLits
        /\ Len(Last(t.chunks)) <= ChunkLits \/ t.len > ChunkLits
        /\ \A i \in 1..Len(t.chunks) : i < Len(t.chunks) => Len(t.chunks[i]) <= ChunkLits
    BY <1>1, <1>3 DEF Writing
  <2>3. Len(Last(t.chunks)) + 1 <= ChunkLits \/ t.len + 1 > ChunkLits
    BY <1>1, <1>3, <2>2
  <2>4. Grown(t.chunks, t.chunks)
    <3>1. ASSUME NEW i \in 1..Len(t.chunks) PROVE Begins(t.chunks[i], t.chunks[i])
      <4>1. t.chunks[i] \in Seq(Int)
        BY <1>1
      <4> QED BY <4>1 DEF Begins
    <3> QED BY <1>1, <3>1 DEF Grown
  <2>5. SameSoFar(t, t)
    BY DEF SameSoFar
  <2> QED BY <1>1, <1>3, <2>1, <2>2, <2>3, <2>4, <2>5
<1> QED BY <1>2, <1>3

LEMMA WithFields ==
    ASSUME NEW A, NEW B, NEW C, NEW D, NEW w \in [chunks : A, at : B, len : C, heap : D],
           NEW cs \in A, NEW m \in C, NEW u, u = [w EXCEPT !.chunks = cs, !.len = m]
    PROVE  /\ u \in [chunks : A, at : B, len : C, heap : D]
           /\ u.chunks = cs /\ u.at = w.at /\ u.len = m /\ u.heap = w.heap
  OBVIOUS

LEMMA StoreOne ==
    ASSUME NEW t \in Writers, NEW l \in Int, NEW u, u = Store(t, l)
    PROVE  /\ u \in Writers
           /\ u.len = t.len + 1 /\ u.chunks # <<>>
           /\ Grown(t.chunks, u.chunks)
           /\ SameSoFar(t, u)
           /\ Last(u.chunks)[u.at[2] + u.len] = l
<1> DEFINE w == Opened(t)
           n == Len(w.chunks)
           c == Last(w.chunks)
<1> USE ChunkLitsAssumption
<1>1. /\ w \in [chunks : Seq(Seq(Int)), at : Nat \X Nat, len : Nat, heap : GoodHeaps]
      /\ w.len = t.len /\ w.chunks # <<>>
      /\ w.at[1] = n
      /\ Len(c) = w.at[2] + w.len
      /\ LastIsLast(w.heap) /\ LastSize(w.heap) = 4 * ChunkLits
      /\ Len(c) + 1 <= ChunkLits \/ w.len + 1 > ChunkLits
      /\ \A i \in 1..n : i < n => Len(w.chunks[i]) <= ChunkLits
      /\ Grown(t.chunks, w.chunks)
      /\ SameSoFar(t, w)
  BY OpenedIs
<1>2. u = [w EXCEPT !.chunks = [w.chunks EXCEPT ![n] = Append(w.chunks[n], l)], !.len = w.len + 1]
  BY DEF Store, Opened
<1> HIDE DEF w
<1>3. /\ w.chunks \in Seq(Seq(Int)) /\ w.at \in Nat \X Nat /\ w.len \in Nat /\ w.heap \in GoodHeaps
      /\ w.at[2] \in Nat /\ t.len \in Nat /\ t.chunks \in Seq(Seq(Int))
  BY <1>1, WriterIs
<1>4. n \in Nat /\ n \in 1..n /\ c = w.chunks[n] /\ c \in Seq(Int) /\ Len(c) \in Nat
  <2>1. n \in 1..n /\ n \in Nat
    BY <1>1, <1>3
  <2>2. c = w.chunks[n]
    BY DEF Last
  <2>3. c \in Seq(Int)
    BY <1>3, <2>1, <2>2
  <2> HIDE DEF n, c
  <2> QED BY <2>1, <2>2, <2>3
<1> DEFINE d == Append(c, l)
           cs == [w.chunks EXCEPT ![n] = d]
<1>5. /\ d \in Seq(Int) /\ Len(d) = Len(c) + 1 /\ d[Len(c) + 1] = l
      /\ \A i \in 1..Len(c) : d[i] = c[i]
  <2> HIDE DEF c
  <2> QED BY <1>4
<1> HIDE DEF c, d
<1>6. /\ cs \in Seq(Seq(Int)) /\ Len(cs) = n /\ cs[n] = d
      /\ \A i \in 1..n : i # n => cs[i] = w.chunks[i]
  BY <1>3, <1>4, <1>5
<1>7. u = [w EXCEPT !.chunks = cs, !.len = w.len + 1]
  BY <1>2, <1>4 DEF d
<1> HIDE DEF cs
<1>8a. w.len + 1 \in Nat
  BY <1>3
<1>8. /\ u \in [chunks : Seq(Seq(Int)), at : Nat \X Nat, len : Nat, heap : GoodHeaps]
      /\ u.chunks = cs /\ u.at = w.at /\ u.len = w.len + 1 /\ u.heap = w.heap
  BY <1>1, <1>6, <1>7, <1>8a, WithFields, ZenonT(40)
<1>u. u.at[2] = w.at[2] /\ u.len = w.len + 1
  BY <1>8
<1>9. Last(u.chunks) = d /\ u.chunks # <<>> /\ Len(u.chunks) = n
  <2>1. u.chunks # <<>>
    BY <1>4, <1>6, <1>8
  <2> QED BY <1>6, <1>8, <2>1 DEF Last
<1>10. Len(d) = u.at[2] + u.len
  <2>1. Len(c) = w.at[2] + w.len /\ Len(d) = Len(c) + 1
    BY <1>1, <1>5
  <2> QED BY <1>3, <1>u, <2>1
<1>11. Len(d) <= ChunkLits \/ u.len > ChunkLits
  <2>1. Len(c) + 1 <= ChunkLits \/ w.len + 1 > ChunkLits
    BY <1>1
  <2>2. Len(d) = Len(c) + 1
    BY <1>5
  <2> QED BY <1>u, <2>1, <2>2
<1>12. \A i \in 1..Len(u.chunks) : i < Len(u.chunks) => Len(u.chunks[i]) <= ChunkLits
  <2>1. ASSUME NEW i \in 1..n, i < n PROVE Len(cs[i]) <= ChunkLits
    BY <1>1, <1>4, <1>6, <2>1, SMTT(20)
  <2>2. u.chunks = cs /\ Len(u.chunks) = n
    BY <1>8, <1>9
  <2> HIDE DEF n
  <2> QED BY <2>1, <2>2
<1>13. Writing(u)
  <2>1. u.at[1] = Len(u.chunks)
    BY <1>1, <1>8, <1>9
  <2>2. LastIsLast(u.heap) /\ LastSize(u.heap) = 4 * ChunkLits
    BY <1>1, <1>8
  <2> HIDE DEF n
  <2> QED BY <1>9, <1>10, <1>11, <1>12, <2>1, <2>2 DEF Writing
<1>14. u \in Writers
  BY <1>8, <1>13 DEF Writers
<1>15. Grown(t.chunks, u.chunks)
  <2> DEFINE m == Len(t.chunks)
  <2>1. m \in Nat /\ m <= n
    BY <1>1, <1>3 DEF Grown
  <2>2. ASSUME NEW i \in 1..m PROVE Begins(t.chunks[i], u.chunks[i])
    <3>1. Begins(t.chunks[i], w.chunks[i])
      BY <1>1 DEF Grown
    <3>2. i \in 1..n
      BY <1>4, <2>1
    <3>3. CASE i # n
      BY <1>6, <1>8, <3>1, <3>2, <3>3
    <3>4. CASE i = n
      <4>1. u.chunks[i] = d /\ w.chunks[i] = c
        BY <1>4, <1>6, <1>8, <3>4
      <4> DEFINE a == t.chunks[i]
      <4>2. a \in Seq(Int) /\ Len(a) \in Nat
        BY <1>3
      <4>3. Len(a) <= Len(c) /\ \A j \in 1..Len(a) : c[j] = a[j]
        BY <3>1, <4>1 DEF Begins
      <4> HIDE DEF a
      <4>4. \A j \in 1..Len(a) : j \in 1..Len(c)
        BY <1>4, <4>2, <4>3
      <4>5. Len(a) <= Len(d)
        BY <1>4, <1>5, <4>2, <4>3
      <4>6. \A j \in 1..Len(a) : d[j] = a[j]
        BY <1>5, <4>3, <4>4
      <4> QED BY <4>1, <4>5, <4>6 DEF Begins, a
    <3> QED BY <3>3, <3>4
  <2> QED BY <1>9, <2>1, <2>2 DEF Grown
<1>16. SameSoFar(t, u)
  <2>1. ASSUME NEW i \in 1..t.len
        PROVE  Last(u.chunks)[u.at[2] + i] = Last(t.chunks)[t.at[2] + i]
    <3>1. c[w.at[2] + i] = Last(t.chunks)[t.at[2] + i]
      BY <1>1 DEF SameSoFar, c
    <3>2. w.at[2] + i \in 1..Len(c)
      BY <1>1, <1>3
    <3>3. d[w.at[2] + i] = c[w.at[2] + i]
      BY <1>5, <3>2
    <3> QED BY <1>8, <1>9, <3>1, <3>3
  <2> QED BY <2>1 DEF SameSoFar
<1>17. Last(u.chunks)[u.at[2] + u.len] = l
  <2>1. u.at[2] + u.len = Len(c) + 1
    BY <1>5, <1>10
  <2> QED BY <1>5, <1>9, <2>1
<1>18. u.len = t.len + 1
  BY <1>1, <1>8
<1> QED BY <1>9, <1>14, <1>15, <1>16, <1>17, <1>18

(* The chunks after the first k literals of a clause. *)
StoreTurns(base, lits, G) ==
    /\ G \in [0..Len(lits) -> Writers]
    /\ G[0] = base
    /\ \A k \in 1..Len(lits) : G[k] = Store(G[k - 1], lits[k])
    /\ FoldLeft(Store, base, lits) = G[Len(lits)]

LEMMA StoreLoop ==
    ASSUME NEW base \in Writers, NEW lits \in Seq(Int)
    PROVE  \E G : StoreTurns(base, lits, G)
<1> DEFINE n == Len(lits)
           B == Writers
           turn == [k \in 1..n |-> [q \in B |-> Store(q, lits[k])]]
           it == CHOOSE g : g = [t \in SUBSET (1..n) |-> IF t = {} THEN base
                                        ELSE Store(g[t \ {Max(t)}], lits[Max(t)])]
<1>1. n \in Nat /\ base \in B /\ DOMAIN lits = 1..n
  OBVIOUS
<1>2. turn \in Turns(n, B)
  <2> SUFFICES ASSUME NEW k \in 1..n, NEW q \in B PROVE Store(q, lits[k]) \in B
    BY DEF Turns
  <2>1. lits[k] \in Int
    OBVIOUS
  <2> QED BY <1>1, <2>1, StoreOne
<1>3. FoldLeft(Store, base, lits) = it[1..n]
  BY <1>1, Zenon DEF FoldLeft, MapThenFoldSet
<1> HIDE DEF n, B
<1>4. 1..n \subseteq Nat /\ IsFiniteSet(1..n)
  BY <1>1, FS_Interval
<1>5. \A t \in SUBSET (1..n) : t # {} => Max(t) \in 1..n
  BY <1>4, FS_Subset, MaxUpTo
<1>6. it = [t \in SUBSET (1..n) |-> IF t = {} THEN base
                                  ELSE Store(it[t \ {Max(t)}], lits[Max(t)])]
  <2>1. PICK g : IsLoop(g, n, B, base, turn)
    <3> HIDE DEF turn
    <3> QED BY <1>1, <1>2, LoopExists
  <2>2. g = [t \in SUBSET (1..n) |-> IF t = {} THEN base
                                    ELSE Store(g[t \ {Max(t)}], lits[Max(t)])]
    BY <1>5, <2>1 DEF IsLoop
  <2> QED BY <2>2
<1> HIDE DEF it
<1>7. Iterates(it, n, B, base, turn)
  BY <1>5, <1>6 DEF Iterates
<1>8. PICK G : Values(G, n, B, base, turn) /\ G[n] = it[1..n]
  <2> HIDE DEF turn
  <2> QED BY <1>1, <1>2, <1>7, LoopValues
<1>9. G \in [0..n -> B] /\ G[0] = base
  BY <1>8 DEF Values
<1>10. \A k \in 1..n : G[k] = Store(G[k - 1], lits[k])
  <2> TAKE k \in 1..n
  <2>1. k - 1 \in 0..n
    BY <1>1
  <2>2. G[k - 1] \in B
    BY <1>9, <2>1
  <2>3. G[k] = turn[k][G[k - 1]]
    BY <1>8 DEF Values
  <2> QED BY <1>1, <2>2, <2>3
<1> HIDE DEF turn
<1>11. StoreTurns(base, lits, G)
  BY <1>3, <1>8, <1>9, <1>10 DEF n, B, StoreTurns
<1> QED BY <1>11

LEMMA BeginsOn ==
    ASSUME NEW a \in Seq(Int), NEW b \in Seq(Int), NEW c \in Seq(Int), Begins(a, b), Begins(b, c)
    PROVE  Begins(a, c)
<1>1. Len(a) \in Nat /\ Len(b) \in Nat /\ Len(c) \in Nat
  OBVIOUS
<1> QED BY <1>1 DEF Begins

LEMMA GrownOn ==
    ASSUME NEW a \in Seq(Seq(Int)), NEW b \in Seq(Seq(Int)), NEW c \in Seq(Seq(Int)),
           Grown(a, b), Grown(b, c)
    PROVE  Grown(a, c)
<1>1. Len(a) \in Nat /\ Len(b) \in Nat /\ Len(c) \in Nat /\ Len(a) <= Len(b) /\ Len(b) <= Len(c)
  BY DEF Grown
<1>2. ASSUME NEW i \in 1..Len(a) PROVE Begins(a[i], c[i])
  <2>1. i \in 1..Len(b) /\ i \in 1..Len(c)
    BY <1>1
  <2>2. a[i] \in Seq(Int) /\ b[i] \in Seq(Int) /\ c[i] \in Seq(Int)
    BY <2>1
  <2>3. Begins(a[i], b[i]) /\ Begins(b[i], c[i])
    BY <2>1 DEF Grown
  <2> QED BY <2>2, <2>3, BeginsOn
<1> QED BY <1>1, <1>2 DEF Grown

(* A clause whose literals can be read where it is said to be. *)
Stored(chunks, at, len, lits) ==
    /\ len = Len(lits)
    /\ \A i \in 1..len : /\ at[1] \in 1..Len(chunks)
                          /\ at[2] + i \in 1..Len(chunks[at[1]])
                          /\ chunks[at[1]][at[2] + i] = lits[i]

LEMMA StoredStays ==
    ASSUME NEW a \in Seq(Seq(Int)), NEW b \in Seq(Seq(Int)), Grown(a, b),
           NEW at, NEW len, NEW lits, Stored(a, at, len, lits)
    PROVE  Stored(b, at, len, lits)
<1>1. Len(a) \in Nat /\ Len(b) \in Nat /\ Len(a) <= Len(b)
  BY DEF Grown
<1>2. ASSUME NEW i \in 1..len
      PROVE  /\ at[1] \in 1..Len(b)
             /\ at[2] + i \in 1..Len(b[at[1]])
             /\ b[at[1]][at[2] + i] = lits[i]
  <2> DEFINE x == at[1]
             y == at[2] + i
  <2>1. x \in 1..Len(a) /\ y \in 1..Len(a[x]) /\ a[x][y] = lits[i]
    BY DEF Stored
  <2> HIDE DEF x, y
  <2>2. x \in 1..Len(b) /\ a[x] \in Seq(Int) /\ b[x] \in Seq(Int)
    BY <1>1, <2>1
  <2>3. Len(a[x]) <= Len(b[x]) /\ \A j \in 1..Len(a[x]) : b[x][j] = a[x][j]
    BY <2>1 DEF Grown, Begins
  <2>4. y \in 1..Len(b[x]) /\ b[x][y] = lits[i]
    BY <2>1, <2>2, <2>3
  <2> QED BY <2>2, <2>4 DEF x, y
<1> QED BY <1>2 DEF Stored

LEMMA StoreAll ==
    ASSUME NEW base \in Writers, base.len = 0, NEW lits \in Seq(Int),
           NEW t, t = FoldLeft(Store, base, lits)
    PROVE  /\ t \in Writers
           /\ Grown(base.chunks, t.chunks)
           /\ Stored(t.chunks, t.at, t.len, lits)
           /\ lits = <<>> => t = base
           /\ lits # <<>> => t.chunks # <<>>
<1> DEFINE n == Len(lits)
<1>1. PICK G : StoreTurns(base, lits, G)
  BY StoreLoop
<1>2. /\ G \in [0..n -> Writers] /\ G[0] = base /\ t = G[n]
      /\ \A k \in 1..n : G[k] = Store(G[k - 1], lits[k])
  BY <1>1 DEF StoreTurns
<1> DEFINE Ok(k) == /\ G[k].len = k
                    /\ Grown(base.chunks, G[k].chunks)
                    /\ k > 0 => G[k].chunks # <<>>
                    /\ \A i \in 1..k : Last(G[k].chunks)[G[k].at[2] + i] = lits[i]
           T == {k \in 0..n : Ok(k)}
<1>3. n \in Nat /\ 0 \in 0..n /\ n \in 0..n
  OBVIOUS
<1>4. 0 \in T
  <2>1. base.chunks \in Seq(Seq(Int))
    BY WriterIs
  <2>2. Grown(base.chunks, base.chunks)
    <3>1. ASSUME NEW i \in 1..Len(base.chunks) PROVE Begins(base.chunks[i], base.chunks[i])
      <4>1. base.chunks[i] \in Seq(Int)
        BY <2>1
      <4> QED BY <4>1 DEF Begins
    <3>2. Len(base.chunks) \in Nat
      BY <2>1
    <3> QED BY <3>1, <3>2 DEF Grown
  <2>3. 1..0 = {} /\ ~(0 > 0)
    OBVIOUS
  <2> QED BY <1>2, <1>3, <2>2, <2>3
<1>5. ASSUME NEW k \in 1..n, k - 1 \in T PROVE k \in T
  <2> DEFINE was == G[k - 1]
             is == G[k]
             lit == lits[k]
  <2>1. k \in 0..n /\ k - 1 \in 0..n /\ k \in Nat /\ k > 0
    BY <1>3
  <2>2a. was \in Writers
    BY <1>2, <2>1
  <2>2b. is = Store(was, lit)
    BY <1>2
  <2>2c. lit \in Int
    OBVIOUS
  <2>2. was \in Writers /\ is = Store(was, lit) /\ lit \in Int
    BY <2>2a, <2>2b, <2>2c
  <2>3. /\ was.len = k - 1
        /\ Grown(base.chunks, was.chunks)
        /\ \A i \in 1..(k - 1) : Last(was.chunks)[was.at[2] + i] = lits[i]
    BY <1>5
  <2> HIDE DEF is, was, lit
  <2>4. /\ is \in Writers
        /\ is.len = was.len + 1 /\ is.chunks # <<>>
        /\ Grown(was.chunks, is.chunks)
        /\ SameSoFar(was, is)
        /\ Last(is.chunks)[is.at[2] + is.len] = lit
    <3>1. is \in Writers
      BY <2>2, StoreOne
    <3>2. is.len = was.len + 1
      BY <2>2, StoreOne
    <3>3. is.chunks # <<>>
      BY <2>2, StoreOne
    <3>4. Grown(was.chunks, is.chunks)
      BY <2>2, StoreOne
    <3>5. SameSoFar(was, is)
      BY <2>2, StoreOne
    <3>6. Last(is.chunks)[is.at[2] + is.len] = lit
      BY <2>2, StoreOne, ZenonT(40)
    <3> QED BY <3>1, <3>2, <3>3, <3>4, <3>5, <3>6
  <2>5. is.len = k
    BY <2>1, <2>3, <2>4
  <2>6. Grown(base.chunks, is.chunks)
    <3>1. base.chunks \in Seq(Seq(Int)) /\ was.chunks \in Seq(Seq(Int)) /\ is.chunks \in Seq(Seq(Int))
      BY <2>2, <2>4, WriterIs
    <3> QED BY <2>3, <2>4, <3>1, GrownOn
  <2>7. ASSUME NEW i \in 1..k PROVE Last(is.chunks)[is.at[2] + i] = lits[i]
    <3>1. CASE i = k
      BY <2>4, <2>5, <3>1 DEF lit
    <3>2. CASE i # k
      <4>1. i \in 1..(k - 1) /\ i \in 1..was.len
        BY <2>1, <2>3, <3>2
      <4>2. Last(is.chunks)[is.at[2] + i] = Last(was.chunks)[was.at[2] + i]
        BY <2>4, <4>1 DEF SameSoFar
      <4> QED BY <2>3, <4>1, <4>2
    <3> QED BY <3>1, <3>2
  <2>8. Ok(k)
    BY <2>1, <2>4, <2>5, <2>6, <2>7 DEF is
  <2> HIDE DEF Ok
  <2> QED BY <2>1, <2>8
<1>6. \A k \in 0..n : k \in T
  <2> HIDE DEF T
  <2> QED BY <1>3, <1>4, <1>5, UpTo
<1>7. /\ t.len = n /\ t \in Writers
      /\ Grown(base.chunks, t.chunks)
      /\ n > 0 => t.chunks # <<>>
      /\ \A i \in 1..n : Last(t.chunks)[t.at[2] + i] = lits[i]
  BY <1>2, <1>3, <1>6
<1>8. lits = <<>> => t = base
  <2> SUFFICES ASSUME lits = <<>> PROVE t = base
    OBVIOUS
  <2>1. n = 0
    OBVIOUS
  <2> QED BY <1>2, <2>1
<1>9. lits # <<>> => n > 0
  BY <1>3
<1>10. Stored(t.chunks, t.at, t.len, lits)
  <2>1. ASSUME NEW i \in 1..n
        PROVE  /\ t.at[1] \in 1..Len(t.chunks)
               /\ t.at[2] + i \in 1..Len(t.chunks[t.at[1]])
               /\ t.chunks[t.at[1]][t.at[2] + i] = lits[i]
    <3>1. n > 0
      BY <1>3
    <3>2. /\ t.at[1] = Len(t.chunks) /\ t.at[1] \in 1..Len(t.chunks)
          /\ Last(t.chunks) = t.chunks[Len(t.chunks)]
          /\ Len(Last(t.chunks)) = t.at[2] + t.len /\ t.at[2] \in Nat
      BY <1>7, <3>1, WriterIs DEF Writing
    <3>3. t.at[2] + i \in 1..(t.at[2] + n)
      BY <1>3, <3>2
    <3> HIDE DEF n
    <3> QED BY <1>7, <3>2, <3>3
  <2> QED BY <1>7, <2>1 DEF Stored
<1> QED BY <1>7, <1>8, <1>9, <1>10

(* Between two clauses. *)
Kept1(chunks, h) ==
    /\ chunks \in Seq(Seq(Int)) /\ h \in GoodHeaps
    /\ \A i \in 1..Len(chunks) : Len(chunks[i]) <= ChunkLits
    /\ chunks # <<>> => LastIsLast(h) /\ LastSize(h) = 4 * ChunkLits

Fresh1(chunks, h) ==
    [chunks |-> chunks,
     at     |-> <<Len(chunks), IF chunks = <<>> THEN 0 ELSE Len(Last(chunks))>>,
     len    |-> 0, heap |-> h]

LEMMA FreshIs ==
    ASSUME NEW chunks, NEW h, Kept1(chunks, h), NEW t, t = Fresh1(chunks, h)
    PROVE  t \in Writers /\ t.len = 0 /\ t.chunks = chunks /\ t.heap = h
<1> DEFINE y == IF chunks = <<>> THEN 0 ELSE Len(Last(chunks))
<1>1. chunks \in Seq(Seq(Int)) /\ h \in GoodHeaps /\ Len(chunks) \in Nat
  BY DEF Kept1
<1>2. chunks # <<>> => Last(chunks) \in Seq(Int) /\ Len(Last(chunks)) <= ChunkLits
  <2> SUFFICES ASSUME chunks # <<>>
               PROVE  Last(chunks) \in Seq(Int) /\ Len(Last(chunks)) <= ChunkLits
    OBVIOUS
  <2>1. Len(chunks) \in 1..Len(chunks)
    BY <1>1
  <2>2. chunks[Len(chunks)] \in Seq(Int) /\ Len(chunks[Len(chunks)]) <= ChunkLits
    BY <1>1, <2>1 DEF Kept1
  <2> QED BY <2>2 DEF Last
<1>3. y \in Nat
  BY <1>2
<1> HIDE DEF y
<1>4. t = [chunks |-> chunks, at |-> <<Len(chunks), y>>, len |-> 0, heap |-> h]
  BY DEF Fresh1, y
<1>5. /\ t \in [chunks : Seq(Seq(Int)), at : Nat \X Nat, len : Nat, heap : GoodHeaps]
      /\ t.chunks = chunks /\ t.at = <<Len(chunks), y>> /\ t.len = 0 /\ t.heap = h
  BY <1>1, <1>3, <1>4
<1>6. t.at[1] = Len(t.chunks) /\ t.at[2] = y
  BY <1>5
<1>7. t.chunks = <<>> => y = 0
  BY <1>5 DEF y
<1>8. t.chunks # <<>> => Len(Last(t.chunks)) = y + 0 /\ Len(Last(t.chunks)) <= ChunkLits
  BY <1>2, <1>3, <1>5 DEF y
<1>9. t.chunks # <<>> => LastIsLast(t.heap) /\ LastSize(t.heap) = 4 * ChunkLits
  BY <1>5 DEF Kept1
<1>10. \A i \in 1..Len(t.chunks) : Len(t.chunks[i]) <= ChunkLits
  BY <1>5 DEF Kept1
<1>11. Writing(t)
  BY <1>5, <1>6, <1>7, <1>8, <1>9, <1>10 DEF Writing
<1> QED BY <1>5, <1>11 DEF Writers

(* After a clause, unless it was written over the end. *)
LEMMA KeptAgain ==
    ASSUME NEW t \in Writers
    PROVE  /\ ~OverEnd(t.chunks) => Kept1(t.chunks, t.heap)
           /\ OverEnd(t.chunks) => t.len > ChunkLits
<1>1. /\ t.chunks \in Seq(Seq(Int)) /\ Len(t.chunks) \in Nat /\ t.len \in Nat
      /\ t.heap \in GoodHeaps /\ Writing(t)
      /\ t.chunks # <<>> => /\ Len(t.chunks) \in 1..Len(t.chunks)
                            /\ Last(t.chunks) = t.chunks[Len(t.chunks)]
                            /\ Last(t.chunks) \in Seq(Int) /\ Len(Last(t.chunks)) \in Nat
  BY WriterIs
<1>2. ASSUME OverEnd(t.chunks) PROVE t.len > ChunkLits
  BY <1>1, <1>2, ChunkLitsAssumption DEF OverEnd, Writing
<1>3. ASSUME ~OverEnd(t.chunks) PROVE Kept1(t.chunks, t.heap)
  <2>1. ASSUME NEW i \in 1..Len(t.chunks) PROVE Len(t.chunks[i]) <= ChunkLits
    <3>1. CASE i < Len(t.chunks)
      BY <1>1, <3>1 DEF Writing
    <3>2. CASE i = Len(t.chunks)
      <4>1. t.chunks # <<>>
        BY <3>2
      <4>2. ~(Len(Last(t.chunks)) > ChunkLits)
        BY <1>3, <4>1 DEF OverEnd
      <4> QED BY <1>1, <3>2, <4>1, <4>2, ChunkLitsAssumption
    <3> QED BY <1>1, <3>1, <3>2
  <2> QED BY <1>1, <2>1 DEF Kept1, Writing
<1> QED BY <1>2, <1>3

-----------------------------------------------------------------------------
(* The file ReadCNF has, and a turn of its loop. *)

HasHeader(f) == f.format # "wpmcnf"

LEMMA GivenIs ==
    ASSUME NEW f \in Files, HasHeader(f)
    PROVE  /\ Readable(Given(f)) /\ f.lines \in Seq(Lines)
           /\ Len(Clauses(Given(f))) = Len(Clauses(f)) /\ Len(Clauses(f)) \in Nat
           /\ f.format = "cnf" => Given(f) = f
           /\ f.format # "cnf" => Given(f).format = "wcnf"
           /\ \A lits : Fits(Given(f), lits) => Fits(f, lits)
<1>1. f.lines \in Seq(Lines) /\ f.format \in Formats
      /\ \A i \in 1..Len(f.lines) : /\ f.lines[i] \in Lines
                                    /\ f.lines[i].kind \in {"hard", "soft"} => f.format = "pmcnf"
  <2>1. f.lines \in Seq(Lines) /\ f.format \in Formats
        /\ \A i \in DOMAIN f.lines :
              f.lines[i].kind \in {"hard", "soft"} => f.format = "pmcnf"
    BY FilesAssumption
  <2>2. DOMAIN f.lines = 1..Len(f.lines)
    BY <2>1
  <2> QED BY <2>1, <2>2
<1>2. Len(Clauses(f)) \in Nat
  BY <1>1, PassedAre
<1>3. CASE f.format = "pmcnf"
  <2> DEFINE g == Converted(f)
             soft == Len(ClausesWhere(f, TRUE))
  <2>1. /\ g.format = "wcnf" /\ g.lines \in Seq(Lines)
        /\ Len(g.lines) = Len(Clauses(f))
        /\ \A i \in 1..Len(g.lines) :
              /\ g.lines[i].kind = "clause"
              /\ g.lines[i].weight = IF i <= soft THEN 1 ELSE soft + 1
              /\ g.lines[i].lits \in LitsOf(f)
    BY <1>1, ConvertedIs
  <2>2. Given(f) = g
    BY <1>3 DEF Given
  <2> HIDE DEF g
  <2>3. Readable(g) /\ AllClauses(g)
    BY <2>1 DEF Readable, AllClauses
  <2>4. Len(Clauses(g)) = Len(g.lines)
    BY <2>1, <2>3, AllPassed
  <2>5. ASSUME NEW lits, Fits(g, lits) PROVE Fits(f, lits)
    <3>1. CASE lits = <<>>
      BY <3>1 DEF Fits
    <3>2. CASE lits # <<>>
      <4>1. PICK i \in 1..Len(g.lines) : Len(lits) <= Len(g.lines[i].lits)
        BY <2>5, <3>2 DEF Fits
      <4>2. PICK j \in 1..Len(f.lines) : g.lines[i].lits = f.lines[j].lits
        BY <2>1 DEF LitsOf
      <4> QED BY <4>1, <4>2 DEF Fits
    <3> QED BY <3>1, <3>2
  <2>6. f.format # "cnf"
    BY <1>3
  <2> QED BY <1>1, <1>2, <2>1, <2>2, <2>3, <2>4, <2>5, <2>6
<1>4. CASE f.format # "pmcnf"
  <2>1. Given(f) = f
    BY <1>4 DEF Given
  <2>2. f.format \in {"cnf", "wcnf"}
    BY <1>1, <1>4 DEF HasHeader, Formats
  <2>3. \A i \in 1..Len(f.lines) : f.lines[i].kind \in {"clause", "comment"}
    <3> TAKE i \in 1..Len(f.lines)
    <3>1. f.lines[i] \in Lines /\ f.lines[i].kind \notin {"hard", "soft"}
      BY <1>1, <1>4
    <3> QED BY <3>1, LineTypes
  <2>4. Readable(f)
    BY <1>1, <2>3 DEF Readable
  <2> QED BY <1>1, <1>2, <2>1, <2>2, <2>4
<1> QED BY <1>3, <1>4

(* What is given of a partial instance. *)
LEMMA GivenWeights ==
    ASSUME NEW f \in Files, f.format = "pmcnf"
    PROVE  LET soft == Len(ClausesWhere(f, TRUE))
           IN  /\ soft \in Nat /\ soft <= Len(Clauses(f))
               /\ \A j \in 1..Len(Clauses(f)) :
                     Clauses(Given(f))[j].weight = IF j <= soft THEN 1 ELSE soft + 1
<1> DEFINE g == Converted(f)
           soft == Len(ClausesWhere(f, TRUE))
<1>1. f.lines \in Seq(Lines)
  BY FilesAssumption
<1>2. /\ soft \in Nat /\ soft <= Len(Clauses(f))
      /\ g.format = "wcnf" /\ g.lines \in Seq(Lines)
      /\ Len(g.lines) = Len(Clauses(f))
      /\ \A i \in 1..Len(g.lines) :
            /\ g.lines[i].kind = "clause"
            /\ g.lines[i].weight = IF i <= soft THEN 1 ELSE soft + 1
            /\ g.lines[i].lits \in LitsOf(f)
  BY <1>1, ConvertedIs
<1>3. Given(f) = g
  BY DEF Given
<1> HIDE DEF g, soft
<1>4. AllClauses(g)
  BY <1>2 DEF AllClauses
<1>5. \A k \in 1..Len(g.lines) : Clauses(g)[k] = g.lines[k]
  BY <1>2, <1>4, AllPassed
<1>6. \A j \in 1..Len(Clauses(f)) :
         Clauses(Given(f))[j].weight = IF j <= soft THEN 1 ELSE soft + 1
  BY <1>2, <1>3, <1>5
<1> QED BY <1>2, <1>6 DEF soft

(* A cnf file from whose first line ReadCNF does not come out wrong. *)
Plain(f) ==
    /\ AllClauses(f)
    /\ Clauses(f)[1].blank \/ Clauses(f)[1].lits # <<>>

(* The clauses it has exactly. *)
Exact(f, j) ==
    \/ f.format = "wcnf"
    \/ /\ AllClauses(f)
       /\ Clauses(f)[1].blank \/ (j > 1 /\ Clauses(f)[1].lits # <<>>)

At(f, s, m, k, lead) ==
    /\ k \in 0..Len(f.lines) /\ lead \in Leads /\ s = lead \o Tails(f)[k]
    /\ f.format = "wcnf" \/ Plain(f) => m = Len(Passed(f)[k])
    /\ f.format # "wcnf" /\ Plain(f) /\ m > 0 => lead = <<NL>>

(* Where the reader is when it is done with m clauses. *)
Somewhere(f, s, m) == \E k, lead : At(f, s, m, k, lead)

(* What a turn gets, of what it has. *)
Turned(f, m, behind, r, dummy) ==
    /\ r.lits \in Seq(Int) /\ Fits(f, r.lits) /\ dummy \in Nat
    /\ StartsWith(behind, "c") => r.lits = <<>> /\ Somewhere(f, AfterLine(behind), m)
    /\ ~StartsWith(behind, "c") =>
          /\ Somewhere(f, r.rest, m + 1)
          /\ Exact(f, m + 1) => r.lits = Clauses(f)[m + 1].lits
          /\ f.format = "wcnf" => dummy = Clauses(f)[m + 1].weight

LEMMA TurnWithWeights ==
    ASSUME NEW f, Readable(f), f.format = "wcnf", NEW s, NEW m \in Nat, Somewhere(f, s, m),
           m < Len(Clauses(f)), NEW d \in Nat,
           NEW next, next = SkipBlanks(s),
           NEW behind, behind = IF StartsWith(next, "number") THEN Tail(next) ELSE next,
           NEW dummy, dummy = IF StartsWith(next, "number") THEN Head(next).num ELSE d,
           NEW r, r = Literals(Bite(behind))
    PROVE  Turned(f, m, behind, r, dummy)
<1>1. PICK k, lead : At(f, s, m, k, lead)
  BY DEF Somewhere
<1>2. /\ k \in 0..Len(f.lines) /\ lead \in Leads /\ s = lead \o Tails(f)[k]
      /\ m = Len(Passed(f)[k]) /\ f.lines \in Seq(Lines)
  BY <1>1 DEF At, Readable
<1>3. /\ Len(Passed(f)[k]) < Len(Clauses(f)) => k < Len(f.lines)
      /\ k < Len(f.lines) /\ f.lines[k + 1].kind = "clause" =>
            /\ Len(Passed(f)[k + 1]) = Len(Passed(f)[k]) + 1
            /\ Len(Passed(f)[k]) + 1 \in 1..Len(Clauses(f))
            /\ Clauses(f)[Len(Passed(f)[k]) + 1] = f.lines[k + 1]
      /\ k < Len(f.lines) /\ f.lines[k + 1].kind # "clause" =>
            Passed(f)[k + 1] = Passed(f)[k]
  BY <1>2, NextClause
<1>4. k < Len(f.lines)
  BY <1>2, <1>3
<1> DEFINE x == f.lines[k + 1]
<1>5. /\ k + 1 \in 0..Len(f.lines) /\ k + 1 \in 1..Len(f.lines) /\ x \in Lines
      /\ Tails(f)[k + 1] \in Seq(Tokens) /\ <<>> \in Leads /\ <<NL>> \in Leads
  BY <1>2, <1>4, TailsText DEF Leads
<1>6. /\ x.kind = "clause" =>
            /\ StartsWith(next, "number")
            /\ Head(next).num = x.weight
            /\ ~StartsWith(Tail(next), "c")
            /\ Literals(Bite(Tail(next))) = Got1(x.lits, TRUE, <<NL>> \o Tails(f)[k + 1])
      /\ x.kind # "clause" =>
            /\ ~StartsWith(next, "number") /\ StartsWith(next, "c")
            /\ AfterLine(next) = Tails(f)[k + 1]
            /\ Literals(Bite(next)).lits = <<>>
  BY <1>2, <1>4, WcnfTurn
<1> HIDE DEF x
<1>7. CASE x.kind = "clause"
  <2>1. /\ ~StartsWith(behind, "c") /\ dummy = x.weight
        /\ r = Got1(x.lits, TRUE, <<NL>> \o Tails(f)[k + 1])
    BY <1>6, <1>7
  <2>2. r.lits = x.lits /\ r.rest = <<NL>> \o Tails(f)[k + 1]
    BY <2>1 DEF Got1
  <2>3. Clauses(f)[m + 1] = x /\ Len(Passed(f)[k + 1]) = m + 1
    BY <1>2, <1>3, <1>4, <1>7 DEF x
  <2>4. At(f, r.rest, m + 1, k + 1, <<NL>>)
    BY <1>5, <2>2, <2>3 DEF At
  <2>5. Somewhere(f, r.rest, m + 1)
    BY <2>4 DEF Somewhere
  <2>6. x.lits \in Seq(Int) /\ x.weight \in Nat
    BY <1>5, LineTypes
  <2>7. Fits(f, r.lits)
    <3>1. Len(r.lits) <= Len(f.lines[k + 1].lits)
      BY <2>2, <2>6 DEF x
    <3> QED BY <1>5, <3>1 DEF Fits
  <2> QED BY <2>1, <2>2, <2>3, <2>5, <2>6, <2>7 DEF Turned
<1>8. CASE x.kind # "clause"
  <2>1. /\ StartsWith(behind, "c") /\ dummy = d /\ r.lits = <<>>
        /\ AfterLine(behind) = Tails(f)[k + 1]
    BY <1>6, <1>8
  <2>2. <<>> \o Tails(f)[k + 1] = Tails(f)[k + 1]
    BY <1>5, ConcatEmptySeq
  <2>3. Passed(f)[k + 1] = Passed(f)[k]
    BY <1>3, <1>4, <1>8 DEF x
  <2>4. At(f, AfterLine(behind), m, k + 1, <<>>)
    BY <1>2, <1>5, <2>1, <2>2, <2>3 DEF At
  <2>5. Somewhere(f, AfterLine(behind), m)
    BY <2>4 DEF Somewhere
  <2>6. Fits(f, r.lits) /\ r.lits \in Seq(Int)
    <3>1. <<>> \in Seq(Int)
      OBVIOUS
    <3> QED BY <2>1, <3>1 DEF Fits
  <2> QED BY <2>1, <2>5, <2>6 DEF Turned
<1> QED BY <1>7, <1>8

LEMMA TurnWithout ==
    ASSUME NEW f, Readable(f), f.format # "wcnf", NEW s, NEW m \in Nat, Somewhere(f, s, m),
           m < Len(Clauses(f)), NEW d \in Nat, NEW r, r = Literals(Bite(s))
    PROVE  Turned(f, m, s, r, d)
<1>1. PICK k, lead : At(f, s, m, k, lead)
  BY DEF Somewhere
<1>2. /\ k \in 0..Len(f.lines) /\ lead \in Leads /\ s = lead \o Tails(f)[k]
      /\ f.lines \in Seq(Lines)
  BY <1>1 DEF At, Readable
<1> DEFINE x == f.lines[k + 1]
<1>3. /\ r.lits \in Seq(Int) /\ Fits(f, r.lits)
      /\ StartsWith(s, "c") => Spot(f, AfterLine(s)) /\ r.lits = <<>>
      /\ ~StartsWith(s, "c") => Spot(f, r.rest)
      /\ k < Len(f.lines) /\ x.kind = "clause" =>
            /\ ~StartsWith(s, "c")
            /\ lead = <<NL>> \/ x.blank => r.lits = x.lits
            /\ lead = <<NL>> \/ x.blank \/ x.lits # <<>>
                  => r.rest = <<NL>> \o Tails(f)[k + 1]
  BY <1>2, CnfTurn, ZenonT(40)
<1>4. CASE ~Plain(f)
  <2>1. ASSUME NEW t, NEW i, Spot(f, t) PROVE Somewhere(f, t, i)
    <3>1. PICK q \in 0..Len(f.lines), le \in Leads : t = le \o Tails(f)[q]
      BY <2>1 DEF Spot
    <3>2. At(f, t, i, q, le)
      BY <1>4, <3>1 DEF At
    <3> QED BY <3>2 DEF Somewhere
  <2>2. ~Exact(f, m + 1)
    BY <1>4 DEF Exact, Plain
  <2> QED BY <1>3, <2>1, <2>2 DEF Turned
<1>5. CASE Plain(f)
  <2>1. AllClauses(f) /\ m = Len(Passed(f)[k]) /\ (m > 0 => lead = <<NL>>)
    BY <1>1, <1>5 DEF At, Plain
  <2>2. /\ \A i \in 0..Len(f.lines) : Len(Passed(f)[i]) = i
        /\ Len(Clauses(f)) = Len(f.lines)
        /\ \A i \in 1..Len(f.lines) : Clauses(f)[i] = f.lines[i]
    BY <1>2, <2>1, AllPassed
  <2>3. m = k /\ k < Len(f.lines)
    BY <1>2, <2>1, <2>2
  <2>4. k + 1 \in 0..Len(f.lines) /\ k + 1 \in 1..Len(f.lines) /\ <<NL>> \in Leads
        /\ Tails(f)[k + 1] \in Seq(Tokens)
    BY <1>2, <2>3, TailsText DEF Leads
  <2>5. x.kind = "clause" /\ Clauses(f)[m + 1] = x /\ Len(Passed(f)[k + 1]) = m + 1
    BY <2>1, <2>2, <2>3, <2>4 DEF AllClauses
  <2>6. m = 0 => /\ x = Clauses(f)[1]
                 /\ x.blank \/ x.lits # <<>>
    <3> SUFFICES ASSUME m = 0 PROVE x = Clauses(f)[1] /\ (x.blank \/ x.lits # <<>>)
      OBVIOUS
    <3>1. m + 1 = 1
      OBVIOUS
    <3>2. x = Clauses(f)[1]
      BY <2>5, <3>1
    <3> QED BY <1>5, <3>2 DEF Plain
  <2>7. lead = <<NL>> \/ x.blank \/ x.lits # <<>>
    BY <2>1, <2>6
  <2>8. ~StartsWith(s, "c") /\ r.rest = <<NL>> \o Tails(f)[k + 1]
    BY <1>3, <2>3, <2>5, <2>7
  <2>9. At(f, r.rest, m + 1, k + 1, <<NL>>)
    BY <2>4, <2>5, <2>8 DEF At
  <2>10. Somewhere(f, r.rest, m + 1)
    BY <2>9 DEF Somewhere
  <2>11. Exact(f, m + 1) => r.lits = Clauses(f)[m + 1].lits
    <3> SUFFICES ASSUME Exact(f, m + 1) PROVE r.lits = x.lits
      BY <2>5
    <3>1. Clauses(f)[1].blank \/ (m + 1 > 1 /\ Clauses(f)[1].lits # <<>>)
      BY DEF Exact
    <3>2. lead = <<NL>> \/ x.blank
      <4>1. CASE m = 0
        BY <2>6, <3>1, <4>1
      <4>2. CASE m > 0
        BY <2>1, <4>2
      <4> QED BY <4>1, <4>2
    <3> QED BY <1>3, <2>3, <2>5, <3>2
  <2> QED BY <1>3, <2>8, <2>10, <2>11 DEF Turned
<1> QED BY <1>4, <1>5

-----------------------------------------------------------------------------
(* What the constructor makes of its text: numbers, whatever it reads. *)

(* Text of whole lines, or the end of one. *)
Lined(s) == s \in Seq(Tokens) /\ (s # <<>> => s[Len(s)] = NL)

LEMMA LinedEnding ==
    ASSUME NEW s, Lined(s), NEW n \in 0..Len(s)
    PROVE  Lined(SubSeq(s, n + 1, Len(s)))
<1> DEFINE t == SubSeq(s, n + 1, Len(s))
<1>1. s \in Seq(Tokens)
  BY DEF Lined
<1>2. /\ t \in Seq(Tokens) /\ Len(t) = Len(s) - n
      /\ \A i \in 1..(Len(s) - n) : t[i] = s[n + i]
  BY <1>1, Ending
<1> HIDE DEF t
<1>3. ASSUME t # <<>> PROVE t[Len(t)] = NL
  <2>1. Len(t) \in 1..(Len(s) - n) /\ n + Len(t) = Len(s) /\ Len(s) # 0
    BY <1>1, <1>2, <1>3
  <2>2. s # <<>>
    BY <2>1
  <2> QED BY <1>2, <2>1, <2>2 DEF Lined
<1> QED BY <1>2, <1>3 DEF Lined, t

LEMMA LinedTail ==
    ASSUME NEW s, Lined(s), s # <<>>
    PROVE  Lined(Tail(s))
<1>1. s \in Seq(Tokens) /\ Len(s) \in Nat /\ Len(s) # 0
  BY DEF Lined
<1>2. 1 \in 0..Len(s) /\ 1 + 1 = 2
  BY <1>1
<1>3. Lined(SubSeq(s, 1 + 1, Len(s)))
  BY <1>2, LinedEnding
<1>4. Tail(s) = SubSeq(s, 2, Len(s))
  BY <1>1
<1> QED BY <1>2, <1>3, <1>4

LEMMA LinedBite ==
    ASSUME NEW s, Lined(s)
    PROVE  Lined(Bite(s))
<1>1. s \in Seq(Tokens) /\ Len(s) \in Nat
  BY DEF Lined
<1>2. CASE s = <<>>
  BY <1>2 DEF Bite
<1>3. CASE s # <<>> /\ Head(s).num < 0
  <2> DEFINE e == Num(0 - Head(s).num)
             t == <<e>> \o Tail(s)
  <2>1. Bite(s) = t
    BY <1>3 DEF Bite
  <2>2. Head(s) \in Tokens /\ Tail(s) \in Seq(Tokens) /\ s = <<Head(s)>> \o Tail(s)
    BY <1>1, <1>3, HeadFirst
  <2>3. 0 - Head(s).num \in Int
    BY <2>2 DEF Tokens
  <2>4. e \in Tokens
    BY <2>3, TokenTypes
  <2> HIDE DEF e
  <2>5. t \in Seq(Tokens) /\ Len(t) = Len(Tail(s)) + 1
    BY <2>2, <2>4, TailOfOne
  <2>6. Len(s) = Len(Tail(s)) + 1 /\ Len(Tail(s)) \in Nat
    BY <1>1, <1>3
  <2>7. s[Len(s)] = NL /\ NL.num = 0
    BY <1>3 DEF Lined, NL, Word
  <2>8. Len(s) # 1
    <3> SUFFICES ASSUME Len(s) = 1 PROVE FALSE
      OBVIOUS
    <3>1. Head(s) = s[Len(s)]
      BY <1>1
    <3>2. Head(s).num = 0
      BY <2>7, <3>1
    <3> QED BY <1>3, <3>2
  <2>9. t[Len(t)] = s[Len(s)]
    <3>1. \A i \in 2..Len(s) : s[i] = Tail(s)[i - 1]
      BY <1>1, <1>3
    <3>2. \A i \in 2..Len(t) : t[i] = Tail(s)[i - 1]
      <4>1. Tail(t) = Tail(s)
        BY <2>2, <2>4, TailOfOne
      <4>2. \A i \in 2..Len(t) : t[i] = Tail(t)[i - 1]
        <5> HIDE DEF t
        <5> QED BY <2>5, <2>6
      <4> QED BY <4>1, <4>2
    <3>3. Len(s) \in 2..Len(s) /\ Len(t) = Len(s)
      BY <1>1, <2>5, <2>6, <2>8
    <3> HIDE DEF t
    <3> QED BY <3>1, <3>2, <3>3
  <2> HIDE DEF t
  <2> QED BY <2>1, <2>5, <2>7, <2>9 DEF Lined
<1>4. CASE s # <<>> /\ ~(Head(s).num < 0)
  <2>1. Bite(s) = Tail(s)
    BY <1>4 DEF Bite
  <2> QED BY <1>4, <2>1, LinedTail
<1> QED BY <1>2, <1>3, <1>4

LEMMA LinedCat ==
    ASSUME NEW a, NEW b, Lined(a), Lined(b)
    PROVE  Lined(a \o b)
<1>1. a \in Seq(Tokens) /\ b \in Seq(Tokens)
  BY DEF Lined
<1>2. CASE b = <<>>
  <2>1. a \o b = a
    BY <1>1, <1>2, ConcatEmptySeq
  <2> QED BY <2>1
<1>3. CASE b # <<>>
  <2>1. a \o b \in Seq(Tokens)
    BY <1>1, ConcatProperties
  <2>2. Len(a \o b) = Len(a) + Len(b) /\ (a \o b)[Len(a) + Len(b)] = b[Len(b)]
    BY <1>1, <1>3
  <2>3. b[Len(b)] = NL
    BY <1>3 DEF Lined
  <2> QED BY <2>1, <2>2, <2>3 DEF Lined
<1> QED BY <1>2, <1>3

LEMMA LinedLine ==
    ASSUME NEW x \in Lines, NEW format
    PROVE  Lined(LineText(format, x))
<1>1. <<>> \in Seq(Tokens) /\ NL \in Tokens /\ Num(0) \in Tokens
  BY TokenTypes
<1>2. LineText(format, x) \in Seq(Tokens)
  BY LineIsText
<1>3. ASSUME NEW a \in Seq(Tokens), NEW b \in Seq(Tokens), b # <<>>, b[Len(b)] = NL
      PROVE  Lined(a \o b)
  <2>1. a \o b \in Seq(Tokens)
    BY <1>3, ConcatProperties
  <2>2. Len(a \o b) = Len(a) + Len(b) /\ (a \o b)[Len(a) + Len(b)] = b[Len(b)]
    BY <1>3
  <2> QED BY <1>3, <2>1, <2>2 DEF Lined
<1>4. CASE x.kind = "clause"
  <2> DEFINE a == Before(format, x) \o LitsText(x.lits)
             b == <<Num(0), NL>>
  <2>1. LineText(format, x) = a \o b /\ LitsText(x.lits) \in Seq(Tokens)
    BY <1>1, <1>4, ClauseText
  <2>2. a \in Seq(Tokens)
    BY <2>1, BeforeIs, ConcatProperties
  <2>3. b \in Seq(Tokens) /\ b # <<>> /\ b[Len(b)] = NL
    BY <1>1
  <2> HIDE DEF a, b
  <2> QED BY <1>3, <2>1, <2>2, <2>3
<1>5. CASE x.kind # "clause"
  <2> DEFINE first == <<FirstWord(x)>>
             b == Remark(x) \o <<NL>>
  <2>1. /\ LineText(format, x) = first \o b
        /\ FirstWord(x) \in Tokens /\ Remark(x) \in Seq(Tokens)
    BY <1>1, <1>5, RemarkText
  <2>2. first \in Seq(Tokens)
    BY <2>1
  <2>3. <<NL>> \in Seq(Tokens) /\ <<NL>> # <<>> /\ Len(<<NL>>) = 1 /\ <<NL>>[1] = NL
    BY <1>1
  <2>4. b \in Seq(Tokens) /\ Len(b) = Len(Remark(x)) + 1 /\ b[Len(Remark(x)) + 1] = NL
    BY <2>1, <2>3
  <2>5. b # <<>> /\ b[Len(b)] = NL
    <3>1. Len(Remark(x)) \in Nat
      BY <2>1
    <3>2. Len(b) # 0
      BY <2>4, <3>1
    <3>3. b # <<>>
      <4> HIDE DEF b
      <4> QED BY <3>2
    <3> QED BY <2>4, <3>3
  <2> HIDE DEF first, b
  <2> QED BY <1>3, <2>1, <2>2, <2>4, <2>5
<1> QED BY <1>4, <1>5

LEMMA LinedText ==
    ASSUME NEW f, f.lines \in Seq(Lines)
    PROVE  Lined(<<NL>> \o Text(f))
<1> DEFINE n == Len(f.lines)
           L(k) == LineText(f.format, f.lines[k])
           seqs == [i \in DOMAIN f.lines |-> LineText(f.format, f.lines[i])]
<1>1. n \in Nat /\ DOMAIN f.lines = 1..n /\ \A k \in 1..n : f.lines[k] \in Lines
  OBVIOUS
<1>2. \A k \in 1..n : L(k) \in Seq(Tokens) /\ Lined(L(k))
  BY <1>1, LineIsText, LinedLine
<1>3. seqs \in Seq(Seq(Tokens)) /\ Len(seqs) = n /\ \A k \in 1..n : seqs[k] = L(k)
  <2>1. seqs = [i \in 1..n |-> L(i)]
    BY <1>1
  <2> HIDE DEF seqs, L
  <2> QED BY <1>1, <1>2, <2>1
<1>4. PICK P : Joins(seqs, Tokens, P)
  <2> HIDE DEF seqs
  <2> QED BY <1>3, FlattenLoop
<1>5. Text(f) = FlattenSeq(seqs)
  BY DEF Text
<1> HIDE DEF seqs, L
<1>6. /\ P[0] = <<>> /\ Text(f) = P[n]
      /\ \A k \in 1..n : P[k] = P[k - 1] \o L(k)
  BY <1>3, <1>4, <1>5 DEF Joins
<1> DEFINE T == {k \in 0..n : Lined(P[k])}
<1>7. Lined(<<>>) /\ 0 \in 0..n /\ n \in 0..n
  BY <1>1 DEF Lined
<1>8. 0 \in T
  BY <1>6, <1>7
<1>9. ASSUME NEW k \in 1..n, k - 1 \in T PROVE k \in T
  <2>1. Lined(P[k - 1] \o L(k))
    BY <1>2, <1>9, LinedCat
  <2>2. k \in 0..n
    BY <1>1
  <2> QED BY <1>6, <2>1, <2>2
<1>10. \A k \in 0..n : k \in T
  <2> HIDE DEF T
  <2> QED BY <1>1, <1>8, <1>9, UpTo
<1>11. Lined(Text(f))
  BY <1>6, <1>7, <1>10
<1>12. Lined(<<NL>>)
  <2>1. NL \in Tokens /\ Len(<<NL>>) = 1 /\ <<NL>>[1] = NL
    BY TokenTypes
  <2> QED BY <2>1 DEF Lined
<1> QED BY <1>11, <1>12, LinedCat

(* Where a search in a text ends. *)
LEMMA Found ==
    ASSUME NEW s, NEW S, Len(s) \in Nat, Places(s, Len(s), S) # {}
    PROVE  /\ Min(Places(s, Len(s), S)) \in 1..Len(s)
           /\ s[Min(Places(s, Len(s), S))] \in S
<1> DEFINE I == Places(s, Len(s), S)
<1>1. I \subseteq Nat /\ I \subseteq 1..Len(s) /\ \A i \in I : s[i] \in S
  BY DEF Places
<1> HIDE DEF I
<1>2. PICK m \in I : \A x \in I : m <= x
  BY <1>1, LeastNatural DEF I
<1>3. Min(I) = m
  BY <1>1, <1>2, LeastIs
<1> QED BY <1>1, <1>2, <1>3 DEF I

LEMMA LinedAfterLine ==
    ASSUME NEW s, Lined(s), s # <<>>
    PROVE  Lined(AfterLine(s))
<1> DEFINE S == {t \in Tokens : t = NL}
           I == Places(s, Len(s), S)
           m == Min(I)
<1>1. s \in Seq(Tokens) /\ Len(s) \in Nat /\ Len(s) \in 1..Len(s) /\ s[Len(s)] = NL
      /\ \A i \in 1..Len(s) : s[i] \in Tokens
  BY DEF Lined
<1>2. Len(s) \in I
  BY <1>1, TokenTypes DEF Places
<1>3. SelectInSeq(s, LAMBDA t : t = NL) = m
  <2>1. {i \in 1..Len(s) : s[i] = NL} = I
    BY <1>1 DEF Places
  <2>2. {i \in 1..Len(s) : s[i] = NL} # {}
    BY <1>2, <2>1
  <2> HIDE DEF I
  <2> QED BY <2>1, <2>2 DEF SelectInSeq
<1>4. m \in 1..Len(s)
  <2>1. I # {}
    BY <1>2
  <2> HIDE DEF S
  <2> QED BY <1>1, <2>1, Found
<1> HIDE DEF m
<1> DEFINE t == SubSeq(s, m, Len(s))
<1>5. m # 0 /\ m - 1 \in 0..Len(s) /\ (m - 1) + 1 = m
  BY <1>1, <1>4
<1>6. Lined(t)
  <2>1. Lined(SubSeq(s, (m - 1) + 1, Len(s)))
    BY <1>5, LinedEnding
  <2> QED BY <1>5, <2>1
<1>7. Len(t) = Len(s) - (m - 1)
  <2>1. Len(SubSeq(s, (m - 1) + 1, Len(s))) = Len(s) - (m - 1)
    BY <1>1, <1>5, Ending
  <2> QED BY <1>5, <2>1
<1>8. t # <<>>
  <2>1. Len(t) # 0
    BY <1>1, <1>4, <1>7
  <2> HIDE DEF t
  <2> QED BY <2>1
<1>9. AfterLine(s) = Tail(t)
  BY <1>3, <1>5 DEF AfterLine, From
<1> HIDE DEF t
<1> QED BY <1>6, <1>8, <1>9, LinedTail

LEMMA LinedLiterals ==
    ASSUME NEW s, Lined(s)
    PROVE  /\ Literals(s).lits \in Seq(Int)
           /\ Literals(s).ok \in BOOLEAN
           /\ Lined(Literals(s).rest)
<1> DEFINE S == {t \in Tokens : Stops(t)}
           I == Places(s, Len(s), S)
           stop == SelectInSeq(s, Stops)
           upTo == IF stop = 0 THEN s ELSE SubSeq(s, 1, stop - 1)
           ok == stop # 0 /\ s[stop] = Num(0)
           after == From(s, IF ok THEN stop + 1 ELSE stop)
<1>1. s \in Seq(Tokens) /\ Len(s) \in Nat /\ \A i \in 1..Len(s) : s[i] \in Tokens
  BY DEF Lined
<1>2. {i \in 1..Len(s) : Stops(s[i])} = I
  BY <1>1 DEF Places
<1>3. stop = IF I # {} THEN Min(I) ELSE 0
  <2> HIDE DEF I
  <2> QED BY <1>2 DEF SelectInSeq
<1>4. stop \in 0..Len(s)
  <2>1. CASE I = {}
    BY <1>1, <1>3, <2>1
  <2>2. CASE I # {}
    <3>1. Min(I) \in 1..Len(s)
      <4> HIDE DEF S
      <4> QED BY <1>1, <2>2, Found
    <3> QED BY <1>1, <1>3, <2>2, <3>1
  <2> QED BY <2>1, <2>2
<1>5. Literals(s) = [lits |-> Numbers(upTo), ok |-> ok, rest |-> after]
  BY DEF Literals
<1> HIDE DEF stop, I
<1>6. upTo \in Seq(Tokens)
  <2>1. CASE stop = 0
    BY <1>1, <2>1
  <2>2. CASE stop # 0
    <3>1. stop - 1 \in 0..Len(s) /\ stop - 1 <= Len(s)
      BY <1>1, <1>4, <2>2
    <3>2. SubSeq(s, 1, stop - 1) \in Seq(Tokens)
      BY <1>1, <3>1
    <3> QED BY <2>2, <3>2
  <2> QED BY <2>1, <2>2
<1>7. Numbers(upTo) \in Seq(Int)
  <2>1. <<>> \in Seq(Tokens)
    OBVIOUS
  <2> HIDE DEF upTo
  <2> QED BY <1>6, <2>1, NumbersCat
<1>8. Lined(after)
  <2> DEFINE at == IF ok THEN stop + 1 ELSE stop
  <2>1. CASE at = 0
    <3>1. after = <<>>
      BY <2>1 DEF From
    <3>2. <<>> \in Seq(Tokens)
      OBVIOUS
    <3> HIDE DEF at, after
    <3>3. after \in Seq(Tokens) /\ ~(after # <<>>)
      BY <3>1, <3>2
    <3> QED BY <3>3, Zenon DEF Lined
  <2>2. CASE at # 0
    <3>1. at - 1 \in 0..Len(s) /\ (at - 1) + 1 = at
      BY <1>1, <1>4, <2>2
    <3>2. after = SubSeq(s, at, Len(s))
      BY <2>2 DEF From
    <3> HIDE DEF at, after
    <3>3. Lined(SubSeq(s, (at - 1) + 1, Len(s)))
      BY <3>1, LinedEnding
    <3>4. SubSeq(s, (at - 1) + 1, Len(s)) = SubSeq(s, at, Len(s))
      BY <3>1
    <3>5. Lined(SubSeq(s, at, Len(s)))
      BY <3>3, <3>4
    <3> QED BY <3>2, <3>5
  <2> HIDE DEF at, after
  <2> QED BY <2>1, <2>2
<1>9. ok \in BOOLEAN
  OBVIOUS
<1> HIDE DEF upTo, ok, after
<1>10. Literals(s).lits = Numbers(upTo) /\ Literals(s).ok = ok /\ Literals(s).rest = after
  BY <1>5
<1> QED BY <1>7, <1>8, <1>9, <1>10

(* No number that is read is 0, which ends them. *)
LEMMA NumbersNonZero ==
    ASSUME NEW s \in Seq(Tokens), \A i \in 1..Len(s) : s[i] # Num(0)
    PROVE  Numbers(s) \in Seq(Int \ {0})
<1> DEFINE n == Len(s)
           T == {k \in 0..n : \A G : NumbersTurns(s, G) => G[k] \in Seq(Int \ {0})}
<1>1. n \in Nat
  OBVIOUS
<1>2. 0 \in T
  BY <1>1 DEF NumbersTurns
<1>3. ASSUME NEW k \in 1..n, k - 1 \in T PROVE k \in T
  <2>1. k \in 0..n
    BY <1>1
  <2>2. ASSUME NEW G, NumbersTurns(s, G) PROVE G[k] \in Seq(Int \ {0})
    <3> DEFINE q == G[k - 1]
    <3>1. q \in Seq(Int \ {0})
      BY <1>3, <2>2
    <3>2. G[k] = NumbersTurn(q, s[k])
      BY <2>2 DEF NumbersTurns
    <3>3. s[k].kind = "number" => s[k].num \in Int \ {0}
      <4>1. s[k] \in Tokens /\ s[k] # Num(0)
        OBVIOUS
      <4> QED BY <4>1 DEF Tokens, Num, Words
    <3> HIDE DEF q
    <3> QED BY <3>1, <3>2, <3>3 DEF NumbersTurn
  <2> QED BY <2>1, <2>2
<1> HIDE DEF T
<1>4. \A k \in 0..n : k \in T
  BY <1>1, <1>2, <1>3, UpTo
<1>5. n \in T
  BY <1>1, <1>4
<1>6. PICK G : NumbersTurns(s, G)
  BY NumbersLoop
<1>7. G[n] \in Seq(Int \ {0}) /\ Numbers(s) = G[n]
  BY <1>5, <1>6 DEF T, NumbersTurns
<1> QED BY <1>7

LEMMA AbsCases ==
    ASSUME NEW a \in Int, NEW b \in Int, a # 0
    PROVE  /\ Abs(a) \in Nat
           /\ Abs(a) > Abs(b) => ~(a = b) /\ ~(a = 0 - b) /\ ~(Abs(a) < Abs(b))
           /\ a = b => ~(Abs(a) > Abs(b)) /\ ~(a = 0 - b) /\ ~(Abs(a) < Abs(b))
           /\ a = 0 - b => ~(Abs(a) > Abs(b)) /\ ~(a = b) /\ ~(Abs(a) < Abs(b))
           /\ Abs(a) < Abs(b) => ~(a = b) /\ ~(a = 0 - b) /\ ~(Abs(a) > Abs(b))
           /\ Abs(a) > Abs(b) \/ a = b \/ a = 0 - b \/ Abs(a) < Abs(b)
  BY DEF Abs

(* The loops of isTautologicalClause: numbers stay numbers. *)
SortStates == [lits : Seq(Int \ {0}), i : Nat \ {0}, j : Nat \ {0}, tautology : BOOLEAN]

LEMMA SortStateIs ==
    ASSUME NEW t \in SortStates
    PROVE  /\ t.lits \in Seq(Int \ {0}) /\ Len(t.lits) \in Nat
           /\ t.i \in Nat \ {0} /\ t.j \in Nat \ {0} /\ t.tautology \in BOOLEAN
           /\ \A k \in 1..Len(t.lits) : t.lits[k] \in Int \ {0}
  BY DEF SortStates

(* What a turn may make of a state. *)
NextRow(t)   == [t EXCEPT !.i = @ + 1, !.j = t.i + 2]
NextPair(t)  == [t EXCEPT !.j = @ + 1]
Swapped(t)   == [t EXCEPT !.lits[t.i] = t.lits[t.j], !.lits[t.j] = t.lits[t.i], !.j = @ + 1]
Shortened(t) == [t EXCEPT !.lits = Front([@ EXCEPT ![t.j] = t.lits[Len(t.lits)]])]
Shown(t)     == [t EXCEPT !.tautology = TRUE]

LEMMA SortStepEnds ==
    ASSUME NEW t \in SortStates
    PROVE  /\ t.tautology \/ t.i >= Len(t.lits) => SortStep(t) = t
           /\ ~t.tautology /\ t.i < Len(t.lits) /\ t.j > Len(t.lits) => SortStep(t) = NextRow(t)
  BY SortStateIs DEF SortStep, NextRow

LEMMA SortStepCases ==
    ASSUME NEW t \in SortStates, ~t.tautology, t.i < Len(t.lits), t.j <= Len(t.lits),
           NEW a, a = t.lits[t.i], NEW b, b = t.lits[t.j]
    PROVE  /\ a \in Int \ {0} /\ b \in Int \ {0} /\ t.i \in 1..Len(t.lits) /\ t.j \in 1..Len(t.lits)
           /\ Abs(a) > Abs(b) => SortStep(t) = Swapped(t)
           /\ a = b => SortStep(t) = Shortened(t)
           /\ a = 0 - b => SortStep(t) = Shown(t)
           /\ Abs(a) < Abs(b) => SortStep(t) = NextPair(t)
           /\ Abs(a) > Abs(b) \/ a = b \/ a = 0 - b \/ Abs(a) < Abs(b)
<1> DEFINE n == Len(t.lits)
<1>1. /\ t.lits \in Seq(Int \ {0}) /\ n \in Nat
      /\ t.i \in Nat \ {0} /\ t.j \in Nat \ {0} /\ t.tautology \in BOOLEAN
      /\ t.i \in 1..n /\ t.j \in 1..n
  BY SortStateIs
<1>2. a \in Int \ {0} /\ b \in Int \ {0} /\ a \in Int /\ b \in Int /\ a # 0
  BY <1>1, SortStateIs
<1>3. /\ ~(t.tautology \/ t.i >= n) /\ ~(~t.tautology /\ t.i < n /\ t.j > n)
  BY <1>1
<1> DEFINE more  == Abs(a) > Abs(b)
           less  == Abs(a) < Abs(b)
           minus == a = 0 - b
           u     == SortStep(t)
           c1    == t.tautology \/ t.i >= n
           c2    == ~t.tautology /\ t.i < n /\ t.j > n
           e2    == NextRow(t)
           swap  == Swapped(t)
           less1 == Shortened(t)
           shown == Shown(t)
           next  == NextPair(t)
<1>4. u = CASE c1 -> t [] c2 -> e2
            [] OTHER -> CASE more -> swap [] a = b -> less1 [] minus -> shown [] less -> next
  BY DEF SortStep, NextRow, NextPair, Swapped, Shortened, Shown
<1>5. ~c1 /\ ~c2
  BY <1>3
<1>6. /\ more => ~(a = b) /\ ~minus /\ ~less
      /\ a = b => ~more /\ ~minus /\ ~less
      /\ minus => ~more /\ ~(a = b) /\ ~less
      /\ less => ~(a = b) /\ ~minus /\ ~more
      /\ more \/ a = b \/ minus \/ less
  BY <1>2, AbsCases
<1> HIDE DEF more, less, minus, u, c1, c2, e2, swap, less1, shown, next
<1>7. more => u = swap
  BY <1>4, <1>5, <1>6
<1>8. a = b => u = less1
  BY <1>4, <1>5, <1>6
<1>9. minus => u = shown
  BY <1>4, <1>5, <1>6
<1>10. less => u = next
  BY <1>4, <1>5, <1>6
<1> QED BY <1>1, <1>2, <1>6, <1>7, <1>8, <1>9, <1>10, Zenon
        DEF more, less, minus, u, swap, less1, shown, next

LEMMA FrontIs ==
    ASSUME NEW A, NEW s \in Seq(A), Len(s) # 0
    PROVE  /\ Front(s) \in Seq(A) /\ Len(Front(s)) = Len(s) - 1
           /\ \A k \in 1..(Len(s) - 1) : Front(s)[k] = s[k]
<1> DEFINE m == Len(s) - 1
<1>1. m \in Nat /\ m <= Len(s) /\ Len(s) \in Nat
  OBVIOUS
<1>2. Front(s) = SubSeq(s, 1, m)
  BY DEF Front
<1> HIDE DEF m
<1>3. SubSeq(s, 1, m) \in Seq(A)
  BY <1>1
<1>4. Len(SubSeq(s, 1, m)) = m
  BY <1>1
<1>5. \A k \in 1..m : SubSeq(s, 1, m)[k] = s[k]
  BY <1>1
<1> QED BY <1>2, <1>3, <1>4, <1>5 DEF m

LEMMA SortStepTyped ==
    ASSUME NEW t \in SortStates
    PROVE  SortStep(t) \in SortStates
<1> DEFINE n == Len(t.lits)
           a == t.lits[t.i]
           b == t.lits[t.j]
<1>1. /\ t.lits \in Seq(Int \ {0}) /\ n \in Nat
      /\ t.i \in Nat \ {0} /\ t.j \in Nat \ {0} /\ t.tautology \in BOOLEAN
  BY SortStateIs
<1>2. CASE t.tautology \/ t.i >= n
  BY <1>2, SortStepEnds
<1>3. CASE ~t.tautology /\ t.i < n /\ t.j > n
  <2>1. SortStep(t) = NextRow(t)
    BY <1>3, SortStepEnds
  <2>2. t.i + 1 \in Nat \ {0} /\ t.i + 2 \in Nat \ {0}
    BY <1>1
  <2> QED BY <2>1, <2>2 DEF SortStates, NextRow
<1>4. CASE ~t.tautology /\ t.i < n /\ t.j <= n
  <2>1. /\ a \in Int \ {0} /\ b \in Int \ {0} /\ t.i \in 1..n /\ t.j \in 1..n
        /\ Abs(a) > Abs(b) => SortStep(t) = Swapped(t)
        /\ a = b => SortStep(t) = Shortened(t)
        /\ a = 0 - b => SortStep(t) = Shown(t)
        /\ Abs(a) < Abs(b) => SortStep(t) = NextPair(t)
        /\ Abs(a) > Abs(b) \/ a = b \/ a = 0 - b \/ Abs(a) < Abs(b)
    BY <1>4, SortStepCases
  <2>2. t.j + 1 \in Nat \ {0}
    BY <1>1
  <2>3. Swapped(t) \in SortStates
    <3>1. [[t.lits EXCEPT ![t.i] = b] EXCEPT ![t.j] = a] \in Seq(Int \ {0})
      BY <1>1, <2>1
    <3> QED BY <2>2, <3>1 DEF SortStates, Swapped
  <2>4. Shortened(t) \in SortStates
    <3> DEFINE s == [t.lits EXCEPT ![t.j] = t.lits[n]]
    <3>1. t.lits[n] \in Int \ {0}
      BY <1>1, <2>1, SortStateIs
    <3>2. s \in Seq(Int \ {0}) /\ Len(s) # 0
      BY <1>1, <2>1, <3>1
    <3> HIDE DEF s
    <3>3. Front(s) \in Seq(Int \ {0})
      BY <3>2, FrontIs
    <3> QED BY <3>3 DEF s, SortStates, Shortened
  <2>5. Shown(t) \in SortStates
    BY DEF SortStates, Shown
  <2>6. NextPair(t) \in SortStates
    BY <2>2 DEF SortStates, NextPair
  <2> HIDE DEF a, b, n
  <2> QED BY <2>1, <2>3, <2>4, <2>5, <2>6
<1> QED BY <1>1, <1>2, <1>3, <1>4

SortTurnsOf(lits) == Len(lits) * (Len(lits) + 1)

SortBase(lits) == [lits |-> lits, i |-> 1, j |-> 2, tautology |-> FALSE]

(* The literals after each turn of the loops. *)
SortTurns(lits, G) ==
    /\ G \in [0..SortTurnsOf(lits) -> SortStates]
    /\ G[0] = SortBase(lits)
    /\ \A k \in 1..SortTurnsOf(lits) : G[k] = SortStep(G[k - 1])
    /\ Sorted(lits) = G[SortTurnsOf(lits)]

LEMMA SortLoop ==
    ASSUME NEW lits \in Seq(Int \ {0})
    PROVE  \E G : SortTurns(lits, G)
<1> DEFINE n == SortTurnsOf(lits)
           B == SortStates
           turn == [k \in 1..n |-> [q \in B |-> SortStep(q)]]
           it == CHOOSE g : g = [t \in SUBSET (1..n) |-> IF t = {} THEN SortBase(lits)
                                        ELSE SortStep(g[t \ {Max(t)}])]
<1>1. n \in Nat /\ SortBase(lits) \in B
  <2>1. Len(lits) \in Nat
    OBVIOUS
  <2>2. Len(lits) * (Len(lits) + 1) \in Nat
    BY <2>1
  <2> QED BY <2>2 DEF SortTurnsOf, SortStates, SortBase
<1>2. turn \in Turns(n, B)
  <2> SUFFICES ASSUME NEW k \in 1..n, NEW q \in B PROVE SortStep(q) \in B
    BY DEF Turns
  <2> QED BY SortStepTyped
<1>3. Sorted(lits) = it[1..n]
  <2>1. Sorted(lits) = FoldLeft(LAMBDA t, k : SortStep(t), SortBase(lits), [k \in 1..n |-> k])
    BY DEF Sorted, SortTurnsOf, SortBase
  <2>2. DOMAIN [k \in 1..n |-> k] = 1..n
    OBVIOUS
  <2>3. SortStep(SortBase(lits)) \in SortStates
    BY <1>1, SortStepTyped
  <2> HIDE DEF n
  <2> QED BY <1>1, <2>1, <2>2, Zenon DEF FoldLeft, MapThenFoldSet
<1> HIDE DEF n, B
<1>4. 1..n \subseteq Nat /\ IsFiniteSet(1..n)
  BY <1>1, FS_Interval
<1>5. \A t \in SUBSET (1..n) : t # {} => Max(t) \in 1..n
  BY <1>4, FS_Subset, MaxUpTo
<1>6. it = [t \in SUBSET (1..n) |-> IF t = {} THEN SortBase(lits)
                                  ELSE SortStep(it[t \ {Max(t)}])]
  <2>1. PICK g : IsLoop(g, n, B, SortBase(lits), turn)
    <3> HIDE DEF turn
    <3> QED BY <1>1, <1>2, LoopExists
  <2>2. g = [t \in SUBSET (1..n) |-> IF t = {} THEN SortBase(lits)
                                    ELSE SortStep(g[t \ {Max(t)}])]
    BY <1>5, <2>1 DEF IsLoop
  <2> QED BY <2>2
<1> HIDE DEF it
<1>7. Iterates(it, n, B, SortBase(lits), turn)
  BY <1>5, <1>6 DEF Iterates
<1>8. PICK G : Values(G, n, B, SortBase(lits), turn) /\ G[n] = it[1..n]
  <2> HIDE DEF turn
  <2> QED BY <1>1, <1>2, <1>7, LoopValues
<1>9. G \in [0..n -> B] /\ G[0] = SortBase(lits)
  BY <1>8 DEF Values
<1>10. \A k \in 1..n : G[k] = SortStep(G[k - 1])
  <2> TAKE k \in 1..n
  <2>1. k - 1 \in 0..n
    BY <1>1
  <2>2. G[k - 1] \in B
    BY <1>9, <2>1
  <2>3. G[k] = turn[k][G[k - 1]]
    BY <1>8 DEF Values
  <2> QED BY <1>1, <2>2, <2>3
<1> HIDE DEF turn
<1>11. SortTurns(lits, G)
  BY <1>3, <1>8, <1>9, <1>10 DEF n, B, SortTurns
<1> QED BY <1>11

LEMMA SortedTyped ==
    ASSUME NEW lits \in Seq(Int \ {0})
    PROVE  Sorted(lits) \in SortStates
<1>1. PICK G : SortTurns(lits, G)
  BY SortLoop
<1>2. SortTurnsOf(lits) \in Nat
  <2>1. Len(lits) \in Nat
    OBVIOUS
  <2>2. Len(lits) * (Len(lits) + 1) \in Nat
    BY <2>1
  <2> QED BY <2>2 DEF SortTurnsOf
<1>3. SortTurnsOf(lits) \in 0..SortTurnsOf(lits)
  BY <1>2
<1> QED BY <1>1, <1>3 DEF SortTurns

(* The fields of MaxSatInstance. *)
MsiSet == [numClauses : Nat, hardClauses : BOOLEAN,
           neg : [1..NumVars -> Nat], pos : [1..NumVars -> Nat],
           s : [Sizes -> Nat], h : [Sizes -> Nat], hNum : Nat, sNum : Int]

LEMMA Bumped ==
    ASSUME NEW A, NEW f \in [A -> Nat], NEW x
    PROVE  Bump(f, x) \in [A -> Nat]
  BY DEF Bump

(* What only counts literals leaves the rest as it is. *)
Counters(m) == {t \in MsiSet : t = [m EXCEPT !.neg = t.neg, !.pos = t.pos]}

CountTurn(t, l) == IF l < 0 THEN [t EXCEPT !.neg = Bump(@, 0 - l)]
                            ELSE [t EXCEPT !.pos = Bump(@, l)]

LEMMA CountersOn ==
    ASSUME NEW m \in MsiSet, NEW t \in Counters(m), NEW l
    PROVE  CountTurn(t, l) \in Counters(m)
<1>1. t \in MsiSet /\ t.neg \in [1..NumVars -> Nat] /\ t.pos \in [1..NumVars -> Nat]
      /\ t = [m EXCEPT !.neg = t.neg, !.pos = t.pos]
  BY DEF Counters, MsiSet
<1>2. ASSUME NEW a \in [1..NumVars -> Nat], NEW b \in [1..NumVars -> Nat]
      PROVE  /\ [t EXCEPT !.neg = a] \in Counters(m)
             /\ [t EXCEPT !.pos = b] \in Counters(m)
  <2>1. [t EXCEPT !.neg = a] \in MsiSet /\ [t EXCEPT !.pos = b] \in MsiSet
    BY <1>1 DEF MsiSet
  <2>2. [t EXCEPT !.neg = a].neg = a /\ [t EXCEPT !.neg = a].pos = t.pos
        /\ [t EXCEPT !.pos = b].neg = t.neg /\ [t EXCEPT !.pos = b].pos = b
    BY <1>1 DEF MsiSet
  <2>3. /\ [t EXCEPT !.neg = a] = [m EXCEPT !.neg = a, !.pos = t.pos]
        /\ [t EXCEPT !.pos = b] = [m EXCEPT !.neg = t.neg, !.pos = b]
    BY <1>1 DEF MsiSet
  <2> QED BY <2>1, <2>2, <2>3 DEF Counters
<1>3. Bump(t.neg, 0 - l) \in [1..NumVars -> Nat] /\ Bump(t.pos, l) \in [1..NumVars -> Nat]
  BY <1>1, Bumped
<1> QED BY <1>2, <1>3 DEF CountTurn

(* The counters after the first k literals. *)
CountLitsTurns(m, lits, G) ==
    /\ G \in [0..Len(lits) -> Counters(m)]
    /\ G[0] = m
    /\ \A k \in 1..Len(lits) : G[k] = CountTurn(G[k - 1], lits[k])
    /\ CountLits(m, lits) = G[Len(lits)]

LEMMA CountLitsLoop ==
    ASSUME NEW m \in MsiSet, NEW lits \in Seq(Int)
    PROVE  \E G : CountLitsTurns(m, lits, G)
<1> DEFINE n == Len(lits)
           B == Counters(m)
           turn == [k \in 1..n |-> [q \in B |-> CountTurn(q, lits[k])]]
           it == CHOOSE g : g = [t \in SUBSET (1..n) |-> IF t = {} THEN m
                                        ELSE CountTurn(g[t \ {Max(t)}], lits[Max(t)])]
<1>1. n \in Nat /\ m \in B /\ DOMAIN lits = 1..n
  <2>1. m \in Counters(m)
    BY DEF Counters, MsiSet
  <2> QED BY <2>1
<1>2. turn \in Turns(n, B)
  <2> SUFFICES ASSUME NEW k \in 1..n, NEW q \in B PROVE CountTurn(q, lits[k]) \in B
    BY DEF Turns
  <2> QED BY CountersOn
<1>3. CountLits(m, lits) = it[1..n]
  BY <1>1, Zenon DEF CountLits, CountTurn, FoldLeft, MapThenFoldSet
<1> HIDE DEF n, B
<1>4. 1..n \subseteq Nat /\ IsFiniteSet(1..n)
  BY <1>1, FS_Interval
<1>5. \A t \in SUBSET (1..n) : t # {} => Max(t) \in 1..n
  BY <1>4, FS_Subset, MaxUpTo
<1>6. it = [t \in SUBSET (1..n) |-> IF t = {} THEN m
                                  ELSE CountTurn(it[t \ {Max(t)}], lits[Max(t)])]
  <2>1. PICK g : IsLoop(g, n, B, m, turn)
    <3> HIDE DEF turn
    <3> QED BY <1>1, <1>2, LoopExists
  <2>2. g = [t \in SUBSET (1..n) |-> IF t = {} THEN m
                                    ELSE CountTurn(g[t \ {Max(t)}], lits[Max(t)])]
    BY <1>5, <2>1 DEF IsLoop
  <2> QED BY <2>2
<1> HIDE DEF it
<1>7. Iterates(it, n, B, m, turn)
  BY <1>5, <1>6 DEF Iterates
<1>8. PICK G : Values(G, n, B, m, turn) /\ G[n] = it[1..n]
  <2> HIDE DEF turn
  <2> QED BY <1>1, <1>2, <1>7, LoopValues
<1>9. G \in [0..n -> B] /\ G[0] = m
  BY <1>8 DEF Values
<1>10. \A k \in 1..n : G[k] = CountTurn(G[k - 1], lits[k])
  <2> TAKE k \in 1..n
  <2>1. k - 1 \in 0..n
    BY <1>1
  <2>2. G[k - 1] \in B
    BY <1>9, <2>1
  <2>3. G[k] = turn[k][G[k - 1]]
    BY <1>8 DEF Values
  <2> QED BY <1>1, <2>2, <2>3
<1> HIDE DEF turn
<1>11. CountLitsTurns(m, lits, G)
  BY <1>3, <1>8, <1>9, <1>10 DEF n, B, CountLitsTurns
<1> QED BY <1>11

LEMMA CountLitsTyped ==
    ASSUME NEW m \in MsiSet, NEW lits \in Seq(Int)
    PROVE  CountLits(m, lits) \in Counters(m)
<1>1. PICK G : CountLitsTurns(m, lits, G)
  BY CountLitsLoop
<1>2. Len(lits) \in 0..Len(lits)
  OBVIOUS
<1> QED BY <1>1, <1>2 DEF CountLitsTurns

(* A clause is counted as a hard one or not. *)
LEMMA CountTyped ==
    ASSUME NEW m \in MsiSet, NEW lits \in Seq(Int), NEW t, t = Count(m, lits)
    PROVE  /\ t \in MsiSet /\ t.numClauses = m.numClauses
           /\ t.hNum = IF m.hardClauses THEN m.hNum + 1 ELSE m.hNum
<1> DEFINE n == Len(lits)
           u == IF m.hardClauses THEN [m EXCEPT !.hNum = @ + 1, !.h = Bump(@, n)]
                                 ELSE [m EXCEPT !.s = Bump(@, n)]
<1>1. m.hNum + 1 \in Nat /\ m.h \in [Sizes -> Nat] /\ m.s \in [Sizes -> Nat]
  BY DEF MsiSet
<1>2. Bump(m.h, n) \in [Sizes -> Nat] /\ Bump(m.s, n) \in [Sizes -> Nat]
  BY <1>1, Bumped
<1>3. /\ u \in MsiSet /\ u.numClauses = m.numClauses
      /\ u.hNum = IF m.hardClauses THEN m.hNum + 1 ELSE m.hNum
  BY <1>1, <1>2 DEF MsiSet
<1>4. t = CountLits(u, lits)
  BY DEF Count
<1> HIDE DEF u
<1>5. t \in Counters(u)
  BY <1>3, <1>4, CountLitsTyped
<1>6. t \in MsiSet /\ t = [u EXCEPT !.neg = t.neg, !.pos = t.pos]
  BY <1>5 DEF Counters
<1>7. t.numClauses = u.numClauses /\ t.hNum = u.hNum
  BY <1>3, <1>6 DEF MsiSet
<1> QED BY <1>3, <1>6, <1>7

(* What is read before a number is expected where there is none is no 0. *)
LEMMA NonZero ==
    ASSUME NEW s, Lined(s)
    PROVE  Literals(s).lits \in Seq(Int \ {0})
<1> DEFINE S == {t \in Tokens : Stops(t)}
           I == Places(s, Len(s), S)
           stop == SelectInSeq(s, Stops)
           upTo == IF stop = 0 THEN s ELSE SubSeq(s, 1, stop - 1)
<1>1. s \in Seq(Tokens) /\ Len(s) \in Nat /\ \A i \in 1..Len(s) : s[i] \in Tokens
  BY DEF Lined
<1>2. {i \in 1..Len(s) : Stops(s[i])} = I
  BY <1>1 DEF Places
<1>3. stop = IF I # {} THEN Min(I) ELSE 0
  <2> HIDE DEF I
  <2> QED BY <1>2 DEF SelectInSeq
<1>4. Stops(Num(0))
  BY DEF Stops
<1>5. upTo \in Seq(Tokens) /\ \A i \in 1..Len(upTo) : ~Stops(upTo[i])
  <2>1. CASE I = {}
    <3>1. upTo = s
      BY <1>3, <2>1
    <3>2. \A i \in 1..Len(s) : ~Stops(s[i])
      BY <1>2, <2>1
    <3> HIDE DEF upTo
    <3> QED BY <1>1, <3>1, <3>2
  <2>2. CASE I # {}
    <3>1. I \subseteq Nat /\ I \subseteq 1..Len(s)
      BY <1>1 DEF Places
    <3> HIDE DEF I
    <3>2. PICK m \in I : \A x \in I : m <= x
      BY <2>2, <3>1, LeastNatural
    <3>3. Min(I) = m
      BY <3>1, <3>2, LeastIs
    <3>4. stop = m /\ m \in 1..Len(s) /\ m # 0
      BY <1>3, <2>2, <3>1, <3>3
    <3>5. upTo = SubSeq(s, 1, m - 1)
      BY <3>4
    <3> HIDE DEF stop, upTo
    <3>6. m - 1 \in Nat /\ m - 1 <= Len(s)
      BY <1>1, <3>4
    <3>7. /\ SubSeq(s, 1, m - 1) \in Seq(Tokens) /\ Len(SubSeq(s, 1, m - 1)) = m - 1
          /\ \A i \in 1..(m - 1) : SubSeq(s, 1, m - 1)[i] = s[i]
      BY <1>1, <3>6
    <3>8. \A i \in 1..(m - 1) : i \in 1..Len(s) /\ i \notin I
      BY <1>1, <3>1, <3>2, <3>4
    <3>9. \A i \in 1..(m - 1) : ~Stops(s[i])
      BY <1>2, <3>8
    <3> QED BY <3>5, <3>7, <3>9
  <2> QED BY <2>1, <2>2
<1>6. Literals(s).lits = Numbers(upTo)
  BY DEF Literals
<1> HIDE DEF upTo, stop
<1>7. \A i \in 1..Len(upTo) : upTo[i] # Num(0)
  BY <1>4, <1>5
<1> QED BY <1>5, <1>6, <1>7, NumbersNonZero

(* The allocator, whether its blocks are kept or not. *)
HeapSet == [heaps : Seq(HeapRecords), last : Nat, lastSize : Nat, blocks : Seq(BlockRecords)]

Sums(h) ==
    \A j \in DOMAIN h.heaps : h.heaps[j].free + h.heaps[j].bytesFree = h.heaps[j].bytes

Bare(h) == [h EXCEPT !.blocks = <<>>]

LEMMA GoodHeapIs ==
    ASSUME NEW h \in GoodHeaps
    PROVE  h \in HeapSet /\ Sums(h) /\ WellFormed(h) /\ BlocksKept(h)
<1>1. WellFormed(h)
  BY DEF GoodHeaps
<1> QED BY <1>1, KeptIfWellFormed DEF WellFormed, HeapSet, Sums

LEMMA NoHeapIsGood ==
    NoHeap \in GoodHeaps
<1>1. NoHeap.heaps = <<>> /\ NoHeap.blocks = <<>> /\ NoHeap \in HeapSet
  BY DEF NoHeap, HeapSet
<1>2. DOMAIN NoHeap.heaps = {} /\ DOMAIN NoHeap.blocks = {}
  BY <1>1
<1>3. WellFormed(NoHeap)
  BY <1>1, <1>2, Zenon DEF WellFormed, HeapSet, Within, InOrder
<1> QED BY <1>1, <1>3 DEF GoodHeaps, HeapSet

LEMMA BareIsGood ==
    ASSUME NEW h \in HeapSet, Sums(h), NEW g, g = Bare(h)
    PROVE  g \in GoodHeaps /\ g.heaps = h.heaps
<1>1. g \in HeapSet /\ g.heaps = h.heaps /\ g.blocks = <<>>
  <2>1. <<>> \in Seq(BlockRecords)
    OBVIOUS
  <2> DEFINE none == <<>>
  <2>2. g = [h EXCEPT !.blocks = none] /\ none \in Seq(BlockRecords)
    BY <2>1 DEF Bare
  <2> HIDE DEF none
  <2>3. g \in HeapSet /\ g.heaps = h.heaps /\ g.blocks = none
    BY <2>2 DEF HeapSet
  <2> QED BY <2>3 DEF none
<1>2. DOMAIN g.blocks = {}
  BY <1>1
<1>3. Within(g) /\ InOrder(g)
  BY <1>2 DEF Within, InOrder
<1>4. WellFormed(g)
  BY <1>1, <1>3 DEF WellFormed, HeapSet, Sums
<1> QED BY <1>1, <1>4 DEF GoodHeaps, HeapSet

(* A request finds what is free and what is taken as one finds it that    *)
(* nobody holds a block of.                                                *)
LEMMA AllocatedSums ==
    ASSUME NEW h \in HeapSet, Sums(h), NEW size \in Nat
    PROVE  AllocateRAM(h, size) \in HeapSet /\ Sums(AllocateRAM(h, size))
<1> DEFINE g == Bare(h)
           n == Padded(size)
           j == Serving(h, n)
           x == Heaps(h, n)[j]
           b == [heap |-> j, from |-> x.free, size |-> size]
           hs == [Heaps(h, n) EXCEPT ![j] = Taken(x, n)]
<1>1. g \in GoodHeaps /\ g.heaps = h.heaps
  BY BareIsGood
<1>2. g.blocks = <<>>
  BY DEF Bare, HeapSet
<1> HIDE DEF g
<1>3. WithRoom(g, n) = WithRoom(h, n)
  BY <1>1 DEF WithRoom
<1>4. Serving(g, n) = j /\ Heaps(g, n) = Heaps(h, n)
  BY <1>1, <1>3 DEF Serving, Heaps
<1>5. AllocateRAM(g, size) = [heaps |-> hs, last |-> j, lastSize |-> n,
                              blocks |-> Append(g.blocks, b)]
  BY <1>4 DEF AllocateRAM
<1>6. AllocateRAM(h, size) = [heaps |-> hs, last |-> j, lastSize |-> n,
                              blocks |-> Append(h.blocks, b)]
  BY DEF AllocateRAM
<1>7. AllocateRAM(g, size) \in HeapSet /\ Sums(AllocateRAM(g, size))
  BY <1>1, AllocatedIs, GoodHeapIs
<1> HIDE DEF n, j, hs, b
<1>8. hs \in Seq(HeapRecords) /\ j \in Nat /\ n \in Nat /\ Append(g.blocks, b) \in Seq(BlockRecords)
  BY <1>5, <1>7 DEF HeapSet
<1>9. b \in BlockRecords
  <2>1. Append(<<>>, b) \in Seq(BlockRecords)
    BY <1>2, <1>8
  <2>2. Append(<<>>, b) = <<b>>
    OBVIOUS
  <2> HIDE DEF b
  <2>3. <<b>> \in Seq(BlockRecords) /\ 1 \in 1..Len(<<b>>)
    BY <2>1, <2>2
  <2>4. <<b>>[1] \in BlockRecords
    BY <2>3
  <2> QED BY <2>4
<1>10. Append(h.blocks, b) \in Seq(BlockRecords)
  BY <1>9 DEF HeapSet
<1>11. AllocateRAM(h, size) \in HeapSet
  BY <1>6, <1>8, <1>10 DEF HeapSet
<1>12. AllocateRAM(h, size).heaps = hs /\ AllocateRAM(g, size).heaps = hs
  BY <1>5, <1>6
<1> QED BY <1>7, <1>11, <1>12 DEF Sums

(* Giving back the end of a request for more. *)
LEMMA AdjustedSums ==
    ASSUME NEW h \in GoodHeaps, LastIsLast(h), NEW size \in Nat, size <= LastSize(h)
    PROVE  /\ Trimmed(AdjustLastRAM(h, size), size) \in GoodHeaps
           /\ AdjustLastRAM(h, size) \in HeapSet /\ Sums(AdjustLastRAM(h, size))
<1> DEFINE g == AdjustLastRAM(h, size)
           w == Trimmed(g, size)
<1>1. WellFormed(w)
  BY Adjusted DEF GoodHeaps, LastSize
<1>2. h \in HeapSet
  BY GoodHeapIs
<1>3. g.last = h.last /\ g.lastSize = h.lastSize /\ g.blocks = h.blocks
      /\ g = [heaps |-> g.heaps, last |-> h.last, lastSize |-> h.lastSize, blocks |-> h.blocks]
  BY <1>2, SMTT(20) DEF HeapSet, AdjustLastRAM
<1> HIDE DEF g
<1>4. w.heaps = g.heaps
  BY <1>3 DEF Trimmed
<1> HIDE DEF w
<1>5. w \in HeapSet /\ Sums(w)
  BY <1>1 DEF WellFormed, HeapSet, Sums
<1>6. g \in HeapSet
  BY <1>2, <1>3, <1>4, <1>5 DEF HeapSet
<1>7. Sums(g)
  BY <1>4, <1>5 DEF Sums
<1>8. w \in GoodHeaps
  BY <1>1, <1>5 DEF GoodHeaps, HeapSet
<1> QED BY <1>6, <1>7, <1>8 DEF w, g

-----------------------------------------------------------------------------
(* The states the program gets to. *)
CnfSet == [numClause : Nat, at : Seq(Nat \X Nat), len : Seq(Nat), weight : Seq(Nat),
           numLit : Nat, chunks : Seq(Seq(Int)), dummy : Nat]

Pcs == {"count", "call", "readcnf", "create", "search"} \cup Terminal

Types ==
    /\ file \in Files
    /\ pc \in Pcs
    /\ call \in 0..2 /\ (pc \in {"count", "call"} => call <= 1)
    /\ bad \in BOOLEAN
    /\ read \in 0..Len(Clauses(file))
    /\ msi \in MsiSet /\ msi.numClauses <= Len(Clauses(file)) /\ msi.hNum <= msi.numClauses
    /\ cnf \in CnfSet /\ Len(cnf.at) = Len(cnf.len)
    /\ heap \in HeapSet /\ Sums(heap)

(* The constructor counts hard clauses among those it has read. *)
Counting ==
    pc = "count" => Lined(rest) /\ read <= msi.numClauses /\ msi.hNum <= read

(* A literal is in a chunk, and the blocks of the heap are kept. *)
Holding == cnf.numLit > 0 => cnf.chunks # <<>> /\ heap \in GoodHeaps

Chunked ==
    \/ \A c \in 1..Len(cnf.chunks) : Len(cnf.chunks[c]) <= ChunkLits
    \/ \E i \in 1..Len(file.lines) : Len(file.lines[i].lits) > ChunkLits

(* ReadCNF is at the end of a line, and the last request was for its chunk. *)
InFile ==
    pc = "readcnf" =>
        /\ Kept1(cnf.chunks, heap)
        /\ LastIsLast(heap)
        /\ Somewhere(Given(file), rest, read)

(* What it has read so far. *)
Held(c, f, m, weighted) ==
    /\ Len(c.len) = m
    /\ \A j \in 1..m : Exact(f, j) => Stored(c.chunks, c.at[j], c.len[j], Clauses(f)[j].lits)
    /\ weighted => Len(c.weight) = m /\ \A j \in 1..m : c.weight[j] = Clauses(f)[j].weight

HasRead ==
    pc \in {"readcnf", "create", "search"} =>
        /\ HeaderFound
        /\ cnf.numClause = Len(Clauses(file))
        /\ pc # "readcnf" => read = cnf.numClause
        /\ Held(cnf, Given(file), read, Weighted(file))

IInv == Types /\ Counting /\ Holding /\ Chunked /\ InFile /\ HasRead

LEMMA FileIs ==
    ASSUME NEW f \in Files
    PROVE  /\ f.format \in Formats /\ f.lines \in Seq(Lines)
           /\ Clauses(f) \in Seq(Lines) /\ Len(Clauses(f)) \in Nat
           /\ \A i \in 1..Len(f.lines) :
                 f.lines[i].kind \in {"hard", "soft"} => f.format = "pmcnf"
<1>1. f.lines \in Seq(Lines) /\ f.format \in Formats
      /\ \A i \in DOMAIN f.lines : f.lines[i].kind \in {"hard", "soft"} => f.format = "pmcnf"
  BY FilesAssumption
<1>2. DOMAIN f.lines = 1..Len(f.lines)
  BY <1>1
<1>3. Clauses(f) \in Seq(Lines)
  BY <1>1, PassedAre
<1> QED BY <1>1, <1>2, <1>3

(* An invariant that the properties follow from. *)
LEMMA InitIInv ==
    Init => IInv
<1> SUFFICES ASSUME Init PROVE IInv
  OBVIOUS
<1> DEFINE n == Len(Clauses(file))
<1>1. file \in Files /\ file.lines \in Seq(Lines) /\ n \in Nat
  BY FileIs DEF Init
<1>2. pc = "count" /\ call = 0 /\ bad = FALSE /\ read = 0 /\ heap = NoHeap
      /\ rest = <<NL>> \o Text(file)
  BY DEF Init
<1>3. msi = [numClauses |-> n, hardClauses |-> file.format = "pmcnf",
             neg |-> NoneYet, pos |-> NoneYet, s |-> NoSizes, h |-> NoSizes,
             hNum |-> 0, sNum |-> 0]
  BY DEF Init
<1>4. cnf = [numClause |-> 0, at |-> <<>>, len |-> <<>>, weight |-> <<>>,
             numLit |-> 0, chunks |-> <<>>, dummy |-> 0]
  BY DEF Init
<1> HIDE DEF n
<1>5. msi \in MsiSet /\ msi.numClauses = n /\ msi.hNum = 0
  <2>1. NoneYet \in [1..NumVars -> Nat] /\ NoSizes \in [Sizes -> Nat]
    BY DEF NoneYet, NoSizes
  <2> QED BY <1>1, <1>3, <2>1 DEF MsiSet
<1>6. cnf \in CnfSet /\ Len(cnf.at) = 0 /\ Len(cnf.len) = 0 /\ cnf.numLit = 0
      /\ Len(cnf.chunks) = 0
  <2>1. <<>> \in Seq(Nat \X Nat) /\ <<>> \in Seq(Nat) /\ <<>> \in Seq(Seq(Int)) /\ Len(<<>>) = 0
    OBVIOUS
  <2>2. cnf.at = <<>> /\ cnf.len = <<>> /\ cnf.weight = <<>> /\ cnf.numLit = 0 /\ cnf.chunks = <<>>
    BY <1>4
  <2>3. cnf \in CnfSet
    <3> DEFINE none == <<>>
    <3>1. cnf = [numClause |-> 0, at |-> none, len |-> none, weight |-> none,
                 numLit |-> 0, chunks |-> none, dummy |-> 0]
      BY <1>4
    <3>2. none \in Seq(Nat \X Nat) /\ none \in Seq(Nat) /\ none \in Seq(Seq(Int))
      BY <2>1
    <3> HIDE DEF none
    <3> QED BY <3>1, <3>2 DEF CnfSet
  <2> QED BY <2>1, <2>2, <2>3
<1>7. heap \in HeapSet /\ Sums(heap)
  BY <1>2, NoHeapIsGood, GoodHeapIs
<1>8. Types
  <2>1. pc \in Pcs /\ call \in 0..2 /\ call <= 1 /\ bad \in BOOLEAN /\ read \in 0..n
    <3>1. bad \in BOOLEAN
      BY <1>2
    <3>2. pc \in Pcs
      BY <1>2 DEF Pcs
    <3>3. call \in 0..2 /\ call <= 1 /\ read \in 0..n
      BY <1>1, <1>2
    <3> QED BY <3>1, <3>2, <3>3
  <2>2. msi \in MsiSet /\ msi.numClauses <= n /\ msi.hNum <= msi.numClauses
    BY <1>1, <1>5
  <2>3. cnf \in CnfSet /\ Len(cnf.at) = Len(cnf.len)
    BY <1>6
  <2> QED BY <1>1, <1>7, <2>1, <2>2, <2>3 DEF Types, n
<1>9. Counting
  BY <1>1, <1>2, <1>5, LinedText DEF Counting, n
<1>10. Holding
  BY <1>6 DEF Holding
<1>11. Chunked
  <2>1. 1..Len(cnf.chunks) = {}
    BY <1>6
  <2> QED BY <2>1 DEF Chunked
<1>12. InFile /\ HasRead
  BY <1>2 DEF InFile, HasRead
<1> QED BY <1>8, <1>9, <1>10, <1>11, <1>12 DEF IInv

(* A turn of the constructor's loop. *)
LEMMA ReadClauseKeeps ==
    ASSUME IInv, ReadClause
    PROVE  IInv'
<1> DEFINE next    == IF bad THEN rest ELSE Bite(rest)
           section == file.format = "pmcnf" /\ ~bad /\ StartsWith(next, "p")
           strbuf  == Head(next).kind
           hard    == msi.hardClauses /\ ~(section /\ strbuf = "soft")
           m       == [msi EXCEPT !.hardClauses = hard]
           from    == IF section THEN AfterLine(next) ELSE next
           r       == Literals(from)
           lits    == IF bad THEN <<>> ELSE r.lits
           t       == Sorted(lits)
           n       == Len(Clauses(file))
<1>1. /\ file \in Files /\ pc = "count" /\ call \in 0..2 /\ call <= 1 /\ bad \in BOOLEAN
      /\ read \in 0..n /\ n \in Nat /\ msi \in MsiSet /\ msi.numClauses <= n
      /\ msi.hNum <= msi.numClauses /\ read < msi.numClauses
      /\ Lined(rest) /\ read <= msi.numClauses /\ msi.hNum <= read
  BY FileIs DEF IInv, Types, Counting, ReadClause
<1>2. /\ rest' = IF bad THEN rest ELSE r.rest
      /\ bad' = (bad \/ ~r.ok)
      /\ IF t.tautology
         THEN msi' = [m EXCEPT !.numClauses = @ - 1] /\ read' = read
         ELSE msi' = Count(m, t.lits) /\ read' = read + 1
      /\ pc' \in {"count", "crashed"}
      /\ UNCHANGED <<file, call, cnf, heap>>
  BY Zenon DEF ReadClause
<1>3. Lined(next)
  <2>1. Lined(Bite(rest))
    BY <1>1, LinedBite
  <2> QED BY <1>1, <2>1
<1>4. Lined(from)
  <2> HIDE DEF next
  <2>1. section => next # <<>>
    BY DEF StartsWith
  <2>2. next # <<>> => Lined(AfterLine(next))
    BY <1>3, LinedAfterLine
  <2> QED BY <1>3, <2>1, <2>2
<1>5. msi.hardClauses \in BOOLEAN /\ msi.numClauses \in Nat /\ msi.hNum \in Nat
  BY <1>1 DEF MsiSet
<1> HIDE DEF next, section, strbuf
<1>6. hard \in BOOLEAN
  OBVIOUS
<1> HIDE DEF hard, from
<1>7. m \in MsiSet /\ m.numClauses = msi.numClauses /\ m.hNum = msi.hNum
  BY <1>1, <1>6 DEF MsiSet
<1>8. r.lits \in Seq(Int \ {0})
  BY <1>4, NonZero
<1>9. r.ok \in BOOLEAN
  BY <1>4, LinedLiterals
<1>10. Lined(r.rest)
  BY <1>4, LinedLiterals
<1> HIDE DEF r, m
<1>11. lits \in Seq(Int \ {0})
  <2>1. <<>> \in Seq(Int \ {0})
    OBVIOUS
  <2> QED BY <1>8, <2>1
<1> HIDE DEF lits
<1>12. t.lits \in Seq(Int) /\ t.tautology \in BOOLEAN
  <2>1. t \in SortStates
    BY <1>11, SortedTyped
  <2> HIDE DEF t
  <2>2. t.lits \in Seq(Int \ {0}) /\ t.tautology \in BOOLEAN
    BY <2>1 DEF SortStates
  <2>3. \A q \in Seq(Int \ {0}) : q \in Seq(Int)
    OBVIOUS
  <2> QED BY <2>2, <2>3
<1> HIDE DEF t
<1>13. Lined(rest')
  BY <1>1, <1>2, <1>10
<1>14. bad' \in BOOLEAN
  BY <1>2
<1>15. /\ msi' \in MsiSet /\ msi'.numClauses <= n /\ read' \in 0..n
       /\ read' <= msi'.numClauses /\ msi'.hNum <= read'
       /\ msi'.hNum <= msi'.numClauses
  <2>1. CASE t.tautology
    <3>1. msi' = [m EXCEPT !.numClauses = @ - 1] /\ read' = read
      BY <1>2, <2>1
    <3>2. msi.numClauses - 1 \in Nat
      BY <1>1, <1>5
    <3>3. msi' \in MsiSet /\ msi'.numClauses = msi.numClauses - 1 /\ msi'.hNum = msi.hNum
      BY <1>7, <3>1, <3>2 DEF MsiSet
    <3> QED BY <1>1, <1>5, <3>1, <3>3
  <2>2. CASE ~t.tautology
    <3>1. msi' = Count(m, t.lits) /\ read' = read + 1
      BY <1>2, <2>2
    <3>2. msi' \in MsiSet /\ msi'.numClauses = m.numClauses
          /\ msi'.hNum = IF m.hardClauses THEN m.hNum + 1 ELSE m.hNum
      BY <1>7, <1>12, <3>1, CountTyped
    <3> QED BY <1>1, <1>5, <1>7, <3>1, <3>2
  <2> QED BY <2>1, <2>2
<1>16. Types'
  <2>1. file' \in Files /\ call' \in 0..2 /\ call' <= 1 /\ n' = n
    BY <1>1, <1>2
  <2>2. pc' \in Pcs
    BY <1>2 DEF Pcs, Terminal
  <2>3. cnf' \in CnfSet /\ Len(cnf'.at) = Len(cnf'.len) /\ heap' \in HeapSet /\ Sums(heap')
    BY <1>2 DEF IInv, Types
  <2> QED BY <1>14, <1>15, <2>1, <2>2, <2>3 DEF Types
<1>17. Counting'
  BY <1>13, <1>15 DEF Counting
<1>18. Holding' /\ Chunked'
  BY <1>2 DEF IInv, Holding, Chunked
<1>19. InFile' /\ HasRead'
  BY <1>2 DEF InFile, HasRead
<1> QED BY <1>16, <1>17, <1>18, <1>19 DEF IInv

LEMMA CountedKeeps ==
    ASSUME IInv, Counted
    PROVE  IInv'
<1>1. /\ pc = "count" /\ pc' = "call"
      /\ msi' = [msi EXCEPT !.sNum = msi.numClauses - msi.hNum]
      /\ UNCHANGED <<file, call, rest, bad, read, cnf, heap>>
  BY DEF Counted
<1>2. msi \in MsiSet /\ msi.numClauses <= Len(Clauses(file)) /\ msi.hNum <= msi.numClauses
  BY DEF IInv, Types
<1>3. msi' \in MsiSet /\ msi'.numClauses = msi.numClauses /\ msi'.hNum = msi.hNum
  <2>1. msi.numClauses - msi.hNum \in Int
    BY <1>2 DEF MsiSet
  <2> QED BY <1>1, <1>2, <2>1 DEF MsiSet
<1>4. Types'
  <2>1. pc' \in Pcs
    BY <1>1 DEF Pcs
  <2>2. /\ file' \in Files /\ call' \in 0..2 /\ call' <= 1
        /\ read' \in 0..Len(Clauses(file'))
        /\ cnf' \in CnfSet /\ Len(cnf'.at) = Len(cnf'.len) /\ heap' \in HeapSet /\ Sums(heap')
    BY <1>1 DEF IInv, Types
  <2>3. bad' \in BOOLEAN
    BY <1>1 DEF IInv, Types
  <2>4. msi'.numClauses <= Len(Clauses(file')) /\ msi'.hNum <= msi'.numClauses
    BY <1>1, <1>2, <1>3
  <2> QED BY <1>3, <2>1, <2>2, <2>3, <2>4 DEF Types
<1>5. Counting' /\ InFile' /\ HasRead'
  BY <1>1 DEF Counting, InFile, HasRead
<1>6. Holding' /\ Chunked'
  BY <1>1 DEF IInv, Holding, Chunked
<1> QED BY <1>4, <1>5, <1>6 DEF IInv

(* Before its first line ReadCNF is at the beginning of the text. *)
LEMMA AtFirst ==
    ASSUME NEW f, f.lines \in Seq(Lines)
    PROVE  Somewhere(f, Text(f), 0)
<1>1. 0 \in 0..Len(f.lines) /\ <<>> \in Leads
  BY DEF Leads
<1>2. Tails(f)[0] \in Seq(Tokens) /\ <<>> \o Tails(f)[0] = Tails(f)[0]
  BY <1>1, TailsText
<1>3. Text(f) = <<>> \o Tails(f)[0]
  BY <1>2, TailsAre
<1>4. Len(Passed(f)[0]) = 0
  BY PassedAre
<1>5. At(f, Text(f), 0, 0, <<>>)
  <2>1. ~(0 > 0)
    OBVIOUS
  <2> QED BY <1>1, <1>3, <1>4, <2>1, Zenon DEF At
<1> QED BY <1>5 DEF Somewhere

LEMMA StartCallKeeps ==
    ASSUME IInv, StartCall
    PROVE  IInv'
<1> DEFINE n     == Len(Clauses(file))
           first == AllocateRAM(AllocateRAM(AllocateRAM(NoHeap, NamesSize), 4 * n), 8 * n)
           g     == Given(file)
<1>1. /\ file \in Files /\ call \in 0..2 /\ call <= 1 /\ bad \in BOOLEAN
      /\ n \in Nat /\ msi \in MsiSet /\ msi.numClauses <= n /\ msi.hNum <= msi.numClauses
      /\ cnf \in CnfSet
  BY FileIs DEF IInv, Types, StartCall
<1>2. /\ HeaderFound /\ call' = call + 1 /\ rest' = Text(g) /\ read' = 0
      /\ cnf' = [cnf EXCEPT !.numClause = n, !.at = <<>>, !.len = <<>>,
                            !.weight = <<>>, !.numLit = 0, !.chunks = <<>>, !.dummy = 0]
      /\ heap' = IF Weighted(file) THEN AllocateRAM(first, 8 * n) ELSE first
      /\ pc' = IF OutOfHeaps(heap') THEN "exited" ELSE "readcnf"
      /\ UNCHANGED <<file, bad, msi>>
  BY DEF StartCall, Goto
<1> HIDE DEF n
<1>3. NamesSize \in Nat /\ 4 * n \in Nat /\ 8 * n \in Nat
  BY <1>1 DEF NamesSize
<1>4. first \in GoodHeaps /\ LastIsLast(first)
  <2> DEFINE a == AllocateRAM(NoHeap, NamesSize)
             b == AllocateRAM(a, 4 * n)
  <2>1. a \in GoodHeaps
    BY <1>3, NoHeapIsGood, AllocatedIs
  <2> HIDE DEF a
  <2>2. b \in GoodHeaps
    BY <1>3, <2>1, AllocatedIs
  <2> HIDE DEF b
  <2>3. AllocateRAM(b, 8 * n) \in GoodHeaps /\ LastIsLast(AllocateRAM(b, 8 * n))
    BY <1>3, <2>2, AllocatedIs
  <2> QED BY <2>3 DEF a, b
<1> HIDE DEF first
<1>5. heap' \in GoodHeaps /\ LastIsLast(heap')
  <2>1. AllocateRAM(first, 8 * n) \in GoodHeaps /\ LastIsLast(AllocateRAM(first, 8 * n))
    BY <1>3, <1>4, AllocatedIs
  <2> QED BY <1>2, <1>4, <2>1
<1>6. /\ cnf' \in CnfSet /\ Len(cnf'.at) = 0 /\ Len(cnf'.len) = 0 /\ Len(cnf'.weight) = 0
      /\ cnf'.numClause = n /\ cnf'.numLit = 0 /\ cnf'.chunks = <<>>
  <2>1. <<>> \in Seq(Nat \X Nat) /\ <<>> \in Seq(Nat) /\ <<>> \in Seq(Seq(Int)) /\ Len(<<>>) = 0
    OBVIOUS
  <2> DEFINE none == <<>>
  <2>2. /\ cnf' = [cnf EXCEPT !.numClause = n, !.at = none, !.len = none,
                            !.weight = none, !.numLit = 0, !.chunks = none, !.dummy = 0]
        /\ none \in Seq(Nat \X Nat) /\ none \in Seq(Nat) /\ none \in Seq(Seq(Int))
        /\ Len(none) = 0
    BY <1>2, <2>1
  <2> HIDE DEF none
  <2>3. cnf' \in CnfSet /\ cnf'.at = none /\ cnf'.len = none /\ cnf'.weight = none
        /\ cnf'.numClause = n /\ cnf'.numLit = 0 /\ cnf'.chunks = none
    BY <1>1, <2>2 DEF CnfSet
  <2> QED BY <2>2, <2>3 DEF none
<1>7. Readable(g)
  BY <1>1, <1>2, GivenIs DEF HeaderFound, HasHeader
<1>8. Types'
  <2>1. pc' \in Pcs /\ pc' \notin {"count", "call"}
    BY <1>2 DEF Pcs, Terminal
  <2>2. call' \in 0..2 /\ read' \in 0..n
    BY <1>1, <1>2
  <2>3. heap' \in HeapSet /\ Sums(heap')
    BY <1>5, GoodHeapIs
  <2>4. Len(cnf'.at) = Len(cnf'.len)
    BY <1>6
  <2>5. bad' \in BOOLEAN
    BY <1>1, <1>2
  <2> QED BY <1>1, <1>2, <1>6, <2>1, <2>2, <2>3, <2>4, <2>5 DEF Types, n
<1>9. Counting'
  BY <1>2 DEF Counting
<1>10. Holding'
  BY <1>6 DEF Holding
<1>11. Chunked'
  <2>1. 1..Len(cnf'.chunks) = {}
    BY <1>6
  <2> QED BY <2>1 DEF Chunked
<1>12. InFile'
  <2>1. Kept1(cnf'.chunks, heap')
    <3>1. <<>> \in Seq(Seq(Int)) /\ Len(<<>>) = 0 /\ 1..0 = {}
      OBVIOUS
    <3> QED BY <1>5, <1>6, <3>1 DEF Kept1
  <2>2. Somewhere(g, rest', read')
    BY <1>2, <1>7, AtFirst DEF Readable
  <2>3. Given(file') = g
    BY <1>2
  <2> QED BY <1>5, <2>1, <2>2, <2>3 DEF InFile
<1>13. HasRead'
  <2>1. Held(cnf', g, 0, Weighted(file))
    <3>1. 1..0 = {}
      OBVIOUS
    <3> QED BY <1>6, <3>1 DEF Held
  <2>2. pc' \in {"exited", "readcnf"} /\ cnf'.numClause = Len(Clauses(file'))
        /\ read' = 0 /\ Given(file') = g /\ Weighted(file') = Weighted(file)
    BY <1>2, <1>6 DEF n
  <2>3. HeaderFound'
    BY <1>2 DEF HeaderFound
  <2> QED BY <2>1, <2>2, <2>3 DEF HasRead
<1> QED BY <1>8, <1>9, <1>10, <1>11, <1>12, <1>13 DEF IInv

LEMMA HeaderNotFoundKeeps ==
    ASSUME IInv, HeaderNotFound
    PROVE  IInv'
<1>1. /\ pc = "call" /\ pc' = "hung" /\ call' = call + 1
      /\ UNCHANGED <<file, rest, bad, read, msi, cnf, heap>>
  BY DEF HeaderNotFound
<1>2. Types'
  <2>1. pc' \in Pcs /\ pc' \notin {"count", "call"}
    BY <1>1 DEF Pcs, Terminal
  <2>2. call' \in 0..2
    BY <1>1 DEF IInv, Types
  <2>3. bad' \in BOOLEAN
    BY <1>1 DEF IInv, Types
  <2> QED BY <1>1, <2>1, <2>2, <2>3 DEF IInv, Types
<1>3. Counting' /\ InFile' /\ HasRead'
  BY <1>1 DEF Counting, InFile, HasRead
<1>4. Holding' /\ Chunked'
  BY <1>1 DEF IInv, Holding, Chunked
<1> QED BY <1>2, <1>3, <1>4 DEF IInv

(* What is left of the heap after the end of the last chunk is given back. *)
LEMMA EndReadKeeps ==
    ASSUME IInv, EndRead
    PROVE  IInv'
<1> DEFINE size == 4 * NextLit[2]
<1>1. /\ pc = "readcnf" /\ read = cnf.numClause /\ pc' = "create"
      /\ heap' = IF cnf.chunks = <<>> THEN AdjustLastRAM(heap, size)
                 ELSE Trimmed(AdjustLastRAM(heap, size), size)
      /\ UNCHANGED <<file, call, rest, bad, read, msi, cnf>>
  BY DEF EndRead
<1>2. Kept1(cnf.chunks, heap) /\ LastIsLast(heap) /\ cnf \in CnfSet
  BY <1>1 DEF IInv, InFile, Types
<1>3. heap \in GoodHeaps
  BY <1>2 DEF Kept1
<1>4. size \in Nat /\ size <= LastSize(heap)
  <2>1. CASE cnf.chunks = <<>>
    <3>1. size = 0
      BY <2>1 DEF NextLit
    <3>2. LastSize(heap) \in Nat
      <4>1. heap.blocks \in Seq(BlockRecords) /\ heap.blocks # <<>>
        BY <1>2, <1>3 DEF GoodHeaps, LastIsLast
      <4>2. Len(heap.blocks) \in 1..Len(heap.blocks)
        BY <4>1
      <4>3. heap.blocks[Len(heap.blocks)] \in BlockRecords
        BY <4>1, <4>2
      <4> QED BY <4>3 DEF LastSize, BlockRecords
    <3> HIDE DEF size
    <3> QED BY <3>1, <3>2
  <2>2. CASE cnf.chunks # <<>>
    <3> DEFINE c == cnf.chunks
               k == Len(c)
    <3>1. c \in Seq(Seq(Int)) /\ k \in Nat
      BY <1>2 DEF CnfSet
    <3>2. k \in 1..k /\ c[k] \in Seq(Int) /\ Last(c) = c[k]
      BY <2>2, <3>1 DEF Last
    <3>3. Len(c[k]) \in Nat /\ Len(c[k]) <= ChunkLits
      BY <1>2, <3>2 DEF Kept1
    <3>4. LastSize(heap) = 4 * ChunkLits
      BY <1>2, <2>2 DEF Kept1
    <3>5. size = 4 * Len(c[k])
      BY <2>2, <3>2 DEF NextLit
    <3> HIDE DEF size, c, k
    <3> QED BY <3>3, <3>4, <3>5, ChunkLitsAssumption
  <2> QED BY <2>1, <2>2
<1> HIDE DEF size
<1>5. /\ Trimmed(AdjustLastRAM(heap, size), size) \in GoodHeaps
      /\ AdjustLastRAM(heap, size) \in HeapSet /\ Sums(AdjustLastRAM(heap, size))
  BY <1>2, <1>3, <1>4, AdjustedSums
<1>6. heap' \in HeapSet /\ Sums(heap') /\ (cnf.chunks # <<>> => heap' \in GoodHeaps)
  <2> DEFINE w == Trimmed(AdjustLastRAM(heap, size), size)
             u == AdjustLastRAM(heap, size)
  <2>1. w \in GoodHeaps /\ w \in HeapSet /\ Sums(w) /\ u \in HeapSet /\ Sums(u)
    BY <1>5, GoodHeapIs
  <2>2. heap' = IF cnf.chunks = <<>> THEN u ELSE w
    BY <1>1
  <2> HIDE DEF w, u
  <2> QED BY <2>1, <2>2
<1>7. Types'
  <2>1. pc' \in Pcs /\ pc' \notin {"count", "call"}
    BY <1>1 DEF Pcs
  <2>2. bad' \in BOOLEAN
    BY <1>1 DEF IInv, Types
  <2> QED BY <1>1, <1>6, <2>1, <2>2 DEF IInv, Types
<1>8. Counting' /\ InFile'
  BY <1>1 DEF Counting, InFile
<1>9. Holding'
  BY <1>1, <1>6 DEF IInv, Holding
<1>10. Chunked'
  BY <1>1 DEF IInv, Chunked
<1>11. HasRead'
  BY <1>1 DEF IInv, HasRead, HeaderFound
<1> QED BY <1>7, <1>8, <1>9, <1>10, <1>11 DEF IInv

LEMMA CreateKeeps ==
    ASSUME IInv, Create
    PROVE  IInv'
<1> DEFINE a == 4 * cnf.numClause
           b == 4 * (NumVars + 1)
           u == AllocateRAM(heap, a)
           w == AllocateRAM(u, b)
<1>1. /\ pc = "create" /\ heap' = w /\ pc' = IF OutOfHeaps(heap') THEN "exited" ELSE "search"
      /\ UNCHANGED <<file, call, rest, bad, read, msi, cnf>>
  BY DEF Create, Goto
<1>2. a \in Nat /\ b \in Nat
  BY NumVarsAssumption DEF IInv, Types, CnfSet
<1>3. heap \in HeapSet /\ Sums(heap)
  BY DEF IInv, Types
<1> HIDE DEF a, b
<1>4. u \in HeapSet /\ Sums(u)
  BY <1>2, <1>3, AllocatedSums
<1>5. heap \in GoodHeaps => u \in GoodHeaps
  BY <1>2, AllocatedIs
<1> HIDE DEF u
<1>6. w \in HeapSet /\ Sums(w) /\ (u \in GoodHeaps => w \in GoodHeaps)
  BY <1>2, <1>4, AllocatedSums, AllocatedIs
<1> HIDE DEF w
<1>7. Types'
  <2>1. pc' \in Pcs /\ pc' \notin {"count", "call"}
    BY <1>1 DEF Pcs, Terminal
  <2>2. bad' \in BOOLEAN
    BY <1>1 DEF IInv, Types
  <2> QED BY <1>1, <1>6, <2>1, <2>2 DEF IInv, Types
<1>8. Counting' /\ InFile'
  BY <1>1 DEF Counting, InFile
<1>9. Holding'
  BY <1>1, <1>5, <1>6 DEF IInv, Holding
<1>10. Chunked'
  BY <1>1 DEF IInv, Chunked
<1>11. HasRead'
  BY <1>1 DEF IInv, HasRead, HeaderFound
<1> QED BY <1>7, <1>8, <1>9, <1>10, <1>11 DEF IInv

LEMMA SearchKeeps ==
    ASSUME IInv, Search
    PROVE  IInv'
<1>1. /\ pc = "search" /\ heap' = NoHeap /\ pc' = IF call < 2 THEN "call" ELSE "done"
      /\ UNCHANGED <<file, call, rest, bad, read, msi, cnf>>
  BY DEF Search
<1>2. heap' \in GoodHeaps /\ heap' \in HeapSet /\ Sums(heap')
  BY <1>1, NoHeapIsGood, GoodHeapIs
<1>3. Types'
  <2>1. pc' \in Pcs
    BY <1>1 DEF Pcs, Terminal
  <2>2. call' \in 0..2 /\ (pc' \in {"count", "call"} => call' <= 1)
    BY <1>1 DEF IInv, Types
  <2>3. bad' \in BOOLEAN
    BY <1>1 DEF IInv, Types
  <2> QED BY <1>1, <1>2, <2>1, <2>2, <2>3 DEF IInv, Types
<1>4. Counting' /\ InFile' /\ HasRead'
  BY <1>1 DEF Counting, InFile, HasRead
<1>5. Holding'
  BY <1>1, <1>2 DEF IInv, Holding
<1>6. Chunked'
  BY <1>1 DEF IInv, Chunked
<1> QED BY <1>3, <1>4, <1>5, <1>6 DEF IInv

LEMMA Longer ==
    ASSUME NEW A, NEW s \in Seq(A), NEW e \in A, NEW m \in Nat, Len(s) = m
    PROVE  /\ Append(s, e) \in Seq(A) /\ Len(Append(s, e)) = m + 1
           /\ \A j \in 1..m : Append(s, e)[j] = s[j]
           /\ Append(s, e)[m + 1] = e
  OBVIOUS

LEMMA LongerNat ==
    ASSUME NEW s \in Seq(Nat), NEW e \in Nat, NEW m \in Nat, Len(s) = m
    PROVE  /\ Append(s, e) \in Seq(Nat) /\ Len(Append(s, e)) = m + 1
           /\ \A j \in 1..m : Append(s, e)[j] = s[j]
           /\ Append(s, e)[m + 1] = e
  BY Longer

(* One more clause. *)
WithClause(c, t, w, weighted) ==
    [c EXCEPT !.dummy = w, !.chunks = t.chunks, !.at = Append(@, t.at),
              !.len = Append(@, t.len),
              !.weight = IF weighted THEN Append(@, w) ELSE @, !.numLit = @ + t.len]

HoldsMore(d, f, m, weighted) ==
    d \in CnfSet /\ Len(d.at) = Len(d.len) /\ Held(d, f, m, weighted)

LEMMA HeldMore ==
    ASSUME NEW c \in CnfSet, NEW f, NEW m \in Nat, NEW weighted \in BOOLEAN,
           Held(c, f, m, weighted), Len(c.at) = m,
           NEW t, t.chunks \in Seq(Seq(Int)), Grown(c.chunks, t.chunks),
           t.at \in Nat \X Nat, t.len \in Nat, NEW w \in Nat,
           Exact(f, m + 1) => Stored(t.chunks, t.at, t.len, Clauses(f)[m + 1].lits),
           weighted => w = Clauses(f)[m + 1].weight,
           NEW d, d = WithClause(c, t, w, weighted)
    PROVE  HoldsMore(d, f, m + 1, weighted)
<1> DEFINE ws == IF weighted THEN Append(c.weight, w) ELSE c.weight
           chunks == t.chunks
           at == t.at
           len == t.len
           k == t.len
<1>13. d = [c EXCEPT !.dummy = w, !.chunks = chunks, !.at = Append(c.at, at),
                     !.len = Append(c.len, len), !.weight = ws, !.numLit = c.numLit + k]
  BY DEF WithClause
<1>14. /\ chunks \in Seq(Seq(Int)) /\ Grown(c.chunks, chunks) /\ at \in Nat \X Nat
       /\ len \in Nat /\ k \in Nat
       /\ Exact(f, m + 1) => Stored(chunks, at, len, Clauses(f)[m + 1].lits)
  OBVIOUS
<1> HIDE DEF chunks, at, len, k
<1>1. /\ c.chunks \in Seq(Seq(Int)) /\ c.at \in Seq(Nat \X Nat) /\ c.len \in Seq(Nat)
      /\ c.weight \in Seq(Nat) /\ c.numLit + k \in Nat /\ Len(c.len) = m
      /\ (weighted => Len(c.weight) = m)
  BY <1>14 DEF CnfSet, Held
<1>2. /\ Append(c.at, at) \in Seq(Nat \X Nat) /\ Len(Append(c.at, at)) = m + 1
      /\ \A j \in 1..m : Append(c.at, at)[j] = c.at[j]
      /\ Append(c.at, at)[m + 1] = at
  <2> DEFINE P == Nat \X Nat
  <2>1. c.at \in Seq(P) /\ at \in P /\ Len(c.at) = m
    BY <1>1, <1>14
  <2> HIDE DEF P
  <2>2. /\ Append(c.at, at) \in Seq(P) /\ Len(Append(c.at, at)) = m + 1
        /\ \A j \in 1..m : Append(c.at, at)[j] = c.at[j]
        /\ Append(c.at, at)[m + 1] = at
    BY <2>1, Longer
  <2> QED BY <2>2 DEF P
<1>3. /\ Append(c.len, len) \in Seq(Nat) /\ Len(Append(c.len, len)) = m + 1
      /\ \A j \in 1..m : Append(c.len, len)[j] = c.len[j]
      /\ Append(c.len, len)[m + 1] = len
  BY <1>1, <1>14, LongerNat
<1>4. /\ ws \in Seq(Nat)
      /\ weighted => /\ Len(ws) = m + 1
                     /\ \A j \in 1..m : ws[j] = c.weight[j]
                     /\ ws[m + 1] = w
  <2>1. CASE weighted
    <3>1. /\ Append(c.weight, w) \in Seq(Nat) /\ Len(Append(c.weight, w)) = m + 1
          /\ \A j \in 1..m : Append(c.weight, w)[j] = c.weight[j]
          /\ Append(c.weight, w)[m + 1] = w
      BY <1>1, <2>1, LongerNat
    <3> QED BY <2>1, <3>1
  <2>2. CASE ~weighted
    BY <1>1, <2>2
  <2> QED BY <2>1, <2>2
<1> DEFINE as == Append(c.at, at)
           ls == Append(c.len, len)
           nl == c.numLit + k
<1>5. d = [c EXCEPT !.dummy = w, !.chunks = chunks, !.at = as, !.len = ls,
                    !.weight = ws, !.numLit = nl]
  BY <1>13
<1> HIDE DEF ws, as, ls, nl
<1>6. as \in Seq(Nat \X Nat) /\ ls \in Seq(Nat) /\ ws \in Seq(Nat) /\ nl \in Nat
  BY <1>1, <1>2, <1>3, <1>4 DEF as, ls, nl
<1>7. /\ d \in CnfSet /\ d.chunks = chunks /\ d.at = as /\ d.len = ls /\ d.weight = ws
  BY <1>5, <1>6, <1>14 DEF CnfSet
<1>8. ASSUME NEW j \in 1..(m + 1), Exact(f, j)
      PROVE  Stored(chunks, as[j], ls[j], Clauses(f)[j].lits)
  <2>1. CASE j = m + 1
    <3>1. as[j] = at /\ ls[j] = len
      BY <1>2, <1>3, <2>1 DEF as, ls
    <3> QED BY <1>8, <1>14, <2>1, <3>1
  <2>2. CASE j \in 1..m
    <3>1. as[j] = c.at[j] /\ ls[j] = c.len[j]
      BY <1>2, <1>3, <2>2 DEF as, ls
    <3>2. Stored(c.chunks, c.at[j], c.len[j], Clauses(f)[j].lits)
      BY <1>8, <2>2 DEF Held
    <3>3. Stored(chunks, c.at[j], c.len[j], Clauses(f)[j].lits)
      BY <1>1, <1>14, <3>2, StoredStays
    <3> QED BY <3>1, <3>3
  <2>3. j = m + 1 \/ j \in 1..m
    OBVIOUS
  <2> QED BY <2>1, <2>2, <2>3
<1>9. weighted => /\ Len(ws) = m + 1
                  /\ \A j \in 1..(m + 1) : ws[j] = Clauses(f)[j].weight
  <2> SUFFICES ASSUME weighted
               PROVE  Len(ws) = m + 1 /\ \A j \in 1..(m + 1) : ws[j] = Clauses(f)[j].weight
    OBVIOUS
  <2>1. \A j \in 1..m : ws[j] = Clauses(f)[j].weight
    BY <1>4 DEF Held
  <2>2. ws[m + 1] = Clauses(f)[m + 1].weight
    BY <1>4
  <2>3. \A j \in 1..(m + 1) : j \in 1..m \/ j = m + 1
    OBVIOUS
  <2> QED BY <1>4, <2>1, <2>2, <2>3
<1>10. Len(as) = m + 1 /\ Len(ls) = m + 1
  BY <1>2, <1>3 DEF as, ls
<1>11. Held(d, f, m + 1, weighted)
  BY <1>7, <1>8, <1>9, <1>10 DEF Held
<1> QED BY <1>7, <1>10, <1>11 DEF HoldsMore

(* What a turn of ReadCNF takes from the stream. *)
LEMMA TurnTakes ==
    ASSUME IInv, pc = "readcnf", read < cnf.numClause,
           NEW next, next = IF Given(file).format = "wcnf" THEN SkipBlanks(rest) ELSE rest,
           NEW given \in BOOLEAN,
           given <=> Given(file).format = "wcnf" /\ StartsWith(next, "number"),
           NEW dummy, dummy = IF given THEN Head(next).num ELSE cnf.dummy,
           NEW behind, behind = IF given THEN Tail(next) ELSE next,
           NEW r, r = Literals(Bite(behind))
    PROVE  Turned(Given(file), read, behind, r, dummy)
<1> DEFINE f == Given(file)
<1>1. /\ file \in Files /\ HasHeader(file) /\ read \in Nat /\ cnf.dummy \in Nat
      /\ Somewhere(f, rest, read) /\ cnf.numClause = Len(Clauses(file))
  BY FileIs DEF IInv, Types, InFile, HasRead, HeaderFound, HasHeader, CnfSet
<1>2. Readable(f) /\ read < Len(Clauses(f))
  BY <1>1, GivenIs
<1> HIDE DEF f
<1>3. CASE f.format = "wcnf"
  <2>1. next = SkipBlanks(rest) /\ (given <=> StartsWith(next, "number"))
    BY <1>3 DEF f
  <2>2. behind = IF StartsWith(next, "number") THEN Tail(next) ELSE next
    BY <2>1
  <2>3. dummy = IF StartsWith(next, "number") THEN Head(next).num ELSE cnf.dummy
    BY <2>1
  <2>4. Turned(f, read, behind, r, dummy)
    BY <1>1, <1>2, <1>3, <2>1, <2>2, <2>3, TurnWithWeights
  <2> QED BY <2>4 DEF f
<1>4. CASE f.format # "wcnf"
  <2>1. next = rest /\ ~given
    BY <1>4 DEF f
  <2>2. behind = rest /\ dummy = cnf.dummy
    BY <2>1
  <2>3. r = Literals(Bite(rest))
    BY <2>2
  <2>4. Turned(f, read, rest, r, cnf.dummy)
    BY <1>1, <1>2, <1>4, <2>3, TurnWithout
  <2> QED BY <2>2, <2>4 DEF f
<1> QED BY <1>3, <1>4

(* What it makes of the chunks and the heap. *)
LEMMA TurnStores ==
    ASSUME IInv, pc = "readcnf", NEW lits \in Seq(Int), Fits(Given(file), lits),
           NEW t, t = FoldLeft(Store, [chunks |-> cnf.chunks, at |-> NextLit, len |-> 0,
                                       heap |-> heap], lits)
    PROVE  /\ t.chunks \in Seq(Seq(Int)) /\ t.at \in Nat \X Nat /\ t.len \in Nat
           /\ t.heap \in GoodHeaps
           /\ Grown(cnf.chunks, t.chunks)
           /\ Stored(t.chunks, t.at, t.len, lits)
           /\ ~OverEnd(t.chunks) => Kept1(t.chunks, t.heap)
           /\ LastIsLast(t.heap) \/ OverEnd(t.chunks)
           /\ lits = <<>> => ~OverEnd(t.chunks)
           /\ t.len > 0 \/ cnf.chunks # <<>> => t.chunks # <<>>
           /\ \/ \A c \in 1..Len(t.chunks) : Len(t.chunks[c]) <= ChunkLits
              \/ \E i \in 1..Len(file.lines) : Len(file.lines[i].lits) > ChunkLits
<1> DEFINE base == [chunks |-> cnf.chunks, at |-> NextLit, len |-> 0, heap |-> heap]
<1>1. /\ file \in Files /\ HasHeader(file) /\ Kept1(cnf.chunks, heap) /\ LastIsLast(heap)
      /\ cnf.chunks \in Seq(Seq(Int))
  BY DEF IInv, Types, InFile, HasRead, HeaderFound, HasHeader, CnfSet
<1>2. base = Fresh1(cnf.chunks, heap)
  BY DEF Fresh1, NextLit
<1>3. base.len = 0 /\ base.chunks = cnf.chunks /\ base.heap = heap
  OBVIOUS
<1> HIDE DEF base
<1>4. base \in Writers
  BY <1>1, <1>2, FreshIs
<1>5. t \in Writers
  BY <1>3, <1>4, StoreAll DEF base
<1>6. Grown(base.chunks, t.chunks)
  BY <1>3, <1>4, StoreAll DEF base
<1>7. Stored(t.chunks, t.at, t.len, lits)
  BY <1>3, <1>4, StoreAll DEF base
<1>8. lits = <<>> => t = base
  BY <1>3, <1>4, StoreAll DEF base
<1>9. lits # <<>> => t.chunks # <<>>
  BY <1>3, <1>4, StoreAll DEF base
<1>10. /\ t.chunks \in Seq(Seq(Int)) /\ t.at \in Nat \X Nat /\ t.len \in Nat /\ t.heap \in GoodHeaps
  BY <1>5, WriterIs
<1>11. /\ ~OverEnd(t.chunks) => Kept1(t.chunks, t.heap)
       /\ OverEnd(t.chunks) => t.len > ChunkLits
  BY <1>5, KeptAgain
<1>12. t.len = Len(lits)
  BY <1>7 DEF Stored
<1>13. lits = <<>> => ~OverEnd(t.chunks)
  <2>1. lits = <<>> => t.len = 0
    BY <1>12
  <2> QED BY <1>11, <2>1, ChunkLitsAssumption
<1>14. LastIsLast(t.heap) \/ OverEnd(t.chunks)
  <2>1. CASE lits = <<>>
    BY <1>1, <1>3, <1>8, <2>1
  <2>2. CASE lits # <<>> /\ ~OverEnd(t.chunks)
    BY <1>9, <1>11, <2>2 DEF Kept1
  <2> QED BY <2>1, <2>2
<1>15. t.len > 0 \/ cnf.chunks # <<>> => t.chunks # <<>>
  <2>1. CASE t.len > 0
    <3>1. Len(lits) # 0
      BY <1>10, <1>12, <2>1
    <3>2. lits # <<>>
      BY <3>1
    <3> QED BY <1>9, <3>2
  <2>2. CASE cnf.chunks # <<>>
    <3>1. Len(cnf.chunks) <= Len(t.chunks)
      BY <1>3, <1>6 DEF Grown
    <3>2. Len(cnf.chunks) \in Nat /\ Len(cnf.chunks) # 0 /\ Len(t.chunks) \in Nat
      BY <1>1, <1>10, <2>2
    <3>3. Len(t.chunks) # 0
      BY <3>1, <3>2
    <3> QED BY <3>3
  <2> QED BY <2>1, <2>2
<1>16. \/ \A c \in 1..Len(t.chunks) : Len(t.chunks[c]) <= ChunkLits
       \/ \E i \in 1..Len(file.lines) : Len(file.lines[i].lits) > ChunkLits
  <2>1. CASE ~OverEnd(t.chunks)
    BY <1>11, <2>1 DEF Kept1
  <2>2. CASE OverEnd(t.chunks)
    <3>1. Len(lits) > ChunkLits /\ lits # <<>>
      BY <1>11, <1>12, <1>13, <2>2
    <3>2. Fits(file, lits)
      BY <1>1, GivenIs
    <3>3. PICK i \in 1..Len(file.lines) : Len(lits) <= Len(file.lines[i].lits)
      BY <3>1, <3>2 DEF Fits
    <3>4. Len(file.lines[i].lits) \in Nat /\ Len(lits) \in Nat
      <4>1. file.lines[i] \in Lines
        BY <1>1, FileIs
      <4>2. file.lines[i].lits \in Seq(Int)
        BY <4>1, LineTypes
      <4> QED BY <4>2
    <3>5. Len(file.lines[i].lits) > ChunkLits
      BY <3>1, <3>3, <3>4, ChunkLitsAssumption
    <3> QED BY <3>5
  <2> QED BY <2>1, <2>2
<1> QED BY <1>3, <1>6, <1>7, <1>10, <1>11, <1>13, <1>14, <1>15, <1>16

LEMMA ReadSearchClauseKeeps ==
    ASSUME IInv, ReadSearchClause
    PROVE  IInv'
<1> DEFINE f      == Given(file)
           isWCNF == f.format = "wcnf"
           next   == IF isWCNF THEN SkipBlanks(rest) ELSE rest
           given  == isWCNF /\ StartsWith(next, "number")
           dummy  == IF given THEN Head(next).num ELSE cnf.dummy
           behind == IF given THEN Tail(next) ELSE next
           r      == Literals(Bite(behind))
           t      == FoldLeft(Store, [chunks |-> cnf.chunks, at |-> NextLit, len |-> 0,
                                      heap |-> heap], r.lits)
           comment == StartsWith(behind, "c")
           longer == [cnf EXCEPT !.dummy = dummy, !.chunks = t.chunks,
                                 !.at = Append(@, t.at), !.len = Append(@, t.len),
                                 !.weight = IF Weighted(file) THEN Append(@, dummy) ELSE @,
                                 !.numLit = @ + t.len]
<1>1. /\ pc = "readcnf" /\ read < cnf.numClause
      /\ IF OverEnd(t.chunks) THEN pc' \in {"crashed", "undefined"}
         ELSE pc' = IF OutOfHeaps(t.heap) THEN "exited" ELSE "readcnf"
      /\ comment => /\ rest' = AfterLine(behind)
                    /\ cnf' = [cnf EXCEPT !.dummy = dummy]
                    /\ read' = read /\ heap' = heap
      /\ ~comment => rest' = r.rest /\ cnf' = longer /\ heap' = t.heap /\ read' = read + 1
      /\ UNCHANGED <<file, call, bad, msi>>
  BY Zenon DEF ReadSearchClause, Goto
<1>2. /\ file \in Files /\ call \in 0..2 /\ read \in Nat /\ read < Len(Clauses(file))
      /\ cnf \in CnfSet /\ Len(cnf.at) = Len(cnf.len) /\ cnf.numClause = Len(Clauses(file))
      /\ HeaderFound /\ Held(cnf, f, read, Weighted(file)) /\ Len(Clauses(file)) \in Nat
      /\ heap \in HeapSet /\ Sums(heap) /\ bad \in BOOLEAN
      /\ Kept1(cnf.chunks, heap) /\ LastIsLast(heap)
  BY <1>1, FileIs DEF IInv, Types, HasRead, InFile
<1>3. Turned(f, read, behind, r, dummy)
  BY <1>1, TurnTakes
<1> HIDE DEF next, given, dummy, behind, r
<1>4. /\ r.lits \in Seq(Int) /\ Fits(f, r.lits) /\ dummy \in Nat
      /\ comment => r.lits = <<>> /\ Somewhere(f, AfterLine(behind), read)
      /\ ~comment => /\ Somewhere(f, r.rest, read + 1)
                     /\ Exact(f, read + 1) => r.lits = Clauses(f)[read + 1].lits
                     /\ isWCNF => dummy = Clauses(f)[read + 1].weight
  BY <1>3 DEF Turned
<1>5. /\ t.chunks \in Seq(Seq(Int)) /\ t.at \in Nat \X Nat /\ t.len \in Nat
      /\ t.heap \in GoodHeaps
      /\ Grown(cnf.chunks, t.chunks)
      /\ Stored(t.chunks, t.at, t.len, r.lits)
      /\ ~OverEnd(t.chunks) => Kept1(t.chunks, t.heap)
      /\ LastIsLast(t.heap) \/ OverEnd(t.chunks)
      /\ r.lits = <<>> => ~OverEnd(t.chunks)
      /\ t.len > 0 \/ cnf.chunks # <<>> => t.chunks # <<>>
      /\ \/ \A c \in 1..Len(t.chunks) : Len(t.chunks[c]) <= ChunkLits
         \/ \E i \in 1..Len(file.lines) : Len(file.lines[i].lits) > ChunkLits
  BY <1>1, <1>4, TurnStores
<1> HIDE DEF t, comment, f
<1>6. Weighted(file) => isWCNF
  BY <1>2, GivenIs DEF Weighted, HeaderFound, HasHeader, f
<1>7. pc' \in Pcs /\ pc' \notin {"count", "call", "create", "search"}
      /\ (pc' = "readcnf" => ~OverEnd(t.chunks))
  BY <1>1 DEF Pcs, Terminal
<1>8. f' = f
  BY <1>1 DEF f
<1>9. CASE comment
  <2>1. /\ rest' = AfterLine(behind) /\ cnf' = [cnf EXCEPT !.dummy = dummy]
        /\ read' = read /\ heap' = heap
    BY <1>1, <1>9
  <2>2. /\ cnf' \in CnfSet /\ cnf'.at = cnf.at /\ cnf'.len = cnf.len /\ cnf'.weight = cnf.weight
        /\ cnf'.chunks = cnf.chunks /\ cnf'.numLit = cnf.numLit /\ cnf'.numClause = cnf.numClause
    BY <1>2, <1>4, <2>1 DEF CnfSet
  <2>3. Types'
    <3>1. bad' \in BOOLEAN
      BY <1>1, <1>2
    <3>2. read' \in 0..Len(Clauses(file'))
      BY <1>1, <1>2, <2>1
    <3>3. /\ msi' \in MsiSet /\ msi'.numClauses <= Len(Clauses(file'))
          /\ msi'.hNum <= msi'.numClauses
      BY <1>1 DEF IInv, Types
    <3> QED BY <1>1, <1>2, <1>7, <2>1, <2>2, <3>1, <3>2, <3>3 DEF Types
  <2>4. Counting'
    BY <1>7 DEF Counting
  <2>5. Holding'
    BY <2>1, <2>2 DEF IInv, Holding
  <2>6. Chunked'
    BY <1>1, <2>2 DEF IInv, Chunked
  <2>7. InFile'
    <3>1. Somewhere(f', rest', read')
      BY <1>4, <1>8, <1>9, <2>1
    <3> QED BY <1>2, <2>1, <2>2, <3>1 DEF InFile, f
  <2>8. HasRead'
    <3>1. Held(cnf', f, read, Weighted(file))
      BY <1>2, <2>2 DEF Held
    <3>2. HeaderFound' /\ cnf'.numClause = Len(Clauses(file'))
          /\ Weighted(file') = Weighted(file)
      BY <1>1, <1>2, <2>2 DEF HeaderFound
    <3> QED BY <1>7, <1>8, <2>1, <3>1, <3>2 DEF HasRead, f
  <2> QED BY <2>3, <2>4, <2>5, <2>6, <2>7, <2>8 DEF IInv
<1>10. CASE ~comment
  <2>1. rest' = r.rest /\ cnf' = longer /\ heap' = t.heap /\ read' = read + 1
    BY <1>1, <1>10
  <2>2. Weighted(file) \in BOOLEAN
    BY DEF Weighted
  <2>3. Exact(f, read + 1) => Stored(t.chunks, t.at, t.len, Clauses(f)[read + 1].lits)
    BY <1>4, <1>5, <1>10
  <2>4. Weighted(file) => dummy = Clauses(f)[read + 1].weight
    BY <1>4, <1>6, <1>10
  <2>5. Len(cnf.at) = read
    BY <1>2 DEF Held
  <2>6. cnf' \in CnfSet /\ Len(cnf'.at) = Len(cnf'.len) /\ Held(cnf', f, read + 1, Weighted(file))
    <3> DEFINE weighted == Weighted(file)
               lits == Clauses(f)[read + 1].lits
               w    == Clauses(f)[read + 1].weight
               d    == cnf'
    <3>1. /\ cnf \in CnfSet /\ read \in Nat /\ weighted \in BOOLEAN
          /\ Held(cnf, f, read, weighted) /\ Len(cnf.at) = read
      BY <1>2, <2>2, <2>5
    <3>2. /\ t.chunks \in Seq(Seq(Int)) /\ Grown(cnf.chunks, t.chunks)
          /\ t.at \in Nat \X Nat /\ t.len \in Nat /\ dummy \in Nat
      BY <1>4, <1>5
    <3>3. Exact(f, read + 1) => Stored(t.chunks, t.at, t.len, lits)
      BY <2>3
    <3>4. weighted => dummy = w
      BY <2>4
    <3>5. d = WithClause(cnf, t, dummy, weighted)
      BY <2>1 DEF WithClause
    <3> HIDE DEF weighted, d
    <3>6. HoldsMore(d, f, read + 1, weighted)
      BY <3>1, <3>2, <3>3, <3>4, <3>5, HeldMore
    <3> QED BY <3>6 DEF HoldsMore, weighted, d
  <2>7. cnf'.chunks = t.chunks /\ cnf'.numLit = cnf.numLit + t.len
        /\ cnf'.numClause = cnf.numClause
    BY <1>2, <2>1 DEF CnfSet
  <2>8. Types'
    <3>1. bad' \in BOOLEAN
      BY <1>1, <1>2
    <3>2. read' \in 0..Len(Clauses(file'))
      BY <1>1, <1>2, <2>1
    <3>3. /\ msi' \in MsiSet /\ msi'.numClauses <= Len(Clauses(file'))
          /\ msi'.hNum <= msi'.numClauses
      BY <1>1 DEF IInv, Types
    <3>4. heap' \in HeapSet /\ Sums(heap')
      BY <1>5, <2>1, GoodHeapIs
    <3> QED BY <1>1, <1>2, <1>7, <2>6, <3>1, <3>2, <3>3, <3>4 DEF Types
  <2>9. Counting'
    BY <1>7 DEF Counting
  <2>10. Holding'
    <3>1. cnf.numLit \in Nat
      BY <1>2 DEF CnfSet
    <3>2. cnf'.numLit > 0 => cnf.numLit > 0 \/ t.len > 0
      BY <1>5, <2>7, <3>1
    <3>3. cnf.numLit > 0 => cnf.chunks # <<>>
      BY DEF IInv, Holding
    <3> QED BY <1>5, <2>1, <2>7, <3>2, <3>3 DEF Holding
  <2>11. Chunked'
    BY <1>1, <1>5, <2>7 DEF Chunked
  <2>12. InFile'
    <3>1. Somewhere(f', rest', read')
      BY <1>4, <1>8, <1>10, <2>1
    <3> QED BY <1>5, <1>7, <2>1, <2>7, <3>1 DEF InFile, f
  <2>13. HasRead'
    <3>1. HeaderFound' /\ cnf'.numClause = Len(Clauses(file'))
          /\ Weighted(file') = Weighted(file)
      BY <1>1, <1>2, <2>7 DEF HeaderFound
    <3> QED BY <1>7, <1>8, <2>1, <2>6, <3>1 DEF HasRead, f
  <2> QED BY <2>8, <2>9, <2>10, <2>11, <2>12, <2>13 DEF IInv
<1> QED BY <1>9, <1>10

LEMMA NextIInv ==
    ASSUME IInv, [Next]_vars
    PROVE  IInv'
<1>1. CASE ReadClause
  BY <1>1, ReadClauseKeeps
<1>2. CASE Counted
  BY <1>2, CountedKeeps
<1>3. CASE StartCall
  BY <1>3, StartCallKeeps
<1>4. CASE HeaderNotFound
  BY <1>4, HeaderNotFoundKeeps
<1>5. CASE ReadSearchClause
  BY <1>5, ReadSearchClauseKeeps
<1>6. CASE EndRead
  BY <1>6, EndReadKeeps
<1>7. CASE Create
  BY <1>7, CreateKeeps
<1>8. CASE Search
  BY <1>8, SearchKeeps
<1>9. CASE UNCHANGED vars
  <2>1. UNCHANGED <<file, pc, call, rest, bad, read, msi, cnf, heap>>
    BY <1>9 DEF vars
  <2>2. bad' \in BOOLEAN
    BY <2>1 DEF IInv, Types
  <2>3. Types'
    BY <2>1, <2>2 DEF IInv, Types
  <2>4. Counting' /\ Holding' /\ Chunked' /\ InFile'
    BY <2>1 DEF IInv, Counting, Holding, Chunked, InFile
  <2>5. HasRead'
    BY <2>1 DEF IInv, HasRead, HeaderFound
  <2> QED BY <2>3, <2>4, <2>5 DEF IInv
<1> QED BY <1>1, <1>2, <1>3, <1>4, <1>5, <1>6, <1>7, <1>8, <1>9 DEF Next, Ended

LEMMA Invariance ==
    Spec => []IInv
<1>1. Init => IInv
  BY InitIInv
<1>2. IInv /\ [Next]_vars => IInv'
  BY NextIInv
<1> QED BY <1>1, <1>2, PTL DEF Spec

(* The types of the program's variables, as its bounds on what it counts. *)
LEMMA TypesTell ==
    ASSUME IInv
    PROVE  TypeOK
<1>1. /\ pc \in Pcs /\ call \in 0..2 /\ read \in 0..Len(Clauses(file))
      /\ msi \in MsiSet /\ msi.numClauses <= Len(Clauses(file)) /\ msi.hNum <= msi.numClauses
      /\ cnf \in CnfSet /\ Len(cnf.at) = Len(cnf.len) /\ heap \in HeapSet /\ Sums(heap)
      /\ Len(Clauses(file)) \in Nat
  BY FileIs DEF IInv, Types
<1>2. /\ msi.numClauses \in Nat /\ msi.hNum \in Nat
      /\ msi.pos \in [1..NumVars -> Nat] /\ msi.neg \in [1..NumVars -> Nat]
      /\ msi.s \in [Sizes -> Nat] /\ msi.h \in [Sizes -> Nat]
  BY <1>1 DEF MsiSet
<1>3. /\ cnf.at \in Seq(Nat \X Nat) /\ cnf.len \in Seq(Nat)
      /\ cnf.numLit \in Nat /\ cnf.dummy \in Nat
  BY <1>1 DEF CnfSet
<1>4. DOMAIN cnf.at = DOMAIN cnf.len
  <2>1. DOMAIN cnf.at = 1..Len(cnf.at) /\ DOMAIN cnf.len = 1..Len(cnf.len)
    BY <1>3
  <2> QED BY <1>1, <2>1
<1>5. ASSUME NEW j \in DOMAIN heap.heaps
      PROVE  LET x == heap.heaps[j]
             IN  {x.free, x.bytesFree} \subseteq Nat /\ x.free + x.bytesFree = x.bytes
  <2>1. heap.heaps \in Seq(HeapRecords)
    BY <1>1 DEF HeapSet
  <2>2. heap.heaps[j] \in HeapRecords
    BY <2>1
  <2>3. heap.heaps[j].free + heap.heaps[j].bytesFree = heap.heaps[j].bytes
    BY <1>1 DEF Sums
  <2> QED BY <2>2, <2>3 DEF HeapRecords
<1>6. msi.numClauses \in 0..Len(Clauses(file)) /\ msi.hNum \in 0..msi.numClauses
  BY <1>1, <1>2
<1> QED BY <1>1, <1>2, <1>3, <1>4, <1>5, <1>6 DEF TypeOK, Pcs

(* As long as a literal was read every block of the heap is kept apart,     *)
(* through the chunks and the end of the last one, which is given back; and *)
(* no clause that fits a chunk runs over its end.                           *)
THEOREM HeapStaysSound ==
    Spec => []HeapSound
<1>1. IInv => HeapSound
  <2> SUFFICES ASSUME IInv PROVE HeapSound
    OBVIOUS
  <2>1. TypeOK
    BY TypesTell
  <2>2. cnf.numLit > 0 => BlocksKept(heap)
    BY GoodHeapIs DEF IInv, Holding
  <2>3. DOMAIN cnf.chunks = 1..Len(cnf.chunks) /\ DOMAIN file.lines = 1..Len(file.lines)
    BY FileIs DEF IInv, Types, CnfSet
  <2>4. \/ \A c \in 1..Len(cnf.chunks) : Len(cnf.chunks[c]) <= ChunkLits
        \/ \E i \in 1..Len(file.lines) : Len(file.lines[i].lits) > ChunkLits
    BY DEF IInv, Chunked
  <2> QED BY <2>1, <2>2, <2>3, <2>4 DEF HeapSound
<1> QED BY <1>1, Invariance, PTL

(* A cnf file without a comment is all clauses. *)
LEMMA NoOtherLines ==
    ASSUME NEW f \in Files, f.format = "cnf", ~HasComment(f)
    PROVE  AllClauses(f)
<1> SUFFICES ASSUME NEW i \in 1..Len(f.lines) PROVE f.lines[i].kind = "clause"
  BY DEF AllClauses
<1>1. f.lines \in Seq(Lines) /\ DOMAIN f.lines = 1..Len(f.lines)
  BY FileIs
<1>2. f.lines[i] \in Lines
  BY <1>1
<1>3. f.lines[i].kind \in {"clause", "comment", "hard", "soft"}
  BY <1>2, LineTypes
<1>4. f.lines[i].kind # "comment"
  BY <1>1 DEF HasComment
<1>5. f.lines[i].kind \notin {"hard", "soft"}
  BY FileIs
<1> QED BY <1>3, <1>4, <1>5

(* What ReadCNF has of a clause, through chunks and copies, is what it was  *)
(* given, except where its first character was taken from it.               *)
THEOREM SearchReadsExactly ==
    Spec => []SearchReads
<1>1. IInv => SearchReads
  <2> SUFFICES ASSUME IInv,
                      pc \in {"create", "search"}, file.format = "cnf" => ~HasComment(file),
                      NEW j \in 1..cnf.numClause,
                      \/ file.format # "cnf" \/ Clauses(file)[1].blank
                      \/ j > 1 /\ Clauses(file)[1].lits # <<>>
               PROVE  Got(j) = Expected(j)
    BY DEF SearchReads
  <2> DEFINE f == Given(file)
             lits == Clauses(f)[j].lits
  <2>1. /\ file \in Files /\ HeaderFound /\ cnf.numClause = Len(Clauses(file))
        /\ read = cnf.numClause /\ Held(cnf, f, read, Weighted(file))
    BY DEF IInv, Types, HasRead
  <2>2. HasHeader(file)
    BY <2>1 DEF HeaderFound, HasHeader
  <2>3. Exact(f, j)
    <3>1. CASE file.format # "cnf"
      <4>1. f.format = "wcnf"
        BY <2>1, <2>2, <3>1, GivenIs
      <4> HIDE DEF f
      <4> QED BY <4>1 DEF Exact
    <3>2. CASE file.format = "cnf"
      <4>1. f = file
        BY <2>1, <2>2, <3>2, GivenIs
      <4>2. AllClauses(file)
        BY <2>1, <3>2, NoOtherLines
      <4>3. Clauses(file)[1].blank \/ (j > 1 /\ Clauses(file)[1].lits # <<>>)
        BY <3>2
      <4>4. Exact(file, j)
        BY <4>2, <4>3, Zenon DEF Exact
      <4> QED BY <4>1, <4>4
    <3> QED BY <3>1, <3>2
  <2>4. Stored(cnf.chunks, cnf.at[j], cnf.len[j], lits)
    BY <2>1, <2>3 DEF Held
  <2>5. lits \in Seq(Int) /\ cnf.chunks \in Seq(Seq(Int))
    <3>1. Readable(f) /\ Len(Clauses(f)) = Len(Clauses(file))
      BY <2>1, <2>2, GivenIs
    <3>2. Clauses(f) \in Seq(Lines)
      BY <3>1, PassedAre DEF Readable
    <3>3. j \in 1..Len(Clauses(f))
      BY <2>1, <3>1
    <3>4. Clauses(f)[j] \in Lines
      BY <3>2, <3>3
    <3> QED BY <3>4, LineTypes DEF IInv, Types, CnfSet
  <2> DEFINE x == cnf.at[j][1]
             y == cnf.at[j][2]
             n == cnf.len[j]
             c == cnf.chunks
  <2>6. n = Len(lits) /\ n \in Nat
    BY <2>4, <2>5 DEF Stored
  <2>7. ASSUME NEW k \in 1..n
        PROVE  y + k \in DOMAIN c[x] /\ c[x][y + k] = lits[k]
    <3>1. x \in 1..Len(c) /\ y + k \in 1..Len(c[x]) /\ c[x][y + k] = lits[k]
      BY <2>4 DEF Stored
    <3> HIDE DEF x, y, c, lits, n
    <3>2. c \in Seq(Seq(Int))
      BY <2>5 DEF c
    <3>3. c[x] \in Seq(Int)
      BY <3>1, <3>2
    <3> QED BY <3>1, <3>3
  <2>8. Got(j) = [k \in 1..n |-> IF y + k \in DOMAIN c[x] THEN c[x][y + k] ELSE 0]
    BY DEF Got
  <2>9. Expected(j) = lits
    BY DEF Expected
  <2> HIDE DEF x, y, c, lits, n
  <2>10. [k \in 1..n |-> IF y + k \in DOMAIN c[x] THEN c[x][y + k] ELSE 0] = [k \in 1..n |-> lits[k]]
    BY <2>7
  <2>11. lits = [k \in 1..n |-> lits[k]]
    BY <2>5, <2>6
  <2> QED BY <2>8, <2>9, <2>10, <2>11
<1> QED BY <1>1, Invariance, PTL

(* The weights of clauses, summed up. *)
Numbered(n) == [k \in 1..n |-> k]

WeightsOf(w, n) == FoldLeft(LAMBDA a, k : a + w[k], 0, [k \in 1..n |-> k])

(* The weights of the first k clauses. *)
WeighTurns(w, n, G) ==
    /\ G \in [0..n -> Nat]
    /\ G[0] = 0
    /\ \A k \in 1..n : G[k] = G[k - 1] + w[Numbered(n)[k]]
    /\ WeightsOf(w, n) = G[n]

LEMMA WeighLoop ==
    ASSUME NEW n \in Nat, NEW w, \A k \in 1..n : w[k] \in Nat
    PROVE  \E G : WeighTurns(w, n, G)
<1> DEFINE B == Nat
           turn == [k \in 1..n |-> [q \in B |-> q + w[Numbered(n)[k]]]]
           it == CHOOSE g : g = [t \in SUBSET (1..n) |-> IF t = {} THEN 0
                                        ELSE g[t \ {Max(t)}] + w[Numbered(n)[Max(t)]]]
<1>1. n \in Nat /\ 0 \in B
  OBVIOUS
<1>2. turn \in Turns(n, B)
  <2> SUFFICES ASSUME NEW k \in 1..n, NEW q \in B PROVE q + w[Numbered(n)[k]] \in B
    BY DEF Turns
  <2> QED BY DEF Numbered
<1>3. WeightsOf(w, n) = it[1..n]
  <2>1. WeightsOf(w, n) = FoldLeft(LAMBDA a, k : a + w[k], 0, Numbered(n))
    BY DEF WeightsOf, Numbered
  <2>2. DOMAIN Numbered(n) = 1..n
    BY DEF Numbered
  <2> QED BY <1>1, <2>1, <2>2, Zenon DEF FoldLeft, MapThenFoldSet
<1> HIDE DEF B
<1>4. 1..n \subseteq Nat /\ IsFiniteSet(1..n)
  BY <1>1, FS_Interval
<1>5. \A t \in SUBSET (1..n) : t # {} => Max(t) \in 1..n
  BY <1>4, FS_Subset, MaxUpTo
<1>6. it = [t \in SUBSET (1..n) |-> IF t = {} THEN 0
                                  ELSE it[t \ {Max(t)}] + w[Numbered(n)[Max(t)]]]
  <2>1. PICK g : IsLoop(g, n, B, 0, turn)
    <3> HIDE DEF turn
    <3> QED BY <1>1, <1>2, LoopExists
  <2>2. g = [t \in SUBSET (1..n) |-> IF t = {} THEN 0
                                    ELSE g[t \ {Max(t)}] + w[Numbered(n)[Max(t)]]]
    BY <1>5, <2>1 DEF IsLoop
  <2> QED BY <2>2
<1> HIDE DEF it
<1>7. Iterates(it, n, B, 0, turn)
  BY <1>5, <1>6 DEF Iterates
<1>8. PICK G : Values(G, n, B, 0, turn) /\ G[n] = it[1..n]
  <2> HIDE DEF turn
  <2> QED BY <1>1, <1>2, <1>7, LoopValues
<1>9. G \in [0..n -> B] /\ G[0] = 0
  BY <1>8 DEF Values
<1>10. \A k \in 1..n : G[k] = G[k - 1] + w[Numbered(n)[k]]
  <2> TAKE k \in 1..n
  <2>1. k - 1 \in 0..n
    BY <1>1
  <2>2. G[k - 1] \in B
    BY <1>9, <2>1
  <2>3. G[k] = turn[k][G[k - 1]]
    BY <1>8 DEF Values
  <2> QED BY <1>1, <2>2, <2>3
<1> HIDE DEF turn
<1>11. WeighTurns(w, n, G)
  BY <1>3, <1>8, <1>9, <1>10 DEF B, WeighTurns
<1> QED BY <1>11

LEMMA WeighsOnes ==
    ASSUME NEW n \in Nat, NEW w, \A k \in 1..n : w[k] = 1
    PROVE  WeightsOf(w, n) = n
<1>1. PICK G : WeighTurns(w, n, G)
  <2>1. \A k \in 1..n : w[k] \in Nat
    OBVIOUS
  <2> QED BY <2>1, WeighLoop
<1> DEFINE T == {k \in 0..n : G[k] = k}
<1>2. 0 \in T
  BY <1>1 DEF WeighTurns
<1>3. ASSUME NEW k \in 1..n, k - 1 \in T PROVE k \in T
  <2>1. G[k] = G[k - 1] + w[k]
    BY <1>1 DEF WeighTurns, Numbered
  <2>2. G[k - 1] = k - 1
    BY <1>3
  <2> QED BY <2>1, <2>2
<1> HIDE DEF T
<1>4. \A k \in 0..n : k \in T
  BY <1>2, <1>3, UpTo
<1>5. G[n] = n
  BY <1>4 DEF T
<1> QED BY <1>1, <1>5 DEF WeighTurns

(* In the formula that is searched for a partial instance a hard clause     *)
(* costs more than all soft clauses together, and these cost the same.      *)
THEOREM HardWeighMore ==
    Spec => []HardOutweighs
<1>1. IInv => HardOutweighs
  <2> DEFINE soft == Len(ClausesWhere(file, TRUE))
             w == cnf.weight
  <2> SUFFICES ASSUME IInv, pc = "create", file.format = "pmcnf", NEW j \in 1..cnf.numClause
               PROVE  IF j <= soft THEN w[j] = w[1]
                      ELSE w[j] > FoldLeft(LAMBDA a, k : a + w[k], 0, [k \in 1..soft |-> k])
    BY DEF HardOutweighs
  <2>1. /\ file \in Files /\ cnf.numClause = Len(Clauses(file)) /\ read = cnf.numClause
        /\ Weighted(file) /\ Held(cnf, Given(file), read, TRUE) /\ cnf \in CnfSet
    BY DEF IInv, Types, HasRead, Weighted
  <2>2. /\ soft \in Nat /\ soft <= Len(Clauses(file))
        /\ \A i \in 1..Len(Clauses(file)) :
              Clauses(Given(file))[i].weight = IF i <= soft THEN 1 ELSE soft + 1
    BY <2>1, GivenWeights
  <2>3. /\ Len(w) = Len(Clauses(file))
        /\ \A i \in 1..Len(Clauses(file)) : w[i] = Clauses(Given(file))[i].weight
    BY <2>1 DEF Held
  <2> HIDE DEF soft, w
  <2>4. \A i \in 1..Len(Clauses(file)) : w[i] = IF i <= soft THEN 1 ELSE soft + 1
    BY <2>2, <2>3
  <2>5. Len(Clauses(file)) \in Nat /\ j \in 1..Len(Clauses(file))
    BY <2>1, FileIs
  <2>6. CASE j <= soft
    <3>1. 1 \in 1..Len(Clauses(file)) /\ 1 <= soft
      BY <2>2, <2>5, <2>6
    <3> QED BY <2>4, <2>5, <2>6, <3>1
  <2>7. CASE ~(j <= soft)
    <3>1. \A k \in 1..soft : w[k] = 1
      BY <2>2, <2>4, <2>5
    <3>2. WeightsOf(w, soft) = soft
      BY <2>2, <3>1, WeighsOnes
    <3>3. FoldLeft(LAMBDA a, k : a + w[k], 0, [k \in 1..soft |-> k]) = soft
      BY <3>2 DEF WeightsOf, Numbered
    <3>5. w[j] = soft + 1
      BY <2>4, <2>5, <2>7
    <3> DEFINE sum == FoldLeft(LAMBDA a, k : a + w[k], 0, [k \in 1..soft |-> k])
    <3>6. sum = soft
      BY <3>3
    <3> HIDE DEF sum
    <3>7. w[j] > sum
      BY <2>2, <3>5, <3>6
    <3> QED BY <2>7, <3>7 DEF sum
  <2> QED BY <2>6, <2>7
<1> QED BY <1>1, Invariance, PTL

-----------------------------------------------------------------------------
(* The loops of isTautologicalClause put the literals in the order of their *)
(* variables, each once, or find one with its negation.                     *)

LEMMA AbsIs ==
    ASSUME NEW a \in Int
    PROVE  Abs(a) \in Nat /\ Abs(0 - a) = Abs(a) /\ 0 - (0 - a) = a
  BY DEF Abs

(* Rows before row i are done: what is behind them is larger. *)
Rising(l, i) ==
    \A p, q \in 1..Len(l) : p < q /\ p < i => Abs(l[p]) < Abs(l[q])

(* So is what row i was compared to. *)
RowDone(l, i, j) ==
    \A q \in 1..Len(l) : i < q /\ q < j => Abs(l[i]) < Abs(l[q])

LEMMA LitsAre ==
    ASSUME NEW l \in Seq(Int \ {0})
    PROVE  /\ Len(l) \in Nat /\ DOMAIN l = 1..Len(l)
           /\ \A k \in 1..Len(l) : l[k] \in Int \ {0} /\ Abs(l[k]) \in Nat
           /\ \A e : e \in ToSet(l) <=> \E k \in 1..Len(l) : l[k] = e
<1>1. Len(l) \in Nat /\ DOMAIN l = 1..Len(l) /\ \A k \in 1..Len(l) : l[k] \in Int \ {0}
  OBVIOUS
<1>2. \A k \in 1..Len(l) : Abs(l[k]) \in Nat
  BY <1>1, AbsIs
<1>3. \A e : e \in ToSet(l) <=> \E k \in 1..Len(l) : l[k] = e
  BY <1>1 DEF ToSet
<1> QED BY <1>1, <1>2, <1>3

LEMMA SameSet ==
    ASSUME NEW l \in Seq(Int \ {0}), NEW m \in Seq(Int \ {0}),
           \A k \in 1..Len(m) : m[k] \in ToSet(l),
           \A k \in 1..Len(l) : l[k] \in ToSet(m)
    PROVE  ToSet(m) = ToSet(l)
<1>1. \A e : e \in ToSet(m) => e \in ToSet(l)
  <2> TAKE e
  <2> HAVE e \in ToSet(m)
  <2>1. PICK k \in 1..Len(m) : m[k] = e
    BY LitsAre
  <2> QED BY <2>1
<1>2. \A e : e \in ToSet(l) => e \in ToSet(m)
  <2> TAKE e
  <2> HAVE e \in ToSet(l)
  <2>1. PICK k \in 1..Len(l) : l[k] = e
    BY LitsAre
  <2> QED BY <2>1
<1> HIDE DEF ToSet
<1> QED BY <1>1, <1>2

(* The next row. *)
LEMMA RowAfterRow ==
    ASSUME NEW l \in Seq(Int \ {0}), NEW i \in Nat \ {0}, NEW j \in Nat \ {0},
           Rising(l, i), RowDone(l, i, j), j > Len(l)
    PROVE  Rising(l, i + 1) /\ RowDone(l, i + 1, i + 2)
<1>1. Len(l) \in Nat
  OBVIOUS
<1>2. ASSUME NEW p \in 1..Len(l), NEW q \in 1..Len(l), p < q, p < i + 1
      PROVE  Abs(l[p]) < Abs(l[q])
  <2>1. CASE p < i
    BY <1>2, <2>1 DEF Rising
  <2>2. CASE p = i
    <3>1. i < q /\ q < j
      BY <1>1, <1>2, <2>2
    <3> QED BY <2>2, <3>1 DEF RowDone
  <2>3. p < i \/ p = i
    BY <1>2
  <2> QED BY <2>1, <2>2, <2>3
<1>3. \A q \in 1..Len(l) : ~(i + 1 < q /\ q < i + 2)
  BY <1>1
<1> QED BY <1>2, <1>3 DEF Rising, RowDone

LEMMA PairAfterPair ==
    ASSUME NEW l \in Seq(Int \ {0}), NEW i \in 1..Len(l), NEW j \in 1..Len(l), i < j,
           Rising(l, i), RowDone(l, i, j), Abs(l[i]) < Abs(l[j])
    PROVE  RowDone(l, i, j + 1)
<1>1. Len(l) \in Nat
  OBVIOUS
<1>2. ASSUME NEW q \in 1..Len(l), i < q, q < j + 1
      PROVE  Abs(l[i]) < Abs(l[q])
  <2>1. q < j \/ q = j
    BY <1>1, <1>2
  <2> QED BY <1>2, <2>1 DEF RowDone
<1> QED BY <1>2 DEF RowDone

(* The smaller one goes to row i. *)
LEMMA PairSwapped ==
    ASSUME NEW l \in Seq(Int \ {0}), NEW i \in 1..Len(l), NEW j \in 1..Len(l), i < j,
           Rising(l, i), RowDone(l, i, j), Abs(l[i]) > Abs(l[j]),
           NEW m \in Seq(Int \ {0}), Len(m) = Len(l), m[i] = l[j], m[j] = l[i],
           \A k \in 1..Len(l) : k # i /\ k # j => m[k] = l[k]
    PROVE  Rising(m, i) /\ RowDone(m, i, j + 1) /\ ToSet(m) = ToSet(l)
<1>1. Len(l) \in Nat /\ \A k \in 1..Len(l) : Abs(l[k]) \in Nat
  BY LitsAre
<1>2. ASSUME NEW p \in 1..Len(m), NEW q \in 1..Len(m), p < q, p < i
      PROVE  Abs(m[p]) < Abs(m[q])
  <2>1. p # i /\ p # j /\ p < j /\ p \in 1..Len(l) /\ q \in 1..Len(l)
    <3> DEFINE n == Len(l)
    <3>1. n \in Nat /\ p \in 1..n /\ q \in 1..n /\ i \in 1..n /\ j \in 1..n
      BY <1>1
    <3> HIDE DEF n
    <3>2. p # i /\ p # j /\ p < j
      BY <1>2, <3>1
    <3> QED BY <3>1, <3>2 DEF n
  <2>4. m[p] = l[p]
    BY <2>1
  <2>2. Abs(l[p]) < Abs(l[q]) /\ Abs(l[p]) < Abs(l[i]) /\ Abs(l[p]) < Abs(l[j])
    BY <1>1, <1>2, <2>1 DEF Rising
  <2>3. m[q] \in {l[i], l[j], l[q]}
    BY <2>1
  <2> QED BY <2>2, <2>3, <2>4
<1>3. ASSUME NEW q \in 1..Len(m), i < q, q < j + 1
      PROVE  Abs(m[i]) < Abs(m[q])
  <2>1. CASE q = j
    BY <1>1, <2>1
  <2>2. CASE q < j
    <3>1. m[q] = l[q] /\ Abs(l[i]) < Abs(l[q])
      BY <1>1, <1>3, <2>2 DEF RowDone
    <3>2. Abs(l[j]) < Abs(l[q])
      <4>1. Abs(l[i]) \in Nat /\ Abs(l[j]) \in Nat /\ Abs(l[q]) \in Nat
        BY <1>1
      <4> QED BY <3>1, <4>1
    <3> QED BY <3>1, <3>2
  <2>3. q < j \/ q = j
    BY <1>1, <1>3
  <2> QED BY <2>1, <2>2, <2>3
<1>4. ToSet(m) = ToSet(l)
  <2>1. ASSUME NEW k \in 1..Len(l) PROVE m[k] \in ToSet(l) /\ l[k] \in ToSet(m)
    <3>1. CASE k = i
      BY <3>1, LitsAre
    <3>2. CASE k = j
      BY <3>2, LitsAre
    <3>3. CASE k # i /\ k # j
      BY <3>3, LitsAre
    <3> QED BY <3>1, <3>2, <3>3
  <2> QED BY <2>1, SameSet
<1> QED BY <1>2, <1>3, <1>4 DEF Rising, RowDone

(* A second copy goes, and the last one takes its place. *)
LEMMA PairShortened ==
    ASSUME NEW l \in Seq(Int \ {0}), NEW i \in 1..Len(l), NEW j \in 1..Len(l), i < j,
           Rising(l, i), RowDone(l, i, j), l[i] = l[j],
           NEW m \in Seq(Int \ {0}), Len(m) = Len(l) - 1,
           \A k \in 1..Len(m) : m[k] = IF k = j THEN l[Len(l)] ELSE l[k]
    PROVE  Rising(m, i) /\ RowDone(m, i, j) /\ ToSet(m) = ToSet(l)
<1> DEFINE n == Len(l)
<1>1. n \in Nat /\ Len(m) = n - 1 /\ n \in 1..n /\ i \in 1..Len(m)
      /\ \A k \in 1..Len(m) : k \in 1..n
  BY LitsAre
<1>2. ASSUME NEW p \in 1..Len(m), NEW q \in 1..Len(m), p < q, p < i
      PROVE  Abs(m[p]) < Abs(m[q])
  <2>1. p # j /\ m[p] = l[p] /\ p < n /\ p \in 1..n /\ q \in 1..n
    <3>1. p \in Nat /\ p <= n - 1 /\ p # j /\ p \in 1..n /\ q \in 1..n
      <4> HIDE DEF n
      <4> QED BY <1>1, <1>2
    <3>2. p < n
      <4> HIDE DEF n
      <4> QED BY <1>1, <3>1
    <3> QED BY <3>1, <3>2
  <2>2. Abs(l[p]) < Abs(l[q]) /\ Abs(l[p]) < Abs(l[n])
    BY <1>1, <1>2, <2>1 DEF Rising
  <2>3. m[q] \in {l[n], l[q]}
    OBVIOUS
  <2> QED BY <2>1, <2>2, <2>3
<1>3. ASSUME NEW q \in 1..Len(m), i < q, q < j
      PROVE  Abs(m[i]) < Abs(m[q])
  <2>1. q # j /\ i # j /\ m[i] = l[i] /\ m[q] = l[q] /\ q \in 1..n
    BY <1>1, <1>3
  <2> QED BY <1>3, <2>1 DEF RowDone
<1>4. ASSUME NEW k \in 1..Len(m) PROVE m[k] \in ToSet(l)
  <2>1. m[k] = l[n] \/ m[k] = l[k]
    OBVIOUS
  <2> QED BY <1>1, <2>1, LitsAre
<1>5. ASSUME NEW k \in 1..n PROVE l[k] \in ToSet(m)
  <2>1. CASE k # j /\ k # n
    <3>1. k \in 1..Len(m)
      <4> HIDE DEF n
      <4> QED BY <1>1, <2>1
    <3>2. m[k] = l[k]
      BY <2>1, <3>1
    <3> QED BY <3>1, <3>2, LitsAre
  <2>2. CASE k = j
    <3>1. m[i] = l[i] /\ l[k] = l[i]
      BY <1>1, <2>2
    <3> QED BY <1>1, <3>1, LitsAre
  <2>3. CASE k = n /\ k # j
    <3>1. j \in 1..Len(m)
      <4>1. j \in 1..n /\ j # n
        BY <2>3
      <4> HIDE DEF n
      <4> QED BY <1>1, <4>1
    <3>2. m[j] = l[n]
      BY <3>1
    <3> QED BY <2>3, <3>1, <3>2, LitsAre
  <2> QED BY <2>1, <2>2, <2>3
<1>6. ToSet(m) = ToSet(l)
  BY <1>4, <1>5, SameSet
<1> QED BY <1>2, <1>3, <1>6 DEF Rising, RowDone

(* Where the loops are after k turns: each takes them on. *)
Busy(t) == ~t.tautology /\ t.i < Len(t.lits)

Spent(i, j, n, m) == (i - 1) * m + (j - i - 1) + (m - n)

Progressed(t, k, m) ==
    /\ t.i < t.j /\ t.j <= Len(t.lits) + 1
    /\ k <= Spent(t.i, t.j, Len(t.lits), m)

Sorting(lits, t, k) ==
    /\ t \in SortStates
    /\ t.tautology => Tautological(lits)
    /\ ~t.tautology => /\ ToSet(t.lits) = ToSet(lits) /\ Rising(t.lits, t.i)
                       /\ Len(t.lits) <= Len(lits)
    /\ Busy(t) => RowDone(t.lits, t.i, t.j) /\ Progressed(t, k, Len(lits))

LEMMA SortingNextRow ==
    ASSUME NEW lits \in Seq(Int \ {0}), NEW k \in Nat, NEW t, Sorting(lits, t, k), Busy(t),
           t.j > Len(t.lits)
    PROVE  Sorting(lits, NextRow(t), k + 1)
<1> DEFINE u == NextRow(t)
           m == Len(lits)
           n == Len(t.lits)
<1>1. /\ t \in SortStates /\ t.lits \in Seq(Int \ {0}) /\ n \in Nat /\ m \in Nat
      /\ t.i \in Nat \ {0} /\ t.j \in Nat \ {0} /\ t.tautology = FALSE
  BY SortStateIs DEF Sorting, Busy
<1>2. /\ u.lits = t.lits /\ u.i = t.i + 1 /\ u.j = t.i + 2 /\ u.tautology = FALSE
      /\ u \in SortStates
  <2>1. t.i + 1 \in Nat \ {0} /\ t.i + 2 \in Nat \ {0}
    BY <1>1
  <2> QED BY <1>1, <2>1 DEF SortStates, NextRow
<1>3. ToSet(t.lits) = ToSet(lits) /\ Rising(t.lits, t.i) /\ n <= m
      /\ RowDone(t.lits, t.i, t.j) /\ Progressed(t, k, m) /\ t.i < n
  BY <1>1 DEF Sorting, Busy
<1>4. Rising(t.lits, t.i + 1) /\ RowDone(t.lits, t.i + 1, t.i + 2)
  BY <1>1, <1>3, RowAfterRow
<1> HIDE DEF u, m, n
<1>5. Busy(u) => Progressed(u, k + 1, m)
  <2> HAVE Busy(u)
  <2>1. t.i < t.j /\ t.j <= n + 1 /\ k <= (t.i - 1) * m + (t.j - t.i - 1) + (m - n)
    BY <1>3 DEF Progressed, Spent, n
  <2>2. u.i < n
    BY <1>2 DEF Busy, n
  <2>3. ((t.i + 1) - 1) * m = (t.i - 1) * m + m /\ (t.i - 1) * m \in Nat
    <3> DEFINE b == t.i - 1
    <3>1. b \in Nat /\ (t.i + 1) - 1 = b + 1
      BY <1>1
    <3> HIDE DEF b
    <3>2. (b + 1) * m = b * m + m /\ b * m \in Nat
      BY <1>1, <3>1
    <3>3. ((t.i + 1) - 1) * m = b * m + m
      BY <3>1, <3>2
    <3> QED BY <3>2, <3>3 DEF b
  <2>4. k + 1 <= Spent(t.i + 1, t.i + 2, n, m)
    <3> DEFINE a == (t.i - 1) * m
               b == ((t.i + 1) - 1) * m
    <3>1. a \in Nat /\ b = a + m /\ k <= a + (t.j - t.i - 1) + (m - n)
      BY <2>1, <2>3
    <3> HIDE DEF a, b
    <3>2. t.j - t.i - 1 <= m - 1
      BY <1>1, <1>3, <2>1
    <3>3. k + 1 <= b + 0 + (m - n)
      BY <1>1, <3>1, <3>2
    <3>4. (t.i + 2) - (t.i + 1) - 1 = 0
      BY <1>1
    <3>5. Spent(t.i + 1, t.i + 2, n, m) = b + ((t.i + 2) - (t.i + 1) - 1) + (m - n)
      BY Zenon DEF b, Spent
    <3> QED BY <3>3, <3>4, <3>5
  <2>5. u.i < u.j /\ u.j <= n + 1
    BY <1>1, <1>2, <2>2
  <2>6. Len(u.lits) = n
    BY <1>2 DEF n
  <2> QED BY <1>2, <2>4, <2>5, <2>6 DEF Progressed
<1> QED BY <1>2, <1>3, <1>4, <1>5 DEF Sorting, u, m, n

LEMMA SortingNextPair ==
    ASSUME NEW lits \in Seq(Int \ {0}), NEW k \in Nat, NEW t, Sorting(lits, t, k), Busy(t),
           t.j <= Len(t.lits), Abs(t.lits[t.i]) < Abs(t.lits[t.j])
    PROVE  Sorting(lits, NextPair(t), k + 1)
<1> DEFINE u == NextPair(t)
           m == Len(lits)
           n == Len(t.lits)
<1>1. /\ t \in SortStates /\ t.lits \in Seq(Int \ {0}) /\ n \in Nat /\ m \in Nat
      /\ t.i \in Nat \ {0} /\ t.j \in Nat \ {0} /\ t.tautology = FALSE
  BY SortStateIs DEF Sorting, Busy
<1>2. /\ u.lits = t.lits /\ u.i = t.i /\ u.j = t.j + 1 /\ u.tautology = FALSE
      /\ u \in SortStates
  <2>1. t.j + 1 \in Nat \ {0}
    BY <1>1
  <2> QED BY <1>1, <2>1 DEF SortStates, NextPair
<1>3. ToSet(t.lits) = ToSet(lits) /\ Rising(t.lits, t.i) /\ n <= m
      /\ RowDone(t.lits, t.i, t.j) /\ Progressed(t, k, m) /\ t.i < n
  BY <1>1 DEF Sorting, Busy
<1>4. t.i < t.j /\ t.j <= n
  BY <1>3 DEF Progressed
<1>0. k <= (t.i - 1) * m + (t.j - t.i - 1) + (m - n)
  BY <1>3 DEF Progressed, Spent
<1>5. RowDone(t.lits, t.i, t.j + 1)
  <2>1. t.i \in 1..Len(t.lits) /\ t.j \in 1..Len(t.lits)
    BY <1>1, <1>3, <1>4
  <2> QED BY <1>1, <1>3, <1>4, <2>1, PairAfterPair
<1> HIDE DEF u, m, n
<1>6. Progressed(u, k + 1, m)
  <2>1. k + 1 <= Spent(t.i, t.j + 1, n, m)
    <3> DEFINE a == (t.i - 1) * m
    <3>1. a \in Int
      BY <1>1
    <3>2. k <= a + (t.j - t.i - 1) + (m - n)
      BY <1>0
    <3> HIDE DEF a
    <3>3. k + 1 <= a + ((t.j + 1) - t.i - 1) + (m - n)
      BY <1>1, <3>1, <3>2
    <3>4. Spent(t.i, t.j + 1, n, m) = a + ((t.j + 1) - t.i - 1) + (m - n)
      BY Zenon DEF a, Spent
    <3> QED BY <3>3, <3>4
  <2>2. t.i < t.j + 1 /\ t.j + 1 <= n + 1
    BY <1>1, <1>4
  <2>3. Len(u.lits) = n
    BY <1>2 DEF n
  <2> QED BY <1>2, <2>1, <2>2, <2>3 DEF Progressed
<1> QED BY <1>2, <1>3, <1>5, <1>6 DEF Sorting, u, m, n

LEMMA SortingSwapped ==
    ASSUME NEW lits \in Seq(Int \ {0}), NEW k \in Nat, NEW t, Sorting(lits, t, k), Busy(t),
           t.j <= Len(t.lits), Abs(t.lits[t.i]) > Abs(t.lits[t.j])
    PROVE  Sorting(lits, Swapped(t), k + 1)
<1> DEFINE u == Swapped(t)
           m == Len(lits)
           n == Len(t.lits)
           l == t.lits
           s == [[l EXCEPT ![t.i] = l[t.j]] EXCEPT ![t.j] = l[t.i]]
<1>1. /\ t \in SortStates /\ l \in Seq(Int \ {0}) /\ n \in Nat /\ m \in Nat
      /\ t.i \in Nat \ {0} /\ t.j \in Nat \ {0} /\ t.tautology = FALSE
  BY SortStateIs DEF Sorting, Busy
<1>3. ToSet(t.lits) = ToSet(lits) /\ Rising(t.lits, t.i) /\ n <= m
      /\ RowDone(t.lits, t.i, t.j) /\ Progressed(t, k, m) /\ t.i < n
  BY <1>1 DEF Sorting, Busy
<1>4. t.i < t.j /\ t.j <= n
  BY <1>3 DEF Progressed
<1>0. k <= (t.i - 1) * m + (t.j - t.i - 1) + (m - n)
  BY <1>3 DEF Progressed, Spent
<1>5. t.i \in 1..n /\ t.j \in 1..n /\ t.i # t.j
  <2>1. t.i < n
    BY <1>3
  <2> HIDE DEF n, m, l
  <2> QED BY <1>1, <1>4, <2>1
<1>6. l[t.i] \in Int \ {0} /\ l[t.j] \in Int \ {0}
  BY <1>1, <1>5, LitsAre
<1>7. s \in Seq(Int \ {0}) /\ Len(s) = n /\ s[t.i] = l[t.j] /\ s[t.j] = l[t.i]
      /\ \A q \in 1..n : q # t.i /\ q # t.j => s[q] = l[q]
  BY <1>1, <1>5, <1>6
<1>2. /\ u.lits = s /\ u.i = t.i /\ u.j = t.j + 1 /\ u.tautology = FALSE
      /\ u \in SortStates
  <2>1. t.j + 1 \in Nat \ {0}
    BY <1>1
  <2>2. u = [t EXCEPT !.lits = s, !.j = t.j + 1]
    BY <1>1, <1>5 DEF SortStates, Swapped
  <2> HIDE DEF s, u
  <2> QED BY <1>1, <1>7, <2>1, <2>2 DEF SortStates
<1> HIDE DEF u, s
<1>8. Rising(s, t.i) /\ RowDone(s, t.i, t.j + 1) /\ ToSet(s) = ToSet(l)
  <2>1. t.i \in 1..Len(l) /\ t.j \in 1..Len(l) /\ Len(s) = Len(l)
    BY <1>5, <1>7
  <2>2. \A q \in 1..Len(l) : q # t.i /\ q # t.j => s[q] = l[q]
    BY <1>7
  <2>3. Rising(l, t.i) /\ RowDone(l, t.i, t.j) /\ Abs(l[t.i]) > Abs(l[t.j])
    BY <1>3
  <2> HIDE DEF l, n
  <2> QED BY <1>1, <1>4, <1>7, <2>1, <2>2, <2>3, PairSwapped
<1> HIDE DEF m, n, l
<1>9. Progressed(u, k + 1, m)
  <2>1. k + 1 <= Spent(t.i, t.j + 1, n, m)
    <3> DEFINE a == (t.i - 1) * m
    <3>1. a \in Int
      BY <1>1
    <3>2. k <= a + (t.j - t.i - 1) + (m - n)
      BY <1>0
    <3> HIDE DEF a
    <3>3. k + 1 <= a + ((t.j + 1) - t.i - 1) + (m - n)
      BY <1>1, <3>1, <3>2
    <3>4. Spent(t.i, t.j + 1, n, m) = a + ((t.j + 1) - t.i - 1) + (m - n)
      BY Zenon DEF a, Spent
    <3> QED BY <3>3, <3>4
  <2>2. t.i < t.j + 1 /\ t.j + 1 <= n + 1
    BY <1>1, <1>4, <1>5
  <2> QED BY <1>2, <1>7, <2>1, <2>2 DEF Progressed
<1>10. ToSet(u.lits) = ToSet(lits) /\ Rising(u.lits, u.i) /\ Len(u.lits) <= Len(lits)
       /\ RowDone(u.lits, u.i, u.j)
  BY <1>2, <1>3, <1>7, <1>8 DEF m, n, l
<1>11. Progressed(u, k + 1, Len(lits))
  BY <1>9 DEF m
<1> QED BY <1>2, <1>10, <1>11 DEF Sorting, u

LEMMA SortingShortened ==
    ASSUME NEW lits \in Seq(Int \ {0}), NEW k \in Nat, NEW t, Sorting(lits, t, k), Busy(t),
           t.j <= Len(t.lits), t.lits[t.i] = t.lits[t.j]
    PROVE  Sorting(lits, Shortened(t), k + 1)
<1> DEFINE u == Shortened(t)
           m == Len(lits)
           n == Len(t.lits)
           l == t.lits
           e == [l EXCEPT ![t.j] = l[n]]
           s == Front(e)
<1>1. /\ t \in SortStates /\ l \in Seq(Int \ {0}) /\ n \in Nat /\ m \in Nat
      /\ t.i \in Nat \ {0} /\ t.j \in Nat \ {0} /\ t.tautology = FALSE
  BY SortStateIs DEF Sorting, Busy
<1>2. ToSet(t.lits) = ToSet(lits) /\ Rising(t.lits, t.i) /\ n <= m
      /\ RowDone(t.lits, t.i, t.j) /\ Progressed(t, k, m) /\ t.i < n
  BY <1>1 DEF Sorting, Busy
<1>3. t.i < t.j /\ t.j <= n
  BY <1>2 DEF Progressed
<1>0. k <= (t.i - 1) * m + (t.j - t.i - 1) + (m - n)
  BY <1>2 DEF Progressed, Spent
<1>4. t.i \in 1..n /\ t.j \in 1..n /\ n \in 1..n
  <2>1. t.i < n
    BY <1>2
  <2> HIDE DEF n, m, l
  <2> QED BY <1>1, <1>3, <2>1
<1>5. l[n] \in Int \ {0}
  BY <1>1, <1>4, LitsAre
<1>6. e \in Seq(Int \ {0}) /\ Len(e) = n /\ Len(e) # 0
      /\ \A q \in 1..n : e[q] = IF q = t.j THEN l[n] ELSE l[q]
  BY <1>1, <1>4, <1>5
<1> HIDE DEF e
<1>7. s \in Seq(Int \ {0}) /\ Len(s) = n - 1 /\ \A q \in 1..(n - 1) : s[q] = e[q]
  BY <1>6, FrontIs
<1>8. \A q \in 1..Len(s) : s[q] = IF q = t.j THEN l[n] ELSE l[q]
  <2> TAKE q \in 1..Len(s)
  <2>1. q \in 1..n /\ q \in 1..(n - 1)
    BY <1>1, <1>7
  <2> QED BY <1>6, <1>7, <2>1
<1>9. /\ u.lits = s /\ u.i = t.i /\ u.j = t.j /\ u.tautology = FALSE
      /\ u \in SortStates
  <2>1. u = [t EXCEPT !.lits = s]
    BY <1>1 DEF SortStates, Shortened, e
  <2> HIDE DEF s, u
  <2> QED BY <1>1, <1>7, <2>1 DEF SortStates
<1> HIDE DEF u, s
<1>10. Rising(s, t.i) /\ RowDone(s, t.i, t.j) /\ ToSet(s) = ToSet(l)
  <2>1. t.i \in 1..Len(l) /\ t.j \in 1..Len(l) /\ Len(s) = Len(l) - 1
    BY <1>4, <1>7
  <2>2. \A q \in 1..Len(s) : s[q] = IF q = t.j THEN l[Len(l)] ELSE l[q]
    BY <1>8
  <2>3. l[t.i] = l[t.j] /\ t.i < t.j /\ Rising(l, t.i) /\ RowDone(l, t.i, t.j)
    BY <1>2, <1>3
  <2> HIDE DEF l, n
  <2> QED BY <1>1, <1>7, <2>1, <2>2, <2>3, PairShortened
<1> HIDE DEF m, n, l
<1>11. Progressed(u, k + 1, m)
  <2>1. k + 1 <= Spent(t.i, t.j, n - 1, m)
    <3> DEFINE a == (t.i - 1) * m
    <3>1. a \in Int
      BY <1>1
    <3>2. k <= a + (t.j - t.i - 1) + (m - n)
      BY <1>0
    <3> HIDE DEF a
    <3>3. k + 1 <= a + (t.j - t.i - 1) + (m - (n - 1))
      BY <1>1, <3>1, <3>2
    <3>4. Spent(t.i, t.j, n - 1, m) = a + (t.j - t.i - 1) + (m - (n - 1))
      BY Zenon DEF a, Spent
    <3> QED BY <3>3, <3>4
  <2>2. t.i < t.j /\ t.j <= (n - 1) + 1
    BY <1>1, <1>3, <1>4
  <2> QED BY <1>7, <1>9, <2>1, <2>2 DEF Progressed
<1>12. Len(s) <= m
  BY <1>1, <1>2, <1>7 DEF n
<1>13. ToSet(u.lits) = ToSet(lits) /\ Rising(u.lits, u.i) /\ Len(u.lits) <= Len(lits)
       /\ RowDone(u.lits, u.i, u.j)
  BY <1>2, <1>9, <1>10, <1>12 DEF m, n, l
<1>14. Progressed(u, k + 1, Len(lits))
  BY <1>11 DEF m
<1> QED BY <1>9, <1>13, <1>14 DEF Sorting, u

LEMMA SortingShown ==
    ASSUME NEW lits \in Seq(Int \ {0}), NEW k \in Nat, NEW t, Sorting(lits, t, k), Busy(t),
           t.j <= Len(t.lits), t.lits[t.i] = 0 - t.lits[t.j]
    PROVE  Sorting(lits, Shown(t), k + 1)
<1> DEFINE l == t.lits
<1>1. /\ t \in SortStates /\ l \in Seq(Int \ {0})
      /\ t.i \in Nat \ {0} /\ t.j \in Nat \ {0} /\ t.tautology = FALSE /\ Len(l) \in Nat
  BY SortStateIs DEF Sorting, Busy
<1>2. ToSet(l) = ToSet(lits) /\ t.i < Len(l) /\ t.j <= Len(l)
  BY <1>1 DEF Sorting, Busy
<1>3. t.i \in 1..Len(l) /\ t.j \in 1..Len(l)
  BY <1>1, <1>2
<1>4. l[t.j] \in ToSet(l) /\ 0 - l[t.j] \in ToSet(l)
  <2>1. l[t.i] = 0 - l[t.j]
    OBVIOUS
  <2> HIDE DEF l
  <2>2. l[t.i] \in ToSet(l) /\ l[t.j] \in ToSet(l)
    BY <1>1, <1>3, LitsAre
  <2> QED BY <2>1, <2>2
<1>5. Tautological(lits)
  <2> HIDE DEF l
  <2> QED BY <1>2, <1>4 DEF Tautological
<1>6. Shown(t) \in SortStates /\ Shown(t).tautology = TRUE
  BY <1>1 DEF Shown, SortStates
<1> QED BY <1>5, <1>6 DEF Sorting, Busy

LEMMA SortingStep ==
    ASSUME NEW lits \in Seq(Int \ {0}), NEW k \in Nat, NEW t, Sorting(lits, t, k)
    PROVE  Sorting(lits, SortStep(t), k + 1)
<1> DEFINE n == Len(t.lits)
           a == t.lits[t.i]
           b == t.lits[t.j]
<1>1. /\ t \in SortStates /\ n \in Nat /\ t.tautology \in BOOLEAN
      /\ t.i \in Nat /\ t.j \in Nat
  BY SortStateIs DEF Sorting
<1>2. CASE ~Busy(t)
  <2>1. t.tautology \/ t.i >= n
    BY <1>1, <1>2 DEF Busy
  <2>2. SortStep(t) = t
    BY <1>1, <2>1, SortStepEnds
  <2> QED BY <1>2, <2>2 DEF Sorting
<1>3. CASE Busy(t) /\ t.j > n
  <2>1. SortStep(t) = NextRow(t)
    BY <1>1, <1>3, SortStepEnds DEF Busy
  <2> QED BY <1>3, <2>1, SortingNextRow
<1>4. CASE Busy(t) /\ t.j <= n
  <2>1. ~t.tautology /\ t.i < Len(t.lits) /\ t.j <= Len(t.lits)
    BY <1>4 DEF Busy
  <2>2. /\ Abs(a) > Abs(b) => SortStep(t) = Swapped(t)
        /\ a = b => SortStep(t) = Shortened(t)
        /\ a = 0 - b => SortStep(t) = Shown(t)
        /\ Abs(a) < Abs(b) => SortStep(t) = NextPair(t)
        /\ Abs(a) > Abs(b) \/ a = b \/ a = 0 - b \/ Abs(a) < Abs(b)
    BY <1>1, <2>1, SortStepCases
  <2>3. CASE Abs(a) > Abs(b)
    <3>1. SortStep(t) = Swapped(t)
      BY <2>2, <2>3
    <3> QED BY <1>4, <2>3, <3>1, SortingSwapped
  <2>4. CASE a = b
    <3>1. SortStep(t) = Shortened(t)
      BY <2>2, <2>4
    <3> QED BY <1>4, <2>4, <3>1, SortingShortened
  <2>5. CASE a = 0 - b
    <3>1. SortStep(t) = Shown(t)
      BY <2>2, <2>5
    <3> QED BY <1>4, <2>5, <3>1, SortingShown
  <2>6. CASE Abs(a) < Abs(b)
    <3>1. SortStep(t) = NextPair(t)
      BY <2>2, <2>6
    <3> QED BY <1>4, <2>6, <3>1, SortingNextPair
  <2> HIDE DEF a, b
  <2> QED BY <2>2, <2>3, <2>4, <2>5, <2>6
<1> QED BY <1>1, <1>2, <1>3, <1>4

LEMMA SortingFirst ==
    ASSUME NEW lits \in Seq(Int \ {0})
    PROVE  Sorting(lits, SortBase(lits), 0)
<1> DEFINE t == SortBase(lits)
           m == Len(lits)
<1>1. /\ t \in SortStates /\ t.lits = lits /\ t.i = 1 /\ t.j = 2 /\ t.tautology = FALSE
      /\ m \in Nat
  BY DEF SortBase, SortStates
<1>2. Rising(lits, 1) /\ RowDone(lits, 1, 2)
  BY <1>1 DEF Rising, RowDone
<1>3. Busy(t) => Progressed(t, 0, m)
  <2> HAVE Busy(t)
  <2>1. 1 < m
    BY <1>1 DEF Busy
  <2>2. Spent(1, 2, m, m) = 0
    BY <1>1 DEF Spent
  <2> HIDE DEF t, m
  <2> QED BY <1>1, <2>1, <2>2 DEF Progressed, m
<1>4. Len(lits) <= Len(lits)
  BY <1>1
<1>5. Busy(t) => RowDone(t.lits, t.i, t.j) /\ Progressed(t, 0, Len(lits))
  BY <1>1, <1>2, <1>3
<1>6. ToSet(t.lits) = ToSet(lits) /\ Rising(t.lits, t.i) /\ Len(t.lits) <= Len(lits)
  BY <1>1, <1>2, <1>4
<1> HIDE DEF t
<1> QED BY <1>1, <1>5, <1>6 DEF Sorting, t

(* After that many turns the loops are done. *)
LEMMA SortingEnds ==
    ASSUME NEW lits \in Seq(Int \ {0}), NEW t, Sorting(lits, t, SortTurnsOf(lits))
    PROVE  ~Busy(t)
<1> SUFFICES ASSUME Busy(t) PROVE FALSE
  OBVIOUS
<1> DEFINE n == Len(t.lits)
           m == Len(lits)
           a == t.i * m
           c == m * m
<1>1. /\ t \in SortStates /\ n \in Nat /\ m \in Nat /\ t.tautology = FALSE
      /\ t.i \in Nat \ {0} /\ t.j \in Nat \ {0}
  BY SortStateIs DEF Sorting, Busy
<1>2. t.i < n /\ n <= m /\ Progressed(t, SortTurnsOf(lits), m)
  BY <1>1 DEF Sorting, Busy
<1>3. t.j <= n + 1 /\ SortTurnsOf(lits) <= Spent(t.i, t.j, n, m)
  BY <1>2 DEF Progressed
<1>4. SortTurnsOf(lits) = m * (m + 1)
  BY DEF SortTurnsOf
<1> HIDE DEF n, m
<1>5. a \in Nat /\ c \in Nat
  BY <1>1
<1>6. m * (m + 1) = c + m
  BY <1>1
<1>7. (t.i - 1) * m = a - m
  BY <1>1
<1>8. a <= c
  <2> DEFINE d == m - t.i
  <2>1. d \in Nat /\ m = d + t.i
    BY <1>1, <1>2
  <2> HIDE DEF d
  <2>2. d * m \in Nat
    BY <1>1, <2>1
  <2>3. (d + t.i) * m = d * m + t.i * m
    BY <1>1, <2>1
  <2>4. c = d * m + a
    BY <2>1, <2>3
  <2> HIDE DEF a, c
  <2> QED BY <1>5, <2>2, <2>4
<1>9. Spent(t.i, t.j, n, m) = (t.i - 1) * m + (t.j - t.i - 1) + (m - n)
  BY Zenon DEF Spent
<1> HIDE DEF a, c
<1>10. c + m <= (a - m) + (t.j - t.i - 1) + (m - n)
  BY <1>3, <1>4, <1>6, <1>7, <1>9
<1> QED BY <1>1, <1>2, <1>3, <1>5, <1>8, <1>10

(* isTautologicalClause finds a literal with its negation, or leaves each   *)
(* literal once.                                                            *)
InOrderOfVariables(l) == \A p, q \in 1..Len(l) : p < q => Abs(l[p]) < Abs(l[q])

LEMMA SortedIs ==
    ASSUME NEW lits \in Seq(Int \ {0})
    PROVE  /\ Sorted(lits).tautology => Tautological(lits)
           /\ ~Sorted(lits).tautology => /\ ToSet(Sorted(lits).lits) = ToSet(lits)
                                         /\ InOrderOfVariables(Sorted(lits).lits)
<1> DEFINE n == SortTurnsOf(lits)
           t == Sorted(lits)
<1>1. PICK G : SortTurns(lits, G)
  BY SortLoop
<1>2. n \in Nat
  <2>1. Len(lits) \in Nat
    OBVIOUS
  <2>2. Len(lits) * (Len(lits) + 1) \in Nat
    BY <2>1
  <2> QED BY <2>2 DEF SortTurnsOf
<1>3. G[0] = SortBase(lits) /\ (\A k \in 1..n : G[k] = SortStep(G[k - 1])) /\ t = G[n]
  BY <1>1 DEF SortTurns
<1> HIDE DEF n
<1> DEFINE T == {k \in 0..n : Sorting(lits, G[k], k)}
<1>4. 0 \in T
  BY <1>2, <1>3, SortingFirst
<1>5. ASSUME NEW k \in 1..n, k - 1 \in T PROVE k \in T
  <2>1. k - 1 \in Nat /\ (k - 1) + 1 = k
    BY <1>2
  <2>2. Sorting(lits, G[k - 1], k - 1)
    BY <1>5
  <2>3. Sorting(lits, SortStep(G[k - 1]), (k - 1) + 1)
    BY <2>1, <2>2, SortingStep
  <2> QED BY <1>3, <2>1, <2>3
<1>6. \A k \in 0..n : k \in T
  <2> HIDE DEF T
  <2> QED BY <1>2, <1>4, <1>5, UpTo
<1>7. Sorting(lits, t, n)
  BY <1>2, <1>3, <1>6
<1> HIDE DEF t
<1>8. ~Busy(t)
  BY <1>7, SortingEnds DEF n
<1>9. t \in SortStates /\ t.tautology \in BOOLEAN /\ t.i \in Nat /\ Len(t.lits) \in Nat
  BY <1>7, SortStateIs DEF Sorting
<1>10. t.tautology => Tautological(lits)
  BY <1>7 DEF Sorting
<1>11. ASSUME ~t.tautology PROVE ToSet(t.lits) = ToSet(lits) /\ InOrderOfVariables(t.lits)
  <2>1. ToSet(t.lits) = ToSet(lits) /\ Rising(t.lits, t.i) /\ t.i >= Len(t.lits)
    BY <1>7, <1>8, <1>9, <1>11 DEF Sorting, Busy
  <2>2. ASSUME NEW p \in 1..Len(t.lits), NEW q \in 1..Len(t.lits), p < q PROVE p < t.i
    BY <1>9, <2>1, <2>2
  <2> QED BY <2>1, <2>2 DEF Rising, InOrderOfVariables
<1> QED BY <1>10, <1>11 DEF t

LEMMA InOrderIs ==
    ASSUME NEW l \in Seq(Int \ {0}), InOrderOfVariables(l)
    PROVE  /\ ~Tautological(l)
           /\ \A p, q \in 1..Len(l) : l[p] = l[q] => p = q
           /\ IsFiniteSet(ToSet(l)) /\ Cardinality(ToSet(l)) = Len(l)
<1>1. ASSUME NEW p \in 1..Len(l), NEW q \in 1..Len(l), Abs(l[p]) = Abs(l[q]) PROVE p = q
  <2>1. ~(p < q) /\ ~(q < p)
    BY <1>1, LitsAre DEF InOrderOfVariables
  <2> QED BY <2>1
<1>2. \A p, q \in 1..Len(l) : l[p] = l[q] => p = q
  BY <1>1
<1>3. ~Tautological(l)
  <2> SUFFICES ASSUME NEW e \in ToSet(l), 0 - e \in ToSet(l) PROVE FALSE
    BY DEF Tautological
  <2>1. PICK p \in 1..Len(l) : l[p] = e
    BY LitsAre
  <2>2. PICK q \in 1..Len(l) : l[q] = 0 - e
    BY LitsAre
  <2>3. e \in Int /\ e # 0
    BY <2>1, LitsAre
  <2>4. Abs(0 - e) = Abs(e)
    BY <2>3, AbsIs
  <2>5. p = q
    BY <1>1, <2>1, <2>2, <2>4
  <2>6. e = 0 - e
    BY <2>1, <2>2, <2>5
  <2> QED BY <2>3, <2>6
<1>4. IsFiniteSet(ToSet(l)) /\ Cardinality(ToSet(l)) = Len(l)
  <2> DEFINE n == Len(l)
             f == [k \in 1..n |-> l[k]]
  <2>1. n \in Nat /\ IsFiniteSet(1..n) /\ Cardinality(1..n) = n
    <3>1. n \in Nat
      OBVIOUS
    <3> HIDE DEF n
    <3>2. Cardinality(1..n) = n /\ IsFiniteSet(1..n)
      BY <3>1, FS_Interval
    <3> QED BY <3>1, <3>2
  <2>2. \A k \in 1..n : l[k] \in ToSet(l)
    BY LitsAre
  <2>3. \A e \in ToSet(l) : \E k \in 1..n : l[k] = e
    BY LitsAre
  <2> HIDE DEF n, ToSet
  <2>4. f \in Bijection(1..n, ToSet(l))
    BY <1>2, <2>2, <2>3 DEF n, Bijection, Injection, Surjection, IsInjective
  <2>5. Cardinality(1..n) = Cardinality(ToSet(l)) /\ IsFiniteSet(ToSet(l))
    BY <2>1, <2>4, FS_Bijection DEF ExistsBijection
  <2> QED BY <2>1, <2>5 DEF n
<1> QED BY <1>2, <1>3, <1>4

Literal == ((-NumVars)..NumVars) \ {0}

(* Whether e is among the first k, as a number. *)
Seen(l, k, e) == IF \E q \in 1..k : l[q] = e THEN 1 ELSE 0

LEMMA SeenNext ==
    ASSUME NEW l, NEW k \in Nat, k # 0, \A q \in 1..(k - 1) : l[q] # l[k], NEW e
    PROVE  /\ Seen(l, k, e) \in Nat /\ Seen(l, k - 1, e) \in Nat
           /\ Seen(l, k, e) = Seen(l, k - 1, e) + (IF l[k] = e THEN 1 ELSE 0)
<1>1. \A q : q \in 1..k <=> q \in 1..(k - 1) \/ q = k
  OBVIOUS
<1>2. (\E q \in 1..k : l[q] = e) <=> (\E q \in 1..(k - 1) : l[q] = e) \/ l[k] = e
  BY <1>1
<1>3. l[k] = e => ~\E q \in 1..(k - 1) : l[q] = e
  OBVIOUS
<1> QED BY <1>2, <1>3 DEF Seen

LEMMA BumpedAt ==
    ASSUME NEW f \in [1..NumVars -> Nat], NEW x \in 1..NumVars
    PROVE  /\ Bump(f, x) \in [1..NumVars -> Nat]
           /\ \A v \in 1..NumVars : Bump(f, x)[v] = f[v] + (IF v = x THEN 1 ELSE 0)
  BY DEF Bump

(* A literal is counted for its variable. *)
LEMMA TurnCounts ==
    ASSUME NEW t \in MsiSet, NEW l \in Literal, NEW v \in 1..NumVars
    PROVE  /\ CountTurn(t, l).pos[v] = t.pos[v] + (IF l = v THEN 1 ELSE 0)
           /\ CountTurn(t, l).neg[v] = t.neg[v] + (IF l = 0 - v THEN 1 ELSE 0)
<1>1. t.neg \in [1..NumVars -> Nat] /\ t.pos \in [1..NumVars -> Nat]
      /\ NumVars \in Nat /\ l \in Int /\ v \in Nat /\ v # 0
  BY NumVarsAssumption DEF MsiSet, Literal
<1>2. t.neg[v] \in Nat /\ t.pos[v] \in Nat
  BY <1>1
<1>3. CASE l < 0
  <2>1. 0 - l \in 1..NumVars
    BY <1>1, <1>3 DEF Literal
  <2>2. CountTurn(t, l).neg = Bump(t.neg, 0 - l) /\ CountTurn(t, l).pos = t.pos
    BY <1>3 DEF CountTurn, MsiSet
  <2>3. Bump(t.neg, 0 - l)[v] = t.neg[v] + (IF v = 0 - l THEN 1 ELSE 0)
    BY <1>1, <2>1, BumpedAt
  <2>4. (v = 0 - l <=> l = 0 - v) /\ l # v
    BY <1>1, <1>3
  <2> QED BY <1>2, <2>2, <2>3, <2>4
<1>4. CASE ~(l < 0)
  <2>1. l \in 1..NumVars
    BY <1>1, <1>4 DEF Literal
  <2>2. CountTurn(t, l).pos = Bump(t.pos, l) /\ CountTurn(t, l).neg = t.neg
    BY <1>4 DEF CountTurn, MsiSet
  <2>3. Bump(t.pos, l)[v] = t.pos[v] + (IF v = l THEN 1 ELSE 0)
    BY <1>1, <2>1, BumpedAt
  <2>4. (v = l <=> l = v) /\ l # 0 - v
    BY <1>1, <1>4
  <2> QED BY <1>2, <2>2, <2>3, <2>4
<1> QED BY <1>3, <1>4

LEMMA CountLitsIs ==
    ASSUME NEW m \in MsiSet, NEW lits \in Seq(Literal),
           \A p, q \in 1..Len(lits) : lits[p] = lits[q] => p = q,
           NEW v \in 1..NumVars
    PROVE  /\ CountLits(m, lits).pos[v] = m.pos[v] + (IF v \in ToSet(lits) THEN 1 ELSE 0)
           /\ CountLits(m, lits).neg[v] = m.neg[v] + (IF 0 - v \in ToSet(lits) THEN 1 ELSE 0)
<1> DEFINE n == Len(lits)
<1>1. n \in Nat /\ lits \in Seq(Int) /\ DOMAIN lits = 1..n /\ \A k \in 1..n : lits[k] \in Literal
  BY DEF Literal
<1>2. PICK G : CountLitsTurns(m, lits, G)
  BY <1>1, CountLitsLoop
<1>3. /\ G \in [0..n -> Counters(m)] /\ G[0] = m /\ CountLits(m, lits) = G[n]
      /\ \A k \in 1..n : G[k] = CountTurn(G[k - 1], lits[k])
  BY <1>2 DEF CountLitsTurns
<1> HIDE DEF n
<1>4. m.pos[v] \in Nat /\ m.neg[v] \in Nat
  BY DEF MsiSet
<1> DEFINE T == {k \in 0..n : /\ G[k].pos[v] = m.pos[v] + Seen(lits, k, v)
                              /\ G[k].neg[v] = m.neg[v] + Seen(lits, k, 0 - v)}
<1>5. 0 \in T
  <2>1. Seen(lits, 0, v) = 0 /\ Seen(lits, 0, 0 - v) = 0
    BY DEF Seen
  <2> QED BY <1>1, <1>3, <1>4, <2>1
<1>6. ASSUME NEW k \in 1..n, k - 1 \in T PROVE k \in T
  <2>1. k - 1 \in 0..n /\ k \in Nat /\ k # 0 /\ k \in 0..n
    BY <1>1
  <2>2. G[k - 1] \in MsiSet
    BY <1>3, <2>1 DEF Counters
  <2>3. /\ G[k].pos[v] = G[k - 1].pos[v] + (IF lits[k] = v THEN 1 ELSE 0)
        /\ G[k].neg[v] = G[k - 1].neg[v] + (IF lits[k] = 0 - v THEN 1 ELSE 0)
    BY <1>1, <1>3, <2>2, TurnCounts
  <2>4. \A q \in 1..(k - 1) : lits[q] # lits[k]
    <3> TAKE q \in 1..(k - 1)
    <3>1. q \in 1..n /\ k \in 1..n /\ q # k
      BY <1>1
    <3> QED BY <3>1 DEF n
  <2>5. ASSUME NEW e
        PROVE  /\ Seen(lits, k - 1, e) \in Nat
               /\ Seen(lits, k, e) = Seen(lits, k - 1, e) + (IF lits[k] = e THEN 1 ELSE 0)
    BY <2>1, <2>4, SeenNext
  <2>6. /\ G[k - 1].pos[v] = m.pos[v] + Seen(lits, k - 1, v)
        /\ G[k - 1].neg[v] = m.neg[v] + Seen(lits, k - 1, 0 - v)
    BY <1>6
  <2>7. G[k].pos[v] = m.pos[v] + Seen(lits, k, v)
    <3>1. /\ Seen(lits, k - 1, v) \in Nat
          /\ Seen(lits, k, v) = Seen(lits, k - 1, v) + (IF lits[k] = v THEN 1 ELSE 0)
      BY <2>5
    <3> QED BY <1>4, <2>3, <2>6, <3>1
  <2>8. G[k].neg[v] = m.neg[v] + Seen(lits, k, 0 - v)
    <3>1. /\ Seen(lits, k - 1, 0 - v) \in Nat
          /\ Seen(lits, k, 0 - v) = Seen(lits, k - 1, 0 - v) + (IF lits[k] = 0 - v THEN 1 ELSE 0)
      BY <2>5
    <3> QED BY <1>4, <2>3, <2>6, <3>1
  <2> QED BY <2>1, <2>7, <2>8
<1>7. \A k \in 0..n : k \in T
  <2> HIDE DEF T
  <2> QED BY <1>1, <1>5, <1>6, UpTo
<1>8. n \in T
  BY <1>1, <1>7
<1>9. \A e : Seen(lits, n, e) = IF e \in ToSet(lits) THEN 1 ELSE 0
  BY <1>1 DEF Seen, ToSet
<1> HIDE DEF ToSet
<1> QED BY <1>3, <1>8, <1>9

(* The fields of MaxSatInstance when a clause of so many literals was       *)
(* counted.                                                                 *)
LEMMA CountFields ==
    ASSUME NEW m \in MsiSet, NEW lits \in Seq(Literal),
           \A p, q \in 1..Len(lits) : lits[p] = lits[q] => p = q,
           NEW t, t = Count(m, lits)
    PROVE  /\ t \in MsiSet /\ t.numClauses = m.numClauses /\ t.hardClauses = m.hardClauses
           /\ t.hNum = IF m.hardClauses THEN m.hNum + 1 ELSE m.hNum
           /\ t.h = IF m.hardClauses THEN Bump(m.h, Len(lits)) ELSE m.h
           /\ t.s = IF m.hardClauses THEN m.s ELSE Bump(m.s, Len(lits))
           /\ \A v \in 1..NumVars :
                 /\ t.pos[v] = m.pos[v] + (IF v \in ToSet(lits) THEN 1 ELSE 0)
                 /\ t.neg[v] = m.neg[v] + (IF 0 - v \in ToSet(lits) THEN 1 ELSE 0)
<1> DEFINE n == Len(lits)
           u == IF m.hardClauses THEN [m EXCEPT !.hNum = @ + 1, !.h = Bump(@, n)]
                                 ELSE [m EXCEPT !.s = Bump(@, n)]
<1>1. m.hNum + 1 \in Nat /\ m.h \in [Sizes -> Nat] /\ m.s \in [Sizes -> Nat]
      /\ lits \in Seq(Int)
  BY DEF MsiSet, Literal
<1>2. Bump(m.h, n) \in [Sizes -> Nat] /\ Bump(m.s, n) \in [Sizes -> Nat]
  BY <1>1, Bumped
<1>3. /\ u \in MsiSet /\ u.numClauses = m.numClauses /\ u.hardClauses = m.hardClauses
      /\ u.pos = m.pos /\ u.neg = m.neg
      /\ u.hNum = IF m.hardClauses THEN m.hNum + 1 ELSE m.hNum
      /\ u.h = IF m.hardClauses THEN Bump(m.h, n) ELSE m.h
      /\ u.s = IF m.hardClauses THEN m.s ELSE Bump(m.s, n)
  BY <1>1, <1>2 DEF MsiSet
<1>4. t = CountLits(u, lits)
  BY DEF Count
<1> HIDE DEF u
<1>5. t \in Counters(u)
  BY <1>1, <1>3, <1>4, CountLitsTyped
<1>6. t \in MsiSet /\ t = [u EXCEPT !.neg = t.neg, !.pos = t.pos]
  BY <1>5 DEF Counters
<1>7. /\ t.numClauses = u.numClauses /\ t.hNum = u.hNum /\ t.hardClauses = u.hardClauses
      /\ t.h = u.h /\ t.s = u.s
  BY <1>3, <1>6 DEF MsiSet
<1>8. \A v \in 1..NumVars :
         /\ t.pos[v] = m.pos[v] + (IF v \in ToSet(lits) THEN 1 ELSE 0)
         /\ t.neg[v] = m.neg[v] + (IF 0 - v \in ToSet(lits) THEN 1 ELSE 0)
  <2> TAKE v \in 1..NumVars
  <2>1. /\ CountLits(u, lits).pos[v] = u.pos[v] + (IF v \in ToSet(lits) THEN 1 ELSE 0)
        /\ CountLits(u, lits).neg[v] = u.neg[v] + (IF 0 - v \in ToSet(lits) THEN 1 ELSE 0)
    BY <1>3, CountLitsIs
  <2> HIDE DEF ToSet
  <2> QED BY <1>3, <1>4, <2>1
<1> HIDE DEF ToSet
<1> QED BY <1>3, <1>6, <1>7, <1>8

(* A line with a clause is not taken for a section. *)
LEMMA ClauseIsNoSection ==
    ASSUME NEW x \in Lines, x.kind = "clause", NEW format, format # "wcnf",
           NEW c \in Seq(Tokens)
    PROVE  ~StartsWith(LineText(format, x) \o c, "p")
<1> DEFINE a == Before(format, x)
           d == LitsText(x.lits)
           f == <<Num(0)>> \o (<<NL>> \o c)
           b == a \o d
<1>1. LineText(format, x) \o c = a \o (d \o f) /\ <<NL>> \o c \in Seq(Tokens)
  BY ClauseText, ZenonT(30)
<1>2. a \in Seq(Tokens) /\ NoStop(a)
  BY BeforeIs
<1>3. d \in Seq(Tokens) /\ NoStop(d)
  <2>1. x.lits \in Seq(Int \ {0})
    BY LineTypes
  <2> QED BY <2>1, LitsTextIs
<1>4. Num(0) \in Tokens /\ <<Num(0)>> \in Seq(Tokens) /\ Num(0).kind = "number"
  BY TokenTypes DEF Num
<1>5. f \in Seq(Tokens) /\ Head(f) = Num(0) /\ f # <<>>
  <2>1. f \in Seq(Tokens)
    BY <1>1, <1>4, ConcatProperties
  <2> QED BY <1>1, <1>4, <2>1, TailOfOne
<1> HIDE DEF a, d, f
<1>6. b \in Seq(Tokens) /\ NoStop(b)
  BY <1>2, <1>3, StopsCat
<1>7. a \o (d \o f) = b \o f
  BY <1>2, <1>3, <1>5, TextCat
<1> HIDE DEF b
<1>8. CASE b = <<>>
  <2>1. b \o f = f
    BY <1>5, <1>8, ConcatEmptySeq
  <2> QED BY <1>1, <1>4, <1>5, <1>7, <2>1 DEF StartsWith
<1>9. CASE b # <<>>
  <2>1. Len(b) \in Nat /\ 1 \in 1..Len(b) /\ b[1] \in Tokens
    BY <1>6, <1>9
  <2>2. ~Stops(b[1])
    BY <1>6, <2>1 DEF NoStop
  <2>3. b[1].kind # "p"
    BY <2>2 DEF Stops, Blank, NL, SP, Word
  <2>4. Head(b \o f) = b[1]
    BY <1>5, <1>6, <2>1
  <2> QED BY <1>1, <1>7, <2>3, <2>4 DEF StartsWith
<1> QED BY <1>8, <1>9

(* Files of which everything counted is true. *)
Tame(f) == f.format \in {"cnf", "pmcnf"} /\ ~HasComment(f) /\ ~TwoSections(f)

(* Where the constructor is when it is done with c clauses. *)
CountedFrom(f, s, c) ==
    \E k \in 0..Len(f.lines) : s = <<NL>> \o Tails(f)[k] /\ c = Len(Passed(f)[k])

LEMMA ReadsLine ==
    ASSUME NEW f \in Files, f.format # "wcnf", NEW k \in 0..Len(f.lines),
           k < Len(f.lines), f.lines[k + 1].kind = "clause"
    PROVE  /\ ~StartsWith(Tails(f)[k], "p")
           /\ Literals(Tails(f)[k]) = Got1(f.lines[k + 1].lits, TRUE, <<NL>> \o Tails(f)[k + 1])
           /\ Len(Passed(f)[k]) + 1 \in 1..Len(Clauses(f))
           /\ Clauses(f)[Len(Passed(f)[k]) + 1] = f.lines[k + 1]
           /\ CountedFrom(f, <<NL>> \o Tails(f)[k + 1], Len(Passed(f)[k]) + 1)
<1>1. f.lines \in Seq(Lines)
  BY FileIs
<1>2. /\ k + 1 \in 0..Len(f.lines) /\ f.lines[k + 1] \in Lines
      /\ Tails(f)[k + 1] \in Seq(Tokens)
      /\ Tails(f)[k] = LineText(f.format, f.lines[k + 1]) \o Tails(f)[k + 1]
      /\ <<>> \o Tails(f)[k] = Tails(f)[k]
  BY <1>1, TailsText
<1>3. ~StartsWith(Tails(f)[k], "p")
  BY <1>2, ClauseIsNoSection
<1>4. <<>> \in Leads
  BY DEF Leads
<1>5. Literals(<<>> \o Tails(f)[k])
         = Got1(f.lines[k + 1].lits, TRUE, <<NL>> \o Tails(f)[k + 1])
  <2> DEFINE x == f.lines[k + 1]
             b == Tails(f)[k + 1]
             lead == <<>>
  <2>1. x \in Lines /\ x.kind = "clause" /\ b \in Seq(Tokens) /\ lead \in Leads
    BY <1>2, <1>4
  <2>2. Tails(f)[k] = LineText(f.format, x) \o b
    BY <1>2
  <2> HIDE DEF x, b, lead
  <2>3. Literals(lead \o (LineText(f.format, x) \o b)) = Got1(x.lits, TRUE, <<NL>> \o b)
    BY <2>1, ReadClauseLine
  <2> QED BY <2>2, <2>3 DEF x, b, lead
<1>6. /\ Len(Passed(f)[k + 1]) = Len(Passed(f)[k]) + 1
      /\ Len(Passed(f)[k]) + 1 \in 1..Len(Clauses(f))
      /\ Clauses(f)[Len(Passed(f)[k]) + 1] = f.lines[k + 1]
  BY <1>1, NextClause
<1>7. CountedFrom(f, <<NL>> \o Tails(f)[k + 1], Len(Passed(f)[k]) + 1)
  BY <1>2, <1>6 DEF CountedFrom
<1> QED BY <1>2, <1>3, <1>5, <1>6, <1>7

LiteralsOf(f, next) ==
    Literals(IF f.format = "pmcnf" /\ StartsWith(next, "p") THEN AfterLine(next) ELSE next)

TakenClause(f, r, c) ==
    /\ c + 1 \in 1..Len(Clauses(f))
    /\ r.lits = Clauses(f)[c + 1].lits /\ r.ok = TRUE
    /\ CountedFrom(f, r.rest, c + 1)

(* A turn takes the next clause, with the line above it that says what the  *)
(* clauses are.                                                             *)
LEMMA TakesClause ==
    ASSUME NEW f \in Files, Tame(f), NEW s, NEW c, CountedFrom(f, s, c), c < Len(Clauses(f)),
           NEW next, next = Bite(s),
           NEW r, r = LiteralsOf(f, next)
    PROVE  TakenClause(f, r, c)
<1>1. f.lines \in Seq(Lines) /\ f.format # "wcnf"
      /\ \A i \in 1..Len(f.lines) : f.lines[i].kind \in {"hard", "soft"} => f.format = "pmcnf"
  BY FileIs DEF Tame
<1>2. PICK k \in 0..Len(f.lines) : s = <<NL>> \o Tails(f)[k] /\ c = Len(Passed(f)[k])
  BY DEF CountedFrom
<1>3. /\ c \in Nat /\ k < Len(f.lines)
      /\ f.lines[k + 1].kind # "clause" => Passed(f)[k + 1] = Passed(f)[k]
  BY <1>1, <1>2, NextClause
<1>4. /\ k + 1 \in 0..Len(f.lines) /\ k + 1 \in 1..Len(f.lines)
      /\ f.lines[k + 1] \in Lines
      /\ Tails(f)[k] \in Seq(Tokens) /\ Tails(f)[k + 1] \in Seq(Tokens)
      /\ Tails(f)[k] = LineText(f.format, f.lines[k + 1]) \o Tails(f)[k + 1]
  BY <1>1, <1>3, TailsText
<1>5. next = Tails(f)[k]
  <2>1. NL \in Tokens /\ NL.num = 0
    BY TokenTypes DEF NL, Word
  <2> QED BY <1>2, <1>4, <2>1, BiteWhole
<1>7. CASE f.lines[k + 1].kind = "clause"
  <2>1. r = Literals(Tails(f)[k])
    BY <1>1, <1>3, <1>5, <1>7, ReadsLine DEF LiteralsOf
  <2>2. /\ r = Got1(f.lines[k + 1].lits, TRUE, <<NL>> \o Tails(f)[k + 1])
        /\ c + 1 \in 1..Len(Clauses(f))
        /\ Clauses(f)[c + 1] = f.lines[k + 1]
        /\ CountedFrom(f, <<NL>> \o Tails(f)[k + 1], c + 1)
    BY <1>1, <1>2, <1>3, <1>7, <2>1, ReadsLine
  <2>3. r.lits = f.lines[k + 1].lits /\ r.ok = TRUE /\ r.rest = <<NL>> \o Tails(f)[k + 1]
    BY <2>2 DEF Got1
  <2> QED BY <2>2, <2>3 DEF TakenClause
<1>8. CASE f.lines[k + 1].kind # "clause"
  <2> DEFINE i == k + 1
  <2>1. f.lines[i].kind \in {"hard", "soft"} /\ f.format = "pmcnf"
    <3>1. f.lines[i].kind # "comment"
      <4>1. DOMAIN f.lines = 1..Len(f.lines)
        BY <1>1
      <4> QED BY <1>4, <4>1 DEF Tame, HasComment
    <3>2. f.lines[i].kind \in {"clause", "comment", "hard", "soft"}
      BY <1>4 DEF Lines
    <3> QED BY <1>1, <1>4, <1>8, <3>1, <3>2
  <2>2. StartsWith(Tails(f)[k], "p") /\ AfterLine(Tails(f)[k]) = Tails(f)[i]
    <3>1. <<>> \in Leads
      BY DEF Leads
    <3> QED BY <1>4, <1>8, <2>1, <3>1, ReadWeightedRemark
  <2>3. r = Literals(Tails(f)[i])
    BY <1>5, <2>1, <2>2 DEF LiteralsOf
  <2>4. c = Len(Passed(f)[i])
    BY <1>2, <1>3, <1>8
  <2>5. i < Len(f.lines)
    BY <1>1, <1>4, <2>4, NextClause
  <2>6. f.lines[i + 1].kind = "clause"
    <3>1. i + 1 \in 1..Len(f.lines) /\ i \in 1..(Len(f.lines) - 1)
      BY <1>4, <2>5
    <3>2. ~IsSection(f.lines[i + 1])
      BY <2>1, <3>1 DEF Tame, TwoSections, IsSection
    <3>3. f.lines[i + 1].kind # "comment"
      <4>1. DOMAIN f.lines = 1..Len(f.lines)
        BY <1>1
      <4> QED BY <3>1, <4>1 DEF Tame, HasComment
    <3>4. f.lines[i + 1].kind \in {"clause", "comment", "hard", "soft"}
      <4>1. f.lines[i + 1] \in Lines
        BY <1>1, <3>1
      <4> QED BY <4>1 DEF Lines
    <3> QED BY <3>2, <3>3, <3>4 DEF IsSection
  <2> HIDE DEF i
  <2>7. /\ r = Got1(f.lines[i + 1].lits, TRUE, <<NL>> \o Tails(f)[i + 1])
        /\ c + 1 \in 1..Len(Clauses(f))
        /\ Clauses(f)[c + 1] = f.lines[i + 1]
        /\ CountedFrom(f, <<NL>> \o Tails(f)[i + 1], c + 1)
    <3>1. i \in 0..Len(f.lines)
      BY <1>4 DEF i
    <3> QED BY <1>1, <2>3, <2>4, <2>5, <2>6, <3>1, ReadsLine
  <2>8. r.lits = f.lines[i + 1].lits /\ r.ok = TRUE /\ r.rest = <<NL>> \o Tails(f)[i + 1]
    BY <2>7 DEF Got1
  <2> QED BY <2>7, <2>8 DEF TakenClause
<1> QED BY <1>7, <1>8

(* What the first c clauses add up to. *)
UpToOf(S, c) == Cardinality(S \cap 1..c)

KeptSized(f, n) == {i \in Kept(f) : Cardinality(ToSet(Clauses(f)[i].lits)) = n}
KeptWith(f, e)  == {i \in Kept(f) : e \in ToSet(Clauses(f)[i].lits)}

SizesUpTo(f, c) == [n \in Sizes |-> UpToOf(KeptSized(f, n), c)]

LiteralsTallied(f, m, c) ==
    \A v \in 1..NumVars : /\ m.pos[v] = UpToOf(KeptWith(f, v), c)
                          /\ m.neg[v] = UpToOf(KeptWith(f, 0 - v), c)

SizesTallied(f, m, c, done) ==
    IF f.format = "pmcnf" THEN m.h = SizesUpTo(f, c) /\ m.s = NoSizes /\ m.hNum = done
                          ELSE m.s = SizesUpTo(f, c) /\ m.h = NoSizes /\ m.hNum = 0

Tallied(f, m, c, done) ==
    /\ done = UpToOf(Kept(f), c)
    /\ m.numClauses = Len(Clauses(f)) - c + done
    /\ m.hardClauses = (f.format = "pmcnf")
    /\ LiteralsTallied(f, m, c)
    /\ SizesTallied(f, m, c, done)

LEMMA UpToNext ==
    ASSUME NEW S, NEW c \in Nat
    PROVE  /\ UpToOf(S, c) \in Nat
           /\ UpToOf(S, c + 1) = UpToOf(S, c) + (IF c + 1 \in S THEN 1 ELSE 0)
           /\ UpToOf(S, 0) = 0
<1>1. UpToOf(S, c + 1) = UpToOf(S, c) + (IF c + 1 \in S THEN 1 ELSE 0)
  <2>1. c + 1 \in Nat /\ c + 1 # 0 /\ (c + 1) - 1 = c
    OBVIOUS
  <2>2. Cardinality(S \cap 1..(c + 1))
           = Cardinality(S \cap 1..((c + 1) - 1)) + (IF c + 1 \in S THEN 1 ELSE 0)
    BY <2>1, CountNext
  <2> QED BY <2>1, <2>2 DEF UpToOf
<1>2. S \cap 1..0 = {}
  OBVIOUS
<1>3. UpToOf(S, 0) = 0
  BY <1>2, FS_EmptySet DEF UpToOf
<1>4. UpToOf(S, c) \in Nat
  <2>1. IsFiniteSet(1..c)
    BY FS_Interval
  <2> QED BY <2>1, FS_Subset, FS_CardinalityType DEF UpToOf
<1> QED BY <1>1, <1>3, <1>4

LEMMA BumpedBy ==
    ASSUME NEW A, NEW f \in [A -> Nat], NEW x
    PROVE  \A v \in A : Bump(f, x)[v] = f[v] + (IF v = x THEN 1 ELSE 0)
  BY DEF Bump

LEMMA ClauseOf ==
    ASSUME NEW f \in Files, NEW i \in 1..Len(Clauses(f))
    PROVE  /\ Clauses(f)[i].lits \in Seq(Literal) /\ Clauses(f)[i].lits \in Seq(Int \ {0})
           /\ \A e \in ToSet(Clauses(f)[i].lits) : e \in Literal
           /\ i \in Kept(f) <=> ~Tautological(Clauses(f)[i].lits)
<1>1. Clauses(f) \in Seq(Lines)
  BY FileIs
<1>2. Clauses(f)[i] \in Lines /\ i \in DOMAIN Clauses(f)
  BY <1>1
<1> DEFINE l == Clauses(f)[i].lits
<1>3. l \in Seq(Literal)
  BY <1>2 DEF Lines, Literal
<1>4. i \in Kept(f) <=> ~Tautological(l)
  BY <1>2 DEF Kept
<1> HIDE DEF l
<1>5. l \in Seq(Int \ {0})
  BY <1>3 DEF Literal
<1>6. \A e \in ToSet(l) : e \in Literal
  BY <1>3 DEF ToSet
<1> QED BY <1>3, <1>4, <1>5, <1>6 DEF l

(* A clause without a literal and its negation is one more. *)
LEMMA TallyKept ==
    ASSUME NEW f \in Files, NEW m \in MsiSet, NEW c \in Nat, NEW done,
           Tallied(f, m, c, done), c + 1 \in 1..Len(Clauses(f)),
           NEW l \in Seq(Int \ {0}), ToSet(l) = ToSet(Clauses(f)[c + 1].lits),
           InOrderOfVariables(l)
    PROVE  Tallied(f, Count(m, l), c + 1, done + 1) /\ Count(m, l) \in MsiSet
<1> DEFINE lits == Clauses(f)[c + 1].lits
           t == Count(m, l)
           d == c + 1
<1>1. lits \in Seq(Int \ {0}) /\ (\A e \in ToSet(lits) : e \in Literal)
      /\ (d \in Kept(f) <=> ~Tautological(lits))
  BY ClauseOf
<1>2. /\ ~Tautological(l) /\ (\A p, q \in 1..Len(l) : l[p] = l[q] => p = q)
      /\ Cardinality(ToSet(l)) = Len(l)
  BY InOrderIs
<1>3. d \in Kept(f)
  <2>1. Tautological(lits) <=> Tautological(l)
    BY DEF Tautological
  <2> QED BY <1>1, <1>2, <2>1
<1>4. l \in Seq(Literal)
  <2>1. \A k \in 1..Len(l) : l[k] \in Literal
    <3> TAKE k \in 1..Len(l)
    <3>1. l[k] \in ToSet(l)
      BY LitsAre
    <3> HIDE DEF ToSet
    <3> QED BY <1>1, <3>1
  <2> QED BY <2>1
<1>5. /\ t \in MsiSet /\ t.numClauses = m.numClauses /\ t.hardClauses = m.hardClauses
      /\ t.hNum = IF m.hardClauses THEN m.hNum + 1 ELSE m.hNum
      /\ t.h = IF m.hardClauses THEN Bump(m.h, Len(l)) ELSE m.h
      /\ t.s = IF m.hardClauses THEN m.s ELSE Bump(m.s, Len(l))
      /\ \A v \in 1..NumVars :
            /\ t.pos[v] = m.pos[v] + (IF v \in ToSet(l) THEN 1 ELSE 0)
            /\ t.neg[v] = m.neg[v] + (IF 0 - v \in ToSet(l) THEN 1 ELSE 0)
  BY <1>2, <1>4, CountFields
<1> HIDE DEF t, ToSet
<1>6. /\ done = UpToOf(Kept(f), c) /\ m.numClauses = Len(Clauses(f)) - c + done
      /\ m.hardClauses = (f.format = "pmcnf")
      /\ LiteralsTallied(f, m, c) /\ SizesTallied(f, m, c, done)
  BY DEF Tallied
<1>7. UpToOf(Kept(f), c + 1) = UpToOf(Kept(f), c) + 1 /\ UpToOf(Kept(f), c) \in Nat
  BY <1>3, UpToNext
<1>8. /\ done + 1 = UpToOf(Kept(f), c + 1)
      /\ t.numClauses = Len(Clauses(f)) - (c + 1) + (done + 1)
  <2>1. Len(Clauses(f)) \in Nat
    BY FileIs
  <2> QED BY <1>5, <1>6, <1>7, <2>1
<1>9. LiteralsTallied(f, t, c + 1)
  <2>1. ASSUME NEW e
        PROVE  UpToOf(KeptWith(f, e), c + 1)
                  = UpToOf(KeptWith(f, e), c) + (IF e \in ToSet(l) THEN 1 ELSE 0)
    <3>1. d \in KeptWith(f, e) <=> e \in ToSet(l)
      BY <1>3 DEF KeptWith
    <3> QED BY <3>1, UpToNext
  <2> QED BY <1>5, <1>6, <2>1 DEF LiteralsTallied
<1>10. ASSUME NEW g \in [Sizes -> Nat], g = SizesUpTo(f, c)
       PROVE  Bump(g, Len(l)) = SizesUpTo(f, c + 1)
  <2>1. Bump(g, Len(l)) \in [Sizes -> Nat]
    BY Bumped
  <2>2. \A n \in Sizes : Bump(g, Len(l))[n] = SizesUpTo(f, c + 1)[n]
    <3> TAKE n \in Sizes
    <3>1. Bump(g, Len(l))[n] = g[n] + (IF n = Len(l) THEN 1 ELSE 0)
      BY BumpedBy
    <3>2. d \in KeptSized(f, n) <=> n = Len(l)
      BY <1>2, <1>3 DEF KeptSized
    <3>3. UpToOf(KeptSized(f, n), c + 1)
             = UpToOf(KeptSized(f, n), c) + (IF n = Len(l) THEN 1 ELSE 0)
      BY <3>2, UpToNext
    <3>4. g[n] = UpToOf(KeptSized(f, n), c)
      BY <1>10 DEF SizesUpTo
    <3> QED BY <3>1, <3>3, <3>4 DEF SizesUpTo
  <2>3. SizesUpTo(f, c + 1) = [n \in Sizes |-> SizesUpTo(f, c + 1)[n]]
    BY DEF SizesUpTo
  <2> QED BY <2>1, <2>2, <2>3
<1>11. SizesTallied(f, t, c + 1, done + 1)
  <2>1. m.h \in [Sizes -> Nat] /\ m.s \in [Sizes -> Nat] /\ m.hNum \in Nat
    BY DEF MsiSet
  <2>2. CASE f.format = "pmcnf"
    <3>1. m.h = SizesUpTo(f, c) /\ m.s = NoSizes /\ m.hNum = done /\ m.hardClauses
      BY <1>6, <2>2 DEF SizesTallied
    <3>2. t.h = Bump(m.h, Len(l)) /\ t.s = NoSizes /\ t.hNum = done + 1
      BY <1>5, <3>1
    <3>3. t.h = SizesUpTo(f, c + 1)
      BY <1>10, <2>1, <3>1, <3>2
    <3> QED BY <2>2, <3>2, <3>3 DEF SizesTallied
  <2>3. CASE f.format # "pmcnf"
    <3>1. m.s = SizesUpTo(f, c) /\ m.h = NoSizes /\ m.hNum = 0 /\ ~m.hardClauses
      BY <1>6, <2>3 DEF SizesTallied
    <3>2. t.s = Bump(m.s, Len(l)) /\ t.h = NoSizes /\ t.hNum = 0
      BY <1>5, <3>1
    <3>3. t.s = SizesUpTo(f, c + 1)
      BY <1>10, <2>1, <3>1, <3>2
    <3> QED BY <2>3, <3>2, <3>3 DEF SizesTallied
  <2> QED BY <2>2, <2>3
<1>12. Tallied(f, t, c + 1, done + 1)
  BY <1>5, <1>6, <1>8, <1>9, <1>11 DEF Tallied
<1> QED BY <1>5, <1>12 DEF t

(* One with a literal and its negation is not counted. *)
LEMMA TallyDropped ==
    ASSUME NEW f \in Files, NEW m \in MsiSet, NEW c \in Nat, NEW done,
           Tallied(f, m, c, done), c + 1 \in 1..Len(Clauses(f)),
           Tautological(Clauses(f)[c + 1].lits),
           NEW t, t = [m EXCEPT !.numClauses = @ - 1]
    PROVE  Tallied(f, t, c + 1, done)
<1> DEFINE d == c + 1
<1>1. d \notin Kept(f)
  BY ClauseOf
<1>2. /\ t.numClauses = m.numClauses - 1 /\ t.hardClauses = m.hardClauses
      /\ t.pos = m.pos /\ t.neg = m.neg /\ t.h = m.h /\ t.s = m.s /\ t.hNum = m.hNum
  BY DEF MsiSet
<1>3. /\ done = UpToOf(Kept(f), c) /\ m.numClauses = Len(Clauses(f)) - c + done
      /\ m.hardClauses = (f.format = "pmcnf")
      /\ LiteralsTallied(f, m, c) /\ SizesTallied(f, m, c, done)
  BY DEF Tallied
<1>4. \A S : d \notin S => UpToOf(S, c + 1) = UpToOf(S, c)
  <2> SUFFICES ASSUME NEW S, d \notin S PROVE UpToOf(S, c + 1) = UpToOf(S, c)
    OBVIOUS
  <2>1. UpToOf(S, c) \in Nat /\ UpToOf(S, c + 1) = UpToOf(S, c) + 0
    BY UpToNext
  <2> QED BY <2>1
<1>5. /\ done = UpToOf(Kept(f), c + 1)
      /\ t.numClauses = Len(Clauses(f)) - (c + 1) + done
  <2>1. Len(Clauses(f)) \in Nat /\ UpToOf(Kept(f), c) \in Nat
    BY FileIs, UpToNext
  <2>2. UpToOf(Kept(f), c + 1) = UpToOf(Kept(f), c)
    BY <1>1, <1>4
  <2> QED BY <1>2, <1>3, <2>1, <2>2
<1>6. LiteralsTallied(f, t, c + 1)
  <2>1. \A e : UpToOf(KeptWith(f, e), c + 1) = UpToOf(KeptWith(f, e), c)
    BY <1>1, <1>4 DEF KeptWith
  <2> QED BY <1>2, <1>3, <2>1 DEF LiteralsTallied
<1>7. SizesUpTo(f, c + 1) = SizesUpTo(f, c)
  <2>1. \A n : UpToOf(KeptSized(f, n), c + 1) = UpToOf(KeptSized(f, n), c)
    BY <1>1, <1>4 DEF KeptSized
  <2> QED BY <2>1 DEF SizesUpTo
<1>8. SizesTallied(f, t, c + 1, done)
  BY <1>2, <1>3, <1>7 DEF SizesTallied
<1> QED BY <1>2, <1>3, <1>5, <1>6, <1>8 DEF Tallied

(* At the end all of them are counted. *)
LEMMA AllTallied ==
    ASSUME NEW f \in Files, NEW c, c = Len(Clauses(f))
    PROVE  /\ UpToOf(Kept(f), c) = Cardinality(Kept(f))
           /\ \A e : UpToOf(KeptWith(f, e), c) = Cardinality(KeptWith(f, e))
           /\ SizesUpTo(f, c) = [n \in Sizes |-> Cardinality(KeptSized(f, n))]
<1>1. DOMAIN Clauses(f) = 1..c
  BY FileIs
<1>2. Kept(f) \subseteq 1..c
  BY <1>1 DEF Kept
<1>3. \A S : S \subseteq Kept(f) => UpToOf(S, c) = Cardinality(S)
  <2> SUFFICES ASSUME NEW S, S \subseteq Kept(f) PROVE UpToOf(S, c) = Cardinality(S)
    OBVIOUS
  <2>1. S \cap 1..c = S
    BY <1>2
  <2> QED BY <2>1 DEF UpToOf
<1>4. \A e : KeptWith(f, e) \subseteq Kept(f) /\ KeptSized(f, e) \subseteq Kept(f)
  BY DEF KeptWith, KeptSized
<1>5. \A e : UpToOf(KeptSized(f, e), c) = Cardinality(KeptSized(f, e))
  BY <1>3, <1>4
<1>6. SizesUpTo(f, c) = [n \in Sizes |-> Cardinality(KeptSized(f, n))]
  BY <1>5 DEF SizesUpTo
<1> QED BY <1>3, <1>4, <1>6

(* While the constructor counts, what it has is that of the clauses above   *)
(* the place where it is.                                                   *)
CountsSoFar ==
    pc = "count" /\ Tame(file) =>
        ~bad /\ \E c : CountedFrom(file, rest, c) /\ Tallied(file, msi, c, read)

CountInv == CountsSoFar /\ CountsTrue

LEMMA InitCountInv ==
    Init => CountInv
<1> SUFFICES ASSUME Init PROVE CountInv
  OBVIOUS
<1>1. pc = "count" /\ bad = FALSE /\ read = 0 /\ rest = <<NL>> \o Text(file)
      /\ file \in Files /\ file.lines \in Seq(Lines)
  BY FileIs DEF Init
<1>2. msi = [numClauses |-> Len(Clauses(file)), hardClauses |-> file.format = "pmcnf",
             neg |-> NoneYet, pos |-> NoneYet, s |-> NoSizes, h |-> NoSizes,
             hNum |-> 0, sNum |-> 0]
  BY DEF Init
<1>3. CountedFrom(file, rest, 0)
  <2>1. Text(file) = Tails(file)[0] /\ Len(Passed(file)[0]) = 0 /\ 0 \in 0..Len(file.lines)
    BY <1>1, TailsAre, PassedAre
  <2> QED BY <1>1, <2>1 DEF CountedFrom
<1>4. \A S : UpToOf(S, 0) = 0
  BY UpToNext
<1>5. LiteralsTallied(file, msi, 0)
  BY <1>2, <1>4 DEF LiteralsTallied, NoneYet
<1>6. SizesTallied(file, msi, 0, 0)
  <2>1. SizesUpTo(file, 0) = NoSizes
    BY <1>4 DEF SizesUpTo, NoSizes
  <2>2. msi.h = NoSizes /\ msi.s = NoSizes /\ msi.hNum = 0
    BY <1>2
  <2> QED BY <2>1, <2>2 DEF SizesTallied
<1>7. msi.numClauses = Len(Clauses(file)) - 0 + 0 /\ msi.hardClauses = (file.format = "pmcnf")
  <2>1. Len(Clauses(file)) \in Nat
    BY <1>1, FileIs
  <2> QED BY <1>2, <2>1
<1>8. Tallied(file, msi, 0, read)
  BY <1>1, <1>4, <1>5, <1>6, <1>7 DEF Tallied
<1>9. CountsSoFar
  BY <1>1, <1>3, <1>8 DEF CountsSoFar
<1>10. CountsTrue
  BY <1>1 DEF CountsTrue
<1> QED BY <1>9, <1>10 DEF CountInv

LEMMA ReadClauseCounts ==
    ASSUME IInv, CountInv, ReadClause
    PROVE  CountInv'
<1> DEFINE next    == IF bad THEN rest ELSE Bite(rest)
           section == file.format = "pmcnf" /\ ~bad /\ StartsWith(next, "p")
           strbuf  == Head(next).kind
           hard    == msi.hardClauses /\ ~(section /\ strbuf = "soft")
           m       == [msi EXCEPT !.hardClauses = hard]
           from    == IF section THEN AfterLine(next) ELSE next
           r       == Literals(from)
           lits    == IF bad THEN <<>> ELSE r.lits
           t       == Sorted(lits)
           n       == Len(Clauses(file))
<1>1. /\ file \in Files /\ pc = "count" /\ n \in Nat /\ msi \in MsiSet
      /\ read \in 0..n /\ read < msi.numClauses
  BY FileIs DEF IInv, Types, ReadClause
<1>2. /\ rest' = IF bad THEN rest ELSE r.rest
      /\ bad' = (bad \/ ~r.ok)
      /\ IF t.tautology
         THEN msi' = [m EXCEPT !.numClauses = @ - 1] /\ read' = read
         ELSE msi' = Count(m, t.lits) /\ read' = read + 1
      /\ pc' \in {"count", "crashed"}
      /\ file' = file
  BY Zenon DEF ReadClause
<1>3. CountsTrue'
  BY <1>2 DEF CountsTrue
<1>4. ASSUME Tame(file) PROVE CountsSoFar'
  <2>1. bad = FALSE
    <3>1. bad \in BOOLEAN
      BY DEF IInv, Types
    <3> QED BY <1>1, <1>4, <3>1 DEF CountInv, CountsSoFar
  <2>2. PICK c : CountedFrom(file, rest, c) /\ Tallied(file, msi, c, read)
    BY <1>1, <1>4 DEF CountInv, CountsSoFar
  <2>3. next = Bite(rest) /\ section = (file.format = "pmcnf" /\ StartsWith(next, "p"))
        /\ lits = r.lits
    BY <2>1
  <2>4. c \in Nat
    <3>1. PICK k \in 0..Len(file.lines) : c = Len(Passed(file)[k])
      BY <2>2 DEF CountedFrom
    <3> QED BY <1>1, <3>1, FileIs, NextClause
  <2>5. c < n
    <3>1. msi.numClauses = n - c + read
      BY <2>2 DEF Tallied
    <3> HIDE DEF n
    <3> QED BY <1>1, <2>4, <3>1
  <2> HIDE DEF next, section
  <2>6. /\ c + 1 \in 1..Len(Clauses(file))
        /\ r.lits = Clauses(file)[c + 1].lits /\ r.ok = TRUE
        /\ CountedFrom(file, r.rest, c + 1)
    <3>1. r = LiteralsOf(file, next)
      BY <2>3 DEF LiteralsOf
    <3>2. c < Len(Clauses(file)) /\ CountedFrom(file, rest, c)
      BY <2>2, <2>5
    <3>3. next = Bite(rest) /\ file \in Files /\ Tame(file)
      BY <1>1, <1>4, <2>3
    <3> HIDE DEF r, from, n
    <3>4. TakenClause(file, r, c)
      BY <3>1, <3>2, <3>3, TakesClause
    <3> QED BY <3>4 DEF TakenClause
  <2>7. m = msi
    <3>1. hard = msi.hardClauses
      <4>1. msi.hardClauses \in BOOLEAN
        BY <1>1 DEF MsiSet
      <4>2. section => strbuf # "soft"
        BY <2>3 DEF StartsWith
      <4> QED BY <4>1, <4>2
    <3> HIDE DEF hard
    <3> QED BY <1>1, <3>1 DEF MsiSet
  <2> HIDE DEF m, r, lits, t
  <2>8. lits = Clauses(file)[c + 1].lits /\ lits \in Seq(Int \ {0})
    BY <1>1, <2>3, <2>6, ClauseOf
  <2>9. /\ t \in SortStates
        /\ t.tautology => Tautological(lits)
        /\ ~t.tautology => ToSet(t.lits) = ToSet(lits) /\ InOrderOfVariables(t.lits)
    BY <2>8, SortedTyped, SortedIs DEF t
  <2>10. Tallied(file, msi', c + 1, read')
    <3>1. CASE t.tautology
      <4>1. msi' = [msi EXCEPT !.numClauses = @ - 1] /\ read' = read
        BY <1>2, <2>7, <3>1
      <4> QED BY <1>1, <2>2, <2>4, <2>6, <2>8, <2>9, <3>1, <4>1, TallyDropped
    <3>2. CASE ~t.tautology
      <4>1. msi' = Count(msi, t.lits) /\ read' = read + 1
        BY <1>2, <2>7, <3>2
      <4>2. t.lits \in Seq(Int \ {0})
        BY <2>9, SortStateIs
      <4>3. ToSet(t.lits) = ToSet(Clauses(file)[c + 1].lits) /\ InOrderOfVariables(t.lits)
        BY <2>8, <2>9, <3>2
      <4>4. Tallied(file, Count(msi, t.lits), c + 1, read + 1)
        BY <1>1, <2>2, <2>4, <2>6, <4>2, <4>3, TallyKept
      <4> QED BY <4>1, <4>4
    <3> QED BY <3>1, <3>2
  <2>11. bad' = FALSE /\ rest' = r.rest /\ file' = file
    BY <1>2, <2>1, <2>6
  <2> QED BY <2>6, <2>10, <2>11 DEF CountsSoFar
<1>5. CountsSoFar'
  BY <1>2, <1>4 DEF CountsSoFar
<1> QED BY <1>3, <1>5 DEF CountInv

LEMMA CountedCounts ==
    ASSUME IInv, CountInv, Counted
    PROVE  CountInv'
<1> DEFINE n == Len(Clauses(file))
<1>1. /\ pc = "count" /\ pc' = "call" /\ file' = file
      /\ msi' = [msi EXCEPT !.sNum = msi.numClauses - msi.hNum]
      /\ read >= msi.numClauses
  BY DEF Counted
<1>2. /\ file \in Files /\ n \in Nat /\ msi \in MsiSet /\ read \in 0..n
      /\ read <= msi.numClauses
  BY <1>1, FileIs DEF IInv, Types, Counting
<1>3. /\ msi'.numClauses = msi.numClauses /\ msi'.hNum = msi.hNum
      /\ msi'.pos = msi.pos /\ msi'.neg = msi.neg /\ msi'.h = msi.h /\ msi'.s = msi.s
      /\ msi'.sNum = msi.numClauses - msi.hNum
  BY <1>1, <1>2 DEF MsiSet
<1>4. ASSUME Tame(file) PROVE CountsTrue'
  <2>1. PICK c : CountedFrom(file, rest, c) /\ Tallied(file, msi, c, read)
    BY <1>1, <1>4 DEF CountInv, CountsSoFar
  <2>2. c \in Nat
    <3>1. PICK k \in 0..Len(file.lines) : c = Len(Passed(file)[k])
      BY <2>1 DEF CountedFrom
    <3> QED BY <1>2, <3>1, FileIs, NextClause
  <2>3. /\ read = UpToOf(Kept(file), c) /\ msi.numClauses = n - c + read
        /\ LiteralsTallied(file, msi, c) /\ SizesTallied(file, msi, c, read)
    BY <2>1 DEF Tallied
  <2>4. msi.numClauses \in Nat
    BY <1>2 DEF MsiSet
  <2> HIDE DEF n
  <2>5. c = n /\ read = msi.numClauses
    BY <1>1, <1>2, <2>2, <2>3, <2>4
  <2>6. /\ UpToOf(Kept(file), c) = Cardinality(Kept(file))
        /\ \A e : UpToOf(KeptWith(file, e), c) = Cardinality(KeptWith(file, e))
        /\ SizesUpTo(file, c) = [k \in Sizes |-> Cardinality(KeptSized(file, k))]
    BY <1>2, <2>5, AllTallied DEF n
  <2>7. msi.numClauses = Cardinality(Kept(file))
    BY <2>3, <2>5, <2>6
  <2>8. \A v \in 1..NumVars :
           /\ msi.pos[v] = Cardinality(KeptWith(file, v))
           /\ msi.neg[v] = Cardinality(KeptWith(file, 0 - v))
    BY <2>3, <2>6 DEF LiteralsTallied
  <2>9. /\ \A k \in Sizes : msi.h[k] + msi.s[k] = Cardinality(KeptSized(file, k))
        /\ file.format # "pmcnf" => msi.h = NoSizes /\ msi.hNum = 0
        /\ file.format = "pmcnf" => msi.s = NoSizes /\ msi.numClauses - msi.hNum = 0
    <3>1. \A k \in Sizes : /\ NoSizes[k] = 0 /\ Cardinality(KeptSized(file, k)) \in Nat
                           /\ SizesUpTo(file, c)[k] = Cardinality(KeptSized(file, k))
      <4>1. \A k \in Sizes : UpToOf(KeptSized(file, k), c) \in Nat
        BY <2>2, UpToNext
      <4> QED BY <2>6, <4>1 DEF SizesUpTo, NoSizes
    <3>2. CASE file.format = "pmcnf"
      <4>1. msi.h = SizesUpTo(file, c) /\ msi.s = NoSizes /\ msi.hNum = read
        BY <2>3, <3>2 DEF SizesTallied
      <4>2. msi.numClauses - msi.hNum = 0
        BY <2>4, <2>5, <4>1
      <4> QED BY <3>1, <3>2, <4>1, <4>2
    <3>3. CASE file.format # "pmcnf"
      <4>1. msi.s = SizesUpTo(file, c) /\ msi.h = NoSizes /\ msi.hNum = 0
        BY <2>3, <3>3 DEF SizesTallied
      <4> QED BY <3>1, <3>3, <4>1
    <3> QED BY <3>2, <3>3
  <2> QED BY <1>1, <1>3, <2>7, <2>8, <2>9 DEF CountsTrue, KeptWith, KeptSized
<1>5. CountsTrue'
  <2>1. ~Tame(file) => CountsTrue'
    BY <1>1 DEF CountsTrue, Tame
  <2> QED BY <1>4, <2>1
<1>6. CountsSoFar'
  BY <1>1 DEF CountsSoFar
<1> QED BY <1>5, <1>6 DEF CountInv

LEMMA NextCountInv ==
    ASSUME IInv, CountInv, [Next]_vars
    PROVE  CountInv'
<1>1. CASE ReadClause
  BY <1>1, ReadClauseCounts
<1>2. CASE Counted
  BY <1>2, CountedCounts
<1>3. ASSUME UNCHANGED <<file, msi>>, pc # "count", pc' # "count",
             pc = "crashed" => pc' = "crashed"
      PROVE  CountInv'
  <2>1. CountsSoFar'
    BY <1>3 DEF CountsSoFar
  <2>2. CountsTrue'
    BY <1>3 DEF CountInv, CountsTrue
  <2> QED BY <2>1, <2>2 DEF CountInv
<1>4. CASE StartCall
  BY <1>3, <1>4 DEF StartCall, Goto
<1>5. CASE HeaderNotFound
  BY <1>3, <1>5 DEF HeaderNotFound
<1>6. CASE ReadSearchClause
  <2>1. /\ pc = "readcnf" /\ UNCHANGED <<file, msi>>
        /\ pc' \in {"crashed", "undefined", "exited", "readcnf"}
    BY <1>6 DEF ReadSearchClause, Goto
  <2> QED BY <1>3, <2>1
<1>7. CASE EndRead
  BY <1>3, <1>7 DEF EndRead
<1>8. CASE Create
  BY <1>3, <1>8 DEF Create, Goto
<1>9. CASE Search
  BY <1>3, <1>9 DEF Search
<1>10. CASE Ended \/ UNCHANGED vars
  <2>1. UNCHANGED <<file, pc, call, rest, bad, read, msi, cnf, heap>>
    BY <1>10 DEF Ended, vars
  <2>2. CountsTrue'
    BY <2>1 DEF CountInv, CountsTrue
  <2>3. CountsSoFar'
    BY <2>1 DEF CountInv, CountsSoFar
  <2> QED BY <2>2, <2>3 DEF CountInv
<1> QED BY <1>1, <1>2, <1>4, <1>5, <1>6, <1>7, <1>8, <1>9, <1>10 DEF Next

(* The constructor counts what the file holds, of every cnf and pmcnf file  *)
(* without comments and with clauses between its sections, however often a  *)
(* clause names a literal.                                                  *)
THEOREM CountsTruly ==
    Spec => []CountsTrue
<1>1. Spec => []IInv
  BY Invariance
<1>2. IInv /\ CountInv /\ [Next]_vars => CountInv'
  BY NextCountInv
<1>3. CountInv => CountsTrue
  BY DEF CountInv
<1> QED BY <1>1, <1>2, <1>3, InitCountInv, PTL DEF Spec
=============================================================================

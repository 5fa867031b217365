-------------------------------- MODULE Heap --------------------------------
(***************************************************************************)
(* The allocator of src/ubcsat/ubcsat-mem.cc: everything ubcsat keeps,     *)
(* from the names of its algorithms to the literals of the clauses, lies   *)
(* in a few large heaps that are filled from the front, the first with     *)
(* room serving each request.  Nothing is given back but the unused end of *)
(* the last request, until all heaps are freed at the end of the call.     *)
(*                                                                         *)
(* blocks is not in the code: it is what the callers hold, in the order of *)
(* the requests, each block with the size its caller relies on.            *)
(***************************************************************************)
EXTENDS Integers, Sequences

CONSTANTS
    DefaultHeapSize,  \* DEFAULTHEAPSIZE, in bytes
    MaxHeaps          \* MAXHEAPS

ASSUME DefaultHeapSizeAssumption == DefaultHeapSize \in Nat \ {0}
ASSUME MaxHeapsAssumption        == MaxHeaps \in Nat \ {0}

(* ResetHeap.                                                              *)
NoHeap == [heaps |-> <<>>, last |-> 0, lastSize |-> 0, blocks |-> <<>>]

(* Mutant: rounded down.                                                   *)
PaddedDown(size) == size - (size % 4)

(* size + (4 - (size % 4)): rounded up, and never left as it is.           *)
Padded(size) == size + (4 - (size % 4))

WithRoom(h, size) == {j \in DOMAIN h.heaps : h.heaps[j].bytesFree >= size}

(* The heap that serves a request of this padded size: the first with      *)
(* room, or the next, of its own size if it is a large one.                *)
Serving(h, size) ==
    IF WithRoom(h, size) = {} THEN Len(h.heaps) + 1
    ELSE CHOOSE j \in WithRoom(h, size) : \A k \in WithRoom(h, size) : j <= k

(* A heap is taken of the default size, or of that of a larger request.    *)
Fresh(size) ==
    LET bytes == IF size > DefaultHeapSize THEN size ELSE DefaultHeapSize
    IN  [bytes |-> bytes, free |-> 0, bytesFree |-> bytes]

Heaps(h, size) ==
    IF WithRoom(h, size) = {} THEN Append(h.heaps, Fresh(size)) ELSE h.heaps

(* AllocateRAM calls AbnormalExit once it has taken the last heap.         *)
OutOfHeaps(h) == Len(h.heaps) >= MaxHeaps

(* n bytes are taken of a heap, or given back.                             *)
Taken(x, n) == [bytes |-> x.bytes, free |-> x.free + n, bytesFree |-> x.bytesFree - n]

(* AllocateRAM(size): free is where pFree points to.                       *)
AllocateRAM(h, size) ==
    LET n == Padded(size)
        j == Serving(h, n)
        x == Heaps(h, n)[j]
    IN  [heaps    |-> [Heaps(h, n) EXCEPT ![j] = Taken(x, n)],
         last     |-> j,
         lastSize |-> n,
         blocks   |-> Append(h.blocks, [heap |-> j, from |-> x.free, size |-> size])]

(* AdjustLastRAM(size): the last request was for no more than this.        *)
AdjustLastRAM(h, size) ==
    LET rest == h.lastSize - Padded(size)
    IN  [h EXCEPT !.heaps[h.last] = Taken(@, 0 - rest)]

(* Its caller relies on no more, either.                                   *)
Trimmed(h, size) == [h EXCEPT !.blocks[Len(h.blocks)].size = size]

(* What the callers count on: a block lies within what is taken of its     *)
(* heap, and shares no byte with another.                                  *)
Apart(b, c) == b.heap = c.heap => b.from + b.size <= c.from \/ c.from + c.size <= b.from

BlocksKept(h) ==
    /\ \A i \in DOMAIN h.blocks :
          /\ h.blocks[i].heap \in DOMAIN h.heaps
          /\ h.blocks[i].from + h.blocks[i].size <= h.heaps[h.blocks[i].heap].free
    /\ \A i, k \in DOMAIN h.blocks : i < k => Apart(h.blocks[i], h.blocks[k])

=============================================================================

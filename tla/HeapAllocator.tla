--------------------------- MODULE HeapAllocator ---------------------------
(***************************************************************************)
(* GeneralPurposeAllocator of src/Lib/HeapAllocator.h: memory is carved    *)
(* from the top of a buffer downwards; freed blocks go to one free list    *)
(* per power of two, or to the list Large, and are taken from there again. *)
(* The links of a list are kept in headers inside the blocks, so a header  *)
(* outlives the block it was written for.                                  *)
(*                                                                         *)
(* Addresses and sizes are in units of GENERAL_PURPOSE_MIN; a request is   *)
(* the number of units that a call needs with its header.  Tail and Length *)
(* of AllocList are left out: the code writes them and never uses them.    *)
(***************************************************************************)
EXTENDS Integers, FiniteSets, FiniteSetsExt

CONSTANTS
  MemSize,                \* units in the buffer
  GENERALPURPOSE_BUCKETS,
  Requests,               \* sizes that callers ask for
  Null

GENERAL_PURPOSE_MAX == 2 ^ GENERALPURPOSE_BUCKETS
MEM_SPLIT_THRESHOLD == 2 * GENERAL_PURPOSE_MAX

Units == 0 .. MemSize - 1

\* The list for blocks of more than GENERAL_PURPOSE_MAX; the others are 0, 1, ...
Large == -1
Lists == {Large} \union 0 .. GENERALPURPOSE_BUCKETS - 1

AlignPowTwoCeil(n) ==
  Min({p \in n .. GENERAL_PURPOSE_MAX : \E e \in 0 .. GENERALPURPOSE_BUCKETS : p = 2 ^ e})

AllocSize(request) ==
  IF request > GENERAL_PURPOSE_MAX THEN request ELSE AlignPowTwoCeil(request)

\* The bits are shifted by one less than they should be, so that the smallest
\* size has index 1.
ConvertAllocSizeToIndex(size) == CHOOSE i \in 0 .. size : 2 ^ i = 2 * size

ListOf(size) ==
  IF size > GENERAL_PURPOSE_MAX THEN Large ELSE ConvertAllocSizeToIndex(size)

\* The last conjunct follows from the one before it; provers do not compute powers.
ASSUME SizeAssumption ==
  /\ MemSize \in Nat \ {0} /\ GENERALPURPOSE_BUCKETS \in Nat
  /\ GENERAL_PURPOSE_MAX \in Nat

\* The two largest bucket sizes have no list: they are not asked for.
ASSUME RequestAssumption ==
  /\ Requests \subseteq 1 .. MemSize - 1
  /\ \A r \in Requests : ListOf(AllocSize(r)) \in Lists

ASSUME NullAssumption == Null \notin Units

VARIABLES
  heap,    \* Offset, the Head of every list, and the MemNode at every address
  held,    \* addresses of blocks that callers hold
  owners   \* owners[u]: how many times unit u has been handed out and not freed

vars == <<heap, held, owners>>

NoNode == [Size |-> 0, Next |-> Null, Prev |-> Null]

\* Mutant: the buffer is taken to be one unit longer.
LongerHeap(nodes) ==
  [Offset |-> MemSize + 1, Head |-> [list \in Lists |-> Null], node |-> nodes]

EmptyHeap(nodes) ==
  [Offset |-> MemSize, Head |-> [list \in Lists |-> Null], node |-> nodes]

Init ==
  /\ heap = EmptyHeap([u \in Units |-> NoNode])
  /\ held = {}
  /\ owners = [u \in Units |-> 0]

-----------------------------------------------------------------------------
(* Lists.  An operator takes the heap h and returns the heap afterwards. *)

SetHead(h, list, n) == [h EXCEPT !.Head[list] = n]
SetNext(h, n, next) == [h EXCEPT !.node[n].Next = next]
SetPrev(h, n, prev) == [h EXCEPT !.node[n].Prev = prev]

RemoveMemNode(h, list, n) ==
  LET prev == h.node[n].Prev
      next == h.node[n].Next
      g == IF prev # Null THEN SetNext(h, prev, next)
           ELSE IF next # Null THEN SetPrev(SetHead(h, list, next), next, Null)
           ELSE SetHead(h, list, Null)
  IN  IF next # Null THEN SetPrev(g, next, g.node[n].Prev)
      ELSE IF prev # Null THEN SetNext(g, prev, Null)
      ELSE SetHead(g, list, Null)

\* The n-th node of a list; a list that is longer than the buffer is a cycle.
Nth(h, list) ==
  LET nth[n \in 0 .. MemSize] ==
        IF n = 0 THEN h.Head[list]
        ELSE IF nth[n - 1] = Null THEN Null ELSE h.node[nth[n - 1]].Next
  IN  nth

NodesOf(h, list) ==
  LET nth == Nth(h, list) IN {nth[n] : n \in 0 .. MemSize} \ {Null}

\* The upper part of a node that is much too large is cut off.
SplitMemNode(h, n, size) ==
  LET rest == h.node[n].Size - size IN
    [h EXCEPT !.node[n].Size = rest, !.node[n + rest].Size = size]

\* The first node of Large that is large enough: [heap, block], or block = Null.
FindMemNode(h, size) ==
  LET nth == Nth(h, Large)
      fits == {n \in 0 .. MemSize : nth[n] # Null => h.node[nth[n]].Size >= size}
      n == nth[Min(fits)]
  IN  IF n = Null THEN [heap |-> h, block |-> Null]
      ELSE IF h.node[n].Size <= size + MEM_SPLIT_THRESHOLD
        THEN [heap |-> RemoveMemNode(h, Large, n), block |-> n]
      ELSE [heap |-> SplitMemNode(h, n, size), block |-> n + h.node[n].Size - size]

\* Mutant: the backward link of curr is not set.
InsertForwardOnly(h, list, n, curr) ==
  LET prev == h.node[curr].Prev
      g == SetNext(h, n, curr)
  IN  IF prev = Null THEN SetHead(g, list, n) ELSE SetNext(SetPrev(g, n, prev), prev, n)

InsertMemNodeBefore(h, list, n, curr) ==
  LET prev == h.node[curr].Prev
      g == SetPrev(SetNext(h, n, curr), curr, n)
  IN  IF prev = Null THEN SetHead(g, list, n) ELSE SetNext(SetPrev(g, n, prev), prev, n)

\* Mutant: the node stays in its list.
MergeAndKeep(h, list, iter) ==
  [h EXCEPT !.Offset = @ + h.node[iter].Size]

\* A node at the lower end of what was handed out is merged back into the buffer.
MergeIntoBuffer(h, list, iter) ==
  [RemoveMemNode(h, list, iter) EXCEPT !.Offset = @ + h.node[iter].Size]

\* n goes before the head of Large: the two are merged if they touch.
InsertAtHead(h, n, head) ==
  IF n + h.node[n].Size = head
    THEN [h EXCEPT !.node[n] = [Size |-> @.Size + h.node[head].Size,
                                Next |-> h.node[head].Next, Prev |-> Null],
                   !.Head[Large] = n]
    ELSE SetHead(SetPrev(SetPrev(SetNext(h, n, head), n, Null), head, n), Large, n)

\* n is compared with iter: the heap, and the node to go on with, or Null.
Compared(h, list, n, iter) ==
  LET iterEnd == iter + h.node[iter].Size
      nodeEnd == n + h.node[n].Size
      done(g) == [heap |-> g, iter |-> Null]
  IN  IF iter = n \/ (iter < n /\ iterEnd > n) \/ (iter > n /\ iter < nodeEnd)
        THEN done(h)
      ELSE IF iter < n THEN
        IF iterEnd = n /\ list = Large
          THEN done([h EXCEPT !.node[iter].Size = @ + h.node[n].Size])
        ELSE IF h.node[iter].Next = Null
          THEN done(SetPrev(SetNext(h, iter, n), n, iter))
        ELSE [heap |-> h, iter |-> h.node[iter].Next]
      ELSE IF iter = h.Head[list] /\ list = Large
        THEN done(InsertAtHead(h, n, iter))
      ELSE done(InsertMemNodeBefore(h, list, n, iter))

InsertStep(s, list, n) ==
  LET h == s.heap IN
    IF s.iter # h.Offset THEN Compared(h, list, n, s.iter)
    ELSE LET g == MergeIntoBuffer(h, list, s.iter) IN
      IF g.Head[list] = Null
        THEN [heap |-> SetHead(g, list, n), iter |-> Null]
        ELSE Compared(g, list, n, g.Head[list])

\* After k iterations.
InsertIterations(h, list, n) ==
  LET after[k \in 0 .. MemSize] ==
        IF k = 0 THEN [heap |-> h, iter |-> h.Head[list]]
        ELSE IF after[k - 1].iter = Null THEN after[k - 1]
        ELSE InsertStep(after[k - 1], list, n)
  IN  after

InsertMemNode(h, list, n) ==
  IF h.Head[list] = Null
    THEN SetHead(h, list, n)
    ELSE InsertIterations(h, list, n)[MemSize].heap

-----------------------------------------------------------------------------
(* The allocator's operations on the heap: [heap, block], or block = Null. *)

FromList(h, size) ==
  LET list == ListOf(size) IN
    IF list = Large THEN FindMemNode(h, size)
    ELSE IF h.Head[list] = Null THEN [heap |-> h, block |-> Null]
    ELSE [heap |-> RemoveMemNode(h, list, h.Head[list]), block |-> h.Head[list]]

FromBuffer(h, size) ==
  IF h.Offset < size
    THEN [heap |-> h, block |-> Null]
    ELSE [heap |-> [h EXCEPT !.Offset = @ - size, !.node[h.Offset - size].Size = size],
          block |-> h.Offset - size]

Allocated(h, size) ==
  LET listed == FromList(h, size)
      found == IF listed.block # Null THEN listed ELSE FromBuffer(h, size)
  IN  IF found.block = Null THEN found
      ELSE [heap |-> SetPrev(SetNext(found.heap, found.block, Null), found.block, Null),
            block |-> found.block]

Freed(h, block) ==
  IF block < h.Offset THEN h
  ELSE IF block = h.Offset
    THEN [h EXCEPT !.Offset = @ + h.node[block].Size]
    ELSE InsertMemNode(h, ListOf(h.node[block].Size), block)

Extent(h, block) == block .. block + h.node[block].Size - 1

HandedOut(h, block, count) ==
  [u \in Units |-> IF u \in Extent(h, block) THEN count[u] + 1 ELSE count[u]]

GivenBack(h, block, count) ==
  [u \in Units |-> IF u \in Extent(h, block) THEN count[u] - 1 ELSE count[u]]

GeneralPurposeAlloc(request) ==
  LET result == Allocated(heap, AllocSize(request)) IN
    /\ result.block # Null
    /\ heap' = result.heap
    /\ held' = held \union {result.block}
    /\ owners' = HandedOut(result.heap, result.block, owners)

OutOfMemory(request) ==
  /\ Allocated(heap, AllocSize(request)).block = Null
  /\ UNCHANGED vars

GeneralPurposeFree(block) ==
  /\ heap' = Freed(heap, block)
  /\ held' = held \ {block}
  /\ owners' = GivenBack(heap, block, owners)

\* A block that is too small is exchanged for a new one; the old one is freed last.
GeneralPurposeRealloc(block, request) ==
  LET result == Allocated(heap, AllocSize(request)) IN
    /\ request > heap.node[block].Size
    /\ result.block # Null
    /\ heap' = Freed(result.heap, block)
    /\ held' = (held \ {block}) \union {result.block}
    /\ owners' = GivenBack(result.heap, block, HandedOut(result.heap, result.block, owners))

\* The callers' blocks are all gone.
GeneralPurposeClearAll ==
  /\ heap' = EmptyHeap(heap.node)
  /\ held' = {}
  /\ owners' = [u \in Units |-> 0]

Next ==
  \/ \E request \in Requests : GeneralPurposeAlloc(request) \/ OutOfMemory(request)
  \/ \E block \in held : GeneralPurposeFree(block)
  \/ \E block \in held, request \in Requests : GeneralPurposeRealloc(block, request)
  \/ GeneralPurposeClearAll

Spec == Init /\ [][Next]_vars

-----------------------------------------------------------------------------
(* Properties *)

MemNode == [Size : 0 .. MemSize, Next : Units \union {Null}, Prev : Units \union {Null}]

TypeOK ==
  /\ heap \in [Offset : 0 .. MemSize, Head : [Lists -> Units \union {Null}],
               node : [Units -> MemNode]]
  /\ held \in SUBSET Units
  /\ owners \in [Units -> Nat]

\* No memory is in the hands of two callers.
OwnedOnce == \A u \in Units : owners[u] <= 1

\* The free blocks that hold a unit, each with the list that it is in.
FreeBlocksAt(u) ==
  UNION {{<<list, n>> : n \in {m \in NodesOf(heap, list) : u \in Extent(heap, m)}} :
           list \in Lists}

\* Every unit is in one place: in the part of the buffer that was not handed out, in
\* one free block, or in one block that a caller holds.  None is ever lost, as in a
\* block that drops out of its list, and none is in two places.
EachUnitInOnePlace ==
  \A u \in Units :
    owners[u] + Cardinality(FreeBlocksAt(u)) = IF u < heap.Offset THEN 0 ELSE 1

\* The links of every list lead up through ascending addresses, end, and are the
\* same in both directions: a block can be unlinked wherever it is.
ListsLinked ==
  \A list \in Lists : \A n \in NodesOf(heap, list) :
    LET next == heap.node[n].Next IN
      next # Null => next > n /\ heap.node[next].Prev = n

=============================================================================

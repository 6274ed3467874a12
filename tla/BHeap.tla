------------------------------- MODULE BHeap -------------------------------
(***************************************************************************)
(* src/Lib/BHeap.h: a bounded binary heap over an array.                   *)
(*                                                                         *)
(* A key is a pointer, here its address, a natural number; Rank is the     *)
(* order that the owner's CompareFunc gives to what keys point at.  Push   *)
(* compares with CompareFunc while it lets an item rise, but HeapifyMin    *)
(* and HeapifyMax compare the pointers themselves while one sinks.  The    *)
(* module keeps both comparisons as they are, for keys whose addresses     *)
(* tell their order (integers cast to pointers) and for keys whose         *)
(* addresses do not (pointers to data); told, no variable of the code,     *)
(* records whether a pop has had to do with the latter.  The User pointer  *)
(* moves with its key and is left out.                                     *)
(*                                                                         *)
(* Each turn of a loop is a step; an owner uses either the Min or the Max  *)
(* operations.                                                             *)
(***************************************************************************)
EXTENDS FiniteSets, Integers

CONSTANTS
  Keys,       \* addresses of keys
  Rank,       \* Rank[k]: where CompareFunc puts what k points at
  Capacity

ASSUME KeysAreAddresses == Keys \subseteq Nat \ {0}
ASSUME RankAssumption == Rank \in [Keys -> Nat]
ASSUME CapacityAssumption == Capacity \in Nat \ {0}

VARIABLES
  Items,      \* keys of the items: the first Count, then left-overs
  Count,
  side,       \* the operations the owner uses, "min" or "max"
  pc,         \* "idle", "rise" in the loop of a push, "sink" in a Heapify
  index,      \* where the moving item is
  result,     \* what the last pop returned
  told        \* history: since the heap was last empty, every pop left keys
              \* whose addresses tell their rank

vars == <<Items, Count, side, pc, index, result, told>>

null == 0

Init ==
  /\ Items = [i \in 0 .. Capacity - 1 |-> null]
  /\ Count = 0
  /\ side \in {"min", "max"}
  /\ pc = "idle"
  /\ index = 0
  /\ result = null
  /\ told = TRUE

\* The items in use: the one that is being pushed is not counted yet.
Live == IF pc = "rise" THEN 0 .. Count ELSE 0 .. Count - 1

\* Of the keys held none has a smaller address and a greater rank than another.
PointersTellRank ==
  \A i, j \in Live : Items[i] < Items[j] => Rank[Items[i]] <= Rank[Items[j]]

-----------------------------------------------------------------------------
(* PushMin and PushMax: put the item at the bottom and let it rise. *)

\* Mutant: PushMax compares as PushMin does.
GoesAboveMin(cur, parent) == Rank[cur] < Rank[parent]

\* `CompareFunc(cur, parent) < 0` in PushMin, `>= 0` in PushMax.
GoesAbove(cur, parent) ==
  IF side = "min" THEN Rank[cur] < Rank[parent] ELSE Rank[cur] >= Rank[parent]

\* Mutant: the parent of a heap that starts at 1.
ParentFromOne(i) == i \div 2

Parent(i) == (i - 1) \div 2

\* Mutant: the test for room is off by one, and the last slot overflows.
PushPastCapacity(key) ==
  /\ pc = "idle"
  /\ Items' = [i \in DOMAIN Items \union {Count} |->
                 IF i = Count THEN key ELSE Items[i]]
  /\ index' = Count
  /\ pc' = "rise"
  /\ UNCHANGED <<Count, side, result, told>>

Push(key) ==
  /\ pc = "idle"
  /\ Count # Capacity
  /\ Items' = [Items EXCEPT ![Count] = key]
  /\ index' = Count
  /\ pc' = "rise"
  /\ UNCHANGED <<Count, side, result, told>>

MayRise == index > 0 /\ GoesAbove(Items[index], Items[Parent(index)])

Rise ==
  /\ pc = "rise"
  /\ MayRise
  /\ Items' = [Items EXCEPT ![index] = Items[Parent(index)],
                            ![Parent(index)] = Items[index]]
  /\ index' = Parent(index)
  /\ UNCHANGED <<Count, side, pc, result, told>>

Risen ==
  /\ pc = "rise"
  /\ ~ MayRise
  /\ Count' = Count + 1
  /\ pc' = "idle"
  /\ index' = 0
  /\ UNCHANGED <<Items, side, result, told>>

-----------------------------------------------------------------------------
(* PopMin and PopMax: take the root, put the last item there, let it sink. *)

Pop ==
  /\ pc = "idle"
  /\ Count > 0
  /\ result' = Items[0]
  /\ Items' = [Items EXCEPT ![0] = Items[Count - 1]]
  /\ Count' = Count - 1
  /\ pc' = "sink"
  /\ UNCHANGED <<side, index>>
  /\ told' = (PointersTellRank' /\ (told \/ Count' = 0))

\* PopMax answers a null item when it is empty; PopMin asserts that it is not.
PopEmpty ==
  /\ pc = "idle"
  /\ Count = 0
  /\ side = "max"
  /\ result' = null
  /\ UNCHANGED <<Items, Count, side, pc, index, told>>

\* `bh->Items[a].Key < bh->Items[b].Key`, or `>`: the pointers themselves.
KeyBefore(a, b) ==
  IF side = "min" THEN Items[a] < Items[b] ELSE Items[a] > Items[b]

\* Mutant: only the left child is looked at.
FirstOfTwo(i) == IF KeyBefore(2 * i + 1, i) THEN 2 * i + 1 ELSE i

\* _min, or _max: the first of an item and its children.
FirstOfThree(i) ==
  LET left == 2 * i + 1
      right == 2 * i + 2
      first == IF KeyBefore(left, i) THEN left ELSE i
  IN IF right < Count /\ KeyBefore(right, first) THEN right ELSE first

MaySink == 2 * index + 1 < Count /\ FirstOfThree(index) # index

Sink ==
  /\ pc = "sink"
  /\ MaySink
  /\ LET first == FirstOfThree(index) IN
     /\ Items' = [Items EXCEPT ![index] = Items[first],
                               ![first] = Items[index]]
     /\ index' = first
  /\ UNCHANGED <<Count, side, pc, result, told>>

Sunk ==
  /\ pc = "sink"
  /\ ~ MaySink
  /\ pc' = "idle"
  /\ index' = 0
  /\ UNCHANGED <<Items, Count, side, result, told>>

BHeapClear ==
  /\ pc = "idle"
  /\ Count' = 0
  /\ told' = TRUE
  /\ UNCHANGED <<Items, side, pc, index, result>>

Next ==
  \/ \E key \in Keys : Push(key)
  \/ Rise \/ Risen
  \/ Pop \/ PopEmpty \/ Sink \/ Sunk
  \/ BHeapClear

Spec == Init /\ [][Next]_vars

-----------------------------------------------------------------------------
(* Properties. *)

TypeOK ==
  /\ Items \in [0 .. Capacity - 1 -> Keys \union {null}]
  /\ Count \in 0 .. Capacity
  /\ side \in {"min", "max"}
  /\ pc \in {"idle", "rise", "sink"}
  /\ index \in 0 .. Capacity - 1
  /\ result \in Keys \union {null}
  /\ told \in BOOLEAN

NotAfter(a, b) == IF side = "min" THEN Rank[a] <= Rank[b] ELSE Rank[a] >= Rank[b]

Children(i) == {2 * i + 1, 2 * i + 2} \intersect (0 .. Count - 1)

NoneBeforeItsParent ==
  pc = "idle" =>
    \A i \in 0 .. Count - 1 : \A c \in Children(i) : NotAfter(Items[i], Items[c])

\* Between two calls no item comes before its parent, so the root is an item
\* to be popped next: what the loops of push and Heapify, which compare
\* different things and count from opposite ends, keep up together.  Keys
\* whose addresses do not tell their rank do no harm until a pop leaves them.
HeapOrder == told => NoneBeforeItsParent

OneOutOfPlace ==
  /\ pc = "rise" =>
       \A c \in Live \ {0, index} : NotAfter(Items[Parent(c)], Items[c])
  /\ pc = "sink" =>
       \A c \in Live \ {0} :
         Parent(c) # index => NotAfter(Items[Parent(c)], Items[c])
  /\ pc # "idle" =>
       \A c \in Live \ {0} : Parent(c) = index /\ index # 0 =>
                               NotAfter(Items[Parent(index)], Items[c])

\* While an item moves, only it is out of order, with its parent when it rises
\* and with its children when it sinks; its parent is in order with its
\* children.  Again until a pop leaves keys whose addresses do not tell.
MovingOrder == told => OneOutOfPlace

\* How many times each key is in the heap.
Times == [k \in Keys |-> Cardinality({i \in Live : Items[i] = k})]

\* The heap implements PriorityQueues whatever its keys point at: it holds
\* exactly the keys that were pushed and not popped, a pop gives one of them,
\* and, while told, one that CompareFunc puts first.
Promise == INSTANCE PriorityQueues WITH NoKey <- null, queue <- Times

ImplementsPriorityQueue == Promise!Spec

=============================================================================

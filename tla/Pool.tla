-------------------------------- MODULE Pool --------------------------------
(***************************************************************************)
(* src/Lib/Pool.h: a fixed array of items, the free ones linked through    *)
(* their own memory.  Items are the indices of Data.                       *)
(*                                                                         *)
(* Callers return an item once, and give all of them up before a Reset.    *)
(* Reset pushes every item but leaves Count and the old FreeList in place: *)
(* items that were out stay counted, and the list becomes a cycle through  *)
(* the old head.                                                           *)
(***************************************************************************)
EXTENDS Integers, Sequences

CONSTANTS
  Capacity,
  null,       \* the end of the free list
  User        \* what a caller writes over the link of an item it got

\* What the constants are assumed to be.
PoolConstants ==
  /\ Capacity \in Nat \ {0}
  /\ null \notin 0 .. Capacity - 1
  /\ User \notin 0 .. Capacity - 1

VARIABLES
  FreeList,
  Link,       \* Data[i].Next, overwritten while the item is out
  Count,
  owners,     \* history: how many callers hold an item
  usable      \* history: the items that Count lets Get hand out, next one first

vars == <<FreeList, Link, Count, owners, usable>>

Items == 0 .. Capacity - 1

\* The loop of Reset: each item is linked to the one before, the first to what
\* was the list.
Pushed(old) == [i \in Items |-> IF i = 0 THEN old ELSE i - 1]

\* Mutant: the loop starts at 1, and item 0 keeps its old link.
PushedButFirst(old) == [i \in Items |-> IF i = 0 THEN Link[0] ELSE i - 1]

FromTop(n) == [k \in 1 .. n |-> Capacity - k]

Init ==
  /\ FreeList = Capacity - 1
  /\ Link = Pushed(null)
  /\ Count = 0
  /\ owners = [i \in Items |-> 0]
  /\ usable = FromTop(Capacity)

\* Reset, of a pool whose items nobody uses any more.
Reset ==
  /\ FreeList' = Capacity - 1
  /\ Link' = Pushed(FreeList)
  /\ owners' = [i \in Items |-> 0]
  /\ usable' = FromTop(Capacity - Count)
  /\ UNCHANGED Count

\* Mutant: the test for room lets one item more go out than there are.
GetOneMore ==
  /\ Count <= Capacity
  /\ FreeList \in Items
  /\ FreeList' = Link[FreeList]
  /\ Link' = [Link EXCEPT ![FreeList] = User]
  /\ owners' = [owners EXCEPT ![FreeList] = @ + 1]
  /\ Count' = Count + 1
  /\ usable' = IF usable = <<>> THEN <<>> ELSE Tail(usable)

Get ==
  /\ Count # Capacity
  /\ FreeList' = Link[FreeList]
  /\ Link' = [Link EXCEPT ![FreeList] = User]
  /\ owners' = [owners EXCEPT ![FreeList] = @ + 1]
  /\ Count' = Count + 1
  /\ usable' = Tail(usable)

Return(ptr) ==
  /\ owners[ptr] > 0
  /\ Link' = [Link EXCEPT ![ptr] = FreeList]
  /\ FreeList' = ptr
  /\ owners' = [owners EXCEPT ![ptr] = @ - 1]
  /\ Count' = Count - 1
  /\ usable' = <<ptr>> \o usable

Next == Reset \/ Get \/ \E ptr \in Items : Return(ptr)

Spec == Init /\ [][Next]_vars

-----------------------------------------------------------------------------
(* Properties. *)

TypeOK ==
  /\ FreeList \in Items \union {null, User}
  /\ Link \in [Items -> Items \union {null, User}]
  /\ Count \in 0 .. Capacity
  /\ owners \in [Items -> Nat]
  /\ usable \in Seq(Items)

\* An item has at most one owner, although after a Reset the free list is a
\* cycle in which every item comes round again: Count refuses a Get before the
\* list comes round.
OneOwner == \A i \in Items : owners[i] <= 1

\* The list threads the items that may still go out, which nobody holds, and
\* Count tells how many they are.
Threaded ==
  /\ Len(usable) = Capacity - Count
  /\ usable # <<>> => FreeList = usable[1]
  /\ \A k \in 1 .. Len(usable) - 1 : Link[usable[k]] = usable[k + 1]
  /\ \A j, k \in 1 .. Len(usable) : usable[j] = usable[k] => j = k
  /\ \A k \in 1 .. Len(usable) : owners[usable[k]] = 0

=============================================================================

------------------------------- MODULE Lists -------------------------------
(***************************************************************************)
(* The arrays with a count of src/Lib/DArray.h, which may be moved into    *)
(* larger memory, and of src/Lib/StaticArray.h (StaticList).  Indices of   *)
(* the code count from 0: slot idx is Memory[idx + 1].                     *)
(*                                                                         *)
(* Three operations of DArray are wrong at the end of the array: PushAt    *)
(* and PushSwapBack at the last index write over the last value and let a  *)
(* slot that was not written in, and Pop leaves the only value in place.   *)
(* The history variable has no list from then on, until the array is       *)
(* empty.                                                                  *)
(*                                                                         *)
(* RemoveAt is called with an index inside the array, which the code does  *)
(* not assert.                                                             *)
(***************************************************************************)
EXTENDS Integers, Sequences

CONSTANTS
  Values,
  Zero,       \* a zeroed value
  Junk,       \* what unwritten memory holds
  MaxCapacity

\* What the constants are assumed to be.
ListConstants ==
  /\ MaxCapacity \in Nat \ {0}
  /\ Zero \notin Values /\ Junk \notin Values /\ Zero # Junk

VARIABLES
  kind,       \* "DArray" or "StaticList"
  Memory,     \* as many slots as Capacity says
  Count,
  list        \* history: what the calls describe

vars == <<kind, Memory, Count, list>>

S == INSTANCE SequencesExt

Capacity == Len(Memory)
NoList == <<Junk>>
LastIndex == IF Count = 0 THEN 0 ELSE Count - 1
Indices == 0 .. Count - 1

Init ==
  \/ kind = "DArray" /\ Memory = <<>> /\ Count = 0 /\ list = <<>>
  \/ /\ kind = "StaticList"
     /\ Memory = [i \in 1 .. MaxCapacity |-> Junk]
     /\ Count = 0 /\ list = <<>>

\* SMemMove of n values, of which one may lie behind the array.
Moved(dst, src, n) ==
  [i \in DOMAIN Memory |->
     IF i - dst \notin 1 .. n THEN Memory[i]
     ELSE IF i - dst + src \in DOMAIN Memory THEN Memory[i - dst + src] ELSE Junk]

\* The step that leaves count values in mem, of which the calls tell l.
Become(mem, count, l) ==
  /\ Memory' = mem
  /\ Count' = count
  /\ list' = IF count = 0 THEN <<>> ELSE IF list = NoList THEN NoList ELSE l
  /\ UNCHANGED kind

Shorter(l, n) == SubSeq(l, 1, Len(l) - n)

-----------------------------------------------------------------------------
(* Both. *)

Push(value) ==
  /\ Count < Capacity
  /\ Become([Memory EXCEPT ![Count + 1] = value], Count + 1, Append(list, value))

\* The last value fills the gap: RemoveSwapBack, and PopAt of StaticList, which
\* asks for an index before the last one.
RemoveSwapBack(idx) ==
  /\ kind = "StaticList" => idx < Count - 1
  /\ Become([Memory EXCEPT ![idx + 1] = Memory[LastIndex + 1]], Count - 1,
            Shorter([list EXCEPT ![idx + 1] = list[Len(list)]], 1))

Clear == Become(Memory, 0, <<>>)

-----------------------------------------------------------------------------
(* DArray. *)

\* Resize takes new memory from the arena and copies Capacity values.
Resize(newCapacity) ==
  /\ kind = "DArray"
  /\ newCapacity > Capacity
  /\ Become([i \in 1 .. newCapacity |-> IF i <= Capacity THEN Memory[i] ELSE Junk],
            Count, list)

PushMany(numberToAdd) ==
  /\ kind = "DArray"
  /\ numberToAdd <= Capacity - Count
  /\ Become([i \in DOMAIN Memory |->
               IF i - Count \in 1 .. numberToAdd THEN Zero ELSE Memory[i]],
            Count + numberToAdd,
            list \o [i \in 1 .. numberToAdd |-> Zero])

PushAt(value, idx) ==
  /\ kind = "DArray"
  /\ Count < Capacity
  /\ Become([(IF idx # LastIndex THEN Moved(idx + 1, idx, Count - idx) ELSE Memory)
               EXCEPT ![idx + 1] = value],
            Count + 1,
            IF idx # LastIndex THEN S!InsertAt(list, idx + 1, value) ELSE NoList)

PushSwapBack(value, idx) ==
  /\ kind = "DArray"
  /\ Count < Capacity
  /\ Become([(IF idx # LastIndex THEN Moved(Count, idx, 1) ELSE Memory)
               EXCEPT ![idx + 1] = value],
            Count + 1,
            IF idx # LastIndex
            THEN Append([list EXCEPT ![idx + 1] = value], list[idx + 1]) ELSE NoList)

Pop ==
  /\ kind = "DArray"
  /\ Count > 0
  /\ IF LastIndex > 0 THEN Become(Memory, Count - 1, Shorter(list, 1))
                      ELSE Become(Memory, Count, NoList)

\* Remove is RemoveMany of one; so is StaticList's Pop.
RemoveMany(numberToRemove) ==
  /\ kind = "StaticList" => numberToRemove = 1
  /\ Count > 0
  /\ IF Count <= numberToRemove
     THEN Become(Memory, 0, <<>>)
     ELSE Become(Memory, Count - numberToRemove, Shorter(list, numberToRemove))

\* Mutant: the move starts at the value that is to go.
RemoveAtItself(idx) ==
  /\ kind = "DArray"
  /\ Become(IF idx # Count - 1 THEN Moved(idx + 1, idx, Count - 1 - idx) ELSE Memory,
            Count - 1, S!RemoveAt(list, idx + 1))

RemoveAt(idx) ==
  /\ kind = "DArray"
  /\ Become(IF idx # Count - 1 THEN Moved(idx, idx + 1, Count - 1 - idx) ELSE Memory,
            Count - 1, S!RemoveAt(list, idx + 1))

-----------------------------------------------------------------------------
(* StaticList. *)

\* StaticList's PushAt: the value that was there goes to the end.
PushAtSwap(value, idx) ==
  /\ kind = "StaticList"
  /\ Count < Capacity
  /\ Become([Memory EXCEPT ![Count + 1] = Memory[idx + 1], ![idx + 1] = value],
            Count + 1, Append([list EXCEPT ![idx + 1] = value], list[idx + 1]))

PushAtOrder(value, idx) ==
  /\ kind = "StaticList"
  /\ Count < Capacity
  /\ Become([Moved(idx + 1, idx, Count - idx) EXCEPT ![idx + 1] = value],
            Count + 1, S!InsertAt(list, idx + 1, value))

\* One value too many is moved, from the slot behind the last one.
PopAtOrder(idx) ==
  /\ kind = "StaticList"
  /\ idx < Count - 1
  /\ Become(Moved(idx, idx + 1, Count - idx), Count - 1, S!RemoveAt(list, idx + 1))

Next ==
  \/ \E value \in Values :
       \/ Push(value)
       \/ \E idx \in Indices :
            \/ PushAt(value, idx) \/ PushSwapBack(value, idx)
            \/ PushAtSwap(value, idx) \/ PushAtOrder(value, idx)
  \/ \E idx \in Indices : RemoveAt(idx) \/ RemoveSwapBack(idx) \/ PopAtOrder(idx)
  \/ \E n \in 1 .. MaxCapacity : Resize(n) \/ PushMany(n) \/ RemoveMany(n)
  \/ Pop \/ Clear

Spec == Init /\ [][Next]_vars

-----------------------------------------------------------------------------
(* Properties. *)

TypeOK ==
  /\ kind \in {"DArray", "StaticList"}
  /\ Memory \in Seq(Values \union {Zero, Junk})
  /\ Count \in 0 .. Capacity
  /\ list \in Seq(Values \union {Zero}) \union {NoList}

\* The front of the memory is the list that the calls describe, whatever mixture
\* of ordered and unordered insertions and removals, and of moves into larger
\* memory, led to it; and a value that was never written is never part of it.
ListExact == list # NoList => SubSeq(Memory, 1, Count) = list

=============================================================================

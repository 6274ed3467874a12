----------------------------- MODULE SparseSet -----------------------------
(***************************************************************************)
(* src/Lib/SparseArray.h: values packed at the front of Dense, with the    *)
(* position of an id's value in Sparse and the id of a position in         *)
(* DenseLookup.                                                            *)
(*                                                                         *)
(* Callers add ids that are not held.  They may remove any id, as long as  *)
(* the set is not empty, which Remove asserts.  An id that was the last    *)
(* one when it was removed keeps its old position in Sparse, because line  *)
(* 78 writes it back: the id is stale.  Get may then answer for it with    *)
(* another id's value, and a second Remove of it takes another id's value  *)
(* away, after which the tables no longer agree.                           *)
(***************************************************************************)
EXTENDS Integers

CONSTANTS
  Capacity,
  Values,
  EMPTY,      \* the position of an id that has none
  Zero        \* what the arena's zeroed memory holds

\* What the constants are assumed to be.
SparseSetConstants ==
  /\ Capacity \in Nat \ {0}
  /\ EMPTY \notin 0 .. Capacity
  /\ Zero \notin Values

VARIABLES
  Sparse,
  DenseLookup,
  Dense,
  Count,
  stored,     \* history: the value last added for an id that is held, or Zero
  stale,      \* history: the ids that kept their position when they were removed
  spoilt      \* history: an id that is not held was removed by its old position

vars == <<Sparse, DenseLookup, Dense, Count, stored, stale, spoilt>>

Ids == 0 .. Capacity - 1
Held == {id \in Ids : stored[id] # Zero}

Init ==
  /\ Sparse = [id \in Ids |-> EMPTY]
  /\ DenseLookup = [i \in Ids |-> 0]
  /\ Dense = [i \in Ids |-> Zero]
  /\ Count = 0
  /\ stored = [id \in Ids |-> Zero]
  /\ stale = {}
  /\ spoilt = FALSE

Add(id, value) ==
  /\ id \notin Held
  /\ Count # Capacity
  /\ Sparse' = [Sparse EXCEPT ![id] = Count]
  /\ DenseLookup' = [DenseLookup EXCEPT ![Count] = id]
  /\ Dense' = [Dense EXCEPT ![Count] = value]
  /\ Count' = Count + 1
  /\ stored' = [stored EXCEPT ![id] = value]
  /\ stale' = stale \ {id}
  /\ UNCHANGED spoilt

\* Mutant: the id that moves is not told its new position.
RemoveUntold(id) ==
  /\ Sparse[id] # EMPTY
  /\ Count > 0
  /\ DenseLookup' = [DenseLookup EXCEPT ![Sparse[id]] = DenseLookup[Count - 1]]
  /\ Dense' = [Dense EXCEPT ![Sparse[id]] = Dense[Count - 1]]
  /\ Sparse' = [Sparse EXCEPT ![id] = EMPTY]
  /\ Count' = Count - 1
  /\ stored' = [stored EXCEPT ![id] = Zero]
  /\ spoilt' = (spoilt \/ id \notin Held)
  /\ UNCHANGED stale

\* The last value fills the gap.  Sparse[id] is set first, so when id itself is
\* the last one it gets its position back.
Remove(id) ==
  /\ Sparse[id] # EMPTY
  /\ Count > 0
  /\ LET idx == Sparse[id]
         lastId == DenseLookup[Count - 1]
     IN /\ DenseLookup' = [DenseLookup EXCEPT ![idx] = lastId]
        /\ Dense' = [Dense EXCEPT ![idx] = Dense[Count - 1]]
        /\ Sparse' = [Sparse EXCEPT ![id] = EMPTY, ![lastId] = idx]
        /\ stale' = IF lastId = id THEN stale \union {id} ELSE stale
  /\ Count' = Count - 1
  /\ stored' = [stored EXCEPT ![id] = Zero]
  /\ spoilt' = (spoilt \/ id \notin Held)

\* Remove returns at once for an id whose position is EMPTY.
RemoveNever(id) == Sparse[id] = EMPTY /\ UNCHANGED vars

Get(id) ==
  IF Sparse[id] # EMPTY /\ Sparse[id] < Count THEN Dense[Sparse[id]] ELSE Zero

Next ==
  \E id \in Ids :
    \/ \E value \in Values : Add(id, value)
    \/ Remove(id)
    \/ RemoveNever(id)

Spec == Init /\ [][Next]_vars

-----------------------------------------------------------------------------
(* Properties. *)

TypeOK ==
  /\ Sparse \in [Ids -> Ids \union {EMPTY}]
  /\ DenseLookup \in [Ids -> Ids]
  /\ Dense \in [Ids -> Values \union {Zero}]
  /\ Count \in 0 .. Capacity
  /\ stored \in [Ids -> Values \union {Zero}]
  /\ stale \subseteq Ids
  /\ spoilt \in BOOLEAN

\* Get answers the value last added for every id that is held, however often
\* values were moved to fill the gaps of others, and nothing for an id that is not
\* held unless it is stale; until a stale id is removed again.
HeldFound ==
  \/ spoilt
  \/ /\ \A id \in Held : Get(id) = stored[id]
     /\ \A id \in Ids \ (Held \union stale) : Get(id) = Zero

\* The front of Dense is exactly the held ids: each position names a held id
\* that knows the position, so a walk over Dense meets every id once.
Packed ==
  /\ \A i \in 0 .. Count - 1 :
       DenseLookup[i] \in Held /\ Sparse[DenseLookup[i]] = i
  /\ \A id \in Held : Sparse[id] \in 0 .. Count - 1 /\ DenseLookup[Sparse[id]] = id

=============================================================================

--------------------------- MODULE StringHashMap ---------------------------
(***************************************************************************)
(* StringHashMap of src/Lib/StringHashMap.h: the Robin Hood hash table     *)
(* whose keys are Strings and which can grow.  One thread uses it, so a    *)
(* call is a step.                                                         *)
(*                                                                         *)
(* A slot of Buckets and the entry of Values with the same index are       *)
(* always moved together: they are one record here, or Empty when IsUsed   *)
(* is false.  Two Strings are equal iff they are the same member of Keys,  *)
(* and then so are their hashes.                                           *)
(***************************************************************************)
EXTENDS Naturals, FiniteSets, FiniteSetsExt

CONSTANTS
  Keys,
  Values,
  MaxCapacity,   \* bounds Resize: a power of two
  Hashes,        \* candidates for HashString
  Empty,         \* a slot that is not used
  Absent         \* nullptr

\* The capacities that a table can have.
PowersOfTwo == {c \in 2 .. MaxCapacity : \A q \in 2 .. c : c % q = 0 => q % 2 = 0}

ASSUME MaxCapacityAssumption == MaxCapacity \in Nat /\ MaxCapacity \in PowersOfTwo

ASSUME HashAssumption == Hashes \subseteq [Keys -> Nat]

ASSUME EmptyAssumption == Empty \notin [String : Keys, ProbeLength : Nat, Value : Values]

VARIABLES
  HashString,    \* the hash function
  Capacity,
  Buckets,
  Count,
  request,       \* the last call
  answer         \* and what it returned

vars == <<HashString, Capacity, Buckets, Count, request, answer>>

\* The load factor is 0.85.
MaxCount(capacity) == (capacity * 85) \div 100

Home(key, capacity) == HashString[key] % capacity

Init ==
  /\ HashString \in Hashes
  /\ Capacity = 0
  /\ Buckets = <<>>
  /\ Count = 0
  /\ request = [op |-> "Clear", key |-> Absent]
  /\ answer = "Cleared"

-----------------------------------------------------------------------------
(* Add, on a table that is not full: one iteration of its loop after the other. *)

\* The loop ends at a slot that is not used or that holds the key.
AddEnds(s) ==
  s.slots[s.idx] # Empty => s.slots[s.idx].String = s.swapBucket.String

FirstPlace(s) == IF s.insertedIdx = Absent THEN s.idx ELSE s.insertedIdx

\* Mutant: the value is not swapped with the slot.
SwapSlotsOnly(s) ==
  LET slot == s.slots[s.idx] IN
    [s EXCEPT !.slots[s.idx] = [s.swapBucket EXCEPT !.Value = slot.Value],
              !.swapBucket = [slot EXCEPT !.ProbeLength = s.probeLength,
                                          !.Value = s.swapBucket.Value],
              !.probeLength = slot.ProbeLength,
              !.insertedIdx = FirstPlace(s)]

\* ProbeLength is swapped with the local first, and then once more with the slot:
\* the slot is left with the ProbeLength that swapBucket had.
SwapBuckets(s) ==
  LET slot == s.slots[s.idx] IN
    [s EXCEPT !.slots[s.idx] = s.swapBucket,
              !.swapBucket = [slot EXCEPT !.ProbeLength = s.probeLength],
              !.probeLength = slot.ProbeLength,
              !.insertedIdx = FirstPlace(s)]

AddStep(s) ==
  LET t == IF s.probeLength > s.slots[s.idx].ProbeLength THEN SwapBuckets(s) ELSE s
  IN  [t EXCEPT !.probeLength = @ + 1,
                !.idx = (@ + 1) % Cardinality(DOMAIN s.slots)]

AddStart(slots, key, value) ==
  [slots |-> slots, idx |-> Home(key, Cardinality(DOMAIN slots)), probeLength |-> 0,
   swapBucket |-> [String |-> key, ProbeLength |-> 0, Value |-> value],
   insertedIdx |-> Absent]

\* After n iterations.
AddIterations(slots, key, value) ==
  LET after[n \in 0 .. Cardinality(DOMAIN slots)] ==
        IF n = 0 THEN AddStart(slots, key, value)
        ELSE IF AddEnds(after[n - 1]) THEN after[n - 1] ELSE AddStep(after[n - 1])
  IN  after

AddLoop(slots, key, value) ==
  AddIterations(slots, key, value)[Cardinality(DOMAIN slots)]

\* [slots, DoesExist, Index]: the slots afterwards, and the result.
AddTo(slots, key, value) ==
  LET s == AddLoop(slots, key, value) IN
    IF s.slots[s.idx] = Empty
      THEN [slots |-> [s.slots EXCEPT ![s.idx] =
                         [s.swapBucket EXCEPT !.ProbeLength = s.probeLength]],
            DoesExist |-> FALSE, Index |-> FirstPlace(s)]
      ELSE [slots |-> s.slots, DoesExist |-> TRUE, Index |-> s.idx]

-----------------------------------------------------------------------------
(* Resize re-adds the entries in the order of their indices to a table of its     *)
(* own, tmpMap: here its slots and its Count.  tmpMap is larger than the table    *)
(* and never refuses an entry.                                                    *)

Unused(capacity) == [i \in 0 .. capacity - 1 |-> Empty]

\* Mutant: Add counts an entry that it found, too.
CountedAlways(count, result) == count + 1

\* Add counts an entry when it finds a slot for it.
Counted(count, result) == IF result.DoesExist THEN count ELSE count + 1

Readd(table, slot) ==
  IF slot = Empty THEN table
  ELSE LET result == AddTo(table.slots, slot.String, slot.Value) IN
         [slots |-> result.slots, Count |-> Counted(table.Count, result)]

\* After the first n slots.
Readded(capacity) ==
  LET after[n \in 0 .. Capacity] ==
        IF n = 0 THEN [slots |-> Unused(capacity), Count |-> 0]
        ELSE Readd(after[n - 1], Buckets[n - 1])
  IN  after

Rehashed(capacity) == Readded(capacity)[Capacity]

CeilPowTwo(n) == Min({c \in PowersOfTwo : c >= n})

Return(op, key, result) ==
  /\ request' = [op |-> op, key |-> key]
  /\ answer' = result
  /\ UNCHANGED HashString

Resize(wanted) ==
  LET capacity == CeilPowTwo(wanted)
      tmpMap == Rehashed(capacity)
  IN
    /\ capacity > Capacity
    /\ Capacity' = capacity
    /\ Buckets' = tmpMap.slots
    /\ Count' = tmpMap.Count
    /\ Return("Resize", Absent, "Resized")

-----------------------------------------------------------------------------
(* Add, Replace, and their variants with an allocator, which grow a full table. *)

\* Mutant: a table is full when every slot is used.
IsFullAtCapacity == Count = Capacity

IsFull == Count = MaxCount(Capacity)

Refuse(op, key) ==
  /\ IsFull
  /\ Return(op, key, "NOT_FOUND")
  /\ UNCHANGED <<Capacity, Buckets, Count>>

\* Replace stores the value through the index that Add returns.
Stored(result, value, replaces) ==
  IF replaces /\ result.DoesExist
    THEN [result.slots EXCEPT ![result.Index].Value = value]
    ELSE result.slots

Put(op, table, capacity, key, value) ==
  LET result == AddTo(table.slots, key, value)
  IN /\ Capacity' = capacity
     /\ Buckets' = Stored(result, value, op = "Replace")
     /\ Count' = Counted(table.Count, result)
     /\ Return(op, key, IF result.DoesExist THEN "DoesExist" ELSE "Inserted")

Add(op, key, value) == ~IsFull /\ Put(op, [slots |-> Buckets, Count |-> Count], Capacity, key, value)

AddAndGrow(op, key, value) ==
  LET capacity == CeilPowTwo(2 * Capacity) IN
    /\ IsFull
    /\ 2 * Capacity <= MaxCapacity
    /\ Put(op, Rehashed(capacity), capacity, key, value)

-----------------------------------------------------------------------------
At(key, distance) == (Home(key, Capacity) + distance) % Capacity

\* Get gives up at a slot that is closer to its home than the key would be.
Get(key) ==
  LET ends == {d \in 0 .. Capacity :
                 LET slot == Buckets[At(key, d)] IN
                   slot # Empty => d > slot.ProbeLength \/ slot.String = key}
      slot == Buckets[At(key, Min(ends))]
      found == slot # Empty /\ Min(ends) <= slot.ProbeLength
  IN  /\ Return("Get", key, IF Count # 0 /\ found THEN slot.Value ELSE Absent)
      /\ UNCHANGED <<Capacity, Buckets, Count>>

\* The slots from first on, up to the first one that is unused or at home, move
\* one step back.
ShiftedBack(first) ==
  LET at(n) == (first + n) % Capacity
      moved == Min({n \in 0 .. Capacity - 1 :
                      Buckets[at(n + 1)] # Empty => Buckets[at(n + 1)].ProbeLength = 0})
  IN  [i \in DOMAIN Buckets |->
         IF i = at(moved) THEN Empty
         ELSE IF \E n \in 0 .. moved : i = at(n)
           THEN [Buckets[(i + 1) % Capacity] EXCEPT !.ProbeLength = @ - 1]
         ELSE Buckets[i]]

Remove(key) ==
  LET ends == {d \in 0 .. Capacity - 1 :
                 Buckets[At(key, d)] # Empty => Buckets[At(key, d)].String = key}
      idx == At(key, Min(ends))
  IN  IF Count # 0 /\ Buckets[idx] # Empty
        THEN /\ Buckets' = ShiftedBack(idx)
             /\ Count' = Count - 1
             /\ Return("Remove", key, "Removed")
             /\ UNCHANGED Capacity
        ELSE /\ Return("Remove", key, "NotFound")
             /\ UNCHANGED <<Capacity, Buckets, Count>>

Clear ==
  /\ Buckets' = Unused(Capacity)
  /\ Count' = 0
  /\ Return("Clear", Absent, "Cleared")
  /\ UNCHANGED Capacity

Next ==
  \/ \E wanted \in 1 .. MaxCapacity : Resize(wanted)
  \/ \E key \in Keys, value \in Values, op \in {"Add", "Replace"} :
       \/ Add(op, key, value)
       \/ Refuse(op, key)
       \/ AddAndGrow(op, key, value)
  \/ \E key \in Keys : Get(key) \/ Remove(key)
  \/ Clear

Spec == Init /\ [][Next]_vars

-----------------------------------------------------------------------------
(* Properties *)

Slot == [String : Keys, ProbeLength : 0 .. MaxCapacity - 1, Value : Values]

TypeOK ==
  /\ Capacity \in 0 .. MaxCapacity
  /\ Buckets \in [0 .. Capacity - 1 -> Slot \union {Empty}]
  /\ Count \in 0 .. MaxCount(Capacity)

UsedSlots(slots) == {i \in DOMAIN slots : slots[i] # Empty}

\* Count, which Add and Remove keep for each table and Resize takes from the new
\* one, is the number of slots in use: what the growth test goes by.
CountExact == Count = Cardinality(UsedSlots(Buckets))

\* The values that slots hold under a key.
ValuesOf(key) == {Buckets[i].Value : i \in {j \in UsedSlots(Buckets) : Buckets[j].String = key}}

\* A key may be in two slots: an Add that displaces an entry can pass the place
\* where its own key is (see FoundIfHeld).
EachKeyOnce ==
  \A i, j \in UsedSlots(Buckets) : Buckets[i].String = Buckets[j].String => i = j

\* However far a displacement, a shift or a growth reaches, no other key than that
\* of the call loses all its entries.  And while no key is in two slots, the other
\* keys keep their values; once one is, an Add that meets the key it carries away
\* drops that entry, and a Replace writes its value to the one it meets.
OthersKept ==
  [][\A key \in Keys \ {request'.key} :
       request'.op # "Clear" =>
         /\ ValuesOf(key) # {} => ValuesOf(key)' # {}
         /\ EachKeyOnce => ValuesOf(key)' = ValuesOf(key)]_vars

\* A key that was added and not removed since is found: Get never answers that a
\* key is absent while a slot holds it.
FoundIfHeld ==
  request.op = "Get" /\ answer = Absent => ValuesOf(request.key) = {}

=============================================================================

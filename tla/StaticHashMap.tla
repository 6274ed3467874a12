--------------------------- MODULE StaticHashMap ---------------------------
(***************************************************************************)
(* StaticHashMap of src/Lib/HashMaps.h: a Robin Hood hash table with       *)
(* linear probing and backward-shift deletion.  A bucket remembers how far *)
(* it is from the home of its key (ProbeLength); Add lets the key that is  *)
(* farther from home take the bucket and carries the other one on; Remove  *)
(* moves the buckets that follow one step back; Get gives up at the first  *)
(* bucket that is closer to its home than the key would be.                *)
(*                                                                         *)
(* Each iteration of a loop is a step.  The hash function is any member of *)
(* Hashes, so every pattern of collisions is covered.  A bucket with       *)
(* IsUsed = false is Empty: the code never reads its other fields.         *)
(***************************************************************************)
EXTENDS Naturals, FiniteSets

CONSTANTS
  Keys,
  Values,
  Capacity,
  MaxCount,    \* Capacity * loadFactor, rounded down
  Hashes,      \* candidates for HashAndMod(_, Capacity)
  Empty,       \* a bucket that is not used
  NoBucket,    \* no bucket is being carried
  Absent,      \* nullptr
  Pending      \* the operation is under way

Indices == 0 .. Capacity - 1

NOT_FOUND == Capacity

\* Init takes every load factor up to 1.0: all buckets may be used.
ASSUME CapacityAssumption ==
  /\ MaxCount \in Nat \ {0}
  /\ Capacity \in Nat
  /\ MaxCount <= Capacity

ASSUME HashAssumption == Hashes \subseteq [Keys -> Indices]

\* What a call answers when it does not answer with a value.
Results == {"IsMapFull", "Inserted", "DoesExist", "NotFound", "Removed", "Cleared"}

ASSUME ConstantsDiffer ==
  /\ Absent \notin Values
  /\ Pending \notin Values \union {Absent} \union Results
  /\ Empty # NoBucket

Bucket == [Key : Keys, ProbeLength : Indices, Value : Values]

ASSUME EmptyAssumption == Empty \notin Bucket /\ NoBucket \notin Bucket

VARIABLES
  hash,         \* the hash function
  Buckets, Count,
  request,      \* the call under way, or the last one
  answer,       \* what it returned, or Pending
  pc,           \* where the call is: "idle", "begin", "add", "get", "find", "shift"
  idx,          \* index of the bucket it looks at
  probeLength,  \* of the bucket it carries, or of the key it looks for
  swapBucket,   \* the bucket that Add carries
  insertedIdx   \* where Add has put the new key: Index in the result of Add

locals == <<pc, idx, probeLength, swapBucket, insertedIdx>>
vars == <<hash, Buckets, Count, request, answer, locals>>

Requests ==
  [op : {"Add", "Replace"}, key : Keys, value : Values]
    \union [op : {"Get", "Remove"}, key : Keys]
    \union [op : {"Clear"}]

\* Mutant: the index does not wrap.
SuccUnwrapped(i) == i + 1

Succ(i) == IF i + 1 = Capacity THEN 0 ELSE i + 1

IsUsed(i) == Buckets[i] # Empty

Init ==
  /\ hash \in Hashes
  /\ Buckets = [i \in Indices |-> Empty]
  /\ Count = 0
  /\ request = [op |-> "Clear"]
  /\ answer = "Cleared"
  /\ pc = "idle"
  /\ idx = 0
  /\ probeLength = 0
  /\ swapBucket = NoBucket
  /\ insertedIdx = NOT_FOUND

Call ==
  /\ pc = "idle"
  /\ request' \in Requests
  /\ answer' = Pending
  /\ pc' = "begin"
  /\ idx' = 0
  /\ probeLength' = 0
  /\ swapBucket' = NoBucket
  /\ insertedIdx' = NOT_FOUND
  /\ UNCHANGED <<hash, Buckets, Count>>

\* The call returns: its local variables end, but for the index that Add returns.
Return(result, index) ==
  /\ pc' = "idle"
  /\ answer' = result
  /\ insertedIdx' = index
  /\ idx' = 0
  /\ probeLength' = 0
  /\ swapBucket' = NoBucket
  /\ UNCHANGED <<hash, request>>

Advance ==
  /\ probeLength' = probeLength + 1
  /\ idx' = Succ(idx)

-----------------------------------------------------------------------------
(* Add, and Replace, which is Add followed by a store if the key exists. *)

IsFull == Count = MaxCount

AddFull ==
  /\ pc = "begin" /\ request.op \in {"Add", "Replace"}
  /\ IsFull
  /\ Return("IsMapFull", NOT_FOUND)
  /\ UNCHANGED <<Buckets, Count>>

AddBegin ==
  /\ pc = "begin" /\ request.op \in {"Add", "Replace"}
  /\ ~IsFull
  /\ pc' = "add"
  /\ swapBucket' = [Key |-> request.key, ProbeLength |-> 0, Value |-> request.value]
  /\ idx' = hash[request.key]
  /\ UNCHANGED <<hash, Buckets, Count, request, answer, probeLength, insertedIdx>>

\* Mutant: the index where the last carried bucket ended.
LastPlace == idx

FirstPlace == IF insertedIdx = NOT_FOUND THEN idx ELSE insertedIdx

AddInsert ==
  /\ pc = "add" /\ ~IsUsed(idx)
  /\ Buckets' = [Buckets EXCEPT ![idx] = [swapBucket EXCEPT !.ProbeLength = probeLength]]
  /\ Count' = Count + 1
  /\ Return("Inserted", FirstPlace)

AddExists ==
  /\ pc = "add" /\ IsUsed(idx)
  /\ Buckets[idx].Key = swapBucket.Key
  /\ Buckets' = IF request.op = "Replace"
                  THEN [Buckets EXCEPT ![idx].Value = request.value]
                  ELSE Buckets
  /\ Return("DoesExist", idx)
  /\ UNCHANGED Count

\* Mutant: the probe lengths are swapped before the buckets, as in StringHashMap.
AddSwapLengthFirst ==
  /\ pc = "add" /\ IsUsed(idx)
  /\ Buckets[idx].Key # swapBucket.Key
  /\ probeLength > Buckets[idx].ProbeLength
  /\ insertedIdx' = FirstPlace
  /\ Buckets' = [Buckets EXCEPT ![idx] = swapBucket]
  /\ swapBucket' = Buckets[idx]
  /\ probeLength' = Buckets[idx].ProbeLength + 1
  /\ idx' = Succ(idx)
  /\ UNCHANGED <<hash, Count, request, answer, pc>>

\* The bucket is closer to its home than the one carried: they change places.
AddSwap ==
  /\ pc = "add" /\ IsUsed(idx)
  /\ Buckets[idx].Key # swapBucket.Key
  /\ probeLength > Buckets[idx].ProbeLength
  /\ insertedIdx' = FirstPlace
  /\ Buckets' = [Buckets EXCEPT ![idx] = [swapBucket EXCEPT !.ProbeLength = probeLength]]
  /\ swapBucket' = Buckets[idx]
  /\ probeLength' = Buckets[idx].ProbeLength + 1
  /\ idx' = Succ(idx)
  /\ UNCHANGED <<hash, Count, request, answer, pc>>

AddNext ==
  /\ pc = "add" /\ IsUsed(idx)
  /\ Buckets[idx].Key # swapBucket.Key
  /\ probeLength <= Buckets[idx].ProbeLength
  /\ Advance
  /\ UNCHANGED <<hash, Buckets, Count, request, answer, pc, swapBucket, insertedIdx>>

Add == AddFull \/ AddBegin \/ AddInsert \/ AddExists \/ AddSwap \/ AddNext

-----------------------------------------------------------------------------
GetBegin ==
  /\ pc = "begin" /\ request.op = "Get"
  /\ Count # 0
  /\ pc' = "get"
  /\ idx' = hash[request.key]
  /\ UNCHANGED <<hash, Buckets, Count, request, answer, probeLength, swapBucket, insertedIdx>>

GetNothing ==
  /\ \/ pc = "begin" /\ request.op = "Get" /\ Count = 0
     \/ pc = "get" /\ (IsUsed(idx) => probeLength > Buckets[idx].ProbeLength)
  /\ Return(Absent, NOT_FOUND)
  /\ UNCHANGED <<Buckets, Count>>

GetValue ==
  /\ pc = "get" /\ IsUsed(idx)
  /\ probeLength <= Buckets[idx].ProbeLength
  /\ Buckets[idx].Key = request.key
  /\ Return(Buckets[idx].Value, NOT_FOUND)
  /\ UNCHANGED <<Buckets, Count>>

GetNext ==
  /\ pc = "get" /\ IsUsed(idx)
  /\ probeLength <= Buckets[idx].ProbeLength
  /\ Buckets[idx].Key # request.key
  /\ Advance
  /\ UNCHANGED <<hash, Buckets, Count, request, answer, pc, swapBucket, insertedIdx>>

Get == GetBegin \/ GetNothing \/ GetValue \/ GetNext

-----------------------------------------------------------------------------
RemoveBegin ==
  /\ pc = "begin" /\ request.op = "Remove"
  /\ Count # 0
  /\ pc' = "find"
  /\ idx' = hash[request.key]
  /\ UNCHANGED <<hash, Buckets, Count, request, answer, probeLength, swapBucket, insertedIdx>>

RemoveNothing ==
  /\ \/ pc = "begin" /\ request.op = "Remove" /\ Count = 0
     \/ pc = "find" /\ ~IsUsed(idx)
  /\ Return("NotFound", NOT_FOUND)
  /\ UNCHANGED <<Buckets, Count>>

\* Mutant: at the end of the array the search goes back to the home of the key.
RemoveNextFromHome ==
  /\ pc = "find" /\ IsUsed(idx)
  /\ Buckets[idx].Key # request.key
  /\ idx' = IF idx + 1 = Capacity THEN hash[request.key] ELSE idx + 1
  /\ UNCHANGED <<hash, Buckets, Count, request, answer, pc, probeLength, swapBucket, insertedIdx>>

RemoveNext ==
  /\ pc = "find" /\ IsUsed(idx)
  /\ Buckets[idx].Key # request.key
  /\ idx' = Succ(idx)
  /\ UNCHANGED <<hash, Buckets, Count, request, answer, pc, probeLength, swapBucket, insertedIdx>>

RemoveFound ==
  /\ pc = "find" /\ IsUsed(idx)
  /\ Buckets[idx].Key = request.key
  /\ pc' = "shift"
  /\ UNCHANGED <<hash, Buckets, Count, request, answer, idx, probeLength, swapBucket, insertedIdx>>

\* The bucket after idx is away from its home: it moves one step back.
StaysHome(i) == IsUsed(i) => Buckets[i].ProbeLength = 0

\* Mutant: the bucket moves, its probe length does not.
MovedUnchanged(i) == Buckets[i]

MovedBack(i) == [Buckets[i] EXCEPT !.ProbeLength = @ - 1]

RemoveShift ==
  /\ pc = "shift" /\ ~StaysHome(Succ(idx))
  /\ Buckets' = [Buckets EXCEPT ![idx] = MovedBack(Succ(idx)),
                                ![Succ(idx)] = MovedBack(Succ(idx))]
  /\ idx' = Succ(idx)
  /\ UNCHANGED <<hash, Count, request, answer, pc, probeLength, swapBucket, insertedIdx>>

\* Mutant: the last bucket that moved stays in its old place too.
RemoveLastUncleared ==
  /\ pc = "shift" /\ StaysHome(Succ(idx))
  /\ Count' = Count - 1
  /\ Return("Removed", NOT_FOUND)
  /\ UNCHANGED Buckets

RemoveLast ==
  /\ pc = "shift" /\ StaysHome(Succ(idx))
  /\ Buckets' = [Buckets EXCEPT ![idx] = Empty]
  /\ Count' = Count - 1
  /\ Return("Removed", NOT_FOUND)

Remove == RemoveBegin \/ RemoveNothing \/ RemoveNext \/ RemoveFound \/ RemoveShift \/ RemoveLast

Clear ==
  /\ pc = "begin" /\ request.op = "Clear"
  /\ Buckets' = [i \in Indices |-> Empty]
  /\ Count' = 0
  /\ Return("Cleared", NOT_FOUND)

-----------------------------------------------------------------------------
Step == Add \/ Get \/ Remove \/ Clear

Next == Call \/ Step

Spec == Init /\ [][Next]_vars

\* One thread uses the map, and a call that has begun runs on.
FairSpec == Spec /\ WF_vars(Step)

-----------------------------------------------------------------------------
(* Properties *)

TypeOK ==
  /\ hash \in [Keys -> Indices]
  /\ Buckets \in [Indices -> Bucket \union {Empty}]
  /\ Count \in 0 .. MaxCount
  /\ request \in Requests
  /\ answer \in Values \union {Absent, Pending} \union Results
  /\ pc \in {"idle", "begin", "add", "get", "find", "shift"}
  /\ idx \in Indices
  /\ probeLength \in 0 .. Capacity
  /\ swapBucket \in Bucket \union {NoBucket}
  /\ insertedIdx \in Indices \union {NOT_FOUND}

\* The buckets that hold an entry: while Remove shifts, the one at idx is the hole.
Held == {i \in Indices : IsUsed(i) /\ ~(pc = "shift" /\ i = idx)}

Distance(from, to) == IF from <= to THEN to - from ELSE (to + Capacity) - from

\* Every entry knows how far it is from home, and between its home and itself
\* there is no hole and no entry that is closer to its own home by more than the
\* step between them: what Get relies on when it gives up early.  While Remove
\* shifts, the hole moves along with it, so this is said between shifts.
RobinHood ==
  pc # "shift" =>
    \A i \in Indices : IsUsed(i) =>
      /\ Buckets[i].ProbeLength = Distance(hash[Buckets[i].Key], i)
      /\ \A j \in Indices :
           Succ(j) = i /\ Buckets[i].ProbeLength > 0 =>
             IsUsed(j) /\ Buckets[j].ProbeLength + 1 >= Buckets[i].ProbeLength

\* No key is held twice, be it in two buckets or in a bucket and in the carried
\* one, not even while entries move.
EachKeyOnce ==
  /\ \A i, j \in Held : Buckets[i].Key = Buckets[j].Key => i = j
  /\ insertedIdx # NOT_FOUND /\ pc = "add" =>
       \A i \in Held : Buckets[i].Key # swapBucket.Key

\* The index that Add returns is that of the bucket that holds the key, however
\* many buckets were moved after it was put there.
IndexOfKey ==
  pc = "idle" /\ insertedIdx # NOT_FOUND =>
    IsUsed(insertedIdx) /\ Buckets[insertedIdx].Key = request.key

\* What the table holds, as a map: an entry counts as removed once it is found,
\* and as added once it has a bucket.
InPlace(k) == \E i \in Held : Buckets[i].Key = k

Content ==
  [k \in Keys |->
     IF InPlace(k) THEN Buckets[CHOOSE i \in Held : Buckets[i].Key = k].Value
     ELSE IF pc = "add" /\ insertedIdx # NOT_FOUND /\ swapBucket.Key = k
       THEN swapBucket.Value
     ELSE Absent]

Decided ==
  IF pc = "add" /\ insertedIdx # NOT_FOUND THEN "Inserted"
  ELSE IF pc = "shift" THEN "Removed"
  ELSE answer

Promise == INSTANCE KeyValueMap WITH content <- Content, answer <- Decided

\* The table is a map: every operation answers what a map would, and changes the
\* entry of its key and no other.
ImplementsMap == Promise!Spec

\* Remove looks for a missing key in a table whose every bucket is used: only a
\* bucket that is not used ends the loop of line 227.
SearchesForEver == pc = "find" /\ Count = Capacity /\ ~InPlace(request.key)

\* Every call returns, in a full table too: no probe goes round for ever, but for
\* the search of Remove for a missing key in a full table, and that one does.
EveryCallReturns ==
  /\ pc # "idle" ~> pc = "idle" \/ SearchesForEver
  /\ [][SearchesForEver => SearchesForEver']_vars

=============================================================================

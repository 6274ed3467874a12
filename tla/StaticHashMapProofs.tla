------------------------ MODULE StaticHashMapProofs ------------------------
(***************************************************************************)
(* The Robin Hood table of StaticHashMap, for every number of keys,        *)
(* values and buckets and every hash function.                             *)
(*                                                                         *)
(* The inductive invariant IInv says of the whole probe path of an entry   *)
(* what RobinHood says of neighbours: from the home of its key up to its   *)
(* bucket there is no gap, and every entry on the way is at least as far   *)
(* from its own home as this key would be there (Ordered).  While Remove   *)
(* shifts, the hole is the one exception.  To this come what a call in     *)
(* progress knows: which buckets its probe has passed (ProbingFrom,        *)
(* NotAmong), and, once Add carries a bucket that it displaced, that the   *)
(* new key stays where it was put (Carrying).  Add does not come back to   *)
(* where its probe began, because it begins with a bucket free             *)
(* (OneIsFree).  In a full table Get may go all the way round, and gives   *)
(* up there at the latest; Remove may go round for ever, which changes     *)
(* nothing in the table.                                                   *)
(*                                                                         *)
(* From the invariant follow the properties of the table and that it       *)
(* implements KeyValueMap: AddInsert and AddSwap map to AddNew when they   *)
(* give the key of the request its first bucket, RemoveFound to Remove,    *)
(* the steps before that and after it to no step.                          *)
(***************************************************************************)
EXTENDS StaticHashMap, FiniteSetTheorems, TLAPS

-----------------------------------------------------------------------------
(* Steps along the table. *)

LEMMA Sizes ==
  /\ Capacity \in Nat /\ Capacity > 0 /\ MaxCount \in Nat /\ MaxCount <= Capacity
  /\ \A i \in Indices : i \in Nat /\ i < Capacity
  /\ \A i \in Nat : i < Capacity => i \in Indices
  /\ 0 \in Indices /\ NOT_FOUND \notin Indices
BY CapacityAssumption DEF Indices, NOT_FOUND

LEMMA IndicesUpToCapacity == Indices \subseteq 0 .. Capacity
BY CapacityAssumption DEF Indices

LEMMA DistanceType ==
  ASSUME NEW h \in Indices, NEW i \in Indices
  PROVE  /\ Distance(h, i) \in Indices /\ Distance(h, i) \in Nat
         /\ Distance(h, i) < Capacity
         /\ Distance(h, i) = 0 <=> h = i
BY Sizes DEF Distance

LEMMA DistanceUnique ==
  ASSUME NEW h \in Indices, NEW i \in Indices, NEW j \in Indices,
         Distance(h, i) = Distance(h, j)
  PROVE  i = j
BY Sizes DEF Distance

LEMMA SuccType ==
  ASSUME NEW i \in Indices
  PROVE  Succ(i) \in Indices /\ (Capacity > 1 => Succ(i) # i)
BY Sizes DEF Succ

\* A step leads one further from h, unless it leads to h itself.
LEMMA OneFurther ==
  ASSUME NEW h \in Indices, NEW i \in Indices
  PROVE  /\ Distance(h, i) + 1 < Capacity => Distance(h, Succ(i)) = Distance(h, i) + 1
         /\ Distance(h, i) + 1 = Capacity => Succ(i) = h
         /\ Succ(i) # h => /\ Distance(h, Succ(i)) = Distance(h, i) + 1
                           /\ Distance(h, i) + 1 < Capacity
BY Sizes DEF Distance, Succ

\* What is nearer than the bucket after i, is i or nearer than i.
LEMMA BeforeNext ==
  ASSUME NEW h \in Indices, NEW i \in Indices, NEW j \in Indices, NEW n \in Nat,
         Distance(h, i) = n, Distance(h, j) < n + 1
  PROVE  j = i \/ Distance(h, j) < n
<1>1. Distance(h, j) \in Nat
  BY DistanceType
<1>2. Distance(h, j) = n \/ Distance(h, j) < n
  BY <1>1
<1> QED BY <1>2, DistanceUnique
-----------------------------------------------------------------------------
(* The inductive invariant. *)

Home(i) == hash[Buckets[i].Key]

\* While Remove shifts, the bucket at idx is the hole.
IsHole(i) == pc = "shift" /\ i = idx

\* The first n buckets from h are used, and none is closer to its home than a
\* key of home h would be there.
Probed(h, n) ==
  \A j \in Indices :
    Distance(h, j) < n /\ ~ IsHole(j) =>
      IsUsed(j) /\ Buckets[j].ProbeLength >= Distance(h, j)

\* RobinHood from every entry all the way back to its home, and during a shift.
Ordered ==
  \A i \in Held : /\ Buckets[i].ProbeLength = Distance(Home(i), i)
                  /\ Probed(Home(i), Buckets[i].ProbeLength + 1)

Used == {i \in Indices : IsUsed(i)}

CountIs == Count = Cardinality(Used)

KeysDiffer == \A i, j \in Held : Buckets[i].Key = Buckets[j].Key => i = j

\* None of the first n buckets from h holds key k.
NotAmong(k, h, n) ==
  \A j \in Indices : Distance(h, j) < n => IsUsed(j) /\ Buckets[j].Key # k

\* The probe is at idx, after probeLength steps from h.
ProbingFrom(h) == Distance(h, idx) = probeLength /\ Probed(h, probeLength)

\* Add looks for request.key.
Searching ==
  /\ insertedIdx = NOT_FOUND
  /\ swapBucket.Key = request.key /\ swapBucket.Value = request.value
  /\ NotAmong(request.key, hash[request.key], probeLength)

\* Add has placed request.key and carries a bucket that it displaced.
Carrying ==
  /\ insertedIdx \in Indices /\ insertedIdx # idx
  /\ IsUsed(insertedIdx) /\ Buckets[insertedIdx].Key = request.key
  /\ \A j \in Indices : Distance(insertedIdx, j) < Distance(insertedIdx, idx) => IsUsed(j)
  /\ \A i \in Held : Buckets[i].Key # swapBucket.Key

Adding ==
  /\ request.op \in {"Add", "Replace"}
  /\ Count < MaxCount /\ swapBucket \in Bucket
  /\ ProbingFrom(hash[swapBucket.Key])
  /\ Searching \/ Carrying

\* Get is somewhere on the way from the home of its key, or has been everywhere.
Getting ==
  /\ request.op = "Get"
  /\ \/ Distance(hash[request.key], idx) = probeLength
     \/ idx = hash[request.key] /\ probeLength = Capacity
  /\ Probed(hash[request.key], probeLength)
  /\ NotAmong(request.key, hash[request.key], probeLength)

Finding ==
  /\ request.op = "Remove"
  /\ NotAmong(request.key, hash[request.key], Distance(hash[request.key], idx))

Local ==
  /\ answer = Pending <=> pc # "idle"
  /\ pc \in {"begin", "find", "shift"} => probeLength = 0
  /\ pc \in {"begin", "get", "find", "shift"} => insertedIdx = NOT_FOUND
  /\ pc = "add" => Adding
  /\ pc = "get" => Getting
  /\ pc = "find" => Finding
  /\ pc = "shift" => IsUsed(idx) /\ request.op = "Remove"

IInv ==
  /\ TypeOK /\ CountIs /\ Ordered /\ KeysDiffer /\ Local /\ IndexOfKey
-----------------------------------------------------------------------------
(* The buckets that are used. *)

LEMMA UsedFinite ==
  /\ IsFiniteSet(Indices) /\ Cardinality(Indices) = Capacity
  /\ IsFiniteSet(Used) /\ Cardinality(Used) \in Nat
  /\ IsFiniteSet(Used')
<1>1. IsFiniteSet(Indices) /\ Cardinality(Indices) = Capacity
  <2>1. Capacity - 1 \in Int /\ 0 \in Int /\ 0 <= Capacity - 1 /\ (Capacity - 1) - 0 + 1 = Capacity
    BY Sizes
  <2> QED BY <2>1, FS_Interval DEF Indices
<1>2. Used \subseteq Indices /\ Used' \subseteq Indices
  BY DEF Used
<1>3. IsFiniteSet(Used) /\ IsFiniteSet(Used')
  BY <1>1, <1>2, FS_Subset
<1> QED BY <1>1, <1>3, FS_CardinalityType

\* A table that Add may add to is not full: a probe comes to a bucket that is not used.
LEMMA OneIsFree ==
  ASSUME TypeOK, CountIs, Count < MaxCount
  PROVE  \E i \in Indices : ~ IsUsed(i)
<1> SUFFICES ASSUME \A i \in Indices : IsUsed(i) PROVE FALSE
  OBVIOUS
<1>1. Used = Indices
  BY DEF Used
<1>2. Count = Capacity
  BY <1>1, UsedFinite DEF CountIs
<1> QED BY <1>2, Sizes DEF TypeOK

\* So the next step of a probe does not lead back to where it began.
LEMMA ProbeGoesOn ==
  ASSUME TypeOK, CountIs, Count < MaxCount, NEW h \in Indices, NEW i \in Indices, IsUsed(i),
         \A j \in Indices : Distance(h, j) < Distance(h, i) => IsUsed(j)
  PROVE  /\ Distance(h, Succ(i)) = Distance(h, i) + 1
         /\ Distance(h, i) + 1 \in Indices /\ Succ(i) # h /\ Succ(i) # i
<1>1. Succ(i) # h
  <2> SUFFICES ASSUME Succ(i) = h PROVE FALSE
    OBVIOUS
  <2>1. Distance(h, i) \in Nat /\ Distance(h, i) + 1 = Capacity
    <3>1. ~ Distance(h, i) + 1 < Capacity
      <4>1. Distance(h, h) = 0
        BY DistanceType
      <4>2. Distance(h, i) \in Nat
        BY DistanceType
      <4> QED BY <4>1, <4>2, OneFurther
    <3> QED BY <3>1, DistanceType, Sizes
  <2>2. ASSUME NEW j \in Indices PROVE IsUsed(j)
    <3>1. Distance(h, j) < Distance(h, i) + 1
      BY <2>1, DistanceType
    <3>2. j = i \/ Distance(h, j) < Distance(h, i)
      BY <2>1, <3>1, BeforeNext
    <3> QED BY <3>2
  <2> QED BY <2>2, OneIsFree
<1>2. Distance(h, Succ(i)) = Distance(h, i) + 1 /\ Distance(h, i) + 1 < Capacity
  BY <1>1, OneFurther
<1>3. Distance(h, i) \in Nat /\ Distance(h, i) + 1 \in Nat
  BY DistanceType
<1>4. Succ(i) # i
  BY <1>2, <1>3
<1> QED BY <1>1, <1>2, <1>3, <1>4, Sizes

\* In a full table it may lead back there, once it has been everywhere.
LEMMA GoesRound ==
  ASSUME NEW h \in Indices, NEW i \in Indices, NEW n \in Nat, Distance(h, i) = n
  PROVE  /\ Distance(h, Succ(i)) = n + 1 \/ (Succ(i) = h /\ n + 1 = Capacity)
         /\ n + 1 \in 0 .. Capacity /\ Succ(i) \in Indices
<1>1. n < Capacity
  BY DistanceType
<1>2. /\ n + 1 < Capacity \/ n + 1 = Capacity
      /\ n + 1 < Capacity => Distance(h, Succ(i)) = n + 1
      /\ n + 1 = Capacity => Succ(i) = h
  <2>1. n + 1 < Capacity \/ n + 1 = Capacity
    BY <1>1, Sizes
  <2>2. n + 1 < Capacity => Distance(h, Succ(i)) = n + 1
    BY OneFurther
  <2>3. n + 1 = Capacity => Succ(i) = h
    BY OneFurther
  <2> QED BY <2>1, <2>2, <2>3
<1>3. n + 1 \in 0 .. Capacity
  <2>1. n + 1 \in Nat /\ Capacity \in Nat
    BY CapacityAssumption
  <2>2. n + 1 <= Capacity
    BY <1>1, <2>1
  <2> QED BY <2>1, <2>2
<1>4. Distance(h, Succ(i)) = n + 1 \/ (Succ(i) = h /\ n + 1 = Capacity)
  BY <1>2
<1> QED BY <1>3, <1>4, SuccType

\* Outside of Remove's shift there is no hole.
LEMMA NoHole ==
  /\ pc # "shift" => /\ Held = Used
                     /\ \A i : ~ IsHole(i)
  /\ pc' # "shift" => /\ Held' = Used'
                      /\ \A i : ~ IsHole(i)'
<1>1. pc # "shift" => Held = Used /\ \A i : ~ IsHole(i)
  BY DEF Held, Used, IsHole
<1>2. pc' # "shift" => Held' = Used' /\ \A i : ~ IsHole(i)'
  BY DEF Held, Used, IsHole
<1> QED BY <1>1, <1>2

\* A step that leaves the table alone keeps what is said of it.
LEMMA SameTable ==
  ASSUME pc # "shift", pc' # "shift", UNCHANGED <<hash, Buckets>>
  PROVE  /\ Used' = Used /\ Held' = Held
         /\ \A h, n : Probed(h, n)' <=> Probed(h, n)
         /\ \A k, h, n : NotAmong(k, h, n)' <=> NotAmong(k, h, n)
         /\ Ordered => Ordered'
         /\ KeysDiffer => KeysDiffer'
         /\ UNCHANGED Count /\ CountIs => CountIs'
<1>1. Used' = Used
  BY DEF Used, IsUsed
<1>2. Held' = Held
  BY <1>1, NoHole
<1>3. \A h, n : Probed(h, n)' <=> Probed(h, n)
  BY NoHole DEF Probed, IsUsed
<1>4. \A k, h, n : NotAmong(k, h, n)' <=> NotAmong(k, h, n)
  BY DEF NotAmong, IsUsed
<1>5. Ordered => Ordered'
  BY <1>2, <1>3 DEF Ordered, Home
<1>6. KeysDiffer => KeysDiffer'
  BY <1>2 DEF KeysDiffer
<1> QED BY <1>1, <1>2, <1>3, <1>4, <1>5, <1>6 DEF CountIs

LEMMA BucketType ==
  ASSUME TypeOK, NEW i \in Indices, IsUsed(i)
  PROVE  /\ Buckets[i] \in Bucket /\ Buckets[i].Key \in Keys
         /\ Buckets[i].ProbeLength \in Indices /\ Buckets[i].ProbeLength \in Nat
         /\ Buckets[i].Value \in Values
         /\ Home(i) \in Indices
<1>1. Buckets[i] \in Bucket
  BY DEF TypeOK, IsUsed
<1>2. /\ Buckets[i].Key \in Keys /\ Buckets[i].ProbeLength \in Indices
      /\ Buckets[i].Value \in Values
  BY <1>1 DEF Bucket
<1> QED BY <1>1, <1>2, Sizes DEF Home, TypeOK

\* A key that the probe has not met before it comes to a bucket that is not used,
\* or that is nearer to its home than the key would be, is not in the table: Get
\* may give up, and Add may place the key.
LEMMA NotHeldIs ==
  ASSUME TypeOK, Ordered, pc # "shift",
         NEW k \in Keys, NotAmong(k, hash[k], Distance(hash[k], idx)),
         IsUsed(idx) => Buckets[idx].ProbeLength < Distance(hash[k], idx)
  PROVE  \A i \in Held : Buckets[i].Key # k
<1> SUFFICES ASSUME NEW i \in Held, Buckets[i].Key = k PROVE FALSE
  OBVIOUS
<1> DEFINE h == hash[k]
           d == Distance(h, i)
<1>1. i \in Indices /\ IsUsed(i) /\ idx \in Indices /\ h \in Indices
  BY DEF Held, TypeOK
<1>2. /\ Buckets[i].ProbeLength = d
      /\ Probed(h, d + 1)
  BY <1>1 DEF Ordered, Home
<1>3. d \in Nat /\ Distance(h, idx) \in Nat
  BY <1>1, DistanceType
<1>4. ~ d < Distance(h, idx)
  BY <1>1 DEF NotAmong
<1>5. IsUsed(idx) /\ Buckets[idx].ProbeLength >= Distance(h, idx)
  <2>1. Distance(h, idx) < d + 1
    BY <1>3, <1>4
  <2> HIDE DEF d, h
  <2> QED BY <1>1, <1>2, <2>1, NoHole DEF Probed
<1>6. Buckets[idx].ProbeLength \in Nat
  BY <1>1, <1>5, BucketType
<1> QED BY <1>3, <1>5, <1>6
-----------------------------------------------------------------------------
(* Add. *)

\* A bucket put where it belongs, in a free place or in that of one nearer to its
\* home, leaves every probe as good as it was.
LEMMA PlaceKeeps ==
  ASSUME TypeOK, Ordered, KeysDiffer, pc # "shift", pc' # "shift", hash' = hash,
         NEW i \in Indices, NEW b \in Bucket,
         Buckets' = [Buckets EXCEPT ![i] = b],
         b.ProbeLength = Distance(hash[b.Key], i),
         Probed(hash[b.Key], b.ProbeLength),
         IsUsed(i) => Buckets[i].ProbeLength < b.ProbeLength,
         \A j \in Held : j # i => Buckets[j].Key # b.Key
  PROVE  /\ Buckets'[i] = b /\ \A j \in Indices : j # i => Buckets'[j] = Buckets[j]
         /\ Used' = Used \union {i}
         /\ \A h \in Indices, n \in Nat : Probed(h, n) => Probed(h, n)'
         /\ Ordered' /\ KeysDiffer'
<1>1. Buckets'[i] = b /\ \A j \in Indices : j # i => Buckets'[j] = Buckets[j]
  BY DEF TypeOK
<1>2. Used' = Used \union {i}
  BY <1>1, EmptyAssumption DEF Used, IsUsed
<1>3. /\ b.Key \in Keys /\ b.ProbeLength \in Nat /\ b.ProbeLength \in Indices
      /\ hash[b.Key] \in Indices
  BY Sizes DEF Bucket, TypeOK
<1>4. ASSUME NEW h \in Indices, NEW n \in Nat, Probed(h, n)
      PROVE  Probed(h, n)'
  <2> SUFFICES ASSUME NEW j \in Indices, Distance(h, j) < n
               PROVE  IsUsed(j)' /\ Buckets'[j].ProbeLength >= Distance(h, j)
    BY DEF Probed
  <2>1. IsUsed(j) /\ Buckets[j].ProbeLength >= Distance(h, j)
    BY <1>4, NoHole DEF Probed
  <2>2. CASE j # i
    BY <2>1, <2>2, <1>1 DEF IsUsed
  <2>3. CASE j = i
    <3>1. Buckets[j].ProbeLength \in Nat /\ Distance(h, j) \in Nat
      BY <2>1, BucketType, DistanceType
    <3>2. b.ProbeLength >= Distance(h, j)
      BY <3>1, <2>1, <2>3, <1>3
    <3> QED BY <3>2, <2>3, <1>1, EmptyAssumption DEF IsUsed
  <2> QED BY <2>2, <2>3
<1>5. Ordered'
  <2> SUFFICES ASSUME NEW j \in Used'
               PROVE  /\ Buckets'[j].ProbeLength = Distance(Home(j)', j)
                      /\ Probed(Home(j), Buckets[j].ProbeLength + 1)'
    BY NoHole DEF Ordered
  <2>0. j \in Indices
    BY DEF Used
  <2>1. CASE j # i
    <3>1. /\ j \in Held /\ IsUsed(j)
      BY <2>1, <1>2, NoHole DEF Used
    <3>2. /\ Buckets[j].ProbeLength = Distance(Home(j), j)
          /\ Probed(Home(j), Buckets[j].ProbeLength + 1)
      BY <3>1 DEF Ordered
    <3>3. Home(j)' = Home(j) /\ Buckets'[j] = Buckets[j]
      BY <2>0, <2>1, <1>1 DEF Home
    <3>4. PICK h \in Indices, n \in Nat : h = Home(j) /\ n = Buckets[j].ProbeLength
      BY <2>0, <3>1, BucketType
    <3>5. Probed(h, n + 1)'
      BY <1>4, <3>2, <3>4
    <3>6. Probed(Home(j), Buckets[j].ProbeLength + 1)'
      BY <3>3, <3>4, <3>5 DEF Probed
    <3> QED BY <3>2, <3>3, <3>6
  <2>2. CASE j = i
    <3>1. PICK h \in Indices, n \in Nat : h = hash[b.Key] /\ n = b.ProbeLength
      BY <1>3
    <3>2. Home(j)' = h /\ Buckets'[j].ProbeLength = n /\ Distance(h, i) = n
      BY <2>2, <1>1, <3>1 DEF Home
    <3>3. Probed(h, n)'
      BY <1>4, <3>1
    <3>4. Probed(h, n + 1)'
      <4> SUFFICES ASSUME NEW m \in Indices, Distance(h, m) < n + 1
                   PROVE  IsUsed(m)' /\ Buckets'[m].ProbeLength >= Distance(h, m)
        BY DEF Probed
      <4>1. m = i \/ Distance(h, m) < n
        BY <3>2, BeforeNext
      <4>2. CASE m = i
        BY <4>2, <3>1, <3>2, <1>1, EmptyAssumption DEF IsUsed
      <4>3. CASE Distance(h, m) < n
        BY <4>3, <3>3, NoHole DEF Probed
      <4> QED BY <4>1, <4>2, <4>3
    <3>5. Probed(Home(j), Buckets[j].ProbeLength + 1)'
      BY <3>2, <3>4 DEF Probed
    <3> QED BY <3>2, <3>5, <2>2
  <2> QED BY <2>1, <2>2
<1>6. KeysDiffer'
  <2> SUFFICES ASSUME NEW j \in Used', NEW k \in Used', Buckets'[j].Key = Buckets'[k].Key
               PROVE  j = k
    BY NoHole DEF KeysDiffer
  <2>1. j \in Indices /\ k \in Indices
    BY DEF Used
  <2>2. (j # i => j \in Held) /\ (k # i => k \in Held)
    BY <1>2, NoHole
  <2>3. CASE j # i /\ k # i
    BY <2>1, <2>2, <2>3, <1>1 DEF KeysDiffer
  <2>4. CASE j = i /\ k # i
    BY <2>1, <2>2, <2>4, <1>1
  <2>5. CASE j # i /\ k = i
    BY <2>1, <2>2, <2>5, <1>1
  <2> QED BY <2>3, <2>4, <2>5
<1> QED BY <1>1, <1>2, <1>4, <1>5, <1>6
-----------------------------------------------------------------------------
\* Where Add is, and what it may conclude there.
LEMMA AddIs ==
  ASSUME IInv, pc = "add"
  PROVE  /\ idx \in Indices /\ swapBucket \in Bucket /\ swapBucket.Key \in Keys
         /\ hash[swapBucket.Key] \in Indices
         /\ probeLength \in Indices /\ probeLength \in Nat
         /\ Distance(hash[swapBucket.Key], idx) = probeLength
         /\ Probed(hash[swapBucket.Key], probeLength)
         /\ \A j \in Indices : Distance(hash[swapBucket.Key], j) < probeLength => IsUsed(j)
         /\ Count \in Nat /\ Count + 1 \in 0 .. MaxCount
         /\ request.op \in {"Add", "Replace"}
         /\ \/ insertedIdx = NOT_FOUND /\ Searching
            \/ insertedIdx \in Indices /\ insertedIdx # NOT_FOUND /\ Carrying
         /\ (IsUsed(idx) => Buckets[idx].ProbeLength < probeLength) =>
              \A i \in Held : Buckets[i].Key # swapBucket.Key
<1>1. Adding /\ TypeOK /\ Ordered
  BY DEF IInv, Local
<1>2. /\ idx \in Indices /\ swapBucket \in Bucket /\ swapBucket.Key \in Keys
      /\ hash[swapBucket.Key] \in Indices
  BY <1>1 DEF Adding, TypeOK, Bucket
<1>3. /\ Distance(hash[swapBucket.Key], idx) = probeLength
      /\ Probed(hash[swapBucket.Key], probeLength)
      /\ request.op \in {"Add", "Replace"}
      /\ Searching \/ Carrying
  BY <1>1 DEF Adding, ProbingFrom
<1>4. /\ \A j \in Indices : Distance(hash[swapBucket.Key], j) < probeLength => IsUsed(j)
      /\ probeLength \in Indices /\ probeLength \in Nat
  BY <1>2, <1>3, NoHole, DistanceType DEF Probed
<1>5. Count \in Nat /\ Count + 1 \in 0 .. MaxCount
  BY <1>1, Sizes DEF TypeOK, Adding
<1>6. \/ insertedIdx = NOT_FOUND /\ Searching
      \/ insertedIdx \in Indices /\ insertedIdx # NOT_FOUND /\ Carrying
  BY <1>3, Sizes DEF Searching, Carrying
<1>7. ASSUME IsUsed(idx) => Buckets[idx].ProbeLength < probeLength
      PROVE  \A i \in Held : Buckets[i].Key # swapBucket.Key
  <2>1. CASE Searching
    <3>1. NotAmong(swapBucket.Key, hash[swapBucket.Key], probeLength)
      BY <2>1 DEF Searching
    <3> QED BY <1>1, <1>2, <1>3, <1>7, <3>1, NotHeldIs
  <2>2. CASE Carrying
    BY <2>2 DEF Carrying
  <2> QED BY <1>3, <2>1, <2>2
<1> QED BY <1>2, <1>3, <1>4, <1>5, <1>6, <1>7

LEMMA AddInsertKeeps ==
  ASSUME IInv, AddInsert
  PROVE  IInv'
<1>0. TypeOK /\ Ordered /\ KeysDiffer /\ CountIs /\ pc # "shift" /\ pc' # "shift" /\ hash' = hash
      /\ pc = "add" /\ ~ IsUsed(idx) /\ Count' = Count + 1 /\ Return("Inserted", FirstPlace)
      /\ Buckets' = [Buckets EXCEPT ![idx] = [swapBucket EXCEPT !.ProbeLength = probeLength]]
  BY DEF IInv, Return, AddInsert
<1>1. PICK i \in Indices, n \in Nat, b \in Bucket :
        /\ i = idx /\ n = probeLength /\ n \in Indices
        /\ b = [swapBucket EXCEPT !.ProbeLength = probeLength]
        /\ b.Key = swapBucket.Key /\ b.ProbeLength = n /\ b.Value = swapBucket.Value
  <2>1. swapBucket \in Bucket /\ idx \in Indices /\ probeLength \in Nat /\ probeLength \in Indices
    BY <1>0, AddIs
  <2>2. [swapBucket EXCEPT !.ProbeLength = probeLength] \in Bucket
    BY <2>1 DEF Bucket
  <2> QED BY <2>1, <2>2 DEF Bucket
<1>2. /\ Buckets' = [Buckets EXCEPT ![i] = b]
      /\ b.ProbeLength = Distance(hash[b.Key], i)
      /\ Probed(hash[b.Key], b.ProbeLength)
      /\ ~ IsUsed(i)
      /\ \A j \in Held : Buckets[j].Key # b.Key
  BY <1>0, <1>1, AddIs
<1>3. /\ Buckets'[i] = b /\ \A j \in Indices : j # i => Buckets'[j] = Buckets[j]
      /\ Used' = Used \union {i}
      /\ Ordered' /\ KeysDiffer'
  <2>1. TypeOK /\ Ordered /\ KeysDiffer /\ pc # "shift" /\ pc' # "shift" /\ hash' = hash
    BY <1>0
  <2>2. (IsUsed(i) => Buckets[i].ProbeLength < b.ProbeLength)
        /\ \A j \in Held : j # i => Buckets[j].Key # b.Key
    BY <1>2
  <2> QED BY <2>1, <2>2, <1>2, PlaceKeeps
<1>4. CountIs'
  <2>1. i \notin Used
    BY <1>2 DEF Used
  <2>2. Cardinality(Used \union {i}) = Cardinality(Used) + 1
    BY <2>1, UsedFinite, FS_AddElement
  <2> QED BY <2>2, <1>0, <1>3 DEF CountIs
<1>5. insertedIdx' \in Indices /\ IsUsed(insertedIdx)' /\ Buckets'[insertedIdx'].Key = request'.key
  <2>1. CASE insertedIdx = NOT_FOUND /\ Searching
    <3>1. insertedIdx' = i /\ request' = request
      BY <1>0, <1>1, <2>1 DEF Return, FirstPlace
    <3> QED BY <1>1, <1>3, <2>1, <3>1, EmptyAssumption DEF IsUsed, Searching
  <2>2. CASE insertedIdx \in Indices /\ insertedIdx # NOT_FOUND /\ Carrying
    <3>1. insertedIdx' = insertedIdx /\ request' = request /\ insertedIdx # i
      BY <1>0, <1>1, <2>2 DEF Return, FirstPlace, Carrying
    <3>2. Buckets'[insertedIdx] = Buckets[insertedIdx]
      BY <1>3, <2>2, <3>1
    <3> QED BY <2>2, <3>1, <3>2 DEF IsUsed, Carrying
  <2> QED BY <1>0, <2>1, <2>2, AddIs
<1>6. IndexOfKey'
  BY <1>5 DEF IndexOfKey
<1>7. TypeOK'
  <2>1. Buckets' \in [Indices -> Bucket \union {Empty}]
    BY <1>0, <1>2 DEF TypeOK
  <2>2. Count' \in 0 .. MaxCount
    BY <1>0, AddIs
  <2> QED BY <2>1, <2>2, <1>0, <1>5, Sizes DEF TypeOK, Return, Results
<1>8. Local'
  BY <1>0, ConstantsDiffer DEF Local, Return, Results
<1> QED BY <1>3, <1>4, <1>6, <1>7, <1>8 DEF IInv

LEMMA AddExistsKeeps ==
  ASSUME IInv, AddExists
  PROVE  /\ IInv' /\ Searching
         /\ Used' = Used
         /\ \A j \in Indices : j # idx => Buckets'[j] = Buckets[j]
         /\ Buckets'[idx].Key = Buckets[idx].Key
         /\ request.op = "Replace" => Buckets'[idx].Value = request.value
         /\ request.op = "Add" => Buckets' = Buckets
<1> USE DEF AddExists
<1>0. TypeOK /\ Ordered /\ KeysDiffer /\ CountIs /\ pc # "shift" /\ pc' # "shift" /\ hash' = hash
      /\ IsUsed(idx) /\ idx \in Indices
  BY AddIs DEF IInv, Return
<1>1. Searching
  <2> SUFFICES ASSUME Carrying PROVE FALSE
    BY AddIs
  <2>1. idx \in Held
    BY <1>0 DEF Held
  <2> QED BY <2>1 DEF Carrying
<1>2. /\ Buckets' \in [Indices -> Bucket \union {Empty}]
      /\ \A j \in Indices : j # idx => Buckets'[j] = Buckets[j]
      /\ Buckets'[idx] \in Bucket
      /\ Buckets'[idx].Key = Buckets[idx].Key
      /\ Buckets'[idx].ProbeLength = Buckets[idx].ProbeLength
      /\ request.op = "Replace" => Buckets'[idx].Value = request.value
      /\ request.op = "Add" => Buckets' = Buckets
  <2>1. Buckets[idx] \in Bucket
    BY <1>0, BucketType
  <2>2. CASE request.op = "Replace"
    <3>1. request.value \in Values
      BY <2>2, <1>0 DEF TypeOK, Requests
    <3>2. Buckets' = [Buckets EXCEPT ![idx].Value = request.value]
      BY <2>2
    <3>3. /\ Buckets'[idx] = [Buckets[idx] EXCEPT !.Value = request.value]
          /\ \A j \in Indices : j # idx => Buckets'[j] = Buckets[j]
      BY <1>0, <3>2 DEF TypeOK
    <3>4. [Buckets[idx] EXCEPT !.Value = request.value] \in Bucket
      BY <2>1, <3>1 DEF Bucket
    <3>5. Buckets' \in [Indices -> Bucket \union {Empty}]
      <4>1. Buckets' = [j \in Indices |-> IF j = idx THEN [Buckets[idx] EXCEPT !.Value = request.value]
                                          ELSE Buckets[j]]
        BY <1>0, <3>2 DEF TypeOK
      <4> QED BY <4>1, <3>4, <1>0 DEF TypeOK
    <3> QED BY <2>1, <2>2, <3>3, <3>4, <3>5 DEF Bucket
  <2>3. CASE request.op # "Replace"
    BY <2>1, <2>3, <1>0 DEF TypeOK
  <2> QED BY <2>2, <2>3
<1>3. \A j \in Indices : /\ IsUsed(j)' <=> IsUsed(j)
                         /\ IsUsed(j) => /\ Buckets'[j].Key = Buckets[j].Key
                                         /\ Buckets'[j].ProbeLength = Buckets[j].ProbeLength
  BY <1>0, <1>2, EmptyAssumption DEF IsUsed
<1>4. Used' = Used /\ Held' = Held /\ Held = Used
  <2>1. Used' = Used
    BY <1>3 DEF Used
  <2> QED BY <2>1, <1>0, NoHole
<1>5. \A h, n : Probed(h, n) => Probed(h, n)'
  BY <1>0, <1>3, NoHole DEF Probed
<1>6. Ordered'
  <2> SUFFICES ASSUME NEW j \in Held
               PROVE  /\ Buckets'[j].ProbeLength = Distance(Home(j)', j)
                      /\ Probed(Home(j), Buckets[j].ProbeLength + 1)'
    BY <1>4 DEF Ordered
  <2>1. j \in Indices /\ IsUsed(j)
    BY DEF Held
  <2>2. Home(j)' = Home(j) /\ Buckets'[j].ProbeLength = Buckets[j].ProbeLength
    BY <2>1, <1>0, <1>3 DEF Home
  <2>3. PICK h, n : h = Home(j) /\ n = Buckets[j].ProbeLength + 1
    OBVIOUS
  <2>4. Probed(h, n)'
    BY <2>3, <1>0, <1>5 DEF Ordered
  <2>5. Probed(Home(j), Buckets[j].ProbeLength + 1)'
    BY <2>2, <2>3, <2>4 DEF Probed
  <2> QED BY <2>2, <2>5, <1>0, <2>1 DEF Ordered
<1>7. KeysDiffer'
  BY <1>0, <1>3, <1>4 DEF KeysDiffer, Used
<1>8. TypeOK'
  BY <1>0, <1>2, Sizes DEF TypeOK, Return, Results
<1>9. IndexOfKey'
  BY <1>0, <1>1, <1>2, EmptyAssumption DEF IndexOfKey, Return, Searching, IsUsed
<1>10. Local'
  BY ConstantsDiffer DEF Local, Return, Results
<1>11. CountIs'
  BY <1>0, <1>4 DEF CountIs
<1> QED BY <1>1, <1>2, <1>4, <1>6, <1>7, <1>8, <1>9, <1>10, <1>11 DEF IInv
-----------------------------------------------------------------------------
\* The carried bucket takes the place of another one, which is carried on.
LEMMA AddSwapKeeps ==
  ASSUME IInv, AddSwap
  PROVE  /\ IInv' /\ Carrying' /\ insertedIdx' # NOT_FOUND
         /\ Used' = Used
         /\ Buckets[idx].Key # swapBucket.Key
         /\ Buckets'[idx].Key = swapBucket.Key /\ Buckets'[idx].Value = swapBucket.Value
         /\ \A j \in Indices : j # idx => Buckets'[j] = Buckets[j]
         /\ \A j \in Held : Buckets[j].Key # swapBucket.Key
<1>0. /\ TypeOK /\ Ordered /\ KeysDiffer /\ CountIs /\ pc # "shift" /\ pc' # "shift" /\ hash' = hash
      /\ pc = "add" /\ pc' = "add" /\ IsUsed(idx) /\ idx \in Indices /\ UNCHANGED <<Count, request, answer>>
      /\ Buckets[idx].Key # swapBucket.Key
      /\ swapBucket' = Buckets[idx] /\ probeLength' = Buckets[idx].ProbeLength + 1 /\ idx' = Succ(idx)
      /\ insertedIdx' = FirstPlace /\ Count < MaxCount
      /\ answer = Pending <=> pc # "idle"
  BY DEF IInv, AddSwap, Local, TypeOK, Adding
<1>1. PICK i \in Indices, n \in Nat, b \in Bucket :
        /\ i = idx /\ n = probeLength /\ n \in Indices
        /\ b = [swapBucket EXCEPT !.ProbeLength = probeLength]
        /\ b.Key = swapBucket.Key /\ b.ProbeLength = n /\ b.Value = swapBucket.Value
  <2>1. swapBucket \in Bucket /\ idx \in Indices /\ probeLength \in Nat /\ probeLength \in Indices
    BY <1>0, AddIs
  <2>2. [swapBucket EXCEPT !.ProbeLength = probeLength] \in Bucket
    BY <2>1 DEF Bucket
  <2> QED BY <2>1, <2>2 DEF Bucket
<1>2. PICK old \in Bucket, h \in Indices, m \in Nat :
        /\ old = Buckets[i] /\ m = old.ProbeLength /\ h = hash[old.Key]
        /\ old.Key # b.Key /\ m \in Indices /\ m < n
  <2>1. Buckets[i].ProbeLength < probeLength
    <3>1. probeLength > Buckets[idx].ProbeLength
      BY DEF AddSwap
    <3>2. Buckets[i].ProbeLength \in Nat /\ probeLength \in Nat
      BY <1>0, <1>1, BucketType
    <3> QED BY <3>1, <3>2, <1>1
  <2> QED BY <1>0, <1>1, <2>1, BucketType DEF Home
<1>3. /\ Buckets' = [Buckets EXCEPT ![i] = b]
      /\ b.ProbeLength = Distance(hash[b.Key], i)
      /\ Probed(hash[b.Key], b.ProbeLength)
      /\ IsUsed(i) => Buckets[i].ProbeLength < b.ProbeLength
      /\ \A j \in Held : Buckets[j].Key # b.Key
  <2>1. IsUsed(idx) => Buckets[idx].ProbeLength < probeLength
    BY <1>1, <1>2
  <2>2. Buckets' = [Buckets EXCEPT ![i] = b]
    BY <1>1 DEF AddSwap
  <2> QED BY <1>0, <1>1, <2>1, <2>2, AddIs
<1>4. /\ Buckets'[i] = b /\ \A j \in Indices : j # i => Buckets'[j] = Buckets[j]
      /\ Used' = Used \union {i}
      /\ \A g \in Indices, k \in Nat : Probed(g, k) => Probed(g, k)'
      /\ Ordered' /\ KeysDiffer'
  <2>1. TypeOK /\ Ordered /\ KeysDiffer /\ pc # "shift" /\ pc' # "shift" /\ hash' = hash
    BY <1>0
  <2>2. (IsUsed(i) => Buckets[i].ProbeLength < b.ProbeLength)
        /\ \A j \in Held : j # i => Buckets[j].Key # b.Key
    BY <1>3
  <2> QED BY <2>1, <2>2, <1>3, PlaceKeeps
<1>5. /\ Used' = Used /\ i \in Used /\ Held = Used
      /\ \A j \in Indices : IsUsed(j)' <=> IsUsed(j)
  BY <1>0, <1>1, <1>4, NoHole DEF Used
<1>6. CountIs'
  BY <1>0, <1>5 DEF CountIs
<1>7. /\ m = Distance(h, i) /\ Probed(h, m + 1)
      /\ \A j \in Indices : Distance(h, j) < m => IsUsed(j)
  <2>1. m = Distance(h, i) /\ Probed(h, m + 1)
    BY <1>0, <1>1, <1>2, <1>5 DEF Ordered, Home
  <2>2. ASSUME NEW j \in Indices, Distance(h, j) < m
        PROVE  IsUsed(j)
    <3>1. Distance(h, j) < m + 1
      BY <2>2, DistanceType
    <3> QED BY <2>1, <3>1, <1>0, NoHole DEF Probed
  <2> QED BY <2>1, <2>2
<1>8. PICK s \in Indices :
        s = Succ(i) /\ s # i /\ idx' = s /\ Distance(h, s) = m + 1 /\ m + 1 \in Indices
  BY <1>0, <1>1, <1>7, SuccType, ProbeGoesOn
<1>9. Probed(h, m + 1)'
  BY <1>4, <1>7
<1>10. /\ swapBucket' = old /\ probeLength' = m + 1 /\ hash'[swapBucket'.Key] = h
  BY <1>0, <1>1, <1>2
<1>11. ProbingFrom(hash[swapBucket.Key])'
  <2>1. Distance(h, idx') = probeLength'
    BY <1>8, <1>10
  <2>2. Probed(h, probeLength)'
    BY <1>9, <1>10 DEF Probed
  <2> QED BY <2>1, <2>2, <1>10 DEF ProbingFrom, Probed
<1>12. PICK p \in Indices :
         /\ insertedIdx' = p /\ p # s /\ IsUsed(p)' /\ Buckets'[p].Key = request.key
         /\ \A j \in Indices : Distance(p, j) < Distance(p, s) => IsUsed(j)
  <2>1. CASE insertedIdx = NOT_FOUND /\ Searching
    <3>1. insertedIdx' = i
      BY <2>1, <1>0, <1>1 DEF FirstPlace
    <3>2. Distance(i, i) = 0
      BY DistanceType
    <3>3. Distance(i, s) = 0 + 1
      BY <3>2, <1>8, Sizes, OneFurther
    <3>4. \A j \in Indices : Distance(i, j) < Distance(i, s) => j = i
      BY <3>3, DistanceType
    <3>5. IsUsed(i)' /\ Buckets'[i].Key = request.key
      BY <2>1, <1>0, <1>1, <1>4, <1>5 DEF Searching
    <3> QED BY <3>1, <3>4, <3>5, <1>0, <1>1, <1>8
  <2>2. CASE insertedIdx \in Indices /\ insertedIdx # NOT_FOUND /\ Carrying
    <3>1. PICK p \in Indices : p = insertedIdx
      BY <2>2
    <3>2. /\ insertedIdx' = p /\ p # i /\ IsUsed(p) /\ Buckets[p].Key = request.key
          /\ \A j \in Indices : Distance(p, j) < Distance(p, i) => IsUsed(j)
      BY <2>2, <3>1, <1>0, <1>1 DEF FirstPlace, Carrying
    <3>3. Distance(p, s) = Distance(p, i) + 1 /\ s # p
      BY <3>2, <1>0, <1>1, <1>8, ProbeGoesOn
    <3>4. ASSUME NEW j \in Indices, Distance(p, j) < Distance(p, s)
          PROVE  IsUsed(j)
      <4>1. j = i \/ Distance(p, j) < Distance(p, i)
        BY <3>3, <3>4, BeforeNext, DistanceType
      <4> QED BY <4>1, <3>2, <1>0, <1>1
    <3> QED BY <3>1, <3>2, <3>3, <3>4, <1>4, <1>5
  <2>3. pc = "add"
    BY <1>0
  <2> QED BY <2>1, <2>2, <2>3, AddIs
<1>13. \A j \in Held' : Buckets'[j].Key # old.Key
  <2> SUFFICES ASSUME NEW j \in Used PROVE Buckets'[j].Key # old.Key
    BY <1>0, <1>5, NoHole
  <2>1. CASE j = i
    BY <2>1, <1>2, <1>4
  <2>2. CASE j # i
    BY <2>2, <1>0, <1>2, <1>4, <1>5 DEF KeysDiffer, Used
  <2> QED BY <2>1, <2>2
<1>14. Carrying' /\ insertedIdx' # NOT_FOUND
  <2>1. \A j \in Indices : Distance(p, j) < Distance(p, s) => IsUsed(j)'
    BY <1>12, <1>5
  <2>2. p # NOT_FOUND
    BY Sizes
  <2> QED BY <2>1, <2>2, <1>0, <1>8, <1>10, <1>12, <1>13 DEF Carrying
<1>15. TypeOK'
  <2>1. Buckets' \in [Indices -> Bucket \union {Empty}]
    BY <1>0, <1>3 DEF TypeOK
  <2>2. m + 1 \in 0 .. Capacity
    BY <1>8, IndicesUpToCapacity
  <2> QED BY <2>1, <2>2, <1>0, <1>8, <1>10, <1>12 DEF TypeOK
<1>16. Local'
  <2>1. Adding'
    <3>1. request'.op \in {"Add", "Replace"}
      BY <1>0, AddIs
    <3> QED BY <3>1, <1>0, <1>10, <1>11, <1>14 DEF Adding
  <2> QED BY <1>0, <2>1 DEF Local
<1>17. IndexOfKey'
  BY <1>0 DEF IndexOfKey
<1> QED BY <1>0, <1>1, <1>3, <1>4, <1>5, <1>6, <1>14, <1>15, <1>16, <1>17 DEF IInv

LEMMA AddNextKeeps ==
  ASSUME IInv, AddNext
  PROVE  IInv'
<1>0. /\ TypeOK /\ Ordered /\ KeysDiffer /\ CountIs /\ IsUsed(idx) /\ idx \in Indices
      /\ pc = "add" /\ pc' = "add" /\ pc # "shift" /\ pc' # "shift"
      /\ UNCHANGED <<hash, Buckets, Count, request, answer, swapBucket, insertedIdx>>
      /\ Buckets[idx].Key # swapBucket.Key /\ probeLength <= Buckets[idx].ProbeLength
      /\ probeLength' = probeLength + 1 /\ idx' = Succ(idx)
      /\ Count < MaxCount /\ (answer = Pending <=> pc # "idle")
  BY DEF IInv, AddNext, Advance, Local, TypeOK, Adding
<1>1. PICK i \in Indices, n \in Nat, h \in Indices :
        i = idx /\ n = probeLength /\ h = hash[swapBucket.Key] /\ Distance(h, i) = n
  BY <1>0, AddIs
<1>2. /\ Probed(h, n) /\ \A j \in Indices : Distance(h, j) < n => IsUsed(j)
  BY <1>0, <1>1, AddIs
<1>3. PICK s \in Indices :
        s = Succ(i) /\ idx' = s /\ Distance(h, s) = n + 1 /\ n + 1 \in Indices /\ probeLength' = n + 1
  BY <1>0, <1>1, <1>2, SuccType, ProbeGoesOn
<1>4. Probed(h, n + 1)
  <2> SUFFICES ASSUME NEW j \in Indices, Distance(h, j) < n + 1
               PROVE  IsUsed(j) /\ Buckets[j].ProbeLength >= Distance(h, j)
    BY DEF Probed
  <2>1. j = i \/ Distance(h, j) < n
    BY <1>1, BeforeNext
  <2>2. CASE j = i
    <3>1. Buckets[i].ProbeLength \in Nat
      BY <1>0, <1>1, BucketType
    <3> QED BY <2>2, <3>1, <1>0, <1>1
  <2>3. CASE Distance(h, j) < n
    BY <2>3, <1>0, <1>2, NoHole DEF Probed
  <2> QED BY <2>1, <2>2, <2>3
<1>5. /\ Used' = Used /\ Held' = Held
      /\ \A g, k : Probed(g, k)' <=> Probed(g, k)
      /\ \A k, g, l : NotAmong(k, g, l)' <=> NotAmong(k, g, l)
      /\ Ordered' /\ KeysDiffer' /\ CountIs'
  BY <1>0, SameTable
<1>6. ProbingFrom(hash[swapBucket.Key])'
  <2>1. Probed(h, n + 1)'
    BY <1>4, <1>5
  <2>2. hash'[swapBucket'.Key] = h
    BY <1>0, <1>1
  <2> QED BY <2>1, <2>2, <1>3 DEF ProbingFrom, Probed
<1>7. ASSUME insertedIdx = NOT_FOUND, Searching
      PROVE  Searching'
  <2>1. PICK k : k = request.key
    OBVIOUS
  <2>2. k = swapBucket.Key /\ hash[k] = h /\ NotAmong(k, h, n)
    BY <2>1, <1>1, <1>7 DEF Searching
  <2>3. NotAmong(k, h, n + 1)
    <3> SUFFICES ASSUME NEW j \in Indices, Distance(h, j) < n + 1
                 PROVE  IsUsed(j) /\ Buckets[j].Key # k
      BY DEF NotAmong
    <3>1. j = i \/ Distance(h, j) < n
      BY <1>1, BeforeNext
    <3> QED BY <3>1, <2>2, <1>0, <1>1 DEF NotAmong
  <2>4. NotAmong(k, h, n + 1)'
    BY <2>3, <1>5
  <2>5. NotAmong(request.key, hash[request.key], probeLength)'
    <3>1. request'.key = k /\ hash'[k] = h /\ probeLength' = n + 1
      BY <2>1, <2>2, <1>0, <1>3
    <3> QED BY <2>4, <3>1 DEF NotAmong
  <2> QED BY <2>5, <1>0, <1>7 DEF Searching
<1>8. ASSUME insertedIdx \in Indices, insertedIdx # NOT_FOUND, Carrying
      PROVE  Carrying'
  <2>1. PICK p \in Indices : p = insertedIdx
    BY <1>8
  <2>2. /\ insertedIdx' = p /\ p # i /\ IsUsed(p) /\ Buckets[p].Key = request.key
        /\ \A j \in Indices : Distance(p, j) < Distance(p, i) => IsUsed(j)
        /\ \A j \in Held : Buckets[j].Key # swapBucket.Key
    BY <1>8, <2>1, <1>0, <1>1 DEF Carrying
  <2>3. Distance(p, s) = Distance(p, i) + 1 /\ s # p
    BY <2>2, <1>0, <1>1, <1>3, ProbeGoesOn
  <2>4. ASSUME NEW j \in Indices, Distance(p, j) < Distance(p, s)
        PROVE  IsUsed(j)'
    <3>1. j = i \/ Distance(p, j) < Distance(p, i)
      BY <2>3, <2>4, BeforeNext, DistanceType
    <3> QED BY <3>1, <2>2, <1>0, <1>1 DEF IsUsed
  <2>5. IsUsed(p)'
    BY <2>2, <1>0 DEF IsUsed
  <2>6. /\ \A j \in Held' : Buckets'[j].Key # swapBucket'.Key
        /\ Buckets'[p].Key = request'.key
    BY <2>2, <1>0, <1>5
  <2> QED BY <2>2, <2>3, <2>4, <2>5, <2>6, <1>3 DEF Carrying
<1>9. Searching' \/ Carrying'
  BY <1>0, <1>7, <1>8, AddIs
<1>10. Adding'
  <2>1. request'.op \in {"Add", "Replace"} /\ swapBucket' \in Bucket /\ Count' < MaxCount
    BY <1>0, AddIs
  <2> QED BY <2>1, <1>6, <1>9 DEF Adding
<1>11. TypeOK'
  <2>1. n + 1 \in 0 .. Capacity
    BY <1>3, IndicesUpToCapacity
  <2> QED BY <2>1, <1>0, <1>3 DEF TypeOK
<1>12. Local' /\ IndexOfKey'
  BY <1>0, <1>10 DEF Local, IndexOfKey
<1> QED BY <1>5, <1>11, <1>12 DEF IInv
-----------------------------------------------------------------------------
(* Where a call begins, where it returns, and the steps of Get and of the search *)
(* of Remove: the table stays as it is.                                          *)

\* The key of a request and its home.
LEMMA RequestType ==
  ASSUME TypeOK
  PROVE  /\ request.op \in {"Add", "Replace", "Get", "Remove"} =>
              request.key \in Keys /\ hash[request.key] \in Indices
         /\ request.op \in {"Add", "Replace"} => request.value \in Values
BY DEF TypeOK, Requests

LEMMA NothingProbed ==
  /\ \A h \in Indices : Probed(h, 0) /\ Distance(h, h) = 0
  /\ \A k, h : h \in Indices => NotAmong(k, h, 0)
BY DistanceType DEF Probed, NotAmong

LEMMA CallKeeps ==
  ASSUME IInv, Call
  PROVE  IInv'
<1>1. TypeOK /\ CountIs /\ Ordered /\ KeysDiffer /\ UNCHANGED <<hash, Buckets, Count>>
      /\ pc # "shift" /\ pc' # "shift"
  BY DEF IInv, Call
<1>2. CountIs' /\ Ordered' /\ KeysDiffer'
  BY <1>1, SameTable
<1>3. TypeOK'
  BY <1>1, Sizes DEF Call, TypeOK
<1>4. Local' /\ IndexOfKey'
  BY DEF Call, Local, IndexOfKey
<1> QED BY <1>2, <1>3, <1>4 DEF IInv

\* A call returns without changing the table.
LEMMA ReturnKeeps ==
  ASSUME IInv, pc # "shift", UNCHANGED <<Buckets, Count>>, NEW r \in Values \union {Absent} \union Results,
         Return(r, NOT_FOUND)
  PROVE  IInv'
<1>1. TypeOK /\ CountIs /\ Ordered /\ KeysDiffer /\ UNCHANGED <<hash, Buckets, Count>>
      /\ pc # "shift" /\ pc' # "shift"
  BY DEF IInv, Return
<1>2. CountIs' /\ Ordered' /\ KeysDiffer'
  BY <1>1, SameTable
<1>3. TypeOK'
  BY <1>1, Sizes DEF Return, TypeOK
<1>4. answer' # Pending
  BY ConstantsDiffer DEF Return
<1>5. Local' /\ IndexOfKey'
  BY <1>4 DEF Return, Local, IndexOfKey
<1> QED BY <1>2, <1>3, <1>5 DEF IInv

LEMMA AddBeginKeeps ==
  ASSUME IInv, AddBegin
  PROVE  IInv'
<1>1. /\ TypeOK /\ CountIs /\ Ordered /\ KeysDiffer /\ Local /\ pc = "begin" /\ pc' = "add"
      /\ UNCHANGED <<hash, Buckets, Count, request, answer, probeLength, insertedIdx>>
      /\ request.op \in {"Add", "Replace"} /\ Count # MaxCount /\ pc # "shift" /\ pc' # "shift"
      /\ swapBucket' = [Key |-> request.key, ProbeLength |-> 0, Value |-> request.value]
      /\ idx' = hash[request.key]
  BY DEF IInv, AddBegin, IsFull
<1>2. PICK k \in Keys, h \in Indices : k = request.key /\ h = hash[k]
  BY <1>1, RequestType
<1>3. /\ CountIs' /\ Ordered' /\ KeysDiffer'
      /\ \A g, n : Probed(g, n)' <=> Probed(g, n)
      /\ \A l, g, n : NotAmong(l, g, n)' <=> NotAmong(l, g, n)
  BY <1>1, SameTable
<1>4. swapBucket' \in Bucket /\ swapBucket'.Key = k /\ swapBucket'.Value = request.value
  BY <1>1, <1>2, RequestType, Sizes DEF Bucket
<1>5. probeLength' = 0 /\ insertedIdx' = NOT_FOUND /\ answer' = Pending
  BY <1>1 DEF Local
<1>6. ProbingFrom(hash[swapBucket.Key])'
  <2>1. hash'[swapBucket'.Key] = h /\ Distance(h, idx') = probeLength'
    BY <1>1, <1>2, <1>4, <1>5, NothingProbed
  <2>2. Probed(h, 0)'
    BY <1>3, NothingProbed
  <2> QED BY <2>1, <2>2, <1>5 DEF ProbingFrom, Probed
<1>7. Searching'
  <2>1. NotAmong(k, h, 0)'
    BY <1>3, NothingProbed
  <2>2. NotAmong(request.key, hash[request.key], probeLength)'
    <3>1. request'.key = k /\ hash'[k] = h /\ probeLength' = 0
      BY <1>1, <1>2, <1>5
    <3> QED BY <2>1, <3>1 DEF NotAmong
  <2> QED BY <2>2, <1>1, <1>2, <1>4, <1>5 DEF Searching
<1>8. Count' < MaxCount
  BY <1>1, Sizes DEF TypeOK
<1>9. TypeOK'
  BY <1>1, <1>2, <1>4 DEF TypeOK
<1>10. Local' /\ IndexOfKey'
  BY <1>1, <1>4, <1>5, <1>6, <1>7, <1>8 DEF Local, Adding, IndexOfKey
<1> QED BY <1>3, <1>9, <1>10 DEF IInv

LEMMA GetBeginKeeps ==
  ASSUME IInv, GetBegin
  PROVE  IInv'
<1>1. /\ TypeOK /\ CountIs /\ Ordered /\ KeysDiffer /\ Local /\ pc = "begin" /\ pc' = "get"
      /\ UNCHANGED <<hash, Buckets, Count, request, answer, probeLength, swapBucket, insertedIdx>>
      /\ request.op = "Get" /\ pc # "shift" /\ pc' # "shift"
      /\ idx' = hash[request.key]
  BY DEF IInv, GetBegin
<1>2. PICK k \in Keys, h \in Indices : k = request.key /\ h = hash[k]
  BY <1>1, RequestType
<1>3. /\ CountIs' /\ Ordered' /\ KeysDiffer'
      /\ \A g, n : Probed(g, n)' <=> Probed(g, n)
      /\ \A l, g, n : NotAmong(l, g, n)' <=> NotAmong(l, g, n)
  BY <1>1, SameTable
<1>4. /\ probeLength' = 0 /\ insertedIdx' = NOT_FOUND /\ answer' = Pending
      /\ request'.key = k /\ hash'[k] = h
  BY <1>1, <1>2 DEF Local
<1>5. /\ Probed(hash[request.key], probeLength)'
      /\ Distance(hash'[request'.key], idx') = probeLength'
  <2>1. Distance(h, idx') = probeLength'
    BY <1>1, <1>2, <1>4, NothingProbed
  <2>2. Probed(h, 0)'
    BY <1>3, NothingProbed
  <2>3. Probed(hash[request.key], probeLength)'
    BY <2>2, <1>4 DEF Probed
  <2> QED BY <2>1, <2>3, <1>4
<1>6. NotAmong(request.key, hash[request.key], probeLength)'
  <2>1. NotAmong(k, h, 0)'
    BY <1>3, NothingProbed
  <2> QED BY <2>1, <1>4 DEF NotAmong
<1>7. TypeOK'
  BY <1>1, <1>2 DEF TypeOK
<1>8. Local' /\ IndexOfKey'
  BY <1>1, <1>4, <1>5, <1>6 DEF Local, Getting, IndexOfKey
<1> QED BY <1>3, <1>7, <1>8 DEF IInv

LEMMA GetNextKeeps ==
  ASSUME IInv, GetNext
  PROVE  IInv'
<1>0. /\ TypeOK /\ Ordered /\ KeysDiffer /\ CountIs /\ IsUsed(idx) /\ idx \in Indices
      /\ pc = "get" /\ pc' = "get" /\ pc # "shift" /\ pc' # "shift"
      /\ UNCHANGED <<hash, Buckets, Count, request, answer, swapBucket, insertedIdx>>
      /\ Buckets[idx].Key # request.key /\ probeLength <= Buckets[idx].ProbeLength
      /\ probeLength' = probeLength + 1 /\ idx' = Succ(idx)
      /\ Getting /\ answer = Pending /\ insertedIdx = NOT_FOUND
      /\ probeLength \in Nat /\ request.op = "Get"
  BY Sizes DEF IInv, GetNext, Advance, Local, TypeOK, Getting
<1>1. PICK i \in Indices, n \in Nat, k \in Keys, h \in Indices :
        i = idx /\ n = probeLength /\ k = request.key /\ h = hash[k]
  BY <1>0, RequestType
<1>2. /\ Probed(h, n) /\ NotAmong(k, h, n) /\ Distance(h, i) = n
      /\ \A j \in Indices : Distance(h, j) < n => IsUsed(j)
  <2>1. Buckets[i].ProbeLength \in Nat /\ Buckets[i].ProbeLength < Capacity
    BY <1>0, <1>1, BucketType, Sizes
  <2>2. n # Capacity
    BY <2>1, <1>0, <1>1
  <2> QED BY <2>2, <1>0, <1>1 DEF Getting, NotAmong
<1>3. PICK s \in Indices :
        /\ s = Succ(i) /\ idx' = s /\ probeLength' = n + 1 /\ n + 1 \in 0 .. Capacity
        /\ Distance(h, s) = n + 1 \/ (s = h /\ n + 1 = Capacity)
  BY <1>0, <1>1, <1>2, GoesRound
<1>4. Probed(h, n + 1) /\ NotAmong(k, h, n + 1)
  <2> SUFFICES ASSUME NEW j \in Indices, Distance(h, j) < n + 1
               PROVE  /\ IsUsed(j) /\ Buckets[j].ProbeLength >= Distance(h, j)
                      /\ Buckets[j].Key # k
    BY DEF Probed, NotAmong
  <2>1. j = i \/ Distance(h, j) < n
    BY <1>2, BeforeNext
  <2>2. CASE j = i
    <3>1. Buckets[i].ProbeLength \in Nat
      BY <1>0, <1>1, BucketType
    <3> QED BY <2>2, <3>1, <1>0, <1>1, <1>2
  <2>3. CASE Distance(h, j) < n
    BY <2>3, <1>0, <1>2, NoHole DEF Probed, NotAmong
  <2> QED BY <2>1, <2>2, <2>3
<1>5. /\ \A g, l : Probed(g, l)' <=> Probed(g, l)
      /\ \A l, g, m : NotAmong(l, g, m)' <=> NotAmong(l, g, m)
      /\ Ordered' /\ KeysDiffer' /\ CountIs'
  BY <1>0, SameTable
<1>6. request'.key = k /\ hash'[k] = h /\ probeLength' = n + 1
  BY <1>0, <1>1
<1>7. /\ Probed(hash[request.key], probeLength)'
      /\ \/ Distance(hash'[request'.key], idx') = probeLength'
         \/ idx' = hash'[request'.key] /\ probeLength' = Capacity
  <2>1. Probed(h, n + 1)'
    BY <1>4, <1>5
  <2>2. Probed(hash[request.key], probeLength)'
    BY <2>1, <1>6 DEF Probed
  <2> QED BY <2>2, <1>3, <1>6
<1>8. NotAmong(request.key, hash[request.key], probeLength)'
  <2>1. NotAmong(k, h, n + 1)'
    BY <1>4, <1>5
  <2> QED BY <2>1, <1>6 DEF NotAmong
<1>9. TypeOK'
  BY <1>0, <1>3 DEF TypeOK
<1>10. Local' /\ IndexOfKey'
  BY <1>0, <1>7, <1>8 DEF Local, Getting, IndexOfKey
<1> QED BY <1>5, <1>9, <1>10 DEF IInv

LEMMA RemoveBeginKeeps ==
  ASSUME IInv, RemoveBegin
  PROVE  IInv'
<1>1. /\ TypeOK /\ CountIs /\ Ordered /\ KeysDiffer /\ Local /\ pc = "begin" /\ pc' = "find"
      /\ UNCHANGED <<hash, Buckets, Count, request, answer, probeLength, swapBucket, insertedIdx>>
      /\ request.op = "Remove" /\ pc # "shift" /\ pc' # "shift"
      /\ idx' = hash[request.key]
  BY DEF IInv, RemoveBegin
<1>2. PICK k \in Keys, h \in Indices : k = request.key /\ h = hash[k]
  BY <1>1, RequestType
<1>3. /\ CountIs' /\ Ordered' /\ KeysDiffer'
      /\ \A l, g, n : NotAmong(l, g, n)' <=> NotAmong(l, g, n)
  BY <1>1, SameTable
<1>4. /\ probeLength' = 0 /\ insertedIdx' = NOT_FOUND /\ answer' = Pending
      /\ request'.key = k /\ hash'[k] = h /\ Distance(h, idx') = 0
  BY <1>1, <1>2, NothingProbed DEF Local
<1>5. NotAmong(request.key, hash[request.key], Distance(hash[request.key], idx))'
  <2>1. NotAmong(k, h, 0)'
    BY <1>3, NothingProbed
  <2> QED BY <2>1, <1>4 DEF NotAmong
<1>6. TypeOK'
  BY <1>1, <1>2 DEF TypeOK
<1>7. Local' /\ IndexOfKey'
  BY <1>1, <1>4, <1>5 DEF Local, Finding, IndexOfKey
<1> QED BY <1>3, <1>6, <1>7 DEF IInv

LEMMA RemoveNextKeeps ==
  ASSUME IInv, RemoveNext
  PROVE  IInv'
<1>0. /\ TypeOK /\ Ordered /\ KeysDiffer /\ CountIs /\ IsUsed(idx) /\ idx \in Indices
      /\ pc = "find" /\ pc' = "find" /\ pc # "shift" /\ pc' # "shift"
      /\ UNCHANGED <<hash, Buckets, Count, request, answer, probeLength, swapBucket, insertedIdx>>
      /\ Buckets[idx].Key # request.key /\ idx' = Succ(idx)
      /\ Finding /\ answer = Pending /\ insertedIdx = NOT_FOUND /\ probeLength = 0
      /\ request.op = "Remove"
  BY DEF IInv, RemoveNext, Local, TypeOK, Finding
<1>1. PICK i \in Indices, k \in Keys, h \in Indices :
        i = idx /\ k = request.key /\ h = hash[k]
  BY <1>0, RequestType
<1>2. PICK n \in Nat : n = Distance(h, i)
  BY DistanceType
<1>3. NotAmong(k, h, n)
  BY <1>0, <1>1, <1>2 DEF Finding
<1>4. PICK s \in Indices : s = Succ(i) /\ idx' = s /\ (Distance(h, s) = n + 1 \/ s = h)
  BY <1>0, <1>1, <1>2, GoesRound
<1>5. NotAmong(k, h, n + 1)
  <2> SUFFICES ASSUME NEW j \in Indices, Distance(h, j) < n + 1
               PROVE  IsUsed(j) /\ Buckets[j].Key # k
    BY DEF NotAmong
  <2>1. j = i \/ Distance(h, j) < n
    BY <1>2, BeforeNext
  <2> QED BY <2>1, <1>0, <1>1, <1>3 DEF NotAmong
<1>6. /\ \A l, g, m : NotAmong(l, g, m)' <=> NotAmong(l, g, m)
      /\ Ordered' /\ KeysDiffer' /\ CountIs'
  BY <1>0, SameTable
<1>7. NotAmong(request.key, hash[request.key], Distance(hash[request.key], idx))'
  <2>1. NotAmong(k, h, n + 1)' /\ NotAmong(k, h, 0)'
    BY <1>5, <1>6, NothingProbed
  <2>2. request'.key = k /\ hash'[k] = h
    BY <1>0, <1>1
  <2>3. Distance(h, idx') = n + 1 \/ Distance(h, idx') = 0
    BY <1>4, DistanceType
  <2> QED BY <2>1, <2>2, <2>3 DEF NotAmong
<1>8. TypeOK'
  BY <1>0, <1>4 DEF TypeOK
<1>9. Local' /\ IndexOfKey'
  BY <1>0, <1>7 DEF Local, Finding, IndexOfKey
<1> QED BY <1>6, <1>8, <1>9 DEF IInv

LEMMA ClearKeeps ==
  ASSUME IInv, Clear
  PROVE  IInv' /\ Used' = {}
<1>1. /\ TypeOK /\ Buckets' = [i \in Indices |-> Empty] /\ Count' = 0
      /\ Return("Cleared", NOT_FOUND) /\ pc' # "shift"
  BY DEF IInv, Clear, Return
<1>2. Used' = {} /\ Held' = {}
  BY <1>1 DEF Used, Held, IsUsed
<1>3. CountIs'
  BY <1>1, <1>2, FS_EmptySet DEF CountIs
<1>4. Ordered' /\ KeysDiffer'
  BY <1>2 DEF Ordered, KeysDiffer
<1>5. TypeOK'
  BY <1>1, Sizes DEF TypeOK, Return, Results
<1>6. Local' /\ IndexOfKey'
  BY <1>1, ConstantsDiffer DEF Local, Return, Results, IndexOfKey
<1> QED BY <1>2, <1>3, <1>4, <1>5, <1>6 DEF IInv
-----------------------------------------------------------------------------
(* Remove: the hole goes from bucket to bucket until it can stay. *)

LEMMA RemoveFoundKeeps ==
  ASSUME IInv, RemoveFound
  PROVE  IInv' /\ Used' = Used /\ Held = Used /\ Held' = Used \ {idx} /\ idx \in Used
<1>1. /\ TypeOK /\ CountIs /\ Ordered /\ KeysDiffer /\ Local /\ pc = "find" /\ pc' = "shift"
      /\ UNCHANGED <<hash, Buckets, Count, request, answer, idx, probeLength, swapBucket, insertedIdx>>
      /\ IsUsed(idx) /\ idx \in Indices
  BY DEF IInv, RemoveFound, TypeOK
<1>2. /\ Used' = Used /\ Held = Used /\ Held' = Used \ {idx} /\ idx \in Used
      /\ \A i : ~ IsHole(i)
  BY <1>1 DEF Used, Held, IsUsed, IsHole
<1>3. \A h, n : Probed(h, n) => Probed(h, n)'
  BY <1>1, <1>2 DEF Probed, IsUsed
<1>4. Ordered'
  <2> SUFFICES ASSUME NEW j \in Held'
               PROVE  /\ Buckets'[j].ProbeLength = Distance(Home(j)', j)
                      /\ Probed(Home(j), Buckets[j].ProbeLength + 1)'
    BY DEF Ordered
  <2>1. PICK h, n : h = Home(j) /\ n = Buckets[j].ProbeLength + 1
    OBVIOUS
  <2>2. j \in Held /\ Home(j)' = Home(j) /\ Buckets'[j] = Buckets[j]
    BY <1>1, <1>2 DEF Home
  <2>3. Probed(h, n)'
    BY <1>1, <1>3, <2>1, <2>2 DEF Ordered
  <2>4. Probed(Home(j), Buckets[j].ProbeLength + 1)'
    BY <2>1, <2>2, <2>3 DEF Probed
  <2> QED BY <1>1, <2>2, <2>4 DEF Ordered
<1>5. KeysDiffer' /\ CountIs'
  BY <1>1, <1>2 DEF KeysDiffer, CountIs
<1>6. TypeOK'
  BY <1>1 DEF TypeOK
<1>7. Local' /\ IndexOfKey'
  BY <1>1 DEF Local, Finding, IsUsed, IndexOfKey
<1> QED BY <1>2, <1>4, <1>5, <1>6, <1>7 DEF IInv

\* An entry that lies behind the hole keeps the bucket after the hole away from its home.
LEMMA AfterHole ==
  ASSUME TypeOK, Ordered, pc = "shift", NEW p \in Indices, p = idx, NEW j \in Held,
         Distance(Home(j), p) < Buckets[j].ProbeLength + 1
  PROVE  /\ IsUsed(Succ(p)) /\ Distance(Home(j), p) \in Nat
         /\ Buckets[Succ(p)].ProbeLength >= Distance(Home(j), p) + 1
<1>1. PICK h \in Indices, n \in Nat, q \in Nat :
        h = Home(j) /\ n = Buckets[j].ProbeLength /\ q = Distance(h, p)
  <2>1. j \in Indices /\ IsUsed(j)
    BY DEF Held
  <2> QED BY <2>1, BucketType, DistanceType
<1>2. j \in Indices /\ j # p
  BY DEF Held
<1>3. Distance(h, j) = n /\ Probed(h, n + 1)
  BY <1>1 DEF Ordered
<1>4. q < n
  <2>1. q # n
    BY <1>1, <1>2, <1>3, DistanceUnique
  <2> QED BY <2>1, <1>1
<1>5. Distance(h, Succ(p)) = q + 1
  <2>1. q + 1 < Capacity
    BY <1>2, <1>3, <1>4, DistanceType, Sizes
  <2> QED BY <2>1, <1>1, OneFurther
<1>6. Succ(p) \in Indices /\ ~ IsHole(Succ(p))
  <2>1. Succ(p) # p
    BY <1>1, <1>5
  <2> QED BY <2>1, SuccType DEF IsHole
<1>7. Distance(h, Succ(p)) < n + 1
  BY <1>1, <1>4, <1>5
<1>8. IsUsed(Succ(p)) /\ Buckets[Succ(p)].ProbeLength >= Distance(h, Succ(p))
  BY <1>3, <1>6, <1>7 DEF Probed
<1> QED BY <1>1, <1>5, <1>8

LEMMA RemoveShiftKeeps ==
  ASSUME IInv, RemoveShift, NEW p \in Indices, p = idx, NEW s \in Indices, s = Succ(idx)
  PROVE  /\ IInv' /\ Used' = Used /\ p # s /\ p \in Used /\ s \in Used
         /\ Held = Used \ {p} /\ Held' = Used \ {s}
         /\ Buckets'[p].Key = Buckets[s].Key /\ Buckets'[p].Value = Buckets[s].Value
         /\ \A j \in Indices : j # p /\ j # s => Buckets'[j] = Buckets[j]
<1>1. /\ TypeOK /\ CountIs /\ Ordered /\ KeysDiffer /\ Local /\ pc = "shift" /\ pc' = "shift"
      /\ UNCHANGED <<hash, Count, request, answer, probeLength, swapBucket, insertedIdx>>
      /\ IsUsed(p) /\ IsUsed(s) /\ Buckets[s].ProbeLength # 0 /\ idx' = s
      /\ p # s
  <2>1. /\ TypeOK /\ IsUsed(s) /\ Buckets[s].ProbeLength # 0
    BY DEF IInv, RemoveShift, StaysHome
  <2>2. Capacity > 1
    BY <2>1, BucketType, Sizes
  <2> QED BY <2>1, <2>2, SuccType DEF IInv, RemoveShift, Local
<1>2. PICK b \in Bucket, m \in Nat, h \in Indices :
        /\ b = MovedBack(s) /\ m = b.ProbeLength /\ m \in Indices /\ h = hash[b.Key]
        /\ b.Key = Buckets[s].Key /\ b.Value = Buckets[s].Value
        /\ Buckets[s].ProbeLength = m + 1 /\ h = Home(s)
  <2>1. PICK old \in Bucket, n \in Nat : old = Buckets[s] /\ n = old.ProbeLength /\ n \in Indices
    BY <1>1, BucketType
  <2>2. n - 1 \in Indices /\ n - 1 \in Nat /\ n = (n - 1) + 1
    BY <2>1, <1>1, Sizes
  <2>3. PICK m \in Nat : m = n - 1 /\ m \in Indices /\ n = m + 1
    BY <2>2
  <2>4. MovedBack(s) = [old EXCEPT !.ProbeLength = m]
    BY <2>1, <2>3 DEF MovedBack, Bucket
  <2>5. [old EXCEPT !.ProbeLength = m] \in Bucket
    BY <2>1, <2>3 DEF Bucket
  <2>6. PICK b \in Bucket : b = [old EXCEPT !.ProbeLength = m]
    BY <2>5
  <2>7. b.ProbeLength = m /\ b.Key = old.Key /\ b.Value = old.Value
    BY <2>1, <2>6 DEF Bucket
  <2>8. b = MovedBack(s)
    BY <2>4, <2>6
  <2>9. PICK h \in Indices : h = hash[b.Key]
    BY <1>1 DEF Bucket, TypeOK
  <2>10. h = Home(s)
    BY <2>1, <2>7, <2>9 DEF Home
  <2> QED BY <2>1, <2>3, <2>7, <2>8, <2>9, <2>10
<1>3. Buckets' = [Buckets EXCEPT ![p] = b, ![s] = b]
  BY <1>2 DEF RemoveShift
<1>4. /\ Buckets'[p] = b /\ Buckets'[s] = b
      /\ \A j \in Indices : j # p /\ j # s => Buckets'[j] = Buckets[j]
      /\ Buckets' \in [Indices -> Bucket \union {Empty}]
  <2>1. Buckets \in [Indices -> Bucket \union {Empty}]
    BY <1>1 DEF TypeOK
  <2> QED BY <2>1, <1>1, <1>3
<1>5. \A j \in Indices : IsUsed(j)' <=> IsUsed(j)
  BY <1>1, <1>4, EmptyAssumption DEF IsUsed
<1>6. /\ Used' = Used /\ p \in Used /\ s \in Used
      /\ Held = Used \ {p} /\ Held' = Used \ {s}
  <2>1. Used' = Used /\ p \in Used /\ s \in Used
    BY <1>1, <1>5 DEF Used
  <2>2. Held = Used \ {p} /\ Held' = Used' \ {s}
    BY <1>1 DEF Used, Held
  <2> QED BY <2>1, <2>2
<1>7. /\ \A j : IsHole(j) <=> j = p
      /\ \A j : IsHole(j)' <=> j = s
  BY <1>1 DEF IsHole
<1>8. /\ Distance(h, s) = m + 1 /\ Distance(h, p) = m /\ Probed(h, (m + 1) + 1)
  <2>1. s \in Held
    BY <1>1, <1>6
  <2>2. Distance(h, s) = m + 1 /\ Probed(h, (m + 1) + 1)
    BY <2>1, <1>1, <1>2 DEF Ordered
  <2>3. Succ(p) # h
    BY <2>2, DistanceType
  <2>4. Distance(h, s) = Distance(h, p) + 1
    BY <2>3, OneFurther
  <2> QED BY <2>2, <2>4, DistanceType
<1>9. Ordered'
  <2> SUFFICES ASSUME NEW j \in Held'
               PROVE  /\ Buckets'[j].ProbeLength = Distance(Home(j)', j)
                      /\ Probed(Home(j), Buckets[j].ProbeLength + 1)'
    BY DEF Ordered
  <2>0. j \in Indices /\ j # s /\ IsUsed(j)
    BY <1>6 DEF Used
  <2>1. CASE j = p
    <3>1. Home(j)' = h /\ Buckets'[j].ProbeLength = m
      BY <2>1, <1>1, <1>2, <1>4 DEF Home
    <3>2. Probed(h, m + 1)'
      <4> SUFFICES ASSUME NEW k \in Indices, Distance(h, k) < m + 1, k # s
                   PROVE  IsUsed(k) /\ Buckets'[k].ProbeLength >= Distance(h, k)
        BY <1>5, <1>7 DEF Probed
      <4>1. CASE k = p
        BY <4>1, <1>1, <1>2, <1>4, <1>8
      <4>2. CASE k # p
        <5>1. Distance(h, k) < (m + 1) + 1
          BY DistanceType
        <5> QED BY <4>2, <5>1, <1>4, <1>7, <1>8 DEF Probed
      <4> QED BY <4>1, <4>2
    <3>3. Probed(Home(j), Buckets[j].ProbeLength + 1)'
      BY <3>1, <3>2 DEF Probed
    <3> QED BY <3>1, <3>3, <2>1, <1>8
  <2>2. CASE j # p
    <3>1. j \in Held /\ Buckets'[j] = Buckets[j] /\ Home(j)' = Home(j)
      BY <2>0, <2>2, <1>1, <1>4, <1>6 DEF Home, Used
    <3>2. PICK g \in Indices, n \in Nat : g = Home(j) /\ n = Buckets[j].ProbeLength
      BY <2>0, <1>1, BucketType
    <3>3. n = Distance(g, j) /\ Probed(g, n + 1)
      BY <3>1, <3>2, <1>1 DEF Ordered
    <3>4. Probed(g, n + 1)'
      <4> SUFFICES ASSUME NEW k \in Indices, Distance(g, k) < n + 1, k # s
                   PROVE  IsUsed(k) /\ Buckets'[k].ProbeLength >= Distance(g, k)
        BY <1>5, <1>7 DEF Probed
      <4>1. CASE k = p
        <5>1. Distance(g, p) \in Nat /\ Buckets[s].ProbeLength >= Distance(g, p) + 1
          BY <4>1, <3>1, <3>2, <1>1, AfterHole
        <5> QED BY <4>1, <5>1, <1>1, <1>2, <1>4
      <4>2. CASE k # p
        BY <4>2, <3>3, <1>4, <1>7 DEF Probed
      <4> QED BY <4>1, <4>2
    <3>5. Probed(Home(j), Buckets[j].ProbeLength + 1)'
      BY <3>1, <3>2, <3>4 DEF Probed
    <3> QED BY <3>1, <3>2, <3>3, <3>5
  <2> QED BY <2>1, <2>2
<1>10. KeysDiffer'
  <2> SUFFICES ASSUME NEW j \in Held', NEW k \in Held', Buckets'[j].Key = Buckets'[k].Key
               PROVE  j = k
    BY DEF KeysDiffer
  <2>1. j \in Indices /\ k \in Indices /\ j # s /\ k # s /\ j \in Used /\ k \in Used
    BY <1>6 DEF Used
  <2>2. s \in Held /\ (j # p => j \in Held) /\ (k # p => k \in Held)
    BY <1>1, <1>6, <2>1
  <2>3. CASE j # p /\ k # p
    BY <2>1, <2>2, <2>3, <1>1, <1>4 DEF KeysDiffer
  <2>4. CASE j = p /\ k # p
    BY <2>1, <2>2, <2>4, <1>1, <1>2, <1>4 DEF KeysDiffer
  <2>5. CASE j # p /\ k = p
    BY <2>1, <2>2, <2>5, <1>1, <1>2, <1>4 DEF KeysDiffer
  <2> QED BY <2>3, <2>4, <2>5
<1>11. CountIs'
  BY <1>1, <1>6 DEF CountIs
<1>12. TypeOK'
  BY <1>1, <1>4 DEF TypeOK
<1>13. Local' /\ IndexOfKey'
  BY <1>1, <1>5 DEF Local, IndexOfKey
<1> QED BY <1>1, <1>2, <1>4, <1>6, <1>9, <1>10, <1>11, <1>12, <1>13 DEF IInv

LEMMA RemoveLastKeeps ==
  ASSUME IInv, RemoveLast
  PROVE  IInv' /\ Held' = Held /\ \A j \in Held : Buckets'[j] = Buckets[j]
<1>1. /\ TypeOK /\ CountIs /\ Ordered /\ KeysDiffer /\ Local /\ pc = "shift"
      /\ Return("Removed", NOT_FOUND) /\ pc' = "idle" /\ pc' # "shift" /\ hash' = hash
      /\ Count' = Count - 1 /\ StaysHome(Succ(idx))
      /\ Buckets' = [Buckets EXCEPT ![idx] = Empty]
  BY DEF IInv, RemoveLast, Return
<1>2. PICK p \in Indices : p = idx /\ IsUsed(p)
  BY <1>1 DEF TypeOK, Local
<1>3. /\ Buckets'[p] = Empty /\ \A j \in Indices : j # p => Buckets'[j] = Buckets[j]
      /\ Buckets' \in [Indices -> Bucket \union {Empty}]
  BY <1>1, <1>2 DEF TypeOK
<1>4. /\ p \in Used /\ Used' = Used \ {p} /\ Held' = Used' /\ Held = Used \ {p}
  <2>1. p \in Used /\ Used' = Used \ {p}
    BY <1>2, <1>3 DEF Used, IsUsed
  <2>2. Held = Used \ {p}
    BY <1>1, <1>2 DEF Held, Used
  <2> QED BY <2>1, <2>2, <1>1, NoHole
<1>5. CountIs' /\ Count' \in 0 .. MaxCount
  <2>1. Cardinality(Used \ {p}) = Cardinality(Used) - 1 /\ Cardinality(Used \ {p}) \in Nat
    BY <1>4, UsedFinite, FS_RemoveElement, FS_CardinalityType
  <2>2. Count' = Cardinality(Used') /\ Count' \in Nat
    BY <2>1, <1>1, <1>4 DEF CountIs
  <2>3. Count' <= MaxCount
    BY <2>2, <1>1, Sizes DEF TypeOK
  <2> QED BY <2>2, <2>3, Sizes DEF CountIs
<1>6. Ordered'
  <2> SUFFICES ASSUME NEW j \in Held
               PROVE  /\ Buckets'[j].ProbeLength = Distance(Home(j)', j)
                      /\ Probed(Home(j), Buckets[j].ProbeLength + 1)'
    BY <1>4 DEF Ordered
  <2>0. j \in Indices /\ j # p /\ IsUsed(j)
    BY <1>4 DEF Used
  <2>1. Buckets'[j] = Buckets[j] /\ Home(j)' = Home(j)
    BY <2>0, <1>1, <1>3 DEF Home
  <2>2. PICK g \in Indices, n \in Nat : g = Home(j) /\ n = Buckets[j].ProbeLength
    BY <2>0, <1>1, BucketType
  <2>3. n = Distance(g, j) /\ Probed(g, n + 1)
    BY <2>2, <1>1 DEF Ordered
  <2>4. Probed(g, n + 1)'
    <3> SUFFICES ASSUME NEW k \in Indices, Distance(g, k) < n + 1
                 PROVE  IsUsed(k)' /\ Buckets'[k].ProbeLength >= Distance(g, k)
      BY DEF Probed
    <3>1. k # p
      <4> SUFFICES ASSUME k = p PROVE FALSE
        OBVIOUS
      <4>1. /\ IsUsed(Succ(p)) /\ Distance(g, p) \in Nat
            /\ Buckets[Succ(p)].ProbeLength >= Distance(g, p) + 1
        BY <2>2, <1>1, <1>2, AfterHole
      <4>2. Buckets[Succ(p)].ProbeLength = 0
        BY <4>1, <1>1, <1>2 DEF StaysHome
      <4> QED BY <4>1, <4>2
    <3>2. ~ IsHole(k)
      BY <3>1, <1>2 DEF IsHole
    <3> QED BY <3>1, <3>2, <2>3, <1>3 DEF Probed, IsUsed
  <2>5. Probed(Home(j), Buckets[j].ProbeLength + 1)'
    BY <2>1, <2>2, <2>4 DEF Probed
  <2> QED BY <2>1, <2>2, <2>3, <2>5
<1>7. KeysDiffer' /\ \A j \in Held : Buckets'[j] = Buckets[j]
  BY <1>1, <1>3, <1>4 DEF KeysDiffer, Used
<1>8. TypeOK'
  BY <1>1, <1>3, <1>5, Sizes DEF TypeOK, Return, Results
<1>9. Local' /\ IndexOfKey'
  BY <1>1, ConstantsDiffer DEF Local, Return, Results, IndexOfKey
<1> QED BY <1>4, <1>5, <1>6, <1>7, <1>8, <1>9 DEF IInv
-----------------------------------------------------------------------------
(* The theorems. *)

LEMMA InitHolds == Init => IInv
<1> SUFFICES ASSUME Init PROVE IInv
  OBVIOUS
<1>1. Used = {} /\ Held = {}
  BY DEF Init, Used, Held, IsUsed
<1>2. CountIs
  BY <1>1, FS_EmptySet DEF Init, CountIs
<1>3. Ordered /\ KeysDiffer
  BY <1>1 DEF Ordered, KeysDiffer
<1>4. TypeOK
  BY HashAssumption, Sizes DEF Init, TypeOK, Requests, Results
<1>5. Local /\ IndexOfKey
  BY ConstantsDiffer DEF Init, Local, Results, IndexOfKey
<1> QED BY <1>2, <1>3, <1>4, <1>5 DEF IInv

LEMMA StepKeeps == IInv /\ [Next]_vars => IInv'
<1> SUFFICES ASSUME IInv, [Next]_vars PROVE IInv'
  OBVIOUS
<1>1. CASE Call
  BY <1>1, CallKeeps
<1>2. CASE Add
  <2>1. CASE AddFull
    BY <2>1, ReturnKeeps DEF AddFull, Results
  <2>2. CASE AddBegin
    BY <2>2, AddBeginKeeps
  <2>3. CASE AddInsert
    BY <2>3, AddInsertKeeps
  <2>4. CASE AddExists
    BY <2>4, AddExistsKeeps
  <2>5. CASE AddSwap
    BY <2>5, AddSwapKeeps
  <2>6. CASE AddNext
    BY <2>6, AddNextKeeps
  <2> QED BY <1>2, <2>1, <2>2, <2>3, <2>4, <2>5, <2>6 DEF Add
<1>3. CASE Get
  <2>1. CASE GetBegin
    BY <2>1, GetBeginKeeps
  <2>2. CASE GetNothing
    BY <2>2, ReturnKeeps DEF GetNothing
  <2>3. CASE GetValue
    <3>1. Buckets[idx].Value \in Values
      BY <2>3, BucketType DEF GetValue, IInv, TypeOK
    <3> QED BY <3>1, <2>3, ReturnKeeps DEF GetValue
  <2>4. CASE GetNext
    BY <2>4, GetNextKeeps
  <2> QED BY <1>3, <2>1, <2>2, <2>3, <2>4 DEF Get
<1>4. CASE Remove
  <2>1. CASE RemoveBegin
    BY <2>1, RemoveBeginKeeps
  <2>2. CASE RemoveNothing
    BY <2>2, ReturnKeeps DEF RemoveNothing, Results
  <2>3. CASE RemoveNext
    BY <2>3, RemoveNextKeeps
  <2>4. CASE RemoveFound
    BY <2>4, RemoveFoundKeeps
  <2>5. CASE RemoveShift
    <3>1. PICK p \in Indices, s \in Indices : p = idx /\ s = Succ(idx)
      BY SuccType DEF IInv, TypeOK
    <3> QED BY <3>1, <2>5, RemoveShiftKeeps
  <2>6. CASE RemoveLast
    BY <2>6, RemoveLastKeeps
  <2> QED BY <1>4, <2>1, <2>2, <2>3, <2>4, <2>5, <2>6 DEF Remove
<1>5. CASE Clear
  BY <1>5, ClearKeeps
<1>6. CASE UNCHANGED vars
  <2>1. /\ UNCHANGED <<hash, Buckets, Count, request, answer, pc, idx, probeLength, swapBucket, insertedIdx>>
    BY <1>6 DEF vars, locals
  <2>2. TypeOK' = TypeOK /\ CountIs' = CountIs /\ Ordered' = Ordered /\ KeysDiffer' = KeysDiffer
    BY <2>1 DEF TypeOK, CountIs, Used, IsUsed, Ordered, Held, Probed, Home, IsHole, KeysDiffer
  <2>3. Local' = Local /\ IndexOfKey' = IndexOfKey
    BY <2>1 DEF Local, Adding, ProbingFrom, Probed, IsHole, IsUsed, Searching, NotAmong,
                Carrying, Held, Getting, Finding, IndexOfKey
  <2> QED BY <2>2, <2>3 DEF IInv
<1> QED BY <1>1, <1>2, <1>3, <1>4, <1>5, <1>6 DEF Next, Step

\* The invariant is inductive.
THEOREM Inductive == Spec => []IInv
BY InitHolds, StepKeeps, PTL DEF Spec

\* Every call leaves table, request and answer well-formed: the probe never runs out
\* of the table, and the index that Add reports lies within it.
THEOREM HashTypeCorrect == Spec => []TypeOK
<1>1. IInv => TypeOK
  BY DEF IInv
<1> QED BY <1>1, Inductive, PTL

\* Every entry knows its distance from home, and the bucket before it allows a search to
\* reach it: Get may give up at the first bucket that is nearer to its own home.
THEOREM TableIsRobinHood == Spec => []RobinHood
<1>1. IInv => RobinHood
  <2> SUFFICES ASSUME IInv, pc # "shift", NEW i \in Indices, IsUsed(i)
               PROVE  /\ Buckets[i].ProbeLength = Distance(hash[Buckets[i].Key], i)
                      /\ \A j \in Indices :
                           Succ(j) = i /\ Buckets[i].ProbeLength > 0 =>
                             IsUsed(j) /\ Buckets[j].ProbeLength + 1 >= Buckets[i].ProbeLength
    BY DEF RobinHood
  <2>1. TypeOK /\ Ordered /\ i \in Held
    BY DEF IInv, Held
  <2>2. PICK h \in Indices, n \in Nat :
          h = Home(i) /\ h = hash[Buckets[i].Key] /\ n = Buckets[i].ProbeLength
    BY <2>1, BucketType DEF Home
  <2>3. n = Distance(h, i) /\ Probed(h, n + 1)
    BY <2>1, <2>2 DEF Ordered
  <2>4. ASSUME NEW j \in Indices, Succ(j) = i, n > 0
        PROVE  IsUsed(j) /\ Buckets[j].ProbeLength + 1 >= n
    <3>1. Succ(j) # h
      BY <2>3, <2>4, DistanceType
    <3>2. Distance(h, i) = Distance(h, j) + 1 /\ Distance(h, j) \in Nat
      BY <2>4, <3>1, OneFurther, DistanceType
    <3>3. IsUsed(j) /\ Buckets[j].ProbeLength >= Distance(h, j)
      <4>1. Distance(h, j) < n + 1
        BY <2>3, <3>2
      <4> QED BY <4>1, <2>3, NoHole DEF Probed
    <3>4. Buckets[j].ProbeLength \in Nat
      BY <3>3, <2>1, BucketType
    <3> QED BY <2>3, <3>2, <3>3, <3>4
  <2> QED BY <2>2, <2>3, <2>4
<1> QED BY <1>1, Inductive, PTL

\* No key is in two buckets, nor in a bucket and in Add's hand, even while entries move.
THEOREM KeysHeldOnce == Spec => []EachKeyOnce
<1>1. IInv => EachKeyOnce
  BY DEF IInv, KeysDiffer, Local, Adding, Searching, Carrying, EachKeyOnce
<1> QED BY <1>1, Inductive, PTL

\* The index that Add and Replace report is that of the bucket with the requested key,
\* however many other buckets the insertion moved afterwards.
THEOREM ReportedIndex == Spec => []IndexOfKey
<1>1. IInv => IndexOfKey
  BY DEF IInv
<1> QED BY <1>1, Inductive, PTL
-----------------------------------------------------------------------------
(* The table implements the map. *)

Carried == pc = "add" /\ insertedIdx # NOT_FOUND

\* The map has value v at key k: in a bucket, or in the one that Add carries.
Owns(k, v) ==
  \/ \E i \in Held : Buckets[i].Key = k /\ Buckets[i].Value = v
  \/ Carried /\ swapBucket.Key = k /\ swapBucket.Value = v

ContentOwned ==
  /\ Content \in [Keys -> Values \union {Absent}]
  /\ \A k \in Keys, v \in Values : Content[k] = v <=> Owns(k, v)

LEMMA ContentIs == IInv => ContentOwned
<1> SUFFICES ASSUME IInv PROVE ContentOwned
  OBVIOUS
<1>0. TypeOK /\ KeysDiffer
  BY DEF IInv
<1>1. /\ Carried => swapBucket \in Bucket /\ swapBucket.Value \in Values
      /\ Carried => \A i \in Held : Buckets[i].Key # swapBucket.Key
  BY DEF Carried, IInv, Local, Adding, Searching, Carrying, Bucket
<1>2. \A i \in Held : Buckets[i].Value \in Values
  BY <1>0, BucketType DEF Held
<1>3. ASSUME NEW k \in Keys
      PROVE  /\ Content[k] \in Values \union {Absent}
             /\ \A v \in Values : Content[k] = v <=> Owns(k, v)
  <2>1. CASE InPlace(k)
    <3>1. PICK i \in Held : i = CHOOSE j \in Held : Buckets[j].Key = k
      BY <2>1 DEF InPlace
    <3>2. Buckets[i].Key = k /\ Content[k] = Buckets[i].Value
      BY <2>1, <3>1 DEF InPlace, Content
    <3> QED BY <3>2, <1>0, <1>1, <1>2 DEF Owns, KeysDiffer
  <2>2. CASE ~ InPlace(k) /\ Carried /\ swapBucket.Key = k
    <3>1. Content[k] = swapBucket.Value
      BY <2>2 DEF Content, Carried
    <3> QED BY <3>1, <2>2, <1>1 DEF Owns, InPlace
  <2>3. CASE ~ InPlace(k) /\ ~ (Carried /\ swapBucket.Key = k)
    <3>1. Content[k] = Absent
      BY <2>3 DEF Content, Carried
    <3> QED BY <3>1, <2>3, ConstantsDiffer DEF Owns, InPlace
  <2> QED BY <2>1, <2>2, <2>3
<1>4. Content = [k \in Keys |-> Content[k]]
  BY DEF Content
<1> QED BY <1>3, <1>4 DEF ContentOwned

LEMMA ContentIsNext == IInv' => ContentOwned'
BY ContentIs, PTL

\* What a step does to the content is what it does to the owners.
LEMMA ContentStays ==
  ASSUME IInv, IInv', \A k \in Keys, v \in Values : Owns(k, v)' <=> Owns(k, v)
  PROVE  Content' = Content
BY ContentIs, ContentIsNext, ConstantsDiffer DEF ContentOwned

LEMMA ContentStores ==
  ASSUME IInv, IInv', NEW l \in Keys, NEW w \in Values, Owns(l, w)',
         \A k \in Keys, v \in Values : k # l => (Owns(k, v)' <=> Owns(k, v))
  PROVE  Content' = [Content EXCEPT ![l] = w]
BY ContentIs, ContentIsNext, ConstantsDiffer DEF ContentOwned

LEMMA ContentLoses ==
  ASSUME IInv, IInv', NEW l \in Keys, \A v \in Values : ~ Owns(l, v)',
         \A k \in Keys, v \in Values : k # l => (Owns(k, v)' <=> Owns(k, v))
  PROVE  Content' = [Content EXCEPT ![l] = Absent]
BY ContentIs, ContentIsNext, ConstantsDiffer DEF ContentOwned

LEMMA ContentLacks ==
  ASSUME IInv, ~ Carried, NEW k \in Keys, \A i \in Held : Buckets[i].Key # k
  PROVE  Content[k] = Absent
BY ContentIs DEF Owns, ContentOwned

\* The abstract module counts with an instance of FiniteSets of its own.
LEMMA SameCardinality == \A S : Promise!Cardinality(S) = Cardinality(S)
BY DEF Promise!Cardinality, Cardinality

\* Count is the number of keys of the map.
LEMMA ContentSize ==
  ASSUME IInv, ~ Carried, pc # "shift"
  PROVE  Promise!Cardinality(Promise!KeysOf(Content)) = Count
<1> DEFINE K == Promise!KeysOf(Content)
           f == [i \in Used |-> Buckets[i].Key]
<1>0. TypeOK /\ KeysDiffer /\ CountIs /\ Held = Used
  BY NoHole DEF IInv
<1>1. \A i \in Used : i \in Indices /\ Buckets[i].Key \in Keys /\ Buckets[i].Value \in Values
  BY <1>0, BucketType DEF Used
<1>2. \A k : k \in K <=> \E i \in Used : Buckets[i].Key = k
  <2>1. ASSUME NEW i \in Used PROVE Buckets[i].Key \in K
    <3>1. Owns(Buckets[i].Key, Buckets[i].Value)
      BY <1>0 DEF Owns
    <3>2. Content[Buckets[i].Key] = Buckets[i].Value
      BY <1>1, <3>1, ContentIs DEF ContentOwned
    <3> QED BY <1>1, <3>2, ConstantsDiffer DEF Promise!KeysOf
  <2>2. ASSUME NEW k \in K PROVE \E i \in Used : Buckets[i].Key = k
    <3>1. k \in Keys /\ Content[k] # Absent
      BY DEF Promise!KeysOf
    <3> QED BY <3>1, <1>0, ContentLacks
  <2> QED BY <2>1, <2>2
<1>3. f \in Bijection(Used, K)
  <2>1. f \in [Used -> K]
    BY <1>2
  <2>2. \A a, b \in Used : f[a] = f[b] => a = b
    BY <1>0 DEF KeysDiffer
  <2>3. \A k \in K : \E a \in Used : f[a] = k
    BY <1>2
  <2> HIDE DEF f, K
  <2> QED BY <2>1, <2>2, <2>3 DEF Bijection, Injection, Surjection, IsInjective
<1>4. Cardinality(K) = Cardinality(Used)
  <2> HIDE DEF f, K
  <2> QED BY <1>3, UsedFinite, FS_Bijection DEF ExistsBijection
<1> QED BY <1>0, <1>4, SameCardinality DEF CountIs
-----------------------------------------------------------------------------
\* The steps of a call before it has an effect find the map as it was asked for.
LEMMA Undecided ==
  ASSUME IInv, ~ Carried, pc # "shift", pc # "idle"
  PROVE  Decided = Pending
BY DEF IInv, Local, Decided, Carried

LEMMA DecidedAnswers == (pc = "idle" => Decided = answer) /\ (pc' = "idle" => Decided' = answer')
BY DEF Decided

LEMMA PromiseInit == Init => Promise!Init
<1> SUFFICES ASSUME Init PROVE Promise!Init
  OBVIOUS
<1>1. IInv /\ ~ Carried /\ \A i : i \notin Held
  BY InitHolds DEF Init, Carried, Held, IsUsed
<1>2. \A k \in Keys : Content[k] = Absent
  BY <1>1, ContentLacks
<1>3. Content = [k \in Keys |-> Absent]
  BY <1>1, <1>2, ContentIs DEF ContentOwned
<1> QED BY <1>3 DEF Init, Decided, Promise!Init, Promise!NoContent

\* The call is asked for.
LEMMA CallAsks ==
  ASSUME IInv, IInv', Call
  PROVE  Promise!Ask
<1>1. pc = "idle" /\ pc' = "begin" /\ Held' = Held /\ UNCHANGED Buckets
  BY DEF Call, Held, IsUsed
<1>2. \A k, v : Owns(k, v)' <=> Owns(k, v)
  BY <1>1 DEF Owns, Carried
<1>3. Content' = Content
  BY <1>2, ContentStays
<1>4. Decided # Pending /\ Decided' = Pending
  BY <1>1 DEF Call, Decided, IInv, Local
<1>5. request' \in Promise!Requests
  BY DEF Call, Requests, Promise!Requests
<1> QED BY <1>3, <1>4, <1>5 DEF Promise!Ask

\* A step of a call that has not had its effect yet, or has had it before.
LEMMA StepStutters ==
  ASSUME IInv, IInv', UNCHANGED request, Decided' = Decided,
         \A k \in Keys, v \in Values : Owns(k, v)' <=> Owns(k, v)
  PROVE  UNCHANGED Promise!mapVars
BY ContentStays DEF Promise!mapVars

\* A call returns without changing the table.
LEMMA ReturnSame ==
  ASSUME IInv, IInv', pc \in {"begin", "get", "find"}, UNCHANGED <<Buckets, Count>>,
         NEW r, Return(r, NOT_FOUND)
  PROVE  /\ Content' = Content /\ request' = request
         /\ Decided = Pending /\ Decided' = r
<1>1. pc' = "idle" /\ Held' = Held /\ UNCHANGED Buckets /\ ~ Carried /\ ~ Carried'
  BY DEF Return, Held, IsUsed, Carried
<1>2. \A k, v : Owns(k, v)' <=> Owns(k, v)
  BY <1>1 DEF Owns
<1>3. Content' = Content
  BY <1>2, ContentStays
<1>4. Decided = Pending /\ Decided' = r
  BY <1>1, Undecided, DecidedAnswers DEF Return
<1> QED BY <1>3, <1>4 DEF Return

LEMMA AddFullRefuses ==
  ASSUME IInv, IInv', AddFull
  PROVE  Promise!RefuseWhenFull
<1>1. Content' = Content /\ request' = request /\ Decided = Pending /\ Decided' = "IsMapFull"
  BY ReturnSame DEF AddFull
<1>2. Promise!Cardinality(Promise!KeysOf(Content)) = MaxCount
  BY ContentSize DEF AddFull, Carried, IsFull
<1> QED BY <1>1, <1>2 DEF AddFull, Promise!RefuseWhenFull, Promise!Respond

\* Add finds a place for the key: from here on the map has it.
LEMMA AddInsertAdds ==
  ASSUME IInv, IInv', AddInsert, ~ Carried
  PROVE  Promise!AddNew
<1>1. /\ pc = "add" /\ pc' = "idle" /\ ~ IsUsed(idx) /\ pc # "shift" /\ pc' # "shift" /\ idx \in Indices
      /\ UNCHANGED request /\ answer' = "Inserted" /\ insertedIdx = NOT_FOUND
      /\ Buckets' = [Buckets EXCEPT ![idx] = [swapBucket EXCEPT !.ProbeLength = probeLength]]
      /\ TypeOK /\ ~ Carried'
  BY DEF AddInsert, Return, Carried, IInv, TypeOK
<1>2. PICK l \in Keys, w \in Values, i \in Indices :
        l = request.key /\ w = request.value /\ i = idx
  BY <1>1, AddIs, RequestType
<1>3. PICK b \in Bucket : b = swapBucket /\ b.Key = l /\ b.Value = w
  BY <1>1, <1>2, AddIs, Sizes DEF Searching, Carrying
<1>4. \A j \in Held : Buckets[j].Key # l
  BY <1>1, <1>2, <1>3, AddIs
<1>5. /\ Buckets'[i].Key = l /\ Buckets'[i].Value = w /\ IsUsed(i)'
      /\ \A j \in Indices : j # i => Buckets'[j] = Buckets[j]
  <2>1. [b EXCEPT !.ProbeLength = probeLength] \in Bucket
    BY <1>1, <1>3, AddIs DEF Bucket
  <2>2. PICK c \in Bucket : c = [b EXCEPT !.ProbeLength = probeLength] /\ c.Key = l /\ c.Value = w
    BY <2>1, <1>3 DEF Bucket
  <2>3. Buckets' = [Buckets EXCEPT ![i] = c]
    BY <2>2, <1>1, <1>2, <1>3
  <2>4. Buckets'[i] = c /\ \A j \in Indices : j # i => Buckets'[j] = Buckets[j]
    BY <2>3, <1>1 DEF TypeOK
  <2> QED BY <2>2, <2>4, EmptyAssumption DEF IsUsed
<1>6. Held' = Held \union {i} /\ i \notin Held /\ Held \subseteq Indices
  BY <1>1, <1>2, <1>5 DEF Held, IsUsed
<1>7. Owns(l, w)' /\ \A k, v : k # l => (Owns(k, v)' <=> Owns(k, v))
  BY <1>1, <1>5, <1>6 DEF Owns
<1>8. Content' = [Content EXCEPT ![l] = w]
  BY <1>7, ContentStores
<1>9. Content[l] = Absent
  BY <1>4, ContentLacks
<1>10. Promise!Cardinality(Promise!KeysOf(Content)) < MaxCount
  BY <1>1, ContentSize DEF IInv, Local, Adding
<1>11. Decided = Pending /\ Decided' = "Inserted"
  BY <1>1, Undecided, DecidedAnswers
<1>12. request.op \in {"Add", "Replace"}
  BY <1>1, AddIs
<1> QED BY <1>1, <1>2, <1>8, <1>9, <1>10, <1>11, <1>12 DEF Promise!AddNew, Promise!Respond

\* Add puts a bucket down that it carried: the key of the request has a place already.
LEMMA AddInsertStutters ==
  ASSUME IInv, IInv', AddInsert, Carried
  PROVE  UNCHANGED Promise!mapVars
<1>1. /\ pc = "add" /\ pc' = "idle" /\ ~ IsUsed(idx) /\ pc # "shift" /\ pc' # "shift" /\ idx \in Indices
      /\ UNCHANGED request /\ answer' = "Inserted"
      /\ Buckets' = [Buckets EXCEPT ![idx] = [swapBucket EXCEPT !.ProbeLength = probeLength]]
      /\ TypeOK /\ ~ Carried'
  BY DEF AddInsert, Return, Carried, IInv, TypeOK
<1>2. PICK i \in Indices, b \in Bucket : i = idx /\ b = swapBucket
  BY <1>1, AddIs
<1>3. /\ Buckets'[i].Key = b.Key /\ Buckets'[i].Value = b.Value /\ IsUsed(i)'
      /\ \A j \in Indices : j # i => Buckets'[j] = Buckets[j]
  <2>1. [b EXCEPT !.ProbeLength = probeLength] \in Bucket
    BY <1>1, AddIs DEF Bucket
  <2>2. PICK c \in Bucket : c = [b EXCEPT !.ProbeLength = probeLength] /\ c.Key = b.Key /\ c.Value = b.Value
    BY <2>1 DEF Bucket
  <2>3. Buckets' = [Buckets EXCEPT ![i] = c]
    BY <2>2, <1>1, <1>2
  <2>4. Buckets'[i] = c /\ \A j \in Indices : j # i => Buckets'[j] = Buckets[j]
    BY <2>3, <1>1 DEF TypeOK
  <2> QED BY <2>2, <2>4, EmptyAssumption DEF IsUsed
<1>4. Held' = Held \union {i} /\ i \notin Held /\ Held \subseteq Indices
  BY <1>1, <1>2, <1>3 DEF Held, IsUsed
<1>5. \A k, v : Owns(k, v)' <=> Owns(k, v)
  BY <1>1, <1>2, <1>3, <1>4 DEF Owns
<1>6. Decided = "Inserted" /\ Decided' = "Inserted"
  BY <1>1, DecidedAnswers DEF Decided, Carried
<1> QED BY <1>1, <1>5, <1>6, StepStutters

LEMMA AddExistsFinds ==
  ASSUME IInv, IInv', AddExists
  PROVE  Promise!FindExisting
<1>0. /\ pc = "add" /\ pc' = "idle" /\ IsUsed(idx) /\ pc # "shift" /\ pc' # "shift" /\ idx \in Indices
      /\ UNCHANGED request /\ answer' = "DoesExist"
      /\ Buckets[idx].Key = swapBucket.Key /\ TypeOK /\ KeysDiffer /\ ~ Carried'
  BY DEF AddExists, Return, Carried, IInv, TypeOK
<1>1. /\ Used' = Used /\ Searching
      /\ \A j \in Indices : j # idx => Buckets'[j] = Buckets[j]
      /\ Buckets'[idx].Key = Buckets[idx].Key
      /\ request.op = "Replace" => Buckets'[idx].Value = request.value
      /\ request.op = "Add" => Buckets' = Buckets
  BY AddExistsKeeps
<1>2. ~ Carried
  BY <1>1 DEF Searching, Carried
<1>3. PICK l \in Keys, w \in Values, i \in Indices :
        l = request.key /\ w = request.value /\ i = idx /\ Buckets[i].Key = l
  BY <1>0, <1>1, AddIs, RequestType DEF Searching
<1>4. Held' = Held /\ i \in Held /\ Held \subseteq Indices
  BY <1>0, <1>1, <1>3, NoHole DEF Used
<1>5. Content[l] # Absent
  <2>1. Buckets[i].Value \in Values
    BY <1>0, <1>3, BucketType
  <2>2. Owns(l, Buckets[i].Value)
    BY <1>3, <1>4 DEF Owns
  <2> QED BY <2>1, <2>2, ContentIs, ConstantsDiffer DEF ContentOwned
<1>6. Promise!Cardinality(Promise!KeysOf(Content)) < MaxCount
  BY <1>0, <1>2, ContentSize DEF IInv, Local, Adding
<1>7. Decided = Pending /\ Decided' = "DoesExist"
  BY <1>0, <1>2, Undecided, DecidedAnswers
<1>8. CASE request.op = "Replace"
  <2>1. Buckets'[i].Key = l /\ Buckets'[i].Value = w
    BY <1>1, <1>3, <1>8
  <2>2. Owns(l, w)'
    BY <2>1, <1>4 DEF Owns
  <2>3. \A j \in Held : j # i => Buckets'[j] = Buckets[j]
    BY <1>1, <1>3, <1>4
  <2>4. \A k, v : k # l => (Owns(k, v)' <=> Owns(k, v))
    BY <2>1, <2>3, <1>0, <1>2, <1>3, <1>4 DEF Owns
  <2>5. Content' = [Content EXCEPT ![l] = w]
    BY <2>2, <2>4, ContentStores
  <2> QED BY <2>5, <1>0, <1>3, <1>5, <1>6, <1>7, <1>8 DEF Promise!FindExisting, Promise!Respond
<1>9. CASE request.op = "Add"
  <2>1. \A k, v : Owns(k, v)' <=> Owns(k, v)
    BY <1>0, <1>1, <1>2, <1>4, <1>9 DEF Owns
  <2>2. Content' = Content
    BY <2>1, ContentStays
  <2> QED BY <2>2, <1>0, <1>3, <1>5, <1>6, <1>7, <1>9 DEF Promise!FindExisting, Promise!Respond
<1> QED BY <1>0, <1>8, <1>9, AddIs

\* The first exchange gives the key of the request its place; a later one only changes
\* which of the other entries is carried.
LEMMA AddSwapMaps ==
  ASSUME IInv, IInv', AddSwap
  PROVE  IF Carried THEN UNCHANGED Promise!mapVars ELSE Promise!AddNew
<1>0. /\ pc = "add" /\ pc' = "add" /\ pc # "shift" /\ pc' # "shift" /\ idx \in Indices /\ IsUsed(idx)
      /\ UNCHANGED request /\ swapBucket' = Buckets[idx] /\ TypeOK
  BY DEF AddSwap, IInv, TypeOK
<1>1. /\ Used' = Used /\ Carried'
      /\ Buckets[idx].Key # swapBucket.Key
      /\ Buckets'[idx].Key = swapBucket.Key /\ Buckets'[idx].Value = swapBucket.Value
      /\ \A j \in Indices : j # idx => Buckets'[j] = Buckets[j]
      /\ \A j \in Held : Buckets[j].Key # swapBucket.Key
  BY <1>0, AddSwapKeeps DEF Carried
<1>2. PICK i \in Indices : i = idx
  BY <1>0
<1>3. Held' = Held /\ i \in Held /\ Held \subseteq Indices
  BY <1>0, <1>1, <1>2, NoHole DEF Used
<1>4. \A j \in Held : j # i => Buckets'[j] = Buckets[j]
  BY <1>1, <1>2, <1>3
<1>5. \A k, v : Owns(k, v)' <=>
                  \/ \E j \in Held : Buckets[j].Key = k /\ Buckets[j].Value = v
                  \/ swapBucket.Key = k /\ swapBucket.Value = v
  BY <1>0, <1>1, <1>2, <1>3, <1>4 DEF Owns
<1>6. Decided' = "Inserted"
  BY <1>1 DEF Decided, Carried
<1>7. CASE Carried
  <2>0. \A k, v : Owns(k, v) <=>
                    \/ \E j \in Held : Buckets[j].Key = k /\ Buckets[j].Value = v
                    \/ swapBucket.Key = k /\ swapBucket.Value = v
    BY <1>7 DEF Owns
  <2>1. \A k, v : Owns(k, v)' <=> Owns(k, v)
    BY <2>0, <1>5
  <2>2. Decided = "Inserted"
    BY <1>7 DEF Decided, Carried
  <2> QED BY <2>1, <2>2, <1>0, <1>6, <1>7, StepStutters
<1>8. CASE ~ Carried
  <2>1. Searching
    BY <1>0, <1>8, AddIs DEF Carried
  <2>2. PICK l \in Keys, w \in Values :
          l = request.key /\ w = request.value /\ swapBucket.Key = l /\ swapBucket.Value = w
    BY <2>1, <1>0, AddIs, RequestType DEF Searching
  <2>3. Owns(l, w)' /\ \A k, v : k # l => (Owns(k, v)' <=> Owns(k, v))
    BY <2>2, <1>5, <1>8 DEF Owns
  <2>4. Content' = [Content EXCEPT ![l] = w]
    BY <2>3, ContentStores
  <2>5. Content[l] = Absent
    BY <2>2, <1>1, <1>8, ContentLacks
  <2>6. Promise!Cardinality(Promise!KeysOf(Content)) < MaxCount
    BY <1>0, <1>8, ContentSize DEF IInv, Local, Adding
  <2>7. Decided = Pending /\ request.op \in {"Add", "Replace"}
    BY <1>0, <1>8, Undecided, AddIs
  <2> QED BY <2>2, <2>4, <2>5, <2>6, <2>7, <1>0, <1>6, <1>8 DEF Promise!AddNew, Promise!Respond
<1> QED BY <1>7, <1>8

\* A step that only looks at the next bucket.
LEMMA LookStutters ==
  ASSUME IInv, IInv', UNCHANGED <<Buckets, request, answer, swapBucket, insertedIdx>>,
         pc # "shift", pc' # "shift", pc # "idle", pc' # "idle",
         Carried' = Carried
  PROVE  UNCHANGED Promise!mapVars
<1>1. Held' = Held
  BY DEF Held, IsUsed
<1>2. \A k, v : Owns(k, v)' <=> Owns(k, v)
  BY <1>1 DEF Owns
<1>3. Decided' = Decided
  BY DEF Decided, Carried
<1> QED BY <1>2, <1>3, StepStutters

\* An empty table has no entry.
LEMMA EmptyHoldsNothing ==
  ASSUME IInv, Count = 0
  PROVE  \A i : i \notin Held
<1>1. Used = {}
  BY UsedFinite, FS_EmptySet DEF IInv, CountIs
<1> QED BY <1>1 DEF Used, Held

LEMMA GetNothingAnswers ==
  ASSUME IInv, IInv', GetNothing
  PROVE  Promise!Get
<1>1. pc \in {"begin", "get"} /\ ~ Carried /\ request.op = "Get" /\ TypeOK /\ Ordered /\ pc # "shift"
  BY DEF GetNothing, Carried, IInv, Local, Getting
<1>2. Content' = Content /\ request' = request /\ Decided = Pending /\ Decided' = Absent
  BY ReturnSame DEF GetNothing
<1>3. PICK k \in Keys, h \in Indices : k = request.key /\ h = hash[k]
  BY <1>1, RequestType
<1>4. \A i \in Held : Buckets[i].Key # k
  <2>1. CASE pc = "begin"
    BY <2>1, EmptyHoldsNothing DEF GetNothing
  <2>2. CASE pc = "get"
    <3>1. /\ NotAmong(k, hash[k], probeLength)
          /\ Distance(hash[k], idx) = probeLength \/ probeLength = Capacity
      BY <2>2, <1>3 DEF IInv, Local, Getting
    <3>2. CASE Distance(hash[k], idx) = probeLength
      <4>1. IsUsed(idx) => Buckets[idx].ProbeLength < Distance(hash[k], idx)
        <5> SUFFICES ASSUME IsUsed(idx) PROVE Buckets[idx].ProbeLength < probeLength
          BY <3>2
        <5>1. Buckets[idx].ProbeLength \in Nat /\ probeLength \in Nat
          BY <1>1, BucketType, Sizes DEF TypeOK
        <5> QED BY <5>1, <2>2 DEF GetNothing
      <4> QED BY <3>1, <3>2, <4>1, <1>1, <1>3, NotHeldIs
    <3>3. CASE probeLength = Capacity
      <4>1. \A i \in Indices : Distance(hash[k], i) < probeLength
        BY <3>3, <1>3, DistanceType
      <4> QED BY <3>1, <4>1 DEF NotAmong, Held
    <3> QED BY <3>1, <3>2, <3>3
  <2> QED BY <2>1, <2>2, <1>1 DEF GetNothing
<1>5. Content[k] = Absent
  BY <1>1, <1>4, ContentLacks
<1> QED BY <1>1, <1>2, <1>3, <1>5 DEF Promise!Get, Promise!Respond

LEMMA GetValueAnswers ==
  ASSUME IInv, IInv', GetValue
  PROVE  Promise!Get
<1>1. pc = "get" /\ ~ Carried /\ request.op = "Get" /\ TypeOK /\ idx \in Held /\ idx \in Indices
      /\ IsUsed(idx) /\ Buckets[idx].Key = request.key
  BY DEF GetValue, Carried, IInv, Local, Getting, Held, TypeOK
<1>2. PICK k \in Keys, v \in Values : k = request.key /\ v = Buckets[idx].Value
  BY <1>1, BucketType
<1>3. Content' = Content /\ request' = request /\ Decided = Pending /\ Decided' = v
  BY <1>2, ReturnSame DEF GetValue
<1>4. Owns(k, v)
  BY <1>1, <1>2 DEF Owns
<1>5. Content[k] = v
  BY <1>4, ContentIs DEF ContentOwned
<1> QED BY <1>1, <1>2, <1>3, <1>5 DEF Promise!Get, Promise!Respond

LEMMA RemoveNothingAnswers ==
  ASSUME IInv, IInv', RemoveNothing
  PROVE  Promise!Remove
<1>1. /\ pc \in {"begin", "find"} /\ ~ Carried /\ request.op = "Remove"
      /\ TypeOK /\ Ordered /\ pc # "shift"
  BY DEF RemoveNothing, Carried, IInv, Local, Finding
<1>2. Content' = Content /\ request' = request /\ Decided = Pending /\ Decided' = "NotFound"
  BY ReturnSame DEF RemoveNothing
<1>3. PICK k \in Keys, h \in Indices : k = request.key /\ h = hash[k]
  BY <1>1, RequestType
<1>4. \A i \in Held : Buckets[i].Key # k
  <2>1. CASE pc = "begin"
    BY <2>1, EmptyHoldsNothing DEF RemoveNothing
  <2>2. CASE pc = "find"
    <3>1. NotAmong(k, hash[k], Distance(hash[k], idx)) /\ ~ IsUsed(idx)
      BY <2>2, <1>3 DEF IInv, Local, Finding, RemoveNothing
    <3> QED BY <3>1, <1>1, <1>3, NotHeldIs
  <2> QED BY <2>1, <2>2, <1>1
<1>5. Content[k] = Absent
  BY <1>1, <1>4, ContentLacks
<1>6. Content' = [Content EXCEPT ![k] = Absent]
  BY <1>2, <1>5, ContentIs DEF ContentOwned
<1> QED BY <1>1, <1>2, <1>3, <1>5, <1>6 DEF Promise!Remove, Promise!Respond

\* The entry that Remove has found is no longer in the map.
LEMMA RemoveFoundRemoves ==
  ASSUME IInv, IInv', RemoveFound
  PROVE  Promise!Remove
<1>1. /\ pc = "find" /\ pc' = "shift" /\ ~ Carried /\ ~ Carried' /\ request.op = "Remove"
      /\ TypeOK /\ KeysDiffer /\ idx \in Indices /\ IsUsed(idx) /\ Buckets[idx].Key = request.key
      /\ UNCHANGED <<Buckets, request, idx>>
  BY DEF RemoveFound, Carried, IInv, Local, Finding, TypeOK
<1>2. PICK i \in Indices, k \in Keys, v \in Values :
        i = idx /\ k = request.key /\ Buckets[i].Key = k /\ v = Buckets[i].Value
  BY <1>1, BucketType
<1>3. Held' = Held \ {i} /\ i \in Held
  BY <1>1, <1>2, RemoveFoundKeeps
<1>4. \A w : ~ Owns(k, w)'
  BY <1>1, <1>2, <1>3 DEF Owns, KeysDiffer
<1>5. \A l, w : l # k => (Owns(l, w)' <=> Owns(l, w))
  BY <1>1, <1>2, <1>3 DEF Owns
<1>6. Content' = [Content EXCEPT ![k] = Absent]
  BY <1>4, <1>5, ContentLoses
<1>7. Content[k] # Absent
  <2>1. Owns(k, v)
    BY <1>2, <1>3 DEF Owns
  <2> QED BY <2>1, <1>2, ContentIs, ConstantsDiffer DEF ContentOwned
<1>8. Decided = Pending /\ Decided' = "Removed"
  BY <1>1, Undecided DEF Decided, Carried
<1> QED BY <1>1, <1>2, <1>6, <1>7, <1>8 DEF Promise!Remove, Promise!Respond

LEMMA RemoveShiftStutters ==
  ASSUME IInv, IInv', RemoveShift
  PROVE  UNCHANGED Promise!mapVars
<1>1. PICK p \in Indices, s \in Indices : p = idx /\ s = Succ(idx)
  BY SuccType DEF IInv, TypeOK
<1>2. /\ p # s /\ p \in Used /\ s \in Used /\ Used \subseteq Indices
      /\ Held = Used \ {p} /\ Held' = Used \ {s}
      /\ Buckets'[p].Key = Buckets[s].Key /\ Buckets'[p].Value = Buckets[s].Value
      /\ \A j \in Indices : j # p /\ j # s => Buckets'[j] = Buckets[j]
  BY <1>1, RemoveShiftKeeps DEF Used
<1>3. /\ \A j \in Held : j # s => j \in Held' /\ Buckets'[j] = Buckets[j]
      /\ \A j \in Held' : j # p => j \in Held /\ Buckets'[j] = Buckets[j]
      /\ p \in Held' /\ s \in Held
  BY <1>2
<1>4. ~ Carried /\ ~ Carried' /\ UNCHANGED request /\ Decided' = Decided
  BY DEF RemoveShift, Carried, Decided
<1>5. \A k, v : (\E j \in Held' : Buckets'[j].Key = k /\ Buckets'[j].Value = v)
                  <=> \E j \in Held : Buckets[j].Key = k /\ Buckets[j].Value = v
  BY <1>2, <1>3
<1>6. \A k, v : Owns(k, v)' <=> Owns(k, v)
  BY <1>4, <1>5 DEF Owns
<1> QED BY <1>4, <1>6, StepStutters

LEMMA RemoveLastStutters ==
  ASSUME IInv, IInv', RemoveLast
  PROVE  UNCHANGED Promise!mapVars
<1>1. Held' = Held /\ \A j \in Held : Buckets'[j] = Buckets[j]
  BY RemoveLastKeeps
<1>2. ~ Carried /\ ~ Carried' /\ UNCHANGED request /\ Decided = "Removed" /\ Decided' = "Removed"
  BY DEF RemoveLast, Return, Carried, Decided
<1>3. \A k, v : Owns(k, v)' <=> Owns(k, v)
  BY <1>1, <1>2 DEF Owns
<1> QED BY <1>2, <1>3, StepStutters

LEMMA ClearClears ==
  ASSUME IInv, IInv', Clear
  PROVE  Promise!Clear
<1>1. /\ ~ Carried /\ ~ Carried' /\ UNCHANGED request /\ pc' = "idle" /\ request.op = "Clear"
      /\ Decided = Pending /\ Decided' = "Cleared"
  BY Undecided, DecidedAnswers DEF Clear, Return, Carried
<1>2. \A k, v : ~ Owns(k, v)'
  BY <1>1, ClearKeeps, NoHole DEF Owns
<1>3. Content' \in [Keys -> Values \union {Absent}] /\ \A k \in Keys : Content'[k] = Absent
  BY <1>2, ContentIsNext DEF ContentOwned
<1>4. Content' = [k \in Keys |-> Absent]
  BY <1>3
<1> QED BY <1>1, <1>4 DEF Promise!Clear, Promise!Respond, Promise!NoContent

LEMMA PromiseStep ==
  ASSUME IInv, IInv', [Next]_vars
  PROVE  [Promise!Next]_Promise!mapVars
<1> USE DEF Promise!Next
<1>1. CASE Call
  BY <1>1, CallAsks
<1>2. CASE Add
  <2>1. CASE AddFull
    BY <2>1, AddFullRefuses
  <2>2. CASE AddBegin
    <3>1. /\ ~ Carried /\ ~ Carried' /\ pc = "begin" /\ pc' = "add" /\ Held' = Held
          /\ UNCHANGED <<Buckets, request>>
      BY <2>2 DEF AddBegin, Carried, IInv, Local, Held, IsUsed
    <3>2. \A k, v : Owns(k, v)' <=> Owns(k, v)
      BY <3>1 DEF Owns
    <3>3. Decided' = Decided
      BY <2>2 DEF AddBegin, Decided, IInv, Local
    <3> QED BY <3>1, <3>2, <3>3, StepStutters
  <2>3. CASE AddInsert
    BY <2>3, AddInsertAdds, AddInsertStutters
  <2>4. CASE AddExists
    BY <2>4, AddExistsFinds
  <2>5. CASE AddSwap
    BY <2>5, AddSwapMaps
  <2>6. CASE AddNext
    BY <2>6, LookStutters DEF AddNext, Carried
  <2> QED BY <1>2, <2>1, <2>2, <2>3, <2>4, <2>5, <2>6 DEF Add
<1>3. CASE Get
  <2>1. CASE GetBegin
    BY <2>1, LookStutters DEF GetBegin, Carried
  <2>2. CASE GetNothing
    BY <2>2, GetNothingAnswers
  <2>3. CASE GetValue
    BY <2>3, GetValueAnswers
  <2>4. CASE GetNext
    BY <2>4, LookStutters DEF GetNext, Carried
  <2> QED BY <1>3, <2>1, <2>2, <2>3, <2>4 DEF Get
<1>4. CASE Remove
  <2>1. CASE RemoveBegin
    BY <2>1, LookStutters DEF RemoveBegin, Carried
  <2>2. CASE RemoveNothing
    BY <2>2, RemoveNothingAnswers
  <2>3. CASE RemoveNext
    BY <2>3, LookStutters DEF RemoveNext, Carried
  <2>4. CASE RemoveFound
    BY <2>4, RemoveFoundRemoves
  <2>5. CASE RemoveShift
    BY <2>5, RemoveShiftStutters
  <2>6. CASE RemoveLast
    BY <2>6, RemoveLastStutters
  <2> QED BY <1>4, <2>1, <2>2, <2>3, <2>4, <2>5, <2>6 DEF Remove
<1>5. CASE Clear
  BY <1>5, ClearClears
<1>6. CASE UNCHANGED vars
  <2>1. UNCHANGED <<hash, Buckets, Count, request, answer, pc, idx, probeLength, swapBucket, insertedIdx>>
    BY <1>6 DEF vars, locals
  <2>2. \A k, v : Owns(k, v)' <=> Owns(k, v)
    BY <2>1 DEF Owns, Held, IsUsed, Carried
  <2>3. Decided' = Decided
    BY <2>1 DEF Decided
  <2> QED BY <2>1, <2>2, <2>3, StepStutters
<1> QED BY <1>1, <1>2, <1>3, <1>4, <1>5, <1>6 DEF Next, Step

\* The table is a map: whatever the hash function, every Add, Replace, Get, Remove and
\* Clear answers what a map of at most MaxCount keys would, and changes the entry of
\* its key and no other.
THEOREM TableIsAMap == Spec => ImplementsMap
<1>1. IInv /\ [Next]_vars => IInv'
  BY StepKeeps
<1>2. IInv /\ IInv' /\ [Next]_vars => [Promise!Next]_Promise!mapVars
  BY PromiseStep
<1> QED BY <1>1, <1>2, InitHolds, PromiseInit, PTL
        DEF Spec, ImplementsMap, Promise!Spec
=============================================================================

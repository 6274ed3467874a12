------------------------- MODULE StringHashMapProofs -------------------------
(***************************************************************************)
(* The string hash map, for any number of keys, values and slots and every *)
(* hash function: it counts its entries exactly, growth always finds room, *)
(* and no call makes another key than its own disappear.                   *)
(*                                                                         *)
(* Add's loop and the re-adding of Resize are functions of the number of   *)
(* iterations.  LoopInv says what every iteration of Add keeps: which      *)
(* slots are used, what slots and the carried entry hold together, and     *)
(* that a key which was in one slot is nowhere else now.  The loop ends    *)
(* because a slot is free.  ReaddInv says the same of a growing table.     *)
(***************************************************************************)
EXTENDS StringHashMap, RingArithmetic, FiniteSetTheorems, TLAPS

-----------------------------------------------------------------------------
(* Walks around a table of c slots. *)

\* How many steps lead from slot h to slot i.
Dist(h, i, c) == IF i >= h THEN i - h ELSE i + c - h

LEMMA DistFacts ==
  ASSUME NEW c \in Nat \ {0}, NEW h \in 0 .. c - 1, NEW i \in 0 .. c - 1
  PROVE  /\ Dist(h, i, c) \in 0 .. c - 1
         /\ Dist(h, i, c) = 0 <=> i = h
         /\ \A j \in 0 .. c - 1 : Dist(h, i, c) = Dist(h, j, c) => i = j
  BY DEF Dist

LEMMA DistNat ==
  ASSUME NEW c \in Nat \ {0}, NEW h \in 0 .. c - 1
  PROVE  Dist(h, h, c) = 0 /\ \A i \in 0 .. c - 1 : Dist(h, i, c) \in Nat
  BY DEF Dist

\* A sum of less than two laps.
LEMMA OneLap ==
  ASSUME NEW c \in Nat \ {0}, NEW n \in 0 .. c + c - 1
  PROVE  n % c = IF n < c THEN n ELSE n - c
<1>1. CASE n < c
  <2>1. n \in 0 .. c - 1 /\ n \in Nat /\ 0 \in Nat /\ n = c * 0 + n
    BY <1>1
  <2>2. n % c = n
    BY ONLY <2>1, RemainderIs, c \in Nat \ {0}
  <2> QED BY <1>1, <2>2
<1>2. CASE ~ n < c
  <2>1. n - c \in 0 .. c - 1 /\ n \in Nat /\ 1 \in Nat /\ n = c * 1 + (n - c)
    BY <1>2
  <2>2. n % c = n - c
    BY ONLY <2>1, RemainderIs, c \in Nat \ {0}
  <2> QED BY <1>2, <2>2
<1> QED BY <1>1, <1>2

\* The slot n steps from h.
LEMMA StepsFrom ==
  ASSUME NEW c \in Nat \ {0}, NEW h \in 0 .. c - 1, NEW n \in 0 .. c - 1
  PROVE  (h + n) % c \in 0 .. c - 1 /\ Dist(h, (h + n) % c, c) = n
<1> DEFINE k == h + n
<1>1. k \in 0 .. c + c - 1 /\ k = h + n
  OBVIOUS
<1> HIDE DEF k
<1>2. k % c = IF k < c THEN k ELSE k - c
  BY <1>1, OneLap
<1>3. k % c \in 0 .. c - 1 /\ Dist(h, k % c, c) = n
  BY <1>1, <1>2 DEF Dist
<1> QED BY <1>3 DEF k

LEMMA AtDistance ==
  ASSUME NEW c \in Nat \ {0}, NEW h \in 0 .. c - 1, NEW i \in 0 .. c - 1
  PROVE  (h + Dist(h, i, c)) % c = i
<1> DEFINE n == Dist(h, i, c)
           j == (h + n) % c
<1>1. n \in 0 .. c - 1
  BY DistFacts
<1> HIDE DEF n
<1>2. j \in 0 .. c - 1 /\ Dist(h, j, c) = n
  BY <1>1, StepsFrom
<1> HIDE DEF j
<1>3. j = i
  BY <1>2, DistFacts DEF n
<1> QED BY <1>3 DEF j, n

\* One step further.
LEMMA NextDist ==
  ASSUME NEW c \in Nat \ {0}, NEW h \in 0 .. c - 1, NEW i \in 0 .. c - 1
  PROVE  /\ (i + 1) % c \in 0 .. c - 1
         /\ Dist(h, i, c) < c - 1 => Dist(h, (i + 1) % c, c) = Dist(h, i, c) + 1
<1> DEFINE k == i + 1
<1>1. k \in 0 .. c + c - 1 /\ k = i + 1
  OBVIOUS
<1> HIDE DEF k
<1>2. k % c = IF k < c THEN k ELSE k - c
  BY <1>1, OneLap
<1>3. /\ k % c \in 0 .. c - 1
      /\ Dist(h, i, c) < c - 1 => Dist(h, k % c, c) = Dist(h, i, c) + 1
  BY <1>1, <1>2 DEF Dist
<1> QED BY <1>3 DEF k

-----------------------------------------------------------------------------
(* The loop of Add. *)

Table(c) == [0 .. c - 1 -> Slot \union {Empty}]

LoopState(c) ==
  [slots : Table(c), idx : 0 .. c - 1, probeLength : 0 .. c - 1, swapBucket : Slot,
   insertedIdx : 0 .. c - 1 \union {Absent}]

\* A slot has key k, with value v.
HasKey(slots, k) == \E i \in DOMAIN slots : slots[i] # Empty /\ slots[i].String = k

Has(slots, k, v) ==
  \E i \in DOMAIN slots : slots[i] # Empty /\ slots[i].String = k /\ slots[i].Value = v

\* No key but those of X is in two slots.
Once(slots, X) ==
  \A i, j \in DOMAIN slots :
    slots[i] # Empty /\ slots[j] # Empty
      /\ slots[i].String = slots[j].String /\ slots[i].String \notin X => i = j

HasRoom(slots) == \E i \in DOMAIN slots : slots[i] = Empty

\* What every iteration keeps, for an Add of key and value to slots.
LoopInv(slots, key, value, X, c, s) ==
  LET h == Home(key, c) IN
  /\ \A i \in 0 .. c - 1 : s.slots[i] = Empty <=> slots[i] = Empty
  /\ \A i \in 0 .. c - 1 : Dist(h, i, c) < Dist(h, s.idx, c) => s.slots[i] # Empty
  /\ s.probeLength <= Dist(h, s.idx, c)
  /\ \A k \in Keys, v \in Values :
       Has(s.slots, k, v) \/ (s.swapBucket.String = k /\ s.swapBucket.Value = v)
         <=> Has(slots, k, v) \/ (key = k /\ value = v)
  /\ Once(s.slots, X)
  /\ s.swapBucket.String \notin X => ~ HasKey(s.slots, s.swapBucket.String)

LEMMA SlotFacts ==
  /\ MaxCapacity \in Nat /\ MaxCapacity > 1 /\ Empty \notin Slot
  /\ \A s \in Slot : /\ s # Empty /\ s.String \in Keys /\ s.Value \in Values
                     /\ s.ProbeLength \in 0 .. MaxCapacity - 1
<1>1. MaxCapacity \in Nat /\ MaxCapacity > 1
  BY MaxCapacityAssumption DEF PowersOfTwo
<1>2. Slot \subseteq [String : Keys, ProbeLength : Nat, Value : Values]
  BY <1>1 DEF Slot
<1> QED BY <1>1, <1>2, EmptyAssumption DEF Slot

LEMMA TableFacts ==
  ASSUME NEW c \in 1 .. MaxCapacity, NEW slots \in Table(c)
  PROVE  /\ c \in Nat \ {0} /\ DOMAIN slots = 0 .. c - 1 /\ Cardinality(DOMAIN slots) = c
         /\ \A i \in 0 .. c - 1 : slots[i] # Empty => slots[i] \in Slot
<1>1. c \in Nat \ {0} /\ DOMAIN slots = 0 .. c - 1
  BY SlotFacts DEF Table
<1>2. Cardinality(0 .. c - 1) = c
  BY <1>1, FS_Interval
<1> QED BY <1>1, <1>2 DEF Table

LEMMA HomeFacts ==
  ASSUME HashString \in Hashes, NEW key \in Keys, NEW c \in Nat \ {0}
  PROVE  Home(key, c) \in 0 .. c - 1
<1>1. HashString[key] \in Nat
  BY HashAssumption
<1> QED BY <1>1, DivMod DEF Home

\* One iteration.  A slot that is closer to its home changes places with the entry
\* that Add carries.
Carries(s, t) ==
  \/ /\ t.slots = s.slots /\ t.swapBucket = s.swapBucket
     /\ t.probeLength = s.probeLength + 1
  \/ LET slot == s.slots[s.idx] IN
     /\ s.probeLength > slot.ProbeLength
     /\ t.slots = [s.slots EXCEPT ![s.idx] = s.swapBucket]
     /\ t.swapBucket = [slot EXCEPT !.ProbeLength = s.probeLength]
     /\ t.probeLength = slot.ProbeLength + 1

LEMMA AddStepIs ==
  ASSUME NEW c \in 1 .. MaxCapacity, NEW s \in LoopState(c), s.slots[s.idx] # Empty
  PROVE  /\ AddStep(s).idx = (s.idx + 1) % c /\ Carries(s, AddStep(s))
         /\ AddStep(s).insertedIdx \in 0 .. c - 1 \union {Absent}
         /\ AddStep(s) = [slots |-> AddStep(s).slots, idx |-> AddStep(s).idx,
                          probeLength |-> AddStep(s).probeLength,
                          swapBucket |-> AddStep(s).swapBucket,
                          insertedIdx |-> AddStep(s).insertedIdx]
<1>1. s.slots \in Table(c) /\ s.idx \in 0 .. c - 1 /\ s.insertedIdx \in 0 .. c - 1 \union {Absent}
  BY DEF LoopState
<1>2. DOMAIN s.slots = 0 .. c - 1 /\ Cardinality(DOMAIN s.slots) = c /\ s.slots[s.idx] \in Slot
  BY <1>1, TableFacts
<1>3. s = [slots |-> s.slots, idx |-> s.idx, probeLength |-> s.probeLength,
           swapBucket |-> s.swapBucket, insertedIdx |-> s.insertedIdx]
  BY DEF LoopState
<1> DEFINE slot == s.slots[s.idx]
           u == [slots |-> [s.slots EXCEPT ![s.idx] = s.swapBucket], idx |-> s.idx,
                 probeLength |-> slot.ProbeLength,
                 swapBucket |-> [slot EXCEPT !.ProbeLength = s.probeLength],
                 insertedIdx |-> FirstPlace(s)]
<1>4. SwapBuckets(s) = u
  <2> DEFINE S == s.slots
             i == s.idx
             p == s.probeLength
             b == s.swapBucket
             f == FirstPlace(s)
             r == s.insertedIdx
  <2>1. s = [slots |-> S, idx |-> i, probeLength |-> p, swapBucket |-> b, insertedIdx |-> r]
    BY <1>3
  <2>2. SwapBuckets(s) =
          [s EXCEPT !.slots[i] = b, !.swapBucket = [S[i] EXCEPT !.ProbeLength = p],
                    !.probeLength = S[i].ProbeLength, !.insertedIdx = f]
    BY DEF SwapBuckets
  <2>3. u = [slots |-> [S EXCEPT ![i] = b], idx |-> i, probeLength |-> S[i].ProbeLength,
             swapBucket |-> [S[i] EXCEPT !.ProbeLength = p], insertedIdx |-> f]
    OBVIOUS
  <2> HIDE DEF S, i, p, b, f, r, u
  <2> QED BY <2>1, <2>2, <2>3
<1>5. FirstPlace(s) \in 0 .. c - 1 \union {Absent}
  BY <1>1 DEF FirstPlace
<1>6. CASE s.probeLength > slot.ProbeLength
  <2>1. AddStep(s) = [u EXCEPT !.probeLength = @ + 1, !.idx = (@ + 1) % c]
    BY <1>2, <1>4, <1>6 DEF AddStep
  <2>2. AddStep(s) = [slots |-> u.slots, idx |-> (s.idx + 1) % c,
                      probeLength |-> slot.ProbeLength + 1, swapBucket |-> u.swapBucket,
                      insertedIdx |-> FirstPlace(s)]
    BY <2>1
  <2> QED BY <1>5, <1>6, <2>2 DEF Carries
<1>7. CASE ~ s.probeLength > slot.ProbeLength
  <2>1. AddStep(s) = [s EXCEPT !.probeLength = @ + 1, !.idx = (@ + 1) % c]
    BY <1>2, <1>7 DEF AddStep
  <2>2. AddStep(s) = [slots |-> s.slots, idx |-> (s.idx + 1) % c,
                      probeLength |-> s.probeLength + 1, swapBucket |-> s.swapBucket,
                      insertedIdx |-> s.insertedIdx]
    BY <1>3, <2>1
  <2> QED BY <1>1, <2>2 DEF Carries
<1> QED BY <1>6, <1>7

\* An iteration that does not end the loop keeps what every iteration keeps.
LEMMA IterationKeeps ==
  ASSUME HashString \in Hashes, NEW c \in 1 .. MaxCapacity, NEW slots \in Table(c), HasRoom(slots),
         NEW key \in Keys, NEW value \in Values, NEW X,
         NEW s \in LoopState(c), LoopInv(slots, key, value, X, c, s), ~ AddEnds(s)
  PROVE  /\ AddStep(s) \in LoopState(c) /\ LoopInv(slots, key, value, X, c, AddStep(s))
         /\ Dist(Home(key, c), AddStep(s).idx, c) = Dist(Home(key, c), s.idx, c) + 1
<1> DEFINE t == AddStep(s)
           h == Home(key, c)
           i == s.idx
           slot == s.slots[i]
           d == Dist(h, i, c)
           b == s.swapBucket
<1>1. /\ c \in Nat \ {0} /\ DOMAIN slots = 0 .. c - 1 /\ h \in 0 .. c - 1 /\ i \in 0 .. c - 1
      /\ s.slots \in Table(c) /\ b \in Slot /\ s.probeLength \in 0 .. c - 1
      /\ DOMAIN s.slots = 0 .. c - 1 /\ c <= MaxCapacity /\ MaxCapacity \in Nat
  <2>1. s.slots \in Table(c) /\ i \in 0 .. c - 1 /\ b \in Slot /\ s.probeLength \in 0 .. c - 1
    BY DEF LoopState
  <2>2. c \in Nat \ {0} /\ DOMAIN slots = 0 .. c - 1 /\ DOMAIN s.slots = 0 .. c - 1
    BY <2>1, TableFacts
  <2>3. h \in 0 .. c - 1
    BY <2>2, HomeFacts
  <2> QED BY <2>1, <2>2, <2>3, SlotFacts
<1>2. slot # Empty /\ slot.String # b.String /\ slot \in Slot
  <2>1. slot # Empty /\ slot.String # b.String
    BY DEF AddEnds
  <2> QED BY <1>1, <2>1, TableFacts
<1>3. /\ t.idx = (i + 1) % c /\ Carries(s, t)
      /\ t.insertedIdx \in 0 .. c - 1 \union {Absent}
      /\ t = [slots |-> t.slots, idx |-> t.idx, probeLength |-> t.probeLength,
              swapBucket |-> t.swapBucket, insertedIdx |-> t.insertedIdx]
  BY <1>2, AddStepIs
<1> HIDE DEF t, h
<1>4. /\ \A j \in 0 .. c - 1 : s.slots[j] = Empty <=> slots[j] = Empty
      /\ \A j \in 0 .. c - 1 : Dist(h, j, c) < d => s.slots[j] # Empty
      /\ s.probeLength <= d
      /\ \A k \in Keys, v \in Values :
           Has(s.slots, k, v) \/ (b.String = k /\ b.Value = v) <=> Has(slots, k, v) \/ (key = k /\ value = v)
      /\ Once(s.slots, X)
      /\ b.String \notin X => ~ HasKey(s.slots, b.String)
  BY DEF LoopInv, h
<1>5. d < c - 1 /\ d \in Nat
  <2>1. PICK e \in 0 .. c - 1 : slots[e] = Empty
    BY <1>1 DEF HasRoom
  <2>2. s.slots[e] = Empty /\ ~ Dist(h, e, c) < d /\ e # i
    BY <1>2, <1>4, <2>1
  <2>3. d \in 0 .. c - 1 /\ Dist(h, e, c) \in 0 .. c - 1 /\ Dist(h, e, c) # d
    BY <1>1, <2>1, <2>2, DistFacts
  <2> HIDE DEF d
  <2> QED BY <1>1, <2>2, <2>3
<1>6. t.idx \in 0 .. c - 1 /\ Dist(h, t.idx, c) = d + 1
  BY <1>1, <1>3, <1>5, NextDist
<1> HIDE DEF d, slot
<1>7. \A j \in 0 .. c - 1 : Dist(h, j, c) < d + 1 => s.slots[j] # Empty
  <2>1. ASSUME NEW j \in 0 .. c - 1, Dist(h, j, c) < d + 1 PROVE s.slots[j] # Empty
    <3>1. Dist(h, j, c) \in Nat
      BY <1>1, DistNat
    <3>2. Dist(h, j, c) < d \/ Dist(h, j, c) = d
      BY <1>5, <2>1, <3>1
    <3>3. Dist(h, j, c) = d => j = i
      BY <1>1, DistFacts DEF d
    <3> QED BY <1>2, <1>4, <3>2, <3>3 DEF slot
  <2> QED BY <2>1
<1>8. CASE t.slots = s.slots /\ t.swapBucket = b /\ t.probeLength = s.probeLength + 1
  <2>1. t.probeLength \in 0 .. c - 1 /\ t.probeLength <= d + 1
    BY <1>1, <1>4, <1>5, <1>8
  <2>2. t \in LoopState(c)
    BY <1>1, <1>3, <1>6, <1>8, <2>1 DEF LoopState
  <2>3. LoopInv(slots, key, value, X, c, t)
    BY <1>4, <1>6, <1>7, <1>8, <2>1 DEF LoopInv, h
  <2> QED BY <1>6, <2>2, <2>3 DEF t, h, d
<1>9. CASE /\ s.probeLength > slot.ProbeLength
           /\ t.slots = [s.slots EXCEPT ![i] = b]
           /\ t.swapBucket = [slot EXCEPT !.ProbeLength = s.probeLength]
           /\ t.probeLength = slot.ProbeLength + 1
  <2> DEFINE carried == [slot EXCEPT !.ProbeLength = s.probeLength]
             new == [s.slots EXCEPT ![i] = b]
  <2>1. /\ carried \in Slot /\ carried.String = slot.String /\ carried.Value = slot.Value
        /\ slot.ProbeLength \in Nat
    <3>1. s.probeLength \in 0 .. MaxCapacity - 1
      BY <1>1
    <3> QED BY <1>2, <3>1 DEF Slot
  <2>2. new \in Table(c) /\ DOMAIN new = 0 .. c - 1 /\ new[i] = b
        /\ \A j \in 0 .. c - 1 : j # i => new[j] = s.slots[j]
    BY <1>1 DEF Table
  <2>3. b # Empty /\ b.String \in Keys /\ b.Value \in Values
    BY <1>1, SlotFacts
  <2> HIDE DEF carried, new
  <2>4. t.slots = new /\ t.swapBucket = carried /\ t.probeLength \in 0 .. c - 1 /\ t.probeLength <= d + 1
    BY <1>1, <1>4, <1>5, <1>9, <2>1 DEF new, carried
  <2>5. t \in LoopState(c)
    BY <1>3, <1>6, <2>1, <2>2, <2>4 DEF LoopState
  <2>6. \A j \in 0 .. c - 1 : new[j] = Empty <=> slots[j] = Empty
    BY <1>2, <1>4, <2>2, <2>3 DEF slot
  <2>7. \A j \in 0 .. c - 1 : Dist(h, j, c) < d + 1 => new[j] # Empty
    BY <1>7, <2>2, <2>3
  <2>8. ASSUME NEW k \in Keys, NEW v \in Values
        PROVE  Has(new, k, v) \/ (carried.String = k /\ carried.Value = v)
                 <=> Has(s.slots, k, v) \/ (b.String = k /\ b.Value = v)
    BY <1>1, <1>2, <2>1, <2>2, <2>3 DEF Has, slot
  <2>9. Once(new, X)
    <3> SUFFICES ASSUME NEW j \in 0 .. c - 1, NEW l \in 0 .. c - 1, new[j] # Empty, new[l] # Empty,
                        new[j].String = new[l].String, new[j].String \notin X
                 PROVE  j = l
      BY <2>2 DEF Once
    <3>1. CASE j # i /\ l # i
      <4>1. new[j] = s.slots[j] /\ new[l] = s.slots[l]
        BY <2>2, <3>1
      <4> QED BY <1>1, <1>4, <4>1 DEF Once
    <3>2. CASE j = i /\ l # i
      <4>1. s.slots[l] # Empty /\ s.slots[l].String = b.String /\ b.String \notin X
        BY <2>2, <3>2
      <4> QED BY <1>1, <1>4, <4>1 DEF HasKey
    <3>3. CASE l = i /\ j # i
      <4>1. s.slots[j] # Empty /\ s.slots[j].String = b.String /\ b.String \notin X
        BY <2>2, <3>3
      <4> QED BY <1>1, <1>4, <4>1 DEF HasKey
    <3> QED BY <3>1, <3>2, <3>3
  <2>10. ASSUME carried.String \notin X PROVE ~ HasKey(new, carried.String)
    <3> SUFFICES ASSUME NEW j \in 0 .. c - 1, new[j] # Empty, new[j].String = slot.String
                 PROVE  FALSE
      BY <2>1, <2>2 DEF HasKey
    <3>1. j # i
      BY <1>2, <2>2
    <3>2. s.slots[j] # Empty /\ s.slots[j].String = slot.String
      BY <2>2, <3>1
    <3> QED BY <1>1, <1>2, <1>4, <2>1, <2>10, <3>1, <3>2 DEF Once, slot
  <2>11. LoopInv(slots, key, value, X, c, t)
    BY <1>4, <1>6, <2>4, <2>6, <2>7, <2>8, <2>9, <2>10 DEF LoopInv, h
  <2> QED BY <1>6, <2>5, <2>11 DEF t, h, d
<1> QED BY <1>3, <1>8, <1>9 DEF Carries, slot

\* The loop starts with what every iteration keeps.
LEMMA LoopStarts ==
  ASSUME HashString \in Hashes, NEW c \in 1 .. MaxCapacity, NEW slots \in Table(c),
         NEW key \in Keys, NEW value \in Values, NEW X,
         Once(slots, X), key \notin X => ~ HasKey(slots, key)
  PROVE  /\ AddStart(slots, key, value) \in LoopState(c)
         /\ LoopInv(slots, key, value, X, c, AddStart(slots, key, value))
         /\ Dist(Home(key, c), AddStart(slots, key, value).idx, c) = 0
<1> DEFINE s == AddStart(slots, key, value)
           h == Home(key, c)
           b == [String |-> key, ProbeLength |-> 0, Value |-> value]
<1>1. c \in Nat \ {0} /\ Cardinality(DOMAIN slots) = c /\ h \in 0 .. c - 1
  BY TableFacts, HomeFacts
<1>2. /\ s.slots = slots /\ s.idx = h /\ s.probeLength = 0 /\ s.swapBucket = b
      /\ s = [slots |-> slots, idx |-> h, probeLength |-> 0, swapBucket |-> b,
              insertedIdx |-> Absent]
  BY <1>1 DEF AddStart
<1>3. b \in Slot /\ b.String = key /\ b.Value = value
  BY SlotFacts DEF Slot
<1>4. Dist(h, h, c) = 0 /\ \A i \in 0 .. c - 1 : Dist(h, i, c) \in Nat
  BY <1>1, DistNat
<1> HIDE DEF s, h, b
<1>5. s \in LoopState(c)
  BY <1>1, <1>2, <1>3 DEF LoopState
<1>6. LoopInv(slots, key, value, X, c, s)
  BY <1>2, <1>3, <1>4 DEF LoopInv, h
<1> QED BY <1>2, <1>4, <1>5, <1>6 DEF s, h

\* What AddIterations computes: iteration after iteration.
LEMMA IterationsAre ==
  ASSUME HashString \in Hashes, NEW c \in 1 .. MaxCapacity, NEW slots \in Table(c), HasRoom(slots),
         NEW key \in Keys, NEW value \in Values, NEW X,
         Once(slots, X), key \notin X => ~ HasKey(slots, key)
  PROVE  LET f == AddIterations(slots, key, value) IN
         f = [n \in 0 .. c |-> IF n = 0 THEN AddStart(slots, key, value)
                               ELSE IF AddEnds(f[n - 1]) THEN f[n - 1] ELSE AddStep(f[n - 1])]
<1> DEFINE start == AddStart(slots, key, value)
           Good == {s \in LoopState(c) : LoopInv(slots, key, value, X, c, s)}
           S == [n \in 0 .. c |-> Good]
           step == [n \in 1 .. c |-> [s \in Good |-> IF AddEnds(s) THEN s ELSE AddStep(s)]]
           Is(f) == f = [n \in 0 .. c |-> IF n = 0 THEN start
                           ELSE IF AddEnds(f[n - 1]) THEN f[n - 1] ELSE AddStep(f[n - 1])]
<1>1. c \in Nat /\ Cardinality(DOMAIN slots) = c
  BY TableFacts
<1>2. start \in Good
  BY LoopStarts
<1>3. \A s \in Good : (IF AddEnds(s) THEN s ELSE AddStep(s)) \in Good
  BY IterationKeeps
<1> HIDE DEF Good, start
<1>4. \A n \in 1 .. c : \A s \in S[n - 1] : step[n][s] \in S[n]
  <2>1. ASSUME NEW n \in 1 .. c PROVE n - 1 \in 0 .. c /\ n \in 0 .. c
    BY <1>1
  <2> QED BY <1>3, <2>1
<1>5. start \in S[0]
  BY <1>1, <1>2
<1>6. PICK g : Follows(g, c, start, step)
  <2> HIDE DEF S, step
  <2> QED BY <1>1, <1>4, <1>5, Recursion
<1>7. g = [n \in 0 .. c |-> IF n = 0 THEN start ELSE step[n][g[n - 1]]]
  BY <1>6 DEF Follows
<1>8. \A n \in 0 .. c : g[n] \in S[n]
  <2>1. g[0] \in S[0]
    BY <1>1, <1>5, <1>7
  <2>2. ASSUME NEW n \in 1 .. c, g[n - 1] \in S[n - 1] PROVE g[n] \in S[n]
    <3>1. g[n] = step[n][g[n - 1]]
      <4> HIDE DEF step
      <4> QED BY <1>1, <1>7
    <3> HIDE DEF S, step
    <3> QED BY <1>4, <2>2, <3>1
  <2> HIDE DEF S
  <2> QED BY <1>1, <2>1, <2>2, Along
<1>9. Is(g)
  <2>1. ASSUME NEW n \in 0 .. c, n # 0
        PROVE  step[n][g[n - 1]] = IF AddEnds(g[n - 1]) THEN g[n - 1] ELSE AddStep(g[n - 1])
    <3>1. n \in 1 .. c /\ n - 1 \in 0 .. c
      BY <1>1, <2>1
    <3>2. g[n - 1] \in Good
      BY <1>8, <3>1
    <3> QED BY <3>1, <3>2
  <2> HIDE DEF step
  <2> QED BY <1>7, <2>1
<1>10. AddIterations(slots, key, value) = CHOOSE f : Is(f)
  BY <1>1 DEF AddIterations, start
<1>11. Is(CHOOSE f : Is(f))
  <2> HIDE DEF Is
  <2> QED BY <1>9, Zenon
<1>12. Is(AddIterations(slots, key, value))
  <2> HIDE DEF Is
  <2> QED BY <1>10, <1>11
<1> QED BY <1>12 DEF start

\* The loop ends, because a slot is free.
LEMMA LoopEnds ==
  ASSUME HashString \in Hashes, NEW c \in 1 .. MaxCapacity, NEW slots \in Table(c), HasRoom(slots),
         NEW key \in Keys, NEW value \in Values, NEW X,
         Once(slots, X), key \notin X => ~ HasKey(slots, key)
  PROVE  LET s == AddLoop(slots, key, value) IN
         s \in LoopState(c) /\ LoopInv(slots, key, value, X, c, s) /\ AddEnds(s)
<1> DEFINE start == AddStart(slots, key, value)
           h == Home(key, c)
           States == {s \in LoopState(c) : LoopInv(slots, key, value, X, c, s)}
           S == [n \in 0 .. c |-> {s \in States : AddEnds(s) \/ Dist(h, s.idx, c) = n}]
           f == AddIterations(slots, key, value)
<1>1. c \in Nat /\ c \in Nat \ {0} /\ Cardinality(DOMAIN slots) = c /\ h \in 0 .. c - 1
  BY TableFacts, HomeFacts
<1>2. f = [n \in 0 .. c |-> IF n = 0 THEN start
                            ELSE IF AddEnds(f[n - 1]) THEN f[n - 1] ELSE AddStep(f[n - 1])]
  BY IterationsAre
<1>3. start \in States /\ Dist(h, start.idx, c) = 0
  BY LoopStarts
<1>4. ASSUME NEW s \in States, ~ AddEnds(s)
      PROVE  AddStep(s) \in States /\ Dist(h, AddStep(s).idx, c) = Dist(h, s.idx, c) + 1
  BY <1>4, IterationKeeps
<1>5. \A s \in States : Dist(h, s.idx, c) \in 0 .. c - 1
  <2>1. \A s \in States : s.idx \in 0 .. c - 1
    BY DEF LoopState
  <2> HIDE DEF h
  <2> QED BY <1>1, <2>1, DistFacts
<1> HIDE DEF States, start, f, h
<1>6. f[0] \in S[0]
  <2>1. f[0] = start /\ 0 \in 0 .. c
    BY <1>1, <1>2
  <2> QED BY <1>3, <2>1
<1>7. ASSUME NEW n \in 1 .. c, f[n - 1] \in S[n - 1] PROVE f[n] \in S[n]
  <2>1. n \in 0 .. c /\ n # 0 /\ n - 1 \in 0 .. c /\ n - 1 + 1 = n
    BY <1>1
  <2>2. f[n] = IF AddEnds(f[n - 1]) THEN f[n - 1] ELSE AddStep(f[n - 1])
    BY <1>2, <2>1
  <2>3. f[n - 1] \in States /\ (AddEnds(f[n - 1]) \/ Dist(h, f[n - 1].idx, c) = n - 1)
    BY <1>7, <2>1
  <2>4. f[n] \in States /\ (AddEnds(f[n]) \/ Dist(h, f[n].idx, c) = n)
    BY <1>4, <2>1, <2>2, <2>3
  <2> QED BY <2>1, <2>4
<1>8. f[c] \in S[c]
  <2> HIDE DEF S
  <2>1. \A n \in 0 .. c : f[n] \in S[n]
    BY <1>1, <1>6, <1>7, Along
  <2> QED BY <1>1, <2>1
<1>9. c \in 0 .. c /\ f[c] \in States /\ (AddEnds(f[c]) \/ Dist(h, f[c].idx, c) = c)
  BY <1>1, <1>8
<1>10. AddEnds(f[c])
  <2>1. Dist(h, f[c].idx, c) \in 0 .. c - 1
    BY <1>5, <1>9
  <2> QED BY <1>1, <1>9, <2>1
<1>11. AddLoop(slots, key, value) = f[c]
  BY <1>1 DEF AddLoop, f
<1> QED BY <1>9, <1>10, <1>11 DEF States

-----------------------------------------------------------------------------
(* What Add does to a table. *)

\* r is what an Add of key and value makes of slots.  If it meets its end at a used
\* slot, that slot has a key of X.
Adds(slots, key, value, X, c, r) ==
  /\ r.slots \in Table(c)
  /\ \/ /\ r.DoesExist = FALSE
        /\ \E j \in 0 .. c - 1 :
             slots[j] = Empty /\ UsedSlots(r.slots) = UsedSlots(slots) \union {j}
     \/ /\ r.DoesExist = TRUE /\ r.Index \in 0 .. c - 1 /\ r.slots[r.Index] # Empty
        /\ r.slots[r.Index].String \in X /\ UsedSlots(r.slots) = UsedSlots(slots)
  /\ \A k \in Keys : HasKey(r.slots, k) <=> HasKey(slots, k) \/ k = key
  /\ \A k \in Keys \ X, v \in Values :
       Has(r.slots, k, v) <=> Has(slots, k, v) \/ (k = key /\ v = value)
  /\ Once(r.slots, X)

\* A key that is there has a value.
LEMMA KeysHaveValues ==
  ASSUME NEW c \in 1 .. MaxCapacity, NEW slots \in Table(c), NEW k \in Keys
  PROVE  HasKey(slots, k) <=> \E v \in Values : Has(slots, k, v)
<1>1. \A i \in DOMAIN slots : slots[i] # Empty => slots[i].Value \in Values
  BY TableFacts, SlotFacts
<1> QED BY <1>1 DEF HasKey, Has

LEMMA AddToAdds ==
  ASSUME HashString \in Hashes, NEW c \in 1 .. MaxCapacity, NEW slots \in Table(c), HasRoom(slots),
         NEW key \in Keys, NEW value \in Values, NEW X,
         Once(slots, X), key \notin X => ~ HasKey(slots, key)
  PROVE  Adds(slots, key, value, X, c, AddTo(slots, key, value))
<1> DEFINE s == AddLoop(slots, key, value)
           i == s.idx
           b == s.swapBucket
           r == AddTo(slots, key, value)
<1>1. s \in LoopState(c) /\ LoopInv(slots, key, value, X, c, s) /\ AddEnds(s)
  BY LoopEnds
<1>2. r = IF s.slots[i] = Empty
            THEN [slots |-> [s.slots EXCEPT ![i] = [b EXCEPT !.ProbeLength = s.probeLength]],
                  DoesExist |-> FALSE, Index |-> FirstPlace(s)]
            ELSE [slots |-> s.slots, DoesExist |-> TRUE, Index |-> i]
  BY DEF AddTo
<1> HIDE DEF s, r
<1>3. /\ s.slots \in Table(c) /\ i \in 0 .. c - 1 /\ b \in Slot /\ s.probeLength \in 0 .. c - 1
      /\ DOMAIN s.slots = 0 .. c - 1 /\ DOMAIN slots = 0 .. c - 1 /\ c \in Nat \ {0}
  <2>1. s.slots \in Table(c) /\ i \in 0 .. c - 1 /\ b \in Slot /\ s.probeLength \in 0 .. c - 1
    BY <1>1 DEF LoopState
  <2> QED BY <2>1, TableFacts
<1>4. /\ \A j \in 0 .. c - 1 : s.slots[j] = Empty <=> slots[j] = Empty
      /\ \A k \in Keys, v \in Values :
           Has(s.slots, k, v) \/ (b.String = k /\ b.Value = v) <=> Has(slots, k, v) \/ (key = k /\ value = v)
      /\ Once(s.slots, X)
      /\ b.String \notin X => ~ HasKey(s.slots, b.String)
  BY <1>1 DEF LoopInv
<1>5. b # Empty /\ b.String \in Keys /\ b.Value \in Values
  BY <1>3, SlotFacts
<1>6. \A k \in Keys : HasKey(slots, k) \/ k = key <=> HasKey(s.slots, k) \/ k = b.String
  <2>1. ASSUME NEW k \in Keys
        PROVE  HasKey(slots, k) \/ k = key <=> HasKey(s.slots, k) \/ k = b.String
    <3>1. HasKey(slots, k) <=> \E v \in Values : Has(slots, k, v)
      BY KeysHaveValues
    <3>2. HasKey(s.slots, k) <=> \E v \in Values : Has(s.slots, k, v)
      BY <1>3, KeysHaveValues
    <3> QED BY <1>4, <1>5, <3>1, <3>2
  <2> QED BY <2>1
<1>7. CASE s.slots[i] = Empty
  <2> DEFINE put == [b EXCEPT !.ProbeLength = s.probeLength]
             new == [s.slots EXCEPT ![i] = put]
  <2>1. put \in Slot /\ put.String = b.String /\ put.Value = b.Value
    <3>1. s.probeLength \in 0 .. MaxCapacity - 1
      BY <1>3, SlotFacts
    <3> QED BY <1>3, <3>1 DEF Slot
  <2>2. put # Empty
    BY <2>1, SlotFacts
  <2>3. r.slots = new /\ r.DoesExist = FALSE
    BY <1>2, <1>7
  <2>4. new \in Table(c) /\ DOMAIN new = 0 .. c - 1 /\ new[i] = put
        /\ \A j \in 0 .. c - 1 : j # i => new[j] = s.slots[j]
    BY <1>3, <2>1 DEF Table
  <2> HIDE DEF put, new
  <2>5. slots[i] = Empty /\ UsedSlots(new) = UsedSlots(slots) \union {i}
    BY <1>3, <1>4, <1>7, <2>2, <2>4 DEF UsedSlots
  <2>6. \A k \in Keys, v \in Values :
          Has(new, k, v) <=> Has(s.slots, k, v) \/ (b.String = k /\ b.Value = v)
    BY <1>3, <1>7, <2>1, <2>2, <2>4 DEF Has
  <2>7. \A k \in Keys : HasKey(new, k) <=> HasKey(s.slots, k) \/ k = b.String
    BY <1>3, <1>7, <2>1, <2>2, <2>4 DEF HasKey
  <2>8. Once(new, X)
    <3> SUFFICES ASSUME NEW j \in 0 .. c - 1, NEW l \in 0 .. c - 1, new[j] # Empty, new[l] # Empty,
                        new[j].String = new[l].String, new[j].String \notin X
                 PROVE  j = l
      BY <2>4 DEF Once
    <3>1. CASE j # i /\ l # i
      <4>1. new[j] = s.slots[j] /\ new[l] = s.slots[l]
        BY <2>4, <3>1
      <4> QED BY <1>3, <1>4, <4>1 DEF Once
    <3>2. CASE j = i /\ l # i
      <4>1. s.slots[l] # Empty /\ s.slots[l].String = b.String /\ b.String \notin X
        BY <2>1, <2>4, <3>2
      <4> QED BY <1>3, <1>4, <4>1 DEF HasKey
    <3>3. CASE l = i /\ j # i
      <4>1. s.slots[j] # Empty /\ s.slots[j].String = b.String /\ b.String \notin X
        BY <2>1, <2>4, <3>3
      <4> QED BY <1>3, <1>4, <4>1 DEF HasKey
    <3> QED BY <3>1, <3>2, <3>3
  <2>9. \A k \in Keys : HasKey(r.slots, k) <=> HasKey(slots, k) \/ k = key
    BY <1>6, <2>3, <2>7
  <2>10. \A k \in Keys, v \in Values :
           Has(r.slots, k, v) <=> Has(slots, k, v) \/ (k = key /\ v = value)
    BY <1>4, <2>3, <2>6
  <2> QED BY <1>3, <2>3, <2>4, <2>5, <2>8, <2>9, <2>10 DEF Adds, r
<1>8. CASE s.slots[i] # Empty
  <2>1. r.slots = s.slots /\ r.DoesExist = TRUE /\ r.Index = i
    BY <1>2, <1>8
  <2>2. s.slots[i].String = b.String
    BY <1>1, <1>8 DEF AddEnds
  <2>3. HasKey(s.slots, b.String)
    BY <1>3, <1>8, <2>2 DEF HasKey
  <2>4. b.String \in X
    BY <1>4, <2>3
  <2>5. UsedSlots(s.slots) = UsedSlots(slots)
    BY <1>3, <1>4 DEF UsedSlots
  <2>6. \A k \in Keys : HasKey(r.slots, k) <=> HasKey(slots, k) \/ k = key
    BY <1>6, <2>1, <2>3
  <2>7. \A k \in Keys \ X, v \in Values :
          Has(r.slots, k, v) <=> Has(slots, k, v) \/ (k = key /\ v = value)
    BY <1>4, <2>1, <2>4
  <2> QED BY <1>3, <1>4, <1>8, <2>1, <2>2, <2>4, <2>5, <2>6, <2>7 DEF Adds, r
<1> QED BY <1>7, <1>8

\* The slots in use, and that a table with fewer than c of them has room.
LEMMA RoomLeft ==
  ASSUME NEW c \in 1 .. MaxCapacity, NEW slots \in Table(c)
  PROVE  /\ IsFiniteSet(UsedSlots(slots)) /\ Cardinality(UsedSlots(slots)) \in 0 .. c
         /\ Cardinality(UsedSlots(slots)) < c => HasRoom(slots)
<1>1. c \in Nat \ {0} /\ DOMAIN slots = 0 .. c - 1 /\ Cardinality(0 .. c - 1) = c
  BY TableFacts
<1>2. IsFiniteSet(0 .. c - 1)
  BY <1>1, FS_Interval
<1>3. UsedSlots(slots) \in SUBSET (0 .. c - 1)
  BY <1>1 DEF UsedSlots
<1>4. IsFiniteSet(UsedSlots(slots)) /\ Cardinality(UsedSlots(slots)) <= c
  BY <1>1, <1>2, <1>3, FS_Subset
<1>5. Cardinality(UsedSlots(slots)) \in Nat
  BY <1>4, FS_CardinalityType
<1>6. ASSUME ~ HasRoom(slots) PROVE UsedSlots(slots) = 0 .. c - 1
  BY <1>1, <1>6 DEF HasRoom, UsedSlots
<1> QED BY <1>1, <1>4, <1>5, <1>6


-----------------------------------------------------------------------------
(* Growing a table. *)

\* A table is never filled, and one that doubles has room for one entry more.
LEMMA MaxCountFacts ==
  ASSUME NEW c \in Nat
  PROVE  /\ MaxCount(c) \in Nat /\ MaxCount(c) <= c
         /\ c > 0 => MaxCount(c) < c
         /\ \A e \in Nat : e >= c => MaxCount(c) <= MaxCount(e)
         /\ \A e \in Nat : e >= 2 * c /\ e > 1 => MaxCount(c) + 1 <= MaxCount(e)
<1> DEFINE q == MaxCount(c)
<1>1. q \in Nat /\ 100 * q <= 85 * c /\ 85 * c < 100 * q + 100
  BY DEF MaxCount
<1>2. ASSUME NEW e \in Nat
      PROVE  /\ MaxCount(e) \in Nat
             /\ 100 * MaxCount(e) <= 85 * e /\ 85 * e < 100 * MaxCount(e) + 100
  BY DEF MaxCount
<1> HIDE DEF q
<1>3. q <= c /\ (c > 0 => q < c)
  BY <1>1
<1>4. ASSUME NEW e \in Nat, e >= c PROVE q <= MaxCount(e)
  BY <1>1, <1>2, <1>4
<1>5. ASSUME NEW e \in Nat, e >= 2 * c, e > 1 PROVE q + 1 <= MaxCount(e)
  <2> DEFINE p == MaxCount(e)
  <2>1. p \in Nat /\ 85 * e < 100 * p + 100
    BY <1>2
  <2> HIDE DEF p
  <2>2. c < 2 => q + 1 <= p
    BY <1>1, <1>5, <2>1
  <2>3. c >= 2 => q >= 1
    BY <1>1
  <2>4. 100 * p + 100 > 200 * q
    BY <1>1, <1>5, <2>1
  <2>5. q >= 1 => q + 1 <= p
    BY <1>1, <2>1, <2>4
  <2>6. q + 1 <= p
    BY <2>2, <2>3, <2>5
  <2> QED BY <2>6 DEF p
<1> QED BY <1>1, <1>3, <1>4, <1>5 DEF q

LEMMA MinIs ==
  ASSUME NEW S \in SUBSET Nat, S # {}
  PROVE  Min(S) \in S /\ \A n \in S : Min(S) <= n
<1>1. PICK m \in S : \A n \in S : ~ n < m
  BY LeastNat
<1>2. \A n \in S : m <= n
  BY <1>1
<1> QED BY <1>1, <1>2 DEF Min

\* CeilPowTwo has a result.
LEMMA CeilPowTwoFacts ==
  ASSUME NEW n \in 0 .. MaxCapacity
  PROVE  CeilPowTwo(n) \in 2 .. MaxCapacity /\ CeilPowTwo(n) >= n
<1> DEFINE P == {c \in PowersOfTwo : c >= n}
<1>1. P \subseteq 2 .. MaxCapacity /\ MaxCapacity \in P /\ MaxCapacity \in Nat
  BY MaxCapacityAssumption DEF PowersOfTwo
<1>2. P \in SUBSET Nat /\ P # {} /\ \A c \in P : c >= n
  BY <1>1
<1>3. CeilPowTwo(n) = Min(P)
  BY DEF CeilPowTwo
<1> HIDE DEF P
<1> QED BY <1>1, <1>2, <1>3, MinIs

\* The first n slots of the table.
Front(n) == [i \in 0 .. n - 1 |-> Buckets[i]]

\* A table of c slots that counts its entries.
CountedTable(c) ==
  {t \in [slots : Table(c), Count : Nat] : t.Count = Cardinality(UsedSlots(t.slots))}

\* What re-adding the first n slots makes of a table of c slots.
ReaddInv(X, c, n, t) ==
  /\ t.slots \in Table(c) /\ t.Count \in Nat
  /\ t.Count = Cardinality(UsedSlots(t.slots))
  /\ Cardinality(UsedSlots(t.slots)) <= Cardinality(UsedSlots(Front(n)))
  /\ \A k \in Keys : HasKey(t.slots, k) <=> HasKey(Front(n), k)
  /\ \A k \in Keys \ X, v \in Values : Has(t.slots, k, v) <=> Has(Front(n), k, v)
  /\ Once(t.slots, X)

LEMMA FrontCount ==
  ASSUME NEW n \in Nat
  PROVE  IsFiniteSet(0 .. n - 1) /\ Cardinality(0 .. n - 1) = n
  BY FS_Interval

\* A slot more.
LEMMA NextFront ==
  ASSUME NEW C \in Nat, Buckets \in Table(C), NEW n \in 1 .. C
  PROVE  LET slot == Buckets[n - 1] IN
         /\ IsFiniteSet(UsedSlots(Front(n - 1))) /\ Cardinality(UsedSlots(Front(n - 1))) \in 0 .. n - 1
         /\ slot = Empty =>
              /\ UsedSlots(Front(n)) = UsedSlots(Front(n - 1))
              /\ \A k : HasKey(Front(n), k) <=> HasKey(Front(n - 1), k)
              /\ \A k, v : Has(Front(n), k, v) <=> Has(Front(n - 1), k, v)
         /\ slot # Empty =>
              /\ slot \in Slot
              /\ Cardinality(UsedSlots(Front(n))) = Cardinality(UsedSlots(Front(n - 1))) + 1
              /\ \A k : HasKey(Front(n), k) <=> HasKey(Front(n - 1), k) \/ k = slot.String
              /\ \A k, v : Has(Front(n), k, v)
                             <=> Has(Front(n - 1), k, v) \/ (k = slot.String /\ v = slot.Value)
<1> DEFINE slot == Buckets[n - 1]
           m == n - 1
           old == Front(m)
           new == Front(n)
<1>1. m \in Nat /\ m + 1 = n /\ n - 1 = m /\ slot = Buckets[m]
  OBVIOUS
<1>2. /\ DOMAIN old = 0 .. m - 1 /\ DOMAIN new = 0 .. m
      /\ \A i \in 0 .. m - 1 : old[i] = Buckets[i]
      /\ \A i \in 0 .. m : new[i] = Buckets[i]
  BY DEF Front
<1>3. 0 .. m = 0 .. m - 1 \union {m} /\ m \notin 0 .. m - 1
  BY <1>1
<1>4. slot \in Slot \union {Empty}
  BY DEF Table
<1> HIDE DEF m, old, new, slot
<1>5. \A i \in 0 .. m - 1 : i \in DOMAIN new /\ new[i] = old[i]
  BY <1>2, <1>3
<1>6. m \in DOMAIN new /\ new[m] = slot
  BY <1>1, <1>2, <1>3
<1>7. IsFiniteSet(UsedSlots(old)) /\ Cardinality(UsedSlots(old)) \in 0 .. m
  <2>1. IsFiniteSet(0 .. m - 1) /\ Cardinality(0 .. m - 1) = m
    BY <1>1, FrontCount
  <2>2. UsedSlots(old) \in SUBSET (0 .. m - 1)
    BY <1>2 DEF UsedSlots
  <2>3. IsFiniteSet(UsedSlots(old)) /\ Cardinality(UsedSlots(old)) <= m
    <3> DEFINE front == 0 .. m - 1
    <3> HIDE DEF front
    <3>1. \A T \in SUBSET front : IsFiniteSet(T) /\ Cardinality(T) <= Cardinality(front)
      BY <2>1, FS_Subset DEF front
    <3> QED BY <2>1, <2>2, <3>1 DEF front
  <2>4. Cardinality(UsedSlots(old)) \in Nat
    BY <2>3, FS_CardinalityType
  <2> QED BY <1>1, <2>3, <2>4
<1>8. ASSUME slot = Empty
      PROVE  /\ UsedSlots(new) = UsedSlots(old)
             /\ \A k : HasKey(new, k) <=> HasKey(old, k)
             /\ \A k, v : Has(new, k, v) <=> Has(old, k, v)
  <2>1. UsedSlots(new) = UsedSlots(old)
    BY <1>2, <1>3, <1>5, <1>6, <1>8 DEF UsedSlots
  <2>2. \A k : HasKey(new, k) <=> HasKey(old, k)
    BY <1>2, <1>3, <1>5, <1>6, <1>8 DEF HasKey
  <2>3. \A k, v : Has(new, k, v) <=> Has(old, k, v)
    BY <1>2, <1>3, <1>5, <1>6, <1>8 DEF Has
  <2> QED BY <2>1, <2>2, <2>3
<1>9. ASSUME slot # Empty
      PROVE  /\ slot \in Slot
             /\ Cardinality(UsedSlots(new)) = Cardinality(UsedSlots(old)) + 1
             /\ \A k : HasKey(new, k) <=> HasKey(old, k) \/ k = slot.String
             /\ \A k, v : Has(new, k, v) <=> Has(old, k, v) \/ (k = slot.String /\ v = slot.Value)
  <2>1. UsedSlots(new) = UsedSlots(old) \union {m} /\ m \notin UsedSlots(old)
    BY <1>2, <1>3, <1>5, <1>6, <1>9 DEF UsedSlots
  <2>2. Cardinality(UsedSlots(new)) = Cardinality(UsedSlots(old)) + 1
    BY <1>7, <2>1, FS_AddElement
  <2>3. \A k : HasKey(new, k) <=> HasKey(old, k) \/ k = slot.String
    BY <1>2, <1>3, <1>5, <1>6, <1>9 DEF HasKey
  <2>4. \A k, v : Has(new, k, v) <=> Has(old, k, v) \/ (k = slot.String /\ v = slot.Value)
    BY <1>2, <1>3, <1>5, <1>6, <1>9 DEF Has
  <2> QED BY <1>4, <1>9, <2>2, <2>3, <2>4
<1> QED BY <1>1, <1>7, <1>8, <1>9 DEF old, new, slot

\* Re-adding one more slot.
LEMMA ReaddKeeps ==
  ASSUME HashString \in Hashes, NEW C \in Nat, Buckets \in Table(C), NEW n \in 1 .. C,
         NEW c \in 1 .. MaxCapacity, C < c, NEW X, Once(Buckets, X),
         NEW table, ReaddInv(X, c, n - 1, table)
  PROVE  ReaddInv(X, c, n, Readd(table, Buckets[n - 1]))
<1> DEFINE slot == Buckets[n - 1]
           old == Front(n - 1)
           new == Front(n)
           t == table.slots
           r == AddTo(t, slot.String, slot.Value)
<1>1. /\ IsFiniteSet(UsedSlots(old)) /\ Cardinality(UsedSlots(old)) \in 0 .. n - 1
      /\ slot = Empty =>
           /\ UsedSlots(new) = UsedSlots(old)
           /\ \A k : HasKey(new, k) <=> HasKey(old, k)
           /\ \A k, v : Has(new, k, v) <=> Has(old, k, v)
      /\ slot # Empty =>
           /\ slot \in Slot
           /\ Cardinality(UsedSlots(new)) = Cardinality(UsedSlots(old)) + 1
           /\ \A k : HasKey(new, k) <=> HasKey(old, k) \/ k = slot.String
           /\ \A k, v : Has(new, k, v) <=> Has(old, k, v) \/ (k = slot.String /\ v = slot.Value)
  BY NextFront
<1>2. /\ t \in Table(c)
      /\ Cardinality(UsedSlots(t)) <= Cardinality(UsedSlots(old))
      /\ \A k \in Keys : HasKey(t, k) <=> HasKey(old, k)
      /\ \A k \in Keys \ X, v \in Values : Has(t, k, v) <=> Has(old, k, v)
      /\ Once(t, X)
      /\ table.Count = Cardinality(UsedSlots(t)) /\ table.Count \in Nat
  BY DEF ReaddInv
<1>3. ASSUME slot # Empty, slot.String \notin X PROVE ~ HasKey(old, slot.String)
  <2> SUFFICES ASSUME NEW i \in DOMAIN old, old[i] # Empty, old[i].String = slot.String
               PROVE  FALSE
    BY DEF HasKey
  <2>1. i \in 0 .. n - 1 - 1 /\ old[i] = Buckets[i] /\ DOMAIN Buckets = 0 .. C - 1
    BY DEF Front, Table
  <2>2. i \in DOMAIN Buckets /\ n - 1 \in DOMAIN Buckets /\ i # n - 1
    BY <2>1
  <2> QED BY <1>3, <2>1, <2>2 DEF Once
<1>4. CASE slot = Empty
  <2>1. Readd(table, slot) = table
    BY <1>4 DEF Readd
  <2> HIDE DEF old, new
  <2> QED BY <1>1, <1>2, <1>4, <2>1 DEF ReaddInv, old, new
<1>5. CASE slot # Empty
  <2>1. Readd(table, slot) = [slots |-> r.slots, Count |-> Counted(table.Count, r)]
    BY <1>5 DEF Readd
  <2>2. slot.String \in Keys /\ slot.Value \in Values
    BY <1>1, <1>5, SlotFacts
  <2> HIDE DEF old, new, r, slot, t
  <2>3. IsFiniteSet(UsedSlots(t)) /\ Cardinality(UsedSlots(t)) \in Nat
        /\ (Cardinality(UsedSlots(t)) < c => HasRoom(t))
    BY <1>2, RoomLeft
  <2>4. HasRoom(t)
    BY <1>1, <1>2, <2>3
  <2>5. slot.String \notin X => ~ HasKey(t, slot.String)
    BY <1>2, <1>3, <1>5, <2>2
  <2>6. Adds(t, slot.String, slot.Value, X, c, r)
    BY <1>2, <2>2, <2>4, <2>5, AddToAdds DEF r
  <2>7. /\ Cardinality(UsedSlots(r.slots)) <= Cardinality(UsedSlots(new))
        /\ Cardinality(UsedSlots(r.slots)) = Counted(table.Count, r)
        /\ Counted(table.Count, r) \in Nat
    <3>1. CASE /\ r.DoesExist = FALSE
               /\ \E j : t[j] = Empty /\ UsedSlots(r.slots) = UsedSlots(t) \union {j}
      <4>1. PICK j : t[j] = Empty /\ UsedSlots(r.slots) = UsedSlots(t) \union {j}
        BY <3>1
      <4>2. Cardinality(UsedSlots(r.slots)) = Cardinality(UsedSlots(t)) + 1
        <5>1. j \notin UsedSlots(t)
          BY <4>1 DEF UsedSlots
        <5> QED BY <2>3, <4>1, <5>1, FS_AddElement
      <4>3. Counted(table.Count, r) = table.Count + 1
        BY <3>1 DEF Counted
      <4> QED BY <1>1, <1>2, <1>5, <2>3, <4>2, <4>3
    <3>2. CASE r.DoesExist = TRUE /\ UsedSlots(r.slots) = UsedSlots(t)
      <4>1. Counted(table.Count, r) = table.Count
        BY <3>2 DEF Counted
      <4> QED BY <1>1, <1>2, <1>5, <2>3, <3>2, <4>1
    <3> QED BY <2>6, <3>1, <3>2 DEF Adds
  <2>8. /\ r.slots \in Table(c) /\ Once(r.slots, X)
        /\ \A k \in Keys : HasKey(r.slots, k) <=> HasKey(t, k) \/ k = slot.String
        /\ \A k \in Keys \ X, v \in Values :
             Has(r.slots, k, v) <=> Has(t, k, v) \/ (k = slot.String /\ v = slot.Value)
    BY <2>6 DEF Adds
  <2>9. \A k \in Keys : HasKey(r.slots, k) <=> HasKey(new, k)
    BY <1>1, <1>2, <1>5, <2>8
  <2>10. \A k \in Keys \ X, v \in Values : Has(r.slots, k, v) <=> Has(new, k, v)
    BY <1>1, <1>2, <1>5, <2>8
  <2>11. PICK u : u = Readd(table, slot) /\ u.slots = r.slots /\ u.Count = Counted(table.Count, r)
    BY <2>1
  <2>12. ReaddInv(X, c, n, u)
    BY <2>7, <2>8, <2>9, <2>10, <2>11 DEF ReaddInv, new
  <2> QED BY <2>11, <2>12 DEF slot
<1> QED BY <1>4, <1>5

\* What Rehashed computes: the table with all its entries re-added.
LEMMA RehashedKeeps ==
  ASSUME HashString \in Hashes, Capacity \in Nat, Buckets \in Table(Capacity),
         NEW c \in 1 .. MaxCapacity, Capacity < c, NEW X, Once(Buckets, X)
  PROVE  LET t == Rehashed(c).slots IN
         /\ Rehashed(c).Count = Cardinality(UsedSlots(t))
         /\ t \in Table(c) /\ Once(t, X)
         /\ Cardinality(UsedSlots(t)) <= Cardinality(UsedSlots(Buckets))
         /\ \A k \in Keys : HasKey(t, k) <=> HasKey(Buckets, k)
         /\ \A k \in Keys \ X, v \in Values : Has(t, k, v) <=> Has(Buckets, k, v)
<1> DEFINE C == Capacity
           start == [slots |-> Unused(c), Count |-> 0]
           S == [n \in 0 .. C |-> {t \in CountedTable(c) : ReaddInv(X, c, n, t)}]
           step == [n \in 1 .. C |-> [t \in S[n - 1] |-> Readd(t, Buckets[n - 1])]]
           Is(f) == f = [n \in 0 .. C |-> IF n = 0 THEN start ELSE Readd(f[n - 1], Buckets[n - 1])]
<1>1. C \in Nat /\ c \in Nat
  OBVIOUS
<1>2. start \in CountedTable(c) /\ ReaddInv(X, c, 0, start)
  <2> DEFINE none == Unused(c)
  <2>1. none \in Table(c) /\ DOMAIN none = 0 .. c - 1 /\ \A i \in 0 .. c - 1 : none[i] = Empty
    BY DEF Unused, Table
  <2>2. DOMAIN Front(0) = {}
    BY DEF Front
  <2>3. start.slots = none /\ start.Count = 0
    OBVIOUS
  <2> HIDE DEF none
  <2>4. UsedSlots(none) = {} /\ UsedSlots(Front(0)) = {}
    BY <2>1, <2>2 DEF UsedSlots
  <2>5. Cardinality(UsedSlots(none)) = 0 /\ Cardinality(UsedSlots(Front(0))) = 0
    BY <2>4, FS_EmptySet
  <2>6. \A k : ~ HasKey(none, k) /\ ~ HasKey(Front(0), k)
    BY <2>1, <2>2 DEF HasKey
  <2>7. \A k, v : ~ Has(none, k, v) /\ ~ Has(Front(0), k, v)
    BY <2>1, <2>2 DEF Has
  <2>8. Once(none, X)
    BY <2>1 DEF Once
  <2>9. start \in CountedTable(c)
    BY <2>1, <2>3, <2>5 DEF CountedTable, none
  <2> HIDE DEF start
  <2> QED BY <2>1, <2>3, <2>5, <2>6, <2>7, <2>8, <2>9 DEF ReaddInv
<1>3. ASSUME NEW n \in 1 .. C, NEW t \in S[n - 1]
      PROVE  Readd(t, Buckets[n - 1]) \in S[n]
  <2>1. n - 1 \in 0 .. C /\ n \in 0 .. C
    BY <1>1
  <2>2. ReaddInv(X, c, n - 1, t)
    BY <2>1
  <2>3. ReaddInv(X, c, n, Readd(t, Buckets[n - 1]))
    BY <2>2, ReaddKeeps
  <2>4. Readd(t, Buckets[n - 1]) \in [slots : Table(c), Count : Nat]
    <3>1. t \in [slots : Table(c), Count : Nat]
      BY <2>1 DEF CountedTable
    <3>2. ReaddInv(X, c, n, Readd(t, Buckets[n - 1]))
      BY <2>3
    <3>3. CASE Buckets[n - 1] = Empty
      BY <3>1, <3>3 DEF Readd
    <3>4. CASE Buckets[n - 1] # Empty
      <4>1. PICK x, y : Readd(t, Buckets[n - 1]) = [slots |-> x, Count |-> y]
        BY <3>4 DEF Readd
      <4>2. x \in Table(c) /\ y \in Nat
        BY <3>2, <4>1 DEF ReaddInv
      <4> QED BY <4>1, <4>2
    <3> QED BY <3>3, <3>4
  <2> QED BY <2>1, <2>3, <2>4 DEF ReaddInv, CountedTable
<1> HIDE DEF start
<1>4. start \in S[0]
  BY <1>1, <1>2
<1> HIDE DEF S
<1>5. \A n \in 1 .. C : \A t \in S[n - 1] : step[n][t] \in S[n]
  BY <1>3
<1>6. PICK g : Follows(g, C, start, step)
  <2> HIDE DEF step
  <2> QED BY <1>1, <1>4, <1>5, Recursion
<1>7. g = [n \in 0 .. C |-> IF n = 0 THEN start ELSE step[n][g[n - 1]]]
  BY <1>6 DEF Follows
<1>8. \A n \in 0 .. C : g[n] \in S[n]
  <2>1. g[0] \in S[0]
    BY <1>1, <1>4, <1>7
  <2>2. ASSUME NEW n \in 1 .. C, g[n - 1] \in S[n - 1] PROVE g[n] \in S[n]
    <3>1. g[n] = step[n][g[n - 1]]
      <4> HIDE DEF step
      <4> QED BY <1>1, <1>7
    <3> HIDE DEF step
    <3> QED BY <1>5, <2>2, <3>1
  <2> QED BY <1>1, <2>1, <2>2, Along
<1>9. Is(g)
  <2>1. ASSUME NEW n \in 0 .. C, n # 0
        PROVE  step[n][g[n - 1]] = Readd(g[n - 1], Buckets[n - 1])
    <3>1. n \in 1 .. C /\ n - 1 \in 0 .. C
      BY <1>1, <2>1
    <3>2. g[n - 1] \in S[n - 1]
      BY <1>8, <3>1
    <3> QED BY <3>1, <3>2
  <2> HIDE DEF step
  <2> QED BY <1>7, <2>1
<1>10. Readded(c) = CHOOSE f : Is(f)
  BY DEF Readded, start
<1>11. Is(CHOOSE f : Is(f))
  <2> HIDE DEF Is
  <2> QED BY <1>9, Zenon
<1>12. Readded(c) = [n \in 0 .. C |-> IF n = 0 THEN start
                                      ELSE Readd(Readded(c)[n - 1], Buckets[n - 1])]
  <2>1. Is(Readded(c))
    <3> HIDE DEF Is
    <3> QED BY <1>10, <1>11
  <2> QED BY <2>1
<1> DEFINE f == Readded(c)
<1>13. f[0] \in S[0]
  BY <1>1, <1>4, <1>12
<1>14. ASSUME NEW n \in 1 .. C, f[n - 1] \in S[n - 1] PROVE f[n] \in S[n]
  <2>1. n \in 0 .. C /\ n # 0
    BY <1>1
  <2>2. f[n] = Readd(f[n - 1], Buckets[n - 1])
    <3> HIDE DEF f
    <3> QED BY <1>12, <2>1 DEF f
  <2> HIDE DEF f
  <2> QED BY <1>3, <1>14, <2>2
<1>15. f[C] \in S[C]
  <2> HIDE DEF f
  <2>1. \A n \in 0 .. C : f[n] \in S[n]
    BY <1>1, <1>13, <1>14, Along
  <2> QED BY <1>1, <2>1
<1>16. ReaddInv(X, c, C, Rehashed(c))
  BY <1>1, <1>15 DEF S, Rehashed
<1>17. Front(C) = Buckets
  BY DEF Front, Table
<1> QED BY <1>16, <1>17 DEF ReaddInv

-----------------------------------------------------------------------------
(* Removing an entry. *)

\* new is slots, with the m slots after first moved one step back.
Shifts(slots, c, first, m, new) ==
  /\ m \in 0 .. c - 1
  /\ new = [i \in 0 .. c - 1 |->
              IF Dist(first, i, c) = m THEN Empty
              ELSE IF Dist(first, i, c) < m
                THEN [slots[(i + 1) % c] EXCEPT !.ProbeLength = @ - 1]
              ELSE slots[i]]
  /\ \A i \in 0 .. c - 1 : Dist(first, i, c) <= m => slots[i] # Empty
  /\ \A i \in 0 .. c - 1 : Dist(first, i, c) < m => slots[(i + 1) % c].ProbeLength # 0

\* What ShiftedBack computes.  It comes to an end because a slot is free.
LEMMA ShiftedBackIs ==
  ASSUME NEW c \in 1 .. MaxCapacity, Capacity = c, Buckets \in Table(c), HasRoom(Buckets),
         NEW first \in 0 .. c - 1, Buckets[first] # Empty
  PROVE  \E m : Shifts(Buckets, c, first, m, ShiftedBack(first))
<1> DEFINE at(n) == (first + n) % c
           M == {n \in 0 .. c - 1 : Buckets[at(n + 1)] # Empty => Buckets[at(n + 1)].ProbeLength = 0}
           m == Min(M)
           d(i) == Dist(first, i, c)
<1>1. c \in Nat \ {0} /\ DOMAIN Buckets = 0 .. c - 1
  BY TableFacts
<1>2. \A i \in 0 .. c - 1 : d(i) \in 0 .. c - 1 /\ at(d(i)) = i /\ (d(i) = 0 <=> i = first)
  <2>1. \A i \in 0 .. c - 1 : Dist(first, i, c) \in 0 .. c - 1 /\ (Dist(first, i, c) = 0 <=> i = first)
    BY <1>1, DistFacts
  <2>2. \A i \in 0 .. c - 1 : (first + Dist(first, i, c)) % c = i
    BY <1>1, AtDistance
  <2> QED BY <2>1, <2>2
<1>3. \A n \in 0 .. c - 1 : at(n) \in 0 .. c - 1 /\ d(at(n)) = n
  BY <1>1, StepsFrom
<1> HIDE DEF at, d
<1>4. PICK e \in 0 .. c - 1 : Buckets[e] = Empty
  BY <1>1 DEF HasRoom
<1>5. d(e) - 1 \in M
  <2>1. d(e) \in 0 .. c - 1 /\ d(e) # 0 /\ at(d(e)) = e
    BY <1>2, <1>4
  <2>2. d(e) - 1 \in 0 .. c - 1 /\ d(e) - 1 + 1 = d(e)
    BY <2>1
  <2> QED BY <1>4, <2>1, <2>2
<1>6. m \in M /\ \A n \in M : m <= n
  <2>1. M \in SUBSET Nat /\ M # {}
    BY <1>5
  <2> HIDE DEF M
  <2> QED BY <2>1, MinIs
<1>7. ShiftedBack(first) =
        [i \in 0 .. c - 1 |->
           IF i = at(m) THEN Empty
           ELSE IF \E n \in 0 .. m : i = at(n)
             THEN [Buckets[(i + 1) % c] EXCEPT !.ProbeLength = @ - 1]
           ELSE Buckets[i]]
  BY <1>1 DEF ShiftedBack, at
<1>8. m \in 0 .. c - 1 /\ m <= d(e) - 1
  BY <1>5, <1>6
<1>9. \A n \in 0 .. c - 1 : n < m =>
        /\ Buckets[at(n + 1)] # Empty /\ Buckets[at(n + 1)].ProbeLength # 0
        /\ n + 1 \in 0 .. c - 1
  <2>1. ASSUME NEW n \in 0 .. c - 1, n < m PROVE n \notin M /\ n + 1 \in 0 .. c - 1
    BY <1>6, <1>8, <2>1
  <2> QED BY <2>1
<1> HIDE DEF M, m
<1>10. \A i \in 0 .. c - 1 : d(i) = m <=> i = at(m)
  BY <1>2, <1>3, <1>8
<1>11. \A i \in 0 .. c - 1 : d(i) <= m <=> \E n \in 0 .. m : i = at(n)
  <2>1. ASSUME NEW i \in 0 .. c - 1, d(i) <= m PROVE \E n \in 0 .. m : i = at(n)
    <3>1. d(i) \in 0 .. m /\ i = at(d(i))
      BY <1>2, <1>8, <2>1
    <3> QED BY <3>1
  <2>2. ASSUME NEW i \in 0 .. c - 1, NEW n \in 0 .. m, i = at(n) PROVE d(i) <= m
    <3>1. n \in 0 .. c - 1
      BY <1>8
    <3> QED BY <1>3, <2>2, <3>1
  <2> QED BY <2>1, <2>2
<1>12. ASSUME NEW i \in 0 .. c - 1
       PROVE  /\ d(i) <= m => Buckets[i] # Empty
              /\ d(i) < m => (i + 1) % c = at(d(i) + 1)
  <2>1. d(i) \in 0 .. c - 1 /\ at(d(i)) = i
    BY <1>2
  <2>2. ASSUME d(i) < m PROVE (i + 1) % c = at(d(i) + 1)
    <3>1. d(i) < c - 1
      BY <1>8, <2>1, <2>2
    <3>2. (i + 1) % c \in 0 .. c - 1 /\ d((i + 1) % c) = d(i) + 1
      BY <1>1, <3>1, NextDist DEF d
    <3> QED BY <1>2, <3>2
  <2>3. ASSUME d(i) <= m, d(i) # 0 PROVE Buckets[i] # Empty
    <3>1. d(i) - 1 \in 0 .. c - 1 /\ d(i) - 1 < m /\ d(i) - 1 + 1 = d(i)
      BY <1>8, <2>1, <2>3
    <3> QED BY <1>9, <2>1, <3>1
  <2>4. d(i) = 0 => Buckets[i] # Empty
    BY <1>2
  <2> QED BY <2>2, <2>3, <2>4
<1>13. \A i \in 0 .. c - 1 : d(i) < m => Buckets[(i + 1) % c].ProbeLength # 0
  BY <1>2, <1>9, <1>12
<1>14. \A i \in 0 .. c - 1 : d(i) \in Nat /\ m \in Nat
  BY <1>2, <1>8
<1>15. \A i \in 0 .. c - 1 : d(i) <= m <=> d(i) < m \/ d(i) = m
  BY <1>14
<1>16. ShiftedBack(first) =
        [i \in 0 .. c - 1 |->
           IF d(i) = m THEN Empty
           ELSE IF d(i) < m THEN [Buckets[(i + 1) % c] EXCEPT !.ProbeLength = @ - 1]
           ELSE Buckets[i]]
  BY <1>7, <1>10, <1>11, <1>15
<1> QED BY <1>8, <1>12, <1>13, <1>16 DEF Shifts, d

\* It empties one slot, and keeps the entries of the other keys.
LEMMA ShiftKeeps ==
  ASSUME NEW c \in 1 .. MaxCapacity, NEW slots \in Table(c), NEW first \in 0 .. c - 1,
         NEW m, NEW new, Shifts(slots, c, first, m, new)
  PROVE  /\ new \in Table(c)
         /\ \E last \in UsedSlots(slots) : UsedSlots(new) = UsedSlots(slots) \ {last}
         /\ \A k \in Keys \ {slots[first].String}, v \in Values : Has(new, k, v) <=> Has(slots, k, v)
<1> DEFINE d(i) == Dist(first, i, c)
           next(i) == (i + 1) % c
           moved(i) == [slots[next(i)] EXCEPT !.ProbeLength = @ - 1]
<1>1. /\ c \in Nat \ {0} /\ DOMAIN slots = 0 .. c - 1
      /\ \A i \in 0 .. c - 1 : slots[i] # Empty => slots[i] \in Slot
  BY TableFacts
<1>2. /\ m \in 0 .. c - 1
      /\ new = [i \in 0 .. c - 1 |->
                  IF d(i) = m THEN Empty ELSE IF d(i) < m THEN moved(i) ELSE slots[i]]
      /\ \A i \in 0 .. c - 1 : d(i) <= m => slots[i] # Empty
      /\ \A i \in 0 .. c - 1 : d(i) < m => slots[next(i)].ProbeLength # 0
  BY DEF Shifts
<1>3. \A i \in 0 .. c - 1 : d(i) \in 0 .. c - 1 /\ (d(i) = 0 <=> i = first)
  BY <1>1, DistFacts
<1>4. \A i, j \in 0 .. c - 1 : d(i) = d(j) => i = j
  BY <1>1, DistFacts
<1>5. \A i \in 0 .. c - 1 : next(i) \in 0 .. c - 1 /\ (d(i) < c - 1 => d(next(i)) = d(i) + 1)
  BY <1>1, NextDist
<1>6. \A n \in 0 .. c - 1 : \E i \in 0 .. c - 1 : d(i) = n
  BY <1>1, StepsFrom
<1>7. ASSUME NEW i \in 0 .. c - 1, d(i) < m
      PROVE  /\ next(i) \in 0 .. c - 1 /\ slots[next(i)] # Empty
             /\ moved(i) \in Slot /\ moved(i).String = slots[next(i)].String
             /\ moved(i).Value = slots[next(i)].Value
  <2> DEFINE j == next(i)
  <2>1. j \in 0 .. c - 1 /\ d(j) = d(i) + 1 /\ d(j) <= m
    <3> HIDE DEF d, next
    <3>1. d(i) < c - 1 /\ d(i) \in Nat
      BY <1>2, <1>3, <1>7
    <3> QED BY <1>2, <1>5, <1>7, <3>1
  <2> HIDE DEF d
  <2>2. slots[j] # Empty /\ slots[j].ProbeLength # 0
    BY <1>2, <1>7, <2>1
  <2>3. slots[j] \in Slot
    BY <1>1, <2>1, <2>2
  <2> HIDE DEF j
  <2>4. slots[j].ProbeLength - 1 \in 0 .. MaxCapacity - 1
    BY <2>2, <2>3, SlotFacts
  <2>5. [slots[j] EXCEPT !.ProbeLength = @ - 1] \in Slot
    BY <2>3, <2>4 DEF Slot
  <2>6. /\ [slots[j] EXCEPT !.ProbeLength = @ - 1].String = slots[j].String
        /\ [slots[j] EXCEPT !.ProbeLength = @ - 1].Value = slots[j].Value
    BY <2>3 DEF Slot
  <2> QED BY <2>1, <2>2, <2>5, <2>6 DEF j
<1> HIDE DEF d, next, moved
<1>8. /\ DOMAIN new = 0 .. c - 1
      /\ \A i \in 0 .. c - 1 : /\ d(i) = m => new[i] = Empty
                               /\ d(i) < m => new[i] = moved(i)
                               /\ d(i) > m => new[i] = slots[i]
                               /\ d(i) = m \/ d(i) < m \/ d(i) > m
  <2>1. \A i \in 0 .. c - 1 : d(i) \in Nat /\ m \in Nat
    BY <1>2, <1>3
  <2> QED BY <1>2, <2>1
<1>9. new \in Table(c)
  <2>1. \A i \in 0 .. c - 1 : new[i] \in Slot \union {Empty}
    <3>1. \A i \in 0 .. c - 1 : slots[i] \in Slot \union {Empty}
      BY DEF Table
    <3> QED BY <1>7, <1>8, <3>1
  <2>2. new = [i \in 0 .. c - 1 |-> new[i]]
    BY <1>2
  <2> QED BY <2>1, <2>2 DEF Table
<1>10. \E last \in UsedSlots(slots) : UsedSlots(new) = UsedSlots(slots) \ {last}
  <2>1. PICK last \in 0 .. c - 1 : d(last) = m
    BY <1>2, <1>6
  <2>2. last \in UsedSlots(slots)
    BY <1>1, <1>2, <2>1 DEF UsedSlots
  <2>3. ASSUME NEW i \in 0 .. c - 1
        PROVE  new[i] # Empty <=> slots[i] # Empty /\ i # last
    <3>1. CASE d(i) = m
      BY <1>4, <1>8, <2>1, <3>1
    <3>2. CASE d(i) < m
      <4>1. new[i] # Empty
        <5>1. new[i] = moved(i)
          BY <1>8, <3>2
        <5> QED BY <1>7, <3>2, <5>1, SlotFacts
      <4>2. slots[i] # Empty /\ i # last
        <5>1. d(i) \in Nat /\ m \in Nat
          BY <1>2, <1>3
        <5>2. d(i) <= m /\ d(i) # m
          BY <3>2, <5>1
        <5>3. slots[i] # Empty
          BY <1>2, <5>2
        <5> QED BY <2>1, <5>2, <5>3
      <4> QED BY <4>1, <4>2
    <3>3. CASE d(i) > m
      <4>1. i # last
        BY <1>2, <1>3, <2>1, <3>3
      <4> QED BY <1>8, <3>3, <4>1
    <3> QED BY <1>8, <3>1, <3>2, <3>3
  <2>4. UsedSlots(new) = UsedSlots(slots) \ {last}
    BY <1>1, <1>8, <2>3 DEF UsedSlots
  <2> QED BY <2>2, <2>4
<1>11. ASSUME NEW k \in Keys, k # slots[first].String, NEW v \in Values
       PROVE  Has(new, k, v) <=> Has(slots, k, v)
  <2>1. ASSUME NEW i \in 0 .. c - 1, new[i] # Empty, new[i].String = k, new[i].Value = v
        PROVE  \E j \in 0 .. c - 1 : slots[j] # Empty /\ slots[j].String = k /\ slots[j].Value = v
    <3>1. CASE d(i) < m
      BY <1>7, <1>8, <2>1, <3>1
    <3>2. CASE d(i) > m
      BY <1>8, <2>1, <3>2
    <3> QED BY <1>8, <2>1, <3>1, <3>2
  <2>2. ASSUME NEW j \in 0 .. c - 1, slots[j] # Empty, slots[j].String = k, slots[j].Value = v
        PROVE  \E i \in 0 .. c - 1 : new[i] # Empty /\ new[i].String = k /\ new[i].Value = v
    <3>1. j # first /\ d(j) # 0 /\ d(j) \in Nat /\ d(j) < c /\ m \in Nat /\ m < c
      <4>1. j # first
        BY <1>11, <2>2
      <4>2. d(j) \in 0 .. c - 1 /\ d(j) # 0
        BY <1>3, <4>1
      <4> QED BY <1>2, <4>1, <4>2
    <3>2. CASE d(j) <= m
      <4>1. d(j) - 1 \in 0 .. c - 1
        BY <3>1
      <4>2. PICK i \in 0 .. c - 1 : d(i) = d(j) - 1
        BY <1>6, <4>1
      <4>3. d(i) < m /\ d(i) < c - 1 /\ d(i) + 1 = d(j)
        BY <3>1, <3>2, <4>2
      <4>4. next(i) = j
        BY <1>4, <1>5, <4>3
      <4> QED BY <1>7, <1>8, <2>2, <4>3, <4>4, SlotFacts
    <3>3. CASE d(j) > m
      BY <1>8, <2>2, <3>3
    <3> QED BY <3>1, <3>2, <3>3
  <2> QED BY <1>1, <1>8, <2>1, <2>2 DEF Has
<1> QED BY <1>9, <1>10, <1>11

-----------------------------------------------------------------------------
(* The invariant. *)

\* What a call does to the entries of the keys that are not in K.
Keeps(old, new, K) ==
  \A k \in Keys \ K :
    /\ HasKey(old, k) => HasKey(new, k)
    /\ Once(old, {}) => \A v \in Values : Has(new, k, v) <=> Has(old, k, v)

IInv == HashString \in Hashes /\ TypeOK /\ CountExact

LEMMA IInvFacts ==
  ASSUME IInv
  PROVE  /\ HashString \in Hashes /\ Capacity \in 0 .. MaxCapacity /\ Buckets \in Table(Capacity)
         /\ Count = Cardinality(UsedSlots(Buckets)) /\ Count \in Nat /\ Count <= MaxCount(Capacity)
         /\ MaxCount(Capacity) \in Nat /\ MaxCapacity \in Nat
         /\ Capacity = 0 => MaxCount(Capacity) = 0
         /\ Capacity > 0 => /\ Capacity \in 1 .. MaxCapacity /\ HasRoom(Buckets)
                            /\ MaxCount(Capacity) < Capacity
<1>1. /\ HashString \in Hashes /\ Capacity \in 0 .. MaxCapacity /\ Buckets \in Table(Capacity)
      /\ Count = Cardinality(UsedSlots(Buckets)) /\ Count \in 0 .. MaxCount(Capacity)
  BY DEF IInv, TypeOK, CountExact, Table
<1>2. MaxCapacity \in Nat
  BY SlotFacts
<1>3. Capacity \in Nat
  BY <1>1, <1>2
<1>4. /\ MaxCount(Capacity) \in Nat /\ MaxCount(Capacity) <= Capacity
      /\ Capacity > 0 => MaxCount(Capacity) < Capacity
  BY <1>3, MaxCountFacts
<1>5. ASSUME Capacity > 0
      PROVE  Capacity \in 1 .. MaxCapacity /\ HasRoom(Buckets) /\ MaxCount(Capacity) < Capacity
  <2>1. Capacity \in 1 .. MaxCapacity
    BY <1>1, <1>2, <1>5
  <2>2. Cardinality(UsedSlots(Buckets)) < Capacity
    BY <1>1, <1>3, <1>4, <1>5
  <2> QED BY <1>1, <1>4, <1>5, <2>1, <2>2, RoomLeft
<1> QED BY <1>1, <1>2, <1>3, <1>4, <1>5

\* What Add or Replace makes of a table.
LEMMA StoredKeeps ==
  ASSUME HashString \in Hashes, NEW c \in 1 .. MaxCapacity, NEW slots \in Table(c), HasRoom(slots),
         NEW key \in Keys, NEW value \in Values, NEW replaces \in BOOLEAN
  PROVE  LET r   == AddTo(slots, key, value)
             new == Stored(r, value, replaces)
         IN  /\ new \in Table(c)
             /\ Cardinality(UsedSlots(new)) =
                  IF r.DoesExist THEN Cardinality(UsedSlots(slots)) ELSE Cardinality(UsedSlots(slots)) + 1
             /\ Keeps(slots, new, {key})
<1> DEFINE r == AddTo(slots, key, value)
           new == Stored(r, value, replaces)
           X == IF Once(slots, {}) THEN {key} ELSE Keys
<1>1. \A i \in 0 .. c - 1 : slots[i] # Empty => slots[i].String \in Keys
  BY TableFacts, SlotFacts
<1>2. Once(slots, X) /\ key \in X
  BY <1>1, TableFacts DEF Once
<1>3. Adds(slots, key, value, X, c, r)
  BY <1>2, AddToAdds
<1>4. c \in Nat \ {0} /\ IsFiniteSet(UsedSlots(slots))
  BY TableFacts, RoomLeft
<1> HIDE DEF r
<1>5. Cardinality(UsedSlots(r.slots)) =
        IF r.DoesExist THEN Cardinality(UsedSlots(slots)) ELSE Cardinality(UsedSlots(slots)) + 1
  <2>1. CASE r.DoesExist = TRUE
    BY <1>3, <2>1 DEF Adds
  <2>2. CASE r.DoesExist = FALSE
    <3>1. PICK j \in 0 .. c - 1 :
            slots[j] = Empty /\ UsedSlots(r.slots) = UsedSlots(slots) \union {j}
      BY <1>3, <2>2 DEF Adds
    <3>2. j \notin UsedSlots(slots)
      BY <3>1 DEF UsedSlots
    <3>3. Cardinality(UsedSlots(r.slots)) = Cardinality(UsedSlots(slots)) + 1
      BY <1>4, <3>1, <3>2, FS_AddElement
    <3> QED BY <2>2, <3>3
  <2> QED BY <1>3, <2>1, <2>2 DEF Adds
<1>6. /\ r.slots \in Table(c)
      /\ \A k \in Keys : HasKey(r.slots, k) <=> HasKey(slots, k) \/ k = key
      /\ \A k \in Keys \ X, v \in Values : Has(r.slots, k, v) <=> Has(slots, k, v)
  BY <1>2, <1>3 DEF Adds
<1>7. /\ new \in Table(c) /\ UsedSlots(new) = UsedSlots(r.slots)
      /\ \A k \in Keys : HasKey(new, k) <=> HasKey(r.slots, k)
      /\ \A k \in Keys \ X, v \in Values : Has(new, k, v) <=> Has(r.slots, k, v)
  <2>1. CASE replaces /\ r.DoesExist
    <3> DEFINE i == r.Index
               slot == r.slots[i]
               put == [slot EXCEPT !.Value = value]
    <3>1. i \in 0 .. c - 1 /\ slot # Empty /\ slot.String \in X
      BY <1>3, <2>1 DEF Adds
    <3>2. DOMAIN r.slots = 0 .. c - 1 /\ slot \in Slot
      BY <1>6, <3>1, TableFacts
    <3>3. new = [r.slots EXCEPT ![i] = put]
      BY <2>1, <3>1, <3>2 DEF Stored
    <3>4. put \in Slot /\ put.String = slot.String
      BY <3>2 DEF Slot
    <3>5. put # Empty
      BY <3>4, SlotFacts
    <3>6. /\ new \in Table(c) /\ DOMAIN new = 0 .. c - 1 /\ new[i] = put
          /\ \A j \in 0 .. c - 1 : j # i => new[j] = r.slots[j]
      <4> HIDE DEF new, put, i
      <4> QED BY <1>6, <3>1, <3>2, <3>3, <3>4 DEF Table
    <3> HIDE DEF new, put, X
    <3>7. UsedSlots(new) = UsedSlots(r.slots)
      BY <3>1, <3>2, <3>5, <3>6 DEF UsedSlots
    <3>8. \A k \in Keys : HasKey(new, k) <=> HasKey(r.slots, k)
      BY <3>1, <3>2, <3>4, <3>5, <3>6 DEF HasKey
    <3>9. \A k \in Keys \ X, v \in Values : Has(new, k, v) <=> Has(r.slots, k, v)
      BY <3>1, <3>2, <3>4, <3>5, <3>6 DEF Has
    <3> QED BY <3>6, <3>7, <3>8, <3>9
  <2>2. CASE ~ (replaces /\ r.DoesExist)
    <3>1. new = r.slots
      BY <2>2 DEF Stored
    <3> QED BY <1>6, <3>1
  <2> QED BY <2>1, <2>2
<1> HIDE DEF new
<1>8. Keeps(slots, new, {key})
  <2>1. \A k \in Keys \ {key} : HasKey(slots, k) => HasKey(new, k)
    BY <1>6, <1>7
  <2>2. Once(slots, {}) => \A k \in Keys \ {key}, v \in Values : Has(new, k, v) <=> Has(slots, k, v)
    BY <1>6, <1>7
  <2> QED BY <2>1, <2>2 DEF Keeps
<1> QED BY <1>5, <1>7, <1>8 DEF r, new

\* What growing makes of the table.
LEMMA GrowthKeeps ==
  ASSUME IInv, NEW c \in 1 .. MaxCapacity, Capacity < c
  PROVE  LET t == Rehashed(c).slots IN
         /\ Rehashed(c).Count = Cardinality(UsedSlots(t))
         /\ t \in Table(c) /\ Keeps(Buckets, t, {}) /\ (Once(Buckets, {}) => Once(t, {}))
         /\ Cardinality(UsedSlots(t)) \in Nat /\ Cardinality(UsedSlots(t)) <= Count
<1>1. /\ HashString \in Hashes /\ Capacity \in Nat /\ Buckets \in Table(Capacity)
      /\ Count = Cardinality(UsedSlots(Buckets))
  BY IInvFacts
<1> DEFINE t == Rehashed(c).slots
           X == IF Once(Buckets, {}) THEN {} ELSE Keys
<1>2. Once(Buckets, X)
  <2>1. \A i \in DOMAIN Buckets : Buckets[i] # Empty => Buckets[i].String \in Keys
    <3>1. \A i \in DOMAIN Buckets : Buckets[i] \in Slot \union {Empty}
      BY <1>1 DEF Table
    <3> QED BY <3>1, SlotFacts
  <2> QED BY <2>1 DEF Once
<1>3. /\ Rehashed(c).Count = Cardinality(UsedSlots(t))
      /\ t \in Table(c) /\ Once(t, X)
      /\ Cardinality(UsedSlots(t)) <= Cardinality(UsedSlots(Buckets))
      /\ \A k \in Keys : HasKey(t, k) <=> HasKey(Buckets, k)
      /\ \A k \in Keys \ X, v \in Values : Has(t, k, v) <=> Has(Buckets, k, v)
  <2> HIDE DEF X
  <2> QED BY <1>1, <1>2, RehashedKeeps
<1> HIDE DEF t
<1>4. Cardinality(UsedSlots(t)) \in Nat
  BY <1>3, RoomLeft
<1>5. Keeps(Buckets, t, {})
  BY <1>3 DEF Keeps
<1> QED BY <1>1, <1>3, <1>4, <1>5 DEF t

-----------------------------------------------------------------------------
(* The calls. *)

\* What every call does: the invariant, and the entries of the other keys.
CallKeeps(K) == IInv' /\ Keeps(Buckets, Buckets', K)

LEMMA KeepsInTurn ==
  ASSUME NEW a, NEW b, NEW c, NEW K, Keeps(a, b, {}), Keeps(b, c, K),
         Once(a, {}) => Once(b, {})
  PROVE  Keeps(a, c, K)
  BY DEF Keeps

LEMMA KeepsItself ==
  ASSUME NEW a, NEW K
  PROVE  Keeps(a, a, K)
  BY DEF Keeps

LEMMA InvariantThen ==
  ASSUME IInv, UNCHANGED HashString, Capacity' \in 0 .. MaxCapacity, Buckets' \in Table(Capacity'),
         Count' = Cardinality(UsedSlots(Buckets')), Count' \in Nat, Count' <= MaxCount(Capacity')
  PROVE  IInv'
<1>1. HashString' \in Hashes
  BY IInvFacts
<1>2. TypeOK'
  <2>1. Capacity' \in Nat
    BY SlotFacts
  <2>2. MaxCount(Capacity') \in Nat
    BY <2>1, MaxCountFacts
  <2>3. Count' \in 0 .. MaxCount(Capacity')
    BY <2>2
  <2> QED BY <2>3 DEF TypeOK, Table
<1> QED BY <1>1, <1>2 DEF IInv, CountExact

LEMMA UnchangedKeeps ==
  ASSUME IInv, UNCHANGED <<HashString, Capacity, Buckets, Count>>, NEW K
  PROVE  CallKeeps(K)
<1>1. IInv'
  BY DEF IInv, TypeOK, CountExact
<1>2. Keeps(Buckets, Buckets', K)
  BY KeepsItself
<1> QED BY <1>1, <1>2 DEF CallKeeps

LEMMA ResizeKeeps ==
  ASSUME IInv, NEW wanted \in 1 .. MaxCapacity, Resize(wanted)
  PROVE  CallKeeps({})
<1> DEFINE c == CeilPowTwo(wanted)
<1>1. Capacity \in Nat /\ MaxCapacity \in Nat /\ Count <= MaxCount(Capacity) /\ Count \in Nat
  BY IInvFacts
<1>2. c \in 2 .. MaxCapacity
  <2>1. wanted \in 0 .. MaxCapacity
    OBVIOUS
  <2> QED BY <2>1, CeilPowTwoFacts
<1>3. /\ c > Capacity /\ Capacity' = c /\ Buckets' = Rehashed(c).slots
      /\ Count' = Rehashed(c).Count /\ UNCHANGED HashString
  BY DEF Resize, Return
<1> HIDE DEF c
<1>4. c \in 1 .. MaxCapacity /\ c \in Nat /\ Capacity < c /\ c \in 0 .. MaxCapacity
  BY <1>1, <1>2, <1>3
<1>5. /\ Buckets' \in Table(c) /\ Keeps(Buckets, Buckets', {})
      /\ Cardinality(UsedSlots(Buckets')) \in Nat /\ Cardinality(UsedSlots(Buckets')) <= Count
      /\ Count' = Cardinality(UsedSlots(Buckets'))
  BY <1>3, <1>4, GrowthKeeps
<1>6. MaxCount(Capacity) <= MaxCount(c) /\ MaxCount(c) \in Nat /\ MaxCount(Capacity) \in Nat
  BY <1>1, <1>4, MaxCountFacts
<1>7. Count' \in Nat /\ Count' <= MaxCount(c)
  BY <1>1, <1>3, <1>5, <1>6
<1>8. IInv'
  BY <1>3, <1>4, <1>5, <1>7, InvariantThen
<1> QED BY <1>5, <1>8 DEF CallKeeps

\* Add and Replace, on a table that has room for an entry more.
LEMMA PutKeeps ==
  ASSUME IInv, NEW op, NEW key \in Keys, NEW value \in Values,
         NEW c \in 1 .. MaxCapacity, NEW slots \in Table(c), NEW table,
         table.slots = slots, table.Count = Cardinality(UsedSlots(slots)),
         Cardinality(UsedSlots(slots)) + 1 <= MaxCount(c),
         Keeps(Buckets, slots, {}), Once(Buckets, {}) => Once(slots, {}),
         Put(op, table, c, key, value)
  PROVE  CallKeeps({key})
<1> DEFINE n == Cardinality(UsedSlots(slots))
           r == AddTo(slots, key, value)
           new == Stored(r, value, op = "Replace")
<1>1. c \in Nat /\ c > 0 /\ c \in 0 .. MaxCapacity
  BY SlotFacts
<1>2. MaxCount(c) \in Nat /\ MaxCount(c) < c
  BY <1>1, MaxCountFacts
<1>3. n \in Nat /\ n + 1 <= MaxCount(c) /\ HasRoom(slots)
  <2>1. n \in Nat /\ (n < c => HasRoom(slots))
    BY <1>1, RoomLeft
  <2> QED BY <1>1, <1>2, <2>1
<1>4. /\ Capacity' = c /\ Buckets' = new /\ Count' = IF r.DoesExist THEN n ELSE n + 1
      /\ UNCHANGED HashString
  BY DEF Put, Return, Counted
<1>5. HashString \in Hashes
  BY IInvFacts
<1>6. /\ new \in Table(c) /\ Cardinality(UsedSlots(new)) = IF r.DoesExist THEN n ELSE n + 1
      /\ Keeps(slots, new, {key})
  BY <1>3, <1>5, StoredKeeps
<1> HIDE DEF n, r, new
<1>7. Count' \in Nat /\ Count' <= MaxCount(c)
  BY <1>1, <1>2, <1>3, <1>4
<1>8. IInv'
  BY <1>1, <1>4, <1>6, <1>7, InvariantThen
<1>9. Keeps(Buckets, Buckets', {key})
  BY <1>4, <1>6, KeepsInTurn
<1> QED BY <1>8, <1>9 DEF CallKeeps

LEMMA AddKeeps ==
  ASSUME IInv, NEW op, NEW key \in Keys, NEW value \in Values, Add(op, key, value)
  PROVE  CallKeeps({key})
<1>1. /\ Capacity \in 0 .. MaxCapacity /\ MaxCapacity \in Nat /\ Buckets \in Table(Capacity)
      /\ Count = Cardinality(UsedSlots(Buckets)) /\ Count \in Nat /\ Count <= MaxCount(Capacity)
      /\ MaxCount(Capacity) \in Nat /\ (Capacity = 0 => MaxCount(Capacity) = 0)
  BY IInvFacts
<1> DEFINE table == [slots |-> Buckets, Count |-> Count]
<1>2. Count # MaxCount(Capacity) /\ Put(op, table, Capacity, key, value)
  BY DEF Add, IsFull
<1>3. Capacity # 0 /\ Count + 1 <= MaxCount(Capacity)
  BY <1>1, <1>2
<1>4. Capacity \in 1 .. MaxCapacity
  BY <1>1, <1>3
<1>5. Keeps(Buckets, Buckets, {})
  BY KeepsItself
<1>6. table.slots = Buckets /\ table.Count = Count
  OBVIOUS
<1> HIDE DEF table
<1> QED BY <1>1, <1>2, <1>3, <1>4, <1>5, <1>6, PutKeeps

\* A full table grows to one that has room: growth loses nothing and ends.
LEMMA AddAndGrowKeeps ==
  ASSUME IInv, NEW op, NEW key \in Keys, NEW value \in Values, AddAndGrow(op, key, value)
  PROVE  CallKeeps({key})
<1> DEFINE c == CeilPowTwo(2 * Capacity)
           t == Rehashed(c).slots
<1>1. /\ Capacity \in Nat /\ MaxCapacity \in Nat /\ Count \in Nat
      /\ Count <= MaxCount(Capacity) /\ MaxCount(Capacity) \in Nat
  BY IInvFacts
<1>2. 2 * Capacity <= MaxCapacity /\ Put(op, Rehashed(c), c, key, value)
  BY DEF AddAndGrow
<1>3. c \in 2 .. MaxCapacity /\ c >= 2 * Capacity
  <2>1. 2 * Capacity \in 0 .. MaxCapacity
    BY <1>1, <1>2
  <2> QED BY <2>1, CeilPowTwoFacts
<1> HIDE DEF c
<1>4. c \in 1 .. MaxCapacity /\ c \in Nat /\ Capacity < c /\ c > 1
  BY <1>1, <1>3
<1>5. /\ t \in Table(c) /\ Keeps(Buckets, t, {}) /\ (Once(Buckets, {}) => Once(t, {}))
      /\ Cardinality(UsedSlots(t)) \in Nat /\ Cardinality(UsedSlots(t)) <= Count
      /\ Rehashed(c).Count = Cardinality(UsedSlots(t)) /\ Rehashed(c).slots = t
  BY <1>4, GrowthKeeps
<1>6. MaxCount(Capacity) + 1 <= MaxCount(c) /\ MaxCount(c) \in Nat
  BY <1>1, <1>3, <1>4, MaxCountFacts
<1> HIDE DEF t
<1>7. Cardinality(UsedSlots(t)) + 1 <= MaxCount(c)
  BY <1>1, <1>5, <1>6
<1> QED BY <1>2, <1>4, <1>5, <1>7, PutKeeps

LEMMA RemoveKeeps ==
  ASSUME IInv, NEW key \in Keys, Remove(key)
  PROVE  CallKeeps({key})
<1> DEFINE c == Capacity
           ends == {d \in 0 .. c - 1 :
                      Buckets[At(key, d)] # Empty => Buckets[At(key, d)].String = key}
           idx == At(key, Min(ends))
<1>1. /\ HashString \in Hashes /\ c \in 0 .. MaxCapacity /\ MaxCapacity \in Nat
      /\ Buckets \in Table(c) /\ Count = Cardinality(UsedSlots(Buckets)) /\ Count \in Nat
      /\ Count <= MaxCount(c) /\ MaxCount(c) \in Nat /\ (c = 0 => MaxCount(c) = 0)
      /\ (c > 0 => c \in 1 .. MaxCapacity /\ HasRoom(Buckets))
  BY IInvFacts
<1>2. CASE Count # 0 /\ Buckets[idx] # Empty
  <2>1. /\ Buckets' = ShiftedBack(idx) /\ Count' = Count - 1
        /\ UNCHANGED HashString /\ Capacity' = c
    BY <1>2 DEF Remove, Return
  <2>2. c \in 1 .. MaxCapacity /\ HasRoom(Buckets)
    BY <1>1, <1>2
  <2>3. c \in Nat \ {0} /\ Home(key, c) \in 0 .. c - 1 /\ DOMAIN Buckets = 0 .. c - 1
    BY <1>1, <2>2, HomeFacts, TableFacts
  <2> DEFINE h == Home(key, c)
  <2>4. \A d : At(key, d) = (h + d) % c
    BY DEF At
  <2>5. ends # {}
    <3>1. PICK e \in 0 .. c - 1 : Buckets[e] = Empty
      BY <2>2, <2>3 DEF HasRoom
    <3>2. Dist(h, e, c) \in 0 .. c - 1 /\ (h + Dist(h, e, c)) % c = e
      BY <2>3, <3>1, DistFacts, AtDistance
    <3> QED BY <2>4, <3>1, <3>2
  <2>6. Min(ends) \in ends
    <3>1. ends \in SUBSET Nat
      BY <2>3
    <3> HIDE DEF ends
    <3> QED BY <2>5, <3>1, MinIs
  <2>7. Min(ends) \in 0 .. c - 1 /\ Buckets[idx].String = key
    BY <1>2, <2>6
  <2> HIDE DEF ends
  <2>8. idx \in 0 .. c - 1
    BY <2>3, <2>4, <2>7, StepsFrom
  <2> HIDE DEF idx, h
  <2>9. PICK m : Shifts(Buckets, c, idx, m, Buckets')
    BY <1>1, <1>2, <2>1, <2>2, <2>8, ShiftedBackIs
  <2>10. /\ Buckets' \in Table(c)
         /\ \E last \in UsedSlots(Buckets) : UsedSlots(Buckets') = UsedSlots(Buckets) \ {last}
         /\ \A k \in Keys \ {key}, v \in Values : Has(Buckets', k, v) <=> Has(Buckets, k, v)
    BY <1>1, <2>2, <2>7, <2>8, <2>9, ShiftKeeps
  <2>11. Count' = Cardinality(UsedSlots(Buckets'))
    <3>1. IsFiniteSet(UsedSlots(Buckets))
      BY <1>1, <2>2, RoomLeft
    <3>2. Cardinality(UsedSlots(Buckets')) = Cardinality(UsedSlots(Buckets)) - 1
      BY <2>10, <3>1, FS_RemoveElement
    <3> QED BY <1>1, <2>1, <3>2
  <2>12. Count' \in Nat /\ Count' <= MaxCount(c)
    BY <1>1, <1>2, <2>1
  <2>13. IInv'
    BY <1>1, <2>1, <2>10, <2>11, <2>12, InvariantThen
  <2>14. ASSUME NEW k \in Keys \ {key}, HasKey(Buckets, k) PROVE HasKey(Buckets', k)
    <3>1. PICK v \in Values : Has(Buckets, k, v)
      BY <1>1, <2>2, <2>14, KeysHaveValues
    <3>2. Has(Buckets', k, v)
      BY <2>10, <3>1
    <3> QED BY <3>2 DEF Has, HasKey
  <2>15. Keeps(Buckets, Buckets', {key})
    BY <2>10, <2>14 DEF Keeps
  <2> QED BY <2>13, <2>15 DEF CallKeeps
<1>3. CASE ~ (Count # 0 /\ Buckets[idx] # Empty)
  <2>1. UNCHANGED <<HashString, Capacity, Buckets, Count>>
    BY <1>3 DEF Remove, Return
  <2> QED BY <2>1, UnchangedKeeps
<1> QED BY <1>2, <1>3

LEMMA ClearKeeps ==
  ASSUME IInv, Clear
  PROVE  IInv'
<1>1. Capacity \in 0 .. MaxCapacity /\ Capacity \in Nat /\ MaxCount(Capacity) \in Nat
  BY IInvFacts, SlotFacts
<1>2. Buckets' = Unused(Capacity) /\ Count' = 0 /\ UNCHANGED <<HashString, Capacity>>
  BY DEF Clear, Return
<1>3. Buckets' \in Table(Capacity) /\ UsedSlots(Buckets') = {}
  BY <1>2 DEF Unused, Table, UsedSlots
<1>4. Cardinality(UsedSlots(Buckets')) = 0
  BY <1>3, FS_EmptySet
<1> QED BY <1>1, <1>2, <1>3, <1>4, InvariantThen

LEMMA InitHolds ==
  ASSUME Init
  PROVE  IInv
<1>1. /\ HashString \in Hashes /\ Capacity = 0 /\ Buckets = <<>> /\ Count = 0
  BY DEF Init
<1>2. MaxCapacity \in Nat
  BY SlotFacts
<1>3. MaxCount(0) \in Nat
  BY MaxCountFacts
<1>4. DOMAIN Buckets = {} /\ Buckets \in [{} -> Slot \union {Empty}]
  BY <1>1
<1>5. 0 .. Capacity - 1 = {}
  BY <1>1
<1>6. UsedSlots(Buckets) = {}
  BY <1>4 DEF UsedSlots
<1>7. Cardinality(UsedSlots(Buckets)) = 0
  BY <1>6, FS_EmptySet
<1>8. TypeOK
  BY <1>1, <1>2, <1>3, <1>4, <1>5 DEF TypeOK
<1> QED BY <1>1, <1>7, <1>8 DEF IInv, CountExact

\* Every step keeps the invariant, and all but Clear the entries of the other keys.
LEMMA StepKeeps ==
  ASSUME IInv, [Next]_vars
  PROVE  IInv' /\ (request'.op # "Clear" => Keeps(Buckets, Buckets', {request'.key}))
<1>1. ASSUME NEW wanted \in 1 .. MaxCapacity, Resize(wanted)
      PROVE  CallKeeps({}) /\ request'.key = Absent
  BY <1>1, ResizeKeeps DEF Resize, Return
<1>2. ASSUME NEW key \in Keys, NEW value \in Values, NEW op \in {"Add", "Replace"},
             Add(op, key, value)
      PROVE  CallKeeps({key}) /\ request'.key = key
  BY <1>2, AddKeeps DEF Add, Put, Return
<1>3. ASSUME NEW key \in Keys, NEW op \in {"Add", "Replace"}, Refuse(op, key)
      PROVE  CallKeeps({key}) /\ request'.key = key
  BY <1>3, UnchangedKeeps DEF Refuse, Return
<1>4. ASSUME NEW key \in Keys, NEW value \in Values, NEW op \in {"Add", "Replace"},
             AddAndGrow(op, key, value)
      PROVE  CallKeeps({key}) /\ request'.key = key
  BY <1>4, AddAndGrowKeeps DEF AddAndGrow, Put, Return
<1>5. ASSUME NEW key \in Keys, Get(key)
      PROVE  CallKeeps({key}) /\ request'.key = key
  BY <1>5, UnchangedKeeps DEF Get, Return
<1>6. ASSUME NEW key \in Keys, Remove(key)
      PROVE  CallKeeps({key}) /\ request'.key = key
  <2>1. CallKeeps({key})
    BY <1>6, RemoveKeeps
  <2>2. request'.key = key
    BY <1>6 DEF Remove, Return
  <2> QED BY <2>1, <2>2
<1>7. ASSUME Clear PROVE IInv' /\ request'.op = "Clear"
  BY <1>7, ClearKeeps DEF Clear, Return
<1>8. CASE UNCHANGED vars
  BY <1>8, UnchangedKeeps DEF vars, CallKeeps
<1>9. CallKeeps({}) => CallKeeps({Absent})
  BY DEF CallKeeps, Keeps
<1> QED BY <1>1, <1>2, <1>3, <1>4, <1>5, <1>6, <1>7, <1>8, <1>9 DEF Next, CallKeeps

-----------------------------------------------------------------------------
(* The results. *)

LEMMA Invariant == Spec => []IInv
<1>1. Init => IInv
  BY InitHolds
<1>2. IInv /\ [Next]_vars => IInv'
  BY StepKeeps
<1> QED BY <1>1, <1>2, PTL DEF Spec

\* The slots hold keys, values and ProbeLengths below the capacity, and no more
\* entries than the load factor allows: no Add, growth or Remove goes astray.
THEOREM StringMapTypeCorrect == Spec => []TypeOK
<1>1. IInv => TypeOK
  BY DEF IInv
<1> QED BY <1>1, Invariant, PTL

\* Count is the number of slots in use, after any number of displacements, shifts
\* and growths: the test for a full table goes by the truth.
THEOREM CountMatchesSlots == Spec => []CountExact
<1>1. IInv => CountExact
  BY DEF IInv
<1> QED BY <1>1, Invariant, PTL

\* No call but Clear makes a key other than its own disappear, and none changes the
\* values of another key while no key is in two slots.
THEOREM OtherKeysStay == Spec => OthersKept
<1>1. \A key : ValuesOf(key) # {} <=> HasKey(Buckets, key)
  BY DEF ValuesOf, UsedSlots, HasKey
<1>2. \A key, v : v \in ValuesOf(key) <=> Has(Buckets, key, v)
  BY DEF ValuesOf, UsedSlots, Has
<1>3. EachKeyOnce => Once(Buckets, {})
  BY DEF EachKeyOnce, UsedSlots, Once
<1>4. \A key, v : TypeOK /\ v \in ValuesOf(key) => v \in Values
  <2>1. ASSUME TypeOK, NEW i \in UsedSlots(Buckets) PROVE Buckets[i].Value \in Values
    <3>1. i \in DOMAIN Buckets /\ Buckets[i] # Empty
      BY DEF UsedSlots
    <3>2. Buckets[i] \in Slot
      BY <2>1, <3>1 DEF TypeOK
    <3> QED BY <3>2, SlotFacts
  <2> QED BY <2>1 DEF ValuesOf
<1>5. ASSUME IInv, [Next]_vars
      PROVE  [\A key \in Keys \ {request'.key} :
                request'.op # "Clear" =>
                  /\ ValuesOf(key) # {} => ValuesOf(key)' # {}
                  /\ EachKeyOnce => ValuesOf(key)' = ValuesOf(key)]_vars
  <2>1. IInv' /\ (request'.op # "Clear" => Keeps(Buckets, Buckets', {request'.key}))
    BY <1>5, StepKeeps
  <2>2. \A key : ValuesOf(key)' # {} <=> HasKey(Buckets', key)
    BY DEF ValuesOf, UsedSlots, HasKey
  <2>3. \A key, v : v \in ValuesOf(key)' <=> Has(Buckets', key, v)
    BY DEF ValuesOf, UsedSlots, Has
  <2>4. \A key, v : v \in ValuesOf(key)' => v \in Values
    <3>1. ASSUME NEW i \in UsedSlots(Buckets') PROVE Buckets'[i].Value \in Values
      <4>1. i \in DOMAIN Buckets' /\ Buckets'[i] # Empty
        BY DEF UsedSlots
      <4>2. Buckets'[i] \in Slot
        BY <2>1, <4>1 DEF IInv, TypeOK
      <4> QED BY <4>2, SlotFacts
    <3> QED BY <3>1 DEF ValuesOf, UsedSlots
  <2>5. ASSUME NEW key \in Keys \ {request'.key}, request'.op # "Clear"
        PROVE  /\ ValuesOf(key) # {} => ValuesOf(key)' # {}
               /\ EachKeyOnce => ValuesOf(key)' = ValuesOf(key)
    <3>1. /\ HasKey(Buckets, key) => HasKey(Buckets', key)
          /\ Once(Buckets, {}) => \A v \in Values : Has(Buckets', key, v) <=> Has(Buckets, key, v)
      BY <2>1, <2>5 DEF Keeps
    <3>2. ValuesOf(key) # {} => ValuesOf(key)' # {}
      BY <1>1, <2>2, <3>1
    <3>3. EachKeyOnce => ValuesOf(key)' = ValuesOf(key)
      <4>1. \A v : v \in ValuesOf(key) => v \in Values
        BY <1>4, <1>5 DEF IInv
      <4>2. EachKeyOnce => \A v : v \in ValuesOf(key)' <=> v \in ValuesOf(key)
        BY <1>2, <1>3, <2>3, <2>4, <3>1, <4>1
      <4> QED BY <4>2
    <3> QED BY <3>2, <3>3
  <2> QED BY <2>5
<1>6. Spec => [][Next]_vars
  BY DEF Spec
<1> QED BY <1>5, <1>6, Invariant, PTL DEF OthersKept
=============================================================================

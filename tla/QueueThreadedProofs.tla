------------------------ MODULE QueueThreadedProofs ------------------------
(***************************************************************************)
(* The ring of QueueThreaded, for every Capacity and every set of          *)
(* consumers: as long as no consumer is overtaken by a whole lap, every    *)
(* accepted value is dequeued exactly once, no slot is written while it is *)
(* copied, and the ring implements FifoQueues; and with one consumer       *)
(* nobody is ever overtaken.                                               *)
(***************************************************************************)
EXTENDS QueueThreaded, RingArithmetic, FiniteSetTheorems, SequenceTheorems

(***************************************************************************)
(* The inductive invariant.                                                *)
(***************************************************************************)

\* First and Last are the slots of head and tail, at most Capacity - 1 apart.
Positions ==
  /\ First = Slot(head) /\ Last = Slot(tail)
  /\ head <= tail /\ tail < head + Capacity
  /\ producer # "idle" => tail + 1 < head + Capacity /\ tail < MaxEnqueues

\* The live part of the ring holds the values accepted and not yet claimed.
LiveSlots ==
  /\ \A k \in Nat : head <= k /\ k < tail => Memory[Slot(k)] = k + 1
  /\ producer = "publish" => Memory[Last] = tail + 1

\* What a consumer knows at each point of Dequeue.
InDequeue(c) ==
  /\ outValue[c] <= head
  /\ consumer[c] # "idle" => /\ originalFirst[c] = Slot(seen[c])
                             /\ seen[c] <= head
                             /\ outValue[c] <= seen[c]
  /\ consumer[c] = "cas" => seen[c] < tail
  /\ consumer[c] = "copy" => /\ seen[c] < head
                             /\ Memory[originalFirst[c]] = seen[c] + 1
                             /\ tail <= seen[c] + Capacity
                             /\ producer # "idle" => tail < seen[c] + Capacity

\* A position is claimed by one consumer.
DistinctClaims ==
  \A c, d \in Consumers :
    consumer[c] = "copy" /\ consumer[d] = "copy" /\ seen[c] = seen[d] => c = d

\* What was claimed is handed out, unless a consumer is about to copy it.
Delivery ==
  /\ delivered[0] = 0
  /\ \A v \in Jobs :
       delivered[v] = IF v <= head /\ Held(v) = {} THEN 1 ELSE 0

IInv ==
  /\ TypeOK
  /\ Punctual
  /\ Positions
  /\ LiveSlots
  /\ \A c \in Consumers : InDequeue(c)
  /\ DistinctClaims
  /\ Delivery

-----------------------------------------------------------------------------

\* The slots of positions: in range, stepped by NextIndex, and shared only by
\* positions at least a lap apart.
LEMMA SlotFacts ==
  /\ Slot(0) = 0
  /\ \A a \in Nat : Slot(a) \in Slots /\ NextIndex(Slot(a)) = Slot(a + 1)
  /\ \A a, b \in Nat : Slot(a) = Slot(b) /\ a < b => a + Capacity <= b
<1>1. Capacity \in Nat \ {0}
  BY CapacityAssumption
<1>2. 0 % Capacity = 0
  <2>1. 0 = Capacity * 0 + 0 /\ 0 \in 0 .. Capacity - 1
    BY <1>1
  <2> QED BY ONLY <1>1, <2>1, RemainderIs, 0 \in Nat
<1>3. \A a \in Nat : Slot(a) \in Slots
  BY <1>1, DivMod DEF Slot, Slots
<1>4. \A a \in Nat : NextIndex(Slot(a)) = Slot(a + 1)
  BY <1>1, NextSlot DEF Slot, NextIndex
<1>5. \A a, b \in Nat : Slot(a) = Slot(b) /\ a < b => a + Capacity <= b
  BY <1>1, SameSlot DEF Slot
<1> QED BY <1>2, <1>3, <1>4, <1>5 DEF Slot

\* The empty ring satisfies the invariant.
LEMMA InitIInv == Init => IInv
<1> SUFFICES ASSUME Init PROVE IInv
  OBVIOUS
<1> USE CapacityAssumption, BoundAssumption
<1>1. TypeOK
  BY DEF Init, TypeOK, Slots, Contents
<1>2. Punctual
  BY DEF Init, Punctual, Overtaken
<1>3. Positions
  BY SlotFacts DEF Init, Positions
<1>4. LiveSlots
  BY DEF Init, LiveSlots
<1>5. \A c \in Consumers : InDequeue(c)
  BY DEF Init, InDequeue
<1>6. DistinctClaims
  BY DEF Init, DistinctClaims
<1>7. Delivery
  BY DEF Init, Delivery, Held, Jobs, Contents
<1> QED BY <1>1, <1>2, <1>3, <1>4, <1>5, <1>6, <1>7 DEF IInv

\* Types are preserved by every step.
LEMMA TypeStep == IInv /\ [Next]_vars => TypeOK'
<1> SUFFICES ASSUME IInv, [Next]_vars PROVE TypeOK'
  OBVIOUS
<1> USE CapacityAssumption, BoundAssumption
<1>1. TypeOK /\ Positions /\ \A c \in Consumers : InDequeue(c)
  BY DEF IInv
<1>2. \A i \in Slots : NextIndex(i) \in Slots
  BY DivMod DEF NextIndex, Slots
<1> USE DEF TypeOK, ring, enqueueVars, dequeueVars
<1>3. CASE EnqueueRoom
  BY <1>1, <1>3 DEF EnqueueRoom
<1>4. CASE EnqueueFull
  BY <1>1, <1>4 DEF EnqueueFull
<1>5. CASE EnqueueWrite
  BY <1>1, <1>5 DEF EnqueueWrite, Positions, Contents
<1>6. CASE EnqueuePublish
  BY <1>1, <1>2, <1>6 DEF EnqueuePublish, Positions, Contents
<1>7. ASSUME NEW c \in Consumers, Dequeue(c) PROVE TypeOK'
  <2>1. CASE LoadFirst(c)
    BY <1>1, <2>1 DEF LoadFirst
  <2>2. CASE LoadLast(c)
    BY <1>1, <2>2 DEF LoadLast
  <2>3. CASE ClaimSlot(c)
    BY <1>1, <1>2, <2>3 DEF ClaimSlot
  <2>4. CASE LoseRace(c)
    BY <1>1, <2>4 DEF LoseRace
  <2>5. CASE CopySlot(c)
    BY <1>1, <2>5 DEF CopySlot
  <2> QED BY <1>7, <2>1, <2>2, <2>3, <2>4, <2>5 DEF Dequeue
<1>8. CASE UNCHANGED vars
  BY <1>1, <1>8 DEF vars
<1> QED BY <1>3, <1>4, <1>5, <1>6, <1>7, <1>8 DEF Next

\* Enqueue finds room only when the slot behind First stays free.
LEMMA RoomIsFree ==
  ASSUME IInv, EnqueueRoom
  PROVE  tail + 1 < head + Capacity
<1> USE CapacityAssumption
<1>1. /\ head \in Nat /\ tail \in Nat /\ Positions /\ TypeOK
  BY DEF IInv, TypeOK, Contents
<1>2. tail + 1 # head + Capacity
  <2> SUFFICES ASSUME tail + 1 = head + Capacity PROVE FALSE
    OBVIOUS
  <2>1. NextIndex(Last) = Slot(tail + 1)
    BY <1>1, SlotFacts DEF Positions
  <2>2. Slot(head + Capacity) = Slot(head)
    BY <1>1, LapSlot DEF Slot
  <2> QED BY <1>1, <2>1, <2>2 DEF EnqueueRoom, Positions
<1> QED BY <1>1, <1>2 DEF Positions

\* The producer's steps preserve the rest of the invariant.
LEMMA EnqueueStep ==
  ASSUME IInv, TypeOK', Punctual',
         EnqueueRoom \/ EnqueueFull \/ EnqueueWrite \/ EnqueuePublish
  PROVE  IInv'
<1> USE CapacityAssumption, BoundAssumption
<1>1. /\ TypeOK /\ Punctual /\ Positions /\ LiveSlots /\ DistinctClaims
      /\ Delivery /\ \A c \in Consumers : InDequeue(c)
  BY DEF IInv
<1>2. UNCHANGED dequeueVars
  BY DEF EnqueueRoom, EnqueueFull, EnqueueWrite, EnqueuePublish
<1>3. DistinctClaims' /\ Delivery'
  BY <1>1, <1>2 DEF DistinctClaims, Delivery, Held, dequeueVars
<1>4. CASE EnqueueRoom
  <2>1. tail + 1 < head + Capacity
    BY <1>4, RoomIsFree
  <2>2. Positions'
    BY <1>1, <1>4, <2>1 DEF EnqueueRoom, Positions, TypeOK, Contents, ring, dequeueVars
  <2>3. LiveSlots'
    BY <1>1, <1>4 DEF EnqueueRoom, LiveSlots, ring, dequeueVars
  <2>4. ASSUME NEW c \in Consumers PROVE InDequeue(c)'
    <3>1. /\ UNCHANGED <<outValue, head, tail, consumer, originalFirst, seen, Memory>>
          /\ producer' = "write"
      BY <1>4 DEF EnqueueRoom, ring, dequeueVars
    <3>2. consumer[c] = "copy" => tail < seen[c] + Capacity
      <4>1. seen[c] \in Nat /\ tail \in Nat
        BY <1>1 DEF TypeOK, Contents
      <4>2. consumer[c] = "copy" => ~ tail >= seen[c] + Capacity
        BY <3>1 DEF Punctual, Overtaken
      <4> QED BY <4>1, <4>2
    <3> QED BY <1>1, <3>1, <3>2 DEF InDequeue
  <2> QED BY <1>3, <2>2, <2>3, <2>4 DEF IInv
<1>5. CASE EnqueueFull
  BY <1>1, <1>3, <1>5 DEF EnqueueFull, IInv, Positions, LiveSlots, InDequeue, ring, dequeueVars
<1>6. CASE EnqueueWrite
  <2> USE <1>6 DEF EnqueueWrite, dequeueVars
  <2>1. Positions'
    BY <1>1 DEF Positions
  <2>2. tail \in Nat /\ head \in Nat
    BY <1>1 DEF TypeOK, Contents
  <2>3. \A k \in Nat : k < tail /\ tail < k + Capacity => Memory'[Slot(k)] = Memory[Slot(k)]
    BY <1>1, <2>2, SlotFacts DEF Positions, TypeOK
  <2>4. LiveSlots'
    BY <1>1, <2>2, <2>3, SlotFacts DEF LiveSlots, Positions, TypeOK
  <2>5. ASSUME NEW c \in Consumers PROVE InDequeue(c)'
    <3>1. CASE consumer[c] = "copy"
      <4>1. seen[c] \in Nat /\ seen[c] < tail /\ tail < seen[c] + Capacity
        BY <1>1, <2>2, <3>1 DEF Punctual, Overtaken, InDequeue, Positions, TypeOK
      <4>2. Memory'[originalFirst[c]] = seen[c] + 1
        BY <1>1, <2>3, <3>1, <4>1 DEF InDequeue
      <4> QED BY <1>1, <3>1, <4>1, <4>2 DEF InDequeue
    <3>2. CASE consumer[c] # "copy"
      BY <1>1, <3>2 DEF InDequeue
    <3> QED BY <3>1, <3>2
  <2> QED BY <1>3, <2>1, <2>4, <2>5 DEF IInv
<1>7. CASE EnqueuePublish
  <2> USE <1>7 DEF EnqueuePublish, dequeueVars
  <2>1. tail \in Nat /\ head \in Nat
    BY <1>1 DEF TypeOK, Contents
  <2>2. Positions'
    BY <1>1, <2>1, SlotFacts DEF Positions
  <2>3. LiveSlots'
    <3> SUFFICES ASSUME NEW k \in Nat, head <= k, k < tail + 1
                 PROVE  Memory[Slot(k)] = k + 1
      BY DEF LiveSlots
    <3>1. CASE k = tail
      BY <1>1, <3>1 DEF LiveSlots, Positions
    <3>2. CASE k < tail
      BY <1>1, <3>2 DEF LiveSlots
    <3> QED BY <2>1, <3>1, <3>2
  <2>4. ASSUME NEW c \in Consumers PROVE InDequeue(c)'
    <3>1. seen[c] \in Nat
      BY <1>1 DEF TypeOK
    <3>2. consumer[c] = "copy" => tail + 1 <= seen[c] + Capacity
      BY <1>1, <2>1, <3>1 DEF InDequeue
    <3> QED BY <1>1, <2>1, <3>1, <3>2 DEF InDequeue
  <2> QED BY <1>3, <2>2, <2>3, <2>4 DEF IInv
<1> QED BY <1>4, <1>5, <1>6, <1>7

\* The consumers' steps preserve the rest of the invariant.
LEMMA DequeueStep ==
  ASSUME IInv, TypeOK', Punctual', NEW c \in Consumers, Dequeue(c)
  PROVE  IInv'
<1> USE CapacityAssumption, BoundAssumption
<1>1. /\ TypeOK /\ Punctual /\ Positions /\ LiveSlots /\ DistinctClaims
      /\ Delivery /\ \A d \in Consumers : InDequeue(d)
  BY DEF IInv
<1>2. /\ head \in Nat /\ tail \in Nat /\ seen \in [Consumers -> Nat]
      /\ outValue \in [Consumers -> Contents]
      /\ \A d \in Consumers : outValue[d] \in Nat
      /\ consumer \in [Consumers -> {"idle", "loadLast", "cas", "copy"}]
      /\ originalFirst \in [Consumers -> Slots]
  <2>1. TypeOK
    BY <1>1
  <2>2. tail \in Nat /\ \A d \in Consumers : outValue[d] \in Nat
    <3>1. \A n \in Contents : n \in Nat
      BY DEF Contents
    <3> QED BY <2>1, <3>1 DEF TypeOK
  <2> QED BY <2>1, <2>2 DEF TypeOK
<1>3. CASE LoadFirst(c)
  <2> USE <1>3 DEF LoadFirst, ring, enqueueVars
  <2>1. Positions' /\ LiveSlots'
    BY <1>1 DEF Positions, LiveSlots
  <2>2. \A d \in Consumers : InDequeue(d)'
    BY <1>1, <1>2 DEF InDequeue, Positions
  <2>3. DistinctClaims'
    BY <1>1, <1>2 DEF DistinctClaims
  <2>4. \A v \in Jobs : Held(v)' = Held(v)
    BY <1>1, <1>2 DEF Held
  <2>5. Delivery'
    BY <1>1, <2>4 DEF Delivery
  <2> QED BY <2>1, <2>2, <2>3, <2>5 DEF IInv
<1>4. CASE LoadLast(c)
  <2> USE <1>4 DEF LoadLast, ring, enqueueVars
  <2>1. Positions' /\ LiveSlots'
    BY <1>1 DEF Positions, LiveSlots
  <2>2. originalFirst[c] # Last => seen[c] < tail
    <3>1. originalFirst[c] = Slot(seen[c]) /\ seen[c] <= head
      BY <1>1 DEF InDequeue
    <3>2. Last = Slot(tail) /\ head <= tail
      BY <1>1 DEF Positions
    <3>3. originalFirst[c] # Last => seen[c] # tail
      BY <3>1, <3>2
    <3> QED BY <1>2, <3>1, <3>2, <3>3
  <2>3. \A d \in Consumers : InDequeue(d)'
    BY <1>1, <1>2, <2>2 DEF InDequeue
  <2>4. DistinctClaims'
    BY <1>1, <1>2 DEF DistinctClaims
  <2>5. \A v \in Jobs : Held(v)' = Held(v)
    BY <1>1, <1>2 DEF Held
  <2>6. Delivery'
    BY <1>1, <2>5 DEF Delivery
  <2> QED BY <2>1, <2>3, <2>4, <2>6 DEF IInv
<1>5. CASE ClaimSlot(c)
  <2> USE <1>5 DEF ClaimSlot, enqueueVars
  <2>1. seen[c] = head /\ head < tail
    <3>1. /\ seen[c] <= head /\ seen[c] < tail
          /\ originalFirst[c] = Slot(seen[c])
      BY <1>1 DEF InDequeue
    <3>2. ~ head >= seen[c] + Capacity
      BY <1>1 DEF Punctual, Overtaken
    <3>3. Slot(seen[c]) = Slot(head)
      BY <1>1, <3>1 DEF Positions
    <3>4. seen[c] \in Nat
      BY <1>2
    <3>5. seen[c] < head => seen[c] + Capacity <= head
      BY <1>2, <3>3, <3>4, SlotFacts
    <3> QED BY <1>2, <3>1, <3>2, <3>4, <3>5
  <2>2. Positions'
    BY <1>1, <1>2, <2>1, SlotFacts DEF Positions
  <2>3. LiveSlots'
    BY <1>1, <1>2 DEF LiveSlots
  <2>4. Memory[originalFirst[c]] = head + 1
    BY <1>1, <1>2, <2>1 DEF LiveSlots, Positions
  <2>5. ASSUME NEW d \in Consumers PROVE InDequeue(d)'
    <3>1. tail < head + Capacity
      BY <1>1 DEF Positions
    <3> QED BY <1>1, <1>2, <2>1, <2>4, <3>1 DEF InDequeue
  <2>6. \A d \in Consumers : consumer[d] = "copy" => seen[d] < head
    BY <1>1 DEF InDequeue
  <2>7. DistinctClaims'
    BY <1>1, <1>2, <2>1, <2>6 DEF DistinctClaims
  <2>8. ASSUME NEW v \in Jobs
        PROVE  v <= head + 1 /\ Held(v)' = {} <=> v <= head /\ Held(v) = {}
    <3>1. v \in Nat
      BY DEF Jobs
    <3>2. CASE v = head + 1
      <4>1. c \in Held(v)'
        BY <1>2, <2>1, <3>2 DEF Held
      <4> QED BY <1>2, <3>2, <4>1
    <3>3. CASE v # head + 1
      <4>1. Held(v)' = Held(v)
        BY <1>2, <2>1, <3>3 DEF Held
      <4> QED BY <1>2, <3>1, <3>3, <4>1
    <3> QED BY <3>2, <3>3
  <2>9. Delivery'
    BY <1>1, <2>8 DEF Delivery
  <2> QED BY <2>2, <2>3, <2>5, <2>7, <2>9 DEF IInv
<1>6. CASE LoseRace(c)
  <2> USE <1>6 DEF LoseRace, ring, enqueueVars
  <2>1. Positions' /\ LiveSlots'
    BY <1>1 DEF Positions, LiveSlots
  <2>2. \A d \in Consumers : InDequeue(d)'
    BY <1>1, <1>2 DEF InDequeue
  <2>3. DistinctClaims'
    BY <1>1, <1>2 DEF DistinctClaims
  <2>4. \A v \in Jobs : Held(v)' = Held(v)
    BY <1>1, <1>2 DEF Held
  <2>5. Delivery'
    BY <1>1, <2>4 DEF Delivery
  <2> QED BY <2>1, <2>2, <2>3, <2>5 DEF IInv
<1>7. CASE CopySlot(c)
  <2> USE <1>7 DEF CopySlot, ring, enqueueVars
  <2>1. Positions' /\ LiveSlots'
    BY <1>1 DEF Positions, LiveSlots
  <2>2. Memory[originalFirst[c]] = seen[c] + 1 /\ seen[c] < head
    BY <1>1 DEF InDequeue
  <2>3. \A d \in Consumers : InDequeue(d)'
    BY <1>1, <1>2, <2>2 DEF InDequeue
  <2>4. DistinctClaims'
    BY <1>1, <1>2 DEF DistinctClaims
  <2>5. seen[c] + 1 \in Jobs
    BY <1>1, <1>2, <2>2 DEF Positions, Jobs, TypeOK, Contents
  <2>6. delivered' = [delivered EXCEPT ![seen[c] + 1] = @ + 1]
    BY <2>2
  <2>7. ASSUME NEW v \in Jobs PROVE delivered'[v] = IF v <= head /\ Held(v)' = {} THEN 1 ELSE 0
    <3>1. delivered \in [Contents -> Nat] /\ v \in Contents
      BY <1>1 DEF TypeOK, Jobs, Contents
    <3>2. CASE v = seen[c] + 1
      <4>1. c \in Held(v)
        BY <1>2, <3>2 DEF Held
      <4>2. Held(v)' = {}
        <5> SUFFICES ASSUME NEW d \in Held(v)' PROVE FALSE
          OBVIOUS
        <5>1. d \in Consumers /\ d # c /\ consumer[d] = "copy" /\ seen[d] + 1 = v
          BY <1>2 DEF Held
        <5>2. seen[d] = seen[c]
          BY <1>2, <3>2, <5>1
        <5> QED BY <1>1, <5>1, <5>2 DEF DistinctClaims
      <4> QED BY <1>1, <1>2, <2>2, <2>6, <3>1, <3>2, <4>1, <4>2 DEF Delivery
    <3>3. CASE v # seen[c] + 1
      <4>1. Held(v)' = Held(v)
        BY <1>2, <3>3 DEF Held
      <4> QED BY <1>1, <2>6, <3>1, <3>3, <4>1 DEF Delivery
    <3> QED BY <3>2, <3>3
  <2>8. delivered'[0] = 0
    BY <1>1, <1>2, <2>6 DEF Delivery, TypeOK, Contents
  <2>9. Delivery'
    BY <2>7, <2>8 DEF Delivery
  <2> QED BY <2>1, <2>3, <2>4, <2>9 DEF IInv
<1> QED BY <1>3, <1>4, <1>5, <1>6, <1>7 DEF Dequeue

\* The invariant is inductive under the timing assumption.
LEMMA NextIInv == IInv /\ [Next /\ Punctual']_vars => IInv'
<1> SUFFICES ASSUME IInv, [Next /\ Punctual']_vars PROVE IInv'
  OBVIOUS
<1>1. TypeOK'
  BY TypeStep
<1>2. CASE Next /\ Punctual'
  BY <1>1, <1>2, EnqueueStep, DequeueStep DEF Next
<1>3. CASE UNCHANGED vars
  BY <1>3 DEF vars, ring, enqueueVars, dequeueVars, IInv, TypeOK, Punctual, Overtaken, Positions,
              LiveSlots, InDequeue, DistinctClaims, Delivery, Held
<1> QED BY <1>2, <1>3

\* The other actions overtake nobody.
LEMMA PunctualStep == IInv /\ PunctualNext => Next /\ Punctual'
<1> SUFFICES ASSUME IInv, PunctualNext PROVE Next /\ Punctual'
  OBVIOUS
<1> USE CapacityAssumption
<1>1. Next
  BY DEF PunctualNext, Next, Dequeue
<1>2. /\ head \in Nat /\ tail \in Nat /\ seen \in [Consumers -> Nat]
      /\ consumer \in [Consumers -> {"idle", "loadLast", "cas", "copy"}]
      /\ Punctual
  BY DEF IInv, TypeOK, Contents
<1>3. CASE EnqueueFull \/ EnqueueWrite \/ EnqueuePublish
  BY <1>1, <1>2, <1>3 DEF EnqueueFull, EnqueueWrite, EnqueuePublish, ring,
                         dequeueVars, Punctual, Overtaken
<1>4. ASSUME NEW c \in Consumers,
             LoadFirst(c) \/ LoadLast(c) \/ LoseRace(c) \/ CopySlot(c)
      PROVE  Punctual'
  <2>1. ASSUME NEW d \in Consumers, d # c PROVE ~ Overtaken(d)'
    BY <1>2, <1>4, <2>1 DEF LoadFirst, LoadLast, LoseRace, CopySlot, ring,
                            enqueueVars, Punctual, Overtaken
  <2>2. ~ Overtaken(c)'
    BY <1>2, <1>4 DEF LoadFirst, LoadLast, LoseRace, CopySlot, ring,
                      enqueueVars, Punctual, Overtaken
  <2> QED BY <2>1, <2>2, <1>4 DEF Punctual
<1> QED BY <1>1, <1>3, <1>4 DEF PunctualNext

\* The inductive invariant holds in every state of a punctual run.
THEOREM PunctualIInv == PunctualSpec => []IInv
<1>1. IInv /\ [PunctualNext]_vars => IInv'
  BY PunctualStep, NextIInv
<1> QED BY <1>1, InitIInv, PTL DEF PunctualSpec

\* First never passes Last, whatever Capacity is: nothing is dequeued that was
\* not yet enqueued.
THEOREM PunctualOnlyPublished == PunctualSpec => []OnlyPublishedIsClaimed
<1>1. IInv => OnlyPublishedIsClaimed
  BY DEF IInv, Positions, OnlyPublishedIsClaimed
<1> QED BY <1>1, PunctualIInv, PTL

\* The types of the ring's state.
THEOREM PunctualTypeOK == PunctualSpec => []TypeOK
<1>1. IInv => TypeOK
  BY DEF IInv
<1> QED BY <1>1, PunctualIInv, PTL

\* A position has at most one holder.
LEMMA HeldCardinality ==
  ASSUME IInv, NEW v \in Jobs
  PROVE  Cardinality(Held(v)) = IF Held(v) = {} THEN 0 ELSE 1
<1>1. CASE Held(v) = {}
  BY <1>1, FS_EmptySet
<1>2. CASE Held(v) # {}
  <2>1. PICK c \in Consumers : c \in Held(v)
    BY <1>2 DEF Held
  <2>2. \A d \in Held(v) : seen[d] = seen[c]
    BY <2>1 DEF IInv, TypeOK, Held
  <2>3. Held(v) = {c}
    BY <2>1, <2>2 DEF IInv, DistinctClaims, Held
  <2>4. Cardinality({c}) = 1
    BY FS_Singleton
  <2> QED BY <1>2, <2>3, <2>4
<1> QED BY <1>1, <1>2

\* The invariant says where every accepted value is.
LEMMA IInvExactlyOnce == IInv => ExactlyOnce
<1> SUFFICES ASSUME IInv PROVE ExactlyOnce
  OBVIOUS
<1>1. /\ TypeOK /\ Positions /\ LiveSlots /\ Delivery
      /\ \A c \in Consumers : InDequeue(c)
  BY DEF IInv
<1>2. delivered[0] = 0
  BY <1>1 DEF Delivery
<1>3. ASSUME NEW v \in Jobs
      PROVE  /\ delivered[v] + Cardinality(Held(v)) = (IF v <= head THEN 1 ELSE 0)
             /\ \A c \in Held(v) : Memory[originalFirst[c]] = v
             /\ head < v /\ v <= tail => Memory[Slot(v - 1)] = v
  <2>1. \A c \in Held(v) : v <= head /\ Memory[originalFirst[c]] = v
    BY <1>1 DEF Held, InDequeue, TypeOK
  <2>2. delivered[v] + Cardinality(Held(v)) = (IF v <= head THEN 1 ELSE 0)
    BY <1>1, <2>1, HeldCardinality DEF Delivery
  <2>3. ASSUME head < v, v <= tail PROVE Memory[Slot(v - 1)] = v
    <3>1. v \in Nat /\ head \in Nat /\ tail \in Nat
      BY <1>1 DEF Jobs, TypeOK, Contents
    <3>2. v - 1 \in Nat /\ head <= v - 1 /\ v - 1 < tail
      BY <2>3, <3>1
    <3>3. Memory[Slot(v - 1)] = (v - 1) + 1
      BY <1>1, <3>2 DEF LiveSlots
    <3> QED BY <3>1, <3>3
  <2> QED BY <2>1, <2>2, <2>3
<1> QED BY <1>2, <1>3 DEF ExactlyOnce

\* Every accepted value is handed out once, held by one consumer, or in the
\* ring, for every Capacity and every number of consumers.
THEOREM PunctualExactlyOnce == PunctualSpec => []ExactlyOnce
BY IInvExactlyOnce, PunctualIInv, PTL

\* The slot that a consumer copies is never the one the producer writes.
LEMMA IInvNoDataRace == IInv => NoDataRace
<1> SUFFICES ASSUME IInv, NEW c \in Consumers,
                    consumer[c] = "copy", producer = "write",
                    originalFirst[c] = Last
             PROVE  FALSE
  BY DEF NoDataRace
<1>1. /\ seen[c] \in Nat /\ head \in Nat /\ tail \in Nat
      /\ Capacity \in Nat \ {0}
  BY CapacityAssumption DEF IInv, TypeOK, Contents
<1>2. Slot(seen[c]) = Slot(tail) /\ seen[c] < head /\ head <= tail
  BY DEF IInv, Positions, InDequeue
<1>3. seen[c] < tail
  BY <1>1, <1>2
<1>4. seen[c] + Capacity <= tail
  BY <1>1, <1>2, <1>3, SlotFacts
<1>5. ~ tail >= seen[c] + Capacity
  BY DEF IInv, Punctual, Overtaken
<1> QED BY <1>1, <1>4, <1>5

THEOREM PunctualNoDataRace == PunctualSpec => []NoDataRace
BY IInvNoDataRace, PunctualIInv, PTL

\* What a consumer copies is later than all it copied before.
THEOREM PunctualFifo == PunctualSpec => FifoPerConsumer
<1>1. ASSUME IInv, [PunctualNext]_vars, NEW c \in Consumers,
             consumer[c] = "copy", consumer'[c] = "idle"
      PROVE  outValue'[c] > outValue[c]
  <2>1. consumer \in [Consumers -> {"idle", "loadLast", "cas", "copy"}]
    BY <1>1 DEF IInv, TypeOK
  <2>2. CopySlot(c)
    <3>1. PICK d \in Consumers : Dequeue(d)
      BY <1>1, PunctualStep DEF Next, EnqueueRoom, EnqueueFull, EnqueueWrite,
                  EnqueuePublish, vars, dequeueVars
    <3>2. CASE d = c
      BY <1>1, <2>1, <3>1, <3>2 DEF Dequeue, LoadFirst, LoadLast, ClaimSlot, LoseRace
    <3>3. CASE d # c
      <4>1. consumer'[c] = consumer[c]
        BY <2>1, <3>1, <3>3 DEF Dequeue, LoadFirst, LoadLast, ClaimSlot, LoseRace, CopySlot
      <4> QED BY <1>1, <4>1
    <3> QED BY <3>2, <3>3
  <2>3. outValue[c] \in Nat /\ seen[c] \in Nat /\ outValue \in [Consumers -> Contents]
    <3>1. \A n \in Contents : n \in Nat
      BY DEF Contents
    <3> QED BY <1>1, <3>1 DEF IInv, TypeOK
  <2>4. outValue[c] <= seen[c] /\ Memory[originalFirst[c]] = seen[c] + 1
    BY <1>1 DEF IInv, InDequeue
  <2> QED BY <2>2, <2>3, <2>4 DEF CopySlot
<1>2. IInv /\ [PunctualNext]_vars => CopiesLater
  BY <1>1 DEF CopiesLater
<1> QED BY <1>2, PunctualIInv, PTL DEF PunctualSpec, FifoPerConsumer

-----------------------------------------------------------------------------
(***************************************************************************)
(* One consumer.  First moves only by its own compare-exchange, so what it *)
(* loaded is current until then, and afterwards it is one behind; and a    *)
(* producer that found room writes at most Capacity - 2 positions after    *)
(* First, which leaves the slot of the position before First alone.        *)
(***************************************************************************)
Alone(c) ==
  /\ consumer[c] \in {"loadLast", "cas"} => seen[c] = head
  /\ consumer[c] = "copy" => seen[c] + 1 = head

\* A lone consumer is not overtaken by any step.
LEMMA AloneStep ==
  ASSUME NEW c, Consumers = {c}, IInv, Alone(c), [Next]_vars
  PROVE  Alone(c)' /\ Punctual'
<1> USE CapacityAssumption
<1>1. /\ head \in Nat /\ tail \in Nat /\ seen \in [Consumers -> Nat]
      /\ consumer \in [Consumers -> {"idle", "loadLast", "cas", "copy"}]
      /\ c \in Consumers
  BY DEF IInv, TypeOK, Contents
<1>2. Positions /\ ~ Overtaken(c)
  BY DEF IInv, Punctual
<1>3. producer' = "write" /\ producer # "write" => EnqueueRoom
  BY DEF Next, Dequeue, EnqueueFull, EnqueueWrite, EnqueuePublish, LoadFirst,
         LoadLast, ClaimSlot, LoseRace, CopySlot, vars, ring, enqueueVars
<1>4. producer' = "write" => tail' = tail /\ tail + 1 < head + Capacity
  BY <1>2, <1>3, RoomIsFree
     DEF Positions, Next, Dequeue, EnqueueRoom, EnqueueFull, EnqueueWrite,
         EnqueuePublish, LoadFirst, LoadLast, ClaimSlot, LoseRace, CopySlot,
         vars, ring, enqueueVars
<1>5. Alone(c)' /\ head' >= head /\ head' \in Nat
  <2>1. CASE UNCHANGED dequeueVars
    BY <1>1, <2>1 DEF Alone, dequeueVars
  <2>2. CASE Dequeue(c)
    <3>1. consumer[c] = "cas" => seen[c] = head
      BY DEF Alone
    <3> QED BY <1>1, <2>2, <3>1
            DEF Alone, Dequeue, LoadFirst, LoadLast, ClaimSlot, LoseRace, CopySlot
  <2> QED BY <2>1, <2>2
          DEF Next, EnqueueRoom, EnqueueFull, EnqueueWrite, EnqueuePublish, vars
<1>6. seen' \in [Consumers -> Nat]
  BY TypeStep DEF TypeOK
<1>7. ~ Overtaken(c)'
  BY <1>1, <1>4, <1>5, <1>6 DEF Alone, Overtaken
<1> QED BY <1>5, <1>7 DEF Punctual

\* With one consumer the ring needs no assumption on the speed of its threads:
\* nothing is lost, duplicated or read while it is written.
THEOREM OneConsumerIsSafe ==
  ASSUME NEW c, Consumers = {c}
  PROVE  Spec => [](ExactlyOnce /\ NoDataRace)
<1>1. Init => IInv /\ Alone(c)
  BY InitIInv DEF Init, Alone
<1>2. IInv /\ Alone(c) /\ [Next]_vars => (IInv /\ Alone(c))'
  BY AloneStep, NextIInv
<1>3. IInv => ExactlyOnce /\ NoDataRace
  BY IInvExactlyOnce, IInvNoDataRace
<1> QED BY <1>1, <1>2, <1>3, PTL DEF Spec

\* With one consumer, the ring as the code has it only does what it does under
\* the timing assumption: all that holds of PunctualSpec holds of Spec, that it
\* implements FifoQueues included.
THEOREM OneConsumerIsPunctual ==
  ASSUME NEW c, Consumers = {c}
  PROVE  Spec => PunctualSpec
<1>1. Init => IInv /\ Alone(c)
  BY InitIInv DEF Init, Alone
<1>2. IInv /\ Alone(c) /\ [Next]_vars => (IInv /\ Alone(c))'
  BY AloneStep, NextIInv
<1>3. IInv /\ Alone(c) /\ [Next]_vars => [PunctualNext]_vars
  <2> SUFFICES ASSUME IInv, Alone(c), Next PROVE PunctualNext
    OBVIOUS
  <2>1. Punctual'
    BY AloneStep
  <2> QED BY <2>1 DEF Next, PunctualNext, Dequeue
<1> QED BY <1>1, <1>2, <1>3, PTL DEF Spec, PunctualSpec

-----------------------------------------------------------------------------
(***************************************************************************)
(* The ring implements the bounded FIFO of FifoQueues, for every Capacity  *)
(* and every set of consumers none of whom is overtaken by a lap.  By the  *)
(* invariant the values between head and tail are consecutive numbers, so  *)
(* that the abstract queue is the sequence of them; every step of the ring *)
(* then is a step of the queue or leaves it as it was.                     *)
(***************************************************************************)

\* The sequence of the numbers above h up to t.
Between(h, t) == [i \in 1 .. t - h |-> h + i]

LEMMA BetweenFacts ==
  ASSUME NEW h \in Nat, NEW t \in Nat, h <= t
  PROVE  /\ Between(h, t) \in Seq(Nat)
         /\ Len(Between(h, t)) = t - h
         /\ h = t => Between(h, t) = <<>>
         /\ h # t => Between(h, t) # <<>>
<1>1. t - h \in Nat /\ \A i \in 1 .. t - h : h + i \in Nat
  OBVIOUS
<1>2. Between(h, t) \in Seq(Nat) /\ Len(Between(h, t)) = t - h
  BY <1>1 DEF Between
<1> QED BY <1>1, <1>2, EmptySeq

LEMMA BetweenAppend ==
  ASSUME NEW h \in Nat, NEW t \in Nat, h <= t
  PROVE  Append(Between(h, t), t + 1) = Between(h, t + 1)
<1> DEFINE s == Append(Between(h, t), t + 1)
           u == Between(h, t + 1)
<1>1. /\ Between(h, t) \in Seq(Nat) /\ Len(Between(h, t)) = t - h
      /\ u \in Seq(Nat) /\ Len(u) = t + 1 - h
  <2>1. t + 1 \in Nat /\ h <= t + 1
    OBVIOUS
  <2>2. u \in Seq(Nat) /\ Len(u) = t + 1 - h
    BY ONLY <2>1, h \in Nat, BetweenFacts
  <2> QED BY <2>2, BetweenFacts
<1>2. /\ s \in Seq(Nat) /\ Len(s) = t - h + 1
      /\ \A i \in 1 .. t - h : s[i] = Between(h, t)[i]
      /\ s[t - h + 1] = t + 1
  <2>1. t + 1 \in Nat
    OBVIOUS
  <2> QED BY <1>1, <2>1, AppendProperties
<1>3. \A i \in 1 .. t - h : Between(h, t)[i] = h + i
  BY DEF Between
<1>4. \A i \in 1 .. t + 1 - h : u[i] = h + i
  BY DEF Between
<1> HIDE DEF s, u
<1>5. \A i \in 1 .. Len(s) : s[i] = u[i]
  <2> SUFFICES ASSUME NEW i \in 1 .. t - h + 1 PROVE s[i] = h + i
    BY <1>1, <1>2, <1>4
  <2>1. CASE i \in 1 .. t - h
    BY <1>2, <1>3, <2>1
  <2>2. CASE i = t - h + 1
    <3>1. s[i] = t + 1 /\ h + i = t + 1
      BY <1>2, <2>2
    <3> QED BY <3>1
  <2> QED BY <2>1, <2>2
<1>6. Len(s) = Len(u)
  BY <1>1, <1>2
<1>7. s = u
  BY <1>1, <1>2, <1>5, <1>6, SeqEqual
<1> QED BY <1>7 DEF s, u

LEMMA BetweenTail ==
  ASSUME NEW h \in Nat, NEW t \in Nat, h < t
  PROVE  /\ Head(Between(h, t)) = h + 1
         /\ Tail(Between(h, t)) = Between(h + 1, t)
<1> DEFINE s == Between(h, t)
           r == Tail(s)
           u == Between(h + 1, t)
<1>1. /\ s \in Seq(Nat) /\ Len(s) = t - h /\ s # <<>>
      /\ u \in Seq(Nat) /\ Len(u) = t - (h + 1)
  <2>1. h + 1 \in Nat /\ h + 1 <= t /\ h <= t /\ h # t
    OBVIOUS
  <2> QED BY <2>1, BetweenFacts
<1>2. \A i \in 1 .. t - h : s[i] = h + i
  BY DEF Between
<1>3. \A i \in 1 .. t - (h + 1) : u[i] = h + 1 + i
  BY DEF Between
<1> HIDE DEF s, u
<1>4. /\ Head(s) = s[1] /\ r \in Seq(Nat) /\ Len(r) = t - h - 1
      /\ \A i \in 1 .. t - h - 1 : r[i] = s[i + 1]
  BY <1>1, HeadTailProperties
<1> HIDE DEF r
<1>5. \A i \in 1 .. Len(r) : r[i] = u[i]
  <2> SUFFICES ASSUME NEW i \in 1 .. t - h - 1 PROVE r[i] = u[i]
    BY <1>4
  <2>1. i + 1 \in 1 .. t - h /\ i \in 1 .. t - (h + 1)
    OBVIOUS
  <2> QED BY <2>1, <1>2, <1>3, <1>4
<1>6. Len(r) = Len(u)
  BY <1>1, <1>4
<1>7. r = u
  BY <1>1, <1>4, <1>5, <1>6, SeqEqual
<1>8. s[1] = h + 1
  BY <1>2
<1> QED BY <1>4, <1>7, <1>8 DEF s, r, u

-----------------------------------------------------------------------------

\* The abstract queue and what consumers hold, in terms of the counts.
AbstractByCounts ==
  /\ AbstractQueue = [q \in {0} |-> Between(head, tail)]
  /\ AbstractOut = [c \in Consumers |->
       IF consumer[c] = "copy" THEN seen[c] + 1 ELSE outValue[c]]

LEMMA AbstractState == IInv => AbstractByCounts
<1> SUFFICES ASSUME IInv PROVE AbstractByCounts
  OBVIOUS
<1>1. head \in Nat /\ tail \in Nat /\ LiveSlots /\ \A c \in Consumers : InDequeue(c)
  BY DEF IInv, TypeOK, Contents
<1>2. ASSUME NEW i \in 1 .. tail - head
      PROVE  Memory[Slot(head + i - 1)] = head + i
  <2>1. head + i - 1 \in Nat /\ head <= head + i - 1 /\ head + i - 1 < tail
    BY <1>1
  <2>2. Memory[Slot(head + i - 1)] = (head + i - 1) + 1
    BY <1>1, <2>1 DEF LiveSlots
  <2> QED BY <1>1, <2>2
<1>3. AbstractQueue = [q \in {0} |-> Between(head, tail)]
  BY <1>2 DEF AbstractQueue, Between
<1>4. \A c \in Consumers : consumer[c] = "copy" => Memory[originalFirst[c]] = seen[c] + 1
  BY <1>1 DEF InDequeue
<1> QED BY <1>3, <1>4 DEF AbstractOut, AbstractByCounts

\* What a consumer between its compare-exchange and its copy has claimed: not
\* a whole lap is queued behind it.
LEMMA AbstractClaims ==
  ASSUME IInv, NEW c \in Consumers
  PROVE  /\ consumer[c] # "copy" => AbstractClaim[c] = NoView
         /\ consumer[c] = "copy" =>
              /\ AbstractClaim[c] = [queue |-> 0, behind |-> tail - seen[c] - 1]
              /\ AbstractClaim[c] # NoView
              /\ tail - seen[c] - 1 \in 0 .. Capacity - 1
              /\ producer # "idle" => tail - seen[c] \in 1 .. Capacity - 1
<1> USE CapacityAssumption
<1>1. CASE consumer[c] # "copy"
  BY <1>1 DEF AbstractClaim
<1>2. CASE consumer[c] = "copy"
  <2>1. /\ tail \in Nat /\ seen[c] \in Nat /\ head \in Nat
        /\ seen[c] < head /\ head <= tail /\ tail <= seen[c] + Capacity
        /\ producer # "idle" => tail < seen[c] + Capacity
    BY <1>2 DEF IInv, TypeOK, Contents, Positions, InDequeue
  <2>2. AbstractClaim[c] = [queue |-> 0, behind |-> tail - seen[c] - 1]
    BY <1>2 DEF AbstractClaim
  <2>3. tail - seen[c] - 1 \in 0 .. Capacity - 1
    BY <2>1
  <2>4. producer # "idle" => tail - seen[c] \in 1 .. Capacity - 1
    BY <2>1
  <2>5. AbstractClaim[c] \in [queue : {0}, behind : Nat]
    BY <2>2, <2>3
  <2> QED BY <1>2, <2>2, <2>3, <2>4, <2>5, NoViewAssumption
<1> QED BY <1>1, <1>2

LEMMA ClaimsPunctual == IInv => Promise!Punctual
<1> SUFFICES ASSUME IInv, NEW c \in Consumers, AbstractClaim[c] # NoView
             PROVE  AbstractClaim[c].behind <= Capacity - 1
  BY DEF Promise!Punctual
<1>1. consumer[c] = "copy"
  BY AbstractClaims
<1> DEFINE b == tail - seen[c] - 1
<1>2. AbstractClaim[c] = [queue |-> 0, behind |-> b] /\ b \in 0 .. Capacity - 1
  BY <1>1, AbstractClaims
<1> HIDE DEF b
<1>3. AbstractClaim[c].behind = b
  BY <1>2
<1> QED BY <1>2, <1>3, CapacityAssumption

\* The empty ring is the empty queue.
LEMMA InitRefines == Init => Promise!Init
<1> SUFFICES ASSUME Init PROVE Promise!Init
  OBVIOUS
<1>1. AbstractQueue = [q \in {0} |-> <<>>]
  <2>1. AbstractQueue = [q \in {0} |-> Between(head, tail)]
    BY InitIInv, AbstractState DEF AbstractByCounts
  <2>2. head = 0 /\ tail = 0
    BY DEF Init
  <2>3. Between(0, 0) = <<>>
    BY BetweenFacts
  <2> QED BY <2>1, <2>2, <2>3
<1>2. AbstractView = [c \in Consumers |-> NoView]
  BY DEF Init, AbstractView
<1>3. AbstractOut = [c \in Consumers |-> 0]
  BY DEF Init, AbstractOut
<1>4. couldEnqueue = TRUE /\ AbstractClaim = [c \in Consumers |-> NoView]
  BY DEF Init, AbstractClaim
<1> QED BY <1>1, <1>2, <1>3, <1>4 DEF Promise!Init

\* The producer's steps: only EnqueueFull and EnqueuePublish are steps of the
\* queue.
LEMMA EnqueueRefines ==
  ASSUME IInv, IInv',
         EnqueueRoom \/ EnqueueFull \/ EnqueueWrite \/ EnqueuePublish
  PROVE  Promise!Next \/ UNCHANGED Promise!fifoVars
<1> USE CapacityAssumption, BoundAssumption
<1>1. /\ head \in Nat /\ tail \in Nat /\ Positions /\ head <= tail
      /\ tail < head + Capacity
  BY DEF IInv, TypeOK, Contents, Positions
<1>2. /\ AbstractQueue = [q \in {0} |-> Between(head, tail)]
      /\ AbstractQueue' = [q \in {0} |-> Between(head, tail')]
      /\ AbstractView' = AbstractView
      /\ AbstractOut' = AbstractOut
  <2>1. UNCHANGED dequeueVars
    BY DEF EnqueueRoom, EnqueueFull, EnqueueWrite, EnqueuePublish
  <2>2. /\ AbstractQueue' = [q \in {0} |-> Between(head', tail')]
        /\ AbstractOut' = [c \in Consumers |->
             IF consumer'[c] = "copy" THEN seen'[c] + 1 ELSE outValue'[c]]
    <3>1. AbstractByCounts'
      BY AbstractState, PTL
    <3> QED BY <3>1 DEF AbstractByCounts
  <2>3. AbstractView' = AbstractView
    BY <2>1 DEF AbstractView, dequeueVars
  <2> QED BY <2>1, <2>2, <2>3, AbstractState DEF dequeueVars, AbstractByCounts
<1>3. AbstractQueue[0] = Between(head, tail)
  BY <1>2
<1>4. Len(Between(head, tail)) = tail - head
  BY <1>1, BetweenFacts
<1>10. tail' = tail => AbstractClaim' = AbstractClaim
  <2>1. consumer' = consumer /\ seen' = seen
    BY DEF EnqueueRoom, EnqueueFull, EnqueueWrite, EnqueuePublish, dequeueVars
  <2> QED BY <2>1 DEF AbstractClaim
<1>5. CASE EnqueueRoom \/ EnqueueWrite
  <2>1. tail' = tail /\ couldEnqueue' = couldEnqueue /\ AbstractClaim' = AbstractClaim
    BY <1>5, <1>10 DEF EnqueueRoom, EnqueueWrite
  <2> QED BY <1>2, <2>1 DEF Promise!fifoVars
<1>6. CASE EnqueueFull
  <2>1. Slot(tail + 1) = Slot(head)
    BY <1>1, <1>6, SlotFacts DEF EnqueueFull, Positions
  <2>2. head + Capacity <= tail + 1
    BY <1>1, <2>1, SlotFacts
  <2>3. Len(AbstractQueue[0]) = Capacity - 1
    BY <1>1, <1>3, <1>4, <2>2
  <2>4. couldEnqueue' = FALSE /\ tail' = tail /\ AbstractClaim' = AbstractClaim
    BY <1>6, <1>10 DEF EnqueueFull
  <2>5. Promise!Refuse(0)
    BY <1>2, <2>3, <2>4 DEF Promise!Refuse
  <2> QED BY <2>5 DEF Promise!Next
<1>7. CASE EnqueuePublish
  <2>1. tail + 1 < head + Capacity /\ tail < MaxEnqueues /\ tail' = tail + 1
        /\ couldEnqueue' = TRUE
    BY <1>1, <1>7 DEF EnqueuePublish, Positions
  <2>2. Len(AbstractQueue[0]) < Capacity - 1
    BY <1>1, <1>3, <1>4, <2>1
  <2>3. Append(AbstractQueue[0], tail + 1) = Between(head, tail + 1)
    BY <1>1, <1>3, BetweenAppend
  <2>4. AbstractQueue' = [AbstractQueue EXCEPT ![0] = Append(@, tail + 1)]
    BY <1>2, <2>1, <2>3
  <2>5. tail + 1 \in Jobs
    BY <1>1, <2>1 DEF Jobs
  <2>7. UNCHANGED <<consumer, seen>> /\ producer # "idle"
    BY <1>7 DEF EnqueuePublish, dequeueVars
  <2>8. ASSUME NEW c \in Consumers
        PROVE  /\ ~ Promise!Overwrites(c, 0)
               /\ AbstractClaim'[c] = IF Promise!ClaimsFrom(c, 0)
                                      THEN [queue |-> 0, behind |-> AbstractClaim[c].behind + 1]
                                      ELSE AbstractClaim[c]
    <3>1. CASE consumer[c] = "copy"
      <4> DEFINE b == tail - seen[c] - 1
      <4>1. /\ AbstractClaim[c] = [queue |-> 0, behind |-> b]
            /\ AbstractClaim[c] # NoView
            /\ b \in 0 .. Capacity - 1 /\ tail - seen[c] \in 1 .. Capacity - 1
        BY <2>7, <3>1, AbstractClaims
      <4>2. b + 1 = tail - seen[c] /\ (Capacity - 1) + 1 = Capacity
            /\ tail + 1 - seen[c] - 1 = b + 1
        <5>1. seen[c] \in Nat
          BY DEF IInv, TypeOK
        <5> QED BY <1>1, <5>1
      <4>3. (tail - seen[c]) % Capacity # 0
        BY <4>1, WithinLap
      <4>4. AbstractClaim'[c] = [queue |-> 0, behind |-> b + 1]
        <5>1. AbstractClaim'[c] = [queue |-> 0, behind |-> tail + 1 - seen[c] - 1]
          <6>1. tail' = tail + 1 /\ consumer'[c] = "copy" /\ seen' = seen
            BY <2>1, <2>7, <3>1
          <6>2. AbstractClaim' = [d \in Consumers |->
                  IF consumer'[d] = "copy"
                  THEN [queue |-> 0, behind |-> tail' - seen'[d] - 1] ELSE NoView]
            BY DEF AbstractClaim
          <6>3. AbstractClaim'[c] = [queue |-> 0, behind |-> tail' - seen'[c] - 1]
            BY <6>1, <6>2
          <6>4. tail' - seen'[c] - 1 = tail + 1 - seen[c] - 1
            <7>1. tail \in Nat /\ seen[c] \in Nat /\ tail' \in Nat /\ seen'[c] \in Nat
              BY <1>1, <6>1 DEF IInv, TypeOK
            <7> QED BY <6>1, <7>1
          <6> QED BY <6>3, <6>4
        <5> QED BY <4>2, <5>1
      <4> HIDE DEF b
      <4>5. Promise!ClaimsFrom(c, 0)
        BY <4>1 DEF Promise!ClaimsFrom
      <4>6. (AbstractClaim[c].behind + 1) % ((Capacity - 1) + 1) # 0
        BY <4>1, <4>2, <4>3
      <4>7. ~ Promise!Overwrites(c, 0)
        BY ONLY <4>6 DEF Promise!Overwrites
      <4> QED BY <4>1, <4>4, <4>5, <4>7
    <3>2. CASE consumer[c] # "copy"
      <4>1. AbstractClaim[c] = NoView /\ AbstractClaim'[c] = NoView
        BY <2>7, <3>2 DEF AbstractClaim
      <4>2. ~ Promise!ClaimsFrom(c, 0)
        BY <4>1 DEF Promise!ClaimsFrom
      <4>3. ~ Promise!Overwrites(c, 0)
        BY <4>2 DEF Promise!Overwrites
      <4> QED BY <4>1, <4>2, <4>3
    <3> QED BY <3>1, <3>2
  <2>9. AbstractClaim' = [c \in Consumers |->
                            IF Promise!ClaimsFrom(c, 0)
                            THEN [queue |-> 0, behind |-> AbstractClaim[c].behind + 1]
                            ELSE AbstractClaim[c]]
    BY <2>8 DEF AbstractClaim
  <2>10. AbstractOut' = [c \in Consumers |->
                           IF Promise!Overwrites(c, 0) THEN tail + 1 ELSE AbstractOut[c]]
    <3>1. \A c \in Consumers : ~ Promise!Overwrites(c, 0)
      BY <2>8
    <3>2. AbstractOut' = [c \in Consumers |-> AbstractOut[c]]
      BY <1>2 DEF AbstractOut
    <3> QED BY ONLY <3>1, <3>2
  <2>6. Promise!Put(0, tail + 1)
    BY <1>2, <2>1, <2>2, <2>4, <2>9, <2>10 DEF Promise!Put
  <2> QED BY <2>5, <2>6 DEF Promise!Next
<1> QED BY <1>5, <1>6, <1>7

\* A consumer that claims a slot saw the current head.
LEMMA ClaimsHead ==
  ASSUME IInv, NEW c \in Consumers, consumer[c] = "cas",
         Slot(seen[c]) = Slot(head)
  PROVE  seen[c] = head /\ head < tail
<1> USE CapacityAssumption
<1>1. seen[c] \in Nat /\ head \in Nat /\ tail \in Nat
  BY DEF IInv, TypeOK, Contents
<1>2. seen[c] <= head /\ seen[c] < tail /\ ~ head >= seen[c] + Capacity
  BY DEF IInv, InDequeue, Punctual, Overtaken
<1>3. seen[c] < head => seen[c] + Capacity <= head
  BY <1>1, SlotFacts
<1> QED BY <1>1, <1>2, <1>3

\* The consumers' steps: a look, a claim, a copy, a give-up, or nothing.
LEMMA DequeueRefines ==
  ASSUME IInv, IInv', NEW c \in Consumers, Dequeue(c)
  PROVE  Promise!Next \/ UNCHANGED Promise!fifoVars
<1> USE CapacityAssumption
<1>1. /\ head \in Nat /\ tail \in Nat /\ seen \in [Consumers -> Nat]
      /\ consumer \in [Consumers -> {"idle", "loadLast", "cas", "copy"}]
      /\ originalFirst \in [Consumers -> Slots] /\ outValue \in [Consumers -> Contents]
      /\ head <= tail /\ tail < head + Capacity
      /\ First = Slot(head) /\ Last = Slot(tail)
      /\ \A d \in Consumers : InDequeue(d)
  <2>1. TypeOK /\ Positions /\ \A d \in Consumers : InDequeue(d)
    BY DEF IInv
  <2>2. tail \in Nat
    BY <2>1 DEF TypeOK, Contents
  <2> QED BY <2>1, <2>2 DEF TypeOK, Positions
<1>2. /\ AbstractQueue = [q \in {0} |-> Between(head, tail)]
      /\ AbstractQueue' = [q \in {0} |-> Between(head', tail')]
      /\ AbstractOut = [d \in Consumers |->
           IF consumer[d] = "copy" THEN seen[d] + 1 ELSE outValue[d]]
      /\ AbstractOut' = [d \in Consumers |->
           IF consumer'[d] = "copy" THEN seen'[d] + 1 ELSE outValue'[d]]
  <2>1. AbstractByCounts /\ AbstractByCounts'
    BY AbstractState, PTL
  <2> QED BY <2>1 DEF AbstractByCounts
<1>3. AbstractQueue[0] = Between(head, tail)
  BY <1>2
<1>4. UNCHANGED <<couldEnqueue, tail>>
  BY DEF Dequeue, LoadFirst, LoadLast, ClaimSlot, LoseRace, CopySlot, enqueueVars
<1>5. \A s \in BOOLEAN : NoView # [queue |-> 0, stale |-> s]
  BY NoViewAssumption
<1>12. ASSUME consumer'[c] # "copy", consumer[c] # "copy" \/ consumer'[c] = "copy",
              \A d \in Consumers : d # c => consumer'[d] = consumer[d] /\ seen'[d] = seen[d]
       PROVE  AbstractClaim' = AbstractClaim
  BY <1>4, <1>12 DEF AbstractClaim
<1>6. ASSUME head' = head, AbstractOut' = AbstractOut, AbstractClaim' = AbstractClaim,
             consumer[c] \in {"loadLast", "cas"},
             AbstractView' = [AbstractView EXCEPT ![c] = NoView],
             seen[c] # head \/ head = tail
      PROVE  Promise!Next
  <2>1. AbstractView[c] = [queue |-> 0, stale |-> seen[c] # head]
    BY <1>6 DEF AbstractView
  <2>2. AbstractView[c] # NoView
    BY <1>5, <2>1
  <2>3. AbstractView[c].queue = 0 /\ AbstractView[c].stale = (seen[c] # head)
    BY <2>1
  <2>4. head = tail => AbstractQueue[0] = <<>>
    BY <1>1, <1>3, BetweenFacts
  <2>5. AbstractQueue' = AbstractQueue
    BY <1>2, <1>4, <1>6
  <2>6. Promise!GiveUp(c)
    BY <1>4, <1>6, <2>2, <2>3, <2>4, <2>5 DEF Promise!GiveUp
  <2> QED BY <2>6 DEF Promise!Next
<1>7. CASE LoadFirst(c)
  <2>1. /\ head' = head /\ AbstractOut' = AbstractOut
        /\ consumer[c] = "idle" /\ AbstractClaim' = AbstractClaim
        /\ AbstractClaim[c] = NoView
    <3>1. head' = head /\ AbstractOut' = AbstractOut /\ consumer[c] = "idle"
      BY <1>1, <1>2, <1>7 DEF LoadFirst
    <3>2. AbstractClaim' = AbstractClaim
      BY <1>1, <1>7, <1>12 DEF LoadFirst
    <3> QED BY <3>1, <3>2 DEF AbstractClaim
  <2>2. AbstractView[c] = NoView
    BY <2>1 DEF AbstractView
  <2>3. AbstractView' = [AbstractView EXCEPT ![c] = [queue |-> 0, stale |-> FALSE]]
    BY <1>1, <1>7 DEF LoadFirst, AbstractView
  <2>4. AbstractQueue' = AbstractQueue
    BY <1>2, <1>4, <2>1
  <2>5. Promise!Look(c, 0)
    BY <1>4, <2>1, <2>2, <2>3, <2>4 DEF Promise!Look
  <2> QED BY <2>5 DEF Promise!Next
<1>8. CASE LoadLast(c)
  <2>1. /\ head' = head /\ AbstractOut' = AbstractOut /\ consumer[c] = "loadLast"
        /\ AbstractClaim' = AbstractClaim
    <3>1. head' = head /\ AbstractOut' = AbstractOut /\ consumer[c] = "loadLast"
      BY <1>1, <1>2, <1>8 DEF LoadLast
    <3>2. AbstractClaim' = AbstractClaim
      BY <1>1, <1>8, <1>12 DEF LoadLast
    <3> QED BY <3>1, <3>2
  <2>2. CASE originalFirst[c] # Last
    <3>1. AbstractView' = AbstractView
      BY <1>1, <1>8, <2>2 DEF LoadLast, AbstractView
    <3>2. AbstractQueue' = AbstractQueue
      BY <1>2, <1>4, <2>1
    <3> QED BY <1>4, <2>1, <3>1, <3>2 DEF Promise!fifoVars
  <2>3. CASE originalFirst[c] = Last
    <3>1. AbstractView' = [AbstractView EXCEPT ![c] = NoView]
      BY <1>1, <1>8, <2>3 DEF LoadLast, AbstractView
    <3>2. seen[c] # head \/ head = tail
      <4>1. Slot(seen[c]) = Slot(tail)
        BY <1>1, <2>1, <2>3 DEF InDequeue
      <4>2. ASSUME seen[c] = head, head # tail PROVE FALSE
        <5>1. head + Capacity <= tail
          BY <1>1, <4>1, <4>2, SlotFacts
        <5> QED BY <1>1, <5>1
      <4> QED BY <4>2
    <3> QED BY <1>6, <2>1, <3>1, <3>2
  <2> QED BY <2>2, <2>3
<1>9. CASE ClaimSlot(c)
  <2>1. /\ consumer[c] = "cas" /\ First = originalFirst[c] /\ head' = head + 1
        /\ consumer' = [consumer EXCEPT ![c] = "copy"]
        /\ seen' = seen /\ outValue' = outValue
    BY <1>9 DEF ClaimSlot
  <2>2. seen[c] = head /\ head < tail
    BY <1>1, <2>1, ClaimsHead DEF InDequeue
  <2>3. /\ Head(Between(head, tail)) = head + 1
        /\ Tail(Between(head, tail)) = Between(head + 1, tail)
        /\ Between(head, tail) # <<>>
    BY <1>1, <2>2, BetweenTail, BetweenFacts
  <2>4. AbstractQueue' = [AbstractQueue EXCEPT ![0] = Tail(@)]
    BY <1>2, <1>4, <2>1, <2>3
  <2>5. AbstractOut' = [AbstractOut EXCEPT ![c] = Head(AbstractQueue[0])]
    BY <1>1, <1>2, <1>3, <2>1, <2>2, <2>3
  <2>6. AbstractView[c] = [queue |-> 0, stale |-> FALSE]
    BY <2>1, <2>2 DEF AbstractView
  <2>7. AbstractView[c] # NoView
    BY <1>5, <2>6
  <2>8. AbstractView[c].queue = 0 /\ ~ AbstractView[c].stale
    BY <2>6
  <2>9. AbstractView' =
          [d \in Consumers |->
             IF d = c THEN NoView
             ELSE IF AbstractView[d] # NoView /\ AbstractView[d].queue = 0
                  THEN [queue |-> 0, stale |-> TRUE]
                  ELSE AbstractView[d]]
    <3> DEFINE after(d) ==
          IF d = c THEN NoView
          ELSE IF AbstractView[d] # NoView /\ AbstractView[d].queue = 0
               THEN [queue |-> 0, stale |-> TRUE]
               ELSE AbstractView[d]
    <3>1. AbstractView' = [d \in Consumers |->
            IF consumer'[d] \in {"loadLast", "cas"}
            THEN [queue |-> 0, stale |-> seen'[d] # head'] ELSE NoView]
      BY DEF AbstractView
    <3>2. ASSUME NEW d \in Consumers PROVE AbstractView'[d] = after(d)
      <4>1. CASE d = c
        BY <1>1, <2>1, <3>1, <4>1
      <4>2. CASE d # c /\ consumer[d] \in {"loadLast", "cas"}
        <5>1. PICK b \in BOOLEAN : AbstractView[d] = [queue |-> 0, stale |-> b]
          <6>1. AbstractView[d] = [queue |-> 0, stale |-> seen[d] # head]
            BY <4>2 DEF AbstractView
          <6>2. (seen[d] # head) \in BOOLEAN
            OBVIOUS
          <6> QED BY <6>1, <6>2
        <5>2. AbstractView[d] # NoView /\ AbstractView[d].queue = 0
          BY <1>5, <5>1
        <5>4. seen[d] <= head
          BY <1>1, <4>2 DEF InDequeue
        <5>5. seen'[d] # head'
          BY <1>1, <2>1, <5>4
        <5>6. AbstractView'[d] = [queue |-> 0, stale |-> seen'[d] # head']
          BY <1>1, <2>1, <3>1, <4>2
        <5>7. AbstractView'[d] = [queue |-> 0, stale |-> TRUE]
          BY <5>5, <5>6
        <5> QED BY <4>2, <5>2, <5>7
      <4>3. CASE d # c /\ consumer[d] \notin {"loadLast", "cas"}
        <5>1. AbstractView[d] = NoView
          BY <4>3 DEF AbstractView
        <5>2. AbstractView'[d] = NoView
          BY <1>1, <2>1, <3>1, <4>3
        <5> QED BY <4>3, <5>1, <5>2
      <4> QED BY <4>1, <4>2, <4>3
    <3> HIDE DEF after
    <3>3. AbstractView' = [d \in Consumers |-> after(d)]
      BY <3>1, <3>2
    <3> QED BY <3>3 DEF after
  <2>10. AbstractClaim' =
           [AbstractClaim EXCEPT ![c] = [queue |-> 0,
                                         behind |-> Len(AbstractQueue[0]) - 1]]
    <3>1. Len(AbstractQueue[0]) - 1 = tail - seen[c] - 1
      <4>1. head \in Nat /\ tail \in Nat /\ head <= tail
        BY <1>1
      <4>2. Len(Between(head, tail)) = tail - head
        BY ONLY <4>1, BetweenFacts
      <4>3. Len(AbstractQueue[0]) = tail - seen[c]
        BY <1>3, <2>2, <4>2
      <4> QED BY <4>3
    <3>2. AbstractClaim' = [d \in Consumers |->
            IF consumer'[d] = "copy" THEN [queue |-> 0, behind |-> tail - seen[d] - 1]
                                     ELSE NoView]
      BY <1>4, <2>1 DEF AbstractClaim
    <3>3. consumer'[c] = "copy" /\ \A d \in Consumers : d # c => consumer'[d] = consumer[d]
      BY <1>1, <2>1
    <3>4. AbstractClaim' =
            [AbstractClaim EXCEPT ![c] = [queue |-> 0, behind |-> tail - seen[c] - 1]]
      BY <3>2, <3>3 DEF AbstractClaim
    <3> QED BY <3>1, <3>4
  <2>11. Promise!Claim(c)
    BY <1>3, <1>4, <2>3, <2>4, <2>5, <2>7, <2>8, <2>9, <2>10 DEF Promise!Claim
  <2> QED BY <2>11 DEF Promise!Next
<1>10. CASE LoseRace(c)
  <2>1. /\ head' = head /\ AbstractOut' = AbstractOut /\ consumer[c] = "cas"
        /\ AbstractClaim' = AbstractClaim
    <3>1. head' = head /\ AbstractOut' = AbstractOut /\ consumer[c] = "cas"
      BY <1>1, <1>2, <1>10 DEF LoseRace
    <3>2. AbstractClaim' = AbstractClaim
      BY <1>1, <1>10, <1>12 DEF LoseRace
    <3> QED BY <3>1, <3>2
  <2>2. AbstractView' = [AbstractView EXCEPT ![c] = NoView]
    BY <1>1, <1>10 DEF LoseRace, AbstractView
  <2>3. seen[c] # head
    BY <1>1, <1>10, <2>1 DEF LoseRace, InDequeue
  <2> QED BY <1>6, <2>1, <2>2, <2>3
<1>11. CASE CopySlot(c)
  <2>1. /\ consumer[c] = "copy" /\ head' = head /\ seen' = seen
        /\ outValue' = [outValue EXCEPT ![c] = seen[c] + 1]
        /\ consumer' = [consumer EXCEPT ![c] = "idle"]
    BY <1>1, <1>11 DEF CopySlot, InDequeue
  <2>2. AbstractOut' = AbstractOut
    BY <1>1, <1>2, <2>1
  <2>3. AbstractView' = AbstractView
    BY <1>1, <2>1 DEF AbstractView
  <2>4. AbstractQueue' = AbstractQueue
    BY <1>2, <1>4, <2>1
  <2>5. AbstractClaim[c] # NoView
    BY <2>1, AbstractClaims
  <2>6. AbstractClaim' = [AbstractClaim EXCEPT ![c] = NoView]
    BY <1>1, <1>4, <2>1 DEF AbstractClaim
  <2>7. Promise!Copy(c)
    BY <1>4, <2>2, <2>3, <2>4, <2>5, <2>6 DEF Promise!Copy
  <2> QED BY <2>7 DEF Promise!Next
<1> QED BY <1>7, <1>8, <1>9, <1>10, <1>11 DEF Dequeue

\* For every Capacity and every set of consumers, none of whom is overtaken by
\* a lap, the ring implements the bounded FIFO that the job system is built on.
THEOREM PunctualImplementsFifo == PunctualSpec => ImplementsFifo
<1>1. IInv /\ IInv' /\ [PunctualNext]_vars =>
        [Promise!Next /\ Promise!Punctual']_(Promise!fifoVars)
  <2> SUFFICES ASSUME IInv, IInv', [PunctualNext]_vars
               PROVE  (Promise!Next /\ Promise!Punctual') \/ UNCHANGED Promise!fifoVars
    OBVIOUS
  <2>1. CASE PunctualNext
    <3>1. Promise!Next \/ UNCHANGED Promise!fifoVars
      BY <2>1, PunctualStep, EnqueueRefines, DequeueRefines DEF Next
    <3>2. Promise!Punctual'
      BY ClaimsPunctual, PTL
    <3> QED BY <3>1, <3>2
  <2>2. CASE UNCHANGED vars
    <3>1. /\ AbstractQueue' = AbstractQueue /\ AbstractView' = AbstractView
          /\ AbstractOut' = AbstractOut /\ couldEnqueue' = couldEnqueue
          /\ AbstractClaim' = AbstractClaim
      BY <2>2 DEF vars, ring, enqueueVars, dequeueVars, AbstractQueue,
                  AbstractView, AbstractClaim, AbstractOut
    <3> QED BY <3>1 DEF Promise!fifoVars
  <2> QED BY <2>1, <2>2
<1> QED BY <1>1, InitRefines, PunctualIInv, PTL
        DEF PunctualSpec, ImplementsFifo, Promise!PunctualSpec

\* With one consumer the code as it is, at any speed of its threads, implements
\* the bounded FIFO.
THEOREM OneConsumerImplementsFifo ==
  ASSUME NEW c, Consumers = {c}
  PROVE  Spec => ImplementsFifo
BY OneConsumerIsPunctual, PunctualImplementsFifo, PTL

=============================================================================

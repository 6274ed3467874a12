--------------------------- MODULE QueueThreaded ---------------------------
(***************************************************************************)
(* The lock-free ring of src/Lib/QueueThreaded.h: one producer, any number *)
(* of consumers, a fixed array of Capacity slots.  First is where the next *)
(* value is read, Last where the next one is written; the ring is empty    *)
(* when they are equal, so it holds at most Capacity - 1 values.           *)
(*                                                                         *)
(* Every load, store and compare-exchange of a shared variable is a step   *)
(* of its own.  A Dequeue moves First with a compare-exchange and copies   *)
(* the slot afterwards, so between its load of First and the end of its    *)
(* copy it depends on a position of the ring that is not reserved for it.  *)
(*                                                                         *)
(* The k-th value accepted by Enqueue is the number k; 0 is what a slot    *)
(* holds before anything was written to it.                                *)
(***************************************************************************)
EXTENDS Integers, FiniteSets

CONSTANTS
  Consumers,     \* threads that call Dequeue
  Capacity,      \* number of slots (JOB_QUEUE_SIZE is 256)
  MaxEnqueues,   \* bound: values accepted in a run
  NoView         \* see FifoQueues

ASSUME CapacityAssumption == Capacity \in Nat \ {0}
ASSUME BoundAssumption == MaxEnqueues \in Nat
ASSUME NoViewAssumption ==
  NoView \notin [queue : {0}, stale : BOOLEAN] \union [queue : {0}, behind : Nat]

VARIABLES
  First,         \* QueueThreaded::First
  Last,          \* QueueThreaded::Last
  Memory,        \* QueueThreaded::Memory
  producer,      \* where the producer is in Enqueue
  couldEnqueue,  \* what the latest Enqueue returned
  consumer,      \* consumer[c]: where c is in Dequeue
  originalFirst, \* c's local originalFirst
  outValue,      \* c's *outValue
  (* history, never read by the code: *)
  head,          \* successful compare-exchanges of First
  tail,          \* stores to Last, that is values accepted
  seen,          \* seen[c]: head when c loaded First
  delivered      \* delivered[v]: how often Dequeue handed out v

ring == <<First, Last, Memory>>
enqueueVars == <<producer, couldEnqueue, tail>>
dequeueVars == <<consumer, originalFirst, outValue, head, seen, delivered>>
vars == <<ring, enqueueVars, dequeueVars>>

Slots == 0 .. Capacity - 1
Jobs == 1 .. MaxEnqueues
Contents == 0 .. MaxEnqueues

Init ==
  /\ First = 0 /\ Last = 0
  /\ Memory = [i \in Slots |-> 0]
  /\ producer = "idle"
  /\ couldEnqueue = TRUE
  /\ consumer = [c \in Consumers |-> "idle"]
  /\ originalFirst = [c \in Consumers |-> 0]
  /\ outValue = [c \in Consumers |-> 0]
  /\ head = 0 /\ tail = 0
  /\ seen = [c \in Consumers |-> 0]
  /\ delivered = [v \in Contents |-> 0]

\* Mutant: the index is not wrapped.
UnwrappedNextIndex(i) == i + 1

NextIndex(i) == (i + 1) % Capacity

\* The slot of the value accepted after k others.
Slot(k) == k % Capacity

-----------------------------------------------------------------------------
(* Enqueue.  The producer alone stores Last, so its originalLast is Last. *)

EnqueueRoom ==
  /\ producer = "idle"
  /\ tail < MaxEnqueues
  /\ NextIndex(Last) # First
  /\ producer' = "write"
  /\ UNCHANGED <<ring, couldEnqueue, tail, dequeueVars>>

EnqueueFull ==
  /\ producer = "idle"
  /\ tail < MaxEnqueues
  /\ NextIndex(Last) = First
  /\ couldEnqueue' = FALSE
  /\ UNCHANGED <<ring, producer, tail, dequeueVars>>

EnqueueWrite ==
  /\ producer = "write"
  /\ Memory' = [Memory EXCEPT ![Last] = tail + 1]
  /\ producer' = "publish"
  /\ UNCHANGED <<First, Last, couldEnqueue, tail, dequeueVars>>

EnqueuePublish ==
  /\ producer = "publish"
  /\ Last' = NextIndex(Last)
  /\ tail' = tail + 1
  /\ couldEnqueue' = TRUE
  /\ producer' = "idle"
  /\ UNCHANGED <<First, Memory, dequeueVars>>

-----------------------------------------------------------------------------
(* Dequeue. *)

LoadFirst(c) ==
  /\ consumer[c] = "idle"
  /\ originalFirst' = [originalFirst EXCEPT ![c] = First]
  /\ seen' = [seen EXCEPT ![c] = head]
  /\ consumer' = [consumer EXCEPT ![c] = "loadLast"]
  /\ UNCHANGED <<ring, enqueueVars, outValue, head, delivered>>

\* Mutant: Dequeue does not test for an empty ring.
LoadLastWithoutTest(c) ==
  /\ consumer[c] = "loadLast"
  /\ consumer' = [consumer EXCEPT ![c] = "cas"]
  /\ UNCHANGED <<ring, enqueueVars, originalFirst, outValue, head, seen,
                 delivered>>

\* Mutant: the emptiness test is off by one.
LoadLastOffByOne(c) ==
  /\ consumer[c] = "loadLast"
  /\ consumer' = [consumer EXCEPT ![c] =
                    IF originalFirst[c] # Last /\ NextIndex(originalFirst[c]) # Last
                    THEN "cas" ELSE "idle"]
  /\ UNCHANGED <<ring, enqueueVars, originalFirst, outValue, head, seen,
                 delivered>>

LoadLast(c) ==
  /\ consumer[c] = "loadLast"
  /\ consumer' = [consumer EXCEPT ![c] =
                    IF originalFirst[c] # Last THEN "cas" ELSE "idle"]
  /\ UNCHANGED <<ring, enqueueVars, originalFirst, outValue, head, seen,
                 delivered>>

\* Mutant: First is stored without comparing it.
StoreFirst(c) ==
  /\ consumer[c] = "cas"
  /\ First' = NextIndex(originalFirst[c])
  /\ head' = head + 1
  /\ consumer' = [consumer EXCEPT ![c] = "copy"]
  /\ UNCHANGED <<Last, Memory, enqueueVars, originalFirst, outValue, seen,
                 delivered>>

ClaimSlot(c) ==
  /\ consumer[c] = "cas"
  /\ First = originalFirst[c]
  /\ First' = NextIndex(originalFirst[c])
  /\ head' = head + 1
  /\ consumer' = [consumer EXCEPT ![c] = "copy"]
  /\ UNCHANGED <<Last, Memory, enqueueVars, originalFirst, outValue, seen,
                 delivered>>

\* Mutant: the result of the compare-exchange is not looked at.
IgnoreRace(c) ==
  /\ consumer[c] = "cas"
  /\ First # originalFirst[c]
  /\ consumer' = [consumer EXCEPT ![c] = "copy"]
  /\ UNCHANGED <<ring, enqueueVars, originalFirst, outValue, head, seen,
                 delivered>>

LoseRace(c) ==
  /\ consumer[c] = "cas"
  /\ First # originalFirst[c]
  /\ consumer' = [consumer EXCEPT ![c] = "idle"]
  /\ UNCHANGED <<ring, enqueueVars, originalFirst, outValue, head, seen,
                 delivered>>

\* Mutant: the copy reads First again instead of the claimed index.
CopyFirst(c) ==
  /\ consumer[c] = "copy"
  /\ LET v == Memory[First] IN
     /\ outValue' = [outValue EXCEPT ![c] = v]
     /\ delivered' = [delivered EXCEPT ![v] = @ + 1]
  /\ consumer' = [consumer EXCEPT ![c] = "idle"]
  /\ UNCHANGED <<ring, enqueueVars, originalFirst, head, seen>>

CopySlot(c) ==
  /\ consumer[c] = "copy"
  /\ LET v == Memory[originalFirst[c]] IN
     /\ outValue' = [outValue EXCEPT ![c] = v]
     /\ delivered' = [delivered EXCEPT ![v] = @ + 1]
  /\ consumer' = [consumer EXCEPT ![c] = "idle"]
  /\ UNCHANGED <<ring, enqueueVars, originalFirst, head, seen>>

-----------------------------------------------------------------------------

Dequeue(c) ==
  LoadFirst(c) \/ LoadLast(c) \/ ClaimSlot(c) \/ LoseRace(c) \/ CopySlot(c)

Next ==
  \/ EnqueueRoom \/ EnqueueFull \/ EnqueueWrite \/ EnqueuePublish
  \/ \E c \in Consumers : Dequeue(c)

\* The ring as the code has it, for any timing of its threads.
Spec == Init /\ [][Next]_vars

(***************************************************************************)
(* The ring is safe only while no consumer is overtaken by a whole lap.    *)
(* Two things are only a matter of time for a consumer that is suspended   *)
(* inside Dequeue: before its compare-exchange, that First goes all the    *)
(* way round and looks unchanged; after it, that the producer starts to    *)
(* overwrite the slot it still has to copy.  Nothing in the code prevents  *)
(* either when there are two consumers; PunctualSpec assumes it away, as   *)
(* the callers do (a lap takes 255 dequeues).  With one consumer it cannot *)
(* happen: the slot that the ring keeps empty is the one being copied.     *)
(***************************************************************************)
Overtaken(c) ==
  \/ consumer[c] \in {"loadLast", "cas"} /\ head >= seen[c] + Capacity
  \/ consumer[c] = "copy" /\ producer = "write" /\ tail >= seen[c] + Capacity

Punctual == \A c \in Consumers : ~ Overtaken(c)

\* Only a producer that finds room and a consumer that claims a slot can
\* overtake another thread.
PunctualNext ==
  \/ EnqueueRoom /\ Punctual'
  \/ EnqueueFull \/ EnqueueWrite \/ EnqueuePublish
  \/ \E c \in Consumers :
       \/ LoadFirst(c) \/ LoadLast(c) \/ LoseRace(c) \/ CopySlot(c)
       \/ ClaimSlot(c) /\ Punctual'

PunctualSpec == Init /\ [][PunctualNext]_vars

\* A consumer keeps polling (Work and the worker loop call PopFront again)
\* and the scheduler runs every thread.
FairPunctualSpec ==
  /\ PunctualSpec
  /\ WF_vars(EnqueueWrite) /\ WF_vars(EnqueuePublish)
  /\ \A c \in Consumers : WF_vars(Dequeue(c) /\ Punctual')

-----------------------------------------------------------------------------
(* Properties. *)

TypeOK ==
  /\ First \in Slots /\ Last \in Slots
  /\ Memory \in [Slots -> Contents]
  /\ producer \in {"idle", "write", "publish"}
  /\ couldEnqueue \in BOOLEAN
  /\ consumer \in [Consumers -> {"idle", "loadLast", "cas", "copy"}]
  /\ originalFirst \in [Consumers -> Slots]
  /\ outValue \in [Consumers -> Contents]
  /\ head \in Nat /\ tail \in Contents
  /\ seen \in [Consumers -> Nat]
  /\ delivered \in [Contents -> Nat]

\* The producer never stores a slot that a consumer has claimed and not yet
\* copied: the copy `*outValue = Memory[index]` comes after the
\* compare-exchange that hands the slot back to Enqueue.
NoDataRace ==
  \A c \in Consumers :
    consumer[c] = "copy" /\ producer = "write" => originalFirst[c] # Last

\* No value is dequeued that was not yet published: First never passes Last.
OnlyPublishedIsClaimed == head <= tail

Held(v) == {c \in Consumers : consumer[c] = "copy" /\ seen[c] + 1 = v}

\* Every accepted value is in exactly one place: handed out once, in the hands
\* of one consumer that is about to copy it (and that finds it there), or in
\* the live part of the ring; and nothing else was ever handed out.
ExactlyOnce ==
  /\ delivered[0] = 0
  /\ \A v \in Jobs :
       /\ delivered[v] + Cardinality(Held(v)) =
            (IF v <= head THEN 1 ELSE 0)
       /\ \A c \in Held(v) : Memory[originalFirst[c]] = v
       /\ head < v /\ v <= tail => Memory[Slot(v - 1)] = v

\* The value a Dequeue copies is later than what it copied before.
CopiesLater ==
  \A c \in Consumers : consumer[c] = "copy" /\ consumer'[c] = "idle" =>
                          outValue'[c] > outValue[c]

\* A consumer takes values in the order in which they were enqueued: each
\* value it copies is later than all it copied before.
FifoPerConsumer == [][CopiesLater]_vars

\* Every value that Enqueue accepts is handed out in the end.
AllDelivered == \A v \in Jobs : (tail >= v) ~> (delivered[v] = 1)

-----------------------------------------------------------------------------
(* What the ring promises: one bounded FIFO of Capacity - 1 values.  A     *)
(* value leaves the abstract queue when First moves; from then on until it *)
(* is copied, the consumer has a claim on what its slot holds.             *)

AbstractQueue ==
  [q \in {0} |-> [i \in 1 .. tail - head |-> Memory[Slot(head + i - 1)]]]

AbstractView ==
  [c \in Consumers |->
     IF consumer[c] \in {"loadLast", "cas"}
     THEN [queue |-> 0, stale |-> seen[c] # head] ELSE NoView]

AbstractClaim ==
  [c \in Consumers |->
     IF consumer[c] = "copy" THEN [queue |-> 0, behind |-> tail - seen[c] - 1]
                             ELSE NoView]

AbstractOut ==
  [c \in Consumers |->
     IF consumer[c] = "copy" THEN Memory[originalFirst[c]] ELSE outValue[c]]

Promise == INSTANCE FifoQueues WITH
  Queues <- {0},
  Bound <- Capacity - 1,
  Values <- Jobs,
  NoValue <- 0,
  queue <- AbstractQueue,
  accepted <- couldEnqueue,
  view <- AbstractView,
  claim <- AbstractClaim,
  out <- AbstractOut

\* The ring implements the bounded FIFO of FifoQueues, and no consumer of that
\* is overtaken either.
ImplementsFifo == Promise!PunctualSpec

=============================================================================

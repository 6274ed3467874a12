----------------------------- MODULE FifoQueues -----------------------------
(***************************************************************************)
(* What a bank of QueueThreaded rings promises to the code that uses it:   *)
(* every queue is a bounded FIFO, an Enqueue is refused exactly when the   *)
(* queue holds Bound values, and a Dequeue either takes the head or comes  *)
(* back empty-handed.  A Dequeue is three steps.  It looks at the queue;   *)
(* if another consumer claims a value after that, the look is stale and    *)
(* the Dequeue gives up although values are left.  It claims the head, and *)
(* from then on no other consumer can.  And it copies the value, which is  *)
(* still in its slot: the slot is free again since the claim, and the      *)
(* value queued Bound + 1 later is written over it.                        *)
(*                                                                         *)
(* Nothing but time prevents that a consumer is overtaken between its      *)
(* claim and its copy.  PunctualSpec assumes that none is; it is what      *)
(* QueueThreaded implements (for one queue), under the same assumption,    *)
(* and what Jobs is built on (one queue per worker thread).                *)
(***************************************************************************)
EXTENDS Naturals, Sequences

CONSTANTS
  Queues,      \* the queues of the bank
  Consumers,   \* the threads that dequeue
  Bound,       \* the most values a queue can hold
  Values,      \* what is queued
  NoValue,     \* contents of a consumer's variable before its first Dequeue
  NoView       \* marks a consumer that does not look, or has nothing claimed

VARIABLES
  queue,       \* queue[q]: the published values that nobody has claimed
  accepted,    \* result of the latest Enqueue
  view,        \* view[c]: which queue c looks at, and whether that is stale
  claim,       \* claim[c]: the queue of which c has claimed a value that it has
               \* not copied, and how many values were queued behind that one
  out          \* out[c]: the value c's latest successful Dequeue took, and
               \* before it has copied the value, what its slot holds

fifoVars == <<queue, accepted, view, claim, out>>

Views == [queue : Queues, stale : BOOLEAN]
Claims == [queue : Queues, behind : Nat]

Init ==
  /\ queue = [q \in Queues |-> <<>>]
  /\ accepted = TRUE
  /\ view = [c \in Consumers |-> NoView]
  /\ claim = [c \in Consumers |-> NoView]
  /\ out = [c \in Consumers |-> NoValue]

-----------------------------------------------------------------------------
(* Enqueue. *)

ClaimsFrom(c, q) == claim[c] # NoView /\ claim[c].queue = q

\* The value comes into the slot of every value that is a lap before it.
Overwrites(c, q) ==
  ClaimsFrom(c, q) /\ (claim[c].behind + 1) % (Bound + 1) = 0

Put(q, v) ==
  /\ Len(queue[q]) < Bound
  /\ queue' = [queue EXCEPT ![q] = Append(@, v)]
  /\ accepted' = TRUE
  /\ claim' = [c \in Consumers |->
                 IF ClaimsFrom(c, q)
                 THEN [queue |-> q, behind |-> claim[c].behind + 1]
                 ELSE claim[c]]
  /\ out' = [c \in Consumers |-> IF Overwrites(c, q) THEN v ELSE out[c]]
  /\ UNCHANGED view

Refuse(q) ==
  /\ Len(queue[q]) = Bound
  /\ accepted' = FALSE
  /\ UNCHANGED <<queue, view, claim, out>>

(* Dequeue. *)

Look(c, q) ==
  /\ view[c] = NoView /\ claim[c] = NoView
  /\ view' = [view EXCEPT ![c] = [queue |-> q, stale |-> FALSE]]
  /\ UNCHANGED <<queue, accepted, claim, out>>

\* Mutant: what the compare-exchange answers is not tested.
ClaimUntested(c) ==
  /\ view[c] # NoView
  /\ LET q == view[c].queue IN
     /\ queue[q] # <<>>
     /\ out' = [out EXCEPT ![c] = Head(queue[q])]
     /\ claim' = [claim EXCEPT ![c] = [queue |-> q, behind |-> Len(queue[q]) - 1]]
     /\ queue' = IF view[c].stale THEN queue ELSE [queue EXCEPT ![q] = Tail(@)]
     /\ view' = [d \in Consumers |->
                   IF d = c THEN NoView
                   ELSE IF ~ view[c].stale /\ view[d] # NoView /\ view[d].queue = q
                        THEN [queue |-> q, stale |-> TRUE]
                        ELSE view[d]]
  /\ UNCHANGED accepted

\* The compare-exchange.  Claiming the head makes every other look at that
\* queue stale.
Claim(c) ==
  /\ view[c] # NoView
  /\ LET q == view[c].queue IN
     /\ ~ view[c].stale
     /\ queue[q] # <<>>
     /\ out' = [out EXCEPT ![c] = Head(queue[q])]
     /\ claim' = [claim EXCEPT ![c] = [queue |-> q, behind |-> Len(queue[q]) - 1]]
     /\ queue' = [queue EXCEPT ![q] = Tail(@)]
     /\ view' = [d \in Consumers |->
                   IF d = c THEN NoView
                   ELSE IF view[d] # NoView /\ view[d].queue = q
                        THEN [queue |-> q, stale |-> TRUE]
                        ELSE view[d]]
  /\ UNCHANGED accepted

\* The copy out of the slot.
Copy(c) ==
  /\ claim[c] # NoView
  /\ claim' = [claim EXCEPT ![c] = NoView]
  /\ UNCHANGED <<queue, accepted, view, out>>

GiveUp(c) ==
  /\ view[c] # NoView
  /\ view[c].stale \/ queue[view[c].queue] = <<>>
  /\ view' = [view EXCEPT ![c] = NoView]
  /\ UNCHANGED <<queue, accepted, claim, out>>

-----------------------------------------------------------------------------

Next ==
  \/ \E q \in Queues : Refuse(q) \/ \E v \in Values : Put(q, v)
  \/ \E c \in Consumers :
       Claim(c) \/ Copy(c) \/ GiveUp(c) \/ \E q \in Queues : Look(c, q)

Spec == Init /\ [][Next]_fifoVars

\* Nobody is overtaken by a whole lap between the claim and the copy.
Punctual == \A c \in Consumers : claim[c] # NoView => claim[c].behind <= Bound

PunctualSpec == Init /\ [][Next /\ Punctual']_fifoVars

=============================================================================

--------------------------- MODULE PriorityQueues ---------------------------
(***************************************************************************)
(* What a binary heap promises: a bag of keys that gives back, at each     *)
(* pop, one of the keys it holds, and one that comes first in the order of *)
(* the compare function its owner gave it as long as the queue is told:    *)
(* since it was last empty every pop left keys whose addresses, numbers    *)
(* here, are in the order of their ranks.                                  *)
(***************************************************************************)
EXTENDS Naturals

CONSTANTS
  Keys,
  NoKey,       \* what a pop answers when there is nothing to pop
  Rank         \* the compare function orders keys by rank

VARIABLES
  queue,       \* queue[k]: how many times k is held
  side,        \* which end the owner takes from: "min" or "max"
  result,      \* the last key popped
  told         \* what the pops left was always in the order of its addresses

queueVars == <<queue, side, result, told>>

Held == {k \in Keys : queue[k] > 0}

ComesFirst(k) ==
  \A j \in Held : IF side = "min" THEN Rank[k] <= Rank[j]
                                  ELSE Rank[k] >= Rank[j]

PointersTellRank == \A i, j \in Held : i < j => Rank[i] <= Rank[j]

Init ==
  /\ queue = [k \in Keys |-> 0]
  /\ side \in {"min", "max"}
  /\ result = NoKey
  /\ told = TRUE

Push ==
  /\ \E k \in Keys : queue' = [queue EXCEPT ![k] = @ + 1]
  /\ UNCHANGED <<side, result, told>>

Pop ==
  /\ \E k \in Held :
       /\ told => ComesFirst(k)
       /\ queue' = [queue EXCEPT ![k] = @ - 1]
       /\ result' = k
  /\ told' = (PointersTellRank' /\ (told \/ Held' = {}))
  /\ UNCHANGED side

PopNothing ==
  /\ Held = {}
  /\ result' = NoKey
  /\ UNCHANGED <<queue, side, told>>

Clear ==
  /\ queue' = [k \in Keys |-> 0]
  /\ told' = TRUE
  /\ UNCHANGED <<side, result>>

Next == Push \/ Pop \/ PopNothing \/ Clear

Spec == Init /\ [][Next]_queueVars

=============================================================================

----------------------------- MODULE JobSystem -----------------------------
(***************************************************************************)
(* What the job system of src/Lib/Jobs.h promises to its one caller: the   *)
(* jobs of a submission are each executed at most once, by whoever is      *)
(* free, and a wait on a handle returns only when all the jobs submitted   *)
(* under that handle have been executed.                                   *)
(***************************************************************************)
EXTENDS Naturals

CONSTANTS
  Handles,     \* JobHandles
  Tasks,       \* jobs that can be submitted: records with a field handle
  NoHandle     \* the caller is not waiting

VARIABLES
  submitted,   \* jobs handed over so far
  executed,    \* those that have run
  waiting      \* the handle that the caller waits for

systemVars == <<submitted, executed, waiting>>

Init ==
  /\ submitted = {}
  /\ executed = {}
  /\ waiting = NoHandle

Submit ==
  /\ waiting = NoHandle
  /\ submitted' \in SUBSET Tasks
  /\ submitted \subseteq submitted'
  /\ UNCHANGED <<executed, waiting>>

Execute(job) ==
  /\ job \in submitted \ executed
  /\ executed' = executed \union {job}
  /\ UNCHANGED <<submitted, waiting>>

Wait(h) ==
  /\ waiting = NoHandle
  /\ waiting' = h
  /\ UNCHANGED <<submitted, executed>>

Return ==
  /\ waiting # NoHandle
  /\ \A job \in submitted : job.handle = waiting => job \in executed
  /\ waiting' = NoHandle
  /\ UNCHANGED <<submitted, executed>>

Next ==
  \/ Submit
  \/ \E job \in Tasks : Execute(job)
  \/ \E h \in Handles : Wait(h)
  \/ Return

Spec == Init /\ [][Next]_systemVars

=============================================================================

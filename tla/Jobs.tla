-------------------------------- MODULE Jobs --------------------------------
(***************************************************************************)
(* The job system of src/Lib/Jobs.h: worker threads with one queue each, a *)
(* main thread that dispatches jobs to the queues round robin and that     *)
(* works itself while it waits, and threads that steal from each other's   *)
(* queues.  A dispatch counts its groups on a JobHandle; every finished    *)
(* group counts down; JobHandleWait returns when the counter is 0.         *)
(*                                                                         *)
(* The queues are FifoQueues, which QueueThreaded implements as long as no *)
(* consumer is overtaken; a thread claims a group in one step and copies   *)
(* it in the next, and before it has, main may write another group into    *)
(* the slot.  PunctualSpec assumes that main is never that fast.  Threads  *)
(* sleep on a semaphore of their own.  Only the main thread dispatches (a  *)
(* queue has a single producer).                                           *)
(***************************************************************************)
EXTENDS JobArithmetic, Sequences, FiniteSets

CONSTANTS
  NumThreads,    \* JobsState.NumThreads
  Main,          \* the main thread
  QueueBound,    \* jobs that fit a queue: JOB_QUEUE_SIZE - 1
  Handles,       \* the JobHandles of the program
  Calls,         \* <<jobCount, groupSize>> of the dispatches it makes
  MaxCalls,      \* bound: dispatches in a run
  StartValues,   \* what a worker can find in *threadIdx
  NoHandle, NoJob, NoView

ASSUME ThreadsAssumption == NumThreads \in Nat \ {0}
ASSUME QueueAssumption == QueueBound \in Nat
ASSUME CallsAssumption ==
  /\ MaxCalls \in Nat
  /\ \A call \in Calls : call[1] \in Word \ {0} /\ call[2] \in Word \ {0}
ASSUME StartAssumption == StartValues \subseteq Word

Workers == 0 .. NumThreads - 1
Threads == Workers \union {Main}

ASSUME ConstantsDiffer == Main \notin Workers /\ NoHandle \notin Handles

VARIABLES
  IsAlive,         \* JobsState.IsAlive
  NextQueueIndex,  \* JobsState.NextQueueIndex
  semaphore,       \* semaphore[w]: JobsState.Threads[w].semaphore
  counter,         \* counter[h]: JobHandle::Counter
  queue, accepted, view, claim, job,   \* JobQueuePerThread (see FifoQueues);
                   \* job[c] is the local variable `job` of Work
  pc,              \* where each thread is
  startingQueue,   \* Work's startingQueue
  visits,          \* iterations left of Work's loop over the queues
  jobIndex,        \* Work's j
  GroupId,         \* JobsDispatch's loop variable (JobHandleWait's threadId)
  target,          \* JobsDispatch's idx
  waiting,         \* the handle that main is in JobHandleWait for
  (* history, never read by the code: *)
  dispatches,      \* the dispatches made so far; the last may be under way
  runs,            \* runs[d][j]: how often job j of dispatch d was executed
  dropped          \* groups that found their queue full

queueVars == <<queue, accepted, view, claim, job>>
workVars == <<startingQueue, visits, jobIndex>>
mainVars == <<GroupId, target, waiting, dispatches, dropped, NextQueueIndex>>
vars == <<IsAlive, semaphore, counter, queueVars, pc, workVars, mainVars, runs>>

JobIndices == 0 .. WordSize - 1

Queues == INSTANCE FifoQueues WITH
  Queues <- Workers, Consumers <- Threads, Bound <- QueueBound,
  Values <- {}, NoValue <- NoJob, out <- job

Init ==
  /\ IsAlive = TRUE
  /\ NextQueueIndex = 0
  /\ semaphore = [w \in Workers |-> 0]
  /\ counter = [h \in Handles |-> 0]
  /\ Queues!Init
  /\ pc = [c \in Threads |-> IF c = Main THEN "starting" ELSE "off"]
  /\ startingQueue = [c \in Threads |-> 0]
  /\ visits = [c \in Threads |-> 0]
  /\ jobIndex = [c \in Threads |-> 0]
  /\ GroupId = 0 /\ target = 0
  /\ waiting = NoHandle
  /\ dispatches = <<>>
  /\ runs = [d \in 1 .. MaxCalls |-> [j \in JobIndices |-> 0]]
  /\ dropped = {}

Goto(c, label) == pc' = [pc EXCEPT ![c] = label]

\* The u32 counter of queues is incremented on every use.
TakeQueueIndex == NextQueueIndex' = (NextQueueIndex + 1) % WordSize

-----------------------------------------------------------------------------
(* Work. *)

EnterWork(c, q) ==
  /\ startingQueue' = [startingQueue EXCEPT ![c] = q]
  /\ visits' = [visits EXCEPT ![c] = NumThreads]
  /\ Goto(c, "next")

\* Work returns when it has been at NumThreads queues.
LeaveWork(c) ==
  /\ pc[c] = "next" /\ visits[c] = 0
  /\ startingQueue' = [startingQueue EXCEPT ![c] = 0]
  /\ Goto(c, IF c = Main THEN "spin" ELSE "sleep")
  /\ UNCHANGED <<IsAlive, semaphore, counter, queueVars, visits, jobIndex,
                 mainVars, runs>>

PopFrontLook(c) ==
  /\ pc[c] = "next" /\ visits[c] > 0
  /\ Queues!Look(c, startingQueue[c] % NumThreads)
  /\ Goto(c, "looking")
  /\ UNCHANGED <<IsAlive, semaphore, counter, workVars, mainVars, runs>>

\* The compare-exchange of PopFront, and the copy of the group.
PopFrontClaim(c) ==
  /\ pc[c] = "looking"
  /\ Queues!Claim(c)
  /\ Goto(c, "copying")
  /\ UNCHANGED <<IsAlive, semaphore, counter, workVars, mainVars, runs>>

PopFrontCopy(c) ==
  /\ pc[c] = "copying"
  /\ Queues!Copy(c)
  /\ jobIndex' = [jobIndex EXCEPT ![c] = job[c].groupJobOffset]
  /\ Goto(c, "run")
  /\ UNCHANGED <<IsAlive, semaphore, counter, startingQueue, visits, mainVars,
                 runs>>

\* Mutant: the index of the next queue does not wrap like a u32.
GiveUpUnwrapped(c) ==
  /\ pc[c] = "looking"
  /\ Queues!GiveUp(c)
  /\ startingQueue' = [startingQueue EXCEPT ![c] = @ + 1]
  /\ visits' = [visits EXCEPT ![c] = @ - 1]
  /\ Goto(c, "next")
  /\ UNCHANGED <<IsAlive, semaphore, counter, jobIndex, mainVars, runs>>

\* PopFront is false: on to the next queue.
PopFrontGiveUp(c) ==
  /\ pc[c] = "looking"
  /\ Queues!GiveUp(c)
  /\ startingQueue' = [startingQueue EXCEPT ![c] = (@ + 1) % WordSize]
  /\ visits' = [visits EXCEPT ![c] = @ - 1]
  /\ Goto(c, "next")
  /\ UNCHANGED <<IsAlive, semaphore, counter, jobIndex, mainVars, runs>>

RunJob(c) ==
  /\ pc[c] = "run"
  /\ jobIndex[c] < job[c].groupJobEnd
  /\ runs' = [runs EXCEPT ![job[c].dispatch][jobIndex[c]] = @ + 1]
  /\ jobIndex' = [jobIndex EXCEPT ![c] = @ + 1]
  /\ UNCHANGED <<IsAlive, semaphore, counter, queueVars, pc, startingQueue,
                 visits, mainVars>>

\* Mutant: a finished group is not counted down.
FinishUncounted(c) ==
  /\ pc[c] = "run"
  /\ jobIndex[c] >= job[c].groupJobEnd
  /\ job' = [job EXCEPT ![c] = NoJob]
  /\ jobIndex' = [jobIndex EXCEPT ![c] = 0]
  /\ Goto(c, "next")
  /\ UNCHANGED <<IsAlive, semaphore, counter, queue, accepted, view, claim,
                 startingQueue, visits, mainVars, runs>>

FinishGroup(c) ==
  /\ pc[c] = "run"
  /\ jobIndex[c] >= job[c].groupJobEnd
  /\ counter' = [counter EXCEPT ![job[c].handle] = @ - 1]
  /\ job' = [job EXCEPT ![c] = NoJob]
  /\ jobIndex' = [jobIndex EXCEPT ![c] = 0]
  /\ Goto(c, "next")
  /\ UNCHANGED <<IsAlive, semaphore, queue, accepted, view, claim, startingQueue,
                 visits, mainVars, runs>>

Work(c) ==
  \/ LeaveWork(c) \/ PopFrontLook(c) \/ PopFrontClaim(c) \/ PopFrontCopy(c)
  \/ PopFrontGiveUp(c) \/ RunJob(c) \/ FinishGroup(c)

-----------------------------------------------------------------------------
(* The worker threads. *)

\* threadIdx points at a local variable of JobsInitialize that has moved on
\* or is gone: its value is arbitrary.
WorkerCheck(w) ==
  /\ pc[w] = "check"
  /\ IsAlive
  /\ \E idx \in StartValues : EnterWork(w, idx)
  /\ UNCHANGED <<IsAlive, semaphore, counter, queueVars, jobIndex, mainVars, runs>>

WorkerEnd(w) ==
  /\ pc[w] = "check"
  /\ ~ IsAlive
  /\ Goto(w, "ended")
  /\ UNCHANGED <<IsAlive, semaphore, counter, queueVars, workVars, mainVars, runs>>

WorkerWake(w) ==
  /\ pc[w] = "sleep"
  /\ semaphore[w] > 0
  /\ semaphore' = [semaphore EXCEPT ![w] = @ - 1]
  /\ Goto(w, "check")
  /\ UNCHANGED <<IsAlive, counter, queueVars, workVars, mainVars, runs>>

Worker(w) == WorkerCheck(w) \/ WorkerEnd(w) \/ WorkerWake(w) \/ Work(w)

-----------------------------------------------------------------------------
(* The main thread: JobsInitialize and the destructor. *)

StartThread ==
  /\ pc[Main] = "starting"
  /\ \E w \in Workers :
       /\ pc[w] = "off" /\ \A v \in Workers : v < w => pc[v] # "off"
       /\ pc' = [pc EXCEPT ![w] = "check",
                           ![Main] = IF w = NumThreads - 1 THEN "ready" ELSE @]
  /\ UNCHANGED <<IsAlive, semaphore, counter, queueVars, workVars, mainVars, runs>>

\* The loop that posts, joins and destroys the threads runs Threads.Count
\* times, and Resize never sets Count.
Shutdown ==
  /\ pc[Main] = "ready"
  /\ IsAlive' = FALSE
  /\ Goto(Main, "ended")
  /\ UNCHANGED <<semaphore, counter, queueVars, workVars, mainVars, runs>>

-----------------------------------------------------------------------------
(* JobsExecute and JobsDispatch. *)

\* Mutant: the counter is stored instead of added to.
BeginStore(h, jobCount, groupSize, groupCount) ==
  /\ pc[Main] = "ready"
  /\ Len(dispatches) < MaxCalls
  /\ counter' = [counter EXCEPT ![h] = groupCount]
  /\ dispatches' = Append(dispatches,
                     [handle |-> h, jobCount |-> jobCount,
                      groupSize |-> groupSize, groupCount |-> groupCount])
  /\ GroupId' = 0
  /\ Goto(Main, IF groupCount = 0 THEN "ready" ELSE "push")
  /\ UNCHANGED <<IsAlive, semaphore, queueVars, workVars, target, waiting,
                 dropped, NextQueueIndex, runs>>

Begin(h, jobCount, groupSize, groupCount) ==
  /\ pc[Main] = "ready"
  /\ Len(dispatches) < MaxCalls
  /\ counter' = [counter EXCEPT ![h] = @ + groupCount]
  /\ dispatches' = Append(dispatches,
                     [handle |-> h, jobCount |-> jobCount,
                      groupSize |-> groupSize, groupCount |-> groupCount])
  /\ GroupId' = 0
  /\ Goto(Main, IF groupCount = 0 THEN "ready" ELSE "push")
  /\ UNCHANGED <<IsAlive, semaphore, queueVars, workVars, target, waiting,
                 dropped, NextQueueIndex, runs>>

JobsExecute(h) == Begin(h, 1, 1, 1)

JobsDispatch(h, jobCount, groupSize) ==
  Begin(h, jobCount, groupSize, JobsDispatchGroupCount(jobCount, groupSize))

\* Group id of dispatch d as it is queued.
Group(d, id) ==
  LET call == dispatches[d] IN
  [handle |-> call.handle, dispatch |-> d, GroupId |-> id,
   groupJobOffset |-> GroupJobOffset(call.groupSize, id),
   groupJobEnd |-> GroupJobEnd(call.jobCount, call.groupSize, id)]

\* Only an assertion looks at the result of Enqueue.
PushBack ==
  /\ pc[Main] = "push"
  /\ LET idx == NextQueueIndex % NumThreads
         item == Group(Len(dispatches), GroupId)
     IN /\ target' = idx
        /\ \/ Queues!Put(idx, item) /\ UNCHANGED dropped
           \/ Queues!Refuse(idx) /\ dropped' = dropped \union {item}
  /\ TakeQueueIndex
  /\ Goto(Main, "post")
  /\ UNCHANGED <<IsAlive, semaphore, counter, workVars, GroupId, waiting,
                 dispatches, runs>>

\* Mutant: nobody is woken.
PushedUnposted ==
  /\ pc[Main] = "post"
  /\ GroupId' = GroupId + 1
  /\ Goto(Main, IF GroupId + 1 < dispatches[Len(dispatches)].groupCount
                THEN "push" ELSE "ready")
  /\ UNCHANGED <<IsAlive, semaphore, counter, queueVars, workVars, target,
                 waiting, dispatches, dropped, NextQueueIndex, runs>>

PostPushed ==
  /\ pc[Main] = "post"
  /\ semaphore' = [semaphore EXCEPT ![target] = @ + 1]
  /\ GroupId' = GroupId + 1
  /\ Goto(Main, IF GroupId + 1 < dispatches[Len(dispatches)].groupCount
                THEN "push" ELSE "ready")
  /\ UNCHANGED <<IsAlive, counter, queueVars, workVars, target, waiting,
                 dispatches, dropped, NextQueueIndex, runs>>

-----------------------------------------------------------------------------
(* JobHandleWait. *)

JobHandleWait(h) ==
  /\ pc[Main] = "ready"
  /\ waiting' = h
  /\ Goto(Main, "busy")
  /\ UNCHANGED <<IsAlive, semaphore, counter, queueVars, workVars, GroupId,
                 target, dispatches, dropped, NextQueueIndex, runs>>

HandleBusy ==
  /\ pc[Main] = "busy"
  /\ counter[waiting] > 0
  /\ GroupId' = 0
  /\ Goto(Main, "wake")
  /\ UNCHANGED <<IsAlive, semaphore, counter, queueVars, workVars, target,
                 waiting, dispatches, dropped, NextQueueIndex, runs>>

WakeThread ==
  /\ pc[Main] = "wake"
  /\ GroupId < NumThreads
  /\ semaphore' = [semaphore EXCEPT ![GroupId] = @ + 1]
  /\ GroupId' = GroupId + 1
  /\ UNCHANGED <<IsAlive, counter, queueVars, pc, workVars, target, waiting,
                 dispatches, dropped, NextQueueIndex, runs>>

MainEnterWork ==
  /\ pc[Main] = "wake"
  /\ GroupId = NumThreads
  /\ TakeQueueIndex
  /\ EnterWork(Main, NextQueueIndex % NumThreads)
  /\ UNCHANGED <<IsAlive, semaphore, counter, queueVars, jobIndex, GroupId,
                 target, waiting, dispatches, dropped, runs>>

\* Mutant: main returns when it finds no more work.
WaitGivenUp ==
  /\ pc[Main] \in {"busy", "spin"}
  /\ pc[Main] = "busy" => counter[waiting] <= 0
  /\ waiting' = NoHandle
  /\ Goto(Main, "ready")
  /\ UNCHANGED <<IsAlive, semaphore, counter, queueVars, workVars, GroupId,
                 target, dispatches, dropped, NextQueueIndex, runs>>

\* Main spins, yielding, until the counter is 0.
WaitDone ==
  /\ pc[Main] \in {"busy", "spin"}
  /\ counter[waiting] <= 0
  /\ waiting' = NoHandle
  /\ Goto(Main, "ready")
  /\ UNCHANGED <<IsAlive, semaphore, counter, queueVars, workVars, GroupId,
                 target, dispatches, dropped, NextQueueIndex, runs>>

-----------------------------------------------------------------------------

\* What main does once it was asked to: it is the caller who asks.
MainStep ==
  \/ StartThread \/ PushBack \/ PostPushed
  \/ HandleBusy \/ WakeThread \/ MainEnterWork \/ WaitDone \/ Work(Main)

Request ==
  \/ \E h \in Handles :
       \/ JobsExecute(h) \/ JobHandleWait(h)
       \/ \E call \in Calls : JobsDispatch(h, call[1], call[2])
  \/ Shutdown

Next == MainStep \/ Request \/ \E w \in Workers : Worker(w)

\* The job system for any timing of its threads: a thread that main overtakes
\* runs another group than the one it claimed.
Spec == Init /\ [][Next]_vars

\* No thread is overtaken by a whole lap of a queue (256 groups) between its
\* compare-exchange and its copy.
Punctual == Queues!Punctual

PunctualNext == Next /\ Punctual'

PunctualSpec == Init /\ [][PunctualNext]_vars

\* The scheduler runs every thread; nothing obliges the caller to call.
FairPunctualSpec ==
  /\ PunctualSpec
  /\ WF_vars(MainStep /\ Punctual')
  /\ \A w \in Workers : WF_vars(Worker(w) /\ Punctual')

-----------------------------------------------------------------------------
(* Properties. *)

Labels == {"off", "check", "sleep", "ended", "starting", "ready", "push",
           "post", "busy", "wake", "spin", "next", "looking", "copying", "run"}

Groups ==
  [handle : Handles, dispatch : 1 .. MaxCalls, GroupId : Word,
   groupJobOffset : Word, groupJobEnd : Word]

ASSUME NoJobAssumption ==
  NoJob \notin Groups /\ NoView \notin Queues!Views \union Queues!Claims

Dispatches ==
  [handle : Handles, jobCount : Word \ {0}, groupSize : Word \ {0}, groupCount : Word]

TypeOK ==
  /\ IsAlive \in BOOLEAN
  /\ NextQueueIndex \in Word
  /\ semaphore \in [Workers -> Nat]
  /\ counter \in [Handles -> Int]
  /\ queue \in [Workers -> Seq(Groups)]
  /\ accepted \in BOOLEAN
  /\ view \in [Threads -> Queues!Views \union {NoView}]
  /\ claim \in [Threads -> Queues!Claims \union {NoView}]
  /\ job \in [Threads -> Groups \union {NoJob}]
  /\ pc \in [Threads -> Labels]
  /\ startingQueue \in [Threads -> Word]
  /\ visits \in [Threads -> 0 .. NumThreads]
  /\ jobIndex \in [Threads -> Word]
  /\ GroupId \in Nat /\ target \in Workers
  /\ waiting \in Handles \union {NoHandle}
  /\ dispatches \in Seq(Dispatches) /\ Len(dispatches) <= MaxCalls
  /\ runs \in [1 .. MaxCalls -> [JobIndices -> Nat]]
  /\ dropped \subseteq Groups

\* Where the groups of the dispatches are that are not finished.
NotPushed ==
  LET d == Len(dispatches)
      left == CASE pc[Main] = "push" -> GroupId .. dispatches[d].groupCount - 1
                [] pc[Main] = "post" -> GroupId + 1 .. dispatches[d].groupCount - 1
                [] OTHER -> {}
  IN {Group(d, id) : id \in left}

Queued == UNION {{queue[w][i] : i \in DOMAIN queue[w]} : w \in Workers}
Running == {job[c] : c \in Threads} \ {NoJob}
NotStarted == NotPushed \union Queued \union dropped

\* A handle's counter is the number of its groups that are not finished: it
\* never reaches 0 too early, and it never goes below.
CounterExact ==
  \A h \in Handles :
    counter[h] = Cardinality({g \in NotStarted \union Running : g.handle = h})

\* The thread that runs group g has come to job j.
RunBy(g, j) == \E c \in Threads : job[c] = g /\ j < jobIndex[c]

\* No job runs twice, although any thread may take its group, and none is left
\* out: the jobs of a group run one by one after one thread has claimed it and
\* before it is counted down, and those of a group that a full queue refused
\* never do.  (Of threads that no lap overtakes: PunctualSpec.)
JobsRunOnce ==
  \A d \in 1 .. Len(dispatches), j \in JobIndices :
    LET g == Group(d, j \div dispatches[d].groupSize) IN
    runs[d][j] = IF \/ j >= dispatches[d].jobCount
                    \/ g \in NotStarted
                    \/ g \in Running /\ ~ RunBy(g, j)
                 THEN 0 ELSE 1

\* A thread that is in Work will still look at queue q, and its look is good.
WillLook(c, q) ==
  \/ /\ pc[c] \in {"next", "copying", "run"}
     /\ q \in {((startingQueue[c] + k) % WordSize) % NumThreads : k \in 0 .. visits[c] - 1}
  \/ /\ pc[c] = "looking"
     /\ \/ view[c].queue = q /\ ~ view[c].stale
        \/ q \in {((startingQueue[c] + k) % WordSize) % NumThreads : k \in 1 .. visits[c] - 1}

\* A thread that will start to work without being asked again.
WillWork(c) ==
  \/ c \in Workers /\ pc[c] \in {"off", "check"}
  \/ c \in Workers /\ semaphore[c] > 0
  \/ c = Main /\ pc[c] = "wake"

\* No wakeup is lost: while the system is alive, a job in a queue has a thread
\* that is going to look at its queue, or main is about to post a semaphore.
NoStrandedJob ==
  IsAlive =>
    \A q \in Workers :
      queue[q] = <<>> \/ pc[Main] = "post"
      \/ \E c \in Threads : WillWork(c) \/ WillLook(c, q)

\* A wait returns, as long as no job was refused by a full queue.
WaitReturns ==
  (pc[Main] = "busy" /\ dropped = {}) ~> (pc[Main] = "ready")

AllRan(d) ==
  \A j \in JobIndices : j < dispatches[d].jobCount => runs[d][j] = 1

\* A job that is accepted is executed although nobody waits for it, unless the
\* system is shut down first.
AcceptedJobRuns ==
  \A d \in 1 .. MaxCalls :
    (Len(dispatches) >= d)
      ~> (Len(dispatches) >= d /\ (AllRan(d) \/ ~ IsAlive \/ dropped # {}))

\* What the job system promises to its caller.
Tasks == [handle : Handles, dispatch : 1 .. MaxCalls, index : JobIndices]

Promise == INSTANCE JobSystem WITH
  submitted <- {t \in Tasks :
                  /\ t.dispatch \in DOMAIN dispatches
                  /\ t.handle = dispatches[t.dispatch].handle
                  /\ t.index < dispatches[t.dispatch].jobCount},
  executed <- {t \in Tasks :
                 /\ t.dispatch \in DOMAIN dispatches
                 /\ t.handle = dispatches[t.dispatch].handle
                 /\ runs[t.dispatch][t.index] > 0}

\* A wait returns only when every job of its handle has been executed.
ImplementsJobSystem == Promise!Spec

\* "Wait until all threads become idle": that a wait returns in any case.  A
\* group that its full queue refused stays counted for ever.
EveryWaitReturns == (pc[Main] = "busy") ~> (pc[Main] = "ready")

=============================================================================

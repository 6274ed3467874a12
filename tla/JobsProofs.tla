----------------------------- MODULE JobsProofs -----------------------------
(***************************************************************************)
(* The job system of Jobs, for every word size, any number of workers,     *)
(* queues of any size and dispatches of any shape: its types, the counters *)
(* of its handles, that no job runs twice or is left out, that no queued   *)
(* job is left without a thread that looks for it, and that it keeps the   *)
(* promise of JobSystem.  All of it is about PunctualSpec: no thread is    *)
(* overtaken by a whole lap of a queue between claiming and copying a      *)
(* group.  Before that, what its arithmetic does: how a dispatch is cut    *)
(* into groups, and how many workers are started.                          *)
(***************************************************************************)
EXTENDS Jobs, RingArithmetic, FiniteSetTheorems, SequenceTheorems

-----------------------------------------------------------------------------
(* The groups of a dispatch. *)

\* A number that fits a word is not changed by wrapping it.
LEMMA Fits ==
  ASSUME NEW x \in Nat, x < WordSize
  PROVE  x % WordSize = x
<1>1. /\ WordSize \in Nat \ {0} /\ x \in 0 .. WordSize - 1 /\ 0 \in Nat
      /\ x = WordSize * 0 + x
  BY WordSizeAssumption
<1> QED BY ONLY <1>1, RemainderIs

\* The group count is the number of multiples of groupSize below jobCount.
LEMMA GroupCountBounds ==
  ASSUME NEW n \in Nat \ {0}, NEW g \in Nat \ {0}, NoOverflow(n, g),
         NEW count, count = JobsDispatchGroupCount(n, g)
  PROVE  /\ count \in Nat \ {0}
         /\ g * (count - 1) \in Nat /\ g * (count - 1) < n
         /\ g * count \in Nat /\ n <= g * count
<1>1. n + g - 1 \in Nat /\ (n + g - 1) % WordSize = n + g - 1
  BY Fits DEF NoOverflow
<1>2. count = (n + g - 1) \div g
  BY <1>1 DEF JobsDispatchGroupCount
<1> DEFINE r == (n + g - 1) % g
<1>3. n + g - 1 = (g * count) + r /\ count \in Nat /\ r \in 0 .. g - 1
  BY <1>1, <1>2, DivMod
<1> HIDE DEF r
<1>4. count # 0
  <2> SUFFICES ASSUME count = 0 PROVE FALSE
    OBVIOUS
  <2>1. g * count = 0
    OBVIOUS
  <2> QED BY <1>3, <2>1
<1>5. /\ g * count \in Nat /\ g * (count - 1) \in Nat
      /\ g * (count - 1) = (g * count) - g
  BY <1>3, <1>4
<1> QED BY <1>3, <1>4, <1>5

\* Where a group starts and ends, without wrapping.
LEMMA GroupBounds ==
  ASSUME NEW n \in Nat \ {0}, NEW g \in Nat \ {0}, NoOverflow(n, g),
         NEW id \in GroupIds(n, g)
  PROVE  /\ id \in Nat /\ g * id \in Nat
         /\ GroupJobOffset(g, id) = g * id
         /\ g * id < n
         /\ GroupJobEnd(n, g, id) = IF g * id + g < n THEN g * id + g ELSE n
         /\ id # JobsDispatchGroupCount(n, g) - 1 => g * id + g < n
<1> DEFINE count == JobsDispatchGroupCount(n, g)
<1>1. /\ count \in Nat \ {0}
      /\ g * (count - 1) \in Nat /\ g * (count - 1) < n
  BY GroupCountBounds
<1>2. id \in Nat /\ id < count
  BY <1>1 DEF GroupIds
<1> HIDE DEF count
<1>3. g * id \in Nat
  BY <1>2
<1>4. id # count - 1 => g * id + g < n
  <2> SUFFICES ASSUME id # count - 1 PROVE g * id + g < n
    OBVIOUS
  <2>1. count - 1 \in Nat /\ id < count - 1
    BY <1>1, <1>2
  <2>2. g * id + g <= g * (count - 1)
    BY <1>2, <2>1, MultiplesApart
  <2> QED BY <1>1, <1>3, <2>2
<1>5. g * id < n
  BY <1>1, <1>3, <1>4
<1>6. GroupJobOffset(g, id) = g * id
  <2>1. id * g = g * id
    BY <1>2
  <2>2. g * id < WordSize
    BY <1>3, <1>5, WordSizeAssumption DEF NoOverflow
  <2> QED BY <1>3, <2>1, <2>2, Fits DEF GroupJobOffset
<1>7. (g * id + g) % WordSize = g * id + g
  <2>1. g * id + g \in Nat /\ g * id + g < WordSize
    BY <1>3, <1>5, WordSizeAssumption DEF NoOverflow
  <2> QED BY <2>1, Fits
<1> QED BY <1>2, <1>3, <1>4, <1>5, <1>6, <1>7 DEF GroupJobEnd, count

\* The group of a job is the quotient of its index, and it is among the groups.
LEMMA GroupOfJob ==
  ASSUME NEW n \in Nat \ {0}, NEW g \in Nat \ {0}, NoOverflow(n, g),
         NEW j \in 0 .. n - 1
  PROVE  j \div g \in GroupIds(n, g) /\ j \in GroupJobs(n, g, j \div g)
<1> DEFINE count == JobsDispatchGroupCount(n, g)
           id == j \div g
           s == j % g
<1>1. count \in Nat \ {0} /\ g * count \in Nat /\ n <= g * count
  BY GroupCountBounds
<1>2. j \in Nat /\ j = (g * id) + s /\ id \in Nat /\ s \in 0 .. g - 1
  <2>1. j \in Nat
    OBVIOUS
  <2> QED BY <2>1, DivMod
<1> HIDE DEF id, s
<1>3. g * id \in Nat
  BY <1>2
<1>4. id < count
  <2> SUFFICES ASSUME ~ id < count PROVE FALSE
    OBVIOUS
  <2> HIDE DEF count
  <2>1. CASE id = count
    BY <1>1, <1>2, <1>3, <2>1
  <2>2. CASE count < id
    <3>1. g * count + g <= g * id
      BY <1>1, <1>2, <2>2, MultiplesApart
    <3> QED BY <1>1, <1>2, <1>3, <3>1
  <2> QED BY <1>1, <1>2, <2>1, <2>2
<1>5. id \in GroupIds(n, g)
  BY <1>1, <1>2, <1>4 DEF GroupIds
<1>6. /\ GroupJobOffset(g, id) = g * id
      /\ GroupJobEnd(n, g, id) = IF g * id + g < n THEN g * id + g ELSE n
  BY <1>5, GroupBounds
<1>7. j \in GroupJobs(n, g, id)
  BY <1>2, <1>3, <1>6 DEF GroupJobs
<1> QED BY <1>5, <1>7 DEF id

\* No other group has it.
LEMMA GroupIsQuotient ==
  ASSUME NEW n \in Nat \ {0}, NEW g \in Nat \ {0}, NoOverflow(n, g),
         NEW id \in GroupIds(n, g), NEW j \in GroupJobs(n, g, id)
  PROVE  j \in 0 .. n - 1 /\ id = j \div g
<1> DEFINE q == j \div g
           s == j % g
           r == j - g * id
<1>1. /\ id \in Nat /\ g * id \in Nat /\ GroupJobOffset(g, id) = g * id
      /\ GroupJobEnd(n, g, id) = IF g * id + g < n THEN g * id + g ELSE n
  BY GroupBounds
<1>2. j \in Nat /\ g * id <= j /\ j < g * id + g /\ j < n
  BY <1>1 DEF GroupJobs
<1>3. j = (g * q) + s /\ q \in Nat /\ s \in 0 .. g - 1
  BY <1>2, DivMod
<1> HIDE DEF q, s
<1>4. r \in 0 .. g - 1 /\ g * id + r = j
  BY <1>1, <1>2
<1> HIDE DEF r
<1>5. g * id + r = g * q + s
  BY <1>3, <1>4
<1>6. id = q
  BY ONLY <1>1, <1>3, <1>4, <1>5, DivisionUnique, g \in Nat \ {0}
<1> QED BY <1>2, <1>6 DEF q

\* A dispatch that does not overflow is a partition of its jobs: every job is
\* handed out, once, in groups that are full except for the last one.
THEOREM DispatchPartition ==
  ASSUME NEW n \in Nat \ {0}, NEW g \in Nat \ {0}, NoOverflow(n, g)
  PROVE  GroupsPartitionJobs(n, g)
<1> DEFINE count == JobsDispatchGroupCount(n, g)
           Ids == GroupIds(n, g)
<1>1. ASSUME NEW j \in 0 .. n - 1
      PROVE  \E id \in Ids : j \in GroupJobs(n, g, id)
  BY GroupOfJob
<1>2. ASSUME NEW id \in Ids, NEW j \in GroupJobs(n, g, id)
      PROVE  /\ j \in 0 .. n - 1
             /\ \A other \in Ids : j \in GroupJobs(n, g, other) => other = id
  <2>1. j \in 0 .. n - 1 /\ id = j \div g
    BY GroupIsQuotient
  <2>2. ASSUME NEW other \in Ids, j \in GroupJobs(n, g, other)
        PROVE  other = j \div g
    BY <2>2, GroupIsQuotient
  <2> QED BY <2>1, <2>2
<1>3. ASSUME NEW id \in Ids,
             NEW size, size = GroupJobEnd(n, g, id) - GroupJobOffset(g, id)
      PROVE  0 < size /\ size <= g /\ (size < g => id = count - 1)
  <2>1. /\ g * id \in Nat /\ GroupJobOffset(g, id) = g * id /\ g * id < n
        /\ GroupJobEnd(n, g, id) = IF g * id + g < n THEN g * id + g ELSE n
        /\ id # count - 1 => g * id + g < n
    BY GroupBounds
  <2> HIDE DEF count
  <2> QED BY <1>3, <2>1
<1> QED BY <1>1, <1>2, <1>3 DEF GroupsPartitionJobs

\* Every group of a dispatch that does not overflow has one job that is told to
\* be its first and one that is told to be its last, and its jobs are numbered
\* from 0 without a gap.
THEOREM DispatchFlags ==
  ASSUME NEW n \in Nat \ {0}, NEW g \in Nat \ {0}, NoOverflow(n, g)
  PROVE  GroupFlagsRight(n, g)
<1> SUFFICES ASSUME NEW id \in GroupIds(n, g)
             PROVE  LET jobs == GroupJobs(n, g, id)
                        places == {GroupIndex(g, id, j) : j \in jobs}
                    IN \E first, last \in jobs :
                         /\ \A j \in jobs :
                              /\ IsFirstJobInGroup(g, id, j) <=> j = first
                              /\ IsLastJobInGroup(n, g, id, j) <=> j = last
                         /\ places = 0 .. GroupIndex(g, id, last)
  BY DEF GroupFlagsRight
<1> DEFINE start == GroupJobOffset(g, id)
           end == GroupJobEnd(n, g, id)
           jobs == GroupJobs(n, g, id)
           places == {GroupIndex(g, id, j) : j \in jobs}
<1>1. start \in Nat /\ end \in Nat /\ start < end
  <2>1. /\ g * id \in Nat /\ GroupJobOffset(g, id) = g * id /\ g * id < n
        /\ GroupJobEnd(n, g, id) = IF g * id + g < n THEN g * id + g ELSE n
    BY GroupBounds
  <2> QED BY <2>1
<1>2. jobs = start .. end - 1
  BY DEF GroupJobs
<1>3. \A j : /\ IsFirstJobInGroup(g, id, j) <=> j = start
             /\ IsLastJobInGroup(n, g, id, j) <=> j = end - 1
             /\ GroupIndex(g, id, j) = j - start
  BY DEF IsFirstJobInGroup, IsLastJobInGroup, GroupIndex
<1> HIDE DEF start, end, jobs
<1>4. start \in jobs /\ end - 1 \in jobs
  BY <1>1, <1>2
<1>5. places = {j - start : j \in jobs}
  BY <1>3
<1>6. places = 0 .. (end - 1) - start
  <2>1. ASSUME NEW i \in 0 .. (end - 1) - start
        PROVE  i + start \in jobs /\ i = (i + start) - start
    BY <1>1, <1>2
  <2>2. ASSUME NEW j \in jobs PROVE j - start \in 0 .. (end - 1) - start
    BY <1>1, <1>2
  <2> QED BY <1>5, <2>1, <2>2
<1>7. \A j \in jobs : /\ IsFirstJobInGroup(g, id, j) <=> j = start
                      /\ IsLastJobInGroup(n, g, id, j) <=> j = end - 1
  BY <1>3
<1>8. places = 0 .. GroupIndex(g, id, end - 1)
  BY <1>3, <1>6
<1> HIDE DEF places
<1> QED BY <1>4, <1>7, <1>8 DEF jobs, places

\* A machine with two hardware threads or more keeps one for main and one for
\* other programs, unless that would leave no worker at all.
THEOREM TwoThreadsLeft ==
  ASSUME NEW threadCount \in Word, threadCount >= 2,
         NEW maxThreadCount \in Word \ {0}
  PROVE  LeavesTwoThreads(threadCount, maxThreadCount)
<1>1. threadCount - 2 \in Nat /\ threadCount - 2 < WordSize
      /\ maxThreadCount \in Nat \ {0} /\ threadCount \in Nat
  BY WordSizeAssumption DEF Word
<1>2. (threadCount - 2) % WordSize = threadCount - 2
  BY <1>1, Fits
<1> QED BY <1>1, <1>2 DEF LeavesTwoThreads, NumThreadsFor


-----------------------------------------------------------------------------
(* The inductive invariant. *)

WorkLabels == {"next", "looking", "copying", "run"}
WaitLabels == {"busy", "wake", "spin"} \union WorkLabels
WorkerLabels == {"off", "check", "sleep", "ended"} \union WorkLabels
MainLabels == {"starting", "ready", "ended", "push", "post"} \union WaitLabels

\* A thread has a job exactly while it copies or runs one, a view exactly while
\* it looks at a queue, and a claim exactly until it has copied the group; main
\* waits for a handle exactly while it is in JobHandleWait, and a dispatch is
\* under way while it pushes and posts.
Control ==
  /\ \A c \in Threads : /\ job[c] # NoJob <=> pc[c] \in {"copying", "run"}
                        /\ view[c] # NoView <=> pc[c] = "looking"
                        /\ claim[c] # NoView <=> pc[c] = "copying"
                        /\ pc[c] \in {"looking", "copying", "run"} => visits[c] > 0
  /\ \A w \in Workers : pc[w] \in WorkerLabels
  /\ pc[Main] \in MainLabels
  /\ waiting # NoHandle <=> pc[Main] \in WaitLabels
  /\ pc[Main] \in {"push", "post"} =>
       /\ Len(dispatches) > 0
       /\ GroupId < dispatches[Len(dispatches)].groupCount
  /\ pc[Main] = "wake" => GroupId <= NumThreads

\* A group that is not finished is one of the groups of a dispatch.
IsGroup(g) ==
  /\ g.dispatch \in 1 .. Len(dispatches)
  /\ g.GroupId \in 0 .. dispatches[g.dispatch].groupCount - 1
  /\ g = Group(g.dispatch, g.GroupId)

Open == NotStarted \union Running

Known == \A g \in Open : IsGroup(g)

\* A group is in one place only.
RunByOne == \A b, c \in Threads : job[b] # NoJob /\ job[b] = job[c] => b = c

QueuedOnce ==
  \A v, w \in Workers :
    \A i \in DOMAIN queue[v], j \in DOMAIN queue[w] :
      queue[v][i] = queue[w][j] => v = w /\ i = j

OnePlace ==
  /\ RunByOne /\ QueuedOnce
  /\ Running \intersect NotStarted = {}
  /\ Queued \intersect (NotPushed \union dropped) = {}
  /\ NotPushed \intersect dropped = {}

Places == Known /\ OnePlace /\ IsFiniteSet(Open) /\ CounterExact

IInv == TypeOK /\ Control /\ Places

\* What JobsRunOnce needs beyond it, if no dispatch overflows.
Cut ==
  \A d \in 1 .. Len(dispatches) :
    LET call == dispatches[d] IN
    /\ NoOverflow(call.jobCount, call.groupSize)
    /\ call.groupCount = JobsDispatchGroupCount(call.jobCount, call.groupSize)

\* The threads that have copied a group and run it.
AtRun == {c \in Threads : pc[c] = "run"}

InGroup ==
  \A c \in Threads :
    IF c \in AtRun
    THEN jobIndex[c] \in job[c].groupJobOffset .. job[c].groupJobEnd
    ELSE jobIndex[c] = 0

Fresh ==
  \A d \in Len(dispatches) + 1 .. MaxCalls, j \in JobIndices : runs[d][j] = 0

RunInv == IInv /\ Cut /\ InGroup /\ Fresh /\ JobsRunOnce

LooksRight ==
  \A c \in Threads :
    pc[c] = "looking" => view[c].queue = startingQueue[c] % NumThreads

StrandInv == IInv /\ LooksRight /\ NoStrandedJob
-----------------------------------------------------------------------------
(* The steps, and the types they keep. *)

CallsFit == \A call \in Calls : NoOverflow(call[1], call[2])

\* A dispatch as JobsExecute and JobsDispatch make it.
Dispatch(h, jobCount, groupSize) ==
  Begin(h, jobCount, groupSize, JobsDispatchGroupCount(jobCount, groupSize))

LEMMA SingleJob == JobsDispatchGroupCount(1, 1) = 1 /\ NoOverflow(1, 1)
<1>1. WordSize \in Nat /\ 1 < WordSize
  BY WordSizeAssumption
<1>2. 1 % WordSize = 1
  BY <1>1, Fits
<1>3. 1 \div 1 = 1 /\ 1 + 1 - 1 = 1
  OBVIOUS
<1> QED BY <1>1, <1>2, <1>3 DEF JobsDispatchGroupCount, NoOverflow

LEMMA GroupCountInWord ==
  ASSUME NEW n \in Word \ {0}, NEW g \in Word \ {0}
  PROVE  JobsDispatchGroupCount(n, g) \in Word
<1> DEFINE x == (n + g - 1) % WordSize
<1>1. n + g - 1 \in Nat /\ g \in Nat \ {0}
  BY WordSizeAssumption DEF Word
<1>2. x \in 0 .. WordSize - 1
  BY <1>1, DivMod, WordSizeAssumption
<1> HIDE DEF x
<1>3. x \div g \in Nat /\ x \div g <= x
  <2>1. /\ x = (g * (x \div g)) + (x % g) /\ x \div g \in Nat
        /\ x % g \in 0 .. g - 1
    BY <1>1, <1>2, DivMod
  <2> DEFINE p == x \div g
             r == x % g
  <2>2. p \in Nat /\ x = g * p + r /\ r \in Nat
    BY <1>1, <2>1
  <2> HIDE DEF p, r
  <2>3. PICK k \in Nat : g = k + 1
    <3>1. g - 1 \in Nat /\ g = (g - 1) + 1
      BY <1>1
    <3> QED BY <3>1
  <2>4. g * p = k * p + p /\ k * p \in Nat
    BY <2>2, <2>3
  <2>5. p \in Nat /\ p <= x
    BY <1>2, <2>2, <2>4
  <2> QED BY <2>5 DEF p
<1> QED BY <1>2, <1>3, WordSizeAssumption DEF JobsDispatchGroupCount, x, Word

LEMMA ModInWord ==
  ASSUME NEW x \in Word
  PROVE  /\ x % NumThreads \in Workers
         /\ x % NumThreads \in Word
         /\ (x + 1) % WordSize \in Word
<1>1. x \in Nat /\ NumThreads \in Nat \ {0} /\ WordSize \in Nat \ {0}
      /\ x + 1 \in Nat
  BY WordSizeAssumption, ThreadsAssumption DEF Word
<1>2. (x + 1) % WordSize \in 0 .. WordSize - 1
  BY <1>1, DivMod
<1>3. x % NumThreads \in 0 .. NumThreads - 1 /\ x % NumThreads <= x
  <2> DEFINE p == x \div NumThreads
             r == x % NumThreads
  <2>1. x = NumThreads * p + r /\ p \in Nat /\ r \in 0 .. NumThreads - 1
    BY <1>1, DivMod
  <2> HIDE DEF p, r
  <2>2. NumThreads * p \in Nat
    BY <1>1, <2>1
  <2>3. r \in 0 .. NumThreads - 1 /\ r <= x
    BY <1>1, <2>1, <2>2
  <2> QED BY <2>3 DEF r
<1> QED BY <1>1, <1>2, <1>3 DEF Word, Workers

\* Every step, by name.
LEMMA StepCases ==
  ASSUME [PunctualNext]_vars
  PROVE  \/ UNCHANGED vars
         \/ StartThread \/ Shutdown \/ (PushBack /\ Punctual') \/ PostPushed
         \/ HandleBusy \/ WakeThread \/ MainEnterWork \/ WaitDone
         \/ \E c \in Threads :
              \/ LeaveWork(c) \/ PopFrontLook(c) \/ PopFrontClaim(c)
              \/ PopFrontCopy(c) \/ PopFrontGiveUp(c) \/ RunJob(c) \/ FinishGroup(c)
         \/ \E w \in Workers : WorkerCheck(w) \/ WorkerEnd(w) \/ WorkerWake(w)
         \/ \E h \in Handles : JobHandleWait(h)
         \/ \E h \in Handles, n, g \in Word \ {0} :
              Dispatch(h, n, g) /\ (CallsFit => NoOverflow(n, g))
<1>1. CASE MainStep /\ Punctual'
  <2>1. Main \in Threads
    BY DEF Threads
  <2> QED BY <1>1, <2>1 DEF MainStep, Work
<1>2. CASE Request
  <2>1. CASE Shutdown
    BY <2>1
  <2>2. ASSUME NEW h \in Handles, JobHandleWait(h)
        PROVE  \E i \in Handles : JobHandleWait(i)
    BY <2>2
  <2>3. ASSUME NEW h \in Handles, JobsExecute(h)
        PROVE  \E i \in Handles, n, g \in Word \ {0} :
                 Dispatch(i, n, g) /\ (CallsFit => NoOverflow(n, g))
    <3>1. 1 \in Word \ {0}
      BY WordSizeAssumption DEF Word
    <3>2. Dispatch(h, 1, 1) /\ NoOverflow(1, 1)
      BY <2>3, SingleJob DEF JobsExecute, Dispatch
    <3> QED BY <3>1, <3>2
  <2>4. ASSUME NEW h \in Handles, NEW call \in Calls,
               JobsDispatch(h, call[1], call[2])
        PROVE  \E i \in Handles, n, g \in Word \ {0} :
                 Dispatch(i, n, g) /\ (CallsFit => NoOverflow(n, g))
    <3>1. call[1] \in Word \ {0} /\ call[2] \in Word \ {0}
      BY CallsAssumption
    <3>2. Dispatch(h, call[1], call[2])
      BY <2>4 DEF JobsDispatch, Dispatch
    <3>3. CallsFit => NoOverflow(call[1], call[2])
      BY DEF CallsFit
    <3> QED BY <3>1, <3>2, <3>3
  <2> QED BY <1>2, <2>1, <2>2, <2>3, <2>4 DEF Request
<1>3. CASE \E w \in Workers : Worker(w)
  <2>1. Workers \subseteq Threads
    BY DEF Threads
  <2> QED BY <1>3, <2>1 DEF Worker, Work
<1> QED BY <1>1, <1>2, <1>3 DEF PunctualNext, Next

LEMMA TypeInit == Init => TypeOK
<1> SUFFICES ASSUME Init PROVE TypeOK
  OBVIOUS
<1>1. 0 \in Word /\ 0 \in 0 .. NumThreads /\ 0 \in Workers /\ MaxCalls \in Nat
  BY WordSizeAssumption, ThreadsAssumption, CallsAssumption DEF Word, Workers
<1>2. queue \in [Workers -> Seq(Groups)] /\ accepted \in BOOLEAN
      /\ view \in [Threads -> Queues!Views \union {NoView}]
      /\ claim \in [Threads -> Queues!Claims \union {NoView}]
      /\ job \in [Threads -> Groups \union {NoJob}]
  BY EmptySeq DEF Init, Queues!Init
<1>3. dispatches \in Seq(Dispatches) /\ Len(dispatches) <= MaxCalls
  BY <1>1, EmptySeq DEF Init
<1>4. pc \in [Threads -> Labels]
  BY DEF Init, Labels
<1>5. runs \in [1 .. MaxCalls -> [JobIndices -> Nat]]
  BY DEF Init
<1> QED BY <1>1, <1>2, <1>3, <1>4, <1>5 DEF Init, TypeOK

LEMMA DispatchType ==
  ASSUME TypeOK, NEW d \in 1 .. Len(dispatches)
  PROVE  /\ d \in 1 .. MaxCalls
         /\ dispatches[d] \in Dispatches
         /\ dispatches[d].handle \in Handles
         /\ dispatches[d].jobCount \in Word \ {0}
         /\ dispatches[d].groupSize \in Word \ {0}
         /\ dispatches[d].groupCount \in Word
<1>1. dispatches \in Seq(Dispatches) /\ Len(dispatches) <= MaxCalls
      /\ Len(dispatches) \in Nat /\ MaxCalls \in Nat
  BY LenProperties, CallsAssumption DEF TypeOK
<1>2. dispatches[d] \in Dispatches
  BY <1>1, ElementOfSeq
<1> QED BY <1>1, <1>2 DEF Dispatches

\* The groups of a dispatch are groups, and differ in their ids.
LEMMA GroupType ==
  ASSUME TypeOK, NEW d \in 1 .. Len(dispatches),
         NEW id \in 0 .. dispatches[d].groupCount - 1
  PROVE  /\ Group(d, id) \in Groups
         /\ Group(d, id).dispatch = d
         /\ Group(d, id).GroupId = id
         /\ Group(d, id).handle = dispatches[d].handle
         /\ IsGroup(Group(d, id))
<1>1. /\ d \in 1 .. MaxCalls
      /\ dispatches[d].handle \in Handles
      /\ dispatches[d].jobCount \in Word \ {0}
      /\ dispatches[d].groupSize \in Word \ {0}
      /\ dispatches[d].groupCount \in Word
  BY DispatchType
<1> DEFINE n == dispatches[d].jobCount
           g == dispatches[d].groupSize
<1>2. id \in Word
  BY <1>1, WordSizeAssumption DEF Word
<1>3. GroupJobOffset(g, id) \in Word
  <2>1. id * g \in Nat
    BY <1>1, <1>2, WordSizeAssumption DEF Word
  <2> QED BY <2>1, DivMod, WordSizeAssumption DEF GroupJobOffset, Word
<1>4. GroupJobEnd(n, g, id) \in Word
  <2> DEFINE x == GroupJobOffset(g, id) + g
  <2>1. x \in Nat
    BY <1>1, <1>3, WordSizeAssumption DEF Word
  <2> HIDE DEF x
  <2>2. x % WordSize \in Word
    BY <2>1, DivMod, WordSizeAssumption DEF Word
  <2> QED BY <1>1, <2>2 DEF GroupJobEnd, x
<1>5. Group(d, id) = [handle |-> dispatches[d].handle, dispatch |-> d, GroupId |-> id,
                      groupJobOffset |-> GroupJobOffset(g, id),
                      groupJobEnd |-> GroupJobEnd(n, g, id)]
  BY DEF Group
<1>6. /\ Group(d, id) \in Groups
      /\ Group(d, id).dispatch = d /\ Group(d, id).GroupId = id
      /\ Group(d, id).handle = dispatches[d].handle
  BY <1>1, <1>2, <1>3, <1>4, <1>5 DEF Groups
<1> QED BY <1>6 DEF IsGroup

LEMMA LastDispatch ==
  ASSUME TypeOK, Control, pc[Main] \in {"push", "post"}
  PROVE  /\ Len(dispatches) \in 1 .. Len(dispatches)
         /\ GroupId \in 0 .. dispatches[Len(dispatches)].groupCount - 1
         /\ dispatches[Len(dispatches)].groupCount \in Word
<1>1. Len(dispatches) \in Nat /\ GroupId \in Nat
  BY LenProperties DEF TypeOK
<1>2. Len(dispatches) \in 1 .. Len(dispatches)
  BY <1>1 DEF Control
<1>3. dispatches[Len(dispatches)].groupCount \in Word
  BY <1>2, DispatchType
<1> QED BY <1>1, <1>2, <1>3 DEF Control, Word

LEMMA LookingType ==
  ASSUME TypeOK, Control, NEW c \in Threads, pc[c] = "looking"
  PROVE  /\ view[c] # NoView
         /\ view[c].queue \in Workers
         /\ queue[view[c].queue] \in Seq(Groups)
<1>1. view[c] \in Queues!Views
  BY DEF TypeOK, Control
<1>2. view[c].queue \in Workers
  BY <1>1 DEF Queues!Views
<1> QED BY <1>2 DEF TypeOK, Control

LEMMA RunningType ==
  ASSUME TypeOK, Control, NEW c \in Threads, pc[c] = "run"
  PROVE  /\ job[c] # NoJob
         /\ job[c] \in Groups
         /\ job[c].handle \in Handles
         /\ job[c].dispatch \in 1 .. MaxCalls
         /\ job[c].groupJobOffset \in Word
         /\ job[c].groupJobEnd \in Word
<1>1. job[c] \in Groups
  BY DEF TypeOK, Control
<1> QED BY <1>1 DEF Control, Groups

LEMMA LabelsIn ==
  /\ WorkerLabels \subseteq Labels /\ MainLabels \subseteq Labels
  /\ Main \in Threads /\ \A w \in Workers : w \in Threads /\ w # Main
BY ConstantsDiffer DEF WorkerLabels, MainLabels, WaitLabels, WorkLabels, Labels, Threads

\* A thread that is not overtaken does not notice that main pushes a group: what
\* it has claimed is still in its slot.
LEMMA PutKeeps ==
  ASSUME TypeOK, NEW q \in Workers, NEW g, Queues!Put(q, g), Punctual'
  PROVE  /\ view' = view /\ job' = job
         /\ claim' \in [Threads -> Queues!Claims \union {NoView}]
         /\ \A c \in Threads : claim'[c] = NoView <=> claim[c] = NoView
<1>1. /\ view' = view
      /\ claim' = [c \in Threads |->
                     IF Queues!ClaimsFrom(c, q)
                     THEN [queue |-> q, behind |-> claim[c].behind + 1]
                     ELSE claim[c]]
      /\ job' = [c \in Threads |-> IF Queues!Overwrites(c, q) THEN g ELSE job[c]]
  BY DEF Queues!Put
<1>2. ASSUME NEW c \in Threads, Queues!ClaimsFrom(c, q)
      PROVE  /\ claim[c].behind + 1 \in Nat
             /\ claim'[c] = [queue |-> q, behind |-> claim[c].behind + 1]
             /\ claim'[c] \in Queues!Claims /\ claim'[c] # NoView
  <2>1. claim[c] \in Queues!Claims
    BY <1>2 DEF TypeOK, Queues!ClaimsFrom
  <2>2. claim[c].behind + 1 \in Nat
    BY <2>1 DEF Queues!Claims
  <2>3. claim'[c] = [queue |-> q, behind |-> claim[c].behind + 1]
    BY <1>1, <1>2
  <2>4. claim'[c] \in Queues!Claims
    BY <2>2, <2>3 DEF Queues!Claims
  <2> QED BY <2>2, <2>3, <2>4, NoJobAssumption
<1>3. ASSUME NEW c \in Threads PROVE ~ Queues!Overwrites(c, q)
  <2>1. CASE Queues!ClaimsFrom(c, q)
    <3> DEFINE b == claim[c].behind + 1
    <3>1. b \in Nat /\ claim'[c] = [queue |-> q, behind |-> b] /\ claim'[c] # NoView
          /\ b # 0
      <4>1. claim[c].behind \in Nat
        BY <2>1 DEF TypeOK, Queues!ClaimsFrom, Queues!Claims
      <4> QED BY <1>2, <2>1, <4>1
    <3> HIDE DEF b
    <3>2. claim'[c].behind <= QueueBound
      BY <3>1 DEF Punctual, Queues!Punctual
    <3>3. b \in 1 .. (QueueBound + 1) - 1 /\ QueueBound + 1 \in Nat \ {0}
      BY <3>1, <3>2, QueueAssumption
    <3>4. b % (QueueBound + 1) # 0
      BY <3>3, WithinLap
    <3> QED BY <3>4 DEF Queues!Overwrites, b
  <2>2. CASE ~ Queues!ClaimsFrom(c, q)
    BY <2>2 DEF Queues!Overwrites
  <2> QED BY <2>1, <2>2
<1>4. job' = job
  <2>1. job' = [c \in Threads |-> job[c]]
    BY <1>1, <1>3
  <2> QED BY <2>1 DEF TypeOK
<1>5. ASSUME NEW c \in Threads
      PROVE  /\ claim'[c] \in Queues!Claims \union {NoView}
             /\ claim'[c] = NoView <=> claim[c] = NoView
  <2>1. CASE Queues!ClaimsFrom(c, q)
    BY <1>2, <2>1 DEF Queues!ClaimsFrom
  <2>2. CASE ~ Queues!ClaimsFrom(c, q)
    <3>1. claim'[c] = claim[c]
      BY <1>1, <2>2
    <3> QED BY <3>1 DEF TypeOK
  <2> QED BY <2>1, <2>2
<1>6. claim' \in [Threads -> Queues!Claims \union {NoView}]
  <2>1. claim' = [c \in Threads |-> claim'[c]]
    BY <1>1
  <2> QED BY <1>5, <2>1
<1> QED BY <1>1, <1>4, <1>5, <1>6

LEMMA PushBackKeeps ==
  ASSUME TypeOK, PushBack, Punctual'
  PROVE  /\ view' = view /\ job' = job
         /\ claim' \in [Threads -> Queues!Claims \union {NoView}]
         /\ \A c \in Threads : claim'[c] = NoView <=> claim[c] = NoView
<1> DEFINE q == NextQueueIndex % NumThreads
           g == Group(Len(dispatches), GroupId)
<1>1. q \in Workers
  BY ModInWord DEF TypeOK
<1>2. Queues!Put(q, g) \/ Queues!Refuse(q)
  BY DEF PushBack
<1> HIDE DEF q, g
<1>3. CASE Queues!Put(q, g)
  BY <1>1, <1>3, PutKeeps
<1>4. CASE Queues!Refuse(q)
  BY <1>4 DEF Queues!Refuse, TypeOK
<1> QED BY <1>2, <1>3, <1>4

\* A thread that copies holds a group.
LEMMA CopyingType ==
  ASSUME TypeOK, Control, NEW c \in Threads, pc[c] = "copying"
  PROVE  job[c] # NoJob /\ job[c] \in Groups /\ job[c].groupJobOffset \in Word
<1>1. job[c] \in Groups /\ job[c] # NoJob
  BY DEF TypeOK, Control
<1> QED BY <1>1 DEF Groups

LEMMA TypeStep ==
  ASSUME TypeOK, Control, [PunctualNext]_vars
  PROVE  TypeOK'
<1> USE DEF mainVars, queueVars, workVars
<1> USE LabelsIn
<1>1. CASE UNCHANGED vars
  BY <1>1 DEF TypeOK, vars
<1>2. CASE StartThread
  <2>1. pc' \in [Threads -> Labels]
    BY <1>2 DEF StartThread, TypeOK, Labels
  <2> QED BY <1>2, <2>1 DEF StartThread, TypeOK
<1>3. CASE Shutdown
  BY <1>3 DEF Shutdown, Goto, TypeOK, Labels
<1>4. CASE PushBack /\ Punctual'
  <2> DEFINE q == NextQueueIndex % NumThreads
             g == Group(Len(dispatches), GroupId)
  <2>1. q \in Workers /\ (NextQueueIndex + 1) % WordSize \in Word
    BY ModInWord DEF TypeOK
  <2>2. g \in Groups
    BY <1>4, LastDispatch, GroupType DEF PushBack
  <2> HIDE DEF q, g
  <2>3. queue[q] \in Seq(Groups) /\ Append(queue[q], g) \in Seq(Groups)
    BY <2>1, <2>2, AppendProperties DEF TypeOK
  <2>4. \/ Queues!Put(q, g) /\ UNCHANGED dropped
        \/ Queues!Refuse(q) /\ dropped' = dropped \union {g}
    BY <1>4 DEF PushBack, q, g
  <2>5. /\ queue' \in [Workers -> Seq(Groups)] /\ dropped' \subseteq Groups
        /\ accepted' \in BOOLEAN
    BY <2>2, <2>3, <2>4 DEF TypeOK, Queues!Put, Queues!Refuse
  <2>8. /\ UNCHANGED <<view, job>>
        /\ claim' \in [Threads -> Queues!Claims \union {NoView}]
    BY <1>4, PushBackKeeps
  <2>6. target' = q /\ NextQueueIndex' = (NextQueueIndex + 1) % WordSize
        /\ pc' = [pc EXCEPT ![Main] = "post"]
    BY <1>4 DEF PushBack, TakeQueueIndex, Goto, q
  <2>7. pc' \in [Threads -> Labels]
    BY <2>6 DEF TypeOK, Labels
  <2> QED BY <1>4, <2>1, <2>5, <2>6, <2>7, <2>8 DEF PushBack, TypeOK
<1>5. CASE PostPushed
  BY <1>5 DEF PostPushed, Goto, TypeOK, Labels
<1>6. CASE HandleBusy
  BY <1>6 DEF HandleBusy, Goto, TypeOK, Labels
<1>7. CASE WakeThread
  <2>1. GroupId \in Workers
    BY <1>7, ThreadsAssumption DEF WakeThread, TypeOK, Workers
  <2>2. semaphore' \in [Workers -> Nat] /\ GroupId' \in Nat
    BY <1>7, <2>1 DEF WakeThread, TypeOK
  <2>3. UNCHANGED <<IsAlive, counter, queueVars, pc, workVars, target, waiting,
                    dispatches, dropped, NextQueueIndex, runs>>
    BY <1>7 DEF WakeThread
  <2> QED BY <2>2, <2>3 DEF TypeOK
<1>8. CASE MainEnterWork
  <2>1. NextQueueIndex % NumThreads \in Word
        /\ (NextQueueIndex + 1) % WordSize \in Word
    BY ModInWord DEF TypeOK
  <2>2. NumThreads \in 0 .. NumThreads
    BY ThreadsAssumption
  <2> QED BY <1>8, <2>1, <2>2
        DEF MainEnterWork, EnterWork, TakeQueueIndex, Goto, TypeOK, Labels
<1>9. CASE WaitDone
  BY <1>9 DEF WaitDone, Goto, TypeOK, Labels
<1>10. ASSUME NEW c \in Threads, LeaveWork(c) PROVE TypeOK'
  <2>1. 0 \in Word
    BY WordSizeAssumption DEF Word
  <2>2. pc' \in [Threads -> Labels]
    BY <1>10 DEF LeaveWork, Goto, TypeOK, Labels
  <2> QED BY <1>10, <2>1, <2>2 DEF LeaveWork, TypeOK
<1>11. ASSUME NEW c \in Threads, PopFrontLook(c) PROVE TypeOK'
  <2> DEFINE q == startingQueue[c] % NumThreads
  <2>1. q \in Workers
    BY ModInWord DEF TypeOK
  <2> HIDE DEF q
  <2>2. Queues!Look(c, q) /\ pc' = [pc EXCEPT ![c] = "looking"]
    BY <1>11 DEF PopFrontLook, Goto, q
  <2>3. [queue |-> q, stale |-> FALSE] \in Queues!Views
    BY <2>1 DEF Queues!Views
  <2>4. view' \in [Threads -> Queues!Views \union {NoView}]
        /\ UNCHANGED <<queue, accepted, claim, job>>
    BY <2>2, <2>3 DEF Queues!Look, TypeOK
  <2>5. pc' \in [Threads -> Labels]
    BY <2>2 DEF TypeOK, Labels
  <2> QED BY <1>11, <2>4, <2>5 DEF PopFrontLook, TypeOK
<1>12. ASSUME NEW c \in Threads, PopFrontClaim(c) PROVE TypeOK'
  <2> DEFINE q == view[c].queue
             g == Head(queue[q])
             n == Len(queue[q]) - 1
  <2>1. pc[c] = "looking" /\ Queues!Claim(c)
        /\ pc' = [pc EXCEPT ![c] = "copying"]
    BY <1>12 DEF PopFrontClaim, Goto
  <2>2. q \in Workers /\ queue[q] \in Seq(Groups) /\ queue[q] # <<>>
    BY <2>1, LookingType DEF Queues!Claim
  <2>3. g \in Groups /\ Tail(queue[q]) \in Seq(Groups)
    BY <2>2, HeadTailProperties
  <2>4. queue' = [queue EXCEPT ![q] = Tail(@)] /\ job' = [job EXCEPT ![c] = g]
        /\ accepted' = accepted
        /\ claim' = [claim EXCEPT ![c] = [queue |-> q, behind |-> n]]
    BY <2>1 DEF Queues!Claim
  <2>5. view' = [d \in Threads |->
                   IF d = c THEN NoView
                   ELSE IF view[d] # NoView /\ view[d].queue = q
                        THEN [queue |-> q, stale |-> TRUE]
                        ELSE view[d]]
    BY <2>1 DEF Queues!Claim
  <2>9. n \in Nat
    BY <2>2, EmptySeq, LenProperties
  <2> HIDE DEF q, g, n
  <2>6. [queue |-> q, stale |-> TRUE] \in Queues!Views
    BY <2>2 DEF Queues!Views
  <2>7. view' \in [Threads -> Queues!Views \union {NoView}]
    BY <2>5, <2>6 DEF TypeOK
  <2>8. queue' \in [Workers -> Seq(Groups)]
        /\ job' \in [Threads -> Groups \union {NoJob}]
    BY <2>2, <2>3, <2>4 DEF TypeOK
  <2>10. pc' \in [Threads -> Labels]
    BY <2>1 DEF TypeOK, Labels
  <2>11. [queue |-> q, behind |-> n] \in Queues!Claims
    BY <2>2, <2>9 DEF Queues!Claims
  <2>12. claim' \in [Threads -> Queues!Claims \union {NoView}]
    BY <2>4, <2>11 DEF TypeOK
  <2> QED BY <1>12, <2>4, <2>7, <2>8, <2>10, <2>12 DEF PopFrontClaim, TypeOK
<1>21. ASSUME NEW c \in Threads, PopFrontCopy(c) PROVE TypeOK'
  <2>1. /\ pc[c] = "copying" /\ pc' = [pc EXCEPT ![c] = "run"]
        /\ jobIndex' = [jobIndex EXCEPT ![c] = job[c].groupJobOffset]
        /\ claim' = [claim EXCEPT ![c] = NoView]
        /\ UNCHANGED <<queue, accepted, view, job>>
    BY <1>21 DEF PopFrontCopy, Queues!Copy, Goto
  <2>2. job[c].groupJobOffset \in Word
    BY <2>1, CopyingType
  <2>3. /\ jobIndex' \in [Threads -> Word] /\ pc' \in [Threads -> Labels]
        /\ claim' \in [Threads -> Queues!Claims \union {NoView}]
    BY <2>1, <2>2 DEF TypeOK, Labels
  <2> QED BY <1>21, <2>1, <2>3 DEF PopFrontCopy, TypeOK
<1>13. ASSUME NEW c \in Threads, PopFrontGiveUp(c) PROVE TypeOK'
  <2>1. pc[c] = "looking" /\ Queues!GiveUp(c)
        /\ startingQueue' = [startingQueue EXCEPT ![c] = (@ + 1) % WordSize]
        /\ visits' = [visits EXCEPT ![c] = @ - 1]
        /\ pc' = [pc EXCEPT ![c] = "next"]
    BY <1>13 DEF PopFrontGiveUp, Goto
  <2>2. (startingQueue[c] + 1) % WordSize \in Word
    BY ModInWord DEF TypeOK
  <2>3. visits[c] - 1 \in 0 .. NumThreads
    BY <2>1, ThreadsAssumption DEF Control, TypeOK
  <2>4. startingQueue' \in [Threads -> Word] /\ visits' \in [Threads -> 0 .. NumThreads]
        /\ pc' \in [Threads -> Labels]
    BY <2>1, <2>2, <2>3 DEF TypeOK, Labels
  <2>5. view' \in [Threads -> Queues!Views \union {NoView}]
        /\ UNCHANGED <<queue, accepted, claim, job>>
    BY <2>1 DEF Queues!GiveUp, TypeOK
  <2> QED BY <1>13, <2>4, <2>5 DEF PopFrontGiveUp, TypeOK
<1>14. ASSUME NEW c \in Threads, RunJob(c) PROVE TypeOK'
  <2>1. pc[c] = "run" /\ jobIndex[c] < job[c].groupJobEnd
        /\ runs' = [runs EXCEPT ![job[c].dispatch][jobIndex[c]] = @ + 1]
        /\ jobIndex' = [jobIndex EXCEPT ![c] = @ + 1]
    BY <1>14 DEF RunJob
  <2>2. job[c].dispatch \in 1 .. MaxCalls /\ job[c].groupJobEnd \in Word
    BY <2>1, RunningType
  <2>3. jobIndex[c] \in Word
    BY DEF TypeOK
  <2>4. jobIndex[c] + 1 \in Word
    BY <2>1, <2>2, <2>3, WordSizeAssumption DEF Word
  <2>5. jobIndex[c] \in JobIndices
    BY <2>3 DEF JobIndices, Word
  <2>6. runs' \in [1 .. MaxCalls -> [JobIndices -> Nat]]
    BY <2>1, <2>2, <2>5 DEF TypeOK
  <2>7. jobIndex' \in [Threads -> Word]
    BY <2>1, <2>4 DEF TypeOK
  <2> QED BY <1>14, <2>6, <2>7 DEF RunJob, TypeOK
<1>15. ASSUME NEW c \in Threads, FinishGroup(c) PROVE TypeOK'
  <2>1. job[c].handle \in Handles
    BY <1>15, RunningType DEF FinishGroup
  <2>2. 0 \in Word
    BY WordSizeAssumption DEF Word
  <2>3. counter' \in [Handles -> Int]
    BY <1>15, <2>1 DEF FinishGroup, TypeOK
  <2>4. pc' \in [Threads -> Labels] /\ jobIndex' \in [Threads -> Word]
        /\ job' \in [Threads -> Groups \union {NoJob}]
    BY <1>15, <2>2 DEF FinishGroup, Goto, TypeOK, Labels
  <2> QED BY <1>15, <2>3, <2>4 DEF FinishGroup, TypeOK
<1>16. ASSUME NEW w \in Workers, WorkerCheck(w) PROVE TypeOK'
  <2>1. NumThreads \in 0 .. NumThreads
    BY ThreadsAssumption
  <2>2. PICK i \in StartValues : EnterWork(w, i)
    BY <1>16 DEF WorkerCheck
  <2>3. i \in Word
    BY StartAssumption
  <2>4. startingQueue' \in [Threads -> Word] /\ visits' \in [Threads -> 0 .. NumThreads]
        /\ pc' \in [Threads -> Labels]
    BY <2>1, <2>2, <2>3 DEF EnterWork, Goto, TypeOK, Labels
  <2> QED BY <1>16, <2>4 DEF WorkerCheck, TypeOK
<1>17. ASSUME NEW w \in Workers, WorkerEnd(w) PROVE TypeOK'
  BY <1>17 DEF WorkerEnd, Goto, TypeOK, Labels
<1>18. ASSUME NEW w \in Workers, WorkerWake(w) PROVE TypeOK'
  BY <1>18 DEF WorkerWake, Goto, TypeOK, Labels
<1>19. ASSUME NEW h \in Handles, JobHandleWait(h) PROVE TypeOK'
  BY <1>19 DEF JobHandleWait, Goto, TypeOK, Labels
<1>20. ASSUME NEW h \in Handles, NEW n \in Word \ {0}, NEW g \in Word \ {0},
              Dispatch(h, n, g)
       PROVE  TypeOK'
  <2> DEFINE m == JobsDispatchGroupCount(n, g)
             d == [handle |-> h, jobCount |-> n, groupSize |-> g, groupCount |-> m]
  <2>1. m \in Word
    BY GroupCountInWord
  <2> HIDE DEF m
  <2>2. d \in Dispatches
    BY <2>1 DEF Dispatches
  <2>3. Begin(h, n, g, m)
    BY <1>20 DEF Dispatch, m
  <2>4. dispatches' = Append(dispatches, d) /\ Len(dispatches) < MaxCalls
    BY <2>3 DEF Begin
  <2> HIDE DEF d
  <2>5. dispatches' \in Seq(Dispatches) /\ Len(dispatches') = Len(dispatches) + 1
        /\ Len(dispatches) \in Nat
    BY <2>2, <2>4, AppendProperties, LenProperties DEF TypeOK
  <2>6. Len(dispatches') <= MaxCalls
    BY <2>4, <2>5, CallsAssumption
  <2>7. counter' \in [Handles -> Int]
    BY <2>1, <2>3 DEF Begin, TypeOK, Word
  <2>8. pc' \in [Threads -> Labels]
    BY <2>3 DEF Begin, Goto, TypeOK, Labels
  <2> QED BY <2>3, <2>5, <2>6, <2>7, <2>8 DEF Begin, TypeOK
<1> QED BY <1>1, <1>2, <1>3, <1>4, <1>5, <1>6, <1>7, <1>8, <1>9, <1>10, <1>11,
           <1>12, <1>13, <1>14, <1>15, <1>16, <1>17, <1>18, <1>19, <1>20, <1>21,
           StepCases

LEMMA ControlInit == Init => Control
BY ConstantsDiffer, LabelsIn
   DEF Init, Queues!Init, Control, WorkerLabels, MainLabels, WaitLabels, WorkLabels

LEMMA ControlStep ==
  ASSUME TypeOK, Control, TypeOK', [PunctualNext]_vars
  PROVE  Control'
<1> DEFINE
      Held(c) == /\ job[c] # NoJob <=> pc[c] \in {"copying", "run"}
                 /\ claim[c] # NoView <=> pc[c] = "copying"
      Seen(c) == view[c] # NoView <=> pc[c] = "looking"
      Left(c) == pc[c] \in {"looking", "copying", "run"} => visits[c] > 0
      MainOK == /\ pc[Main] \in MainLabels
                /\ waiting # NoHandle <=> pc[Main] \in WaitLabels
                /\ pc[Main] \in {"push", "post"} =>
                     /\ Len(dispatches) > 0
                     /\ GroupId < dispatches[Len(dispatches)].groupCount
                /\ pc[Main] = "wake" => GroupId <= NumThreads
<1> SUFFICES /\ \A c \in Threads : Held(c)' /\ Seen(c)' /\ Left(c)'
             /\ \A w \in Workers : (pc[w] \in WorkerLabels)'
             /\ MainOK'
  BY DEF Control
<1> USE DEF mainVars, queueVars, workVars, WorkerLabels, MainLabels, WaitLabels, WorkLabels
<1> USE LabelsIn
<1>1. CASE UNCHANGED vars
  BY <1>1 DEF Control, vars
<1>2. CASE StartThread
  <2>1. PICK w \in Workers :
          pc' = [pc EXCEPT ![w] = "check",
                           ![Main] = IF w = NumThreads - 1 THEN "ready" ELSE @]
          /\ pc[w] = "off"
    BY <1>2 DEF StartThread
  <2>2. pc[Main] = "starting" /\ UNCHANGED <<visits, view, claim, job, waiting, GroupId, dispatches>>
    BY <1>2 DEF StartThread
  <2>3. /\ pc'[w] = "check" /\ pc'[Main] \in {"ready", "starting"}
        /\ \A c \in Threads : c # w /\ c # Main => pc'[c] = pc[c]
    BY <2>1, <2>2 DEF TypeOK
  <2> QED BY <2>1, <2>2, <2>3 DEF Control
<1>3. CASE Shutdown
  BY <1>3 DEF Shutdown, Goto, TypeOK, Control
<1>4. CASE PushBack /\ Punctual'
  <2>1. /\ UNCHANGED <<view, job>>
        /\ \A c \in Threads : claim'[c] = NoView <=> claim[c] = NoView
    BY <1>4, PushBackKeeps
  <2>2. /\ pc[Main] = "push" /\ pc'[Main] = "post"
        /\ \A c \in Threads : c # Main => pc'[c] = pc[c]
        /\ UNCHANGED <<visits, waiting, GroupId, dispatches>>
    BY <1>4 DEF PushBack, Goto, TypeOK
  <2> QED BY <2>1, <2>2 DEF Control
<1>5. CASE PostPushed
  <2>1. Len(dispatches) > 0 /\ GroupId \in Nat
        /\ GroupId' = GroupId + 1
    BY <1>5 DEF PostPushed, Control, TypeOK
  <2> QED BY <1>5, <2>1 DEF PostPushed, Goto, TypeOK, Control
<1>6. CASE HandleBusy
  BY <1>6, ThreadsAssumption DEF HandleBusy, Goto, TypeOK, Control
<1>7. CASE WakeThread
  BY <1>7, ThreadsAssumption DEF WakeThread, TypeOK, Control
<1>8. CASE MainEnterWork
  BY <1>8 DEF MainEnterWork, EnterWork, Goto, TypeOK, Control
<1>9. CASE WaitDone
  BY <1>9 DEF WaitDone, Goto, TypeOK, Control
<1>10. ASSUME NEW c \in Threads, LeaveWork(c) PROVE Control'
  <2>1. pc[c] = "next" /\ pc' = [pc EXCEPT ![c] = IF c = Main THEN "spin" ELSE "sleep"]
        /\ UNCHANGED <<visits, view, claim, job, waiting, GroupId, dispatches>>
    BY <1>10 DEF LeaveWork, Goto
  <2> QED BY <2>1 DEF TypeOK, Control, Threads
<1>11. ASSUME NEW c \in Threads, PopFrontLook(c) PROVE Control'
  <2> DEFINE v == [queue |-> startingQueue[c] % NumThreads, stale |-> FALSE]
  <2>1. pc[c] = "next" /\ pc' = [pc EXCEPT ![c] = "looking"] /\ visits[c] > 0
        /\ view' = [view EXCEPT ![c] = v]
        /\ UNCHANGED <<visits, claim, job, waiting, GroupId, dispatches>>
    BY <1>11 DEF PopFrontLook, Queues!Look, Goto
  <2>2. v # NoView
    <3>1. startingQueue[c] % NumThreads \in Workers
      BY ModInWord DEF TypeOK
    <3>2. v \in Queues!Views
      BY <3>1 DEF Queues!Views
    <3> HIDE DEF v
    <3> QED BY <3>2, NoJobAssumption
  <2> HIDE DEF v
  <2> QED BY <2>1, <2>2 DEF TypeOK, Control, Threads
<1>12. ASSUME NEW c \in Threads, PopFrontClaim(c) PROVE Control'
  <2> DEFINE q == view[c].queue
             g == Head(queue[q])
             n == Len(queue[q]) - 1
  <2>1. pc[c] = "looking" /\ Queues!Claim(c)
        /\ pc' = [pc EXCEPT ![c] = "copying"]
        /\ UNCHANGED <<visits, waiting, GroupId, dispatches>>
    BY <1>12 DEF PopFrontClaim, Goto
  <2>2. q \in Workers /\ queue[q] \in Seq(Groups) /\ queue[q] # <<>>
    BY <2>1, LookingType DEF Queues!Claim
  <2>3. g \in Groups /\ n \in Nat
    BY <2>2, HeadTailProperties, EmptySeq, LenProperties
  <2>4. /\ job' = [job EXCEPT ![c] = g]
        /\ claim' = [claim EXCEPT ![c] = [queue |-> q, behind |-> n]]
    BY <2>1 DEF Queues!Claim
  <2>5. view' = [d \in Threads |->
                   IF d = c THEN NoView
                   ELSE IF view[d] # NoView /\ view[d].queue = q
                        THEN [queue |-> q, stale |-> TRUE]
                        ELSE view[d]]
    BY <2>1 DEF Queues!Claim
  <2> HIDE DEF q, g, n
  <2> DEFINE v == [queue |-> q, stale |-> TRUE]
             k == [queue |-> q, behind |-> n]
  <2>10. v \in Queues!Views /\ k \in Queues!Claims
    BY <2>2, <2>3 DEF Queues!Views, Queues!Claims
  <2> HIDE DEF v, k
  <2>6. v # NoView /\ k # NoView
    BY <2>10, NoJobAssumption
  <2>7. g # NoJob
    BY <2>3, NoJobAssumption
  <2>8. \A d \in Threads : d # c => (view'[d] # NoView <=> view[d] # NoView)
    BY <2>5, <2>6 DEF v
  <2>9. /\ view'[c] = NoView /\ job'[c] = g /\ claim'[c] = k
        /\ \A d \in Threads : d # c => job'[d] = job[d] /\ claim'[d] = claim[d]
    BY <2>4, <2>5 DEF TypeOK, k
  <2>11. /\ pc[c] = "looking" /\ pc'[c] = "copying"
         /\ \A d \in Threads : d # c => pc'[d] = pc[d]
    BY <2>1 DEF TypeOK
  <2>12. \A d \in Threads : Held(d)' /\ Seen(d)' /\ Left(d)'
    BY <2>1, <2>6, <2>7, <2>8, <2>9, <2>11 DEF Control
  <2>13. \A w \in Workers : (pc[w] \in WorkerLabels)'
    BY <2>11 DEF Control, Threads
  <2>14. MainOK'
    BY <2>1, <2>11 DEF Control, Threads
  <2> QED BY <2>12, <2>13, <2>14 DEF Control
<1>21. ASSUME NEW c \in Threads, PopFrontCopy(c) PROVE Control'
  <2>1. /\ pc[c] = "copying" /\ pc' = [pc EXCEPT ![c] = "run"]
        /\ claim' = [claim EXCEPT ![c] = NoView]
        /\ UNCHANGED <<visits, view, job, waiting, GroupId, dispatches>>
    BY <1>21 DEF PopFrontCopy, Queues!Copy, Goto
  <2>2. /\ pc'[c] = "run" /\ claim'[c] = NoView
        /\ \A d \in Threads : d # c => pc'[d] = pc[d] /\ claim'[d] = claim[d]
    BY <2>1 DEF TypeOK
  <2> QED BY <2>1, <2>2 DEF Control, Threads
<1>13. ASSUME NEW c \in Threads, PopFrontGiveUp(c) PROVE Control'
  <2>1. pc[c] = "looking" /\ pc' = [pc EXCEPT ![c] = "next"]
        /\ visits' = [visits EXCEPT ![c] = @ - 1]
        /\ view' = [view EXCEPT ![c] = NoView]
        /\ UNCHANGED <<claim, job, waiting, GroupId, dispatches>>
    BY <1>13 DEF PopFrontGiveUp, Queues!GiveUp, Goto
  <2> QED BY <2>1 DEF TypeOK, Control, Threads
<1>14. ASSUME NEW c \in Threads, RunJob(c) PROVE Control'
  BY <1>14 DEF RunJob, TypeOK, Control
<1>15. ASSUME NEW c \in Threads, FinishGroup(c) PROVE Control'
  <2>1. pc[c] = "run" /\ pc' = [pc EXCEPT ![c] = "next"]
        /\ job' = [job EXCEPT ![c] = NoJob]
        /\ UNCHANGED <<visits, view, claim, waiting, GroupId, dispatches>>
    BY <1>15 DEF FinishGroup, Goto
  <2> QED BY <2>1 DEF TypeOK, Control, Threads
<1>16. ASSUME NEW w \in Workers, WorkerCheck(w) PROVE Control'
  <2>1. pc[w] = "check" /\ pc' = [pc EXCEPT ![w] = "next"]
        /\ UNCHANGED <<view, claim, job, waiting, GroupId, dispatches>>
        /\ \A c \in Threads : c # w => visits'[c] = visits[c]
    BY <1>16 DEF WorkerCheck, EnterWork, Goto, TypeOK
  <2> QED BY <2>1 DEF TypeOK, Control, Threads
<1>17. ASSUME NEW w \in Workers, WorkerEnd(w) PROVE Control'
  BY <1>17 DEF WorkerEnd, Goto, TypeOK, Control, Threads
<1>18. ASSUME NEW w \in Workers, WorkerWake(w) PROVE Control'
  BY <1>18 DEF WorkerWake, Goto, TypeOK, Control, Threads
<1>19. ASSUME NEW h \in Handles, JobHandleWait(h) PROVE Control'
  BY <1>19, ConstantsDiffer DEF JobHandleWait, Goto, TypeOK, Control
<1>20. ASSUME NEW h \in Handles, NEW n \in Word \ {0}, NEW g \in Word \ {0},
              Dispatch(h, n, g)
       PROVE  Control'
  <2> DEFINE m == JobsDispatchGroupCount(n, g)
             d == [handle |-> h, jobCount |-> n, groupSize |-> g, groupCount |-> m]
  <2>1. m \in Word
    BY GroupCountInWord
  <2> HIDE DEF m
  <2>2. d \in Dispatches /\ d.groupCount = m
    BY <2>1 DEF Dispatches
  <2>3. Begin(h, n, g, m)
    BY <1>20 DEF Dispatch, m
  <2>4. dispatches' = Append(dispatches, d) /\ GroupId' = 0
        /\ pc[Main] = "ready"
        /\ pc' = [pc EXCEPT ![Main] = IF m = 0 THEN "ready" ELSE "push"]
        /\ UNCHANGED <<view, claim, job, visits, waiting>>
    BY <2>3 DEF Begin, Goto
  <2> HIDE DEF d
  <2>5. Len(dispatches') = Len(dispatches) + 1 /\ Len(dispatches) \in Nat
        /\ dispatches'[Len(dispatches')] = d
    BY <2>2, <2>4, AppendProperties, LenProperties DEF TypeOK
  <2>6. pc'[Main] = (IF m = 0 THEN "ready" ELSE "push")
        /\ \A c \in Threads : c # Main => pc'[c] = pc[c]
    BY <2>4 DEF TypeOK
  <2>7. m # 0 => GroupId' < dispatches'[Len(dispatches')].groupCount
                /\ Len(dispatches') > 0
    BY <2>1, <2>2, <2>4, <2>5 DEF Word
  <2>8. MainOK'
    BY <2>4, <2>6, <2>7 DEF Control
  <2>9. /\ \A c \in Threads : Held(c)' /\ Seen(c)' /\ Left(c)'
        /\ \A w \in Workers : (pc[w] \in WorkerLabels)'
    BY <2>4, <2>6 DEF Control, Threads
  <2> QED BY <2>8, <2>9 DEF Control
<1> QED BY <1>1, <1>2, <1>3, <1>4, <1>5, <1>6, <1>7, <1>8, <1>9, <1>10, <1>11,
           <1>12, <1>13, <1>14, <1>15, <1>16, <1>17, <1>18, <1>19, <1>20, <1>21,
           StepCases
     DEF Control
-----------------------------------------------------------------------------
(* What a step does to the groups and to the counters. *)

Quiet ==
  UNCHANGED <<queue, job, counter, dropped, dispatches, NotPushed, runs, jobIndex,
              AtRun>>

RunStep(c) ==
  /\ c \in AtRun /\ job[c] # NoJob /\ jobIndex[c] < job[c].groupJobEnd
  /\ runs' = [runs EXCEPT ![job[c].dispatch][jobIndex[c]] = @ + 1]
  /\ jobIndex' = [jobIndex EXCEPT ![c] = @ + 1]
  /\ UNCHANGED <<queue, job, counter, dropped, dispatches, NotPushed, AtRun>>

\* The next group is put at the end of queue w, or dropped.
PushStep(w) ==
  LET g == Group(Len(dispatches), GroupId) IN
  /\ IsGroup(g) /\ g \in Groups
  /\ NotPushed = NotPushed' \union {g} /\ g \notin NotPushed'
  /\ \/ queue' = [queue EXCEPT ![w] = Append(@, g)] /\ UNCHANGED dropped
     \/ UNCHANGED queue /\ dropped' = dropped \union {g}
  /\ UNCHANGED <<job, counter, dispatches, runs, jobIndex, AtRun>>

TakeStep(c, w) ==
  /\ queue[w] # <<>> /\ job[c] = NoJob /\ c \notin AtRun
  /\ queue' = [queue EXCEPT ![w] = Tail(@)]
  /\ job' = [job EXCEPT ![c] = Head(queue[w])]
  /\ UNCHANGED <<counter, dropped, dispatches, NotPushed, runs, jobIndex, AtRun>>

CopyStep(c) ==
  /\ job[c] # NoJob /\ c \notin AtRun
  /\ jobIndex' = [jobIndex EXCEPT ![c] = job[c].groupJobOffset]
  /\ AtRun' = AtRun \union {c}
  /\ UNCHANGED <<queue, job, counter, dropped, dispatches, NotPushed, runs>>

FinishStep(c) ==
  /\ job[c] # NoJob /\ jobIndex[c] >= job[c].groupJobEnd
  /\ c \in AtRun /\ AtRun' = AtRun \ {c}
  /\ job' = [job EXCEPT ![c] = NoJob]
  /\ counter' = [counter EXCEPT ![job[c].handle] = @ - 1]
  /\ jobIndex' = [jobIndex EXCEPT ![c] = 0]
  /\ UNCHANGED <<queue, dropped, dispatches, NotPushed, runs>>

DispatchStep(h, n, g) ==
  LET m == JobsDispatchGroupCount(n, g) IN
  /\ NotPushed = {}
  /\ dispatches' = Append(dispatches, [handle |-> h, jobCount |-> n,
                                       groupSize |-> g, groupCount |-> m])
  /\ counter' = [counter EXCEPT ![h] = @ + m]
  /\ NotPushed' = {Group(Len(dispatches), id)' : id \in 0 .. m - 1}
  /\ UNCHANGED <<queue, job, dropped, runs, jobIndex, AtRun>>

LEMMA SameAtRun ==
  ASSUME \A c \in Threads : pc'[c] = "run" <=> pc[c] = "run"
  PROVE  AtRun' = AtRun
BY DEF AtRun

LEMMA NothingToPush ==
  /\ pc[Main] \notin {"push", "post"} => NotPushed = {}
  /\ pc'[Main] \notin {"push", "post"} => NotPushed' = {}
<1>1. pc[Main] \notin {"push", "post"} => NotPushed = {}
  BY DEF NotPushed
<1>2. pc'[Main] \notin {"push", "post"} => NotPushed' = {}
  BY DEF NotPushed
<1> QED BY <1>1, <1>2

LEMMA SameToPush ==
  ASSUME UNCHANGED <<dispatches, GroupId>>, pc'[Main] = pc[Main]
  PROVE  NotPushed' = NotPushed
BY DEF NotPushed, Group

LEMMA PushedGroups ==
  ASSUME TypeOK, Control, pc[Main] = "push", pc'[Main] = "post",
         UNCHANGED <<dispatches, GroupId>>,
         NEW g, g = Group(Len(dispatches), GroupId)
  PROVE  NotPushed = NotPushed' \union {g} /\ g \notin NotPushed'
<1> DEFINE d == Len(dispatches)
           n == dispatches[d].groupCount
<1>1. GroupId \in 0 .. n - 1 /\ n \in Nat /\ d \in 1 .. Len(dispatches)
  BY LastDispatch DEF Word
<1>2. NotPushed = {Group(d, id) : id \in GroupId .. n - 1}
  BY DEF NotPushed
<1>3. NotPushed' = {Group(d, id) : id \in GroupId + 1 .. n - 1}
  BY DEF NotPushed, Group
<1>4. GroupId .. n - 1 = (GroupId + 1 .. n - 1) \union {GroupId}
  BY <1>1
<1>5. \A id \in 0 .. n - 1 : Group(d, id).GroupId = id
  BY <1>1, GroupType
<1>6. \A id \in GroupId + 1 .. n - 1 : id \in 0 .. n - 1 /\ id # GroupId
  BY <1>1
<1>7. \A id \in GroupId + 1 .. n - 1 : Group(d, id) # g
  BY <1>1, <1>5, <1>6
<1> HIDE DEF d, n
<1>8. NotPushed = NotPushed' \union {Group(d, GroupId)}
  BY <1>2, <1>3, <1>4
<1> QED BY <1>3, <1>7, <1>8 DEF d

LEMMA StepEffects ==
  ASSUME TypeOK, Control, TypeOK', [PunctualNext]_vars
  PROVE  \/ Quiet
         \/ \E c \in Threads : RunStep(c)
         \/ \E w \in Workers : PushStep(w)
         \/ \E c \in Threads, w \in Workers : TakeStep(c, w)
         \/ \E c \in Threads : CopyStep(c)
         \/ \E c \in Threads : FinishStep(c)
         \/ \E h \in Handles, n, g \in Word \ {0} :
              DispatchStep(h, n, g) /\ (CallsFit => NoOverflow(n, g))
<1> USE DEF mainVars, queueVars, workVars
<1> USE LabelsIn
<1>1. CASE UNCHANGED vars
  BY <1>1, SameToPush, SameAtRun DEF Quiet, vars
<1>2. CASE StartThread
  <2>1. /\ pc[Main] \notin {"push", "post"} /\ pc'[Main] \notin {"push", "post"}
        /\ UNCHANGED <<queue, job, counter, dropped, dispatches, runs, jobIndex>>
    BY <1>2 DEF StartThread, TypeOK
  <2>2. \A c \in Threads : pc'[c] = "run" <=> pc[c] = "run"
    BY <1>2 DEF StartThread, TypeOK
  <2> QED BY <2>1, <2>2, NothingToPush, SameAtRun DEF Quiet
<1>3. CASE Shutdown \/ HandleBusy \/ WakeThread \/ MainEnterWork \/ WaitDone
  <2>1. /\ pc[Main] \notin {"push", "post"} /\ pc'[Main] \notin {"push", "post"}
        /\ UNCHANGED <<queue, job, counter, dropped, dispatches, runs, jobIndex>>
    BY <1>3 DEF Shutdown, HandleBusy, WakeThread, MainEnterWork, WaitDone,
                EnterWork, Goto, TypeOK
  <2>2. \A c \in Threads : pc'[c] = "run" <=> pc[c] = "run"
    BY <1>3 DEF Shutdown, HandleBusy, WakeThread, MainEnterWork, WaitDone,
                EnterWork, Goto, TypeOK
  <2> QED BY <2>1, <2>2, NothingToPush, SameAtRun DEF Quiet
<1>4. CASE PushBack /\ Punctual'
  <2> DEFINE q == NextQueueIndex % NumThreads
             g == Group(Len(dispatches), GroupId)
  <2>1. q \in Workers
    BY ModInWord DEF TypeOK
  <2>2. IsGroup(g) /\ g \in Groups
    BY <1>4, LastDispatch, GroupType DEF PushBack
  <2>3. /\ pc[Main] = "push" /\ pc'[Main] = "post"
        /\ UNCHANGED <<dispatches, GroupId, counter, runs, jobIndex>>
    BY <1>4 DEF PushBack, Goto, TypeOK
  <2>7. \A c \in Threads : pc'[c] = "run" <=> pc[c] = "run"
    BY <1>4 DEF PushBack, Goto, TypeOK
  <2>8. job' = job /\ AtRun' = AtRun
    BY <1>4, <2>7, PushBackKeeps, SameAtRun
  <2> HIDE DEF q
  <2>4. \/ Queues!Put(q, g) /\ UNCHANGED dropped
        \/ Queues!Refuse(q) /\ dropped' = dropped \union {g}
    BY <1>4 DEF PushBack, q
  <2>5. NotPushed = NotPushed' \union {g} /\ g \notin NotPushed'
    BY <2>3, PushedGroups
  <2>6. PushStep(q)
    BY <2>2, <2>3, <2>4, <2>5, <2>8 DEF PushStep, Queues!Put, Queues!Refuse
  <2> QED BY <2>1, <2>6
<1>5. CASE PostPushed
  <2> DEFINE d == Len(dispatches)
             n == dispatches[d].groupCount
  <2>1. /\ pc[Main] = "post" /\ GroupId' = GroupId + 1
        /\ pc'[Main] = (IF GroupId + 1 < n THEN "push" ELSE "ready")
        /\ UNCHANGED <<queue, job, counter, dropped, dispatches, runs, jobIndex>>
    BY <1>5 DEF PostPushed, Goto, TypeOK
  <2>6. AtRun' = AtRun
    <3>1. \A c \in Threads : pc'[c] = "run" <=> pc[c] = "run"
      BY <1>5 DEF PostPushed, Goto, TypeOK
    <3> QED BY <3>1, SameAtRun
  <2>2. GroupId \in 0 .. n - 1 /\ n \in Nat
    BY <2>1, LastDispatch DEF Word
  <2>3. NotPushed = {Group(d, id) : id \in GroupId + 1 .. n - 1}
    BY <2>1 DEF NotPushed
  <2>4. CASE GroupId + 1 < n
    <3>1. NotPushed' = {Group(d, id) : id \in GroupId + 1 .. n - 1}
      BY <2>1, <2>4 DEF NotPushed, Group
    <3> QED BY <2>1, <2>3, <2>6, <3>1 DEF Quiet
  <2>5. CASE ~ GroupId + 1 < n
    <3>1. NotPushed' = {}
      BY <2>1, <2>5, NothingToPush
    <3>2. GroupId + 1 .. n - 1 = {}
      BY <2>2, <2>5
    <3>3. NotPushed = {}
      BY <2>3, <3>2
    <3> QED BY <2>1, <2>6, <3>1, <3>3 DEF Quiet
  <2> QED BY <2>4, <2>5
<1>6. ASSUME NEW c \in Threads,
             LeaveWork(c) \/ PopFrontLook(c) \/ PopFrontGiveUp(c)
      PROVE  Quiet
  <2>1. /\ UNCHANGED <<queue, job, counter, dropped, dispatches, runs, jobIndex, GroupId>>
        /\ pc[c] \notin {"push", "post", "run"}
        /\ \E label \in Labels \ {"push", "post", "run"} : pc' = [pc EXCEPT ![c] = label]
    BY <1>6 DEF LeaveWork, PopFrontLook, PopFrontGiveUp, Queues!Look,
                Queues!GiveUp, Goto, Labels
  <2>2. \/ pc'[Main] = pc[Main]
        \/ pc[Main] \notin {"push", "post"} /\ pc'[Main] \notin {"push", "post"}
    BY <2>1 DEF TypeOK
  <2>3. NotPushed' = NotPushed
    BY <2>1, <2>2, NothingToPush, SameToPush
  <2>4. \A b \in Threads : pc'[b] = "run" <=> pc[b] = "run"
    BY <2>1 DEF TypeOK
  <2> QED BY <2>1, <2>3, <2>4, SameAtRun DEF Quiet
<1>7. ASSUME NEW w \in Workers, WorkerCheck(w) \/ WorkerEnd(w) \/ WorkerWake(w)
      PROVE  Quiet
  <2>1. UNCHANGED <<queue, job, counter, dropped, dispatches, runs, jobIndex, GroupId>>
        /\ pc'[Main] = pc[Main]
    BY <1>7 DEF WorkerCheck, WorkerEnd, WorkerWake, EnterWork, Goto, TypeOK
  <2>2. \A b \in Threads : pc'[b] = "run" <=> pc[b] = "run"
    BY <1>7 DEF WorkerCheck, WorkerEnd, WorkerWake, EnterWork, Goto, TypeOK
  <2> QED BY <2>1, <2>2, SameToPush, SameAtRun DEF Quiet
<1>8. ASSUME NEW c \in Threads, PopFrontClaim(c)
      PROVE  \E w \in Workers : TakeStep(c, w)
  <2>1. pc[c] = "looking" /\ Queues!Claim(c)
        /\ pc' = [pc EXCEPT ![c] = "copying"]
        /\ UNCHANGED <<counter, dropped, dispatches, GroupId, runs, jobIndex>>
    BY <1>8 DEF PopFrontClaim, Goto
  <2>2. view[c].queue \in Workers /\ job[c] = NoJob /\ c \notin AtRun
    BY <2>1, LookingType DEF Control, AtRun
  <2>3. \/ pc'[Main] = pc[Main]
        \/ pc[Main] \notin {"push", "post"} /\ pc'[Main] \notin {"push", "post"}
    BY <2>1 DEF TypeOK
  <2>4. NotPushed' = NotPushed
    BY <2>1, <2>3, NothingToPush, SameToPush
  <2>6. \A b \in Threads : pc'[b] = "run" <=> pc[b] = "run"
    BY <2>1 DEF TypeOK
  <2>5. TakeStep(c, view[c].queue)
    BY <2>1, <2>2, <2>4, <2>6, SameAtRun DEF TakeStep, Queues!Claim
  <2> QED BY <2>2, <2>5
<1>13. ASSUME NEW c \in Threads, PopFrontCopy(c) PROVE CopyStep(c)
  <2>1. pc[c] = "copying" /\ Queues!Copy(c)
        /\ pc' = [pc EXCEPT ![c] = "run"]
        /\ jobIndex' = [jobIndex EXCEPT ![c] = job[c].groupJobOffset]
        /\ UNCHANGED <<counter, dropped, dispatches, GroupId, runs>>
    BY <1>13 DEF PopFrontCopy, Goto
  <2>2. \/ pc'[Main] = pc[Main]
        \/ pc[Main] \notin {"push", "post"} /\ pc'[Main] \notin {"push", "post"}
    BY <2>1 DEF TypeOK
  <2>3. NotPushed' = NotPushed
    BY <2>1, <2>2, NothingToPush, SameToPush
  <2>4. pc'[c] = "run" /\ \A b \in Threads : b # c => pc'[b] = pc[b]
    BY <2>1 DEF TypeOK
  <2>5. c \notin AtRun /\ AtRun' = AtRun \union {c}
    BY <2>1, <2>4 DEF AtRun
  <2>6. job[c] # NoJob
    BY <2>1, CopyingType
  <2> QED BY <2>1, <2>3, <2>5, <2>6 DEF CopyStep, Queues!Copy
<1>9. ASSUME NEW c \in Threads, FinishGroup(c) PROVE FinishStep(c)
  <2>1. pc[c] = "run" /\ pc' = [pc EXCEPT ![c] = "next"]
        /\ UNCHANGED <<queue, dropped, dispatches, GroupId, runs>>
    BY <1>9 DEF FinishGroup, Goto
  <2>2. \/ pc'[Main] = pc[Main]
        \/ pc[Main] \notin {"push", "post"} /\ pc'[Main] \notin {"push", "post"}
    BY <2>1 DEF TypeOK
  <2>3. NotPushed' = NotPushed
    BY <2>1, <2>2, NothingToPush, SameToPush
  <2>4. pc'[c] = "next" /\ \A b \in Threads : b # c => pc'[b] = pc[b]
    BY <2>1 DEF TypeOK
  <2>5. c \in AtRun /\ AtRun' = AtRun \ {c}
    BY <2>1, <2>4 DEF AtRun
  <2> QED BY <1>9, <2>1, <2>3, <2>5 DEF FinishStep, FinishGroup, Control
<1>10. ASSUME NEW h \in Handles, JobHandleWait(h) PROVE Quiet
  <2>1. /\ pc[Main] \notin {"push", "post"} /\ pc'[Main] \notin {"push", "post"}
        /\ UNCHANGED <<queue, job, counter, dropped, dispatches, runs, jobIndex>>
    BY <1>10 DEF JobHandleWait, Goto, TypeOK
  <2>2. \A c \in Threads : pc'[c] = "run" <=> pc[c] = "run"
    BY <1>10 DEF JobHandleWait, Goto, TypeOK
  <2> QED BY <2>1, <2>2, NothingToPush, SameAtRun DEF Quiet
<1>11. ASSUME NEW h \in Handles, NEW n \in Word \ {0}, NEW g \in Word \ {0},
              Dispatch(h, n, g)
       PROVE  DispatchStep(h, n, g)
  <2> DEFINE m == JobsDispatchGroupCount(n, g)
             d == [handle |-> h, jobCount |-> n, groupSize |-> g, groupCount |-> m]
  <2>1. m \in Word
    BY GroupCountInWord
  <2> HIDE DEF m
  <2>2. d \in Dispatches /\ d.groupCount = m
    BY <2>1 DEF Dispatches
  <2>3. /\ Begin(h, n, g, m)
        /\ pc[Main] = "ready" /\ GroupId' = 0
        /\ pc'[Main] = IF m = 0 THEN "ready" ELSE "push"
    BY <1>11 DEF Dispatch, m, Begin, Goto, TypeOK
  <2>8. \A c \in Threads : pc'[c] = "run" <=> pc[c] = "run"
    BY <2>3 DEF Begin, Goto, TypeOK
  <2>4. dispatches' = Append(dispatches, d)
    BY <2>3 DEF Begin
  <2> HIDE DEF d
  <2>5. /\ Len(dispatches) \in Nat /\ Len(dispatches') = Len(dispatches) + 1
        /\ dispatches'[Len(dispatches')] = d
    BY <2>2, <2>4, AppendProperties, LenProperties DEF TypeOK
  <2>6. NotPushed = {}
    BY <2>3, NothingToPush
  <2>7. NotPushed' = {Group(Len(dispatches), id)' : id \in 0 .. m - 1}
    <3>1. CASE m = 0
      <4>1. 0 .. m - 1 = {}
        BY <3>1
      <4>2. NotPushed' = {}
        BY <2>3, <3>1, NothingToPush
      <4> QED BY <4>1, <4>2
    <3>2. CASE m # 0
      <4>1. pc'[Main] = "push" /\ GroupId' = 0
        BY <2>3, <3>2
      <4>2. NotPushed' = {Group(Len(dispatches), id)' : id \in 0 .. dispatches'[Len(dispatches')].groupCount - 1}
        BY <4>1 DEF NotPushed
      <4> QED BY <2>2, <2>5, <4>2
    <3> QED BY <3>1, <3>2
  <2>9. AtRun' = AtRun
    BY <2>8, SameAtRun
  <2> QED BY <2>3, <2>4, <2>6, <2>7, <2>9 DEF DispatchStep, Begin, m, d
<1>12. ASSUME NEW c \in Threads, RunJob(c) PROVE RunStep(c)
  <2>1. UNCHANGED <<queue, job, counter, dropped, dispatches, GroupId, pc>>
    BY <1>12 DEF RunJob
  <2>2. NotPushed' = NotPushed
    BY <2>1, SameToPush
  <2>3. c \in AtRun /\ AtRun' = AtRun
    BY <1>12, <2>1 DEF RunJob, AtRun
  <2> QED BY <1>12, <2>1, <2>2, <2>3 DEF RunStep, RunJob, Control
<1> QED BY <1>1, <1>2, <1>3, <1>4, <1>5, <1>6, <1>7, <1>8, <1>9, <1>10, <1>11,
           <1>12, <1>13, StepCases
-----------------------------------------------------------------------------
(* Queues, place by place. *)

LEMMA InQueued ==
  /\ \A g : g \in Queued <=> \E w \in Workers : \E i \in DOMAIN queue[w] : queue[w][i] = g
  /\ \A g : g \in Queued' <=> \E w \in Workers : \E i \in DOMAIN queue'[w] : queue'[w][i] = g
<1>1. \A g : g \in Queued <=> \E w \in Workers : \E i \in DOMAIN queue[w] : queue[w][i] = g
  BY DEF Queued
<1>2. \A g : g \in Queued' <=> \E w \in Workers : \E i \in DOMAIN queue'[w] : queue'[w][i] = g
  BY DEF Queued
<1> QED BY <1>1, <1>2

\* A group put at the end of a queue is queued, and nothing else changes.
LEMMA QueuedAppend ==
  ASSUME TypeOK, NEW w \in Workers, NEW g \in Groups,
         queue' = [queue EXCEPT ![w] = Append(@, g)]
  PROVE  /\ Queued' = Queued \union {g}
         /\ QueuedOnce /\ g \notin Queued => QueuedOnce'
<1> DEFINE n == Len(queue[w])
<1>1. queue[w] \in Seq(Groups) /\ n \in Nat /\ DOMAIN queue[w] = 1 .. n
  BY LenProperties DEF TypeOK
<1>2. queue'[w] = Append(queue[w], g) /\ \A v \in Workers : v # w => queue'[v] = queue[v]
  BY DEF TypeOK
<1>3. /\ DOMAIN queue'[w] = 1 .. n + 1 /\ queue'[w][n + 1] = g
      /\ \A i \in 1 .. n : queue'[w][i] = queue[w][i]
  <2>1. /\ Append(queue[w], g) \in Seq(Groups)
        /\ Len(Append(queue[w], g)) = n + 1
        /\ \A i \in 1 .. n : Append(queue[w], g)[i] = queue[w][i]
        /\ Append(queue[w], g)[n + 1] = g
    BY <1>1, AppendProperties
  <2>2. DOMAIN Append(queue[w], g) = 1 .. n + 1
    BY <2>1, LenProperties
  <2> QED BY <1>2, <2>1, <2>2
<1> HIDE DEF n
<1>4. /\ 1 .. n + 1 = 1 .. n \union {n + 1} /\ n + 1 \notin 1 .. n
  BY <1>1
<1>5. ASSUME NEW x PROVE x \in Queued' <=> x \in Queued \/ x = g
  <2>1. CASE x \in Queued
    <3>1. PICK v \in Workers : \E i \in DOMAIN queue[v] : queue[v][i] = x
      BY <2>1, InQueued
    <3>2. PICK i \in DOMAIN queue[v] : queue[v][i] = x
      BY <3>1
    <3>3. i \in DOMAIN queue'[v] /\ queue'[v][i] = x
      BY <1>1, <1>2, <1>3, <1>4, <3>2
    <3> QED BY <2>1, <3>3, InQueued
  <2>2. CASE x = g
    <3>1. n + 1 \in DOMAIN queue'[w] /\ queue'[w][n + 1] = x
      BY <1>3, <1>4, <2>2
    <3> QED BY <2>2, <3>1, InQueued
  <2>3. ASSUME x \in Queued' PROVE x \in Queued \/ x = g
    <3>1. PICK v \in Workers : \E i \in DOMAIN queue'[v] : queue'[v][i] = x
      BY <2>3, InQueued
    <3>2. PICK i \in DOMAIN queue'[v] : queue'[v][i] = x
      BY <3>1
    <3>3. x = g \/ (i \in DOMAIN queue[v] /\ queue[v][i] = x)
      BY <1>1, <1>2, <1>3, <1>4, <3>2
    <3> QED BY <3>3, InQueued
  <2> QED BY <2>1, <2>2, <2>3
<1>6. ASSUME QueuedOnce, g \notin Queued PROVE QueuedOnce'
  <2> SUFFICES ASSUME NEW v \in Workers, NEW u \in Workers,
                      NEW i \in DOMAIN queue'[v], NEW j \in DOMAIN queue'[u],
                      queue'[v][i] = queue'[u][j]
               PROVE  v = u /\ i = j
    BY DEF QueuedOnce
  <2>1. \/ i \in DOMAIN queue[v] /\ queue[v][i] = queue'[v][i]
        \/ v = w /\ i = n + 1 /\ queue'[v][i] = g
    BY <1>1, <1>2, <1>3, <1>4
  <2>2. \/ j \in DOMAIN queue[u] /\ queue[u][j] = queue'[u][j]
        \/ u = w /\ j = n + 1 /\ queue'[u][j] = g
    BY <1>1, <1>2, <1>3, <1>4
  <2>3. /\ \A k \in DOMAIN queue[v] : queue[v][k] # g
        /\ \A k \in DOMAIN queue[u] : queue[u][k] # g
    BY <1>6, InQueued
  <2> QED BY <1>6, <2>1, <2>2, <2>3 DEF QueuedOnce
<1> QED BY <1>5, <1>6

\* The head of a queue is taken out, once.
LEMMA QueuedTail ==
  ASSUME TypeOK, NEW w \in Workers, queue[w] # <<>>,
         queue' = [queue EXCEPT ![w] = Tail(@)]
  PROVE  /\ Queued = Queued' \union {Head(queue[w])}
         /\ Head(queue[w]) \in Groups
         /\ QueuedOnce => QueuedOnce' /\ Head(queue[w]) \notin Queued'
<1> DEFINE n == Len(queue[w])
           g == Head(queue[w])
<1>1. /\ queue[w] \in Seq(Groups) /\ n \in Nat \ {0} /\ DOMAIN queue[w] = 1 .. n
      /\ g = queue[w][1] /\ g \in Groups
  <2>1. queue[w] \in Seq(Groups)
    BY DEF TypeOK
  <2> QED BY <2>1, LenProperties, EmptySeq, HeadTailProperties
<1>2. queue'[w] = Tail(queue[w]) /\ \A v \in Workers : v # w => queue'[v] = queue[v]
  BY DEF TypeOK
<1>3. /\ DOMAIN queue'[w] = 1 .. n - 1
      /\ \A i \in 1 .. n - 1 : queue'[w][i] = queue[w][i + 1]
  <2>1. /\ Tail(queue[w]) \in Seq(Groups)
        /\ Len(Tail(queue[w])) = n - 1
        /\ \A i \in 1 .. Len(Tail(queue[w])) : Tail(queue[w])[i] = queue[w][i + 1]
    BY <1>1, HeadTailProperties
  <2>2. DOMAIN Tail(queue[w]) = 1 .. n - 1
    BY <2>1, LenProperties
  <2> QED BY <1>2, <2>1, <2>2
<1> HIDE DEF n, g
<1>4. /\ \A i \in 1 .. n - 1 : i + 1 \in 1 .. n
      /\ \A i \in 1 .. n : i # 1 => i - 1 \in 1 .. n - 1 /\ (i - 1) + 1 = i
      /\ 1 \in 1 .. n
  BY <1>1
\* Where a group that is still queued was before.
<1> DEFINE old(v, i) == IF v = w THEN i + 1 ELSE i
<1>5. ASSUME NEW v \in Workers, NEW i \in DOMAIN queue'[v]
      PROVE  /\ old(v, i) \in DOMAIN queue[v] /\ queue'[v][i] = queue[v][old(v, i)]
             /\ v = w => old(v, i) \in Nat /\ old(v, i) # 1 /\ i \in Nat
  <2>1. CASE v = w
    <3>1. i \in 1 .. n - 1 /\ i + 1 # 1 /\ i + 1 \in Nat /\ i \in Nat
      BY <1>1, <1>3, <2>1
    <3> QED BY <1>1, <1>3, <1>4, <2>1, <3>1
  <2>2. CASE v # w
    BY <1>2, <2>2
  <2> QED BY <2>1, <2>2
<1>6. ASSUME NEW x PROVE x \in Queued <=> x \in Queued' \/ x = g
  <2>1. CASE x \in Queued'
    <3>1. PICK v \in Workers : \E i \in DOMAIN queue'[v] : queue'[v][i] = x
      BY <2>1, InQueued
    <3>2. PICK i \in DOMAIN queue'[v] : queue'[v][i] = x
      BY <3>1
    <3>3. old(v, i) \in DOMAIN queue[v] /\ queue[v][old(v, i)] = x
      BY <1>5, <3>2
    <3> QED BY <2>1, <3>3, InQueued
  <2>2. CASE x = g
    BY <1>1, <1>4, <2>2, InQueued
  <2>3. ASSUME x \in Queued PROVE x \in Queued' \/ x = g
    <3>1. PICK v \in Workers : \E i \in DOMAIN queue[v] : queue[v][i] = x
      BY <2>3, InQueued
    <3>2. PICK i \in DOMAIN queue[v] : queue[v][i] = x
      BY <3>1
    <3>3. CASE v = w /\ i # 1
      <4>1. i - 1 \in DOMAIN queue'[v] /\ queue'[v][i - 1] = x
        BY <1>1, <1>3, <1>4, <3>2, <3>3
      <4> QED BY <4>1, InQueued
    <3>4. CASE v = w /\ i = 1
      BY <1>1, <3>2, <3>4
    <3>5. CASE v # w
      <4>1. i \in DOMAIN queue'[v] /\ queue'[v][i] = x
        BY <1>2, <3>2, <3>5
      <4> QED BY <4>1, InQueued
    <3> QED BY <3>3, <3>4, <3>5
  <2> QED BY <2>1, <2>2, <2>3
<1>7. ASSUME QueuedOnce PROVE QueuedOnce' /\ g \notin Queued'
  <2>1. ASSUME NEW v \in Workers, NEW u \in Workers,
               NEW i \in DOMAIN queue'[v], NEW j \in DOMAIN queue'[u],
               queue'[v][i] = queue'[u][j]
        PROVE  v = u /\ i = j
    <3>1. v = u /\ old(v, i) = old(u, j)
      BY <1>5, <1>7, <2>1 DEF QueuedOnce
    <3>2. CASE v = w
      <4>1. i + 1 = j + 1 /\ i \in Nat /\ j \in Nat
        BY <1>5, <3>1, <3>2
      <4> QED BY <3>1, <4>1
    <3>3. CASE v # w
      BY <3>1, <3>3
    <3> QED BY <3>2, <3>3
  <2>2. ASSUME NEW v \in Workers, NEW i \in DOMAIN queue'[v], queue'[v][i] = g
        PROVE  FALSE
    <3>1. queue[v][old(v, i)] = queue[w][1] /\ old(v, i) \in DOMAIN queue[v]
          /\ 1 \in DOMAIN queue[w]
      BY <1>1, <1>4, <1>5, <2>2
    <3>2. v = w /\ old(v, i) = 1
      BY <1>7, <3>1 DEF QueuedOnce
    <3> QED BY <1>5, <3>2
  <2> QED BY <2>1, <2>2, InQueued DEF QueuedOnce
<1> QED BY <1>1, <1>6, <1>7 DEF g
-----------------------------------------------------------------------------
(* A group that is not finished is in one place, and is counted. *)

LEMMA SameGroups ==
  ASSUME UNCHANGED <<queue, job, dropped, dispatches, NotPushed>>
  PROVE  /\ Queued' = Queued /\ Running' = Running /\ Open' = Open
         /\ Known => Known'
         /\ OnePlace => OnePlace'
<1>1. Queued' = Queued /\ Running' = Running
  BY DEF Queued, Running
<1>2. Open' = Open
  BY <1>1 DEF Open, NotStarted
<1>3. \A g : IsGroup(g)' <=> IsGroup(g)
  BY DEF IsGroup, Group
<1>4. Known => Known'
  BY <1>2, <1>3 DEF Known
<1>5. OnePlace => OnePlace'
  BY <1>1 DEF OnePlace, RunByOne, QueuedOnce, NotStarted
<1> QED BY <1>1, <1>2, <1>4, <1>5

\* The steps that move a group keep the set of open groups.
LEMMA MoveKeeps ==
  ASSUME Open' = Open, UNCHANGED <<counter, dispatches>>
  PROVE  /\ Known => Known'
         /\ IsFiniteSet(Open) => IsFiniteSet(Open)'
         /\ CounterExact => CounterExact'
<1>1. \A g : IsGroup(g)' <=> IsGroup(g)
  BY DEF IsGroup, Group
<1>2. \A h \in Handles : {g \in Open' : g.handle = h} = {g \in Open : g.handle = h}
  OBVIOUS
<1>3. /\ CounterExact <=> \A h \in Handles : counter[h] = Cardinality({g \in Open : g.handle = h})
      /\ CounterExact' <=> \A h \in Handles : counter'[h] = Cardinality({g \in Open' : g.handle = h})
  BY DEF CounterExact, Open
<1> QED BY <1>1, <1>2, <1>3 DEF Known

LEMMA PlacesPush ==
  ASSUME TypeOK, Places, NEW w \in Workers, PushStep(w)
  PROVE  Places' /\ NotStarted' = NotStarted /\ Running' = Running
<1> DEFINE g == Group(Len(dispatches), GroupId)
<1>1. /\ g \in Groups
      /\ NotPushed = NotPushed' \union {g} /\ g \notin NotPushed'
      /\ \/ queue' = [queue EXCEPT ![w] = Append(@, g)] /\ UNCHANGED dropped
         \/ UNCHANGED queue /\ dropped' = dropped \union {g}
      /\ UNCHANGED <<job, counter, dispatches>>
  BY DEF PushStep
<1> HIDE DEF g
<1>2. Running' = Running
  BY <1>1 DEF Running
<1>3. /\ g \notin Queued /\ g \notin dropped /\ g \notin Running
      /\ RunByOne' /\ QueuedOnce
  BY <1>1 DEF Places, OnePlace, NotStarted, RunByOne
<1>4. CASE queue' = [queue EXCEPT ![w] = Append(@, g)] /\ UNCHANGED dropped
  <2>1. Queued' = Queued \union {g} /\ QueuedOnce'
    BY <1>1, <1>3, <1>4, QueuedAppend
  <2>2. NotStarted' = NotStarted
    BY <1>1, <1>4, <2>1 DEF NotStarted
  <2>3. Open' = Open
    BY <1>2, <2>2 DEF Open
  <2>4. OnePlace'
    <3>1. Running \intersect NotStarted = {}
          /\ Queued \intersect (NotPushed \union dropped) = {}
          /\ NotPushed \intersect dropped = {}
      BY DEF Places, OnePlace
    <3>2. Queued' \intersect (NotPushed' \union dropped') = {}
      BY <1>1, <1>3, <1>4, <2>1, <3>1
    <3> QED BY <1>1, <1>2, <1>3, <1>4, <2>1, <2>2, <3>1, <3>2 DEF OnePlace
  <2> QED BY <1>1, <1>2, <2>2, <2>3, <2>4, MoveKeeps DEF Places
<1>5. CASE UNCHANGED queue /\ dropped' = dropped \union {g}
  <2>1. Queued' = Queued /\ QueuedOnce'
    BY <1>3, <1>5 DEF Queued, QueuedOnce
  <2>2. NotStarted' = NotStarted
    BY <1>1, <1>5, <2>1 DEF NotStarted
  <2>3. Open' = Open
    BY <1>2, <2>2 DEF Open
  <2>4. OnePlace'
    <3>1. Running \intersect NotStarted = {}
          /\ Queued \intersect (NotPushed \union dropped) = {}
          /\ NotPushed \intersect dropped = {}
      BY DEF Places, OnePlace
    <3>2. /\ Queued' \intersect (NotPushed' \union dropped') = {}
          /\ NotPushed' \intersect dropped' = {}
      BY <1>1, <1>3, <1>5, <2>1, <3>1
    <3> QED BY <1>2, <1>3, <2>1, <2>2, <3>1, <3>2 DEF OnePlace
  <2> QED BY <1>1, <1>2, <2>2, <2>3, <2>4, MoveKeeps DEF Places
<1> QED BY <1>1, <1>4, <1>5

LEMMA PlacesTake ==
  ASSUME TypeOK, Places, NEW c \in Threads, NEW w \in Workers, TakeStep(c, w),
         NEW g, g = Head(queue[w])
  PROVE  /\ Places' /\ g # NoJob /\ g \in NotStarted /\ g \notin Running
         /\ NotStarted' = NotStarted \ {g} /\ Running' = Running \union {g}
<1>1. /\ queue[w] # <<>> /\ job[c] = NoJob
      /\ queue' = [queue EXCEPT ![w] = Tail(@)]
      /\ job' = [job EXCEPT ![c] = g]
      /\ UNCHANGED <<counter, dropped, dispatches, NotPushed>>
  BY DEF TakeStep
<1>2. /\ Queued = Queued' \union {g} /\ g \in Groups
      /\ QueuedOnce' /\ g \notin Queued'
  BY <1>1, QueuedTail DEF Places, OnePlace
<1>3. g # NoJob /\ job'[c] = g /\ \A b \in Threads : b # c => job'[b] = job[b]
  BY <1>1, <1>2, NoJobAssumption DEF TypeOK
<1>4. Running' = Running \union {g}
  BY <1>1, <1>3 DEF Running
<1>5. /\ Running \intersect NotStarted = {} /\ RunByOne
      /\ Queued \intersect (NotPushed \union dropped) = {}
      /\ NotPushed \intersect dropped = {}
  BY DEF Places, OnePlace
<1>6. NotStarted = NotStarted' \union {g} /\ g \notin NotStarted' /\ g \notin Running
  BY <1>1, <1>2, <1>5 DEF NotStarted
<1>7. \A b \in Threads : job[b] # g
  BY <1>3, <1>6 DEF Running
<1>8. RunByOne'
  BY <1>3, <1>5, <1>7 DEF RunByOne
<1>9. OnePlace'
  BY <1>1, <1>2, <1>4, <1>5, <1>6, <1>8 DEF OnePlace
<1>10. Open' = Open
  BY <1>4, <1>6 DEF Open
<1>11. Places'
  BY <1>1, <1>9, <1>10, MoveKeeps DEF Places
<1> QED BY <1>3, <1>4, <1>6, <1>11

\* The open groups of a handle when one of them is finished.
LEMMA PlacesFinish ==
  ASSUME TypeOK, Places, NEW c \in Threads, FinishStep(c)
  PROVE  /\ Places' /\ job[c] \in Running
         /\ NotStarted' = NotStarted /\ Running' = Running \ {job[c]}
<1> DEFINE g == job[c]
           Of(S, h) == {x \in S : x.handle = h}
<1>1. /\ g # NoJob /\ job' = [job EXCEPT ![c] = NoJob]
      /\ counter' = [counter EXCEPT ![g.handle] = @ - 1]
      /\ UNCHANGED <<queue, dropped, dispatches, NotPushed>>
  BY DEF FinishStep
<1>2. Queued' = Queued /\ (QueuedOnce => QueuedOnce') /\ NotStarted' = NotStarted
  BY <1>1 DEF Queued, QueuedOnce, NotStarted
<1>3. job'[c] = NoJob /\ \A b \in Threads : b # c => job'[b] = job[b]
  BY <1>1 DEF TypeOK
<1>4. /\ Running \intersect NotStarted = {} /\ RunByOne /\ QueuedOnce
      /\ Queued \intersect (NotPushed \union dropped) = {}
      /\ NotPushed \intersect dropped = {}
  BY DEF Places, OnePlace
<1>5. \A b \in Threads : b # c => job[b] # g
  BY <1>1, <1>4 DEF RunByOne
<1>6. g \in Running /\ g \in Groups /\ g.handle \in Handles
  <2>1. g \in Running
    BY <1>1 DEF Running
  <2>2. g \in Groups
    BY <1>1 DEF TypeOK
  <2> QED BY <2>1, <2>2 DEF Groups
<1>7. Running' = Running \ {g}
  BY <1>1, <1>3, <1>5 DEF Running
<1> HIDE DEF g
<1>8. Open' = Open \ {g} /\ g \in Open
  BY <1>2, <1>4, <1>6, <1>7 DEF Open
<1>9. OnePlace'
  <2>1. RunByOne'
    BY <1>3, <1>4 DEF RunByOne
  <2> QED BY <1>1, <1>2, <1>4, <1>7, <2>1 DEF OnePlace
<1>10. Known'
  <2>1. \A x : IsGroup(x)' <=> IsGroup(x)
    BY <1>1 DEF IsGroup, Group
  <2> QED BY <1>8, <2>1 DEF Known, Places
<1>11. IsFiniteSet(Open)'
  BY <1>8, FS_RemoveElement DEF Places
<1>12. CounterExact'
  <2> SUFFICES ASSUME NEW h \in Handles
               PROVE  counter'[h] = Cardinality(Of(Open', h))
    BY DEF CounterExact, Open
  <2>1. counter[h] = Cardinality(Of(Open, h))
    BY DEF Places, CounterExact, Open
  <2>2. IsFiniteSet(Of(Open, h))
    BY FS_Subset DEF Places
  <2>3. Of(Open', h) = IF g.handle = h THEN Of(Open, h) \ {g} ELSE Of(Open, h)
    BY <1>8
  <2>4. g.handle = h => g \in Of(Open, h)
    BY <1>8
  <2>5. counter'[h] = IF g.handle = h THEN counter[h] - 1 ELSE counter[h]
    BY <1>1, <1>6 DEF TypeOK
  <2> HIDE DEF Of
  <2>6. Cardinality(Of(Open, h)) \in Nat
    BY <2>2, FS_CardinalityType
  <2>7. g.handle = h => Cardinality(Of(Open, h) \ {g}) = Cardinality(Of(Open, h)) - 1
    BY <2>2, <2>4, FS_RemoveElement
  <2> QED BY <2>1, <2>3, <2>5, <2>6, <2>7
<1> QED BY <1>2, <1>6, <1>7, <1>9, <1>10, <1>11, <1>12 DEF Places, g

\* A dispatch adds its groups, none of which was there before.
LEMMA PlacesDispatch ==
  ASSUME TypeOK, Places, NEW h \in Handles, NEW n \in Word \ {0},
         NEW s \in Word \ {0}, DispatchStep(h, n, s)
  PROVE  /\ Places'
         /\ \A g : g \in NotStarted' =>
              g \in NotStarted \/ g.dispatch = Len(dispatches) + 1
<1> DEFINE m == JobsDispatchGroupCount(n, s)
           call == [handle |-> h, jobCount |-> n, groupSize |-> s, groupCount |-> m]
           D == Len(dispatches) + 1
           Grp(id) == [handle |-> h, dispatch |-> D, GroupId |-> id,
                       groupJobOffset |-> GroupJobOffset(s, id),
                       groupJobEnd |-> GroupJobEnd(n, s, id)]
           New == {Grp(id) : id \in 0 .. m - 1}
           Of(S, i) == {x \in S : x.handle = i}
<1>1. m \in Nat
  BY GroupCountInWord DEF Word
<1>2. /\ NotPushed = {} /\ dispatches' = Append(dispatches, call)
      /\ counter' = [counter EXCEPT ![h] = @ + m]
      /\ NotPushed' = {Group(Len(dispatches), id)' : id \in 0 .. m - 1}
      /\ UNCHANGED <<queue, job, dropped>>
  BY DEF DispatchStep
<1> HIDE DEF m
<1>3. /\ call \in Dispatches /\ call.handle = h /\ call.jobCount = n
      /\ call.groupSize = s /\ call.groupCount = m
  BY <1>1, GroupCountInWord DEF Dispatches, m
<1> HIDE DEF call
<1>4. /\ Len(dispatches) \in Nat /\ Len(dispatches') = D /\ dispatches'[D] = call
      /\ \A d \in 1 .. Len(dispatches) : dispatches'[d] = dispatches[d]
  BY <1>2, <1>3, AppendProperties, LenProperties DEF TypeOK
<1>5. \A id : Group(Len(dispatches), id)' = Grp(id)
  BY <1>3, <1>4 DEF Group
<1>6. NotPushed' = New
  BY <1>2, <1>5
<1>7. /\ \A id : Grp(id).dispatch = D /\ Grp(id).GroupId = id /\ Grp(id).handle = h
  OBVIOUS
<1>8. Queued' = Queued /\ Running' = Running /\ (QueuedOnce => QueuedOnce')
      /\ (RunByOne => RunByOne')
  BY <1>2 DEF Queued, Running, QueuedOnce, RunByOne
<1>9. Open' = Open \union New
  BY <1>2, <1>6, <1>8 DEF Open, NotStarted
<1> HIDE DEF Grp, D
<1>10. \A g \in New : g.dispatch = D /\ g.handle = h
  BY <1>7
<1>11. \A g \in Open : g.dispatch # D
  <2>1. \A g \in Open : g.dispatch \in 1 .. Len(dispatches)
    BY DEF Places, Known, IsGroup
  <2> QED BY <1>4, <2>1 DEF D
<1>12. New \intersect Open = {}
  BY <1>10, <1>11
<1>13. Known'
  <2> SUFFICES ASSUME NEW g \in Open' PROVE IsGroup(g)'
    BY DEF Known
  <2>1. CASE g \in Open
    <3>1. IsGroup(g)
      BY <2>1 DEF Places, Known
    <3>2. g.dispatch \in 1 .. Len(dispatches) /\ g.dispatch \in 1 .. D
      BY <1>4, <3>1 DEF IsGroup, D
    <3> QED BY <1>4, <3>1, <3>2 DEF IsGroup, Group
  <2>2. CASE g \in New
    <3>1. PICK id \in 0 .. m - 1 : g = Grp(id)
      BY <2>2
    <3>2. g.dispatch = D /\ g.GroupId = id /\ D \in 1 .. D
      BY <1>4, <1>7, <3>1 DEF D
    <3>3. Group(Len(dispatches), id)' = g
      BY <1>5, <3>1
    <3> QED BY <1>3, <1>4, <3>2, <3>3 DEF IsGroup, Group
  <2> QED BY <1>9, <2>1, <2>2
<1>14. OnePlace'
  <2>1. /\ Running \intersect NotStarted = {} /\ RunByOne /\ QueuedOnce
        /\ Queued \intersect dropped = {}
    BY DEF Places, OnePlace
  <2>2. NotStarted' = NotStarted \union New
    BY <1>2, <1>6, <1>8 DEF NotStarted
  <2>3. New \intersect Running = {} /\ New \intersect Queued = {} /\ New \intersect dropped = {}
    BY <1>12 DEF Open, NotStarted
  <2> QED BY <1>2, <1>6, <1>8, <2>1, <2>2, <2>3 DEF OnePlace
<1>15. IsFiniteSet(New) /\ Cardinality(New) = m
  <2> DEFINE f == [id \in 0 .. m - 1 |-> Grp(id)]
  <2>1. f \in Bijection(0 .. m - 1, New)
    <3>1. f \in Injection(0 .. m - 1, New)
      <4>1. \A i, j \in 0 .. m - 1 : f[i] = f[j] => i = j
        BY <1>7
      <4> QED BY <4>1 DEF Injection, IsInjective
    <3>2. f \in Surjection(0 .. m - 1, New)
      BY DEF Surjection
    <3> QED BY <3>1, <3>2 DEF Bijection
  <2>2. IsFiniteSet(0 .. m - 1) /\ Cardinality(0 .. m - 1) = m
    BY <1>1, FS_Interval
  <2>3. ExistsBijection(0 .. m - 1, New)
    BY <2>1 DEF ExistsBijection
  <2> HIDE DEF f, New
  <2> QED BY <2>2, <2>3, FS_Bijection
<1> HIDE DEF New
<1>16. IsFiniteSet(Open)'
  BY <1>9, <1>15, FS_Union DEF Places
<1>17. CounterExact'
  <2> SUFFICES ASSUME NEW i \in Handles
               PROVE  counter'[i] = Cardinality(Of(Open', i))
    BY DEF CounterExact, Open
  <2>1. counter[i] = Cardinality(Of(Open, i)) /\ counter[i] \in Int
    BY DEF Places, CounterExact, Open, TypeOK
  <2>2. IsFiniteSet(Of(Open, i))
    BY FS_Subset DEF Places
  <2>3. Of(Open', i) = IF i = h THEN Of(Open, i) \union New ELSE Of(Open, i)
    BY <1>9, <1>10
  <2>4. Of(Open, i) \intersect New = {}
    BY <1>12
  <2>5. counter'[i] = IF i = h THEN counter[i] + m ELSE counter[i]
    BY <1>2 DEF TypeOK
  <2> HIDE DEF Of
  <2>6. Cardinality(Of(Open, i) \union New) = Cardinality(Of(Open, i)) + m
    <3>1. Cardinality(Of(Open, i) \union New) =
            Cardinality(Of(Open, i)) + m - Cardinality(Of(Open, i) \intersect New)
      BY <1>15, <2>2, FS_Union
    <3>2. Cardinality(Of(Open, i) \intersect New) = 0
      BY <2>4, FS_EmptySet
    <3>3. Cardinality(Of(Open, i)) \in Nat
      BY <2>2, FS_CardinalityType
    <3> QED BY <1>1, <3>1, <3>2, <3>3
  <2> QED BY <2>1, <2>3, <2>5, <2>6
<1>18. \A g \in NotStarted' : g \in NotStarted \/ g.dispatch = D
  BY <1>2, <1>6, <1>8, <1>10 DEF NotStarted
<1> QED BY <1>13, <1>14, <1>16, <1>17, <1>18 DEF Places, D

LEMMA PlacesInit == Init => Places
<1> SUFFICES ASSUME Init PROVE Places
  OBVIOUS
<1>1. queue = [w \in Workers |-> <<>>] /\ job = [c \in Threads |-> NoJob]
  BY DEF Init, Queues!Init
<1>2. NotPushed = {} /\ dropped = {}
  BY NothingToPush, LabelsIn DEF Init
<1>3. Queued = {} /\ Running = {} /\ RunByOne /\ QueuedOnce
  BY <1>1, EmptySeq DEF Queued, Running, RunByOne, QueuedOnce
<1>4. Open = {} /\ NotStarted = {}
  BY <1>2, <1>3 DEF Open, NotStarted
<1>5. CounterExact
  <2>1. \A h \in Handles : {g \in Open : g.handle = h} = {}
    BY <1>4
  <2> QED BY <2>1, FS_EmptySet DEF Init, CounterExact, Open
<1> QED BY <1>2, <1>3, <1>4, <1>5, FS_EmptySet DEF Places, Known, OnePlace

LEMMA InvInit == Init => IInv
BY TypeInit, ControlInit, PlacesInit DEF IInv

LEMMA InvStep ==
  ASSUME IInv, [PunctualNext]_vars
  PROVE  IInv'
<1>1. TypeOK /\ Control /\ Places
  BY DEF IInv
<1>2. TypeOK'
  BY <1>1, TypeStep
<1>3. Control'
  BY <1>1, <1>2, ControlStep
<1>4. Places'
  <2>1. ASSUME Quiet \/ \E c \in Threads : RunStep(c) \/ CopyStep(c) PROVE Places'
    <3>1. UNCHANGED <<queue, job, counter, dropped, dispatches, NotPushed>>
      BY <2>1 DEF Quiet, RunStep, CopyStep
    <3>2. Open' = Open
      BY <3>1, SameGroups
    <3> QED BY <1>1, <3>1, <3>2, SameGroups, MoveKeeps DEF Places
  <2> QED BY <1>1, <1>2, <2>1, StepEffects, PlacesPush, PlacesTake, PlacesFinish,
             PlacesDispatch
<1> QED BY <1>2, <1>3, <1>4 DEF IInv

THEOREM Inductive == PunctualSpec => []IInv
<1>1. IInv /\ [PunctualNext]_vars => IInv'
  BY InvStep
<1> QED BY <1>1, InvInit, PTL DEF PunctualSpec

\* The fields, the locals of every thread and the queues stay in their types;
\* the indices of queues wrap as a u32 does.
THEOREM JobsTypeCorrect == PunctualSpec => []TypeOK
<1>1. IInv => TypeOK
  BY DEF IInv
<1> QED BY <1>1, Inductive, PTL

\* For any number of workers, queues of any size and dispatches of any shape:
\* the counter of a handle is the number of its groups that are not finished,
\* whether they wait to be pushed, are queued, run, or were dropped.
THEOREM JobsCounterExact == PunctualSpec => []CounterExact
<1>1. IInv => CounterExact
  BY DEF IInv, Places
<1> QED BY <1>1, Inductive, PTL
-----------------------------------------------------------------------------
(* No job runs twice, and none is left out. *)

\* The group of job j of dispatch d, and its place in it.
LEMMA JobsGroup ==
  ASSUME TypeOK, Cut, NEW d \in 1 .. Len(dispatches), NEW j \in JobIndices,
         j < dispatches[d].jobCount,
         NEW g, g = Group(d, j \div dispatches[d].groupSize)
  PROVE  /\ IsGroup(g) /\ g.dispatch = d
         /\ g.groupJobOffset \in Nat /\ g.groupJobEnd \in Nat
         /\ g.groupJobOffset <= j /\ j < g.groupJobEnd
<1> DEFINE n == dispatches[d].jobCount
           s == dispatches[d].groupSize
           id == j \div s
<1>1. n \in Nat \ {0} /\ s \in Nat \ {0} /\ NoOverflow(n, s)
      /\ dispatches[d].groupCount = JobsDispatchGroupCount(n, s)
  BY DispatchType DEF Cut, Word
<1>2. j \in 0 .. n - 1 /\ j \in Nat
  BY <1>1 DEF JobIndices
<1>3. id \in GroupIds(n, s) /\ j \in GroupJobs(n, s, id)
  BY <1>1, <1>2, GroupOfJob
<1>4. id \in 0 .. dispatches[d].groupCount - 1
  BY <1>1, <1>3 DEF GroupIds
<1>5. g = Group(d, id)
  OBVIOUS
<1> HIDE DEF id
<1>6. IsGroup(g) /\ g.dispatch = d /\ g \in Groups
  BY <1>4, <1>5, GroupType
<1>7. g.groupJobOffset = GroupJobOffset(s, id) /\ g.groupJobEnd = GroupJobEnd(n, s, id)
  BY <1>5 DEF Group
<1>8. g.groupJobOffset \in Nat /\ g.groupJobEnd \in Nat
  BY <1>6 DEF Groups, Word
<1> HIDE DEF n, s
<1> QED BY <1>2, <1>3, <1>6, <1>7, <1>8 DEF GroupJobs

\* A group's range is not empty, and every index in it is a job of that group.
LEMMA GroupsJobs ==
  ASSUME TypeOK, Cut, NEW g, IsGroup(g)
  PROVE  /\ g.groupJobOffset \in Nat /\ g.groupJobEnd \in Nat
         /\ g.groupJobOffset < g.groupJobEnd
         /\ \A j \in Nat :
              g.groupJobOffset <= j /\ j < g.groupJobEnd =>
                /\ j \in JobIndices /\ j < dispatches[g.dispatch].jobCount
                /\ g = Group(g.dispatch, j \div dispatches[g.dispatch].groupSize)
<1> DEFINE d == g.dispatch
           id == g.GroupId
           n == dispatches[d].jobCount
           s == dispatches[d].groupSize
<1>1. d \in 1 .. Len(dispatches) /\ id \in 0 .. dispatches[d].groupCount - 1
      /\ g = Group(d, id)
  BY DEF IsGroup
<1>2. n \in Nat \ {0} /\ n < WordSize /\ s \in Nat \ {0} /\ NoOverflow(n, s)
      /\ dispatches[d].groupCount = JobsDispatchGroupCount(n, s)
  BY <1>1, DispatchType, WordSizeAssumption DEF Cut, Word
<1>3. id \in GroupIds(n, s)
  BY <1>1, <1>2 DEF GroupIds
<1>4. g.groupJobOffset = GroupJobOffset(s, id) /\ g.groupJobEnd = GroupJobEnd(n, s, id)
  BY <1>1 DEF Group
<1>5. /\ s * id \in Nat /\ GroupJobOffset(s, id) = s * id /\ s * id < n
      /\ GroupJobEnd(n, s, id) = IF s * id + s < n THEN s * id + s ELSE n
  BY <1>2, <1>3, GroupBounds
<1> HIDE DEF d, id, n, s
<1>6. /\ g.groupJobOffset \in Nat /\ g.groupJobEnd \in Nat
      /\ g.groupJobOffset < g.groupJobEnd
  BY <1>2, <1>4, <1>5
<1>7. ASSUME NEW j \in Nat, g.groupJobOffset <= j, j < g.groupJobEnd
      PROVE  j \in JobIndices /\ j < n /\ g = Group(d, j \div s)
  <2>1. j \in GroupJobs(n, s, id)
    BY <1>4, <1>6, <1>7 DEF GroupJobs
  <2>2. j \in 0 .. n - 1 /\ id = j \div s
    BY <1>2, <1>3, <2>1, GroupIsQuotient
  <2>3. j \in JobIndices /\ j < n
    BY <1>2, <2>2, WordSizeAssumption DEF JobIndices
  <2> QED BY <1>1, <2>2, <2>3
<1> QED BY <1>6, <1>7 DEF d, n, s

\* Group g is not started, or the thread that runs it has not come to job j.
Waits(g, j) == g \in NotStarted \/ (g \in Running /\ ~ RunBy(g, j))

\* Job j of dispatch d, and its group.
IsJob(d, j, g) ==
  /\ d \in 1 .. Len(dispatches) /\ j \in JobIndices /\ j \in Nat
  /\ j < dispatches[d].jobCount
  /\ g = Group(d, j \div dispatches[d].groupSize)
  /\ g \in Groups /\ g # NoJob /\ IsGroup(g) /\ g.dispatch = d
  /\ g.groupJobOffset \in Nat /\ g.groupJobEnd \in Nat
  /\ g.groupJobOffset <= j /\ j < g.groupJobEnd

LEMMA RunInvInit == Init => RunInv
<1> SUFFICES ASSUME Init PROVE RunInv
  OBVIOUS
<1>1. Len(dispatches) = 0 /\ 1 .. 0 = {}
  BY EmptySeq DEF Init
<1>2. InGroup
  BY ConstantsDiffer DEF Init, InGroup, AtRun
<1>3. Fresh
  BY <1>1, CallsAssumption DEF Init, Fresh
<1> QED BY <1>1, <1>2, <1>3, InvInit DEF RunInv, Cut, JobsRunOnce

\* A step that makes no dispatch keeps the dispatches that there are.
LEMMA SameDispatches ==
  ASSUME UNCHANGED dispatches
  PROVE  /\ Cut => Cut'
         /\ \A d, id : Group(d, id)' = Group(d, id)
         /\ UNCHANGED runs => (Fresh => Fresh')
BY DEF Cut, Group, Fresh

\* A step that makes no dispatch keeps JobsRunOnce if it does so job by job.
LEMMA RunsNext ==
  ASSUME RunInv, UNCHANGED dispatches,
         \A d \in 1 .. Len(dispatches), j \in JobIndices :
           j >= dispatches[d].jobCount => runs'[d][j] = runs[d][j],
         \A d, j, x : IsJob(d, j, x) /\ runs[d][j] = (IF Waits(x, j) THEN 0 ELSE 1)
                        => runs'[d][j] = IF Waits(x, j)' THEN 0 ELSE 1
  PROVE  JobsRunOnce'
<1>1. TypeOK /\ Cut /\ JobsRunOnce
  BY DEF RunInv, IInv
<1> SUFFICES ASSUME NEW d \in 1 .. Len(dispatches), NEW j \in JobIndices,
                    NEW x, x = Group(d, j \div dispatches[d].groupSize)
             PROVE  runs'[d][j] = IF \/ j >= dispatches[d].jobCount
                                     \/ Waits(x, j)'
                                  THEN 0 ELSE 1
  BY DEF JobsRunOnce, Waits, Group
<1>2. runs[d][j] = IF j >= dispatches[d].jobCount \/ Waits(x, j) THEN 0 ELSE 1
  BY <1>1 DEF JobsRunOnce, Waits
<1>3. CASE j >= dispatches[d].jobCount
  BY <1>2, <1>3
<1>4. CASE ~ j >= dispatches[d].jobCount
  <2>1. j \in Nat /\ j < dispatches[d].jobCount
    BY <1>1, <1>4, DispatchType DEF JobIndices, Word
  <2>2. IsGroup(x) /\ x.dispatch = d /\ x.groupJobOffset \in Nat /\ x.groupJobEnd \in Nat
        /\ x.groupJobOffset <= j /\ j < x.groupJobEnd
    BY <1>1, <2>1, JobsGroup
  <2>3. x \in Groups
    BY <1>1, <2>2, GroupType DEF IsGroup
  <2>4. x # NoJob
    BY <2>3, NoJobAssumption
  <2>5. IsJob(d, j, x)
    BY <2>1, <2>2, <2>3, <2>4 DEF IsJob
  <2> QED BY <1>2, <1>4, <2>5
<1> QED BY <1>3, <1>4

LEMMA RunPush ==
  ASSUME RunInv, NEW w \in Workers, PushStep(w)
  PROVE  Cut' /\ InGroup' /\ Fresh' /\ JobsRunOnce'
<1>1. TypeOK /\ Places /\ Cut /\ InGroup /\ Fresh
  BY DEF RunInv, IInv
<1>2. UNCHANGED <<job, dispatches, runs, jobIndex, AtRun>>
  BY DEF PushStep
<1>3. NotStarted' = NotStarted /\ Running' = Running
  BY <1>1, PlacesPush
<1>4. \A x, j : Waits(x, j)' <=> Waits(x, j)
  BY <1>2, <1>3 DEF Waits, RunBy
<1>5. JobsRunOnce'
  BY <1>2, <1>4, RunsNext
<1> QED BY <1>1, <1>2, <1>5, SameDispatches DEF InGroup

LEMMA RunTake ==
  ASSUME RunInv, NEW c \in Threads, NEW w \in Workers, TakeStep(c, w)
  PROVE  Cut' /\ InGroup' /\ Fresh' /\ JobsRunOnce'
<1> SUFFICES ASSUME NEW g, g = Head(queue[w])
             PROVE  Cut' /\ InGroup' /\ Fresh' /\ JobsRunOnce'
  OBVIOUS
<1>1. TypeOK /\ Places /\ Cut /\ InGroup /\ Fresh
  BY DEF RunInv, IInv
<1>2. /\ job' = [job EXCEPT ![c] = g] /\ job[c] = NoJob /\ c \notin AtRun
      /\ UNCHANGED <<dispatches, runs, jobIndex, AtRun>>
  BY DEF TakeStep
<1>3. /\ Places' /\ g # NoJob /\ g \in NotStarted /\ g \notin Running
      /\ NotStarted' = NotStarted \ {g} /\ Running' = Running \union {g}
  BY <1>1, PlacesTake
<1>4. /\ job'[c] = g /\ jobIndex[c] = 0
      /\ \A b \in Threads : b # c => job'[b] = job[b]
  BY <1>1, <1>2 DEF TypeOK, InGroup
<1>7. InGroup'
  BY <1>1, <1>2, <1>4 DEF InGroup
<1>8. \A b \in Threads : job'[b] = g => b = c
  BY <1>3, <1>4 DEF Running
<1>9. ASSUME NEW d, NEW j, NEW x, IsJob(d, j, x)
      PROVE  Waits(x, j)' <=> Waits(x, j)
  <2>1. x # NoJob /\ j \in Nat
    BY <1>9 DEF IsJob
  <2>2. CASE x = g
    <3>1. ~ RunBy(x, j)'
      BY <1>2, <1>4, <1>8, <2>1, <2>2 DEF RunBy
    <3> QED BY <1>3, <2>2, <3>1 DEF Waits
  <2>3. CASE x # g
    <3>1. RunBy(x, j)' <=> RunBy(x, j)
      BY <1>2, <1>4, <2>1, <2>3 DEF RunBy
    <3> QED BY <1>3, <2>3, <3>1 DEF Waits
  <2> QED BY <2>2, <2>3
<1>10. JobsRunOnce'
  BY <1>2, <1>9, RunsNext
<1> QED BY <1>1, <1>2, <1>7, <1>10, SameDispatches

LEMMA RunCopy ==
  ASSUME RunInv, NEW c \in Threads, CopyStep(c)
  PROVE  Cut' /\ InGroup' /\ Fresh' /\ JobsRunOnce'
<1> SUFFICES ASSUME NEW g, g = job[c]
             PROVE  Cut' /\ InGroup' /\ Fresh' /\ JobsRunOnce'
  OBVIOUS
<1>1. TypeOK /\ Places /\ Cut /\ InGroup /\ Fresh
  BY DEF RunInv, IInv
<1>2. /\ g # NoJob /\ c \notin AtRun /\ AtRun' = AtRun \union {c}
      /\ jobIndex' = [jobIndex EXCEPT ![c] = g.groupJobOffset]
      /\ UNCHANGED <<queue, job, dropped, dispatches, NotPushed, runs>>
  BY DEF CopyStep
<1>3. NotStarted' = NotStarted /\ Running' = Running /\ g \in Running
  <2>1. Queued' = Queued /\ Running' = Running
    BY <1>2, SameGroups
  <2> QED BY <1>2, <2>1 DEF NotStarted, Running
<1>4. /\ jobIndex'[c] = g.groupJobOffset /\ jobIndex[c] = 0
      /\ \A b \in Threads : b # c => jobIndex'[b] = jobIndex[b]
  BY <1>1, <1>2 DEF TypeOK, InGroup
<1>5. IsGroup(g)
  BY <1>1, <1>3 DEF Places, Known, Open
<1>6. g.groupJobOffset \in Nat /\ g.groupJobEnd \in Nat /\ g.groupJobOffset < g.groupJobEnd
  BY <1>1, <1>5, GroupsJobs
<1>7. InGroup'
  <2> SUFFICES ASSUME NEW b \in Threads
               PROVE  IF b \in AtRun'
                      THEN jobIndex'[b] \in job[b].groupJobOffset .. job[b].groupJobEnd
                      ELSE jobIndex'[b] = 0
    BY <1>2 DEF InGroup
  <2>1. CASE b = c
    <3>1. jobIndex'[c] \in g.groupJobOffset .. g.groupJobEnd
      BY <1>4, <1>6
    <3> QED BY <1>2, <2>1, <3>1
  <2>2. CASE b # c
    BY <1>1, <1>2, <1>4, <2>2 DEF InGroup
  <2> QED BY <2>1, <2>2
<1>8. \A b \in Threads : job[b] = g => b = c
  BY <1>1, <1>2 DEF Places, OnePlace, RunByOne
<1>9. ASSUME NEW d, NEW j, NEW x, IsJob(d, j, x)
      PROVE  Waits(x, j)' <=> Waits(x, j)
  <2>1. x # NoJob /\ j \in Nat /\ x.groupJobOffset <= j
    BY <1>9 DEF IsJob
  <2>2. CASE x = g
    <3>1. ~ RunBy(x, j)' /\ ~ RunBy(x, j)
      BY <1>2, <1>4, <1>6, <1>8, <2>1, <2>2 DEF RunBy
    <3> QED BY <1>3, <3>1 DEF Waits
  <2>3. CASE x # g
    <3>1. RunBy(x, j)' <=> RunBy(x, j)
      BY <1>2, <1>4, <2>3 DEF RunBy
    <3> QED BY <1>3, <3>1 DEF Waits
  <2> QED BY <2>2, <2>3
<1>10. JobsRunOnce'
  BY <1>2, <1>9, RunsNext
<1> QED BY <1>1, <1>2, <1>7, <1>10, SameDispatches

LEMMA RunFinish ==
  ASSUME RunInv, NEW c \in Threads, FinishStep(c)
  PROVE  Cut' /\ InGroup' /\ Fresh' /\ JobsRunOnce'
<1> SUFFICES ASSUME NEW g, g = job[c]
             PROVE  Cut' /\ InGroup' /\ Fresh' /\ JobsRunOnce'
  OBVIOUS
<1>1. TypeOK /\ Places /\ Cut /\ InGroup /\ Fresh
  BY DEF RunInv, IInv
<1>2. /\ g # NoJob /\ jobIndex[c] >= g.groupJobEnd /\ AtRun' = AtRun \ {c}
      /\ job' = [job EXCEPT ![c] = NoJob]
      /\ jobIndex' = [jobIndex EXCEPT ![c] = 0]
      /\ UNCHANGED <<dispatches, runs>>
  BY DEF FinishStep
<1>3. g \in Running /\ NotStarted' = NotStarted /\ Running' = Running \ {g}
  BY <1>1, PlacesFinish
<1>4. /\ job'[c] = NoJob /\ jobIndex'[c] = 0
      /\ \A b \in Threads : b # c => job'[b] = job[b] /\ jobIndex'[b] = jobIndex[b]
  BY <1>1, <1>2 DEF TypeOK
<1>5. InGroup'
  BY <1>1, <1>2, <1>4 DEF InGroup
<1>6. ASSUME NEW d, NEW j, NEW x, IsJob(d, j, x)
      PROVE  Waits(x, j)' <=> Waits(x, j)
  <2>1. x # NoJob /\ j \in Nat /\ x.groupJobEnd \in Nat /\ j < x.groupJobEnd
    BY <1>6 DEF IsJob
  <2>2. CASE x = g
    <3>1. jobIndex[c] \in Nat /\ j < jobIndex[c]
      BY <1>1, <1>2, <2>1, <2>2 DEF TypeOK, Word
    <3>2. RunBy(x, j)
      BY <2>2, <3>1 DEF RunBy
    <3> QED BY <1>3, <2>2, <3>2 DEF Waits
  <2>3. CASE x # g
    <3>1. RunBy(x, j)' <=> RunBy(x, j)
      BY <1>2, <1>4, <2>1, <2>3 DEF RunBy
    <3> QED BY <1>3, <2>3, <3>1 DEF Waits
  <2> QED BY <2>2, <2>3
<1>7. JobsRunOnce'
  BY <1>2, <1>6, RunsNext
<1> QED BY <1>1, <1>2, <1>5, <1>7, SameDispatches

\* A thread runs job k of its group: only there does anything change.
LEMMA RunJobStep ==
  ASSUME RunInv, NEW c \in Threads, RunStep(c)
  PROVE  Cut' /\ InGroup' /\ Fresh' /\ JobsRunOnce'
<1> SUFFICES ASSUME NEW g, g = job[c], NEW k, k = jobIndex[c]
             PROVE  Cut' /\ InGroup' /\ Fresh' /\ JobsRunOnce'
  OBVIOUS
<1>1. TypeOK /\ Places /\ Cut /\ InGroup /\ Fresh
  BY DEF RunInv, IInv
<1>2. /\ g # NoJob /\ k < g.groupJobEnd /\ c \in AtRun
      /\ runs' = [runs EXCEPT ![g.dispatch][k] = @ + 1]
      /\ jobIndex' = [jobIndex EXCEPT ![c] = k + 1]
      /\ UNCHANGED <<queue, job, dropped, dispatches, NotPushed, AtRun>>
  BY DEF RunStep
<1>3. NotStarted' = NotStarted /\ Running' = Running /\ g \in Running /\ g \notin NotStarted
  <2>1. Queued' = Queued /\ Running' = Running
    BY <1>2, SameGroups
  <2>2. g \in Running
    BY <1>2 DEF Running
  <2> QED BY <1>1, <1>2, <2>1, <2>2 DEF NotStarted, Places, OnePlace
<1>4. IsGroup(g)
  BY <1>1, <1>3 DEF Places, Known, Open
<1>5. g.groupJobOffset \in Nat /\ g.groupJobEnd \in Nat
  BY <1>1, <1>4, GroupsJobs
<1>6. k \in g.groupJobOffset .. g.groupJobEnd /\ k \in Nat /\ g.groupJobOffset <= k
  BY <1>1, <1>2, <1>5 DEF InGroup
<1>7. /\ k \in JobIndices /\ k < dispatches[g.dispatch].jobCount
      /\ g = Group(g.dispatch, k \div dispatches[g.dispatch].groupSize)
  BY <1>1, <1>2, <1>4, <1>6, GroupsJobs
<1>8. /\ jobIndex'[c] = k + 1
      /\ \A b \in Threads : b # c => jobIndex'[b] = jobIndex[b]
  BY <1>1, <1>2 DEF TypeOK
<1>9. g.dispatch \in 1 .. Len(dispatches) /\ g.dispatch \in 1 .. MaxCalls
  BY <1>1, <1>4, DispatchType DEF IsGroup
<1>10. /\ runs'[g.dispatch][k] = runs[g.dispatch][k] + 1
       /\ \A d \in 1 .. MaxCalls, j \in JobIndices :
            ~ (d = g.dispatch /\ j = k) => runs'[d][j] = runs[d][j]
  BY <1>1, <1>2, <1>7, <1>9 DEF TypeOK
<1>11. InGroup'
  <2> SUFFICES ASSUME NEW b \in Threads
               PROVE  IF b \in AtRun
                      THEN jobIndex'[b] \in job[b].groupJobOffset .. job[b].groupJobEnd
                      ELSE jobIndex'[b] = 0
    BY <1>2 DEF InGroup
  <2>1. CASE b = c
    <3>1. jobIndex'[c] \in g.groupJobOffset .. g.groupJobEnd
      BY <1>2, <1>5, <1>6, <1>8
    <3> QED BY <1>2, <2>1, <3>1
  <2>2. CASE b # c
    BY <1>1, <1>8, <2>2 DEF InGroup
  <2> QED BY <2>1, <2>2
<1>12. Fresh'
  <2>1. Len(dispatches) \in Nat /\ MaxCalls \in Nat
    BY <1>1, LenProperties, CallsAssumption DEF TypeOK
  <2> SUFFICES ASSUME NEW d \in Len(dispatches) + 1 .. MaxCalls, NEW j \in JobIndices
               PROVE  runs'[d][j] = 0
    BY <1>2 DEF Fresh
  <2>2. d \in 1 .. MaxCalls /\ d # g.dispatch
    BY <1>9, <2>1
  <2>3. runs'[d][j] = runs[d][j]
    BY <1>10, <2>2
  <2> QED BY <1>1, <2>3 DEF Fresh
<1>13. \A d \in 1 .. Len(dispatches) : d \in 1 .. MaxCalls
  BY <1>1, DispatchType
<1>14. \A d \in 1 .. Len(dispatches), j \in JobIndices :
         j >= dispatches[d].jobCount => runs'[d][j] = runs[d][j]
  <2> SUFFICES ASSUME NEW d \in 1 .. Len(dispatches), NEW j \in JobIndices,
                      j >= dispatches[d].jobCount
               PROVE  runs'[d][j] = runs[d][j]
    OBVIOUS
  <2>1. dispatches[d].jobCount \in Nat /\ j \in Nat
    BY <1>1, DispatchType DEF Word, JobIndices
  <2>2. ~ (d = g.dispatch /\ j = k)
    BY <1>6, <1>7, <2>1
  <2> QED BY <1>10, <1>13, <2>2
<1>15. ASSUME NEW d, NEW j, NEW x, IsJob(d, j, x),
              runs[d][j] = (IF Waits(x, j) THEN 0 ELSE 1)
       PROVE  runs'[d][j] = IF Waits(x, j)' THEN 0 ELSE 1
  <2>1. /\ d \in 1 .. MaxCalls /\ j \in JobIndices /\ j \in Nat
        /\ x = Group(d, j \div dispatches[d].groupSize) /\ x.dispatch = d
    BY <1>13, <1>15 DEF IsJob
  <2>2. CASE x = g
    <3>1. \A b \in Threads : job[b] = x => b = c
      BY <1>1, <1>2, <2>2 DEF Places, OnePlace, RunByOne
    <3>2. RunBy(x, j) <=> j < k
      BY <2>2, <3>1 DEF RunBy
    <3>3. RunBy(x, j)' <=> j < k + 1
      BY <1>2, <1>8, <2>2, <3>1 DEF RunBy
    <3>4. Waits(x, j) <=> ~ j < k
      BY <1>3, <2>2, <3>2 DEF Waits
    <3>5. Waits(x, j)' <=> ~ j < k + 1
      BY <1>3, <2>2, <3>3 DEF Waits
    <3>6. CASE j = k
      <4>1. runs'[d][j] = runs[d][j] + 1
        BY <1>10, <2>1, <2>2, <3>6
      <4>2. runs[d][j] = 0
        BY <1>6, <1>15, <3>4, <3>6
      <4>3. ~ Waits(x, j)'
        BY <1>6, <3>5, <3>6
      <4> QED BY <4>1, <4>2, <4>3
    <3>7. CASE j # k
      <4>1. runs'[d][j] = runs[d][j]
        BY <1>10, <2>1, <3>7
      <4>2. Waits(x, j)' <=> Waits(x, j)
        BY <1>6, <2>1, <3>4, <3>5, <3>7
      <4> QED BY <1>15, <4>1, <4>2
    <3> QED BY <3>6, <3>7
  <2>3. CASE x # g
    <3>1. RunBy(x, j)' <=> RunBy(x, j)
      BY <1>2, <1>8, <2>3 DEF RunBy
    <3>2. Waits(x, j)' <=> Waits(x, j)
      BY <1>3, <3>1 DEF Waits
    <3>3. ~ (d = g.dispatch /\ j = k)
      BY <1>7, <2>1, <2>3
    <3>4. runs'[d][j] = runs[d][j]
      BY <1>10, <2>1, <3>3
    <3> QED BY <1>15, <3>2, <3>4
  <2> QED BY <2>2, <2>3
<1>16. JobsRunOnce'
  BY <1>2, <1>14, <1>15, RunsNext
<1>17. Cut'
  BY <1>1, <1>2, SameDispatches
<1> QED BY <1>11, <1>12, <1>16, <1>17

\* The jobs of a new dispatch have not run, and wait to be pushed.
LEMMA RunDispatch ==
  ASSUME RunInv, TypeOK', NEW h \in Handles, NEW n \in Word \ {0}, NEW s \in Word \ {0},
         DispatchStep(h, n, s), NoOverflow(n, s)
  PROVE  Cut' /\ InGroup' /\ Fresh' /\ JobsRunOnce'
<1> SUFFICES ASSUME NEW m, m = JobsDispatchGroupCount(n, s),
                    NEW D, D = Len(dispatches) + 1,
                    NEW call, call = [handle |-> h, jobCount |-> n,
                                      groupSize |-> s, groupCount |-> m]
             PROVE  Cut' /\ InGroup' /\ Fresh' /\ JobsRunOnce'
  OBVIOUS
<1>1. TypeOK /\ Places /\ Cut /\ InGroup /\ Fresh /\ JobsRunOnce
  BY DEF RunInv, IInv
<1>2. /\ NotPushed = {}
      /\ dispatches' = Append(dispatches, call)
      /\ NotPushed' = {Group(Len(dispatches), id)' : id \in 0 .. m - 1}
      /\ UNCHANGED <<queue, job, dropped, runs, jobIndex, AtRun>>
  BY DEF DispatchStep
<1>3. /\ Len(dispatches) \in Nat /\ Len(dispatches') = D /\ dispatches'[D] = call
      /\ \A d \in 1 .. Len(dispatches) : dispatches'[d] = dispatches[d]
  <2>1. m \in Word
    BY GroupCountInWord
  <2>2. call \in Dispatches
    BY <2>1 DEF Dispatches
  <2> QED BY <1>1, <1>2, <2>2, AppendProperties, LenProperties DEF TypeOK
<1>4. call.jobCount = n /\ call.groupSize = s /\ call.groupCount = m
  OBVIOUS
<1>5. \A d \in 1 .. D : d = D \/ d \in 1 .. Len(dispatches)
  BY <1>3
<1>6. Cut'
  <2> SUFFICES ASSUME NEW d \in 1 .. D
               PROVE  /\ NoOverflow(dispatches'[d].jobCount, dispatches'[d].groupSize)
                      /\ dispatches'[d].groupCount =
                           JobsDispatchGroupCount(dispatches'[d].jobCount,
                                                  dispatches'[d].groupSize)
    BY <1>3 DEF Cut
  <2>1. CASE d = D
    BY <1>3, <1>4, <2>1
  <2>2. CASE d \in 1 .. Len(dispatches)
    BY <1>1, <1>3, <2>2 DEF Cut
  <2> QED BY <1>5, <2>1, <2>2
<1>7. InGroup'
  BY <1>1, <1>2 DEF InGroup
<1>8. Fresh'
  <2>1. \A d \in D + 1 .. MaxCalls : d \in Len(dispatches) + 1 .. MaxCalls
    BY <1>3, CallsAssumption
  <2> QED BY <1>1, <1>2, <1>3, <2>1 DEF Fresh
<1>9. Queued' = Queued /\ Running' = Running
  BY <1>2 DEF Queued, Running
<1>10. \A x, j : RunBy(x, j)' <=> RunBy(x, j)
  BY <1>2 DEF RunBy
<1>11. D \in 1 .. MaxCalls
  BY <1>3, CallsAssumption DEF TypeOK
<1>12. ASSUME NEW d \in 1 .. D, NEW j \in JobIndices,
              NEW x, x = Group(d, j \div dispatches[d].groupSize)'
       PROVE  runs[d][j] = IF j >= dispatches'[d].jobCount \/ Waits(x, j)'
                           THEN 0 ELSE 1
  <2>1. CASE d = D
    <3>1. runs[d][j] = 0
      BY <1>1, <1>3, <1>11, <2>1 DEF Fresh
    <3>2. CASE ~ j >= n
      <4>1. n \in Nat \ {0} /\ s \in Nat \ {0} /\ j \in 0 .. n - 1 /\ j \in Nat
        BY <3>2 DEF Word, JobIndices
      <4>2. j \div s \in 0 .. m - 1
        BY <4>1, GroupOfJob DEF GroupIds
      <4>3. x = Group(Len(dispatches), j \div s)'
        BY <1>3, <1>4, <1>12, <2>1 DEF Group
      <4>4. x \in NotPushed'
        BY <1>2, <4>2, <4>3
      <4>5. Waits(x, j)'
        BY <4>4 DEF Waits, NotStarted
      <4> QED BY <3>1, <4>5
    <3>3. CASE j >= n
      BY <1>3, <1>4, <2>1, <3>1, <3>3
    <3> QED BY <3>2, <3>3
  <2>2. CASE d \in 1 .. Len(dispatches)
    <3>1. x = Group(d, j \div dispatches[d].groupSize) /\ dispatches'[d] = dispatches[d]
      BY <1>3, <1>12, <2>2 DEF Group
    <3>2. runs[d][j] = IF j >= dispatches[d].jobCount \/ Waits(x, j) THEN 0 ELSE 1
      BY <1>1, <2>2, <3>1 DEF JobsRunOnce, Waits
    <3>3. x.dispatch = d /\ d # D
      BY <1>3, <2>2, <3>1 DEF Group
    <3>4. x \in NotStarted' => x \in NotStarted
      BY <1>1, <1>3, <3>3, PlacesDispatch
    <3>5. x \in NotStarted => x \in NotStarted'
      BY <1>2, <1>9 DEF NotStarted
    <3>6. Waits(x, j)' <=> Waits(x, j)
      BY <1>9, <1>10, <3>4, <3>5 DEF Waits
    <3> QED BY <3>1, <3>2, <3>6
  <2> QED BY <1>5, <2>1, <2>2
<1>13. JobsRunOnce'
  BY <1>2, <1>3, <1>12 DEF JobsRunOnce, Waits
<1> QED BY <1>6, <1>7, <1>8, <1>13

LEMMA RunInvStep ==
  ASSUME RunInv, CallsFit, [PunctualNext]_vars
  PROVE  RunInv'
<1>1. IInv /\ TypeOK /\ Control /\ Cut /\ InGroup /\ Fresh /\ JobsRunOnce
  BY DEF RunInv, IInv
<1>2. IInv' /\ TypeOK'
  BY <1>1, InvStep DEF IInv
<1>3. ASSUME Quiet PROVE Cut' /\ InGroup' /\ Fresh' /\ JobsRunOnce'
  <2>1. UNCHANGED <<queue, job, dropped, dispatches, NotPushed, runs, jobIndex, AtRun>>
    BY <1>3 DEF Quiet
  <2>2. NotStarted' = NotStarted /\ Running' = Running
    BY <2>1, SameGroups DEF NotStarted
  <2>3. \A x, j : Waits(x, j)' <=> Waits(x, j)
    BY <2>1, <2>2 DEF Waits, RunBy
  <2>4. JobsRunOnce'
    BY <2>1, <2>3, RunsNext
  <2> QED BY <1>1, <2>1, <2>4, SameDispatches DEF InGroup
<1>4. Cut' /\ InGroup' /\ Fresh' /\ JobsRunOnce'
  BY <1>1, <1>2, <1>3, StepEffects, RunJobStep, RunPush, RunTake, RunCopy,
     RunFinish, RunDispatch
<1> QED BY <1>2, <1>4 DEF RunInv

\* For any number of workers, queues of any size and dispatches of any shape: no
\* job runs twice; the jobs of a group run one by one while the thread that has
\* claimed it runs it, all of them have run when it is finished, and none of a
\* group that waits, or that a full queue refused.  It takes that no thread is
\* overtaken by a lap of its queue between claim and copy (PunctualSpec), and
\* that no call overflows the rounding sum of JobsDispatchGroupCount.
THEOREM NoJobRunsTwice == CallsFit => (PunctualSpec => []JobsRunOnce)
<1> SUFFICES ASSUME CallsFit PROVE PunctualSpec => []JobsRunOnce
  OBVIOUS
<1>1. RunInv /\ [PunctualNext]_vars => RunInv'
  BY RunInvStep
<1>2. RunInv => JobsRunOnce
  BY DEF RunInv
<1> QED BY <1>1, <1>2, RunInvInit, PTL DEF PunctualSpec
-----------------------------------------------------------------------------
(* No job is stranded. *)

\* Wherever a thread starts, NumThreads steps on the u32 bring it to every queue.
StartsCover ==
  \A s \in StartValues \union Workers, q \in Workers :
    \E k \in 0 .. NumThreads - 1 : q = ((s + k) % WordSize) % NumThreads

LEMMA StepsMeet ==
  ASSUME NEW s \in StartValues \union Workers, NEW q \in Workers
  PROVE  /\ NumThreads \in Nat \ {0} /\ WordSize \in Nat \ {0} /\ s \in Nat
         /\ \E k \in 0 .. NumThreads - 1 : (s + k) % NumThreads = q
<1>1. /\ NumThreads \in Nat \ {0} /\ WordSize \in Nat \ {0} /\ s \in Nat
      /\ q \in 0 .. NumThreads - 1
  BY ThreadsAssumption, WordSizeAssumption, StartAssumption DEF Workers, Word
<1> QED BY <1>1, StepsCover

\* That is so if the number of workers divides the number of u32 values, ...
LEMMA DivisorCovers ==
  ASSUME WordSize % NumThreads = 0
  PROVE  StartsCover
<1> SUFFICES ASSUME NEW s \in StartValues \union Workers, NEW q \in Workers
             PROVE  \E k \in 0 .. NumThreads - 1 :
                      q = ((s + k) % WordSize) % NumThreads
  BY DEF StartsCover
<1>1. NumThreads \in Nat \ {0} /\ WordSize \in Nat \ {0} /\ s \in Nat
  BY StepsMeet
<1>2. PICK k \in 0 .. NumThreads - 1 : (s + k) % NumThreads = q
  BY StepsMeet, Zenon
<1>3. PICK x \in Nat : x = s + k
  BY <1>1
<1>4. PICK a \in Nat, y \in 0 .. WordSize - 1 : x = (WordSize * a) + y /\ x % WordSize = y
  BY <1>1, Divided
<1>5. PICK m \in Nat, z \in 0 .. NumThreads - 1 :
        WordSize = (NumThreads * m) + z /\ WordSize % NumThreads = z
  BY <1>1, Divided
<1>6. PICK b \in Nat, r \in 0 .. NumThreads - 1 :
        y = (NumThreads * b) + r /\ y % NumThreads = r
  <2>1. y \in Nat
    BY <1>1
  <2> QED BY <1>1, <2>1, Divided
<1>7. WordSize * a = NumThreads * (m * a)
  BY <1>1, <1>5
<1>8. /\ NumThreads * ((m * a) + b) = (NumThreads * (m * a)) + (NumThreads * b)
      /\ (m * a) + b \in Nat
      /\ NumThreads * (m * a) \in Nat /\ NumThreads * b \in Nat
  BY <1>1
<1>9. x = (NumThreads * ((m * a) + b)) + r
  BY <1>4, <1>6, <1>7, <1>8
<1>10. x % NumThreads = r
  BY <1>1, <1>8, <1>9, RemainderIs
<1> QED BY <1>2, <1>3, <1>4, <1>6, <1>10

\* ... or if no start is so large that the index wraps on the way.
LEMMA SmallStartsCover ==
  ASSUME \A s \in StartValues \union Workers : s + NumThreads <= WordSize
  PROVE  StartsCover
<1> SUFFICES ASSUME NEW s \in StartValues \union Workers, NEW q \in Workers
             PROVE  \E k \in 0 .. NumThreads - 1 :
                      q = ((s + k) % WordSize) % NumThreads
  BY DEF StartsCover
<1>1. /\ NumThreads \in Nat \ {0} /\ WordSize \in Nat \ {0} /\ s \in Nat
      /\ s + NumThreads <= WordSize
  BY StepsMeet
<1>2. PICK k \in 0 .. NumThreads - 1 : (s + k) % NumThreads = q
  BY StepsMeet, Zenon
<1>3. s + k \in Nat /\ s + k < WordSize
  BY <1>1
<1>4. (s + k) % WordSize = s + k
  BY <1>1, <1>3
<1> QED BY <1>2, <1>4

\* A step of the loop of Work moves on to the queue that was one further.
LEMMA OneFurther ==
  ASSUME NEW s \in Word, NEW k \in Nat \ {0}
  PROVE  (((s + 1) % WordSize) + (k - 1)) % WordSize = (s + k) % WordSize
<1>1. WordSize \in Nat \ {0} /\ s \in Nat
  BY WordSizeAssumption DEF Word
<1>2. PICK x \in Nat : x = s + 1
  BY <1>1
<1>3. PICK a \in Nat, y \in 0 .. WordSize - 1 : x = (WordSize * a) + y /\ x % WordSize = y
  BY <1>1, Divided
<1>4. PICK z \in Nat : z = y + (k - 1)
  BY <1>1
<1>5. PICK b \in Nat, r \in 0 .. WordSize - 1 : z = (WordSize * b) + r /\ z % WordSize = r
  BY <1>1, Divided
<1>6. /\ WordSize * (a + b) = (WordSize * a) + (WordSize * b) /\ a + b \in Nat
      /\ WordSize * a \in Nat /\ WordSize * b \in Nat
  BY <1>1
<1>7. s + k \in Nat /\ s + k = (WordSize * (a + b)) + r
  BY <1>1, <1>2, <1>3, <1>4, <1>5, <1>6
<1>8. (s + k) % WordSize = r
  BY <1>1, <1>6, <1>7, RemainderIs
<1> QED BY <1>2, <1>3, <1>4, <1>5, <1>8

\* The queues that thread c comes to from here.
Visits(c, q) ==
  \E k \in 0 .. visits[c] - 1 : q = ((startingQueue[c] + k) % WordSize) % NumThreads

VisitsNext(c, q) ==
  \E k \in 1 .. visits[c] - 1 : q = ((startingQueue[c] + k) % WordSize) % NumThreads

LEMMA WillLookIs ==
  ASSUME NEW c, NEW q
  PROVE  /\ WillLook(c, q) <=>
              \/ pc[c] \in {"next", "copying", "run"} /\ Visits(c, q)
              \/ /\ pc[c] = "looking"
                 /\ (view[c].queue = q /\ ~ view[c].stale) \/ VisitsNext(c, q)
         /\ WillLook(c, q)' <=>
              \/ pc'[c] \in {"next", "copying", "run"} /\ Visits(c, q)'
              \/ /\ pc'[c] = "looking"
                 /\ (view'[c].queue = q /\ ~ view'[c].stale) \/ VisitsNext(c, q)'
<1>1. /\ q \in {((startingQueue[c] + k) % WordSize) % NumThreads : k \in 0 .. visits[c] - 1}
           <=> Visits(c, q)
      /\ q \in {((startingQueue[c] + k) % WordSize) % NumThreads : k \in 1 .. visits[c] - 1}
           <=> VisitsNext(c, q)
  BY DEF Visits, VisitsNext
<1>2. /\ q \in {((startingQueue'[c] + k) % WordSize) % NumThreads : k \in 0 .. visits'[c] - 1}
           <=> Visits(c, q)'
      /\ q \in {((startingQueue'[c] + k) % WordSize) % NumThreads : k \in 1 .. visits'[c] - 1}
           <=> VisitsNext(c, q)'
  BY DEF Visits, VisitsNext
<1>3. /\ WillLook(c, q) <=>
           \/ pc[c] \in {"next", "copying", "run"} /\ Visits(c, q)
           \/ /\ pc[c] = "looking"
              /\ (view[c].queue = q /\ ~ view[c].stale) \/ VisitsNext(c, q)
  BY <1>1 DEF WillLook
<1>4. /\ WillLook(c, q)' <=>
           \/ pc'[c] \in {"next", "copying", "run"} /\ Visits(c, q)'
           \/ /\ pc'[c] = "looking"
              /\ (view'[c].queue = q /\ ~ view'[c].stale) \/ VisitsNext(c, q)'
  BY <1>2 DEF WillLook
<1> QED BY <1>3, <1>4

\* The queue that c comes to first is the one its view is of.
LEMMA FirstVisit ==
  ASSUME TypeOK, NEW c \in Threads
  PROVE  /\ ((startingQueue[c] + 0) % WordSize) % NumThreads = startingQueue[c] % NumThreads
         /\ visits[c] > 0 => 0 \in 0 .. visits[c] - 1
         /\ visits[c] \in Nat /\ startingQueue[c] \in Word
         /\ \A q : VisitsNext(c, q) => Visits(c, q)
         /\ \A q : Visits(c, q) => q = startingQueue[c] % NumThreads \/ VisitsNext(c, q)
<1>1. visits[c] \in Nat /\ startingQueue[c] \in Word
  BY ThreadsAssumption DEF TypeOK
<1>2. startingQueue[c] \in Nat /\ startingQueue[c] < WordSize /\ WordSize \in Nat \ {0}
  BY <1>1, WordSizeAssumption DEF Word
<1>3. startingQueue[c] + 0 = startingQueue[c] /\ startingQueue[c] % WordSize = startingQueue[c]
  BY <1>2
<1>4. \A k \in 1 .. visits[c] - 1 : k \in 0 .. visits[c] - 1
  BY <1>1
<1>5. \A k \in 0 .. visits[c] - 1 : k = 0 \/ k \in 1 .. visits[c] - 1
  BY <1>1
<1>6. visits[c] > 0 => 0 \in 0 .. visits[c] - 1
  BY <1>1
<1>7. \A q : VisitsNext(c, q) => Visits(c, q)
  BY <1>4 DEF Visits, VisitsNext
<1>8. \A q : Visits(c, q) => q = startingQueue[c] % NumThreads \/ VisitsNext(c, q)
  BY <1>3, <1>5 DEF Visits, VisitsNext
<1> QED BY <1>1, <1>3, <1>6, <1>7, <1>8

\* A look is at the queue that the index stands for.
LEMMA LooksStep ==
  ASSUME TypeOK, Control, TypeOK', LooksRight, [PunctualNext]_vars
  PROVE  LooksRight'
<1> SUFFICES ASSUME NEW c \in Threads, pc'[c] = "looking"
             PROVE  view'[c].queue = startingQueue'[c] % NumThreads
  BY DEF LooksRight
<1> DEFINE Same == /\ pc[c] = "looking" /\ startingQueue'[c] = startingQueue[c]
                   /\ view'[c].queue = view[c].queue
<1>1. Same => view'[c].queue = startingQueue'[c] % NumThreads
  BY DEF LooksRight
<1> USE DEF mainVars, queueVars, workVars
<1> USE LabelsIn
<1>2. CASE UNCHANGED vars
  BY <1>1, <1>2 DEF vars
<1>3. CASE StartThread \/ Shutdown \/ PostPushed \/ HandleBusy \/ WakeThread \/ WaitDone
  <2>1. pc[c] = "looking" /\ UNCHANGED <<startingQueue, view>>
    BY <1>3 DEF StartThread, Shutdown, PostPushed, HandleBusy, WakeThread, WaitDone,
                Goto, TypeOK
  <2> QED BY <1>1, <2>1
<1>4. CASE PushBack /\ Punctual'
  <2>1. pc[c] = "looking" /\ UNCHANGED <<startingQueue, view>>
    BY <1>4 DEF PushBack, Queues!Put, Queues!Refuse, Goto, TypeOK
  <2> QED BY <1>1, <2>1
<1>5. CASE MainEnterWork
  <2>1. c # Main /\ Same
    BY <1>5 DEF MainEnterWork, EnterWork, Goto, TypeOK
  <2> QED BY <1>1, <2>1
<1>6. ASSUME NEW b \in Threads, LeaveWork(b) \/ PopFrontGiveUp(b)
      PROVE  view'[c].queue = startingQueue'[c] % NumThreads
  <2>1. c # b
    BY <1>6 DEF LeaveWork, PopFrontGiveUp, Goto, TypeOK
  <2>2. Same
    BY <1>6, <2>1 DEF LeaveWork, PopFrontGiveUp, Queues!GiveUp, Goto, TypeOK
  <2> QED BY <1>1, <2>2
<1>7. ASSUME NEW b \in Threads, PopFrontLook(b)
      PROVE  view'[c].queue = startingQueue'[c] % NumThreads
  <2>1. CASE c = b
    BY <1>7, <2>1 DEF PopFrontLook, Queues!Look, TypeOK
  <2>2. CASE c # b
    <3>1. Same
      BY <1>7, <2>2 DEF PopFrontLook, Queues!Look, Goto, TypeOK
    <3> QED BY <1>1, <3>1
  <2> QED BY <2>1, <2>2
<1>8. ASSUME NEW b \in Threads, PopFrontClaim(b)
      PROVE  view'[c].queue = startingQueue'[c] % NumThreads
  <2>1. c # b
    BY <1>8 DEF PopFrontClaim, Goto, TypeOK
  <2>2. pc[c] = "looking" /\ startingQueue'[c] = startingQueue[c]
    BY <1>8, <2>1 DEF PopFrontClaim, Goto, TypeOK
  <2>3. view'[c].queue = view[c].queue
    BY <1>8, <2>1 DEF PopFrontClaim, Queues!Claim
  <2> QED BY <1>1, <2>2, <2>3
<1>9. ASSUME NEW b \in Threads, PopFrontCopy(b) \/ RunJob(b) \/ FinishGroup(b)
      PROVE  view'[c].queue = startingQueue'[c] % NumThreads
  <2>1. Same
    BY <1>9 DEF PopFrontCopy, Queues!Copy, RunJob, FinishGroup, Goto, TypeOK
  <2> QED BY <1>1, <2>1
<1>10. ASSUME NEW w \in Workers, WorkerCheck(w) \/ WorkerEnd(w) \/ WorkerWake(w)
       PROVE  view'[c].queue = startingQueue'[c] % NumThreads
  <2>1. c # w
    BY <1>10 DEF WorkerCheck, WorkerEnd, WorkerWake, EnterWork, Goto, TypeOK
  <2>2. Same
    BY <1>10, <2>1 DEF WorkerCheck, WorkerEnd, WorkerWake, EnterWork, Goto, TypeOK
  <2> QED BY <1>1, <2>2
<1>11. ASSUME NEW h \in Handles, JobHandleWait(h)
       PROVE  view'[c].queue = startingQueue'[c] % NumThreads
  <2>1. Same
    BY <1>11 DEF JobHandleWait, Goto, TypeOK
  <2> QED BY <1>1, <2>1
<1>12. ASSUME NEW h \in Handles, NEW n \in Word \ {0}, NEW g \in Word \ {0},
              Dispatch(h, n, g)
       PROVE  view'[c].queue = startingQueue'[c] % NumThreads
  <2>1. Same
    BY <1>12 DEF Dispatch, Begin, Goto, TypeOK
  <2> QED BY <1>1, <2>1
<1> QED BY <1>2, <1>3, <1>4, <1>5, <1>6, <1>7, <1>8, <1>9, <1>10, <1>11, <1>12,
           StepCases

\* Somebody is going to look at queue q.
Watched(q) ==
  queue[q] = <<>> \/ pc[Main] = "post"
  \/ \E c \in Threads : WillWork(c) \/ WillLook(c, q)

\* A thread that is where it was still watches what it watched.
LEMMA StillLooks ==
  ASSUME NEW c, NEW q,
         pc'[c] = pc[c], startingQueue'[c] = startingQueue[c],
         visits'[c] = visits[c], view'[c] = view[c]
  PROVE  WillLook(c, q)' <=> WillLook(c, q)
BY DEF WillLook

\* A thread that enters Work comes to every queue.
LEMMA EnterCovers ==
  ASSUME StartsCover, TypeOK, NEW c \in Threads, NEW s \in StartValues \union Workers,
         EnterWork(c, s), NEW q \in Workers
  PROVE  WillLook(c, q)'
<1>1. startingQueue'[c] = s /\ visits'[c] = NumThreads /\ pc'[c] = "next"
  BY DEF EnterWork, Goto, TypeOK
<1>2. Visits(c, q)'
  BY <1>1 DEF StartsCover, Visits
<1> QED BY <1>1, <1>2, WillLookIs

\* A thread that looked at its queue in vain has the others left.
LEMMA GiveUpMovesOn ==
  ASSUME TypeOK, NEW c \in Threads, PopFrontGiveUp(c), NEW q, VisitsNext(c, q)
  PROVE  Visits(c, q)'
<1>1. /\ startingQueue'[c] = (startingQueue[c] + 1) % WordSize
      /\ visits'[c] = visits[c] - 1
  BY DEF PopFrontGiveUp, TypeOK
<1>2. visits[c] \in Nat /\ startingQueue[c] \in Word
  BY FirstVisit
<1>3. PICK k \in 1 .. visits[c] - 1 :
        q = ((startingQueue[c] + k) % WordSize) % NumThreads
  BY DEF VisitsNext
<1>4. k \in Nat \ {0} /\ k - 1 \in 0 .. visits'[c] - 1
  BY <1>1, <1>2
<1>5. ((startingQueue'[c] + (k - 1)) % WordSize) % NumThreads = q
  BY <1>1, <1>2, <1>3, <1>4, OneFurther
<1> QED BY <1>4, <1>5 DEF Visits

LEMMA StrandStep ==
  ASSUME StartsCover, TypeOK, Control, TypeOK', LooksRight, [PunctualNext]_vars,
         NEW q \in Workers, Watched(q), IsAlive'
  PROVE  Watched(q)'
<1> USE DEF mainVars, queueVars, workVars
<1> USE LabelsIn
\* The steps of one thread c that leave the queues as they are.
<1>1. ASSUME NEW c \in Threads, UNCHANGED <<queue, semaphore>>,
             pc[c] # "post",
             \A b \in Threads : b # c =>
               /\ pc'[b] = pc[b] /\ startingQueue'[b] = startingQueue[b]
               /\ visits'[b] = visits[b] /\ view'[b] = view[b],
             WillWork(c) \/ WillLook(c, q) =>
               queue[q] = <<>> \/ WillWork(c)' \/ WillLook(c, q)'
      PROVE  Watched(q)'
  <2>1. CASE queue[q] = <<>> \/ pc[Main] = "post"
    BY <1>1, <2>1 DEF Watched
  <2>2. ASSUME NEW b \in Threads, WillWork(b) \/ WillLook(b, q), b # c
        PROVE  WillWork(b)' \/ WillLook(b, q)'
    <3>1. WillWork(b) => WillWork(b)'
      BY <1>1, <2>2 DEF WillWork
    <3>2. WillLook(b, q)' <=> WillLook(b, q)
      BY <1>1, <2>2, StillLooks
    <3> QED BY <2>2, <3>1, <3>2
  <2> QED BY <1>1, <2>1, <2>2 DEF Watched
<1>2. CASE UNCHANGED vars
  BY <1>1, <1>2, StillLooks DEF vars, WillWork, Watched
<1>3. CASE StartThread
  <2>1. PICK w \in Workers : pc'[w] = "check"
    BY <1>3 DEF StartThread, TypeOK
  <2> QED BY <2>1 DEF Watched, WillWork
<1>4. CASE Shutdown
  BY <1>4 DEF Shutdown
<1>5. CASE PushBack /\ Punctual'
  BY <1>5 DEF PushBack, Goto, TypeOK, Watched
<1>6. CASE PostPushed
  <2>1. semaphore'[target] > 0 /\ target \in Workers
    BY <1>6 DEF PostPushed, TypeOK
  <2> QED BY <2>1 DEF Watched, WillWork
<1>7. CASE WakeThread
  <2>1. GroupId \in Workers
    BY <1>7 DEF WakeThread, Workers, TypeOK
  <2>2. semaphore'[GroupId] > 0
    BY <1>7, <2>1 DEF WakeThread, TypeOK
  <2> QED BY <2>1, <2>2 DEF Watched, WillWork
<1>8. CASE MainEnterWork
  <2>1. NextQueueIndex % NumThreads \in Workers
    BY ModInWord DEF TypeOK
  <2>2. EnterWork(Main, NextQueueIndex % NumThreads)
    BY <1>8 DEF MainEnterWork
  <2>3. WillLook(Main, q)'
    BY <2>1, <2>2, EnterCovers
  <2> QED BY <2>3 DEF Watched
<1>9. CASE HandleBusy \/ WaitDone \/ (\E h \in Handles : JobHandleWait(h))
           \/ (\E h \in Handles, n, g \in Word \ {0} : Dispatch(h, n, g))
  <2>1. /\ UNCHANGED <<queue, semaphore, startingQueue, visits, view>>
        /\ pc[Main] \in {"busy", "spin", "ready"}
        /\ \E label \in Labels : pc' = [pc EXCEPT ![Main] = label]
    BY <1>9 DEF HandleBusy, WaitDone, JobHandleWait, Dispatch, Begin, Goto, Labels
  <2>2. \A b \in Threads : b # Main => pc'[b] = pc[b]
    BY <2>1 DEF TypeOK
  <2>3. ~ WillLook(Main, q)
    BY <2>1 DEF WillLook
  <2>4. ~ WillWork(Main)
    BY <2>1 DEF WillWork
  <2> QED BY <1>1, <2>1, <2>2, <2>3, <2>4
<1>10. ASSUME NEW w \in Workers, WorkerCheck(w) \/ WorkerEnd(w) \/ WorkerWake(w)
       PROVE  Watched(q)'
  <2>1. CASE WorkerCheck(w)
    <3>1. PICK s \in StartValues : EnterWork(w, s)
      BY <2>1 DEF WorkerCheck
    <3>2. WillLook(w, q)'
      BY <3>1, EnterCovers
    <3> QED BY <3>2 DEF Watched
  <2>2. CASE WorkerEnd(w)
    BY <2>2 DEF WorkerEnd
  <2>3. CASE WorkerWake(w)
    <3>1. pc'[w] = "check"
      BY <2>3 DEF WorkerWake, Goto, TypeOK
    <3> QED BY <3>1 DEF Watched, WillWork
  <2> QED BY <1>10, <2>1, <2>2, <2>3
<1>11. ASSUME NEW c \in Threads, LeaveWork(c) PROVE Watched(q)'
  <2>1. /\ pc[c] = "next" /\ visits[c] = 0
        /\ UNCHANGED <<queue, semaphore, visits, view>>
        /\ \A b \in Threads : b # c =>
             pc'[b] = pc[b] /\ startingQueue'[b] = startingQueue[b]
    BY <1>11 DEF LeaveWork, Goto, TypeOK
  <2>2. ~ Visits(c, q)
    BY <2>1 DEF Visits
  <2>3. ~ WillLook(c, q)
    BY <2>1, <2>2, WillLookIs
  <2>4. WillWork(c) => WillWork(c)'
    BY <2>1 DEF WillWork
  <2> QED BY <1>1, <2>1, <2>3, <2>4
<1>12. ASSUME NEW c \in Threads, PopFrontLook(c) PROVE Watched(q)'
  <2>1. /\ pc[c] = "next" /\ pc'[c] = "looking"
        /\ view'[c] = [queue |-> startingQueue[c] % NumThreads, stale |-> FALSE]
        /\ UNCHANGED <<queue, semaphore, visits, startingQueue>>
        /\ \A b \in Threads : b # c => pc'[b] = pc[b] /\ view'[b] = view[b]
    BY <1>12 DEF PopFrontLook, Queues!Look, Goto, TypeOK
  <2>2. VisitsNext(c, q)' <=> VisitsNext(c, q)
    BY <2>1 DEF VisitsNext
  <2>3. WillLook(c, q) => WillLook(c, q)'
    BY <2>1, <2>2, FirstVisit, WillLookIs
  <2>4. WillWork(c) => WillWork(c)'
    BY <2>1 DEF WillWork
  <2> QED BY <1>1, <2>1, <2>3, <2>4
<1>13. ASSUME NEW c \in Threads, PopFrontClaim(c) PROVE Watched(q)'
  <2> SUFFICES ASSUME NEW v, v = view[c].queue PROVE Watched(q)'
    OBVIOUS
  <2>1. /\ pc[c] = "looking" /\ pc'[c] = "copying"
        /\ UNCHANGED <<semaphore, visits, startingQueue>>
        /\ \A b \in Threads : b # c => pc'[b] = pc[b]
    BY <1>13 DEF PopFrontClaim, Goto, TypeOK
  <2>2. /\ queue' = [queue EXCEPT ![v] = Tail(@)]
        /\ \A b \in Threads :
             view'[b] = IF b = c THEN NoView
                        ELSE IF view[b] # NoView /\ view[b].queue = v
                             THEN [queue |-> v, stale |-> TRUE]
                             ELSE view[b]
    BY <1>13 DEF PopFrontClaim, Queues!Claim
  <2>3. visits[c] > 0
    BY <2>1 DEF Control
  <2>4. CASE q = v
    <3>1. q = startingQueue[c] % NumThreads
      BY <2>1, <2>4 DEF LooksRight
    <3>2. Visits(c, q)
      BY <2>3, <3>1, FirstVisit DEF Visits
    <3>3. Visits(c, q)'
      BY <2>1, <3>2 DEF Visits
    <3>4. WillLook(c, q)'
      BY <2>1, <3>3, WillLookIs
    <3> QED BY <3>4 DEF Watched
  <2>5. CASE q # v
    <3>1. queue'[q] = queue[q] /\ pc[c] # "post"
      BY <2>1, <2>2, <2>5 DEF TypeOK
    <3>2. CASE queue[q] = <<>> \/ pc[Main] = "post"
      <4>1. pc[Main] = "post" => pc'[Main] = "post"
        BY <2>1
      <4> QED BY <3>1, <3>2, <4>1 DEF Watched
    <3>3. ASSUME NEW b \in Threads, WillWork(b) PROVE Watched(q)'
      <4>1. WillWork(b)'
        BY <2>1, <3>3 DEF WillWork
      <4> QED BY <4>1 DEF Watched
    <3>4. ASSUME NEW b \in Threads, WillLook(b, q) PROVE Watched(q)'
      <4>1. Visits(b, q)' <=> Visits(b, q)
        BY <2>1 DEF Visits
      <4>2. VisitsNext(b, q)' <=> VisitsNext(b, q)
        BY <2>1 DEF VisitsNext
      <4>3. CASE b = c
        <5>1. VisitsNext(c, q)
          BY <2>1, <2>5, <3>4, <4>3, WillLookIs
        <5>2. Visits(c, q)'
          BY <4>1, <4>3, <5>1, FirstVisit
        <5>3. WillLook(c, q)'
          BY <2>1, <5>2, WillLookIs
        <5> QED BY <5>3 DEF Watched
      <4>4. CASE b # c
        <5>1. pc'[b] = pc[b]
          BY <2>1, <4>4
        <5>2. pc[b] = "looking" /\ view[b].queue = q => view'[b] = view[b]
          BY <2>2, <2>5, <4>4
        <5>3. WillLook(b, q)'
          BY <3>4, <4>1, <4>2, <5>1, <5>2, WillLookIs
        <5> QED BY <5>3 DEF Watched
      <4> QED BY <4>3, <4>4
    <3> QED BY <3>2, <3>3, <3>4 DEF Watched
  <2> QED BY <2>4, <2>5
<1>14. ASSUME NEW c \in Threads, PopFrontGiveUp(c) PROVE Watched(q)'
  <2>1. /\ pc[c] = "looking" /\ pc'[c] = "next"
        /\ view[c].stale \/ queue[view[c].queue] = <<>>
        /\ UNCHANGED <<queue, semaphore>>
        /\ \A b \in Threads : b # c =>
             /\ pc'[b] = pc[b] /\ startingQueue'[b] = startingQueue[b]
             /\ visits'[b] = visits[b] /\ view'[b] = view[b]
    BY <1>14 DEF PopFrontGiveUp, Queues!GiveUp, Goto, TypeOK
  <2>2. VisitsNext(c, q) => Visits(c, q)'
    BY <1>14, GiveUpMovesOn
  <2>3. WillLook(c, q) => queue[q] = <<>> \/ WillLook(c, q)'
    BY <2>1, <2>2, WillLookIs
  <2>4. WillWork(c) => WillWork(c)'
    BY <2>1 DEF WillWork
  <2> QED BY <1>1, <2>1, <2>3, <2>4
<1>15. ASSUME NEW c \in Threads, RunJob(c) PROVE Watched(q)'
  <2>1. UNCHANGED <<queue, semaphore, pc, startingQueue, visits, view>>
    BY <1>15 DEF RunJob
  <2>2. \A b \in Threads : /\ WillLook(b, q)' <=> WillLook(b, q)
                           /\ WillWork(b)' <=> WillWork(b)
    BY <2>1, StillLooks DEF WillWork
  <2> QED BY <2>1, <2>2 DEF Watched
<1>16. ASSUME NEW c \in Threads, PopFrontCopy(c) \/ FinishGroup(c)
       PROVE  Watched(q)'
  <2>1. /\ pc[c] \in {"copying", "run"} /\ pc'[c] \in {"next", "run"}
        /\ UNCHANGED <<queue, semaphore, startingQueue, visits, view>>
        /\ \A b \in Threads : b # c => pc'[b] = pc[b]
    BY <1>16 DEF PopFrontCopy, Queues!Copy, FinishGroup, Goto, TypeOK
  <2>2. Visits(c, q)' <=> Visits(c, q)
    BY <2>1 DEF Visits
  <2>3. WillLook(c, q) => WillLook(c, q)'
    BY <2>1, <2>2, WillLookIs
  <2>4. WillWork(c) => WillWork(c)'
    BY <2>1 DEF WillWork
  <2> QED BY <1>1, <2>1, <2>3, <2>4
<1> QED BY <1>2, <1>3, <1>4, <1>5, <1>6, <1>7, <1>8, <1>9, <1>10, <1>11, <1>12,
           <1>13, <1>14, <1>15, <1>16, StepCases

LEMMA StrandInvInit == Init => StrandInv
<1> SUFFICES ASSUME Init PROVE StrandInv
  OBVIOUS
<1>1. LooksRight
  BY DEF Init, LooksRight
<1>2. NoStrandedJob
  BY DEF Init, Queues!Init, NoStrandedJob
<1> QED BY <1>1, <1>2, InvInit DEF StrandInv

LEMMA StrandInvStep ==
  ASSUME StrandInv, StartsCover, [PunctualNext]_vars
  PROVE  StrandInv'
<1>1. IInv /\ TypeOK /\ Control /\ LooksRight /\ NoStrandedJob
  BY DEF StrandInv, IInv
<1>2. IInv' /\ TypeOK'
  BY <1>1, InvStep DEF IInv
<1>3. LooksRight'
  BY <1>1, <1>2, LooksStep
<1>4. IsAlive' => IsAlive
  <2> USE DEF mainVars, queueVars, workVars
  <2>1. CASE UNCHANGED vars
    BY <2>1 DEF vars
  <2>2. CASE StartThread \/ Shutdown \/ PushBack \/ PostPushed
             \/ HandleBusy \/ WakeThread \/ MainEnterWork \/ WaitDone
    BY <2>2 DEF StartThread, Shutdown, PushBack, PostPushed, HandleBusy, WakeThread,
                MainEnterWork, WaitDone
  <2>3. CASE \E c \in Threads :
               \/ LeaveWork(c) \/ PopFrontLook(c) \/ PopFrontClaim(c)
               \/ PopFrontCopy(c) \/ PopFrontGiveUp(c) \/ RunJob(c) \/ FinishGroup(c)
    BY <2>3 DEF LeaveWork, PopFrontLook, PopFrontClaim, PopFrontCopy, PopFrontGiveUp,
                RunJob, FinishGroup
  <2>4. CASE \E w \in Workers : WorkerCheck(w) \/ WorkerEnd(w) \/ WorkerWake(w)
    BY <2>4 DEF WorkerCheck, WorkerEnd, WorkerWake
  <2>5. CASE \/ \E h \in Handles : JobHandleWait(h)
             \/ \E h \in Handles, n, g \in Word \ {0} : Dispatch(h, n, g)
    BY <2>5 DEF JobHandleWait, Dispatch, Begin
  <2> QED BY <2>1, <2>2, <2>3, <2>4, <2>5, StepCases
<1>5. NoStrandedJob'
  <2> SUFFICES ASSUME IsAlive', NEW q \in Workers PROVE Watched(q)'
    BY DEF NoStrandedJob, Watched
  <2>1. Watched(q)
    BY <1>1, <1>4 DEF NoStrandedJob, Watched
  <2> QED BY <1>1, <1>2, <2>1, StrandStep
<1> QED BY <1>2, <1>3, <1>5 DEF StrandInv

\* No wakeup is lost, for any number of workers: while the system is alive, a
\* job in a queue has a thread that is going to look there, or main is about to
\* post a semaphore.  The walk of Work over the queues must meet all of them
\* from where it starts: see DivisorCovers and SmallStartsCover.
THEOREM NoJobIsStranded == StartsCover => (PunctualSpec => []NoStrandedJob)
<1> SUFFICES ASSUME StartsCover PROVE PunctualSpec => []NoStrandedJob
  OBVIOUS
<1>1. StrandInv /\ [PunctualNext]_vars => StrandInv'
  BY StrandInvStep
<1>2. StrandInv => NoStrandedJob
  BY DEF StrandInv
<1> QED BY <1>1, <1>2, StrandInvInit, PTL DEF PunctualSpec
-----------------------------------------------------------------------------
(* The promise of the job system to its caller. *)

Submitted ==
  {t \in Tasks : /\ t.dispatch \in DOMAIN dispatches
                 /\ t.handle = dispatches[t.dispatch].handle
                 /\ t.index < dispatches[t.dispatch].jobCount}

Executed ==
  {t \in Tasks : /\ t.dispatch \in DOMAIN dispatches
                 /\ t.handle = dispatches[t.dispatch].handle
                 /\ runs[t.dispatch][t.index] > 0}

LEMMA PromiseInit == Init => Promise!Init
<1> SUFFICES ASSUME Init PROVE Promise!Init
  OBVIOUS
<1>1. DOMAIN dispatches = {} /\ waiting = NoHandle
  BY EmptySeq, LenProperties DEF Init
<1> QED BY <1>1 DEF Promise!Init

\* A job that waits with its group has not run, any other has.
LEMMA JobsRun ==
  ASSUME RunInv, NEW t \in Submitted
  PROVE  \E g : /\ IsJob(t.dispatch, t.index, g)
                /\ g.handle = t.handle
                /\ runs[t.dispatch][t.index] = IF Waits(g, t.index) THEN 0 ELSE 1
<1> SUFFICES ASSUME NEW d, d = t.dispatch, NEW j, j = t.index,
                    NEW g, g = Group(d, j \div dispatches[d].groupSize)
             PROVE  /\ IsJob(d, j, g) /\ g.handle = t.handle
                    /\ runs[d][j] = IF Waits(g, j) THEN 0 ELSE 1
  OBVIOUS
<1>1. TypeOK /\ Cut /\ JobsRunOnce
  BY DEF RunInv, IInv
<1>2. /\ d \in 1 .. Len(dispatches) /\ j \in JobIndices
      /\ t.handle = dispatches[d].handle /\ j < dispatches[d].jobCount
  <2>1. DOMAIN dispatches = 1 .. Len(dispatches)
    BY <1>1, LenProperties DEF TypeOK
  <2>2. /\ t \in Tasks /\ d \in DOMAIN dispatches
        /\ t.handle = dispatches[d].handle /\ j < dispatches[d].jobCount
    BY DEF Submitted
  <2> QED BY <2>1, <2>2 DEF Tasks
<1>3. j \in Nat /\ ~ j >= dispatches[d].jobCount
  <2>1. dispatches[d].jobCount \in Nat /\ j \in Nat
    BY <1>1, <1>2, DispatchType DEF JobIndices, Word
  <2> QED BY <1>2, <2>1
<1>4. /\ IsGroup(g) /\ g.dispatch = d
      /\ g.groupJobOffset \in Nat /\ g.groupJobEnd \in Nat
      /\ g.groupJobOffset <= j /\ j < g.groupJobEnd
  BY <1>1, <1>2, JobsGroup
<1>5. g \in Groups
  <2>1. \A e \in 1 .. Len(dispatches) :
          \A id \in 0 .. dispatches[e].groupCount - 1 : Group(e, id) \in Groups
    BY <1>1, GroupType
  <2> QED BY <1>4, <2>1 DEF IsGroup
<1>6. g # NoJob
  BY <1>5, NoJobAssumption
<1>7. IsJob(d, j, g)
  BY <1>2, <1>3, <1>4, <1>5, <1>6 DEF IsJob
<1>8. g.handle = t.handle
  BY <1>2 DEF Group
<1>9. runs[d][j] = IF Waits(g, j) THEN 0 ELSE 1
  BY <1>1, <1>2, <1>3 DEF JobsRunOnce, Waits
<1> QED BY <1>7, <1>8, <1>9

\* A dispatch submits jobs, and executes none.
LEMMA DispatchSubmits ==
  ASSUME RunInv, NEW h \in Handles, NEW n \in Word \ {0}, NEW s \in Word \ {0},
         Dispatch(h, n, s)
  PROVE  Promise!Submit
<1> SUFFICES ASSUME NEW m, m = JobsDispatchGroupCount(n, s),
                    NEW call, call = [handle |-> h, jobCount |-> n,
                                      groupSize |-> s, groupCount |-> m]
             PROVE  Promise!Submit
  OBVIOUS
<1>1. TypeOK /\ Control /\ Fresh
  BY DEF RunInv, IInv
<1>2. /\ pc[Main] = "ready" /\ Len(dispatches) < MaxCalls
      /\ dispatches' = Append(dispatches, call)
      /\ UNCHANGED <<runs, waiting>>
  BY DEF Dispatch, Begin
<1>3. waiting = NoHandle
  BY <1>1, <1>2 DEF Control, WaitLabels, WorkLabels
<1>4. /\ Len(dispatches) \in Nat
      /\ DOMAIN dispatches = 1 .. Len(dispatches)
      /\ DOMAIN dispatches' = 1 .. Len(dispatches) + 1
      /\ \A d \in 1 .. Len(dispatches) : dispatches'[d] = dispatches[d]
  <2>1. m \in Word
    BY GroupCountInWord
  <2>2. call \in Dispatches
    BY <2>1 DEF Dispatches
  <2> QED BY <1>1, <1>2, <2>2, AppendProperties, LenProperties DEF TypeOK
<1>5. \A d \in 1 .. Len(dispatches) + 1 : d \in 1 .. Len(dispatches) \/ d = Len(dispatches) + 1
  BY <1>4
<1>6. \A d \in 1 .. Len(dispatches) : d \in 1 .. Len(dispatches) + 1
  BY <1>4
<1>7. Submitted \subseteq Submitted'
  BY <1>4, <1>6 DEF Submitted
<1>8. Len(dispatches) + 1 \in Len(dispatches) + 1 .. MaxCalls
  BY <1>2, <1>4, CallsAssumption
<1>9. \A t \in Tasks : t.dispatch = Len(dispatches) + 1 => ~ runs[t.dispatch][t.index] > 0
  BY <1>1, <1>8 DEF Fresh, Tasks
<1>10. Executed' = Executed
  BY <1>2, <1>4, <1>5, <1>6, <1>9 DEF Executed
<1>11. Submitted' \in SUBSET Tasks
  BY DEF Submitted
<1> QED BY <1>2, <1>3, <1>7, <1>10, <1>11 DEF Promise!Submit, Submitted, Executed

\* A turn of the loop over a group's jobs executes one that was not executed.
LEMMA RunExecutes ==
  ASSUME RunInv, NEW c \in Threads, RunStep(c), UNCHANGED waiting
  PROVE  \E t \in Tasks : Promise!Execute(t)
<1> SUFFICES ASSUME NEW g, g = job[c], NEW k, k = jobIndex[c],
                    NEW t, t = [handle |-> g.handle, dispatch |-> g.dispatch, index |-> k]
             PROVE  \E x \in Tasks : Promise!Execute(x)
  OBVIOUS
<1>1. TypeOK /\ Places /\ Cut /\ InGroup
  BY DEF RunInv, IInv
<1>2. /\ g # NoJob /\ k < g.groupJobEnd /\ c \in AtRun
      /\ runs' = [runs EXCEPT ![g.dispatch][k] = @ + 1]
      /\ UNCHANGED dispatches
  BY DEF RunStep
<1>3. g \in Running /\ g \notin NotStarted
  <2>1. g \in Running
    BY <1>2 DEF Running
  <2> QED BY <1>1, <2>1 DEF Places, OnePlace
<1>4. IsGroup(g) /\ g \in Groups
  <2>1. IsGroup(g)
    BY <1>1, <1>3 DEF Places, Known, Open
  <2> QED BY <1>1, <2>1, GroupType DEF IsGroup
<1>5. g.groupJobOffset \in Nat /\ g.groupJobEnd \in Nat
  BY <1>1, <1>4, GroupsJobs
<1>6. k \in g.groupJobOffset .. g.groupJobEnd /\ k \in Nat /\ g.groupJobOffset <= k
  BY <1>1, <1>2, <1>5 DEF InGroup
<1>7. /\ k \in JobIndices /\ k < dispatches[g.dispatch].jobCount
      /\ g = Group(g.dispatch, k \div dispatches[g.dispatch].groupSize)
  BY <1>1, <1>2, <1>4, <1>6, GroupsJobs
<1>8. /\ g.dispatch \in 1 .. Len(dispatches) /\ g.dispatch \in 1 .. MaxCalls
      /\ DOMAIN dispatches = 1 .. Len(dispatches)
  BY <1>1, <1>4, DispatchType, LenProperties DEF IsGroup, TypeOK
<1>9. g.handle = dispatches[g.dispatch].handle /\ g.handle \in Handles
  <2>1. g.handle = dispatches[g.dispatch].handle
    BY <1>7 DEF Group
  <2> QED BY <1>4, <2>1 DEF Groups
<1>10. /\ t \in Tasks /\ t.handle = g.handle /\ t.dispatch = g.dispatch /\ t.index = k
  BY <1>7, <1>8, <1>9 DEF Tasks
<1>11. t \in Submitted
  BY <1>7, <1>8, <1>9, <1>10 DEF Submitted
<1>12. runs[g.dispatch][k] = 0
  <2>1. ~ RunBy(g, k)
    <3>1. \A b \in Threads : job[b] = g => b = c
      BY <1>1, <1>2 DEF Places, OnePlace, RunByOne
    <3> QED BY <1>6, <3>1 DEF RunBy
  <2>2. JobsRunOnce
    BY DEF RunInv
  <2> QED BY <1>3, <1>7, <1>8, <2>1, <2>2 DEF JobsRunOnce
<1>13. /\ runs'[g.dispatch][k] = 1
       /\ \A d \in 1 .. MaxCalls, j \in JobIndices :
            ~ (d = g.dispatch /\ j = k) => runs'[d][j] = runs[d][j]
  <2>1. runs'[g.dispatch][k] = runs[g.dispatch][k] + 1
    BY <1>1, <1>2, <1>7, <1>8 DEF TypeOK
  <2>2. \A d \in 1 .. MaxCalls, j \in JobIndices :
            ~ (d = g.dispatch /\ j = k) => runs'[d][j] = runs[d][j]
    BY <1>1, <1>2, <1>7, <1>8 DEF TypeOK
  <2> QED BY <1>12, <2>1, <2>2
<1>14. t \notin Executed
  BY <1>10, <1>12 DEF Executed
<1>15. Executed' = Executed \union {t}
  <2>1. t \in Executed'
    BY <1>2, <1>8, <1>9, <1>10, <1>13 DEF Executed
  <2>2. ASSUME NEW x \in Tasks, x.dispatch \in DOMAIN dispatches,
               x.handle = dispatches[x.dispatch].handle, x # t
        PROVE  runs'[x.dispatch][x.index] = runs[x.dispatch][x.index]
    <3>1. x = [handle |-> x.handle, dispatch |-> x.dispatch, index |-> x.index]
      BY DEF Tasks
    <3>2. ~ (x.dispatch = g.dispatch /\ x.index = k)
      BY <1>9, <2>2, <3>1
    <3> QED BY <1>13, <3>2 DEF Tasks
  <2>3. \A x \in Tasks : x # t => (x \in Executed' <=> x \in Executed)
    BY <1>2, <2>2 DEF Executed
  <2>4. Executed' \subseteq Tasks /\ Executed \subseteq Tasks
    BY DEF Executed
  <2> QED BY <1>10, <2>1, <2>3, <2>4
<1>16. Submitted' = Submitted
  BY <1>2 DEF Submitted
<1> QED BY <1>10, <1>11, <1>14, <1>15, <1>16
        DEF Promise!Execute, Submitted, Executed

\* When the counter of a handle is 0, none of its groups is open.
LEMMA WaitIsOver ==
  ASSUME RunInv, WaitDone
  PROVE  Promise!Return
<1>1. TypeOK /\ Control /\ Places
  BY DEF RunInv, IInv
<1>2. /\ pc[Main] \in {"busy", "spin"} /\ counter[waiting] <= 0
      /\ waiting' = NoHandle /\ UNCHANGED <<dispatches, runs>>
  BY DEF WaitDone, mainVars
<1>3. waiting # NoHandle /\ waiting \in Handles
  BY <1>1, <1>2 DEF Control, WaitLabels, TypeOK
<1> DEFINE Mine == {g \in Open : g.handle = waiting}
<1>4. counter[waiting] = Cardinality(Mine) /\ IsFiniteSet(Mine)
  <2>1. counter[waiting] = Cardinality(Mine)
    BY <1>1, <1>3 DEF Places, CounterExact, Open
  <2>2. IsFiniteSet(Mine)
    BY <1>1, FS_Subset DEF Places
  <2> QED BY <2>1, <2>2
<1> HIDE DEF Mine
<1>5. Mine = {}
  BY <1>2, <1>4, FS_CardinalityType, FS_EmptySet
<1>6. ASSUME NEW t \in Submitted, t.handle = waiting
      PROVE  t \in Executed
  <2>1. PICK g : /\ IsJob(t.dispatch, t.index, g) /\ g.handle = t.handle
                 /\ runs[t.dispatch][t.index] = IF Waits(g, t.index) THEN 0 ELSE 1
    BY JobsRun
  <2>2. g \notin Open
    BY <1>5, <1>6, <2>1 DEF Mine
  <2>3. ~ Waits(g, t.index)
    BY <2>2 DEF Waits, Open
  <2> QED BY <2>1, <2>3 DEF Submitted, Executed
<1>7. Submitted' = Submitted /\ Executed' = Executed
  BY <1>2 DEF Submitted, Executed
<1> QED BY <1>2, <1>3, <1>6, <1>7 DEF Promise!Return, Submitted, Executed

LEMMA PromiseStep ==
  ASSUME RunInv, [PunctualNext]_vars
  PROVE  [Promise!Next]_Promise!systemVars
<1> DEFINE Stutter == UNCHANGED <<dispatches, runs, waiting>>
<1>1. Stutter => UNCHANGED Promise!systemVars
  BY DEF Promise!systemVars
<1>2. TypeOK /\ Control
  BY DEF RunInv, IInv
<1> USE DEF mainVars, queueVars, workVars
<1>3. CASE UNCHANGED vars
  BY <1>1, <1>3 DEF vars
<1>4. CASE StartThread \/ Shutdown \/ PushBack \/ PostPushed
           \/ HandleBusy \/ WakeThread \/ MainEnterWork
  <2>1. Stutter
    BY <1>4 DEF StartThread, Shutdown, PushBack, PostPushed, HandleBusy, WakeThread,
                MainEnterWork
  <2> QED BY <1>1, <2>1
<1>5. CASE WaitDone
  BY <1>5, WaitIsOver DEF Promise!Next
<1>6. ASSUME NEW c \in Threads,
             \/ LeaveWork(c) \/ PopFrontLook(c) \/ PopFrontClaim(c)
             \/ PopFrontCopy(c) \/ PopFrontGiveUp(c) \/ FinishGroup(c)
      PROVE  Stutter
  BY <1>6 DEF LeaveWork, PopFrontLook, PopFrontClaim, PopFrontCopy, PopFrontGiveUp,
              FinishGroup
<1>7. ASSUME NEW c \in Threads, RunJob(c) PROVE Promise!Next
  <2>1. /\ RunStep(c) /\ UNCHANGED waiting
    <3>1. UNCHANGED <<queue, job, counter, dropped, dispatches, GroupId, pc, waiting>>
      BY <1>7 DEF RunJob
    <3>2. NotPushed' = NotPushed
      BY <3>1, SameToPush
    <3>3. c \in AtRun /\ AtRun' = AtRun
      BY <1>7, <3>1 DEF RunJob, AtRun
    <3> QED BY <1>2, <1>7, <3>1, <3>2, <3>3 DEF RunStep, RunJob, Control
  <2> QED BY <2>1, RunExecutes DEF Promise!Next
<1>8. ASSUME NEW w \in Workers, WorkerCheck(w) \/ WorkerEnd(w) \/ WorkerWake(w)
      PROVE  Stutter
  BY <1>8 DEF WorkerCheck, WorkerEnd, WorkerWake
<1>9. ASSUME NEW h \in Handles, JobHandleWait(h) PROVE Promise!Next
  <2>1. pc[Main] = "ready" /\ waiting' = h /\ UNCHANGED <<dispatches, runs>>
    BY <1>9 DEF JobHandleWait
  <2>2. waiting = NoHandle
    BY <1>2, <2>1 DEF Control, WaitLabels, WorkLabels
  <2> QED BY <2>1, <2>2 DEF Promise!Next, Promise!Wait
<1>10. ASSUME NEW h \in Handles, NEW n \in Word \ {0}, NEW s \in Word \ {0},
              Dispatch(h, n, s)
       PROVE  Promise!Next
  BY <1>10, DispatchSubmits DEF Promise!Next
<1> QED BY <1>1, <1>3, <1>4, <1>5, <1>6, <1>7, <1>8, <1>9, <1>10, StepCases

\* The job system keeps its promise to the caller: a job is executed at most
\* once and only after it was submitted, and a wait returns only when every
\* job submitted under its handle has been executed.
THEOREM JobsKeepThePromise == CallsFit => (PunctualSpec => ImplementsJobSystem)
<1> SUFFICES ASSUME CallsFit PROVE PunctualSpec => ImplementsJobSystem
  OBVIOUS
<1>1. RunInv /\ [PunctualNext]_vars => RunInv'
  BY RunInvStep
<1>2. RunInv /\ [PunctualNext]_vars => [Promise!Next]_Promise!systemVars
  BY PromiseStep
<1> QED BY <1>1, <1>2, RunInvInit, PromiseInit, PTL
        DEF PunctualSpec, ImplementsJobSystem, Promise!Spec

=============================================================================

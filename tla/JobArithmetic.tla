--------------------------- MODULE JobArithmetic ---------------------------
(***************************************************************************)
(* The arithmetic of src/Lib/Jobs.h, on unsigned words of WordSize values: *)
(* how many worker threads there are, how a dispatch of jobCount jobs is   *)
(* cut into groups of groupSize, and what a job is told about its place.   *)
(***************************************************************************)
EXTENDS Integers

CONSTANT WordSize   \* 2^32 in the code

ASSUME WordSizeAssumption == WordSize \in Nat \ {0, 1}

Word == 0 .. WordSize - 1

-----------------------------------------------------------------------------
(* JobsInitialize. *)

\* The subtraction is done on u32, before the clamp.
NumThreadsFor(threadCount, maxThreadCount) ==
  LET free == (threadCount - 2) % WordSize
      atLeastOne == IF 1 > free THEN 1 ELSE free
  IN IF maxThreadCount < atLeastOne THEN maxThreadCount ELSE atLeastOne

-----------------------------------------------------------------------------
(* JobsDispatch. *)

JobsDispatchGroupCount(jobCount, groupSize) ==
  ((jobCount + groupSize - 1) % WordSize) \div groupSize

GroupJobOffset(groupSize, GroupId) == (GroupId * groupSize) % WordSize

GroupJobEnd(jobCount, groupSize, GroupId) ==
  LET end == (GroupJobOffset(groupSize, GroupId) + groupSize) % WordSize IN
  IF end < jobCount THEN end ELSE jobCount

GroupIds(jobCount, groupSize) ==
  0 .. JobsDispatchGroupCount(jobCount, groupSize) - 1

\* The job indices that the loop of Work runs for a group.
GroupJobs(jobCount, groupSize, GroupId) ==
  GroupJobOffset(groupSize, GroupId)
    .. GroupJobEnd(jobCount, groupSize, GroupId) - 1

\* The JobArgs of job j.
GroupIndex(groupSize, GroupId, j) == j - GroupJobOffset(groupSize, GroupId)

IsFirstJobInGroup(groupSize, GroupId, j) ==
  j = GroupJobOffset(groupSize, GroupId)

IsLastJobInGroup(jobCount, groupSize, GroupId, j) ==
  j = GroupJobEnd(jobCount, groupSize, GroupId) - 1

-----------------------------------------------------------------------------
(* Properties of a dispatch. *)

\* The sum that JobsDispatchGroupCount rounds up with does not wrap.
NoOverflow(jobCount, groupSize) == jobCount + groupSize - 1 < WordSize

\* The groups of a dispatch cut 0 .. jobCount - 1 into non-empty pieces: every
\* job is in exactly one group, no group has more than groupSize jobs, and
\* only the last one has fewer.
GroupsPartitionJobs(jobCount, groupSize) ==
  LET Ids == GroupIds(jobCount, groupSize) IN
  /\ \A j \in 0 .. jobCount - 1 :
       \E id \in Ids : j \in GroupJobs(jobCount, groupSize, id)
  /\ \A id \in Ids :
       \A j \in GroupJobs(jobCount, groupSize, id) :
         /\ j \in 0 .. jobCount - 1
         /\ \A other \in Ids :
              j \in GroupJobs(jobCount, groupSize, other) => other = id
  /\ \A id \in Ids :
       LET size == GroupJobEnd(jobCount, groupSize, id)
                     - GroupJobOffset(groupSize, id)
       IN 0 < size /\ size <= groupSize
          /\ (size < groupSize => id = JobsDispatchGroupCount(jobCount, groupSize) - 1)

\* In every group one job is told that it is the first, one that it is the
\* last, and the group indices count from 0 to the last one.
GroupFlagsRight(jobCount, groupSize) ==
  \A id \in GroupIds(jobCount, groupSize) :
    LET jobs == GroupJobs(jobCount, groupSize, id)
        index == {GroupIndex(groupSize, id, j) : j \in jobs}
    IN \E first, last \in jobs :
         /\ \A j \in jobs :
              /\ IsFirstJobInGroup(groupSize, id, j) <=> j = first
              /\ IsLastJobInGroup(jobCount, groupSize, id, j) <=> j = last
         /\ index = 0 .. GroupIndex(groupSize, id, last)

\* The comment on the thread count: "-2, 1 for main thread, 1 so pc can do
\* other things".  At least one worker is started in any case.
LeavesTwoThreads(threadCount, maxThreadCount) ==
  LET n == NumThreadsFor(threadCount, maxThreadCount) IN
  1 <= n /\ n <= maxThreadCount /\ (n = 1 \/ n + 2 <= threadCount)

=============================================================================

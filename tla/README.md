# Verification of ScalBase

ScalBase is a header-only C++ base library: a job system over a lock-free ring,
hash maps, a free-list heap, arenas, a binary heap, handles, pools and other
small containers. This directory holds TLA+ models of its parts, the TLC
configurations that check them on small instances, and theorems about them that
TLAPS checks for every value of the constants.

Paths and line numbers are those of `src/`. `PROJECT.json` maps every
definition to its lines and lists runs, mutants, findings, hazards and theorems.

Run a check with `tlc -config MCHashMap.cfg MCHashMap` (every `.cfg` names its
question in its first line; the table under *Runs* says which module it goes
with) and a proof with `tlapm BHeapProofs.tla`.

## 1. Inventory

| part | state | operations | what makes it correct |
| --- | --- | --- | --- |
| **QueueThreaded** | `First`, `Last`, a ring `Memory` | `Enqueue` (one producer), `Dequeue` (many consumers) | bounded FIFO; each accepted value handed out exactly once; no slot written while it is copied |
| **Jobs** | a queue, a thread and a semaphore per worker; `IsAlive`, `NextQueueIndex`; a counter per `JobHandle` | `JobsInitialize`, `JobsExecute`, `JobsDispatch`, `JobHandleWait`, shutdown; the worker loop and `Work`, which steals | every job runs once; a wait returns when, and only when, its handle's jobs have run; no wakeup is lost |
| **StaticHashMap** | buckets with key, value, probe length; `Count` | `Add`, `Replace`, `Get`, `Remove`, `Clear` | is a map; Robin Hood order; all probes end |
| **StringHashMap** | slots, values, `Count`, `Capacity`, an allocator | as above, and `Resize` | an operation on a key disturbs no other; growth drops nothing; a held key is found |
| **HeapAllocator** | a buffer used from the top down, doubly linked free lists with the links inside the blocks | `Alloc`, `Realloc`, `Free`, `ClearAll` | every unit of memory is in exactly one place; lists stay linked both ways |
| **BHeap** | an array of items, `Count`, a compare function | `PushMin/Max`, `PopMin/Max`, `BHeapClear` | is a priority queue |
| DHashMap | a StaticHashMap that grows | `Resize`, `AddResize` | as StaticHashMap |
| **Arena** | reserved and committed size, `TotalAllocated`; per thread two scratch arenas | push, pop, grow, shrink, snapshots | live memory is committed, disjoint, and not given back early |
| **SparseSet** | two tables that point at each other, packed values | `Add`, `Remove`, `Get` | a held id finds its own value; the values are packed |
| **Pool** | items threaded on a free list, `Count` | `Get`, `Return`, `Reset` | an item has one owner |
| **String** | length, capacity, bytes behind the header | make, append, grow, set, trim, format | no byte is written beyond the allocation; the bytes are the text |
| **Profiler** (Debug.h) | anchors, current parent | open and close a scope | self times add up to the whole |
| **DArray**, **StaticList** | an array and a count | push, pop, insert, remove, ordered or not; resize | sequence semantics |
| HandlesPool | sparse/dense permutation, generations | new, release, exists | a stale handle is never taken for a live one |
| LinkedArray | an array that links on to further ones | push, remove | sequence semantics |
| Events | listeners per priority | register, trigger | each listener once, by priority |
| BitMap, Vec2i, Variant, Base.h, Core.h | none, or a few words | expressions, macros, logging | |

How they interact: `Jobs` owns one `QueueThreaded` per worker; main is the only
producer of all of them and every thread is a consumer of all of them. Most
containers take their memory from an `Arena` once, at initialization;
`StringHashMap` and `String` call an `SAllocator`, which may be the arena, the C
heap or `HeapAllocator`.

What is hard. Only the ring and the job system are concurrent: the order of the
loads, compare-exchange and copy in `Dequeue`, wakeups and stealing, a counter
raised by one thread and lowered by others. The rest is sequential, and its
hard part is long sequences of legal calls: displacement and shift chains in
the hash tables, merging neighbours in the heap, indices that two loops count
from opposite ends. Nothing is persisted, sent over a network or timed out, so
there is no crash recovery, message loss or retry. The hazard list of
`PROJECT.json` names each of these at its line.

Much of the library does not compile as it stands (undeclared names, missing
returns, functions called with a value for a pointer). Where the meaning is
evident, the models have it: `Replace` stores the value of the bucket, `Clear`
of StaticHashMap clears the table's buckets, and `Add(key)` passes the key.

## 2. Modules

| module | what it is | code |
| --- | --- | --- |
| `QueueThreaded` | the ring, a step per load, store or compare-exchange | QueueThreaded.h |
| `FifoQueues` | abstract: bounded FIFO queues whose consumers look, claim and then copy | the same, from outside |
| `Jobs` | the job system, over `FifoQueues` | Jobs.h |
| `JobSystem` | abstract: jobs run at most once, a wait covers its handle's jobs | Jobs.h:94-123 |
| `JobArithmetic` | how a dispatch is cut into groups; how many workers there are | Jobs.h:166-212, 322-338 |
| `StaticHashMap` | the Robin Hood table, a step per iteration | HashMaps.h |
| `KeyValueMap` | abstract: a bounded map with calls and answers | the same, from outside |
| `StringHashMap` | the growing table, a step per call | StringHashMap.h |
| `HeapAllocator` | the free-list heap, a step per call | HeapAllocator.h |
| `BHeap` | the binary heap, a step per iteration | BHeap.h |
| `PriorityQueues` | abstract: a bag that gives back a first key | the same, from outside |
| `Arena` | a thread's two scratch arenas under nested functions, a step per call | Arena.h |
| `Pool` | items on a free list, a step per call | Pool.h |
| `SparseSet` | the two tables and the packed values, a step per call | SparseArray.h |
| `Strings` | one string in memory of a caller's choice, a step per call | String.h |
| `Lists` | DArray and StaticList, a step per call | DArray.h, StaticArray.h |
| `Profiler` | nested and recursive scopes on one thread | Debug.h |
| `Containers` | the six parts above in one model; a behaviour picks one of them and is a behaviour of that part | |
| `RingArithmetic` | lemmas on div and mod, words that wrap, least elements, functions from one number to the next | |
| `QueueThreadedProofs`, `JobsProofs`, `StaticHashMapProofs`, `StringHashMapProofs`, `HeapAllocatorProofs`, `BHeapProofs`, `ContainersProofs` | theorems | |
| `MCJobs`, `MCHashMap`, `MCStringMap`, `MCBHeap` | values of constants for TLC | |

Refinements: `QueueThreaded` implements `FifoQueues` (`ImplementsFifo`), `Jobs`
is built on `FifoQueues` and implements `JobSystem`, `StaticHashMap` implements
`KeyValueMap`, `BHeap` implements `PriorityQueues`. `Jobs` thus never looks into
a ring: that the ring behaves as `FifoQueues` is the ring's own run. The ring and
the job system make the same assumption there (`PunctualSpec` in all three
modules): no thread that dequeues is overtaken by a whole lap of the queue. For the
ring that is one clause for the stretch from the load of `First` to the
compare-exchange and one for that from there to the copy out of the slot;
`FifoQueues` has the first built in (a look that others have overtaken is stale)
and leaves the second to `Punctual`. The job system always has two consumers or
more per queue (main and each worker), so that all that is checked and proved of
it rests on this assumption; section 5 has what happens without it.

### State and actions

*QueueThreaded.* `First`, `Last` and `Memory` are the fields; `consumer[c]` says
which instruction of `Dequeue` thread `c` is at, `originalFirst[c]` and
`outValue[c]` are its locals. `head` and `tail` count what was ever dequeued and
enqueued, `seen` and `delivered` are history; the code has none of the four.
Enqueue is `EnqueueRoom`/`EnqueueFull`, `EnqueueWrite`, `EnqueuePublish`;
Dequeue is `LoadFirst`, `LoadLast`, `ClaimSlot`/`LoseRace`, `CopySlot`. The
value type is opaque; the n-th value is n.

*Jobs.* `pc[t]` is where a thread is. A worker checks `IsAlive`, enters `Work`,
goes through the queues from its own (`PopFrontLook`, `PopFrontClaim`,
`PopFrontCopy`, `PopFrontGiveUp`), runs the group it took (`RunJob` per job, `FinishGroup`),
sleeps (`WorkerCheck`, `WorkerWake`). Main initializes (`StartThread` per
thread), dispatches (`JobsExecute`, `JobsDispatch`, then `PushBack` and
`PostPushed` per group), waits (`HandleBusy`, `WakeThread` per thread,
`MainEnterWork`, `WaitDone`) and shuts down. Worker indices are read through a
pointer to a dead loop variable (Jobs.h:225), so a worker starts from any of
`StartValues`. `dispatches`, `runs` and `dropped` are history. Threads,
semaphores and atomics are those of the vendored zpl and are modelled from
their use.

*StaticHashMap.* The constants are `Capacity` and `MaxCount`; `hash` is any
function of `Hashes`, fixed in Init, so that every collision pattern occurs.
`request`/`answer` are the call and its result; `idx`, `probeLength`,
`swapBucket` and `insertedIdx` are locals of the loop that runs.

*StringHashMap.* One step per call; `Buckets` joins the slot and the value of an
index. `AddAndGrow` is an Add that finds the table at its limit: it resizes,
re-adds every entry in slot order, then adds.

*HeapAllocator.* `heap` is the program's memory: `Offset`, the list heads and
the `MemNode` header at each address, stale headers included. `held` is what
callers hold and `owners[u]` counts the callers that were given unit `u`. Sizes
are in units of the smallest block.

*BHeap.* `pc = "rise"` is the loop of a push, `"sink"` that of a Heapify, `index`
the moving item. A key is a pointer, that is a number; `Rank` is what
`CompareFunc` makes of it, in the order of the addresses (integers cast to
pointers) or not (pointers to data). Both comparisons are modelled: pushes compare
ranks, Heapify compares the pointers (BHeap.h:177, 203). `told` is history: since
the heap was last empty, every pop has left keys whose addresses are in the order
of their ranks.

*Arena.* The two arenas are functions of their number: `TotalAllocated[a]`, and
the set of `committed` pages, which are those the platform has given. `frames`
are the functions that run, outermost first, each with its scratch arena and the
total its snapshot remembers; `blocks` (history) are the blocks they pushed, or
were given, and still use. `Enter` is GetScratch, `Leave` the end of the
snapshot. A function pushes its own data on its scratch arena, and a result on
the caller's. `ArenaPush` grows the arena where it must, and the platform grants
the commit or not (`granted`); a block is `exposed` if it was handed out although
nobody saw to its pages, and `shrunk` (history) says whether an arena has lost
pages that `Size` counts.

*Pool, SparseSet.* The variables are the fields. `owners`, `usable` and
`stored` are history: who was given an item, what the callers put in; so are
`stale`, the ids to which Remove left a position, and `spoilt`, whether one of these
was removed again.

*Strings.* `Length` and `Capacity` are the header, `bytes` the memory behind it
as far as it was allocated or written, and `room` how much of it was allocated, so
that a write past the end shows: `bytes` is then longer than `room`. `memory` says
whose it is (the C heap's or an arena's). `text` and `fault` are history: what the
calls describe, and which of the faults of section 5 the string has met. A string
that is `"unbacked"`, that is, whose header promises more than was allocated, is
followed no further: what it overwrites is not its own.

*Lists.* `Memory` has as many slots as `Capacity` says, with a value for slots
that nobody wrote; `list` is history.

*Profiler.* `clock` is the CPU's counter, `scopes` the open scopes with the
locals of their constructors; the sums are words that wrap at `W`. `innermost`
and `inside` are history: how long an anchor was the innermost open one, and
how long it was open at all.

## 3. Runs

| run | module, cfg | question | result |
| --- | --- | --- | --- |
| `ring_punctual` | `QueueThreaded`, MCRingPunctual | is the ring an exactly-once bounded FIFO if no consumer is overtaken by a whole lap? Is every accepted value delivered? | yes |
| `ring_slow_copy` | `QueueThreaded`, MCRingSlowCopy | and with two consumers at any speed, is no slot written while it is copied? | `NoDataRace` is violated |
| `jobs_safety` | `MCJobs`, MCJobsSafety | is the counter exact, does no job run twice or get left out, is no wakeup lost, in every interleaving of main and two workers in which nobody is overtaken by a lap? | yes |
| `jobs_waiting` | `MCJobs`, MCJobsWaiting | does a wait return, and only when its jobs have run? Does a job run that nobody waits for? (Nobody being overtaken, as above.) | yes |
| `jobs_dropped_group` | `MCJobs`, MCJobsDropped | and when a queue is full? | the wait never returns |
| `hash_map` | `MCHashMap`, MCHashMap | is the Robin Hood table a map, under every collision pattern? | yes |
| `string_map_entries` | `MCStringMap`, MCStringMap | do displacement, shift and growth keep all entries? | yes |
| `string_map_lost_key` | `MCStringMap`, MCStringMapLostKey | is a held key found? | `FoundIfHeld` is violated |
| `heap_buckets` | `HeapAllocator`, MCHeapBuckets | is every unit in one place, for block sizes that have buckets? | yes |
| `heap_large` | `HeapAllocator`, MCHeapLarge | and for the list Large? | `OwnedOnce` is violated |
| `binary_heap` | `MCBHeap`, MCBHeap | does the heap keep what is pushed, from either end, and is it a priority queue until a pop leaves keys whose addresses do not tell their rank? | yes |
| `containers` | `Containers`, MCContainers | do nested functions keep their arena memory apart and committed; has an item one owner; is a held id found, and nothing found for another; does a string stay inside its memory and spell its text; is an array the list its calls describe; is profiled time charged once? | yes |

One consumer at any speed needs no run: `OneConsumerIsPunctual` proves that its
behaviours are among those of `PunctualSpec`, and the theorems of section 4 say
the rest for every capacity.

### Bounds, and why they are enough

* Rings of 3 slots (two usable) and 5 or 6 values: both indices wrap at least
  once, the ring is full and empty, and with two consumers a stale index can
  look current again.
* Jobs: two workers and main, two calls, each a single job or a dispatch of two
  groups of which the last is cut short, queues of one group, so that groups are
  refused while others run, and that two groups queued behind a claimed one
  would be a lap; for the dropped group, one worker and three groups.
  Words of 4 or 8 values, so that `++startingQueue` and `NextQueueIndex` wrap. The
  number of workers divides the word size: see section 5 on Jobs.h:179. `MaxCalls`
  bounds the dispatches of a run.
* Hash map: five keys and four buckets, all of which may be used (load factor
  1.0, which Init allows), so that a key can be missing from a full table. The
  hash functions are those that do not decrease (keys are interchangeable) and of
  the rotations of one that with the fullest home at the end of the array: all of
  them up to renaming and rotation. Chains reach round the end and are displaced.
* String map: every non-decreasing hash function of four keys, again all of them
  up to renaming; the table starts empty and grows to two and to four slots.
* Heap: 7 units with requests of 1 and 2 (two buckets, exhaustion, merges with
  the buffer); 13 units with requests of 2 and 5 for the list Large: room
  for the three neighbours whose merging leaves a stale link, and for the
  removal that follows it (with 11 units the fault shows too, with 10 it does
  not).
* Arena: four pages reserved and three committed, blocks of two and three cache
  lines that straddle pages, three functions deep, so that the same scratch
  arena is in use twice. With two functions no arena has two of them. Every commit
  may be refused.
* Pool of four items; set of three ids and two values: a removal at either end
  and in the middle, and an add of another id after the last was removed.
* Strings of up to three characters, one of which is blank: every pattern that
  the trimming can meet, and growth from an empty, a part-filled and a full
  string. Lists of three slots: first, middle and last index.
* Profiler: two anchors, three scopes deep, five ticks on words of four values:
  every recursion of an anchor, direct or through the other, and a wrap.
* Binary heap: up to six items, three levels and an inner node with one child,
  four keys ranked as their addresses are, two of them alike, and one that is not,
  so that the heap is told for a while, is not, and is again when it is empty; the
  theorems lift the bound.

Deadlock is checked except in the runs of `Jobs`, which may really end: after a
shutdown everybody is asleep or gone.

### Fairness

* `ring_punctual`: weak fairness of the two remaining steps of an Enqueue that
  has begun, and of each consumer's next step: workers call PopFront again and
  again, and the scheduler runs every thread. Beginning an Enqueue is the
  caller's choice and has none. The timing assumption only postpones a step.
* `jobs_waiting`, `jobs_dropped_group`: weak fairness of main's steps within a
  call and of each worker. Main yields while it spins (Jobs.h:360), and
  operating-system threads are all scheduled. Nothing obliges a caller to call.
* `hash_map`: weak fairness of `Step`: the one thread that is inside a call goes
  on.

## 4. What is proved

TLAPS proves these for every value of the constants.

**The ring** (`QueueThreadedProofs`). For every positive capacity and any set of
consumers, under `PunctualSpec`: type correctness, `First` never passes
`Last`, `ExactlyOnce`, and FIFO order per consumer as an action property. The
properties are not inductive. `IInv` ties the wrapped indices to the unbounded
counts (`First = head % Capacity`, `Last = tail % Capacity`,
`originalFirst[c] = seen[c] % Capacity`), bounds `tail - head` by what the ring
holds, gives each slot the value its count says, and says where a consumer's
`seen` can be. The step from equal slots to equal counts needs that two counts
of the same slot are a whole lap apart (`SameSlot`), which the timing assumption
rules out. `OneConsumerIsSafe` then shows that one consumer needs no such
assumption: with `Consumers = {c}`, a state of `Spec` is always punctual,
because `head` moves only when `c` itself moves it, and the slot that Enqueue
keeps empty is the one being copied. So the theorem speaks of the code as it is;
`OneConsumerIsPunctual` says it of whole behaviours.

**The ring implements queues** (also there). Under `PunctualSpec`,
and for one consumer under `Spec`, every behaviour of the ring is one of
`FifoQueues`: `ImplementsFifo` for every capacity and set of consumers. The
queue is the values between `head` and `tail`, and each step of the ring is
matched to one of the queue or a stutter: publishing is `Put`, the load of
`First` is `Look`, the compare-exchange is `Claim` or, if it fails or the ring
looked empty, `GiveUp`, and the copy is `Copy`. `IInv` gives what the match needs:
the slot claimed holds the value at the front, and goes on to hold it while the
values behind it are no more than the ring can hold.

**The job system** (`JobsProofs`). For any number of workers, queues of any size
and dispatches of any shape: types (`JobsTypeCorrect`), a handle's counter is the
number of its unfinished groups (`JobsCounterExact`), every job runs at most
once, and has run once its group is finished (`NoJobRunsTwice`), no wakeup is lost
(`NoJobIsStranded`), and `Jobs` implements `JobSystem` (`JobsKeepThePromise`).
All of it is about `PunctualSpec`, where a Put leaves what the threads have
claimed alone (`PutKeeps`). The invariants build on each other:

* `IInv` is `TypeOK`, `Control` (what each label says of the locals) and `Places`:
  the groups that are not finished belong to dispatches, are finitely many, and
  each is in one place, that is not pushed, queued, dropped, or claimed or run by one thread.
  `CounterExact` is a cardinality over these places and is not inductive without
  them. A step moves a group from one place to another (`PushStep`,
  `TakeStep`, ...) or from being claimed to being run (`CopyStep`), so that the proof about places is one lemma per move,
  whatever action makes it.
* `RunInv` adds that groups are cut as a dispatch cuts them (`Cut`), that a thread
  is inside its group (`InGroup`), and that nothing of a later dispatch has run
  (`Fresh`).
* `StrandInv` adds where a look at a queue reads from (`LooksRight`).

Two theorems have a hypothesis on the constants. `CallsFit`: no call overflows
the rounding sum of Jobs.h:338. `StartsCover`: from wherever a thread starts,
`NumThreads` steps on the u32 meet every queue; the lemma `DivisorCovers` shows it
when the number of workers divides the word, `SmallStartsCover` when no index gets
near the end of the range. Both are about the hazards at Jobs.h:338 and 179:
where they fail, so does the code. In the refinement `Begin` is `Submit`,
`RunJob` is `Execute`, `JobHandleWait` is `Wait`, `WaitDone` is `Return`, and
every other step is a stutter.

**Dispatch** (also there). For every word size, job count and group size whose
rounded sum fits the word, the groups of a dispatch partition its jobs, only the
last is not full (`DispatchPartition`), and in each one job is told it is first
and one that it is last (`DispatchFlags`). With two hardware threads or more,
two are left for others unless no worker would remain (`TwoThreadsLeft`).

**The Robin Hood table** (`StaticHashMapProofs`). For every number of keys, values
and buckets and every hash function: types (`HashTypeCorrect`), Robin Hood order
(`TableIsRobinHood`), no key twice (`KeysHeldOnce`), the index that an Add
reports holds its key (`ReportedIndex`), and the table implements `KeyValueMap`
(`TableIsAMap`). `RobinHood` compares neighbours; the invariant (`Ordered`) says
it of the whole path: from the home of a key to its bucket there is no gap and
every entry on the way is at least as far from its own home. That is what makes
Get's early end right. While Remove shifts, the hole is the one exception. A
call in progress adds what its probe has passed: `Searching` that the key was
not among it, `Carrying` that the new key stays where it was put while Add
carries a displaced bucket on, `Getting` and `Finding` the same for Get and Remove.
Add does not come back to where its probe began because it starts with a bucket
free (`OneIsFree`); in a full table Get may go all the way round (`GoesRound`),
and it has then seen every bucket. In the refinement the step of Add that gives the key of the request its first
bucket is `AddNew`, `AddExists` is `FindExisting`, `RemoveFound` is `Remove`, and
displacing and shifting are stutters: an abstract map never sees them.

**The string hash map** (`StringHashMapProofs`). For any number of keys, values and
slots and every hash function: types (`StringMapTypeCorrect`), `Count` is the number
of slots in use (`CountMatchesSlots`), and a call other than Clear makes no key
disappear but its own (`OtherKeysStay`). The invariant is small; the work is in
one step, which runs loops. Add's is a function of the number of iterations
(`AddIterations`), Resize's of the number of slots read (`Readded`). `Recursion`
shows that such a function is what its equation says, `Along` that what each
iteration keeps holds after all. An iteration of Add keeps `LoopInv`: the used
slots are the same, the slots passed are all used, and slots and carried entry
together hold what the slots and the new entry did. The loop ends because a slot
is free. Re-adding keeps `ReaddInv`: the new table has the keys of the slots read
so far, counts its entries, and has no more of them than these, so it has room for the rest
(`MaxCountFacts`). Both say `Once(slots, X)`: no key but those of `X` is in two
slots. With `X` the call's key they show that other keys keep their values; with
all keys, that they stay. For Remove, `Shifts` says where each entry goes.

**The heap** (`HeapAllocatorProofs`). For every buffer, number of buckets and set of
requests none of which goes to the list Large (`BucketsOnly`; section 5 has what
Large does): types (`HeapTypeCorrect`), every unit of memory is in the buffer, in
one free block or in one caller's hands (`NoMemoryIsLost`), the lists are linked
the same both ways (`LinksAgree`), and no memory is handed out twice
(`BucketsOwnOnce`: what `heap_large` refutes holds for all other lists). The
invariant is `Tiles(h, D, H)`: for some set D of free blocks, D and the held
blocks H lie apart and fill the buffer from `Offset` up (`Covered`), and each list
links the blocks of D that belong to it, in the order of their addresses
(`ListIs`). `IsNext` and `IsPrev` say this of one link each, without a path: the
next block is the least of the list above this one. So removing and inserting a
block are lemmas about two or three links (`UnlinkKeeps`, `LinkBeforeKeeps`,
`LinkFirstKeeps`, `LinkLastKeeps`), and that the blocks reached from the head are
those of D comes last (`NodesAre`). Held blocks have no links (`Detached`):
InsertMemNodeBefore relies on it, it does not clear `Prev` itself (line 91). Each
operator is then a lemma: it takes a block from D to H (`TakeListed`), adds one
below `Offset` (`CarveTiles`), merges one into the buffer (`MergeTiles`) or puts one
back into its list (`FreedTiles`). The loop of InsertMemNode is a function of the
number of iterations, as in the string map; it ends because addresses ascend:
after k iterations it looks at block k or above (`Walked`).

**The binary heap** (`BHeapProofs`). The array and its indices keep their ranges
for every capacity, set of keys and ranking: `Inside`, the types with where the
moving item can be (`MovingInside`) and that live slots hold keys (`Filled`), is
inductive by itself. `HeapOrder` is an invariant with `MovingOrder`
(`BHeapOrdered`, `BHeapMovingOrder`): all but the moving item are in order, and
its parent is in order with its children, so the two may change places. Neither
asks that addresses tell the ranks of all keys: both hold while `told`, and an item
then sinks among keys whose addresses do (`SinksTold`), for which Heapify's
comparison of pointers comes to the same as `CompareFunc` (`PointersCompared`). The
link between the two loops is the lemma `ParentOfChild`: push's `(i - 1) >> 1`
inverts Heapify's `2i + 1`, `2i + 2`. The heap implements `PriorityQueues` whatever
its keys point at (`BHeapIsAPriorityQueue`): it is a bag of the keys that were
pushed and not popped, and gives one that comes first while `told`. The queue is the
bag `Times` of live items, an exchange of two slots leaves it alone (`SwapKeeps`), a
pop takes the root out of it (`MoveLast`), and the root of a heap in order is first
of all (`RootComesFirst`: of the items that come
before the root, the one with the least index would have a parent that does
too).

**The containers** (`ContainersProofs`) are about `Containers`, the model that the
run checks: each part has an invariant of its own and every step is a step of one
part. Together they give the types of all (`PartsKeepTheirTypes`), and by part:

* *Arena.* For all page, cache line and block sizes and functions nested to any
  depth: blocks in use never overlap (`FunctionsKeepTheirMemory`), the assertion
  of ArenaSnapshotEnd holds (`SnapshotsNest`), blocks in use that were not handed
  out `exposed` are committed (`MemoryInUseIsCommitted`) and a block that is
  committed stays so (`NoPageIsTaken`). `Nested` orders marks and blocks along each arena as
  the functions nest; the case that needs it is a result pushed on the caller's
  arena, which the innermost mark must not lie in. For a shrink, that its start
  is a page boundary above all that is allocated (`ShrinkSparesAllocated`).
* *SparseSet.* For every capacity: the value found for a held id is the one last
  added for it, and none is found for an id that is not held (`HeldIdsFound`), and a
  walk over `Dense` meets every held id once (`DenseIsPacked`). The front of `Dense`
  and the held ids name each other, each position holds the value of its id
  (`Valued`), and an id that is not held has no position (`Gone`) unless it is
  `stale`: the last one kept it when it was removed (SparseArray.h:78). All of it
  holds until a stale id is removed again.
* *Pool.* For every capacity, an item has at most one owner (`ItemsHaveOneOwner`).
  `Threaded` follows the free list without induction: the history variable
  `usable` lists the items that `Count` still lets out, each once, linked in that
  order and held by nobody. What the list does after them (from a Reset on it
  turns in a circle) does not matter.
* *Profiler.* For every nesting and word size, an anchor's own time is the time in
  which its scope was the innermost (`EveryMomentChargedOnce`), and its total
  that in which one was open (`RecursionCountsOnce`). `SelfExact` speaks of
  states with no open scope; `Settles` says it of all others by closing the open
  scopes in thought, innermost first: a chain of intermediate sums, each with the
  charge of one scope more. A tick changes the charges of all open scopes, and the
  changes telescope to the one that the innermost anchor gains. All of it holds
  up to multiples of the word size (`Congruent`), which is how a sum that is
  below zero in between (Debug.h:133) comes right. For totals, `ChildrenSettle`
  says that only the outermost scope of an anchor matters when it closes.
* *DArray, StaticList.* For every capacity, the front of the memory is the list
  that the calls describe, slot by slot (`ArraysHoldTheirList`), until one of the
  calls that section 5 names.
* *String.* For every length, header and cache line size, a string and its
  terminator stay inside its memory, and so does what its header promises
  (`StringsStayInside`), and its bytes spell its text (`StringsSpellTheirText`). A
  string that has met no fault keeps all of this. One that StringAppendAllocator
  grew when it was full may have its terminator one byte outside, and no more;
  nothing is said of one that is `"unbacked"`. `Fine` says this of any header,
  memory and text, so that operations made of several (StringJoin of three
  appends) are proved step by step. For StringTrim: the positions at which its
  loops stop exist and are what they are looked for (`StartPosFacts`,
  `EndPosFacts`), and a text has only one part with blanks around it and none at
  its ends (`TrimmedIs`).

Assumptions: the named `ASSUME`s of the modules (capacities are positive, words
have at least two values, and so on) and those written in a theorem.

Only model-checked: liveness, that is that what is accepted is delivered, that
waits return, that calls on the hash map end. Liveness under fairness is out of
the prover's reach, and so is induction in general; where a proof needs it over
numbers it takes a least counterexample (`LeastNat`).

## 5. Disagreements with the code

1. **QueueThreaded.h:46.** The compare-exchange frees the slot before it is
   copied. "Single producer - multi consumer fifo queue" (line 7) does not hold
   for two consumers of which one is slow: the other moves on and the producer
   overwrites the slot. In the same way a whole lap between the load of `First`
   and the compare-exchange (line 43) makes a stale index look current. In the
   job system, whose queues have at least two consumers, the slow thread runs
   another group than the one it claimed: that one never runs, the other runs
   twice. It takes 256 dispatched groups between two instructions of a thread.
2. **Jobs.h:37.** A full queue drops a group that was already counted; the wait
   on its handle never returns (`SAssert` is empty in a release build).
3. **StringHashMap.h:138-139.** The probe lengths are swapped twice on a
   displacement; the slot keeps the wrong one, and Get gives up before a key
   that is there. In the same way an Add can pass its own key, which is then in
   two slots. From then on an Add that carries an entry to the other one drops
   it, a Replace can write to a key that it displaced, and re-adding can count
   fewer entries, against the assertion of line 66.
4. **HeapAllocator.h:206.** Freeing a block just below the head of Large leaves
   the old second node with a link to the old head; a later removal does not
   unlink, and a block is handed out twice.

Read in the code, not shown by a run: the items of the hazard list that have a
note. Of these the ones that limit the models:

* Jobs.h:338: the rounding sum can overflow. Jobs.h:212: with one hardware
  thread `threadCount - 2` wraps. Jobs.h:179: if the number of workers does not
  divide 2^32, a starting index near the end of the range skips a queue; with
  three workers a job can then be left to the next post. Jobs.h:76: the
  destructor wakes and joins nobody, since `Threads.Count` is never set.
* BHeap.h:177, 203: with keys whose addresses do not tell their order, which a
  `void*` and a `CompareFunc` invite, the heap loses its order at the first pop that
  leaves such keys. The model has such keys; `HeapOrder`, `MovingOrder` and
  `PriorityQueues` promise order up to then, and the keys themselves always.
* StringHashMap in any use that displaces a key breaks `FoundIfHeld`, so the
  passing run checks what does hold: no other key disappears (`OthersKept`), and
  its values stay the same as long as `EachKeyOnce` held before the call. Four
  slots suffice for a key in two of them; the drop needs eight and is not in a run.
* HashMaps.h:227: the search of Remove ends at the key or at an unused bucket. In a
  full table (line 75 allows a load factor of 1.0) the search for a missing key
  goes round for ever. `EveryCallReturns` says that this is the only call that
  does not return (`SearchesForEver`), and that it does not.

Faults that one call shows, which the models have as the code does and except
from what they promise:

* Arena.h:177: growth commits pages but leaves `Size`, so every push beyond
  `Size` commits again from there; Arena.h:180: a commit that fails is logged, and
  ArenaPush hands the memory out all the same; Arena.h:202: a shrink gives pages
  back that `Size` still counts, and a later push below `Size` may be on uncommitted
  memory. `LiveCommitted` excepts the blocks handed out in one of these two ways
  (`exposed`): those whose own grow failed, and those pushed below `Size` into an
  arena that was shrunk and has not grown since.
* Pool.h:64: an assertion refuses Return once every item is handed out; Reset
  (line 35) leaves `Count`, so that capacity is lost, and closes the list to a cycle.
* SparseArray.h:78: an id that is removed as the last one keeps a position. Get of
  it answers the value of whatever id comes to lie there, and a second Remove takes
  that id away. `HeldFound` excepts Get of such an id (`stale`), and ends with such
  a Remove. Line 51: a second Add of an id adds it twice.
* String.h:108: StringAppendAllocator grows a full string without room for the
  terminator, which line 120 writes behind the allocation. Lines 114 and 333: a
  string of an arena gets more `Capacity` and no memory, since SAllocatorArena's
  realloc answers with the old pointer (Arena.h:308). Line 226: the test of
  StringSprintf is inverted, so that with more bytes than `Capacity` it prints past
  the allocation and promises them in `Length`. `TextInside` and `Spells` name the
  first (`"full"`: the terminator only) and the other two (`"unbacked"`).
* DArray.h:76, 98: insertion at the last index writes over the last value and
  takes an unwritten slot in; line 112: Pop leaves the only value.
  `ListExact` speaks of an array until such a call, and again once it is
  empty. StaticArray.h:92 moves one value too many, which is harmless except
  that it reads behind a full list.

Not in any model: Arena.h:175 (an assertion against growth to exactly ReservedSize),
Handles.h:61, 111, LinkedArray.h:28 (a value dropped), Events.h:60 (endless
loop), Base.h:203 (DLRemove of the only node), Vec2i.h:53 (sign extension),
HashMaps.h:353 (never grows), StringHashMap.h:230 (Clear frees twice),
HeapAllocator.h:53, 148, 369 (bucket index, Length, Realloc by a few bytes).

## 6. Limits

* Memory is sequentially consistent. Assertions are those of a release build:
  none. A caller keeps to what an assertion demands of its arguments.
* Fresh memory is zeroed: queues (Jobs.h:214), buckets (HashMaps.h:83) and heap
  are taken from an arena without clearing.
* Timing: no consumer of a ring is overtaken by a whole lap (`PunctualSpec`) in
  what is checked and proved of the ring with several consumers and of the job
  system. Nothing in the code enforces it; a lap is 256 groups (Jobs.h:32).
* Job bodies do not dispatch or wait themselves. Affinity and names of threads
  are left out.
* `Get` of the maps answers with a value; that the pointer it returns goes stale
  with the next Add or Remove is the caller's concern.
* StringHashMap: freeing strings through the allocator is left out.
* In both hash maps `ProbeLength` and `probeLength` are u16 in the code
  (HashMaps.h:18, 111) and natural numbers here: the two agree as long as no probe
  is 65536 steps long.
* HeapAllocator: the bytes inside a block, requests whose bucket index is out of
  range (line 53), and the few bytes by which Realloc may keep a block that is
  too small (line 369) are left out. `heap_buckets` does not use Large, where
  `heap_large` shows the fault.
* Arena: alignments are powers of two; a function ends its snapshot before its
  caller does. It pushes results on the caller's arena only if that is not its own
  scratch arena (`Owners`). GetScratch cannot tell it (Arena.h:113): the result would
  go with the callee's snapshot, and the caller would be left with memory that is
  handed out again; that case is not in the model. In an arena that has grown beyond
  `Size` the remaining size wraps (line 212) and the shrink asks to uncommit a range
  outside the arena; the model takes it that the platform refuses, and leaves such
  a shrink out.
* Pool, SparseSet: callers return what they hold, reset a pool that nobody uses,
  add ids that are not held. They may remove any id, in an empty set only one that
  has no position (SparseArray.h:71 asserts the rest).
* Lists: RemoveAt is called with an index inside the array. Nothing in DArray.h:137-150
  asserts or tests that; beyond it the size of the move wraps.
* Strings: formatting and UTF-8 stand for the text they produce. Allocation does not
  fail. A string is followed until it is `"unbacked"`.
* Profiler: one thread; hit counts, labels and the printed report are left out.
  The parent and the anchors are globals, so scopes on several threads race.

### Not modelled

* DHashMap: its growth test is never true and it uses members that do not exist.
* HandlesPool: `Alive` is set on a copy (Handles.h:61), so that no handle ever
  exists, `ReleaseHandle` does nothing, and all that is left is a counter.
* LinkedArray: unfinished, with empty bodies. Events: its loop does not end.
* BitMap, Vec2i, Variant, Base.h, Core.h: expressions, macros and formatting with
  no state of their own; what a module needs of Base.h is modelled where it is
  used.

## 7. Plan

Every safety property that a passing run checks is now also a theorem. What is
left:

1. Lemmas for what the passing runs show of the parts that are modelled `partly`:
   the growth of a StringHashMap in terms of an abstract map, where
   `EachKeyOnce` holds.
2. `HeapAllocator` with Large: which of its operations keep `Tiles` (all but the
   merge of line 206), so that the fault has one place.

Runs for new parts replace those a theorem has made redundant: once a property
is proved for every value of the constants, its small instance can share a run.

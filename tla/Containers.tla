----------------------------- MODULE Containers -----------------------------
(***************************************************************************)
(* Six parts of the library that run on one thread and share no state, in *)
(* one model: a behaviour picks a part and is a behaviour of that part.    *)
(***************************************************************************)
EXTENDS Integers, Sequences

CONSTANTS
  CacheLine, PageSize, Reserve, Commit, Min, Sizes, ArenaDepth,
  null, User, PoolSize,
  EMPTY, Zero, Values, SetSize,
  Chars, Blank, NUL, Junk, HeaderSize, StringLine, MaxLength,
  MaxCapacity,
  Anchors, W, MaxTime, ScopeDepth

VARIABLES
  part,
  TotalAllocated, committed, Index, frames, blocks, shrunk,
  FreeList, Link, poolCount, owners, usable,
  Sparse, DenseLookup, Dense, sparseCount, stored, stale, spoilt,
  memory, Length, Capacity, bytes, room, text, fault,
  kind, Memory, listCount, list,
  clock, scopes, g_ProfilerParentIndex, ElapsedSelf, ElapsedChildren,
  innermost, inside

\* The parts.
Ar == INSTANCE Arena WITH MaxDepth <- ArenaDepth

Po == INSTANCE Pool WITH Capacity <- PoolSize, Count <- poolCount

Se == INSTANCE SparseSet WITH Capacity <- SetSize, Count <- sparseCount

St == INSTANCE Strings WITH CacheLine <- StringLine

Li == INSTANCE Lists WITH Count <- listCount

Pr == INSTANCE Profiler WITH MaxDepth <- ScopeDepth

ASSUME ArenaAssumption == Ar!ArenaConstants
ASSUME PoolAssumption == Po!PoolConstants
ASSUME SetAssumption == Se!SparseSetConstants
ASSUME StringAssumption == St!StringConstants
ASSUME ListAssumption == Li!ListConstants
ASSUME ProfilerAssumption == Pr!ProfilerConstants

arenaVars == <<TotalAllocated, committed, Index, frames, blocks, shrunk>>
poolVars == <<FreeList, Link, poolCount, owners, usable>>
setVars == <<Sparse, DenseLookup, Dense, sparseCount, stored, stale, spoilt>>
stringVars == <<memory, Length, Capacity, bytes, room, text, fault>>
listVars == <<kind, Memory, listCount, list>>
profilerVars == <<clock, scopes, g_ProfilerParentIndex, ElapsedSelf, ElapsedChildren,
                   innermost, inside>>

vars == <<part, arenaVars, poolVars, setVars, stringVars, listVars, profilerVars>>

Init ==
  /\ part \in {"arena", "pool", "set", "string", "list", "profiler"}
  /\ Ar!Init
  /\ Po!Init
  /\ Se!Init
  /\ St!Init
  /\ Li!Init /\ (part # "list" => kind = "DArray")
  /\ Pr!Init

Next ==
  \/ part = "arena" /\ Ar!Next
     /\ UNCHANGED <<part, poolVars, setVars, stringVars, listVars, profilerVars>>
  \/ part = "pool" /\ Po!Next
     /\ UNCHANGED <<part, arenaVars, setVars, stringVars, listVars, profilerVars>>
  \/ part = "set" /\ Se!Next
     /\ UNCHANGED <<part, arenaVars, poolVars, stringVars, listVars, profilerVars>>
  \/ part = "string" /\ St!Next
     /\ UNCHANGED <<part, arenaVars, poolVars, setVars, listVars, profilerVars>>
  \/ part = "list" /\ Li!Next
     /\ UNCHANGED <<part, arenaVars, poolVars, setVars, stringVars, profilerVars>>
  \/ part = "profiler" /\ Pr!Next
     /\ UNCHANGED <<part, arenaVars, poolVars, setVars, stringVars, listVars>>

Spec == Init /\ [][Next]_vars

-----------------------------------------------------------------------------
(* The properties are those of the parts, which say what they mean. *)

\* Every part keeps its types.
TypeOK ==
  /\ Ar!TypeOK
  /\ Po!TypeOK
  /\ Se!TypeOK
  /\ St!TypeOK
  /\ Li!TypeOK
  /\ Pr!TypeOK

\* What a function pushed on an arena is its own until it ends.
BlocksApart == Ar!BlocksApart

\* Memory in use is committed, unless its grow failed or its arena was shrunk before.
LiveCommitted == Ar!LiveCommitted

\* No shrink takes a page away under a block that is in use.
StaysCommitted == Ar!StaysCommitted

\* An item of a pool has at most one owner.
OneOwner == Po!OneOwner

\* A held id of a sparse set is found with its own value, and no other but a stale one.
HeldFound == Se!HeldFound

\* A string's header promises, and calls write, no more than its allocation holds,
\* but for the calls that Strings names.
TextInside == St!TextInside

\* A string's bytes spell what the calls describe.
Spells == St!Spells

\* The front of an array is the list that the calls describe.
ListExact == Li!ListExact

\* Self times of the profiler charge every moment once.
SelfExact == Pr!SelfExact

\* Times with children count a recursive scope once.
ChildrenExact == Pr!ChildrenExact

=============================================================================

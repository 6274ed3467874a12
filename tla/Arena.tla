------------------------------- MODULE Arena -------------------------------
(***************************************************************************)
(* src/Lib/Arena.h: memory pushed at the end of a reserved range whose     *)
(* pages are committed on demand, here the two scratch arenas of a thread. *)
(*                                                                         *)
(* Functions nest: each takes a scratch arena, opens a snapshot, pushes    *)
(* for itself, may push a result into the arena of the function that       *)
(* called it if that is the other one, and ends its snapshot.  GetScratch  *)
(* deals the two arenas out in turn, whoever holds them, so a caller's     *)
(* arena may be its callee's too.                                          *)
(*                                                                         *)
(* The platform may refuse to commit: ArenaGrow logs that, and the push    *)
(* hands the memory out all the same.                                      *)
(*                                                                         *)
(* Sizes are in bytes of a small machine, alignments powers of two.        *)
(* TempCount, which only assertions read, counts the frames of an arena.   *)
(***************************************************************************)
EXTENDS Integers, Sequences

CONSTANTS
  CacheLine,          \* SCAL_CACHE_LINE
  PageSize,           \* PlatformPageSize()
  Reserve, Commit, Min,   \* arguments of ArenaCreateMin
  Sizes,              \* sizes callers ask for
  MaxDepth            \* bound: how deep functions nest

\* What the constants are assumed to be.
ArenaConstants ==
  /\ CacheLine \in Nat \ {0} /\ PageSize \in Nat \ {0}
  /\ Reserve \in Nat /\ Commit \in Nat /\ Min \in Nat
  /\ Sizes \subseteq Nat \ {0}

VARIABLES
  TotalAllocated,
  committed,          \* the pages of each arena that are committed
  Index,              \* ThreadScratchArena.Index: whose turn it is
  frames,             \* open functions: their arena and OriginalTotalAllocated
  blocks,             \* history: what was pushed and may still be used
  shrunk              \* history: ArenaShrink took pages and no commit followed

vars == <<TotalAllocated, committed, Index, frames, blocks, shrunk>>

Arenas == {"A", "B"}

AlignSize(size, alignment) ==
  ((size + (alignment - 1)) \div alignment) * alignment

ReservedSize == AlignSize(Reserve, PageSize)
MinSize == AlignSize(IF Min > PageSize THEN Min ELSE PageSize, PageSize)

\* ArenaCreateMin sets Size and no operation changes it, ArenaGrow included.
Size == IF AlignSize(Commit, PageSize) < MinSize THEN MinSize
                                                 ELSE AlignSize(Commit, PageSize)

\* The pages that the bytes from a up to b touch.
Pages(a, b) == {p \in 0 .. b : p * PageSize < b /\ a < (p + 1) * PageSize}

Init ==
  /\ TotalAllocated = [a \in Arenas |-> 0]
  /\ committed = [a \in Arenas |-> Pages(0, Size)]
  /\ Index = 0
  /\ frames = <<>>
  /\ blocks = {}
  /\ shrunk = [a \in Arenas |-> FALSE]

Depth == Len(frames)
Scratch == IF Index = 1 THEN "B" ELSE "A"

\* A function begins: GetScratch, then ArenaSnapshotBegin.
Enter ==
  /\ Depth < MaxDepth
  /\ Index' = 1 - Index
  /\ frames' = Append(frames, [arena |-> Scratch,
                               Original |-> TotalAllocated[Scratch]])
  /\ UNCHANGED <<TotalAllocated, committed, blocks, shrunk>>

\* Mutant: the snapshot gives back one cache line too many.
EndTooFar == frames[Depth].Original - CacheLine

\* What ArenaSnapshotEnd puts into TotalAllocated.
EndTotal == frames[Depth].Original

\* A function ends: ArenaSnapshotEnd takes its blocks away.
Leave ==
  /\ frames # <<>>
  /\ TotalAllocated' = [TotalAllocated EXCEPT ![frames[Depth].arena] = EndTotal]
  /\ frames' = SubSeq(frames, 1, Depth - 1)
  /\ blocks' = {b \in blocks : b.owner < Depth}
  /\ UNCHANGED <<committed, Index, shrunk>>

\* Mutant: only the pages of the new block are committed, counted from Size.
GrowPagesFromSize(sizeNeeded) == Pages(Size, AlignSize(sizeNeeded - Size, PageSize))

\* ArenaGrow commits from the beginning of the arena.
GrowPages(sizeNeeded) == Pages(0, AlignSize(sizeNeeded, PageSize))

\* Whom the innermost function pushes for: itself, or its caller if that has the
\* other arena.
Owners ==
  {o \in 1 .. Depth :
     o = Depth \/ (o = Depth - 1 /\ frames[o].arena # frames[Depth].arena)}

\* Mutant: what is allocated so far is tested and not what is needed.
FitsBefore(a, sizeNeeded) == TotalAllocated[a] < ReservedSize

\* Whether a push succeeds; one that does not changes nothing.
Fits(a, sizeNeeded) == sizeNeeded <= ReservedSize

\* granted: whether the platform commits the pages, if it is asked.  The block is
\* exposed if nobody saw to its pages: the commit failed, or none was asked for in
\* an arena that was shrunk.
ArenaPush(size, owner, granted) ==
  /\ LET a == frames[owner].arena
         sizeNeeded == TotalAllocated[a] + AlignSize(size, CacheLine)
         grows == sizeNeeded > Size
     IN /\ Fits(a, sizeNeeded)
        /\ committed' = [committed EXCEPT ![a] =
             IF grows /\ granted THEN @ \union GrowPages(sizeNeeded) ELSE @]
        /\ shrunk' = [shrunk EXCEPT ![a] = @ /\ ~(grows /\ granted)]
        /\ TotalAllocated' = [TotalAllocated EXCEPT ![a] = sizeNeeded]
        /\ blocks' = blocks \union
             {[arena |-> a, owner |-> owner, size |-> size,
               from |-> TotalAllocated[a], to |-> sizeNeeded,
               exposed |-> IF grows THEN ~granted ELSE shrunk[a]]}
  /\ UNCHANGED <<Index, frames>>

\* A function pops what it pushed last.
ArenaPop(b) ==
  /\ b.owner = Depth
  /\ b.to = TotalAllocated[b.arena]
  /\ TotalAllocated' =
       [TotalAllocated EXCEPT ![b.arena] = @ - AlignSize(b.size, CacheLine)]
  /\ blocks' = blocks \ {b}
  /\ UNCHANGED <<committed, Index, frames, shrunk>>

ArenaSizeRemaining(a) == Size - AlignSize(TotalAllocated[a], PageSize)

\* Mutant: the pointer is not moved on from the beginning of the arena.
ShrinkToStart(a) == 0

\* sizeNeeded in ArenaShrink.
ShrinkTo(a) == AlignSize(TotalAllocated[a], PageSize) + MinSize

\* In an arena that has grown beyond Size the remaining size wraps around, and
\* so does the size that is then uncommitted: the platform refuses that range,
\* which does not lie in the arena.
ArenaShrink(a) ==
  /\ ArenaSizeRemaining(a) > MinSize
  /\ committed' = [committed EXCEPT ![a] = @ \ Pages(ShrinkTo(a), Size)]
  /\ shrunk' = [shrunk EXCEPT ![a] = TRUE]
  /\ UNCHANGED <<TotalAllocated, Index, frames, blocks>>

Next ==
  \/ Enter \/ Leave
  \/ \E size \in Sizes, owner \in Owners, granted \in BOOLEAN :
       ArenaPush(size, owner, granted)
  \/ \E b \in blocks : ArenaPop(b)
  \/ \E a \in Arenas : ArenaShrink(a)

Spec == Init /\ [][Next]_vars

-----------------------------------------------------------------------------
(* Properties. *)

Block == [arena : Arenas, owner : Nat \ {0}, size : Nat \ {0}, from : Nat, to : Nat,
          exposed : BOOLEAN]

TypeOK ==
  /\ TotalAllocated \in [Arenas -> 0 .. ReservedSize]
  /\ committed \in [Arenas -> SUBSET Nat]
  /\ Index \in {0, 1}
  /\ frames \in Seq([arena : Arenas, Original : Nat])
  /\ blocks \subseteq Block
  /\ shrunk \in [Arenas -> BOOLEAN]

\* What a function pushed, or was given as a result by one it called, is its own
\* until it ends: no later push overlaps it, although both arenas are shared by
\* functions at any depth and each rewinds them to where it found them.
BlocksApart ==
  /\ \A b \in blocks : b.to <= TotalAllocated[b.arena]
  /\ \A b, c \in blocks :
       b # c /\ b.arena = c.arena => b.to <= c.from \/ c.to <= b.from

\* The assertion of ArenaSnapshotEnd, for every open snapshot.
MarksBelow ==
  \A i \in 1 .. Depth : frames[i].Original <= TotalAllocated[frames[i].arena]

Backed(b) == Pages(b.from, b.to) \subseteq committed[b.arena]

\* Memory in use is committed, but for the blocks that were handed out exposed:
\* their grow failed, or they lie below Size in an arena that had been shrunk and
\* not grown since, where a push trusts the first commit.
LiveCommitted == \A b \in blocks : b.exposed \/ Backed(b)

\* No shrink takes a page away under a block that is in use.
StaysCommitted ==
  [][\A b \in blocks \intersect blocks' : Backed(b) => Backed(b)']_vars

=============================================================================

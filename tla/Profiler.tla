------------------------------ MODULE Profiler ------------------------------
(***************************************************************************)
(* src/Lib/Debug.h: scopes that charge the time they are open to an        *)
(* anchor.  A scope adds its time to its own anchor and takes it off the   *)
(* anchor of the scope around it; the constructor saves ElapsedChildren    *)
(* and the destructor writes over what inner scopes of the same anchor     *)
(* added in between.                                                       *)
(*                                                                         *)
(* Anchor 0 stands for no scope.  Times are words of W values.  One thread *)
(* opens scopes (the globals are shared by all, without a lock), each a    *)
(* local of a block, so the innermost closes first.  HitCount and Label    *)
(* are left out.                                                           *)
(***************************************************************************)
EXTENDS Integers, Sequences

CONSTANTS
  Anchors,
  W,          \* the number of values of a u64
  MaxTime,    \* bound: how long the clock is watched
  MaxDepth    \* bound: how deep scopes nest

\* What the constants are assumed to be.
ProfilerConstants == Anchors \subseteq Nat \ {0} /\ W \in Nat \ {0}

VARIABLES
  clock,                  \* Platform::GetCPUTime()
  scopes,                 \* the open scopes, outermost first
  g_ProfilerParentIndex,
  ElapsedSelf,
  ElapsedChildren,
  innermost,              \* history: how long a's scope was the innermost one
  inside                  \* history: how long some scope of a was open

vars == <<clock, scopes, g_ProfilerParentIndex, ElapsedSelf, ElapsedChildren,
          innermost, inside>>

All == Anchors \union {0}
Word == 0 .. W - 1
Top == scopes[Len(scopes)]
Open == {scopes[i].AnchorIndex : i \in 1 .. Len(scopes)}
Current == IF scopes = <<>> THEN 0 ELSE Top.AnchorIndex

Init ==
  /\ clock = 0
  /\ scopes = <<>>
  /\ g_ProfilerParentIndex = 0
  /\ ElapsedSelf = [a \in All |-> 0]
  /\ ElapsedChildren = [a \in All |-> 0]
  /\ innermost = [a \in All |-> 0]
  /\ inside = [a \in All |-> 0]

Tick ==
  /\ clock < MaxTime
  /\ clock' = clock + 1
  /\ innermost' = [innermost EXCEPT ![Current] = @ + 1]
  /\ inside' = [a \in All |-> IF a \in Open THEN inside[a] + 1 ELSE inside[a]]
  /\ UNCHANGED <<scopes, g_ProfilerParentIndex, ElapsedSelf, ElapsedChildren>>

OpenScope(anchor) ==
  /\ Len(scopes) < MaxDepth
  /\ scopes' = Append(scopes,
       [AnchorIndex |-> anchor, ParentIndex |-> g_ProfilerParentIndex,
        Start |-> clock % W, OldElapsedChildren |-> ElapsedChildren[anchor]])
  /\ g_ProfilerParentIndex' = anchor
  /\ UNCHANGED <<clock, ElapsedSelf, ElapsedChildren, innermost, inside>>

\* Mutant: the parent is read before the global is put back.
ParentUnrestored == g_ProfilerParentIndex

\* g_ProfilerParentIndex after the destructor's line 128.
ParentAtClose == Top.ParentIndex

\* Mutant: the time is added to what inner scopes of the anchor left.
ChildrenAndInner(elapsed) == ElapsedChildren[Top.AnchorIndex] + elapsed

ChildrenAtClose(elapsed) == Top.OldElapsedChildren + elapsed

CloseScope ==
  /\ scopes # <<>>
  /\ LET elapsed == ((clock % W) - Top.Start) % W
         charged == [ElapsedSelf EXCEPT ![ParentAtClose] = (@ - elapsed) % W]
     IN /\ ElapsedSelf' = [charged EXCEPT ![Top.AnchorIndex] = (@ + elapsed) % W]
        /\ ElapsedChildren' = [ElapsedChildren EXCEPT
                                 ![Top.AnchorIndex] = ChildrenAtClose(elapsed) % W]
  /\ g_ProfilerParentIndex' = Top.ParentIndex
  /\ scopes' = SubSeq(scopes, 1, Len(scopes) - 1)
  /\ UNCHANGED <<clock, innermost, inside>>

Next == Tick \/ CloseScope \/ \E a \in Anchors : OpenScope(a)

Spec == Init /\ [][Next]_vars

-----------------------------------------------------------------------------
(* Properties. *)

TypeOK ==
  /\ clock \in Nat
  /\ g_ProfilerParentIndex \in All
  /\ ElapsedSelf \in [All -> Word]
  /\ ElapsedChildren \in [All -> Word]
  /\ scopes \in Seq([AnchorIndex : Anchors, ParentIndex : All, Start : Word,
                     OldElapsedChildren : Word])

\* With all scopes closed, an anchor's self time is the time its scopes were
\* the innermost ones: nested, recursive or repeated, every moment is charged
\* once, although the sums go below zero on the way and wrap.
SelfExact ==
  scopes = <<>> => \A a \in Anchors : ElapsedSelf[a] = innermost[a] % W

\* The time of an anchor with its children is the time at least one scope of it
\* was open: a recursive scope counts once.
ChildrenExact ==
  \A a \in Anchors \ Open : ElapsedChildren[a] = inside[a] % W

=============================================================================

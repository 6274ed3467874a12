-------------------------- MODULE ContainersProofs --------------------------
(***************************************************************************)
(* What the six parts of Containers promise, for every value of the        *)
(* constants.                                                              *)
(*                                                                         *)
(* Each part has an inductive invariant of its own, which the steps of the *)
(* other parts leave alone.                                                *)
(***************************************************************************)
EXTENDS Containers, RingArithmetic, FiniteSets, FiniteSetTheorems, SequenceTheorems, TLAPS

\* A step of the model is for each part a step of that part or none.
LEMMA OnePartSteps ==
  ASSUME [Next]_vars
  PROVE  /\ [Ar!Next]_arenaVars /\ [Po!Next]_poolVars /\ [Se!Next]_setVars
         /\ [St!Next]_stringVars /\ [Li!Next]_listVars /\ [Pr!Next]_profilerVars
  BY DEF Next, vars

\* A model starts with every part at its start.
LEMMA PartsStart ==
  ASSUME Init
  PROVE  Ar!Init /\ Po!Init /\ Se!Init /\ St!Init /\ Li!Init /\ Pr!Init
  BY DEF Init

\* The first n elements of a sequence.
LEMMA Front ==
  ASSUME NEW S, NEW s \in Seq(S), NEW n \in 0 .. Len(s)
  PROVE  /\ SubSeq(s, 1, n) \in Seq(S) /\ Len(SubSeq(s, 1, n)) = n
         /\ \A i \in 1 .. n : SubSeq(s, 1, n)[i] = s[i]
<1>1. Len(s) \in Nat /\ n \in Nat /\ 1 \in Int /\ n \in Int
  BY LenProperties
<1>2. \A i \in 1 .. n : s[i] \in S
  <2>1. \A i \in 1 .. n : i \in 1 .. Len(s)
    BY <1>1
  <2> QED BY <2>1, ElementOfSeq
<1>3. /\ SubSeq(s, 1, n) \in Seq(S)
      /\ Len(SubSeq(s, 1, n)) = IF 1 <= n THEN n - 1 + 1 ELSE 0
      /\ \A i \in 1 .. n - 1 + 1 : SubSeq(s, 1, n)[i] = s[1 + i - 1]
  BY <1>1, <1>2, SubSeqProperties
<1> QED BY <1>1, <1>3

\* A sequence is a function on its positions, and a function on 1 .. n a sequence.
LEMMA FunctionOfSeq ==
  ASSUME NEW S, NEW n \in Nat, NEW f \in [1 .. n -> S]
  PROVE  f \in Seq(S) /\ Len(f) = n
  OBVIOUS

-----------------------------------------------------------------------------
(* Arena: marks and blocks are ordered by the nesting of the functions. *)
Placed ==
  \A b \in blocks :
    b.owner \in 1 .. Ar!Depth /\ b.to = b.from + Ar!AlignSize(b.size, CacheLine)

\* Along an arena, a mark lies above earlier marks and above the blocks of the
\* functions outside its own, and below the blocks of its own and of inner ones.
Nested ==
  /\ \A i, j \in 1 .. Ar!Depth :
       i < j /\ frames[i].arena = frames[j].arena =>
         frames[i].Original <= frames[j].Original
  /\ \A b \in blocks, i \in 1 .. Ar!Depth :
       b.arena = frames[i].arena =>
         IF i <= b.owner THEN frames[i].Original <= b.from
                         ELSE b.to <= frames[i].Original

ArenaInv == Ar!TypeOK /\ Placed /\ Ar!MarksBelow /\ Nested /\ Ar!BlocksApart

\* The first commit is there until a shrink takes some of it, and again after a
\* grow, which commits from the beginning.
FirstCommitKept == \A a \in Ar!Arenas : ~shrunk[a] => Ar!Pages(0, Ar!Size) \subseteq committed[a]

CommitInv == FirstCommitKept /\ Ar!LiveCommitted

-----------------------------------------------------------------------------
(* Arithmetic of AlignSize. *)

\* AlignSize gives the next multiple of the alignment.
LEMMA AlignFacts ==
  ASSUME NEW size \in Nat, NEW alignment \in Nat \ {0}
  PROVE  /\ Ar!AlignSize(size, alignment) \in Nat
         /\ size <= Ar!AlignSize(size, alignment)
         /\ \E k \in Nat : Ar!AlignSize(size, alignment) = alignment * k
<1> DEFINE a == size + (alignment - 1)
           k == a \div alignment
           r == a % alignment
<1>1. a \in Nat
  OBVIOUS
<1>2. a = alignment * k + r /\ k \in Nat /\ r \in 0 .. alignment - 1
  BY <1>1, DivMod
<1>3. Ar!AlignSize(size, alignment) = k * alignment
  BY DEF Ar!AlignSize
<1>4. a = size + (alignment - 1)
  OBVIOUS
<1> HIDE DEF a, k, r
<1>5. k * alignment = alignment * k /\ alignment * k \in Nat
  BY <1>2
<1>6. size <= alignment * k
  BY <1>1, <1>2, <1>4, <1>5
<1> QED BY <1>2, <1>3, <1>5, <1>6

\* The sizes that ArenaCreateMin computes.
LEMMA SizesAreNat ==
  Ar!ReservedSize \in Nat /\ Ar!MinSize \in Nat /\ Ar!Size \in Nat
<1>1. /\ PageSize \in Nat \ {0} /\ Reserve \in Nat /\ Commit \in Nat
      /\ (IF Min > PageSize THEN Min ELSE PageSize) \in Nat
  BY ArenaAssumption DEF Ar!ArenaConstants
<1>2. Ar!ReservedSize \in Nat
  BY <1>1, AlignFacts DEF Ar!ReservedSize
<1>3. Ar!MinSize \in Nat
  BY <1>1, AlignFacts DEF Ar!MinSize
<1>4. Ar!AlignSize(Commit, PageSize) \in Nat
  BY <1>1, AlignFacts
<1> QED BY <1>2, <1>3, <1>4 DEF Ar!Size

-----------------------------------------------------------------------------
(* The blocks lie where the nesting of the functions puts them. *)

\* Init establishes the invariant.
LEMMA ArenaInit == Ar!Init => ArenaInv
<1> SUFFICES ASSUME Ar!Init PROVE ArenaInv
  OBVIOUS
<1>1. Ar!ReservedSize \in Nat
  BY SizesAreNat
<1>2. Ar!TypeOK
  <2>1. \A a \in Ar!Arenas : committed[a] \subseteq Nat
    BY SizesAreNat DEF Ar!Init, Ar!Pages
  <2> QED BY <1>1, <2>1, SizesAreNat DEF Ar!Init, Ar!TypeOK, Ar!Pages
<1>3. blocks = {} /\ Ar!Depth = 0
  BY DEF Ar!Init, Ar!Depth
<1> QED BY <1>2, <1>3 DEF ArenaInv, Placed, Ar!MarksBelow, Nested, Ar!BlocksApart

\* What the types say, for the steps below.
LEMMA ArenaTypes ==
  ASSUME ArenaInv
  PROVE  /\ Ar!Depth \in Nat
         /\ \A a \in Ar!Arenas : TotalAllocated[a] \in Nat
         /\ \A i \in 1 .. Ar!Depth : frames[i].arena \in Ar!Arenas /\ frames[i].Original \in Nat
         /\ \A b \in blocks : /\ b.arena \in Ar!Arenas /\ b.owner \in 1 .. Ar!Depth
                              /\ b.from \in Nat /\ b.to \in Nat /\ b.from < b.to
                              /\ b.size \in Nat
<1>1. Ar!Depth \in Nat /\ Ar!TypeOK /\ Placed
  BY DEF ArenaInv, Ar!TypeOK, Ar!Depth
<1>2. \A a \in Ar!Arenas : TotalAllocated[a] \in Nat
  BY <1>1, SizesAreNat DEF Ar!TypeOK
<1>3. \A i \in 1 .. Ar!Depth : frames[i].arena \in Ar!Arenas /\ frames[i].Original \in Nat
  <2>1. ASSUME NEW i \in 1 .. Ar!Depth
        PROVE  frames[i] \in [arena : Ar!Arenas, Original : Nat]
    BY <1>1, <2>1, ElementOfSeq DEF Ar!TypeOK, Ar!Depth
  <2> QED BY <2>1
<1>4. ASSUME NEW b \in blocks
      PROVE  /\ b.arena \in Ar!Arenas /\ b.owner \in 1 .. Ar!Depth
             /\ b.from \in Nat /\ b.to \in Nat /\ b.from < b.to /\ b.size \in Nat
  <2>1. /\ b.arena \in Ar!Arenas /\ b.size \in Nat \ {0} /\ b.from \in Nat /\ b.to \in Nat
        /\ b.to = b.from + Ar!AlignSize(b.size, CacheLine) /\ b.owner \in 1 .. Ar!Depth
    BY <1>1, <1>4 DEF Ar!TypeOK, Ar!Block, Placed
  <2>2. Ar!AlignSize(b.size, CacheLine) \in Nat /\ b.size <= Ar!AlignSize(b.size, CacheLine)
    BY <2>1, AlignFacts, ArenaAssumption DEF Ar!ArenaConstants
  <2> QED BY <2>1, <2>2
<1> QED BY <1>1, <1>2, <1>3, <1>4

\* A new mark lies at the top of its arena.
LEMMA EnterKeeps == ASSUME ArenaInv, Ar!Enter PROVE ArenaInv'
<1>1. /\ Ar!Depth \in Nat /\ TotalAllocated' = TotalAllocated /\ blocks' = blocks
      /\ frames' = Append(frames, [arena |-> Ar!Scratch, Original |-> TotalAllocated[Ar!Scratch]])
      /\ Ar!Scratch \in Ar!Arenas /\ TotalAllocated[Ar!Scratch] \in Nat
  BY ArenaTypes DEF Ar!Enter, Ar!Scratch, Ar!Arenas
<1>2. Ar!TypeOK'
  BY <1>1 DEF ArenaInv, Ar!TypeOK, Ar!Enter
<1>3. /\ Ar!Depth' = Ar!Depth + 1
      /\ \A i \in 1 .. Ar!Depth : frames'[i] = frames[i]
      /\ frames'[Ar!Depth + 1].arena = Ar!Scratch
      /\ frames'[Ar!Depth + 1].Original = TotalAllocated[Ar!Scratch]
      /\ \A i \in 1 .. Ar!Depth + 1 : i \in 1 .. Ar!Depth \/ i = Ar!Depth + 1
  BY <1>1 DEF ArenaInv, Ar!TypeOK, Ar!Depth
<1>4. Placed'
  BY <1>1, <1>3 DEF ArenaInv, Placed
<1>5. Ar!MarksBelow'
  <2>1. ASSUME NEW i \in 1 .. Ar!Depth + 1
        PROVE  frames'[i].Original <= TotalAllocated[frames'[i].arena]
    <3>1. CASE i \in 1 .. Ar!Depth
      BY <1>3, <3>1 DEF ArenaInv, Ar!MarksBelow
    <3>2. CASE i = Ar!Depth + 1
      <4>1. TotalAllocated[Ar!Scratch] <= TotalAllocated[Ar!Scratch]
        BY <1>1
      <4> QED BY <1>3, <3>2, <4>1
    <3> QED BY <1>3, <3>1, <3>2
  <2> QED BY <1>1, <1>3, <2>1 DEF Ar!MarksBelow
<1>6. Nested'
  <2>1. ASSUME NEW i \in 1 .. Ar!Depth + 1, NEW j \in 1 .. Ar!Depth + 1,
               i < j, frames'[i].arena = frames'[j].arena
        PROVE  frames'[i].Original <= frames'[j].Original
    <3>1. i \in 1 .. Ar!Depth
      BY <1>1, <2>1
    <3>2. CASE j \in 1 .. Ar!Depth
      BY <1>3, <2>1, <3>1, <3>2 DEF ArenaInv, Nested
    <3>3. CASE j = Ar!Depth + 1
      BY <1>3, <2>1, <3>1, <3>3 DEF ArenaInv, Ar!MarksBelow
    <3> QED BY <1>3, <3>2, <3>3
  <2>2. ASSUME NEW b \in blocks, NEW i \in 1 .. Ar!Depth + 1, b.arena = frames'[i].arena
        PROVE  IF i <= b.owner THEN frames'[i].Original <= b.from
                               ELSE b.to <= frames'[i].Original
    <3>1. CASE i \in 1 .. Ar!Depth
      BY <1>3, <2>2, <3>1 DEF ArenaInv, Nested
    <3>2. CASE i = Ar!Depth + 1
      <4>1. ~ i <= b.owner
        BY <3>2, <1>1, ArenaTypes
      <4>2. b.to <= TotalAllocated[b.arena]
        BY DEF ArenaInv, Ar!BlocksApart
      <4> QED BY <1>3, <2>2, <3>2, <4>1, <4>2
    <3> QED BY <1>3, <3>1, <3>2
  <2> QED BY <1>1, <1>3, <2>1, <2>2 DEF Nested
<1>7. Ar!BlocksApart'
  BY <1>1 DEF ArenaInv, Ar!BlocksApart
<1> QED BY <1>2, <1>4, <1>5, <1>6, <1>7 DEF ArenaInv

\* Going back to the innermost mark takes away the blocks above it, and no other.
LEMMA LeaveKeeps == ASSUME ArenaInv, Ar!Leave PROVE ArenaInv'
<1> DEFINE a == frames[Ar!Depth].arena
           mark == frames[Ar!Depth].Original
<1>1. Ar!Depth \in Nat /\ Ar!Depth # 0
  BY ArenaTypes DEF Ar!Leave, Ar!Depth, ArenaInv, Ar!TypeOK
<1>2. a \in Ar!Arenas /\ mark \in Nat /\ mark <= TotalAllocated[a]
  <2>1. Ar!Depth \in 1 .. Ar!Depth
    BY <1>1
  <2> QED BY <2>1, ArenaTypes DEF ArenaInv, Ar!MarksBelow
<1>3. /\ \A x \in Ar!Arenas : TotalAllocated'[x] = IF x = a THEN mark ELSE TotalAllocated[x]
      /\ frames' = SubSeq(frames, 1, Ar!Depth - 1)
      /\ blocks' = {b \in blocks : b.owner < Ar!Depth}
  BY DEF Ar!Leave, Ar!EndTotal, ArenaInv, Ar!TypeOK
<1>4. /\ Ar!Depth' = Ar!Depth - 1
      /\ \A i \in 1 .. Ar!Depth - 1 : frames'[i] = frames[i] /\ i \in 1 .. Ar!Depth /\ i < Ar!Depth
      /\ frames' \in Seq([arena : Ar!Arenas, Original : Nat])
  <2>1. frames \in Seq([arena : Ar!Arenas, Original : Nat]) /\ Len(frames) = Ar!Depth
    BY DEF ArenaInv, Ar!TypeOK, Ar!Depth
  <2>2. \A i \in 1 .. Ar!Depth - 1 :
          i \in 1 .. Ar!Depth /\ i < Ar!Depth /\ frames[i] \in [arena : Ar!Arenas, Original : Nat]
    <3> SUFFICES ASSUME NEW i \in 1 .. Ar!Depth - 1
                 PROVE  i \in 1 .. Ar!Depth /\ i < Ar!Depth
                        /\ frames[i] \in [arena : Ar!Arenas, Original : Nat]
      OBVIOUS
    <3>1. i \in 1 .. Ar!Depth /\ i < Ar!Depth
      BY <1>1
    <3>2. i \in 1 .. Len(frames)
      BY <2>1, <3>1
    <3> QED BY <2>1, <3>1, <3>2, ElementOfSeq
  <2>3. 1 \in Int /\ Ar!Depth - 1 \in Int /\ (Ar!Depth - 1) - 1 + 1 = Ar!Depth - 1
    BY <1>1
  <2>4. /\ frames' \in Seq([arena : Ar!Arenas, Original : Nat])
        /\ Len(frames') = IF 1 <= Ar!Depth - 1 THEN Ar!Depth - 1 ELSE 0
        /\ \A i \in 1 .. Ar!Depth - 1 : frames'[i] = frames[1 + i - 1]
    BY <1>3, <2>2, <2>3, SubSeqProperties
  <2>5. Ar!Depth' = Ar!Depth - 1
    <3>1. Ar!Depth' = Len(frames')
      BY DEF Ar!Depth
    <3> QED BY <1>1, <2>4, <3>1
  <2>6. \A i \in 1 .. Ar!Depth - 1 : 1 + i - 1 = i
    BY <1>1
  <2> QED BY <2>2, <2>4, <2>5, <2>6
<1>5. Ar!TypeOK'
  <2>1. TotalAllocated' \in [Ar!Arenas -> 0 .. Ar!ReservedSize]
    <3>1. /\ TotalAllocated \in [Ar!Arenas -> 0 .. Ar!ReservedSize]
          /\ TotalAllocated' = [TotalAllocated EXCEPT ![a] = mark]
      BY DEF ArenaInv, Ar!TypeOK, Ar!Leave, Ar!EndTotal
    <3>2. mark \in 0 .. Ar!ReservedSize
      BY <1>2, <3>1, SizesAreNat
    <3> QED BY <3>1, <3>2
  <2> QED BY <1>3, <1>4, <2>1 DEF ArenaInv, Ar!TypeOK, Ar!Leave
<1>6. Placed'
  BY <1>1, <1>3, <1>4, ArenaTypes DEF ArenaInv, Placed
<1>7. Ar!MarksBelow'
  <2>1. ASSUME NEW i \in 1 .. Ar!Depth - 1
        PROVE  frames[i].Original <= TotalAllocated'[frames[i].arena]
    <3>1. i \in 1 .. Ar!Depth /\ frames[i].arena \in Ar!Arenas /\ Ar!Depth \in 1 .. Ar!Depth /\ i < Ar!Depth
      BY <1>1, <1>4, ArenaTypes
    <3>2. CASE frames[i].arena = a
      BY <1>2, <1>3, <3>1, <3>2 DEF ArenaInv, Nested
    <3>3. CASE frames[i].arena # a
      BY <1>3, <3>1, <3>3 DEF ArenaInv, Ar!MarksBelow
    <3> QED BY <3>2, <3>3
  <2> QED BY <1>4, <2>1 DEF Ar!MarksBelow
<1>8. Nested'
  <2>1. ASSUME NEW i \in 1 .. Ar!Depth - 1, NEW j \in 1 .. Ar!Depth - 1,
               i < j, frames'[i].arena = frames'[j].arena
        PROVE  frames'[i].Original <= frames'[j].Original
    BY <1>4, <2>1 DEF ArenaInv, Nested
  <2>2. ASSUME NEW b \in blocks', NEW i \in 1 .. Ar!Depth - 1, b.arena = frames'[i].arena
        PROVE  IF i <= b.owner THEN frames'[i].Original <= b.from
                               ELSE b.to <= frames'[i].Original
    BY <1>3, <1>4, <2>2 DEF ArenaInv, Nested
  <2> QED BY <1>4, <2>1, <2>2 DEF Nested
<1>9. Ar!BlocksApart'
  <2>1. ASSUME NEW b \in blocks, b.owner < Ar!Depth
        PROVE  b.to <= TotalAllocated'[b.arena]
    <3>1. b.arena \in Ar!Arenas /\ b.owner \in 1 .. Ar!Depth /\ Ar!Depth \in 1 .. Ar!Depth
      BY <1>1, ArenaTypes
    <3>2. CASE b.arena = a
      <4>1. ~ Ar!Depth <= b.owner
        BY <1>1, <2>1, <3>1
      <4>2. b.to <= mark
        BY <3>1, <3>2, <4>1 DEF ArenaInv, Nested
      <4> QED BY <1>3, <3>1, <3>2, <4>2
    <3>3. CASE b.arena # a
      BY <1>3, <3>1, <3>3 DEF ArenaInv, Ar!BlocksApart
    <3> QED BY <3>2, <3>3
  <2>2. \A b, c \in blocks' :
          b # c /\ b.arena = c.arena => b.to <= c.from \/ c.to <= b.from
    BY <1>3 DEF ArenaInv, Ar!BlocksApart
  <2> QED BY <1>3, <2>1, <2>2 DEF Ar!BlocksApart
<1> QED BY <1>5, <1>6, <1>7, <1>8, <1>9 DEF ArenaInv

\* A push puts its block above everything in the arena; if it is for the caller,
\* the innermost mark lies in the other arena.
LEMMA PushKeeps ==
  ASSUME ArenaInv, NEW size \in Sizes, NEW owner \in Ar!Owners,
         NEW granted \in BOOLEAN, Ar!ArenaPush(size, owner, granted)
  PROVE  ArenaInv'
<1> DEFINE a == frames[owner].arena
           from == TotalAllocated[a]
           to == from + Ar!AlignSize(size, CacheLine)
           exposed == IF to > Ar!Size THEN ~granted ELSE shrunk[a]
           new == [arena |-> a, owner |-> owner, size |-> size, from |-> from, to |-> to,
                   exposed |-> exposed]
<1>1. Ar!Depth \in Nat /\ owner \in 1 .. Ar!Depth /\ a \in Ar!Arenas /\ from \in Nat
      /\ \A i \in 1 .. Ar!Depth : i > owner => frames[i].arena # a
  <2>1. owner \in 1 .. Ar!Depth /\ Ar!Depth \in Nat
    BY ArenaTypes DEF Ar!Owners
  <2>2. owner = Ar!Depth \/ (owner = Ar!Depth - 1 /\ a # frames[Ar!Depth].arena)
    BY DEF Ar!Owners
  <2>3. \A i \in 1 .. Ar!Depth : i > owner => i = Ar!Depth /\ owner # Ar!Depth
    BY <2>1, <2>2
  <2> QED BY <2>1, <2>2, <2>3, ArenaTypes
<1>2. size \in Nat \ {0} /\ to \in Nat /\ from < to
  <2>1. size \in Nat \ {0} /\ CacheLine \in Nat \ {0}
    BY ArenaAssumption DEF Ar!ArenaConstants
  <2>2. Ar!AlignSize(size, CacheLine) \in Nat /\ size <= Ar!AlignSize(size, CacheLine)
    BY <2>1, AlignFacts
  <2> HIDE DEF from
  <2> QED BY <1>1, <2>1, <2>2
<1>3. /\ to <= Ar!ReservedSize
      /\ TotalAllocated' = [TotalAllocated EXCEPT ![a] = to]
      /\ blocks' = blocks \union {new}
      /\ frames' = frames /\ Index' = Index
      /\ Ar!Depth' = Ar!Depth
  BY DEF Ar!ArenaPush, Ar!Fits, Ar!Depth
<1>4. /\ \A x \in Ar!Arenas : TotalAllocated'[x] = IF x = a THEN to ELSE TotalAllocated[x]
      /\ \A x \in Ar!Arenas : TotalAllocated[x] \in Nat /\ TotalAllocated[x] <= TotalAllocated'[x]
  <2>1. \A x \in Ar!Arenas : TotalAllocated'[x] = IF x = a THEN to ELSE TotalAllocated[x]
    BY <1>3 DEF ArenaInv, Ar!TypeOK
  <2>2. from <= to
    BY <1>1, <1>2
  <2> QED BY <2>1, <2>2, ArenaTypes
<1>5. /\ new.arena = a /\ new.owner = owner /\ new.size = size
      /\ new.from = from /\ new.to = to
  OBVIOUS
<1>6. new \in Ar!Block
  <2>1. exposed \in BOOLEAN
    BY <1>1 DEF ArenaInv, Ar!TypeOK
  <2> QED BY <1>1, <1>2, <2>1 DEF Ar!Block
<1>7. \A b \in blocks : b.arena = a => b.to <= from
  BY DEF ArenaInv, Ar!BlocksApart
<1>8. from = TotalAllocated[a] /\ to = from + Ar!AlignSize(size, CacheLine)
  OBVIOUS
<1>9. committed' \in [Ar!Arenas -> SUBSET Nat]
  <2>1. \A x : Ar!GrowPages(x) \subseteq Nat
    BY DEF Ar!GrowPages, Ar!Pages
  <2> QED BY <2>1 DEF Ar!ArenaPush, ArenaInv, Ar!TypeOK
<1>15. shrunk' \in [Ar!Arenas -> BOOLEAN]
  BY DEF Ar!ArenaPush, ArenaInv, Ar!TypeOK
<1> HIDE DEF a, from, to, exposed, new
<1>10. Ar!TypeOK'
  <2>1. TotalAllocated' \in [Ar!Arenas -> 0 .. Ar!ReservedSize]
    <3>1. to \in 0 .. Ar!ReservedSize
      BY <1>2, <1>3, SizesAreNat
    <3>2. TotalAllocated \in [Ar!Arenas -> 0 .. Ar!ReservedSize]
      BY DEF ArenaInv, Ar!TypeOK
    <3> QED BY <1>3, <3>1, <3>2
  <2>2. blocks' \subseteq Ar!Block
    BY <1>3, <1>6 DEF ArenaInv, Ar!TypeOK
  <2> QED BY <1>3, <1>9, <1>15, <2>1, <2>2 DEF ArenaInv, Ar!TypeOK
<1>11. Placed'
  BY <1>1, <1>3, <1>5, <1>8 DEF ArenaInv, Placed
<1>12. Ar!MarksBelow'
  <2>1. ASSUME NEW i \in 1 .. Ar!Depth
        PROVE  frames[i].Original <= TotalAllocated'[frames[i].arena]
    <3>1. /\ frames[i].arena \in Ar!Arenas /\ frames[i].Original \in Nat
          /\ frames[i].Original <= TotalAllocated[frames[i].arena]
      BY ArenaTypes DEF ArenaInv, Ar!MarksBelow
    <3>2. CASE frames[i].arena = a
      BY <1>1, <1>2, <1>4, <1>8, <3>1, <3>2
    <3>3. CASE frames[i].arena # a
      BY <1>4, <3>1, <3>3
    <3> QED BY <3>2, <3>3
  <2> QED BY <1>3, <2>1 DEF Ar!MarksBelow
<1>13. Nested'
  <2>1. ASSUME NEW i \in 1 .. Ar!Depth, new.arena = frames[i].arena
        PROVE  i <= new.owner /\ frames[i].Original <= new.from
    <3>1. i <= owner
      BY <1>1, <1>5, <2>1
    <3> QED BY <1>5, <1>8, <2>1, <3>1 DEF ArenaInv, Ar!MarksBelow
  <2> QED BY <1>3, <2>1 DEF ArenaInv, Nested
<1>14. Ar!BlocksApart'
  <2>1. ASSUME NEW b \in blocks
        PROVE  b.to <= TotalAllocated'[b.arena]
    <3>1. b.arena \in Ar!Arenas /\ b.to \in Nat /\ b.to <= TotalAllocated[b.arena]
      BY ArenaTypes DEF ArenaInv, Ar!BlocksApart
    <3>2. CASE b.arena = a
      BY <1>1, <1>2, <1>4, <1>7, <3>1, <3>2
    <3>3. CASE b.arena # a
      BY <1>4, <3>1, <3>3
    <3> QED BY <3>2, <3>3
  <2>2. new.to <= TotalAllocated'[new.arena]
    BY <1>1, <1>2, <1>4, <1>5
  <2>3. \A b \in blocks : b.arena = new.arena => b.to <= new.from
    BY <1>5, <1>7
  <2> QED BY <1>3, <2>1, <2>2, <2>3 DEF ArenaInv, Ar!BlocksApart
<1> QED BY <1>10, <1>11, <1>12, <1>13, <1>14 DEF ArenaInv

\* The block that is popped is the last one of its arena, so its place is free.
LEMMA PopKeeps ==
  ASSUME ArenaInv, NEW b \in blocks, Ar!ArenaPop(b) PROVE ArenaInv'
<1>1. /\ b.arena \in Ar!Arenas /\ b.owner = Ar!Depth /\ Ar!Depth \in Nat
      /\ b.from \in Nat /\ b.to \in Nat /\ b.from < b.to
      /\ b.to = TotalAllocated[b.arena]
  BY ArenaTypes DEF Ar!ArenaPop
<1>2. b.to = b.from + Ar!AlignSize(b.size, CacheLine) /\ Ar!AlignSize(b.size, CacheLine) \in Nat
  <2>1. b.size \in Nat /\ CacheLine \in Nat \ {0}
    BY ArenaTypes, ArenaAssumption DEF Ar!ArenaConstants
  <2> QED BY <2>1, AlignFacts DEF ArenaInv, Placed
<1>3. TotalAllocated[b.arena] - Ar!AlignSize(b.size, CacheLine) = b.from
  BY <1>1, <1>2
<1>4. /\ TotalAllocated' = [TotalAllocated EXCEPT ![b.arena] = b.from]
      /\ blocks' = blocks \ {b} /\ frames' = frames /\ Ar!Depth' = Ar!Depth
      /\ committed' = committed /\ Index' = Index /\ shrunk' = shrunk
  BY <1>3 DEF Ar!ArenaPop, Ar!Depth
<1>5. /\ TotalAllocated \in [Ar!Arenas -> 0 .. Ar!ReservedSize]
      /\ b.from \in 0 .. Ar!ReservedSize
  <2>1. TotalAllocated \in [Ar!Arenas -> 0 .. Ar!ReservedSize]
    BY DEF ArenaInv, Ar!TypeOK
  <2>2. TotalAllocated[b.arena] \in 0 .. Ar!ReservedSize
    BY <1>1, <2>1
  <2> QED BY <1>1, <2>1, <2>2, SizesAreNat
<1>6. \A x \in Ar!Arenas :
        TotalAllocated'[x] = IF x = b.arena THEN b.from ELSE TotalAllocated[x]
  BY <1>4, <1>5
<1>7. Ar!TypeOK'
  <2>1. TotalAllocated' \in [Ar!Arenas -> 0 .. Ar!ReservedSize]
    BY <1>4, <1>5
  <2> QED BY <1>4, <2>1 DEF ArenaInv, Ar!TypeOK
<1>8. Placed'
  BY <1>4 DEF ArenaInv, Placed
<1>9. Ar!MarksBelow'
  <2>1. ASSUME NEW i \in 1 .. Ar!Depth
        PROVE  frames[i].Original <= TotalAllocated'[frames[i].arena]
    <3>1. frames[i].arena \in Ar!Arenas
      BY ArenaTypes
    <3>2. CASE frames[i].arena = b.arena
      BY <1>1, <1>6, <3>1, <3>2 DEF ArenaInv, Nested
    <3>3. CASE frames[i].arena # b.arena
      BY <1>6, <3>1, <3>3 DEF ArenaInv, Ar!MarksBelow
    <3> QED BY <3>2, <3>3
  <2> QED BY <1>4, <2>1 DEF Ar!MarksBelow
<1>10. Nested'
  BY <1>4 DEF ArenaInv, Nested
<1>11. Ar!BlocksApart'
  <2>1. ASSUME NEW c \in blocks, c # b
        PROVE  c.to <= TotalAllocated'[c.arena]
    <3>1. /\ c.arena \in Ar!Arenas /\ c.from \in Nat /\ c.to \in Nat /\ c.from < c.to
          /\ c.to <= TotalAllocated[c.arena]
      BY ArenaTypes DEF ArenaInv, Ar!BlocksApart
    <3>2. CASE c.arena = b.arena
      <4>1. c.to <= b.from \/ b.to <= c.from
        BY <2>1, <3>2 DEF ArenaInv, Ar!BlocksApart
      <4> QED BY <1>1, <1>6, <3>1, <3>2, <4>1
    <3>3. CASE c.arena # b.arena
      BY <1>6, <3>1, <3>3
    <3> QED BY <3>2, <3>3
  <2> QED BY <1>4, <2>1 DEF ArenaInv, Ar!BlocksApart
<1> QED BY <1>7, <1>8, <1>9, <1>10, <1>11 DEF ArenaInv

\* Shrinking moves no block.
LEMMA ShrinkKeeps ==
  ASSUME ArenaInv, NEW a \in Ar!Arenas, Ar!ArenaShrink(a) PROVE ArenaInv'
<1>1. /\ TotalAllocated' = TotalAllocated /\ frames' = frames /\ blocks' = blocks
      /\ Index' = Index /\ Ar!Depth' = Ar!Depth
  BY DEF Ar!ArenaShrink, Ar!Depth
<1>2. Ar!TypeOK'
  BY <1>1 DEF Ar!ArenaShrink, ArenaInv, Ar!TypeOK
<1> QED BY <1>1, <1>2 DEF ArenaInv, Placed, Ar!MarksBelow, Nested, Ar!BlocksApart

\* Every step keeps the invariant.
LEMMA ArenaStep == ASSUME ArenaInv, [Ar!Next]_arenaVars PROVE ArenaInv'
<1>1. ASSUME NEW size \in Sizes, NEW owner \in Ar!Owners, NEW granted \in BOOLEAN,
             Ar!ArenaPush(size, owner, granted)
      PROVE  ArenaInv'
  BY <1>1, PushKeeps
<1>2. ASSUME NEW b \in blocks, Ar!ArenaPop(b) PROVE ArenaInv'
  BY <1>2, PopKeeps
<1>3. ASSUME NEW a \in Ar!Arenas, Ar!ArenaShrink(a) PROVE ArenaInv'
  BY <1>3, ShrinkKeeps
<1>4. CASE Ar!Enter
  BY <1>4, EnterKeeps
<1>5. CASE Ar!Leave
  BY <1>5, LeaveKeeps
<1>6. CASE UNCHANGED arenaVars
  BY <1>6
     DEF arenaVars, ArenaInv, Ar!TypeOK, Placed, Ar!MarksBelow, Nested, Ar!BlocksApart,
         Ar!Depth
<1> QED BY <1>1, <1>2, <1>3, <1>4, <1>5, <1>6 DEF Ar!Next

-----------------------------------------------------------------------------
(* Memory in use is committed. *)

\* The pages of a smaller range are among those of a larger one.
LEMMA PagesMonotone ==
  ASSUME NEW a \in Nat, NEW b \in Nat, NEW d \in Nat, b <= d
  PROVE  Ar!Pages(a, b) \subseteq Ar!Pages(0, d)
<1> SUFFICES ASSUME NEW p \in Ar!Pages(a, b) PROVE p \in Ar!Pages(0, d)
  OBVIOUS
<1>1. p \in 0 .. b /\ p * PageSize < b
  BY DEF Ar!Pages
<1>2. PageSize \in Nat \ {0} /\ p \in Nat
  BY <1>1, ArenaAssumption DEF Ar!ArenaConstants
<1>3. p * PageSize \in Nat /\ (p + 1) * PageSize = p * PageSize + PageSize
  BY <1>2
<1>4. p \in 0 .. d /\ p * PageSize < d /\ 0 < (p + 1) * PageSize
  BY <1>1, <1>2, <1>3
<1> QED BY <1>4 DEF Ar!Pages

\* ArenaShrink starts on a page boundary above all that is allocated.
LEMMA ShrinkSparesAllocated ==
  ASSUME ArenaInv, NEW a \in Ar!Arenas, NEW from \in Nat, NEW to \in Nat,
         to <= TotalAllocated[a]
  PROVE  Ar!Pages(from, to) \intersect Ar!Pages(Ar!ShrinkTo(a), Ar!Size) = {}
<1> DEFINE top == Ar!AlignSize(TotalAllocated[a], PageSize)
<1> SUFFICES ASSUME NEW p \in Ar!Pages(from, to), p \in Ar!Pages(Ar!ShrinkTo(a), Ar!Size)
             PROVE  FALSE
  OBVIOUS
<1>1. PageSize \in Nat \ {0} /\ TotalAllocated[a] \in Nat /\ Ar!MinSize \in Nat
  BY ArenaTypes, SizesAreNat, ArenaAssumption DEF Ar!ArenaConstants
<1>2. PICK k \in Nat : top = PageSize * k
  BY <1>1, AlignFacts
<1>3. top \in Nat /\ TotalAllocated[a] <= top
  BY <1>1, AlignFacts
<1>4. p \in Nat /\ p * PageSize < to
  BY DEF Ar!Pages
<1>5. Ar!ShrinkTo(a) = top + Ar!MinSize /\ Ar!ShrinkTo(a) < (p + 1) * PageSize
  BY DEF Ar!Pages, Ar!ShrinkTo
<1> HIDE DEF top
<1>6. p * PageSize = PageSize * p /\ (p + 1) * PageSize = PageSize * p + PageSize
      /\ PageSize * p \in Nat
  BY <1>1, <1>4
<1>7. PageSize * p < PageSize * k
  BY <1>1, <1>2, <1>3, <1>4, <1>6
<1>8. PageSize * k < PageSize * p + PageSize
  BY <1>1, <1>2, <1>3, <1>5, <1>6
<1>9. ~ p < k
  <2> SUFFICES ASSUME p < k PROVE FALSE
    OBVIOUS
  <2>1. PageSize * p + PageSize <= PageSize * k
    BY <1>1, <1>2, <1>4, MultiplesApart
  <2> QED BY <1>1, <1>2, <1>3, <1>6, <1>8, <2>1
<1>10. ~ k < p
  <2> SUFFICES ASSUME k < p PROVE FALSE
    OBVIOUS
  <2>1. PageSize * k + PageSize <= PageSize * p
    BY <1>1, <1>2, <1>4, MultiplesApart
  <2> QED BY <1>1, <1>2, <1>3, <1>6, <1>7, <2>1
<1>11. p = k
  BY <1>2, <1>4, <1>9, <1>10
<1> QED BY <1>6, <1>7, <1>11

\* At first nothing is in use, and the first commit is there.
LEMMA CommitInit == Ar!Init => CommitInv
  BY DEF Ar!Init, CommitInv, FirstCommitKept, Ar!LiveCommitted

\* A step other than a shrink takes no page away.
LEMMA PagesStay ==
  ASSUME ArenaInv, [Ar!Next]_arenaVars, NEW b \in blocks, b.arena \in Ar!Arenas, Ar!Backed(b),
         \A a \in Ar!Arenas : ~Ar!ArenaShrink(a)
  PROVE  Ar!Backed(b)'
<1>1. committed[b.arena] \subseteq committed'[b.arena]
  <2>1. committed \in [Ar!Arenas -> SUBSET Nat]
    BY DEF ArenaInv, Ar!TypeOK
  <2>2. ASSUME NEW size \in Sizes, NEW owner \in Ar!Owners, NEW granted \in BOOLEAN,
               Ar!ArenaPush(size, owner, granted)
        PROVE  committed[b.arena] \subseteq committed'[b.arena]
    BY <2>1, <2>2 DEF Ar!ArenaPush
  <2>3. ASSUME NEW c \in blocks, Ar!ArenaPop(c)
        PROVE  committed[b.arena] \subseteq committed'[b.arena]
    BY <2>3 DEF Ar!ArenaPop
  <2> QED BY <2>2, <2>3 DEF Ar!Next, Ar!Enter, Ar!Leave, arenaVars
<1> QED BY <1>1 DEF Ar!Backed

\* Nor does a shrink take one away under a block in use.
LEMMA BackedStays ==
  ASSUME ArenaInv, [Ar!Next]_arenaVars, NEW b \in blocks, Ar!Backed(b)
  PROVE  Ar!Backed(b)'
<1>1. b.arena \in Ar!Arenas /\ b.from \in Nat /\ b.to \in Nat /\ b.to <= TotalAllocated[b.arena]
  BY ArenaTypes DEF ArenaInv, Ar!BlocksApart
<1>2. ASSUME NEW a \in Ar!Arenas, Ar!ArenaShrink(a)
      PROVE  Ar!Backed(b)'
  <2>1. committed' = [committed EXCEPT ![a] = @ \ Ar!Pages(Ar!ShrinkTo(a), Ar!Size)]
    BY <1>2 DEF Ar!ArenaShrink
  <2>2. committed \in [Ar!Arenas -> SUBSET Nat]
    BY DEF ArenaInv, Ar!TypeOK
  <2>3. CASE a = b.arena
    <3>1. Ar!Pages(b.from, b.to) \intersect Ar!Pages(Ar!ShrinkTo(a), Ar!Size) = {}
      BY <1>1, <2>3, ShrinkSparesAllocated
    <3> QED BY <1>1, <2>1, <2>2, <2>3, <3>1 DEF Ar!Backed
  <2>4. CASE a # b.arena
    BY <1>1, <2>1, <2>2, <2>4 DEF Ar!Backed
  <2> QED BY <2>3, <2>4
<1>3. CASE \A a \in Ar!Arenas : ~Ar!ArenaShrink(a)
  BY <1>1, <1>3, PagesStay
<1> QED BY <1>2, <1>3

\* The pages of the first commit are among those that a grow commits.
LEMMA GrowCoversFirst ==
  ASSUME NEW to \in Nat, to > Ar!Size
  PROVE  Ar!Pages(0, Ar!Size) \subseteq Ar!GrowPages(to)
<1>1. Ar!Size \in Nat /\ PageSize \in Nat \ {0}
  BY SizesAreNat, ArenaAssumption DEF Ar!ArenaConstants
<1>2. Ar!AlignSize(to, PageSize) \in Nat /\ to <= Ar!AlignSize(to, PageSize)
  BY <1>1, AlignFacts
<1>3. Ar!Size <= Ar!AlignSize(to, PageSize)
  BY <1>1, <1>2
<1> QED BY <1>1, <1>2, <1>3, PagesMonotone DEF Ar!GrowPages

\* A push that nobody left exposed lies in the first commit or commits all up to
\* its own end.
LEMMA PushCommits ==
  ASSUME ArenaInv, CommitInv, NEW size \in Sizes, NEW owner \in Ar!Owners,
         NEW granted \in BOOLEAN, Ar!ArenaPush(size, owner, granted),
         NEW b \in blocks', b \notin blocks
  PROVE  b.exposed \/ Ar!Backed(b)'
<1>1. /\ b.arena = frames[owner].arena /\ b.from = TotalAllocated[b.arena]
      /\ b.to = b.from + Ar!AlignSize(size, CacheLine)
      /\ b.exposed = IF b.to > Ar!Size THEN ~granted ELSE shrunk[b.arena]
      /\ committed' = [committed EXCEPT ![b.arena] =
             IF b.to > Ar!Size /\ granted THEN @ \union Ar!GrowPages(b.to) ELSE @]
  <2> DEFINE a == frames[owner].arena
             to == TotalAllocated[a] + Ar!AlignSize(size, CacheLine)
             new == [arena |-> a, owner |-> owner, size |-> size,
                     from |-> TotalAllocated[a], to |-> to,
                     exposed |-> IF to > Ar!Size THEN ~granted ELSE shrunk[a]]
  <2>1. /\ blocks' = blocks \union {new}
        /\ committed' = [committed EXCEPT ![a] =
             IF to > Ar!Size /\ granted THEN @ \union Ar!GrowPages(to) ELSE @]
    BY DEF Ar!ArenaPush
  <2>2. b = new
    BY <2>1
  <2>3. /\ b.arena = a /\ b.from = TotalAllocated[a] /\ b.to = to
        /\ b.exposed = IF to > Ar!Size THEN ~granted ELSE shrunk[a]
    BY <2>2
  <2> QED BY <2>1, <2>3
<1>2. /\ b.arena \in Ar!Arenas /\ b.from \in Nat /\ b.to \in Nat
      /\ Ar!Size \in Nat /\ PageSize \in Nat \ {0}
  <2>1. owner \in 1 .. Ar!Depth
    BY DEF Ar!Owners
  <2>2. Ar!AlignSize(size, CacheLine) \in Nat
    BY AlignFacts, ArenaAssumption DEF Ar!ArenaConstants
  <2>3. b.arena \in Ar!Arenas /\ b.from \in Nat
    BY <1>1, <2>1, ArenaTypes
  <2> QED BY <1>1, <2>2, <2>3, SizesAreNat, ArenaAssumption DEF Ar!ArenaConstants
<1>3. committed \in [Ar!Arenas -> SUBSET Nat]
  BY DEF ArenaInv, Ar!TypeOK
<1>4. CASE b.to > Ar!Size
  <2> SUFFICES ASSUME granted PROVE Ar!Backed(b)'
    BY <1>1, <1>4
  <2>1. Ar!AlignSize(b.to, PageSize) \in Nat /\ b.to <= Ar!AlignSize(b.to, PageSize)
    BY <1>2, AlignFacts
  <2>2. Ar!Pages(b.from, b.to) \subseteq Ar!GrowPages(b.to)
    BY <1>2, <2>1, PagesMonotone DEF Ar!GrowPages
  <2> QED BY <1>1, <1>2, <1>3, <1>4, <2>2 DEF Ar!Backed
<1>5. CASE ~ b.to > Ar!Size
  <2> SUFFICES ASSUME ~shrunk[b.arena] PROVE Ar!Backed(b)'
    BY <1>1, <1>5
  <2>1. b.to <= Ar!Size
    BY <1>2, <1>5
  <2>2. Ar!Pages(b.from, b.to) \subseteq Ar!Pages(0, Ar!Size)
    BY <1>2, <2>1, PagesMonotone
  <2>3. Ar!Pages(0, Ar!Size) \subseteq committed'[b.arena]
    BY <1>1, <1>2, <1>3, <1>5 DEF CommitInv, FirstCommitKept
  <2> QED BY <2>2, <2>3 DEF Ar!Backed
<1> QED BY <1>4, <1>5

\* A push keeps the first commit where it was, and restores it by a grow.
LEMMA PushKeepsFirst ==
  ASSUME ArenaInv, CommitInv, NEW size \in Sizes, NEW owner \in Ar!Owners,
         NEW granted \in BOOLEAN, Ar!ArenaPush(size, owner, granted)
  PROVE  FirstCommitKept'
<1> DEFINE a == frames[owner].arena
           to == TotalAllocated[a] + Ar!AlignSize(size, CacheLine)
<1>1. /\ shrunk' = [shrunk EXCEPT ![a] = @ /\ ~(to > Ar!Size /\ granted)]
      /\ committed' = [committed EXCEPT ![a] =
             IF to > Ar!Size /\ granted THEN @ \union Ar!GrowPages(to) ELSE @]
  BY DEF Ar!ArenaPush
<1>2. shrunk \in [Ar!Arenas -> BOOLEAN] /\ committed \in [Ar!Arenas -> SUBSET Nat]
  BY DEF ArenaInv, Ar!TypeOK
<1>3. a \in Ar!Arenas /\ to \in Nat
  <2>1. owner \in 1 .. Ar!Depth
    BY DEF Ar!Owners
  <2>2. a \in Ar!Arenas /\ TotalAllocated[a] \in Nat
    BY <2>1, ArenaTypes
  <2>3. Ar!AlignSize(size, CacheLine) \in Nat
    BY AlignFacts, ArenaAssumption DEF Ar!ArenaConstants
  <2> QED BY <2>2, <2>3
<1> HIDE DEF a, to
<1>4. ASSUME NEW x \in Ar!Arenas, ~shrunk'[x]
      PROVE  Ar!Pages(0, Ar!Size) \subseteq committed'[x]
  <2>1. CASE x = a /\ to > Ar!Size /\ granted
    <3>1. Ar!Pages(0, Ar!Size) \subseteq Ar!GrowPages(to)
      BY <1>3, <2>1, GrowCoversFirst
    <3> QED BY <1>1, <1>2, <1>3, <2>1, <3>1
  <2>2. CASE ~ (x = a /\ to > Ar!Size /\ granted)
    <3>1. ~shrunk[x] /\ committed'[x] = committed[x]
      BY <1>1, <1>2, <1>3, <1>4, <2>2
    <3> QED BY <1>4, <3>1 DEF CommitInv, FirstCommitKept
  <2> QED BY <2>1, <2>2
<1> QED BY <1>4 DEF FirstCommitKept

\* Every step keeps the first commit, until a shrink, and what LiveCommitted says.
LEMMA CommitStep ==
  ASSUME ArenaInv, CommitInv, [Ar!Next]_arenaVars PROVE CommitInv'
<1>1. shrunk \in [Ar!Arenas -> BOOLEAN] /\ committed \in [Ar!Arenas -> SUBSET Nat]
  BY DEF ArenaInv, Ar!TypeOK
<1>2. FirstCommitKept'
  <2>1. ASSUME NEW size \in Sizes, NEW owner \in Ar!Owners, NEW granted \in BOOLEAN,
               Ar!ArenaPush(size, owner, granted)
        PROVE  FirstCommitKept'
    BY <2>1, PushKeepsFirst
  <2>2. ASSUME NEW a \in Ar!Arenas, Ar!ArenaShrink(a) PROVE FirstCommitKept'
    BY <1>1, <2>2 DEF Ar!ArenaShrink, CommitInv, FirstCommitKept
  <2> QED BY <2>1, <2>2
          DEF Ar!Next, Ar!Enter, Ar!Leave, Ar!ArenaPop, arenaVars, CommitInv, FirstCommitKept
<1>3. ASSUME NEW b \in blocks'
      PROVE  b.exposed \/ Ar!Backed(b)'
  <2>1. CASE b \in blocks
    <3>1. b.exposed \/ Ar!Backed(b)
      BY <2>1 DEF CommitInv, Ar!LiveCommitted
    <3> QED BY <2>1, <3>1, BackedStays
  <2>2. CASE b \notin blocks
    <3>1. PICK size \in Sizes, owner \in Ar!Owners, granted \in BOOLEAN :
            Ar!ArenaPush(size, owner, granted)
      BY <1>3, <2>2
         DEF Ar!Next, Ar!Enter, Ar!Leave, Ar!ArenaPop, Ar!ArenaShrink, arenaVars
    <3> QED BY <1>3, <2>2, <3>1, PushCommits
  <2> QED BY <2>1, <2>2
<1> QED BY <1>2, <1>3 DEF CommitInv, Ar!LiveCommitted

\* What the arenas hold, and the pages that back it.
LEMMA ArenaInvariant == Spec => [](ArenaInv /\ CommitInv)
<1>1. Init => ArenaInv /\ CommitInv
  BY PartsStart, ArenaInit, CommitInit
<1>2. ArenaInv /\ CommitInv /\ [Next]_vars => (ArenaInv /\ CommitInv)'
  BY OnePartSteps, ArenaStep, CommitStep
<1> QED BY <1>1, <1>2, PTL DEF Spec

\* No two blocks that are in use overlap, however deep functions nest and
\* whichever of the two arenas they were dealt.
THEOREM FunctionsKeepTheirMemory == Spec => []BlocksApart
<1>1. ArenaInv => BlocksApart
  BY DEF ArenaInv, BlocksApart
<1> QED BY <1>1, ArenaInvariant, PTL

\* The assertion of ArenaSnapshotEnd (Arena.h:230) holds whenever it is reached.
THEOREM SnapshotsNest == Spec => []Ar!MarksBelow
<1>1. ArenaInv => Ar!MarksBelow
  BY DEF ArenaInv
<1> QED BY <1>1, ArenaInvariant, PTL

\* What functions use is committed, although ArenaGrow forgets what it committed
\* (Arena.h:177) and ArenaShrink what it took (202).  The exceptions are the blocks
\* that were handed out exposed: the platform refused the commit, which ArenaPush
\* does not learn (180-183), or an arena that was shrunk, and has not grown since,
\* took the block below Size.
THEOREM MemoryInUseIsCommitted == Spec => []LiveCommitted
<1>1. CommitInv => LiveCommitted
  BY DEF CommitInv, LiveCommitted
<1> QED BY <1>1, ArenaInvariant, PTL

\* No step takes a page away under a block that is in use.
THEOREM NoPageIsTaken == Spec => StaysCommitted
<1>1. ArenaInv /\ [Next]_vars =>
        [\A b \in blocks \intersect blocks' : Ar!Backed(b) => Ar!Backed(b)']_(Ar!vars)
  BY OnePartSteps, BackedStays
<1> QED BY <1>1, ArenaInvariant, PTL DEF Spec, StaysCommitted, Ar!StaysCommitted

-----------------------------------------------------------------------------
(* Pool: the list threads the items that Count lets out. *)

PoolInv == Po!TypeOK /\ Po!Threaded /\ Po!OneOwner

\* Items that are all different are no more than Capacity.
LEMMA DifferentItemsFit ==
  ASSUME NEW s \in Seq(Po!Items),
         \A j, k \in 1 .. Len(s) : s[j] = s[k] => j = k
  PROVE  Len(s) <= PoolSize
<1>1. PoolSize \in Nat /\ Len(s) \in Nat /\ s \in [1 .. Len(s) -> Po!Items]
  BY LenProperties, PoolAssumption DEF Po!PoolConstants
<1>2. IsFiniteSet(Po!Items) /\ Cardinality(Po!Items) = PoolSize
  <2>1. Cardinality(0 .. PoolSize - 1) = IF 0 > PoolSize - 1 THEN 0 ELSE PoolSize
    BY <1>1, FS_Interval
  <2> QED BY <1>1, <2>1, FS_Interval, PoolAssumption DEF Po!Items, Po!PoolConstants
<1>3. IsFiniteSet(1 .. Len(s)) /\ Cardinality(1 .. Len(s)) = Len(s)
  <2>1. Cardinality(1 .. Len(s)) = IF 1 > Len(s) THEN 0 ELSE Len(s) - 1 + 1
    BY <1>1, FS_Interval
  <2> QED BY <1>1, <2>1, FS_Interval
<1> SUFFICES ASSUME PoolSize < Len(s) PROVE FALSE
  BY <1>1
<1> QED BY <1>1, <1>2, <1>3, FS_PigeonHole

\* Init establishes the invariant: the list threads all items downwards.
LEMMA PoolInit == Po!Init => PoolInv
<1> SUFFICES ASSUME Po!Init PROVE PoolInv
  OBVIOUS
<1>1. PoolSize \in Nat \ {0} /\ Po!Items = 0 .. PoolSize - 1
  BY PoolAssumption DEF Po!PoolConstants, Po!Items
<1>2. usable \in Seq(Po!Items) /\ Len(usable) = PoolSize
      /\ \A k \in 1 .. PoolSize : usable[k] = PoolSize - k
  BY <1>1 DEF Po!Init, Po!FromTop
<1>3. Po!TypeOK
  BY <1>1, <1>2 DEF Po!Init, Po!TypeOK, Po!Pushed
<1>4. Po!Threaded
  <2>1. FreeList = PoolSize - 1 /\ poolCount = 0 /\ \A i \in Po!Items : owners[i] = 0
    BY DEF Po!Init
  <2>2. \A i \in Po!Items : i # 0 => Link[i] = i - 1
    BY <1>1 DEF Po!Init, Po!Pushed
  <2>3. usable # <<>> => FreeList = usable[1]
    BY <1>1, <1>2, <2>1
  <2>4. \A k \in 1 .. PoolSize - 1 : Link[usable[k]] = usable[k + 1]
    <3> SUFFICES ASSUME NEW k \in 1 .. PoolSize - 1
                 PROVE  Link[usable[k]] = usable[k + 1]
      OBVIOUS
    <3>1. /\ usable[k] = PoolSize - k /\ usable[k + 1] = PoolSize - k - 1
          /\ PoolSize - k \in Po!Items /\ PoolSize - k # 0
      BY <1>1, <1>2
    <3> QED BY <2>2, <3>1
  <2>5. \A k \in 1 .. PoolSize : owners[usable[k]] = 0
    BY <1>1, <1>2, <2>1
  <2>6. \A j, k \in 1 .. PoolSize : usable[j] = usable[k] => j = k
    BY <1>1, <1>2
  <2>7. Len(usable) = PoolSize - poolCount
    BY <1>1, <1>2, <2>1
  <2> QED BY <1>2, <2>3, <2>4, <2>5, <2>6, <2>7 DEF Po!Threaded
<1> QED BY <1>3, <1>4 DEF PoolInv, Po!OneOwner, Po!Init

\* A reset threads all items downwards, of which Count lets the upper ones out.
LEMMA ResetKeeps == ASSUME PoolInv, Po!Reset PROVE PoolInv'
<1>1. PoolSize \in Nat \ {0} /\ Po!Items = 0 .. PoolSize - 1 /\ poolCount \in 0 .. PoolSize
  BY PoolAssumption DEF Po!PoolConstants, Po!Items, PoolInv, Po!TypeOK
<1> DEFINE n == PoolSize - poolCount
<1>2. n \in 0 .. PoolSize
  BY <1>1
<1>3. usable' \in Seq(Po!Items) /\ Len(usable') = n
      /\ \A k \in 1 .. n : usable'[k] = PoolSize - k
  BY <1>1, <1>2 DEF Po!Reset, Po!FromTop
<1>4. /\ FreeList' = PoolSize - 1 /\ poolCount' = poolCount
      /\ Link' = [i \in Po!Items |-> IF i = 0 THEN FreeList ELSE i - 1]
      /\ owners' = [i \in Po!Items |-> 0]
  BY DEF Po!Reset, Po!Pushed
<1>5. Po!TypeOK'
  <2>1. Link' \in [Po!Items -> Po!Items \union {null, User}]
    BY <1>1, <1>4 DEF PoolInv, Po!TypeOK
  <2> QED BY <1>1, <1>3, <1>4, <2>1 DEF Po!TypeOK
<1> HIDE DEF n
<1>6. Po!Threaded'
  <2>1. usable' # <<>> => FreeList' = usable'[1]
    BY <1>2, <1>3, <1>4
  <2>2. \A k \in 1 .. n - 1 : Link'[usable'[k]] = usable'[k + 1]
    <3> SUFFICES ASSUME NEW k \in 1 .. n - 1
                 PROVE  Link'[usable'[k]] = usable'[k + 1]
      OBVIOUS
    <3>1. /\ usable'[k] = PoolSize - k /\ usable'[k + 1] = PoolSize - k - 1
          /\ PoolSize - k \in Po!Items /\ PoolSize - k # 0
      BY <1>1, <1>2, <1>3
    <3> QED BY <1>4, <3>1
  <2>3. \A k \in 1 .. n : owners'[usable'[k]] = 0
    BY <1>1, <1>2, <1>3, <1>4
  <2>4. \A j, k \in 1 .. n : usable'[j] = usable'[k] => j = k
    BY <1>1, <1>2, <1>3
  <2> QED BY <1>3, <1>4, <2>1, <2>2, <2>3, <2>4 DEF Po!Threaded, n
<1> QED BY <1>4, <1>5, <1>6 DEF PoolInv, Po!OneOwner

\* Get takes the first item of the list, which nobody holds.
LEMMA GetKeeps == ASSUME PoolInv, Po!Get PROVE PoolInv'
<1>1. /\ PoolSize \in Nat \ {0} /\ poolCount \in 0 .. PoolSize - 1
      /\ FreeList \in Po!Items \union {null, User}
      /\ Link \in [Po!Items -> Po!Items \union {null, User}]
      /\ owners \in [Po!Items -> Nat] /\ usable \in Seq(Po!Items)
      /\ Len(usable) = PoolSize - poolCount
  BY PoolAssumption DEF Po!PoolConstants, PoolInv, Po!TypeOK, Po!Threaded, Po!Get
<1> DEFINE n == Len(usable)
<1>2. n \in Nat \ {0} /\ usable # <<>> /\ \A k \in 1 .. n : usable[k] \in Po!Items
  BY <1>1
<1>3. /\ FreeList = usable[1] /\ FreeList \in Po!Items
      /\ owners[FreeList] = 0
      /\ \A k \in 2 .. n : usable[k] # FreeList /\ owners[usable[k]] = 0
      /\ \A k \in 1 .. n - 1 : Link[usable[k]] = usable[k + 1]
      /\ \A j, k \in 1 .. n : usable[j] = usable[k] => j = k
  BY <1>2 DEF PoolInv, Po!Threaded
<1>4. /\ usable' \in Seq(Po!Items) /\ Len(usable') = n - 1
      /\ \A k \in 1 .. n - 1 : usable'[k] = usable[k + 1]
  BY <1>1, <1>2, HeadTailProperties DEF Po!Get
<1>5. /\ FreeList' = Link[FreeList] /\ poolCount' = poolCount + 1
      /\ Link' = [Link EXCEPT ![FreeList] = User]
      /\ owners' = [owners EXCEPT ![FreeList] = @ + 1]
  BY DEF Po!Get
<1>6. Po!TypeOK'
  BY <1>1, <1>3, <1>4, <1>5 DEF Po!TypeOK
<1> HIDE DEF n
<1>7. Po!Threaded'
  <2>1. usable' # <<>> => FreeList' = usable'[1]
    <3>1. usable' # <<>> => n - 1 # 0
      BY <1>4
    <3> QED BY <3>1, <1>2, <1>3, <1>4, <1>5
  <2>2. \A k \in 1 .. (n - 1) - 1 : Link'[usable'[k]] = usable'[k + 1]
    <3> SUFFICES ASSUME NEW k \in 1 .. (n - 1) - 1
                 PROVE  Link'[usable'[k]] = usable'[k + 1]
      OBVIOUS
    <3>1. /\ k \in 1 .. n - 1 /\ k + 1 \in 1 .. n - 1 /\ k + 1 \in 2 .. n
          /\ k + 1 \in 1 .. n
      BY <1>2
    <3>2. usable'[k] = usable[k + 1] /\ usable'[k + 1] = usable[k + 1 + 1]
      BY <3>1, <1>4
    <3>3. Link'[usable[k + 1]] = Link[usable[k + 1]]
      BY <3>1, <1>1, <1>2, <1>3, <1>5
    <3> QED BY <3>1, <3>2, <3>3, <1>3
  <2>3. \A k \in 1 .. n - 1 : owners'[usable'[k]] = 0
    <3> SUFFICES ASSUME NEW k \in 1 .. n - 1 PROVE owners'[usable'[k]] = 0
      OBVIOUS
    <3>1. k + 1 \in 2 .. n /\ k + 1 \in 1 .. n
      BY <1>2
    <3>2. usable'[k] = usable[k + 1]
      BY <1>4
    <3>3. /\ usable[k + 1] \in Po!Items /\ usable[k + 1] # FreeList
          /\ owners[usable[k + 1]] = 0
      BY <3>1, <1>2, <1>3
    <3>4. owners'[usable[k + 1]] = owners[usable[k + 1]]
      BY <3>3, <1>1, <1>5
    <3> QED BY <3>2, <3>3, <3>4
  <2>4. \A j, k \in 1 .. n - 1 : usable'[j] = usable'[k] => j = k
    <3> SUFFICES ASSUME NEW j \in 1 .. n - 1, NEW k \in 1 .. n - 1,
                        usable'[j] = usable'[k]
                 PROVE  j = k
      OBVIOUS
    <3>1. usable[j + 1] = usable[k + 1]
      BY <1>4
    <3>a. j + 1 \in 1 .. n /\ k + 1 \in 1 .. n
      BY <1>2
    <3>2. j + 1 = k + 1
      BY <3>1, <3>a, <1>3
    <3> QED BY <3>2, <1>2
  <2>5. n - 1 = PoolSize - poolCount'
    BY <1>1, <1>5 DEF n
  <2> QED BY <1>4, <2>1, <2>2, <2>3, <2>4, <2>5 DEF Po!Threaded
<1>8. Po!OneOwner'
  BY <1>1, <1>3, <1>5 DEF Po!OneOwner, PoolInv
<1> QED BY <1>6, <1>7, <1>8 DEF PoolInv

\* A returned item becomes the first of the list.
LEMMA ReturnKeeps ==
  ASSUME PoolInv, NEW ptr \in Po!Items, Po!Return(ptr)
  PROVE  PoolInv'
<1>1. /\ PoolSize \in Nat \ {0} /\ poolCount \in 0 .. PoolSize
      /\ FreeList \in Po!Items \union {null, User}
      /\ Link \in [Po!Items -> Po!Items \union {null, User}]
      /\ owners \in [Po!Items -> Nat] /\ usable \in Seq(Po!Items)
      /\ Len(usable) = PoolSize - poolCount
  BY PoolAssumption DEF Po!PoolConstants, PoolInv, Po!TypeOK, Po!Threaded
<1> DEFINE n == Len(usable)
<1>2. n \in Nat /\ \A k \in 1 .. n : usable[k] \in Po!Items
  BY <1>1
<1>3. /\ usable # <<>> => FreeList = usable[1]
      /\ \A k \in 1 .. n : usable[k] # ptr /\ owners[usable[k]] = 0
      /\ \A k \in 1 .. n - 1 : Link[usable[k]] = usable[k + 1]
      /\ \A j, k \in 1 .. n : usable[j] = usable[k] => j = k
      /\ owners[ptr] = 1
  BY <1>1, <1>2 DEF PoolInv, Po!Threaded, Po!OneOwner, Po!Return
<1>4. /\ usable' \in Seq(Po!Items) /\ Len(usable') = n + 1
      /\ usable'[1] = ptr
      /\ \A k \in 2 .. n + 1 : usable'[k] = usable[k - 1]
  <2>1. <<ptr>> \in Seq(Po!Items) /\ Len(<<ptr>>) = 1 /\ <<ptr>>[1] = ptr
    OBVIOUS
  <2> QED BY <2>1, <1>1, <1>2, ConcatProperties DEF Po!Return
<1>5. /\ FreeList' = ptr /\ poolCount' = poolCount - 1
      /\ Link' = [Link EXCEPT ![ptr] = FreeList]
      /\ owners' = [owners EXCEPT ![ptr] = @ - 1]
  BY DEF Po!Return
<1> HIDE DEF n
<1>6. \A j, k \in 1 .. n + 1 : usable'[j] = usable'[k] => j = k
  <2> SUFFICES ASSUME NEW j \in 1 .. n + 1, NEW k \in 1 .. n + 1,
                      usable'[j] = usable'[k]
               PROVE  j = k
    OBVIOUS
  <2>1. \A i \in 1 .. n + 1 : i # 1 => i \in 2 .. n + 1 /\ i - 1 \in 1 .. n
    BY <1>2
  <2>2. CASE j = 1 \/ k = 1
    BY <2>1, <2>2, <1>3, <1>4
  <2>3. CASE j # 1 /\ k # 1
    <3>1. j - 1 = k - 1
      BY <2>1, <2>3, <1>3, <1>4
    <3> QED BY <3>1, <1>2
  <2> QED BY <2>2, <2>3
<1>7. n + 1 <= PoolSize
  BY <1>4, <1>6, DifferentItemsFit
<1>8. poolCount' \in 0 .. PoolSize /\ n + 1 = PoolSize - poolCount'
  BY <1>1, <1>2, <1>5, <1>7 DEF n
<1>9. Po!TypeOK'
  BY <1>1, <1>3, <1>4, <1>5, <1>8 DEF Po!TypeOK
<1>10. Po!Threaded'
  <2>1. \A k \in 1 .. (n + 1) - 1 : Link'[usable'[k]] = usable'[k + 1]
    <3> SUFFICES ASSUME NEW k \in 1 .. (n + 1) - 1
                 PROVE  Link'[usable'[k]] = usable'[k + 1]
      OBVIOUS
    <3>1. k + 1 \in 2 .. n + 1 /\ usable'[k + 1] = usable[k] /\ k \in 1 .. n
      BY <1>2, <1>4
    <3>2. CASE k = 1
      <4>1. usable # <<>>
        BY <3>1, <3>2, <1>2 DEF n
      <4> QED BY <3>1, <3>2, <4>1, <1>1, <1>3, <1>4, <1>5
    <3>3. CASE k # 1
      <4>1. k \in 2 .. n + 1 /\ k - 1 \in 1 .. n - 1 /\ k - 1 \in 1 .. n /\ (k - 1) + 1 = k
        BY <3>1, <3>3, <1>2
      <4>2. Link'[usable[k - 1]] = Link[usable[k - 1]]
        BY <4>1, <1>1, <1>2, <1>3, <1>5
      <4> QED BY <3>1, <4>1, <4>2, <1>3, <1>4
    <3> QED BY <3>2, <3>3
  <2>2. \A k \in 1 .. n + 1 : owners'[usable'[k]] = 0
    <3> SUFFICES ASSUME NEW k \in 1 .. n + 1 PROVE owners'[usable'[k]] = 0
      OBVIOUS
    <3>1. CASE k = 1
      BY <3>1, <1>1, <1>3, <1>4, <1>5
    <3>2. CASE k # 1
      <4>1. k \in 2 .. n + 1 /\ k - 1 \in 1 .. n
        BY <3>2, <1>2
      <4> QED BY <4>1, <1>1, <1>2, <1>3, <1>4, <1>5
    <3> QED BY <3>1, <3>2
  <2> QED BY <1>4, <1>5, <1>6, <1>8, <2>1, <2>2 DEF Po!Threaded
<1>11. Po!OneOwner'
  BY <1>1, <1>3, <1>5 DEF Po!OneOwner, PoolInv
<1> QED BY <1>9, <1>10, <1>11 DEF PoolInv

\* Every step keeps the invariant.
LEMMA PoolStep == ASSUME PoolInv, [Po!Next]_poolVars PROVE PoolInv'
<1>1. CASE Po!Reset
  BY <1>1, ResetKeeps
<1>2. CASE Po!Get
  BY <1>2, GetKeeps
<1>3. ASSUME NEW ptr \in Po!Items, Po!Return(ptr) PROVE PoolInv'
  BY <1>3, ReturnKeeps
<1>4. CASE UNCHANGED poolVars
  BY <1>4 DEF poolVars, PoolInv, Po!TypeOK, Po!Threaded, Po!OneOwner
<1> QED BY <1>1, <1>2, <1>3, <1>4 DEF Po!Next

\* The list threads exactly the items that Count lets out, and nobody has them.
LEMMA PoolInvariant == Spec => []PoolInv
<1>1. Init => PoolInv
  BY PartsStart, PoolInit
<1>2. PoolInv /\ [Next]_vars => PoolInv'
  BY OnePartSteps, PoolStep
<1> QED BY <1>1, <1>2, PTL DEF Spec

\* No item of a pool is handed out to two callers at once, although from the
\* first Reset on the free list is a cycle.
THEOREM ItemsHaveOneOwner == Spec => []OneOwner
<1>1. PoolInv => OneOwner
  BY DEF PoolInv, OneOwner
<1> QED BY <1>1, PoolInvariant, PTL

-----------------------------------------------------------------------------
(* SparseSet: the tables name each other. *)

\* Each position of the front holds the value last added for its id.
Valued == \A i \in 0 .. sparseCount - 1 : Dense[i] = stored[DenseLookup[i]]

\* An id that is neither held nor stale has no position.
Gone == \A id \in Se!Ids \ (Se!Held \union stale) : Sparse[id] = EMPTY

SetInv == Se!TypeOK /\ (~spoilt => Se!Packed /\ Valued /\ Gone)

\* Init establishes the invariant.
LEMMA SetInit == Se!Init => SetInv
<1> SUFFICES ASSUME Se!Init PROVE SetInv
  OBVIOUS
<1>1. Se!TypeOK
  <2>1. 0 \in Se!Ids /\ 0 \in 0 .. SetSize
    BY SetAssumption DEF Se!SparseSetConstants, Se!Ids
  <2> QED BY <2>1 DEF Se!Init, Se!TypeOK
<1>2. Se!Held = {} /\ 0 .. sparseCount - 1 = {}
  <2>1. Se!Held = {}
    BY DEF Se!Init, Se!Held
  <2>2. sparseCount = 0
    BY DEF Se!Init
  <2>3. 0 .. sparseCount - 1 = {}
    BY <2>2
  <2> QED BY <2>1, <2>3
<1>3. Se!Packed /\ Valued
  BY <1>2 DEF Se!Packed, Valued
<1>4. Gone
  BY DEF Se!Init, Gone
<1> QED BY <1>1, <1>3, <1>4 DEF SetInv

\* Adding an id that is not held puts it behind the others.
LEMMA AddKeeps ==
  ASSUME SetInv, NEW id \in Se!Ids, NEW value \in Values,
         Se!Add(id, value), ~spoilt
  PROVE  SetInv'
<1>1. /\ Sparse \in [Se!Ids -> Se!Ids \union {EMPTY}] /\ DenseLookup \in [Se!Ids -> Se!Ids]
      /\ Dense \in [Se!Ids -> Values \union {Zero}]
      /\ stored \in [Se!Ids -> Values \union {Zero}]
      /\ sparseCount \in 0 .. SetSize - 1 /\ SetSize \in Nat
      /\ Se!Packed /\ Valued /\ Gone
  BY SetAssumption DEF Se!SparseSetConstants, SetInv, Se!TypeOK, Se!Add
<1>2. /\ sparseCount \in Se!Ids
      /\ \A i \in 0 .. sparseCount - 1 : i \in Se!Ids /\ i # sparseCount
      /\ \A j \in Se!Held : j \in Se!Ids /\ j # id
      /\ value # Zero
  <2>1. /\ sparseCount \in Se!Ids
        /\ \A i \in 0 .. sparseCount - 1 : i \in Se!Ids /\ i # sparseCount
    BY <1>1 DEF Se!Ids
  <2>2. id \notin Se!Held
    BY DEF Se!Add
  <2>3. \A j \in Se!Held : j \in Se!Ids /\ j # id
    <3>1. Se!Held \subseteq Se!Ids
      BY DEF Se!Held
    <3> QED BY <2>2, <3>1
  <2> QED BY <2>1, <2>3, SetAssumption DEF Se!SparseSetConstants
<1>3. /\ \A i \in Se!Ids : /\ DenseLookup'[i] = IF i = sparseCount THEN id ELSE DenseLookup[i]
                        /\ Dense'[i] = IF i = sparseCount THEN value ELSE Dense[i]
      /\ \A j \in Se!Ids : /\ Sparse'[j] = IF j = id THEN sparseCount ELSE Sparse[j]
                        /\ stored'[j] = IF j = id THEN value ELSE stored[j]
      /\ sparseCount' = sparseCount + 1
  <2>1. /\ DenseLookup' = [DenseLookup EXCEPT ![sparseCount] = id]
        /\ Dense' = [Dense EXCEPT ![sparseCount] = value]
    BY DEF Se!Add
  <2>2. /\ Sparse' = [Sparse EXCEPT ![id] = sparseCount]
        /\ stored' = [stored EXCEPT ![id] = value]
        /\ sparseCount' = sparseCount + 1
    BY DEF Se!Add
  <2>3. \A i \in Se!Ids : /\ DenseLookup'[i] = IF i = sparseCount THEN id ELSE DenseLookup[i]
                       /\ Dense'[i] = IF i = sparseCount THEN value ELSE Dense[i]
    BY <1>1, <2>1
  <2>4. \A j \in Se!Ids : /\ Sparse'[j] = IF j = id THEN sparseCount ELSE Sparse[j]
                       /\ stored'[j] = IF j = id THEN value ELSE stored[j]
    BY <1>1, <2>2
  <2> QED BY <2>2, <2>3, <2>4
<1>4. Se!Held' = Se!Held \union {id}
  BY <1>1, <1>2, <1>3 DEF Se!Held
<1>5. Se!TypeOK'
  <2>1. /\ Sparse' \in [Se!Ids -> Se!Ids \union {EMPTY}] /\ DenseLookup' \in [Se!Ids -> Se!Ids]
        /\ Dense' \in [Se!Ids -> Values \union {Zero}]
        /\ stored' \in [Se!Ids -> Values \union {Zero}]
    BY <1>1, <1>2 DEF Se!Add
  <2>2. sparseCount' \in 0 .. SetSize
    BY <1>1, <1>3
  <2>3. stale' \subseteq Se!Ids /\ spoilt' \in BOOLEAN
    BY DEF SetInv, Se!TypeOK, Se!Add
  <2> QED BY <2>1, <2>2, <2>3 DEF Se!TypeOK
<1>6. \A i \in 0 .. sparseCount' - 1 : i = sparseCount \/ i \in 0 .. sparseCount - 1
  BY <1>1, <1>3
<1>7. Se!Packed'
  <2>1. ASSUME NEW i \in 0 .. sparseCount' - 1
        PROVE  DenseLookup'[i] \in Se!Held' /\ Sparse'[DenseLookup'[i]] = i
    <3>1. CASE i = sparseCount
      BY <3>1, <1>2, <1>3, <1>4
    <3>2. CASE i \in 0 .. sparseCount - 1
      <4>1. DenseLookup[i] \in Se!Held /\ Sparse[DenseLookup[i]] = i
        BY <3>2, <1>1 DEF Se!Packed
      <4>2. i \in Se!Ids /\ i # sparseCount
        BY <3>2, <1>2
      <4>3. DenseLookup'[i] = DenseLookup[i]
        BY <4>2, <1>3
      <4>4. DenseLookup[i] \in Se!Ids /\ DenseLookup[i] # id
        BY <4>1, <1>2
      <4> QED BY <4>1, <4>3, <4>4, <1>3, <1>4
    <3> QED BY <3>1, <3>2, <1>6
  <2>2. ASSUME NEW j \in Se!Held'
        PROVE  Sparse'[j] \in 0 .. sparseCount' - 1 /\ DenseLookup'[Sparse'[j]] = j
    <3>1. CASE j = id
      BY <3>1, <1>1, <1>2, <1>3
    <3>2. CASE j \in Se!Held
      <4>1. Sparse'[j] = Sparse[j]
        BY <3>2, <1>2, <1>3
      <4>2. Sparse[j] \in 0 .. sparseCount - 1 /\ DenseLookup[Sparse[j]] = j
        BY <3>2, <1>1 DEF Se!Packed
      <4>3. DenseLookup'[Sparse[j]] = j
        BY <4>2, <1>2, <1>3
      <4> QED BY <4>1, <4>2, <4>3, <1>1, <1>3
    <3> QED BY <2>2, <3>1, <3>2, <1>4
  <2> QED BY <2>1, <2>2 DEF Se!Packed
<1>8. Valued'
  <2> SUFFICES ASSUME NEW i \in 0 .. sparseCount' - 1
               PROVE  Dense'[i] = stored'[DenseLookup'[i]]
    BY DEF Valued
  <2>1. CASE i = sparseCount
    BY <2>1, <1>2, <1>3
  <2>2. CASE i \in 0 .. sparseCount - 1
    <3>1. DenseLookup[i] \in Se!Held
      BY <2>2, <1>1 DEF Se!Packed
    <3>2. i \in Se!Ids /\ i # sparseCount
      BY <2>2, <1>2
    <3>3. DenseLookup[i] \in Se!Ids /\ DenseLookup[i] # id
      BY <3>1, <1>2
    <3>4. Dense[i] = stored[DenseLookup[i]]
      BY <2>2, <1>1 DEF Valued
    <3>5. DenseLookup'[i] = DenseLookup[i] /\ Dense'[i] = Dense[i]
      BY <3>2, <1>3
    <3>6. stored'[DenseLookup[i]] = stored[DenseLookup[i]]
      BY <3>3, <1>3
    <3> QED BY <3>4, <3>5, <3>6
  <2> QED BY <2>1, <2>2, <1>6
<1>9. Gone'
  BY <1>1, <1>3, <1>4 DEF Gone, Se!Add
<1> QED BY <1>5, <1>7, <1>8, <1>9 DEF SetInv

\* Removing a held id moves the last value into the gap.
LEMMA RemoveKeeps ==
  ASSUME SetInv, NEW id \in Se!Ids, Se!Remove(id), ~spoilt, id \in Se!Held
  PROVE  SetInv'
<1> DEFINE idx == Sparse[id]
           last == sparseCount - 1
           lastId == DenseLookup[last]
<1>1. /\ Sparse \in [Se!Ids -> Se!Ids \union {EMPTY}] /\ DenseLookup \in [Se!Ids -> Se!Ids]
      /\ Dense \in [Se!Ids -> Values \union {Zero}]
      /\ stored \in [Se!Ids -> Values \union {Zero}]
      /\ sparseCount \in 0 .. SetSize /\ SetSize \in Nat
      /\ Se!Packed /\ Valued /\ Gone
  BY SetAssumption DEF Se!SparseSetConstants, SetInv, Se!TypeOK
<1>2. id \in Se!Held /\ idx \in 0 .. last /\ DenseLookup[idx] = id
  BY <1>1 DEF Se!Packed
<1>3. sparseCount \in 1 .. SetSize /\ last \in 0 .. last
  BY <1>1, <1>2
<1>4. lastId \in Se!Held /\ Sparse[lastId] = last
  BY <1>1, <1>3 DEF Se!Packed
<1>5. /\ idx \in Se!Ids /\ last \in Se!Ids /\ lastId \in Se!Ids
      /\ \A i \in 0 .. sparseCount - 2 : i \in Se!Ids /\ i \in 0 .. last /\ i # last
  BY <1>1, <1>2, <1>3, <1>4 DEF Se!Ids, Se!Held
<1>6. /\ DenseLookup' = [DenseLookup EXCEPT ![idx] = lastId]
      /\ Dense' = [Dense EXCEPT ![idx] = Dense[last]]
      /\ Sparse' = [Sparse EXCEPT ![id] = EMPTY, ![lastId] = idx]
      /\ stored' = [stored EXCEPT ![id] = Zero]
      /\ sparseCount' = last
      /\ stale' = IF lastId = id THEN stale \union {id} ELSE stale
  BY DEF Se!Remove
<1>7. /\ idx = Sparse[id] /\ last = sparseCount - 1 /\ lastId = DenseLookup[last]
      /\ last \in Nat
  BY <1>3
<1> HIDE DEF idx, last, lastId
<1>8. /\ \A i \in Se!Ids : /\ DenseLookup'[i] = IF i = idx THEN lastId ELSE DenseLookup[i]
                        /\ Dense'[i] = IF i = idx THEN Dense[last] ELSE Dense[i]
      /\ \A j \in Se!Ids : Sparse'[j] = IF j = lastId THEN idx
                                     ELSE IF j = id THEN EMPTY ELSE Sparse[j]
      /\ \A j \in Se!Ids : stored'[j] = IF j = id THEN Zero ELSE stored[j]
  BY <1>1, <1>5, <1>6
<1>9. Se!Held' = Se!Held \ {id}
  BY <1>1, <1>8 DEF Se!Held
<1>10. Se!TypeOK'
  <2>1. /\ Sparse' \in [Se!Ids -> Se!Ids \union {EMPTY}] /\ DenseLookup' \in [Se!Ids -> Se!Ids]
        /\ Dense' \in [Se!Ids -> Values \union {Zero}]
        /\ stored' \in [Se!Ids -> Values \union {Zero}]
    BY <1>1, <1>5, <1>6
  <2>2. sparseCount' \in 0 .. SetSize
    BY <1>1, <1>3, <1>6, <1>7
  <2>3. stale' \subseteq Se!Ids /\ spoilt' \in BOOLEAN
    BY DEF SetInv, Se!TypeOK, Se!Remove
  <2> QED BY <2>1, <2>2, <2>3 DEF Se!TypeOK
<1>11. 0 .. sparseCount' - 1 = 0 .. sparseCount - 2
  BY <1>3, <1>6, <1>7
<1>12. Se!Packed'
  <2>1. ASSUME NEW i \in 0 .. sparseCount - 2
        PROVE  DenseLookup'[i] \in Se!Held' /\ Sparse'[DenseLookup'[i]] = i
    <3>1. i \in Se!Ids /\ i \in 0 .. last /\ i # last
      BY <1>5
    <3>2. CASE i = idx
      <4>1. lastId # id
        BY <3>1, <3>2, <1>4, <1>7
      <4> QED BY <3>1, <3>2, <4>1, <1>4, <1>5, <1>8, <1>9
    <3>3. CASE i # idx
      <4>1. DenseLookup[i] \in Se!Held /\ Sparse[DenseLookup[i]] = i
        BY <3>1, <1>1, <1>7 DEF Se!Packed
      <4>2. DenseLookup[i] # id /\ DenseLookup[i] # lastId
        BY <4>1, <3>1, <3>3, <1>4, <1>7
      <4> QED BY <3>1, <3>3, <4>1, <4>2, <1>1, <1>8, <1>9
    <3> QED BY <3>2, <3>3
  <2>2. ASSUME NEW j \in Se!Held'
        PROVE  Sparse'[j] \in 0 .. sparseCount - 2 /\ DenseLookup'[Sparse'[j]] = j
    <3>1. j \in Se!Held /\ j # id /\ j \in Se!Ids
      BY <1>9 DEF Se!Held
    <3>2. Sparse[j] \in 0 .. last /\ DenseLookup[Sparse[j]] = j
      BY <3>1, <1>1, <1>7 DEF Se!Packed
    <3>3. CASE j = lastId
      <4>1. idx # last
        BY <3>1, <3>3, <1>2, <1>7
      <4>2. Sparse'[j] = idx /\ DenseLookup'[idx] = j
        BY <3>1, <3>3, <1>5, <1>8
      <4>3. idx \in 0 .. sparseCount - 2
        BY <4>1, <1>2, <1>3, <1>7
      <4> QED BY <4>2, <4>3
    <3>4. CASE j # lastId
      <4>1. Sparse'[j] = Sparse[j]
        BY <3>1, <3>4, <1>8
      <4>2. Sparse[j] # idx /\ Sparse[j] # last
        BY <3>1, <3>2, <3>4, <1>2, <1>7
      <4>3. Sparse[j] \in 0 .. sparseCount - 2
        BY <3>2, <4>2, <1>3, <1>7
      <4> QED BY <4>1, <4>2, <4>3, <3>2, <1>5, <1>8
    <3> QED BY <3>3, <3>4
  <2> QED BY <2>1, <2>2, <1>11 DEF Se!Packed
<1>13. Valued'
  <2> SUFFICES ASSUME NEW i \in 0 .. sparseCount - 2
               PROVE  Dense'[i] = stored'[DenseLookup'[i]]
    BY <1>11 DEF Valued
  <2>1. i \in Se!Ids /\ i \in 0 .. last /\ last \in 0 .. last
    BY <1>3, <1>5, <1>7
  <2>2. DenseLookup'[i] \in Se!Ids \ {id}
    BY <1>9, <1>11, <1>12 DEF Se!Packed, Se!Held
  <2>3. CASE i = idx
    <3>1. Dense[last] = stored[lastId]
      BY <2>1, <1>1, <1>7 DEF Valued
    <3> QED BY <3>1, <2>1, <2>2, <2>3, <1>8
  <2>4. CASE i # idx
    <3>1. Dense[i] = stored[DenseLookup[i]]
      BY <2>1, <1>1, <1>7 DEF Valued
    <3> QED BY <3>1, <2>1, <2>2, <2>4, <1>8
  <2> QED BY <2>3, <2>4
<1>14. Gone'
  <2> SUFFICES ASSUME NEW j \in Se!Ids, j \notin Se!Held', j \notin stale'
               PROVE  Sparse'[j] = EMPTY
    BY DEF Gone
  <2>1. CASE j = id
    BY <1>6, <1>8, <2>1
  <2>2. CASE j # id
    <3>1. j \notin Se!Held /\ j \notin stale
      BY <1>6, <1>9, <2>2
    <3>2. j # lastId
      BY <1>4, <3>1
    <3> QED BY <1>1, <1>8, <2>2, <3>1, <3>2 DEF Gone
  <2> QED BY <2>1, <2>2
<1> QED BY <1>10, <1>12, <1>13, <1>14 DEF SetInv

\* When an id that is not held is removed, or was before, only the types are left.
LEMMA SetTypesKeep ==
  ASSUME SetInv, NEW id \in Se!Ids,
         (spoilt /\ \E value \in Values : Se!Add(id, value))
           \/ (Se!Remove(id) /\ (spoilt \/ id \notin Se!Held))
  PROVE  SetInv'
<1>1. /\ Sparse \in [Se!Ids -> Se!Ids \union {EMPTY}] /\ DenseLookup \in [Se!Ids -> Se!Ids]
      /\ Dense \in [Se!Ids -> Values \union {Zero}]
      /\ stored \in [Se!Ids -> Values \union {Zero}]
      /\ sparseCount \in 0 .. SetSize /\ SetSize \in Nat
      /\ stale \subseteq Se!Ids /\ spoilt \in BOOLEAN
  BY SetAssumption DEF Se!SparseSetConstants, SetInv, Se!TypeOK
<1>2. ASSUME spoilt, NEW value \in Values, Se!Add(id, value) PROVE SetInv'
  <2>1. sparseCount # SetSize /\ sparseCount' = sparseCount + 1
    BY <1>2 DEF Se!Add
  <2>2. sparseCount \in Se!Ids /\ sparseCount' \in 0 .. SetSize
    BY <1>1, <2>1 DEF Se!Ids
  <2>3. Se!TypeOK'
    BY <1>1, <1>2, <2>2 DEF Se!Add, Se!TypeOK
  <2> QED BY <1>2, <2>3 DEF SetInv, Se!Add
<1>3. ASSUME Se!Remove(id), spoilt \/ id \notin Se!Held PROVE SetInv'
  <2>1. sparseCount > 0 /\ sparseCount' = sparseCount - 1 /\ Sparse[id] # EMPTY
    BY <1>3 DEF Se!Remove
  <2>2. /\ sparseCount - 1 \in Se!Ids /\ sparseCount' \in 0 .. SetSize
        /\ Sparse[id] \in Se!Ids
    BY <1>1, <2>1 DEF Se!Ids
  <2>3. DenseLookup[sparseCount - 1] \in Se!Ids /\ Dense[sparseCount - 1] \in Values \union {Zero}
    BY <1>1, <2>2
  <2>4. Se!TypeOK'
    BY <1>1, <1>3, <2>2, <2>3 DEF Se!Remove, Se!TypeOK
  <2>5. spoilt'
    BY <1>1, <1>3 DEF Se!Remove
  <2> QED BY <2>4, <2>5 DEF SetInv
<1> QED BY <1>2, <1>3

\* Every step keeps the invariant.
LEMMA SetStep == ASSUME SetInv, [Se!Next]_setVars PROVE SetInv'
<1>1. ASSUME NEW id \in Se!Ids, NEW value \in Values, Se!Add(id, value) PROVE SetInv'
  <2>1. CASE spoilt
    BY <1>1, <2>1, SetTypesKeep
  <2>2. CASE ~spoilt
    BY <1>1, <2>2, AddKeeps
  <2> QED BY <2>1, <2>2
<1>2. ASSUME NEW id \in Se!Ids, Se!Remove(id) PROVE SetInv'
  <2>1. CASE spoilt \/ id \notin Se!Held
    BY <1>2, <2>1, SetTypesKeep
  <2>2. CASE ~spoilt /\ id \in Se!Held
    BY <1>2, <2>2, RemoveKeeps
  <2> QED BY <2>1, <2>2
<1>3. CASE UNCHANGED setVars
  BY <1>3 DEF setVars, SetInv, Se!TypeOK, Se!Packed, Valued, Gone, Se!Held
<1>4. ASSUME NEW id \in Se!Ids, Se!RemoveNever(id) PROVE SetInv'
  BY <1>3, <1>4 DEF Se!RemoveNever, Se!vars, setVars
<1> QED BY <1>1, <1>2, <1>3, <1>4 DEF Se!Next

\* The front of Dense and the held ids name each other, each position with its value.
LEMMA SetInvariant == Spec => []SetInv
<1>1. Init => SetInv
  BY PartsStart, SetInit
<1>2. SetInv /\ [Next]_vars => SetInv'
  BY OnePartSteps, SetStep
<1> QED BY <1>1, <1>2, PTL DEF Spec

\* Get answers the value last added for every id that is held, and nothing for any
\* other that is not stale, for every capacity and set of values, however often values
\* were moved.
THEOREM HeldIdsFound == Spec => []HeldFound
<1>1. SetInv => HeldFound
  <2> SUFFICES ASSUME SetInv, ~spoilt
               PROVE  /\ \A id \in Se!Held : Se!Get(id) = stored[id]
                      /\ \A id \in Se!Ids \ (Se!Held \union stale) : Se!Get(id) = Zero
    BY DEF HeldFound, Se!HeldFound
  <2>1. ASSUME NEW id \in Se!Held PROVE Se!Get(id) = stored[id]
    <3>1. Sparse[id] \in 0 .. sparseCount - 1 /\ DenseLookup[Sparse[id]] = id
      BY DEF SetInv, Se!Packed
    <3>2. Dense[Sparse[id]] = stored[id]
      BY <3>1 DEF SetInv, Valued
    <3>3. sparseCount \in 0 .. SetSize /\ SetSize \in Nat /\ EMPTY \notin 0 .. SetSize
      BY SetAssumption DEF Se!SparseSetConstants, SetInv, Se!TypeOK
    <3>4. Sparse[id] # EMPTY /\ Sparse[id] < sparseCount
      BY <3>1, <3>3
    <3> QED BY <3>2, <3>4 DEF Se!Get
  <2>2. ASSUME NEW id \in Se!Ids \ (Se!Held \union stale) PROVE Se!Get(id) = Zero
    BY <2>2 DEF SetInv, Gone, Se!Get
  <2> QED BY <2>1, <2>2
<1> QED BY <1>1, SetInvariant, PTL

\* A walk over the front of Dense meets every held id once, as long as no stale id was
\* removed.
THEOREM DenseIsPacked == Spec => [](spoilt \/ Se!Packed)
<1>1. SetInv => spoilt \/ Se!Packed
  BY DEF SetInv
<1> QED BY <1>1, SetInvariant, PTL

-----------------------------------------------------------------------------
(* Profiler: what an anchor will have been charged when all scopes are closed. *)

\* Each scope names the one around it.
Chained ==
  /\ \A i \in 1 .. Len(scopes) :
       scopes[i].ParentIndex = IF i = 1 THEN 0 ELSE scopes[i - 1].AnchorIndex
  /\ g_ProfilerParentIndex = Pr!Current

\* What closing scope i now would add to a's own time.
Charge(i, a) ==
  (IF scopes[i].AnchorIndex = a THEN clock - scopes[i].Start ELSE 0)
    - (IF scopes[i].ParentIndex = a THEN clock - scopes[i].Start ELSE 0)

\* If the scopes were closed now, from the innermost on, a would be left with the time
\* its scopes were the innermost ones; self[i] is what it has when i are still open.
Settles(a) ==
  \E self \in [0 .. Len(scopes) -> Int] :
    /\ Congruent(ElapsedSelf[a], self[Len(scopes)], W)
    /\ \A i \in 1 .. Len(scopes) : self[i - 1] = self[i] + Charge(i, a)
    /\ Congruent(self[0], innermost[a], W)

Outermost(i) == \A j \in 1 .. i - 1 : scopes[j].AnchorIndex # scopes[i].AnchorIndex

\* The outermost scope of an anchor holds what its total will be.
ChildrenSettle ==
  /\ \A a \in Anchors \ Pr!Open : Congruent(ElapsedChildren[a], inside[a], W)
  /\ \A i \in 1 .. Len(scopes) :
       Outermost(i) =>
         Congruent(scopes[i].OldElapsedChildren + (clock - scopes[i].Start),
                   inside[scopes[i].AnchorIndex], W)

ProfilerInv ==
  /\ Pr!TypeOK
  /\ innermost \in [Pr!All -> Int] /\ inside \in [Pr!All -> Int]
  /\ Chained
  /\ \A a \in Anchors : Settles(a)
  /\ ChildrenSettle

\* What the types say, for the steps below.
LEMMA ProfilerTypes ==
  ASSUME ProfilerInv
  PROVE  /\ W \in Nat \ {0} /\ clock \in Nat /\ Len(scopes) \in Nat
         /\ 0 \notin Anchors /\ Anchors \subseteq Nat /\ Pr!All = Anchors \union {0}
         /\ ElapsedSelf \in [Pr!All -> Int] /\ ElapsedChildren \in [Pr!All -> Int]
         /\ innermost \in [Pr!All -> Int] /\ inside \in [Pr!All -> Int]
         /\ \A i \in 1 .. Len(scopes) :
              /\ scopes[i].AnchorIndex \in Anchors /\ scopes[i].ParentIndex \in Pr!All
              /\ scopes[i].Start \in Int /\ scopes[i].OldElapsedChildren \in Int
<1>1. W \in Nat \ {0} /\ Anchors \subseteq Nat \ {0} /\ Pr!TypeOK
  BY ProfilerAssumption DEF Pr!ProfilerConstants, ProfilerInv
<1>2. Pr!Word \subseteq Int
  BY <1>1 DEF Pr!Word
<1>3. ElapsedSelf \in [Pr!All -> Int] /\ ElapsedChildren \in [Pr!All -> Int]
  BY <1>1, <1>2 DEF Pr!TypeOK
<1>4. ASSUME NEW i \in 1 .. Len(scopes)
      PROVE  /\ scopes[i].AnchorIndex \in Anchors /\ scopes[i].ParentIndex \in Pr!All
             /\ scopes[i].Start \in Int /\ scopes[i].OldElapsedChildren \in Int
  <2> DEFINE R == [AnchorIndex : Anchors, ParentIndex : Pr!All, Start : Pr!Word,
                   OldElapsedChildren : Pr!Word]
  <2>1. scopes \in Seq(R)
    BY <1>1 DEF Pr!TypeOK
  <2> HIDE DEF R
  <2>2. scopes[i] \in R
    BY <1>4, <2>1, ElementOfSeq
  <2> QED BY <1>2, <2>2 DEF R
<1>5. Len(scopes) \in Nat /\ clock \in Nat
  BY <1>1, LenProperties DEF Pr!TypeOK
<1> QED BY <1>1, <1>3, <1>4, <1>5 DEF Pr!All, ProfilerInv

\* A number is congruent to itself.
LEMMA CongruentSame == ASSUME NEW x \in Int, NEW C \in Nat \ {0} PROVE Congruent(x, x, C)
<1>1. 0 \in Int /\ x = x + C * 0
  OBVIOUS
<1> QED BY <1>1 DEF Congruent

LEMMA ProfilerInit == ASSUME Pr!Init PROVE ProfilerInv
<1>1. W \in Nat \ {0} /\ Anchors \subseteq Nat \ {0} /\ 0 \in Pr!Word
  BY ProfilerAssumption DEF Pr!ProfilerConstants, Pr!Word
<1>2. /\ scopes = <<>> /\ Len(scopes) = 0 /\ clock = 0 /\ g_ProfilerParentIndex = 0
      /\ ElapsedSelf = [a \in Pr!All |-> 0] /\ ElapsedChildren = [a \in Pr!All |-> 0]
      /\ innermost = [a \in Pr!All |-> 0] /\ inside = [a \in Pr!All |-> 0]
  BY DEF Pr!Init
<1>3. Pr!TypeOK
  BY <1>1, <1>2 DEF Pr!TypeOK, Pr!All
<1>4. Chained
  BY <1>2 DEF Chained, Pr!Current
<1>5. Congruent(0, 0, W)
  BY <1>1, CongruentSame
<1>6. ASSUME NEW a \in Anchors PROVE Settles(a)
  <2>1. PICK self \in [0 .. Len(scopes) -> Int] : self[0] = 0
    <3>1. [i \in 0 .. Len(scopes) |-> 0] \in [0 .. Len(scopes) -> Int]
      OBVIOUS
    <3>2. [i \in 0 .. Len(scopes) |-> 0][0] = 0
      BY <1>2
    <3> QED BY <3>1, <3>2
  <2>2. ElapsedSelf[a] = 0 /\ innermost[a] = 0
    BY <1>2 DEF Pr!All
  <2> QED BY <1>2, <1>5, <2>1, <2>2 DEF Settles
<1>7. ChildrenSettle
  BY <1>2, <1>5 DEF ChildrenSettle, Pr!All
<1>8. innermost \in [Pr!All -> Int] /\ inside \in [Pr!All -> Int]
  BY <1>2
<1> QED BY <1>3, <1>4, <1>6, <1>7, <1>8 DEF ProfilerInv

\* A tick is a tick for the innermost scope: what the others gain, the ones inside
\* them will take off again.
LEMMA TickKeeps == ASSUME ProfilerInv, Pr!Tick PROVE ProfilerInv'
<1> DEFINE n == Len(scopes)
<1>1. /\ clock' = clock + 1
      /\ innermost' = [innermost EXCEPT ![Pr!Current] = @ + 1]
      /\ inside' = [a \in Pr!All |-> IF a \in Pr!Open THEN inside[a] + 1 ELSE inside[a]]
      /\ UNCHANGED <<scopes, g_ProfilerParentIndex, ElapsedSelf, ElapsedChildren>>
  BY DEF Pr!Tick
<1>2. /\ W \in Nat \ {0} /\ clock \in Nat /\ n \in Nat
      /\ 0 \notin Anchors /\ Pr!All = Anchors \union {0}
      /\ innermost \in [Pr!All -> Int] /\ inside \in [Pr!All -> Int]
  BY ProfilerTypes
<1>i. \A i \in 1 .. n : /\ scopes[i].AnchorIndex \in Anchors
                        /\ scopes[i].Start \in Int /\ scopes[i].OldElapsedChildren \in Int
  BY ProfilerTypes
<1>3. Pr!TypeOK'
  BY <1>1, <1>2 DEF Pr!TypeOK, ProfilerInv
<1>4. Pr!Current = IF n = 0 THEN 0 ELSE scopes[n].AnchorIndex
  <2>1. n = 0 <=> scopes = <<>>
    BY <1>2, EmptySeq DEF Pr!TypeOK, ProfilerInv
  <2> QED BY <2>1 DEF Pr!Current, Pr!Top
<1> HIDE DEF n
<1>5. Pr!Current \in Pr!All
  <2>1. n # 0 => n \in 1 .. n
    BY <1>2
  <2> QED BY <1>2, <1>i, <1>4, <2>1
<1>6. innermost' \in [Pr!All -> Int] /\ inside' \in [Pr!All -> Int]
  <2>1. innermost' \in [Pr!All -> Int]
    BY <1>1, <1>2, <1>5
  <2>2. \A a \in Pr!All : inside[a] + 1 \in Int /\ inside[a] \in Int
    BY <1>2
  <2> QED BY <1>1, <2>1, <2>2
<1>7. Chained'
  BY <1>1 DEF Chained, Pr!Current, Pr!Top, ProfilerInv
<1>8. ASSUME NEW a \in Anchors PROVE Settles(a)'
  <2>1. PICK self \in [0 .. n -> Int] :
          /\ Congruent(ElapsedSelf[a], self[n], W)
          /\ \A i \in 1 .. n : self[i - 1] = self[i] + Charge(i, a)
          /\ Congruent(self[0], innermost[a], W)
    BY DEF Settles, ProfilerInv, n
  <2> DEFINE one == IF Pr!Current = a THEN 1 ELSE 0
             other(i) == IF i > 0 /\ scopes[i].AnchorIndex = a THEN 1 ELSE 0
  <2>2. one \in Int /\ \A i \in 0 .. n : other(i) \in Int
    OBVIOUS
  <2> HIDE DEF one, other
  <2>3. PICK next \in [0 .. n -> Int] : \A i \in 0 .. n : next[i] = self[i] + one - other(i)
    <3>1. [i \in 0 .. n |-> self[i] + one - other(i)] \in [0 .. n -> Int]
      BY <2>2
    <3> QED BY <3>1
  <2>4. next[n] = self[n]
    <3>1. other(n) = one
      BY <1>2, <1>4 DEF one, other
    <3>2. n \in 0 .. n /\ self[n] \in Int
      BY <1>2
    <3> QED BY <2>2, <2>3, <3>1, <3>2
  <2>5. next[0] = self[0] + one /\ self[0] \in Int
    <3>1. other(0) = 0 /\ 0 \in 0 .. n
      BY <1>2 DEF other
    <3> QED BY <2>2, <2>3, <3>1
  <2>6. innermost'[a] = innermost[a] + one /\ innermost[a] \in Int
    BY <1>1, <1>2, <1>5 DEF one
  <2>7. Congruent(next[0], innermost'[a], W)
    <3>1. Congruent(one, one, W)
      BY <1>2, <2>2, CongruentSame
    <3> QED BY <1>2, <2>1, <2>2, <2>5, <2>6, <3>1, CongruentSum
  <2>8. ASSUME NEW i \in 1 .. n PROVE next[i - 1] = next[i] + Charge(i, a)'
    <3>1. i \in 0 .. n /\ i - 1 \in 0 .. n /\ self[i] \in Int /\ self[i - 1] \in Int
      BY <1>2, <2>1
    <3>2. Charge(i, a) \in Int /\ Charge(i, a)' = Charge(i, a) + other(i) - other(i - 1)
      <4>1. scopes[i].ParentIndex = IF i = 1 THEN 0 ELSE scopes[i - 1].AnchorIndex
        BY DEF Chained, ProfilerInv, n
      <4>2. scopes[i].ParentIndex = a <=> other(i - 1) = 1
        BY <1>2, <3>1, <4>1 DEF other
      <4>3. scopes[i].AnchorIndex = a <=> other(i) = 1
        BY DEF other
      <4>4. other(i) \in {0, 1} /\ other(i - 1) \in {0, 1}
        BY DEF other
      <4>5. /\ scopes' = scopes /\ clock - scopes[i].Start \in Int
            /\ clock' - scopes[i].Start = clock - scopes[i].Start + 1
        <5>1. scopes[i].Start \in Int
          BY <1>i
        <5>2. clock' = clock + 1 /\ clock \in Int /\ scopes' = scopes
          BY <1>1, <1>2
        <5> QED BY <5>1, <5>2
      <4> QED BY <4>2, <4>3, <4>4, <4>5 DEF Charge
    <3>3. self[i - 1] = self[i] + Charge(i, a)
      BY <2>1
    <3>4. next[i] = self[i] + one - other(i) /\ next[i - 1] = self[i - 1] + one - other(i - 1)
      BY <2>3, <3>1
    <3>5. other(i) \in Int /\ other(i - 1) \in Int /\ one \in Int
      BY <2>2, <3>1
    <3> QED BY <3>1, <3>2, <3>3, <3>4, <3>5
  <2>9. Len(scopes') = n /\ ElapsedSelf' = ElapsedSelf
    BY <1>1 DEF n
  <2> QED BY <2>1, <2>3, <2>4, <2>7, <2>8, <2>9 DEF Settles
<1>9. ChildrenSettle'
  <2>1. Pr!Open' = Pr!Open
    BY <1>1 DEF Pr!Open
  <2>2. ASSUME NEW a \in Anchors \ Pr!Open PROVE Congruent(ElapsedChildren'[a], inside'[a], W)
    BY <1>1, <1>2 DEF ChildrenSettle, ProfilerInv
  <2>3. ASSUME NEW i \in 1 .. n, Outermost(i)
        PROVE  Congruent(scopes[i].OldElapsedChildren + (clock' - scopes[i].Start),
                         inside'[scopes[i].AnchorIndex], W)
    <3> DEFINE a == scopes[i].AnchorIndex
               x == scopes[i].OldElapsedChildren + (clock - scopes[i].Start)
    <3>1. a \in Anchors /\ a \in Pr!Open /\ x \in Int
      <4>1. a \in Anchors /\ scopes[i].Start \in Int /\ scopes[i].OldElapsedChildren \in Int
        BY <1>i
      <4>2. a \in Pr!Open
        BY DEF Pr!Open, n
      <4> QED BY <1>2, <4>1, <4>2
    <3>2. Congruent(x, inside[a], W)
      BY <2>3 DEF ChildrenSettle, ProfilerInv, n
    <3>3. inside'[a] = inside[a] + 1 /\ inside[a] \in Int
      BY <1>1, <1>2, <3>1
    <3>4. scopes[i].OldElapsedChildren + (clock' - scopes[i].Start) = x + 1
      <4>1. scopes[i].Start \in Int /\ scopes[i].OldElapsedChildren \in Int
        BY <1>i
      <4> QED BY <1>1, <1>2, <4>1
    <3>5. Congruent(1, 1, W)
      BY <1>2, CongruentSame
    <3> HIDE DEF x, a
    <3>6. Congruent(x + 1, inside[a] + 1, W)
      BY <1>2, <3>1, <3>2, <3>3, <3>5, CongruentSum
    <3> QED BY <3>3, <3>4, <3>6 DEF a
  <2>4. \A i \in 1 .. n : Outermost(i)' <=> Outermost(i)
    BY <1>1 DEF Outermost
  <2> QED BY <1>1, <2>1, <2>2, <2>3, <2>4 DEF ChildrenSettle, n
<1> QED BY <1>3, <1>6, <1>7, <1>8, <1>9 DEF ProfilerInv

\* A scope that opens has nothing to settle yet.
LEMMA OpenKeeps ==
  ASSUME ProfilerInv, NEW anchor \in Anchors, Pr!OpenScope(anchor) PROVE ProfilerInv'
<1> DEFINE n == Len(scopes)
           new == [AnchorIndex |-> anchor, ParentIndex |-> g_ProfilerParentIndex,
                   Start |-> clock % W, OldElapsedChildren |-> ElapsedChildren[anchor]]
<1>1. /\ scopes' = Append(scopes, new)
      /\ g_ProfilerParentIndex' = anchor
      /\ UNCHANGED <<clock, ElapsedSelf, ElapsedChildren, innermost, inside>>
  BY DEF Pr!OpenScope
<1>2. /\ W \in Nat \ {0} /\ clock \in Nat /\ n \in Nat
      /\ 0 \notin Anchors /\ Pr!All = Anchors \union {0}
      /\ ElapsedSelf \in [Pr!All -> Int] /\ ElapsedChildren \in [Pr!All -> Int]
      /\ innermost \in [Pr!All -> Int] /\ inside \in [Pr!All -> Int]
  BY ProfilerTypes
<1>w. W \in Nat \ {0} /\ clock \in Int /\ 0 \in Int
  BY <1>2
<1>3. Pr!TypeOK'
  <2>1. clock % W \in Pr!Word
    BY <1>2 DEF Pr!Word
  <2>2. ElapsedChildren[anchor] \in Pr!Word
    BY <1>2 DEF ProfilerInv, Pr!TypeOK
  <2> DEFINE R == [AnchorIndex : Anchors, ParentIndex : Pr!All, Start : Pr!Word,
                   OldElapsedChildren : Pr!Word]
  <2>3. new \in R /\ scopes \in Seq(R)
    BY <2>1, <2>2 DEF ProfilerInv, Pr!TypeOK
  <2> HIDE DEF R, new
  <2>4. scopes' \in Seq(R)
    BY <1>1, <2>3, AppendProperties
  <2>5. g_ProfilerParentIndex' \in Pr!All
    BY <1>1, <1>2
  <2> QED BY <1>1, <2>4, <2>5 DEF ProfilerInv, Pr!TypeOK, R
<1>4. /\ Len(scopes') = n + 1 /\ scopes'[n + 1] = new
      /\ \A i \in 1 .. n : scopes'[i] = scopes[i]
  <2> HIDE DEF new
  <2> QED BY <1>1, AppendProperties DEF ProfilerInv, Pr!TypeOK
<1>5. /\ new.AnchorIndex = anchor /\ new.ParentIndex = g_ProfilerParentIndex
      /\ new.Start = clock % W /\ new.OldElapsedChildren = ElapsedChildren[anchor]
  OBVIOUS
<1> HIDE DEF n, new
<1>6. \A i \in 1 .. n + 1 : i \in 1 .. n \/ i = n + 1
  BY <1>2
<1>7. Chained'
  <2>1. Pr!Current = IF n = 0 THEN 0 ELSE scopes[n].AnchorIndex
    <3>1. n = 0 <=> scopes = <<>>
      BY <1>2, EmptySeq DEF Pr!TypeOK, ProfilerInv, n
    <3> QED BY <3>1 DEF Pr!Current, Pr!Top, n
  <2>2. Pr!Current' = anchor
    <3>1. scopes' # <<>>
      BY <1>2, <1>4, EmptySeq
    <3> QED BY <1>4, <1>5, <3>1 DEF Pr!Current, Pr!Top
  <2>3. ASSUME NEW i \in 1 .. n + 1
        PROVE  scopes'[i].ParentIndex = IF i = 1 THEN 0 ELSE scopes'[i - 1].AnchorIndex
    <3>1. CASE i \in 1 .. n
      <4>1. scopes[i].ParentIndex = IF i = 1 THEN 0 ELSE scopes[i - 1].AnchorIndex
        BY <3>1 DEF Chained, ProfilerInv, n
      <4>2. i # 1 => i - 1 \in 1 .. n
        BY <1>2, <3>1
      <4> QED BY <1>4, <3>1, <4>1, <4>2
    <3>2. CASE i = n + 1
      <4>1. scopes'[i].ParentIndex = Pr!Current
        BY <1>4, <1>5, <3>2 DEF Chained, ProfilerInv
      <4>2. i = 1 <=> n = 0
        BY <1>2, <3>2
      <4>3. n # 0 => i - 1 = n /\ n \in 1 .. n
        BY <1>2, <3>2
      <4> QED BY <1>4, <2>1, <4>1, <4>2, <4>3
    <3> QED BY <1>6, <2>3, <3>1, <3>2
  <2> QED BY <1>1, <1>4, <2>2, <2>3 DEF Chained
<1>8. Congruent(clock - (clock % W), 0, W) /\ clock - (clock % W) \in Int
  <2>1. clock % W \in 0 .. W - 1 /\ Congruent(clock, clock % W, W)
    BY <1>w, CongruentRemainder
  <2>2. clock \in Int /\ clock % W \in Int /\ (clock % W) - (clock % W) = 0
    BY <1>2, <2>1
  <2>3. Congruent(clock % W, clock % W, W)
    BY <1>w, <2>2, CongruentSame
  <2>4. Congruent(clock - (clock % W), (clock % W) - (clock % W), W)
    BY <1>w, <2>1, <2>2, <2>3, CongruentSum
  <2> QED BY <2>2, <2>4
<1>9. ASSUME NEW a \in Anchors PROVE Settles(a)'
  <2>1. PICK self \in [0 .. n -> Int] :
          /\ Congruent(ElapsedSelf[a], self[n], W)
          /\ \A i \in 1 .. n : self[i - 1] = self[i] + Charge(i, a)
          /\ Congruent(self[0], innermost[a], W)
    BY DEF Settles, ProfilerInv, n
  <2> DEFINE d == clock - (clock % W)
             c == (IF anchor = a THEN d ELSE 0)
                    - (IF g_ProfilerParentIndex = a THEN d ELSE 0)
  <2>2. d \in Int /\ Congruent(d, 0, W) /\ Congruent(0, 0, W)
    BY <1>w, <1>8, CongruentSame
  <2>3. ASSUME NEW i \in 1 .. n + 1, i = n + 1 PROVE Charge(i, a)' = c
    <3>1. scopes'[i].AnchorIndex = anchor /\ scopes'[i].Start = clock % W
          /\ scopes'[i].ParentIndex = g_ProfilerParentIndex
      BY <1>4, <1>5, <2>3
    <3>2. clock' = clock
      BY <1>1
    <3> QED BY <3>1, <3>2 DEF Charge
  <2> HIDE DEF d
  <2>4. c \in Int /\ Congruent(c, 0, W)
    <3>1. Congruent(d - d, 0 - 0, W) /\ Congruent(d - 0, 0 - 0, W) /\ Congruent(0 - d, 0 - 0, W)
          /\ Congruent(0 - 0, 0 - 0, W)
      BY <1>w, <2>2, CongruentSum
    <3>2. d - d = 0 /\ d - 0 = d /\ 0 - 0 = 0
      BY <2>2
    <3> QED BY <2>2, <3>1, <3>2
  <2> HIDE DEF c
  <2>5. n \in 0 .. n /\ self[n] \in Int
    BY <1>2, <2>1
  <2>6. PICK next \in [0 .. n + 1 -> Int] :
          next[n + 1] = self[n] - c /\ \A i \in 0 .. n : next[i] = self[i]
    <3> DEFINE f == [i \in 0 .. n + 1 |-> IF i = n + 1 THEN self[n] - c ELSE self[i]]
    <3>1. \A i \in 0 .. n + 1 : i # n + 1 => i \in 0 .. n
      BY <1>2
    <3>2. f \in [0 .. n + 1 -> Int]
      BY <2>1, <2>4, <2>5, <3>1
    <3>3. n + 1 \in 0 .. n + 1 /\ \A i \in 0 .. n : i \in 0 .. n + 1 /\ i # n + 1
      BY <1>2
    <3> QED BY <3>2, <3>3
  <2>7. Congruent(ElapsedSelf'[a], next[n + 1], W)
    <3>1. ElapsedSelf[a] \in Int /\ ElapsedSelf[a] - 0 = ElapsedSelf[a] /\ ElapsedSelf' = ElapsedSelf
      BY <1>1, <1>2
    <3>2. Congruent(0, c, W)
      BY <1>w, <2>4, CongruentSym
    <3>3. Congruent(ElapsedSelf[a] - 0, self[n] - c, W)
      BY <1>w, <2>1, <2>4, <2>5, <3>1, <3>2, CongruentSum
    <3> QED BY <2>6, <3>1, <3>3
  <2>8. ASSUME NEW i \in 1 .. n + 1 PROVE next[i - 1] = next[i] + Charge(i, a)'
    <3>1. CASE i \in 1 .. n
      <4>1. Charge(i, a)' = Charge(i, a)
        BY <1>1, <1>4, <3>1 DEF Charge
      <4>2. i \in 0 .. n /\ i - 1 \in 0 .. n
        BY <1>2, <3>1
      <4> QED BY <2>1, <2>6, <3>1, <4>1, <4>2
    <3>2. CASE i = n + 1
      <4>1. i - 1 = n /\ next[i - 1] = self[n]
        BY <1>2, <2>5, <2>6, <3>2
      <4>2. Charge(i, a)' = c
        BY <2>3, <3>2
      <4>3. next[i] = self[n] - c
        BY <2>6, <3>2
      <4> QED BY <2>4, <2>5, <4>1, <4>2, <4>3
    <3> QED BY <1>6, <3>1, <3>2
  <2>9. Congruent(next[0], innermost'[a], W)
    <3>1. 0 \in 0 .. n
      BY <1>2
    <3> QED BY <1>1, <2>1, <2>6, <3>1
  <2> QED BY <1>4, <2>6, <2>7, <2>8, <2>9 DEF Settles
<1>10. ChildrenSettle'
  <2>1. Pr!Open' = Pr!Open \union {anchor}
    <3>1. Pr!Open = {scopes[i].AnchorIndex : i \in 1 .. n}
      BY DEF Pr!Open, n
    <3>2. Pr!Open' = {scopes'[i].AnchorIndex : i \in 1 .. n + 1}
      BY <1>4 DEF Pr!Open
    <3>3. \A i \in 1 .. n : i \in 1 .. n + 1
      BY <1>2
    <3>4. n + 1 \in 1 .. n + 1
      BY <1>2
    <3> QED BY <1>4, <1>5, <1>6, <3>1, <3>2, <3>3, <3>4
  <2>2. \A a \in Anchors \ Pr!Open' : Congruent(ElapsedChildren'[a], inside'[a], W)
    BY <1>1, <2>1 DEF ChildrenSettle, ProfilerInv
  <2>3. ASSUME NEW i \in 1 .. n + 1, Outermost(i)'
        PROVE  Congruent(scopes'[i].OldElapsedChildren + (clock - scopes'[i].Start),
                         inside[scopes'[i].AnchorIndex], W)
    <3>1. CASE i \in 1 .. n
      <4>1. Outermost(i)
        <5>1. \A j \in 1 .. i - 1 : j \in 1 .. n
          BY <1>2, <3>1
        <5> QED BY <1>4, <2>3, <3>1, <5>1 DEF Outermost
      <4> QED BY <1>4, <3>1, <4>1 DEF ChildrenSettle, ProfilerInv, n
    <3>2. CASE i = n + 1
      <4>1. anchor \notin Pr!Open
        <5>1. \A j \in 1 .. n : j \in 1 .. i - 1
          BY <1>2, <3>2
        <5> QED BY <1>4, <1>5, <2>3, <3>2, <5>1 DEF Outermost, Pr!Open, n
      <4>2. Congruent(ElapsedChildren[anchor], inside[anchor], W)
        BY <4>1 DEF ChildrenSettle, ProfilerInv
      <4>3. /\ ElapsedChildren[anchor] \in Int /\ inside[anchor] \in Int
            /\ inside[anchor] + 0 = inside[anchor]
        BY <1>2
      <4>4. Congruent(ElapsedChildren[anchor] + (clock - (clock % W)), inside[anchor] + 0, W)
        BY <1>w, <1>8, <4>2, <4>3, CongruentSum
      <4> QED BY <1>4, <1>5, <3>2, <4>3, <4>4
    <3> QED BY <1>6, <3>1, <3>2
  <2> QED BY <1>1, <1>4, <2>2, <2>3 DEF ChildrenSettle
<1> QED BY <1>1, <1>2, <1>3, <1>7, <1>9, <1>10 DEF ProfilerInv

\* The innermost scope settles its charge.
LEMMA CloseKeeps == ASSUME ProfilerInv, Pr!CloseScope PROVE ProfilerInv'
<1> DEFINE n == Len(scopes)
           A == scopes[n].AnchorIndex
           P == scopes[n].ParentIndex
           d == clock - scopes[n].Start
           elapsed == ((clock % W) - scopes[n].Start) % W
           charged == [ElapsedSelf EXCEPT ![P] = (@ - elapsed) % W]
<1>1. /\ ElapsedSelf' = [charged EXCEPT ![A] = (@ + elapsed) % W]
      /\ ElapsedChildren' =
           [ElapsedChildren EXCEPT ![A] = (scopes[n].OldElapsedChildren + elapsed) % W]
      /\ g_ProfilerParentIndex' = P
      /\ scopes # <<>> /\ scopes' = SubSeq(scopes, 1, n - 1)
      /\ UNCHANGED <<clock, innermost, inside>>
  BY DEF Pr!CloseScope, Pr!Top, Pr!ParentAtClose, Pr!ChildrenAtClose
<1>2. /\ W \in Nat \ {0} /\ clock \in Nat /\ n \in Nat
      /\ 0 \notin Anchors /\ Pr!All = Anchors \union {0}
      /\ ElapsedSelf \in [Pr!All -> Int] /\ ElapsedChildren \in [Pr!All -> Int]
      /\ innermost \in [Pr!All -> Int] /\ inside \in [Pr!All -> Int]
  BY ProfilerTypes
<1>w. W \in Nat \ {0} /\ clock \in Int
  BY <1>2
<1>3. n \in Nat \ {0} /\ n \in 1 .. n
  <2>1. n # 0
    BY <1>1, EmptySeq DEF ProfilerInv, Pr!TypeOK
  <2> QED BY <1>2, <2>1
<1>4. /\ A \in Anchors /\ P \in Pr!All /\ A \in Pr!All
      /\ scopes[n].Start \in Int /\ scopes[n].OldElapsedChildren \in Int
  BY <1>3, ProfilerTypes
<1>5. /\ Len(scopes') = n - 1 /\ \A i \in 1 .. n - 1 : scopes'[i] = scopes[i] /\ i \in 1 .. n
      /\ scopes' \in Seq([AnchorIndex : Anchors, ParentIndex : Pr!All, Start : Pr!Word,
                         OldElapsedChildren : Pr!Word])
  <2> DEFINE R == [AnchorIndex : Anchors, ParentIndex : Pr!All, Start : Pr!Word,
                   OldElapsedChildren : Pr!Word]
  <2>1. scopes \in Seq(R)
    BY DEF ProfilerInv, Pr!TypeOK
  <2> HIDE DEF R
  <2>2. n - 1 \in 0 .. Len(scopes) /\ \A i \in 1 .. n - 1 : i \in 1 .. n
    BY <1>3
  <2>3. scopes' = SubSeq(scopes, 1, n - 1)
    BY <1>1
  <2>4. scopes' \in Seq(R) /\ Len(scopes') = n - 1 /\ \A i \in 1 .. n - 1 : scopes'[i] = scopes[i]
    BY <2>1, <2>2, <2>3, Front
  <2> QED BY <2>2, <2>4 DEF R
<1>6. Pr!TypeOK'
  <2>1. \A x \in Int : x % W \in Pr!Word
    BY <1>2 DEF Pr!Word
  <2>4. elapsed \in Int /\ elapsed \in Pr!Word
    <3>1. (clock % W) - scopes[n].Start \in Int
      BY <1>w, <1>4
    <3>2. elapsed \in Pr!Word
      BY <2>1, <3>1
    <3> HIDE DEF elapsed
    <3>3. elapsed \in Int
      BY <1>w, <3>2 DEF Pr!Word
    <3> QED BY <3>2, <3>3
  <2> HIDE DEF elapsed
  <2>5. charged \in [Pr!All -> Pr!Word]
    <3>1. (ElapsedSelf[P] - elapsed) % W \in Pr!Word
      <4>1. ElapsedSelf[P] - elapsed \in Int
        BY <1>2, <1>4, <2>4
      <4> QED BY <2>1, <4>1
    <3>2. ElapsedSelf \in [Pr!All -> Pr!Word]
      BY DEF ProfilerInv, Pr!TypeOK
    <3> QED BY <3>1, <3>2
  <2>6. ElapsedSelf' \in [Pr!All -> Pr!Word]
    <3>1. charged[A] \in Int
      BY <1>2, <1>4, <2>5 DEF Pr!Word
    <3> HIDE DEF charged
    <3>2. (charged[A] + elapsed) % W \in Pr!Word
      <4>1. charged[A] + elapsed \in Int
        BY <2>4, <3>1
      <4> QED BY <2>1, <4>1
    <3>3. ElapsedSelf' = [charged EXCEPT ![A] = (charged[A] + elapsed) % W]
      BY <1>1
    <3> QED BY <1>4, <2>5, <3>2, <3>3
  <2>7. ElapsedChildren' \in [Pr!All -> Pr!Word]
    <3>1. (scopes[n].OldElapsedChildren + elapsed) % W \in Pr!Word
      <4>1. scopes[n].OldElapsedChildren + elapsed \in Int
        BY <1>4, <2>4
      <4> QED BY <2>1, <4>1
    <3>2. ElapsedChildren \in [Pr!All -> Pr!Word]
      BY DEF ProfilerInv, Pr!TypeOK
    <3> QED BY <1>1, <3>1, <3>2
  <2>8. g_ProfilerParentIndex' \in Pr!All /\ clock' \in Nat
    BY <1>1, <1>2, <1>4
  <2> QED BY <1>5, <2>6, <2>7, <2>8 DEF Pr!TypeOK
<1>7. Congruent(elapsed, d, W) /\ elapsed \in Int /\ d \in Int
  <2> DEFINE x == clock % W
  <2>1. x \in Int /\ Congruent(clock, x, W)
    <3>1. x \in 0 .. W - 1 /\ Congruent(clock, x, W)
      BY <1>w, CongruentRemainder
    <3> QED BY <1>w, <3>1
  <2>2. elapsed = (x - scopes[n].Start) % W
    OBVIOUS
  <2> HIDE DEF x
  <2>3. x - scopes[n].Start \in Int /\ d \in Int
    BY <1>w, <1>4, <2>1
  <2>4. elapsed \in 0 .. W - 1 /\ Congruent(x - scopes[n].Start, elapsed, W)
    BY <1>w, <2>2, <2>3, CongruentRemainder
  <2> HIDE DEF elapsed
  <2>5. elapsed \in Int
    BY <1>w, <2>4
  <2>6. Congruent(scopes[n].Start, scopes[n].Start, W)
    BY <1>w, <1>4, CongruentSame
  <2>7. Congruent(clock - scopes[n].Start, x - scopes[n].Start, W)
    BY <1>w, <1>4, <2>1, <2>6, CongruentSum
  <2>8. Congruent(d, elapsed, W)
    BY <1>w, <2>3, <2>4, <2>5, <2>7, CongruentTrans
  <2> QED BY <1>w, <2>3, <2>5, <2>8, CongruentSym
<1>8. Chained'
  <2>1. Pr!Current' = P
    <3>1. P = IF n = 1 THEN 0 ELSE scopes[n - 1].AnchorIndex
      BY <1>3 DEF Chained, ProfilerInv
    <3>2. CASE n = 1
      <4>1. scopes' = <<>>
        BY <1>5, <3>2, EmptySeq
      <4> QED BY <3>1, <3>2, <4>1 DEF Pr!Current
    <3>3. CASE n # 1
      <4>1. n - 1 \in 1 .. n - 1
        <5> HIDE DEF n
        <5> QED BY <1>3, <3>3
      <4>2. scopes' # <<>>
        BY <1>5, <4>1, EmptySeq
      <4> QED BY <1>5, <3>1, <3>3, <4>1, <4>2 DEF Pr!Current, Pr!Top
    <3> QED BY <3>2, <3>3
  <2>2. ASSUME NEW i \in 1 .. n - 1
        PROVE  scopes'[i].ParentIndex = IF i = 1 THEN 0 ELSE scopes'[i - 1].AnchorIndex
    <3>1. i \in 1 .. n /\ scopes'[i] = scopes[i] /\ (i # 1 => i - 1 \in 1 .. n - 1)
      BY <1>3, <1>5
    <3> QED BY <1>5, <3>1 DEF Chained, ProfilerInv
  <2> QED BY <1>1, <1>5, <2>1, <2>2 DEF Chained
<1> HIDE DEF elapsed, d, charged, n, A, P
<1>9. ASSUME NEW a \in Anchors PROVE Settles(a)'
  <2>1. PICK self \in [0 .. n -> Int] :
          /\ Congruent(ElapsedSelf[a], self[n], W)
          /\ \A i \in 1 .. n : self[i - 1] = self[i] + Charge(i, a)
          /\ Congruent(self[0], innermost[a], W)
    BY DEF Settles, ProfilerInv, n
  <2>2. /\ self[n] \in Int /\ self[n - 1] \in Int
        /\ self[n - 1] = self[n] + ((IF A = a THEN d ELSE 0) - (IF P = a THEN d ELSE 0))
    <3>1. n \in 0 .. n /\ n - 1 \in 0 .. n
      BY <1>3
    <3> QED BY <1>3, <2>1, <3>1 DEF Charge, A, P, d
  <2>3. Congruent(ElapsedSelf'[a], self[n - 1], W)
    <3> DEFINE x == ElapsedSelf[a]
               y == IF P = a THEN x - elapsed ELSE x
               z == IF A = a THEN y + elapsed ELSE y
    <3>1. x \in Int /\ y \in Int /\ z \in Int
      <4>1. x \in Int /\ elapsed \in Int
        BY <1>2, <1>7
      <4> QED BY <4>1
    <3>2. charged[a] = (IF P = a THEN (x - elapsed) % W ELSE x) /\ a \in Pr!All
      BY <1>2, <1>4 DEF charged
    <3>3. ElapsedSelf'[a] = IF A = a THEN (charged[a] + elapsed) % W ELSE charged[a]
      <4>1. charged \in [Pr!All -> Int]
        <5>1. (ElapsedSelf[P] - elapsed) % W \in Int
          <6> DEFINE r == ElapsedSelf[P] - elapsed
          <6>1. ElapsedSelf[P] \in Int /\ elapsed \in Int
            BY <1>2, <1>4, <1>7
          <6>2. r \in Int
            BY <6>1
          <6> HIDE DEF r
          <6>3. r % W \in 0 .. W - 1
            BY <1>w, <6>2, CongruentRemainder
          <6>4. r % W \in Int
            BY <1>w, <6>3
          <6> QED BY <6>4 DEF r
        <5> QED BY <1>2, <5>1 DEF charged
      <4> QED BY <1>1, <1>4, <3>2, <4>1
    <3>4. charged[a] \in Int /\ Congruent(charged[a], y, W)
      <4>1. CASE P = a
        <5>1. x - elapsed \in Int /\ charged[a] = (x - elapsed) % W /\ y = x - elapsed
          BY <3>2, <3>1, <1>7, <4>1
        <5>2. charged[a] \in 0 .. W - 1 /\ Congruent(x - elapsed, charged[a], W)
          BY <1>w, <5>1, CongruentRemainder
        <5>3. charged[a] \in Int
          BY <1>w, <5>2
        <5> QED BY <1>w, <5>1, <5>2, <5>3, CongruentSym
      <4>2. CASE P # a
        <5>1. charged[a] = x /\ y = x
          BY <3>2, <4>2
        <5> QED BY <1>w, <3>1, <5>1, CongruentSame
      <4> QED BY <4>1, <4>2
    <3>5. ElapsedSelf'[a] \in Int /\ Congruent(ElapsedSelf'[a], z, W)
      <4>1. CASE A = a
        <5>1. charged[a] + elapsed \in Int /\ ElapsedSelf'[a] = (charged[a] + elapsed) % W
              /\ z = y + elapsed
          BY <1>7, <3>3, <3>4, <4>1
        <5>2. ElapsedSelf'[a] \in 0 .. W - 1 /\ Congruent(charged[a] + elapsed, ElapsedSelf'[a], W)
          BY <1>w, <5>1, CongruentRemainder
        <5>3. ElapsedSelf'[a] \in Int
          BY <1>w, <5>2
        <5>4. Congruent(elapsed, elapsed, W)
          BY <1>w, <1>7, CongruentSame
        <5>5. Congruent(charged[a] + elapsed, y + elapsed, W)
          BY <1>w, <1>7, <3>1, <3>4, <5>4, CongruentSum
        <5>6. Congruent(ElapsedSelf'[a], charged[a] + elapsed, W)
          BY <1>w, <5>1, <5>2, <5>3, CongruentSym
        <5> QED BY <1>w, <3>1, <5>1, <5>3, <5>5, <5>6, CongruentTrans
      <4>2. CASE A # a
        <5>1. ElapsedSelf'[a] = charged[a] /\ z = y
          BY <3>3, <4>2
        <5> QED BY <3>4, <5>1
      <4> QED BY <4>1, <4>2
    <3> DEFINE c == (IF A = a THEN elapsed ELSE 0) - (IF P = a THEN elapsed ELSE 0)
               e == (IF A = a THEN d ELSE 0) - (IF P = a THEN d ELSE 0)
    <3>6. c \in Int /\ e \in Int /\ z = x + c
      BY <1>7, <3>1
    <3>7. Congruent(c, e, W)
      <4>1. 0 \in Int /\ Congruent(0, 0, W)
        BY <1>w, CongruentSame
      <4>2. /\ Congruent(elapsed - elapsed, d - d, W) /\ Congruent(elapsed - 0, d - 0, W)
            /\ Congruent(0 - elapsed, 0 - d, W) /\ Congruent(0 - 0, 0 - 0, W)
        BY <1>w, <1>7, <4>1, CongruentSum
      <4> QED BY <4>2
    <3> HIDE DEF x, y, z, c, e
    <3>8. Congruent(x, self[n], W)
      BY <2>1 DEF x
    <3>9. Congruent(x + c, self[n] + e, W)
      BY <1>w, <2>2, <3>1, <3>6, <3>7, <3>8, CongruentSum
    <3>10. self[n - 1] = self[n] + e
      BY <2>2 DEF e
    <3> QED BY <1>w, <2>2, <3>1, <3>5, <3>6, <3>9, <3>10, CongruentTrans
  <2>4. PICK next \in [0 .. n - 1 -> Int] : \A i \in 0 .. n - 1 : next[i] = self[i]
    <3>1. \A i \in 0 .. n - 1 : i \in 0 .. n
      BY <1>3
    <3>2. [i \in 0 .. n - 1 |-> self[i]] \in [0 .. n - 1 -> Int]
      BY <2>1, <3>1
    <3> QED BY <3>2
  <2>5. ASSUME NEW i \in 1 .. n - 1 PROVE next[i - 1] = next[i] + Charge(i, a)'
    <3>1. i \in 1 .. n /\ i \in 0 .. n - 1 /\ i - 1 \in 0 .. n - 1 /\ scopes'[i] = scopes[i]
      BY <1>3, <1>5
    <3>2. clock' = clock
      BY <1>1
    <3>3. Charge(i, a)' = Charge(i, a)
      BY <3>1, <3>2 DEF Charge
    <3> QED BY <2>1, <2>4, <3>1, <3>3
  <2>6. next[n - 1] = self[n - 1] /\ next[0] = self[0] /\ innermost' = innermost
    <3>1. 0 \in 0 .. n - 1 /\ n - 1 \in 0 .. n - 1
      BY <1>3
    <3> QED BY <1>1, <2>4, <3>1
  <2>7. Len(scopes') = n - 1
    BY <1>5
  <2> QED BY <2>1, <2>3, <2>4, <2>5, <2>6, <2>7 DEF Settles
<1>10. ChildrenSettle'
  <2>1. Pr!Open' = {scopes[i].AnchorIndex : i \in 1 .. n - 1}
    BY <1>5 DEF Pr!Open
  <2>2. \A a \in Pr!Open : a = A \/ a \in Pr!Open'
    <3>1. \A i \in 1 .. n : i = n \/ i \in 1 .. n - 1
      BY <1>3
    <3> QED BY <2>1, <3>1 DEF Pr!Open, A, n
  <2>3. ASSUME NEW a \in Anchors \ Pr!Open'
        PROVE  Congruent(ElapsedChildren'[a], inside[a], W)
    <3>1. CASE a # A
      <4>1. ElapsedChildren'[a] = ElapsedChildren[a]
        BY <1>1, <1>2, <3>1
      <4>2. a \notin Pr!Open
        BY <2>2, <2>3, <3>1
      <4> QED BY <2>3, <4>1, <4>2 DEF ChildrenSettle, ProfilerInv
    <3>2. CASE a = A
      <4> DEFINE old == scopes[n].OldElapsedChildren
      <4>1. Outermost(n)
        BY <2>1, <2>3, <3>2 DEF Outermost, A
      <4>2. Congruent(old + d, inside[a], W)
        BY <1>3, <3>2, <4>1 DEF ChildrenSettle, ProfilerInv, n, A, d
      <4>3. old + elapsed \in Int /\ old + d \in Int /\ old \in Int /\ inside[a] \in Int
        BY <1>2, <1>4, <1>7
      <4>4. Congruent(old, old, W)
        BY <1>w, <4>3, CongruentSame
      <4>5. Congruent(old + elapsed, old + d, W)
        BY <1>w, <1>7, <4>3, <4>4, CongruentSum
      <4>6. ElapsedChildren'[a] = (old + elapsed) % W
        BY <1>1, <1>2, <1>4, <3>2
      <4> HIDE DEF old
      <4>7. ElapsedChildren'[a] \in 0 .. W - 1 /\ Congruent(old + elapsed, ElapsedChildren'[a], W)
        BY <1>w, <4>3, <4>6, CongruentRemainder
      <4>8. ElapsedChildren'[a] \in Int
        BY <1>w, <4>7
      <4>9. Congruent(ElapsedChildren'[a], old + elapsed, W)
        BY <1>w, <4>3, <4>7, <4>8, CongruentSym
      <4>10. Congruent(ElapsedChildren'[a], old + d, W)
        BY <1>w, <4>3, <4>5, <4>8, <4>9, CongruentTrans
      <4> QED BY <1>w, <4>2, <4>3, <4>8, <4>10, CongruentTrans
    <3> QED BY <3>1, <3>2
  <2>4. ASSUME NEW i \in 1 .. n - 1, Outermost(i)'
        PROVE  Congruent(scopes'[i].OldElapsedChildren + (clock' - scopes'[i].Start),
                         inside'[scopes'[i].AnchorIndex], W)
    <3>1. i \in 1 .. n /\ scopes'[i] = scopes[i]
      BY <1>5
    <3>2. Outermost(i)
      <4>1. \A j \in 1 .. i - 1 : j \in 1 .. n - 1
        BY <1>3
      <4> QED BY <1>5, <2>4, <3>1, <4>1 DEF Outermost
    <3>3. clock' = clock /\ inside' = inside
      BY <1>1
    <3> QED BY <3>1, <3>2, <3>3 DEF ChildrenSettle, ProfilerInv, n
  <2> QED BY <1>1, <1>5, <2>3, <2>4 DEF ChildrenSettle
<1> QED BY <1>1, <1>2, <1>6, <1>8, <1>9, <1>10 DEF ProfilerInv

\* Every step keeps the invariant.
LEMMA ProfilerStep == ASSUME ProfilerInv, [Pr!Next]_profilerVars PROVE ProfilerInv'
<1>1. ASSUME NEW a \in Anchors, Pr!OpenScope(a) PROVE ProfilerInv'
  BY <1>1, OpenKeeps
<1>2. CASE Pr!Tick
  BY <1>2, TickKeeps
<1>3. CASE Pr!CloseScope
  BY <1>3, CloseKeeps
<1>4. CASE UNCHANGED profilerVars
  <2>1. UNCHANGED <<clock, scopes, g_ProfilerParentIndex, ElapsedSelf, ElapsedChildren,
                    innermost, inside>>
    BY <1>4 DEF profilerVars
  <2>2. Pr!TypeOK' /\ Chained' /\ ChildrenSettle'
    BY <2>1 DEF ProfilerInv, Pr!TypeOK, Chained, ChildrenSettle, Outermost, Pr!Current,
                Pr!Top, Pr!Open
  <2>3. ASSUME NEW a \in Anchors PROVE Settles(a)'
    BY <2>1 DEF ProfilerInv, Settles, Charge
  <2> QED BY <2>1, <2>2, <2>3 DEF ProfilerInv
<1> QED BY <1>1, <1>2, <1>3, <1>4 DEF Pr!Next

\* What the open scopes owe, and to whom.
LEMMA ProfilerInvariant == Spec => []ProfilerInv
<1>1. Init => ProfilerInv
  BY PartsStart, ProfilerInit
<1>2. ProfilerInv /\ [Next]_vars => ProfilerInv'
  BY OnePartSteps, ProfilerStep
<1> QED BY <1>1, <1>2, PTL DEF Spec

\* When all scopes are closed every moment was charged once, to the anchor whose scope
\* was the innermost, however scopes of an anchor nest in each other and sums wrap.
THEOREM EveryMomentChargedOnce == Spec => []SelfExact
<1>1. ProfilerInv => SelfExact
  <2> SUFFICES ASSUME ProfilerInv, scopes = <<>>, NEW a \in Anchors
               PROVE  ElapsedSelf[a] = innermost[a] % W
    BY DEF SelfExact, Pr!SelfExact
  <2>1. PICK self \in [0 .. Len(scopes) -> Int] :
          /\ Congruent(ElapsedSelf[a], self[Len(scopes)], W)
          /\ Congruent(self[0], innermost[a], W)
    BY DEF Settles, ProfilerInv
  <2>2. Len(scopes) = 0 /\ self[0] \in Int
    BY <2>1
  <2>3. W \in Nat \ {0} /\ innermost[a] \in Int /\ ElapsedSelf[a] \in 0 .. W - 1
        /\ ElapsedSelf[a] \in Int
    BY ProfilerTypes DEF ProfilerInv, Pr!TypeOK, Pr!Word
  <2>4. Congruent(ElapsedSelf[a], innermost[a], W)
    BY <2>1, <2>2, <2>3, CongruentTrans
  <2> QED BY <2>3, <2>4, CongruentIs
<1> QED BY <1>1, ProfilerInvariant, PTL

\* A recursive anchor's total counts the time that some scope of it was open once,
\* although inner scopes of it add to the total that the outer one then overwrites.
THEOREM RecursionCountsOnce == Spec => []ChildrenExact
<1>1. ProfilerInv => ChildrenExact
  <2> SUFFICES ASSUME ProfilerInv, NEW a \in Anchors \ Pr!Open
               PROVE  ElapsedChildren[a] = inside[a] % W
    BY DEF ChildrenExact, Pr!ChildrenExact
  <2>1. Congruent(ElapsedChildren[a], inside[a], W)
    BY DEF ProfilerInv, ChildrenSettle
  <2>2. W \in Nat \ {0} /\ inside[a] \in Int /\ ElapsedChildren[a] \in 0 .. W - 1
    BY ProfilerTypes DEF ProfilerInv, Pr!TypeOK, Pr!Word
  <2> QED BY <2>1, <2>2, CongruentIs
<1> QED BY <1>1, ProfilerInvariant, PTL

-----------------------------------------------------------------------------
(* Lists: the front of the memory, slot by slot, is what the calls describe. *)

Listed == Values \union {Zero}
Cells == Values \union {Zero, Junk}

\* list stands for the front of mem, of which count slots are in use.
Fits(l, mem, count) ==
  l # Li!NoList => l \in [1 .. count -> Listed] /\ \A i \in 1 .. count : mem[i] = l[i]

ListInv == Li!TypeOK /\ Fits(list, Memory, listCount)

\* NoList has a value that is never listed.
LEMMA NoListNotListed ==
  ASSUME NEW n, NEW l \in [1 .. n -> Listed]
  PROVE  l # Li!NoList
<1>1. Junk \notin Listed
  BY ListAssumption DEF Li!ListConstants, Listed
<1>2. ASSUME l = <<Junk>> PROVE FALSE
  <2>1. DOMAIN l = {1} /\ DOMAIN l = 1 .. n /\ l[1] = Junk
    BY <1>2
  <2>2. l[1] \in Listed
    BY <2>1
  <2> QED BY <1>1, <2>1, <2>2
<1> QED BY <1>2 DEF Li!NoList

\* What the steps below start from.
LEMMA ListTypes ==
  ASSUME ListInv
  PROVE  /\ Len(Memory) \in Nat /\ Memory \in [1 .. Len(Memory) -> Cells]
         /\ DOMAIN Memory = 1 .. Len(Memory) /\ listCount \in 0 .. Len(Memory)
         /\ Junk \in Cells /\ Zero \in Listed /\ Listed \subseteq Cells /\ Values \subseteq Listed
         /\ list # Li!NoList => /\ list \in [1 .. listCount -> Listed] /\ list \in Seq(Listed)
                                /\ Len(list) = listCount
                                /\ \A i \in 1 .. listCount : Memory[i] = list[i]
<1>1. Memory \in Seq(Cells) /\ listCount \in 0 .. Len(Memory)
  BY DEF ListInv, Li!TypeOK, Cells, Li!Capacity
<1>2. /\ Len(Memory) \in Nat /\ Memory \in [1 .. Len(Memory) -> Cells]
      /\ DOMAIN Memory = 1 .. Len(Memory)
  BY <1>1, LenProperties
<1>3. Junk \in Cells /\ Zero \in Listed /\ Listed \subseteq Cells /\ Values \subseteq Listed
  BY DEF Cells, Listed
<1>4. ASSUME list # Li!NoList
      PROVE  /\ list \in [1 .. listCount -> Listed] /\ list \in Seq(Listed)
             /\ Len(list) = listCount /\ \A i \in 1 .. listCount : Memory[i] = list[i]
  <2>1. list \in [1 .. listCount -> Listed] /\ \A i \in 1 .. listCount : Memory[i] = list[i]
    BY <1>4 DEF ListInv, Fits
  <2>2. listCount \in Nat
    BY <1>1, <1>2
  <2> QED BY <2>1, <2>2, FunctionOfSeq
<1> QED BY <1>1, <1>2, <1>3, <1>4

\* A step that leaves a list and a memory that fit each other.
LEMMA BecomeKeeps ==
  ASSUME ListInv, NEW n \in Nat, NEW mem \in [1 .. n -> Cells], NEW count \in 0 .. n, NEW l,
         list # Li!NoList /\ count # 0 =>
           \/ l = Li!NoList
           \/ l \in [1 .. count -> Listed] /\ \A i \in 1 .. count : mem[i] = l[i],
         Li!Become(mem, count, l)
  PROVE  ListInv'
<1>1. /\ Memory' = mem /\ listCount' = count /\ kind' = kind
      /\ list' = IF count = 0 THEN <<>> ELSE IF list = Li!NoList THEN Li!NoList ELSE l
  BY DEF Li!Become
<1>2. mem \in Seq(Cells) /\ Len(mem) = n
  BY FunctionOfSeq
<1>3. Fits(list', mem, count) /\ list' \in Seq(Listed) \union {Li!NoList}
  <2>1. CASE count = 0
    <3>1. list' = <<>>
      BY <1>1, <2>1
    <3>2. list' \in [1 .. 0 -> Listed] /\ 1 .. 0 = {}
      BY <3>1
    <3> QED BY <2>1, <3>1, <3>2, EmptySeq DEF Fits
  <2>2. CASE count # 0 /\ list = Li!NoList
    BY <1>1, <2>2 DEF Fits
  <2>3. CASE count # 0 /\ list # Li!NoList
    <3>1. list' = l /\ Fits(l, mem, count) /\ (l = Li!NoList \/ l \in [1 .. count -> Listed])
      BY <1>1, <2>3 DEF Fits
    <3>2. l \in [1 .. count -> Listed] => l \in Seq(Listed)
      BY FunctionOfSeq
    <3> QED BY <3>1, <3>2
  <2> QED BY <2>1, <2>2, <2>3
<1>4. Li!TypeOK'
  <2>1. Memory' \in Seq(Cells) /\ listCount' \in 0 .. Len(Memory')
    BY <1>1, <1>2
  <2>2. kind' \in {"DArray", "StaticList"}
    BY <1>1 DEF ListInv, Li!TypeOK
  <2> QED BY <1>3, <2>1, <2>2 DEF Li!TypeOK, Li!Capacity, Cells, Listed, Li!NoList
<1> QED BY <1>1, <1>3, <1>4 DEF ListInv, Fits, Li!NoList

\* A value put in at position k: the later ones move up.
Inserted(r, s, k, e) ==
  \A i \in 1 .. Len(s) + 1 : r[i] = IF i < k THEN s[i] ELSE IF i = k THEN e ELSE s[i - 1]

LEMMA InsertAtFacts ==
  ASSUME NEW S, NEW s \in Seq(S), NEW e \in S, NEW k \in 1 .. Len(s)
  PROVE  /\ Li!S!InsertAt(s, k, e) \in [1 .. Len(s) + 1 -> S]
         /\ Inserted(Li!S!InsertAt(s, k, e), s, k, e)
<1> DEFINE n == Len(s)
           front == SubSeq(s, 1, k - 1)
           back == SubSeq(s, k, n)
<1>1. n \in Nat /\ k \in Int /\ k >= 1 /\ k <= n
  BY LenProperties
<1>2. \A i \in 1 .. n : s[i] \in S
  BY ElementOfSeq
<1> HIDE DEF n
<1>3. /\ front \in Seq(S) /\ Len(front) = k - 1
      /\ \A i \in 1 .. k - 1 : front[i] = s[i]
  <2>1. k - 1 \in 0 .. Len(s)
    BY <1>1 DEF n
  <2> QED BY <2>1, Front
<1>4. /\ back \in Seq(S) /\ Len(back) = n - k + 1
      /\ \A i \in 1 .. n - k + 1 : back[i] = s[k + i - 1]
  <2>1. n \in Int /\ k \in Int /\ k <= n /\ \A i \in k .. n : s[i] \in S
    BY <1>1, <1>2
  <2> QED BY <2>1, SubSeqProperties
<1> HIDE DEF front, back
<1>5. <<e>> \in Seq(S) /\ Len(<<e>>) = 1 /\ <<e>>[1] = e
  OBVIOUS
<1> DEFINE one == front \o <<e>>
<1>6. /\ one \in Seq(S) /\ Len(one) = k
      /\ \A i \in 1 .. k : one[i] = IF i < k THEN s[i] ELSE e
  <2>1. /\ one \in Seq(S) /\ Len(one) = k - 1 + 1
        /\ \A i \in 1 .. k - 1 + 1 : one[i] = IF i <= k - 1 THEN front[i] ELSE <<e>>[i - (k - 1)]
    <3>1. /\ one \in Seq(S) /\ Len(one) = Len(front) + Len(<<e>>)
          /\ \A i \in 1 .. Len(front) + Len(<<e>>) :
               one[i] = IF i <= Len(front) THEN front[i] ELSE <<e>>[i - Len(front)]
      BY <1>3, <1>5, ConcatProperties
    <3> QED BY <1>3, <1>5, <3>1
  <2> HIDE DEF one
  <2>2. ASSUME NEW i \in 1 .. k PROVE one[i] = IF i < k THEN s[i] ELSE e
    <3>1. CASE i < k
      <4>1. i <= k - 1 /\ i \in 1 .. k - 1 /\ i \in 1 .. k - 1 + 1
        BY <1>1, <3>1
      <4> QED BY <1>3, <2>1, <3>1, <4>1
    <3>2. CASE i = k
      <4>1. ~(i <= k - 1) /\ i - (k - 1) = 1 /\ i \in 1 .. k - 1 + 1 /\ ~(i < k)
        BY <1>1, <3>2
      <4> QED BY <1>5, <2>1, <3>2, <4>1
    <3> QED BY <1>1, <3>1, <3>2
  <2> QED BY <1>1, <2>1, <2>2
<1>7. Li!S!InsertAt(s, k, e) = one \o back
  BY DEF Li!S!InsertAt, one, front, back, n
<1> HIDE DEF one
<1>8. /\ one \o back \in Seq(S) /\ Len(one \o back) = n + 1
      /\ \A i \in 1 .. n + 1 : (one \o back)[i] = IF i <= k THEN one[i] ELSE back[i - k]
  <2>1. /\ one \o back \in Seq(S) /\ Len(one \o back) = Len(one) + Len(back)
        /\ \A i \in 1 .. Len(one) + Len(back) :
             (one \o back)[i] = IF i <= Len(one) THEN one[i] ELSE back[i - Len(one)]
    BY <1>4, <1>6, ConcatProperties
  <2>2. Len(one) + Len(back) = n + 1
    BY <1>1, <1>4, <1>6
  <2> QED BY <1>6, <2>1, <2>2
<1>9. ASSUME NEW i \in 1 .. n + 1
      PROVE  (one \o back)[i] = IF i < k THEN s[i] ELSE IF i = k THEN e ELSE s[i - 1]
  <2>1. CASE i <= k
    <3>1. i \in 1 .. k /\ (i < k \/ i = k)
      BY <1>1, <2>1
    <3> QED BY <1>6, <1>8, <2>1, <3>1
  <2>2. CASE i > k
    <3>1. i - k \in 1 .. n - k + 1 /\ k + (i - k) - 1 = i - 1 /\ ~(i <= k) /\ ~(i < k) /\ i # k
      BY <1>1, <2>2
    <3> QED BY <1>4, <1>8, <3>1
  <2>3. i <= k \/ i > k
    BY <1>1
  <2> QED BY <2>1, <2>2, <2>3
<1>10. one \o back \in [1 .. n + 1 -> S]
  BY <1>8, LenProperties
<1> QED BY <1>7, <1>9, <1>10 DEF n, Inserted

\* The value at position k taken out: the later ones move down.
LEMMA RemoveAtFacts ==
  ASSUME NEW S, NEW s \in Seq(S), NEW k \in 1 .. Len(s)
  PROVE  /\ Li!S!RemoveAt(s, k) \in [1 .. Len(s) - 1 -> S]
         /\ \A i \in 1 .. Len(s) - 1 :
              Li!S!RemoveAt(s, k)[i] = IF i < k THEN s[i] ELSE s[i + 1]
<1> DEFINE n == Len(s)
           front == SubSeq(s, 1, k - 1)
           back == SubSeq(s, k + 1, n)
<1>1. n \in Nat /\ k \in Int /\ k >= 1 /\ k <= n
  BY LenProperties
<1>2. \A i \in 1 .. n : s[i] \in S
  BY ElementOfSeq
<1> HIDE DEF n
<1>3. /\ front \in Seq(S) /\ Len(front) = k - 1
      /\ \A i \in 1 .. k - 1 : front[i] = s[i]
  <2>1. k - 1 \in 0 .. Len(s)
    BY <1>1 DEF n
  <2> QED BY <2>1, Front
<1>4. /\ back \in Seq(S) /\ Len(back) = n - k
      /\ \A i \in 1 .. n - k : back[i] = s[k + i]
  <2>1. n \in Int /\ k + 1 \in Int /\ \A i \in k + 1 .. n : s[i] \in S
    BY <1>1, <1>2
  <2>2. /\ back \in Seq(S) /\ Len(back) = (IF k + 1 <= n THEN n - (k + 1) + 1 ELSE 0)
        /\ \A i \in 1 .. n - (k + 1) + 1 : back[i] = s[k + 1 + i - 1]
    BY <2>1, SubSeqProperties
  <2> HIDE DEF back
  <2>3. n - (k + 1) + 1 = n - k /\ (~(k + 1 <= n) => n - k = 0)
        /\ \A i \in 1 .. n - k : k + 1 + i - 1 = k + i
    BY <1>1
  <2> QED BY <2>2, <2>3
<1>5. Li!S!RemoveAt(s, k) = front \o back
  BY DEF Li!S!RemoveAt, n
<1> HIDE DEF front, back
<1>6. /\ front \o back \in Seq(S) /\ Len(front \o back) = n - 1
      /\ \A i \in 1 .. n - 1 :
           (front \o back)[i] = IF i <= k - 1 THEN front[i] ELSE back[i - (k - 1)]
  <2>1. /\ front \o back \in Seq(S) /\ Len(front \o back) = Len(front) + Len(back)
        /\ \A i \in 1 .. Len(front) + Len(back) :
             (front \o back)[i] = IF i <= Len(front) THEN front[i] ELSE back[i - Len(front)]
    BY <1>3, <1>4, ConcatProperties
  <2>2. Len(front) + Len(back) = n - 1
    BY <1>1, <1>3, <1>4
  <2> QED BY <1>3, <2>1, <2>2
<1>7. ASSUME NEW i \in 1 .. n - 1
      PROVE  (front \o back)[i] = IF i < k THEN s[i] ELSE s[i + 1]
  <2>1. CASE i < k
    <3>1. i \in 1 .. k - 1 /\ i <= k - 1
      BY <1>1, <2>1
    <3> QED BY <1>3, <1>6, <2>1, <3>1
  <2>2. CASE ~(i < k)
    <3>1. i - (k - 1) \in 1 .. n - k /\ k + (i - (k - 1)) = i + 1 /\ ~(i <= k - 1)
      BY <1>1, <2>2
    <3> QED BY <1>4, <1>6, <2>2, <3>1
  <2> QED BY <2>1, <2>2
<1>8. front \o back \in [1 .. n - 1 -> S]
  BY <1>6, LenProperties
<1> QED BY <1>5, <1>7, <1>8 DEF n

\* A value behind the last one.
LEMMA ListPush == ASSUME ListInv, NEW value \in Values, Li!Push(value) PROVE ListInv'
<1> DEFINE n == Len(Memory)
           c == listCount
           mem == [Memory EXCEPT ![c + 1] = value]
           l == Append(list, value)
<1>1. c < n /\ Li!Become(mem, c + 1, l)
  BY DEF Li!Push, Li!Capacity
<1>2. /\ n \in Nat /\ Memory \in [1 .. n -> Cells] /\ c \in 0 .. n
      /\ value \in Listed /\ value \in Cells
      /\ list # Li!NoList => /\ list \in Seq(Listed) /\ Len(list) = c
                             /\ \A i \in 1 .. c : Memory[i] = list[i]
  BY ListTypes
<1> HIDE DEF n, c
<1>3. c + 1 \in 0 .. n /\ \A i \in 1 .. c + 1 : i \in 1 .. n /\ (i \in 1 .. c \/ i = c + 1)
      /\ c + 1 \notin 1 .. c
  BY <1>1, <1>2
<1>4. mem \in [1 .. n -> Cells] /\ \A i \in 1 .. n : mem[i] = IF i = c + 1 THEN value ELSE Memory[i]
  BY <1>2
<1>5. ASSUME list # Li!NoList
      PROVE  l \in [1 .. c + 1 -> Listed] /\ \A i \in 1 .. c + 1 : mem[i] = l[i]
  <2>1. /\ l \in Seq(Listed) /\ Len(l) = c + 1 /\ l[c + 1] = value
        /\ \A i \in 1 .. c : l[i] = list[i]
    BY <1>2, <1>5, AppendProperties
  <2> HIDE DEF l, mem
  <2>2. l \in [1 .. c + 1 -> Listed]
    BY <2>1, LenProperties
  <2>3. ASSUME NEW i \in 1 .. c + 1 PROVE mem[i] = l[i]
    <3>1. CASE i \in 1 .. c
      <4>1. mem[i] = Memory[i]
        BY <1>3, <1>4, <3>1
      <4> QED BY <1>2, <1>5, <2>1, <3>1, <4>1
    <3>2. CASE i = c + 1
      BY <1>3, <1>4, <2>1, <3>2
    <3> QED BY <1>3, <3>1, <3>2
  <2> QED BY <2>2, <2>3
<1> HIDE DEF l, mem
<1> QED BY <1>1, <1>2, <1>3, <1>4, <1>5, BecomeKeeps

\* The value at idx moves to the end and gives its place to another.
LEMMA ListAppendSwap ==
  ASSUME ListInv, listCount < Len(Memory), NEW value \in Values, NEW idx \in 0 .. listCount - 1,
         NEW mem \in [1 .. Len(Memory) -> Cells],
         \A i \in 1 .. listCount + 1 :
           mem[i] = IF i = idx + 1 THEN value
                    ELSE IF i = listCount + 1 THEN Memory[idx + 1] ELSE Memory[i],
         Li!Become(mem, listCount + 1, Append([list EXCEPT ![idx + 1] = value], list[idx + 1]))
  PROVE  ListInv'
<1> DEFINE n == Len(Memory)
           c == listCount
           put == [list EXCEPT ![idx + 1] = value]
           l == Append(put, list[idx + 1])
<1>1. /\ n \in Nat /\ c \in 0 .. n /\ value \in Listed
      /\ list # Li!NoList => /\ list \in Seq(Listed) /\ Len(list) = c
                             /\ \A i \in 1 .. c : Memory[i] = list[i]
  BY ListTypes
<1>2. c < n /\ Li!Become(mem, c + 1, l) /\ mem \in [1 .. n -> Cells] /\ idx \in 0 .. c - 1
      /\ \A i \in 1 .. c + 1 : mem[i] = IF i = idx + 1 THEN value
                                        ELSE IF i = c + 1 THEN Memory[idx + 1] ELSE Memory[i]
  OBVIOUS
<1> HIDE DEF n, c
<1>3. /\ c + 1 \in 0 .. n /\ \A i \in 1 .. c + 1 : i \in 1 .. c \/ i = c + 1
      /\ c + 1 \notin 1 .. c /\ idx + 1 \in 1 .. c
  BY <1>1, <1>2
<1>4. ASSUME list # Li!NoList
      PROVE  l \in [1 .. c + 1 -> Listed] /\ \A i \in 1 .. c + 1 : mem[i] = l[i]
  <2>1. list \in Seq(Listed) /\ Len(list) = c /\ \A i \in 1 .. c : Memory[i] = list[i]
    BY <1>1, <1>4
  <2>2. /\ put \in Seq(Listed) /\ Len(put) = c
        /\ \A i \in 1 .. c : put[i] = IF i = idx + 1 THEN value ELSE list[i]
    <3>1. idx + 1 \in 1 .. Len(list)
      BY <1>3, <2>1
    <3> QED BY <1>1, <2>1, <3>1, ExceptSeq
  <2>3. list[idx + 1] \in Listed
    BY <1>3, <2>1, ElementOfSeq
  <2> HIDE DEF put
  <2>4. /\ l \in Seq(Listed) /\ Len(l) = c + 1 /\ l[c + 1] = list[idx + 1]
        /\ \A i \in 1 .. c : l[i] = put[i]
    BY <2>2, <2>3, AppendProperties
  <2> HIDE DEF l
  <2>5. l \in [1 .. c + 1 -> Listed]
    BY <2>4, LenProperties
  <2>6. ASSUME NEW i \in 1 .. c + 1 PROVE mem[i] = l[i]
    <3>1. CASE i \in 1 .. c
      <4>1. mem[i] = IF i = idx + 1 THEN value ELSE Memory[i]
        BY <1>2, <1>3, <3>1
      <4> QED BY <2>1, <2>2, <2>4, <3>1, <4>1
    <3>2. CASE i = c + 1
      <4>1. mem[i] = Memory[idx + 1]
        BY <1>2, <1>3, <3>2
      <4> QED BY <1>3, <2>1, <2>4, <3>2, <4>1
    <3> QED BY <1>3, <3>1, <3>2
  <2> QED BY <2>5, <2>6
<1> HIDE DEF l
<1> QED BY <1>1, <1>2, <1>3, <1>4, BecomeKeeps

\* The value at idx is taken out and the later ones move down.
LEMMA ListRemove ==
  ASSUME ListInv, NEW idx \in 0 .. listCount - 1, NEW mem \in [1 .. Len(Memory) -> Cells],
         \A i \in 1 .. listCount - 1 : mem[i] = IF i < idx + 1 THEN Memory[i] ELSE Memory[i + 1],
         Li!Become(mem, listCount - 1, Li!S!RemoveAt(list, idx + 1))
  PROVE  ListInv'
<1> DEFINE n == Len(Memory)
           c == listCount
           l == Li!S!RemoveAt(list, idx + 1)
<1>1. /\ n \in Nat /\ c \in 0 .. n
      /\ list # Li!NoList => /\ list \in Seq(Listed) /\ Len(list) = c
                             /\ \A i \in 1 .. c : Memory[i] = list[i]
  BY ListTypes
<1>2. Li!Become(mem, c - 1, l) /\ mem \in [1 .. n -> Cells] /\ idx \in 0 .. c - 1
      /\ \A i \in 1 .. c - 1 : mem[i] = IF i < idx + 1 THEN Memory[i] ELSE Memory[i + 1]
  OBVIOUS
<1> HIDE DEF n, c
<1>3. /\ c - 1 \in 0 .. n /\ idx + 1 \in 1 .. c
      /\ \A i \in 1 .. c - 1 : i \in 1 .. c /\ i + 1 \in 1 .. c
  BY <1>1, <1>2
<1>4. ASSUME list # Li!NoList
      PROVE  l \in [1 .. c - 1 -> Listed] /\ \A i \in 1 .. c - 1 : mem[i] = l[i]
  <2>1. list \in Seq(Listed) /\ Len(list) = c /\ \A i \in 1 .. c : Memory[i] = list[i]
    BY <1>1, <1>4
  <2>2. /\ l \in [1 .. c - 1 -> Listed]
        /\ \A i \in 1 .. c - 1 : l[i] = IF i < idx + 1 THEN list[i] ELSE list[i + 1]
    BY <1>3, <2>1, RemoveAtFacts
  <2> HIDE DEF l
  <2> QED BY <1>2, <1>3, <2>1, <2>2
<1> HIDE DEF l
<1> QED BY <1>1, <1>2, <1>3, <1>4, BecomeKeeps

\* The last k values go.
LEMMA ListShorter ==
  ASSUME ListInv, NEW k \in 0 .. listCount,
         Li!Become(Memory, listCount - k, Li!Shorter(list, k))
  PROVE  ListInv'
<1> DEFINE n == Len(Memory)
           c == listCount
           l == SubSeq(list, 1, c - k)
<1>1. /\ n \in Nat /\ c \in 0 .. n /\ Memory \in [1 .. n -> Cells]
      /\ list # Li!NoList => /\ list \in Seq(Listed) /\ Len(list) = c
                             /\ \A i \in 1 .. c : Memory[i] = list[i]
  BY ListTypes
<1>2. Li!Become(Memory, c - k, Li!Shorter(list, k)) /\ k \in 0 .. c
  OBVIOUS
<1> HIDE DEF n, c
<1>3. c - k \in 0 .. n /\ c - k \in 0 .. c /\ \A i \in 1 .. c - k : i \in 1 .. c
  BY <1>1, <1>2
<1>4. ASSUME list # Li!NoList
      PROVE  Li!Shorter(list, k) \in [1 .. c - k -> Listed]
             /\ \A i \in 1 .. c - k : Memory[i] = Li!Shorter(list, k)[i]
  <2>1. list \in Seq(Listed) /\ Len(list) = c /\ \A i \in 1 .. c : Memory[i] = list[i]
    BY <1>1, <1>4
  <2>2. Li!Shorter(list, k) = l
    BY <2>1 DEF Li!Shorter
  <2>3. l \in Seq(Listed) /\ Len(l) = c - k /\ \A i \in 1 .. c - k : l[i] = list[i]
    BY <1>3, <2>1, Front
  <2> HIDE DEF l
  <2>4. l \in [1 .. c - k -> Listed]
    BY <2>3, LenProperties
  <2> QED BY <1>3, <2>1, <2>2, <2>3, <2>4
<1> QED BY <1>1, <1>2, <1>3, <1>4, BecomeKeeps

\* What SMemMove leaves.
MemMoved(r, dst, src, k) ==
  \A i \in 1 .. Len(Memory) :
    r[i] = IF i - dst \notin 1 .. k THEN Memory[i]
           ELSE IF i - dst + src \in 1 .. Len(Memory) THEN Memory[i - dst + src] ELSE Junk

LEMMA MovedFacts ==
  ASSUME ListInv, NEW dst \in Nat, NEW src \in Nat, NEW k \in Nat
  PROVE  /\ Li!Moved(dst, src, k) \in [1 .. Len(Memory) -> Cells]
         /\ MemMoved(Li!Moved(dst, src, k), dst, src, k)
<1>1. /\ Memory \in [1 .. Len(Memory) -> Cells] /\ DOMAIN Memory = 1 .. Len(Memory)
      /\ Junk \in Cells
  BY ListTypes
<1> QED BY <1>1 DEF Li!Moved, MemMoved

\* A value is put in at idx and the later ones move up.
LEMMA ListInsert ==
  ASSUME ListInv, listCount < Len(Memory), NEW value \in Values, NEW idx \in 0 .. listCount - 1,
         Li!Become([Li!Moved(idx + 1, idx, listCount - idx) EXCEPT ![idx + 1] = value],
                   listCount + 1, Li!S!InsertAt(list, idx + 1, value))
  PROVE  ListInv'
<1> DEFINE n == Len(Memory)
           c == listCount
           moved == Li!Moved(idx + 1, idx, c - idx)
           mem == [moved EXCEPT ![idx + 1] = value]
           l == Li!S!InsertAt(list, idx + 1, value)
<1>1. /\ n \in Nat /\ c \in 0 .. n /\ value \in Listed /\ value \in Cells
      /\ list # Li!NoList => /\ list \in Seq(Listed) /\ Len(list) = c
                             /\ \A i \in 1 .. c : Memory[i] = list[i]
  BY ListTypes
<1>2. c < n /\ Li!Become(mem, c + 1, l) /\ idx \in 0 .. c - 1
  OBVIOUS
<1>3. idx \in Nat /\ idx + 1 \in Nat /\ c - idx \in Nat
  <2> HIDE DEF n, c
  <2> QED BY <1>1, <1>2
<1>4. /\ moved \in [1 .. n -> Cells]
      /\ \A i \in 1 .. n : moved[i] = IF i - (idx + 1) \notin 1 .. c - idx THEN Memory[i]
                                      ELSE IF i - (idx + 1) + idx \in 1 .. n
                                      THEN Memory[i - (idx + 1) + idx] ELSE Junk
  <2>1. moved \in [1 .. n -> Cells] /\ MemMoved(moved, idx + 1, idx, c - idx)
    BY <1>3, MovedFacts
  <2> HIDE DEF moved, c
  <2> QED BY <2>1 DEF MemMoved
<1> HIDE DEF n, c, moved
<1>5. /\ c + 1 \in 0 .. n /\ idx + 1 \in 1 .. c /\ idx + 1 \in 1 .. n
      /\ \A i \in 1 .. c + 1 : i \in 1 .. n
  BY <1>1, <1>2
<1>6. /\ mem \in [1 .. n -> Cells]
      /\ \A i \in 1 .. n : mem[i] = IF i = idx + 1 THEN value ELSE moved[i]
  BY <1>1, <1>4
<1> HIDE DEF mem
<1>7. ASSUME list # Li!NoList
      PROVE  l \in [1 .. c + 1 -> Listed] /\ \A i \in 1 .. c + 1 : mem[i] = l[i]
  <2>1. list \in Seq(Listed) /\ Len(list) = c /\ \A i \in 1 .. c : Memory[i] = list[i]
    BY <1>1, <1>7
  <2>2. /\ l \in [1 .. c + 1 -> Listed]
        /\ \A i \in 1 .. c + 1 :
             l[i] = IF i < idx + 1 THEN list[i] ELSE IF i = idx + 1 THEN value ELSE list[i - 1]
    <3>1. idx + 1 \in 1 .. Len(list) /\ value \in Listed
      BY <1>1, <1>5, <2>1
    <3>2. l \in [1 .. Len(list) + 1 -> Listed] /\ Inserted(l, list, idx + 1, value)
      BY <2>1, <3>1, InsertAtFacts
    <3> HIDE DEF l
    <3> QED BY <2>1, <3>2 DEF Inserted
  <2> HIDE DEF l
  <2>3. ASSUME NEW i \in 1 .. c + 1 PROVE mem[i] = l[i]
    <3>1. CASE i < idx + 1
      <4>1. i - (idx + 1) \notin 1 .. c - idx /\ i \in 1 .. c /\ i # idx + 1
        BY <1>1, <1>2, <3>1
      <4> QED BY <1>4, <1>5, <1>6, <2>1, <2>2, <3>1, <4>1
    <3>2. CASE i = idx + 1
      <4>1. ~(i < idx + 1)
        BY <1>2, <3>2
      <4> QED BY <1>5, <1>6, <2>2, <3>2, <4>1
    <3>3. CASE i > idx + 1
      <4>1. /\ i - (idx + 1) \in 1 .. c - idx /\ i - (idx + 1) + idx = i - 1 /\ i - 1 \in 1 .. n
            /\ i - 1 \in 1 .. c /\ i # idx + 1 /\ ~(i < idx + 1)
        BY <1>1, <1>2, <3>3
      <4>2. moved[i] = Memory[i - 1]
        BY <1>4, <1>5, <4>1
      <4> QED BY <1>5, <1>6, <2>1, <2>2, <4>1, <4>2
    <3>4. i < idx + 1 \/ i = idx + 1 \/ i > idx + 1
      BY <1>1, <1>2
    <3> QED BY <3>1, <3>2, <3>3, <3>4
  <2> QED BY <2>2, <2>3
<1> HIDE DEF l
<1> QED BY <1>1, <1>2, <1>5, <1>6, <1>7, BecomeKeeps

\* Taking the last value into the gap at idx.
LEMMA ListRemoveSwapBack ==
  ASSUME ListInv, NEW idx \in Li!Indices, Li!RemoveSwapBack(idx)
  PROVE  ListInv'
<1> DEFINE n == Len(Memory)
           c == listCount
           mem == [Memory EXCEPT ![idx + 1] = Memory[Li!LastIndex + 1]]
           filled == [list EXCEPT ![idx + 1] = list[Len(list)]]
<1>1. /\ n \in Nat /\ c \in 0 .. n /\ Memory \in [1 .. n -> Cells]
      /\ list # Li!NoList => /\ list \in Seq(Listed) /\ Len(list) = c
                             /\ \A i \in 1 .. c : Memory[i] = list[i]
  BY ListTypes
<1>2. idx \in 0 .. c - 1 /\ Li!Become(mem, c - 1, Li!Shorter(filled, 1))
  BY DEF Li!RemoveSwapBack, Li!Indices
<1>3. Li!LastIndex = IF c = 0 THEN 0 ELSE c - 1
  BY DEF Li!LastIndex
<1> HIDE DEF n, c
<1>4. /\ idx + 1 \in 1 .. c /\ idx + 1 \in 1 .. n /\ c \in 1 .. c /\ c \in 1 .. n
      /\ c - 1 \in 0 .. n /\ c - 1 \in 0 .. c /\ Li!LastIndex + 1 = c
      /\ \A i \in 1 .. c - 1 : i \in 1 .. c /\ i \in 1 .. n
  BY <1>1, <1>2, <1>3
<1>5. Memory[c] \in Cells
  BY <1>1, <1>4
<1>6. /\ mem \in [1 .. n -> Cells]
      /\ \A i \in 1 .. n : mem[i] = IF i = idx + 1 THEN Memory[c] ELSE Memory[i]
  BY <1>1, <1>4, <1>5
<1> HIDE DEF mem
<1>7. ASSUME list # Li!NoList
      PROVE  /\ Li!Shorter(filled, 1) \in [1 .. c - 1 -> Listed]
             /\ \A i \in 1 .. c - 1 : mem[i] = Li!Shorter(filled, 1)[i]
  <2>1. list \in Seq(Listed) /\ Len(list) = c /\ \A i \in 1 .. c : Memory[i] = list[i]
    BY <1>1, <1>7
  <2>2. list[c] \in Listed /\ list[Len(list)] = list[c]
    BY <1>4, <2>1, ElementOfSeq
  <2>3. /\ filled \in Seq(Listed) /\ Len(filled) = c
        /\ \A i \in 1 .. c : filled[i] = IF i = idx + 1 THEN list[c] ELSE list[i]
    <3>1. idx + 1 \in 1 .. Len(list)
      BY <1>4, <2>1
    <3> QED BY <2>1, <2>2, <3>1, ExceptSeq
  <2> HIDE DEF filled
  <2>4. Li!Shorter(filled, 1) = SubSeq(filled, 1, c - 1)
    BY <2>3 DEF Li!Shorter
  <2> DEFINE l == SubSeq(filled, 1, c - 1)
  <2>5. l \in Seq(Listed) /\ Len(l) = c - 1 /\ \A i \in 1 .. c - 1 : l[i] = filled[i]
    BY <1>4, <2>3, Front
  <2> HIDE DEF l
  <2>6. l \in [1 .. c - 1 -> Listed]
    BY <2>5, LenProperties
  <2>7. ASSUME NEW i \in 1 .. c - 1 PROVE mem[i] = l[i]
    BY <1>4, <1>6, <2>1, <2>3, <2>5, <2>7
  <2> QED BY <2>4, <2>6, <2>7 DEF l
<1> HIDE DEF filled
<1> QED BY <1>1, <1>2, <1>4, <1>6, <1>7, BecomeKeeps

\* Zeroed values behind the last one.
LEMMA ListPushMany ==
  ASSUME ListInv, NEW k \in Nat, Li!PushMany(k)
  PROVE  ListInv'
<1> DEFINE n == Len(Memory)
           c == listCount
           mem == [i \in DOMAIN Memory |-> IF i - c \in 1 .. k THEN Zero ELSE Memory[i]]
           zeros == [i \in 1 .. k |-> Zero]
           l == list \o zeros
<1>1. /\ n \in Nat /\ c \in 0 .. n /\ Memory \in [1 .. n -> Cells] /\ DOMAIN Memory = 1 .. n
      /\ Zero \in Listed /\ Zero \in Cells
      /\ list # Li!NoList => /\ list \in Seq(Listed) /\ Len(list) = c
                             /\ \A i \in 1 .. c : Memory[i] = list[i]
  BY ListTypes
<1>2. k <= n - c /\ Li!Become(mem, c + k, l)
  BY DEF Li!PushMany, Li!Capacity
<1> HIDE DEF n, c
<1>3. /\ mem \in [1 .. n -> Cells]
      /\ \A i \in 1 .. n : mem[i] = IF i - c \in 1 .. k THEN Zero ELSE Memory[i]
  BY <1>1
<1> HIDE DEF mem
<1>4. c + k \in 0 .. n /\ \A i \in 1 .. c + k : i \in 1 .. n
  BY <1>1, <1>2
<1>5. zeros \in Seq(Listed) /\ Len(zeros) = k /\ \A i \in 1 .. k : zeros[i] = Zero
  <2>1. zeros \in [1 .. k -> Listed] /\ \A i \in 1 .. k : zeros[i] = Zero
    BY <1>1
  <2> HIDE DEF zeros
  <2> QED BY <2>1, FunctionOfSeq
<1> HIDE DEF zeros
<1>6. ASSUME list # Li!NoList
      PROVE  l \in [1 .. c + k -> Listed] /\ \A i \in 1 .. c + k : mem[i] = l[i]
  <2>1. list \in Seq(Listed) /\ Len(list) = c /\ \A i \in 1 .. c : Memory[i] = list[i]
    BY <1>1, <1>6
  <2>2. /\ l \in Seq(Listed) /\ Len(l) = c + k
        /\ \A i \in 1 .. c + k : l[i] = IF i <= c THEN list[i] ELSE zeros[i - c]
    BY <1>5, <2>1, ConcatProperties
  <2> HIDE DEF l
  <2>3. l \in [1 .. c + k -> Listed]
    BY <2>2, LenProperties
  <2>4. ASSUME NEW i \in 1 .. c + k PROVE mem[i] = l[i]
    <3>1. CASE i <= c
      <4>1. i \in 1 .. c /\ i - c \notin 1 .. k
        BY <1>1, <3>1
      <4> QED BY <1>3, <1>4, <2>1, <2>2, <3>1, <4>1
    <3>2. CASE ~(i <= c)
      <4>1. i - c \in 1 .. k
        BY <1>1, <3>2
      <4> QED BY <1>3, <1>4, <1>5, <2>2, <3>2, <4>1
    <3> QED BY <3>1, <3>2
  <2> QED BY <2>3, <2>4
<1> HIDE DEF l
<1> QED BY <1>1, <1>2, <1>3, <1>4, <1>6, BecomeKeeps

\* The move into larger memory.
LEMMA ListResize ==
  ASSUME ListInv, NEW m \in Nat, Li!Resize(m)
  PROVE  ListInv'
<1> DEFINE n == Len(Memory)
           c == listCount
           mem == [i \in 1 .. m |-> IF i <= n THEN Memory[i] ELSE Junk]
<1>1. /\ n \in Nat /\ c \in 0 .. n /\ Memory \in [1 .. n -> Cells] /\ Junk \in Cells
      /\ list # Li!NoList => list \in [1 .. c -> Listed] /\ \A i \in 1 .. c : Memory[i] = list[i]
  BY ListTypes
<1>2. m > n /\ Li!Become(mem, c, list)
  BY DEF Li!Resize, Li!Capacity
<1> HIDE DEF n, c
<1>3. c \in 0 .. m /\ \A i \in 1 .. c : i \in 1 .. m /\ i <= n
  BY <1>1, <1>2
<1>4. mem \in [1 .. m -> Cells] /\ \A i \in 1 .. c : mem[i] = Memory[i]
  <2>1. \A i \in 1 .. m : i <= n => i \in 1 .. n
    BY <1>1
  <2> QED BY <1>1, <1>3, <2>1
<1> HIDE DEF mem
<1> QED BY <1>1, <1>2, <1>3, <1>4, BecomeKeeps

\* Taking the value at idx out, in its order: RemoveAt and PopAtOrder.
LEMMA ListRemoveAt ==
  ASSUME ListInv, NEW idx \in Li!Indices, Li!RemoveAt(idx) \/ Li!PopAtOrder(idx)
  PROVE  ListInv'
<1> DEFINE n == Len(Memory)
           c == listCount
<1>1. n \in Nat /\ c \in 0 .. n /\ Memory \in [1 .. n -> Cells]
  BY ListTypes
<1>2. idx \in 0 .. c - 1
  BY DEF Li!Indices
<1> HIDE DEF n, c
<1>3. /\ idx \in Nat /\ idx + 1 \in Nat /\ c - 1 - idx \in Nat /\ c - idx \in Nat
      /\ \A i \in 1 .. c - 1 : i \in 1 .. n /\ i + 1 \in 1 .. n
  BY <1>1, <1>2
<1>4. ASSUME NEW k \in Nat, k = c - 1 - idx \/ k = c - idx,
             Li!Become(Li!Moved(idx, idx + 1, k), c - 1, Li!S!RemoveAt(list, idx + 1))
      PROVE  ListInv'
  <2> DEFINE mem == Li!Moved(idx, idx + 1, k)
  <2>1. mem \in [1 .. n -> Cells] /\ MemMoved(mem, idx, idx + 1, k)
    BY <1>3, MovedFacts DEF n
  <2> HIDE DEF mem
  <2>2. ASSUME NEW i \in 1 .. c - 1
        PROVE  mem[i] = IF i < idx + 1 THEN Memory[i] ELSE Memory[i + 1]
    <3>1. mem[i] = IF i - idx \notin 1 .. k THEN Memory[i]
                   ELSE IF i - idx + (idx + 1) \in 1 .. n THEN Memory[i - idx + (idx + 1)] ELSE Junk
      BY <1>3, <2>1 DEF MemMoved, n
    <3>2. CASE i < idx + 1
      <4>1. i - idx \notin 1 .. k
        BY <1>1, <1>2, <3>2
      <4> QED BY <3>1, <3>2, <4>1
    <3>3. CASE ~(i < idx + 1)
      <4>1. i - idx \in 1 .. k
        BY <1>1, <1>2, <1>4, <3>3
      <4>2. i - idx + (idx + 1) = i + 1
        BY <1>2
      <4>3. i + 1 \in 1 .. n
        BY <1>3
      <4> QED BY <3>1, <3>3, <4>1, <4>2, <4>3
    <3> QED BY <3>2, <3>3
  <2>3. Li!Become(mem, c - 1, Li!S!RemoveAt(list, idx + 1))
    BY <1>4 DEF mem
  <2> QED BY <1>2, <2>1, <2>2, <2>3, ListRemove DEF n, c
<1>5. CASE Li!RemoveAt(idx) /\ idx # c - 1
  <2>1. Li!Become(Li!Moved(idx, idx + 1, c - 1 - idx), c - 1, Li!S!RemoveAt(list, idx + 1))
    BY <1>5 DEF Li!RemoveAt, c
  <2> QED BY <1>3, <1>4, <2>1
<1>6. CASE Li!RemoveAt(idx) /\ idx = c - 1
  <2>1. Li!Become(Memory, c - 1, Li!S!RemoveAt(list, idx + 1))
    BY <1>6 DEF Li!RemoveAt, c
  <2>2. ASSUME NEW i \in 1 .. c - 1
        PROVE  Memory[i] = IF i < idx + 1 THEN Memory[i] ELSE Memory[i + 1]
    <3>1. i < idx + 1
      BY <1>1, <1>6
    <3> QED BY <3>1
  <2> QED BY <1>1, <1>2, <2>1, <2>2, ListRemove DEF n, c
<1>7. CASE Li!PopAtOrder(idx)
  <2>1. Li!Become(Li!Moved(idx, idx + 1, c - idx), c - 1, Li!S!RemoveAt(list, idx + 1))
    BY <1>7 DEF Li!PopAtOrder, c
  <2> QED BY <1>3, <1>4, <2>1
<1> QED BY <1>5, <1>6, <1>7

\* PushAt and PushSwapBack at the last index, which leave the calls without a list.
LEMMA ListLost ==
  ASSUME ListInv, listCount < Len(Memory), NEW value \in Values, NEW idx \in Li!Indices,
         Li!Become([Memory EXCEPT ![idx + 1] = value], listCount + 1, Li!NoList)
  PROVE  ListInv'
<1> DEFINE n == Len(Memory)
           c == listCount
           mem == [Memory EXCEPT ![idx + 1] = value]
<1>1. n \in Nat /\ c \in 0 .. n /\ Memory \in [1 .. n -> Cells] /\ value \in Cells
  BY ListTypes
<1>2. Li!Become(mem, c + 1, Li!NoList)
  OBVIOUS
<1>3. c + 1 \in 0 .. n
  <2>1. c < n
    OBVIOUS
  <2> HIDE DEF c, n
  <2> QED BY <1>1, <2>1
<1> HIDE DEF n, c
<1>4. mem \in [1 .. n -> Cells]
  BY <1>1
<1> HIDE DEF mem
<1> QED BY <1>1, <1>2, <1>3, <1>4, BecomeKeeps

\* Putting a value in at idx, in order: PushAt and PushAtOrder.
LEMMA ListPushAt ==
  ASSUME ListInv, NEW value \in Values, NEW idx \in Li!Indices,
         Li!PushAt(value, idx) \/ Li!PushAtOrder(value, idx)
  PROVE  ListInv'
<1>1. listCount < Len(Memory) /\ idx \in 0 .. listCount - 1
  BY DEF Li!PushAt, Li!PushAtOrder, Li!Capacity, Li!Indices
<1>2. CASE Li!PushAt(value, idx) /\ idx = Li!LastIndex
  <2>1. Li!Become([Memory EXCEPT ![idx + 1] = value], listCount + 1, Li!NoList)
    BY <1>2 DEF Li!PushAt
  <2> QED BY <1>1, <2>1, ListLost
<1>3. CASE Li!PushAt(value, idx) /\ idx # Li!LastIndex
  <2>1. Li!Become([Li!Moved(idx + 1, idx, listCount - idx) EXCEPT ![idx + 1] = value],
                  listCount + 1, Li!S!InsertAt(list, idx + 1, value))
    BY <1>3 DEF Li!PushAt
  <2> QED BY <1>1, <2>1, ListInsert
<1>4. CASE Li!PushAtOrder(value, idx)
  <2>1. Li!Become([Li!Moved(idx + 1, idx, listCount - idx) EXCEPT ![idx + 1] = value],
                  listCount + 1, Li!S!InsertAt(list, idx + 1, value))
    BY <1>4 DEF Li!PushAtOrder
  <2> QED BY <1>1, <2>1, ListInsert
<1> QED BY <1>2, <1>3, <1>4

\* Putting a value in at idx: PushSwapBack and PushAt of StaticList.
LEMMA ListPushSwap ==
  ASSUME ListInv, NEW value \in Values, NEW idx \in Li!Indices,
         Li!PushSwapBack(value, idx) \/ Li!PushAtSwap(value, idx)
  PROVE  ListInv'
<1> DEFINE n == Len(Memory)
           c == listCount
<1>1. /\ n \in Nat /\ c \in 0 .. n /\ Memory \in [1 .. n -> Cells] /\ value \in Cells
  BY ListTypes
<1>2. c < n /\ idx \in 0 .. c - 1
  BY DEF Li!PushSwapBack, Li!PushAtSwap, Li!Capacity, Li!Indices
<1> HIDE DEF n, c
<1>3. /\ idx \in Nat /\ idx + 1 \in 1 .. n /\ c + 1 \in 1 .. n /\ c \in Nat /\ 1 \in Nat
      /\ idx + 1 # c + 1 /\ \A i \in 1 .. c + 1 : i \in 1 .. n
  BY <1>1, <1>2
<1>4. CASE Li!PushSwapBack(value, idx) /\ idx = Li!LastIndex
  <2>1. Li!Become([Memory EXCEPT ![idx + 1] = value], c + 1, Li!NoList)
    BY <1>4 DEF Li!PushSwapBack, c
  <2> QED BY <1>2, <2>1, ListLost DEF n, c
<1>5. CASE Li!PushSwapBack(value, idx) /\ idx # Li!LastIndex
  <2> DEFINE moved == Li!Moved(c, idx, 1)
             mem == [moved EXCEPT ![idx + 1] = value]
  <2>1. moved \in [1 .. n -> Cells] /\ MemMoved(moved, c, idx, 1)
    BY <1>3, MovedFacts DEF n
  <2>2. Li!Become(mem, c + 1, Append([list EXCEPT ![idx + 1] = value], list[idx + 1]))
    BY <1>5 DEF Li!PushSwapBack, c
  <2> HIDE DEF moved
  <2>3. mem \in [1 .. n -> Cells] /\ \A i \in 1 .. n : mem[i] = IF i = idx + 1 THEN value ELSE moved[i]
    BY <1>1, <1>3, <2>1
  <2> HIDE DEF mem
  <2>4. ASSUME NEW i \in 1 .. c + 1, i # idx + 1
        PROVE  moved[i] = IF i = c + 1 THEN Memory[idx + 1] ELSE Memory[i]
    <3>1. moved[i] = IF i - c \notin 1 .. 1 THEN Memory[i]
                     ELSE IF i - c + idx \in 1 .. n THEN Memory[i - c + idx] ELSE Junk
      BY <1>3, <2>1 DEF MemMoved, n
    <3>2. CASE i = c + 1
      <4>1. i - c \in 1 .. 1 /\ i - c + idx = idx + 1
        BY <1>3, <3>2
      <4> QED BY <1>3, <3>1, <3>2, <4>1
    <3>3. CASE i # c + 1
      <4>1. i - c \notin 1 .. 1
        BY <1>3, <3>3
      <4> QED BY <3>1, <3>3, <4>1
    <3> QED BY <3>2, <3>3
  <2>5. \A i \in 1 .. c + 1 : mem[i] = IF i = idx + 1 THEN value
                                       ELSE IF i = c + 1 THEN Memory[idx + 1] ELSE Memory[i]
    BY <1>3, <2>3, <2>4
  <2> QED BY <1>2, <2>2, <2>3, <2>5, ListAppendSwap DEF n, c
<1>6. CASE Li!PushAtSwap(value, idx)
  <2> DEFINE mem == [Memory EXCEPT ![c + 1] = Memory[idx + 1], ![idx + 1] = value]
  <2>1. Li!Become(mem, c + 1, Append([list EXCEPT ![idx + 1] = value], list[idx + 1]))
    BY <1>6 DEF Li!PushAtSwap, c
  <2>2. Memory[idx + 1] \in Cells
    BY <1>1, <1>3
  <2>3. /\ mem \in [1 .. n -> Cells]
        /\ \A i \in 1 .. n : mem[i] = IF i = idx + 1 THEN value
                                      ELSE IF i = c + 1 THEN Memory[idx + 1] ELSE Memory[i]
    BY <1>1, <1>3, <2>2
  <2> HIDE DEF mem
  <2>4. \A i \in 1 .. c + 1 : mem[i] = IF i = idx + 1 THEN value
                                       ELSE IF i = c + 1 THEN Memory[idx + 1] ELSE Memory[i]
    BY <1>3, <2>3
  <2> QED BY <1>2, <2>1, <2>3, <2>4, ListAppendSwap DEF n, c
<1> QED BY <1>4, <1>5, <1>6

\* Taking values from the end.
LEMMA ListPop ==
  ASSUME ListInv,
         Li!Pop \/ Li!Clear \/ \E k \in 1 .. MaxCapacity : Li!RemoveMany(k)
  PROVE  ListInv'
<1> DEFINE n == Len(Memory)
           c == listCount
<1>1. n \in Nat /\ c \in 0 .. n /\ Memory \in [1 .. n -> Cells]
  BY ListTypes
<1>2. MaxCapacity \in Nat
  BY ListAssumption DEF Li!ListConstants
<1> HIDE DEF n, c
<1>3. ASSUME NEW l, Li!Become(Memory, 0, l) PROVE ListInv'
  <2>1. 0 \in 0 .. n
    BY <1>1
  <2> QED BY <1>1, <1>3, <2>1, BecomeKeeps
<1>4. ASSUME NEW k \in 0 .. c, Li!Become(Memory, c - k, Li!Shorter(list, k)) PROVE ListInv'
  BY <1>4, ListShorter DEF c
<1>5. CASE Li!Pop
  <2>1. c > 0 /\ IF Li!LastIndex > 0 THEN Li!Become(Memory, c - 1, Li!Shorter(list, 1))
                                     ELSE Li!Become(Memory, c, Li!NoList)
    BY <1>5 DEF Li!Pop, c
  <2>2. 1 \in 0 .. c
    BY <1>1, <2>1
  <2>3. CASE Li!Become(Memory, c, Li!NoList)
    BY <1>1, <2>3, BecomeKeeps
  <2> QED BY <1>4, <2>1, <2>2, <2>3
<1>6. CASE Li!Clear
  BY <1>3, <1>6 DEF Li!Clear
<1>7. ASSUME NEW k \in 1 .. MaxCapacity, Li!RemoveMany(k) PROVE ListInv'
  <2>1. IF c <= k THEN Li!Become(Memory, 0, <<>>)
                  ELSE Li!Become(Memory, c - k, Li!Shorter(list, k))
    BY <1>7 DEF Li!RemoveMany, c
  <2>2. CASE c <= k
    BY <1>3, <2>1, <2>2
  <2>3. CASE ~(c <= k)
    <3>1. k \in 0 .. c
      BY <1>1, <1>2, <2>3
    <3> QED BY <1>4, <2>1, <2>3, <3>1
  <2> QED BY <2>2, <2>3
<1> QED BY <1>5, <1>6, <1>7

\* Every step keeps the invariant.
LEMMA ListStep == ASSUME ListInv, [Li!Next]_listVars PROVE ListInv'
<1>1. ASSUME NEW value \in Values, Li!Push(value) PROVE ListInv'
  BY <1>1, ListPush
<1>2. ASSUME NEW value \in Values, NEW idx \in Li!Indices,
             \/ Li!PushAt(value, idx) \/ Li!PushSwapBack(value, idx)
             \/ Li!PushAtSwap(value, idx) \/ Li!PushAtOrder(value, idx)
      PROVE  ListInv'
  BY <1>2, ListPushAt, ListPushSwap
<1>3. ASSUME NEW idx \in Li!Indices,
             Li!RemoveAt(idx) \/ Li!RemoveSwapBack(idx) \/ Li!PopAtOrder(idx)
      PROVE  ListInv'
  BY <1>3, ListRemoveAt, ListRemoveSwapBack
<1>4. ASSUME NEW k \in 1 .. MaxCapacity, Li!Resize(k) \/ Li!PushMany(k) PROVE ListInv'
  <2>1. k \in Nat
    BY ListAssumption DEF Li!ListConstants
  <2> QED BY <1>4, <2>1, ListResize, ListPushMany
<1>5. CASE Li!Pop \/ Li!Clear \/ \E k \in 1 .. MaxCapacity : Li!RemoveMany(k)
  BY <1>5, ListPop
<1>6. CASE UNCHANGED listVars
  <2>1. UNCHANGED <<kind, Memory, listCount, list>>
    BY <1>6 DEF listVars
  <2> QED BY <2>1 DEF ListInv, Fits, Li!TypeOK, Li!Capacity, Li!NoList
<1> QED BY <1>1, <1>2, <1>3, <1>4, <1>5, <1>6 DEF Li!Next

LEMMA ListInit == ASSUME Li!Init PROVE ListInv
<1>1. MaxCapacity \in Nat /\ Junk \in Cells
  BY ListAssumption DEF Li!ListConstants, Cells
<1>2. /\ kind \in {"DArray", "StaticList"} /\ listCount = 0 /\ list = <<>>
      /\ Memory = <<>> \/ Memory = [i \in 1 .. MaxCapacity |-> Junk]
  BY DEF Li!Init
<1>3. [i \in 1 .. MaxCapacity |-> Junk] \in [1 .. MaxCapacity -> Cells]
  BY <1>1
<1>4. Memory \in Seq(Cells) /\ Len(Memory) \in Nat
  <2>1. CASE Memory = <<>>
    BY <2>1, EmptySeq
  <2>2. CASE Memory = [i \in 1 .. MaxCapacity |-> Junk]
    BY <1>1, <1>3, <2>2, FunctionOfSeq
  <2> QED BY <1>2, <2>1, <2>2
<1>5. list \in [1 .. 0 -> Listed] /\ list \in Seq(Listed) /\ 1 .. 0 = {}
  BY <1>2, EmptySeq
<1>6. 0 \in 0 .. Len(Memory)
  BY <1>4
<1> QED BY <1>2, <1>4, <1>5, <1>6 DEF ListInv, Li!TypeOK, Li!Capacity, Fits, Cells, Listed

\* The memory of an array and what its calls describe fit each other.
LEMMA ListInvariant == Spec => []ListInv
<1>1. Init => ListInv
  BY PartsStart, ListInit
<1>2. ListInv /\ [Next]_vars => ListInv'
  BY OnePartSteps, ListStep
<1> QED BY <1>1, <1>2, PTL DEF Spec

\* The front of an array is the list that its calls describe, for every mixture of
\* insertions, removals and moves into larger memory that avoids the three operations
\* which are wrong at the end of a DArray.
THEOREM ArraysHoldTheirList == Spec => []ListExact
<1>1. ListInv => ListExact
  <2> SUFFICES ASSUME ListInv, list # Li!NoList
               PROVE  SubSeq(Memory, 1, listCount) = list
    BY DEF ListExact, Li!ListExact
  <2>1. /\ listCount \in 0 .. Len(Memory) /\ list \in Seq(Listed) /\ Len(list) = listCount
        /\ Listed \subseteq Cells /\ \A i \in 1 .. listCount : Memory[i] = list[i]
    BY ListTypes
  <2>2. Memory \in Seq(Cells)
    BY DEF ListInv, Li!TypeOK, Cells
  <2> DEFINE front == SubSeq(Memory, 1, listCount)
  <2>3. /\ front \in Seq(Cells) /\ Len(front) = listCount
        /\ \A i \in 1 .. listCount : front[i] = Memory[i]
    BY <2>1, <2>2, Front
  <2> HIDE DEF front
  <2>4. list \in Seq(Cells)
    BY <2>1, SeqMonotonic
  <2>5. front = list
    BY <2>1, <2>3, <2>4, SeqEqual
  <2> QED BY <2>5 DEF front
<1> QED BY <1>1, ListInvariant, PTL

-----------------------------------------------------------------------------
(* Strings: the header, the allocation and the text agree. *)

Bytes == Chars \union {NUL, Junk}

\* A string of len characters in mem, m bytes of which rm are allocated, of which the
\* header promises cap; flt is what the string has met.
Fine(len, mem, txt, cap, m, rm, flt) ==
  /\ cap \in 0 .. MaxLength /\ len \in 0 .. cap /\ m \in Nat /\ rm \in Nat
  /\ cap <= rm /\ rm <= m /\ m <= rm + 1
  /\ mem \in [1 .. m -> Bytes]
  /\ flt \in {"none", "full"}
  /\ flt = "none" => cap < rm /\ m = rm /\ mem[len + 1] = NUL
  /\ txt # St!NoText => txt \in [1 .. len -> Chars] /\ \A i \in 1 .. len : mem[i] = txt[i]

\* There is no string, or one that is fine, or one that is followed no further.
StringInv ==
  \/ St!Init
  \/ /\ memory \in {"arena", "heap"}
     /\ Fine(Length, bytes, text, Capacity, Len(bytes), room, fault)
  \/ memory \in {"arena", "heap"} /\ fault = "unbacked" /\ St!TypeOK

\* Functions with the same values on the same positions are the same.
LEMMA SameFunction ==
  ASSUME NEW n \in Nat, NEW S, NEW T, NEW f \in [1 .. n -> S], NEW g \in [1 .. n -> T],
         \A i \in 1 .. n : f[i] = g[i]
  PROVE  f = g
  OBVIOUS

\* What the constants give.
LEMMA StringConstantFacts ==
  /\ MaxLength \in Nat /\ HeaderSize \in Nat /\ StringLine \in Nat \ {0}
  /\ Chars \subseteq Bytes /\ NUL \in Bytes /\ Junk \in Bytes
  /\ NUL \notin Chars /\ Blank \in Chars
  BY StringAssumption DEF St!StringConstants, Bytes

\* A string that is used is fine.
LEMMA IntactFine ==
  ASSUME StringInv, St!Intact
  PROVE  /\ memory \in {"arena", "heap"}
         /\ Fine(Length, bytes, text, Capacity, Len(bytes), room, fault)
  BY DEF StringInv, St!Intact, St!Init

\* A step that leaves a string which is fine.
LEMMA FineKeeps ==
  ASSUME NEW len, NEW mem, NEW txt, NEW cap, NEW m, NEW rm, NEW flt,
         NEW where \in {"arena", "heap"},
         Fine(len, mem, txt, cap, m, rm, flt),
         Length' = len, bytes' = mem, text' = txt, Capacity' = cap, memory' = where,
         room' = rm, fault' = flt
  PROVE  StringInv'
<1>1. m \in Nat /\ mem \in [1 .. m -> Bytes]
  BY DEF Fine
<1>2. Len(mem) = m
  BY <1>1, FunctionOfSeq
<1>3. Fine(len, mem, txt, cap, Len(mem), rm, flt)
  BY <1>2
<1> QED BY <1>3 DEF StringInv, Fine, St!NoText

\* A step after which the string is followed no further.
LEMMA UnbackedKeeps ==
  ASSUME NEW m \in Nat, NEW mem \in [1 .. m -> Bytes],
         Length' \in 0 .. MaxLength, bytes' = mem, text' \in St!Texts \union {St!NoText},
         Capacity' \in 0 .. MaxLength, memory' \in {"arena", "heap"},
         room' \in Nat, fault' = "unbacked"
  PROVE  StringInv'
<1>1. mem \in Seq(Bytes)
  BY FunctionOfSeq
<1> QED BY <1>1 DEF StringInv, St!TypeOK, Bytes, St!Faults, St!Texts, St!NoText

\* A text is a function on its positions.
LEMMA TextFacts ==
  ASSUME NEW some \in St!Texts
  PROVE  /\ Len(some) \in 0 .. MaxLength /\ some \in [1 .. Len(some) -> Chars]
         /\ some \in Seq(Chars) /\ some # St!NoText
<1>1. PICK n \in 0 .. MaxLength : some \in [1 .. n -> Chars]
  BY DEF St!Texts
<1>2. n \in Nat
  BY <1>1, StringConstantFacts
<1>3. Len(some) = n /\ some \in Seq(Chars)
  BY <1>1, <1>2, FunctionOfSeq
<1>4. some # <<NUL>>
  <2>1. ASSUME some = <<NUL>> PROVE FALSE
    <3>1. DOMAIN some = {1} /\ DOMAIN some = 1 .. n /\ some[1] = NUL
      BY <1>1, <2>1
    <3>2. some[1] \in Chars
      BY <1>1, <3>1
    <3> QED BY <3>1, <3>2, StringConstantFacts
  <2> QED BY <2>1
<1> QED BY <1>1, <1>3, <1>4 DEF St!NoText

\* A text of characters is never NoText.
LEMMA CharsAreText ==
  ASSUME NEW n \in 0 .. MaxLength, NEW txt \in [1 .. n -> Chars]
  PROVE  txt \in St!Texts /\ txt # St!NoText
<1>1. txt \in St!Texts
  BY DEF St!Texts
<1> QED BY <1>1, TextFacts

\* How long the memory is once n bytes of it have been written.
Wider(m, n) == IF m < n THEN n ELSE m

\* What the writes leave.
Put(r, m, mem, at, some, k) ==
  \A i \in 1 .. Wider(m, at + k) :
    r[i] = IF i - at \in 1 .. k THEN some[i - at]
           ELSE IF i \in 1 .. m THEN mem[i] ELSE Junk

LEMMA WrittenFacts ==
  ASSUME NEW m \in Nat, NEW mem \in [1 .. m -> Bytes], NEW at \in Nat,
         NEW k \in Nat, NEW some \in [1 .. k -> Bytes]
  PROVE  /\ St!Written(mem, at, some) \in [1 .. Wider(m, at + k) -> Bytes]
         /\ Put(St!Written(mem, at, some), m, mem, at, some, k)
<1> DEFINE r == St!Written(mem, at, some)
<1>1. Len(mem) = m /\ Len(some) = k
  BY FunctionOfSeq
<1>2. r = [i \in 1 .. Wider(m, at + k) |->
             IF i - at \in 1 .. k THEN some[i - at]
             ELSE IF i \in 1 .. m THEN mem[i] ELSE Junk]
  BY <1>1 DEF St!Written, Wider
<1> HIDE DEF r
<1>3. r \in [1 .. Wider(m, at + k) -> Bytes]
  BY <1>2, StringConstantFacts
<1>4. Put(r, m, mem, at, some, k)
  BY <1>2 DEF Put
<1> QED BY <1>3, <1>4 DEF r

\* k bytes and a terminator behind them.
PutText(r, m, mem, at, some, k) ==
  \A i \in 1 .. Wider(m, at + k + 1) :
    r[i] = IF i - at \in 1 .. k THEN some[i - at]
           ELSE IF i - at = k + 1 THEN NUL
           ELSE IF i \in 1 .. m THEN mem[i] ELSE Junk

LEMMA SpelledFacts ==
  ASSUME NEW m \in Nat, NEW mem \in [1 .. m -> Bytes], NEW at \in Nat,
         NEW k \in Nat, NEW some \in [1 .. k -> Bytes]
  PROVE  /\ St!Spelled(mem, at, some) \in [1 .. Wider(m, at + k + 1) -> Bytes]
         /\ PutText(St!Spelled(mem, at, some), m, mem, at, some, k)
<1> DEFINE all == Append(some, NUL)
<1>1. some \in Seq(Bytes) /\ Len(some) = k
  BY FunctionOfSeq
<1>2. /\ all \in Seq(Bytes) /\ Len(all) = k + 1 /\ all[k + 1] = NUL
      /\ \A i \in 1 .. k : all[i] = some[i]
  BY <1>1, AppendProperties, StringConstantFacts
<1> HIDE DEF all
<1>3. all \in [1 .. k + 1 -> Bytes]
  BY <1>2, LenProperties
<1>4. St!Spelled(mem, at, some) = St!Written(mem, at, all)
  BY DEF St!Spelled, all
<1>5. k + 1 \in Nat /\ at + (k + 1) = at + k + 1
  OBVIOUS
<1>6. /\ St!Written(mem, at, all) \in [1 .. Wider(m, at + (k + 1)) -> Bytes]
      /\ Put(St!Written(mem, at, all), m, mem, at, all, k + 1)
  BY <1>3, <1>5, WrittenFacts
<1>7. ASSUME NEW i \in 1 .. Wider(m, at + k + 1)
      PROVE  St!Written(mem, at, all)[i] =
               IF i - at \in 1 .. k THEN some[i - at]
               ELSE IF i - at = k + 1 THEN NUL
               ELSE IF i \in 1 .. m THEN mem[i] ELSE Junk
  <2>1. St!Written(mem, at, all)[i] =
          IF i - at \in 1 .. k + 1 THEN all[i - at]
          ELSE IF i \in 1 .. m THEN mem[i] ELSE Junk
    BY <1>5, <1>6 DEF Put
  <2>2. i - at \in 1 .. k + 1 <=> i - at \in 1 .. k \/ i - at = k + 1
    OBVIOUS
  <2>3. ~ (k + 1 \in 1 .. k)
    OBVIOUS
  <2> QED BY <1>2, <2>1, <2>2, <2>3
<1> QED BY <1>4, <1>5, <1>6, <1>7 DEF PutText

\* What a function on positions is written over: the front stays.
LEMMA NulFacts ==
  ASSUME NEW n \in Nat
  PROVE  St!Nul(n) \in [1 .. n -> Bytes] /\ \A i \in 1 .. n : St!Nul(n)[i] = NUL
  BY StringConstantFacts DEF St!Nul

\* Some text written to the front of a string.
LEMMA SetFine ==
  ASSUME NEW m \in Nat, NEW mem \in [1 .. m -> Bytes], NEW cap \in 0 .. MaxLength,
         NEW rm \in Nat, cap <= rm, rm <= m, m <= rm + 1,
         NEW flt \in {"none", "full"}, flt = "none" => cap < rm /\ m = rm,
         NEW len \in 0 .. cap, NEW some \in [1 .. len -> Bytes],
         NEW txt, txt # St!NoText => txt = some /\ some \in [1 .. len -> Chars]
  PROVE  \E n \in Nat : Fine(len, St!Spelled(mem, 0, some), txt, cap, n, rm, flt)
<1> DEFINE r == St!Spelled(mem, 0, some)
           n == Wider(m, 0 + len + 1)
<1>1. cap \in Nat /\ len \in Nat /\ len <= cap /\ len <= rm
  BY StringConstantFacts
<1>2. r \in [1 .. n -> Bytes] /\ PutText(r, m, mem, 0, some, len)
  BY <1>1, SpelledFacts
<1>3. n \in Nat /\ rm <= n /\ n <= rm + 1 /\ (flt = "none" => n = rm)
      /\ len + 1 \in 1 .. n /\ \A i \in 1 .. len : i \in 1 .. n
  BY <1>1 DEF Wider
<1>4. \A i \in 1 .. n : r[i] = IF i - 0 \in 1 .. len THEN some[i - 0]
                                ELSE IF i - 0 = len + 1 THEN NUL
                                ELSE IF i \in 1 .. m THEN mem[i] ELSE Junk
  BY <1>2 DEF PutText
<1> HIDE DEF r, n
<1>5. ASSUME NEW i \in 1 .. len PROVE r[i] = some[i]
  <2>1. i \in 1 .. n /\ i - 0 = i
    BY <1>3
  <2> QED BY <1>4, <2>1
<1>6. r[len + 1] = NUL
  <2>1. len + 1 - 0 = len + 1 /\ len + 1 \notin 1 .. len
    BY <1>1
  <2> QED BY <1>3, <1>4, <2>1
<1>7. Fine(len, r, txt, cap, n, rm, flt)
  BY <1>1, <1>2, <1>3, <1>5, <1>6 DEF Fine
<1> QED BY <1>3, <1>7 DEF r

\* Some characters behind the ones of a string.
LEMMA ExtendedFine ==
  ASSUME NEW len, NEW mem, NEW txt, NEW cap, NEW m, NEW rm, NEW flt, NEW some \in St!Texts,
         Fine(len, mem, txt, cap, m, rm, flt),
         NEW wide \in 0 .. MaxLength, len + Len(some) <= wide, wide <= rm,
         flt = "none" => wide < rm
  PROVE  \E n \in Nat :
           Fine(len + Len(some), St!Spelled(mem, len, some),
                IF txt = St!NoText THEN St!NoText ELSE txt \o some, wide, n, rm, flt)
<1> DEFINE k == Len(some)
           r == St!Spelled(mem, len, some)
           n == Wider(m, len + k + 1)
           new == IF txt = St!NoText THEN St!NoText ELSE txt \o some
<1>1. /\ k \in Nat /\ some \in [1 .. k -> Chars] /\ some \in [1 .. k -> Bytes] /\ some \in Seq(Chars)
  BY TextFacts, StringConstantFacts
<1>2. /\ len \in Nat /\ m \in Nat /\ mem \in [1 .. m -> Bytes] /\ wide \in Nat /\ rm \in Nat
      /\ len <= rm /\ rm <= m /\ m <= rm + 1 /\ flt \in {"none", "full"} /\ (flt = "none" => m = rm)
      /\ txt # St!NoText => txt \in [1 .. len -> Chars] /\ \A i \in 1 .. len : mem[i] = txt[i]
  BY StringConstantFacts DEF Fine
<1>3. len + k <= wide /\ wide <= rm /\ len + k \in 0 .. wide /\ (flt = "none" => wide < rm)
  <2>1. len + k <= wide /\ wide <= rm
    OBVIOUS
  <2> HIDE DEF k
  <2> QED BY <1>1, <1>2, <2>1
<1>4. r \in [1 .. n -> Bytes] /\ PutText(r, m, mem, len, some, k)
  BY <1>1, <1>2, SpelledFacts
<1> HIDE DEF k, r
<1>5. n \in Nat /\ rm <= n /\ n <= rm + 1 /\ (flt = "none" => n = rm)
      /\ len + k + 1 \in 1 .. n /\ \A i \in 1 .. len + k : i \in 1 .. n
  BY <1>1, <1>2, <1>3 DEF Wider
<1>6. \A i \in 1 .. n : r[i] = IF i - len \in 1 .. k THEN some[i - len]
                                ELSE IF i - len = k + 1 THEN NUL
                                ELSE IF i \in 1 .. m THEN mem[i] ELSE Junk
  BY <1>4 DEF PutText
<1> HIDE DEF n
<1>7. r[len + k + 1] = NUL
  <2> DEFINE i == len + k + 1
  <2>1. i \in 1 .. n /\ i - len = k + 1 /\ k + 1 \notin 1 .. k
    BY <1>1, <1>2, <1>5
  <2> HIDE DEF i
  <2>2. i - len \notin 1 .. k
    BY <2>1
  <2>3. r[i] = NUL
    BY <1>6, <2>1, <2>2
  <2> QED BY <2>3 DEF i
<1>8. ASSUME txt # St!NoText
      PROVE  txt \o some \in [1 .. len + k -> Chars]
             /\ \A i \in 1 .. len + k : r[i] = (txt \o some)[i]
  <2>1. txt \in Seq(Chars) /\ Len(txt) = len /\ Len(some) = k
    BY <1>2, <1>8, FunctionOfSeq DEF k
  <2>2. /\ txt \o some \in Seq(Chars) /\ Len(txt \o some) = len + k
        /\ \A i \in 1 .. len + k : (txt \o some)[i] = IF i <= len THEN txt[i] ELSE some[i - len]
    BY <1>1, <2>1, ConcatProperties
  <2>3. txt \o some \in [1 .. len + k -> Chars]
    BY <2>2, LenProperties
  <2>4. ASSUME NEW i \in 1 .. len + k PROVE r[i] = (txt \o some)[i]
    <3>1. i \in 1 .. n
      BY <1>5
    <3>2. CASE i <= len
      <4>1. i - len \notin 1 .. k /\ i - len # k + 1 /\ i \in 1 .. len /\ i \in 1 .. m
        BY <1>1, <1>2, <3>2
      <4>2. r[i] = mem[i]
        BY <1>6, <3>1, <4>1
      <4> QED BY <1>2, <1>8, <2>2, <3>2, <4>1, <4>2
    <3>3. CASE ~(i <= len)
      <4>1. i - len \in 1 .. k
        BY <1>1, <1>2, <3>3
      <4>2. r[i] = some[i - len]
        BY <1>6, <3>1, <4>1
      <4> QED BY <2>2, <3>3, <4>2
    <3> QED BY <3>2, <3>3
  <2> QED BY <2>3, <2>4
<1>9. new # St!NoText => new \in [1 .. len + k -> Chars] /\ \A i \in 1 .. len + k : r[i] = new[i]
  BY <1>8
<1> HIDE DEF new
<1>10. Fine(len + k, r, new, wide, n, rm, flt)
  BY <1>2, <1>3, <1>4, <1>5, <1>7, <1>9 DEF Fine, n
<1> QED BY <1>5, <1>10 DEF k, r, new

\* A string that is put together in the memory that is there.
FineHere(s) == \E n \in Nat : Fine(s.len, s.bytes, s.text, Capacity, n, room, fault)

LEMMA NowFine == ASSUME StringInv, St!Intact PROVE FineHere(St!Now)
<1>1. Fine(Length, bytes, text, Capacity, Len(bytes), room, fault) /\ Len(bytes) \in Nat
  BY IntactFine DEF Fine
<1> QED BY <1>1 DEF FineHere, St!Now

LEMMA AppendedFine ==
  ASSUME NEW s, FineHere(s), NEW some \in St!Texts
  PROVE  FineHere(St!Appended(s, some))
<1>1. CASE Len(some) > 0 /\ s.len + Len(some) <= Capacity
  <2>1. PICK m \in Nat : Fine(s.len, s.bytes, s.text, Capacity, m, room, fault)
    BY DEF FineHere
  <2>2. Capacity \in 0 .. MaxLength /\ Capacity <= room
        /\ (fault = "none" => Capacity < room)
    BY <2>1 DEF Fine
  <2>3. \E n \in Nat :
          Fine(s.len + Len(some), St!Spelled(s.bytes, s.len, some),
               IF s.text = St!NoText THEN St!NoText ELSE s.text \o some,
               Capacity, n, room, fault)
    BY <1>1, <2>1, <2>2, ExtendedFine
  <2>4. /\ St!Appended(s, some).len = s.len + Len(some)
        /\ St!Appended(s, some).bytes = St!Spelled(s.bytes, s.len, some)
        /\ St!Appended(s, some).text = IF s.text = St!NoText THEN St!NoText ELSE s.text \o some
    BY <1>1 DEF St!Appended, St!Extended
  <2> QED BY <2>3, <2>4 DEF FineHere
<1>2. CASE ~(Len(some) > 0 /\ s.len + Len(some) <= Capacity)
  <2>1. St!Appended(s, some) = s
    BY <1>2 DEF St!Appended
  <2> QED BY <2>1
<1> QED BY <1>1, <1>2

LEMMA StringBecomes ==
  ASSUME StringInv, St!Intact, NEW s, FineHere(s), St!Become(s)
  PROVE  StringInv'
<1>1. /\ Length' = s.len /\ bytes' = s.bytes /\ text' = s.text
      /\ Capacity' = Capacity /\ memory' = memory /\ room' = room /\ fault' = fault
  BY DEF St!Become
<1>2. PICK m \in Nat : Fine(s.len, s.bytes, s.text, Capacity, m, room, fault)
  BY DEF FineHere
<1>3. memory \in {"arena", "heap"}
  BY IntactFine
<1> QED BY <1>1, <1>2, <1>3, FineKeeps

\* StringAppendLength and StringJoin.
LEMMA AppendKeeps ==
  ASSUME StringInv, NEW some \in St!Texts, St!StringAppendLength(some)
  PROVE  StringInv'
<1>1. St!Intact /\ St!Become(St!Appended(St!Now, some))
  BY DEF St!StringAppendLength
<1>2. FineHere(St!Appended(St!Now, some))
  BY <1>1, NowFine, AppendedFine
<1> QED BY <1>1, <1>2, StringBecomes

LEMMA JoinKeeps ==
  ASSUME StringInv, NEW part1 \in St!Texts, NEW glue \in St!Texts, NEW part2 \in St!Texts,
         St!StringJoin(part1, glue, part2)
  PROVE  StringInv'
<1> DEFINE a == St!Appended(St!Now, part1)
           b == St!Appended(a, glue)
           c == St!Appended(b, part2)
<1>1. St!Intact /\ St!Become(c)
  BY DEF St!StringJoin
<1>2. FineHere(a)
  BY <1>1, NowFine, AppendedFine
<1> HIDE DEF a
<1>3. FineHere(b)
  BY <1>2, AppendedFine
<1> HIDE DEF b
<1>4. FineHere(c)
  BY <1>3, AppendedFine
<1> HIDE DEF c
<1> QED BY <1>1, <1>4, StringBecomes

\* More memory for a string of the heap.
LEMMA ResizedFine ==
  ASSUME StringInv, St!Intact, NEW n \in Nat, Capacity <= n, fault = "none" => Capacity < n,
         NEW cap \in 0 .. MaxLength, Capacity <= cap, cap <= n, fault = "none" => cap < n
  PROVE  Fine(Length, St!Resized(n), text, cap, n, n, fault)
<1> DEFINE m == Len(bytes)
           r == St!Resized(n)
<1>1. /\ Capacity \in Nat /\ Length \in 0 .. Capacity /\ m \in Nat
      /\ room \in Nat /\ Capacity <= room /\ room <= m
      /\ bytes \in [1 .. m -> Bytes] /\ fault \in {"none", "full"}
      /\ fault = "none" => Capacity < room /\ bytes[Length + 1] = NUL
      /\ text # St!NoText =>
           text \in [1 .. Length -> Chars] /\ \A i \in 1 .. Length : bytes[i] = text[i]
  BY IntactFine, StringConstantFacts DEF Fine
<1> HIDE DEF m
<1>2. /\ r \in [1 .. n -> Bytes]
      /\ \A i \in 1 .. n : r[i] = IF i \in 1 .. m /\ i <= room THEN bytes[i] ELSE Junk
  BY <1>1, StringConstantFacts DEF St!Resized
<1> HIDE DEF r
<1>3. Length \in 0 .. cap /\ \A i \in 1 .. Length : i \in 1 .. n /\ i \in 1 .. m /\ i <= room
  BY <1>1, StringConstantFacts
<1>4. text # St!NoText => text \in [1 .. Length -> Chars] /\ \A i \in 1 .. Length : r[i] = text[i]
  BY <1>1, <1>2, <1>3
<1>5. ASSUME fault = "none" PROVE r[Length + 1] = NUL
  <2>1. Length + 1 \in 1 .. n /\ Length + 1 \in 1 .. m /\ Length + 1 <= room
    BY <1>1, <1>5
  <2> QED BY <1>1, <1>2, <1>5, <2>1
<1>6. n <= n /\ n <= n + 1
  OBVIOUS
<1> QED BY <1>1, <1>2, <1>3, <1>4, <1>5, <1>6 DEF Fine, r

LEMMA AppendAllocatorKeeps ==
  ASSUME StringInv, NEW some \in St!Texts, St!StringAppendAllocator(some)
  PROVE  StringInv'
<1> DEFINE k == Len(some)
           over == Length + k > Capacity
           moved == over /\ memory = "heap"
           rm == IF moved THEN Capacity + k ELSE room
           grown == IF moved THEN St!Resized(rm) ELSE bytes
           m == IF moved THEN Capacity + k ELSE Len(bytes)
           wide == IF over THEN Length + k ELSE Capacity
           flt == IF over /\ Length = Capacity THEN "full" ELSE fault
           s == St!Extended([St!Now EXCEPT !.bytes = grown], some)
<1>1. /\ Length' = s.len /\ bytes' = s.bytes /\ text' = s.text /\ memory' = memory
      /\ Capacity' = IF over THEN s.len ELSE Capacity
      /\ room' = rm /\ fault' = IF over /\ memory = "arena" THEN "unbacked" ELSE flt
      /\ k > 0 /\ Length + k <= MaxLength /\ St!Intact
  BY DEF St!StringAppendAllocator
<1>2. /\ s.len = Length + k /\ s.bytes = St!Spelled(grown, Length, some)
      /\ s.text = IF text = St!NoText THEN St!NoText ELSE text \o some
  BY DEF St!Extended, St!Now
<1> HIDE DEF s
<1>3. /\ k \in Nat /\ Capacity \in 0 .. MaxLength /\ Capacity \in Nat /\ Length \in 0 .. Capacity
      /\ MaxLength \in Nat /\ Len(bytes) \in Nat /\ room \in Nat /\ Capacity <= room
      /\ (fault = "none" => Capacity < room)
      /\ memory \in {"arena", "heap"}
      /\ Fine(Length, bytes, text, Capacity, Len(bytes), room, fault)
  BY <1>1, IntactFine, TextFacts, StringConstantFacts DEF Fine
<1>4. CASE over /\ memory = "arena"
  <2>1. grown = bytes /\ rm = room /\ fault' = "unbacked" /\ Capacity' = Length + k
    BY <1>1, <1>2, <1>4
  <2>2. Len(bytes) \in Nat /\ bytes \in [1 .. Len(bytes) -> Bytes] /\ Length \in Nat
    <3>1. bytes \in [1 .. Len(bytes) -> Bytes]
      BY <1>3, Zenon DEF Fine
    <3>2. Length \in Nat
      BY <1>3
    <3> QED BY <1>3, <3>1, <3>2
  <2>3. some \in [1 .. k -> Bytes]
    BY TextFacts, StringConstantFacts
  <2>4. St!Spelled(bytes, Length, some) \in [1 .. Wider(Len(bytes), Length + k + 1) -> Bytes]
    BY <1>3, <2>2, <2>3, SpelledFacts
  <2>5. (IF text = St!NoText THEN St!NoText ELSE text \o some) \in St!Texts \union {St!NoText}
    <3>1. CASE text = St!NoText
      BY <3>1
    <3>2. CASE text # St!NoText
      <4>1. text \in [1 .. Length -> Chars] /\ some \in Seq(Chars)
        BY <1>3, <3>2, TextFacts DEF Fine
      <4>2. text \in Seq(Chars) /\ Len(text) = Length
        BY <2>2, <4>1, FunctionOfSeq
      <4>3. text \o some \in Seq(Chars) /\ Len(text \o some) = Length + k
        BY <4>1, <4>2, ConcatProperties
      <4>4. text \o some \in [1 .. Length + k -> Chars]
        BY <4>3, LenProperties
      <4> HIDE DEF k
      <4>5. Length + k \in 0 .. MaxLength
        BY <1>1, <1>3, <2>2
      <4> QED BY <3>2, <4>4, <4>5, CharsAreText
    <3> QED BY <3>1, <3>2
  <2> HIDE DEF k
  <2>6. Length + k \in 0 .. MaxLength /\ Wider(Len(bytes), Length + k + 1) \in Nat
    BY <1>1, <1>3, <2>2 DEF Wider
  <2>7. /\ bytes' = St!Spelled(bytes, Length, some) /\ Length' = Length + k /\ room' \in Nat
        /\ memory' \in {"arena", "heap"}
        /\ text' = IF text = St!NoText THEN St!NoText ELSE text \o some
    BY <1>1, <1>2, <1>3, <2>1
  <2> HIDE DEF over, moved, rm, grown, m, wide, flt
  <2> QED BY <2>1, <2>4, <2>5, <2>6, <2>7, UnbackedKeeps
<1>5. CASE ~(over /\ memory = "arena")
  <2>1. Fine(Length, grown, text, Capacity, m, rm, flt)
    <3>1. CASE moved
      <4>1. Capacity + k \in Nat /\ Capacity <= Capacity + k /\ Capacity < Capacity + k
        <5> HIDE DEF k
        <5> QED BY <1>1, <1>3
      <4>2. Capacity <= Capacity
        BY <1>3
      <4>3. Fine(Length, St!Resized(Capacity + k), text, Capacity, Capacity + k, Capacity + k, fault)
        BY <1>1, <1>3, <4>1, <4>2, ResizedFine
      <4>4. Fine(Length, St!Resized(Capacity + k), text, Capacity, Capacity + k, Capacity + k, flt)
        <5>1. CASE flt = fault
          BY <4>3, <5>1
        <5>2. CASE flt = "full"
          <6> HIDE DEF flt, k
          <6> QED BY <4>3, <5>2 DEF Fine
        <5> QED BY <5>1, <5>2
      <4>5. grown = St!Resized(Capacity + k) /\ m = Capacity + k /\ rm = Capacity + k
        BY <3>1
      <4> HIDE DEF grown, m, rm, flt
      <4> QED BY <4>4, <4>5
    <3>2. CASE ~moved
      <4>1. ~over
        BY <1>3, <1>5, <3>2
      <4>2. grown = bytes /\ m = Len(bytes) /\ rm = room /\ flt = fault
        BY <3>2, <4>1
      <4> HIDE DEF grown, m, rm, flt
      <4> QED BY <1>3, <4>2
    <3> QED BY <3>1, <3>2
  <2>2. wide \in 0 .. MaxLength /\ Length + k <= wide /\ wide <= rm /\ (flt = "none" => wide < rm)
    <3>1. moved <=> over
      BY <1>3, <1>5
    <3> HIDE DEF k, moved
    <3> QED BY <1>1, <1>3, <3>1
  <2>3. Capacity' = wide /\ room' = rm /\ fault' = flt
    BY <1>1, <1>2, <1>5
  <2> HIDE DEF grown, over, m, wide, moved, rm, flt
  <2>4. \E n \in Nat :
          Fine(Length + k, St!Spelled(grown, Length, some),
               IF text = St!NoText THEN St!NoText ELSE text \o some, wide, n, rm, flt)
    BY <2>1, <2>2, ExtendedFine
  <2> HIDE DEF k
  <2>5. memory' \in {"arena", "heap"}
    BY <1>1, <1>3
  <2> QED BY <1>1, <1>2, <2>3, <2>4, <2>5, FineKeeps
<1> QED BY <1>4, <1>5

LEMMA MakeSpaceKeeps ==
  ASSUME StringInv, NEW addLen \in Nat, St!StringMakeSpaceFor(addLen)
  PROVE  StringInv'
<1> DEFINE n == Length + addLen + 1
           cap == Length + addLen
<1>1. /\ St!Intact /\ St!Available < addLen /\ Length + addLen <= MaxLength
      /\ IF memory = "heap" THEN bytes' = St!Resized(n) /\ room' = n /\ fault' = fault
                            ELSE fault' = "unbacked" /\ bytes' = bytes /\ room' = room
      /\ Capacity' = cap /\ memory' = memory /\ Length' = Length /\ text' = text
  BY DEF St!StringMakeSpaceFor, St!NewSize
<1>2. /\ Capacity \in Nat /\ Length \in 0 .. Capacity /\ MaxLength \in Nat
      /\ memory \in {"arena", "heap"} /\ Len(bytes) \in Nat /\ room \in Nat
      /\ bytes \in [1 .. Len(bytes) -> Bytes]
      /\ text # St!NoText => text \in [1 .. Length -> Chars]
  BY <1>1, IntactFine, StringConstantFacts DEF Fine
<1>3. /\ n \in Nat /\ Capacity <= n /\ Capacity < n /\ cap \in 0 .. MaxLength
      /\ Capacity <= cap /\ cap <= n /\ cap < n
  BY <1>1, <1>2 DEF St!Available
<1>4. CASE memory = "heap"
  <2>1. Fine(Length, St!Resized(n), text, cap, n, n, fault)
    BY <1>1, <1>3, ResizedFine
  <2> HIDE DEF n, cap
  <2> QED BY <1>1, <1>4, <2>1, FineKeeps
<1>5. CASE memory # "heap"
  <2>1. Length \in 0 .. MaxLength
    BY <1>1, <1>2
  <2>2. text \in St!Texts \union {St!NoText}
    BY <1>2, <2>1, CharsAreText
  <2> HIDE DEF n, cap
  <2> QED BY <1>1, <1>2, <1>3, <1>5, <2>1, <2>2, UnbackedKeeps
<1> QED BY <1>4, <1>5

\* Room behind the header of a fresh allocation.
LEMMA FreshFacts ==
  ASSUME NEW where, NEW n \in Nat
  PROVE  /\ St!Given(where, n) \in Nat /\ n <= St!Given(where, n)
         /\ St!Fresh(where, n) \in [1 .. St!Given(where, n) -> Bytes]
<1> DEFINE size == HeaderSize + n
           a == size + StringLine - 1
           given == IF where = "arena" THEN (a \div StringLine) * StringLine ELSE size
           m == St!Given(where, n)
<1>1. HeaderSize \in Nat /\ StringLine \in Nat \ {0} /\ Junk \in Bytes
  BY StringConstantFacts
<1>2. size \in Nat /\ a \in Nat /\ a = size + StringLine - 1 /\ size = HeaderSize + n
  BY <1>1
<1>3. m = given - HeaderSize
  BY DEF St!Given
<1> HIDE DEF a, size, m
<1>4. given \in Nat /\ size <= given
  <2>1. CASE where = "arena"
    <3> DEFINE q == a \div StringLine
               rest == a % StringLine
    <3>1. a = StringLine * q + rest /\ q \in Nat /\ rest \in 0 .. StringLine - 1
      BY <1>1, <1>2, DivMod
    <3>2. given = q * StringLine
      BY <2>1
    <3> HIDE DEF q, rest, given
    <3>3. q * StringLine = StringLine * q /\ StringLine * q \in Nat
      BY <1>1, <3>1
    <3>4. size <= StringLine * q
      BY <1>1, <1>2, <3>1, <3>3
    <3> QED BY <3>2, <3>3, <3>4
  <2>2. CASE where # "arena"
    BY <1>2, <2>2
  <2> QED BY <2>1, <2>2
<1>5. St!Fresh(where, n) = [i \in 1 .. m |-> Junk]
  BY DEF St!Fresh, m
<1> HIDE DEF given
<1>6. m \in Nat /\ n <= m
  BY <1>1, <1>2, <1>3, <1>4
<1>7. [i \in 1 .. m |-> Junk] \in [1 .. m -> Bytes]
  BY <1>1
<1> QED BY <1>5, <1>6, <1>7 DEF m

LEMMA MakeKeeps ==
  ASSUME StringInv, NEW where \in {"arena", "heap"}, NEW some \in St!Texts,
         St!StringMake(where, some)
  PROVE  StringInv'
<1> DEFINE k == Len(some)
           m == St!Given(where, k + 1)
<1>1. /\ memory' = where /\ Length' = k /\ Capacity' = k /\ text' = some
      /\ bytes' = St!Spelled(St!Fresh(where, k + 1), 0, some) /\ room' = m /\ fault' = fault
  BY DEF St!StringMake
<1>2. fault = "none"
  BY DEF St!StringMake, StringInv, Fine, St!Init, St!TypeOK
<1>3. k \in 0 .. MaxLength /\ k \in Nat /\ some \in [1 .. k -> Chars] /\ some \in [1 .. k -> Bytes]
  BY TextFacts, StringConstantFacts
<1> HIDE DEF k
<1>4. k + 1 \in Nat
  BY <1>3
<1>5. m \in Nat /\ k + 1 <= m /\ St!Fresh(where, k + 1) \in [1 .. m -> Bytes]
  BY <1>4, FreshFacts
<1> HIDE DEF m
<1>6. k <= m /\ k < m /\ k \in 0 .. k /\ m <= m /\ m <= m + 1
  BY <1>3, <1>5
<1>7. \E n \in Nat :
        Fine(k, St!Spelled(St!Fresh(where, k + 1), 0, some), some, k, n, m, "none")
  BY <1>3, <1>5, <1>6, SetFine
<1> QED BY <1>1, <1>2, <1>7, FineKeeps

LEMMA MakeZeroKeeps ==
  ASSUME StringInv, NEW capacity \in 0 .. MaxLength, NEW length \in {0, capacity},
         St!StringMakeZero(length, capacity)
  PROVE  StringInv'
<1> DEFINE k == capacity + 1
           mem == St!Fresh("arena", k)
           m == St!Given("arena", k)
           r == St!Written(mem, 0, St!Nul(k))
           txt == IF length = 0 THEN <<>> ELSE St!NoText
<1>1. /\ memory' = "arena" /\ Length' = length /\ Capacity' = capacity
      /\ bytes' = r /\ text' = txt /\ room' = m /\ fault' = fault
  BY DEF St!StringMakeZero
<1>2. fault = "none"
  BY DEF St!StringMakeZero, StringInv, Fine, St!Init, St!TypeOK
<1>3. capacity \in Nat /\ k \in Nat /\ length \in 0 .. capacity /\ length + 1 \in 1 .. k
      /\ length + 1 - 0 = length + 1 /\ 0 \in Nat
  BY StringConstantFacts
<1>4. m \in Nat /\ k <= m /\ mem \in [1 .. m -> Bytes]
  BY <1>3, FreshFacts
<1> HIDE DEF mem, m
<1>5. capacity <= m /\ capacity < m /\ length + 1 \in 1 .. m /\ m <= m + 1 /\ Wider(m, 0 + k) = m
  BY <1>3, <1>4 DEF Wider
<1> HIDE DEF k
<1>6. St!Nul(k) \in [1 .. k -> Bytes] /\ \A i \in 1 .. k : St!Nul(k)[i] = NUL
  BY <1>3, NulFacts
<1>7. r \in [1 .. m -> Bytes] /\ Put(r, m, mem, 0, St!Nul(k), k)
  BY <1>3, <1>4, <1>5, <1>6, WrittenFacts
<1> HIDE DEF r
<1>8. r[length + 1] = NUL
  BY <1>3, <1>5, <1>6, <1>7 DEF Put
<1>9. txt # St!NoText => txt \in [1 .. length -> Chars] /\ \A i \in 1 .. length : r[i] = txt[i]
  <2>1. CASE length = 0
    <3>1. 1 .. length = {} /\ txt = <<>>
      BY <2>1
    <3> QED BY <3>1
  <2>2. CASE length # 0
    BY <2>2
  <2> QED BY <2>1, <2>2
<1> HIDE DEF txt
<1>10. Fine(length, r, txt, capacity, m, m, "none")
  BY <1>3, <1>4, <1>5, <1>7, <1>8, <1>9 DEF Fine
<1> QED BY <1>1, <1>2, <1>10, FineKeeps

\* No string: the heap or the arena has its memory back.
LEMMA FreeKeeps ==
  ASSUME St!StringFreeAllocator \/ St!ForgetArena
  PROVE  StringInv'
  BY DEF St!StringFreeAllocator, St!ForgetArena, St!Released, StringInv, St!Init

\* The first characters of a text.
LEMMA FrontOfText ==
  ASSUME NEW some \in St!Texts, NEW k \in 0 .. Len(some)
  PROVE  /\ SubSeq(some, 1, k) \in [1 .. k -> Chars] /\ Len(SubSeq(some, 1, k)) = k
         /\ SubSeq(some, 1, k) \in [1 .. k -> Bytes]
<1> DEFINE kept == SubSeq(some, 1, k)
<1>1. some \in Seq(Chars)
  BY TextFacts
<1>2. kept \in Seq(Chars) /\ Len(kept) = k
  BY <1>1, Front
<1> HIDE DEF kept
<1>3. kept \in [1 .. k -> Chars]
  BY <1>2, LenProperties
<1>4. kept \in [1 .. k -> Bytes]
  BY <1>3, StringConstantFacts
<1> QED BY <1>2, <1>3, <1>4 DEF kept

\* The memory of a string that is used.
LEMMA IntactFacts ==
  ASSUME StringInv, St!Intact
  PROVE  /\ Capacity \in 0 .. MaxLength /\ Capacity \in Nat /\ Length \in 0 .. Capacity
         /\ Len(bytes) \in Nat /\ room \in Nat
         /\ Capacity <= room /\ room <= Len(bytes) /\ Len(bytes) <= room + 1
         /\ bytes \in [1 .. Len(bytes) -> Bytes] /\ fault \in {"none", "full"}
         /\ fault = "none" => Capacity < room /\ Len(bytes) = room /\ bytes[Length + 1] = NUL
         /\ text # St!NoText =>
              text \in [1 .. Length -> Chars] /\ \A i \in 1 .. Length : bytes[i] = text[i]
         /\ memory \in {"arena", "heap"}
  BY IntactFine, StringConstantFacts DEF Fine

LEMMA SetKeeps ==
  ASSUME StringInv, NEW some \in St!Texts, St!StringSet(some)
  PROVE  StringInv'
<1> DEFINE k == IF Capacity < Len(some) THEN Capacity ELSE Len(some)
           kept == SubSeq(some, 1, k)
           s == [len |-> Len(kept), bytes |-> St!Spelled(bytes, 0, kept), text |-> kept]
<1>1. St!Intact /\ St!Become(s)
  BY DEF St!StringSet
<1>2. Len(some) \in Nat
  BY TextFacts, StringConstantFacts
<1>3. /\ Capacity \in 0 .. MaxLength /\ Capacity \in Nat /\ Len(bytes) \in Nat /\ room \in Nat
      /\ Capacity <= room /\ room <= Len(bytes) /\ Len(bytes) <= room + 1
      /\ bytes \in [1 .. Len(bytes) -> Bytes] /\ fault \in {"none", "full"}
      /\ fault = "none" => Capacity < room /\ Len(bytes) = room
  BY <1>1, IntactFacts
<1>4. k \in 0 .. Len(some) /\ k \in 0 .. Capacity
  <2>1. Capacity \in Nat
    BY <1>3
  <2>2. CASE Capacity < Len(some)
    BY <1>2, <2>1, <2>2
  <2>3. CASE ~ Capacity < Len(some)
    BY <1>2, <2>1, <2>3
  <2> QED BY <2>2, <2>3
<1> HIDE DEF k
<1>5. kept \in [1 .. k -> Chars] /\ kept \in [1 .. k -> Bytes] /\ Len(kept) = k
  BY <1>4, FrontOfText
<1> HIDE DEF kept
<1>6. \E n \in Nat : Fine(k, St!Spelled(bytes, 0, kept), kept, Capacity, n, room, fault)
  BY <1>3, <1>4, <1>5, SetFine
<1>7. FineHere(s)
  BY <1>5, <1>6 DEF FineHere
<1> HIDE DEF s
<1> QED BY <1>1, <1>7, StringBecomes

LEMMA ClearKeeps ==
  ASSUME StringInv, St!StringClear
  PROVE  StringInv'
<1> DEFINE r == St!Written(bytes, 0, St!Nul(1))
           s == [len |-> 0, bytes |-> r, text |-> <<>>]
           m == Len(bytes)
           n == Wider(m, 0 + 1)
<1>1. St!Intact /\ St!Become(s)
  BY DEF St!StringClear
<1>2. /\ Capacity \in 0 .. MaxLength /\ Capacity \in Nat /\ m \in Nat /\ room \in Nat
      /\ Capacity <= room /\ room <= m /\ m <= room + 1
      /\ bytes \in [1 .. m -> Bytes] /\ fault \in {"none", "full"}
      /\ fault = "none" => Capacity < room /\ m = room
  BY <1>1, IntactFacts
<1>3. St!Nul(1) \in [1 .. 1 -> Bytes] /\ St!Nul(1)[1] = NUL
  <2>1. 1 \in Nat /\ 1 \in 1 .. 1
    OBVIOUS
  <2> QED BY <2>1, NulFacts
<1> HIDE DEF m
<1>4. r \in [1 .. n -> Bytes] /\ Put(r, m, bytes, 0, St!Nul(1), 1)
  BY <1>2, <1>3, WrittenFacts
<1>5. /\ n \in Nat /\ room <= n /\ n <= room + 1 /\ 1 \in 1 .. n
      /\ fault = "none" => Capacity < room /\ n = room
  BY <1>2 DEF Wider
<1> HIDE DEF r
<1>6. r[0 + 1] = NUL
  <2>1. 1 - 0 \in 1 .. 1 /\ 1 - 0 = 1
    OBVIOUS
  <2> QED BY <1>3, <1>4, <1>5, <2>1 DEF Put
<1> HIDE DEF n
<1>7. <<>> \in [1 .. 0 -> Chars] /\ 1 .. 0 = {} /\ 0 \in 0 .. Capacity
  BY <1>2
<1>8. Fine(0, r, <<>>, Capacity, n, room, fault)
  BY <1>2, <1>4, <1>5, <1>6, <1>7 DEF Fine
<1>9. FineHere(s)
  BY <1>5, <1>8 DEF FineHere
<1> HIDE DEF s
<1> QED BY <1>1, <1>9, StringBecomes

\* A string with room to spare has some bytes zeroed.
LEMMA SprintfZeroes ==
  ASSUME StringInv, St!Intact, NEW numBytes \in Nat, Capacity > numBytes,
         St!Become([St!Now EXCEPT
           !.bytes = St!Written(@, 0, St!Nul(numBytes)),
           !.text = IF numBytes = 0 \/ Length = 0 THEN @ ELSE St!NoText])
  PROVE  StringInv'
<1> DEFINE m == Len(bytes)
           r == St!Written(bytes, 0, St!Nul(numBytes))
           txt == IF numBytes = 0 \/ Length = 0 THEN text ELSE St!NoText
           s == [St!Now EXCEPT !.bytes = r, !.text = txt]
<1>1. /\ Capacity \in 0 .. MaxLength /\ Capacity \in Nat /\ m \in Nat /\ room \in Nat
      /\ Capacity <= room /\ room <= m /\ m <= room + 1
      /\ bytes \in [1 .. m -> Bytes] /\ Length \in 0 .. Capacity /\ fault \in {"none", "full"}
      /\ fault = "none" => Capacity < room /\ m = room /\ bytes[Length + 1] = NUL
      /\ text # St!NoText =>
           text \in [1 .. Length -> Chars] /\ \A i \in 1 .. Length : bytes[i] = text[i]
  BY IntactFacts
<1>2. St!Become(s)
  BY DEF St!Now
<1>3. s.len = Length /\ s.bytes = r /\ s.text = txt
  BY DEF St!Now
<1> HIDE DEF s, m
<1>4. St!Nul(numBytes) \in [1 .. numBytes -> Bytes] /\ \A i \in 1 .. numBytes : St!Nul(numBytes)[i] = NUL
  BY NulFacts
<1>5. Wider(m, 0 + numBytes) = m
  BY <1>1 DEF Wider
<1>6. r \in [1 .. m -> Bytes] /\ Put(r, m, bytes, 0, St!Nul(numBytes), numBytes)
  BY <1>1, <1>4, <1>5, WrittenFacts
<1> HIDE DEF r
<1>7. \A i \in 1 .. m : r[i] = IF i \in 1 .. numBytes THEN NUL ELSE bytes[i]
  <2>1. ASSUME NEW i \in 1 .. m PROVE r[i] = IF i \in 1 .. numBytes THEN NUL ELSE bytes[i]
    <3>1. i - 0 = i
      BY <1>1
    <3> QED BY <1>4, <1>5, <1>6, <3>1 DEF Put
  <2> QED BY <2>1
<1>8. ASSUME fault = "none" PROVE r[Length + 1] = NUL
  <2>1. Length + 1 \in 1 .. m
    BY <1>1, <1>8
  <2> QED BY <1>1, <1>7, <1>8, <2>1
<1>9. ASSUME txt # St!NoText
      PROVE  txt \in [1 .. Length -> Chars] /\ \A i \in 1 .. Length : r[i] = txt[i]
  <2>1. txt = text /\ (numBytes = 0 \/ Length = 0)
    BY <1>9
  <2>2. ASSUME NEW i \in 1 .. Length PROVE i \notin 1 .. numBytes /\ i \in 1 .. m
    BY <1>1, <2>1
  <2> QED BY <1>1, <1>7, <1>9, <2>1, <2>2
<1> HIDE DEF txt
<1>10. Fine(Length, r, txt, Capacity, m, room, fault)
  BY <1>1, <1>6, <1>8, <1>9 DEF Fine
<1>11. FineHere(s)
  BY <1>1, <1>3, <1>10 DEF FineHere
<1> QED BY <1>2, <1>11, StringBecomes

LEMMA SprintfKeeps ==
  ASSUME StringInv, NEW numBytes \in 0 .. MaxLength, NEW some \in St!Texts,
         St!StringSprintf(numBytes, some)
  PROVE  StringInv'
<1> DEFINE m == Len(bytes)
           k == IF Len(some) < numBytes THEN Len(some) ELSE numBytes - 1
           kept == SubSeq(some, 1, k)
           printed == IF numBytes = 0 THEN bytes ELSE St!Spelled(bytes, 0, kept)
           r == St!Written(printed, numBytes, St!Nul(1))
           txt == IF numBytes = 0 THEN <<>> ELSE St!NoText
<1>1. St!Intact /\ numBytes \in Nat
  BY StringConstantFacts DEF St!StringSprintf
<1>2. CASE Capacity > numBytes
  <2>1. St!Become([St!Now EXCEPT
          !.bytes = St!Written(@, 0, St!Nul(numBytes)),
          !.text = IF numBytes = 0 \/ Length = 0 THEN @ ELSE St!NoText])
    <3>1. Capacity \in Nat
      BY <1>1, IntactFacts
    <3>2. ~ Capacity <= numBytes
      BY <1>1, <1>2, <3>1
    <3> QED BY <3>2 DEF St!StringSprintf
  <2> QED BY <1>1, <1>2, <2>1, SprintfZeroes
<1>3. CASE ~(Capacity > numBytes)
  <2>1. /\ Capacity \in 0 .. MaxLength /\ Capacity \in Nat /\ m \in Nat /\ room \in Nat
        /\ Capacity <= room /\ room <= m /\ m <= room + 1
        /\ bytes \in [1 .. m -> Bytes] /\ fault \in {"none", "full"}
        /\ (fault = "none" => Capacity < room /\ m = room)
        /\ memory \in {"arena", "heap"}
    BY <1>1, IntactFacts
  <2>2. /\ Length' = numBytes /\ bytes' = r /\ text' = txt
        /\ memory' = memory /\ Capacity' = Capacity /\ room' = room
        /\ fault' = IF Capacity < numBytes THEN "unbacked" ELSE fault
    BY <1>3 DEF St!StringSprintf
  <2> HIDE DEF m
  <2>3. PICK p \in Nat : /\ printed \in [1 .. p -> Bytes]
                         /\ p = m \/ p = Wider(m, numBytes) \/ (p \in Nat /\ p <= Wider(m, numBytes) /\ m <= p)
    <3>1. CASE numBytes = 0
      BY <2>1, <3>1
    <3>2. CASE numBytes # 0
      <4>1. Len(some) \in Nat
        BY TextFacts, StringConstantFacts
      <4>2. k \in 0 .. Len(some) /\ k \in Nat /\ k + 1 <= numBytes
        BY <1>1, <3>2, <4>1
      <4> HIDE DEF k
      <4>3. kept \in [1 .. k -> Bytes]
        BY <4>2, FrontOfText
      <4> HIDE DEF kept
      <4>4. St!Spelled(bytes, 0, kept) \in [1 .. Wider(m, 0 + k + 1) -> Bytes]
        BY <2>1, <4>2, <4>3, SpelledFacts
      <4>5. Wider(m, 0 + k + 1) \in Nat /\ m <= Wider(m, 0 + k + 1)
            /\ Wider(m, 0 + k + 1) <= Wider(m, numBytes)
        BY <1>1, <2>1, <4>2 DEF Wider
      <4> QED BY <3>2, <4>4, <4>5
    <3> QED BY <3>1, <3>2
  <2> HIDE DEF printed
  <2>4. St!Nul(1) \in [1 .. 1 -> Bytes] /\ St!Nul(1)[1] = NUL
    <3>1. 1 \in Nat /\ 1 \in 1 .. 1
      OBVIOUS
    <3> QED BY <3>1, NulFacts
  <2> DEFINE n == Wider(p, numBytes + 1)
  <2>5. r \in [1 .. n -> Bytes] /\ Put(r, p, printed, numBytes, St!Nul(1), 1)
    BY <1>1, <2>3, <2>4, WrittenFacts
  <2> HIDE DEF r
  <2>6. n \in Nat
    BY <1>1 DEF Wider
  <2>7. CASE Capacity < numBytes
    <3>1. txt \in St!Texts \union {St!NoText}
      <4>1. numBytes # 0
        BY <1>1, <2>1, <2>7
      <4> QED BY <4>1
    <3> HIDE DEF n, txt
    <3> QED BY <2>1, <2>2, <2>5, <2>6, <2>7, <3>1, UnbackedKeeps
  <2>8. CASE ~(Capacity < numBytes)
    <3>1. numBytes = Capacity
      BY <1>1, <1>3, <2>1, <2>8
    <3>2. m <= p /\ p <= Wider(m, numBytes)
      BY <1>1, <2>1, <2>3 DEF Wider
    <3>3. /\ room <= n /\ n <= room + 1 /\ (fault = "none" => n = room)
          /\ numBytes + 1 \in 1 .. n
      BY <1>1, <2>1, <3>1, <3>2 DEF Wider
    <3>4. r[numBytes + 1] = NUL
      <4>1. numBytes + 1 - numBytes = 1 /\ 1 \in 1 .. 1
        BY <1>1
      <4>2. n = Wider(p, numBytes + 1)
        OBVIOUS
      <4> QED BY <2>4, <2>5, <3>3, <4>1, <4>2 DEF Put
    <3>5. txt # St!NoText => txt \in [1 .. numBytes -> Chars] /\ \A i \in 1 .. numBytes : r[i] = txt[i]
      <4>1. CASE numBytes = 0
        <5>1. 1 .. numBytes = {} /\ txt = <<>>
          BY <4>1
        <5> QED BY <5>1
      <4>2. CASE numBytes # 0
        BY <4>2
      <4> QED BY <4>1, <4>2
    <3> HIDE DEF txt, n
    <3>6. numBytes \in 0 .. Capacity
      BY <1>1, <3>1
    <3>7. Fine(numBytes, r, txt, Capacity, n, room, fault)
      BY <2>1, <2>5, <2>6, <3>3, <3>4, <3>5, <3>6 DEF Fine
    <3> QED BY <2>1, <2>2, <2>8, <3>7, FineKeeps
  <2> QED BY <2>7, <2>8
<1> QED BY <1>2, <1>3

\* Three sequences one behind the other.
LEMMA ThreeParts ==
  ASSUME NEW S, NEW p \in Seq(S), NEW m \in Seq(S), NEW q \in Seq(S)
  PROVE  /\ p \o m \o q \in Seq(S) /\ Len(p \o m \o q) = Len(p) + Len(m) + Len(q)
         /\ \A i \in 1 .. Len(p) : (p \o m \o q)[i] = p[i]
         /\ \A i \in 1 .. Len(m) : (p \o m \o q)[Len(p) + i] = m[i]
         /\ \A i \in 1 .. Len(q) : (p \o m \o q)[Len(p) + Len(m) + i] = q[i]
<1> DEFINE pm == p \o m
           a == Len(p)
           k == Len(m)
           b == Len(q)
<1>1. a \in Nat /\ k \in Nat /\ b \in Nat
  BY LenProperties
<1>2. /\ pm \in Seq(S) /\ Len(pm) = a + k
      /\ \A i \in 1 .. a + k : pm[i] = IF i <= a THEN p[i] ELSE m[i - a]
  BY ConcatProperties
<1> HIDE DEF pm
<1>3. /\ pm \o q \in Seq(S) /\ Len(pm \o q) = a + k + b
      /\ \A i \in 1 .. a + k + b : (pm \o q)[i] = IF i <= a + k THEN pm[i] ELSE q[i - (a + k)]
  <2>1. b = Len(q) /\ pm \in Seq(S)
    BY <1>2
  <2> HIDE DEF a, k, b
  <2>2. /\ pm \o q \in Seq(S) /\ Len(pm \o q) = Len(pm) + Len(q)
        /\ \A i \in 1 .. Len(pm) + Len(q) :
             (pm \o q)[i] = IF i <= Len(pm) THEN pm[i] ELSE q[i - Len(pm)]
    BY <2>1, ConcatProperties
  <2> QED BY <1>2, <2>1, <2>2
<1> DEFINE r == pm \o q
<1> HIDE DEF r, a, k, b
<1>4. ASSUME NEW i \in 1 .. a PROVE r[i] = p[i]
  <2>1. i \in 1 .. a + k + b /\ i <= a + k /\ i <= a /\ i \in 1 .. a + k
    BY <1>1
  <2> QED BY <1>2, <1>3, <2>1 DEF r
<1>5. ASSUME NEW i \in 1 .. k PROVE r[a + i] = m[i]
  <2> DEFINE x == a + i
  <2>1. x \in 1 .. a + k + b /\ x <= a + k /\ ~(x <= a) /\ x \in 1 .. a + k /\ x - a = i
    BY <1>1
  <2> HIDE DEF x
  <2>2. r[x] = m[i]
    BY <1>2, <1>3, <2>1 DEF r
  <2> QED BY <2>2 DEF x
<1>6. ASSUME NEW i \in 1 .. b PROVE r[a + k + i] = q[i]
  <2> DEFINE x == a + k + i
  <2>1. x \in 1 .. a + k + b /\ ~(x <= a + k) /\ x - (a + k) = i
    BY <1>1
  <2> HIDE DEF x
  <2>2. r[x] = q[i]
    BY <1>3, <2>1 DEF r
  <2> QED BY <2>2 DEF x
<1> QED BY <1>3, <1>4, <1>5, <1>6 DEF r, pm, a, k, b

\* A text with blanks around a part that neither begins nor ends with one is trimmed
\* to that part, and in one way only.
LEMMA TrimmedIs ==
  ASSUME NEW n \in Nat, NEW txt \in [1 .. n -> Chars], NEW first \in Nat, NEW len \in Nat,
         first + len <= n,
         \A i \in 1 .. first : txt[i] = Blank,
         \A i \in first + len + 1 .. n : txt[i] = Blank,
         len # 0 => txt[first + 1] # Blank /\ txt[first + len] # Blank
  PROVE  St!Trimmed(txt) = SubSeq(txt, first + 1, first + len)
<1> DEFINE D == {SubSeq(txt, i, j) : i \in 1 .. Len(txt) + 1, j \in 0 .. Len(txt)}
           Blanks == UNION {[1 .. k -> {Blank}] : k \in 0 .. Len(txt)}
           Ends(mid) == mid # <<>> => mid[1] # Blank /\ mid[Len(mid)] # Blank
           Good(mid) == (\E pre, post \in Blanks : txt = pre \o mid \o post) /\ Ends(mid)
           last == first + len
           w == SubSeq(txt, first + 1, last)
<1>1. txt \in Seq(Chars) /\ Len(txt) = n /\ Blank \in Chars
  BY FunctionOfSeq, StringConstantFacts
<1>2. \A i \in 1 .. n : txt[i] \in Chars
  OBVIOUS
<1>3. w \in Seq(Chars) /\ Len(w) = len /\ \A i \in 1 .. len : w[i] = txt[first + i]
  <2> HIDE DEF D, Blanks, Ends, Good
  <2>1. first + 1 \in Int /\ last \in Int /\ \A i \in first + 1 .. last : txt[i] \in Chars
    BY <1>2
  <2>2. /\ w \in Seq(Chars) /\ Len(w) = (IF first + 1 <= last THEN last - (first + 1) + 1 ELSE 0)
        /\ \A i \in 1 .. last - (first + 1) + 1 : w[i] = txt[first + 1 + i - 1]
    <3> HIDE DEF last
    <3> QED BY ONLY <2>1, SubSeqProperties DEF w
  <2> HIDE DEF w
  <2>3. last - (first + 1) + 1 = len /\ (first + 1 <= last \/ len = 0)
        /\ \A i \in 1 .. len : first + 1 + i - 1 = first + i
    OBVIOUS
  <2> HIDE DEF last
  <2> QED BY <2>2, <2>3
<1>4. w \in D
  <2>1. first + 1 \in 1 .. Len(txt) + 1 /\ last \in 0 .. Len(txt)
    BY <1>1
  <2> HIDE DEF last
  <2> QED BY <2>1
<1>5. \A k \in 0 .. n : [i \in 1 .. k |-> Blank] \in Blanks
  BY <1>1
<1>6. ASSUME NEW p \in Blanks
      PROVE  p \in Seq(Chars) /\ Len(p) \in Nat /\ \A i \in 1 .. Len(p) : p[i] = Blank
  <2>1. PICK k \in 0 .. n : p \in [1 .. k -> {Blank}]
    BY <1>1
  <2>2. k \in Nat /\ p \in [1 .. k -> Chars] /\ \A i \in 1 .. k : p[i] = Blank
    BY <1>1, <2>1
  <2> QED BY <2>2, FunctionOfSeq
<1>7. Good(w)
  <2> DEFINE k == n - last
             p == [i \in 1 .. first |-> Blank]
             q == [i \in 1 .. k |-> Blank]
  <2>1. first \in 0 .. n /\ k \in 0 .. n /\ k \in Nat /\ first + len + k = n
    OBVIOUS
  <2>2. /\ p \in Blanks /\ q \in Blanks /\ p \in Seq(Chars) /\ q \in Seq(Chars)
        /\ Len(p) = first /\ Len(q) = k
        /\ \A i \in 1 .. first : p[i] = Blank
        /\ \A i \in 1 .. k : q[i] = Blank
    <3>1. p \in Blanks /\ q \in Blanks
      BY <1>5, <2>1
    <3>2. p \in [1 .. first -> Chars] /\ q \in [1 .. k -> Chars]
      BY <1>1
    <3>3. (\A i \in 1 .. first : p[i] = Blank) /\ (\A i \in 1 .. k : q[i] = Blank)
      OBVIOUS
    <3> HIDE DEF p, q, Blanks, k
    <3> QED BY <2>1, <3>1, <3>2, <3>3, FunctionOfSeq
  <2> HIDE DEF p, q, w
  <2> DEFINE r == p \o w \o q
  <2>3. /\ r \in Seq(Chars) /\ Len(r) = first + len + k
        /\ \A i \in 1 .. first : r[i] = p[i]
        /\ \A i \in 1 .. len : r[first + i] = w[i]
        /\ \A i \in 1 .. k : r[first + len + i] = q[i]
    <3> HIDE DEF k
    <3>1. /\ r \in Seq(Chars) /\ Len(r) = Len(p) + Len(w) + Len(q)
          /\ \A i \in 1 .. Len(p) : r[i] = p[i]
          /\ \A i \in 1 .. Len(w) : r[Len(p) + i] = w[i]
          /\ \A i \in 1 .. Len(q) : r[Len(p) + Len(w) + i] = q[i]
      <4>1. p \in Seq(Chars) /\ w \in Seq(Chars) /\ q \in Seq(Chars)
        BY <1>3, <2>2
      <4> QED BY ONLY <4>1, ThreeParts
    <3> HIDE DEF r
    <3> QED BY <1>3, <2>2, <3>1
  <2> HIDE DEF r
  <2>4. ASSUME NEW i \in 1 .. n PROVE txt[i] = r[i]
    <3>1. CASE i <= first
      <4>1. i \in 1 .. first
        BY <3>1
      <4> QED BY <2>2, <2>3, <4>1
    <3>2. CASE i > first /\ i <= first + len
      <4> DEFINE x == i - first
      <4>1. x \in 1 .. len /\ first + x = i
        BY <3>2
      <4> HIDE DEF x
      <4>2. r[first + x] = txt[first + x]
        BY <1>3, <2>3, <4>1
      <4> QED BY <4>1, <4>2
    <3>3. CASE i > first + len
      <4> DEFINE x == i - (first + len)
      <4>1. x \in 1 .. k /\ first + len + x = i /\ i \in first + len + 1 .. n
        BY <3>3
      <4> HIDE DEF x, k
      <4>2. r[first + len + x] = Blank
        BY <2>2, <2>3, <4>1
      <4> QED BY <4>1, <4>2
    <3> QED BY <3>1, <3>2, <3>3
  <2>5. txt = r
    BY <1>1, <2>1, <2>3, <2>4, SeqEqual
  <2>6. Ends(w)
    <3>1. CASE len = 0
      <4>1. w = <<>>
        BY <1>3, <3>1, EmptySeq
      <4> QED BY <4>1
    <3>2. CASE len # 0
      <4>1. 1 \in 1 .. len /\ len \in 1 .. len
        BY <3>2
      <4> QED BY <1>3, <3>2, <4>1
    <3> QED BY <3>1, <3>2
  <2> HIDE DEF Blanks, Ends
  <2> QED BY <2>2, <2>5, <2>6 DEF r
<1>8. ASSUME NEW mid \in D, Good(mid) PROVE mid = w
  <2>1. PICK p \in Blanks, q \in Blanks : txt = p \o mid \o q
    <3> HIDE DEF Blanks, D, Ends, w
    <3> QED BY <1>8
  <2>2. mid \in Seq(Chars)
    <3>1. PICK i \in 1 .. Len(txt) + 1, j \in 0 .. Len(txt) : mid = SubSeq(txt, i, j)
      BY ONLY mid \in D
    <3>2. i \in Int /\ j \in Int /\ \A x \in i .. j : txt[x] \in Chars
      BY <1>1, <1>2
    <3> QED BY <3>1, <3>2, SubSeqProperties
  <2>3. Ends(mid)
    BY <1>8
  <2> HIDE DEF w, D, Blanks, Good
  <2> DEFINE a == Len(p)
             k == Len(mid)
             b == Len(q)
  <2>4. /\ p \in Seq(Chars) /\ q \in Seq(Chars) /\ a \in Nat /\ b \in Nat /\ k \in Nat
        /\ (\A i \in 1 .. a : p[i] = Blank) /\ (\A i \in 1 .. b : q[i] = Blank)
    BY <1>6, <2>2, LenProperties
  <2>5. /\ n = a + k + b
        /\ \A i \in 1 .. a : txt[i] = p[i]
        /\ \A i \in 1 .. k : txt[a + i] = mid[i]
        /\ \A i \in 1 .. b : txt[a + k + i] = q[i]
    BY <1>1, <2>1, <2>2, <2>4, ThreeParts
  <2>6. mid # <<>> <=> k # 0
    BY <2>2, EmptySeq
  <2>7. k # 0 => mid[1] # Blank /\ mid[k] # Blank
    BY <2>3, <2>6
  <2> HIDE DEF a, k, b, Ends
  <2>8. ASSUME NEW i \in 1 .. n, i <= a \/ i > a + k PROVE txt[i] = Blank
    <3>1. CASE i <= a
      <4>1. i \in 1 .. a
        BY <3>1
      <4> QED BY <2>4, <2>5, <4>1
    <3>2. CASE i > a + k
      <4> DEFINE x == i - (a + k)
      <4>1. x \in 1 .. b /\ a + k + x = i
        BY <2>4, <2>5, <3>2
      <4> HIDE DEF x
      <4>2. txt[a + k + x] = Blank
        BY <2>4, <2>5, <4>1
      <4> QED BY <4>1, <4>2
    <3> QED BY <2>8, <3>1, <3>2
  <2>9. ASSUME NEW i \in 1 .. n, i <= first \/ i > first + len PROVE txt[i] = Blank
    <3>1. i \in 1 .. first \/ i \in first + len + 1 .. n
      BY <2>9
    <3> QED BY <3>1
  <2>10. k # 0 => txt[a + 1] # Blank /\ txt[a + k] # Blank
    <3>1. k # 0 => 1 \in 1 .. k /\ k \in 1 .. k
      BY <2>4
    <3> QED BY <2>5, <2>7, <3>1
  <2>11. len = k /\ (k # 0 => first = a)
    <3>1. CASE k = 0
      <4>1. ASSUME len # 0 PROVE FALSE
        <5>1. first + 1 \in 1 .. n /\ (first + 1 <= a \/ first + 1 > a + k)
          BY <2>4, <3>1, <4>1
        <5> QED BY <2>8, <4>1, <5>1
      <4> QED BY <3>1, <4>1
    <3>2. CASE k # 0
      <4>1. a + 1 \in 1 .. n /\ a + k \in 1 .. n
        BY <2>4, <2>5, <3>2
      <4>2. ~(a + 1 <= first) /\ ~(a + 1 > first + len) /\ ~(a + k > first + len)
        BY <2>9, <2>10, <3>2, <4>1
      <4>3. len # 0
        BY <2>4, <4>2
      <4>4. first + 1 \in 1 .. n /\ first + len \in 1 .. n
        BY <4>3
      <4>5. ~(first + 1 <= a) /\ ~(first + len > a + k)
        BY <2>8, <4>3, <4>4
      <4> QED BY <2>4, <4>2, <4>5
    <3> QED BY <3>1, <3>2
  <2>12. Len(mid) = Len(w) /\ \A i \in 1 .. Len(mid) : mid[i] = w[i]
    <3>1. \A i \in 1 .. k : k # 0
      BY <2>4
    <3>2. Len(mid) = k
      BY DEF k
    <3> QED BY <1>3, <2>5, <2>11, <3>1, <3>2
  <2> QED BY <1>3, <2>2, <2>12, SeqEqual
<1>9. St!Trimmed(txt) = CHOOSE mid \in D : Good(mid)
  BY DEF St!Trimmed
<1> HIDE DEF D, Good, w
<1>10. St!Trimmed(txt) = w
  BY <1>4, <1>7, <1>8, <1>9
<1> QED BY <1>10 DEF w

\* Where the first loop of StringTrim stops.
LEMMA StartPosFacts ==
  ASSUME StringInv, St!Intact
  PROVE  /\ St!StartPos \in 0 .. Length
         /\ \A j \in 0 .. St!StartPos - 1 : bytes[j + 1] \in St!Cut
         /\ St!StartPos = Length \/ bytes[St!StartPos + 1] \notin St!Cut
<1> DEFINE Stops(i) == /\ \A j \in 0 .. i - 1 : bytes[j + 1] \in St!Cut
                       /\ i = Length \/ bytes[i + 1] \notin St!Cut
           T == {i \in 0 .. Length : i = Length \/ bytes[i + 1] \notin St!Cut}
<1>1. Length \in Nat
  BY IntactFacts
<1>2. PICK x \in T : \A y \in T : ~ y < x
  <2>1. T \subseteq Nat /\ Length \in T
    BY <1>1
  <2> HIDE DEF T
  <2> QED BY <2>1, LeastNat
<1>3. x \in 0 .. Length /\ Stops(x)
  <2>1. ASSUME NEW j \in 0 .. x - 1 PROVE bytes[j + 1] \in St!Cut
    <3>1. j \in 0 .. Length /\ j # Length /\ j < x
      BY <1>1, <1>2
    <3> QED BY <1>2, <3>1
  <2> QED BY <1>2, <2>1
<1>4. St!StartPos = CHOOSE i \in 0 .. Length : Stops(i)
  BY DEF St!StartPos
<1> DEFINE start == St!StartPos
<1>5. start \in 0 .. Length /\ Stops(start)
  <2> HIDE DEF Stops
  <2> QED BY <1>3, <1>4
<1> HIDE DEF start
<1>6. (\A j \in 0 .. start - 1 : bytes[j + 1] \in St!Cut)
      /\ (start = Length \/ bytes[start + 1] \notin St!Cut)
  BY <1>5
<1> QED BY <1>5, <1>6 DEF start

\* Where the second one stops.
LEMMA EndPosFacts ==
  ASSUME StringInv, St!Intact
  PROVE  /\ St!EndPos \in -1 .. Length - 1
         /\ \A j \in St!EndPos + 1 .. Length - 1 : j > St!StartPos /\ bytes[j + 1] \in St!Cut
         /\ St!EndPos <= St!StartPos \/ bytes[St!EndPos + 1] \notin St!Cut
<1> DEFINE start == St!StartPos
           Back(x) == \A j \in x .. Length - 1 : j > start /\ bytes[j + 1] \in St!Cut
           Stops(i) == /\ \A j \in i + 1 .. Length - 1 : j > start /\ bytes[j + 1] \in St!Cut
                       /\ i <= start \/ bytes[i + 1] \notin St!Cut
           T == {x \in 0 .. Length : Back(x)}
<1>1. Length \in Nat /\ start \in 0 .. Length
  BY StartPosFacts, IntactFacts
<1>2. St!EndPos = CHOOSE i \in -1 .. Length - 1 : Stops(i)
  BY DEF St!EndPos
<1> HIDE DEF start
<1>3. PICK x \in T : \A y \in T : ~ y < x
  <2>1. Length .. Length - 1 = {} /\ Length \in 0 .. Length
    BY <1>1
  <2>2. T \subseteq Nat /\ Length \in T
    BY <1>1, <2>1
  <2> HIDE DEF T
  <2> QED BY <2>2, LeastNat
<1>4. x \in 0 .. Length /\ Back(x)
  OBVIOUS
<1>5. ASSUME ~(x - 1 <= start), bytes[x] \in St!Cut PROVE FALSE
  <2>1. x - 1 \in 0 .. Length /\ x - 1 < x /\ x - 1 > start /\ (x - 1) + 1 = x
    BY <1>1, <1>4, <1>5
  <2>2. ASSUME NEW j \in x - 1 .. Length - 1 PROVE j > start /\ bytes[j + 1] \in St!Cut
    <3>1. j = x - 1 \/ j \in x .. Length - 1
      BY <1>1, <1>4
    <3>2. CASE j = x - 1
      BY <1>5, <2>1, <3>2
    <3>3. CASE j \in x .. Length - 1
      BY <1>4, <3>3
    <3> QED BY <3>1, <3>2, <3>3
  <2>3. x - 1 \in T
    BY <2>1, <2>2
  <2> HIDE DEF T
  <2> QED BY <1>3, <2>1, <2>3
<1> DEFINE e == x - 1
<1>6. e \in -1 .. Length - 1 /\ e + 1 = x
  BY <1>1, <1>4
<1> HIDE DEF e
<1>7. Stops(e)
  <2>1. e <= start \/ bytes[e + 1] \notin St!Cut
    BY <1>5, <1>6 DEF e
  <2>2. \A j \in e + 1 .. Length - 1 : j > start /\ bytes[j + 1] \in St!Cut
    BY <1>4, <1>6
  <2> QED BY <2>1, <2>2
<1> DEFINE end == St!EndPos
<1>8. end \in -1 .. Length - 1 /\ Stops(end)
  <2> HIDE DEF Stops
  <2> QED BY <1>2, <1>6, <1>7
<1> HIDE DEF end
<1>9. (\A j \in end + 1 .. Length - 1 : j > start /\ bytes[j + 1] \in St!Cut)
      /\ (end <= start \/ bytes[end + 1] \notin St!Cut)
  BY <1>8
<1> QED BY <1>8, <1>9 DEF end, start

\* What StringTrim keeps of a text: all but the blanks at its ends.
LEMMA TrimKeeps ==
  ASSUME StringInv, St!StringTrim
  PROVE  StringInv'
<1> DEFINE start == St!StartPos
           end == St!EndPos
           len == IF start > end THEN 0 ELSE end - start + 1
           last == start + len
           some == SubSeq(bytes, start + 1, last)
           txt == IF text # St!NoText THEN St!Trimmed(text)
                  ELSE IF len = 0 THEN <<>> ELSE St!NoText
           s == [len |-> len, bytes |-> St!Spelled(bytes, 0, some), text |-> txt]
           m == Len(bytes)
<1>1. St!Intact /\ St!Become(s)
  BY DEF St!StringTrim
<1>2. /\ Capacity \in 0 .. MaxLength /\ Capacity \in Nat /\ m \in Nat /\ room \in Nat
      /\ Capacity <= room /\ room <= m /\ m <= room + 1
      /\ bytes \in [1 .. m -> Bytes] /\ Length \in 0 .. Capacity /\ fault \in {"none", "full"}
      /\ fault = "none" => Capacity < room /\ m = room
      /\ text # St!NoText =>
           text \in [1 .. Length -> Chars] /\ \A i \in 1 .. Length : bytes[i] = text[i]
  BY <1>1, IntactFacts
<1>3. /\ start \in 0 .. Length
      /\ \A j \in 0 .. start - 1 : bytes[j + 1] \in St!Cut
      /\ start = Length \/ bytes[start + 1] \notin St!Cut
  BY <1>1, StartPosFacts
<1>4. /\ end \in -1 .. Length - 1
      /\ \A j \in end + 1 .. Length - 1 : j > start /\ bytes[j + 1] \in St!Cut
      /\ end <= start \/ bytes[end + 1] \notin St!Cut
  BY <1>1, EndPosFacts
<1> HIDE DEF m, start, end
<1>5. len \in 0 .. Capacity /\ len \in Nat /\ start \in Nat /\ last <= Length /\ Length \in Nat
  BY <1>2, <1>3, <1>4
<1>6. len # 0 => last = end + 1 /\ start <= end
  BY <1>3, <1>4
<1>7. len = 0 => start = Length
  <2>1. ASSUME len = 0, start # Length PROVE FALSE
    <3>1. start > end
      BY <1>3, <1>4, <2>1
    <3>2. start \in end + 1 .. Length - 1
      BY <1>2, <1>3, <1>4, <2>1, <3>1
    <3>3. start > start
      BY <1>4, <3>2
    <3> QED BY <1>5, <3>3
  <2> QED BY <2>1
<1> DEFINE k == len
<1>8. k = len
  OBVIOUS
<1> HIDE DEF len, k
<1>9. /\ some \in [1 .. len -> Bytes]
      /\ \A i \in 1 .. len : some[i] = bytes[start + i] /\ start + i \in 1 .. Length
  <2>1. start + 1 \in Int /\ last \in Int /\ \A i \in start + 1 .. last : bytes[i] \in Bytes
    <3>1. \A i \in start + 1 .. last : i \in 1 .. m
      BY <1>2, <1>5
    <3> QED BY <1>2, <1>5, <3>1
  <2>2. last - (start + 1) + 1 = len /\ (start + 1 <= last \/ len = 0)
        /\ \A i \in 1 .. len : start + 1 + i - 1 = start + i /\ start + i \in 1 .. Length
    BY <1>5
  <2> HIDE DEF last
  <2>3. /\ some \in Seq(Bytes)
        /\ Len(some) = (IF start + 1 <= last THEN last - (start + 1) + 1 ELSE 0)
        /\ \A i \in 1 .. last - (start + 1) + 1 : some[i] = bytes[start + 1 + i - 1]
    BY <2>1, SubSeqProperties
  <2> HIDE DEF some
  <2>4. Len(some) = len
    BY <1>5, <2>2, <2>3
  <2>5. some \in [1 .. len -> Bytes]
    BY <2>3, <2>4, LenProperties
  <2> QED BY <2>2, <2>3, <2>5
<1>10. ASSUME text # St!NoText
       PROVE  some \in [1 .. len -> Chars] /\ St!Trimmed(text) = some
  <2>1. text \in [1 .. Length -> Chars] /\ \A i \in 1 .. Length : bytes[i] = text[i]
    BY <1>2, <1>10
  <2>2. \A c \in Chars : c \in St!Cut <=> c = Blank
    BY StringConstantFacts DEF St!Cut
  <2>3. \A i \in 1 .. Length : bytes[i] \in St!Cut <=> text[i] = Blank
    BY <2>1, <2>2
  <2>4. ASSUME NEW i \in 1 .. start PROVE text[i] = Blank
    <3> DEFINE j == i - 1
    <3>1. j \in 0 .. start - 1 /\ j + 1 = i /\ i \in 1 .. Length
      BY <1>3, <1>5
    <3> HIDE DEF j
    <3> QED BY <1>3, <2>3, <3>1
  <2>5. ASSUME NEW i \in start + len + 1 .. Length PROVE text[i] = Blank
    <3> DEFINE j == i - 1
    <3>1. j \in end + 1 .. Length - 1 /\ j + 1 = i /\ i \in 1 .. Length
      BY <1>3, <1>4, <1>5, <1>6, <1>7
    <3> HIDE DEF j
    <3> QED BY <1>4, <2>3, <3>1
  <2>6. ASSUME len # 0 PROVE text[start + 1] # Blank /\ text[last] # Blank
    <3>1. start + 1 \in 1 .. Length /\ last \in 1 .. Length /\ start # Length
      BY <1>5, <2>6
    <3>2. text[start + 1] # Blank
      BY <1>3, <2>3, <3>1
    <3>3. CASE end <= start
      <4>1. last = start + 1
        BY <1>3, <1>4, <1>6, <2>6, <3>3
      <4> QED BY <3>2, <4>1
    <3>4. CASE bytes[end + 1] \notin St!Cut
      <4>1. text[last] # Blank
        BY <1>6, <2>3, <2>6, <3>1, <3>4
      <4> QED BY <3>2, <4>1
    <3> QED BY <1>4, <3>3, <3>4
  <2>7. St!Trimmed(text) = SubSeq(text, start + 1, last)
    BY <1>5, <2>1, <2>4, <2>5, <2>6, TrimmedIs
  <2> DEFINE mid == SubSeq(text, start + 1, last)
  <2>8. mid \in Seq(Chars) /\ Len(mid) = len /\ \A i \in 1 .. len : mid[i] = text[start + i]
    <3>1. start + 1 \in Int /\ last \in Int /\ \A i \in start + 1 .. last : text[i] \in Chars
      <4>1. \A i \in start + 1 .. last : i \in 1 .. Length
        BY <1>5
      <4> QED BY <1>5, <2>1, <4>1
    <3>2. last - (start + 1) + 1 = len /\ (start + 1 <= last \/ len = 0)
          /\ \A i \in 1 .. len : start + 1 + i - 1 = start + i
      BY <1>5
    <3> HIDE DEF last
    <3>3. /\ mid \in Seq(Chars)
          /\ Len(mid) = (IF start + 1 <= last THEN last - (start + 1) + 1 ELSE 0)
          /\ \A i \in 1 .. last - (start + 1) + 1 : mid[i] = text[start + 1 + i - 1]
      BY <3>1, SubSeqProperties
    <3> HIDE DEF mid
    <3> QED BY <1>5, <3>2, <3>3
  <2> HIDE DEF mid, some
  <2>9. mid \in [1 .. len -> Chars]
    BY <2>8, LenProperties
  <2>10. \A i \in 1 .. len : mid[i] = some[i]
    BY <1>9, <2>1, <2>8
  <2>11. mid = some
    BY <1>5, <1>9, <2>9, <2>10, SameFunction
  <2> QED BY <2>7, <2>9, <2>11 DEF mid
<1> HIDE DEF some
<1>11. txt # St!NoText => txt = some /\ some \in [1 .. len -> Chars]
  <2>1. CASE text # St!NoText
    BY <1>10, <2>1
  <2>2. CASE text = St!NoText /\ len = 0
    <3>1. txt = <<>> /\ 1 .. len = {}
      BY <2>2
    <3>2. <<>> \in [1 .. len -> Chars] /\ \A i \in 1 .. len : <<>>[i] = some[i]
      BY <3>1
    <3>3. <<>> = some
      BY <1>5, <1>9, <3>2, SameFunction
    <3> QED BY <3>1, <3>2, <3>3
  <2>3. CASE text = St!NoText /\ len # 0
    BY <2>3
  <2> QED BY <2>1, <2>2, <2>3
<1> HIDE DEF txt
<1>12. \E n \in Nat : Fine(len, St!Spelled(bytes, 0, some), txt, Capacity, n, room, fault)
  BY <1>2, <1>5, <1>9, <1>11, SetFine
<1>13. FineHere(s)
  BY <1>12 DEF FineHere
<1> HIDE DEF s
<1> QED BY <1>1, <1>13, StringBecomes

\* Every step keeps the invariant.
LEMMA StringStep == ASSUME StringInv, [St!Next]_stringVars PROVE StringInv'
<1>1. ASSUME NEW some \in St!Texts,
             \/ \E where \in {"arena", "heap"} : St!StringMake(where, some)
             \/ St!StringAppendLength(some)
             \/ St!StringAppendAllocator(some)
             \/ St!StringSet(some)
      PROVE  StringInv'
  BY <1>1, MakeKeeps, AppendKeeps, AppendAllocatorKeeps, SetKeeps
<1>2. ASSUME NEW n \in 0 .. MaxLength,
             St!StringMakeZero(0, n) \/ St!StringMakeZero(n, n) \/ St!StringMakeSpaceFor(n)
      PROVE  StringInv'
  <2>1. n \in Nat /\ 0 \in {0, n} /\ n \in {0, n}
    BY StringConstantFacts
  <2> QED BY <1>2, <2>1, MakeZeroKeeps, MakeSpaceKeeps
<1>3. ASSUME NEW n \in 0 .. MaxLength, NEW some \in St!Texts, St!StringSprintf(n, some)
      PROVE  StringInv'
  BY <1>3, SprintfKeeps
<1>4. ASSUME NEW part1 \in St!Texts, NEW glue \in St!Texts, NEW part2 \in St!Texts,
             St!StringJoin(part1, glue, part2)
      PROVE  StringInv'
  BY <1>4, JoinKeeps
<1>5. CASE St!StringFreeAllocator \/ St!ForgetArena \/ St!StringClear \/ St!StringTrim
  BY <1>5, FreeKeeps, ClearKeeps, TrimKeeps
<1>6. CASE UNCHANGED stringVars
  <2>1. UNCHANGED <<memory, Length, Capacity, bytes, room, text, fault>>
    BY <1>6 DEF stringVars
  <2> QED BY <2>1 DEF StringInv, Fine, St!NoText, St!Init, St!TypeOK
<1> QED BY <1>1, <1>2, <1>3, <1>4, <1>5, <1>6 DEF St!Next

LEMMA StringInit == ASSUME St!Init PROVE StringInv
  BY DEF StringInv

\* The header, the memory and the text of a string agree.
LEMMA StringInvariant == Spec => []StringInv
<1>1. Init => StringInv
  BY PartsStart, StringInit
<1>2. StringInv /\ [Next]_vars => StringInv'
  BY OnePartSteps, StringStep
<1> QED BY <1>1, <1>2, PTL DEF Spec

\* What the invariant says of a string that is fine, and of none.
LEMMA FollowedFacts ==
  ASSUME StringInv, fault # "unbacked"
  PROVE  /\ memory \in {"none", "arena", "heap"} /\ Capacity \in 0 .. MaxLength
         /\ Length \in 0 .. Capacity /\ Len(bytes) \in Nat /\ room \in Nat
         /\ Capacity <= room /\ room <= Len(bytes) /\ Len(bytes) <= room + 1
         /\ bytes \in [1 .. Len(bytes) -> Bytes] /\ fault \in {"none", "full"}
         /\ fault = "none" /\ memory # "none" =>
              Capacity < room /\ Len(bytes) = room /\ bytes[Length + 1] = NUL
         /\ text # St!NoText =>
              text \in [1 .. Length -> Chars] /\ \A i \in 1 .. Length : bytes[i] = text[i]
<1>1. CASE St!Intact
  BY <1>1, IntactFacts
<1>2. CASE St!Init
  <2>1. Len(<<>>) = 0 /\ 1 .. 0 = {} /\ <<>> \in [1 .. 0 -> Bytes] /\ <<>> \in [1 .. 0 -> Chars]
    BY EmptySeq
  <2> QED BY <1>2, <2>1, StringConstantFacts DEF St!Init
<1> QED BY <1>1, <1>2 DEF StringInv, St!Intact

\* What it says of the types.
LEMMA StringTypes == ASSUME StringInv PROVE St!TypeOK
<1>1. CASE fault = "unbacked"
  BY <1>1 DEF StringInv, St!Init, Fine
<1>2. CASE fault # "unbacked"
  <2>1. /\ memory \in {"none", "arena", "heap"} /\ Capacity \in 0 .. MaxLength
        /\ Length \in 0 .. Capacity /\ Len(bytes) \in Nat /\ room \in Nat
        /\ bytes \in [1 .. Len(bytes) -> Bytes] /\ fault \in {"none", "full"}
        /\ text # St!NoText => text \in [1 .. Length -> Chars]
    BY <1>2, FollowedFacts
  <2>2. Length \in 0 .. MaxLength
    BY <2>1, StringConstantFacts
  <2>3. bytes \in Seq(Bytes)
    BY <2>1, FunctionOfSeq
  <2>4. text # St!NoText => text \in St!Texts
    BY <2>1, <2>2, CharsAreText
  <2> QED BY <2>1, <2>2, <2>3, <2>4 DEF St!TypeOK, Bytes, St!Faults
<1> QED BY <1>1, <1>2

\* No sequence of calls writes past an allocation or makes a header promise more than
\* it holds, through both ways to grow, which count differently (String.h:108 and
\* 325), until one of the calls that StringSprintf's inverted test (226), an arena's
\* realloc (Arena.h:306) or a full string (String.h:108) turns into a fault.
THEOREM StringsStayInside == Spec => []TextInside
<1>1. StringInv => TextInside
  <2> SUFFICES ASSUME StringInv PROVE TextInside
    OBVIOUS
  <2>1. CASE fault # "unbacked"
    <3>1. /\ Capacity \in 0 .. MaxLength /\ Length \in 0 .. Capacity
          /\ Capacity <= room /\ Len(bytes) <= room + 1
          /\ (fault = "none" /\ memory # "none" => Capacity < room /\ Len(bytes) = room)
      BY <2>1, FollowedFacts
    <3>2. Length <= Capacity
      BY <3>1, StringConstantFacts
    <3> QED BY <3>1, <3>2 DEF TextInside, St!TextInside
  <2>2. CASE fault = "unbacked"
    BY <2>2 DEF TextInside, St!TextInside
  <2> QED BY <2>1, <2>2
<1> QED BY <1>1, StringInvariant, PTL

\* The bytes spell what the calls describe, which for StringTrim (String.h:359) is the
\* text without the blanks at its ends.
THEOREM StringsSpellTheirText == Spec => []Spells
<1>1. StringInv => Spells
  <2> SUFFICES ASSUME StringInv, fault # "unbacked" PROVE Spells
    BY DEF Spells, St!Spells
  <2>1. /\ Capacity \in 0 .. MaxLength /\ Length \in 0 .. Capacity /\ room \in Nat
        /\ Len(bytes) \in Nat /\ Capacity <= room /\ room <= Len(bytes)
        /\ bytes \in [1 .. Len(bytes) -> Bytes]
        /\ (fault = "none" /\ memory # "none" => bytes[Length + 1] = NUL)
        /\ text # St!NoText =>
             text \in [1 .. Length -> Chars] /\ \A i \in 1 .. Length : bytes[i] = text[i]
    BY FollowedFacts
  <2>2. Length \in 0 .. Len(bytes) /\ Length \in Nat
    BY <2>1, StringConstantFacts
  <2>3. ASSUME text # St!NoText PROVE SubSeq(bytes, 1, Length) = text
    <3> DEFINE front == SubSeq(bytes, 1, Length)
    <3>1. bytes \in Seq(Bytes)
      BY <2>1, FunctionOfSeq
    <3>2. /\ front \in Seq(Bytes) /\ Len(front) = Length
          /\ \A i \in 1 .. Length : front[i] = bytes[i]
      BY <2>2, <3>1, Front
    <3> HIDE DEF front
    <3>3. text \in Seq(Chars) /\ Len(text) = Length
      BY <2>1, <2>2, <2>3, FunctionOfSeq
    <3>4. text \in Seq(Bytes)
      BY <3>3, SeqMonotonic, StringConstantFacts
    <3>5. front = text
      BY <2>1, <2>3, <3>2, <3>3, <3>4, SeqEqual
    <3> QED BY <3>5 DEF front
  <2> QED BY <2>1, <2>3 DEF Spells, St!Spells
<1> QED BY <1>1, StringInvariant, PTL

-----------------------------------------------------------------------------
(* All parts. *)

\* Every part keeps its types: the ranges of marks and sizes, of links, of table
\* entries, of lengths and of the profiler's counters.
THEOREM PartsKeepTheirTypes == Spec => []TypeOK
<1>1. ArenaInv /\ PoolInv /\ SetInv /\ StringInv /\ ListInv /\ ProfilerInv => TypeOK
  BY StringTypes DEF TypeOK, ArenaInv, PoolInv, SetInv, ListInv, ProfilerInv
<1> QED BY <1>1, ArenaInvariant, PoolInvariant, SetInvariant, StringInvariant,
           ListInvariant, ProfilerInvariant, PTL

=============================================================================

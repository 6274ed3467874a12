------------------------- MODULE HeapAllocatorProofs -------------------------
(***************************************************************************)
(* The general purpose allocator, for buffers and requests of all sizes    *)
(* whose blocks go to buckets: memory is never handed out twice and never  *)
(* lost, and the lists stay linked both ways.                              *)
(*                                                                         *)
(* Tiles(h, D, H) says that the free blocks D and the held blocks H tile   *)
(* the part of the buffer above Offset, and that each list links the       *)
(* blocks of D that belong to it in the order of their addresses.  A call  *)
(* moves one block from D to H or back, adds one to H below Offset, or     *)
(* merges one of them into the buffer.                                     *)
(***************************************************************************)
EXTENDS HeapAllocator, RingArithmetic, FiniteSetTheorems, TLAPS

\* No request goes to Large: its list loses blocks (see OwnedOnce).
BucketsOnly == \A r \in Requests : ListOf(AllocSize(r)) # Large

-----------------------------------------------------------------------------
(* Links. *)

HeapType ==
  [Offset : 0 .. MemSize, Head : [Lists -> Units \union {Null}], node : [Units -> MemNode]]

\* g is h with another head, next or previous node.
HeadSet(h, g, list, x) ==
  /\ g \in HeapType /\ g.Offset = h.Offset /\ g.node = h.node
  /\ \A l \in Lists : g.Head[l] = IF l = list THEN x ELSE h.Head[l]

NextSet(h, g, n, x) ==
  /\ g \in HeapType /\ g.Offset = h.Offset /\ g.Head = h.Head
  /\ \A u \in Units : /\ g.node[u].Size = h.node[u].Size /\ g.node[u].Prev = h.node[u].Prev
                      /\ g.node[u].Next = IF u = n THEN x ELSE h.node[u].Next

PrevSet(h, g, n, x) ==
  /\ g \in HeapType /\ g.Offset = h.Offset /\ g.Head = h.Head
  /\ \A u \in Units : /\ g.node[u].Size = h.node[u].Size /\ g.node[u].Next = h.node[u].Next
                      /\ g.node[u].Prev = IF u = n THEN x ELSE h.node[u].Prev

LEMMA SetHeadIs ==
  ASSUME NEW h \in HeapType, NEW list \in Lists, NEW x \in Units \union {Null}
  PROVE  HeadSet(h, SetHead(h, list, x), list, x)
  BY DEF SetHead, HeadSet, HeapType

LEMMA SetNextIs ==
  ASSUME NEW h \in HeapType, NEW n \in Units, NEW x \in Units \union {Null}
  PROVE  NextSet(h, SetNext(h, n, x), n, x)
<1> DEFINE node == [h.node EXCEPT ![n].Next = x]
           g == SetNext(h, n, x)
<1>1. h.node \in [Units -> MemNode]
  BY DEF HeapType
<1>2. /\ node \in [Units -> MemNode]
      /\ \A u \in Units : /\ node[u].Size = h.node[u].Size /\ node[u].Prev = h.node[u].Prev
                          /\ node[u].Next = IF u = n THEN x ELSE h.node[u].Next
  BY <1>1 DEF MemNode
<1>3. g = [h EXCEPT !.node = node]
  BY DEF SetNext
<1> HIDE DEF node
<1>4. g \in HeapType /\ g.Offset = h.Offset /\ g.Head = h.Head /\ g.node = node
  BY <1>2, <1>3 DEF HeapType
<1> HIDE DEF g
<1>5. NextSet(h, g, n, x)
  BY <1>2, <1>4 DEF NextSet
<1> QED BY <1>5 DEF g

LEMMA SetPrevIs ==
  ASSUME NEW h \in HeapType, NEW n \in Units, NEW x \in Units \union {Null}
  PROVE  PrevSet(h, SetPrev(h, n, x), n, x)
<1> DEFINE node == [h.node EXCEPT ![n].Prev = x]
           g == SetPrev(h, n, x)
<1>1. h.node \in [Units -> MemNode]
  BY DEF HeapType
<1>2. /\ node \in [Units -> MemNode]
      /\ \A u \in Units : /\ node[u].Size = h.node[u].Size /\ node[u].Next = h.node[u].Next
                          /\ node[u].Prev = IF u = n THEN x ELSE h.node[u].Prev
  BY <1>1 DEF MemNode
<1>3. g = [h EXCEPT !.node = node]
  BY DEF SetPrev
<1> HIDE DEF node
<1>4. g \in HeapType /\ g.Offset = h.Offset /\ g.Head = h.Head /\ g.node = node
  BY <1>2, <1>3 DEF HeapType
<1> HIDE DEF g
<1>5. PrevSet(h, g, n, x)
  BY <1>2, <1>4 DEF PrevSet
<1> QED BY <1>5 DEF g

LEMMA SizeFacts ==
  /\ MemSize \in Nat \ {0} /\ Units \subseteq Nat /\ Null \notin Units
  /\ \A u \in Units : u < MemSize
  /\ Large \in Lists
  BY SizeAssumption, NullAssumption DEF Units, Lists

LEMMA NodeTypes ==
  ASSUME NEW h \in HeapType
  PROVE  /\ h.Offset \in Nat /\ h.Offset <= MemSize
         /\ \A l \in Lists : h.Head[l] \in Units \union {Null}
         /\ \A u \in Units : /\ h.node[u].Size \in Nat
                             /\ h.node[u].Next \in Units \union {Null}
                             /\ h.node[u].Prev \in Units \union {Null}
  BY SizeFacts DEF HeapType, MemNode

\* x is first, y follows x, and y precedes x, among the blocks of F.
IsHead(F, x) == IF x = Null THEN F = {} ELSE x \in F /\ \A z \in F : x <= z

IsNext(F, x, y) ==
  IF y = Null THEN \A z \in F : z <= x
  ELSE y \in F /\ x < y /\ \A z \in F : z <= x \/ y <= z

IsPrev(F, x, y) ==
  IF y = Null THEN \A z \in F : x <= z
  ELSE y \in F /\ y < x /\ \A z \in F : z <= y \/ x <= z

\* The list links the blocks of F, in ascending order.
ListIs(h, list, F) ==
  /\ IsHead(F, h.Head[list])
  /\ \A x \in F : IsNext(F, x, h.node[x].Next) /\ IsPrev(F, x, h.node[x].Prev)

\* g is h with other links in a list.
Relinked(h, g, list) ==
  /\ g \in HeapType /\ g.Offset = h.Offset
  /\ \A l \in Lists : l # list => g.Head[l] = h.Head[l]
  /\ \A u \in Units : g.node[u].Size = h.node[u].Size

\* Removing n links its neighbours to each other.
Unlinks(h, g, list, n) ==
  LET prev == h.node[n].Prev
      next == h.node[n].Next
  IN  /\ Relinked(h, g, list)
      /\ g.Head[list] = IF prev = Null THEN next ELSE h.Head[list]
      /\ \A u \in Units : /\ g.node[u].Next = IF u = prev THEN next ELSE h.node[u].Next
                          /\ g.node[u].Prev = IF u = next THEN prev ELSE h.node[u].Prev

LEMMA RemoveIs ==
  ASSUME NEW h \in HeapType, NEW list \in Lists, NEW n \in Units,
         h.node[n].Next # n, h.node[n].Prev # n
  PROVE  Unlinks(h, RemoveMemNode(h, list, n), list, n)
<1> DEFINE r == RemoveMemNode(h, list, n)
           prev == h.node[n].Prev
           next == h.node[n].Next
           g == IF prev # Null THEN SetNext(h, prev, next)
                ELSE IF next # Null THEN SetPrev(SetHead(h, list, next), next, Null)
                ELSE SetHead(h, list, Null)
           Half == /\ Relinked(h, g, list)
                   /\ g.Head[list] = IF prev = Null THEN next ELSE h.Head[list]
                   /\ \A u \in Units : /\ g.node[u].Next = IF u = prev THEN next ELSE h.node[u].Next
                                       /\ g.node[u].Prev = IF prev = Null /\ u = next THEN prev
                                                           ELSE h.node[u].Prev
<1>1. /\ prev \in Units \union {Null} /\ next \in Units \union {Null} /\ Null \notin Units
      /\ Null \in Units \union {Null} /\ list \in DOMAIN h.Head /\ DOMAIN h.Head = Lists
  BY NodeTypes, SizeFacts DEF HeapType
<1>2. r = IF next # Null THEN SetPrev(g, next, g.node[n].Prev)
          ELSE IF prev # Null THEN SetNext(g, prev, Null)
          ELSE SetHead(g, list, Null)
  BY DEF RemoveMemNode
<1>3. next # n /\ prev # n
  OBVIOUS
<1> HIDE DEF r, prev, next
<1>4. Half
  <2>1. CASE prev # Null
    <3>1. g = SetNext(h, prev, next) /\ prev \in Units
      BY <1>1, <2>1
    <3> HIDE DEF g
    <3>2. NextSet(h, g, prev, next)
      BY <1>1, <3>1, SetNextIs
    <3> QED BY <1>1, <2>1, <3>2 DEF Relinked, NextSet
  <2>2. CASE prev = Null /\ next # Null
    <3> DEFINE f == SetHead(h, list, next)
    <3>1. g = SetPrev(f, next, Null) /\ next \in Units
      BY <1>1, <2>2
    <3>2. HeadSet(h, f, list, next)
      BY <1>1, SetHeadIs
    <3> HIDE DEF f, g
    <3>3. f \in HeapType
      BY <3>2 DEF HeadSet
    <3>4. PrevSet(f, g, next, Null)
      BY <1>1, <3>1, <3>3, SetPrevIs
    <3> QED BY <1>1, <2>2, <3>2, <3>4 DEF Relinked, HeadSet, PrevSet
  <2>3. CASE prev = Null /\ next = Null
    <3>1. g = SetHead(h, list, Null)
      BY <2>3
    <3> HIDE DEF g
    <3>2. HeadSet(h, g, list, Null)
      BY <1>1, <3>1, SetHeadIs
    <3> QED BY <1>1, <2>3, <3>2 DEF Relinked, HeadSet
  <2> QED BY <2>1, <2>2, <2>3
<1> HIDE DEF g
<1>5. g \in HeapType /\ g.node[n].Prev = prev
  BY <1>3, <1>4 DEF Relinked, prev
<1>6. CASE next # Null
  <2>1. r = SetPrev(g, next, prev) /\ next \in Units
    BY <1>1, <1>2, <1>5, <1>6
  <2>2. PrevSet(g, r, next, prev)
    BY <1>1, <1>5, <2>1, SetPrevIs
  <2>3. Relinked(h, r, list)
    BY <1>4, <2>2 DEF Relinked, PrevSet
  <2> QED BY <1>4, <2>2, <2>3 DEF PrevSet, Unlinks, r, prev, next
<1>7. CASE next = Null /\ prev # Null
  <2>1. r = SetNext(g, prev, Null) /\ prev \in Units
    BY <1>1, <1>2, <1>5, <1>7
  <2>2. NextSet(g, r, prev, Null)
    BY <1>1, <1>5, <2>1, SetNextIs
  <2>3. Relinked(h, r, list)
    BY <1>4, <2>2 DEF Relinked, NextSet
  <2>4. /\ r.Head[list] = h.Head[list]
        /\ \A u \in Units : /\ r.node[u].Next = IF u = prev THEN next ELSE h.node[u].Next
                            /\ r.node[u].Prev = IF u = next THEN prev ELSE h.node[u].Prev
    BY <1>1, <1>4, <1>7, <2>2 DEF NextSet
  <2> QED BY <1>7, <2>3, <2>4 DEF Unlinks, r, prev, next
<1>8. CASE next = Null /\ prev = Null
  <2>1. r = SetHead(g, list, Null)
    BY <1>2, <1>8
  <2>2. HeadSet(g, r, list, Null)
    BY <1>1, <1>5, <2>1, SetHeadIs
  <2>3. Relinked(h, r, list)
    BY <1>4, <2>2 DEF Relinked, HeadSet
  <2>4. /\ r.Head[list] = next
        /\ \A u \in Units : /\ r.node[u].Next = IF u = prev THEN next ELSE h.node[u].Next
                            /\ r.node[u].Prev = IF u = next THEN prev ELSE h.node[u].Prev
    BY <1>1, <1>4, <1>8, <2>2 DEF HeadSet
  <2> QED BY <1>8, <2>3, <2>4 DEF Unlinks, r, prev, next
<1> QED BY <1>6, <1>7, <1>8

\* What happens to a node outside F, the blocks of the list.
LinksKept(h, g, F) ==
  \A u \in Units \ F : g.node[u].Next = h.node[u].Next /\ g.node[u].Prev = h.node[u].Prev

LEMMA UnlinkKeeps ==
  ASSUME NEW h \in HeapType, NEW g, NEW list \in Lists, NEW F \in SUBSET Units, NEW n \in F,
         ListIs(h, list, F), Unlinks(h, g, list, n)
  PROVE  ListIs(g, list, F \ {n}) /\ LinksKept(h, g, F)
<1> DEFINE prev == h.node[n].Prev
           next == h.node[n].Next
<1>1. /\ F \subseteq Nat /\ n \in Units /\ Null \notin F
      /\ \A x \in F : x \in Units /\ x \in Nat
  BY SizeFacts
<1>2. /\ IsHead(F, h.Head[list])
      /\ \A x \in F : IsNext(F, x, h.node[x].Next) /\ IsPrev(F, x, h.node[x].Prev)
  BY DEF ListIs
<1>3. /\ g.Head[list] = IF prev = Null THEN next ELSE h.Head[list]
      /\ \A u \in Units : /\ g.node[u].Next = IF u = prev THEN next ELSE h.node[u].Next
                          /\ g.node[u].Prev = IF u = next THEN prev ELSE h.node[u].Prev
  BY DEF Unlinks
<1>4. IsNext(F, n, next) /\ IsPrev(F, n, prev)
  BY <1>2
<1> HIDE DEF prev, next
<1>5. LinksKept(h, g, F)
  <2>1. prev \in F \union {Null} /\ next \in F \union {Null}
    BY <1>4 DEF IsNext, IsPrev
  <2> QED BY <1>1, <1>3, <2>1, SizeFacts DEF LinksKept
<1>6. IsHead(F \ {n}, g.Head[list])
  <2>1. CASE prev = Null
    <3>1. g.Head[list] = next /\ \A z \in F : n <= z
      BY <1>3, <1>4, <2>1 DEF IsPrev
    <3> QED BY <1>1, <1>4, <3>1 DEF IsHead, IsNext
  <2>2. CASE prev # Null
    <3>1. g.Head[list] = h.Head[list] /\ prev \in F /\ prev < n
      BY <1>3, <1>4, <2>2 DEF IsPrev
    <3>2. h.Head[list] \in F /\ \A z \in F : h.Head[list] <= z
      BY <1>2, <3>1 DEF IsHead
    <3> QED BY <1>1, <3>1, <3>2 DEF IsHead
  <2> QED BY <2>1, <2>2
<1>7. ASSUME NEW x \in F \ {n} PROVE IsNext(F \ {n}, x, g.node[x].Next)
  <2>1. x \in Units /\ IsNext(F, x, h.node[x].Next)
    BY <1>1, <1>2
  <2>2. CASE x = prev
    <3>1. g.node[x].Next = next
      BY <1>3, <2>1, <2>2
    <3>2. x < n /\ \A z \in F : z <= x \/ n <= z
      BY <1>1, <1>4, <2>2 DEF IsPrev
    <3>3. CASE next = Null
      <4>1. \A z \in F \ {n} : z <= x
        BY <1>1, <1>4, <3>2, <3>3 DEF IsNext
      <4> QED BY <3>1, <3>3, <4>1 DEF IsNext
    <3>4. CASE next # Null
      <4>1. next \in F /\ n < next /\ \A z \in F : z <= n \/ next <= z
        BY <1>4, <3>4 DEF IsNext
      <4>2. next \in F \ {n} /\ x < next
        BY <1>1, <3>2, <4>1
      <4>3. \A z \in F \ {n} : z <= x \/ next <= z
        BY <1>1, <3>2, <4>1
      <4> QED BY <3>1, <3>4, <4>2, <4>3 DEF IsNext
    <3> QED BY <3>3, <3>4
  <2>3. CASE x # prev
    <3>1. g.node[x].Next = h.node[x].Next
      BY <1>3, <2>1, <2>3
    <3>2. h.node[x].Next # n
      <4> SUFFICES ASSUME h.node[x].Next = n PROVE FALSE
        OBVIOUS
      <4>1. x < n /\ \A z \in F : z <= x \/ n <= z
        BY <1>1, <2>1 DEF IsNext
      <4>2. prev # Null /\ prev \in F /\ prev < n /\ \A z \in F : z <= prev \/ n <= z
        BY <1>1, <1>4, <4>1 DEF IsPrev
      <4> QED BY <1>1, <2>3, <4>1, <4>2
    <3> QED BY <1>1, <2>1, <3>1, <3>2 DEF IsNext
  <2> QED BY <2>2, <2>3
<1>8. ASSUME NEW x \in F \ {n} PROVE IsPrev(F \ {n}, x, g.node[x].Prev)
  <2>1. x \in Units /\ IsPrev(F, x, h.node[x].Prev)
    BY <1>1, <1>2
  <2>2. CASE x = next
    <3>1. g.node[x].Prev = prev
      BY <1>3, <2>1, <2>2
    <3>2. n < x /\ \A z \in F : z <= n \/ x <= z
      BY <1>1, <1>4, <2>2 DEF IsNext
    <3>3. CASE prev = Null
      <4>1. \A z \in F \ {n} : x <= z
        BY <1>1, <1>4, <3>2, <3>3 DEF IsPrev
      <4> QED BY <3>1, <3>3, <4>1 DEF IsPrev
    <3>4. CASE prev # Null
      <4>1. prev \in F /\ prev < n /\ \A z \in F : z <= prev \/ n <= z
        BY <1>4, <3>4 DEF IsPrev
      <4>2. prev \in F \ {n} /\ prev < x
        BY <1>1, <3>2, <4>1
      <4>3. \A z \in F \ {n} : z <= prev \/ x <= z
        BY <1>1, <3>2, <4>1
      <4> QED BY <3>1, <3>4, <4>2, <4>3 DEF IsPrev
    <3> QED BY <3>3, <3>4
  <2>3. CASE x # next
    <3>1. g.node[x].Prev = h.node[x].Prev
      BY <1>3, <2>1, <2>3
    <3>2. h.node[x].Prev # n
      <4> SUFFICES ASSUME h.node[x].Prev = n PROVE FALSE
        OBVIOUS
      <4>1. n < x /\ \A z \in F : z <= n \/ x <= z
        BY <1>1, <2>1 DEF IsPrev
      <4>2. next # Null /\ next \in F /\ n < next /\ \A z \in F : z <= n \/ next <= z
        BY <1>1, <1>4, <4>1 DEF IsNext
      <4> QED BY <1>1, <2>3, <4>1, <4>2
    <3> QED BY <1>1, <2>1, <3>1, <3>2 DEF IsPrev
  <2> QED BY <2>2, <2>3
<1> QED BY <1>5, <1>6, <1>7, <1>8 DEF ListIs

\* n is linked as the only node, before curr, or after the last node.
LinksFirst(h, g, list, n) ==
  Relinked(h, g, list) /\ g.Head[list] = n /\ g.node = h.node

LinksBefore(h, g, list, n, curr) ==
  LET prev == h.node[curr].Prev IN
  /\ Relinked(h, g, list)
  /\ g.Head[list] = IF prev = Null THEN n ELSE h.Head[list]
  /\ \A u \in Units :
       /\ g.node[u].Next = IF u = n THEN curr ELSE IF u = prev THEN n ELSE h.node[u].Next
       /\ g.node[u].Prev = IF u = curr THEN n ELSE IF u = n THEN prev ELSE h.node[u].Prev

LinksLast(h, g, list, n, last) ==
  /\ Relinked(h, g, list)
  /\ g.Head[list] = h.Head[list]
  /\ \A u \in Units : /\ g.node[u].Next = IF u = last THEN n ELSE h.node[u].Next
                      /\ g.node[u].Prev = IF u = n THEN last ELSE h.node[u].Prev

LEMMA InsertBeforeIs ==
  ASSUME NEW h \in HeapType, NEW list \in Lists, NEW n \in Units, NEW curr \in Units, n # curr,
         h.node[n].Prev = Null, h.node[curr].Prev # n, h.node[curr].Prev # curr
  PROVE  LinksBefore(h, InsertMemNodeBefore(h, list, n, curr), list, n, curr)
<1> DEFINE r == InsertMemNodeBefore(h, list, n, curr)
           prev == h.node[curr].Prev
           f == SetNext(h, n, curr)
           g == SetPrev(f, curr, n)
           e == SetPrev(g, n, prev)
<1>1. /\ prev \in Units \union {Null} /\ Null \notin Units /\ prev # n /\ prev # curr
      /\ n \in Units \union {Null} /\ curr \in Units \union {Null}
  BY NodeTypes, SizeFacts
<1>2. r = IF prev = Null THEN SetHead(g, list, n) ELSE SetNext(e, prev, n)
  BY DEF InsertMemNodeBefore
<1>3. NextSet(h, f, n, curr)
  BY <1>1, SetNextIs
<1>4. f \in HeapType
  BY <1>3 DEF NextSet
<1> HIDE DEF f, r, prev
<1>5. PrevSet(f, g, curr, n)
  BY <1>1, <1>4, SetPrevIs
<1>6. g \in HeapType
  BY <1>5 DEF PrevSet
<1> HIDE DEF g
<1>7. PrevSet(g, e, n, prev)
  BY <1>1, <1>6, SetPrevIs
<1>8. e \in HeapType
  BY <1>7 DEF PrevSet
<1> HIDE DEF e
<1>9. CASE prev = Null
  <2>1. HeadSet(g, r, list, n)
    BY <1>1, <1>2, <1>6, <1>9, SetHeadIs
  <2>2. Relinked(h, r, list) /\ r.Head[list] = n
    BY <1>3, <1>5, <2>1 DEF Relinked, NextSet, PrevSet, HeadSet
  <2>3. ASSUME NEW u \in Units
        PROVE  /\ r.node[u].Next = IF u = n THEN curr ELSE IF u = prev THEN n ELSE h.node[u].Next
               /\ r.node[u].Prev = IF u = curr THEN n ELSE IF u = n THEN prev ELSE h.node[u].Prev
    BY <1>1, <1>3, <1>5, <1>9, <2>1 DEF NextSet, PrevSet, HeadSet
  <2> QED BY <1>9, <2>2, <2>3 DEF LinksBefore, r, prev
<1>10. CASE prev # Null
  <2>1. NextSet(e, r, prev, n)
    BY <1>1, <1>2, <1>8, <1>10, SetNextIs
  <2>2. Relinked(h, r, list) /\ r.Head[list] = h.Head[list]
    BY <1>3, <1>5, <1>7, <2>1 DEF Relinked, NextSet, PrevSet
  <2>3. ASSUME NEW u \in Units
        PROVE  /\ r.node[u].Next = IF u = n THEN curr ELSE IF u = prev THEN n ELSE h.node[u].Next
               /\ r.node[u].Prev = IF u = curr THEN n ELSE IF u = n THEN prev ELSE h.node[u].Prev
    BY <1>1, <1>3, <1>5, <1>7, <2>1 DEF NextSet, PrevSet
  <2> QED BY <1>10, <2>2, <2>3 DEF LinksBefore, r, prev
<1> QED BY <1>9, <1>10

LEMMA AppendIs ==
  ASSUME NEW h \in HeapType, NEW list \in Lists, NEW n \in Units, NEW last \in Units
  PROVE  LinksLast(h, SetPrev(SetNext(h, last, n), n, last), list, n, last)
<1> DEFINE f == SetNext(h, last, n)
           r == SetPrev(f, n, last)
<1>1. NextSet(h, f, last, n)
  BY SetNextIs
<1>2. f \in HeapType
  BY <1>1 DEF NextSet
<1> HIDE DEF f
<1>3. PrevSet(f, r, n, last)
  BY <1>2, SetPrevIs
<1> HIDE DEF r
<1>4. LinksLast(h, r, list, n, last)
  BY <1>1, <1>3 DEF LinksLast, Relinked, NextSet, PrevSet
<1> QED BY <1>4 DEF r, f

LEMMA LinkFirstKeeps ==
  ASSUME NEW h \in HeapType, NEW g, NEW list \in Lists, NEW n \in Units, ListIs(h, list, {}),
         h.node[n].Next = Null, h.node[n].Prev = Null, LinksFirst(h, g, list, n)
  PROVE  ListIs(g, list, {n}) /\ LinksKept(h, g, {n})
<1>1. n \in Nat /\ n # Null
  BY SizeFacts
<1> QED BY <1>1 DEF LinksFirst, ListIs, IsHead, IsNext, IsPrev, LinksKept

LEMMA LinkBeforeKeeps ==
  ASSUME NEW h \in HeapType, NEW g, NEW list \in Lists, NEW F \in SUBSET Units,
         NEW n \in Units \ F, NEW curr \in F, ListIs(h, list, F),
         n < curr, \A z \in F : z < curr => z < n, LinksBefore(h, g, list, n, curr)
  PROVE  ListIs(g, list, F \union {n}) /\ LinksKept(h, g, F \union {n})
<1> DEFINE prev == h.node[curr].Prev
<1>1. /\ F \subseteq Nat /\ n \in Nat /\ n \in Units /\ n \notin F /\ Null \notin Units /\ n # Null
      /\ \A x \in F : x \in Units /\ x \in Nat
  BY SizeFacts
<1>2. /\ IsHead(F, h.Head[list])
      /\ \A x \in F : IsNext(F, x, h.node[x].Next) /\ IsPrev(F, x, h.node[x].Prev)
  BY DEF ListIs
<1>3. /\ g.Head[list] = IF prev = Null THEN n ELSE h.Head[list]
      /\ \A u \in Units :
           /\ g.node[u].Next = IF u = n THEN curr ELSE IF u = prev THEN n ELSE h.node[u].Next
           /\ g.node[u].Prev = IF u = curr THEN n ELSE IF u = n THEN prev ELSE h.node[u].Prev
  BY DEF LinksBefore
<1>4. IsPrev(F, curr, prev)
  BY <1>2
<1> HIDE DEF prev
<1>5. prev \in F \union {Null} /\ (prev # Null => prev < n)
  BY <1>1, <1>4 DEF IsPrev
<1>6. LinksKept(h, g, F \union {n})
  BY <1>1, <1>3, <1>5 DEF LinksKept
<1>7. IsHead(F \union {n}, g.Head[list])
  <2>1. CASE prev = Null
    BY <1>1, <1>3, <1>4, <2>1 DEF IsHead, IsPrev
  <2>2. CASE prev # Null
    <3> DEFINE head == h.Head[list]
    <3>1. head \in F /\ \A z \in F : head <= z
      BY <1>2 DEF IsHead
    <3>2. g.Head[list] = head /\ prev \in F /\ prev < n
      BY <1>3, <1>5, <2>2
    <3> HIDE DEF head
    <3>3. head # Null /\ head <= n
      BY <1>1, <3>1, <3>2
    <3> QED BY <3>1, <3>2, <3>3 DEF IsHead
  <2> QED BY <2>1, <2>2
<1>8. IsNext(F \union {n}, n, g.node[n].Next)
  BY <1>1, <1>3 DEF IsNext
<1>9. IsPrev(F \union {n}, n, g.node[n].Prev)
  BY <1>1, <1>3, <1>4, <1>5 DEF IsPrev
<1>10. ASSUME NEW x \in F PROVE IsNext(F \union {n}, x, g.node[x].Next)
  <2>1. x \in Units /\ x # n /\ IsNext(F, x, h.node[x].Next)
    BY <1>1, <1>2
  <2>2. CASE x = prev
    <3>1. g.node[x].Next = n
      BY <1>3, <2>1, <2>2
    <3> QED BY <1>1, <1>4, <1>5, <2>2, <3>1 DEF IsNext, IsPrev
  <2>3. CASE x # prev
    <3>1. g.node[x].Next = h.node[x].Next
      BY <1>3, <2>1, <2>3
    <3> DEFINE y == h.node[x].Next
    <3>2. IsNext(F, x, y)
      BY <2>1
    <3> HIDE DEF y
    <3>3. y = Null => n < x
      BY <1>1, <3>2 DEF IsNext
    <3>4. y # Null => n <= x \/ y <= n
      <4>1. ASSUME y # Null PROVE y \in F /\ x < y /\ \A z \in F : z <= x \/ y <= z
        BY <3>2, <4>1 DEF IsNext
      <4> SUFFICES ASSUME y # Null, ~ n <= x, ~ y <= n PROVE FALSE
        OBVIOUS
      <4>2. y \in Nat /\ x \in Nat /\ curr \in Nat
        BY <1>1, <4>1
      <4>3. y <= curr
        <5>1. curr <= x \/ y <= curr
          BY <4>1
        <5> QED BY <1>1, <4>2, <5>1
      <4>4. ~ y < curr
        <5>1. y < curr => y < n
          BY <4>1
        <5> QED BY <1>1, <4>2, <5>1
      <4>5. y = curr
        BY <4>2, <4>3, <4>4
      <4>6. x < curr /\ \A z \in F : z <= x \/ curr <= z
        BY <4>1, <4>5
      <4>7. prev # Null /\ prev \in F /\ prev < curr /\ (x <= prev \/ curr <= x)
        BY <1>1, <1>4, <4>2, <4>6 DEF IsPrev
      <4>8. prev \in Nat /\ (prev <= x \/ curr <= prev)
        BY <1>1, <4>6, <4>7
      <4> QED BY <2>3, <4>2, <4>6, <4>7, <4>8
    <3> QED BY <1>1, <3>1, <3>2, <3>3, <3>4 DEF IsNext, y
  <2> QED BY <2>2, <2>3
<1>11. ASSUME NEW x \in F PROVE IsPrev(F \union {n}, x, g.node[x].Prev)
  <2>1. x \in Units /\ x # n /\ IsPrev(F, x, h.node[x].Prev)
    BY <1>1, <1>2
  <2>2. CASE x = curr
    <3>1. g.node[x].Prev = n
      BY <1>3, <2>1, <2>2
    <3> QED BY <1>1, <2>2, <3>1 DEF IsPrev
  <2>3. CASE x # curr
    <3>1. g.node[x].Prev = h.node[x].Prev
      BY <1>3, <2>1, <2>3
    <3> DEFINE y == h.node[x].Prev
    <3>2. IsPrev(F, x, y)
      BY <2>1
    <3> HIDE DEF y
    <3>3. y = Null => x < n
      BY <1>1, <2>3, <3>2 DEF IsPrev
    <3>4. y # Null => n <= y \/ x <= n
      <4> SUFFICES ASSUME y # Null, ~ n <= y, ~ x <= n PROVE FALSE
        OBVIOUS
      <4>1. y \in F /\ y < x /\ \A z \in F : z <= y \/ x <= z
        BY <3>2 DEF IsPrev
      <4>2. y \in Nat /\ x \in Nat /\ curr \in Nat
        BY <1>1, <4>1
      <4>3. curr <= y \/ x <= curr
        BY <4>1
      <4>4. x < curr => x < n
        OBVIOUS
      <4> QED BY <1>1, <2>3, <4>2, <4>3, <4>4
    <3> QED BY <1>1, <3>1, <3>2, <3>3, <3>4 DEF IsPrev, y
  <2> QED BY <2>2, <2>3
<1> QED BY <1>6, <1>7, <1>8, <1>9, <1>10, <1>11 DEF ListIs

LEMMA LinkLastKeeps ==
  ASSUME NEW h \in HeapType, NEW g, NEW list \in Lists, NEW F \in SUBSET Units,
         NEW n \in Units \ F, NEW last \in F, ListIs(h, list, F),
         last < n, h.node[last].Next = Null, h.node[n].Next = Null, LinksLast(h, g, list, n, last)
  PROVE  ListIs(g, list, F \union {n}) /\ LinksKept(h, g, F \union {n})
<1>1. /\ n \in Nat /\ n \in Units /\ n \notin F /\ Null \notin Units /\ n # Null
      /\ \A x \in F : x \in Units /\ x \in Nat
  BY SizeFacts
<1>2. /\ IsHead(F, h.Head[list])
      /\ \A x \in F : IsNext(F, x, h.node[x].Next) /\ IsPrev(F, x, h.node[x].Prev)
  BY DEF ListIs
<1>3. /\ g.Head[list] = h.Head[list]
      /\ \A u \in Units : /\ g.node[u].Next = IF u = last THEN n ELSE h.node[u].Next
                          /\ g.node[u].Prev = IF u = n THEN last ELSE h.node[u].Prev
  BY DEF LinksLast
<1>4. \A z \in F : z <= last
  BY <1>2 DEF IsNext
<1>5. LinksKept(h, g, F \union {n})
  BY <1>1, <1>3 DEF LinksKept
<1>6. IsHead(F \union {n}, g.Head[list])
  <2> DEFINE head == h.Head[list]
  <2>1. head \in F /\ \A z \in F : head <= z
    BY <1>2 DEF IsHead
  <2>2. g.Head[list] = head
    BY <1>3
  <2> HIDE DEF head
  <2>3. head # Null /\ head <= n
    <3>1. head <= last /\ head \in Nat /\ last \in Nat
      BY <1>1, <2>1
    <3> QED BY <1>1, <2>1, <3>1
  <2> QED BY <2>1, <2>2, <2>3 DEF IsHead
<1>7. IsNext(F \union {n}, n, g.node[n].Next)
  BY <1>1, <1>3, <1>4 DEF IsNext
<1>8. IsPrev(F \union {n}, n, g.node[n].Prev)
  BY <1>1, <1>3, <1>4 DEF IsPrev
<1>9. ASSUME NEW x \in F PROVE IsNext(F \union {n}, x, g.node[x].Next)
  <2>1. x \in Units /\ x # n /\ IsNext(F, x, h.node[x].Next) /\ x <= last
    BY <1>1, <1>2, <1>4
  <2>2. CASE x = last
    BY <1>1, <1>3, <1>4, <2>1, <2>2 DEF IsNext
  <2>3. CASE x # last
    <3>1. g.node[x].Next = h.node[x].Next
      BY <1>3, <2>1, <2>3
    <3> DEFINE y == h.node[x].Next
    <3>2. y # Null
      <4>1. y = Null => last <= x
        BY <2>1 DEF IsNext
      <4>2. x \in Nat /\ last \in Nat /\ x <= last
        BY <1>1, <2>1
      <4> HIDE DEF y
      <4> QED BY <2>3, <4>1, <4>2
    <3>3. y \in F /\ x < y /\ \A z \in F : z <= x \/ y <= z
      BY <2>1, <3>2 DEF IsNext
    <3> HIDE DEF y
    <3>4. y <= n
      <4>1. y <= last /\ y \in Nat /\ last \in Nat
        BY <1>1, <1>4, <3>3
      <4> QED BY <1>1, <4>1
    <3> QED BY <3>1, <3>2, <3>3, <3>4 DEF IsNext, y
  <2> QED BY <2>2, <2>3
<1>10. ASSUME NEW x \in F PROVE IsPrev(F \union {n}, x, g.node[x].Prev)
  <2>1. x \in Units /\ x # n /\ IsPrev(F, x, h.node[x].Prev) /\ x <= last
    BY <1>1, <1>2, <1>4
  <2>2. g.node[x].Prev = h.node[x].Prev
    BY <1>3, <2>1
  <2> QED BY <1>1, <2>1, <2>2 DEF IsPrev
<1> QED BY <1>5, <1>6, <1>7, <1>8, <1>9, <1>10 DEF ListIs

-----------------------------------------------------------------------------
(* Blocks. *)

\* The blocks of B lie in the part that was handed out, apart, and fill it.
Covered(h, B) ==
  /\ \A b \in B : /\ h.Offset <= b /\ h.node[b].Size > 0 /\ b + h.node[b].Size <= MemSize
                  /\ ListOf(h.node[b].Size) \in Lists \ {Large}
  /\ \A a, b \in B : a < b => a + h.node[a].Size <= b
  /\ \A u \in Units : h.Offset <= u => \E b \in B : b <= u /\ u < b + h.node[b].Size

InList(h, D, list) == {b \in D : ListOf(h.node[b].Size) = list}

Listed(h, D) == \A list \in Lists : ListIs(h, list, InList(h, D, list))

\* The links of held blocks are cleared, as InsertMemNode needs them.
Detached(h, H) == \A b \in H : h.node[b].Next = Null /\ h.node[b].Prev = Null

Tiles(h, D, H) ==
  /\ h \in HeapType /\ D \in SUBSET Units /\ H \in SUBSET Units /\ D \intersect H = {}
  /\ Covered(h, D \union H) /\ Listed(h, D) /\ Detached(h, H)

SizesKept(h, g, B) == \A b \in B : g.node[b].Size = h.node[b].Size

LEMMA BlockFacts ==
  ASSUME NEW h, NEW D, NEW H, Tiles(h, D, H)
  PROVE  /\ h \in HeapType /\ h.Offset \in Nat
         /\ \A b \in D \union H : /\ b \in Units /\ b \in Nat /\ h.node[b].Size \in Nat
                                  /\ h.Offset <= b /\ h.node[b].Size > 0 /\ b + h.node[b].Size <= MemSize
                                  /\ ListOf(h.node[b].Size) \in Lists \ {Large}
         /\ \A a, b \in D \union H : a < b => a + h.node[a].Size <= b
         /\ \A u \in Units : h.Offset <= u => \E b \in D \union H : b <= u /\ u < b + h.node[b].Size
<1>1. h \in HeapType /\ \A b \in D \union H : b \in Units /\ b \in Nat
  BY SizeFacts DEF Tiles
<1>2. h.Offset \in Nat /\ \A b \in D \union H : h.node[b].Size \in Nat
  BY <1>1, NodeTypes
<1> QED BY <1>1, <1>2 DEF Tiles, Covered

LEMMA CoveredSame ==
  ASSUME NEW h, NEW g, NEW B \in SUBSET Units, Covered(h, B), g.Offset = h.Offset,
         SizesKept(h, g, Units)
  PROVE  Covered(g, B)
<1>1. \A b \in B : g.node[b].Size = h.node[b].Size
  BY DEF SizesKept
<1> QED BY <1>1 DEF Covered

LEMMA ListedElsewhere ==
  ASSUME NEW h, NEW g, NEW list, NEW G \in SUBSET Units, ListIs(h, list, G),
         g.Head[list] = h.Head[list],
         \A x \in G : g.node[x].Next = h.node[x].Next /\ g.node[x].Prev = h.node[x].Prev
  PROVE  ListIs(g, list, G)
  BY DEF ListIs

\* A block leaves its list, and its neighbours are linked.
LEMMA UnlinkTiles ==
  ASSUME NEW h, NEW D, NEW H, Tiles(h, D, H), NEW n \in D
  PROVE  LET g == RemoveMemNode(h, ListOf(h.node[n].Size), n) IN
         /\ g \in HeapType /\ g.Offset = h.Offset /\ SizesKept(h, g, Units)
         /\ Listed(g, D \ {n}) /\ Detached(g, H)
<1> DEFINE list == ListOf(h.node[n].Size)
           g == RemoveMemNode(h, list, n)
           F == InList(h, D, list)
<1>1. /\ h \in HeapType /\ D \in SUBSET Units /\ H \in SUBSET Units /\ D \intersect H = {}
      /\ Listed(h, D) /\ Detached(h, H)
  BY DEF Tiles
<1>2. list \in Lists
  BY BlockFacts
<1>3. F \in SUBSET Units /\ n \in F /\ n \in Units /\ F \subseteq D
  BY <1>1 DEF InList
<1>4. ListIs(h, list, F)
  BY <1>1, <1>2 DEF Listed
<1>5. h.node[n].Next # n /\ h.node[n].Prev # n
  <2>1. n \in Nat /\ n # Null
    BY <1>3, SizeFacts
  <2> QED BY <1>3, <1>4, <2>1 DEF ListIs, IsNext, IsPrev
<1> HIDE DEF list, g, F
<1>6. Unlinks(h, g, list, n)
  BY <1>1, <1>2, <1>3, <1>5, RemoveIs DEF g
<1>7. ListIs(g, list, F \ {n}) /\ LinksKept(h, g, F)
  BY <1>1, <1>2, <1>3, <1>4, <1>6, UnlinkKeeps
<1>8. /\ g \in HeapType /\ g.Offset = h.Offset /\ SizesKept(h, g, Units)
      /\ \A l \in Lists : l # list => g.Head[l] = h.Head[l]
  BY <1>6 DEF Unlinks, Relinked, SizesKept
<1>9. ASSUME NEW l \in Lists PROVE ListIs(g, l, InList(g, D \ {n}, l))
  <2>1. InList(g, D \ {n}, l) = InList(h, D, l) \ {n}
    BY <1>1, <1>8 DEF InList, SizesKept
  <2>2. CASE l = list
    BY <1>7, <2>1, <2>2 DEF F
  <2>3. CASE l # list
    <3> DEFINE G == InList(h, D, l)
    <3>1. n \notin G /\ G \in SUBSET Units /\ \A x \in G : x \in Units \ F
      BY <1>1, <2>3 DEF InList, F, list
    <3>2. ListIs(h, l, G)
      BY <1>1 DEF Listed
    <3> HIDE DEF G
    <3>3. \A x \in G : g.node[x].Next = h.node[x].Next /\ g.node[x].Prev = h.node[x].Prev
      BY <1>7, <3>1 DEF LinksKept
    <3>4. ListIs(g, l, G)
      BY <1>8, <2>3, <3>1, <3>2, <3>3, ListedElsewhere
    <3>5. G \ {n} = G
      BY <3>1
    <3> QED BY <2>1, <3>4, <3>5 DEF G
  <2> QED BY <2>2, <2>3
<1>10. Detached(g, H)
  <2>1. \A b \in H : b \in Units \ F
    BY <1>1, <1>3
  <2> QED BY <1>1, <1>7, <2>1 DEF Detached, LinksKept
<1> QED BY <1>8, <1>9, <1>10 DEF Listed, g, list

\* A held block is linked into its list.
LEMMA LinkTiles ==
  ASSUME NEW h, NEW D, NEW H, Tiles(h, D, H), NEW n \in H, NEW g,
         LET list == ListOf(h.node[n].Size)
             F == InList(h, D, list) \union {n}
         IN  Relinked(h, g, list) /\ ListIs(g, list, F) /\ LinksKept(h, g, F)
  PROVE  Tiles(g, D \union {n}, H \ {n}) /\ SizesKept(h, g, Units)
<1> DEFINE list == ListOf(h.node[n].Size)
           F == InList(h, D, list) \union {n}
<1>1. /\ h \in HeapType /\ D \in SUBSET Units /\ H \in SUBSET Units /\ D \intersect H = {}
      /\ Listed(h, D) /\ Detached(h, H) /\ Covered(h, D \union H)
  BY DEF Tiles
<1>2. /\ g \in HeapType /\ g.Offset = h.Offset /\ SizesKept(h, g, Units)
      /\ \A l \in Lists : l # list => g.Head[l] = h.Head[l]
  BY DEF Relinked, SizesKept
<1>3. ListIs(g, list, F) /\ LinksKept(h, g, F)
  OBVIOUS
<1> HIDE DEF list, F
<1>4. ASSUME NEW l \in Lists PROVE ListIs(g, l, InList(g, D \union {n}, l))
  <2>1. \A b \in D \union {n} : g.node[b].Size = h.node[b].Size
    BY <1>1, <1>2 DEF SizesKept
  <2>2. CASE l = list
    <3>1. InList(g, D \union {n}, l) = F
      BY <2>1, <2>2 DEF InList, F, list
    <3> QED BY <1>3, <2>2, <3>1
  <2>3. CASE l # list
    <3> DEFINE G == InList(h, D, l)
    <3>1. InList(g, D \union {n}, l) = G
      BY <2>1, <2>3 DEF InList, list
    <3>2. G \in SUBSET Units /\ \A x \in G : x \in Units \ F
      BY <1>1, <2>3 DEF InList, F
    <3>3. ListIs(h, l, G)
      BY <1>1 DEF Listed
    <3> HIDE DEF G
    <3>4. \A x \in G : g.node[x].Next = h.node[x].Next /\ g.node[x].Prev = h.node[x].Prev
      BY <1>3, <3>2 DEF LinksKept
    <3>5. ListIs(g, l, G)
      BY <1>2, <2>3, <3>2, <3>3, <3>4, ListedElsewhere
    <3> QED BY <3>1, <3>5
  <2> QED BY <2>2, <2>3
<1>5. Detached(g, H \ {n})
  <2>1. \A b \in H \ {n} : b \in Units \ F
    BY <1>1 DEF F, InList
  <2> QED BY <1>1, <1>3, <2>1 DEF Detached, LinksKept
<1>6. (D \union {n}) \union (H \ {n}) = D \union H /\ D \union H \in SUBSET Units
  BY <1>1
<1>7. Covered(g, D \union H)
  BY <1>1, <1>2, <1>6, CoveredSame
<1>8. /\ D \union {n} \in SUBSET Units /\ H \ {n} \in SUBSET Units
      /\ (D \union {n}) \intersect (H \ {n}) = {}
  BY <1>1
<1> QED BY <1>2, <1>4, <1>5, <1>6, <1>7, <1>8 DEF Tiles, Listed

\* The links of a block outside all lists are cleared.
LEMMA Clearing ==
  ASSUME NEW h \in HeapType, NEW D \in SUBSET Units, NEW H \in SUBSET Units,
         Listed(h, D), Detached(h, H), NEW n \in Units \ D
  PROVE  LET g == SetPrev(SetNext(h, n, Null), n, Null) IN
         /\ g \in HeapType /\ g.Offset = h.Offset /\ SizesKept(h, g, Units)
         /\ Listed(g, D) /\ Detached(g, H \union {n})
<1> DEFINE f == SetNext(h, n, Null)
           g == SetPrev(f, n, Null)
<1>1. Null \in Units \union {Null} /\ n \in Units
  OBVIOUS
<1>2. NextSet(h, f, n, Null)
  BY <1>1, SetNextIs
<1>3. f \in HeapType
  BY <1>2 DEF NextSet
<1> HIDE DEF f
<1>4. PrevSet(f, g, n, Null)
  BY <1>1, <1>3, SetPrevIs
<1> HIDE DEF g
<1>5. /\ g \in HeapType /\ g.Offset = h.Offset /\ g.Head = h.Head
      /\ \A u \in Units : /\ g.node[u].Size = h.node[u].Size
                          /\ g.node[u].Next = IF u = n THEN Null ELSE h.node[u].Next
                          /\ g.node[u].Prev = IF u = n THEN Null ELSE h.node[u].Prev
  BY <1>2, <1>4 DEF NextSet, PrevSet
<1>6. ASSUME NEW l \in Lists PROVE ListIs(g, l, InList(g, D, l))
  <2> DEFINE G == InList(h, D, l)
  <2>1. InList(g, D, l) = G
    BY <1>5 DEF InList
  <2>2. G \in SUBSET Units /\ n \notin G
    BY DEF InList
  <2>3. ListIs(h, l, G)
    BY DEF Listed
  <2> HIDE DEF G
  <2>4. \A x \in G : g.node[x].Next = h.node[x].Next /\ g.node[x].Prev = h.node[x].Prev
    BY <1>5, <2>2
  <2>5. ListIs(g, l, G)
    BY <1>5, <2>2, <2>3, <2>4, ListedElsewhere
  <2> QED BY <2>1, <2>5
<1>7. Detached(g, H \union {n})
  BY <1>1, <1>5 DEF Detached
<1> QED BY <1>5, <1>6, <1>7 DEF SizesKept, Listed, g, f

\* A block at Offset goes back to the buffer.
LEMMA CoveredAbove ==
  ASSUME NEW h \in HeapType, NEW B \in SUBSET Units, Covered(h, B), NEW n \in B, h.Offset = n,
         NEW g, g.Offset = n + h.node[n].Size, SizesKept(h, g, Units)
  PROVE  Covered(g, B \ {n}) /\ g.Offset \in 0 .. MemSize
<1> DEFINE size == h.node[n].Size
<1>1. /\ n \in Nat /\ size \in Nat /\ MemSize \in Nat
      /\ \A u \in Units : u \in Nat /\ h.node[u].Size \in Nat
      /\ \A b \in B : b \in Units /\ g.node[b].Size = h.node[b].Size
  BY SizeFacts, NodeTypes DEF SizesKept
<1>2. n <= n /\ size > 0 /\ n + size <= MemSize
  BY <1>1 DEF Covered
<1>3. ASSUME NEW b \in B \ {n} PROVE n + size <= b
  <2>1. n <= b
    BY DEF Covered
  <2>2. n < b
    BY <1>1, <2>1
  <2> QED BY <2>2 DEF Covered
<1>4. ASSUME NEW u \in Units, n + size <= u
      PROVE  \E b \in B \ {n} : b <= u /\ u < b + g.node[b].Size
  <2>1. n <= u
    BY <1>1, <1>4
  <2>2. PICK b \in B : b <= u /\ u < b + h.node[b].Size
    BY <2>1 DEF Covered
  <2>3. b # n
    BY <1>1, <1>4, <2>2
  <2> QED BY <1>1, <2>2, <2>3
<1> HIDE DEF size
<1>5. /\ g.Offset = n + size
      /\ \A b \in B : /\ g.node[b].Size > 0 /\ b + g.node[b].Size <= MemSize
                      /\ ListOf(g.node[b].Size) \in Lists \ {Large}
      /\ \A a, b \in B : a < b => a + g.node[a].Size <= b
  BY <1>1 DEF Covered, size
<1> QED BY <1>1, <1>2, <1>3, <1>4, <1>5 DEF Covered

LEMMA MergeTiles ==
  ASSUME NEW h, NEW D, NEW H, Tiles(h, D, H), NEW n \in D, h.Offset = n
  PROVE  LET g == MergeIntoBuffer(h, ListOf(h.node[n].Size), n) IN
         Tiles(g, D \ {n}, H) /\ SizesKept(h, g, Units)
<1> DEFINE f == RemoveMemNode(h, ListOf(h.node[n].Size), n)
           g == [f EXCEPT !.Offset = @ + h.node[n].Size]
<1>1. /\ h \in HeapType /\ D \in SUBSET Units /\ H \in SUBSET Units /\ D \intersect H = {}
      /\ Covered(h, D \union H)
  BY DEF Tiles
<1>2. /\ f \in HeapType /\ f.Offset = h.Offset /\ SizesKept(h, f, Units)
      /\ Listed(f, D \ {n}) /\ Detached(f, H)
  BY UnlinkTiles
<1> HIDE DEF f
<1>3. g.Offset = n + h.node[n].Size /\ g.node = f.node /\ g.Head = f.Head
  BY <1>2 DEF HeapType
<1>4. SizesKept(h, g, Units)
  BY <1>2, <1>3 DEF SizesKept
<1>5. D \union H \in SUBSET Units /\ n \in D \union H /\ (D \union H) \ {n} = (D \ {n}) \union H
  BY <1>1
<1>6. Covered(g, (D \union H) \ {n}) /\ g.Offset \in 0 .. MemSize
  <2> HIDE DEF g
  <2> QED BY <1>1, <1>3, <1>4, <1>5, CoveredAbove
<1>7. g \in HeapType
  <2>1. h.node[n].Size + n \in 0 .. MemSize
    BY <1>1, <1>3, <1>6, NodeTypes, SizeFacts
  <2> QED BY <1>2, <1>3, <1>6 DEF HeapType
<1> HIDE DEF g
<1>8. Listed(g, D \ {n}) /\ Detached(g, H)
  BY <1>2, <1>3 DEF Listed, Detached, ListIs, InList
<1>9. Tiles(g, D \ {n}, H)
  BY <1>1, <1>5, <1>6, <1>7, <1>8 DEF Tiles
<1> QED BY <1>4, <1>9 DEF MergeIntoBuffer, g, f

-----------------------------------------------------------------------------
(* Allocation. *)

LEMMA MinIs ==
  ASSUME NEW S \in SUBSET Nat, S # {}
  PROVE  Min(S) \in S /\ \A n \in S : Min(S) <= n
<1>1. PICK m \in S : \A n \in S : ~ n < m
  BY LeastNat
<1>2. \A n \in S : m <= n
  BY <1>1
<1> QED BY <1>1, <1>2 DEF Min

\* The size of a request is that of a bucket.
LEMMA RequestFits ==
  ASSUME BucketsOnly, NEW r \in Requests
  PROVE  /\ AllocSize(r) \in Nat \ {0}
         /\ ListOf(AllocSize(r)) \in Lists \ {Large}
<1>1. r \in Nat \ {0} /\ ListOf(AllocSize(r)) \in Lists \ {Large}
  BY RequestAssumption, SizeAssumption DEF BucketsOnly
<1>2. CASE r > GENERAL_PURPOSE_MAX
  BY <1>1, <1>2 DEF AllocSize
<1>3. CASE ~ r > GENERAL_PURPOSE_MAX
  <2> DEFINE P == {p \in r .. GENERAL_PURPOSE_MAX :
                     \E e \in 0 .. GENERALPURPOSE_BUCKETS : p = 2 ^ e}
  <2>1. P \subseteq Nat \ {0} /\ P \in SUBSET Nat
    BY <1>1, SizeAssumption
  <2>2. GENERAL_PURPOSE_MAX \in P
    <3>1. GENERAL_PURPOSE_MAX = 2 ^ GENERALPURPOSE_BUCKETS
      BY DEF GENERAL_PURPOSE_MAX
    <3>2. GENERALPURPOSE_BUCKETS \in 0 .. GENERALPURPOSE_BUCKETS
          /\ GENERAL_PURPOSE_MAX \in r .. GENERAL_PURPOSE_MAX
      BY <1>1, <1>3, SizeAssumption
    <3> QED BY <3>1, <3>2
  <2>3. AllocSize(r) = Min(P)
    BY <1>3 DEF AllocSize, AlignPowTwoCeil
  <2> HIDE DEF P
  <2>4. Min(P) \in P
    BY <2>1, <2>2, MinIs
  <2> QED BY <1>1, <2>1, <2>3, <2>4
<1> QED BY <1>2, <1>3

\* A listed block is handed out.
LEMMA TakeListed ==
  ASSUME NEW h, NEW D, NEW H, Tiles(h, D, H), NEW n \in D
  PROVE  LET f == RemoveMemNode(h, ListOf(h.node[n].Size), n)
             g == SetPrev(SetNext(f, n, Null), n, Null)
         IN  Tiles(g, D \ {n}, H \union {n}) /\ SizesKept(h, g, Units)
<1> DEFINE f == RemoveMemNode(h, ListOf(h.node[n].Size), n)
           g == SetPrev(SetNext(f, n, Null), n, Null)
<1>1. /\ D \in SUBSET Units /\ H \in SUBSET Units /\ D \intersect H = {}
      /\ Covered(h, D \union H)
  BY DEF Tiles
<1>2. /\ f \in HeapType /\ f.Offset = h.Offset /\ SizesKept(h, f, Units)
      /\ Listed(f, D \ {n}) /\ Detached(f, H)
  BY UnlinkTiles
<1> HIDE DEF f
<1>3. D \ {n} \in SUBSET Units /\ n \in Units \ (D \ {n})
  BY <1>1
<1>4. /\ g \in HeapType /\ g.Offset = f.Offset /\ SizesKept(f, g, Units)
      /\ Listed(g, D \ {n}) /\ Detached(g, H \union {n})
  BY <1>1, <1>2, <1>3, Clearing
<1> HIDE DEF g
<1>5. SizesKept(h, g, Units)
  BY <1>2, <1>4 DEF SizesKept
<1>6. /\ (D \ {n}) \union (H \union {n}) = D \union H /\ D \union H \in SUBSET Units
      /\ (D \ {n}) \intersect (H \union {n}) = {} /\ H \union {n} \in SUBSET Units
  BY <1>1
<1>7. Covered(g, D \union H)
  BY <1>1, <1>2, <1>4, <1>5, <1>6, CoveredSame
<1>8. Tiles(g, D \ {n}, H \union {n})
  BY <1>3, <1>4, <1>6, <1>7 DEF Tiles
<1> QED BY <1>5, <1>8 DEF g, f

\* What carving a block of the given size at b makes of h.
Carves(h, g, b, size) ==
  /\ g \in HeapType /\ g.Offset = b /\ g.Head = h.Head
  /\ \A u \in Units : /\ g.node[u].Size = IF u = b THEN size ELSE h.node[u].Size
                      /\ g.node[u].Next = h.node[u].Next /\ g.node[u].Prev = h.node[u].Prev

LEMMA CarveIs ==
  ASSUME NEW h \in HeapType, NEW size \in Nat \ {0}, h.Offset >= size
  PROVE  LET b == h.Offset - size IN
         b \in Units /\ Carves(h, FromBuffer(h, size).heap, b, size)
<1> DEFINE b == h.Offset - size
           node == [h.node EXCEPT ![b].Size = size]
           g == FromBuffer(h, size).heap
<1>1. h.Offset \in Nat /\ h.Offset <= MemSize /\ MemSize \in Nat
  BY NodeTypes, SizeFacts
<1>2. b \in Units /\ size \in 0 .. MemSize /\ b \in 0 .. MemSize
  BY <1>1 DEF Units
<1>3. g = [h EXCEPT !.Offset = b, !.node = node]
  <2>1. ~ h.Offset < size
    BY <1>1
  <2>2. g = [h EXCEPT !.Offset = b, !.node[b].Size = size]
    BY <2>1 DEF FromBuffer
  <2> QED BY <2>2
<1>4. h.node \in [Units -> MemNode]
  BY DEF HeapType
<1> HIDE DEF b
<1>5. /\ node \in [Units -> MemNode]
      /\ \A u \in Units : /\ node[u].Size = IF u = b THEN size ELSE h.node[u].Size
                          /\ node[u].Next = h.node[u].Next /\ node[u].Prev = h.node[u].Prev
  BY <1>2, <1>4 DEF MemNode
<1> HIDE DEF node
<1>6. g \in HeapType /\ g.Offset = b /\ g.Head = h.Head /\ g.node = node
  BY <1>2, <1>3, <1>5 DEF HeapType
<1> HIDE DEF g
<1>7. Carves(h, g, b, size)
  BY <1>5, <1>6 DEF Carves
<1> QED BY <1>2, <1>7 DEF g, b

\* A new block is added below all others.
LEMMA CarveTiles ==
  ASSUME NEW h, NEW D, NEW H, Tiles(h, D, H), NEW size \in Nat \ {0},
         ListOf(size) \in Lists \ {Large}, NEW b \in Units, b = h.Offset - size,
         NEW f, Carves(h, f, b, size)
  PROVE  LET g == SetPrev(SetNext(f, b, Null), b, Null) IN
         b \notin D \union H /\ Tiles(g, D, H \union {b}) /\ SizesKept(h, g, H)
<1> DEFINE g == SetPrev(SetNext(f, b, Null), b, Null)
           B == D \union H
<1>1. /\ h \in HeapType /\ h.Offset \in Nat
      /\ \A x \in B : /\ x \in Units /\ x \in Nat /\ h.node[x].Size \in Nat
                      /\ h.Offset <= x /\ h.node[x].Size > 0 /\ x + h.node[x].Size <= MemSize
                      /\ ListOf(h.node[x].Size) \in Lists \ {Large}
      /\ \A x, y \in B : x < y => x + h.node[x].Size <= y
      /\ \A u \in Units : h.Offset <= u => \E x \in B : x <= u /\ u < x + h.node[x].Size
  BY BlockFacts
<1>2. /\ D \in SUBSET Units /\ H \in SUBSET Units /\ D \intersect H = {}
      /\ Listed(h, D) /\ Detached(h, H)
  BY DEF Tiles
<1>3. /\ f \in HeapType /\ f.Offset = b /\ f.Head = h.Head
      /\ \A u \in Units : /\ f.node[u].Size = IF u = b THEN size ELSE h.node[u].Size
                          /\ f.node[u].Next = h.node[u].Next /\ f.node[u].Prev = h.node[u].Prev
  BY DEF Carves
<1>4. b \in Nat /\ b + size = h.Offset /\ b < h.Offset /\ MemSize \in Nat /\ Units \subseteq Nat
      /\ h.Offset <= MemSize
  BY <1>1, SizeFacts, NodeTypes
<1>5. b \notin B
  BY <1>1, <1>4
<1>6. Listed(f, D)
  <2> SUFFICES ASSUME NEW l \in Lists PROVE ListIs(f, l, InList(f, D, l))
    BY DEF Listed
  <2> DEFINE G == InList(h, D, l)
  <2>1. InList(f, D, l) = G
    <3>1. \A x \in D : f.node[x].Size = h.node[x].Size
      BY <1>2, <1>3, <1>5
    <3> QED BY <3>1 DEF InList
  <2>2. G \in SUBSET Units
    BY <1>2 DEF InList
  <2>3. ListIs(h, l, G)
    BY <1>2 DEF Listed
  <2> HIDE DEF G
  <2>4. \A x \in G : f.node[x].Next = h.node[x].Next /\ f.node[x].Prev = h.node[x].Prev
    BY <1>3, <2>2
  <2>5. ListIs(f, l, G)
    BY <1>3, <2>2, <2>3, <2>4, ListedElsewhere
  <2> QED BY <2>1, <2>5
<1>7. Detached(f, H)
  BY <1>2, <1>3 DEF Detached
<1>8. b \in Units \ D
  BY <1>5
<1>9. /\ g \in HeapType /\ g.Offset = b /\ SizesKept(f, g, Units)
      /\ Listed(g, D) /\ Detached(g, H \union {b})
  BY <1>2, <1>3, <1>6, <1>7, <1>8, Clearing
<1> HIDE DEF g
<1>10. \A u \in Units : g.node[u].Size = IF u = b THEN size ELSE h.node[u].Size
  BY <1>3, <1>9 DEF SizesKept
<1> HIDE DEF B
<1>11. g.node[b].Size = size /\ \A x \in B : g.node[x].Size = h.node[x].Size
  BY <1>1, <1>5, <1>10
<1>12. Covered(g, B \union {b})
  <2>1. ASSUME NEW x \in B \union {b}
        PROVE  /\ g.Offset <= x /\ g.node[x].Size > 0 /\ x + g.node[x].Size <= MemSize
               /\ ListOf(g.node[x].Size) \in Lists \ {Large}
    <3>1. CASE x = b
      BY <1>4, <1>9, <1>11, <3>1
    <3>2. CASE x # b
      <4>1. x \in B /\ x \in Nat /\ h.Offset <= x /\ g.node[x].Size = h.node[x].Size
        BY <1>1, <1>11, <3>2
      <4> QED BY <1>1, <1>4, <1>9, <4>1
    <3> QED BY <3>1, <3>2
  <2>2. ASSUME NEW x \in B \union {b}, NEW y \in B \union {b}, x < y
        PROVE  x + g.node[x].Size <= y
    <3>1. y # b
      <4> SUFFICES ASSUME y = b PROVE FALSE
        OBVIOUS
      <4>1. x \in B /\ x \in Nat /\ h.Offset <= x
        BY <1>1, <1>4, <2>2
      <4> QED BY <1>1, <1>4, <2>2, <4>1
    <3>2. y \in B /\ y \in Nat /\ h.Offset <= y
      BY <1>1, <3>1
    <3>3. CASE x = b
      BY <1>4, <1>11, <3>2, <3>3
    <3>4. CASE x # b
      BY <1>1, <1>11, <2>2, <3>2, <3>4
    <3> QED BY <3>3, <3>4
  <2>3. ASSUME NEW u \in Units, g.Offset <= u
        PROVE  \E x \in B \union {b} : x <= u /\ u < x + g.node[x].Size
    <3>1. u \in Nat /\ b <= u
      BY <1>4, <1>9, <2>3
    <3>2. CASE u < h.Offset
      BY <1>4, <1>11, <3>1, <3>2
    <3>3. CASE ~ u < h.Offset
      <4>1. h.Offset <= u
        BY <1>1, <3>1, <3>3
      <4>2. PICK x \in B : x <= u /\ u < x + h.node[x].Size
        BY <1>1, <4>1
      <4> QED BY <1>11, <4>2
    <3> QED BY <3>2, <3>3
  <2> QED BY <2>1, <2>2, <2>3 DEF Covered
<1>13. /\ D \union (H \union {b}) = B \union {b} /\ H \union {b} \in SUBSET Units
       /\ D \intersect (H \union {b}) = {}
  BY <1>2, <1>5 DEF B
<1>14. Tiles(g, D, H \union {b})
  BY <1>2, <1>9, <1>12, <1>13 DEF Tiles
<1>15. SizesKept(h, g, H)
  BY <1>11 DEF SizesKept, B
<1> QED BY <1>5, <1>14, <1>15 DEF g, B

\* A block that is handed out was not in anybody's hands, and no held block changes.
LEMMA AllocatedTiles ==
  ASSUME NEW h, NEW D, NEW H, Tiles(h, D, H), NEW size \in Nat \ {0},
         ListOf(size) \in Lists \ {Large}, NEW r, r = Allocated(h, size), r.block # Null
  PROVE  /\ r.block \in Units \ H /\ SizesKept(h, r.heap, H)
         /\ \E E : Tiles(r.heap, E, H \union {r.block})
<1> DEFINE list == ListOf(size)
           head == h.Head[list]
<1>1. /\ h \in HeapType /\ D \in SUBSET Units /\ H \in SUBSET Units /\ D \intersect H = {}
      /\ Listed(h, D)
  BY DEF Tiles
<1>2. head \in Units \union {Null} /\ list \in Lists /\ list # Large
  BY <1>1, NodeTypes
<1>3. FromList(h, size) = IF head = Null THEN [heap |-> h, block |-> Null]
                          ELSE [heap |-> RemoveMemNode(h, list, head), block |-> head]
  BY DEF FromList
<1>4. CASE head # Null
  <2> DEFINE f == RemoveMemNode(h, list, head)
             g == SetPrev(SetNext(f, head, Null), head, Null)
  <2>1. FromList(h, size) = [heap |-> f, block |-> head]
    BY <1>3, <1>4
  <2>2. r = [heap |-> g, block |-> head]
    BY <1>4, <2>1 DEF Allocated
  <2>3. head \in InList(h, D, list)
    BY <1>1, <1>2, <1>4 DEF Listed, ListIs, IsHead
  <2>4. head \in D /\ list = ListOf(h.node[head].Size)
    BY <2>3 DEF InList
  <2> HIDE DEF head, list
  <2>5. Tiles(g, D \ {head}, H \union {head}) /\ SizesKept(h, g, Units)
    BY <2>4, TakeListed
  <2> HIDE DEF g
  <2> QED BY <1>1, <2>2, <2>4, <2>5 DEF SizesKept
<1>5. CASE head = Null
  <2> DEFINE f == FromBuffer(h, size).heap
             b == h.Offset - size
             g == SetPrev(SetNext(f, b, Null), b, Null)
  <2>1. FromList(h, size).block = Null
    BY <1>3, <1>5
  <2>2. r = IF FromBuffer(h, size).block = Null THEN FromBuffer(h, size)
            ELSE [heap |-> SetPrev(SetNext(f, FromBuffer(h, size).block, Null),
                                   FromBuffer(h, size).block, Null),
                  block |-> FromBuffer(h, size).block]
    BY <2>1 DEF Allocated
  <2>3. ~ h.Offset < size
    <3> SUFFICES ASSUME h.Offset < size PROVE FALSE
      OBVIOUS
    <3>1. FromBuffer(h, size).block = Null
      BY DEF FromBuffer
    <3> QED BY <2>2, <3>1
  <2>4. FromBuffer(h, size).block = b
    BY <2>3 DEF FromBuffer
  <2>5. h.Offset \in Nat /\ h.Offset >= size
    BY <1>1, <2>3, NodeTypes
  <2>6. b \in Units /\ Carves(h, f, b, size)
    BY <1>1, <2>5, CarveIs
  <2>7. b = h.Offset - size /\ b # Null
    BY <2>6, SizeFacts
  <2> HIDE DEF f, b
  <2>8. r = [heap |-> g, block |-> b]
    BY <2>2, <2>4, <2>7
  <2>9. b \notin D \union H /\ Tiles(g, D, H \union {b}) /\ SizesKept(h, g, H)
    BY <2>6, <2>7, CarveTiles
  <2> HIDE DEF g
  <2> QED BY <2>6, <2>8, <2>9
<1> QED BY <1>4, <1>5

-----------------------------------------------------------------------------
(* Freeing: the walk of InsertMemNode to the place of n. *)

\* All blocks of the list below iter are below n.
Before(F, iter, n) == iter \in F /\ \A z \in F : z < iter => z < n

\* c is what a step makes of heap h and block iter: n is in its list, or the walk
\* goes on with a later block.
Progress(h, H, n, list, iter, c) ==
  /\ SizesKept(h, c.heap, Units)
  /\ \/ c.iter = Null /\ \E E : Tiles(c.heap, E, H \ {n})
     \/ /\ c.iter \in Units /\ iter < c.iter
        /\ \E E : Tiles(c.heap, E, H) /\ Before(InList(c.heap, E, list), c.iter, n)

LEMMA LinkFirstTiles ==
  ASSUME NEW h, NEW D, NEW H, Tiles(h, D, H), NEW n \in H, NEW list, list = ListOf(h.node[n].Size),
         h.Head[list] = Null
  PROVE  /\ Tiles(SetHead(h, list, n), D \union {n}, H \ {n})
         /\ SizesKept(h, SetHead(h, list, n), Units)
<1> DEFINE g == SetHead(h, list, n)
           F == InList(h, D, list)
<1>1. /\ h \in HeapType /\ n \in Units /\ Listed(h, D) /\ Detached(h, H)
  BY DEF Tiles
<1>2. list \in Lists
  BY BlockFacts
<1>3. ListIs(h, list, F)
  BY <1>1, <1>2 DEF Listed
<1>4. F = {}
  <2> HIDE DEF F
  <2> QED BY <1>3 DEF ListIs, IsHead
<1>5. HeadSet(h, g, list, n)
  BY <1>1, <1>2, SetHeadIs
<1> HIDE DEF g
<1>6. LinksFirst(h, g, list, n)
  BY <1>2, <1>5 DEF HeadSet, LinksFirst, Relinked
<1>7. h.node[n].Next = Null /\ h.node[n].Prev = Null
  BY <1>1 DEF Detached
<1>8. ListIs(g, list, {n}) /\ LinksKept(h, g, {n})
  BY <1>1, <1>2, <1>3, <1>4, <1>6, <1>7, LinkFirstKeeps
<1>9. Relinked(h, g, list) /\ F \union {n} = {n}
  BY <1>4, <1>6 DEF LinksFirst
<1>10. Tiles(g, D \union {n}, H \ {n}) /\ SizesKept(h, g, Units)
  BY <1>8, <1>9, LinkTiles
<1> QED BY <1>10 DEF g

LEMMA ComparedKeeps ==
  ASSUME NEW h, NEW D, NEW H, Tiles(h, D, H), NEW n \in H, NEW list, list = ListOf(h.node[n].Size),
         NEW iter, Before(InList(h, D, list), iter, n)
  PROVE  Progress(h, H, n, list, iter, Compared(h, list, n, iter))
<1> DEFINE F == InList(h, D, list)
           c == Compared(h, list, n, iter)
           next == h.node[iter].Next
<1>1. /\ h \in HeapType /\ D \in SUBSET Units /\ H \in SUBSET Units /\ D \intersect H = {}
      /\ Listed(h, D) /\ Detached(h, H)
  BY DEF Tiles
<1>2. F \in SUBSET Units /\ F \subseteq D /\ iter \in D /\ iter # n /\ n \in Units \ F
      /\ iter \in Units
  BY <1>1 DEF InList, Before
<1>3. /\ n \in Nat /\ iter \in Nat /\ list \in Lists /\ list # Large
      /\ iter < n => iter + h.node[iter].Size <= n
      /\ n < iter => n + h.node[n].Size <= iter
      /\ h.node[iter].Size \in Nat /\ h.node[n].Size \in Nat
  BY <1>2, BlockFacts
<1>4. ListIs(h, list, F)
  BY <1>1, <1>3 DEF Listed
<1>5. /\ IsNext(F, iter, next) /\ IsPrev(F, iter, h.node[iter].Prev)
      /\ iter \in F /\ \A z \in F : z < iter => z < n
  BY <1>4 DEF ListIs, Before
<1>6. h.node[n].Next = Null /\ h.node[n].Prev = Null
  BY <1>1 DEF Detached
<1>7. c = IF iter < n
            THEN IF next = Null
                   THEN [heap |-> SetPrev(SetNext(h, iter, n), n, iter), iter |-> Null]
                   ELSE [heap |-> h, iter |-> next]
            ELSE [heap |-> InsertMemNodeBefore(h, list, n, iter), iter |-> Null]
  <2>1. ~ (iter = n \/ (iter < n /\ iter + h.node[iter].Size > n)
                    \/ (iter > n /\ iter < n + h.node[n].Size))
    BY <1>2, <1>3
  <2> QED BY <1>3, <2>1 DEF Compared
<1>8. F \subseteq Nat /\ \A z \in F : z \in Nat /\ z \in Units
  BY <1>2, SizeFacts
<1> HIDE DEF F, next, c
<1>9. CASE iter < n /\ next = Null
  <2> DEFINE g == SetPrev(SetNext(h, iter, n), n, iter)
  <2>1. c.heap = g /\ c.iter = Null
    BY <1>7, <1>9
  <2>2. LinksLast(h, g, list, n, iter)
    BY <1>1, <1>2, <1>3, AppendIs
  <2> HIDE DEF g
  <2>3. ListIs(g, list, F \union {n}) /\ LinksKept(h, g, F \union {n})
    BY <1>1, <1>2, <1>3, <1>4, <1>5, <1>6, <1>9, <2>2, LinkLastKeeps DEF next
  <2>4. Relinked(h, g, list)
    BY <2>2 DEF LinksLast
  <2>5. Tiles(g, D \union {n}, H \ {n}) /\ SizesKept(h, g, Units)
    BY <2>3, <2>4, LinkTiles DEF F
  <2> QED BY <2>1, <2>5 DEF Progress, c
<1>10. CASE iter < n /\ next # Null
  <2>1. c.heap = h /\ c.iter = next
    BY <1>7, <1>10
  <2>2. next \in F /\ iter < next /\ \A z \in F : z <= iter \/ next <= z
    BY <1>5, <1>10 DEF IsNext
  <2>3. \A z \in F : z < next => z < n
    <3> SUFFICES ASSUME NEW z \in F, z < next PROVE z < n
      OBVIOUS
    <3>1. z \in Nat /\ next \in Nat /\ (z <= iter \/ next <= z)
      BY <1>8, <2>2
    <3> QED BY <1>3, <1>10, <3>1
  <2>4. Before(F, next, n) /\ next \in Units
    BY <1>8, <2>2, <2>3 DEF Before
  <2>5. SizesKept(h, h, Units)
    BY DEF SizesKept
  <2> QED BY <2>1, <2>2, <2>4, <2>5 DEF Progress, F, c
<1>11. CASE ~ iter < n
  <2> DEFINE g == InsertMemNodeBefore(h, list, n, iter)
  <2>1. c.heap = g /\ c.iter = Null
    BY <1>7, <1>11
  <2>2. n < iter
    BY <1>2, <1>3, <1>11
  <2>3. h.node[iter].Prev # n /\ h.node[iter].Prev # iter
    <3>1. h.node[iter].Prev \in F \union {Null} /\ iter # Null /\ n # Null
          /\ (h.node[iter].Prev # Null => h.node[iter].Prev < iter)
      BY <1>2, <1>5, SizeFacts DEF IsPrev
    <3> QED BY <1>2, <1>3, <3>1
  <2>4. LinksBefore(h, g, list, n, iter)
    BY <1>1, <1>2, <1>3, <1>6, <2>3, InsertBeforeIs
  <2> HIDE DEF g
  <2>5. ListIs(g, list, F \union {n}) /\ LinksKept(h, g, F \union {n})
    BY <1>1, <1>2, <1>3, <1>4, <1>5, <2>2, <2>4, LinkBeforeKeeps
  <2>6. Relinked(h, g, list)
    BY <2>4 DEF LinksBefore
  <2>7. Tiles(g, D \union {n}, H \ {n}) /\ SizesKept(h, g, Units)
    BY <2>5, <2>6, LinkTiles DEF F
  <2> QED BY <2>1, <2>7 DEF Progress, c
<1> QED BY <1>9, <1>10, <1>11 DEF c

\* The block at Offset goes back to the buffer first.
LEMMA InsertStepKeeps ==
  ASSUME NEW h, NEW D, NEW H, Tiles(h, D, H), NEW n \in H, NEW list, list = ListOf(h.node[n].Size),
         NEW iter, Before(InList(h, D, list), iter, n)
  PROVE  Progress(h, H, n, list, iter, InsertStep([heap |-> h, iter |-> iter], list, n))
<1> DEFINE g == MergeIntoBuffer(h, list, iter)
           c == InsertStep([heap |-> h, iter |-> iter], list, n)
           head == g.Head[list]
           E == D \ {iter}
<1>1. c = IF iter # h.Offset THEN Compared(h, list, n, iter)
          ELSE IF head = Null THEN [heap |-> SetHead(g, list, n), iter |-> Null]
          ELSE Compared(g, list, n, head)
  BY DEF InsertStep
<1>2. n \in Units /\ iter \in D /\ list = ListOf(h.node[iter].Size)
  BY DEF Tiles, Before, InList
<1>3. CASE iter # h.Offset
  BY <1>1, <1>3, ComparedKeeps
<1>4. CASE iter = h.Offset
  <2>1. Tiles(g, E, H) /\ SizesKept(h, g, Units)
    BY <1>2, <1>4, MergeTiles
  <2>2. list = ListOf(g.node[n].Size) /\ list \in Lists
    <3> HIDE DEF g
    <3>1. g.node[n].Size = h.node[n].Size
      BY <1>2, <2>1 DEF SizesKept
    <3> QED BY <3>1, BlockFacts
  <2>3. c = IF head = Null THEN [heap |-> SetHead(g, list, n), iter |-> Null]
            ELSE Compared(g, list, n, head)
    BY <1>1, <1>4
  <2> HIDE DEF g, c, E
  <2>4. CASE head = Null
    <3> DEFINE f == SetHead(g, list, n)
    <3>1. Tiles(f, E \union {n}, H \ {n}) /\ SizesKept(g, f, Units)
      BY <2>1, <2>2, <2>4, LinkFirstTiles
    <3>2. c.heap = f /\ c.iter = Null
      BY <2>3, <2>4
    <3> HIDE DEF f
    <3>3. SizesKept(h, f, Units)
      BY <2>1, <3>1 DEF SizesKept
    <3> QED BY <3>1, <3>2, <3>3 DEF Progress, c
  <2>5. CASE head # Null
    <3>1. c = Compared(g, list, n, head)
      BY <2>3, <2>5
    <3>2. ListIs(g, list, InList(g, E, list))
      BY <2>1, <2>2 DEF Tiles, Listed
    <3> HIDE DEF head
    <3>3. head \in InList(g, E, list) /\ \A z \in InList(g, E, list) : head <= z
      BY <2>5, <3>2 DEF ListIs, IsHead, head
    <3>4. head \in Nat /\ \A z \in InList(g, E, list) : z \in Nat
      BY <2>1, <3>3, BlockFacts DEF InList
    <3>5. Before(InList(g, E, list), head, n)
      BY <3>3, <3>4 DEF Before
    <3>6. Progress(g, H, n, list, head, c)
      BY <2>1, <2>2, <3>1, <3>5, ComparedKeeps
    <3>7. iter < head /\ iter \in Nat
      <4>1. head \in D /\ head # iter /\ h.Offset <= head /\ h.Offset \in Nat
        BY <3>3, BlockFacts DEF InList, E
      <4> QED BY <1>4, <3>4, <4>1
    <3>8. SizesKept(h, c.heap, Units)
      BY <2>1, <3>6 DEF SizesKept, Progress
    <3>9. ASSUME c.iter \in Units, head < c.iter PROVE iter < c.iter
      <4>1. c.iter \in Nat
        BY <3>9, SizeFacts
      <4> QED BY <3>4, <3>7, <3>9, <4>1
    <3> QED BY <3>6, <3>8, <3>9 DEF Progress, c
  <2> QED BY <2>4, <2>5
<1> QED BY <1>3, <1>4

\* A state of the walk, which started with heap h, at block k or later.
Walked(h, H, n, k, s) ==
  LET list == ListOf(h.node[n].Size) IN
  /\ SizesKept(h, s.heap, Units)
  /\ \/ s.iter = Null /\ \E E : Tiles(s.heap, E, H \ {n})
     \/ /\ s.iter \in Units /\ k <= s.iter
        /\ \E E : Tiles(s.heap, E, H) /\ Before(InList(s.heap, E, list), s.iter, n)

WalkStates(h, H, n, k) ==
  {s \in [heap : HeapType, iter : Units \union {Null}] : Walked(h, H, n, k, s)}

WalkStep(s, list, n) == IF s.iter = Null THEN s ELSE InsertStep(s, list, n)

LEMMA WalkKeeps ==
  ASSUME NEW h, NEW H \in SUBSET Units, NEW n \in H, NEW list, list = ListOf(h.node[n].Size),
         NEW k \in Nat, NEW s \in WalkStates(h, H, n, k)
  PROVE  WalkStep(s, list, n) \in WalkStates(h, H, n, k + 1)
<1> DEFINE c == InsertStep(s, list, n)
<1>1. s \in [heap : HeapType, iter : Units \union {Null}] /\ Walked(h, H, n, k, s)
  BY DEF WalkStates
<1>2. CASE s.iter = Null
  <2>1. WalkStep(s, list, n) = s
    BY <1>2 DEF WalkStep
  <2>2. Walked(h, H, n, k + 1, s)
    BY <1>1, <1>2, SizeFacts DEF Walked
  <2> QED BY <1>1, <2>1, <2>2 DEF WalkStates
<1>3. CASE s.iter # Null
  <2>1. WalkStep(s, list, n) = c
    BY <1>3 DEF WalkStep
  <2>2. s = [heap |-> s.heap, iter |-> s.iter] /\ s.iter \in Units /\ s.iter \in Nat
    BY <1>1, <1>3, SizeFacts
  <2>3. SizesKept(h, s.heap, Units) /\ k <= s.iter
    BY <1>1, <1>3 DEF Walked
  <2>4. PICK E : Tiles(s.heap, E, H) /\ Before(InList(s.heap, E, list), s.iter, n)
    BY <1>1, <1>3 DEF Walked
  <2>5. list = ListOf(s.heap.node[n].Size)
    BY <2>3 DEF SizesKept
  <2>6. Progress(s.heap, H, n, list, s.iter, c)
    <3>1. Progress(s.heap, H, n, list, s.iter, InsertStep([heap |-> s.heap, iter |-> s.iter], list, n))
      BY <2>4, <2>5, InsertStepKeeps
    <3> QED BY <2>2, <3>1
  <2>7. c = [heap |-> c.heap, iter |-> c.iter]
    <3>1. \A g, i : Compared(g, list, n, i) = [heap |-> Compared(g, list, n, i).heap,
                                               iter |-> Compared(g, list, n, i).iter]
      BY DEF Compared
    <3> QED BY <3>1 DEF InsertStep
  <2> HIDE DEF c
  <2>8. SizesKept(h, c.heap, Units)
    BY <2>3, <2>6 DEF SizesKept, Progress
  <2>9. c.heap \in HeapType /\ c.iter \in Units \union {Null}
    BY <2>6 DEF Progress, Tiles
  <2>10. ASSUME c.iter # Null
         PROVE  /\ c.iter \in Units /\ k + 1 <= c.iter
                /\ \E X : Tiles(c.heap, X, H) /\ Before(InList(c.heap, X, list), c.iter, n)
    <3>1. /\ c.iter \in Units /\ s.iter < c.iter
          /\ \E X : Tiles(c.heap, X, H) /\ Before(InList(c.heap, X, list), c.iter, n)
      BY <2>6, <2>10 DEF Progress
    <3>2. c.iter \in Nat
      BY <3>1, SizeFacts
    <3> QED BY <2>2, <2>3, <3>1, <3>2
  <2>11. c.iter = Null => \E X : Tiles(c.heap, X, H \ {n})
    BY <2>6, SizeFacts DEF Progress
  <2>12. Walked(h, H, n, k + 1, c)
    BY <2>8, <2>10, <2>11 DEF Walked
  <2>13. c \in [heap : HeapType, iter : Units \union {Null}]
    BY <2>7, <2>9
  <2> QED BY <2>1, <2>12, <2>13 DEF WalkStates
<1> QED BY <1>2, <1>3

\* The walk is defined, and reaches block k after k iterations, if it does not end.
LEMMA WalkIs ==
  ASSUME NEW h, NEW D, NEW H, Tiles(h, D, H), NEW n \in H, NEW list, list = ListOf(h.node[n].Size),
         h.Head[list] # Null
  PROVE  \A k \in 0 .. MemSize : InsertIterations(h, list, n)[k] \in WalkStates(h, H, n, k)
<1> DEFINE start == [heap |-> h, iter |-> h.Head[list]]
           S == [k \in 0 .. MemSize |-> WalkStates(h, H, n, k)]
           step == [k \in 1 .. MemSize |-> [s \in WalkStates(h, H, n, k - 1) |-> WalkStep(s, list, n)]]
           f == InsertIterations(h, list, n)
           Is(g) == g = [k \in 0 .. MemSize |-> IF k = 0 THEN start
                           ELSE IF g[k - 1].iter = Null THEN g[k - 1]
                           ELSE InsertStep(g[k - 1], list, n)]
<1>1. MemSize \in Nat /\ H \in SUBSET Units /\ h \in HeapType /\ list \in Lists /\ n \in Units
  BY SizeFacts, BlockFacts DEF Tiles
<1>2. start \in WalkStates(h, H, n, 0)
  <2>1. h.Head[list] \in Units
    BY <1>1, NodeTypes
  <2>2. ListIs(h, list, InList(h, D, list))
    BY <1>1 DEF Tiles, Listed
  <2>3. h.Head[list] \in InList(h, D, list) /\ \A z \in InList(h, D, list) : h.Head[list] <= z
    BY <2>2 DEF ListIs, IsHead
  <2>4. h.Head[list] \in Nat /\ \A z \in InList(h, D, list) : z \in Nat
    BY <2>3, BlockFacts DEF InList
  <2> DEFINE head == h.Head[list]
  <2> HIDE DEF head
  <2>5. Before(InList(h, D, list), head, n) /\ head \in Units /\ 0 <= head
    BY <2>1, <2>3, <2>4 DEF Before, head
  <2>6. start.iter = head /\ start.heap = h /\ start \in [heap : HeapType, iter : Units \union {Null}]
    BY <1>1, <2>1 DEF head
  <2>7. Walked(h, H, n, 0, start)
    <3> HIDE DEF start
    <3> QED BY <2>5, <2>6 DEF Walked, SizesKept
  <2> QED BY <2>6, <2>7 DEF WalkStates
<1>3. ASSUME NEW k \in 1 .. MemSize, NEW s \in S[k - 1] PROVE step[k][s] \in S[k]
  <2>1. k - 1 \in 0 .. MemSize /\ k \in 0 .. MemSize /\ k - 1 \in Nat /\ k - 1 + 1 = k
    BY <1>1
  <2>2. s \in WalkStates(h, H, n, k - 1)
    BY <1>3, <2>1
  <2>3. WalkStep(s, list, n) \in WalkStates(h, H, n, k - 1 + 1)
    BY <1>1, <2>1, <2>2, WalkKeeps
  <2> QED BY <2>1, <2>2, <2>3
<1>4. 0 \in 0 .. MemSize /\ start \in S[0]
  BY <1>1, <1>2
<1> HIDE DEF start
<1>5. PICK g : Follows(g, MemSize, start, step)
  <2> HIDE DEF S, step
  <2> QED BY <1>1, <1>3, <1>4, Recursion
<1>6. g = [k \in 0 .. MemSize |-> IF k = 0 THEN start ELSE step[k][g[k - 1]]]
  BY <1>5 DEF Follows
<1>7. \A k \in 0 .. MemSize : g[k] \in S[k]
  <2>1. g[0] \in S[0]
    <3> HIDE DEF S, step
    <3> QED BY <1>4, <1>6
  <2>2. ASSUME NEW k \in 1 .. MemSize, g[k - 1] \in S[k - 1] PROVE g[k] \in S[k]
    <3>1. g[k] = step[k][g[k - 1]]
      <4> HIDE DEF step
      <4> QED BY <1>1, <1>6
    <3> HIDE DEF S, step
    <3> QED BY <1>3, <2>2, <3>1
  <2> HIDE DEF S
  <2> QED BY <1>1, <2>1, <2>2, Along
<1>8. Is(g)
  <2>1. ASSUME NEW k \in 0 .. MemSize, k # 0
        PROVE  step[k][g[k - 1]] = IF g[k - 1].iter = Null THEN g[k - 1]
                                   ELSE InsertStep(g[k - 1], list, n)
    <3>1. k \in 1 .. MemSize /\ k - 1 \in 0 .. MemSize
      BY <1>1, <2>1
    <3>2. g[k - 1] \in WalkStates(h, H, n, k - 1)
      BY <1>7, <3>1
    <3>3. step[k][g[k - 1]] = WalkStep(g[k - 1], list, n)
      BY <3>1, <3>2
    <3> QED BY <3>3 DEF WalkStep
  <2> HIDE DEF step
  <2> QED BY <1>6, <2>1
<1>9. f = CHOOSE g1 : Is(g1)
  BY DEF InsertIterations, start
<1>10. Is(CHOOSE g1 : Is(g1))
  <2> HIDE DEF Is
  <2> QED BY <1>8, Zenon
<1>11. \A g1, g2 : Is(g1) /\ Is(g2) => g1[0] = g2[0]
  BY <1>1
<1>12. Is(f)
  <2> HIDE DEF Is
  <2> QED BY <1>9, <1>10
<1> HIDE DEF f
<1>13. f[0] \in S[0]
  <2> HIDE DEF S
  <2> QED BY <1>4, <1>12
<1>14. ASSUME NEW k \in 1 .. MemSize, f[k - 1] \in S[k - 1] PROVE f[k] \in S[k]
  <2>1. k - 1 \in 0 .. MemSize /\ k \in 0 .. MemSize /\ k # 0 /\ k - 1 \in Nat /\ k - 1 + 1 = k
    BY <1>1
  <2>2. f[k] = WalkStep(f[k - 1], list, n)
    BY <1>12, <2>1 DEF WalkStep
  <2>3. f[k - 1] \in WalkStates(h, H, n, k - 1)
    BY <1>14, <2>1
  <2>4. f[k] \in WalkStates(h, H, n, k - 1 + 1)
    BY <1>1, <2>1, <2>2, <2>3, WalkKeeps
  <2> QED BY <2>1, <2>4
<1>15. \A k \in 0 .. MemSize : f[k] \in S[k]
  <2> HIDE DEF S
  <2> QED BY <1>1, <1>13, <1>14, Along
<1> QED BY <1>15 DEF f

\* A block that is freed is in nobody's hands, and no held block changes.
LEMMA FreedTiles ==
  ASSUME NEW h, NEW D, NEW H, Tiles(h, D, H), NEW n \in H
  PROVE  SizesKept(h, Freed(h, n), Units) /\ \E E : Tiles(Freed(h, n), E, H \ {n})
<1> DEFINE size == h.node[n].Size
           list == ListOf(size)
           g == Freed(h, n)
<1>1. /\ h \in HeapType /\ D \in SUBSET Units /\ H \in SUBSET Units /\ D \intersect H = {}
      /\ Covered(h, D \union H) /\ Listed(h, D) /\ Detached(h, H) /\ n \in Units
  BY DEF Tiles
<1>2. /\ h.Offset \in Nat /\ h.Offset <= n /\ n \in Nat /\ size \in Nat /\ list \in Lists \ {Large}
  BY BlockFacts
<1>3. CASE n = h.Offset
  <2>1. g = [h EXCEPT !.Offset = n + size]
    BY <1>2, <1>3 DEF Freed
  <2>2. g.Offset = n + size /\ g.node = h.node /\ g.Head = h.Head
    BY <1>1, <2>1 DEF HeapType
  <2>3. SizesKept(h, g, Units)
    BY <2>2 DEF SizesKept
  <2>4. /\ D \union H \in SUBSET Units /\ n \in D \union H
        /\ (D \union H) \ {n} = D \union (H \ {n})
    BY <1>1
  <2> HIDE DEF g
  <2>5. Covered(g, (D \union H) \ {n}) /\ g.Offset \in 0 .. MemSize
    BY <1>1, <1>3, <2>2, <2>3, <2>4, CoveredAbove
  <2>6. g \in HeapType
    BY <1>1, <2>1, <2>2, <2>5 DEF HeapType
  <2>7. Listed(g, D) /\ Detached(g, H \ {n})
    BY <1>1, <2>2 DEF Listed, Detached, ListIs, InList
  <2>8. Tiles(g, D, H \ {n})
    BY <1>1, <2>4, <2>5, <2>6, <2>7 DEF Tiles
  <2> QED BY <2>3, <2>8 DEF g
<1>4. CASE n # h.Offset
  <2>1. g = InsertMemNode(h, list, n)
    BY <1>2, <1>4 DEF Freed
  <2> HIDE DEF list
  <2>2. CASE h.Head[list] = Null
    <3>1. g = SetHead(h, list, n)
      BY <2>1, <2>2 DEF InsertMemNode
    <3>2. Tiles(SetHead(h, list, n), D \union {n}, H \ {n}) /\ SizesKept(h, SetHead(h, list, n), Units)
      BY <2>2, LinkFirstTiles DEF list
    <3> QED BY <3>1, <3>2
  <2>3. CASE h.Head[list] # Null
    <3> DEFINE s == InsertIterations(h, list, n)[MemSize]
    <3>1. g = s.heap
      BY <2>1, <2>3 DEF InsertMemNode
    <3>2. MemSize \in 0 .. MemSize
      BY SizeFacts
    <3>3. s \in WalkStates(h, H, n, MemSize)
      BY <2>3, <3>2, WalkIs DEF list
    <3> HIDE DEF s, g
    <3>4. Walked(h, H, n, MemSize, s)
      BY <3>3 DEF WalkStates
    <3>5. ASSUME s.iter \in Units PROVE ~ MemSize <= s.iter
      <4>1. s.iter < MemSize /\ s.iter \in Nat /\ MemSize \in Nat
        BY <3>5, SizeFacts
      <4> QED BY <4>1
    <3>6. SizesKept(h, s.heap, Units) /\ \E E : Tiles(s.heap, E, H \ {n})
      BY <3>4, <3>5 DEF Walked
    <3> QED BY <3>1, <3>6 DEF g
  <2> QED BY <2>2, <2>3
<1> QED BY <1>3, <1>4

-----------------------------------------------------------------------------
(* The blocks that are reached from the head of a list. *)

\* Null, or a block of F that is at k or above.
NodesFrom(F, k) == {x \in F \union {Null} : x # Null => k <= x}

NodeAfter(h, x) == IF x = Null THEN Null ELSE h.node[x].Next

LEMMA NodeAfterFacts ==
  ASSUME NEW h \in HeapType, NEW list, NEW F \in SUBSET Units, ListIs(h, list, F),
         NEW k \in Nat, NEW x \in NodesFrom(F, k)
  PROVE  NodeAfter(h, x) \in NodesFrom(F, k + 1)
<1>1. CASE x = Null
  BY <1>1 DEF NodeAfter, NodesFrom
<1>2. CASE x # Null
  <2> DEFINE y == h.node[x].Next
  <2>1. x \in F /\ k <= x /\ IsNext(F, x, y) /\ NodeAfter(h, x) = y
    BY <1>2 DEF NodesFrom, ListIs, NodeAfter
  <2> HIDE DEF y
  <2>2. y # Null => y \in F /\ x < y
    BY <2>1 DEF IsNext
  <2>3. \A z \in F : z \in Nat
    BY SizeFacts
  <2> QED BY <2>1, <2>2, <2>3 DEF NodesFrom
<1> QED BY <1>1, <1>2

LEMMA NthIs ==
  ASSUME NEW h \in HeapType, NEW list \in Lists, NEW F \in SUBSET Units, ListIs(h, list, F)
  PROVE  LET f == Nth(h, list) IN
         /\ f[0] = h.Head[list]
         /\ \A k \in 1 .. MemSize : f[k] = NodeAfter(h, f[k - 1])
         /\ \A k \in 0 .. MemSize : f[k] \in NodesFrom(F, k)
<1> DEFINE start == h.Head[list]
           S == [k \in 0 .. MemSize |-> NodesFrom(F, k)]
           step == [k \in 1 .. MemSize |-> [x \in NodesFrom(F, k - 1) |-> NodeAfter(h, x)]]
           f == Nth(h, list)
           Is(g) == g = [k \in 0 .. MemSize |-> IF k = 0 THEN start
                           ELSE IF g[k - 1] = Null THEN Null ELSE h.node[g[k - 1]].Next]
<1>1. MemSize \in Nat /\ 0 \in 0 .. MemSize
  BY SizeFacts
<1>2. start \in S[0]
  <2>1. IsHead(F, start)
    BY DEF ListIs
  <2>2. \A z \in F : z \in Nat
    BY SizeFacts
  <2> HIDE DEF start
  <2>3. start \in NodesFrom(F, 0)
    BY <2>1, <2>2 DEF IsHead, NodesFrom
  <2> QED BY <1>1, <2>3
<1>3. ASSUME NEW k \in 1 .. MemSize, NEW x \in S[k - 1] PROVE step[k][x] \in S[k]
  <2>1. k - 1 \in 0 .. MemSize /\ k \in 0 .. MemSize /\ k - 1 \in Nat /\ k - 1 + 1 = k
    BY <1>1
  <2>2. x \in NodesFrom(F, k - 1)
    BY <1>3, <2>1
  <2>3. NodeAfter(h, x) \in NodesFrom(F, k - 1 + 1)
    BY <2>1, <2>2, NodeAfterFacts
  <2> QED BY <2>1, <2>2, <2>3
<1> HIDE DEF start
<1>4. PICK g : Follows(g, MemSize, start, step)
  <2> HIDE DEF S, step
  <2> QED BY <1>1, <1>2, <1>3, Recursion
<1>5. g = [k \in 0 .. MemSize |-> IF k = 0 THEN start ELSE step[k][g[k - 1]]]
  BY <1>4 DEF Follows
<1>6. \A k \in 0 .. MemSize : g[k] \in S[k]
  <2>1. g[0] \in S[0]
    <3> HIDE DEF S, step
    <3> QED BY <1>1, <1>2, <1>5
  <2>2. ASSUME NEW k \in 1 .. MemSize, g[k - 1] \in S[k - 1] PROVE g[k] \in S[k]
    <3>1. g[k] = step[k][g[k - 1]]
      <4> HIDE DEF step
      <4> QED BY <1>1, <1>5
    <3> HIDE DEF S, step
    <3> QED BY <1>3, <2>2, <3>1
  <2> HIDE DEF S
  <2> QED BY <1>1, <2>1, <2>2, Along
<1>7. Is(g)
  <2>1. ASSUME NEW k \in 0 .. MemSize, k # 0
        PROVE  step[k][g[k - 1]] = IF g[k - 1] = Null THEN Null ELSE h.node[g[k - 1]].Next
    <3>1. k \in 1 .. MemSize /\ k - 1 \in 0 .. MemSize
      BY <1>1, <2>1
    <3>2. g[k - 1] \in NodesFrom(F, k - 1)
      BY <1>6, <3>1
    <3>3. step[k][g[k - 1]] = NodeAfter(h, g[k - 1])
      BY <3>1, <3>2
    <3> QED BY <3>3 DEF NodeAfter
  <2> HIDE DEF step
  <2> QED BY <1>5, <2>1
<1>8. f = CHOOSE g1 : Is(g1)
  BY DEF Nth, start
<1>9. Is(CHOOSE g1 : Is(g1))
  <2> HIDE DEF Is
  <2> QED BY <1>7, Zenon
<1>10. Is(f)
  <2> HIDE DEF Is
  <2> QED BY <1>8, <1>9
<1> HIDE DEF f
<1>11. f[0] = start /\ \A k \in 1 .. MemSize : f[k] = NodeAfter(h, f[k - 1])
  BY <1>1, <1>10 DEF NodeAfter
<1>12. f[0] \in S[0]
  BY <1>2, <1>11
<1>13. ASSUME NEW k \in 1 .. MemSize, f[k - 1] \in S[k - 1] PROVE f[k] \in S[k]
  <2>1. k - 1 \in 0 .. MemSize /\ k \in 0 .. MemSize /\ k - 1 \in Nat /\ k - 1 + 1 = k
    BY <1>1
  <2>2. f[k - 1] \in NodesFrom(F, k - 1)
    BY <1>13, <2>1
  <2>3. NodeAfter(h, f[k - 1]) \in NodesFrom(F, k - 1 + 1)
    BY <2>1, <2>2, NodeAfterFacts
  <2> QED BY <1>11, <2>1, <2>3
<1>14. \A k \in 0 .. MemSize : f[k] \in S[k]
  <2> HIDE DEF S
  <2> QED BY <1>1, <1>12, <1>13, Along
<1>15. \A k \in 0 .. MemSize : f[k] \in NodesFrom(F, k)
  BY <1>14
<1> QED BY <1>11, <1>15 DEF f, start

\* They are the blocks that the list links.
LEMMA NodesAre ==
  ASSUME NEW h \in HeapType, NEW list \in Lists, NEW F \in SUBSET Units, ListIs(h, list, F)
  PROVE  NodesOf(h, list) = F
<1> DEFINE f == Nth(h, list)
           head == h.Head[list]
           N == {f[k] : k \in 0 .. MemSize} \ {Null}
           Missing == F \ N
<1>1. /\ f[0] = head
      /\ \A k \in 1 .. MemSize : f[k] = NodeAfter(h, f[k - 1])
      /\ \A k \in 0 .. MemSize : f[k] \in NodesFrom(F, k)
  BY NthIs
<1>2. NodesOf(h, list) = N
  BY DEF NodesOf
<1>3. MemSize \in Nat /\ F \subseteq Nat /\ Null \notin F /\ \A z \in F : z \in Nat /\ z < MemSize
  BY SizeFacts
<1>4. IsHead(F, head) /\ \A x \in F : IsNext(F, x, h.node[x].Next) /\ IsPrev(F, x, h.node[x].Prev)
  BY DEF ListIs
<1> HIDE DEF f, head
<1>5. N \subseteq F
  BY <1>1 DEF NodesFrom
<1>6. Missing = {}
  <2> SUFFICES ASSUME Missing # {} PROVE FALSE
    OBVIOUS
  <2>1. PICK z \in Missing : \A y \in Missing : ~ y < z
    <3>1. Missing \subseteq Nat
      BY <1>3
    <3> HIDE DEF Missing
    <3> QED BY <3>1, LeastNat
  <2> DEFINE y == h.node[z].Prev
             w == h.node[y].Next
  <2>2. z \in F /\ z \in Nat /\ z \notin N /\ IsPrev(F, z, y)
    BY <1>3, <1>4, <2>1
  <2>3. head \in F /\ head \in N /\ head <= z
    <3>1. head \in F /\ head <= z
      BY <1>4, <2>2 DEF IsHead
    <3>2. f[0] = head /\ 0 \in 0 .. MemSize /\ head # Null
      BY <1>1, <1>3, <3>1
    <3> QED BY <3>1, <3>2
  <2> HIDE DEF y
  <2>4. y \in F /\ y < z /\ \A x \in F : x <= y \/ z <= x
    <3>1. y # Null
      <4> SUFFICES ASSUME y = Null PROVE FALSE
        OBVIOUS
      <4>1. z <= head /\ head \in Nat
        BY <1>3, <2>2, <2>3 DEF IsPrev
      <4> HIDE DEF N
      <4> QED BY <2>2, <2>3, <4>1
    <3> QED BY <2>2, <3>1 DEF IsPrev
  <2>5. y \in N
    <3> HIDE DEF N
    <3> QED BY <2>1, <2>4
  <2>6. PICK k \in 0 .. MemSize : f[k] = y
    BY <2>5
  <2>7. y # Null /\ y \in Nat /\ k <= y /\ k + 1 \in 1 .. MemSize
    <3>1. y # Null /\ y \in Nat /\ k <= y
      BY <1>1, <1>3, <2>4, <2>6 DEF NodesFrom
    <3>2. z < MemSize
      BY <1>3, <2>2
    <3> QED BY <1>3, <2>2, <2>4, <3>1, <3>2
  <2>8. IsNext(F, y, w)
    BY <1>4, <2>4
  <2> HIDE DEF w
  <2>9. w = z
    <3>1. w # Null
      <4> SUFFICES ASSUME w = Null PROVE FALSE
        OBVIOUS
      <4>1. z <= y
        BY <2>2, <2>8 DEF IsNext
      <4> QED BY <2>2, <2>4, <2>7, <4>1
    <3>2. w \in F /\ y < w /\ (z <= y \/ w <= z)
      BY <2>2, <2>8, <3>1 DEF IsNext
    <3>3. w \in Nat /\ (w <= y \/ z <= w)
      BY <1>3, <2>4, <3>2
    <3> QED BY <2>2, <2>4, <2>7, <3>2, <3>3
  <2>10. f[k + 1] = z
    <3>1. f[k + 1] = NodeAfter(h, f[k + 1 - 1]) /\ k + 1 - 1 = k
      BY <1>1, <2>7
    <3> QED BY <2>6, <2>7, <2>9, <3>1 DEF NodeAfter, w
  <2>11. k + 1 \in 0 .. MemSize /\ z # Null
    BY <1>3, <2>2, <2>7
  <2> QED BY <2>2, <2>10, <2>11
<1> HIDE DEF N
<1> QED BY <1>2, <1>5, <1>6

-----------------------------------------------------------------------------
(* The heap and its callers. *)

\* A unit is owned once if it is in a held block.
OwnersOf(h, H) == [u \in Units |-> IF \E b \in H : u \in Extent(h, b) THEN 1 ELSE 0]

IInv == (\E D : Tiles(heap, D, held)) /\ owners = OwnersOf(heap, held)

\* A unit is in one block.
LEMMA ExtentsApart ==
  ASSUME NEW h, NEW D, NEW H, Tiles(h, D, H), NEW a \in D \union H, NEW b \in D \union H,
         NEW u \in Units, u \in Extent(h, a), u \in Extent(h, b)
  PROVE  a = b
<1>1. /\ a \in Nat /\ b \in Nat /\ h.node[a].Size \in Nat /\ h.node[b].Size \in Nat /\ u \in Nat
      /\ a < b => a + h.node[a].Size <= b
      /\ b < a => b + h.node[b].Size <= a
  BY BlockFacts, SizeFacts
<1>2. /\ a <= u /\ u < a + h.node[a].Size
      /\ b <= u /\ u < b + h.node[b].Size
  BY <1>1 DEF Extent
<1> QED BY <1>1, <1>2

LEMMA HandedOutOwners ==
  ASSUME NEW h, NEW H, NEW g, NEW E, NEW b \in Units \ H, Tiles(g, E, H \union {b}),
         SizesKept(h, g, H)
  PROVE  HandedOut(g, b, OwnersOf(h, H)) = OwnersOf(g, H \union {b})
<1> DEFINE old == OwnersOf(h, H)
<1>1. \A a \in H : Extent(g, a) = Extent(h, a)
  BY DEF Extent, SizesKept
<1>2. ASSUME NEW u \in Units
      PROVE  (IF u \in Extent(g, b) THEN old[u] + 1 ELSE old[u])
               = (IF \E a \in H \union {b} : u \in Extent(g, a) THEN 1 ELSE 0)
  <2>1. old[u] = IF \E a \in H : u \in Extent(g, a) THEN 1 ELSE 0
    BY <1>1 DEF OwnersOf
  <2>2. ASSUME u \in Extent(g, b) PROVE ~ \E a \in H : u \in Extent(g, a)
    BY <2>2, ExtentsApart
  <2> HIDE DEF old
  <2> QED BY <2>1, <2>2
<1> HIDE DEF old
<1>3. [u \in Units |-> IF u \in Extent(g, b) THEN old[u] + 1 ELSE old[u]]
        = [u \in Units |-> IF \E a \in H \union {b} : u \in Extent(g, a) THEN 1 ELSE 0]
  BY <1>2
<1> QED BY <1>3 DEF HandedOut, OwnersOf, old

LEMMA GivenBackOwners ==
  ASSUME NEW h, NEW D, NEW H, Tiles(h, D, H), NEW b \in H, NEW g, SizesKept(h, g, Units)
  PROVE  GivenBack(h, b, OwnersOf(h, H)) = OwnersOf(g, H \ {b})
<1> DEFINE old == OwnersOf(h, H)
<1>1. \A a \in H : Extent(g, a) = Extent(h, a)
  BY DEF Extent, SizesKept, Tiles
<1>2. ASSUME NEW u \in Units
      PROVE  (IF u \in Extent(h, b) THEN old[u] - 1 ELSE old[u])
               = (IF \E a \in H \ {b} : u \in Extent(g, a) THEN 1 ELSE 0)
  <2>1. old[u] = IF \E a \in H : u \in Extent(h, a) THEN 1 ELSE 0
    BY DEF OwnersOf
  <2>2. ASSUME u \in Extent(h, b) PROVE ~ \E a \in H \ {b} : u \in Extent(h, a)
    BY <2>2, ExtentsApart
  <2>3. (\E a \in H \ {b} : u \in Extent(g, a)) <=> \E a \in H \ {b} : u \in Extent(h, a)
    BY <1>1
  <2>4. (\E a \in H : u \in Extent(h, a))
          <=> u \in Extent(h, b) \/ \E a \in H \ {b} : u \in Extent(h, a)
    OBVIOUS
  <2> HIDE DEF old
  <2> QED BY <2>1, <2>2, <2>3, <2>4
<1> HIDE DEF old
<1>3. [u \in Units |-> IF u \in Extent(h, b) THEN old[u] - 1 ELSE old[u]]
        = [u \in Units |-> IF \E a \in H \ {b} : u \in Extent(g, a) THEN 1 ELSE 0]
  BY <1>2
<1> QED BY <1>3 DEF GivenBack, OwnersOf, old

LEMMA EmptyTiles ==
  ASSUME NEW nodes \in [Units -> MemNode]
  PROVE  Tiles(EmptyHeap(nodes), {}, {}) /\ OwnersOf(EmptyHeap(nodes), {}) = [u \in Units |-> 0]
<1> DEFINE h == EmptyHeap(nodes)
<1>1. /\ h \in HeapType /\ h.Offset = MemSize
      /\ \A l \in Lists : h.Head[l] = Null
  <2>1. MemSize \in 0 .. MemSize
    BY SizeFacts
  <2> QED BY <2>1 DEF EmptyHeap, HeapType
<1> HIDE DEF h
<1>2. Covered(h, {})
  <2>1. ASSUME NEW u \in Units PROVE ~ h.Offset <= u
    <3>1. u < MemSize /\ u \in Nat /\ MemSize \in Nat
      BY SizeFacts
    <3> QED BY <1>1, <3>1
  <2> QED BY <2>1 DEF Covered
<1>3. Listed(h, {}) /\ Detached(h, {})
  BY <1>1 DEF Listed, Detached, ListIs, InList, IsHead
<1>4. Tiles(h, {}, {}) /\ OwnersOf(h, {}) = [u \in Units |-> 0]
  BY <1>1, <1>2, <1>3 DEF Tiles, OwnersOf
<1> QED BY <1>4 DEF h

\* An allocation, on the heap and the held blocks.
LEMMA AllocKeeps ==
  ASSUME BucketsOnly, IInv, NEW request \in Requests, NEW r,
         r = Allocated(heap, AllocSize(request)), r.block # Null
  PROVE  /\ r.block \in Units \ held
         /\ \E E : Tiles(r.heap, E, held \union {r.block})
         /\ HandedOut(r.heap, r.block, owners) = OwnersOf(r.heap, held \union {r.block})
<1>1. PICK D : Tiles(heap, D, held)
  BY DEF IInv
<1>2. AllocSize(request) \in Nat \ {0} /\ ListOf(AllocSize(request)) \in Lists \ {Large}
  BY RequestFits
<1>3. /\ r.block \in Units \ held /\ SizesKept(heap, r.heap, held)
      /\ \E E : Tiles(r.heap, E, held \union {r.block})
  BY <1>1, <1>2, AllocatedTiles
<1>4. PICK E : Tiles(r.heap, E, held \union {r.block})
  BY <1>3
<1>5. HandedOut(r.heap, r.block, OwnersOf(heap, held)) = OwnersOf(r.heap, held \union {r.block})
  BY <1>3, <1>4, HandedOutOwners
<1> QED BY <1>3, <1>5 DEF IInv

LEMMA InitIInv == Init => IInv
<1> SUFFICES ASSUME Init PROVE IInv
  OBVIOUS
<1> DEFINE nodes == [u \in Units |-> NoNode]
<1>1. nodes \in [Units -> MemNode]
  BY SizeFacts DEF NoNode, MemNode
<1>2. heap = EmptyHeap(nodes) /\ held = {} /\ owners = [u \in Units |-> 0]
  BY DEF Init
<1> HIDE DEF nodes
<1> QED BY <1>1, <1>2, EmptyTiles DEF IInv

LEMMA NextIInv == BucketsOnly /\ IInv /\ [Next]_vars => IInv'
<1> SUFFICES ASSUME BucketsOnly, IInv, [Next]_vars PROVE IInv'
  OBVIOUS
<1>1. ASSUME NEW request \in Requests, GeneralPurposeAlloc(request) PROVE IInv'
  <2> DEFINE r == Allocated(heap, AllocSize(request))
  <2>1. /\ r.block # Null /\ heap' = r.heap /\ held' = held \union {r.block}
        /\ owners' = HandedOut(r.heap, r.block, owners)
    BY <1>1 DEF GeneralPurposeAlloc
  <2>2. /\ \E E : Tiles(r.heap, E, held \union {r.block})
        /\ HandedOut(r.heap, r.block, owners) = OwnersOf(r.heap, held \union {r.block})
    BY <2>1, AllocKeeps
  <2> HIDE DEF r
  <2>3. (\E E : Tiles(heap', E, held')) /\ owners' = OwnersOf(heap', held')
    BY <2>1, <2>2
  <2> QED BY <2>3 DEF IInv, Tiles, OwnersOf
<1>2. ASSUME NEW block \in held, GeneralPurposeFree(block) PROVE IInv'
  <2> DEFINE g == Freed(heap, block)
  <2>1. PICK D : Tiles(heap, D, held)
    BY DEF IInv
  <2>2. heap' = g /\ held' = held \ {block} /\ owners' = GivenBack(heap, block, owners)
    BY <1>2 DEF GeneralPurposeFree
  <2>3. SizesKept(heap, g, Units) /\ \E E : Tiles(g, E, held \ {block})
    BY <2>1, FreedTiles
  <2> HIDE DEF g
  <2>4. GivenBack(heap, block, owners) = OwnersOf(g, held \ {block})
    <3>1. GivenBack(heap, block, OwnersOf(heap, held)) = OwnersOf(g, held \ {block})
      BY <2>1, <2>3, GivenBackOwners
    <3> QED BY <3>1 DEF IInv
  <2>5. (\E E : Tiles(heap', E, held')) /\ owners' = OwnersOf(heap', held')
    BY <2>2, <2>3, <2>4
  <2> QED BY <2>5 DEF IInv, Tiles, OwnersOf
<1>3. ASSUME NEW block \in held, NEW request \in Requests, GeneralPurposeRealloc(block, request)
      PROVE  IInv'
  <2> DEFINE r == Allocated(heap, AllocSize(request))
             H == held \union {r.block}
             g == Freed(r.heap, block)
  <2>1. /\ r.block # Null /\ heap' = g /\ held' = (held \ {block}) \union {r.block}
        /\ owners' = GivenBack(r.heap, block, HandedOut(r.heap, r.block, owners))
    BY <1>3 DEF GeneralPurposeRealloc
  <2>2. /\ r.block \in Units \ held
        /\ \E E : Tiles(r.heap, E, H)
        /\ HandedOut(r.heap, r.block, owners) = OwnersOf(r.heap, H)
    BY <2>1, AllocKeeps
  <2>3. held' = H \ {block} /\ block \in H
    BY <2>1, <2>2
  <2> HIDE DEF r, H
  <2>4. PICK E : Tiles(r.heap, E, H)
    BY <2>2
  <2>5. SizesKept(r.heap, g, Units) /\ \E X : Tiles(g, X, H \ {block})
    BY <2>3, <2>4, FreedTiles
  <2> HIDE DEF g
  <2>6. GivenBack(r.heap, block, OwnersOf(r.heap, H)) = OwnersOf(g, H \ {block})
    BY <2>3, <2>4, <2>5, GivenBackOwners
  <2>7. (\E X : Tiles(heap', X, held')) /\ owners' = OwnersOf(heap', held')
    BY <2>1, <2>2, <2>3, <2>5, <2>6
  <2> QED BY <2>7 DEF IInv, Tiles, OwnersOf
<1>4. CASE GeneralPurposeClearAll
  <2>1. heap.node \in [Units -> MemNode]
    BY DEF IInv, Tiles, HeapType
  <2>2. heap' = EmptyHeap(heap.node) /\ held' = {} /\ owners' = [u \in Units |-> 0]
    BY <1>4 DEF GeneralPurposeClearAll
  <2>3. Tiles(heap', {}, held') /\ owners' = OwnersOf(heap', held')
    BY <2>1, <2>2, EmptyTiles
  <2> QED BY <2>3 DEF IInv, Tiles, OwnersOf
<1>5. CASE UNCHANGED vars
  BY <1>5 DEF vars, IInv, Tiles, OwnersOf
<1>6. CASE \E request \in Requests : OutOfMemory(request)
  BY <1>5, <1>6 DEF OutOfMemory
<1> QED BY <1>1, <1>2, <1>3, <1>4, <1>5, <1>6 DEF Next

LEMMA Invariant == BucketsOnly => (Spec => []IInv)
<1> SUFFICES ASSUME BucketsOnly PROVE Spec => []IInv
  OBVIOUS
<1>1. IInv /\ [Next]_vars => IInv'
  BY NextIInv
<1> QED BY <1>1, InitIInv, PTL DEF Spec

\* The heap's links and sizes stay in the buffer while requests go to the buckets.
THEOREM HeapTypeCorrect == BucketsOnly => (Spec => []TypeOK)
<1>1. IInv => TypeOK
  BY DEF IInv, Tiles, HeapType, TypeOK, OwnersOf
<1> QED BY <1>1, Invariant, PTL

\* No memory is lost and none is in two places, in heaps of any size and after any
\* calls, while requests go to the buckets: blocks are taken from their lists, put back
\* at their place by InsertMemNode, and merged into the buffer when Offset reaches them.
THEOREM NoMemoryIsLost == BucketsOnly => (Spec => []EachUnitInOnePlace)
<1>1. IInv => EachUnitInOnePlace
  <2> SUFFICES ASSUME IInv, NEW u \in Units
               PROVE  owners[u] + Cardinality(FreeBlocksAt(u)) = IF u < heap.Offset THEN 0 ELSE 1
    BY DEF EachUnitInOnePlace
  <2>1. PICK D : Tiles(heap, D, held)
    BY DEF IInv
  <2>2. \A list \in Lists : NodesOf(heap, list) = InList(heap, D, list)
    <3>1. ASSUME NEW list \in Lists
          PROVE  InList(heap, D, list) \in SUBSET Units /\ ListIs(heap, list, InList(heap, D, list))
      BY <2>1 DEF Tiles, Listed, InList
    <3>2. heap \in HeapType
      BY <2>1 DEF Tiles
    <3> QED BY <3>1, <3>2, NodesAre
  <2>3. \A x : x \in FreeBlocksAt(u)
                 <=> \E n \in D : u \in Extent(heap, n) /\ x = <<ListOf(heap.node[n].Size), n>>
    <3>1. \A n \in D : ListOf(heap.node[n].Size) \in Lists
      BY <2>1, BlockFacts
    <3>2. \A x : x \in FreeBlocksAt(u)
                   <=> \E list \in Lists : \E n \in NodesOf(heap, list) :
                         u \in Extent(heap, n) /\ x = <<list, n>>
      BY DEF FreeBlocksAt
    <3> QED BY <2>2, <3>1, <3>2 DEF InList
  <2>4. owners[u] = IF \E b \in held : u \in Extent(heap, b) THEN 1 ELSE 0
    BY DEF IInv, OwnersOf
  <2>5. heap.Offset \in Nat /\ u \in Nat
    BY <2>1, BlockFacts, SizeFacts
  <2>6. CASE u < heap.Offset
    <3>1. \A b \in D \union held : u \notin Extent(heap, b)
      <4> SUFFICES ASSUME NEW b \in D \union held, u \in Extent(heap, b) PROVE FALSE
        OBVIOUS
      <4>1. heap.Offset <= b /\ b \in Nat /\ heap.node[b].Size \in Nat
        BY <2>1, BlockFacts
      <4>2. b <= u
        BY <2>5, <4>1 DEF Extent
      <4> QED BY <2>5, <2>6, <4>1, <4>2
    <3>2. FreeBlocksAt(u) = {} /\ owners[u] = 0
      BY <2>3, <2>4, <3>1
    <3> QED BY <2>6, <3>2, FS_EmptySet
  <2>7. CASE ~ u < heap.Offset
    <3>1. PICK b \in D \union held : u \in Extent(heap, b)
      <4>1. heap.Offset <= u
        BY <2>5, <2>7
      <4>2. PICK b \in D \union held : b <= u /\ u < b + heap.node[b].Size
        BY <2>1, <4>1, BlockFacts
      <4>3. b \in Nat /\ heap.node[b].Size \in Nat
        BY <2>1, BlockFacts
      <4>4. u \in Extent(heap, b)
        BY <2>5, <4>2, <4>3 DEF Extent
      <4> QED BY <4>4
    <3>2. \A a \in D \union held : u \in Extent(heap, a) => a = b
      BY <2>1, <3>1, ExtentsApart
    <3>3. D \intersect held = {}
      BY <2>1 DEF Tiles
    <3>4. CASE b \in held
      <4>1. FreeBlocksAt(u) = {} /\ owners[u] = 1
        BY <2>3, <2>4, <3>1, <3>2, <3>3, <3>4
      <4> QED BY <2>7, <4>1, FS_EmptySet
    <3>5. CASE b \in D
      <4> DEFINE x == <<ListOf(heap.node[b].Size), b>>
      <4>1. x \in FreeBlocksAt(u) /\ \A y \in FreeBlocksAt(u) : y = x
        BY <2>3, <3>1, <3>2, <3>5
      <4>2. owners[u] = 0
        BY <2>4, <3>2, <3>3, <3>5
      <4> HIDE DEF x
      <4>3. FreeBlocksAt(u) = {x}
        BY <4>1
      <4>4. Cardinality(FreeBlocksAt(u)) = 1
        BY <4>3, FS_Singleton
      <4> QED BY <2>7, <4>2, <4>4
    <3> QED BY <3>1, <3>4, <3>5
  <2> QED BY <2>6, <2>7
<1> QED BY <1>1, Invariant, PTL

\* A block can be unlinked wherever it is: the lists stay in ascending order, and
\* linked the same way forward and backward, while requests go to the buckets.
THEOREM LinksAgree == BucketsOnly => (Spec => []ListsLinked)
<1>1. IInv => ListsLinked
  <2> SUFFICES ASSUME IInv, NEW list \in Lists, NEW n \in NodesOf(heap, list), heap.node[n].Next # Null
               PROVE  heap.node[n].Next > n /\ heap.node[heap.node[n].Next].Prev = n
    BY DEF ListsLinked
  <2>1. PICK D : Tiles(heap, D, held)
    BY DEF IInv
  <2> DEFINE F == InList(heap, D, list)
             next == heap.node[n].Next
             prev == heap.node[next].Prev
  <2>2. F \in SUBSET Units /\ ListIs(heap, list, F) /\ heap \in HeapType
    BY <2>1 DEF Tiles, Listed, InList
  <2> HIDE DEF F
  <2>3. n \in F
    BY <2>2, NodesAre
  <2>4. IsNext(F, n, next) /\ next # Null
    BY <2>2, <2>3 DEF ListIs
  <2> HIDE DEF next
  <2>5. next \in F /\ n < next /\ \A z \in F : z <= n \/ next <= z
    BY <2>4 DEF IsNext
  <2>6. IsPrev(F, next, prev)
    BY <2>2, <2>5 DEF ListIs
  <2> HIDE DEF prev
  <2>7. \A z \in F : z \in Nat
    BY <2>2, SizeFacts
  <2>8. prev # Null
    <3> SUFFICES ASSUME prev = Null PROVE FALSE
      OBVIOUS
    <3>1. next <= n
      BY <2>3, <2>6 DEF IsPrev
    <3> QED BY <2>3, <2>5, <2>7, <3>1
  <2>9. prev \in F /\ prev < next /\ (n <= prev \/ next <= n)
    BY <2>3, <2>6, <2>8 DEF IsPrev
  <2>10. prev = n
    <3>1. prev <= n \/ next <= prev
      BY <2>5, <2>9
    <3> QED BY <2>3, <2>5, <2>7, <2>9, <3>1
  <2>11. next > n
    BY <2>3, <2>5, <2>7
  <2> QED BY <2>10, <2>11 DEF next, prev
<1> QED BY <1>1, Invariant, PTL

\* No memory is handed out twice while requests go to the buckets: what the run on
\* Large shows is a fault of that list alone.
THEOREM BucketsOwnOnce == BucketsOnly => (Spec => []OwnedOnce)
<1>1. IInv => OwnedOnce
  BY DEF IInv, OwnersOf, OwnedOnce
<1> QED BY <1>1, Invariant, PTL
=============================================================================

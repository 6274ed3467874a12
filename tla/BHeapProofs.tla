---------------------------- MODULE BHeapProofs ----------------------------
(***************************************************************************)
(* The binary heap stays inside its array and implements PriorityQueues    *)
(* for every capacity, every set of keys and every ranking, whether the    *)
(* addresses of keys tell their rank or not.                               *)
(*                                                                         *)
(* Inside, the types with where the moving item can be, is inductive by    *)
(* itself.  HeapOrder speaks of the time between two calls; with it goes   *)
(* MovingOrder: while an item moves, only it is out of place, and its      *)
(* parent is in order with its children, so that they may change places.   *)
(* Both are kept while told, which says that the keys among which an item  *)
(* sinks have addresses in the order of their ranks; a heap that has lost  *)
(* its order is in order again when it is empty, and not before.           *)
(*                                                                         *)
(* The queue of PriorityQueues is the bag of live items: an exchange of    *)
(* two slots does not change it, a pop takes the root out of it, and the   *)
(* root of a heap in order comes before all others.                        *)
(***************************************************************************)
EXTENDS BHeap, RingArithmetic, FiniteSetTheorems, TLAPS

\* Every live slot holds a key.
Filled == \A i \in Live : Items[i] \in Keys

\* Where the moving item can be.
MovingInside ==
  /\ pc = "idle" => index = 0
  /\ pc = "rise" => Count < Capacity /\ index <= Count
  /\ pc = "sink" => index = 0 \/ index < Count

Inside == TypeOK /\ Filled /\ MovingInside

\* An item sinks among keys whose addresses tell their rank.
SinksTold == told /\ pc = "sink" => PointersTellRank

IInv == Inside /\ HeapOrder /\ MovingOrder /\ SinksTold

-----------------------------------------------------------------------------
(* Parents, children and the order of ranks. *)

\* Push's parent and Heapify's children are inverse to each other.
LEMMA ParentOfChild ==
  ASSUME NEW c \in Nat \ {0}
  PROVE  /\ Parent(c) \in Nat /\ Parent(c) < c
         /\ \A i \in Nat : Parent(c) = i <=> c = 2 * i + 1 \/ c = 2 * i + 2
BY DEF Parent

\* The order of the heap is a total preorder of keys.
LEMMA Preorder ==
  ASSUME NEW a \in Keys, NEW b \in Keys, NEW c \in Keys,
         side \in {"min", "max"}
  PROVE  /\ NotAfter(a, a)
         /\ NotAfter(a, b) \/ NotAfter(b, a)
         /\ NotAfter(a, b) /\ NotAfter(b, c) => NotAfter(a, c)
BY RankAssumption DEF NotAfter

\* An item that goes above its parent is not after it, and one that does not
\* leaves it not after itself.
LEMMA Compared ==
  ASSUME NEW a \in Keys, NEW b \in Keys
  PROVE  IF GoesAbove(a, b) THEN NotAfter(a, b) ELSE NotAfter(b, a)
BY RankAssumption DEF NotAfter, GoesAbove

\* Comparing pointers puts keys in the order of their ranks.
LEMMA PointersCompared ==
  ASSUME PointersTellRank, side \in {"min", "max"},
         NEW i \in Live, NEW j \in Live, Items[i] \in Keys, Items[j] \in Keys
  PROVE  IF KeyBefore(i, j) THEN NotAfter(Items[i], Items[j])
                            ELSE NotAfter(Items[j], Items[i])
<1>1. Items[i] \in Nat /\ Items[j] \in Nat
      /\ Rank[Items[i]] \in Nat /\ Rank[Items[j]] \in Nat
  BY KeysAreAddresses, RankAssumption
<1>2. /\ Items[i] < Items[j] => Rank[Items[i]] <= Rank[Items[j]]
      /\ Items[j] < Items[i] => Rank[Items[j]] <= Rank[Items[i]]
      /\ Items[i] = Items[j] => Rank[Items[j]] <= Rank[Items[i]]
  BY <1>1 DEF PointersTellRank
<1> QED BY <1>1, <1>2 DEF KeyBefore, NotAfter

\* What every step starts from, in a form the steps can use.
LEMMA Facts ==
  ASSUME Inside
  PROVE  /\ Capacity \in Nat /\ Count \in Nat /\ Count <= Capacity
         /\ index \in Nat /\ index < Capacity
         /\ side \in {"min", "max"}
         /\ DOMAIN Items = 0 .. Capacity - 1
         /\ Live = IF pc = "rise" THEN 0 .. Count ELSE 0 .. Count - 1
         /\ Live \subseteq 0 .. Capacity - 1
         /\ \A i \in Live : Items[i] \in Keys
BY CapacityAssumption DEF Inside, TypeOK, MovingInside, Filled, Live

\* The first of an item and its children is one of them, and not after any.
LEMMA FirstIsFirst ==
  ASSUME PointersTellRank, Inside, pc = "sink", 2 * index + 1 < Count,
         NEW m, m = FirstOfThree(index)
  PROVE  /\ m \in {index, 2 * index + 1, 2 * index + 2} /\ m < Count
         /\ NotAfter(Items[m], Items[index])
         /\ \A c \in {2 * index + 1, 2 * index + 2} :
              c < Count => NotAfter(Items[m], Items[c])
<1> DEFINE left == 2 * index + 1
           right == 2 * index + 2
           first == IF KeyBefore(left, index) THEN left ELSE index
<1>1. /\ index \in Nat /\ Count \in Nat /\ side \in {"min", "max"}
      /\ left \in 0 .. Count - 1 /\ index \in 0 .. Count - 1
  BY DEF Inside, TypeOK
<1>2. \A i \in 0 .. Count - 1 : i \in Live /\ Items[i] \in Keys
  BY DEF Inside, Filled, Live
<1>3. m = IF right < Count /\ KeyBefore(right, first) THEN right ELSE first
  BY DEF FirstOfThree
<1>4. first \in {index, left} /\ first \in 0 .. Count - 1
  BY <1>1
<1>5. NotAfter(Items[first], Items[index]) /\ NotAfter(Items[first], Items[left])
  <2>1. CASE KeyBefore(left, index)
    BY <1>1, <1>2, <2>1, PointersCompared, Preorder
  <2>2. CASE ~ KeyBefore(left, index)
    BY <1>1, <1>2, <2>2, PointersCompared, Preorder
  <2> QED BY <2>1, <2>2
<1> HIDE DEF first
<1>6. CASE right < Count
  <2>1. right \in 0 .. Count - 1
    BY <1>1, <1>6
  <2>2. CASE KeyBefore(right, first)
    <3>1. m = right /\ NotAfter(Items[right], Items[first])
      BY <1>1, <1>2, <1>3, <1>4, <1>6, <2>1, <2>2, PointersCompared
    <3>2. /\ NotAfter(Items[right], Items[index])
          /\ NotAfter(Items[right], Items[left])
          /\ NotAfter(Items[right], Items[right])
      BY <1>1, <1>2, <1>4, <1>5, <2>1, <3>1, Preorder
    <3> QED BY <1>6, <3>1, <3>2
  <2>3. CASE ~ KeyBefore(right, first)
    <3>1. m = first /\ NotAfter(Items[first], Items[right])
      BY <1>1, <1>2, <1>3, <1>4, <2>1, <2>3, PointersCompared
    <3> QED BY <1>1, <1>4, <1>5, <3>1
  <2> QED BY <2>2, <2>3
<1>7. CASE ~ right < Count
  <2>1. m = first
    BY <1>3, <1>7
  <2> QED BY <1>1, <1>4, <1>5, <1>7, <2>1
<1> QED BY <1>6, <1>7

\* NoneBeforeItsParent, told from the children's side.
LEMMA OrderByParent ==
  ASSUME Count \in Nat, pc = "idle"
  PROVE  NoneBeforeItsParent <=> \A c \in (0 .. Count - 1) \ {0} :
                          NotAfter(Items[Parent(c)], Items[c])
<1>1. ASSUME NoneBeforeItsParent, NEW c \in (0 .. Count - 1) \ {0}
      PROVE  NotAfter(Items[Parent(c)], Items[c])
  <2>1. Parent(c) \in 0 .. Count - 1 /\ c \in Children(Parent(c))
    BY ParentOfChild DEF Children
  <2> QED BY <1>1, <2>1 DEF NoneBeforeItsParent
<1>2. ASSUME \A c \in (0 .. Count - 1) \ {0} : NotAfter(Items[Parent(c)], Items[c])
      PROVE  NoneBeforeItsParent
  <2> SUFFICES ASSUME NEW i \in 0 .. Count - 1, NEW c \in Children(i)
               PROVE  NotAfter(Items[i], Items[c])
    BY DEF NoneBeforeItsParent
  <2>1. c \in (0 .. Count - 1) \ {0} /\ Parent(c) = i
    BY ParentOfChild DEF Children
  <2> QED BY <1>2, <2>1
<1> QED BY <1>1, <1>2

-----------------------------------------------------------------------------
(* The initial state and the steps. *)

LEMMA InitIInv == Init => IInv
<1> SUFFICES ASSUME Init PROVE IInv
  OBVIOUS
<1>1. TypeOK
  BY CapacityAssumption DEF Init, TypeOK
<1>2. Filled /\ HeapOrder
  BY DEF Init, Filled, Live, HeapOrder, NoneBeforeItsParent
<1>3. MovingOrder /\ SinksTold
  BY DEF Init, MovingOrder, OneOutOfPlace, SinksTold
<1> QED BY <1>1, <1>2, <1>3 DEF IInv, Inside, Init, MovingInside

\* Where things are does not depend on how the keys compare.
LEMMA InsideStep ==
  ASSUME Inside, [Next]_vars
  PROVE  Inside'
<1>1. ASSUME NEW key \in Keys, Push(key) PROVE Inside'
  <2>1. /\ pc = "idle" /\ pc' = "rise" /\ Count < Capacity /\ Count' = Count
        /\ index' = Count /\ side' = side
        /\ Items' = [Items EXCEPT ![Count] = key]
    BY <1>1, Facts DEF Push
  <2>2. Live = 0 .. Count - 1 /\ Live' = 0 .. Count
    BY <2>1, Facts DEF Live
  <2>3. TypeOK'
    BY <1>1, <2>1, Facts DEF Inside, TypeOK, Push
  <2>4. Filled' /\ MovingInside'
    BY <1>1, <2>1, <2>2, Facts DEF Filled, MovingInside
  <2> QED BY <2>3, <2>4 DEF Inside
<1>2. CASE Rise
  <2> DEFINE p == Parent(index)
  <2>1. /\ pc = "rise" /\ pc' = "rise" /\ Count' = Count /\ index' = p
        /\ Items' = [Items EXCEPT ![index] = Items[p], ![p] = Items[index]]
        /\ index \in Nat \ {0} /\ index <= Count /\ Count < Capacity
        /\ Count \in Nat
    BY <1>2, Facts DEF Rise, MayRise, Inside, MovingInside
  <2>2. p \in Nat /\ p < index
    BY <2>1, ParentOfChild
  <2>3. Live = 0 .. Count /\ Live' = 0 .. Count
    BY <2>1 DEF Live
  <2>4. Items[index] \in Keys /\ Items[p] \in Keys
    BY <2>1, <2>2, <2>3, Facts
  <2> HIDE DEF p
  <2>5. TypeOK'
    BY <1>2, <2>1, <2>2, <2>4, Facts DEF Inside, TypeOK, Rise
  <2>6. Filled' /\ MovingInside'
    BY <2>1, <2>2, <2>3, <2>4, Facts DEF Filled, MovingInside
  <2> QED BY <2>5, <2>6 DEF Inside
<1>3. CASE Risen
  <2>1. pc = "rise" /\ Count < Capacity /\ Count \in Nat
    BY <1>3, Facts DEF Risen, Inside, MovingInside
  <2>2. TypeOK' /\ MovingInside'
    BY <1>3, <2>1, CapacityAssumption DEF Inside, TypeOK, MovingInside, Risen
  <2>3. Live = 0 .. Count /\ Live' = 0 .. Count
    BY <1>3, <2>1 DEF Risen, Live
  <2> QED BY <1>3, <2>2, <2>3, Facts DEF Risen, Inside, Filled
<1>4. CASE Pop
  <2>1. /\ pc = "idle" /\ pc' = "sink" /\ index = 0 /\ index' = 0
        /\ Count \in Nat \ {0} /\ Count <= Capacity /\ Count' = Count - 1
        /\ Items' = [Items EXCEPT ![0] = Items[Count - 1]]
    BY <1>4, Facts DEF Pop, Inside, MovingInside
  <2>2. Live = 0 .. Count - 1 /\ Live' = 0 .. Count - 2
    BY <2>1 DEF Live
  <2>3. Items[0] \in Keys /\ Items[Count - 1] \in Keys
    BY <2>1, <2>2, Facts
  <2>4. TypeOK'
    BY <1>4, <2>1, <2>3, Facts DEF Inside, TypeOK, Pop
  <2>5. Filled' /\ MovingInside'
    BY <2>1, <2>2, <2>3, Facts DEF Filled, MovingInside
  <2> QED BY <2>4, <2>5 DEF Inside
<1>5. CASE Sink
  <2> DEFINE m == FirstOfThree(index)
  <2>1. /\ pc = "sink" /\ pc' = "sink" /\ Count' = Count /\ index' = m
        /\ 2 * index + 1 < Count
        /\ Items' = [Items EXCEPT ![index] = Items[m], ![m] = Items[index]]
    BY <1>5 DEF Sink, MaySink
  <2>2. m \in {index, 2 * index + 1, 2 * index + 2} /\ m < Count
    BY <2>1, Facts DEF FirstOfThree
  <2> HIDE DEF m
  <2>3. index \in Nat /\ Count \in Nat /\ Count <= Capacity /\ m \in Nat
    BY <2>2, Facts
  <2>4. Live = 0 .. Count - 1 /\ Live' = 0 .. Count - 1
    BY <2>1 DEF Live
  <2>5. Items[index] \in Keys /\ Items[m] \in Keys
    BY <2>1, <2>2, <2>3, <2>4, Facts
  <2>6. TypeOK'
    BY <1>5, <2>1, <2>2, <2>3, <2>5, Facts DEF Inside, TypeOK, Sink
  <2>7. Filled' /\ MovingInside'
    BY <2>1, <2>2, <2>3, <2>4, <2>5, Facts DEF Filled, MovingInside
  <2> QED BY <2>6, <2>7 DEF Inside
<1>6. CASE Sunk
  BY <1>6, CapacityAssumption
     DEF Sunk, Inside, TypeOK, Filled, Live, MovingInside
<1>7. CASE PopEmpty \/ UNCHANGED vars
  BY <1>7 DEF PopEmpty, vars, Inside, TypeOK, Filled, Live, MovingInside
<1>8. CASE BHeapClear
  BY <1>8, Facts DEF BHeapClear, Inside, TypeOK, Filled, Live, MovingInside
<1> QED BY <1>1, <1>2, <1>3, <1>4, <1>5, <1>6, <1>7, <1>8 DEF Next

LEMMA PushStep ==
  ASSUME Inside, NoneBeforeItsParent, OneOutOfPlace, NEW key \in Keys, Push(key)
  PROVE  NoneBeforeItsParent' /\ OneOutOfPlace'
<1>1. /\ pc = "idle" /\ pc' = "rise" /\ Count < Capacity /\ Count' = Count
      /\ index' = Count /\ side' = side
      /\ Items' = [Items EXCEPT ![Count] = key]
  BY Facts DEF Push
<1>2. /\ Items'[Count] = key
      /\ \A i \in 0 .. Count - 1 : Items'[i] = Items[i]
  BY <1>1, Facts
<1>3. Live = 0 .. Count - 1 /\ Live' = 0 .. Count
  BY <1>1, Facts DEF Live
<1>6. NoneBeforeItsParent'
  BY <1>1, Facts DEF NoneBeforeItsParent
<1>7. ASSUME NEW c \in Live' \ {0, index'}
      PROVE  NotAfter(Items[Parent(c)], Items[c])' /\ Parent(c) # index'
  <2>1. /\ c \in (0 .. Count - 1) \ {0}
        /\ Parent(c) \in 0 .. Count - 1
    <3>1. c \in Nat \ {0} /\ c < Count
      BY <1>1, <1>3, <1>7, Facts
    <3> QED BY <3>1, Facts, ParentOfChild
  <2>2. NotAfter(Items[Parent(c)], Items[c])
    BY <1>1, <2>1, Facts, OrderByParent
  <2> QED BY <1>1, <1>2, <2>1, <2>2, Facts DEF NotAfter, Parent
<1>8. ASSUME index' # 0 PROVE Parent(index') # index'
  BY <1>1, <1>8, Facts, ParentOfChild
<1>9. OneOutOfPlace'
  BY <1>1, <1>7, <1>8 DEF OneOutOfPlace
<1> QED BY <1>6, <1>9

LEMMA RiseStep ==
  ASSUME Inside, NoneBeforeItsParent, OneOutOfPlace, Rise
  PROVE  NoneBeforeItsParent' /\ OneOutOfPlace'
<1> DEFINE p == Parent(index)
           cur == Items[index]
           par == Items[p]
<1>1. /\ pc = "rise" /\ pc' = "rise" /\ Count' = Count /\ side' = side
      /\ index > 0 /\ GoesAbove(cur, par) /\ index' = p
      /\ Items' = [Items EXCEPT ![index] = par, ![p] = cur]
  BY DEF Rise, MayRise
<1>2. /\ index \in Nat \ {0} /\ index <= Count /\ Count < Capacity
      /\ Count \in Nat
  BY <1>1, Facts DEF Inside, MovingInside
<1>3. p \in Nat /\ p < index
  BY <1>2, ParentOfChild
<1>4. Live = 0 .. Count /\ Live' = 0 .. Count
  BY <1>1 DEF Live
<1>5. index \in Live /\ p \in Live /\ cur \in Keys /\ par \in Keys
  BY <1>2, <1>3, <1>4, Facts
<1>6. /\ Items'[index] = par /\ Items'[p] = cur
      /\ \A i \in Live \ {index, p} : Items'[i] = Items[i]
  BY <1>1, <1>3, <1>5, Facts
<1>7. NotAfter(cur, par)
  BY <1>1, <1>5, Compared
<1>10. NoneBeforeItsParent'
  BY <1>1, <1>2, <1>3 DEF NoneBeforeItsParent
<1> HIDE DEF p, cur, par
\* Where the parent of an item of the heap is, and what was known of it.
<1>11. ASSUME NEW c \in Live \ {0}
       PROVE  /\ c \in Nat \ {0} /\ Parent(c) \in Live /\ Parent(c) < c
              /\ Items[c] \in Keys /\ Items[Parent(c)] \in Keys
              /\ c # index => NotAfter(Items[Parent(c)], Items[c])
              /\ Parent(c) = index => NotAfter(par, Items[c])
  <2>1. c \in Nat \ {0} /\ c <= Count
    BY <1>4, <1>11, Facts
  <2>2. Parent(c) \in Nat /\ Parent(c) < c
    BY <2>1, ParentOfChild
  <2>3. Parent(c) \in Live
    BY <1>2, <1>4, <2>1, <2>2
  <2>4. Items[c] \in Keys /\ Items[Parent(c)] \in Keys
    BY <1>11, <2>3, Facts
  <2>5. /\ c # index => NotAfter(Items[Parent(c)], Items[c])
        /\ Parent(c) = index => NotAfter(par, Items[c])
    BY <1>1, <1>2, <1>11 DEF OneOutOfPlace, par, p
  <2> QED BY <2>1, <2>2, <2>3, <2>4, <2>5
<1>12. ASSUME NEW c \in Live \ {0, p}
       PROVE  NotAfter(Items'[Parent(c)], Items'[c])
  <2>1. CASE c = index
    BY <1>6, <1>7, <2>1 DEF p
  <2>2. CASE c # index /\ Parent(c) = index
    BY <1>3, <1>6, <1>11, <1>12, <2>2
  <2>3. CASE c # index /\ Parent(c) = p
    <3>1. NotAfter(par, Items[c])
      BY <1>11, <1>12, <2>3 DEF par
    <3>2. NotAfter(cur, Items[c])
      BY <1>5, <1>7, <1>11, <1>12, <3>1, Facts, Preorder
    <3> QED BY <1>6, <1>12, <2>3, <3>2
  <2>4. CASE c # index /\ Parent(c) # index /\ Parent(c) # p
    BY <1>6, <1>11, <1>12, <2>4
  <2> QED BY <2>1, <2>2, <2>3, <2>4
<1>13. ASSUME NEW c \in Live \ {0}, Parent(c) = p, p # 0
       PROVE  NotAfter(Items'[Parent(p)], Items'[c])
  <2>1. p \in Live \ {0} /\ Parent(p) \in Live /\ Parent(p) # p /\ Parent(p) # index
    BY <1>3, <1>5, <1>11, <1>13
  <2>2. Items'[Parent(p)] = Items[Parent(p)]
    BY <1>6, <2>1
  <2>3. NotAfter(Items[Parent(p)], par) /\ Items[Parent(p)] \in Keys
    BY <1>3, <1>11, <2>1 DEF par
  <2>4. CASE c = index
    BY <1>6, <2>2, <2>3, <2>4
  <2>5. CASE c # index
    <3>1. NotAfter(par, Items[c]) /\ Items[c] \in Keys
      BY <1>11, <1>13, <2>5 DEF par
    <3>2. NotAfter(Items[Parent(p)], Items[c])
      BY <1>5, <2>3, <3>1, Facts, Preorder
    <3>3. c # p
      BY <1>11, <1>13
    <3> QED BY <1>6, <1>13, <2>2, <2>5, <3>2, <3>3
  <2> QED BY <2>4, <2>5
<1>14. OneOutOfPlace'
  <2>1. \A c \in Live' \ {0, index'} : NotAfter(Items[Parent(c)], Items[c])'
    BY <1>1, <1>4, <1>12 DEF NotAfter, Parent
  <2>2. ASSUME NEW c \in Live' \ {0}, Parent(c) = index', index' # 0
        PROVE  NotAfter(Items[Parent(index)], Items[c])'
    BY <1>1, <1>4, <1>13, <2>2 DEF NotAfter, Parent
  <2> QED BY <1>1, <2>1, <2>2 DEF OneOutOfPlace, Parent
<1> QED BY <1>10, <1>14

LEMMA RisenStep ==
  ASSUME Inside, NoneBeforeItsParent, OneOutOfPlace, Risen
  PROVE  NoneBeforeItsParent' /\ OneOutOfPlace'
<1>1. /\ pc = "rise" /\ pc' = "idle" /\ Count' = Count + 1 /\ side' = side
      /\ index' = 0 /\ Items' = Items /\ ~ MayRise
  BY DEF Risen
<1>2. index \in Nat /\ index <= Count /\ Count < Capacity /\ Count \in Nat
  BY <1>1, Facts DEF Inside, MovingInside
<1>3. Live = 0 .. Count /\ Live' = 0 .. Count
  BY <1>1, <1>2 DEF Live
<1>5. OneOutOfPlace'
  BY <1>1, <1>3, Facts DEF OneOutOfPlace
<1>6. ASSUME NEW c \in (0 .. Count) \ {0}
      PROVE  NotAfter(Items[Parent(c)], Items[c])
  <2>1. CASE c # index
    BY <1>1, <1>3, <2>1 DEF OneOutOfPlace
  <2>2. CASE c = index
    <3>1. Parent(index) \in Nat /\ Parent(index) < index
      BY <1>2, <1>6, <2>2, ParentOfChild
    <3>2. Items[index] \in Keys /\ Items[Parent(index)] \in Keys
      BY <1>2, <1>3, <3>1, Facts
    <3>3. ~ GoesAbove(Items[index], Items[Parent(index)])
      BY <1>1, <1>2, <1>6, <2>2 DEF MayRise
    <3> QED BY <2>2, <3>2, <3>3, Compared
  <2> QED BY <2>1, <2>2
<1>7. NoneBeforeItsParent'
  <2> SUFFICES ASSUME NEW i \in 0 .. Count, NEW c \in Children(i)'
               PROVE  NotAfter(Items[i], Items[c])
    BY <1>1, <1>2 DEF NoneBeforeItsParent, NotAfter
  <2>1. c \in (0 .. Count) \ {0} /\ Parent(c) = i
    BY <1>1, <1>2, ParentOfChild DEF Children
  <2> QED BY <1>6, <2>1
<1> QED BY <1>5, <1>7

LEMMA PopStep ==
  ASSUME Inside, NoneBeforeItsParent, OneOutOfPlace, Pop
  PROVE  NoneBeforeItsParent' /\ OneOutOfPlace'
<1>1. /\ pc = "idle" /\ pc' = "sink" /\ Count > 0 /\ Count' = Count - 1
      /\ side' = side /\ index' = index
      /\ Items' = [Items EXCEPT ![0] = Items[Count - 1]]
  BY DEF Pop
<1>2. index = 0 /\ Count \in Nat \ {0} /\ Count <= Capacity /\ 0 < Capacity
  BY <1>1, Facts DEF Inside, MovingInside
<1>3. Live = 0 .. Count - 1 /\ Live' = 0 .. Count - 2
  BY <1>1, <1>2 DEF Live
<1>4. /\ Items'[0] = Items[Count - 1]
      /\ \A i \in Live \ {0} : Items'[i] = Items[i]
  BY <1>1, <1>2, <1>3, Facts
<1>8. NoneBeforeItsParent'
  BY <1>1, <1>2 DEF NoneBeforeItsParent
<1>9. ASSUME NEW c \in Live' \ {0}, Parent(c) # 0
      PROVE  NotAfter(Items'[Parent(c)], Items'[c])
  <2>1. c \in Live \ {0} /\ c \in Nat \ {0} /\ c < Count
    BY <1>2, <1>3, <1>9
  <2>2. Parent(c) \in Nat /\ Parent(c) < c
    BY <2>1, ParentOfChild
  <2>3. Parent(c) \in Live \ {0}
    BY <1>2, <1>3, <1>9, <2>1, <2>2
  <2>4. NotAfter(Items[Parent(c)], Items[c])
    BY <1>1, <1>2, <1>3, <2>1, OrderByParent
  <2> QED BY <1>4, <2>1, <2>3, <2>4
<1>10. OneOutOfPlace'
  BY <1>1, <1>2, <1>9 DEF OneOutOfPlace, NotAfter, Parent
<1> QED BY <1>8, <1>10

LEMMA SinkStep ==
  ASSUME PointersTellRank, Inside, NoneBeforeItsParent, OneOutOfPlace, Sink
  PROVE  NoneBeforeItsParent' /\ OneOutOfPlace'
<1> DEFINE m == FirstOfThree(index)
           cur == Items[index]
           child == Items[m]
<1>1. /\ pc = "sink" /\ pc' = "sink" /\ Count' = Count /\ side' = side
      /\ 2 * index + 1 < Count /\ m # index /\ index' = m
      /\ Items' = [Items EXCEPT ![index] = child, ![m] = cur]
  BY DEF Sink, MaySink
<1>2. index \in Nat /\ Count \in Nat /\ Count <= Capacity
  BY Facts
<1>3. /\ m \in {2 * index + 1, 2 * index + 2} /\ m < Count
      /\ NotAfter(child, cur)
      /\ \A c \in {2 * index + 1, 2 * index + 2} :
           c < Count => NotAfter(child, Items[c])
  BY <1>1, FirstIsFirst
<1> HIDE DEF m
<1>4. m \in Nat \ {0} /\ index < m /\ Parent(m) = index
  BY <1>2, <1>3, ParentOfChild
<1>5. Live = 0 .. Count - 1 /\ Live' = 0 .. Count - 1
  BY <1>1 DEF Live
<1>6. index \in Live /\ m \in Live /\ cur \in Keys /\ child \in Keys
  BY <1>2, <1>3, <1>4, <1>5, Facts
<1>7. /\ Items'[index] = child /\ Items'[m] = cur
      /\ \A i \in Live \ {index, m} : Items'[i] = Items[i]
  BY <1>1, <1>6, Facts
<1>10. NoneBeforeItsParent'
  BY <1>1, <1>2, <1>3, <1>4 DEF NoneBeforeItsParent
<1>11. ASSUME NEW c \in Live \ {0}
       PROVE  /\ c \in Nat \ {0} /\ Parent(c) \in Live /\ Parent(c) < c
              /\ Parent(c) # index => NotAfter(Items[Parent(c)], Items[c])
              /\ Parent(c) = index => NotAfter(child, Items[c])
              /\ Parent(c) = index /\ index # 0 =>
                   NotAfter(Items[Parent(index)], Items[c])
  <2>1. c \in Nat \ {0} /\ c < Count
    BY <1>2, <1>5, <1>11
  <2>2. Parent(c) \in Nat /\ Parent(c) < c
    BY <2>1, ParentOfChild
  <2>3. Parent(c) \in Live
    BY <1>2, <1>5, <2>1, <2>2
  <2>4. Parent(c) = index => c \in {2 * index + 1, 2 * index + 2}
    BY <1>2, <2>1, ParentOfChild
  <2>5. Parent(c) = index => NotAfter(child, Items[c])
    BY <1>3, <2>1, <2>4
  <2>6. /\ Parent(c) # index => NotAfter(Items[Parent(c)], Items[c])
        /\ Parent(c) = index /\ index # 0 =>
             NotAfter(Items[Parent(index)], Items[c])
    BY <1>1, <1>11 DEF OneOutOfPlace
  <2> QED BY <2>1, <2>2, <2>3, <2>5, <2>6
<1> HIDE DEF cur, child
<1>12. ASSUME NEW c \in Live \ {0}, Parent(c) # m
       PROVE  NotAfter(Items'[Parent(c)], Items'[c])
  <2>1. CASE c = m
    BY <1>3, <1>4, <1>7, <2>1
  <2>2. CASE c # m /\ Parent(c) = index
    BY <1>7, <1>11, <1>12, <2>2
  <2>3. CASE c = index
    <3>1. NotAfter(Items[Parent(index)], child)
      BY <1>4, <1>6, <1>11, <1>12, <2>3 DEF child
    <3>2. Parent(index) # index
      BY <1>11, <1>12, <2>3
    <3> QED BY <1>7, <1>11, <1>12, <2>3, <3>1, <3>2
  <2>4. CASE c # m /\ c # index /\ Parent(c) # index
    BY <1>7, <1>11, <1>12, <2>4
  <2> QED BY <2>1, <2>2, <2>3, <2>4
<1>13. ASSUME NEW c \in Live \ {0}, Parent(c) = m
       PROVE  NotAfter(Items'[Parent(m)], Items'[c])
  <2>1. NotAfter(child, Items[c]) /\ c # m /\ c # index
    BY <1>4, <1>11, <1>13 DEF child
  <2> QED BY <1>4, <1>7, <1>13, <2>1
<1>14. OneOutOfPlace'
  <2>1. \A c \in Live' \ {0} :
          Parent(c) # index' => NotAfter(Items[Parent(c)], Items[c])'
    BY <1>1, <1>5, <1>12 DEF NotAfter, Parent
  <2>2. ASSUME NEW c \in Live' \ {0}, Parent(c) = index'
        PROVE  NotAfter(Items[Parent(index)], Items[c])'
    BY <1>1, <1>5, <1>13, <2>2 DEF NotAfter, Parent
  <2> QED BY <1>1, <2>1, <2>2 DEF OneOutOfPlace, Parent
<1> QED BY <1>10, <1>14

LEMMA SunkStep ==
  ASSUME PointersTellRank, Inside, NoneBeforeItsParent, OneOutOfPlace, Sunk
  PROVE  NoneBeforeItsParent' /\ OneOutOfPlace'
<1>1. /\ pc = "sink" /\ pc' = "idle" /\ Count' = Count /\ side' = side
      /\ index' = 0 /\ Items' = Items /\ ~ MaySink
  BY DEF Sunk
<1>2. index \in Nat /\ Count \in Nat
  BY Facts
<1>3. Live = 0 .. Count - 1 /\ Live' = 0 .. Count - 1
  BY <1>1 DEF Live
<1>5. OneOutOfPlace'
  BY <1>1, <1>3, Facts DEF OneOutOfPlace
<1>6. ASSUME NEW c \in (0 .. Count - 1) \ {0}
      PROVE  NotAfter(Items[Parent(c)], Items[c])
  <2>1. CASE Parent(c) # index
    BY <1>1, <1>3, <2>1 DEF OneOutOfPlace
  <2>2. CASE Parent(c) = index
    <3>1. c \in {2 * index + 1, 2 * index + 2} /\ c < Count
      BY <1>2, <2>2, ParentOfChild
    <3>2. 2 * index + 1 < Count
      BY <1>2, <3>1
    <3>3. FirstOfThree(index) = index
      BY <1>1, <3>2 DEF MaySink
    <3> QED BY <1>1, <2>2, <3>1, <3>2, <3>3, FirstIsFirst
  <2> QED BY <2>1, <2>2
<1>7. NoneBeforeItsParent'
  <2> SUFFICES ASSUME NEW i \in 0 .. Count - 1, NEW c \in Children(i)'
               PROVE  NotAfter(Items[i], Items[c])
    BY <1>1, <1>2 DEF NoneBeforeItsParent, NotAfter
  <2>1. c \in (0 .. Count - 1) \ {0} /\ Parent(c) = i
    BY <1>1, <1>2, ParentOfChild DEF Children
  <2> QED BY <1>6, <2>1
<1> QED BY <1>5, <1>7

\* PopMax of an empty heap and BHeapClear move nothing; the fewer items are in
\* order as the more were.
LEMMA OtherSteps ==
  ASSUME Inside, NoneBeforeItsParent, OneOutOfPlace, PopEmpty \/ BHeapClear \/ UNCHANGED vars
  PROVE  NoneBeforeItsParent' /\ OneOutOfPlace'
<1>1. CASE PopEmpty
  BY <1>1 DEF PopEmpty, Live, NoneBeforeItsParent, Children, NotAfter, OneOutOfPlace
<1>2. CASE BHeapClear
  BY <1>2, Facts DEF BHeapClear, NoneBeforeItsParent, OneOutOfPlace
<1>3. CASE UNCHANGED vars
  BY <1>3 DEF vars, Live, NoneBeforeItsParent, Children, NotAfter, OneOutOfPlace
<1> QED BY <1>1, <1>2, <1>3

\* The keys of the items are those among which the step's item moves, so that a
\* heap that is told stays so, and one that is not is told when it is empty.
LEMMA ToldStep ==
  ASSUME Inside, SinksTold, [Next]_vars
  PROVE  SinksTold' /\ (told' => told \/ (Count' = 0 /\ pc' # "rise"))
<1>1. CASE Pop
  BY <1>1 DEF Pop, SinksTold
<1>2. CASE BHeapClear
  BY <1>2 DEF BHeapClear, SinksTold
<1>3. CASE Sink
  <2>1. told' = told /\ pc = "sink" /\ pc' = "sink"
    BY <1>3 DEF Sink
  <2>2. /\ 2 * index + 1 < Count /\ index \in Nat /\ Count \in Nat /\ Count' = Count
        /\ Items' = [Items EXCEPT ![index] = Items[FirstOfThree(index)], ![FirstOfThree(index)] = Items[index]]
    BY <1>3, Facts DEF Sink, MaySink
  <2>3. Live = 0 .. Count - 1 /\ Live' = Live
    BY <2>1, <2>2 DEF Live
  <2>4. PICK a \in Live, b \in Live : a = index /\ b = FirstOfThree(index)
    <3>1. index \in 0 .. Count - 1 /\ FirstOfThree(index) \in 0 .. Count - 1
      BY <2>2 DEF FirstOfThree
    <3> QED BY <2>3, <3>1
  <2>5. \A i \in Live : \E j \in Live : Items'[i] = Items[j]
    <3>1. Items' = [Items EXCEPT ![a] = Items[b], ![b] = Items[a]]
      BY <2>2, <2>4
    <3> QED BY <2>4, <3>1, Facts
  <2>6. ASSUME told' PROVE PointersTellRank'
    <3>1. PointersTellRank
      BY <2>1, <2>6 DEF SinksTold
    <3>2. ASSUME NEW i \in Live, NEW j \in Live, Items'[i] < Items'[j]
          PROVE  Rank[Items'[i]] <= Rank[Items'[j]]
      BY <2>5, <3>1, <3>2 DEF PointersTellRank
    <3> QED BY <2>3, <3>2 DEF PointersTellRank
  <2> QED BY <2>1, <2>6 DEF SinksTold
<1>4. CASE (\E key \in Keys : Push(key)) \/ Rise \/ Risen \/ PopEmpty \/ Sunk
  BY <1>4 DEF Push, Rise, Risen, PopEmpty, Sunk, SinksTold
<1>5. CASE UNCHANGED vars
  BY <1>5 DEF vars, SinksTold, PointersTellRank, Live
<1> QED BY <1>1, <1>2, <1>3, <1>4, <1>5 DEF Next

LEMMA IInvStep ==
  ASSUME IInv, [Next]_vars
  PROVE  IInv'
<1>1. Inside /\ HeapOrder /\ MovingOrder /\ SinksTold
  BY DEF IInv
<1>2. Inside' /\ SinksTold' /\ (told' => told \/ (Count' = 0 /\ pc' # "rise"))
  BY <1>1, InsideStep, ToldStep
<1>3. HeapOrder' /\ MovingOrder'
  <2>1. CASE told
    <3>1. NoneBeforeItsParent /\ OneOutOfPlace
      BY <1>1, <2>1 DEF HeapOrder, MovingOrder
    <3>2. Sink \/ Sunk => PointersTellRank
      BY <1>1, <2>1 DEF SinksTold, Sink, Sunk
    <3>3. NoneBeforeItsParent' /\ OneOutOfPlace'
      BY <1>1, <3>1, <3>2, PushStep, RiseStep, RisenStep, PopStep, SinkStep, SunkStep,
         OtherSteps DEF Next
    <3> QED BY <3>3 DEF HeapOrder, MovingOrder
  <2>2. CASE Count' = 0 /\ pc' # "rise"
    <3>1. NoneBeforeItsParent'
      BY <2>2 DEF NoneBeforeItsParent
    <3>2. OneOutOfPlace'
      BY <2>2 DEF OneOutOfPlace, Live
    <3> QED BY <3>1, <3>2 DEF HeapOrder, MovingOrder
  <2>3. CASE ~ told'
    BY <2>3 DEF HeapOrder, MovingOrder
  <2> QED BY <1>2, <2>1, <2>2, <2>3
<1> QED BY <1>2, <1>3 DEF IInv

-----------------------------------------------------------------------------
(* The theorems. *)

\* The array and its indices stay within the capacity, for every capacity and
\* however the addresses of keys compare.
THEOREM BHeapTypeOK == Spec => []TypeOK
<1>1. Init => Inside
  BY InitIInv DEF IInv
<1>2. Inside /\ [Next]_vars => Inside'
  BY InsideStep
<1>3. Inside => TypeOK
  BY DEF Inside
<1> QED BY <1>1, <1>2, <1>3, PTL DEF Spec

\* Between calls no item comes before its parent, for every capacity, set of
\* keys and ranking, until a pop leaves keys whose addresses do not tell their rank.
THEOREM BHeapOrdered == Spec => []HeapOrder
<1>1. Init => IInv
  BY InitIInv
<1>2. IInv /\ [Next]_vars => IInv'
  BY IInvStep
<1>3. IInv => HeapOrder
  BY DEF IInv
<1> QED BY <1>1, <1>2, <1>3, PTL DEF Spec

\* While an item moves, only it is out of place, and its parent is in order with its
\* children: what lets a push and a pop put the heap in order in one path, again until
\* a pop leaves keys whose addresses do not tell their rank.
THEOREM BHeapMovingOrder == Spec => []MovingOrder
<1>1. Init => IInv
  BY InitIInv
<1>2. IInv /\ [Next]_vars => IInv'
  BY IInvStep
<1>3. IInv => MovingOrder
  BY DEF IInv
<1> QED BY <1>1, <1>2, <1>3, PTL DEF Spec

-----------------------------------------------------------------------------
(* The heap as a bag of keys. *)

\* The root comes first of all items: otherwise the one nearest to it that comes
\* before it would have a parent that does not.
LEMMA RootComesFirst ==
  ASSUME Inside, NoneBeforeItsParent, pc = "idle", NEW i \in Live
  PROVE  NotAfter(Items[0], Items[i])
<1> DEFINE T == {j \in Live : ~ NotAfter(Items[0], Items[j])}
<1>1. Live = 0 .. Count - 1 /\ Count \in Nat /\ Count > 0 /\ 0 \in Live
  BY Facts
<1> SUFFICES ASSUME T # {} PROVE FALSE
  OBVIOUS
<1>2. PICK x \in T : \A y \in T : ~ y < x
  <2>1. T \subseteq Nat
    BY <1>1
  <2> HIDE DEF T
  <2> QED BY <2>1, LeastNat
<1>3. x \in 0 .. Count - 1 /\ x # 0
  BY <1>1, Facts, Preorder
<1>4. Parent(x) \in Nat /\ Parent(x) < x /\ Parent(x) \in Live
  BY <1>1, <1>3, ParentOfChild
<1>5. NotAfter(Items[0], Items[Parent(x)])
  BY <1>2, <1>4
<1>6. NotAfter(Items[Parent(x)], Items[x])
  BY <1>1, <1>3, OrderByParent
<1>7. Items[0] \in Keys /\ Items[x] \in Keys /\ Items[Parent(x)] \in Keys
  BY <1>1, <1>4, Facts
<1> QED BY <1>5, <1>6, <1>7, Facts, Preorder

\* Where f has the value k.
Where(S, f, k) == {i \in S : f[i] = k}

\* Two items that change places are still there.
LEMMA SwapKeeps ==
  ASSUME NEW S, IsFiniteSet(S), NEW f, NEW g, NEW a \in S, NEW b \in S, NEW k,
         g[a] = f[b], g[b] = f[a], \A i \in S \ {a, b} : g[i] = f[i]
  PROVE  Cardinality(Where(S, g, k)) = Cardinality(Where(S, f, k))
<1> DEFINE X == {i \in S : g[i] = k}
           Y == {i \in S : f[i] = k}
           h == [i \in X |-> IF i = a THEN b ELSE IF i = b THEN a ELSE i]
<1>1. h \in Bijection(X, Y)
  <2>1. h \in [X -> Y]
    OBVIOUS
  <2>2. \A i, j \in X : h[i] = h[j] => i = j
    OBVIOUS
  <2>3. ASSUME NEW j \in Y PROVE \E i \in X : h[i] = j
    <3>1. CASE j = a
      <4>1. b \in X /\ h[b] = a
        BY <3>1
      <4> QED BY <3>1, <4>1
    <3>2. CASE j = b
      <4>1. a \in X /\ h[a] = b
        BY <3>2
      <4> QED BY <3>2, <4>1
    <3>3. CASE j # a /\ j # b
      <4>1. j \in X /\ h[j] = j
        BY <3>3
      <4> QED BY <4>1
    <3> QED BY <3>1, <3>2, <3>3
  <2> HIDE DEF h, X, Y
  <2> QED BY <2>1, <2>2, <2>3 DEF Bijection, Injection, Surjection, IsInjective
<1>2. IsFiniteSet(X)
  BY FS_Subset
<1> HIDE DEF h, X, Y
<1>3. Cardinality(X) = Cardinality(Y)
  BY <1>1, <1>2, FS_Bijection DEF ExistsBijection
<1> QED BY <1>3 DEF X, Y, Where

\* One item leaves and the last one takes its place.
LEMMA MoveLast ==
  ASSUME NEW S, IsFiniteSet(S), NEW f, NEW g, NEW a \in S, NEW z \in S, NEW k,
         a # z => g[a] = f[z], \A i \in S \ {a, z} : g[i] = f[i]
  PROVE  Cardinality(Where(S \ {z}, g, k)) =
           IF f[a] = k THEN Cardinality(Where(S, f, k)) - 1 ELSE Cardinality(Where(S, f, k))
<1>1. PICK w : w = [i \in S |-> IF i = a THEN f[z] ELSE IF i = z THEN f[a] ELSE f[i]]
  OBVIOUS
<1>2. w[a] = f[z] /\ w[z] = f[a] /\ \A i \in S \ {a, z} : w[i] = f[i]
  BY <1>1
<1>3. Cardinality(Where(S, w, k)) = Cardinality(Where(S, f, k))
  BY <1>2, SwapKeeps
<1>4. PICK X : X = Where(S, w, k)
  OBVIOUS
<1>5. Where(S \ {z}, g, k) = X \ {z}
  BY <1>2, <1>4 DEF Where
<1>6. IsFiniteSet(X)
  BY <1>4, FS_Subset DEF Where
<1>7. Cardinality(X \ {z}) = IF z \in X THEN Cardinality(X) - 1 ELSE Cardinality(X)
  BY <1>6, FS_RemoveElement
<1>8. z \in X <=> f[a] = k
  BY <1>2, <1>4 DEF Where
<1> QED BY <1>3, <1>4, <1>5, <1>7, <1>8

LEMMA TimesIs ==
  ASSUME Inside
  PROVE  /\ IsFiniteSet(Live)
         /\ \A k \in Keys : /\ Times[k] = Cardinality(Where(Live, Items, k)) /\ Times[k] \in Nat
                            /\ Times[k] > 0 <=> \E i \in Live : Items[i] = k
<1>1. IsFiniteSet(Live)
  <2>1. IsFiniteSet(0 .. Capacity - 1)
    BY CapacityAssumption, FS_Interval
  <2> QED BY <2>1, Facts, FS_Subset
<1>2. ASSUME NEW k \in Keys
      PROVE  /\ Times[k] = Cardinality(Where(Live, Items, k)) /\ Times[k] \in Nat
             /\ Times[k] > 0 <=> \E i \in Live : Items[i] = k
  <2>1. Times[k] = Cardinality(Where(Live, Items, k))
    BY DEF Times, Where
  <2>2. IsFiniteSet(Where(Live, Items, k))
    BY <1>1, FS_Subset DEF Where
  <2>3. Cardinality(Where(Live, Items, k)) \in Nat /\ (Cardinality(Where(Live, Items, k)) = 0 <=> Where(Live, Items, k) = {})
    BY <2>2, FS_CardinalityType, FS_EmptySet
  <2>4. Where(Live, Items, k) = {} <=> ~ \E i \in Live : Items[i] = k
    BY DEF Where
  <2> QED BY <2>1, <2>3, <2>4
<1> QED BY <1>1, <1>2

\* Where the items are the same, so are the keys.
LEMMA SameTimes ==
  (Live' = Live /\ \A k : Cardinality(Where(Live, Items', k)) = Cardinality(Where(Live, Items, k)))
    => Times' = Times
BY DEF Times, Where

LEMMA PromiseInit == Init => Promise!Init
<1> SUFFICES ASSUME Init PROVE Promise!Init
  OBVIOUS
<1>1. Live = {}
  BY DEF Init, Live
<1>2. Times = [k \in Keys |-> 0]
  BY <1>1, FS_EmptySet DEF Times
<1> QED BY <1>2 DEF Init, Promise!Init

LEMMA PushAdds ==
  ASSUME Inside, NEW key \in Keys, Push(key)
  PROVE  Promise!Push
<1>1. /\ Live = 0 .. Count - 1 /\ Live' = 0 .. Count /\ Count \in Nat /\ Count < Capacity
      /\ Items' = [Items EXCEPT ![Count] = key] /\ UNCHANGED <<side, result, told>>
  BY Facts DEF Push, Live
<1>2. Live' = Live \union {Count} /\ Count \notin Live
  BY <1>1
<1>3. Items'[Count] = key /\ \A i \in Live : Items'[i] = Items[i]
  BY <1>1, Facts
<1>4. ASSUME NEW k \in Keys
      PROVE  Times'[k] = IF k = key THEN Times[k] + 1 ELSE Times[k]
  <2>1. Times'[k] = Cardinality(Where(Live', Items', k))
    BY DEF Times, Where
  <2>2. IsFiniteSet(Where(Live, Items, k)) /\ Count \notin Where(Live, Items, k)
    BY <1>2, TimesIs, FS_Subset DEF Where
  <2>3. CASE k = key
    <3>1. Where(Live', Items', k) = Where(Live, Items, k) \union {Count}
      BY <1>2, <1>3, <2>3 DEF Where
    <3>2. Cardinality(Where(Live, Items, k) \union {Count}) = Cardinality(Where(Live, Items, k)) + 1
      BY <2>2, FS_AddElement
    <3> QED BY <2>1, <2>3, <3>1, <3>2, TimesIs
  <2>4. CASE k # key
    <3>1. Where(Live', Items', k) = Where(Live, Items, k)
      BY <1>2, <1>3, <2>4 DEF Where
    <3> QED BY <2>1, <2>4, <3>1, TimesIs
  <2> QED BY <2>3, <2>4
<1>5. Times' = [Times EXCEPT ![key] = @ + 1]
  <2>1. Times = [k \in Keys |-> Times[k]] /\ Times' = [k \in Keys |-> Times'[k]]
    BY DEF Times
  <2> QED BY <1>4, <2>1
<1> QED BY <1>1, <1>5 DEF Promise!Push

\* A step of a loop only moves items.
LEMMA RiseStutters ==
  ASSUME Inside, Rise
  PROVE  UNCHANGED <<Times, side, result, told>>
<1>1. /\ pc = "rise" /\ index > 0 /\ index <= Count /\ index \in Nat /\ Count \in Nat /\ Count < Capacity
      /\ Items' = [Items EXCEPT ![index] = Items[Parent(index)], ![Parent(index)] = Items[index]]
      /\ UNCHANGED <<Count, side, pc, result, told>>
  BY Facts DEF Rise, MayRise, Inside, MovingInside
<1>2. PICK a \in Live, b \in Live : a = index /\ b = Parent(index) /\ a # b
  <2>1. Parent(index) \in Nat /\ Parent(index) < index
    BY <1>1, ParentOfChild
  <2>2. Live = 0 .. Count
    BY <1>1 DEF Live
  <2> QED BY <1>1, <2>1, <2>2
<1>3. Items'[a] = Items[b] /\ Items'[b] = Items[a] /\ \A i \in Live \ {a, b} : Items'[i] = Items[i]
  BY <1>1, <1>2, Facts
<1>4. Live' = Live
  BY <1>1 DEF Live
<1>5. \A k : Cardinality(Where(Live, Items', k)) = Cardinality(Where(Live, Items, k))
  BY <1>3, TimesIs, SwapKeeps
<1> QED BY <1>1, <1>4, <1>5, SameTimes

LEMMA SinkStutters ==
  ASSUME Inside, Sink
  PROVE  UNCHANGED <<Times, side, result, told>>
<1>1. /\ pc = "sink" /\ 2 * index + 1 < Count /\ index \in Nat /\ Count \in Nat /\ Count <= Capacity
      /\ Items' = [Items EXCEPT ![index] = Items[FirstOfThree(index)], ![FirstOfThree(index)] = Items[index]]
      /\ UNCHANGED <<Count, side, pc, result, told>> /\ FirstOfThree(index) # index
  BY Facts DEF Sink, MaySink
<1>2. PICK a \in Live, b \in Live : a = index /\ b = FirstOfThree(index) /\ a # b
  <2>1. Live = 0 .. Count - 1
    BY <1>1 DEF Live
  <2>2. FirstOfThree(index) \in 0 .. Count - 1
    BY <1>1 DEF FirstOfThree
  <2> QED BY <1>1, <2>1, <2>2
<1>3. Items'[a] = Items[b] /\ Items'[b] = Items[a] /\ \A i \in Live \ {a, b} : Items'[i] = Items[i]
  BY <1>1, <1>2, Facts
<1>4. Live' = Live
  BY <1>1 DEF Live
<1>5. \A k : Cardinality(Where(Live, Items', k)) = Cardinality(Where(Live, Items, k))
  BY <1>3, TimesIs, SwapKeeps
<1> QED BY <1>1, <1>4, <1>5, SameTimes

\* Addresses tell the rank of the items if they tell the rank of the keys held.
LEMMA SameTold ==
  ASSUME Inside
  PROVE  PointersTellRank <=> Promise!PointersTellRank
<1>1. \A k \in Keys : Times[k] > 0 <=> \E i \in Live : Items[i] = k
  BY TimesIs
<1>2. \A i \in Live : Items[i] \in Keys
  BY Facts
<1>3. Promise!Held = {k \in Keys : Times[k] > 0}
  BY DEF Promise!Held
<1>4. \A i \in Live : Items[i] \in Promise!Held
  BY <1>1, <1>2, <1>3
<1>5. \A k \in Promise!Held : \E i \in Live : Items[i] = k
  BY <1>1, <1>3
<1>6. ASSUME Promise!PointersTellRank PROVE PointersTellRank
  BY <1>4, <1>6 DEF PointersTellRank, Promise!PointersTellRank
<1>7. ASSUME PointersTellRank PROVE Promise!PointersTellRank
  BY <1>5, <1>7 DEF PointersTellRank, Promise!PointersTellRank
<1> QED BY <1>6, <1>7

\* Without items no key is held.
LEMMA HeldEmpty ==
  ASSUME Inside
  PROVE  Promise!Held = {} <=> Live = {}
<1>1. Promise!Held = {k \in Keys : Times[k] > 0}
  BY DEF Promise!Held
<1>2. \A i \in Live : Items[i] \in Keys
  BY Facts
<1> QED BY <1>1, <1>2, TimesIs

\* A pop returns the root, and the other items stay.
LEMMA PopTakesFirst ==
  ASSUME Inside, Inside', HeapOrder, Pop
  PROVE  Promise!Pop
<1>1. /\ pc = "idle" /\ Count > 0 /\ Count \in Nat /\ Count <= Capacity
      /\ result' = Items[0] /\ UNCHANGED side
      /\ Items' = [Items EXCEPT ![0] = Items[Count - 1]]
      /\ Live = 0 .. Count - 1 /\ Live' = 0 .. Count - 2
  BY Facts DEF Pop, Live
<1>2. PICK z \in Live, root \in Keys :
        z = Count - 1 /\ Live' = Live \ {z} /\ 0 \in Live /\ root = Items[0]
  BY <1>1, Facts
<1>3. (0 # z => Items'[0] = Items[z]) /\ \A i \in Live \ {0, z} : Items'[i] = Items[i]
  BY <1>1, <1>2, Facts
<1>4. ASSUME NEW k \in Keys
      PROVE  Times'[k] = IF k = root THEN Times[k] - 1 ELSE Times[k]
  <2>1. Times'[k] = Cardinality(Where(Live \ {z}, Items', k))
    BY <1>2 DEF Times, Where
  <2>2. Times[k] = Cardinality(Where(Live, Items, k))
    BY DEF Times, Where
  <2>3. Cardinality(Where(Live \ {z}, Items', k)) =
          IF Items[0] = k THEN Cardinality(Where(Live, Items, k)) - 1
                          ELSE Cardinality(Where(Live, Items, k))
    <3>1. IsFiniteSet(Live)
      BY TimesIs
    <3>2. PICK S, f, g : S = Live /\ f = Items /\ g = Items'
      OBVIOUS
    <3>3. /\ IsFiniteSet(S) /\ 0 \in S /\ z \in S
          /\ 0 # z => g[0] = f[z]
          /\ \A i \in S \ {0, z} : g[i] = f[i]
      BY <1>2, <1>3, <3>1, <3>2
    <3>4. Cardinality(Where(S \ {z}, g, k)) =
            IF f[0] = k THEN Cardinality(Where(S, f, k)) - 1 ELSE Cardinality(Where(S, f, k))
      BY ONLY <3>3, MoveLast
    <3> QED BY <3>2, <3>4
  <2> QED BY <1>2, <2>1, <2>2, <2>3
<1>5. Times' = [Times EXCEPT ![root] = @ - 1]
  <2>1. Times = [k \in Keys |-> Times[k]] /\ Times' = [k \in Keys |-> Times'[k]]
    BY DEF Times
  <2> QED BY <1>4, <2>1
<1>6. Times[root] > 0
  BY <1>2, TimesIs
<1>7. ASSUME told, NEW j \in Keys, Times[j] > 0
      PROVE  NotAfter(root, j)
  <2>1. PICK i \in Live : Items[i] = j
    BY <1>7, TimesIs
  <2> QED BY <1>1, <1>2, <1>7, <2>1, RootComesFirst DEF HeapOrder
<1>8. root \in Promise!Held /\ (told => Promise!ComesFirst(root))
  BY <1>6, <1>7 DEF Promise!Held, Promise!ComesFirst, NotAfter
<1>9. told' = (Promise!PointersTellRank' /\ (told \/ Promise!Held' = {}))
  <2>1. told' = (PointersTellRank' /\ (told \/ Count' = 0))
    BY DEF Pop
  <2>2. PointersTellRank' <=> Promise!PointersTellRank'
    BY SameTold, PTL
  <2>3. Promise!Held' = {} <=> Live' = {}
    <3>1. (Promise!Held = {} <=> Live = {})'
      BY HeldEmpty, PTL
    <3> QED BY <3>1
  <2>4. Live' = {} <=> Count' = 0
    <3>1. Count' = Count - 1
      BY DEF Pop
    <3>2. CASE Count = 1
      <4>1. Live' = {}
        BY <1>1, <3>2
      <4> QED BY <3>1, <3>2, <4>1
    <3>3. CASE Count # 1
      <4>1. 0 \in Live'
        BY <1>1, <3>3
      <4> QED BY <1>1, <3>1, <3>3, <4>1
    <3> QED BY <3>2, <3>3
  <2> QED BY <2>1, <2>2, <2>3, <2>4
<1> QED BY <1>1, <1>2, <1>5, <1>8, <1>9 DEF Promise!Pop

LEMMA PromiseStep ==
  ASSUME IInv, [Next]_vars
  PROVE  [Promise!Next]_Promise!queueVars
<1>1. Inside /\ Inside' /\ HeapOrder
  BY InsideStep DEF IInv
<1>2. CASE \E key \in Keys : Push(key)
  BY <1>1, <1>2, PushAdds DEF Promise!Next
<1>3. CASE Rise \/ Sink
  BY <1>1, <1>3, RiseStutters, SinkStutters DEF Promise!queueVars
<1>4. CASE Risen
  <2>1. Live' = Live /\ UNCHANGED <<Items, side, result, told>>
    BY <1>1, <1>4, Facts DEF Risen, Live
  <2>2. Times' = Times
    BY <2>1, SameTimes
  <2> QED BY <2>1, <2>2 DEF Promise!queueVars
<1>5. CASE Pop
  BY <1>1, <1>5, PopTakesFirst DEF Promise!Next
<1>6. CASE PopEmpty
  <2>1. Live = {} /\ Live' = Live /\ result' = null /\ UNCHANGED <<Items, side, told>>
    BY <1>6 DEF PopEmpty, Live
  <2>2. Times' = Times
    BY <2>1, SameTimes
  <2>3. Promise!Held = {}
    BY <1>1, <2>1, TimesIs DEF Promise!Held
  <2> QED BY <2>1, <2>2, <2>3 DEF Promise!Next, Promise!PopNothing
<1>7. CASE Sunk
  <2>1. Live' = Live /\ UNCHANGED <<Items, side, result, told>>
    BY <1>7 DEF Sunk, Live
  <2>2. Times' = Times
    BY <2>1, SameTimes
  <2> QED BY <2>1, <2>2 DEF Promise!queueVars
<1>8. CASE BHeapClear
  <2>1. Live' = {} /\ told' = TRUE /\ UNCHANGED <<side, result>>
    BY <1>8 DEF BHeapClear, Live
  <2>2. Times' = [k \in Keys |-> 0]
    BY <2>1, FS_EmptySet DEF Times
  <2> QED BY <2>1, <2>2 DEF Promise!Next, Promise!Clear
<1>9. CASE UNCHANGED vars
  BY <1>9, SameTimes DEF vars, Live, Promise!queueVars
<1> QED BY <1>2, <1>3, <1>4, <1>5, <1>6, <1>7, <1>8, <1>9 DEF Next

\* For every capacity, set of keys and ranking the heap holds the keys that were pushed
\* and not popped, as often as they were, every pop returns one of them, and one that
\* CompareFunc puts first until a pop leaves keys whose addresses do not tell their rank.
THEOREM BHeapIsAPriorityQueue == Spec => ImplementsPriorityQueue
<1>1. Init => IInv
  BY InitIInv
<1>2. IInv /\ [Next]_vars => IInv'
  BY IInvStep
<1>3. IInv /\ [Next]_vars => [Promise!Next]_Promise!queueVars
  BY PromiseStep
<1> QED BY <1>1, <1>2, <1>3, PromiseInit, PTL
        DEF Spec, ImplementsPriorityQueue, Promise!Spec

=============================================================================

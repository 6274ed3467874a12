--------------------------- MODULE RingArithmetic ---------------------------
(***************************************************************************)
(* Arithmetic that several proofs need.                                    *)
(*                                                                         *)
(* A ring of C slots keeps the value of position a \in Nat in slot a % C;  *)
(* what the ring's correctness rests on is that two positions share a slot *)
(* only when they are at least C apart, and that `(i + 1) % C` steps from  *)
(* one position's slot to the next one's.  Words that wrap are sums up to  *)
(* a multiple of C.  A set of natural numbers has a least element, which   *)
(* stands in for induction: on it rests what is known of functions that    *)
(* are defined from one number to the next.                                *)
(***************************************************************************)
EXTENDS Integers, WellFoundedInduction, TLAPS

\* Euclidean division, for a variable divisor.
LEMMA DivMod ==
  ASSUME NEW C \in Nat \ {0}, NEW a \in Nat
  PROVE  /\ a = (C * (a \div C)) + (a % C)
         /\ a \div C \in Nat
         /\ a % C \in 0 .. C - 1
  OBVIOUS

\* Multiples of C are at least C apart.
LEMMA MultiplesApart ==
  ASSUME NEW C \in Nat \ {0}, NEW p \in Nat, NEW q \in Nat, p < q
  PROVE  C * p + C <= C * q
<1>1. PICK d \in Nat : q = p + 1 + d
  <2>1. q - p - 1 \in Nat
    OBVIOUS
  <2> QED BY <2>1
<1>2. C * q = C * p + C + C * d
  BY <1>1
<1>3. C * d >= 0
  OBVIOUS
<1>4. C * d \in Nat /\ C * p \in Nat
  OBVIOUS
<1> QED BY <1>2, <1>3, <1>4

\* Quotient and remainder are determined by the number.
LEMMA DivisionUnique ==
  ASSUME NEW C \in Nat \ {0}, NEW p \in Nat, NEW q \in Nat,
         NEW r \in 0 .. C - 1, NEW s \in 0 .. C - 1, C * p + r = C * q + s
  PROVE  p = q /\ r = s
<1>1. C * p \in Nat /\ C * q \in Nat
  OBVIOUS
<1>2. ~ p < q
  <2> SUFFICES ASSUME p < q PROVE FALSE
    OBVIOUS
  <2>1. C * p + C <= C * q
    BY MultiplesApart
  <2> QED BY <2>1, <1>1
<1>3. ~ q < p
  <2> SUFFICES ASSUME q < p PROVE FALSE
    OBVIOUS
  <2>1. C * q + C <= C * p
    BY MultiplesApart
  <2> QED BY <2>1, <1>1
<1>4. p = q
  BY <1>2, <1>3
<1> QED BY <1>4, <1>1

\* A number written as C * p + r with r below C has remainder r.
LEMMA RemainderIs ==
  ASSUME NEW C \in Nat \ {0}, NEW a \in Nat, NEW p \in Nat,
         NEW r \in 0 .. C - 1, a = C * p + r
  PROVE  a % C = r
<1> DEFINE q == a \div C
           s == a % C
<1>1. a = C * q + s /\ q \in Nat /\ s \in 0 .. C - 1
  BY DivMod
<1> HIDE DEF q, s
<1>2. C * p + r = C * q + s
  BY <1>1
<1>3. r = s
  BY ONLY <1>1, <1>2, DivisionUnique, C \in Nat \ {0}, p \in Nat, r \in 0 .. C - 1
<1> QED BY <1>3 DEF s

\* Two positions that share a slot are the same or at least a lap apart.
LEMMA SameSlot ==
  ASSUME NEW C \in Nat \ {0}, NEW a \in Nat, NEW b \in Nat,
         a % C = b % C, a < b
  PROVE  a + C <= b
<1> DEFINE p == a \div C
           q == b \div C
<1>1. /\ a = C * p + (a % C) /\ b = C * q + (b % C)
      /\ p \in Nat /\ q \in Nat /\ a % C \in 0 .. C - 1
  BY DivMod
<1> HIDE DEF p, q
<1>2. C * p \in Nat /\ C * q \in Nat
  BY <1>1
<1>3. p < q
  <2> SUFFICES ASSUME q <= p PROVE FALSE
    BY <1>1
  <2>1. CASE q = p
    BY <2>1, <1>1
  <2>2. CASE q < p
    <3>1. C * q + C <= C * p
      BY <2>2, <1>1, MultiplesApart
    <3> QED BY <3>1, <1>1, <1>2
  <2> QED BY <2>1, <2>2, <1>1
<1>4. C * p + C <= C * q
  BY <1>1, <1>3, MultiplesApart
<1> QED BY <1>1, <1>4, <1>2

\* `(i + 1) % Capacity` is the slot of the next position.
LEMMA NextSlot ==
  ASSUME NEW C \in Nat \ {0}, NEW a \in Nat
  PROVE  ((a % C) + 1) % C = (a + 1) % C
<1> DEFINE p == a \div C
           r == a % C
<1>1. a = C * p + r /\ p \in Nat /\ r \in 0 .. C - 1
  BY DivMod
<1> HIDE DEF p, r
<1>2. /\ a + 1 \in Nat /\ r + 1 \in Nat /\ 0 \in Nat /\ 1 \in Nat
      /\ p + 1 \in Nat
  BY <1>1
<1>3. CASE r + 1 < C
  <2>1. r + 1 \in 0 .. C - 1
    BY <1>1, <1>3
  <2>2. r + 1 = C * 0 + (r + 1) /\ a + 1 = C * p + (r + 1)
    BY <1>1
  <2>3. (r + 1) % C = r + 1
    BY ONLY <2>1, <2>2, <1>2, RemainderIs, C \in Nat \ {0}
  <2>4. (a + 1) % C = r + 1
    BY ONLY <2>1, <2>2, <1>1, <1>2, RemainderIs, C \in Nat \ {0}
  <2> QED BY <2>3, <2>4 DEF r
<1>4. CASE r + 1 = C
  <2>1. 0 \in 0 .. C - 1
    OBVIOUS
  <2>2. r + 1 = C * 1 + 0 /\ a + 1 = C * (p + 1) + 0
    BY <1>1, <1>4
  <2>3. (r + 1) % C = 0
    BY ONLY <2>1, <2>2, <1>2, RemainderIs, C \in Nat \ {0}
  <2>4. (a + 1) % C = 0
    BY ONLY <2>1, <2>2, <1>1, <1>2, RemainderIs, C \in Nat \ {0}
  <2> QED BY <2>3, <2>4 DEF r
<1> QED BY <1>1, <1>3, <1>4

\* A whole lap leads back to the same slot.
LEMMA LapSlot ==
  ASSUME NEW C \in Nat \ {0}, NEW a \in Nat
  PROVE  (a + C) % C = a % C
<1> DEFINE p == a \div C
           r == a % C
<1>1. a = C * p + r /\ p \in Nat /\ r \in 0 .. C - 1
  BY DivMod
<1> HIDE DEF p, r
<1>2. a + C = C * (p + 1) + r
  BY <1>1
<1>3. a + C \in Nat /\ p + 1 \in Nat
  BY <1>1
<1>4. (a + C) % C = r
  BY ONLY <1>1, <1>2, <1>3, RemainderIs, C \in Nat \ {0}
<1> QED BY <1>4 DEF r

\* Division, as a sum.
LEMMA Divided ==
  ASSUME NEW C \in Nat \ {0}, NEW a \in Nat
  PROVE  \E p \in Nat, r \in 0 .. C - 1 : a = (C * p) + r /\ a % C = r
BY DivMod

\* Fewer steps than a lap do not come back.
LEMMA WithinLap ==
  ASSUME NEW C \in Nat \ {0}, NEW a \in 1 .. C - 1
  PROVE  a % C # 0
<1>1. 0 \in Nat /\ a \in Nat /\ a \in 0 .. C - 1 /\ a # 0 /\ a = C * 0 + a
  OBVIOUS
<1>2. a % C = a
  BY ONLY <1>1, C \in Nat \ {0}, RemainderIs
<1> QED BY <1>1, <1>2

\* N steps from any number meet every remainder of N.
LEMMA StepsCover ==
  ASSUME NEW N \in Nat \ {0}, NEW s \in Nat, NEW q \in 0 .. N - 1
  PROVE  \E k \in 0 .. N - 1 : (s + k) % N = q
<1> DEFINE r == s % N
           a == s \div N
<1>1. a \in Nat /\ r \in 0 .. N - 1 /\ s = (N * a) + r
  BY DivMod
<1> HIDE DEF r, a
<1>2. q \in Nat /\ r \in Nat /\ N * a \in Nat
  BY <1>1
<1>3. CASE q >= r
  <2> DEFINE k == q - r
  <2>1. k \in 0 .. N - 1 /\ s + k \in Nat
    BY <1>1, <1>2, <1>3
  <2>2. s + k = N * a + q
    BY <1>1, <1>2
  <2> HIDE DEF k
  <2>3. (s + k) % N = q
    BY <1>1, <2>1, <2>2, RemainderIs
  <2> QED BY <2>1, <2>3
<1>4. CASE ~ q >= r
  <2> DEFINE k == (q - r) + N
  <2>1. k \in 0 .. N - 1 /\ s + k \in Nat
    BY <1>1, <1>2, <1>4
  <2>2. N * (a + 1) = N * a + N /\ a + 1 \in Nat
    BY <1>1
  <2>3. s + k = N * (a + 1) + q
    BY <1>1, <1>2, <2>2
  <2> HIDE DEF k
  <2>4. (s + k) % N = q
    BY <2>1, <2>2, <2>3, RemainderIs
  <2> QED BY <2>1, <2>4
<1> QED BY <1>3, <1>4

-----------------------------------------------------------------------------
(* Numbers that differ by a multiple of C. *)

\* Equal up to a multiple of C.
Congruent(x, y, C) == \E k \in Int : x = y + C * k

\* A number is congruent to its remainder.
LEMMA CongruentRemainder ==
  ASSUME NEW C \in Nat \ {0}, NEW x \in Int
  PROVE  x % C \in 0 .. C - 1 /\ Congruent(x, x % C, C)
<1>1. x = (x % C) + C * (x \div C) /\ x \div C \in Int /\ x % C \in 0 .. C - 1
  OBVIOUS
<1> QED BY <1>1 DEF Congruent

LEMMA CongruentSym ==
  ASSUME NEW C \in Nat \ {0}, NEW x \in Int, NEW y \in Int, Congruent(x, y, C)
  PROVE  Congruent(y, x, C)
<1>1. PICK k \in Int : x = y + C * k
  BY DEF Congruent
<1>2. -k \in Int /\ y = x + C * (-k)
  BY <1>1
<1> QED BY <1>2 DEF Congruent

\* Sums and differences of congruent numbers are congruent.
LEMMA CongruentSum ==
  ASSUME NEW C \in Nat \ {0}, NEW x \in Int, NEW y \in Int, NEW v \in Int, NEW w \in Int,
         Congruent(x, y, C), Congruent(v, w, C)
  PROVE  Congruent(x + v, y + w, C) /\ Congruent(x - v, y - w, C)
<1>1. PICK k \in Int : x = y + C * k
  BY DEF Congruent
<1>2. PICK l \in Int : v = w + C * l
  BY DEF Congruent
<1>3. k + l \in Int /\ k - l \in Int /\ C * (k + l) = C * k + C * l /\ C * (k - l) = C * k - C * l
      /\ C * k \in Int /\ C * l \in Int
  OBVIOUS
<1>4. x + v = y + w + C * (k + l) /\ x - v = y - w + C * (k - l)
  BY <1>1, <1>2, <1>3
<1> QED BY <1>3, <1>4 DEF Congruent

LEMMA CongruentTrans ==
  ASSUME NEW C \in Nat \ {0}, NEW x \in Int, NEW y \in Int, NEW z \in Int,
         Congruent(x, y, C), Congruent(y, z, C)
  PROVE  Congruent(x, z, C)
<1>1. PICK k \in Int : x = y + C * k
  BY DEF Congruent
<1>2. PICK l \in Int : y = z + C * l
  BY DEF Congruent
<1>3. k + l \in Int /\ C * (k + l) = C * k + C * l /\ C * k \in Int /\ C * l \in Int
  OBVIOUS
<1>4. x = z + C * (k + l)
  BY <1>1, <1>2, <1>3
<1> QED BY <1>3, <1>4 DEF Congruent

\* Numbers below C that are congruent are equal.
LEMMA CongruentEqual ==
  ASSUME NEW C \in Nat \ {0}, NEW x \in 0 .. C - 1, NEW y \in 0 .. C - 1, Congruent(x, y, C)
  PROVE  x = y
<1>1. PICK k \in Int : x = y + C * k
  BY DEF Congruent
<1>2. CASE k = 0
  BY <1>1, <1>2
<1>3. CASE k > 0
  <2>1. k - 1 \in Nat /\ C * k = C * (k - 1) + C /\ C * (k - 1) >= 0
    BY <1>3
  <2> QED BY <1>1, <2>1
<1>4. CASE k < 0
  <2>1. -k - 1 \in Nat /\ C * k = 0 - C * (-k - 1) - C /\ C * (-k - 1) >= 0
    BY <1>4
  <2> QED BY <1>1, <2>1
<1> QED BY <1>2, <1>3, <1>4

\* What is below C and congruent to y is the remainder of y.
LEMMA CongruentIs ==
  ASSUME NEW C \in Nat \ {0}, NEW x \in 0 .. C - 1, NEW y \in Int, Congruent(x, y, C)
  PROVE  x = y % C
<1>1. x \in Int /\ y % C \in 0 .. C - 1 /\ y % C \in Int /\ Congruent(y, y % C, C)
  BY CongruentRemainder
<1>2. Congruent(x, y % C, C)
  BY <1>1, CongruentTrans
<1> QED BY <1>1, <1>2, CongruentEqual

-----------------------------------------------------------------------------

\* Every set of natural numbers that is not empty has a least element.
LEMMA LeastNat ==
  ASSUME NEW T, T \subseteq Nat, T # {}
  PROVE  \E x \in T : \A y \in T : ~ y < x
<1>1. \A x, y \in Nat : y < x => <<y, x>> \in OpToRel(<, Nat)
  BY DEF OpToRel
<1>2. \E x \in T : \A y \in T : ~ (<<y, x>> \in OpToRel(<, Nat))
  BY WFMin, NatLessThanWellFounded
<1> QED BY <1>1, <1>2

-----------------------------------------------------------------------------
(* Functions that are defined from one number to the next. *)

\* A function that gives each number what step makes of the value before it.
Follows(g, N, start, step) ==
  g = [n \in 0 .. N |-> IF n = 0 THEN start ELSE step[n][g[n - 1]]]

\* There is one, if step[n] takes what S[n - 1] has to what S[n] has.
LEMMA Recursion ==
  ASSUME NEW N \in Nat, NEW S, NEW start, start \in S[0], NEW step,
         \A n \in 1 .. N : \A x \in S[n - 1] : step[n][x] \in S[n]
  PROVE  \E g : Follows(g, N, start, step)
<1> DEFINE Fit(g, m) ==
             /\ DOMAIN g = 0 .. m /\ g[0] = start
             /\ \A n \in 1 .. m : g[n] = step[n][g[n - 1]]
           None == {m \in 0 .. N : ~ \E f : f = [n \in 0 .. m |-> f[n]] /\ Fit(f, m)}
<1>1. None = {}
  <2> SUFFICES ASSUME None # {} PROVE FALSE
    OBVIOUS
  <2>1. PICK m \in None : \A k \in None : ~ k < m
    <3>1. None \subseteq Nat
      OBVIOUS
    <3> HIDE DEF None
    <3> QED BY <3>1, LeastNat
  <2>2. CASE m = 0
    <3> DEFINE f == [n \in 0 .. 0 |-> start]
    <3>1. f = [n \in 0 .. 0 |-> f[n]] /\ Fit(f, 0)
      OBVIOUS
    <3> HIDE DEF Fit
    <3> QED BY <2>1, <2>2, <3>1
  <2>3. CASE m # 0
    <3>1. m \in Nat /\ m - 1 \in 0 .. N /\ m - 1 < m
      BY <2>1, <2>3
    <3>2. m - 1 \notin None
      BY <2>1, <3>1
    <3>3. PICK f : f = [n \in 0 .. m - 1 |-> f[n]] /\ Fit(f, m - 1)
      BY <3>1, <3>2
    <3> DEFINE g == [n \in 0 .. m |-> IF n = m THEN step[m][f[m - 1]] ELSE f[n]]
    <3>4. g = [n \in 0 .. m |-> g[n]] /\ DOMAIN g = 0 .. m
      OBVIOUS
    <3>5. g[0] = start
      BY <2>3, <3>1, <3>3
    <3>6. ASSUME NEW n \in 1 .. m PROVE g[n] = step[n][g[n - 1]]
      <4>1. n - 1 \in 0 .. m /\ n - 1 # m /\ n \in 0 .. m
        BY <3>1
      <4>2. CASE n = m
        BY <4>1, <4>2
      <4>3. CASE n # m
        <5>1. n \in 1 .. m - 1
          BY <3>1, <4>3
        <5> QED BY <3>3, <4>1, <4>3, <5>1
      <4> QED BY <4>2, <4>3
    <3>7. Fit(g, m)
      BY <3>4, <3>5, <3>6
    <3> HIDE DEF Fit, g
    <3> QED BY <2>1, <3>4, <3>7
  <2> QED BY <2>2, <2>3
<1>2. PICK f : f = [n \in 0 .. N |-> f[n]] /\ Fit(f, N)
  BY <1>1
<1>3. f = [n \in 0 .. N |-> IF n = 0 THEN start ELSE step[n][f[n - 1]]]
  BY <1>2
<1> QED BY <1>3 DEF Follows

\* What holds at 0, and at each number if it holds at the one before, holds at all.
LEMMA Along ==
  ASSUME NEW N \in Nat, NEW f, NEW S, f[0] \in S[0],
         \A n \in 1 .. N : f[n - 1] \in S[n - 1] => f[n] \in S[n]
  PROVE  \A n \in 0 .. N : f[n] \in S[n]
<1> DEFINE T == {n \in 0 .. N : f[n] \notin S[n]}
<1> SUFFICES ASSUME T # {} PROVE FALSE
  OBVIOUS
<1>1. PICK m \in T : \A k \in T : ~ k < m
  <2>1. T \subseteq Nat
    OBVIOUS
  <2> HIDE DEF T
  <2> QED BY <2>1, LeastNat
<1>2. m # 0 /\ m \in 1 .. N
  BY <1>1
<1>3. m - 1 \in 0 .. N /\ m - 1 < m
  BY <1>2
<1>4. f[m - 1] \in S[m - 1]
  BY <1>1, <1>3
<1> QED BY <1>1, <1>2, <1>4

=============================================================================

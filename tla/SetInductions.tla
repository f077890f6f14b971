---------------------------- MODULE SetInductions ----------------------------
(***************************************************************************)
(* Induction over the natural numbers, stated about sets instead of        *)
(* predicates so that first-order provers can use it: that a formula P     *)
(* holds for every n is that {n \in Nat : P} is inductive.  With it, what  *)
(* the models of machine words need: powers of two, and a function for     *)
(* every recursion over an interval.                                       *)
(***************************************************************************)
EXTENDS Integers, FiniteSetTheorems, WellFoundedInduction, TLAPS

\* Every set of natural numbers has a least element, unless it is empty.
LEMMA LeastElement ==
  ASSUME NEW T, T \subseteq Nat, T # {}
  PROVE  \E x \in T : \A y \in T : x <= y
  <1> DEFINE R == OpToRel(<, Nat)
  <1>1. IsWellFoundedOn(R, Nat)
    BY NatLessThanWellFounded
  <1>2. \A i, j \in Nat : i < j => <<i, j>> \in R
    BY DEF OpToRel
  <1> HIDE DEF R
  <1>3. PICK x \in T : \A y \in T : ~(<<y, x>> \in R)
    BY <1>1, WFMin
  <1>4. \A y \in T : ~(y < x)
    BY <1>2, <1>3
  <1> QED
    BY <1>4

\* A set that has 0 and with every number the next has all of them.
LEMMA SetInduction ==
  ASSUME NEW S, 0 \in S, \A n \in Nat : n \in S => n + 1 \in S
  PROVE  Nat \subseteq S
  <1> DEFINE T == Nat \ S
  <1> SUFFICES ASSUME T # {} PROVE FALSE
    OBVIOUS
  <1>1. PICK x \in T : \A y \in T : x <= y
    <2> T \subseteq Nat
      OBVIOUS
    <2> HIDE DEF T
    <2> QED
      BY LeastElement
  <1>2. x # 0 /\ x - 1 \in Nat /\ ~(x <= x - 1) /\ x = (x - 1) + 1
    OBVIOUS
  <1>3. x - 1 \in S
    BY <1>1, <1>2
  <1> QED
    BY <1>2, <1>3

\* The same up to a bound.
LEMMA BoundedInduction ==
  ASSUME NEW m \in Nat, NEW S, 0 \in S, \A n \in 0 .. m - 1 : n \in S => n + 1 \in S
  PROVE  0 .. m \subseteq S
  <1> DEFINE T == {n \in Nat : n <= m => n \in S}
  <1>1. 0 \in T
    OBVIOUS
  <1>2. \A n \in Nat : n \in T => n + 1 \in T
    OBVIOUS
  <1>3. Nat \subseteq T
    <2> HIDE DEF T
    <2> QED
      BY <1>1, <1>2, SetInduction
  <1> QED
    BY <1>3

-----------------------------------------------------------------------------
\* A power of two is a positive natural number: it counts the subsets of a set.
LEMMA PowerOfTwo ==
  ASSUME NEW n \in Nat
  PROVE  2 ^ n \in Nat \ {0}
  <1>1. IsFiniteSet(1..n) /\ Cardinality(1..n) = n
    BY FS_Interval
  <1>2. IsFiniteSet(SUBSET (1..n)) /\ Cardinality(SUBSET (1..n)) = 2 ^ n
    BY <1>1, FS_SUBSET
  <1>3. SUBSET (1..n) # {}
    OBVIOUS
  <1> QED
    BY <1>2, <1>3, FS_EmptySet, FS_CardinalityType

\* One more element doubles the subsets.
LEMMA NextPower ==
  ASSUME NEW n \in Nat
  PROVE  2 ^ (n + 1) = 2 * 2 ^ n
  <1> DEFINE S == 1..n
             T == {n + 1}
             P == SUBSET S
             Q == {X \cup T : X \in P}
  <1>1. IsFiniteSet(S) /\ Cardinality(S) = n
    BY FS_Interval
  <1>2. IsFiniteSet(1..(n+1)) /\ Cardinality(1..(n+1)) = n + 1
    BY FS_Interval
  <1>3. IsFiniteSet(P) /\ Cardinality(P) = 2^n
    BY <1>1, FS_SUBSET
  <1>4. Cardinality(SUBSET (1..(n+1))) = 2^(n+1)
    BY <1>2, FS_SUBSET
  <1>5. IsFiniteSet(Q) /\ Cardinality(Q) = Cardinality(P)
    <2> DEFINE f == [X \in P |-> X \cup T]
    <2>1. f \in Bijection(P, Q)
      <3>1. f \in [P -> Q]
        OBVIOUS
      <3>2. \A X, Y \in P : f[X] = f[Y] => X = Y
        <4>1. \A X \in P : (n + 1) \notin X
          OBVIOUS
        <4> QED
          BY <4>1
      <3>3. \A Y \in Q : \E X \in P : f[X] = Y
        OBVIOUS
      <3> QED
        BY <3>1, <3>2, <3>3 DEF Bijection, Injection, Surjection, IsInjective
    <2> QED
      BY <1>3, <2>1, FS_Bijection DEF ExistsBijection
  <1>6. P \cap Q = {}
    OBVIOUS
  <1>7. SUBSET (1..(n+1)) = P \cup Q
    <2>1. 1..(n+1) = S \cup T
      OBVIOUS
    <2>2. ASSUME NEW X \in SUBSET (S \cup T) PROVE X \in P \cup Q
      <3>1. CASE n + 1 \in X
        <4>1. X = (X \ T) \cup T /\ X \ T \in P
          BY <3>1
        <4> QED
          BY <4>1
      <3>2. CASE n + 1 \notin X
        BY <3>2
      <3> QED
        BY <3>1, <3>2
    <2>3. P \cup Q \subseteq SUBSET (S \cup T)
      OBVIOUS
    <2>4. SUBSET (S \cup T) \subseteq P \cup Q
      BY <2>2
    <2>5. SUBSET (S \cup T) = P \cup Q
      BY <2>3, <2>4
    <2> QED
      BY <2>1, <2>5
  <1> HIDE DEF P, Q
  <1>8. Cardinality(P \cup Q) = Cardinality(P) + Cardinality(Q)
    <2>1. Cardinality(P \cup Q) = Cardinality(P) + Cardinality(Q) - Cardinality(P \cap Q)
      BY <1>3, <1>5, FS_Union
    <2>2. Cardinality({}) = 0
      BY FS_EmptySet
    <2>3. Cardinality(P) \in Nat /\ Cardinality(Q) \in Nat
      BY <1>3, <1>5, FS_CardinalityType
    <2>4. Cardinality(P \cap Q) = 0
      BY <1>6, <2>2
    <2> QED
      BY <2>1, <2>3, <2>4
  <1>9. 2^n \in Nat
    BY PowerOfTwo
  <1>10. 2^(n+1) = Cardinality(P) + Cardinality(Q)
    BY <1>4, <1>7, <1>8
  <1>11. 2^(n+1) = 2^n + 2^n
    BY <1>3, <1>5, <1>10
  <1> QED
    BY <1>9, <1>11

\* The product of two powers of two, by induction.
LEMMA PowersAdd ==
  ASSUME NEW a \in Nat, NEW b \in Nat
  PROVE  2 ^ (a + b) = 2 ^ a * 2 ^ b
  <1> DEFINE S == {n \in Nat : 2 ^ (a + n) = 2 ^ a * 2 ^ n}
  <1>1. 0 \in S
    <2>1. 2 ^ 0 = 1 /\ 2 ^ a \in Nat /\ a + 0 = a
      BY PowerOfTwo
    <2> QED
      BY <2>1
  <1>2. ASSUME NEW n \in Nat, n \in S
        PROVE  n + 1 \in S
    <2> DEFINE x == 2 ^ a
               y == 2 ^ n
               z == 2 ^ (a + n)
    <2>1. x \in Nat /\ y \in Nat /\ z = x * y
      BY <1>2, PowerOfTwo
    <2>2. a + (n + 1) = (a + n) + 1 /\ 2 ^ ((a + n) + 1) = 2 * z /\ 2 ^ (n + 1) = 2 * y
      BY NextPower
    <2>3. 2 * z = x * (2 * y)
      <3> HIDE DEF x, y, z
      <3> QED
        BY <2>1
    <2> HIDE DEF x, y, z
    <2>4. 2 ^ (a + (n + 1)) = x * 2 ^ (n + 1)
      BY <2>2, <2>3
    <2> QED
      BY <2>4 DEF x
  <1> HIDE DEF S
  <1>3. Nat \subseteq S
    BY <1>1, <1>2, SetInduction
  <1> QED
    BY <1>3 DEF S

\* Dividing by 256 and by a power of two is dividing by a higher one.
LEMMA DivTwice ==
  ASSUME NEW w \in Int, NEW a \in Nat \ {0}
  PROVE  (w \div a) \div 256 = w \div (256 * a)
  <1> DEFINE q == w \div a
             r == w % a
             s == q \div 256
             t == q % 256
             b == 256 * a
             u == a * t + r
  <1>1. q \in Int /\ r \in 0..a - 1 /\ w = a * q + r
    OBVIOUS
  <1>2. s \in Int /\ t \in 0..255 /\ q = 256 * s + t
    BY <1>1
  <1> HIDE DEF q, r, s, t
  <1>3. a * t \in 0..255 * a
    BY <1>2
  <1>4. u \in 0..b - 1
    BY <1>1, <1>3
  <1>5. a * q = b * s + a * t
    BY <1>2
  <1>6. w = b * s + u /\ b \in Nat \ {0}
    BY <1>1, <1>2, <1>3, <1>5
  <1> HIDE DEF u, b
  <1>7. w \div b = s
    BY <1>2, <1>4, <1>6
  <1> QED
    BY <1>7 DEF q, s, b

\* f is defined by recursion on 0..n, in steps that stay in S.
Iterates(f, n, S, start, step) ==
    /\ f \in [0..n -> S]
    /\ f[0] = start
    /\ \A k \in 1..n : f[k] = step[<<k, f[k - 1]>>]

\* There is one for every step function.
LEMMA Iteration ==
  ASSUME NEW n \in Nat, NEW S, NEW start \in S, NEW step \in [(1..n) \X S -> S]
  PROVE  \E f : Iterates(f, n, S, start, step)
  <1> DEFINE OK(m, f) == f = [k \in 0..m |-> IF k = 0 THEN start ELSE step[<<k, f[k - 1]>>]]
             D == {m \in 0..n : \E f \in [0..m -> S] : OK(m, f)}
  <1>1. 0 \in D
    <2> DEFINE f == [k \in 0..0 |-> start]
    <2>1. f \in [0..0 -> S] /\ OK(0, f)
      OBVIOUS
    <2> HIDE DEF f, OK
    <2>2. 0 \in 0..n
      OBVIOUS
    <2> QED
      BY <2>1, <2>2
  <1>2. ASSUME NEW m \in 0..n - 1, m \in D
        PROVE  m + 1 \in D
    <2>1. PICK f \in [0..m -> S] : OK(m, f)
      BY <1>2
    <2> DEFINE g == [k \in 0..m + 1 |-> IF k = m + 1 THEN step[<<k, f[m]>>] ELSE f[k]]
    <2>2. step[<<m + 1, f[m]>>] \in S
      OBVIOUS
    <2>3. g \in [0..m + 1 -> S]
      BY <2>2
    <2>4. \A k \in 0..m + 1 : g[k] = IF k = 0 THEN start ELSE step[<<k, g[k - 1]>>]
      <3>1. ASSUME NEW k \in 0..m
            PROVE  g[k] = IF k = 0 THEN start ELSE step[<<k, g[k - 1]>>]
        <4>1. g[k] = f[k] /\ (k # 0 => k - 1 \in 0..m /\ g[k - 1] = f[k - 1])
          OBVIOUS
        <4>2. f[k] = IF k = 0 THEN start ELSE step[<<k, f[k - 1]>>]
          BY <2>1
        <4> QED
          BY <4>1, <4>2
      <3>2. g[m + 1] = step[<<m + 1, g[m]>>]
        OBVIOUS
      <3> HIDE DEF g
      <3>3. ASSUME NEW k \in 0..m + 1, k \notin 0..m
            PROVE  g[k] = IF k = 0 THEN start ELSE step[<<k, g[k - 1]>>]
        <4>1. k = m + 1 /\ k - 1 = m /\ k # 0
          BY <3>3
        <4> QED
          BY <3>2, <4>1
      <3> QED
        BY <3>1, <3>3
    <2>5. OK(m + 1, g)
      BY <2>4
    <2> HIDE DEF g, OK
    <2>6. m + 1 \in 0..n
      OBVIOUS
    <2> QED
      BY <2>3, <2>5, <2>6
  <1> HIDE DEF D
  <1>3. n \in D
    BY <1>1, <1>2, BoundedInduction
  <1>4. PICK f \in [0..n -> S] : OK(n, f)
    BY <1>3 DEF D
  <1>5. /\ 0 \in 0..n
        /\ \A k \in 1..n : k \in 0..n /\ k # 0
    OBVIOUS
  <1>6. \A k \in 0..n : f[k] = IF k = 0 THEN start ELSE step[<<k, f[k - 1]>>]
    BY <1>4
  <1>7. f[0] = start /\ \A k \in 1..n : f[k] = step[<<k, f[k - 1]>>]
    BY <1>5, <1>6
  <1> QED
    BY <1>7 DEF Iterates
=============================================================================

---------------------------- MODULE AnalysisProofs ----------------------------
(***************************************************************************)
(* Theorems about Analysis, for recordings of any length and any values of *)
(* the constants: the loop of _runs, the report, the detectors on what was *)
(* logged, segments of normal cycling and the demonstration deployment.    *)
(* They rest on facts about naturals, finite sets and medians, which come  *)
(* first.  The library's induction theorems take an operator; the ones     *)
(* here take a set, and rest on the well-foundedness of < alone.           *)
(***************************************************************************)
EXTENDS Analysis, SequenceTheorems, FiniteSetTheorems, TLAPS

-----------------------------------------------------------------------------
(* Naturals.                                                               *)

\* A set of naturals that is not empty has a least element.
LEMMA LeastNatural ==
  ASSUME NEW T, T \subseteq Nat, T # {}
  PROVE  \E x \in T : \A y \in T : x <= y
  <1> DEFINE R == OpToRel(<, Nat)
  <1>1. IsWellFoundedOn(R, Nat)
    BY NatLessThanWellFounded, ZenonT(60)
  <1>2. PICK x \in T : \A y \in T : ~ (<<y, x>> \in R)
    <2> HIDE DEF R
    <2> QED BY <1>1, WFMin
  <1>3. \A y \in T : ~(y < x)
    BY <1>2 DEF OpToRel
  <1> QED BY <1>3

\* A set that holds 0, and with each natural the next one, holds them all.
LEMMA SetInduction ==
  ASSUME NEW S, 0 \in S, \A n \in Nat : n \in S => n + 1 \in S
  PROVE  Nat \subseteq S
  <1> SUFFICES ASSUME Nat \ S # {} PROVE FALSE
    OBVIOUS
  <1>1. PICK n \in Nat \ S : \A m \in Nat \ S : n <= m
    BY LeastNatural
  <1>2. n # 0 /\ n - 1 \in Nat
    BY <1>1
  <1>3. n - 1 \in S
    BY <1>1, <1>2
  <1> QED BY <1>1, <1>2, <1>3

\* The places of a sequence are finite, and as many as it is long.
LEMMA PlacesFinite ==
  ASSUME NEW n \in Nat
  PROVE  IsFiniteSet(1..n) /\ Cardinality(1..n) = n
  BY FS_Interval

\* A function that tells the elements of a finite set apart keeps their number.
LEMMA SameNumber ==
  ASSUME NEW S, IsFiniteSet(S), NEW T, NEW f \in [S -> T],
         \A x, y \in S : f[x] = f[y] => x = y, \A z \in T : \E x \in S : f[x] = z
  PROVE  IsFiniteSet(T) /\ Cardinality(T) = Cardinality(S)
  <1>1. f \in Bijection(S, T)
    BY DEF Bijection, Injection, Surjection, IsInjective
  <1> QED BY <1>1, FS_Bijection DEF ExistsBijection

-----------------------------------------------------------------------------
(* Quotients.                                                              *)

LEMMA Quotient ==
  ASSUME NEW a \in Int, NEW b \in Nat \ {0}
  PROVE  a \div b \in Int /\ b * (a \div b) <= a /\ a < b * (a \div b) + b
  OBVIOUS

LEMMA ProductGrows ==
  ASSUME NEW b \in Nat, NEW q \in Int, NEW c \in Int, q <= c
  PROVE  b * q <= b * c
  OBVIOUS

\* A quotient is below c when the dividend is below c times the divisor.
LEMMA QuotientBelow ==
  ASSUME NEW a \in Int, NEW b \in Nat \ {0}, NEW c \in Int, a < b * c
  PROVE  a \div b < c
  <1> DEFINE q == a \div b
  <1>1. q \in Int /\ b * q <= a
    BY Quotient
  <1> HIDE DEF q
  <1>2. CASE c <= q
    <2>1. b * c <= b * q
      BY <1>1, <1>2, ProductGrows
    <2>2. b * c \in Int /\ b * q \in Int
      BY <1>1
    <2> QED BY <1>1, <2>1, <2>2
  <1> QED BY <1>1, <1>2 DEF q

\* A quotient is at least c when the dividend is at least c times the divisor.
LEMMA QuotientAbove ==
  ASSUME NEW a \in Int, NEW b \in Nat \ {0}, NEW c \in Int, b * c <= a
  PROVE  c <= a \div b
  <1> DEFINE q == a \div b
  <1>1. q \in Int /\ a < b * q + b
    BY Quotient
  <1> HIDE DEF q
  <1>2. CASE q < c
    <2>1. b * (q + 1) <= b * c
      BY <1>1, <1>2, ProductGrows
    <2>2. b * (q + 1) = b * q + b /\ b * q \in Int /\ b * c \in Int
      BY <1>1
    <2> QED BY <1>1, <2>1, <2>2
  <1> QED BY <1>1, <1>2 DEF q

LEMMA QuotientNatural ==
  ASSUME NEW a \in Nat, NEW b \in Nat \ {0}
  PROVE  a \div b \in Nat
  <1>1. a \div b \in Int
    BY Quotient
  <1>2. b * 0 <= a
    OBVIOUS
  <1>3. 0 <= a \div b
    BY <1>2, QuotientAbove
  <1> QED BY <1>1, <1>3

\* A smaller divisor has a greater quotient.
LEMMA QuotientFalls ==
  ASSUME NEW a \in Nat, NEW b \in Nat \ {0}, NEW c \in Nat \ {0}, b <= c
  PROVE  a \div c <= a \div b
  <1> DEFINE q == a \div c
  <1>1. q \in Int /\ c * q <= a
    BY Quotient
  <1>2. 0 <= q
    <2>1. c * 0 <= a
      OBVIOUS
    <2> QED BY <2>1, QuotientAbove
  <1> HIDE DEF q
  <1>3. b * q <= c * q
    <2>1. q * b <= q * c
      BY <1>1, <1>2, ProductGrows
    <2> QED BY <1>1, <2>1
  <1>4. b * q <= a
    <2>1. b * q \in Int /\ c * q \in Int
      BY <1>1
    <2> QED BY <1>1, <1>3, <2>1
  <1>5. q <= a \div b
    BY <1>1, <1>4, QuotientAbove
  <1> QED BY <1>5 DEF q

-----------------------------------------------------------------------------
(* The numbers in a finite set.                                            *)

\* A finite set of numbers has a greatest and a least element.
LEMMA MaxOfFinite ==
  ASSUME NEW S \in SUBSET Int, IsFiniteSet(S), S # {}
  PROVE  Max(S) \in S /\ \A y \in S : y <= Max(S)
  <1> DEFINE Above(x) == {z \in S : z > x}
             T == {Cardinality(Above(x)) : x \in S}
  <1>1. \A x \in S : IsFiniteSet(Above(x)) /\ Cardinality(Above(x)) \in Nat
    BY FS_Subset, FS_CardinalityType
  <1>2. T \subseteq Nat /\ T # {}
    BY <1>1
  <1>3. PICK x \in S : \A y \in S : Cardinality(Above(x)) <= Cardinality(Above(y))
    <2> HIDE DEF T
    <2>1. PICK t \in T : \A u \in T : t <= u
      BY <1>2, LeastNatural
    <2> QED BY <2>1 DEF T
  <1>4. ASSUME NEW y \in S PROVE x >= y
    <2> SUFFICES ASSUME y > x PROVE FALSE
      OBVIOUS
    <2>1. Above(y) \subseteq Above(x) /\ y \in Above(x) /\ y \notin Above(y)
      <3>1. x \in Int /\ y \in Int /\ \A z \in S : z \in Int
        OBVIOUS
      <3>2. ~(y > y) /\ \A z \in S : z > y => z > x
        BY <3>1
      <3> QED BY <3>2
    <2>2. Cardinality(Above(y)) < Cardinality(Above(x))
      <3> HIDE DEF Above
      <3>1. /\ Cardinality(Above(y)) <= Cardinality(Above(x))
            /\ Cardinality(Above(y)) # Cardinality(Above(x))
        BY <2>1, <1>1, FS_Subset
      <3> QED BY <3>1, <1>1
    <2> QED BY <2>2, <1>1, <1>3
  <1>5. \E z \in S : \A y \in S : z >= y
    BY <1>4
  <1>6. Max(S) \in S /\ \A y \in S : Max(S) >= y
    BY <1>5 DEF Max
  <1> QED BY <1>6

LEMMA MinOfFinite ==
  ASSUME NEW S \in SUBSET Int, IsFiniteSet(S), S # {}
  PROVE  Min(S) \in S /\ \A y \in S : Min(S) <= y
  <1> DEFINE Below(x) == {z \in S : z < x}
             T == {Cardinality(Below(x)) : x \in S}
  <1>1. \A x \in S : IsFiniteSet(Below(x)) /\ Cardinality(Below(x)) \in Nat
    BY FS_Subset, FS_CardinalityType
  <1>2. T \subseteq Nat /\ T # {}
    BY <1>1
  <1>3. PICK x \in S : \A y \in S : Cardinality(Below(x)) <= Cardinality(Below(y))
    <2> HIDE DEF T
    <2>1. PICK t \in T : \A u \in T : t <= u
      BY <1>2, LeastNatural
    <2> QED BY <2>1 DEF T
  <1>4. ASSUME NEW y \in S PROVE x <= y
    <2> SUFFICES ASSUME y < x PROVE FALSE
      OBVIOUS
    <2>1. Below(y) \subseteq Below(x) /\ y \in Below(x) /\ y \notin Below(y)
      <3>1. x \in Int /\ y \in Int /\ \A z \in S : z \in Int
        OBVIOUS
      <3>2. ~(y < y) /\ \A z \in S : z < y => z < x
        BY <3>1
      <3> QED BY <3>2
    <2>2. Cardinality(Below(y)) < Cardinality(Below(x))
      <3> HIDE DEF Below
      <3>1. /\ Cardinality(Below(y)) <= Cardinality(Below(x))
            /\ Cardinality(Below(y)) # Cardinality(Below(x))
        BY <2>1, <1>1, FS_Subset
      <3> QED BY <3>1, <1>1
    <2> QED BY <2>2, <1>1, <1>3
  <1>5. \E z \in S : \A y \in S : z <= y
    BY <1>4
  <1> QED BY <1>5 DEF Min

LEMMA OfTwo ==
  ASSUME NEW a \in Int, NEW b \in Int
  PROVE  /\ Min({a, b}) = IF a <= b THEN a ELSE b
         /\ Max({a, b}) = IF a <= b THEN b ELSE a
  <1>1. CASE a <= b
    BY <1>1 DEF Min, Max
  <1>2. CASE b < a
    BY <1>2 DEF Min, Max
  <1> QED BY <1>1, <1>2

\* The values of a function on a finite set.
LEMMA FiniteImage ==
  ASSUME NEW D, IsFiniteSet(D), NEW f
  PROVE  IsFiniteSet({f[x] : x \in D}) /\ Cardinality({f[x] : x \in D}) <= Cardinality(D)
  <1> DEFINE T == {f[x] : x \in D}
             g == [x \in D |-> f[x]]
  <1>1. g \in Surjection(D, T)
    BY DEF Surjection
  <1> HIDE DEF g, T
  <1>2. IsFiniteSet(T) /\ Cardinality(T) <= Cardinality(D)
    BY <1>1, FS_Surjection
  <1> QED BY <1>2 DEF T

\* The greatest of some numbers, or 0.
LEMMA MaxOrZero ==
  ASSUME NEW S \in SUBSET Int, IsFiniteSet(S)
  PROVE  /\ Max({0} \union S) \in Int /\ 0 <= Max({0} \union S)
         /\ \A y \in S : y <= Max({0} \union S)
         /\ Max({0} \union S) # 0 => Max({0} \union S) \in S
  <1> DEFINE T == {0} \union S
  <1>1. IsFiniteSet(T)
    BY FS_Singleton, FS_Union
  <1>2. T \in SUBSET Int /\ T # {} /\ 0 \in T
    OBVIOUS
  <1>3. Max(T) \in T /\ \A y \in T : y <= Max(T)
    <2> HIDE DEF T
    <2> QED BY <1>1, <1>2, MaxOfFinite
  <1> QED BY <1>2, <1>3

\* The greatest is the one that is reached and never exceeded.
LEMMA MaxIs ==
  ASSUME NEW S \in SUBSET Int, NEW m \in S, \A y \in S : y <= m
  PROVE  Max(S) = m
  <1>1. \A x \in S : (\A y \in S : x >= y) => x = m
    <2> SUFFICES ASSUME NEW x \in S, \A y \in S : x >= y PROVE x = m
      OBVIOUS
    <2>1. x >= m /\ x <= m /\ x \in Int /\ m \in Int
      OBVIOUS
    <2> QED BY <2>1
  <1>2. \A y \in S : m >= y
    OBVIOUS
  <1> QED BY <1>1, <1>2 DEF Max

\* How many numbers of S are not above x: the place of x in S.
Place(S, x) == Cardinality({y \in S : y <= x})

LEMMA PlaceType ==
  ASSUME NEW S, IsFiniteSet(S), NEW x
  PROVE  /\ IsFiniteSet({y \in S : y <= x})
         /\ Place(S, x) \in Nat /\ Place(S, x) <= Cardinality(S)
  BY FS_Subset, FS_CardinalityType DEF Place

LEMMA PlaceGrows ==
  ASSUME NEW S \in SUBSET Int, IsFiniteSet(S), NEW x \in S, NEW y \in S, x < y
  PROVE  Place(S, x) < Place(S, y)
  <1> DEFINE X == {z \in S : z <= x}
             Y == {z \in S : z <= y}
  <1>1. X \subseteq Y /\ y \in Y /\ y \notin X
    <2>1. x \in Int /\ y \in Int /\ \A z \in S : z \in Int
      OBVIOUS
    <2>2. y <= y /\ ~(y <= x) /\ \A z \in S : z <= x => z <= y
      BY <2>1
    <2> QED BY <2>2
  <1>2. IsFiniteSet(X) /\ IsFiniteSet(Y) /\ Cardinality(X) \in Nat /\ Cardinality(Y) \in Nat
    BY PlaceType DEF Place
  <1>3. Cardinality(X) <= Cardinality(Y) /\ Cardinality(X) # Cardinality(Y)
    <2> HIDE DEF X, Y
    <2> QED BY <1>1, <1>2, FS_Subset
  <1> QED BY <1>2, <1>3 DEF Place

\* Every place is taken, by one number.
LEMMA NthPlace ==
  ASSUME NEW S \in SUBSET Int, IsFiniteSet(S)
  PROVE  /\ Cardinality(S) \in Nat
         /\ \A n \in 1..Cardinality(S) : Nth(S, n) \in S /\ Place(S, Nth(S, n)) = n
         /\ \A x \in S : Place(S, x) \in 1..Cardinality(S) /\ Nth(S, Place(S, x)) = x
  <1> DEFINE f == [x \in S |-> Place(S, x)]
             N == 1..Cardinality(S)
  <1>1. Cardinality(S) \in Nat
    BY FS_CardinalityType
  <1>2. \A x, y \in S : Place(S, x) = Place(S, y) => x = y
    <2> SUFFICES ASSUME NEW x \in S, NEW y \in S, Place(S, x) = Place(S, y), x # y
                 PROVE  FALSE
      OBVIOUS
    <2>1. x < y \/ y < x
      OBVIOUS
    <2>2. Place(S, x) \in Nat /\ Place(S, y) \in Nat
      BY PlaceType, <1>1
    <2> QED BY <2>1, <2>2, PlaceGrows
  <1>3. ASSUME NEW x \in S PROVE Place(S, x) \in N
    <2>1. Place(S, x) \in Nat /\ Place(S, x) <= Cardinality(S)
      BY PlaceType
    <2>2. Place(S, x) # 0
      <3>1. x \in {y \in S : y <= x} /\ IsFiniteSet({y \in S : y <= x})
        BY PlaceType
      <3> QED BY <3>1, FS_EmptySet DEF Place
    <2> QED BY <2>1, <2>2, <1>1
  <1>4. f \in Injection(S, N)
    BY <1>2, <1>3 DEF Injection, IsInjective
  <1>5. f \in Surjection(S, N)
    <2>1. IsFiniteSet(N) /\ Cardinality(N) = Cardinality(S)
      BY <1>1, FS_Interval
    <2> HIDE DEF f, N
    <2> QED BY <1>4, <2>1, FS_Injection
  <1>6. \A n \in N : \E x \in S : Place(S, x) = n
    BY <1>5 DEF Surjection
  <1>7. \A n \in N : Nth(S, n) \in S /\ Place(S, Nth(S, n)) = n
    BY <1>6 DEF Nth, Place
  <1> QED BY <1>1, <1>2, <1>3, <1>7

\* The numbers come in order.
LEMMA NthGrows ==
  ASSUME NEW S \in SUBSET Int, IsFiniteSet(S),
         NEW m \in 1..Cardinality(S), NEW n \in 1..Cardinality(S)
  PROVE  m < n <=> Nth(S, m) < Nth(S, n)
  <1>1. /\ Nth(S, m) \in S /\ Place(S, Nth(S, m)) = m
        /\ Nth(S, n) \in S /\ Place(S, Nth(S, n)) = n
        /\ Cardinality(S) \in Nat
    BY NthPlace
  <1>2. Nth(S, m) < Nth(S, n) => m < n
    BY <1>1, PlaceGrows
  <1>3. Nth(S, n) < Nth(S, m) => n < m
    BY <1>1, PlaceGrows
  <1>4. Nth(S, m) = Nth(S, n) => m = n
    BY <1>1
  <1>5. m \in Int /\ n \in Int
    BY <1>1
  <1>6. Nth(S, m) \in Int /\ Nth(S, n) \in Int
    <2>1. Nth(S, m) \in S /\ Nth(S, n) \in S
      BY <1>1
    <2> QED BY <2>1
  <1> QED BY <1>2, <1>3, <1>4, <1>5, <1>6

\* What lists the numbers of S in order is the sequence of its n-th numbers.
LEMMA InOrder ==
  ASSUME NEW S \in SUBSET Int, NEW n \in Nat, NEW t \in [1..n -> S],
         \A k, l \in 1..n : k < l => t[k] < t[l],
         \A x \in S : \E k \in 1..n : t[k] = x
  PROVE  IsFiniteSet(S) /\ Cardinality(S) = n /\ \A k \in 1..n : Nth(S, k) = t[k]
  <1>1. \A k \in 1..n : t[k] \in S /\ t[k] \in Int
    OBVIOUS
  <1>2. \A k, l \in 1..n : t[k] <= t[l] <=> k <= l
    <2> SUFFICES ASSUME NEW k \in 1..n, NEW l \in 1..n PROVE t[k] <= t[l] <=> k <= l
      OBVIOUS
    <2>1. k < l \/ l < k \/ k = l
      OBVIOUS
    <2> QED BY <2>1, <1>1
  <1>3. IsFiniteSet(1..n) /\ Cardinality(1..n) = n
    BY FS_Interval
  <1>4. \A k, l \in 1..n : t[k] = t[l] => k = l
    <2>1. \A k, l \in 1..n : t[k] = t[l] => k <= l /\ l <= k
      BY <1>1, <1>2
    <2> QED BY <2>1
  <1>5. IsFiniteSet(S) /\ Cardinality(S) = n
    BY <1>3, <1>4, SameNumber
  <1>6. ASSUME NEW k \in 1..n PROVE Place(S, t[k]) = k
    <2> DEFINE T == {y \in S : y <= t[k]}
               g == [j \in 1..k |-> t[j]]
    <2>1. \A j \in 1..k : j \in 1..n /\ t[j] \in T
      BY <1>1, <1>2
    <2>2. g \in [1..k -> T]
      BY <2>1
    <2>3. \A z \in T : \E j \in 1..k : g[j] = z
      BY <1>2
    <2>4. \A h, j \in 1..k : g[h] = g[j] => h = j
      BY <1>4, <2>1
    <2>5. IsFiniteSet(1..k) /\ Cardinality(1..k) = k
      BY FS_Interval
    <2> HIDE DEF T, g
    <2>6. Cardinality(T) = k
      BY <2>2, <2>3, <2>4, <2>5, SameNumber
    <2> QED BY <2>6 DEF T, Place
  <1>7. ASSUME NEW k \in 1..n PROVE Nth(S, k) = t[k]
    <2>1. Nth(S, Place(S, t[k])) = t[k]
      BY <1>1, <1>5, NthPlace
    <2> QED BY <2>1, <1>6
  <1> QED BY <1>5, <1>7

\* What does not fall from one place to the next does not fall at all.
LEMMA NeverFalls ==
  ASSUME NEW n \in Nat, NEW t \in [1..n -> Int], \A k \in 1..(n - 1) : t[k] <= t[k + 1],
         NEW a \in 1..n, NEW b \in a..n
  PROVE  t[a] <= t[b]
  <1> DEFINE S == {j \in Nat : a + j <= n => t[a] <= t[a + j]}
  <1>1. 0 \in S
    OBVIOUS
  <1>2. ASSUME NEW j \in Nat, j \in S PROVE j + 1 \in S
    <2> SUFFICES ASSUME a + (j + 1) <= n PROVE t[a] <= t[a + (j + 1)]
      OBVIOUS
    <2>1. /\ a + j \in 1..(n - 1) /\ a + j \in 1..n /\ a + (j + 1) = (a + j) + 1
          /\ (a + j) + 1 \in 1..n
      OBVIOUS
    <2>2. t[a] <= t[a + j] /\ t[a + j] <= t[(a + j) + 1]
      BY <1>2, <2>1
    <2>3. t[a] \in Int /\ t[a + j] \in Int /\ t[(a + j) + 1] \in Int
      BY <2>1
    <2> QED BY <2>1, <2>2, <2>3
  <1>3. b - a \in Nat /\ a + (b - a) = b /\ b <= n
    OBVIOUS
  <1>4. b - a \in S
    <2> HIDE DEF S
    <2> QED BY <1>1, <1>2, <1>3, SetInduction
  <1> QED BY <1>3, <1>4

\* Among integers in order two are at least as far apart as their places.
LEMMA NthApart ==
  ASSUME NEW S \in SUBSET Int, IsFiniteSet(S),
         NEW a \in 1..Cardinality(S), NEW b \in a..Cardinality(S)
  PROVE  b - a <= Nth(S, b) - Nth(S, a)
  <1> DEFINE n == Cardinality(S)
             t == [k \in 1..n |-> Nth(S, k) - k]
  <1>1. n \in Nat /\ \A k \in 1..n : Nth(S, k) \in Int
    BY NthPlace
  <1>2. t \in [1..n -> Int]
    BY <1>1
  <1>3. \A k \in 1..(n - 1) : t[k] <= t[k + 1]
    <2> SUFFICES ASSUME NEW k \in 1..(n - 1) PROVE t[k] <= t[k + 1]
      OBVIOUS
    <2>1. k \in 1..n /\ k + 1 \in 1..n /\ k < k + 1
      BY <1>1
    <2>2. Nth(S, k) < Nth(S, k + 1)
      BY <2>1, NthGrows
    <2>3. t[k] = Nth(S, k) - k /\ t[k + 1] = Nth(S, k + 1) - (k + 1)
      BY <2>1
    <2> HIDE DEF t, n
    <2> QED BY <1>1, <2>1, <2>2, <2>3
  <1>4. a \in 1..n /\ b \in a..n /\ b \in 1..n
    BY <1>1
  <1>5. t[a] <= t[b]
    <2> HIDE DEF t, n
    <2> QED BY <1>1, <1>2, <1>3, <1>4, NeverFalls
  <1>6. t[a] = Nth(S, a) - a /\ t[b] = Nth(S, b) - b
    BY <1>4
  <1> HIDE DEF t, n
  <1> QED BY <1>1, <1>4, <1>5, <1>6

\* The numbers of an interval that begins at 1 or at 0, in order.
LEMMA NthOfInterval ==
  ASSUME NEW n \in Nat
  PROVE  /\ \A k \in 1..n : Nth(1..n, k) = k
         /\ \A k \in 1..n : Nth(0..(n - 1), k) = k - 1
         /\ Cardinality(1..n) = n /\ Cardinality(0..(n - 1)) = n
         /\ IsFiniteSet(1..n) /\ IsFiniteSet(0..(n - 1))
  <1> DEFINE one == [k \in 1..n |-> k]
             zero == [k \in 1..n |-> k - 1]
  <1>1. /\ IsFiniteSet(1..n) /\ Cardinality(1..n) = n
        /\ \A k \in 1..n : Nth(1..n, k) = one[k]
    <2> DEFINE O == 1..n
    <2>1. /\ one \in [1..n -> O] /\ \A k, l \in 1..n : k < l => one[k] < one[l]
          /\ \A x \in O : \E k \in 1..n : one[k] = x
      OBVIOUS
    <2>2. O \in SUBSET Int
      OBVIOUS
    <2> HIDE DEF one, O
    <2>3. IsFiniteSet(O) /\ Cardinality(O) = n /\ \A k \in 1..n : Nth(O, k) = one[k]
      BY <2>1, <2>2, InOrder
    <2> QED BY <2>3 DEF O
  <1>2. /\ IsFiniteSet(0..(n - 1)) /\ Cardinality(0..(n - 1)) = n
        /\ \A k \in 1..n : Nth(0..(n - 1), k) = zero[k]
    <2> DEFINE Z == 0..(n - 1)
    <2>1. zero \in [1..n -> Z] /\ \A k, l \in 1..n : k < l => zero[k] < zero[l]
      OBVIOUS
    <2>2. \A x \in Z : \E k \in 1..n : zero[k] = x
      <3> SUFFICES ASSUME NEW x \in Z PROVE \E k \in 1..n : zero[k] = x
        OBVIOUS
      <3>1. x + 1 \in 1..n /\ zero[x + 1] = x
        OBVIOUS
      <3> HIDE DEF zero
      <3> QED BY <3>1
    <2>3. Z \in SUBSET Int
      OBVIOUS
    <2> HIDE DEF zero, Z
    <2>4. IsFiniteSet(Z) /\ Cardinality(Z) = n /\ \A k \in 1..n : Nth(Z, k) = zero[k]
      BY <2>1, <2>2, <2>3, InOrder
    <2> QED BY <2>4 DEF Z
  <1> QED BY <1>1, <1>2

-----------------------------------------------------------------------------
(* Medians.                                                                *)

\* How many of the values are below v, and how many are not above it.
Below(values, v) == Cardinality({k \in DOMAIN values : values[k] < v})
UpTo(values, v) == Cardinality({k \in DOMAIN values : values[k] <= v})

LEMMA CountsType ==
  ASSUME NEW D, IsFiniteSet(D), NEW f \in [D -> Int], NEW v \in Int
  PROVE  Below(f, v) \in Nat /\ UpTo(f, v) \in Nat
  <1>1. DOMAIN f = D
    OBVIOUS
  <1>2. {k \in D : f[k] < v} \subseteq D /\ {k \in D : f[k] <= v} \subseteq D
    OBVIOUS
  <1> QED BY <1>1, <1>2, FS_Subset, FS_CardinalityType DEF Below, UpTo

\* Among finitely many values there is one of every rank.
LEMMA RankedExists ==
  ASSUME NEW D, IsFiniteSet(D), NEW f \in [D -> Int], NEW n \in 1..Cardinality(D)
  PROVE  Ranked(f, n) \in Range(f) /\ Below(f, Ranked(f, n)) < n /\ n <= UpTo(f, Ranked(f, n))
  <1> DEFINE R == Range(f)
             High == {v \in R : n <= UpTo(f, v)}
  <1>1. Cardinality(D) \in Nat /\ D # {} /\ n \in Nat /\ n <= Cardinality(D)
    <2>1. Cardinality(D) \in Nat
      BY FS_CardinalityType
    <2>2. n \in Nat /\ n <= Cardinality(D) /\ n >= 1
      BY <2>1
    <2> QED BY <2>1, <2>2, FS_EmptySet
  <1>2. R \subseteq Int /\ R # {} /\ IsFiniteSet(R)
    <2>1. f \in Surjection(D, R)
      BY DEF Surjection, Range
    <2>2. IsFiniteSet(R)
      <3> HIDE DEF R
      <3> QED BY <2>1, FS_Surjection
    <2>3. R \subseteq Int /\ R # {}
      BY <1>1 DEF Range
    <2> QED BY <2>2, <2>3
  <1>3. \A v \in R : v \in Int /\ Below(f, v) \in Nat /\ UpTo(f, v) \in Nat
    BY <1>2, CountsType
  <1>4. High # {}
    <2>1. Max(R) \in R /\ \A v \in R : v <= Max(R)
      <3> HIDE DEF R
      <3> QED BY <1>2, MaxOfFinite
    <2>2. {k \in DOMAIN f : f[k] <= Max(R)} = D
      BY <2>1 DEF Range
    <2>3. UpTo(f, Max(R)) = Cardinality(D)
      BY <2>2 DEF UpTo
    <2> QED BY <2>1, <2>3, <1>1
  <1>5. High \subseteq R /\ High \subseteq Int /\ IsFiniteSet(High)
    <2>1. High \subseteq R
      OBVIOUS
    <2> HIDE DEF High, R
    <2> QED BY <2>1, <1>2, FS_Subset
  <1>6. Min(High) \in High /\ \A v \in High : Min(High) <= v
    <2> HIDE DEF High
    <2> QED BY <1>4, <1>5, MinOfFinite
  <1> DEFINE v == Min(High)
  <1>7. Below(f, v) < n
    <2> SUFFICES ASSUME n <= Below(f, v) PROVE FALSE
      <3>1. Below(f, v) \in Nat
        BY <1>3, <1>6
      <3> QED BY <3>1, <1>1
    <2> DEFINE K == {k \in D : f[k] < v}
               L == {f[k] : k \in K}
    <2>1. K # {} /\ Below(f, v) = Cardinality(K)
      <3>1. DOMAIN f = D
        OBVIOUS
      <3>2. Below(f, v) = Cardinality(K)
        BY <3>1 DEF Below
      <3>3. Cardinality(K) # 0
        BY <3>2, <1>1
      <3> QED BY <3>2, <3>3, FS_EmptySet
    <2>2. L \subseteq R /\ L # {}
      BY <2>1 DEF Range
    <2>3. L \subseteq Int /\ IsFiniteSet(L)
      <3> HIDE DEF L, R
      <3> QED BY <2>2, <1>2, FS_Subset
    <2>4. Max(L) \in L /\ \A u \in L : u <= Max(L)
      <3> HIDE DEF L
      <3> QED BY <2>2, <2>3, MaxOfFinite
    <2> DEFINE u == Max(L)
    <2>5. u \in R /\ u < v
      BY <2>2, <2>4
    <2>6. {k \in DOMAIN f : f[k] <= u} = K
      <3>1. DOMAIN f = D /\ \A k \in D : f[k] \in Int
        OBVIOUS
      <3>2. u \in Int /\ v \in Int /\ u < v
        BY <2>5, <1>2, <1>3, <1>6
      <3>3. \A k \in K : f[k] <= u
        BY <2>4
      <3>4. \A k \in D : f[k] <= u => f[k] < v
        <4> HIDE DEF u, v
        <4> QED BY <3>1, <3>2
      <3> QED BY <3>1, <3>3, <3>4
    <2>7. UpTo(f, u) = Below(f, v)
      BY <2>1, <2>6 DEF UpTo
    <2>8. u \in High
      BY <2>5, <2>7
    <2>9. v <= u /\ u \in Int /\ v \in Int
      BY <2>8, <1>5, <1>6
    <2> QED BY <2>5, <2>9
  <1>8. \E w \in R : Below(f, w) < n /\ n <= UpTo(f, w)
    BY <1>6, <1>7
  <1> QED BY <1>8 DEF Ranked, Below, UpTo

\* Greater values have greater values of every rank.
LEMMA RankedMonotone ==
  ASSUME NEW D, IsFiniteSet(D), NEW f \in [D -> Int], NEW g \in [D -> Int],
         \A k \in D : f[k] <= g[k], NEW n \in 1..Cardinality(D)
  PROVE  Ranked(f, n) <= Ranked(g, n)
  <1> DEFINE a == Ranked(f, n)
             b == Ranked(g, n)
  <1>1. Below(f, a) < n /\ n <= UpTo(g, b)
    BY RankedExists
  <1>2. a \in Int /\ b \in Int
    <2>1. a \in Range(f) /\ b \in Range(g)
      BY RankedExists
    <2> QED BY <2>1 DEF Range
  <1>3. DOMAIN f = D /\ DOMAIN g = D
    OBVIOUS
  <1> HIDE DEF a, b
  <1>4. CASE b < a
    <2> DEFINE F == {k \in D : f[k] < a}
               G == {k \in D : g[k] <= b}
    <2>1. G \subseteq F
      <3> SUFFICES ASSUME NEW k \in D, g[k] <= b PROVE f[k] < a
        OBVIOUS
      <3>1. f[k] \in Int /\ g[k] \in Int /\ f[k] <= g[k]
        OBVIOUS
      <3> QED BY <3>1, <1>2, <1>4
    <2>2. IsFiniteSet(F) /\ Cardinality(F) \in Nat
      BY FS_Subset, FS_CardinalityType
    <2>3. Cardinality(G) \in Nat /\ Cardinality(G) <= Cardinality(F)
      <3> HIDE DEF F, G
      <3> QED BY <2>1, <2>2, FS_Subset, FS_CardinalityType
    <2>4. Below(f, a) = Cardinality(F) /\ UpTo(g, b) = Cardinality(G)
      BY <1>3 DEF Below, UpTo
    <2>5. n \in Nat
      BY FS_CardinalityType
    <2> QED BY <2>2, <2>3, <2>4, <2>5, <1>1
  <1> QED BY <1>2, <1>4 DEF a, b

\* Half of a number of values, rounded either way, is a rank.
LEMMA Middle ==
  ASSUME NEW D, IsFiniteSet(D), D # {}
  PROVE  /\ (Cardinality(D) + 1) \div 2 \in 1..Cardinality(D)
         /\ Cardinality(D) \div 2 + 1 \in 1..Cardinality(D)
  <1>1. Cardinality(D) \in Nat \ {0}
    BY FS_CardinalityType, FS_EmptySet
  <1> DEFINE n == Cardinality(D)
  <1> HIDE DEF n
  <1>2. n \in Nat \ {0} => (n + 1) \div 2 \in 1..n /\ n \div 2 + 1 \in 1..n
    OBVIOUS
  <1> QED BY <1>1, <1>2 DEF n

\* The median of integers is one, doubled.
LEMMA MedianType ==
  ASSUME NEW D, IsFiniteSet(D), D # {}, NEW f \in [D -> Int]
  PROVE  Median2(f) \in Int
  <1> DEFINE a == Ranked(f, (Cardinality(D) + 1) \div 2)
             b == Ranked(f, Cardinality(D) \div 2 + 1)
  <1>1. Median2(f) = a + b
    BY DEF Median2
  <1>2. a \in Range(f) /\ b \in Range(f)
    BY Middle, RankedExists
  <1>3. a \in Int /\ b \in Int
    BY <1>2 DEF Range
  <1> HIDE DEF a, b
  <1> QED BY <1>1, <1>3

\* A median lies between the least and the greatest value.
LEMMA MedianBetween ==
  ASSUME NEW D, IsFiniteSet(D), D # {}, NEW lo \in Int, NEW hi \in Int,
         NEW f \in [D -> Int], \A k \in D : lo <= f[k] /\ f[k] <= hi
  PROVE  Median2(f) \in Int /\ 2 * lo <= Median2(f) /\ Median2(f) <= 2 * hi
  <1> DEFINE n == Cardinality(DOMAIN f)
  <1>1. DOMAIN f = D
    OBVIOUS
  <1>2. ASSUME NEW m \in 1..Cardinality(D)
        PROVE  Ranked(f, m) \in Int /\ lo <= Ranked(f, m) /\ Ranked(f, m) <= hi
    <2>1. Ranked(f, m) \in Range(f)
      BY RankedExists
    <2>2. PICK k \in D : Ranked(f, m) = f[k]
      BY <2>1 DEF Range
    <2> QED BY <2>2
  <1> DEFINE a == Ranked(f, (n + 1) \div 2)
             b == Ranked(f, n \div 2 + 1)
  <1>3. a \in Int /\ lo <= a /\ a <= hi /\ b \in Int /\ lo <= b /\ b <= hi
    BY <1>1, <1>2, Middle
  <1>4. Median2(f) = a + b
    BY DEF Median2
  <1> HIDE DEF a, b
  <1> QED BY <1>3, <1>4

\* Greater values have a greater median.
LEMMA MedianMonotone ==
  ASSUME NEW D, IsFiniteSet(D), D # {}, NEW f \in [D -> Int], NEW g \in [D -> Int],
         \A k \in D : f[k] <= g[k]
  PROVE  Median2(f) <= Median2(g)
  <1> DEFINE n == Cardinality(D)
             p == (n + 1) \div 2
             q == n \div 2 + 1
  <1>1. DOMAIN f = D /\ DOMAIN g = D
    OBVIOUS
  <1>2. p \in 1..Cardinality(D) /\ q \in 1..Cardinality(D)
    BY Middle
  <1>3. Median2(f) = Ranked(f, p) + Ranked(f, q) /\ Median2(g) = Ranked(g, p) + Ranked(g, q)
    BY <1>1 DEF Median2
  <1> HIDE DEF p, q
  <1>4. Ranked(f, p) <= Ranked(g, p) /\ Ranked(f, q) <= Ranked(g, q)
    BY <1>2, RankedMonotone
  <1>5. \A m \in 1..Cardinality(D) : Ranked(f, m) \in Int /\ Ranked(g, m) \in Int
    <2> SUFFICES ASSUME NEW m \in 1..Cardinality(D)
                 PROVE  Ranked(f, m) \in Int /\ Ranked(g, m) \in Int
      OBVIOUS
    <2>1. Ranked(f, m) \in Range(f) /\ Ranked(g, m) \in Range(g)
      BY RankedExists
    <2> QED BY <2>1 DEF Range
  <1>6. /\ Ranked(f, p) \in Int /\ Ranked(g, p) \in Int
        /\ Ranked(f, q) \in Int /\ Ranked(g, q) \in Int
    BY <1>2, <1>5
  <1> QED BY <1>3, <1>4, <1>6

-----------------------------------------------------------------------------
(* Finite sets in parts, and the median of mostly great values.            *)

\* n finite sets of at most h elements each cover at most n * h.
LEMMA CoveredBy ==
  ASSUME NEW n \in Nat, NEW h \in Nat, NEW F,
         \A c \in 1..n : IsFiniteSet(F[c]) /\ Cardinality(F[c]) <= h
  PROVE  IsFiniteSet(UNION {F[c] : c \in 1..n}) /\ Cardinality(UNION {F[c] : c \in 1..n}) <= n * h
  <1> DEFINE U(m) == UNION {F[c] : c \in 1..m}
             S == {m \in Nat : m <= n => IsFiniteSet(U(m)) /\ Cardinality(U(m)) <= m * h}
  <1>1. 0 \in S
    <2>1. U(0) = {}
      OBVIOUS
    <2> QED BY <2>1, FS_EmptySet
  <1>2. ASSUME NEW m \in Nat, m \in S PROVE m + 1 \in S
    <2> SUFFICES ASSUME m + 1 <= n
                 PROVE  IsFiniteSet(U(m + 1)) /\ Cardinality(U(m + 1)) <= (m + 1) * h
      OBVIOUS
    <2>1. U(m + 1) = U(m) \union F[m + 1]
      <3>1. 1..(m + 1) = (1..m) \union {m + 1}
        OBVIOUS
      <3> QED BY <3>1
    <2>2. IsFiniteSet(U(m)) /\ Cardinality(U(m)) <= m * h
      BY <1>2
    <2>3. IsFiniteSet(F[m + 1]) /\ Cardinality(F[m + 1]) <= h
      OBVIOUS
    <2> HIDE DEF U
    <2>4. /\ IsFiniteSet(U(m + 1))
          /\ Cardinality(U(m + 1)) =
               Cardinality(U(m)) + Cardinality(F[m + 1]) - Cardinality(U(m) \intersect F[m + 1])
      BY <2>1, <2>2, <2>3, FS_Union
    <2>5. /\ Cardinality(U(m)) \in Nat /\ Cardinality(F[m + 1]) \in Nat
          /\ Cardinality(U(m) \intersect F[m + 1]) \in Nat
      BY <2>2, <2>3, FS_Intersection, FS_CardinalityType
    <2>6. (m + 1) * h = m * h + h /\ m * h \in Nat
      OBVIOUS
    <2> QED BY <2>2, <2>3, <2>4, <2>5, <2>6
  <1> HIDE DEF U
  <1>3. n \in S
    BY <1>1, <1>2, SetInduction
  <1> QED BY <1>3 DEF U

\* n disjoint parts of a finite set with at least r elements each.
LEMMA PackedIn ==
  ASSUME NEW T, IsFiniteSet(T), NEW n \in Nat, NEW r \in Nat, NEW F,
         \A c \in 1..n : F[c] \subseteq T /\ r <= Cardinality(F[c]),
         \A c, d \in 1..n : c < d => F[c] \intersect F[d] = {}
  PROVE  n * r <= Cardinality(T)
  <1> DEFINE U(m) == UNION {F[c] : c \in 1..m}
             S == {m \in Nat : m <= n => m * r <= Cardinality(U(m))}
  <1>1. 0 \in S
    <2>1. U(0) = {}
      OBVIOUS
    <2> QED BY <2>1, FS_EmptySet
  <1>2. \A m \in Nat : m <= n => U(m) \subseteq T /\ IsFiniteSet(U(m)) /\ Cardinality(U(m)) \in Nat
    <2> SUFFICES ASSUME NEW m \in Nat, m <= n
                 PROVE  U(m) \subseteq T /\ IsFiniteSet(U(m)) /\ Cardinality(U(m)) \in Nat
      OBVIOUS
    <2>1. \A c \in 1..m : F[c] \subseteq T
      OBVIOUS
    <2>2. U(m) \subseteq T
      BY <2>1
    <2> QED BY <2>2, FS_Subset, FS_CardinalityType
  <1>3. ASSUME NEW m \in Nat, m \in S PROVE m + 1 \in S
    <2> SUFFICES ASSUME m + 1 <= n PROVE (m + 1) * r <= Cardinality(U(m + 1))
      OBVIOUS
    <2>1. U(m + 1) = U(m) \union F[m + 1]
      <3>1. 1..(m + 1) = (1..m) \union {m + 1}
        OBVIOUS
      <3> QED BY <3>1
    <2>2. U(m) \intersect F[m + 1] = {}
      <3> SUFFICES ASSUME NEW c \in 1..m PROVE F[c] \intersect F[m + 1] = {}
        OBVIOUS
      <3>1. c \in 1..n /\ m + 1 \in 1..n /\ c < m + 1
        OBVIOUS
      <3> QED BY <3>1
    <2>3. IsFiniteSet(U(m)) /\ Cardinality(U(m)) \in Nat /\ m * r <= Cardinality(U(m))
      BY <1>2, <1>3
    <2>4. F[m + 1] \subseteq T /\ r <= Cardinality(F[m + 1])
      OBVIOUS
    <2> HIDE DEF U
    <2>5. IsFiniteSet(F[m + 1]) /\ Cardinality(F[m + 1]) \in Nat
      BY <2>4, FS_Subset, FS_CardinalityType
    <2>6. Cardinality(U(m + 1)) = Cardinality(U(m)) + Cardinality(F[m + 1])
      <3>1. Cardinality(U(m) \intersect F[m + 1]) = 0
        BY <2>2, FS_EmptySet
      <3>2. Cardinality(U(m + 1)) =
              Cardinality(U(m)) + Cardinality(F[m + 1]) - Cardinality(U(m) \intersect F[m + 1])
        BY <2>1, <2>3, <2>5, FS_Union
      <3> QED BY <2>3, <2>5, <3>1, <3>2
    <2>7. (m + 1) * r = m * r + r /\ m * r \in Nat
      OBVIOUS
    <2> QED BY <2>3, <2>4, <2>5, <2>6, <2>7
  <1> HIDE DEF U
  <1>4. n \in S
    BY <1>1, <1>3, SetInduction
  <1>5. U(n) \subseteq T /\ Cardinality(U(n)) \in Nat
    BY <1>2
  <1>6. Cardinality(U(n)) <= Cardinality(T) /\ Cardinality(T) \in Nat
    BY <1>5, FS_Subset, FS_CardinalityType
  <1> QED BY <1>4, <1>5, <1>6

\* When fewer values than half are below v, the median is not.
LEMMA MostlyAbove ==
  ASSUME NEW D, IsFiniteSet(D), NEW h \in Nat, Cardinality(D) = 2 * h + 1,
         NEW f \in [D -> Int], NEW v \in Int, Cardinality({k \in D : f[k] < v}) <= h
  PROVE  Median2(f) \in Int /\ 2 * v <= Median2(f)
  <1> DEFINE m == Ranked(f, h + 1)
  <1>1. (Cardinality(D) + 1) \div 2 = h + 1 /\ Cardinality(D) \div 2 + 1 = h + 1
    OBVIOUS
  <1>2. m \in Range(f) /\ h + 1 <= UpTo(f, m)
    <2>1. h + 1 \in 1..Cardinality(D)
      OBVIOUS
    <2> QED BY <2>1, RankedExists
  <1>3. m \in Int
    BY <1>2 DEF Range
  <1>4. v <= m
    <2> SUFFICES ASSUME m < v PROVE FALSE
      BY <1>3
    <2> HIDE DEF m
    <2>1. {k \in D : f[k] <= m} \subseteq {k \in D : f[k] < v}
      BY <1>3
    <2>2. IsFiniteSet({k \in D : f[k] < v})
      BY FS_Subset
    <2>3. Cardinality({k \in D : f[k] <= m}) <= Cardinality({k \in D : f[k] < v})
      BY <2>1, <2>2, FS_Subset
    <2>4. UpTo(f, m) = Cardinality({k \in D : f[k] <= m})
      BY DEF UpTo
    <2>5. /\ Cardinality({k \in D : f[k] <= m}) \in Nat
          /\ Cardinality({k \in D : f[k] < v}) \in Nat
      BY <2>1, <2>2, FS_Subset, FS_CardinalityType
    <2> QED BY <1>2, <2>3, <2>4, <2>5
  <1>5. Median2(f) = m + m
    BY <1>1 DEF Median2
  <1> HIDE DEF m
  <1> QED BY <1>3, <1>4, <1>5

-----------------------------------------------------------------------------
(* The loop of _runs.                                                      *)

ScanType ==
  /\ mask \in Seq(BOOLEAN)
  /\ pc \in {"logging", "scanning", "done"}
  /\ i \in 0..Len(mask) /\ start \in 0..i
  /\ found \in Seq(Nat \X Nat)

\* Before the loop nothing is found.
Idle == pc = "logging" => i = 0 /\ start = 0 /\ found = <<>>

\* What was appended so far is maximal, behind the samples visited, in order.
FoundSoFar ==
  /\ \A k \in 1..Len(found) :
       IsRun(mask, found[k][1], found[k][2]) /\ found[k][2] <= i
  /\ \A k, l \in 1..Len(found) : k < l => found[k][2] < found[l][1]

\* The open run begins where the samples turn TRUE and lasts up to i, behind
\* everything found; without one, sample i is FALSE.
OpenSoFar ==
  pc = "scanning" =>
    /\ start # 0 => /\ \A p \in start..i : mask[p]
                    /\ start > 1 => ~mask[start - 1]
                    /\ \A k \in 1..Len(found) : found[k][2] < start
    /\ start = 0 /\ i > 0 => ~mask[i]

\* Every TRUE sample visited is in a run that was found or in the open one.
Covered ==
  \A p \in 1..i : mask[p] =>
    \/ \E k \in 1..Len(found) : p \in found[k][1]..found[k][2]
    \/ pc = "scanning" /\ start # 0 /\ start <= p

\* When the scan is over every sample was visited, unless none was TRUE.
Visited == pc = "done" => i = Len(mask) \/ \A p \in 1..Len(mask) : ~mask[p]

ScanInv == ScanType /\ Idle /\ FoundSoFar /\ OpenSoFar /\ Covered /\ Visited

-----------------------------------------------------------------------------

\* Appending one run to the list: what is where afterwards.
LEMMA AppendRun ==
  ASSUME NEW s \in Seq(Nat \X Nat), NEW a \in Nat, NEW b \in Nat
  PROVE  /\ Append(s, <<a, b>>) \in Seq(Nat \X Nat)
         /\ Len(Append(s, <<a, b>>)) = Len(s) + 1
         /\ \A k \in 1..Len(s) : Append(s, <<a, b>>)[k] = s[k]
         /\ Append(s, <<a, b>>)[Len(s) + 1] = <<a, b>>
<1>1. <<a, b>> \in Nat \X Nat
  OBVIOUS
<1> QED  BY <1>1, AppendProperties

\* Closing the open run a..b keeps what was found and adds one maximal run
\* behind it.
LEMMA CloseFound ==
  ASSUME NEW s \in Seq(Nat \X Nat), NEW m, NEW a \in Nat, NEW b \in Nat,
         IsRun(m, a, b),
         \A k \in 1..Len(s) : IsRun(m, s[k][1], s[k][2]) /\ s[k][2] < a,
         \A k, l \in 1..Len(s) : k < l => s[k][2] < s[l][1]
  PROVE  LET t == Append(s, <<a, b>>) IN
         /\ \A k \in 1..Len(t) : IsRun(m, t[k][1], t[k][2]) /\ t[k][2] <= b
         /\ \A k, l \in 1..Len(t) : k < l => t[k][2] < t[l][1]
<1> DEFINE t == Append(s, <<a, b>>)
<1>1. /\ Len(t) = Len(s) + 1 /\ Len(s) \in Nat
      /\ \A k \in 1..Len(s) : t[k] = s[k]
      /\ t[Len(s) + 1] = <<a, b>>
  BY AppendRun, LenProperties
<1> HIDE DEF t
<1>2. a <= b
  BY DEF IsRun
<1>3. \A k \in 1..Len(s) : s[k][2] \in Nat
  BY ElementOfSeq
<1>4. ASSUME NEW k \in 1..Len(t)
      PROVE  IsRun(m, t[k][1], t[k][2]) /\ t[k][2] <= b
  <2>1. CASE k \in 1..Len(s)
    <3>1. t[k] = s[k] /\ s[k][2] \in Nat /\ s[k][2] < a /\ IsRun(m, s[k][1], s[k][2])
      BY <2>1, <1>1, <1>3
    <3>2. s[k][2] <= b
      BY <3>1, <1>2
    <3> QED  BY <3>1, <3>2
  <2>2. CASE k = Len(s) + 1
    BY <2>2, <1>1
  <2> QED  BY <2>1, <2>2, <1>1
<1>5. ASSUME NEW k \in 1..Len(t), NEW l \in 1..Len(t), k < l
      PROVE  t[k][2] < t[l][1]
  <2>1. k \in 1..Len(s)
    BY <1>1, <1>5
  <2>2. CASE l \in 1..Len(s)
    BY <2>1, <2>2, <1>1, <1>5
  <2>3. CASE l = Len(s) + 1
    <3>1. t[k] = s[k] /\ s[k][2] < a
      BY <2>1, <1>1
    <3>2. t[l][1] = a
      BY <2>3, <1>1
    <3> QED  BY <3>1, <3>2
  <2> QED  BY <2>2, <2>3, <1>1
<1> QED  BY <1>4, <1>5 DEF t

LEMMA ScanInitInv == ScanInit => ScanInv
BY DEF ScanInit, ScanInv, ScanType, Idle, FoundSoFar, OpenSoFar, Covered, Visited

\* A sample logged before the call changes nothing else.
LEMMA LogStep ==
  ASSUME ScanInv, NEW v \in BOOLEAN, LogSample(v)
  PROVE  ScanInv'
<1>1. mask' \in Seq(BOOLEAN) /\ Len(mask') = Len(mask) + 1 /\ Len(mask) \in Nat
  BY AppendProperties, LenProperties DEF LogSample, ScanInv, ScanType
<1>2. i = 0 /\ start = 0 /\ found = <<>> /\ pc = "logging"
  BY DEF LogSample, ScanInv, Idle
<1>3. UNCHANGED <<pc, i, start, found>>
  BY DEF LogSample
<1>4. ScanType'
  BY <1>1, <1>2, <1>3 DEF ScanInv, ScanType
<1>5. Idle' /\ FoundSoFar' /\ OpenSoFar' /\ Covered' /\ Visited'
  BY <1>2, <1>3 DEF Idle, FoundSoFar, OpenSoFar, Covered, Visited
<1> QED  BY <1>4, <1>5 DEF ScanInv

\* The call itself: nothing was visited yet.
LEMMA CallStep ==
  ASSUME ScanInv, Call
  PROVE  ScanInv'
<1>1. i = 0 /\ start = 0 /\ found = <<>>
  BY DEF Call, ScanInv, Idle
<1>2. UNCHANGED <<mask, i, start, found>>
  BY DEF Call
<1>3. ScanType'
  BY <1>2 DEF Call, ScanInv, ScanType
<1>4. Visited'
  BY DEF Call, Visited
<1>5. Idle' /\ FoundSoFar' /\ OpenSoFar' /\ Covered'
  BY <1>1, <1>2 DEF Call, Idle, FoundSoFar, OpenSoFar, Covered
<1> QED  BY <1>3, <1>4, <1>5 DEF ScanInv

\* A TRUE sample after a FALSE one, or the first: a run opens there.
LEMMA OpenStep ==
  ASSUME ScanInv, OpenRun
  PROVE  ScanInv'
<1> USE DEF ScanInv
<1>1. /\ pc = "scanning" /\ pc' = "scanning" /\ i < Len(mask) /\ i' = i + 1
      /\ start = 0 /\ start' = i + 1 /\ mask' = mask /\ found' = found
      /\ mask[i + 1]
  BY DEF OpenRun, Visiting
<1>2. i \in Nat /\ Len(mask) \in Nat
  BY LenProperties DEF ScanType
<1>3. ScanType'
  BY <1>1, <1>2 DEF ScanType
<1>4. \A k \in 1..Len(found) : found[k][2] \in Nat
  BY ElementOfSeq DEF ScanType
<1>5. FoundSoFar'
  BY <1>1, <1>2, <1>4 DEF FoundSoFar
<1>6. OpenSoFar'
  BY <1>1, <1>2, <1>4 DEF OpenSoFar, FoundSoFar
<1>7. Covered'
  <2> SUFFICES ASSUME NEW p \in 1..(i + 1), mask[p], p # i + 1
               PROVE  \E k \in 1..Len(found) : p \in found[k][1]..found[k][2]
    BY <1>1, <1>2 DEF Covered
  <2>1. p \in 1..i
    BY <1>2
  <2>2. Covered
    OBVIOUS
  <2> HIDE DEF ScanInv
  <2>3. \/ \E k \in 1..Len(found) : p \in found[k][1]..found[k][2]
        \/ pc = "scanning" /\ start # 0 /\ start <= p
    BY <2>1, <2>2, Zenon DEF Covered
  <2> QED BY <1>1, <2>3
<1> QED  BY <1>1, <1>3, <1>5, <1>6, <1>7 DEF Idle, Visited

\* The open run, cut off at sample i, is maximal.
LEMMA OpenIsRun ==
  ASSUME ScanInv, pc = "scanning", start # 0,
         i = Len(mask) \/ (i < Len(mask) /\ ~mask[i + 1])
  PROVE  IsRun(mask, start, i)
BY LenProperties DEF ScanInv, ScanType, OpenSoFar, IsRun

\* The FALSE sample after an open run: the run is found.
LEMMA CloseStep ==
  ASSUME ScanInv, CloseRun
  PROVE  ScanInv'
<1> USE DEF ScanInv
<1>1. /\ pc = "scanning" /\ pc' = "scanning" /\ i < Len(mask) /\ i' = i + 1
      /\ start # 0 /\ start' = 0 /\ mask' = mask
      /\ found' = Append(found, <<start, i>>) /\ ~mask[i + 1]
  BY DEF CloseRun, Visiting
<1>2. i \in Nat /\ Len(mask) \in Nat /\ start \in Nat /\ found \in Seq(Nat \X Nat)
  BY LenProperties DEF ScanType
<1>3. ScanType'
  BY <1>1, <1>2, AppendRun DEF ScanType
<1>4. IsRun(mask, start, i)
  BY <1>1, OpenIsRun
<1>5. /\ \A k \in 1..Len(found') :
           IsRun(mask, found'[k][1], found'[k][2]) /\ found'[k][2] <= i
      /\ \A k, l \in 1..Len(found') : k < l => found'[k][2] < found'[l][1]
  BY <1>1, <1>2, <1>4, CloseFound DEF FoundSoFar, OpenSoFar
<1>6. \A k \in 1..Len(found') : found'[k][2] \in Nat
  BY <1>3, ElementOfSeq, SMTT(60) DEF ScanType
<1>7. FoundSoFar'
  <2>1. mask' = mask /\ i' = i + 1
    BY <1>1
  <2> QED  BY <2>1, <1>2, <1>5, <1>6 DEF FoundSoFar
<1>8. OpenSoFar'
  BY <1>1, <1>2 DEF OpenSoFar
<1>9. Covered'
  <2> SUFFICES ASSUME NEW p \in 1..(i + 1), mask[p]
               PROVE  \E k \in 1..Len(found') : p \in found'[k][1]..found'[k][2]
    BY <1>1 DEF Covered
  <2>1. p \in 1..i
    BY <1>1, <1>2
  <2>2. /\ Len(found') = Len(found) + 1 /\ Len(found) \in Nat
        /\ \A k \in 1..Len(found) : found'[k] = found[k]
        /\ found'[Len(found) + 1] = <<start, i>>
    BY <1>1, <1>2, AppendRun, LenProperties
  <2>3. CASE \E k \in 1..Len(found) : p \in found[k][1]..found[k][2]
    BY <2>2, <2>3
  <2>4. CASE start <= p
    <3>1. p \in found'[Len(found) + 1][1]..found'[Len(found) + 1][2]
      BY <2>1, <2>2, <2>4, <1>2
    <3>2. Len(found) + 1 \in 1..Len(found')
      BY <2>2
    <3> QED  BY <3>1, <3>2
  <2> QED  BY <2>1, <2>3, <2>4 DEF Covered
<1> QED  BY <1>1, <1>3, <1>7, <1>8, <1>9 DEF Idle, Visited

\* A sample like the one before it: the open run, or the gap, goes on.
LEMMA GoOnStep ==
  ASSUME ScanInv, GoOn
  PROVE  ScanInv'
<1> USE DEF ScanInv
<1>1. /\ pc = "scanning" /\ pc' = "scanning" /\ i < Len(mask) /\ i' = i + 1
      /\ start' = start /\ mask' = mask /\ found' = found
      /\ (mask[i + 1] <=> start # 0)
  BY DEF GoOn, Visiting
<1>2. i \in Nat /\ Len(mask) \in Nat /\ start \in 0..i
  BY LenProperties DEF ScanType
<1>3. ScanType'
  BY <1>1, <1>2 DEF ScanType
<1>4. \A k \in 1..Len(found) : found[k][2] \in Nat
  BY ElementOfSeq DEF ScanType
<1>5. FoundSoFar'
  BY <1>1, <1>2, <1>4 DEF FoundSoFar
<1>6. OpenSoFar'
  BY <1>1, <1>2 DEF OpenSoFar
<1>7. Covered'
  BY <1>1, <1>2 DEF Covered
<1> QED  BY <1>1, <1>3, <1>5, <1>6, <1>7 DEF Idle, Visited

\* The end of the loop: an open run ends with the mask.
LEMMA ReturnStep ==
  ASSUME ScanInv, Return
  PROVE  ScanInv'
<1> USE DEF ScanInv
<1>1. /\ pc = "scanning" /\ pc' = "done" /\ i = Len(mask)
      /\ mask' = mask /\ i' = i /\ start' = start
      /\ found' = IF start # 0 THEN Append(found, <<start, i>>) ELSE found
  BY DEF Return
<1>2. i \in Nat /\ Len(mask) \in Nat /\ start \in Nat /\ found \in Seq(Nat \X Nat)
  BY LenProperties DEF ScanType
<1>3. ScanType'
  BY <1>1, <1>2, AppendRun DEF ScanType
<1>4. CASE start = 0
  BY <1>1, <1>2, <1>3, <1>4 DEF Idle, FoundSoFar, OpenSoFar, Covered, Visited
<1>5. CASE start # 0
  <2>1. IsRun(mask, start, i)
    BY <1>1, <1>5, OpenIsRun
  <2>2. FoundSoFar'
    BY <1>1, <1>2, <1>5, <2>1, CloseFound, ZenonT(60) DEF FoundSoFar, OpenSoFar
  <2>3. Covered'
    <3> SUFFICES ASSUME NEW p \in 1..i, mask[p]
                 PROVE  \E k \in 1..Len(found') : p \in found'[k][1]..found'[k][2]
      BY <1>1 DEF Covered
    <3>1. /\ Len(found') = Len(found) + 1 /\ Len(found) \in Nat
          /\ \A k \in 1..Len(found) : found'[k] = found[k]
          /\ found'[Len(found) + 1] = <<start, i>>
      BY <1>1, <1>2, <1>5, AppendRun, LenProperties
    <3>2. CASE \E k \in 1..Len(found) : p \in found[k][1]..found[k][2]
      BY <3>1, <3>2
    <3>3. CASE start <= p
      <4>1. p \in found'[Len(found) + 1][1]..found'[Len(found) + 1][2]
        BY <3>1, <3>3, <1>2
      <4>2. Len(found) + 1 \in 1..Len(found')
        BY <3>1
      <4> QED  BY <4>1, <4>2
    <3> QED  BY <3>2, <3>3 DEF Covered
  <2> QED  BY <1>1, <1>3, <2>2, <2>3 DEF Idle, OpenSoFar, Visited
<1> QED  BY <1>4, <1>5

-----------------------------------------------------------------------------
(* Recordings as they grow.                                                *)

Value == Int \union {NaN}
Row == [ts : Nat, cmd : {0, 1}, beater : {0, 1}, tcc : {0, 1},
        delta : Value, amps : Value, drip : Value]

\* What was logged: rows from the first instant on, each as its source may
\* send it and as long after the one before as it may be.
Logs ==
  source \in Logged =>
    /\ dep \in [channels : Seq(Row), vib : {<<>>}, bursts : Seq(NewBursts)]
    /\ source = "bursts" => Rows = <<>>
    /\ source # "bursts" =>
         \A k \in 1..Len(Rows) :
           /\ [Rows[k] EXCEPT !.ts = 0] \in NewRows(source)
           /\ IF k = 1 THEN Rows[k].ts = 0 ELSE Rows[k].ts - Rows[k - 1].ts \in Gaps(source)

\* The mask is the compressor column; before there is a recording it is empty.
MaskIs ==
  /\ mask = BoolCol(Rows, "cmd")
  /\ dep = NoData => pc = "logging"
  /\ Len(Rows) \in Nat

SourceOK == source \in Sources \union {"demo"} \union Logged

IInv == SourceOK /\ ScanInv /\ Logs /\ MaskIs

LEMMA GapsNatural ==
  ASSUME NEW s \in Recordings \ {"bursts"}, NEW gap \in Gaps(s)
  PROVE  gap \in Nat
  BY DayAssumption DEF Gaps, Recordings

LEMMA RowsAre ==
  ASSUME NEW s \in Recordings \ {"bursts"}, NEW row \in NewRows(s)
  PROVE  row \in Row /\ row.ts = 0
  <1>1. QuietRow \in Row /\ QuietRow.ts = 0
    BY DEF QuietRow, Row, Value
  <1>2. CASE s = "compressor"
    BY <1>1, <1>2 DEF NewRows, Row
  <1>3. CASE s = "freezing"
    <2>1. PICK c \in {0, 1} \X {0, 1} \X {0, 1} :
            row = [QuietRow EXCEPT !.cmd = c[1], !.beater = c[2], !.tcc = c[3]]
      BY <1>3, ZenonT(60) DEF NewRows
    <2> QED BY <1>1, <2>1 DEF Row
  <1>4. CASE s = "condenser"
    <2>1. CASE row = QuietRow
      BY <1>1, <2>1
    <2>2. CASE row # QuietRow
      <3>1. PICK d \in {20, 80, 120, NaN} : row = [QuietRow EXCEPT !.cmd = 1, !.delta = d]
        BY <1>4, <2>2 DEF NewRows
      <3>2. d \in Value
        BY DEF Value
      <3> QED BY <1>1, <3>1, <3>2 DEF Row
    <2> QED BY <2>1, <2>2
  <1>5. CASE s = "beater"
    <2>1. PICK a \in {250, 300, 400} : row = [QuietRow EXCEPT !.beater = 1, !.amps = a]
      BY <1>5 DEF NewRows
    <2>2. a \in Value
      BY DEF Value
    <2>3. \A v \in Value : /\ [QuietRow EXCEPT !.beater = 1, !.amps = v] \in Row
                           /\ [QuietRow EXCEPT !.beater = 1, !.amps = v].ts = 0
      <3> SUFFICES ASSUME NEW v \in Value
                   PROVE  /\ [QuietRow EXCEPT !.beater = 1, !.amps = v] \in Row
                          /\ [QuietRow EXCEPT !.beater = 1, !.amps = v].ts = 0
        BY ZenonT(60)
      <3>1. QuietRow \in Row
        BY <1>1
      <3>2. QuietRow.ts = 0
        BY <1>1
      <3>3. [QuietRow EXCEPT !.beater = 1, !.amps = v] \in Row
        BY <3>1 DEF Row
      <3>4. [QuietRow EXCEPT !.beater = 1, !.amps = v].ts = 0
        BY <3>1, <3>2 DEF Row
      <3> QED BY <3>3, <3>4
    <2> QED BY <2>1, <2>2, <2>3, ZenonT(60)
  <1>6. CASE s = "drip"
    BY <1>1, <1>6 DEF NewRows, Row, Value
  <1> QED BY <1>2, <1>3, <1>4, <1>5, <1>6 DEF Recordings

\* A row logged behind the others.
LEMMA LaterRows ==
  ASSUME NEW s \in Recordings \ {"bursts"}, NEW rows \in Seq(Row),
         NEW row \in NewRows(s), NEW gap \in Gaps(s)
  PROVE  /\ Later(rows, row, gap) \in Seq(Row)
         /\ Len(Later(rows, row, gap)) = Len(rows) + 1
         /\ \A k \in 1..Len(rows) : Later(rows, row, gap)[k] = rows[k]
         /\ LET new == Later(rows, row, gap)[Len(rows) + 1]
            IN /\ [new EXCEPT !.ts = 0] = row
               /\ new.cmd = row.cmd
               /\ new.ts = IF rows = <<>> THEN 0 ELSE rows[Len(rows)].ts + gap
  <1> DEFINE at == IF rows = <<>> THEN 0 ELSE Last(rows).ts + gap
             new == [row EXCEPT !.ts = at]
  <1>1. gap \in Nat /\ row \in Row /\ row.ts = 0
    BY GapsNatural, RowsAre
  <1>2. rows # <<>> => rows[Len(rows)] \in Row /\ Last(rows) = rows[Len(rows)]
    <2>1. rows # <<>> => Len(rows) \in 1..Len(rows)
      BY EmptySeq
    <2> QED BY <2>1, ElementOfSeq DEF Last
  <1>3. at \in Nat
    BY <1>1, <1>2 DEF Row
  <1> HIDE DEF at
  <1>4. new \in Row /\ new.ts = at /\ new.cmd = row.cmd /\ [new EXCEPT !.ts = 0] = row
    BY <1>1, <1>3 DEF Row
  <1> HIDE DEF new
  <1>5. Later(rows, row, gap) = Append(rows, new)
    BY DEF Later, new, at
  <1>6. /\ Append(rows, new) \in Seq(Row)
        /\ Len(Append(rows, new)) = Len(rows) + 1
        /\ \A k \in 1..Len(rows) : Append(rows, new)[k] = rows[k]
        /\ Append(rows, new)[Len(rows) + 1] = new
    BY <1>4, AppendProperties, LenProperties
  <1>7. at = IF rows = <<>> THEN 0 ELSE rows[Len(rows)].ts + gap
    BY <1>2 DEF at
  <1> QED BY <1>4, <1>5, <1>6, <1>7

\* A column that is read as Booleans.
LEMMA BoolColumn ==
  ASSUME NEW rows, Len(rows) \in Nat, NEW col
  PROVE  /\ BoolCol(rows, col) \in Seq(BOOLEAN)
         /\ Len(BoolCol(rows, col)) = Len(rows)
         /\ \A k \in 1..Len(rows) : BoolCol(rows, col)[k] = (rows[k][col] = 1)
  <1>1. BoolCol(rows, col) \in [1..Len(rows) -> BOOLEAN]
    BY DEF BoolCol
  <1> QED BY <1>1 DEF BoolCol

LEMMA Apart == Logged \intersect (Sources \union {"demo"}) = {}
  BY LoggedAssumption DEF Recordings, Sources, HourSources, WeekSources

LEMMA NothingYet ==
  /\ NoData \in [channels : Seq(Row), vib : {<<>>}, bursts : Seq(NewBursts)]
  /\ NoData.channels = <<>>
  BY EmptySeq DEF NoData, Segment

LEMMA InitInv == Init => IInv
  <1> SUFFICES ASSUME Init PROVE IInv
    OBVIOUS
  <1>1. dep = NoData /\ Rows = <<>> /\ mask = <<>> /\ pc = "logging"
    BY NothingYet DEF Init, ScanInit, Rows
  <1>2. ScanInv
    BY ScanInitInv DEF Init
  <1>3. Logs
    BY <1>1, NothingYet DEF Logs
  <1>4. MaskIs
    BY <1>1 DEF MaskIs, BoolCol
  <1> QED BY <1>2, <1>3, <1>4 DEF IInv, SourceOK, Init

LEMMA LogRowStep ==
  ASSUME IInv, LogRow
  PROVE  IInv'
  <1>1. PICK row \in NewRows(source), gap \in Gaps(source) :
          /\ dep' = [dep EXCEPT !.channels = Later(@, row, gap)]
          /\ LogSample(row.cmd = 1)
    BY DEF LogRow
  <1>2. /\ source \in Logged /\ source \in Recordings \ {"bursts"} /\ source # "bursts"
        /\ source' = source /\ pc' = pc /\ pc = "logging"
    BY <1>1, LoggedAssumption DEF LogRow, LogSample
  <1>3. dep \in [channels : Seq(Row), vib : {<<>>}, bursts : Seq(NewBursts)] /\ Rows \in Seq(Row)
    BY <1>2 DEF IInv, Logs, Rows
  <1>4. Rows' = Later(Rows, row, gap)
    BY <1>1, <1>3 DEF Rows
  <1>5. /\ Rows' \in Seq(Row) /\ Len(Rows') = Len(Rows) + 1 /\ Len(Rows) \in Nat
        /\ \A k \in 1..Len(Rows) : Rows'[k] = Rows[k]
        /\ [Rows'[Len(Rows) + 1] EXCEPT !.ts = 0] = row
        /\ Rows'[Len(Rows) + 1].cmd = row.cmd
        /\ Rows'[Len(Rows) + 1].ts = IF Rows = <<>> THEN 0 ELSE Rows[Len(Rows)].ts + gap
    BY <1>2, <1>3, <1>4, LaterRows, LenProperties, SMTT(60)
  <1>6. ScanInv'
    BY <1>1, LogStep DEF IInv
  <1>7. Logs'
    <2>1. dep' \in [channels : Seq(Row), vib : {<<>>}, bursts : Seq(NewBursts)]
      <3>1. dep'.channels \in Seq(Row) /\ dep'.vib = dep.vib /\ dep'.bursts = dep.bursts
            /\ DOMAIN dep' = DOMAIN dep
        BY <1>1, <1>3, <1>5 DEF Rows
      <3>2. dep' = [dep EXCEPT !.channels = Rows']
        BY <1>1, <1>3, <1>4 DEF Rows
      <3> HIDE DEF Rows
      <3> QED BY <1>3, <1>5, <3>2
    <2>2. ASSUME NEW k \in 1..Len(Rows')
          PROVE  /\ [Rows'[k] EXCEPT !.ts = 0] \in NewRows(source)
                 /\ IF k = 1 THEN Rows'[k].ts = 0 ELSE Rows'[k].ts - Rows'[k - 1].ts \in Gaps(source)
      <3>1. CASE k \in 1..Len(Rows)
        <4>1. /\ [Rows[k] EXCEPT !.ts = 0] \in NewRows(source)
              /\ IF k = 1 THEN Rows[k].ts = 0 ELSE Rows[k].ts - Rows[k - 1].ts \in Gaps(source)
          BY <1>2, <3>1 DEF IInv, Logs
        <4>2. Rows'[k] = Rows[k] /\ (k # 1 => Rows'[k - 1] = Rows[k - 1])
          BY <1>5, <3>1
        <4> QED BY <4>1, <4>2
      <3>2. CASE k = Len(Rows) + 1
        <4>1. CASE k = 1
          <5>1. Rows = <<>>
            BY <1>3, <1>5, <3>2, <4>1, EmptySeq
          <5> QED BY <1>5, <3>2, <4>1, <5>1
        <4>2. CASE k # 1
          <5>1. Rows # <<>> /\ Len(Rows) \in 1..Len(Rows)
            BY <1>5, <3>2, <4>2
          <5>2. Rows[Len(Rows)] \in Row
            BY <1>3, <5>1, ElementOfSeq
          <5>3. Rows[Len(Rows)].ts \in Nat
            BY <5>2 DEF Row
          <5>4. gap \in Nat
            BY <1>2, GapsNatural
          <5>5. Rows'[k - 1] = Rows[Len(Rows)] /\ Rows'[k].ts = Rows[Len(Rows)].ts + gap
            BY <1>5, <3>2, <5>1
          <5>6. Rows'[k].ts - Rows'[k - 1].ts = gap
            BY <5>3, <5>4, <5>5
          <5> QED BY <1>5, <3>2, <4>2, <5>6
        <4> QED BY <4>1, <4>2
      <3> QED BY <1>5, <3>1, <3>2
    <2> QED BY <1>2, <2>1, <2>2 DEF Logs
  <1>8. MaskIs'
    <2>1. mask = BoolCol(Rows, "cmd") /\ mask' = Append(mask, row.cmd = 1)
      BY <1>1 DEF IInv, MaskIs, LogSample
    <2>2. mask \in Seq(BOOLEAN) /\ Len(mask) = Len(Rows)
      BY <1>5, <2>1, BoolColumn
    <2>3. /\ mask' \in Seq(BOOLEAN) /\ Len(mask') = Len(Rows) + 1
          /\ \A k \in 1..Len(Rows) : mask'[k] = mask[k]
          /\ mask'[Len(Rows) + 1] = (row.cmd = 1)
      BY <2>1, <2>2, AppendProperties
    <2> DEFINE new == BoolCol(Rows', "cmd")
    <2>4. /\ new \in Seq(BOOLEAN) /\ Len(new) = Len(Rows) + 1
          /\ \A k \in 1..Len(Rows') : new[k] = (Rows'[k].cmd = 1)
      BY <1>5, BoolColumn
    <2>5. \A k \in 1..Len(Rows) : mask[k] = (Rows[k].cmd = 1)
      BY <1>5, <2>1, BoolColumn
    <2>6. ASSUME NEW k \in 1..Len(mask') PROVE mask'[k] = new[k]
      <3>1. CASE k \in 1..Len(Rows)
        <4>1. mask'[k] = mask[k] /\ mask[k] = (Rows[k].cmd = 1) /\ Rows'[k] = Rows[k]
          BY <1>5, <2>3, <2>5, <3>1
        <4>2. new[k] = (Rows'[k].cmd = 1)
          BY <1>5, <2>3, <2>4
        <4> QED BY <4>1, <4>2
      <3>2. CASE k = Len(Rows) + 1
        <4>1. mask'[k] = (row.cmd = 1)
          BY <2>3, <3>2
        <4>2. new[k] = (Rows'[k].cmd = 1)
          BY <1>5, <2>3, <2>4
        <4> QED BY <4>1, <4>2, <1>5, <3>2
      <3> QED BY <1>5, <2>3, <3>1, <3>2
    <2> HIDE DEF new
    <2>7. mask' = new
      BY <2>3, <2>4, <2>6, SeqEqual
    <2> QED BY <1>2, <1>5, <2>7 DEF MaskIs, new
  <1> QED BY <1>2, <1>6, <1>7, <1>8 DEF IInv, SourceOK

LEMMA LogBurstStep ==
  ASSUME IInv, LogBurst
  PROVE  IInv'
  <1>1. PICK burst \in NewBursts : dep' = [dep EXCEPT !.bursts = Append(@, burst)]
    BY DEF LogBurst
  <1>2. source = "bursts" /\ source' = source /\ UNCHANGED scanVars
    BY DEF LogBurst
  <1>3. source \in Logged
    BY <1>2 DEF IInv, SourceOK, Sources, HourSources, WeekSources
  <1>4. /\ dep \in [channels : Seq(Row), vib : {<<>>}, bursts : Seq(NewBursts)]
        /\ Rows = <<>>
    BY <1>2, <1>3 DEF IInv, Logs
  <1>5. /\ Append(dep.bursts, burst) \in Seq(NewBursts)
        /\ Append(dep.bursts, burst) # <<>>
    <2>1. dep.bursts \in Seq(NewBursts)
      BY <1>4
    <2> QED BY <2>1, AppendProperties, EmptySeq
  <1>6. /\ dep' \in [channels : Seq(Row), vib : {<<>>}, bursts : Seq(NewBursts)]
        /\ Rows' = <<>> /\ dep'.bursts # <<>>
    <2> DEFINE more == Append(dep.bursts, burst)
    <2>1. dep' = [dep EXCEPT !.bursts = more]
      BY <1>1
    <2> HIDE DEF more
    <2> QED BY <1>4, <1>5, <2>1 DEF Rows, more
  <1>7. dep' # NoData
    BY <1>6 DEF NoData, Segment
  <1>8. ScanInv'
    BY <1>2 DEF IInv, scanVars, ScanInv, ScanType, Idle, FoundSoFar, OpenSoFar, Covered, Visited
  <1>9. MaskIs'
    BY <1>2, <1>4, <1>6, <1>7 DEF IInv, MaskIs, scanVars
  <1> QED BY <1>2, <1>6, <1>8, <1>9 DEF IInv, SourceOK, Logs

\* What a generator makes is as long as the segment.
LEMMA MadeLength ==
  ASSUME source \in Sources
  PROVE  Len(Make.channels) = Total /\ Total \in Nat
  <1>1. Total \in Nat
    <2>1. source \in WeekSources => NDays \in Nat /\ Day \div 10 \in Nat
      BY SegmentAssumption, DayAssumption
    <2>2. source \notin WeekSources => NRows[source] \in Nat
      BY SegmentAssumption DEF Sources
    <2> QED BY <2>1, <2>2 DEF Total
  <1>2. DOMAIN Make.channels = 1..Total
    <2> USE DEF Segment, Filled
    <2>1. CASE source = "healthy"
      BY <2>1 DEF Make, MakeHealthy
    <2>2. CASE source = "short_cycling"
      BY <2>2 DEF Make, MakeShortCycling
    <2>3. CASE source = "tcc_never_satisfied"
      BY <2>3 DEF Make, MakeTccNeverSatisfied
    <2>4. CASE source = "condenser_airflow"
      BY <2>4 DEF Make, MakeCondenserAirflow
    <2>5. CASE source = "knocking"
      BY <2>5 DEF Make, MakeKnocking
    <2>6. CASE source = "belt_slip"
      BY <2>6 DEF Make, MakeBeltSlip
    <2>7. CASE source = "motor_degradation"
      BY <2>7 DEF Make, MakeMotorDegradation
    <2>8. CASE source = "seal_failure"
      BY <2>8 DEF Make, MakeSealFailure
    <2> QED BY <2>1, <2>2, <2>3, <2>4, <2>5, <2>6, <2>7, <2>8
            DEF Sources, HourSources, WeekSources
  <1> HIDE DEF Total
  <1> QED BY <1>1, <1>2

LEMMA DemoLength == Len(MakeDemoDay.channels) = DemoRows /\ DemoRows \in Nat
  <1>1. DemoRows \in Nat
    BY DemoAssumption
  <1>2. DOMAIN MakeDemoDay.channels = 1..DemoRows
    BY DEF MakeDemoDay, Segment, ChannelsDay
  <1> QED BY <1>1, <1>2

LEMMA MakeSegmentStep ==
  ASSUME IInv, MakeSegment
  PROVE  IInv'
  <1>1. /\ dep = NoData /\ source' = source /\ pc = "logging"
        /\ UNCHANGED <<pc, i, start, found>> /\ mask' = BoolCol(Rows', "cmd")
        /\ source \in Sources \/ source = "demo"
    BY DEF MakeSegment, IInv, MaskIs, Rows
  <1>2. Len(Rows') \in Nat
    <2>1. CASE source \in Sources /\ dep' = Make
      BY <2>1, MadeLength DEF Rows
    <2>2. CASE source = "demo" /\ dep' = MakeDemoDay
      BY <2>2, DemoLength DEF Rows
    <2> QED BY <2>1, <2>2 DEF MakeSegment
  <1>3. mask' \in Seq(BOOLEAN)
    BY <1>1, <1>2, BoolColumn
  <1>4. ScanInv'
    <2>1. i = 0 /\ start = 0 /\ found = <<>>
      BY <1>1 DEF IInv, ScanInv, Idle
    <2>2. ScanType'
      BY <1>1, <1>3, <2>1 DEF IInv, ScanInv, ScanType
    <2>3. Idle' /\ FoundSoFar' /\ OpenSoFar' /\ Covered' /\ Visited'
      BY <1>1, <2>1 DEF Idle, FoundSoFar, OpenSoFar, Covered, Visited
    <2> QED BY <2>2, <2>3 DEF ScanInv
  <1>5. Logs'
    BY <1>1, Apart DEF Logs
  <1>6. MaskIs'
    BY <1>1, <1>2 DEF MaskIs
  <1> QED BY <1>1, <1>4, <1>5, <1>6 DEF IInv, SourceOK

LEMMA ScanStep ==
  ASSUME ScanInv, Scan
  PROVE  ScanInv'
  BY CallStep, OpenStep, CloseStep, GoOnStep, ReturnStep DEF Scan

LEMMA FindRunsStep ==
  ASSUME IInv, FindRuns
  PROVE  IInv'
  <1>1. source' = source /\ dep' = dep /\ dep # NoData
    BY DEF FindRuns
  <1>2. mask' = mask
    BY DEF FindRuns, Scan, Call, OpenRun, CloseRun, GoOn, Return
  <1>3. ScanInv'
    BY ScanStep DEF FindRuns, IInv
  <1>4. Logs' /\ MaskIs' /\ SourceOK'
    BY <1>1, <1>2 DEF IInv, Logs, MaskIs, SourceOK, Rows
  <1> QED BY <1>3, <1>4 DEF IInv

\* The invariant: the loop of _runs, what was logged, and the column that
\* the loop goes over.
THEOREM Inductive == Spec => []IInv
  <1>1. IInv /\ [Next]_vars => IInv'
    <2> SUFFICES ASSUME IInv, [Next]_vars PROVE IInv'
      OBVIOUS
    <2>1. CASE LogRow
      BY <2>1, LogRowStep
    <2>2. CASE LogBurst
      BY <2>2, LogBurstStep
    <2>3. CASE MakeSegment
      BY <2>3, MakeSegmentStep
    <2>4. CASE FindRuns
      BY <2>4, FindRunsStep
    <2>5. CASE Tile \/ Schedule \/ UNCHANGED vars
      <3>1. UNCHANGED <<source, dep, scanVars>>
        BY <2>5 DEF Tile, Schedule, vars, CycleWindow
      <3> QED BY <3>1 DEF IInv, Logs, MaskIs, SourceOK, Rows, scanVars, ScanInv, ScanType, Idle,
                          FoundSoFar, OpenSoFar, Covered, Visited
    <2> QED BY <2>1, <2>2, <2>3, <2>4, <2>5 DEF Next
  <1> QED BY <1>1, InitInv, PTL DEF Spec

\* For a mask of any length and any samples, _runs returns exactly the
\* maximal TRUE runs, in order.
THEOREM ScanFindsRuns == Spec => []RunsExact
  <1>1. IInv => RunsExact
    BY DEF IInv, ScanInv, ScanType, FoundSoFar, Covered, Visited, RunsExact
  <1> QED BY <1>1, Inductive, PTL

-----------------------------------------------------------------------------
(* The report.                                                             *)

\* The edges of a signal, paired by number, are its runs.
LEMMA EdgesAreRuns ==
  ASSUME NEW s \in Seq(BOOLEAN), NEW runs \in Seq(Nat \X Nat),
         \A k \in 1..Len(runs) : IsRun(s, runs[k][1], runs[k][2]),
         \A k, l \in 1..Len(runs) : k < l => runs[k][2] < runs[l][1],
         \A p \in 1..Len(s) : s[p] => \E k \in 1..Len(runs) : p \in runs[k][1]..runs[k][2]
  PROVE  /\ Len(RisingEdges(s)) = Len(runs) /\ Len(FallingEdges(s)) = Len(runs)
         /\ \A k \in 1..Len(runs) : RisingEdges(s)[k] = runs[k][1] /\ FallingEdges(s)[k] = runs[k][2]
  <1> DEFINE n == Len(runs)
             R == {k \in 1..Len(s) : s[k] /\ (k > 1 => ~s[k - 1])}
             F == {k \in 1..Len(s) : s[k] /\ (k < Len(s) => ~s[k + 1])}
             a == [k \in 1..n |-> runs[k][1]]
             b == [k \in 1..n |-> runs[k][2]]
  <1>1. n \in Nat /\ Len(s) \in Nat
    BY LenProperties
  <1>2. \A k \in 1..n : runs[k][1] \in Nat /\ runs[k][2] \in Nat /\ runs[k][1] <= runs[k][2]
    <2> SUFFICES ASSUME NEW k \in 1..n
                 PROVE  runs[k][1] \in Nat /\ runs[k][2] \in Nat /\ runs[k][1] <= runs[k][2]
      OBVIOUS
    <2>1. runs[k] \in Nat \X Nat
      BY ElementOfSeq
    <2>2. IsRun(s, runs[k][1], runs[k][2])
      OBVIOUS
    <2> QED BY <1>1, <2>1, <2>2 DEF IsRun
  <1>3. \A k \in 1..n : runs[k][1] \in R /\ runs[k][2] \in F
    <2> SUFFICES ASSUME NEW k \in 1..n PROVE runs[k][1] \in R /\ runs[k][2] \in F
      OBVIOUS
    <2>1. IsRun(s, runs[k][1], runs[k][2]) /\ runs[k][1] \in Nat /\ runs[k][2] \in Nat
      BY <1>2
    <2>2. runs[k][1] \in 1..Len(s) /\ runs[k][2] \in 1..Len(s)
      BY <2>1, <1>1 DEF IsRun
    <2>3. runs[k][1] \in runs[k][1]..runs[k][2] /\ runs[k][2] \in runs[k][1]..runs[k][2]
      BY <1>2
    <2>4. s[runs[k][1]] /\ s[runs[k][2]]
      BY <2>1, <2>3 DEF IsRun
    <2>5. (runs[k][1] > 1 => ~s[runs[k][1] - 1]) /\ (runs[k][2] < Len(s) => ~s[runs[k][2] + 1])
      BY <2>1 DEF IsRun
    <2> QED BY <2>2, <2>4, <2>5
  <1>4. \A k, l \in 1..n : k < l => a[k] < a[l] /\ b[k] < b[l]
    <2> SUFFICES ASSUME NEW k \in 1..n, NEW l \in 1..n, k < l
                 PROVE  runs[k][1] < runs[l][1] /\ runs[k][2] < runs[l][2]
      OBVIOUS
    <2>1. runs[k][2] < runs[l][1]
      OBVIOUS
    <2> QED BY <2>1, <1>2, SMTT(60)
  <1>5. ASSUME NEW p \in R PROVE \E k \in 1..n : a[k] = p
    <2>1. PICK k \in 1..n : p \in runs[k][1]..runs[k][2]
      OBVIOUS
    <2>2. IsRun(s, runs[k][1], runs[k][2]) /\ runs[k][1] \in Nat /\ runs[k][2] \in Nat
      BY <1>2
    <2>3. runs[k][1] < p => s[p - 1] /\ p > 1
      <3> SUFFICES ASSUME runs[k][1] < p PROVE s[p - 1] /\ p > 1
        OBVIOUS
      <3>1. p - 1 \in runs[k][1]..runs[k][2]
        BY <2>1, <2>2
      <3>2. runs[k][1] >= 1
        BY <2>2, <1>1 DEF IsRun
      <3> QED BY <2>2, <3>1, <3>2 DEF IsRun
    <2>4. p = runs[k][1]
      BY <2>1, <2>2, <2>3, SMTT(60)
    <2> QED BY <2>4
  <1>6. ASSUME NEW p \in F PROVE \E k \in 1..n : b[k] = p
    <2>1. PICK k \in 1..n : p \in runs[k][1]..runs[k][2]
      OBVIOUS
    <2>2. IsRun(s, runs[k][1], runs[k][2]) /\ runs[k][1] \in Nat /\ runs[k][2] \in Nat
      BY <1>2
    <2>3. p < runs[k][2] => s[p + 1] /\ p < Len(s)
      <3> SUFFICES ASSUME p < runs[k][2] PROVE s[p + 1] /\ p < Len(s)
        OBVIOUS
      <3>1. p + 1 \in runs[k][1]..runs[k][2]
        BY <2>1, <2>2
      <3>2. runs[k][2] <= Len(s)
        BY <2>2, <1>1 DEF IsRun
      <3> QED BY <2>2, <3>1, <3>2, <1>1 DEF IsRun
    <2>4. p = runs[k][2]
      BY <2>1, <2>2, <2>3, SMTT(60)
    <2> QED BY <2>4
  <1>7. R \in SUBSET Int /\ F \in SUBSET Int /\ a \in [1..n -> R] /\ b \in [1..n -> F]
    <2>1. R \in SUBSET Int /\ F \in SUBSET Int
      OBVIOUS
    <2> HIDE DEF R, F, n
    <2>2. a \in [1..n -> R]
      BY <1>3
    <2>3. b \in [1..n -> F]
      BY <1>3
    <2> QED BY <2>1, <2>2, <2>3
  <1>8. RisingEdges(s) = Ascending(R) /\ FallingEdges(s) = Ascending(F)
    BY DEF RisingEdges, FallingEdges
  <1> HIDE DEF R, F, a, b, n
  <1>9. IsFiniteSet(R) /\ Cardinality(R) = n /\ \A k \in 1..n : Nth(R, k) = a[k]
    <2>1. \A k, l \in 1..n : k < l => a[k] < a[l]
      BY <1>4
    <2>2. \A p \in R : \E k \in 1..n : a[k] = p
      BY <1>5
    <2>3. n \in Nat /\ R \in SUBSET Int /\ a \in [1..n -> R]
      BY <1>1, <1>7
    <2> QED BY <2>1, <2>2, <2>3, InOrder, ZenonT(60)
  <1>10. IsFiniteSet(F) /\ Cardinality(F) = n /\ \A k \in 1..n : Nth(F, k) = b[k]
    <2>1. \A k, l \in 1..n : k < l => b[k] < b[l]
      BY <1>4
    <2>2. \A p \in F : \E k \in 1..n : b[k] = p
      BY <1>6
    <2>3. n \in Nat /\ F \in SUBSET Int /\ b \in [1..n -> F]
      BY <1>1, <1>7
    <2> QED BY <2>1, <2>2, <2>3, InOrder, ZenonT(60)
  <1>11. Len(Ascending(R)) = n /\ Len(Ascending(F)) = n
    BY <1>1, <1>9, <1>10 DEF Ascending
  <1>12. \A k \in 1..n : Ascending(R)[k] = a[k] /\ Ascending(F)[k] = b[k]
    <2> SUFFICES ASSUME NEW k \in 1..n
                 PROVE  Ascending(R)[k] = a[k] /\ Ascending(F)[k] = b[k]
      OBVIOUS
    <2>1. Ascending(R)[k] = Nth(R, k)
      BY <1>9 DEF Ascending
    <2>2. Ascending(F)[k] = Nth(F, k)
      BY <1>10 DEF Ascending
    <2> QED BY <1>9, <1>10, <2>1, <2>2
  <1> QED BY <1>8, <1>11, <1>12 DEF n, a, b

\* Whatever was recorded, the report and the detector cut the compressor
\* signal into the same cycles.
THEOREM SameCycles == Spec => []CyclesAreRuns
  <1>1. IInv => CyclesAreRuns
    <2> SUFFICES ASSUME IInv, pc = "done" PROVE CompressorCycles(Rows) = found
      BY DEF CyclesAreRuns
    <2>1. RunsExact
      BY DEF IInv, ScanInv, ScanType, FoundSoFar, Covered, Visited, RunsExact
    <2>2. mask = BoolCol(Rows, "cmd") /\ mask \in Seq(BOOLEAN) /\ found \in Seq(Nat \X Nat)
      BY DEF IInv, MaskIs, ScanInv, ScanType
    <2> DEFINE starts == RisingEdges(mask)
               ends == FallingEdges(mask)
               n == Len(found)
    <2>3. /\ Len(starts) = n /\ Len(ends) = n
          /\ \A k \in 1..n : starts[k] = found[k][1] /\ ends[k] = found[k][2]
      BY <2>1, <2>2, EdgesAreRuns DEF RunsExact
    <2>4. n \in Nat /\ found = [k \in 1..n |-> found[k]]
      BY <2>2, LenProperties
    <2>5. \A k \in 1..n : found[k] = <<found[k][1], found[k][2]>>
      <3>1. \A k \in 1..n : found[k] \in Nat \X Nat
        BY <2>2, ElementOfSeq
      <3> QED BY <3>1
    <2>6. CompressorCycles(Rows) = [k \in 1..Min({Len(starts), Len(ends)}) |-> <<starts[k], ends[k]>>]
      BY <2>2 DEF CompressorCycles
    <2> HIDE DEF starts, ends, n
    <2>7. CompressorCycles(Rows) = [k \in 1..n |-> <<starts[k], ends[k]>>]
      BY <2>3, <2>4, <2>6, OfTwo
    <2>8. \A k \in 1..n : <<starts[k], ends[k]>> = found[k]
      BY <2>3, <2>5
    <2> QED BY <2>4, <2>7, <2>8
  <1> QED BY <1>1, Inductive, PTL

\* A recording that was logged: its rows and its instants.
LEMMA LoggedRows ==
  ASSUME IInv, NEW s \in Recordings \ {"bursts"}, LoggedOn(s)
  PROVE  /\ Rows \in Seq(Row) /\ Len(Rows) \in Nat \ {0} /\ s = source
         /\ \A k \in 1..Len(Rows) : Rows[k] \in Row /\ Rows[k].ts \in Nat
  <1>1. source = s /\ Rows # <<>> /\ source \in Logged
    BY DEF LoggedOn, IInv, SourceOK, Recordings, Sources, HourSources, WeekSources
  <1>2. Rows \in Seq(Row)
    BY <1>1 DEF IInv, Logs, Rows
  <1>3. Len(Rows) \in Nat \ {0}
    BY <1>1, <1>2, EmptySeq
  <1>4. ASSUME NEW k \in 1..Len(Rows) PROVE Rows[k] \in Row /\ Rows[k].ts \in Nat
    <2>1. Rows[k] \in Row
      BY <1>2, ElementOfSeq
    <2> QED BY <2>1 DEF Row
  <1> QED BY <1>1, <1>2, <1>3, <1>4

LEMMA Instants ==
  ASSUME NEW rows, Len(rows) \in Nat \ {0}, \A k \in 1..Len(rows) : rows[k].ts \in Nat
  PROVE  /\ Latest(rows) \in Nat
         /\ \A k \in 1..Len(rows) : rows[k].ts <= Latest(rows)
         /\ IsFiniteSet({rows[k].ts : k \in 1..Len(rows)})
  <1> DEFINE f == [k \in 1..Len(rows) |-> rows[k].ts]
             T == {rows[k].ts : k \in 1..Len(rows)}
  <1>1. IsFiniteSet(1..Len(rows)) /\ 1 \in 1..Len(rows)
    BY FS_Interval
  <1>2. T = {f[k] : k \in 1..Len(rows)}
    OBVIOUS
  <1>3. IsFiniteSet(T)
    <2> HIDE DEF f, T
    <2> QED BY <1>1, <1>2, FiniteImage
  <1>4. T \in SUBSET Int /\ T # {} /\ T \subseteq Nat
    BY <1>1
  <1>5. Max(T) \in T /\ \A y \in T : y <= Max(T)
    <2> HIDE DEF T
    <2> QED BY <1>3, <1>4, MaxOfFinite
  <1> QED BY <1>3, <1>4, <1>5 DEF Latest

LEMMA BurstsAre ==
  ASSUME NEW burst \in NewBursts
  PROVE  burst.pod \in {1, 2} /\ burst.peak \in Nat \ {0} /\ Readable(burst) \in BOOLEAN
  <1>1. burst.pod \in {1, 2} /\ burst.peak \in Nat \ {0}
    BY DEF NewBursts, Burst
  <1> QED BY <1>1 DEF Readable, Decodes

\* What the loop over the bursts does to the scores.
After(best, burst) ==
  IF Readable(burst) /\ Louder(burst, best) THEN [best EXCEPT ![burst.pod] = burst.peak] ELSE best

Scores == [{1, 2} -> Nat]
NoScores == [pod \in {1, 2} |-> 0]

LEMMA AfterScores ==
  ASSUME NEW best \in Scores, NEW burst \in NewBursts
  PROVE  After(best, burst) \in Scores
  BY BurstsAre DEF After, Scores

\* The scores after each burst.
LEMMA ScoresExist ==
  ASSUME NEW bursts \in Seq(NewBursts)
  PROVE  \E best \in [0..Len(bursts) -> Scores] :
           /\ best[0] = NoScores
           /\ \A n \in 1..Len(bursts) : best[n] = After(best[n - 1], bursts[n])
           /\ RepresentativeBursts(bursts) = best[Len(bursts)]
  <1> DEFINE L == Len(bursts)
             Ok(n, best) == /\ best \in [0..n -> Scores] /\ best[0] = NoScores
                            /\ \A k \in 1..n : best[k] = After(best[k - 1], bursts[k])
             S == {n \in Nat : n <= L => \E best : Ok(n, best)}
  <1>1. L \in Nat /\ \A k \in 1..L : bursts[k] \in NewBursts
    BY LenProperties, ElementOfSeq
  <1>2. 0 \in S
    <2> DEFINE best == [k \in 0..0 |-> NoScores]
    <2>1. Ok(0, best)
      BY DEF Scores, NoScores
    <2> QED BY <2>1
  <1>3. ASSUME NEW n \in Nat, n \in S PROVE n + 1 \in S
    <2> SUFFICES ASSUME n + 1 <= L PROVE \E best : Ok(n + 1, best)
      OBVIOUS
    <2>1. PICK best : Ok(n, best)
      BY <1>1, <1>3
    <2> DEFINE more == [k \in 0..(n + 1) |-> IF k = n + 1 THEN After(best[n], bursts[n + 1]) ELSE best[k]]
    <2>2. best[n] \in Scores /\ After(best[n], bursts[n + 1]) \in Scores
      BY <1>1, <2>1, AfterScores
    <2>3. more \in [0..(n + 1) -> Scores]
      BY <2>1, <2>2
    <2>4. more[0] = NoScores
      BY <2>1
    <2>5. ASSUME NEW k \in 1..(n + 1) PROVE more[k] = After(more[k - 1], bursts[k])
      <3>1. CASE k = n + 1
        BY <3>1
      <3>2. CASE k # n + 1
        <4>1. k \in 1..n /\ more[k] = best[k] /\ more[k - 1] = best[k - 1]
          BY <3>2
        <4> QED BY <2>1, <4>1
      <3> QED BY <3>1, <3>2
    <2> QED BY <2>3, <2>4, <2>5
  <1>4. L \in S
    <2> HIDE DEF S
    <2> QED BY <1>1, <1>2, <1>3, SetInduction
  <1>5. PICK best : Ok(L, best)
    BY <1>1, <1>4
  <1> DEFINE Def(g) == [n \in 0..L |->
               IF n = 0 THEN [pod \in {1, 2} |-> 0]
               ELSE LET burst == bursts[n]
                        before == g[n - 1]
                    IN IF Readable(burst) /\ Louder(burst, before)
                         THEN [before EXCEPT ![burst.pod] = burst.peak] ELSE before]
  <1>6. best = Def(best)
    <2>1. \A n \in 0..L : best[n] = Def(best)[n]
      <3> SUFFICES ASSUME NEW n \in 0..L PROVE best[n] = Def(best)[n]
        OBVIOUS
      <3>1. CASE n = 0
        BY <1>5, <3>1 DEF NoScores
      <3>2. CASE n # 0
        <4>1. n \in 1..L
          BY <1>1, <3>2
        <4>2. best[n] = After(best[n - 1], bursts[n])
          BY <1>5, <4>1
        <4> QED BY <3>2, <4>2 DEF After
      <3> QED BY <3>1, <3>2
    <2> QED BY <1>5, <2>1
  <1>7. \A g : g = Def(g) => g = best
    <2> SUFFICES ASSUME NEW g, g = Def(g) PROVE g = best
      OBVIOUS
    <2>0. \A n \in 0..L : g[n] = Def(g)[n]
      OBVIOUS
    <2> DEFINE E == {n \in Nat : n <= L => g[n] = best[n]}
    <2>1. 0 \in E
      BY <1>1, <1>5, <2>0 DEF NoScores
    <2>2. ASSUME NEW n \in Nat, n \in E PROVE n + 1 \in E
      <3> SUFFICES ASSUME n + 1 <= L PROVE g[n + 1] = best[n + 1]
        OBVIOUS
      <3>1. g[n] = best[n] /\ n + 1 \in 1..L /\ n + 1 \in 0..L /\ n + 1 # 0 /\ (n + 1) - 1 = n
        BY <1>1, <2>2
      <3>2. g[n + 1] = After(g[n], bursts[n + 1])
        BY <2>0, <3>1 DEF After
      <3>3. best[n + 1] = After(best[n], bursts[n + 1])
        BY <1>5, <3>1
      <3> QED BY <3>1, <3>2, <3>3
    <2>3. \A n \in 0..L : n \in E
      <3> HIDE DEF E
      <3> QED BY <2>1, <2>2, SetInduction
    <2>4. \A n \in 0..L : g[n] = best[n]
      <3> SUFFICES ASSUME NEW n \in 0..L PROVE g[n] = best[n]
        OBVIOUS
      <3>1. n \in E
        BY <2>3
      <3>2. n \in Nat /\ n <= L
        BY <1>1
      <3> QED BY <3>1, <3>2
    <2>5. DOMAIN g = 0..L /\ g = [n \in 0..L |-> g[n]]
      OBVIOUS
    <2>6. best = [n \in 0..L |-> best[n]]
      BY <1>5
    <2> QED BY <2>4, <2>5, <2>6
  <1>8. (CHOOSE g : g = Def(g)) = best
    <2> HIDE DEF Def
    <2> QED BY <1>6, <1>7
  <1>9. RepresentativeBursts(bursts) = best[L]
    BY <1>8 DEF RepresentativeBursts
  <1> QED BY <1>5, <1>9

\* For any number of bursts, sound or broken, in any order, each pod is
\* shown with its loudest readable burst.
THEOREM Loudest == Spec => []LoudestShown
  <1>1. IInv => LoudestShown
    <2> SUFFICES ASSUME IInv, source = "bursts", NEW pod \in {1, 2}
                 PROVE  LET peaks == {dep.bursts[k].peak : k \in {k \in 1..Len(dep.bursts) :
                                        dep.bursts[k].pod = pod /\ Readable(dep.bursts[k])}}
                        IN RepresentativeBursts(dep.bursts)[pod] = Max({0} \union peaks)
      BY DEF LoudestShown
    <2> DEFINE bursts == dep.bursts
               L == Len(bursts)
               Peaks(n) == {bursts[k].peak : k \in {k \in 1..n : bursts[k].pod = pod /\ Readable(bursts[k])}}
    <2>1. bursts \in Seq(NewBursts)
      BY DEF IInv, SourceOK, Logs, Sources, HourSources, WeekSources
    <2> HIDE DEF bursts
    <2>2. L \in Nat /\ \A k \in 1..L : bursts[k] \in NewBursts
      BY <2>1, LenProperties, ElementOfSeq
    <2>3. PICK best \in [0..L -> Scores] :
            /\ best[0] = NoScores
            /\ \A n \in 1..L : best[n] = After(best[n - 1], bursts[n])
            /\ RepresentativeBursts(bursts) = best[L]
      BY <2>1, ScoresExist
    <2> DEFINE Right(n) == /\ best[n][pod] \in {0} \union Peaks(n)
                           /\ \A y \in {0} \union Peaks(n) : y <= best[n][pod]
               S == {n \in Nat : n <= L => Right(n)}
    <2>4. 0 \in S
      BY <2>2, <2>3 DEF NoScores
    <2>5. ASSUME NEW n \in Nat, n \in S PROVE n + 1 \in S
      <3> SUFFICES ASSUME n + 1 <= L PROVE Right(n + 1)
        OBVIOUS
      <3> DEFINE burst == bursts[n + 1]
                 old == best[n][pod]
                 new == best[n + 1][pod]
      <3>1. Right(n) /\ n + 1 \in 1..L /\ (n + 1) - 1 = n
        BY <2>2, <2>5
      <3>2. burst.pod \in {1, 2} /\ burst.peak \in Nat \ {0} /\ Readable(burst) \in BOOLEAN
        BY <2>2, <3>1, BurstsAre
      <3>3. best[n] \in Scores /\ best[n + 1] = After(best[n], burst) /\ old \in Nat
        BY <2>2, <2>3, <3>1 DEF Scores
      <3>4. Peaks(n + 1) = Peaks(n) \union
              (IF burst.pod = pod /\ Readable(burst) THEN {burst.peak} ELSE {})
        <4>1. \A k \in 1..(n + 1) : k \in 1..n \/ k = n + 1
          OBVIOUS
        <4> QED BY <4>1, <3>2, SMTT(60)
      <3>5. CASE burst.pod # pod \/ ~Readable(burst)
        <4>1. new = old
          BY <3>3, <3>5 DEF After, Scores
        <4> QED BY <4>1, <3>1, <3>4, <3>5
      <3>6. CASE burst.pod = pod /\ Readable(burst) /\ Louder(burst, best[n])
        <4>1. new = burst.peak /\ old <= burst.peak
          BY <3>2, <3>3, <3>6 DEF After, Scores, Louder
        <4>2. \A y \in {0} \union Peaks(n) : y <= burst.peak
          <5>1. \A y \in {0} \union Peaks(n) : y \in Nat /\ y <= old
            <6>1. \A k \in 1..n : bursts[k].peak \in Nat
              BY <2>2, <3>1, BurstsAre
            <6> QED BY <3>1, <6>1
          <5> HIDE DEF Peaks, burst, old
          <5> QED BY <3>2, <3>3, <4>1, <5>1
        <4> HIDE DEF Peaks, burst, old, new
        <4> QED BY <3>2, <3>4, <3>6, <4>1, <4>2 DEF new
      <3>7. CASE burst.pod = pod /\ Readable(burst) /\ ~Louder(burst, best[n])
        <4>1. new = old /\ burst.peak <= old
          BY <3>2, <3>3, <3>7 DEF After, Scores, Louder
        <4> HIDE DEF Peaks, burst
        <4> QED BY <3>1, <3>4, <3>7, <4>1
      <3> HIDE DEF burst, Right
      <3> QED BY <3>2, <3>5, <3>6, <3>7
    <2>6. Right(L)
      <3>1. L \in S
        <4> HIDE DEF S
        <4> QED BY <2>2, <2>4, <2>5, SetInduction
      <3> QED BY <2>2, <3>1
    <2>7. {0} \union Peaks(L) \in SUBSET Int
      <3>1. \A k \in 1..L : bursts[k].peak \in Int
        BY <2>2, BurstsAre
      <3> QED BY <3>1
    <2>8. Max({0} \union Peaks(L)) = best[L][pod]
      <3> HIDE DEF Peaks
      <3> QED BY <2>6, <2>7, MaxIs
    <2> QED BY <2>3, <2>8 DEF bursts
  <1> QED BY <1>1, Inductive, PTL

-----------------------------------------------------------------------------
(* The detectors.                                                          *)

\* No placement of a window holds more instants than one that starts at one.
LEMMA WindowMoves ==
  ASSUME NEW D, IsFiniteSet(D), NEW times \in [D -> Int], NEW span \in Int
  PROVE  /\ MaxCluster(times, span) \in Int /\ 0 <= MaxCluster(times, span)
         /\ \A t \in Int :
              Cardinality({u \in D : t <= times[u] /\ times[u] < t + span}) <= MaxCluster(times, span)
         /\ (\A x, y \in D : x = y) => MaxCluster(times, span) <= 1
  <1> DEFINE In(x) == {u \in D : x <= times[u] /\ times[u] < x + span}
             f == [d \in D |-> Cardinality(In(times[d]))]
             C == {f[d] : d \in D}
             most == MaxCluster(times, span)
  <1>1. \A x \in Int : In(x) \in SUBSET D /\ IsFiniteSet(In(x)) /\ Cardinality(In(x)) \in Nat
    BY FS_Subset, FS_CardinalityType
  <1>2. IsFiniteSet(C)
    <2> HIDE DEF f
    <2> QED BY FiniteImage
  <1>3. \A d \in D : times[d] \in Int /\ f[d] = Cardinality(In(times[d]))
    OBVIOUS
  <1>4. C \in SUBSET Int
    <2>1. \A d \in D : f[d] \in Int
      <3> HIDE DEF f, In
      <3> QED BY <1>1, <1>3
    <2> HIDE DEF f
    <2> QED BY <2>1
  <1>5. most = Max({0} \union C)
    <2>1. C = {Cardinality(In(times[d])) : d \in D} /\ DOMAIN times = D
      OBVIOUS
    <2> QED BY <2>1 DEF MaxCluster
  <1> HIDE DEF most
  <1>6. /\ most \in Int /\ 0 <= most /\ \A y \in C : y <= most
        /\ most # 0 => most \in C
    <2> HIDE DEF C
    <2> QED BY <1>2, <1>4, <1>5, MaxOrZero
  <1>7. ASSUME NEW t \in Int PROVE Cardinality(In(t)) <= most
    <2> DEFINE T == {times[u] : u \in In(t)}
    <2>1. CASE In(t) = {}
      BY <1>6, <2>1, FS_EmptySet
    <2>2. CASE In(t) # {}
      <3>1. IsFiniteSet(T) /\ T # {} /\ T \in SUBSET Int
        <4>1. IsFiniteSet(In(t)) /\ In(t) \subseteq D
          BY <1>1
        <4> HIDE DEF In
        <4>2. IsFiniteSet(T)
          BY <4>1, FiniteImage
        <4> QED BY <2>2, <4>1, <4>2
      <3> DEFINE m == Min(T)
      <3>2. m \in T /\ \A y \in T : m <= y
        <4> HIDE DEF T
        <4> QED BY <3>1, MinOfFinite
      <3> HIDE DEF m
      <3>3. PICK d \in In(t) : m = times[d]
        BY <3>2
      <3>4. d \in D /\ m \in Int /\ t <= m
        BY <3>3
      <3>5. In(t) \subseteq In(m)
        <4> SUFFICES ASSUME NEW u \in D, t <= times[u], times[u] < t + span
                     PROVE  m <= times[u] /\ times[u] < m + span
          OBVIOUS
        <4>1. times[u] \in Int /\ times[u] \in T
          OBVIOUS
        <4>2. m <= times[u]
          BY <3>2, <4>1
        <4> QED BY <3>4, <4>1, <4>2
      <3>6. Cardinality(In(t)) <= Cardinality(In(m))
        <4> HIDE DEF In
        <4> QED BY <1>1, <3>4, <3>5, FS_Subset
      <3>7. Cardinality(In(m)) \in C
        BY <1>3, <3>3, <3>4
      <3>8. Cardinality(In(t)) \in Nat /\ Cardinality(In(m)) \in Nat
        BY <1>1, <3>4
      <3>9. Cardinality(In(m)) <= most
        BY <1>6, <3>7
      <3> HIDE DEF In
      <3> QED BY <1>6, <3>6, <3>8, <3>9
    <2> QED BY <2>1, <2>2
  <1>8. ASSUME \A x, y \in D : x = y PROVE most <= 1
    <2> SUFFICES ASSUME most # 0 PROVE most <= 1
      BY <1>6
    <2>6. PICK d \in D : most = f[d]
      BY <1>6
    <2> DEFINE I == In(times[d])
               T == {d}
    <2>1. I \subseteq T
      BY <1>8
    <2>2. IsFiniteSet(T) /\ Cardinality(T) = 1
      BY FS_Singleton
    <2>3. most = Cardinality(I)
      BY <1>3, <2>6
    <2> HIDE DEF I, T, f
    <2>4. Cardinality(I) <= Cardinality(T) /\ IsFiniteSet(I)
      BY <2>1, <2>2, FS_Subset
    <2>5. Cardinality(I) \in Nat
      BY <2>4, FS_CardinalityType
    <2> QED BY <2>2, <2>3, <2>4, <2>5
  <1> QED BY <1>6, <1>7, <1>8 DEF most

\* No more different instants fall in a window than what happened in it.
LEMMA InstantsMove ==
  ASSUME NEW D, IsFiniteSet(D), NEW times \in [D -> Int], NEW span \in Int, NEW t \in Int,
         NEW S, S = {times[u] : u \in D}
  PROVE  /\ IsFiniteSet({u \in S : t <= u /\ u < t + span})
         /\ Cardinality({u \in S : t <= u /\ u < t + span}) <= MaxCluster(times, span)
  <1> DEFINE In == {u \in D : t <= times[u] /\ times[u] < t + span}
             T == {times[u] : u \in In}
  <1>1. {u \in S : t <= u /\ u < t + span} = T
    OBVIOUS
  <1>2. IsFiniteSet(In) /\ In \subseteq D
    BY FS_Subset
  <1>3. Cardinality(In) <= MaxCluster(times, span)
    BY WindowMoves
  <1>4. MaxCluster(times, span) \in Int
    BY WindowMoves
  <1> HIDE DEF In
  <1>5. IsFiniteSet(T) /\ Cardinality(T) <= Cardinality(In)
    BY <1>2, FiniteImage
  <1>6. Cardinality(T) \in Nat /\ Cardinality(In) \in Nat
    BY <1>2, <1>5, FS_CardinalityType
  <1> HIDE DEF T
  <1>7. Cardinality(T) <= MaxCluster(times, span)
    BY <1>3, <1>4, <1>5, <1>6
  <1> QED BY <1>1, <1>5, <1>7

\* The cluster of short runs that the detector counts is the largest there
\* is, although it only counts from the starts of short runs.
THEOREM LargestCluster == Spec => []ClusterIsLargest
  <1>1. IInv => ClusterIsLargest
    <2> SUFFICES ASSUME IInv, LoggedOn("compressor"),
                        NEW t \in (0 - ShortCycleWindow)..Latest(Rows)
                 PROVE  Cardinality({r \in ShortRuns(Rows) :
                                       t <= Rows[r[1]].ts /\ Rows[r[1]].ts < t + ShortCycleWindow})
                          <= ShortCluster(Rows)
      BY DEF ClusterIsLargest
    <2> DEFINE n == Len(Rows)
               D == ShortRuns(Rows)
               f == [r \in D |-> Rows[r[1]].ts]
    <2>1. n \in Nat \ {0} /\ \A k \in 1..n : Rows[k].ts \in Nat
      BY LoggedRows DEF Recordings
    <2>2. D \subseteq (1..n) \X (1..n) /\ IsFiniteSet(D)
      <3>1. Len(BoolCol(Rows, "cmd")) = n
        BY <2>1, BoolColumn
      <3>2. D \subseteq (1..n) \X (1..n)
        BY <3>1 DEF ShortRuns, Runs
      <3>3. IsFiniteSet((1..n) \X (1..n))
        <4>1. IsFiniteSet(1..n)
          BY <2>1, FS_Interval
        <4> QED BY <4>1, FS_Product
      <3> HIDE DEF D, n
      <3> QED BY <3>2, <3>3, FS_Subset
    <2>3. f \in [D -> Int]
      <3>1. \A r \in D : Rows[r[1]].ts \in Int
        BY <2>1, <2>2
      <3> QED BY <3>1
    <2>4. ShortCluster(Rows) = MaxCluster(f, ShortCycleWindow)
      BY DEF ShortCluster
    <2>5. t \in Int /\ ShortCycleWindow \in Int
      BY <2>1, Instants, ShortCycleAssumption
    <2>6. {r \in D : t <= Rows[r[1]].ts /\ Rows[r[1]].ts < t + ShortCycleWindow}
            = {r \in D : t <= f[r] /\ f[r] < t + ShortCycleWindow}
      OBVIOUS
    <2> HIDE DEF f, D
    <2>7. Cardinality({r \in D : t <= f[r] /\ f[r] < t + ShortCycleWindow}) <= ShortCluster(Rows)
      <3>1. \A x \in Int : Cardinality({r \in D : x <= f[r] /\ f[r] < x + ShortCycleWindow})
                              <= MaxCluster(f, ShortCycleWindow)
        BY <2>2, <2>3, <2>5, WindowMoves
      <3> QED BY <2>4, <2>5, <3>1
    <2> QED BY <2>6, <2>7 DEF D
  <1> QED BY <1>1, Inductive, PTL

\* The samples at some positions of a recording, in order.
LEMMA WhereIs ==
  ASSUME NEW n \in Nat, NEW at \in SUBSET (1..n), NEW s
  PROVE  /\ Cardinality(at) \in 0..n /\ Len(Where(s, at)) = Cardinality(at)
         /\ IsFiniteSet(at) /\ at \in SUBSET Int
         /\ (Cardinality(at) = 0 <=> at = {})
         /\ \A k \in 1..Cardinality(at) : Nth(at, k) \in at /\ Where(s, at)[k] = s[Nth(at, k)]
         /\ \A x \in at : \E k \in 1..Cardinality(at) : Nth(at, k) = x
  <1>1. IsFiniteSet(1..n) /\ Cardinality(1..n) = n
    BY FS_Interval
  <1>2. IsFiniteSet(at) /\ Cardinality(at) \in Nat /\ Cardinality(at) <= n
    BY <1>1, FS_Subset, FS_CardinalityType
  <1>3. at \in SUBSET Int
    OBVIOUS
  <1>4. /\ \A k \in 1..Cardinality(at) : Nth(at, k) \in at
        /\ \A x \in at : Place(at, x) \in 1..Cardinality(at) /\ Nth(at, Place(at, x)) = x
    BY <1>2, <1>3, NthPlace
  <1>5. Len(Where(s, at)) = Cardinality(at)
    BY <1>2 DEF Where
  <1>6. \A k \in 1..Cardinality(at) : Where(s, at)[k] = s[Nth(at, k)]
    BY DEF Where
  <1>7. Cardinality(at) = 0 <=> at = {}
    BY <1>2, FS_EmptySet
  <1> QED BY <1>2, <1>3, <1>4, <1>5, <1>6, <1>7

\* The median of a part of a sequence.
LEMMA PartMedian ==
  ASSUME NEW s \in Seq(Int), NEW lo \in Int, NEW hi \in Int,
         \A k \in 1..Len(s) : lo <= s[k] /\ s[k] <= hi,
         NEW m \in 1..Len(s), NEW n \in m..Len(s)
  PROVE  /\ Median2(SubSeq(s, m, n)) \in Int
         /\ 2 * lo <= Median2(SubSeq(s, m, n)) /\ Median2(SubSeq(s, m, n)) <= 2 * hi
  <1> DEFINE t == SubSeq(s, m, n)
             l == n - m + 1
  <1>1. Len(s) \in Nat /\ m \in Int /\ n \in Int /\ m <= n /\ 1 <= m /\ n <= Len(s)
    BY LenProperties
  <1>2. \A k \in m..n : s[k] \in Int
    BY <1>1, ElementOfSeq
  <1>3. t \in Seq(Int) /\ Len(t) = l /\ \A k \in 1..l : t[k] = s[m + k - 1]
    BY <1>1, <1>2, SubSeqProperties
  <1>4. t \in [1..l -> Int] /\ l \in Nat \ {0} /\ 1 \in 1..l
    <2>1. l \in Nat \ {0} /\ 1 \in 1..l
      BY <1>1
    <2> HIDE DEF t, l
    <2> QED BY <1>3, <2>1, LenProperties
  <1>5. \A k \in 1..l : lo <= t[k] /\ t[k] <= hi
    <2> SUFFICES ASSUME NEW k \in 1..l PROVE lo <= t[k] /\ t[k] <= hi
      OBVIOUS
    <2>1. m + k - 1 \in 1..Len(s) /\ t[k] = s[m + k - 1]
      BY <1>1, <1>3
    <2> HIDE DEF t
    <2> QED BY <2>1
  <1> HIDE DEF t, l
  <1>6. IsFiniteSet(1..l) /\ 1..l # {}
    <2>1. IsFiniteSet(1..l)
      BY <1>4, FS_Interval
    <2> QED BY <1>4, <2>1
  <1>7. Median2(t) \in Int /\ 2 * lo <= Median2(t) /\ Median2(t) <= 2 * hi
    BY <1>4, <1>5, <1>6, MedianBetween
  <1> QED BY <1>7 DEF t

\* What the condenser detector answers when all running readings lie in a
\* range: nothing in the healthy one, critical below the floor.
LEMMA CondenserRange ==
  ASSUME NEW d, Len(RunningDelta(d.channels)) \in Nat \ {0}, NEW lo \in Int, NEW hi \in Int,
         RunningDelta(d.channels) \in Seq(Int),
         \A k \in 1..Len(RunningDelta(d.channels)) :
           lo <= RunningDelta(d.channels)[k] /\ RunningDelta(d.channels)[k] <= hi
  PROVE  /\ lo = 80 /\ hi = 120 => DetectCondenserAirflow(d) = "none"
         /\ hi < CondenserFloor => DetectCondenserAirflow(d) = "critical"
  <1> DEFINE delta == RunningDelta(d.channels)
             n == Len(delta)
             third == Max({n \div 3, 1})
             early2 == Median2(SubSeq(delta, 1, third))
             late2 == Median2(SubSeq(delta, n - third + 1, n))
             below == late2 < 2 * CondenserFloor
             collapsing == early2 > 0 /\ 100 * (early2 - late2) >= CondenserDrop * early2
  <1>1. DetectCondenserAirflow(d) = IF n = 0 THEN "none" ELSE Result(below \/ collapsing, below)
    BY DEF DetectCondenserAirflow
  <1> HIDE DEF delta
  <1>2. delta \in Seq(Int) /\ n \in Nat \ {0} /\ \A k \in 1..n : lo <= delta[k] /\ delta[k] <= hi
    BY DEF delta
  <1>3. third \in 1..n
    <2> HIDE DEF n
    <2> DEFINE q == n \div 3
    <2>1. n \in Nat \ {0} /\ q \in Nat /\ q <= n
      BY <1>2
    <2> HIDE DEF q
    <2>2. Max({q, 1}) = IF q <= 1 THEN 1 ELSE q
      <3>1. q \in Int /\ 1 \in Int
        BY <2>1
      <3> QED BY <3>1, OfTwo, Zenon
    <2>3. Max({q, 1}) \in 1..n
      BY <2>1, <2>2
    <2> QED BY <2>3 DEF q
  <1>4. n - third + 1 \in 1..n /\ 1 \in 1..n
    BY <1>2, <1>3
  <1> HIDE DEF n, third
  <1>5. early2 \in Int /\ 2 * lo <= early2 /\ early2 <= 2 * hi
    BY <1>2, <1>3, <1>4, PartMedian DEF n
  <1>6. late2 \in Int /\ 2 * lo <= late2 /\ late2 <= 2 * hi
    <2>1. n \in (n - third + 1)..n
      BY <1>2, <1>3
    <2> QED BY <1>2, <1>4, <2>1, PartMedian DEF n
  <1> HIDE DEF early2, late2
  <1>7. CASE lo = 80 /\ hi = 120
    <2>1. ~below /\ ~collapsing
      BY <1>5, <1>6, <1>7 DEF CondenserFloor, CondenserDrop
    <2>2. ~(hi < CondenserFloor)
      BY <1>7 DEF CondenserFloor
    <2> QED BY <1>1, <2>1, <2>2 DEF Result
  <1>8. CASE hi < CondenserFloor
    <2>1. below
      BY <1>6, <1>8 DEF CondenserFloor
    <2>2. ~(lo = 80 /\ hi = 120)
      BY <1>8 DEF CondenserFloor
    <2> QED BY <1>1, <1>2, <2>1, <2>2 DEF Result, n
  <1> QED BY <1>7, <1>8

\* Missing readings and idle rows never turn a healthy condenser into a
\* failing one, nor hide one that is below the floor.
THEOREM QuietWhenHealthy == Spec => []HealthyDeltaIsQuiet
  <1>1. IInv => HealthyDeltaIsQuiet
    <2> SUFFICES ASSUME IInv, LoggedOn("condenser")
                 PROVE  LET delta == {Rows[k].delta : k \in {k \in 1..Len(Rows) : Rows[k].cmd = 1}} \ {NaN}
                        IN /\ (\A d \in delta : d >= 80) => DetectCondenserAirflow(dep) = "none"
                           /\ delta # {} /\ (\A d \in delta : d < CondenserFloor) =>
                                DetectCondenserAirflow(dep) = "critical"
      BY DEF HealthyDeltaIsQuiet
    <2> DEFINE n == Len(Rows)
               at == {k \in 1..n : Rows[k].cmd = 1 /\ Rows[k].delta # NaN}
               delta == {Rows[k].delta : k \in {k \in 1..n : Rows[k].cmd = 1}} \ {NaN}
               run == RunningDelta(Rows)
    <2>1. n \in Nat \ {0}
      BY LoggedRows DEF Recordings
    <2>2. delta = {Rows[k].delta : k \in at}
      OBVIOUS
    <2>3. \A k \in at : Rows[k].delta \in {20, 80, 120}
      <3> SUFFICES ASSUME NEW k \in at PROVE Rows[k].delta \in {20, 80, 120}
        OBVIOUS
      <3>1. source = "condenser" /\ source \in Logged /\ k \in 1..n
        BY DEF LoggedOn, IInv, SourceOK, Sources, HourSources, WeekSources
      <3>2. [Rows[k] EXCEPT !.ts = 0] \in NewRows("condenser") /\ Rows[k] \in Row
        BY <3>1, LoggedRows DEF IInv, Logs, Recordings
      <3> DEFINE r == [Rows[k] EXCEPT !.ts = 0]
      <3>3. r.cmd = 1 /\ r.delta = Rows[k].delta /\ Rows[k].delta # NaN
        BY <3>2 DEF Row
      <3> HIDE DEF r
      <3>4. r \in NewRows("condenser")
        BY <3>2 DEF r
      <3>5. r.delta \in {20, 80, 120, NaN}
        <4>1. QuietRow.cmd = 0
          BY DEF QuietRow
        <4>2. PICK d \in {20, 80, 120, NaN} : r = [QuietRow EXCEPT !.cmd = 1, !.delta = d]
          BY <3>3, <3>4, <4>1 DEF NewRows
        <4>3. r.delta = d
          BY <4>2 DEF QuietRow
        <4> QED BY <4>3
      <3> QED BY <3>3, <3>5
    <2>4. /\ Cardinality(at) \in 0..n /\ Len(run) = Cardinality(at)
          /\ (Cardinality(at) = 0 <=> at = {})
          /\ \A k \in 1..Cardinality(at) : Nth(at, k) \in at /\ run[k] = Rows[Nth(at, k)].delta
      <3>1. at \in SUBSET (1..n)
        OBVIOUS
      <3>2. run = Where(Column(Rows, "delta"), at)
        BY DEF RunningDelta
      <3>3. \A k \in 1..n : Column(Rows, "delta")[k] = Rows[k].delta
        BY DEF Column
      <3> HIDE DEF at, run
      <3>4. /\ Cardinality(at) \in 0..n /\ Len(run) = Cardinality(at)
            /\ (Cardinality(at) = 0 <=> at = {})
            /\ \A k \in 1..Cardinality(at) :
                 Nth(at, k) \in at /\ run[k] = Column(Rows, "delta")[Nth(at, k)]
        BY <2>1, <3>1, <3>2, WhereIs
      <3> QED BY <3>1, <3>3, <3>4
    <2>5. \A k \in 1..Len(run) : run[k] \in delta /\ run[k] \in {20, 80, 120}
      <3> HIDE DEF at, run, delta
      <3> QED BY <2>2, <2>3, <2>4
    <2>6. run \in Seq(Int) /\ Len(run) \in Nat
      <3>1. run = [k \in 1..Cardinality(at) |-> Column(Rows, "delta")[Nth(at, k)]]
        BY DEF RunningDelta, Where
      <3> HIDE DEF at, run
      <3>2. run \in [1..Len(run) -> Int] /\ Len(run) \in Nat
        BY <2>1, <2>4, <2>5, <3>1
      <3> QED BY <3>2, SeqDef
    <2>7. Len(run) = 0 <=> delta = {}
      <3> HIDE DEF at, run, delta
      <3> QED BY <2>2, <2>4
    <2>8. dep.channels = Rows
      BY DEF Rows
    <2>9. CASE Len(run) = 0
      <3>1. DetectCondenserAirflow(dep) = "none"
        BY <2>8, <2>9 DEF DetectCondenserAirflow
      <3> QED BY <2>7, <2>9, <3>1
    <2>10. CASE Len(run) # 0
      <3> HIDE DEF run, delta, Rows
      <3>1. ASSUME \A d \in delta : d >= 80 PROVE DetectCondenserAirflow(dep) = "none"
        <4>1. \A k \in 1..Len(run) : 80 <= run[k] /\ run[k] <= 120
          BY <2>5, <3>1
        <4> QED BY <2>6, <2>8, <2>10, <4>1, CondenserRange, SMTT(60) DEF run
      <3>2. ASSUME \A d \in delta : d < CondenserFloor PROVE DetectCondenserAirflow(dep) = "critical"
        <4>1. \A k \in 1..Len(run) : 20 <= run[k] /\ run[k] <= 49
          BY <2>5, <3>2 DEF CondenserFloor
        <4>2. 49 < CondenserFloor
          BY DEF CondenserFloor
        <4>3. 49 < CondenserFloor => DetectCondenserAirflow(dep) = "critical"
          <5> DEFINE R == RunningDelta(dep.channels)
          <5>1. R = run
            BY <2>8 DEF run
          <5> HIDE DEF R
          <5>2. Len(R) \in Nat \ {0} /\ R \in Seq(Int) /\ 20 \in Int /\ 49 \in Int
            BY <2>6, <2>10, <5>1
          <5>3. \A k \in 1..Len(R) : 20 <= R[k] /\ R[k] <= 49
            BY <4>1, <5>1
          <5> QED BY <5>2, <5>3, CondenserRange, Zenon DEF R
        <4> QED BY <4>2, <4>3
      <3> QED BY <3>1, <3>2 DEF delta
    <2> QED BY <2>9, <2>10
  <1> QED BY <1>1, Inductive, PTL

\* A drip recording has a row every ten units of time.
LEMMA DripRows ==
  ASSUME IInv, LoggedOn("drip")
  PROVE  \A k \in 1..Len(Rows) : Rows[k].ts = 10 * (k - 1) /\ Rows[k].drip \in {0, 50, NaN}
  <1> DEFINE n == Len(Rows)
             S == {j \in Nat : j + 1 <= n => Rows[j + 1].ts = 10 * j}
  <1>1. /\ source = "drip" /\ source \in Logged /\ n \in Nat \ {0}
        /\ \A k \in 1..n : Rows[k] \in Row /\ Rows[k].ts \in Nat
    BY LoggedRows DEF LoggedOn, IInv, SourceOK, Recordings, Sources, HourSources, WeekSources
  <1>2. \A k \in 1..n :
          /\ [Rows[k] EXCEPT !.ts = 0] \in NewRows("drip")
          /\ IF k = 1 THEN Rows[k].ts = 0 ELSE Rows[k].ts - Rows[k - 1].ts \in Gaps("drip")
    BY <1>1 DEF IInv, Logs
  <1>3. Gaps("drip") = {10}
    BY DEF Gaps
  <1>4. 0 \in S
    <2>1. 1 \in 1..n
      BY <1>1
    <2>2. Rows[1].ts = 0
      BY <1>2, <2>1
    <2> QED BY <2>2
  <1>5. ASSUME NEW j \in Nat, j \in S PROVE j + 1 \in S
    <2> SUFFICES ASSUME (j + 1) + 1 <= n PROVE Rows[(j + 1) + 1].ts = 10 * (j + 1)
      OBVIOUS
    <2> DEFINE k == j + 2
    <2>1. k \in 1..n /\ k # 1 /\ k - 1 = j + 1 /\ j + 1 \in 1..n /\ (j + 1) + 1 = k
      BY <1>1
    <2> HIDE DEF k
    <2>2. Rows[k].ts - Rows[k - 1].ts = 10
      BY <1>2, <1>3, <2>1
    <2>3. Rows[k].ts \in Nat /\ Rows[j + 1].ts = 10 * j
      BY <1>1, <1>5, <2>1
    <2> DEFINE x == Rows[k].ts
               y == Rows[k - 1].ts
    <2>4. x - y = 10 /\ x \in Nat /\ y = 10 * j
      BY <2>1, <2>2, <2>3
    <2> HIDE DEF x, y
    <2>5. x = 10 * (j + 1)
      BY <2>4
    <2> QED BY <2>1, <2>5 DEF x
  <1>6. ASSUME NEW k \in 1..n PROVE Rows[k].ts = 10 * (k - 1)
    <2>1. k - 1 \in Nat /\ (k - 1) + 1 = k /\ k <= n
      BY <1>1
    <2>2. k - 1 \in S
      <3> HIDE DEF S
      <3> QED BY <1>4, <1>5, <2>1, SetInduction
    <2> QED BY <2>1, <2>2
  <1>7. ASSUME NEW k \in 1..n PROVE Rows[k].drip \in {0, 50, NaN}
    <2> DEFINE r == [Rows[k] EXCEPT !.ts = 0]
    <2>1. r.drip = Rows[k].drip
      BY <1>1 DEF Row
    <2>2. r \in NewRows("drip")
      BY <1>2
    <2> HIDE DEF r
    <2>3. r.drip \in {0, 50, NaN}
      BY <2>2 DEF NewRows, QuietRow
    <2> QED BY <2>1, <2>3
  <1> QED BY <1>6, <1>7

\* The readings there are, and their sample period.
LEMMA DripReadings ==
  ASSUME IInv, LoggedOn("drip")
  PROVE  /\ Len(Drips(Rows)) \in Nat
         /\ \A k \in 1..Len(Drips(Rows)) : Drips(Rows)[k].drip \in Int
         /\ Len(Drips(Rows)) >= 2 => Period2(Drips(Rows)) \in Nat \ {0}
  <1> DEFINE n == Len(Rows)
             at == {k \in 1..n : Rows[k].drip # NaN}
             all == [k \in 1..n |-> [ts |-> Rows[k].ts, drip |-> Rows[k].drip]]
             drips == Drips(Rows)
             m == Cardinality(at)
  <1>1. n \in Nat \ {0}
    BY LoggedRows DEF Recordings
  <1>2. at \in SUBSET (1..n) /\ drips = Where(all, at)
    BY DEF Drips
  <1>3. /\ m \in 0..n /\ Len(drips) = m /\ IsFiniteSet(at) /\ at \in SUBSET Int
        /\ \A k \in 1..m : Nth(at, k) \in at /\ drips[k] = all[Nth(at, k)]
    <2> HIDE DEF all, at, drips
    <2> QED BY <1>1, <1>2, WhereIs
  <1>4. \A k \in 1..n : all[k].ts = 10 * (k - 1) /\ all[k].drip \in {0, 50, NaN}
    BY DripRows
  <1>5. \A k \in at : all[k].ts = 10 * (k - 1) /\ all[k].drip \in {0, 50} /\ k \in 1..n
    BY <1>4
  <1>6. m \in Nat /\ \A k \in 1..m : Nth(at, k) \in 1..n /\ drips[k].ts = 10 * (Nth(at, k) - 1)
                                      /\ drips[k].drip \in {0, 50}
    <2> HIDE DEF at, all, drips, m, n
    <2>1. m \in Nat
      BY <1>1, <1>3
    <2>2. \A k \in 1..m : Nth(at, k) \in at /\ drips[k] = all[Nth(at, k)]
      BY <1>3
    <2> QED BY <1>5, <2>1, <2>2
  <1> HIDE DEF at, all, drips, m, n
  <1>7. ASSUME m >= 2 PROVE Period2(drips) \in Nat \ {0}
    <2> DEFINE f == [k \in 1..(m - 1) |-> drips[k + 1].ts - drips[k].ts]
               D == 1..(m - 1)
    <2>1. \A k \in D : f[k] \in Int /\ 10 <= f[k] /\ f[k] <= 10 * n
      <3> SUFFICES ASSUME NEW k \in D
                   PROVE  f[k] \in Int /\ 10 <= f[k] /\ f[k] <= 10 * n
        OBVIOUS
      <3> DEFINE x == Nth(at, k)
                 y == Nth(at, k + 1)
      <3>1. k \in 1..m /\ k + 1 \in 1..m /\ k < k + 1
        BY <1>6, <1>7
      <3>2. x < y
        BY <1>3, <3>1, NthGrows DEF m
      <3>3. /\ x \in 1..n /\ y \in 1..n
            /\ drips[k].ts = 10 * (x - 1) /\ drips[k + 1].ts = 10 * (y - 1)
        BY <1>6, <3>1
      <3>4. f[k] = drips[k + 1].ts - drips[k].ts
        OBVIOUS
      <3> HIDE DEF f, x, y
      <3> QED BY <1>1, <3>2, <3>3, <3>4
    <2>2. IsFiniteSet(D) /\ D # {}
      <3>1. m - 1 \in Nat
        BY <1>6, <1>7
      <3>2. IsFiniteSet(D)
        BY <3>1, PlacesFinite
      <3>3. 1 \in D
        BY <1>6, <1>7
      <3> QED BY <3>2, <3>3
    <2>3. f \in [D -> Int]
      <3>1. \A k \in D : drips[k + 1].ts - drips[k].ts \in Int
        BY <2>1
      <3> QED BY <3>1
    <2>4. Period2(drips) = Median2(f)
      BY <1>3, <1>6, <1>7 DEF Period2
    <2> HIDE DEF f, D
    <2>5. 10 \in Int /\ 10 * n \in Int
      BY <1>1
    <2>6. Median2(f) \in Int /\ 2 * 10 <= Median2(f)
      <3> DEFINE hi == 10 * n
      <3>1. \A k \in D : 10 <= f[k] /\ f[k] <= hi
        BY <2>1
      <3>2. hi \in Int
        BY <2>5
      <3> HIDE DEF hi
      <3> QED BY <2>2, <2>3, <3>1, <3>2, MedianBetween
    <2> QED BY <2>4, <2>6
  <1>8. \A k \in 1..m : drips[k].drip \in Int
    BY <1>6
  <1> QED BY <1>3, <1>6, <1>7, <1>8 DEF drips

\* Of the readings of a window at least half full, how many may be high
\* before the window counts as a sustained drip.
LEMMA Fractions ==
  ASSUME NEW drips, Len(drips) \in Nat, NEW w \in Nat \ {0}, SealSamples(drips) = w,
         NEW above \in Nat,
         above = Cardinality({k \in 1..Len(drips) : drips[k].drip >= SealFloor})
  PROVE  /\ IsFiniteSet(SustainedFractions(drips)) /\ SustainedFractions(drips) \in SUBSET Int
         /\ 100 * above < SealFraction * (w \div 2) =>
              \A x \in SustainedFractions(drips) : x < SealFraction
         /\ /\ Len(drips) >= w
            /\ Cardinality({k \in (Len(drips) - w + 1)..Len(drips) : drips[k].drip >= SealFloor}) = w
            => 100 \in SustainedFractions(drips)
  <1> DEFINE n == Len(drips)
             At(k) == Min({k, w})
             High(k) == {j \in (k - At(k) + 1)..k : drips[j].drip >= SealFloor}
             K == {k \in 1..n : At(k) >= MinPeriods(w)}
             f == [k \in K |-> (100 * Cardinality(High(k))) \div At(k)]
             All == {k \in 1..n : drips[k].drip >= SealFloor}
  <1>1. SustainedFractions(drips) = {f[k] : k \in K}
    BY DEF SustainedFractions
  <1>2. \A k \in 1..n : At(k) = (IF k <= w THEN k ELSE w) /\ At(k) \in 1..k /\ At(k) <= w
    <2> SUFFICES ASSUME NEW k \in 1..n
                 PROVE  At(k) = (IF k <= w THEN k ELSE w) /\ At(k) \in 1..k /\ At(k) <= w
      OBVIOUS
    <2>1. k \in Int /\ w \in Int /\ k >= 1
      OBVIOUS
    <2>2. At(k) = (IF k <= w THEN k ELSE w)
      BY <2>1, OfTwo, Zenon
    <2> HIDE DEF At
    <2> QED BY <2>1, <2>2
  <1>3. \A k \in 1..n : High(k) \subseteq All
    <2> SUFFICES ASSUME NEW k \in 1..n PROVE (k - At(k) + 1)..k \subseteq 1..n
      OBVIOUS
    <2>1. At(k) \in 1..k
      BY <1>2
    <2> HIDE DEF At
    <2> QED BY <2>1
  <1>4. IsFiniteSet(All)
    <2>1. IsFiniteSet(1..n) /\ All \subseteq 1..n
      BY FS_Interval
    <2> HIDE DEF All
    <2> QED BY <2>1, FS_Subset
  <1>5. \A k \in 1..n : Cardinality(High(k)) \in Nat /\ Cardinality(High(k)) <= above
    <2> HIDE DEF High, All
    <2> QED BY <1>3, <1>4, FS_Subset, FS_CardinalityType DEF All
  <1>6. \A k \in K : f[k] \in Int
    <2> SUFFICES ASSUME NEW k \in K PROVE (100 * Cardinality(High(k))) \div At(k) \in Int
      OBVIOUS
    <2>1. Cardinality(High(k)) \in Nat /\ At(k) \in Nat \ {0}
      BY <1>2, <1>5
    <2> HIDE DEF High, At
    <2>2. 100 * Cardinality(High(k)) \in Int
      BY <2>1
    <2> QED BY <2>1, <2>2, Quotient
  <1>7. IsFiniteSet({f[k] : k \in K})
    <2>1. IsFiniteSet(K)
      <3>1. IsFiniteSet(1..n) /\ K \subseteq 1..n
        BY FS_Interval
      <3> HIDE DEF K
      <3> QED BY <3>1, FS_Subset
    <2> HIDE DEF f, K
    <2> QED BY <2>1, FiniteImage
  <1>8. MinPeriods(w) >= w \div 2 /\ MinPeriods(w) <= w /\ w \div 2 \in Nat /\ MinPeriods(w) \in Nat
    <2> DEFINE h == w \div 2
    <2>1. h \in Nat /\ h <= w
      OBVIOUS
    <2> HIDE DEF h
    <2>2. Max({1, h}) = IF 1 <= h THEN h ELSE 1
      <3>1. 1 \in Int /\ h \in Int
        BY <2>1
      <3> QED BY <3>1, OfTwo, Zenon
    <2>3. MinPeriods(w) = Max({1, h})
      BY DEF MinPeriods, h
    <2>4. MinPeriods(w) >= h /\ MinPeriods(w) <= w /\ MinPeriods(w) \in Nat
      BY <2>1, <2>2, <2>3
    <2> QED BY <2>1, <2>4 DEF h
  <1>9. ASSUME 100 * above < SealFraction * (w \div 2), NEW k \in K PROVE f[k] < SealFraction
    <2> DEFINE c == Cardinality(High(k))
               a == At(k)
               h == w \div 2
    <2>1. c \in Nat /\ c <= above /\ a \in Nat \ {0} /\ a >= h /\ h \in Nat
      <3>1. k \in 1..n /\ a >= MinPeriods(w)
        OBVIOUS
      <3>2. a \in 1..k /\ c \in Nat /\ c <= above
        BY <1>2, <1>5, <3>1
      <3> HIDE DEF a, c, h
      <3> QED BY <1>8, <3>1, <3>2 DEF h
    <2>2. f[k] = (100 * c) \div a
      OBVIOUS
    <2>3. 100 * above < 60 * h
      BY <1>9 DEF SealFraction
    <2> HIDE DEF f, c, a, h
    <2>4. 100 * c < a * 60 /\ 100 * c \in Int
      BY <2>1, <2>3
    <2> QED BY <2>1, <2>2, <2>4, QuotientBelow DEF SealFraction
  <1>10. ASSUME n >= w,
                Cardinality({k \in (n - w + 1)..n : drips[k].drip >= SealFloor}) = w
         PROVE  100 \in {f[k] : k \in K}
    <2>1. n \in 1..n /\ At(n) = w
      <3>1. n \in 1..n
        BY <1>10
      <3> HIDE DEF At
      <3> QED BY <1>2, <1>10, <3>1
    <2>2. n \in K
      BY <1>8, <2>1
    <2>3. Cardinality(High(n)) = w
      BY <1>10, <2>1
    <2>4. f[n] = (100 * w) \div w
      <3>1. f[n] = (100 * Cardinality(High(n))) \div At(n)
        BY <2>2
      <3> HIDE DEF High, At, f
      <3> QED BY <2>1, <2>3, <3>1
    <2>5. (100 * w) \div w = 100
      <3> DEFINE q == (100 * w) \div w
      <3>1. 100 <= q
        BY QuotientAbove
      <3>2. q < 101
        BY QuotientBelow
      <3>3. q \in Int
        BY Quotient
      <3> HIDE DEF q
      <3>4. q = 100
        BY <3>1, <3>2, <3>3
      <3> QED BY <3>4 DEF q
    <2> HIDE DEF f, K
    <2> QED BY <2>2, <2>4, <2>5
  <1>11. {f[k] : k \in K} \in SUBSET Int
    <2> HIDE DEF f, K
    <2> QED BY <1>6
  <1>12. 100 * above < SealFraction * (w \div 2) => \A x \in {f[k] : k \in K} : x < SealFraction
    <2> HIDE DEF f, K
    <2> QED BY <1>9
  <1> HIDE DEF f, K
  <1> QED BY <1>1, <1>7, <1>10, <1>11, <1>12

\* For a recording of any length and any window: a burst shorter than the
\* fraction of half a window never counts as a sustained drip, a window full
\* of dripping always does.
THEOREM RideOut == Spec => []BurstsRideOut
  <1>1. IInv => BurstsRideOut
    <2> SUFFICES ASSUME IInv, LoggedOn("drip")
                 PROVE  LET drips == Drips(Rows)
                            w == SealSamples(drips)
                            Above(s) == Cardinality({k \in s : drips[k].drip >= SealFloor})
                            most == Max({0} \union SustainedFractions(drips))
                        IN /\ 100 * Above(1..Len(drips)) < SealFraction * (w \div 2) =>
                                most < SealFraction
                           /\ Len(drips) >= w /\ Above((Len(drips) - w + 1)..Len(drips)) = w =>
                                DetectSealFailure(dep) # "none"
      BY DEF BurstsRideOut
    <2> DEFINE drips == Drips(Rows)
               n == Len(drips)
               w == SealSamples(drips)
               All == {k \in 1..n : drips[k].drip >= SealFloor}
               above == Cardinality(All)
               fractions == SustainedFractions(drips)
               most == Max({0} \union fractions)
    <2>1. n \in Nat /\ (n >= 2 => Period2(drips) \in Nat \ {0})
      BY DripReadings
    <2> HIDE DEF drips
    <2>2. w \in Nat \ {0}
      <3> DEFINE q == IF Len(drips) < 2 THEN 30 * SealWindow ELSE (2 * SealWindow) \div Period2(drips)
      <3>1. q \in Int
        <4>1. CASE n < 2
          BY <4>1, SealAssumption
        <4>2. CASE ~(n < 2)
          BY <2>1, <4>2, SealAssumption, Quotient
        <4> QED BY <4>1, <4>2
      <3> HIDE DEF q
      <3>2. Max({1, q}) = IF 1 <= q THEN q ELSE 1
        <4>1. 1 \in Int
          OBVIOUS
        <4> QED BY <3>1, <4>1, OfTwo, Zenon
      <3>3. Max({1, q}) \in Nat \ {0}
        BY <3>1, <3>2
      <3> QED BY <3>3 DEF SealSamples, q
    <2>3. above \in Nat
      <3>1. IsFiniteSet(1..n) /\ All \subseteq 1..n
        BY <2>1, FS_Interval
      <3> HIDE DEF All
      <3> QED BY <3>1, FS_Subset, FS_CardinalityType
    <2> HIDE DEF w, above, fractions, most
    <2>4. /\ IsFiniteSet(fractions) /\ fractions \in SUBSET Int
          /\ 100 * above < SealFraction * (w \div 2) => \A x \in fractions : x < SealFraction
          /\ /\ n >= w
             /\ Cardinality({k \in (n - w + 1)..n : drips[k].drip >= SealFloor}) = w
             => 100 \in fractions
      BY <2>1, <2>2, <2>3, Fractions DEF w, above, fractions
    <2>5. /\ most \in Int /\ 0 <= most /\ \A y \in fractions : y <= most
          /\ most # 0 => most \in fractions
      BY <2>4, MaxOrZero DEF most
    <2>6. ASSUME 100 * above < SealFraction * (w \div 2) PROVE most < SealFraction
      BY <2>4, <2>5, <2>6 DEF SealFraction
    <2>7. ASSUME n >= w,
                 Cardinality({k \in (n - w + 1)..n : drips[k].drip >= SealFloor}) = w
          PROVE  DetectSealFailure(dep) # "none"
      <3>1. most >= SealFraction
        BY <2>4, <2>5, <2>7 DEF SealFraction
      <3>2. drips # <<>>
        BY <2>1, <2>2, <2>7
      <3>3. dep.channels = Rows
        BY DEF Rows
      <3> DEFINE days == {drips[k].ts \div Day : k \in 1..n}
                 trend == Cardinality(days) >= SealMinDays
                            /\ 10 * SealTrend(drips) >= SealSlope10 * Unit
      <3>4. DetectSealFailure(dep) =
              Result((most >= SealFraction) \/ trend, ((most >= SealFraction) /\ trend) \/ most >= 84)
        BY <3>2, <3>3 DEF DetectSealFailure, most, fractions, drips
      <3> HIDE DEF trend
      <3> QED BY <3>1, <3>4 DEF Result
    <2> QED BY <2>6, <2>7 DEF drips, w, above, most, fractions
  <1> QED BY <1>1, Inductive, PTL

-----------------------------------------------------------------------------
(* The trends by day.                                                      *)

\* The medians by day: one for each day that has samples.
LEMMA DailyMedians ==
  ASSUME NEW samples, Len(samples) \in Nat,
         \A k \in 1..Len(samples) : samples[k][1] \in Nat /\ samples[k][2] \in Int
  PROVE  LET days == {samples[k][1] \div Day : k \in 1..Len(samples)}
         IN /\ IsFiniteSet(days) /\ days \in SUBSET Nat
            /\ DailyMedian2(samples) \in [1..Cardinality(days) -> Int]
            /\ Len(DailyMedian2(samples)) = Cardinality(days)
  <1> DEFINE m == Len(samples)
             onDay == [k \in 1..m |-> samples[k][1] \div Day]
             days == {samples[k][1] \div Day : k \in 1..m}
             Of(d) == {k \in 1..m : samples[k][1] \div Day = d}
             group(d) == [k \in Of(d) |-> samples[k][2]]
             c == Cardinality(days)
  <1>1. IsFiniteSet(1..m)
    BY PlacesFinite
  <1>2. IsFiniteSet(days)
    <2>1. days = {onDay[k] : k \in 1..m}
      OBVIOUS
    <2> HIDE DEF days, onDay
    <2> QED BY <1>1, <2>1, FiniteImage
  <1>3. days \in SUBSET Nat
    <2> SUFFICES ASSUME NEW k \in 1..m PROVE samples[k][1] \div Day \in Nat
      OBVIOUS
    <2>1. samples[k][1] \in Nat
      OBVIOUS
    <2> QED BY <2>1, DayAssumption, QuotientNatural
  <1>4. ASSUME NEW d \in days PROVE Median2(group(d)) \in Int
    <2>1. PICK k \in 1..m : samples[k][1] \div Day = d
      OBVIOUS
    <2>2. k \in Of(d)
      BY <2>1
    <2>3. IsFiniteSet(Of(d))
      BY <1>1, FS_Subset
    <2>4. group(d) \in [Of(d) -> Int]
      OBVIOUS
    <2> HIDE DEF group, Of
    <2> QED BY <2>2, <2>3, <2>4, MedianType
  <1>5. c \in Nat /\ \A n \in 1..c : Nth(days, n) \in days
    <2>1. days \in SUBSET Int
      BY <1>3
    <2> HIDE DEF days
    <2> QED BY <1>2, <2>1, NthPlace
  <1>6. /\ Len(Ascending(days)) = c
        /\ \A n \in 1..c : Ascending(days)[n] = Nth(days, n)
    <2> HIDE DEF days
    <2> QED BY <1>5 DEF Ascending
  <1>7. DailyMedian2(samples) = [n \in 1..c |-> Median2(group(Ascending(days)[n]))]
    BY <1>6 DEF DailyMedian2
  <1>8. \A n \in 1..c : Median2(group(Ascending(days)[n])) \in Int
    <2> HIDE DEF days, group
    <2> QED BY <1>4, <1>5, <1>6
  <1>9. /\ DailyMedian2(samples) \in [1..c -> Int]
        /\ Len(DailyMedian2(samples)) = c
    <2> HIDE DEF days, group, c
    <2> QED BY <1>5, <1>7, <1>8, SMTT(60) DEF c
  <1> QED BY <1>2, <1>3, <1>9

\* In a recording of the beater current every row is a loaded sample.
LEMMA AllLoaded ==
  ASSUME IInv, LoggedOn("beater")
  PROVE  /\ Len(Loaded(Rows)) = Len(Rows) /\ Len(Rows) \in Nat \ {0}
         /\ \A k \in 1..Len(Rows) : /\ Loaded(Rows)[k] = <<Rows[k].ts, Rows[k].amps>>
                                    /\ Rows[k].ts \in Nat /\ Rows[k].amps \in Int
  <1> DEFINE n == Len(Rows)
             all == [k \in 1..n |-> <<Rows[k].ts, Rows[k].amps>>]
             at == {k \in 1..n : Rows[k].beater = 1 /\ Rows[k].amps # NaN}
  <1>1. /\ source = "beater" /\ source \in Logged /\ n \in Nat \ {0}
        /\ \A k \in 1..n : Rows[k] \in Row /\ Rows[k].ts \in Nat
    BY LoggedRows DEF LoggedOn, IInv, SourceOK, Recordings, Sources, HourSources, WeekSources
  <1>2. ASSUME NEW k \in 1..n PROVE Rows[k].beater = 1 /\ Rows[k].amps \in Int
    <2> DEFINE r == [Rows[k] EXCEPT !.ts = 0]
    <2>1. r \in NewRows("beater")
      BY <1>1 DEF IInv, Logs
    <2>2. r.beater = Rows[k].beater /\ r.amps = Rows[k].amps
      BY <1>1 DEF Row
    <2> HIDE DEF r
    <2>3. PICK a \in {250, 300, 400} : r = [QuietRow EXCEPT !.beater = 1, !.amps = a]
      BY <2>1 DEF NewRows
    <2>4. r.beater = 1 /\ r.amps = a
      BY <2>3 DEF QuietRow
    <2> QED BY <2>2, <2>4
  <1>3. at = 1..n
    BY <1>2, NaNAssumption
  <1>4. Loaded(Rows) = Where(all, 1..n)
    BY <1>3 DEF Loaded
  <1> HIDE DEF at, all
  <1>5. /\ Len(Where(all, 1..n)) = n
        /\ \A k \in 1..n : Where(all, 1..n)[k] = all[k]
    <2>1. n \in Nat
      BY <1>1
    <2> HIDE DEF n
    <2>2. Cardinality(1..n) = n /\ \A k \in 1..n : Nth(1..n, k) = k
      BY <2>1, NthOfInterval
    <2>3. Where(all, 1..n) = [k \in 1..n |-> all[Nth(1..n, k)]]
      BY <2>2 DEF Where
    <2> QED BY <2>1, <2>2, <2>3
  <1> QED BY <1>1, <1>2, <1>4, <1>5, ZenonT(60) DEF all

\* The pairs of days a slope is taken over.
LEMMA PairsAre ==
  ASSUME NEW n \in Nat, n >= 2
  PROVE  /\ IsFiniteSet(PairsOf(n)) /\ PairsOf(n) # {}
         /\ \A p \in PairsOf(n) : p[1] \in 1..n /\ p[2] \in 1..n /\ p[1] < p[2]
  <1>1. IsFiniteSet((1..n) \X (1..n))
    <2>1. IsFiniteSet(1..n)
      BY FS_Interval
    <2> QED BY <2>1, FS_Product
  <1>2. IsFiniteSet(PairsOf(n))
    BY <1>1, FS_Subset DEF PairsOf
  <1>3. <<1, 2>> \in PairsOf(n)
    BY DEF PairsOf
  <1> QED BY <1>2, <1>3 DEF PairsOf

\* The slope of these daily values over days with these dates.
SlopeOver(values, at) ==
  Median2([p \in PairsOf(Len(values)) |->
             ((values[p[2]] - values[p[1]]) * 840) \div (at[p[2]] - at[p[1]])])

\* A current that never falls, over days further apart than their places in
\* the list, has a slope by the list at least as great; over days as far
\* apart, the same.
LEMMA SlopeByPlace ==
  ASSUME NEW n \in Nat, n >= 2, NEW values \in [1..n -> Int], Len(values) = n,
         NEW at \in [1..n -> Nat], \A a \in 1..n : \A b \in a..n : b - a <= at[b] - at[a]
  PROVE  /\ (\A k \in 1..(n - 1) : values[k] <= values[k + 1]) =>
              Slope(values) >= SlopeOver(values, at)
         /\ (\A a, b \in 1..n : at[b] - at[a] = b - a) => Slope(values) = SlopeOver(values, at)
  <1> DEFINE D == PairsOf(n)
             rise(p) == (values[p[2]] - values[p[1]]) * 840
             f == [p \in D |-> rise(p) \div (at[p[2]] - at[p[1]])]
             g == [p \in D |-> rise(p) \div Lag(p[1], p[2])]
  <1>1. IsFiniteSet(D) /\ D # {}
    BY PairsAre
  <1> HIDE DEF f, g
  <1>2. ASSUME NEW p \in D
        PROVE  /\ p[1] \in 1..n /\ p[2] \in p[1]..n /\ p[2] \in 1..n
               /\ Lag(p[1], p[2]) = p[2] - p[1] /\ p[2] - p[1] \in Nat \ {0}
               /\ at[p[2]] - at[p[1]] \in Nat \ {0} /\ p[2] - p[1] <= at[p[2]] - at[p[1]]
               /\ rise(p) \in Int
    <2> DEFINE x == p[1]
               y == p[2]
    <2>1. x \in 1..n /\ y \in 1..n /\ x < y
      BY PairsAre
    <2> HIDE DEF D, x, y
    <2>2. y \in x..n /\ y - x \in Nat \ {0}
      BY <2>1
    <2>3. at[x] \in Nat /\ at[y] \in Nat /\ y - x <= at[y] - at[x]
      BY <2>1, <2>2
    <2>4. at[y] - at[x] \in Nat \ {0}
      <3> DEFINE u == at[x]
                 v == at[y]
      <3>1. u \in Nat /\ v \in Nat /\ y - x <= v - u /\ y - x \in Nat \ {0}
        BY <2>2, <2>3
      <3> HIDE DEF u, v
      <3>2. v - u \in Nat \ {0}
        BY <3>1
      <3> QED BY <3>2 DEF u, v
    <2>5. (values[y] - values[x]) * 840 \in Int
      <3>1. values[x] \in Int /\ values[y] \in Int
        BY <2>1
      <3> DEFINE u == values[x]
                 v == values[y]
      <3> HIDE DEF u, v
      <3>2. u \in Int /\ v \in Int => (v - u) * 840 \in Int
        OBVIOUS
      <3> QED BY <3>1, <3>2 DEF u, v
    <2>6. Lag(x, y) = y - x
      BY DEF Lag
    <2> QED BY <2>1, <2>2, <2>3, <2>4, <2>5, <2>6 DEF x, y
  <1>3. Slope(values) = Median2(g)
    BY DEF Slope, g
  <1>4. f \in [D -> Int] /\ g \in [D -> Int]
    <2>1. \A p \in D : /\ rise(p) \div (at[p[2]] - at[p[1]]) \in Int
                       /\ rise(p) \div Lag(p[1], p[2]) \in Int
      <3> SUFFICES ASSUME NEW p \in D
                   PROVE  /\ rise(p) \div (at[p[2]] - at[p[1]]) \in Int
                          /\ rise(p) \div Lag(p[1], p[2]) \in Int
        OBVIOUS
      <3> DEFINE r == rise(p)
                 x == at[p[2]] - at[p[1]]
                 y == Lag(p[1], p[2])
      <3>1. r \in Int /\ x \in Nat \ {0} /\ y \in Nat \ {0}
        BY <1>2
      <3> HIDE DEF r, x, y
      <3>2. r \div x \in Int /\ r \div y \in Int
        BY <3>1, Quotient
      <3> QED BY <3>2 DEF r, x, y
    <2> HIDE DEF rise
    <2> QED BY <2>1 DEF f, g
  <1>5. ASSUME \A k \in 1..(n - 1) : values[k] <= values[k + 1]
        PROVE  Median2(f) <= Median2(g)
    <2>1. ASSUME NEW p \in D PROVE f[p] <= g[p]
      <3> DEFINE r == rise(p)
                 x == at[p[2]] - at[p[1]]
                 y == Lag(p[1], p[2])
      <3>1. values[p[1]] <= values[p[2]] /\ values[p[1]] \in Int /\ values[p[2]] \in Int
        <4> DEFINE u == p[1]
                   v == p[2]
        <4>1. u \in 1..n /\ v \in u..n /\ v \in 1..n
          BY <1>2
        <4> HIDE DEF u, v
        <4>2. values[u] <= values[v]
          BY <1>5, <4>1, NeverFalls
        <4>3. values[u] \in Int /\ values[v] \in Int
          BY <4>1
        <4> QED BY <4>2, <4>3 DEF u, v
      <3>2. r \in Nat
        <4> DEFINE u == values[p[1]]
                   v == values[p[2]]
        <4>1. u \in Int /\ v \in Int /\ u <= v /\ r = (v - u) * 840
          BY <3>1
        <4> HIDE DEF u, v, r
        <4> QED BY <4>1
      <3>3. x \in Nat \ {0} /\ y \in Nat \ {0} /\ y <= x
        BY <1>2
      <3>4. f[p] = r \div x /\ g[p] = r \div y
        BY DEF f, g
      <3> HIDE DEF r, x, y, f, g
      <3> QED BY <3>2, <3>3, <3>4, QuotientFalls
    <2> HIDE DEF f, g, D
    <2> QED BY <1>1, <1>4, <2>1, MedianMonotone
  <1>6. ASSUME \A a, b \in 1..n : at[b] - at[a] = b - a
        PROVE  f = g
    <2>1. \A p \in D : at[p[2]] - at[p[1]] = Lag(p[1], p[2])
      <3> SUFFICES ASSUME NEW p \in D PROVE at[p[2]] - at[p[1]] = Lag(p[1], p[2])
        OBVIOUS
      <3> DEFINE u == p[1]
                 v == p[2]
      <3>1. u \in 1..n /\ v \in 1..n /\ Lag(u, v) = v - u
        BY <1>2
      <3> HIDE DEF u, v
      <3>2. at[v] - at[u] = Lag(u, v)
        BY <1>6, <3>1
      <3> QED BY <3>2 DEF u, v
    <2> HIDE DEF rise, D
    <2> QED BY <2>1 DEF f, g
  <1>7. Median2(f) \in Int /\ Median2(g) \in Int
    <2> HIDE DEF f, g, D
    <2> QED BY <1>1, <1>4, MedianType
  <1> DEFINE calendar == Median2(f)
             slope == Slope(values)
  <1>8. /\ (\A k \in 1..(n - 1) : values[k] <= values[k + 1]) => slope >= calendar
        /\ (\A a, b \in 1..n : at[b] - at[a] = b - a) => slope = calendar
    <2> HIDE DEF f, g
    <2> QED BY <1>3, <1>5, <1>6, <1>7
  <1> QED BY <1>8 DEF f, SlopeOver

\* Leaving out the closed days never makes a rising current rise more slowly,
\* and where no day is closed the trend is the one by the calendar.
THEOREM ClosedDays == Spec => []ClosedDaysOnlySteepen
  <1>1. IInv => ClosedDaysOnlySteepen
    <2> DEFINE loaded == Loaded(Rows)
               values == DailyMedian2(loaded)
               n == Len(values)
               m == Len(Rows)
               days == {Rows[k].ts \div Day : k \in 1..m}
    <2> SUFFICES ASSUME IInv, LoggedOn("beater")
                 PROVE  /\ (\A k \in 1..(n - 1) : values[k] <= values[k + 1]) =>
                             MotorTrend(Rows) >= CalendarSlope(Rows)
                        /\ Latest(Rows) \div Day = n - 1 =>
                             MotorTrend(Rows) = CalendarSlope(Rows)
      BY DEF ClosedDaysOnlySteepen
    <2>1. /\ Len(loaded) = m /\ m \in Nat \ {0}
          /\ \A k \in 1..m : /\ loaded[k] = <<Rows[k].ts, Rows[k].amps>>
                             /\ Rows[k].ts \in Nat /\ Rows[k].amps \in Int
      BY AllLoaded
    <2>2. /\ IsFiniteSet(days) /\ days \in SUBSET Nat /\ n = Cardinality(days)
          /\ values \in [1..n -> Int]
      <3>1. days = {loaded[k][1] \div Day : k \in 1..Len(loaded)}
        <4>1. \A k \in 1..m : loaded[k][1] = Rows[k].ts
          BY <2>1
        <4>2. Len(loaded) = m
          BY <2>1
        <4> HIDE DEF loaded, m
        <4> QED BY <4>1, <4>2
      <3>2. /\ Len(loaded) \in Nat
            /\ \A k \in 1..Len(loaded) : loaded[k][1] \in Nat /\ loaded[k][2] \in Int
        BY <2>1
      <3> HIDE DEF loaded, days, m
      <3> QED BY <3>1, <3>2, DailyMedians
    <2>3. MotorTrend(Rows) = Slope(values)
      BY DEF MotorTrend
    <2> DEFINE at == Ascending(days)
               calendar == SlopeOver(values, at)
    <2>4. /\ n \in Nat /\ Len(at) = n /\ at \in [1..n -> Nat]
          /\ \A k \in 1..n : at[k] = Nth(days, k)
      <3>1. days \in SUBSET Int
        BY <2>2
      <3>2. n \in Nat /\ \A k \in 1..n : Nth(days, k) \in days
        <4> HIDE DEF days, n
        <4> QED BY <2>2, <3>1, NthPlace
      <3>3. at = [k \in 1..n |-> Nth(days, k)]
        BY <2>2 DEF Ascending
      <3>4. \A k \in 1..n : Nth(days, k) \in Nat
        <4> HIDE DEF days, n
        <4> QED BY <2>2, <3>2
      <3> HIDE DEF days, n, at
      <3> QED BY <3>2, <3>3, <3>4
    <2>5. CalendarSlope(Rows) = IF n < 2 THEN 0 ELSE calendar
      <3>1. Len(Ascending(days)) = n
        BY <2>4
      <3> QED BY <3>1 DEF CalendarSlope, SlopeOver
    <2>6. \A a \in 1..n : \A b \in a..n : b - a <= at[b] - at[a]
      <3> SUFFICES ASSUME NEW a \in 1..n, NEW b \in a..n PROVE b - a <= at[b] - at[a]
        OBVIOUS
      <3>1. days \in SUBSET Int /\ b \in 1..n
        BY <2>2, <2>4
      <3>2. b - a <= Nth(days, b) - Nth(days, a)
        <4> HIDE DEF days, n
        <4> QED BY <2>2, <3>1, NthApart
      <3> QED BY <2>4, <3>1, <3>2
    <2>7. ASSUME Latest(Rows) \div Day = n - 1
          PROVE  \A a, b \in 1..n : at[b] - at[a] = b - a
      <3>1. days \subseteq 0..(n - 1)
        <4> SUFFICES ASSUME NEW k \in 1..m PROVE Rows[k].ts \div Day \in 0..(n - 1)
          OBVIOUS
        <4> DEFINE q == Rows[k].ts \div Day
        <4>1. Latest(Rows) \in Nat /\ Rows[k].ts \in Nat /\ Rows[k].ts <= Latest(Rows)
          BY <2>1, Instants
        <4>2. q \in Nat /\ Day * q <= Rows[k].ts
          <5> DEFINE t == Rows[k].ts
          <5>1. t \in Nat /\ t \in Int /\ Day \in Nat \ {0}
            BY <4>1, DayAssumption
          <5> HIDE DEF t
          <5>2. t \div Day \in Nat /\ Day * (t \div Day) <= t
            BY <5>1, Quotient, QuotientNatural
          <5> QED BY <5>2 DEF t
        <4> HIDE DEF q
        <4>3. Day * q <= Latest(Rows)
          <5>1. Day * q \in Int
            BY <4>2, DayAssumption
          <5> QED BY <4>1, <4>2, <5>1
        <4>4. q <= n - 1
          <5> DEFINE t == Latest(Rows)
          <5>1. q \in Int /\ t \in Int /\ Day \in Nat \ {0} /\ Day * q <= t
            BY <4>1, <4>2, <4>3, DayAssumption
          <5> HIDE DEF t
          <5>2. q <= t \div Day
            BY <5>1, QuotientAbove
          <5> QED BY <2>7, <5>2 DEF t
        <4>5. q \in 0..(n - 1)
          BY <2>4, <4>2, <4>4
        <4> QED BY <4>5 DEF q
      <3>2. days = 0..(n - 1)
        <4> HIDE DEF days, n
        <4>1. n \in Nat
          BY <2>4
        <4>2. IsFiniteSet(0..(n - 1)) /\ Cardinality(0..(n - 1)) = n
          BY <4>1, NthOfInterval
        <4> QED BY <2>2, <3>1, <4>2, FS_Subset
      <3>3. \A k \in 1..n : at[k] = k - 1
        <4> HIDE DEF days, n, at
        <4> QED BY <2>4, <3>2, NthOfInterval
      <3> HIDE DEF at, n
      <3> QED BY <2>4, <3>3
    <2>8. CASE n < 2
      <3>1. Slope(values) = 0
        BY <2>8 DEF Slope
      <3> QED BY <2>3, <2>5, <2>8, <3>1
    <2>9. CASE n >= 2
      <3>1. /\ (\A k \in 1..(n - 1) : values[k] <= values[k + 1]) => Slope(values) >= calendar
            /\ (\A a, b \in 1..n : at[b] - at[a] = b - a) => Slope(values) = calendar
        <4>1. Len(values) = n
          OBVIOUS
        <4> HIDE DEF at, values, n
        <4> QED BY <2>2, <2>4, <2>6, <2>9, <4>1, SlopeByPlace
      <3>2. CalendarSlope(Rows) = calendar
        BY <2>4, <2>5, <2>9
      <3> HIDE DEF at, values, calendar
      <3> QED BY <2>3, <2>7, <3>1, <3>2
    <2> QED BY <2>4, <2>8, <2>9
  <1> QED BY <1>1, Inductive, PTL

-----------------------------------------------------------------------------
(* A machine that does not freeze.                                         *)

\* Twice the longest duration of a run in which the TCC was never seen.
LongestUnsatisfied2(rows) ==
  Max({0} \union {Duration2(rows, r) : r \in Unsatisfied(rows)})

\* Sampled every six units of time, and never back in time.
Steady(rows) ==
  /\ rows \in Seq(Row)
  /\ \A k \in 1..(Len(rows) - 1) : rows[k + 1].ts = rows[k].ts + 6

LEMMA SteadyRows ==
  ASSUME NEW rows, Steady(rows)
  PROVE  /\ Len(rows) \in Nat /\ \A k \in 1..Len(rows) : rows[k] \in Row /\ rows[k].ts \in Nat
         /\ \A a \in 1..Len(rows) : \A b \in a..Len(rows) : rows[a].ts <= rows[b].ts
         /\ \A a \in 1..Len(rows) : \A b \in (a + 1)..Len(rows) : rows[a].ts < rows[b].ts
         /\ Period2(rows) = IF Len(rows) < 2 THEN 0 ELSE 12
  <1> DEFINE n == Len(rows)
             t == [k \in 1..n |-> rows[k].ts]
  <1>1. n \in Nat /\ \A k \in 1..n : rows[k] \in Row
    BY LenProperties, ElementOfSeq DEF Steady
  <1>2. \A k \in 1..n : rows[k].ts \in Nat
    BY <1>1 DEF Row
  <1>3. \A k \in 1..(n - 1) : k \in 1..n /\ k + 1 \in 1..n /\ rows[k + 1].ts = rows[k].ts + 6
    BY <1>1 DEF Steady
  <1>4. ASSUME NEW a \in 1..n, NEW b \in a..n PROVE rows[a].ts <= rows[b].ts
    <2>1. t \in [1..n -> Int]
      BY <1>2
    <2>2. \A k \in 1..(n - 1) : t[k] <= t[k + 1]
      <3> SUFFICES ASSUME NEW k \in 1..(n - 1) PROVE t[k] <= t[k + 1]
        OBVIOUS
      <3>1. t[k] = rows[k].ts /\ t[k + 1] = rows[k + 1].ts /\ rows[k].ts \in Nat
        BY <1>2, <1>3
      <3>2. rows[k + 1].ts = rows[k].ts + 6
        BY <1>3
      <3> HIDE DEF t
      <3> QED BY <3>1, <3>2
    <2>3. t[a] = rows[a].ts /\ t[b] = rows[b].ts
      BY <1>1
    <2> HIDE DEF t, n
    <2>4. t[a] <= t[b]
      BY <1>1, <2>1, <2>2, NeverFalls
    <2> QED BY <2>3, <2>4
  <1>6. ASSUME NEW a \in 1..n, NEW b \in (a + 1)..n PROVE rows[a].ts < rows[b].ts
    <2>1. a \in 1..(n - 1) /\ a + 1 \in 1..n /\ b \in (a + 1)..n
      BY <1>1
    <2>2. rows[a + 1].ts = rows[a].ts + 6 /\ rows[a + 1].ts <= rows[b].ts
      BY <1>3, <1>4, <2>1
    <2>3. rows[a].ts \in Nat /\ rows[b].ts \in Nat /\ rows[a + 1].ts \in Nat
      BY <1>1, <1>2, <2>1
    <2> DEFINE x == rows[a].ts
               y == rows[a + 1].ts
               z == rows[b].ts
    <2>4. x \in Nat /\ y \in Nat /\ z \in Nat /\ y = x + 6 /\ y <= z
      BY <2>2, <2>3
    <2> HIDE DEF x, y, z
    <2>5. x < z
      BY <2>4
    <2> QED BY <2>5 DEF x, z
  <1>5. Period2(rows) = IF n < 2 THEN 0 ELSE 12
    <2>1. CASE n < 2
      BY <2>1 DEF Period2
    <2>2. CASE n >= 2
      <3> DEFINE D == 1..(n - 1)
                 f == [k \in D |-> rows[k + 1].ts - rows[k].ts]
      <3>1. IsFiniteSet(D) /\ D # {}
        <4>1. IsFiniteSet(D)
          BY <1>1, FS_Interval
        <4>2. 1 \in D
          BY <1>1, <2>2
        <4> QED BY <4>1, <4>2
      <3>2. \A k \in D : rows[k + 1].ts - rows[k].ts = 6
        <4> SUFFICES ASSUME NEW k \in D PROVE rows[k + 1].ts - rows[k].ts = 6
          OBVIOUS
        <4>1. rows[k + 1].ts = rows[k].ts + 6 /\ rows[k].ts \in Nat
          BY <1>2, <1>3
        <4> QED BY <4>1
      <3>3. f \in [D -> Int] /\ \A k \in D : f[k] = 6
        <4>1. f = [k \in D |-> 6]
          BY <3>2
        <4> HIDE DEF f, D
        <4> QED BY <4>1
      <3>4. Period2(rows) = Median2(f)
        BY <1>1, <2>2 DEF Period2
      <3> HIDE DEF D, f
      <3>5. Median2(f) \in Int /\ 2 * 6 <= Median2(f) /\ Median2(f) <= 2 * 6
        <4> DEFINE six == 6
        <4>1. six \in Int /\ \A k \in D : six <= f[k] /\ f[k] <= six
          <5>1. \A k \in D : f[k] = six
            BY <3>3
          <5>2. six \in Int /\ six <= six
            OBVIOUS
          <5> HIDE DEF six
          <5> QED BY <5>1, <5>2
        <4> HIDE DEF six
        <4>2. Median2(f) \in Int /\ 2 * six <= Median2(f) /\ Median2(f) <= 2 * six
          BY <3>1, <3>3, <4>1, MedianBetween
        <4> QED BY <4>2 DEF six
      <3> QED BY <2>2, <3>4, <3>5
    <2> QED BY <1>1, <2>1, <2>2
  <1> QED BY <1>1, <1>2, <1>4, <1>5, <1>6

\* Where no two rows are of one instant, the rows between the ends of a run in
\* time are those of the run.
LEMMA BetweenEnds ==
  ASSUME NEW rows, NEW n \in Nat, Len(rows) = n,
         \A k \in 1..n : rows[k].ts \in Nat,
         \A a \in 1..n : \A b \in (a + 1)..n : rows[a].ts < rows[b].ts,
         NEW a \in 1..n, NEW b \in 1..n, IsRun(BothOn(rows), a, b)
  PROVE  <<a, b>> \in Unsatisfied(rows) <=> \A k \in a..b : rows[k].tcc # 1
  <1>1. Len(BothOn(rows)) = n
    BY DEF BothOn
  <1>2. <<a, b>> \in Runs(BothOn(rows)) /\ a <= b
    BY <1>1 DEF Runs, IsRun
  <1>3. ASSUME NEW k \in 1..n
        PROVE  k \in a..b <=> rows[a].ts <= rows[k].ts /\ rows[k].ts <= rows[b].ts
    <2>1. k < a => rows[k].ts < rows[a].ts
      OBVIOUS
    <2>2. b < k => rows[b].ts < rows[k].ts
      OBVIOUS
    <2>3. a < k => rows[a].ts < rows[k].ts
      OBVIOUS
    <2>4. k < b => rows[k].ts < rows[b].ts
      OBVIOUS
    <2> DEFINE x == rows[a].ts
               y == rows[k].ts
               z == rows[b].ts
    <2>5. x \in Nat /\ y \in Nat /\ z \in Nat /\ (k = a => x = y) /\ (k = b => y = z)
      OBVIOUS
    <2>6. (k < a => y < x) /\ (b < k => z < y) /\ (a < k => x < y) /\ (k < b => y < z)
      BY <2>1, <2>2, <2>3, <2>4
    <2> HIDE DEF x, y, z
    <2>7. k \in a..b <=> x <= y /\ y <= z
      BY <2>5, <2>6
    <2> QED BY <2>7 DEF x, y, z
  <1>4. \A k \in a..b : k \in 1..n
    OBVIOUS
  <1> QED BY <1>2, <1>3, <1>4 DEF Unsatisfied

\* What it is to be a run in which the TCC was never seen, and its duration.
LEMMA UnsatisfiedAre ==
  ASSUME NEW rows, Steady(rows)
  PROVE  /\ \A r \in Unsatisfied(rows) : \E a, b \in 1..Len(rows) : r = <<a, b>>
         /\ \A a, b \in 1..Len(rows) :
              /\ <<a, b>> \in Unsatisfied(rows) <=>
                   /\ IsRun(BothOn(rows), a, b)
                   /\ \A k \in a..b : rows[k].tcc # 1
              /\ Duration2(rows, <<a, b>>) = 2 * (rows[b].ts - rows[a].ts) + Period2(rows)
              /\ Duration2(rows, <<a, b>>) \in Int
         /\ IsFiniteSet({Duration2(rows, r) : r \in Unsatisfied(rows)})
         /\ {Duration2(rows, r) : r \in Unsatisfied(rows)} \in SUBSET Int
  <1> DEFINE n == Len(rows)
             P == (1..n) \X (1..n)
             T == Unsatisfied(rows)
  <1>1. /\ n \in Nat /\ \A k \in 1..n : rows[k] \in Row /\ rows[k].ts \in Nat
        /\ Period2(rows) \in Int
    BY SteadyRows
  <1>2. Len(BothOn(rows)) = n
    BY <1>1 DEF BothOn
  <1>3. T \subseteq P
    BY <1>2 DEF Unsatisfied, Runs
  <1>4. \A r \in T : \E a, b \in 1..n : r = <<a, b>>
    BY <1>3
  <1>5. ASSUME NEW a \in 1..n, NEW b \in 1..n
        PROVE  <<a, b>> \in T <=> /\ IsRun(BothOn(rows), a, b)
                                  /\ \A k \in a..b : rows[k].tcc # 1
    <2>1. <<a, b>> \in P
      OBVIOUS
    <2>2. <<a, b>> \in Runs(BothOn(rows)) <=> IsRun(BothOn(rows), a, b)
      BY <1>2, <2>1 DEF Runs
    <2>3. <<a, b>> \in T => IsRun(BothOn(rows), a, b)
      BY <2>2 DEF Unsatisfied
    <2>4. /\ \A k \in 1..n : rows[k].ts \in Nat
          /\ \A c \in 1..n : \A d \in (c + 1)..n : rows[c].ts < rows[d].ts
      BY SteadyRows
    <2>5. IsRun(BothOn(rows), a, b) => (<<a, b>> \in T <=> \A k \in a..b : rows[k].tcc # 1)
      <3> HIDE DEF n
      <3> QED BY <1>1, <2>4, BetweenEnds DEF n
    <2> QED BY <2>3, <2>5
  <1>6. ASSUME NEW a \in 1..n, NEW b \in 1..n
        PROVE  /\ Duration2(rows, <<a, b>>) = 2 * (rows[b].ts - rows[a].ts) + Period2(rows)
               /\ Duration2(rows, <<a, b>>) \in Int
    <2>1. Duration2(rows, <<a, b>>) = 2 * (rows[b].ts - rows[a].ts) + Period2(rows)
      BY DEF Duration2
    <2> DEFINE u == rows[a].ts
               v == rows[b].ts
    <2>2. u \in Nat /\ v \in Nat
      BY <1>1
    <2> HIDE DEF u, v
    <2>3. 2 * (v - u) + Period2(rows) \in Int
      BY <1>1, <2>2
    <2> QED BY <2>1, <2>3 DEF u, v
  <1>7. IsFiniteSet({Duration2(rows, r) : r \in T})
    <2> DEFINE f == [r \in T |-> Duration2(rows, r)]
    <2>1. IsFiniteSet(T)
      <3>1. IsFiniteSet(1..n)
        BY <1>1, FS_Interval
      <3>2. IsFiniteSet(P)
        BY <3>1, FS_Product
      <3> QED BY <1>3, <3>2, FS_Subset
    <2>2. {Duration2(rows, r) : r \in T} = {f[r] : r \in T}
      OBVIOUS
    <2> HIDE DEF f, T
    <2> QED BY <2>1, <2>2, FiniteImage
  <1>8. {Duration2(rows, r) : r \in T} \in SUBSET Int
    BY <1>4, <1>6
  <1> QED BY <1>4, <1>5, <1>6, <1>7, <1>8

\* One more row, and no trip in the run going on: every unsatisfied run is
\* still one, or goes on.
LEMMA UnsatisfiedStays ==
  ASSUME NEW rows, Steady(rows), NEW more, Steady(more), Len(more) = Len(rows) + 1,
         \A k \in 1..Len(rows) : more[k] = rows[k],
         LET row == more[Len(more)] IN ~(row.cmd = 1 /\ row.beater = 1 /\ row.tcc = 1),
         NEW a \in 1..Len(rows), NEW b \in 1..Len(rows), <<a, b>> \in Unsatisfied(rows)
  PROVE  \E c \in b..Len(more) : <<a, c>> \in Unsatisfied(more)
  <1> DEFINE n == Len(rows)
             old == BothOn(rows)
             new == BothOn(more)
  <1>1. n \in Nat /\ Len(more) = n + 1
    BY SteadyRows
  <1>2. IsRun(old, a, b) /\ \A k \in a..b : rows[k].tcc # 1
    BY UnsatisfiedAre
  <1>3. /\ Len(old) = n /\ Len(new) = n + 1
        /\ \A k \in 1..n : new[k] = old[k]
        /\ new[n + 1] = (more[n + 1].cmd = 1 /\ more[n + 1].beater = 1)
    BY <1>1 DEF BothOn
  <1>4. a <= b /\ (\A k \in a..b : old[k]) /\ (a > 1 => ~old[a - 1]) /\ (b < n => ~old[b + 1])
    BY <1>2, <1>3 DEF IsRun
  <1> HIDE DEF old, new
  <1>5. (\A k \in a..b : new[k]) /\ (a > 1 => ~new[a - 1]) /\ (b < n => ~new[b + 1])
    BY <1>1, <1>3, <1>4, SMTT(60)
  <1>6. \A k \in a..b : more[k].tcc # 1
    BY <1>1, <1>2
  <1>7. \A c \in 1..(n + 1) : <<a, c>> \in Unsatisfied(more) <=>
                                /\ IsRun(new, a, c)
                                /\ \A k \in a..c : more[k].tcc # 1
    <2> SUFFICES ASSUME NEW c \in 1..(n + 1)
                 PROVE  <<a, c>> \in Unsatisfied(more) <=>
                          /\ IsRun(BothOn(more), a, c)
                          /\ \A k \in a..c : more[k].tcc # 1
      BY DEF new
    <2>1. a \in 1..Len(more) /\ c \in 1..Len(more)
      BY <1>1
    <2> QED BY <2>1, UnsatisfiedAre
  <1>8. CASE b = n /\ new[n + 1]
    <2>1. IsRun(new, a, n + 1)
      BY <1>1, <1>3, <1>4, <1>5, <1>8 DEF IsRun
    <2>2. \A k \in a..(n + 1) : more[k].tcc # 1
      <3>1. more[n + 1].tcc # 1
        BY <1>1, <1>3, <1>8
      <3> QED BY <1>1, <1>4, <1>6, <1>8, <3>1
    <2>3. n + 1 \in b..Len(more) /\ n + 1 \in 1..(n + 1)
      BY <1>1, <1>8
    <2> QED BY <1>7, <2>1, <2>2, <2>3
  <1>9. CASE ~(b = n /\ new[n + 1])
    <2>1. IsRun(new, a, b)
      BY <1>1, <1>3, <1>4, <1>5, <1>9, SMTT(60) DEF IsRun
    <2>2. b \in b..Len(more) /\ b \in 1..(n + 1)
      BY <1>1
    <2> QED BY <1>6, <1>7, <2>1, <2>2
  <1> QED BY <1>8, <1>9

\* So the longest of them does not get shorter.
LEMMA LongestGrows ==
  ASSUME NEW rows, Steady(rows), NEW more, Steady(more), Len(more) = Len(rows) + 1,
         \A k \in 1..Len(rows) : more[k] = rows[k],
         LET row == more[Len(more)] IN ~(row.cmd = 1 /\ row.beater = 1 /\ row.tcc = 1)
  PROVE  /\ LongestUnsatisfied2(rows) \in Int /\ LongestUnsatisfied2(more) \in Int
         /\ LongestUnsatisfied2(rows) <= LongestUnsatisfied2(more)
  <1> DEFINE S == {Duration2(rows, r) : r \in Unsatisfied(rows)}
             T == {Duration2(more, r) : r \in Unsatisfied(more)}
             s == Max({0} \union S)
             t == Max({0} \union T)
  <1>1. IsFiniteSet(S) /\ S \in SUBSET Int /\ IsFiniteSet(T) /\ T \in SUBSET Int
    BY UnsatisfiedAre
  <1>2. /\ s \in Int /\ (s # 0 => s \in S)
        /\ t \in Int /\ 0 <= t /\ \A y \in T : y <= t
    <2> HIDE DEF S, T
    <2> QED BY <1>1, MaxOrZero
  <1>3. ASSUME NEW a \in 1..Len(rows), NEW b \in 1..Len(rows), <<a, b>> \in Unsatisfied(rows)
        PROVE  Duration2(rows, <<a, b>>) <= t
    <2>1. Len(rows) \in Nat /\ a \in 1..Len(more) /\ b \in 1..Len(more)
      BY SteadyRows
    <2>2. PICK c \in b..Len(more) : <<a, c>> \in Unsatisfied(more)
      BY <1>3, UnsatisfiedStays
    <2>3. c \in 1..Len(more)
      BY <2>1
    <2>4. Duration2(more, <<a, c>>) \in T
      BY <2>2
    <2>5. /\ Duration2(rows, <<a, b>>) = 2 * (rows[b].ts - rows[a].ts) + Period2(rows)
          /\ Duration2(more, <<a, c>>) = 2 * (more[c].ts - more[a].ts) + Period2(more)
      BY <2>1, <2>3, UnsatisfiedAre
    <2>6. Period2(rows) \in Nat /\ Period2(more) \in Nat /\ Period2(rows) <= Period2(more)
      BY <2>1, SteadyRows
    <2>7. /\ more[a].ts = rows[a].ts /\ more[b].ts = rows[b].ts /\ more[b].ts <= more[c].ts
          /\ more[a].ts \in Nat /\ more[b].ts \in Nat /\ more[c].ts \in Nat
      BY <2>1, <2>3, SteadyRows
    <2> DEFINE u == more[a].ts
               v == more[b].ts
               w == more[c].ts
               p == Period2(rows)
               q == Period2(more)
    <2>8. /\ Duration2(rows, <<a, b>>) = 2 * (v - u) + p
          /\ Duration2(more, <<a, c>>) = 2 * (w - u) + q
      BY <2>5, <2>7
    <2>9. /\ u \in Nat /\ v \in Nat /\ w \in Nat /\ v <= w
          /\ p \in Nat /\ q \in Nat /\ p <= q
      BY <2>6, <2>7
    <2> HIDE DEF S, T, t, u, v, w, p, q
    <2>10. 2 * (w - u) + q <= t
      BY <1>2, <2>4, <2>8
    <2>11. 2 * (v - u) + p <= t
      BY <1>2, <2>9, <2>10
    <2> QED BY <2>8, <2>11
  <1>4. \A y \in S : y <= t
    <2> SUFFICES ASSUME NEW r \in Unsatisfied(rows) PROVE Duration2(rows, r) <= t
      OBVIOUS
    <2>1. PICK a \in 1..Len(rows), b \in 1..Len(rows) : r = <<a, b>>
      BY UnsatisfiedAre
    <2> QED BY <1>3, <2>1
  <1>5. s <= t
    <2> HIDE DEF S, T, s, t
    <2> QED BY <1>2, <1>4
  <1> QED BY <1>2, <1>5 DEF LongestUnsatisfied2

\* A step of a freezing recording adds one row to steady ones.
LEMMA FreezingStep ==
  ASSUME IInv, IInv', [Next]_vars, source = "freezing", dep' # dep
  PROVE  /\ Steady(Rows) /\ Steady(Rows') /\ Len(Rows') = Len(Rows) + 1
         /\ \A k \in 1..Len(Rows) : Rows'[k] = Rows[k]
  <1>1. source \in Logged /\ source # "bursts" /\ source \notin Sources \union {"demo"}
    BY DEF IInv, SourceOK, Sources, HourSources, WeekSources
  <1>2. LogRow
    BY <1>1 DEF Next, LogBurst, Tile, Schedule, MakeSegment, FindRuns, vars, Sources, HourSources,
                WeekSources
  <1>3. source' = source
    BY <1>2 DEF LogRow
  <1>4. ASSUME NEW rows \in Seq(Row),
               \A k \in 1..Len(rows) :
                 IF k = 1 THEN rows[k].ts = 0 ELSE rows[k].ts - rows[k - 1].ts \in Gaps("freezing")
        PROVE  Steady(rows)
    <2> SUFFICES ASSUME NEW k \in 1..(Len(rows) - 1) PROVE rows[k + 1].ts = rows[k].ts + 6
      BY DEF Steady
    <2>1. k \in 1..Len(rows) /\ k + 1 \in 1..Len(rows) /\ (k + 1) - 1 = k /\ k + 1 # 1
      BY LenProperties
    <2>2. rows[k + 1].ts - rows[k].ts = 6
      BY <1>4, <2>1 DEF Gaps
    <2>3. rows[k] \in Row /\ rows[k + 1] \in Row
      BY <2>1, ElementOfSeq
    <2>4. rows[k].ts \in Nat /\ rows[k + 1].ts \in Nat
      BY <2>3 DEF Row
    <2> DEFINE u == rows[k].ts
               v == rows[k + 1].ts
    <2>5. u \in Nat /\ v \in Nat /\ v - u = 6
      BY <2>2, <2>4
    <2> HIDE DEF u, v
    <2>6. v = u + 6
      BY <2>5
    <2> QED BY <2>6 DEF u, v
  <1>5. Steady(Rows)
    <2>1. Rows \in Seq(Row)
      BY <1>1 DEF IInv, Logs, Rows
    <2>2. \A k \in 1..Len(Rows) :
            IF k = 1 THEN Rows[k].ts = 0 ELSE Rows[k].ts - Rows[k - 1].ts \in Gaps("freezing")
      BY <1>1 DEF IInv, Logs
    <2> QED BY <1>4, <2>1, <2>2
  <1>6. Steady(Rows')
    <2>1. Rows' \in Seq(Row)
      BY <1>1, <1>3 DEF IInv, Logs, Rows
    <2>2. \A k \in 1..Len(Rows') :
            IF k = 1 THEN Rows'[k].ts = 0 ELSE Rows'[k].ts - Rows'[k - 1].ts \in Gaps("freezing")
      BY <1>1, <1>3 DEF IInv, Logs
    <2> HIDE DEF Rows
    <2> QED BY <1>4, <2>1, <2>2
  <1>7. PICK row \in NewRows(source), gap \in Gaps(source) :
          dep' = [dep EXCEPT !.channels = Later(@, row, gap)]
    BY <1>2 DEF LogRow
  <1>8. dep \in [channels : Seq(Row), vib : {<<>>}, bursts : Seq(NewBursts)] /\ Rows \in Seq(Row)
    BY <1>1 DEF IInv, Logs, Rows
  <1>9. Rows' = Later(Rows, row, gap)
    BY <1>7, <1>8 DEF Rows
  <1>10. /\ Len(Rows') = Len(Rows) + 1
         /\ \A k \in 1..Len(Rows) : Rows'[k] = Rows[k]
    <2>1. source \in Recordings \ {"bursts"}
      BY <1>1, LoggedAssumption
    <2> QED BY <1>8, <1>9, <2>1, LaterRows, SMTT(60)
  <1> QED BY <1>5, <1>6, <1>10

\* As a steadily sampled recording goes on, only a TCC trip in the run going
\* on withdraws the verdict that the machine does not freeze.
THEOREM OnlyTripWithdraws == Spec => WithdrawnOnlyByTrip
  <1>1. IInv /\ IInv' /\ [Next]_vars =>
          [source = "freezing" /\ DetectTccNeverSatisfied(dep) # "none"
             /\ DetectTccNeverSatisfied(dep)' = "none"
           => LET row == Last(Rows') IN row.cmd = 1 /\ row.beater = 1 /\ row.tcc = 1]_dep
    <2> DEFINE row == Last(Rows')
    <2> SUFFICES ASSUME IInv, IInv', [Next]_vars, source = "freezing", dep' # dep,
                        DetectTccNeverSatisfied(dep) # "none",
                        ~(row.cmd = 1 /\ row.beater = 1 /\ row.tcc = 1)
                 PROVE  DetectTccNeverSatisfied(dep)' # "none"
      OBVIOUS
    <2> DEFINE old == LongestUnsatisfied2(Rows)
               new == LongestUnsatisfied2(Rows')
    <2>1. row = Rows'[Len(Rows')]
      BY DEF Last
    <2>2. /\ Steady(Rows) /\ Steady(Rows') /\ Len(Rows') = Len(Rows) + 1
          /\ \A k \in 1..Len(Rows) : Rows'[k] = Rows[k]
      BY FreezingStep
    <2>3. old \in Int /\ new \in Int /\ old <= new
      <3> DEFINE more == Rows'
      <3>1. ~(more[Len(more)].cmd = 1 /\ more[Len(more)].beater = 1 /\ more[Len(more)].tcc = 1)
        BY <2>1
      <3>2. /\ Steady(Rows) /\ Steady(more) /\ Len(more) = Len(Rows) + 1
            /\ \A k \in 1..Len(Rows) : more[k] = Rows[k]
        BY <2>2
      <3> HIDE DEF more, Rows
      <3>3. /\ LongestUnsatisfied2(Rows) \in Int /\ LongestUnsatisfied2(more) \in Int
            /\ LongestUnsatisfied2(Rows) <= LongestUnsatisfied2(more)
        BY <3>1, <3>2, LongestGrows
      <3> QED BY <3>3 DEF more
    <2>4. /\ DetectTccNeverSatisfied(dep) = Result(old >= 2 * TccMinRun, old >= 4 * TccMinRun)
          /\ DetectTccNeverSatisfied(dep)' = Result(new >= 2 * TccMinRun, new >= 4 * TccMinRun)
      BY DEF DetectTccNeverSatisfied, LongestUnsatisfied2, Rows
    <2> HIDE DEF old, new, row
    <2>5. 2 * TccMinRun \in Int
      BY TccAssumption
    <2>6. old >= 2 * TccMinRun
      BY <2>4 DEF Result
    <2>7. new >= 2 * TccMinRun
      BY <2>3, <2>5, <2>6
    <2> QED BY <2>4, <2>7 DEF Result
  <1>2. Spec => [][Next]_vars
    BY DEF Spec
  <1> QED BY <1>1, <1>2, Inductive, PTL DEF WithdrawnOnlyByTrip

-----------------------------------------------------------------------------
(* A synthetic segment is tiled, whole, and kept as it was made.           *)

Windows == [run : Nat, rest : Nat, next : Nat]

\* The windows follow each other from the first row on; a run has a row at
\* least and the length drawn for it unless the segment cuts it, a hold has
\* at most the length drawn.
Tiling ==
  source \in Sources =>
    /\ windows \in Seq(Windows)
    /\ \A k \in 1..Len(windows) :
         /\ windows[k].run = IF k = 1 THEN 0 ELSE windows[k - 1].next
         /\ windows[k].run < windows[k].rest /\ windows[k].rest <= windows[k].next
         /\ windows[k].next <= Total
         /\ windows[k].rest < Total =>
              \E run \in RunRange : windows[k].rest = windows[k].run + Max({1, run})
         /\ \E hold \in HoldRange : windows[k].next <= windows[k].rest + hold
    /\ draw \in Draws[source]

\* A recording is read only when it is whole.
Whole == source \in Sources /\ dep # NoData => Tiled = Total

LEMMA TotalPositive ==
  ASSUME source \in Sources
  PROVE  Total \in Nat \ {0}
  <1>1. CASE source \in WeekSources
    <2>1. Total = NDays * (Day \div 10)
      BY <1>1 DEF Total
    <2>2. NDays \in Nat \ {0} /\ Day \in Nat \ {0} /\ Day % 10 = 0
      BY SegmentAssumption, DayAssumption
    <2>3. Day \div 10 \in Nat \ {0}
      BY <2>2
    <2> DEFINE q == Day \div 10
    <2> HIDE DEF q
    <2>4. q \in Nat \ {0} /\ Total = NDays * q
      BY <2>1, <2>3 DEF q
    <2> QED BY <2>2, <2>4
  <1>2. CASE source \notin WeekSources
    <2>1. source \in HourSources
      BY <1>2 DEF Sources
    <2>2. Total = NRows[source]
      BY <1>2 DEF Total
    <2> QED BY <2>1, <2>2, SegmentAssumption
  <1> QED BY <1>1, <1>2

LEMMA RangesAre ==
  /\ RunRange \subseteq Nat /\ RunRange # {}
  /\ HoldRange \subseteq Nat /\ HoldRange # {}
  BY RangeAssumption DEF RunRange, HoldRange

\* What a window is, for a row to start at and lengths to draw.
LEMMA WindowIs ==
  ASSUME NEW T \in Nat \ {0}, Total = T, NEW t \in Nat, t < T, NEW run \in Nat, NEW hold \in Nat
  PROVE  LET w == Window(t, run, hold)
         IN /\ w \in Windows /\ w.run = t /\ t < w.rest /\ w.rest <= w.next /\ w.next <= T
            /\ w.rest < T => w.rest = t + Max({1, run})
            /\ w.next <= w.rest + hold
  <1> DEFINE long == Max({1, run})
             rest == Min({t + long, T})
             next == Min({rest + hold, T})
  <1>1. long \in Nat /\ long >= 1
    <2> DEFINE one == 1
    <2>1. one \in Int /\ one = 1
      OBVIOUS
    <2> HIDE DEF one
    <2>2. Max({one, run}) = IF one <= run THEN run ELSE one
      BY <2>1, OfTwo
    <2> QED BY <2>1, <2>2
  <1> HIDE DEF long
  <1>2. rest = IF t + long <= T THEN t + long ELSE T
    BY <1>1, OfTwo
  <1>3. rest \in Nat /\ t < rest /\ rest <= T /\ (rest < T => rest = t + long)
    BY <1>1, <1>2
  <1> HIDE DEF rest
  <1>4. next = IF rest + hold <= T THEN rest + hold ELSE T
    BY <1>3, OfTwo
  <1>5. next \in Nat /\ rest <= next /\ next <= T /\ next <= rest + hold
    BY <1>3, <1>4
  <1>6. Window(t, run, hold) = [run |-> t, rest |-> rest, next |-> next]
    BY DEF Window, rest, next, long
  <1> HIDE DEF next
  <1> QED BY <1>3, <1>5, <1>6 DEF Windows, long

LEMMA TiledIs ==
  ASSUME source \in Sources, Tiling
  PROVE  /\ Tiled = IF Len(windows) = 0 THEN 0 ELSE windows[Len(windows)].next
         /\ Tiled \in Nat /\ Tiled <= Total /\ Len(windows) \in Nat
  <1>1. windows \in Seq(Windows) /\ Len(windows) \in Nat /\ (windows = <<>> <=> Len(windows) = 0)
    BY LenProperties, EmptySeq DEF Tiling
  <1>2. CASE Len(windows) = 0
    BY <1>1, <1>2, TotalPositive DEF Tiled
  <1>3. CASE Len(windows) # 0
    <2>1. Len(windows) \in 1..Len(windows)
      BY <1>1, <1>3
    <2>2. windows[Len(windows)] \in Windows
      BY <1>1, <2>1, ElementOfSeq
    <2>3. windows[Len(windows)].next \in Nat
      BY <2>2 DEF Windows
    <2>4. windows[Len(windows)].next <= Total
      BY <2>1 DEF Tiling
    <2> QED BY <1>1, <1>3, <2>3, <2>4 DEF Tiled, Last
  <1> QED BY <1>2, <1>3

LEMMA TileTiles ==
  ASSUME Tiling, Tile
  PROVE  Tiling'
  <1>1. source \in Sources /\ UNCHANGED <<source, draw, dep>> /\ Tiled < Total
    BY DEF Tile, CycleWindow
  <1>2. PICK run \in RunRange, hold \in HoldRange :
           windows' = Append(windows, Window(Tiled, run, hold))
    BY DEF Tile, CycleWindow
  <1> DEFINE n == Len(windows)
             w == Window(Tiled, run, hold)
             T == Total
  <1>3. T \in Nat \ {0} /\ T' = T
    BY <1>1, TotalPositive DEF Total
  <1>4. /\ RunRange' = RunRange /\ HoldRange' = HoldRange
        /\ run \in Nat /\ hold \in Nat
    BY <1>1, RangesAre DEF RunRange, HoldRange
  <1>5. Tiled \in Nat /\ Tiled <= T /\ n \in Nat /\ windows \in Seq(Windows)
        /\ Tiled = IF n = 0 THEN 0 ELSE windows[n].next
    BY <1>1, TiledIs DEF Tiling
  <1>6. /\ w \in Windows /\ w.run = Tiled /\ w.run < w.rest /\ w.rest <= w.next /\ w.next <= T
        /\ w.rest < T => w.rest = w.run + Max({1, run})
        /\ w.next <= w.rest + hold
    <2> DEFINE t == Tiled
    <2>1. t \in Nat /\ t < T /\ Total = T
      BY <1>1, <1>5
    <2> HIDE DEF t, T
    <2>2. LET v == Window(t, run, hold)
          IN /\ v \in Windows /\ v.run = t /\ t < v.rest /\ v.rest <= v.next /\ v.next <= T
             /\ v.rest < T => v.rest = t + Max({1, run})
             /\ v.next <= v.rest + hold
      BY <1>3, <1>4, <2>1, WindowIs
    <2> QED BY <2>2 DEF t
  <1> HIDE DEF w
  <1>7. /\ windows' \in Seq(Windows) /\ Len(windows') = n + 1 /\ windows'[n + 1] = w
        /\ \A k \in 1..n : windows'[k] = windows[k]
    BY <1>2, <1>5, <1>6, AppendProperties DEF w
  <1>8. ASSUME NEW k \in 1..Len(windows')
        PROVE  /\ windows'[k].run = IF k = 1 THEN 0 ELSE windows'[k - 1].next
               /\ windows'[k].run < windows'[k].rest /\ windows'[k].rest <= windows'[k].next
               /\ windows'[k].next <= T
               /\ windows'[k].rest < T =>
                    \E r \in RunRange : windows'[k].rest = windows'[k].run + Max({1, r})
               /\ \E h \in HoldRange : windows'[k].next <= windows'[k].rest + h
    <2>1. CASE k \in 1..n
      <3>1. windows'[k] = windows[k] /\ (k # 1 => k - 1 \in 1..n)
        BY <1>5, <1>7, <2>1
      <3>2. k # 1 => windows'[k - 1] = windows[k - 1]
        BY <1>7, <3>1
      <3> HIDE DEF T
      <3> QED BY <1>1, <2>1, <3>1, <3>2, ZenonT(60) DEF Tiling, T
    <2>2. CASE k = n + 1
      <3>1. n # 0 => n \in 1..n /\ windows'[n] = windows[n] /\ k - 1 = n
        BY <1>5, <1>7, <2>2
      <3>2. windows'[k] = w
        BY <1>7, <2>2
      <3>3. w.run = IF k = 1 THEN 0 ELSE windows'[k - 1].next
        <4>1. CASE n = 0
          BY <1>5, <1>6, <2>2, <4>1
        <4>2. CASE n # 0
          BY <1>5, <1>6, <2>2, <3>1, <4>2
        <4> QED BY <4>1, <4>2
      <3> QED BY <1>6, <3>2, <3>3
    <2>3. k \in 1..n \/ k = n + 1
      BY <1>5, <1>7
    <2> QED BY <2>1, <2>2, <2>3
  <1> QED BY <1>1, <1>3, <1>4, <1>7, <1>8 DEF Tiling

LEMMA SyntheticTiled ==
  ASSUME source \in Sources, SyntheticInit
  PROVE  Tiling
  <1>1. CASE source = "tcc_never_satisfied"
    <2> DEFINE T == Total
               z == 0
               one == 1
               w == Window(z, T, z)
    <2>1. T \in Nat \ {0} /\ Total = T /\ z \in Nat /\ z = 0 /\ one \in Nat /\ one = 1
      BY TotalPositive
    <2>2. windows = <<w>>
      BY <1>1 DEF SyntheticInit
    <2> HIDE DEF z, T
    <2>3. /\ w \in Windows /\ w.run = z /\ z < w.rest /\ w.rest <= w.next /\ w.next <= T
          /\ w.rest < T => w.rest = z + Max({1, T})
      <3>1. z < T /\ T \in Nat
        BY <2>1
      <3>2. LET v == Window(z, T, z)
            IN /\ v \in Windows /\ v.run = z /\ z < v.rest /\ v.rest <= v.next /\ v.next <= T
               /\ v.rest < T => v.rest = z + Max({1, T})
               /\ v.next <= v.rest + z
        BY <2>1, <3>1, WindowIs
      <3> QED BY <3>2
    <2>4. Max({1, T}) = T
      <3> HIDE DEF one
      <3>1. Max({one, T}) = IF one <= T THEN T ELSE one
        BY <2>1, OfTwo
      <3> QED BY <2>1, <3>1
    <2> HIDE DEF w
    <2>5. w.rest \in Nat /\ w.next \in Nat
      BY <2>3 DEF Windows
    <2>6. w.rest = T /\ w.next = T
      BY <2>1, <2>3, <2>4, <2>5
    <2>7. windows \in Seq(Windows) /\ Len(windows) = 1 /\ windows[1] = w
      BY <2>2, <2>3
    <2>8. \E hold \in HoldRange : w.next <= w.rest + hold
      <3>1. PICK hold \in HoldRange : hold \in Nat
        BY RangesAre
      <3> QED BY <2>1, <2>6, <3>1
    <2>9. \A k \in 1..Len(windows) : k = 1
      BY <2>7
    <2> QED BY <2>1, <2>3, <2>6, <2>7, <2>8, <2>9 DEF Tiling, SyntheticInit, T
  <1>2. CASE source # "tcc_never_satisfied"
    <2>1. windows = <<>> /\ draw \in Draws[source]
      BY <1>2 DEF SyntheticInit
    <2>2. windows \in Seq(Windows) /\ 1..Len(windows) = {}
      BY <2>1, EmptySeq
    <2> QED BY <2>1, <2>2 DEF Tiling
  <1> QED BY <1>1, <1>2

SegmentInv == Tiling /\ Whole

LEMMA SegmentStep ==
  ASSUME IInv, SegmentInv, [Next]_vars
  PROVE  SegmentInv'
  <1>1. CASE Tile
    <2>1. dep' = NoData
      BY <1>1 DEF Tile
    <2> QED BY <1>1, <2>1, TileTiles DEF SegmentInv, Whole, NoData
  <1>2. CASE LogRow \/ LogBurst
    <2>1. source' = source /\ source \in Logged
      BY <1>2 DEF LogRow, LogBurst, IInv, SourceOK, Sources, HourSources, WeekSources
    <2>2. source \notin Sources
      BY <2>1, Apart
    <2> QED BY <2>1, <2>2 DEF SegmentInv, Tiling, Whole
  <1>3. CASE MakeSegment \/ FindRuns \/ Schedule \/ UNCHANGED vars
    <2>1. UNCHANGED <<source, draw, windows>>
      BY <1>3 DEF MakeSegment, FindRuns, Schedule, vars
    <2>2. Tiling'
      BY <2>1 DEF SegmentInv, Tiling, Total, RunRange, HoldRange
    <2>3. Tiled' = Tiled /\ Total' = Total
      BY <2>1 DEF Tiled, Total
    <2>4. dep' # NoData /\ source \in Sources => dep # NoData \/ Tiled = Total
      BY <1>3 DEF MakeSegment, FindRuns, Schedule, vars, Sources, HourSources, WeekSources
    <2>5. NoData' = NoData
      BY DEF NoData, Segment
    <2> QED BY <2>1, <2>2, <2>3, <2>4, <2>5 DEF SegmentInv, Whole
  <1> QED BY <1>1, <1>2, <1>3 DEF Next

LEMMA SegmentInit == Init => SegmentInv
  BY SyntheticTiled DEF Init, SegmentInv, Whole, Tiling

-----------------------------------------------------------------------------
(* The readings of a segment with normal cycling.                          *)

\* The windows one after the other: none begins before those before it end.
LEMMA InTurn ==
  ASSUME source \in Sources, Tiling,
         NEW c \in 1..Len(windows), NEW d \in 1..Len(windows), c < d
  PROVE  windows[c].next <= windows[d].run
  <1> DEFINE n == Len(windows)
             t == [k \in 1..n |-> windows[k].run]
  <1>1. n \in Nat /\ windows \in Seq(Windows)
    BY LenProperties DEF Tiling
  <1>2. \A k \in 1..n : windows[k].run \in Nat /\ windows[k].rest \in Nat /\ windows[k].next \in Nat
    <2> SUFFICES ASSUME NEW k \in 1..n
                 PROVE  windows[k].run \in Nat /\ windows[k].rest \in Nat /\ windows[k].next \in Nat
      OBVIOUS
    <2>1. windows[k] \in Windows
      BY <1>1, ElementOfSeq
    <2> QED BY <2>1 DEF Windows
  <1>3. \A k \in 1..(n - 1) : windows[k + 1].run = windows[k].next
    <2> SUFFICES ASSUME NEW k \in 1..(n - 1) PROVE windows[k + 1].run = windows[k].next
      OBVIOUS
    <2>1. k + 1 \in 1..n /\ k + 1 # 1 /\ (k + 1) - 1 = k
      BY <1>1
    <2> QED BY <2>1 DEF Tiling
  <1>4. t \in [1..n -> Int]
    BY <1>2
  <1>5. \A k \in 1..(n - 1) : t[k] <= t[k + 1]
    <2> SUFFICES ASSUME NEW k \in 1..(n - 1) PROVE t[k] <= t[k + 1]
      OBVIOUS
    <2>1. k \in 1..n /\ k + 1 \in 1..n
      BY <1>1
    <2>2. windows[k].run < windows[k].rest /\ windows[k].rest <= windows[k].next
      BY <2>1 DEF Tiling
    <2>3. windows[k + 1].run = windows[k].next
      BY <1>3
    <2>4. windows[k].run <= windows[k + 1].run
      BY <1>2, <2>1, <2>2, <2>3
    <2> QED BY <2>1, <2>4
  <1>6. c + 1 \in 1..n /\ d \in (c + 1)..n /\ c \in 1..(n - 1)
    BY <1>1
  <1>7. t[c + 1] <= t[d]
    <2> DEFINE e == c + 1
    <2>1. e \in 1..n /\ d \in e..n
      BY <1>6
    <2> HIDE DEF t, e
    <2>2. t[e] <= t[d]
      BY <1>1, <1>4, <1>5, <2>1, NeverFalls
    <2> QED BY <2>2 DEF e
  <1>8. t[c + 1] = windows[c].next /\ t[d] = windows[d].run
    BY <1>3, <1>6
  <1> QED BY <1>7, <1>8

\* A row inside a run.
InRun(t) == \E c \in 1..Len(windows) : windows[c].run <= t /\ t < windows[c].rest

\* Of a whole segment every row is in one window.
LEMMA CycleIs ==
  ASSUME source \in Sources, Tiling, Tiled = Total, NEW t \in Nat, t < Total
  PROVE  /\ Cycle(t) \in 1..Len(windows)
         /\ windows[Cycle(t)].run <= t /\ t < windows[Cycle(t)].next
         /\ Running(t) <=> InRun(t)
  <1> DEFINE n == Len(windows)
             T == {k \in 1..n : t < windows[k].next}
  <1>1. /\ n \in Nat /\ windows \in Seq(Windows)
        /\ Tiled = IF n = 0 THEN 0 ELSE windows[n].next
        /\ Total \in Nat \ {0}
    BY TiledIs, TotalPositive DEF Tiling
  <1>2. \A k \in 1..n : /\ windows[k].run \in Nat /\ windows[k].rest \in Nat /\ windows[k].next \in Nat
                        /\ windows[k].rest <= windows[k].next
    <2> SUFFICES ASSUME NEW k \in 1..n
                 PROVE  /\ windows[k].run \in Nat /\ windows[k].rest \in Nat /\ windows[k].next \in Nat
                        /\ windows[k].rest <= windows[k].next
      OBVIOUS
    <2>1. windows[k] \in Windows
      BY <1>1, ElementOfSeq
    <2> QED BY <2>1 DEF Windows, Tiling
  <1>3. n \in T /\ T \subseteq Nat
    BY <1>1
  <1>4. PICK k \in T : \A l \in T : k <= l
    <2> HIDE DEF T
    <2> QED BY <1>3, LeastNatural
  <1>5. k \in 1..n /\ windows[k].run <= t /\ t < windows[k].next
    <2>1. CASE k = 1
      <3>1. windows[k].run = 0
        BY <1>4, <2>1 DEF Tiling
      <3> QED BY <1>4, <3>1
    <2>2. CASE k # 1
      <3>1. k - 1 \in 1..n /\ k - 1 \notin T /\ k - 1 < k
        BY <1>1, <1>4, <2>2
      <3>2. ~(t < windows[k - 1].next)
        BY <3>1
      <3>3. windows[k].run = windows[k - 1].next
        BY <1>4, <2>2 DEF Tiling
      <3> QED BY <1>2, <1>4, <3>1, <3>2, <3>3
    <2> QED BY <2>1, <2>2
  <1> HIDE DEF T
  <1>6. \A l \in 1..n : windows[l].run <= t /\ t < windows[l].next => l = k
    <2> SUFFICES ASSUME NEW l \in 1..n, windows[l].run <= t, t < windows[l].next, l # k
                 PROVE  FALSE
      OBVIOUS
    <2>1. CASE l < k
      <3>1. windows[l].next <= windows[k].run
        BY <1>5, <2>1, InTurn
      <3> QED BY <1>2, <1>5, <3>1
    <2>2. CASE k < l
      <3>1. windows[k].next <= windows[l].run
        BY <1>5, <2>2, InTurn
      <3> QED BY <1>2, <1>5, <3>1
    <2> QED BY <1>1, <1>5, <2>1, <2>2
  <1>7. Cycle(t) = k
    BY <1>5, <1>6 DEF Cycle
  <1>8. InRun(t) => t < windows[k].rest
    <2> SUFFICES ASSUME NEW c \in 1..n, windows[c].run <= t, t < windows[c].rest
                 PROVE  t < windows[k].rest
      BY DEF InRun
    <2>1. c = k
      BY <1>2, <1>6
    <2> QED BY <2>1
  <1>9. t < windows[k].rest => InRun(t)
    BY <1>5 DEF InRun
  <1> QED BY <1>5, <1>7, <1>8, <1>9 DEF Running

\* What is drawn lies in its range.
LEMMA UniformIn ==
  ASSUME NEW lo \in Int, NEW hi \in Int, lo <= hi, NEW p, Percents(p), NEW n \in Nat
  PROVE  /\ Uniform(lo, hi, p, n) \in Int
         /\ lo <= Uniform(lo, hi, p, n) /\ Uniform(lo, hi, p, n) <= hi
  <1> DEFINE x == p[1 + (n % Len(p))]
             w == hi - lo
             q == (w * x) \div 100
  <1>1. x \in 0..100
    <2>1. p \in Seq(0..100) /\ Len(p) \in Nat \ {0}
      BY EmptySeq, LenProperties DEF Percents
    <2> DEFINE l == Len(p)
               m == n % l
    <2>2. m \in 0..(l - 1)
      <3>1. l \in Nat \ {0}
        BY <2>1
      <3> HIDE DEF l
      <3> QED BY <3>1
    <2> HIDE DEF m
    <2>3. 1 + m \in 1..Len(p)
      BY <2>1, <2>2
    <2>4. p[1 + m] \in 0..100
      BY <2>1, <2>3, ElementOfSeq
    <2> QED BY <2>4 DEF m
  <1> HIDE DEF x
  <1>2. w \in Nat /\ lo + w = hi
    OBVIOUS
  <1> HIDE DEF w
  <1>3. q \in Int /\ 0 <= q /\ q <= w
    <2> DEFINE y == w * x
    <2>1. y \in Nat /\ 100 * 0 <= y /\ y < 100 * (w + 1)
      <3> DEFINE c == 100
      <3>1. c \in Int /\ x \in Int /\ x <= c /\ 0 <= x
        BY <1>1
      <3> HIDE DEF c
      <3>2. w * x <= w * c
        BY <1>2, <3>1, ProductGrows
      <3>3. w * x \in Nat
        BY <1>2, <3>1
      <3> QED BY <1>2, <3>2, <3>3 DEF c
    <2> HIDE DEF y
    <2>2. y \div 100 \in Int /\ 0 <= y \div 100
      BY <2>1, Quotient, QuotientAbove
    <2>3. y \div 100 < w + 1
      BY <1>2, <2>1, QuotientBelow
    <2> QED BY <1>2, <2>2, <2>3 DEF y
  <1>4. Uniform(lo, hi, p, n) = lo + q
    BY DEF Uniform, q, w, x
  <1> HIDE DEF q
  <1> QED BY <1>2, <1>3, <1>4

LEMMA DrawIs ==
  ASSUME source \in Sources, draw \in Draws[source]
  PROVE  /\ Percents(draw.delta) /\ Percents(draw.amps) /\ Percents(draw.rms)
         /\ Percents(draw.mult) /\ Percents(draw.end) /\ Percents(draw.blip)
  BY DrawsAssumption DEF Sources

\* The sources with a reading for every row.
Minutely == HourSources \ {"short_cycling"}

LEMMA EveryRow ==
  ASSUME source \in Minutely
  PROVE  Every = 1 /\ NReadings = Total /\ Total \in Nat
  <1>1. source \in Sources /\ source \notin WeekSources /\ source # "short_cycling"
    BY DEF Minutely, Sources, HourSources, WeekSources
  <1>2. Total \in Nat
    BY <1>1, TotalPositive
  <1>3. Every = 1
    BY <1>1 DEF Every, RowTime
  <1> DEFINE T == Total
             e == Every
  <1>4. T \in Nat /\ e = 1
    BY <1>2, <1>3
  <1> HIDE DEF T, e
  <1>5. (T + e - 1) \div e = T
    BY <1>4
  <1> QED BY <1>2, <1>3, <1>5 DEF NReadings, T, e

LEMMA ReadingsOf ==
  ASSUME source \in Minutely, NEW rms
  PROVE  VibSummary(rms) = [k \in 1..Total |-> [ts |-> (k - 1) * 2, rms |-> rms[k - 1]]]
  <1>1. source \notin WeekSources
    BY DEF Minutely, HourSources, WeekSources
  <1> QED BY <1>1, EveryRow DEF VibSummary

\* A run is louder than a hold, whatever is drawn.
LEMMA BaselineIs ==
  ASSUME source \in Minutely, Tiling, Tiled = Total
  PROVE  /\ VibBaseline \in [0..(Total - 1) -> Nat]
         /\ \A t \in 0..(Total - 1) :
              IF InRun(t) THEN 34 <= VibBaseline[t] /\ VibBaseline[t] <= 103
              ELSE 4 <= VibBaseline[t] /\ VibBaseline[t] <= 23
  <1>1. source \in Sources /\ Total \in Nat
    BY TotalPositive DEF Minutely, Sources
  <1>2. Percents(draw.rms)
    BY <1>1, DrawIs DEF Tiling
  <1>3. VibBaseline = [n \in 0..(Total - 1) |->
          IF Running(n * 1) THEN Uniform(34, 103, draw.rms, n) ELSE Uniform(4, 23, draw.rms, n)]
    BY EveryRow DEF VibBaseline
  <1>4. ASSUME NEW t \in 0..(Total - 1)
        PROVE  /\ VibBaseline[t] \in Nat
               /\ IF InRun(t) THEN 34 <= VibBaseline[t] /\ VibBaseline[t] <= 103
                  ELSE 4 <= VibBaseline[t] /\ VibBaseline[t] <= 23
    <2>1. t \in Nat /\ t < Total /\ t * 1 = t
      BY <1>1
    <2>2. Running(t) <=> InRun(t)
      BY <1>1, <2>1, CycleIs
    <2> DEFINE x == Uniform(34, 103, draw.rms, t)
               y == Uniform(4, 23, draw.rms, t)
    <2>3. x \in Int /\ 34 <= x /\ x <= 103 /\ y \in Int /\ 4 <= y /\ y <= 23
      <3>1. x \in Int /\ 34 <= x /\ x <= 103
        BY <1>2, <2>1, UniformIn
      <3>2. y \in Int /\ 4 <= y /\ y <= 23
        BY <1>2, <2>1, UniformIn
      <3> HIDE DEF x, y
      <3> QED BY <3>1, <3>2
    <2>4. VibBaseline[t] = IF InRun(t) THEN x ELSE y
      BY <1>3, <2>1, <2>2
    <2> HIDE DEF x, y
    <2> QED BY <2>3, <2>4
  <1>5. VibBaseline \in [0..(Total - 1) -> Nat]
    BY <1>3, <1>4
  <1> QED BY <1>4, <1>5

\* The sources that cycle as a healthy machine does and do not knock.
Cycling == HourSources \ {"knocking", "short_cycling"}

\* The readings of such a segment, one a row.
Readings == source \in Cycling /\ dep # NoData => dep.vib \in [1..Total -> [ts : Nat, rms : Int]]

LEMMA MadeReadings ==
  ASSUME source \in Cycling, Tiling, Tiled = Total
  PROVE  Make.vib \in [1..Total -> [ts : Nat, rms : Int]]
  <1>1. source \in Sources /\ source \in Minutely /\ Total \in Nat
    BY TotalPositive DEF Cycling, Sources, Minutely
  <1> DEFINE base == VibBaseline
             D == 0..(Total - 1)
             slips == [n \in 0..(NReadings - 1) |->
                         IF Running(n * Every)
                         THEN (base[n] * Uniform(25, 45, draw.mult, n)) \div 100 ELSE base[n]]
             rms == IF source = "belt_slip" THEN slips ELSE base
  <1>2. Make.vib = VibSummary(rms)
    <2> USE DEF Segment
    <2>1. CASE source = "healthy"
      BY <2>1 DEF Make, MakeHealthy
    <2>2. CASE source = "tcc_never_satisfied"
      BY <2>2 DEF Make, MakeTccNeverSatisfied
    <2>3. CASE source = "condenser_airflow"
      BY <2>3 DEF Make, MakeCondenserAirflow
    <2>4. CASE source = "belt_slip"
      BY <2>4 DEF Make, MakeBeltSlip
    <2> QED BY <2>1, <2>2, <2>3, <2>4 DEF Cycling, HourSources
  <1>3. \A t \in D : base[t] \in Nat
    BY <1>1, BaselineIs
  <1>4. \A t \in D : rms[t] \in Int
    <2> SUFFICES ASSUME NEW t \in D PROVE slips[t] \in Int
      BY <1>3
    <2> DEFINE u == Uniform(25, 45, draw.mult, t)
               v == base[t]
    <2>1. Percents(draw.mult) /\ t \in Nat
      BY <1>1, DrawIs DEF Tiling
    <2>2. u \in Int
      BY <2>1, UniformIn
    <2>3. v \in Int
      BY <1>3
    <2>4. slips[t] = IF Running(t * Every) THEN (v * u) \div 100 ELSE v
      BY <1>1, EveryRow
    <2> HIDE DEF u, v, slips
    <2>5. v * u \in Int
      BY <2>2, <2>3
    <2>6. (v * u) \div 100 \in Int
      BY <2>5, Quotient
    <2> QED BY <2>3, <2>4, <2>6
  <1> HIDE DEF rms
  <1>5. Make.vib = [k \in 1..Total |-> [ts |-> (k - 1) * 2, rms |-> rms[k - 1]]]
    BY <1>1, <1>2, ReadingsOf
  <1>6. ASSUME NEW k \in 1..Total PROVE rms[k - 1] \in Int /\ (k - 1) * 2 \in Nat
    <2>1. k - 1 \in D /\ (k - 1) * 2 \in Nat
      BY <1>1
    <2> QED BY <1>4, <2>1
  <1> QED BY <1>5, <1>6

CyclingInv == SegmentInv /\ Readings

LEMMA CyclingStep ==
  ASSUME IInv, CyclingInv, [Next]_vars
  PROVE  CyclingInv'
  <1>1. SegmentInv'
    BY SegmentStep DEF CyclingInv
  <1>2. Readings'
    <2>1. CASE Tile
      BY <2>1 DEF Tile, Readings, NoData
    <2>2. CASE LogRow \/ LogBurst
      <3>1. source' = source /\ source \in Logged
        BY <2>2 DEF LogRow, LogBurst, IInv, SourceOK, Sources, HourSources, WeekSources
      <3>2. source \notin Cycling
        BY <3>1, Apart DEF Cycling, Sources
      <3> QED BY <3>1, <3>2 DEF Readings, Cycling
    <2>3. CASE MakeSegment
      <3>1. UNCHANGED <<source, draw, windows>>
        BY <2>3 DEF MakeSegment
      <3>2. Total' = Total /\ Cycling' = Cycling
        BY <3>1 DEF Total, Cycling
      <3>3. source \in Cycling => Tiled = Total /\ dep' = Make
        BY <2>3 DEF MakeSegment, Cycling, HourSources, Sources
      <3>5. CASE source \in Cycling
        BY <3>1, <3>2, <3>3, <3>5, MadeReadings DEF CyclingInv, SegmentInv, Readings
      <3>6. CASE source \notin Cycling
        BY <3>1, <3>2, <3>6 DEF Readings
      <3> QED BY <3>5, <3>6
    <2>4. CASE FindRuns \/ Schedule \/ UNCHANGED vars
      <3>1. UNCHANGED <<source, draw, windows, dep>>
        BY <2>4 DEF FindRuns, Schedule, vars
      <3> QED BY <3>1 DEF CyclingInv, Readings, Cycling, Total, NoData
    <2> QED BY <2>1, <2>2, <2>3, <2>4 DEF Next
  <1> QED BY <1>1, <1>2 DEF CyclingInv

\* A synthetic segment stays tiled and is read when it is whole, with a reading
\* for every row.
THEOREM CyclingInductive == Spec => []CyclingInv
  <1>1. Init => CyclingInv
    BY SegmentInit DEF Init, CyclingInv, Readings
  <1>2. IInv /\ CyclingInv /\ [Next]_vars => CyclingInv'
    BY CyclingStep
  <1> QED BY <1>1, <1>2, Inductive, PTL DEF Spec

-----------------------------------------------------------------------------
(* A stretch of rows as long as the rolling window.                        *)

\* What a window of a segment with normal cycling is.
LEMMA CyclingWindow ==
  ASSUME source \in Cycling, Tiling, NEW k \in 1..Len(windows)
  PROVE  /\ windows[k].run \in Nat /\ windows[k].rest \in Nat /\ windows[k].next \in Nat
         /\ windows[k].run < windows[k].rest /\ windows[k].rest <= windows[k].next
         /\ windows[k].next <= Total
         /\ windows[k].rest < Total =>
              \E run \in RunHealthy : run \in Nat /\ windows[k].run + run <= windows[k].rest
         /\ \E hold \in HoldHealthy : hold \in Nat /\ windows[k].next <= windows[k].rest + hold
  <1>1. source \in Sources /\ RunRange = RunHealthy /\ HoldRange = HoldHealthy
    BY DEF Cycling, Sources, HourSources, WeekSources, RunRange, HoldRange
  <1>2. windows \in Seq(Windows) /\ windows[k] \in Windows
    BY <1>1, ElementOfSeq DEF Tiling
  <1>3. windows[k].run \in Nat /\ windows[k].rest \in Nat /\ windows[k].next \in Nat
    BY <1>2 DEF Windows
  <1>4. /\ windows[k].run < windows[k].rest /\ windows[k].rest <= windows[k].next
        /\ windows[k].next <= Total
    BY <1>1 DEF Tiling
  <1>5. ASSUME windows[k].rest < Total
        PROVE  \E run \in RunHealthy : run \in Nat /\ windows[k].run + run <= windows[k].rest
    <2>1. PICK run \in RunHealthy : windows[k].rest = windows[k].run + Max({1, run})
      BY <1>1, <1>5 DEF Tiling
    <2>2. run \in Nat
      BY RangeAssumption
    <2>3. Max({1, run}) \in Int /\ run <= Max({1, run})
      <3> DEFINE one == 1
      <3>1. one \in Int /\ run \in Int
        BY <2>2
      <3> HIDE DEF one
      <3>2. Max({one, run}) = IF one <= run THEN run ELSE one
        BY <3>1, OfTwo
      <3> QED BY <2>2, <3>1, <3>2 DEF one
    <2>4. windows[k].run + run <= windows[k].rest
      <3> DEFINE m == Max({1, run})
      <3>1. m \in Int /\ run <= m /\ windows[k].rest = windows[k].run + m
        BY <2>1, <2>3
      <3> HIDE DEF m
      <3> QED BY <1>3, <2>2, <3>1
    <2> QED BY <2>2, <2>4
  <1>6. \E hold \in HoldHealthy : hold \in Nat /\ windows[k].next <= windows[k].rest + hold
    <2>1. PICK hold \in HoldHealthy : windows[k].next <= windows[k].rest + hold
      BY <1>1 DEF Tiling
    <2> QED BY <2>1, RangeAssumption
  <1> QED BY <1>3, <1>4, <1>5, <1>6

\* The rows a..b-1.
LEMMA SpanOf ==
  ASSUME NEW a \in Nat, NEW b \in Nat, a <= b
  PROVE  IsFiniteSet(a..(b - 1)) /\ Cardinality(a..(b - 1)) = b - a
  <1> DEFINE c == b - 1
  <1>1. c \in Int /\ a \in Int /\ c - a + 1 = b - a /\ ~(a > c + 1) /\ (a > c => b - a = 0)
    OBVIOUS
  <1> HIDE DEF c
  <1>2. IsFiniteSet(a..c) /\ Cardinality(a..c) = IF a > c THEN 0 ELSE c - a + 1
    BY <1>1, FS_Interval
  <1> QED BY <1>1, <1>2 DEF c

\* A shortest run and a longest hold, where there are holds at all.
LEMMA Extremes ==
  ASSUME NEW h \in Nat, h = KnockRollingWindow \div 2, HoldHealthy \ {0} # {}
  PROVE  \E r, m \in Nat \ {0} :
           /\ \A run \in RunHealthy : r <= run
           /\ \A hold \in HoldHealthy : hold <= m
           /\ h < r * (h \div m) /\ h \div m \in Nat
  <1>1. RunHealthy \subseteq Nat /\ RunHealthy # {} /\ HoldHealthy \subseteq Nat
    BY RangeAssumption
  <1>2. PICK r \in RunHealthy : \A run \in RunHealthy : r <= run
    BY <1>1, LeastNatural
  <1> DEFINE S == HoldHealthy \ {0}
  <1>3. ASSUME NEW run \in RunHealthy, NEW hold \in S
        PROVE  run \in Nat \ {0} /\ hold \in 1..h /\ h < run * (h \div hold) /\ h \div hold \in Nat
    <2>1. h < run * (h \div hold)
      BY CyclingAssumption
    <2>2. run \in Nat /\ hold \in Nat \ {0}
      BY <1>1
    <2>3. h \div hold \in Int /\ hold * (h \div hold) <= h /\ h < hold * (h \div hold) + hold
      BY <2>2, Quotient
    <2> DEFINE q == h \div hold
    <2>4. q \in Int /\ h < run * q /\ hold * q <= h /\ h < hold * q + hold
      BY <2>1, <2>3
    <2> HIDE DEF q
    <2>5. q >= 1 /\ run # 0
      <3>1. run # 0
        BY <2>2, <2>4
      <3>2. q >= 1
        <4> SUFFICES ASSUME q <= 0 PROVE FALSE
          BY <2>4
        <4> DEFINE z == 0
        <4>1. run * q <= run * z
          <5>1. q \in Int /\ z \in Int /\ q <= z
            BY <2>4
          <5> HIDE DEF z
          <5> QED BY <2>2, <5>1, ProductGrows
        <4>2. run * z = 0
          BY <2>2
        <4>3. run * q \in Int
          BY <2>2, <2>4
        <4> QED BY <2>4, <4>1, <4>2, <4>3
      <3> QED BY <3>1, <3>2
    <2>6. hold <= h
      <3> DEFINE one == 1
      <3>1. hold * one <= hold * q
        <4>1. one \in Int /\ q \in Int /\ one <= q
          BY <2>4, <2>5
        <4> HIDE DEF one
        <4> QED BY <2>2, <4>1, ProductGrows
      <3>2. hold * one = hold /\ hold * q \in Int
        BY <2>2, <2>4
      <3> QED BY <2>2, <2>4, <3>1, <3>2
    <2>7. h \div hold \in Nat
      BY <2>4, <2>5 DEF q
    <2> QED BY <2>1, <2>2, <2>5, <2>6, <2>7
  <1>4. S \in SUBSET Int /\ IsFiniteSet(S) /\ S # {}
    <2>1. S \subseteq 1..h
      BY <1>2, <1>3
    <2> DEFINE T == 1..h
    <2>2. IsFiniteSet(T) /\ T \subseteq Int
      BY PlacesFinite
    <2> HIDE DEF S, T
    <2>3. S \in SUBSET Int /\ IsFiniteSet(S)
      BY <2>1, <2>2, FS_Subset DEF T
    <2> QED BY <2>3 DEF S
  <1> DEFINE m == Max(S)
  <1>5. m \in S /\ \A hold \in S : hold <= m
    <2> HIDE DEF S
    <2> QED BY <1>4, MaxOfFinite
  <1> HIDE DEF m
  <1>6. \A hold \in HoldHealthy : hold <= m
    <2> SUFFICES ASSUME NEW hold \in HoldHealthy PROVE hold <= m
      OBVIOUS
    <2>1. CASE hold = 0
      BY <1>1, <1>5, <2>1
    <2>2. CASE hold # 0
      BY <1>5, <2>2
    <2> QED BY <2>1, <2>2
  <1>7. r \in Nat \ {0} /\ m \in Nat \ {0} /\ h < r * (h \div m) /\ h \div m \in Nat
    <2>1. m \in Nat \ {0}
      BY <1>1, <1>5
    <2> HIDE DEF S
    <2> QED BY <1>2, <1>3, <1>5, <2>1
  <1> QED BY <1>2, <1>6, <1>7

\* In any stretch of rows as long as the rolling window the holds together
\* take fewer than half: between as many holds as that there are whole runs
\* that take more than half.
LEMMA HoldsBrief ==
  ASSUME source \in Cycling, Tiling, Tiled = Total,
         NEW h \in Nat, h = KnockRollingWindow \div 2, NEW a \in Nat, a + 2 * h < Total
  PROVE  /\ IsFiniteSet({t \in a..(a + 2 * h) : ~InRun(t)})
         /\ Cardinality({t \in a..(a + 2 * h) : ~InRun(t)}) <= h
  <1> DEFINE b == a + 2 * h
             D == a..b
             X == {t \in D : ~InRun(t)}
             card == Cardinality(X)
             n == Len(windows)
  <1>1. source \in Sources /\ Total \in Nat /\ n \in Nat
    BY TotalPositive, TiledIs DEF Cycling, Sources
  <1>2. /\ IsFiniteSet(D) /\ Cardinality(D) = 2 * h + 1 /\ D \in SUBSET Nat
        /\ b \in Nat /\ b < Total /\ \A t \in D : t \in Nat /\ a <= t /\ t <= b /\ t < Total
    <2>1. b \in Nat /\ b - a + 1 = 2 * h + 1 /\ a <= b
      OBVIOUS
    <2> HIDE DEF b
    <2>2. IsFiniteSet(a..b) /\ Cardinality(a..b) = IF a > b THEN 0 ELSE b - a + 1
      <3>1. a \in Int /\ b \in Int
        BY <2>1
      <3> QED BY <3>1, FS_Interval
    <2>3. b < Total
      BY DEF b
    <2>4. Cardinality(D) = 2 * h + 1 /\ IsFiniteSet(D)
      BY <2>1, <2>2
    <2>5. \A t \in a..b : t \in Nat /\ a <= t /\ t <= b /\ t < Total
      BY <1>1, <2>1, <2>3
    <2> QED BY <2>1, <2>3, <2>4, <2>5
  <1>3. IsFiniteSet(X) /\ card \in Nat /\ X \in SUBSET Int /\ X \subseteq D
    <2> HIDE DEF D
    <2>1. X \subseteq D
      OBVIOUS
    <2>2. D \subseteq Int
      BY <1>2
    <2> HIDE DEF X
    <2>3. IsFiniteSet(X)
      BY <1>2, <2>1, FS_Subset
    <2> QED BY <2>1, <2>2, <2>3, FS_CardinalityType
  <1>4. ASSUME NEW t \in X
        PROVE  /\ Cycle(t) \in 1..n /\ windows[Cycle(t)].run <= t
               /\ windows[Cycle(t)].rest <= t /\ t < windows[Cycle(t)].next
               /\ t \in Nat /\ a <= t /\ t <= b
    <2>1. t \in Nat /\ t < Total /\ a <= t /\ t <= b /\ ~InRun(t)
      BY <1>2
    <2>2. /\ Cycle(t) \in 1..n /\ windows[Cycle(t)].run <= t /\ t < windows[Cycle(t)].next
          /\ ~Running(t)
      BY <1>1, <2>1, CycleIs
    <2>3. windows[Cycle(t)].rest \in Nat
      BY <2>2, CyclingWindow
    <2> QED BY <2>1, <2>2, <2>3 DEF Running
  <1> SUFFICES ASSUME h < card PROVE FALSE
    BY <1>3
  <1>5. X # {}
    BY <1>3, FS_EmptySet
  <1>6. PICK lo \in X : \A t \in X : lo <= t
    <2> HIDE DEF X
    <2> QED BY <1>3, <1>5, MinOfFinite
  <1>7. PICK hi \in X : \A t \in X : t <= hi
    <2> HIDE DEF X
    <2> QED BY <1>3, <1>5, MaxOfFinite
  <1> DEFINE p == Cycle(lo)
             s == Cycle(hi)
  <1>8. /\ p \in 1..n /\ windows[p].rest <= lo /\ lo < windows[p].next /\ windows[p].run <= lo
        /\ s \in 1..n /\ windows[s].rest <= hi /\ hi < windows[s].next /\ windows[s].run <= hi
        /\ lo \in Nat /\ a <= lo /\ hi \in Nat /\ hi <= b /\ lo <= hi
    BY <1>4, <1>6, <1>7
  <1>9. HoldHealthy \ {0} # {}
    <2>1. PICK hold \in HoldHealthy : hold \in Nat /\ windows[p].next <= windows[p].rest + hold
      BY <1>8, CyclingWindow
    <2>2. windows[p].rest \in Nat /\ windows[p].next \in Nat
      BY <1>8, CyclingWindow
    <2>3. hold # 0
      BY <1>8, <2>1, <2>2, SMTT(60)
    <2> QED BY <2>1, <2>3
  <1>10. PICK r \in Nat \ {0}, m \in Nat \ {0} :
            /\ \A run \in RunHealthy : r <= run
            /\ \A hold \in HoldHealthy : hold <= m
            /\ h < r * (h \div m) /\ h \div m \in Nat
    BY <1>9, Extremes
  <1> HIDE DEF p, s
  <1>11. \A c \in 1..n : /\ windows[c].run \in Nat /\ windows[c].rest \in Nat /\ windows[c].next \in Nat
                         /\ windows[c].run < windows[c].rest /\ windows[c].rest <= windows[c].next
                         /\ windows[c].next <= windows[c].rest + m
                         /\ windows[c].rest < Total => windows[c].run + r <= windows[c].rest
    <2> SUFFICES ASSUME NEW c \in 1..n
                 PROVE  /\ windows[c].run \in Nat /\ windows[c].rest \in Nat
                        /\ windows[c].next \in Nat
                        /\ windows[c].run < windows[c].rest /\ windows[c].rest <= windows[c].next
                        /\ windows[c].next <= windows[c].rest + m
                        /\ windows[c].rest < Total => windows[c].run + r <= windows[c].rest
      OBVIOUS
    <2>1. /\ windows[c].run \in Nat /\ windows[c].rest \in Nat /\ windows[c].next \in Nat
          /\ windows[c].run < windows[c].rest /\ windows[c].rest <= windows[c].next
      BY CyclingWindow
    <2>2. PICK hold \in HoldHealthy : hold \in Nat /\ windows[c].next <= windows[c].rest + hold
      BY CyclingWindow
    <2>3. hold <= m
      BY <1>10
    <2>4. windows[c].next <= windows[c].rest + m
      <3> DEFINE x == windows[c].rest
                 y == windows[c].next
      <3>1. x \in Nat /\ y \in Nat /\ y <= x + hold /\ hold \in Nat /\ hold <= m /\ m \in Nat
        BY <1>10, <2>1, <2>2, <2>3
      <3> HIDE DEF x, y
      <3>2. y <= x + m
        BY <3>1
      <3> QED BY <3>2 DEF x, y
    <2>5. ASSUME windows[c].rest < Total PROVE windows[c].run + r <= windows[c].rest
      <3>1. PICK run \in RunHealthy : run \in Nat /\ windows[c].run + run <= windows[c].rest
        BY <2>5, CyclingWindow
      <3>2. r <= run
        BY <1>10
      <3> DEFINE x == windows[c].run
                 y == windows[c].rest
      <3>3. x \in Nat /\ y \in Nat /\ x + run <= y /\ run \in Nat /\ r <= run /\ r \in Nat
        BY <1>10, <2>1, <3>1, <3>2
      <3> HIDE DEF x, y
      <3>4. x + r <= y
        BY <3>3
      <3> QED BY <3>4 DEF x, y
    <2> QED BY <2>1, <2>4, <2>5
  <1>12. \A c, d \in 1..n : c < d => windows[c].next <= windows[d].run
    BY <1>1, InTurn
  <1>21. p \in Nat /\ s \in Nat /\ 1 <= p /\ p <= n /\ s <= n
    <2> HIDE DEF n
    <2> QED BY <1>1, <1>8
  <1>13. p <= s
    <2> SUFFICES ASSUME s < p PROVE FALSE
      BY <1>21
    <2>1. windows[s].next <= windows[p].run
      BY <1>8, <1>12
    <2>2. windows[s].next \in Nat /\ windows[p].run \in Nat
      BY <1>8, <1>11
    <2> DEFINE x == windows[p].run
               y == windows[s].next
    <2>3. x \in Nat /\ y \in Nat /\ y <= x /\ x <= lo /\ lo <= hi /\ hi < y /\ lo \in Nat /\ hi \in Nat
      BY <1>8, <2>1, <2>2
    <2> HIDE DEF x, y
    <2> QED BY <2>3
  <1> DEFINE l == s - p
             q == h \div m
  <1>14. l \in Nat /\ \A c \in 1..(l + 1) : p + c - 1 \in 1..n /\ p + c - 1 <= s
    BY <1>1, <1>13, <1>21
  <1>15. \A c \in 1..l : p + c \in 1..n /\ p < p + c /\ p + c <= s
    BY <1>1, <1>13, <1>21
  <1> HIDE DEF X, D, b, l, n
  <1>16. card <= (l + 1) * m
    <2> DEFINE e == l + 1
               F == [c \in 1..e |-> (windows[p + c - 1].rest)..(windows[p + c - 1].next - 1)]
    <2>1. \A c \in 1..e : IsFiniteSet(F[c]) /\ Cardinality(F[c]) <= m
      <3> SUFFICES ASSUME NEW c \in 1..e PROVE IsFiniteSet(F[c]) /\ Cardinality(F[c]) <= m
        OBVIOUS
      <3> DEFINE w == windows[p + c - 1]
                 x == w.rest
                 y == w.next
      <3>1. x \in Nat /\ y \in Nat /\ x <= y /\ y <= x + m
        BY <1>11, <1>14
      <3>2. F[c] = x..(y - 1)
        OBVIOUS
      <3> HIDE DEF x, y, F
      <3>3. IsFiniteSet(x..(y - 1)) /\ Cardinality(x..(y - 1)) = y - x
        BY <3>1, SpanOf
      <3> QED BY <3>1, <3>2, <3>3
    <2>2. ASSUME NEW t \in X PROVE \E c \in 1..e : t \in F[c]
      <3> DEFINE k == Cycle(t)
      <3>1. /\ k \in 1..n /\ windows[k].run <= t /\ windows[k].rest <= t /\ t < windows[k].next
            /\ t \in Nat /\ lo <= t /\ t <= hi
        BY <1>4, <1>6, <1>7
      <3> HIDE DEF k
      <3>2. /\ windows[k].run \in Nat /\ windows[k].rest \in Nat /\ windows[k].next \in Nat
            /\ windows[s].run \in Nat /\ windows[p].next \in Nat
            /\ windows[p].run \in Nat /\ windows[s].next \in Nat
        BY <1>8, <1>11, <3>1
      <3>3. p <= k
        <4> SUFFICES ASSUME k < p PROVE FALSE
          BY <1>8, <3>1
        <4>1. windows[k].next <= windows[p].run
          BY <1>8, <1>12, <3>1
        <4> QED BY <1>8, <3>1, <3>2, <4>1
      <3>4. k <= s
        <4> SUFFICES ASSUME s < k PROVE FALSE
          BY <1>8, <3>1
        <4>1. windows[s].next <= windows[k].run
          BY <1>8, <1>12, <3>1
        <4> QED BY <1>8, <3>1, <3>2, <4>1
      <3> DEFINE c == k - p + 1
      <3>5. c \in 1..e /\ p + c - 1 = k
        BY <1>8, <3>1, <3>3, <3>4 DEF l
      <3> HIDE DEF c
      <3>6. F[c] = (windows[k].rest)..(windows[k].next - 1)
        BY <3>5
      <3>7. t \in (windows[k].rest)..(windows[k].next - 1)
        BY <3>1, <3>2
      <3> QED BY <3>5, <3>6, <3>7
    <2> HIDE DEF F
    <2>3. e \in Nat /\ m \in Nat
      BY <1>14
    <2> HIDE DEF e
    <2>4. /\ IsFiniteSet(UNION {F[c] : c \in 1..e})
          /\ Cardinality(UNION {F[c] : c \in 1..e}) <= e * m
      BY <2>1, <2>3, CoveredBy
    <2> DEFINE U == UNION {F[c] : c \in 1..e}
    <2>5. X \subseteq U
      BY <2>2
    <2> HIDE DEF U
    <2>6. card <= Cardinality(U) /\ Cardinality(U) \in Nat /\ Cardinality(U) <= e * m
      <3>1. IsFiniteSet(U) /\ Cardinality(U) <= e * m
        BY <2>4 DEF U
      <3> QED BY <2>5, <3>1, FS_Subset, FS_CardinalityType
    <2>7. e * m \in Nat
      BY <2>3
    <2>8. card <= e * m
      BY <1>3, <2>6, <2>7
    <2> QED BY <2>8 DEF e
  <1>17. l * r <= Cardinality(D \ X) /\ Cardinality(D \ X) = 2 * h + 1 - card
    <2> DEFINE T == D \ X
               G == [c \in 1..l |-> (windows[p + c].run)..(windows[p + c].rest - 1)]
    <2>1. IsFiniteSet(T) /\ Cardinality(T) = Cardinality(D) - Cardinality(X)
      <3>1. IsFiniteSet(T)
        BY <1>2, FS_Subset
      <3>2. T \intersect X = {} /\ D = T \union X
        BY <1>3
      <3> HIDE DEF T
      <3>3. Cardinality(T \intersect X) = 0
        BY <3>2, FS_EmptySet
      <3>4. Cardinality(D) = Cardinality(T) + Cardinality(X) - Cardinality(T \intersect X)
        BY <1>3, <3>1, <3>2, FS_Union
      <3>5. Cardinality(T) \in Nat
        BY <3>1, FS_CardinalityType
      <3> QED BY <1>3, <3>1, <3>3, <3>4, <3>5
    <2>2. ASSUME NEW c \in 1..l PROVE G[c] \subseteq T /\ r <= Cardinality(G[c])
      <3> DEFINE k == p + c
                 x == windows[k].run
                 y == windows[k].rest
      <3>1. k \in 1..n /\ p < k /\ k <= s
        BY <1>15
      <3> HIDE DEF k
      <3>2. x \in Nat /\ y \in Nat /\ x < y /\ windows[k].next \in Nat /\ y <= windows[k].next
        BY <1>11, <3>1
      <3>3. windows[s].rest \in Nat /\ windows[s].run \in Nat /\ windows[p].next \in Nat
            /\ windows[s].run < windows[s].rest
        BY <1>8, <1>11
      <3>4. y <= hi
        <4>1. CASE k = s
          BY <1>8, <4>1
        <4>2. CASE k < s
          <5>1. windows[k].next <= windows[s].run
            BY <1>8, <1>12, <3>1, <4>2
          <5> QED BY <1>8, <3>2, <3>3, <5>1
        <4>3. k < s \/ k = s
          <5>1. k \in Nat
            BY <1>1, <3>1
          <5> QED BY <1>21, <3>1, <5>1
        <4> QED BY <4>1, <4>2, <4>3
      <3>5. lo < x
        <4>1. windows[p].next <= x
          BY <1>8, <1>12, <3>1
        <4> QED BY <1>8, <3>2, <3>3, <4>1
      <3>6. y < Total
        BY <1>1, <1>2, <1>8, <3>2, <3>4
      <3>7. x + r <= y
        BY <1>11, <3>1, <3>6
      <3>8. G[c] = x..(y - 1)
        BY DEF k
      <3>9. ASSUME NEW t \in x..(y - 1) PROVE t \in T
        <4>1. t \in Nat /\ x <= t /\ t < y
          BY <3>2
        <4>2. t \in D
          <5>1. a <= t /\ t <= b /\ t \in Int /\ b \in Int
            BY <1>2, <1>8, <3>2, <3>4, <3>5, <4>1
          <5> QED BY <5>1 DEF D
        <4>3. InRun(t)
          BY <3>1, <4>1 DEF InRun, n
        <4> QED BY <4>2, <4>3 DEF X
      <3> HIDE DEF x, y, G, T
      <3>10. G[c] \subseteq T
        BY <3>8, <3>9
      <3>11. Cardinality(x..(y - 1)) = y - x
        <4>1. x <= y
          BY <3>2
        <4> QED BY <3>2, <4>1, SpanOf
      <3>12. r <= y - x
        BY <1>10, <3>2, <3>7
      <3> QED BY <3>8, <3>10, <3>11, <3>12
    <2>3. ASSUME NEW c \in 1..l, NEW d \in 1..l, c < d PROVE G[c] \intersect G[d] = {}
      <3>1. windows[p + c].next <= windows[p + d].run
        <4>1. p + c \in 1..n /\ p + d \in 1..n
          BY <1>15
        <4>2. p + c < p + d
          <5>1. c \in Int /\ d \in Int
            BY <1>14
          <5> QED BY <1>21, <2>3, <5>1
        <4> QED BY <1>12, <4>1, <4>2
      <3>2. /\ windows[p + c].rest \in Nat /\ windows[p + d].run \in Nat
            /\ windows[p + c].next \in Nat /\ windows[p + c].rest <= windows[p + c].next
        BY <1>11, <1>15
      <3> DEFINE y == windows[p + c].rest
                 x == windows[p + d].run
      <3>3. \A t \in G[c] : t < y /\ t \in Int
        <4>1. windows[p + c].run \in Nat
          BY <1>11, <1>15
        <4> QED BY <3>2, <4>1
      <3>4. \A t \in G[d] : x <= t
        <4>1. windows[p + d].rest \in Nat
          BY <1>11, <1>15
        <4> QED BY <3>2, <4>1
      <3>5. x \in Nat /\ y \in Nat /\ y <= x
        BY <3>1, <3>2
      <3> HIDE DEF x, y, G
      <3>6. ASSUME NEW t \in G[c] \intersect G[d] PROVE FALSE
        <4>1. t < y /\ x <= t /\ t \in Int
          BY <3>3, <3>4
        <4> QED BY <3>5, <4>1
      <3> QED BY <3>6
    <2> HIDE DEF T, G
    <2>4. l * r <= Cardinality(T)
      <3>1. l \in Nat /\ r \in Nat
        BY <1>14
      <3> QED BY <2>1, <2>2, <2>3, <3>1, PackedIn
    <2>5. Cardinality(T) = 2 * h + 1 - card
      BY <1>2, <1>3, <2>1
    <2> QED BY <2>4, <2>5 DEF T
  <1>18. q <= l
    <2> SUFFICES ASSUME l + 1 <= q PROVE FALSE
      BY <1>10, <1>14
    <2>1. m * (l + 1) <= m * q
      <3> DEFINE e == l + 1
      <3>1. e \in Int /\ q \in Int /\ e <= q
        BY <1>10, <1>14
      <3> HIDE DEF e, q
      <3>2. m * e <= m * q
        BY <3>1, ProductGrows
      <3> QED BY <3>2 DEF e
    <2>2. m * q <= h
      <3>1. h \in Int /\ m \in Nat \ {0}
        BY <1>10
      <3> QED BY <3>1, Quotient
    <2>3. m * (l + 1) = (l + 1) * m /\ m * (l + 1) \in Int
      BY <1>14
    <2>4. m * q \in Int
      BY <1>10
    <2> HIDE DEF q
    <2> QED BY <1>3, <1>16, <2>1, <2>2, <2>3, <2>4
  <1>19. r * q <= r * l
    <2>1. q \in Int /\ l \in Int /\ r \in Nat
      BY <1>10, <1>14
    <2> HIDE DEF q
    <2> QED BY <1>18, <2>1, ProductGrows
  <1>20. h < r * q /\ r * q \in Int /\ r * l = l * r /\ r * l \in Int
    <2>1. q \in Int /\ h < r * q
      BY <1>10
    <2> HIDE DEF q
    <2> QED BY <1>10, <1>14, <2>1
  <1> HIDE DEF q
  <1> QED BY <1>3, <1>17, <1>19, <1>20

\* A reading with the whole window around it is no spike: most of the window is
\* running, so its median is no less than the quietest reading of a run there.
LEMMA InsideQuiet ==
  ASSUME CyclingInv, source \in Cycling, dep # NoData, Alike,
         NEW h \in Nat, h = KnockRollingWindow \div 2, NEW k \in Nat, h < k, k + h <= Total
  PROVE  k \notin Spikes(dep.vib)
  <1> DEFINE vib == dep.vib
             Reading == [ts : Nat, rms : Int]
             T == Total
             a == k - h
             b == k + h
             w == SubSeq(vib, a, b)
             f == Column(w, "rms")
             D == 1..(2 * h + 1)
             B == {j \in D : InRun(a + j - 2)}
  <1>1. source \in Sources /\ T \in Nat /\ Tiling /\ Tiled = T
    BY TotalPositive DEF Cycling, Sources, CyclingInv, SegmentInv, Whole
  <1>2. source \in Minutely
    BY DEF Cycling, Minutely
  <1>3. vib \in [1..T -> Reading]
    BY DEF CyclingInv, Readings
  <1>4. vib \in Seq(Reading) /\ Len(vib) = T
    <2> HIDE DEF vib, T, Reading
    <2> QED BY <1>1, <1>3, IsASeq, LenProperties
  <1>5. a \in 1..T /\ b \in a..T /\ b - a + 1 = 2 * h + 1 /\ k \in 1..T /\ a \in Int /\ b \in Int
    <2> HIDE DEF T
    <2>1. k + h <= T
      BY DEF T
    <2> QED BY <1>1, <2>1
  <1>6. SubSeq(vib, Max({1, k - h}), Min({Len(vib), k + h})) = w
    <2> DEFINE one == 1
    <2>1. one \in Int /\ one <= a /\ b <= T
      BY <1>1, <1>5
    <2> HIDE DEF one, a, b, vib, T
    <2>2. Max({one, a}) = a /\ Min({T, b}) = b
      <3>1. Max({one, a}) = IF one <= a THEN a ELSE one
        BY <1>5, <2>1, OfTwo
      <3>2. T \in Int
        BY <1>1
      <3>3. Min({T, b}) = IF T <= b THEN T ELSE b
        BY <1>5, <3>2, OfTwo
      <3> QED BY <1>5, <2>1, <3>1, <3>2, <3>3
    <2> QED BY <1>4, <2>2 DEF one, a, b
  <1>7. w \in Seq(Reading) /\ Len(w) = 2 * h + 1 /\ \A j \in D : w[j] = vib[a + j - 1]
    <2>1. \A j \in a..b : vib[j] \in Reading
      <3> SUFFICES ASSUME NEW j \in a..b PROVE vib[j] \in Reading
        OBVIOUS
      <3>1. j \in 1..T
        BY <1>1, <1>5
      <3> HIDE DEF vib, Reading, T
      <3> QED BY <1>3, <3>1
    <2> HIDE DEF vib, a, b, Reading, T, w
    <2>2. a <= b
      BY <1>5
    <2>3. /\ SubSeq(vib, a, b) \in Seq(Reading)
          /\ Len(SubSeq(vib, a, b)) = IF a <= b THEN b - a + 1 ELSE 0
          /\ \A j \in 1..(b - a + 1) : SubSeq(vib, a, b)[j] = vib[a + j - 1]
      <3>1. a \in Int /\ b \in Int
        BY <1>5
      <3> QED BY <2>1, <3>1, SubSeqProperties
    <2> QED BY <1>5, <2>2, <2>3 DEF w
  <1> HIDE DEF w, vib, T
  <1>8. \A j \in D : /\ f[j] = vib[a + j - 1].rms /\ f[j] \in Int
                     /\ a + j - 1 \in 1..T /\ a + j - 2 \in (a - 1)..(a - 1 + 2 * h)
    <2> SUFFICES ASSUME NEW j \in D
                 PROVE  /\ f[j] = vib[a + j - 1].rms /\ f[j] \in Int
                        /\ a + j - 1 \in 1..T /\ a + j - 2 \in (a - 1)..(a - 1 + 2 * h)
      OBVIOUS
    <2>1. f[j] = w[j].rms /\ w[j] = vib[a + j - 1] /\ w[j] \in Reading
      BY <1>7, ElementOfSeq DEF Column
    <2>2. a + j - 1 \in 1..T /\ a + j - 2 \in (a - 1)..(a - 1 + 2 * h)
      BY <1>1, <1>5
    <2> QED BY <2>1, <2>2
  <1>9. f \in [D -> Int]
    <2>1. DOMAIN f = D /\ f = [j \in D |-> w[j]["rms"]]
      BY <1>7 DEF Column
    <2>2. \A j \in D : f[j] \in Int
      BY <1>8
    <2> HIDE DEF D
    <2>3. \A j \in D : w[j]["rms"] \in Int
      BY <2>1, <2>2
    <2> QED BY <2>1, <2>3
  <1> DEFINE c == a - 1
             X == {t \in c..(c + 2 * h) : ~InRun(t)}
  <1>10. IsFiniteSet(X) /\ Cardinality(X) <= h
    <2>1. c \in Nat /\ c + 2 * h < Total
      BY <1>1, <1>5 DEF T
    <2> HIDE DEF c
    <2>2. Tiling /\ Tiled = Total
      BY <1>1 DEF T
    <2> QED BY <2>1, <2>2, HoldsBrief
  <1>11. IsFiniteSet(D) /\ Cardinality(D) = 2 * h + 1 /\ 2 * h + 1 \in Nat
    <2> DEFINE n == 2 * h + 1
    <2>1. n \in Nat
      OBVIOUS
    <2> HIDE DEF n
    <2>2. IsFiniteSet(1..n) /\ Cardinality(1..n) = n
      BY <2>1, PlacesFinite
    <2> QED BY <2>1, <2>2 DEF n
  <1>12. Cardinality(D \ B) <= h /\ IsFiniteSet(D \ B)
    <2> DEFINE g == [t \in X |-> t - c + 1]
               G == {g[t] : t \in X}
    <2>1. ASSUME NEW j \in D \ B PROVE j \in G
      <3> DEFINE t == a + j - 2
      <3>1. ~InRun(t) /\ j \in D /\ j \in Int
        OBVIOUS
      <3>2. t \in X
        BY <1>8, <3>1
      <3>3. t - c + 1 = j
        BY <1>5, <3>1
      <3> HIDE DEF t, c, X
      <3> QED BY <3>2, <3>3
    <2> HIDE DEF g, X, B
    <2>2. IsFiniteSet(G) /\ Cardinality(G) <= Cardinality(X)
      BY <1>10, FiniteImage
    <2>3. D \ B \subseteq G
      BY <2>1
    <2> HIDE DEF G
    <2>4. Cardinality(D \ B) <= Cardinality(G) /\ IsFiniteSet(D \ B)
      BY <2>2, <2>3, FS_Subset
    <2>5. Cardinality(D \ B) \in Nat /\ Cardinality(G) \in Nat /\ Cardinality(X) \in Nat
      BY <1>10, <2>2, <2>4, FS_CardinalityType
    <2> QED BY <1>10, <2>2, <2>4, <2>5
  <1> DEFINE r == vib[k].rms
  <1>13. r \in Int /\ \A j \in B : r < 3 * f[j]
    <2>1. r \in Int
      <3>1. vib[k] \in Reading
        BY <1>3, <1>5
      <3> QED BY <3>1
    <2>2. ASSUME NEW j \in B PROVE r < 3 * f[j]
      <3> DEFINE l == a + j - 1
      <3>1. j \in D /\ l \in 1..T /\ InRun(l - 1) /\ f[j] = vib[l].rms
        <4>1. l - 1 = a + j - 2
          BY <1>5
        <4> HIDE DEF l
        <4> QED BY <1>8, <4>1 DEF l
      <3> HIDE DEF l, f, B
      <3>2. l - 1 \in Nat /\ l - 1 < Total /\ (l - 1) * Every = l - 1
        <4>1. Every = 1
          BY <1>2, EveryRow
        <4> QED BY <1>1, <3>1, <4>1 DEF T
      <3>3. Running(l - 1)
        BY <1>1, <3>1, <3>2, CycleIs DEF T
      <3>4. l \in Busy
        BY <1>4, <3>1, <3>2, <3>3 DEF Busy, vib
      <3>5. k \in 1..Len(dep.vib)
        BY <1>4, <1>5 DEF vib
      <3>6. dep.vib[k].rms < KnockFactor * dep.vib[l].rms
        BY <3>4, <3>5 DEF Alike
      <3> QED BY <3>1, <3>6 DEF KnockFactor, vib
    <2> QED BY <2>1, <2>2
  <1> HIDE DEF c, X, f
  <1>14. PICK j0 \in B : \A j \in B : f[j0] <= f[j]
    <2> DEFINE S == {f[j] : j \in B}
    <2>1. B \subseteq D /\ D = (D \ B) \union B
      OBVIOUS
    <2>2. B # {}
      <3> SUFFICES ASSUME B = {} PROVE FALSE
        OBVIOUS
      <3>1. D \ B = D
        OBVIOUS
      <3> HIDE DEF B, D
      <3> QED BY <1>11, <1>12, <3>1
    <2> HIDE DEF B, D
    <2>3. IsFiniteSet(B)
      BY <1>11, <2>1, FS_Subset
    <2>4. IsFiniteSet(S)
      BY <2>3, FiniteImage
    <2>5. S \in SUBSET Int /\ S # {}
      BY <1>9, <2>1, <2>2
    <2> HIDE DEF S
    <2>6. Min(S) \in S /\ \A x \in S : Min(S) <= x
      BY <2>4, <2>5, MinOfFinite
    <2> QED BY <2>6 DEF S
  <1> DEFINE v == f[j0]
             L == {j \in D : f[j] < v}
  <1>15. v \in Int /\ r < 3 * v /\ L \subseteq D \ B
    <2>1. v \in Int
      BY <1>9
    <2>2. \A j \in B : ~(f[j] < v)
      <3>1. \A j \in B : f[j] \in Int
        BY <1>9
      <3> QED BY <1>14, <2>1, <3>1
    <2> QED BY <1>13, <2>1, <2>2
  <1>16. Median2(f) \in Int /\ 2 * v <= Median2(f)
    <2>1. Cardinality(L) <= h
      <3> HIDE DEF L, B, D, v
      <3>1. Cardinality(L) <= Cardinality(D \ B) /\ IsFiniteSet(L)
        BY <1>12, <1>15, FS_Subset
      <3>2. Cardinality(L) \in Nat /\ Cardinality(D \ B) \in Nat
        BY <1>12, <3>1, FS_CardinalityType
      <3> QED BY <1>12, <3>1, <3>2
    <2> HIDE DEF v, D
    <2> QED BY <1>9, <1>11, <1>15, <2>1, MostlyAbove DEF L
  <1> HIDE DEF v, D, L, B
  <1> DEFINE base == Baseline2(vib, k)
  <1>17. base = IF Len(w) < KnockMinPeriods THEN 0 ELSE Median2(f)
    BY <1>6 DEF Baseline2, f
  <1>18. ~(base > 0 /\ 2 * r >= 3 * base)
    <2>1. base = 0 \/ (base \in Int /\ 2 * v <= base)
      BY <1>16, <1>17
    <2> HIDE DEF base, r
    <2> QED BY <1>13, <1>15, <2>1
  <1> QED BY <1>18 DEF Spikes, KnockFactor, vib

\* The knocking detector on a machine that cycles normally: whatever runs and
\* holds are drawn, and whatever level for each reading that is not the factor
\* of a knock away from the others, the rolling median of a whole window is
\* no less than the quietest reading of a run in it, so a reading that has the
\* window around it is never a spike.
THEOREM NormalCycling == Spec => []SpikesOnlyAtEdges
  <1>1. CyclingInv => SpikesOnlyAtEdges
    <2> DEFINE h == KnockRollingWindow \div 2
               n == Len(dep.vib)
    <2> SUFFICES ASSUME CyclingInv, source \in Cycling, dep # NoData, Alike,
                        NEW k \in Spikes(dep.vib), ~(k <= h), ~(k > n - h)
                 PROVE  FALSE
      BY DEF SpikesOnlyAtEdges, Made, Cycling
    <2>1. h \in Nat
      BY KnockAssumption
    <2>2. Total \in Nat
      BY TotalPositive DEF Cycling, Sources
    <2>3. n = Total
      <3>1. dep.vib \in [1..Total -> [ts : Nat, rms : Int]]
        BY DEF CyclingInv, Readings
      <3> QED BY <2>2, <3>1, LenProperties, IsASeq
    <2>4. k \in 1..n
      BY DEF Spikes
    <2>5. k \in Nat /\ h < k /\ k + h <= Total
      <3> HIDE DEF h, n
      <3> QED BY <2>1, <2>2, <2>3, <2>4
    <2> HIDE DEF h
    <2>6. h = KnockRollingWindow \div 2
      BY DEF h
    <2> QED BY <2>1, <2>5, <2>6, InsideQuiet
  <1> QED BY <1>1, CyclingInductive, PTL

-----------------------------------------------------------------------------
(* The schedule of a day of the demo.                                      *)

LEMMA DegradationIs ==
  ASSUME day \in 0..LastDay
  PROVE  /\ Degradation \in 0..7
         /\ day <= DegradationStartDay => Degradation = 0
         /\ day = LastDay => Degradation = 7
  <1> DEFINE zero == 0
             seven == 7
             past == day - DegradationStartDay
             least == Min({seven, past})
  <1>1. zero \in Int /\ seven \in Int /\ past \in Int /\ zero = 0 /\ seven = 7
    BY DEF DegradationStartDay, LastDay
  <1>2. day <= DegradationStartDay => past <= 0
    BY DEF DegradationStartDay, LastDay
  <1>3. day = LastDay => past = 7
    BY DEF DegradationStartDay, LastDay
  <1>4. Degradation = Max({zero, least})
    BY DEF Degradation
  <1> HIDE DEF zero, seven, past
  <1>5. least = IF seven <= past THEN seven ELSE past
    BY <1>1, OfTwo
  <1>6. least \in Int /\ least <= 7 /\ (past <= 0 => least <= 0) /\ (past = 7 => least = 7)
    BY <1>1, <1>5
  <1> HIDE DEF least
  <1>7. Max({zero, least}) = IF zero <= least THEN least ELSE zero
    BY <1>1, <1>6, OfTwo
  <1> QED BY <1>1, <1>2, <1>3, <1>4, <1>6, <1>7

\* The lengths a segment may be drawn with.
LEMMA LengthsAre ==
  ASSUME day \in 0..LastDay, NEW t \in Nat
  PROVE  /\ OnLengths(t) \subseteq Nat \ {0} /\ OffLengths(t) \subseteq Nat \ {0}
         /\ ~Degraded(t) => OnLengths(t) = OnHealthy /\ OffLengths(t) = OffHealthy
         /\ day = LastDay /\ Degraded(t) => OnLengths(t) = {1} /\ OffLengths(t) = {1, 2}
  <1>1. Degradation \in 0..7
    BY DegradationIs
  <1>2. About(35 - 4 * Degradation, 7) \subseteq Nat \ {0}
    <2> DEFINE num == 35 - 4 * Degradation
    <2>1. num \div 7 \in Int
      BY <1>1
    <2> HIDE DEF num
    <2> QED BY <2>1 DEF About
  <1>3. About(140 - 15 * Degradation, 21) \subseteq Nat \ {0}
    <2> DEFINE num == 140 - 15 * Degradation
    <2>1. num \div 21 \in Int
      BY <1>1
    <2> HIDE DEF num
    <2> QED BY <2>1 DEF About
  <1>4. OnHealthy \subseteq Nat \ {0} /\ OffHealthy \subseteq Nat \ {0}
    BY StoryAssumption
  <1>5. ASSUME day = LastDay, Degraded(t)
        PROVE  OnLengths(t) = {1} /\ OffLengths(t) = {1, 2}
    <2>1. Degradation = 7
      BY <1>5, DegradationIs
    <2>2. 35 - 4 * Degradation = 7 /\ 140 - 15 * Degradation = 35
      BY <2>1
    <2>3. About(7, 7) = {1}
      <3>1. 7 \div 7 = 1 /\ ~(7 < 7)
        OBVIOUS
      <3>2. \A n \in 1..2 : n * 7 - 7 \in (1 - 7)..(7 - 1) <=> n = 1
        OBVIOUS
      <3> QED BY <3>1, <3>2 DEF About
    <2>4. About(35, 21) = {1, 2}
      <3>1. 35 \div 21 = 1 /\ ~(35 < 21)
        OBVIOUS
      <3>2. \A n \in 1..2 : n * 21 - 35 \in (1 - 21)..(21 - 1)
        OBVIOUS
      <3> QED BY <3>1, <3>2 DEF About
    <2> QED BY <1>5, <2>2, <2>3, <2>4 DEF OnLengths, OffLengths
  <1> QED BY <1>2, <1>3, <1>4, <1>5 DEF OnLengths, OffLengths

\* What _build_compressor_segments appends.
Planned == [start : Nat, end : Nat, on : BOOLEAN, degraded : BOOLEAN]

\* The segments follow each other from the first row on, in turns on and off,
\* with lengths drawn for where each starts unless midnight cuts it.
Scheduling ==
  source = "demo" =>
    /\ day \in 0..LastDay
    /\ segments \in Seq(Planned)
    /\ \A k \in 1..Len(segments) :
         /\ segments[k].start = IF k = 1 THEN 0 ELSE segments[k - 1].end
         /\ segments[k].start < segments[k].end /\ segments[k].end <= DemoRows
         /\ segments[k].on <=> k % 2 = 1
         /\ segments[k].degraded <=> Degraded(segments[k].start)
         /\ \E n \in IF k % 2 = 1 THEN OnLengths(segments[k].start)
                     ELSE OffLengths(segments[k].start) :
              segments[k].end = IF segments[k].start + n <= DemoRows THEN segments[k].start + n
                                ELSE DemoRows

\* How far the day is planned.
LEMMA ScheduledIs ==
  ASSUME source = "demo", Scheduling
  PROVE  /\ Scheduled = IF Len(segments) = 0 THEN 0 ELSE segments[Len(segments)].end
         /\ Scheduled \in Nat /\ Scheduled <= DemoRows /\ Len(segments) \in Nat
  <1>1. /\ segments \in Seq(Planned) /\ Len(segments) \in Nat
        /\ (segments = <<>> <=> Len(segments) = 0)
    BY LenProperties, EmptySeq DEF Scheduling
  <1>2. CASE Len(segments) = 0
    BY <1>1, <1>2, DemoLength DEF Scheduled
  <1>3. CASE Len(segments) # 0
    <2>1. Len(segments) \in 1..Len(segments)
      BY <1>1, <1>3
    <2>2. segments[Len(segments)] \in Planned
      BY <1>1, <2>1, ElementOfSeq
    <2>3. segments[Len(segments)].end \in Nat
      BY <2>2 DEF Planned
    <2>4. segments[Len(segments)].end <= DemoRows
      BY <2>1 DEF Scheduling
    <2> QED BY <1>1, <1>3, <2>3, <2>4 DEF Scheduled, Last
  <1> QED BY <1>2, <1>3

\* The next segment keeps the plan what it is.
LEMMA ScheduleStep ==
  ASSUME Scheduling, Schedule
  PROVE  Scheduling'
  <1>1. /\ source = "demo" /\ UNCHANGED <<source, day, dep>> /\ Scheduled < DemoRows
        /\ day \in 0..LastDay
    BY DEF Schedule, CompressorSegment, Scheduling
  <1> DEFINE n == Len(segments)
             t == Scheduled
             T == DemoRows
             On == n % 2 = 0
  <1>2. PICK l \in (IF On THEN OnLengths(t) ELSE OffLengths(t)) :
          segments' = Append(segments, [start |-> t, end |-> Min({t + l, T}),
                                        on |-> On, degraded |-> Degraded(t)])
    BY DEF Schedule, CompressorSegment
  <1>3. t \in Nat /\ t < T /\ T \in Nat /\ n \in Nat /\ segments \in Seq(Planned)
        /\ t = IF n = 0 THEN 0 ELSE segments[n].end
    BY <1>1, ScheduledIs, DemoLength DEF Scheduling
  <1> HIDE DEF t, T
  <1>4. l \in Nat \ {0}
    BY <1>1, <1>2, <1>3, LengthsAre
  <1> DEFINE end == Min({t + l, T})
             s == [start |-> t, end |-> end, on |-> On, degraded |-> Degraded(t)]
  <1>5. end = IF t + l <= T THEN t + l ELSE T
    BY <1>3, <1>4, OfTwo
  <1> HIDE DEF end
  <1>6. end \in Nat /\ t < end /\ end <= T
    BY <1>3, <1>4, <1>5
  <1>7. s \in Planned
    <2>1. Degraded(t) \in BOOLEAN /\ On \in BOOLEAN
      BY DEF Degraded
    <2> QED BY <1>3, <1>6, <2>1 DEF Planned
  <1>8. s.start = t /\ s.end = end /\ (s.on <=> On) /\ (s.degraded <=> Degraded(t))
    OBVIOUS
  <1>9. segments' = Append(segments, s)
    BY <1>2 DEF end
  <1> HIDE DEF s
  <1>10. /\ segments' \in Seq(Planned) /\ Len(segments') = n + 1 /\ segments'[n + 1] = s
         /\ \A k \in 1..n : segments'[k] = segments[k]
    BY <1>3, <1>7, <1>9, AppendProperties
  <1>11. \A x \in Nat : /\ OnLengths(x)' = OnLengths(x) /\ OffLengths(x)' = OffLengths(x)
                        /\ Degraded(x)' <=> Degraded(x)
    BY <1>1 DEF OnLengths, OffLengths, Degraded, Degradation
  <1>12. ASSUME NEW k \in 1..Len(segments')
         PROVE  /\ segments'[k].start = IF k = 1 THEN 0 ELSE segments'[k - 1].end
                /\ segments'[k].start < segments'[k].end /\ segments'[k].end <= T
                /\ segments'[k].on <=> k % 2 = 1
                /\ segments'[k].degraded <=> Degraded(segments'[k].start)
                /\ \E x \in IF k % 2 = 1 THEN OnLengths(segments'[k].start)
                            ELSE OffLengths(segments'[k].start) :
                     segments'[k].end = IF segments'[k].start + x <= T THEN segments'[k].start + x
                                        ELSE T
                /\ segments'[k].start \in Nat
    <2>1. CASE k \in 1..n
      <3>1. segments'[k] = segments[k] /\ (k # 1 => k - 1 \in 1..n)
        BY <1>3, <1>10, <2>1
      <3>2. k # 1 => segments'[k - 1] = segments[k - 1]
        BY <1>10, <3>1
      <3>3. segments[k] \in Planned
        BY <1>3, <2>1, ElementOfSeq
      <3>4. segments[k].start \in Nat
        BY <3>3 DEF Planned
      <3> QED BY <1>1, <2>1, <3>1, <3>2, <3>4, ZenonT(60) DEF Scheduling, T
    <2>2. CASE k = n + 1
      <3>1. n # 0 => n \in 1..n /\ segments'[n] = segments[n] /\ k - 1 = n
        BY <1>3, <1>10, <2>2
      <3>2. segments'[k] = s
        BY <1>10, <2>2
      <3>3. s.start = IF k = 1 THEN 0 ELSE segments'[k - 1].end
        <4>1. CASE n = 0
          BY <1>3, <1>8, <2>2, <4>1
        <4>2. CASE n # 0
          BY <1>3, <1>8, <2>2, <3>1, <4>2
        <4> QED BY <4>1, <4>2
      <3>4. On <=> k % 2 = 1
        BY <1>3, <2>2
      <3>5. l \in IF k % 2 = 1 THEN OnLengths(t) ELSE OffLengths(t)
        BY <1>2, <3>4
      <3> HIDE DEF On
      <3> QED BY <1>3, <1>5, <1>6, <1>8, <3>2, <3>3, <3>4, <3>5
    <2>3. k \in 1..n \/ k = n + 1
      BY <1>3, <1>10
    <2> QED BY <2>1, <2>2, <2>3
  <1>13. DemoRows' = T
    BY DEF T
  <1> QED BY <1>1, <1>10, <1>11, <1>12, <1>13 DEF Scheduling

\* What a segment of the schedule is.
LEMMA SegmentIs ==
  ASSUME source = "demo", Scheduling, NEW k \in 1..Len(segments)
  PROVE  /\ segments[k].start \in Nat /\ segments[k].end \in Nat
         /\ segments[k].start < segments[k].end /\ segments[k].end <= DemoRows
         /\ segments[k].start = IF k = 1 THEN 0 ELSE segments[k - 1].end
         /\ segments[k].on <=> k % 2 = 1
         /\ segments[k].degraded <=> Degraded(segments[k].start)
         /\ Len(segments) \in Nat
  <1>1. segments \in Seq(Planned) /\ segments[k] \in Planned /\ Len(segments) \in Nat
    BY ElementOfSeq, LenProperties DEF Scheduling
  <1>2. segments[k].start \in Nat /\ segments[k].end \in Nat
    BY <1>1 DEF Planned
  <1> QED BY <1>1, <1>2 DEF Scheduling

\* The segments one after the other.
LEMMA SegmentsInTurn ==
  ASSUME source = "demo", Scheduling,
         NEW c \in 1..Len(segments), NEW d \in 1..Len(segments), c < d
  PROVE  segments[c].end <= segments[d].start
  <1> DEFINE n == Len(segments)
             t == [k \in 1..n |-> segments[k].start]
  <1>1. n \in Nat
    BY ScheduledIs
  <1>2. \A k \in 1..n : /\ segments[k].start \in Nat /\ segments[k].end \in Nat
                        /\ segments[k].start < segments[k].end
    BY SegmentIs
  <1>3. \A k \in 1..(n - 1) : segments[k + 1].start = segments[k].end
    <2> SUFFICES ASSUME NEW k \in 1..(n - 1) PROVE segments[k + 1].start = segments[k].end
      OBVIOUS
    <2> DEFINE e == k + 1
    <2>1. e \in 1..n /\ e # 1 /\ e - 1 = k
      BY <1>1
    <2> HIDE DEF e
    <2>2. segments[e].start = IF e = 1 THEN 0 ELSE segments[e - 1].end
      BY <2>1, SegmentIs
    <2> QED BY <2>1, <2>2 DEF e
  <1>4. t \in [1..n -> Int]
    BY <1>2
  <1>5. \A k \in 1..(n - 1) : t[k] <= t[k + 1]
    <2> SUFFICES ASSUME NEW k \in 1..(n - 1) PROVE t[k] <= t[k + 1]
      OBVIOUS
    <2>1. k \in 1..n /\ k + 1 \in 1..n
      BY <1>1
    <2>2. segments[k].start <= segments[k + 1].start
      BY <1>2, <1>3, <2>1
    <2> QED BY <2>1, <2>2
  <1>6. c + 1 \in 1..n /\ d \in (c + 1)..n /\ c \in 1..(n - 1)
    BY <1>1
  <1>7. t[c + 1] <= t[d]
    <2> DEFINE e == c + 1
    <2>1. e \in 1..n /\ d \in e..n
      BY <1>6
    <2> HIDE DEF t, e
    <2>2. t[e] <= t[d]
      BY <1>1, <1>4, <1>5, <2>1, NeverFalls
    <2> QED BY <2>2 DEF e
  <1>8. t[c + 1] = segments[c].end /\ t[d] = segments[d].start
    BY <1>3, <1>6
  <1> QED BY <1>7, <1>8

\* A row is in one segment at most.
LEMMA OneSegment ==
  ASSUME source = "demo", Scheduling, NEW t \in Int,
         NEW k \in 1..Len(segments), NEW l \in 1..Len(segments),
         segments[k].start <= t, t < segments[k].end,
         segments[l].start <= t, t < segments[l].end
  PROVE  k = l
  <1>1. /\ segments[k].start \in Nat /\ segments[k].end \in Nat
        /\ segments[l].start \in Nat /\ segments[l].end \in Nat /\ Len(segments) \in Nat
    BY SegmentIs
  <1>2. ~(k < l)
    <2> SUFFICES ASSUME k < l PROVE FALSE
      OBVIOUS
    <2>1. segments[k].end <= segments[l].start
      BY SegmentsInTurn
    <2> QED BY <1>1, <2>1
  <1>3. ~(l < k)
    <2> SUFFICES ASSUME l < k PROVE FALSE
      OBVIOUS
    <2>1. segments[l].end <= segments[k].start
      BY SegmentsInTurn
    <2> QED BY <1>1, <2>1
  <1> QED BY <1>1, <1>2, <1>3

\* A row of a running segment.
OnAt(t) ==
  \E k \in 1..Len(segments) :
    segments[k].on /\ segments[k].start <= t /\ t < segments[k].end

\* Every row of a whole day is in one segment.
LEMMA SegmentAtIs ==
  ASSUME source = "demo", Scheduling, Scheduled = DemoRows, NEW t \in Nat, t < DemoRows
  PROVE  \E k \in 1..Len(segments) :
           /\ segments[k].start <= t /\ t < segments[k].end
           /\ SegmentAt(t) = segments[k]
           /\ segments[k].on <=> OnAt(t)
  <1> DEFINE n == Len(segments)
             T == {k \in 1..n : t < segments[k].end}
  <1>1. n \in Nat /\ Scheduled = (IF n = 0 THEN 0 ELSE segments[n].end) /\ DemoRows \in Nat
    BY ScheduledIs, DemoLength
  <1>2. n \in T /\ T \subseteq Nat
    BY <1>1
  <1>3. PICK k \in T : \A l \in T : k <= l
    <2> HIDE DEF T
    <2> QED BY <1>2, LeastNatural
  <1>4. k \in 1..n /\ segments[k].start <= t /\ t < segments[k].end
    <2>1. segments[k].start = IF k = 1 THEN 0 ELSE segments[k - 1].end
      BY <1>3, SegmentIs
    <2>2. CASE k = 1
      BY <1>3, <2>1, <2>2
    <2>3. CASE k # 1
      <3>1. k - 1 \in 1..n /\ k - 1 \notin T
        BY <1>1, <1>3, <2>3
      <3>2. segments[k - 1].end \in Nat /\ ~(t < segments[k - 1].end)
        BY <3>1, SegmentIs
      <3> QED BY <1>3, <2>1, <2>3, <3>2
    <2> QED BY <2>2, <2>3
  <1> HIDE DEF T
  <1>5. \A l \in 1..n : segments[l].start <= t /\ t < segments[l].end => l = k
    BY <1>4, OneSegment
  <1>6. SegmentAt(t) = segments[k]
    <2>1. (CHOOSE l \in 1..n : segments[l].start <= t /\ t < segments[l].end) = k
      BY <1>4, <1>5
    <2> QED BY <2>1 DEF SegmentAt
  <1>7. segments[k].on <=> OnAt(t)
    BY <1>4, <1>5 DEF OnAt
  <1> QED BY <1>4, <1>6, <1>7

\* What the rows and readings of a day hold.
Told ==
  source = "demo" /\ dep # NoData =>
    /\ Scheduled = DemoRows /\ Len(dep.channels) = DemoRows
    /\ \A k \in 1..DemoRows :
         /\ dep.channels[k].ts = k - 1
         /\ dep.channels[k].cmd = 1 <=> OnAt(k - 1)
         /\ dep.channels[k].beater = 1 <=> BeaterOn(k - 1)
         /\ dep.channels[k].amps = IF BeaterOn(k - 1) THEN 300 ELSE 5
         /\ dep.channels[k].drip = NaN
         /\ day <= DegradationStartDay /\ OnAt(k - 1) => dep.channels[k].delta = 120
    /\ dep.vib \in Seq([ts : Nat, rms : {346, 384, 577}])

\* The rows of make_channels_for_day.
LEMMA ToldChannels ==
  ASSUME source = "demo", Scheduling, Scheduled = DemoRows
  PROVE  /\ Len(MakeDemoDay.channels) = DemoRows
         /\ \A k \in 1..DemoRows :
              /\ MakeDemoDay.channels[k].ts = k - 1
              /\ MakeDemoDay.channels[k].cmd = 1 <=> OnAt(k - 1)
              /\ MakeDemoDay.channels[k].beater = 1 <=> BeaterOn(k - 1)
              /\ MakeDemoDay.channels[k].amps = IF BeaterOn(k - 1) THEN 300 ELSE 5
              /\ MakeDemoDay.channels[k].drip = NaN
              /\ day <= DegradationStartDay /\ OnAt(k - 1) => MakeDemoDay.channels[k].delta = 120
  <1>1. MakeDemoDay.channels = ChannelsDay /\ Len(MakeDemoDay.channels) = DemoRows
        /\ DemoRows \in Nat
    BY DemoLength DEF MakeDemoDay, Segment
  <1>2. ASSUME NEW k \in 1..DemoRows
        PROVE  /\ ChannelsDay[k].ts = k - 1
               /\ ChannelsDay[k].cmd = 1 <=> OnAt(k - 1)
               /\ ChannelsDay[k].beater = 1 <=> BeaterOn(k - 1)
               /\ ChannelsDay[k].amps = IF BeaterOn(k - 1) THEN 300 ELSE 5
               /\ ChannelsDay[k].drip = NaN
               /\ day <= DegradationStartDay /\ OnAt(k - 1) => ChannelsDay[k].delta = 120
    <2> DEFINE t == k - 1
               at == [j \in 1..DemoRows |-> SegmentAt(j - 1)]
               temp == CylinderTemp([j \in 1..DemoRows |-> at[j].on])
    <2>1. t \in Nat /\ t < DemoRows
      BY <1>1
    <2> HIDE DEF temp
    <2>2. ChannelsDay[k] =
            [ts |-> t, cmd |-> IF SegmentAt(t).on THEN 1 ELSE 0,
             beater |-> IF BeaterOn(t) THEN 1 ELSE 0,
             tcc |-> IF temp[k] < -20 THEN 1 ELSE 0,
             delta |-> IF SegmentAt(t).on THEN DemoDelta(SegmentAt(t)) ELSE 0,
             amps |-> IF BeaterOn(t) THEN 300 ELSE 5, drip |-> NaN]
      BY DEF ChannelsDay, temp
    <2> HIDE DEF t
    <2>3. PICK j \in 1..Len(segments) : /\ SegmentAt(t) = segments[j]
                                        /\ segments[j].on <=> OnAt(t)
      BY <2>1, SegmentAtIs
    <2>4. segments[j].degraded <=> Degraded(segments[j].start)
      BY SegmentIs
    <2>5. day <= DegradationStartDay => ~Degraded(segments[j].start)
      BY DegradationIs DEF Scheduling, Degraded
    <2>6. day <= DegradationStartDay => DemoDelta(SegmentAt(t)) = 120
      BY <2>3, <2>4, <2>5 DEF DemoDelta
    <2>7. SegmentAt(t).on <=> OnAt(t)
      BY <2>3
    <2> QED BY <2>2, <2>6, <2>7 DEF t
  <1> QED BY <1>1, <1>2

\* A row of vib_summary: a quiet one, one of the beater, the knock.
Reading == [ts : Nat, rms : {346, 384, 577}]

\* A part of a sequence, in order.
LEMMA WherePart ==
  ASSUME NEW S, NEW s \in Seq(S), NEW at \in SUBSET (1..Len(s))
  PROVE  Where(s, at) \in Seq(S)
  <1> DEFINE n == Len(s)
             c == Cardinality(at)
  <1>1. n \in Nat /\ at \in SUBSET (1..n) /\ s \in [1..n -> S]
    BY LenProperties
  <1> HIDE DEF n
  <1>2. c \in Nat /\ \A k \in 1..c : Nth(at, k) \in at
    <2>1. c \in 0..n /\ \A k \in 1..c : Nth(at, k) \in at
      BY <1>1, WhereIs
    <2> QED BY <1>1, <2>1
  <1>3. \A k \in 1..c : s[Nth(at, k)] \in S
    BY <1>1, <1>2
  <1>4. Where(s, at) = [k \in 1..c |-> s[Nth(at, k)]]
    BY DEF Where
  <1> HIDE DEF c
  <1> QED BY <1>2, <1>3, <1>4

\* The readings of make_vib_summary_for_day.
LEMMA ToldReadings == MakeDemoDay.vib \in Seq(Reading)
  <1> DEFINE at == {t \in 0..(DemoRows - 1) : t % 10 = 0}
             c == Cardinality(at)
             readings == [n \in 1..c |->
                     [ts |-> (n - 1) * 10, rms |-> IF BeaterOn((n - 1) * 10) THEN 384 ELSE 346]]
             knock == [ts |-> KnockAt, rms |-> 577]
             before == {n \in DOMAIN readings : readings[n].ts <= KnockAt}
  <1>1. VibSummaryDay = IF day # KnockDay THEN readings
                        ELSE Where(readings, before) \o <<knock>>
                               \o Where(readings, DOMAIN readings \ before)
    BY DEF VibSummaryDay
  <1>2. c \in Nat
    <2> DEFINE last == DemoRows - 1
    <2>1. last \in Int
      BY DemoLength
    <2> HIDE DEF last
    <2>2. IsFiniteSet(0..last)
      BY <2>1, FS_Interval
    <2> DEFINE all == 0..last
    <2>3. at \subseteq all
      BY DEF last
    <2> HIDE DEF at
    <2> QED BY <2>2, <2>3, FS_Subset, FS_CardinalityType
  <1> HIDE DEF c
  <1>3. \A n \in 1..c : readings[n] \in Reading
    BY <1>2 DEF Reading
  <1>4. readings \in Seq(Reading) /\ DOMAIN readings = 1..Len(readings)
    <2>1. DOMAIN readings = 1..c
      OBVIOUS
    <2>2. readings \in [1..c -> Reading]
      BY <1>3
    <2> HIDE DEF readings
    <2>3. readings \in Seq(Reading)
      BY <1>2, <2>2
    <2> QED BY <2>3, LenProperties
  <1>5. knock \in Reading
    BY DemoAssumption DEF Reading
  <1>6. before \in SUBSET (1..Len(readings))
    BY <1>4
  <1> HIDE DEF readings, before, knock
  <1>7. Where(readings, before) \in Seq(Reading)
    BY <1>4, <1>6, WherePart
  <1>8. Where(readings, DOMAIN readings \ before) \in Seq(Reading)
    <2> DEFINE after == DOMAIN readings \ before
    <2>1. after \in SUBSET (1..Len(readings))
      BY <1>4
    <2> HIDE DEF after
    <2>2. Where(readings, after) \in Seq(Reading)
      BY <1>4, <2>1, WherePart
    <2> QED BY <2>2 DEF after
  <1>9. <<knock>> \in Seq(Reading)
    BY <1>5
  <1>10. VibSummaryDay \in Seq(Reading)
    <2> DEFINE x == Where(readings, before)
               y == Where(readings, DOMAIN readings \ before)
    <2>1. x \in Seq(Reading) /\ y \in Seq(Reading)
      BY <1>7, <1>8
    <2> HIDE DEF x, y
    <2>2. x \o <<knock>> \in Seq(Reading)
      BY <1>9, <2>1, ConcatProperties
    <2>3. x \o <<knock>> \o y \in Seq(Reading)
      BY <2>1, <2>2, ConcatProperties
    <2> QED BY <1>1, <1>4, <2>3 DEF x, y
  <1> QED BY <1>10 DEF MakeDemoDay, Segment

\* The inductive invariant of the demo.
DemoInv == Scheduling /\ Told

\* Every step keeps it.
LEMMA DemoStep ==
  ASSUME IInv, DemoInv, [Next]_vars
  PROVE  DemoInv'
  <1>1. CASE Schedule
    <2>1. dep' = NoData
      BY <1>1 DEF Schedule
    <2> QED BY <1>1, <2>1, ScheduleStep DEF DemoInv, Told, NoData
  <1>2. CASE source = "demo" /\ MakeSegment
    <2>1. UNCHANGED <<source, day, segments>> /\ dep' = MakeDemoDay /\ Scheduled = DemoRows
      BY <1>2 DEF MakeSegment, Sources, HourSources, WeekSources, demo
    <2>2. Scheduling'
      BY <2>1, ZenonT(60) DEF DemoInv, Scheduling, OnLengths, OffLengths, Degraded, Degradation
    <2>3. Scheduled' = DemoRows
      BY <2>1 DEF Scheduled
    <2>4. \A t \in Int : (BeaterOn(t)' <=> BeaterOn(t)) /\ (OnAt(t)' <=> OnAt(t))
      BY <2>1 DEF BeaterOn, BusyNight, OnAt
    <2>5. /\ Len(dep'.channels) = DemoRows
          /\ \A k \in 1..DemoRows :
               /\ dep'.channels[k].ts = k - 1
               /\ dep'.channels[k].cmd = 1 <=> OnAt(k - 1)
               /\ dep'.channels[k].beater = 1 <=> BeaterOn(k - 1)
               /\ dep'.channels[k].amps = IF BeaterOn(k - 1) THEN 300 ELSE 5
               /\ dep'.channels[k].drip = NaN
               /\ day <= DegradationStartDay /\ OnAt(k - 1) => dep'.channels[k].delta = 120
      BY <1>2, <2>1, ToldChannels DEF DemoInv
    <2>6. dep'.vib \in Seq([ts : Nat, rms : {346, 384, 577}])
      BY <2>1, ToldReadings DEF Reading
    <2>7. \A k \in 1..DemoRows : k - 1 \in Int
      BY DemoLength
    <2>8. Told'
      BY <2>1, <2>3, <2>4, <2>5, <2>6, <2>7 DEF Told, DegradationStartDay
    <2> QED BY <2>2, <2>8 DEF DemoInv
  <1>3. CASE UNCHANGED <<source, demo, dep>>
    <2>1. UNCHANGED <<source, day, segments, dep>>
      BY <1>3 DEF demo
    <2>2. Scheduling'
      BY <2>1, ZenonT(60) DEF DemoInv, Scheduling, OnLengths, OffLengths, Degraded, Degradation
    <2>3. Told'
      BY <2>1 DEF DemoInv, Told, NoData, Scheduled, OnAt, BeaterOn, BusyNight
    <2> QED BY <2>2, <2>3 DEF DemoInv
  <1>4. CASE source # "demo" /\ source' = source
    BY <1>4 DEF DemoInv, Scheduling, Told
  <1>5. Schedule \/ (source = "demo" /\ MakeSegment) \/ UNCHANGED <<source, demo, dep>>
        \/ (source # "demo" /\ source' = source)
    <2>1. CASE LogRow \/ LogBurst
      BY <2>1, Apart DEF LogRow, LogBurst
    <2>2. CASE Tile
      BY <2>2 DEF Tile, CycleWindow
    <2>3. CASE MakeSegment
      BY <2>3 DEF MakeSegment
    <2>4. CASE FindRuns \/ UNCHANGED vars
      BY <2>4 DEF FindRuns, vars
    <2> QED BY <2>1, <2>2, <2>3, <2>4 DEF Next
  <1> QED BY <1>1, <1>2, <1>3, <1>4, <1>5

\* A day of the demo is scheduled as its degradation says, and its rows and
\* readings are those of the schedule: what every detector reads of it.
THEOREM DemoInductive == Spec => []DemoInv
  <1>1. Init => DemoInv
    <2> SUFFICES ASSUME Init, source = "demo" PROVE DemoInv
      BY DEF DemoInv, Scheduling, Told, Init
    <2>1. day \in 0..LastDay /\ segments = <<>> /\ dep = NoData
      BY DEF Init, DemoInit
    <2>2. segments \in Seq(Planned) /\ 1..Len(segments) = {}
      BY <2>1, EmptySeq
    <2> QED BY <2>1, <2>2 DEF DemoInv, Scheduling, Told
  <1>2. IInv /\ DemoInv /\ [Next]_vars => DemoInv'
    BY DemoStep
  <1> QED BY <1>1, <1>2, Inductive, PTL DEF Spec

-----------------------------------------------------------------------------
(* What the detectors make of a day of the demo.                           *)

LEMMA DayIs ==
  ASSUME source = "demo", DemoInv, dep # NoData
  PROVE  /\ Len(Rows) = DemoRows /\ DemoRows \in Nat /\ 3 < DemoRows
         /\ \A k \in 1..DemoRows : Rows[k].ts = k - 1
         /\ Period2(Rows) = 2
         /\ \A a, b \in 1..DemoRows : Duration2(Rows, <<a, b>>) = 2 * (b - a) + 2
  <1>1. /\ Len(Rows) = DemoRows /\ DemoRows \in Nat /\ 3 < DemoRows
        /\ \A k \in 1..DemoRows : Rows[k].ts = k - 1
    BY DemoAssumption DEF DemoInv, Told, Rows
  <1> DEFINE n == DemoRows
             D == 1..(n - 1)
             f == [k \in D |-> Rows[k + 1].ts - Rows[k].ts]
  <1>2. Period2(Rows) = 2
    <2>1. IsFiniteSet(D) /\ D # {}
      <3> DEFINE m == n - 1
      <3>1. m \in Nat /\ 1 \in 1..m
        BY <1>1
      <3> HIDE DEF m
      <3>2. IsFiniteSet(1..m) /\ 1..m # {}
        BY <3>1, PlacesFinite
      <3> QED BY <3>2 DEF m
    <2>2. \A k \in D : Rows[k + 1].ts - Rows[k].ts = 1
      <3> SUFFICES ASSUME NEW k \in D PROVE Rows[k + 1].ts - Rows[k].ts = 1
        OBVIOUS
      <3>1. k \in 1..n /\ k + 1 \in 1..n
        BY <1>1
      <3>2. Rows[k].ts = k - 1 /\ Rows[k + 1].ts = (k + 1) - 1
        BY <1>1, <3>1
      <3> QED BY <1>1, <3>1, <3>2
    <2>3. f = [k \in D |-> 1]
      BY <2>2
    <2>4. Period2(Rows) = Median2(f)
      BY <1>1 DEF Period2
    <2> DEFINE one == 1
    <2>5. one \in Int /\ f = [k \in D |-> one]
      BY <2>3
    <2> HIDE DEF f, D, one
    <2>6. f \in [D -> Int] /\ \A k \in D : one <= f[k] /\ f[k] <= one
      BY <2>5
    <2>7. Median2(f) \in Int /\ 2 * one <= Median2(f) /\ Median2(f) <= 2 * one
      BY <2>1, <2>5, <2>6, MedianBetween
    <2> QED BY <2>4, <2>7 DEF one
  <1>3. ASSUME NEW a \in 1..n, NEW b \in 1..n
        PROVE  Duration2(Rows, <<a, b>>) = 2 * (b - a) + 2
    <2>1. Duration2(Rows, <<a, b>>) = 2 * (Rows[b].ts - Rows[a].ts) + 2
      BY <1>2 DEF Duration2
    <2>2. Rows[b].ts = b - 1 /\ Rows[a].ts = a - 1
      BY <1>1
    <2> QED BY <1>1, <2>1, <2>2
  <1> QED BY <1>1, <1>2, <1>3

\* The beater never runs for two rows.
LEMMA BeaterOnce ==
  ASSUME NEW t \in Nat
  PROVE  ~(BeaterOn(t) /\ BeaterOn(t + 1))
  <1> SUFFICES ASSUME BeaterOn(t), BeaterOn(t + 1) PROVE FALSE
    OBVIOUS
  <1> DEFINE gap == IF BusyNight THEN 1 ELSE 3
             opened == IF t >= OpenFrom THEN OpenFrom ELSE 0
  <1>1. CloseAt \in Nat /\ OpenFrom \in Nat /\ CloseAt < OpenFrom
    BY DemoAssumption
  <1>2. IsOpen(t) /\ IsOpen(t + 1) /\ (t - opened) % (gap + 1) = gap
    BY DEF BeaterOn
  <1>3. opened = IF t + 1 >= OpenFrom THEN OpenFrom ELSE 0
    BY <1>1, <1>2 DEF IsOpen
  <1>4. (t + 1 - opened) % (gap + 1) = gap
    <2> DEFINE u == t + 1
               then == IF u >= OpenFrom THEN OpenFrom ELSE 0
    <2>1. (u - then) % (gap + 1) = gap
      BY DEF BeaterOn
    <2>2. then = opened /\ then \in Nat /\ gap \in Nat
      BY <1>1, <1>3
    <2> HIDE DEF then, opened, gap
    <2>3. u - then = t + 1 - opened
      BY <2>2
    <2> QED BY <2>1, <2>3
  <1> DEFINE x == t - opened
  <1>5. x \in Int /\ t + 1 - opened = x + 1
    BY <1>1
  <1> HIDE DEF x, opened
  <1>6. x % (gap + 1) = gap /\ (x + 1) % (gap + 1) = gap
    BY <1>2, <1>4, <1>5 DEF x
  <1>7. CASE BusyNight
    <2>1. x % 2 = 1 /\ (x + 1) % 2 = 1
      BY <1>6, <1>7
    <2> QED BY <1>5, <2>1
  <1>8. CASE ~BusyNight
    <2>1. x % 4 = 3 /\ (x + 1) % 4 = 3
      BY <1>6, <1>8
    <2> QED BY <1>5, <2>1
  <1> QED BY <1>7, <1>8

\* A beater run of one row is too short for the TCC.
LEMMA NoTcc ==
  ASSUME source = "demo", DemoInv, dep # NoData
  PROVE  DetectTccNeverSatisfied(dep) = "none"
  <1> DEFINE n == DemoRows
             S == {Duration2(dep.channels, r) : r \in Unsatisfied(dep.channels)}
             worst2 == Max({0} \union S)
  <1>1. n \in Nat /\ Len(dep.channels) = n
    BY DayIs DEF Rows
  <1>2. ASSUME NEW r \in Unsatisfied(dep.channels) PROVE Duration2(dep.channels, r) = 2
    <2>1. BothOn(dep.channels) =
            [k \in 1..n |-> dep.channels[k].cmd = 1 /\ dep.channels[k].beater = 1]
      BY <1>1 DEF BothOn
    <2>2. Len(BothOn(dep.channels)) = n
      BY <1>1, <2>1
    <2>3. r \in Runs(BothOn(dep.channels))
      BY DEF Unsatisfied
    <2>4. PICK a \in 1..n, b \in 1..n : r = <<a, b>> /\ IsRun(BothOn(dep.channels), a, b)
      BY <2>2, <2>3 DEF Runs
    <2>5. b \in a..n /\ \A k \in a..b : BothOn(dep.channels)[k]
      BY <2>2, <2>4 DEF IsRun
    <2>6. a = b
      <3> SUFFICES ASSUME a < b PROVE FALSE
        BY <1>1, <2>5
      <3>1. a \in 1..n /\ a + 1 \in 1..n /\ a \in a..b /\ a + 1 \in a..b
            /\ a - 1 \in Nat /\ (a + 1) - 1 = (a - 1) + 1
        BY <1>1, <2>5
      <3>2. dep.channels[a].beater = 1 /\ dep.channels[a + 1].beater = 1
        BY <2>1, <2>5, <3>1
      <3>3. BeaterOn(a - 1) /\ BeaterOn((a + 1) - 1)
        BY <3>1, <3>2 DEF DemoInv, Told
      <3> DEFINE t == a - 1
      <3>4. t \in Nat /\ BeaterOn(t) /\ BeaterOn(t + 1)
        BY <3>1, <3>3
      <3> HIDE DEF t
      <3> QED BY <3>4, BeaterOnce
    <2>7. Duration2(dep.channels, <<a, b>>) = 2 * (b - a) + 2
      BY DayIs DEF Rows
    <2> QED BY <1>1, <2>4, <2>6, <2>7
  <1>3. worst2 \in {0, 2}
    <2>1. S \subseteq {2}
      BY <1>2
    <2> HIDE DEF S
    <2>2. S \in SUBSET Int /\ IsFiniteSet(S)
      <3> DEFINE two == 2
                 T == {two}
      <3>1. IsFiniteSet(T) /\ T \subseteq Int
        <4>1. two \in Int
          OBVIOUS
        <4> HIDE DEF two
        <4> QED BY <4>1, FS_Singleton
      <3>2. S \subseteq T
        BY <2>1
      <3> HIDE DEF T
      <3> QED BY <3>1, <3>2, FS_Subset
    <2>3. worst2 # 0 => worst2 \in S
      BY <2>2, MaxOrZero
    <2> QED BY <2>1, <2>3
  <1>4. DetectTccNeverSatisfied(dep) = Result(worst2 >= 2 * TccMinRun, worst2 >= 4 * TccMinRun)
    BY DEF DetectTccNeverSatisfied
  <1> HIDE DEF worst2
  <1>5. ~(worst2 >= 2 * TccMinRun)
    BY <1>3, TccAssumption, StoryAssumption
  <1> QED BY <1>4, <1>5 DEF Result

\* No reading is three times the level around it: not the knock either.
LEMMA NoKnock ==
  ASSUME source = "demo", DemoInv, dep # NoData
  PROVE  DetectKnocking(dep) = "none"
  <1> DEFINE vib == dep.vib
             n == Len(vib)
             h == KnockRollingWindow \div 2
  <1>1. vib \in Seq(Reading) /\ n \in Nat /\ vib \in [1..n -> Reading]
    <2>1. vib \in Seq(Reading)
      BY DEF DemoInv, Told, Reading
    <2> HIDE DEF vib
    <2> QED BY <2>1, LenProperties
  <1>2. h \in Nat
    BY KnockAssumption
  <1> HIDE DEF vib, h
  <1>3. ASSUME NEW k \in 1..n PROVE k \notin Spikes(vib)
    <2> DEFINE a == Max({1, k - h})
               b == Min({n, k + h})
               w == SubSeq(vib, a, b)
               f == Column(w, "rms")
               base == Baseline2(vib, k)
    <2>1. a \in 1..k /\ a \in Int
      <3> DEFINE one == 1
                 x == k - h
      <3>1. one \in Int /\ x \in Int /\ x <= k
        BY <1>1, <1>2
      <3> HIDE DEF one, x
      <3>2. Max({one, x}) = IF one <= x THEN x ELSE one
        BY <3>1, OfTwo
      <3> QED BY <1>1, <3>1, <3>2 DEF one, x
    <2>2. b \in k..n /\ b \in Int
      <3> DEFINE x == k + h
      <3>1. n \in Int /\ x \in Int /\ k <= x
        BY <1>1, <1>2
      <3> HIDE DEF x, n
      <3>2. Min({n, x}) = IF n <= x THEN n ELSE x
        BY <3>1, OfTwo
      <3> QED BY <1>1, <3>1, <3>2 DEF x
    <2>3. base = IF Len(w) < KnockMinPeriods THEN 0 ELSE Median2(f)
      BY DEF Baseline2, h
    <2> HIDE DEF a, b, base
    <2>4. w \in Seq(Reading) /\ Len(w) = b - a + 1 /\ Len(w) \in Nat \ {0}
      <3>1. \A j \in a..b : vib[j] \in Reading
        <4> SUFFICES ASSUME NEW j \in a..b PROVE vib[j] \in Reading
          OBVIOUS
        <4>1. j \in 1..n
          BY <1>1, <2>1, <2>2
        <4> HIDE DEF n
        <4> QED BY <1>1, <4>1
      <3>2. a <= b /\ b - a + 1 \in Nat \ {0}
        BY <1>1, <2>1, <2>2
      <3> HIDE DEF n
      <3>3. SubSeq(vib, a, b) \in Seq(Reading)
            /\ Len(SubSeq(vib, a, b)) = IF a <= b THEN b - a + 1 ELSE 0
        BY <2>1, <2>2, <3>1, SubSeqProperties
      <3> QED BY <3>2, <3>3
    <2> HIDE DEF w
    <2> DEFINE l == Len(w)
               D == 1..l
    <2>5. f \in [D -> Int] /\ \A j \in D : 346 <= f[j] /\ f[j] <= 577
      <3>1. f = [j \in D |-> w[j]["rms"]]
        BY DEF Column
      <3>2. \A j \in D : w[j] \in Reading
        BY <2>4, ElementOfSeq
      <3>3. \A j \in D : w[j]["rms"] \in {346, 384, 577}
        BY <3>2 DEF Reading
      <3> HIDE DEF D
      <3> QED BY <3>1, <3>3
    <2>6. IsFiniteSet(D) /\ D # {}
      <3>1. l \in Nat \ {0}
        BY <2>4
      <3> HIDE DEF l
      <3>2. IsFiniteSet(1..l) /\ 1 \in 1..l
        BY <3>1, PlacesFinite
      <3> QED BY <3>2
    <2>7. Median2(f) \in Int /\ 2 * 346 <= Median2(f)
      <3> DEFINE lo == 346
                 hi == 577
      <3>1. lo \in Int /\ hi \in Int /\ \A j \in D : lo <= f[j] /\ f[j] <= hi
        BY <2>5
      <3> HIDE DEF lo, hi, D, f
      <3>2. Median2(f) \in Int /\ 2 * lo <= Median2(f)
        BY <2>5, <2>6, <3>1, MedianBetween
      <3> QED BY <3>2 DEF lo
    <2>8. vib[k] \in Reading
      BY <1>1
    <2>9. vib[k].rms \in {346, 384, 577}
      BY <2>8 DEF Reading
    <2>10. base = 0 \/ (base \in Int /\ 2 * 346 <= base)
      BY <2>3, <2>7
    <2>11. ~(base > 0 /\ 2 * vib[k].rms >= 3 * base)
      BY <2>9, <2>10
    <2> QED BY <2>11 DEF Spikes, KnockFactor, base
  <1>4. Spikes(vib) = {}
    BY <1>3 DEF Spikes
  <1> DEFINE times == [k \in Spikes(dep.vib) |-> dep.vib[k].ts]
             most == MaxCluster(times, KnockClusterSpan)
  <1>5. Spikes(dep.vib) = {}
    BY <1>4 DEF vib
  <1>6. {Cardinality({u \in DOMAIN times : times[t] <= times[u] /\ times[u] < times[t] + KnockClusterSpan}) :
           t \in DOMAIN times} = {}
    BY <1>5
  <1>7. most = 0
    <2> DEFINE E == {}
    <2>1. E \in SUBSET Int /\ IsFiniteSet(E)
      BY FS_EmptySet
    <2>2. Max({0} \union E) # 0 => Max({0} \union E) \in E
      <3> HIDE DEF E
      <3> QED BY <2>1, MaxOrZero
    <2>3. most = Max({0} \union E)
      BY <1>6 DEF MaxCluster
    <2> QED BY <2>2, <2>3
  <1>8. DetectKnocking(dep) = Result(most >= KnockMinCluster, most >= 3 * KnockMinCluster)
    BY DEF DetectKnocking
  <1> HIDE DEF most
  <1> QED BY <1>7, <1>8 DEF Result, KnockMinCluster

\* What the beater drew while it ran, and when.
LEMMA DayLoaded ==
  ASSUME source = "demo", DemoInv, dep # NoData
  PROVE  /\ Len(Loaded(dep.channels)) \in Nat
         /\ \A k \in 1..Len(Loaded(dep.channels)) :
              /\ Loaded(dep.channels)[k][1] \in 0..(DemoRows - 1)
              /\ Loaded(dep.channels)[k][2] = 300
  <1> DEFINE n == DemoRows
             all == [k \in 1..n |-> <<dep.channels[k].ts, dep.channels[k].amps>>]
             at == {k \in 1..n : dep.channels[k].beater = 1 /\ dep.channels[k].amps # NaN}
             loaded == Where(all, at)
  <1>1. n \in Nat /\ Len(dep.channels) = n
    BY DayIs DEF Rows
  <1>2. Loaded(dep.channels) = loaded
    BY <1>1 DEF Loaded
  <1>3. ASSUME NEW k \in at PROVE all[k][1] \in 0..(n - 1) /\ all[k][2] = 300
    <2>1. k \in 1..n /\ dep.channels[k].beater = 1
      OBVIOUS
    <2>2. dep.channels[k].ts = k - 1 /\ dep.channels[k].amps = 300
      BY <2>1 DEF DemoInv, Told
    <2> QED BY <1>1, <2>1, <2>2
  <1>4. at \in SUBSET (1..n)
    OBVIOUS
  <1> HIDE DEF at, all, n
  <1>5. /\ Len(loaded) = Cardinality(at) /\ Cardinality(at) \in 0..n
        /\ \A k \in 1..Cardinality(at) : Nth(at, k) \in at /\ loaded[k] = all[Nth(at, k)]
    BY <1>1, <1>4, WhereIs
  <1>6. \A k \in 1..Len(loaded) : loaded[k][1] \in 0..(n - 1) /\ loaded[k][2] = 300
    BY <1>3, <1>5
  <1>7. Len(loaded) \in Nat
    BY <1>1, <1>5
  <1> QED BY <1>2, <1>6, <1>7 DEF n

\* The beater always draws its current.
LEMMA NoBelt ==
  ASSUME source = "demo", DemoInv, dep # NoData
  PROVE  DetectBeltSlip(dep) = "none"
  <1> DEFINE loaded == Loaded(dep.channels)
             n == Len(loaded)
             slack == {k \in 1..n : loaded[k][2] < BeltFloor}
             unloaded == Cardinality(slack)
  <1>1. slack = {}
    BY DayLoaded DEF BeltFloor
  <1>2. unloaded = 0
    BY <1>1, FS_EmptySet
  <1>3. DetectBeltSlip(dep) =
          IF n < BeltMinSamples THEN "none"
          ELSE Result(100 * unloaded >= BeltFraction * n, 100 * unloaded >= 85 * n)
    BY DEF DetectBeltSlip
  <1>4. n \in Nat /\ BeltMinSamples \in Nat \ {0}
    BY DayLoaded, StoryAssumption
  <1> HIDE DEF n, unloaded
  <1>5. CASE n >= BeltMinSamples
    <2>1. ~(100 * unloaded >= BeltFraction * n)
      BY <1>2, <1>4, <1>5 DEF BeltFraction
    <2> QED BY <1>3, <1>4, <1>5, <2>1 DEF Result
  <1>6. CASE n < BeltMinSamples
    BY <1>3, <1>6
  <1> QED BY <1>4, <1>5, <1>6

\* A day has too few days for a trend.
LEMMA NoMotor ==
  ASSUME source = "demo", DemoInv, dep # NoData
  PROVE  DetectMotorDegradation(dep) = "none"
  <1> DEFINE loaded == Loaded(dep.channels)
             days == {loaded[k][1] \div Day : k \in 1..Len(loaded)}
             m == MotorMinDays - 1
             slope == MotorTrend(dep.channels)
  <1>1. m \in Nat /\ m < MotorMinDays /\ DemoRows <= Day * m
    BY TrendAssumption, StoryAssumption
  <1>2. days \subseteq 0..(m - 1)
    <2> SUFFICES ASSUME NEW k \in 1..Len(loaded) PROVE loaded[k][1] \div Day \in 0..(m - 1)
      OBVIOUS
    <2> DEFINE t == loaded[k][1]
    <2>1. t \in Nat /\ t < DemoRows /\ Day \in Nat \ {0} /\ DemoRows \in Nat
      BY DayLoaded, DayAssumption, DemoLength
    <2> HIDE DEF t, m
    <2>2. Day * m \in Int
      BY <1>1, <2>1
    <2>3. t < Day * m
      BY <1>1, <2>1, <2>2
    <2>4. t \div Day < m
      BY <1>1, <2>1, <2>3, QuotientBelow
    <2>5. t \div Day \in Nat
      BY <2>1
    <2>6. t \div Day \in 0..(m - 1)
      BY <1>1, <2>4, <2>5
    <2> QED BY <2>6 DEF t
  <1>3. Cardinality(days) \in Nat /\ Cardinality(days) <= m
    <2> DEFINE z == 0
    <2>1. z \in Nat /\ z <= m
      BY <1>1
    <2> HIDE DEF z, m, days
    <2>2. IsFiniteSet(z..(m - 1)) /\ Cardinality(z..(m - 1)) = m - z
      BY <1>1, <2>1, SpanOf
    <2> DEFINE T == z..(m - 1)
    <2>3. days \subseteq T
      BY <1>2 DEF z
    <2> HIDE DEF T
    <2>4. IsFiniteSet(T) /\ Cardinality(T) = m
      <3>1. m - z = m
        BY <1>1 DEF z
      <3> QED BY <2>2, <3>1 DEF T
    <2> QED BY <2>3, <2>4, FS_Subset, FS_CardinalityType
  <1>4. DetectMotorDegradation(dep) =
          IF Cardinality(days) < MotorMinDays THEN "none"
          ELSE Result(slope >= MotorSlope * Unit, slope >= 3 * MotorSlope * Unit)
    BY DEF DetectMotorDegradation
  <1> HIDE DEF days, m, slope
  <1>5. Cardinality(days) < MotorMinDays
    BY <1>1, <1>3, TrendAssumption
  <1> QED BY <1>4, <1>5

\* No drip is counted all day.
LEMMA NoSeal ==
  ASSUME source = "demo", DemoInv, dep # NoData
  PROVE  DetectSealFailure(dep) = "none"
  <1> DEFINE n == DemoRows
             all == [k \in 1..n |-> [ts |-> dep.channels[k].ts, drip |-> dep.channels[k].drip]]
             at == {k \in 1..n : dep.channels[k].drip # NaN}
  <1>1. n \in Nat /\ Len(dep.channels) = n
    BY DayIs DEF Rows
  <1>2. at = {}
    BY DEF DemoInv, Told
  <1>3. Drips(dep.channels) = Where(all, at)
    BY <1>1 DEF Drips
  <1> HIDE DEF all, at
  <1>4. Where(all, at) = <<>>
    <2>1. Cardinality(at) = 0
      BY <1>2, FS_EmptySet
    <2>2. Where(all, at) = [k \in 1..0 |-> all[Nth(at, k)]]
      BY <2>1 DEF Where
    <2> QED BY <2>2
  <1> QED BY <1>3, <1>4 DEF DetectSealFailure

\* Before the degradation the condenser warms the air by 12 C in every run.
LEMMA NoCondenser ==
  ASSUME source = "demo", DemoInv, dep # NoData, day <= DegradationStartDay
  PROVE  DetectCondenserAirflow(dep) = "none"
  <1> DEFINE n == DemoRows
             all == Column(dep.channels, "delta")
             at == {k \in 1..n : dep.channels[k].cmd = 1 /\ dep.channels[k].delta # NaN}
             delta == RunningDelta(dep.channels)
             c == Cardinality(at)
  <1>1. n \in Nat /\ Len(dep.channels) = n
    BY DayIs DEF Rows
  <1>2. delta = Where(all, at)
    BY <1>1 DEF RunningDelta
  <1>3. ASSUME NEW k \in at PROVE all[k] = 120
    <2>1. k \in 1..n /\ dep.channels[k].cmd = 1
      OBVIOUS
    <2>2. dep.channels[k].delta = 120
      BY <2>1 DEF DemoInv, Told
    <2> QED BY <1>1, <2>1, <2>2 DEF Column
  <1>4. at \in SUBSET (1..n)
    OBVIOUS
  <1> HIDE DEF at, all, n
  <1>5. /\ Len(Where(all, at)) = c /\ c \in 0..n
        /\ \A k \in 1..c : Nth(at, k) \in at /\ Where(all, at)[k] = all[Nth(at, k)]
    BY <1>1, <1>4, WhereIs
  <1>6. c \in Nat /\ Len(delta) = c /\ \A k \in 1..c : delta[k] = 120
    BY <1>1, <1>2, <1>3, <1>5
  <1>7. delta \in Seq(Int)
    <2>1. delta = [k \in 1..c |-> all[Nth(at, k)]]
      BY <1>2 DEF Where
    <2> HIDE DEF delta, c
    <2>2. delta \in [1..c -> Int]
      BY <1>6, <2>1
    <2> QED BY <1>6, <2>2
  <1> DEFINE lo == 80
             hi == 120
  <1>8. CASE c = 0
    BY <1>6, <1>8 DEF DetectCondenserAirflow
  <1>9. CASE c # 0
    <2>1. Len(delta) \in Nat \ {0} /\ lo \in Int /\ hi \in Int
      BY <1>6, <1>9
    <2>2. \A k \in 1..Len(delta) : lo <= delta[k] /\ delta[k] <= hi
      BY <1>6
    <2>3. lo = 80 /\ hi = 120
      OBVIOUS
    <2> HIDE DEF lo, hi, c
    <2>4. lo = 80 /\ hi = 120 => DetectCondenserAirflow(dep) = "none"
      BY <1>7, <2>1, <2>2, CondenserRange
    <2> QED BY <2>3, <2>4
  <1> QED BY <1>8, <1>9

\* The runs of the compressor are the running segments.
LEMMA DayRun ==
  ASSUME source = "demo", DemoInv, dep # NoData,
         NEW a \in 1..DemoRows, NEW b \in 1..DemoRows
  PROVE  <<a, b>> \in Runs(BoolCol(dep.channels, "cmd")) <=>
           \E k \in 1..Len(segments) :
             segments[k].on /\ a = segments[k].start + 1 /\ b = segments[k].end
  <1> DEFINE n == DemoRows
             s == BoolCol(dep.channels, "cmd")
  <1>1. n \in Nat /\ Len(dep.channels) = n /\ a \in Nat /\ b \in Nat
        /\ 1 <= a /\ a <= n /\ 1 <= b /\ b <= n
    BY DayIs DEF Rows
  <1>2. s = [k \in 1..n |-> dep.channels[k].cmd = 1]
    BY <1>1 DEF BoolCol
  <1>3. \A t \in 1..n : s[t] <=> OnAt(t - 1)
    BY <1>2, ZenonT(60) DEF DemoInv, Told
  <1>4. Len(s) = n
    BY <1>1, <1>2
  <1> HIDE DEF s
  <1>5. <<a, b>> \in Runs(s) <=> IsRun(s, a, b)
    BY <1>4 DEF Runs
  <1> HIDE DEF n
  <1>6. \A k \in 1..Len(segments) :
          /\ segments[k].start \in Nat /\ segments[k].end \in Nat
          /\ segments[k].start < segments[k].end /\ segments[k].end <= n
    BY SegmentIs DEF n, DemoInv
  <1>7. ASSUME NEW k \in 1..Len(segments), segments[k].on, NEW t \in Nat,
               segments[k].start < t, t <= segments[k].end
        PROVE  s[t] /\ t \in 1..n
    <2>1. t \in 1..n /\ segments[k].start <= t - 1 /\ t - 1 < segments[k].end
      BY <1>1, <1>6, <1>7
    <2>2. OnAt(t - 1)
      BY <1>7, <2>1 DEF OnAt
    <2> QED BY <1>3, <2>1, <2>2
  \* A running segment has resting rows, or none, on either side.
  <1>8. ASSUME NEW k \in 1..Len(segments), segments[k].on, NEW l \in 1..Len(segments),
               segments[l].on, segments[l].start <= segments[k].end,
               segments[k].end < segments[l].end
        PROVE  FALSE
    <2>1. k < l
      <3> SUFFICES ASSUME l < k \/ l = k PROVE FALSE
        BY SegmentIs DEF DemoInv
      <3>1. CASE l < k
        <4>1. segments[l].end <= segments[k].start
          BY <3>1, SegmentsInTurn DEF DemoInv
        <4> QED BY <1>6, <1>8, <4>1
      <3>2. CASE l = k
        BY <1>6, <1>8, <3>2
      <3> QED BY <3>1, <3>2
    <2> DEFINE m == k + 1
    <2>2. Len(segments) \in Nat /\ k % 2 = 1 /\ l % 2 = 1
      BY <1>8, SegmentIs DEF DemoInv
    <2>3. m \in 1..Len(segments) /\ m < l /\ m - 1 = k /\ m # 1
      BY <2>1, <2>2
    <2> HIDE DEF m
    <2>4. segments[m].start = segments[k].end
      BY <2>3, SegmentIs DEF DemoInv
    <2>5. segments[m].end <= segments[l].start
      BY <2>3, SegmentsInTurn DEF DemoInv
    <2> QED BY <1>6, <1>8, <2>3, <2>4, <2>5
  <1>9. ASSUME IsRun(s, a, b)
        PROVE  \E k \in 1..Len(segments) :
                 segments[k].on /\ a = segments[k].start + 1 /\ b = segments[k].end
    <2>1. /\ b \in a..n /\ \A t \in a..b : s[t]
          /\ a > 1 => ~s[a - 1]
          /\ b < n => ~s[b + 1]
      BY <1>4, <1>9 DEF IsRun
    <2>2. OnAt(a - 1)
      <3>1. a \in a..b /\ a \in 1..n
        BY <1>1, <2>1
      <3> QED BY <1>3, <2>1, <3>1
    <2>3. PICK k \in 1..Len(segments) :
             segments[k].on /\ segments[k].start <= a - 1 /\ a - 1 < segments[k].end
      BY <2>2 DEF OnAt
    <2> DEFINE x == segments[k].start
               y == segments[k].end
    <2>4. x \in Nat /\ y \in Nat /\ x < y /\ y <= n /\ x < a /\ a <= y
      BY <1>1, <1>6, <2>3
    <2>5. ASSUME NEW t \in Nat, x < t, t <= y PROVE s[t]
      BY <1>7, <2>3, <2>5
    <2> HIDE DEF x, y
    <2>6. a = x + 1
      <3> SUFFICES ASSUME x < a - 1 PROVE FALSE
        BY <1>1, <2>4
      <3>1. a - 1 \in Nat /\ a - 1 <= y /\ a > 1
        BY <1>1, <2>4
      <3> QED BY <2>1, <2>5, <3>1
    <2>7. y <= b
      <3> SUFFICES ASSUME b < y PROVE FALSE
        BY <1>1, <2>4
      <3>1. b + 1 \in Nat /\ x < b + 1 /\ b + 1 <= y /\ b < n
        BY <1>1, <2>1, <2>4
      <3> QED BY <2>1, <2>5, <3>1
    <2>8. b <= y
      <3> SUFFICES ASSUME y < b PROVE FALSE
        BY <1>1, <2>4
      <3> DEFINE t == y + 1
      <3>1. t \in a..b /\ t \in 1..n /\ t - 1 = y
        BY <1>1, <2>4
      <3>2. OnAt(y)
        <4>1. s[t]
          BY <2>1, <3>1
        <4> HIDE DEF t
        <4> QED BY <1>3, <3>1, <4>1
      <3>3. PICK l \in 1..Len(segments) :
               segments[l].on /\ segments[l].start <= y /\ y < segments[l].end
        BY <3>2 DEF OnAt
      <3> QED BY <1>8, <2>3, <3>3 DEF y
    <2>9. b = y
      BY <1>1, <2>4, <2>7, <2>8
    <2> QED BY <2>3, <2>6, <2>9 DEF x, y
  <1>10. ASSUME NEW k \in 1..Len(segments), segments[k].on,
                a = segments[k].start + 1, b = segments[k].end
         PROVE  IsRun(s, a, b)
    <2> DEFINE x == segments[k].start
               y == segments[k].end
    <2>1. x \in Nat /\ y \in Nat /\ x < y /\ y <= n /\ a = x + 1 /\ b = y
      BY <1>6, <1>10
    <2>2. ASSUME NEW t \in a..b PROVE s[t]
      <3>1. t \in Nat /\ x < t /\ t <= y
        BY <2>1
      <3> QED BY <1>7, <1>10, <3>1
    <2>3. ASSUME a > 1, s[a - 1] PROVE FALSE
      <3> DEFINE t == a - 1
      <3>1. t \in 1..n /\ t - 1 = x - 1 /\ x - 1 \in Int
        BY <1>1, <2>1, <2>3
      <3>2. OnAt(x - 1)
        <4>1. s[t]
          BY <2>3
        <4> HIDE DEF t, x
        <4> QED BY <1>3, <3>1, <4>1
      <3>3. PICK l \in 1..Len(segments) :
               segments[l].on /\ segments[l].start <= x - 1 /\ x - 1 < segments[l].end
        BY <3>2 DEF OnAt
      <3>4. segments[l].start \in Nat /\ segments[l].end \in Nat
        BY <1>6
      <3> DEFINE u == segments[l].start
                 v == segments[l].end
      <3>5. u \in Nat /\ v \in Nat /\ u <= x - 1 /\ x - 1 < v
        BY <3>3, <3>4
      <3> HIDE DEF x, y, u, v
      <3>6. x <= v /\ u < x
        BY <2>1, <3>5
      <3>7. v < y
        <4> SUFFICES ASSUME y <= v PROVE FALSE
          BY <2>1, <3>5
        <4>1. u <= x /\ x < v
          BY <2>1, <3>5, <3>6
        <4>2. l = k
          <5>1. segments[k].start <= x /\ x < segments[k].end
            BY <2>1 DEF x, y
          <5>2. segments[l].start <= x /\ x < segments[l].end
            BY <4>1 DEF u, v
          <5>3. x \in Int
            BY <2>1
          <5> HIDE DEF x
          <5> QED BY <5>1, <5>2, <5>3, OneSegment DEF DemoInv
        <4> QED BY <3>6, <4>2, <2>1 DEF u, x
      <3> QED BY <1>8, <1>10, <3>3, <3>6, <3>7 DEF x, y, v
    <2>4. ASSUME b < n, s[b + 1] PROVE FALSE
      <3> DEFINE t == b + 1
      <3>1. t \in 1..n /\ t - 1 = y
        BY <1>1, <2>1, <2>4
      <3>2. OnAt(y)
        <4>1. s[t]
          BY <2>4
        <4> HIDE DEF t, y
        <4> QED BY <1>3, <3>1, <4>1
      <3>3. PICK l \in 1..Len(segments) :
               segments[l].on /\ segments[l].start <= y /\ y < segments[l].end
        BY <3>2 DEF OnAt
      <3> QED BY <1>8, <1>10, <3>3
    <2>5. b \in a..n /\ a \in 1..n
      BY <1>1, <2>1
    <2> QED BY <1>4, <2>2, <2>3, <2>4, <2>5 DEF IsRun
  <1> QED BY <1>5, <1>9, <1>10 DEF s

\* The short runs of a day, and where they start.
LEMMA DayShort ==
  ASSUME source = "demo", DemoInv, dep # NoData
  PROVE  /\ IsFiniteSet(ShortRuns(Rows)) /\ ShortRuns(Rows) \subseteq (1..DemoRows) \X (1..DemoRows)
         /\ \A a, b \in 1..DemoRows :
              <<a, b>> \in ShortRuns(Rows) <=>
                /\ b - a + 1 < ShortCycleMaxRun
                /\ \E k \in 1..Len(segments) :
                     segments[k].on /\ a = segments[k].start + 1 /\ b = segments[k].end
         /\ \A a, b \in 1..DemoRows :
              <<a, b>> \in ShortRuns(Rows) => b = DemoRows \/ Degraded(a - 1)
  <1> DEFINE n == DemoRows
             P == (1..n) \X (1..n)
  <1>1. n \in Nat /\ Len(Rows) = n /\ Len(BoolCol(Rows, "cmd")) = n
    BY DayIs DEF BoolCol
  <1>2. ShortRuns(Rows) \subseteq P
    BY <1>1 DEF ShortRuns, Runs
  <1>3. IsFiniteSet(ShortRuns(Rows))
    <2>1. IsFiniteSet(1..n)
      BY <1>1, PlacesFinite
    <2>2. IsFiniteSet(P)
      BY <2>1, FS_Product
    <2> HIDE DEF P
    <2> QED BY <1>2, <2>2, FS_Subset
  <1>4. ASSUME NEW a \in 1..n, NEW b \in 1..n
        PROVE  <<a, b>> \in ShortRuns(Rows) <=>
                 /\ b - a + 1 < ShortCycleMaxRun
                 /\ \E k \in 1..Len(segments) :
                      segments[k].on /\ a = segments[k].start + 1 /\ b = segments[k].end
    <2>1. Duration2(Rows, <<a, b>>) = 2 * (b - a) + 2
      BY DayIs
    <2>2. <<a, b>> \in ShortRuns(Rows) <=>
            /\ <<a, b>> \in Runs(BoolCol(Rows, "cmd"))
            /\ Duration2(Rows, <<a, b>>) < 2 * ShortCycleMaxRun
      BY DEF ShortRuns
    <2>3. Duration2(Rows, <<a, b>>) < 2 * ShortCycleMaxRun <=> b - a + 1 < ShortCycleMaxRun
      BY <1>1, <2>1, ShortCycleAssumption
    <2>4. <<a, b>> \in Runs(BoolCol(Rows, "cmd")) <=>
            \E k \in 1..Len(segments) :
              segments[k].on /\ a = segments[k].start + 1 /\ b = segments[k].end
      BY DayRun DEF Rows
    <2> QED BY <2>2, <2>3, <2>4
  <1>5. ASSUME NEW a \in 1..n, NEW b \in 1..n, <<a, b>> \in ShortRuns(Rows)
        PROVE  b = DemoRows \/ Degraded(a - 1)
    <2>1. b - a + 1 < ShortCycleMaxRun
      BY <1>4, <1>5
    <2>2. PICK k \in 1..Len(segments) :
            segments[k].on /\ a = segments[k].start + 1 /\ b = segments[k].end
      BY <1>4, <1>5
    <2>3. segments[k].start \in Nat /\ segments[k].start = a - 1 /\ k % 2 = 1
      BY <2>2, SegmentIs DEF DemoInv
    <2>4. PICK l \in OnLengths(segments[k].start) :
            segments[k].end = IF segments[k].start + l <= DemoRows THEN segments[k].start + l
                              ELSE DemoRows
      BY <2>3 DEF DemoInv, Scheduling
    <2> SUFFICES ASSUME b # DemoRows, ~Degraded(a - 1) PROVE FALSE
      OBVIOUS
    <2>5. l \in OnHealthy
      BY <2>3, <2>4, LengthsAre DEF DemoInv, Scheduling
    <2>6. l \in Nat /\ ShortCycleMaxRun <= l
      BY <2>5, StoryAssumption
    <2>7. b = a - 1 + l
      BY <2>2, <2>3, <2>4
    <2> QED BY <1>1, <2>1, <2>6, <2>7, ShortCycleAssumption
  <1> QED BY <1>2, <1>3, <1>4, <1>5

\* The instants the detector counts.
LEMMA DayInstants ==
  ASSUME source = "demo", DemoInv, dep # NoData
  PROVE  /\ [r \in ShortRuns(Rows) |-> Rows[r[1]].ts] \in [ShortRuns(Rows) -> Int]
         /\ IsFiniteSet(ShortRuns(Rows))
         /\ {Rows[r[1]].ts : r \in ShortRuns(Rows)} \in SUBSET Int
         /\ IsFiniteSet({Rows[r[1]].ts : r \in ShortRuns(Rows)})
         /\ \A a, b \in 1..DemoRows : <<a, b>> \in ShortRuns(Rows) =>
              a - 1 \in {Rows[r[1]].ts : r \in ShortRuns(Rows)}
         /\ \A x \in {Rows[r[1]].ts : r \in ShortRuns(Rows)} :
              \E a, b \in 1..DemoRows : <<a, b>> \in ShortRuns(Rows) /\ x = a - 1
  <1> DEFINE n == DemoRows
             T == ShortRuns(Rows)
             f == [r \in T |-> Rows[r[1]].ts]
             S == {f[r] : r \in T}
  <1>1. n \in Nat /\ \A k \in 1..n : Rows[k].ts = k - 1
    BY DayIs
  <1>2. IsFiniteSet(T) /\ T \subseteq (1..n) \X (1..n)
    BY DayShort
  <1>3. S = {Rows[r[1]].ts : r \in T}
    OBVIOUS
  <1>4. ASSUME NEW a \in 1..n, NEW b \in 1..n, <<a, b>> \in T PROVE a - 1 \in S
    BY <1>1, <1>4
  <1>5. ASSUME NEW x \in S PROVE \E a, b \in 1..n : <<a, b>> \in T /\ x = a - 1
    <2>1. PICK r \in T : x = Rows[r[1]].ts
      OBVIOUS
    <2>2. PICK a \in 1..n, b \in 1..n : r = <<a, b>>
      BY <1>2
    <2> QED BY <1>1, <2>1, <2>2
  <1>6. S \in SUBSET Int
    <2> HIDE DEF S
    <2>1. ASSUME NEW x \in S PROVE x \in Int
      <3>1. PICK a \in 1..n, b \in 1..n : x = a - 1
        BY <1>5
      <3> QED BY <1>1, <3>1
    <2> QED BY <2>1
  <1>7. IsFiniteSet(S)
    <2> HIDE DEF f, T
    <2> QED BY <1>2, FiniteImage
  <1>8. f \in [T -> Int]
    <2>1. \A r \in T : Rows[r[1]].ts \in Int
      BY <1>1, <1>2
    <2> QED BY <2>1
  <1> HIDE DEF S
  <1> QED BY <1>2, <1>3, <1>4, <1>5, <1>6, <1>7, <1>8 DEF T, f

\* Without degradation at most the run that midnight cuts is short.
LEMMA NoShortCycling ==
  ASSUME source = "demo", DemoInv, dep # NoData, day <= DegradationStartDay
  PROVE  DetectShortCycling(dep) = "none"
  <1> DEFINE n == DemoRows
             D == ShortRuns(Rows)
             times == [r \in D |-> Rows[r[1]].ts]
             most == ShortCluster(Rows)
  <1>1. n \in Nat
    BY DayIs
  <1>2. times \in [D -> Int] /\ IsFiniteSet(D) /\ D \subseteq (1..n) \X (1..n)
    BY DayInstants, DayShort
  <1>3. ASSUME NEW x \in D, NEW y \in D PROVE x = y
    <2>1. PICK a \in 1..n, b \in 1..n : <<a, b>> \in ShortRuns(Rows) /\ x = <<a, b>>
      BY <1>2
    <2>2. PICK c \in 1..n, d \in 1..n : <<c, d>> \in ShortRuns(Rows) /\ y = <<c, d>>
      BY <1>2
    <2>3. \A t \in Int : ~Degraded(t)
      BY DegradationIs DEF DemoInv, Scheduling, Degraded
    <2>4. b = n /\ d = n
      <3>1. a - 1 \in Int /\ c - 1 \in Int
        BY <1>1
      <3>2. (b = n \/ Degraded(a - 1)) /\ (d = n \/ Degraded(c - 1))
        BY <2>1, <2>2, DayShort
      <3> QED BY <2>3, <3>1, <3>2
    <2>5. PICK k \in 1..Len(segments) : a = segments[k].start + 1 /\ b = segments[k].end
      BY <2>1, DayShort, ZenonT(60)
    <2>6. PICK l \in 1..Len(segments) : c = segments[l].start + 1 /\ d = segments[l].end
      BY <2>2, DayShort, ZenonT(60)
    <2>7. /\ segments[k].start \in Nat /\ segments[l].start \in Nat
          /\ segments[k].start < segments[k].end /\ segments[l].start < segments[l].end
      BY SegmentIs DEF DemoInv
    <2> DEFINE t == n - 1
    <2>8. /\ t \in Int
          /\ segments[k].start <= t /\ t < segments[k].end
          /\ segments[l].start <= t /\ t < segments[l].end
      <3> DEFINE u == segments[k].start
                 v == segments[k].end
                 p == segments[l].start
                 q == segments[l].end
      <3>1. u \in Nat /\ p \in Nat /\ u < v /\ p < q /\ v = n /\ q = n
        BY <2>4, <2>5, <2>6, <2>7
      <3> HIDE DEF u, v, p, q
      <3>2. t \in Int /\ u <= t /\ t < v /\ p <= t /\ t < q
        BY <1>1, <3>1
      <3> QED BY <3>2 DEF u, v, p, q
    <2> HIDE DEF t
    <2>9. k = l
      BY <2>8, OneSegment DEF DemoInv
    <2>10. a = c /\ b = d
      BY <2>4, <2>5, <2>6, <2>9
    <2> QED BY <2>1, <2>2, <2>10
  <1>4. most = MaxCluster(times, ShortCycleWindow) /\ ShortCycleWindow \in Int
    BY ShortCycleAssumption DEF ShortCluster
  <1> HIDE DEF times, D, most
  <1>6. most \in Int /\ most <= 1
    BY <1>2, <1>3, <1>4, WindowMoves
  <1>7. DetectShortCycling(dep) = Result(most >= ShortCycleMinCount, most >= 2 * ShortCycleMinCount)
    BY DEF DetectShortCycling, Rows, most
  <1>8. ~(most >= ShortCycleMinCount)
    BY <1>6, ShortCycleAssumption, StoryAssumption
  <1> QED BY <1>7, <1>8 DEF Result

-----------------------------------------------------------------------------
(* The last day of the demo: one cycle of the worst after the other.       *)

\* A segment that midnight does not cut has one after it.
LEMMA NextSegment ==
  ASSUME source = "demo", Scheduling, Scheduled = DemoRows,
         NEW k \in 1..Len(segments), segments[k].end < DemoRows
  PROVE  /\ k + 1 \in 1..Len(segments)
         /\ segments[k + 1].start = segments[k].end
         /\ segments[k + 1].on <=> k % 2 = 0
  <1>1. Len(segments) \in Nat /\ DemoRows \in Nat
        /\ DemoRows = (IF Len(segments) = 0 THEN 0 ELSE segments[Len(segments)].end)
    BY ScheduledIs, DemoLength
  <1>2. k # Len(segments)
    BY <1>1
  <1> DEFINE m == k + 1
  <1>3. m \in 1..Len(segments) /\ m # 1 /\ m - 1 = k /\ (m % 2 = 1 <=> k % 2 = 0)
    BY <1>1, <1>2
  <1> HIDE DEF m
  <1>4. segments[m].start = segments[m - 1].end /\ (segments[m].on <=> m % 2 = 1)
    BY <1>3, SegmentIs
  <1> QED BY <1>3, <1>4 DEF m

\* How far a segment reaches.
LEMMA SegmentEnds ==
  ASSUME source = "demo", Scheduling, NEW k \in 1..Len(segments)
  PROVE  \E l \in (IF k % 2 = 1 THEN OnLengths(segments[k].start)
                   ELSE OffLengths(segments[k].start)) :
           /\ l \in Nat \ {0}
           /\ segments[k].start + l <= DemoRows => segments[k].end = segments[k].start + l
           /\ segments[k].end <= segments[k].start + l
  <1>1. segments[k].start \in Nat /\ DemoRows \in Nat
    BY SegmentIs, DemoLength
  <1>2. PICK l \in (IF k % 2 = 1 THEN OnLengths(segments[k].start)
                    ELSE OffLengths(segments[k].start)) :
          segments[k].end = IF segments[k].start + l <= DemoRows THEN segments[k].start + l
                            ELSE DemoRows
    BY DEF Scheduling
  <1>3. l \in Nat \ {0}
    BY <1>1, <1>2, LengthsAre DEF Scheduling
  <1>4. /\ segments[k].start + l <= DemoRows => segments[k].end = segments[k].start + l
        /\ segments[k].end <= segments[k].start + l
    <2> DEFINE s == segments[k].start
               e == segments[k].end
    <2>1. s \in Nat /\ e = IF s + l <= DemoRows THEN s + l ELSE DemoRows
      BY <1>1, <1>2
    <2> HIDE DEF s, e
    <2>2. (s + l <= DemoRows => e = s + l) /\ e <= s + l
      BY <1>1, <1>3, <2>1
    <2> QED BY <2>2 DEF s, e
  <1> QED BY <1>2, <1>3, <1>4

\* One cycle of the last day: half a minute on, half a minute or one off.
LEMMA WorstCycle ==
  ASSUME source = "demo", Scheduling, Scheduled = DemoRows, day = LastDay,
         NEW k \in 1..Len(segments), k % 2 = 1, Degraded(segments[k].start)
  PROVE  /\ segments[k].end = segments[k].start + 1
         /\ segments[k].start + 3 < WarmUntil =>
              /\ k + 2 \in 1..Len(segments)
              /\ segments[k].start < segments[k + 2].start
              /\ segments[k + 2].start <= segments[k].start + 3
  <1> DEFINE s == segments[k].start
             m == k + 1
  <1>1. s \in Nat /\ Len(segments) \in Nat /\ k \in Int /\ day \in 0..LastDay
    BY SegmentIs DEF Scheduling
  <1>2. DemoRows \in Nat /\ WarmFrom \in Nat /\ WarmUntil \in Nat /\ WarmUntil < DemoRows
    BY DemoAssumption
  <1>3. WarmFrom <= s /\ s < WarmUntil /\ Degradation > 0
    BY DEF Degraded
  <1>4. segments[k].end = s + 1
    <2>1. PICK l \in OnLengths(s) : s + l <= DemoRows => segments[k].end = s + l
      BY SegmentEnds
    <2>2. l = 1
      BY <1>1, <2>1, LengthsAre
    <2>3. s + 1 <= DemoRows
      BY <1>1, <1>2, <1>3
    <2> QED BY <2>1, <2>2, <2>3
  <1>5. ASSUME s + 3 < WarmUntil
        PROVE  /\ k + 2 \in 1..Len(segments)
               /\ s < segments[k + 2].start
               /\ segments[k + 2].start <= s + 3
    <2>1. segments[k].end < DemoRows
      BY <1>1, <1>2, <1>4, <1>5
    <2>2. m \in 1..Len(segments) /\ segments[m].start = s + 1
      BY <1>4, <2>1, NextSegment
    <2>3. m % 2 # 1 /\ m % 2 = 0 /\ m + 1 = k + 2
      BY <1>1
    <2> HIDE DEF s, m
    <2>4. Degraded(segments[m].start) /\ segments[m].start \in Nat
      BY <1>1, <1>2, <1>3, <1>5, <2>2 DEF Degraded
    <2>5. PICK l \in OffLengths(segments[m].start) :
             /\ segments[m].start + l <= DemoRows => segments[m].end = segments[m].start + l
             /\ l \in Nat \ {0}
      BY <2>2, <2>3, SegmentEnds
    <2>6. l \in {1, 2}
      BY <1>1, <2>4, <2>5, LengthsAre
    <2>7. segments[m].end = s + 1 + l /\ s + 1 + l < DemoRows
      BY <1>1, <1>2, <1>5, <2>2, <2>5, <2>6
    <2>8. m + 1 \in 1..Len(segments) /\ segments[m + 1].start = s + 1 + l
      BY <2>2, <2>7, NextSegment
    <2> QED BY <1>1, <2>3, <2>6, <2>8
  <1> QED BY <1>4, <1>5

\* The first run that starts in the warm hours of the last day.
LEMMA FirstWarmRun ==
  ASSUME source = "demo", Scheduling, Scheduled = DemoRows, day = LastDay
  PROVE  \E k \in 1..Len(segments) : \E n \in OnHealthy \union OffHealthy :
           /\ k % 2 = 1 /\ n \in Nat
           /\ WarmFrom <= segments[k].start /\ segments[k].start <= WarmFrom + n + 1
  <1> DEFINE t == WarmFrom - 1
  <1>1. /\ DemoRows \in Nat /\ WarmFrom \in Nat /\ WarmUntil \in Nat /\ WarmUntil < DemoRows
        /\ t \in Nat /\ t < DemoRows /\ t + 1 = WarmFrom
    BY DemoAssumption
  <1>2. day \in 0..LastDay /\ Degradation = 7
    BY DegradationIs DEF Scheduling
  <1> HIDE DEF t
  <1>3. PICK k \in 1..Len(segments) : segments[k].start <= t /\ t < segments[k].end
    BY <1>1, SegmentAtIs
  <1> DEFINE s == segments[k].start
             e == segments[k].end
  <1>4. s \in Nat /\ e \in Nat /\ k \in Int /\ s <= t /\ t < e
    BY <1>3, SegmentIs
  <1>5. ~Degraded(s)
    BY <1>1, <1>4 DEF Degraded
  <1>6. PICK n \in (IF k % 2 = 1 THEN OnLengths(s) ELSE OffLengths(s)) : e <= s + n /\ n \in Nat
    BY SegmentEnds
  <1>7. n \in OnHealthy \union OffHealthy
    BY <1>2, <1>4, <1>5, <1>6, LengthsAre
  <1>8. /\ WarmFrom + n + 3 * ShortCycleMinCount < WarmUntil
        /\ ShortCycleMinCount \in Int /\ ShortCycleMinCount >= 2
    BY <1>7, StoryAssumption, ShortCycleAssumption
  <1>9. WarmFrom <= e /\ e < WarmFrom + n /\ WarmFrom + n + 6 < WarmUntil
    BY <1>1, <1>4, <1>6, <1>8
  <1> DEFINE m == k + 1
  <1>10. m \in 1..Len(segments) /\ segments[m].start = e
    <2>1. e < DemoRows
      BY <1>1, <1>4, <1>6, <1>9
    <2> QED BY <1>3, <2>1, NextSegment
  <1> HIDE DEF s, e
  <1>11. CASE m % 2 = 1
    <2>1. WarmFrom <= segments[m].start /\ segments[m].start <= WarmFrom + n + 1
      BY <1>1, <1>4, <1>6, <1>9, <1>10
    <2> QED BY <1>6, <1>7, <1>10, <1>11, <2>1
  <1>12. CASE m % 2 # 1
    <2> DEFINE l == m + 1
    <2>1. m % 2 = 0 /\ l % 2 = 1
      BY <1>4, <1>12
    <2> HIDE DEF m
    <2>2. Degraded(e)
      BY <1>1, <1>2, <1>4, <1>6, <1>9 DEF Degraded
    <2>3. PICK o \in OffLengths(e) :
             /\ segments[m].start + o <= DemoRows => segments[m].end = segments[m].start + o
             /\ o \in Nat \ {0}
      BY <1>10, <1>12, SegmentEnds
    <2>4. o \in {1, 2}
      BY <1>2, <1>4, <2>2, <2>3, LengthsAre
    <2>5. segments[m].end = e + o /\ e + o < DemoRows
      BY <1>1, <1>4, <1>6, <1>9, <1>10, <2>3, <2>4
    <2>6. l \in 1..Len(segments) /\ segments[l].start = e + o
      BY <1>10, <2>5, NextSegment
    <2>7. WarmFrom <= segments[l].start /\ segments[l].start <= WarmFrom + n + 1
      BY <1>1, <1>4, <1>6, <1>9, <2>4, <2>6
    <2> QED BY <1>6, <1>7, <2>1, <2>6, <2>7
  <1> QED BY <1>11, <1>12

\* From there on as many of the worst cycles as the detector wants.
LEMMA WorstCycles ==
  ASSUME source = "demo", Scheduling, Scheduled = DemoRows, day = LastDay
  PROVE  \E k \in 1..Len(segments) : \A j \in 0..(ShortCycleMinCount - 1) :
           /\ k + 2 * j \in 1..Len(segments) /\ (k + 2 * j) % 2 = 1
           /\ Degraded(segments[k + 2 * j].start)
           /\ segments[k].start <= segments[k + 2 * j].start
           /\ segments[k + 2 * j].start <= segments[k].start + 3 * j
  <1>1. PICK k \in 1..Len(segments), n \in OnHealthy \union OffHealthy :
          /\ k % 2 = 1 /\ n \in Nat
          /\ WarmFrom <= segments[k].start /\ segments[k].start <= WarmFrom + n + 1
    BY FirstWarmRun
  <1> DEFINE s == segments[k].start
             c == ShortCycleMinCount
             x(j) == segments[k + 2 * j].start
             Good(j) == /\ k + 2 * j \in 1..Len(segments)
                        /\ s <= x(j) /\ x(j) <= s + 3 * j
             S == {j \in Nat : j < c => Good(j)}
  <1>2. /\ s \in Nat /\ Len(segments) \in Nat /\ k \in Int /\ c \in Int /\ c >= 2
        /\ WarmFrom \in Nat /\ WarmUntil \in Nat /\ WarmFrom <= s /\ s <= WarmFrom + n + 1
        /\ WarmFrom + n + 3 * c < WarmUntil /\ n \in Nat
    <2>1. s \in Nat /\ Len(segments) \in Nat
      BY SegmentIs
    <2>2. c \in Int /\ c >= 2 /\ WarmFrom + n + 3 * c < WarmUntil
      BY StoryAssumption, ShortCycleAssumption
    <2>3. WarmFrom \in Nat /\ WarmUntil \in Nat
      BY DemoAssumption
    <2> QED BY <1>1, <2>1, <2>2, <2>3
  <1>3. Degradation = 7
    BY DegradationIs DEF Scheduling
  <1>4. ASSUME NEW j \in Nat, j < c, Good(j)
        PROVE  /\ (k + 2 * j) % 2 = 1 /\ Degraded(x(j)) /\ x(j) \in Nat
               /\ j + 1 < c => x(j) + 3 < WarmUntil
    <2>1. x(j) \in Nat
      BY <1>4, SegmentIs
    <2>2. s <= x(j) /\ x(j) <= s + 3 * j
      BY <1>4
    <2> DEFINE y == x(j)
    <2> HIDE DEF x, s, y, c
    <2>3. y \in Nat /\ s <= y /\ y <= s + 3 * j
      BY <2>1, <2>2 DEF y
    <2>4. WarmFrom <= y /\ y < WarmUntil /\ (j + 1 < c => y + 3 < WarmUntil)
      BY <1>2, <1>4, <2>3
    <2>5. (k + 2 * j) % 2 = 1
      BY <1>1, <1>2
    <2> QED BY <1>3, <2>1, <2>4, <2>5 DEF Degraded, y
  <1>5. 0 \in S
    <2>1. k + 2 * 0 = k /\ s + 3 * 0 = s
      BY <1>2
    <2>2. Good(0)
      BY <1>2, <2>1
    <2> QED BY <2>2
  <1>6. ASSUME NEW j \in Nat, j \in S PROVE j + 1 \in S
    <2> SUFFICES ASSUME j + 1 < c PROVE Good(j + 1)
      OBVIOUS
    <2>1. j < c /\ Good(j)
      BY <1>2, <1>6
    <2>2. (k + 2 * j) % 2 = 1 /\ Degraded(x(j)) /\ x(j) \in Nat /\ x(j) + 3 < WarmUntil
      BY <1>4, <2>1
    <2> DEFINE m == k + 2 * j
    <2>3. m \in 1..Len(segments) /\ m % 2 = 1 /\ Degraded(segments[m].start)
          /\ segments[m].start + 3 < WarmUntil
      BY <2>1, <2>2
    <2>4. k + 2 * (j + 1) = m + 2
      BY <1>2
    <2> HIDE DEF m
    <2>5. /\ m + 2 \in 1..Len(segments)
          /\ segments[m].start < segments[m + 2].start
          /\ segments[m + 2].start <= segments[m].start + 3
      BY <2>3, WorstCycle
    <2>6. segments[m + 2].start \in Nat
      <3> DEFINE l == m + 2
      <3>1. l \in 1..Len(segments)
        BY <2>5
      <3> HIDE DEF l
      <3>2. segments[l].start \in Nat
        BY <3>1, SegmentIs
      <3> QED BY <3>2 DEF l
    <2> DEFINE u == segments[m].start
               v == segments[m + 2].start
    <2>7. x(j) = u /\ x(j + 1) = v
      BY <2>4 DEF m
    <2>8. u \in Nat /\ v \in Nat /\ u < v /\ v <= u + 3 /\ s <= u /\ u <= s + 3 * j
      BY <2>1, <2>2, <2>5, <2>6, <2>7
    <2> HIDE DEF u, v, s, x
    <2>9. s <= v /\ v <= s + 3 * (j + 1)
      BY <1>2, <2>8
    <2> QED BY <2>4, <2>5, <2>7, <2>9
  <1>7. ASSUME NEW j \in 0..(c - 1)
        PROVE  Good(j) /\ (k + 2 * j) % 2 = 1 /\ Degraded(x(j))
    <2>1. j \in Nat /\ j < c
      BY <1>2
    <2>2. j \in S
      <3> HIDE DEF S
      <3>1. Nat \subseteq S
        BY <1>5, <1>6, SetInduction
      <3> QED BY <2>1, <3>1
    <2>3. Good(j)
      BY <2>1, <2>2
    <2> QED BY <1>4, <2>1, <2>3
  <1> QED BY <1>7

\* On the last day they are raised as short cycling.
LEMMA LastDayShort ==
  ASSUME source = "demo", DemoInv, dep # NoData, day = LastDay
  PROVE  DetectShortCycling(dep) # "none"
  <1> DEFINE n == DemoRows
             c == ShortCycleMinCount
             S == {Rows[r[1]].ts : r \in ShortRuns(Rows)}
             most == ShortCluster(Rows)
  <1>1. /\ Scheduling /\ Scheduled = DemoRows /\ n \in Nat /\ c \in Nat /\ c >= 2
        /\ ShortCycleMaxRun \in Int /\ ShortCycleMaxRun >= 2
        /\ ShortCycleWindow \in Int /\ 3 * (c - 1) < ShortCycleWindow
    BY DayIs, ShortCycleAssumption, StoryAssumption DEF DemoInv, Told
  <1>2. S \in SUBSET Int /\ IsFiniteSet(S)
    BY DayInstants
  <1>3. PICK k \in 1..Len(segments) : \A j \in 0..(c - 1) :
           /\ k + 2 * j \in 1..Len(segments) /\ (k + 2 * j) % 2 = 1
           /\ Degraded(segments[k + 2 * j].start)
           /\ segments[k].start <= segments[k + 2 * j].start
           /\ segments[k + 2 * j].start <= segments[k].start + 3 * j
    BY <1>1, WorstCycles
  <1> DEFINE t == segments[k].start
             F == [d \in 1..c |-> {segments[k + 2 * (d - 1)].start}]
             In == {u \in S : t <= u /\ u < t + ShortCycleWindow}
  <1>4. t \in Nat /\ k \in Int /\ Len(segments) \in Nat
    BY <1>1, SegmentIs
  \* Every one of them starts a short run.
  <1>5. ASSUME NEW m \in 1..Len(segments), m % 2 = 1, Degraded(segments[m].start)
        PROVE  segments[m].start \in S
    <2> DEFINE s == segments[m].start
               a == s + 1
    <2>1. s \in Nat /\ segments[m].end = s + 1 /\ segments[m].on /\ segments[m].end <= n
      BY <1>1, <1>5, SegmentIs, WorstCycle
    <2> HIDE DEF s
    <2>2. a \in 1..n /\ a - a + 1 < ShortCycleMaxRun /\ a - 1 = s
      BY <1>1, <2>1
    <2>3. a = segments[m].start + 1 /\ a = segments[m].end
      BY <2>1 DEF s
    <2> HIDE DEF a
    <2>4. <<a, a>> \in ShortRuns(Rows)
      BY <2>1, <2>2, <2>3, DayShort
    <2>5. a - 1 \in S
      BY <2>2, <2>4, DayInstants
    <2> QED BY <2>2, <2>5 DEF s
  <1>6. ASSUME NEW d \in 1..c PROVE F[d] \subseteq In /\ 1 <= Cardinality(F[d])
    <2> DEFINE j == d - 1
               u == segments[k + 2 * j].start
    <2>1. j \in 0..(c - 1) /\ j \in Nat /\ j <= c - 1
      BY <1>1
    <2> HIDE DEF j
    <2>2. /\ k + 2 * j \in 1..Len(segments) /\ (k + 2 * j) % 2 = 1
          /\ Degraded(u) /\ t <= u /\ u <= t + 3 * j
      BY <1>3, <2>1
    <2>3. u \in S
      <3> DEFINE m == k + 2 * j
      <3>1. m \in 1..Len(segments) /\ m % 2 = 1 /\ Degraded(segments[m].start)
        BY <2>2
      <3> HIDE DEF m, S
      <3>2. segments[m].start \in S
        BY <1>5, <3>1
      <3> QED BY <3>2 DEF m
    <2>4. u < t + ShortCycleWindow
      <3>1. u \in Int
        BY <1>2, <2>3
      <3> HIDE DEF u, t, S, c
      <3> QED BY <1>1, <1>4, <2>1, <2>2, <3>1
    <2>5. F[d] = {u}
      BY DEF j
    <2>6. u \in In
      BY <2>2, <2>3, <2>4
    <2> HIDE DEF u, In, F
    <2>7. Cardinality({u}) = 1
      BY FS_Singleton
    <2> QED BY <2>5, <2>6, <2>7
  <1>7. ASSUME NEW d \in 1..c, NEW e \in 1..c, d < e PROVE F[d] \intersect F[e] = {}
    <2> DEFINE a == k + 2 * (d - 1)
               b == k + 2 * (e - 1)
    <2>1. d - 1 \in 0..(c - 1) /\ e - 1 \in 0..(c - 1) /\ a < b
      BY <1>1, <1>4, <1>7
    <2>2. a \in 1..Len(segments) /\ b \in 1..Len(segments)
      BY <1>3, <2>1
    <2>3. F[d] = {segments[a].start} /\ F[e] = {segments[b].start}
      OBVIOUS
    <2> HIDE DEF a, b, F
    <2>4. /\ segments[a].end <= segments[b].start /\ segments[a].start < segments[a].end
          /\ segments[a].start \in Nat /\ segments[a].end \in Nat /\ segments[b].start \in Nat
      BY <1>1, <2>1, <2>2, SegmentsInTurn, SegmentIs
    <2>5. segments[a].start # segments[b].start
      BY <2>4
    <2> QED BY <2>3, <2>5
  <1>8. In \subseteq S /\ IsFiniteSet(In) /\ Cardinality(In) \in Nat
    <2>1. In \subseteq S
      OBVIOUS
    <2> HIDE DEF In, S
    <2> QED BY <1>2, <2>1, FS_Subset, FS_CardinalityType
  <1>9. c <= Cardinality(In)
    <2> DEFINE one == 1
    <2>1. one \in Nat /\ \A d \in 1..c : F[d] \subseteq In /\ one <= Cardinality(F[d])
      BY <1>6
    <2>2. \A d, e \in 1..c : d < e => F[d] \intersect F[e] = {}
      BY <1>7
    <2> HIDE DEF one, F, In, c
    <2>3. c * one <= Cardinality(In)
      BY <1>1, <1>8, <2>1, <2>2, PackedIn
    <2> QED BY <1>1, <2>3 DEF one
  <1>10. Cardinality(In) <= most
    <2> DEFINE D == ShortRuns(Rows)
               times == [r \in D |-> Rows[r[1]].ts]
    <2>1. most = MaxCluster(times, ShortCycleWindow)
      BY DEF ShortCluster
    <2>2. t \in Int /\ times \in [D -> Int] /\ IsFiniteSet(D)
      BY <1>4, DayInstants
    <2>3. S = {times[r] : r \in D}
      OBVIOUS
    <2> HIDE DEF S, most, t, D, times
    <2>4. Cardinality({u \in S : t <= u /\ u < t + ShortCycleWindow}) <= MaxCluster(times, ShortCycleWindow)
      BY <1>1, <2>2, <2>3, InstantsMove
    <2> QED BY <2>1, <2>4
  <1>11. most \in Int
    <2> DEFINE D == ShortRuns(Rows)
               times == [r \in D |-> Rows[r[1]].ts]
    <2>1. most = MaxCluster(times, ShortCycleWindow)
      BY DEF ShortCluster
    <2>2. times \in [D -> Int] /\ IsFiniteSet(D)
      BY DayInstants
    <2> HIDE DEF most, D, times
    <2> QED BY <1>1, <2>1, <2>2, WindowMoves
  <1>12. DetectShortCycling(dep) = Result(most >= c, most >= 2 * c)
    BY DEF DetectShortCycling, Rows
  <1> HIDE DEF most, In, c
  <1>13. most >= c
    BY <1>1, <1>8, <1>9, <1>10, <1>11
  <1> QED BY <1>12, <1>13 DEF Result

\* On a day of the demo the detectors raise short cycling and the fall of
\* delta-T and nothing else, neither before the degradation sets in, short
\* cycling for certain once it is complete, and the short runs are all in the
\* warm hours or cut by midnight (_build_compressor_segments and
\* make_channels_for_day against the detectors of signatures.py).
THEOREM DemoStory == Spec => []DemoTellsItsStory
  <1>1. DemoInv => DemoTellsItsStory
    <2> SUFFICES ASSUME DemoInv, source = "demo", dep # NoData
                 PROVE  LET raised == Triggered(dep)
                        IN /\ raised \subseteq {"short_cycling", "condenser_airflow"}
                           /\ day <= DegradationStartDay => raised = {}
                           /\ day = LastDay => "short_cycling" \in raised
                           /\ \A r \in ShortRuns(Rows) :
                                r[2] = DemoRows
                                \/ (WarmFrom <= Rows[r[1]].ts /\ Rows[r[1]].ts < WarmUntil)
      BY DEF DemoTellsItsStory
    <2>1. \A sig : sig \in Triggered(dep) <=>
            \/ sig = "short_cycling" /\ DetectShortCycling(dep) # "none"
            \/ sig = "tcc_never_satisfied" /\ DetectTccNeverSatisfied(dep) # "none"
            \/ sig = "condenser_airflow" /\ DetectCondenserAirflow(dep) # "none"
            \/ sig = "knocking" /\ DetectKnocking(dep) # "none"
            \/ sig = "belt_slip" /\ DetectBeltSlip(dep) # "none"
            \/ sig = "motor_degradation" /\ DetectMotorDegradation(dep) # "none"
            \/ sig = "seal_failure" /\ DetectSealFailure(dep) # "none"
      BY DEF Triggered, Verdicts
    <2>2. /\ DetectTccNeverSatisfied(dep) = "none" /\ DetectKnocking(dep) = "none"
          /\ DetectBeltSlip(dep) = "none" /\ DetectMotorDegradation(dep) = "none"
          /\ DetectSealFailure(dep) = "none"
      BY NoTcc, NoKnock, NoBelt, NoMotor, NoSeal
    <2>3. Triggered(dep) \subseteq {"short_cycling", "condenser_airflow"}
      BY <2>1, <2>2
    <2>4. ASSUME day <= DegradationStartDay PROVE Triggered(dep) = {}
      <3>1. DetectShortCycling(dep) = "none" /\ DetectCondenserAirflow(dep) = "none"
        BY <2>4, NoShortCycling, NoCondenser
      <3> QED BY <2>1, <2>2, <3>1
    <2>5. ASSUME day = LastDay PROVE "short_cycling" \in Triggered(dep)
      BY <2>1, <2>5, LastDayShort
    <2>6. ASSUME NEW r \in ShortRuns(Rows)
          PROVE  r[2] = DemoRows \/ (WarmFrom <= Rows[r[1]].ts /\ Rows[r[1]].ts < WarmUntil)
      <3>1. PICK a \in 1..DemoRows, b \in 1..DemoRows : r = <<a, b>>
        BY <2>6, DayShort
      <3>2. <<a, b>> \in ShortRuns(Rows) /\ Rows[a].ts = a - 1
        BY <2>6, <3>1, DayIs
      <3>3. b = DemoRows \/ Degraded(a - 1)
        BY <3>2, DayShort
      <3> QED BY <3>1, <3>2, <3>3 DEF Degraded
    <2> QED BY <2>3, <2>4, <2>5, <2>6
  <1> QED BY <1>1, DemoInductive, PTL

=============================================================================

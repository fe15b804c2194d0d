------------------------- MODULE EdgeMonitorProofs -------------------------
(***************************************************************************)
(* The ring of EdgeMonitor, for every depth and every counter width: its   *)
(* indices stay in range, it implements the bounded history of the latest  *)
(* edges (EdgeHistory), and a reading counts the edges of its window.      *)
(***************************************************************************)
EXTENDS EdgeMonitor, SequenceTheorems, FiniteSetTheorems, TLAPS

-----------------------------------------------------------------------------
(* Naturals and finite sets.                                               *)

\* A set of naturals that is not empty has a least element.
LEMMA LeastNatural ==
  ASSUME NEW T, T \subseteq Nat, T # {}
  PROVE  \E x \in T : \A y \in T : x <= y
  <1> DEFINE R == OpToRel(<, Nat)
  <1>1. IsWellFoundedOn(R, Nat)
    BY NatLessThanWellFounded, ZenonT(60)
  <1>2. PICK x \in T : \A y \in T : ~ (<<y, x>> \in R)
    <2> HIDE DEF R
    <2> QED BY <1>1, WFMin
  <1>3. \A y \in T : ~(y < x)
    BY <1>2 DEF OpToRel
  <1> QED BY <1>3

\* A part of 1..n that holds with each number the smaller ones is an interval.
LEMMA DownClosed ==
  ASSUME NEW n \in Nat, NEW D \in SUBSET (1..n), \A k \in D : \A j \in 1..k : j \in D
  PROVE  D = 1..Cardinality(D) /\ Cardinality(D) \in 0..n
  <1>1. CASE D = 1..n
    BY <1>1, FS_Interval
  <1>2. CASE D # 1..n
    <2>1. PICK m \in (1..n) \ D : \A j \in (1..n) \ D : m <= j
      <3> DEFINE E == (1..n) \ D
      <3>1. E \subseteq Nat
        OBVIOUS
      <3>2. E # {}
        BY <1>2
      <3> HIDE DEF E
      <3>3. \E m \in E : \A j \in E : m <= j
        BY <3>1, <3>2, LeastNatural
      <3> QED BY <3>3 DEF E
    <2>2. D = 1..(m - 1)
      <3>1. ASSUME NEW j \in D PROVE j \in 1..(m - 1)
        <4>1. j \in 1..n /\ m \in 1..n
          BY <2>1
        <4>2. ~(m \in 1..j)
          BY <2>1
        <4> QED BY <4>1, <4>2
      <3>2. ASSUME NEW j \in 1..(m - 1) PROVE j \in D
        BY <2>1
      <3> QED BY <3>1, <3>2
    <2>3. Cardinality(1..(m - 1)) = m - 1
      BY <2>1, FS_Interval
    <2> QED BY <2>1, <2>2, <2>3
  <1> QED BY <1>1, <1>2

\* A function that tells the elements of a finite set apart keeps their number.
LEMMA SameNumber ==
  ASSUME NEW S, IsFiniteSet(S), NEW T, NEW f \in [S -> T],
         \A x, y \in S : f[x] = f[y] => x = y, \A z \in T : \E x \in S : f[x] = z
  PROVE  IsFiniteSet(T) /\ Cardinality(T) = Cardinality(S)
  <1>1. f \in Bijection(S, T)
    BY DEF Bijection, Injection, Surjection, IsInjective
  <1> QED BY <1>1, FS_Bijection DEF ExistsBijection

-----------------------------------------------------------------------------
(* A counter that wraps.                                                   *)

\* The unsigned difference of two values of a counter modulo w.
Passed(w, a, b) == (b + w - a) % w

LEMMA ModOnce ==
  ASSUME NEW w \in Nat \ {0}, NEW x \in 0..(2 * w - 1)
  PROVE  x % w = IF x < w THEN x ELSE x - w
  <1>1. CASE x < w
    BY <1>1
  <1>2. CASE ~(x < w)
    BY <1>2
  <1> QED BY <1>1, <1>2

\* Unsigned subtraction, wherever the counter has wrapped.
LEMMA PassedValue ==
  ASSUME NEW w \in Nat \ {0}, NEW a \in 0..(w - 1), NEW b \in 0..(w - 1)
  PROVE  Passed(w, a, b) = IF a <= b THEN b - a ELSE b + w - a
  <1> DEFINE x == b + w - a
  <1>1. x \in 0..(2 * w - 1)
    OBVIOUS
  <1> HIDE DEF x
  <1>2. x % w = IF x < w THEN x ELSE x - w
    BY <1>1, ModOnce
  <1> QED BY <1>2 DEF Passed, x

LEMMA NextTime ==
  ASSUME NEW w \in Nat \ {0}, NEW t \in 0..(w - 1)
  PROVE  (t + 1) % w = IF t + 1 = w THEN 0 ELSE t + 1
  <1> DEFINE x == t + 1
  <1>1. x \in 0..(2 * w - 1)
    OBVIOUS
  <1> HIDE DEF x
  <1>2. x % w = IF x < w THEN x ELSE x - w
    BY <1>1, ModOnce
  <1> QED BY <1>2 DEF x

\* A tick adds one to what has passed, as long as that is not a whole turn.
LEMMA PassedTick ==
  ASSUME NEW w \in Nat \ {0}, NEW a \in 0..(w - 1), NEW b \in 0..(w - 1), Passed(w, a, b) + 1 < w
  PROVE  Passed(w, a, (b + 1) % w) = Passed(w, a, b) + 1
  <1> DEFINE c == (b + 1) % w
  <1>1. c = IF b + 1 = w THEN 0 ELSE b + 1
    BY NextTime
  <1>2. c \in 0..(w - 1)
    BY <1>1
  <1> HIDE DEF c
  <1>3. Passed(w, a, c) = IF a <= c THEN c - a ELSE c + w - a
    BY <1>2, PassedValue
  <1>4. Passed(w, a, b) = IF a <= b THEN b - a ELSE b + w - a
    BY PassedValue
  <1>5. Passed(w, a, c) = Passed(w, a, b) + 1
    BY <1>1, <1>3, <1>4
  <1> QED BY <1>5 DEF c

-----------------------------------------------------------------------------
(* The ring.                                                               *)

\* The write index goes round: (w + 1) % Depth is w + 1, or 0 after the last.
LEMMA NextIdxValue ==
  ASSUME NEW w \in Slots
  PROVE  NextIdx(w) = IF w + 1 = Depth THEN 0 ELSE w + 1
<1>1. Depth \in Nat \ {0} /\ w \in 0..(Depth - 1)
  BY RingAssumption DEF Slots
<1>2. CASE w + 1 = Depth
  BY <1>1, <1>2 DEF NextIdx
<1>3. CASE w + 1 # Depth
  BY <1>1, <1>3 DEF NextIdx
<1> QED
  BY <1>2, <1>3

\* The counter stays a counter.
LEMMA StampMod ==
  ASSUME NEW t \in Nat
  PROVE  t % Wrap \in Stamps
  BY TimeAssumption DEF Stamps

\* Recording an edge keeps the indices in range.
LEMMA RecordKeepsRing ==
  ASSUME RingOK, NEW t \in Stamps, RecordEdge(t)
  PROVE  RingOK'
<1>1. writeIdx' = IF writeIdx + 1 = Depth THEN 0 ELSE writeIdx + 1
  BY NextIdxValue DEF RingOK, RecordEdge
<1>2. Depth \in Nat \ {0}
  BY RingAssumption
<1>3. times' \in [Slots -> Stamps]
  BY DEF RingOK, RecordEdge
<1> QED
  BY <1>1, <1>2, <1>3 DEF RingOK, RecordEdge, Slots

\* Recording an edge is remembering it: the mapped history moves as the
\* abstract one does.
LEMMA RecordRemembers ==
  ASSUME RingOK, NEW t \in Stamps, RecordEdge(t)
  PROVE  History!Remember(t)
<1>1. writeIdx' = IF writeIdx + 1 = Depth THEN 0 ELSE writeIdx + 1
  BY NextIdxValue DEF RingOK, RecordEdge
<1>2. Depth \in Nat \ {0} /\ writeIdx \in 0..(Depth - 1) /\ count \in 0..Depth
  BY RingAssumption DEF RingOK, Slots
<1>3. times' = [times EXCEPT ![writeIdx] = t] /\ times \in [0..(Depth - 1) -> Stamps]
  BY DEF RecordEdge, RingOK, Slots
<1>4. Latest \in Seq(Stamps) /\ Len(Latest) = count
  <2>1. \A k \in 1..count : Slot(k) \in 0..(Depth - 1)
    BY <1>2 DEF Slot
  <2> QED
    BY <2>1, <1>2, <1>3 DEF Latest
<1>5. CASE count < Depth
  <2>1. count' = count + 1 /\ writeIdx = count
    BY <1>5 DEF RecordEdge, RingOK
  <2>2. \A k \in 1..count : Slot(k) = k - 1 /\ Slot(k)' = k - 1
    BY <1>1, <1>2, <1>5, <2>1 DEF Slot
  <2>3. \A k \in Nat : k = count + 1 => Slot(k)' = count
    BY <1>1, <1>2, <1>5, <2>1 DEF Slot
  <2>4. \A k \in 1..(count + 1) : Latest'[k] = IF k <= count THEN Latest[k] ELSE t
    BY <1>2, <1>3, <1>5, <2>1, <2>2, <2>3 DEF Latest
  <2>5. Latest' = [k \in 1..(count + 1) |-> Latest'[k]]
    BY <1>2, <2>1 DEF Latest
  <2>6. Append(Latest, t) = [k \in 1..(count + 1) |-> Append(Latest, t)[k]]
    <3>1. Append(Latest, t) \in Seq(Stamps) /\ Len(Append(Latest, t)) = count + 1
      BY <1>4, AppendProperties
    <3> QED
      BY <3>1, LenProperties
  <2>7. \A k \in 1..(count + 1) : Append(Latest, t)[k] = Latest'[k]
    BY <1>2, <1>4, <2>4, AppendProperties
  <2>8. Latest' = Append(Latest, t)
    BY <2>5, <2>6, <2>7
  <2> QED
    BY <1>4, <1>5, <2>8 DEF History!Remember
<1>6. CASE count = Depth
  <2>1. count' = Depth
    BY <1>2, <1>6 DEF RecordEdge
  <2>2. \A k \in 1..(Depth - 1) : Slot(k)' = Slot(k + 1) /\ Slot(k + 1) # writeIdx
    BY <1>1, <1>2, <1>6, <2>1 DEF Slot
  <2>3. Slot(Depth)' = writeIdx
    BY <1>1, <1>2, <1>6, <2>1 DEF Slot
  <2>4. \A k \in 1..Depth : Slot(k) \in 0..(Depth - 1)
    BY <1>2, <1>6 DEF Slot
  <2>5. \A k \in 1..Depth : Latest'[k] = IF k < Depth THEN Latest[k + 1] ELSE t
    BY <1>2, <1>3, <1>6, <2>1, <2>2, <2>3, <2>4 DEF Latest
  <2>6. Tail(Latest) \in Seq(Stamps) /\ Len(Tail(Latest)) = Depth - 1
    BY <1>2, <1>4, <1>6, HeadTailProperties
  <2>7. \A k \in 1..(Depth - 1) : Tail(Latest)[k] = Latest[k + 1]
    BY <1>2, <1>4, <1>6, HeadTailProperties
  <2>8. Latest' = [k \in 1..Depth |-> Latest'[k]]
    BY <1>2, <2>1 DEF Latest
  <2>9. Append(Tail(Latest), t) = [k \in 1..Depth |-> Append(Tail(Latest), t)[k]]
    <3>1. /\ Append(Tail(Latest), t) \in Seq(Stamps)
          /\ Len(Append(Tail(Latest), t)) = Depth
      BY <1>2, <2>6, AppendProperties
    <3> QED
      BY <3>1, LenProperties
  <2>10. \A k \in 1..Depth : Append(Tail(Latest), t)[k] = Latest'[k]
    BY <1>2, <2>5, <2>6, <2>7, AppendProperties
  <2>11. Latest' = Append(Tail(Latest), t)
    BY <2>8, <2>9, <2>10
  <2> QED
    BY <1>2, <1>4, <1>6, <2>11 DEF History!Remember
<1> QED
  BY <1>2, <1>5, <1>6

\* The inductive invariant behind both results: the ring, and the counter
\* whose values go into it.
IInv == RingOK /\ now \in Stamps

LEMMA InitIInv == Init => IInv
<1> SUFFICES ASSUME Init PROVE IInv
  OBVIOUS
<1>1. 0 \in Slots /\ 0 \in Stamps
  BY RingAssumption, TimeAssumption DEF Slots, Stamps
<1> QED
  BY <1>1, RingAssumption DEF Init, IInv, RingOK

\* Every step records one edge, stamped with the present time, or leaves
\* the ring alone.
LEMMA RecordsOrNot ==
  ASSUME Next
  PROVE  RecordEdge(now) \/ UNCHANGED ring
<1>1. CASE Sample
  BY <1>1 DEF Sample, TickStub
<1>2. CASE Tick
  BY <1>2 DEF Tick
<1>3. CASE Switch
  BY <1>3 DEF Switch
<1> QED
  BY <1>1, <1>2, <1>3 DEF Next

LEMMA NextIInv == IInv /\ [Next]_vars => IInv'
<1> SUFFICES ASSUME IInv, [Next]_vars PROVE IInv'
  OBVIOUS
<1>1. CASE UNCHANGED vars
  BY <1>1 DEF IInv, RingOK, vars, ring
<1>2. CASE Next
  <2>1. RingOK'
    <3>1. CASE RecordEdge(now)
      BY <3>1, RecordKeepsRing DEF IInv
    <3>2. CASE UNCHANGED ring
      BY <3>2 DEF IInv, RingOK, ring
    <3> QED
      BY <1>2, <3>1, <3>2, RecordsOrNot
  <2>2. now' \in Stamps
    <3>1. CASE Tick
      <4>1. now + 1 \in Nat
        BY TimeAssumption DEF IInv, Stamps
      <4> QED
        BY <3>1, <4>1, StampMod DEF Tick
    <3>2. CASE now' = now
      BY <3>2 DEF IInv, Stamps
    <3> QED
      BY <1>2, <3>1, <3>2 DEF Next, Sample, Switch
  <2> QED
    BY <2>1, <2>2 DEF IInv
<1> QED
  BY <1>1, <1>2

\* DigitalInputMonitor: write index and count never leave their range, and
\* until the ring is full they agree.
THEOREM RingInRange == Spec => []RingOK
<1>1. IInv => RingOK
  BY DEF IInv
<1> QED
  BY <1>1, InitIInv, NextIInv, PTL DEF Spec

\* DigitalInputMonitor and DripRateMonitor: for every depth, the ring holds
\* exactly the latest Depth edges in order.
THEOREM RingKeepsLatest == Spec => KeepsLatest
<1>1. Init => History!Init
  <2> SUFFICES ASSUME Init PROVE Latest = <<>>
    BY DEF History!Init
  <2> QED
    BY DEF Init, Latest
<1>2. ASSUME IInv, [Next]_vars
      PROVE  [History!Next]_Latest
  <2>1. CASE UNCHANGED ring
    BY <2>1 DEF ring, Latest, Slot
  <2>2. CASE RecordEdge(now)
    BY <1>2, <2>2, RecordRemembers DEF IInv, History!Next
  <2>3. CASE UNCHANGED vars
    BY <2>1, <2>3 DEF vars
  <2> QED
    BY <1>2, <2>1, <2>2, <2>3, RecordsOrNot
<1> QED
  BY <1>1, <1>2, InitIInv, NextIInv, PTL DEF Spec, KeepsLatest, History!Spec

-----------------------------------------------------------------------------
(* What the slots and the history of ages have to do with each other.      *)

\* The slot of the k-th latest edge.
Newest(w, k) == IF k <= w THEN w - k ELSE w - k + Depth

\* The ages come oldest first, and the slots, from the latest edge back, hold
\* the same ages; what is in a slot but not among the ages is too old, and a
\* ring that does not hold all of the ages is full.
Mirrors(a, sa, w, c) ==
  /\ a \in Seq(0..Window)
  /\ \A j, k \in 1..Len(a) : j <= k => a[k] <= a[j]
  /\ Len(a) > c => c = Depth
  /\ \A k \in 1..c : IF k <= Len(a) THEN sa[Newest(w, k)] = a[Len(a) + 1 - k]
                      ELSE sa[Newest(w, k)] > Window

Indices(w, c) == w \in Slots /\ c \in 0..Depth /\ (c < Depth => w = c)

LEMMA NewestSlot ==
  ASSUME NEW w, NEW c, Indices(w, c)
  PROVE  /\ \A k \in 1..c : Newest(w, k) \in 0..(c - 1)
         /\ \A j, k \in 1..c : Newest(w, j) = Newest(w, k) => j = k
         /\ \A s \in 0..(c - 1) : \E k \in 1..c : Newest(w, k) = s
  <1>1. Depth \in Nat \ {0} /\ w \in 0..(Depth - 1) /\ c \in 0..Depth /\ (c < Depth => w = c)
    BY RingAssumption DEF Indices, Slots
  <1>2. ASSUME NEW s \in 0..(c - 1) PROVE \E k \in 1..c : Newest(w, k) = s
    <2>1. CASE s < w
      <3>1. w - s \in 1..c /\ Newest(w, w - s) = s
        BY <1>1, <2>1 DEF Newest
      <3> QED BY <3>1
    <2>2. CASE s >= w
      <3>1. w - s + Depth \in 1..c /\ Newest(w, w - s + Depth) = s
        BY <1>1, <2>2 DEF Newest
      <3> QED BY <3>1
    <2> QED BY <1>1, <2>1, <2>2
  <1>3. \A k \in 1..c : Newest(w, k) \in 0..(c - 1)
    BY <1>1 DEF Newest
  <1>4. \A j, k \in 1..c : Newest(w, j) = Newest(w, k) => j = k
    BY <1>1 DEF Newest
  <1> QED BY <1>2, <1>3, <1>4

\* Of the edges no older than the window the ring has all, or is full of them.
LEMMA RingHasWindow ==
  ASSUME NEW a, NEW sa \in [Slots -> Nat], NEW w, NEW c, Indices(w, c), Mirrors(a, sa, w, c)
  PROVE  LET S == {s \in 0..(c - 1) : sa[s] <= Window}
             T == {k \in 1..Len(a) : a[k] <= Window}
         IN /\ IsFiniteSet(S) /\ IsFiniteSet(T)
            /\ Cardinality(S) <= Cardinality(T)
            /\ Cardinality(S) = Cardinality(T) \/ Cardinality(S) = Depth
  <1> DEFINE L == Len(a)
             S == {s \in 0..(c - 1) : sa[s] <= Window}
             T == {k \in 1..L : a[k] <= Window}
             R == {r \in 1..L : a[L + 1 - r] <= Window}
             Q == {r \in 1..c : r \in R}
  <1>1. L \in Nat /\ c \in Nat /\ Depth \in Nat /\ Window \in Nat /\ c <= Depth
    BY LenProperties, RingAssumption, TimeAssumption DEF Mirrors, Indices
  <1>2. \A k \in 1..L : a[k] \in 0..Window
    <2>1. a \in Seq(0..Window)
      BY DEF Mirrors
    <2> QED BY <2>1, ElementOfSeq
  <1>3. IsFiniteSet(R) /\ IsFiniteSet(T) /\ IsFiniteSet(Q)
    <2>1. IsFiniteSet(1..L) /\ IsFiniteSet(1..c)
      BY <1>1, FS_Interval
    <2> QED BY <2>1, FS_Subset
  <1>4. Cardinality(T) = Cardinality(R)
    <2> DEFINE g == [r \in R |-> L + 1 - r]
    <2>1. g \in [R -> T]
      BY <1>1
    <2>2. \A x, y \in R : g[x] = g[y] => x = y
      BY <1>1
    <2>3. \A z \in T : \E x \in R : g[x] = z
      <3> SUFFICES ASSUME NEW z \in T PROVE L + 1 - z \in R /\ g[L + 1 - z] = z
        OBVIOUS
      <3> QED BY <1>1
    <2> HIDE DEF g, R, T
    <2> QED BY <1>3, <2>1, <2>2, <2>3, SameNumber
  <1>5. IsFiniteSet(S) /\ Cardinality(S) = Cardinality(Q)
    <2> DEFINE f == [r \in Q |-> Newest(w, r)]
    <2>1. f \in [Q -> S]
      BY <1>1, NewestSlot DEF Mirrors
    <2>2. \A x, y \in Q : f[x] = f[y] => x = y
      BY NewestSlot
    <2>3. ASSUME NEW z \in S PROVE \E x \in Q : f[x] = z
      <3>1. PICK k \in 1..c : Newest(w, k) = z
        BY NewestSlot
      <3>2. sa[z] <= Window
        OBVIOUS
      <3>3. k <= L
        <4>1. CASE k <= L
          BY <4>1
        <4>2. CASE ~(k <= L)
          <5>1. sa[z] > Window
            BY <3>1, <4>2 DEF Mirrors
          <5>2. sa[z] \in Nat
            BY <1>1 DEF Slots
          <5> QED BY <1>1, <3>2, <5>1, <5>2
        <4> QED BY <4>1, <4>2
      <3>4. a[L + 1 - k] <= Window
        BY <3>1, <3>2, <3>3 DEF Mirrors
      <3>5. k \in Q
        BY <1>1, <3>3, <3>4
      <3> QED BY <3>1, <3>5
    <2> HIDE DEF f, Q, S
    <2> QED BY <1>3, <2>1, <2>2, <2>3, SameNumber
  <1>6. Cardinality(Q) <= Cardinality(R)
    <2>1. Q \subseteq R
      OBVIOUS
    <2> HIDE DEF Q, R
    <2> QED BY <1>3, <2>1, FS_Subset
  <1>7. Cardinality(Q) = Cardinality(R) \/ Cardinality(Q) = Depth
    <2>1. CASE R \subseteq 1..c
      <3>1. Q = R
        BY <2>1
      <3> QED BY <3>1
    <2>2. CASE ~(R \subseteq 1..c)
      <3>1. PICK r \in R : r > c
        BY <1>1, <2>2
      <3>2. c = Depth /\ r \in 1..L /\ a[L + 1 - r] <= Window
        BY <1>1, <3>1 DEF Mirrors
      <3>3. ASSUME NEW j \in 1..c PROVE j \in R
        <4>1. L + 1 - r \in 1..L /\ L + 1 - j \in 1..L /\ L + 1 - r <= L + 1 - j
          BY <1>1, <3>1, <3>2
        <4>2. a[L + 1 - j] <= a[L + 1 - r]
          BY <4>1 DEF Mirrors
        <4>3. a[L + 1 - j] <= Window
          BY <1>1, <1>2, <3>2, <4>1, <4>2
        <4> QED BY <1>1, <3>1, <3>2, <4>3
      <3>4. Q = 1..c
        BY <3>3
      <3>5. Cardinality(1..c) = c
        BY <1>1, FS_Interval
      <3> QED BY <3>2, <3>4, <3>5
    <2> QED BY <2>1, <2>2
  <1> HIDE DEF S, T, R, Q
  <1>8. /\ IsFiniteSet(S) /\ IsFiniteSet(T)
        /\ Cardinality(S) <= Cardinality(T)
        /\ Cardinality(S) = Cardinality(T) \/ Cardinality(S) = Depth
    BY <1>3, <1>4, <1>5, <1>6, <1>7
  <1> QED BY <1>8 DEF S, T, L

\* Recording an edge.
LEMMA RecordMirrors ==
  ASSUME NEW a, NEW sa \in [Slots -> Nat], NEW w, NEW c, Indices(w, c), Mirrors(a, sa, w, c)
  PROVE  Mirrors(Append(a, 0), [sa EXCEPT ![w] = 0], NextIdx(w), IF c < Depth THEN c + 1 ELSE c)
  <1> DEFINE L == Len(a)
             a2 == Append(a, 0)
             sa2 == [sa EXCEPT ![w] = 0]
             w2 == NextIdx(w)
             c2 == IF c < Depth THEN c + 1 ELSE c
  <1>1. /\ L \in Nat /\ Depth \in Nat \ {0} /\ Window \in Nat
        /\ w \in 0..(Depth - 1) /\ c \in 0..Depth /\ (c < Depth => w = c)
    BY LenProperties, RingAssumption, TimeAssumption DEF Mirrors, Indices, Slots
  <1>2. w2 = IF w + 1 = Depth THEN 0 ELSE w + 1
    BY NextIdxValue DEF Indices
  <1>3. /\ a2 \in Seq(0..Window) /\ Len(a2) = L + 1
        /\ \A k \in 1..L : a2[k] = a[k]
        /\ a2[L + 1] = 0
    <2>1. a \in Seq(0..Window) /\ 0 \in 0..Window
      BY <1>1 DEF Mirrors
    <2> QED BY <2>1, AppendProperties
  <1>4. \A k \in 1..L : a[k] \in 0..Window
    <2>1. a \in Seq(0..Window)
      BY DEF Mirrors
    <2> QED BY <2>1, ElementOfSeq
  <1>5. ASSUME NEW k \in 1..c2
        PROVE  IF k <= L + 1 THEN sa2[Newest(w2, k)] = a2[L + 2 - k]
               ELSE sa2[Newest(w2, k)] > Window
    <2>1. CASE k = 1
      <3>1. Newest(w2, k) = w
        BY <1>1, <1>2, <2>1 DEF Newest
      <3>2. sa2[w] = 0
        BY <1>1 DEF Slots
      <3> QED BY <1>1, <1>3, <2>1, <3>1, <3>2
    <2>2. CASE k # 1
      <3>1. k - 1 \in 1..c /\ Newest(w2, k) = Newest(w, k - 1) /\ Newest(w, k - 1) # w
            /\ Newest(w, k - 1) \in Slots
        BY <1>1, <1>2, <2>2 DEF Newest, Slots
      <3>2. sa2[Newest(w2, k)] = sa[Newest(w, k - 1)]
        BY <3>1
      <3>3. IF k - 1 <= L THEN sa[Newest(w, k - 1)] = a[L + 1 - (k - 1)]
            ELSE sa[Newest(w, k - 1)] > Window
        BY <3>1 DEF Mirrors
      <3> HIDE DEF a2, sa2, w2
      <3>4. CASE k <= L + 1
        <4>1. L + 2 - k \in 1..L /\ L + 1 - (k - 1) = L + 2 - k /\ k - 1 <= L
          BY <1>1, <3>1, <3>4
        <4> QED BY <1>3, <3>2, <3>3, <3>4, <4>1
      <3>5. CASE ~(k <= L + 1)
        <4>1. ~(k - 1 <= L)
          BY <1>1, <3>1, <3>5
        <4> QED BY <3>2, <3>3, <3>5, <4>1
      <3> QED BY <3>4, <3>5
    <2> QED BY <2>1, <2>2
  <1>6. \A j, k \in 1..(L + 1) : j <= k => a2[k] <= a2[j]
    <2> SUFFICES ASSUME NEW j \in 1..(L + 1), NEW k \in 1..(L + 1), j <= k PROVE a2[k] <= a2[j]
      OBVIOUS
    <2> HIDE DEF a2
    <2>1. CASE k \in 1..L
      <3>1. j \in 1..L /\ a[k] <= a[j]
        BY <1>1, <2>1, SMTT(60) DEF Mirrors
      <3> QED BY <1>3, <2>1, <3>1
    <2>2. CASE k = L + 1 /\ j \in 1..L
      BY <1>3, <1>4, <2>2
    <2>3. CASE k = L + 1 /\ j = L + 1
      BY <1>3, <2>3
    <2> QED BY <1>1, <2>1, <2>2, <2>3
  <1>7. Len(a2) > c2 => c2 = Depth
    BY <1>1, <1>3 DEF Mirrors
  <1>8. Len(a2) + 1 = L + 2
    BY <1>1, <1>3
  <1> HIDE DEF a2, sa2, w2, c2
  <1>9. \A k \in 1..c2 : IF k <= Len(a2) THEN sa2[Newest(w2, k)] = a2[Len(a2) + 1 - k]
                         ELSE sa2[Newest(w2, k)] > Window
    BY <1>3, <1>5, <1>8
  <1>10. Mirrors(a2, sa2, w2, c2)
    BY <1>3, <1>6, <1>7, <1>9 DEF Mirrors
  <1> QED BY <1>10 DEF a2, sa2, w2, c2

\* A tick drops the n oldest ages and adds one to the others.
LEMMA RelevantValue ==
  ASSUME NEW a \in Seq(0..Window), \A j, k \in 1..Len(a) : j <= k => a[k] <= a[j]
  PROVE  \E n \in 0..Len(a) :
           LET b == Relevant(Older(a))
           IN /\ b \in Seq(0..Window) /\ Len(b) = Len(a) - n
              /\ \A k \in 1..(Len(a) - n) : b[k] = a[n + k] + 1
              /\ \A k \in 1..n : a[k] = Window
              /\ \A k \in (n + 1)..Len(a) : a[k] < Window
  <1> DEFINE L == Len(a)
             o == Older(a)
             D == {k \in 1..L : o[k] > Window}
             n == Cardinality(D)
  <1>1. L \in Nat /\ Window \in Nat /\ \A k \in 1..L : a[k] \in 0..Window
    BY LenProperties, ElementOfSeq, TimeAssumption
  <1>2. o \in Seq(Nat) /\ Len(o) = L /\ \A k \in 1..L : o[k] = a[k] + 1
    BY <1>1 DEF Older
  <1> HIDE DEF o
  <1>3. D = 1..n /\ n \in 0..L
    <2>1. D \in SUBSET (1..L) /\ \A k \in D : \A j \in 1..k : j \in D
      <3> SUFFICES ASSUME NEW k \in D, NEW j \in 1..k PROVE j \in D
        OBVIOUS
      <3>1. j \in 1..L /\ k \in 1..L /\ a[k] <= a[j]
        BY <1>1
      <3> QED BY <1>1, <1>2, <3>1, SMTT(60)
    <2> HIDE DEF D
    <2> QED BY <1>1, <2>1, DownClosed
  <1>4. Relevant(o) = SubSeq(o, n + 1, L)
    <2>1. {k \in 1..Len(o) : o[k] > Window} = D
      BY <1>2
    <2> HIDE DEF D
    <2>2. 1 + Cardinality(D) = n + 1
      BY <1>1, <1>3
    <2> HIDE DEF n
    <2> QED BY <1>2, <2>1, <2>2 DEF Relevant
  <1>5. \A k \in 1..L : (k <= n <=> a[k] = Window)
    <2> SUFFICES ASSUME NEW k \in 1..L PROVE (k <= n <=> a[k] = Window)
      OBVIOUS
    <2>1. k \in D <=> k <= n
      <3> HIDE DEF D, n
      <3>1. k \in 1..n <=> k <= n
        BY <1>1, <1>3
      <3> QED BY <1>3, <3>1
    <2>2. k \in D <=> a[k] + 1 > Window
      BY <1>2
    <2> HIDE DEF D, n
    <2> QED BY <1>1, <2>1, <2>2
  <1> HIDE DEF D, n
  <1> DEFINE b == SubSeq(o, n + 1, L)
  <1>6. Len(b) = L - n /\ \A k \in 1..(L - n) : b[k] = a[n + k] + 1
    <2>1. b = [k \in 1..(L - n) |-> o[n + k]]
      BY <1>1, <1>2, <1>3
    <2> HIDE DEF b
    <2>2. L - n \in Nat /\ \A k \in 1..(L - n) : n + k \in 1..L
      BY <1>1, <1>3
    <2> QED BY <1>2, <2>1, <2>2
  <1>7. b \in Seq(0..Window)
    <2>1. b = [k \in 1..(L - n) |-> o[n + k]]
      BY <1>1, <1>2, <1>3
    <2> HIDE DEF b
    <2>2. L - n \in Nat /\ \A k \in 1..(L - n) : o[n + k] \in 0..Window
      <3> SUFFICES ASSUME NEW k \in 1..(L - n) PROVE o[n + k] \in 0..Window
        BY <1>1, <1>3
      <3>1. n + k \in 1..L /\ ~(n + k <= n)
        BY <1>1, <1>3
      <3> QED BY <1>1, <1>2, <1>5, <3>1
    <2> DEFINE m == L - n
    <2>3. b \in [1..m -> 0..Window]
      BY <2>1, <2>2
    <2> HIDE DEF m
    <2> QED BY <2>2, <2>3, SeqDef DEF m
  <1> HIDE DEF b
  <1>8. /\ b \in Seq(0..Window) /\ Len(b) = L - n
        /\ \A k \in 1..(L - n) : b[k] = a[n + k] + 1
        /\ \A k \in 1..n : a[k] = Window
        /\ \A k \in (n + 1)..L : a[k] < Window
    BY <1>1, <1>3, <1>5, <1>6, <1>7
  <1> QED BY <1>3, <1>4, <1>8 DEF b, o

Aged(sa) == [s \in Slots |-> IF sa[s] < Wrap THEN sa[s] + 1 ELSE Wrap]

LEMMA TickMirrors ==
  ASSUME NEW a, NEW sa \in [Slots -> 0..Wrap], NEW w, NEW c, Indices(w, c), Mirrors(a, sa, w, c)
  PROVE  Mirrors(Relevant(Older(a)), Aged(sa), w, c)
  <1> DEFINE L == Len(a)
             b == Relevant(Older(a))
             sb == Aged(sa)
  <1>1. /\ L \in Nat /\ Window \in Nat /\ Wrap \in Nat /\ Wrap > Window + 1
        /\ c \in 0..Depth /\ Depth \in Nat
    BY LenProperties, RingAssumption, TimeAssumption DEF Mirrors, Indices
  <1>2. PICK n \in 0..L :
          /\ b \in Seq(0..Window) /\ Len(b) = L - n
          /\ \A k \in 1..(L - n) : b[k] = a[n + k] + 1
          /\ \A k \in 1..n : a[k] = Window
          /\ \A k \in (n + 1)..L : a[k] < Window
    BY RelevantValue DEF Mirrors
  <1>3. \A k \in 1..L : a[k] \in 0..Window
    <2>1. a \in Seq(0..Window)
      BY DEF Mirrors
    <2> QED BY <2>1, ElementOfSeq
  <1>4. \A s \in Slots : sa[s] \in 0..Wrap /\ sb[s] = IF sa[s] < Wrap THEN sa[s] + 1 ELSE Wrap
    BY DEF Aged
  <1> HIDE DEF b, sb
  <1>5. ASSUME NEW k \in 1..c
        PROVE  IF k <= L - n THEN sb[Newest(w, k)] = b[L - n + 1 - k]
               ELSE sb[Newest(w, k)] > Window
    <2> DEFINE s == Newest(w, k)
    <2>1. s \in Slots
      BY <1>1, NewestSlot DEF Slots
    <2>2. IF k <= L THEN sa[s] = a[L + 1 - k] ELSE sa[s] > Window
      BY DEF Mirrors
    <2> HIDE DEF s
    <2>3. CASE k <= L - n
      <3>1. L - n + 1 - k \in 1..(L - n) /\ n + (L - n + 1 - k) = L + 1 - k
            /\ L + 1 - k \in (n + 1)..L /\ k <= L
        BY <1>1, <2>3
      <3>2. b[L - n + 1 - k] = a[L + 1 - k] + 1 /\ a[L + 1 - k] < Window
        BY <1>2, <3>1
      <3>3. sa[s] = a[L + 1 - k] /\ a[L + 1 - k] \in 0..Window
        BY <1>1, <1>3, <2>2, <3>1
      <3>4. sb[s] = sa[s] + 1
        BY <1>1, <1>4, <2>1, <3>3
      <3> QED BY <2>3, <3>2, <3>3, <3>4 DEF s
    <2>4. CASE k > L - n /\ k <= L
      <3>1. L + 1 - k \in 1..n
        BY <1>1, <2>4
      <3>2. sa[s] = Window
        BY <1>2, <2>2, <2>4, <3>1
      <3> QED BY <1>1, <1>4, <2>1, <2>4, <3>2 DEF s
    <2>5. CASE k > L
      <3>1. sa[s] > Window
        BY <1>1, <2>2, <2>5
      <3> QED BY <1>1, <1>4, <2>1, <2>5, <3>1 DEF s
    <2> QED BY <1>1, <2>3, <2>4, <2>5
  <1>6. \A j, k \in 1..(L - n) : j <= k => b[k] <= b[j]
    <2> SUFFICES ASSUME NEW j \in 1..(L - n), NEW k \in 1..(L - n), j <= k PROVE b[k] <= b[j]
      OBVIOUS
    <2>1. n + j \in 1..L /\ n + k \in 1..L /\ n + j <= n + k
      BY <1>1
    <2>2. a[n + k] <= a[n + j]
      BY <2>1 DEF Mirrors
    <2> QED BY <1>2, <1>3, <2>1, <2>2
  <1>7. L - n > c => c = Depth
    BY <1>1 DEF Mirrors
  <1> QED BY <1>2, <1>5, <1>6, <1>7 DEF Mirrors, b, sb

-----------------------------------------------------------------------------
(* A reading.                                                              *)

\* As long as an edge is not a whole turn of the counter old, the wrapping
\* difference is its true age.
Clocked ==
  /\ since \in Nat
  /\ slotAge \in [Slots -> 0..Wrap]
  /\ \A s \in 0..(count - 1) :
       slotAge[s] < Wrap => Passed(Wrap, times[s], now) = slotAge[s]
  /\ Mirrors(ages, slotAge, writeIdx, count)

ReadInv == IInv /\ Clocked /\ CountsItsWindow

LEMMA Turns ==
  Wrap \in Nat \ {0} /\ Wrap > Window + 1 /\ Window \in Nat /\ Depth \in Nat \ {0}
  BY TimeAssumption, RingAssumption

\* What has passed since an instant is nothing.
LEMMA NothingPassed ==
  ASSUME NEW t \in Stamps
  PROVE  Passed(Wrap, t, t) = 0
  BY Turns, PassedValue DEF Stamps

LEMMA RecordClocked ==
  ASSUME IInv, Clocked, RecordEdge(now), now' = now, since' \in Nat
  PROVE  Clocked'
  <1>1. /\ times \in [Slots -> Stamps] /\ writeIdx \in Slots /\ count \in 0..Depth
        /\ (count < Depth => writeIdx = count) /\ now \in Stamps
    BY DEF IInv, RingOK
  <1>2. slotAge \in [Slots -> 0..Wrap] /\ Mirrors(ages, slotAge, writeIdx, count)
    BY DEF Clocked
  <1>3. /\ times' = [times EXCEPT ![writeIdx] = now] /\ writeIdx' = NextIdx(writeIdx)
        /\ count' = IF count < Depth THEN count + 1 ELSE count
        /\ ages' = Append(ages, 0) /\ slotAge' = [slotAge EXCEPT ![writeIdx] = 0]
    BY DEF RecordEdge
  <1>4. Mirrors(ages', slotAge', writeIdx', count')
    <2>1. slotAge \in [Slots -> Nat] /\ Indices(writeIdx, count)
      BY <1>1, <1>2, Turns DEF Indices
    <2> QED BY <1>2, <1>3, <2>1, RecordMirrors
  <1>5. slotAge' \in [Slots -> 0..Wrap]
    <2>1. 0 \in 0..Wrap
      BY Turns
    <2> QED BY <1>2, <1>3, <2>1, Zenon
  <1>6. ASSUME NEW s \in 0..(count' - 1), slotAge'[s] < Wrap
        PROVE  Passed(Wrap, times'[s], now) = slotAge'[s]
    <2>1. s \in Slots
      BY <1>1, <1>3, Turns DEF Slots
    <2>2. CASE s = writeIdx
      BY <1>1, <1>2, <1>3, <2>1, <2>2, NothingPassed
    <2>3. CASE s # writeIdx
      <3>1. s \in 0..(count - 1) /\ times'[s] = times[s] /\ slotAge'[s] = slotAge[s]
        BY <1>1, <1>2, <1>3, <2>1, <2>3, Turns DEF Slots
      <3> QED BY <1>6, <3>1 DEF Clocked
    <2> QED BY <2>2, <2>3
  <1> QED BY <1>4, <1>5, <1>6 DEF Clocked

LEMMA TickClocked ==
  ASSUME IInv, Clocked, Tick
  PROVE  Clocked'
  <1>1. /\ times \in [Slots -> Stamps] /\ writeIdx \in Slots /\ count \in 0..Depth
        /\ (count < Depth => writeIdx = count) /\ now \in Stamps
    BY DEF IInv, RingOK
  <1>2. slotAge \in [Slots -> 0..Wrap] /\ Mirrors(ages, slotAge, writeIdx, count) /\ since \in Nat
    BY DEF Clocked
  <1>3. /\ now' = (now + 1) % Wrap /\ since' = since + 1
        /\ ages' = Relevant(Older(ages)) /\ slotAge' = Aged(slotAge)
        /\ times' = times /\ writeIdx' = writeIdx /\ count' = count
    BY DEF Tick, Aged, ring
  <1>4. Mirrors(ages', slotAge', writeIdx', count')
    BY <1>1, <1>2, <1>3, TickMirrors DEF Indices
  <1>5. slotAge' \in [Slots -> 0..Wrap]
    BY <1>2, <1>3, Turns DEF Aged
  <1>6. ASSUME NEW s \in 0..(count - 1), slotAge'[s] < Wrap
        PROVE  Passed(Wrap, times[s], now') = slotAge'[s]
    <2>1. s \in Slots /\ times[s] \in 0..(Wrap - 1) /\ now \in 0..(Wrap - 1)
      BY <1>1, Turns DEF Slots, Stamps
    <2>2. slotAge[s] \in 0..Wrap /\ slotAge'[s] = IF slotAge[s] < Wrap THEN slotAge[s] + 1 ELSE Wrap
      BY <1>2, <1>3, <2>1 DEF Aged
    <2>3. slotAge[s] < Wrap /\ slotAge[s] + 1 < Wrap /\ slotAge'[s] = slotAge[s] + 1
      BY <1>6, <2>2, Turns
    <2>4. Passed(Wrap, times[s], now) = slotAge[s]
      BY <2>3 DEF Clocked
    <2> DEFINE t == times[s]
               a == slotAge[s]
    <2>5. t \in 0..(Wrap - 1) /\ Passed(Wrap, t, now) + 1 < Wrap
      BY <2>1, <2>3, <2>4
    <2>6. Passed(Wrap, t, now) = a /\ slotAge'[s] = a + 1
      BY <2>3, <2>4
    <2> HIDE DEF t, a
    <2>7. Passed(Wrap, t, (now + 1) % Wrap) = Passed(Wrap, t, now) + 1
      BY <2>1, <2>5, Turns, PassedTick
    <2> QED BY <1>3, <2>6, <2>7 DEF t
  <1>7. since' \in Nat
    BY <1>2, <1>3
  <1> QED BY <1>3, <1>4, <1>5, <1>6, <1>7 DEF Clocked

LEMMA ClockedStep ==
  ASSUME IInv, Clocked, [Next]_vars
  PROVE  Clocked'
  <1>1. CASE Sample
    <2>1. since' \in Nat /\ now' = now
      BY <1>1 DEF Sample
    <2>2. CASE RecordEdge(now)
      BY <2>1, <2>2, RecordClocked
    <2>3. CASE UNCHANGED <<ring, ringHistory>>
      BY <2>1, <2>3 DEF Clocked, ring, ringHistory
    <2> QED BY <1>1, <2>2, <2>3 DEF Sample, TickStub
  <1>2. CASE Tick
    BY <1>2, TickClocked
  <1>3. CASE Switch \/ UNCHANGED vars
    BY <1>3 DEF Clocked, ring, ringHistory, Switch, vars
  <1> QED BY <1>1, <1>2, <1>3 DEF Next

\* What the reader counts: the slots whose edges are in the window, and those
\* besides whose stamps have come round again.
LEMMA SampleCounts ==
  ASSUME IInv', Clocked', Sample
  PROVE  CountsItsWindow'
  <1> DEFINE c == count'
             S == {s \in 0..(c - 1) : slotAge'[s] <= Window}
             T == {k \in 1..Len(ages') : ages'[k] <= Window}
             N == {s \in 0..(c - 1) : Within(times'[s])}
             n == Cardinality(N)
             true == Cardinality(T)
  <1>1. IsFiniteSet(S) /\ IsFiniteSet(T) /\ Cardinality(S) <= true
        /\ (Cardinality(S) = true \/ Cardinality(S) = Depth)
    <2>1. slotAge' \in [Slots -> Nat] /\ Mirrors(ages', slotAge', writeIdx', count')
      BY Turns DEF Clocked
    <2>2. Indices(writeIdx', count')
      BY DEF IInv, RingOK, Indices
    <2> QED BY <2>1, <2>2, RingHasWindow
  <1>2. inWindow' = n /\ TrueCount' = true
    BY DEF Sample, EdgeCountInWindow, TrueCount
  <1>3. c \in 0..Depth /\ slotAge' \in [Slots -> 0..Wrap] /\ 0..(c - 1) \subseteq Slots
    <2>1. c \in 0..Depth /\ slotAge' \in [Slots -> 0..Wrap]
      BY DEF IInv, RingOK, Clocked
    <2> HIDE DEF c
    <2> QED BY <2>1, Turns DEF Slots
  <1>4. ASSUME NEW s \in 0..(c - 1), slotAge'[s] < Wrap
        PROVE  Within(times'[s]) <=> slotAge'[s] <= Window
    <2>1. Passed(Wrap, times'[s], now') = slotAge'[s] /\ now' = now
      BY <1>4 DEF Clocked, Sample
    <2> QED BY <2>1 DEF Within, Age, Passed
  <1>5. \A s \in 0..(c - 1) : slotAge'[s] \in 0..Wrap
    BY <1>3
  <1>6. S \subseteq N
    <2> SUFFICES ASSUME NEW s \in 0..(c - 1), slotAge'[s] <= Window PROVE Within(times'[s])
      OBVIOUS
    <2>1. slotAge'[s] < Wrap
      BY <1>5, Turns
    <2> QED BY <1>4, <2>1
  <1>7. ~Aliased' => N \subseteq S
    <2> SUFFICES ASSUME ~Aliased', NEW s \in 0..(c - 1), Within(times'[s]) PROVE slotAge'[s] <= Window
      OBVIOUS
    <2>1. slotAge'[s] # Wrap
      BY DEF Aliased
    <2>2. slotAge'[s] < Wrap
      BY <1>5, <2>1, Turns
    <2> QED BY <1>4, <2>2
  <1>8. IsFiniteSet(N)
    <2>1. IsFiniteSet(0..(c - 1))
      BY <1>3, FS_Interval
    <2> QED BY <2>1, FS_Subset
  <1> HIDE DEF S, T, N
  <1>9. Cardinality(S) <= n /\ (~Aliased' => n <= Cardinality(S))
    BY <1>1, <1>6, <1>7, <1>8, FS_Subset
  <1>10. Cardinality(S) \in Nat /\ true \in Nat /\ n \in Nat
    BY <1>1, <1>8, FS_CardinalityType
  <1> HIDE DEF n, true
  <1>11. n >= (IF true < Depth THEN true ELSE Depth) /\ (~Aliased' => n <= true)
    BY <1>1, <1>9, <1>10, Turns
  <1> QED BY <1>2, <1>11 DEF CountsItsWindow

LEMMA ReadInvStep == ReadInv /\ [Next]_vars => ReadInv'
  <1> SUFFICES ASSUME ReadInv, [Next]_vars PROVE CountsItsWindow'
    BY NextIInv, ClockedStep DEF ReadInv
  <1>1. CASE Sample
    BY <1>1, NextIInv, ClockedStep, SampleCounts DEF ReadInv
  <1>2. CASE Tick
    <2>1. since' # 0
      BY <1>2 DEF Tick, ReadInv, Clocked
    <2> QED BY <2>1 DEF CountsItsWindow
  <1>3. CASE Switch \/ UNCHANGED vars
    BY <1>3 DEF Switch, vars, ring, ringHistory, ReadInv, CountsItsWindow, TrueCount, Aliased
  <1> QED BY <1>1, <1>2, <1>3 DEF Next

LEMMA InitReadInv == Init => ReadInv
  <1> SUFFICES ASSUME Init PROVE ReadInv
    OBVIOUS
  <1>1. ages = <<>> /\ Len(ages) = 0 /\ count = 0 /\ ages \in Seq(0..Window)
    BY EmptySeq DEF Init
  <1>2. Mirrors(ages, slotAge, writeIdx, count)
    BY <1>1 DEF Mirrors
  <1>3. since \in Nat /\ since # 0
    BY TimeAssumption DEF Init
  <1>4. Clocked
    <2>1. slotAge \in [Slots -> 0..Wrap]
      BY Turns DEF Init
    <2>2. 0..(count - 1) = {}
      BY <1>1
    <2> QED BY <1>2, <1>3, <2>1, <2>2 DEF Clocked
  <1> QED BY <1>3, <1>4, InitIInv DEF ReadInv, CountsItsWindow

\* DigitalInputMonitor, DripRateMonitor: for every window, depth and width of
\* the counter, a reading counts every edge of its window that the ring has
\* room for, and no other unless an edge in the ring is a whole turn old.
THEOREM CountsWindow == Spec => []CountsItsWindow
  <1>1. ReadInv => CountsItsWindow
    BY DEF ReadInv
  <1> QED BY <1>1, InitReadInv, ReadInvStep, PTL DEF Spec

=============================================================================

---------------------------- MODULE SeriesProofs ----------------------------
(* Proofs about Series, for every timestamp set and every bound: what was    *)
(* acknowledged is in the buffer, in a file, or lost by a named cause; a     *)
(* flush clears nothing it has not written; and a read that no Clear         *)
(* interrupts, of a buffer in order, gives all that is newer than the files. *)
(* Of the sort the proofs use that it keeps the number of cells and puts     *)
(* nothing but cells in them: which cells it may lose is in its definition.  *)
EXTENDS Series, FiniteSetTheorems, WellFoundedInduction, TLAPS

\* Replacing the cells one for one, as both sorts do.
LEMMA SameLength ==
    ASSUME NEW n \in Nat, NEW T, NEW s \in [1..n -> T]
    PROVE  s \in Seq(T) /\ Len(s) = n
OBVIOUS

----------------------------------------------------------------------------
(* Induction, from the well-founded order of the finite sets: the library's  *)
(* theorems about it take an operator, these take a set.                     *)

LEMMA NatMin == ASSUME NEW C \in SUBSET Nat, C # {}
                PROVE  \E n \in C : \A m \in C : n <= m
<1> DEFINE T == {0..n : n \in C}
           R == StrictSubsetOrdering(Nat)
           S == FiniteSubsetsOf(Nat)
<1>1. IsWellFoundedOn(R, S)
  BY FS_StrictSubsetOrderingWellFounded
<1>2. \A n \in Nat : 0..n \in S
  <2> TAKE n \in Nat
  <2>1. IsFiniteSet(0..n)
    BY FS_Interval
  <2> QED
    BY <2>1 DEF FiniteSubsetsOf
<1>3. T \subseteq S /\ T # {}
  BY <1>2
<1> HIDE DEF R, S
<1>4. \E x \in T : \A y \in T : ~(<<y, x>> \in R)
  <2> HIDE DEF T
  <2> QED
    BY <1>1, <1>3, WFMin
<1>5. PICK n \in C : \A y \in T : ~(<<y, 0..n>> \in R)
  BY <1>4
<1>6. \A m \in C : m < n => 0..m \in T /\ <<0..m, 0..n>> \in R
  <2> TAKE m \in C
  <2> SUFFICES ASSUME m < n PROVE 0..m \in T /\ <<0..m, 0..n>> \in R
    OBVIOUS
  <2>1. 0..m \subseteq 0..n /\ 0..m # 0..n
    OBVIOUS
  <2> QED
    BY <2>1 DEF R, StrictSubsetOrdering
<1>7. \A m \in C : ~(m < n)
  BY <1>5, <1>6
<1>8. \A m \in C : m \in Nat /\ n \in Nat
  OBVIOUS
<1> HIDE DEF T
<1> QED
  BY <1>7, <1>8

LEMMA Induction == ASSUME NEW I \in SUBSET Nat, 0 \in I, \A n \in Nat : n \in I => n + 1 \in I
                   PROVE  I = Nat
<1>1. SUFFICES ASSUME Nat \ I # {} PROVE FALSE
  OBVIOUS
<1>2. PICK n \in Nat \ I : \A m \in Nat \ I : n <= m
  BY <1>1, NatMin
<1>3. n # 0 /\ n - 1 \in Nat
  BY <1>2
<1> QED
  BY <1>2, <1>3

\* What a definition by recursion over an interval denotes: there is a function that
\* takes each value from the one before.
Computable(S, s, a, b, g) ==
    \E f \in [a..b -> S] : f[a] = s /\ \A k \in a..b : k # a => f[k] = g[k][f[k - 1]]

LEMMA Recursion ==
    ASSUME NEW S, NEW s \in S, NEW a \in Int, NEW b \in Int, a <= b,
           NEW g \in [Int -> [S -> S]]
    PROVE  Computable(S, s, a, b, g)
<1> DEFINE Is(f, m) == f[a] = s /\ \A k \in a..(a + m) : k # a => f[k] = g[k][f[k - 1]]
           I == {m \in Nat : \E f \in [a..(a + m) -> S] : Is(f, m)}
<1>1. 0 \in I
  <2> DEFINE f == [k \in a..(a + 0) |-> s]
  <2>1. f \in [a..(a + 0) -> S] /\ Is(f, 0)
    OBVIOUS
  <2>2. \E h \in [a..(a + 0) -> S] : Is(h, 0)
    <3> HIDE DEF f, Is
    <3> QED
      BY <2>1
  <2> QED
    BY <2>2
<1>2. ASSUME NEW m \in I PROVE m + 1 \in I
  <2>1. PICK f \in [a..(a + m) -> S] : Is(f, m)
    OBVIOUS
  <2> DEFINE h == [k \in a..(a + (m + 1)) |-> IF k = a + (m + 1) THEN g[k][f[k - 1]] ELSE f[k]]
  <2>2. f[a + m] \in S /\ g[a + (m + 1)] \in [S -> S] /\ (a + (m + 1)) - 1 = a + m
    OBVIOUS
  <2>3. h \in [a..(a + (m + 1)) -> S]
    BY <2>2
  <2>4. h[a] = s
    BY <2>1
  <2>5. ASSUME NEW k \in a..(a + (m + 1)), k # a
        PROVE  h[k] = g[k][h[k - 1]]
    <3>1. CASE k = a + (m + 1)
      <4>1. h[k - 1] = f[k - 1]
        BY <3>1
      <4> QED
        BY <3>1, <4>1
    <3>2. CASE k # a + (m + 1)
      <4>1. k \in a..(a + m) /\ h[k] = f[k] /\ h[k - 1] = f[k - 1]
        BY <2>5, <3>2
      <4>2. f[k] = g[k][f[k - 1]]
        BY <4>1, <2>1, <2>5
      <4> QED
        BY <4>1, <4>2
    <3> QED
      BY <3>1, <3>2
  <2>6. \E q \in [a..(a + (m + 1)) -> S] : Is(q, m + 1)
    <3>1. Is(h, m + 1)
      BY <2>4, <2>5
    <3> HIDE DEF h, Is
    <3> QED
      BY <2>3, <3>1
  <2> HIDE DEF h, Is
  <2> QED
    BY <2>6
<1>3. I = Nat
  <2>1. I \subseteq Nat
    OBVIOUS
  <2> HIDE DEF I
  <2> QED
    BY <1>1, <1>2, <2>1, Induction
<1>4. b - a \in Nat /\ a + (b - a) = b
  OBVIOUS
<1>5. \E f \in [a..(a + (b - a)) -> S] : Is(f, b - a)
  BY <1>3, <1>4
<1> QED
  BY <1>4, <1>5 DEF Computable

----------------------------------------------------------------------------
(* The sort: whatever it does to them, the cells stay cells.                 *)

LEMMA TimeIsInt == \A c \in Cell : Time(c) \in Int
<1>1. \A c \in Point : c.time \in Timestamp
  BY DEF Point
<1>2. \A c \in Point : c.time \in Int
  BY <1>1, TimestampAssumption
<1> QED
  BY <1>2 DEF Time, Cell

\* One insertion, in front or among the cells before, for all that both store too far right.
LEMMA InsertKeeps ==
    ASSUME NEW len \in Nat, NEW m \in [1..len -> Cell], NEW lo \in 1..len, NEW i \in 1..len,
           lo < i, i < len
    PROVE  Sorting!Insert(m, lo, i) \in [1..len -> Cell]
<1>1. Len(m) = len
  BY SameLength
<1>2. CASE Time(m[i]) < Time(m[lo])
  <2>1. Sorting!InsertInFront(m, lo, i) \in [1..len -> Cell]
    BY <1>1 DEF Sorting!InsertInFront
  <2> QED
    BY <1>2, <2>1 DEF Sorting!Insert
<1>3. CASE ~(Time(m[i]) < Time(m[lo]))
  <2> DEFINE Behind(k) == Time(m[k]) <= Time(m[i]) /\ \A l \in (k + 1)..(i - 1) : Time(m[i]) < Time(m[l])
             p == CHOOSE k \in lo..(i - 1) : Behind(k)
             C == {d \in Nat : d <= i - 1 - lo /\ Time(m[i - 1 - d]) <= Time(m[i])}
  <2>1. \A k \in 1..len : Time(m[k]) \in Int
    BY TimeIsInt
  <2>2. i - 1 - lo \in C
    <3>1. i - 1 - (i - 1 - lo) = lo
      OBVIOUS
    <3> QED
      BY <1>3, <2>1, <3>1
  <2>3. PICK d \in C : \A e \in C : d <= e
    <3>1. C \in SUBSET Nat /\ C # {}
      BY <2>2
    <3> HIDE DEF C
    <3> QED
      BY <3>1, NatMin
  <2>4. d \in Nat /\ d <= i - 1 - lo /\ Time(m[i - 1 - d]) <= Time(m[i])
    BY <2>3
  <2>5. ASSUME NEW l \in (i - d)..(i - 1) PROVE Time(m[i]) < Time(m[l])
    <3> DEFINE e == i - 1 - l
    <3>1. e \in Nat /\ e < d /\ i - 1 - e = l /\ l \in 1..len /\ e <= i - 1 - lo
      BY <2>4
    <3>2. e \notin C
      <4> HIDE DEF C, e
      <4> QED
        BY <2>3, <2>4, <3>1
    <3>3. ~(Time(m[l]) <= Time(m[i]))
      <4> HIDE DEF e
      <4> QED
        BY <3>1, <3>2
    <3> QED
      BY <2>1, <3>1, <3>3
  <2>6. i - 1 - d \in lo..(i - 1) /\ Behind(i - 1 - d)
    BY <2>4, <2>5
  <2>7. p \in lo..(i - 1)
    <3> HIDE DEF Behind
    <3> QED
      BY <2>6
  <2>8. Sorting!InsertAmong(m, lo, i)
          = [j \in 1..Len(m) |-> CASE j = p + 1 -> m[i]
                                   [] j \in (p + 2)..i -> m[j - 1]
                                   [] OTHER -> m[j]]
    BY DEF Sorting!InsertAmong
  <2> HIDE DEF p
  <2>9. Sorting!InsertAmong(m, lo, i) \in [1..len -> Cell]
    BY <1>1, <2>7, <2>8
  <2> QED
    BY <1>3, <2>9 DEF Sorting!Insert
<1> QED
  BY <1>2, <1>3

LEMMA InsertionSortKeeps ==
    ASSUME NEW len \in Nat, NEW m \in [1..len -> Cell], NEW lo \in 1..len, NEW hi \in 1..len,
           lo <= hi, hi < len
    PROVE  Sorting!InsertionSort(m, lo, hi) \in [1..len -> Cell]
<1> DEFINE S == [1..len -> Cell]
           n == hi - lo
           Is(f) == f = [k \in 0..n |-> IF k = 0 THEN m ELSE Sorting!Insert(f[k - 1], lo, lo + k)]
           g == [k \in Int |-> [x \in S |-> IF k \in 1..n THEN Sorting!Insert(x, lo, lo + k) ELSE x]]
<1>1. n \in Nat
  OBVIOUS
<1>2. ASSUME NEW x \in S, NEW k \in 1..n PROVE Sorting!Insert(x, lo, lo + k) \in S
  <2>1. lo + k \in 1..len /\ lo < lo + k /\ lo + k < len
    OBVIOUS
  <2> QED
    BY <2>1, InsertKeeps
<1>3. g \in [Int -> [S -> S]]
  BY <1>2
<1>4. Sorting!InsertionSort(m, lo, hi) = (CHOOSE f : Is(f))[n]
  BY DEF Sorting!InsertionSort
<1> HIDE DEF S
<1>5. m \in S
  BY DEF S
<1>6. PICK f \in [0..n -> S] : f[0] = m /\ \A k \in 0..n : k # 0 => f[k] = g[k][f[k - 1]]
  <2> HIDE DEF g, n
  <2>1. Computable(S, m, 0, n, g)
    BY <1>1, <1>3, <1>5, Recursion, SMTT(30)
  <2> QED
    BY <2>1 DEF Computable
<1>7. Is(f)
  <2>1. ASSUME NEW k \in 0..n, k # 0 PROVE f[k] = Sorting!Insert(f[k - 1], lo, lo + k)
    <3>1. k \in 1..n /\ f[k - 1] \in S /\ k \in Int
      BY <1>1, <2>1
    <3>2. g[k][f[k - 1]] = Sorting!Insert(f[k - 1], lo, lo + k)
      BY <3>1
    <3> QED
      BY <1>6, <2>1, <3>2
  <2>2. ASSUME NEW k \in 0..n PROVE f[k] = IF k = 0 THEN m ELSE Sorting!Insert(f[k - 1], lo, lo + k)
    BY <1>6, <2>1
  <2> QED
    BY <2>2
<1>8. PICK h : Is(h) /\ Sorting!InsertionSort(m, lo, hi) = h[n]
  BY <1>4, <1>7
<1>9. h[0] = m /\ \A k \in 1..n : h[k] = Sorting!Insert(h[k - 1], lo, lo + k)
  BY <1>1, <1>8
<1>10. n \in {k \in Nat : k <= n => h[k] \in S}
  <2> DEFINE I == {k \in Nat : k <= n => h[k] \in S}
  <2>1. 0 \in I
    BY <1>5, <1>9
  <2>2. ASSUME NEW k \in Nat, k \in I PROVE k + 1 \in I
    <3>1. CASE k + 1 <= n
      <4>1. h[k] \in S /\ k + 1 \in 1..n /\ h[k + 1] = Sorting!Insert(h[k], lo, lo + (k + 1))
        BY <1>1, <1>9, <2>2, <3>1
      <4>2. h[k + 1] \in S
        BY <4>1, <1>2
      <4> QED
        BY <4>2
    <3>2. CASE ~(k + 1 <= n)
      BY <3>2
    <3> QED
      BY <3>1, <3>2
  <2>3. I = Nat
    <3> HIDE DEF I
    <3>1. I \in SUBSET Nat
      BY DEF I
    <3> QED
      BY <2>1, <2>2, <3>1, Induction
  <2> QED
    BY <1>1, <2>3
<1> QED
  BY <1>8, <1>10 DEF S

LEMMA FromFirstCounts ==
    ASSUME NEW m, NEW n \in Nat, NEW mid \in 1..n
    PROVE  /\ Sorting!FromFirst(m, mid, n) \in [0..n -> 0..mid]
           /\ \A k \in 1..n : LET taken == Sorting!FromFirst(m, mid, n)
                              IN  \/ taken[k] = taken[k - 1] + 1
                                  \/ taken[k] = taken[k - 1] /\ k - taken[k] \in 1..(n - mid)
<1> DEFINE Second(a, b) == \/ a = mid
                           \/ b < n - mid /\ Time(m[mid + b + 1]) < Time(m[a + 1])
           Pass(k, a) == IF Second(a, k - 1 - a) THEN a ELSE a + 1
           Is(f) == f = [k \in 0..n |-> IF k = 0 THEN 0 ELSE Pass(k, f[k - 1])]
           g == [k \in Int |-> [a \in Nat |-> Pass(k, a)]]
           taken == Sorting!FromFirst(m, mid, n)
<1>1. taken = CHOOSE f : Is(f)
  BY DEF Sorting!FromFirst
<1>2. \A k \in Int, a \in Nat : Pass(k, a) \in {a, a + 1} /\ Pass(k, a) \in Nat
  <2> HIDE DEF Second
  <2> QED
    OBVIOUS
<1>3. \A a \in Nat, b \in Int : ~Second(a, b) => a # mid
  OBVIOUS
<1>4. \A a \in Nat, b \in Int : Second(a, b) => a = mid \/ b < n - mid
  OBVIOUS
<1>5. g \in [Int -> [Nat -> Nat]]
  <2> HIDE DEF Pass
  <2> QED
    BY <1>2
<1>6. \A k \in Int, a \in Nat : g[k][a] = Pass(k, a)
  <2> HIDE DEF Pass
  <2> QED
    OBVIOUS
<1>7. PICK f \in [0..n -> Nat] : f[0] = 0 /\ \A k \in 0..n : k # 0 => f[k] = g[k][f[k - 1]]
  <2> HIDE DEF g
  <2>1. 0 \in Nat /\ 0 \in Int /\ n \in Int /\ 0 <= n
    OBVIOUS
  <2>2. Computable(Nat, 0, 0, n, g)
    BY <1>5, <2>1, Recursion
  <2> QED
    BY <2>2 DEF Computable
<1> HIDE DEF g
<1>8. Is(f)
  <2> HIDE DEF Pass
  <2>1. ASSUME NEW k \in 0..n, k # 0 PROVE f[k] = Pass(k, f[k - 1])
    <3>1. f[k - 1] \in Nat /\ k \in Int
      BY <2>1
    <3> QED
      BY <1>6, <1>7, <2>1, <3>1
  <2>2. ASSUME NEW k \in 0..n PROVE f[k] = IF k = 0 THEN 0 ELSE Pass(k, f[k - 1])
    BY <1>7, <2>1
  <2> QED
    BY <2>2
<1>9. Is(taken)
  <2> HIDE DEF Is, taken
  <2> QED
    BY <1>1, <1>8
<1> HIDE DEF taken
<1>10. taken[0] = 0 /\ \A k \in 1..n : taken[k] = Pass(k, taken[k - 1])
  <2> HIDE DEF Pass
  <2> QED
    BY <1>9
<1>11. \A k \in 0..n : taken[k] \in 0..mid /\ k - taken[k] \in 0..(n - mid)
  <2> DEFINE Good(k, a) == a \in 0..mid /\ k - a \in 0..(n - mid)
             I == {k \in Nat : k <= n => Good(k, taken[k])}
  <2>1. 0 \in I
    BY <1>10
  <2>2. ASSUME NEW k \in Nat, k \in I PROVE k + 1 \in I
    <3>1. CASE k + 1 <= n
      <4>1. k + 1 \in 1..n /\ (k + 1) - 1 = k
        BY <3>1
      <4>2. taken[k + 1] = Pass(k + 1, taken[k])
        <5> HIDE DEF Pass
        <5> QED
          BY <1>10, <4>1
      <4>3. Good(k, taken[k])
        BY <2>2, <3>1
      <4>4. ASSUME NEW a \in Nat, Good(k, a) PROVE Good(k + 1, Pass(k + 1, a))
        <5>1. CASE Second(a, k - a)
          <6>1. Pass(k + 1, a) = a
            BY <5>1
          <6>2. a = mid \/ k - a < n - mid
            <7> HIDE DEF Second
            <7> QED
              BY <1>4, <5>1
          <6>3. Good(k + 1, a)
            BY <3>1, <4>4, <6>2
          <6> HIDE DEF Pass, Good
          <6> QED
            BY <6>1, <6>3
        <5>2. CASE ~Second(a, k - a)
          <6>1. Pass(k + 1, a) = a + 1
            BY <5>2
          <6>2. a # mid
            BY <5>2
          <6>3. Good(k + 1, a + 1)
            BY <3>1, <4>4, <6>2
          <6> HIDE DEF Pass, Good
          <6> QED
            BY <6>1, <6>3
        <5> QED
          BY <5>1, <5>2
      <4>5. taken[k] \in Nat
        BY <4>3
      <4>6. Good(k + 1, taken[k + 1])
        <5> HIDE DEF Good, Pass
        <5> QED
          BY <4>2, <4>3, <4>4, <4>5
      <4> QED
        BY <4>6
    <3>2. CASE ~(k + 1 <= n)
      BY <3>2
    <3> QED
      BY <3>1, <3>2
  <2>3. I = Nat
    <3> HIDE DEF I
    <3>1. I \in SUBSET Nat
      BY DEF I
    <3> QED
      BY <2>1, <2>2, <3>1, Induction
  <2>4. ASSUME NEW k \in 0..n PROVE Good(k, taken[k])
    <3> HIDE DEF Good
    <3> QED
      BY <2>3
  <2> QED
    BY <2>4
<1>12. taken = [k \in 0..n |-> taken[k]]
  <2> HIDE DEF Pass
  <2> QED
    BY <1>9
<1>13. taken \in [0..n -> 0..mid]
  BY <1>11, <1>12
<1>14. ASSUME NEW k \in 1..n
       PROVE  \/ taken[k] = taken[k - 1] + 1
              \/ taken[k] = taken[k - 1] /\ k - taken[k] \in 1..(n - mid)
  <2>1. k \in 0..n /\ k - 1 \in 0..n /\ k \in Int /\ k - 1 \in Int
    OBVIOUS
  <2>2. /\ taken[k] \in 0..mid /\ k - taken[k] \in 0..(n - mid)
        /\ taken[k - 1] \in 0..mid /\ (k - 1) - taken[k - 1] \in 0..(n - mid)
    BY <1>11, <2>1
  <2>3. taken[k] = taken[k - 1] \/ taken[k] = taken[k - 1] + 1
    <3>1. taken[k] = Pass(k, taken[k - 1]) /\ taken[k - 1] \in Nat
      <4> HIDE DEF Pass
      <4> QED
        BY <1>10, <2>2
    <3> HIDE DEF Pass
    <3> QED
      BY <1>2, <2>1, <3>1
  <2>4. ASSUME taken[k] = taken[k - 1] PROVE k - taken[k] \in 1..(n - mid)
    <3> DEFINE t == taken[k]
    <3>1. t \in 0..mid /\ k - t \in 0..(n - mid) /\ (k - 1) - t \in 0..(n - mid)
      BY <2>2, <2>4
    <3> HIDE DEF t
    <3>2. k - t \in 1..(n - mid)
      BY <2>1, <3>1
    <3> QED
      BY <3>2 DEF t
  <2> QED
    BY <2>3, <2>4
<1> QED
  BY <1>13, <1>14 DEF taken

LEMMA MergeForwardKeeps ==
    ASSUME NEW len \in Nat, NEW m \in [1..len -> Cell], NEW n \in 1..len, NEW mid \in 1..n
    PROVE  Sorting!MergeForward(m, mid, n) \in [1..len -> Cell]
<1> DEFINE taken == Sorting!FromFirst(m, mid, n)
<1>1. Len(m) = len
  BY SameLength
<1>2. /\ taken \in [0..n -> 0..mid]
      /\ \A k \in 1..n : \/ taken[k] = taken[k - 1] + 1
                         \/ taken[k] = taken[k - 1] /\ k - taken[k] \in 1..(n - mid)
  <2>1. n \in Nat
    OBVIOUS
  <2> QED
    BY <2>1, FromFirstCounts
<1>3. Sorting!MergeForward(m, mid, n) =
          [j \in 1..Len(m) |-> IF j > n THEN m[j]
                               ELSE IF taken[j] > taken[j - 1] THEN m[taken[j]]
                               ELSE m[mid + j - taken[j]]]
  BY DEF Sorting!MergeForward
<1> HIDE DEF taken
<1>4. ASSUME NEW j \in 1..len
      PROVE  (IF j > n THEN m[j] ELSE IF taken[j] > taken[j - 1] THEN m[taken[j]]
              ELSE m[mid + j - taken[j]]) \in Cell
  <2>1. CASE j > n
    BY <2>1
  <2>2. CASE j <= n
    <3>1. j \in 1..n /\ j - 1 \in 0..n /\ taken[j] \in 0..mid /\ taken[j - 1] \in 0..mid
      BY <1>2, <2>2
    <3>2. CASE taken[j] > taken[j - 1]
      <4>1. taken[j] \in 1..len
        BY <3>1, <3>2
      <4> QED
        BY <2>2, <3>2, <4>1
    <3>3. CASE ~(taken[j] > taken[j - 1])
      <4>1. j - taken[j] \in 1..(n - mid)
        BY <1>2, <3>1, <3>3
      <4>2. mid + j - taken[j] \in 1..len
        BY <3>1, <4>1
      <4> QED
        BY <2>2, <3>3, <4>2
    <3> QED
      BY <3>2, <3>3
  <2> QED
    BY <2>1, <2>2
<1> QED
  BY <1>1, <1>3, <1>4

LEMMA FromSecondCounts ==
    ASSUME NEW m, NEW n \in Nat, NEW mid \in 1..n
    PROVE  /\ Sorting!FromSecond(m, mid, n) \in [0..n -> 0..(n - mid)]
           /\ \A k \in 1..n : LET taken == Sorting!FromSecond(m, mid, n)
                              IN  \/ taken[k] = taken[k - 1] + 1
                                  \/ taken[k - 1] = n - mid
                                  \/ taken[k] = taken[k - 1] /\ k - 1 - taken[k - 1] \in 0..(mid - 1)
<1> DEFINE First(a, b) == a < mid /\ Time(m[n - b]) < Time(m[mid - a])
           Pass(k, b) == IF b = n - mid \/ First(k - 1 - b, b) THEN b ELSE b + 1
           Is(f) == f = [k \in 0..n |-> IF k = 0 THEN 0 ELSE Pass(k, f[k - 1])]
           g == [k \in Int |-> [b \in Nat |-> Pass(k, b)]]
           taken == Sorting!FromSecond(m, mid, n)
<1>1. taken = CHOOSE f : Is(f)
  BY DEF Sorting!FromSecond
<1>2. \A k \in Int, b \in Nat : Pass(k, b) \in {b, b + 1} /\ Pass(k, b) \in Nat
  <2> HIDE DEF First
  <2> QED
    OBVIOUS
<1>3. \A k \in Int, b \in Nat : Pass(k, b) = b => b = n - mid \/ First(k - 1 - b, b)
  <2> HIDE DEF First
  <2> QED
    OBVIOUS
<1>4. \A a \in Int, b \in Nat : First(a, b) => a < mid
  OBVIOUS
<1>5. g \in [Int -> [Nat -> Nat]]
  <2> HIDE DEF Pass
  <2> QED
    BY <1>2
<1>6. \A k \in Int, b \in Nat : g[k][b] = Pass(k, b)
  <2> HIDE DEF Pass
  <2> QED
    OBVIOUS
<1>7. PICK f \in [0..n -> Nat] : f[0] = 0 /\ \A k \in 0..n : k # 0 => f[k] = g[k][f[k - 1]]
  <2> HIDE DEF g
  <2>1. 0 \in Nat /\ 0 \in Int /\ n \in Int /\ 0 <= n
    OBVIOUS
  <2>2. Computable(Nat, 0, 0, n, g)
    BY <1>5, <2>1, Recursion
  <2> QED
    BY <2>2 DEF Computable
<1> HIDE DEF g
<1>8. Is(f)
  <2> HIDE DEF Pass
  <2>1. ASSUME NEW k \in 0..n, k # 0 PROVE f[k] = Pass(k, f[k - 1])
    <3>1. f[k - 1] \in Nat /\ k \in Int
      BY <2>1
    <3> QED
      BY <1>6, <1>7, <2>1, <3>1
  <2>2. ASSUME NEW k \in 0..n PROVE f[k] = IF k = 0 THEN 0 ELSE Pass(k, f[k - 1])
    BY <1>7, <2>1
  <2> QED
    BY <2>2
<1>9. Is(taken)
  <2> HIDE DEF Is, taken
  <2> QED
    BY <1>1, <1>8
<1> HIDE DEF taken
<1>10. taken[0] = 0 /\ \A k \in 1..n : taken[k] = Pass(k, taken[k - 1])
  <2> HIDE DEF Pass
  <2> QED
    BY <1>9
<1>11. \A k \in 0..n : taken[k] \in 0..(n - mid) /\ taken[k] <= k
  <2> DEFINE Good(k, b) == b \in 0..(n - mid) /\ b <= k
             I == {k \in Nat : k <= n => Good(k, taken[k])}
  <2>1. 0 \in I
    BY <1>10
  <2>2. ASSUME NEW k \in Nat, k \in I PROVE k + 1 \in I
    <3>1. CASE k + 1 <= n
      <4>1. k + 1 \in 1..n /\ (k + 1) - 1 = k
        BY <3>1
      <4>2. taken[k + 1] = Pass(k + 1, taken[k])
        <5> HIDE DEF Pass
        <5> QED
          BY <1>10, <4>1
      <4>3. Good(k, taken[k])
        BY <2>2, <3>1
      <4>4. ASSUME NEW b \in Nat, Good(k, b) PROVE Good(k + 1, Pass(k + 1, b))
        <5>1. CASE b = n - mid
          <6>1. Pass(k + 1, b) = b
            BY <5>1
          <6>2. Good(k + 1, b)
            BY <4>4
          <6> HIDE DEF Pass, Good
          <6> QED
            BY <6>1, <6>2
        <5>2. CASE b # n - mid
          <6>1. Pass(k + 1, b) \in {b, b + 1}
            <7> HIDE DEF Pass
            <7> QED
              BY <1>2
          <6>2. Good(k + 1, b) /\ Good(k + 1, b + 1)
            BY <4>4, <5>2
          <6> HIDE DEF Pass, Good
          <6> QED
            BY <6>1, <6>2
        <5> QED
          BY <5>1, <5>2
      <4>5. taken[k] \in Nat
        BY <4>3
      <4>6. Good(k + 1, taken[k + 1])
        <5> HIDE DEF Good, Pass
        <5> QED
          BY <4>2, <4>3, <4>4, <4>5
      <4> QED
        BY <4>6
    <3>2. CASE ~(k + 1 <= n)
      BY <3>2
    <3> QED
      BY <3>1, <3>2
  <2>3. I = Nat
    <3> HIDE DEF I
    <3>1. I \in SUBSET Nat
      BY DEF I
    <3> QED
      BY <2>1, <2>2, <3>1, Induction
  <2>4. ASSUME NEW k \in 0..n PROVE Good(k, taken[k])
    <3> HIDE DEF Good
    <3> QED
      BY <2>3
  <2> QED
    BY <2>4
<1>12. taken = [k \in 0..n |-> taken[k]]
  <2> HIDE DEF Pass
  <2> QED
    BY <1>9
<1>13. taken \in [0..n -> 0..(n - mid)]
  BY <1>11, <1>12
<1>14. ASSUME NEW k \in 1..n
       PROVE  \/ taken[k] = taken[k - 1] + 1
              \/ taken[k - 1] = n - mid
              \/ taken[k] = taken[k - 1] /\ k - 1 - taken[k - 1] \in 0..(mid - 1)
  <2>1. k \in 0..n /\ k - 1 \in 0..n /\ k \in Int /\ k - 1 \in Int
    OBVIOUS
  <2>2. taken[k - 1] \in 0..(n - mid) /\ taken[k - 1] <= k - 1
    BY <1>11, <2>1
  <2>3. taken[k] = Pass(k, taken[k - 1]) /\ taken[k - 1] \in Nat
    <3> HIDE DEF Pass
    <3> QED
      BY <1>10, <2>2
  <2>4. taken[k] \in {taken[k - 1], taken[k - 1] + 1}
    <3> HIDE DEF Pass
    <3> QED
      BY <1>2, <2>1, <2>3
  <2>5. taken[k] = taken[k - 1] => taken[k - 1] = n - mid \/ First(k - 1 - taken[k - 1], taken[k - 1])
    <3> HIDE DEF Pass, First
    <3> QED
      BY <1>3, <2>1, <2>3
  <2>6. k - 1 - taken[k - 1] \in Int /\ k - 1 - taken[k - 1] >= 0
    BY <2>1, <2>2
  <2>7. First(k - 1 - taken[k - 1], taken[k - 1]) => k - 1 - taken[k - 1] < mid
    <3> HIDE DEF First
    <3> QED
      BY <1>4, <2>3, <2>6
  <2> HIDE DEF First, Pass
  <2> QED
    BY <2>4, <2>5, <2>6, <2>7
<1> QED
  BY <1>13, <1>14 DEF taken

LEMMA MergeBackwardKeeps ==
    ASSUME NEW len \in Nat, NEW m \in [1..len -> Cell], NEW n \in 1..len, NEW mid \in 1..n
    PROVE  Sorting!MergeBackward(m, mid, n) \in [1..len -> Cell]
<1> DEFINE taken == Sorting!FromSecond(m, mid, n)
           Stored(j) == LET k == n + 2 - j
                        IN  IF k \notin 1..n \/ taken[k - 1] = n - mid THEN m[j]
                            ELSE IF taken[k] > taken[k - 1] THEN m[n - taken[k - 1]]
                            ELSE m[mid - (k - 1 - taken[k - 1])]
<1>1. Len(m) = len
  BY SameLength
<1>2. /\ taken \in [0..n -> 0..(n - mid)]
      /\ \A k \in 1..n : \/ taken[k] = taken[k - 1] + 1
                         \/ taken[k - 1] = n - mid
                         \/ taken[k] = taken[k - 1] /\ k - 1 - taken[k - 1] \in 0..(mid - 1)
  <2>1. n \in Nat
    OBVIOUS
  <2> QED
    BY <2>1, FromSecondCounts
<1>3. Sorting!MergeBackward(m, mid, n) = [j \in 1..Len(m) |-> Stored(j)]
  BY DEF Sorting!MergeBackward
<1> HIDE DEF taken
<1>4. ASSUME NEW j \in 1..len PROVE Stored(j) \in Cell
  <2> DEFINE k == n + 2 - j
  <2>1. CASE k \notin 1..n \/ taken[k - 1] = n - mid
    BY <2>1
  <2>2. CASE k \in 1..n /\ taken[k - 1] # n - mid
    <3>1. k - 1 \in 0..n /\ k \in 0..n
      BY <2>2
    <3> HIDE DEF k
    <3>2. taken[k - 1] \in 0..(n - mid) /\ taken[k] \in 0..(n - mid)
      BY <1>2, <3>1
    <3>3. CASE taken[k] > taken[k - 1]
      <4>1. n - taken[k - 1] \in 1..len
        BY <2>2, <3>2
      <4>2. Stored(j) = m[n - taken[k - 1]]
        BY <2>2, <3>3 DEF k
      <4> HIDE DEF Stored
      <4> QED
        BY <4>1, <4>2
    <3>4. CASE ~(taken[k] > taken[k - 1])
      <4>1. taken[k] = taken[k - 1] /\ k - 1 - taken[k - 1] \in 0..(mid - 1)
        BY <1>2, <2>2, <3>2, <3>4
      <4>2. mid - (k - 1 - taken[k - 1]) \in 1..len
        BY <3>2, <4>1
      <4>3. Stored(j) = m[mid - (k - 1 - taken[k - 1])]
        BY <2>2, <3>4 DEF k
      <4> HIDE DEF Stored
      <4> QED
        BY <4>2, <4>3
    <3> QED
      BY <3>3, <3>4
  <2> QED
    BY <2>1, <2>2
<1> HIDE DEF Stored
<1> QED
  BY <1>1, <1>3, <1>4

\* The whole sort, of all but the cell past the end.
LEMMA SortKeeps ==
    ASSUME NEW len \in Nat, NEW m \in [1..len -> Cell], NEW n \in 0..(len - 1)
    PROVE  Sorting!StableSort(m, n) \in [1..len -> Cell]
<1>1. CASE n < 2
  BY <1>1 DEF Sorting!StableSort
<1>2. CASE ~(n < 2)
  <2> DEFINE mid == (n + 1) \div 2
             first == Sorting!InsertionSort(m, 1, mid)
             halves == Sorting!InsertionSort(first, mid + 1, n)
  <2>1. /\ mid \in 1..n /\ mid \in 1..len /\ 1 \in 1..len /\ 1 <= mid /\ mid < len
        /\ mid + 1 \in 1..len /\ n \in 1..len /\ mid + 1 <= n /\ n < len
    BY <1>2
  <2>2. Sorting!StableSort(m, n) = IF mid <= n - mid THEN Sorting!MergeForward(halves, mid, n)
                                                     ELSE Sorting!MergeBackward(halves, mid, n)
    BY <1>2 DEF Sorting!StableSort
  <2> HIDE DEF mid
  <2>3. first \in [1..len -> Cell]
    BY <2>1, InsertionSortKeeps
  <2> HIDE DEF first
  <2>4. halves \in [1..len -> Cell]
    BY <2>1, <2>3, InsertionSortKeeps
  <2> HIDE DEF halves
  <2>5. Sorting!MergeForward(halves, mid, n) \in [1..len -> Cell]
    BY <2>1, <2>4, MergeForwardKeeps
  <2>6. Sorting!MergeBackward(halves, mid, n) \in [1..len -> Cell]
    BY <2>1, <2>4, MergeBackwardKeeps
  <2> QED
    BY <2>2, <2>5, <2>6
<1> QED
  BY <1>1, <1>2

\* The inductive invariant. Shapes: the buffer is a sequence, of whatever.
Shapes == /\ \E S : buf \in Seq(S)
          /\ op \in Seq(Point \union {NaN})
          /\ at \in Nat \ {0} /\ writes \in 0..MaxWrites
          /\ cursor \in 0..Len(buf)
          /\ fpc \in {"idle", "writing", "sorting", "clearing"}

\* A flush has something to write, and has written something when it comes to clear.
FlushHasWork == /\ fpc # "idle" => Len(buf) > 0
                /\ fpc = "clearing" => cursor > 0

Covered(p) == p \in Cells(buf) \union disk \union exposed

\* The points Append has gone past.
OpCovered == \A i \in 1..Len(op) : i < at /\ op[i] # NaN => Covered(op[i])

\* What the cursor has gone past.
CursorCovered == fpc # "idle" => \A i \in 1..cursor : buf[i] \in disk \union exposed

IInv == /\ Shapes /\ FlushHasWork /\ OpCovered /\ CursorCovered
        /\ AckedOrExposed /\ ClearsWhatItWrote

----------------------------------------------------------------------------
\* Appending a cell: used by both ways of counting one.
LEMMA AppendCells ==
    ASSUME NEW S, NEW s \in Seq(S), NEW e
    PROVE  /\ Append(s, e) \in Seq(S \union {e})
           /\ Len(Append(s, e)) = Len(s) + 1
           /\ Cells(Append(s, e)) = Cells(s) \union {e}
           /\ \A i \in 1..Len(s) : Append(s, e)[i] = s[i]
<1>1. s \in Seq(S \union {e}) /\ Len(s) \in Nat
  OBVIOUS
<1>2. Append(s, e) \in Seq(S \union {e})
  BY <1>1
<1>3. Len(Append(s, e)) = Len(s) + 1
  BY <1>1
<1>4. \A i \in 1..Len(s) : Append(s, e)[i] = s[i]
  BY <1>1
<1>5. Append(s, e)[Len(s) + 1] = e
  BY <1>1
<1>6. \A i \in 1..(Len(s) + 1) : i \in 1..Len(s) \/ i = Len(s) + 1
  BY <1>1
<1>7. Cells(s) \union {e} \subseteq Cells(Append(s, e))
  BY <1>1, <1>3, <1>4, <1>5 DEF Cells
<1>8. Cells(Append(s, e)) \subseteq Cells(s) \union {e}
  BY <1>1, <1>3, <1>4, <1>5, <1>6 DEF Cells
<1>. QED
  BY <1>2, <1>3, <1>4, <1>7, <1>8

----------------------------------------------------------------------------
LEMMA InitIInv == Init => IInv
<1>. SUFFICES ASSUME Init PROVE IInv
  OBVIOUS
<1>1. buf \in Seq({}) /\ op \in Seq(Point \union {NaN}) /\ Len(buf) = 0 /\ Len(op) = 0
  BY DEF Init
<1>2. Shapes
  BY <1>1, BoundsAssumption DEF Init, Shapes
<1>. QED
  BY <1>1, <1>2 DEF Init, IInv, FlushHasWork, OpCovered, CursorCovered, AckedOrExposed,
                    ClearsWhatItWrote

----------------------------------------------------------------------------
\* The steps that leave the buffer, the files and what is exposed as they are.
LEMMA BufferUntouched ==
    ASSUME IInv, UNCHANGED <<buf, disk, exposed>>,
           fpc' \in {"idle", "writing", "sorting", "clearing"},
           cursor' \in 0..Len(buf),
           FlushHasWork', CursorCovered', ClearsWhatItWrote',
           op' \in Seq(Point \union {NaN}), at' \in Nat \ {0}, writes' \in 0..MaxWrites,
           OpCovered', AckedOrExposed'
    PROVE  IInv'
BY DEF IInv, Shapes

LEMMA WorkerStep ==
    ASSUME IInv, (\E times \in WriteTimes : BeginWrite(times)) \/ SkipNaN \/ FillCell
                 \/ WriteReturns \/ ReadDisk \/ Scan
    PROVE  IInv'
<1>1. UNCHANGED <<buf, disk, exposed, fpc, cursor>>
  BY DEF BeginWrite, SkipNaN, FillCell, WriteReturns, ReadDisk, Scan, bufvars, flushvars
<1>2. FlushHasWork' /\ CursorCovered' /\ ClearsWhatItWrote'
  BY <1>1 DEF IInv, FlushHasWork, CursorCovered, ClearsWhatItWrote, Cells
<1>3. \A p : Covered(p)' <=> Covered(p)
  BY <1>1 DEF Covered, Cells
<1>4. SUFFICES /\ op' \in Seq(Point \union {NaN}) /\ at' \in Nat \ {0}
               /\ writes' \in 0..MaxWrites /\ OpCovered' /\ AckedOrExposed'
  BY <1>1, <1>2, BufferUntouched DEF IInv, Shapes
<1>5. CASE \E times \in WriteTimes : BeginWrite(times)
  <2>1. PICK times \in WriteTimes : BeginWrite(times)
    BY <1>5
  <2>2. PICK n \in 1..MaxLength : times \in [1..n -> Timestamp \union {NaN}]
    BY DEF WriteTimes
  <2>3. n \in Nat /\ n <= MaxLength /\ Len(times) = n
    BY <2>2, BoundsAssumption
  <2>4. writes' \in 1..MaxWrites
    BY <2>1, BoundsAssumption DEF BeginWrite, IInv, Shapes
  <2>5. op' \in [1..n -> Point \union {NaN}]
    <3>1. ASSUME NEW i \in 1..n, times[i] # NaN
          PROVE  [time |-> times[i], write |-> writes', place |-> i] \in Point
      BY <2>2, <2>3, <2>4, <3>1, BoundsAssumption DEF Point
    <3>. QED
      BY <2>1, <2>2, <2>3, <3>1 DEF BeginWrite
  <2>6. op' \in Seq(Point \union {NaN})
    BY <2>3, <2>5
  <2>. QED
    BY <1>1, <2>1, <2>4, <2>6 DEF BeginWrite, OpCovered, AckedOrExposed, IInv, Shapes, Cells
<1>6. CASE SkipNaN
  BY <1>1, <1>3, <1>6 DEF SkipNaN, IInv, Shapes, OpCovered, AckedOrExposed, Cells
<1>7. CASE WriteReturns
  <2>1. \A p \in PointsOf(op) : Covered(p)
    BY <1>7 DEF WriteReturns, PointsOf, Cells, IInv, Shapes, OpCovered
  <2>2. AckedOrExposed'
    BY <1>3, <1>7, <2>1 DEF WriteReturns, IInv, AckedOrExposed, Covered
  <2>. QED
    BY <1>7, <2>2 DEF WriteReturns, IInv, Shapes, OpCovered
<1>8. CASE FillCell \/ ReadDisk \/ Scan
  <2>1. UNCHANGED <<op, at, writes, acked>>
    BY <1>8 DEF FillCell, ReadDisk, Scan
  <2>. QED
    BY <1>1, <1>3, <2>1 DEF IInv, Shapes, OpCovered, AckedOrExposed, Cells
<1>. QED
  BY <1>5, <1>6, <1>7, <1>8

\* A flush's steps that leave the buffer alone: choosing what to do next.
LEMMA FlushStep ==
    ASSUME IInv, FlushBegins \/ SortBegins \/ WritesComplete
    PROVE  IInv'
<1>1. UNCHANGED <<buf, disk, exposed, op, at, writes, acked>>
  BY DEF FlushBegins, SortBegins, WritesComplete, bufvars, workvars
<1>2. /\ op' \in Seq(Point \union {NaN}) /\ at' \in Nat \ {0} /\ writes' \in 0..MaxWrites
      /\ OpCovered' /\ AckedOrExposed'
  BY <1>1 DEF IInv, Shapes, OpCovered, Covered, AckedOrExposed, Cells
<1>3. PICK S : buf \in Seq(S)
  BY DEF IInv, Shapes
<1>4. Len(buf) \in Nat /\ (buf # <<>> => Len(buf) > 0)
  BY <1>3
<1>5. SUFFICES /\ fpc' \in {"idle", "writing", "sorting", "clearing"} /\ cursor' \in 0..Len(buf)
               /\ FlushHasWork' /\ CursorCovered' /\ ClearsWhatItWrote'
  BY <1>1, <1>2, BufferUntouched
<1>6. CASE FlushBegins
  BY <1>1, <1>4, <1>6 DEF FlushBegins, FlushHasWork, CursorCovered, ClearsWhatItWrote
<1>7. CASE SortBegins
  BY <1>1, <1>7 DEF SortBegins, IInv, Shapes, FlushHasWork, CursorCovered, ClearsWhatItWrote
<1>8. CASE WritesComplete
  <2>1. CursorCovered'
    BY <1>1, <1>8 DEF WritesComplete, IInv, CursorCovered
  <2>2. ClearsWhatItWrote'
    BY <1>1, <1>8 DEF WritesComplete, IInv, CursorCovered, ClearsWhatItWrote, Cells
  <2>. QED
    BY <1>1, <1>8, <2>1, <2>2 DEF WritesComplete, IInv, Shapes, FlushHasWork
<1>. QED
  BY <1>6, <1>7, <1>8

\* Counting a cell: while a flush clears, the cell that joins is exposed.
LEMMA CountCellStep == ASSUME IInv, CountCell PROVE IInv'
<1>1. PICK S : buf \in Seq(S)
  BY DEF IInv, Shapes
<1>2. buf' = Append(buf, slot) /\ UNCHANGED <<disk, op, writes, acked, fpc, cursor>>
  BY DEF CountCell, flushvars
<1>3. /\ Append(buf, slot) \in Seq(S \union {slot}) /\ Len(Append(buf, slot)) = Len(buf) + 1
      /\ Cells(Append(buf, slot)) = Cells(buf) \union {slot}
      /\ \A i \in 1..Len(buf) : Append(buf, slot)[i] = buf[i]
      /\ Len(buf) \in Nat
  <2>1. Len(buf) \in Nat
    BY <1>1
  <2>2. Append(buf, slot) \in Seq(S \union {slot})
    BY <1>1, AppendCells
  <2>3. Len(Append(buf, slot)) = Len(buf) + 1
    BY <1>1, AppendCells
  <2>4. Cells(Append(buf, slot)) = Cells(buf) \union {slot}
    BY <1>1, AppendCells
  <2>5. \A i \in 1..Len(buf) : Append(buf, slot)[i] = buf[i]
    BY <1>1, AppendCells
  <2>. QED
    BY <2>1, <2>2, <2>3, <2>4, <2>5
<1>4. exposed \subseteq exposed'
  BY DEF CountCell
<1>5. \A p : Covered(p) => Covered(p)'
  BY <1>2, <1>3, <1>4 DEF Covered
<1>6. op[at] \in Cells(buf)' \union exposed'
  BY <1>2, <1>3 DEF CountCell, Exposes
<1>7. Shapes'
  BY <1>2, <1>3 DEF CountCell, IInv, Shapes
<1>8. FlushHasWork' /\ CursorCovered'
  BY <1>2, <1>3, <1>4 DEF IInv, Shapes, FlushHasWork, CursorCovered
<1>9. OpCovered'
  <2>1. \A i \in 1..Len(op) : i < at' => i < at \/ i = at
    BY DEF CountCell, IInv, Shapes
  <2>2. Cells(buf) \union disk \union exposed \subseteq Cells(buf)' \union disk' \union exposed'
    BY <1>2, <1>3, <1>4
  <2>3. ASSUME NEW i \in 1..Len(op), i < at', op[i] # NaN
        PROVE  op[i] \in Cells(buf)' \union disk' \union exposed'
    <3>1. CASE i = at
      BY <1>6, <3>1
    <3>2. CASE i < at
      BY <2>2, <2>3, <3>2 DEF IInv, OpCovered, Covered
    <3>. QED
      BY <2>1, <2>3, <3>1, <3>2
  <2>. QED
    BY <1>2, <2>3 DEF OpCovered, Covered
<1>10. AckedOrExposed'
  BY <1>2, <1>5 DEF IInv, AckedOrExposed, Covered
<1>11. ClearsWhatItWrote'
  BY <1>2, <1>3, <1>4 DEF CountCell, Exposes, IInv, ClearsWhatItWrote
<1>. QED
  BY <1>7, <1>8, <1>9, <1>10, <1>11 DEF IInv

\* Clear, Restart, and counting over Clear: whatever the buffer becomes, all it held is
\* written or exposed.
LEMMA AllCovered ==
    ASSUME IInv, Cells(buf) \subseteq disk \union exposed', disk' = disk, exposed \subseteq exposed',
           NEW S, buf' \in Seq(S), fpc' = "idle", cursor' = 0, writes' = writes,
           op' \in Seq(Point \union {NaN}), at' \in Nat \ {0}, acked' = acked,
           \A i \in 1..Len(op') : i < at' /\ op'[i] # NaN => Covered(op'[i]) \/ op'[i] \in exposed'
    PROVE  IInv'
<1>1. \A p : Covered(p) => Covered(p)'
  BY DEF Covered
<1>2. Shapes' /\ FlushHasWork' /\ CursorCovered' /\ ClearsWhatItWrote'
  BY DEF IInv, Shapes, FlushHasWork, CursorCovered, ClearsWhatItWrote
<1>3. OpCovered'
  BY <1>1 DEF OpCovered, Covered
<1>4. AckedOrExposed'
  BY <1>1 DEF IInv, AckedOrExposed, Covered
<1>. QED
  BY <1>2, <1>3, <1>4 DEF IInv

LEMMA ClearStep == ASSUME IInv, Clear PROVE IInv'
<1>1. /\ Cells(buf) \subseteq disk \union exposed' /\ buf' = <<>> /\ fpc' = "idle" /\ cursor' = 0
      /\ UNCHANGED <<disk, exposed, op, at, writes, acked>>
  BY DEF Clear, IInv, ClearsWhatItWrote, workvars
<1>2. buf' \in Seq({})
  BY <1>1
<1>. QED
  BY <1>1, <1>2, AllCovered DEF IInv, Shapes, OpCovered

LEMMA RestartStep == ASSUME IInv, Restart PROVE IInv'
<1>1. /\ Cells(buf) \subseteq disk \union exposed' /\ buf' = <<>> /\ fpc' = "idle" /\ cursor' = 0
      /\ op' = <<>> /\ at' = 1 /\ exposed \subseteq exposed' /\ UNCHANGED <<disk, writes, acked>>
  BY DEF Restart
<1>2. buf' \in Seq({}) /\ op' \in Seq(Point \union {NaN}) /\ Len(op') = 0
  BY <1>1
<1>. QED
  BY <1>1, <1>2, AllCovered

LEMMA CountOverClearStep == ASSUME IInv, CountOverClear PROVE IInv'
<1>1. PICK S : buf \in Seq(S)
  BY DEF IInv, Shapes
<1>2. Len(buf) \in Nat /\ Append(buf, slot) \in Seq(S \union {slot})
  BY <1>1
<1>3. [i \in 1..(Len(buf) + 1) |-> Garbage] \in Seq({Garbage})
  BY <1>2
<1>4. \E T : buf' \in Seq(T)
  BY <1>2, <1>3 DEF CountOverClear
<1>5. /\ Cells(buf) \subseteq disk \union exposed' /\ fpc' = "idle" /\ cursor' = 0
      /\ exposed' = exposed \union {op[at]} /\ at' = at + 1
      /\ UNCHANGED <<disk, op, writes, acked>>
  BY DEF CountOverClear, IInv, ClearsWhatItWrote
<1>6. \A i \in 1..Len(op) : i < at + 1 => i < at \/ i = at
  BY DEF IInv, Shapes
<1>7. \A i \in 1..Len(op') : i < at' /\ op'[i] # NaN => Covered(op'[i]) \/ op'[i] \in exposed'
  BY <1>5, <1>6 DEF IInv, OpCovered
<1>. QED
  BY <1>4, <1>5, <1>7, AllCovered DEF IInv, Shapes

\* A sort, by the flusher or by a read: it moves cells, keeps their number, and exposes
\* those it drops. Once there is something before the cursor, it exposes them all.
LEMMA Sorts ==
    ASSUME IInv, NEW T, buf' \in [1..Len(buf) -> T],
           exposed' = exposed \union LostBySort(buf'),
           fpc' = fpc \/ (fpc = "sorting" /\ fpc' = "writing"),
           UNCHANGED <<disk, cursor, op, at, writes, acked>>
    PROVE  IInv'
<1>1. Len(buf) \in Nat
  <2>1. PICK S : buf \in Seq(S)
    BY DEF IInv, Shapes
  <2>. QED
    BY <2>1
<1>2. buf' \in Seq(T) /\ Len(buf') = Len(buf)
  BY <1>1, SameLength
<1>3. Cells(buf) \subseteq Cells(buf') \union exposed' /\ exposed \subseteq exposed'
  BY DEF LostBySort
<1>4. \A p : Covered(p) => Covered(p)'
  BY <1>3 DEF Covered
<1>5. Shapes' /\ FlushHasWork'
  BY <1>2 DEF IInv, Shapes, FlushHasWork
<1>6. OpCovered' /\ AckedOrExposed'
  BY <1>4 DEF IInv, OpCovered, AckedOrExposed, Covered
<1>7. cursor > 0 => Cells(buf') \subseteq exposed'
  BY DEF LostBySort, IInv, Shapes
<1>8. CursorCovered'
  <2>1. \A i \in 1..cursor : buf'[i] \in Cells(buf')
    BY <1>1, <1>2 DEF Cells, IInv, Shapes
  <2>2. CASE cursor = 0
    BY <2>2 DEF CursorCovered
  <2>3. CASE cursor > 0
    BY <1>7, <2>1, <2>3 DEF CursorCovered
  <2>. QED
    BY <2>2, <2>3 DEF IInv, Shapes
<1>9. ClearsWhatItWrote'
  BY <1>7 DEF IInv, FlushHasWork, ClearsWhatItWrote
<1>. QED
  BY <1>5, <1>6, <1>8, <1>9 DEF IInv

LEMMA SortEndsStep == ASSUME IInv, SortEnds PROVE IInv'
<1>. DEFINE memory == Sorting!StableSort(Append(buf, slot), sorting)
            T == {memory[i] : i \in 1..Len(buf)}
<1>1. buf' = [i \in 1..Len(buf) |-> memory[i]]
  BY DEF SortEnds
<1>. HIDE DEF memory
<1>2. buf' \in [1..Len(buf) -> T]
  BY <1>1
<1>3. /\ exposed' = exposed \union LostBySort(buf') /\ fpc = "sorting" /\ fpc' = "writing"
      /\ UNCHANGED <<disk, cursor, op, at, writes, acked>>
  BY DEF SortEnds, workvars
<1>. QED
  BY <1>2, <1>3, Sorts

LEMMA ScanSortsStep == ASSUME IInv, ScanSorts PROVE IInv'
<1>. DEFINE memory == Sorting!StableSort(Append(buf, Garbage), Len(buf))
            T == {memory[i] : i \in 1..Len(buf)}
<1>1. buf' \in [1..Len(buf) -> Cells(buf)] \/ buf' = [i \in 1..Len(buf) |-> memory[i]]
  BY DEF ScanSorts
<1>. HIDE DEF memory
<1>2. buf' \in [1..Len(buf) -> Cells(buf)] \/ buf' \in [1..Len(buf) -> T]
  BY <1>1
<1>3. /\ exposed' = exposed \union LostBySort(buf') /\ fpc' = fpc
      /\ UNCHANGED <<disk, cursor, op, at, writes, acked>>
  BY DEF ScanSorts, workvars, flushvars
<1>. QED
  BY <1>2, <1>3, Sorts

LEMMA WriteChunkStep == ASSUME IInv, WriteChunk PROVE IInv'
<1>1. PICK n \in (cursor + 1)..Len(buf) : /\ disk' = disk \union {buf[i] : i \in (cursor + 1)..n}
                                          /\ cursor' = n
  BY DEF WriteChunk
<1>2. UNCHANGED <<buf, exposed, fpc, op, at, writes, acked>> /\ fpc = "writing"
  BY DEF WriteChunk, bufvars, workvars
<1>3. Len(buf) \in Nat
  <2>1. PICK S : buf \in Seq(S)
    BY DEF IInv, Shapes
  <2>. QED
    BY <2>1
<1>4. n \in 1..Len(buf) /\ cursor \in Nat
  BY <1>1, <1>3 DEF IInv, Shapes
<1>5. \A p : Covered(p) => Covered(p)'
  BY <1>1, <1>2 DEF Covered, Cells
<1>6. Shapes' /\ FlushHasWork' /\ ClearsWhatItWrote'
  BY <1>1, <1>2, <1>4 DEF IInv, Shapes, FlushHasWork, ClearsWhatItWrote
<1>7. OpCovered' /\ AckedOrExposed'
  BY <1>2, <1>5 DEF IInv, OpCovered, AckedOrExposed, Covered
<1>8. \A i \in 1..n : i \in 1..cursor \/ i \in (cursor + 1)..n
  BY <1>4
<1>9. CursorCovered'
  BY <1>1, <1>2, <1>8 DEF IInv, CursorCovered
<1>. QED
  BY <1>6, <1>7, <1>9 DEF IInv

----------------------------------------------------------------------------
LEMMA NextIInv == IInv /\ [Next]_vars => IInv'
<1>. SUFFICES ASSUME IInv, [Next]_vars PROVE IInv'
  OBVIOUS
<1>1. CASE UNCHANGED vars
  BY <1>1 DEF vars, bufvars, workvars, flushvars, IInv, Shapes, FlushHasWork, OpCovered,
              Covered, CursorCovered, AckedOrExposed, ClearsWhatItWrote, Cells
<1>. QED
  BY <1>1, WorkerStep, FlushStep, CountCellStep, ClearStep, RestartStep, CountOverClearStep,
     SortEndsStep, ScanSortsStep, WriteChunkStep DEF Next, Worker, Flusher, FlushMoves

LEMMA IInvHolds == Spec => []IInv
BY InitIInv, NextIInv, PTL DEF Spec

\* Series::Write, Append, FlushBufferedDatapoints, Clear, and the end of the process:
\* an acknowledged point is buffered, in a file, or one of those the model names as lost.
THEOREM WritesAccountedFor == Spec => []AckedOrExposed
<1>1. IInv => AckedOrExposed
  BY DEF IInv
<1>. QED
  BY <1>1, IInvHolds, PTL

\* Series::FlushBufferedDatapoints: when Clear is called all it frees has been written,
\* but for points counted, or sorted across the cursor, since the flush began.
THEOREM ClearsOnlyWritten == Spec => []ClearsWhatItWrote
<1>1. IInv => ClearsWhatItWrote
  BY DEF IInv
<1>. QED
  BY <1>1, IInvHolds, PTL

----------------------------------------------------------------------------
(* Series::Read beside the flush.                                            *)

\* What the types rest on.
Settled == /\ fpc # "sorting" => sorting = 0
           /\ wpc = "counting" => at <= Len(op) /\ op[at] # NaN
           /\ IsFiniteSet(disk) /\ IsFiniteSet(seen)

\* Between a read's two halves the points it wants stay in the buffer, unless a sort
\* drops them or a Clear excuses the read.
Scanned == wpc = "scanning" =>
               /\ \A p \in wanted : Time(p) >= 0 /\ \A c \in seen : Time(c) < Time(p)
               /\ ~excused => wanted \subseteq Cells(buf) \union exposed

----------------------------------------------------------------------------
LEMMA CellsTyped == ASSUME NEW s \in Seq(Cell)
                    PROVE  Len(s) \in Nat /\ Cells(s) \subseteq Cell /\ s \in [1..Len(s) -> Cell]
BY DEF Cells

LEMMA PointIsCell == Point \subseteq Cell /\ Garbage \in Cell
BY DEF Cell

\* The point being appended, when there is one.
LEMMA AppendedIsPoint == ASSUME TypeOK, Settled, IInv, wpc = "counting"
                         PROVE  op[at] \in Point
<1>1. at \in 1..Len(op) /\ op[at] # NaN /\ op \in Seq(Point \union {NaN})
  BY DEF TypeOK, Settled, IInv, Shapes
<1> QED
  BY <1>1

\* What IInv says of the next state leaves of the types.
OtherTypes == /\ buf \in Seq(Cell) /\ sorted \in BOOLEAN /\ slot \in Cell /\ disk \in SUBSET Cell
              /\ wpc \in {"idle", "appending", "counting", "scanning"}
              /\ previous \in Nat /\ acked \in SUBSET Point /\ sorting \in 0..Len(buf)
              /\ seen \in SUBSET Cell /\ wanted \in SUBSET Point /\ missed \in SUBSET Int
              /\ excused \in BOOLEAN /\ exposed \in SUBSET Cell
              /\ reads \in 0..MaxReads /\ crashes \in 0..MaxCrashes

LEMMA TypesAre == IInv => (TypeOK <=> OtherTypes)
BY DEF IInv, Shapes, TypeOK, OtherTypes

Typed == OtherTypes /\ Settled

LEMMA NothingIsTyped == IsFiniteSet({}) /\ Len(<<>>) = 0 /\ <<>> \in Seq(Cell)
BY FS_EmptySet

LEMMA Limits == MaxWrites \in Nat /\ MaxLength \in Nat /\ MaxReads \in Nat /\ MaxCrashes \in Nat
BY BoundsAssumption

LEMMA InitTyped == ASSUME Init PROVE Typed
<1>1. buf \in Seq(Cell) /\ Len(buf) = 0 /\ 0 \in 0..MaxReads /\ 0 \in 0..MaxCrashes
  BY NothingIsTyped, Limits DEF Init
<1>2. OtherTypes
  <2>1. sorted \in BOOLEAN /\ excused \in BOOLEAN
    BY DEF Init
  <2>2. slot \in Cell /\ {} \in SUBSET Cell /\ {} \in SUBSET Point /\ {} \in SUBSET Int
    BY PointIsCell DEF Init
  <2> QED
    BY <1>1, <2>1, <2>2 DEF Init, OtherTypes
<1>3. Settled
  BY NothingIsTyped DEF Init, Settled
<1> QED
  BY <1>2, <1>3 DEF Typed

\* The worker's steps that leave the buffer alone.
LEMMA WorkerTyped ==
    ASSUME IInv, Typed, IInv', (\E times \in WriteTimes : BeginWrite(times)) \/ SkipNaN \/ FillCell
                               \/ WriteReturns \/ ReadDisk \/ Scan
    PROVE  Typed'
<1> USE DEF Typed
<1>1. CASE \E times \in WriteTimes : BeginWrite(times)
  BY <1>1 DEF BeginWrite, OtherTypes, Settled, bufvars, flushvars, readvars
<1>2. CASE SkipNaN
  BY <1>2 DEF SkipNaN, OtherTypes, Settled, bufvars, flushvars, readvars
<1>3. CASE FillCell
  <2>1. slot' \in Cell
    <3>1. at \in 1..Len(op) /\ op[at] # NaN /\ op \in Seq(Point \union {NaN})
      BY <1>3 DEF FillCell, IInv, Shapes
    <3> QED
      BY <1>3, <3>1, PointIsCell DEF FillCell
  <2> QED
    BY <1>3, <2>1 DEF FillCell, OtherTypes, Settled, flushvars, readvars
<1>4. CASE WriteReturns
  <2>1. PointsOf(op) \subseteq Point
    BY DEF PointsOf, Cells, IInv, Shapes
  <2> QED
    BY <1>4, <2>1 DEF WriteReturns, OtherTypes, Settled, bufvars, flushvars, readvars
<1>5. CASE ReadDisk
  <2>1. reads' \in 0..MaxReads
    BY <1>5, Limits DEF ReadDisk, OtherTypes
  <2>2. wanted' \in SUBSET Point
    BY <1>5 DEF ReadDisk, OtherTypes
  <2> QED
    BY <1>5, <2>1, <2>2 DEF ReadDisk, OtherTypes, Settled, bufvars, flushvars
<1>6. CASE Scan
  <2>1. \A p \in wanted : Time(p) \in Int
    BY TimeIsInt, PointIsCell DEF OtherTypes
  <2>2. missed' \in SUBSET Int
    BY <1>6, <2>1 DEF Scan
  <2>3. excused' \in BOOLEAN
    BY <1>6 DEF Scan, OtherTypes, Ascending
  <2>4. IsFiniteSet({})
    BY FS_EmptySet
  <2> QED
    BY <1>6, <2>2, <2>3, <2>4 DEF Scan, OtherTypes, Settled, bufvars, flushvars
<1> QED
  BY <1>1, <1>2, <1>3, <1>4, <1>5, <1>6

LEMMA FlusherTyped ==
    ASSUME IInv, Typed, IInv', FlushBegins \/ SortBegins \/ WriteChunk \/ WritesComplete \/ Clear
    PROVE  Typed'
<1> USE DEF Typed
<1>1. buf \in Seq(Cell) /\ Len(buf) \in Nat
  BY CellsTyped DEF OtherTypes
<1>2. CASE FlushBegins
  BY <1>2 DEF FlushBegins, OtherTypes, Settled, bufvars, workvars, readvars
<1>3. CASE SortBegins
  BY <1>1, <1>3 DEF SortBegins, OtherTypes, Settled, bufvars, workvars, readvars
<1>4. CASE WritesComplete
  BY <1>4 DEF WritesComplete, OtherTypes, Settled, bufvars, workvars, readvars
<1>5. CASE WriteChunk
  <2>1. PICK n \in (cursor + 1)..Len(buf) : disk' = disk \union {buf[i] : i \in (cursor + 1)..n}
    BY <1>5 DEF WriteChunk
  <2>2. cursor \in Nat /\ n \in Int
    BY <1>1, <2>1 DEF IInv, Shapes
  <2>3. IsFiniteSet((cursor + 1)..n)
    BY <2>2, FS_Interval
  <2>4. IsFiniteSet({buf[i] : i \in (cursor + 1)..n})
    <3> DEFINE S == (cursor + 1)..n
               T == {buf[i] : i \in S}
               f == [i \in S |-> buf[i]]
    <3>1. f \in Surjection(S, T)
      BY DEF Surjection
    <3> HIDE DEF f, S, T
    <3>2. IsFiniteSet(S) => IsFiniteSet(T)
      BY <3>1, FS_Surjection
    <3> QED
      BY <2>3, <3>2 DEF S, T
  <2>5. IsFiniteSet(disk')
    BY <2>1, <2>4, FS_Union DEF Settled
  <2>6. disk' \in SUBSET Cell
    BY <1>1, <2>1, <2>2 DEF OtherTypes
  <2> QED
    BY <1>5, <2>5, <2>6 DEF WriteChunk, OtherTypes, Settled, bufvars, workvars, readvars
<1>6. CASE Clear
  <2>1. slot' \in Cell
    <3>1. 1 \in 1..Len(buf)
      BY <1>1, <1>6 DEF Clear, IInv, FlushHasWork
    <3> QED
      BY <1>1, <1>6, <3>1, PointIsCell DEF Clear
  <2>2. buf' \in Seq(Cell) /\ Len(buf') = 0
    BY <1>6 DEF Clear
  <2>3. sorting' = 0
    BY <1>6 DEF Clear, Settled
  <2>4. excused' \in BOOLEAN
    BY <1>6 DEF Clear, OtherTypes
  <2> QED
    BY <1>6, <2>1, <2>2, <2>3, <2>4 DEF Clear, OtherTypes, Settled, workvars
<1> QED
  BY <1>2, <1>3, <1>4, <1>5, <1>6

LEMMA CountsTyped ==
    ASSUME IInv, Typed, IInv', CountCell \/ CountOverClear
    PROVE  Typed'
<1> USE DEF Typed
<1>1. buf \in Seq(Cell) /\ Len(buf) \in Nat /\ slot \in Cell
  BY CellsTyped DEF OtherTypes
<1>2. wpc = "counting"
  BY DEF CountCell, CountOverClear
<1>3. op[at] \in Cell
  BY <1>2, TypesAre, AppendedIsPoint, PointIsCell
<1>4. Append(buf, slot) \in Seq(Cell) /\ Len(Append(buf, slot)) = Len(buf) + 1
  BY <1>1
<1>5. previous' \in Nat
  BY <1>1 DEF CountCell, CountOverClear
<1>6. exposed' \in SUBSET Cell
  BY <1>1, <1>3 DEF CountCell, CountOverClear, OtherTypes
<1>7. CASE CountCell
  <2>1. \E disorder \in Disorders : sorted' = (sorted /\ ~disorder)
    BY <1>7 DEF CountCell
  <2>2. sorted' \in BOOLEAN
    BY <2>1, Zenon
  <2>3. sorting' \in 0..Len(buf')
    BY <1>1, <1>4, <1>7 DEF CountCell, OtherTypes, flushvars
  <2> QED
    BY <1>4, <1>5, <1>6, <1>7, <2>2, <2>3, PointIsCell DEF CountCell, OtherTypes, Settled, flushvars, readvars
<1>8. CASE CountOverClear
  <2>1. [i \in 1..(Len(buf) + 1) |-> Garbage] \in [1..(Len(buf) + 1) -> Cell]
    BY PointIsCell
  <2>2. Len(buf) + 1 \in Nat
    BY <1>1
  <2>3. buf' \in Seq(Cell) /\ Len(buf') = Len(buf) + 1
    BY <1>4, <1>8, <2>1, <2>2, SameLength DEF CountOverClear
  <2>4. sorting' = 0 /\ fpc' = "idle"
    BY <1>8 DEF CountOverClear, Settled
  <2> QED
    BY <1>1, <1>5, <1>6, <1>8, <2>3, <2>4, PointIsCell DEF CountOverClear, OtherTypes, Settled, readvars
<1> QED
  BY <1>7, <1>8

LEMMA SortsTyped ==
    ASSUME IInv, Typed, IInv', SortEnds \/ ScanSorts
    PROVE  Typed'
<1> USE DEF Typed
<1>1. buf \in Seq(Cell) /\ Len(buf) \in Nat /\ slot \in Cell /\ Garbage \in Cell
  BY CellsTyped, PointIsCell DEF OtherTypes
<1> DEFINE len == Len(buf) + 1
<1>2. len \in Nat
  BY <1>1
<1>3. ASSUME NEW c \in Cell PROVE Append(buf, c) \in [1..len -> Cell]
  <2>1. Append(buf, c) \in Seq(Cell) /\ Len(Append(buf, c)) = len
    BY <1>1
  <2> QED
    BY <2>1, CellsTyped
<1>4. ASSUME NEW c \in Cell, NEW n \in 0..Len(buf)
      PROVE  Sorting!StableSort(Append(buf, c), n) \in [1..len -> Cell]
  <2>1. n \in 0..(len - 1)
    BY <1>1
  <2> HIDE DEF len
  <2> QED
    BY <1>2, <1>3, <2>1, SortKeeps
<1>5. CASE SortEnds
  <2> DEFINE memory == Sorting!StableSort(Append(buf, slot), sorting)
  <2>1. memory \in [1..len -> Cell]
    BY <1>1, <1>4 DEF OtherTypes
  <2>2. /\ buf' = [i \in 1..Len(buf) |-> memory[i]]
        /\ slot' = IF wpc = "counting" THEN memory[Len(buf) + 1] ELSE Garbage
    BY <1>5 DEF SortEnds
  <2> HIDE DEF memory
  <2>3. buf' \in [1..Len(buf) -> Cell] /\ slot' \in Cell
    BY <1>1, <2>1, <2>2
  <2>4. buf' \in Seq(Cell) /\ Len(buf') = Len(buf)
    BY <1>1, <2>3, SameLength
  <2>5. Cells(buf) \subseteq Cell /\ Cells(buf') \subseteq Cell
    BY <1>1, <2>4, CellsTyped
  <2>6. exposed' \in SUBSET Cell
    BY <1>5, <2>5 DEF SortEnds, LostBySort, OtherTypes
  <2> QED
    BY <1>1, <1>5, <2>3, <2>4, <2>6 DEF SortEnds, OtherTypes, Settled, workvars, readvars
<1>6. CASE ScanSorts
  <2> DEFINE memory == Sorting!StableSort(Append(buf, Garbage), Len(buf))
  <2>1. memory \in [1..len -> Cell]
    BY <1>1, <1>4
  <2>2. \/ buf' \in [1..Len(buf) -> Cells(buf)]
        \/ buf' = [i \in 1..Len(buf) |-> memory[i]]
    BY <1>6 DEF ScanSorts
  <2> HIDE DEF memory
  <2>3. buf' \in [1..Len(buf) -> Cell]
    BY <1>1, <2>1, <2>2, CellsTyped
  <2>4. buf' \in Seq(Cell) /\ Len(buf') = Len(buf)
    BY <1>1, <2>3, SameLength
  <2>5. Cells(buf) \subseteq Cell /\ Cells(buf') \subseteq Cell
    BY <1>1, <2>4, CellsTyped
  <2>6. exposed' \in SUBSET Cell
    BY <1>6, <2>5 DEF ScanSorts, LostBySort, OtherTypes
  <2> QED
    BY <1>6, <2>4, <2>6 DEF ScanSorts, OtherTypes, Settled, workvars, flushvars, readvars
<1> QED
  BY <1>5, <1>6

LEMMA RestartTyped == ASSUME IInv, Typed, IInv', Restart PROVE Typed'
<1>1. Cells(buf) \subseteq Cell
  BY CellsTyped DEF Typed, OtherTypes
<1>2. exposed' \in SUBSET Cell /\ crashes' \in 0..MaxCrashes
  BY <1>1, Limits DEF Restart, Typed, OtherTypes
<1>3. buf' \in Seq(Cell) /\ Len(buf') = 0
  BY NothingIsTyped DEF Restart
<1>4. OtherTypes'
  <2>1. sorted' \in BOOLEAN /\ excused' \in BOOLEAN
    BY DEF Restart
  <2>2. slot' \in Cell /\ {} \in SUBSET Cell /\ {} \in SUBSET Point /\ {} \in SUBSET Int
    BY PointIsCell DEF Restart
  <2> QED
    BY <1>2, <1>3, <2>1, <2>2 DEF Restart, Typed, OtherTypes
<1>5. Settled'
  BY NothingIsTyped DEF Restart, Typed, Settled
<1> QED
  BY <1>4, <1>5 DEF Typed

LEMMA StepTyped == ASSUME IInv, Typed, [Next]_vars PROVE Typed'
<1>1. IInv'
  BY NextIInv
<1>2. CASE UNCHANGED vars
  BY <1>2 DEF vars, bufvars, workvars, flushvars, readvars, Typed, OtherTypes, Settled
<1> QED
  BY <1>1, <1>2, WorkerTyped, FlusherTyped, CountsTyped, SortsTyped, RestartTyped
     DEF Next, Worker, Flusher, FlushMoves

LEMMA TypedHolds == Spec => [](IInv /\ Typed)
<1>1. Init => IInv /\ Typed
  BY InitIInv, InitTyped
<1>2. IInv /\ Typed /\ [Next]_vars => (IInv /\ Typed)'
  BY NextIInv, StepTyped
<1> QED
  BY <1>1, <1>2, PTL DEF Spec

\* WriteBuffer and Series: whatever Append, the sort and Clear do to each other, the
\* buffer holds points and cells of freed memory and nothing else, and a flush's cursor
\* and the end of a sort are within it.
THEOREM TypesHold == Spec => []TypeOK
<1>1. IInv /\ Typed => TypeOK
  BY TypesAre DEF Typed
<1> QED
  BY <1>1, TypedHolds, PTL

----------------------------------------------------------------------------
\* A finite set of cells has a newest.
LEMMA Newest == ASSUME NEW C \in SUBSET Cell, IsFiniteSet(C), C # {}
                PROVE  \E d \in C : \A c \in C : Time(c) <= Time(d)
<1> DEFINE R == StrictSubsetOrdering(Cell)
           F == FiniteSubsetsOf(Cell)
           Has(T) == \E d \in T : \A c \in T : Time(c) <= Time(d)
           Bad == {T \in F : T # {} /\ ~Has(T)}
<1>1. IsWellFoundedOn(R, F)
  BY FS_StrictSubsetOrderingWellFounded
<1>2. C \in F
  BY DEF FiniteSubsetsOf
<1>3. ASSUME Bad # {} PROVE FALSE
  <2>1. PICK T \in Bad : \A U \in Bad : ~(<<U, T>> \in R)
    <3>1. Bad \subseteq F
      OBVIOUS
    <3> HIDE DEF Bad, R, F
    <3> QED
      BY <1>1, <1>3, <3>1, WFMin
  <2>2. T \in F /\ T # {} /\ ~Has(T)
    <3> HIDE DEF Has, F
    <3> QED
      OBVIOUS
  <2>3. T \subseteq Cell /\ IsFiniteSet(T)
    BY <2>2 DEF FiniteSubsetsOf
  <2>4. PICK e : e \in T
    BY <2>2
  <2> DEFINE U == T \ {e}
  <2>5. U \in F
    <3>1. IsFiniteSet(U)
      BY <2>3, FS_Subset
    <3> QED
      BY <2>3, <3>1 DEF FiniteSubsetsOf
  <2>6. <<U, T>> \in R
    <3>1. U \subseteq T /\ U # T /\ U \subseteq Cell
      BY <2>3, <2>4
    <3> HIDE DEF U
    <3> QED
      BY <2>3, <3>1 DEF StrictSubsetOrdering
  <2>7. U \notin Bad
    BY <2>1, <2>6
  <2>8. \A c \in T : Time(c) \in Int
    BY <2>3, TimeIsInt
  <2>9. CASE U = {}
    <3>1. \A c \in T : Time(c) <= Time(e)
      BY <2>4, <2>8, <2>9
    <3> QED
      BY <2>2, <2>4, <3>1
  <2>10. CASE U # {}
    <3>1. Has(U)
      <4> HIDE DEF Has, U, F
      <4> QED
        BY <2>5, <2>7, <2>10
    <3>2. PICK d \in U : \A c \in U : Time(c) <= Time(d)
      BY <3>1
    <3>3. \A c \in T : Time(c) <= Time(d) \/ c = e
      BY <3>2
    <3>4. \A c \in T : Time(c) <= Time(IF Time(e) <= Time(d) THEN d ELSE e)
      BY <2>4, <2>8, <3>2, <3>3
    <3> QED
      BY <2>2, <2>4, <3>2, <3>4
  <2> QED
    BY <2>9, <2>10
<1>4. Has(C)
  <2> HIDE DEF Has, F
  <2> QED
    BY <1>2, <1>3
<1> QED
  BY <1>4

\* Where the disk has left next_time: past all of it, and no further.
LEMMA FromIs ==
    ASSUME NEW C \in SUBSET Cell, IsFiniteSet(C), NEW t \in Int, t >= 0, \A c \in C : Time(c) < t
    PROVE  LET from == CHOOSE n \in {0} \union {Time(c) + 1 : c \in C} : \A c \in C : n > Time(c)
           IN  from \in Int /\ from <= t
<1> DEFINE D == {0} \union {Time(c) + 1 : c \in C}
           Past(n) == \A c \in C : n > Time(c)
<1>1. \A c \in C : Time(c) \in Int
  BY TimeIsInt
<1>2. \E n \in D : Past(n)
  <2>1. CASE C = {}
    BY <2>1
  <2>2. CASE C # {}
    <3>1. PICK d \in C : \A c \in C : Time(c) <= Time(d)
      BY <2>2, Newest
    <3>2. Past(Time(d) + 1)
      BY <1>1, <3>1
    <3> QED
      BY <3>2
  <2> QED
    BY <2>1, <2>2
<1> DEFINE from == CHOOSE n \in D : Past(n)
<1>3. from \in D
  <2> HIDE DEF D, Past
  <2> QED
    BY <1>2
<1>4. from \in Int /\ from <= t
  <2> HIDE DEF from
  <2> QED
    BY <1>1, <1>3
<1> QED
  BY <1>4

\* A loop over cells in order takes a cell of each time not before where it starts.
LEMMA TakesEachTime ==
    ASSUME NEW s \in Seq(Cell), Ascending(s), NEW from \in Int,
           NEW p \in Cells(s), from <= Time(p)
    PROVE  \E c \in Taken(s, from) : Time(c) = Time(p)
<1> DEFINE C == {k \in Nat : k \in 1..Len(s) /\ Time(s[k]) = Time(p)}
<1>1. Len(s) \in Nat /\ \A k \in 1..Len(s) : Time(s[k]) \in Int
  BY TimeIsInt
<1>2. PICK i \in 1..Len(s) : s[i] = p
  BY DEF Cells
<1>3. i \in C
  BY <1>1, <1>2
<1>4. PICK j \in C : \A k \in C : j <= k
  <2>1. C \in SUBSET Nat /\ C # {}
    BY <1>3
  <2> HIDE DEF C
  <2> QED
    BY <2>1, NatMin
<1>5. j \in 1..Len(s) /\ Time(s[j]) = Time(p)
  BY <1>4
<1>6. ASSUME NEW k \in 1..(j - 1) PROVE Time(s[k]) < Time(s[j])
  <2>1. k \in Nat /\ k \in 1..Len(s) /\ k < j /\ j \in Nat
    BY <1>1, <1>5
  <2>2. k \notin C
    <3> HIDE DEF C
    <3> QED
      BY <1>4, <2>1
  <2>3. Time(s[k]) # Time(p)
    BY <2>1, <2>2
  <2>4. Time(s[k]) <= Time(s[j])
    BY <1>5, <2>1 DEF Ascending
  <2> QED
    BY <1>1, <1>5, <2>1, <2>3, <2>4
<1> HIDE DEF C
<1>7. s[j] \in Taken(s, from)
  BY <1>5, <1>6 DEF Taken
<1> QED
  BY <1>5, <1>7

LEMMA ScanReads == ASSUME IInv, Typed, Scanned, NewPointsRead, Scan PROVE NewPointsRead'
<1>1. SUFFICES ASSUME ~excused', NEW p \in wanted \ exposed
               PROVE  LET from == CHOOSE t \in {0} \union {Time(c) + 1 : c \in seen} :
                                      \A c \in seen : t > Time(c)
                      IN  \E c \in Taken(buf, from) : Time(c) = Time(p)
  BY DEF Scan, NewPointsRead
<1> DEFINE from == CHOOSE t \in {0} \union {Time(c) + 1 : c \in seen} : \A c \in seen : t > Time(c)
<1>2. ~excused /\ Ascending(buf) /\ wpc = "scanning"
  BY <1>1 DEF Scan
<1>3. p \in Cells(buf) /\ Time(p) >= 0 /\ \A c \in seen : Time(c) < Time(p)
  BY <1>1, <1>2 DEF Scanned
<1>4. Time(p) \in Int
  BY TimeIsInt, PointIsCell DEF Typed, OtherTypes
<1>5. seen \in SUBSET Cell /\ IsFiniteSet(seen) /\ buf \in Seq(Cell)
  BY DEF Typed, OtherTypes, Settled
<1>6. from \in Int /\ from <= Time(p)
  BY <1>3, <1>4, <1>5, FromIs
<1> HIDE DEF from
<1>7. \E c \in Taken(buf, from) : Time(c) = Time(p)
  BY <1>2, <1>3, <1>5, <1>6, TakesEachTime
<1> QED
  BY <1>7 DEF from

LEMMA StepScanned == ASSUME IInv, Typed, Scanned, [Next]_vars PROVE Scanned'
<1>1. CASE ReadDisk
  <2>1. ASSUME NEW p \in wanted' PROVE p \in Cells(buf) \union exposed
    <3>1. p \in acked /\ \A d \in disk : Time(d) < Time(p)
      BY <1>1, <2>1 DEF ReadDisk
    <3>2. Time(p) \in Int
      BY <3>1, TimeIsInt, PointIsCell DEF Typed, OtherTypes
    <3>3. p \notin disk
      BY <3>1, <3>2
    <3> QED
      BY <3>1, <3>3 DEF IInv, AckedOrExposed
  <2>2. Cells(buf)' = Cells(buf) /\ exposed' = exposed /\ seen' = disk
    BY <1>1 DEF ReadDisk, bufvars, Cells
  <2>3. \A p \in wanted' : Time(p) >= 0 /\ \A c \in seen' : Time(c) < Time(p)
    BY <1>1 DEF ReadDisk
  <2> QED
    BY <2>1, <2>2, <2>3 DEF Scanned
<1>2. CASE SortEnds \/ ScanSorts
  <2>1. exposed' = exposed \union LostBySort(buf') /\ UNCHANGED <<wpc, wanted, seen, excused>>
    BY <1>2 DEF SortEnds, ScanSorts, workvars, readvars
  <2>2. Cells(buf) \subseteq Cells(buf') \union exposed'
    BY <2>1 DEF LostBySort
  <2>3. Cells(buf') = Cells(buf)'
    BY DEF Cells
  <2>4. exposed \subseteq exposed'
    BY <2>1
  <2> QED
    BY <2>1, <2>2, <2>3, <2>4 DEF Scanned
<1>3. CASE Clear
  BY <1>3 DEF Clear, Scanned, workvars
<1>4. CASE \/ \E times \in WriteTimes : BeginWrite(times)
           \/ SkipNaN \/ FillCell \/ CountCell \/ CountOverClear \/ WriteReturns \/ Scan \/ Restart
  <2>1. wpc' # "scanning"
    BY <1>4 DEF BeginWrite, SkipNaN, FillCell, CountCell, CountOverClear, WriteReturns, Scan, Restart
  <2> QED
    BY <2>1 DEF Scanned
<1>5. CASE FlushBegins \/ SortBegins \/ WriteChunk \/ WritesComplete \/ UNCHANGED vars
  <2>1. UNCHANGED <<buf, exposed, wpc, wanted, seen, excused>>
    BY <1>5 DEF FlushBegins, SortBegins, WriteChunk, WritesComplete, vars, bufvars, workvars, readvars
  <2> QED
    BY <2>1 DEF Scanned, Cells
<1> QED
  BY <1>1, <1>2, <1>3, <1>4, <1>5 DEF Next, Worker, Flusher, FlushMoves

LEMMA StepReads == ASSUME IInv, Typed, Scanned, NewPointsRead, [Next]_vars PROVE NewPointsRead'
<1>1. CASE Scan
  BY <1>1, ScanReads
<1>2. CASE ReadDisk \/ Restart
  BY <1>2 DEF ReadDisk, Restart, NewPointsRead
<1>3. CASE Clear
  BY <1>3 DEF Clear, NewPointsRead
<1>4. CASE \/ \E times \in WriteTimes : BeginWrite(times)
           \/ SkipNaN \/ FillCell \/ CountCell \/ CountOverClear \/ WriteReturns \/ ScanSorts
           \/ FlushBegins \/ SortBegins \/ WriteChunk \/ WritesComplete \/ SortEnds
           \/ UNCHANGED vars
  <2>1. UNCHANGED <<missed, excused>>
    BY <1>4 DEF BeginWrite, SkipNaN, FillCell, CountCell, CountOverClear, WriteReturns, ScanSorts,
       FlushBegins, SortBegins, WriteChunk, WritesComplete, SortEnds, vars, readvars
  <2> QED
    BY <2>1 DEF NewPointsRead
<1> QED
  BY <1>1, <1>2, <1>3, <1>4 DEF Next, Worker, Flusher, FlushMoves

\* Series::Read beside FlushBufferedDatapoints: what is newer than the files comes from
\* the buffer, whatever chunks are written and however the buffer is sorted meanwhile,
\* unless Clear came between the two halves or a sort left the buffer out of order.
THEOREM ReadsNewPoints == Spec => []NewPointsRead
<1> DEFINE Inv == IInv /\ Typed /\ Scanned /\ NewPointsRead
<1>1. Init => Inv
  BY InitIInv, InitTyped DEF Init, Scanned, NewPointsRead
<1>2. Inv /\ [Next]_vars => Inv'
  BY NextIInv, StepTyped, StepScanned, StepReads
<1>3. Inv => NewPointsRead
  OBVIOUS
<1> QED
  BY <1>1, <1>2, <1>3, PTL DEF Spec
============================================================================

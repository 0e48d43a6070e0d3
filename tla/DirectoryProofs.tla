-------------------------- MODULE DirectoryProofs --------------------------
(* Proofs about DataDirectory and SeriesRead, for every set of timestamps,   *)
(* every size of a file and of a read buffer, and every bound; and about the *)
(* search of a directory, FindFirst.                                         *)
EXTENDS SeriesRead, FindFirst, FiniteSetTheorems, SequenceTheorems, WellFoundedInduction, TLAPS

----------------------------------------------------------------------------
(* Induction, from the well-founded order of the finite sets: the library's  *)
(* theorems about it take an operator, these take a set.                     *)

LEMMA NatMin == ASSUME NEW C \in SUBSET Nat, C # {}
                PROVE  \E n \in C : \A m \in C : n <= m
<1> DEFINE T == {0..n : n \in C}
           R == StrictSubsetOrdering(Nat)
           S == FiniteSubsetsOf(Nat)
<1>1. IsWellFoundedOn(R, S)
  BY FS_StrictSubsetOrderingWellFounded
<1>2. \A n \in Nat : 0..n \in S
  <2> TAKE n \in Nat
  <2>1. IsFiniteSet(0..n)
    BY FS_Interval
  <2> QED
    BY <2>1 DEF FiniteSubsetsOf
<1>3. T \subseteq S /\ T # {}
  BY <1>2
<1> HIDE DEF R, S
<1>4. \E x \in T : \A y \in T : ~(<<y, x>> \in R)
  <2> HIDE DEF T
  <2> QED
    BY <1>1, <1>3, WFMin
<1>5. PICK n \in C : \A y \in T : ~(<<y, 0..n>> \in R)
  BY <1>4
<1>6. \A m \in C : m < n => 0..m \in T /\ <<0..m, 0..n>> \in R
  <2> TAKE m \in C
  <2> SUFFICES ASSUME m < n PROVE 0..m \in T /\ <<0..m, 0..n>> \in R
    OBVIOUS
  <2>1. 0..m \subseteq 0..n /\ 0..m # 0..n
    OBVIOUS
  <2> QED
    BY <2>1 DEF R, StrictSubsetOrdering
<1>7. \A m \in C : ~(m < n)
  BY <1>5, <1>6
<1>8. \A m \in C : m \in Nat /\ n \in Nat
  OBVIOUS
<1> HIDE DEF T
<1> QED
  BY <1>7, <1>8

LEMMA Induction == ASSUME NEW I \in SUBSET Nat, 0 \in I, \A n \in Nat : n \in I => n + 1 \in I
                   PROVE  I = Nat
<1>1. SUFFICES ASSUME Nat \ I # {} PROVE FALSE
  OBVIOUS
<1>2. PICK n \in Nat \ I : \A m \in Nat \ I : n <= m
  BY <1>1, NatMin
<1>3. n # 0 /\ n - 1 \in Nat
  BY <1>2
<1> QED
  BY <1>2, <1>3

\* What a definition by recursion over an interval denotes: there is a function that
\* takes each value from the one before.
Computable(S, s, a, b, g) ==
    \E f \in [a..b -> S] : f[a] = s /\ \A k \in a..b : k # a => f[k] = g[k][f[k - 1]]

LEMMA Recursion ==
    ASSUME NEW S, NEW s \in S, NEW a \in Int, NEW b \in Int, a <= b,
           NEW g \in [Int -> [S -> S]]
    PROVE  Computable(S, s, a, b, g)
<1> DEFINE Is(f, m) == f[a] = s /\ \A k \in a..(a + m) : k # a => f[k] = g[k][f[k - 1]]
           I == {m \in Nat : \E f \in [a..(a + m) -> S] : Is(f, m)}
<1>1. 0 \in I
  <2> DEFINE f == [k \in a..(a + 0) |-> s]
  <2>1. f \in [a..(a + 0) -> S] /\ Is(f, 0)
    OBVIOUS
  <2>2. \E h \in [a..(a + 0) -> S] : Is(h, 0)
    <3> HIDE DEF f, Is
    <3> QED
      BY <2>1
  <2> QED
    BY <2>2
<1>2. ASSUME NEW m \in I PROVE m + 1 \in I
  <2>1. PICK f \in [a..(a + m) -> S] : Is(f, m)
    OBVIOUS
  <2> DEFINE h == [k \in a..(a + (m + 1)) |-> IF k = a + (m + 1) THEN g[k][f[k - 1]] ELSE f[k]]
  <2>2. f[a + m] \in S /\ g[a + (m + 1)] \in [S -> S] /\ (a + (m + 1)) - 1 = a + m
    OBVIOUS
  <2>3. h \in [a..(a + (m + 1)) -> S]
    BY <2>2
  <2>4. h[a] = s
    BY <2>1
  <2>5. ASSUME NEW k \in a..(a + (m + 1)), k # a
        PROVE  h[k] = g[k][h[k - 1]]
    <3>1. CASE k = a + (m + 1)
      <4>1. h[k - 1] = f[k - 1]
        BY <3>1
      <4> QED
        BY <3>1, <4>1
    <3>2. CASE k # a + (m + 1)
      <4>1. k \in a..(a + m) /\ h[k] = f[k] /\ h[k - 1] = f[k - 1]
        BY <2>5, <3>2
      <4>2. f[k] = g[k][f[k - 1]]
        BY <4>1, <2>1, <2>5
      <4> QED
        BY <4>1, <4>2
    <3> QED
      BY <3>1, <3>2
  <2>6. \E q \in [a..(a + (m + 1)) -> S] : Is(q, m + 1)
    <3>1. Is(h, m + 1)
      BY <2>4, <2>5
    <3> HIDE DEF h, Is
    <3> QED
      BY <2>3, <3>1
  <2> HIDE DEF h, Is
  <2> QED
    BY <2>6
<1>3. I = Nat
  <2>1. I \subseteq Nat
    OBVIOUS
  <2> HIDE DEF I
  <2> QED
    BY <1>1, <1>2, <2>1, Induction
<1>4. b - a \in Nat /\ a + (b - a) = b
  OBVIOUS
<1>5. \E f \in [a..(a + (b - a)) -> S] : Is(f, b - a)
  BY <1>3, <1>4
<1> QED
  BY <1>4, <1>5 DEF Computable

----------------------------------------------------------------------------
(* FindFirstPotentialFile.                                                   *)

FileName == [min : Int, max : Int, opt : BOOLEAN]
Names == Seq(FileName)

LEMMA ProbeType == ASSUME NEW fs \in Names, NEW t \in Int
                   PROVE  Probe(fs, t) \in [Indices(fs) -> Indices(fs)]
<1>1. Len(fs) \in Nat
  BY DEF Names
<1>2. ASSUME NEW s \in Indices(fs) PROVE Probe(fs, t)[s] \in Indices(fs)
  <2> DEFINE probe == (s.right - s.left) \div 2
  <2>1. s.left \in 0..Len(fs) /\ s.right \in 0..Len(fs) /\ s.middle \in 0..Len(fs)
    BY DEF Indices
  <2>2. s.left < s.right => probe \in 0..Len(fs) /\ probe + 1 \in 0..Len(fs)
    BY <1>1, <2>1
  <2> QED
    BY <2>1, <2>2 DEF Probe, Indices
<1> QED
  BY <1>2 DEF Probe

LEMMA SearchedIs ==
    ASSUME NEW fs \in Names, NEW t \in Int
    PROVE  /\ Passes(fs) \in Nat
           /\ \E f \in [0..Passes(fs) -> Indices(fs)] :
                  /\ f[0] = [left |-> 0, middle |-> 0, right |-> Len(fs)]
                  /\ \A k \in 1..Passes(fs) : f[k] = Probe(fs, t)[f[k - 1]]
                  /\ Searched(fs, t) = f[Passes(fs)]
<1> DEFINE n == Passes(fs)
           first == [left |-> 0, middle |-> 0, right |-> Len(fs)]
           Is(f) == f = [k \in 0..n |-> IF k = 0 THEN first ELSE Probe(fs, t)[f[k - 1]]]
           g == [k \in Int |-> Probe(fs, t)]
<1>1. n \in Nat
  BY DEF Names, Passes
<1>2. first \in Indices(fs)
  BY DEF Names, Indices
<1>3. g \in [Int -> [Indices(fs) -> Indices(fs)]]
  BY ProbeType
<1>4. Searched(fs, t) = (CHOOSE f : Is(f))[n]
  BY DEF Searched
<1> HIDE DEF n, first
<1>5. PICK f \in [0..n -> Indices(fs)] :
          f[0] = first /\ \A k \in 0..n : k # 0 => f[k] = g[k][f[k - 1]]
  <2> HIDE DEF g
  <2>1. Computable(Indices(fs), first, 0, n, g)
    BY <1>1, <1>2, <1>3, Recursion
  <2> QED
    BY <2>1 DEF Computable
<1>6. Is(f)
  <2>1. ASSUME NEW k \in 0..n PROVE f[k] = IF k = 0 THEN first ELSE Probe(fs, t)[f[k - 1]]
    BY <1>1, <1>5
  <2> QED
    BY <1>5, <2>1
<1>7. PICK h : Is(h) /\ Searched(fs, t) = h[n]
  BY <1>4, <1>6
<1>8. h[0] = first /\ \A k \in 1..n : h[k] = Probe(fs, t)[h[k - 1]]
  BY <1>1, <1>7
<1>9. h \in [0..n -> Indices(fs)]
  <2> DEFINE I == {k \in Nat : k <= n => h[k] \in Indices(fs)}
  <2>1. 0 \in I
    BY <1>2, <1>8
  <2>2. ASSUME NEW k \in Nat, k \in I PROVE k + 1 \in I
    <3>1. CASE k + 1 <= n
      <4>1. h[k] \in Indices(fs) /\ h[k + 1] = Probe(fs, t)[h[k]]
        BY <1>1, <1>8, <2>2, <3>1
      <4> QED
        BY <4>1, ProbeType
    <3>2. CASE ~(k + 1 <= n)
      BY <3>2
    <3> QED
      BY <3>1, <3>2
  <2>3. I = Nat
    <3> HIDE DEF I
    <3>1. I \in SUBSET Nat
      BY DEF I
    <3> QED
      BY <2>1, <2>2, <3>1, Induction
  <2>4. \A k \in 0..n : h[k] \in Indices(fs)
    BY <1>1, <2>3
  <2> QED
    BY <1>7, <2>4
<1> QED
  BY <1>1, <1>7, <1>8, <1>9 DEF n, first

\* The file a search may return: those before it do not start after the timestamp, nor
\* does it, unless it is the first; and one before it that starts at the timestamp is
\* followed by another that does.
Fit(fs, t, i) ==
    /\ i \in 1..(Len(fs) + 1)
    /\ i > 1 => i <= Len(fs) /\ fs[i].min <= t
    /\ \A j \in 1..(i - 1) :
           fs[j].min <= t /\ (fs[j].min = t => \E k \in (j + 1)..Len(fs) : fs[k].min = t)

\* A search has not gone right yet, has ended, or has gone right and never will.
SearchInv(fs, t, s) ==
    \/ s.left = 0 /\ s.right > 0
    \/ s.left >= s.right /\ Fit(fs, t, s.middle + 1)
    \/ s.left > 0 /\ s.left < s.right /\ s.right >= 3 /\ fs[(s.right \div 2) + 1].min < t

LEMMA StartIsInt == ASSUME NEW fs \in Names, NEW i \in 1..Len(fs)
                    PROVE  fs[i].min \in Int /\ fs[i].max \in Int
<1>1. fs[i] \in FileName
  BY DEF Names
<1> QED
  BY <1>1 DEF FileName

LEMMA OrderedStarts == ASSUME NEW fs \in Names, Ordered(fs), NEW i \in 1..Len(fs), NEW j \in 1..Len(fs), i <= j
                       PROVE  fs[i].min \in Int /\ fs[j].min \in Int /\ fs[i].min <= fs[j].min
<1>1. fs[i].min \in Int /\ fs[j].min \in Int
  BY StartIsInt
<1>2. i = j \/ i < j
  OBVIOUS
<1> QED
  BY <1>1, <1>2 DEF Ordered

LEMMA HitFits == ASSUME NEW fs \in Names, Ordered(fs), NEW t \in Int, NEW i \in 1..Len(fs),
                        fs[i].min = t
                 PROVE  Fit(fs, t, i)
<1>1. \A j \in 1..(i - 1) : fs[j].min <= t
  BY OrderedStarts
<1>2. \A j \in 1..(i - 1) : i \in (j + 1)..Len(fs)
  BY DEF Names
<1> QED
  BY <1>1, <1>2 DEF Fit, Names

LEMMA EarlierFits == ASSUME NEW fs \in Names, Ordered(fs), NEW t \in Int, NEW i \in 1..Len(fs),
                            fs[i].min < t
                     PROVE  Fit(fs, t, i)
<1>1. \A j \in 1..(i - 1) : fs[j].min \in Int /\ fs[j].min < t
  <2> TAKE j \in 1..(i - 1)
  <2>1. fs[j].min \in Int /\ fs[i].min \in Int /\ fs[j].min <= fs[i].min
    BY OrderedStarts
  <2> QED
    BY <2>1
<1>2. fs[i].min \in Int
  BY StartIsInt
<1> QED
  BY <1>1, <1>2 DEF Fit, Names

LEMMA SearchStep ==
    ASSUME NEW fs \in Names, Ordered(fs), NEW t \in Int, NEW s \in Indices(fs),
           SearchInv(fs, t, s)
    PROVE  SearchInv(fs, t, Probe(fs, t)[s])
<1> DEFINE n == Len(fs)
           probe == (s.right - s.left) \div 2
           r == Probe(fs, t)[s]
<1>1. n \in Nat /\ s.left \in 0..n /\ s.right \in 0..n /\ s.middle \in 0..n
  BY DEF Names, Indices
<1>2. CASE s.left >= s.right
  <2>1. r = s
    BY <1>1, <1>2 DEF Probe
  <2> QED
    BY <2>1
<1>3. CASE s.left < s.right
  <2>1. probe \in 0..(n - 1) /\ probe + 1 \in 1..n /\ probe < s.right
    BY <1>1, <1>3
  <2>2. fs[probe + 1].min \in Int
    BY <2>1, StartIsInt
  <2>3. CASE fs[probe + 1].min > t
    <3>1. r = [left |-> s.left, middle |-> probe, right |-> probe]
      BY <1>1, <1>3, <2>2, <2>3 DEF Probe
    <3>2. CASE s.left = 0 /\ probe = 0
      <4>1. r.left = 0 /\ r.right = 0 /\ r.middle = 0
        BY <3>1, <3>2
      <4>2. Fit(fs, t, 1)
        BY <1>1 DEF Fit
      <4> QED
        BY <4>1, <4>2 DEF SearchInv
    <3>3. CASE s.left = 0 /\ probe # 0
      BY <2>1, <3>1, <3>3 DEF SearchInv
    <3>4. CASE s.left # 0
      <4>1. s.right >= 3 /\ fs[(s.right \div 2) + 1].min < t
        BY <1>1, <1>3, <3>4 DEF SearchInv
      <4>2. (s.right \div 2) + 1 \in 1..n /\ probe + 1 <= (s.right \div 2) + 1
        BY <1>1, <1>3, <4>1, SMTT(30)
      <4>3. fs[probe + 1].min <= fs[(s.right \div 2) + 1].min /\ fs[(s.right \div 2) + 1].min \in Int
        BY <2>1, <4>2, OrderedStarts
      <4> QED
        BY <2>2, <2>3, <4>1, <4>3
    <3> QED
      BY <3>2, <3>3, <3>4
  <2>4. CASE fs[probe + 1].min < t
    <3>1. r = [left |-> probe + 1, middle |-> probe, right |-> s.right]
      BY <1>1, <1>3, <2>2, <2>4, SMTT(30) DEF Probe
    <3>2. Fit(fs, t, probe + 1)
      BY <2>1, <2>4, EarlierFits
    <3>3. CASE probe + 1 >= s.right
      BY <3>1, <3>2, <3>3 DEF SearchInv
    <3>4. CASE probe + 1 < s.right
      <4>1. s.right >= 3 /\ fs[(s.right \div 2) + 1].min < t
        <5>1. CASE s.left = 0
          <6>1. probe = s.right \div 2 /\ s.right >= 3
            BY <1>1, <2>1, <3>4, <5>1
          <6> QED
            BY <2>4, <6>1
        <5>2. CASE s.left # 0
          BY <1>1, <1>3, <5>2 DEF SearchInv
        <5> QED
          BY <5>1, <5>2
      <4> QED
        BY <2>1, <3>1, <3>4, <4>1 DEF SearchInv
    <3> QED
      BY <1>1, <2>1, <3>3, <3>4
  <2>5. CASE fs[probe + 1].min = t
    <3>1. r = [left |-> probe, middle |-> probe, right |-> probe]
      BY <1>1, <1>3, <2>2, <2>5 DEF Probe
    <3>2. Fit(fs, t, probe + 1)
      BY <2>1, <2>5, HitFits
    <3> QED
      BY <2>1, <3>1, <3>2 DEF SearchInv
  <2> QED
    BY <2>2, <2>3, <2>4, <2>5
<1> QED
  BY <1>1, <1>2, <1>3

LEMMA SearchReturns ==
    ASSUME NEW fs \in Names, Ordered(fs), NEW t \in Int
    PROVE  Fit(fs, t, FindFirst(fs, t))
<1>1. PICK f \in [0..Passes(fs) -> Indices(fs)] :
          /\ f[0] = [left |-> 0, middle |-> 0, right |-> Len(fs)]
          /\ \A k \in 1..Passes(fs) : f[k] = Probe(fs, t)[f[k - 1]]
          /\ Searched(fs, t) = f[Passes(fs)]
  BY SearchedIs
<1>2. Passes(fs) \in Nat
  BY SearchedIs
<1>3. Fit(fs, t, 1)
  BY DEF Fit, Names
<1> DEFINE I == {k \in Nat : k <= Passes(fs) => SearchInv(fs, t, f[k])}
<1>4. 0 \in I
  <2>1. SearchInv(fs, t, f[0])
    BY <1>1, <1>3 DEF SearchInv, Names
  <2> QED
    BY <2>1
<1>5. ASSUME NEW k \in Nat, k \in I PROVE k + 1 \in I
  <2>1. ASSUME k + 1 <= Passes(fs) PROVE SearchInv(fs, t, f[k + 1])
    <3>1. f[k] \in Indices(fs) /\ SearchInv(fs, t, f[k]) /\ f[k + 1] = Probe(fs, t)[f[k]]
      <4>1. k \in 0..Passes(fs) /\ k + 1 \in 1..Passes(fs) /\ (k + 1) - 1 = k
        BY <1>2, <2>1
      <4>2. SearchInv(fs, t, f[k])
        BY <1>5, <4>1
      <4> QED
        BY <1>1, <4>1, <4>2
    <3> HIDE DEF I
    <3>2. SearchInv(fs, t, Probe(fs, t)[f[k]])
      BY <3>1, SearchStep
    <3> QED
      BY <3>1, <3>2
  <2> QED
    BY <2>1
<1>6. I = Nat
  <2>1. I \in SUBSET Nat
    OBVIOUS
  <2> HIDE DEF I
  <2> QED
    BY <1>4, <1>5, <2>1, Induction
<1> DEFINE s == f[Passes(fs)]
<1>7. s \in Indices(fs) /\ SearchInv(fs, t, s)
  BY <1>1, <1>2, <1>6
<1>8. s.left \in Nat /\ s.right \in Nat /\ s.middle \in Nat
  BY <1>7 DEF Indices, Names
<1>9. CASE s.left >= s.right
  <2>1. Fit(fs, t, s.middle + 1)
    BY <1>7, <1>8, <1>9 DEF SearchInv
  <2>2. FindFirst(fs, t) = s.middle + 1
    BY <1>1, <1>8, <1>9 DEF FindFirst, Spins, Middle, Never
  <2> QED
    BY <2>1, <2>2
<1>10. CASE ~(s.left >= s.right)
  <2>1. FindFirst(fs, t) = 1
    BY <1>1, <1>10 DEF FindFirst, Spins, Middle
  <2> QED
    BY <1>3, <2>1
<1> QED
  BY <1>9, <1>10

----------------------------------------------------------------------------
(* DataDirectory: the inductive invariant.                                   *)

Inside == pc \in {"renaming", "marking", "moving"}

Ascending(s) == \A i, j \in 1..Len(s) : i < j => s[i].time < s[j].time

Shapes == /\ store \in [DOMAIN store -> Seq(Point)] /\ IsFiniteSet(DOMAIN store)
          /\ Ascending(buf)
          /\ pc \in {"listing", "spinning"} => cursor < Len(buf)
          /\ pc \notin {"idle", "listing"} => known
          /\ pc \in {"idle", "listing", "spinning"} => at = 1
          /\ IF Inside THEN /\ cursor >= 1
                            /\ Len(new) <= 1 /\ (new = <<>> => at <= Len(files))
                       ELSE new = <<>>
          /\ IF pc = "moving" THEN Len(moving) = 1 ELSE moving = <<>>

\* The file under the name its points are in.
Written == IF pc = "moving" THEN moving[1] ELSE Object

Kept == Inside => Written \in DOMAIN store /\ Written.min = Object.min

\* What the last point written tells of the files is what the next one tells of them.
LastTime == buf[cursor].time
Covers(t) == \A i \in 1..(at - 1) : files[i].min <= t
Sorted == ~filled =>
    /\ Ordered(files)
    /\ \A n \in DOMAIN store : Len(store[n]) < MaxPoints
    /\ pc = "placing" /\ cursor < Len(buf) => Covers(NextTime)
    /\ Inside => Object.min <= LastTime
    /\ new # <<>> => Covers(Object.min) /\ \A i \in at..Len(files) : Object.min < files[i].min

InRangeOf(ps, from, to) == \A p \in Range(ps) : from <= p.time /\ p.time <= to
Named == crashes = 0 =>
    \A n \in DOMAIN store :
        IF Inside /\ n = Written
        THEN /\ pc = "renaming" => /\ InRangeOf(store[n], n.min, IF reach > n.max THEN reach ELSE n.max)
             /\ pc = "marking" => InRangeOf(store[n], n.min, n.max)
             /\ pc = "moving" => InRangeOf(store[n], Object.min, Object.max)
        ELSE InRangeOf(store[n], n.min, n.max)

\* The file of the i-th object, by the name it has on disk.
OnDisk(i) == IF pc = "moving" /\ new = <<>> /\ i = at THEN moving[1] ELSE files[i]

\* No two files begin at the same time: then no rename replaces one.
Distinct == ~filled /\ ~ignored =>
    /\ \A m, n \in DOMAIN store : m.min = n.min => m = n
    /\ \A i, j \in 1..Len(files) : i < j => files[i].min < files[j].min
    /\ known => \A n \in DOMAIN store : \/ \E i \in 1..Len(files) : n = OnDisk(i)
                                        \/ new # <<>> /\ n = Written
    /\ pc = "placing" /\ cursor < Len(buf) => \A i \in 1..(at - 1) : files[i].min < NextTime
    /\ new # <<>> => \A i \in 1..(at - 1) : files[i].min < Object.min
    /\ flushed \subseteq Stored

\* What the file being written may hold goes up to the file after it.
Limit == IF new = <<>> THEN BoundUpTo(at + 1) ELSE BoundUpTo(at)

\* Each file ends before the next begins.
Apart == crashes = 0 /\ ~filled /\ ~ignored =>
    /\ \A i, j \in 1..Len(files) : i < j => files[i].max < files[j].min
    /\ \A i \in 1..Len(files) : known => OnDisk(i) \in DOMAIN store
    /\ pc = "placing" /\ cursor < Len(buf) => \A i \in 1..(at - 1) : files[i].max < NextTime
    /\ new # <<>> => \A i \in 1..(at - 1) : files[i].max < Object.min
    /\ Inside => /\ reach <= Limit /\ Object.max <= Limit
                 /\ cursor < Len(buf) => NextTime > Limit
    /\ Stored \subseteq flushed
    /\ ~known \/ pc = "listing" => DOMAIN store = {}

DirInv == TypeOK /\ Shapes /\ Kept /\ Sorted /\ Named /\ Distinct /\ Apart

----------------------------------------------------------------------------
(* Points, names and what is written at a time.                              *)

LEMMA PointTime == ASSUME NEW s \in Seq(Point), NEW i \in 1..Len(s)
                   PROVE  s[i] \in Point /\ s[i].time \in Timestamp /\ s[i].time \in 0..Forever
<1>1. s[i] \in Point
  OBVIOUS
<1>2. s[i].time \in Timestamp
  BY <1>1 DEF Point
<1> QED
  BY <1>1, <1>2, TimestampAssumption

LEMMA PointFields == \A p \in Point : p.time \in Timestamp /\ p.time \in 0..Forever
<1>1. \A p \in Point : p.time \in Timestamp
  BY DEF Point
<1> QED
  BY <1>1, TimestampAssumption

LEMMA NameFields ==
    /\ \A n \in Name : n.min \in Timestamp /\ n.min \in 0..Forever /\ n.max \in 0..Forever
    /\ Seq(Name) \subseteq Names
<1>1. \A n \in Name : n.min \in Timestamp /\ n.min \in 0..Forever /\ n.max \in 0..Forever
  BY TimestampAssumption DEF Name
<1>2. Name \subseteq FileName
  <2>1. Timestamp \subseteq Int /\ 0..Forever \subseteq Int
    BY TimestampAssumption
  <2> QED
    BY <2>1 DEF Name, FileName
<1> QED
  BY <1>1, <1>2 DEF Names

LEMMA WritableIs ==
    ASSUME TypeOK, Ascending(buf), Placing, NEW bound \in Int, NextTime <= bound, NEW room \in Nat \ {0}
    PROVE  \E k \in 1..(Len(buf) - cursor) :
               /\ Writable(bound, room) = (cursor + 1)..(cursor + k)
               /\ Cardinality(Writable(bound, room)) = k
               /\ buf[cursor + k].time <= bound
               /\ cursor + k = Len(buf) \/ buf[cursor + k + 1].time > bound \/ k = room
<1> DEFINE C == {i \in Nat : i >= cursor + 1 /\ (i > Len(buf) \/ buf[i].time > bound \/ i > cursor + room)}
<1>1. cursor \in Nat /\ Len(buf) \in Nat /\ cursor < Len(buf) /\ buf \in Seq(Point)
  BY DEF TypeOK, Placing
<1>2. Len(buf) + 1 \in C
  BY <1>1
<1>3. PICK m \in C : \A i \in C : m <= i
  <2> HIDE DEF C
  <2>1. C \in SUBSET Nat
    BY DEF C
  <2> QED
    BY <1>2, <2>1, NatMin
<1>4. cursor + 1 \notin C
  <2>1. buf[cursor + 1].time \in Int
    BY <1>1, PointTime
  <2>2. ~(buf[cursor + 1].time > bound) /\ ~(cursor + 1 > cursor + room) /\ ~(cursor + 1 > Len(buf))
    BY <1>1, <2>1 DEF NextTime
  <2> QED
    BY <2>2
<1>5. m \in Nat /\ m >= cursor + 2 /\ m <= Len(buf) + 1
  BY <1>1, <1>2, <1>3, <1>4
<1>6. ASSUME NEW i \in (cursor + 1)..Len(buf)
      PROVE  i \in Writable(bound, room) <=> i < m
  <2>1. i \in Nat /\ buf[i].time \in Int
    BY <1>1, PointTime
  <2>2. ASSUME i < m PROVE i \in Writable(bound, room)
    BY <1>1, <1>3, <1>5, <2>1, <2>2 DEF Writable
  <2>3. ASSUME i >= m PROVE i \notin Writable(bound, room)
    <3>1. m \in 1..Len(buf) /\ (buf[m].time > bound \/ m > cursor + room)
      BY <1>1, <1>3, <1>5, <2>3
    <3>2. buf[m].time \in Int
      BY <1>1, <3>1, PointTime
    <3>3. buf[m].time <= buf[i].time
      BY <1>1, <2>1, <2>3, <3>1, <3>2 DEF Ascending
    <3> QED
      BY <1>1, <2>1, <2>3, <3>1, <3>2, <3>3 DEF Writable
  <2> QED
    BY <1>5, <2>1, <2>2, <2>3
<1> DEFINE k == m - 1 - cursor
<1>7. k \in 1..(Len(buf) - cursor)
  BY <1>1, <1>5
<1>8. Writable(bound, room) = (cursor + 1)..(cursor + k)
  <2>1. Writable(bound, room) \subseteq (cursor + 1)..Len(buf)
    BY DEF Writable
  <2>2. \A i \in (cursor + 1)..(cursor + k) : i \in (cursor + 1)..Len(buf) /\ i < m
    BY <1>1, <1>5
  <2>3. \A i \in (cursor + 1)..Len(buf) : i < m => i \in (cursor + 1)..(cursor + k)
    BY <1>1, <1>5
  <2> QED
    BY <1>6, <2>1, <2>2, <2>3
<1>9. Cardinality((cursor + 1)..(cursor + k)) = k
  BY <1>1, <1>7, FS_Interval
<1>10. buf[cursor + k].time <= bound
  <2>1. cursor + k \in Writable(bound, room)
    BY <1>1, <1>7, <1>8
  <2> QED
    BY <2>1 DEF Writable
<1>11. cursor + k = Len(buf) \/ buf[cursor + k + 1].time > bound \/ k = room
  <2>1. m = cursor + k + 1 /\ (m > Len(buf) \/ buf[m].time > bound \/ m > cursor + room)
    BY <1>1, <1>3, <1>5
  <2>2. cursor + k <= cursor + room
    <3>1. cursor + k \in Writable(bound, room)
      BY <1>1, <1>7, <1>8
    <3> QED
      BY <3>1 DEF Writable
  <2> QED
    BY <1>1, <1>5, <1>7, <2>1, <2>2, SMTT(30)
<1> QED
  BY <1>7, <1>8, <1>9, <1>10, <1>11

----------------------------------------------------------------------------
(* Sequences.                                                                *)

LEMMA ElementsOf == ASSUME NEW S, NEW s \in Seq(S)
                    PROVE  /\ \A i \in 1..Len(s) : s[i] \in Range(s)
                           /\ \A x \in Range(s) : x \in S /\ \E i \in 1..Len(s) : x = s[i]
<1>1. DOMAIN s = 1..Len(s) /\ \A i \in 1..Len(s) : s[i] \in S
  OBVIOUS
<1>2. Range(s) = {s[i] : i \in 1..Len(s)}
  BY <1>1 DEF Range
<1> QED
  BY <1>1, <1>2

LEMMA SliceIs ==
    ASSUME NEW S, NEW s \in Seq(S), NEW a \in Nat, NEW b \in a..Len(s)
    PROVE  /\ SubSeq(s, a + 1, b) \in Seq(S)
           /\ Len(SubSeq(s, a + 1, b)) = b - a
           /\ \A i \in 1..(b - a) : SubSeq(s, a + 1, b)[i] = s[a + i]
           /\ \A i \in (a + 1)..b : s[i] \in Range(SubSeq(s, a + 1, b))
           /\ \A x \in Range(SubSeq(s, a + 1, b)) : \E i \in (a + 1)..b : x = s[i]
<1> DEFINE r == SubSeq(s, a + 1, b)
<1>1. a + 1 \in Int /\ b \in Int /\ b <= Len(s) /\ a <= b /\ Len(s) \in Nat
  OBVIOUS
<1>2. \A i \in (a + 1)..b : s[i] \in S
  BY <1>1, ElementOfSeq
<1>3. r \in Seq(S) /\ Len(r) = IF a + 1 <= b THEN b - (a + 1) + 1 ELSE 0
  BY <1>1, <1>2, SubSeqProperties
<1>4. \A i \in 1..(b - (a + 1) + 1) : r[i] = s[(a + 1) + i - 1]
  BY <1>1, <1>2, SubSeqProperties
<1>5. Len(r) = b - a
  BY <1>1, <1>3
<1>6. \A i \in 1..(b - a) : r[i] = s[a + i]
  <2> TAKE i \in 1..(b - a)
  <2>1. i \in 1..(b - (a + 1) + 1) /\ (a + 1) + i - 1 = a + i
    BY <1>1
  <2> QED
    BY <1>4, <2>1
<1>7. \A i \in 1..(b - a) : a + i \in (a + 1)..b
  BY <1>1
<1>8. \A i \in (a + 1)..b : i - a \in 1..(b - a) /\ a + (i - a) = i
  BY <1>1
<1> HIDE DEF r
<1>9. /\ \A i \in 1..(b - a) : r[i] \in Range(r)
      /\ \A x \in Range(r) : \E i \in 1..(b - a) : x = r[i]
  BY <1>3, <1>5, ElementsOf
<1>10. \A i \in (a + 1)..b : s[i] \in Range(r)
  <2> TAKE i \in (a + 1)..b
  <2>1. s[i] = r[i - a] /\ i - a \in 1..(b - a)
    BY <1>6, <1>8
  <2> QED
    BY <1>9, <2>1
<1>11. \A x \in Range(r) : \E i \in (a + 1)..b : x = s[i]
  BY <1>6, <1>7, <1>9
<1> QED
  BY <1>3, <1>5, <1>6, <1>10, <1>11 DEF r

\* The first n elements of a sequence.
LEMMA FrontIs ==
    ASSUME NEW S, NEW s \in Seq(S), NEW n \in 0..Len(s)
    PROVE  /\ SubSeq(s, 1, n) \in Seq(S) /\ Len(SubSeq(s, 1, n)) = n
           /\ \A i \in 1..n : s[i] \in Range(SubSeq(s, 1, n))
<1> DEFINE a == 0
<1>1. a \in Nat /\ n \in a..Len(s) /\ a + 1 = 1 /\ n - a = n
  OBVIOUS
<1> HIDE DEF a
<1>2. /\ SubSeq(s, a + 1, n) \in Seq(S) /\ Len(SubSeq(s, a + 1, n)) = n - a
      /\ \A i \in (a + 1)..n : s[i] \in Range(SubSeq(s, a + 1, n))
  BY <1>1, SliceIs, ZenonT(30)
<1> QED
  BY <1>1, <1>2

LEMMA JoinedIs ==
    ASSUME NEW S, NEW s \in Seq(S), NEW r \in Seq(S)
    PROVE  /\ s \o r \in Seq(S)
           /\ Len(s \o r) = Len(s) + Len(r)
           /\ \A i \in 1..Len(s) : (s \o r)[i] = s[i]
           /\ \A i \in 1..Len(r) : (s \o r)[Len(s) + i] = r[i]
           /\ Range(s \o r) = Range(s) \union Range(r)
<1> DEFINE q == s \o r
<1>1. /\ q \in Seq(S) /\ Len(q) = Len(s) + Len(r) /\ Len(s) \in Nat /\ Len(r) \in Nat
      /\ \A i \in 1..(Len(s) + Len(r)) : q[i] = IF i <= Len(s) THEN s[i] ELSE r[i - Len(s)]
  BY ConcatProperties
<1> HIDE DEF q
<1>2. \A i \in 1..Len(s) : q[i] = s[i]
  BY <1>1
<1>3. \A i \in 1..Len(r) : q[Len(s) + i] = r[i]
  BY <1>1
<1>4. /\ \A x \in Range(q) : \E i \in 1..Len(q) : x = q[i]
      /\ \A i \in 1..Len(q) : q[i] \in Range(q)
  BY <1>1, ElementsOf
<1>5. /\ \A x \in Range(s) : \E i \in 1..Len(s) : x = s[i]
      /\ \A x \in Range(r) : \E i \in 1..Len(r) : x = r[i]
      /\ \A i \in 1..Len(s) : s[i] \in Range(s)
      /\ \A i \in 1..Len(r) : r[i] \in Range(r)
  BY ElementsOf
<1>6. ASSUME NEW x \in Range(q) PROVE x \in Range(s) \union Range(r)
  <2>1. PICK i \in 1..Len(q) : x = q[i]
    BY <1>4
  <2>2. i <= Len(s) \/ i - Len(s) \in 1..Len(r)
    BY <1>1
  <2> QED
    BY <1>1, <1>5, <2>1, <2>2, SMTT(30)
<1>7. Range(s) \subseteq Range(q)
  <2>1. \A i \in 1..Len(s) : i \in 1..Len(q)
    BY <1>1
  <2> QED
    BY <1>2, <1>4, <1>5, <2>1
<1>8. Range(r) \subseteq Range(q)
  <2>1. \A i \in 1..Len(r) : Len(s) + i \in 1..Len(q)
    BY <1>1
  <2> QED
    BY <1>3, <1>4, <1>5, <2>1
<1> QED
  BY <1>1, <1>2, <1>3, <1>6, <1>7, <1>8 DEF q

\* vector::insert.
\* A sequence with one more element in it.
Inserted(S, r, s, a, e) ==
    /\ r \in Seq(S)
    /\ Len(r) = Len(s) + 1
    /\ \A i \in 1..(Len(s) + 1) : r[i] = IF i < a THEN s[i] ELSE IF i = a THEN e ELSE s[i - 1]

LEMMA InsertIs ==
    ASSUME NEW S, NEW s \in Seq(S), NEW e \in S, NEW a \in 1..(Len(s) + 1)
    PROVE  Inserted(S, InsertAt(s, a, e), s, a, e)
<1> USE DEF Inserted
<1> DEFINE l == SubSeq(s, 1, a - 1)
           r == SubSeq(s, a, Len(s))
<1>1. Len(s) \in Nat /\ a \in Nat /\ a - 1 \in 0..Len(s) /\ 0 \in Nat
  OBVIOUS
<1>2. l \in Seq(S) /\ Len(l) = a - 1 /\ \A i \in 1..(a - 1) : l[i] = s[i]
  <2>1. \A i \in 1..(a - 1) : s[i] \in S
    BY <1>1, ElementOfSeq
  <2>2. l \in Seq(S) /\ Len(l) = IF 1 <= a - 1 THEN (a - 1) - 1 + 1 ELSE 0
    BY <1>1, <2>1, SubSeqProperties
  <2>3. \A i \in 1..((a - 1) - 1 + 1) : l[i] = s[1 + i - 1]
    BY <1>1, <2>1, SubSeqProperties
  <2> QED
    BY <1>1, <2>2, <2>3
<1>3. r \in Seq(S) /\ Len(r) = Len(s) - a + 1 /\ \A i \in 1..(Len(s) - a + 1) : r[i] = s[a + i - 1]
  <2>1. \A i \in a..Len(s) : s[i] \in S
    BY <1>1, ElementOfSeq
  <2>2. r \in Seq(S) /\ Len(r) = IF a <= Len(s) THEN Len(s) - a + 1 ELSE 0
    BY <1>1, <2>1, SubSeqProperties
  <2>3. \A i \in 1..(Len(s) - a + 1) : r[i] = s[a + i - 1]
    BY <1>1, <2>1, SubSeqProperties
  <2> QED
    BY <1>1, <2>2, <2>3
<1>4. <<e>> \in Seq(S) /\ Len(<<e>>) = 1 /\ <<e>>[1] = e
  OBVIOUS
<1> HIDE DEF l, r
<1> DEFINE h == l \o <<e>>
<1>5. h \in Seq(S) /\ Len(h) = a /\ h[a] = e /\ \A i \in 1..(a - 1) : h[i] = s[i]
  <2> DEFINE o == <<e>>
  <2>0. <<e>> \in Seq(S) /\ o = <<e>>
    BY <1>4
  <2>1. o \in Seq(S) /\ Len(o) = 1 /\ o[1] = e /\ 1 \in 1..Len(o)
    BY <1>4
  <2> HIDE DEF o
  <2>2. /\ l \o o \in Seq(S) /\ Len(l \o o) = Len(l) + Len(o)
        /\ \A i \in 1..Len(l) : (l \o o)[i] = l[i]
        /\ \A i \in 1..Len(o) : (l \o o)[Len(l) + i] = o[i]
    <3>1. l \in Seq(S) /\ o \in Seq(S)
      BY <1>2, <2>1
    <3> QED
      BY <3>1, JoinedIs
  <2>3. h = l \o o
    BY DEF o
  <2>4. (l \o o)[Len(l) + 1] = e /\ Len(l) + 1 = a
    BY <1>1, <1>2, <2>1, <2>2
  <2> QED
    BY <1>1, <1>2, <2>1, <2>2, <2>3, <2>4
<1> HIDE DEF h
<1>6. /\ h \o r \in Seq(S) /\ Len(h \o r) = Len(s) + 1
      /\ \A i \in 1..Len(h) : (h \o r)[i] = h[i]
      /\ \A i \in 1..Len(r) : (h \o r)[Len(h) + i] = r[i]
  BY <1>1, <1>3, <1>5, JoinedIs
<1>7. InsertAt(s, a, e) = h \o r
  BY DEF InsertAt, h, l, r
<1>8. ASSUME NEW i \in 1..(Len(s) + 1)
      PROVE  (h \o r)[i] = IF i < a THEN s[i] ELSE IF i = a THEN e ELSE s[i - 1]
  <2>1. CASE i <= a
    <3>1. i \in 1..Len(h) /\ (i < a => i \in 1..(a - 1))
      BY <1>1, <1>5, <2>1
    <3> QED
      BY <1>1, <1>5, <1>6, <2>1, <3>1
  <2>2. CASE i > a
    <3> DEFINE j == i - a
    <3>1. j \in 1..Len(r) /\ j \in 1..(Len(s) - a + 1) /\ a + j = i /\ a + j - 1 = i - 1
      BY <1>1, <1>3, <2>2
    <3>2. (h \o r)[a + j] = r[j] /\ r[j] = s[a + j - 1]
      <4> HIDE DEF j
      <4> QED
        BY <1>3, <1>5, <1>6, <3>1
    <3>3. (h \o r)[i] = s[i - 1]
      BY <3>1, <3>2
    <3> QED
      BY <1>1, <2>2, <3>3
  <2>3. i <= a \/ i > a
    BY <1>1
  <2> QED
    BY <2>1, <2>2, <2>3, Zenon
<1> QED
  BY <1>6, <1>7, <1>8

----------------------------------------------------------------------------
(* What a write does.                                                        *)

Contents(n) == IF n \in DOMAIN store THEN store[n] ELSE <<>>
Higher(a, b) == IF a > b THEN a ELSE b

LEMMA NewMaxIs ==
    ASSUME TypeOK, Ascending(buf), Placing, NEW n \in Name, NEW bound \in Int,
           NextTime <= bound, bound <= Forever
    PROVE  /\ NewMax(n, bound) \in 0..Forever /\ NewMax(n, bound) <= Higher(n.max, bound)
           /\ \A i \in (cursor + 1)..Len(buf) : buf[i].time <= bound => buf[i].time <= NewMax(n, bound)
<1>1. cursor \in Nat /\ Len(buf) \in Nat /\ cursor < Len(buf) /\ buf \in Seq(Point)
  BY DEF TypeOK, Placing
<1>2. n.max \in 0..Forever /\ Forever \in Nat
  BY NameFields, TimestampAssumption
<1>3. \A i \in 1..Len(buf) : buf[i].time \in 0..Forever
  BY <1>1, PointTime
<1>4. \A i \in (cursor + 1)..Len(buf) : buf[i].time <= buf[Len(buf)].time
  <2> TAKE i \in (cursor + 1)..Len(buf)
  <2>1. i \in 1..Len(buf) /\ Len(buf) \in 1..Len(buf) /\ (i = Len(buf) \/ i < Len(buf))
    BY <1>1
  <2> QED
    BY <1>3, <2>1 DEF Ascending
<1>5. buf[Len(buf)].time \in 0..Forever /\ buf[cursor + 1].time \in 0..Forever
  BY <1>1, <1>3
<1>6. NewMax(n, bound) \in 0..Forever /\ NewMax(n, bound) <= Higher(n.max, bound)
  BY <1>2, <1>5 DEF NewMax, NextTime, Higher
<1>7. ASSUME NEW i \in (cursor + 1)..Len(buf), buf[i].time <= bound
      PROVE  buf[i].time <= NewMax(n, bound)
  <2>1. buf[i].time \in 0..Forever /\ buf[i].time <= buf[Len(buf)].time
    BY <1>1, <1>3, <1>4
  <2> QED
    BY <1>2, <1>5, <1>7, <2>1 DEF NewMax
<1> QED
  BY <1>6, <1>7

Batch == {buf[i] : i \in (cursor + 1)..cursor'}

LEMMA WriteDoes ==
    ASSUME TypeOK, Shapes, Placing, NEW n \in Name, NEW bound \in Int, NEW room \in Nat \ {0},
           NextTime <= bound, bound <= Forever, n.min <= NextTime, Write(n, bound, room)
    PROVE  /\ cursor' \in (cursor + 1)..Len(buf) /\ buf[cursor'].time <= bound
           /\ reach' \in 0..Forever /\ reach' = NewMax(n, bound) /\ pc' = "renaming"
           /\ DOMAIN store' = DOMAIN store \union {n}
           /\ store' \in [DOMAIN store' -> Seq(Point)] /\ IsFiniteSet(DOMAIN store')
           /\ \A m \in DOMAIN store \ {n} : store'[m] = store[m]
           /\ Range(store'[n]) = Range(Contents(n)) \union Batch
           /\ \A i \in 1..Len(Contents(n)) : store'[n][i] = Contents(n)[i]
           /\ Batch \subseteq Point /\ flushed' = flushed \union Batch
           /\ \A p \in Batch : n.min <= p.time /\ p.time <= reach' /\ NextTime <= p.time /\ p.time <= bound
           /\ filled' \in BOOLEAN /\ (filled' <=> filled \/ Len(store'[n]) >= MaxPoints)
           /\ \/ cursor' = Len(buf) \/ buf[cursor' + 1].time > bound
              \/ Len(store'[n]) = Len(Contents(n)) + room
<1>1. cursor \in Nat /\ Len(buf) \in Nat /\ cursor < Len(buf) /\ buf \in Seq(Point)
  BY DEF TypeOK, Placing
<1>2. PICK k \in 1..(Len(buf) - cursor) :
          /\ Writable(bound, room) = (cursor + 1)..(cursor + k)
          /\ Cardinality(Writable(bound, room)) = k
          /\ buf[cursor + k].time <= bound
          /\ cursor + k = Len(buf) \/ buf[cursor + k + 1].time > bound \/ k = room
  BY WritableIs DEF Shapes
<1>3. cursor' = cursor + k /\ cursor' \in (cursor + 1)..Len(buf) /\ cursor + k \in cursor..Len(buf)
  BY <1>1, <1>2 DEF Write
<1> DEFINE r == SubSeq(buf, cursor + 1, cursor + k)
<1>4. r \in Seq(Point) /\ Range(r) = Batch
  <2>1. r \in Seq(Point) /\ (\A i \in (cursor + 1)..(cursor + k) : buf[i] \in Range(r))
        /\ \A x \in Range(r) : \E i \in (cursor + 1)..(cursor + k) : x = buf[i]
    BY <1>1, <1>3, SliceIs
  <2> QED
    BY <1>3, <2>1 DEF Batch
<1>4a. Len(r) = k
  <2>1. Len(r) = (cursor + k) - cursor
    BY <1>1, <1>3, SliceIs
  <2> QED
    BY <1>1, <2>1
<1>5. Contents(n) \in Seq(Point)
  BY DEF Contents, Shapes
<1>6. store' = [m \in DOMAIN store \union {n} |-> IF m = n THEN Contents(n) \o r ELSE store[m]]
  BY <1>2 DEF Write, Contents
<1> HIDE DEF r
<1>7. /\ Contents(n) \o r \in Seq(Point) /\ Range(Contents(n) \o r) = Range(Contents(n)) \union Batch
      /\ \A i \in 1..Len(Contents(n)) : (Contents(n) \o r)[i] = Contents(n)[i]
      /\ Len(Contents(n) \o r) = Len(Contents(n)) + Len(r)
  BY <1>4, <1>5, JoinedIs
<1>8. /\ DOMAIN store' = DOMAIN store \union {n} /\ store'[n] = Contents(n) \o r
      /\ \A m \in DOMAIN store \ {n} : store'[m] = store[m]
  BY <1>6
<1>9. store' \in [DOMAIN store' -> Seq(Point)]
  BY <1>6, <1>7, <1>8 DEF Shapes
<1>10. IsFiniteSet(DOMAIN store')
  <2>1. IsFiniteSet(DOMAIN store)
    BY DEF Shapes
  <2>2. IsFiniteSet(DOMAIN store \union {n})
    BY <2>1, FS_AddElement
  <2>3. DOMAIN store' = DOMAIN store \union {n}
    BY <1>8
  <2> QED
    BY <2>2, <2>3
<1>11. reach' \in 0..Forever /\ reach' = NewMax(n, bound) /\ pc' = "renaming"
  BY NewMaxIs DEF Write, Shapes
<1>12. Batch \subseteq Point
  BY <1>1, <1>3, PointTime DEF Batch
<1>13. flushed' = flushed \union Batch
  BY <1>2, <1>3 DEF Write, Batch
<1>14. ASSUME NEW p \in Batch
       PROVE  n.min <= p.time /\ p.time <= reach' /\ NextTime <= p.time /\ p.time <= bound
  <2>1. PICK i \in (cursor + 1)..cursor' : p = buf[i]
    BY DEF Batch
  <2>2. i \in Writable(bound, room) /\ i \in (cursor + 1)..Len(buf)
    BY <1>1, <1>2, <1>3
  <2>3. p.time <= bound /\ p.time <= NewMax(n, bound)
    BY <2>1, <2>2, NewMaxIs DEF Writable, Shapes
  <2>4. p.time \in Int /\ buf[cursor + 1].time \in Int
    BY <1>1, <2>1, <2>2, PointTime
  <2>5. buf[cursor + 1].time <= p.time
    <3>1. i \in 1..Len(buf) /\ cursor + 1 \in 1..Len(buf) /\ (i = cursor + 1 \/ cursor + 1 < i)
      BY <1>1, <2>2
    <3>2. cursor + 1 < i => buf[cursor + 1].time < buf[i].time
      BY <3>1 DEF Shapes, Ascending
    <3> QED
      BY <2>1, <2>4, <3>1, <3>2
  <2>6. n.min \in Int
    BY NameFields, TimestampAssumption
  <2> QED
    BY <1>11, <2>3, <2>4, <2>5, <2>6 DEF NextTime
<1>15. filled' \in BOOLEAN /\ (filled' <=> filled \/ Len(store'[n]) >= MaxPoints)
  BY DEF Write, TypeOK
<1>16. cursor' = Len(buf) \/ buf[cursor' + 1].time > bound \/ Len(store'[n]) = Len(Contents(n)) + room
  BY <1>2, <1>3, <1>4a, <1>7, <1>8
<1> QED
  BY <1>2, <1>3, <1>7, <1>8, <1>9, <1>10, <1>11, <1>12, <1>13, <1>14, <1>15, <1>16

----------------------------------------------------------------------------
(* The steps of a flush.                                                     *)

LEMMA FilesAre == ASSUME TypeOK
                  PROVE  /\ files \in Names /\ Len(files) \in Nat /\ at \in Nat
                         /\ \A i \in 1..Len(files) : /\ files[i] \in Name
                                                     /\ files[i].min \in 0..Forever
                                                     /\ files[i].max \in 0..Forever
<1>1. files \in Seq(Name)
  BY DEF TypeOK
<1>2. \A i \in 1..Len(files) : files[i] \in Name
  BY <1>1, ElementOfSeq
<1>3. Len(files) \in Nat /\ at \in Nat
  BY <1>1 DEF TypeOK
<1> QED
  BY <1>1, <1>2, <1>3, NameFields

LEMMA BufIs == ASSUME TypeOK
               PROVE  /\ buf \in Seq(Point) /\ cursor \in Nat /\ Len(buf) \in Nat /\ cursor <= Len(buf)
                      /\ \A i \in 1..Len(buf) : buf[i].time \in 0..Forever
<1>1. buf \in Seq(Point) /\ cursor \in Nat /\ Len(buf) \in Nat /\ cursor <= Len(buf)
  BY DEF TypeOK
<1> QED
  BY <1>1, PointTime

LEMMA BoundIs == ASSUME TypeOK, NEW i \in Nat \ {0}
                 PROVE  BoundUpTo(i) \in Int /\ BoundUpTo(i) <= Forever
<1>1. i > Len(files) \/ i \in 1..Len(files)
  BY FilesAre
<1> QED
  BY <1>1, FilesAre, TimestampAssumption DEF BoundUpTo

LEMMA SkipKeeps == ASSUME DirInv, SkipFull \/ SkipOld
                   PROVE  DirInv'
<1>1. /\ Placing /\ ~AtEnd /\ at' = at + 1 /\ pc = "placing" /\ cursor < Len(buf)
      /\ UNCHANGED <<store, known, files, buf, cursor, new, reach, moving, pc, flushes, flushed,
                     filled, ignored, crashes>>
  BY DEF SkipFull, SkipOld, Fits, Placing, history
<1>2. at \in 1..Len(files) /\ Len(files) \in Nat /\ cursor + 1 \in 1..Len(buf) /\ NextTime \in 0..Forever
  BY <1>1, FilesAre, BufIs DEF DirInv, TypeOK, AtEnd, NextTime
<1>3. ~filled => at + 1 \in 1..Len(files) /\ files[at + 1].min <= NextTime
  <2> SUFFICES ASSUME ~filled PROVE at + 1 \in 1..Len(files) /\ files[at + 1].min <= NextTime
    OBVIOUS
  <2>1. CASE SkipFull
    <3>1. files[at] \in DOMAIN store /\ Remaining = 0
      BY <2>1, <1>2 DEF SkipFull, Missing
    <3>2. Len(store[files[at]]) < MaxPoints
      BY <3>1 DEF DirInv, Sorted
    <3>3. Len(store[files[at]]) \in Nat
      BY <3>1 DEF DirInv, Shapes
    <3> QED
      BY <3>1, <3>2, <3>3, SizesAssumption DEF Remaining
  <2>2. CASE SkipOld
    <3>1. Bound < NextTime
      BY <2>2 DEF SkipOld
    <3>2. at + 1 \in 1..Len(files)
      BY <1>2, <3>1, TimestampAssumption DEF Bound, BoundUpTo
    <3>3. files[at + 1].min \in 0..Forever
      BY <3>2, FilesAre DEF DirInv
    <3> QED
      BY <1>2, <3>1, <3>2, <3>3 DEF Bound, BoundUpTo
  <2> QED
    BY <2>1, <2>2
<1>4. TypeOK'
  BY <1>1, <1>2 DEF DirInv, TypeOK
<1>5. Shapes' /\ Kept'
  BY <1>1 DEF DirInv, Shapes, Inside, Kept, Written, Object
<1>6. Sorted'
  <2>1. ~filled => \A i \in 1..at : files[i].min <= NextTime
    <3> SUFFICES ASSUME ~filled, NEW i \in 1..at PROVE files[i].min <= NextTime
      OBVIOUS
    <3>1. i \in 1..Len(files) /\ i <= at + 1 /\ at + 1 \in 1..Len(files) /\ files \in Names /\ Ordered(files)
      BY <1>2, <1>3, FilesAre DEF DirInv, Sorted
    <3>2. files[i].min \in Int /\ files[at + 1].min \in Int /\ files[i].min <= files[at + 1].min
      BY <3>1, OrderedStarts
    <3> QED
      BY <1>2, <1>3, <3>2
  <2> QED
    BY <1>1, <1>2, <2>1 DEF DirInv, Sorted, Covers, NextTime, Shapes, Inside
<1>7. Named'
  BY <1>1 DEF DirInv, Named, Inside, Written, Object, InRangeOf
<1>8. new = <<>>
  BY <1>1 DEF DirInv, Shapes, Inside
<1>9. Distinct'
  <2>1. ~filled /\ ~ignored => \A i \in 1..at : files[i].min < NextTime
    <3> SUFFICES ASSUME ~filled, ~ignored, NEW i \in 1..at PROVE files[i].min < NextTime
      OBVIOUS
    <3>1. i \in 1..Len(files) /\ i < at + 1 /\ at + 1 \in 1..Len(files)
      BY <1>2, <1>3
    <3>2. files[i].min < files[at + 1].min
      BY <3>1 DEF DirInv, Distinct
    <3>3. files[i].min \in Int /\ files[at + 1].min \in Int
      BY <3>1, FilesAre DEF DirInv
    <3> QED
      BY <1>2, <1>3, <3>2, <3>3
  <2>2. \A i \in 1..Len(files) : OnDisk(i)' = OnDisk(i)
    BY <1>1 DEF OnDisk
  <2> QED
    BY <1>1, <1>2, <1>8, <2>1, <2>2 DEF DirInv, Distinct, NextTime, Stored
<1>10. Apart'
  <2>1. crashes = 0 /\ ~filled /\ ~ignored => \A i \in 1..at : files[i].max < NextTime
    <3> SUFFICES ASSUME crashes = 0, ~filled, ~ignored, NEW i \in 1..at PROVE files[i].max < NextTime
      OBVIOUS
    <3>1. i \in 1..Len(files) /\ i < at + 1 /\ at + 1 \in 1..Len(files)
      BY <1>2, <1>3
    <3>2. files[i].max < files[at + 1].min
      BY <3>1 DEF DirInv, Apart
    <3>3. files[i].max \in Int /\ files[at + 1].min \in Int
      BY <3>1, FilesAre DEF DirInv
    <3> QED
      BY <1>2, <1>3, <3>2, <3>3
  <2>2. \A i \in 1..Len(files) : OnDisk(i)' = OnDisk(i)
    BY <1>1 DEF OnDisk
  <2> QED
    BY <1>1, <1>2, <1>8, <2>1, <2>2 DEF DirInv, Apart, NextTime, Stored, Inside
<1> QED
  BY <1>4, <1>5, <1>6, <1>7, <1>9, <1>10 DEF DirInv

\* The two ways of writing: to the file at file_it, and to a new one before it.
ToThisFile(n, bound, room) ==
    /\ new' = <<>> /\ at <= Len(files) /\ n = files[at] /\ n \in DOMAIN store
    /\ bound = BoundUpTo(at + 1) /\ room = MaxPoints - Len(store[n])
ToNewFile(n, bound, room) ==
    /\ new' = <<n>> /\ n = [min |-> NextTime, max |-> NextTime, opt |-> FALSE]
    /\ \A i \in at..Len(files) : NextTime < files[at].min
    /\ bound = BoundUpTo(at) /\ room = MaxPoints

WritesTo(n, bound, room) ==
    /\ Placing /\ n \in Name /\ bound \in Int /\ room \in Nat \ {0}
    /\ NextTime <= bound /\ bound <= Forever /\ n.min <= NextTime /\ Write(n, bound, room)
    /\ ToThisFile(n, bound, room) \/ ToNewFile(n, bound, room)
    /\ UNCHANGED <<known, files, buf, at, moving, flushes, ignored, crashes>>

LEMMA WriteGives ==
    ASSUME DirInv, NEW n, NEW bound, NEW room, WritesTo(n, bound, room)
    PROVE  /\ pc = "placing" /\ pc # "renaming" /\ ~Inside /\ new = <<>> /\ moving = <<>> /\ known
           /\ cursor < Len(buf) /\ cursor + 1 \in 1..Len(buf) /\ NextTime \in 0..Forever
           /\ at \in Nat \ {0} /\ at \in 1..(Len(files) + 1) /\ Len(files) \in Nat
           /\ n \in Name /\ n.min \in 0..Forever /\ n.max \in 0..Forever /\ n.min <= NextTime
           /\ pc' = "renaming" /\ Inside' /\ Object' = n /\ Written' = n
           /\ new' \in Seq(Name) /\ Len(new') <= 1
           /\ ToThisFile(n, bound, room) => new' = <<>>
           /\ ToNewFile(n, bound, room) => new' = <<n>> /\ new' # <<>>
           /\ cursor' \in (cursor + 1)..Len(buf)
           /\ reach' \in 0..Forever /\ reach' = NewMax(n, bound)
           /\ DOMAIN store' = DOMAIN store \union {n}
           /\ store' \in [DOMAIN store' -> Seq(Point)] /\ IsFiniteSet(DOMAIN store')
           /\ \A m \in DOMAIN store' : m # n => m \in DOMAIN store /\ store'[m] = store[m]
           /\ Range(store'[n]) = Range(Contents(n)) \union Batch
           /\ \A i \in 1..Len(Contents(n)) : store'[n][i] = Contents(n)[i]
           /\ Contents(n) \in Seq(Point) /\ Len(Contents(n)) \in Nat /\ store'[n] \in Seq(Point)
           /\ Len(store'[n]) \in Nat
           /\ Batch \subseteq Point /\ flushed' = flushed \union Batch /\ Stored' = Stored \union Batch
           /\ \A p \in Batch : n.min <= p.time /\ p.time <= reach' /\ NextTime <= p.time /\ p.time <= bound
           /\ filled' \in BOOLEAN /\ (filled' <=> filled \/ Len(store'[n]) >= MaxPoints)
           /\ Limit' = bound /\ (~filled' /\ cursor' < Len(buf) => NextTime' > bound)
<1>0. /\ Placing /\ n \in Name /\ bound \in Int /\ room \in Nat \ {0}
      /\ NextTime <= bound /\ bound <= Forever /\ n.min <= NextTime /\ Write(n, bound, room)
      /\ ToThisFile(n, bound, room) \/ ToNewFile(n, bound, room)
      /\ UNCHANGED <<known, files, buf, at, moving, flushes, ignored, crashes>>
  BY DEF WritesTo
<1> USE <1>0 DEF DirInv
<1>1. /\ cursor' \in (cursor + 1)..Len(buf) /\ buf[cursor'].time <= bound
      /\ reach' \in 0..Forever /\ reach' = NewMax(n, bound) /\ pc' = "renaming"
      /\ DOMAIN store' = DOMAIN store \union {n}
      /\ store' \in [DOMAIN store' -> Seq(Point)] /\ IsFiniteSet(DOMAIN store')
      /\ \A m \in DOMAIN store \ {n} : store'[m] = store[m]
      /\ Range(store'[n]) = Range(Contents(n)) \union Batch
      /\ Batch \subseteq Point /\ flushed' = flushed \union Batch
      /\ \A p \in Batch : n.min <= p.time /\ p.time <= reach' /\ NextTime <= p.time /\ p.time <= bound
      /\ filled' \in BOOLEAN /\ (filled' <=> filled \/ Len(store'[n]) >= MaxPoints)
      /\ \/ cursor' = Len(buf) \/ buf[cursor' + 1].time > bound
         \/ Len(store'[n]) = Len(Contents(n)) + room
  BY WriteDoes
<1>1a. \A i \in 1..Len(Contents(n)) : store'[n][i] = Contents(n)[i]
  BY WriteDoes
<1>2. /\ pc = "placing" /\ pc # "renaming" /\ ~Inside /\ new = <<>> /\ moving = <<>> /\ known
      /\ cursor < Len(buf) /\ cursor + 1 \in 1..Len(buf) /\ NextTime \in 0..Forever
      /\ at \in Nat \ {0} /\ at \in 1..(Len(files) + 1) /\ Len(files) \in Nat
  BY BufIs, FilesAre DEF Placing, Shapes, Inside, NextTime, TypeOK
<1>3. n.min \in 0..Forever /\ n.max \in 0..Forever /\ Forever \in Nat /\ MaxPoints \in Nat
  BY NameFields, TimestampAssumption, SizesAssumption
<1>4. Inside' /\ Object' = n /\ Written' = n
  BY <1>1 DEF Inside, Object, Written, ToThisFile, ToNewFile
<1>4a. /\ new' \in Seq(Name) /\ Len(new') <= 1
       /\ ToThisFile(n, bound, room) => new' = <<>>
       /\ ToNewFile(n, bound, room) => new' = <<n>> /\ new' # <<>>
  <2>1. <<n>> \in Seq(Name) /\ Len(<<n>>) = 1 /\ <<n>> # <<>> /\ <<>> \in Seq(Name) /\ Len(<<>>) = 0
    OBVIOUS
  <2>2. CASE ToThisFile(n, bound, room)
    <3>1. new' = <<>>
      BY <2>2 DEF ToThisFile
    <3>2. ~ToNewFile(n, bound, room)
      BY <2>1, <3>1, Zenon DEF ToNewFile
    <3> QED
      BY <2>1, <3>1, <3>2
  <2>3. CASE ToNewFile(n, bound, room)
    <3>1. new' = <<n>>
      BY <2>3 DEF ToNewFile
    <3>2. ~ToThisFile(n, bound, room)
      BY <2>1, <3>1, Zenon DEF ToThisFile
    <3> QED
      BY <2>1, <3>1, <3>2
  <2> QED
    BY <2>2, <2>3
<1>9. \A m \in DOMAIN store' : m # n => m \in DOMAIN store /\ store'[m] = store[m]
  BY <1>1
<1>10. Contents(n) \in Seq(Point) /\ Len(Contents(n)) \in Nat /\ store'[n] \in Seq(Point)
       /\ Len(store'[n]) \in Nat
  <2>1. Contents(n) \in Seq(Point) /\ store'[n] \in Seq(Point)
    BY <1>1 DEF Contents, Shapes
  <2> QED
    BY <2>1, LenProperties
<1>14. Stored' = Stored \union Batch
  <2>1. Stored = UNION {Range(store[m]) : m \in DOMAIN store}
        /\ Stored' = UNION {Range(store'[m]) : m \in DOMAIN store'}
    BY DEF Stored
  <2>2. \A m \in DOMAIN store : m # n => Range(store'[m]) = Range(store[m])
    BY <1>1
  <2>3. \A m \in DOMAIN store : m = n => Range(Contents(n)) = Range(store[m])
    BY DEF Contents
  <2>4. n \notin DOMAIN store => Range(Contents(n)) = {}
    BY DEF Contents, Range
  <2>5. Stored' \subseteq Stored \union Batch
    BY <1>1, <1>9, <2>1, <2>2, <2>3, <2>4
  <2>6. Batch \subseteq Stored'
    BY <1>1, <2>1
  <2>7. \A m \in DOMAIN store : Range(store[m]) \subseteq Range(store'[m])
    BY <1>1, <2>2, <2>3
  <2>8. Stored \subseteq Stored'
    BY <1>1, <2>1, <2>7
  <2> QED
    BY <2>5, <2>6, <2>8
<1>15. Limit' = bound
  <2>1. Limit' = IF new' = <<>> THEN BoundUpTo(at + 1) ELSE BoundUpTo(at)
    BY DEF Limit, BoundUpTo
  <2>2. CASE ToThisFile(n, bound, room)
    BY <2>1, <2>2 DEF ToThisFile
  <2>3. CASE ToNewFile(n, bound, room)
    BY <1>4a, <2>1, <2>3 DEF ToNewFile
  <2> QED
    BY <2>2, <2>3
<1>16. ASSUME ~filled', cursor' < Len(buf) PROVE NextTime' > bound
  <2>1. Len(store'[n]) # Len(Contents(n)) + room
    <3>1. CASE ToThisFile(n, bound, room)
      <4>1. Contents(n) = store[n]
        BY <3>1 DEF ToThisFile, Contents
      <4> QED
        BY <1>1, <1>3, <1>10, <1>16, <3>1, <4>1 DEF ToThisFile
    <3>2. CASE ToNewFile(n, bound, room)
      BY <1>1, <1>3, <1>10, <1>16, <3>2 DEF ToNewFile
    <3> QED
      BY <3>1, <3>2
  <2> QED
    BY <1>1, <1>2, <1>16, <2>1, BufIs DEF NextTime
<1>17. n \in Name /\ n.min <= NextTime
  OBVIOUS
<1> HIDE <1>0 DEF DirInv
<1>18. /\ pc = "placing" /\ pc # "renaming" /\ ~Inside /\ new = <<>> /\ moving = <<>> /\ known
       /\ cursor < Len(buf) /\ cursor + 1 \in 1..Len(buf) /\ NextTime \in 0..Forever
       /\ at \in Nat \ {0} /\ at \in 1..(Len(files) + 1) /\ Len(files) \in Nat
       /\ n \in Name /\ n.min \in 0..Forever /\ n.max \in 0..Forever /\ n.min <= NextTime
       /\ pc' = "renaming" /\ Inside' /\ Object' = n /\ Written' = n
       /\ new' \in Seq(Name) /\ Len(new') <= 1
       /\ ToThisFile(n, bound, room) => new' = <<>>
       /\ ToNewFile(n, bound, room) => new' = <<n>> /\ new' # <<>>
       /\ cursor' \in (cursor + 1)..Len(buf)
       /\ reach' \in 0..Forever /\ reach' = NewMax(n, bound)
  BY <1>1, <1>2, <1>3, <1>4, <1>4a, <1>17
<1>19. /\ DOMAIN store' = DOMAIN store \union {n}
       /\ store' \in [DOMAIN store' -> Seq(Point)] /\ IsFiniteSet(DOMAIN store')
       /\ Range(store'[n]) = Range(Contents(n)) \union Batch
  BY <1>1
<1>20. /\ Batch \subseteq Point /\ flushed' = flushed \union Batch /\ Stored' = Stored \union Batch
       /\ \A p \in Batch : n.min <= p.time /\ p.time <= reach' /\ NextTime <= p.time /\ p.time <= bound
       /\ filled' \in BOOLEAN /\ (filled' <=> filled \/ Len(store'[n]) >= MaxPoints)
       /\ Limit' = bound /\ (~filled' /\ cursor' < Len(buf) => NextTime' > bound)
  BY <1>1, <1>14, <1>15, <1>16
<1> QED
  BY <1>1a, <1>9, <1>10, <1>18, <1>19, <1>20

LEMMA WriteKeeps == ASSUME DirInv, NEW n, NEW bound, NEW room, WritesTo(n, bound, room)
                    PROVE  DirInv'
<1>0. /\ Placing /\ n \in Name /\ bound \in Int /\ room \in Nat \ {0}
      /\ NextTime <= bound /\ bound <= Forever /\ n.min <= NextTime /\ Write(n, bound, room)
      /\ ToThisFile(n, bound, room) \/ ToNewFile(n, bound, room)
      /\ UNCHANGED <<known, files, buf, at, moving, flushes, ignored, crashes>>
  BY DEF WritesTo
<1> USE <1>0 DEF DirInv
<1>1. /\ cursor' \in (cursor + 1)..Len(buf)
      /\ reach' \in 0..Forever /\ reach' = NewMax(n, bound) /\ pc' = "renaming"
      /\ DOMAIN store' = DOMAIN store \union {n}
      /\ store' \in [DOMAIN store' -> Seq(Point)] /\ IsFiniteSet(DOMAIN store')
      /\ Range(store'[n]) = Range(Contents(n)) \union Batch
      /\ Batch \subseteq Point /\ flushed' = flushed \union Batch
      /\ \A p \in Batch : n.min <= p.time /\ p.time <= reach' /\ NextTime <= p.time /\ p.time <= bound
      /\ filled' \in BOOLEAN /\ (filled' <=> filled \/ Len(store'[n]) >= MaxPoints)
  BY WriteGives
<1>2. /\ pc = "placing" /\ pc # "renaming" /\ ~Inside /\ new = <<>> /\ moving = <<>> /\ known
      /\ cursor < Len(buf) /\ cursor + 1 \in 1..Len(buf) /\ NextTime \in 0..Forever
      /\ at \in Nat \ {0} /\ at \in 1..(Len(files) + 1) /\ Len(files) \in Nat
  BY WriteGives
<1>3. n.min \in 0..Forever /\ n.max \in 0..Forever /\ Forever \in Nat /\ MaxPoints \in Nat
  BY WriteGives, TimestampAssumption, SizesAssumption
<1>4. Inside' /\ Object' = n /\ Written' = n
  BY WriteGives
<1>4a. /\ new' \in Seq(Name) /\ Len(new') <= 1
       /\ ToThisFile(n, bound, room) => new' = <<>>
       /\ ToNewFile(n, bound, room) => new' = <<n>> /\ new' # <<>>
  BY WriteGives
<1>5. TypeOK'
  <2>1. new' \in Seq(Name)
    BY <1>4a
  <2>2. cursor' \in 0..Len(buf)
    BY <1>1, <1>2, BufIs
  <2>3. \A m \in DOMAIN store' : m \in Name /\ store'[m] \in Seq(Point)
    BY <1>1 DEF TypeOK
  <2> QED
    BY <1>1, <2>1, <2>2, <2>3 DEF TypeOK
<1>6. Shapes'
  <2>1. cursor' >= 1 /\ Len(new') <= 1 /\ (new' = <<>> => at <= Len(files))
    <3>1. new' = <<>> => at <= Len(files)
      BY <1>4a DEF ToThisFile
    <3> QED
      BY <1>1, <1>2, <1>4a, <3>1, BufIs
  <2> QED
    BY <1>1, <1>2, <1>4, <2>1 DEF Shapes
<1>7. Kept'
  BY <1>1, <1>4 DEF Kept
<1>8. NextTime <= LastTime' /\ LastTime' = buf[cursor'].time /\ LastTime' \in 0..Forever
  <2>1. LastTime' = buf[cursor'].time /\ LastTime' \in 0..Forever
    BY <1>1, <1>2, BufIs DEF LastTime
  <2>2. buf[cursor'] \in Batch
    BY <1>1, <1>2 DEF Batch
  <2> QED
    BY <1>1, <2>1, <2>2
<1>9. \A m \in DOMAIN store' : m # n => m \in DOMAIN store /\ store'[m] = store[m]
  BY WriteGives
<1>10. Contents(n) \in Seq(Point) /\ Len(Contents(n)) \in Nat /\ store'[n] \in Seq(Point)
       /\ Len(store'[n]) \in Nat
  BY WriteGives
<1>11. ASSUME NEW i \in at..Len(files), ToNewFile(n, bound, room), ~filled
       PROVE  n.min < files[i].min
  <2>1. i \in 1..Len(files) /\ at \in 1..Len(files) /\ at <= i /\ files \in Names
    BY <1>2, FilesAre
  <2>2. files[at].min \in Int /\ files[i].min \in Int /\ files[at].min <= files[i].min
    BY <1>11, <2>1, OrderedStarts DEF Sorted
  <2> QED
    BY <1>2, <1>11, <2>1, <2>2 DEF ToNewFile
<1>12. Sorted'
  <2> SUFFICES ASSUME ~filled'
               PROVE  /\ Ordered(files)
                      /\ \A m \in DOMAIN store' : Len(store'[m]) < MaxPoints
                      /\ Object'.min <= LastTime'
                      /\ new' # <<>> => /\ \A i \in 1..(at - 1) : files[i].min <= Object'.min
                                        /\ \A i \in at..Len(files) : Object'.min < files[i].min
    BY <1>1 DEF Sorted, Inside, Covers
  <2>1. ~filled /\ Len(store'[n]) < MaxPoints
    BY <1>1, <1>3, <1>10
  <2>2. \A m \in DOMAIN store' : Len(store'[m]) < MaxPoints
    BY <1>9, <2>1 DEF Sorted
  <2>3. n.min <= LastTime'
    BY <1>2, <1>3, <1>8, SMTT(30)
  <2>4. ASSUME new' # <<>>, NEW i \in 1..(at - 1) PROVE files[i].min <= n.min
    BY <1>2, <2>1, <2>4 DEF Sorted, Covers, ToThisFile, ToNewFile
  <2>5. ASSUME new' # <<>>, NEW i \in at..Len(files) PROVE n.min < files[i].min
    BY <1>11, <2>1, <2>5 DEF ToThisFile
  <2> QED
    BY <1>4, <2>1, <2>2, <2>3, <2>4, <2>5 DEF Sorted
<1>13. Named'
  <2> SUFFICES ASSUME crashes = 0, NEW m \in DOMAIN store', NEW p \in Range(store'[m])
               PROVE  /\ m.min <= p.time
                      /\ m = n => p.time <= IF reach' > n.max THEN reach' ELSE n.max
                      /\ m # n => p.time <= m.max
    BY <1>1, <1>4 DEF Named, InRangeOf
  <2>1. \A q \in DOMAIN store : InRangeOf(store[q], q.min, q.max)
    BY <1>2 DEF Named
  <2>2. CASE m # n
    BY <1>9, <2>1, <2>2 DEF InRangeOf
  <2>3. CASE m = n
    <3>1. CASE p \in Batch
      <4>1. p.time \in Int
        BY <1>1, <3>1, PointFields
      <4> QED
        BY <1>1, <1>3, <2>3, <3>1, <4>1
    <3>2. CASE p \notin Batch
      <4>1. p \in Range(Contents(n))
        BY <1>1, <2>3, <3>2
      <4>2. n \in DOMAIN store
        BY <4>1 DEF Contents, Range
      <4>3. n.min <= p.time /\ p.time <= n.max /\ p \in Point
        BY <1>10, <2>1, <4>1, <4>2, ElementsOf DEF InRangeOf, Contents
      <4>4. p.time \in Int
        BY <4>3, PointFields
      <4> QED
        BY <1>1, <1>3, <2>3, <4>3, <4>4
    <3> QED
      BY <3>1, <3>2
  <2> QED
    BY <2>2, <2>3
<1>14. Stored' = Stored \union Batch
  BY WriteGives
<1>15. \A i : OnDisk(i) = files[i] /\ OnDisk(i)' = files[i]
  BY <1>1, <1>2 DEF OnDisk
<1>16. ASSUME ~filled, ~ignored, ToNewFile(n, bound, room), NEW i \in 1..Len(files)
       PROVE  files[i].min # n.min /\ (i < at => files[i].min < n.min)
  <2>1. files[i].min \in Int
    BY FilesAre
  <2>2. i < at => files[i].min < NextTime
    BY <1>2, <1>16 DEF Distinct
  <2>3. i >= at => n.min < files[i].min
    BY <1>2, <1>11, <1>16
  <2>4. n.min = NextTime
    BY <1>16 DEF ToNewFile
  <2> QED
    BY <1>2, <2>1, <2>2, <2>3, <2>4
<1>17. Distinct'
  <2> SUFFICES ASSUME ~filled', ~ignored PROVE Distinct'
    BY DEF Distinct
  <2>1. ~filled
    BY <1>1
  <2>2. \A m \in DOMAIN store : m.min = n.min => m = n
    <3>1. CASE ToThisFile(n, bound, room)
      BY <2>1, <3>1 DEF Distinct, ToThisFile
    <3>2. CASE ToNewFile(n, bound, room)
      <4> SUFFICES ASSUME NEW m \in DOMAIN store PROVE m.min # n.min
        OBVIOUS
      <4>1. PICK i \in 1..Len(files) : m = files[i]
        BY <1>2, <1>15, <2>1 DEF Distinct
      <4> QED
        BY <1>16, <2>1, <3>2, <4>1
    <3> QED
      BY <3>1, <3>2
  <2>3. \A m, q \in DOMAIN store' : m.min = q.min => m = q
    BY <1>1, <2>1, <2>2 DEF Distinct
  <2>4. \A m \in DOMAIN store' : (\E i \in 1..Len(files) : m = OnDisk(i)') \/ (new' # <<>> /\ m = n)
    <3> TAKE m \in DOMAIN store'
    <3>1. CASE m \in DOMAIN store
      BY <1>2, <1>15, <2>1, <3>1 DEF Distinct
    <3>2. CASE m \notin DOMAIN store
      <4>1. m = n /\ ~ToThisFile(n, bound, room)
        BY <1>1, <3>2 DEF ToThisFile
      <4> QED
        BY <1>4a, <4>1
    <3> QED
      BY <3>1, <3>2
  <2>5. ASSUME new' # <<>>, NEW i \in 1..(at - 1) PROVE files[i].min < n.min
    <3>1. ToNewFile(n, bound, room) /\ i \in 1..Len(files) /\ i < at
      BY <1>2, <2>5 DEF ToThisFile
    <3> QED
      BY <1>16, <2>1, <3>1
  <2>6. flushed' \subseteq Stored'
    BY <1>1, <1>14, <2>1 DEF Distinct
  <2>7. \A i, j \in 1..Len(files) : i < j => files[i].min < files[j].min
    BY <2>1 DEF Distinct
  <2> QED
    BY <1>1, <1>4, <2>3, <2>4, <2>5, <2>6, <2>7 DEF Distinct
<1>18. Apart'
  <2> SUFFICES ASSUME crashes = 0, ~filled', ~ignored PROVE Apart'
    BY DEF Apart
  <2>1. ~filled
    BY <1>1
  <2>2. Limit' = bound
    BY WriteGives
  <2>3. n.max <= bound
    <3>1. CASE ToThisFile(n, bound, room)
      <4>1. CASE at + 1 > Len(files)
        BY <1>3, <3>1, <4>1 DEF ToThisFile, BoundUpTo
      <4>2. CASE ~(at + 1 > Len(files))
        <5>1. at \in 1..Len(files) /\ at + 1 \in 1..Len(files) /\ at < at + 1
          BY <1>2, <4>2
        <5>2. files[at].max < files[at + 1].min /\ files[at + 1].min \in Int
          BY <2>1, <5>1, FilesAre DEF Apart
        <5>3. bound = files[at + 1].min - 1 /\ n = files[at]
          BY <3>1, <4>2 DEF ToThisFile, BoundUpTo
        <5>4. n.max \in Int
          BY <1>3
        <5> QED
          BY <5>2, <5>3, <5>4
      <4> QED
        BY <4>1, <4>2
    <3>2. CASE ToNewFile(n, bound, room)
      BY <3>2 DEF ToNewFile
    <3> QED
      BY <3>1, <3>2
  <2>4. reach' <= bound
    <3>1. NewMax(n, bound) <= Higher(n.max, bound)
      BY NewMaxIs DEF Shapes
    <3> QED
      BY <1>1, <1>3, <2>3, <3>1 DEF Higher
  <2>5. cursor' < Len(buf) => NextTime' > bound
    BY WriteGives
  <2>6. ASSUME NEW i \in 1..Len(files) PROVE OnDisk(i)' \in DOMAIN store'
    BY <1>1, <1>2, <1>15, <2>1 DEF Apart
  <2>7. ASSUME new' # <<>>, NEW i \in 1..(at - 1) PROVE files[i].max < n.min
    <3>1. n.min = NextTime
      BY <2>7 DEF ToThisFile, ToNewFile
    <3> QED
      BY <1>2, <2>1, <3>1 DEF Apart
  <2>8. Stored' \subseteq flushed'
    BY <1>1, <1>14, <2>1 DEF Apart
  <2>9. \A i, j \in 1..Len(files) : i < j => files[i].max < files[j].min
    BY <2>1 DEF Apart
  <2> QED
    BY <1>1, <1>2, <1>4, <2>2, <2>3, <2>4, <2>5, <2>6, <2>7, <2>8, <2>9 DEF Apart
<1> QED
  BY <1>5, <1>6, <1>7, <1>12, <1>13, <1>17, <1>18

LEMMA WritesToFile == ASSUME DirInv, WriteToFile PROVE WritesTo(files[at], Bound, Remaining)
<1>1. /\ Placing /\ at \in 1..Len(files) /\ files[at] \in DOMAIN store /\ Remaining > 0
      /\ Bound >= NextTime /\ NextTime >= files[at].min /\ Write(files[at], Bound, Remaining)
      /\ UNCHANGED <<known, files, buf, at, new, moving, flushes, ignored, crashes>>
  BY FilesAre DEF WriteToFile, Fits, AtEnd, Missing, DirInv, TypeOK
<1>2. new = <<>>
  BY <1>1 DEF DirInv, Shapes, Inside, Placing
<1>3. files[at] \in Name /\ files[at].min \in 0..Forever /\ Bound \in Int /\ Bound <= Forever
  BY <1>1, FilesAre, BoundIs DEF DirInv, Bound
<1>4. Remaining \in Nat \ {0} /\ Remaining = MaxPoints - Len(store[files[at]])
  <2>1. Len(store[files[at]]) \in Nat
    BY <1>1 DEF DirInv, Shapes
  <2> QED
    BY <1>1, <2>1, SizesAssumption DEF Remaining
<1>5. ToThisFile(files[at], Bound, Remaining)
  BY <1>1, <1>2, <1>4, FilesAre DEF ToThisFile, Bound, DirInv
<1>6. NextTime <= Bound /\ files[at].min <= NextTime
  <2>1. NextTime \in 0..Forever
    BY <1>1, BufIs DEF NextTime, Placing, DirInv
  <2> QED
    BY <1>1, <1>3, <2>1
<1> QED
  BY <1>1, <1>3, <1>4, <1>5, <1>6 DEF WritesTo

LEMMA WritesToNewFile == ASSUME DirInv, WriteToNewFile PROVE \E n : WritesTo(n, BoundUpTo(at), MaxPoints)
<1> DEFINE n == [min |-> NextTime, max |-> NextTime, opt |-> FALSE]
<1>1. /\ Placing /\ (AtEnd \/ NextTime < files[at].min)
      /\ Write(n, BoundUpTo(at), MaxPoints) /\ new' = <<n>>
      /\ UNCHANGED <<known, files, buf, at, moving, flushes, ignored, crashes>>
  BY DEF WriteToNewFile
<1>2. cursor + 1 \in 1..Len(buf) /\ buf \in Seq(Point)
  BY <1>1, BufIs DEF Placing, DirInv
<1>3. NextTime \in Timestamp /\ NextTime \in 0..Forever
  BY <1>2, PointTime DEF NextTime
<1>4. n \in Name /\ n.min = NextTime
  BY <1>3 DEF Name
<1>5. at \in Nat \ {0} /\ at \in 1..(Len(files) + 1) /\ Len(files) \in Nat
  BY FilesAre DEF DirInv, TypeOK
<1>6. BoundUpTo(at) \in Int /\ BoundUpTo(at) <= Forever
  BY <1>5, BoundIs DEF DirInv
<1>7. NextTime <= BoundUpTo(at)
  <2>1. CASE AtEnd
    BY <1>3, <1>5, <2>1, TimestampAssumption DEF AtEnd, BoundUpTo
  <2>2. CASE ~AtEnd
    <3>1. at \in 1..Len(files) /\ files[at].min \in 0..Forever
      BY <1>5, <2>2, FilesAre DEF AtEnd, DirInv
    <3> QED
      BY <1>1, <1>3, <1>5, <2>2, <3>1 DEF BoundUpTo
  <2> QED
    BY <2>1, <2>2
<1>8. ToNewFile(n, BoundUpTo(at), MaxPoints)
  <2>1. \A i \in at..Len(files) : NextTime < files[at].min
    BY <1>1, <1>5 DEF AtEnd
  <2> QED
    BY <1>1, <2>1 DEF ToNewFile
<1>9. NextTime <= NextTime
  BY <1>3
<1> HIDE DEF n
<1> QED
  BY <1>1, <1>4, <1>6, <1>7, <1>8, <1>9, SizesAssumption DEF WritesTo

LEMMA WritingIs == ASSUME DirInv, WriteToFile \/ WriteToNewFile
                   PROVE  \E n, bound, room : WritesTo(n, bound, room)
BY WritesToFile, WritesToNewFile

LEMMA RenameKeeps ==
    ASSUME DirInv, pc \in {"renaming", "marking"}, NEW name \in Name,
           name.min = Object.min, name.max <= Limit \/ ~(crashes = 0 /\ ~filled /\ ~ignored),
           crashes = 0 => InRangeOf(store[Object], name.min, name.max),
           Rename(name), UNCHANGED <<store, known, buf, cursor, at, reach, history>>
    PROVE  DirInv'
<1> USE DEF DirInv
<1>1. /\ pc' = "moving" /\ moving' = <<Object>> /\ Inside /\ Inside' /\ pc # "moving" /\ moving = <<>>
      /\ Written = Object /\ Len(moving') = 1 /\ moving'[1] = Object /\ pc # "placing" /\ known /\ known'
      /\ IF new = <<>> THEN files' = [files EXCEPT ![at] = name] /\ new' = new
                       ELSE new' = <<name>> /\ files' = files
      /\ UNCHANGED <<store, known, buf, cursor, at, reach, flushes, flushed, filled, ignored, crashes>>
  BY DEF Rename, Inside, Written, history, Shapes
<1>2. Object \in DOMAIN store /\ Object \in Name
  BY <1>1 DEF Kept, TypeOK
<1>3. /\ Len(files) \in Nat /\ at \in 1..(Len(files) + 1) /\ (new = <<>> => at \in 1..Len(files))
      /\ files \in Seq(Name)
  BY <1>1, FilesAre DEF TypeOK, Shapes
<1>4. files' \in Seq(Name) /\ Len(files') = Len(files)
  <2>1. CASE new = <<>>
    <3>1. files' = [files EXCEPT ![at] = name]
      BY <1>1, <2>1
    <3> QED
      BY <1>3, <2>1, <3>1, ExceptSeq
  <2>2. CASE new # <<>>
    BY <1>1, <1>3, <2>2
  <2> QED
    BY <2>1, <2>2
<1>5. \A i \in 1..Len(files) : files'[i] = IF new = <<>> /\ i = at THEN name ELSE files[i]
  BY <1>1, <1>3
<1>6. new' \in Seq(Name) /\ Len(new') <= 1 /\ (new' = <<>> <=> new = <<>>)
  <2>1. /\ <<name>> \in Seq(Name) /\ Len(<<name>>) = 1 /\ <<name>> # <<>>
        /\ <<>> \in Seq(Name) /\ Len(<<>>) = 0
    OBVIOUS
  <2>2. CASE new = <<>>
    <3>1. new' = <<>>
      BY <1>1, <2>2
    <3> QED
      BY <2>1, <2>2, <3>1
  <2>3. CASE new # <<>>
    <3>1. new' = <<name>>
      BY <1>1, <2>3
    <3>2. new' # <<>>
      BY <2>1, <3>1, Zenon
    <3> QED
      BY <2>1, <2>3, <3>1, <3>2
  <2> QED
    BY <2>2, <2>3
<1>7. Object' = name
  BY <1>1, <1>3, <1>5, <1>6 DEF Object
<1>8. Written' = Object
  BY <1>1 DEF Written
<1>9. new = <<>> => Object = files[at]
  BY DEF Object
<1>10. \A i \in 1..Len(files) : files'[i].min = files[i].min
  BY <1>5, <1>9
<1>11. TypeOK'
  <2>1. <<Object>> \in Seq(Name)
    BY <1>2
  <2> QED
    BY <1>1, <1>3, <1>4, <1>6, <2>1 DEF TypeOK
<1>12. Shapes'
  BY <1>1, <1>4, <1>6 DEF Shapes
<1>13. Kept'
  BY <1>1, <1>2, <1>7, <1>8 DEF Kept
<1>14. Sorted'
  <2> SUFFICES ASSUME ~filled PROVE Sorted'
    BY <1>1 DEF Sorted
  <2>1. Ordered(files')
    BY <1>4, <1>10 DEF Sorted, Ordered
  <2>2. Object'.min <= LastTime'
    BY <1>1, <1>7 DEF Sorted, LastTime
  <2>3. new' # <<>> => \A i \in 1..(at - 1) : files'[i].min <= Object'.min
    BY <1>3, <1>6, <1>7, <1>10 DEF Sorted, Covers
  <2>4. new' # <<>> => \A i \in at..Len(files) : Object'.min < files'[i].min
    BY <1>3, <1>6, <1>7, <1>10 DEF Sorted
  <2> QED
    BY <1>1, <1>4, <2>1, <2>2, <2>3, <2>4 DEF Sorted, Covers
<1>15. Named'
  BY <1>1, <1>7, <1>8 DEF Named
<1>16. \A i \in 1..Len(files) : OnDisk(i)' = files[i] /\ OnDisk(i) = files[i]
  BY <1>1, <1>5, <1>6, <1>9 DEF OnDisk
<1>17. Distinct'
  <2> SUFFICES ASSUME ~filled, ~ignored PROVE Distinct'
    BY <1>1 DEF Distinct
  <2>1. \A i, j \in 1..Len(files) : i < j => files'[i].min < files'[j].min
    BY <1>10 DEF Distinct
  <2>2. \A m \in DOMAIN store : (\E i \in 1..Len(files) : m = OnDisk(i)') \/ (new' # <<>> /\ m = Object)
    BY <1>1, <1>6, <1>16 DEF Distinct
  <2>3. new' # <<>> => \A i \in 1..(at - 1) : files'[i].min < Object'.min
    BY <1>3, <1>6, <1>7, <1>10 DEF Distinct
  <2> QED
    BY <1>1, <1>4, <1>8, <2>1, <2>2, <2>3 DEF Distinct, Stored
<1>18. Apart'
  <2> SUFFICES ASSUME crashes = 0, ~filled, ~ignored PROVE Apart'
    BY <1>1 DEF Apart
  <2>1. Limit' = Limit
    <3>1. \A i \in Nat \ {0} : BoundUpTo(i)' = BoundUpTo(i)
      BY <1>3, <1>4, <1>10 DEF BoundUpTo
    <3>2. at \in Nat \ {0} /\ at + 1 \in Nat \ {0}
      BY <1>3
    <3>3. BoundUpTo(at)' = BoundUpTo(at) /\ BoundUpTo(at + 1)' = BoundUpTo(at + 1)
      BY <1>1, <3>1, <3>2 DEF BoundUpTo
    <3> QED
      BY <1>1, <1>6, <3>3 DEF Limit, BoundUpTo
  <2>2. ASSUME NEW i \in 1..Len(files), NEW j \in 1..Len(files), i < j
        PROVE  files'[i].max < files'[j].min
    <3>1. CASE new = <<>> /\ i = at
      <4>1. at + 1 \in 1..Len(files) /\ name.max <= files[at + 1].min - 1
        BY <1>3, <2>2, <3>1 DEF Limit, BoundUpTo
      <4>2. files[at + 1].min <= files[j].min
        <5>1. at + 1 = j \/ at + 1 < j
          BY <1>3, <2>2, <3>1
        <5>2. files[at + 1].min \in Int
          BY <4>1, FilesAre
        <5>3. at + 1 < j => files[at + 1].min < files[j].min
          BY <4>1 DEF Distinct
        <5> QED
          BY <5>1, <5>2, <5>3, FilesAre
      <4>3. name.max \in Int /\ files[at + 1].min \in Int /\ files[j].min \in Int
        BY <4>1, FilesAre, NameFields
      <4> QED
        BY <1>5, <1>10, <3>1, <4>1, <4>2, <4>3
    <3>2. CASE ~(new = <<>> /\ i = at)
      BY <1>5, <1>10, <2>2, <3>2 DEF Apart
    <3> QED
      BY <3>1, <3>2
  <2>3. ASSUME new' # <<>>, NEW i \in 1..(at - 1) PROVE files'[i].max < Object'.min
    BY <1>3, <1>5, <1>6, <1>7, <2>3 DEF Apart
  <2>4. \A i \in 1..Len(files) : OnDisk(i)' \in DOMAIN store
    BY <1>1, <1>16 DEF Apart
  <2>5. reach' <= Limit' /\ Object'.max <= Limit' /\ (cursor' < Len(buf') => NextTime' > Limit')
    BY <1>1, <1>7, <2>1 DEF Apart, NextTime
  <2> QED
    BY <1>1, <1>4, <2>2, <2>3, <2>4, <2>5 DEF Apart, Stored
<1> QED
  BY <1>11, <1>12, <1>13, <1>14, <1>15, <1>17, <1>18

LEMMA ObjectIs == ASSUME DirInv, Inside
                  PROVE  /\ Object \in Name /\ Object.min \in 0..Forever /\ Object.max \in 0..Forever
                         /\ new # <<>> => new = <<Object>>
                         /\ new = <<>> => Object = files[at] /\ at \in 1..Len(files)
<1>1. new \in Seq(Name) /\ Len(new) <= 1 /\ (new = <<>> => at \in 1..Len(files))
  BY FilesAre DEF DirInv, Shapes, TypeOK
<1>2. CASE new = <<>>
  BY <1>1, <1>2, FilesAre DEF DirInv, Object
<1>3. CASE new # <<>>
  <2>1. Len(new) = 1 /\ new[1] \in Name
    BY <1>1, <1>3, EmptySeq
  <2>2. new = <<new[1]>>
    BY <1>1, <2>1
  <2> QED
    BY <1>3, <2>1, <2>2, NameFields DEF Object
<1> QED
  BY <1>2, <1>3

LEMMA SetMaxKeeps == ASSUME DirInv, SetMax PROVE DirInv'
<1> DEFINE name == [Object EXCEPT !.max = reach]
<1>1. /\ pc = "renaming" /\ Inside /\ reach > Object.max /\ Rename(name)
      /\ UNCHANGED <<store, known, buf, cursor, at, reach, history>>
  BY DEF SetMax, Inside
<1>2. Object \in Name /\ Object.max \in 0..Forever /\ reach \in 0..Forever
  BY <1>1, ObjectIs DEF DirInv, TypeOK
<1>3. name \in Name /\ name.min = Object.min /\ name.max = reach
  BY <1>2 DEF Name
<1>4. crashes = 0 => InRangeOf(store[Object], name.min, name.max)
  BY <1>1, <1>2, <1>3 DEF DirInv, Named, Kept, Written
<1>5. name.max <= Limit \/ ~(crashes = 0 /\ ~filled /\ ~ignored)
  BY <1>1, <1>3 DEF DirInv, Apart
<1> HIDE DEF name
<1> QED
  BY <1>1, <1>3, <1>4, <1>5, RenameKeeps

LEMMA SetOptimizedKeeps == ASSUME DirInv, SetOptimized PROVE DirInv'
<1> DEFINE name == [Object EXCEPT !.opt = TRUE]
<1>1. /\ pc = "marking" /\ Inside /\ Rename(name)
      /\ UNCHANGED <<store, known, buf, cursor, at, reach, history>>
  BY DEF SetOptimized, Inside
<1>2. Object \in Name
  BY <1>1, ObjectIs
<1>3. name \in Name /\ name.min = Object.min /\ name.max = Object.max
  BY <1>2 DEF Name
<1>4. crashes = 0 => InRangeOf(store[Object], name.min, name.max)
  BY <1>1, <1>2, <1>3 DEF DirInv, Named, Kept, Written
<1>5. name.max <= Limit \/ ~(crashes = 0 /\ ~filled /\ ~ignored)
  BY <1>1, <1>3 DEF DirInv, Apart
<1> HIDE DEF name
<1> QED
  BY <1>1, <1>3, <1>4, <1>5, RenameKeeps

LEMMA KeepNameKeeps == ASSUME DirInv, KeepName PROVE DirInv'
<1> USE DEF DirInv
<1>1. /\ pc = "renaming" /\ pc' = "marking" /\ Inside /\ Inside' /\ reach <= Object.max
      /\ UNCHANGED <<store, known, files, buf, cursor, at, new, reach, moving, flushes, flushed,
                     filled, ignored, crashes>>
  BY DEF KeepName, Inside, history, writevars
<1>2. Object' = Object /\ Written' = Written /\ Written = Object /\ \A i : OnDisk(i)' = OnDisk(i)
  BY <1>1 DEF Object, Written, OnDisk
<1>3. TypeOK' /\ Shapes' /\ Kept'
  BY <1>1, <1>2 DEF TypeOK, Shapes, Kept
<1>4. Sorted'
  BY <1>1, <1>2 DEF Sorted, Covers, LastTime
<1>5. Named'
  <2>1. Object.max \in Int /\ reach \in Int
    BY <1>1, ObjectIs DEF TypeOK
  <2> QED
    BY <1>1, <1>2, <2>1 DEF Named, InRangeOf
<1>6. Distinct'
  BY <1>1, <1>2 DEF Distinct, Stored
<1>7. Apart'
  <2>1. Limit' = Limit
    BY <1>1 DEF Limit, BoundUpTo
  <2> QED
    BY <1>1, <1>2, <2>1 DEF Apart, Stored, NextTime
<1> QED
  BY <1>3, <1>4, <1>5, <1>6, <1>7

\* The store once the file written to has the name its object has.
Settled ==
    /\ store' \in [DOMAIN store' -> Seq(Point)] /\ IsFiniteSet(DOMAIN store')
    /\ DOMAIN store' \subseteq Name /\ Object \in DOMAIN store'
    /\ ~filled => \A n \in DOMAIN store' : Len(store'[n]) < MaxPoints
    /\ crashes = 0 => \A n \in DOMAIN store' : InRangeOf(store'[n], n.min, n.max)
    /\ ~filled /\ ~ignored =>
           /\ \A m, n \in DOMAIN store' : m.min = n.min => m = n
           /\ \A n \in DOMAIN store' : \/ \E i \in 1..Len(files) : n = files[i]
                                       \/ new # <<>> /\ n = Object
           /\ flushed \subseteq Stored'
    /\ crashes = 0 /\ ~filled /\ ~ignored =>
           /\ \A i \in 1..Len(files) : files[i] \in DOMAIN store'
           /\ Stored' \subseteq flushed

LEMMA MarkingSettled == ASSUME DirInv, pc = "marking", UNCHANGED store
                        PROVE  Settled
<1>1. Inside /\ Written = Object /\ \A i : OnDisk(i) = files[i]
  BY DEF Inside, Written, OnDisk
<1>2. known /\ DOMAIN store \subseteq Name /\ Object \in DOMAIN store
  BY <1>1 DEF DirInv, Shapes, TypeOK, Kept
<1>3. Stored' = Stored
  BY DEF Stored
<1>4. crashes = 0 => \A n \in DOMAIN store : InRangeOf(store[n], n.min, n.max)
  BY <1>1 DEF DirInv, Named
<1>5. ~filled /\ ~ignored =>
          /\ \A m, n \in DOMAIN store : m.min = n.min => m = n
          /\ \A n \in DOMAIN store : (\E i \in 1..Len(files) : n = files[i]) \/ (new # <<>> /\ n = Object)
          /\ flushed \subseteq Stored
  BY <1>1, <1>2 DEF DirInv, Distinct
<1>6. crashes = 0 /\ ~filled /\ ~ignored =>
          (\A i \in 1..Len(files) : files[i] \in DOMAIN store) /\ Stored \subseteq flushed
  BY <1>1, <1>2 DEF DirInv, Apart
<1> QED
  BY <1>2, <1>3, <1>4, <1>5, <1>6 DEF Settled, DirInv, Shapes, Sorted

\* rename(2) under the file: what was in it is in the file of the new name.
LEMMA MoveDoes ==
    ASSUME DirInv, Move
    PROVE  /\ pc = "moving" /\ Inside /\ known /\ Written = moving[1] /\ Object \in Name
           /\ moving[1] \in DOMAIN store /\ moving[1].min = Object.min
           /\ DOMAIN store' = (DOMAIN store \ {moving[1]}) \union {Object} /\ store'[Object] = store[moving[1]]
           /\ \A m \in DOMAIN store' \ {Object} : m \in DOMAIN store /\ m # moving[1] /\ store'[m] = store[m]
           /\ store' = [m \in DOMAIN store' |-> store'[m]]
           /\ UNCHANGED <<known, flushes, flushed, filled, ignored, crashes>>
<1> USE DEF DirInv
<1> DEFINE old == moving[1]
<1>1. /\ pc = "moving" /\ Inside /\ known /\ Len(moving) = 1 /\ moving \in Seq(Name) /\ Written = old
      /\ store' = [m \in (DOMAIN store \ Range(moving)) \union {Object} |->
                       IF m = Object THEN store[moving[1]] ELSE store[m]]
      /\ UNCHANGED <<known, flushes, flushed, filled, ignored, crashes>>
  BY DEF Move, Inside, Shapes, TypeOK, Written, history
<1>2. Range(moving) = {old}
  BY <1>1, ElementsOf
<1>3. old \in DOMAIN store /\ old.min = Object.min /\ Object \in Name
  BY <1>1, ObjectIs DEF Kept
<1> HIDE DEF old
<1>4. /\ DOMAIN store' = (DOMAIN store \ {old}) \union {Object} /\ store'[Object] = store[old]
      /\ \A m \in DOMAIN store' \ {Object} : m \in DOMAIN store /\ m # old /\ store'[m] = store[m]
  BY <1>1, <1>2 DEF old
<1>5. store' = [m \in DOMAIN store' |-> store'[m]]
  BY <1>1
<1> QED
  BY <1>1, <1>3, <1>4, <1>5 DEF old

LEMMA MovingSettled == ASSUME DirInv, Move
                       PROVE  Settled
<1> USE DEF DirInv
<1> DEFINE old == moving[1]
<1>1. /\ pc = "moving" /\ Inside /\ known /\ Written = old
      /\ UNCHANGED <<flushed, filled, ignored, crashes>>
  BY MoveDoes
<1>3. old \in DOMAIN store /\ old.min = Object.min /\ Object \in Name
  BY MoveDoes
<1>4. /\ DOMAIN store' = (DOMAIN store \ {old}) \union {Object} /\ store'[Object] = store[old]
      /\ \A m \in DOMAIN store' \ {Object} : m \in DOMAIN store /\ m # old /\ store'[m] = store[m]
      /\ store' = [m \in DOMAIN store' |-> store'[m]]
  BY MoveDoes
<1> HIDE DEF old
<1>5. store' \in [DOMAIN store' -> Seq(Point)] /\ IsFiniteSet(DOMAIN store') /\ DOMAIN store' \subseteq Name
  <2>1. IsFiniteSet(DOMAIN store \ {old})
    BY FS_Subset DEF Shapes
  <2>2. IsFiniteSet(DOMAIN store')
    BY <1>4, <2>1, FS_AddElement
  <2>3. \A m \in DOMAIN store' : m \in Name /\ store'[m] \in Seq(Point)
    BY <1>3, <1>4 DEF TypeOK
  <2> QED
    BY <1>4, <2>2, <2>3
<1>6. ~filled => \A n \in DOMAIN store' : Len(store'[n]) < MaxPoints
  BY <1>3, <1>4 DEF Sorted
<1>7. crashes = 0 => \A n \in DOMAIN store' : InRangeOf(store'[n], n.min, n.max)
  <2> SUFFICES ASSUME crashes = 0, NEW n \in DOMAIN store' PROVE InRangeOf(store'[n], n.min, n.max)
    OBVIOUS
  <2>1. CASE n = Object
    BY <1>1, <1>3, <1>4, <2>1 DEF Named, old
  <2>2. CASE n # Object
    BY <1>1, <1>3, <1>4, <2>2 DEF Named, old
  <2> QED
    BY <2>1, <2>2
<1>8. ASSUME ~filled, ~ignored
      PROVE  /\ \A m, n \in DOMAIN store' : m.min = n.min => m = n
             /\ \A n \in DOMAIN store' : \/ \E i \in 1..Len(files) : n = files[i]
                                         \/ new # <<>> /\ n = Object
             /\ Stored' = Stored
  <2>1. \A m, n \in DOMAIN store : m.min = n.min => m = n
    BY <1>8 DEF Distinct
  <2>2. \A m \in DOMAIN store' \ {Object} : m.min # Object.min
    BY <1>3, <1>4, <2>1
  <2>3. \A m, n \in DOMAIN store' : m.min = n.min => m = n
    BY <1>4, <2>1, <2>2
  <2>4. ASSUME NEW n \in DOMAIN store'
        PROVE  (\E i \in 1..Len(files) : n = files[i]) \/ (new # <<>> /\ n = Object)
    <3>1. CASE n = Object
      BY <1>1, <3>1, ObjectIs
    <3>2. CASE n # Object
      <4>1. n \in DOMAIN store /\ n # old
        BY <1>4, <3>2
      <4>2. \E i \in 1..Len(files) : n = OnDisk(i)
        BY <1>1, <1>8, <4>1 DEF Distinct, old
      <4> QED
        BY <4>1, <4>2 DEF OnDisk, old
    <3> QED
      BY <3>1, <3>2
  <2>5. Object \in DOMAIN store => Object = old
    BY <1>3, <2>1
  <2>6. Stored = UNION {Range(store[m]) : m \in DOMAIN store}
        /\ Stored' = UNION {Range(store'[m]) : m \in DOMAIN store'}
    BY DEF Stored
  <2>7. \A m \in DOMAIN store : m # old => m \in DOMAIN store' /\ store'[m] = store[m]
    BY <1>4, <2>5
  <2>8. Stored \subseteq Stored'
    BY <1>3, <1>4, <2>6, <2>7
  <2>9. Stored' \subseteq Stored
    BY <1>3, <1>4, <2>6
  <2> QED
    BY <2>3, <2>4, <2>8, <2>9
<1>9. ASSUME crashes = 0, ~filled, ~ignored, NEW i \in 1..Len(files)
      PROVE  files[i] \in DOMAIN store'
  <2>1. CASE new = <<>> /\ i = at
    BY <1>1, <1>4, <2>1, ObjectIs
  <2>2. CASE ~(new = <<>> /\ i = at)
    <3>1. files[i] \in DOMAIN store
      BY <1>1, <1>9, <2>2 DEF Apart, OnDisk
    <3>2. files[i].min # Object.min
      <4>1. /\ Object.min \in Int /\ files[i].min \in Int /\ at \in Nat
            /\ new = <<>> => Object = files[at] /\ at \in 1..Len(files)
        BY <1>1, ObjectIs, FilesAre
      <4>2. i < at => files[i].min < Object.min
        BY <1>9, <4>1 DEF Distinct
      <4>3. i > at => Object.min < files[i].min
        BY <1>9, <4>1 DEF Distinct, Sorted
      <4>4. i = at => Object.min < files[i].min
        BY <1>9, <2>2, <4>1 DEF Sorted
      <4> QED
        BY <4>1, <4>2, <4>3, <4>4
    <3> QED
      BY <1>3, <1>4, <3>1, <3>2
  <2> QED
    BY <2>1, <2>2
<1>10. Object \in DOMAIN store'
  BY <1>4
<1> QED
  BY <1>5, <1>6, <1>7, <1>8, <1>9, <1>10 DEF Settled, Distinct, Apart

LEMMA JoinIs ==
    ASSUME DirInv, Inside
    PROVE  /\ Join \in Seq(Name) /\ Len(Join) \in Len(files)..(Len(files) + 1) /\ at <= Len(Join)
           /\ new = <<>> => Len(Join) = Len(files)
           /\ new # <<>> => Len(Join) = Len(files) + 1
           /\ \A i \in 1..Len(Join) : Join[i] = IF i < at THEN files[i]
                                                ELSE IF i = at THEN Object
                                                ELSE IF new = <<>> THEN files[i] ELSE files[i - 1]
<1>1. files \in Seq(Name) /\ at \in 1..(Len(files) + 1) /\ Len(files) \in Nat
  BY FilesAre DEF DirInv, TypeOK
<1>2. CASE new = <<>>
  BY <1>1, <1>2, ObjectIs DEF Join
<1>3. CASE new # <<>>
  <2>1. new = <<Object>> /\ Object \in Name
    BY <1>3, ObjectIs
  <2>2. new[1] = Object
    BY <2>1
  <2>3. Join = InsertAt(files, at, Object)
    BY <1>3, <2>2 DEF Join
  <2>4. Inserted(Name, Join, files, at, Object)
    <3>1. files \in Seq(Name) /\ Object \in Name /\ at \in 1..(Len(files) + 1)
      BY <1>1, <2>1
    <3> QED
      BY <2>3, <3>1, InsertIs
  <2> QED
    BY <1>1, <1>3, <2>4 DEF Inserted
<1> QED
  BY <1>2, <1>3

\* Two places of the new vector: two old files, or an old file and the written one.
LEMMA Places ==
    ASSUME DirInv, Inside, NEW i \in 1..Len(Join), NEW j \in 1..Len(Join), i < j
    PROVE  \/ \E k, l \in 1..Len(files) : k < l /\ Join[i] = files[k] /\ Join[j] = files[l]
           \/ \E k \in 1..(at - 1) : k \in 1..Len(files) /\ Join[i] = files[k] /\ Join[j] = Object
           \/ new = <<>> /\ \E l \in (at + 1)..Len(files) : Join[i] = Object /\ Join[j] = files[l]
           \/ new # <<>> /\ \E l \in at..Len(files) : Join[i] = Object /\ Join[j] = files[l]
<1>1. Len(files) \in Nat /\ at \in Nat \ {0} /\ at \in 1..(Len(files) + 1)
  BY FilesAre DEF DirInv, TypeOK
<1> DEFINE N == Len(Join)
<1>2. /\ N \in Len(files)..(Len(files) + 1) /\ at <= N /\ N \in Nat
      /\ new = <<>> => N = Len(files)
      /\ new # <<>> => N = Len(files) + 1
  BY <1>1, JoinIs
<1>3. /\ Join[i] = IF i < at THEN files[i] ELSE IF i = at THEN Object
                   ELSE IF new = <<>> THEN files[i] ELSE files[i - 1]
      /\ Join[j] = IF j < at THEN files[j] ELSE IF j = at THEN Object
                   ELSE IF new = <<>> THEN files[j] ELSE files[j - 1]
  BY JoinIs
<1>4. i \in 1..N /\ j \in 1..N
  OBVIOUS
<1> HIDE DEF N
<1>5. CASE new = <<>>
  <2>1. i \in 1..Len(files) /\ j \in 1..Len(files)
    BY <1>2, <1>4, <1>5
  <2>2. i < at => i \in 1..(at - 1)
    BY <1>1, <2>1
  <2>3. j > at => j \in (at + 1)..Len(files)
    BY <1>1, <2>1
  <2>4. i = at \/ Join[i] = files[i]
    BY <1>3, <1>5
  <2>5. j = at \/ Join[j] = files[j]
    BY <1>3, <1>5
  <2>6. CASE i # at /\ j # at
    BY <2>1, <2>4, <2>5, <2>6
  <2>7. CASE j = at
    <3>1. i < at /\ Join[i] = files[i] /\ Join[j] = Object
      BY <1>1, <1>3, <1>4, <2>7
    <3> QED
      BY <2>1, <2>2, <3>1
  <2>8. CASE i = at
    <3>1. j > at /\ Join[j] = files[j] /\ Join[i] = Object
      BY <1>1, <1>3, <1>4, <1>5, <2>8
    <3> QED
      BY <1>5, <2>3, <3>1
  <2> QED
    BY <2>6, <2>7, <2>8
<1>6. CASE new # <<>>
  <2>1. CASE j < at
    <3>1. i \in 1..Len(files) /\ j \in 1..Len(files) /\ i < at
      BY <1>1, <1>4, <2>1
    <3>2. Join[i] = files[i] /\ Join[j] = files[j]
      BY <1>3, <2>1, <3>1
    <3> QED
      BY <3>1, <3>2
  <2>2. CASE j = at
    <3>1. i \in 1..Len(files) /\ i \in 1..(at - 1) /\ i < at
      BY <1>1, <1>4, <2>2
    <3>2. Join[i] = files[i] /\ Join[j] = Object
      BY <1>3, <2>2, <3>1
    <3> QED
      BY <3>1, <3>2
  <2>3. CASE j > at
    <3>1. j - 1 \in at..Len(files) /\ j - 1 \in 1..Len(files) /\ j \in Int
      BY <1>1, <1>2, <1>4, <1>6, <2>3
    <3>2. Join[j] = files[j - 1]
      BY <1>1, <1>3, <1>6, <2>3, <3>1
    <3>3. CASE i < at
      <4>1. i \in 1..Len(files) /\ i < j - 1
        BY <1>1, <1>4, <3>1, <3>3
      <4>2. Join[i] = files[i]
        BY <1>3, <3>3
      <4> QED
        BY <3>1, <3>2, <4>1, <4>2
    <3>4. CASE i = at
      <4>1. Join[i] = Object
        BY <1>1, <1>3, <3>4
      <4> QED
        BY <1>6, <3>1, <3>2, <4>1
    <3>5. CASE i > at
      <4>1. i - 1 \in 1..Len(files) /\ i - 1 < j - 1 /\ i \in Int
        BY <1>1, <1>4, <3>1, <3>5
      <4>2. Join[i] = files[i - 1]
        BY <1>1, <1>3, <1>6, <3>5, <4>1
      <4> QED
        BY <3>1, <3>2, <4>1, <4>2
    <3> QED
      BY <1>1, <1>4, <3>3, <3>4, <3>5
  <2> QED
    BY <1>1, <1>4, <2>1, <2>2, <2>3
<1> QED
  BY <1>5, <1>6

LEMMA ReturnKeeps ==
    ASSUME DirInv, pc \in {"marking", "moving"}, Settled, Returned, moving' = <<>>,
           UNCHANGED <<known, buf, cursor, reach, history>>
    PROVE  DirInv'
<1> USE DEF DirInv
<1>1. /\ Inside /\ ~Inside' /\ pc' = "placing" /\ files' = Join /\ new' = <<>> /\ at' = at + 1 /\ moving' = <<>>
      /\ known /\ UNCHANGED <<known, buf, cursor, reach, flushes, flushed, filled, ignored, crashes>>
  BY DEF Returned, Inside, Shapes, history
<1>2. /\ Len(files) \in Nat /\ at \in Nat \ {0} /\ at \in 1..(Len(files) + 1)
      /\ \A i \in 1..Len(files) : files[i] \in Name /\ files[i].min \in 0..Forever /\ files[i].max \in 0..Forever
  BY FilesAre DEF TypeOK
<1>3. /\ Object \in Name /\ Object.min \in 0..Forever /\ Object.max \in 0..Forever
      /\ new = <<>> => Object = files[at] /\ at \in 1..Len(files)
  BY <1>1, ObjectIs
<1> DEFINE N == Len(Join)
<1>4. /\ Join \in Seq(Name) /\ N \in Len(files)..(Len(files) + 1) /\ at <= N /\ N \in Nat
      /\ new = <<>> => N = Len(files)
      /\ new # <<>> => N = Len(files) + 1
  BY <1>1, <1>2, JoinIs
\* Each place of the new vector: the file written, one before it or one after it.
<1>5. ASSUME NEW i \in 1..N
      PROVE  \/ i < at /\ i \in 1..Len(files) /\ Join[i] = files[i]
             \/ i = at /\ Join[i] = Object
             \/ i > at /\ new = <<>> /\ i \in 1..Len(files) /\ Join[i] = files[i]
             \/ i > at /\ new # <<>> /\ i - 1 \in at..Len(files) /\ i - 1 \in 1..Len(files) /\ Join[i] = files[i - 1]
  <2>1. Join[i] = IF i < at THEN files[i] ELSE IF i = at THEN Object
                  ELSE IF new = <<>> THEN files[i] ELSE files[i - 1]
    BY <1>1, JoinIs
  <2> QED
    BY <1>2, <1>4, <2>1
<1> HIDE DEF N
<1>6. cursor >= 1 /\ cursor \in 1..Len(buf) /\ LastTime \in 0..Forever
      /\ (cursor < Len(buf) => NextTime \in 0..Forever /\ LastTime < NextTime)
  <2>1. cursor >= 1 /\ cursor \in 1..Len(buf) /\ LastTime \in 0..Forever
    BY <1>1, BufIs DEF Shapes, LastTime
  <2>2. cursor < Len(buf) => cursor + 1 \in 1..Len(buf) /\ NextTime \in 0..Forever
    BY <2>1, BufIs DEF NextTime
  <2> QED
    BY <2>1, <2>2 DEF Shapes, Ascending, LastTime, NextTime
<1>7. TypeOK'
  <2>1. at + 1 \in 1..(Len(Join) + 1)
    BY <1>2, <1>4 DEF N
  <2>2. DOMAIN store' \subseteq Name /\ \A n \in DOMAIN store' : store'[n] \in Seq(Point)
    BY DEF Settled
  <2>3. <<>> \in Seq(Name)
    OBVIOUS
  <2>4. at' \in 1..(Len(files') + 1) /\ files' \in Seq(Name)
    BY <1>1, <1>4, <2>1
  <2>5. known' \in BOOLEAN /\ buf' \in Seq(Point) /\ cursor' \in 0..Len(buf') /\ reach' \in 0..Forever
    BY <1>1 DEF TypeOK
  <2>6. new' \in Seq(Name) /\ moving' \in Seq(Name)
        /\ pc' \in {"idle", "listing", "placing", "renaming", "marking", "moving", "spinning"}
    BY <1>1, <2>3
  <2>7. /\ flushes' \in 0..MaxFlushes /\ flushed' \in SUBSET Point
        /\ filled' \in BOOLEAN /\ ignored' \in BOOLEAN /\ crashes' \in Nat
    BY <1>1 DEF TypeOK
  <2> QED
    BY <2>2, <2>4, <2>5, <2>6, <2>7 DEF TypeOK
<1>8. Shapes' /\ Kept'
  BY <1>1 DEF Shapes, Settled, Kept
<1>9. \A i : OnDisk(i)' = Join[i]
  BY <1>1 DEF OnDisk
<1>10. Named'
  BY <1>1 DEF Settled, Named
<1>11a. ASSUME NEW i \in 1..N, NEW j \in 1..N, i < j
       PROVE  \/ \E k, l \in 1..Len(files) : k < l /\ Join[i] = files[k] /\ Join[j] = files[l]
              \/ \E k \in 1..(at - 1) : k \in 1..Len(files) /\ Join[i] = files[k] /\ Join[j] = Object
              \/ new = <<>> /\ \E l \in (at + 1)..Len(files) : Join[i] = Object /\ Join[j] = files[l]
              \/ new # <<>> /\ \E l \in at..Len(files) : Join[i] = Object /\ Join[j] = files[l]
  BY <1>1, <1>11a, Places DEF N
<1>11. ASSUME ~filled, NEW i \in 1..N, NEW j \in 1..N, i < j
       PROVE  Join[i].min <= Join[j].min
  <2>1. \A k, l \in 1..Len(files) : k < l => files[k].min <= files[l].min
    BY <1>11 DEF Sorted, Ordered
  <2>2. CASE new = <<>>
    <3>1. \A k \in 1..Len(files) : k < at => files[k].min <= Object.min
      BY <1>3, <2>1, <2>2
    <3>2. \A k \in 1..(at - 1) : k \in 1..Len(files) => files[k].min <= Object.min
      BY <1>2, <3>1
    <3>3. \A l \in (at + 1)..Len(files) : Object.min <= files[l].min
      BY <1>2, <1>3, <2>1, <2>2
    <3>4. CASE \E k, l \in 1..Len(files) : k < l /\ Join[i] = files[k] /\ Join[j] = files[l]
      BY <2>1, <3>4
    <3>5. CASE \E k \in 1..(at - 1) : k \in 1..Len(files) /\ Join[i] = files[k] /\ Join[j] = Object
      BY <3>2, <3>5
    <3>6. CASE \E l \in (at + 1)..Len(files) : Join[i] = Object /\ Join[j] = files[l]
      BY <3>3, <3>6
    <3> QED
      BY <1>11a, <1>11, <2>2, <3>4, <3>5, <3>6
  <2>3. CASE new # <<>>
    <3>1. /\ \A k \in 1..(at - 1) : files[k].min <= Object.min
          /\ \A k \in at..Len(files) : Object.min < files[k].min
      BY <1>11, <2>3 DEF Sorted, Covers
    <3>2. \A k \in at..Len(files) : Object.min <= files[k].min
      BY <1>2, <1>3, <3>1
    <3>4. CASE \E k, l \in 1..Len(files) : k < l /\ Join[i] = files[k] /\ Join[j] = files[l]
      BY <2>1, <3>4
    <3>5. CASE \E k \in 1..(at - 1) : k \in 1..Len(files) /\ Join[i] = files[k] /\ Join[j] = Object
      BY <3>1, <3>5
    <3>6. CASE \E l \in at..Len(files) : Join[i] = Object /\ Join[j] = files[l]
      BY <3>2, <3>6
    <3> QED
      BY <1>11a, <1>11, <2>3, <3>4, <3>5, <3>6
  <2> QED
    BY <2>2, <2>3
<1>12. ASSUME ~filled, NEW i \in 1..at PROVE Join[i].min <= Object.min /\ Join[i].min \in Int
  <2>1. i \in 1..N /\ at \in 1..N /\ Join[at] = Object
    BY <1>2, <1>4, <1>5
  <2>2. i < at => Join[i].min <= Object.min
    BY <1>11, <1>12, <2>1
  <2> QED
    BY <1>2, <1>3, <1>5, <2>1, <2>2
<1>13. Sorted'
  <2> SUFFICES ASSUME ~filled PROVE Sorted'
    BY <1>1 DEF Sorted
  <2>1. cursor < Len(buf) => \A i \in 1..at : Join[i].min <= NextTime
    <3>1. Object.min <= LastTime
      BY <1>1 DEF Sorted
    <3> QED
      BY <1>3, <1>6, <1>12, <3>1
  <2>2. Ordered(Join)
    BY <1>11 DEF Ordered, N
  <2>3. \A i \in 1..(at' - 1) : i \in 1..at
    BY <1>1, <1>2
  <2> QED
    BY <1>1, <2>1, <2>2, <2>3 DEF Sorted, Covers, NextTime, Settled
<1>14. ASSUME ~filled, ~ignored, NEW i \in 1..N, NEW j \in 1..N, i < j
       PROVE  Join[i].min < Join[j].min
  <2>1. \A k, l \in 1..Len(files) : k < l => files[k].min < files[l].min
    BY <1>14 DEF Distinct
  <2>2. CASE new = <<>>
    <3>1. \A k \in 1..Len(files) : k < at => files[k].min < Object.min
      BY <1>3, <2>1, <2>2
    <3>2. \A k \in 1..(at - 1) : k \in 1..Len(files) => files[k].min < Object.min
      BY <1>2, <3>1
    <3>3. \A l \in (at + 1)..Len(files) : Object.min < files[l].min
      BY <1>2, <1>3, <2>1, <2>2
    <3> QED
      BY <1>11a, <1>14, <2>1, <2>2, <3>2, <3>3
  <2>3. CASE new # <<>>
    <3>1. /\ \A k \in 1..(at - 1) : files[k].min < Object.min
          /\ \A k \in at..Len(files) : Object.min < files[k].min
      BY <1>14, <2>3 DEF Sorted, Distinct
    <3> QED
      BY <1>11a, <1>14, <2>1, <2>3, <3>1
  <2> QED
    BY <2>2, <2>3
<1>15. Distinct'
  <2> SUFFICES ASSUME ~filled, ~ignored PROVE Distinct'
    BY <1>1 DEF Distinct
  <2>1. ASSUME NEW n \in DOMAIN store' PROVE \E i \in 1..N : n = Join[i]
    <3>1. at \in 1..N /\ Join[at] = Object
      BY <1>2, <1>4, <1>5
    <3>2. CASE n = Object
      BY <3>1, <3>2
    <3>3. CASE n # Object
      <4>1. PICK i \in 1..Len(files) : n = files[i]
        BY <3>3 DEF Settled
      <4>2. CASE i < at
        <5>1. i \in 1..N /\ Join[i] = files[i]
          BY <1>2, <1>4, <1>5, <4>2
        <5> QED
          BY <4>1, <5>1
      <4>3. CASE i >= at /\ new = <<>>
        <5>1. i > at
          BY <1>2, <1>3, <3>3, <4>1, <4>3
        <5>2. i \in 1..N /\ Join[i] = files[i]
          BY <1>2, <1>4, <1>5, <4>3, <5>1
        <5> QED
          BY <4>1, <5>2
      <4>4. CASE i >= at /\ new # <<>>
        <5>1. i + 1 \in 1..N /\ i + 1 > at /\ (i + 1) - 1 = i
          BY <1>2, <1>4, <4>4
        <5>2. Join[i + 1] = files[i]
          BY <1>2, <1>5, <4>4, <5>1
        <5> QED
          BY <4>1, <5>1, <5>2
      <4> QED
        BY <1>2, <4>2, <4>3, <4>4
    <3> QED
      BY <3>2, <3>3
  <2>2. cursor < Len(buf) => \A i \in 1..at : Join[i].min < NextTime
    <3>1. Object.min <= LastTime
      BY <1>1 DEF Sorted
    <3> QED
      BY <1>3, <1>6, <1>12, <3>1
  <2>3. \A i \in 1..(at' - 1) : i \in 1..at
    BY <1>1, <1>2
  <2>4. \A i, j \in 1..Len(Join) : i < j => Join[i].min < Join[j].min
    BY <1>14 DEF N
  <2>5. \A n \in DOMAIN store' : \E i \in 1..Len(Join) : n = OnDisk(i)'
    BY <1>9, <2>1 DEF N
  <2> QED
    BY <1>1, <2>2, <2>3, <2>4, <2>5 DEF Distinct, NextTime, Settled
<1>16. Apart'
  <2> SUFFICES ASSUME crashes = 0, ~filled, ~ignored PROVE Apart'
    BY <1>1 DEF Apart
  <2>1. /\ \A k, l \in 1..Len(files) : k < l => files[k].max < files[l].min
        /\ Object.max <= Limit /\ (cursor < Len(buf) => NextTime > Limit)
        /\ new # <<>> => \A k \in 1..(at - 1) : files[k].max < Object.min
    BY <1>1 DEF Apart
  <2>2. \A k \in at..Len(files) : new # <<>> => Object.max < files[k].min
    <3> SUFFICES ASSUME NEW k \in at..Len(files), new # <<>> PROVE Object.max < files[k].min
      OBVIOUS
    <3>1. at \in 1..Len(files) /\ Object.max <= files[at].min - 1
      BY <1>2, <2>1 DEF Limit, BoundUpTo
    <3>2. at < k => files[at].min < files[k].min
      BY <1>2, <3>1 DEF Distinct
    <3> QED
      BY <1>2, <1>3, <3>1, <3>2
  <2>3. ASSUME NEW i \in 1..N, NEW j \in 1..N, i < j PROVE Join[i].max < Join[j].min
    <3>1. CASE new = <<>>
      <4>1. \A k \in 1..Len(files) : k < at => files[k].max < Object.min
        BY <1>3, <2>1, <3>1
      <4>2. \A k \in 1..(at - 1) : k \in 1..Len(files) => files[k].max < Object.min
        <5> SUFFICES ASSUME NEW k \in 1..(at - 1), k \in 1..Len(files) PROVE files[k].max < Object.min
          OBVIOUS
        <5>1. at \in Int
          BY <1>2
        <5>2. k < at
          BY <5>1
        <5> QED
          BY <4>1, <5>2
      <4>3. \A l \in (at + 1)..Len(files) : Object.max < files[l].min
        BY <1>2, <1>3, <2>1, <3>1
      <4> QED
        BY <1>11a, <2>1, <2>3, <3>1, <4>2, <4>3, SMTT(30)
    <3>2. CASE new # <<>>
      BY <1>11a, <2>1, <2>2, <2>3, <3>2
    <3> QED
      BY <3>1, <3>2
  <2>4. ASSUME NEW i \in 1..N PROVE Join[i] \in DOMAIN store'
    BY <1>5 DEF Settled
  <2>5. ASSUME cursor < Len(buf), NEW i \in 1..at PROVE Join[i].max < NextTime
    <3>1. i \in 1..N /\ at \in 1..N /\ Join[at] = Object
      BY <1>2, <1>4, <1>5
    <3>2. Object.min <= LastTime /\ LastTime \in Int /\ NextTime \in Int /\ LastTime < NextTime
      BY <1>1, <1>6, <2>5 DEF Sorted
    <3>3. i < at => Join[i].max < Object.min /\ Join[i].max \in Int
      BY <1>2, <1>5, <2>3, <3>1
    <3>4. Limit \in Int
      BY <1>2, BoundIs DEF Limit
    <3>5. i = at => Join[i].max < NextTime
      BY <1>3, <1>6, <2>1, <2>5, <3>1, <3>4
    <3> QED
      <4>1. i < at \/ i = at
        BY <1>2
      <4>2. Object.min \in Int
        BY <1>3
      <4> QED
        BY <3>2, <3>3, <3>5, <4>1, <4>2
  <2>6. \A i \in 1..(at' - 1) : i \in 1..at
    BY <1>1, <1>2
  <2>7. \A i, j \in 1..Len(Join) : i < j => Join[i].max < Join[j].min
    BY <2>3 DEF N
  <2>8. \A i \in 1..Len(Join) : OnDisk(i)' \in DOMAIN store'
    BY <1>9, <2>4 DEF N
  <2>9. cursor < Len(buf) => \A i \in 1..(at' - 1) : Join[i].max < NextTime
    BY <2>5, <2>6
  <2>10. Stored' \subseteq flushed
    BY DEF Settled
  <2> QED
    BY <1>1, <2>7, <2>8, <2>9, <2>10 DEF Apart, NextTime
<1> QED
  BY <1>7, <1>8, <1>10, <1>13, <1>15, <1>16

\* MaybeOptimize leaves the file as it is, and Write inserts its object.
LEMMA WriteReturnsKeeps == ASSUME DirInv, WriteReturns PROVE DirInv'
<1>1. pc = "marking" /\ Returned /\ UNCHANGED <<store, known, buf, cursor, reach, moving, history>>
  BY DEF WriteReturns
<1>2. Settled
  BY <1>1, MarkingSettled
<1>3. moving' = <<>>
  BY <1>1 DEF DirInv, Shapes
<1> QED
  BY <1>1, <1>2, <1>3, ReturnKeeps

\* After the rename that leaves the file unmarked the name is right; after the one that
\* marks it the write is over.
LEMMA MoveKeeps == ASSUME DirInv, Move PROVE DirInv'
<1>1. /\ pc = "moving" /\ Inside /\ moving' = <<>>
      /\ UNCHANGED <<known, buf, cursor, reach, flushes, flushed, filled, ignored, crashes>>
  BY DEF Move, Inside, history
<1>2. Settled
  BY MovingSettled
<1>3. CASE Returned
  BY <1>1, <1>2, <1>3, ReturnKeeps DEF Move
<1>4. CASE pc' = "marking" /\ UNCHANGED <<files, new, at>>
  <2>1. Inside' /\ Object' = Object /\ Written' = Object /\ Limit' = Limit
    BY <1>4 DEF Inside, Object, Written, Limit, BoundUpTo
  <2>2. \A i : OnDisk(i)' = files[i]
    BY <1>4 DEF OnDisk
  <2>3. TypeOK'
    <3>1. DOMAIN store' \subseteq Name /\ \A n \in DOMAIN store' : store'[n] \in Seq(Point)
      BY <1>2 DEF Settled
    <3>2. moving' \in Seq(Name)
      BY <1>1
    <3> QED
      BY <1>1, <1>4, <3>1, <3>2 DEF TypeOK, DirInv
  <2>4. Shapes'
    BY <1>1, <1>2, <1>4, <2>1 DEF DirInv, Shapes, Ascending, Settled
  <2>5. Kept'
    BY <1>2, <2>1 DEF Kept, Settled
  <2>6. Sorted'
    BY <1>1, <1>2, <1>4, <2>1 DEF DirInv, Sorted, Ordered, Covers, LastTime, Settled
  <2>7. Named'
    BY <1>1, <1>2, <1>4 DEF Named, Settled
  <2>8. Distinct'
    BY <1>1, <1>2, <1>4, <2>1, <2>2 DEF DirInv, Distinct, Settled
  <2>9. Apart'
    <3> SUFFICES ASSUME crashes = 0, ~filled, ~ignored PROVE Apart'
      BY <1>1 DEF Apart
    <3>1. \A i \in 1..Len(files) : OnDisk(i)' \in DOMAIN store'
      BY <1>2, <2>2 DEF Settled
    <3>2. Stored' \subseteq flushed /\ known
      BY <1>1, <1>2 DEF Settled, DirInv, Shapes
    <3>3. /\ \A i, j \in 1..Len(files) : i < j => files[i].max < files[j].min
          /\ new # <<>> => \A i \in 1..(at - 1) : files[i].max < Object.min
          /\ reach <= Limit /\ Object.max <= Limit
          /\ cursor < Len(buf) => NextTime > Limit
      BY <1>1 DEF DirInv, Apart
    <3>4. NextTime' = NextTime
      BY <1>1 DEF NextTime
    <3> QED
      BY <1>1, <1>4, <2>1, <3>1, <3>2, <3>3, <3>4 DEF Apart
  <2> QED
    BY <2>3, <2>4, <2>5, <2>6, <2>7, <2>8, <2>9 DEF DirInv
<1> QED
  BY <1>3, <1>4 DEF Move

\* Between writes nothing but the vector and the directory counts.
LEMMA FlushReturnsKeeps == ASSUME DirInv, FlushReturns PROVE DirInv'
<1>1. /\ pc = "placing" /\ pc' = "idle" /\ buf' = <<>> /\ cursor' = 0 /\ at' = 1 /\ reach' = 0
      /\ UNCHANGED <<store, known, files, new, moving, flushes, flushed, filled, ignored, crashes>>
  BY DEF FlushReturns, history
<1>2. ~Inside /\ ~Inside' /\ known /\ new = <<>> /\ moving = <<>>
  BY <1>1 DEF Inside, DirInv, Shapes
<1>3. /\ <<>> \in Seq(Point) /\ Len(<<>>) = 0 /\ 0 \in 0..0 /\ 0 \in 0..Forever
  BY TimestampAssumption
<1>4. Len(files) \in Nat
  BY FilesAre DEF DirInv
<1>5. TypeOK'
  <2>1. buf' \in Seq(Point) /\ cursor' \in 0..Len(buf') /\ reach' \in 0..Forever
    BY <1>1, <1>3
  <2>2. at' \in 1..(Len(files') + 1)
    BY <1>1, <1>4
  <2> QED
    BY <1>1, <2>1, <2>2 DEF DirInv, TypeOK
<1>6. Shapes' /\ Kept'
  BY <1>1, <1>2, <1>3 DEF DirInv, Shapes, Ascending, Kept
<1>7. \A i : OnDisk(i)' = files[i] /\ OnDisk(i) = files[i]
  BY <1>1 DEF OnDisk
<1>8. Sorted' /\ Named'
  BY <1>1, <1>2 DEF DirInv, Sorted, Ordered, Named
<1>9. Stored' = Stored
  BY <1>1 DEF Stored
<1>10. Distinct' /\ Apart'
  BY <1>1, <1>2, <1>7, <1>9 DEF DirInv, Distinct, Apart
<1> QED
  BY <1>5, <1>6, <1>8, <1>10 DEF DirInv

\* Every way for the process to end: only the directory is left,
\* and the names in it may then be wrong.
LEMMA LostKeeps == ASSUME DirInv, Lost, crashes' = crashes + 1, UNCHANGED <<store, flushes, flushed, filled, ignored>>
                   PROVE  DirInv'
<1>1. /\ pc' = "idle" /\ known' = FALSE /\ files' = <<>> /\ buf' = <<>> /\ cursor' = 0 /\ at' = 1
      /\ new' = <<>> /\ reach' = 0 /\ moving' = <<>>
  BY DEF Lost
<1>2. crashes \in Nat /\ crashes' \in Nat /\ crashes' # 0
  BY <1>1 DEF DirInv, TypeOK
<1>3. /\ <<>> \in Seq(Point) /\ <<>> \in Seq(Name) /\ Len(<<>>) = 0 /\ 0 \in 0..0 /\ 0 \in 0..Forever
      /\ 1 \in 1..(0 + 1)
  BY TimestampAssumption
<1>4. TypeOK'
  BY <1>1, <1>2, <1>3 DEF DirInv, TypeOK
<1>5. ~Inside' /\ Ascending(buf')
  BY <1>1, <1>3 DEF Inside, Ascending
<1>6. Shapes' /\ Kept' /\ Named' /\ Apart'
  BY <1>1, <1>2, <1>5 DEF DirInv, Shapes, Kept, Named, Apart
<1>7. Ordered(files')
  BY <1>1, <1>3 DEF Ordered
<1>8. Sorted'
  BY <1>1, <1>5, <1>7 DEF DirInv, Sorted
<1>9. Stored' = Stored
  BY <1>1 DEF Stored
<1>10. \A i \in 1..Len(files') : FALSE
  BY <1>1, <1>3
<1>11. Distinct'
  BY <1>1, <1>9, <1>10 DEF DirInv, Distinct
<1> QED
  BY <1>4, <1>6, <1>8, <1>11 DEF DirInv

LEMMA CrashKeeps == ASSUME DirInv, Crash PROVE DirInv'
BY LostKeeps DEF Crash

\* A file is missing only if a rename replaced it, a listing left it out or a crash came
\* between: what the process then leaves is a directory like any other.
LEMMA AbortKeeps == ASSUME DirInv, Abort PROVE DirInv'
<1>1. /\ pc' = "idle" /\ known' = FALSE /\ files' = <<>> /\ buf' = <<>> /\ cursor' = 0 /\ at' = 1
      /\ new' = <<>> /\ reach' = 0 /\ moving' = <<>> /\ pc = "placing" /\ Missing
      /\ UNCHANGED <<store, flushes, flushed, filled, ignored, crashes>>
  BY DEF Abort, Lost, Placing, history
<1>2. ~(crashes = 0 /\ ~filled /\ ~ignored)
  <2> SUFFICES ASSUME crashes = 0, ~filled, ~ignored PROVE FALSE
    OBVIOUS
  <2>1. at \in 1..Len(files) /\ files[at] \notin DOMAIN store
    BY <1>1, FilesAre DEF Missing, AtEnd, DirInv, TypeOK
  <2>2. known /\ OnDisk(at) = files[at]
    BY <1>1 DEF DirInv, Shapes, OnDisk
  <2> QED
    BY <2>1, <2>2 DEF DirInv, Apart
<1>3. /\ <<>> \in Seq(Point) /\ <<>> \in Seq(Name) /\ Len(<<>>) = 0 /\ 0 \in 0..0 /\ 0 \in 0..Forever
      /\ 1 \in 1..(0 + 1)
  BY TimestampAssumption
<1>4. TypeOK'
  BY <1>1, <1>3 DEF DirInv, TypeOK
<1>5. ~Inside /\ ~Inside' /\ Ascending(buf')
  BY <1>1, <1>3 DEF Inside, Ascending
<1>6. Shapes' /\ Kept' /\ Named' /\ Apart'
  BY <1>1, <1>2, <1>5 DEF DirInv, Shapes, Kept, Named, Apart
<1>7. Ordered(files')
  BY <1>1, <1>3 DEF Ordered
<1>8. Sorted'
  BY <1>1, <1>5, <1>7 DEF DirInv, Sorted
<1>9. Stored' = Stored
  BY <1>1 DEF Stored
<1>10. \A i \in 1..Len(files') : FALSE
  BY <1>1, <1>3
<1>11. Distinct'
  BY <1>1, <1>9, <1>10 DEF DirInv, Distinct
<1> QED
  BY <1>4, <1>6, <1>8, <1>11 DEF DirInv

LEMMA StutterKeeps == ASSUME DirInv, UNCHANGED vars PROVE DirInv'
<1>1. UNCHANGED <<store, known, files, buf, cursor, at, new, reach, moving, pc, flushes, flushed, filled,
                  ignored, crashes>>
  BY DEF vars, writevars, history
<1>2. UNCHANGED <<Inside, Object, Written, LastTime, NextTime, Limit, Stored>>
  BY <1>1 DEF Inside, Object, Written, LastTime, NextTime, Limit, BoundUpTo, Stored
<1>3. \A i : OnDisk(i)' = OnDisk(i)
  BY <1>1 DEF OnDisk
<1>4. \A t : Covers(t)' = Covers(t)
  BY <1>1 DEF Covers
<1>5. TypeOK' /\ Shapes'
  BY <1>1, <1>2 DEF DirInv, TypeOK, Shapes, Ascending
<1>6. Kept' /\ Named'
  BY <1>1, <1>2 DEF DirInv, Kept, Named
<1>7. Sorted'
  BY <1>1, <1>2, <1>4 DEF DirInv, Sorted, Ordered, Covers
<1>8. Distinct' /\ Apart'
  BY <1>1, <1>2, <1>3 DEF DirInv, Distinct, Apart
<1> QED
  BY <1>5, <1>6, <1>7, <1>8 DEF DirInv

LEMMA InitKeeps == ASSUME Init PROVE DirInv
<1>1. /\ store = [n \in {} |-> <<>>] /\ known = FALSE /\ files = <<>> /\ buf = <<>> /\ cursor = 0 /\ at = 1
      /\ new = <<>> /\ reach = 0 /\ moving = <<>> /\ pc = "idle"
      /\ flushes = 0 /\ flushed = {} /\ filled = FALSE /\ ignored = FALSE /\ crashes = 0
  BY DEF Init
<1>2. DOMAIN store = {} /\ store \in [DOMAIN store -> Seq(Point)] /\ IsFiniteSet(DOMAIN store) /\ Stored = {}
  BY <1>1, FS_EmptySet DEF Stored
<1>3. /\ <<>> \in Seq(Point) /\ <<>> \in Seq(Name) /\ Len(<<>>) = 0 /\ 0 \in 0..0 /\ 0 \in 0..Forever
      /\ 1 \in 1..(0 + 1)
  BY TimestampAssumption
<1>4. 0 \in 0..MaxFlushes /\ 0 \in 0..MaxCrashes
  BY BoundsAssumption
<1>5. TypeOK
  BY <1>1, <1>2, <1>3, <1>4 DEF TypeOK
<1>6. ~Inside /\ Ascending(buf) /\ Ordered(files)
  BY <1>1, <1>3 DEF Inside, Ascending, Ordered
<1>7. Shapes /\ Kept /\ Named /\ Sorted
  BY <1>1, <1>2, <1>6 DEF Shapes, Kept, Named, Sorted
<1>8. \A i \in 1..Len(files) : FALSE
  BY <1>1, <1>3
<1>9. Distinct /\ Apart
  BY <1>1, <1>2, <1>6, <1>8 DEF Distinct, Apart
<1> QED
  BY <1>5, <1>7, <1>9 DEF DirInv

\* Whatever the order of the files, a search ends at one of them or at the end.
LEMMA FirstIsPlace == ASSUME NEW fs \in Names, NEW t \in Int
                      PROVE  FindFirst(fs, t) \in 1..(Len(fs) + 1)
<1>1. Len(fs) \in Nat
  BY DEF Names
<1>2. Searched(fs, t) \in Indices(fs)
  <2>1. Passes(fs) \in Nat
    BY <1>1 DEF Passes
  <2>2. PICK f \in [0..Passes(fs) -> Indices(fs)] : Searched(fs, t) = f[Passes(fs)]
    BY SearchedIs
  <2> QED
    BY <2>1, <2>2
<1>3. CASE Spins(fs, t)
  BY <1>1, <1>3 DEF FindFirst
<1>4. CASE ~Spins(fs, t)
  <2>1. Middle(fs, t) \in 0..Len(fs)
    BY <1>2, <1>4 DEF Spins, Middle, Indices
  <2> QED
    BY <1>1, <1>4, <2>1 DEF FindFirst
<1> QED
  BY <1>3, <1>4

\* What a search of an ordered vector leaves before the file it ends at, for the
\* buffer's first point or any later one.
LEMMA FitLeaves ==
    ASSUME NEW fs \in Seq(Name), NEW t \in 0..Forever, NEW i, Fit(fs, t, i), NEW u \in Int, t <= u
    PROVE  /\ \A j \in 1..(i - 1) : fs[j].min <= u
           /\ (\A j, k \in 1..Len(fs) : j < k => fs[j].min < fs[k].min) => \A j \in 1..(i - 1) : fs[j].min < u
           /\ (\A j, k \in 1..Len(fs) : j < k => fs[j].max < fs[k].min) => \A j \in 1..(i - 1) : fs[j].max < u
<1>1. i \in 1..(Len(fs) + 1) /\ Len(fs) \in Nat /\ (i > 1 => i <= Len(fs) /\ fs[i].min <= t)
  BY DEF Fit
<1> SUFFICES ASSUME NEW j \in 1..(i - 1)
             PROVE  /\ fs[j].min <= u
                    /\ (\A k, l \in 1..Len(fs) : k < l => fs[k].min < fs[l].min) => fs[j].min < u
                    /\ (\A k, l \in 1..Len(fs) : k < l => fs[k].max < fs[l].min) => fs[j].max < u
  OBVIOUS
<1>2. i \in 1..Len(fs) /\ j \in 1..Len(fs) /\ j < i
  BY <1>1
<1>3. fs[i] \in Name /\ fs[j] \in Name
  BY <1>2, ElementOfSeq
<1>4. fs[i].min \in Int /\ fs[j].min \in Int /\ fs[j].max \in Int
  BY <1>3, NameFields
<1>5. fs[i].min <= t /\ fs[j].min <= t
  BY <1>1, <1>2 DEF Fit
<1> QED
  BY <1>2, <1>4, <1>5

LEMMA ListingIs ==
    ASSUME TypeOK, IsFiniteSet(DOMAIN store), NEW fs \in Listings
    PROVE  /\ fs \in Seq(Name) /\ Ordered(fs)
           /\ \A i \in 1..Len(fs) : fs[i] \in DOMAIN store
           /\ \A i, j \in 1..Len(fs) : i # j => fs[i] # fs[j]
           /\ \A n \in Range(fs) : \E i \in 1..Len(fs) : n = fs[i]
<1>1. Ordered(fs) /\ \E T \in SUBSET DOMAIN store : fs \in SetToSeqs(T)
  BY DEF Listings
<1>2. PICK T \in SUBSET DOMAIN store : fs \in SetToSeqs(T)
  BY <1>1
<1>3. Cardinality(T) \in Nat
  BY FS_Subset, FS_CardinalityType
<1>4. fs \in [1..Cardinality(T) -> T]
      /\ \A i, j \in 1..Cardinality(T) : i # j => fs[i] # fs[j]
  BY <1>2 DEF SetToSeqs
<1>5. fs \in Seq(T) /\ Len(fs) = Cardinality(T)
  BY <1>3, <1>4
<1>6. T \subseteq Name /\ fs \in Seq(Name)
  <2>1. T \subseteq Name
    BY DEF TypeOK
  <2> QED
    BY <1>3, <1>4, <2>1
<1>7. \A n \in Range(fs) : \E i \in 1..Len(fs) : n = fs[i]
  BY <1>6, ElementsOf
<1> QED
  BY <1>1, <1>4, <1>5, <1>6, <1>7

\* A buffer as it is flushed: its timestamps ascend.
LEMMA BatchIs ==
    ASSUME NEW b \in Batches, NEW f \in 1..MaxFlushes
    PROVE  LET s == [i \in 1..Len(b) |-> [time |-> b[i], flush |-> f]]
           IN  s \in Seq(Point) /\ Len(s) = Len(b) /\ Len(b) \in Nat /\ Len(b) >= 1 /\ Ascending(s)
               /\ s[1].time = b[1] /\ b[1] \in 0..Forever
<1> DEFINE s == [i \in 1..Len(b) |-> [time |-> b[i], flush |-> f]]
<1>1. PICK n \in 1..MaxBatch : b \in [1..n -> Timestamp]
  BY DEF Batches
<1>2. \A i, j \in 1..Len(b) : i < j => b[i] < b[j]
  BY DEF Batches
<1>3. MaxBatch \in Nat
  BY BoundsAssumption
<1>4. n \in Nat /\ n >= 1 /\ b \in Seq(Timestamp) /\ Len(b) = n /\ 1 \in 1..n
  BY <1>1, <1>3
<1>5. \A i \in 1..n : b[i] \in Timestamp
  BY <1>1
<1>6. \A i \in 1..n : s[i] = [time |-> b[i], flush |-> f] /\ s[i] \in Point
  BY <1>4, <1>5 DEF Point
<1>7. s \in [1..n -> Point]
  BY <1>4, <1>6
<1>8. s \in Seq(Point) /\ Len(s) = n
  BY <1>4, <1>7
<1> HIDE DEF s
<1>9. ASSUME NEW i \in 1..n PROVE s[i].time = b[i]
  <2>1. s[i] = [time |-> b[i], flush |-> f]
    BY <1>6
  <2> QED
    BY <2>1
<1>10. Ascending(s)
  BY <1>2, <1>4, <1>8, <1>9 DEF Ascending
<1>11. s[1].time = b[1] /\ b[1] \in 0..Forever
  BY <1>4, <1>5, <1>9, TimestampAssumption
<1> QED
  BY <1>4, <1>8, <1>10, <1>11 DEF s

\* Where a buffer's first point goes among the files known.
LEMMA FlushKeeps == ASSUME DirInv, NEW b \in Batches, Flush(b) PROVE DirInv'
<1>1. /\ pc = "idle" /\ flushes < MaxFlushes /\ flushes' = flushes + 1 /\ cursor' = 0
      /\ buf' = [i \in 1..Len(b) |-> [time |-> b[i], flush |-> flushes']]
      /\ IF known THEN Search(files, b[1]) ELSE pc' = "listing" /\ UNCHANGED at
      /\ UNCHANGED <<store, known, files, new, reach, moving, flushed, filled, ignored, crashes>>
  BY DEF Flush
<1>2. flushes' \in 1..MaxFlushes /\ flushes' \in 0..MaxFlushes
  BY <1>1, BoundsAssumption DEF DirInv, TypeOK
<1>3. /\ buf' \in Seq(Point) /\ Len(buf') \in Nat /\ Len(buf') >= 1 /\ Ascending(buf')
      /\ buf'[1].time = b[1] /\ b[1] \in 0..Forever
  BY <1>1, <1>2, BatchIs
<1>4. /\ files \in Seq(Name) /\ files \in Names /\ Len(files) \in Nat
  BY FilesAre DEF DirInv, TypeOK
<1>5. /\ pc' \in {"listing", "placing", "spinning"} /\ (pc' # "listing" => known) /\ (pc' = "listing" => ~known)
      /\ pc' # "placing" => at' = 1
  BY <1>1 DEF Search, FindFirst, DirInv, Shapes
<1>6. ~Inside /\ ~Inside' /\ new = <<>> /\ moving = <<>>
  BY <1>1, <1>5 DEF DirInv, Shapes, Inside
<1>7. at' \in 1..(Len(files) + 1)
  <2>1. FindFirst(files, b[1]) \in 1..(Len(files) + 1)
    <3>1. b[1] \in Int
      BY <1>3
    <3> QED
      BY <1>4, <3>1, FirstIsPlace
  <2> QED
    BY <1>1, <2>1 DEF Search, DirInv, TypeOK
<1>8. TypeOK'
  <2>1. cursor' \in 0..Len(buf')
    BY <1>1, <1>3
  <2> QED
    BY <1>1, <1>2, <1>3, <1>5, <1>7, <2>1 DEF DirInv, TypeOK
<1>9. Shapes' /\ Kept' /\ Named'
  BY <1>1, <1>3, <1>5, <1>6 DEF DirInv, Shapes, Kept, Named
<1>10. \A i : OnDisk(i)' = files[i] /\ OnDisk(i) = files[i]
  BY <1>1, <1>5 DEF OnDisk
<1>11. Stored' = Stored /\ NextTime' = b[1]
  BY <1>1, <1>3 DEF Stored, NextTime
<1>12. ASSUME ~filled, pc' = "placing"
       PROVE  /\ \A i \in 1..(at' - 1) : files[i].min <= b[1]
              /\ (\A j, k \in 1..Len(files) : j < k => files[j].min < files[k].min) =>
                     \A i \in 1..(at' - 1) : files[i].min < b[1]
              /\ (\A j, k \in 1..Len(files) : j < k => files[j].max < files[k].min) =>
                     \A i \in 1..(at' - 1) : files[i].max < b[1]
  <2>1. Ordered(files) /\ known /\ at' = FindFirst(files, b[1])
    BY <1>1, <1>5, <1>12 DEF DirInv, Sorted, Search
  <2>2. Fit(files, b[1], at')
    BY <1>3, <1>4, <2>1, SearchReturns
  <2>3. b[1] \in Int /\ b[1] <= b[1]
    BY <1>3
  <2> QED
    BY <1>3, <1>4, <2>2, <2>3, FitLeaves
<1>13. Sorted'
  BY <1>1, <1>6, <1>11, <1>12 DEF DirInv, Sorted, Ordered, Covers
<1>14. Distinct'
  <2> SUFFICES ASSUME ~filled, ~ignored PROVE Distinct'
    BY <1>1 DEF Distinct
  <2>1. /\ \A m, n \in DOMAIN store : m.min = n.min => m = n
        /\ \A i, j \in 1..Len(files) : i < j => files[i].min < files[j].min
        /\ known => \A n \in DOMAIN store : \E i \in 1..Len(files) : n = files[i]
        /\ flushed \subseteq Stored
    BY <1>6, <1>10 DEF DirInv, Distinct
  <2>2. pc' = "placing" => \A i \in 1..(at' - 1) : files[i].min < b[1]
    BY <1>12, <2>1
  <2> QED
    BY <1>1, <1>6, <1>10, <1>11, <2>1, <2>2 DEF Distinct
<1>15. Apart'
  <2> SUFFICES ASSUME crashes = 0, ~filled, ~ignored PROVE Apart'
    BY <1>1 DEF Apart
  <2>1. /\ \A i, j \in 1..Len(files) : i < j => files[i].max < files[j].min
        /\ \A i \in 1..Len(files) : known => files[i] \in DOMAIN store
        /\ Stored \subseteq flushed
        /\ ~known => DOMAIN store = {}
    BY <1>6, <1>10 DEF DirInv, Apart
  <2>2. pc' = "placing" => \A i \in 1..(at' - 1) : files[i].max < b[1]
    BY <1>12, <2>1
  <2> QED
    BY <1>1, <1>5, <1>6, <1>10, <1>11, <2>1, <2>2 DEF Apart
<1> QED
  BY <1>8, <1>9, <1>13, <1>14, <1>15 DEF DirInv

\* A listing is ordered and repeats no file; before the first crash there is none to list.
LEMMA ListKeeps == ASSUME DirInv, List PROVE DirInv'
<1>1. /\ pc = "listing" /\ known' = TRUE
      /\ UNCHANGED <<store, buf, cursor, new, reach, moving, flushes, flushed, filled, crashes>>
  BY DEF List
<1>2. PICK fs \in Listings :
          /\ files' = fs
          /\ ignored' = (ignored \/ \E n \in DOMAIN store : n \notin Range(fs))
          /\ Search(fs, buf[1].time)
  BY DEF List
<1>3. /\ fs \in Seq(Name) /\ Ordered(fs)
      /\ \A i \in 1..Len(fs) : fs[i] \in DOMAIN store
      /\ \A i, j \in 1..Len(fs) : i # j => fs[i] # fs[j]
      /\ \A n \in Range(fs) : \E i \in 1..Len(fs) : n = fs[i]
  BY ListingIs DEF DirInv, Shapes
<1>4. /\ cursor \in Nat /\ Len(buf) \in Nat /\ cursor < Len(buf)
      /\ \A i \in 1..Len(buf) : buf[i].time \in 0..Forever
  BY <1>1, BufIs DEF DirInv, Shapes
<1> DEFINE t == buf[1].time
<1>5. t \in 0..Forever /\ NextTime \in Int /\ t <= NextTime
  <2>1. 1 \in 1..Len(buf) /\ cursor + 1 \in 1..Len(buf)
    BY <1>4
  <2>2. t \in 0..Forever /\ NextTime \in 0..Forever
    BY <1>4, <2>1 DEF NextTime
  <2>3. 1 < cursor + 1 => t < NextTime
    BY <2>1 DEF DirInv, Shapes, Ascending, NextTime
  <2>4. cursor + 1 = 1 => t = NextTime
    BY DEF NextTime
  <2> QED
    BY <1>4, <2>2, <2>3, <2>4
<1>6. fs \in Names /\ Len(fs) \in Nat
  BY <1>3, NameFields
<1>7. /\ at' = FindFirst(fs, t) /\ at' \in 1..(Len(fs) + 1) /\ pc' \in {"placing", "spinning"}
      /\ pc' = "spinning" => at' = 1
  BY <1>2, <1>5, <1>6, FirstIsPlace DEF Search, FindFirst
<1>8. /\ \A i \in 1..(at' - 1) : fs[i].min <= NextTime
      /\ (\A j, k \in 1..Len(fs) : j < k => fs[j].min < fs[k].min) =>
             \A i \in 1..(at' - 1) : fs[i].min < NextTime
  <2>1. Fit(fs, t, at')
    BY <1>3, <1>5, <1>6, <1>7, SearchReturns
  <2> QED
    BY <1>3, <1>5, <2>1, FitLeaves
<1>9. ~Inside /\ ~Inside' /\ new = <<>> /\ moving = <<>>
  BY <1>1, <1>7 DEF DirInv, Shapes, Inside
<1>10. ignored' \in BOOLEAN
  BY <1>2 DEF DirInv, TypeOK
<1>11. TypeOK'
  BY <1>1, <1>2, <1>3, <1>7, <1>10 DEF DirInv, TypeOK
<1>12. Shapes' /\ Kept' /\ Named'
  BY <1>1, <1>4, <1>7, <1>9 DEF DirInv, Shapes, Ascending, Kept, Named
<1>13. \A i : OnDisk(i)' = fs[i]
  BY <1>1, <1>2, <1>7 DEF OnDisk
<1>14. Stored' = Stored /\ NextTime' = NextTime
  BY <1>1 DEF Stored, NextTime
<1>15. Sorted'
  BY <1>1, <1>2, <1>3, <1>8, <1>9, <1>14 DEF DirInv, Sorted, Covers
<1>16. Distinct'
  <2> SUFFICES ASSUME ~filled, ~ignored, \A n \in DOMAIN store : n \in Range(fs) PROVE Distinct'
    BY <1>1, <1>2 DEF Distinct
  <2>1. (\A m, n \in DOMAIN store : m.min = n.min => m = n) /\ flushed \subseteq Stored
    BY DEF DirInv, Distinct
  <2>2. ASSUME NEW i \in 1..Len(fs), NEW j \in 1..Len(fs), i < j PROVE fs[i].min < fs[j].min
    <3>1. fs[i] \in Name /\ fs[j] \in Name
      BY <1>3, ElementOfSeq
    <3>2. fs[i].min \in Int /\ fs[j].min \in Int
      BY <3>1, NameFields
    <3>3. i # j /\ fs[i].min <= fs[j].min
      BY <1>3, <2>2 DEF Ordered
    <3>4. fs[i].min # fs[j].min
      BY <1>3, <2>1, <3>3
    <3> QED
      BY <3>2, <3>3, <3>4
  <2>3. \A n \in DOMAIN store : \E i \in 1..Len(fs) : n = fs[i]
    BY <1>3
  <2>4. \A i \in 1..(at' - 1) : fs[i].min < NextTime
    BY <1>8, <2>2
  <2> QED
    BY <1>1, <1>2, <1>9, <1>13, <1>14, <2>1, <2>2, <2>3, <2>4 DEF Distinct
<1>17. Apart'
  <2> SUFFICES ASSUME crashes = 0, ~filled, ~ignored PROVE Apart'
    BY <1>1, <1>2 DEF Apart
  <2>1. DOMAIN store = {} /\ Stored \subseteq flushed
    BY <1>1 DEF DirInv, Apart
  <2>2. Len(fs) = 0
    <3>1. \A i \in 1..Len(fs) : FALSE
      BY <1>3, <2>1
    <3> QED
      BY <1>6, <3>1
  <2>3. at' - 1 = 0
    BY <1>7, <2>2
  <2>4. (\A i \in 1..Len(files') : FALSE) /\ (\A i \in 1..(at' - 1) : FALSE)
    BY <1>2, <2>2, <2>3
  <2> QED
    BY <1>1, <1>9, <1>14, <2>1, <2>4 DEF Apart
<1> QED
  BY <1>11, <1>12, <1>15, <1>16, <1>17 DEF DirInv

LEMMA StepKeeps == ASSUME DirInv, [Next]_vars PROVE DirInv'
<1>1. CASE \E b \in Batches : Flush(b)
  BY <1>1, FlushKeeps
<1>2. CASE Step
  <2>1. CASE List
    BY <2>1, ListKeeps
  <2>2. CASE SkipFull \/ SkipOld
    BY <2>2, SkipKeeps
  <2>3. CASE WriteToFile \/ WriteToNewFile
    BY <2>3, WritingIs, WriteKeeps
  <2>5. CASE SetMax
    BY <2>5, SetMaxKeeps
  <2>6. CASE KeepName
    BY <2>6, KeepNameKeeps
  <2>7. CASE SetOptimized
    BY <2>7, SetOptimizedKeeps
  <2>8. CASE WriteReturns
    BY <2>8, WriteReturnsKeeps
  <2>9. CASE Move
    BY <2>9, MoveKeeps
  <2>10. CASE FlushReturns
    BY <2>10, FlushReturnsKeeps
  <2>11. CASE Abort
    BY <2>11, AbortKeeps
  <2> QED
    BY <1>2, <2>1, <2>2, <2>3, <2>5, <2>6, <2>7, <2>8, <2>9, <2>10, <2>11 DEF Step, Place
<1>3. CASE Crash
  BY <1>3, CrashKeeps
<1>4. CASE UNCHANGED vars
  BY <1>4, StutterKeeps
<1> QED
  BY <1>1, <1>2, <1>3, <1>4 DEF Next

LEMMA Invariance == Spec => []DirInv
<1>1. Init => DirInv
  BY InitKeeps
<1>2. DirInv /\ [Next]_vars => DirInv'
  BY StepKeeps
<1> QED
  BY <1>1, <1>2, PTL DEF Spec

----------------------------------------------------------------------------
(* What the program may rely on.                                             *)

\* Every field of the write path keeps its type: the cursor stays in the buffer, the
\* iterator within datapoint_files or at its end, and each name in a directory is one.
THEOREM TypesHold == Spec => []TypeOK
<1>1. DirInv => TypeOK
  BY DEF DirInv
<1> QED
  BY <1>1, Invariance, PTL

\* While no file has filled up datapoint_files stays ordered by min_timestamp, whatever
\* is flushed and wherever the process ends: a write goes on from the file FindFirst
\* found without ever passing the place of the next point.
THEOREM OrderKept == Spec => []FilesInOrder
<1>1. DirInv => FilesInOrder
  BY DEF DirInv, Sorted, FilesInOrder
<1> QED
  BY <1>1, Invariance, PTL

\* Between writes the name of every file tells the range of its points, as long as no
\* end of the process fell between a write and its rename.
THEOREM NamesRight == Spec => []NamesTellRange
<1>1. DirInv => NamesTellRange
  BY DEF DirInv, Named, NamesTellRange, Inside, InRangeOf
<1> QED
  BY <1>1, Invariance, PTL

\* No rename replaces a file and no write truncates one, so every point handed to writev
\* stays in the directory, through any number of crashes, while no file has filled up
\* and no listing has left one out.
THEOREM NothingLost == Spec => []FlushedStays
<1>1. DirInv => FlushedStays
  BY DEF DirInv, Distinct, FlushedStays
<1> QED
  BY <1>1, Invariance, PTL

----------------------------------------------------------------------------
(* What a read of a directory at rest finds.                                 *)

ReadState == [next : 0..(Forever + 1), given : SUBSET Point]
AtRest == pc = "idle" /\ known /\ ~filled /\ ~ignored /\ crashes = 0
Points(i) == Range(store[files[i]])
Latest(from) == {p \in flushed : p.time >= from /\ \A q \in flushed : q.time = p.time => q.flush <= p.flush}

\* Some moment of a read lies past every point it gave.
LEMMA PastLast ==
    ASSUME NEW got \in SUBSET Point, NEW n \in 0..(Forever + 1)
    PROVE  \E t \in {n} \union {p.time + 1 : p \in got} : \A p \in got : t > p.time
<1>1. \A p \in got : p.time \in Nat /\ p.time < Forever + 1
  BY PointFields, TimestampAssumption
<1>2. CASE got = {}
  BY <1>2
<1>3. CASE got # {}
  <2> DEFINE C == {m \in Nat : \A p \in got : p.time < m}
  <2>1. Forever + 1 \in C
    BY <1>1, TimestampAssumption
  <2>2. PICK m \in C : \A l \in C : m <= l
    <3>1. C \in SUBSET Nat /\ C # {}
      BY <2>1
    <3> HIDE DEF C
    <3> QED
      BY <3>1, NatMin
  <2>3. m \in Nat /\ \A p \in got : p.time < m
    OBVIOUS
  <2>4. m # 0
    BY <1>1, <1>3, <2>3
  <2>5. m - 1 \in Nat /\ m - 1 \notin C
    BY <2>2, <2>3, <2>4
  <2>6. PICK p \in got : ~(p.time < m - 1)
    BY <2>5
  <2>7. p.time + 1 = m
    BY <1>1, <2>3, <2>6
  <2>8. m \in {q.time + 1 : q \in got} /\ \A q \in got : m > q.time
    BY <1>1, <2>3, <2>7
  <2> QED
    BY <2>8
<1> QED
  BY <1>2, <1>3

\* SparseFile::Read gives the latest points of a file and moves next_time past them.
LEMMA ReadOfIs ==
    ASSUME NEW f, store[f] \in Seq(Point), NEW s \in ReadState
    PROVE  /\ ReadOf(f)[s] \in ReadState
           /\ f.max < s.next => ReadOf(f)[s] = s
           /\ ~(f.max < s.next) =>
                  /\ ReadOf(f)[s].given = s.given \union LatestIn(store[f], s.next)
                  /\ \/ ReadOf(f)[s].next = s.next
                     \/ \E p \in LatestIn(store[f], s.next) : ReadOf(f)[s].next = p.time + 1
<1> DEFINE got == LatestIn(store[f], s.next)
           Past(t) == \A p \in got : t > p.time
           T == {s.next} \union {p.time + 1 : p \in got}
           m == CHOOSE t \in T : Past(t)
<1>1. ReadOf(f)[s] = IF f.max < s.next THEN s ELSE [next |-> m, given |-> s.given \union got]
  BY DEF ReadOf, ReadState
<1>2. got \subseteq Range(store[f]) /\ \A p \in Range(store[f]) : p \in Point
  BY ElementsOf DEF LatestIn
<1>3. got \in SUBSET Point /\ s.next \in 0..(Forever + 1) /\ s.given \in SUBSET Point
  BY <1>2 DEF ReadState
<1> HIDE DEF got
<1>4. \E t \in T : Past(t)
  BY <1>3, PastLast
<1>5. m \in T
  <2> HIDE DEF T, Past
  <2> QED
    BY <1>4
<1> HIDE DEF m
<1>6. m = s.next \/ \E p \in got : m = p.time + 1
  BY <1>5
<1>7. m \in 0..(Forever + 1)
  BY <1>3, <1>6, PointFields, TimestampAssumption
<1>8. [next |-> m, given |-> s.given \union got] \in ReadState
  BY <1>3, <1>7 DEF ReadState
<1> QED
  BY <1>1, <1>6, <1>8 DEF got

\* A directory at rest: the vector names each file, each file ends before the next
\* begins, and the files hold what was flushed.
LEMMA RestIs ==
    ASSUME DirInv, AtRest
    PROVE  /\ Ordered(files)
           /\ \A i \in 1..Len(files) : /\ store[files[i]] \in Seq(Point)
                                       /\ Points(i) \subseteq flushed
                                       /\ \A p \in Points(i) : files[i].min <= p.time /\ p.time <= files[i].max
           /\ \A i, j \in 1..Len(files) : i < j => files[i].max < files[j].min
           /\ \A p \in flushed : \E i \in 1..Len(files) : p \in Points(i)
<1>1. ~Inside /\ new = <<>> /\ \A i : OnDisk(i) = files[i]
  BY DEF AtRest, Inside, OnDisk, DirInv, Shapes
<1>2. /\ \A i \in 1..Len(files) : files[i] \in DOMAIN store
      /\ \A i, j \in 1..Len(files) : i < j => files[i].max < files[j].min
      /\ Stored \subseteq flushed
  BY <1>1 DEF AtRest, DirInv, Apart
<1>3. (\A n \in DOMAIN store : \E i \in 1..Len(files) : n = files[i]) /\ flushed \subseteq Stored
  BY <1>1 DEF AtRest, DirInv, Distinct
<1>4. \A n \in DOMAIN store : InRangeOf(store[n], n.min, n.max) /\ store[n] \in Seq(Point)
  BY <1>1 DEF AtRest, DirInv, Named, TypeOK
<1>5. Ordered(files)
  BY DEF AtRest, DirInv, Sorted
<1>6. \A i \in 1..Len(files) : Points(i) \subseteq Stored
  BY <1>2 DEF Stored, Points
<1>7. \A p \in Stored : \E i \in 1..Len(files) : p \in Points(i)
  BY <1>3 DEF Stored, Points
<1>8. ASSUME NEW i \in 1..Len(files), NEW p \in Points(i)
      PROVE  files[i].min <= p.time /\ p.time <= files[i].max
  BY <1>2, <1>4 DEF InRangeOf, Points
<1> QED
  BY <1>2, <1>3, <1>4, <1>5, <1>6, <1>7, <1>8

\* A read that has gone through the first k files has given their part of the answer, and
\* asks of the others for no more than they hold.
GivenUpTo(from, k, s) ==
    /\ s.given = {p \in Latest(from) : \E j \in 1..k : p \in Points(j)}
    /\ s.next >= from
    /\ s.next = from \/ \A j \in (k + 1)..Len(files) : s.next <= files[j].min

LEMMA ReadStep ==
    ASSUME DirInv, AtRest, NEW from \in 0..Forever, NEW k \in 1..Len(files),
           NEW s \in ReadState, GivenUpTo(from, k - 1, s)
    PROVE  GivenUpTo(from, k, ReadOf(files[k])[s])
<1>1. /\ \A i \in 1..Len(files) : /\ store[files[i]] \in Seq(Point)
                                  /\ Points(i) \subseteq flushed
                                  /\ \A p \in Points(i) : files[i].min <= p.time /\ p.time <= files[i].max
      /\ \A i, j \in 1..Len(files) : i < j => files[i].max < files[j].min
      /\ \A p \in flushed : \E i \in 1..Len(files) : p \in Points(i)
  BY RestIs
<1>2. /\ Len(files) \in Nat /\ k \in Nat
      /\ \A i \in 1..Len(files) : files[i].min \in Int /\ files[i].max \in Int
  BY FilesAre DEF DirInv
<1>3. \A p \in flushed : p.time \in Int
  BY PointFields DEF DirInv, TypeOK
<1>4. s.next \in Int /\ s.next >= from /\ (s.next = from \/ s.next <= files[k].min)
  <2>1. s.next = from \/ \A j \in ((k - 1) + 1)..Len(files) : s.next <= files[j].min
    BY DEF GivenUpTo
  <2>2. k \in ((k - 1) + 1)..Len(files)
    BY <1>2
  <2>3. s.next \in Int
    BY TimestampAssumption DEF ReadState
  <2> QED
    BY <2>1, <2>2, <2>3 DEF GivenUpTo
<1>5. \A p \in Points(k) : /\ p \in flushed /\ p.time \in Int /\ files[k].min <= p.time /\ p.time <= files[k].max
                           /\ p.time >= from <=> p.time >= s.next
  <2> TAKE p \in Points(k)
  <2>1. p \in flushed /\ p.time \in Int /\ files[k].min <= p.time /\ p.time <= files[k].max
    BY <1>1, <1>3
  <2> QED
    BY <1>2, <1>4, <2>1
\* The points of one timestamp are in one file.
<1>6. \A p \in Points(k), q \in flushed : q.time = p.time => q \in Points(k)
  <2> SUFFICES ASSUME NEW p \in Points(k), NEW q \in flushed, q.time = p.time PROVE q \in Points(k)
    OBVIOUS
  <2>1. PICK j \in 1..Len(files) : q \in Points(j)
    BY <1>1
  <2>2. files[j].min <= q.time /\ q.time <= files[j].max /\ q.time \in Int
    BY <1>1, <1>3, <2>1
  <2>3. files[k].min <= q.time /\ q.time <= files[k].max
    BY <1>5
  <2>4. k < j => files[k].max < files[j].min
    BY <1>1
  <2>5. j < k => files[j].max < files[k].min
    BY <1>1
  <2>6. files[k].min \in Int /\ files[k].max \in Int /\ files[j].min \in Int /\ files[j].max \in Int
    BY <1>2
  <2>7. ~(j < k) /\ ~(k < j)
    BY <2>2, <2>3, <2>4, <2>5, <2>6
  <2> QED
    BY <1>2, <2>1, <2>7
<1> DEFINE got == LatestIn(store[files[k]], s.next)
           part == {p \in Latest(from) : p \in Points(k)}
<1>7. got = {p \in Points(k) : p.time >= s.next /\ \A q \in Points(k) : q.time = p.time => q.flush <= p.flush}
  BY DEF LatestIn, Points
<1>8. got = part
  <2>1. ASSUME NEW p \in got PROVE p \in part
    BY <1>5, <1>6, <1>7 DEF Latest
  <2>2. ASSUME NEW p \in part PROVE p \in got
    <3>1. p \in Points(k) /\ p.time >= from /\ \A q \in flushed : q.time = p.time => q.flush <= p.flush
      BY DEF Latest
    <3> QED
      BY <1>5, <1>7, <3>1
  <2> QED
    BY <2>1, <2>2
<1>9. {p \in Latest(from) : \E j \in 1..k : p \in Points(j)}
      = {p \in Latest(from) : \E j \in 1..(k - 1) : p \in Points(j)} \union part
  <2>1. \A j \in 1..k : j = k \/ j \in 1..(k - 1)
    BY <1>2
  <2>2. k \in 1..k /\ \A j \in 1..(k - 1) : j \in 1..k
    BY <1>2
  <2> QED
    BY <2>1, <2>2
<1>10. s.given = {p \in Latest(from) : \E j \in 1..(k - 1) : p \in Points(j)}
  BY DEF GivenUpTo
<1>11. s.next = from \/ \A j \in (k + 1)..Len(files) : s.next <= files[j].min
  <2>1. s.next = from \/ \A j \in ((k - 1) + 1)..Len(files) : s.next <= files[j].min
    BY DEF GivenUpTo
  <2>2. \A j \in (k + 1)..Len(files) : j \in ((k - 1) + 1)..Len(files)
    BY <1>2
  <2> QED
    BY <2>1, <2>2
<1> DEFINE r == ReadOf(files[k])[s]
<1>12. /\ files[k].max < s.next => r = s
       /\ ~(files[k].max < s.next) => /\ r.given = s.given \union got
                                      /\ r.next = s.next \/ \E p \in got : r.next = p.time + 1
  BY <1>1, ReadOfIs
<1> HIDE DEF r, got, part
<1>13. CASE files[k].max < s.next
  <2>1. got = {}
    BY <1>2, <1>4, <1>5, <1>7, <1>13
  <2>2. r = s /\ r.given = {p \in Latest(from) : \E j \in 1..k : p \in Points(j)}
    BY <1>8, <1>9, <1>10, <1>12, <1>13, <2>1
  <2> QED
    BY <1>4, <1>11, <2>2 DEF GivenUpTo, r
<1>14. CASE ~(files[k].max < s.next)
  <2>1. r.given = {p \in Latest(from) : \E j \in 1..k : p \in Points(j)}
    BY <1>8, <1>9, <1>10, <1>12, <1>14
  <2>2. CASE r.next = s.next
    BY <1>4, <1>11, <2>1, <2>2 DEF GivenUpTo, r
  <2>3. CASE \E p \in got : r.next = p.time + 1
    <3>1. PICK p \in got : r.next = p.time + 1
      BY <2>3
    <3>2. p.time \in Int /\ p.time >= s.next /\ p.time <= files[k].max
      BY <1>5, <1>7
    <3>3. r.next >= from
      BY <1>4, <3>1, <3>2
    <3>4. ASSUME NEW j \in (k + 1)..Len(files) PROVE r.next <= files[j].min
      <4>1. j \in 1..Len(files) /\ k < j
        BY <1>2
      <4> QED
        BY <1>1, <1>2, <3>1, <3>2, <4>1
    <3> QED
      BY <2>1, <3>3, <3>4 DEF GivenUpTo, r
  <2> QED
    BY <1>12, <1>14, <2>2, <2>3
<1> QED
  BY <1>13, <1>14

\* Every file before the one FindFirst returns ends before the timestamp read from.
LEMMA ReadStart ==
    ASSUME DirInv, AtRest, NEW from \in 0..Forever
    PROVE  /\ FindFirst(files, from) \in 1..(Len(files) + 1)
           /\ GivenUpTo(from, FindFirst(files, from) - 1, [next |-> from, given |-> {}])
<1> DEFINE i == FindFirst(files, from)
<1>1. /\ Len(files) \in Nat /\ files \in Names
      /\ \A j \in 1..Len(files) : files[j].min \in Int /\ files[j].max \in Int
  BY FilesAre DEF DirInv
<1>2. Fit(files, from, i)
  <2>1. Ordered(files) /\ from \in Int
    BY RestIs
  <2> QED
    BY <1>1, <2>1, SearchReturns
<1>3. i \in 1..(Len(files) + 1) /\ (i > 1 => i <= Len(files) /\ files[i].min <= from)
  BY <1>2 DEF Fit
<1> HIDE DEF i
<1>4. ASSUME NEW p \in Latest(from), NEW j \in 1..(i - 1) PROVE p \notin Points(j)
  <2>1. i \in 1..Len(files) /\ j \in 1..Len(files) /\ j < i /\ files[i].min <= from
    BY <1>1, <1>3
  <2>2. files[j].max < files[i].min
    BY <2>1, RestIs
  <2>3. p.time \in Int /\ p.time >= from
    BY PointFields DEF Latest, DirInv, TypeOK
  <2>4. p \in Points(j) => p.time <= files[j].max
    BY <2>1, RestIs
  <2> QED
    BY <1>1, <2>1, <2>2, <2>3, <2>4
<1>5. {p \in Latest(from) : \E j \in 1..(i - 1) : p \in Points(j)} = {}
  BY <1>4
<1>6. from >= from
  OBVIOUS
<1>7. GivenUpTo(from, i - 1, [next |-> from, given |-> {}])
  BY <1>5, <1>6 DEF GivenUpTo
<1> QED
  BY <1>3, <1>7 DEF i

LEMMA FoundIs ==
    ASSUME DirInv, AtRest, NEW from \in 0..Forever
    PROVE  Found(from) = Latest(from)
<1> DEFINE a == FindFirst(files, from) - 1
           b == Len(files)
           first == [next |-> from, given |-> {}]
           Is(f) == f = [k \in a..b |-> IF k = a THEN first ELSE ReadOf(files[k])[f[k - 1]]]
           g == [k \in Int |-> IF k \in 1..b THEN [s \in ReadState |-> ReadOf(files[k])[s]]
                                              ELSE [s \in ReadState |-> s]]
<1>1. a \in Int /\ b \in Int /\ a <= b /\ a >= 0 /\ GivenUpTo(from, a, first)
  <2>1. FindFirst(files, from) \in 1..(b + 1) /\ GivenUpTo(from, a, first)
    BY ReadStart
  <2>2. b \in Nat
    BY FilesAre DEF DirInv
  <2> QED
    BY <2>1, <2>2
<1>2. first \in ReadState
  BY TimestampAssumption DEF ReadState
<1>3. \A k \in 1..b, s \in ReadState : ReadOf(files[k])[s] \in ReadState
  BY RestIs, ReadOfIs
<1>4. g \in [Int -> [ReadState -> ReadState]]
  BY <1>3
<1>5. Found(from) = (CHOOSE f : Is(f))[b].given
  BY DEF Found
<1> HIDE DEF a, b, first
<1>6. PICK f \in [a..b -> ReadState] : f[a] = first /\ \A k \in a..b : k # a => f[k] = g[k][f[k - 1]]
  <2> HIDE DEF g
  <2>1. Computable(ReadState, first, a, b, g)
    BY <1>1, <1>2, <1>4, Recursion
  <2> QED
    BY <2>1 DEF Computable
<1>7. Is(f)
  <2>1. ASSUME NEW k \in a..b PROVE f[k] = IF k = a THEN first ELSE ReadOf(files[k])[f[k - 1]]
    <3>1. CASE k = a
      BY <1>6, <3>1
    <3>2. CASE k # a
      <4>1. k \in 1..b /\ k \in Int /\ k - 1 \in a..b
        BY <1>1, <3>2
      <4>2. f[k - 1] \in ReadState
        BY <4>1
      <4>3. f[k] = g[k][f[k - 1]]
        BY <1>6, <3>2
      <4> QED
        BY <3>2, <4>1, <4>2, <4>3
    <3> QED
      BY <3>1, <3>2
  <2> QED
    BY <1>6, <2>1
<1>8. PICK h : Is(h) /\ Found(from) = h[b].given
  BY <1>5, <1>7
<1>9. /\ h[a] = first
      /\ \A k \in a..b : k # a => h[k] = ReadOf(files[k])[h[k - 1]]
  BY <1>1, <1>8
<1>10. \A m \in Nat : a + m <= b => h[a + m] \in ReadState /\ GivenUpTo(from, a + m, h[a + m])
  <2> DEFINE I == {m \in Nat : a + m <= b => h[a + m] \in ReadState /\ GivenUpTo(from, a + m, h[a + m])}
  <2>1. 0 \in I
    <3>1. a + 0 = a
      BY <1>1
    <3> QED
      BY <1>1, <1>2, <1>9, <3>1
  <2>2. ASSUME NEW m \in Nat, m \in I PROVE m + 1 \in I
    <3> DEFINE k == a + (m + 1)
    <3> SUFFICES ASSUME k <= b PROVE h[k] \in ReadState /\ GivenUpTo(from, k, h[k])
      OBVIOUS
    <3>1. k \in 1..b /\ k \in a..b /\ k # a /\ k - 1 = a + m /\ a + m <= b
      BY <1>1
    <3>2. h[k - 1] \in ReadState /\ GivenUpTo(from, k - 1, h[k - 1])
      BY <2>2, <3>1
    <3>3. h[k] = ReadOf(files[k])[h[k - 1]]
      BY <1>9, <3>1
    <3> HIDE DEF k
    <3>4. k \in 1..Len(files)
      BY <3>1 DEF b
    <3> QED
      BY <1>3, <3>1, <3>2, <3>3, <3>4, ReadStep
  <2>3. I = Nat
    <3> HIDE DEF I
    <3>1. I \in SUBSET Nat
      BY DEF I
    <3> QED
      BY <2>1, <2>2, <3>1, Induction
  <2> QED
    BY <2>3
<1>11. GivenUpTo(from, b, h[b])
  <2> DEFINE m == b - a
  <2>1. m \in Nat /\ a + m = b /\ a + m <= b
    BY <1>1
  <2> HIDE DEF m
  <2>2. GivenUpTo(from, a + m, h[a + m])
    BY <1>10, <2>1
  <2> QED
    BY <2>1, <2>2
<1>12. \A p \in Latest(from) : \E j \in 1..b : p \in Points(j)
  BY RestIs DEF Latest, b
<1> QED
  BY <1>8, <1>11, <1>12 DEF GivenUpTo

\* A read of a directory at rest finds, for each timestamp, the point written last, in
\* whatever file FindFirst starts and whatever the files before it hold.
THEOREM LatestRead == Spec => []ReadsLatest
<1>1. DirInv => ReadsLatest
  <2> SUFFICES ASSUME DirInv, AtRest, NEW from \in Timestamp PROVE Found(from) = Latest(from)
    BY DEF ReadsLatest, AtRest, Latest
  <2>1. from \in 0..Forever
    BY TimestampAssumption
  <2> QED
    BY <2>1, FoundIs
<1> QED
  BY <1>1, Invariance, PTL

----------------------------------------------------------------------------
(* SeriesRead: the directory while a read of the series goes on.             *)

\* The i-th object's file is there, though another thread may have listed it.
Present == known /\ ~filled /\ ~ignored => \A i \in 1..Len(files) : OnDisk(i) \in DOMAIN store

LEMMA MovePresent == ASSUME DirInv, Present, Move
                     PROVE  Present'
<1> USE DEF DirInv
<1> DEFINE old == moving[1]
<1>1. /\ pc = "moving" /\ Inside /\ known /\ Written = old /\ UNCHANGED <<known, filled, ignored>>
  BY MoveDoes
<1>2. old.min = Object.min /\ DOMAIN store' = (DOMAIN store \ {old}) \union {Object}
  BY MoveDoes
<1> SUFFICES ASSUME ~filled, ~ignored PROVE Present'
  BY <1>1 DEF Present
<1>3. ASSUME NEW i \in 1..Len(files)
      PROVE  files[i] \in DOMAIN store'
  <2>1. CASE new = <<>> /\ i = at
    BY <1>1, <1>2, <2>1, ObjectIs
  <2>2. CASE ~(new = <<>> /\ i = at)
    <3>1. files[i] \in DOMAIN store
      BY <1>1, <2>2 DEF Present, OnDisk
    <3>2. files[i].min # Object.min
      <4>1. /\ Object.min \in Int /\ files[i].min \in Int /\ at \in Nat
            /\ new = <<>> => Object = files[at] /\ at \in 1..Len(files)
        BY <1>1, ObjectIs, FilesAre
      <4>2. i < at => files[i].min < Object.min
        BY <4>1 DEF Distinct
      <4>3. i > at => Object.min < files[i].min
        BY <4>1 DEF Distinct, Sorted
      <4>4. i = at => Object.min < files[i].min
        BY <2>2, <4>1 DEF Sorted
      <4> QED
        BY <4>1, <4>2, <4>3, <4>4
    <3> QED
      BY <1>2, <3>1, <3>2
  <2> QED
    BY <2>1, <2>2
<1>4. CASE pc' = "marking" /\ UNCHANGED <<files, new, at>>
  BY <1>3, <1>4 DEF Present, OnDisk
<1>5. CASE Returned
  <2>1. pc' = "placing" /\ files' = Join
    BY <1>5 DEF Returned
  <2>2. ASSUME NEW i \in 1..Len(Join) PROVE Join[i] \in DOMAIN store'
    <3>1. Len(files) \in Nat /\ at \in Nat /\ at \in 1..(Len(files) + 1)
      BY FilesAre DEF TypeOK
    <3>2. /\ Len(Join) \in Len(files)..(Len(files) + 1)
          /\ new = <<>> => Len(Join) = Len(files)
          /\ Join[i] = IF i < at THEN files[i] ELSE IF i = at THEN Object
                       ELSE IF new = <<>> THEN files[i] ELSE files[i - 1]
      BY <1>1, JoinIs
    <3>3. Join[i] = Object \/ \E k \in 1..Len(files) : Join[i] = files[k]
      BY <3>1, <3>2
    <3> QED
      BY <1>2, <1>3, <3>3
  <2> QED
    BY <2>1, <2>2 DEF Present, OnDisk
<1> QED
  BY <1>4, <1>5 DEF Move

LEMMA ReturnPresent == ASSUME DirInv, Present, WriteReturns
                       PROVE  Present'
<1> USE DEF DirInv
<1>1. /\ pc = "marking" /\ Inside /\ pc' = "placing" /\ files' = Join /\ Object \in DOMAIN store
      /\ UNCHANGED <<store, known, filled, ignored>>
  BY DEF WriteReturns, Returned, Inside, Kept, Written, history
<1> SUFFICES ASSUME known, ~filled, ~ignored, NEW i \in 1..Len(Join) PROVE Join[i] \in DOMAIN store
  BY <1>1 DEF Present, OnDisk
<1>2. \A k \in 1..Len(files) : files[k] \in DOMAIN store
  BY <1>1 DEF Present, OnDisk
<1>3. Len(files) \in Nat /\ at \in Nat /\ at \in 1..(Len(files) + 1)
  BY FilesAre DEF TypeOK
<1>4. /\ Len(Join) \in Len(files)..(Len(files) + 1)
      /\ new = <<>> => Len(Join) = Len(files)
      /\ Join[i] = IF i < at THEN files[i] ELSE IF i = at THEN Object
                   ELSE IF new = <<>> THEN files[i] ELSE files[i - 1]
  BY <1>1, JoinIs
<1>5. Join[i] = Object \/ \E k \in 1..Len(files) : Join[i] = files[k]
  BY <1>3, <1>4
<1> QED
  BY <1>1, <1>2, <1>5

LEMMA RenamePresent == ASSUME DirInv, Present, SetMax \/ SetOptimized
                       PROVE  Present'
<1> USE DEF DirInv
<1>1. /\ pc \in {"renaming", "marking"} /\ Inside /\ pc' = "moving" /\ moving' = <<Object>>
      /\ \/ \E name : new = <<>> /\ files' = [files EXCEPT ![at] = name] /\ UNCHANGED new
         \/ new # <<>> /\ new' # <<>> /\ UNCHANGED files
      /\ UNCHANGED <<store, known, at, filled, ignored>>
  BY DEF SetMax, SetOptimized, Rename, Inside, history
<1>2. moving'[1] = Object /\ (new = <<>> => Object = files[at])
  BY <1>1 DEF Object
<1> SUFFICES ASSUME known, ~filled, ~ignored, NEW i \in 1..Len(files') PROVE OnDisk(i)' \in DOMAIN store
  BY <1>1 DEF Present
<1>3. \A k \in 1..Len(files) : files[k] \in DOMAIN store
  BY <1>1 DEF Present, OnDisk
<1>4. files \in Seq(Name)
  BY DEF TypeOK
<1>5. CASE new # <<>>
  BY <1>1, <1>3, <1>5 DEF OnDisk
<1>6. CASE new = <<>>
  <2>1. PICK name : files' = [files EXCEPT ![at] = name] /\ new' = <<>>
    BY <1>1, <1>6
  <2>2. Len(files') = Len(files) /\ (i # at => files'[i] = files[i])
    BY <1>4, <2>1
  <2>3. CASE i = at
    BY <1>1, <1>2, <1>3, <1>6, <2>1, <2>2, <2>3 DEF OnDisk
  <2>4. CASE i # at
    BY <1>1, <1>3, <2>2, <2>4 DEF OnDisk
  <2> QED
    BY <2>3, <2>4
<1> QED
  BY <1>5, <1>6

LEMMA WritePresent == ASSUME DirInv, Present, WriteToFile \/ WriteToNewFile
                      PROVE  Present'
<1>1. /\ pc = "placing" /\ pc' = "renaming" /\ DOMAIN store \subseteq DOMAIN store'
      /\ (filled => filled') /\ UNCHANGED <<known, files, ignored>>
  BY DEF WriteToFile, WriteToNewFile, Write, Placing
<1> QED
  BY <1>1 DEF Present, OnDisk

LEMMA PresentStep == ASSUME DirInv, Present, [Next]_vars
                     PROVE  Present'
<1>1. CASE \E b \in Batches : Flush(b)
  <2>1. pc = "idle" /\ pc' \in {"listing", "placing", "spinning"} /\ UNCHANGED <<store, known, files, filled, ignored>>
    BY <1>1 DEF Flush, Search
  <2> QED
    BY <2>1 DEF Present, OnDisk
<1>2. CASE List
  <2>1. PICK fs \in Listings : files' = fs /\ pc' \in {"placing", "spinning"} /\ UNCHANGED store
    BY <1>2 DEF List, Search
  <2>2. \A i \in 1..Len(fs) : fs[i] \in DOMAIN store
    BY <2>1, ListingIs DEF DirInv, Shapes
  <2> QED
    BY <2>1, <2>2 DEF Present, OnDisk
<1>3. CASE SkipFull \/ SkipOld \/ KeepName \/ FlushReturns
  <2>1. pc # "moving" /\ pc' # "moving" /\ UNCHANGED <<store, known, files, filled, ignored>>
    BY <1>3 DEF SkipFull, SkipOld, Placing, KeepName, FlushReturns, history
  <2> QED
    BY <2>1 DEF Present, OnDisk
<1>4. CASE Crash \/ Abort
  BY <1>4 DEF Crash, Abort, Lost, Present
<1>5. CASE UNCHANGED vars
  BY <1>5 DEF vars, writevars, history, Present, OnDisk
<1> QED
  BY <1>1, <1>2, <1>3, <1>4, <1>5, MovePresent, ReturnPresent, RenamePresent, WritePresent
     DEF Next, Step, Place

\* What a read has listed and not put in place yet: names of the directory as it was.
Listed == rpc = "listing" =>
    /\ listing \in Seq(Name) /\ Ordered(listing)
    /\ ~filled /\ ~ignored => \A i, j \in 1..Len(listing) : i < j => listing[i].min < listing[j].min
    /\ crashes = 0 /\ ~filled /\ ~ignored => listing = <<>>
    /\ \A i \in 1..Len(listing) : \E n \in DOMAIN store : n.min = listing[i].min

\* A buffer waits for a flush that is still within the bound.
Pended == pending = <<>> \/ (pending \in Batches /\ pc = "idle" /\ flushes < MaxFlushes)

ReadInv == DirInv /\ Present /\ Listed /\ Pended

LEMMA Monotone == ASSUME DirInv, [Next]_vars
                  PROVE  (filled => filled') /\ (ignored => ignored') /\ (crashes' = 0 => crashes = 0)
<1>1. crashes \in Nat
  BY DEF DirInv, TypeOK
<1>2. CASE (\E b \in Batches : Flush(b)) \/ List
  <2>1. CASE \E b \in Batches : Flush(b)
    BY <2>1 DEF Flush
  <2>2. CASE List
    BY <2>2 DEF List
  <2> QED
    BY <1>2, <2>1, <2>2
<1>3. CASE SkipFull \/ SkipOld \/ KeepName \/ FlushReturns \/ SetMax \/ SetOptimized \/ WriteReturns \/ Move \/ Abort
           \/ UNCHANGED vars
  BY <1>3 DEF SkipFull, SkipOld, Placing, KeepName, FlushReturns, SetMax, SetOptimized, WriteReturns, Move, Abort,
              vars, history
<1>4. CASE WriteToFile \/ WriteToNewFile
  <2>1. (\E n, bound, room : Write(n, bound, room)) /\ UNCHANGED <<ignored, crashes>>
    BY <1>4 DEF WriteToFile, WriteToNewFile
  <2>2. filled => filled'
    BY <2>1 DEF Write
  <2> QED
    BY <2>1, <2>2
<1>5. CASE Crash
  BY <1>1, <1>5 DEF Crash
<1> QED
  BY <1>2, <1>3, <1>4, <1>5 DEF Next, Step, Place

\* A file keeps its start, whatever name it gets.
LEMMA StartsStay == ASSUME DirInv, [Next]_vars, NEW n \in DOMAIN store
                    PROVE  \E m \in DOMAIN store' : m.min = n.min
<1>1. CASE Move
  <2>1. DOMAIN store' = (DOMAIN store \ {moving[1]}) \union {Object} /\ moving[1].min = Object.min
    BY <1>1, MoveDoes
  <2> QED
    BY <2>1
<1>2. CASE WriteToFile \/ WriteToNewFile
  <2>1. \E f, bound, room : Write(f, bound, room)
    BY <1>2 DEF WriteToFile, WriteToNewFile
  <2>2. n \in DOMAIN store'
    BY <2>1 DEF Write
  <2> QED
    BY <2>2
<1>3. CASE UNCHANGED store
  BY <1>3
<1> QED
  BY <1>1, <1>2, <1>3 DEF Next, Step, Place, Flush, List, SkipFull, SkipOld, SetMax, KeepName, SetOptimized,
                          WriteReturns, FlushReturns, Abort, Crash, vars

\* The steps that leave a listing alone.
LEMMA ListedStep == ASSUME DirInv, Listed, [Next]_vars, rpc' = "listing" => rpc = "listing" /\ listing' = listing
                    PROVE  Listed'
<1>1. (filled => filled') /\ (ignored => ignored') /\ (crashes' = 0 => crashes = 0)
  BY Monotone
<1> SUFFICES ASSUME rpc = "listing", listing' = listing PROVE Listed'
  BY DEF Listed
<1>2. \A i \in 1..Len(listing) : \E m \in DOMAIN store' : m.min = listing[i].min
  <2> TAKE i \in 1..Len(listing)
  <2>1. PICK n \in DOMAIN store : n.min = listing[i].min
    BY DEF Listed
  <2> QED
    BY <2>1, StartsStay
<1> QED
  BY <1>1, <1>2 DEF Listed

\* A listing: files with distinct starts, and none in a directory that no flush has made.
LEMMA FreshListing ==
    ASSUME DirInv, ~known, NEW fs \in Listings
    PROVE  /\ fs \in Seq(Name) /\ Ordered(fs) /\ \A i \in 1..Len(fs) : fs[i] \in DOMAIN store
           /\ ~filled /\ ~ignored => \A i, j \in 1..Len(fs) : i < j => fs[i].min < fs[j].min
           /\ crashes = 0 /\ ~filled /\ ~ignored => fs = <<>>
           /\ \A i \in 1..Len(fs) : \E n \in DOMAIN store : n.min = fs[i].min
<1>1. /\ fs \in Seq(Name) /\ Ordered(fs) /\ Len(fs) \in Nat
      /\ \A i \in 1..Len(fs) : fs[i] \in DOMAIN store
      /\ \A i, j \in 1..Len(fs) : i # j => fs[i] # fs[j]
  <2>1. TypeOK /\ IsFiniteSet(DOMAIN store)
    BY DEF DirInv, Shapes
  <2> QED
    BY <2>1, ListingIs
<1>2. ASSUME ~filled, ~ignored, NEW i \in 1..Len(fs), NEW j \in 1..Len(fs), i < j
      PROVE  fs[i].min < fs[j].min
  <2>1. fs[i] \in Name /\ fs[j] \in Name
    BY <1>1, ElementOfSeq
  <2>2. fs[i].min \in Int /\ fs[j].min \in Int
    BY <2>1, NameFields
  <2>3. i # j /\ fs[i].min <= fs[j].min
    BY <1>1, <1>2 DEF Ordered
  <2>4. fs[i].min # fs[j].min
    BY <1>1, <1>2, <2>3 DEF DirInv, Distinct
  <2> QED
    BY <2>2, <2>3, <2>4
<1>3. ASSUME crashes = 0, ~filled, ~ignored PROVE fs = <<>>
  <2>1. DOMAIN store = {}
    BY <1>3 DEF DirInv, Apart
  <2>2. \A i \in 1..Len(fs) : FALSE
    BY <1>1, <2>1
  <2>3. Len(fs) = 0
    BY <1>1, <2>2
  <2> QED
    BY <1>1, <2>3, EmptySeq
<1> QED
  BY <1>1, <1>2, <1>3

\* A reader puts its listing in the place of whatever the flusher has made of the files
\* since. What it leaves out counts as ignored; otherwise it has the starts right.
LEMMA ListEndsKeeps == ASSUME DirInv, Listed, ListEnds
                       PROVE  DirInv' /\ Present'
<1>1. /\ rpc = "listing" /\ ~FlushInside /\ files' = listing /\ known' = TRUE
      /\ ignored' = (ignored \/ \E n \in DOMAIN store : n \notin Range(listing))
      /\ UNCHANGED <<store, buf, cursor, at, new, reach, moving, pc, flushes, flushed, filled, crashes>>
  BY DEF ListEnds, writevars
<1>2. pc \in {"idle", "listing", "spinning"} /\ ~Inside /\ at = 1 /\ new = <<>> /\ moving = <<>>
  BY <1>1 DEF DirInv, TypeOK, Shapes, FlushInside, Inside
<1>3. /\ listing \in Seq(Name) /\ Ordered(listing) /\ Len(listing) \in Nat
      /\ ~filled /\ ~ignored => \A i, j \in 1..Len(listing) : i < j => listing[i].min < listing[j].min
      /\ crashes = 0 /\ ~filled /\ ~ignored => listing = <<>>
      /\ \A i \in 1..Len(listing) : \E n \in DOMAIN store : n.min = listing[i].min
  BY <1>1 DEF Listed
<1>4. TypeOK'
  <2>1. at' \in 1..(Len(files') + 1) /\ files' \in Seq(Name)
    BY <1>1, <1>2, <1>3
  <2>2. ignored' \in BOOLEAN /\ known' \in BOOLEAN
    BY <1>1 DEF DirInv, TypeOK
  <2> QED
    BY <1>1, <2>1, <2>2 DEF DirInv, TypeOK
<1>5. ~Inside'
  BY <1>1, <1>2 DEF Inside
<1>6. Shapes' /\ Kept' /\ Named'
  BY <1>1, <1>2, <1>5 DEF DirInv, Shapes, Ascending, Kept, Named
<1>7. Stored' = Stored /\ \A i : OnDisk(i)' = listing[i]
  BY <1>1, <1>2 DEF Stored, OnDisk
<1>8. Sorted'
  BY <1>1, <1>2, <1>3, <1>5 DEF DirInv, Sorted
<1>9. Distinct'
  <2> SUFFICES ASSUME ~filled, ~ignored, \A n \in DOMAIN store : n \in Range(listing) PROVE Distinct'
    BY <1>1 DEF Distinct
  <2>1. \A n \in DOMAIN store : \E i \in 1..Len(listing) : n = listing[i]
    BY <1>3, ElementsOf
  <2> QED
    BY <1>1, <1>2, <1>3, <1>7, <2>1 DEF DirInv, Distinct
<1>10. Apart'
  <2> SUFFICES ASSUME crashes = 0, ~filled, ~ignored, \A n \in DOMAIN store : n \in Range(listing) PROVE Apart'
    BY <1>1 DEF Apart
  <2>1. listing = <<>> /\ \A i \in 1..Len(listing) : FALSE
    BY <1>3
  <2>2. DOMAIN store = {}
    BY <2>1, <1>3, ElementsOf
  <2> QED
    BY <1>1, <1>2, <1>5, <1>7, <2>1, <2>2 DEF DirInv, Apart
<1>11. Present'
  <2> SUFFICES ASSUME ~filled, ~ignored, \A n \in DOMAIN store : n \in Range(listing), NEW i \in 1..Len(listing)
               PROVE  listing[i] \in DOMAIN store
    BY <1>1, <1>7 DEF Present
  <2>1. PICK n \in DOMAIN store : n.min = listing[i].min
    BY <1>3
  <2>2. PICK j \in 1..Len(listing) : n = listing[j]
    BY <1>3, ElementsOf
  <2>3. listing[i].min \in Int /\ listing[j].min \in Int
    <3>1. listing[i] \in Name /\ listing[j] \in Name
      BY <1>3, ElementOfSeq
    <3> QED
      BY <3>1, NameFields
  <2>4. i = j
    <3>1. i < j \/ j < i \/ i = j
      BY <1>3
    <3> QED
      BY <1>3, <2>1, <2>2, <2>3, <3>1
  <2> QED
    BY <2>2, <2>4
<1> QED
  BY <1>4, <1>6, <1>8, <1>9, <1>10, <1>11 DEF DirInv

LEMMA ReadInvStep == ASSUME ReadInv, [ReadNext]_allvars
                     PROVE  ReadInv'
<1> USE DEF ReadInv
<1>1. CASE \E b \in Batches : Arrive(b)
  <2>1. UNCHANGED vars /\ UNCHANGED <<rpc, listing>> /\ pending' \in Batches
        /\ pc' = "idle" /\ flushes' < MaxFlushes
    BY <1>1 DEF Arrive, reader, vars, history
  <2> QED
    BY <2>1, StepKeeps, PresentStep, ListedStep DEF Pended
<1>2. CASE FlushBegins
  <2>1. \E b \in Batches : Flush(b)
    BY <1>2 DEF FlushBegins, Pended
  <2>2. [Next]_vars /\ UNCHANGED <<rpc, listing>> /\ pending' = <<>>
    BY <1>2, <2>1 DEF FlushBegins, Next, reader
  <2> QED
    BY <2>2, StepKeeps, PresentStep, ListedStep DEF Pended
<1>3. CASE FlushSteps \/ FlushClears
  <2>1. [Next]_vars /\ UNCHANGED <<rpc, listing, pending>>
    BY <1>3 DEF FlushSteps, FlushClears, Next, Step
  <2>2. pc # "idle"
    BY <1>3 DEF FlushSteps, FlushClears, FlushReturns, Place, List, SkipFull, SkipOld, WriteToFile, WriteToNewFile,
                SetMax, KeepName, SetOptimized, WriteReturns, Move, Placing
  <2> QED
    BY <2>1, <2>2, StepKeeps, PresentStep, ListedStep DEF Pended
<1>4. CASE ReadCrash
  <2>1. [Next]_vars /\ rpc' = "idle" /\ pending' = <<>>
    BY <1>4 DEF ReadCrash, Reset, Next, Step
  <2> QED
    BY <2>1, StepKeeps, PresentStep, ListedStep DEF Pended
<1>5. CASE Segfault
  <2>1. /\ Lost /\ crashes' = crashes + 1 /\ UNCHANGED <<store, flushes, flushed, filled, ignored>>
        /\ rpc' = "idle" /\ pending' = <<>> /\ known' = FALSE
    BY <1>5 DEF Segfault, Reset, Lost
  <2> QED
    BY <2>1, LostKeeps DEF Present, Listed, Pended
<1>6. CASE FindFile
  <2>1. UNCHANGED vars /\ UNCHANGED <<pending, pc, flushes>>
    BY <1>6 DEF FindFile, vars, history
  <2>2. DirInv' /\ Present' /\ Pended'
    BY <2>1, StepKeeps, PresentStep DEF Pended
  <2>3. Listed'
    <3> SUFFICES ASSUME rpc' = "listing" PROVE Listed'
      BY DEF Listed
    <3>1. ~known /\ listing' \in Listings /\ UNCHANGED <<store, filled, ignored, crashes>>
      BY <1>6, <2>1 DEF FindFile, Start, vars, history
    <3> QED
      BY <3>1, FreshListing DEF Listed
  <2> QED
    BY <2>2, <2>3
<1>7. CASE ListEnds
  <2>1. rpc' # "listing" /\ UNCHANGED <<pending, pc, flushes>>
    BY <1>7 DEF ListEnds, Start
  <2> QED
    BY <1>7, <2>1, ListEndsKeeps DEF Listed, Pended
<1>8. CASE \/ \E from \in Timestamp, to \in Timestamp \union {Forever} : BeginRead(from, to)
           \/ PassOver \/ Choose \/ FilesDone \/ ReadFile \/ OpenFails \/ ScanBuffer \/ Deliver \/ GiveUp
           \/ ReadReturns
  <2>1. UNCHANGED vars /\ UNCHANGED pending /\ (rpc' = "listing" => rpc = "listing" /\ listing' = listing)
    BY <1>8 DEF BeginRead, PassOver, Choose, FilesDone, ReadFile, OpenFails, ScanBuffer, Deliver, GiveUp,
                ReadReturns, Unmoved, Reset
  <2>2. UNCHANGED <<pc, flushes>>
    BY <2>1 DEF vars, history
  <2> QED
    BY <2>1, <2>2, StepKeeps, PresentStep, ListedStep DEF Pended
<1>9. CASE UNCHANGED allvars
  <2>1. UNCHANGED vars /\ UNCHANGED <<rpc, listing, pending, pc, flushes>>
    BY <1>9 DEF allvars, readvars, reader, vars, history
  <2> QED
    BY <2>1, StepKeeps, PresentStep, ListedStep DEF Pended
<1> QED
  BY <1>1, <1>2, <1>3, <1>4, <1>5, <1>6, <1>7, <1>8, <1>9 DEF ReadNext, Flusher, Reader

LEMMA ReadInvInit == ASSUME ReadInit PROVE ReadInv
<1>1. Init /\ ~known /\ rpc = "idle" /\ pending = <<>>
  BY DEF ReadInit, Init
<1> QED
  BY <1>1, InitKeeps DEF ReadInv, Present, Listed, Pended

LEMMA ReadInvariance == ReadSpec => []ReadInv
<1>1. ReadInit => ReadInv
  BY ReadInvInit
<1>2. ReadInv /\ [ReadNext]_allvars => ReadInv'
  BY ReadInvStep
<1> QED
  BY <1>1, <1>2, PTL DEF ReadSpec

\* With a reader beside the flusher, neither taking a lock, both of which may list the
\* directory at once: between flushes datapoint_files are the files on disk, unless a file
\* has filled up or a listing left one out. What a read puts in place after a flush has
\* renamed a file leaves that file out; otherwise it is right, since files keep their starts.
THEOREM KnownFilesAreStored == ReadSpec => []KnownIsStored
<1>1. ReadInv => KnownIsStored
  <2> SUFFICES ASSUME ReadInv, known, pc = "idle", ~filled, ~ignored
               PROVE  Range(files) = DOMAIN store
    BY DEF KnownIsStored
  <2>1. files \in Seq(Name) /\ new = <<>>
    BY DEF ReadInv, DirInv, TypeOK, Shapes, Inside
  <2>2. \A i : OnDisk(i) = files[i]
    BY DEF OnDisk
  <2>3. \A i \in 1..Len(files) : files[i] \in DOMAIN store
    BY <2>2 DEF ReadInv, Present
  <2>4. \A n \in DOMAIN store : \E i \in 1..Len(files) : n = files[i]
    BY <2>1, <2>2 DEF ReadInv, DirInv, Distinct
  <2>5. (\A i \in 1..Len(files) : files[i] \in Range(files))
        /\ \A x \in Range(files) : \E i \in 1..Len(files) : x = files[i]
    BY <2>1, ElementsOf
  <2> QED
    BY <2>3, <2>4, <2>5
<1> QED
  BY <1>1, ReadInvariance, PTL

\* A reader does the directory no harm: with its listings and its crashes among the
\* flusher's steps, the files stay in order, names keep telling ranges, and what was
\* flushed stays.
THEOREM HarmlessReads == ReadSpec => [](FilesInOrder /\ NamesTellRange /\ FlushedStays)
<1>1. ReadInv => FilesInOrder /\ NamesTellRange /\ FlushedStays
  BY DEF ReadInv, DirInv, Sorted, Named, Distinct, FilesInOrder, NamesTellRange, FlushedStays, Inside, InRangeOf
<1> QED
  BY <1>1, ReadInvariance, PTL

----------------------------------------------------------------------------
(* What a read gives.                                                       *)

\* A set of points with different times, as a scan meets it.
Apiece(S) == IsFiniteSet(S) /\ S \subseteq Point /\ \A p, q \in S : p.time = q.time => p = q
Enumerates(s, S) == /\ s \in [1..Cardinality(S) -> S]
                    /\ \A i, j \in 1..Cardinality(S) : i < j => s[i].time < s[j].time

LEMMA LastOf == ASSUME NEW S, Apiece(S), S # {}
                PROVE  \E p \in S : \A q \in S \ {p} : q.time < p.time
<1> DEFINE C == {Forever - q.time : q \in S}
<1>1. \A q \in S : q.time \in 0..Forever
  BY PointFields DEF Apiece
<1>2. C \in SUBSET Nat /\ C # {}
  BY <1>1, TimestampAssumption
<1>3. \E n \in C : \A m \in C : n <= m
  <2> HIDE DEF C
  <2> QED
    BY <1>2, NatMin
<1>4. PICK p \in S : \A m \in C : Forever - p.time <= m
  BY <1>3
<1>5. ASSUME NEW q \in S \ {p} PROVE q.time < p.time
  <2>1. Forever - p.time <= Forever - q.time
    BY <1>4
  <2>2. q.time # p.time
    BY DEF Apiece
  <2> QED
    BY <1>1, <2>1, <2>2, TimestampAssumption
<1> QED
  BY <1>5

LEMMA Enumerable == ASSUME NEW S, Apiece(S) PROVE \E s : Enumerates(s, S)
<1> DEFINE I == {n \in Nat : \A T \in SUBSET S : Cardinality(T) = n => \E s : Enumerates(s, T)}
<1>1. 0 \in I
  <2> SUFFICES ASSUME NEW T \in SUBSET S, Cardinality(T) = 0 PROVE \E s : Enumerates(s, T)
    OBVIOUS
  <2>1. <<>> \in [1..0 -> T]
    OBVIOUS
  <2>2. Enumerates(<<>>, T)
    BY <2>1 DEF Enumerates
  <2> QED
    BY <2>2
<1>2. ASSUME NEW n \in Nat, n \in I PROVE n + 1 \in I
  <2> SUFFICES ASSUME NEW T \in SUBSET S, Cardinality(T) = n + 1 PROVE \E s : Enumerates(s, T)
    OBVIOUS
  <2>1. Apiece(T)
    BY FS_Subset DEF Apiece
  <2>2. T # {}
    BY FS_EmptySet
  <2>3. PICK p \in T : \A q \in T \ {p} : q.time < p.time
    BY <2>1, <2>2, LastOf
  <2>4. Cardinality(T \ {p}) = n
    <3>1. IsFiniteSet(T)
      BY <2>1 DEF Apiece
    <3>2. Cardinality(T \ {p}) = Cardinality(T) - 1
      BY <3>1, FS_RemoveElement
    <3> QED
      BY <3>2
  <2>5. PICK s : Enumerates(s, T \ {p})
    BY <1>2, <2>4
  <2> DEFINE h == [i \in 1..(n + 1) |-> IF i = n + 1 THEN p ELSE s[i]]
  <2>6. s \in [1..n -> T \ {p}] /\ \A i, j \in 1..n : i < j => s[i].time < s[j].time
    BY <2>4, <2>5 DEF Enumerates
  <2>7. h \in [1..(n + 1) -> T]
    BY <2>6
  <2>8. ASSUME NEW i \in 1..(n + 1), NEW j \in 1..(n + 1), i < j PROVE h[i].time < h[j].time
    <3>1. i \in 1..n /\ h[i] = s[i] /\ s[i] \in T \ {p}
      BY <2>6, <2>8
    <3>2. CASE j = n + 1
      BY <2>3, <3>1, <3>2
    <3>3. CASE j # n + 1
      <4>1. j \in 1..n /\ h[j] = s[j]
        BY <3>3
      <4> QED
        BY <2>6, <2>8, <3>1, <4>1
    <3> QED
      BY <3>2, <3>3
  <2>9. Enumerates(h, T)
    <3> HIDE DEF h
    <3> QED
      BY <2>7, <2>8 DEF Enumerates
  <2> QED
    BY <2>9
<1>3. I = Nat
  <2> HIDE DEF I
  <2>1. I \in SUBSET Nat
    BY DEF I
  <2> QED
    BY <1>1, <1>2, <2>1, Induction
<1>4. Cardinality(S) \in Nat
  BY FS_CardinalityType DEF Apiece
<1> QED
  BY <1>3, <1>4

\* What is taken from a file or a buffer: all its points, and in order.
LEMMA InTimeIs ==
    ASSUME NEW S, Apiece(S)
    PROVE  /\ InTime(S) \in Seq(Point) /\ Len(InTime(S)) = Cardinality(S) /\ Ascending(InTime(S))
           /\ \A i \in 1..Len(InTime(S)) : InTime(S)[i] \in S
           /\ \A p \in S : \E i \in 1..Len(InTime(S)) : p = InTime(S)[i]
<1> DEFINE s == InTime(S)
           N == Cardinality(S)
<1>1. Enumerates(s, S)
  BY Enumerable DEF InTime, Enumerates
<1>2. N \in Nat /\ S \subseteq Point
  BY FS_CardinalityType DEF Apiece
<1>3. s \in [1..N -> S] /\ \A i, j \in 1..N : i < j => s[i].time < s[j].time
  BY <1>1 DEF Enumerates
<1> HIDE DEF s, N
<1>4. s \in Seq(Point) /\ Len(s) = N
  BY <1>2, <1>3
<1>5. \A p \in S : \E i \in 1..N : p = s[i]
  <2>1. \A i \in 1..N : s[i].time \in Int
    BY <1>2, <1>3, PointFields
  <2>2. \A i, j \in 1..N : i # j => s[i] # s[j]
    BY <1>2, <1>3, <2>1
  <2>3. s \in Injection(1..N, S)
    BY <1>3, <2>2 DEF Injection, IsInjective
  <2>4. IsFiniteSet(1..N) /\ Cardinality(1..N) = N
    BY <1>2, FS_Interval
  <2>5. s \in Surjection(1..N, S)
    BY <2>3, <2>4, FS_Injection DEF Apiece, N
  <2> QED
    BY <2>5 DEF Surjection
<1> QED
  BY <1>3, <1>4, <1>5 DEF s, N, Ascending

LEMMA AscendingJoin ==
    ASSUME NEW a \in Seq(Point), NEW b \in Seq(Point), Ascending(a), Ascending(b), NEW t \in Int,
           \A i \in 1..Len(a) : a[i].time < t, \A i \in 1..Len(b) : t <= b[i].time
    PROVE  Ascending(a \o b)
<1> DEFINE r == a \o b
           la == Len(a)
           lb == Len(b)
<1>1. /\ la \in Nat /\ lb \in Nat /\ Len(r) = la + lb
      /\ \A i \in 1..(la + lb) : r[i] = IF i <= la THEN a[i] ELSE b[i - la]
  BY ConcatProperties
<1>2. /\ \A i \in 1..la : a[i].time \in Int /\ a[i].time < t
      /\ \A i \in 1..lb : b[i].time \in Int /\ t <= b[i].time
  BY PointTime
<1>3. /\ \A i, j \in 1..la : i < j => a[i].time < a[j].time
      /\ \A i, j \in 1..lb : i < j => b[i].time < b[j].time
  BY DEF Ascending
<1> HIDE DEF r, la, lb
<1> SUFFICES ASSUME NEW i \in 1..(la + lb), NEW j \in 1..(la + lb), i < j PROVE r[i].time < r[j].time
  BY <1>1 DEF Ascending, r
<1>4. CASE j <= la
  <2>1. i \in 1..la /\ j \in 1..la /\ r[i] = a[i] /\ r[j] = a[j]
    BY <1>1, <1>4
  <2> QED
    BY <1>3, <2>1
<1>5. CASE i <= la /\ j > la
  <2>1. i \in 1..la /\ j - la \in 1..lb /\ r[i] = a[i] /\ r[j] = b[j - la]
    BY <1>1, <1>5
  <2> QED
    BY <1>2, <2>1
<1>6. CASE i > la
  <2>1. i - la \in 1..lb /\ j - la \in 1..lb /\ i - la < j - la /\ r[i] = b[i - la] /\ r[j] = b[j - la]
    BY <1>1, <1>6
  <2> QED
    BY <1>3, <2>1
<1> QED
  BY <1>1, <1>4, <1>5, <1>6

\* What has been read so far, given to the callback or not.
Read == result \o chunk
Before(s, t) == \A i \in 1..Len(s) : s[i].time < t
Reading == /\ next \in 0..(Forever + 1) /\ end \in 0..Forever /\ next <= end
           /\ chunk \in Seq(Point) /\ Len(chunk) <= ReadSpace /\ result \in Seq(Point)
           /\ Ascending(Read) /\ Before(Read, next)

\* More points at or after next_time: the read stays in order.
LEMMA MoreRead ==
    ASSUME Reading, NEW ps \in Seq(Point), Ascending(ps), \A i \in 1..Len(ps) : next <= ps[i].time,
           Len(chunk) + Len(ps) <= ReadSpace, NEW t \in next..end, Before(ps, t)
    PROVE  /\ chunk \o ps \in Seq(Point) /\ Len(chunk \o ps) <= ReadSpace
           /\ Ascending(result \o (chunk \o ps)) /\ Before(result \o (chunk \o ps), t)
<1>1. /\ chunk \in Seq(Point) /\ result \in Seq(Point) /\ Read \in Seq(Point) /\ next \in Int /\ t \in Int /\ next <= t
      /\ result \o (chunk \o ps) = Read \o ps
  <2>1. chunk \in Seq(Point) /\ result \in Seq(Point) /\ next \in Int /\ end \in Int
    BY TimestampAssumption DEF Reading
  <2>2. Read \in Seq(Point)
    BY <2>1, ConcatProperties DEF Read
  <2>3. result \o (chunk \o ps) = Read \o ps
    BY <2>1, ConcatAssociative, SMTT(30) DEF Read
  <2> QED
    BY <2>1, <2>2, <2>3
<1>2. chunk \o ps \in Seq(Point) /\ Len(chunk \o ps) <= ReadSpace
  BY <1>1, ConcatProperties
<1>3. Ascending(Read \o ps)
  BY <1>1, AscendingJoin DEF Reading, Before
<1>4. Before(Read \o ps, t)
  <2>1. /\ Len(Read \o ps) = Len(Read) + Len(ps) /\ Len(Read) \in Nat /\ Len(ps) \in Nat
        /\ \A i \in 1..(Len(Read) + Len(ps)) : (Read \o ps)[i] = IF i <= Len(Read) THEN Read[i] ELSE ps[i - Len(Read)]
    BY <1>1, ConcatProperties
  <2>2. \A i \in 1..Len(Read) : Read[i].time \in Int /\ Read[i].time < t
    BY <1>1, PointTime DEF Reading, Before
  <2>3. \A i \in 1..Len(ps) : ps[i].time < t
    BY DEF Before
  <2> QED
    BY <2>1, <2>2, <2>3 DEF Before
<1> QED
  BY <1>1, <1>2, <1>3, <1>4

\* ReadOperation::Append of what there is space for.
LEMMA TakeIs ==
    ASSUME Reading, NEW S, Apiece(S), \A p \in S : next <= p.time /\ p.time < end, Take(S),
           UNCHANGED <<result, end>>
    PROVE  Reading'
<1> DEFINE ps == InTime(S)
           n == Min({Len(ps), ReadSpace - Len(chunk)})
           r == SubSeq(ps, 1, n)
<1>1. /\ chunk' = chunk \o r /\ next' = IF n = 0 THEN next ELSE ps[n].time + 1
  BY DEF Take
<1>2. /\ ps \in Seq(Point) /\ Ascending(ps) /\ Len(ps) \in Nat
      /\ \A i \in 1..Len(ps) : ps[i].time \in 0..Forever /\ next <= ps[i].time /\ ps[i].time < end
  BY InTimeIs, PointTime
<1>3. ReadSpace - Len(chunk) \in Nat /\ Len(chunk) \in Nat /\ ReadSpace \in Nat
  BY ReadAssumption DEF Reading
<1>4. n \in 0..Len(ps) /\ n <= ReadSpace - Len(chunk)
  <2> DEFINE a == Len(ps)
             b == ReadSpace - Len(chunk)
  <2> HIDE DEF a, b
  <2>1. a \in Nat /\ b \in Nat
    BY <1>2, <1>3 DEF a, b
  <2>2. \E x \in {a, b} : \A y \in {a, b} : x <= y
    BY <2>1
  <2>3. Min({a, b}) \in {a, b} /\ \A y \in {a, b} : Min({a, b}) <= y
    BY <2>2 DEF Min
  <2> QED
    BY <2>1, <2>3 DEF a, b
<1> HIDE DEF ps, n
<1>5. /\ r \in Seq(Point) /\ Len(r) = n /\ \A i \in 1..n : r[i] = ps[i]
  <2>1. SubSeq(ps, 0 + 1, n) \in Seq(Point) /\ Len(SubSeq(ps, 0 + 1, n)) = n - 0
        /\ \A i \in 1..(n - 0) : SubSeq(ps, 0 + 1, n)[i] = ps[0 + i]
    BY <1>2, <1>4, SliceIs
  <2> QED
    BY <1>4, <2>1
<1> HIDE DEF r
<1>6. Ascending(r) /\ \A i \in 1..Len(r) : next <= r[i].time
  <2>1. n \in Nat /\ n <= Len(ps) /\ Len(ps) \in Nat
    BY <1>2, <1>4
  <2>2. \A i \in 1..n : i \in 1..Len(ps)
    BY <2>1
  <2>3. \A i, j \in 1..Len(r) : i < j => r[i].time < r[j].time
    BY <1>2, <1>5, <2>2 DEF Ascending
  <2>4. \A i \in 1..Len(r) : next <= r[i].time
    BY <1>2, <1>5, <2>2
  <2> QED
    BY <2>3, <2>4 DEF Ascending
<1>7. next' \in next..end /\ Before(r, next')
  <2>1. CASE n = 0
    BY <1>1, <1>5, <2>1 DEF Before, Reading
  <2>2. CASE n # 0
    <3>1. n \in 1..Len(ps) /\ next' = ps[n].time + 1
      BY <1>1, <1>4, <2>2
    <3>2. next' \in next..end
      BY <1>2, <3>1 DEF Reading
    <3>3. \A i \in 1..n : ps[i].time <= ps[n].time
      <4> TAKE i \in 1..n
      <4>1. i = n \/ i < n
        BY <1>4
      <4>2. i \in 1..Len(ps)
        BY <1>2, <1>4
      <4> QED
        BY <1>2, <3>1, <4>1, <4>2 DEF Ascending
    <3> QED
      BY <1>2, <1>4, <1>5, <3>1, <3>2, <3>3, SMTT(30) DEF Before
  <2> QED
    BY <2>1, <2>2
<1>8. Len(chunk) + Len(r) <= ReadSpace
  BY <1>3, <1>4, <1>5
<1>9. /\ chunk' \in Seq(Point) /\ Len(chunk') <= ReadSpace
      /\ Ascending(Read') /\ Before(Read', next')
  BY <1>1, <1>5, <1>6, <1>7, <1>8, MoreRead DEF Read
<1>10. next' \in 0..(Forever + 1) /\ next' <= end
  BY <1>7, TimestampAssumption DEF Reading
<1> QED
  BY <1>9, <1>10 DEF Reading

LEMMA RangeFinite == ASSUME NEW s \in Seq(Point)
                     PROVE  IsFiniteSet(Range(s)) /\ Range(s) \subseteq Point
<1>1. Len(s) \in Nat /\ \A x \in Range(s) : x \in Point /\ \E i \in 1..Len(s) : x = s[i]
  BY ElementsOf
<1>2. s \in [1..Len(s) -> Range(s)]
  <2>1. \A i \in 1..Len(s) : s[i] \in Range(s)
    BY ElementsOf
  <2> QED
    BY <2>1
<1>3. s \in Surjection(1..Len(s), Range(s))
  BY <1>1, <1>2 DEF Surjection
<1>4. IsFiniteSet(1..Len(s))
  BY <1>1, FS_Interval
<1> QED
  BY <1>1, <1>3, <1>4, FS_Surjection

LEMMA PartApiece == ASSUME NEW S, Apiece(S), NEW T \in SUBSET S
                    PROVE  Apiece(T)
BY FS_Subset DEF Apiece

LEMMA AscendingApiece == ASSUME NEW s \in Seq(Point), Ascending(s)
                         PROVE  Apiece(Range(s))
<1>1. ASSUME NEW p \in Range(s), NEW q \in Range(s), p.time = q.time PROVE p = q
  <2>1. PICK i \in 1..Len(s), j \in 1..Len(s) : p = s[i] /\ q = s[j]
    BY ElementsOf
  <2>2. s[i].time \in Int /\ s[j].time \in Int /\ i \in Int /\ j \in Int
    BY PointTime
  <2>3. i = j \/ i < j \/ j < i
    BY <2>2
  <2> QED
    BY <1>1, <2>1, <2>2, <2>3 DEF Ascending
<1> QED
  BY <1>1, RangeFinite DEF Apiece

\* Of the versions of a timestamp in a file one is the last.
LEMMA LatestApiece == ASSUME NEW s \in Seq(Point), NEW t
                      PROVE  Apiece(LatestIn(s, t)) /\ LatestIn(s, t) \subseteq Range(s)
<1>1. LatestIn(s, t) \subseteq Range(s)
  BY DEF LatestIn
<1>2. IsFiniteSet(LatestIn(s, t)) /\ LatestIn(s, t) \subseteq Point
  BY <1>1, RangeFinite, FS_Subset
<1>3. ASSUME NEW p \in LatestIn(s, t), NEW q \in LatestIn(s, t), p.time = q.time PROVE p = q
  <2>1. p \in Point /\ q \in Point
    BY <1>2
  <2>2. p.flush \in Int /\ q.flush \in Int /\ p = [time |-> p.time, flush |-> p.flush]
        /\ q = [time |-> q.time, flush |-> q.flush]
    BY <2>1 DEF Point
  <2>3. p.flush <= q.flush /\ q.flush <= p.flush
    BY <1>3 DEF LatestIn
  <2> QED
    BY <1>3, <2>2, <2>3
<1> QED
  BY <1>1, <1>2, <1>3 DEF Apiece

LEMMA BufferedApiece == ASSUME ReadInv PROVE Apiece(Buffered)
<1>1. CASE pc # "idle"
  <2>1. buf \in Seq(Point) /\ Ascending(buf)
    BY DEF ReadInv, DirInv, TypeOK, Shapes
  <2> QED
    BY <1>1, <2>1, AscendingApiece DEF Buffered
<1>2. CASE pc = "idle" /\ pending = <<>>
  <2>1. Buffered = {}
    BY <1>2 DEF Buffered
  <2> QED
    BY <2>1, FS_EmptySet DEF Apiece
<1>3. CASE pc = "idle" /\ pending # <<>>
  <2>1. pending \in Batches /\ flushes + 1 \in 1..MaxFlushes
    BY <1>3, BoundsAssumption DEF ReadInv, Pended, DirInv, TypeOK
  <2> DEFINE s == [i \in 1..Len(pending) |-> [time |-> pending[i], flush |-> flushes + 1]]
  <2>2. s \in Seq(Point) /\ Len(s) = Len(pending) /\ Ascending(s)
    BY <2>1, BatchIs
  <2>3. Buffered = {s[i] : i \in 1..Len(pending)}
    BY <1>3 DEF Buffered
  <2>4. Buffered = Range(s)
    <3> HIDE DEF s
    <3>1. (\A i \in 1..Len(s) : s[i] \in Range(s)) /\ \A x \in Range(s) : \E i \in 1..Len(s) : x = s[i]
      BY <2>2, ElementsOf
    <3> QED
      BY <2>2, <2>3, <3>1
  <2> HIDE DEF s
  <2> QED
    BY <2>2, <2>4, AscendingApiece
<1> QED
  BY <1>1, <1>2, <1>3

----------------------------------------------------------------------------
Active == {"finding", "listing", "choosing", "opening", "scanning", "answering"}
AtFile == rpc \in {"choosing", "opening"}
ReaderInv == /\ ReadTypeOK /\ it \in Nat \ {0}
             /\ ~AtFile => it = 1 /\ ~dangling
             /\ rpc \in Active => Reading
             /\ Ascending(Read)
             /\ rpc = "idle" => result = <<>> /\ chunk = <<>>

LEMMA EmptyRead == /\ <<>> \in Seq(Point) /\ <<>> \in Seq(Name) /\ <<>> \o <<>> = <<>> /\ Len(<<>>) = 0
                   /\ Ascending(<<>>) /\ 0 \in 0..Forever /\ 0 \in 0..(Forever + 1) /\ 0 <= ReadSpace
<1>1. /\ <<>> \in Seq(Point) /\ <<>> \in Seq(Name) /\ Len(<<>>) = 0
      /\ 0 \in 0..Forever /\ 0 \in 0..(Forever + 1) /\ 0 <= ReadSpace
  BY TimestampAssumption, ReadAssumption
<1>2. <<>> \o <<>> = <<>>
  BY <1>1, ConcatEmptySeq
<1>3. Ascending(<<>>)
  BY <1>1 DEF Ascending
<1> QED
  BY <1>1, <1>2, <1>3

LEMMA ResetKeeps == ASSUME Reset, pending' \in Seq(Timestamp), reads' \in 0..MaxReads,
                           files' \in Seq(Name)
                    PROVE  ReaderInv'
<1>1. /\ rpc' = "idle" /\ next' = 0 /\ end' = 0 /\ chunk' = <<>> /\ it' = 1 /\ listing' = <<>> /\ path' = <<>>
      /\ dangling' = FALSE /\ result' = <<>> /\ asked' = [disk |-> {}, buffer |-> {}]
      /\ failed' = FALSE /\ emptied' = FALSE
  BY DEF Reset
<1>2. Len(files') \in Nat /\ 1 \in 1..(Len(files') + 1)
  OBVIOUS
<1>3. ReadTypeOK'
  <2>1. asked' \in [disk : SUBSET Point, buffer : SUBSET Point]
    BY <1>1
  <2>2. {listing', path'} \subseteq Seq(Name) /\ chunk' \in Seq(Point) /\ Len(chunk') <= ReadSpace /\ result' \in Seq(Point)
    BY <1>1, EmptyRead
  <2>3. next' \in 0..(Forever + 1) /\ end' \in 0..Forever
    BY <1>1, EmptyRead
  <2>4. /\ {failed', emptied'} \subseteq BOOLEAN /\ dangling' \in BOOLEAN
        /\ it' \in 1..(Len(files') + 1) /\ rpc' = "idle"
    BY <1>1, <1>2
  <2> QED
    BY <2>1, <2>2, <2>3, <2>4 DEF ReadTypeOK
<1>4. Ascending(Read')
  BY <1>1, EmptyRead DEF Read
<1> QED
  BY <1>1, <1>3, <1>4 DEF ReaderInv, AtFile, Active

\* No step of a flush but the listing makes datapoint_files shorter.
LEMMA FilesGrow == ASSUME DirInv, Place, pc # "listing"
                   PROVE  Len(files') >= Len(files)
<1>1. Len(files) \in Nat /\ files \in Seq(Name)
  BY FilesAre DEF DirInv, TypeOK
<1>2. CASE SkipFull \/ SkipOld \/ WriteToFile \/ WriteToNewFile \/ KeepName
  <2>1. files' = files
    BY <1>2 DEF SkipFull, SkipOld, WriteToFile, WriteToNewFile, KeepName
  <2> QED
    BY <1>1, <2>1
<1>3. CASE SetMax \/ SetOptimized
  <2>1. files' = files \/ \E name : files' = [files EXCEPT ![at] = name]
    BY <1>3 DEF SetMax, SetOptimized, Rename
  <2>2. \A name : Len([files EXCEPT ![at] = name]) = Len(files)
    BY <1>1
  <2> QED
    BY <1>1, <2>1, <2>2
<1>4. CASE WriteReturns \/ Move
  <2>1. files' = files \/ files' = Join
    BY <1>4 DEF WriteReturns, Move, Returned
  <2>2. Inside
    BY <1>4 DEF WriteReturns, Move, Inside
  <2>3. Len(Join) \in Len(files)..(Len(files) + 1)
    BY <2>2, JoinIs
  <2> QED
    BY <1>1, <2>1, <2>3
<1>5. CASE List
  BY <1>5 DEF List
<1> QED
  BY <1>2, <1>3, <1>4, <1>5 DEF Place

LEMMA SameReading == ASSUME ReaderInv, UNCHANGED <<next, end, chunk, result>>
                     PROVE  /\ Reading' = Reading /\ Read' = Read
                            /\ Ascending(Read')
BY DEF Reading, Read, ReaderInv, Before, Ascending

LEMMA BatchTypes == ASSUME NEW b \in Batches PROVE b \in Seq(Timestamp)
BY BoundsAssumption DEF Batches

\* The flusher's steps, and those of a client: only the vector may change under the reader.
LEMMA OthersKeep == ASSUME ReadInv, ReaderInv, DirInv',
                           (\E b \in Batches : Arrive(b)) \/ FlushBegins \/ FlushSteps \/ FlushClears
                    PROVE  ReaderInv'
<1>1. /\ UNCHANGED <<rpc, next, end, chunk, it, listing, path, result, asked, failed, reads>>
      /\ pending' \in Seq(Timestamp) /\ dangling' \in BOOLEAN /\ emptied' \in BOOLEAN
  <2>1. pending \in Seq(Timestamp) /\ dangling \in BOOLEAN /\ emptied \in BOOLEAN /\ <<>> \in Seq(Timestamp)
    BY DEF ReaderInv, ReadTypeOK
  <2> QED
    BY <2>1, BatchTypes DEF Arrive, FlushBegins, FlushSteps, FlushClears, reader
<1>2. ReadTypeOK /\ it \in Nat \ {0} /\ (~AtFile => it = 1 /\ ~dangling) /\ (rpc = "idle" => result = <<>> /\ chunk = <<>>)
  BY DEF ReaderInv
<1>3. ~AtFile => ~dangling'
  BY <1>2 DEF Arrive, FlushBegins, FlushSteps, FlushClears, reader, AtFile
<1>4. it \in 1..(Len(files') + 1) \/ dangling'
  <2>1. CASE ~AtFile
    <3>1. it = 1 /\ Len(files') \in Nat
      BY <1>2, <2>1 DEF DirInv, TypeOK
    <3> QED
      BY <3>1
  <2>2. CASE AtFile /\ FlushSteps
    <3>1. dangling' = (dangling \/ pc = "listing" \/ Len(files') > Len(files)) /\ Place
      BY <2>2 DEF FlushSteps, AtFile
    <3>2. ~dangling' => it \in 1..(Len(files) + 1) /\ Len(files') >= Len(files) /\ ~(Len(files') > Len(files))
      <4> SUFFICES ASSUME ~dangling'
                   PROVE  it \in 1..(Len(files) + 1) /\ Len(files') >= Len(files) /\ ~(Len(files') > Len(files))
        OBVIOUS
      <4>1. ~dangling /\ pc # "listing" /\ ~(Len(files') > Len(files))
        BY <3>1
      <4>2. it \in 1..(Len(files) + 1)
        BY <1>2, <4>1 DEF ReadTypeOK
      <4>3. Len(files') >= Len(files)
        BY <3>1, <4>1, FilesGrow DEF ReadInv
      <4> QED
        BY <4>1, <4>2, <4>3
    <3>3. Len(files) \in Nat /\ Len(files') \in Nat
      <4>1. files \in Seq(Name) /\ files' \in Seq(Name)
        BY DEF ReadInv, DirInv, TypeOK
      <4> QED
        BY <4>1
    <3>4. ~dangling' => Len(files') = Len(files)
      BY <3>2, <3>3
    <3> QED
      BY <3>2, <3>4
  <2>3. CASE ~FlushSteps
    <3>1. UNCHANGED <<files, dangling>>
      BY <2>3 DEF Arrive, FlushBegins, FlushClears, FlushReturns, Flush, reader, vars
    <3> QED
      BY <1>2, <3>1 DEF ReadTypeOK
  <2> QED
    BY <2>1, <2>2, <2>3
<1>5. ReadTypeOK'
  BY <1>1, <1>2, <1>4 DEF ReadTypeOK
<1>6. Reading' = Reading /\ Ascending(Read')
  BY <1>1, SameReading
<1> QED
  BY <1>1, <1>2, <1>3, <1>5, <1>6 DEF ReaderInv, AtFile

\* The steps that move the reader and give it no points.
Moves == FindFile \/ ListEnds \/ PassOver \/ Choose \/ FilesDone \/ OpenFails \/ GiveUp

Started(fs) == /\ it' \in 1..(Len(fs) + 1) /\ it' \in Nat \ {0}
               /\ dangling' = FALSE /\ rpc' \in {"stuck", "choosing"}
               /\ rpc' = "stuck" => it' = 1

LEMMA StartIs == ASSUME NEW fs \in Seq(Name), next \in 0..(Forever + 1), Start(fs)
                 PROVE  Started(fs)
<1>1. fs \in Names /\ next \in Int
  BY NameFields, TimestampAssumption
<1>2. FindFirst(fs, next) \in 1..(Len(fs) + 1)
  BY <1>1, FirstIsPlace
<1>3. Len(fs) \in Nat
  OBVIOUS
<1>4. it' = FindFirst(fs, next) /\ dangling' = FALSE /\ rpc' \in {"stuck", "choosing"}
      /\ (rpc' = "stuck" => Spins(fs, next))
  BY DEF Start
<1>5. Spins(fs, next) => FindFirst(fs, next) = 1
  BY DEF FindFirst
<1> QED
  BY <1>2, <1>3, <1>4, <1>5 DEF Started

LEMMA MovesKeep == ASSUME ReadInv, ReaderInv, Moves
                   PROVE  ReaderInv'
<1>1. ReadTypeOK /\ it \in Nat \ {0} /\ (~AtFile => it = 1 /\ ~dangling) /\ (rpc \in Active => Reading) /\ rpc \in Active
  BY DEF ReaderInv, Moves, FindFile, ListEnds, PassOver, Choose, FilesDone, OpenFails, GiveUp, Active
<1>2. /\ UNCHANGED <<pending, next, end, chunk, result, asked, emptied, reads>>
      /\ files' = files \/ files' = listing
      /\ failed' \in BOOLEAN
  <2>1. failed \in BOOLEAN
    BY <1>1 DEF ReadTypeOK
  <2>2. CASE FindFile \/ ListEnds
    BY <2>1, <2>2 DEF FindFile, ListEnds, vars
  <2>3. CASE PassOver \/ Choose \/ FilesDone \/ OpenFails \/ GiveUp
    BY <2>1, <2>3 DEF PassOver, Choose, FilesDone, OpenFails, GiveUp, Unmoved, vars
  <2> QED
    BY <2>2, <2>3 DEF Moves
<1>3. files \in Seq(Name) /\ listing \in Seq(Name) /\ path \in Seq(Name) /\ <<>> \in Seq(Name) /\ Len(files) \in Nat
      /\ next \in 0..(Forever + 1)
  BY <1>1 DEF ReadInv, DirInv, TypeOK, ReadTypeOK
<1>4. listing' \in Seq(Name) /\ path' \in Seq(Name)
  <2>1. CASE FindFile
    <3>1. \A fs \in Listings : fs \in Seq(Name)
      BY ListingIs DEF ReadInv, DirInv, Shapes
    <3> QED
      BY <1>3, <2>1, <3>1 DEF FindFile
  <2>2. CASE Choose
    <3>1. Eligible /\ path' = <<files[it]>> /\ listing' = listing /\ it <= Len(files)
      BY <2>2 DEF Choose, Unmoved, Eligible
    <3>2. files[it] \in Name
      BY <1>1, <1>3, <3>1, ElementOfSeq
    <3> QED
      BY <1>3, <3>1, <3>2
  <2>3. CASE ListEnds \/ PassOver \/ FilesDone \/ OpenFails \/ GiveUp
    BY <1>3, <2>3 DEF ListEnds, PassOver, FilesDone, OpenFails, GiveUp, Unmoved
  <2> QED
    BY <2>1, <2>2, <2>3 DEF Moves
<1>5. /\ it' \in Nat \ {0} /\ dangling' \in BOOLEAN
      /\ it' \in 1..(Len(files') + 1) \/ dangling'
  <2>1. /\ it \in 1..(Len(files) + 1) \/ dangling
        /\ dangling \in BOOLEAN
    BY <1>1 DEF ReadTypeOK
  <2>2. CASE UNCHANGED <<files, it, dangling>>
    BY <1>1, <2>1, <2>2
  <2>3. CASE \E fs \in Seq(Name) : files' = fs /\ Start(fs)
    <3>1. PICK fs \in Seq(Name) : files' = fs /\ Start(fs)
      BY <2>3
    <3>2. Started(fs)
      BY <1>3, <3>1, StartIs
    <3> QED
      BY <3>1, <3>2 DEF Started
  <2>4. CASE it' = 1 /\ dangling' = FALSE /\ files' = files
    <3>1. 1 \in Nat \ {0} /\ 1 \in 1..(Len(files) + 1)
      BY <1>3
    <3> QED
      BY <2>4, <3>1
  <2>5. CASE it <= Len(files) /\ it' = it + 1 /\ UNCHANGED <<files, dangling>>
    <3>1. it + 1 \in Nat \ {0} /\ it + 1 \in 1..(Len(files) + 1)
      BY <1>1, <1>3, <2>5
    <3> QED
      BY <2>1, <2>5, <3>1
  <2> QED
    BY <1>3, <2>2, <2>3, <2>4, <2>5 DEF Moves, FindFile, ListEnds, PassOver, Passed, Choose, Eligible, FilesDone,
                                        OpenFails, GiveUp, Unmoved, vars
<1>5a. rpc' \in {"listing", "choosing", "opening", "scanning", "answering", "returned", "stuck"}
  BY DEF Moves, FindFile, ListEnds, PassOver, Choose, FilesDone, OpenFails, GiveUp, Unmoved, Start
<1>5b. ASSUME rpc' \notin {"choosing", "opening"} PROVE it' = 1 /\ dangling' = FALSE
  <2>1. CASE FindFile \/ ListEnds
    <3>1. CASE \E fs \in Seq(Name) : Start(fs)
      <4>1. PICK fs \in Seq(Name) : Start(fs)
        BY <3>1
      <4>2. Started(fs)
        BY <1>3, <4>1, StartIs
      <4> QED
        BY <1>5b, <4>2 DEF Started
    <3>2. CASE ~(\E fs \in Seq(Name) : Start(fs))
      <4>1. ~Start(files) /\ ~Start(listing)
        BY <1>3, <3>2
      <4>2. rpc = "finding" /\ (UNCHANGED <<it, dangling>> \/ (it' = 1 /\ dangling' = FALSE))
        BY <2>1, <4>1 DEF FindFile, ListEnds
      <4>3. it = 1 /\ ~dangling /\ dangling \in BOOLEAN
        BY <1>1, <4>2 DEF AtFile, ReadTypeOK
      <4> QED
        BY <4>2, <4>3
    <3> QED
      BY <3>1, <3>2
  <2>2. CASE PassOver \/ Choose
    BY <1>5b, <2>2 DEF PassOver, Choose, Unmoved
  <2>3. CASE FilesDone \/ OpenFails \/ GiveUp
    BY <2>3 DEF FilesDone, OpenFails, GiveUp
  <2> QED
    BY <2>1, <2>2, <2>3 DEF Moves
<1>6. ReadTypeOK'
  BY <1>1, <1>2, <1>4, <1>5, <1>5a DEF ReadTypeOK
<1>7. Reading' = Reading /\ Ascending(Read')
  BY <1>2, SameReading
<1> QED
  BY <1>1, <1>5, <1>5a, <1>5b, <1>6, <1>7 DEF ReaderInv, AtFile, Active

LEMMA ReadFileKeeps == ASSUME ReadInv, ReaderInv, ReadFile
                       PROVE  ReaderInv'
<1>1. /\ rpc = "opening" /\ rpc' = "choosing" /\ path[1] \in DOMAIN store /\ path' = <<>>
      /\ Take(InRange(LatestIn(store[path[1]], next)))
      /\ UNCHANGED <<vars, pending, end, it, listing, dangling, result, asked, failed, emptied, reads>>
  BY DEF ReadFile
<1>2. ReadTypeOK /\ it \in Nat \ {0} /\ Reading
  BY <1>1 DEF ReaderInv, Active
<1>3. Apiece(InRange(LatestIn(store[path[1]], next)))
  <2>1. store[path[1]] \in Seq(Point)
    BY <1>1 DEF ReadInv, DirInv, TypeOK
  <2>2. InRange(LatestIn(store[path[1]], next)) \subseteq LatestIn(store[path[1]], next)
    BY DEF InRange
  <2> QED
    BY <2>1, <2>2, LatestApiece, PartApiece
<1>4. Reading'
  <2> DEFINE S == InRange(LatestIn(store[path[1]], next))
  <2>1. Apiece(S) /\ Take(S) /\ (\A p \in S : next <= p.time /\ p.time < end) /\ UNCHANGED <<result, end>>
    BY <1>1, <1>3 DEF InRange
  <2> HIDE DEF S
  <2> QED
    BY <1>2, <2>1, TakeIs
<1>5. files' = files
  BY <1>1 DEF vars
<1>6. ReadTypeOK'
  <2>1. next' \in 0..(Forever + 1) /\ chunk' \in Seq(Point) /\ Len(chunk') <= ReadSpace
    BY <1>4 DEF Reading
  <2>2. path' \in Seq(Name)
    BY <1>1, EmptyRead
  <2> QED
    BY <1>1, <1>2, <1>5, <2>1, <2>2 DEF ReadTypeOK
<1> QED
  BY <1>1, <1>2, <1>4, <1>6 DEF ReaderInv, AtFile, Active, Reading

LEMMA ScanBufferKeeps == ASSUME ReadInv, ReaderInv, ScanBuffer
                         PROVE  ReaderInv'
<1>1. /\ rpc = "scanning" /\ rpc' = "answering"
      /\ UNCHANGED <<vars, pending, end, it, listing, path, dangling, result, asked, failed, emptied, reads>>
  BY DEF ScanBuffer
<1>2. ReadTypeOK /\ it = 1 /\ ~dangling /\ Reading
  BY <1>1 DEF ReaderInv, Active, AtFile
<1> DEFINE S == InRange(Buffered)
<1>3. Apiece(S) /\ \A p \in S : next <= p.time /\ p.time < end
  <2>1. S \subseteq Buffered
    BY DEF InRange
  <2> QED
    BY <2>1, BufferedApiece, PartApiece DEF InRange
<1>4. \/ Take(S)
      \/ Len(chunk) + Cardinality(S) < ReadSpace /\ chunk' = chunk \o InTime(S) /\ next' = end
  BY DEF ScanBuffer
<1> HIDE DEF S
<1>5. Reading'
  <2>1. CASE Take(S)
    BY <1>1, <1>2, <1>3, <2>1, TakeIs
  <2>2. CASE Len(chunk) + Cardinality(S) < ReadSpace /\ chunk' = chunk \o InTime(S) /\ next' = end
    <3> DEFINE ps == InTime(S)
    <3>1. /\ ps \in Seq(Point) /\ Ascending(ps) /\ Len(ps) = Cardinality(S)
          /\ \A i \in 1..Len(ps) : next <= ps[i].time /\ ps[i].time < end
      BY <1>3, InTimeIs
    <3>2. next \in 0..(Forever + 1) /\ end \in 0..Forever /\ next <= end /\ end \in next..end /\ Forever \in Nat
      BY <1>2, TimestampAssumption DEF Reading
    <3>3. Len(chunk) + Len(ps) <= ReadSpace
      <4>1. Len(chunk) \in Nat /\ Len(ps) \in Nat /\ ReadSpace \in Nat
        BY <1>2, <3>1, ReadAssumption DEF Reading
      <4> QED
        BY <2>2, <3>1, <4>1
    <3>4. Before(ps, end)
      BY <3>1 DEF Before
    <3> HIDE DEF ps
    <3>5. /\ chunk \o ps \in Seq(Point) /\ Len(chunk \o ps) <= ReadSpace
          /\ Ascending(result \o (chunk \o ps)) /\ Before(result \o (chunk \o ps), end)
      BY <1>2, <3>1, <3>2, <3>3, <3>4, MoreRead
    <3>6. chunk' = chunk \o ps /\ next' = end /\ end' = end /\ result' = result
      BY <1>1, <2>2 DEF ps
    <3>7. Read' = result \o (chunk \o ps) /\ end \in 0..(Forever + 1) /\ end <= end /\ result \in Seq(Point)
      BY <1>2, <3>2, <3>6 DEF Read, Reading
    <3> QED
      BY <3>2, <3>5, <3>6, <3>7 DEF Reading
  <2> QED
    BY <1>4, <2>1, <2>2
<1>6. files' = files
  BY <1>1 DEF vars
<1>7. ReadTypeOK'
  <2>1. next' \in 0..(Forever + 1) /\ chunk' \in Seq(Point) /\ Len(chunk') <= ReadSpace
    BY <1>5 DEF Reading
  <2> QED
    BY <1>1, <1>2, <1>6, <2>1 DEF ReadTypeOK
<1>8. 1 \in Nat \ {0}
  OBVIOUS
<1> QED
  BY <1>1, <1>2, <1>5, <1>7, <1>8 DEF ReaderInv, AtFile, Active, Reading

\* The callback takes the chunk: the read is the same, divided otherwise.
LEMMA DeliverKeeps == ASSUME ReadInv, ReaderInv, Deliver
                      PROVE  ReaderInv'
<1>1. /\ rpc = "answering" /\ rpc' \in {"returned", "finding"} /\ result' = result \o chunk /\ chunk' = <<>>
      /\ failed' = FALSE /\ it' = 1 /\ dangling' = FALSE
      /\ UNCHANGED <<vars, pending, next, end, listing, path, asked, emptied, reads>>
  BY DEF Deliver
<1>2. ReadTypeOK /\ Reading
  BY <1>1 DEF ReaderInv, Active
<1>3. result' \in Seq(Point) /\ chunk' \in Seq(Point) /\ Len(chunk') <= ReadSpace /\ Read' = Read
  <2>1. result \o chunk \in Seq(Point)
    BY <1>2, ConcatProperties DEF Reading
  <2>2. (result \o chunk) \o <<>> = result \o chunk
    BY <2>1, ConcatEmptySeq
  <2> QED
    BY <1>1, <2>1, <2>2, EmptyRead DEF Read
<1>4. Reading'
  BY <1>1, <1>2, <1>3 DEF Reading
<1>5. files' = files /\ Len(files) \in Nat /\ 1 \in 1..(Len(files) + 1) /\ 1 \in Nat \ {0}
  BY <1>1 DEF vars, ReadInv, DirInv, TypeOK
<1>6. ReadTypeOK'
  BY <1>1, <1>2, <1>3, <1>5 DEF ReadTypeOK
<1> QED
  BY <1>1, <1>4, <1>5, <1>6 DEF ReaderInv, AtFile, Active, Reading

LEMMA BeginReadKeeps == ASSUME ReadInv, ReaderInv, NEW from \in Timestamp, NEW to \in Timestamp \union {Forever},
                               BeginRead(from, to)
                        PROVE  ReaderInv'
<1>1. /\ rpc = "idle" /\ reads < MaxReads /\ reads' = reads + 1 /\ next' = from /\ end' = to
      /\ rpc' = (IF from >= to THEN "returned" ELSE "finding")
      /\ UNCHANGED <<vars, pending, chunk, it, listing, path, dangling, result, failed, emptied>>
  BY DEF BeginRead
<1>2. ReadTypeOK /\ it = 1 /\ ~dangling /\ result = <<>> /\ chunk = <<>>
  BY <1>1 DEF ReaderInv, AtFile
<1>3. from \in 0..Forever /\ to \in 0..Forever /\ from \in 0..(Forever + 1) /\ 1 \in Nat \ {0}
  BY TimestampAssumption
<1>4. reads' \in 0..MaxReads
  BY <1>1, <1>2, ReadAssumption DEF ReadTypeOK
<1>5. asked' \in [disk : SUBSET Point, buffer : SUBSET Point]
  <2>1. Stored \subseteq Point
    <3> SUFFICES ASSUME NEW n \in DOMAIN store PROVE Range(store[n]) \subseteq Point
      BY DEF Stored
    <3>1. store[n] \in Seq(Point)
      BY DEF ReadInv, DirInv, TypeOK
    <3> QED
      BY <3>1, RangeFinite
  <2>2. Buffered \subseteq Point
    BY BufferedApiece DEF Apiece
  <2> DEFINE within(S) == {p \in S : from <= p.time /\ p.time < to}
             seen == {p \in Stored : Visible(p)}
             D == within({p \in seen : \A q \in seen : q.time = p.time => q.flush <= p.flush})
             B == within({p \in Buffered : \A q \in Stored : q.flush < p.flush => q.time < p.time})
  <2>3. asked' = [disk |-> D, buffer |-> B]
    BY DEF BeginRead
  <2>4. D \subseteq Point /\ B \subseteq Point
    BY <2>1, <2>2
  <2> HIDE DEF D, B
  <2> QED
    BY <2>3, <2>4
<1>6. files' = files
  BY <1>1 DEF vars
<1>7. ReadTypeOK'
  BY <1>1, <1>2, <1>3, <1>4, <1>5, <1>6 DEF ReadTypeOK
<1>8. Read' = <<>> /\ Ascending(Read') /\ \A t : Before(<<>>, t)
  BY <1>1, <1>2, EmptyRead DEF Read, Before
<1>9. rpc' # "returned" => Reading'
  <2> SUFFICES ASSUME ~(from >= to) PROVE Reading'
    BY <1>1
  <2>1. from <= to
    BY <1>3
  <2> QED
    BY <1>1, <1>2, <1>3, <1>8, <2>1, EmptyRead DEF Reading
<1> QED
  BY <1>1, <1>2, <1>3, <1>7, <1>8, <1>9 DEF ReaderInv, AtFile, Active

LEMMA ReaderStutters == ASSUME ReaderInv, UNCHANGED allvars
                        PROVE  ReaderInv'
<1>1. UNCHANGED <<files, pending, rpc, next, end, chunk, it, listing, path, dangling, result, asked, failed, emptied,
                  reads>>
  BY DEF allvars, readvars, reader, vars
<1>2. Reading' = Reading /\ Ascending(Read')
  BY <1>1, SameReading
<1>3. ReadTypeOK'
  BY <1>1 DEF ReaderInv, ReadTypeOK
<1> QED
  BY <1>1, <1>2, <1>3 DEF ReaderInv, AtFile

LEMMA ReaderInvStep == ASSUME ReadInv, ReaderInv, DirInv', [ReadNext]_allvars
                       PROVE  ReaderInv'
<1>1. CASE (\E b \in Batches : Arrive(b)) \/ FlushBegins \/ FlushSteps \/ FlushClears
  BY <1>1, OthersKeep
<1>2. CASE \E from \in Timestamp, to \in Timestamp \union {Forever} : BeginRead(from, to)
  BY <1>2, BeginReadKeeps
<1>3. CASE ReadReturns \/ ReadCrash \/ Segfault
  <2>1. /\ Reset /\ reads' = reads
        /\ pending' = pending \/ pending' = <<>>
    BY <1>3 DEF ReadReturns, ReadCrash, Segfault
  <2>2. pending' \in Seq(Timestamp) /\ reads' \in 0..MaxReads
    <3>1. pending \in Seq(Timestamp) /\ reads \in 0..MaxReads /\ <<>> \in Seq(Timestamp)
      BY DEF ReaderInv, ReadTypeOK
    <3> QED
      BY <2>1, <3>1
  <2>3. files' \in Seq(Name)
    BY DEF DirInv, TypeOK
  <2> QED
    BY <2>1, <2>2, <2>3, ResetKeeps
<1>4. CASE Moves
  BY <1>4, MovesKeep
<1>5. CASE UNCHANGED allvars
  BY <1>5, ReaderStutters
<1> QED
  BY <1>1, <1>2, <1>3, <1>4, <1>5, ReadFileKeeps, ScanBufferKeeps, DeliverKeeps DEF ReadNext, Flusher, Reader, Moves

LEMMA ReaderInvInit == ASSUME ReadInit PROVE ReaderInv
<1>1. /\ files = <<>> /\ pending = <<>> /\ reads = 0
      /\ rpc = "idle" /\ next = 0 /\ end = 0 /\ chunk = <<>> /\ it = 1
      /\ listing = <<>> /\ path = <<>>
      /\ dangling = FALSE /\ result = <<>> /\ asked = [disk |-> {}, buffer |-> {}]
      /\ failed = FALSE /\ emptied = FALSE
  BY DEF ReadInit, Init
<1>2. 1 \in Nat \ {0} /\ 1 \in 1..(Len(files) + 1) /\ 0 \in 0..MaxReads /\ <<>> \in Seq(Timestamp)
  BY <1>1, EmptyRead, ReadAssumption
<1>3. ReadTypeOK
  BY <1>1, <1>2, EmptyRead DEF ReadTypeOK
<1>4. Ascending(Read)
  BY <1>1, EmptyRead DEF Read
<1> QED
  BY <1>1, <1>2, <1>3, <1>4 DEF ReaderInv, AtFile, Active

LEMMA ReaderInvariance == ReadSpec => [](ReadInv /\ ReaderInv)
<1>1. ReadInit => ReadInv /\ ReaderInv
  BY ReadInvInit, ReaderInvInit
<1>2. ReadInv /\ ReaderInv /\ [ReadNext]_allvars => ReadInv' /\ ReaderInv'
  <2> SUFFICES ASSUME ReadInv, ReaderInv, [ReadNext]_allvars PROVE ReadInv' /\ ReaderInv'
    OBVIOUS
  <2>1. ReadInv'
    BY ReadInvStep
  <2>2. DirInv'
    BY <2>1 DEF ReadInv
  <2> QED
    BY <2>1, <2>2, ReaderInvStep
<1> QED
  BY <1>1, <1>2, PTL DEF ReadSpec

\* Every field of a read keeps its type while the flusher moves the files under it: the
\* buffer never overflows, and file_it is within datapoint_files or counts as dangling.
THEOREM ReaderTypesHold == ReadSpec => []ReadTypeOK
<1>1. ReaderInv => ReadTypeOK
  BY DEF ReaderInv
<1> QED
  BY <1>1, ReaderInvariance, PTL

\* Whatever the flusher writes, inserts and renames meanwhile and however small the read
\* buffer is: a read gives each timestamp at most once and in order, since next_time only
\* grows, past every point that any file or the buffer has given.
THEOREM ReadsAreInOrder == ReadSpec => []ResultInOrder
<1>1. ReaderInv => ResultInOrder
  BY DEF ReaderInv, Read, Ascending, ResultInOrder
<1> QED
  BY <1>1, ReaderInvariance, PTL

----------------------------------------------------------------------------
(* What a read finds: where a flush puts its points.                         *)

Good == ~filled /\ ~ignored

\* A name only grows, and covers what was written when the file has it.
Grows == /\ pc = "moving" => moving[1].max <= Object.max
         /\ pc \in {"marking", "moving"} => reach <= Object.max

\* A new file is made only before all others.
AtFront == ~filled =>
    /\ pc = "placing" /\ cursor < Len(buf) => at = 1 \/ (at <= Len(files) /\ files[at].min <= NextTime)
    /\ Inside /\ cursor < Len(buf) => NextTime > Limit
    /\ new # <<>> => at = 1

\* The points of a file are between its start and the next one's: crashes or not.
Between == Good =>
    \A n \in DOMAIN store : \A p \in Range(store[n]) :
        n.min <= p.time /\ \A m \in DOMAIN store : n.min < m.min => p.time < m.min

NoneYet == flushes = 0 => pc = "idle" /\ DOMAIN store = {}

\* A step of a rename.
LEMMA RenameDoes ==
    ASSUME DirInv, SetMax \/ SetOptimized
    PROVE  /\ Inside /\ Inside' /\ pc' = "moving" /\ moving'[1] = Object /\ Written = Object /\ Written' = Object
           /\ Object' \in Name /\ Object'.max >= Object.max /\ (pc = "renaming" => Object'.max = reach)
           /\ (new = <<>> <=> new' = <<>>) /\ Len(files') = Len(files)
           /\ \A i \in 1..Len(files) : files'[i].min = files[i].min /\ (i # at => files'[i] = files[i])
           /\ UNCHANGED <<store, known, buf, cursor, at, reach, flushes, flushed, filled, ignored, crashes>>
<1>1. PICK name : /\ Rename(name) /\ name \in Name /\ name.min = Object.min /\ name.max >= Object.max
                  /\ (pc = "renaming" => name.max = reach)
  <2>0. Inside
    BY DEF SetMax, SetOptimized, Inside
  <2>1. Object \in Name /\ Object.max \in 0..Forever /\ reach \in 0..Forever
    BY <2>0, ObjectIs DEF DirInv, TypeOK
  <2>2. CASE SetMax
    <3> DEFINE name == [Object EXCEPT !.max = reach]
    <3>1. name \in Name /\ name.min = Object.min /\ name.max = reach
      BY <2>1 DEF Name
    <3>2. Rename(name) /\ reach > Object.max
      BY <2>2 DEF SetMax
    <3>3. reach >= Object.max
      BY <2>1, <3>2
    <3> HIDE DEF name
    <3> QED
      BY <3>1, <3>2, <3>3
  <2>3. CASE SetOptimized
    <3> DEFINE name == [Object EXCEPT !.opt = TRUE]
    <3>1. name \in Name /\ name.min = Object.min /\ name.max = Object.max
      BY <2>1 DEF Name
    <3>2. Rename(name) /\ pc # "renaming"
      BY <2>3 DEF SetOptimized
    <3>3. Object.max >= Object.max
      BY <2>1
    <3> HIDE DEF name
    <3> QED
      BY <3>1, <3>2, <3>3
  <2> QED
    BY <2>2, <2>3
<1>2. /\ pc \in {"renaming", "marking"} /\ Inside
      /\ UNCHANGED <<store, known, buf, cursor, at, reach, flushes, flushed, filled, ignored, crashes>>
  BY DEF SetMax, SetOptimized, Inside, history
<1>3. /\ pc' = "moving" /\ moving' = <<Object>> /\ Inside' /\ Written = Object /\ moving'[1] = Object /\ Written' = Object
  BY <1>1, <1>2 DEF Rename, Inside, Written
<1>4. /\ files \in Seq(Name) /\ Len(files) \in Nat
      /\ new = <<>> => Object = files[at] /\ at \in 1..Len(files)
  BY <1>2, ObjectIs, FilesAre DEF DirInv, TypeOK
<1>5. CASE new = <<>>
  <2>1. files' = [files EXCEPT ![at] = name] /\ new' = <<>>
    BY <1>1, <1>5 DEF Rename
  <2>2. Len(files') = Len(files) /\ files'[at] = name /\ \A i \in 1..Len(files) : i # at => files'[i] = files[i]
    BY <1>4, <1>5, <2>1
  <2>3. \A i \in 1..Len(files) : files'[i].min = files[i].min
    BY <1>1, <1>4, <1>5, <2>2
  <2>4. Object' = name
    BY <1>2, <2>1, <2>2 DEF Object
  <2> QED
    BY <1>1, <1>2, <1>3, <1>5, <2>1, <2>2, <2>3, <2>4
<1>6. CASE new # <<>>
  <2>1. new' = <<name>> /\ files' = files
    BY <1>1, <1>6 DEF Rename
  <2>2. new' # <<>> /\ new'[1] = name
    BY <2>1
  <2>3. Object' = name
    BY <2>2 DEF Object
  <2> QED
    BY <1>1, <1>2, <1>3, <1>6, <2>1, <2>2, <2>3
<1> QED
  BY <1>5, <1>6

LEMMA GrowsStep == ASSUME DirInv, Grows, [Next]_vars
                   PROVE  Grows'
<1>1. CASE SetMax \/ SetOptimized
  <2>1. /\ pc' = "moving" /\ moving'[1] = Object /\ Object'.max >= Object.max
        /\ (pc = "renaming" => Object'.max = reach) /\ reach' = reach /\ Inside
    BY <1>1, RenameDoes
  <2>2. Object.max \in Int /\ reach \in Int
    BY <2>1, ObjectIs, TimestampAssumption DEF DirInv, TypeOK
  <2>3. pc = "marking" => reach <= Object.max
    BY DEF Grows
  <2>4. pc \in {"renaming", "marking"}
    BY <1>1 DEF SetMax, SetOptimized
  <2>5. Object'.max \in Int
    <3>1. Object' \in Name
      BY <1>1, RenameDoes
    <3> QED
      BY <3>1, NameFields, TimestampAssumption
  <2>6. reach <= Object'.max
    BY <2>1, <2>2, <2>3, <2>4, <2>5
  <2>7. Object.max <= Object'.max
    BY <2>1, <2>2, <2>5
  <2> QED
    BY <2>1, <2>6, <2>7 DEF Grows
<1>2. CASE KeepName
  BY <1>2 DEF KeepName, Grows, Object, writevars
<1>3. CASE Move /\ pc' = "marking"
  <2>1. UNCHANGED <<files, new, at, reach>> /\ pc = "moving"
    BY <1>3 DEF Move, Returned
  <2> QED
    BY <1>3, <2>1 DEF Grows, Object
<1>4. CASE UNCHANGED vars
  BY <1>4 DEF vars, writevars, Grows, Object
<1>5. CASE pc' \notin {"marking", "moving"}
  BY <1>5 DEF Grows
<1> QED
  BY <1>1, <1>2, <1>3, <1>4, <1>5 DEF Next, Step, Place, Flush, List, Search, SkipFull, SkipOld, Placing, WriteToFile,
      WriteToNewFile, Write, WriteReturns, Move, Returned, FlushReturns, Abort, Crash, Lost

\* Where a search of an ordered vector lets a flush begin.
LEMMA SearchFront ==
    ASSUME NEW fs \in Seq(Name), Ordered(fs), NEW t \in 0..Forever
    PROVE  FindFirst(fs, t) = 1 \/ (FindFirst(fs, t) <= Len(fs) /\ fs[FindFirst(fs, t)].min <= t)
<1>1. fs \in Names /\ t \in Int
  BY NameFields, TimestampAssumption
<1>2. Fit(fs, t, FindFirst(fs, t))
  BY <1>1, SearchReturns
<1>3. Len(fs) \in Nat
  OBVIOUS
<1> QED
  BY <1>2, <1>3 DEF Fit

LEMMA AtFrontStep == ASSUME DirInv, AtFront, [Next]_vars
                     PROVE  AtFront'
<1>0. /\ files \in Seq(Name) /\ Len(files) \in Nat /\ at \in Nat \ {0} /\ at \in 1..(Len(files) + 1)
      /\ \A i \in 1..Len(files) : files[i].min \in 0..Forever
  BY FilesAre DEF DirInv, TypeOK
<1>0a. /\ cursor \in Nat /\ Len(buf) \in Nat /\ (cursor < Len(buf) => NextTime \in 0..Forever)
       /\ pc = "listing" => Len(buf) >= 1 /\ buf[1].time \in 0..Forever /\ buf[1].time <= NextTime
  <2>1. cursor \in Nat /\ Len(buf) \in Nat /\ \A i \in 1..Len(buf) : buf[i].time \in 0..Forever
    BY BufIs DEF DirInv
  <2>2. cursor < Len(buf) => NextTime \in 0..Forever
    BY <2>1 DEF NextTime
  <2>3. ASSUME pc = "listing" PROVE Len(buf) >= 1 /\ buf[1].time \in 0..Forever /\ buf[1].time <= NextTime
    <3>1. cursor < Len(buf) /\ 1 \in 1..Len(buf) /\ cursor + 1 \in 1..Len(buf) /\ Ascending(buf)
      BY <2>1, <2>3 DEF DirInv, Shapes
    <3>2. cursor = 0 \/ 1 < cursor + 1
      BY <2>1
    <3> QED
      BY <2>1, <3>1, <3>2 DEF Ascending, NextTime
  <2> QED
    BY <2>1, <2>2, <2>3
<1>1. CASE \E b \in Batches : Flush(b)
  <2>1. PICK b \in Batches : Flush(b)
    BY <1>1
  <2>2. /\ pc = "idle" /\ new' = new /\ files' = files /\ filled' = filled
        /\ IF known THEN Search(files, b[1]) ELSE pc' = "listing"
        /\ buf' = [i \in 1..Len(b) |-> [time |-> b[i], flush |-> flushes']] /\ cursor' = 0
        /\ flushes' \in 1..MaxFlushes
    BY <2>1, BoundsAssumption DEF Flush, DirInv, TypeOK
  <2>3. NextTime' = b[1] /\ b[1] \in 0..Forever
    <3>1. buf'[1].time = b[1] /\ b[1] \in 0..Forever
      BY <2>2, BatchIs
    <3> QED
      BY <2>2, <3>1 DEF NextTime
  <2>4. pc' = "placing" => at' = FindFirst(files, b[1])
    BY <2>2 DEF Search
  <2>5. ~filled => Ordered(files)
    BY DEF DirInv, Sorted
  <2>6. new = <<>> /\ ~Inside'
    BY <2>2 DEF DirInv, Shapes, Inside, Search
  <2>7. ASSUME ~filled, pc' = "placing" PROVE at' = 1 \/ (at' <= Len(files') /\ files'[at'].min <= NextTime')
    BY <1>0, <2>2, <2>3, <2>4, <2>5, <2>7, SearchFront
  <2> QED
    BY <2>2, <2>6, <2>7 DEF AtFront
<1>2. CASE List
  <2>1. PICK fs \in Listings : files' = fs /\ Search(fs, buf[1].time)
    BY <1>2 DEF List
  <2>2. pc = "listing" /\ new' = new /\ filled' = filled /\ buf' = buf /\ cursor' = cursor
    BY <1>2 DEF List
  <2>3. fs \in Seq(Name) /\ Ordered(fs) /\ Len(fs) \in Nat /\ \A i \in 1..Len(fs) : fs[i] \in Name
    <3>1. fs \in Seq(Name) /\ Ordered(fs)
      BY ListingIs DEF DirInv, Shapes
    <3> QED
      BY <3>1, ElementOfSeq
  <2>4. new = <<>> /\ ~Inside' /\ NextTime' = NextTime
    BY <2>1, <2>2 DEF DirInv, Shapes, Inside, Search, NextTime
  <2>5. ASSUME pc' = "placing", cursor < Len(buf) PROVE at' = 1 \/ (at' <= Len(files') /\ files'[at'].min <= NextTime')
    <3>1. at' = FindFirst(fs, buf[1].time)
      BY <2>1 DEF Search
    <3>2. at' = 1 \/ (at' <= Len(fs) /\ fs[at'].min <= buf[1].time)
      BY <1>0a, <2>2, <2>3, <3>1, SearchFront
    <3>3. FindFirst(fs, buf[1].time) \in 1..(Len(fs) + 1)
      <4>1. fs \in Names /\ buf[1].time \in Int
        BY <1>0a, <2>2, <2>3, NameFields, TimestampAssumption
      <4> QED
        BY <4>1, FirstIsPlace
    <3>4. at' <= Len(fs) => fs[at'].min \in Int
      BY <2>3, <3>1, <3>3, NameFields
    <3> QED
      BY <1>0a, <2>1, <2>2, <2>4, <2>5, <3>2, <3>4
  <2> QED
    BY <2>2, <2>4, <2>5 DEF AtFront
<1>3. CASE SkipFull \/ SkipOld
  <2>1. /\ Placing /\ ~AtEnd /\ pc' = pc /\ at' = at + 1 /\ UNCHANGED <<files, buf, cursor, new, filled>>
    BY <1>3 DEF SkipFull, SkipOld, Fits, history
  <2>2. at \in 1..Len(files) /\ NextTime' = NextTime /\ NextTime \in 0..Forever /\ new = <<>> /\ ~Inside'
    BY <1>0, <1>0a, <2>1 DEF AtEnd, NextTime, Placing, DirInv, Shapes, Inside
  <2>3. CASE SkipFull
    <3>1. files[at] \in DOMAIN store /\ Remaining = 0
      BY <2>3 DEF SkipFull, Missing, AtEnd
    <3>2. Len(store[files[at]]) \in Nat
      BY <3>1 DEF DirInv, Shapes
    <3>3. filled
      BY <3>1, <3>2, SizesAssumption DEF Remaining, DirInv, Sorted
    <3> QED
      BY <2>1, <3>3 DEF AtFront
  <2>4. CASE SkipOld
    <3>1. Bound < NextTime
      BY <2>4 DEF SkipOld
    <3>2. at + 1 <= Len(files) /\ files[at + 1].min - 1 < NextTime
      BY <1>0, <2>2, <3>1, TimestampAssumption DEF Bound, BoundUpTo
    <3>3. files[at + 1].min <= NextTime
      <4>1. files[at + 1].min \in Int /\ NextTime \in Int
        BY <1>0, <2>2, <3>2
      <4> QED
        BY <3>2, <4>1
    <3> QED
      BY <2>1, <2>2, <3>2, <3>3 DEF AtFront
  <2> QED
    BY <1>3, <2>3, <2>4
<1>4. CASE WriteToFile \/ WriteToNewFile
  <2>1. PICK n, bound, room : WritesTo(n, bound, room)
    BY <1>4, WritingIs
  <2>2. /\ pc = "placing" /\ pc' = "renaming" /\ Limit' = bound /\ (~filled' /\ cursor' < Len(buf) => NextTime' > bound)
        /\ (filled => filled') /\ cursor < Len(buf) /\ NextTime \in 0..Forever
        /\ ToThisFile(n, bound, room) => new' = <<>>
    BY <2>1, WriteGives
  <2>3. buf' = buf /\ at' = at
    BY <2>1 DEF WritesTo
  <2>4. ASSUME ~filled, new' # <<>> PROVE at = 1
    <3>1. ToNewFile(n, bound, room)
      BY <2>1, <2>2, <2>4 DEF WritesTo
    <3>2. at <= Len(files) => NextTime < files[at].min
      BY <1>0, <3>1 DEF ToNewFile
    <3>3. at = 1 \/ (at <= Len(files) /\ files[at].min <= NextTime)
      BY <2>2, <2>4 DEF AtFront
    <3>4. at <= Len(files) => files[at].min \in Int /\ NextTime \in Int
      BY <1>0, <2>2
    <3> QED
      BY <3>2, <3>3, <3>4
  <2> QED
    BY <2>2, <2>3, <2>4 DEF AtFront
<1>5. CASE SetMax \/ SetOptimized
  <2>1. /\ Inside /\ pc' = "moving" /\ (new = <<>> <=> new' = <<>>) /\ Len(files') = Len(files)
        /\ \A i \in 1..Len(files) : files'[i].min = files[i].min
        /\ UNCHANGED <<buf, cursor, at, filled>>
    BY <1>5, RenameDoes
  <2>2. NextTime' = NextTime
    BY <2>1 DEF NextTime
  <2>3. Limit' = Limit
    <3>1. ASSUME NEW i \in Nat \ {0} PROVE (IF i > Len(files') THEN Forever ELSE files'[i].min - 1) = BoundUpTo(i)
      BY <1>0, <2>1 DEF BoundUpTo
    <3>2. at + 1 \in Nat \ {0}
      BY <1>0
    <3> QED
      BY <1>0, <2>1, <3>1, <3>2 DEF Limit, BoundUpTo
  <2> QED
    BY <2>1, <2>2, <2>3 DEF AtFront
<1>6. CASE (WriteReturns \/ Move) /\ Returned
  <2>1. Inside /\ UNCHANGED <<buf, cursor, filled>>
    BY <1>6 DEF WriteReturns, Move, Inside, history
  <2>2. pc' = "placing" /\ files' = Join /\ new' = <<>> /\ at' = at + 1 /\ ~Inside'
    BY <1>6 DEF Returned, Inside
  <2>3. ASSUME ~filled, cursor < Len(buf) PROVE at + 1 <= Len(Join) /\ Join[at + 1].min <= NextTime
    <3>1. NextTime > Limit /\ NextTime \in 0..Forever
      BY <1>0a, <2>1, <2>3 DEF AtFront
    <3>2. /\ new = <<>> => Len(Join) = Len(files)
          /\ new # <<>> => Len(Join) = Len(files) + 1
          /\ at + 1 <= Len(Join) => Join[at + 1] = IF new = <<>> THEN files[at + 1] ELSE files[at]
      <4>1. /\ new = <<>> => Len(Join) = Len(files)
            /\ new # <<>> => Len(Join) = Len(files) + 1
            /\ \A i \in 1..Len(Join) : Join[i] = IF i < at THEN files[i]
                                                 ELSE IF i = at THEN Object
                                                 ELSE IF new = <<>> THEN files[i] ELSE files[i - 1]
        BY <2>1, JoinIs
      <4>2. at + 1 <= Len(Join) => at + 1 \in 1..Len(Join)
        BY <1>0, <4>1
      <4> QED
        BY <1>0, <4>1, <4>2
    <3>3. CASE new = <<>>
      <4>1. at + 1 <= Len(files) /\ files[at + 1].min - 1 < NextTime
        BY <1>0, <3>1, <3>3, TimestampAssumption DEF Limit, BoundUpTo
      <4>2. files[at + 1].min \in Int
        BY <1>0, <4>1
      <4> QED
        BY <3>1, <3>2, <3>3, <4>1, <4>2
    <3>4. CASE new # <<>>
      <4>1. at <= Len(files) /\ files[at].min - 1 < NextTime
        BY <1>0, <3>1, <3>4, TimestampAssumption DEF Limit, BoundUpTo
      <4>2. files[at].min \in Int /\ at + 1 <= Len(files) + 1
        BY <1>0, <4>1
      <4> QED
        BY <3>1, <3>2, <3>4, <4>1, <4>2
    <3> QED
      BY <3>3, <3>4
  <2>4. NextTime' = NextTime
    BY <2>1 DEF NextTime
  <2> QED
    BY <2>1, <2>2, <2>3, <2>4 DEF AtFront
<1>7. CASE KeepName \/ (Move /\ ~Returned) \/ UNCHANGED vars
  <2>1. /\ UNCHANGED <<files, buf, cursor, at, new, filled>>
        /\ (pc' = pc \/ (Inside /\ pc' = "marking"))
    BY <1>7 DEF KeepName, Move, vars, writevars, history, Inside
  <2>2. UNCHANGED <<NextTime, Limit>> /\ (Inside' => Inside) /\ (pc' = "placing" => pc = "placing")
    BY <2>1 DEF NextTime, Limit, BoundUpTo, Inside
  <2> QED
    BY <2>1, <2>2 DEF AtFront
<1>8. CASE FlushReturns \/ Abort \/ Crash
  <2>1. pc' = "idle" /\ (new' = new \/ new' = <<>>) /\ ~Inside'
    BY <1>8 DEF FlushReturns, Abort, Crash, Lost, Inside
  <2>2. FlushReturns => new = <<>> /\ new' = new
    BY DEF FlushReturns, DirInv, Shapes, Inside
  <2>3. new' = <<>>
    BY <1>8, <2>2 DEF Abort, Crash, Lost
  <2> QED
    BY <2>1, <2>3 DEF AtFront
<1> QED
  BY <1>1, <1>2, <1>3, <1>4, <1>5, <1>6, <1>7, <1>8 DEF Next, Step, Place, WriteReturns

\* Steps that write nothing leave every file's points and start.
LEMMA StoreSame == ASSUME DirInv, [Next]_vars, ~(WriteToFile \/ WriteToNewFile)
                   PROVE  \A n \in DOMAIN store' : \E m \in DOMAIN store : m.min = n.min /\ store'[n] = store[m]
<1>1. CASE Move
  <2> TAKE n \in DOMAIN store'
  <2>1. CASE n = Object
    <3>1. moving[1] \in DOMAIN store /\ moving[1].min = Object.min /\ store'[Object] = store[moving[1]]
      BY <1>1, MoveDoes
    <3> QED
      BY <2>1, <3>1
  <2>2. CASE n # Object
    <3>1. n \in DOMAIN store /\ store'[n] = store[n]
      BY <1>1, <2>2, MoveDoes
    <3> QED
      BY <3>1
  <2> QED
    BY <2>1, <2>2
<1>2. CASE UNCHANGED store
  BY <1>2
<1> QED
  BY <1>1, <1>2 DEF Next, Step, Place, Flush, List, SkipFull, SkipOld, SetMax, KeepName, SetOptimized,
                    WriteReturns, FlushReturns, Abort, Crash, vars

\* What a write adds, and where.
Added(n, bound) ==
    /\ n.min \in 0..Forever /\ n \in Name
    /\ DOMAIN store' = DOMAIN store \union {n}
    /\ \A m \in DOMAIN store' : m # n => m \in DOMAIN store /\ store'[m] = store[m]
    /\ Range(store'[n]) = Range(Contents(n)) \union Batch
    /\ \A p \in Batch : n.min <= p.time /\ p.time <= bound
    /\ Batch \subseteq Point /\ pc = "placing" /\ new = <<>> /\ known /\ NextTime \in 0..Forever
    /\ at \in Nat \ {0} /\ at \in 1..(Len(files) + 1) /\ Len(files) \in Nat /\ cursor < Len(buf)

LEMMA WriteAdds == ASSUME DirInv, NEW n, NEW bound, NEW room, WritesTo(n, bound, room)
                   PROVE  Added(n, bound)
<1>1. n.min \in 0..Forever /\ n \in Name /\ DOMAIN store' = DOMAIN store \union {n}
  BY WriteGives
<1>2. \A m \in DOMAIN store' : m # n => m \in DOMAIN store /\ store'[m] = store[m]
  BY WriteGives
<1>3. Range(store'[n]) = Range(Contents(n)) \union Batch
  BY WriteGives
<1>4. /\ \A p \in Batch : n.min <= p.time /\ p.time <= bound
      /\ Batch \subseteq Point /\ pc = "placing" /\ new = <<>> /\ known /\ NextTime \in 0..Forever
      /\ at \in Nat \ {0} /\ at \in 1..(Len(files) + 1) /\ Len(files) \in Nat /\ cursor < Len(buf)
  BY WriteGives
<1> QED
  BY <1>1, <1>2, <1>3, <1>4 DEF Added

\* A new file is made before all others.
LEMMA NewIsFirst ==
    ASSUME DirInv, AtFront, Good, NEW f, NEW bound, NEW room, WritesTo(f, bound, room), ToNewFile(f, bound, room)
    PROVE  /\ f.min = NextTime /\ at = 1 /\ f \notin DOMAIN store
           /\ \A m \in DOMAIN store : f.min < m.min /\ bound < m.min
<1>1. /\ f.min \in 0..Forever /\ pc = "placing" /\ new = <<>> /\ known /\ NextTime \in 0..Forever
      /\ at \in Nat \ {0} /\ at \in 1..(Len(files) + 1) /\ Len(files) \in Nat /\ cursor < Len(buf)
  BY WriteAdds DEF Added
<1>2. /\ \A i \in 1..Len(files) : files[i].min \in 0..Forever
      /\ \A i, j \in 1..Len(files) : i < j => files[i].min < files[j].min
      /\ \A m \in DOMAIN store : \E i \in 1..Len(files) : m = files[i]
  <2>1. \A i \in 1..Len(files) : OnDisk(i) = files[i]
    BY <1>1 DEF OnDisk
  <2> QED
    BY <1>1, <2>1, FilesAre DEF DirInv, Distinct, Good
<1>3. f.min = NextTime /\ bound = BoundUpTo(at) /\ (at <= Len(files) => NextTime < files[at].min)
  BY <1>1 DEF ToNewFile
<1>4. at = 1
  <2>1. at = 1 \/ (at <= Len(files) /\ files[at].min <= NextTime)
    BY <1>1 DEF AtFront, Good
  <2>2. at <= Len(files) => files[at].min \in 0..Forever
    BY <1>1, <1>2
  <2> QED
    BY <1>1, <1>3, <2>1, <2>2, TimestampAssumption
<1>5. \A m \in DOMAIN store : f.min < m.min /\ bound < m.min
  <2> TAKE m \in DOMAIN store
  <2>1. PICK i \in 1..Len(files) : m = files[i]
    BY <1>2
  <2>2. 1 \in 1..Len(files) /\ (1 = i \/ 1 < i) /\ ~(1 > Len(files))
    BY <1>1, <2>1
  <2>3. files[1].min <= m.min /\ files[1].min \in 0..Forever /\ m.min \in 0..Forever
    BY <1>2, <2>1, <2>2
  <2>4. NextTime < files[1].min /\ bound = files[1].min - 1
    BY <1>3, <1>4, <2>2 DEF BoundUpTo
  <2> QED
    BY <1>1, <1>3, <2>3, <2>4, TimestampAssumption, SMTT(30)
<1>6. f \notin DOMAIN store
  <2>1. f.min \in Int
    BY <1>1, TimestampAssumption
  <2> QED
    BY <1>5, <2>1
<1> QED
  BY <1>3, <1>4, <1>5, <1>6

LEMMA BetweenStep == ASSUME DirInv, DirInv', AtFront, Between, [Next]_vars
                     PROVE  Between'
<1> SUFFICES ASSUME ~filled', ~ignored',
                    NEW n \in DOMAIN store', NEW p \in Range(store'[n])
             PROVE  n.min <= p.time /\ \A m \in DOMAIN store' : n.min < m.min => p.time < m.min
  BY DEF Between, Good
<1>1. ~filled /\ ~ignored
  BY Monotone
<1>2. \A k \in DOMAIN store : \A q \in Range(store[k]) :
          k.min <= q.time /\ \A m \in DOMAIN store : k.min < m.min => q.time < m.min
  BY <1>1 DEF Between, Good
<1>3. CASE ~(WriteToFile \/ WriteToNewFile)
  <2>1. \A k \in DOMAIN store' : \E m \in DOMAIN store : m.min = k.min /\ store'[k] = store[m]
    BY <1>3, StoreSame
  <2>2. PICK k \in DOMAIN store : k.min = n.min /\ store'[n] = store[k]
    BY <2>1
  <2>3. n.min <= p.time
    BY <1>2, <2>2
  <2>4. ASSUME NEW m \in DOMAIN store', n.min < m.min PROVE p.time < m.min
    BY <1>2, <2>1, <2>2, <2>4
  <2> QED
    BY <2>3, <2>4
<1>4. CASE WriteToFile \/ WriteToNewFile
  <2>1. PICK f, bound, room : WritesTo(f, bound, room)
    BY <1>4, WritingIs
  <2>2. /\ f.min \in 0..Forever /\ f \in Name
        /\ DOMAIN store' = DOMAIN store \union {f}
        /\ \A m \in DOMAIN store' : m # f => m \in DOMAIN store /\ store'[m] = store[m]
        /\ Range(store'[f]) = Range(Contents(f)) \union Batch
        /\ \A q \in Batch : f.min <= q.time /\ q.time <= bound
        /\ Batch \subseteq Point /\ pc = "placing" /\ new = <<>> /\ known /\ NextTime \in 0..Forever
        /\ at \in Nat \ {0} /\ at \in 1..(Len(files) + 1) /\ Len(files) \in Nat /\ cursor < Len(buf)
    BY <2>1, WriteAdds DEF Added
  <2>3. /\ \A i \in 1..Len(files) : files[i] \in Name /\ files[i].min \in 0..Forever
        /\ \A i, j \in 1..Len(files) : i < j => files[i].min < files[j].min
        /\ \A m \in DOMAIN store : \E i \in 1..Len(files) : m = files[i]
    <3>1. \A i \in 1..Len(files) : OnDisk(i) = files[i]
      BY <2>2 DEF OnDisk
    <3> QED
      BY <1>1, <2>2, <3>1, FilesAre DEF DirInv, Distinct
  <2>4. \A m \in DOMAIN store' : m.min \in 0..Forever
    BY <2>2, <2>3
  <2>5. bound \in Int /\ (ToThisFile(f, bound, room) \/ ToNewFile(f, bound, room))
    BY <2>1 DEF WritesTo
  <2>6. CASE ToThisFile(f, bound, room)
    <3>1. f = files[at] /\ at \in 1..Len(files) /\ f \in DOMAIN store /\ bound = BoundUpTo(at + 1) /\ DOMAIN store' = DOMAIN store
      <4>1. f = files[at] /\ at <= Len(files) /\ f \in DOMAIN store /\ bound = BoundUpTo(at + 1)
        BY <2>6 DEF ToThisFile
      <4>2. DOMAIN store' = DOMAIN store
        BY <2>2, <4>1
      <4>3. at \in 1..Len(files)
        BY <2>2, <4>1
      <4> QED
        BY <4>1, <4>2, <4>3
    <3>2. CASE n = f /\ p \in Batch
      <4>1. ASSUME NEW m \in DOMAIN store', f.min < m.min PROVE p.time < m.min
        <5>1. PICK i \in 1..Len(files) : m = files[i]
          BY <2>3, <3>1
        <5>2. at < i
          <6>1. at = i \/ i < at \/ at < i
            BY <2>2
          <6> QED
            BY <2>2, <2>3, <2>4, <3>1, <4>1, <5>1, <6>1
        <5>3. at + 1 \in 1..Len(files) /\ (at + 1 = i \/ at + 1 < i)
          BY <2>2, <5>1, <5>2
        <5>4. files[at + 1].min \in 0..Forever /\ m.min \in 0..Forever /\ files[at + 1].min <= m.min
          BY <2>3, <5>1, <5>3
        <5>5. bound = files[at + 1].min - 1
          BY <2>2, <3>1, <5>3 DEF BoundUpTo
        <5>6. p.time <= bound /\ p.time \in 0..Forever
          BY <2>2, <3>2, PointFields
        <5> QED
          BY <5>4, <5>5, <5>6, TimestampAssumption
      <4> QED
        BY <2>2, <3>2, <4>1
    <3>3. CASE ~(n = f /\ p \in Batch)
      <4>1. n \in DOMAIN store /\ p \in Range(store[n])
        BY <2>2, <3>1, <3>3 DEF Contents
      <4> QED
        BY <1>2, <3>1, <4>1
    <3> QED
      BY <3>2, <3>3
  <2>7. CASE ToNewFile(f, bound, room)
    <3>1. Good
      BY <1>1 DEF Good
    <3>2. f \notin DOMAIN store
      BY <2>1, <2>7, <3>1, NewIsFirst
    <3>3. \A m \in DOMAIN store : f.min < m.min /\ bound < m.min
      BY <2>1, <2>7, <3>1, NewIsFirst
    <3>5. Range(store'[f]) = Batch
      BY <2>2, <3>2 DEF Contents, Range
    <3>6. CASE n = f
      <4>1. p \in Batch /\ p.time \in Int /\ bound \in Int
        BY <2>2, <2>5, <3>5, <3>6, PointFields, TimestampAssumption
      <4>2. ASSUME NEW m \in DOMAIN store', n.min < m.min PROVE p.time < m.min
        <5>1. m \in DOMAIN store /\ m.min \in Int
          BY <2>2, <2>4, <3>6, <4>2, TimestampAssumption
        <5> QED
          BY <2>2, <3>3, <4>1, <5>1
      <4> QED
        BY <2>2, <3>6, <4>1, <4>2
    <3>7. CASE n # f
      <4>1. n \in DOMAIN store /\ store'[n] = store[n] /\ f.min < n.min
        BY <2>2, <3>3, <3>7
      <4>2. ASSUME NEW m \in DOMAIN store', n.min < m.min PROVE p.time < m.min
        <5>1. m # f
          BY <2>4, <4>1, <4>2
        <5> QED
          BY <1>2, <2>2, <4>1, <4>2, <5>1
      <4> QED
        BY <1>2, <4>1, <4>2
    <3> QED
      BY <3>6, <3>7
  <2> QED
    BY <2>5, <2>6, <2>7
<1> QED
  BY <1>3, <1>4

LEMMA NoneYetStep == ASSUME DirInv, NoneYet, [Next]_vars
                     PROVE  NoneYet'
<1>1. flushes \in Nat
  BY DEF DirInv, TypeOK
<1>2. CASE \E b \in Batches : Flush(b)
  <2>1. flushes' = flushes + 1
    BY <1>2 DEF Flush
  <2> QED
    BY <1>1, <2>1 DEF NoneYet
<1>3. CASE Place \/ FlushReturns \/ Abort
  <2>1. pc # "idle" /\ flushes' = flushes
    BY <1>3 DEF Place, List, SkipFull, SkipOld, Placing, WriteToFile, WriteToNewFile, SetMax, KeepName, SetOptimized,
                WriteReturns, Move, FlushReturns, Abort, history
  <2> QED
    BY <2>1 DEF NoneYet
<1>4. CASE Crash
  BY <1>4 DEF Crash, Lost, NoneYet
<1>5. CASE UNCHANGED vars
  BY <1>5 DEF vars, history, NoneYet
<1> QED
  BY <1>2, <1>3, <1>4, <1>5 DEF Next, Step

Unlisted == ~known => files = <<>>
FlushInv == Grows /\ AtFront /\ Between /\ NoneYet /\ Unlisted

LEMMA FlushInvDoes == ASSUME DirInv, DirInv', FlushInv, [Next]_vars
                      PROVE  FlushInv'
<1>1. Grows' /\ AtFront' /\ Between' /\ NoneYet'
  BY GrowsStep, AtFrontStep, BetweenStep, NoneYetStep DEF FlushInv
<1>2. Unlisted'
  <2>1. CASE known' = FALSE /\ Lost
    BY <2>1 DEF Lost, Unlisted
  <2>2. CASE known'
    BY <2>2 DEF Unlisted
  <2>3. CASE UNCHANGED <<known, files>>
    BY <2>3 DEF Unlisted, FlushInv
  <2>4. CASE SetMax \/ SetOptimized \/ WriteReturns \/ Move
    <3>1. Inside /\ known' = known
      BY <2>4 DEF SetMax, SetOptimized, WriteReturns, Move, Inside
    <3>2. known
      BY <3>1 DEF DirInv, Shapes, Inside
    <3> QED
      BY <3>1, <3>2 DEF Unlisted
  <2> QED
    BY <2>1, <2>2, <2>3, <2>4 DEF Next, Step, Place, Flush, List, SkipFull, SkipOld, WriteToFile, WriteToNewFile, KeepName,
                                FlushReturns, Abort, Crash, Lost, vars
<1> QED
  BY <1>1, <1>2 DEF FlushInv

\* A listing put in place, or a process that ends, leaves the files as they are.
LEMMA FlushInvRests ==
    ASSUME DirInv, FlushInv, ListEnds \/ Segfault
    PROVE  FlushInv'
<1>1. /\ store' = store /\ flushes' = flushes /\ filled' = filled /\ (ignored => ignored')
      /\ pc' = pc \/ pc' = "idle"
      /\ pc' \in {"idle", "listing", "spinning"}
  BY DEF ListEnds, Segfault, Lost, FlushInside, DirInv, TypeOK
<1>2. new' = <<>>
  <2>1. CASE ListEnds
    <3>1. new' = new /\ ~Inside
      BY <2>1 DEF ListEnds, writevars, FlushInside, Inside
    <3> QED
      BY <3>1 DEF DirInv, Shapes
  <2> QED
    BY <2>1 DEF Segfault, Lost
<1>3. Grows' /\ AtFront' /\ NoneYet'
  BY <1>1, <1>2 DEF Grows, AtFront, NoneYet, FlushInv, Inside
<1>4. Between'
  BY <1>1 DEF Between, Good, FlushInv
<1>5. Unlisted'
  BY DEF ListEnds, Segfault, Lost, Unlisted
<1> QED
  BY <1>3, <1>4, <1>5 DEF FlushInv

\* A step of a read is a step of the directory, or none, but for these two.
LEMMA NextOrRests == ASSUME ReadInv, [ReadNext]_allvars
                     PROVE  [Next]_vars \/ ListEnds \/ Segfault
<1>1. FlushBegins => [Next]_vars
  <2> SUFFICES ASSUME FlushBegins PROVE \E b \in Batches : Flush(b)
    BY DEF Next
  <2> QED
    BY DEF FlushBegins, ReadInv, Pended
<1>2. FlushSteps \/ FlushClears \/ ReadCrash => [Next]_vars
  BY DEF FlushSteps, FlushClears, ReadCrash, Next, Step
<1>3. (\E b \in Batches : Arrive(b)) \/ (\E from \in Timestamp, to \in Timestamp \union {Forever} : BeginRead(from, to))
         \/ UNCHANGED allvars => [Next]_vars
  BY DEF Arrive, BeginRead, allvars
<1>4. FindFile \/ PassOver \/ Choose \/ FilesDone \/ ReadFile \/ OpenFails \/ ScanBuffer \/ Deliver \/ GiveUp
         \/ ReadReturns => [Next]_vars
  BY DEF FindFile, PassOver, Choose, FilesDone, ReadFile, OpenFails, ScanBuffer, Deliver, GiveUp, ReadReturns, Unmoved
<1> QED
  BY <1>1, <1>2, <1>3, <1>4 DEF ReadNext, Flusher, Reader

LEMMA FlushInvStep == ASSUME ReadInv, ReadInv', FlushInv, [ReadNext]_allvars
                      PROVE  FlushInv'
<1>1. CASE ListEnds \/ Segfault
  BY <1>1, FlushInvRests DEF ReadInv
<1>2. CASE [Next]_vars
  BY <1>2, FlushInvDoes DEF ReadInv
<1> QED
  BY <1>1, <1>2, NextOrRests

LEMMA FlushInvInit == ASSUME ReadInit PROVE FlushInv
<1>1. Init /\ pc = "idle" /\ new = <<>> /\ store = [n \in {} |-> <<>>] /\ files = <<>>
  BY DEF ReadInit, Init
<1>2. DOMAIN store = {}
  BY <1>1
<1> QED
  BY <1>1, <1>2 DEF FlushInv, Grows, AtFront, Between, NoneYet, Unlisted, Inside

Rising(fs) == \A i, j \in 1..Len(fs) : i < j => fs[i].min < fs[j].min

\* A vector that gains files keeps the others in their places or moves them up.
LEMMA MovedUp ==
    ASSUME NEW fs \in Seq(Name), NEW gs \in Seq(Name), Rising(fs), Rising(gs),
           \A i \in 1..Len(fs) : \E j \in 1..Len(gs) : gs[j].min = fs[i].min
    PROVE  \A i \in 1..Len(fs) : \E j \in i..Len(gs) : gs[j].min = fs[i].min
<1> DEFINE I == {n \in Nat : n = 0 \/ n > Len(fs) \/ \E j \in n..Len(gs) : gs[j].min = fs[n].min}
<1>0. Len(fs) \in Nat /\ Len(gs) \in Nat
  OBVIOUS
<1>1. 0 \in I
  OBVIOUS
<1>2. \A n \in Nat : n \in I => n + 1 \in I
  <2> SUFFICES ASSUME NEW n \in Nat, n \in I, n + 1 <= Len(fs) PROVE \E j \in (n + 1)..Len(gs) : gs[j].min = fs[n + 1].min
    BY <1>0
  <2>1. n + 1 \in 1..Len(fs)
    BY <1>0
  <2>2. PICK k \in 1..Len(gs) : gs[k].min = fs[n + 1].min
    BY <2>1
  <2>3. CASE n = 0
    BY <2>2, <2>3
  <2>4. CASE n > 0
    <3>1. n \in 1..Len(fs) /\ n < n + 1
      BY <1>0, <2>1, <2>4
    <3>2. PICK j \in n..Len(gs) : gs[j].min = fs[n].min
      BY <1>0, <3>1
    <3>3. fs[n].min < fs[n + 1].min
      BY <2>1, <3>1 DEF Rising
    <3>4. j \in 1..Len(gs) /\ gs[j].min < gs[k].min /\ gs[j].min \in Int /\ gs[k].min \in Int
      BY <1>0, <2>2, <2>4, <3>2, <3>3, NameFields
    <3>5. ~(k < j) /\ k # j
      <4>1. k < j => gs[k].min < gs[j].min
        BY <3>4 DEF Rising
      <4> QED
        BY <3>4, <4>1
    <3> QED
      BY <1>0, <2>2, <3>2, <3>4, <3>5
  <2> QED
    BY <2>3, <2>4
<1> HIDE DEF I
<1>3. I = Nat
  <2>1. I \subseteq Nat
    BY DEF I
  <2> QED
    BY <1>1, <1>2, <2>1, Induction
<1> SUFFICES ASSUME NEW i \in 1..Len(fs) PROVE \E j \in i..Len(gs) : gs[j].min = fs[i].min
  OBVIOUS
<1>4. i \in Nat /\ i # 0 /\ ~(i > Len(fs))
  BY <1>0
<1>5. i \in I
  BY <1>3, <1>4
<1> QED
  BY <1>4, <1>5 DEF I

\* A search never goes past the file with the points looked for.
LEMMA StartBefore ==
    ASSUME NEW fs \in Seq(Name), Rising(fs), NEW t \in 0..(Forever + 1), NEW i \in 1..Len(fs), NEW u \in Int, t <= u,
           \A j \in 1..Len(fs) : fs[i].min < fs[j].min => u < fs[j].min
    PROVE  FindFirst(fs, t) <= i
<1>1. fs \in Names /\ t \in Int /\ Len(fs) \in Nat /\ \A j \in 1..Len(fs) : fs[j].min \in Int
  BY NameFields, TimestampAssumption
<1>2. Ordered(fs)
  BY <1>1, SMTT(30) DEF Ordered, Rising
<1>3. Fit(fs, t, FindFirst(fs, t)) /\ FindFirst(fs, t) \in 1..(Len(fs) + 1)
  BY <1>1, <1>2, SearchReturns, FirstIsPlace
<1> DEFINE f == FindFirst(fs, t)
<1> HIDE DEF f
<1>4. SUFFICES ASSUME i < f PROVE FALSE
  BY <1>1, <1>3 DEF f
<1>5. f \in 1..Len(fs) /\ fs[f].min <= t
  BY <1>1, <1>3, <1>4 DEF Fit, f
<1>6. fs[i].min < fs[f].min
  BY <1>4, <1>5 DEF Rising
<1>7. u < fs[f].min /\ fs[f].min \in Int
  BY <1>1, <1>5, <1>6
<1> QED
  BY <1>1, <1>5, <1>7

\* Where a read may find a point that is in a file.
Home(p, n) == n \in DOMAIN store /\ p \in Range(store[n]) /\ p.time <= n.max /\ ~(new # <<>> /\ n = Written)

LEMMA GoodIs == ASSUME DirInv, Good
                PROVE  /\ Rising(files) /\ files \in Seq(Name) /\ Len(files) \in Nat
                       /\ \A m, n \in DOMAIN store : m.min = n.min => m = n
                       /\ \A n \in DOMAIN store : n \in Name /\ n.min \in Int /\ n.max \in Int /\ store[n] \in Seq(Point)
                                                  /\ \A p \in Range(store[n]) : p \in Point /\ p.time \in Int
                       /\ \A i \in 1..Len(files) : files[i] \in Name /\ files[i].min \in Int /\ files[i].max \in Int
<1>1. /\ files \in Seq(Name) /\ Len(files) \in Nat /\ \A i \in 1..Len(files) : files[i] \in Name
      /\ \A n \in DOMAIN store : n \in Name /\ store[n] \in Seq(Point)
  BY FilesAre DEF DirInv, TypeOK
<1>2. ASSUME NEW n \in DOMAIN store, NEW p \in Range(store[n]) PROVE p \in Point /\ p.time \in Int
  BY <1>1, RangeFinite, PointFields
<1>3. Rising(files) /\ \A m, n \in DOMAIN store : m.min = n.min => m = n
  BY DEF DirInv, Distinct, Good, Rising
<1> QED
  BY <1>1, <1>2, <1>3, NameFields

\* The i-th object's name and the one it has on disk begin at the same time.
LEMMA OnDiskIs == ASSUME DirInv, Grows, NEW i \in 1..Len(files)
                  PROVE  OnDisk(i).min = files[i].min /\ OnDisk(i).max <= files[i].max
<1>1. files[i] \in Name /\ files[i].max \in Int
  BY FilesAre DEF DirInv
<1>2. CASE pc = "moving" /\ new = <<>> /\ i = at
  <2>1. OnDisk(i) = moving[1] /\ Object = files[i]
    BY <1>2 DEF OnDisk, Object
  <2>2. moving[1].min = Object.min
    BY <1>2 DEF DirInv, Kept, Inside, Written
  <2> QED
    BY <1>2, <2>1, <2>2 DEF Grows
<1> QED
  BY <1>1, <1>2 DEF OnDisk

\* Steps that leave the directory and the new file's name alone.
LEMMA HomeSame == ASSUME NEW p, NEW n, Home(p, n), store' = store, new' = new \/ new' = <<>>,
                         new' # <<>> => Written' = Written
                  PROVE  Home(p, n)'
BY DEF Home

LEMMA HomeWrite == ASSUME DirInv, Good, NEW p, NEW n, Home(p, n), WriteToFile \/ WriteToNewFile
                   PROVE  Home(p, n)'
<1>1. PICK f, bound, room : WritesTo(f, bound, room)
  BY WritingIs
<1>2. /\ pc = "placing" /\ new = <<>> /\ known /\ cursor < Len(buf) /\ NextTime \in 0..Forever /\ Written' = f
      /\ DOMAIN store' = DOMAIN store \union {f}
      /\ \A m \in DOMAIN store' : m # f => m \in DOMAIN store /\ store'[m] = store[m]
      /\ Range(store'[f]) = Range(Contents(f)) \union Batch
      /\ ToThisFile(f, bound, room) => new' = <<>>
      /\ at \in Nat \ {0} /\ at \in 1..(Len(files) + 1) /\ Len(files) \in Nat
  BY <1>1, WriteGives, ZenonT(30)
<1>3. n \in DOMAIN store' /\ p \in Range(store'[n])
  BY <1>2 DEF Home, Contents
<1>4. ASSUME new' # <<>> PROVE n # f
  <2>1. ToNewFile(f, bound, room)
    BY <1>1, <1>2, <1>4 DEF WritesTo
  <2>2. f.min = NextTime
    BY <2>1 DEF ToNewFile
  <2>3. PICK i \in 1..Len(files) : n = files[i]
    <3>1. \A i \in 1..Len(files) : OnDisk(i) = files[i]
      BY <1>2 DEF OnDisk
    <3> QED
      BY <1>2, <3>1 DEF DirInv, Distinct, Good, Home
  <2>4. n.min \in Int /\ NextTime \in Int
    BY <1>2, GoodIs DEF Home
  <2>5. CASE i <= at - 1
    <3>1. n.min < NextTime
      BY <1>2, <2>3, <2>5 DEF DirInv, Distinct, Good
    <3> QED
      BY <2>2, <2>4, <3>1
  <2>6. CASE i >= at
    <3>1. at \in 1..Len(files) /\ NextTime < files[at].min
      BY <1>2, <2>1, <2>3, <2>6 DEF ToNewFile
    <3>2. i = at \/ at < i
      BY <1>2, <2>6
    <3>3. files[at].min = n.min \/ files[at].min < n.min
      BY <2>3, <3>1, <3>2, GoodIs DEF Rising
    <3>4. files[at].min \in Int
      BY <3>1, GoodIs
    <3> QED
      BY <2>2, <2>4, <3>1, <3>3, <3>4
  <2> QED
    BY <1>2, <2>5, <2>6
<1> QED
  BY <1>2, <1>3, <1>4 DEF Home

LEMMA HomeMove == ASSUME DirInv, Good, Grows, NEW p, NEW n, Home(p, n), Move
                  PROVE  \E m : Home(p, m)' /\ m.min = n.min
<1>1. /\ pc = "moving" /\ Written = moving[1] /\ Object \in Name
      /\ moving[1] \in DOMAIN store /\ moving[1].min = Object.min
      /\ DOMAIN store' = (DOMAIN store \ {moving[1]}) \union {Object} /\ store'[Object] = store[moving[1]]
      /\ \A m \in DOMAIN store' \ {Object} : m \in DOMAIN store /\ m # moving[1] /\ store'[m] = store[m]
  BY MoveDoes
<1>2. /\ new' = <<>> \/ (new' = new /\ pc' = "marking" /\ files' = files /\ at' = at)
      /\ new' # <<>> => Written' = Object /\ new # <<>>
  <2>1. new' = <<>> \/ (new' = new /\ pc' = "marking" /\ files' = files /\ at' = at)
    BY DEF Move, Returned
  <2>2. ASSUME new' # <<>> PROVE Written' = Object
    BY <2>1, <2>2 DEF Written, Object
  <2> QED
    BY <2>1, <2>2
<1>3. CASE n = moving[1]
  <2>1. new' = <<>>
    BY <1>1, <1>2, <1>3 DEF Home
  <2>2. p.time <= Object.max
    <3>1. moving[1].max <= Object.max
      BY <1>1 DEF Grows
    <3>2. p.time \in Int /\ moving[1].max \in Int /\ Object.max \in Int
      BY <1>1, <1>3, GoodIs, NameFields DEF Home
    <3> QED
      BY <1>3, <3>1, <3>2 DEF Home
  <2>3. Object \in DOMAIN store' /\ p \in Range(store'[Object])
    BY <1>1, <1>3 DEF Home
  <2>4. \E m : Home(p, m)' /\ m.min = Object.min
    BY <2>1, <2>2, <2>3 DEF Home
  <2> QED
    BY <1>1, <1>3, <2>4
<1>4. CASE n # moving[1]
  <2>1. n # Object
    BY <1>1, <1>4, GoodIs DEF Home
  <2>2. n \in DOMAIN store' /\ store'[n] = store[n]
    BY <1>1, <1>4, <2>1 DEF Home
  <2> QED
    BY <1>2, <2>1, <2>2 DEF Home
<1> QED
  BY <1>3, <1>4

\* A step of a flush, or none.
GoesOn == (\E b \in Batches : Flush(b)) \/ Place \/ FlushReturns \/ UNCHANGED vars

\* A flush leaves every point where a read finds it, under a name that begins at the same
\* time.
LEMMA HomeStays == ASSUME DirInv, DirInv', Good, Grows, NEW p, NEW n, Home(p, n),
                          GoesOn
                   PROVE  \E m : Home(p, m)' /\ m.min = n.min
<1>1. CASE Move
  BY <1>1, HomeMove
<1>2. CASE WriteToFile \/ WriteToNewFile
  BY <1>2, HomeWrite
<1>3. CASE SetMax \/ SetOptimized
  <2>1. /\ Written = Object /\ Written' = Object /\ (new = <<>> <=> new' = <<>>) /\ store' = store
    BY <1>3, RenameDoes
  <2>2. Home(p, n)'
    BY <2>1 DEF Home
  <2> QED
    BY <2>2
<1>4. CASE KeepName
  <2>1. store' = store /\ new' = new /\ Written' = Written
    BY <1>4 DEF KeepName, writevars, Written, Object
  <2> QED
    BY <2>1, HomeSame
<1>5. CASE UNCHANGED vars
  <2>1. store' = store /\ new' = new /\ Written' = Written
    BY <1>5 DEF vars, writevars, Written, Object
  <2> QED
    BY <2>1, HomeSame
<1>6. CASE (\E b \in Batches : Flush(b)) \/ List \/ SkipFull \/ SkipOld \/ WriteReturns \/ FlushReturns
  <2>1. store' = store /\ ~Inside'
    BY <1>6 DEF Flush, List, Search, SkipFull, SkipOld, Placing, WriteReturns, Returned, FlushReturns, Inside
  <2>2. new' = <<>>
    BY <2>1 DEF DirInv, Shapes
  <2> QED
    BY <2>1, <2>2, HomeSame
<1> QED
  BY <1>1, <1>2, <1>3, <1>4, <1>5, <1>6 DEF GoesOn, Place

\* Nor does it take a file of the vector away or move one down, even if it lists the
\* directory again.
LEMMA StartsKept == ASSUME DirInv, DirInv', Good', Grows, Present, Unlisted, GoesOn
                    PROVE  \A i \in 1..Len(files) : \E j \in i..Len(files') : files'[j].min = files[i].min
<1>1. Good /\ files \in Seq(Name) /\ Len(files) \in Nat /\ Rising(files)
  <2>1. [Next]_vars
    BY DEF GoesOn, Next, Step
  <2> QED
    BY <2>1, Monotone, GoodIs DEF Good
<1>2. files' \in Seq(Name) /\ Rising(files') /\ Len(files') \in Nat
  BY DEF DirInv, TypeOK, Distinct, Good, Rising
<1>3. ASSUME NEW i \in 1..Len(files) PROVE \E j \in 1..Len(files') : files'[j].min = files[i].min
  <2>1. CASE SetMax \/ SetOptimized
    BY <1>3, <2>1, RenameDoes
  <2>2. CASE files' = files
    BY <1>3, <2>2
  <2>3. CASE files' = Join /\ Inside
    <3>1. /\ at \in Nat \ {0}
          /\ new = <<>> => Len(Join) = Len(files) /\ Object = files[at]
          /\ new # <<>> => Len(Join) = Len(files) + 1
          /\ \A j \in 1..Len(Join) : Join[j] = IF j < at THEN files[j]
                                               ELSE IF j = at THEN Object
                                               ELSE IF new = <<>> THEN files[j] ELSE files[j - 1]
      <4>1. at \in Nat \ {0}
        BY FilesAre DEF DirInv, TypeOK
      <4>2. new = <<>> => Object = files[at]
        BY <2>3, ObjectIs
      <4> QED
        BY <2>3, <4>1, <4>2, JoinIs
    <3>2. CASE new = <<>>
      <4>1. i \in 1..Len(Join) /\ Join[i] = files[i]
        <5>1. i \in 1..Len(Join) /\ (new = <<>> => i < at \/ i = at \/ i > at)
          BY <1>1, <1>3, <3>1, <3>2
        <5> QED
          BY <3>1, <3>2, <5>1
      <4> QED
        BY <2>3, <4>1
    <3>3. CASE new # <<>> /\ i < at
      BY <1>1, <1>3, <2>3, <3>1, <3>3
    <3>4. CASE new # <<>> /\ i >= at
      <4>1. i + 1 \in 1..Len(Join) /\ ~(i + 1 < at) /\ i + 1 # at /\ (i + 1) - 1 = i
        BY <1>1, <1>3, <3>1, <3>4
      <4>2. Join[i + 1] = files[i]
        BY <3>1, <3>4, <4>1
      <4> QED
        BY <2>3, <4>1, <4>2
    <3> QED
      BY <1>1, <1>3, <3>1, <3>2, <3>3, <3>4
  <2>4. CASE List
    <3>1. known /\ pc = "listing"
      <4>1. known
        BY <1>1, <1>3 DEF Unlisted
      <4> QED
        BY <2>4, <4>1 DEF List
    <3>2. OnDisk(i) = files[i]
      BY <3>1 DEF OnDisk
    <3>3. files[i] \in DOMAIN store
      BY <1>1, <1>3, <3>1, <3>2 DEF Present, Good
    <3>4. PICK fs \in Listings : files' = fs /\ ignored' = (ignored \/ \E n \in DOMAIN store : n \notin Range(fs))
      BY <2>4 DEF List
    <3>5. files[i] \in Range(fs)
      BY <3>3, <3>4 DEF Good
    <3>6. \E j \in 1..Len(fs) : files[i] = fs[j]
      BY <3>5, ListingIs DEF DirInv, Shapes
    <3> QED
      BY <3>4, <3>6
  <2> QED
    BY <2>1, <2>2, <2>3, <2>4 DEF GoesOn, Place, Flush, SkipFull, SkipOld, WriteToFile, WriteToNewFile, KeepName,
         WriteReturns, Move, Returned, FlushReturns, vars, Inside
<1> QED
  BY <1>1, <1>2, <1>3, MovedUp

\* The read has a point, or a newer version of it.
HasGiven(p) == \E q \in Range(Read) : q.time = p.time /\ q.flush >= p.flush

\* The place of a file that the read has not come to.
After(n) == (\E i \in it..Len(files) : n.min = files[i].min) /\ (rpc = "opening" => path[1].min < n.min)
Ahead(p) == \E n \in DOMAIN store : Home(p, n) /\ (After(n) \/ (rpc = "opening" /\ n.min = path[1].min))

\* The read will come to a point of the files or of the buffer S.
Awaits(p, S) ==
    /\ next <= p.time /\ (p \in S \/ \E n \in DOMAIN store : Home(p, n))
    /\ rpc \in {"choosing", "opening"} => ~SpaceLeft \/ p \in S \/ Ahead(p)
    /\ rpc = "scanning" => ~SpaceLeft \/ p \in S
    /\ rpc = "answering" => failed \/ ~SpaceLeft

LEMMA FlushAwaits ==
    ASSUME ReadInv, DirInv', FlushInv, Good', it \in Nat \ {0}, NEW p, NEW S, Awaits(p, S), GoesOn,
           UNCHANGED <<rpc, next, chunk, it, path, failed>>
    PROVE  Awaits(p, S)'
<1>0. DirInv /\ Grows /\ Present /\ Unlisted /\ Good
  <2>1. [Next]_vars
    BY DEF GoesOn, Next, Step
  <2> QED
    BY <2>1, Monotone DEF ReadInv, FlushInv, Good
<1>1. (\E n \in DOMAIN store : Home(p, n)) => \E n \in DOMAIN store' : Home(p, n)'
  <2> SUFFICES ASSUME NEW n \in DOMAIN store, Home(p, n) PROVE \E m \in DOMAIN store' : Home(p, m)'
    OBVIOUS
  <2>1. PICK m : Home(p, m)' /\ m.min = n.min
    BY <1>0, HomeStays
  <2> QED
    BY <2>1 DEF Home
<1>2. Ahead(p) => Ahead(p)'
  <2> SUFFICES ASSUME Ahead(p) PROVE Ahead(p)'
    OBVIOUS
  <2>1. PICK n \in DOMAIN store : Home(p, n) /\ (After(n) \/ (rpc = "opening" /\ n.min = path[1].min))
    BY DEF Ahead
  <2>2. PICK m : Home(p, m)' /\ m.min = n.min
    BY <1>0, <2>1, HomeStays
  <2>3. m \in DOMAIN store'
    BY <2>2 DEF Home
  <2>4. ASSUME After(n) PROVE After(m)'
    <3>1. PICK i \in it..Len(files) : n.min = files[i].min
      BY <2>4 DEF After
    <3>2. i \in 1..Len(files)
      BY <3>1
    <3>3. PICK j \in i..Len(files') : files'[j].min = files[i].min
      BY <1>0, <3>2, StartsKept
    <3>4. j \in it..Len(files')
      BY <3>1, <3>3
    <3> QED
      BY <2>2, <2>4, <3>1, <3>3, <3>4 DEF After
  <2> QED
    BY <2>1, <2>2, <2>3, <2>4 DEF Ahead
<1> QED
  BY <1>1, <1>2 DEF Awaits, SpaceLeft

\* A search begins no later than at the file with a point.
LEMMA AheadOf ==
    ASSUME DirInv, FlushInv, Good, NEW fs \in Seq(Name), Rising(fs), NEW p, NEW n, Home(p, n),
           NEW t \in 0..(Forever + 1), t <= p.time, NEW i \in 1..Len(fs), fs[i].min = n.min,
           \A j \in 1..Len(fs) : \E m \in DOMAIN store : m.min = fs[j].min
    PROVE  i \in FindFirst(fs, t)..Len(fs)
<1>1. n \in DOMAIN store /\ p \in Range(store[n])
  BY DEF Home
<1>2. p.time \in Int
  BY <1>1, GoodIs
<1>3. \A j \in 1..Len(fs) : fs[i].min < fs[j].min => p.time < fs[j].min
  <2> TAKE j \in 1..Len(fs)
  <2>1. PICK m \in DOMAIN store : m.min = fs[j].min
    OBVIOUS
  <2> QED
    BY <1>1, <2>1 DEF FlushInv, Between
<1>4. FindFirst(fs, t) <= i
  BY <1>2, <1>3, StartBefore
<1>5. FindFirst(fs, t) \in Int
  <2>1. fs \in Names /\ t \in Int
    BY NameFields, TimestampAssumption
  <2> QED
    BY <2>1, FirstIsPlace
<1> QED
  BY <1>4, <1>5

LEMMA FindAwaits ==
    ASSUME ReadInv, FlushInv, Good, NEW p, NEW S, Awaits(p, S), FindFile, next \in 0..(Forever + 1)
    PROVE  Awaits(p, S)'
<1>0. DirInv /\ Present /\ Grows
  BY DEF ReadInv, FlushInv
<1>1. /\ UNCHANGED <<vars, next, chunk, path, failed>> /\ rpc = "finding"
      /\ rpc' \in {"scanning", "listing", "stuck", "choosing"}
  BY DEF FindFile, Start
<1>2. UNCHANGED <<store, files, new, Written>>
  BY <1>1 DEF vars, writevars, Written, Object
<1>3. \A m : Home(p, m)' <=> Home(p, m)
  BY <1>2 DEF Home
<1>4. ASSUME rpc' = "choosing", p \notin S PROVE Ahead(p)'
  <2>1. known /\ Start(files)
    BY <1>4 DEF FindFile
  <2>2. PICK n \in DOMAIN store : Home(p, n)
    BY <1>4 DEF Awaits
  <2>3. PICK i \in 1..Len(files) : n = OnDisk(i)
    BY <1>0, <2>1, <2>2 DEF DirInv, Distinct, Good, Home
  <2>4. files[i].min = n.min
    BY <1>0, <2>3, OnDiskIs
  <2>5. \A j \in 1..Len(files) : \E m \in DOMAIN store : m.min = files[j].min
    BY <1>0, <2>1, OnDiskIs DEF Present, Good
  <2>6. i \in FindFirst(files, next)..Len(files)
    BY <1>0, <2>2, <2>4, <2>5, AheadOf, GoodIs DEF Awaits
  <2>7. After(n)'
    BY <1>2, <1>4, <2>1, <2>4, <2>6 DEF After, Start
  <2> QED
    BY <1>2, <1>3, <2>2, <2>7 DEF Ahead
<1>5. ASSUME rpc' = "scanning" PROVE p \in S
  <2>1. flushes = 0
    BY <1>5 DEF FindFile, Start
  <2> QED
    BY <2>1 DEF FlushInv, NoneYet, Awaits
<1> QED
  BY <1>1, <1>2, <1>3, <1>4, <1>5 DEF Awaits

LEMMA ListAwaits ==
    ASSUME ReadInv, DirInv', FlushInv, Good', NEW p, NEW S, Awaits(p, S), ListEnds, next \in 0..(Forever + 1)
    PROVE  Awaits(p, S)'
<1>0. DirInv /\ Listed /\ Good
  BY DEF ReadInv, ListEnds, Good
<1>1. /\ UNCHANGED <<store, new, pc, moving, next, chunk, path, failed>> /\ rpc = "listing"
      /\ rpc' \in {"stuck", "choosing"} /\ files' = listing
      /\ it' = FindFirst(listing, next)
  BY DEF ListEnds, Start, writevars
<1>2. new = <<>> /\ new' = <<>>
  BY <1>0, <1>1 DEF ListEnds, FlushInside, Inside, DirInv, Shapes
<1>3. \A m : Home(p, m)' <=> Home(p, m)
  BY <1>1, <1>2 DEF Home
<1>4. ASSUME rpc' = "choosing", p \notin S PROVE Ahead(p)'
  <2>1. PICK n \in DOMAIN store : Home(p, n)
    BY <1>4 DEF Awaits
  <2>2. listing \in Seq(Name) /\ Rising(listing) /\ \A i \in 1..Len(listing) : \E m \in DOMAIN store : m.min = listing[i].min
    BY <1>0, <1>1 DEF Listed, Rising, Good
  <2>3. n \in Range(listing)
    BY <2>1 DEF ListEnds, Good
  <2>4. PICK i \in 1..Len(listing) : n = listing[i]
    BY <2>2, <2>3, ElementsOf
  <2>5. i \in FindFirst(listing, next)..Len(listing)
    BY <1>0, <2>1, <2>2, <2>4, AheadOf DEF Awaits
  <2>6. After(n)'
    BY <1>1, <1>4, <2>4, <2>5 DEF After
  <2> QED
    BY <1>1, <1>3, <2>1, <2>6 DEF Ahead
<1> QED
  BY <1>1, <1>3, <1>4 DEF Awaits

LEMMA SameHomes == ASSUME UNCHANGED vars
                   PROVE  /\ UNCHANGED <<store, files, new, known, flushes, filled, ignored, pc, buf>>
                          /\ \A p, n : Home(p, n)' <=> Home(p, n)
<1>1. UNCHANGED <<store, files, new, known, flushes, filled, ignored, pc, buf, Written>>
  BY DEF vars, writevars, history, Written, Object
<1> QED
  BY <1>1 DEF Home

\* What the reader passes over ends before the points it awaits.
LEMMA PassOverAwaits ==
    ASSUME ReadInv, ReaderInv, FlushInv, Good, NEW p, NEW S, Awaits(p, S), PassOver
    PROVE  Awaits(p, S)'
<1>0. DirInv /\ Grows /\ Present
  BY DEF ReadInv, FlushInv
<1>1. /\ UNCHANGED <<vars, next, chunk, failed, rpc>> /\ rpc = "choosing" /\ it' = it + 1
      /\ SpaceLeft /\ it <= Len(files) /\ files[it].max < next /\ it \in Nat \ {0} /\ next \in 0..(Forever + 1)
  BY DEF PassOver, Unmoved, NoMore, Passed, ReaderInv, ReadTypeOK
<1>2. UNCHANGED <<store, files, new>> /\ \A m : Home(p, m)' <=> Home(p, m)
  BY <1>1, SameHomes
<1>3. ASSUME p \notin S PROVE Ahead(p)'
  <2>1. PICK n \in DOMAIN store : Home(p, n) /\ After(n)
    BY <1>1, <1>3 DEF Awaits, Ahead
  <2>2. PICK i \in it..Len(files) : n.min = files[i].min
    BY <2>1 DEF After
  <2>3. i # it
    <3> SUFFICES ASSUME i = it PROVE FALSE
      OBVIOUS
    <3>1. it \in 1..Len(files)
      BY <1>1, <2>2
    <3>2. known
      BY <1>0, <3>1 DEF FlushInv, Unlisted
    <3>3. OnDisk(it) \in DOMAIN store /\ OnDisk(it).min = files[it].min /\ OnDisk(it).max <= files[it].max
      BY <1>0, <3>1, <3>2, OnDiskIs DEF Present, Good
    <3>4. n = OnDisk(it)
      BY <1>0, <2>2, <3>3, GoodIs
    <3>5. p.time <= n.max /\ p \in Range(store[n])
      BY <2>1 DEF Home
    <3>6. p.time \in Int /\ n.max \in Int /\ files[it].max \in Int /\ next \in Int
      BY <1>0, <1>1, <3>1, <3>5, GoodIs, TimestampAssumption
    <3>7. next <= p.time
      BY DEF Awaits
    <3> QED
      BY <1>1, <3>3, <3>4, <3>5, <3>6, <3>7
  <2>4. i \in (it + 1)..Len(files)
    BY <1>1, <2>2, <2>3
  <2>5. After(n)'
    BY <1>1, <1>2, <2>2, <2>4 DEF After
  <2> QED
    BY <1>2, <2>1, <2>5 DEF Ahead
<1> QED
  BY <1>1, <1>2, <1>3 DEF Awaits

LEMMA ChooseAwaits ==
    ASSUME ReadInv, ReaderInv, FlushInv, Good, NEW p, NEW S, Awaits(p, S), Choose
    PROVE  Awaits(p, S)'
<1>0. DirInv
  BY DEF ReadInv
<1>1. /\ UNCHANGED <<vars, next, chunk, failed>> /\ rpc = "choosing" /\ rpc' = "opening" /\ it' = it + 1
      /\ SpaceLeft /\ it <= Len(files) /\ it \in Nat \ {0} /\ path'[1] = files[it]
  BY DEF Choose, Unmoved, NoMore, Eligible, ReaderInv
<1>2. UNCHANGED <<store, files, new>> /\ \A m : Home(p, m)' <=> Home(p, m)
  BY <1>1, SameHomes
<1>3. ASSUME p \notin S PROVE Ahead(p)'
  <2>1. PICK n \in DOMAIN store : Home(p, n) /\ After(n)
    BY <1>1, <1>3 DEF Awaits, Ahead
  <2>2. PICK i \in it..Len(files) : n.min = files[i].min
    BY <2>1 DEF After
  <2>3. CASE i = it
    BY <1>1, <1>2, <2>1, <2>2, <2>3 DEF Ahead
  <2>4. CASE i # it
    <3>1. i \in (it + 1)..Len(files) /\ it < i /\ it \in 1..Len(files) /\ i \in 1..Len(files)
      BY <1>1, <2>2, <2>4
    <3>2. files[it].min < n.min
      BY <1>0, <2>2, <3>1, GoodIs DEF Rising
    <3>3. After(n)'
      BY <1>1, <1>2, <2>2, <3>1, <3>2 DEF After
    <3> QED
      BY <1>2, <2>1, <3>3 DEF Ahead
  <2> QED
    BY <2>3, <2>4
<1> QED
  BY <1>1, <1>2, <1>3 DEF Awaits, SpaceLeft

\* The files left over begin after the range: none of them has an awaited point.
LEMMA FilesDoneAwaits ==
    ASSUME ReadInv, ReaderInv, FlushInv, Good, NEW p \in Point, NEW S, Awaits(p, S), FilesDone, p.time < end
    PROVE  Awaits(p, S)'
<1>0. DirInv
  BY DEF ReadInv
<1>1. /\ UNCHANGED <<vars, next, chunk, failed>> /\ rpc = "choosing" /\ rpc' = "scanning"
      /\ NoMore \/ (~Passed /\ ~Eligible)
      /\ it \in Nat \ {0}
      /\ next \in 0..(Forever + 1) /\ end \in 0..Forever /\ p.time \in Int
  BY PointFields, TimestampAssumption DEF FilesDone, Unmoved, ReaderInv, ReadTypeOK
<1>2. UNCHANGED <<store, files, new>> /\ \A m : Home(p, m)' <=> Home(p, m)
  BY <1>1, SameHomes
<1>3. ASSUME SpaceLeft, p \notin S PROVE FALSE
  <2>0. next \in Int /\ end \in Int /\ next <= p.time
    BY <1>1, TimestampAssumption DEF Awaits
  <2>1. ~Passed /\ ~Eligible
    BY <1>1, <1>3, <2>0 DEF NoMore, Complete
  <2>2. PICK n \in DOMAIN store : Home(p, n) /\ After(n)
    BY <1>1, <1>3 DEF Awaits, Ahead
  <2>3. PICK i \in it..Len(files) : n.min = files[i].min
    BY <2>2 DEF After
  <2>4. it \in 1..Len(files) /\ i \in 1..Len(files) /\ (it = i \/ it < i)
    <3>1. Len(files) \in Nat /\ it \in Nat \ {0} /\ i \in it..Len(files)
      BY <1>0, <1>1, <2>3, GoodIs
    <3> HIDE DEF NoMore, Passed, Eligible
    <3> QED
      BY <3>1
  <2>5. files[it].min <= n.min /\ files[it].min \in Int /\ files[it].max \in Int /\ n.min \in Int
    <3>1. /\ Rising(files) /\ files[it].min \in Int /\ files[it].max \in Int /\ files[i].min \in Int
      BY <1>0, <2>4, GoodIs
    <3>2. it < i => files[it].min <= files[i].min
      BY <2>4, <3>1 DEF Rising
    <3> QED
      BY <2>3, <2>4, <3>1, <3>2
  <2>6. end <= files[it].min
    BY <2>0, <2>1, <2>4, <2>5 DEF Passed, Eligible
  <2>7. n.min <= p.time
    BY <2>2 DEF Home, FlushInv, Between
  <2> QED
    BY <1>1, <2>0, <2>5, <2>6, <2>7
<1> QED
  BY <1>1, <1>2, <1>3 DEF Awaits, SpaceLeft

\* ReadOperation::Append gives every point before the next_time it leaves, and all of them
\* if there is space.
LEMMA TakeGives ==
    ASSUME Reading, NEW S, Apiece(S), \A p \in S : next <= p.time, Take(S)
    PROVE  /\ Range(chunk) \subseteq Range(chunk')
           /\ \A p \in S : p.time < next' => p \in Range(chunk')
           /\ Len(chunk') < ReadSpace => \A p \in S : p \in Range(chunk')
           /\ next' = next \/ (SpaceLeft /\ \E p \in S : next' = p.time + 1)
           /\ Len(chunk) + Cardinality(S) >= ReadSpace => ~(Len(chunk') < ReadSpace)
<1> DEFINE ps == InTime(S)
           n == Min({Len(ps), ReadSpace - Len(chunk)})
<1>1. /\ ps \in Seq(Point) /\ Len(ps) = Cardinality(S) /\ Ascending(ps)
      /\ \A i \in 1..Len(ps) : ps[i] \in S
      /\ \A p \in S : \E i \in 1..Len(ps) : p = ps[i]
  BY InTimeIs
<1>2. chunk' = chunk \o SubSeq(ps, 1, n) /\ next' = IF n = 0 THEN next ELSE ps[n].time + 1
  BY DEF Take
<1>3. /\ chunk \in Seq(Point) /\ Len(chunk) \in Nat /\ Len(chunk) <= ReadSpace /\ ReadSpace \in Nat
      /\ next \in 0..(Forever + 1) /\ Len(ps) \in Nat /\ Forever \in Nat
  BY <1>1, ReadAssumption, TimestampAssumption DEF Reading
<1>4. /\ n \in 0..Len(ps) /\ n <= ReadSpace - Len(chunk)
      /\ n = Len(ps) \/ n = ReadSpace - Len(chunk)
  <2> DEFINE a == Len(ps)
             b == ReadSpace - Len(chunk)
  <2>1. a \in Nat /\ b \in Nat
    BY <1>3
  <2> HIDE DEF a, b
  <2>2. Min({a, b}) \in {a, b} /\ Min({a, b}) <= a /\ Min({a, b}) <= b
    <3>1. \E m \in {a, b} : \A x \in {a, b} : m <= x
      BY <2>1
    <3> QED
      BY <3>1 DEF Min
  <2> QED
    BY <2>1, <2>2 DEF a, b
<1> HIDE DEF ps, n
<1>5. /\ SubSeq(ps, 1, n) \in Seq(Point) /\ Len(SubSeq(ps, 1, n)) = n
      /\ \A i \in 1..n : ps[i] \in Range(SubSeq(ps, 1, n))
  BY <1>1, <1>4, FrontIs
<1>6. /\ Len(chunk') = Len(chunk) + n /\ Range(chunk') = Range(chunk) \union Range(SubSeq(ps, 1, n))
  <2> DEFINE front == SubSeq(ps, 1, n)
  <2>1. front \in Seq(Point) /\ Len(front) = n /\ chunk' = chunk \o front /\ chunk \in Seq(Point)
    BY <1>2, <1>3, <1>5
  <2> HIDE DEF front
  <2>2. Len(chunk \o front) = Len(chunk) + Len(front) /\ Range(chunk \o front) = Range(chunk) \union Range(front)
    BY <2>1, JoinedIs, ZenonT(30)
  <2> QED
    BY <2>1, <2>2 DEF front
<1>7. ASSUME NEW p \in S, p.time < next' PROVE p \in Range(chunk')
  <2>1. PICK i \in 1..Len(ps) : p = ps[i]
    BY <1>1
  <2>2. n # 0 /\ next' = ps[n].time + 1
    <3>1. p.time \in Int /\ next \in Int /\ next <= p.time
      BY <1>1, <1>3, <2>1, PointTime
    <3> QED
      BY <1>2, <1>7, <3>1
  <2>3. n \in 1..Len(ps) /\ ps[n].time \in Int /\ ps[i].time \in Int
    BY <1>1, <1>4, <2>1, <2>2, PointTime
  <2>4. ~(n < i)
    BY <1>1, <1>7, <2>1, <2>2, <2>3 DEF Ascending
  <2>5. i \in 1..n
    BY <1>3, <1>4, <2>1, <2>4
  <2> QED
    BY <1>5, <1>6, <2>1, <2>5
<1>8. ASSUME Len(chunk') < ReadSpace, NEW p \in S PROVE p \in Range(chunk')
  <2>1. n = Len(ps)
    BY <1>3, <1>4, <1>6, <1>8
  <2> QED
    BY <1>1, <1>5, <1>6, <2>1
<1>9. next' = next \/ (SpaceLeft /\ \E p \in S : next' = p.time + 1)
  <2> SUFFICES ASSUME n # 0 PROVE SpaceLeft /\ \E p \in S : next' = p.time + 1
    BY <1>2
  <2>1. n \in 1..Len(ps) /\ Len(chunk) < ReadSpace
    BY <1>3, <1>4
  <2> QED
    BY <1>1, <1>2, <2>1 DEF SpaceLeft
<1>10. Len(chunk) + Cardinality(S) >= ReadSpace => ~(Len(chunk') < ReadSpace)
  BY <1>1, <1>3, <1>4, <1>6
<1> QED
  BY <1>6, <1>7, <1>8, <1>9, <1>10

\* Of the versions of a point in a file one was written last.
LEMMA LatestOf ==
    ASSUME NEW s \in Seq(Point), NEW p \in Range(s), NEW t, t <= p.time
    PROVE  \E r \in LatestIn(s, t) : r.time = p.time /\ r.flush >= p.flush
<1>1. \A q \in Range(s) : q \in Point /\ q.flush \in 1..MaxFlushes
  BY RangeFinite DEF Point
<1>2. MaxFlushes \in Nat
  BY BoundsAssumption
<1> DEFINE C == {MaxFlushes - q.flush : q \in {x \in Range(s) : x.time = p.time}}
<1>3. C \subseteq Nat /\ MaxFlushes - p.flush \in C
  BY <1>1, <1>2
<1>4. PICK m \in C : \A k \in C : m <= k
  <2> HIDE DEF C
  <2> QED
    BY <1>3, NatMin
<1>5. PICK r \in Range(s) : r.time = p.time /\ m = MaxFlushes - r.flush
  BY <1>4
<1>6. \A q \in Range(s) : q.time = p.time => q.flush <= r.flush
  <2> SUFFICES ASSUME NEW q \in Range(s), q.time = p.time PROVE q.flush <= r.flush
    OBVIOUS
  <2>1. MaxFlushes - r.flush <= MaxFlushes - q.flush
    BY <1>4, <1>5
  <2> QED
    BY <1>1, <1>2, <2>1
<1>7. r \in LatestIn(s, t)
  BY <1>5, <1>6 DEF LatestIn
<1>8. p.flush <= r.flush /\ p.flush \in Int /\ r.flush \in Int
  BY <1>1, <1>6
<1> QED
  BY <1>5, <1>7, <1>8

\* The points of the buffer are newer than all in the files: a file with a later point
\* has them.
Above(p) == \A n \in DOMAIN store :
    /\ n.min <= p.time
    /\ \A q \in Range(store[n]) : /\ q.time >= p.time => q.flush >= p.flush
                                  /\ q.time > p.time => p \in Range(store[n])
Newest(p) == (p.flush <= flushes \/ (p \in Buffered /\ pc = "idle")) /\ Above(p)

\* A file gives the awaited points it has, or their newer versions, before it moves
\* next_time past them.
LEMMA ReadFileAwaits ==
    ASSUME ReadInv, ReaderInv, FlushInv, Good, NEW p \in Point, NEW S, Awaits(p, S), p.time < end,
           p \in S => Newest(p), ReadFile
    PROVE  HasGiven(p)' \/ Awaits(p, S)'
<1>0. DirInv /\ p.time \in Int
  BY PointFields, TimestampAssumption DEF ReadInv
<1> DEFINE f == path[1]
           T == InRange(LatestIn(store[f], next))
<1>1. /\ UNCHANGED <<vars, it, failed, result>> /\ rpc = "opening" /\ rpc' = "choosing"
      /\ f \in DOMAIN store /\ Take(T) /\ Reading /\ next \in 0..(Forever + 1) /\ next \in Int /\ next <= p.time
  <2>1. Reading
    BY DEF ReadFile, ReaderInv, Active
  <2> QED
    BY <2>1, TimestampAssumption DEF ReadFile, Reading, Awaits
<1>2. UNCHANGED <<store, files, new>> /\ \A m : Home(p, m)' <=> Home(p, m)
  BY <1>1, SameHomes
<1>3. store[f] \in Seq(Point) /\ f.min \in Int /\ \A q \in Range(store[f]) : q \in Point /\ q.time \in Int
  BY <1>0, <1>1, GoodIs
<1>4. Apiece(T) /\ \A q \in T : q \in Range(store[f]) /\ next <= q.time /\ q.time < end
  <2>1. T \subseteq LatestIn(store[f], next)
    BY DEF InRange
  <2>2. LatestIn(store[f], next) \subseteq Range(store[f]) /\ Apiece(LatestIn(store[f], next))
    BY <1>3, LatestApiece
  <2> QED
    BY <2>1, <2>2, PartApiece DEF InRange
<1>5. p \in Range(store[f]) => \E r \in T : r.time = p.time /\ r.flush >= p.flush
  <2> SUFFICES ASSUME p \in Range(store[f]) PROVE \E r \in T : r.time = p.time /\ r.flush >= p.flush
    OBVIOUS
  <2>1. PICK r \in LatestIn(store[f], next) : r.time = p.time /\ r.flush >= p.flush
    BY <1>1, <1>3, LatestOf
  <2>2. r \in T
    BY <1>1, <2>1 DEF InRange
  <2> QED
    BY <2>1, <2>2
<1> HIDE DEF T
<1>6. /\ \A q \in T : q.time < next' => q \in Range(chunk')
      /\ Len(chunk') < ReadSpace => \A q \in T : q \in Range(chunk')
      /\ next' = next \/ (SpaceLeft /\ \E q \in T : next' = q.time + 1)
  BY <1>1, <1>4, TakeGives
<1>7. Range(chunk') \subseteq Range(Read')
  <2>1. result \in Seq(Point) /\ chunk' \in Seq(Point)
    BY ReadFileKeeps, <1>1 DEF ReaderInv, ReadTypeOK
  <2>2. Range(result \o chunk') = Range(result) \union Range(chunk')
    BY <2>1, JoinedIs
  <2> QED
    BY <1>1, <2>2 DEF Read
<1>8. (\E r \in T : r.time = p.time /\ r.flush >= p.flush /\ r \in Range(chunk')) => HasGiven(p)'
  BY <1>7 DEF HasGiven
<1>9. next' \in Int
  BY <1>1, <1>3, <1>4, <1>6
<1>10. CASE next' <= p.time
  <2>1. SUFFICES ASSUME Len(chunk') < ReadSpace, p \notin S PROVE HasGiven(p)' \/ Ahead(p)'
    BY <1>1, <1>2, <1>10 DEF Awaits, SpaceLeft
  <2>2. SpaceLeft
    <3>1. CASE next' = next /\ ~SpaceLeft
      <4>1. Len(chunk) >= ReadSpace
        BY <3>1, <1>1, ReadAssumption DEF SpaceLeft, Reading
      <4>2. Cardinality(T) \in Nat
        BY <1>4, FS_CardinalityType DEF Apiece
      <4>3. Len(chunk) + Cardinality(T) >= ReadSpace
        BY <1>1, <4>1, <4>2, ReadAssumption DEF Reading
      <4>4. ~(Len(chunk') < ReadSpace)
        BY <1>1, <1>4, <4>3, TakeGives
      <4> QED
        BY <2>1, <4>4
    <3> QED
      BY <1>6, <3>1
  <2>3. PICK n \in DOMAIN store : Home(p, n) /\ (After(n) \/ n.min = f.min)
    BY <1>1, <2>1, <2>2 DEF Awaits, Ahead
  <2>4. CASE n.min = f.min
    <3>1. n = f
      BY <1>0, <1>1, <2>4, GoodIs
    <3> QED
      BY <1>5, <1>6, <1>8, <2>1, <2>3, <3>1 DEF Home
  <2>5. CASE After(n)
    <3>1. After(n)'
      BY <1>1, <1>2, <2>5 DEF After
    <3> QED
      BY <1>2, <2>3, <3>1 DEF Ahead
  <2> QED
    BY <2>3, <2>4, <2>5
<1>11. CASE p.time < next'
  <2>1. PICK q \in T : next' = q.time + 1 /\ SpaceLeft
    BY <1>0, <1>1, <1>6, <1>9, <1>11
  <2>2. q \in Range(store[f]) /\ q.time \in Int /\ q.time >= p.time /\ q.time < next'
    BY <1>0, <1>3, <1>4, <1>11, <2>1
  <2>3. q \in Range(chunk')
    BY <1>6, <2>1, <2>2
  <2>4. p \in Range(store[f]) => HasGiven(p)'
    BY <1>5, <1>6, <1>8, <1>11
  <2>5. CASE p \in S
    <3>1. q.flush >= p.flush /\ (q.time > p.time => p \in Range(store[f]))
      BY <1>1, <2>2, <2>5 DEF Newest, Above
    <3>2. CASE q.time = p.time
      BY <1>8, <2>1, <2>3, <3>1, <3>2
    <3>3. CASE q.time > p.time
      BY <2>4, <3>1, <3>3
    <3> QED
      BY <1>0, <2>2, <3>2, <3>3
  <2>6. CASE p \notin S
    <3>1. PICK n \in DOMAIN store : Home(p, n) /\ (After(n) \/ n.min = f.min)
      BY <1>1, <2>1, <2>6 DEF Awaits, Ahead
    <3>2. p \in Range(store[n]) /\ n.min \in Int
      BY <1>0, <3>1, GoodIs DEF Home
    <3>3. ~(f.min < n.min)
      <4>1. f.min < n.min => q.time < n.min
        BY <1>1, <2>2 DEF FlushInv, Between
      <4>2. n.min <= p.time
        BY <3>2 DEF FlushInv, Between
      <4> QED
        BY <1>0, <2>2, <3>2, <4>1, <4>2
    <3>4. After(n) => f.min < n.min
      BY <1>1 DEF After
    <3>5. n = f
      BY <1>0, <1>1, <3>1, <3>3, <3>4, GoodIs
    <3> QED
      BY <2>4, <3>2, <3>5
  <2> QED
    BY <2>5, <2>6
<1> QED
  BY <1>0, <1>9, <1>10, <1>11

LEMMA OpenFailsAwaits ==
    ASSUME NEW p, NEW S, Awaits(p, S), OpenFails
    PROVE  Awaits(p, S)'
<1>1. UNCHANGED <<vars, next>> /\ rpc' = "answering" /\ failed' = TRUE
  BY DEF OpenFails
<1>2. UNCHANGED <<store, new>> /\ \A m : Home(p, m)' <=> Home(p, m)
  BY <1>1, SameHomes
<1> QED
  BY <1>1, <1>2 DEF Awaits

\* The buffer gives all its points in the range, or leaves no space.
LEMMA ScanAwaits ==
    ASSUME ReadInv, ReaderInv, NEW p \in Point, NEW S, S \subseteq Buffered, Awaits(p, S), p.time < end, ScanBuffer
    PROVE  HasGiven(p)' \/ Awaits(p, S)'
<1> DEFINE T == InRange(Buffered)
<1>1. /\ UNCHANGED <<vars, failed, result>> /\ rpc = "scanning" /\ rpc' = "answering" /\ next <= p.time
      /\ Reading /\ next \in Int /\ p.time \in Int /\ Forever \in Nat
  <2>1. Reading
    BY DEF ScanBuffer, ReaderInv, Active
  <2> QED
    BY <2>1, PointFields, TimestampAssumption DEF ScanBuffer, Reading, Awaits
<1>2. UNCHANGED <<store, new>> /\ \A m : Home(p, m)' <=> Home(p, m)
  BY <1>1, SameHomes
<1>3. Apiece(T) /\ \A q \in T : next <= q.time
  <2>1. T \subseteq Buffered
    BY DEF InRange
  <2> QED
    BY <2>1, BufferedApiece, PartApiece DEF InRange
<1>4. p \in S => p \in T
  BY <1>1 DEF InRange
<1>5. IF Len(chunk) + Cardinality(T) < ReadSpace THEN chunk' = chunk \o InTime(T) ELSE Take(T)
  BY DEF ScanBuffer
<1>6. ~SpaceLeft \/ p \in S
  BY <1>1 DEF Awaits
<1> HIDE DEF T
<1>7. p \in Range(chunk') => HasGiven(p)'
  <2> SUFFICES ASSUME p \in Range(chunk') PROVE HasGiven(p)'
    OBVIOUS
  <2>1. result \in Seq(Point) /\ chunk' \in Seq(Point)
    BY ScanBufferKeeps, <1>1 DEF ReaderInv, ReadTypeOK
  <2>2. Range(result \o chunk') = Range(result) \union Range(chunk')
    BY <2>1, JoinedIs
  <2>3. p \in Range(Read') /\ p.flush >= p.flush
    BY <1>1, <2>2 DEF Read, Point
  <2> QED
    BY <2>3 DEF HasGiven
<1>8. CASE Len(chunk) + Cardinality(T) < ReadSpace
  <2>1. Cardinality(T) \in Nat /\ Len(chunk) \in Nat
    BY <1>1, <1>3, FS_CardinalityType DEF Apiece, Reading
  <2>2. SpaceLeft
    BY <1>8, <2>1, ReadAssumption DEF SpaceLeft
  <2>3. p \in T /\ chunk' = chunk \o InTime(T)
    BY <1>4, <1>5, <1>6, <1>8, <2>2
  <2>4. InTime(T) \in Seq(Point) /\ chunk \in Seq(Point) /\ p \in Range(InTime(T))
    <3>1. /\ InTime(T) \in Seq(Point)
          /\ \A q \in T : \E i \in 1..Len(InTime(T)) : q = InTime(T)[i]
      BY <1>3, InTimeIs
    <3>2. PICK i \in 1..Len(InTime(T)) : p = InTime(T)[i]
      BY <2>3, <3>1
    <3>3. p \in Range(InTime(T))
      BY <3>1, <3>2, ElementsOf
    <3> QED
      BY <1>1, <3>1, <3>3 DEF Reading
  <2>5. p \in Range(chunk')
    BY <2>3, <2>4, JoinedIs
  <2> QED
    BY <1>7, <2>5
<1>9. CASE ~(Len(chunk) + Cardinality(T) < ReadSpace)
  <2>1. Len(chunk) + Cardinality(T) >= ReadSpace
    <3>1. Cardinality(T) \in Nat /\ Len(chunk) \in Nat
      BY <1>1, <1>3, FS_CardinalityType DEF Apiece, Reading
    <3> QED
      BY <1>9, <3>1, ReadAssumption
  <2>2. /\ \A q \in T : q.time < next' => q \in Range(chunk')
        /\ next' = next \/ SpaceLeft
        /\ ~(Len(chunk') < ReadSpace)
        /\ next' = next \/ \E q \in T : next' = q.time + 1
    BY <1>1, <1>3, <1>5, <1>9, <2>1, TakeGives
  <2>3. next' \in Int
    BY <1>1, <1>3, <2>2, PointFields, TimestampAssumption DEF Apiece
  <2>4. CASE next' <= p.time
    BY <1>1, <1>2, <2>2, <2>4 DEF Awaits, SpaceLeft
  <2>5. CASE p.time < next'
    <3>1. SpaceLeft
      BY <1>1, <2>2, <2>5
    <3> QED
      BY <1>4, <1>6, <1>7, <2>2, <2>5, <3>1
  <2> QED
    BY <1>1, <2>3, <2>4, <2>5
<1> QED
  BY <1>8, <1>9

\* The callback takes what there is.
LEMMA DeliverIs == ASSUME ReadInv, ReaderInv, Deliver
                   PROVE  /\ UNCHANGED <<vars, next, end, asked, emptied>>
                          /\ chunk' = <<>> /\ result' = Read /\ Read' = Read
                          /\ rpc' = IF Complete THEN "returned" ELSE "finding"
<1>1. UNCHANGED <<vars, next, end, asked, emptied>> /\ result' = result \o chunk /\ chunk' = <<>>
      /\ rpc' = IF Complete THEN "returned" ELSE "finding"
  BY DEF Deliver
<1>2. result \in Seq(Point) /\ chunk \in Seq(Point)
  BY DEF ReaderInv, ReadTypeOK
<1>3. (result \o chunk) \o <<>> = result \o chunk
  BY <1>2
<1> QED
  BY <1>1, <1>3 DEF Read

LEMMA DeliverAwaits ==
    ASSUME ReadInv, ReaderInv, NEW p \in Point, NEW S, Awaits(p, S), p.time < end, Deliver
    PROVE  rpc' = "finding" /\ Awaits(p, S)'
<1>1. UNCHANGED <<vars, next>> /\ rpc' = IF Complete THEN "returned" ELSE "finding"
  BY DeliverIs
<1>2. UNCHANGED <<store, new>> /\ \A m : Home(p, m)' <=> Home(p, m)
  BY <1>1, SameHomes
<1>3. ~Complete
  <2>1. next \in Int /\ end \in Int /\ p.time \in Int /\ next <= p.time
    BY PointFields, TimestampAssumption DEF ReaderInv, ReadTypeOK, Awaits
  <2> QED
    BY <2>1 DEF Complete
<1> QED
  BY <1>1, <1>2, <1>3 DEF Awaits

\* An empty buffer that nothing has failed on awaits no point.
LEMMA GiveUpAwaits ==
    ASSUME NEW p, NEW S, Awaits(p, S), GiveUp
    PROVE  failed
<1>1. rpc = "answering" /\ Len(chunk) = 0
  BY DEF GiveUp
<1> QED
  BY <1>1, ReadAssumption DEF Awaits, SpaceLeft

\* What the read is asked of the files has a home.
LEMMA VisibleHome ==
    ASSUME DirInv, NEW p, Visible(p)
    PROVE  \E n \in DOMAIN store : Home(p, n)
<1>1. PICK n \in DOMAIN store : /\ p \in Range(store[n]) /\ n.min <= p.time /\ p.time <= n.max
                                /\ known => n \notin Range(new \o (IF new = <<>> THEN <<>> ELSE moving))
  BY DEF Visible
<1>2. ASSUME new # <<>>, n = Written PROVE FALSE
  <2>1. Inside /\ known /\ Len(new) = 1 /\ new \in Seq(Name) /\ moving \in Seq(Name)
    <3>1. Inside
      BY <1>2 DEF DirInv, Shapes
    <3>2. known /\ Len(new) <= 1 /\ new \in Seq(Name) /\ moving \in Seq(Name)
      BY <3>1 DEF DirInv, Shapes, TypeOK, Inside
    <3>3. Len(new) = 1
      <4>1. Len(new) \in Nat \ {0}
        BY <1>2, <3>2, EmptySeq
      <4>2. Len(new) <= 1
        BY <3>2
      <4>3. \A k \in Nat \ {0} : k <= 1 => k = 1
        OBVIOUS
      <4> QED
        BY <4>1, <4>2, <4>3
    <3> QED
      BY <3>1, <3>2, <3>3
  <2>2. Range(new \o moving) = Range(new) \union Range(moving)
    BY <2>1, JoinedIs
  <2>3. pc = "moving" => moving[1] \in Range(moving)
    <3> SUFFICES ASSUME pc = "moving" PROVE moving[1] \in Range(moving)
      OBVIOUS
    <3>1. 1 \in 1..Len(moving)
      <4>1. Len(moving) = 1
        BY DEF DirInv, Shapes
      <4> QED
        BY <4>1
    <3> QED
      BY <2>1, <3>1, ElementsOf
  <2>4. new[1] \in Range(new)
    <3>1. 1 \in 1..Len(new)
      BY <2>1
    <3> QED
      BY <2>1, <3>1, ElementsOf
  <2> QED
    BY <1>1, <1>2, <2>1, <2>2, <2>3, <2>4 DEF Written, Object
<1> QED
  BY <1>1, <1>2 DEF Home

LEMMA BeginIs ==
    ASSUME ReadInv, ReaderInv, NEW from \in Timestamp, NEW to \in Timestamp \union {Forever}, BeginRead(from, to)
    PROVE  /\ UNCHANGED vars /\ rpc' \in {"returned", "finding"} /\ rpc = "idle" /\ next' = from /\ end' = to
           /\ from \in Int /\ to \in Int /\ emptied' = emptied
           /\ \A p \in asked'.disk \union asked'.buffer : from <= p.time /\ p.time < to
           /\ \A p \in asked'.disk : Visible(p)
           /\ \A p \in asked'.buffer : p \in Buffered /\ \A q \in Stored : q.flush < p.flush => q.time < p.time
           /\ rpc' = "returned" => asked'.disk = {} /\ asked'.buffer = {}
<1> DEFINE within(S) == {p \in S : from <= p.time /\ p.time < to}
           seen == {p \in Stored : Visible(p)}
           D == within({p \in seen : \A q \in seen : q.time = p.time => q.flush <= p.flush})
           B == within({p \in Buffered : \A q \in Stored : q.flush < p.flush => q.time < p.time})
<1>1. /\ UNCHANGED vars /\ rpc' = (IF from >= to THEN "returned" ELSE "finding") /\ rpc = "idle"
      /\ next' = from /\ end' = to /\ asked' = [disk |-> D, buffer |-> B] /\ emptied' = emptied
  BY DEF BeginRead
<1>2. from \in Int /\ to \in Int
  BY TimestampAssumption
<1>3. asked'.disk = D /\ asked'.buffer = B
  BY <1>1
<1>4. /\ \A p \in D \union B : from <= p.time /\ p.time < to
      /\ \A p \in D : Visible(p)
      /\ \A p \in B : p \in Buffered /\ \A q \in Stored : q.flush < p.flush => q.time < p.time
      /\ \A p \in D \union B : p \in Point
  <2>1. \A p \in Stored : p \in Point
    <3>1. \A n \in DOMAIN store : store[n] \in Seq(Point)
      BY DEF ReadInv, DirInv, TypeOK
    <3>2. \A n \in DOMAIN store : Range(store[n]) \subseteq Point
      BY <3>1, RangeFinite
    <3> QED
      BY <3>2 DEF Stored
  <2>2. \A p \in Buffered : p \in Point
    BY BufferedApiece DEF Apiece
  <2> QED
    BY <2>1, <2>2
<1>5. from >= to => D = {} /\ B = {}
  <2>1. \A p \in D \union B : p.time \in Int
    BY <1>4, PointFields, TimestampAssumption
  <2> HIDE DEF D, B
  <2> QED
    BY <1>2, <1>4, <2>1
<1> HIDE DEF D, B
<1> QED
  BY <1>1, <1>2, <1>3, <1>4, <1>5

\* A step beside the read.
Beside == GoesOn /\ UNCHANGED <<rpc, next, end, chunk, it, path, failed, result, asked>>

LEMMA BesideIs == ASSUME ReadInv, (\E b \in Batches : Arrive(b)) \/ FlushBegins \/ Flusher \/ UNCHANGED allvars
                  PROVE  Beside
<1>1. CASE FlushBegins
  <2>1. pending \in Batches /\ Flush(pending)
    BY <1>1 DEF FlushBegins, ReadInv, Pended
  <2> QED
    BY <1>1, <2>1 DEF FlushBegins, Beside, GoesOn, reader
<1>2. CASE (\E b \in Batches : Arrive(b)) \/ Flusher \/ UNCHANGED allvars
  BY <1>2 DEF Arrive, Flusher, FlushSteps, FlushClears, Beside, GoesOn, reader, allvars, readvars
<1> QED
  BY <1>1, <1>2

\* A step of a read that has begun, or a step beside it, unless it ends the read.
LEMMA ReadOn == ASSUME ReadInv, ReaderInv, Good', [ReadNext]_allvars, rpc' # "idle",
                       ~\E from \in Timestamp, to \in Timestamp \union {Forever} : BeginRead(from, to)
                PROVE  /\ Good /\ end' = end /\ asked' = asked
                       /\ \/ Beside
                          \/ /\ rpc \in Active
                             /\ \/ FindFile \/ ListEnds \/ PassOver \/ Choose \/ FilesDone \/ ReadFile \/ OpenFails
                                \/ ScanBuffer \/ Deliver \/ GiveUp
<1>1. ~ReadReturns /\ ~ReadCrash /\ ~Segfault
  BY DEF ReadReturns, ReadCrash, Segfault, Reset
<1>2. CASE (\E b \in Batches : Arrive(b)) \/ FlushBegins \/ Flusher \/ UNCHANGED allvars
  <2>1. Beside
    BY <1>2, BesideIs
  <2>2. [Next]_vars
    BY <2>1 DEF Beside, GoesOn, Next, Step
  <2>3. Good
    BY <2>2, Monotone DEF ReadInv, Good
  <2> QED
    BY <2>1, <2>3 DEF Beside
<1>3. CASE FindFile \/ ListEnds \/ PassOver \/ Choose \/ FilesDone \/ ReadFile \/ OpenFails
           \/ ScanBuffer \/ Deliver \/ GiveUp
  <2>1. rpc \in Active /\ end' = end /\ asked' = asked
    BY <1>3 DEF FindFile, ListEnds, PassOver, Choose, FilesDone, ReadFile, OpenFails, ScanBuffer, Deliver, GiveUp, Unmoved, Active
  <2>2. Good
    <3>1. CASE ListEnds
      BY <3>1 DEF ListEnds, Good
    <3>2. CASE UNCHANGED vars
      BY <3>2, SameHomes DEF Good
    <3> QED
      BY <1>3, <3>1, <3>2 DEF FindFile, PassOver, Choose, FilesDone, ReadFile, OpenFails, ScanBuffer, Deliver, GiveUp, Unmoved
  <2> QED
    BY <1>3, <2>1, <2>2
<1> QED
  BY <1>1, <1>2, <1>3 DEF ReadNext, Reader

\* Whatever moves beside it, a read that awaits a point gives it or goes on to await it,
\* unless it fails.
LEMMA AwaitsStep ==
    ASSUME ReadInv, ReaderInv, DirInv', FlushInv, Good', NEW p \in Point, NEW S, S \subseteq Buffered,
           p \in S => Newest(p), Awaits(p, S), p.time < end, rpc \in Active, [ReadNext]_allvars, rpc' # "idle"
    PROVE  HasGiven(p)' \/ (Awaits(p, S)' /\ (rpc' = "returned" => failed'))
<1>1. ~\E from \in Timestamp, to \in Timestamp \union {Forever} : BeginRead(from, to)
  BY DEF BeginRead, Active
<1>2. /\ Good
      /\ \/ Beside
         \/ FindFile \/ ListEnds \/ PassOver \/ Choose \/ FilesDone \/ ReadFile \/ OpenFails
         \/ ScanBuffer \/ Deliver \/ GiveUp
  BY <1>1, ReadOn
<1>3. it \in Nat \ {0} /\ next \in 0..(Forever + 1)
  BY DEF ReaderInv, ReadTypeOK
<1>4. CASE Beside
  BY <1>3, <1>4, FlushAwaits DEF Beside, Active
<1>5. CASE FindFile \/ ListEnds
  <2>1. rpc' # "returned"
    BY <1>5 DEF FindFile, ListEnds, Start
  <2> QED
    BY <1>2, <1>3, <1>5, <2>1, FindAwaits, ListAwaits
<1>6. CASE PassOver \/ Choose \/ FilesDone
  <2>1. rpc' # "returned"
    BY <1>6 DEF PassOver, Choose, FilesDone
  <2> QED
    BY <1>2, <1>6, <2>1, PassOverAwaits, ChooseAwaits, FilesDoneAwaits
<1>7. CASE ReadFile \/ OpenFails \/ ScanBuffer
  <2>1. rpc' # "returned"
    BY <1>7 DEF ReadFile, OpenFails, ScanBuffer
  <2> QED
    BY <1>2, <1>7, <2>1, ReadFileAwaits, OpenFailsAwaits, ScanAwaits
<1>8. CASE Deliver
  BY <1>8, DeliverAwaits
<1>9. CASE GiveUp
  <2>1. failed /\ UNCHANGED <<vars, next, chunk, failed>> /\ rpc' = "returned"
    BY <1>9, GiveUpAwaits DEF GiveUp, Unmoved
  <2>2. UNCHANGED <<store, new>> /\ \A m : Home(p, m)' <=> Home(p, m)
    BY <2>1, SameHomes
  <2> QED
    BY <2>1, <2>2 DEF Awaits
<1> QED
  BY <1>2, <1>4, <1>5, <1>6, <1>7, <1>8, <1>9

\* What has been given stays given.
LEMMA GivenStays ==
    ASSUME ReadInv, ReaderInv, ReaderInv', Good', NEW p, HasGiven(p), rpc \in Active, [ReadNext]_allvars, rpc' # "idle"
    PROVE  HasGiven(p)'
<1>1. ~\E from \in Timestamp, to \in Timestamp \union {Forever} : BeginRead(from, to)
  BY DEF BeginRead, Active
<1>2. \/ Beside
      \/ FindFile \/ ListEnds \/ PassOver \/ Choose \/ FilesDone \/ ReadFile \/ OpenFails
      \/ ScanBuffer \/ Deliver \/ GiveUp
  BY <1>1, ReadOn
<1>3. CASE UNCHANGED <<result, chunk>>
  BY <1>3 DEF HasGiven, Read
<1>4. CASE Deliver
  BY <1>4, DeliverIs DEF HasGiven
<1>5. CASE ReadFile \/ ScanBuffer
  <2>0. Reading
    BY <1>5 DEF ReadFile, ScanBuffer, ReaderInv, Active
  <2>1. \E T : Apiece(T) /\ (\A q \in T : next <= q.time) /\ (Take(T) \/ chunk' = chunk \o InTime(T))
    <3>1. CASE ReadFile
      <4> DEFINE T == InRange(LatestIn(store[path[1]], next))
      <4>1. store[path[1]] \in Seq(Point)
        BY <3>1 DEF ReadFile, ReadInv, DirInv, TypeOK
      <4>2. Apiece(T)
        <5>1. T \subseteq LatestIn(store[path[1]], next)
          BY DEF InRange
        <5> QED
          BY <4>1, <5>1, LatestApiece, PartApiece
      <4>3. Take(T) /\ \A q \in T : next <= q.time
        BY <3>1 DEF ReadFile, InRange
      <4> HIDE DEF T
      <4> QED
        BY <4>2, <4>3
    <3>2. CASE ScanBuffer
      <4> DEFINE T == InRange(Buffered)
      <4>1. T \subseteq Buffered /\ \A q \in T : next <= q.time
        BY DEF InRange
      <4>2. Apiece(T)
        BY <4>1, BufferedApiece, PartApiece
      <4>3. Take(T) \/ chunk' = chunk \o InTime(T)
        BY <3>2 DEF ScanBuffer
      <4> HIDE DEF T
      <4> QED
        BY <4>1, <4>2, <4>3
    <3> QED
      BY <1>5, <3>1, <3>2
  <2>2. PICK T : Apiece(T) /\ (\A q \in T : next <= q.time) /\ (Take(T) \/ chunk' = chunk \o InTime(T))
    BY <2>1
  <2>3. chunk \in Seq(Point) /\ chunk' \in Seq(Point) /\ result \in Seq(Point) /\ InTime(T) \in Seq(Point) /\ result' = result
    BY <1>5, <2>2, InTimeIs DEF ReaderInv, ReadTypeOK, ReadFile, ScanBuffer
  <2>4. Range(chunk) \subseteq Range(chunk')
    <3>1. Take(T) => Range(chunk) \subseteq Range(chunk')
      BY <2>0, <2>2, TakeGives
    <3>2. Range(chunk \o InTime(T)) = Range(chunk) \union Range(InTime(T))
      BY <2>3, JoinedIs
    <3> QED
      BY <2>2, <3>1, <3>2
  <2>5. Range(result \o chunk) = Range(result) \union Range(chunk) /\ Range(result \o chunk') = Range(result) \union Range(chunk')
    BY <2>3, JoinedIs
  <2> QED
    BY <2>3, <2>4, <2>5 DEF HasGiven, Read
<1> QED
  BY <1>2, <1>3, <1>4, <1>5 DEF Beside, FindFile, ListEnds, PassOver, Choose, FilesDone, OpenFails, GiveUp, Unmoved

LEMMA ReturnedIs == ASSUME ReadInv, ReaderInv, rpc \in Active, [ReadNext]_allvars, rpc' = "returned"
                    PROVE  result' = Read /\ Read' = Read
<1>1. CASE Deliver
  BY <1>1, DeliverIs
<1>2. CASE GiveUp
  <2>1. chunk = <<>> /\ UNCHANGED <<chunk, result>> /\ result \in Seq(Point)
    BY <1>2 DEF GiveUp, Unmoved, ReaderInv, ReadTypeOK
  <2>2. result \o <<>> = result
    BY <2>1
  <2> QED
    BY <2>1, <2>2 DEF Read
<1> QED
  BY <1>1, <1>2, BesideIs DEF ReadNext, Reader, FindFile, ListEnds, PassOver, Choose, FilesDone, ReadFile, OpenFails, ScanBuffer,
     ReadReturns, ReadCrash, Segfault, Reset, Start, BeginRead, Active, Beside

DiskReads ==
    /\ rpc \in Active /\ Good => \A p \in asked.disk : p.time < end /\ (HasGiven(p) \/ Awaits(p, {}))
    /\ rpc = "returned" /\ Good /\ ~failed => \A p \in asked.disk : Given(p)

LEMMA ActiveIs == /\ "returned" \notin Active /\ "idle" \notin Active /\ "stuck" \notin Active /\ "finding" \in Active
BY DEF Active

LEMMA GivenOn ==
    ASSUME ReadInv, ReaderInv, Good', [ReadNext]_allvars, rpc = "returned", rpc' # "idle", ~failed'
    PROVE  /\ Good /\ ~failed /\ asked' = asked /\ rpc' = "returned" /\ \A p : Given(p)' <=> Given(p)
           /\ Beside
<1>1. ~\E from \in Timestamp, to \in Timestamp \union {Forever} : BeginRead(from, to)
  BY DEF BeginRead
<1>2. Good /\ asked' = asked /\ Beside
  BY <1>1, ReadOn, ActiveIs
<1>3. failed' = failed /\ result' = result /\ rpc' = rpc
  BY <1>2 DEF Beside
<1> QED
  BY <1>2, <1>3 DEF Given

\* While a read is active every point of the disk it is asked for is given or awaited.
LEMMA DiskReadsStep ==
    ASSUME ReadInv, ReaderInv, DirInv', ReaderInv', FlushInv, DiskReads, [ReadNext]_allvars
    PROVE  DiskReads'
<1>1. CASE rpc' = "idle"
  BY <1>1, ActiveIs DEF DiskReads
<1>2. CASE \E from \in Timestamp, to \in Timestamp \union {Forever} : BeginRead(from, to)
  <2>1. PICK from \in Timestamp, to \in Timestamp \union {Forever} : BeginRead(from, to)
    BY <1>2
  <2>2. /\ UNCHANGED vars /\ rpc' \in {"returned", "finding"} /\ next' = from /\ end' = to
        /\ \A p \in asked'.disk : from <= p.time /\ p.time < to /\ Visible(p)
        /\ rpc' = "returned" => asked'.disk = {}
    BY <2>1, BeginIs
  <2>3. ASSUME NEW p \in asked'.disk PROVE \E n \in DOMAIN store' : Home(p, n)'
    <3>1. PICK n \in DOMAIN store : Home(p, n)
      BY <2>2, <2>3, VisibleHome DEF ReadInv
    <3> QED
      BY <2>2, <3>1, SameHomes
  <2>4. ASSUME NEW p \in asked'.disk, rpc' = "finding" PROVE Awaits(p, {})'
    BY <2>2, <2>3, <2>4 DEF Awaits
  <2> QED
    BY <2>2, <2>4, ActiveIs DEF DiskReads
<1>3. CASE rpc' # "idle" /\ ~\E from \in Timestamp, to \in Timestamp \union {Forever} : BeginRead(from, to)
  <2>1. SUFFICES ASSUME Good' PROVE DiskReads'
    BY DEF DiskReads
  <2>2. Good /\ end' = end /\ asked' = asked /\ (Beside \/ rpc \in Active)
    BY <1>3, <2>1, ReadOn
  <2>3. CASE rpc \in Active
    <3>1. ASSUME NEW p \in asked.disk PROVE p.time < end /\ (HasGiven(p)' \/ (Awaits(p, {})' /\ (rpc' = "returned" => failed')))
      <4>1. p.time < end /\ (HasGiven(p) \/ Awaits(p, {})) /\ p \in Point
        BY <2>2, <2>3, <3>1 DEF DiskReads, ReaderInv, ReadTypeOK
      <4>2. CASE HasGiven(p)
        BY <1>3, <2>1, <2>3, <4>1, <4>2, GivenStays
      <4>3. CASE Awaits(p, {})
        <5>1. {} \subseteq Buffered /\ (p \in {} => Newest(p))
          OBVIOUS
        <5> QED
          BY <1>3, <2>1, <2>3, <4>1, <4>3, <5>1, AwaitsStep
      <4> QED
        BY <4>1, <4>2, <4>3
    <3>2. ASSUME rpc' = "returned", ~failed', NEW p \in asked.disk PROVE Given(p)'
      <4>1. HasGiven(p)'
        BY <3>1, <3>2
      <4>2. result' = Read'
        BY <2>3, <3>2, ReturnedIs
      <4> QED
        BY <4>1, <4>2 DEF HasGiven, Given
    <3> QED
      BY <2>2, <3>1, <3>2 DEF DiskReads
  <2>4. CASE rpc \notin Active
    <3>1. rpc' = rpc /\ Beside
      BY <2>2, <2>4 DEF Beside
    <3>2. ASSUME rpc' = "returned", ~failed' PROVE \A p \in asked'.disk : Given(p)'
      BY <1>3, <2>1, <2>2, <3>1, <3>2, GivenOn DEF DiskReads
    <3> QED
      BY <2>4, <3>1, <3>2 DEF DiskReads
  <2> QED
    BY <2>3, <2>4
<1> QED
  BY <1>1, <1>2, <1>3

LEMMA DiskReadsInvariance == ReadSpec => [](ReadInv /\ ReaderInv /\ FlushInv /\ DiskReads)
<1>1. ReadInit => ReadInv /\ ReaderInv /\ FlushInv /\ DiskReads
  <2> SUFFICES ASSUME ReadInit PROVE ReadInv /\ ReaderInv /\ FlushInv /\ DiskReads
    OBVIOUS
  <2>1. rpc = "idle"
    BY DEF ReadInit
  <2> QED
    BY <2>1, ReadInvInit, ReaderInvInit, FlushInvInit, ActiveIs DEF DiskReads
<1>2. ReadInv /\ ReaderInv /\ FlushInv /\ DiskReads /\ [ReadNext]_allvars => (ReadInv /\ ReaderInv /\ FlushInv /\ DiskReads)'
  <2> SUFFICES ASSUME ReadInv, ReaderInv, FlushInv, DiskReads, [ReadNext]_allvars
               PROVE  ReadInv' /\ ReaderInv' /\ FlushInv' /\ DiskReads'
    OBVIOUS
  <2>1. ReadInv' /\ DirInv'
    BY ReadInvStep DEF ReadInv
  <2>2. ReaderInv' /\ FlushInv'
    BY <2>1, ReaderInvStep, FlushInvStep
  <2> QED
    BY <2>1, <2>2, DiskReadsStep
<1> QED
  BY <1>1, <1>2, PTL DEF ReadSpec

\* What was on disk when a read began, in a file that its name covers, is in the result, or
\* a newer version is, in however many chunks Database::Read gives it and whatever
\* SparseFile::Write and MoveFile do to the files between them.
THEOREM DiskIsRead == ReadSpec => []DiskPointsReturned
<1>1. DiskReads => DiskPointsReturned
  BY DEF DiskReads, DiskPointsReturned, Whole, Good
<1> QED
  BY <1>1, DiskReadsInvariance, PTL

\* What a flush has written so far.
Flushing ==
    /\ pc # "idle" => \A i \in 1..Len(buf) : buf[i].flush = flushes
    /\ \A q \in Stored : q.flush <= flushes /\ (pc # "idle" /\ q.flush = flushes => \E k \in 1..cursor : q = buf[k])

\* Only a flush that has begun to write is past the first file.
Past == /\ pc = "placing" /\ cursor > 0 => at > 1
        /\ pc \in {"listing", "spinning"} => cursor = 0

\* A point written is in a file whose name covers it, or will.
Reached(n, t) == t <= n.max \/ (Inside /\ n = Written /\ t <= reach)
SoFar == Good /\ pc # "idle" =>
             \A k \in 1..cursor : \E n \in DOMAIN store : buf[k] \in Range(store[n]) /\ Reached(n, buf[k].time)

\* The first point of a file is the one it is named after; a flush makes one with its own
\* first point only.
First == Good => \A n \in DOMAIN store :
    /\ Len(store[n]) >= 1 /\ store[n][1].time = n.min
    /\ pc # "idle" /\ store[n][1].flush = flushes => n.min = buf[1].time

LEMMA StoredIs == ASSUME DirInv
                  PROVE  /\ Stored \subseteq Point
                         /\ \A n \in DOMAIN store : store[n] \in Seq(Point) /\ Range(store[n]) \subseteq Stored
                         /\ \A p \in Point : p.flush \in Int /\ p.time \in Int /\ p.time \in 0..Forever
                         /\ flushes \in Int
<1>1. \A n \in DOMAIN store : store[n] \in Seq(Point) /\ Range(store[n]) \subseteq Stored
  BY DEF DirInv, TypeOK, Stored
<1>2. \A n \in DOMAIN store : Range(store[n]) \subseteq Point
  BY <1>1, RangeFinite
<1>3. \A p \in Point : p.flush \in Int /\ p.time \in Int /\ p.time \in 0..Forever
  BY PointFields, TimestampAssumption DEF Point
<1>4. flushes \in Int
  BY DEF DirInv, TypeOK
<1> QED
  BY <1>1, <1>2, <1>3, <1>4 DEF Stored

\* Steps that leave a flush where it is, if one goes on.
LEMMA StoredStays == ASSUME DirInv, [Next]_vars, ~(WriteToFile \/ WriteToNewFile)
                     PROVE  Stored' \subseteq Stored
<1> SUFFICES ASSUME NEW p, p \in Stored' PROVE p \in Stored
  OBVIOUS
<1>1. PICK n \in DOMAIN store' : p \in Range(store'[n])
  BY DEF Stored
<1>2. PICK m \in DOMAIN store : store'[n] = store[m]
  BY StoreSame
<1> QED
  BY <1>1, <1>2 DEF Stored

LEMMA FlushDoes ==
    ASSUME DirInv, NEW b \in Batches, Flush(b)
    PROVE  /\ pc = "idle" /\ pc' # "idle" /\ ~Inside' /\ ~Inside /\ flushes' = flushes + 1 /\ cursor' = 0
           /\ b \in Seq(Timestamp) /\ Len(buf') = Len(b) /\ Len(b) \in Nat /\ Len(b) >= 1
           /\ buf' = [i \in 1..Len(b) |-> [time |-> b[i], flush |-> flushes']]
           /\ \A i \in 1..Len(buf') : buf'[i] = [time |-> b[i], flush |-> flushes']
           /\ UNCHANGED <<store, new, filled, ignored>>
<1>1. /\ pc = "idle" /\ pc' \in {"listing", "placing", "spinning"} /\ flushes' = flushes + 1 /\ cursor' = 0
      /\ buf' = [i \in 1..Len(b) |-> [time |-> b[i], flush |-> flushes']]
      /\ UNCHANGED <<store, new, filled, ignored>> /\ flushes < MaxFlushes
  BY DEF Flush, Search
<1>2. flushes' \in 1..MaxFlushes
  BY <1>1, BoundsAssumption DEF DirInv, TypeOK
<1>3. Len(buf') = Len(b) /\ Len(b) \in Nat /\ Len(b) >= 1
  BY <1>1, <1>2, BatchIs
<1>4. b \in Seq(Timestamp)
  BY BatchTypes
<1> QED
  BY <1>1, <1>3, <1>4 DEF Inside

LEMMA FlushingStep == ASSUME DirInv, Flushing, [Next]_vars
                      PROVE  Flushing'
<1>1. CASE \E b \in Batches : Flush(b)
  <2>1. PICK b \in Batches : Flush(b)
    BY <1>1
  <2>2. /\ flushes' = flushes + 1 /\ store' = store /\ \A i \in 1..Len(buf') : buf'[i].flush = flushes'
    BY <2>1, FlushDoes
  <2>3. Stored' = Stored
    BY <2>2 DEF Stored
  <2>4. \A q \in Stored' : q.flush <= flushes' /\ q.flush # flushes'
    BY <2>2, <2>3, StoredIs DEF Flushing
  <2> QED
    BY <2>2, <2>4 DEF Flushing
<1>2. CASE WriteToFile \/ WriteToNewFile
  <2>1. PICK n, bound, room : WritesTo(n, bound, room)
    BY <1>2, WritingIs
  <2>2. /\ pc = "placing" /\ cursor' \in (cursor + 1)..Len(buf) /\ Stored' = Stored \union Batch
    BY <2>1, WriteGives
  <2>3. buf' = buf /\ flushes' = flushes /\ cursor \in Nat /\ Len(buf) \in Nat
    BY <2>1, BufIs DEF WritesTo, DirInv
  <2>4. ASSUME NEW q \in Stored' PROVE q.flush <= flushes /\ (q.flush = flushes => \E k \in 1..cursor' : q = buf[k])
    <3>1. CASE q \in Stored
      <4>1. 1..cursor \subseteq 1..cursor'
        BY <2>2, <2>3
      <4> QED
        BY <2>2, <3>1, <4>1 DEF Flushing
    <3>2. CASE q \in Batch
      <4>1. PICK i \in (cursor + 1)..cursor' : q = buf[i]
        BY <3>2 DEF Batch
      <4>2. i \in 1..cursor' /\ i \in 1..Len(buf)
        BY <2>2, <2>3, <4>1
      <4>3. q.flush = flushes /\ flushes \in Int
        BY <2>2, <4>1, <4>2, StoredIs DEF Flushing
      <4> QED
        BY <4>1, <4>2, <4>3
    <3> QED
      BY <2>2, <3>1, <3>2
  <2> QED
    BY <2>2, <2>3, <2>4 DEF Flushing
<1>3. CASE pc' = "idle" /\ flushes' = flushes /\ ~(WriteToFile \/ WriteToNewFile)
  <2>1. Stored' \subseteq Stored
    BY <1>3, StoredStays
  <2> QED
    BY <1>3, <2>1 DEF Flushing
<1>4. CASE pc # "idle" /\ UNCHANGED <<flushes, buf, cursor>> /\ ~(WriteToFile \/ WriteToNewFile)
  <2>1. Stored' \subseteq Stored
    BY <1>4, StoredStays
  <2> QED
    BY <1>4, <2>1 DEF Flushing
<1>5. CASE UNCHANGED vars
  <2>1. UNCHANGED <<pc, store, flushes, buf, cursor>>
    BY <1>5 DEF vars, writevars, history
  <2> QED
    BY <2>1 DEF Flushing, Stored
<1>6. FlushReturns \/ Abort \/ Crash => pc' = "idle" /\ flushes' = flushes
  BY DEF FlushReturns, Abort, Crash, Lost, history
<1>7. List \/ SkipFull \/ SkipOld \/ SetMax \/ KeepName \/ SetOptimized \/ WriteReturns \/ Move
          => pc # "idle" /\ UNCHANGED <<flushes, buf, cursor>>
  BY DEF List, SkipFull, SkipOld, Placing, SetMax, KeepName, SetOptimized, WriteReturns, Move, writevars, history
<1> QED
  BY <1>1, <1>2, <1>3, <1>4, <1>5, <1>6, <1>7 DEF Next, Step, Place

LEMMA PastStep == ASSUME DirInv, Past, [Next]_vars
                  PROVE  Past'
<1>0. at \in Nat \ {0} /\ cursor \in Nat
  BY BufIs, FilesAre DEF DirInv, TypeOK
<1>1. CASE \E b \in Batches : Flush(b)
  BY <1>1 DEF Flush, Past
<1>2. CASE List
  <2>1. cursor' = cursor /\ cursor = 0 /\ pc' \in {"spinning", "placing"}
    BY <1>2 DEF List, Search, Past
  <2> QED
    BY <2>1 DEF Past
<1>3. CASE SkipFull \/ SkipOld
  <2>1. at' = at + 1 /\ pc' = "placing"
    BY <1>3 DEF SkipFull, SkipOld, Placing
  <2> QED
    BY <1>0, <2>1 DEF Past
<1>4. CASE Inside'
  BY <1>4 DEF Inside, Past
<1>5. CASE (WriteReturns \/ Move) /\ Returned
  <2>1. at' = at + 1 /\ pc' = "placing"
    BY <1>5 DEF Returned
  <2> QED
    BY <1>0, <2>1 DEF Past
<1>6. CASE pc' = "idle"
  BY <1>6 DEF Past
<1>7. CASE UNCHANGED vars
  BY <1>7 DEF vars, writevars, Past
<1> QED
  BY <1>1, <1>2, <1>3, <1>4, <1>5, <1>6, <1>7 DEF Next, Step, Place, WriteToFile, WriteToNewFile, Write, SetMax, SetOptimized,
       Rename, KeepName, WriteReturns, Move, FlushReturns, Abort, Crash, Lost, Inside

LEMMA ReachedSame ==
    ASSUME DirInv, SoFar, Good, pc # "idle", UNCHANGED <<buf, cursor, store>>,
           \A n \in DOMAIN store : \A t \in 0..Forever : Reached(n, t) => Reached(n, t)'
    PROVE  SoFar'
<1>1. \A i \in 1..Len(buf) : buf[i].time \in 0..Forever
  BY BufIs DEF DirInv
<1>2. 1..cursor \subseteq 1..Len(buf)
  <2>1. cursor \in 0..Len(buf) /\ Len(buf) \in Nat
    BY DEF DirInv, TypeOK
  <2> QED
    BY <2>1
<1> QED
  BY <1>1, <1>2 DEF SoFar

LEMMA SoFarStep == ASSUME DirInv, Grows, SoFar, [Next]_vars
                   PROVE  SoFar'
<1>1. SUFFICES ASSUME Good', pc' # "idle" PROVE SoFar'
  BY DEF SoFar
<1>2. Good
  BY <1>1, Monotone DEF Good
<1>3. /\ cursor \in 0..Len(buf) /\ Len(buf) \in Nat /\ \A i \in 1..Len(buf) : buf[i].time \in 0..Forever
      /\ \A n \in DOMAIN store : n.max \in Int
  BY <1>2, BufIs, GoodIs DEF DirInv, TypeOK
<1>4. CASE \E b \in Batches : Flush(b)
  <2>1. PICK b \in Batches : Flush(b)
    BY <1>4
  <2>2. cursor' = 0
    BY <2>1, FlushDoes
  <2> QED
    BY <2>2 DEF SoFar
<1>5. CASE List \/ SkipFull \/ SkipOld \/ UNCHANGED vars
  <2>1. UNCHANGED <<buf, cursor, store>>
    BY <1>5 DEF List, SkipFull, SkipOld, vars, writevars
  <2>2. pc # "idle" /\ \A n \in DOMAIN store : \A t \in 0..Forever : Reached(n, t) => Reached(n, t)'
    <3>1. CASE List \/ SkipFull \/ SkipOld
      <4>1. ~Inside /\ pc # "idle"
        BY <3>1 DEF List, SkipFull, SkipOld, Placing, Inside
      <4> QED
        BY <4>1 DEF Reached
    <3>2. CASE UNCHANGED vars
      <4>1. UNCHANGED <<Inside, Written, reach, pc>>
        BY <3>2 DEF vars, writevars, Inside, Written, Object
      <4> QED
        BY <1>1, <4>1 DEF Reached
    <3> QED
      BY <1>5, <3>1, <3>2
  <2> QED
    BY <1>2, <2>1, <2>2, ReachedSame
<1>6. CASE WriteToFile \/ WriteToNewFile
  <2>1. PICK f, bound, room : WritesTo(f, bound, room)
    BY <1>6, WritingIs
  <2>2. /\ pc = "placing" /\ ~Inside /\ Inside' /\ Written' = f /\ cursor' \in (cursor + 1)..Len(buf)
        /\ DOMAIN store' = DOMAIN store \union {f}
    BY <2>1, WriteGives
  <2>2a. /\ \A m \in DOMAIN store' : m # f => store'[m] = store[m]
         /\ Range(store'[f]) = Range(Contents(f)) \union Batch
    BY <2>1, WriteAdds DEF Added
  <2>3. \A p \in Batch : p.time <= reach'
    BY <2>1, WriteGives
  <2>4. buf' = buf
    BY <2>1 DEF WritesTo
  <2>5. ASSUME NEW k \in 1..cursor' PROVE \E n \in DOMAIN store' : buf[k] \in Range(store'[n]) /\ Reached(n, buf[k].time)'
    <3>1. CASE k \in 1..cursor
      <4>1. PICK n \in DOMAIN store : buf[k] \in Range(store[n]) /\ Reached(n, buf[k].time)
        BY <1>2, <2>2, <3>1 DEF SoFar
      <4>2. buf[k].time <= n.max /\ n \in DOMAIN store'
        BY <2>2, <4>1 DEF Reached
      <4>3. n = f => Contents(f) = store[n]
        BY <4>1 DEF Contents
      <4>4. buf[k] \in Range(store'[n])
        BY <2>2a, <4>1, <4>2, <4>3
      <4> QED
        BY <2>4, <4>2, <4>4 DEF Reached
    <3>2. CASE k \notin 1..cursor
      <4>1. k \in (cursor + 1)..cursor'
        BY <1>3, <2>2, <3>2
      <4>2. buf[k] \in Batch
        BY <4>1 DEF Batch
      <4> QED
        BY <2>2, <2>2a, <2>3, <2>4, <4>2 DEF Reached
    <3> QED
      BY <3>1, <3>2
  <2> QED
    BY <2>4, <2>5 DEF SoFar
<1>7. CASE SetMax \/ SetOptimized
  <2>1. /\ Inside /\ Inside' /\ Written' = Written /\ UNCHANGED <<store, buf, cursor, reach>>
    BY <1>7, RenameDoes
  <2>2. pc # "idle"
    BY <2>1 DEF Inside
  <2> QED
    BY <1>2, <2>1, <2>2, ReachedSame DEF Reached
<1>8. CASE KeepName
  <2>1. /\ Inside /\ Inside' /\ Written' = Written /\ UNCHANGED <<store, buf, cursor, reach>>
    BY <1>8 DEF KeepName, Inside, Written, Object, writevars
  <2>2. pc # "idle"
    BY <2>1 DEF Inside
  <2> QED
    BY <1>2, <2>1, <2>2, ReachedSame DEF Reached
<1>9. CASE WriteReturns
  <2>1. /\ pc = "marking" /\ Inside /\ Written = Object /\ UNCHANGED <<store, buf, cursor, reach>>
    BY <1>9 DEF WriteReturns, Inside, Written
  <2>2. reach <= Object.max /\ reach \in Int /\ Object.max \in Int
    BY <2>1, ObjectIs, TimestampAssumption DEF Grows, DirInv, TypeOK
  <2>3. ASSUME NEW n, NEW t \in 0..Forever, Reached(n, t) PROVE t <= n.max
    BY <2>1, <2>2, <2>3 DEF Reached
  <2> QED
    BY <1>2, <2>1, <2>3, ReachedSame DEF Reached
<1>10. CASE Move
  <2>1. /\ pc = "moving" /\ Inside /\ Written = moving[1] /\ Object \in Name
        /\ moving[1] \in DOMAIN store /\ moving[1].min = Object.min
        /\ DOMAIN store' = (DOMAIN store \ {moving[1]}) \union {Object} /\ store'[Object] = store[moving[1]]
        /\ \A m \in DOMAIN store' \ {Object} : store'[m] = store[m]
    BY <1>10, MoveDoes
  <2>2. UNCHANGED <<buf, cursor>> /\ reach \in Int /\ Object.max \in Int /\ reach <= Object.max /\ moving[1].max <= Object.max
    BY <1>10, <2>1, ObjectIs, TimestampAssumption, SMTT(30) DEF Move, Grows, DirInv, TypeOK
  <2>3. ASSUME NEW k \in 1..cursor PROVE \E n \in DOMAIN store' : buf[k] \in Range(store'[n]) /\ Reached(n, buf[k].time)'
    <3>1. PICK n \in DOMAIN store : buf[k] \in Range(store[n]) /\ Reached(n, buf[k].time)
      BY <1>2, <2>1 DEF SoFar
    <3>2. buf[k].time \in Int /\ n.max \in Int /\ moving[1].max \in Int
      BY <1>3, <2>1
    <3>3. CASE n = moving[1]
      <4>1. buf[k].time <= Object.max
        BY <2>1, <2>2, <3>1, <3>2, <3>3 DEF Reached
      <4>2. Object \in DOMAIN store' /\ buf[k] \in Range(store'[Object])
        BY <2>1, <3>1, <3>3
      <4> QED
        BY <2>2, <4>1, <4>2 DEF Reached
    <3>4. CASE n # moving[1]
      <4>1. n # Object
        BY <1>2, <2>1, <3>1, <3>4, GoodIs
      <4>2. n \in DOMAIN store' /\ store'[n] = store[n] /\ buf[k].time <= n.max
        BY <2>1, <3>1, <3>4, <4>1 DEF Reached
      <4> QED
        BY <2>2, <3>1, <4>2 DEF Reached
    <3> QED
      BY <3>3, <3>4
  <2> QED
    BY <2>2, <2>3 DEF SoFar
<1> QED
  BY <1>1, <1>4, <1>5, <1>6, <1>7, <1>8, <1>9, <1>10 DEF Next, Step, Place, FlushReturns, Abort, Crash, Lost

LEMMA Widths == ASSUME NEW a \in Nat, NEW b \in Int, NEW l \in Nat, a + 1 <= b, b <= l
                PROVE  b \in a..l /\ b - a \in Nat /\ b - a >= 1 /\ 1 \in 1..(b - a)
OBVIOUS

\* The first point of a file a flush makes.
LEMMA WriteStarts ==
    ASSUME DirInv, AtFront, Good, Past, NEW f, NEW bound, NEW room, WritesTo(f, bound, room), ToNewFile(f, bound, room)
    PROVE  /\ f.min = buf[1].time /\ store'[f][1] = buf[1]
<1>1. f.min = NextTime /\ at = 1 /\ f \notin DOMAIN store
  BY NewIsFirst
<1>2. pc = "placing" /\ cursor' \in (cursor + 1)..Len(buf) /\ f \in DOMAIN store'
  BY WriteGives
<1>3. buf \in Seq(Point) /\ cursor \in Nat /\ Len(buf) \in Nat
  BY BufIs DEF DirInv
<1>3a. cursor' \in Int /\ cursor + 1 <= cursor' /\ cursor' <= Len(buf)
  <2>1. cursor' \in (cursor + 1)..Len(buf)
    BY <1>2
  <2> QED
    BY <1>3, <2>1
<1>4. cursor = 0
  BY <1>1, <1>2, <1>3 DEF Past
<1> DEFINE sub == SubSeq(buf, cursor + 1, cursor')
<1>5. store'[f] = <<>> \o sub
  <2>1. Write(f, bound, room) /\ DOMAIN store' = DOMAIN store \union {f}
    BY WriteGives DEF WritesTo
  <2> QED
    BY <1>1, <2>1 DEF Write
<1>6. sub \in Seq(Point) /\ Len(sub) = cursor' - cursor /\ sub[1] = buf[cursor + 1]
  <2>1. cursor' \in cursor..Len(buf) /\ 1 \in 1..(cursor' - cursor)
    BY <1>3, <1>3a, Widths
  <2> DEFINE to == cursor'
  <2>2. to \in cursor..Len(buf)
    BY <2>1
  <2> HIDE DEF to
  <2>3. /\ SubSeq(buf, cursor + 1, to) \in Seq(Point) /\ Len(SubSeq(buf, cursor + 1, to)) = to - cursor
        /\ \A i \in 1..(to - cursor) : SubSeq(buf, cursor + 1, to)[i] = buf[cursor + i]
    BY <1>3, <2>2, SliceIs
  <2>4. sub \in Seq(Point) /\ Len(sub) = cursor' - cursor /\ \A i \in 1..(cursor' - cursor) : sub[i] = buf[cursor + i]
    BY <2>3 DEF to
  <2> HIDE DEF sub
  <2> QED
    BY <2>1, <2>4
<1>7. Len(sub) >= 1
  BY <1>3, <1>3a, <1>6, Widths
<1> HIDE DEF sub
<1>8. (<<>> \o sub)[1] = sub[1]
  BY <1>6, <1>7
<1> QED
  BY <1>1, <1>4, <1>5, <1>6, <1>8 DEF NextTime

LEMMA Holds == ASSUME NEW s \in Seq(Point), s # <<>> \/ Range(s) # {}
               PROVE  Len(s) \in Nat /\ Len(s) >= 1 /\ s[1] \in Range(s)
<1>1. Len(s) \in Nat /\ DOMAIN s = 1..Len(s)
  OBVIOUS
<1>2. s # <<>>
  BY <1>1 DEF Range
<1>3. Len(s) >= 1
  BY <1>1, <1>2, EmptySeq
<1> QED
  BY <1>1, <1>3 DEF Range

LEMMA FirstStep == ASSUME DirInv, DirInv', AtFront, Flushing, Past, First, [Next]_vars
                   PROVE  First'
<1>1. SUFFICES ASSUME Good', NEW n \in DOMAIN store'
               PROVE  /\ Len(store'[n]) >= 1 /\ store'[n][1].time = n.min
                      /\ pc' # "idle" /\ store'[n][1].flush = flushes' => n.min = buf'[1].time
  BY DEF First
<1>2. Good
  BY <1>1, Monotone DEF Good
<1>3. CASE WriteToFile \/ WriteToNewFile
  <2>1. PICK f, bound, room : WritesTo(f, bound, room)
    BY <1>3, WritingIs
  <2>2. pc = "placing" /\ cursor < Len(buf)
    BY <2>1, WriteGives
  <2>3. buf' = buf /\ flushes' = flushes
    BY <2>1 DEF WritesTo
  <2>4. CASE n # f
    <3>1. n \in DOMAIN store /\ store'[n] = store[n]
      BY <2>1, <2>4, WriteAdds DEF Added
    <3> QED
      BY <1>2, <2>2, <2>3, <3>1 DEF First
  <2>5. CASE n = f /\ ToNewFile(f, bound, room)
    <3>1. f.min = buf[1].time /\ store'[f][1] = buf[1]
      BY <1>2, <2>1, <2>5, WriteStarts
    <3>2. Batch # {} /\ store'[f] \in Seq(Point)
      <4>1. cursor' \in (cursor + 1)..Len(buf) /\ cursor \in Nat /\ store'[f] \in Seq(Point)
        BY <2>1, WriteGives, BufIs DEF DirInv
      <4>2. cursor + 1 \in (cursor + 1)..cursor'
        BY <4>1
      <4> QED
        BY <4>1, <4>2 DEF Batch
    <3>3. Range(store'[f]) # {}
      BY <2>1, <3>2, WriteAdds, ZenonT(30) DEF Added
    <3> QED
      BY <2>3, <2>5, <3>1, <3>2, <3>3, Holds
  <2>6. CASE n = f /\ ToThisFile(f, bound, room)
    <3>1. f \in DOMAIN store /\ Contents(f) = store[f]
      BY <2>6 DEF ToThisFile, Contents
    <3>2. Len(store[f]) >= 1 /\ store[f] \in Seq(Point)
      BY <1>2, <3>1, GoodIs DEF First
    <3>3. 1 \in 1..Len(store[f])
      BY <3>2
    <3>4. store'[f][1] = store[f][1]
      <4>1. \A i \in 1..Len(Contents(f)) : store'[f][i] = Contents(f)[i]
        BY <2>1, WriteGives
      <4> QED
        BY <3>1, <3>3, <4>1
    <3>5. Len(store'[f]) >= 1
      <4>1. store[f][1] \in Range(store[f])
        BY <3>2, <3>3, Holds, EmptySeq
      <4>2. Range(store'[f]) # {}
        BY <2>1, <3>1, <4>1, WriteAdds DEF Added
      <4>3. store'[f] \in Seq(Point)
        BY <2>1, WriteGives
      <4> QED
        BY <4>2, <4>3, Holds
    <3> QED
      BY <1>2, <2>2, <2>3, <2>6, <3>1, <3>4, <3>5 DEF First
  <2> QED
    BY <2>1, <2>4, <2>5, <2>6 DEF WritesTo
<1>4. CASE ~(WriteToFile \/ WriteToNewFile)
  <2>1. PICK m \in DOMAIN store : m.min = n.min /\ store'[n] = store[m]
    BY <1>4, StoreSame
  <2>2. Len(store[m]) >= 1 /\ store[m][1].time = m.min
    BY <1>2, <2>1 DEF First
  <2>3. store[m][1].flush <= flushes
    <3>1. store[m] \in Seq(Point)
      BY <1>2, <2>1, GoodIs
    <3>2. store[m][1] \in Range(store[m])
      BY <2>2, <3>1, Holds, EmptySeq
    <3> QED
      BY <2>1, <3>2, StoredIs DEF Flushing
  <2>4. CASE \E b \in Batches : Flush(b)
    <3>1. flushes' = flushes + 1
      BY <2>4, FlushDoes
    <3>2. store'[n][1].flush # flushes'
      <4>1. flushes \in Int /\ ~(flushes + 1 <= flushes)
        BY StoredIs
      <4> QED
        BY <2>1, <2>3, <3>1, <4>1
    <3> QED
      BY <2>1, <2>2, <3>2
  <2>5. CASE pc' = "idle"
    BY <2>1, <2>2, <2>5
  <2>6. CASE pc # "idle" /\ UNCHANGED <<flushes, buf>>
    BY <1>2, <2>1, <2>2, <2>6 DEF First
  <2>7. CASE UNCHANGED vars
    <3>1. UNCHANGED <<flushes, buf, pc>>
      BY <2>7 DEF vars, writevars, history
    <3> QED
      BY <1>2, <2>1, <2>2, <3>1 DEF First
  <2>8. FlushReturns \/ Abort \/ Crash => pc' = "idle"
    BY DEF FlushReturns, Abort, Crash, Lost
  <2>9. List \/ SkipFull \/ SkipOld \/ SetMax \/ KeepName \/ SetOptimized \/ WriteReturns \/ Move
          => pc # "idle" /\ UNCHANGED <<flushes, buf>>
    BY DEF List, SkipFull, SkipOld, Placing, SetMax, KeepName, SetOptimized, WriteReturns, Move, writevars, history
  <2> QED
    BY <1>4, <2>4, <2>5, <2>6, <2>7, <2>8, <2>9 DEF Next, Step, Place
<1> QED
  BY <1>3, <1>4

WritingInv == Flushing /\ Past /\ SoFar /\ First

LEMMA WritingDoes == ASSUME DirInv, DirInv', FlushInv, WritingInv, [Next]_vars
                     PROVE  WritingInv'
BY FlushingStep, PastStep, SoFarStep, FirstStep DEF WritingInv, FlushInv

LEMMA WritingRests == ASSUME DirInv, WritingInv, ListEnds \/ Segfault
                      PROVE  WritingInv'
<1>1. /\ UNCHANGED <<store, flushes, filled>> /\ (ignored => ignored')
      /\ pc' = "idle" \/ UNCHANGED <<pc, buf, cursor>>
      /\ pc' \in {"idle", "listing", "spinning"}
  BY DEF ListEnds, Segfault, Lost, FlushInside, writevars, DirInv, TypeOK
<1>2. Flushing'
  BY <1>1 DEF WritingInv, Flushing, Stored
<1>3. Past'
  BY <1>1 DEF WritingInv, Past
<1>4. SoFar'
  <2>1. CASE pc' = "idle"
    BY <2>1 DEF SoFar
  <2>2. CASE pc' # "idle"
    <3>1. UNCHANGED <<pc, buf, cursor, store>> /\ ~Inside /\ pc # "idle" /\ (Good' => Good)
      BY <1>1, <2>2 DEF Inside, Good
    <3>2. \A n \in DOMAIN store : \A t : Reached(n, t) => Reached(n, t)'
      BY <3>1 DEF Reached
    <3> QED
      BY <3>1, <3>2, ReachedSame DEF WritingInv, SoFar
  <2> QED
    BY <2>1, <2>2
<1>5. First'
  BY <1>1 DEF WritingInv, First, Good
<1> QED
  BY <1>2, <1>3, <1>4, <1>5 DEF WritingInv

LEMMA WritingStep == ASSUME ReadInv, ReadInv', FlushInv, WritingInv, [ReadNext]_allvars
                     PROVE  WritingInv'
BY NextOrRests, WritingDoes, WritingRests DEF ReadInv

LEMMA WritingInit == ASSUME ReadInit PROVE WritingInv
<1>1. pc = "idle" /\ store = [n \in {} |-> <<>>]
  BY DEF ReadInit, Init
<1>2. DOMAIN store = {} /\ Stored = {}
  BY <1>1 DEF Stored
<1> QED
  BY <1>1, <1>2 DEF WritingInv, Flushing, Past, SoFar, First

\* A point that a flush is to write, or that is in a file.
Somewhere(p) == p \in Range(buf) \/ \E n \in DOMAIN store : p \in Range(store[n])

LEMMA BufPlace == ASSUME DirInv, NEW p \in Range(buf)
                  PROVE  \E k \in 1..Len(buf) : p = buf[k]
BY BufIs DEF DirInv, Range

\* Of a write only a point of the flush that comes later is above one.
LEMMA WriteAbove ==
    ASSUME DirInv, DirInv', FlushInv, Between', WritingInv, Good', NEW p \in Point, p.flush <= flushes, Above(p),
           Somewhere(p), WriteToFile \/ WriteToNewFile
    PROVE  Above(p)'
<1>0. Good /\ Between /\ AtFront /\ Flushing /\ Past /\ SoFar
  <2>1. [Next]_vars
    BY DEF Next, Step, Place
  <2> QED
    BY <2>1, Monotone DEF Good, FlushInv, WritingInv
<1>1. PICK f, bound, room : WritesTo(f, bound, room)
  BY WritingIs
<1>2. /\ DOMAIN store' = DOMAIN store \union {f} /\ f \in Name /\ pc = "placing" /\ f.min \in 0..Forever
      /\ \A m \in DOMAIN store' : m # f => m \in DOMAIN store /\ store'[m] = store[m]
      /\ Range(store'[f]) = Range(Contents(f)) \union Batch
      /\ \A q \in Batch : q.time <= bound /\ q \in Point
  BY <1>1, WriteAdds DEF Added
<1>3. /\ buf \in Seq(Point) /\ Len(buf) \in Nat /\ cursor \in Nat /\ \A i \in 1..Len(buf) : buf[i].time \in Int
      /\ cursor' \in Int /\ cursor + 1 <= cursor' /\ cursor' <= Len(buf)
      /\ \A i, j \in 1..Len(buf) : i < j => buf[i].time < buf[j].time
  <2>1. /\ buf \in Seq(Point) /\ Len(buf) \in Nat /\ cursor \in Nat /\ \A i \in 1..Len(buf) : buf[i].time \in 0..Forever
        /\ Ascending(buf)
    BY BufIs DEF DirInv, Shapes
  <2>2. cursor' \in (cursor + 1)..Len(buf)
    BY <1>1, WriteGives
  <2> QED
    BY <2>1, <2>2, TimestampAssumption DEF Ascending
<1>4. p.time \in Int /\ p.flush \in Int /\ \A m \in DOMAIN store : m.min \in Int
  BY <1>0, StoredIs, GoodIs
<1>5. ToNewFile(f, bound, room) => /\ f.min = buf[1].time /\ f \notin DOMAIN store
                                   /\ \A m \in DOMAIN store : f.min < m.min /\ bound < m.min
  BY <1>0, <1>1, WriteStarts, NewIsFirst
<1>6. ToThisFile(f, bound, room) => f \in DOMAIN store /\ Contents(f) = store[f]
  BY DEF ToThisFile, Contents
<1>7. ToThisFile(f, bound, room) \/ ToNewFile(f, bound, room)
  BY <1>1 DEF WritesTo
<1>8. f.min <= p.time
  <2>1. CASE ToThisFile(f, bound, room)
    BY <1>6, <2>1 DEF Above
  <2>2. CASE ToNewFile(f, bound, room)
    <3>1. CASE p \in Range(buf)
      <4>1. PICK k \in 1..Len(buf) : p = buf[k]
        BY <3>1, BufPlace
      <4>2. 1 \in 1..Len(buf) /\ (k = 1 \/ 1 < k)
        BY <1>3, <4>1
      <4>3. buf[1].time <= buf[k].time
        BY <1>3, <4>1, <4>2
      <4> QED
        BY <1>5, <2>2, <4>1, <4>3
    <3>2. CASE \E n \in DOMAIN store : p \in Range(store[n])
      <4>1. PICK n \in DOMAIN store : p \in Range(store[n])
        BY <3>2
      <4>2. f.min < n.min /\ n.min <= p.time /\ n.min \in Int
        BY <1>4, <1>5, <2>2, <4>1 DEF Above
      <4>3. f.min \in Int
        BY <1>2, TimestampAssumption
      <4> QED
        BY <1>4, <4>2, <4>3
    <3> QED
      BY <3>1, <3>2 DEF Somewhere
  <2> QED
    BY <1>7, <2>1, <2>2
<1>9. ASSUME NEW q \in Batch
      PROVE  q.flush >= p.flush /\ (q.time > p.time => p \in Range(store'[f]))
  <2>1. PICK i \in (cursor + 1)..cursor' : q = buf[i]
    BY <1>9 DEF Batch
  <2>2. i \in 1..Len(buf) /\ i <= cursor' /\ cursor < i /\ i \in Int
    BY <1>3, <2>1
  <2>3. q.flush = flushes
    BY <1>0, <1>2, <2>1, <2>2 DEF Flushing
  <2>4. ASSUME q.time > p.time PROVE p \in Range(store'[f])
    <3>1. CASE \E n \in DOMAIN store : p \in Range(store[n])
      <4>1. PICK n \in DOMAIN store : p \in Range(store[n])
        BY <3>1
      <4>2. n.min <= p.time /\ n.min \in Int /\ f.min \in Int /\ q.time \in Int /\ bound \in Int
        BY <1>1, <1>2, <1>4, <1>9, <4>1, StoredIs, TimestampAssumption DEF Above, WritesTo
      <4>3. ToThisFile(f, bound, room)
        <5>1. SUFFICES ASSUME ToNewFile(f, bound, room) PROVE FALSE
          BY <1>7
        <5>2. q.time <= bound /\ bound < n.min
          BY <1>2, <1>5, <1>9, <4>1, <5>1
        <5> QED
          BY <1>4, <2>4, <4>2, <5>2
      <4>4. ~(f.min < n.min)
        <5>1. SUFFICES ASSUME f.min < n.min PROVE FALSE
          OBVIOUS
        <5>2. q \in Range(store'[f]) /\ f \in DOMAIN store' /\ n \in DOMAIN store' /\ Good'
          BY <1>2, <1>9, <4>1
        <5>3. q.time < n.min
          BY <5>1, <5>2 DEF Between
        <5> QED
          BY <1>4, <2>4, <4>2, <5>3
      <4>5. ~(n.min < f.min)
        <5>1. SUFFICES ASSUME n.min < f.min PROVE FALSE
          OBVIOUS
        <5>2. p.time < f.min
          BY <1>0, <1>6, <4>1, <4>3, <5>1 DEF Between
        <5> QED
          BY <1>4, <1>8, <4>2, <5>2
      <4>6. n.min = f.min
        BY <4>2, <4>4, <4>5
      <4>7. n = f
        BY <1>0, <1>6, <4>1, <4>3, <4>6, GoodIs
      <4> QED
        BY <1>2, <1>6, <4>1, <4>3, <4>7
    <3>2. CASE p \in Range(buf) /\ ~\E n \in DOMAIN store : p \in Range(store[n])
      <4>1. PICK k \in 1..Len(buf) : p = buf[k]
        BY <3>2, BufPlace
      <4>2. k \in Int /\ cursor < k
        <5>1. SUFFICES ASSUME k <= cursor PROVE FALSE
          BY <1>3, <4>1
        <5>2. k \in 1..cursor
          BY <1>3, <4>1, <5>1
        <5> QED
          BY <1>0, <1>2, <3>2, <4>1, <5>2 DEF SoFar
      <4>3. k < i
        <5>1. k # i
          BY <1>3, <2>1, <2>2, <2>4, <4>1
        <5>2. ~(i < k)
          BY <1>3, <2>1, <2>2, <2>4, <4>1
        <5> QED
          BY <2>2, <4>2, <5>1, <5>2
      <4>4. k \in (cursor + 1)..cursor'
        BY <1>3, <2>2, <4>2, <4>3
      <4>5. p \in Batch
        BY <4>1, <4>4 DEF Batch
      <4> QED
        BY <1>2, <4>5
    <3> QED
      BY <3>1, <3>2 DEF Somewhere
  <2> QED
    BY <1>4, <2>3, <2>4, StoredIs
<1>10. ASSUME NEW q \in Range(Contents(f))
       PROVE  (q.time >= p.time => q.flush >= p.flush) /\ (q.time > p.time => p \in Range(store'[f]))
  <2>1. f \in DOMAIN store /\ Contents(f) = store[f]
    <3>1. f \notin DOMAIN store => Range(Contents(f)) = {}
      BY DEF Contents, Range
    <3> QED
      BY <1>10, <3>1 DEF Contents
  <2> QED
    BY <1>2, <1>10, <2>1 DEF Above
<1>11. ASSUME NEW n \in DOMAIN store', n # f PROVE n \in DOMAIN store /\ store'[n] = store[n]
  BY <1>2, <1>11
<1>12. \A q \in Range(store'[f]) : (q.time >= p.time => q.flush >= p.flush) /\ (q.time > p.time => p \in Range(store'[f]))
  BY <1>2, <1>9, <1>10
<1> QED
  BY <1>8, <1>11, <1>12 DEF Above

LEMMA AboveSame == ASSUME NEW p, Above(p), \A n \in DOMAIN store' : \E m \in DOMAIN store : m.min = n.min /\ store'[n] = store[m]
                   PROVE  Above(p)'
BY DEF Above

\* While a read is asked for a point of the buffer nothing above it is written but what
\* its own flush brings.
LEMMA NewestStays ==
    ASSUME ReadInv, DirInv', FlushInv, FlushInv', WritingInv, Good', NEW p \in Point, Newest(p),
           p \in Buffered \/ \E n \in DOMAIN store : p \in Range(store[n]), [ReadNext]_allvars, rpc' # "idle"
    PROVE  Newest(p)'
<1>0. DirInv /\ Above(p) /\ p.flush \in Int /\ flushes \in Int
  BY StoredIs DEF ReadInv, Newest
<1>1. CASE UNCHANGED <<store, pc, pending, buf, flushes>>
  BY <1>1 DEF Newest, Above, Buffered
<1>2. CASE \E b \in Batches : Arrive(b)
  <2>1. pc = "idle" /\ pending = <<>> /\ UNCHANGED <<store, flushes>>
    BY <1>2 DEF Arrive, vars, history
  <2>2. Len(pending) = 0
    BY <2>1
  <2>3. p \notin Buffered
    BY <2>1, <2>2 DEF Buffered
  <2>4. Above(p)'
    BY <1>0, <2>1 DEF Above
  <2> QED
    BY <2>1, <2>3, <2>4 DEF Newest
<1>3. CASE FlushBegins
  <2>1. pending \in Batches /\ Flush(pending)
    BY <1>3 DEF FlushBegins, ReadInv, Pended
  <2>2. pc = "idle" /\ flushes' = flushes + 1 /\ store' = store
    BY <1>0, <2>1, FlushDoes
  <2>3. p \in Buffered => p.flush = flushes + 1
    BY <2>2 DEF Buffered
  <2>4. p.flush <= flushes'
    BY <1>0, <2>2, <2>3 DEF Newest
  <2>5. Above(p)'
    BY <1>0, <2>2 DEF Above
  <2> QED
    BY <2>4, <2>5 DEF Newest
<1>4. CASE FlushSteps \/ FlushClears
  <2>1. pc # "idle" /\ flushes' = flushes /\ [Next]_vars
    <3>1. Place \/ FlushReturns
      BY <1>4 DEF FlushSteps, FlushClears
    <3> QED
      BY <3>1 DEF Next, Step, Place, List, SkipFull, SkipOld, Placing, WriteToFile, WriteToNewFile, SetMax, KeepName,
           SetOptimized, WriteReturns, Move, FlushReturns, history
  <2>2. p.flush <= flushes
    BY <2>1 DEF Newest
  <2>3. Above(p)'
    <3>1. CASE WriteToFile \/ WriteToNewFile
      <4>1. Somewhere(p)
        BY <2>1 DEF Buffered, Somewhere
      <4>2. Between'
        BY DEF FlushInv
      <4> QED
        BY <1>0, <2>2, <3>1, <4>1, <4>2, WriteAbove
    <3>2. CASE ~(WriteToFile \/ WriteToNewFile)
      BY <1>0, <2>1, <3>2, StoreSame, AboveSame
    <3> QED
      BY <3>1, <3>2
  <2> QED
    BY <2>1, <2>2, <2>3 DEF Newest
<1>5. (\E from \in Timestamp, to \in Timestamp \union {Forever} : BeginRead(from, to)) \/ ListEnds \/ UNCHANGED allvars
         => UNCHANGED <<store, pc, pending, buf, flushes>>
  BY DEF BeginRead, ListEnds, allvars, vars, readvars, writevars, history
<1>6. FindFile \/ PassOver \/ Choose \/ FilesDone \/ ReadFile \/ OpenFails \/ ScanBuffer \/ Deliver \/ GiveUp
         => UNCHANGED <<store, pc, pending, buf, flushes>>
  BY DEF FindFile, PassOver, Choose, FilesDone, ReadFile, OpenFails, ScanBuffer, Deliver, GiveUp, Unmoved, vars, writevars, history
<1>7. ~(ReadReturns \/ ReadCrash \/ Segfault)
  BY DEF ReadReturns, ReadCrash, Segfault, Reset
<1> QED
  BY <1>1, <1>2, <1>3, <1>4, <1>5, <1>6, <1>7 DEF ReadNext, Flusher, Reader

\* A point of the buffer that no file has a later one than is newest.
LEMMA BeginNewest ==
    ASSUME DirInv, Good, FlushInv, WritingInv, NEW p \in Point, p \in Buffered, \A q \in Stored : q.flush < p.flush => q.time < p.time
    PROVE  Newest(p)
<1>1. /\ p.flush \in Int /\ p.time \in Int /\ flushes \in Int /\ Flushing /\ SoFar /\ First /\ Between
      /\ \A q \in Stored : q.flush \in Int /\ q.time \in Int /\ q \in Point /\ q.flush <= flushes
      /\ \A n \in DOMAIN store : n.min \in Int /\ store[n] \in Seq(Point) /\ Range(store[n]) \subseteq Stored
  <2>1. /\ p.flush \in Int /\ p.time \in Int /\ flushes \in Int /\ Flushing /\ SoFar /\ First /\ Between
        /\ \A n \in DOMAIN store : n.min \in Int /\ store[n] \in Seq(Point) /\ Range(store[n]) \subseteq Stored
    BY StoredIs, GoodIs DEF WritingInv, FlushInv
  <2>2. \A q \in Stored : q.flush \in Int /\ q.time \in Int /\ q \in Point /\ q.flush <= flushes
    BY <2>1, StoredIs DEF Flushing
  <2> QED
    BY <2>1, <2>2
<1>2. CASE pc = "idle"
  <2>1. p.flush = flushes + 1
    BY <1>2 DEF Buffered
  <2>2. \A q \in Stored : q.time < p.time
    <3> TAKE q \in Stored
    <3>1. q.flush < p.flush
      BY <1>1, <2>1
    <3> QED
      BY <3>1
  <2>3. ASSUME NEW n \in DOMAIN store PROVE n.min <= p.time
    <3>1. Len(store[n]) >= 1 /\ store[n][1].time = n.min
      BY <1>1, <2>3 DEF First
    <3>2. store[n][1] \in Stored
      BY <1>1, <3>1, Holds, EmptySeq
    <3> QED
      BY <1>1, <2>2, <3>1, <3>2
  <2>4. ASSUME NEW n \in DOMAIN store, NEW q \in Range(store[n]) PROVE ~(q.time >= p.time)
    BY <1>1, <2>2, <2>4
  <2>5. \A n \in DOMAIN store : \A q \in Range(store[n]) : ~(q.time > p.time)
    BY <1>1, <2>2
  <2> QED
    BY <1>2, <2>3, <2>4, <2>5 DEF Newest, Above
<1>3. CASE pc # "idle"
  <2>1. PICK k \in 1..Len(buf) : p = buf[k]
    BY <1>3, BufPlace DEF Buffered
  <2>2. /\ p.flush = flushes /\ Len(buf) \in Nat /\ \A i \in 1..Len(buf) : buf[i].time \in Int
        /\ cursor \in Nat /\ cursor <= Len(buf)
        /\ \A i, j \in 1..Len(buf) : i < j => buf[i].time < buf[j].time
    <3>1. /\ Len(buf) \in Nat /\ \A i \in 1..Len(buf) : buf[i].time \in 0..Forever
          /\ cursor \in Nat /\ cursor <= Len(buf) /\ Ascending(buf)
      BY BufIs DEF DirInv, Shapes
    <3>2. p.flush = flushes
      BY <1>1, <1>3, <2>1 DEF Flushing
    <3>3. Forever \in Nat
      BY TimestampAssumption
    <3>4. \A i \in 1..Len(buf) : buf[i].time \in Int
      BY <3>1, <3>3
    <3>5. \A i, j \in 1..Len(buf) : i < j => buf[i].time < buf[j].time
      BY <3>1 DEF Ascending
    <3> QED
      BY <3>1, <3>2, <3>4, <3>5
  <2>3. ASSUME NEW n \in DOMAIN store PROVE n.min <= p.time
    <3>1. /\ Len(store[n]) >= 1 /\ store[n][1].time = n.min
          /\ store[n][1].flush = flushes => n.min = buf[1].time
      BY <1>1, <1>3, <2>3 DEF First
    <3>2. store[n][1] \in Stored
      BY <1>1, <3>1, Holds, EmptySeq
    <3>3. CASE store[n][1].flush = flushes
      <4>1. 1 \in 1..Len(buf) /\ (k = 1 \/ 1 < k)
        BY <2>2
      <4>2. buf[1].time <= buf[k].time
        BY <2>2, <4>1
      <4> QED
        BY <2>1, <3>1, <3>3, <4>2
    <3>4. CASE store[n][1].flush # flushes
      <4>1. store[n][1].flush < p.flush
        BY <1>1, <2>2, <3>2, <3>4
      <4> QED
        BY <1>1, <3>1, <3>2, <4>1
    <3> QED
      BY <3>3, <3>4
  <2>4. ASSUME NEW n \in DOMAIN store, NEW q \in Range(store[n])
        PROVE  /\ q.time >= p.time => q.flush >= p.flush
               /\ q.time > p.time => p \in Range(store[n])
    <3>1. q \in Stored /\ q.flush \in Int /\ q.time \in Int
      BY <1>1, <2>4
    <3>2. q.time >= p.time => q.flush >= p.flush
      BY <1>1, <3>1
    <3>3. ASSUME q.time > p.time PROVE p \in Range(store[n])
      <4>1. q.flush = flushes
        <5>1. q.flush <= flushes /\ ~(q.flush < p.flush)
          BY <1>1, <3>1, <3>3
        <5> QED
          BY <1>1, <2>2, <3>1, <5>1
      <4>2. PICK j \in 1..cursor : q = buf[j]
        BY <1>1, <1>3, <3>1, <4>1 DEF Flushing
      <4>3. k < j
        <5>1. j \in 1..Len(buf) /\ j \in Int /\ k \in Int
          BY <2>2
        <5>2. k # j /\ ~(j < k)
          BY <2>1, <2>2, <3>3, <4>2, <5>1
        <5> QED
          BY <5>1, <5>2
      <4>4. k \in 1..cursor
        BY <2>2, <4>3
      <4>5. PICK m \in DOMAIN store : p \in Range(store[m])
        BY <1>1, <1>3, <2>1, <4>4 DEF SoFar
      <4>6. n.min <= p.time /\ m.min <= p.time /\ n.min \in Int /\ m.min \in Int
        BY <1>1, <2>3
      <4>7. ~(n.min < m.min)
        BY <1>1, <2>4, <3>1, <3>3, <4>6 DEF Between
      <4>8. ~(m.min < n.min)
        BY <1>1, <4>5, <4>6 DEF Between
      <4>9. m = n
        BY <4>6, <4>7, <4>8, GoodIs
      <4> QED
        BY <4>5, <4>9
    <3> QED
      BY <3>2, <3>3
  <2> QED
    BY <1>1, <2>2, <2>3, <2>4 DEF Newest, Above
<1> QED
  BY <1>2, <1>3

LEMMA EmptiedStays == ASSUME [ReadNext]_allvars, rpc' # "idle", ~emptied'
                      PROVE  ~emptied
<1>1. (\E b \in Batches : Arrive(b)) \/ FlushBegins \/ UNCHANGED allvars \/ FlushSteps => emptied' = emptied
  BY DEF Arrive, FlushBegins, FlushSteps, reader, allvars, readvars
<1>2. (\E from \in Timestamp, to \in Timestamp \union {Forever} : BeginRead(from, to)) => emptied' = emptied
  BY DEF BeginRead
<1>3. FlushClears => (emptied => emptied')
  BY DEF FlushClears
<1>4. FindFile \/ ListEnds \/ PassOver \/ Choose \/ FilesDone \/ ReadFile \/ OpenFails \/ ScanBuffer \/ Deliver \/ GiveUp
         => emptied' = emptied
  BY DEF FindFile, ListEnds, PassOver, Choose, FilesDone, ReadFile, OpenFails, ScanBuffer, Deliver, GiveUp, Unmoved
<1>5. ~(ReadReturns \/ ReadCrash \/ Segfault)
  BY DEF ReadReturns, ReadCrash, Segfault, Reset
<1> QED
  BY <1>1, <1>2, <1>3, <1>4, <1>5 DEF ReadNext, Flusher, Reader

\* A point leaves the buffer when its flush returns: it has a home then.
LEMMA BufferedOn ==
    ASSUME ReadInv, WritingInv, Good, [ReadNext]_allvars, rpc' # "idle", NEW p \in Buffered
    PROVE  \/ p \in Buffered'
           \/ (\E n \in DOMAIN store' : Home(p, n)') /\ (~emptied' => rpc' \notin {"choosing", "opening", "scanning"})
<1>0. DirInv
  BY DEF ReadInv
<1>1. CASE UNCHANGED <<pc, pending, buf, flushes>>
  BY <1>1 DEF Buffered
<1>2. CASE \E b \in Batches : Arrive(b)
  <2>1. pc = "idle" /\ pending = <<>>
    BY <1>2 DEF Arrive
  <2>2. Len(pending) = 0
    BY <2>1
  <2> QED
    BY <2>1, <2>2 DEF Buffered
<1>3. CASE FlushBegins
  <2>1. pending \in Batches /\ Flush(pending)
    BY <1>3 DEF FlushBegins, ReadInv, Pended
  <2>2. /\ pc = "idle" /\ pc' # "idle" /\ flushes' = flushes + 1
        /\ buf' = [i \in 1..Len(pending) |-> [time |-> pending[i], flush |-> flushes']]
    BY <1>0, <2>1, FlushDoes
  <2>3. PICK i \in 1..Len(pending) : p = [time |-> pending[i], flush |-> flushes + 1]
    BY <2>2 DEF Buffered
  <2>4. i \in DOMAIN buf' /\ buf'[i] = p
    BY <2>2, <2>3
  <2> QED
    BY <2>2, <2>4 DEF Buffered, Range
<1>4. CASE FlushSteps
  <2>1. pc # "idle" /\ pc' # "idle" /\ buf' = buf
    <3>1. Place
      BY <1>4 DEF FlushSteps
    <3>2. List \/ SkipFull \/ SkipOld => pc # "idle" /\ pc' # "idle" /\ buf' = buf
      BY DEF List, Search, SkipFull, SkipOld, Placing
    <3>3. WriteToFile \/ WriteToNewFile => pc # "idle" /\ pc' # "idle" /\ buf' = buf
      BY DEF WriteToFile, WriteToNewFile, Placing, Write
    <3>4. SetMax \/ SetOptimized \/ KeepName => pc # "idle" /\ pc' # "idle" /\ buf' = buf
      BY DEF SetMax, SetOptimized, KeepName, Rename, writevars
    <3>5. WriteReturns \/ Move => pc # "idle" /\ pc' # "idle" /\ buf' = buf
      BY DEF WriteReturns, Move, Returned
    <3> QED
      BY <3>1, <3>2, <3>3, <3>4, <3>5 DEF Place
  <2> QED
    BY <2>1 DEF Buffered
<1>5. CASE FlushClears
  <2>1. /\ pc = "placing" /\ cursor = Len(buf) /\ UNCHANGED <<store, new, files>> /\ rpc' = rpc
        /\ (~emptied' => rpc \notin {"choosing", "opening", "scanning"})
    BY <1>5 DEF FlushClears, FlushReturns
  <2>2. PICK k \in 1..Len(buf) : p = buf[k]
    BY <1>0, <2>1, BufPlace DEF Buffered
  <2>3. PICK n \in DOMAIN store : p \in Range(store[n]) /\ Reached(n, p.time)
    BY <2>1, <2>2 DEF WritingInv, SoFar
  <2>4. new = <<>> /\ ~Inside
    BY <1>0, <2>1 DEF DirInv, Shapes, Inside
  <2>5. Home(p, n)'
    BY <2>1, <2>3, <2>4 DEF Reached, Home
  <2> QED
    BY <2>1, <2>3, <2>5
<1>6. (\E from \in Timestamp, to \in Timestamp \union {Forever} : BeginRead(from, to)) \/ ListEnds \/ UNCHANGED allvars
         => UNCHANGED <<pc, pending, buf, flushes>>
  BY DEF BeginRead, ListEnds, allvars, vars, readvars, writevars, history
<1>7. FindFile \/ PassOver \/ Choose \/ FilesDone \/ ReadFile \/ OpenFails \/ ScanBuffer \/ Deliver \/ GiveUp
         => UNCHANGED <<pc, pending, buf, flushes>>
  BY DEF FindFile, PassOver, Choose, FilesDone, ReadFile, OpenFails, ScanBuffer, Deliver, GiveUp, Unmoved, vars, writevars, history
<1>8. ~(ReadReturns \/ ReadCrash \/ Segfault)
  BY DEF ReadReturns, ReadCrash, Segfault, Reset
<1> QED
  BY <1>1, <1>2, <1>3, <1>4, <1>5, <1>6, <1>7, <1>8 DEF ReadNext, Flusher, Reader

NewReads ==
    /\ rpc \in Active /\ Good /\ ~emptied =>
           \A p \in asked.buffer : p.time < end /\ (HasGiven(p) \/ (Awaits(p, Buffered) /\ Newest(p)))
    /\ rpc = "returned" /\ Good /\ ~failed /\ ~emptied => \A p \in asked.buffer : Given(p)

\* While a read is active every point of the buffer it is asked for is given, or awaited
\* in the buffer or in a file.
LEMMA NewReadsStep ==
    ASSUME ReadInv, ReaderInv, DirInv', ReaderInv', FlushInv, FlushInv', WritingInv, NewReads, [ReadNext]_allvars
    PROVE  NewReads'
<1>1. CASE rpc' = "idle"
  BY <1>1, ActiveIs DEF NewReads
<1>2. CASE \E from \in Timestamp, to \in Timestamp \union {Forever} : BeginRead(from, to)
  <2>1. PICK from \in Timestamp, to \in Timestamp \union {Forever} : BeginRead(from, to)
    BY <1>2
  <2>2. /\ UNCHANGED vars /\ rpc' \in {"returned", "finding"} /\ next' = from /\ end' = to
        /\ \A p \in asked'.buffer : from <= p.time /\ p.time < to
        /\ \A p \in asked'.buffer : p \in Buffered /\ \A q \in Stored : q.flush < p.flush => q.time < p.time
        /\ rpc' = "returned" => asked'.buffer = {}
    BY <2>1, BeginIs
  <2>3. UNCHANGED <<pc, pending, buf, flushes, filled, ignored, store>>
    BY <2>1 DEF BeginRead, vars, writevars, history
  <2>4. ASSUME NEW p \in asked'.buffer, rpc' = "finding", Good PROVE Awaits(p, Buffered)' /\ Newest(p)'
    <3>1. p \in Buffered' /\ p \in Point
      BY <2>2, <2>3, <2>4 DEF Buffered, ReaderInv, ReadTypeOK
    <3>2. Newest(p)
      BY <2>2, <2>4, <3>1, BeginNewest DEF ReadInv
    <3>3. Newest(p)'
      BY <2>3, <3>2 DEF Newest, Above, Buffered
    <3>4. Awaits(p, Buffered)'
      BY <2>2, <2>4, <3>1 DEF Awaits
    <3> QED
      BY <3>3, <3>4
  <2>5. Good' => Good
    BY <2>3 DEF Good
  <2> QED
    BY <2>2, <2>4, <2>5, ActiveIs DEF NewReads
<1>3. CASE rpc' # "idle" /\ ~\E from \in Timestamp, to \in Timestamp \union {Forever} : BeginRead(from, to)
  <2>1. SUFFICES ASSUME Good', ~emptied' PROVE NewReads'
    BY DEF NewReads
  <2>2. Good /\ end' = end /\ asked' = asked /\ (Beside \/ rpc \in Active) /\ ~emptied
    BY <1>3, <2>1, ReadOn, EmptiedStays
  <2>3. CASE rpc \in Active
    <3>1. ASSUME NEW p \in asked.buffer
          PROVE  p.time < end /\ (HasGiven(p)' \/ (Awaits(p, Buffered)' /\ Newest(p)' /\ (rpc' = "returned" => failed')))
      <4>1. p.time < end /\ (HasGiven(p) \/ (Awaits(p, Buffered) /\ Newest(p))) /\ p \in Point
        BY <2>2, <2>3, <3>1 DEF NewReads, ReaderInv, ReadTypeOK
      <4>2. CASE HasGiven(p)
        BY <1>3, <2>1, <2>3, <4>1, <4>2, GivenStays
      <4>3. CASE Awaits(p, Buffered) /\ Newest(p)
        <5>1. PICK S : S = Buffered
          OBVIOUS
        <5>2. S \subseteq Buffered /\ Awaits(p, S) /\ (p \in S => Newest(p))
          BY <4>3, <5>1
        <5>3. HasGiven(p)' \/ (Awaits(p, S)' /\ (rpc' = "returned" => failed'))
          BY <1>3, <2>1, <2>3, <4>1, <5>2, AwaitsStep
        <5>4. p \in Buffered \/ \E n \in DOMAIN store : p \in Range(store[n])
          BY <4>3 DEF Awaits, Home
        <5>5. Newest(p)'
          BY <1>3, <2>1, <4>1, <4>3, <5>4, NewestStays
        <5>6. \/ (p \in S => p \in Buffered)'
              \/ ((\E n \in DOMAIN store : Home(p, n)) /\ rpc \notin {"choosing", "opening", "scanning"})'
          <6>1. CASE p \in S
            <7>1. \/ p \in Buffered'
                  \/ (\E n \in DOMAIN store' : Home(p, n)') /\ (~emptied' => rpc' \notin {"choosing", "opening", "scanning"})
              BY <1>3, <2>2, <5>1, <6>1, BufferedOn
            <7> QED
              BY <2>1, <7>1
          <6>2. CASE p \notin S
            BY <6>2
          <6> QED
            BY <6>1, <6>2
        <5>7. Awaits(p, S)' => Awaits(p, Buffered)'
          BY <5>6 DEF Awaits
        <5> QED
          BY <4>1, <5>3, <5>5, <5>7
      <4> QED
        BY <4>1, <4>2, <4>3
    <3>2. ASSUME rpc' = "returned", ~failed', NEW p \in asked.buffer PROVE Given(p)'
      <4>1. HasGiven(p)'
        BY <3>1, <3>2
      <4>2. result' = Read'
        BY <2>3, <3>2, ReturnedIs
      <4> QED
        BY <4>1, <4>2 DEF HasGiven, Given
    <3> QED
      BY <2>2, <3>1, <3>2 DEF NewReads
  <2>4. CASE rpc \notin Active
    <3>1. rpc' = rpc /\ Beside
      BY <2>2, <2>4 DEF Beside
    <3>2. ASSUME rpc' = "returned", ~failed' PROVE \A p \in asked'.buffer : Given(p)'
      BY <1>3, <2>1, <2>2, <3>1, <3>2, GivenOn DEF NewReads
    <3> QED
      BY <2>4, <3>1, <3>2 DEF NewReads
  <2> QED
    BY <2>3, <2>4
<1> QED
  BY <1>1, <1>2, <1>3

LEMMA NewReadsInvariance == ReadSpec => [](ReadInv /\ ReaderInv /\ FlushInv /\ WritingInv /\ NewReads)
<1> DEFINE I == ReadInv /\ ReaderInv /\ FlushInv /\ WritingInv /\ NewReads
<1>1. ReadInit => I
  <2> SUFFICES ASSUME ReadInit PROVE I
    OBVIOUS
  <2>1. rpc = "idle"
    BY DEF ReadInit
  <2> QED
    BY <2>1, ReadInvInit, ReaderInvInit, FlushInvInit, WritingInit, ActiveIs DEF NewReads
<1>2. I /\ [ReadNext]_allvars => I'
  <2> SUFFICES ASSUME ReadInv, ReaderInv, FlushInv, WritingInv, NewReads, [ReadNext]_allvars
               PROVE  ReadInv' /\ ReaderInv' /\ FlushInv' /\ WritingInv' /\ NewReads'
    OBVIOUS
  <2>1. ReadInv' /\ DirInv'
    BY ReadInvStep DEF ReadInv
  <2>2. ReaderInv' /\ FlushInv' /\ WritingInv'
    BY <2>1, ReaderInvStep, FlushInvStep, WritingStep
  <2> QED
    BY <2>1, <2>2, NewReadsStep
<1> QED
  BY <1>1, <1>2, PTL DEF ReadSpec

\* What Series holds in its buffer when a read begins, if newer than the files, is in the
\* result: taken from the buffer, or from a file where a flush has put it meanwhile; unless
\* that flush cleared the buffer between the read of the files and the scan of the buffer.
THEOREM BufferIsRead == ReadSpec => []NewPointsReturned
<1>1. NewReads => NewPointsReturned
  BY DEF NewReads, NewPointsReturned, Whole, Good
<1> QED
  BY <1>1, NewReadsInvariance, PTL

----------------------------------------------------------------------------
(* The search for the file to begin at (FindFirst), for any set of integers  *)
(* and a directory of any length: it stays within the files, returns the     *)
(* right one when it returns, and never returns once it is stuck.            *)

LEMMA Half == \A n \in Nat : /\ n \div 2 \in Nat
                             /\ 2 * (n \div 2) <= n
                             /\ n < 2 * (n \div 2) + 2
  OBVIOUS

\* The search has gone right: the last file it may return is behind it.
GoneRight == left > 0 => /\ right > 0
                         /\ left <= (right \div 2) + 1
                         /\ MinOf(right \div 2) < timestamp

RightIsAfter == \A i \in right..(Len(mins) - 1) : MinOf(i) > timestamp

MiddleIsLast == phase = "searching" => IF left > 0 THEN middle = left - 1
                                                ELSE middle = 0 \/ middle = right

SearchInvariant == SearchTypeOK /\ InOrder(mins) /\ GoneRight /\ RightIsAfter /\ MiddleIsLast
        /\ ReturnsAFile /\ ReturnsLastNotAfter

LEMMA MinsAreTimes == SearchTypeOK => /\ Len(mins) \in Nat
                               /\ \A i \in 0..(Len(mins) - 1) : MinOf(i) \in Int
<1> SUFFICES ASSUME SearchTypeOK
             PROVE  /\ Len(mins) \in Nat
                    /\ \A i \in 0..(Len(mins) - 1) : MinOf(i) \in Int
  OBVIOUS
<1>1. Len(mins) \in Nat /\ \A i \in 1..Len(mins) : mins[i] \in Timestamps
  BY DEF SearchTypeOK
<1>2. ASSUME NEW i \in 0..(Len(mins) - 1) PROVE MinOf(i) \in Int
  <2>1. i + 1 \in 1..Len(mins)
    BY <1>1
  <2> QED
    BY <1>1, <2>1, TimestampsAssumption DEF MinOf
<1> QED
  BY <1>1, <1>2

LEMMA OrderedMins == ASSUME SearchTypeOK, InOrder(mins), NEW i \in Nat, NEW j \in Nat,
                            i <= j, j < Len(mins)
                     PROVE  MinOf(i) <= MinOf(j) /\ MinOf(i) \in Int /\ MinOf(j) \in Int
<1>1. /\ i \in 0..(Len(mins) - 1) /\ j \in 0..(Len(mins) - 1)
      /\ i + 1 \in 1..Len(mins) /\ j + 1 \in 1..Len(mins)
  BY MinsAreTimes
<1>2. MinOf(i) \in Int /\ MinOf(j) \in Int
  BY <1>1, MinsAreTimes
<1>3. CASE i = j
  BY <1>2, <1>3
<1>4. CASE i < j
  BY <1>1, <1>2, <1>4 DEF InOrder, MinOf
<1> QED
  BY <1>3, <1>4

LEMMA InitSearch == SearchInit => SearchInvariant
  BY TimestampsAssumption DEF SearchInit, SearchInvariant, SearchTypeOK, GoneRight, RightIsAfter, MiddleIsLast,
     ReturnsAFile, ReturnsLastNotAfter

LEMMA ProbedProperties == ASSUME SearchTypeOK, left < right
                          PROVE  /\ Probed \in Nat
                                 /\ Probed < right /\ Probed < Len(mins)
                                 /\ Probed <= right \div 2
                                 /\ MinOf(Probed) \in Int
<1>1. /\ left \in Nat /\ right \in Nat /\ Len(mins) \in Nat /\ right <= Len(mins)
      /\ right - left \in Nat
  BY DEF SearchTypeOK
<1>2. Probed \in Nat /\ Probed < right /\ Probed <= right \div 2
  BY <1>1, Half DEF Probed
<1> QED
  BY <1>1, <1>2, MinsAreTimes

LEMMA StepSearch == SearchInvariant /\ [SearchNext]_searchVars => SearchInvariant'
<1> SUFFICES ASSUME SearchInvariant, [SearchNext]_searchVars PROVE SearchInvariant'
  OBVIOUS
<1>0. /\ left \in Nat /\ right \in Nat /\ Len(mins) \in Nat /\ right <= Len(mins)
      /\ left <= Len(mins) /\ timestamp \in Int /\ middle \in Nat
      /\ SearchTypeOK /\ InOrder(mins)
      /\ \A i \in 0..(Len(mins) - 1) : MinOf(i) \in Int
  BY TimestampsAssumption, MinsAreTimes DEF SearchInvariant, SearchTypeOK
<1>1. CASE GoLeft
  <2>1. /\ Probed \in Nat /\ Probed < right /\ Probed <= right \div 2 /\ MinOf(Probed) > timestamp
        /\ right' = Probed /\ middle' = Probed /\ mins' = mins /\ timestamp' = timestamp
        /\ left' = left /\ phase' = "searching"
    BY <1>0, <1>1, ProbedProperties DEF GoLeft
  <2>2. left = 0
    <3> SUFFICES ASSUME left > 0 PROVE FALSE
      BY <1>0
    <3>1. MinOf(right \div 2) < timestamp /\ right \div 2 \in Nat /\ right \div 2 < Len(mins)
      BY <1>0, Half DEF SearchInvariant, GoneRight
    <3> QED
      BY <1>0, <2>1, <3>1, OrderedMins
  <2>3. \A i \in Probed..(Len(mins) - 1) : MinOf(i) > timestamp
    BY <1>0, <2>1, OrderedMins
  <2> QED
    BY <1>0, <2>1, <2>2, <2>3 DEF SearchInvariant, SearchTypeOK, GoneRight, RightIsAfter, MiddleIsLast,
       ReturnsAFile, ReturnsLastNotAfter, MinOf
<1>2. CASE GoRight
  <2>1. /\ Probed \in Nat /\ Probed < right /\ Probed <= right \div 2 /\ MinOf(Probed) < timestamp
        /\ left' = Probed + 1 /\ middle' = Probed /\ mins' = mins /\ timestamp' = timestamp
        /\ right' = right /\ phase' = "searching"
    BY <1>0, <1>2, ProbedProperties DEF GoRight
  <2>2. MinOf(right \div 2) < timestamp
    <3>1. CASE left > 0
      BY <3>1 DEF SearchInvariant, GoneRight
    <3>2. CASE left = 0
      BY <1>0, <2>1, <3>2 DEF Probed
    <3> QED
      BY <1>0, <3>1, <3>2
  <2>3. GoneRight'
    BY <1>0, <2>1, <2>2 DEF GoneRight, MinOf
  <2> QED
    BY <1>0, <2>1, <2>3 DEF SearchInvariant, SearchTypeOK, RightIsAfter, MiddleIsLast,
       ReturnsAFile, ReturnsLastNotAfter, MinOf
<1>3. CASE Hit
  <2>1. /\ Probed \in Nat /\ Probed < Len(mins) /\ MinOf(Probed) = timestamp
        /\ middle' = Probed /\ mins' = mins /\ timestamp' = timestamp
        /\ left' = left /\ right' = right /\ phase' = "found"
    BY <1>0, <1>3, ProbedProperties DEF Hit
  <2>2. \A i \in 0..(Len(mins) - 1) : i > Probed /\ MinOf(i) <= timestamp => MinOf(i) = MinOf(Probed)
    <3> TAKE i \in 0..(Len(mins) - 1)
    <3> HAVE i > Probed /\ MinOf(i) <= timestamp
    <3>1. MinOf(Probed) <= MinOf(i) /\ MinOf(i) \in Int
      BY <1>0, <2>1, OrderedMins
    <3> QED
      BY <1>0, <2>1, <3>1
  <2> QED
    BY <1>0, <2>1, <2>2 DEF SearchInvariant, SearchTypeOK, GoneRight, RightIsAfter, MiddleIsLast,
       ReturnsAFile, ReturnsLastNotAfter, MinOf
<1>4. CASE Exhausted
  <2>1. /\ left >= right /\ phase = "searching" /\ phase' = "found"
        /\ UNCHANGED <<mins, timestamp, left, middle, right>>
    BY <1>4 DEF Exhausted
  <2>2. /\ middle = 0 \/ middle < Len(mins)
        /\ right <= middle + 1
    BY <1>0, <2>1, Half DEF SearchInvariant, GoneRight, MiddleIsLast
  <2>3. \A i \in 0..(Len(mins) - 1) : i > middle => MinOf(i) > timestamp
    BY <1>0, <2>2 DEF SearchInvariant, RightIsAfter
  <2>4. middle > 0 => MinOf(middle) <= timestamp
    <3> SUFFICES ASSUME middle > 0 PROVE MinOf(middle) <= timestamp
      OBVIOUS
    <3>1. left > 0 /\ middle = left - 1
      BY <1>0, <2>1 DEF SearchInvariant, MiddleIsLast
    <3>2. right \div 2 \in Nat /\ middle <= right \div 2 /\ right \div 2 < Len(mins)
          /\ MinOf(right \div 2) < timestamp
      BY <1>0, <3>1, Half DEF SearchInvariant, GoneRight
    <3> QED
      BY <1>0, <3>2, OrderedMins
  <2> QED
    BY <1>0, <2>1, <2>2, <2>3, <2>4 DEF SearchInvariant, SearchTypeOK, GoneRight, RightIsAfter,
       MiddleIsLast, ReturnsAFile, ReturnsLastNotAfter, MinOf
<1>5. CASE Return \/ UNCHANGED searchVars
  BY <1>5, SMTT(30) DEF Return, searchVars, SearchInvariant, SearchTypeOK, GoneRight, RightIsAfter, MiddleIsLast,
     ReturnsAFile, ReturnsLastNotAfter, MinOf
<1> QED
  BY <1>1, <1>2, <1>3, <1>4, <1>5 DEF SearchNext, SearchOnce

LEMMA SearchInvariantHolds == SearchSpec => []SearchInvariant
  BY InitSearch, StepSearch, PTL DEF SearchSpec

\* The bounds of the search stay within the directory.
THEOREM SearchTypesHold == SearchSpec => []SearchTypeOK
<1>1. SearchInvariant => SearchTypeOK
  BY DEF SearchInvariant
<1> QED
  BY <1>1, SearchInvariantHolds, PTL

\* The iterator returned can be dereferenced, unless the directory has no file at all
\* or the caller compares it with end() first.
THEOREM SearchInBounds == SearchSpec => []ReturnsAFile
<1>1. SearchInvariant => ReturnsAFile
  BY DEF SearchInvariant
<1> QED
  BY <1>1, SearchInvariantHolds, PTL

\* Partial correctness: when the search returns, it returns the last file that does not
\* start after the timestamp, or one that starts at the same time.
THEOREM SearchIsRight == SearchSpec => []ReturnsLastNotAfter
<1>1. SearchInvariant => ReturnsLastNotAfter
  BY DEF SearchInvariant
<1> QED
  BY <1>1, SearchInvariantHolds, PTL

\* From a stuck state no step leads anywhere but to a stuck state: the search never ends.
THEOREM StuckMeansForever == SearchSpec => StuckForGood
<1>1. SearchInvariant /\ [SearchNext]_searchVars => (Stuck => Stuck')
  <2> SUFFICES ASSUME SearchInvariant, [SearchNext]_searchVars, Stuck PROVE Stuck'
    OBVIOUS
  <2>0. /\ left \in Nat /\ right \in Nat /\ Len(mins) \in Nat /\ right <= Len(mins)
        /\ timestamp \in Int /\ SearchTypeOK /\ InOrder(mins) /\ right >= 3 /\ phase = "searching"
        /\ MinOf(right \div 2) < timestamp
    BY TimestampsAssumption DEF SearchInvariant, SearchTypeOK, Stuck
  <2>1. /\ left < right /\ right \div 2 \in Nat /\ right \div 2 < Len(mins)
    BY <2>0, Half DEF SearchInvariant, GoneRight
  <2>2. MinOf(Probed) < timestamp
    BY <2>0, <2>1, ProbedProperties, OrderedMins
  <2>3. ~GoLeft /\ ~Hit /\ ~Exhausted /\ ~Return
    BY <2>0, <2>1, <2>2, ProbedProperties DEF GoLeft, Hit, Exhausted, Return
  <2>4. GoRight \/ UNCHANGED searchVars
    BY <2>3 DEF SearchNext, SearchOnce
  <2> QED
    BY <2>0, <2>4 DEF GoRight, Stuck, searchVars, MinOf
<1> QED
  BY <1>1, SearchInvariantHolds, PTL DEF SearchSpec, StuckForGood
=============================================================================

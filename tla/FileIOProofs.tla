---------------------------- MODULE FileIOProofs ----------------------------
(* For any number of readers, files and descriptors, and any size of a point *)
(* and of an allocation. The copies of FileHandle close each other's numbers *)
(* and no descriptor leaks; the loops of WriteVector put whole points into   *)
(* the files, in order; the first vector of a flush fits its array; a reader *)
(* whose number and offset nobody has touched reads its own file. Inv says   *)
(* who holds which number and of what types the data are; Holds and          *)
(* ReadsFromStart, what a write and a read in progress have done so far.     *)
EXTENDS FileIO, FiniteSetTheorems, SequenceTheorems, WellFoundedInduction, TLAPS

----------------------------------------------------------------------------
(* Induction, from the well-founded order of the finite sets: the library's  *)
(* theorems about it take an operator, these take a set.                     *)

LEMMA NatMin == ASSUME NEW C \in SUBSET Nat, C # {}
                PROVE  \E n \in C : \A m \in C : n <= m
<1> DEFINE T == {0..n : n \in C}
           R == StrictSubsetOrdering(Nat)
           S == FiniteSubsetsOf(Nat)
<1>1. IsWellFoundedOn(R, S)
  BY FS_StrictSubsetOrderingWellFounded
<1>2. \A n \in Nat : 0..n \in S
  <2> TAKE n \in Nat
  <2>1. IsFiniteSet(0..n)
    BY FS_Interval
  <2> QED
    BY <2>1 DEF FiniteSubsetsOf
<1>3. T \subseteq S /\ T # {}
  BY <1>2
<1> HIDE DEF R, S
<1>4. \E x \in T : \A y \in T : ~(<<y, x>> \in R)
  <2> HIDE DEF T
  <2> QED
    BY <1>1, <1>3, WFMin
<1>5. PICK n \in C : \A y \in T : ~(<<y, 0..n>> \in R)
  BY <1>4
<1>6. \A m \in C : m < n => 0..m \in T /\ <<0..m, 0..n>> \in R
  <2> TAKE m \in C
  <2> SUFFICES ASSUME m < n PROVE 0..m \in T /\ <<0..m, 0..n>> \in R
    OBVIOUS
  <2>1. 0..m \subseteq 0..n /\ 0..m # 0..n
    OBVIOUS
  <2> QED
    BY <2>1 DEF R, StrictSubsetOrdering
<1>7. \A m \in C : ~(m < n)
  BY <1>5, <1>6
<1>8. \A m \in C : m \in Nat /\ n \in Nat
  OBVIOUS
<1> HIDE DEF T
<1> QED
  BY <1>7, <1>8

LEMMA Induction == ASSUME NEW I \in SUBSET Nat, 0 \in I, \A n \in Nat : n \in I => n + 1 \in I
                   PROVE  I = Nat
<1>1. SUFFICES ASSUME Nat \ I # {} PROVE FALSE
  OBVIOUS
<1>2. PICK n \in Nat \ I : \A m \in Nat \ I : n <= m
  BY <1>1, NatMin
<1>3. n # 0 /\ n - 1 \in Nat
  BY <1>2
<1> QED
  BY <1>2, <1>3

\* What a definition by recursion over an interval denotes: there is a function that
\* takes each value from the one before.
Computable(S, s, a, b, g) ==
    \E f \in [a..b -> S] : f[a] = s /\ \A k \in a..b : k # a => f[k] = g[k][f[k - 1]]

LEMMA Recursion ==
    ASSUME NEW S, NEW s \in S, NEW a \in Int, NEW b \in Int, a <= b,
           NEW g \in [Int -> [S -> S]]
    PROVE  Computable(S, s, a, b, g)
<1> DEFINE Is(f, m) == f[a] = s /\ \A k \in a..(a + m) : k # a => f[k] = g[k][f[k - 1]]
           I == {m \in Nat : \E f \in [a..(a + m) -> S] : Is(f, m)}
<1>1. 0 \in I
  <2> DEFINE f == [k \in a..(a + 0) |-> s]
  <2>1. f \in [a..(a + 0) -> S] /\ Is(f, 0)
    OBVIOUS
  <2>2. \E h \in [a..(a + 0) -> S] : Is(h, 0)
    <3> HIDE DEF f, Is
    <3> QED
      BY <2>1
  <2> QED
    BY <2>2
<1>2. ASSUME NEW m \in I PROVE m + 1 \in I
  <2>1. PICK f \in [a..(a + m) -> S] : Is(f, m)
    OBVIOUS
  <2> DEFINE h == [k \in a..(a + (m + 1)) |-> IF k = a + (m + 1) THEN g[k][f[k - 1]] ELSE f[k]]
  <2>2. f[a + m] \in S /\ g[a + (m + 1)] \in [S -> S] /\ (a + (m + 1)) - 1 = a + m
    OBVIOUS
  <2>3. h \in [a..(a + (m + 1)) -> S]
    BY <2>2
  <2>4. h[a] = s
    BY <2>1
  <2>5. ASSUME NEW k \in a..(a + (m + 1)), k # a
        PROVE  h[k] = g[k][h[k - 1]]
    <3>1. CASE k = a + (m + 1)
      <4>1. h[k - 1] = f[k - 1]
        BY <3>1
      <4> QED
        BY <3>1, <4>1
    <3>2. CASE k # a + (m + 1)
      <4>1. k \in a..(a + m) /\ h[k] = f[k] /\ h[k - 1] = f[k - 1]
        BY <2>5, <3>2
      <4>2. f[k] = g[k][f[k - 1]]
        BY <4>1, <2>1, <2>5
      <4> QED
        BY <4>1, <4>2
    <3> QED
      BY <3>1, <3>2
  <2>6. \E q \in [a..(a + (m + 1)) -> S] : Is(q, m + 1)
    <3>1. Is(h, m + 1)
      BY <2>4, <2>5
    <3> HIDE DEF h, Is
    <3> QED
      BY <2>3, <3>1
  <2> HIDE DEF h, Is
  <2> QED
    BY <2>6
<1>3. I = Nat
  <2>1. I \subseteq Nat
    OBVIOUS
  <2> HIDE DEF I
  <2> QED
    BY <1>1, <1>2, <2>1, Induction
<1>4. b - a \in Nat /\ a + (b - a) = b
  OBVIOUS
<1>5. \E f \in [a..(a + (b - a)) -> S] : Is(f, b - a)
  BY <1>3, <1>4
<1> QED
  BY <1>4, <1>5 DEF Computable

----------------------------------------------------------------------------
(* FlattenSeq of the community modules, for sequences of sequences.          *)

\* The sums that FlattenSeq takes one after the other.
Sums(S, v, f) == /\ f \in [1..Len(v) -> Seq(S)]
                 /\ \A k \in 1..Len(v) : f[k] = IF k = 1 THEN v[k] ELSE f[k - 1] \o v[k]
                 /\ FlattenSeq(v) = f[Len(v)]

LEMMA FlattenSums == ASSUME NEW S, NEW v \in Seq(Seq(S)), v # <<>>
                     PROVE  \E f : Sums(S, v, f)
<1> DEFINE n == Len(v)
           Is(f) == f = [i \in 1..n |-> IF i = 1 THEN v[i] ELSE f[i - 1] \o v[i]]
           g == [k \in Int |-> [x \in Seq(S) |-> IF k \in 1..n THEN x \o v[k] ELSE x]]
<1>1. n \in Nat /\ 1 <= n /\ \A k \in 1..n : v[k] \in Seq(S)
  OBVIOUS
<1>2. g \in [Int -> [Seq(S) -> Seq(S)]]
  <2>1. ASSUME NEW k \in Int, NEW x \in Seq(S) PROVE (IF k \in 1..n THEN x \o v[k] ELSE x) \in Seq(S)
    BY <1>1
  <2> QED
    BY <2>1
<1>3. FlattenSeq(v) = (CHOOSE f : Is(f))[n]
  <2>1. Len(v) # 0
    BY <1>1
  <2> QED
    BY <2>1 DEF FlattenSeq
<1> HIDE DEF n
<1>4. PICK h \in [1..n -> Seq(S)] : h[1] = v[1] /\ \A k \in 1..n : k # 1 => h[k] = g[k][h[k - 1]]
  <2>1. 1 \in 1..n /\ v[1] \in Seq(S) /\ 1 \in Int /\ n \in Int
    BY <1>1
  <2> HIDE DEF g
  <2>2. Computable(Seq(S), v[1], 1, n, g)
    BY <1>1, <1>2, <2>1, Recursion
  <2> QED
    BY <2>2 DEF Computable
<1>5. Is(h)
  <2>1. ASSUME NEW k \in 1..n PROVE h[k] = IF k = 1 THEN v[k] ELSE h[k - 1] \o v[k]
    <3>1. k # 1 => k - 1 \in 1..n /\ h[k - 1] \in Seq(S)
      BY <1>1, <1>4
    <3>2. \A x \in Seq(S) : g[k][x] = x \o v[k]
      BY <1>1, SMTT(30)
    <3> HIDE DEF g
    <3> QED
      BY <1>4, <3>1, <3>2
  <2>2. h = [k \in 1..n |-> h[k]]
    BY <1>4
  <2> HIDE DEF g
  <2> QED
    BY <2>1, <2>2
<1> DEFINE f == CHOOSE x : Is(x)
<1>6. Is(f)
  <2> HIDE DEF Is
  <2> QED
    BY <1>5
<1>7. \A k \in 1..n : f[k] = IF k = 1 THEN v[k] ELSE f[k - 1] \o v[k]
  <2> HIDE DEF f
  <2> QED
    BY <1>6
<1>8. \A k \in 1..n : f[k] \in Seq(S)
  <2> DEFINE I == {m \in Nat : m \in 1..n => f[m] \in Seq(S)}
  <2> HIDE DEF f
  <2>1. 0 \in I
    BY <1>1
  <2>2. ASSUME NEW m \in Nat, m \in I PROVE m + 1 \in I
    <3>1. SUFFICES ASSUME m + 1 \in 1..n PROVE f[m + 1] \in Seq(S)
      OBVIOUS
    <3>2. v[m + 1] \in Seq(S)
      BY <1>1, <3>1
    <3>3. CASE m = 0
      BY <1>7, <3>1, <3>2, <3>3
    <3>4. CASE m # 0
      <4>1. m \in 1..n /\ m + 1 # 1 /\ (m + 1) - 1 = m
        BY <1>1, <3>1, <3>4
      <4>2. f[m + 1] = f[m] \o v[m + 1]
        BY <1>7, <3>1, <4>1
      <4> QED
        BY <2>2, <3>2, <4>1, <4>2
    <3> QED
      BY <3>3, <3>4
  <2>3. I = Nat
    <3>1. I \in SUBSET Nat
      OBVIOUS
    <3> HIDE DEF I
    <3> QED
      BY <2>1, <2>2, <3>1, Induction
  <2>4. ASSUME NEW k \in 1..n PROVE f[k] \in Seq(S)
    <3>1. k \in Nat
      BY <1>1
    <3>2. k \in I
      <4> HIDE DEF I
      <4> QED
        BY <2>3, <3>1
    <3> QED
      BY <3>2
  <2> QED
    BY <2>4
<1>9. f = [k \in 1..n |-> f[k]]
  <2> HIDE DEF f
  <2> DEFINE e == [i \in 1..n |-> IF i = 1 THEN v[i] ELSE f[i - 1] \o v[i]]
  <2>1. f = e /\ DOMAIN e = 1..n
    BY <1>6
  <2> HIDE DEF e
  <2> QED
    BY <1>6
<1>10. Sums(S, v, f)
  <2> HIDE DEF f
  <2>1. f \in [1..n -> Seq(S)]
    BY <1>8, <1>9
  <2>2. FlattenSeq(v) = f[n]
    BY <1>3 DEF f
  <2> QED
    BY <1>7, <2>1, <2>2 DEF n, Sums
<1> QED
  BY <1>10

LEMMA FlattenEmpty == FlattenSeq(<<>>) = <<>>
BY DEF FlattenSeq

LEMMA FlattenIn == ASSUME NEW S, NEW v \in Seq(Seq(S)) PROVE FlattenSeq(v) \in Seq(S)
<1>1. CASE v = <<>>
  <2>1. <<>> \in Seq(S)
    OBVIOUS
  <2> QED
    BY <1>1, <2>1, FlattenEmpty
<1>2. CASE v # <<>>
  <2>1. PICK f : Sums(S, v, f)
    BY <1>2, FlattenSums
  <2>2. Len(v) \in 1..Len(v)
    BY <1>2
  <2> QED
    BY <2>1, <2>2 DEF Sums
<1> QED
  BY <1>1, <1>2

\* The last sequence comes last.
LEMMA FlattenAppend == ASSUME NEW S, NEW v \in Seq(Seq(S)), NEW x \in Seq(S)
                       PROVE  FlattenSeq(Append(v, x)) = FlattenSeq(v) \o x
<1> DEFINE w == Append(v, x)
           n == Len(v)
<1>1. w \in Seq(Seq(S)) /\ w # <<>> /\ Len(w) = n + 1 /\ n \in Nat /\ w[n + 1] = x
      /\ \A k \in 1..n : w[k] = v[k]
  BY AppendProperties, LenProperties
<1> HIDE DEF w
<1>2. PICK f : Sums(S, w, f)
  BY <1>1, FlattenSums
<1>3. CASE v = <<>>
  <2>1. n = 0
    BY <1>3
  <2>2. FlattenSeq(w) = f[1] /\ f[1] = w[1] /\ w[1] = x
    BY <1>1, <1>2, <2>1 DEF Sums
  <2>3. FlattenSeq(v) \o x = x
    BY <1>3, FlattenEmpty, ConcatEmptySeq
  <2> QED
    BY <2>2, <2>3 DEF w
<1>4. CASE v # <<>>
  <2>1. PICK e : Sums(S, v, e)
    BY <1>4, FlattenSums
  <2>2. n >= 1
    BY <1>4
  <2> DEFINE I == {m \in Nat : m \in 1..n => f[m] = e[m]}
  <2>3. 0 \in I
    OBVIOUS
  <2>4. ASSUME NEW m \in Nat, m \in I PROVE m + 1 \in I
    <3>1. SUFFICES ASSUME m + 1 \in 1..n PROVE f[m + 1] = e[m + 1]
      OBVIOUS
    <3>2. m + 1 \in 1..(n + 1) /\ w[m + 1] = v[m + 1]
      BY <1>1, <3>1
    <3>3. CASE m = 0
      <4>1. m + 1 = 1
        BY <3>3
      <4>2. f[m + 1] = w[m + 1]
        BY <1>1, <1>2, <3>2, <4>1 DEF Sums
      <4>3. e[m + 1] = v[m + 1]
        BY <2>1, <3>1, <4>1 DEF Sums
      <4> QED
        BY <3>2, <4>2, <4>3
    <3>4. CASE m # 0
      <4>1. m \in 1..n /\ m + 1 # 1 /\ (m + 1) - 1 = m
        BY <1>1, <3>1, <3>4
      <4>2. f[m + 1] = f[m] \o w[m + 1]
        BY <1>1, <1>2, <3>2, <4>1 DEF Sums
      <4>3. e[m + 1] = e[m] \o v[m + 1]
        BY <2>1, <3>1, <4>1 DEF Sums
      <4> QED
        BY <2>4, <3>2, <4>1, <4>2, <4>3
    <3> QED
      BY <3>3, <3>4
  <2>5. I = Nat
    <3>1. I \in SUBSET Nat
      OBVIOUS
    <3> HIDE DEF I
    <3> QED
      BY <2>3, <2>4, <3>1, Induction
  <2>6. f[n] = e[n]
    <3>1. \A m \in I : m \in 1..n => f[m] = e[m]
      OBVIOUS
    <3>2. n \in 1..n
      BY <1>1, <2>2
    <3>3. n \in I
      BY <1>1, <2>5
    <3> HIDE DEF I, n
    <3> QED
      BY <3>1, <3>2, <3>3
  <2>7. FlattenSeq(w) = f[n] \o x
    <3>1. n + 1 \in 1..(n + 1) /\ n + 1 # 1 /\ (n + 1) - 1 = n
      BY <2>2
    <3>2. FlattenSeq(w) = f[n + 1] /\ f[n + 1] = f[n] \o w[n + 1]
      BY <1>1, <1>2, <3>1 DEF Sums
    <3> QED
      BY <1>1, <3>2
  <2>8. FlattenSeq(v) = e[n]
    BY <2>1 DEF Sums
  <2> QED
    BY <2>6, <2>7, <2>8 DEF w
<1> QED
  BY <1>3, <1>4

LEMMA FlattenOne == ASSUME NEW S, NEW x \in Seq(S) PROVE FlattenSeq(<<x>>) = x
<1>1. <<>> \in Seq(Seq(S)) /\ <<x>> = Append(<<>>, x)
  OBVIOUS
<1>2. FlattenSeq(<<x>>) = FlattenSeq(<<>>) \o x
  BY <1>1, FlattenAppend
<1> QED
  BY <1>2, FlattenEmpty, ConcatEmptySeq

\* What comes first, and what comes after.
LEMMA FlattenConcat == ASSUME NEW S, NEW v \in Seq(Seq(S)), NEW w \in Seq(Seq(S))
                       PROVE  FlattenSeq(v \o w) = FlattenSeq(v) \o FlattenSeq(w)
<1> DEFINE P(s) == FlattenSeq(v \o s) = FlattenSeq(v) \o FlattenSeq(s)
           I == {m \in Nat : \A s \in Seq(Seq(S)) : Len(s) = m => P(s)}
<1>1. 0 \in I
  <2>1. ASSUME NEW s \in Seq(Seq(S)), Len(s) = 0 PROVE P(s)
    <3>1. s = <<>>
      BY <2>1
    <3>2. v \o s = v
      BY <3>1, ConcatEmptySeq
    <3>3. FlattenSeq(v) \o FlattenSeq(s) = FlattenSeq(v)
      BY <3>1, FlattenEmpty, FlattenIn, ConcatEmptySeq
    <3> QED
      BY <3>2, <3>3
  <2> QED
    BY <2>1
<1>2. ASSUME NEW m \in Nat, m \in I PROVE m + 1 \in I
  <2>1. ASSUME NEW s \in Seq(Seq(S)), Len(s) = m + 1 PROVE P(s)
    <3>1. PICK t \in Seq(Seq(S)), x \in Seq(S) : s = Append(t, x)
      <4>1. s # <<>>
        BY <2>1
      <4> QED
        BY <4>1, SequenceEmptyOrAppend
    <3>2. Len(t) = m
      BY <2>1, <3>1
    <3>3. P(t)
      BY <1>2, <3>2
    <3>4. v \o s = Append(v \o t, x) /\ v \o t \in Seq(Seq(S))
      <4> DEFINE T == Seq(S)
      <4>1. v \in Seq(T) /\ t \in Seq(T) /\ x \in T /\ <<x>> \in Seq(T)
        BY <3>1
      <4> HIDE DEF T
      <4>2. v \o t \in Seq(T)
        BY <4>1, ConcatProperties, Zenon
      <4>3. Append(t, x) = t \o <<x>> /\ Append(v \o t, x) = (v \o t) \o <<x>>
        BY <4>1, <4>2, AppendIsConcat, Zenon
      <4>4. (v \o t) \o <<x>> = v \o (t \o <<x>>)
        BY <4>1, SMTT(60)
      <4> QED
        BY <3>1, <4>2, <4>3, <4>4 DEF T
    <3>5. FlattenSeq(v \o s) = FlattenSeq(v \o t) \o x
      BY <3>4, FlattenAppend
    <3>6. FlattenSeq(s) = FlattenSeq(t) \o x
      BY <3>1, FlattenAppend
    <3>7. FlattenSeq(v) \in Seq(S) /\ FlattenSeq(t) \in Seq(S)
      BY FlattenIn
    <3>8. (FlattenSeq(v) \o FlattenSeq(t)) \o x = FlattenSeq(v) \o (FlattenSeq(t) \o x)
      <4> DEFINE a == FlattenSeq(v)
                 b == FlattenSeq(t)
      <4>1. a \in Seq(S) /\ b \in Seq(S) /\ x \in Seq(S)
        BY <3>7
      <4> HIDE DEF a, b
      <4>2. (a \o b) \o x = a \o (b \o x)
        BY <4>1, SMTT(60)
      <4> QED
        BY <4>2 DEF a, b
    <3> QED
      BY <3>3, <3>5, <3>6, <3>8
  <2> HIDE DEF P
  <2> QED
    BY <2>1
<1>3. I = Nat
  <2>1. I \in SUBSET Nat
    OBVIOUS
  <2> HIDE DEF I
  <2> QED
    BY <1>1, <1>2, <2>1, Induction
<1>4. Len(w) \in I
  BY <1>3
<1> QED
  BY <1>4

----------------------------------------------------------------------------
(* Points and their bytes.                                                   *)

Byte == Nat \X Nat

LEMMA BytesOfIn == ASSUME NEW p \in Nat PROVE BytesOf(p) \in Seq(Byte)
<1>1. PointBytes \in Nat
  BY SizesAssumption
<1>2. \A k \in 1..PointBytes : <<p, k>> \in Byte
  BY <1>1 DEF Byte
<1> QED
  BY <1>1, <1>2 DEF BytesOf

LEMMA EachBytesIn ==
    ASSUME NEW ps \in Seq(Nat)
    PROVE  /\ [i \in 1..Len(ps) |-> BytesOf(ps[i])] \in Seq(Seq(Byte))
           /\ Bytes(ps) \in Seq(Byte)
<1>1. \A i \in 1..Len(ps) : BytesOf(ps[i]) \in Seq(Byte)
  <2>1. \A i \in 1..Len(ps) : ps[i] \in Nat
    OBVIOUS
  <2> QED
    BY <2>1, BytesOfIn
<1>2. [i \in 1..Len(ps) |-> BytesOf(ps[i])] \in Seq(Seq(Byte))
  <2>1. Len(ps) \in Nat
    OBVIOUS
  <2> QED
    BY <1>1, <2>1
<1>3. Bytes(ps) \in Seq(Byte)
  BY <1>2, FlattenIn DEF Bytes
<1> QED
  BY <1>2, <1>3

LEMMA BytesEmpty == Bytes(<<>>) = <<>>
<1>1. [i \in 1..Len(<<>>) |-> BytesOf(<<>>[i])] = <<>>
  OBVIOUS
<1> QED
  BY <1>1, FlattenEmpty DEF Bytes

LEMMA BytesConcat ==
    ASSUME NEW ps \in Seq(Nat), NEW qs \in Seq(Nat)
    PROVE  Bytes(ps \o qs) = Bytes(ps) \o Bytes(qs)
<1> DEFINE v == [i \in 1..Len(ps) |-> BytesOf(ps[i])]
           w == [i \in 1..Len(qs) |-> BytesOf(qs[i])]
           u == [i \in 1..Len(ps \o qs) |-> BytesOf((ps \o qs)[i])]
<1>1. v \in Seq(Seq(Byte)) /\ w \in Seq(Seq(Byte)) /\ u \in Seq(Seq(Byte))
  <2>1. ps \o qs \in Seq(Nat)
    OBVIOUS
  <2> QED
    BY <2>1, EachBytesIn
<1>2. /\ Len(v) = Len(ps) /\ Len(w) = Len(qs) /\ Len(u) = Len(ps) + Len(qs)
      /\ Len(ps) \in Nat /\ Len(qs) \in Nat
  OBVIOUS
<1>3. \A i \in 1..(Len(ps) + Len(qs)) : u[i] = IF i <= Len(ps) THEN v[i] ELSE w[i - Len(ps)]
  <2> TAKE i \in 1..(Len(ps) + Len(qs))
  <2>1. u[i] = BytesOf((ps \o qs)[i])
    OBVIOUS
  <2>2. (ps \o qs)[i] = IF i <= Len(ps) THEN ps[i] ELSE qs[i - Len(ps)]
    BY ConcatProperties
  <2>3. CASE i <= Len(ps)
    BY <1>2, <2>1, <2>2, <2>3
  <2>4. CASE ~(i <= Len(ps))
    <3>1. i - Len(ps) \in 1..Len(qs)
      BY <1>2, <2>4
    <3> QED
      BY <2>1, <2>2, <2>4, <3>1
  <2> QED
    BY <2>3, <2>4
<1>4. u = v \o w
  <2> HIDE DEF u, v, w
  <2>1. v \o w \in Seq(Seq(Byte)) /\ Len(v \o w) = Len(u)
        /\ \A i \in 1..Len(u) : (v \o w)[i] = u[i]
    <3>1. /\ v \o w \in Seq(Seq(Byte)) /\ Len(v \o w) = Len(v) + Len(w)
          /\ \A i \in 1..(Len(v) + Len(w)) : (v \o w)[i] = IF i <= Len(v) THEN v[i] ELSE w[i - Len(v)]
      BY <1>1, ConcatProperties
    <3> QED
      BY <1>2, <1>3, <3>1
  <2> QED
    BY <1>1, <2>1, SeqEqual
<1>5. FlattenSeq(u) = FlattenSeq(v) \o FlattenSeq(w)
  <2> HIDE DEF u, v, w
  <2> QED
    BY <1>1, <1>4, FlattenConcat
<1> QED
  BY <1>5 DEF Bytes

\* The bytes of each sequence of points, one after the other, are those of all the points.
LEMMA BytesFlatten ==
    ASSUME NEW v \in Seq(Seq(Nat))
    PROVE  /\ [i \in 1..Len(v) |-> Bytes(v[i])] \in Seq(Seq(Byte))
           /\ FlattenSeq([i \in 1..Len(v) |-> Bytes(v[i])]) = Bytes(FlattenSeq(v))
<1> DEFINE B(s) == [i \in 1..Len(s) |-> Bytes(s[i])]
           P(s) == FlattenSeq(B(s)) = Bytes(FlattenSeq(s))
           I == {m \in Nat : \A s \in Seq(Seq(Nat)) : Len(s) = m => P(s)}
<1>1. ASSUME NEW s \in Seq(Seq(Nat)) PROVE B(s) \in Seq(Seq(Byte))
  <2>1. \A i \in 1..Len(s) : Bytes(s[i]) \in Seq(Byte)
    <3>1. \A i \in 1..Len(s) : s[i] \in Seq(Nat)
      OBVIOUS
    <3> QED
      BY <3>1, EachBytesIn
  <2>2. Len(s) \in Nat
    OBVIOUS
  <2> QED
    BY <2>1, <2>2
<1>2. 0 \in I
  <2>1. ASSUME NEW s \in Seq(Seq(Nat)), Len(s) = 0 PROVE P(s)
    <3>1. s = <<>> /\ B(s) = <<>>
      BY <2>1
    <3> QED
      BY <3>1, FlattenEmpty, BytesEmpty
  <2> QED
    BY <2>1
<1>3. ASSUME NEW m \in Nat, m \in I PROVE m + 1 \in I
  <2>1. ASSUME NEW s \in Seq(Seq(Nat)), Len(s) = m + 1 PROVE P(s)
    <3>1. PICK t \in Seq(Seq(Nat)), x \in Seq(Nat) : s = Append(t, x)
      <4>1. s # <<>>
        BY <2>1
      <4> QED
        BY <4>1, SequenceEmptyOrAppend
    <3>2. Len(t) = m
      BY <2>1, <3>1
    <3>3. P(t)
      BY <1>3, <3>2
    <3>4. B(s) = Append(B(t), Bytes(x))
      <4>1. Len(s) = Len(t) + 1 /\ s[Len(t) + 1] = x /\ \A i \in 1..Len(t) : s[i] = t[i]
        BY <3>1
      <4>2. Len(t) \in Nat
        OBVIOUS
      <4>3. Append(B(t), Bytes(x))
              = [i \in 1..(Len(t) + 1) |-> IF i = Len(t) + 1 THEN Bytes(x) ELSE Bytes(t[i])]
        BY <4>2
      <4> QED
        BY <4>1, <4>2, <4>3
    <3>5. B(t) \in Seq(Seq(Byte)) /\ Bytes(x) \in Seq(Byte)
      BY <1>1, EachBytesIn
    <3>6. FlattenSeq(B(s)) = FlattenSeq(B(t)) \o Bytes(x)
      <4> HIDE DEF B
      <4> QED
        BY <3>4, <3>5, FlattenAppend
    <3>7. FlattenSeq(s) = FlattenSeq(t) \o x /\ FlattenSeq(t) \in Seq(Nat)
      BY <3>1, FlattenAppend, FlattenIn
    <3>8. Bytes(FlattenSeq(s)) = Bytes(FlattenSeq(t)) \o Bytes(x)
      BY <3>7, BytesConcat
    <3> QED
      BY <3>3, <3>6, <3>8
  <2> HIDE DEF P
  <2> QED
    BY <2>1
<1>4. I = Nat
  <2>1. I \in SUBSET Nat
    OBVIOUS
  <2> HIDE DEF I
  <2> QED
    BY <1>2, <1>3, <2>1, Induction
<1>5. Len(v) \in I
  BY <1>4
<1> QED
  BY <1>1, <1>5

----------------------------------------------------------------------------
(* WriteVector.                                                              *)

LEMMA MaxIs == ASSUME NEW n \in Nat, NEW C \in SUBSET (0..n), C # {}
               PROVE  Max(C) \in C /\ \A y \in C : Max(C) >= y
<1> DEFINE D == {n - x : x \in C}
<1>1. D \in SUBSET Nat /\ D # {}
  <2>1. \A x \in C : n - x \in Nat
    OBVIOUS
  <2> QED
    BY <2>1
<1>2. PICK d \in D : \A e \in D : d <= e
  <2> HIDE DEF D
  <2> QED
    BY <1>1, NatMin
<1>3. PICK x \in C : d = n - x
  OBVIOUS
<1>4. \A y \in C : x >= y
  <2> TAKE y \in C
  <2>1. n - y \in D /\ x \in Int /\ y \in Int
    OBVIOUS
  <2>2. n - x <= n - y
    BY <1>2, <1>3, <2>1
  <2> QED
    BY <2>1, <2>2
<1>5. \E z \in C : \A y \in C : z >= y
  BY <1>4
<1> QED
  BY <1>5 DEF Max

\* What is behind the first k elements of a, b and c, if a ends before and b does not.
TakesUp(S, a, b, c, k) ==
    /\ SubSeq(b, k - Len(a) + 1, Len(b)) \in Seq(S)
    /\ SubSeq(b, k - Len(a) + 1, Len(b)) \o c = SubSeq((a \o b) \o c, k + 1, Len((a \o b) \o c))

LEMMA Behind ==
    ASSUME NEW S, NEW a \in Seq(S), NEW b \in Seq(S), NEW c \in Seq(S), NEW k \in Nat,
           Len(a) <= k, k <= Len(a) + Len(b)
    PROVE  TakesUp(S, a, b, c, k)
<1> DEFINE s == (a \o b) \o c
           x == SubSeq(b, k - Len(a) + 1, Len(b))
           y == SubSeq(s, k + 1, Len(s))
<1>1. /\ s \in Seq(S) /\ Len(s) = Len(a) + Len(b) + Len(c)
      /\ Len(a) \in Nat /\ Len(b) \in Nat /\ Len(c) \in Nat
  OBVIOUS
<1>2. \A i \in 1..Len(s) : s[i] = IF i <= Len(a) THEN a[i]
                                  ELSE IF i <= Len(a) + Len(b) THEN b[i - Len(a)]
                                  ELSE c[i - Len(a) - Len(b)]
  <2> TAKE i \in 1..Len(s)
  <2>1. a \o b \in Seq(S) /\ Len(a \o b) = Len(a) + Len(b)
    OBVIOUS
  <2>2. s[i] = IF i <= Len(a \o b) THEN (a \o b)[i] ELSE c[i - Len(a \o b)]
    BY <1>1, <2>1, ConcatProperties
  <2>3. i <= Len(a) + Len(b) => (a \o b)[i] = IF i <= Len(a) THEN a[i] ELSE b[i - Len(a)]
    BY <1>1, ConcatProperties
  <2> HIDE DEF s
  <2>4. i - (Len(a) + Len(b)) = i - Len(a) - Len(b)
    BY <1>1
  <2> QED
    BY <1>1, <2>1, <2>2, <2>3, <2>4
<1> HIDE DEF s
<1>3. x \in Seq(S) /\ Len(x) = Len(a) + Len(b) - k /\ \A i \in 1..Len(x) : x[i] = b[k - Len(a) + i]
  <2>1. \A i \in (k - Len(a) + 1)..Len(b) : b[i] \in S
    BY <1>1
  <2>2. k - Len(a) + 1 \in Int /\ Len(b) \in Int
    BY <1>1
  <2>3. /\ x \in Seq(S)
        /\ Len(x) = IF k - Len(a) + 1 <= Len(b) THEN Len(b) - (k - Len(a) + 1) + 1 ELSE 0
        /\ \A i \in 1..(Len(b) - (k - Len(a) + 1) + 1) : x[i] = b[(k - Len(a) + 1) + i - 1]
    BY <2>1, <2>2, SubSeqProperties
  <2> HIDE DEF x
  <2>4. Len(x) = Len(a) + Len(b) - k
    <3>1. Len(b) - (k - Len(a) + 1) + 1 = Len(a) + Len(b) - k
      BY <1>1
    <3>2. k - Len(a) + 1 <= Len(b) \/ Len(a) + Len(b) - k = 0
      <4> DEFINE la == Len(a)
                 lb == Len(b)
      <4>1. la \in Nat /\ lb \in Nat /\ la <= k /\ k <= la + lb
        BY <1>1
      <4> HIDE DEF la, lb, y
      <4>2. k - la + 1 <= lb \/ la + lb - k = 0
        BY <4>1
      <4> QED
        BY <4>2 DEF la, lb
    <3>3. CASE k - Len(a) + 1 <= Len(b)
      BY <2>3, <3>1, <3>3
    <3>4. CASE ~(k - Len(a) + 1 <= Len(b))
      BY <2>3, <3>2, <3>4
    <3> QED
      BY <3>3, <3>4
  <2>5. \A i \in 1..Len(x) : (k - Len(a) + 1) + i - 1 = k - Len(a) + i
                             /\ i \in 1..(Len(b) - (k - Len(a) + 1) + 1)
    BY <1>1, <2>4
  <2> QED
    BY <2>3, <2>4, <2>5
<1>4. y \in Seq(S) /\ Len(y) = Len(s) - k /\ \A i \in 1..Len(y) : y[i] = s[k + i]
  <2>1. \A i \in (k + 1)..Len(s) : s[i] \in S
    BY <1>1
  <2>2. k + 1 \in Int /\ Len(s) \in Int
    BY <1>1
  <2>3. /\ y \in Seq(S)
        /\ Len(y) = IF k + 1 <= Len(s) THEN Len(s) - (k + 1) + 1 ELSE 0
        /\ \A i \in 1..(Len(s) - (k + 1) + 1) : y[i] = s[(k + 1) + i - 1]
    BY <2>1, <2>2, SubSeqProperties
  <2> HIDE DEF y
  <2>4. Len(y) = Len(s) - k
    BY <1>1, <2>3
  <2>5. \A i \in 1..Len(y) : (k + 1) + i - 1 = k + i /\ i \in 1..(Len(s) - (k + 1) + 1)
    BY <1>1, <2>4
  <2> QED
    BY <2>3, <2>4, <2>5
<1>5. x \o c \in Seq(S) /\ Len(x \o c) = Len(y)
      /\ \A i \in 1..Len(y) : (x \o c)[i] = IF i <= Len(x) THEN x[i] ELSE c[i - Len(x)]
  <2> HIDE DEF x, y
  <2>1. x \o c \in Seq(S) /\ Len(x \o c) = Len(x) + Len(c)
        /\ \A i \in 1..(Len(x) + Len(c)) : (x \o c)[i] = IF i <= Len(x) THEN x[i] ELSE c[i - Len(x)]
    BY <1>3, ConcatProperties
  <2>2. Len(x) + Len(c) = Len(y)
    BY <1>1, <1>3, <1>4
  <2> QED
    BY <2>1, <2>2
<1>6. \A i \in 1..Len(y) : (x \o c)[i] = y[i]
  <2> TAKE i \in 1..Len(y)
  <2> HIDE DEF x, y
  <2>1. k + i \in 1..Len(s) /\ i \in Int
    BY <1>1, <1>4
  <2>2. CASE i <= Len(x)
    <3>1. k + i <= Len(a) + Len(b) /\ ~(k + i <= Len(a)) /\ k + i - Len(a) = k - Len(a) + i
          /\ i \in 1..Len(x)
      BY <1>1, <1>3, <2>1, <2>2
    <3>2. s[k + i] = b[k + i - Len(a)]
      BY <1>2, <2>1, <3>1
    <3> QED
      BY <1>3, <1>4, <1>5, <2>2, <3>1, <3>2
  <2>3. CASE ~(i <= Len(x))
    <3>1. ~(k + i <= Len(a) + Len(b)) /\ ~(k + i <= Len(a))
          /\ k + i - Len(a) - Len(b) = i - Len(x)
      BY <1>1, <1>3, <2>1, <2>3
    <3>2. s[k + i] = c[k + i - Len(a) - Len(b)]
      BY <1>2, <2>1, <3>1
    <3> QED
      BY <1>4, <1>5, <2>3, <3>1, <3>2
  <2> QED
    BY <2>2, <2>3
<1>7. x \o c = y
  <2> HIDE DEF x, y
  <2> QED
    BY <1>4, <1>5, <1>6, SeqEqual
<1> QED
  BY <1>3, <1>7 DEF s, TakesUp

\* writev(2) has taken the first k bytes: what is left to write are the others.
LEMMA AdvanceFlattens ==
    ASSUME NEW S, NEW v \in Seq(Seq(S)), NEW k \in Nat, k <= Len(FlattenSeq(v))
    PROVE  /\ Advance(v, k) \in Seq(Seq(S))
           /\ FlattenSeq(Advance(v, k)) = SubSeq(FlattenSeq(v), k + 1, Len(FlattenSeq(v)))
<1> DEFINE n == Len(v)
           upTo(i) == Len(FlattenSeq(SubSeq(v, 1, i)))
           C == {i \in 0..n : upTo(i) <= k}
           done == Max(C)
           first == SubSeq(v, 1, done)
           rest == SubSeq(v, done + 1, n)
           a == FlattenSeq(first)
<1>1. n \in Nat
  OBVIOUS
<1>2. done \in 0..n /\ Len(a) <= k /\ \A i \in 0..n : upTo(i) <= k => done >= i
  <2>1. upTo(0) = 0
    <3>1. SubSeq(v, 1, 0) = <<>>
      BY SubSeqEmpty
    <3>2. FlattenSeq(SubSeq(v, 1, 0)) = <<>>
      BY <3>1, FlattenEmpty
    <3>3. Len(<<>>) = 0
      OBVIOUS
    <3> QED
      BY <3>2, <3>3
  <2>2. 0 \in C
    BY <1>1, <2>1
  <2>3. done \in C /\ \A i \in C : done >= i
    <3>1. C \in SUBSET (0..n) /\ C # {}
      BY <2>2
    <3> HIDE DEF C, n
    <3> QED
      BY <1>1, <3>1, MaxIs
  <2> HIDE DEF done, n
  <2>4. done \in 0..n /\ upTo(done) <= k
    BY <2>3
  <2>5. \A i \in 0..n : upTo(i) <= k => done >= i
    BY <2>3
  <2> QED
    BY <2>4, <2>5
<1> HIDE DEF done
<1>3. first \in Seq(Seq(S)) /\ rest \in Seq(Seq(S)) /\ Len(rest) = n - done
  <2>1. \A i \in 1..n : v[i] \in Seq(S)
    OBVIOUS
  <2> HIDE DEF n
  <2>2. \A i \in 1..done : v[i] \in Seq(S)
    BY <1>1, <1>2, <2>1
  <2>3. \A i \in (done + 1)..n : v[i] \in Seq(S)
    BY <1>1, <1>2, <2>1
  <2>4. done \in Int /\ done + 1 \in Int /\ n \in Int
    BY <1>1, <1>2
  <2>5. first \in Seq(Seq(S))
    BY <2>2, <2>4, SubSeqProperties
  <2>6. rest \in Seq(Seq(S)) /\ Len(rest) = IF done + 1 <= n THEN n - (done + 1) + 1 ELSE 0
    BY <2>3, <2>4, SubSeqProperties
  <2>7. Len(rest) = n - done
    <3> DEFINE lr == Len(rest)
    <3>1. lr = IF done + 1 <= n THEN n - (done + 1) + 1 ELSE 0
      BY <2>6
    <3> HIDE DEF lr
    <3>2. lr = n - done
      BY <1>1, <1>2, <3>1
    <3> QED
      BY <3>2 DEF lr
  <2> QED
    BY <2>5, <2>6, <2>7
<1>4. a \in Seq(S) /\ Len(a) \in Nat
  <2>1. a \in Seq(S)
    BY <1>3, FlattenIn
  <2> HIDE DEF a
  <2> QED
    BY <2>1
<1>5. Advance(v, k) = IF rest = <<>> THEN <<>>
                      ELSE <<SubSeq(rest[1], k - Len(a) + 1, Len(rest[1]))>> \o Tail(rest)
  BY DEF Advance, done
<1>6. CASE rest = <<>>
  <2>1. done = n
    <3> HIDE DEF rest, n
    <3>1. Len(rest) = 0
      BY <1>6
    <3> QED
      BY <1>1, <1>2, <1>3, <3>1
  <2>2. first = v
    BY <2>1, SubSeqFull
  <2>3. Advance(v, k) = <<>> /\ <<>> \in Seq(Seq(S))
    BY <1>5, <1>6
  <2>4. SubSeq(FlattenSeq(v), k + 1, Len(FlattenSeq(v))) = <<>>
    <3> DEFINE s == FlattenSeq(v)
    <3>1. Len(s) \in Nat /\ Len(s) <= k
      BY <1>2, <1>4, <2>2
    <3> HIDE DEF s
    <3>2. SubSeq(s, k + 1, Len(s)) = <<>>
      BY <3>1, SubSeqEmpty
    <3> QED
      BY <3>2 DEF s
  <2> QED
    BY <2>3, <2>4, FlattenEmpty
<1>7. CASE rest # <<>>
  <2> DEFINE x == v[done + 1]
             t == SubSeq(v, done + 2, n)
             c == FlattenSeq(t)
  <2>1. done + 1 \in 1..n /\ n \in (done + 1)..n /\ done \in Nat /\ n \in Nat
    <3>1. Len(rest) # 0
      BY <1>3, <1>7
    <3> HIDE DEF rest, n
    <3> QED
      BY <1>1, <1>2, <1>3, <3>1
  <2>2. x \in Seq(S) /\ Len(x) \in Nat
    BY <2>1
  <2>3. t \in Seq(Seq(S))
    <3>1. \A i \in (done + 2)..n : v[i] \in Seq(S)
      BY <1>1, <1>2
    <3>2. done + 2 \in Int /\ n \in Int
      BY <1>1, <2>1
    <3> QED
      BY <3>1, <3>2, SubSeqProperties
  <2>4. rest = <<x>> \o t
    <3>1. (done + 1) + 1 = done + 2
      BY <2>1
    <3>2. SubSeq(v, done + 1, n) = <<v[done + 1]>> \o SubSeq(v, (done + 1) + 1, n)
      BY <2>1, SubSeqRecursiveFirst
    <3> QED
      BY <3>1, <3>2
  <2>5. rest[1] = x /\ Tail(rest) = t
    <3> HIDE DEF x, t, rest
    <3> QED
      BY <2>2, <2>3, <2>4, SMTT(30)
  <2>6. first \o <<x>> = SubSeq(v, 1, done + 1)
    <3>1. 1 \in 1..n /\ done + 1 \in 1..n /\ (done + 1) - 1 = done
      BY <1>1, <2>1
    <3>2. SubSeq(v, 1, done + 1) = SubSeq(v, 1, (done + 1) - 1) \o <<v[done + 1]>>
      BY <3>1, SubSeqRecursiveSecond
    <3> QED
      BY <3>1, <3>2
  <2>7. v = (first \o <<x>>) \o t
    <3>1. 1 \in 1..(n + 1) /\ done + 1 \in (1 - 1)..n /\ n \in (done + 1)..n /\ (done + 1) + 1 = done + 2
      BY <1>1, <2>1
    <3>2. SubSeq(v, 1, done + 1) \o SubSeq(v, (done + 1) + 1, n) = SubSeq(v, 1, n)
      BY <3>1, ConcatAdjacentSubSeq
    <3>3. SubSeq(v, 1, n) = v
      BY SubSeqFull
    <3> QED
      BY <2>6, <3>1, <3>2, <3>3
  <2>8. <<x>> \in Seq(Seq(S)) /\ first \o <<x>> \in Seq(Seq(S))
    <3> HIDE DEF x, first
    <3> QED
      BY <1>3, <2>2
  <2>9. FlattenSeq(first \o <<x>>) = a \o x
    <3> HIDE DEF x, first
    <3>1. FlattenSeq(first \o <<x>>) = FlattenSeq(first) \o FlattenSeq(<<x>>)
      BY <1>3, <2>8, FlattenConcat
    <3> QED
      BY <2>2, <3>1, FlattenOne
  <2>10. FlattenSeq(v) = (a \o x) \o c
    <3> DEFINE fx == first \o <<x>>
    <3>1. v = fx \o t /\ fx \in Seq(Seq(S)) /\ FlattenSeq(fx) = a \o x
      BY <2>7, <2>8, <2>9
    <3> HIDE DEF fx, a, x, t
    <3> QED
      BY <2>3, <3>1, FlattenConcat
  <2>11. k < Len(a) + Len(x)
    <3>1. upTo(done + 1) = Len(a) + Len(x)
      <4> HIDE DEF a, x, first
      <4>1. Len(a \o x) = Len(a) + Len(x)
        BY <1>4, <2>2
      <4> QED
        BY <2>6, <2>9, <4>1
    <3>2. ~(upTo(done + 1) <= k)
      <4>1. done + 1 \in 0..n /\ ~(done >= done + 1)
        BY <2>1, <1>2
      <4> QED
        BY <1>2, <4>1
    <3> DEFINE u == upTo(done + 1)
               l == Len(a) + Len(x)
    <3>3. u = l /\ ~(u <= k)
      BY <3>1, <3>2
    <3>4. l \in Nat
      <4> HIDE DEF a, x
      <4> QED
        BY <1>4, <2>2
    <3> HIDE DEF u, l
    <3>5. k < l
      BY <3>3, <3>4
    <3> QED
      BY <3>5 DEF l
  <2>12. c \in Seq(S)
    BY <2>3, FlattenIn
  <2> DEFINE y == SubSeq(x, k - Len(a) + 1, Len(x))
  <2>13. y \in Seq(S) /\ y \o c = SubSeq((a \o x) \o c, k + 1, Len((a \o x) \o c))
    <3> HIDE DEF a, x, c
    <3>1. k <= Len(a) + Len(x)
      BY <1>4, <2>2, <2>11
    <3>2. Len(a) <= k /\ a \in Seq(S) /\ x \in Seq(S) /\ c \in Seq(S)
      BY <1>2, <1>4, <2>2, <2>12
    <3>3. TakesUp(S, a, x, c, k)
      <4> HIDE DEF y, t, done, first, rest
      <4> QED
        BY <3>1, <3>2, Behind
    <3> QED
      BY <3>3 DEF TakesUp
  <2>14. Advance(v, k) = <<y>> \o t
    BY <1>5, <1>7, <2>5
  <2>15. <<y>> \in Seq(Seq(S)) /\ <<y>> \o t \in Seq(Seq(S))
    <3> HIDE DEF y, t
    <3> QED
      BY <2>3, <2>13
  <2>16. FlattenSeq(<<y>> \o t) = y \o c
    <3> HIDE DEF y, t
    <3>1. FlattenSeq(<<y>> \o t) = FlattenSeq(<<y>>) \o FlattenSeq(t)
      BY <2>3, <2>15, FlattenConcat
    <3> QED
      BY <2>13, <3>1, FlattenOne
  <2> HIDE DEF y, t, c, a, x
  <2> QED
    BY <2>10, <2>13, <2>14, <2>15, <2>16
<1> QED
  BY <1>6, <1>7

----------------------------------------------------------------------------
(* GetIOVector.                                                              *)

LEMMA MinOfTwo == ASSUME NEW a \in Int, NEW b \in Int
                  PROVE  Min({a, b}) = IF a <= b THEN a ELSE b
<1> DEFINE m == IF a <= b THEN a ELSE b
<1>1. m \in {a, b} /\ \A y \in {a, b} : m <= y
  OBVIOUS
<1>2. \A x \in {a, b} : (\A y \in {a, b} : x <= y) => x = m
  OBVIOUS
<1> HIDE DEF m
<1>3. Min({a, b}) = m
  BY <1>1, <1>2 DEF Min
<1> QED
  BY <1>3 DEF m

LEMMA PerAllocIs == PerAlloc \in Nat \ {0}
BY SizesAssumption

\* Where the passes of the loop are: i[k] is how far it has come after k of them.
Stop(pos, end, room) == Min({end, pos + room})
Passes(pos, end, room, i) == Cardinality({k \in 1..room : i[k - 1] < Stop(pos, end, room)})
Positions(pos, end, room, i) ==
    /\ i[0] = pos
    /\ \A k \in 1..room :
           i[k] = i[k - 1] + Min({Stop(pos, end, room) - i[k - 1], PerAlloc - (i[k - 1] % PerAlloc)})
    /\ \A k \in 0..room : i[k] \in pos..Stop(pos, end, room)
    /\ Filled(pos, end, room)
         = [k \in 1..Passes(pos, end, room, i) |->
                [index |-> i[k - 1] \div PerAlloc, first |-> i[k - 1] + 1,
                 usable |-> i[k] - i[k - 1]]]

LEMMA StopIs == ASSUME NEW pos \in Nat, NEW end \in Nat, NEW room \in Nat \ {0}, pos < end
                PROVE  /\ Stop(pos, end, room) = IF end <= pos + room THEN end ELSE pos + room
                       /\ Stop(pos, end, room) \in Nat
                       /\ pos < Stop(pos, end, room) /\ Stop(pos, end, room) <= end
                       /\ Stop(pos, end, room) <= pos + room
<1>1. Stop(pos, end, room) = IF end <= pos + room THEN end ELSE pos + room
  BY MinOfTwo DEF Stop
<1> QED
  BY <1>1

LEMMA FilledPositions ==
    ASSUME NEW pos \in Nat, NEW end \in Nat, NEW room \in Nat \ {0}, pos < end
    PROVE  \E i : Positions(pos, end, room, i)
<1> DEFINE stop == Stop(pos, end, room)
           to(x) == x + Min({stop - x, PerAlloc - (x % PerAlloc)})
           S == pos..stop
           g == [k \in Int |-> [x \in S |-> to(x)]]
           Is(f) == f = [k \in 0..room |-> IF k = 0 THEN pos ELSE to(f[k - 1])]
           i == CHOOSE f : Is(f)
<1>1. stop \in Nat /\ pos < stop /\ stop <= end
  BY StopIs
<1> HIDE DEF stop
<1>2. \A x \in S : to(x) \in S
  <2> TAKE x \in S
  <2>1. x % PerAlloc \in 0..(PerAlloc - 1) /\ PerAlloc \in Nat
    <3>1. x \in Nat
      BY <1>1
    <3> QED
      BY <3>1, PerAllocIs
  <2>2. stop - x \in Nat /\ PerAlloc - (x % PerAlloc) \in Nat
    BY <1>1, <2>1
  <2>3. Min({stop - x, PerAlloc - (x % PerAlloc)}) \in 0..(stop - x)
    BY <2>2, MinOfTwo
  <2> DEFINE d == Min({stop - x, PerAlloc - (x % PerAlloc)})
  <2>4. d \in 0..(stop - x)
    BY <2>3
  <2> HIDE DEF d
  <2>5. x + d \in S
    BY <1>1, <2>4
  <2> QED
    BY <2>5 DEF d
<1> HIDE DEF to
<1>3. PICK h \in [0..room -> S] : h[0] = pos /\ \A k \in 0..room : k # 0 => h[k] = g[k][h[k - 1]]
  <2>1. pos \in S /\ 0 \in Int /\ room \in Int /\ 0 <= room
    BY <1>1
  <2>2. g \in [Int -> [S -> S]]
    BY <1>2
  <2> HIDE DEF g, S
  <2>3. Computable(S, pos, 0, room, g)
    BY <2>1, <2>2, Recursion
  <2> QED
    BY <2>3 DEF Computable
<1>4. Is(h)
  <2>1. ASSUME NEW k \in 0..room PROVE h[k] = IF k = 0 THEN pos ELSE to(h[k - 1])
    <3>1. k # 0 => k - 1 \in 0..room /\ h[k - 1] \in S
      BY <1>3
    <3>2. \A x \in S : g[k][x] = to(x)
      OBVIOUS
    <3> HIDE DEF g, S
    <3> QED
      BY <1>3, <3>1, <3>2
  <2>2. h = [k \in 0..room |-> h[k]]
    BY <1>3
  <2> HIDE DEF g, S
  <2> QED
    BY <2>1, <2>2
<1>5. Is(i)
  <2> HIDE DEF Is
  <2> QED
    BY <1>4
<1>6. i[0] = pos /\ \A k \in 1..room : i[k] = to(i[k - 1])
  <2> HIDE DEF i, g, S
  <2>1. \A k \in 0..room : i[k] = IF k = 0 THEN pos ELSE to(i[k - 1])
    BY <1>5
  <2>2. 0 \in 0..room /\ \A k \in 1..room : k \in 0..room /\ k # 0
    OBVIOUS
  <2> QED
    BY <2>1, <2>2
<1>7. \A k \in 0..room : i[k] \in S
  <2> DEFINE I == {m \in Nat : m \in 0..room => i[m] \in S}
  <2> HIDE DEF i
  <2>1. 0 \in I
    BY <1>1, <1>6
  <2>2. ASSUME NEW m \in Nat, m \in I PROVE m + 1 \in I
    <3>1. SUFFICES ASSUME m + 1 \in 0..room PROVE i[m + 1] \in S
      OBVIOUS
    <3>2. m \in 0..room /\ m + 1 \in 1..room /\ (m + 1) - 1 = m
      BY <3>1
    <3>3. i[m] \in S
      BY <2>2, <3>2
    <3>4. i[m + 1] = to(i[m])
      BY <1>6, <3>2
    <3> QED
      BY <1>2, <3>3, <3>4
  <2>3. I = Nat
    <3>1. I \in SUBSET Nat
      OBVIOUS
    <3> HIDE DEF I
    <3> QED
      BY <2>1, <2>2, <3>1, Induction
  <2>4. ASSUME NEW k \in 0..room PROVE i[k] \in S
    <3>1. k \in I
      <4>1. k \in Nat
        OBVIOUS
      <4> HIDE DEF I
      <4> QED
        BY <2>3, <4>1
    <3> QED
      BY <3>1
  <2> QED
    BY <2>4
<1>8. Filled(pos, end, room)
        = [k \in 1..Passes(pos, end, room, i) |->
               [index |-> i[k - 1] \div PerAlloc, first |-> i[k - 1] + 1,
                usable |-> i[k] - i[k - 1]]]
  BY DEF Filled, Passes, Stop, stop, to
<1>9. Positions(pos, end, room, i)
  <2> HIDE DEF i
  <2> QED
    BY <1>6, <1>7, <1>8 DEF Positions, stop, to
<1> QED
  BY <1>9

LEMMA PassesIs == ASSUME NEW pos, NEW end, NEW room \in Nat, NEW i
                  PROVE  Passes(pos, end, room, i) \in 0..room
<1> DEFINE K == {k \in 1..room : i[k - 1] < Stop(pos, end, room)}
<1>1. IsFiniteSet(1..room) /\ Cardinality(1..room) = room
  BY FS_Interval
<1>2. K \subseteq 1..room
  OBVIOUS
<1>3. IsFiniteSet(K) /\ Cardinality(K) <= Cardinality(1..room)
  <2> HIDE DEF K
  <2> QED
    BY <1>1, <1>2, FS_Subset
<1>4. Cardinality(K) \in Nat
  <2> HIDE DEF K
  <2> QED
    BY <1>3, FS_CardinalityType
<1> HIDE DEF K
<1>5. Cardinality(K) \in 0..room
  BY <1>1, <1>3, <1>4
<1> QED
  BY <1>5 DEF K, Passes

\* The points that GetIOVector copies into the elements.
Points(pos, end, room) ==
    [i \in 1..Len(Filled(pos, end, room)) |->
         SubSeq(buf, Filled(pos, end, room)[i].first,
                Filled(pos, end, room)[i].first + Filled(pos, end, room)[i].usable - 1)]

LEMMA PointsIn ==
    ASSUME buf \in Seq(Nat), NEW pos \in Nat, NEW end \in Nat, NEW room \in Nat \ {0},
           pos < end, end <= Len(buf)
    PROVE  Points(pos, end, room) \in Seq(Seq(Nat))
<1> DEFINE f == Filled(pos, end, room)
<1>1. PICK i : Positions(pos, end, room, i)
  BY FilledPositions
<1> DEFINE n == Passes(pos, end, room, i)
<1>2. n \in 0..room
  BY PassesIs
<1>3. f = [k \in 1..n |-> [index |-> i[k - 1] \div PerAlloc, first |-> i[k - 1] + 1,
                           usable |-> i[k] - i[k - 1]]]
  BY <1>1 DEF Positions
<1> HIDE DEF f, n
<1>4. Len(f) = n
  BY <1>2, <1>3
<1>5. ASSUME NEW k \in 1..n
      PROVE  SubSeq(buf, f[k].first, f[k].first + f[k].usable - 1) \in Seq(Nat)
  <2>1. k - 1 \in 0..room /\ k \in 0..room
    BY <1>2
  <2>2. i[k - 1] \in pos..Stop(pos, end, room) /\ i[k] \in pos..Stop(pos, end, room)
    BY <1>1, <2>1 DEF Positions
  <2>3. i[k - 1] \in Nat /\ i[k] \in Nat /\ i[k] <= Len(buf) /\ Len(buf) \in Nat
    <3>1. Stop(pos, end, room) \in Nat /\ Stop(pos, end, room) <= end
      BY StopIs
    <3>2. Len(buf) \in Nat
      OBVIOUS
    <3> QED
      BY <2>2, <3>1, <3>2
  <2>4. f[k].first = i[k - 1] + 1 /\ f[k].usable = i[k] - i[k - 1]
    BY <1>3
  <2>5. f[k].first + f[k].usable - 1 = i[k]
    <3>1. (i[k - 1] + 1) + (i[k] - i[k - 1]) - 1 = i[k]
      BY <2>3
    <3> QED
      BY <2>4, <3>1
  <2>6. \A j \in (i[k - 1] + 1)..i[k] : buf[j] \in Nat
    <3>1. \A j \in (i[k - 1] + 1)..i[k] : j \in 1..Len(buf)
      BY <2>3
    <3> QED
      BY <3>1
  <2>7. i[k - 1] + 1 \in Int /\ i[k] \in Int
    BY <2>3
  <2>8. SubSeq(buf, i[k - 1] + 1, i[k]) \in Seq(Nat)
    BY <2>6, <2>7, SubSeqProperties
  <2> QED
    BY <2>4, <2>5, <2>8
<1>6. [k \in 1..n |-> SubSeq(buf, f[k].first, f[k].first + f[k].usable - 1)] \in Seq(Seq(Nat))
  <2>1. n \in Nat
    BY <1>2
  <2> QED
    BY <1>5, <2>1
<1> QED
  BY <1>4, <1>6 DEF f, Points

\* From the start of the buffer every pass but the last fills an allocation.
LEMMA FirstVectorFits ==
    ASSUME NEW end \in Nat \ {0}, NEW room \in Nat \ {0}
    PROVE  InArray(0, end, room)
<1> DEFINE P == PerAlloc
           stop == Stop(0, end, room)
           m == (stop - 1) \div P + 1
<1>1. PICK i : Positions(0, end, room, i)
  BY FilledPositions
<1>2. P \in Nat \ {0}
  BY PerAllocIs
<1>3. stop = (IF end <= room THEN end ELSE room) /\ stop \in Nat \ {0} /\ stop <= room
  BY StopIs
<1> HIDE DEF P, stop
<1>4. i[0] = 0 /\ \A k \in 1..room : i[k] = i[k - 1] + Min({stop - i[k - 1], P - (i[k - 1] % P)})
  BY <1>1 DEF Positions, P, stop
<1>5. \A k \in 0..room : i[k] = IF k * P <= stop THEN k * P ELSE stop
  <2> DEFINE I == {k \in Nat : k \in 0..room => i[k] = IF k * P <= stop THEN k * P ELSE stop}
  <2>1. 0 \in I
    BY <1>2, <1>3, <1>4
  <2>2. ASSUME NEW k \in Nat, k \in I PROVE k + 1 \in I
    <3>1. SUFFICES ASSUME k + 1 \in 0..room
                   PROVE  i[k + 1] = IF (k + 1) * P <= stop THEN (k + 1) * P ELSE stop
      OBVIOUS
    <3>2. i[k] = (IF k * P <= stop THEN k * P ELSE stop)
          /\ i[k + 1] = i[k] + Min({stop - i[k], P - (i[k] % P)})
      <4>1. k \in 0..room /\ k + 1 \in 1..room /\ (k + 1) - 1 = k
        BY <3>1
      <4> QED
        BY <1>4, <2>2, <4>1
    <3>3. (k + 1) * P = k * P + P /\ k * P \in Nat
      BY <1>2
    <3>4. CASE k * P <= stop
      <4>1. (k * P) % P = 0
        BY <1>2
      <4>2. Min({stop - k * P, P - 0}) = IF stop - k * P <= P - 0 THEN stop - k * P ELSE P - 0
        BY <1>2, <1>3, <3>3, MinOfTwo
      <4>3. i[k + 1] = k * P + (IF stop - k * P <= P - 0 THEN stop - k * P ELSE P - 0)
        BY <3>2, <3>4, <4>1, <4>2
      <4> DEFINE q == k * P
      <4>4. q \in Nat /\ (k + 1) * P = q + P
        BY <3>3
      <4>5. i[k + 1] = q + (IF stop - q <= P - 0 THEN stop - q ELSE P - 0)
        BY <4>3
      <4> HIDE DEF q
      <4> QED
        BY <1>2, <1>3, <4>4, <4>5
    <3>5. CASE ~(k * P <= stop)
      <4>1. i[k] = stop /\ stop % P \in 0..(P - 1)
        BY <1>2, <1>3, <3>2, <3>5
      <4>2. Min({stop - stop, P - (stop % P)}) = 0
        <5>1. P - (stop % P) \in Nat /\ stop - stop = 0
          BY <1>2, <1>3, <4>1
        <5> QED
          BY <5>1, MinOfTwo
      <4>3. i[k + 1] = stop
        BY <1>3, <3>2, <4>1, <4>2
      <4>4. ~((k + 1) * P <= stop)
        BY <1>2, <1>3, <3>3, <3>5
      <4> QED
        BY <4>3, <4>4
    <3> QED
      BY <3>4, <3>5
  <2>3. I = Nat
    <3>1. I \in SUBSET Nat
      OBVIOUS
    <3> HIDE DEF I
    <3> QED
      BY <2>1, <2>2, <3>1, Induction
  <2>4. ASSUME NEW k \in 0..room PROVE i[k] = IF k * P <= stop THEN k * P ELSE stop
    <3>1. k \in I
      <4>1. k \in Nat
        OBVIOUS
      <4> HIDE DEF I
      <4> QED
        BY <2>3, <4>1
    <3> QED
      BY <3>1
  <2> QED
    BY <2>4
<1>6. m \in Nat /\ m <= room /\ \A j \in Nat : j * P < stop <=> j + 1 <= m
  <2> DEFINE q == (stop - 1) \div P
  <2>1. q \in Nat /\ q * P <= stop - 1 /\ stop - 1 < q * P + P
    BY <1>2, <1>3
  <2> HIDE DEF q
  <2>2. q <= stop - 1
    BY <1>2, <1>3, <2>1
  <2>3. ASSUME NEW j \in Nat PROVE j * P < stop <=> j <= q
    <3>1. CASE j <= q
      <4>1. j * P <= q * P
        BY <1>2, <2>1, <3>1
      <4> QED
        BY <1>2, <1>3, <2>1, <3>1, <4>1
    <3>2. CASE ~(j <= q)
      <4>1. (q + 1) * P <= j * P
        BY <1>2, <2>1, <3>2
      <4>2. (q + 1) * P = q * P + P
        BY <1>2, <2>1
      <4> QED
        BY <1>2, <1>3, <2>1, <3>2, <4>1, <4>2
    <3> QED
      BY <3>1, <3>2
  <2> QED
    BY <1>3, <2>1, <2>2, <2>3 DEF q
<1> HIDE DEF m
<1>7. ASSUME NEW k \in 1..room PROVE i[k - 1] < stop <=> k <= m
  <2>1. k - 1 \in Nat /\ k - 1 \in 0..room /\ (k - 1) + 1 = k
    OBVIOUS
  <2>2. i[k - 1] = IF (k - 1) * P <= stop THEN (k - 1) * P ELSE stop
    BY <1>5, <2>1
  <2>3. (k - 1) * P < stop <=> k <= m
    BY <1>6, <2>1
  <2>4. (k - 1) * P \in Nat
    BY <1>2, <2>1
  <2> DEFINE q == (k - 1) * P
  <2> HIDE DEF q
  <2>5. (q < stop <=> k <= m) /\ i[k - 1] = (IF q <= stop THEN q ELSE stop) /\ q \in Nat
    BY <2>2, <2>3, <2>4 DEF q
  <2> QED
    BY <1>3, <2>5
<1>8. Passes(0, end, room, i) = m
  <2>1. {k \in 1..room : i[k - 1] < stop} = 1..m
    BY <1>6, <1>7
  <2>2. Cardinality(1..m) = m
    BY <1>6, FS_Interval
  <2> QED
    BY <2>1, <2>2 DEF Passes, stop
<1> DEFINE f == Filled(0, end, room)
<1>9. f = [k \in 1..m |-> [index |-> i[k - 1] \div P, first |-> i[k - 1] + 1,
                           usable |-> i[k] - i[k - 1]]]
  BY <1>1, <1>8 DEF Positions, P
<1> HIDE DEF f
<1>10. Len(f) = m
  BY <1>6, <1>9
<1>11. \A k \in 1..m : f[k].index = k - 1
  <2> TAKE k \in 1..m
  <2>1. k - 1 \in Nat /\ k - 1 \in 0..room /\ k \in 1..room /\ (k - 1) + 1 <= m
    BY <1>6
  <2>2. (k - 1) * P < stop /\ (k - 1) * P \in Nat
    <3>1. (k - 1) * P < stop <=> (k - 1) + 1 <= m
      BY <1>6, <2>1
    <3> QED
      BY <1>2, <2>1, <3>1
  <2>3. i[k - 1] = (k - 1) * P
    BY <1>3, <1>5, <2>1, <2>2
  <2>4. ((k - 1) * P) \div P = k - 1
    BY <1>2, <2>1
  <2>5. f[k].index = i[k - 1] \div P
    BY <1>9
  <2> QED
    BY <2>3, <2>4, <2>5
<1>12. Indices(f) = 0..(m - 1)
  <2>1. Indices(f) = {f[k].index : k \in 1..m}
    BY <1>10 DEF Indices
  <2>2. Indices(f) = {k - 1 : k \in 1..m}
    BY <1>11, <2>1
  <2>3. {k - 1 : k \in 1..m} = 0..(m - 1)
    <3>1. ASSUME NEW x \in 0..(m - 1) PROVE x \in {k - 1 : k \in 1..m}
      <4>1. x + 1 \in 1..m /\ (x + 1) - 1 = x
        BY <1>6
      <4> QED
        BY <4>1
    <3>2. \A k \in 1..m : k - 1 \in 0..(m - 1)
      BY <1>6
    <3> QED
      BY <3>1, <3>2
  <2> QED
    BY <2>2, <2>3
<1>13. IovCount(0, end, room) = m
  <2> DEFINE e == (end - 1) \div P
             r == (room - 1) \div P
  <2>1. 0 \div P = 0
    BY <1>2
  <2>2. Ceiling(room) = r + 1
    <3>1. room + P - 1 = (room - 1) + P /\ room - 1 \in Nat
      BY <1>2
    <3>2. r \in Nat /\ r * P <= room - 1 /\ room - 1 < r * P + P
      BY <1>2, <3>1
    <3> HIDE DEF r
    <3>3. (r + 1) * P = r * P + P
      BY <1>2, <3>2
    <3>4. (r + 1) * P <= room + P - 1 /\ room + P - 1 < (r + 1) * P + P
      BY <1>2, <3>1, <3>2, <3>3
    <3>5. (room + P - 1) \div P = r + 1
      <4>1. room + P - 1 \in Int /\ r + 1 \in Int
        BY <1>2, <3>2
      <4> QED
        BY <1>2, <3>4, <4>1
    <3> QED
      BY <3>5 DEF Ceiling, P
  <2>3. e \in Nat /\ r \in Nat
    BY <1>2
  <2>4. IovCount(0, end, room) = Min({r + 1, e - 0 + 1})
    BY <2>1, <2>2 DEF IovCount, P
  <2>5. (end <= room => e <= r) /\ (room <= end => r <= e)
    <3>1. /\ e * P <= end - 1 /\ end - 1 < e * P + P
          /\ r * P <= room - 1 /\ room - 1 < r * P + P
      BY <1>2
    <3> HIDE DEF e, r
    <3>2. e * P + P = (e + 1) * P /\ r * P + P = (r + 1) * P
      BY <1>2, <2>3
    <3>3. r < e => (r + 1) * P <= e * P
      BY <1>2, <2>3
    <3>4. e < r => (e + 1) * P <= r * P
      BY <1>2, <2>3
    <3> DEFINE ep == e * P
               rp == r * P
    <3>5. /\ ep \in Nat /\ rp \in Nat
          /\ ep <= end - 1 /\ end - 1 < ep + P /\ rp <= room - 1 /\ room - 1 < rp + P
          /\ (r < e => rp + P <= ep) /\ (e < r => ep + P <= rp)
      BY <1>2, <2>3, <3>1, <3>2, <3>3, <3>4
    <3> HIDE DEF ep, rp
    <3> QED
      BY <1>2, <2>3, <3>5
  <2>6. m = (IF end <= room THEN e ELSE r) + 1
    BY <1>3 DEF m
  <2> HIDE DEF e, r
  <2>7. Min({r + 1, e - 0 + 1}) = IF r + 1 <= e - 0 + 1 THEN r + 1 ELSE e - 0 + 1
    BY <2>3, MinOfTwo
  <2> QED
    BY <2>3, <2>4, <2>5, <2>6, <2>7
<1> QED
  BY <1>12, <1>13 DEF InArray, f

----------------------------------------------------------------------------
(* The descriptor table.                                                     *)

HasNumber == \A t \in Thread : pc[t] # "idle" => fd[t] \in Fd

IInv == TypeOK /\ HasNumber /\ OpenIsHeld

LEMMA InitInv == Init => IInv
BY FdAssumption DEF Init, IInv, TypeOK, HasNumber, OpenIsHeld, Thread

\* open(2) takes a closed number for a thread that has none, so nobody's is taken.
LEMMA OpenKeeps ==
    ASSUME IInv, NEW t \in Thread, NEW f \in File \union {Db}, pc[t] = "idle", Open(t, f),
           UNCHANGED <<result, damaged>>, ragged' \subseteq Reader
    PROVE  IInv'
<1> USE DEF IInv, Open
<1>1. PICK n \in Fd : /\ table[n] = Closed
                      /\ table' = [table EXCEPT ![n] = [by |-> t, file |-> f, offset |-> 0]]
                      /\ fd' = [fd EXCEPT ![t] = n]
  OBVIOUS
<1>2. [by |-> t, file |-> f, offset |-> 0] \in Described
  BY DEF Described
<1>3. TypeOK' BY <1>1, <1>2 DEF TypeOK
<1>4. HasNumber' BY <1>1 DEF HasNumber, TypeOK
<1>5. OpenIsHeld' BY <1>1 DEF OpenIsHeld, TypeOK, Closed, Described
<1> QED BY <1>3, <1>4, <1>5
\* Whoever's number it is, closing it leaves the others' open files with their threads.
LEMMA CloseTypes ==
    ASSUME IInv, NEW t \in Thread, pc[t] # "idle", Close(t)
    PROVE  /\ table' \in [Fd -> Described \union {Closed}]
           /\ robbed' \subseteq Thread
           /\ \A n \in Fd : table'[n] # Closed => table'[n] = table[n] /\ n # fd[t]
<1>1. fd[t] \in Fd BY DEF IInv, HasNumber
<1>2. table[fd[t]].by \in Thread \union {"nobody"}
  BY <1>1 DEF IInv, TypeOK, Described, Closed
<1> QED BY <1>1, <1>2 DEF IInv, TypeOK, Close

LEMMA CopyDiesKeeps ==
    ASSUME IInv, NEW t \in Thread, pc[t] = "io", CopyDies(t), UNCHANGED <<ragged, damaged>>,
           result' \in [Reader -> {"none", "values", "thrown"}]
    PROVE  IInv'
<1> USE DEF IInv, CopyDies
<1>1. TypeOK' BY CloseTypes DEF TypeOK
<1>2. HasNumber' BY DEF HasNumber, TypeOK
<1>3. OpenIsHeld' BY CloseTypes DEF OpenIsHeld, TypeOK, HasNumber
<1> QED BY <1>1, <1>2, <1>3

LEMMA HandleDiesKeeps ==
    ASSUME IInv, NEW t \in Thread, pc[t] # "idle", HandleDies(t),
           ragged' \subseteq Reader, UNCHANGED damaged,
           result' \in [Reader -> {"none", "values", "thrown"}]
    PROVE  IInv'
<1> USE DEF IInv, HandleDies
<1>1. TypeOK' BY CloseTypes DEF TypeOK
<1>2. HasNumber' BY DEF HasNumber, TypeOK
<1>3. OpenIsHeld' BY CloseTypes DEF OpenIsHeld, TypeOK, HasNumber
<1> QED BY <1>1, <1>2, <1>3

\* Steps inside a callee, or between the open and it: the table's owners stay.
LEMMA ProceedKeeps ==
    ASSUME IInv, NEW t \in Thread, pc[t] # "idle",
           NEW s \in {"open", "io", "copied", "overrun"}, pc' = [pc EXCEPT ![t] = s],
           UNCHANGED <<table, fd, path, result, ragged, robbed, damaged>>
    PROVE  IInv'
BY DEF IInv, TypeOK, HasNumber, OpenIsHeld

LEMMA ReaderKeeps == ASSUME IInv, NEW t \in Reader, ReaderStep(t) PROVE IInv'
<1> USE DEF Thread
<1>1. ASSUME NEW f \in File, OpenToRead(t, f) PROVE IInv'
  BY <1>1, OpenKeeps DEF OpenToRead, flushvars, IInv, TypeOK
<1>2. CASE Size(t)
  BY <1>2, ProceedKeeps DEF Size
<1>3. CASE SizeThrows(t)
  BY <1>3, HandleDiesKeeps DEF SizeThrows, readvars, IInv, TypeOK
<1>4. ASSUME NEW k \in 1..(MaxPoints * PointBytes), Read(t, k) PROVE IInv'
  <2>1. k \in Nat BY SizesAssumption, BoundsAssumption
  <2>2. fd[t] \in Fd BY <1>4 DEF IInv, HasNumber, Read, InIO
  <2>3. table[fd[t]] \in Described
    BY <1>4, <2>2 DEF IInv, TypeOK, Read, Readable, Description
  <2>4. [table[fd[t]] EXCEPT !.offset = @ + k] \in Described
    BY <2>1, <2>3 DEF Described
  <2>5. table' = [table EXCEPT ![fd[t]] = [table[fd[t]] EXCEPT !.offset = @ + k]]
    BY <1>4 DEF Read
  <2>6. /\ UNCHANGED <<pc, fd, path, result, damaged>>
        /\ ragged' \subseteq Reader /\ robbed' \subseteq Thread
    <3>1. Description(t).by \in Thread
      BY <2>3 DEF Description, Described
    <3> QED
      BY <1>4, <3>1 DEF Read, IInv, TypeOK
  <2>7. TypeOK' BY <2>2, <2>4, <2>5, <2>6 DEF IInv, TypeOK
  <2>8. OpenIsHeld'
    <3>1. table[fd[t]] # Closed BY <1>4 DEF Read, Readable, Description
    <3>2. \A n \in Fd : table'[n] # Closed => table[n] # Closed /\ table'[n].by = table[n].by
      BY <2>2, <2>3, <2>5, <3>1 DEF IInv, TypeOK, Described
    <3> QED BY <2>6, <3>2 DEF IInv, OpenIsHeld
  <2> QED BY <2>6, <2>7, <2>8 DEF IInv, HasNumber
<1>5. CASE ReadValuesEnds(t)
  BY <1>5, CopyDiesKeeps DEF ReadValuesEnds, Returns, InIO, IInv, TypeOK
<1>6. CASE ReadValuesThrows(t)
  BY <1>6, CopyDiesKeeps DEF ReadValuesThrows, Returns, InIO, IInv, TypeOK
<1>7. CASE ReadEnds(t)
  BY <1>7, HandleDiesKeeps DEF ReadEnds, IInv, TypeOK
<1> QED BY <1>1, <1>2, <1>3, <1>4, <1>5, <1>6, <1>7 DEF ReaderStep

LEMMA WriteKeeps == ASSUME IInv, Write PROVE IInv'
<1> USE DEF Thread, readvars
<1>1. ASSUME NEW n \in 1..MaxBatch, Flush(n) PROVE IInv'
  BY <1>1 DEF Flush, IInv, TypeOK, HasNumber, OpenIsHeld
<1>2. ASSUME NEW f \in File, OpenToWrite(f) PROVE IInv'
  BY <1>2, OpenKeeps DEF OpenToWrite, IInv, TypeOK
<1>3. ASSUME NEW end \in 0..Len(buf), NothingBefore(end) PROVE IInv'
  BY <1>3, ProceedKeeps DEF NothingBefore
<1>4. ASSUME NEW end \in (cursor + 1)..Len(buf), NEW room \in 1..MaxBatch, Vector(end, room)
      PROVE IInv'
  BY <1>4, ProceedKeeps DEF Vector
<1>5. ASSUME NEW k \in 1..(MaxPoints * PointBytes), Writev(k) PROVE IInv'
  <2>1. fd[Flusher] \in Fd BY <1>5 DEF IInv, HasNumber, Writev
  <2>2. Description(Flusher).file \in File \union {Db}
    BY <1>5, <2>1 DEF IInv, TypeOK, Writev, Writable, Description, Described
  <2> QED BY <1>5, <2>2 DEF Writev, IInv, TypeOK, HasNumber, OpenIsHeld
<1>6. CASE WriteVectorEnds
  BY <1>6, CopyDiesKeeps DEF WriteVectorEnds, IInv, TypeOK
<1>7. CASE WriteEnds
  BY <1>7, HandleDiesKeeps DEF WriteEnds, IInv, TypeOK
<1> QED BY <1>1, <1>2, <1>3, <1>4, <1>5, <1>6, <1>7 DEF Write

LEMMA NextKeeps == IInv /\ [Next]_vars => IInv'
<1> SUFFICES ASSUME IInv, [Next]_vars PROVE IInv'
  OBVIOUS
<1>1. ASSUME NEW t \in Reader, ReaderStep(t) PROVE IInv' BY <1>1, ReaderKeeps
<1>2. CASE Write BY <1>2, WriteKeeps
<1>3. CASE Terminate
  BY <1>3 DEF Terminate, IInv, TypeOK, HasNumber, OpenIsHeld, Thread
<1>4. ASSUME NEW t \in Other, OtherOpens(t) PROVE IInv'
  BY <1>4, OpenKeeps DEF OtherOpens, readvars, IInv, TypeOK, Thread
<1>5. ASSUME NEW t \in Other, OtherCloses(t) PROVE IInv'
  BY <1>5, HandleDiesKeeps DEF OtherCloses, readvars, IInv, TypeOK, Thread
<1>6. CASE UNCHANGED vars
  BY <1>6 DEF vars, readvars, IInv, TypeOK, HasNumber, OpenIsHeld
<1> QED BY <1>1, <1>2, <1>3, <1>4, <1>5, <1>6 DEF Next

----------------------------------------------------------------------------
(* Files and buffers. The invariant adds that an open number leads to the    *)
(* file of the thread that opened it.                                        *)

DataTypes == /\ store \in [File \union {Db} -> Seq(Byte)]
             /\ want \in [Reader -> Nat] /\ got \in [Reader -> Seq(Byte)]
             /\ buf \in Seq(Nat) /\ cursor \in Nat /\ last \in Nat
             /\ iov \in Seq(Seq(Byte)) /\ writing \in Seq(Nat)
             /\ wrote \in [File -> Seq(Nat)]

OwnFiles == \A n \in Fd : table[n] # Closed => table[n].file = path[table[n].by]
FlusherHasFile == pc[Flusher] # "idle" => path[Flusher] \in File

Inv == IInv /\ DataTypes /\ OwnFiles /\ FlusherHasFile

LEMMA InitHolds == Init => Inv
<1> SUFFICES ASSUME Init PROVE Inv
  OBVIOUS
<1>1. <<>> \in Seq(Byte) /\ <<>> \in Seq(Nat) /\ <<>> \in Seq(Seq(Byte))
  OBVIOUS
<1>2. DataTypes
  BY <1>1 DEF Init, DataTypes
<1>3. OwnFiles
  BY DEF Init, OwnFiles
<1>4. FlusherHasFile
  BY DEF Init, FlusherHasFile, Thread
<1> QED
  BY InitInv, <1>2, <1>3, <1>4 DEF Inv

\* A description stays what it is until its number is closed.
LEMMA OwnFilesKept == ASSUME Inv, Next PROVE OwnFiles'
<1> USE DEF Thread
<1>1. IInv /\ OwnFiles /\ TypeOK /\ HasNumber /\ OpenIsHeld
  BY DEF Inv, IInv
<1>2. ASSUME NEW t \in Thread, NEW f, pc[t] = "idle", Open(t, f) PROVE OwnFiles'
  <2>1. PICK n \in Fd : /\ table[n] = Closed
                        /\ table' = [table EXCEPT ![n] = [by |-> t, file |-> f, offset |-> 0]]
                        /\ path' = [path EXCEPT ![t] = f]
    BY <1>2 DEF Open
  <2>2. ASSUME NEW k \in Fd, table'[k] # Closed PROVE table'[k].file = path'[table'[k].by]
    <3>1. CASE k = n
      BY <1>1, <2>1, <3>1 DEF TypeOK
    <3>2. CASE k # n
      <4>1. table'[k] = table[k] /\ table[k] # Closed
        BY <1>1, <2>1, <2>2, <3>2 DEF TypeOK
      <4>2. table[k].by # t /\ table[k].file = path[table[k].by] /\ table[k].by \in Thread
        BY <1>1, <1>2, <4>1 DEF OpenIsHeld, OwnFiles, TypeOK, Described
      <4> QED
        BY <1>1, <2>1, <4>1, <4>2 DEF TypeOK
    <3> QED
      BY <3>1, <3>2
  <2> QED
    BY <2>2 DEF OwnFiles
<1>3. ASSUME NEW t \in Thread, pc[t] # "idle", CopyDies(t) PROVE OwnFiles'
  <2>1. \A n \in Fd : table'[n] # Closed => table'[n] = table[n] /\ n # fd[t]
    BY <1>1, <1>3, CloseTypes DEF CopyDies
  <2> QED
    BY <1>1, <1>3, <2>1 DEF OwnFiles, CopyDies
<1>4. ASSUME NEW t \in Thread, pc[t] # "idle", HandleDies(t) PROVE OwnFiles'
  <2>1. \A n \in Fd : table'[n] # Closed => table'[n] = table[n] /\ n # fd[t]
    BY <1>1, <1>4, CloseTypes DEF HandleDies
  <2>2. \A n \in Fd : table[n] # Closed => table[n].by \in Thread /\ fd[table[n].by] = n
    BY <1>1 DEF OpenIsHeld, TypeOK, Described
  <2>3. path' = [path EXCEPT ![t] = Db]
    BY <1>4 DEF HandleDies
  <2>4. ASSUME NEW n \in Fd, table'[n] # Closed PROVE table'[n].file = path'[table'[n].by]
    <3>1. table'[n] = table[n] /\ table[n] # Closed /\ n # fd[t]
      BY <2>1, <2>4
    <3>2. table[n].by # t /\ table[n].by \in Thread
      BY <2>2, <3>1
    <3> QED
      BY <1>1, <2>3, <3>1, <3>2 DEF OwnFiles, TypeOK
  <2> QED
    BY <2>4 DEF OwnFiles
<1>5. ASSUME UNCHANGED <<table, path>> PROVE OwnFiles'
  BY <1>1, <1>5 DEF OwnFiles
<1>6. ASSUME NEW t \in Reader, ReaderStep(t) PROVE OwnFiles'
  <2>1. ASSUME NEW f \in File, OpenToRead(t, f) PROVE OwnFiles'
    BY <1>2, <2>1 DEF OpenToRead
  <2>2. CASE Size(t)
    BY <1>5, <2>2 DEF Size
  <2>3. CASE SizeThrows(t)
    BY <1>4, <2>3 DEF SizeThrows
  <2>4. ASSUME NEW k \in 1..(MaxPoints * PointBytes), Read(t, k) PROVE OwnFiles'
    <3>1. fd[t] \in Fd /\ table[fd[t]] # Closed /\ path' = path
          /\ table' = [table EXCEPT ![fd[t]].offset = @ + k]
      BY <1>1, <2>4 DEF HasNumber, Read, InIO, Readable, Description
    <3>2. \A n \in Fd : table'[n] # Closed
              => table[n] # Closed /\ table'[n].by = table[n].by /\ table'[n].file = table[n].file
      BY <1>1, <3>1 DEF TypeOK, Described
    <3> QED
      BY <1>1, <3>1, <3>2 DEF OwnFiles
  <2>5. CASE ReadValuesEnds(t)
    BY <1>3, <2>5 DEF ReadValuesEnds, Returns, InIO
  <2>6. CASE ReadValuesThrows(t)
    BY <1>3, <2>6 DEF ReadValuesThrows, Returns, InIO
  <2>7. CASE ReadEnds(t)
    BY <1>4, <2>7 DEF ReadEnds
  <2> QED
    BY <1>6, <2>1, <2>2, <2>3, <2>4, <2>5, <2>6, <2>7 DEF ReaderStep
<1>7. CASE Write
  <2>1. ASSUME NEW n \in 1..MaxBatch, Flush(n) PROVE OwnFiles'
    BY <1>5, <2>1 DEF Flush
  <2>2. ASSUME NEW f \in File, OpenToWrite(f) PROVE OwnFiles'
    BY <1>2, <2>2 DEF OpenToWrite
  <2>3. ASSUME NEW end \in 0..Len(buf), NothingBefore(end) PROVE OwnFiles'
    BY <1>5, <2>3 DEF NothingBefore
  <2>4. ASSUME NEW end \in (cursor + 1)..Len(buf), NEW room \in 1..MaxBatch, Vector(end, room)
        PROVE  OwnFiles'
    BY <1>5, <2>4 DEF Vector
  <2>5. ASSUME NEW k \in 1..(MaxPoints * PointBytes), Writev(k) PROVE OwnFiles'
    BY <1>5, <2>5 DEF Writev
  <2>6. CASE WriteVectorEnds
    BY <1>3, <2>6 DEF WriteVectorEnds
  <2>7. CASE WriteEnds
    BY <1>4, <2>7 DEF WriteEnds
  <2> QED
    BY <1>7, <2>1, <2>2, <2>3, <2>4, <2>5, <2>6, <2>7 DEF Write
<1>8. CASE Terminate
  BY <1>8 DEF Terminate, OwnFiles
<1>9. ASSUME NEW t \in Other, OtherOpens(t) PROVE OwnFiles'
  BY <1>2, <1>9 DEF OtherOpens
<1>10. ASSUME NEW t \in Other, OtherCloses(t) PROVE OwnFiles'
  BY <1>4, <1>10 DEF OtherCloses
<1> QED
  BY <1>6, <1>7, <1>8, <1>9, <1>10 DEF Next

\* What the readers and the other threads leave alone.
FlusherApart == /\ UNCHANGED <<store, damaged, buf, cursor, iov, writing, last, wrote>>
                /\ pc'[Flusher] = pc[Flusher] /\ path'[Flusher] = path[Flusher]

LEMMA ReaderApart == ASSUME Inv, NEW t \in Reader, ReaderStep(t) PROVE FlusherApart
<1> USE DEF FlusherApart, flushvars, readvars
<1>1. t # Flusher /\ t \in Thread /\ Flusher \in Thread /\ TypeOK
  BY ThreadAssumption DEF Thread, Inv, IInv
<1>2. pc \in [Thread -> {"idle", "open", "io", "copied", "overrun"}]
      /\ path \in [Thread -> File \union {Db}]
  BY <1>1 DEF TypeOK
<1>3. ASSUME NEW f \in File, OpenToRead(t, f) PROVE FlusherApart
  BY <1>1, <1>2, <1>3 DEF OpenToRead, Open
<1>4. CASE Size(t)
  BY <1>1, <1>2, <1>4 DEF Size
<1>5. CASE SizeThrows(t)
  BY <1>1, <1>2, <1>5 DEF SizeThrows, HandleDies
<1>6. ASSUME NEW k \in 1..(MaxPoints * PointBytes), Read(t, k) PROVE FlusherApart
  BY <1>1, <1>2, <1>6 DEF Read
<1>7. CASE ReadValuesEnds(t)
  BY <1>1, <1>2, <1>7 DEF ReadValuesEnds, Returns, CopyDies
<1>8. CASE ReadValuesThrows(t)
  BY <1>1, <1>2, <1>8 DEF ReadValuesThrows, Returns, CopyDies
<1>9. CASE ReadEnds(t)
  BY <1>1, <1>2, <1>9 DEF ReadEnds, HandleDies
<1> QED
  BY <1>3, <1>4, <1>5, <1>6, <1>7, <1>8, <1>9 DEF ReaderStep

LEMMA OtherApart == ASSUME Inv, NEW t \in Other, OtherOpens(t) \/ OtherCloses(t)
                    PROVE  FlusherApart /\ UNCHANGED readvars
<1> USE DEF FlusherApart, flushvars, readvars
<1>1. t # Flusher /\ t \in Thread /\ Flusher \in Thread /\ TypeOK
  BY ThreadAssumption DEF Thread, Inv, IInv
<1>2. pc \in [Thread -> {"idle", "open", "io", "copied", "overrun"}]
      /\ path \in [Thread -> File \union {Db}]
  BY <1>1 DEF TypeOK
<1>3. CASE OtherOpens(t)
  BY <1>1, <1>2, <1>3 DEF OtherOpens, Open
<1>4. CASE OtherCloses(t)
  BY <1>1, <1>2, <1>4 DEF OtherCloses, HandleDies
<1> QED
  BY <1>3, <1>4

LEMMA FlusherHasFileKept == ASSUME Inv, Next PROVE FlusherHasFile'
<1>1. FlusherHasFile /\ TypeOK /\ Flusher \in Thread
  BY DEF Inv, IInv, Thread
<1>2. pc \in [Thread -> {"idle", "open", "io", "copied", "overrun"}]
      /\ path \in [Thread -> File \union {Db}]
  BY <1>1 DEF TypeOK
<1>3. FlusherApart => FlusherHasFile'
  BY <1>1 DEF FlusherApart, FlusherHasFile
<1>4. CASE Write
  <2>1. ASSUME NEW n \in 1..MaxBatch, Flush(n) PROVE FlusherHasFile'
    BY <1>1, <2>1 DEF Flush, FlusherHasFile
  <2>2. ASSUME NEW f \in File, OpenToWrite(f) PROVE FlusherHasFile'
    BY <1>1, <1>2, <2>2 DEF OpenToWrite, Open, FlusherHasFile
  <2>3. ASSUME NEW end \in 0..Len(buf), NothingBefore(end) PROVE FlusherHasFile'
    BY <1>1, <1>2, <2>3 DEF NothingBefore, FlusherHasFile
  <2>4. ASSUME NEW end \in (cursor + 1)..Len(buf), NEW room \in 1..MaxBatch, Vector(end, room)
        PROVE  FlusherHasFile'
    BY <1>1, <1>2, <2>4 DEF Vector, FlusherHasFile
  <2>5. ASSUME NEW k \in 1..(MaxPoints * PointBytes), Writev(k) PROVE FlusherHasFile'
    BY <1>1, <1>2, <2>5 DEF Writev, FlusherHasFile
  <2>6. CASE WriteVectorEnds
    BY <1>1, <1>2, <2>6 DEF WriteVectorEnds, CopyDies, FlusherHasFile
  <2>7. CASE WriteEnds
    BY <1>1, <1>2, <2>7 DEF WriteEnds, HandleDies, FlusherHasFile
  <2> QED
    BY <1>4, <2>1, <2>2, <2>3, <2>4, <2>5, <2>6, <2>7 DEF Write
<1>5. CASE Terminate
  BY <1>1, <1>5 DEF Terminate, FlusherHasFile
<1> QED
  BY <1>3, <1>4, <1>5, ReaderApart, OtherApart DEF Next

\* Whole points of what is asked for or read.
LEMMA Whole == ASSUME NEW n \in Nat
               PROVE  /\ n - (n % PointBytes) \in 0..n
                      /\ (n \div PointBytes) * PointBytes \in 0..n
<1>1. PointBytes \in Nat \ {0}
  BY SizesAssumption
<1>2. n % PointBytes \in 0..(PointBytes - 1) /\ n % PointBytes <= n
  BY <1>1
<1>3. (n \div PointBytes) * PointBytes <= n /\ n \div PointBytes \in Nat
  BY <1>1
<1>4. (n \div PointBytes) * PointBytes \in Nat
  BY <1>1, <1>3
<1> DEFINE q == (n \div PointBytes) * PointBytes
<1>5. q \in 0..n
  <2>1. q \in Nat /\ q <= n
    BY <1>3, <1>4
  <2> HIDE DEF q
  <2> QED
    BY <2>1
<1>6. n - (n % PointBytes) \in 0..n
  <2> DEFINE r == n % PointBytes
  <2>1. r \in Nat /\ r <= n
    BY <1>1, <1>2
  <2> HIDE DEF r
  <2>2. n - r \in 0..n
    BY <2>1
  <2> QED
    BY <2>2 DEF r
<1> QED
  BY <1>5, <1>6

\* The elements of a vector hold the bytes of the points that are being written.
LEMMA VectorHolds ==
    ASSUME Inv, NEW end \in (cursor + 1)..Len(buf), NEW room \in 1..MaxBatch, Vector(end, room)
    PROVE  /\ iov' \in Seq(Seq(Byte)) /\ writing' \in Seq(Nat)
           /\ FlattenSeq(iov') = Bytes(writing')
<1> DEFINE ps == Points(cursor, end, room)
<1>1. buf \in Seq(Nat) /\ cursor \in Nat
  BY DEF Inv, DataTypes
<1>2. end \in Nat /\ room \in Nat \ {0} /\ cursor < end /\ end <= Len(buf)
  <2>1. Len(buf) \in Nat
    BY <1>1
  <2>2. MaxBatch \in Nat
    BY BoundsAssumption
  <2> QED
    BY <1>1, <2>1, <2>2
<1>3. ps \in Seq(Seq(Nat))
  BY <1>1, <1>2, PointsIn
<1>4. Len(ps) = Len(Filled(cursor, end, room)) /\ Len(ps) \in Nat
  <2>1. Len(ps) \in Nat /\ DOMAIN ps = 1..Len(ps)
    BY <1>3, LenProperties
  <2> DEFINE l == Len(Filled(cursor, end, room))
  <2>2. DOMAIN ps = 1..l
    BY DEF Points
  <2>3. l \in Nat
    <3>1. PICK i : Positions(cursor, end, room, i)
      BY <1>1, <1>2, FilledPositions
    <3>2. Passes(cursor, end, room, i) \in Nat
      BY <1>2, PassesIs
    <3> QED
      BY <3>1, <3>2 DEF Positions
  <2> HIDE DEF l, ps
  <2>4. 1..Len(ps) = 1..l
    BY <2>1, <2>2
  <2>5. Len(ps) = l
    <3> DEFINE m == Len(ps)
    <3>1. m \in Nat /\ 1..m = 1..l
      BY <2>1, <2>4
    <3> HIDE DEF m
    <3>2. (m > l => m \in 1..m /\ m \notin 1..l) /\ (l > m => l \in 1..l /\ l \notin 1..m)
      BY <2>3, <3>1
    <3>3. m = l
      BY <2>3, <3>1, <3>2
    <3> QED
      BY <3>3 DEF m
  <2> QED
    BY <2>1, <2>5 DEF l
<1>5. writing' = FlattenSeq(ps)
  BY DEF Vector, Points
<1>6. iov' = [i \in 1..Len(ps) |-> Bytes(ps[i])]
  <2>1. iov' = [i \in 1..Len(Filled(cursor, end, room)) |->
                   Bytes(SubSeq(buf, Filled(cursor, end, room)[i].first,
                                Filled(cursor, end, room)[i].first
                                    + Filled(cursor, end, room)[i].usable - 1))]
    BY DEF Vector
  <2>2. \A i \in 1..Len(Filled(cursor, end, room)) :
            ps[i] = SubSeq(buf, Filled(cursor, end, room)[i].first,
                           Filled(cursor, end, room)[i].first
                               + Filled(cursor, end, room)[i].usable - 1)
    BY DEF Points
  <2> HIDE DEF ps
  <2> QED
    BY <1>4, <2>1, <2>2
<1> HIDE DEF ps
<1>7. iov' \in Seq(Seq(Byte)) /\ FlattenSeq(iov') = Bytes(FlattenSeq(ps))
  BY <1>3, <1>6, BytesFlatten
<1>8. FlattenSeq(ps) \in Seq(Nat)
  BY <1>3, FlattenIn
<1> QED
  BY <1>5, <1>7, <1>8

LEMMA WriteDataKept == ASSUME Inv, Write PROVE DataTypes'
<1> USE DEF DataTypes, readvars
<1>1. DataTypes /\ TypeOK /\ HasNumber /\ Flusher \in Thread
  BY DEF Inv, IInv, Thread
<1>2. ASSUME NEW n \in 1..MaxBatch, Flush(n) PROVE DataTypes'
  <2>1. MaxBatch \in Nat
    BY BoundsAssumption
  <2>2. last + n \in Nat /\ \A i \in 1..n : last + i \in Nat
    BY <1>1, <2>1
  <2>3. [i \in 1..n |-> last + i] \in Seq(Nat)
    BY <2>1, <2>2
  <2> QED
    BY <1>1, <1>2, <2>2, <2>3 DEF Flush
<1>3. ASSUME NEW f \in File, OpenToWrite(f) PROVE DataTypes'
  BY <1>1, <1>3 DEF OpenToWrite, flushvars
<1>4. ASSUME NEW end \in 0..Len(buf), NothingBefore(end) PROVE DataTypes'
  BY <1>1, <1>4 DEF NothingBefore, flushvars
<1>5. ASSUME NEW end \in (cursor + 1)..Len(buf), NEW room \in 1..MaxBatch, Vector(end, room)
      PROVE  DataTypes'
  <2>1. iov' \in Seq(Seq(Byte)) /\ writing' \in Seq(Nat)
    BY <1>5, VectorHolds
  <2>2. UNCHANGED <<store, readvars, buf, cursor, last, wrote>>
    BY <1>5 DEF Vector
  <2> QED
    BY <1>1, <2>1, <2>2
<1>6. ASSUME NEW k \in 1..(MaxPoints * PointBytes), Writev(k) PROVE DataTypes'
  <2> DEFINE s == FlattenSeq(iov)
  <2>1. s \in Seq(Byte)
    BY <1>1, FlattenIn
  <2>2. k \in Nat /\ k <= Len(s) /\ Len(s) \in Nat
    <3>1. MaxPoints * PointBytes \in Nat
      BY SizesAssumption, BoundsAssumption
    <3>2. k <= Len(s)
      BY <1>6 DEF Writev
    <3> HIDE DEF s
    <3> QED
      BY <2>1, <3>1, <3>2
  <2>3. SubSeq(s, 1, k) \in Seq(Byte)
    <3> HIDE DEF s
    <3>1. \A i \in 1..k : s[i] \in Byte
      BY <2>1, <2>2
    <3> QED
      BY <2>2, <3>1, SubSeqProperties
  <2>4. iov' \in Seq(Seq(Byte))
    <3>1. iov' = Advance(iov, k)
      BY <1>6 DEF Writev
    <3> QED
      BY <1>1, <2>2, <3>1, AdvanceFlattens
  <2>5. store' \in [File \union {Db} -> Seq(Byte)]
    <3>1. store' = [store EXCEPT ![Description(Flusher).file] = @ \o SubSeq(s, 1, k)]
      BY <1>6 DEF Writev
    <3> HIDE DEF s
    <3>2. \A f \in File \union {Db} : store[f] \o SubSeq(s, 1, k) \in Seq(Byte)
      BY <1>1, <2>3, ConcatProperties
    <3> QED
      BY <1>1, <3>1, <3>2
  <2>6. UNCHANGED <<readvars, buf, cursor, writing, last, wrote>>
    BY <1>6 DEF Writev
  <2> QED
    BY <1>1, <2>4, <2>5, <2>6
<1>7. CASE WriteVectorEnds
  <2>1. path[Flusher] \in File
    BY <1>7 DEF WriteVectorEnds, Inv, FlusherHasFile
  <2>2. wrote' = [wrote EXCEPT ![path[Flusher]] = @ \o writing]
        /\ UNCHANGED <<store, readvars, buf, cursor, iov, writing, last>>
    BY <1>7 DEF WriteVectorEnds
  <2>3. \A f \in File : wrote[f] \o writing \in Seq(Nat)
    BY <1>1, ConcatProperties
  <2> QED
    BY <1>1, <2>1, <2>2, <2>3
<1>8. CASE WriteEnds
  <2>1. <<>> \in Seq(Nat) /\ cursor + Len(writing) \in Nat
    BY <1>1
  <2>2. cursor' \in Nat /\ buf' \in Seq(Nat) /\ writing' \in Seq(Nat)
    BY <1>1, <1>8, <2>1 DEF WriteEnds
  <2> QED
    BY <1>1, <1>8, <2>2 DEF WriteEnds
<1> QED
  BY <1>2, <1>3, <1>4, <1>5, <1>6, <1>7, <1>8 DEF Write

\* What a read(2) stores.
LEMMA ReadStores ==
    ASSUME Inv, NEW t \in Reader, NEW k \in 1..(MaxPoints * PointBytes), Read(t, k)
    PROVE  /\ k \in Nat /\ k - (k % PointBytes) \in 0..k
           /\ fd[t] \in Fd /\ Description(t) \in Described
           /\ Description(t).offset + k <= Len(store[Description(t).file])
           /\ Len(got[t]) + k <= want[t]
           /\ SubSeq(store[Description(t).file], Description(t).offset + 1,
                     Description(t).offset + (k - (k % PointBytes))) \in Seq(Byte)
<1> DEFINE d == Description(t)
           whole == k - (k % PointBytes)
<1>1. DataTypes /\ TypeOK /\ HasNumber /\ t \in Thread
  BY DEF Inv, IInv, Thread
<1>2. k \in Nat /\ whole \in 0..k
  <2>1. MaxPoints * PointBytes \in Nat
    BY SizesAssumption, BoundsAssumption
  <2>2. k \in Nat
    BY <2>1
  <2> QED
    BY <2>2, Whole
<1>3. fd[t] \in Fd
  BY <1>1 DEF HasNumber, Read, InIO
<1>4. d \in Described
  BY <1>1, <1>3 DEF TypeOK, Read, Readable, Description
<1>5. d.offset \in Nat /\ d.file \in File \union {Db}
  BY <1>4 DEF Described
<1> DEFINE s == store[d.file]
<1>6. s \in Seq(Byte) /\ Len(s) \in Nat /\ got[t] \in Seq(Byte) /\ Len(got[t]) \in Nat /\ want[t] \in Nat
  BY <1>1, <1>5 DEF DataTypes
<1>7. k <= want[t] - Len(got[t]) /\ k <= Len(s) - d.offset
  BY DEF Read, Left
<1> HIDE DEF d
<1>8. d.offset + k <= Len(s) /\ Len(got[t]) + k <= want[t]
  <2> DEFINE ls == Len(s)
             lg == Len(got[t])
             w == want[t]
             o == d.offset
  <2>1. /\ ls \in Nat /\ lg \in Nat /\ w \in Nat /\ o \in Nat /\ k \in Nat
        /\ k <= w - lg /\ k <= ls - o
    BY <1>2, <1>5, <1>6, <1>7
  <2> HIDE DEF ls, lg, w, o
  <2>2. o + k <= ls /\ lg + k <= w
    BY <2>1
  <2> QED
    BY <2>2 DEF ls, lg, w, o
<1>9. SubSeq(s, d.offset + 1, d.offset + whole) \in Seq(Byte)
  <2> HIDE DEF s, whole
  <2>1. \A i \in (d.offset + 1)..(d.offset + whole) : i \in 1..Len(s)
    BY <1>2, <1>5, <1>6, <1>8
  <2>2. \A i \in (d.offset + 1)..(d.offset + whole) : s[i] \in Byte
    BY <1>6, <2>1
  <2>3. d.offset + 1 \in Int /\ d.offset + whole \in Int
    BY <1>2, <1>5
  <2> QED
    BY <2>2, <2>3, SubSeqProperties
<1> QED
  BY <1>2, <1>3, <1>4, <1>8, <1>9 DEF d

LEMMA DataTypesKept == ASSUME Inv, Next PROVE DataTypes'
<1>1. DataTypes /\ TypeOK
  BY DEF Inv, IInv
<1>2. ASSUME NEW t \in Reader, ReaderStep(t) PROVE DataTypes'
  <2>1. UNCHANGED <<store, buf, cursor, iov, writing, last, wrote>>
    BY <1>2, ReaderApart DEF FlusherApart
  <2>2. SUFFICES want' \in [Reader -> Nat] /\ got' \in [Reader -> Seq(Byte)]
    BY <1>1, <2>1 DEF DataTypes
  <2>3. want \in [Reader -> Nat] /\ got \in [Reader -> Seq(Byte)]
    BY <1>1 DEF DataTypes
  <2>4. ASSUME NEW f \in File, OpenToRead(t, f)
        PROVE  want' \in [Reader -> Nat] /\ got' \in [Reader -> Seq(Byte)]
    BY <2>3, <2>4 DEF OpenToRead
  <2>5. CASE Size(t)
    <3>1. path[t] \in File \union {Db}
      BY <1>1 DEF TypeOK, Thread
    <3>2. Len(store[path[t]]) \in Nat
      BY <1>1, <3>1 DEF DataTypes
    <3>3. (Len(store[path[t]]) \div PointBytes) * PointBytes \in 0..Len(store[path[t]])
      BY <3>2, Whole
    <3>4. (Len(store[path[t]]) \div PointBytes) * PointBytes \in Nat
      BY <3>2, <3>3
    <3> QED
      BY <2>3, <2>5, <3>4 DEF Size
  <2>6. CASE SizeThrows(t)
    BY <2>3, <2>6 DEF SizeThrows, readvars
  <2>7. ASSUME NEW k \in 1..(MaxPoints * PointBytes), Read(t, k)
        PROVE  want' \in [Reader -> Nat] /\ got' \in [Reader -> Seq(Byte)]
    <3> DEFINE x == SubSeq(store[Description(t).file], Description(t).offset + 1,
                           Description(t).offset + (k - (k % PointBytes)))
    <3>1. x \in Seq(Byte)
      BY <2>7, ReadStores
    <3>2. want' = want /\ got' = [got EXCEPT ![t] = @ \o x]
      BY <2>7 DEF Read, StoredAfter
    <3> HIDE DEF x
    <3>3. got[t] \o x \in Seq(Byte)
      BY <2>3, <3>1, ConcatProperties
    <3> QED
      BY <2>3, <3>2, <3>3
  <2>8. CASE ReadValuesEnds(t)
    BY <2>3, <2>8 DEF ReadValuesEnds, Returns
  <2>9. CASE ReadValuesThrows(t)
    BY <2>3, <2>9 DEF ReadValuesThrows, Returns
  <2>10. CASE ReadEnds(t)
    <3>1. <<>> \in Seq(Byte)
      OBVIOUS
    <3> QED
      BY <2>3, <2>10, <3>1 DEF ReadEnds
  <2> QED
    BY <1>2, <2>4, <2>5, <2>6, <2>7, <2>8, <2>9, <2>10 DEF ReaderStep
<1>3. CASE Write
  BY <1>3, WriteDataKept
<1>4. CASE Terminate
  <2>1. <<>> \in Seq(Byte) /\ <<>> \in Seq(Nat) /\ <<>> \in Seq(Seq(Byte))
    OBVIOUS
  <2> QED
    BY <1>1, <1>4, <2>1 DEF Terminate, DataTypes
<1>5. ASSUME NEW t \in Other, OtherOpens(t) \/ OtherCloses(t) PROVE DataTypes'
  BY <1>1, <1>5, OtherApart DEF FlusherApart, readvars, DataTypes
<1> QED
  BY <1>2, <1>3, <1>4, <1>5 DEF Next

LEMMA InvKept == Inv /\ [Next]_vars => Inv'
<1> SUFFICES ASSUME Inv, [Next]_vars PROVE Inv'
  OBVIOUS
<1>1. IInv'
  BY NextKeeps DEF Inv
<1>2. CASE Next
  BY <1>1, <1>2, DataTypesKept, OwnFilesKept, FlusherHasFileKept DEF Inv
<1>3. CASE UNCHANGED vars
  <2>1. DataTypes' /\ OwnFiles' /\ FlusherHasFile'
    BY <1>3 DEF vars, readvars, flushvars, Inv, DataTypes, OwnFiles, FlusherHasFile
  <2> QED
    BY <1>1, <2>1 DEF Inv
<1> QED
  BY <1>2, <1>3

LEMMA VectorFitsKept == ASSUME Inv, VectorFits, [Next]_vars PROVE VectorFits'
<1>1. TypeOK /\ DataTypes /\ Flusher \in Thread
  BY DEF Inv, IInv, Thread
<1>2. pc \in [Thread -> {"idle", "open", "io", "copied", "overrun"}]
  BY <1>1 DEF TypeOK
<1>3. FlusherApart => VectorFits'
  BY DEF FlusherApart, VectorFits
<1>4. CASE Write
  <2>1. ASSUME NEW n \in 1..MaxBatch, Flush(n) PROVE VectorFits'
    BY <2>1 DEF Flush, VectorFits
  <2>2. ASSUME NEW f \in File, OpenToWrite(f) PROVE VectorFits'
    BY <1>1, <1>2, <2>2 DEF OpenToWrite, Open, VectorFits
  <2>3. ASSUME NEW end \in 0..Len(buf), NothingBefore(end) PROVE VectorFits'
    BY <1>1, <1>2, <2>3 DEF NothingBefore, VectorFits
  <2>4. ASSUME NEW end \in (cursor + 1)..Len(buf), NEW room \in 1..MaxBatch, Vector(end, room)
        PROVE  VectorFits'
    <3>1. cursor' = cursor /\ cursor \in Nat
      BY <1>1, <2>4 DEF Vector, DataTypes
    <3>2. CASE cursor = 0
      <4>1. end \in Nat \ {0} /\ room \in Nat \ {0}
        <5>1. Len(buf) \in Nat /\ MaxBatch \in Nat
          BY <1>1, BoundsAssumption DEF DataTypes
        <5> QED
          BY <3>2, <5>1
      <4>2. InArray(cursor, end, room)
        BY <3>2, <4>1, FirstVectorFits
      <4>3. pc'[Flusher] = "io"
        BY <1>1, <1>2, <2>4, <4>2 DEF Vector
      <4> QED
        BY <4>3 DEF VectorFits
    <3>3. CASE cursor # 0
      BY <3>1, <3>3 DEF VectorFits
    <3> QED
      BY <3>2, <3>3
  <2>5. ASSUME NEW k \in 1..(MaxPoints * PointBytes), Writev(k) PROVE VectorFits'
    BY <2>5 DEF Writev, VectorFits
  <2>6. CASE WriteVectorEnds
    BY <1>1, <1>2, <2>6 DEF WriteVectorEnds, CopyDies, VectorFits
  <2>7. CASE WriteEnds
    BY <1>1, <1>2, <2>7 DEF WriteEnds, HandleDies, VectorFits
  <2> QED
    BY <1>4, <2>1, <2>2, <2>3, <2>4, <2>5, <2>6, <2>7 DEF Write
<1>5. CASE Terminate
  BY <1>1, <1>5 DEF Terminate, VectorFits
<1>6. CASE UNCHANGED vars
  BY <1>6 DEF vars, flushvars, VectorFits
<1> QED
  BY <1>3, <1>4, <1>5, <1>6, ReaderApart, OtherApart DEF Next

----------------------------------------------------------------------------
(* The bytes of a file.                                                      *)

Writing(f) == path[Flusher] = f /\ pc[Flusher] = "io"
Holds(f) == IF Writing(f) THEN store[f] \o FlattenSeq(iov) = Bytes(wrote[f] \o writing)
            ELSE store[f] = Bytes(wrote[f])

LEMMA FilesWholeIs == FilesWhole <=> \A f \in File \ damaged : Holds(f)
BY DEF FilesWhole, Holds, Writing

\* Nothing to write, or all of it still to be written.
LEMMA BeforeAndAfter ==
    ASSUME Inv, NEW f \in File
    PROVE  /\ store[f] \in Seq(Byte) /\ wrote[f] \in Seq(Nat) /\ FlattenSeq(iov) \in Seq(Byte)
           /\ Bytes(wrote[f]) \in Seq(Byte) /\ Bytes(writing) \in Seq(Byte)
           /\ Bytes(wrote[f] \o writing) = Bytes(wrote[f]) \o Bytes(writing)
<1>1. store[f] \in Seq(Byte) /\ wrote[f] \in Seq(Nat) /\ writing \in Seq(Nat) /\ iov \in Seq(Seq(Byte))
  BY DEF Inv, DataTypes
<1>2. FlattenSeq(iov) \in Seq(Byte)
  BY <1>1, FlattenIn
<1>3. Bytes(wrote[f]) \in Seq(Byte) /\ Bytes(writing) \in Seq(Byte)
  BY <1>1, EachBytesIn
<1>4. Bytes(wrote[f] \o writing) = Bytes(wrote[f]) \o Bytes(writing)
  BY <1>1, BytesConcat
<1> QED
  BY <1>1, <1>2, <1>3, <1>4

LEMMA WritevHolds ==
    ASSUME Inv, NEW f \in File \ damaged', Holds(f),
           NEW k \in 1..(MaxPoints * PointBytes), Writev(k)
    PROVE  Holds(f)'
<1> DEFINE d == Description(Flusher)
           s == FlattenSeq(iov)
<1>1. TypeOK /\ HasNumber /\ DataTypes /\ OwnFiles /\ Flusher \in Thread
  BY DEF Inv, IInv, Thread
<1>2. fd[Flusher] \in Fd /\ d # Closed /\ pc[Flusher] = "io"
  BY <1>1 DEF HasNumber, Writev, Writable
<1>3. /\ store' = [store EXCEPT ![d.file] = @ \o SubSeq(s, 1, k)]
      /\ iov' = Advance(iov, k) /\ k <= Len(s)
      /\ damaged' = IF Misdirected THEN damaged \union {d.file, path[Flusher]} ELSE damaged
      /\ UNCHANGED <<pc, path, writing, wrote>>
  BY DEF Writev
<1>4. s \in Seq(Byte) /\ Len(s) \in Nat /\ iov \in Seq(Seq(Byte))
  <2>1. s \in Seq(Byte)
    BY <1>1, FlattenIn DEF DataTypes
  <2> HIDE DEF s
  <2> QED
    BY <1>1, <2>1 DEF DataTypes
<1>5. k \in Nat /\ 1 <= k
  <2>1. MaxPoints * PointBytes \in Nat
    BY SizesAssumption, BoundsAssumption
  <2> QED
    BY <2>1
<1>6. CASE Writing(f)
  <2>1. ~Misdirected /\ d.by = Flusher /\ d.file = f
    <3>1. ~Misdirected
      BY <1>3, <1>6 DEF Writing
    <3>2. d.by = Flusher
      BY <3>1 DEF Misdirected
    <3> QED
      BY <1>1, <1>2, <1>6, <3>1, <3>2 DEF OwnFiles, Description, Writing
  <2>2. store'[f] = store[f] \o SubSeq(s, 1, k) /\ store[f] \in Seq(Byte)
    <3> HIDE DEF s, d
    <3> QED
      BY <1>1, <1>3, <2>1 DEF DataTypes
  <2>3. FlattenSeq(iov') = SubSeq(s, k + 1, Len(s))
    BY <1>3, <1>4, <1>5, AdvanceFlattens
  <2>4. SubSeq(s, 1, k) \o SubSeq(s, k + 1, Len(s)) = s
    <3> HIDE DEF s
    <3>1. 1 \in 1..(Len(s) + 1) /\ k \in (1 - 1)..Len(s) /\ Len(s) \in k..Len(s)
      BY <1>3, <1>4, <1>5
    <3>2. SubSeq(s, 1, k) \o SubSeq(s, k + 1, Len(s)) = SubSeq(s, 1, Len(s))
      BY <1>4, <3>1, ConcatAdjacentSubSeq
    <3> QED
      BY <1>4, <3>2, SubSeqFull
  <2>5. SubSeq(s, 1, k) \in Seq(Byte) /\ SubSeq(s, k + 1, Len(s)) \in Seq(Byte)
    <3> HIDE DEF s
    <3>1. \A i \in 1..Len(s) : s[i] \in Byte
      BY <1>4
    <3>2. (\A i \in 1..k : s[i] \in Byte) /\ (\A i \in (k + 1)..Len(s) : s[i] \in Byte)
      BY <1>3, <1>4, <1>5, <3>1
    <3>3. k \in Int /\ k + 1 \in Int /\ Len(s) \in Int
      BY <1>4, <1>5
    <3>4. SubSeq(s, 1, k) \in Seq(Byte)
      BY <3>2, <3>3, SubSeqProperties
    <3>5. SubSeq(s, k + 1, Len(s)) \in Seq(Byte)
      BY <3>2, <3>3, SubSeqProperties
    <3> QED
      BY <3>4, <3>5
  <2>6. store'[f] \o FlattenSeq(iov') = store[f] \o s
    <3> DEFINE x == SubSeq(s, 1, k)
               y == SubSeq(s, k + 1, Len(s))
               z == store[f]
    <3>1. z \in Seq(Byte) /\ x \in Seq(Byte) /\ y \in Seq(Byte)
      BY <2>2, <2>5
    <3>2. (z \o x) \o y = z \o (x \o y)
      <4> HIDE DEF x, y, z
      <4> QED
        BY <3>1, ConcatAssociative
    <3> HIDE DEF s, d
    <3> QED
      BY <2>2, <2>3, <2>4, <3>2
  <2>7. store[f] \o s = Bytes(wrote[f] \o writing)
    BY <1>6 DEF Holds
  <2>8. Writing(f)'
    BY <1>3, <1>6 DEF Writing
  <2> QED
    BY <1>3, <2>6, <2>7, <2>8 DEF Holds
<1>7. CASE ~Writing(f)
  <2>1. d.file # f
    <3>1. CASE Misdirected
      BY <1>3, <3>1
    <3>2. CASE ~Misdirected
      BY <1>1, <1>2, <1>7, <3>2 DEF Misdirected, OwnFiles, Description, Writing
    <3> QED
      BY <3>1, <3>2
  <2>2. store'[f] = store[f]
    <3> HIDE DEF s, d
    <3> QED
      BY <1>1, <1>3, <2>1 DEF DataTypes
  <2>3. ~Writing(f)'
    BY <1>3, <1>7 DEF Writing
  <2> QED
    BY <1>3, <1>7, <2>2, <2>3 DEF Holds
<1> QED
  BY <1>6, <1>7

LEMMA HoldsKept == ASSUME Inv, NEW f \in File \ damaged', Next, Holds(f) PROVE Holds(f)'
<1>1. TypeOK /\ DataTypes /\ Flusher \in Thread
  BY DEF Inv, IInv, Thread
<1>2. pc \in [Thread -> {"idle", "open", "io", "copied", "overrun"}]
      /\ path \in [Thread -> File \union {Db}]
  BY <1>1 DEF TypeOK
<1>3. FlusherApart => Holds(f)'
  BY DEF FlusherApart, Holds, Writing
<1>4. ASSUME ~Writing(f), ~Writing(f)', UNCHANGED <<store, wrote>> PROVE Holds(f)'
  BY <1>4 DEF Holds
<1>5. CASE Write
  <2>1. ASSUME NEW n \in 1..MaxBatch, Flush(n) PROVE Holds(f)'
    BY <1>4, <2>1 DEF Flush, Writing
  <2>2. ASSUME NEW g \in File, OpenToWrite(g) PROVE Holds(f)'
    BY <1>1, <1>2, <1>4, <2>2 DEF OpenToWrite, Open, Writing, flushvars
  <2>3. ASSUME NEW end \in 0..Len(buf), NothingBefore(end) PROVE Holds(f)'
    BY <1>1, <1>2, <1>4, <2>3 DEF NothingBefore, Writing, flushvars
  <2>4. ASSUME NEW end \in (cursor + 1)..Len(buf), NEW room \in 1..MaxBatch, Vector(end, room)
        PROVE  Holds(f)'
    <3>1. UNCHANGED <<store, wrote>> /\ ~Writing(f)
      BY <2>4 DEF Vector, Writing
    <3>2. CASE ~Writing(f)'
      BY <1>4, <3>1, <3>2
    <3>3. CASE Writing(f)'
      <4>1. FlattenSeq(iov') = Bytes(writing') /\ writing' \in Seq(Nat)
        BY <2>4, VectorHolds
      <4>2. store[f] = Bytes(wrote[f]) /\ wrote[f] \in Seq(Nat)
        BY <1>1, <3>1 DEF Holds, DataTypes
      <4>3. Bytes(wrote[f] \o writing') = Bytes(wrote[f]) \o Bytes(writing')
        BY <4>1, <4>2, BytesConcat
      <4> QED
        BY <3>1, <3>3, <4>1, <4>2, <4>3 DEF Holds
    <3> QED
      BY <3>2, <3>3
  <2>5. ASSUME NEW k \in 1..(MaxPoints * PointBytes), Writev(k) PROVE Holds(f)'
    BY <2>5, WritevHolds
  <2>6. CASE WriteVectorEnds
    <3>1. /\ pc[Flusher] = "io" /\ iov = <<>> /\ store' = store
          /\ wrote' = [wrote EXCEPT ![path[Flusher]] = @ \o writing]
          /\ ~Writing(f)'
      BY <1>1, <1>2, <2>6 DEF WriteVectorEnds, CopyDies, Writing
    <3>2. CASE Writing(f)
      <4>1. store[f] \o FlattenSeq(iov) = Bytes(wrote[f] \o writing) /\ path[Flusher] = f
        BY <3>2 DEF Holds, Writing
      <4>2. store[f] \o FlattenSeq(iov) = store[f]
        BY <3>1, BeforeAndAfter, FlattenEmpty, ConcatEmptySeq
      <4>3. wrote'[f] = wrote[f] \o writing
        BY <1>1, <3>1, <4>1 DEF DataTypes
      <4> QED
        BY <3>1, <4>1, <4>2, <4>3 DEF Holds
    <3>3. CASE ~Writing(f)
      <4>1. wrote'[f] = wrote[f]
        BY <1>1, <3>1, <3>3 DEF DataTypes, Writing
      <4> QED
        BY <3>1, <3>3, <4>1 DEF Holds
    <3> QED
      BY <3>2, <3>3
  <2>7. CASE WriteEnds
    BY <1>1, <1>2, <1>4, <2>7 DEF WriteEnds, HandleDies, Writing
  <2> QED
    BY <1>5, <2>1, <2>2, <2>3, <2>4, <2>5, <2>6, <2>7 DEF Write
<1>6. CASE Terminate
  <2>1. UNCHANGED <<store, wrote>> /\ ~Writing(f)'
    BY <1>1, <1>6 DEF Terminate, Writing
  <2>2. CASE ~Writing(f)
    BY <1>4, <2>1, <2>2
  <2>3. CASE Writing(f)
    <3>1. Bytes(writing) = FlattenSeq(iov)
      BY <1>6, <2>3 DEF Terminate, Writing
    <3>2. store[f] \o FlattenSeq(iov) = Bytes(wrote[f]) \o Bytes(writing)
      BY <2>3, BeforeAndAfter DEF Holds
    <3>3. store[f] = Bytes(wrote[f])
      <4> DEFINE a == store[f]
                 b == Bytes(wrote[f])
                 c == Bytes(writing)
      <4>1. a \in Seq(Byte) /\ b \in Seq(Byte) /\ c \in Seq(Byte) /\ a \o c = b \o c
        BY <3>1, <3>2, BeforeAndAfter
      <4> HIDE DEF a, b, c
      <4>2. a = b
        BY <4>1, ConcatSimplifications
      <4> QED
        BY <4>2 DEF a, b
    <3> QED
      BY <2>1, <3>3 DEF Holds
  <2> QED
    BY <2>2, <2>3
<1> QED
  BY <1>3, <1>5, <1>6, ReaderApart, OtherApart DEF Next

LEMMA FilesWholeKept == ASSUME Inv, FilesWhole, [Next]_vars PROVE FilesWhole'
<1>1. \A f \in File \ damaged : Holds(f)
  BY FilesWholeIs
<1>2. ASSUME Next, NEW f \in File \ damaged' PROVE Holds(f)'
  <2>1. damaged \subseteq damaged'
    <3>1. CASE \E t \in Reader : ReaderStep(t)
      BY <3>1, ReaderApart DEF FlusherApart
    <3>2. CASE Write
      BY <3>2 DEF Write, Flush, OpenToWrite, NothingBefore, Vector, Writev, WriteVectorEnds, WriteEnds
    <3>3. CASE Terminate
      BY <3>3 DEF Terminate
    <3>4. CASE \E t \in Other : OtherOpens(t) \/ OtherCloses(t)
      BY <3>4, OtherApart DEF FlusherApart
    <3> QED
      BY <1>2, <3>1, <3>2, <3>3, <3>4 DEF Next
  <2> QED
    BY <1>1, <1>2, <2>1, HoldsKept
<1>3. CASE Next
  <2>1. \A f \in File \ damaged' : Holds(f)'
    BY <1>2, <1>3
  <2> QED
    BY <2>1 DEF FilesWhole, Holds, Writing
<1>4. CASE UNCHANGED vars
  BY <1>4 DEF vars, flushvars, FilesWhole
<1> QED
  BY <1>3, <1>4

----------------------------------------------------------------------------
(* What a read has stored. A thread that nobody has robbed holds the number  *)
(* it opened, at the offset its own reads have brought it to; and the bytes  *)
(* that a file has are never changed, only more follow.                      *)

Sound(t) == t \notin robbed \union ragged

ReadsFromStart(t) ==
    /\ pc[t] \in {"idle", "open"} => want[t] = 0 /\ got[t] = <<>>
    /\ result[t] # "none" => pc[t] = "copied"
    /\ want[t] <= Len(store[path[t]]) /\ Len(got[t]) <= want[t]
    /\ pc[t] \in {"open", "io"} /\ t \notin robbed =>
           /\ table[fd[t]] # Closed /\ table[fd[t]].by = t
           /\ pc[t] = "open" => table[fd[t]].offset = 0
    /\ pc[t] = "io" /\ Sound(t) =>
           /\ table[fd[t]].offset = Len(got[t])
           /\ got[t] = SubSeq(store[path[t]], 1, Len(got[t]))
    /\ result[t] = "values" /\ Sound(t) => got[t] = SubSeq(store[path[t]], 1, want[t])

Grown(f) == \E x \in Seq(Byte) : store'[f] = store[f] \o x

LEMMA Grows == ASSUME Inv, Next, NEW f \in File \union {Db} PROVE Grown(f)
<1>1. DataTypes /\ TypeOK /\ HasNumber /\ Flusher \in Thread /\ store[f] \in Seq(Byte)
  BY DEF Inv, IInv, Thread, DataTypes
<1>2. CASE store' = store
  <2>1. <<>> \in Seq(Byte)
    OBVIOUS
  <2>2. store'[f] = store[f] \o <<>>
    BY <1>1, <1>2, ConcatEmptySeq
  <2> QED
    BY <2>1, <2>2 DEF Grown
<1>3. CASE Write
  <2>1. ASSUME NEW k \in 1..(MaxPoints * PointBytes), Writev(k) PROVE Grown(f)
    <3> DEFINE d == Description(Flusher)
               s == FlattenSeq(iov)
               x == SubSeq(s, 1, k)
    <3>1. store' = [store EXCEPT ![d.file] = @ \o x] /\ k <= Len(s)
      BY <2>1 DEF Writev
    <3>2. s \in Seq(Byte)
      BY <1>1, FlattenIn DEF DataTypes
    <3>3. k \in Int
      BY <2>1, SizesAssumption, BoundsAssumption
    <3>4. x \in Seq(Byte)
      <4> HIDE DEF s
      <4>1. Len(s) \in Nat /\ \A i \in 1..Len(s) : s[i] \in Byte
        BY <3>2
      <4>2. \A i \in 1..k : s[i] \in Byte
        BY <3>1, <3>3, <4>1
      <4>3. 1 \in Int
        OBVIOUS
      <4> QED
        BY <3>3, <4>2, <4>3, SubSeqProperties
    <3> HIDE DEF x, d
    <3>5. CASE d.file = f
      BY <1>1, <3>1, <3>4, <3>5 DEF DataTypes, Grown
    <3>6. CASE d.file # f
      <4>1. store'[f] = store[f]
        BY <1>1, <3>1, <3>6 DEF DataTypes
      <4>2. <<>> \in Seq(Byte)
        OBVIOUS
      <4>3. store'[f] = store[f] \o <<>>
        BY <1>1, <4>1, ConcatEmptySeq
      <4> QED
        BY <4>2, <4>3 DEF Grown
    <3> QED
      BY <3>5, <3>6
  <2> QED
    BY <1>2, <1>3, <2>1
       DEF Write, Flush, OpenToWrite, NothingBefore, Vector, WriteVectorEnds, WriteEnds
<1>4. CASE Terminate
  BY <1>2, <1>4 DEF Terminate
<1> QED
  BY <1>2, <1>3, <1>4, ReaderApart, OtherApart DEF Next, FlusherApart

\* The start of a file, after more has been written.
LEMMA StartStays ==
    ASSUME Inv, NEW f \in File \union {Db}, Grown(f)
    PROVE  /\ Len(store[f]) \in Nat /\ Len(store'[f]) \in Nat
           /\ Len(store[f]) <= Len(store'[f])
           /\ \A n \in 0..Len(store[f]) : SubSeq(store'[f], 1, n) = SubSeq(store[f], 1, n)
<1>1. PICK x \in Seq(Byte) : store'[f] = store[f] \o x
  BY DEF Grown
<1> DEFINE s == store[f]
<1>2. s \in Seq(Byte) /\ Len(s) \in Nat
  BY DEF Inv, DataTypes
<1>3. store'[f] = s \o x
  BY <1>1
<1> HIDE DEF s
<1>4. Len(s \o x) \in Nat /\ Len(s) <= Len(s \o x)
  <2>1. Len(s \o x) = Len(s) + Len(x) /\ Len(x) \in Nat
    BY <1>2, ConcatProperties
  <2> QED
    BY <1>2, <2>1
<1>5. ASSUME NEW n \in 0..Len(s) PROVE SubSeq(s \o x, 1, n) = SubSeq(s, 1, n)
  <2>1. CASE n = 0
    BY <2>1, SubSeqEmpty
  <2>2. CASE n # 0
    <3>1. n \in 1..Len(s) /\ 1 \in 1..Len(s)
      BY <1>2, <2>2
    <3> QED
      BY <1>2, <3>1, SubSeqOfConcat1
  <2> QED
    BY <2>1, <2>2
<1> QED
  BY <1>2, <1>3, <1>4, <1>5 DEF s

\* What the steps of others leave a reader.
Apart(t) == /\ pc'[t] = pc[t] /\ fd'[t] = fd[t] /\ path'[t] = path[t]
            /\ want'[t] = want[t] /\ got'[t] = got[t] /\ result'[t] = result[t]
            /\ t \in ragged' <=> t \in ragged
            /\ t \in robbed => t \in robbed'
            /\ pc[t] \in {"open", "io"} /\ t \notin robbed' => table'[fd[t]] = table[fd[t]]

LEMMA ApartKeeps ==
    ASSUME Inv, NEW t \in Reader, ReadsFromStart(t), Apart(t), Grown(path[t])
    PROVE  ReadsFromStart(t)'
<1> DEFINE f == path[t]
<1>1. f \in File \union {Db} /\ want[t] \in Nat /\ Len(got[t]) \in Nat
  BY DEF Inv, IInv, TypeOK, DataTypes, Thread
<1>2. /\ Len(store[f]) \in Nat /\ Len(store'[f]) \in Nat
      /\ Len(store[f]) <= Len(store'[f])
      /\ \A n \in 0..Len(store[f]) : SubSeq(store'[f], 1, n) = SubSeq(store[f], 1, n)
  BY <1>1, StartStays
<1>3. want[t] <= Len(store[f]) /\ Len(got[t]) <= want[t]
  BY DEF ReadsFromStart
<1>4. want[t] \in 0..Len(store[f]) /\ Len(got[t]) \in 0..Len(store[f])
  <2> DEFINE w == want[t]
             g == Len(got[t])
             s == Len(store[f])
  <2>1. w \in Nat /\ g \in Nat /\ s \in Nat /\ w <= s /\ g <= w
    BY <1>1, <1>2, <1>3
  <2> HIDE DEF w, g, s
  <2>2. w \in 0..s /\ g \in 0..s
    BY <2>1
  <2> QED
    BY <2>2 DEF w, g, s
<1>5. /\ SubSeq(store'[f], 1, want[t]) = SubSeq(store[f], 1, want[t])
      /\ SubSeq(store'[f], 1, Len(got[t])) = SubSeq(store[f], 1, Len(got[t]))
  BY <1>2, <1>4
<1>6. want[t] <= Len(store'[f])
  <2> DEFINE w == want[t]
             s == Len(store[f])
             z == Len(store'[f])
  <2>1. w \in Nat /\ s \in Nat /\ z \in Nat /\ w <= s /\ s <= z
    BY <1>1, <1>2, <1>3
  <2> HIDE DEF w, s, z
  <2>2. w <= z
    BY <2>1
  <2> QED
    BY <2>2 DEF w, z
<1>7. Sound(t)' => Sound(t)
  BY DEF Sound, Apart
<1>8. pc[t] \in {"open", "io"} /\ t \notin robbed' => t \notin robbed /\ table'[fd[t]] = table[fd[t]]
  BY DEF Apart
<1>9. pc[t] = "io" /\ Sound(t)' => table'[fd[t]] = table[fd[t]]
  BY DEF Apart, Sound
<1> DEFINE PAST == SubSeq(store[f], 1, Len(got[t]))
           ALL == SubSeq(store[f], 1, want[t])
           PAST1 == SubSeq(store'[f], 1, Len(got[t]))
           ALL1 == SubSeq(store'[f], 1, want[t])
<1>10. /\ pc[t] \in {"idle", "open"} => want[t] = 0 /\ got[t] = <<>>
       /\ result[t] # "none" => pc[t] = "copied"
       /\ pc[t] \in {"open", "io"} /\ t \notin robbed =>
              /\ table[fd[t]] # Closed /\ table[fd[t]].by = t
              /\ pc[t] = "open" => table[fd[t]].offset = 0
       /\ pc[t] = "io" /\ Sound(t) => table[fd[t]].offset = Len(got[t]) /\ got[t] = PAST
       /\ result[t] = "values" /\ Sound(t) => got[t] = ALL
  BY DEF ReadsFromStart
<1>11. PAST1 = PAST /\ ALL1 = ALL
  BY <1>5
<1> SUFFICES
       /\ pc[t] \in {"idle", "open"} => want[t] = 0 /\ got[t] = <<>>
       /\ result[t] # "none" => pc[t] = "copied"
       /\ want[t] <= Len(store'[f]) /\ Len(got[t]) <= want[t]
       /\ pc[t] \in {"open", "io"} /\ t \notin robbed' =>
              /\ table'[fd[t]] # Closed /\ table'[fd[t]].by = t
              /\ pc[t] = "open" => table'[fd[t]].offset = 0
       /\ pc[t] = "io" /\ Sound(t)' => table'[fd[t]].offset = Len(got[t]) /\ got[t] = PAST1
       /\ result[t] = "values" /\ Sound(t)' => got[t] = ALL1
  BY DEF ReadsFromStart, Apart
<1> HIDE DEF PAST, ALL, PAST1, ALL1
<1> QED
  BY <1>3, <1>6, <1>7, <1>8, <1>9, <1>10, <1>11

\* The number a reader holds is not open(2)'s to give, and who closes it or reads from
\* it robs the reader.
LEMMA OpenLeavesApart ==
    ASSUME Inv, NEW t \in Reader, ReadsFromStart(t), NEW u \in Thread \ {t}, NEW f,
           Open(u, f), UNCHANGED <<want, got, result, ragged>>
    PROVE  Apart(t)
<1>1. TypeOK /\ HasNumber /\ t \in Thread
  BY DEF Inv, IInv, Thread
<1>2. PICK n \in Fd : /\ table[n] = Closed
                      /\ table' = [table EXCEPT ![n] = [by |-> u, file |-> f, offset |-> 0]]
                      /\ fd' = [fd EXCEPT ![u] = n]
                      /\ path' = [path EXCEPT ![u] = f]
                      /\ pc' = [pc EXCEPT ![u] = "open"]
                      /\ robbed' = robbed \ {u}
  BY DEF Open
<1>3. pc'[t] = pc[t] /\ fd'[t] = fd[t] /\ path'[t] = path[t]
  BY <1>1, <1>2 DEF TypeOK
<1>4. t \in robbed <=> t \in robbed'
  BY <1>2
<1>5. pc[t] \in {"open", "io"} /\ t \notin robbed' => table'[fd[t]] = table[fd[t]]
  <2> SUFFICES ASSUME pc[t] \in {"open", "io"}, t \notin robbed' PROVE table'[fd[t]] = table[fd[t]]
    OBVIOUS
  <2>1. table[fd[t]] # Closed /\ fd[t] \in Fd
    BY <1>1, <1>4 DEF ReadsFromStart, HasNumber
  <2> QED
    BY <1>1, <1>2, <2>1 DEF TypeOK
<1> QED
  BY <1>3, <1>4, <1>5 DEF Apart

LEMMA CloseLeavesApart ==
    ASSUME Inv, NEW t \in Reader, ReadsFromStart(t), NEW u \in Thread \ {t}, Close(u), pc[u] # "idle",
           pc'[t] = pc[t], fd'[t] = fd[t], path'[t] = path[t],
           want'[t] = want[t], got'[t] = got[t], result'[t] = result[t],
           t \in ragged' <=> t \in ragged
    PROVE  Apart(t)
<1>1. TypeOK /\ HasNumber /\ t \in Thread /\ t # "nobody"
  BY ThreadAssumption DEF Inv, IInv, Thread
<1>2. /\ table' = [table EXCEPT ![fd[u]] = Closed]
      /\ robbed' = robbed \union ({table[fd[u]].by} \ {u, "nobody"})
  BY DEF Close
<1>3. pc[t] \in {"open", "io"} /\ t \notin robbed' => table'[fd[t]] = table[fd[t]]
  <2> SUFFICES ASSUME pc[t] \in {"open", "io"}, t \notin robbed' PROVE table'[fd[t]] = table[fd[t]]
    OBVIOUS
  <2>1. table[fd[t]].by = t /\ fd[t] \in Fd
    BY <1>1, <1>2 DEF ReadsFromStart, HasNumber
  <2>2. fd[u] # fd[t]
    BY <1>1, <1>2, <2>1
  <2> QED
    BY <1>1, <1>2, <2>1, <2>2 DEF TypeOK
<1> QED
  BY <1>2, <1>3 DEF Apart

LEMMA ReadLeavesApart ==
    ASSUME Inv, NEW t \in Reader, ReadsFromStart(t), NEW u \in Reader \ {t},
           NEW k \in 1..(MaxPoints * PointBytes), Read(u, k)
    PROVE  Apart(t)
<1>1. TypeOK /\ HasNumber /\ DataTypes /\ t \in Thread /\ u \in Thread
  BY DEF Inv, IInv, Thread
<1>2. /\ table' = [table EXCEPT ![fd[u]].offset = @ + k]
      /\ robbed' = robbed \union ({Description(u).by} \ {u})
      /\ UNCHANGED <<pc, fd, path, want, result>>
      /\ t \in ragged' <=> t \in ragged
  BY DEF Read
<1>3. got'[t] = got[t]
  BY <1>1 DEF Read, StoredAfter, DataTypes
<1>4. pc[t] \in {"open", "io"} /\ t \notin robbed' => table'[fd[t]] = table[fd[t]]
  <2> SUFFICES ASSUME pc[t] \in {"open", "io"}, t \notin robbed' PROVE table'[fd[t]] = table[fd[t]]
    OBVIOUS
  <2>1. table[fd[t]].by = t /\ fd[t] \in Fd
    BY <1>1, <1>2 DEF ReadsFromStart, HasNumber
  <2>2. fd[u] # fd[t]
    BY <1>1, <1>2, <2>1 DEF Description
  <2> QED
    BY <1>1, <1>2, <2>1, <2>2 DEF TypeOK
<1> QED
  BY <1>2, <1>3, <1>4 DEF Apart

\* Steps that leave the descriptor table alone.
LEMMA TableLeavesApart ==
    ASSUME NEW t \in Reader, pc'[t] = pc[t], UNCHANGED <<table, fd, path, got, result, ragged, robbed>>,
           want'[t] = want[t]
    PROVE  Apart(t)
BY DEF Apart

LEMMA OtherReadersApart ==
    ASSUME Inv, NEW t \in Reader, ReadsFromStart(t), NEW u \in Reader \ {t}, ReaderStep(u)
    PROVE  Apart(t)
<1>1. TypeOK /\ DataTypes /\ t \in Thread /\ u \in Thread \ {t}
  BY DEF Inv, IInv, Thread
<1>2. /\ pc \in [Thread -> {"idle", "open", "io", "copied", "overrun"}]
      /\ fd \in [Thread -> Fd \union {-1}] /\ path \in [Thread -> File \union {Db}]
      /\ result \in [Reader -> {"none", "values", "thrown"}]
      /\ want \in [Reader -> Nat] /\ got \in [Reader -> Seq(Byte)]
  BY <1>1 DEF TypeOK, DataTypes
<1>3. ASSUME NEW f \in File, OpenToRead(u, f) PROVE Apart(t)
  BY <1>1, <1>3, OpenLeavesApart DEF OpenToRead
<1>4. CASE Size(u)
  BY <1>1, <1>2, <1>4, TableLeavesApart DEF Size
<1>5. CASE SizeThrows(u)
  <2>1. /\ Close(u) /\ pc[u] # "idle" /\ pc'[t] = pc[t] /\ fd'[t] = fd[t] /\ path'[t] = path[t]
        /\ UNCHANGED <<want, got, result, ragged>>
    BY <1>1, <1>2, <1>5 DEF SizeThrows, HandleDies, readvars
  <2> QED
    BY <1>1, <2>1, CloseLeavesApart
<1>6. ASSUME NEW k \in 1..(MaxPoints * PointBytes), Read(u, k) PROVE Apart(t)
  BY <1>6, ReadLeavesApart
<1>7. ASSUME NEW how, InIO(u), Returns(u, how) PROVE Apart(t)
  <2>1. /\ Close(u) /\ pc[u] # "idle" /\ pc'[t] = pc[t] /\ fd'[t] = fd[t] /\ path'[t] = path[t]
        /\ UNCHANGED <<want, got, ragged>> /\ result'[t] = result[t]
    BY <1>1, <1>2, <1>7 DEF Returns, CopyDies, InIO
  <2> QED
    BY <1>1, <2>1, CloseLeavesApart
<1>8. CASE ReadEnds(u)
  <2>1. /\ Close(u) /\ pc[u] # "idle" /\ pc'[t] = pc[t] /\ fd'[t] = fd[t] /\ path'[t] = path[t]
        /\ want'[t] = want[t] /\ got'[t] = got[t] /\ result'[t] = result[t]
        /\ t \in ragged' <=> t \in ragged
    BY <1>1, <1>2, <1>8 DEF ReadEnds, HandleDies
  <2> QED
    BY <1>1, <2>1, CloseLeavesApart
<1> QED
  BY <1>3, <1>4, <1>5, <1>6, <1>7, <1>8 DEF ReaderStep, ReadValuesEnds, ReadValuesThrows

LEMMA FlusherLeavesApart ==
    ASSUME Inv, NEW t \in Reader, ReadsFromStart(t), Write
    PROVE  Apart(t)
<1>1. TypeOK /\ t \in Thread /\ Flusher \in Thread \ {t}
  BY ThreadAssumption DEF Inv, IInv, Thread
<1>2. /\ pc \in [Thread -> {"idle", "open", "io", "copied", "overrun"}]
      /\ fd \in [Thread -> Fd \union {-1}] /\ path \in [Thread -> File \union {Db}]
  BY <1>1 DEF TypeOK
<1>3. ASSUME NEW n \in 1..MaxBatch, Flush(n) PROVE Apart(t)
  BY <1>3, TableLeavesApart DEF Flush, readvars
<1>4. ASSUME NEW f \in File, OpenToWrite(f) PROVE Apart(t)
  BY <1>1, <1>4, OpenLeavesApart DEF OpenToWrite, readvars
<1>5. ASSUME NEW end \in 0..Len(buf), NothingBefore(end) PROVE Apart(t)
  BY <1>1, <1>2, <1>5, TableLeavesApart DEF NothingBefore, readvars
<1>6. ASSUME NEW end \in (cursor + 1)..Len(buf), NEW room \in 1..MaxBatch, Vector(end, room)
      PROVE  Apart(t)
  BY <1>1, <1>2, <1>6, TableLeavesApart DEF Vector, readvars
<1>7. ASSUME NEW k \in 1..(MaxPoints * PointBytes), Writev(k) PROVE Apart(t)
  BY <1>7, TableLeavesApart DEF Writev, readvars
<1>8. CASE WriteVectorEnds
  <2>1. /\ Close(Flusher) /\ pc[Flusher] # "idle"
        /\ pc'[t] = pc[t] /\ fd'[t] = fd[t] /\ path'[t] = path[t]
        /\ UNCHANGED <<want, got, result, ragged>>
    BY <1>1, <1>2, <1>8 DEF WriteVectorEnds, CopyDies, readvars
  <2> QED
    BY <1>1, <2>1, CloseLeavesApart
<1>9. CASE WriteEnds
  <2>1. /\ Close(Flusher) /\ pc[Flusher] # "idle"
        /\ pc'[t] = pc[t] /\ fd'[t] = fd[t] /\ path'[t] = path[t]
        /\ UNCHANGED <<want, got, result, ragged>>
    BY <1>1, <1>2, <1>9 DEF WriteEnds, HandleDies, readvars
  <2> QED
    BY <1>1, <2>1, CloseLeavesApart
<1> QED
  BY <1>3, <1>4, <1>5, <1>6, <1>7, <1>8, <1>9 DEF Write

LEMMA OthersLeaveApart ==
    ASSUME Inv, NEW t \in Reader, ReadsFromStart(t), NEW u \in Other, OtherOpens(u) \/ OtherCloses(u)
    PROVE  Apart(t)
<1>1. TypeOK /\ t \in Thread /\ u \in Thread \ {t}
  BY ThreadAssumption DEF Inv, IInv, Thread
<1>2. /\ pc \in [Thread -> {"idle", "open", "io", "copied", "overrun"}]
      /\ fd \in [Thread -> Fd \union {-1}] /\ path \in [Thread -> File \union {Db}]
  BY <1>1 DEF TypeOK
<1>3. CASE OtherOpens(u)
  BY <1>1, <1>3, OpenLeavesApart DEF OtherOpens, readvars
<1>4. CASE OtherCloses(u)
  <2>1. /\ Close(u) /\ pc[u] # "idle" /\ pc'[t] = pc[t] /\ fd'[t] = fd[t] /\ path'[t] = path[t]
        /\ UNCHANGED <<want, got, result, ragged>>
    BY <1>1, <1>2, <1>4 DEF OtherCloses, HandleDies, readvars
  <2> QED
    BY <1>1, <2>1, CloseLeavesApart
<1> QED
  BY <1>3, <1>4

\* A reader's own steps.
LEMMA IdleReads ==
    ASSUME Inv, NEW t \in Reader, pc'[t] = "idle", store' = store, path'[t] = Db,
           want'[t] = 0, got'[t] = <<>>, result'[t] = "none"
    PROVE  ReadsFromStart(t)'
<1>1. Len(store[Db]) \in Nat
  BY DEF Inv, DataTypes
<1>2. want'[t] <= Len(store'[path'[t]]) /\ Len(got'[t]) <= want'[t]
  BY <1>1
<1> QED
  BY <1>2 DEF ReadsFromStart

LEMMA OpenToReadReads ==
    ASSUME Inv, NEW t \in Reader, ReadsFromStart(t), NEW f \in File, OpenToRead(t, f)
    PROVE  ReadsFromStart(t)'
<1>1. TypeOK /\ DataTypes /\ t \in Thread
  BY DEF Inv, IInv, Thread
<1>2. want[t] = 0 /\ got[t] = <<>> /\ result[t] = "none"
  BY DEF ReadsFromStart, OpenToRead
<1>3. UNCHANGED <<store, want, got, result>> /\ Open(t, f)
  BY DEF OpenToRead
<1>4. PICK n \in Fd : /\ table' = [table EXCEPT ![n] = [by |-> t, file |-> f, offset |-> 0]]
                      /\ fd' = [fd EXCEPT ![t] = n] /\ path' = [path EXCEPT ![t] = f]
                      /\ pc' = [pc EXCEPT ![t] = "open"]
  BY <1>3 DEF Open
<1>5. fd'[t] = n /\ path'[t] = f /\ pc'[t] = "open" /\ table'[n] = [by |-> t, file |-> f, offset |-> 0]
  BY <1>1, <1>4 DEF TypeOK
<1>6. table'[fd'[t]] # Closed /\ table'[fd'[t]].by = t /\ table'[fd'[t]].offset = 0
  BY <1>5 DEF Closed
<1>7. want'[t] <= Len(store'[f]) /\ Len(got'[t]) <= want'[t]
  <2>1. Len(store[f]) \in Nat
    BY <1>1 DEF DataTypes
  <2> QED
    BY <1>2, <1>3, <2>1
<1> QED
  BY <1>2, <1>3, <1>5, <1>6, <1>7 DEF ReadsFromStart

LEMMA SizeReads == ASSUME Inv, NEW t \in Reader, ReadsFromStart(t), Size(t) PROVE ReadsFromStart(t)'
<1>1. TypeOK /\ DataTypes /\ t \in Thread
  BY DEF Inv, IInv, Thread
<1> DEFINE s == store[path[t]]
           w == (Len(s) \div PointBytes) * PointBytes
<1>2. /\ pc[t] = "open" /\ pc'[t] = "io" /\ want'[t] = w
      /\ UNCHANGED <<store, table, fd, path, got, result, ragged, robbed>>
  BY <1>1 DEF Size, TypeOK, DataTypes
<1>3. Len(s) \in Nat
  BY <1>1 DEF TypeOK, DataTypes
<1>4. w \in 0..Len(s)
  BY <1>3, Whole
<1>5. got[t] = <<>> /\ result[t] = "none"
      /\ (t \notin robbed => table[fd[t]] # Closed /\ table[fd[t]].by = t /\ table[fd[t]].offset = 0)
  BY <1>2 DEF ReadsFromStart
<1>6. SubSeq(s, 1, Len(got[t])) = <<>> /\ Len(got[t]) = 0
  BY <1>5, SubSeqEmpty
<1> HIDE DEF w
<1>7. w <= Len(s) /\ 0 <= w
  BY <1>3, <1>4
<1> QED
  BY <1>2, <1>5, <1>6, <1>7 DEF ReadsFromStart, Sound

LEMMA ReadReads ==
    ASSUME Inv, NEW t \in Reader, ReadsFromStart(t),
           NEW k \in 1..(MaxPoints * PointBytes), Read(t, k)
    PROVE  ReadsFromStart(t)'
<1>1. TypeOK /\ DataTypes /\ OwnFiles /\ t \in Thread
  BY DEF Inv, IInv, Thread
<1> DEFINE d == Description(t)
           whole == k - (k % PointBytes)
           s == store[path[t]]
           x == SubSeq(store[d.file], d.offset + 1, d.offset + whole)
<1>2. /\ k \in Nat /\ whole \in 0..k /\ fd[t] \in Fd /\ d \in Described
      /\ d.offset + k <= Len(store[d.file]) /\ Len(got[t]) + k <= want[t] /\ x \in Seq(Byte)
  BY ReadStores
<1>3. /\ pc[t] = "io" /\ UNCHANGED <<store, pc, fd, path, want, result>>
      /\ got' = [got EXCEPT ![t] = @ \o x]
      /\ table' = [table EXCEPT ![fd[t]].offset = @ + k]
      /\ ragged' = IF whole = k THEN ragged ELSE ragged \union {t}
      /\ robbed' = robbed \union ({d.by} \ {t})
  BY DEF Read, InIO, StoredAfter
<1>4. s \in Seq(Byte) /\ Len(s) \in Nat /\ got[t] \in Seq(Byte) /\ Len(got[t]) \in Nat /\ want[t] \in Nat
  BY <1>1 DEF TypeOK, DataTypes
<1>5. want[t] <= Len(s)
  BY DEF ReadsFromStart
<1>6. got'[t] = got[t] \o x
  BY <1>1, <1>3 DEF DataTypes
<1>7. d.offset \in Nat /\ d # Closed
  BY <1>2 DEF Described, Closed
<1>8. Len(x) = whole
  <2> DEFINE a == d.offset + 1
             b == d.offset + whole
  <2> HIDE DEF whole
  <2>1. a \in Int /\ b \in Int /\ b - a + 1 = whole /\ (a <= b <=> whole # 0)
    <3> DEFINE o == d.offset
    <3>1. o \in Nat /\ whole \in Nat
      BY <1>2, <1>7
    <3> HIDE DEF o
    <3>2. /\ o + 1 \in Int /\ o + whole \in Int /\ (o + whole) - (o + 1) + 1 = whole
          /\ (o + 1 <= o + whole <=> whole # 0)
      BY <3>1
    <3> QED
      BY <3>2 DEF o
  <2>2. \A i \in a..b : store[d.file][i] \in Byte
    <3>1. store[d.file] \in Seq(Byte) /\ Len(store[d.file]) \in Nat
      BY <1>1, <1>2, SMTT(30) DEF Described, DataTypes
    <3>2. \A i \in a..b : i \in 1..Len(store[d.file])
      <4> DEFINE o == d.offset
                 l == Len(store[d.file])
      <4>1. o \in Nat /\ l \in Nat /\ k \in Nat /\ whole \in 0..k /\ o + k <= l
        BY <1>2, <1>7, <3>1
      <4> HIDE DEF o, l
      <4>2. \A i \in (o + 1)..(o + whole) : i \in 1..l
        BY <4>1
      <4> QED
        BY <4>2 DEF o, l
    <3> QED
      BY <3>1, <3>2
  <2> HIDE DEF a, b
  <2>3. Len(SubSeq(store[d.file], a, b)) = IF a <= b THEN b - a + 1 ELSE 0
    BY <2>1, <2>2, SubSeqProperties
  <2> QED
    BY <2>1, <2>3 DEF a, b
<1>9. Len(got'[t]) = Len(got[t]) + whole
  <2> HIDE DEF x, whole
  <2>1. Len(got[t] \o x) = Len(got[t]) + Len(x)
    BY <1>2, <1>4, ConcatProperties
  <2> QED
    BY <1>6, <1>8, <2>1
<1>10. Len(got'[t]) <= want'[t] /\ want'[t] <= Len(store'[path'[t]])
  <2> HIDE DEF whole
  <2> DEFINE g == Len(got[t])
             w == want[t]
  <2>1. g \in Nat /\ w \in Nat /\ k \in Nat /\ whole \in 0..k /\ g + k <= w
    BY <1>2, <1>4
  <2> HIDE DEF g, w
  <2>2. g + whole <= w
    BY <2>1
  <2> QED
    BY <1>3, <1>5, <1>9, <2>2 DEF g, w
<1>11. table'[fd[t]] = [d EXCEPT !.offset = @ + k] /\ table'[fd[t]] # Closed
       /\ table'[fd[t]].by = d.by /\ table'[fd[t]].offset = d.offset + k
  <2>1. table'[fd[t]] = [d EXCEPT !.offset = @ + k]
    BY <1>1, <1>2, <1>3 DEF TypeOK, Description
  <2> HIDE DEF d
  <2>2. [d EXCEPT !.offset = @ + k] \in Described
    BY <1>2, <1>7 DEF Described
  <2> QED
    BY <1>2, <2>1, <2>2 DEF Described, Closed
<1>12. t \notin robbed' => t \notin robbed /\ d.by = t
  BY <1>3 DEF ReadsFromStart, Description
<1>13. ASSUME Sound(t)'
       PROVE  table'[fd[t]].offset = Len(got'[t]) /\ got'[t] = SubSeq(s, 1, Len(got'[t]))
  <2>1. t \notin robbed /\ d.by = t /\ whole = k /\ Sound(t)
    BY <1>3, <1>12, <1>13 DEF Sound
  <2>2. d.file = path[t]
    BY <1>1, <1>2, <1>7, <2>1 DEF OwnFiles, Description
  <2>3. d.offset = Len(got[t]) /\ got[t] = SubSeq(s, 1, Len(got[t]))
    BY <1>3, <2>1 DEF ReadsFromStart, Description
  <2> DEFINE g == Len(got[t])
  <2>4. got'[t] = SubSeq(s, 1, g) \o SubSeq(s, g + 1, g + k)
    BY <1>6, <2>1, <2>2, <2>3
  <2>5. Len(got'[t]) = g + k /\ g + k <= Len(s)
    BY <1>2, <1>9, <2>1, <2>2, <2>3
  <2>6. g \in Nat /\ k \in Nat
    BY <1>2, <1>4
  <2> HIDE DEF g, s, whole
  <2>7. 1 \in 1..(Len(s) + 1) /\ g \in (1 - 1)..Len(s) /\ g + k \in g..Len(s)
    BY <1>4, <2>5, <2>6
  <2>8. SubSeq(s, 1, g) \o SubSeq(s, g + 1, g + k) = SubSeq(s, 1, g + k)
    BY <1>4, <2>7, ConcatAdjacentSubSeq
  <2>9. got'[t] = SubSeq(s, 1, Len(got'[t]))
    BY <2>4, <2>5, <2>8
  <2>10. table'[fd[t]].offset = g + k
    BY <1>11, <2>3 DEF g
  <2> QED
    BY <2>5, <2>9, <2>10
<1>14. pc'[t] = "io" /\ fd'[t] = fd[t] /\ store'[path'[t]] = s
  BY <1>3
<1>15. result'[t] = "none"
  BY <1>3 DEF ReadsFromStart
<1> HIDE DEF s, d, x, whole
<1> QED
  BY <1>10, <1>11, <1>12, <1>13, <1>14, <1>15 DEF ReadsFromStart

LEMMA ReturnsReads ==
    ASSUME Inv, NEW t \in Reader, ReadsFromStart(t), ReadValuesEnds(t) \/ ReadValuesThrows(t)
    PROVE  ReadsFromStart(t)'
<1>1. TypeOK /\ DataTypes /\ OwnFiles /\ HasNumber /\ t \in Thread
  BY DEF Inv, IInv, Thread
<1>2. /\ pc[t] = "io" /\ pc'[t] = "copied"
      /\ UNCHANGED <<store, fd, path, want, got, ragged>>
      /\ robbed \subseteq robbed'
  BY <1>1 DEF ReadValuesEnds, ReadValuesThrows, InIO, Returns, CopyDies, Close, TypeOK
<1> DEFINE s == store[path[t]]
           g == Len(got[t])
           w == want[t]
<1>3. g \in Nat /\ w \in Nat /\ Len(s) \in Nat /\ w <= Len(s) /\ g <= w
  BY <1>1 DEF TypeOK, DataTypes, ReadsFromStart
<1>4. CASE ReadValuesThrows(t)
  <2>1. result'[t] = "thrown"
    BY <1>1, <1>4 DEF ReadValuesThrows, Returns, TypeOK
  <2> QED
    BY <1>2, <1>3, <2>1 DEF ReadsFromStart
<1>5. CASE ReadValuesEnds(t)
  <2>1. ASSUME Sound(t)' PROVE got[t] = SubSeq(s, 1, w)
    <3>1. Sound(t) /\ t \notin robbed
      BY <1>2, <2>1 DEF Sound
    <3>2. /\ table[fd[t]] # Closed /\ table[fd[t]].by = t
          /\ table[fd[t]].offset = g /\ got[t] = SubSeq(s, 1, g)
      BY <1>2, <3>1 DEF ReadsFromStart
    <3>3. table[fd[t]].file = path[t]
      BY <1>1, <1>2, <3>2 DEF OwnFiles, HasNumber
    <3>4. g = w \/ Left(t) <= 0
      BY <1>5 DEF ReadValuesEnds
    <3>5. Left(t) = Len(s) - g
      BY <3>2, <3>3 DEF Left, Description
    <3>6. g = w
      <4> DEFINE ls == Len(s)
      <4>1. ls \in Nat /\ w <= ls /\ (g = w \/ ls - g <= 0)
        BY <1>3, <3>4, <3>5
      <4> HIDE DEF g, w, ls
      <4> QED
        BY <1>3, <4>1
    <3> QED
      BY <3>2, <3>6
  <2> QED
    BY <1>2, <1>3, <2>1 DEF ReadsFromStart
<1> QED
  BY <1>4, <1>5

LEMMA ReadsKept == ASSUME Inv, NEW t \in Reader, ReadsFromStart(t), [Next]_vars
                   PROVE  ReadsFromStart(t)'
<1>1. TypeOK /\ DataTypes /\ t \in Thread
  BY DEF Inv, IInv, Thread
<1>2. path[t] \in File \union {Db}
  BY <1>1 DEF TypeOK
<1>3. Next /\ Apart(t) => ReadsFromStart(t)'
  BY <1>2, Grows, ApartKeeps
<1>4. CASE ReaderStep(t)
  <2>1. ASSUME NEW f \in File, OpenToRead(t, f) PROVE ReadsFromStart(t)'
    BY <2>1, OpenToReadReads
  <2>2. CASE Size(t)
    BY <2>2, SizeReads
  <2>3. CASE SizeThrows(t)
    <3>1. want[t] = 0 /\ got[t] = <<>> /\ result[t] = "none"
      BY <2>3 DEF SizeThrows, ReadsFromStart
    <3>2. pc'[t] = "idle" /\ path'[t] = Db /\ UNCHANGED <<store, want, got, result>>
      BY <1>1, <2>3 DEF SizeThrows, HandleDies, readvars, TypeOK
    <3> QED
      BY <3>1, <3>2, IdleReads
  <2>4. ASSUME NEW k \in 1..(MaxPoints * PointBytes), Read(t, k) PROVE ReadsFromStart(t)'
    BY <2>4, ReadReads
  <2>5. CASE ReadValuesEnds(t) \/ ReadValuesThrows(t)
    BY <2>5, ReturnsReads
  <2>6. CASE ReadEnds(t)
    <3>1. /\ pc'[t] = "idle" /\ path'[t] = Db /\ store' = store
          /\ want'[t] = 0 /\ got'[t] = <<>> /\ result'[t] = "none"
      BY <1>1, <2>6 DEF ReadEnds, HandleDies, TypeOK, DataTypes
    <3> QED
      BY <3>1, IdleReads
  <2> QED
    BY <1>4, <2>1, <2>2, <2>3, <2>4, <2>5, <2>6 DEF ReaderStep
<1>5. ASSUME NEW u \in Reader \ {t}, ReaderStep(u) PROVE ReadsFromStart(t)'
  BY <1>3, <1>5, OtherReadersApart DEF Next
<1>6. CASE Write
  BY <1>3, <1>6, FlusherLeavesApart DEF Next
<1>7. CASE Terminate
  <2>1. /\ pc'[t] = "idle" /\ path'[t] = Db /\ store' = store
        /\ want'[t] = 0 /\ got'[t] = <<>> /\ result'[t] = "none"
    BY <1>1, <1>7 DEF Terminate
  <2> QED
    BY <2>1, IdleReads
<1>8. ASSUME NEW u \in Other, OtherOpens(u) \/ OtherCloses(u) PROVE ReadsFromStart(t)'
  BY <1>3, <1>8, OthersLeaveApart DEF Next
<1>9. CASE UNCHANGED vars
  BY <1>9 DEF vars, readvars, ReadsFromStart, Sound
<1> QED
  BY <1>4, <1>5, <1>6, <1>7, <1>8, <1>9 DEF Next

----------------------------------------------------------------------------
(* The theorems.                                                             *)

\* The descriptor table, the handles and what went wrong keep their types.
THEOREM TypesOfTable == Spec => []TypeOK
<1>1. IInv => TypeOK BY DEF IInv
<1> QED
  BY <1>1, InitInv, NextKeeps, PTL DEF Spec

\* However reads, writes, failures and the other threads' opens and closes interleave,
\* and however often FileHandle's copies close a number, every open file's number is in
\* the hands of the thread that opened it: no descriptor leaks.
THEOREM NoLeak == Spec => []OpenIsHeld
<1>1. IInv => OpenIsHeld BY DEF IInv
<1> QED
  BY <1>1, InitInv, NextKeeps, PTL DEF Spec

\* For any size of a point, of an allocation and of a buffer: the first write of a flush
\* stays within the array of iovecs that GetIOVector allocates, so an overrun is always
\* that of a later one.
THEOREM FirstVectorFitsArray == Spec => []VectorFits
<1>1. Init => VectorFits
  BY DEF Init, VectorFits, Thread
<1>2. VectorFits /\ Inv /\ [Next]_vars => VectorFits'
  BY VectorFitsKept
<1> QED
  BY <1>1, <1>2, InitHolds, InvKept, PTL DEF Spec

\* WriteVector's loop loses, repeats and reorders nothing, wherever writev(2) divides the
\* bytes: a file that no write was cut off in or led astray to holds the points written
\* to it, whole and in order, and in the middle of a write what is left of the vector
\* completes them.
THEOREM FilesHoldWhole == Spec => []FilesWhole
<1>1. Init => FilesWhole
  <2> SUFFICES ASSUME Init, NEW f \in File PROVE Holds(f)
    BY FilesWholeIs
  <2>1. ~Writing(f) /\ store[f] = <<>> /\ wrote[f] = <<>>
    BY DEF Init, Writing, Thread
  <2> QED
    BY <2>1, BytesEmpty DEF Holds
<1>2. FilesWhole /\ Inv /\ [Next]_vars => FilesWhole'
  BY FilesWholeKept
<1> QED
  BY <1>1, <1>2, InitHolds, InvKept, PTL DEF Spec

\* For any number of readers, and whatever the flusher appends meanwhile: ReadValues
\* gives all the points its file had when it took the size, from the first on, unless
\* another thread closed its number or read from it, or a read(2) ended inside a point.
THEOREM ReadersReadOwnFile == Spec => []ReadsOwnFile
<1> DEFINE RInv == \A t \in Reader : ReadsFromStart(t)
<1>1. Init => RInv
  <2> SUFFICES ASSUME Init, NEW t \in Reader PROVE ReadsFromStart(t)
    OBVIOUS
  <2>1. /\ pc[t] = "idle" /\ path[t] = Db /\ store[Db] = <<>>
        /\ want[t] = 0 /\ got[t] = <<>> /\ result[t] = "none"
    BY DEF Init, Thread
  <2> QED
    BY <2>1 DEF ReadsFromStart
<1>2. RInv /\ Inv /\ [Next]_vars => RInv'
  BY ReadsKept
<1>3. RInv => ReadsOwnFile
  BY DEF ReadsFromStart, ReadsOwnFile, Sound
<1> HIDE DEF RInv
<1> QED
  BY <1>1, <1>2, <1>3, InitHolds, InvKept, PTL DEF Spec
=============================================================================

--------------------------- MODULE StreamsProofs ---------------------------
(* Proofs about Streams, for any lines, labels, points, requests and sizes:  *)
(* what the generated code (Messages) writes of a message it reads back;     *)
(* what stdin gave is what is stored, in its order; when vqro-write has      *)
(* ended, it is stored and indexed; the range of a read is the one meant; a  *)
(* search finds what there is, once, and within its limit.                   *)
EXTENDS Streams, FiniteSetTheorems, SequenceTheorems, WellFoundedInduction, TLAPS
----------------------------------------------------------------------------
(* Induction, from the well-founded order of the finite sets: the library's  *)
(* theorems about it take an operator, these take a set.                     *)

LEMMA NatMin == ASSUME NEW C \in SUBSET Nat, C # {}
                PROVE  \E n \in C : \A m \in C : n <= m
<1> DEFINE T == {0..n : n \in C}
           R == StrictSubsetOrdering(Nat)
           S == FiniteSubsetsOf(Nat)
<1>1. IsWellFoundedOn(R, S)
  BY FS_StrictSubsetOrderingWellFounded
<1>2. \A n \in Nat : 0..n \in S
  <2> TAKE n \in Nat
  <2>1. IsFiniteSet(0..n)
    BY FS_Interval
  <2> QED
    BY <2>1 DEF FiniteSubsetsOf
<1>3. T \subseteq S /\ T # {}
  BY <1>2
<1> HIDE DEF R, S
<1>4. \E x \in T : \A y \in T : ~(<<y, x>> \in R)
  <2> HIDE DEF T
  <2> QED
    BY <1>1, <1>3, WFMin
<1>5. PICK n \in C : \A y \in T : ~(<<y, 0..n>> \in R)
  BY <1>4
<1>6. \A m \in C : m < n => 0..m \in T /\ <<0..m, 0..n>> \in R
  <2> TAKE m \in C
  <2> SUFFICES ASSUME m < n PROVE 0..m \in T /\ <<0..m, 0..n>> \in R
    OBVIOUS
  <2>1. 0..m \subseteq 0..n /\ 0..m # 0..n
    OBVIOUS
  <2> QED
    BY <2>1 DEF R, StrictSubsetOrdering
<1>7. \A m \in C : ~(m < n)
  BY <1>5, <1>6
<1>8. \A m \in C : m \in Nat /\ n \in Nat
  OBVIOUS
<1> HIDE DEF T
<1> QED
  BY <1>7, <1>8

LEMMA Induction == ASSUME NEW I \in SUBSET Nat, 0 \in I, \A n \in Nat : n \in I => n + 1 \in I
                   PROVE  I = Nat
<1>1. SUFFICES ASSUME Nat \ I # {} PROVE FALSE
  OBVIOUS
<1>2. PICK n \in Nat \ I : \A m \in Nat \ I : n <= m
  BY <1>1, NatMin
<1>3. n # 0 /\ n - 1 \in Nat
  BY <1>2
<1> QED
  BY <1>2, <1>3

\* What a definition by recursion over an interval denotes: there is a function that
\* takes each value from the one before.
Computable(S, s, a, b, g) ==
    \E f \in [a..b -> S] : f[a] = s /\ \A k \in a..b : k # a => f[k] = g[k][f[k - 1]]

LEMMA Recursion ==
    ASSUME NEW S, NEW s \in S, NEW a \in Int, NEW b \in Int, a <= b,
           NEW g \in [Int -> [S -> S]]
    PROVE  Computable(S, s, a, b, g)
<1> DEFINE Is(f, m) == f[a] = s /\ \A k \in a..(a + m) : k # a => f[k] = g[k][f[k - 1]]
           I == {m \in Nat : \E f \in [a..(a + m) -> S] : Is(f, m)}
<1>1. 0 \in I
  <2> DEFINE f == [k \in a..(a + 0) |-> s]
  <2>1. f \in [a..(a + 0) -> S] /\ Is(f, 0)
    OBVIOUS
  <2>2. \E h \in [a..(a + 0) -> S] : Is(h, 0)
    <3> HIDE DEF f, Is
    <3> QED
      BY <2>1
  <2> QED
    BY <2>2
<1>2. ASSUME NEW m \in I PROVE m + 1 \in I
  <2>1. PICK f \in [a..(a + m) -> S] : Is(f, m)
    OBVIOUS
  <2> DEFINE h == [k \in a..(a + (m + 1)) |-> IF k = a + (m + 1) THEN g[k][f[k - 1]] ELSE f[k]]
  <2>2. f[a + m] \in S /\ g[a + (m + 1)] \in [S -> S] /\ (a + (m + 1)) - 1 = a + m
    OBVIOUS
  <2>3. h \in [a..(a + (m + 1)) -> S]
    BY <2>2
  <2>4. h[a] = s
    BY <2>1
  <2>5. ASSUME NEW k \in a..(a + (m + 1)), k # a
        PROVE  h[k] = g[k][h[k - 1]]
    <3>1. CASE k = a + (m + 1)
      <4>1. h[k - 1] = f[k - 1]
        BY <3>1
      <4> QED
        BY <3>1, <4>1
    <3>2. CASE k # a + (m + 1)
      <4>1. k \in a..(a + m) /\ h[k] = f[k] /\ h[k - 1] = f[k - 1]
        BY <2>5, <3>2
      <4>2. f[k] = g[k][f[k - 1]]
        BY <4>1, <2>1, <2>5
      <4> QED
        BY <4>1, <4>2
    <3> QED
      BY <3>1, <3>2
  <2>6. \E q \in [a..(a + (m + 1)) -> S] : Is(q, m + 1)
    <3>1. Is(h, m + 1)
      BY <2>4, <2>5
    <3> HIDE DEF h, Is
    <3> QED
      BY <2>3, <3>1
  <2> HIDE DEF h, Is
  <2> QED
    BY <2>6
<1>3. I = Nat
  <2>1. I \subseteq Nat
    OBVIOUS
  <2> HIDE DEF I
  <2> QED
    BY <1>1, <1>2, <2>1, Induction
<1>4. b - a \in Nat /\ a + (b - a) = b
  OBVIOUS
<1>5. \E f \in [a..(a + (b - a)) -> S] : Is(f, b - a)
  BY <1>3, <1>4
<1> QED
  BY <1>4, <1>5 DEF Computable

----------------------------------------------------------------------------
(* FlattenSeq of the community modules, for sequences of sequences.          *)

\* The sums that FlattenSeq takes one after the other.
Sums(S, v, f) == /\ f \in [1..Len(v) -> Seq(S)]
                 /\ \A k \in 1..Len(v) : f[k] = IF k = 1 THEN v[k] ELSE f[k - 1] \o v[k]
                 /\ FlattenSeq(v) = f[Len(v)]

LEMMA FlattenSums == ASSUME NEW S, NEW v \in Seq(Seq(S)), v # <<>>
                     PROVE  \E f : Sums(S, v, f)
<1> DEFINE n == Len(v)
           Is(f) == f = [i \in 1..n |-> IF i = 1 THEN v[i] ELSE f[i - 1] \o v[i]]
           g == [k \in Int |-> [x \in Seq(S) |-> IF k \in 1..n THEN x \o v[k] ELSE x]]
<1>1. n \in Nat /\ 1 <= n /\ \A k \in 1..n : v[k] \in Seq(S)
  OBVIOUS
<1>2. g \in [Int -> [Seq(S) -> Seq(S)]]
  <2>1. ASSUME NEW k \in Int, NEW x \in Seq(S) PROVE (IF k \in 1..n THEN x \o v[k] ELSE x) \in Seq(S)
    BY <1>1
  <2> QED
    BY <2>1
<1>3. FlattenSeq(v) = (CHOOSE f : Is(f))[n]
  <2>1. Len(v) # 0
    BY <1>1
  <2> QED
    BY <2>1 DEF FlattenSeq
<1> HIDE DEF n
<1>4. PICK h \in [1..n -> Seq(S)] : h[1] = v[1] /\ \A k \in 1..n : k # 1 => h[k] = g[k][h[k - 1]]
  <2>1. 1 \in 1..n /\ v[1] \in Seq(S) /\ 1 \in Int /\ n \in Int
    BY <1>1
  <2> HIDE DEF g
  <2>2. Computable(Seq(S), v[1], 1, n, g)
    BY <1>1, <1>2, <2>1, Recursion
  <2> QED
    BY <2>2 DEF Computable
<1>5. Is(h)
  <2>1. ASSUME NEW k \in 1..n PROVE h[k] = IF k = 1 THEN v[k] ELSE h[k - 1] \o v[k]
    <3>1. k # 1 => k - 1 \in 1..n /\ h[k - 1] \in Seq(S)
      BY <1>1, <1>4
    <3>2. \A x \in Seq(S) : g[k][x] = x \o v[k]
      BY <1>1, SMTT(30)
    <3> HIDE DEF g
    <3> QED
      BY <1>4, <3>1, <3>2
  <2>2. h = [k \in 1..n |-> h[k]]
    BY <1>4
  <2> HIDE DEF g
  <2> QED
    BY <2>1, <2>2
<1> DEFINE f == CHOOSE x : Is(x)
<1>6. Is(f)
  <2> HIDE DEF Is
  <2> QED
    BY <1>5
<1>7. \A k \in 1..n : f[k] = IF k = 1 THEN v[k] ELSE f[k - 1] \o v[k]
  <2> HIDE DEF f
  <2> QED
    BY <1>6
<1>8. \A k \in 1..n : f[k] \in Seq(S)
  <2> DEFINE I == {m \in Nat : m \in 1..n => f[m] \in Seq(S)}
  <2> HIDE DEF f
  <2>1. 0 \in I
    BY <1>1
  <2>2. ASSUME NEW m \in Nat, m \in I PROVE m + 1 \in I
    <3>1. SUFFICES ASSUME m + 1 \in 1..n PROVE f[m + 1] \in Seq(S)
      OBVIOUS
    <3>2. v[m + 1] \in Seq(S)
      BY <1>1, <3>1
    <3>3. CASE m = 0
      BY <1>7, <3>1, <3>2, <3>3
    <3>4. CASE m # 0
      <4>1. m \in 1..n /\ m + 1 # 1 /\ (m + 1) - 1 = m
        BY <1>1, <3>1, <3>4
      <4>2. f[m + 1] = f[m] \o v[m + 1]
        BY <1>7, <3>1, <4>1
      <4> QED
        BY <2>2, <3>2, <4>1, <4>2
    <3> QED
      BY <3>3, <3>4
  <2>3. I = Nat
    <3>1. I \in SUBSET Nat
      OBVIOUS
    <3> HIDE DEF I
    <3> QED
      BY <2>1, <2>2, <3>1, Induction
  <2>4. ASSUME NEW k \in 1..n PROVE f[k] \in Seq(S)
    <3>1. k \in Nat
      BY <1>1
    <3>2. k \in I
      <4> HIDE DEF I
      <4> QED
        BY <2>3, <3>1
    <3> QED
      BY <3>2
  <2> QED
    BY <2>4
<1>9. f = [k \in 1..n |-> f[k]]
  <2> HIDE DEF f
  <2> DEFINE e == [i \in 1..n |-> IF i = 1 THEN v[i] ELSE f[i - 1] \o v[i]]
  <2>1. f = e /\ DOMAIN e = 1..n
    BY <1>6
  <2> HIDE DEF e
  <2> QED
    BY <1>6
<1>10. Sums(S, v, f)
  <2> HIDE DEF f
  <2>1. f \in [1..n -> Seq(S)]
    BY <1>8, <1>9
  <2>2. FlattenSeq(v) = f[n]
    BY <1>3 DEF f
  <2> QED
    BY <1>7, <2>1, <2>2 DEF n, Sums
<1> QED
  BY <1>10

LEMMA FlattenEmpty == FlattenSeq(<<>>) = <<>>
BY DEF FlattenSeq

LEMMA FlattenIn == ASSUME NEW S, NEW v \in Seq(Seq(S)) PROVE FlattenSeq(v) \in Seq(S)
<1>1. CASE v = <<>>
  <2>1. <<>> \in Seq(S)
    OBVIOUS
  <2> QED
    BY <1>1, <2>1, FlattenEmpty
<1>2. CASE v # <<>>
  <2>1. PICK f : Sums(S, v, f)
    BY <1>2, FlattenSums
  <2>2. Len(v) \in 1..Len(v)
    BY <1>2
  <2> QED
    BY <2>1, <2>2 DEF Sums
<1> QED
  BY <1>1, <1>2

\* The last sequence comes last.
LEMMA FlattenAppend == ASSUME NEW S, NEW v \in Seq(Seq(S)), NEW x \in Seq(S)
                       PROVE  FlattenSeq(Append(v, x)) = FlattenSeq(v) \o x
<1> DEFINE w == Append(v, x)
           n == Len(v)
<1>1. w \in Seq(Seq(S)) /\ w # <<>> /\ Len(w) = n + 1 /\ n \in Nat /\ w[n + 1] = x
      /\ \A k \in 1..n : w[k] = v[k]
  BY AppendProperties, LenProperties
<1> HIDE DEF w
<1>2. PICK f : Sums(S, w, f)
  BY <1>1, FlattenSums
<1>3. CASE v = <<>>
  <2>1. n = 0
    BY <1>3
  <2>2. FlattenSeq(w) = f[1] /\ f[1] = w[1] /\ w[1] = x
    BY <1>1, <1>2, <2>1 DEF Sums
  <2>3. FlattenSeq(v) \o x = x
    BY <1>3, FlattenEmpty, ConcatEmptySeq
  <2> QED
    BY <2>2, <2>3 DEF w
<1>4. CASE v # <<>>
  <2>1. PICK e : Sums(S, v, e)
    BY <1>4, FlattenSums
  <2>2. n >= 1
    BY <1>4
  <2> DEFINE I == {m \in Nat : m \in 1..n => f[m] = e[m]}
  <2>3. 0 \in I
    OBVIOUS
  <2>4. ASSUME NEW m \in Nat, m \in I PROVE m + 1 \in I
    <3>1. SUFFICES ASSUME m + 1 \in 1..n PROVE f[m + 1] = e[m + 1]
      OBVIOUS
    <3>2. m + 1 \in 1..(n + 1) /\ w[m + 1] = v[m + 1]
      BY <1>1, <3>1
    <3>3. CASE m = 0
      <4>1. m + 1 = 1
        BY <3>3
      <4>2. f[m + 1] = w[m + 1]
        BY <1>1, <1>2, <3>2, <4>1 DEF Sums
      <4>3. e[m + 1] = v[m + 1]
        BY <2>1, <3>1, <4>1 DEF Sums
      <4> QED
        BY <3>2, <4>2, <4>3
    <3>4. CASE m # 0
      <4>1. m \in 1..n /\ m + 1 # 1 /\ (m + 1) - 1 = m
        BY <1>1, <3>1, <3>4
      <4>2. f[m + 1] = f[m] \o w[m + 1]
        BY <1>1, <1>2, <3>2, <4>1 DEF Sums
      <4>3. e[m + 1] = e[m] \o v[m + 1]
        BY <2>1, <3>1, <4>1 DEF Sums
      <4> QED
        BY <2>4, <3>2, <4>1, <4>2, <4>3
    <3> QED
      BY <3>3, <3>4
  <2>5. I = Nat
    <3>1. I \in SUBSET Nat
      OBVIOUS
    <3> HIDE DEF I
    <3> QED
      BY <2>3, <2>4, <3>1, Induction
  <2>6. f[n] = e[n]
    <3>1. \A m \in I : m \in 1..n => f[m] = e[m]
      OBVIOUS
    <3>2. n \in 1..n
      BY <1>1, <2>2
    <3>3. n \in I
      BY <1>1, <2>5
    <3> HIDE DEF I, n
    <3> QED
      BY <3>1, <3>2, <3>3
  <2>7. FlattenSeq(w) = f[n] \o x
    <3>1. n + 1 \in 1..(n + 1) /\ n + 1 # 1 /\ (n + 1) - 1 = n
      BY <2>2
    <3>2. FlattenSeq(w) = f[n + 1] /\ f[n + 1] = f[n] \o w[n + 1]
      BY <1>1, <1>2, <3>1 DEF Sums
    <3> QED
      BY <1>1, <3>2
  <2>8. FlattenSeq(v) = e[n]
    BY <2>1 DEF Sums
  <2> QED
    BY <2>6, <2>7, <2>8 DEF w
<1> QED
  BY <1>3, <1>4

LEMMA FlattenOne == ASSUME NEW S, NEW x \in Seq(S) PROVE FlattenSeq(<<x>>) = x
<1>1. <<>> \in Seq(Seq(S)) /\ <<x>> = Append(<<>>, x)
  OBVIOUS
<1>2. FlattenSeq(<<x>>) = FlattenSeq(<<>>) \o x
  BY <1>1, FlattenAppend
<1> QED
  BY <1>2, FlattenEmpty, ConcatEmptySeq

\* What comes first, and what comes after.
LEMMA FlattenConcat == ASSUME NEW S, NEW v \in Seq(Seq(S)), NEW w \in Seq(Seq(S))
                       PROVE  FlattenSeq(v \o w) = FlattenSeq(v) \o FlattenSeq(w)
<1> DEFINE P(s) == FlattenSeq(v \o s) = FlattenSeq(v) \o FlattenSeq(s)
           I == {m \in Nat : \A s \in Seq(Seq(S)) : Len(s) = m => P(s)}
<1>1. 0 \in I
  <2>1. ASSUME NEW s \in Seq(Seq(S)), Len(s) = 0 PROVE P(s)
    <3>1. s = <<>>
      BY <2>1
    <3>2. v \o s = v
      BY <3>1, ConcatEmptySeq
    <3>3. FlattenSeq(v) \o FlattenSeq(s) = FlattenSeq(v)
      BY <3>1, FlattenEmpty, FlattenIn, ConcatEmptySeq
    <3> QED
      BY <3>2, <3>3
  <2> QED
    BY <2>1
<1>2. ASSUME NEW m \in Nat, m \in I PROVE m + 1 \in I
  <2>1. ASSUME NEW s \in Seq(Seq(S)), Len(s) = m + 1 PROVE P(s)
    <3>1. PICK t \in Seq(Seq(S)), x \in Seq(S) : s = Append(t, x)
      <4>1. s # <<>>
        BY <2>1
      <4> QED
        BY <4>1, SequenceEmptyOrAppend
    <3>2. Len(t) = m
      BY <2>1, <3>1
    <3>3. P(t)
      BY <1>2, <3>2
    <3>4. v \o s = Append(v \o t, x) /\ v \o t \in Seq(Seq(S))
      <4> DEFINE T == Seq(S)
      <4>1. v \in Seq(T) /\ t \in Seq(T) /\ x \in T /\ <<x>> \in Seq(T)
        BY <3>1
      <4> HIDE DEF T
      <4>2. v \o t \in Seq(T)
        BY <4>1, ConcatProperties, Zenon
      <4>3. Append(t, x) = t \o <<x>> /\ Append(v \o t, x) = (v \o t) \o <<x>>
        BY <4>1, <4>2, AppendIsConcat, Zenon
      <4>4. (v \o t) \o <<x>> = v \o (t \o <<x>>)
        BY <4>1, SMTT(60)
      <4> QED
        BY <3>1, <4>2, <4>3, <4>4 DEF T
    <3>5. FlattenSeq(v \o s) = FlattenSeq(v \o t) \o x
      BY <3>4, FlattenAppend
    <3>6. FlattenSeq(s) = FlattenSeq(t) \o x
      BY <3>1, FlattenAppend
    <3>7. FlattenSeq(v) \in Seq(S) /\ FlattenSeq(t) \in Seq(S)
      BY FlattenIn
    <3>8. (FlattenSeq(v) \o FlattenSeq(t)) \o x = FlattenSeq(v) \o (FlattenSeq(t) \o x)
      <4> DEFINE a == FlattenSeq(v)
                 b == FlattenSeq(t)
      <4>1. a \in Seq(S) /\ b \in Seq(S) /\ x \in Seq(S)
        BY <3>7
      <4> HIDE DEF a, b
      <4>2. (a \o b) \o x = a \o (b \o x)
        BY <4>1, SMTT(60)
      <4> QED
        BY <4>2 DEF a, b
    <3> QED
      BY <3>3, <3>5, <3>6, <3>8
  <2> HIDE DEF P
  <2> QED
    BY <2>1
<1>3. I = Nat
  <2>1. I \in SUBSET Nat
    OBVIOUS
  <2> HIDE DEF I
  <2> QED
    BY <1>1, <1>2, <2>1, Induction
<1>4. Len(w) \in I
  BY <1>3
<1> QED
  BY <1>4

----------------------------------------------------------------------------
(* What a function makes of each element of a sequence, one after the other. *)

Joined(s, g) == FlattenSeq([i \in DOMAIN s |-> g[s[i]]])

LEMMA EachIn == ASSUME NEW S, NEW T, NEW s \in Seq(S), NEW g \in [S -> Seq(T)]
                PROVE  /\ [i \in DOMAIN s |-> g[s[i]]] \in Seq(Seq(T))
                       /\ Joined(s, g) \in Seq(T)
<1>1. DOMAIN s = 1..Len(s) /\ Len(s) \in Nat /\ \A i \in 1..Len(s) : s[i] \in S
  OBVIOUS
<1>2. \A i \in 1..Len(s) : g[s[i]] \in Seq(T)
  BY <1>1
<1>3. [i \in DOMAIN s |-> g[s[i]]] \in Seq(Seq(T))
  BY <1>1, <1>2
<1> QED
  BY <1>3, FlattenIn DEF Joined

LEMMA JoinedEmpty == ASSUME NEW g PROVE Joined(<<>>, g) = <<>>
<1>1. [i \in DOMAIN <<>> |-> g[<<>>[i]]] = <<>>
  OBVIOUS
<1> QED
  BY <1>1, FlattenEmpty DEF Joined

LEMMA JoinedConcat ==
    ASSUME NEW S, NEW T, NEW s \in Seq(S), NEW t \in Seq(S), NEW g \in [S -> Seq(T)]
    PROVE  Joined(s \o t, g) = Joined(s, g) \o Joined(t, g)
<1> DEFINE v == [i \in DOMAIN s |-> g[s[i]]]
           w == [i \in DOMAIN t |-> g[t[i]]]
           u == [i \in DOMAIN (s \o t) |-> g[(s \o t)[i]]]
<1>1. v \in Seq(Seq(T)) /\ w \in Seq(Seq(T)) /\ u \in Seq(Seq(T))
  <2>1. s \o t \in Seq(S)
    OBVIOUS
  <2> QED
    BY <2>1, EachIn
<1>2. /\ Len(v) = Len(s) /\ Len(w) = Len(t) /\ Len(u) = Len(s) + Len(t)
      /\ Len(s) \in Nat /\ Len(t) \in Nat
  OBVIOUS
<1>3. \A i \in 1..(Len(s) + Len(t)) : u[i] = IF i <= Len(s) THEN v[i] ELSE w[i - Len(s)]
  <2> TAKE i \in 1..(Len(s) + Len(t))
  <2>1. u[i] = g[(s \o t)[i]]
    OBVIOUS
  <2>2. (s \o t)[i] = IF i <= Len(s) THEN s[i] ELSE t[i - Len(s)]
    BY ConcatProperties
  <2>3. CASE i <= Len(s)
    BY <1>2, <2>1, <2>2, <2>3
  <2>4. CASE ~(i <= Len(s))
    <3>1. i - Len(s) \in 1..Len(t)
      BY <1>2, <2>4
    <3> QED
      BY <2>1, <2>2, <2>4, <3>1
  <2> QED
    BY <2>3, <2>4
<1>4. u = v \o w
  <2> HIDE DEF u, v, w
  <2>1. /\ v \o w \in Seq(Seq(T)) /\ Len(v \o w) = Len(v) + Len(w)
        /\ \A i \in 1..(Len(v) + Len(w)) : (v \o w)[i] = IF i <= Len(v) THEN v[i] ELSE w[i - Len(v)]
    BY <1>1, ConcatProperties
  <2>2. Len(v \o w) = Len(u) /\ \A i \in 1..Len(u) : (v \o w)[i] = u[i]
    BY <1>2, <1>3, <2>1
  <2> QED
    BY <1>1, <2>1, <2>2, SeqEqual
<1>5. FlattenSeq(u) = FlattenSeq(v) \o FlattenSeq(w)
  <2> HIDE DEF u, v, w
  <2> QED
    BY <1>1, <1>4, FlattenConcat
<1> QED
  BY <1>5 DEF Joined

LEMMA JoinedOne ==
    ASSUME NEW S, NEW T, NEW x \in S, NEW g \in [S -> Seq(T)]
    PROVE  Joined(<<x>>, g) = g[x]
<1>1. [i \in DOMAIN <<x>> |-> g[<<x>>[i]]] = <<g[x]>>
  OBVIOUS
<1>2. g[x] \in Seq(T)
  OBVIOUS
<1> QED
  BY <1>1, <1>2, FlattenOne DEF Joined

LEMMA JoinedAppend ==
    ASSUME NEW S, NEW T, NEW s \in Seq(S), NEW x \in S, NEW g \in [S -> Seq(T)]
    PROVE  Joined(Append(s, x), g) = Joined(s, g) \o g[x]
<1> DEFINE y == <<x>>
<1>1. Append(s, x) = s \o y /\ y \in Seq(S)
  OBVIOUS
<1>2. Joined(y, g) = g[x]
  BY JoinedOne
<1> HIDE DEF y
<1>3. Joined(s \o y, g) = Joined(s, g) \o Joined(y, g)
  BY <1>1, JoinedConcat
<1> QED
  BY <1>1, <1>2, <1>3

LEMMA JoinedHead ==
    ASSUME NEW S, NEW T, NEW s \in Seq(S), s # <<>>, NEW g \in [S -> Seq(T)]
    PROVE  Joined(s, g) = g[Head(s)] \o Joined(Tail(s), g)
<1> DEFINE x == Head(s)
           y == <<x>>
           t == Tail(s)
<1>1. s = y \o t /\ t \in Seq(S) /\ x \in S /\ y \in Seq(S)
  OBVIOUS
<1> HIDE DEF x, t
<1>2. Joined(y, g) = g[x]
  BY <1>1, JoinedOne
<1> HIDE DEF y
<1>3. Joined(y \o t, g) = Joined(y, g) \o Joined(t, g)
  BY <1>1, JoinedConcat
<1>4. Joined(s, g) = g[x] \o Joined(t, g)
  BY <1>1, <1>2, <1>3
<1> QED
  BY <1>4 DEF x, t

\* Each element is kept as it is, or none is.
LEMMA JoinedSame ==
    ASSUME NEW S, NEW s \in Seq(S), NEW g \in [S -> Seq(S)],
           \A i \in DOMAIN s : g[s[i]] = <<s[i]>>
    PROVE  Joined(s, g) = s
<1> DEFINE Q(t) == \A i \in 1..Len(t) : g[t[i]] = <<t[i]>>
           I == {m \in Nat : \A t \in Seq(S) : Len(t) = m /\ Q(t) => Joined(t, g) = t}
<1>1. 0 \in I
  <2>1. ASSUME NEW t \in Seq(S), Len(t) = 0 PROVE Joined(t, g) = t
    <3>1. t = <<>>
      BY <2>1
    <3> QED
      BY <3>1, JoinedEmpty
  <2> HIDE DEF Q
  <2> QED
    BY <2>1
<1>2. ASSUME NEW m \in Nat, m \in I PROVE m + 1 \in I
  <2>1. ASSUME NEW t \in Seq(S), Len(t) = m + 1, Q(t) PROVE Joined(t, g) = t
    <3>1. PICK r \in Seq(S), x \in S : t = Append(r, x)
      <4>1. t # <<>>
        BY <2>1
      <4> QED
        BY <4>1, SequenceEmptyOrAppend
    <3>2. Len(r) = m /\ t[m + 1] = x /\ \A i \in 1..m : t[i] = r[i]
      BY <2>1, <3>1
    <3>3. Q(r) /\ g[x] = <<x>>
      <4>1. m + 1 \in 1..Len(t) /\ 1..m \subseteq 1..Len(t)
        BY <2>1
      <4> QED
        BY <2>1, <3>2, <4>1
    <3> HIDE DEF Q
    <3>4. Joined(r, g) = r
      BY <1>2, <3>2, <3>3
    <3>5. Joined(t, g) = Joined(r, g) \o g[x]
      BY <3>1, JoinedAppend
    <3> QED
      BY <3>1, <3>3, <3>4, <3>5
  <2> HIDE DEF Q
  <2> QED
    BY <2>1
<1>3. I = Nat
  <2>1. I \in SUBSET Nat
    OBVIOUS
  <2> HIDE DEF I
  <2> QED
    BY <1>1, <1>2, <2>1, Induction
<1>4. Len(s) \in I /\ Q(s)
  <2>1. Len(s) \in Nat /\ DOMAIN s = 1..Len(s)
    OBVIOUS
  <2> HIDE DEF I
  <2> QED
    BY <1>3, <2>1
<1> HIDE DEF Q
<1> QED
  BY <1>4

LEMMA JoinedNone ==
    ASSUME NEW S, NEW T, NEW s \in Seq(S), NEW g \in [S -> Seq(T)],
           \A i \in DOMAIN s : g[s[i]] = <<>>
    PROVE  Joined(s, g) = <<>>
<1> DEFINE Q(t) == \A i \in 1..Len(t) : g[t[i]] = <<>>
           I == {m \in Nat : \A t \in Seq(S) : Len(t) = m /\ Q(t) => Joined(t, g) = <<>>}
<1>1. 0 \in I
  <2>1. ASSUME NEW t \in Seq(S), Len(t) = 0 PROVE Joined(t, g) = <<>>
    <3>1. t = <<>>
      BY <2>1
    <3> QED
      BY <3>1, JoinedEmpty
  <2> HIDE DEF Q
  <2> QED
    BY <2>1
<1>2. ASSUME NEW m \in Nat, m \in I PROVE m + 1 \in I
  <2>1. ASSUME NEW t \in Seq(S), Len(t) = m + 1, Q(t) PROVE Joined(t, g) = <<>>
    <3>1. PICK r \in Seq(S), x \in S : t = Append(r, x)
      <4>1. t # <<>>
        BY <2>1
      <4> QED
        BY <4>1, SequenceEmptyOrAppend
    <3>2. Len(r) = m /\ t[m + 1] = x /\ \A i \in 1..m : t[i] = r[i]
      BY <2>1, <3>1
    <3>3. Q(r) /\ g[x] = <<>>
      <4>1. m + 1 \in 1..Len(t) /\ 1..m \subseteq 1..Len(t)
        BY <2>1
      <4> QED
        BY <2>1, <3>2, <4>1
    <3> HIDE DEF Q
    <3>4. Joined(r, g) = <<>>
      BY <1>2, <3>2, <3>3
    <3>5. Joined(t, g) = Joined(r, g) \o g[x]
      BY <3>1, JoinedAppend
    <3>6. <<>> \o <<>> = <<>>
      OBVIOUS
    <3> QED
      BY <3>3, <3>4, <3>5, <3>6
  <2> HIDE DEF Q
  <2> QED
    BY <2>1
<1>3. I = Nat
  <2>1. I \in SUBSET Nat
    OBVIOUS
  <2> HIDE DEF I
  <2> QED
    BY <1>1, <1>2, <2>1, Induction
<1>4. Len(s) \in I /\ Q(s)
  <2>1. Len(s) \in Nat /\ DOMAIN s = 1..Len(s)
    OBVIOUS
  <2> HIDE DEF I
  <2> QED
    BY <1>3, <2>1
<1> HIDE DEF Q
<1> QED
  BY <1>4

----------------------------------------------------------------------------
(* The wire: what is read is what was written.                               *)

LEMMA NumberedIs ==
    ASSUME NEW S, NEW wire \in Seq(S), NEW n
    PROVE  /\ [w \in S |-> IF w.number = n THEN <<w>> ELSE <<>>] \in [S -> Seq(S)]
           /\ Numbered(wire, n) = Joined(wire, [w \in S |-> IF w.number = n THEN <<w>> ELSE <<>>])
<1> DEFINE g == [w \in S |-> IF w.number = n THEN <<w>> ELSE <<>>]
<1>1. g \in [S -> Seq(S)]
  <2>1. \A w \in S : (IF w.number = n THEN <<w>> ELSE <<>>) \in Seq(S)
    OBVIOUS
  <2> QED
    BY <2>1
<1>2. \A i \in DOMAIN wire : wire[i] \in S
  OBVIOUS
<1>3. [i \in DOMAIN wire |-> IF wire[i].number = n THEN <<wire[i]>> ELSE <<>>]
        = [i \in DOMAIN wire |-> g[wire[i]]]
  BY <1>2
<1> QED
  BY <1>1, <1>3 DEF Numbered, Joined

LEMMA NumberedConcat ==
    ASSUME NEW S, NEW v \in Seq(S), NEW w \in Seq(S), NEW n
    PROVE  Numbered(v \o w, n) = Numbered(v, n) \o Numbered(w, n)
<1> DEFINE g == [x \in S |-> IF x.number = n THEN <<x>> ELSE <<>>]
<1>1. v \o w \in Seq(S)
  OBVIOUS
<1>2. g \in [S -> Seq(S)]
  BY NumberedIs
<1>3. \A u \in Seq(S) : Numbered(u, n) = Joined(u, g)
  BY NumberedIs
<1> HIDE DEF g
<1>4. Joined(v \o w, g) = Joined(v, g) \o Joined(w, g)
  BY <1>2, JoinedConcat
<1> QED
  BY <1>1, <1>3, <1>4

LEMMA NumberedAll ==
    ASSUME NEW S, NEW w \in Seq(S), NEW n, \A i \in DOMAIN w : w[i].number = n
    PROVE  Numbered(w, n) = w
<1> DEFINE g == [x \in S |-> IF x.number = n THEN <<x>> ELSE <<>>]
<1>1. g \in [S -> Seq(S)] /\ Numbered(w, n) = Joined(w, g)
  BY NumberedIs
<1>2. \A i \in DOMAIN w : w[i] \in S /\ g[w[i]] = <<w[i]>>
  OBVIOUS
<1> HIDE DEF g
<1> QED
  BY <1>1, <1>2, JoinedSame

LEMMA NumberedNone ==
    ASSUME NEW S, NEW w \in Seq(S), NEW n, \A i \in DOMAIN w : w[i].number # n
    PROVE  Numbered(w, n) = <<>>
<1> DEFINE g == [x \in S |-> IF x.number = n THEN <<x>> ELSE <<>>]
<1>1. g \in [S -> Seq(S)] /\ Numbered(w, n) = Joined(w, g)
  BY NumberedIs
<1>2. \A i \in DOMAIN w : w[i] \in S /\ g[w[i]] = <<>>
  OBVIOUS
<1> HIDE DEF g
<1> QED
  BY <1>1, <1>2, JoinedNone

\* What two fields, and three, write.
LEMMA FlattenTwo == ASSUME NEW S, NEW x \in Seq(S), NEW y \in Seq(S)
                    PROVE  FlattenSeq(<<x, y>>) = x \o y
<1> DEFINE v == <<x>>
<1>1. v \in Seq(Seq(S)) /\ <<x, y>> = Append(v, y)
  OBVIOUS
<1>2. FlattenSeq(v) = x
  BY FlattenOne
<1> HIDE DEF v
<1> QED
  BY <1>1, <1>2, FlattenAppend

Three(x, y, z) == (x \o y) \o z

LEMMA FlattenThree == ASSUME NEW S, NEW x \in Seq(S), NEW y \in Seq(S), NEW z \in Seq(S)
                      PROVE  FlattenSeq(<<x, y, z>>) = Three(x, y, z) /\ Three(x, y, z) \in Seq(S)
<1> DEFINE v == <<x, y>>
<1>1. v \in Seq(Seq(S)) /\ <<x, y, z>> = Append(v, z)
  OBVIOUS
<1>2. FlattenSeq(v) = x \o y
  BY FlattenTwo
<1> HIDE DEF v
<1>3. FlattenSeq(<<x, y, z>>) = (x \o y) \o z
  BY <1>1, <1>2, FlattenAppend
<1>4. (x \o y) \o z \in Seq(S)
  OBVIOUS
<1> QED
  BY <1>3, <1>4 DEF Three

\* A map: an entry of each key.
LEMMA SetToSeqIs ==
    ASSUME NEW S, IsFiniteSet(S)
    PROVE  /\ Cardinality(S) \in Nat
           /\ SetToSeq(S) \in [1..Cardinality(S) -> S]
           /\ \A x \in S : \E i \in 1..Cardinality(S) : SetToSeq(S)[i] = x
           /\ \A i, j \in 1..Cardinality(S) : SetToSeq(S)[i] = SetToSeq(S)[j] => i = j
<1> DEFINE n == Cardinality(S)
<1>1. n \in Nat
  BY FS_CardinalityType
<1>2. \E f : f \in Bijection(1..n, S)
  BY FS_CardinalityType DEF ExistsBijection
<1>3. PICK f : f \in Bijection(1..n, S)
  BY <1>2
<1>4. f \in [1..n -> S] /\ IsInjective(f)
  BY <1>3 DEF Bijection, Injection, IsInjective
<1>5. SetToSeq(S) \in [1..n -> S] /\ IsInjective(SetToSeq(S))
  BY <1>4 DEF SetToSeq
<1>6. \A i, j \in 1..n : SetToSeq(S)[i] = SetToSeq(S)[j] => i = j
  BY <1>5 DEF IsInjective
<1>7. SetToSeq(S) \in Surjection(1..n, S)
  <2> DEFINE D == 1..n
             k == SetToSeq(S)
  <2>1. k \in Injection(D, S)
    BY <1>5, <1>6 DEF Injection
  <2>2. IsFiniteSet(D) /\ Cardinality(D) = Cardinality(S)
    BY <1>1, FS_Interval
  <2> HIDE DEF D, k, n
  <2>3. k \in Surjection(D, S)
    BY <2>1, <2>2, FS_Injection
  <2> QED
    BY <2>3 DEF D, k
<1> QED
  BY <1>1, <1>5, <1>6, <1>7 DEF Surjection

EntriesWire(map) == [i \in 1..Len(Entries(map)) |->
                        [number |-> 1, payload |-> [entry |-> Entries(map)[i]]]]
MapEntry(map) == [number : {1}, payload : [entry : {<<key, map[key]>> : key \in DOMAIN map}]]

LEMMA EntriesAre ==
    ASSUME NEW map, IsFiniteSet(DOMAIN map)
    PROVE  /\ Entries(map) \in Seq({<<key, map[key]>> : key \in DOMAIN map})
           /\ Len(Entries(map)) = Cardinality(DOMAIN map)
           /\ EntriesWire(map) \in Seq(MapEntry(map))
           /\ Len(EntriesWire(map)) = Len(Entries(map))
<1> DEFINE k == SetToSeq(DOMAIN map)
           n == Cardinality(DOMAIN map)
<1>1. n \in Nat /\ k \in [1..n -> DOMAIN map]
  BY SetToSeqIs
<1>2. Entries(map) = [i \in 1..n |-> <<k[i], map[k[i]]>>]
  BY DEF Entries
<1> HIDE DEF k, n
<1>3. Entries(map) \in Seq({<<key, map[key]>> : key \in DOMAIN map}) /\ Len(Entries(map)) = n
  BY <1>1, <1>2
<1>4. \A i \in 1..n : Entries(map)[i] \in {<<key, map[key]>> : key \in DOMAIN map}
  BY <1>1, <1>2
<1>5. EntriesWire(map) \in Seq(MapEntry(map)) /\ Len(EntriesWire(map)) = n
  <2>1. \A i \in 1..n : [number |-> 1, payload |-> [entry |-> Entries(map)[i]]] \in MapEntry(map)
    BY <1>4 DEF MapEntry
  <2>2. EntriesWire(map) = [i \in 1..n |-> [number |-> 1, payload |-> [entry |-> Entries(map)[i]]]]
    BY <1>3 DEF EntriesWire
  <2> QED
    BY <1>1, <2>1, <2>2
<1> QED
  BY <1>3, <1>5 DEF n

LEMMA EntriesOfMap ==
    ASSUME NEW map, IsMap(map)
    PROVE  WithEntries(<<>>, Entries(map)) = map
<1> DEFINE k == SetToSeq(DOMAIN map)
           n == Cardinality(DOMAIN map)
           e == Entries(map)
<1>1. /\ n \in Nat /\ k \in [1..n -> DOMAIN map]
      /\ \A x \in DOMAIN map : \E i \in 1..n : k[i] = x
      /\ \A i, j \in 1..n : k[i] = k[j] => i = j
  BY SetToSeqIs DEF IsMap
<1>2. e = [i \in 1..n |-> <<k[i], map[k[i]]>>]
  BY DEF Entries
<1> HIDE DEF k, n, e
<1>3. Keys(e) = DOMAIN map
  <2>1. DOMAIN e = 1..n /\ \A i \in 1..n : e[i][1] = k[i] /\ k[i] \in DOMAIN map
    BY <1>1, <1>2
  <2>2. \A x \in DOMAIN map : \E i \in 1..n : x = e[i][1]
    BY <1>1, <2>1
  <2>3. \A x \in Keys(e) : x \in DOMAIN map
    BY <2>1 DEF Keys
  <2>4. \A x \in DOMAIN map : x \in Keys(e)
    BY <2>1, <2>2 DEF Keys
  <2> QED
    BY <2>3, <2>4
<1>4. ASSUME NEW key \in DOMAIN map PROVE LastValue(e, key) = map[key]
  <2>1. PICK i \in 1..n : k[i] = key
    BY <1>1
  <2>2. {j \in DOMAIN e : e[j][1] = key} = {i}
    BY <1>1, <1>2, <2>1
  <2>3. Max({i}) = i
    BY <1>1 DEF Max
  <2> QED
    BY <1>2, <2>1, <2>2, <2>3 DEF LastValue
<1>5. DOMAIN <<>> \union Keys(e) = DOMAIN map
  BY <1>3
<1>6. WithEntries(<<>>, e) = [key \in DOMAIN map |-> map[key]]
  BY <1>3, <1>4, <1>5 DEF WithEntries
<1> QED
  BY <1>6 DEF IsMap, e

LEMMA SeriesWritten ==
    ASSUME NEW m, IsFiniteSet(DOMAIN m.labels)
    PROVE  SerializeThree(Series, m) = EntriesWire(m.labels) /\ Serialize(Series, m) = EntriesWire(m.labels)
<1>1. Len(Series) = 1 /\ Series[1] = LabelMap
  BY DEF Series
<1>2. Values(m, LabelMap) = Entries(m.labels)
  BY DEF Values, LabelMap, Map, Field
<1>3. \A x : Payload(SerializeTwo, LabelMap, x) = [entry |-> x]
  BY DEF Payload, LabelMap, Map, Field, IsMessage
<1>4. \A x : Payload(SerializeThree, LabelMap, x) = [entry |-> x]
  BY DEF Payload, LabelMap, Map, Field, IsMessage
<1>5. Written(SerializeTwo, m, LabelMap, 1) = EntriesWire(m.labels)
  BY <1>2, <1>3 DEF Written, EntriesWire
<1>6. Written(SerializeThree, m, LabelMap, 1) = EntriesWire(m.labels)
  BY <1>2, <1>4 DEF Written, EntriesWire
<1>7. EntriesWire(m.labels) \in Seq(MapEntry(m.labels))
  BY EntriesAre
<1>8. FlattenSeq(<<EntriesWire(m.labels)>>) = EntriesWire(m.labels)
  BY <1>7, FlattenOne
<1>9. ASSUME NEW x PROVE [n \in 1..1 |-> x] = <<x>>
  OBVIOUS
<1>10. [n \in 1..Len(Series) |-> Written(SerializeTwo, m, Series[n], n)] = <<EntriesWire(m.labels)>>
  <2>1. [n \in 1..Len(Series) |-> Written(SerializeTwo, m, Series[n], n)] = [n \in 1..1 |-> EntriesWire(m.labels)]
    BY <1>1, <1>5
  <2> QED
    BY <2>1, <1>9
<1>11. [n \in 1..Len(Series) |-> Written(SerializeThree, m, Series[n], n)] = <<EntriesWire(m.labels)>>
  <2>1. [n \in 1..Len(Series) |-> Written(SerializeThree, m, Series[n], n)] = [n \in 1..1 |-> EntriesWire(m.labels)]
    BY <1>1, <1>6
  <2> QED
    BY <2>1, <1>9
<1> QED
  BY <1>8, <1>10, <1>11 DEF SerializeThree, Serialize, Fields

\* The fields but those of a oneof are read by themselves, from their own part of the wire.
LEMMA ReadMapField ==
    ASSUME NEW object, NEW map, IsMap(map), object.labels = <<>>
    PROVE  /\ ReadThree(Series, object, EntriesWire(map)) = [labels |-> map]
           /\ MergeFromWire(Series, object, EntriesWire(map)) = [labels |-> map]
<1> DEFINE w == EntriesWire(map)
<1>1. DOMAIN Series = {1} /\ Series[1] = LabelMap
  BY DEF Series
<1>2. LabelMap.name = "labels" /\ LabelMap.label = "map"
  BY DEF LabelMap, Map, Field
<1>3. Names(Series) = {"labels"} /\ (CHOOSE n \in DOMAIN Series : Series[n].name = "labels") = 1
  BY <1>1, <1>2 DEF Names
<1>4. w \in Seq(MapEntry(map)) /\ Len(w) = Len(Entries(map)) /\ Len(w) \in Nat
      /\ Entries(map) \in Seq({<<key, map[key]>> : key \in DOMAIN map})
  BY EntriesAre DEF IsMap
<1>5. \A i \in DOMAIN w : w[i].number = 1 /\ w[i].payload.entry = Entries(map)[i]
  BY DEF EntriesWire
<1> HIDE DEF w
<1>6. Numbered(w, 1) = w
  BY <1>4, <1>5, NumberedAll
<1>7. [i \in DOMAIN w |-> w[i].payload.entry] = Entries(map)
  <2>1. DOMAIN w = DOMAIN Entries(map) /\ Entries(map) = [i \in DOMAIN Entries(map) |-> Entries(map)[i]]
    BY <1>4
  <2> QED
    BY <1>5, <2>1
<1>8. ReadField(ReadTwo, Series, 1, object, w) = map
  BY <1>1, <1>2, <1>6, <1>7, EntriesOfMap DEF ReadField
<1>9. ReadField(ReadThree, Series, 1, object, w) = map
  BY <1>1, <1>2, <1>6, <1>7, EntriesOfMap DEF ReadField
<1> DEFINE P(name) == CHOOSE n \in DOMAIN Series : Series[n].name = name
           F(n) == ReadField(ReadTwo, Series, n, object, w)
           G(n) == ReadField(ReadThree, Series, n, object, w)
<1>10. /\ ReadThree(Series, object, w) = [name \in Names(Series) |-> F(P(name))]
       /\ MergeFromWire(Series, object, w) = [name \in Names(Series) |-> G(P(name))]
  BY DEF ReadThree, MergeFromWire, ReadFields
<1>11. P("labels") = 1 /\ F(1) = map /\ G(1) = map
  BY <1>3, <1>8, <1>9
<1> HIDE DEF P, F, G
<1>12. ReadThree(Series, object, w) = [labels |-> map] /\ MergeFromWire(Series, object, w) = [labels |-> map]
  BY <1>3, <1>10, <1>11
<1> QED
  BY <1>12 DEF w

\* A number: not written when it is zero, and read as zero when it is not there.
NumberWire(n, v) == IF v # 0 THEN <<[number |-> n, payload |-> [varint |-> v]]>> ELSE <<>>
NumberField(v) == [number : {1, 2, 3}, payload : [varint : v]]

LEMMA NumberWritten ==
    ASSUME NEW m, NEW name, NEW n
    PROVE  Written(SerializeTwo, m, Number(name), n) = NumberWire(n, m[name])
<1> DEFINE f == Number(name)
           v == Values(m, f)
<1>1. f.label = "number" /\ f.name = name /\ f.zero = 0 /\ ~IsMessage(f)
  BY DEF Number, Field, IsMessage
<1> HIDE DEF f
<1>2. v = IF m[name] # 0 THEN <<m[name]>> ELSE <<>>
  BY <1>1 DEF Values, IsWritten
<1> HIDE DEF v
<1> DEFINE Q(x) == Payload(SerializeTwo, f, x)
<1>3. \A x : Q(x) = [varint |-> x]
  BY <1>1 DEF Payload
<1>4. Written(SerializeTwo, m, f, n) = [i \in 1..Len(v) |-> [number |-> n, payload |-> Q(v[i])]]
  BY DEF Written, v
<1> HIDE DEF Q
<1>5. CASE m[name] # 0
  <2>1. v = <<m[name]>> /\ Len(v) = 1 /\ v[1] = m[name]
    BY <1>2, <1>5
  <2>2. [i \in 1..Len(v) |-> [number |-> n, payload |-> Q(v[i])]]
          = <<[number |-> n, payload |-> [varint |-> m[name]]]>>
    BY <1>3, <2>1
  <2> QED
    BY <1>4, <1>5, <2>2 DEF NumberWire, f
<1>6. CASE m[name] = 0
  <2>1. v = <<>> /\ Len(v) = 0
    BY <1>2, <1>6
  <2>2. [i \in 1..Len(v) |-> [number |-> n, payload |-> Q(v[i])]] = <<>>
    BY <2>1
  <2> QED
    BY <1>4, <1>6, <2>2 DEF NumberWire, f
<1> QED
  BY <1>5, <1>6

PointWire(d) == Three(NumberWire(1, d.timestamp), NumberWire(2, d.duration), NumberWire(3, d.value))
PointValues(d) == {d.timestamp, d.duration, d.value}

LEMMA NumberWireIn ==
    ASSUME NEW V, NEW v \in V, NEW n \in {1, 2, 3}
    PROVE  NumberWire(n, v) \in Seq(NumberField(V))
<1>1. [number |-> n, payload |-> [varint |-> v]] \in NumberField(V)
  BY DEF NumberField
<1> QED
  BY <1>1 DEF NumberWire

LEMMA PointWritten ==
    ASSUME NEW d
    PROVE  /\ SerializeThree(Datapoint, d) = PointWire(d)
           /\ PointWire(d) \in Seq(NumberField(PointValues(d)))
<1> DEFINE F == NumberField(PointValues(d))
           first == NumberWire(1, d.timestamp)
           second == NumberWire(2, d.duration)
           third == NumberWire(3, d.value)
<1>1. first \in Seq(F) /\ second \in Seq(F) /\ third \in Seq(F)
  BY NumberWireIn DEF PointValues
<1>2. /\ Len(Datapoint) = 3 /\ Datapoint[1] = Number("timestamp")
      /\ Datapoint[2] = Number("duration") /\ Datapoint[3] = Number("value")
  BY DEF Datapoint
<1> DEFINE W(n) == Written(SerializeTwo, d, Datapoint[n], n)
<1>3. W(1) = first /\ W(2) = second /\ W(3) = third
  BY <1>2, NumberWritten
<1>4. SerializeThree(Datapoint, d) = FlattenSeq([n \in 1..Len(Datapoint) |-> W(n)])
  BY DEF SerializeThree, Fields
<1> HIDE DEF W, first, second, third, F
<1>5. [n \in 1..Len(Datapoint) |-> W(n)] = <<first, second, third>>
  BY <1>2, <1>3
<1>6. SerializeThree(Datapoint, d) = Three(first, second, third)
  <2>1. FlattenSeq(<<first, second, third>>) = Three(first, second, third)
    BY <1>1, FlattenThree
  <2> QED
    BY <1>4, <1>5, <2>1
<1>7. Three(first, second, third) \in Seq(F)
  BY <1>1, FlattenThree
<1> QED
  BY <1>6, <1>7 DEF PointWire, first, second, third, F

LEMMA NumberOfWire ==
    ASSUME NEW V, NEW v \in V, NEW n \in {1, 2, 3}, NEW m \in {1, 2, 3}
    PROVE  Numbered(NumberWire(n, v), m) = IF n = m THEN NumberWire(n, v) ELSE <<>>
<1> DEFINE w == NumberWire(n, v)
<1>1. w \in Seq(NumberField(V))
  BY NumberWireIn
<1>2. \A i \in DOMAIN w : w[i].number = n
  BY DEF NumberWire
<1> HIDE DEF w
<1>3. n = m => Numbered(w, m) = w
  BY <1>1, <1>2, NumberedAll
<1>4. n # m => Numbered(w, m) = <<>>
  BY <1>1, <1>2, NumberedNone
<1> QED
  BY <1>3, <1>4 DEF w

LEMMA NumberedThree ==
    ASSUME NEW S, NEW x \in Seq(S), NEW y \in Seq(S), NEW z \in Seq(S), NEW m
    PROVE  Numbered(Three(x, y, z), m) = Three(Numbered(x, m), Numbered(y, m), Numbered(z, m))
<1>1. x \o y \in Seq(S)
  OBVIOUS
<1>2. Numbered(x \o y, m) = Numbered(x, m) \o Numbered(y, m)
  BY NumberedConcat
<1> DEFINE xy == x \o y
<1> HIDE DEF xy
<1>3. xy \in Seq(S)
  BY <1>1 DEF xy
<1>4. Numbered(xy \o z, m) = Numbered(xy, m) \o Numbered(z, m)
  BY <1>3, NumberedConcat, SMTT(30)
<1> QED
  BY <1>2, <1>4 DEF xy, Three

LEMMA NumbersOfPoint ==
    ASSUME NEW d
    PROVE  /\ Numbered(PointWire(d), 1) = NumberWire(1, d.timestamp)
           /\ Numbered(PointWire(d), 2) = NumberWire(2, d.duration)
           /\ Numbered(PointWire(d), 3) = NumberWire(3, d.value)
<1> DEFINE V == PointValues(d)
           F == NumberField(V)
           first == NumberWire(1, d.timestamp)
           second == NumberWire(2, d.duration)
           third == NumberWire(3, d.value)
<1>1. first \in Seq(F) /\ second \in Seq(F) /\ third \in Seq(F)
  BY NumberWireIn DEF PointValues
<1>3. d.timestamp \in V /\ d.duration \in V /\ d.value \in V
  BY DEF PointValues
<1> HIDE DEF V, F
<1>4. \A m \in {1, 2, 3} : /\ Numbered(first, m) = IF m = 1 THEN first ELSE <<>>
                           /\ Numbered(second, m) = IF m = 2 THEN second ELSE <<>>
                           /\ Numbered(third, m) = IF m = 3 THEN third ELSE <<>>
  BY <1>3, NumberOfWire
<1> HIDE DEF first, second, third
<1>7. \A m \in {1, 2, 3} : Numbered(Three(first, second, third), m) = Three(Numbered(first, m), Numbered(second, m), Numbered(third, m))
  BY <1>1, NumberedThree
<1>8. /\ Three(first, <<>>, <<>>) = first /\ Three(<<>>, second, <<>>) = second
      /\ Three(<<>>, <<>>, third) = third
  BY <1>1 DEF Three
<1>9. /\ Numbered(Three(first, second, third), 1) = first /\ Numbered(Three(first, second, third), 2) = second
      /\ Numbered(Three(first, second, third), 3) = third
  BY <1>4, <1>7, <1>8
<1> QED
  BY <1>9 DEF PointWire, first, second, third

LEMMA ReadPoint ==
    ASSUME NEW d
    PROVE  ReadThree(Datapoint, Cleared(Datapoint), PointWire(d))
             = [timestamp |-> d.timestamp, duration |-> d.duration, value |-> d.value]
<1> DEFINE w == PointWire(d)
           o == Cleared(Datapoint)
           P(name) == CHOOSE n \in DOMAIN Datapoint : Datapoint[n].name = name
           F(n) == ReadField(ReadTwo, Datapoint, n, o, w)
<1>1. /\ DOMAIN Datapoint = {1, 2, 3} /\ Datapoint[1] = Number("timestamp")
      /\ Datapoint[2] = Number("duration") /\ Datapoint[3] = Number("value")
  BY DEF Datapoint
<1>2. \A name : Number(name).name = name /\ Number(name).label = "number" /\ Number(name).zero = 0
                /\ ~IsMessage(Number(name))
  BY DEF Number, Field, IsMessage
<1>3. Names(Datapoint) = {"timestamp", "duration", "value"}
  BY <1>1, <1>2 DEF Names
<1>4. P("timestamp") = 1 /\ P("duration") = 2 /\ P("value") = 3
  BY <1>1, <1>2
<1>5. o.timestamp = 0 /\ o.duration = 0 /\ o.value = 0
  BY <1>1, <1>2, <1>3, <1>4 DEF Cleared, FieldOf
<1>6. ReadThree(Datapoint, o, w) = [name \in Names(Datapoint) |-> F(P(name))]
  BY DEF ReadThree, ReadFields
<1> HIDE DEF P, w, o
<1>7. ASSUME NEW n \in {1, 2, 3}, NEW v, Numbered(w, n) = NumberWire(n, v), o[Datapoint[n].name] = 0
      PROVE  F(n) = v
  <2> DEFINE f == Datapoint[n]
             mine == Numbered(w, n)
  <2>1. f.label = "number" /\ ~IsMessage(f) /\ o[f.name] = 0
    BY <1>1, <1>2, <1>7
  <2>2. F(n) = IF mine = <<>> THEN o[f.name] ELSE Plain(f, mine[Len(mine)].payload)
    BY <2>1 DEF ReadField
  <2>3. \A p : Plain(f, p) = p.varint
    BY <2>1 DEF Plain
  <2> HIDE DEF F, f
  <2>4. CASE v = 0
    <3>1. mine = <<>>
      BY <1>7, <2>4 DEF NumberWire
    <3> QED
      BY <2>1, <2>2, <2>4, <3>1
  <2>5. CASE v # 0
    <3>1. mine = <<[number |-> n, payload |-> [varint |-> v]]>>
      BY <1>7, <2>5 DEF NumberWire
    <3> HIDE DEF mine
    <3>2. mine # <<>> /\ mine[Len(mine)].payload.varint = v
      BY <3>1
    <3> QED
      BY <2>2, <2>3, <3>2
  <2> QED
    BY <2>4, <2>5
<1>8. /\ Numbered(w, 1) = NumberWire(1, d.timestamp) /\ Numbered(w, 2) = NumberWire(2, d.duration)
      /\ Numbered(w, 3) = NumberWire(3, d.value)
  BY NumbersOfPoint DEF w
<1> HIDE DEF F
<1>9. F(1) = d.timestamp /\ F(2) = d.duration /\ F(3) = d.value
  <2>1. Datapoint[1].name = "timestamp" /\ Datapoint[2].name = "duration" /\ Datapoint[3].name = "value"
    BY <1>1, <1>2
  <2> QED
    BY <1>5, <1>7, <1>8, <2>1
<1>10. ReadThree(Datapoint, o, w) = [timestamp |-> d.timestamp, duration |-> d.duration, value |-> d.value]
  BY <1>3, <1>4, <1>6, <1>9
<1> QED
  BY <1>10 DEF o, w

----------------------------------------------------------------------------
(* The message of a record.                                                  *)

Records == {line \in Lines : line.kind = "record"}
Point == [ts : Int, dur : Int, val : Int]
Message(line) == [series |-> [labels |-> line.labels], datapoints |-> Points(line)]
WireOf(line) == Serialize(WriteOperation, Message(line))

LEMMA RecordsAre == \A line \in Records : /\ IsMap(line.labels) /\ [labels |-> line.labels] # Unset
                                          /\ line.points \in Seq(Point)
  BY LinesAssumption DEF Records, Point

SeriesPart(labels) == <<[number |-> 1, payload |-> [message |-> EntriesWire(labels)]]>>
PointsPart(ds) == [i \in 1..Len(ds) |-> [number |-> 2, payload |-> [message |-> PointWire(ds[i])]]]
Part(labels, ds) == {SeriesPart(labels)[1]} \union {PointsPart(ds)[i] : i \in 1..Len(ds)}

LEMMA PartsAre ==
    ASSUME NEW labels, NEW ds, Len(ds) \in Nat
    PROVE  SeriesPart(labels) \in Seq(Part(labels, ds)) /\ PointsPart(ds) \in Seq(Part(labels, ds))
<1> DEFINE s == SeriesPart(labels)
           p == PointsPart(ds)
           a == s[1]
           P == {p[i] : i \in 1..Len(ds)}
<1>1. s = <<a>>
  BY DEF SeriesPart
<1>2. p = [i \in 1..Len(ds) |-> p[i]]
  BY DEF PointsPart
<1>3. Part(labels, ds) = {a} \union P
  BY DEF Part
<1> HIDE DEF s, p
<1>4. <<a>> \in Seq({a} \union P)
  OBVIOUS
<1>5. \A i \in 1..Len(ds) : p[i] \in {a} \union P
  OBVIOUS
<1> HIDE DEF a, P
<1>6. s \in Seq(Part(labels, ds))
  BY <1>1, <1>3, <1>4
<1>7. p \in Seq(Part(labels, ds))
  BY <1>2, <1>3, <1>5
<1> QED
  BY <1>6, <1>7 DEF s, p

LEMMA MessageWritten ==
    ASSUME NEW m, Len(m.datapoints) \in Nat, IsFiniteSet(DOMAIN m.series.labels), m.series # Unset
    PROVE  Serialize(WriteOperation, m) = SeriesPart(m.series.labels) \o PointsPart(m.datapoints)
<1> DEFINE ds == m.datapoints
           labels == m.series.labels
           W(n) == Written(SerializeThree, m, WriteOperation[n], n)
           Q(f, x) == Payload(SerializeThree, f, x)
<1>1. Len(WriteOperation) = 2 /\ WriteOperation[1] = OfSeries /\ WriteOperation[2] = Datapoints
  BY DEF WriteOperation
<1>2. /\ OfSeries.label = "message" /\ OfSeries.name = "series" /\ OfSeries.type = Series /\ IsMessage(OfSeries)
      /\ Datapoints.label = "repeated" /\ Datapoints.name = "datapoints" /\ Datapoints.type = Datapoint
      /\ IsMessage(Datapoints)
  BY DEF OfSeries, Datapoints, One, Many, Field, IsMessage, NoFields, Series, Datapoint
<1>3. Q(OfSeries, m.series) = [message |-> EntriesWire(labels)]
  <2>1. Q(OfSeries, m.series) = [message |-> SerializeThree(Series, m.series)]
    BY <1>2 DEF Payload
  <2> QED
    BY <2>1, SeriesWritten
<1>4. \A d : Q(Datapoints, d) = [message |-> PointWire(d)]
  <2> TAKE d
  <2>1. Q(Datapoints, d) = [message |-> SerializeThree(Datapoint, d)]
    BY <1>2 DEF Payload
  <2> QED
    BY <2>1, PointWritten
<1>5. Values(m, OfSeries) = <<m.series>> /\ Values(m, Datapoints) = ds
  BY <1>2 DEF Values, IsWritten
<1>6. /\ \A f, n : Written(SerializeThree, m, f, n)
                     = [i \in 1..Len(Values(m, f)) |-> [number |-> n, payload |-> Q(f, Values(m, f)[i])]]
      /\ Serialize(WriteOperation, m) = FlattenSeq([n \in 1..Len(WriteOperation) |-> W(n)])
  BY DEF Written, Serialize, Fields
<1>7. /\ W(1) = [i \in 1..Len(Values(m, OfSeries)) |-> [number |-> 1, payload |-> Q(OfSeries, Values(m, OfSeries)[i])]]
      /\ W(2) = [i \in 1..Len(Values(m, Datapoints)) |-> [number |-> 2, payload |-> Q(Datapoints, Values(m, Datapoints)[i])]]
  BY <1>1, <1>6
<1> HIDE DEF Q, W
<1>8. W(1) = SeriesPart(labels)
  <2>1. W(1) = [i \in 1..1 |-> [number |-> 1, payload |-> Q(OfSeries, m.series)]]
    BY <1>5, <1>7
  <2> QED
    BY <1>3, <2>1 DEF SeriesPart
<1>9. W(2) = PointsPart(ds)
  <2>1. W(2) = [i \in 1..Len(ds) |-> [number |-> 2, payload |-> Q(Datapoints, ds[i])]]
    BY <1>5, <1>7
  <2> QED
    BY <1>4, <2>1 DEF PointsPart
<1>10. [n \in 1..Len(WriteOperation) |-> W(n)] = <<SeriesPart(labels), PointsPart(ds)>>
  BY <1>1, <1>8, <1>9
<1>11. FlattenSeq(<<SeriesPart(labels), PointsPart(ds)>>) = SeriesPart(labels) \o PointsPart(ds)
  BY PartsAre, FlattenTwo
<1> QED
  BY <1>6, <1>10, <1>11

LEMMA PartsNumbered ==
    ASSUME NEW labels, NEW ds, Len(ds) \in Nat
    PROVE  /\ Numbered(SeriesPart(labels) \o PointsPart(ds), 1) = SeriesPart(labels)
           /\ Numbered(SeriesPart(labels) \o PointsPart(ds), 2) = PointsPart(ds)
<1> DEFINE s == SeriesPart(labels)
           p == PointsPart(ds)
           E == Part(labels, ds)
<1>1. s \in Seq(E) /\ p \in Seq(E)
  BY PartsAre
<1>2. (\A i \in DOMAIN s : s[i].number = 1) /\ (\A i \in DOMAIN p : p[i].number = 2)
  BY DEF SeriesPart, PointsPart
<1> HIDE DEF s, p, E
<1>3. Numbered(s, 1) = s /\ Numbered(p, 2) = p
  BY <1>1, <1>2, NumberedAll
<1>4. Numbered(s, 2) = <<>> /\ Numbered(p, 1) = <<>>
  BY <1>1, <1>2, NumberedNone
<1>5. \A n : Numbered(s \o p, n) = Numbered(s, n) \o Numbered(p, n)
  BY <1>1, NumberedConcat
<1>6. s \o <<>> = s /\ <<>> \o p = p
  BY <1>1
<1> QED
  BY <1>3, <1>4, <1>5, <1>6 DEF s, p

LEMMA MessageRead ==
    ASSUME NEW labels, NEW ds, NEW object, Len(ds) \in Nat, IsMap(labels)
    PROVE  Read(WriteOperation, object, SeriesPart(labels) \o PointsPart(ds))
             = [series |-> [labels |-> labels],
                datapoints |-> [i \in 1..Len(ds) |-> [timestamp |-> ds[i].timestamp,
                                    duration |-> ds[i].duration, value |-> ds[i].value]]]
<1> DEFINE w == SeriesPart(labels) \o PointsPart(ds)
           o == Cleared(WriteOperation)
           P(name) == CHOOSE n \in DOMAIN WriteOperation : WriteOperation[n].name = name
           F(n) == ReadField(ReadThree, WriteOperation, n, o, w)
           R(f, x, wires) == ReadMessage(ReadThree, f, x, wires)
           points == [i \in 1..Len(ds) |-> [timestamp |-> ds[i].timestamp,
                                    duration |-> ds[i].duration, value |-> ds[i].value]]
<1>1. DOMAIN WriteOperation = {1, 2} /\ WriteOperation[1] = OfSeries /\ WriteOperation[2] = Datapoints
  BY DEF WriteOperation
<1>2. /\ OfSeries.label = "message" /\ OfSeries.name = "series" /\ OfSeries.type = Series /\ IsMessage(OfSeries)
      /\ OfSeries.zero = Unset /\ Datapoints.zero = <<>>
      /\ Datapoints.label = "repeated" /\ Datapoints.name = "datapoints" /\ Datapoints.type = Datapoint
      /\ IsMessage(Datapoints)
  BY DEF OfSeries, Datapoints, One, Many, Field, IsMessage, NoFields, Series, Datapoint
<1>3. Names(WriteOperation) = {"series", "datapoints"}
  BY <1>1, <1>2 DEF Names
<1>4. P("series") = 1 /\ P("datapoints") = 2
  BY <1>1, <1>2
<1>5. o.series = Unset /\ o.datapoints = <<>>
  BY <1>1, <1>2, <1>3, <1>4 DEF Cleared, FieldOf
<1>6. Read(WriteOperation, object, w) = [name \in Names(WriteOperation) |-> F(P(name))]
  BY DEF Read, MergeFromWire, ReadFields
<1>7. Numbered(w, 1) = SeriesPart(labels) /\ Numbered(w, 2) = PointsPart(ds)
  BY PartsNumbered
<1>8. R(OfSeries, Unset, <<EntriesWire(labels)>>) = [labels |-> labels]
  <2>1. R(OfSeries, Unset, <<EntriesWire(labels)>>)
          = ReadThree(Series, Cleared(Series), FlattenSeq(<<EntriesWire(labels)>>))
    BY <1>2 DEF ReadMessage
  <2>2. FlattenSeq(<<EntriesWire(labels)>>) = EntriesWire(labels)
    BY EntriesAre, FlattenOne DEF IsMap
  <2>3. Cleared(Series).labels = <<>>
    <3>1. DOMAIN Series = {1} /\ Series[1].name = "labels" /\ Series[1].zero = <<>>
      BY DEF Series, LabelMap, Map, Field
    <3> QED
      BY <3>1 DEF Cleared, Names, FieldOf
  <2> QED
    BY <2>1, <2>2, <2>3, ReadMapField
<1>9. \A i \in 1..Len(ds) : R(Datapoints, Unset, <<PointWire(ds[i])>>)
          = [timestamp |-> ds[i].timestamp, duration |-> ds[i].duration, value |-> ds[i].value]
  <2> TAKE i \in 1..Len(ds)
  <2>1. R(Datapoints, Unset, <<PointWire(ds[i])>>)
          = ReadThree(Datapoint, Cleared(Datapoint), FlattenSeq(<<PointWire(ds[i])>>))
    BY <1>2 DEF ReadMessage
  <2>2. FlattenSeq(<<PointWire(ds[i])>>) = PointWire(ds[i])
    BY PointWritten, FlattenOne
  <2> QED
    BY <2>1, <2>2, ReadPoint
<1> HIDE DEF w, o
<1>10. F(1) = [labels |-> labels]
  <2> DEFINE mine == Numbered(w, 1)
             messages == [i \in DOMAIN mine |-> mine[i].payload.message]
  <2>1. F(1) = IF mine = <<>> THEN o.series ELSE R(OfSeries, o.series, messages)
    BY <1>1, <1>2 DEF ReadField
  <2>2. mine # <<>> /\ messages = <<EntriesWire(labels)>>
    BY <1>7 DEF SeriesPart
  <2> HIDE DEF R, F, mine, messages
  <2> QED
    BY <1>5, <1>8, <2>1, <2>2
<1>11. F(2) = points
  <2> DEFINE mine == Numbered(w, 2)
             messages == [i \in DOMAIN mine |-> mine[i].payload.message]
             read == [i \in DOMAIN mine |-> R(Datapoints, Unset, <<messages[i]>>)]
  <2>1. F(2) = o.datapoints \o read
    BY <1>1, <1>2 DEF ReadField
  <2>2. DOMAIN mine = 1..Len(ds) /\ \A i \in 1..Len(ds) : mine[i].payload.message = PointWire(ds[i])
    BY <1>7 DEF PointsPart
  <2>3. \A i \in 1..Len(ds) : messages[i] = PointWire(ds[i])
    BY <2>2
  <2> HIDE DEF R, mine, messages
  <2>4. read = points
    BY <1>9, <2>2, <2>3
  <2>5. <<>> \o points = points
    <3>1. points \in Seq({points[i] : i \in 1..Len(ds)})
      OBVIOUS
    <3> HIDE DEF points
    <3> QED
      BY <3>1
  <2> HIDE DEF F, read, points
  <2> QED
    BY <1>5, <2>1, <2>4, <2>5
<1> HIDE DEF F, P
<1> QED
  BY <1>3, <1>4, <1>6, <1>10, <1>11 DEF w

\* Whatever object it is composed in or read into, the message is the record's.
LEMMA RecordArrives ==
    ASSUME NEW line \in Records, NEW object
    PROVE  /\ Composed(object, line) = Message(line)
           /\ Read(WriteOperation, object, WireOf(line)) = Message(line)
           /\ LabelsOf(Message(line).series) = line.labels
           /\ PointsOf(Message(line).datapoints) = line.points
<1>1. IsMap(line.labels) /\ [labels |-> line.labels] # Unset /\ line.points \in Seq(Point)
  BY RecordsAre
<1> DEFINE ps == line.points
           ds == Points(line)
           n == Len(ps)
<1>2. n \in Nat /\ DOMAIN ps = 1..n /\ \A i \in 1..n : ps[i] \in Point
  BY <1>1
<1>3. ds = [i \in 1..n |-> [timestamp |-> ps[i].ts, duration |-> ps[i].dur, value |-> ps[i].val]]
  BY <1>2 DEF Points
<1>4. DOMAIN ds = 1..n /\ Len(ds) = n /\ ds \in Seq({ds[i] : i \in 1..n})
  <2>1. DOMAIN ds = 1..n /\ ds = [i \in 1..n |-> ds[i]]
    BY <1>3
  <2> HIDE DEF ds
  <2>2. \A i \in 1..n : ds[i] \in {ds[j] : j \in 1..n}
    OBVIOUS
  <2> HIDE DEF n
  <2> QED
    BY <1>2, <2>1, <2>2
<1>5. Cleared(WriteOperation) = [series |-> Unset, datapoints |-> <<>>]
  <2>1. /\ DOMAIN WriteOperation = {1, 2} /\ WriteOperation[1] = OfSeries /\ WriteOperation[2] = Datapoints
        /\ OfSeries.name = "series" /\ OfSeries.zero = Unset
        /\ Datapoints.name = "datapoints" /\ Datapoints.zero = <<>>
    BY DEF WriteOperation, OfSeries, Datapoints, One, Many, Field
  <2>2. Names(WriteOperation) = {"series", "datapoints"}
    BY <2>1 DEF Names
  <2>3. FieldOf(WriteOperation, "series").zero = Unset /\ FieldOf(WriteOperation, "datapoints").zero = <<>>
    BY <2>1 DEF FieldOf
  <2> QED
    BY <2>2, <2>3 DEF Cleared
<1>6. Composed(object, line) = Message(line)
  <2> HIDE DEF ds
  <2>1. <<>> \o ds = ds /\ Points(line) = ds
    BY <1>4 DEF ds
  <2> DEFINE c == Cleared(WriteOperation)
             longer == c.datapoints \o Points(line)
  <2>2. c = [series |-> Unset, datapoints |-> <<>>] /\ longer = ds
    BY <1>5, <2>1
  <2>3. Composed(object, line) = [c EXCEPT !.series = [labels |-> line.labels], !.datapoints = longer]
    BY DEF Composed
  <2> HIDE DEF c, longer
  <2> QED
    BY <2>1, <2>2, <2>3 DEF Message
<1>7. Read(WriteOperation, object, WireOf(line)) = Message(line)
  <2> DEFINE m == Message(line)
  <2>1. m.datapoints = ds /\ m.series.labels = line.labels /\ m.series = [labels |-> line.labels]
    BY DEF Message
  <2> HIDE DEF ds, m
  <2>2. Serialize(WriteOperation, m) = SeriesPart(line.labels) \o PointsPart(ds)
    BY <1>1, <1>2, <1>4, <2>1, MessageWritten DEF IsMap
  <2> DEFINE read == [i \in 1..Len(ds) |-> [timestamp |-> ds[i].timestamp, duration |-> ds[i].duration,
                                           value |-> ds[i].value]]
  <2>3. Read(WriteOperation, object, SeriesPart(line.labels) \o PointsPart(ds))
          = [series |-> [labels |-> line.labels], datapoints |-> read]
    BY <1>1, <1>2, <1>4, MessageRead
  <2>4. read = ds
    BY <1>3, <1>4
  <2> QED
    BY <2>2, <2>3, <2>4 DEF WireOf, Message, m, ds
<1>8. LabelsOf(Message(line).series) = line.labels
  BY <1>1 DEF LabelsOf, Message
<1>9. PointsOf(Message(line).datapoints) = ps
  <2>1. PointsOf(ds) = [i \in 1..n |-> [ts |-> ps[i].ts, dur |-> ps[i].dur, val |-> ps[i].val]]
    <3>1. \A i \in 1..n : ds[i].timestamp = ps[i].ts /\ ds[i].duration = ps[i].dur /\ ds[i].value = ps[i].val
      BY <1>3
    <3> HIDE DEF ds
    <3> QED
      BY <1>4, <3>1 DEF PointsOf
  <2>2. \A i \in 1..n : ps[i] = [ts |-> ps[i].ts, dur |-> ps[i].dur, val |-> ps[i].val]
    BY <1>2 DEF Point
  <2>3. ps = [i \in 1..n |-> ps[i]]
    BY <1>1, <1>2
  <2>4. Message(line).datapoints = ds
    BY DEF Message
  <2> HIDE DEF ds, ps
  <2> QED
    BY <2>1, <2>2, <2>3, <2>4
<1> QED
  BY <1>6, <1>7, <1>8, <1>9

LEMMA KeptIn == ASSUME NEW ps \in Seq(Point)
                PROVE  Kept(ps) \in Seq(Point) /\ Kept(<<>>) = <<>>
<1> DEFINE g == [p \in Point |-> IF p.val = NaN THEN <<>> ELSE <<p>>]
<1>1. g \in [Point -> Seq(Point)]
  <2>1. \A p \in Point : (IF p.val = NaN THEN <<>> ELSE <<p>>) \in Seq(Point)
    OBVIOUS
  <2> QED
    BY <2>1
<1>2. [i \in DOMAIN ps |-> IF ps[i].val = NaN THEN <<>> ELSE <<ps[i]>>] = [i \in DOMAIN ps |-> g[ps[i]]]
  BY \A i \in DOMAIN ps : ps[i] \in Point
<1>3. Kept(ps) = Joined(ps, g)
  BY <1>2 DEF Kept, Joined
<1> HIDE DEF g
<1>4. Kept(<<>>) = <<>>
  <2>1. [i \in DOMAIN <<>> |-> IF <<>>[i].val = NaN THEN <<>> ELSE <<(<<>>[i])>>] = <<>>
    OBVIOUS
  <2> QED
    BY <2>1, FlattenEmpty DEF Kept
<1>5. Joined(ps, g) \in Seq(Point)
  BY <1>1, EachIn
<1> QED
  BY <1>3, <1>4, <1>5

----------------------------------------------------------------------------
(* What is stored, with what is on its way, is what was given.               *)

Wires == {WireOf(line) : line \in Records}
Of(labels) == [line \in Records |-> IF line.labels = labels THEN Kept(line.points) ELSE <<>>]
KeptOf(labels, wire) ==
    LET op == Read(WriteOperation, Cleared(WriteOperation), wire)
    IN  IF LabelsOf(op.series) = labels THEN Kept(PointsOf(op.datapoints)) ELSE <<>>
Arriving(labels) == [wire \in Wires |-> KeptOf(labels, wire)]

LEMMA KeptOfRecord ==
    ASSUME NEW line \in Records, NEW labels
    PROVE  KeptOf(labels, WireOf(line)) = Of(labels)[line] /\ Of(labels)[line] \in Seq(Point)
<1>1. Of(labels)[line] = IF line.labels = labels THEN Kept(line.points) ELSE <<>>
  BY DEF Of
<1>2. Kept(line.points) \in Seq(Point) /\ <<>> \in Seq(Point)
  BY RecordsAre, KeptIn
<1>3. KeptOf(labels, WireOf(line)) = IF line.labels = labels THEN Kept(line.points) ELSE <<>>
  BY RecordArrives DEF KeptOf
<1> QED
  BY <1>1, <1>2, <1>3

LEMMA PointFunctions ==
    ASSUME NEW labels
    PROVE  Of(labels) \in [Records -> Seq(Point)] /\ Arriving(labels) \in [Wires -> Seq(Point)]
<1>1. Of(labels) \in [Records -> Seq(Point)]
  BY KeptOfRecord DEF Of
<1>2. \A wire \in Wires : KeptOf(labels, wire) \in Seq(Point)
  BY KeptOfRecord DEF Wires
<1> QED
  BY <1>1, <1>2 DEF Arriving

StoredIn(s, labels) == IF labels \in DOMAIN s THEN s[labels] ELSE <<>>
With(s, labels, points) == [l \in DOMAIN s \union {labels} |-> IF l = labels THEN points ELSE s[l]]

\* Lines given, wires on their way and what is stored; and that nothing is lost between
\* them, for any labels and not just for those met so far.
Streamed(gs, ws, s) == /\ gs \in Seq(Records) /\ ws \in Seq(Wires)
                       /\ \A labels \in DOMAIN s : s[labels] \in Seq(Point)
Balanced(gs, ws, s) ==
    /\ <<>> \notin DOMAIN s
    /\ \A labels : labels # <<>> =>
          StoredIn(s, labels) \o Joined(ws, Arriving(labels)) = Joined(gs, Of(labels))

LEMMA StreamedIn ==
    ASSUME NEW gs, NEW ws, NEW s, Streamed(gs, ws, s), NEW labels
    PROVE  /\ StoredIn(s, labels) \in Seq(Point) /\ Joined(ws, Arriving(labels)) \in Seq(Point)
           /\ Joined(gs, Of(labels)) \in Seq(Point)
<1>1. Of(labels) \in [Records -> Seq(Point)] /\ Arriving(labels) \in [Wires -> Seq(Point)]
  BY PointFunctions
<1>2. gs \in Seq(Records) /\ ws \in Seq(Wires)
  BY DEF Streamed
<1>3. Joined(ws, Arriving(labels)) \in Seq(Point)
  BY <1>1, <1>2, EachIn
<1>4. Joined(gs, Of(labels)) \in Seq(Point)
  BY <1>1, <1>2, EachIn
<1>5. StoredIn(s, labels) \in Seq(Point)
  BY DEF Streamed, StoredIn
<1> QED
  BY <1>3, <1>4, <1>5

\* A record is sent, and one without points is not.
LEMMA RecordSent ==
    ASSUME NEW gs, NEW ws, NEW s, Streamed(gs, ws, s), Balanced(gs, ws, s), NEW line \in Records
    PROVE  Streamed(Append(gs, line), Append(ws, WireOf(line)), s)
           /\ Balanced(Append(gs, line), Append(ws, WireOf(line)), s)
<1> DEFINE wire == WireOf(line)
<1>1. gs \in Seq(Records) /\ ws \in Seq(Wires) /\ wire \in Wires
  BY DEF Streamed, Wires
<1> HIDE DEF wire
<1>2. Streamed(Append(gs, line), Append(ws, wire), s)
  BY <1>1 DEF Streamed
<1>3. ASSUME NEW labels, labels # <<>>
      PROVE  StoredIn(s, labels) \o Joined(Append(ws, wire), Arriving(labels)) = Joined(Append(gs, line), Of(labels))
  <2> DEFINE a == StoredIn(s, labels)
             b == Joined(ws, Arriving(labels))
             c == Of(labels)[line]
  <2>1. Of(labels) \in [Records -> Seq(Point)] /\ Arriving(labels) \in [Wires -> Seq(Point)]
    BY PointFunctions
  <2>2. Joined(Append(ws, wire), Arriving(labels)) = b \o Arriving(labels)[wire]
    BY <1>1, <2>1, JoinedAppend
  <2>3. Joined(Append(gs, line), Of(labels)) = Joined(gs, Of(labels)) \o c
    BY <1>1, <2>1, JoinedAppend
  <2>4. Arriving(labels)[wire] = c /\ c \in Seq(Point)
    BY <1>1, KeptOfRecord DEF Arriving, wire
  <2>5. a \in Seq(Point) /\ b \in Seq(Point)
    BY StreamedIn
  <2>6. a \o b = Joined(gs, Of(labels))
    BY <1>3 DEF Balanced
  <2> HIDE DEF a, b, c
  <2>7. a \o (b \o c) = (a \o b) \o c
    BY <2>4, <2>5
  <2> QED
    BY <2>2, <2>3, <2>4, <2>6, <2>7 DEF a
<1> QED
  BY <1>2, <1>3 DEF Balanced, wire

LEMMA RecordNotSent ==
    ASSUME NEW gs, NEW ws, NEW s, Streamed(gs, ws, s), Balanced(gs, ws, s),
           NEW line \in Records, line.points = <<>>
    PROVE  Streamed(Append(gs, line), ws, s) /\ Balanced(Append(gs, line), ws, s)
<1>1. Streamed(Append(gs, line), ws, s)
  BY DEF Streamed
<1>2. ASSUME NEW labels PROVE Joined(Append(gs, line), Of(labels)) = Joined(gs, Of(labels))
  <2>1. Joined(Append(gs, line), Of(labels)) = Joined(gs, Of(labels)) \o Of(labels)[line]
    BY PointFunctions, JoinedAppend DEF Streamed
  <2>2. Of(labels)[line] = <<>>
    BY RecordsAre, KeptIn DEF Of
  <2>3. Joined(gs, Of(labels)) \in Seq(Point)
    BY StreamedIn
  <2> QED
    BY <2>1, <2>2, <2>3
<1> QED
  BY <1>1, <1>2 DEF Balanced

\* A message is read and stored.
LEMMA MessageStored ==
    ASSUME NEW gs, NEW ws, NEW s, Streamed(gs, ws, s), Balanced(gs, ws, s),
           NEW line \in Records, ws # <<>>, Head(ws) = WireOf(line),
           NEW t, t = IF line.labels # <<>>
                      THEN With(s, line.labels, StoredIn(s, line.labels) \o Kept(line.points)) ELSE s
    PROVE  Streamed(gs, Tail(ws), t) /\ Balanced(gs, Tail(ws), t)
<1> DEFINE own == line.labels
           ps == Kept(line.points)
<1>1. gs \in Seq(Records) /\ ws \in Seq(Wires) /\ Tail(ws) \in Seq(Wires) /\ WireOf(line) \in Wires
  BY DEF Streamed, Wires
<1>2. ps \in Seq(Point) /\ StoredIn(s, own) \in Seq(Point)
  BY RecordsAre, KeptIn, StreamedIn
<1>3. \A labels : labels # <<>> => StoredIn(t, labels) = IF labels = own THEN StoredIn(s, own) \o ps
                                                                       ELSE StoredIn(s, labels)
  BY DEF StoredIn, With
<1>4. DOMAIN t = IF own # <<>> THEN {own} \union DOMAIN s ELSE DOMAIN s
  BY DEF With
<1> HIDE DEF ps
<1>5. \A labels \in DOMAIN t : t[labels] \in Seq(Point)
  <2>1. <<>> \notin DOMAIN s
    BY DEF Balanced
  <2>2. \A labels \in DOMAIN t : labels # <<>> /\ t[labels] = StoredIn(t, labels)
    BY <1>4, <2>1 DEF StoredIn
  <2>3. StoredIn(s, own) \o ps \in Seq(Point)
    BY <1>2
  <2>4. \A labels : StoredIn(s, labels) \in Seq(Point)
    BY StreamedIn
  <2> SUFFICES ASSUME NEW labels \in DOMAIN t PROVE t[labels] \in Seq(Point)
    OBVIOUS
  <2> DEFINE a == StoredIn(t, labels)
  <2>5. t[labels] = a /\ a = IF labels = own THEN StoredIn(s, own) \o ps ELSE StoredIn(s, labels)
    BY <1>3, <2>2
  <2> HIDE DEF a
  <2> QED
    BY <2>3, <2>4, <2>5
<1>6. Streamed(gs, Tail(ws), t)
  BY <1>1, <1>5 DEF Streamed
<1>7. ASSUME NEW labels, labels # <<>>
      PROVE  StoredIn(t, labels) \o Joined(Tail(ws), Arriving(labels)) = Joined(gs, Of(labels))
  <2> DEFINE a == StoredIn(s, labels)
             b == Joined(Tail(ws), Arriving(labels))
             c == Of(labels)[line]
  <2>1. Arriving(labels) \in [Wires -> Seq(Point)]
    BY PointFunctions
  <2>2. Joined(ws, Arriving(labels)) = Arriving(labels)[Head(ws)] \o b
    BY <1>1, <2>1, JoinedHead
  <2>3. Arriving(labels)[Head(ws)] = c /\ c \in Seq(Point)
    BY <1>1, KeptOfRecord DEF Arriving
  <2>4. a \in Seq(Point) /\ b \in Seq(Point)
    BY <1>6, StreamedIn
  <2>5. a \o Joined(ws, Arriving(labels)) = Joined(gs, Of(labels))
    BY <1>7 DEF Balanced
  <2>6. c = IF own = labels THEN ps ELSE <<>>
    BY DEF Of, ps
  <2>7. StoredIn(t, labels) = a \o c
    <3>1. a \o <<>> = a
      BY <2>4
    <3> QED
      BY <1>3, <1>7, <2>6, <3>1
  <2> HIDE DEF a, b, c
  <2>8. a \o (c \o b) = (a \o c) \o b
    BY <2>3, <2>4
  <2> QED
    BY <2>2, <2>3, <2>5, <2>7, <2>8 DEF b
<1>8. <<>> \notin DOMAIN t
  BY <1>4 DEF Balanced
<1> QED
  BY <1>6, <1>7, <1>8 DEF Balanced

\* GetSeries makes a series, with no points.
LEMMA SeriesMade ==
    ASSUME NEW gs, NEW ws, NEW s, Streamed(gs, ws, s), Balanced(gs, ws, s),
           NEW own, own # <<>>, NEW t, t = With(s, own, StoredIn(s, own))
    PROVE  Streamed(gs, ws, t) /\ Balanced(gs, ws, t)
<1>1. \A labels : StoredIn(t, labels) = StoredIn(s, labels)
  BY DEF StoredIn, With
<1>2. DOMAIN t = {own} \union DOMAIN s
  BY DEF With
<1>3. \A labels \in DOMAIN t : t[labels] \in Seq(Point)
  <2>1. \A labels \in DOMAIN t : t[labels] = StoredIn(s, labels)
    BY <1>1 DEF StoredIn
  <2> QED
    BY <2>1, StreamedIn
<1> QED
  BY <1>1, <1>2, <1>3 DEF Streamed, Balanced

StreamInv == /\ up = [wires |-> up.wires, done |-> up.done]
             /\ Streamed(given, up.wires, store)
             /\ Balanced(given, up.wires, store)

LEMMA InitStream == Init => StreamInv
<1> SUFFICES ASSUME Init PROVE StreamInv
  OBVIOUS
<1>1. given = <<>> /\ up = [wires |-> <<>>, done |-> FALSE] /\ store = <<>>
  BY DEF Init
<1>2. \A labels : StoredIn(store, labels) = <<>>
  BY <1>1 DEF StoredIn
<1>3. \A labels : Joined(up.wires, Arriving(labels)) = <<>> /\ Joined(given, Of(labels)) = <<>>
  BY <1>1, JoinedEmpty
<1>4. DOMAIN store = {} /\ <<>> \o <<>> = <<>>
  BY <1>1
<1>5. Streamed(given, up.wires, store)
  BY <1>1, <1>4 DEF Streamed
<1>6. Balanced(given, up.wires, store)
  BY <1>2, <1>3, <1>4 DEF Balanced
<1> QED
  BY <1>1, <1>5, <1>6 DEF StreamInv

LEMMA SameStream == ASSUME StreamInv, given' = given, up'.wires = up.wires, store' = store,
                           up' = [wires |-> up'.wires, done |-> up'.done]
                    PROVE  StreamInv'
  BY DEF StreamInv

LEMMA RecordKeeps == ASSUME StreamInv, NEW line \in Lines, Record(line) PROVE StreamInv'
<1> DEFINE op == Composed(writer.op, line)
<1>1. line \in Records
  BY DEF Record, GetLine, Records
<1>2. op = Message(line) /\ op.datapoints = Points(line)
  BY <1>1, RecordArrives DEF Message
<1>3. op.datapoints = <<>> <=> line.points = <<>>
  <2>1. line.points \in Seq(Point)
    BY <1>1, RecordsAre
  <2>2. DOMAIN Points(line) = DOMAIN line.points
    BY DEF Points
  <2> QED
    BY <1>2, <2>1, <2>2
<1>4. given' = Append(given, line) /\ store' = store
  BY DEF Record, database
<1>5. Streamed(given, up.wires, store) /\ Balanced(given, up.wires, store)
  BY DEF StreamInv
<1>6. CASE line.points = <<>>
  <2>1. up' = up
    BY <1>3, <1>6 DEF Record
  <2>2. Streamed(given', up.wires, store) /\ Balanced(given', up.wires, store)
    BY <1>1, <1>4, <1>5, <1>6, RecordNotSent
  <2> QED
    BY <1>4, <2>1, <2>2 DEF StreamInv
<1>7. CASE line.points # <<>>
  <2>1. up' = [up EXCEPT !.wires = Append(@, WireOf(line))]
    BY <1>2, <1>3, <1>7 DEF Record, WireOf
  <2>2. up' = [wires |-> Append(up.wires, WireOf(line)), done |-> up.done]
    BY <2>1 DEF StreamInv
  <2>4. Streamed(given', up'.wires, store) /\ Balanced(given', up'.wires, store)
    BY <1>1, <1>4, <1>5, <2>2, RecordSent
  <2>5. up' = [wires |-> up'.wires, done |-> up'.done]
    BY <2>2
  <2> QED
    BY <1>4, <2>4, <2>5 DEF StreamInv
<1> QED
  BY <1>6, <1>7

\* What Store reads is the message of a record, whatever the object held.
LEMMA StoreReads ==
    ASSUME StreamInv, Store
    PROVE  \E line \in Records :
              /\ up.wires # <<>> /\ Head(up.wires) = WireOf(line)
              /\ Read(WriteOperation, storing.op, Head(up.wires)) = Message(line)
              /\ LabelsOf(Message(line).series) = line.labels
              /\ DOMAIN line.labels # {} <=> line.labels # <<>>
<1>1. up.wires # <<>> /\ up.wires \in Seq(Wires)
  BY DEF Store, StreamInv, Streamed
<1>2. Head(up.wires) \in Wires
  BY <1>1
<1>3. PICK line \in Records : Head(up.wires) = WireOf(line)
  BY <1>2 DEF Wires
<1>4. DOMAIN line.labels # {} <=> line.labels # <<>>
  <2>1. line.labels = [key \in DOMAIN line.labels |-> line.labels[key]]
    BY RecordsAre DEF IsMap
  <2>2. DOMAIN <<>> = {} /\ \A x, y : DOMAIN x = {} /\ DOMAIN y = {}
            => [key \in DOMAIN x |-> x[key]] = [key \in DOMAIN y |-> y[key]]
    OBVIOUS
  <2>3. <<>> = [key \in DOMAIN <<>> |-> <<>>[key]]
    OBVIOUS
  <2> QED
    BY <2>1, <2>2, <2>3
<1> QED
  BY <1>1, <1>3, <1>4, RecordArrives

LEMMA StoreKeeps == ASSUME StreamInv, Store PROVE StreamInv'
<1>1. PICK line \in Records :
              /\ up.wires # <<>> /\ Head(up.wires) = WireOf(line)
              /\ Read(WriteOperation, storing.op, Head(up.wires)) = Message(line)
              /\ LabelsOf(Message(line).series) = line.labels
              /\ DOMAIN line.labels # {} <=> line.labels # <<>>
  BY StoreReads
<1>2. given' = given /\ up' = [up EXCEPT !.wires = Tail(@)]
  BY DEF Store
<1>3. up' = [wires |-> Tail(up.wires), done |-> up.done]
  BY <1>1, <1>2 DEF StreamInv
<1>4. PointsOf(Message(line).datapoints) = line.points
  BY RecordArrives
<1>5. store' = IF line.labels # <<>>
               THEN With(store, line.labels, StoredIn(store, line.labels) \o Kept(line.points)) ELSE store
  <2>1. store' = IF DOMAIN line.labels # {}
                 THEN Having(line.labels, StoredOf(line.labels) \o Kept(line.points)) ELSE store
    BY <1>1, <1>4 DEF Store
  <2> QED
    BY <1>1, <2>1 DEF Having, With, StoredOf, StoredIn
<1>6. Streamed(given, up.wires, store) /\ Balanced(given, up.wires, store)
  BY DEF StreamInv
<1>7. Streamed(given, Tail(up.wires), store') /\ Balanced(given, Tail(up.wires), store')
  BY <1>1, <1>5, <1>6, MessageStored
<1>8. up' = [wires |-> up'.wires, done |-> up'.done]
  BY <1>3
<1> QED
  BY <1>2, <1>3, <1>7, <1>8 DEF StreamInv

LEMMA ReadSeriesKeeps == ASSUME StreamInv, ReadSeries PROVE StreamInv'
<1> DEFINE own == Head(serving.todo).labels
<1>1. /\ DOMAIN own # {} /\ store' = Having(own, StoredOf(own)) /\ given' = given /\ up' = up
  BY DEF ReadSeries, writing
<1>2. own # <<>>
  BY <1>1
<1>3. store' = With(store, own, StoredIn(store, own))
  BY <1>1 DEF Having, With, StoredOf, StoredIn
<1> HIDE DEF own
<1>4. Streamed(given, up.wires, store') /\ Balanced(given, up.wires, store')
  BY <1>2, <1>3, SeriesMade DEF StreamInv
<1> QED
  BY <1>1, <1>4 DEF StreamInv

LEMMA StepStream == StreamInv /\ [Next]_vars => StreamInv'
<1> SUFFICES ASSUME StreamInv, [Next]_vars PROVE StreamInv'
  OBVIOUS
<1>1. CASE UNCHANGED <<given, up, store>>
  BY <1>1, SameStream DEF StreamInv
<1>2. CASE VqroWrite
  <2>1. ASSUME NEW line \in Lines, Record(line) PROVE StreamInv'
    BY <2>1, RecordKeeps
  <2>2. CASE WritesDone
    <3>1. up' = [up EXCEPT !.done = writer.stream] /\ given' = given /\ store' = store
      BY <2>2 DEF WritesDone, database
    <3>2. up' = [wires |-> up.wires, done |-> writer.stream]
      BY <3>1 DEF StreamInv
    <3> QED
      BY <3>1, <3>2, SameStream
  <2>3. ASSUME NEW line \in Lines, BlankLine(line) \/ BadLine(line) \/ BadPoint(line)
        PROVE UNCHANGED <<given, up, store>>
    BY <2>3 DEF BlankLine, BadLine, BadPoint, database
  <2>4. CASE InputEnds \/ Finish
    BY <1>1, <2>4 DEF InputEnds, Finish, database
  <2> QED
    BY <1>1, <1>2, <2>1, <2>2, <2>3, <2>4 DEF VqroWrite
<1>3. CASE WriteDatapoints
  <2>1. CASE Store
    BY <2>1, StoreKeeps
  <2>2. CASE Index \/ WriteReturns
    BY <1>1, <2>2 DEF Index, WriteReturns, database
  <2> QED
    BY <1>3, <2>1, <2>2 DEF WriteDatapoints
<1>4. CASE VqroRead
  BY <1>1, <1>4 DEF VqroRead, Refuse, AskRead, AskSearch, Show, ReadsEnd, writing, database
<1>5. CASE Serve
  <2>1. CASE ReadSeries
    BY <2>1, ReadSeriesKeeps
  <2>2. CASE Start \/ PassRow \/ SkipRow \/ TakeRow \/ ScanEnds
    BY <1>1, <2>2 DEF Start, PassRow, SkipRow, TakeRow, ScanEnds, writing, database
  <2>3. CASE Dies \/ ReadChunk \/ LeaveSeries \/ ReadReturns
    BY <1>1, <2>3 DEF Dies, ReadChunk, LeaveSeries, ReadReturns, writing, database
  <2> QED
    BY <1>5, <2>1, <2>2, <2>3 DEF Serve
<1>6. CASE Ended \/ UNCHANGED vars
  BY <1>1, <1>6 DEF Ended, vars
<1> QED
  BY <1>2, <1>3, <1>4, <1>5, <1>6 DEF Next

LEMMA StreamInvHolds == Spec => []StreamInv
  BY InitStream, StepStream, PTL DEF Spec

LEMMA AsJoined ==
    ASSUME StreamInv, NEW labels
    PROVE  /\ PointsGiven(labels) = Joined(given, Of(labels))
           /\ OnItsWay(labels) = Joined(up.wires, Arriving(labels))
           /\ StoredOf(labels) = StoredIn(store, labels)
<1>1. given \in Seq(Records) /\ up.wires \in Seq(Wires)
  BY DEF StreamInv, Streamed
<1>2. PointsGiven(labels) = Joined(given, Of(labels))
  <2>1. \A i \in DOMAIN given : given[i] \in Records
    BY <1>1
  <2>2. [i \in DOMAIN given |-> IF given[i].labels = labels THEN Kept(given[i].points) ELSE <<>>]
          = [i \in DOMAIN given |-> Of(labels)[given[i]]]
    BY <2>1 DEF Of
  <2> QED
    BY <2>2 DEF PointsGiven, Joined
<1>3. OnItsWay(labels) = Joined(up.wires, Arriving(labels))
  <2>1. \A i \in DOMAIN up.wires : up.wires[i] \in Wires
    BY <1>1
  <2>2. [i \in DOMAIN up.wires |-> KeptOf(labels, up.wires[i])] = [i \in DOMAIN up.wires |-> Arriving(labels)[up.wires[i]]]
    BY <2>1 DEF Arriving
  <2>3. OnItsWay(labels) = FlattenSeq([i \in DOMAIN up.wires |-> KeptOf(labels, up.wires[i])])
    BY DEF OnItsWay, KeptOf
  <2> QED
    BY <2>2, <2>3 DEF Joined
<1> QED
  BY <1>2, <1>3 DEF StoredOf, StoredIn

\* Nothing of one message gets into the next, though both ends reuse their object, and no
\* point is lost, doubled or reordered between stdin and the buffer of its series.
THEOREM GivenIsStored == Spec => []StoredIsGiven
<1>1. StreamInv => StoredIsGiven
  <2> SUFFICES ASSUME StreamInv PROVE StoredIsGiven
    OBVIOUS
  <2>1. <<>> \notin DOMAIN store
    BY DEF StreamInv, Balanced
  <2>2. ASSUME NEW labels, labels # <<>> PROVE StoredOf(labels) \o OnItsWay(labels) = PointsGiven(labels)
    BY <2>2, AsJoined DEF StreamInv, Balanced
  <2> QED
    BY <2>1, <2>2 DEF StoredIsGiven
<1> QED
  BY <1>1, StreamInvHolds, PTL


----------------------------------------------------------------------------
(* The range asked for.                                                      *)

LEMMA Remainder ==
    ASSUME NEW n \in Nat, n > 0
    PROVE  /\ \A x \in Nat : x < n => x % n = x
           /\ \A x \in Nat : x % n = 0 => x = n * (x \div n)
           /\ \A x \in Nat : x < n => x \div n = 0
           /\ \A x \in Int : x \div n \in Int /\ x % n \in 0..(n - 1)
  OBVIOUS

LEMMA InRangeStays == \A t \in MinTime..MaxTime : Wrapped(t) = t
<1>1. MaxTime \in Nat
  BY TimeAssumption
<1> TAKE t \in MinTime..MaxTime
<1> DEFINE n == MaxTime - MinTime + 1
           x == t - MinTime
<1>2. n \in Nat /\ n > 0 /\ x \in Nat /\ x < n /\ MinTime \in Int /\ t \in Int
  BY <1>1 DEF MinTime
<1> HIDE DEF n, x
<1>3. x % n = x
  BY <1>2, Remainder
<1> QED
  BY <1>2, <1>3 DEF Wrapped, n, x

LEMMA WrappedIsInt == \A t \in Int : Wrapped(t) \in Int
<1>1. MaxTime \in Nat
  BY TimeAssumption
<1> TAKE t \in Int
<1> DEFINE n == MaxTime - MinTime + 1
           x == t - MinTime
<1>2. n \in Nat /\ n > 0 /\ x \in Int /\ MinTime \in Int
  BY <1>1 DEF MinTime
<1> HIDE DEF n, x
<1>3. x % n \in 0..(n - 1)
  BY <1>2, Remainder
<1> QED
  BY <1>2, <1>3 DEF Wrapped, n, x

\* The ratio of two units times the number is exact, or no tick at all.
LEMMA RatioIsExact ==
    ASSUME NEW unit \in DOMAIN NanosecondsPerTick, NEW tick \in DOMAIN NanosecondsPerTick,
           NEW number \in Int, NanosecondsPerTick[tick] # 0
    PROVE  LET ratio == NanosecondsPerTick[unit] \div NanosecondsPerTick[tick]
           IN  /\ ratio \in Int /\ ratio * number \in Int
               /\ \/ ratio * number = 0
                  \/ (ratio * number) * NanosecondsPerTick[tick] = number * NanosecondsPerTick[unit]
<1> DEFINE ns == NanosecondsPerTick[tick]
           u == NanosecondsPerTick[unit]
           ratio == u \div ns
<1>1. ns \in Nat /\ ns > 0 /\ u \in Nat
  BY TimeAssumption
<1>2. tick # "none"
  BY TimeAssumption
<1>3. u >= ns => u % ns = 0
  <2>1. CASE unit = "none"
    BY <1>1, <2>1, TimeAssumption
  <2>2. CASE unit # "none"
    BY <1>2, <2>2, TimeAssumption
  <2> QED
    BY <2>1, <2>2
<1> HIDE DEF ns, u
<1>4. ratio \in Int
  BY <1>1, Remainder
<1>5. CASE u >= ns
  <2>1. u = ns * ratio
    BY <1>1, <1>3, <1>5, Remainder
  <2> HIDE DEF ratio
  <2>2. (ratio * number) * ns = number * (ns * ratio)
    BY <1>1, <1>4
  <2> QED
    BY <1>4, <2>1, <2>2 DEF ns, u, ratio
<1>6. CASE u < ns
  <2>1. ratio = 0
    BY <1>1, <1>6, Remainder
  <2> QED
    BY <1>4, <2>1 DEF ns, u, ratio
<1> QED
  BY <1>1, <1>5, <1>6

LEMMA TimedIs ==
    ASSUME NEW r \in Requests, r.method = "read"
    PROVE  LET range == TimeRangeOf(r.start, r.end, r.tick)
           IN  Timed(r).start_time = range.start /\ Timed(r).end_time = range.end
<1>1. DOMAIN r.message = Names(ReadOperation)
  BY RequestsAssumption
<1>2. /\ DOMAIN ReadOperation = 1..6 /\ ReadOperation[3].name = "start_time" /\ ReadOperation[4].name = "end_time"
  BY DEF ReadOperation, StartTime, EndTime, Number, Field
<1>3. "start_time" \in Names(ReadOperation) /\ "end_time" \in Names(ReadOperation)
  <2>1. 3 \in DOMAIN ReadOperation /\ 4 \in DOMAIN ReadOperation
    BY <1>2
  <2> QED
    BY <1>2, <2>1 DEF Names
<1> QED
  BY <1>1, <1>3 DEF Timed

LEMMA AcceptedIsMeant ==
    ASSUME NEW r \in Requests, r.method = "read", Accepted(r.start, r.end, r.tick),
           IsRelative(r.start), r.end.kind \in {"now", "date"}, ~Overflows(r)
    PROVE  (Timed(r).end_time - Timed(r).start_time) * NanosecondsPerTick[r.tick]
              = -(r.start.number) * NanosecondsPerTick[r.start.unit]
<1>1. /\ r.tick \in DOMAIN NanosecondsPerTick /\ r.start.number \in Int
      /\ r.start.unit \in DOMAIN NanosecondsPerTick /\ r.start.kind = "relative"
      /\ r.end.kind = "date" => r.end.seconds \in Int
  BY RequestsAssumption DEF IsFlag, IsRelative
<1> DEFINE ns == NanosecondsPerTick[r.tick]
           u == NanosecondsPerTick[r.start.unit]
           ticks == (u \div ns) * r.start.number
           s == GetTimeInTicks(r.start, r.tick)
           e == GetTimeInTicks(r.end, r.tick)
<1>2. ns \in Nat /\ ns # 0 /\ ns > 0 /\ u \in Nat /\ Clock \in Nat /\ MaxTime \in Nat
  <2>1. ns # 0
    BY <1>1 DEF Accepted, Fails
  <2> QED
    BY <1>1, <2>1, TimeAssumption
<1>3. ticks \in Int /\ (ticks = 0 \/ ticks * ns = r.start.number * u)
  BY <1>1, <1>2, RatioIsExact
<1>4. s = Wrapped(ticks)
  BY <1>1 DEF GetTimeInTicks
<1>5. ticks \in MinTime..MaxTime /\ ticks + e \in MinTime..MaxTime
  BY DEF Overflows
<1>6. e \in Int
  <2>1. CASE r.end.kind = "now"
    <3>1. e = Clock \div ns
      BY <1>2, <2>1 DEF GetTimeInTicks
    <3> QED
      BY <1>2, <3>1, Remainder
  <2>2. CASE r.end.kind = "date"
    <3>1. e = Quotient(Wrapped(r.end.seconds * NanosecondsPerTick["s"]), ns)
      BY <2>2 DEF GetTimeInTicks
    <3>2. NanosecondsPerTick["s"] \in Int
      BY TimeAssumption
    <3>3. r.end.seconds * NanosecondsPerTick["s"] \in Int
      BY <1>1, <2>2, <3>2
    <3> DEFINE t == Wrapped(r.end.seconds * NanosecondsPerTick["s"])
    <3>4. t \in Int
      BY <3>3, WrappedIsInt
    <3> HIDE DEF t
    <3>5. t \div ns \in Int /\ (-t) \div ns \in Int
      BY <1>2, <3>4, Remainder
    <3> HIDE DEF e, ns
    <3> QED
      BY <3>1, <3>5 DEF Quotient, t
  <2> QED
    BY <2>1, <2>2
<1>7. /\ TimeRangeOf(r.start, r.end, r.tick).start = Wrapped(s + e)
      /\ TimeRangeOf(r.start, r.end, r.tick).end = e
  BY DEF TimeRangeOf, IsRelative
<1>8. Timed(r).start_time = Wrapped(s + e) /\ Timed(r).end_time = e
  BY <1>7, TimedIs
<1>9. Wrapped(s + e) < e
  BY <1>7 DEF Accepted
<1> DEFINE number == r.start.number
<1> HIDE DEF ns, u, ticks, s, e, number
<1>10. s = ticks /\ Wrapped(s + e) = ticks + e
  BY <1>4, <1>5, InRangeStays
<1>11. ticks # 0
  BY <1>3, <1>6, <1>9, <1>10
<1>12. e - (ticks + e) = -ticks
  BY <1>3, <1>6
<1>13. number \in Int /\ ticks * ns = number * u
  BY <1>1, <1>3, <1>11 DEF number
<1>14. (-ticks) * ns = (-number) * u
  <2>1. \A x, y \in Int : (-x) * y = -(x * y)
    OBVIOUS
  <2> QED
    BY <1>2, <1>3, <1>13, <2>1
<1>15. Timed(r).end_time - Timed(r).start_time = -ticks
  BY <1>8, <1>10, <1>12
<1>16. (Timed(r).end_time - Timed(r).start_time) * ns = (-number) * u
  BY <1>14, <1>15
<1> QED
  BY <1>2, <1>13, <1>15, <1>16, <1>3 DEF ns, u, number

AskedInv == /\ reader = [pc |-> reader.pc, request |-> reader.request, result |-> reader.result,
                         printed |-> reader.printed]
            /\ reader.pc \in {"reading", "ended"} =>
                  /\ Asked \in Requests
                  /\ Asked.method = "read" => Accepted(Asked.start, Asked.end, Asked.tick)

LEMMA InitAsked == Init => AskedInv
  BY DEF Init, AskedInv

LEMMA StepAsked == AskedInv /\ [Next]_vars => AskedInv'
<1> SUFFICES ASSUME AskedInv, [Next]_vars PROVE AskedInv'
  OBVIOUS
<1>1. ASSUME reader' = reader PROVE AskedInv'
  BY <1>1 DEF AskedInv, Asked
<1>2. CASE VqroRead
  <2>1. ASSUME NEW r \in Requests, Refuse(r) PROVE AskedInv'
    BY <2>1 DEF Refuse, AskedInv, Asked
  <2>2. ASSUME NEW r \in Requests, AskRead(r) PROVE AskedInv'
    <3>1. /\ Accepted(r.start, r.end, r.tick)
          /\ reader' = [pc |-> "reading", request |-> r, result |-> Cleared(ResultType(r)), printed |-> <<>>]
      BY <2>2 DEF AskRead, Asks
    <3> QED
      BY <3>1 DEF AskedInv, Asked
  <2>3. ASSUME NEW r \in Requests, AskSearch(r) PROVE AskedInv'
    <3>1. /\ r.method # "read"
          /\ reader' = [pc |-> "reading", request |-> r, result |-> Cleared(ResultType(r)), printed |-> <<>>]
      BY <2>3 DEF AskSearch, Asks
    <3> QED
      BY <3>1 DEF AskedInv, Asked
  <2>4. CASE Show
    <3>1. PICK result : reader' = [reader EXCEPT !.result = result, !.printed = Append(@, result)]
      BY <2>4 DEF Show
    <3>2. reader.pc = "reading"
      BY <2>4 DEF Show
    <3> QED
      BY <3>1, <3>2 DEF AskedInv, Asked
  <2>5. CASE ReadsEnd
    BY <2>5 DEF ReadsEnd, AskedInv, Asked
  <2> QED
    BY <1>2, <2>1, <2>2, <2>3, <2>4, <2>5 DEF VqroRead
<1>3. CASE VqroWrite
  BY <1>1, <1>3 DEF VqroWrite, BlankLine, BadLine, BadPoint, Record, InputEnds, WritesDone, Finish, reading
<1>4. CASE WriteDatapoints
  BY <1>1, <1>4 DEF WriteDatapoints, Store, Index, WriteReturns, reading
<1>5. CASE Serve
  BY <1>1, <1>5 DEF Serve, Start, PassRow, SkipRow, TakeRow, ScanEnds, ReadSeries, Dies, ReadChunk,
                    LeaveSeries, ReadReturns
<1>6. CASE Ended \/ UNCHANGED vars
  BY <1>1, <1>6 DEF Ended, vars
<1> QED
  BY <1>2, <1>3, <1>4, <1>5, <1>6 DEF Next

LEMMA AskedInvHolds == Spec => []AskedInv
  BY InitAsked, StepAsked, PTL DEF Spec

\* What is sent for a time relative to now or to a date spans as long as the flag says, in
\* whatever units the flag and the data are, unless the sum is no int64_t: vqro-read refuses
\* what a coarser tick would round to nothing.
THEOREM RangeSentIsMeant == Spec => []RangeIsMeant
<1>1. AskedInv => RangeIsMeant
  BY AcceptedIsMeant DEF AskedInv, RangeIsMeant, IsRead
<1> QED
  BY <1>1, AskedInvHolds, PTL

----------------------------------------------------------------------------
(* The end of a stream of writes.                                            *)

Rows == {Serialize(Series, [labels |-> line.labels]) : line \in Records}
SentIn(ws, line) == \E j \in DOMAIN ws : ws[j] = WireOf(line)
IndexedIn(rs, labels) == \E i \in DOMAIN rs : rs[i] = Serialize(Series, [labels |-> labels])
IndexingIn(st, labels) == st.pc = "indexing" /\ st.op.series = [labels |-> labels]

Shapes == /\ writer = [pc |-> writer.pc, code |-> writer.code, op |-> writer.op,
                       lines |-> writer.lines, stream |-> writer.stream]
          /\ storing = [pc |-> storing.pc, op |-> storing.op]
          /\ writer.stream \in BOOLEAN /\ up.done \in BOOLEAN
          /\ rows \in Seq(Rows)
          /\ storing.pc = "indexing" => \E line \in Records : storing.op = Message(line)

\* A point given opens the stream; it is closed once, after the last message, and the
\* handler returns only then, with every message read; the client waits for that.
Handshake ==
    /\ \A i \in DOMAIN given : given[i].points # <<>> => writer.stream
    /\ up.done => writer.stream /\ writer.pc \in {"finishing", "ended"}
    /\ writer.pc = "finishing" => writer.stream
    /\ storing.pc = "returned" => up.done /\ up.wires = <<>>
    /\ writer.pc = "ended" /\ alive /\ writer.stream => storing.pc = "returned"

\* What was sent is on its way, in the index, or about to be put there.
Tracked ==
    \A i \in DOMAIN given : given[i].labels # <<>> /\ given[i].points # <<>> =>
        SentIn(up.wires, given[i]) \/ IndexedIn(rows, given[i].labels) \/ IndexingIn(storing, given[i].labels)

WriteInv == Shapes /\ Handshake /\ Tracked

LEMMA InitWrite == Init => WriteInv
<1> SUFFICES ASSUME Init PROVE WriteInv
  OBVIOUS
<1>1. /\ given = <<>> /\ rows = <<>> /\ writer.stream = FALSE /\ writer.pc = "reading"
      /\ up = [wires |-> <<>>, done |-> FALSE] /\ storing.pc = "reading"
  BY DEF Init
<1>2. Shapes
  BY <1>1 DEF Init, Shapes
<1>3. DOMAIN given = {}
  BY <1>1
<1> QED
  BY <1>1, <1>2, <1>3 DEF WriteInv, Handshake, Tracked

LEMMA SameWrite ==
    ASSUME WriteInv, UNCHANGED <<writer, up, storing, given, rows>>, alive' => alive
    PROVE  WriteInv'
<1>1. Shapes' /\ Handshake'
  BY DEF WriteInv, Shapes, Handshake
<1>2. Tracked'
  BY DEF WriteInv, Tracked, SentIn, IndexedIn, IndexingIn
<1> QED
  BY <1>1, <1>2 DEF WriteInv

\* The steps of the client but Record.
LEMMA ClientKeeps ==
    ASSUME StreamInv, WriteInv,
           UNCHANGED <<storing, given, rows, alive>>, up'.wires = up.wires,
           writer' = [writer EXCEPT !.lines = writer'.lines, !.pc = writer'.pc, !.code = writer'.code,
                                    !.op = writer'.op],
           \/ /\ writer'.pc \in {"reading", "closing"} /\ writer.pc = "reading" /\ up' = up
           \/ WritesDone \/ Finish
    PROVE  WriteInv'
<1>1. writer'.stream = writer.stream /\ Shapes'
  <2>1. writer'.stream = writer.stream
    BY DEF WriteInv, Shapes
  <2>2. writer' = [pc |-> writer'.pc, code |-> writer'.code, op |-> writer'.op,
                   lines |-> writer'.lines, stream |-> writer'.stream]
    BY DEF WriteInv, Shapes
  <2>3. up'.done \in BOOLEAN
    <3>1. up = [wires |-> up.wires, done |-> up.done]
      BY DEF StreamInv
    <3> QED
      BY <3>1 DEF WriteInv, Shapes, WritesDone, Finish
  <2> QED
    BY <2>1, <2>2, <2>3 DEF WriteInv, Shapes
<1>2. Handshake'
  <2>1. CASE writer'.pc \in {"reading", "closing"} /\ writer.pc = "reading" /\ up' = up
    BY <1>1, <2>1 DEF WriteInv, Handshake
  <2>2. CASE WritesDone
    <3>1. /\ writer.pc = "closing" /\ up' = [up EXCEPT !.done = writer.stream]
          /\ writer' = [writer EXCEPT !.pc = IF writer.stream THEN "finishing" ELSE "ended"]
      BY <2>2 DEF WritesDone
    <3>2. up'.done = writer.stream
      BY <3>1 DEF StreamInv
    <3>3. writer'.pc = IF writer.stream THEN "finishing" ELSE "ended"
      BY <3>1 DEF WriteInv, Shapes
    <3>4. ~up.done /\ storing.pc # "returned"
      BY <3>1 DEF WriteInv, Handshake
    <3> QED
      BY <1>1, <3>2, <3>3, <3>4 DEF WriteInv, Handshake
  <2>3. CASE Finish
    <3>1. /\ writer.pc = "finishing" /\ up' = up /\ (storing.pc = "returned" \/ ~alive)
          /\ writer' = [writer EXCEPT !.pc = "ended"]
      BY <2>3 DEF Finish
    <3>2. writer'.pc = "ended"
      BY <3>1 DEF WriteInv, Shapes
    <3> QED
      BY <1>1, <3>1, <3>2 DEF WriteInv, Handshake
  <2> QED
    BY <2>1, <2>2, <2>3
<1>3. Tracked'
  BY DEF WriteInv, Tracked, SentIn, IndexedIn, IndexingIn
<1> QED
  BY <1>1, <1>2, <1>3 DEF WriteInv

LEMMA RecordTracked == ASSUME StreamInv, WriteInv, NEW line \in Lines, Record(line) PROVE WriteInv'
<1> DEFINE op == Composed(writer.op, line)
           sends == op.datapoints # <<>>
<1>1. line \in Records
  BY DEF Record, GetLine, Records
<1>2. op = Message(line) /\ op.datapoints = Points(line)
  BY <1>1, RecordArrives DEF Message
<1>3. sends <=> line.points # <<>>
  <2>1. line.points \in Seq(Point)
    BY <1>1, RecordsAre
  <2>2. DOMAIN Points(line) = DOMAIN line.points
    BY DEF Points
  <2> QED
    BY <1>2, <2>1, <2>2
<1>4. /\ writer.pc = "reading" /\ given' = Append(given, line)
      /\ writer' = [writer EXCEPT !.lines = @ + 1, !.op = op, !.stream = @ \/ sends]
      /\ up' = IF sends THEN [up EXCEPT !.wires = Append(@, WireOf(line))] ELSE up
      /\ UNCHANGED <<storing, rows, alive>>
  BY <1>2 DEF Record, GetLine, WireOf, database, index
<1>5. /\ up = [wires |-> up.wires, done |-> up.done] /\ up.wires \in Seq(Wires)
      /\ given \in Seq(Records) /\ WireOf(line) \in Wires
  BY <1>1 DEF StreamInv, Streamed, Wires
<1> HIDE DEF op, sends
<1>6. writer'.stream = (writer.stream \/ sends) /\ writer'.pc = "reading"
  BY <1>4 DEF WriteInv, Shapes
<1>7. up'.done = up.done /\ up'.wires = IF sends THEN Append(up.wires, WireOf(line)) ELSE up.wires
  BY <1>4, <1>5
<1>8. Shapes'
  <2>1. writer' = [pc |-> writer'.pc, code |-> writer'.code, op |-> writer'.op,
                   lines |-> writer'.lines, stream |-> writer'.stream]
    BY <1>4 DEF WriteInv, Shapes
  <2>2. sends \in BOOLEAN
    BY DEF sends
  <2>3. writer'.stream \in BOOLEAN
    BY <1>6, <2>2 DEF WriteInv, Shapes
  <2> QED
    BY <1>4, <1>7, <2>1, <2>3 DEF WriteInv, Shapes
<1>9. \A i \in DOMAIN given' : (i \in DOMAIN given /\ given'[i] = given[i]) \/ given'[i] = line
  BY <1>4, <1>5
<1>10. Handshake'
  <2>1. \A i \in DOMAIN given' : given'[i].points # <<>> => writer'.stream
    BY <1>3, <1>6, <1>9 DEF WriteInv, Handshake
  <2>2. ~up.done /\ storing.pc # "returned"
    BY <1>4 DEF WriteInv, Handshake
  <2> QED
    BY <1>4, <1>6, <1>7, <2>1, <2>2 DEF Handshake
<1>11. Tracked'
  <2>1. ASSUME NEW l, SentIn(up.wires, l) PROVE SentIn(up'.wires, l)
    <3>1. PICK j \in DOMAIN up.wires : up.wires[j] = WireOf(l)
      BY <2>1 DEF SentIn
    <3>2. j \in DOMAIN up'.wires /\ up'.wires[j] = WireOf(l)
      BY <1>5, <1>7, <3>1
    <3> QED
      BY <3>2 DEF SentIn
  <2>2. line.points # <<>> => SentIn(up'.wires, line)
    <3> SUFFICES ASSUME line.points # <<>> PROVE SentIn(up'.wires, line)
      OBVIOUS
    <3>1. up'.wires = Append(up.wires, WireOf(line))
      BY <1>3, <1>7
    <3>2. Len(up.wires) + 1 \in DOMAIN up'.wires /\ up'.wires[Len(up.wires) + 1] = WireOf(line)
      BY <1>5, <3>1
    <3> QED
      BY <3>2 DEF SentIn
  <2>3. \A labels : IndexedIn(rows', labels) = IndexedIn(rows, labels) /\ IndexingIn(storing', labels) = IndexingIn(storing, labels)
    BY <1>4 DEF IndexedIn, IndexingIn
  <2> SUFFICES ASSUME NEW i \in DOMAIN given', given'[i].labels # <<>>, given'[i].points # <<>>
               PROVE  SentIn(up'.wires, given'[i]) \/ IndexedIn(rows', given'[i].labels) \/ IndexingIn(storing', given'[i].labels)
    BY DEF Tracked
  <2>4. CASE given'[i] = line
    BY <2>2, <2>4
  <2>5. CASE i \in DOMAIN given /\ given'[i] = given[i]
    BY <2>1, <2>3, <2>5 DEF WriteInv, Tracked
  <2> QED
    BY <1>9, <2>4, <2>5
<1> QED
  BY <1>8, <1>10, <1>11 DEF WriteInv

LEMMA StoreTracked == ASSUME StreamInv, WriteInv, Store PROVE WriteInv'
<1>1. PICK line \in Records :
              /\ up.wires # <<>> /\ Head(up.wires) = WireOf(line)
              /\ Read(WriteOperation, storing.op, Head(up.wires)) = Message(line)
              /\ LabelsOf(Message(line).series) = line.labels
              /\ DOMAIN line.labels # {} <=> line.labels # <<>>
  BY StoreReads
<1>2. /\ storing.pc = "reading" /\ UNCHANGED <<writer, given, rows, alive>>
      /\ up' = [up EXCEPT !.wires = Tail(@)]
      /\ storing' = [pc |-> IF line.labels # <<>> /\ ~IndexedIn(rows, line.labels) THEN "indexing" ELSE "reading",
                     op |-> Message(line)]
  BY <1>1 DEF Store, index, IsIndexed, IndexedIn
<1>3. up'.wires = Tail(up.wires) /\ up'.done = up.done /\ up.wires \in Seq(Wires)
  BY <1>1, <1>2 DEF StreamInv, Streamed
<1>4. Shapes'
  <2>1. storing' = [pc |-> storing'.pc, op |-> storing'.op] /\ storing'.op = Message(line)
    BY <1>2
  <2> QED
    BY <1>2, <1>3, <2>1 DEF WriteInv, Shapes
<1>5. Handshake'
  <2>1. storing'.pc # "returned"
    BY <1>2
  <2>2. ~(writer.pc = "ended" /\ alive /\ writer.stream)
    BY <1>2 DEF WriteInv, Handshake
  <2> QED
    BY <1>2, <1>3, <2>1, <2>2 DEF WriteInv, Handshake
<1>6. Tracked'
  <2> SUFFICES ASSUME NEW i \in DOMAIN given, given[i].labels # <<>>, given[i].points # <<>>
               PROVE  SentIn(up'.wires, given[i]) \/ IndexedIn(rows', given[i].labels) \/ IndexingIn(storing', given[i].labels)
    BY <1>2 DEF Tracked
  <2> DEFINE l == given[i]
  <2>0. l \in Records
    BY DEF StreamInv, Streamed
  <2> HIDE DEF l
  <2>1. IndexedIn(rows', l.labels) = IndexedIn(rows, l.labels) /\ ~IndexingIn(storing, l.labels)
    BY <1>2 DEF IndexedIn, IndexingIn, l
  <2>2. CASE SentIn(up.wires, l)
    <3>1. PICK j \in DOMAIN up.wires : up.wires[j] = WireOf(l)
      BY <2>2 DEF SentIn
    <3>2. CASE j = 1
      <4>1. WireOf(l) = WireOf(line)
        BY <1>1, <1>3, <3>1, <3>2
      <4>2. Message(l) = Message(line)
        BY <2>0, <4>1, RecordArrives
      <4>3. l.labels = line.labels /\ Message(line).series = [labels |-> l.labels]
        BY <1>1, <2>0, <4>2, RecordArrives DEF Message
      <4>4. IndexedIn(rows, l.labels) \/ IndexingIn(storing', l.labels)
        BY <1>2, <4>3 DEF IndexingIn, l
      <4> QED
        BY <2>1, <4>4 DEF l
    <3>3. CASE j # 1
      <4>1. j - 1 \in DOMAIN up'.wires /\ up'.wires[j - 1] = WireOf(l)
        BY <1>1, <1>3, <3>1, <3>3
      <4> QED
        BY <1>2, <4>1 DEF SentIn, l
    <3> QED
      BY <3>2, <3>3
  <2>3. CASE ~SentIn(up.wires, l)
    BY <2>1, <2>3 DEF WriteInv, Tracked, l
  <2> QED
    BY <2>2, <2>3
<1> QED
  BY <1>4, <1>5, <1>6 DEF WriteInv

LEMMA IndexTracked == ASSUME WriteInv, Index PROVE WriteInv'
<1> DEFINE row == Serialize(Series, storing.op.series)
<1>1. /\ storing.pc = "indexing" /\ UNCHANGED <<writer, up, given, alive>>
      /\ rows' = Append(rows, row) /\ storing' = [storing EXCEPT !.pc = "reading"]
  BY DEF Index
<1>2. PICK line \in Records : storing.op = Message(line)
  BY <1>1 DEF WriteInv, Shapes
<1>3. storing.op.series = [labels |-> line.labels]
  BY <1>2 DEF Message
<1>4. row \in Rows /\ rows \in Seq(Rows)
  BY <1>3 DEF Rows, WriteInv, Shapes
<1>5. storing' = [pc |-> "reading", op |-> storing.op]
  BY <1>1 DEF WriteInv, Shapes
<1>6. Shapes'
  BY <1>1, <1>4, <1>5 DEF WriteInv, Shapes
<1>7. Handshake'
  BY <1>1, <1>5 DEF WriteInv, Handshake
<1>8. Tracked'
  <2>3. ASSUME NEW labels, IndexedIn(rows, labels) PROVE IndexedIn(rows', labels)
    <3>1. PICK i \in DOMAIN rows : rows[i] = Serialize(Series, [labels |-> labels])
      BY <2>3 DEF IndexedIn
    <3>2. i \in DOMAIN rows' /\ rows'[i] = rows[i]
      BY <1>1, <1>4, <3>1
    <3> QED
      BY <3>1, <3>2 DEF IndexedIn
  <2>4. ASSUME NEW labels, IndexingIn(storing, labels) PROVE IndexedIn(rows', labels)
    <3>1. row = Serialize(Series, [labels |-> labels])
      BY <2>4 DEF IndexingIn
    <3> HIDE DEF row
    <3>2. Len(rows) + 1 \in DOMAIN rows' /\ rows'[Len(rows) + 1] = row
      BY <1>1, <1>4
    <3> QED
      BY <3>1, <3>2 DEF IndexedIn
  <2> SUFFICES ASSUME NEW i \in DOMAIN given, given[i].labels # <<>>, given[i].points # <<>>
               PROVE  SentIn(up'.wires, given[i]) \/ IndexedIn(rows', given[i].labels)
    BY <1>1 DEF Tracked
  <2>5. SentIn(up.wires, given[i]) \/ IndexedIn(rows, given[i].labels) \/ IndexingIn(storing, given[i].labels)
    BY DEF WriteInv, Tracked
  <2>6. SentIn(up'.wires, given[i]) = SentIn(up.wires, given[i])
    BY <1>1 DEF SentIn
  <2> QED
    BY <2>3, <2>4, <2>5, <2>6
<1> QED
  BY <1>6, <1>7, <1>8 DEF WriteInv

LEMMA ReturnTracked == ASSUME WriteInv, WriteReturns PROVE WriteInv'
<1>1. /\ storing.pc = "reading" /\ up.done /\ up.wires = <<>> /\ UNCHANGED <<writer, up, given, rows, alive>>
      /\ storing' = [storing EXCEPT !.pc = "returned"]
  BY DEF WriteReturns, database, index
<1>2. storing' = [pc |-> "returned", op |-> storing.op]
  BY <1>1 DEF WriteInv, Shapes
<1>3. Shapes'
  BY <1>1, <1>2 DEF WriteInv, Shapes
<1>4. Handshake'
  BY <1>1, <1>2 DEF WriteInv, Handshake
<1>5. Tracked'
  BY <1>1, <1>2 DEF WriteInv, Tracked, SentIn, IndexedIn, IndexingIn
<1> QED
  BY <1>3, <1>4, <1>5 DEF WriteInv

LEMMA StepWrite == StreamInv /\ WriteInv /\ [Next]_vars => WriteInv'
<1> SUFFICES ASSUME StreamInv, WriteInv, [Next]_vars PROVE WriteInv'
  OBVIOUS
<1>1. CASE VqroWrite
  <2>0. writer = [pc |-> writer.pc, code |-> writer.code, op |-> writer.op,
                  lines |-> writer.lines, stream |-> writer.stream]
    BY DEF WriteInv, Shapes
  <2>1. ASSUME NEW line \in Lines, Record(line) PROVE WriteInv'
    BY <2>1, RecordTracked
  <2>2. ASSUME NEW line \in Lines, BlankLine(line) \/ BadLine(line) \/ BadPoint(line)
        PROVE  WriteInv'
    <3>1. UNCHANGED <<storing, given, rows, alive, up>> /\ writer.pc = "reading"
      BY <2>2 DEF BlankLine, BadLine, BadPoint, GetLine, database, index
    <3>2. \E op : writer' = [writer EXCEPT !.lines = @ + 1]
                  \/ writer' = [writer EXCEPT !.lines = @ + 1, !.pc = "closing", !.code = 1]
                  \/ writer' = [writer EXCEPT !.lines = @ + 1, !.pc = "closing", !.op = op]
      BY <2>2 DEF BlankLine, BadLine, BadPoint
    <3>3. /\ writer'.pc \in {"reading", "closing"}
          /\ writer' = [writer EXCEPT !.lines = writer'.lines, !.pc = writer'.pc, !.code = writer'.code,
                                      !.op = writer'.op]
      BY <2>0, <3>1, <3>2
    <3> QED
      BY <3>1, <3>3, ClientKeeps
  <2>3. CASE InputEnds
    <3>1. UNCHANGED <<storing, given, rows, alive, up>> /\ writer.pc = "reading"
          /\ writer' = [writer EXCEPT !.pc = "closing"]
      BY <2>3 DEF InputEnds, database, index
    <3>2. /\ writer'.pc \in {"reading", "closing"}
          /\ writer' = [writer EXCEPT !.lines = writer'.lines, !.pc = writer'.pc, !.code = writer'.code,
                                      !.op = writer'.op]
      BY <2>0, <3>1
    <3> QED
      BY <3>1, <3>2, ClientKeeps
  <2>4. CASE WritesDone \/ Finish
    <3>1. UNCHANGED <<storing, given, rows, alive>>
      BY <2>4 DEF WritesDone, Finish, database, index
    <3>2. up'.wires = up.wires
      BY <2>4 DEF WritesDone, Finish, StreamInv
    <3>3. \E pc : writer' = [writer EXCEPT !.pc = pc]
      BY <2>4 DEF WritesDone, Finish
    <3>4. writer' = [writer EXCEPT !.lines = writer'.lines, !.pc = writer'.pc, !.code = writer'.code,
                                   !.op = writer'.op]
      BY <2>0, <3>3
    <3> QED
      BY <2>4, <3>1, <3>2, <3>4, ClientKeeps
  <2> QED
    BY <1>1, <2>1, <2>2, <2>3, <2>4 DEF VqroWrite
<1>2. CASE WriteDatapoints
  BY <1>2, StoreTracked, IndexTracked, ReturnTracked DEF WriteDatapoints
<1>3. CASE VqroRead
  <2>1. UNCHANGED <<writer, up, storing, given, rows, alive>>
    BY <1>3 DEF VqroRead, Refuse, AskRead, AskSearch, Show, ReadsEnd, writing, database, index
  <2> QED
    BY <2>1, SameWrite
<1>4. CASE Serve
  <2>1. ASSUME Start \/ PassRow \/ SkipRow \/ TakeRow \/ ScanEnds
        PROVE  UNCHANGED <<writer, up, storing, given, rows, alive>>
    BY <2>1 DEF Start, PassRow, SkipRow, TakeRow, ScanEnds, writing, database, index
  <2>2. ASSUME ReadSeries \/ Dies \/ ReadChunk \/ LeaveSeries \/ ReadReturns
        PROVE  UNCHANGED <<writer, up, storing, given, rows>> /\ (alive' => alive)
    BY <2>2 DEF ReadSeries, Dies, ReadChunk, LeaveSeries, ReadReturns, writing, database, index
  <2> QED
    BY <1>4, <2>1, <2>2, SameWrite DEF Serve
<1>5. CASE Ended \/ UNCHANGED vars
  BY <1>5, SameWrite DEF Ended, vars
<1> QED
  BY <1>1, <1>2, <1>3, <1>4, <1>5 DEF Next

LEMMA WriteInvHolds == Spec => [](StreamInv /\ WriteInv)
<1>1. Init => StreamInv /\ WriteInv
  BY InitStream, InitWrite
<1>2. StreamInv /\ WriteInv /\ [Next]_vars => (StreamInv /\ WriteInv)'
  BY StepStream, StepWrite
<1> QED
  BY <1>1, <1>2, PTL DEF Spec

\* When vqro-write has ended and the server lives, every point it read from stdin is stored
\* and every series it gave points to is in the index: Finish waits for the handler, and the
\* handler for the last message of the stream.
THEOREM EndedIsStored == Spec => []EndedMeansStored
<1>1. StreamInv /\ WriteInv => EndedMeansStored
  <2> SUFFICES ASSUME StreamInv, WriteInv, writer.pc = "ended", alive,
                      NEW i \in DOMAIN given, given[i].labels # <<>>, given[i].points # <<>>
               PROVE  /\ StoredOf(given[i].labels) = PointsGiven(given[i].labels)
                      /\ IndexedIn(rows, given[i].labels)
    BY DEF EndedMeansStored, IsIndexed, IndexedIn
  <2> DEFINE labels == given[i].labels
  <2>1. storing.pc = "returned" /\ up.wires = <<>>
    BY DEF WriteInv, Handshake
  <2>2. IndexedIn(rows, labels)
    BY <2>1 DEF WriteInv, Tracked, SentIn, IndexingIn
  <2>3. labels # <<>> /\ Streamed(given, up.wires, store)
    BY DEF StreamInv
  <2> HIDE DEF labels
  <2>4. StoredOf(labels) \o Joined(up.wires, Arriving(labels)) = PointsGiven(labels)
    BY <2>3, AsJoined DEF StreamInv, Balanced
  <2>5. Joined(up.wires, Arriving(labels)) = <<>>
    BY <2>1, JoinedEmpty
  <2>6. StoredOf(labels) \in Seq(Point)
    BY <2>3, StreamedIn DEF StoredOf, StoredIn
  <2>7. StoredOf(labels) \o <<>> = StoredOf(labels)
    BY <2>6
  <2> QED
    BY <2>2, <2>4, <2>5, <2>7 DEF labels
<1> QED
  BY <1>1, WriteInvHolds, PTL
----------------------------------------------------------------------------
(* The messages of what is found.                                            *)

LEMMA ClearedSeries == Cleared(Series).labels = <<>>
<1>1. DOMAIN Series = {1} /\ Series[1].name = "labels" /\ Series[1].zero = <<>>
  BY DEF Series, LabelMap, Map, Field
<1> QED
  BY <1>1 DEF Cleared, Names, FieldOf

\* A row is the message of a series, read back with its labels.
LEMMA RowIs ==
    ASSUME NEW labels, IsMap(labels)
    PROVE  /\ Serialize(Series, [labels |-> labels]) = EntriesWire(labels)
           /\ SerializeThree(Series, [labels |-> labels]) = EntriesWire(labels)
           /\ Read(Series, Cleared(Series), EntriesWire(labels)) = [labels |-> labels]
           /\ ReadThree(Series, Cleared(Series), EntriesWire(labels)) = [labels |-> labels]
           /\ EntriesWire(labels) \in Seq(MapEntry(labels))
<1>1. IsFiniteSet(DOMAIN labels)
  BY DEF IsMap
<1>2. EntriesWire(labels) \in Seq(MapEntry(labels))
  BY <1>1, EntriesAre
<1> DEFINE m == [labels |-> labels]
<1>3. m.labels = labels
  OBVIOUS
<1> HIDE DEF m
<1>4. Serialize(Series, m) = EntriesWire(labels) /\ SerializeThree(Series, m) = EntriesWire(labels)
  BY <1>1, <1>3, SeriesWritten
<1>5. /\ MergeFromWire(Series, Cleared(Series), EntriesWire(labels)) = [labels |-> labels]
      /\ ReadThree(Series, Cleared(Series), EntriesWire(labels)) = [labels |-> labels]
  BY ClearedSeries, ReadMapField
<1> QED
  BY <1>2, <1>4, <1>5 DEF m, Read

\* What a field of a message writes of a value, and reads of one.
PayloadOf(f, value) == Payload(SerializeThree, f, value)
ValueOf(f, payload) == IF IsMessage(f) THEN ReadMessage(ReadThree, f, Unset, <<payload.message>>)
                                       ELSE Plain(f, payload)

ListType(f) == <<f, SearchStatus>>
ListWire(p, n) == [i \in 1..n |-> [number |-> 1, payload |-> p[i]]]
ListObject(f, value) == [name \in {f.name, "status"} |-> IF name = "status" THEN Unset ELSE value]

\* A message of one repeated field and a status that is not set.
LEMMA ListWritten ==
    ASSUME NEW f, NEW m, NEW items, NEW p, f.label = "repeated", m[f.name] = items, m.status = Unset,
           Len(items) \in Nat, \A i \in 1..Len(items) : PayloadOf(f, items[i]) = p[i]
    PROVE  Serialize(ListType(f), m) = ListWire(p, Len(items))
<1> DEFINE M == <<f, SearchStatus>>
           list == [i \in 1..Len(items) |-> [number |-> 1, payload |-> p[i]]]
           W(n) == Written(SerializeThree, m, M[n], n)
           Q(g, x) == Payload(SerializeThree, g, x)
<1>1. Len(M) = 2 /\ M[1] = f /\ M[2] = SearchStatus
  OBVIOUS
<1>2. SearchStatus.label = "message" /\ SearchStatus.name = "status"
  BY DEF SearchStatus, One, Field
<1>3. Values(m, f) = items /\ Values(m, SearchStatus) = <<>>
  BY <1>2 DEF Values, IsWritten
<1>4. /\ \A g, n : Written(SerializeThree, m, g, n)
                     = [i \in 1..Len(Values(m, g)) |-> [number |-> n, payload |-> Q(g, Values(m, g)[i])]]
      /\ Serialize(M, m) = FlattenSeq([n \in 1..Len(M) |-> W(n)])
  BY DEF Written, Serialize, Fields
<1>5. /\ W(1) = [i \in 1..Len(Values(m, f)) |-> [number |-> 1, payload |-> Q(f, Values(m, f)[i])]]
      /\ W(2) = [i \in 1..Len(Values(m, SearchStatus)) |-> [number |-> 2, payload |-> Q(SearchStatus, Values(m, SearchStatus)[i])]]
  BY <1>1, <1>4
<1>6. \A i \in 1..Len(items) : Q(f, items[i]) = p[i]
  BY DEF PayloadOf
<1> HIDE DEF Q, W, M
<1>7. W(1) = list
  <2>1. W(1) = [i \in 1..Len(items) |-> [number |-> 1, payload |-> Q(f, items[i])]]
    BY <1>3, <1>5
  <2> QED
    BY <1>6, <2>1
<1>8. W(2) = <<>>
  <2>1. Len(<<>>) = 0
    OBVIOUS
  <2>2. W(2) = [i \in 1..0 |-> [number |-> 2, payload |-> Q(SearchStatus, <<>>[i])]]
    BY <1>3, <1>5, <2>1
  <2> QED
    BY <2>2
<1>9. [n \in 1..Len(M) |-> W(n)] = <<list, <<>>>>
  BY <1>1, <1>7, <1>8
<1> DEFINE S == {list[i] : i \in 1..Len(items)}
<1>10. list \in Seq(S)
  <2>1. Len(items) \in Nat /\ \A i \in 1..Len(items) : list[i] \in S
    OBVIOUS
  <2>2. list = [i \in 1..Len(items) |-> list[i]]
    OBVIOUS
  <2> HIDE DEF list, S
  <2> QED
    BY <2>1, <2>2
<1> HIDE DEF list, S
<1>11. FlattenSeq(<<list, <<>>>>) = list \o <<>> /\ list \o <<>> = list
  <2> DEFINE none == <<>>
  <2>1. none \in Seq(S) /\ list \o none = list
    BY <1>10
  <2> HIDE DEF none
  <2>2. FlattenSeq(<<list, none>>) = list \o none
    BY <1>10, <2>1, FlattenTwo
  <2> QED
    BY <2>1, <2>2 DEF none
<1> QED
  BY <1>4, <1>9, <1>11 DEF M, list, ListType, ListWire

LEMMA ListRead ==
    ASSUME NEW f, NEW w, NEW S, w \in Seq(S), \A i \in DOMAIN w : w[i].number = 1,
           f.label = "repeated", f.zero = <<>>, f.name # "status", NEW object,
           NEW value, value \in Seq(Range(value)), Len(value) = Len(w),
           \A i \in DOMAIN w : value[i] = ValueOf(f, w[i].payload)
    PROVE  Read(ListType(f), object, w) = ListObject(f, value)
<1> DEFINE M == <<f, SearchStatus>>
           o == Cleared(M)
           P(name) == CHOOSE n \in DOMAIN M : M[n].name = name
           F(n) == ReadField(ReadThree, M, n, o, w)
           R(wires) == ReadMessage(ReadThree, f, Unset, wires)
<1>1. DOMAIN M = {1, 2} /\ M[1] = f /\ M[2] = SearchStatus
  OBVIOUS
<1>2. SearchStatus.label = "message" /\ SearchStatus.name = "status" /\ SearchStatus.zero = Unset
  BY DEF SearchStatus, One, Field
<1> HIDE DEF M
<1>3. Names(M) = {f.name, "status"}
  BY <1>1, <1>2 DEF Names
<1>4. P(f.name) = 1 /\ P("status") = 2
  BY <1>1, <1>2
<1>5. o[f.name] = <<>> /\ o["status"] = Unset
  BY <1>1, <1>2, <1>3, <1>4 DEF Cleared, FieldOf
<1>6. Read(M, object, w) = [name \in Names(M) |-> F(P(name))]
  BY DEF Read, MergeFromWire, ReadFields
<1>7. Numbered(w, 1) = w /\ Numbered(w, 2) = <<>>
  <2>1. \A i \in DOMAIN w : w[i].number # 2
    OBVIOUS
  <2> QED
    BY <2>1, NumberedAll, NumberedNone, SMTT(30)
<1> HIDE DEF o
<1>8. F(1) = value
  <2> DEFINE messages == [i \in DOMAIN w |-> w[i].payload.message]
             read == [i \in DOMAIN w |-> IF IsMessage(f) THEN R(<<messages[i]>>) ELSE Plain(f, w[i].payload)]
  <2>1. F(1) = o[f.name] \o read
    BY <1>1, <1>7 DEF ReadField
  <2>2. \A i \in DOMAIN w : value[i] = IF IsMessage(f) THEN R(<<messages[i]>>) ELSE Plain(f, w[i].payload)
    BY DEF ValueOf
  <2>3. DOMAIN value = DOMAIN w /\ value = [i \in DOMAIN value |-> value[i]]
    OBVIOUS
  <2> HIDE DEF R, messages
  <2>4. read = value
    BY <2>2, <2>3
  <2>5. <<>> \o value = value
    OBVIOUS
  <2> HIDE DEF F, read
  <2> QED
    BY <1>5, <2>1, <2>4, <2>5
<1>9. F(2) = Unset
  BY <1>1, <1>2, <1>5, <1>7 DEF ReadField
<1> HIDE DEF F, P
<1>10. \A name \in {f.name, "status"} : F(P(name)) = IF name = "status" THEN Unset ELSE value
  BY <1>4, <1>8, <1>9
<1> QED
  BY <1>3, <1>6, <1>10 DEF M, ListType, ListObject

LabelNames == UNION {DOMAIN line.labels : line \in Records}
ItemSet(r) == IF r.method = "labels" THEN LabelNames ELSE Rows
IsSearch(r) == r.method \in {"series", "labels"}
Shown(r, result) == IF r.method = "labels" THEN result.labels
                    ELSE [j \in DOMAIN result.matches |-> Serialize(Series, result.matches[j])]

LEMMA RowOf ==
    ASSUME NEW row \in Rows
    PROVE  \E line \in Records : /\ row = Serialize(Series, [labels |-> line.labels])
                                 /\ row = SerializeThree(Series, [labels |-> line.labels])
                                 /\ Read(Series, Cleared(Series), row) = [labels |-> line.labels]
                                 /\ ReadThree(Series, Cleared(Series), row) = [labels |-> line.labels]
                                 /\ FlattenSeq(<<row>>) = row
<1>1. PICK line \in Records : row = Serialize(Series, [labels |-> line.labels])
  BY DEF Rows
<1> DEFINE labels == line.labels
<1>2. IsMap(labels)
  BY RecordsAre
<1> HIDE DEF labels
<1>3. /\ Serialize(Series, [labels |-> labels]) = EntriesWire(labels)
      /\ SerializeThree(Series, [labels |-> labels]) = EntriesWire(labels)
      /\ Read(Series, Cleared(Series), EntriesWire(labels)) = [labels |-> labels]
      /\ ReadThree(Series, Cleared(Series), EntriesWire(labels)) = [labels |-> labels]
      /\ EntriesWire(labels) \in Seq(MapEntry(labels))
  BY <1>2, RowIs
<1>4. row = EntriesWire(labels)
  BY <1>1, <1>3 DEF labels
<1>5. FlattenSeq(<<row>>) = row
  BY <1>3, <1>4, FlattenOne
<1> QED
  BY <1>1, <1>3, <1>4, <1>5 DEF labels

LEMMA ResultsCleared == /\ Cleared(SearchLabelsResults) = [labels |-> <<>>, status |-> Unset]
                        /\ Cleared(SearchSeriesResults) = [matches |-> <<>>, status |-> Unset]
<1>1. /\ SearchStatus.name = "status" /\ SearchStatus.zero = Unset
      /\ FoundLabels.name = "labels" /\ FoundLabels.zero = <<>>
      /\ FoundSeries.name = "matches" /\ FoundSeries.zero = <<>>
  BY DEF SearchStatus, FoundLabels, FoundSeries, One, Many, Field
<1>2. /\ DOMAIN SearchLabelsResults = {1, 2} /\ SearchLabelsResults[1] = FoundLabels /\ SearchLabelsResults[2] = SearchStatus
      /\ DOMAIN SearchSeriesResults = {1, 2} /\ SearchSeriesResults[1] = FoundSeries /\ SearchSeriesResults[2] = SearchStatus
  BY DEF SearchLabelsResults, SearchSeriesResults
<1>3. Names(SearchLabelsResults) = {"labels", "status"} /\ Names(SearchSeriesResults) = {"matches", "status"}
  BY <1>1, <1>2 DEF Names
<1>4. /\ FieldOf(SearchLabelsResults, "labels").zero = <<>> /\ FieldOf(SearchLabelsResults, "status").zero = Unset
      /\ FieldOf(SearchSeriesResults, "matches").zero = <<>> /\ FieldOf(SearchSeriesResults, "status").zero = Unset
  BY <1>1, <1>2 DEF FieldOf
<1> QED
  BY <1>3, <1>4 DEF Cleared

LEMMA LabelsArrive ==
    ASSUME NEW r, r.method = "labels", NEW T, NEW items \in Seq(T), NEW object
    PROVE  /\ Read(ResultType(r), object, Serialize(ResultType(r), BatchOf(r, items))) = BatchOf(r, items)
           /\ Shown(r, BatchOf(r, items)) = items
<1> DEFINE f == FoundLabels
           m == BatchOf(r, items)
           p == [i \in 1..Len(items) |-> [text |-> items[i]]]
           w == [i \in 1..Len(items) |-> [number |-> 1, payload |-> p[i]]]
           S == {w[i] : i \in 1..Len(items)}
<1>1. ResultType(r) = ListType(f) /\ m = [labels |-> items, status |-> Unset]
  BY ResultsCleared DEF ResultType, SearchLabelsResults, BatchOf, ListType
<1>2. f.label = "repeated" /\ f.zero = <<>> /\ f.name = "labels" /\ ~IsMessage(f)
  BY DEF FoundLabels, Many, Field, IsMessage
<1>3. Len(items) \in Nat /\ items \in Seq(Range(items)) /\ DOMAIN items = 1..Len(items)
  BY DEF Range
<1>4. \A i \in 1..Len(items) : PayloadOf(f, items[i]) = p[i]
  BY <1>2 DEF PayloadOf, Payload
<1>5. DOMAIN w = 1..Len(items) /\ \A i \in 1..Len(items) : w[i].number = 1 /\ w[i].payload.text = items[i] /\ w[i] \in S
  OBVIOUS
<1>6. m.status = Unset /\ m[f.name] = items
  BY <1>1, <1>2
<1>7. \A i \in 1..Len(items) : Plain(f, w[i].payload) = items[i]
  BY <1>2, <1>5 DEF Plain
<1> HIDE DEF f, m, p, S
<1>8. Serialize(ListType(f), m) = w
  <2>1. Serialize(ListType(f), m) = ListWire(p, Len(items))
    BY <1>2, <1>3, <1>4, <1>6, ListWritten
  <2> QED
    BY <2>1 DEF ListWire
<1>9. w \in Seq(S) /\ Len(w) = Len(items)
  <2>1. w = [i \in 1..Len(items) |-> w[i]]
    OBVIOUS
  <2> HIDE DEF w
  <2> QED
    BY <1>3, <1>5, <2>1
<1> HIDE DEF w
<1>10. Read(ListType(f), object, w) = ListObject(f, items)
  <2>1. \A i \in DOMAIN w : w[i].number = 1
    BY <1>5
  <2>2. \A i \in DOMAIN w : items[i] = ValueOf(f, w[i].payload)
    BY <1>2, <1>5, <1>7 DEF ValueOf
  <2> QED
    BY <1>2, <1>3, <1>9, <2>1, <2>2, ListRead
<1>11. Read(ListType(f), object, w) = m
  BY <1>1, <1>2, <1>10 DEF ListObject
<1> QED
  BY <1>1, <1>8, <1>11 DEF Shown, m

LEMMA MatchesArrive ==
    ASSUME NEW r, r.method = "series", NEW items \in Seq(Rows), NEW object
    PROVE  /\ Read(ResultType(r), object, Serialize(ResultType(r), BatchOf(r, items))) = BatchOf(r, items)
           /\ Shown(r, BatchOf(r, items)) = items
<1> DEFINE f == FoundSeries
           m == BatchOf(r, items)
           found == [i \in 1..Len(items) |-> Read(Series, Cleared(Series), items[i])]
           p == [i \in 1..Len(items) |-> [message |-> items[i]]]
           w == [i \in 1..Len(items) |-> [number |-> 1, payload |-> p[i]]]
           S == {w[i] : i \in 1..Len(items)}
<1>1. Len(items) \in Nat /\ DOMAIN items = 1..Len(items)
  OBVIOUS
<1>2. ResultType(r) = ListType(f) /\ m = [matches |-> found, status |-> Unset]
  <2>1. ResultType(r) = ListType(f)
    BY DEF ResultType, SearchSeriesResults, ListType
  <2> DEFINE c == Cleared(SearchSeriesResults)
             each == [i \in DOMAIN items |-> Read(Series, Cleared(Series), items[i])]
  <2>2. m = [c EXCEPT !.matches = each] /\ each = found
    BY <1>1 DEF BatchOf
  <2>3. c = [matches |-> <<>>, status |-> Unset]
    BY ResultsCleared
  <2> HIDE DEF c, each, found
  <2> QED
    BY <2>1, <2>2, <2>3
<1>3. f.label = "repeated" /\ f.zero = <<>> /\ f.name = "matches" /\ IsMessage(f) /\ f.type = Series
  BY DEF FoundSeries, Many, Field, IsMessage, Series, NoFields
<1>4. \A i \in 1..Len(items) : /\ SerializeThree(Series, found[i]) = items[i] /\ Serialize(Series, found[i]) = items[i]
                               /\ ReadThree(Series, Cleared(Series), FlattenSeq(<<items[i]>>)) = found[i]
  <2> TAKE i \in 1..Len(items)
  <2>1. items[i] \in Rows
    OBVIOUS
  <2>2. PICK line \in Records : /\ items[i] = Serialize(Series, [labels |-> line.labels])
                                /\ items[i] = SerializeThree(Series, [labels |-> line.labels])
                                /\ Read(Series, Cleared(Series), items[i]) = [labels |-> line.labels]
                                /\ ReadThree(Series, Cleared(Series), items[i]) = [labels |-> line.labels]
                                /\ FlattenSeq(<<items[i]>>) = items[i]
    BY <2>1, RowOf
  <2>3. found[i] = [labels |-> line.labels]
    BY <2>2
  <2> HIDE DEF found
  <2> QED
    BY <2>2, <2>3
<1>5. \A i \in 1..Len(items) : PayloadOf(f, found[i]) = p[i]
  <2> TAKE i \in 1..Len(items)
  <2>1. PayloadOf(f, found[i]) = [message |-> SerializeThree(Series, found[i])]
    BY <1>3 DEF PayloadOf, Payload
  <2> QED
    BY <1>4, <2>1
<1>6. DOMAIN w = 1..Len(items) /\ \A i \in 1..Len(items) : w[i].number = 1 /\ w[i].payload.message = items[i] /\ w[i] \in S
  OBVIOUS
<1>7. \A i \in 1..Len(items) : ReadMessage(ReadThree, f, Unset, <<w[i].payload.message>>) = found[i]
  <2> TAKE i \in 1..Len(items)
  <2> HIDE DEF found
  <2>1. ReadMessage(ReadThree, f, Unset, <<items[i]>>) = ReadThree(Series, Cleared(Series), FlattenSeq(<<items[i]>>))
    BY <1>3 DEF ReadMessage
  <2> QED
    BY <1>4, <1>6, <2>1
<1>8. Len(found) = Len(items) /\ DOMAIN found = 1..Len(items) /\ found \in Seq(Range(found))
  <2>1. found = [i \in 1..Len(items) |-> found[i]] /\ DOMAIN found = 1..Len(items)
    OBVIOUS
  <2> HIDE DEF found
  <2>2. \A i \in 1..Len(items) : found[i] \in Range(found)
    BY <2>1 DEF Range
  <2> QED
    BY <1>1, <2>1, <2>2
<1>9. w \in Seq(S) /\ Len(w) = Len(items)
  <2>1. w = [i \in 1..Len(items) |-> w[i]]
    OBVIOUS
  <2> HIDE DEF w, S
  <2> QED
    BY <1>1, <1>6, <2>1
<1> HIDE DEF found
<1>10. m.status = Unset /\ m[f.name] = found /\ m.matches = found
  BY <1>2, <1>3
<1> HIDE DEF f, m, p, S
<1>11. Serialize(ListType(f), m) = w
  <2>1. Serialize(ListType(f), m) = ListWire(p, Len(found))
    BY <1>1, <1>3, <1>5, <1>8, <1>10, ListWritten
  <2> QED
    BY <1>8, <2>1 DEF ListWire
<1> HIDE DEF w
<1>12. Read(ListType(f), object, w) = ListObject(f, found)
  <2>1. \A i \in DOMAIN w : w[i].number = 1
    BY <1>6
  <2>2. \A i \in DOMAIN w : found[i] = ValueOf(f, w[i].payload)
    BY <1>3, <1>6, <1>7 DEF ValueOf
  <2> QED
    BY <1>3, <1>8, <1>9, <2>1, <2>2, ListRead, ZenonT(30)
<1>13. Read(ListType(f), object, w) = m
  BY <1>2, <1>3, <1>12 DEF ListObject
<1>14. Shown(r, m) = items
  <2>1. Shown(r, m) = [j \in 1..Len(items) |-> Serialize(Series, found[j])]
    BY <1>8, <1>10 DEF Shown
  <2>2. items = [j \in 1..Len(items) |-> items[j]]
    BY <1>1
  <2> QED
    BY <1>4, <2>1, <2>2
<1> QED
  BY <1>2, <1>11, <1>13, <1>14 DEF m

\* What a search sends of a batch is shown, whatever the client showed before.
LEMMA BatchArrives ==
    ASSUME NEW r, IsSearch(r), NEW items \in Seq(ItemSet(r)), NEW object
    PROVE  /\ Read(ResultType(r), object, Serialize(ResultType(r), BatchOf(r, items))) = BatchOf(r, items)
           /\ Shown(r, BatchOf(r, items)) = items
<1>1. CASE r.method = "labels"
  BY <1>1, LabelsArrive DEF ItemSet
<1>2. CASE r.method = "series"
  BY <1>2, MatchesArrive DEF ItemSet
<1> QED
  BY <1>1, <1>2 DEF IsSearch

----------------------------------------------------------------------------
(* The messages of what is asked.                                            *)

IsScalar(f) == /\ f.type = NoFields /\ f.label \in {"number", "string", "oneof"}
               /\ f.label = "oneof" => f.zero = Unset
ScalarPayload(f, v) == IF f.label = "number" THEN [varint |-> v] ELSE [text |-> v]
ScalarWire(f, n, v) == IF v # f.zero THEN <<[number |-> n, payload |-> ScalarPayload(f, v)]>> ELSE <<>>

\* The code of a field of a message, and of a field of a message in a message.
OuterWritten(m, f, n) == Written(SerializeThree, m, f, n)
InnerWritten(m, f, n) == Written(SerializeTwo, m, f, n)
OuterRead(M, n, w) == ReadField(ReadThree, M, n, Cleared(M), w)
InnerRead(M, n, w) == ReadField(ReadTwo, M, n, Cleared(M), w)

LEMMA ScalarWritten ==
    ASSUME NEW m, NEW f, NEW n, IsScalar(f)
    PROVE  /\ OuterWritten(m, f, n) = ScalarWire(f, n, m[f.name])
           /\ InnerWritten(m, f, n) = ScalarWire(f, n, m[f.name])
<1> DEFINE v == Values(m, f)
           Outer(x) == Payload(SerializeThree, f, x)
           Inner(x) == Payload(SerializeTwo, f, x)
           list == [i \in 1..Len(v) |-> [number |-> n, payload |-> ScalarPayload(f, v[i])]]
<1>1. f.label \in {"number", "string", "oneof"} /\ ~IsMessage(f) /\ (f.label = "oneof" => f.zero = Unset)
  BY DEF IsScalar, IsMessage
<1>2. v = IF m[f.name] # f.zero THEN <<m[f.name]>> ELSE <<>>
  BY <1>1 DEF Values, IsWritten
<1>3. \A x : Outer(x) = ScalarPayload(f, x) /\ Inner(x) = ScalarPayload(f, x)
  BY <1>1 DEF Payload, ScalarPayload
<1>4. /\ OuterWritten(m, f, n) = [i \in 1..Len(v) |-> [number |-> n, payload |-> Outer(v[i])]]
      /\ InnerWritten(m, f, n) = [i \in 1..Len(v) |-> [number |-> n, payload |-> Inner(v[i])]]
  BY DEF OuterWritten, InnerWritten, Written
<1> HIDE DEF v, Outer, Inner
<1>5. OuterWritten(m, f, n) = list /\ InnerWritten(m, f, n) = list
  BY <1>3, <1>4
<1>6. CASE m[f.name] # f.zero
  <2>1. Len(v) = 1 /\ v[1] = m[f.name]
    BY <1>2, <1>6
  <2>2. list = <<[number |-> n, payload |-> ScalarPayload(f, m[f.name])]>>
    BY <2>1
  <2> QED
    BY <1>5, <1>6, <2>2 DEF ScalarWire
<1>7. CASE m[f.name] = f.zero
  <2>1. Len(v) = 0
    BY <1>2, <1>7
  <2>2. list = <<>>
    BY <2>1
  <2> QED
    BY <1>5, <1>7, <2>2 DEF ScalarWire
<1> QED
  BY <1>6, <1>7

ScalarFields(f, n, v) == {[number |-> n, payload |-> ScalarPayload(f, v)]}
LEMMA ScalarWireIn ==
    ASSUME NEW f, NEW n, NEW v
    PROVE  /\ ScalarWire(f, n, v) \in Seq(ScalarFields(f, n, v))
           /\ \A i \in DOMAIN ScalarWire(f, n, v) : ScalarWire(f, n, v)[i].number = n
<1> DEFINE field == [number |-> n, payload |-> ScalarPayload(f, v)]
<1>1. field \in ScalarFields(f, n, v) /\ field.number = n
  BY DEF ScalarFields
<1> HIDE DEF field
<1>2. /\ <<field>> \in Seq(ScalarFields(f, n, v)) /\ <<>> \in Seq(ScalarFields(f, n, v))
      /\ \A i \in DOMAIN <<field>> : <<field>>[i].number = n
  BY <1>1
<1>3. ScalarWire(f, n, v) = <<field>> \/ ScalarWire(f, n, v) = <<>>
  BY DEF ScalarWire, field
<1>4. CASE ScalarWire(f, n, v) = <<>>
  BY <1>4
<1>5. CASE ScalarWire(f, n, v) = <<field>>
  BY <1>2, <1>5
<1> QED
  BY <1>3, <1>4, <1>5

\* No field of the wire is another case of the field's oneof.
Alone(M, n, w) == M[n].label = "oneof" =>
    \A i \in DOMAIN w : w[i].number \in DOMAIN M \ {n} => M[w[i].number].label # "oneof"

LEMMA ScalarRead ==
    ASSUME NEW M, NEW n, NEW w, NEW v, IsScalar(M[n]), Alone(M, n, w),
           Numbered(w, n) = ScalarWire(M[n], n, v), Cleared(M)[M[n].name] = M[n].zero
    PROVE  OuterRead(M, n, w) = v /\ InnerRead(M, n, w) = v
<1> DEFINE f == M[n]
           o == Cleared(M)
           others == {i \in DOMAIN w : /\ w[i].number \in DOMAIN M \ {n}
                                       /\ f.label = "oneof" /\ M[w[i].number].label = "oneof"}
           mine == Numbered(w, n)
<1>1. f.label \in {"number", "string", "oneof"} /\ ~IsMessage(f)
  BY DEF IsScalar, IsMessage
<1>2. others = {}
  BY SMTT(30) DEF Alone
<1>3. /\ OuterRead(M, n, w) = IF mine = <<>> THEN o[f.name] ELSE Plain(f, mine[Len(mine)].payload)
      /\ InnerRead(M, n, w) = IF mine = <<>> THEN o[f.name] ELSE Plain(f, mine[Len(mine)].payload)
  BY <1>1, <1>2 DEF OuterRead, InnerRead, ReadField
<1>4. Plain(f, ScalarPayload(f, v)) = v
  BY <1>1 DEF Plain, ScalarPayload
<1>5. mine = ScalarWire(f, n, v) /\ o[f.name] = f.zero
  OBVIOUS
<1> HIDE DEF f, mine, o
<1>6. CASE v = f.zero
  BY <1>3, <1>5, <1>6 DEF ScalarWire
<1>7. CASE v # f.zero
  <2>1. mine = <<[number |-> n, payload |-> ScalarPayload(f, v)]>>
    BY <1>5, <1>7 DEF ScalarWire
  <2>2. mine # <<>> /\ mine[Len(mine)].payload = ScalarPayload(f, v)
    BY <2>1
  <2> QED
    BY <1>3, <1>4, <2>2
<1> QED
  BY <1>6, <1>7

\* What comes after another case of the oneof starts anew.
LEMMA CaseUnset ==
    ASSUME NEW M, NEW n, NEW S, NEW w \in Seq(S), w # <<>>, IsScalar(M[n]), M[n].label = "oneof",
           w[Len(w)].number \in DOMAIN M \ {n}, M[w[Len(w)].number].label = "oneof"
    PROVE  OuterRead(M, n, w) = Unset /\ InnerRead(M, n, w) = Unset
<1> DEFINE f == M[n]
           o == Cleared(M)
           others == {i \in DOMAIN w : /\ w[i].number \in DOMAIN M \ {n}
                                       /\ f.label = "oneof" /\ M[w[i].number].label = "oneof"}
           mine == Numbered(SubSeq(w, Max(others) + 1, Len(w)), n)
<1>1. f.label = "oneof" /\ ~IsMessage(f)
  BY DEF IsScalar, IsMessage
<1>2. Len(w) \in others /\ others \subseteq 1..Len(w) /\ Len(w) \in Nat
  OBVIOUS
<1>3. others # {}
  BY <1>2, SMTT(30)
<1>4. /\ OuterRead(M, n, w) = IF mine = <<>> THEN Unset ELSE Plain(f, mine[Len(mine)].payload)
      /\ InnerRead(M, n, w) = IF mine = <<>> THEN Unset ELSE Plain(f, mine[Len(mine)].payload)
  BY <1>1, <1>3 DEF OuterRead, InnerRead, ReadField
<1> HIDE DEF others
<1>5. Max(others) = Len(w)
  <2>1. \A x \in others : x \in Int /\ x <= Len(w)
    BY <1>2
  <2>2. \E x \in others : \A y \in others : x >= y
    BY <1>2, <2>1
  <2>3. Max(others) \in others /\ \A y \in others : Max(others) >= y
    BY <2>2 DEF Max
  <2>4. ASSUME NEW k \in others, k >= Len(w) PROVE k = Len(w)
    BY <1>2, <2>1, <2>4
  <2> QED
    BY <1>2, <2>3, <2>4
<1>6. SubSeq(w, Max(others) + 1, Len(w)) = <<>>
  BY <1>2, <1>5
<1>7. mine = <<>>
  <2>1. Numbered(<<>>, n) = <<>>
    <3>1. <<>> \in Seq({}) /\ \A i \in DOMAIN <<>> : <<>>[i].number # n
      OBVIOUS
    <3> QED
      BY <3>1, NumberedNone
  <2> QED
    BY <1>6, <2>1
<1> QED
  BY <1>4, <1>7

\* A message of three fields: the wire of each, one after the other.
LEMMA OuterThreeWritten ==
    ASSUME NEW M, NEW m, NEW S, NEW x \in Seq(S), NEW y \in Seq(S), NEW z \in Seq(S), Len(M) = 3,
           OuterWritten(m, M[1], 1) = x, OuterWritten(m, M[2], 2) = y, OuterWritten(m, M[3], 3) = z
    PROVE  Serialize(M, m) = Three(x, y, z)
<1> DEFINE Outer(n) == OuterWritten(m, M[n], n)
<1>1. Serialize(M, m) = FlattenSeq([n \in 1..Len(M) |-> Outer(n)])
  BY DEF Serialize, Fields, OuterWritten
<1>2. Outer(1) = x /\ Outer(2) = y /\ Outer(3) = z
  OBVIOUS
<1> HIDE DEF Outer
<1>3. [n \in 1..Len(M) |-> Outer(n)] = <<x, y, z>>
  BY <1>2
<1>4. FlattenSeq(<<x, y, z>>) = Three(x, y, z)
  BY FlattenThree
<1> QED
  BY <1>1, <1>3, <1>4

FieldsWritten(M, m, x, y, z) ==
    /\ OuterWritten(m, M[1], 1) = x /\ OuterWritten(m, M[2], 2) = y /\ OuterWritten(m, M[3], 3) = z
    /\ InnerWritten(m, M[1], 1) = x /\ InnerWritten(m, M[2], 2) = y /\ InnerWritten(m, M[3], 3) = z
LEMMA ThreeWritten ==
    ASSUME NEW M, NEW m, NEW S, NEW x \in Seq(S), NEW y \in Seq(S), NEW z \in Seq(S), Len(M) = 3,
           FieldsWritten(M, m, x, y, z)
    PROVE  Serialize(M, m) = Three(x, y, z) /\ SerializeThree(M, m) = Three(x, y, z)
<1> DEFINE Inner(n) == InnerWritten(m, M[n], n)
<1>1. SerializeThree(M, m) = FlattenSeq([n \in 1..Len(M) |-> Inner(n)])
  BY DEF SerializeThree, Fields, InnerWritten
<1>2. Inner(1) = x /\ Inner(2) = y /\ Inner(3) = z
  BY DEF FieldsWritten
<1> HIDE DEF Inner
<1>3. [n \in 1..Len(M) |-> Inner(n)] = <<x, y, z>>
  BY <1>2
<1>4. FlattenSeq(<<x, y, z>>) = Three(x, y, z)
  BY FlattenThree
<1>5. Serialize(M, m) = Three(x, y, z)
  BY OuterThreeWritten DEF FieldsWritten
<1> QED
  BY <1>1, <1>3, <1>4, <1>5

AllNumbered(w, n) == \A i \in DOMAIN w : w[i].number = n

LEMMA ThreeNumbered ==
    ASSUME NEW S, NEW x \in Seq(S), NEW y \in Seq(S), NEW z \in Seq(S),
           AllNumbered(x, 1), AllNumbered(y, 2), AllNumbered(z, 3)
    PROVE  /\ Three(x, y, z) \in Seq(S)
           /\ Numbered(Three(x, y, z), 1) = x /\ Numbered(Three(x, y, z), 2) = y
           /\ Numbered(Three(x, y, z), 3) = z
<1>1. \A m \in {1, 2, 3} : /\ Numbered(x, m) = IF m = 1 THEN x ELSE <<>>
                           /\ Numbered(y, m) = IF m = 2 THEN y ELSE <<>>
                           /\ Numbered(z, m) = IF m = 3 THEN z ELSE <<>>
  BY NumberedAll, NumberedNone, ZenonT(30) DEF AllNumbered
<1>2. \A m \in {1, 2, 3} : Numbered(Three(x, y, z), m) = Three(Numbered(x, m), Numbered(y, m), Numbered(z, m))
  BY NumberedThree
<1>3. Three(x, <<>>, <<>>) = x /\ Three(<<>>, y, <<>>) = y /\ Three(<<>>, <<>>, z) = z
  BY DEF Three
<1>4. Three(x, y, z) \in Seq(S)
  BY DEF Three
<1> QED
  BY <1>1, <1>2, <1>3, <1>4

\* What is read into an object that was cleared is the object that was written, if every
\* field of it is.
LEMMA ObjectRead ==
    ASSUME NEW M, NEW m, IsObject(M, m), NEW w, NEW object
    PROVE  /\ (\A n \in DOMAIN M : OuterRead(M, n, w) = m[M[n].name]) => Read(M, object, w) = m
           /\ (\A n \in DOMAIN M : InnerRead(M, n, w) = m[M[n].name]) => ReadThree(M, Cleared(M), w) = m
<1> DEFINE P(name) == CHOOSE n \in DOMAIN M : M[n].name = name
<1>1. /\ Read(M, object, w) = [name \in Names(M) |-> OuterRead(M, P(name), w)]
      /\ ReadThree(M, Cleared(M), w) = [name \in Names(M) |-> InnerRead(M, P(name), w)]
  BY DEF Read, MergeFromWire, ReadThree, ReadFields, OuterRead, InnerRead
<1>2. \A name \in Names(M) : P(name) \in DOMAIN M /\ M[P(name)].name = name
  BY DEF Names
<1>3. DOMAIN m = Names(M) /\ m = [name \in DOMAIN m |-> m[name]]
  BY DEF IsObject
<1> HIDE DEF P
<1>4. ASSUME \A n \in DOMAIN M : OuterRead(M, n, w) = m[M[n].name] PROVE Read(M, object, w) = m
  <2>1. \A name \in Names(M) : OuterRead(M, P(name), w) = m[name]
    BY <1>2, <1>4
  <2>2. [name \in Names(M) |-> OuterRead(M, P(name), w)] = [name \in DOMAIN m |-> m[name]]
    BY <1>3, <2>1
  <2> QED
    BY <1>1, <1>3, <2>2
<1>5. ASSUME \A n \in DOMAIN M : InnerRead(M, n, w) = m[M[n].name] PROVE ReadThree(M, Cleared(M), w) = m
  <2>1. \A name \in Names(M) : InnerRead(M, P(name), w) = m[name]
    BY <1>2, <1>5
  <2>2. [name \in Names(M) |-> InnerRead(M, P(name), w)] = [name \in DOMAIN m |-> m[name]]
    BY <1>3, <2>1
  <2> QED
    BY <1>1, <1>3, <2>2
<1> QED
  BY <1>4, <1>5

LEMMA ClearedAt ==
    ASSUME NEW M, \A n, k \in DOMAIN M : M[n].name = M[k].name => n = k, NEW n \in DOMAIN M
    PROVE  Cleared(M)[M[n].name] = M[n].zero
<1> DEFINE name == M[n].name
<1>1. name \in Names(M)
  BY DEF Names
<1>2. (CHOOSE k \in DOMAIN M : M[k].name = name) = n
  OBVIOUS
<1>3. FieldOf(M, name) = M[n]
  BY <1>2 DEF FieldOf
<1> QED
  BY <1>1, <1>3 DEF Cleared
\* Messages of three scalars.
ThreeScalars(M) == /\ Len(M) = 3 /\ DOMAIN M = {1, 2, 3}
                   /\ IsScalar(M[1]) /\ IsScalar(M[2]) /\ IsScalar(M[3])
                   /\ \A n, k \in DOMAIN M : M[n].name = M[k].name => n = k
FieldWire(M, m, n) == ScalarWire(M[n], n, m[M[n].name])
ScalarsWire(M, m) == Three(FieldWire(M, m, 1), FieldWire(M, m, 2), FieldWire(M, m, 3))
ScalarsIn(M, m) == UNION {ScalarFields(M[n], n, m[M[n].name]) : n \in DOMAIN M}

LEMMA FieldWireIs ==
    ASSUME NEW M, NEW m, NEW n \in DOMAIN M
    PROVE  FieldWire(M, m, n) \in Seq(ScalarsIn(M, m)) /\ AllNumbered(FieldWire(M, m, n), n)
<1> DEFINE w == FieldWire(M, m, n)
           F == ScalarFields(M[n], n, m[M[n].name])
<1>1. w \in Seq(F) /\ AllNumbered(w, n)
  BY ScalarWireIn DEF FieldWire, AllNumbered
<1>2. F \subseteq ScalarsIn(M, m)
  BY DEF ScalarsIn
<1> HIDE DEF w, F
<1>3. w \in Seq(ScalarsIn(M, m))
  BY <1>1, <1>2
<1> QED
  BY <1>1, <1>3 DEF w

LEMMA ScalarsAre ==
    ASSUME NEW M, NEW m, ThreeScalars(M)
    PROVE  /\ Serialize(M, m) = ScalarsWire(M, m) /\ SerializeThree(M, m) = ScalarsWire(M, m)
           /\ ScalarsWire(M, m) \in Seq(ScalarsIn(M, m))
           /\ \A n \in {1, 2, 3} : Numbered(ScalarsWire(M, m), n) = FieldWire(M, m, n)
<1> DEFINE S == ScalarsIn(M, m)
           x == FieldWire(M, m, 1)
           y == FieldWire(M, m, 2)
           z == FieldWire(M, m, 3)
<1>1. /\ x \in Seq(S) /\ y \in Seq(S) /\ z \in Seq(S)
      /\ AllNumbered(x, 1) /\ AllNumbered(y, 2) /\ AllNumbered(z, 3)
  BY FieldWireIs DEF ThreeScalars
<1>2. /\ OuterWritten(m, M[1], 1) = x /\ OuterWritten(m, M[2], 2) = y /\ OuterWritten(m, M[3], 3) = z
      /\ InnerWritten(m, M[1], 1) = x /\ InnerWritten(m, M[2], 2) = y /\ InnerWritten(m, M[3], 3) = z
  BY ScalarWritten DEF ThreeScalars, FieldWire
<1>3. Len(M) = 3
  BY DEF ThreeScalars
<1> HIDE DEF S, x, y, z
<1>4. Serialize(M, m) = Three(x, y, z) /\ SerializeThree(M, m) = Three(x, y, z)
  <2>1. FieldsWritten(M, m, x, y, z)
    BY <1>2 DEF FieldsWritten
  <2> QED
    BY <1>1, <1>3, <2>1, ThreeWritten, SMTT(30)
<1>5. /\ Three(x, y, z) \in Seq(S)
      /\ Numbered(Three(x, y, z), 1) = x /\ Numbered(Three(x, y, z), 2) = y /\ Numbered(Three(x, y, z), 3) = z
  BY <1>1, ThreeNumbered
<1> QED
  BY <1>4, <1>5 DEF S, x, y, z, ScalarsWire

LEMMA ScalarArrives ==
    ASSUME NEW M, NEW m, ThreeScalars(M), NEW n \in {1, 2, 3}, Alone(M, n, ScalarsWire(M, m))
    PROVE  /\ OuterRead(M, n, ScalarsWire(M, m)) = m[M[n].name]
           /\ InnerRead(M, n, ScalarsWire(M, m)) = m[M[n].name]
<1>1. IsScalar(M[n]) /\ n \in DOMAIN M /\ \A i, k \in DOMAIN M : M[i].name = M[k].name => i = k
  BY DEF ThreeScalars
<1>2. Cleared(M)[M[n].name] = M[n].zero
  BY <1>1, ClearedAt
<1>3. Numbered(ScalarsWire(M, m), n) = ScalarWire(M[n], n, m[M[n].name])
  BY ScalarsAre DEF FieldWire
<1> QED
  BY <1>1, <1>2, <1>3, ScalarRead

LEMMA LabelsQueryArrives ==
    ASSUME NEW m, IsObject(LabelsQuery, m), NEW object
    PROVE  Read(LabelsQuery, object, Serialize(LabelsQuery, m)) = m
<1> DEFINE M == LabelsQuery
           w == ScalarsWire(M, m)
<1>1. Len(M) = 3 /\ DOMAIN M = {1, 2, 3} /\ M[1] = NameRegex /\ M[2] = ResultOffset /\ M[3] = ResultLimit
  BY DEF LabelsQuery
<1>2. /\ IsScalar(NameRegex) /\ IsScalar(ResultOffset) /\ IsScalar(ResultLimit)
      /\ NameRegex.name = "regex" /\ ResultOffset.name = "result_offset" /\ ResultLimit.name = "result_limit"
      /\ NameRegex.label # "oneof" /\ ResultOffset.label # "oneof" /\ ResultLimit.label # "oneof"
  BY DEF NameRegex, ResultOffset, ResultLimit, Text, Number, Field, IsScalar
<1> HIDE DEF M
<1>3. ThreeScalars(M)
  BY <1>1, <1>2 DEF ThreeScalars
<1>4. Serialize(M, m) = w
  BY <1>3, ScalarsAre
<1>5. \A n \in {1, 2, 3} : Alone(M, n, w)
  BY <1>1, <1>2 DEF Alone
<1>6. \A n \in DOMAIN M : OuterRead(M, n, w) = m[M[n].name]
  BY <1>1, <1>3, <1>5, ScalarArrives
<1>7. IsObject(M, m)
  BY DEF M
<1> HIDE DEF w
<1> QED
  BY <1>4, <1>6, <1>7, ObjectRead DEF M

\* A constraint has one predicate, or none; the case that is not set stays so.
LEMMA ConstraintArrives ==
    ASSUME NEW c, IsConstraint(c)
    PROVE  /\ SerializeThree(LabelConstraint, c) \in Seq(ScalarsIn(LabelConstraint, c))
           /\ ReadThree(LabelConstraint, Cleared(LabelConstraint), SerializeThree(LabelConstraint, c)) = c
<1> DEFINE M == LabelConstraint
           w == ScalarsWire(M, c)
           x == FieldWire(M, c, 1)
           y == FieldWire(M, c, 2)
           z == FieldWire(M, c, 3)
           S == ScalarsIn(M, c)
<1>1. Len(M) = 3 /\ DOMAIN M = {1, 2, 3} /\ M[1] = ConstrainedLabel /\ M[2] = ExactValue /\ M[3] = ValueRegex
  BY DEF LabelConstraint
<1>2. /\ IsScalar(ConstrainedLabel) /\ IsScalar(ExactValue) /\ IsScalar(ValueRegex)
      /\ ConstrainedLabel.name = "label_name" /\ ExactValue.name = "exact_value" /\ ValueRegex.name = "regex"
      /\ ConstrainedLabel.label # "oneof" /\ ExactValue.label = "oneof" /\ ValueRegex.label = "oneof"
      /\ ExactValue.zero = Unset /\ ValueRegex.zero = Unset
  BY DEF ConstrainedLabel, ExactValue, ValueRegex, Text, Case, Field, IsScalar
<1> HIDE DEF M
<1>3. ThreeScalars(M)
  BY <1>1, <1>2 DEF ThreeScalars
<1>4. SerializeThree(M, c) = w /\ w \in Seq(S)
  BY <1>3, ScalarsAre
<1>5. /\ x \in Seq(S) /\ y \in Seq(S) /\ z \in Seq(S)
      /\ AllNumbered(x, 1) /\ AllNumbered(y, 2) /\ AllNumbered(z, 3)
  BY <1>1, FieldWireIs
<1>6. IsObject(M, c) /\ (c.exact_value = Unset \/ c.regex = Unset)
  BY DEF M, IsConstraint
<1>7. /\ c.exact_value = Unset => y = <<>>
      /\ c.regex = Unset => z = <<>>
  BY <1>1, <1>2 DEF FieldWire, ScalarWire
<1>8. w = (x \o y) \o z
  BY DEF ScalarsWire, Three
<1>9. InnerRead(M, 1, w) = c[M[1].name]
  BY <1>1, <1>2, <1>3, ScalarArrives DEF Alone
<1>10. M[1].label # "oneof" /\ M[2].label = "oneof" /\ M[3].label = "oneof"
  BY <1>1, <1>2
<1> HIDE DEF w, x, y, z, S
<1>11. \A i \in DOMAIN w : w[i].number \in {1, 2, 3}
  BY <1>5, <1>8 DEF AllNumbered
<1>12. InnerRead(M, 2, w) = c[M[2].name]
  <2>1. CASE z = <<>>
    <3>1. w = x \o y
      BY <1>5, <1>8, <2>1
    <3>2. \A i \in DOMAIN w : w[i].number \in {1, 2}
      BY <1>5, <3>1 DEF AllNumbered
    <3>3. Alone(M, 2, w)
      BY <1>10, <3>2 DEF Alone
    <3> QED
      BY <1>3, <3>3, ScalarArrives DEF w
  <2>2. CASE z # <<>>
    <3>1. Len(z) > 0 /\ Len(w) = Len(x \o y) + Len(z) /\ w[Len(w)] = z[Len(z)] /\ w # <<>>
      BY <1>5, <1>8, <2>2
    <3>2. w[Len(w)].number = 3
      BY <1>5, <3>1 DEF AllNumbered
    <3>3. InnerRead(M, 2, w) = Unset
      BY <1>1, <1>2, <1>4, <3>1, <3>2, CaseUnset, ZenonT(30)
    <3>4. c.exact_value = Unset
      BY <1>6, <1>7, <2>2
    <3> QED
      BY <1>1, <1>2, <3>3, <3>4
  <2> QED
    BY <2>1, <2>2
<1>13. InnerRead(M, 3, w) = c[M[3].name]
  <2>1. CASE y = <<>>
    <3>1. w = x \o z
      BY <1>5, <1>8, <2>1
    <3>2. \A i \in DOMAIN w : w[i].number \in {1, 3}
      BY <1>5, <3>1 DEF AllNumbered
    <3>3. Alone(M, 3, w)
      BY <1>10, <3>2 DEF Alone
    <3> QED
      BY <1>3, <3>3, ScalarArrives DEF w
  <2>2. CASE y # <<>>
    <3>0. c.regex = Unset /\ z = <<>>
      BY <1>6, <1>7, <2>2
    <3>1. Len(y) > 0 /\ Len(w) = Len(x) + Len(y) /\ w[Len(w)] = y[Len(y)] /\ w # <<>>
      BY <1>5, <1>8, <2>2, <3>0
    <3>2. w[Len(w)].number = 2
      BY <1>5, <3>1 DEF AllNumbered
    <3>3. InnerRead(M, 3, w) = Unset
      BY <1>1, <1>2, <1>4, <3>1, <3>2, CaseUnset
    <3> QED
      BY <1>1, <1>2, <3>0, <3>3
  <2> QED
    BY <2>1, <2>2
<1>14. \A n \in DOMAIN M : InnerRead(M, n, w) = c[M[n].name]
  BY <1>1, <1>9, <1>12, <1>13
<1>15. ReadThree(M, Cleared(M), w) = c
  BY <1>6, <1>14, ObjectRead
<1> QED
  BY <1>4, <1>15 DEF M, S
\* A field of several values, in a message of more fields.
LEMMA RepeatedWritten ==
    ASSUME NEW f, NEW m, NEW items, NEW p, f.label = "repeated", m[f.name] = items,
           Len(items) \in Nat, \A i \in 1..Len(items) : PayloadOf(f, items[i]) = p[i]
    PROVE  OuterWritten(m, f, 1) = ListWire(p, Len(items))
<1> DEFINE Q(x) == Payload(SerializeThree, f, x)
<1>1. Values(m, f) = items
  BY DEF Values
<1>2. OuterWritten(m, f, 1) = [i \in 1..Len(Values(m, f)) |-> [number |-> 1, payload |-> Q(Values(m, f)[i])]]
  BY DEF OuterWritten, Written
<1>3. \A i \in 1..Len(items) : Q(items[i]) = p[i]
  BY DEF PayloadOf
<1> HIDE DEF Q
<1>4. OuterWritten(m, f, 1) = [i \in 1..Len(items) |-> [number |-> 1, payload |-> Q(items[i])]]
  BY <1>1, <1>2
<1> QED
  BY <1>3, <1>4 DEF ListWire

LEMMA RepeatedRead ==
    ASSUME NEW M, NEW n, NEW w, NEW S, NEW value, value \in Seq(Range(value)),
           M[n].label = "repeated", Cleared(M)[M[n].name] = <<>>,
           Numbered(w, n) \in Seq(S), Len(value) = Len(Numbered(w, n)),
           \A i \in DOMAIN value : value[i] = ValueOf(M[n], Numbered(w, n)[i].payload)
    PROVE  OuterRead(M, n, w) = value
<1> DEFINE f == M[n]
           o == Cleared(M)
           mine == Numbered(w, n)
           R(wires) == ReadMessage(ReadThree, f, Unset, wires)
           others == {i \in DOMAIN w : /\ w[i].number \in DOMAIN M \ {n}
                                       /\ f.label = "oneof" /\ M[w[i].number].label = "oneof"}
           messages == [i \in DOMAIN mine |-> mine[i].payload.message]
           read == [i \in DOMAIN mine |-> IF IsMessage(f) THEN R(<<messages[i]>>) ELSE Plain(f, mine[i].payload)]
<1>1. others = {}
  OBVIOUS
<1>2. OuterRead(M, n, w) = o[f.name] \o read
  BY <1>1 DEF OuterRead, ReadField
<1>3. DOMAIN value = DOMAIN mine /\ value = [i \in DOMAIN value |-> value[i]]
  OBVIOUS
<1>4. \A i \in DOMAIN mine : value[i] = IF IsMessage(f) THEN R(<<messages[i]>>) ELSE Plain(f, mine[i].payload)
  <2> TAKE i \in DOMAIN mine
  <2>1. value[i] = ValueOf(f, mine[i].payload) /\ messages[i] = mine[i].payload.message
    BY <1>3
  <2> QED
    BY <2>1 DEF ValueOf
<1> HIDE DEF R, messages, mine
<1>5. read = value
  BY <1>3, <1>4
<1> HIDE DEF read
<1>6. <<>> \o value = value
  OBVIOUS
<1> QED
  BY <1>2, <1>5, <1>6

ConstraintsWire(cs) == ListWire([i \in 1..Len(cs) |-> [message |-> SerializeThree(LabelConstraint, cs[i])]], Len(cs))
ConstraintsIn(cs) == {ConstraintsWire(cs)[i] : i \in 1..Len(cs)}

LEMMA ConstraintsWireIs ==
    ASSUME NEW cs, Len(cs) \in Nat
    PROVE  /\ ConstraintsWire(cs) \in Seq(ConstraintsIn(cs)) /\ Len(ConstraintsWire(cs)) = Len(cs)
           /\ AllNumbered(ConstraintsWire(cs), 1)
           /\ \A i \in 1..Len(cs) : ConstraintsWire(cs)[i].payload.message = SerializeThree(LabelConstraint, cs[i])
<1> DEFINE w == ConstraintsWire(cs)
           S == ConstraintsIn(cs)
<1>1. /\ DOMAIN w = 1..Len(cs) /\ w = [i \in 1..Len(cs) |-> w[i]]
      /\ \A i \in 1..Len(cs) : w[i].number = 1 /\ w[i].payload.message = SerializeThree(LabelConstraint, cs[i])
  BY DEF ConstraintsWire, ListWire
<1>2. \A i \in 1..Len(cs) : w[i] \in S
  BY DEF ConstraintsIn
<1> HIDE DEF w, S
<1>3. w \in Seq(S) /\ Len(w) = Len(cs)
  BY <1>1, <1>2
<1> QED
  BY <1>1, <1>3 DEF w, S, AllNumbered

LEMMA ConstraintsArrive ==
    ASSUME NEW cs, cs \in Seq(Range(cs)), \A c \in Range(cs) : IsConstraint(c)
    PROVE  \A i \in 1..Len(cs) :
              ReadMessage(ReadThree, Constraints, Unset, <<SerializeThree(LabelConstraint, cs[i])>>) = cs[i]
<1> TAKE i \in 1..Len(cs)
<1> DEFINE c == cs[i]
           w == SerializeThree(LabelConstraint, c)
<1>1. IsConstraint(c)
  BY DEF Range
<1>2. Constraints.type = LabelConstraint
  BY DEF Constraints, Many, Field
<1>3. ReadMessage(ReadThree, Constraints, Unset, <<w>>) = ReadThree(LabelConstraint, Cleared(LabelConstraint), FlattenSeq(<<w>>))
  BY <1>2 DEF ReadMessage
<1> HIDE DEF c
<1>4. w \in Seq(ScalarsIn(LabelConstraint, c)) /\ ReadThree(LabelConstraint, Cleared(LabelConstraint), w) = c
  BY <1>1, ConstraintArrives
<1> HIDE DEF w
<1>5. FlattenSeq(<<w>>) = w
  BY <1>4, FlattenOne
<1> QED
  BY <1>3, <1>4, <1>5 DEF w, c

LEMMA QueryArrives ==
    ASSUME NEW q, IsQuery(q), NEW object
    PROVE  Read(SeriesQuery, object, Serialize(SeriesQuery, q)) = q
<1> DEFINE M == SeriesQuery
           cs == q.constraints
           p == [i \in 1..Len(cs) |-> [message |-> SerializeThree(LabelConstraint, cs[i])]]
           x == ConstraintsWire(cs)
           y == ScalarWire(ResultOffset, 2, q.result_offset)
           z == ScalarWire(ResultLimit, 3, q.result_limit)
           S == ConstraintsIn(cs) \union ScalarFields(ResultOffset, 2, q.result_offset)
                    \union ScalarFields(ResultLimit, 3, q.result_limit)
           w == Three(x, y, z)
<1>1. Len(M) = 3 /\ DOMAIN M = {1, 2, 3} /\ M[1] = Constraints /\ M[2] = ResultOffset /\ M[3] = ResultLimit
  BY DEF SeriesQuery
<1>2. /\ Constraints.label = "repeated" /\ Constraints.name = "constraints" /\ Constraints.type = LabelConstraint
      /\ Constraints.zero = <<>> /\ IsMessage(Constraints)
      /\ IsScalar(ResultOffset) /\ IsScalar(ResultLimit)
      /\ ResultOffset.name = "result_offset" /\ ResultLimit.name = "result_limit"
      /\ ResultOffset.label # "oneof" /\ ResultLimit.label # "oneof"
  BY DEF Constraints, ResultOffset, ResultLimit, Many, Number, Field, IsScalar, IsMessage, NoFields, LabelConstraint
<1>3. /\ cs \in Seq(Range(cs)) /\ Len(cs) \in Nat /\ \A c \in Range(cs) : IsConstraint(c)
      /\ IsObject(M, q)
  BY DEF IsQuery
<1> HIDE DEF M
<1>4. x \in Seq(ConstraintsIn(cs)) /\ AllNumbered(x, 1)
  BY <1>3, ConstraintsWireIs
<1>5. /\ y \in Seq(ScalarFields(ResultOffset, 2, q.result_offset)) /\ AllNumbered(y, 2)
      /\ z \in Seq(ScalarFields(ResultLimit, 3, q.result_limit)) /\ AllNumbered(z, 3)
  BY ScalarWireIn DEF AllNumbered
<1> HIDE DEF x, y, z
<1>6. x \in Seq(S) /\ y \in Seq(S) /\ z \in Seq(S)
  BY <1>4, <1>5
<1> HIDE DEF S
<1>7. OuterWritten(q, M[1], 1) = x
  <2>1. \A i \in 1..Len(cs) : PayloadOf(Constraints, cs[i]) = p[i]
    BY <1>2 DEF PayloadOf, Payload
  <2>2. q[Constraints.name] = cs
    BY <1>2
  <2> HIDE DEF p, cs
  <2>3. OuterWritten(q, Constraints, 1) = ListWire(p, Len(cs))
    BY <1>2, <1>3, <2>1, <2>2, RepeatedWritten
  <2> QED
    BY <1>1, <2>3 DEF x, ConstraintsWire, p
<1>8. OuterWritten(q, M[2], 2) = y /\ OuterWritten(q, M[3], 3) = z
  BY <1>1, <1>2, ScalarWritten DEF y, z
<1>9. Serialize(M, q) = w
  BY <1>1, <1>6, <1>7, <1>8, OuterThreeWritten
<1>10. Numbered(w, 1) = x /\ Numbered(w, 2) = y /\ Numbered(w, 3) = z
  BY <1>4, <1>5, <1>6, ThreeNumbered
<1> HIDE DEF w
<1>11. \A n \in {1, 2, 3} : Cleared(M)[M[n].name] = M[n].zero
  BY <1>1, <1>2, ClearedAt
<1>12. OuterRead(M, 1, w) = q[M[1].name]
  <2>1. Len(x) = Len(cs) /\ \A i \in 1..Len(cs) : x[i].payload.message = SerializeThree(LabelConstraint, cs[i])
    BY <1>3, ConstraintsWireIs DEF x
  <2>2. \A i \in 1..Len(cs) :
           ReadMessage(ReadThree, Constraints, Unset, <<SerializeThree(LabelConstraint, cs[i])>>) = cs[i]
    BY <1>3, ConstraintsArrive
  <2>3. \A i \in 1..Len(cs) : cs[i] = ValueOf(Constraints, x[i].payload)
    BY <1>2, <2>1, <2>2 DEF ValueOf
  <2>4. DOMAIN cs = 1..Len(cs) /\ q[M[1].name] = cs /\ Cleared(M)[M[1].name] = <<>> /\ M[1].label = "repeated"
    BY <1>1, <1>2, <1>3, <1>11
  <2> HIDE DEF cs
  <2>5. OuterRead(M, 1, w) = cs
    BY <1>1, <1>3, <1>4, <1>10, <2>1, <2>3, <2>4, RepeatedRead
  <2> QED
    BY <2>4, <2>5
<1>13. OuterRead(M, 2, w) = q[M[2].name]
  <2>1. Alone(M, 2, w) /\ IsScalar(M[2]) /\ Numbered(w, 2) = ScalarWire(M[2], 2, q[M[2].name])
    BY <1>1, <1>2, <1>10 DEF Alone, y
  <2> QED
    BY <1>11, <2>1, ScalarRead
<1>14. OuterRead(M, 3, w) = q[M[3].name]
  <2>1. Alone(M, 3, w) /\ IsScalar(M[3]) /\ Numbered(w, 3) = ScalarWire(M[3], 3, q[M[3].name])
    BY <1>1, <1>2, <1>10 DEF Alone, z
  <2> QED
    BY <1>11, <2>1, ScalarRead
<1>15. \A n \in DOMAIN M : OuterRead(M, n, w) = q[M[n].name]
  BY <1>1, <1>12, <1>13, <1>14
<1> QED
  BY <1>3, <1>9, <1>15, ObjectRead DEF M

\* What a search asks for is what its handler is asked.
LEMMA SearchArrives ==
    ASSUME NEW r \in Requests, r.method # "read", NEW object
    PROVE  /\ IsSearch(r) /\ r.message.result_limit \in Int /\ r.message.result_offset \in Int
           /\ Read(RequestType(r), object, Serialize(RequestType(r), r.message)) = r.message
<1>1. CASE r.method = "series" /\ IsQuery(r.message)
  BY <1>1, QueryArrives DEF RequestType, IsSearch, IsQuery
<1>2. CASE /\ r.method = "labels" /\ IsObject(LabelsQuery, r.message)
           /\ {r.message.result_offset, r.message.result_limit} \subseteq Int
  BY <1>2, LabelsQueryArrives DEF RequestType, IsSearch
<1> QED
  BY <1>1, <1>2, RequestsAssumption
----------------------------------------------------------------------------
(* The index holds a series once, a label once, and every label of a series. *)

Tabled(rs, ts) == \A row \in Range(rs) : DOMAIN Read(Series, Cleared(Series), row).labels \subseteq Range(ts)
IndexInv == /\ tables \in Seq(LabelNames)
            /\ IsInjective(rows) /\ IsInjective(tables)
            /\ Tabled(rows, tables)
            /\ storing.pc = "indexing" => ~IndexedIn(rows, storing.op.series.labels)

LEMMA InitIndex == Init => IndexInv
<1> SUFFICES ASSUME Init PROVE IndexInv
  OBVIOUS
<1>1. tables = <<>> /\ rows = <<>> /\ storing.pc = "reading"
  BY DEF Init
<1>2. Range(rows) = {} /\ DOMAIN rows = {} /\ DOMAIN tables = {} /\ tables \in Seq(LabelNames)
  BY <1>1 DEF Range
<1> QED
  BY <1>1, <1>2 DEF IndexInv, Tabled, IsInjective

\* What is appended to a sequence without repetitions, and is not in it, leaves it so.
LEMMA InjectiveConcat ==
    ASSUME NEW S, NEW s \in Seq(S), NEW t \in Seq(S), IsInjective(s), IsInjective(t),
           \A i \in DOMAIN s, j \in DOMAIN t : s[i] # t[j]
    PROVE  /\ s \o t \in Seq(S) /\ IsInjective(s \o t) /\ Range(s \o t) = Range(s) \union Range(t)
           /\ Len(s \o t) = Len(s) + Len(t)
<1> DEFINE u == s \o t
<1>1. /\ u \in Seq(S) /\ Len(u) = Len(s) + Len(t) /\ Len(s) \in Nat /\ Len(t) \in Nat
      /\ \A i \in 1..Len(s) : u[i] = s[i]
      /\ \A i \in (Len(s) + 1)..Len(u) : u[i] = t[i - Len(s)] /\ i - Len(s) \in 1..Len(t)
      /\ \A j \in 1..Len(t) : j + Len(s) \in (Len(s) + 1)..Len(u) /\ u[j + Len(s)] = t[j]
      /\ DOMAIN u = 1..Len(u) /\ DOMAIN s = 1..Len(s) /\ DOMAIN t = 1..Len(t)
  OBVIOUS
<1> HIDE DEF u
<1>2. ASSUME NEW i \in DOMAIN u, NEW j \in DOMAIN u, u[i] = u[j] PROVE i = j
  <2>1. CASE i <= Len(s) /\ j <= Len(s)
    BY <1>1, <1>2, <2>1 DEF IsInjective
  <2>2. CASE i > Len(s) /\ j > Len(s)
    <3>1. u[i] = t[i - Len(s)] /\ u[j] = t[j - Len(s)] /\ i - Len(s) \in DOMAIN t /\ j - Len(s) \in DOMAIN t
      BY <1>1, <2>2
    <3>2. i - Len(s) = j - Len(s)
      BY <1>2, <3>1 DEF IsInjective
    <3> QED
      BY <1>1, <3>2
  <2>3. CASE i <= Len(s) /\ j > Len(s)
    <3>1. u[i] = s[i] /\ i \in DOMAIN s /\ u[j] = t[j - Len(s)] /\ j - Len(s) \in DOMAIN t
      BY <1>1, <2>3
    <3> QED
      BY <1>2, <3>1
  <2>4. CASE i > Len(s) /\ j <= Len(s)
    <3>1. u[j] = s[j] /\ j \in DOMAIN s /\ u[i] = t[i - Len(s)] /\ i - Len(s) \in DOMAIN t
      BY <1>1, <2>4
    <3> QED
      BY <1>2, <3>1
  <2> QED
    BY <1>1, <2>1, <2>2, <2>3, <2>4
<1>3. Range(u) = Range(s) \union Range(t)
  <2>1. ASSUME NEW i \in DOMAIN u PROVE u[i] \in Range(s) \union Range(t)
    <3>1. CASE i <= Len(s)
      BY <1>1, <3>1 DEF Range
    <3>2. CASE i > Len(s)
      <4>1. u[i] = t[i - Len(s)] /\ i - Len(s) \in DOMAIN t
        BY <1>1, <3>2
      <4> QED
        BY <4>1 DEF Range
    <3> QED
      BY <1>1, <3>1, <3>2
  <2>2. ASSUME NEW i \in DOMAIN s PROVE s[i] \in Range(u)
    BY <1>1 DEF Range
  <2>3. ASSUME NEW i \in DOMAIN t PROVE t[i] \in Range(u)
    BY <1>1 DEF Range
  <2> QED
    BY <2>1, <2>2, <2>3 DEF Range
<1>4. IsInjective(u)
  BY <1>2 DEF IsInjective
<1> QED
  BY <1>1, <1>3, <1>4 DEF u

LEMMA InjectiveAppend ==
    ASSUME NEW S, NEW s \in Seq(S), NEW x \in S, IsInjective(s), x \notin Range(s)
    PROVE  /\ Append(s, x) \in Seq(S) /\ IsInjective(Append(s, x))
           /\ Range(Append(s, x)) = Range(s) \union {x} /\ Len(Append(s, x)) = Len(s) + 1
<1> DEFINE t == <<x>>
<1>1. t \in Seq(S) /\ DOMAIN t = {1} /\ t[1] = x /\ Len(t) = 1 /\ Append(s, x) = s \o t
  OBVIOUS
<1>2. IsInjective(t) /\ Range(t) = {x} /\ \A i \in DOMAIN s, j \in DOMAIN t : s[i] # t[j]
  BY <1>1 DEF IsInjective, Range
<1> HIDE DEF t
<1>3. /\ s \o t \in Seq(S) /\ IsInjective(s \o t) /\ Range(s \o t) = Range(s) \union Range(t)
      /\ Len(s \o t) = Len(s) + Len(t)
  BY <1>1, <1>2, InjectiveConcat
<1> QED
  BY <1>1, <1>2, <1>3

LEMMA StoreIndexes == ASSUME StreamInv, IndexInv, Store PROVE IndexInv'
<1>1. PICK line \in Records : /\ Read(WriteOperation, storing.op, Head(up.wires)) = Message(line)
                              /\ LabelsOf(Message(line).series) = line.labels
  BY StoreReads
<1>2. UNCHANGED <<rows, tables>>
  BY DEF Store, index
<1>3. storing'.pc = "indexing" => /\ storing'.op = Message(line)
                                  /\ ~IsIndexed(line.labels)
  BY <1>1 DEF Store
<1>4. Message(line).series.labels = line.labels
  BY DEF Message
<1>5. storing'.pc = "indexing" => ~IndexedIn(rows, storing'.op.series.labels)
  BY <1>3, <1>4 DEF IsIndexed, IndexedIn
<1> QED
  BY <1>2, <1>5 DEF IndexInv

LEMMA IndexIndexes ==
    ASSUME WriteInv, IndexInv, Index
    PROVE  /\ IndexInv'
           /\ \E row \in Rows : rows' = Append(rows, row)
           /\ \E new \in Seq(LabelNames) : tables' = tables \o new
<1> DEFINE row == Serialize(Series, storing.op.series)
           new == DOMAIN storing.op.series.labels \ {tables[i] : i \in DOMAIN tables}
           added == SetToSeq(new)
<1>1. /\ storing.pc = "indexing" /\ rows' = Append(rows, row) /\ tables' = tables \o added
      /\ storing' = [storing EXCEPT !.pc = "reading"]
  BY DEF Index
<1>2. PICK line \in Records : storing.op = Message(line)
  BY <1>1 DEF WriteInv, Shapes
<1>3. storing.op.series = [labels |-> line.labels] /\ storing.op.series.labels = line.labels
  BY <1>2 DEF Message
<1>4. row \in Rows /\ rows \in Seq(Rows)
  BY <1>3 DEF Rows, WriteInv, Shapes
<1>5. storing'.pc = "reading"
  BY <1>1 DEF WriteInv, Shapes
<1>6. IsMap(line.labels)
  BY RecordsAre
<1>7. new \subseteq LabelNames /\ IsFiniteSet(new) /\ new = DOMAIN line.labels \ Range(tables)
  <2>1. new \subseteq DOMAIN line.labels /\ DOMAIN line.labels \subseteq LabelNames
    BY <1>3 DEF LabelNames
  <2>2. IsFiniteSet(DOMAIN line.labels)
    BY <1>6 DEF IsMap
  <2> QED
    BY <1>3, <2>1, <2>2, FS_Subset DEF Range
<1> HIDE DEF new
<1>8. /\ added \in Seq(LabelNames) /\ IsInjective(added) /\ Range(added) = new
      /\ \A j \in DOMAIN added : added[j] \notin Range(tables)
  <2> DEFINE n == Cardinality(new)
  <2>1. /\ n \in Nat /\ added \in [1..n -> new]
        /\ \A x \in new : \E i \in 1..n : added[i] = x
        /\ \A i, j \in 1..n : added[i] = added[j] => i = j
    BY <1>7, SetToSeqIs
  <2> HIDE DEF n, added
  <2>2. DOMAIN added = 1..n /\ \A i \in 1..n : added[i] \in new
    BY <2>1
  <2>3. added \in Seq(LabelNames)
    BY <1>7, <2>1
  <2>4. Range(added) = new
    BY <2>1, <2>2 DEF Range
  <2>5. IsInjective(added)
    BY <2>1, <2>2 DEF IsInjective
  <2> QED
    BY <1>7, <2>2, <2>3, <2>4, <2>5
<1> HIDE DEF added
<1>9. /\ tables' \in Seq(LabelNames) /\ IsInjective(tables') /\ Range(tables') = Range(tables) \union new
  <2>1. \A i \in DOMAIN tables, j \in DOMAIN added : tables[i] # added[j]
    BY <1>8 DEF Range
  <2> QED
    BY <1>1, <1>8, <2>1, InjectiveConcat DEF IndexInv
<1>10. row \notin Range(rows)
  BY <1>1, <1>3 DEF IndexInv, IndexedIn, Range
<1>11. DOMAIN Read(Series, Cleared(Series), row).labels = DOMAIN line.labels
  <2>1. Read(Series, Cleared(Series), row) = [labels |-> line.labels]
    BY <1>3, <1>6, RowIs
  <2> QED
    BY <2>1
<1> HIDE DEF row
<1>12. IsInjective(rows') /\ Range(rows') = Range(rows) \union {row}
  BY <1>1, <1>4, <1>10, InjectiveAppend DEF IndexInv
<1>13. Tabled(rows', tables')
  BY <1>7, <1>9, <1>11, <1>12 DEF IndexInv, Tabled
<1> QED
  BY <1>1, <1>4, <1>5, <1>8, <1>9, <1>12, <1>13 DEF IndexInv

LEMMA StepIndex == StreamInv /\ WriteInv /\ IndexInv /\ [Next]_vars => IndexInv'
<1> SUFFICES ASSUME StreamInv, WriteInv, IndexInv, [Next]_vars PROVE IndexInv'
  OBVIOUS
<1>1. ASSUME UNCHANGED <<rows, tables, storing>> PROVE IndexInv'
  BY <1>1 DEF IndexInv
<1>2. CASE VqroWrite
  BY <1>1, <1>2 DEF VqroWrite, BlankLine, BadLine, BadPoint, Record, InputEnds, WritesDone, Finish, database, index
<1>3. CASE WriteReturns
  <2>1. UNCHANGED <<rows, tables>> /\ storing' = [storing EXCEPT !.pc = "returned"] /\ storing = [pc |-> storing.pc, op |-> storing.op]
    BY <1>3 DEF WriteReturns, database, index, WriteInv, Shapes
  <2>2. storing'.pc = "returned"
    BY <2>1
  <2> QED
    BY <2>1, <2>2 DEF IndexInv
<1>4. CASE Store
  BY <1>4, StoreIndexes
<1>5. CASE Index
  BY <1>5, IndexIndexes
<1>6. CASE VqroRead
  BY <1>1, <1>6 DEF VqroRead, Refuse, AskRead, AskSearch, Show, ReadsEnd, writing, database, index
<1>7. CASE Serve
  BY <1>1, <1>7 DEF Serve, Start, PassRow, SkipRow, TakeRow, ScanEnds, ReadSeries, Dies, ReadChunk,
                    LeaveSeries, ReadReturns, writing, database, index
<1>8. CASE Ended \/ UNCHANGED vars
  BY <1>1, <1>8 DEF Ended, vars
<1> QED
  BY <1>2, <1>3, <1>4, <1>5, <1>6, <1>7, <1>8 DEF Next, WriteDatapoints
----------------------------------------------------------------------------
(* What a search has found: printed, on its way, and in the batch.           *)

Results(r) == {BatchOf(r, items) : items \in Seq(ItemSet(r))}
SentOf(r, items) == Serialize(ResultType(r), BatchOf(r, items))
Sent(r) == {SentOf(r, items) : items \in Seq(ItemSet(r))}
ShownIn(r) == [result \in Results(r) |-> Shown(r, result)]
OnWay(r) == [wire \in Sent(r) |-> Shown(r, Read(ResultType(r), Cleared(ResultType(r)), wire))]
Typed(r, printed, wires, batch) ==
    /\ printed \in Seq(Results(r)) /\ wires \in Seq(Sent(r)) /\ batch \in Seq(ItemSet(r))
All(r, printed, wires, batch) == (Joined(printed, ShownIn(r)) \o Joined(wires, OnWay(r))) \o batch

LEMMA BatchIs ==
    ASSUME NEW r, IsSearch(r), NEW items \in Seq(ItemSet(r))
    PROVE  /\ BatchOf(r, items) \in Results(r) /\ SentOf(r, items) \in Sent(r)
           /\ ShownIn(r)[BatchOf(r, items)] = items /\ OnWay(r)[SentOf(r, items)] = items
           /\ \A object : Read(ResultType(r), object, SentOf(r, items)) = BatchOf(r, items)
<1>1. BatchOf(r, items) \in Results(r) /\ SentOf(r, items) \in Sent(r)
  BY DEF Results, Sent
<1>2. \A object : Read(ResultType(r), object, SentOf(r, items)) = BatchOf(r, items)
  BY BatchArrives DEF SentOf
<1>3. Shown(r, BatchOf(r, items)) = items
  BY BatchArrives
<1>4. ShownIn(r)[BatchOf(r, items)] = items
  BY <1>1, <1>3 DEF ShownIn
<1>5. OnWay(r)[SentOf(r, items)] = items
  BY <1>1, <1>2, <1>3 DEF OnWay
<1> QED
  BY <1>1, <1>2, <1>4, <1>5

LEMMA BatchFunctions ==
    ASSUME NEW r, IsSearch(r)
    PROVE  ShownIn(r) \in [Results(r) -> Seq(ItemSet(r))] /\ OnWay(r) \in [Sent(r) -> Seq(ItemSet(r))]
<1>1. \A result \in Results(r) : ShownIn(r)[result] \in Seq(ItemSet(r))
  <2> TAKE result \in Results(r)
  <2>1. PICK items \in Seq(ItemSet(r)) : result = BatchOf(r, items)
    BY DEF Results
  <2> QED
    BY <2>1, BatchIs
<1>2. \A wire \in Sent(r) : OnWay(r)[wire] \in Seq(ItemSet(r))
  <2> TAKE wire \in Sent(r)
  <2>1. PICK items \in Seq(ItemSet(r)) : wire = SentOf(r, items)
    BY DEF Sent
  <2> QED
    BY <2>1, BatchIs
<1>3. /\ ShownIn(r) = [result \in Results(r) |-> ShownIn(r)[result]]
      /\ OnWay(r) = [wire \in Sent(r) |-> OnWay(r)[wire]]
  BY DEF ShownIn, OnWay
<1> QED
  BY <1>1, <1>2, <1>3

LEMMA AllIn ==
    ASSUME NEW r, IsSearch(r), NEW printed, NEW wires, NEW batch, Typed(r, printed, wires, batch)
    PROVE  /\ Joined(printed, ShownIn(r)) \in Seq(ItemSet(r)) /\ Joined(wires, OnWay(r)) \in Seq(ItemSet(r))
           /\ All(r, printed, wires, batch) \in Seq(ItemSet(r))
<1>1. Joined(printed, ShownIn(r)) \in Seq(ItemSet(r)) /\ Joined(wires, OnWay(r)) \in Seq(ItemSet(r))
  BY BatchFunctions, EachIn DEF Typed
<1>2. batch \in Seq(ItemSet(r))
  BY DEF Typed
<1> QED
  BY <1>1, <1>2 DEF All

\* A batch sent, a message shown and a row taken.
LEMMA AllSent ==
    ASSUME NEW r, IsSearch(r), NEW printed, NEW wires, NEW batch, Typed(r, printed, wires, batch)
    PROVE  /\ Typed(r, printed, Append(wires, SentOf(r, batch)), <<>>)
           /\ All(r, printed, Append(wires, SentOf(r, batch)), <<>>) = All(r, printed, wires, batch)
<1> DEFINE w == SentOf(r, batch)
           S == ItemSet(r)
           g == OnWay(r)
           shown == Joined(printed, ShownIn(r))
           way == Joined(wires, g)
<1>1. w \in Sent(r) /\ g[w] = batch /\ wires \in Seq(Sent(r)) /\ batch \in Seq(S) /\ printed \in Seq(Results(r))
  BY BatchIs DEF Typed
<1>2. g \in [Sent(r) -> Seq(S)]
  BY BatchFunctions
<1>3. shown \in Seq(S) /\ way \in Seq(S)
  BY AllIn
<1> HIDE DEF w, S, g, shown
<1>4. Joined(Append(wires, w), g) = way \o batch
  <2> DEFINE W == Sent(r)
  <2>1. w \in W /\ wires \in Seq(W) /\ g \in [W -> Seq(S)]
    BY <1>1, <1>2
  <2> HIDE DEF W
  <2>2. Joined(Append(wires, w), g) = Joined(wires, g) \o g[w]
    BY <2>1, JoinedAppend
  <2> QED
    BY <1>1, <2>2
<1> HIDE DEF way
<1>5. (shown \o (way \o batch)) \o <<>> = (shown \o way) \o batch
  BY <1>1, <1>3
<1>6. Typed(r, printed, Append(wires, w), <<>>)
  BY <1>1 DEF Typed
<1> QED
  BY <1>4, <1>5, <1>6 DEF All, w, g, shown, way

LEMMA AllShown ==
    ASSUME NEW r, IsSearch(r), NEW printed, NEW wires, NEW batch, Typed(r, printed, wires, batch),
           wires # <<>>, NEW object
    PROVE  LET result == Read(ResultType(r), object, Head(wires))
           IN  /\ Typed(r, Append(printed, result), Tail(wires), batch)
               /\ All(r, Append(printed, result), Tail(wires), batch) = All(r, printed, wires, batch)
<1> DEFINE result == Read(ResultType(r), object, Head(wires))
           S == ItemSet(r)
           f == ShownIn(r)
           g == OnWay(r)
           shown == Joined(printed, f)
           way == Joined(Tail(wires), g)
<1>1. printed \in Seq(Results(r)) /\ wires \in Seq(Sent(r)) /\ batch \in Seq(S)
  BY DEF Typed
<1>2. Head(wires) \in Sent(r) /\ Tail(wires) \in Seq(Sent(r))
  BY <1>1
<1>3. PICK items \in Seq(S) : Head(wires) = SentOf(r, items)
  BY <1>2 DEF Sent
<1>4. result = BatchOf(r, items) /\ result \in Results(r) /\ f[result] = items /\ g[Head(wires)] = items
  BY <1>3, BatchIs
<1>5. f \in [Results(r) -> Seq(S)] /\ g \in [Sent(r) -> Seq(S)]
  BY BatchFunctions
<1> HIDE DEF result, S, f, g
<1>6. shown \in Seq(S) /\ way \in Seq(S)
  BY <1>1, <1>2, <1>5, EachIn
<1>7. Joined(Append(printed, result), f) = shown \o items
  <2> DEFINE R == Results(r)
  <2>1. printed \in Seq(R) /\ result \in R /\ f \in [R -> Seq(S)]
    BY <1>1, <1>4, <1>5
  <2> HIDE DEF R
  <2>2. Joined(Append(printed, result), f) = Joined(printed, f) \o f[result]
    BY <2>1, JoinedAppend
  <2> QED
    BY <1>4, <2>2
<1>8. Joined(wires, g) = items \o way
  <2> DEFINE W == Sent(r)
  <2>1. wires \in Seq(W) /\ g \in [W -> Seq(S)]
    BY <1>1, <1>5
  <2> HIDE DEF W
  <2>2. Joined(wires, g) = g[Head(wires)] \o Joined(Tail(wires), g)
    BY <2>1, JoinedHead, SMTT(30)
  <2> QED
    BY <1>4, <2>2
<1> HIDE DEF shown, way
<1>9. (shown \o items) \o way = shown \o (items \o way)
  BY <1>3, <1>6, SMTT(30)
<1>10. Typed(r, Append(printed, result), Tail(wires), batch)
  BY <1>1, <1>2, <1>4 DEF Typed, S
<1> QED
  BY <1>7, <1>8, <1>9, <1>10 DEF All, result, f, g, shown, way

LEMMA AllTaken ==
    ASSUME NEW r, IsSearch(r), NEW printed, NEW wires, NEW batch, Typed(r, printed, wires, batch),
           NEW x \in ItemSet(r)
    PROVE  /\ Typed(r, printed, wires, Append(batch, x))
           /\ All(r, printed, wires, Append(batch, x)) = Append(All(r, printed, wires, batch), x)
<1> DEFINE S == ItemSet(r)
           front == Joined(printed, ShownIn(r)) \o Joined(wires, OnWay(r))
<1>1. front \in Seq(S)
  <2>1. Joined(printed, ShownIn(r)) \in Seq(S) /\ Joined(wires, OnWay(r)) \in Seq(S)
    BY AllIn
  <2> QED
    BY <2>1
<1>2. batch \in Seq(S)
  BY DEF Typed
<1> HIDE DEF front
<1>3. front \o Append(batch, x) = Append(front \o batch, x)
  BY <1>1, <1>2
<1>4. Typed(r, printed, wires, Append(batch, x))
  BY <1>2 DEF Typed
<1> QED
  BY <1>3, <1>4 DEF All, front

LEMMA AllEmpty ==
    ASSUME NEW r
    PROVE  Typed(r, <<>>, <<>>, <<>>) /\ All(r, <<>>, <<>>, <<>>) = <<>>
<1>1. Joined(<<>>, ShownIn(r)) = <<>> /\ Joined(<<>>, OnWay(r)) = <<>>
  BY JoinedEmpty
<1>2. (<<>> \o <<>>) \o <<>> = <<>>
  OBVIOUS
<1>3. Typed(r, <<>>, <<>>, <<>>)
  BY DEF Typed
<1> QED
  BY <1>1, <1>2, <1>3 DEF All

\* What is printed comes first.
LEMMA FoundFirst ==
    ASSUME NEW r, IsSearch(r), NEW printed, NEW wires, NEW batch, Typed(r, printed, wires, batch),
           IsInjective(All(r, printed, wires, batch))
    PROVE  LET found == Joined(printed, ShownIn(r))
           IN  /\ IsInjective(found) /\ Len(found) \in Nat
               /\ Len(found) <= Len(All(r, printed, wires, batch))
               /\ wires = <<>> /\ batch = <<>> => found = All(r, printed, wires, batch)
<1> DEFINE found == Joined(printed, ShownIn(r))
           way == Joined(wires, OnWay(r))
           all == All(r, printed, wires, batch)
           S == ItemSet(r)
<1>1. found \in Seq(S) /\ way \in Seq(S) /\ batch \in Seq(S) /\ all = (found \o way) \o batch
  BY AllIn DEF Typed, All
<1>2. wires = <<>> => way = <<>>
  BY JoinedEmpty
<1> HIDE DEF found, way, all, S
<1>3. /\ Len(found) \in Nat /\ Len(all) \in Nat /\ Len(found) <= Len(all)
      /\ DOMAIN found = 1..Len(found) /\ DOMAIN all = 1..Len(all)
      /\ \A i \in 1..Len(found) : all[i] = found[i]
  BY <1>1
<1>4. \A i, j \in DOMAIN all : all[i] = all[j] => i = j
  BY DEF IsInjective, all
<1>5. IsInjective(found)
  BY <1>3, <1>4 DEF IsInjective
<1>6. wires = <<>> /\ batch = <<>> => found = all
  BY <1>1, <1>2
<1> QED
  BY <1>3, <1>5, <1>6 DEF found, all
----------------------------------------------------------------------------
(* A scan, from its beginning to its end.                                    *)

Prefix(b, items) == Len(b) <= Len(items) /\ \A k \in 1..Len(b) : items[k] = b[k]
Scanned(r, items, all, scan) ==
    LET limit == r.message.result_limit
    IN  /\ scan.next \in Nat /\ scan.next > 0 /\ scan.next <= Len(items) + 1
        /\ IsInjective(all)
        /\ \A i \in DOMAIN all : \E k \in 1..(scan.next - 1) : all[i] = items[k]
        /\ limit > 0 => scan.left \in Nat /\ Len(all) + scan.left <= limit
        /\ limit = 0 => /\ scan.left = NoLimit /\ scan.skip = 0
                        /\ \A k \in 1..(scan.next - 1) :
                              Matches(r, r.message, items[k]) => items[k] \in Range(all)
\* A query that finds nothing whatever the index holds.
Barren(r) == IF r.method = "labels" THEN r.message.regex = ""
             ELSE \/ r.message.constraints = <<>>
                  \/ \E i \in DOMAIN r.message.constraints :
                        /\ r.message.constraints[i].exact_value = Unset
                        /\ r.message.constraints[i].regex = Unset
FoundAll(r, b, all) ==
    LET limit == r.message.result_limit
    IN  /\ IsInjective(all)
        /\ limit > 0 => Len(all) <= limit
        /\ limit = 0 => Barren(r) \/ \A x \in Range(b) : Matches(r, r.message, x) => x \in Range(all)

LEMMA ScanBegins ==
    ASSUME NEW r, r.message.result_limit \in Int, NEW items, Len(items) \in Nat
    PROVE  Scanned(r, items, <<>>, ScanOf(r.message, items))
<1> DEFINE scan == ScanOf(r.message, items)
           limit == r.message.result_limit
<1>1. /\ scan.next = 1
      /\ scan.left = IF limit > 0 THEN limit ELSE NoLimit
      /\ limit = 0 => scan.skip = 0
  BY DEF ScanOf
<1> HIDE DEF scan
<1>2. IsInjective(<<>>) /\ DOMAIN <<>> = {} /\ Len(<<>>) = 0
  BY DEF IsInjective
<1>3. 1..(scan.next - 1) = {}
  BY <1>1
<1>4. limit > 0 => scan.left \in Nat /\ Len(<<>>) + scan.left <= limit
  BY <1>1, <1>2
<1>5. limit = 0 => scan.left = NoLimit
  BY <1>1
<1>6. scan.next \in Nat /\ scan.next > 0 /\ scan.next <= Len(items) + 1
  BY <1>1
<1> QED
  BY <1>1, <1>2, <1>3, <1>4, <1>5, <1>6 DEF Scanned, scan

LEMMA ItemPassed ==
    ASSUME NEW r, NEW items, NEW all, NEW scan, Scanned(r, items, all, scan),
           Len(items) \in Nat, scan.next <= Len(items),
           NEW then, then.next = scan.next + 1, then.left = scan.left,
           r.message.result_limit = 0 => then.skip = 0 /\ ~Matches(r, r.message, items[scan.next])
    PROVE  Scanned(r, items, all, then)
<1>1. scan.next \in Nat /\ scan.next > 0
  BY DEF Scanned
<1>2. 1..(then.next - 1) = 1..(scan.next - 1) \union {scan.next}
  BY <1>1
<1>3. then.next \in Nat /\ then.next > 0 /\ then.next <= Len(items) + 1
  BY <1>1
<1> QED
  BY <1>2, <1>3 DEF Scanned

LEMMA ItemTaken ==
    ASSUME NEW r, NEW S, NEW items \in Seq(S), IsInjective(items), NEW all \in Seq(S),
           NEW scan, Scanned(r, items, all, scan), scan.next <= Len(items), scan.left # 0,
           r.message.result_limit \in Int,
           NEW then, then.next = scan.next + 1, then.skip = scan.skip,
           then.left = IF scan.left = NoLimit THEN scan.left ELSE scan.left - 1
    PROVE  Scanned(r, items, Append(all, items[scan.next]), then)
<1> DEFINE x == items[scan.next]
           limit == r.message.result_limit
           more == Append(all, x)
<1>1. scan.next \in Nat /\ scan.next > 0 /\ scan.next \in DOMAIN items /\ x \in S /\ Len(items) \in Nat
  BY DEF Scanned
<1>2. /\ 1..(then.next - 1) = 1..(scan.next - 1) \union {scan.next}
      /\ 1..(scan.next - 1) \subseteq DOMAIN items /\ scan.next \notin 1..(scan.next - 1)
  BY <1>1
<1>3. x \notin Range(all)
  <2> SUFFICES ASSUME NEW i \in DOMAIN all, all[i] = x PROVE FALSE
    BY DEF Range
  <2>1. PICK k \in 1..(scan.next - 1) : all[i] = items[k]
    BY DEF Scanned
  <2>2. k \in DOMAIN items /\ k # scan.next
    BY <1>2
  <2> QED
    BY <1>1, <2>1, <2>2 DEF IsInjective
<1> HIDE DEF x
<1>4. more \in Seq(S) /\ IsInjective(more) /\ Range(more) = Range(all) \union {x} /\ Len(more) = Len(all) + 1
  BY <1>1, <1>3, InjectiveAppend DEF Scanned
<1>5. ASSUME NEW i \in DOMAIN more PROVE \E k \in 1..(then.next - 1) : more[i] = items[k]
  <2>1. CASE i \in DOMAIN all
    <3>1. more[i] = all[i]
      BY <1>1, <2>1
    <3> QED
      BY <1>2, <2>1, <3>1 DEF Scanned
  <2>2. CASE i \notin DOMAIN all
    <3>1. more[i] = x
      BY <1>1, <2>2
    <3> QED
      BY <1>2, <3>1 DEF x
  <2> QED
    BY <2>1, <2>2
<1>6. ASSUME limit > 0 PROVE then.left \in Nat /\ Len(more) + then.left <= limit
  <2>1. scan.left \in Nat /\ Len(all) + scan.left <= limit /\ Len(all) \in Nat
    BY <1>6 DEF Scanned
  <2>2. then.left = scan.left - 1
    BY <2>1 DEF NoLimit
  <2> QED
    BY <1>4, <2>1, <2>2
<1>7. ASSUME limit = 0
      PROVE  /\ then.left = NoLimit /\ then.skip = 0
             /\ \A k \in 1..(then.next - 1) : Matches(r, r.message, items[k]) => items[k] \in Range(more)
  BY <1>2, <1>4, <1>7 DEF Scanned, x
<1>8. then.next \in Nat /\ then.next > 0 /\ then.next <= Len(items) + 1
  BY <1>1
<1> HIDE DEF more
<1>9. Scanned(r, items, more, then)
  BY <1>4, <1>5, <1>6, <1>7, <1>8 DEF Scanned
<1> QED
  BY <1>9 DEF more, x

\* What is appended to the rows while they are scanned changes nothing of what was.
LEMMA ItemsGrow ==
    ASSUME NEW r, NEW items, NEW all, NEW scan, Scanned(r, items, all, scan),
           NEW longer, Prefix(items, longer), Len(items) \in Nat, Len(longer) \in Nat
    PROVE  /\ Scanned(r, longer, all, scan)
           /\ \A b : Len(b) \in Nat /\ Prefix(b, items) => Prefix(b, longer)
<1>1. scan.next \in Nat /\ scan.next > 0 /\ scan.next <= Len(items) + 1
  BY DEF Scanned
<1>2. Len(items) <= Len(longer) /\ \A k \in 1..(scan.next - 1) : longer[k] = items[k]
  BY <1>1 DEF Prefix
<1>3. scan.next <= Len(longer) + 1
  BY <1>1, <1>2
<1>4. Scanned(r, longer, all, scan)
  BY <1>2, <1>3 DEF Scanned
<1>5. ASSUME NEW b, Len(b) \in Nat, Prefix(b, items) PROVE Prefix(b, longer)
  <2>1. Len(b) <= Len(items) /\ \A k \in 1..Len(b) : items[k] = b[k] /\ k \in 1..Len(items)
    BY <1>5 DEF Prefix
  <2>2. Len(b) <= Len(longer)
    BY <1>2, <1>5, <2>1
  <2> QED
    BY <2>1, <2>2 DEF Prefix
<1> QED
  BY <1>4, <1>5

LEMMA ScanDone ==
    ASSUME NEW r, NEW S, NEW b \in Seq(S), NEW items, Prefix(b, items), NEW all \in Seq(S), NEW scan,
           Scanned(r, items, all, scan), r.message.result_limit \in Int,
           scan.atLeast = Len(b), scan.left = 0 \/ scan.next > scan.atLeast
    PROVE  FoundAll(r, b, all)
<1> DEFINE limit == r.message.result_limit
<1>1. IsInjective(all) /\ (limit > 0 => Len(all) <= limit)
  BY DEF Scanned
<1>2. ASSUME limit = 0, NEW x \in Range(b), Matches(r, r.message, x) PROVE x \in Range(all)
  <2>1. PICK k \in 1..Len(b) : x = b[k]
    BY DEF Range
  <2>2. scan.next > Len(b) /\ scan.next \in Nat /\ Len(b) \in Nat
    BY <1>2 DEF Scanned, NoLimit
  <2>3. k \in 1..(scan.next - 1) /\ x = items[k]
    BY <2>1, <2>2 DEF Prefix
  <2> QED
    BY <1>2, <2>3 DEF Scanned
<1> QED
  BY <1>1, <1>2 DEF FoundAll

\* A query that finds nothing at its beginning has nothing to find.
LEMMA NothingFound ==
    ASSUME IndexInv, NEW r, IsSearch(r), IsNothing(r, r.message), r.message.result_limit \in Int,
           rows \in Seq(Rows)
    PROVE  FoundAll(r, Items(r), <<>>)
<1>1. IsInjective(<<>>) /\ Len(<<>>) = 0
  BY DEF IsInjective
<1>2. CASE r.method = "labels"
  <2>1. Barren(r)
    BY <1>2 DEF IsNothing, Barren
  <2> QED
    BY <1>1, <2>1 DEF FoundAll
<1>3. CASE r.method = "series"
  <2>1. ASSUME ~Barren(r), NEW x \in Range(rows), Matches(r, r.message, x) PROVE FALSE
    <3>1. ~IsPrepared(r.message)
      BY <1>3, <2>1 DEF IsNothing, Barren
    <3>2. PICK i \in DOMAIN r.message.constraints :
             \A j \in DOMAIN tables : tables[j] # r.message.constraints[i].label_name
      BY <1>3, <2>1, <3>1 DEF IsPrepared, Barren
    <3>3. r.message.constraints[i].label_name \in DOMAIN Read(Series, Cleared(Series), x).labels
      BY <1>3, <2>1 DEF Matches, Satisfies
    <3>4. r.message.constraints[i].label_name \in Range(tables)
      BY <2>1, <3>3 DEF IndexInv, Tabled
    <3> QED
      BY <3>2, <3>4 DEF Range
  <2>2. Items(r) = rows
    BY <1>3 DEF Items
  <2> QED
    BY <1>1, <2>1, <2>2 DEF FoundAll
<1> QED
  BY <1>2, <1>3 DEF IsSearch
----------------------------------------------------------------------------
(* A search, from its request to its status.                                 *)

Searching == reader.pc \in {"reading", "ended"} /\ Asked.method # "read"
Shaped == /\ DOMAIN serving = {"pc", "wire", "request", "result", "todo", "current", "op", "scan"}
          /\ DOMAIN serving.scan = {"next", "atLeast", "skip", "left", "batch"}
          /\ down = [wires |-> down.wires, done |-> down.done]
Quiet == reader.pc = "idle" => /\ alive /\ serving.pc = "waiting" /\ serving.todo = <<>>
                               /\ serving.current = Unset /\ serving.scan.batch = <<>>
                               /\ down.wires = <<>> /\ down.done = FALSE
\* How far the handler is, and what it owes: nothing is sent before it starts, all it took
\* is on its way, and when the scan is over so is what it had to find.
Phase(r, printed, wires, done, sv, b, items) ==
    LET all == All(r, printed, wires, sv.scan.batch)
    IN  /\ sv.todo = <<>> /\ sv.current = Unset
        /\ sv.pc \in {"starting", "scanning", "last", "returned"}
        /\ Typed(r, printed, wires, sv.scan.batch)
        /\ sv.pc = "starting" => /\ sv.wire = Serialize(RequestType(r), r.message)
                                 /\ printed = <<>> /\ wires = <<>> /\ sv.scan.batch = <<>>
        /\ sv.pc = "scanning" => /\ sv.request = r.message /\ sv.scan.atLeast = Len(b)
                                 /\ b \in Seq(ItemSet(r)) /\ Prefix(b, items)
                                 /\ Scanned(r, items, all, sv.scan)
        /\ sv.pc \in {"last", "returned"} => sv.scan.batch = <<>> /\ FoundAll(r, b, all)
        /\ done => sv.pc = "returned"
Searches == Searching =>
    /\ alive
    /\ Phase(Asked, reader.printed, down.wires, down.done, serving, ItemsBefore, Items(Asked))
    /\ reader.pc = "ended" => down.done /\ down.wires = <<>>
SearchInv == Shaped /\ Quiet /\ Searches

LEMMA InitSearch == Init => SearchInv
<1> SUFFICES ASSUME Init PROVE SearchInv
  OBVIOUS
<1>1. /\ serving = [pc |-> "waiting", wire |-> <<>>, request |-> Unset, result |-> Unset,
                    todo |-> <<>>, current |-> Unset, op |-> NoRead, scan |-> NoScan]
      /\ down = [wires |-> <<>>, done |-> FALSE] /\ reader.pc = "idle" /\ alive = TRUE
  BY DEF Init
<1>2. DOMAIN NoScan = {"next", "atLeast", "skip", "left", "batch"} /\ NoScan.batch = <<>>
  BY DEF NoScan
<1> HIDE DEF NoScan
<1> QED
  BY <1>1, <1>2 DEF SearchInv, Shaped, Quiet, Searches, Searching

LEMMA Asking ==
    ASSUME AskedInv, WriteInv, IndexInv, Searching
    PROVE  /\ Asked \in Requests /\ IsSearch(Asked) /\ Asked.message.result_limit \in Int
           /\ Items(Asked) \in Seq(ItemSet(Asked)) /\ IsInjective(Items(Asked)) /\ Len(Items(Asked)) \in Nat
           /\ rows \in Seq(Rows)
<1>1. Asked \in Requests /\ Asked.method # "read"
  BY DEF AskedInv, Searching
<1>2. IsSearch(Asked) /\ Asked.message.result_limit \in Int
  BY <1>1, SearchArrives
<1>3. rows \in Seq(Rows) /\ tables \in Seq(LabelNames) /\ IsInjective(rows) /\ IsInjective(tables)
  BY DEF WriteInv, Shapes, IndexInv
<1>4. Items(Asked) \in Seq(ItemSet(Asked)) /\ IsInjective(Items(Asked))
  BY <1>2, <1>3 DEF Items, ItemSet, IsSearch
<1>5. Len(Items(Asked)) \in Nat
  BY <1>4
<1> QED
  BY <1>1, <1>2, <1>3, <1>4, <1>5

\* What the others do.
LEMMA SameSearch ==
    ASSUME SearchInv, UNCHANGED <<reader, down, serving, before, rows, tables, alive>>
    PROVE  SearchInv'
<1>1. UNCHANGED <<Asked, ItemsBefore, Items(Asked)>>
  BY DEF Asked, ItemsBefore, Items
<1>2. Shaped' /\ Quiet' /\ (Searching' <=> Searching)
  BY <1>1 DEF SearchInv, Shaped, Quiet, Searching
<1>3. Searches'
  BY <1>1, <1>2 DEF SearchInv, Searches
<1> QED
  BY <1>2, <1>3 DEF SearchInv

LEMMA PhaseGrows ==
    ASSUME NEW r, NEW printed, NEW wires, NEW done, NEW sv, NEW b, NEW items,
           Phase(r, printed, wires, done, sv, b, items),
           NEW longer, Prefix(items, longer), Len(items) \in Nat, Len(longer) \in Nat
    PROVE  Phase(r, printed, wires, done, sv, b, longer)
<1> DEFINE all == All(r, printed, wires, sv.scan.batch)
<1>1. sv.pc = "scanning" => Len(b) \in Nat /\ Prefix(b, items) /\ Scanned(r, items, all, sv.scan)
  BY DEF Phase
<1> HIDE DEF all
<1>2. sv.pc = "scanning" => Prefix(b, longer) /\ Scanned(r, longer, all, sv.scan)
  BY <1>1, ItemsGrow
<1> QED
  BY <1>2 DEF Phase, all

LEMMA IndexSearch == ASSUME AskedInv, WriteInv, IndexInv, SearchInv, Index PROVE SearchInv'
<1>1. UNCHANGED <<reader, down, serving, before, alive>>
  BY DEF Index, reading
<1>2. PICK row \in Rows : rows' = Append(rows, row)
  BY IndexIndexes
<1>3. PICK new \in Seq(LabelNames) : tables' = tables \o new
  BY IndexIndexes
<1>4. UNCHANGED <<Asked, ItemsBefore>>
  BY <1>1 DEF Asked, ItemsBefore
<1>5. Shaped' /\ Quiet' /\ (Searching' <=> Searching)
  BY <1>1, <1>4 DEF SearchInv, Shaped, Quiet, Searching
<1>6. ASSUME Searching PROVE Searches'
  <2> DEFINE items == Items(Asked)
             longer == Items(Asked)'
  <2>1. rows \in Seq(Rows) /\ tables \in Seq(LabelNames)
    BY <1>6, Asking DEF IndexInv
  <2>2. Prefix(rows, rows') /\ Len(rows) \in Nat /\ Len(rows') \in Nat
    BY <1>2, <2>1 DEF Prefix
  <2>3. Prefix(tables, tables') /\ Len(tables) \in Nat /\ Len(tables') \in Nat
    BY <1>3, <2>1 DEF Prefix
  <2>4. Prefix(items, longer) /\ Len(items) \in Nat /\ Len(longer) \in Nat
    BY <1>4, <2>2, <2>3 DEF Items
  <2>5. Phase(Asked, reader.printed, down.wires, down.done, serving, ItemsBefore, items)
    BY <1>6 DEF SearchInv, Searches
  <2> HIDE DEF items, longer
  <2>6. Phase(Asked, reader.printed, down.wires, down.done, serving, ItemsBefore, longer)
    BY <2>4, <2>5, PhaseGrows
  <2> QED
    BY <1>1, <1>4, <1>6, <2>6 DEF SearchInv, Searches, longer
<1>7. ASSUME ~Searching PROVE Searches'
  BY <1>5, <1>7 DEF Searches
<1> QED
  BY <1>5, <1>6, <1>7 DEF SearchInv

\* vqro-read.
LEMMA AskSearches ==
    ASSUME SearchInv, NEW r \in Requests, Refuse(r) \/ AskRead(r) \/ AskSearch(r)
    PROVE  SearchInv'
<1>1. reader.pc = "idle" /\ down' = down /\ alive' = alive
  BY DEF Refuse, AskRead, AskSearch
<1>2. /\ alive /\ serving.todo = <<>> /\ serving.current = Unset /\ serving.scan.batch = <<>>
      /\ down.wires = <<>> /\ down.done = FALSE /\ Shaped
  BY <1>1 DEF SearchInv, Quiet
<1>3. CASE Refuse(r)
  <2>1. serving' = serving /\ reader' = [reader EXCEPT !.pc = "refused", !.request = r]
    BY <1>3 DEF Refuse
  <2>2. reader'.pc \notin {"idle", "reading", "ended"}
    BY <1>1, <2>1
  <2>3. Shaped'
    BY <1>1, <1>2, <2>1 DEF Shaped
  <2> QED
    BY <2>2, <2>3 DEF SearchInv, Quiet, Searches, Searching
<1>4. CASE AskRead(r) \/ AskSearch(r)
  <2>1. PICK message : Asks(r, message) /\ (r.method = "read" \/ message = r.message)
    BY <1>4 DEF AskRead, AskSearch
  <2> DEFINE wire == Serialize(RequestType(r), message)
  <2>2. /\ reader'.pc = "reading" /\ reader'.request = r /\ reader'.printed = <<>>
        /\ serving' = [serving EXCEPT !.pc = "starting", !.wire = wire]
    BY <2>1 DEF Asks
  <2>3. r.method = "read" \/ wire = Serialize(RequestType(r), r.message)
    BY <2>1
  <2> HIDE DEF wire
  <2>4. /\ serving'.pc = "starting" /\ serving'.wire = wire /\ serving'.todo = serving.todo
        /\ serving'.current = serving.current /\ serving'.scan = serving.scan
        /\ DOMAIN serving' = DOMAIN serving
    BY <1>2, <2>2 DEF Shaped
  <2>5. Shaped' /\ Quiet' /\ Asked' = r
    BY <1>1, <1>2, <2>2, <2>4 DEF Shaped, Quiet, Asked
  <2>6. ASSUME r.method # "read"
        PROVE  Phase(r, <<>>, <<>>, FALSE, serving', ItemsBefore', Items(Asked)')
    <3>1. Typed(r, <<>>, <<>>, <<>>)
      BY AllEmpty
    <3> QED
      BY <1>2, <2>3, <2>4, <2>6, <3>1 DEF Phase
  <2>7. Searches'
    BY <1>1, <1>2, <2>2, <2>5, <2>6 DEF Searches, Searching
  <2> QED
    BY <2>5, <2>7 DEF SearchInv
<1> QED
  BY <1>3, <1>4

LEMMA ShowSearches == ASSUME AskedInv, WriteInv, IndexInv, SearchInv, Show PROVE SearchInv'
<1> DEFINE r == Asked
           result == Read(ResultType(r), reader.result, Head(down.wires))
           batch == serving.scan.batch
<1>1. /\ reader.pc = "reading" /\ down.wires # <<>>
      /\ reader' = [reader EXCEPT !.result = result, !.printed = Append(@, result)]
      /\ down' = [down EXCEPT !.wires = Tail(@)]
      /\ UNCHANGED <<serving, before, rows, tables, alive>>
  BY DEF Show, Asked, database, index
<1> HIDE DEF result
<1>2. /\ reader'.pc = "reading" /\ reader'.request = reader.request
      /\ reader'.printed = Append(reader.printed, result)
  BY <1>1 DEF AskedInv
<1>3. down'.wires = Tail(down.wires) /\ down'.done = down.done /\ Shaped'
  BY <1>1 DEF SearchInv, Shaped
<1>4. Asked' = r /\ ItemsBefore' = ItemsBefore /\ Items(Asked)' = Items(r) /\ Quiet'
  BY <1>1, <1>2 DEF Asked, ItemsBefore, Items, Quiet
<1>5. ASSUME Searching PROVE Searches'
  <2>1. Phase(r, reader.printed, down.wires, down.done, serving, ItemsBefore, Items(r)) /\ alive
    BY <1>5 DEF SearchInv, Searches
  <2>2. IsSearch(r)
    BY <1>5, Asking
  <2>3. Typed(r, reader.printed, down.wires, batch)
    BY <2>1 DEF Phase
  <2> HIDE DEF r, batch
  <2>4. /\ Typed(r, Append(reader.printed, result), Tail(down.wires), batch)
        /\ All(r, Append(reader.printed, result), Tail(down.wires), batch) = All(r, reader.printed, down.wires, batch)
    BY <1>1, <2>2, <2>3, AllShown DEF result
  <2>5. serving.pc # "starting"
    BY <1>1, <2>1 DEF Phase
  <2>6. Phase(r, Append(reader.printed, result), Tail(down.wires), down.done, serving, ItemsBefore, Items(r))
    BY <2>1, <2>4, <2>5 DEF Phase, batch
  <2> QED
    BY <1>1, <1>2, <1>3, <1>4, <2>1, <2>6 DEF Searches
<1>6. ASSUME ~Searching PROVE Searches'
  BY <1>1, <1>2, <1>4, <1>6 DEF Searches, Searching
<1> QED
  BY <1>3, <1>4, <1>5, <1>6 DEF SearchInv

LEMMA EndSearches == ASSUME AskedInv, SearchInv, ReadsEnd PROVE SearchInv'
<1>1. /\ reader.pc = "reading" /\ down.wires = <<>> /\ (down.done \/ ~alive)
      /\ reader' = [reader EXCEPT !.pc = "ended"]
      /\ UNCHANGED <<down, serving, before, rows, tables, alive>>
  BY DEF ReadsEnd, database, index
<1>2. reader'.pc = "ended" /\ reader'.request = reader.request /\ reader'.printed = reader.printed
  BY <1>1 DEF AskedInv
<1>3. Asked' = Asked /\ ItemsBefore' = ItemsBefore /\ Items(Asked)' = Items(Asked)
  BY <1>1, <1>2 DEF Asked, ItemsBefore, Items
<1>4. Shaped' /\ Quiet'
  BY <1>1, <1>2 DEF SearchInv, Shaped, Quiet
<1>5. Searches'
  BY <1>1, <1>2, <1>3 DEF SearchInv, Searches, Searching
<1> QED
  BY <1>4, <1>5 DEF SearchInv
\* The handler.
LEMMA CallBackShapes ==
    ASSUME Shaped, NEW r, NEW served, DOMAIN served = DOMAIN serving, DOMAIN served.scan = DOMAIN serving.scan,
           CallBack(r, served)
    PROVE  /\ Shaped'
           /\ r.method # "read" =>
                 /\ serving' = [served EXCEPT !.scan.batch = <<>>]
                 /\ down'.wires = Append(down.wires, SentOf(r, served.scan.batch)) /\ down'.done = down.done
<1> DEFINE cleared == [served EXCEPT !.scan.batch = <<>>]
           batch == BatchOf(r, served.scan.batch)
           wire == Serialize(ResultType(r), batch)
<1>1. \/ r.method = "read" /\ serving' = [cleared EXCEPT !.todo = batch.matches] /\ down' = down
      \/ r.method # "read" /\ serving' = cleared /\ down' = [down EXCEPT !.wires = Append(@, wire)]
  BY DEF CallBack
<1>2. wire = SentOf(r, served.scan.batch)
  BY DEF SentOf
<1>3. DOMAIN cleared = DOMAIN serving /\ DOMAIN cleared.scan = DOMAIN serving.scan
  BY DEF Shaped
<1> HIDE DEF cleared, batch, wire
<1>4. DOMAIN serving' = DOMAIN serving /\ DOMAIN serving'.scan = DOMAIN serving.scan
  BY <1>1, <1>3 DEF Shaped
<1>5. /\ down' = [wires |-> down'.wires, done |-> down'.done]
      /\ r.method # "read" => down'.wires = Append(down.wires, wire) /\ down'.done = down.done
  BY <1>1 DEF Shaped
<1> QED
  BY <1>1, <1>2, <1>4, <1>5 DEF Shaped, cleared

LEMMA ScanShapes ==
    ASSUME Shaped
    PROVE  /\ DOMAIN [serving EXCEPT !.scan.next = @ + 1] = DOMAIN serving
           /\ DOMAIN [serving EXCEPT !.scan.next = @ + 1].scan = DOMAIN serving.scan
           /\ DOMAIN [serving EXCEPT !.scan.next = @ + 1, !.scan.skip = @ - 1] = DOMAIN serving
           /\ DOMAIN [serving EXCEPT !.scan.next = @ + 1, !.scan.skip = @ - 1].scan = DOMAIN serving.scan
  BY DEF Shaped

Taken == [serving EXCEPT !.scan.next = @ + 1, !.scan.batch = Append(@, Row),
                         !.scan.left = IF @ = NoLimit THEN @ ELSE @ - 1]
LEMMA TakenIs ==
    ASSUME Shaped
    PROVE  /\ DOMAIN Taken = DOMAIN serving /\ DOMAIN Taken.scan = DOMAIN serving.scan
           /\ Taken.pc = serving.pc /\ Taken.todo = serving.todo /\ Taken.current = serving.current
           /\ Taken.request = serving.request /\ Taken.wire = serving.wire
           /\ Taken.scan.next = Scan.next + 1 /\ Taken.scan.skip = Scan.skip /\ Taken.scan.atLeast = Scan.atLeast
           /\ Taken.scan.batch = Append(Scan.batch, Row)
           /\ Taken.scan.left = IF Scan.left = NoLimit THEN Scan.left ELSE Scan.left - 1
  BY DEF Shaped, Taken, Scan

Over == [serving EXCEPT !.pc = "last"]
LEMMA OverIs ==
    ASSUME Shaped
    PROVE  /\ DOMAIN Over = DOMAIN serving /\ DOMAIN Over.scan = DOMAIN serving.scan
           /\ Over.pc = "last" /\ Over.todo = serving.todo /\ Over.current = serving.current
           /\ Over.scan = serving.scan
  BY DEF Shaped, Over

LEMMA ServeShapes == ASSUME Shaped, Serve PROVE Shaped'
<1>1. CASE Start
  <2> DEFINE request == Read(RequestType(Asked), Cleared(RequestType(Asked)), serving.wire)
             query == IF Asked.method = "read" THEN request.query ELSE request
             started == [serving EXCEPT !.request = request]
             scan == ScanOf(query, Items(Asked))
  <2>1. /\ down' = down
        /\ \/ serving' = [started EXCEPT !.pc = "last", !.todo = request.list.series]
           \/ serving' = [started EXCEPT !.pc = "last"]
           \/ serving' = [started EXCEPT !.pc = "scanning", !.scan = scan]
    BY <1>1 DEF Start
  <2>2. DOMAIN scan = {"next", "atLeast", "skip", "left", "batch"}
    BY DEF ScanOf
  <2> HIDE DEF request, query, scan
  <2>3. DOMAIN started = DOMAIN serving /\ started.scan = serving.scan
    BY DEF Shaped
  <2> HIDE DEF started
  <2>4. CASE serving' = [started EXCEPT !.pc = "last", !.todo = request.list.series]
    BY <2>1, <2>3, <2>4 DEF Shaped
  <2>5. CASE serving' = [started EXCEPT !.pc = "last"]
    BY <2>1, <2>3, <2>5 DEF Shaped
  <2>6. CASE serving' = [started EXCEPT !.pc = "scanning", !.scan = scan]
    BY <2>1, <2>2, <2>3, <2>6 DEF Shaped
  <2> QED
    BY <2>1, <2>4, <2>5, <2>6
<1>2. CASE PassRow \/ SkipRow
  <2>1. down' = down /\ \/ serving' = [serving EXCEPT !.scan.next = @ + 1]
                        \/ serving' = [serving EXCEPT !.scan.next = @ + 1, !.scan.skip = @ - 1]
    BY <1>2 DEF PassRow, SkipRow
  <2> QED
    BY <2>1, ScanShapes DEF Shaped
<1>3. CASE TakeRow
  <2>1. CallBack(Asked, Taken) \/ (serving' = Taken /\ down' = down)
    BY <1>3 DEF TakeRow, Taken
  <2> QED
    BY <2>1, TakenIs, CallBackShapes DEF Shaped
<1>4. CASE ScanEnds
  <2>1. CallBack(Asked, Over) \/ (serving' = Over /\ down' = down)
    BY <1>4 DEF ScanEnds, Over
  <2> QED
    BY <2>1, OverIs, CallBackShapes DEF Shaped
<1>5. CASE ReadSeries
  BY <1>5 DEF ReadSeries, Shaped
<1>6. CASE Dies
  BY <1>6 DEF Dies, Shaped
<1>7. CASE ReadChunk
  <2>1. \E op, result, wire : /\ serving' = [serving EXCEPT !.op = op, !.result = result]
                              /\ down' = [down EXCEPT !.wires = Append(@, wire)]
    BY <1>7 DEF ReadChunk
  <2> QED
    BY <2>1 DEF Shaped
<1>8. CASE LeaveSeries
  BY <1>8 DEF LeaveSeries, Shaped
<1>9. CASE ReadReturns
  BY <1>9 DEF ReadReturns, Shaped
<1> QED
  BY <1>1, <1>2, <1>3, <1>4, <1>5, <1>6, <1>7, <1>8, <1>9 DEF Serve
LEMMA NotIdle == ASSUME SearchInv, Serve PROVE reader.pc # "idle"
<1> SUFFICES ASSUME reader.pc = "idle" PROVE FALSE
  OBVIOUS
<1>1. serving.pc = "waiting" /\ serving.todo = <<>> /\ serving.current = Unset
  BY DEF SearchInv, Quiet
<1> QED
  BY <1>1 DEF Serve, Start, PassRow, SkipRow, TakeRow, ScanEnds, ReadSeries, Dies, ReadChunk, LeaveSeries,
              ReadReturns, AtRow

\* A search between its request and its status has said nothing of its end.
LEMMA Unfinished ==
    ASSUME AskedInv, WriteInv, IndexInv, SearchInv, Searching, serving.pc # "returned"
    PROVE  /\ reader.pc = "reading" /\ ~down.done /\ alive
           /\ Phase(Asked, reader.printed, down.wires, down.done, serving, ItemsBefore, Items(Asked))
<1>1. /\ Phase(Asked, reader.printed, down.wires, down.done, serving, ItemsBefore, Items(Asked)) /\ alive
      /\ reader.pc = "ended" => down.done
  BY DEF SearchInv, Searches
<1>2. ~down.done
  BY <1>1 DEF Phase
<1> QED
  BY <1>1, <1>2 DEF Searching

\* It is enough to show the phase the handler is in next.
LEMMA NextPhase ==
    ASSUME SearchInv, Serve, UNCHANGED <<reader, rows, tables>>,
           Searching => /\ alive' /\ reader.pc = "reading"
                        /\ Phase(Asked, reader.printed, down'.wires, down'.done, serving', ItemsBefore', Items(Asked))
    PROVE  SearchInv'
<1>1. Asked' = Asked /\ Items(Asked)' = Items(Asked)
  BY DEF Asked, Items
<1>2. Shaped'
  BY ServeShapes DEF SearchInv
<1>3. Quiet'
  BY NotIdle DEF Quiet
<1>4. Searches'
  BY <1>1 DEF Searches, Searching
<1> QED
  BY <1>2, <1>3, <1>4 DEF SearchInv

LEMMA StartSearches == ASSUME AskedInv, WriteInv, IndexInv, SearchInv, Searching, Start PROVE SearchInv'
<1> DEFINE r == Asked
           M == RequestType(r)
           items == Items(r)
           request == Read(M, Cleared(M), serving.wire)
           scan == ScanOf(request, items)
<1>1. /\ serving.pc = "starting" /\ UNCHANGED <<reader, down, rows, tables, alive>> /\ r.method # "read"
      /\ before' = [store |-> store, rows |-> rows, tables |-> tables]
      /\ serving' = IF IsNothing(r, request) THEN [serving EXCEPT !.request = request, !.pc = "last"]
                    ELSE [serving EXCEPT !.request = request, !.pc = "scanning", !.scan = scan]
  <2>1. /\ serving.pc = "starting" /\ UNCHANGED <<reader, down, rows, tables, alive>>
        /\ before' = [store |-> store, rows |-> rows, tables |-> tables]
    BY DEF Start, writing, database, index
  <2>2. r.method # "read"
    BY DEF Searching
  <2> DEFINE started == [serving EXCEPT !.request = request]
  <2>3. serving' = IF IsNothing(r, request) THEN [started EXCEPT !.pc = "last"]
                   ELSE [started EXCEPT !.pc = "scanning", !.scan = scan]
    BY <2>2 DEF Start
  <2> HIDE DEF request, scan
  <2>4. /\ [started EXCEPT !.pc = "last"] = [serving EXCEPT !.request = request, !.pc = "last"]
        /\ [started EXCEPT !.pc = "scanning", !.scan = scan]
             = [serving EXCEPT !.request = request, !.pc = "scanning", !.scan = scan]
    BY DEF SearchInv, Shaped
  <2> QED
    BY <2>1, <2>2, <2>3, <2>4
<1>2. /\ reader.pc = "reading" /\ ~down.done /\ alive
      /\ Phase(r, reader.printed, down.wires, down.done, serving, ItemsBefore, items)
  BY <1>1, Unfinished
<1>3. /\ serving.wire = Serialize(M, r.message) /\ reader.printed = <<>> /\ down.wires = <<>>
      /\ serving.scan.batch = <<>> /\ serving.todo = <<>> /\ serving.current = Unset
  BY <1>1, <1>2 DEF Phase
<1>4. /\ r \in Requests /\ r.message.result_limit \in Int /\ IsSearch(r)
      /\ items \in Seq(ItemSet(r)) /\ Len(items) \in Nat /\ rows \in Seq(Rows)
  BY Asking
<1>5. request = r.message
  BY <1>1, <1>3, <1>4, SearchArrives
<1>6. ItemsBefore' = items
  BY <1>1 DEF ItemsBefore, Items, Asked
<1>7. Typed(r, <<>>, <<>>, <<>>) /\ All(r, <<>>, <<>>, <<>>) = <<>>
  BY AllEmpty
<1> HIDE DEF request
<1>8. CASE IsNothing(r, r.message)
  <2>1. FoundAll(r, items, <<>>)
    BY <1>4, <1>8, NothingFound
  <2>2. serving' = [serving EXCEPT !.request = request, !.pc = "last"]
    BY <1>1, <1>5, <1>8
  <2>3. /\ serving'.pc = "last" /\ serving'.todo = <<>> /\ serving'.current = Unset
        /\ serving'.scan.batch = <<>>
    BY <1>3, <2>2 DEF SearchInv, Shaped
  <2> HIDE DEF r, items
  <2>4. Phase(r, <<>>, <<>>, down.done, serving', items, items)
    BY <1>2, <1>7, <2>1, <2>3 DEF Phase
  <2> QED
    BY <1>1, <1>2, <1>3, <1>6, <2>4, NextPhase DEF Serve, r, items
<1>9. CASE ~IsNothing(r, r.message)
  <2>1. serving' = [serving EXCEPT !.request = request, !.pc = "scanning", !.scan = scan]
    BY <1>1, <1>5, <1>9
  <2>2. Scanned(r, items, <<>>, scan)
    BY <1>4, <1>5, ScanBegins
  <2>3. scan.batch = <<>> /\ scan.atLeast = Len(items)
    BY DEF ScanOf
  <2>4. Prefix(items, items)
    BY <1>4 DEF Prefix
  <2> HIDE DEF scan
  <2>5. /\ serving'.pc = "scanning" /\ serving'.todo = <<>> /\ serving'.current = Unset
        /\ serving'.request = r.message /\ serving'.scan = scan
    BY <1>3, <1>5, <2>1 DEF SearchInv, Shaped
  <2> HIDE DEF r, items
  <2>6. Phase(r, <<>>, <<>>, down.done, serving', items, items)
    BY <1>2, <1>4, <1>7, <2>2, <2>3, <2>4, <2>5 DEF Phase
  <2> QED
    BY <1>1, <1>2, <1>3, <1>6, <2>6, NextPhase DEF Serve, r, items
<1> QED
  BY <1>8, <1>9

\* At a row.
LEMMA AtRowIs ==
    ASSUME AskedInv, WriteInv, IndexInv, SearchInv, Searching, serving.pc = "scanning"
    PROVE  /\ Query = Asked.message
           /\ Typed(Asked, reader.printed, down.wires, Scan.batch)
           /\ ItemsBefore \in Seq(ItemSet(Asked)) /\ Prefix(ItemsBefore, Items(Asked))
           /\ Scan.atLeast = Len(ItemsBefore)
           /\ Scanned(Asked, Items(Asked), All(Asked, reader.printed, down.wires, Scan.batch), Scan)
           /\ serving.request = Asked.message /\ serving.todo = <<>> /\ serving.current = Unset
           /\ reader.pc = "reading" /\ ~down.done /\ alive
<1>1. /\ reader.pc = "reading" /\ ~down.done /\ alive
      /\ Phase(Asked, reader.printed, down.wires, down.done, serving, ItemsBefore, Items(Asked))
  BY Unfinished
<1>2. Asked.method # "read"
  BY DEF Searching
<1> QED
  BY <1>1, <1>2 DEF Phase, Query, Scan

LEMMA PassSearches ==
    ASSUME AskedInv, WriteInv, IndexInv, SearchInv, Searching, PassRow \/ SkipRow
    PROVE  SearchInv'
<1> DEFINE r == Asked
           items == Items(r)
           all == All(r, reader.printed, down.wires, Scan.batch)
<1>1. /\ serving.pc = "scanning" /\ Scan.next <= Len(items) /\ UNCHANGED <<reader, down, before, rows, tables, alive>>
      /\ \/ /\ ~Matches(r, Query, items[Scan.next])
            /\ serving' = [serving EXCEPT !.scan.next = @ + 1]
         \/ /\ Scan.skip > 0
            /\ serving' = [serving EXCEPT !.scan.next = @ + 1, !.scan.skip = @ - 1]
  BY DEF PassRow, SkipRow, AtRow, Row, writing, database, index
<1>2. /\ Query = r.message /\ Typed(r, reader.printed, down.wires, Scan.batch)
      /\ ItemsBefore \in Seq(ItemSet(r)) /\ Prefix(ItemsBefore, items) /\ Scan.atLeast = Len(ItemsBefore)
      /\ Scanned(r, items, all, Scan)
      /\ serving.request = r.message /\ serving.todo = <<>> /\ serving.current = Unset
      /\ reader.pc = "reading" /\ ~down.done /\ alive
  BY <1>1, AtRowIs
<1>3. Len(items) \in Nat
  BY Asking
<1>4. Shaped
  BY DEF SearchInv
<1>5. ItemsBefore' = ItemsBefore
  BY <1>1 DEF ItemsBefore, Asked
<1> HIDE DEF r, items, all
<1>6. /\ serving'.pc = "scanning" /\ serving'.todo = <<>> /\ serving'.current = Unset
      /\ serving'.request = r.message /\ serving'.scan.atLeast = Scan.atLeast
      /\ serving'.scan.batch = Scan.batch /\ serving'.scan.next = Scan.next + 1
      /\ serving'.scan.left = Scan.left
      /\ (~Matches(r, Query, items[Scan.next]) /\ serving'.scan.skip = Scan.skip) \/ Scan.skip > 0
  <2>1. CASE ~Matches(r, Query, items[Scan.next]) /\ serving' = [serving EXCEPT !.scan.next = @ + 1]
    BY <1>1, <1>2, <1>4, <2>1 DEF Shaped, Scan
  <2>2. CASE Scan.skip > 0 /\ serving' = [serving EXCEPT !.scan.next = @ + 1, !.scan.skip = @ - 1]
    BY <1>1, <1>2, <1>4, <2>2 DEF Shaped, Scan
  <2> QED
    BY <1>1, <2>1, <2>2
<1>7. r.message.result_limit = 0 => serving'.scan.skip = 0 /\ ~Matches(r, r.message, items[Scan.next])
  BY <1>2, <1>6 DEF Scanned
<1>8. Scanned(r, items, all, serving'.scan)
  BY <1>1, <1>2, <1>3, <1>6, <1>7, ItemPassed
<1>9. Phase(r, reader.printed, down.wires, down.done, serving', ItemsBefore, items)
  BY <1>2, <1>6, <1>8 DEF Phase, all
<1> QED
  BY <1>1, <1>2, <1>5, <1>9, NextPhase DEF Serve, r, items

LEMMA TakeSearches ==
    ASSUME AskedInv, WriteInv, IndexInv, SearchInv, Searching, TakeRow
    PROVE  SearchInv'
<1> DEFINE r == Asked
           items == Items(r)
           all == All(r, reader.printed, down.wires, Scan.batch)
           batch == Append(Scan.batch, Row)
           more == Append(all, Row)
<1>1. /\ serving.pc = "scanning" /\ Scan.next <= Len(items) /\ Scan.left # 0 /\ Row = items[Scan.next]
      /\ UNCHANGED <<reader, before, rows, tables, alive>>
      /\ CallBack(r, Taken) \/ (serving' = Taken /\ down' = down)
  BY DEF TakeRow, Taken, AtRow, Row, writing, database, index
<1>2. /\ Typed(r, reader.printed, down.wires, Scan.batch)
      /\ ItemsBefore \in Seq(ItemSet(r)) /\ Prefix(ItemsBefore, items) /\ Scan.atLeast = Len(ItemsBefore)
      /\ Scanned(r, items, all, Scan)
      /\ serving.request = r.message /\ serving.todo = <<>> /\ serving.current = Unset
      /\ reader.pc = "reading" /\ ~down.done /\ alive
  BY <1>1, AtRowIs
<1>3. /\ IsSearch(r) /\ r.message.result_limit \in Int /\ items \in Seq(ItemSet(r)) /\ IsInjective(items)
      /\ Len(items) \in Nat /\ r.method # "read"
  BY Asking DEF Searching
<1>4. Shaped
  BY DEF SearchInv
<1>5. ItemsBefore' = ItemsBefore
  BY <1>1 DEF ItemsBefore, Asked
<1>6. /\ Taken.pc = serving.pc /\ Taken.todo = serving.todo /\ Taken.current = serving.current
      /\ Taken.request = serving.request
      /\ Taken.scan.next = Scan.next + 1 /\ Taken.scan.skip = Scan.skip /\ Taken.scan.atLeast = Scan.atLeast
      /\ Taken.scan.batch = batch
      /\ Taken.scan.left = IF Scan.left = NoLimit THEN Scan.left ELSE Scan.left - 1
      /\ DOMAIN Taken = DOMAIN serving /\ DOMAIN Taken.scan = DOMAIN serving.scan
  BY <1>4, TakenIs
<1>7. Row \in ItemSet(r)
  BY <1>1, <1>2, <1>3 DEF Scanned
<1> HIDE DEF r, items, all
<1>8. all \in Seq(ItemSet(r))
  BY <1>2, <1>3, AllIn DEF all
<1>9. Scanned(r, items, more, Taken.scan)
  BY <1>1, <1>2, <1>3, <1>6, <1>8, ItemTaken
<1>10. Typed(r, reader.printed, down.wires, batch) /\ All(r, reader.printed, down.wires, batch) = more
  BY <1>2, <1>3, <1>7, AllTaken DEF all
<1> HIDE DEF batch, more
<1>11. CASE serving' = Taken /\ down' = down
  <2>1. Phase(r, reader.printed, down'.wires, down'.done, serving', ItemsBefore, items)
    BY <1>1, <1>2, <1>6, <1>9, <1>10, <1>11 DEF Phase
  <2> QED
    BY <1>1, <1>2, <1>5, <2>1, NextPhase DEF Serve, r, items
<1>12. CASE CallBack(r, Taken)
  <2>1. /\ serving' = [Taken EXCEPT !.scan.batch = <<>>]
        /\ down'.wires = Append(down.wires, SentOf(r, batch)) /\ down'.done = down.done
    BY <1>3, <1>4, <1>6, <1>12, CallBackShapes
  <2>2. /\ serving'.pc = "scanning" /\ serving'.todo = <<>> /\ serving'.current = Unset
        /\ serving'.request = r.message /\ serving'.scan.batch = <<>>
        /\ serving'.scan.next = Taken.scan.next /\ serving'.scan.skip = Taken.scan.skip
        /\ serving'.scan.left = Taken.scan.left /\ serving'.scan.atLeast = Taken.scan.atLeast
    BY <1>1, <1>2, <1>4, <1>6, <2>1 DEF Shaped
  <2>3. /\ Typed(r, reader.printed, down'.wires, <<>>) /\ All(r, reader.printed, down'.wires, <<>>) = more
    BY <1>3, <1>10, <2>1, AllSent
  <2>4. Scanned(r, items, more, serving'.scan)
    BY <1>9, <2>2 DEF Scanned
  <2>5. Phase(r, reader.printed, down'.wires, down'.done, serving', ItemsBefore, items)
    BY <1>2, <1>6, <2>1, <2>2, <2>3, <2>4 DEF Phase
  <2> QED
    BY <1>1, <1>2, <1>5, <2>5, NextPhase DEF Serve, r, items
<1> QED
  BY <1>1, <1>11, <1>12

LEMMA OverSearches ==
    ASSUME AskedInv, WriteInv, IndexInv, SearchInv, Searching, ScanEnds
    PROVE  SearchInv'
<1> DEFINE r == Asked
           items == Items(r)
           batch == Scan.batch
           all == All(r, reader.printed, down.wires, batch)
<1>1. /\ serving.pc = "scanning" /\ (Scan.left = 0 \/ Scan.next > Scan.atLeast)
      /\ UNCHANGED <<reader, before, rows, tables, alive>>
      /\ \/ batch # <<>> /\ CallBack(r, Over)
         \/ batch = <<>> /\ serving' = Over /\ down' = down
  BY DEF ScanEnds, Over, writing, database, index
<1>2. /\ Typed(r, reader.printed, down.wires, batch)
      /\ ItemsBefore \in Seq(ItemSet(r)) /\ Prefix(ItemsBefore, items) /\ Scan.atLeast = Len(ItemsBefore)
      /\ Scanned(r, items, all, Scan)
      /\ serving.request = r.message /\ serving.todo = <<>> /\ serving.current = Unset
      /\ reader.pc = "reading" /\ ~down.done /\ alive
  BY <1>1, AtRowIs
<1>3. IsSearch(r) /\ r.message.result_limit \in Int /\ r.method # "read"
  BY Asking DEF Searching
<1>4. Shaped
  BY DEF SearchInv
<1>5. ItemsBefore' = ItemsBefore
  BY <1>1 DEF ItemsBefore, Asked
<1>6. /\ Over.pc = "last" /\ Over.todo = serving.todo /\ Over.current = serving.current
      /\ Over.scan = serving.scan /\ Over.scan.batch = batch
      /\ DOMAIN Over = DOMAIN serving /\ DOMAIN Over.scan = DOMAIN serving.scan
  BY <1>4, OverIs DEF Scan
<1> HIDE DEF r, items, all, batch
<1>7. all \in Seq(ItemSet(r))
  BY <1>2, <1>3, AllIn DEF all
<1>8. FoundAll(r, ItemsBefore, all)
  BY <1>1, <1>2, <1>3, <1>7, ScanDone
<1>9. CASE batch = <<>> /\ serving' = Over /\ down' = down
  <2>1. Phase(r, reader.printed, down'.wires, down'.done, serving', ItemsBefore, items)
    BY <1>2, <1>6, <1>8, <1>9 DEF Phase, all
  <2> QED
    BY <1>1, <1>2, <1>5, <2>1, NextPhase DEF Serve, r, items
<1>10. CASE CallBack(r, Over)
  <2>1. /\ serving' = [Over EXCEPT !.scan.batch = <<>>]
        /\ down'.wires = Append(down.wires, SentOf(r, batch)) /\ down'.done = down.done
    BY <1>3, <1>4, <1>6, <1>10, CallBackShapes
  <2>2. /\ serving'.pc = "last" /\ serving'.todo = <<>> /\ serving'.current = Unset
        /\ serving'.scan.batch = <<>>
    BY <1>2, <1>4, <1>6, <2>1 DEF Shaped
  <2>3. /\ Typed(r, reader.printed, down'.wires, <<>>) /\ All(r, reader.printed, down'.wires, <<>>) = all
    BY <1>2, <1>3, <2>1, AllSent DEF all
  <2>4. Phase(r, reader.printed, down'.wires, down'.done, serving', ItemsBefore, items)
    BY <1>2, <1>8, <2>1, <2>2, <2>3 DEF Phase
  <2> QED
    BY <1>1, <1>2, <1>5, <2>4, NextPhase DEF Serve, r, items
<1> QED
  BY <1>1, <1>9, <1>10

LEMMA ReturnSearches ==
    ASSUME AskedInv, WriteInv, IndexInv, SearchInv, Searching, ReadReturns
    PROVE  SearchInv'
<1>1. /\ serving.pc = "last" /\ UNCHANGED <<reader, before, rows, tables, alive>>
      /\ serving' = [serving EXCEPT !.pc = "returned"] /\ down' = [down EXCEPT !.done = TRUE]
  BY DEF ReadReturns, writing, database, index
<1>2. /\ reader.pc = "reading" /\ alive
      /\ Phase(Asked, reader.printed, down.wires, down.done, serving, ItemsBefore, Items(Asked))
  BY <1>1, Unfinished
<1>3. /\ serving'.pc = "returned" /\ serving'.todo = serving.todo /\ serving'.current = serving.current
      /\ serving'.scan = serving.scan /\ down'.wires = down.wires
  BY <1>1 DEF SearchInv, Shaped
<1>4. ItemsBefore' = ItemsBefore
  BY <1>1 DEF ItemsBefore, Asked
<1>5. Phase(Asked, reader.printed, down'.wires, down'.done, serving', ItemsBefore', Items(Asked))
  BY <1>1, <1>2, <1>3, <1>4 DEF Phase
<1> QED
  BY <1>1, <1>2, <1>5, NextPhase DEF Serve
LEMMA ServeSearches ==
    ASSUME AskedInv, WriteInv, IndexInv, SearchInv, Serve
    PROVE  SearchInv'
<1>1. UNCHANGED <<reader, rows, tables>>
  BY DEF Serve, Start, PassRow, SkipRow, TakeRow, ScanEnds, ReadSeries, Dies, ReadChunk, LeaveSeries,
         ReadReturns, writing, database, index
<1>2. CASE ~Searching
  BY <1>1, <1>2, NextPhase
<1>3. CASE Searching
  <2>1. serving.todo = <<>> /\ serving.current = Unset
    BY <1>3 DEF SearchInv, Searches, Phase
  <2>2. ~(ReadSeries \/ Dies \/ ReadChunk \/ LeaveSeries)
    BY <2>1 DEF ReadSeries, Dies, ReadChunk, LeaveSeries
  <2> QED
    BY <1>3, <2>2, StartSearches, PassSearches, TakeSearches, OverSearches, ReturnSearches DEF Serve
<1> QED
  BY <1>2, <1>3

LEMMA StepSearch == AskedInv /\ WriteInv /\ IndexInv /\ SearchInv /\ [Next]_vars => SearchInv'
<1> SUFFICES ASSUME AskedInv, WriteInv, IndexInv, SearchInv, [Next]_vars PROVE SearchInv'
  OBVIOUS
<1>1. CASE VqroWrite
  <2>1. UNCHANGED <<reader, down, serving, before, rows, tables, alive>>
    BY <1>1 DEF VqroWrite, BlankLine, BadLine, BadPoint, Record, InputEnds, WritesDone, Finish, reading,
                database, index
  <2> QED
    BY <2>1, SameSearch
<1>2. CASE Store \/ WriteReturns
  <2>1. UNCHANGED <<reader, down, serving, before, rows, tables, alive>>
    BY <1>2 DEF Store, WriteReturns, reading, database, index
  <2> QED
    BY <2>1, SameSearch
<1>3. CASE Index
  BY <1>3, IndexSearch
<1>4. CASE VqroRead
  BY <1>4, AskSearches, ShowSearches, EndSearches DEF VqroRead
<1>5. CASE Serve
  BY <1>5, ServeSearches
<1>6. CASE Ended \/ UNCHANGED vars
  <2>1. UNCHANGED <<reader, down, serving, before, rows, tables, alive>>
    BY <1>6 DEF Ended, vars
  <2> QED
    BY <2>1, SameSearch
<1> QED
  BY <1>1, <1>2, <1>3, <1>4, <1>5, <1>6 DEF Next, WriteDatapoints

LEMMA SearchInvHolds == Spec => [](AskedInv /\ WriteInv /\ IndexInv /\ SearchInv)
<1> DEFINE I == AskedInv /\ StreamInv /\ WriteInv /\ IndexInv /\ SearchInv
<1>1. Init => I
  BY InitAsked, InitStream, InitWrite, InitIndex, InitSearch
<1>2. I /\ [Next]_vars => I'
  <2> SUFFICES ASSUME I, [Next]_vars PROVE I'
    OBVIOUS
  <2> QED
    BY StepAsked, StepStream, StepWrite, StepIndex, StepSearch
<1>3. I => AskedInv /\ WriteInv /\ IndexInv /\ SearchInv
  OBVIOUS
<1> QED
  BY <1>1, <1>2, <1>3, PTL DEF Spec

LEMMA FoundIs ==
    ASSUME NEW r, r = Asked, IsSearch(r), reader.printed \in Seq(Results(r))
    PROVE  Found = Joined(reader.printed, ShownIn(r))
<1> DEFINE p == reader.printed
           F(i) == IF r.method = "labels" THEN p[i].labels
                   ELSE [j \in DOMAIN p[i].matches |-> Serialize(Series, p[i].matches[j])]
<1>1. Found = FlattenSeq([i \in DOMAIN p |-> F(i)])
  BY DEF Found
<1>2. \A i \in DOMAIN p : ShownIn(r)[p[i]] = F(i)
  BY DEF ShownIn, Shown
<1> HIDE DEF p, F
<1> QED
  BY <1>1, <1>2 DEF Joined, p

\* A search of vqro-read, of series or of label names: what it has printed holds nothing
\* twice and no more than the limit asked for; when it has ended and no limit was set, it
\* holds every row and every name that was indexed when it began and fits the query. So it
\* is although the rows come in batches of any size, are read into one message object, and
\* are added to by another client's writes during the scan.
THEOREM SearchFindsAll == Spec => []SearchIsExact
<1>1. AskedInv /\ WriteInv /\ IndexInv /\ SearchInv => SearchIsExact
  <2> SUFFICES ASSUME AskedInv, WriteInv, IndexInv, SearchInv, Searching
               PROVE  LET limit == Asked.message.result_limit
                      IN  /\ IsInjective(Found)
                          /\ limit > 0 => Len(Found) <= limit
                          /\ reader.pc = "ended" /\ alive /\ limit = 0 /\ ~IsNothing(Asked, Asked.message) =>
                                {x \in Range(ItemsBefore) : Matches(Asked, Asked.message, x)} \subseteq Range(Found)
    BY DEF SearchIsExact, Searching
  <2> DEFINE r == Asked
             limit == r.message.result_limit
             batch == serving.scan.batch
             all == All(r, reader.printed, down.wires, batch)
  <2>1. /\ IsSearch(r) /\ limit \in Int /\ r = Asked
    BY Asking
  <2>2. /\ Phase(r, reader.printed, down.wires, down.done, serving, ItemsBefore, Items(r)) /\ alive
        /\ reader.pc = "ended" => down.done /\ down.wires = <<>>
    BY DEF SearchInv, Searches
  <2>3. /\ serving.pc \in {"starting", "scanning", "last", "returned"}
        /\ Typed(r, reader.printed, down.wires, batch)
        /\ serving.pc = "starting" => reader.printed = <<>> /\ down.wires = <<>> /\ batch = <<>>
        /\ serving.pc = "scanning" => Scanned(r, Items(r), all, serving.scan)
        /\ serving.pc \in {"last", "returned"} => batch = <<>> /\ FoundAll(r, ItemsBefore, all)
        /\ down.done => serving.pc = "returned"
    BY <2>2 DEF Phase
  <2>4. Found = Joined(reader.printed, ShownIn(r))
    BY <2>1, <2>3, FoundIs DEF Typed
  <2> HIDE DEF all, batch
  <2>5. all \in Seq(ItemSet(r))
    BY <2>1, <2>3, AllIn DEF all
  <2>6. IsInjective(all) /\ (limit > 0 => Len(all) <= limit)
    <3>1. CASE serving.pc = "starting"
      <4>1. all = <<>>
        BY <2>3, <3>1, AllEmpty DEF all
      <4> QED
        BY <2>1, <4>1 DEF IsInjective
    <3>2. CASE serving.pc = "scanning"
      <4>1. Scanned(r, Items(r), all, serving.scan)
        BY <2>3, <3>2
      <4> QED
        BY <2>1, <2>5, <4>1 DEF Scanned
    <3>3. CASE serving.pc \in {"last", "returned"}
      <4>1. FoundAll(r, ItemsBefore, all)
        BY <2>3, <3>3
      <4> QED
        BY <4>1 DEF FoundAll
    <3> QED
      BY <2>3, <3>1, <3>2, <3>3
  <2>7. /\ IsInjective(Found) /\ Len(Found) \in Nat /\ Len(Found) <= Len(all)
        /\ down.wires = <<>> /\ batch = <<>> => Found = all
    BY <2>1, <2>3, <2>4, <2>6, FoundFirst DEF all
  <2>8. limit > 0 => Len(Found) <= limit
    BY <2>1, <2>5, <2>6, <2>7
  <2>9. ASSUME reader.pc = "ended", limit = 0, ~IsNothing(r, r.message),
               NEW x \in Range(ItemsBefore), Matches(r, r.message, x)
        PROVE  x \in Range(Found)
    <3>1. Found = all /\ FoundAll(r, ItemsBefore, all)
      BY <2>2, <2>3, <2>7, <2>9
    <3>2. ~Barren(r)
      BY <2>1, <2>9 DEF IsNothing, IsPrepared, Barren
    <3> QED
      BY <2>9, <3>1, <3>2 DEF FoundAll
  <2> QED
    BY <2>7, <2>8, <2>9
<1> QED
  BY <1>1, SearchInvHolds, PTL
=============================================================================

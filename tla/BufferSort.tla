---------------------------- MODULE BufferSort ----------------------------
(* WriteBuffer::Sort (src/vqro/db/write_buffer.h:125): std::stable_sort over *)
(* DatapointBuffer::Iterator (src/vqro/db/datapoint_buffer.h).               *)
(*                                                                           *)
(* The iterator's prefix operators return the iterator as it was BEFORE the  *)
(* step (datapoint_buffer.h:51-52, marked post). libstdc++ uses the value of *)
(* *--result in two places: the insertion sort's shift and the merge         *)
(* backwards. Both then store one place further right than they mean to.     *)
(*                                                                           *)
(* A buffer is its cells and the one cell past its end: a sequence of        *)
(* n + 1 values of which the first n are sorted. Below 15 points stable_sort *)
(* sorts each half by insertion and merges the halves, which is what this    *)
(* module says; larger buffers are out of its bound.                         *)
EXTENDS Integers, Sequences

CONSTANT Key(_)        \* what operator< compares: the timestamp

----------------------------------------------------------------------------
(* Insertion sort of cells lo..hi.                                           *)

\* A value less than all before it goes to the front. The cells lo..(i - 1) it makes
\* shift should move to (lo + 1)..i; cells (lo + 1)..i move to (lo + 2)..(i + 1) instead.
InsertInFront(m, lo, i) == [j \in 1..Len(m) |-> CASE j = lo -> m[i]
                                                  [] j \in (lo + 2)..(i + 1) -> m[j - 1]
                                                  [] OTHER -> m[j]]

\* The linear insertion steps back with statements, and is as it should be: the value
\* goes behind the last cell that is not greater.
InsertAmong(m, lo, i) ==
    LET p == CHOOSE k \in lo..(i - 1) :
                 /\ Key(m[k]) <= Key(m[i])
                 /\ \A l \in (k + 1)..(i - 1) : Key(m[i]) < Key(m[l])
    IN  [j \in 1..Len(m) |-> CASE j = p + 1 -> m[i]
                               [] j \in (p + 2)..i -> m[j - 1]
                               [] OTHER -> m[j]]

Insert(m, lo, i) == IF Key(m[i]) < Key(m[lo]) THEN InsertInFront(m, lo, i)
                                              ELSE InsertAmong(m, lo, i)

InsertionSort(m, lo, hi) ==
    LET after[k \in 0..(hi - lo)] == IF k = 0 THEN m ELSE Insert(after[k - 1], lo, lo + k)
    IN  after[hi - lo]

----------------------------------------------------------------------------
(* The merge of cells 1..mid and (mid + 1)..n, one cell a pass.              *)

\* Forwards, the halves may still be out of order (the sorts above may have left
\* them so): the loop takes the second half's head when it is less, else the first's.
\* How many of the first half the first k passes have taken:
FromFirst(m, mid, n) ==
    LET taken[k \in 0..n] ==
            IF k = 0 THEN 0
            ELSE LET a == taken[k - 1]
                     b == k - 1 - a
                     second == \/ a = mid
                               \/ b < n - mid /\ Key(m[mid + b + 1]) < Key(m[a + 1])
                 IN  IF second THEN a ELSE a + 1
    IN  taken

MergeForward(m, mid, n) ==
    LET taken == FromFirst(m, mid, n)
    IN  [j \in 1..Len(m) |-> IF j > n THEN m[j]
                             ELSE IF taken[j] > taken[j - 1] THEN m[taken[j]]
                             ELSE m[mid + j - taken[j]]]

\* Backwards, from a copy of the second half and until that is used up: each value is
\* stored one place to the right of where it belongs, and the cell the merge ends at
\* keeps what it held. How many of the second half the first k passes have taken:
FromSecond(m, mid, n) ==
    LET taken[k \in 0..n] ==
            IF k = 0 THEN 0
            ELSE LET b == taken[k - 1]
                     a == k - 1 - b
                     first == a < mid /\ Key(m[n - b]) < Key(m[mid - a])
                 IN  IF b = n - mid \/ first THEN b ELSE b + 1
    IN  taken

MergeBackward(m, mid, n) ==
    LET taken == FromSecond(m, mid, n)
    IN  [j \in 1..Len(m) |->
            LET k == n + 2 - j
            IN  IF k \notin 1..n \/ taken[k - 1] = n - mid THEN m[j]
                ELSE IF taken[k] > taken[k - 1] THEN m[n - taken[k - 1]]
                ELSE m[mid - (k - 1 - taken[k - 1])]]

----------------------------------------------------------------------------
\* std::stable_sort of the first n cells of m. The longer half comes first.
StableSort(m, n) ==
    IF n < 2 THEN m
    ELSE LET mid == (n + 1) \div 2
             halves == InsertionSort(InsertionSort(m, 1, mid), mid + 1, n)
         IN  IF mid <= n - mid THEN MergeForward(halves, mid, n)
                               ELSE MergeBackward(halves, mid, n)
============================================================================

------------------------------- MODULE ReadOp -------------------------------
(* What a read takes from a data file of each format and from the write      *)
(* buffer, chunk by chunk (src/vqro/db: read_op.h, the Read of sparse_file,  *)
(* dense_file and constant_file, series.cc). A point stands for the interval *)
(* from its timestamp to its duration later, and the read goes on from the   *)
(* end of the point it took last.                                            *)
EXTENDS Integers, FiniteSets, SequencesExt

NaN == -1    \* a value no written point has

\* ReadOperation: next_time, end_time, buffer_size, and what is before the cursor.
DatapointsInBuffer(op) == Len(op.out)
SpaceLeft(op) == DatapointsInBuffer(op) # op.size   \* unsigned: past the end is space, too
Complete(op) == op.next >= op.end

\* Append, and Advance to the end of the point.
End(p) == p.ts + (IF p.dur = 0 THEN 1 ELSE p.dur)
AdvanceByOne(op, p) == [op EXCEPT !.out = Append(@, p), !.next = p.ts + 1]
Put(op, p) == [op EXCEPT !.out = Append(@, p), !.next = End(p)]

----------------------------------------------------------------------------
(* SparseFile::Read.                                                         *)

\* stable_sort leaves the versions of a point in the order they were written in: the place
\* of a point is how many go before it.
BeforeReversed(ps, i, j) == ps[i].ts < ps[j].ts \/ (ps[i].ts = ps[j].ts /\ i > j)
Before(ps, i, j) == ps[i].ts < ps[j].ts \/ (ps[i].ts = ps[j].ts /\ i < j)
Place(ps, i) == Cardinality({j \in DOMAIN ps : Before(ps, j, i)}) + 1
Sorted(ps) == [k \in DOMAIN ps |-> ps[CHOOSE i \in DOMAIN ps : Place(ps, i) = k]]

\* The last version of a point that has the duration of the first.
Version(ps, first) ==
    ps[Max({j \in first..Len(ps) : ps[j].ts = ps[first].ts /\ ps[j].dur = ps[first].dur})]

\* The loop goes by the first of each timestamp from next_time on, and ends for good at a
\* point that begins before the one taken last has ended.
Goes(op, p) == p.ts >= op.next /\ p.ts < op.end /\ SpaceLeft(op) /\ ~Complete(op)
Looked(r, ps, i, from) ==
    IF ps[i].ts < from \/ (i > 1 /\ ps[i - 1].ts = ps[i].ts) THEN r
    ELSE IF r.goes /\ Goes(r.op, ps[i]) THEN [r EXCEPT !.op = Put(r.op, Version(ps, i))]
    ELSE [r EXCEPT !.goes = FALSE]
SparseRead(op, points) ==
    LET ps == Sorted(points)
        after[i \in 0..Len(ps)] == IF i = 0 THEN [op |-> op, goes |-> TRUE]
                                   ELSE Looked(after[i - 1], ps, i, op.next)
    IN  after[Len(ps)].op

----------------------------------------------------------------------------
(* DenseFile and ConstantFile: values at every duration from the file's start. *)

\* Both round next_time up to a multiple of the duration, and look at no limit but the
\* time's: what is too much for the buffer is written past it. Times here are from 0 on
\* (below it, C's division rounds the other way).
RoundPast(op, dur) == [op EXCEPT !.next = (op.next \div dur + 1) * dur]
RoundUp(op, dur) == IF op.next % dur = 0 THEN op
                    ELSE [op EXCEPT !.next = (op.next \div dur + 1) * dur]
ToRead(op, f) == LET end == IF f.max < op.end THEN f.max ELSE op.end
                 IN  IF end > op.next THEN (end - op.next) \div f.dur ELSE 0

\* A slot without a value takes no time. A seek to a slot before the first throws: thrown.
Slots(op, f, slots) == LET first == IF op.next < f.min THEN 0 ELSE (op.next - f.min) \div f.dur
                       IN  SubSeq(slots, first + 1, Min({first + ToRead(op, f), Len(slots)}))
PutValue(op, dur, v) == Put(op, [ts |-> op.next, dur |-> dur, val |-> v])
PutSlot(op, dur, v) == IF v = NaN THEN op ELSE PutValue(op, dur, v)
AfterSlots(op, dur, values) ==
    LET after[i \in 0..Len(values)] == IF i = 0 THEN op ELSE PutSlot(after[i - 1], dur, values[i])
    IN  after[Len(values)]
DenseRead(asked, f, slots) ==
    LET op == RoundUp(asked, f.dur)
    IN  IF f.max < op.next THEN op
        ELSE IF op.next <= f.min - f.dur THEN [op EXCEPT !.thrown = TRUE]
        ELSE AfterSlots(op, f.dur, Slots(op, f, slots))

AfterValues(op, dur, v, count) ==
    LET after[i \in 0..count] == IF i = 0 THEN op ELSE PutValue(after[i - 1], dur, v)
    IN  after[count]
ConstantRead(asked, f) ==
    LET op == RoundUp(asked, f.dur)
    IN  IF f.max < op.next THEN op ELSE AfterValues(op, f.dur, f.val, ToRead(op, f))

----------------------------------------------------------------------------
(* DatapointDirectory::Read of a directory of one file, and Series::Read.    *)

FileRead(op, f, content) == CASE f.kind = "sparse" -> SparseRead(op, content)
                              [] f.kind = "dense" -> DenseRead(op, f, content)
                              [] f.kind = "constant" -> ConstantRead(op, f)
DirectoryRead(op, f, content) ==
    IF SpaceLeft(op) /\ ~Complete(op) /\ f.max >= op.next /\ f.min < op.end
    THEN FileRead(op, f, content) ELSE op

PutInRange(op, p) ==
    IF ~Complete(op) /\ SpaceLeft(op) /\ p.ts >= op.next /\ p.ts < op.end THEN Put(op, p) ELSE op
BufferRead(op, buffered) ==
    LET ps == Sorted(buffered)
        after[i \in 0..Len(ps)] == IF i = 0 THEN op ELSE PutInRange(after[i - 1], ps[i])
    IN  after[Len(ps)]

\* A buffer that has space left is the end of the read.
CompletionForced(op) == [op EXCEPT !.next = op.end]
ForceCompletion(op) == IF SpaceLeft(op) THEN [op EXCEPT !.next = op.end] ELSE op
=============================================================================

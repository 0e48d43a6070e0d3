-------------------------- MODULE StorageOptimizer --------------------------
(* A series whose directory has one data file, and the optimizer that is to  *)
(* convert it (src/vqro/db/storage_optimizer.cc): the flusher writes, renames *)
(* and marks a sparse file, and leaves its conversion to the worker without  *)
(* waiting; the worker opens the file by its name, reads it and tries to put *)
(* a dense or constant file in its place. Reads go by ReadOp. Which file a   *)
(* point goes to is DataDirectory's; a directory read beside a flush is      *)
(* SeriesRead's.                                                             *)
EXTENDS ReadOp

CONSTANTS Batch,          \* buffers: sorted sequences of points
          ReadRange,      \* what reads ask for: [start, end]
          BufferSize,     \* read_buffer_size
          Listed,         \* what a directory may hold at first: dense and constant files
          OptPoints,      \* sparse_file_optimize_size / datapoint_size
          MinDense,       \* min_datapoints_for_dense and _for_constant
          MaxPadding,     \* max_dense_nan_padding
          MaxGap,         \* max_dense_nan_gap
          MaxFlushes,     \* bound: flushes
          MaxReads,       \* bound: reads
          MaxCrashes      \* bound: ends of the process

Point == [ts : Nat, dur : Nat, val : Nat]
ASSUME BatchAssumption ==
    \A b \in Batch : /\ b \in Seq(Point) /\ b # <<>>
                     /\ \A i, j \in 1..Len(b) : i < j => b[i].ts <= b[j].ts
ASSUME ReadsAssumption == ReadRange \subseteq [start : Nat, end : Nat] /\ BufferSize \subseteq Nat \ {0}
ASSUME SizesAssumption == {OptPoints, MinDense, MaxPadding, MaxGap} \subseteq Nat /\ MinDense > 0
ASSUME BoundsAssumption == {MaxFlushes, MaxReads, MaxCrashes} \subseteq Nat

NoFile == [kind |-> "none"]
NoOp == [next |-> 0, end |-> 0, size |-> 1, out |-> <<>>, thrown |-> FALSE]

\* GetPath. The listing knows a constant file by its value, too, and GetPath leaves it out.
GetPath(f) == CASE f.kind = "sparse" -> [kind |-> "sparse", min |-> f.min, max |-> f.max, opt |-> f.opt]
                [] f.kind = "dense" -> [kind |-> "dense", min |-> f.min, dur |-> f.dur]
                [] f.kind = "constant" -> [kind |-> "constant", min |-> f.min, dur |-> f.dur, count |-> f.count]

\* The names and the objects of a file of each format; a sparse file's are alike.
SparseName == [kind : {"sparse"}, min : Nat, max : Nat, opt : BOOLEAN]
DenseName == [kind : {"dense"}, min : Nat, dur : Nat \ {0}]
DenseObject == [kind : {"dense"}, min : Nat, dur : Nat \ {0}, max : Nat]
ConstantName == [kind : {"constant"}, min : Nat, dur : Nat \ {0}, val : Nat, count : Nat]
ConstantObject == [kind : {"constant"}, min : Nat, dur : Nat \ {0}, val : Nat, count : Nat, max : Nat]

\* The size of a dense file tells where it ends.
ASSUME ListedAssumption ==
    \A d \in Listed :
        \/ /\ d.object \in DenseObject /\ d.name = GetPath(d.object) /\ d.content \in Seq(Nat)
           /\ d.object.max = d.object.min + Len(d.content) * d.object.dur
        \/ d.object \in ConstantObject /\ d.name \in ConstantName

VARIABLES
    disk,       \* the directory: name -> points of a sparse file, values of a dense one
    file,       \* the object in datapoint_files
    buffered,   \* the write buffer
    fpc,        \* the flusher: "idle", "moving" to a later max_timestamp, "sizing",
                \* "queued" (the worker has the task), "marking" (renaming to ".opt")
    moving,     \* the path being renamed
    tasks,      \* HandleSparseFileTooBig tasks on the worker's queue
    wpc,        \* the worker in one: "idle", "named", "opened", "converting"
    path,       \* the path it opens
    points,     \* what it has read
    op,         \* the last read's ReadOperation
    asked,      \* what it was asked for, and (history) what there was to read then
    reading,    \* "none", "reading", "done", "thrown", "overrun"
    delivered,  \* what it has given its callback
    flushes, reads, crashes,
    written,    \* history: points flushed to the file, in order
    tidy,       \* history: each write to the dense file has followed on the last
    raced,      \* history: a name has changed under the task, or was changing when it began
    gone        \* history: the task has not found its file

flushvars == <<buffered, fpc, moving, flushes, written, tidy>>
taskvars == <<wpc, path, points, gone>>
readvars == <<op, asked, reading, delivered, reads>>
vars == <<disk, file, flushvars, tasks, taskvars, readvars, raced, crashes>>

PointsOf(f, slots) ==
    [k \in DOMAIN slots |-> [ts |-> f.min + (k - 1) * f.dur, dur |-> f.dur, val |-> slots[k]]]

Init == /\ \E d \in Listed \union {[object |-> NoFile]} :
               /\ file = d.object
               /\ disk = IF d.object = NoFile THEN [n \in {} |-> <<>>] ELSE [n \in {d.name} |-> d.content]
               /\ written = IF d.object.kind = "dense" THEN PointsOf(d.object, d.content) ELSE <<>>
        /\ buffered = <<>> /\ fpc = "idle" /\ moving = <<>> /\ flushes = 0
        /\ tidy = TRUE
        /\ tasks = 0 /\ wpc = "idle" /\ path = <<>> /\ points = <<>> /\ gone = FALSE
        /\ op = NoOp /\ asked = <<>> /\ reading = "none" /\ delivered = <<>> /\ reads = 0
        /\ raced = FALSE /\ crashes = 0

----------------------------------------------------------------------------
(* The flusher: SparseFile::Write and FileIsTooBig.                          *)

\* A read of this model has no flush beside it, and is forgotten when the next begins.
Arrive(batch) == /\ buffered = <<>> /\ fpc = "idle" /\ reading # "reading"
                 /\ flushes < MaxFlushes /\ flushes' = flushes + 1
                 /\ buffered' = batch
                 /\ op' = NoOp /\ asked' = <<>> /\ reading' = "none" /\ delivered' = <<>>
                 /\ UNCHANGED <<disk, file, fpc, moving, written, tidy, tasks, taskvars, reads, raced, crashes>>

Flushes == fpc = "idle" /\ buffered # <<>> /\ reading # "reading"
First == buffered[1].ts
Renames == raced' = (raced \/ wpc # "idle")

\* The points are appended; an object of a later max_timestamp has its new name at once.
WriteSparse ==
    /\ Flushes /\ file.kind \in {"none", "sparse"}
    /\ file.kind = "sparse" => First >= file.min
    /\ LET f == IF file.kind = "sparse" THEN file
                ELSE [kind |-> "sparse", min |-> First, max |-> First, opt |-> FALSE]
           max == Max({f.max, buffered[Len(buffered)].ts})
           old == IF GetPath(f) \in DOMAIN disk THEN disk[GetPath(f)] ELSE <<>>
       IN  /\ disk' = [n \in DOMAIN disk \union {GetPath(f)} |->
                            IF n = GetPath(f) THEN old \o buffered ELSE disk[n]]
           /\ file' = [f EXCEPT !.max = max]
           /\ moving' = GetPath(f)
           /\ IF max > f.max THEN fpc' = "moving" /\ Renames ELSE fpc' = "sizing" /\ UNCHANGED raced
    /\ written' = written \o buffered
    /\ UNCHANGED <<buffered, flushes, tidy, tasks, taskvars, readvars, crashes>>

RenameNothing(from, to) == UNCHANGED disk
Rename(from, to) == disk' = [n \in (DOMAIN disk \ {from}) \union {to} |->
                                 IF n = to THEN disk[from] ELSE disk[n]]
MoveToMax == /\ fpc = "moving" /\ moving \in DOMAIN disk
             /\ Rename(moving, GetPath(file)) /\ Renames
             /\ fpc' = "sizing"
             /\ UNCHANGED <<file, buffered, moving, flushes, written, tidy, tasks, taskvars, readvars, crashes>>

TooBig == ~file.opt /\ Len(disk[GetPath(file)]) > OptPoints
Sized == fpc = "sizing" /\ GetPath(file) \in DOMAIN disk

FileIsTooBig == /\ Sized /\ TooBig
                /\ tasks' = tasks + 1
                /\ fpc' = "queued"
                /\ UNCHANGED <<disk, file, buffered, moving, flushes, written, tidy, taskvars, readvars, raced, crashes>>
Mark == /\ fpc = "queued"
        /\ moving' = GetPath(file)
        /\ file' = [file EXCEPT !.opt = TRUE]
        /\ fpc' = "marking" /\ Renames
        /\ UNCHANGED <<disk, buffered, flushes, written, tidy, tasks, taskvars, readvars, crashes>>
MoveToMarked == /\ fpc = "marking" /\ moving \in DOMAIN disk
                /\ Rename(moving, GetPath(file)) /\ Renames
                /\ fpc' = "idle" /\ buffered' = <<>>
                /\ UNCHANGED <<file, moving, flushes, written, tidy, tasks, taskvars, readvars, crashes>>
LeaveIt == /\ Sized /\ ~TooBig
           /\ fpc' = "idle" /\ buffered' = <<>>
           /\ UNCHANGED <<disk, file, moving, flushes, written, tidy, tasks, taskvars, readvars, raced, crashes>>

----------------------------------------------------------------------------
(* DenseFile::Write and ConstantFile::Write.                                 *)

\* One value after another, whatever times the points have; behind NaNs for the
\* durations since the file's end, which is where the next value belongs.
Gap(f, ps) == IF ps[1].ts > f.max THEN (ps[1].ts - f.max) \div f.dur ELSE 0
Values(f, ps) == [i \in 1..Gap(f, ps) |-> NaN] \o [i \in 1..Len(ps) |-> ps[i].val]

\* The offset is the time's, from 0 and not from the file's start; a hole reads as zeros.
Offset(f, ps) == Min({ps[1].ts, f.max}) \div f.dur
Overwritten(slots, at, values) ==
    [i \in 1..Max({Len(slots), at + Len(values)}) |->
         IF i \in (at + 1)..(at + Len(values)) THEN values[i - at]
         ELSE IF i <= Len(slots) THEN slots[i] ELSE 0]
DenseWritten(f, slots, ps) == Overwritten(slots, Offset(f, ps), Values(f, ps))

Follows(f, ps) == \A i \in 1..Len(ps) : ps[i].dur = f.dur /\ ps[i].ts = f.max + (i - 1) * f.dur

WriteDense ==
    /\ Flushes /\ file.kind = "dense" /\ First >= file.min /\ Gap(file, buffered) <= MaxGap
    /\ disk' = [disk EXCEPT ![GetPath(file)] = DenseWritten(file, @, buffered)]
    /\ file' = [file EXCEPT !.max = @ + Len(Values(file, buffered)) * file.dur]
    /\ tidy' = (tidy /\ Follows(file, buffered))
    /\ written' = written \o buffered /\ buffered' = <<>>
    /\ UNCHANGED <<fpc, moving, flushes, tasks, taskvars, readvars, raced, crashes>>

\* What the next process finds; past ".opt" the parser is in memory that may hold
\* anything, and the file may be ignored. Its end of a dense file is its size's.
Object(n) ==
    CASE n.kind = "sparse" -> n
      [] n.kind = "dense" -> [kind |-> "dense", min |-> n.min, dur |-> n.dur,
                              max |-> n.min + Len(disk[n]) * n.dur]
      [] n.kind = "constant" -> [kind |-> "constant", min |-> n.min, dur |-> n.dur, val |-> n.val,
                                 count |-> n.count, max |-> n.min + n.count * n.dur]
Listings == {Object(n) : n \in DOMAIN disk}
            \union (IF \E n \in DOMAIN disk : n.kind = "sparse" /\ n.opt THEN {NoFile} ELSE {})
            \union (IF disk = <<>> THEN {NoFile} ELSE {})

\* A restart. A listing without the marked file ends the model of this directory: the
\* next flush would begin a second file.
Restart == /\ crashes < MaxCrashes /\ crashes' = crashes + 1
           /\ file' \in Listings /\ (file' = NoFile => disk = <<>>)
           /\ buffered' = <<>> /\ fpc' = "idle" /\ moving' = <<>>
           /\ tasks' = 0 /\ wpc' = "idle" /\ path' = <<>> /\ points' = <<>> /\ gone' = FALSE
           /\ op' = NoOp /\ asked' = <<>> /\ reading' = "none" /\ delivered' = <<>>
           /\ raced' = FALSE
           /\ UNCHANGED <<disk, flushes, written, tidy, reads>>

\* The name to rename, without the value, is no file's: the flusher throws, and the
\* process ends.
WriteConstant == /\ Flushes /\ file.kind = "constant" /\ First >= file.min
                 /\ GetPath(file) \notin DOMAIN disk
                 /\ Restart

----------------------------------------------------------------------------
(* HandleSparseFileTooBig, on the worker.                                    *)

Handle == /\ wpc = "idle" /\ tasks > 0
          /\ tasks' = tasks - 1
          /\ path' = GetPath(file) /\ wpc' = "named"
          /\ raced' = (fpc \in {"moving", "marking"})
          /\ UNCHANGED <<disk, file, flushvars, points, gone, readvars, crashes>>

\* open(2), and GetFileSize by the same path. What is thrown stays in the task's future.
Finds == path \in DOMAIN disk
FileGone == /\ wpc \in {"named", "opened"} /\ ~Finds
            /\ wpc' = "idle" /\ gone' = TRUE
            /\ UNCHANGED <<disk, file, flushvars, tasks, path, points, readvars, raced, crashes>>
OpenIt == /\ wpc = "named" /\ Finds
          /\ wpc' = "opened"
          /\ UNCHANGED <<disk, file, flushvars, tasks, path, points, gone, readvars, raced, crashes>>

Everything == [NoOp EXCEPT !.next = -1, !.end = 1000, !.size = 1000]
IsDense(ps) ==
    LET dur == IF ps[1].dur = 0 THEN 1 ELSE ps[1].dur
        delta(i) == ps[i].ts - ps[i - 1].ts
    IN  /\ Len(ps) >= MinDense
        /\ \A i \in DOMAIN ps : ps[i].dur = dur
        /\ \A i \in 2..Len(ps) : delta(i) \div dur <= MaxPadding /\ delta(i) % dur = 0
IsConstant(ps) == Len(ps) >= MinDense /\ \A i \in DOMAIN ps : ps[i].val = ps[1].val

ReadIt == /\ wpc = "opened" /\ Finds
          /\ points' = SparseRead(Everything, disk[path]).out
          /\ wpc' = IF IsDense(points') THEN "converting" ELSE "idle"
          /\ UNCHANGED <<disk, file, flushvars, tasks, path, gone, readvars, raced, crashes>>

\* The constructor of a dense file asks for the size of a file that is not there yet,
\* and a constant file without a value is renamed to one with a count: both throw.
SizeOrZero(n) == TRUE
SizeIsThere(n) == n \in DOMAIN disk
Convert == LET new == [kind |-> "dense", min |-> file.min, dur |-> points[1].dur]
               values == DenseWritten([max |-> file.min, dur |-> new.dur], <<>>, points)
           IN  /\ wpc = "converting"
               /\ IF IsConstant(points) \/ ~SizeIsThere(new) THEN UNCHANGED <<disk, file>>
                  ELSE /\ disk' = [n \in (DOMAIN disk \ {GetPath(file)}) \union {new} |->
                                   IF n = new THEN values ELSE disk[n]]
                       /\ file' = [kind |-> "dense", min |-> new.min, dur |-> new.dur,
                                   max |-> new.min + Len(values) * new.dur]
               /\ wpc' = "idle"
               /\ UNCHANGED <<flushvars, tasks, path, points, gone, readvars, raced, crashes>>

----------------------------------------------------------------------------
(* Database::Read of the series, on the same worker.                         *)

Covered == file.kind = "sparse" => \A p \in Range(written) : p.ts <= file.max
Ordinary == file.kind = "dense" /\ tidy /\ file.min = 0

BeginRead(r, size) ==
    /\ reading # "reading" /\ reads < MaxReads /\ fpc = "idle" /\ tasks = 0 /\ wpc = "idle"
    /\ reads' = reads + 1
    /\ op' = [NoOp EXCEPT !.next = r.start, !.end = r.end, !.size = size]
    /\ asked' = [start |-> r.start, end |-> r.end, kind |-> file.kind, ordinary |-> Ordinary, covered |-> Covered,
                 had |-> written, buffered |-> buffered]
    /\ reading' = "reading" /\ delivered' = <<>>
    /\ UNCHANGED <<disk, file, flushvars, tasks, taskvars, raced, crashes>>

ReadChunk(o) == IF file = NoFile THEN o
                ELSE DirectoryRead(o, file, IF GetPath(file) \in DOMAIN disk
                                            THEN disk[GetPath(file)] ELSE <<>>)
Chunk ==
    /\ reading = "reading"
    /\ LET disked == ReadChunk(op)
           o == ForceCompletion(BufferRead(disked, buffered))
           over == DatapointsInBuffer(o) > op.size
       IN  /\ delivered' = IF disked.thrown \/ over THEN delivered ELSE delivered \o o.out
           /\ op' = [o EXCEPT !.out = <<>>]
           /\ reading' = IF disked.thrown THEN "thrown" ELSE IF over THEN "overrun"
                         ELSE IF Complete(o) \/ o.out = <<>> THEN "done" ELSE "reading"
    /\ UNCHANGED <<disk, file, flushvars, tasks, taskvars, asked, reads, raced, crashes>>

Flusher == \/ WriteSparse \/ MoveToMax \/ FileIsTooBig \/ Mark \/ MoveToMarked \/ LeaveIt
           \/ WriteDense \/ WriteConstant
Task == Handle \/ FileGone \/ OpenIt \/ ReadIt \/ Convert
Next == \/ \E b \in Batch : Arrive(b)
        \/ Flusher \/ Task \/ Restart
        \/ \E r \in ReadRange, size \in BufferSize : BeginRead(r, size)
        \/ Chunk

Spec == Init /\ [][Next]_vars

----------------------------------------------------------------------------
(* Properties.                                                               *)

TypeOK == /\ file.kind \in {"none", "sparse", "dense", "constant"}
          /\ buffered \in Seq(Point) /\ points \in Seq(Point)
          /\ fpc \in {"idle", "moving", "sizing", "queued", "marking"}
          /\ wpc \in {"idle", "named", "opened", "converting"} /\ tasks \in Nat
          /\ reading \in {"none", "reading", "done", "thrown", "overrun"}
          /\ delivered \in Seq(Point) /\ written \in Seq(Point)
          /\ {tidy, raced, gone} \subseteq BOOLEAN

\* The points of a read are in order and none begins before the one before it has
\* ended, whichever formats, versions and chunks they come from.
DeliveredApart == \A i \in 2..Len(delivered) : End(delivered[i - 1]) <= delivered[i].ts

\* "Durations are immutable so for a given timestamp we want the last-written datapoint
\* that has the originally-written duration" (sparse_file.cc:109): what a read gives of a
\* sparse file's timestamp, in whatever order the versions were flushed.
ReadSparse == reading = "done" /\ asked.kind = "sparse"
Versions(t) == {i \in DOMAIN asked.had : asked.had[i].ts = t}
Wanted(t) == LET original == asked.had[Min(Versions(t))]
             IN  asked.had[Max({i \in Versions(t) : asked.had[i].dur = original.dur})]
VersionsGiven == ReadSparse => \A p \in Range(delivered) :
                     Versions(p.ts) # {} => p = Wanted(p.ts) \/ p \in Range(asked.buffered)

\* A read in chunks of any size misses no timestamp of the file, nor of the buffer if it
\* is later, unless points overlap: the first that begins inside another ends the file;
\* or a crash has left the file with the name it had before its last write.
Apart(ps) == \A p, q \in Range(ps) : p.ts < q.ts => End(p) <= q.ts
Asked(p) == p.ts >= asked.start /\ p.ts < asked.end
Times(ps) == {p.ts : p \in {q \in Range(ps) : Asked(q)}}
NothingMissedApart ==
    (ReadSparse /\ asked.covered /\ Apart(asked.had \o asked.buffered)) =>
        /\ Times(asked.had) \subseteq Times(delivered)
        /\ \A t \in Times(asked.buffered) :
               (\A p \in Range(asked.had) : p.ts < t) => t \in Times(delivered)

\* "Copy point by point into the buffer until we're at the end" (sparse_file.cc:99): what
\* a read misses of a file lies within a point it gives. It need not: the first point that
\* lies so ends the reading of the file. No run checks this.
MissedIsCovered ==
    (ReadSparse /\ asked.covered) => \A t \in Times(asked.had) \ Times(delivered) :
        \E p \in Range(delivered) : p.ts < t /\ t < End(p)

\* A dense file from 0 on gives the points written to it, as long as each write followed
\* on the last; a read from before a file's start throws and one of too many overruns.
DenseReadsBack ==
    (reading = "done" /\ asked.kind = "dense" /\ asked.ordinary) =>
        \A p \in Range(asked.had) : (Asked(p) /\ End(p) <= asked.end) => p \in Range(delivered)

\* Every point flushed is in the file that has, or is getting, the name in the
\* directory: no rename, restart or conversion loses one, though the worker converts what
\* it read earlier, and deletes a file the flusher has gone on writing to.
Holds(slots, p) == LET k == (p.ts - file.min) \div file.dur + 1
                   IN  k \in DOMAIN slots /\ slots[k] = p.val
FileHoldsWritten ==
    LET name == IF fpc \in {"moving", "marking"} THEN moving ELSE GetPath(file)
    IN  CASE file.kind = "none" -> written = <<>>
          [] file.kind = "sparse" -> name \in DOMAIN disk /\ disk[name] = written
          [] file.kind = "dense" -> Ordinary => \A p \in Range(written) : Holds(disk[name], p)
          [] file.kind = "constant" -> written = <<>>

\* The optimizer finds the file it was given, unless the flusher renamed it meanwhile;
\* then the exception is lost and the file, marked, is never given to it again.
FailsOnlyInRace == gone => raced
=============================================================================

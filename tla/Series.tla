------------------------------- MODULE Series -------------------------------
(* One time series: its write buffer (src/vqro/db/write_buffer.{h,cc}), the  *)
(* writes and reads the database worker runs on it (series.cc), and the      *)
(* flush, which runs on the flusher thread beside the worker (db.cc). How    *)
(* the directory lays points out in files is left to its own module: here    *)
(* the points written are the set disk.                                      *)
EXTENDS Integers, Sequences, FiniteSets

CONSTANTS Timestamp,   \* timestamps of points
          NaN,         \* in a Write: a point whose value is not a number
          Garbage,     \* what memory holds that no point was written to
          MaxWrites,   \* bound: Write operations
          MaxLength,   \* bound: points of a Write operation
          MaxReads,    \* bound: reads
          MaxCrashes   \* bound: ends of the process

ASSUME TimestampAssumption == Timestamp \subseteq Int /\ NaN \notin Timestamp
ASSUME BoundsAssumption == {MaxWrites, MaxLength, MaxReads, MaxCrashes} \subseteq Nat

\* A point is named after the Write that brings it and its place there: two writes of
\* the same timestamp are different points.
Point == [time : Timestamp, write : 1..MaxWrites, place : 1..MaxLength]
ASSUME GarbageAssumption == Garbage \notin Point /\ NaN \notin Point

\* Freed or fresh memory reads as a point at the epoch.
Time(c) == IF c = Garbage THEN 0 ELSE c.time

Sorting == INSTANCE BufferSort WITH Key <- Time

Cells(s) == {s[i] : i \in 1..Len(s)}

VARIABLES
    buf,        \* the cells below num_datapoints
    sorted,     \* the buffer's flag
    slot,       \* the cell at num_datapoints: filled, not counted yet
    disk,       \* the cells written to the series's files
    wpc,        \* the worker: "idle", "appending", "counting", "scanning"
    op,         \* the Write being applied
    at,         \* Append's i: the place of op it is at
    previous,   \* Append's previous, as an index of buf: 0 is nullptr
    writes,     \* Writes begun
    acked,      \* the points of the Writes that returned
    fpc,        \* the flusher: "idle", "writing", "sorting", "clearing"
    cursor,     \* WriteOperation::cursor: the cells this flush has written
    sorting,    \* how many cells the sort under way covers
    seen,       \* the read under way: what it found on disk
    wanted,     \* the read under way: acknowledged points newer than all on disk
    missed,     \* history: timestamps the last read should have returned and did not
    excused,    \* history: the last read met a Clear, or a buffer out of order
    exposed,    \* history: points lost, or at risk, by a cause named below
    reads, crashes

bufvars == <<buf, sorted, slot>>
workvars == <<wpc, op, at, previous, writes, acked>>
flushvars == <<fpc, cursor, sorting>>
readvars == <<seen, wanted, missed, excused, reads>>
vars == <<bufvars, disk, workvars, flushvars, readvars, exposed, crashes>>

Init == /\ buf = <<>> /\ sorted = TRUE /\ slot = Garbage /\ disk = {}
        /\ wpc = "idle" /\ op = <<>> /\ at = 1 /\ previous = 0 /\ writes = 0 /\ acked = {}
        /\ fpc = "idle" /\ cursor = 0 /\ sorting = 0
        /\ seen = {} /\ wanted = {} /\ missed = {} /\ excused = FALSE /\ reads = 0
        /\ exposed = {} /\ crashes = 0

----------------------------------------------------------------------------
(* Series::Write and WriteBuffer::Append: on the worker.                     *)

PointsOf(o) == Cells(o) \ {NaN}

BeginWrite(times) ==
    /\ wpc = "idle" /\ writes < MaxWrites
    /\ wpc' = "appending"
    /\ writes' = writes + 1
    /\ op' = [i \in 1..Len(times) |-> IF times[i] = NaN THEN NaN
                ELSE [time |-> times[i], write |-> writes', place |-> i]]
    /\ at' = 1
    /\ previous' = 0
    /\ UNCHANGED <<bufvars, disk, acked, flushvars, readvars, exposed, crashes>>

\* NaNs are not allowed: skipped, and acknowledged with the rest.
SkipNaN == /\ wpc = "appending" /\ at <= Len(op) /\ op[at] = NaN
           /\ at' = at + 1
           /\ UNCHANGED <<bufvars, disk, wpc, op, previous, writes, acked, flushvars,
                          readvars, exposed, crashes>>

FillCell == /\ wpc = "appending" /\ at <= Len(op) /\ op[at] # NaN
            /\ slot' = op[at]
            /\ wpc' = "counting"
            /\ UNCHANGED <<buf, sorted, disk, op, at, previous, writes, acked, flushvars,
                           readvars, exposed, crashes>>

\* A point counted while a flush is under way may be cleared before it is written. So
\* may one whose cell the flush freed, or sorted over, since it was filled.
Exposes == fpc # "idle" \/ slot # op[at]

\* Order is compared with the previous point of the same Write only, wherever the
\* flush has moved it to: if it was freed, the comparison reads anything.
Disorders == IF previous = 0 THEN {FALSE}
             ELSE IF previous <= Len(buf) THEN {Time(slot) < Time(buf[previous])}
             ELSE BOOLEAN

CountCell == /\ wpc = "counting"
             /\ buf' = Append(buf, slot)
             /\ \E disorder \in Disorders : sorted' = (sorted /\ ~disorder)
             /\ previous' = Len(buf) + 1
             /\ at' = at + 1
             /\ slot' = Garbage
             /\ wpc' = "appending"
             /\ exposed' = IF Exposes THEN exposed \union {op[at], slot} ELSE exposed
             /\ UNCHANGED <<disk, op, writes, acked, flushvars, readvars, crashes>>

\* num_datapoints++ is not atomic: Clear's reset may fall between its load and its
\* store. The cells it counts are then freed memory, still as it was or not.
CountOverClear == /\ wpc = "counting" /\ fpc = "clearing"
                  /\ buf' \in {Append(buf, slot), [i \in 1..(Len(buf) + 1) |-> Garbage]}
                  /\ \E flag \in BOOLEAN : sorted' = flag
                  /\ previous' = Len(buf) + 1
                  /\ at' = at + 1
                  /\ slot' = Garbage
                  /\ wpc' = "appending"
                  /\ fpc' = "idle" /\ cursor' = 0
                  /\ exposed' = exposed \union {op[at]}
                  /\ UNCHANGED <<disk, op, writes, acked, sorting, readvars, crashes>>

\* The task ends and Database::Write returns.
WriteReturns == /\ wpc = "appending" /\ at > Len(op)
                /\ wpc' = "idle"
                /\ acked' = acked \union PointsOf(op)
                /\ op' = <<>> /\ at' = 1 /\ previous' = 0
                /\ UNCHANGED <<bufvars, disk, writes, flushvars, readvars, exposed, crashes>>

----------------------------------------------------------------------------
(* Series::FlushBufferedDatapoints: on the flusher thread.                   *)

FlushBeginsForTwo == /\ fpc = "idle" /\ Len(buf) > 1
                     /\ fpc' = "writing" /\ cursor' = 0
                     /\ UNCHANGED <<bufvars, disk, workvars, sorting, readvars, exposed, crashes>>
FlushBegins == /\ fpc = "idle" /\ buf # <<>>
               /\ fpc' = "writing" /\ cursor' = 0
               /\ UNCHANGED <<bufvars, disk, workvars, sorting, readvars, exposed, crashes>>

\* Before the first file, and again before each one (GetIOVector), the buffer is sorted
\* if its flag says it is not.
SortBegins == /\ fpc = "writing" /\ ~sorted
              /\ fpc' = "sorting" /\ sorting' = Len(buf)
              /\ UNCHANGED <<bufvars, disk, workvars, cursor, readvars, exposed, crashes>>

\* The sort may lose cells; one between two files moves cells across the cursor.
LostBySort(after) == IF cursor = 0 THEN Cells(buf) \ Cells(after)
                                   ELSE Cells(buf) \union Cells(after)

SortEnds == /\ fpc = "sorting"
            /\ LET memory == Sorting!StableSort(Append(buf, slot), sorting)
               IN  /\ buf' = [i \in 1..Len(buf) |-> memory[i]]
                   /\ slot' = IF wpc = "counting" THEN memory[Len(buf) + 1] ELSE Garbage
            /\ exposed' = exposed \union LostBySort(buf')
            /\ sorted' = TRUE
            /\ fpc' = "writing" /\ sorting' = 0
            /\ UNCHANGED <<disk, workvars, cursor, readvars, crashes>>

\* DatapointFile::Write: as many of the points that are left as belong in one file.
WriteChunk == /\ fpc = "writing" /\ sorted /\ cursor < Len(buf)
              /\ \E n \in (cursor + 1)..Len(buf) :
                     /\ disk' = disk \union {buf[i] : i \in (cursor + 1)..n}
                     /\ cursor' = n
              /\ UNCHANGED <<bufvars, workvars, fpc, sorting, readvars, exposed, crashes>>

\* WriteOperation::Complete compares with the end of the buffer as it is now.
WritesCompleteAtOnce == /\ fpc = "writing" /\ cursor > 0
                        /\ fpc' = "clearing"
                        /\ UNCHANGED <<bufvars, disk, workvars, cursor, sorting, readvars, exposed, crashes>>
WritesComplete == /\ fpc = "writing" /\ cursor = Len(buf)
                  /\ fpc' = "clearing"
                  /\ UNCHANGED <<bufvars, disk, workvars, cursor, sorting, readvars, exposed, crashes>>

\* Clear frees every cell, those counted since Complete included. An append halfway will
\* count the first of the freed cells, still as it was or not.
Clear == /\ fpc = "clearing"
         /\ buf' = <<>> /\ sorted' = TRUE
         /\ slot' \in IF wpc = "counting" THEN {Garbage, buf[1]} ELSE {Garbage}
         /\ fpc' = "idle" /\ cursor' = 0
         /\ excused' = (excused \/ wpc = "scanning")
         /\ UNCHANGED <<disk, workvars, sorting, seen, wanted, missed, reads, exposed, crashes>>

----------------------------------------------------------------------------
(* Series::Read, from time 0: on the worker. A read forgets the one before.  *)

ReadDisk == /\ wpc = "idle" /\ reads < MaxReads
            /\ wpc' = "scanning"
            /\ seen' = disk
            /\ wanted' = {p \in acked : Time(p) >= 0 /\ \A d \in disk : Time(d) < Time(p)}
            /\ missed' = {} /\ excused' = FALSE
            /\ reads' = reads + 1
            /\ UNCHANGED <<bufvars, disk, op, at, previous, writes, acked, flushvars,
                           exposed, crashes>>

\* Two sorts of the same cells at once, the worker's and the flusher's, may leave any
\* of the values they move in any cell.
ScanSorts == /\ wpc = "scanning" /\ ~sorted
             /\ IF fpc = "sorting"
                THEN buf' \in [1..Len(buf) -> Cells(buf)]
                ELSE LET memory == Sorting!StableSort(Append(buf, Garbage), Len(buf))
                     IN  buf' = [i \in 1..Len(buf) |-> memory[i]]
             /\ exposed' = exposed \union LostBySort(buf')
             /\ sorted' = TRUE
             /\ UNCHANGED <<slot, disk, workvars, flushvars, readvars, crashes>>

TakenAfter(s, from) ==
    {s[j] : j \in {k \in 1..Len(s) : Time(s[k]) > from /\ \A i \in 1..(k - 1) : Time(s[i]) < Time(s[k])}}
\* The cells the loop appends to the result: those not before next_time, which each
\* point it takes moves past itself.
Taken(s, from) ==
    {s[j] : j \in {k \in 1..Len(s) : Time(s[k]) >= from /\ \A i \in 1..(k - 1) : Time(s[i]) < Time(s[k])}}

Ascending(s) == \A i, j \in 1..Len(s) : i < j => Time(s[i]) <= Time(s[j])

\* Reading the disk has moved next_time past the last point found there.
Scan == /\ wpc = "scanning" /\ sorted
        /\ LET from == CHOOSE t \in {0} \union {Time(c) + 1 : c \in seen} :
                          \A c \in seen : t > Time(c)
               found == seen \union Taken(buf, from)
           IN  missed' = {Time(p) : p \in wanted \ exposed} \ {Time(c) : c \in found}
        /\ excused' = (excused \/ ~Ascending(buf))
        /\ wpc' = "idle" /\ seen' = {} /\ wanted' = {}
        /\ UNCHANGED <<bufvars, disk, op, at, previous, writes, acked, flushvars,
                       reads, exposed, crashes>>

----------------------------------------------------------------------------
\* The end of the process and its restart. ~Database stops the workers and flushes
\* nothing, so that a shutdown leaves what a crash leaves: the files.
Restart == /\ crashes < MaxCrashes
           /\ crashes' = crashes + 1
           /\ exposed' = exposed \union Cells(buf)
           /\ buf' = <<>> /\ sorted' = TRUE /\ slot' = Garbage
           /\ wpc' = "idle" /\ op' = <<>> /\ at' = 1 /\ previous' = 0
           /\ fpc' = "idle" /\ cursor' = 0 /\ sorting' = 0
           /\ seen' = {} /\ wanted' = {} /\ missed' = {} /\ excused' = FALSE
           /\ UNCHANGED <<disk, writes, acked, reads>>

WriteTimes == UNION {[1..n -> Timestamp \union {NaN}] : n \in 1..MaxLength}

Worker == \/ SkipNaN \/ FillCell \/ CountCell \/ WriteReturns
          \/ ScanSorts \/ Scan
FlushMoves == \/ FlushBegins \/ SortBegins \/ WriteChunk \/ WritesComplete \/ Clear
Flusher == FlushMoves \/ SortEnds

Next == \/ \E times \in WriteTimes : BeginWrite(times)
        \/ ReadDisk
        \/ Worker \/ Flusher \/ CountOverClear
        \/ Restart

Spec == Init /\ [][Next]_vars

\* The flusher's loop never ends, nor does a sort last for ever; the worker may stop
\* anywhere. (Only SortEnds takes the flusher from sorting to writing.)
FairSpec == Spec /\ WF_vars(FlushMoves) /\ WF_fpc(fpc = "sorting" /\ fpc' = "writing")

----------------------------------------------------------------------------
(* Properties.                                                               *)

Cell == Point \union {Garbage}

TypeOK == /\ buf \in Seq(Cell) /\ sorted \in BOOLEAN /\ slot \in Cell /\ disk \in SUBSET Cell
          /\ wpc \in {"idle", "appending", "counting", "scanning"}
          /\ op \in Seq(Point \union {NaN}) /\ at \in Nat /\ previous \in Nat
          /\ writes \in 0..MaxWrites /\ acked \in SUBSET Point
          /\ fpc \in {"idle", "writing", "sorting", "clearing"}
          /\ cursor \in 0..Len(buf) /\ sorting \in 0..Len(buf)
          /\ seen \in SUBSET Cell /\ wanted \in SUBSET Point /\ missed \in SUBSET Int
          /\ excused \in BOOLEAN /\ exposed \in SUBSET Cell
          /\ reads \in 0..MaxReads /\ crashes \in 0..MaxCrashes

\* The durability audit: an acknowledged point is in the buffer or in a file, unless it
\* was counted while a flush was under way, dropped or displaced by a sort, or in
\* memory when the process ended. Nothing else in the write path loses a point.
AckedOrExposed == acked \subseteq Cells(buf) \union disk \union exposed

\* A flush that clears has written every cell it clears that nobody counted since.
ClearsWhatItWrote == fpc = "clearing" => Cells(buf) \subseteq disk \union exposed

\* Recent points are merged into reads (src/vqro/db/series.cc:33-34) whenever the
\* buffer is in order and no flush ends between the read's two halves.
NewPointsRead == ~excused => missed = {}

\* What was acknowledged reaches a file, or is lost by one of the named causes.
AckedOf(w) == {p \in acked : p.write = w}
EventuallyOnDisk == \A w \in 1..MaxWrites :
                       AckedOf(w) # {} ~> AckedOf(w) \subseteq disk \union exposed

\* While the process runs an acknowledged point waits in the buffer "until those points
\* are flushed to disk" (src/vqro/db/series.cc:35-36).
AckedSurvives == crashes = 0 => acked \subseteq Cells(buf) \union disk
=============================================================================

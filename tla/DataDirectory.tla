--------------------------- MODULE DataDirectory ---------------------------
(* One series's directory (src/vqro/db/datapoint_directory.cc) of sparse     *)
(* files (src/vqro/db/sparse_file.cc): which file each point of a flush goes *)
(* to, what the files are renamed to, and what a read finds. A flush writes  *)
(* a buffer in order; the files are all that survives the process.           *)
EXTENDS Integers, FiniteSets, SequencesExt

CONSTANTS Timestamp,     \* timestamps of points
          Forever,       \* INT64_MAX
          MaxPoints,     \* sparse_file_max_size / datapoint_size
          OptPoints,     \* sparse_file_optimize_size / datapoint_size
          MaxFlushes,    \* bound: flushes
          MaxBatch,      \* bound: points of a flush
          MaxCrashes     \* bound: ends of the process

ASSUME TimestampAssumption == Forever \in Nat /\ Timestamp \subseteq 0..Forever
ASSUME SizesAssumption == MaxPoints \in Nat \ {0} /\ OptPoints \in Nat
ASSUME BoundsAssumption == {MaxFlushes, MaxBatch, MaxCrashes} \subseteq Nat

\* A flush writes a timestamp at most once, so a point is named after its flush.
Point == [time : Timestamp, flush : 1..MaxFlushes]

\* "<min_timestamp>-<max_timestamp>", with ".opt" once the file outgrew OptPoints. A name
\* may end just before the next file begins, where there need be no point.
Name == [min : Timestamp, max : 0..Forever, opt : BOOLEAN]

VARIABLES
    store,      \* the directory: file name -> the points in it, oldest first
    known,      \* filenames_read
    files,      \* datapoint_files: the name each object thinks it has
    buf,        \* the buffer being flushed
    cursor,     \* WriteOperation::cursor: points written; the next is cursor + 1
    at,         \* file_it, counted from 1: Len(files) + 1 is end()
    new,        \* the name of a new file's object, not in datapoint_files yet, if there is one
    reach,      \* the max_timestamp the file being written to will have
    moving,     \* the path of the file being renamed, if one is
    pc,         \* "idle", "listing", "placing", "renaming", "marking", "moving", "spinning"
    flushes,
    flushed,    \* history: points handed to writev
    filled,     \* history: a file has reached its maximum size
    ignored,    \* history: a listing left out a file
    crashes

writevars == <<buf, cursor, at, new, reach, moving>>
history == <<flushes, flushed, filled, ignored, crashes>>
vars == <<store, known, files, writevars, pc, history>>

Init == /\ store = [n \in {} |-> <<>>] /\ known = FALSE /\ files = <<>>
        /\ buf = <<>> /\ cursor = 0 /\ at = 1 /\ new = <<>> /\ reach = 0 /\ moving = <<>>
        /\ pc = "idle"
        /\ flushes = 0 /\ flushed = {} /\ filled = FALSE /\ ignored = FALSE /\ crashes = 0

----------------------------------------------------------------------------
(* FindFirstPotentialFile: FindFirst has its steps; this is where they end.  *)

Ordered(fs) == \A i, j \in 1..Len(fs) : i < j => fs[i].min <= fs[j].min

\* A pass of the loop, from its three indices to the next. A file that starts at the
\* timestamp ends the search, as an empty range does.
Indices(fs) == [left : 0..Len(fs), middle : 0..Len(fs), right : 0..Len(fs)]
Probe(fs, t) ==
    [s \in Indices(fs) |->
        LET probe == (s.right - s.left) \div 2
            start == fs[probe + 1].min
        IN  IF s.left >= s.right THEN s
            ELSE IF start > t THEN [left |-> s.left, middle |-> probe, right |-> probe]
            ELSE IF start < t THEN [left |-> probe + 1, middle |-> probe, right |-> s.right]
            ELSE [left |-> probe, middle |-> probe, right |-> probe]]

\* After as many passes as there are pairs of ends a search that has not returned never
\* will.
Passes(fs) == (Len(fs) + 1) * (Len(fs) + 1)
Searched(fs, t) ==
    LET after[k \in 0..Passes(fs)] ==
            IF k = 0 THEN [left |-> 0, middle |-> 0, right |-> Len(fs)]
            ELSE Probe(fs, t)[after[k - 1]]
    IN  after[Passes(fs)]

Never == -1
Middle(fs, t) == LET last == Searched(fs, t)
                 IN  IF last.left >= last.right THEN last.middle ELSE Never

Spins(fs, t) == Middle(fs, t) = Never
FindFirst(fs, t) == IF Spins(fs, t) THEN 1 ELSE Middle(fs, t) + 1

----------------------------------------------------------------------------
(* DatapointDirectory::Write.                                                *)

\* ReadFilenames: ordered by min_timestamp, files of the same one anyhow. Past ".opt"
\* the parser steps over sizeof(char*) characters, to memory that may hold anything:
\* it takes the file or ignores it.
Listings == {fs \in UNION {SetToSeqs(S) : S \in {T \in SUBSET DOMAIN store :
                              \A n \in DOMAIN store \ T : n.opt}} : Ordered(fs)}

Search(fs, t) == /\ at' = FindFirst(fs, t)
                 /\ pc' = IF Spins(fs, t) THEN "spinning" ELSE "placing"

Flush(batch) ==
    /\ pc = "idle" /\ flushes < MaxFlushes
    /\ flushes' = flushes + 1
    /\ buf' = [i \in 1..Len(batch) |-> [time |-> batch[i], flush |-> flushes']]
    /\ cursor' = 0
    /\ IF known THEN Search(files, batch[1]) ELSE pc' = "listing" /\ UNCHANGED at
    /\ UNCHANGED <<store, known, files, new, reach, moving, flushed, filled, ignored, crashes>>

List == /\ pc = "listing"
        /\ \E fs \in Listings :
               /\ files' = fs
               /\ ignored' = (ignored \/ \E n \in DOMAIN store : n \notin Range(fs))
               /\ Search(fs, buf[1].time)
        /\ known' = TRUE
        /\ UNCHANGED <<store, buf, cursor, new, reach, moving, flushes, flushed, filled, crashes>>

NextTime == buf[cursor + 1].time
Placing == pc = "placing" /\ cursor < Len(buf)

AtEnd == at = Len(files) + 1
Missing == ~AtEnd /\ files[at] \notin DOMAIN store
Remaining == IF Len(store[files[at]]) < MaxPoints THEN MaxPoints - Len(store[files[at]]) ELSE 0

\* max_writable_timestamp: up to where the file after i begins.
BoundUpTo(i) == IF i > Len(files) THEN Forever ELSE files[i].min - 1
Bound == BoundUpTo(at + 1)

SkipFullInPlace == /\ Placing /\ ~AtEnd /\ ~Missing /\ Remaining = 0
                   /\ UNCHANGED vars
SkipFull == /\ Placing /\ ~AtEnd /\ ~Missing /\ Remaining = 0
            /\ at' = at + 1
            /\ UNCHANGED <<store, known, files, buf, cursor, new, reach, moving, pc, history>>

Fits == ~AtEnd /\ ~Missing /\ Remaining > 0
SkipOld == /\ Placing /\ Fits /\ Bound < NextTime
           /\ at' = at + 1
           /\ UNCHANGED <<store, known, files, buf, cursor, new, reach, moving, pc, history>>

\* GetIOVector: the points after the cursor up to the bound, as many as there is room for.
Writable(bound, room) ==
    {i \in (cursor + 1)..Len(buf) : buf[i].time <= bound /\ i <= cursor + room}

\* SparseFile::Write looks for the new max_timestamp among all the points left, those
\* there is no room for included.
NewMaxOfFirst(n, bound) == IF NextTime > n.max THEN NextTime ELSE n.max
NewMax(n, bound) == LET last == buf[Len(buf)].time
                        top == IF last < bound THEN last ELSE bound
                    IN  IF top > n.max THEN top ELSE n.max

\* WriteVector to a file opened with O_CREAT and O_APPEND.
WriteTruncating(n, bound, room) ==
    LET chunk == Writable(bound, room)
    IN  /\ store' = [m \in DOMAIN store \union {n} |->
                        IF m = n THEN SubSeq(buf, cursor + 1, cursor + Cardinality(chunk))
                        ELSE store[m]]
        /\ flushed' = flushed \union {buf[i] : i \in chunk}
        /\ cursor' = cursor + Cardinality(chunk)
        /\ reach' = NewMax(n, bound)
        /\ filled' = (filled \/ Len(store'[n]) >= MaxPoints)
        /\ pc' = "renaming"
Write(n, bound, room) ==
    LET chunk == Writable(bound, room)
        old == IF n \in DOMAIN store THEN store[n] ELSE <<>>
    IN  /\ store' = [m \in DOMAIN store \union {n} |->
                        IF m = n THEN old \o SubSeq(buf, cursor + 1, cursor + Cardinality(chunk))
                        ELSE store[m]]
        /\ flushed' = flushed \union {buf[i] : i \in chunk}
        /\ cursor' = cursor + Cardinality(chunk)
        /\ reach' = NewMax(n, bound)
        /\ filled' = (filled \/ Len(store'[n]) >= MaxPoints)
        /\ pc' = "renaming"

WriteToFile == /\ Placing /\ Fits /\ Bound >= NextTime
               /\ NextTime >= files[at].min
               /\ Write(files[at], Bound, Remaining)
               /\ UNCHANGED <<known, files, buf, at, new, moving, flushes, ignored, crashes>>

WriteToNewFile == /\ Placing
                  /\ AtEnd \/ (Fits /\ Bound >= NextTime /\ NextTime < files[at].min)
                  /\ LET n == [min |-> NextTime, max |-> NextTime, opt |-> FALSE]
                     IN  /\ Write(n, BoundUpTo(at), MaxPoints)
                         /\ new' = <<n>>
                  /\ UNCHANGED <<known, files, buf, at, moving, flushes, ignored, crashes>>

Object == IF new = <<>> THEN files[at] ELSE new[1]

\* The object takes its new name first, and then the file.
Rename(name) == /\ pc' = "moving"
                /\ moving' = <<Object>>
                /\ IF new = <<>> THEN files' = [files EXCEPT ![at] = name] /\ UNCHANGED new
                                 ELSE new' = <<name>> /\ UNCHANGED files

SetMax == /\ pc = "renaming" /\ reach > Object.max
          /\ Rename([Object EXCEPT !.max = reach])
          /\ UNCHANGED <<store, known, buf, cursor, at, reach, history>>
KeepName == /\ pc = "renaming" /\ reach <= Object.max
            /\ pc' = "marking"
            /\ UNCHANGED <<store, known, files, writevars, history>>

TooBig == ~Object.opt /\ Len(store[Object]) > OptPoints

\* FileIsTooBig: handed to the optimizer, which leaves it as it is, and marked.
SetOptimized == /\ pc = "marking" /\ TooBig
                /\ Rename([Object EXCEPT !.opt = TRUE])
                /\ UNCHANGED <<store, known, buf, cursor, at, reach, history>>

\* SparseFile::Write returns, and a new file joins datapoint_files.
JoinNothing == files
JoinLast == files \o new
Join == IF new = <<>> THEN files ELSE InsertAt(files, at, new[1])
Returned == pc' = "placing" /\ files' = Join /\ new' = <<>> /\ at' = at + 1
WriteReturns == /\ pc = "marking" /\ ~TooBig
                /\ Returned
                /\ UNCHANGED <<store, known, buf, cursor, reach, moving, history>>

\* rename(2): whatever had the new name is gone. The first of the two renames is the one
\* that leaves the file unmarked.
Move == /\ pc = "moving"
        /\ store' = [m \in (DOMAIN store \ Range(moving)) \union {Object} |->
                        IF m = Object THEN store[moving[1]] ELSE store[m]]
        /\ IF Object.opt = moving[1].opt THEN pc' = "marking" /\ UNCHANGED <<files, new, at>>
                                         ELSE Returned
        /\ moving' = <<>>
        /\ UNCHANGED <<known, buf, cursor, reach, history>>

FlushReturns == /\ pc = "placing" /\ cursor = Len(buf)
                /\ pc' = "idle" /\ buf' = <<>> /\ cursor' = 0 /\ at' = 1 /\ reach' = 0
                /\ UNCHANGED <<store, known, files, new, moving, history>>

----------------------------------------------------------------------------
Lost == /\ pc' = "idle" /\ known' = FALSE /\ files' = <<>>
        /\ buf' = <<>> /\ cursor' = 0 /\ at' = 1 /\ new' = <<>> /\ reach' = 0 /\ moving' = <<>>

\* The process ends, between any two system calls; FileIsTooBig's WorkerThreadTooBusy,
\* which nothing catches, ends it too.
Crash == /\ crashes < MaxCrashes /\ (pc # "idle" \/ known)
         /\ crashes' = crashes + 1
         /\ Lost
         /\ UNCHANGED <<store, flushes, flushed, filled, ignored>>

\* GetFileSize of a file that is no longer there throws on the flusher thread.
Abort == /\ Placing /\ Missing
         /\ Lost
         /\ UNCHANGED <<store, history>>

Batches == {b \in UNION {[1..n -> Timestamp] : n \in 1..MaxBatch} :
                \A i, j \in 1..Len(b) : i < j => b[i] < b[j]}

Place == \/ List \/ SkipFull \/ SkipOld \/ WriteToFile \/ WriteToNewFile
         \/ SetMax \/ KeepName \/ SetOptimized \/ WriteReturns \/ Move
Step == Place \/ FlushReturns \/ Abort

Next == (\E b \in Batches : Flush(b)) \/ Step \/ Crash

Spec == Init /\ [][Next]_vars
FairSpec == Spec /\ WF_vars(Step)

----------------------------------------------------------------------------
(* DatapointDirectory::Read and SparseFile::Read, of a directory at rest.    *)

\* Of the points with one timestamp the last written counts.
FirstIn(ps, from) ==
    {p \in Range(ps) : p.time >= from /\ \A q \in Range(ps) : q.time = p.time => q.flush >= p.flush}
LatestIn(ps, from) ==
    {p \in Range(ps) : p.time >= from /\ \A q \in Range(ps) : q.time = p.time => q.flush <= p.flush}

\* A file that ends before next_time is passed over; any other moves it past the last
\* point it gives.
ReadOf(f) ==
    [s \in [next : 0..(Forever + 1), given : SUBSET Point] |->
        LET got == LatestIn(store[f], s.next)
        IN  IF f.max < s.next THEN s
            ELSE [next |-> CHOOSE t \in {s.next} \union {p.time + 1 : p \in got} :
                               \A p \in got : t > p.time,
                  given |-> s.given \union got]]
Found(from) ==
    LET first == FindFirst(files, from)
        after[k \in (first - 1)..Len(files)] ==
            IF k = first - 1 THEN [next |-> from, given |-> {}]
            ELSE ReadOf(files[k])[after[k - 1]]
    IN  after[Len(files)].given

Stored == UNION {Range(store[n]) : n \in DOMAIN store}

----------------------------------------------------------------------------
(* Properties.                                                               *)

TypeOK == /\ DOMAIN store \subseteq Name /\ \A n \in DOMAIN store : store[n] \in Seq(Point)
          /\ known \in BOOLEAN /\ files \in Seq(Name)
          /\ buf \in Seq(Point) /\ cursor \in 0..Len(buf) /\ at \in 1..(Len(files) + 1)
          /\ new \in Seq(Name) /\ reach \in 0..Forever /\ moving \in Seq(Name)
          /\ pc \in {"idle", "listing", "placing", "renaming", "marking", "moving", "spinning"}
          /\ flushes \in 0..MaxFlushes /\ flushed \in SUBSET Point
          /\ filled \in BOOLEAN /\ ignored \in BOOLEAN /\ crashes \in Nat

\* What FindFirst takes for granted: Write inserts each new file where its
\* min_timestamp belongs. Only past a full file does it not look
\* where that file starts.
FilesInOrder == ~filled => Ordered(files)

\* A file's name tells the range of its points, on which reads rely to skip files,
\* except between a write and its rename: there a crash leaves a wrong name for good.
NamesTellRange ==
    crashes = 0 /\ pc \in {"idle", "placing", "spinning"} =>
        \A n \in DOMAIN store : \A p \in Range(store[n]) : n.min <= p.time /\ p.time <= n.max

\* The write path is append-only (src/vqro/db/sparse_file.cc:101) as long as no file is
\* full and every file is recognised after a restart: no rename replaces a file.
FlushedStays == ~filled /\ ~ignored => flushed \subseteq Stored

\* A read finds, for each timestamp, the point written last, under the same conditions.
ReadsLatest ==
    (pc = "idle" /\ known /\ ~filled /\ ~ignored /\ crashes = 0) =>
        \A from \in Timestamp :
            Spins(files, from) \/ Found(from) = {p \in flushed : p.time >= from /\
                        \A q \in flushed : q.time = p.time => q.flush <= p.flush}

\* A flush ends, unless its search spins: every pass of the loop moves the cursor or
\* the file.
FlushEnds == pc # "idle" ~> pc \in {"idle", "spinning"}
=============================================================================

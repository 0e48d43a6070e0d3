------------------------------- MODULE FileIO -------------------------------
(* File descriptors and bytes (fileutil.h and .cc of src/vqro/base), under  *)
(* SparseFile's Read and Write and the write buffer's GetIOVector. FileHandle *)
(* closes its descriptor when it is destroyed, and is passed to WriteVector  *)
(* and ReadValues by value: the copy closes it first, and the original       *)
(* closes the same number again, which may be another thread's by then.      *)
EXTENDS Integers, FiniteSets, SequencesExt

CONSTANTS Reader,        \* workers in SparseFile::Read
          Flusher,       \* the thread in SparseFile::Write
          Other,         \* threads that close what they open once: sqlite's, gRPC's
          File,          \* sparse files
          Db,            \* what the other threads open
          Fd,            \* descriptor numbers
          PointBytes,    \* datapoint_size
          PerAlloc,      \* datapoints_per_alloc
          MaxBatch,      \* bound: points of a flush
          MaxPoints,     \* bound: points flushed
          MaxReads,      \* bound: reads
          MaxCuts        \* bound: times a read returns part of a point

Thread == Reader \union {Flusher} \union Other

ASSUME ThreadAssumption == /\ Flusher \notin Reader \union Other
                           /\ Reader \intersect Other = {}
                           /\ Db \notin File /\ "nobody" \notin Thread
ASSUME FdAssumption == Fd \subseteq Nat
ASSUME SizesAssumption == {PointBytes, PerAlloc} \subseteq Nat \ {0}
ASSUME BoundsAssumption == {MaxBatch, MaxPoints, MaxReads, MaxCuts} \subseteq Nat

\* A point is its number in the order of flushing; a byte, which point's and where in it.
BytesOf(p) == [k \in 1..PointBytes |-> <<p, k>>]
Bytes(ps) == FlattenSeq([i \in 1..Len(ps) |-> BytesOf(ps[i])])

Closed == [by |-> "nobody"]
Described == [by : Thread, file : File \union {Db}, offset : Nat]

VARIABLES
    store,      \* the bytes of each file
    table,      \* the process's descriptor table: number -> open file
    pc,         \* pc[t]: "idle", "open" (opened), "io" (in the callee, with the copy),
                \* "copied" (the copy is gone), "overrun" (past the end of the array)
    fd,         \* fd[t]: FileHandle::fd, -1 if there is none
    path,       \* path[t]
    want, got,  \* of a reader: the bytes asked for, and those stored so far
    result,     \* of a reader: how ReadValues ended: "none", "values", "thrown"
    buf,        \* the buffer being flushed: points
    cursor,     \* WriteOperation::cursor
    iov,        \* what WriteVector has left to write: a sequence of byte sequences
    writing,    \* the points of this write
    last,       \* the number of the last point taken up
    reads, cuts,
    wrote,      \* history: the points written to each file
    robbed,     \* history: threads whose descriptor another one has closed or read from
    ragged,     \* history: readers that have been given part of a point
    damaged     \* history: files a write has reached that was cut off or not meant for them

readvars == <<want, got, result, reads, cuts, ragged>>
flushvars == <<buf, cursor, iov, writing, last, wrote>>
vars == <<store, table, pc, fd, path, readvars, flushvars, robbed, damaged>>

Init == /\ store = [f \in File \union {Db} |-> <<>>]
        /\ table = [n \in Fd |-> Closed]
        /\ pc = [t \in Thread |-> "idle"] /\ fd = [t \in Thread |-> -1]
        /\ path = [t \in Thread |-> Db]
        /\ want = [t \in Reader |-> 0] /\ got = [t \in Reader |-> <<>>]
        /\ result = [t \in Reader |-> "none"]
        /\ buf = <<>> /\ cursor = 0 /\ iov = <<>> /\ writing = <<>> /\ last = 0
        /\ reads = 0 /\ cuts = 0
        /\ wrote = [f \in File |-> <<>>] /\ robbed = {} /\ ragged = {} /\ damaged = {}

----------------------------------------------------------------------------
(* FileHandle.                                                               *)

\* open(2) takes the lowest number that is free.
Open(t, f) ==
    \E n \in Fd :
        /\ table[n] = Closed /\ \A k \in Fd : k < n => table[k] # Closed
        /\ table' = [table EXCEPT ![n] = [by |-> t, file |-> f, offset |-> 0]]
        /\ fd' = [fd EXCEPT ![t] = n]
        /\ path' = [path EXCEPT ![t] = f]
        /\ pc' = [pc EXCEPT ![t] = "open"]
        /\ robbed' = robbed \ {t}

\* ~FileHandle: close(2) of a number that is closed fails, and nobody looks.
CloseNothing(t) == UNCHANGED <<table, robbed>>
Close(t) == /\ table' = [table EXCEPT ![fd[t]] = Closed]
            /\ robbed' = robbed \union ({table[fd[t]].by} \ {t, "nobody"})

CopyDies(t) == /\ Close(t)
               /\ pc' = [pc EXCEPT ![t] = "copied"]
               /\ UNCHANGED <<fd, path>>
HandleDies(t) == /\ Close(t)
                 /\ pc' = [pc EXCEPT ![t] = "idle"]
                 /\ fd' = [fd EXCEPT ![t] = -1] /\ path' = [path EXCEPT ![t] = Db]

----------------------------------------------------------------------------
(* SparseFile::Read, on a worker.                                            *)

OpenToRead(t, f) ==
    /\ pc[t] = "idle" /\ reads < MaxReads
    /\ reads' = reads + 1
    /\ Open(t, f)
    /\ UNCHANGED <<store, want, got, result, cuts, ragged, flushvars, damaged>>

\* GetFileSize, of the path, and whole points of it.
Size(t) ==
    /\ t \in Reader /\ pc[t] = "open"
    /\ want' = [want EXCEPT ![t] = (Len(store[path[t]]) \div PointBytes) * PointBytes]
    /\ pc' = [pc EXCEPT ![t] = "io"]
    /\ UNCHANGED <<store, table, fd, path, got, result, reads, cuts, ragged, flushvars, robbed, damaged>>

SizeThrows(t) ==
    /\ t \in Reader /\ pc[t] = "open"
    /\ HandleDies(t)
    /\ UNCHANGED <<store, readvars, flushvars, damaged>>

InIO(t) == t \in Reader /\ pc[t] = "io"
Description(t) == table[fd[t]]
Readable(t) == Description(t) # Closed /\ Description(t).by # Flusher
Left(t) == Len(store[Description(t).file]) - Description(t).offset

\* The bytes go behind those of the earlier reads.
StoredAtStart(t, bytes) == [got EXCEPT ![t] = bytes]
StoredAfter(t, bytes) == [got EXCEPT ![t] = @ \o bytes]

\* read(2) returns up to what is asked for. The offset moves by all of it, the start
\* of the next read only by whole values.
Read(t, k) ==
    LET d == Description(t)
        whole == k - (k % PointBytes)
    IN  /\ InIO(t) /\ Len(got[t]) < want[t] /\ Readable(t)
        /\ k <= want[t] - Len(got[t]) /\ k <= Left(t)
        /\ cuts' = IF whole = k THEN cuts ELSE cuts + 1
        /\ cuts' <= MaxCuts
        /\ got' = StoredAfter(t, SubSeq(store[d.file], d.offset + 1, d.offset + whole))
        /\ table' = [table EXCEPT ![fd[t]].offset = @ + k]
        /\ ragged' = IF whole = k THEN ragged ELSE ragged \union {t}
        /\ robbed' = robbed \union ({d.by} \ {t})
        /\ UNCHANGED <<store, pc, fd, path, want, result, reads, flushvars, damaged>>

\* All is read, or the end of the file is; or read(2) fails, with EBADF if nothing else.
Returns(t, how) ==
    /\ result' = [result EXCEPT ![t] = how]
    /\ CopyDies(t)
    /\ UNCHANGED <<store, want, got, reads, cuts, ragged, flushvars, damaged>>
ReadValuesEnds(t) == /\ InIO(t)
                     /\ Len(got[t]) = want[t] \/ (Readable(t) /\ Left(t) <= 0)
                     /\ Returns(t, "values")
ReadValuesThrows(t) == /\ InIO(t) /\ Len(got[t]) < want[t] /\ ~Readable(t)
                       /\ Returns(t, "thrown")

\* The values are sorted and appended to the read; then the handle is destroyed.
ReadEnds(t) ==
    /\ t \in Reader /\ pc[t] = "copied"
    /\ HandleDies(t)
    /\ want' = [want EXCEPT ![t] = 0] /\ got' = [got EXCEPT ![t] = <<>>]
    /\ result' = [result EXCEPT ![t] = "none"] /\ ragged' = ragged \ {t}
    /\ UNCHANGED <<store, reads, cuts, flushvars, damaged>>

----------------------------------------------------------------------------
(* GetIOVector: of the points of buf after pos, those up to end_it, and as   *)
(* many as max_writable_datapoints allows.                                   *)

Ceiling(n) == (n + PerAlloc - 1) \div PerAlloc
IovCountRoundedDown(pos, end, room) ==
    Min({room \div PerAlloc, (end - 1) \div PerAlloc - pos \div PerAlloc + 1})
IovCount(pos, end, room) ==
    Min({Ceiling(room), (end - 1) \div PerAlloc - pos \div PerAlloc + 1})

\* The elements it fills, each by the index of the allocation: index, first point, how
\* many. A pass of the loop goes on to the end of the allocation, or to where the points
\* or the room end.
Filled(pos, end, room) ==
    LET stop == Min({end, pos + room})
        i[k \in 0..room] ==
            IF k = 0 THEN pos
            ELSE i[k - 1] + Min({stop - i[k - 1], PerAlloc - (i[k - 1] % PerAlloc)})
        passes == Cardinality({k \in 1..room : i[k - 1] < stop})
    IN  [k \in 1..passes |-> [index |-> i[k - 1] \div PerAlloc, first |-> i[k - 1] + 1,
                              usable |-> i[k] - i[k - 1]]]

Indices(elements) == {elements[i].index : i \in 1..Len(elements)}
InArray(pos, end, room) == Indices(Filled(pos, end, room)) = 0..(IovCount(pos, end, room) - 1)

----------------------------------------------------------------------------
(* Series::FlushBufferedDatapoints and SparseFile::Write, on the flusher.    *)

Flush(n) == /\ pc[Flusher] = "idle" /\ buf = <<>> /\ last + n <= MaxPoints
            /\ buf' = [i \in 1..n |-> last + i] /\ last' = last + n
            /\ cursor' = 0
            /\ UNCHANGED <<store, table, pc, fd, path, readvars, iov, writing, wrote, robbed, damaged>>

OpenToWrite(f) == /\ pc[Flusher] = "idle" /\ buf # <<>>
                  /\ Open(Flusher, f)
                  /\ UNCHANGED <<store, readvars, flushvars, damaged>>

NothingBefore(end) ==
    /\ pc[Flusher] = "open" /\ end <= cursor
    /\ pc' = [pc EXCEPT ![Flusher] = "copied"]
    /\ UNCHANGED <<store, table, fd, path, readvars, flushvars, robbed, damaged>>

Vector(end, room) ==
    /\ pc[Flusher] = "open"
    /\ LET elements == Filled(cursor, end, room)
           points(e) == SubSeq(buf, e.first, e.first + e.usable - 1)
       IN  /\ iov' = [i \in 1..Len(elements) |-> Bytes(points(elements[i]))]
           /\ writing' = FlattenSeq([i \in 1..Len(elements) |-> points(elements[i])])
           /\ pc' = [pc EXCEPT ![Flusher] = IF InArray(cursor, end, room) THEN "io" ELSE "overrun"]
    /\ UNCHANGED <<store, table, fd, path, readvars, buf, cursor, last, wrote, robbed, damaged>>

\* WriteVector: past the elements that are written, and into the one that is in part.
AdvanceByElements(v, k) ==
    LET upTo(i) == Len(FlattenSeq(SubSeq(v, 1, i)))
        done == Max({i \in 0..Len(v) : upTo(i) <= k})
    IN  SubSeq(v, done + 1, Len(v))
Advance(v, k) ==
    LET upTo(i) == Len(FlattenSeq(SubSeq(v, 1, i)))
        done == Max({i \in 0..Len(v) : upTo(i) <= k})
        rest == SubSeq(v, done + 1, Len(v))
    IN  IF rest = <<>> THEN <<>>
        ELSE <<SubSeq(rest[1], k - upTo(done) + 1, Len(rest[1]))>> \o Tail(rest)

\* Readers open O_RDONLY: a write to what they opened fails.
Writable == Description(Flusher) # Closed /\ Description(Flusher).by \notin Reader
Misdirected == Description(Flusher).by # Flusher

\* writev(2) writes up to what it is given.
Writev(k) ==
    LET d == Description(Flusher)
    IN  /\ pc[Flusher] = "io" /\ iov # <<>> /\ Writable
        /\ k <= Len(FlattenSeq(iov))
        /\ store' = [store EXCEPT ![d.file] = @ \o SubSeq(FlattenSeq(iov), 1, k)]
        /\ iov' = Advance(iov, k)
        /\ damaged' = IF Misdirected THEN damaged \union {d.file, path[Flusher]} ELSE damaged
        /\ UNCHANGED <<table, pc, fd, path, readvars, buf, cursor, writing, last, wrote, robbed>>
WriteVectorEnds == /\ pc[Flusher] = "io" /\ iov = <<>>
                   /\ wrote' = [wrote EXCEPT ![path[Flusher]] = @ \o writing]
                   /\ CopyDies(Flusher)
                   /\ UNCHANGED <<store, readvars, buf, cursor, iov, writing, last, damaged>>

\* The renames, which go by the path; then the handle is destroyed.
WriteEnds == /\ pc[Flusher] = "copied"
             /\ HandleDies(Flusher)
             /\ cursor' = IF cursor + Len(writing) = Len(buf) THEN 0 ELSE cursor + Len(writing)
             /\ buf' = IF cursor + Len(writing) = Len(buf) THEN <<>> ELSE buf
             /\ writing' = <<>>
             /\ UNCHANGED <<store, readvars, iov, last, wrote, damaged>>

\* An exception of the flusher ends the process, and so does writing past an array.
Terminate ==
    /\ pc[Flusher] \in {"io", "overrun"} /\ iov # <<>>
    /\ damaged' = IF pc[Flusher] = "io" /\ Bytes(writing) # FlattenSeq(iov)
                  THEN damaged \union {path[Flusher]} ELSE damaged
    /\ table' = [n \in Fd |-> Closed]
    /\ pc' = [t \in Thread |-> "idle"] /\ fd' = [t \in Thread |-> -1]
    /\ path' = [t \in Thread |-> Db]
    /\ want' = [t \in Reader |-> 0] /\ got' = [t \in Reader |-> <<>>]
    /\ result' = [t \in Reader |-> "none"]
    /\ buf' = <<>> /\ cursor' = 0 /\ iov' = <<>> /\ writing' = <<>>
    /\ robbed' = {} /\ ragged' = {}
    /\ UNCHANGED <<store, last, reads, cuts, wrote>>

----------------------------------------------------------------------------
(* Threads whose descriptors are no FileHandles.                             *)

OtherOpens(t) == /\ t \in Other /\ pc[t] = "idle"
                 /\ Open(t, Db)
                 /\ UNCHANGED <<store, readvars, flushvars, damaged>>
OtherCloses(t) == /\ t \in Other /\ pc[t] = "open"
                  /\ HandleDies(t)
                  /\ UNCHANGED <<store, readvars, flushvars, damaged>>

ReaderStep(t) == \/ \E f \in File : OpenToRead(t, f)
            \/ Size(t) \/ SizeThrows(t)
            \/ \E k \in 1..(MaxPoints * PointBytes) : Read(t, k)
            \/ ReadValuesEnds(t) \/ ReadValuesThrows(t) \/ ReadEnds(t)
Write == \/ \E n \in 1..MaxBatch : Flush(n)
         \/ \E f \in File : OpenToWrite(f)
         \/ \E end \in 0..Len(buf) : NothingBefore(end)
         \/ \E end \in (cursor + 1)..Len(buf), room \in 1..MaxBatch : Vector(end, room)
         \/ \E k \in 1..(MaxPoints * PointBytes) : Writev(k)
         \/ WriteVectorEnds \/ WriteEnds

Next == \/ \E t \in Reader : ReaderStep(t)
        \/ Write \/ Terminate
        \/ \E t \in Other : OtherOpens(t) \/ OtherCloses(t)

Spec == Init /\ [][Next]_vars

----------------------------------------------------------------------------
(* Properties.                                                               *)

TypeOK == /\ table \in [Fd -> Described \union {Closed}]
          /\ pc \in [Thread -> {"idle", "open", "io", "copied", "overrun"}]
          /\ fd \in [Thread -> Fd \union {-1}] /\ path \in [Thread -> File \union {Db}]
          /\ result \in [Reader -> {"none", "values", "thrown"}]
          /\ robbed \subseteq Thread /\ ragged \subseteq Reader
          /\ damaged \subseteq File \union {Db}

\* No descriptor leaks, whatever throws and however often a number is closed: the
\* number of an open file is in the hands of the thread that opened it.
OpenIsHeld == \A n \in Fd : table[n] # Closed =>
                  /\ fd[table[n].by] = n
                  /\ pc[table[n].by] # "idle"

\* A file holds its points whole and in the order of writing, however writev(2) divides
\* them, unless a write was cut off or went astray.
FilesWhole == \A f \in File \ damaged :
    IF path[Flusher] = f /\ pc[Flusher] = "io"
    THEN store[f] \o FlattenSeq(iov) = Bytes(wrote[f] \o writing)
    ELSE store[f] = Bytes(wrote[f])

\* A read gives the points of its own file from the first on, and all it asked for,
\* whatever is appended meanwhile, unless its descriptor was closed or read from behind
\* its back, or a read(2) ended inside a point.
ReadsOwnFile == \A t \in Reader :
    (result[t] = "values" /\ t \notin robbed \union ragged) =>
        got[t] = SubSeq(store[path[t]], 1, want[t])

\* The first write of a flush fills the array of iovecs it allocates, and no more.
VectorFits == pc[Flusher] = "overrun" => cursor > 0

\* "RAII wrapper for file descriptors" (src/vqro/base/fileutil.h:29): what a handle
\* closes is its own. It need not be, after the copy has closed it. No run checks this.
ClosesOwn == robbed = {}
=============================================================================

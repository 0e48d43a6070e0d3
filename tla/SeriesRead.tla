----------------------------- MODULE SeriesRead -----------------------------
(* A chunked read of one series (Database::Read, src/vqro/db/db.cc, over     *)
(* Series::Read, DatapointDirectory::Read and SparseFile::Read) while the    *)
(* flusher writes to the directory it reads, which no lock guards: the read  *)
(* sees the names, the files and the buffer at different times. What a sort  *)
(* or a clear does to a buffer under a scan is Series's subject: here a scan *)
(* is one step.                                                              *)
EXTENDS DataDirectory

CONSTANTS ReadSpace,     \* read_buffer_size
          MaxReads       \* bound: reads

ASSUME ReadAssumption == ReadSpace \in Nat \ {0} /\ MaxReads \in Nat

VARIABLES
    pending,    \* write_buffer while no flush has it: timestamps
    rpc,        \* "idle", "finding", "listing", "choosing", "opening", "scanning", "answering",
                \* "returned", "stuck"
    next, end,  \* ReadOperation::next_time, end_time
    chunk,      \* the points in ReadOperation::buffer
    it,         \* file_it, counted from 1
    listing,    \* new_files, between the listing and the swap
    path,       \* the file being opened
    dangling,   \* datapoint_files changed while file_it pointed into it
    result,     \* what the callback was given
    asked,      \* history: the points the read should give, by where they were when it began
    failed,     \* history: the last chunk ended in an exception nobody sees
    emptied,    \* history: a flush cleared the buffer between the files and the buffer
    reads

reader == <<rpc, next, end, chunk, it, listing, path, dangling, result, asked, failed, emptied>>
readvars == <<pending, reader, reads>>
allvars == <<vars, readvars>>

Reset == /\ rpc' = "idle" /\ next' = 0 /\ end' = 0 /\ chunk' = <<>> /\ it' = 1 /\ listing' = <<>> /\ path' = <<>>
         /\ dangling' = FALSE /\ result' = <<>> /\ asked' = [disk |-> {}, buffer |-> {}]
         /\ failed' = FALSE /\ emptied' = FALSE

ReadInit == /\ Init /\ pending = <<>> /\ reads = 0
            /\ rpc = "idle" /\ next = 0 /\ end = 0 /\ chunk = <<>> /\ it = 1
            /\ listing = <<>> /\ path = <<>>
            /\ dangling = FALSE /\ result = <<>> /\ asked = [disk |-> {}, buffer |-> {}]
            /\ failed = FALSE /\ emptied = FALSE

----------------------------------------------------------------------------
(* The write buffer: a flush empties it when it returns.                     *)

Buffered == IF pc = "idle"
            THEN {[time |-> pending[i], flush |-> flushes + 1] : i \in 1..Len(pending)}
            ELSE Range(buf)

\* Writes are tasks of the same worker: between two chunks they come.
Arrive(batch) == /\ pc = "idle" /\ pending = <<>> /\ flushes < MaxFlushes
                 /\ rpc \in {"idle", "finding"}
                 /\ pending' = batch
                 /\ UNCHANGED <<vars, reader, reads>>

\* FlushBufferedDatapoints. A new file moves what comes after it in the vector.
FlushBegins == /\ pending # <<>> /\ Flush(pending)
               /\ pending' = <<>>
               /\ UNCHANGED <<reader, reads>>
FlushSteps == /\ Place
              /\ dangling' = (dangling \/ (rpc \in {"choosing", "opening"}
                                            /\ (pc = "listing" \/ Len(files') > Len(files))))
              /\ UNCHANGED <<pending, rpc, next, end, chunk, it, listing, path, result, asked,
                             failed, emptied, reads>>
FlushClears == /\ FlushReturns
               /\ emptied' = (emptied \/ rpc \in {"choosing", "opening", "scanning"})
               /\ UNCHANGED <<pending, rpc, next, end, chunk, it, listing, path, dangling, result,
                              asked, failed, reads>>

----------------------------------------------------------------------------
(* Database::Read.                                                           *)

Complete == next >= end
SpaceLeft == Len(chunk) < ReadSpace
InRange(S) == {p \in S : next <= p.time /\ p.time < end}

\* What the read is asked for: the last version of each point in a file that has an
\* object, if the names have been read, and a name that covers it; and the points of the
\* buffer that are newer than all an earlier flush wrote.
Visible(p) == \E n \in DOMAIN store : /\ p \in Range(store[n]) /\ n.min <= p.time /\ p.time <= n.max
                                      /\ known => n \notin Range(new \o (IF new = <<>> THEN <<>> ELSE moving))
BeginRead(from, to) ==
    /\ rpc = "idle" /\ reads < MaxReads
    /\ reads' = reads + 1
    /\ next' = from /\ end' = to
    /\ rpc' = IF from >= to THEN "returned" ELSE "finding"
    /\ LET within(S) == {p \in S : from <= p.time /\ p.time < to}
           seen == {p \in Stored : Visible(p)}
       IN  asked' = [disk |-> within({p \in seen : \A q \in seen :
                                          q.time = p.time => q.flush <= p.flush}),
                     buffer |-> within({p \in Buffered : \A q \in Stored :
                                          q.flush < p.flush => q.time < p.time})]
    /\ UNCHANGED <<vars, pending, chunk, it, listing, path, dangling, result, failed, emptied>>

\* FindFirstPotentialFile.
Start(fs) == /\ it' = FindFirst(fs, next) /\ dangling' = FALSE
             /\ rpc' = IF Spins(fs, next) THEN "stuck" ELSE "choosing"

\* A directory no flush has made yet has no points: the exception of opendir ends there.
FindFile == /\ rpc = "finding"
            /\ \/ known /\ Start(files) /\ UNCHANGED listing
               \/ /\ ~known /\ flushes = 0
                  /\ rpc' = "scanning" /\ it' = 1 /\ dangling' = FALSE /\ UNCHANGED listing
               \/ /\ ~known /\ flushes > 0
                  /\ rpc' = "listing" /\ listing' \in Listings /\ UNCHANGED <<it, dangling>>
            /\ UNCHANGED <<vars, pending, next, end, chunk, path, result, asked, failed, emptied, reads>>

\* The swap of ReadFilenames. A flush that has begun meanwhile has a file_it of its own.
FlushInside == pc \in {"placing", "renaming", "marking", "moving"}
ListEnds == /\ rpc = "listing" /\ ~FlushInside
            /\ files' = listing /\ known' = TRUE /\ listing' = <<>>
            /\ ignored' = (ignored \/ \E n \in DOMAIN store : n \notin Range(listing))
            /\ Start(listing)
            /\ UNCHANGED <<store, writevars, pc, flushes, flushed, filled, crashes,
                           pending, next, end, chunk, path, result, asked, failed, emptied, reads>>

Unmoved == <<vars, pending, next, end, chunk, listing, result, asked, failed, emptied, reads>>
NoMore == ~SpaceLeft \/ Complete

PassedAtItsEnd == it <= Len(files) /\ files[it].max <= next
Passed == it <= Len(files) /\ files[it].max < next
Eligible == it <= Len(files) /\ next <= files[it].max /\ files[it].min < end

PassOverInPlace == /\ rpc = "choosing" /\ ~NoMore /\ Passed
                   /\ UNCHANGED allvars
PassOver == /\ rpc = "choosing" /\ ~NoMore /\ Passed
            /\ it' = it + 1
            /\ UNCHANGED <<Unmoved, rpc, path, dangling>>
Choose == /\ rpc = "choosing" /\ ~NoMore /\ Eligible
          /\ path' = <<files[it]>> /\ it' = it + 1
          /\ rpc' = "opening"
          /\ UNCHANGED <<Unmoved, dangling>>
FilesDone == /\ rpc = "choosing"
             /\ NoMore \/ (~Passed /\ ~Eligible)
             /\ rpc' = "scanning" /\ it' = 1 /\ dangling' = FALSE
             /\ UNCHANGED <<Unmoved, path>>

\* The points of a file or of the buffer as they are read: in the order of their times,
\* which differ.
InTime(S) == CHOOSE s \in [1..Cardinality(S) -> S] : \A i, j \in 1..Cardinality(S) : i < j => s[i].time < s[j].time

\* ReadOperation::Append, of as many as there is space for.
TakeAgain(S) == LET ps == InTime(S)
                    n == Min({Len(ps), ReadSpace - Len(chunk)})
                IN  /\ chunk' = chunk \o SubSeq(ps, 1, n)
                    /\ next' = IF n = 0 THEN next ELSE ps[n].time
Take(S) == LET ps == InTime(S)
               n == Min({Len(ps), ReadSpace - Len(chunk)})
           IN  /\ chunk' = chunk \o SubSeq(ps, 1, n)
               /\ next' = IF n = 0 THEN next ELSE ps[n].time + 1

\* SparseFile::Read, of a file that may have been renamed since: nobody looks at the
\* exception, and the rest of Series::Read is not run.
ReadFile == /\ rpc = "opening" /\ path[1] \in DOMAIN store
            /\ Take(InRange(LatestIn(store[path[1]], next)))
            /\ path' = <<>> /\ rpc' = "choosing"
            /\ UNCHANGED <<vars, pending, end, it, listing, dangling, result, asked, failed, emptied, reads>>
OpenFails == /\ rpc = "opening" /\ path[1] \notin DOMAIN store
             /\ path' = <<>> /\ rpc' = "answering" /\ failed' = TRUE
             /\ it' = 1 /\ dangling' = FALSE
             /\ UNCHANGED <<vars, pending, next, end, chunk, listing, result, asked, emptied, reads>>

\* The points of the buffer; space that is left completes the read.
ScanBufferOnce == /\ rpc = "scanning"
                  /\ LET ps == InTime(InRange(Buffered))
                     IN  chunk' = chunk \o SubSeq(ps, 1, Min({Len(ps), ReadSpace - Len(chunk)}))
                  /\ next' = end /\ rpc' = "answering"
                  /\ UNCHANGED <<vars, pending, end, it, listing, path, dangling, result, asked, failed,
                              emptied, reads>>
ScanBuffer == /\ rpc = "scanning"
              /\ LET ps == InRange(Buffered)
                 IN  IF Len(chunk) + Cardinality(ps) < ReadSpace
                     THEN /\ chunk' = chunk \o InTime(ps)
                          /\ next' = end
                     ELSE Take(ps)
              /\ rpc' = "answering"
              /\ UNCHANGED <<vars, pending, end, it, listing, path, dangling, result, asked, failed,
                              emptied, reads>>

\* The callback; an empty buffer ends the loop.
Deliver == /\ rpc = "answering" /\ chunk # <<>>
           /\ result' = result \o chunk /\ chunk' = <<>>
           /\ failed' = FALSE /\ it' = 1 /\ dangling' = FALSE
           /\ rpc' = IF Complete THEN "returned" ELSE "finding"
           /\ UNCHANGED <<vars, pending, next, end, listing, path, asked, emptied, reads>>
GiveUp == /\ rpc = "answering" /\ chunk = <<>>
          /\ rpc' = "returned" /\ it' = 1 /\ dangling' = FALSE
          /\ UNCHANGED <<Unmoved, path>>
ReadReturns == /\ rpc = "returned"
               /\ Reset
               /\ UNCHANGED <<vars, pending, reads>>

\* The process ends; an iterator into a vector that has moved may end it, and so does a
\* flush whose files a listing has taken away and freed.
ReadCrash == /\ Crash \/ Abort
             /\ Reset /\ pending' = <<>> /\ UNCHANGED reads
Segfault == /\ \/ rpc = "choosing" /\ dangling
               \/ rpc = "listing" /\ FlushInside
            /\ crashes' = crashes + 1
            /\ Lost /\ Reset /\ pending' = <<>>
            /\ UNCHANGED <<store, flushes, flushed, filled, ignored, reads>>

Reader == FindFile \/ ListEnds \/ PassOver \/ Choose \/ FilesDone \/ ReadFile \/ OpenFails \/ ScanBuffer
              \/ Deliver \/ GiveUp \/ ReadReturns
Flusher == FlushSteps \/ FlushClears

ReadNext == \/ \E b \in Batches : Arrive(b)
            \/ \E from \in Timestamp, to \in Timestamp \union {Forever} : BeginRead(from, to)
            \/ FlushBegins \/ Flusher \/ Reader \/ ReadCrash \/ Segfault

ReadSpec == ReadInit /\ [][ReadNext]_allvars /\ WF_allvars(Reader) /\ WF_allvars(Flusher)

----------------------------------------------------------------------------
(* Properties.                                                               *)

ReadTypeOK == /\ pending \in Seq(Timestamp)
              /\ rpc \in {"idle", "finding", "listing", "choosing", "opening", "scanning", "answering",
                          "returned", "stuck"}
              /\ next \in 0..(Forever + 1) /\ end \in 0..Forever
              /\ chunk \in Seq(Point) /\ Len(chunk) <= ReadSpace
              /\ it \in 1..(Len(files) + 1) \/ dangling
              /\ {listing, path} \subseteq Seq(Name) /\ dangling \in BOOLEAN
              /\ result \in Seq(Point) /\ asked \in [disk : SUBSET Point, buffer : SUBSET Point]
              /\ {failed, emptied} \subseteq BOOLEAN /\ reads \in 0..MaxReads

\* A read gives each timestamp once and in order, whatever a flush does to the files and
\* however the chunks divide them.
ResultInOrder == LET all == result \o chunk
                 IN  \A i, j \in 1..Len(all) : i < j => all[i].time < all[j].time

Given(p) == \E q \in Range(result) : q.time = p.time /\ q.flush >= p.flush
Whole == rpc = "returned" /\ ~failed /\ ~filled /\ ~ignored

\* What was on disk when the read began is in its result, or a newer version is, though
\* the flusher adds to the files, inserts new ones and renames them meanwhile; unless a
\* rename came between a path and its open.
DiskPointsReturned == Whole => \A p \in asked.disk : Given(p)

\* The guarantee of src/vqro/db/series.cc:33 across the chunks: points newer than the
\* files are given from the buffer or, once flushed, from the files; unless a flush
\* returned between the two.
NewPointsReturned == Whole /\ ~emptied => \A p \in asked.buffer : Given(p)

\* Between flushes the objects are those of the files on disk, whoever listed them first
\* and whatever a flush has renamed between a listing and its swap; unless a file has
\* filled up, or a listing leaves one out.
KnownIsStored == known /\ pc = "idle" /\ ~filled /\ ~ignored => Range(files) = DOMAIN store

\* A read ends, unless its search spins or the process ends: every chunk moves next_time.
ReadEnds == rpc \in {"finding", "listing"} ~> rpc \in {"idle", "stuck"}
=============================================================================

------------------------------- MODULE Server -------------------------------
(* The server process (src/vqro_server.cc) around its Database               *)
(* (src/vqro/db/db.cc): the main thread from the constructor of Database to  *)
(* its destructor, the thread that waits for signals, the RPC handlers of    *)
(* src/vqro/rpc/storage_service.h, and the flusher's rounds over the series, *)
(* which are never told to stop. What a flush does to one series is Series,  *)
(* and what a worker does with a task Worker.                                *)
EXTENDS Integers, FiniteSets, SequencesExt

CONSTANTS Series,        \* series a client may name
          Handler,       \* RPC threads
          Every,         \* flushes between two looks at the deadline (50)
          Workers,       \* db_worker_threads
          QueueLimit,    \* the workers' limit of queued tasks
          MaxBuffered    \* bound: points of a write buffer

ASSUME SetsAssumption == IsFiniteSet(Series) /\ IsFiniteSet(Handler)
ASSUME NumbersAssumption == {Every, Workers, MaxBuffered} \subseteq Nat \ {0} /\ QueueLimit \in Nat

VARIABLES
    main,           \* "starting", "building", "built", "waiting", "destroying", "destroyed",
                    \* "hung", "exited", "crashed"
    stopped,        \* workers the destructor has stopped
    main_server,    \* whether the pointer is set
    server,         \* the grpc server: "none", "open", "closing", "closed", "destroyed"
    term,           \* a SIGTERM is pending; a second one adds nothing
    sig,            \* the signal thread: "sigwait", or "stopping": in Shutdown()
    rpc,            \* handler -> "none", "handling", "queued"
    task,           \* handler -> the series and the points of the task it waits for
    series_by_key,
    buffered,       \* series -> points in its write buffer
    flusher,        \* "none", "gathering", "flushing", "sleeping"
    all_series,     \* those the round has not come to
    flushed,        \* flushed in this round
    cut             \* history: the last round ended at the deadline

process == <<main, stopped, main_server, server, term, sig>>
data == <<rpc, task, series_by_key, buffered>>
rounds == <<flusher, all_series, flushed, cut>>
vars == <<process, data, rounds>>

Task == [series : Series, points : {0, 1}]

Init == /\ main = "starting" /\ stopped = 0 /\ main_server = FALSE /\ server = "none"
        /\ term = FALSE /\ sig = "sigwait"
        /\ rpc = [h \in Handler |-> "none"] /\ task = [h \in Handler |-> <<>>]
        /\ series_by_key = {} /\ buffered = [s \in Series |-> 0]
        /\ flusher = "none" /\ all_series = <<>> /\ flushed = 0 /\ cut = FALSE

Ended == main \in {"exited", "crashed"}

----------------------------------------------------------------------------
(* RunServer and main.                                                       *)

\* The directory is made, the index opened, the workers are started, and the flusher is.
Construct == /\ main = "starting" /\ main' = "building" /\ flusher' = "gathering"
             /\ UNCHANGED <<stopped, main_server, server, term, sig, data, all_series, flushed, cut>>
ConstructFails == /\ main = "starting" /\ main' = "exited"
                  /\ UNCHANGED <<stopped, main_server, server, term, sig, data, rounds>>

\* From here on clients are served.
BuildAndStart == /\ main = "building" /\ main' = "built" /\ server' = "open"
                 /\ UNCHANGED <<stopped, main_server, term, sig, data, rounds>>
\* It gives a null server, whose Wait is called.
BuildFails == /\ main = "building" /\ main' = "crashed"
              /\ UNCHANGED <<stopped, main_server, server, term, sig, data, rounds>>

SetMainServer == /\ main = "built" /\ main' = "waiting" /\ main_server' = TRUE
                 /\ UNCHANGED <<stopped, server, term, sig, data, rounds>>

\* Wait returns once Shutdown has seen the last handler off, maybe before the signal thread
\* has reset main_server; the server is destroyed, then the database.
WaitReturnsOnClosing == /\ main = "waiting" /\ server \in {"closing", "closed"}
                        /\ main' = "destroying" /\ server' = "destroyed"
                        /\ UNCHANGED <<stopped, main_server, term, sig, data, rounds>>
WaitReturns == /\ main = "waiting" /\ server = "closed"
               /\ main' = "destroying" /\ server' = "destroyed"
               /\ UNCHANGED <<stopped, main_server, term, sig, data, rounds>>

\* ~Database: Stop().wait() of one worker after the other, the first time without end if
\* the worker sleeps through it (see Worker).
StopWorkerButOne == /\ main = "destroying" /\ stopped < Workers - 1 /\ stopped' = stopped + 1
                    /\ UNCHANGED <<main, main_server, server, term, sig, data, rounds>>
StopWorker == /\ main = "destroying" /\ stopped < Workers /\ stopped' = stopped + 1
              /\ UNCHANGED <<main, main_server, server, term, sig, data, rounds>>
StopIsMissed == /\ main = "destroying" /\ stopped < Workers /\ main' = "hung"
                /\ UNCHANGED <<stopped, main_server, server, term, sig, data, rounds>>
Destroy == /\ main = "destroying" /\ stopped = Workers /\ main' = "destroyed"
           /\ UNCHANGED <<stopped, main_server, server, term, sig, data, rounds>>
Exit == /\ main = "destroyed" /\ main' = "exited"
        /\ UNCHANGED <<stopped, main_server, server, term, sig, data, rounds>>

Main == \/ Construct \/ ConstructFails \/ BuildAndStart \/ BuildFails \/ SetMainServer
        \/ WaitReturns \/ StopWorker \/ Destroy \/ Exit

----------------------------------------------------------------------------
(* HandleSignals and Shutdown.                                               *)

Kill == /\ ~Ended /\ ~term /\ term' = TRUE
        /\ UNCHANGED <<main, stopped, main_server, server, sig, data, rounds>>

\* One that is caught while main_server is null is gone.
Catch == /\ ~Ended /\ term /\ sig = "sigwait"
         /\ term' = FALSE
         /\ IF main_server THEN sig' = "stopping" /\ server' = "closing"
                           ELSE UNCHANGED <<sig, server>>
         /\ UNCHANGED <<main, stopped, main_server, data, rounds>>

\* grpc::Server::Shutdown takes no new calls and, without a deadline, waits for each
\* handler to return.
Drained == /\ ~Ended /\ server = "closing" /\ \A h \in Handler : rpc[h] = "none"
           /\ server' = "closed"
           /\ UNCHANGED <<main, stopped, main_server, term, sig, data, rounds>>

ShutdownKeepsIt == /\ ~Ended /\ sig = "stopping" /\ server # "closing"
                   /\ sig' = "sigwait"
                   /\ UNCHANGED <<main, stopped, main_server, server, term, data, rounds>>
ShutdownReturns == /\ ~Ended /\ sig = "stopping" /\ server # "closing"
                   /\ main_server' = FALSE /\ sig' = "sigwait"
                   /\ UNCHANGED <<main, stopped, server, term, data, rounds>>

Signals == Catch \/ Drained \/ ShutdownReturns

----------------------------------------------------------------------------
(* WriteDatapoints and ReadDatapoints.                                       *)

Accept(h) == /\ ~Ended /\ server = "open" /\ rpc[h] = "none"
             /\ rpc' = [rpc EXCEPT ![h] = "handling"]
             /\ UNCHANGED <<process, task, series_by_key, buffered, rounds>>

\* Database::Write or Read of one series, known from then on whichever it is; the handler
\* waits for its task. A series without labels is caught and leaves nothing.
Do(h, t) == /\ ~Ended /\ rpc[h] = "handling"
            /\ rpc' = [rpc EXCEPT ![h] = "queued"] /\ task' = [task EXCEPT ![h] = t]
            /\ series_by_key' = series_by_key \union {t.series}
            /\ UNCHANGED <<process, buffered, rounds>>

\* WorkerThreadTooBusy is caught by no one.
TooBusy(h) == /\ ~Ended /\ rpc[h] = "handling"
              /\ Cardinality({g \in Handler : rpc[g] = "queued"}) >= QueueLimit
              /\ main' = "crashed"
              /\ UNCHANGED <<stopped, main_server, server, term, sig, data, rounds>>

Done(h) == /\ ~Ended /\ rpc[h] = "queued"
           /\ buffered[task[h].series] + task[h].points <= MaxBuffered
           /\ buffered' = [buffered EXCEPT ![task[h].series] = @ + task[h].points]
           /\ rpc' = [rpc EXCEPT ![h] = "handling"] /\ task' = [task EXCEPT ![h] = <<>>]
           /\ UNCHANGED <<process, series_by_key, rounds>>

\* The stream of writes ends, or the series of a read do.
Return(h) == /\ ~Ended /\ rpc[h] = "handling"
             /\ rpc' = [rpc EXCEPT ![h] = "none"]
             /\ UNCHANGED <<process, task, series_by_key, buffered, rounds>>

Rpc(h) == Accept(h) \/ (\E t \in Task : Do(h, t)) \/ TooBusy(h) \/ Done(h) \/ Return(h)

----------------------------------------------------------------------------
(* FlushWriteBuffers.                                                        *)

\* Largest buffers first. The comparator reads their sizes as they are: with a write
\* under way the order may be any.
LargestFirst(ss) == \A i, j \in 1..Len(ss) : i < j => buffered[ss[i]] >= buffered[ss[j]]
Writing == \E h \in Handler : rpc[h] = "queued" /\ task[h].points > 0
Orders == {ss \in SetToSeqs(series_by_key) : Writing \/ LargestFirst(ss)}

Gathering == ~Ended /\ main # "destroyed" /\ flusher = "gathering"
GatherButLast == /\ Gathering
                 /\ all_series' \in {IF ss = <<>> THEN ss ELSE Front(ss) : ss \in Orders}
                 /\ flushed' = 0
                 /\ flusher' = "flushing"
                 /\ UNCHANGED <<process, data, cut>>
Gather == /\ Gathering
          /\ all_series' \in Orders
          /\ flushed' = 0
          /\ flusher' = "flushing"
          /\ UNCHANGED <<process, data, cut>>

Round == ~Ended /\ main # "destroyed" /\ flusher = "flushing"
SkipEmpty == /\ Round /\ all_series # <<>> /\ buffered[Head(all_series)] = 0
             /\ all_series' = Tail(all_series)
             /\ UNCHANGED <<process, data, flusher, flushed, cut>>

\* The deadline moves on only when a round is cut short, so that after a quiet time it is
\* long past: it may be over at any look.
FlushOne == /\ Round /\ all_series # <<>> /\ buffered[Head(all_series)] > 0
            /\ buffered' = [buffered EXCEPT ![Head(all_series)] = 0]
            /\ flushed' = flushed + 1
            /\ \/ all_series' = Tail(all_series) /\ UNCHANGED <<flusher, cut>>
               \/ /\ flushed' % Every = 0
                  /\ all_series' = <<>> /\ flusher' = "gathering" /\ cut' = TRUE
            /\ UNCHANGED <<process, rpc, task, series_by_key>>
RoundEnds == /\ Round /\ all_series = <<>>
             /\ flusher' = IF flushed = 0 THEN "sleeping" ELSE "gathering"
             /\ cut' = FALSE
             /\ UNCHANGED <<process, data, all_series, flushed>>
Wakes == /\ ~Ended /\ flusher = "sleeping"
         /\ flusher' = "gathering"
         /\ UNCHANGED <<process, data, all_series, flushed, cut>>

\* After ~Database the loop goes on in what was its memory.
UseAfterFree == /\ main = "destroyed" /\ flusher # "sleeping"
                /\ main' = "crashed"
                /\ UNCHANGED <<stopped, main_server, server, term, sig, data, rounds>>

Flusher == Gather \/ SkipEmpty \/ FlushOne \/ RoundEnds \/ Wakes

Next == Main \/ StopIsMissed \/ Kill \/ Signals \/ (\E h \in Handler : Rpc(h)) \/ Flusher \/ UseAfterFree

\* Clients owe nothing, and a worker may sleep: handlers are given no fairness.
Spec == Init /\ [][Next]_vars /\ WF_vars(Main) /\ WF_vars(Signals) /\ WF_vars(Flusher)

----------------------------------------------------------------------------
(* Properties.                                                               *)

TypeOK == /\ main \in {"starting", "building", "built", "waiting", "destroying", "destroyed",
                       "hung", "exited", "crashed"}
          /\ stopped \in 0..Workers /\ main_server \in BOOLEAN
          /\ server \in {"none", "open", "closing", "closed", "destroyed"}
          /\ term \in BOOLEAN /\ sig \in {"sigwait", "stopping"}
          /\ rpc \in [Handler -> {"none", "handling", "queued"}]
          /\ \A h \in Handler : rpc[h] = "queued" => task[h] \in Task /\ task[h].series \in series_by_key
          /\ series_by_key \subseteq Series /\ buffered \in [Series -> 0..MaxBuffered]
          /\ flusher \in {"none", "gathering", "flushing", "sleeping"}
          /\ all_series \in Seq(series_by_key) /\ flushed + Len(all_series) <= Cardinality(Series)
          /\ cut \in BOOLEAN

\* No handler is inside the database, or waits for a worker, when RunServer destroys it.
NobodyInside == main \in {"destroying", "destroyed", "hung"} =>
                    \A h \in Handler : rpc[h] = "none"

\* "Must be idempotent" (src/vqro_server.cc:41): whatever signals come, Shutdown stops the
\* server only when it is open: neither twice nor after RunServer destroyed it.
ShutdownOnce == [][sig = "sigwait" /\ sig' = "stopping" => server = "open"]_vars

\* A SIGTERM that finds the server waiting ends the process, or leaves it to a worker that
\* sleeps through Stop(), if the handlers return: each of them is free again and again.
TermStops == (\A h \in Handler : []<>(rpc[h] = "none")) =>
                 ((term /\ main = "waiting") ~> main \in {"exited", "crashed", "hung"})

\* Only the deadline can starve a series whose buffer is not among the largest, and only
\* if points keep coming: otherwise each buffer is flushed as long as the process runs.
StarvedByDeadline == ((<>[]~cut) \/ (<>[]~Writing)) =>
    \A s \in Series : buffered[s] > 0 ~> (buffered[s] = 0 \/ main \in {"destroyed", "exited", "crashed"})
=============================================================================

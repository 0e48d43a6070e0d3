------------------------------ MODULE Streams ------------------------------
(* The command line clients (src/vqro_write.cc, src/vqro_read.cc) and the    *)
(* handlers that serve them (src/vqro/rpc: storage_service.h,                *)
(* search_service.h): one stream of writes and one read or search beside it. *)
(* Each end reuses one message object for a whole stream. The database is    *)
(* what its calls promise (Series, DataDirectory and SearchIndex are about   *)
(* its inside): the points of a series in the order they came in, none of    *)
(* them flushed yet, and the index as rows that are never misread.           *)
EXTENDS Messages, ReadOp, TimeRange

CONSTANTS Lines,        \* the lines stdin may hold: blank, bad, a record, one with a bad point
          MaxLines,     \* bound: lines
          Requests,     \* what readers ask
          BufferSize,   \* read_buffer_size
          BatchSize     \* search_results_batch_size

ASSUME StreamsAssumption ==
    MaxLines \in Nat /\ BufferSize \in Nat \ {0} /\ BatchSize \in Nat \ {0}
\* A record has labels, a finite map, and points of three numbers; no message is Unset.
IsMap(m) == IsFiniteSet(DOMAIN m) /\ m = [key \in DOMAIN m |-> m[key]]
ASSUME LinesAssumption ==
    \A line \in Lines : line.kind = "record" =>
        /\ IsMap(line.labels) /\ [labels |-> line.labels] # Unset
        /\ line.points \in Seq([ts : Int, dur : Int, val : Int])
\* An object has the fields of its type, a constraint at most one predicate.
IsObject(M, m) == DOMAIN m = Names(M) /\ m = [name \in DOMAIN m |-> m[name]]
IsConstraint(c) == IsObject(LabelConstraint, c) /\ (c.exact_value = Unset \/ c.regex = Unset)
IsQuery(q) == /\ IsObject(SeriesQuery, q)
              /\ q.constraints \in Seq(Range(q.constraints))
              /\ \A c \in Range(q.constraints) : IsConstraint(c)
              /\ {q.result_offset, q.result_limit} \subseteq Int
ASSUME RequestsAssumption ==
    \A r \in Requests :
        \/ /\ r.method = "read"
           /\ r.tick \in DOMAIN NanosecondsPerTick /\ IsFlag(r.start) /\ IsFlag(r.end)
           /\ DOMAIN r.message = Names(ReadOperation)
        \/ r.method = "series" /\ IsQuery(r.message)
        \/ /\ r.method = "labels" /\ IsObject(LabelsQuery, r.message)
           /\ {r.message.result_offset, r.message.result_limit} \subseteq Int

VARIABLES
    writer,    \* vqro-write: pc, code, write_op, and how many lines it has read
    up,        \* the stream of writes: its messages, and WritesDone
    storing,   \* WriteDatapoints: pc, op
    reader,    \* vqro-read: pc, the request, the result object, what it printed
    down,      \* the stream of results: its messages, and the status
    serving,   \* ReadDatapoints, SearchSeries or SearchLabels
    store,     \* series_by_key: the points of each series, by its labels
    rows,      \* vqro:series: the protobufs of the indexed series
    tables,    \* the tables of the label names, in the order they were made
    alive,     \* the server process
    given,     \* history: the lines that are a record
    before     \* history: store, rows and tables when the handler of the read began

vars == <<writer, up, storing, reader, down, serving, store, rows, tables, alive, given, before>>
index == <<rows, tables>>
database == <<store, index>>
writing == <<writer, up, storing, given>>
reading == <<reader, down, serving, before>>

NoScan == [next |-> 0, atLeast |-> 0, skip |-> 0, left |-> 0, batch |-> <<>>]
NoRead == [next |-> 0, end |-> 0, size |-> BufferSize, out |-> <<>>, thrown |-> FALSE]

Init == /\ writer = [pc |-> "reading", code |-> 0, op |-> Cleared(WriteOperation), lines |-> 0,
                     stream |-> FALSE]
        /\ up = [wires |-> <<>>, done |-> FALSE]
        /\ storing = [pc |-> "reading", op |-> Cleared(WriteOperation)]
        /\ reader = [pc |-> "idle", request |-> Unset, result |-> Unset, printed |-> <<>>]
        /\ down = [wires |-> <<>>, done |-> FALSE]
        /\ serving = [pc |-> "waiting", wire |-> <<>>, request |-> Unset, result |-> Unset,
                      todo |-> <<>>, current |-> Unset, op |-> NoRead, scan |-> NoScan]
        /\ store = <<>> /\ rows = <<>> /\ tables = <<>> /\ alive = TRUE
        /\ given = <<>> /\ before = [store |-> <<>>, rows |-> <<>>, tables |-> <<>>]

----------------------------------------------------------------------------
(* vqro-write.                                                               *)

Points(line) == [i \in DOMAIN line.points |-> [timestamp |-> line.points[i].ts,
                    duration |-> line.points[i].dur, value |-> line.points[i].val]]

\* write_op.Clear(), the labels and the points of the record.
ComposedOn(op, line) == [op EXCEPT !.series = [labels |-> line.labels],
                                   !.datapoints = @ \o Points(line)]
Composed(op, line) == [Cleared(WriteOperation) EXCEPT !.series = [labels |-> line.labels],
                                                      !.datapoints = @ \o Points(line)]

GetLine(kind, line) == /\ writer.pc = "reading" /\ writer.lines < MaxLines
                       /\ line.kind = kind
BlankLine(line) == /\ GetLine("blank", line)
                   /\ writer' = [writer EXCEPT !.lines = @ + 1]
                   /\ UNCHANGED <<up, storing, given, reading, database, alive>>
\* Not JSON, or without labels or datapoints.
BadLine(line) == /\ GetLine("bad", line)
                 /\ writer' = [writer EXCEPT !.lines = @ + 1, !.pc = "closing", !.code = 1]
                 /\ UNCHANGED <<up, storing, given, reading, database, alive>>
\* A point without exactly three elements: the line is not sent, the code stays 0.
BadPoint(line) == /\ GetLine("bad_point", line)
                  /\ writer' = [writer EXCEPT !.lines = @ + 1, !.pc = "closing",
                                              !.op = Composed(writer.op, line)]
                  /\ UNCHANGED <<up, storing, given, reading, database, alive>>
Record(line) == /\ GetLine("record", line)
                /\ LET op == Composed(writer.op, line)
                       sends == op.datapoints # <<>>
                   IN  /\ writer' = [writer EXCEPT !.lines = @ + 1, !.op = op,
                                                   !.stream = @ \/ sends]
                       /\ up' = IF sends THEN [up EXCEPT !.wires = Append(@, Serialize(WriteOperation, op))]
                                         ELSE up
                /\ given' = Append(given, line)
                /\ UNCHANGED <<storing, reading, database, alive>>
\* The end of the input, with or without half a line before it, or SIGINT.
InputEnds == /\ writer.pc = "reading"
             /\ writer' = [writer EXCEPT !.pc = "closing"]
             /\ UNCHANGED <<up, storing, given, reading, database, alive>>

\* Shutdown: WritesDone if there is a stream; Finish then waits for the server's status.
WritesDone == /\ writer.pc = "closing"
              /\ writer' = [writer EXCEPT !.pc = IF writer.stream THEN "finishing" ELSE "ended"]
              /\ up' = [up EXCEPT !.done = writer.stream]
              /\ UNCHANGED <<storing, given, reading, database, alive>>
Finish == /\ writer.pc = "finishing"
          /\ storing.pc = "returned" \/ ~alive
          /\ writer' = [writer EXCEPT !.pc = "ended"]
          /\ UNCHANGED <<up, storing, given, reading, database, alive>>

VqroWrite == \/ \E line \in Lines : BlankLine(line) \/ BadLine(line) \/ BadPoint(line) \/ Record(line)
             \/ InputEnds \/ WritesDone \/ Finish

----------------------------------------------------------------------------
(* WriteDatapoints.                                                          *)

PointsOf(datapoints) == [i \in DOMAIN datapoints |-> [ts |-> datapoints[i].timestamp,
                            dur |-> datapoints[i].duration, val |-> datapoints[i].value]]
Kept(points) == FlattenSeq([i \in DOMAIN points |-> IF points[i].val = NaN THEN <<>>
                                                                      ELSE <<points[i]>>])
LabelsOf(series) == IF series = Unset THEN <<>> ELSE series.labels
StoredOf(labels) == IF labels \in DOMAIN store THEN store[labels] ELSE <<>>
\* The database once a series has these points.
Having(labels, points) == [l \in DOMAIN store \union {labels} |-> IF l = labels THEN points ELSE store[l]]
IsIndexed(labels) == \E i \in DOMAIN rows : rows[i] = Serialize(Series, [labels |-> labels])

\* A message without a label is logged as InvalidSeriesProto, and the stream goes on.
Store == /\ alive /\ storing.pc = "reading" /\ up.wires # <<>>
         /\ LET op == Read(WriteOperation, storing.op, Head(up.wires))
                labels == LabelsOf(op.series)
                valid == DOMAIN labels # {}
            IN  /\ storing' = [pc |-> IF valid /\ ~IsIndexed(labels) THEN "indexing" ELSE "reading",
                               op |-> op]
                /\ store' = IF valid
                            THEN Having(labels, StoredOf(labels) \o Kept(PointsOf(op.datapoints)))
                            ELSE store
         /\ up' = [up EXCEPT !.wires = Tail(@)]
         /\ UNCHANGED <<writer, given, reading, index, alive>>

\* IndexSeries: the row, and the tables of labels not met before.
Index == /\ alive /\ storing.pc = "indexing"
         /\ LET series == storing.op.series
                new == DOMAIN series.labels \ {tables[i] : i \in DOMAIN tables}
            IN  /\ rows' = Append(rows, Serialize(Series, series))
                /\ tables' = tables \o SetToSeq(new)
         /\ storing' = [storing EXCEPT !.pc = "reading"]
         /\ UNCHANGED <<writer, up, given, reading, store, alive>>

WriteReturnsEarly == /\ alive /\ storing.pc = "reading" /\ up.done
                     /\ storing' = [storing EXCEPT !.pc = "returned"]
                     /\ UNCHANGED <<writer, up, given, reading, database, alive>>
WriteReturns == /\ alive /\ storing.pc = "reading" /\ up.done /\ up.wires = <<>>
                /\ storing' = [storing EXCEPT !.pc = "returned"]
                /\ UNCHANGED <<writer, up, given, reading, database, alive>>

WriteDatapoints == Store \/ Index \/ WriteReturns

----------------------------------------------------------------------------
(* vqro-read.                                                                *)

RequestType(r) == CASE r.method = "read" -> ReadOperation
                    [] r.method = "series" -> SeriesQuery
                    [] r.method = "labels" -> LabelsQuery
ResultType(r) == CASE r.method = "read" -> ReadResult
                   [] r.method = "series" -> SearchSeriesResults
                   [] r.method = "labels" -> SearchLabelsResults

Timed(r) == LET range == TimeRangeOf(r.start, r.end, r.tick)
            IN  [r.message EXCEPT !.start_time = range.start, !.end_time = range.end]

Asks(r, message) ==
    /\ reader' = [pc |-> "reading", request |-> r, result |-> Cleared(ResultType(r)), printed |-> <<>>]
    /\ serving' = [serving EXCEPT !.pc = "starting", !.wire = Serialize(RequestType(r), message)]
Refuse(r) == /\ reader.pc = "idle" /\ r.method = "read" /\ ~Accepted(r.start, r.end, r.tick)
             /\ reader' = [reader EXCEPT !.pc = "refused", !.request = r]
             /\ UNCHANGED <<down, serving, before, writing, database, alive>>
AskRead(r) == /\ reader.pc = "idle" /\ alive
              /\ r.method = "read" /\ Accepted(r.start, r.end, r.tick)
              /\ Asks(r, Timed(r))
              /\ UNCHANGED <<down, before, writing, database, alive>>
AskSearch(r) == /\ reader.pc = "idle" /\ alive
                /\ r.method # "read"
                /\ Asks(r, r.message)
                /\ UNCHANGED <<down, before, writing, database, alive>>

\* Every message is read into the one result, and printed.
Show == /\ reader.pc = "reading" /\ down.wires # <<>>
         /\ LET result == Read(ResultType(reader.request), reader.result, Head(down.wires))
            IN  reader' = [reader EXCEPT !.result = result, !.printed = Append(@, result)]
         /\ down' = [down EXCEPT !.wires = Tail(@)]
         /\ UNCHANGED <<serving, before, writing, database, alive>>
ReadsEnd == /\ reader.pc = "reading" /\ down.wires = <<>>
            /\ down.done \/ ~alive
            /\ reader' = [reader EXCEPT !.pc = "ended"]
            /\ UNCHANGED <<down, serving, before, writing, database, alive>>

VqroRead == (\E r \in Requests : Refuse(r) \/ AskRead(r) \/ AskSearch(r)) \/ Show \/ ReadsEnd

----------------------------------------------------------------------------
(* SearchEngine: one row, or one table's name, at a time.                    *)

\* A label that is constrained must have a table, and a constraint a predicate: else the
\* statement is not prepared, the error is logged, and nothing was found.
IsPrepared(query) == \A i \in DOMAIN query.constraints :
                        LET c == query.constraints[i]
                        IN  /\ \E j \in DOMAIN tables : tables[j] = c.label_name
                            /\ c.exact_value # Unset \/ c.regex # Unset
\* The function REGEXP. The patterns asked for are a text, and what fits every text.
Fits(regex, text) == regex = text \/ regex = ".*"
Satisfies(labels, c) == /\ c.label_name \in DOMAIN labels
                        /\ IF c.exact_value # Unset THEN labels[c.label_name] = c.exact_value
                                                    ELSE Fits(c.regex, labels[c.label_name])
\* What the rows of a statement are, and which of them it gives.
Items(r) == IF r.method = "labels" THEN tables ELSE rows
Matches(r, query, item) ==
    IF r.method = "labels" THEN Fits(query.regex, item)
    ELSE \A i \in DOMAIN query.constraints :
            Satisfies(Read(Series, Cleared(Series), item).labels, query.constraints[i])
IsNothing(r, query) == IF r.method = "labels" THEN query.regex = ""
                       ELSE query.constraints = <<>> \/ ~IsPrepared(query)

\* LIMIT and OFFSET; without a limit there is no offset. A negative limit is none, a
\* negative offset is 0.
NoLimit == -1
ScanOf(query, items) ==
    [next |-> 1, atLeast |-> Len(items), batch |-> <<>>,
     skip |-> IF query.result_limit # 0 /\ query.result_offset > 0 THEN query.result_offset ELSE 0,
     left |-> IF query.result_limit > 0 THEN query.result_limit ELSE NoLimit]

BatchOf(r, items) == IF r.method = "labels"
                     THEN [Cleared(SearchLabelsResults) EXCEPT !.labels = items]
                     ELSE [Cleared(SearchSeriesResults) EXCEPT
                             !.matches = [i \in DOMAIN items |-> Read(Series, Cleared(Series), items[i])]]
\* callback(result): a read goes through the series of the batch, a search sends it.
CallBackKeeping(r, served) ==
    LET batch == BatchOf(r, served.scan.batch)
    IN  IF r.method = "read"
        THEN serving' = [served EXCEPT !.todo = batch.matches] /\ down' = down
        ELSE /\ serving' = served
             /\ down' = [down EXCEPT !.wires = Append(@, Serialize(ResultType(r), batch))]
CallBack(r, served) ==
    LET batch == BatchOf(r, served.scan.batch)
        cleared == [served EXCEPT !.scan.batch = <<>>]
    IN  IF r.method = "read"
        THEN serving' = [cleared EXCEPT !.todo = batch.matches] /\ down' = down
        ELSE /\ serving' = cleared
             /\ down' = [down EXCEPT !.wires = Append(@, Serialize(ResultType(r), batch))]

Asked == reader.request
Query == IF Asked.method = "read" THEN serving.request.query ELSE serving.request
Scan == serving.scan
Between == alive /\ serving.todo = <<>> /\ serving.current = Unset
AtRow == Between /\ serving.pc = "scanning" /\ Scan.next <= Len(Items(Asked)) /\ Scan.left # 0
Row == Items(Asked)[Scan.next]

PassRow == /\ AtRow /\ ~Matches(Asked, Query, Row)
           /\ serving' = [serving EXCEPT !.scan.next = @ + 1]
           /\ UNCHANGED <<reader, down, before, writing, database, alive>>
SkipRow == /\ AtRow /\ Matches(Asked, Query, Row) /\ Scan.skip > 0
           /\ serving' = [serving EXCEPT !.scan.next = @ + 1, !.scan.skip = @ - 1]
           /\ UNCHANGED <<reader, down, before, writing, database, alive>>
TakeRow == /\ AtRow /\ Matches(Asked, Query, Row) /\ Scan.skip = 0
           /\ LET taken == [serving EXCEPT !.scan.next = @ + 1, !.scan.batch = Append(@, Row),
                                           !.scan.left = IF @ = NoLimit THEN @ ELSE @ - 1]
              IN  IF Len(taken.scan.batch) >= BatchSize THEN CallBack(Asked, taken)
                  ELSE serving' = taken /\ down' = down
           /\ UNCHANGED <<reader, before, writing, database, alive>>
\* What was inserted since the statement was begun may be left out.
ScanEnds == /\ Between /\ serving.pc = "scanning"
            /\ Scan.left = 0 \/ Scan.next > Scan.atLeast
            /\ LET ended == [serving EXCEPT !.pc = "last"]
               IN  IF Scan.batch # <<>> THEN CallBack(Asked, ended)
                   ELSE serving' = ended /\ down' = down
            /\ UNCHANGED <<reader, before, writing, database, alive>>

----------------------------------------------------------------------------
(* ReadDatapoints, SearchSeries and SearchLabels.                            *)

\* The request has come. A selector that is not set is the end of it.
Start == /\ alive /\ serving.pc = "starting"
         /\ before' = [store |-> store, rows |-> rows, tables |-> tables]
         /\ LET request == Read(RequestType(Asked), Cleared(RequestType(Asked)), serving.wire)
                read == Asked.method = "read"
                query == IF read THEN request.query ELSE request
                started == [serving EXCEPT !.request = request]
            IN  serving' = CASE read /\ request.list # Unset ->
                                  [started EXCEPT !.pc = "last", !.todo = request.list.series]
                             [] read /\ request.list = Unset /\ request.query = Unset ->
                                  [started EXCEPT !.pc = "last"]
                             [] OTHER -> IF IsNothing(Asked, query) THEN [started EXCEPT !.pc = "last"]
                                         ELSE [started EXCEPT !.pc = "scanning",
                                                              !.scan = ScanOf(query, Items(Asked))]
         /\ UNCHANGED <<reader, down, writing, database, alive>>

\* The next series: its result object, and GetSeries, which makes a series not met before.
ReadSeries == /\ alive /\ serving.current = Unset /\ serving.todo # <<>>
              /\ LET series == Head(serving.todo)
                 IN  /\ DOMAIN series.labels # {}
                     /\ serving' = [serving EXCEPT
                            !.current = series, !.todo = Tail(@),
                            !.result = [Cleared(ReadResult) EXCEPT !.series = series],
                            !.op = [NoRead EXCEPT !.next = serving.request.start_time,
                                                  !.end = serving.request.end_time]]
                     /\ store' = Having(series.labels, StoredOf(series.labels))
              /\ UNCHANGED <<reader, down, before, index, writing, alive>>

\* A series without a label: nothing catches InvalidSeriesProto here, and the process ends.
\* What was on its way may not arrive.
Dies == /\ alive /\ serving.current = Unset /\ serving.todo # <<>>
        /\ DOMAIN Head(serving.todo).labels = {}
        /\ alive' = FALSE
        /\ \E n \in 0..Len(down.wires) : down' = [down EXCEPT !.wires = SubSeq(@, 1, n)]
        /\ UNCHANGED <<reader, serving, before, writing, database>>

\* respond: the points of the chunk, in the result object of the series.
RespondedOn(result, points) == [result EXCEPT !.datapoints = @ \o Points([points |-> points])]
Responded(result, points) == [result EXCEPT !.datapoints = Points([points |-> points])]

\* A task of the worker, and the callback.
Chunk == ForceCompletion(BufferRead(serving.op, StoredOf(serving.current.labels)))
ReadChunk == /\ alive /\ serving.current # Unset
             /\ ~Complete(serving.op) /\ DatapointsInBuffer(Chunk) > 0
             /\ LET result == Responded(serving.result, Chunk.out)
                IN  /\ serving' = [serving EXCEPT !.op = [Chunk EXCEPT !.out = <<>>],
                                                  !.result = result]
                    /\ down' = [down EXCEPT !.wires = Append(@, Serialize(ReadResult, result))]
             /\ UNCHANGED <<reader, before, writing, database, alive>>
LeaveSeries == /\ alive /\ serving.current # Unset
               /\ Complete(serving.op) \/ DatapointsInBuffer(Chunk) = 0
               /\ serving' = [serving EXCEPT !.current = Unset, !.op = NoRead]
               /\ UNCHANGED <<reader, down, before, writing, database, alive>>

ReadReturns == /\ Between /\ serving.pc = "last"
               /\ serving' = [serving EXCEPT !.pc = "returned"]
               /\ down' = [down EXCEPT !.done = TRUE]
               /\ UNCHANGED <<reader, before, writing, database, alive>>

Serve == \/ Start \/ PassRow \/ SkipRow \/ TakeRow \/ ScanEnds
         \/ ReadSeries \/ Dies \/ ReadChunk \/ LeaveSeries \/ ReadReturns

\* Neither client waits for anything any more.
Ended == writer.pc = "ended" /\ reader.pc \in {"ended", "refused"} /\ UNCHANGED vars

Next == VqroWrite \/ WriteDatapoints \/ VqroRead \/ Serve \/ Ended

Spec == Init /\ [][Next]_vars

----------------------------------------------------------------------------
(* Properties.                                                               *)

TypeOK == /\ writer.pc \in {"reading", "closing", "finishing", "ended"} /\ writer.code \in {0, 1}
          /\ writer.lines \in 0..MaxLines /\ writer.stream \in BOOLEAN
          /\ storing.pc \in {"reading", "indexing", "returned"}
          /\ reader.pc \in {"idle", "refused", "reading", "ended"}
          /\ serving.pc \in {"waiting", "starting", "scanning", "last", "returned"}
          /\ up.done \in BOOLEAN /\ down.done \in BOOLEAN /\ alive \in BOOLEAN

PointsGiven(labels) ==
    FlattenSeq([i \in DOMAIN given |-> IF given[i].labels = labels THEN Kept(given[i].points) ELSE <<>>])
OnItsWay(labels) ==
    FlattenSeq([i \in DOMAIN up.wires |->
                   LET op == Read(WriteOperation, Cleared(WriteOperation), up.wires[i])
                   IN  IF LabelsOf(op.series) = labels THEN Kept(PointsOf(op.datapoints)) ELSE <<>>])

\* Nothing of one message is left in the next, on either side, though both reuse their
\* object: what a series has, with what is on its way, is just the points of the records
\* with its labels, in their order.
StoredIsGiven ==
    /\ \A labels \in {given[i].labels : i \in DOMAIN given} \union DOMAIN store :
          labels # <<>> => StoredOf(labels) \o OnItsWay(labels) = PointsGiven(labels)
    /\ <<>> \notin DOMAIN store

\* When vqro-write ends while the server lives, all it read before is stored and indexed.
EndedMeansStored ==
    writer.pc = "ended" /\ alive =>
        \A i \in DOMAIN given : given[i].labels # <<>> /\ given[i].points # <<>> =>
            /\ StoredOf(given[i].labels) = PointsGiven(given[i].labels)
            /\ IsIndexed(given[i].labels)

Printed(labels) ==
    FlattenSeq([i \in DOMAIN reader.printed |->
                   IF reader.printed[i].series.labels = labels
                   THEN PointsOf(reader.printed[i].datapoints) ELSE <<>>])
IsRead == reader.pc \in {"reading", "ended"} /\ Asked.method = "read"
SeriesAsked == CASE Asked.message.list # Unset -> Range(Asked.message.list.series)
                 [] Asked.message.list = Unset /\ Asked.message.query = Unset -> {}
                 [] OTHER ->
                    {s \in {[labels |-> l] : l \in DOMAIN store} :
                             Matches(Asked, Asked.message.query, Serialize(Series, s))}
InRange(p) == p.ts >= Timed(Asked).start_time /\ p.ts < Timed(Asked).end_time

\* No point ends before it begins, and no list names the series twice.
Forward(points) == \A i \in DOMAIN points : points[i].dur >= 0
NamedOnce(series) == Asked.message.list # Unset =>
                        Cardinality({i \in DOMAIN Asked.message.list.series :
                                        Asked.message.list.series[i] = series}) = 1

\* What is printed under a series's labels was stored under them, lies in the range asked
\* for, and comes in order without a point twice, however it was cut into chunks and
\* batches and whatever was written meanwhile.
PrintedIsStored ==
    IsRead => \A r \in Range(reader.printed) :
        LET labels == r.series.labels
            points == Printed(labels)
        IN  /\ [labels |-> labels] \in SeriesAsked
            /\ Range(points) \subseteq Range(StoredOf(labels))
            /\ Forward(StoredOf(labels)) => \A p \in Range(points) : InRange(p)
            /\ Forward(StoredOf(labels)) /\ NamedOnce([labels |-> labels]) =>
                  \A i \in 1..(Len(points) - 1) : points[i + 1].ts >= End(points[i])

\* What a read gives begins at start_time at the earliest ("Lower bound of all timestamps to
\* read", read_op.h:32). Not so: a chunk that a point of negative duration fills takes
\* next_time back, and nothing between vqro-write and the buffer refuses one.
StartIsLower ==
    IsRead => \A r \in Range(reader.printed) : \A i \in DOMAIN r.datapoints :
                  r.datapoints[i].timestamp >= Timed(Asked).start_time

Apart(points) == \A i, j \in DOMAIN points :
                    i # j => points[i].ts >= End(points[j]) \/ points[j].ts >= End(points[i])
NoLimitAsked(query) == query.result_limit = 0

\* A read that ends while the server lives has printed every point that was stored in its
\* range when it began, of each series it lists or that was indexed and satisfies its query.
ReadIsComplete ==
    IsRead /\ reader.pc = "ended" /\ alive =>
        \A s \in SeriesAsked :
            LET stored == IF s.labels \in DOMAIN before.store THEN before.store[s.labels] ELSE <<>>
                owed == \/ Asked.message.list # Unset
                        \/ /\ NoLimitAsked(Asked.message.query)
                           /\ Serialize(Series, s) \in Range(before.rows)
            IN  owed /\ Apart(StoredOf(s.labels)) =>
                    {p \in Range(stored) : InRange(p)} \subseteq Range(Printed(s.labels))

Found == FlattenSeq([i \in DOMAIN reader.printed |->
                        IF Asked.method = "labels" THEN reader.printed[i].labels
                        ELSE [j \in DOMAIN reader.printed[i].matches |->
                                 Serialize(Series, reader.printed[i].matches[j])]])
ItemsBefore == IF Asked.method = "labels" THEN before.tables ELSE before.rows
\* A search finds nothing twice, no more than its limit, and without one all that was
\* there when it began, in batches of whatever size.
SearchIsExact ==
    reader.pc \in {"reading", "ended"} /\ Asked.method # "read" =>
        LET limit == Asked.message.result_limit
        IN  /\ IsInjective(Found)
            /\ limit > 0 => Len(Found) <= limit
            /\ reader.pc = "ended" /\ alive /\ limit = 0 /\ ~IsNothing(Asked, Asked.message) =>
                  {x \in Range(ItemsBefore) : Matches(Asked, Asked.message, x)} \subseteq Range(Found)

\* The ratio of the units times the number, or that and the other end, is no int64_t.
Overflows(r) ==
    LET ticks == (NanosecondsPerTick[r.start.unit] \div NanosecondsPerTick[r.tick]) * r.start.number
        end == GetTimeInTicks(r.end, r.tick)
    IN  ~{ticks, ticks + end} \subseteq MinTime..MaxTime

\* A time relative to now or to a date is sent only as long a range as the flag says, in
\* whatever unit, unless it overflows.
RangeIsMeant ==
    IsRead /\ IsRelative(Asked.start) /\ Asked.end.kind \in {"now", "date"} /\ ~Overflows(Asked) =>
        (Timed(Asked).end_time - Timed(Asked).start_time) * NanosecondsPerTick[Asked.tick]
            = -(Asked.start.number) * NanosecondsPerTick[Asked.start.unit]
=============================================================================

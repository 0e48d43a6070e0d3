---------------------------- MODULE SearchIndex ----------------------------
(* SearchEngine::IndexSeries (src/vqro/db/search_engine.cc), as the threads  *)
(* that serve Write requests call it after the write (Database::Write,       *)
(* src/vqro/db/db.cc): many threads on one sqlite connection, which has one  *)
(* transaction and one last_insert_rowid for all of them.                    *)
EXTENDS Naturals, Sequences, FiniteSets

CONSTANTS Series,
          NoSeries,      \* what a thread outside IndexSeries works on
          Labels,        \* Labels[s]: the label names of s
          Queries,       \* what searches ask
          Threads,
          Nobody,        \* no thread has the transaction
          Abandoned,     \* a thread that threw has left it open
          MaxFailures,   \* bound: sqlite errors between BEGIN and END
          MaxCrashes     \* bound: ends of the process

ASSUME NoSeriesAssumption == NoSeries \notin Series
ASSUME NobodyAssumption == Nobody \notin Threads /\ Abandoned \notin Threads /\ Nobody # Abandoned
ASSUME BoundsAssumption == MaxFailures \in Nat /\ MaxCrashes \in Nat

LabelNames == UNION {Labels[s] : s \in Series}

\* exact_value or regex: the series whose value of the label satisfies it.
Constraint == {c \in [label : LabelNames, values : SUBSET Series] :
                  \A s \in c.values : c.label \in Labels[s]}
ASSUME QueriesAssumption == Queries \subseteq SUBSET Constraint

\* rows: the table vqro:series, by series_id. cells: the rows of the label tables, whose
\* primary key is the series_id; of is the series whose label value the row holds.
VARIABLES
    rows, cells,               \* as the connection sees them
    savedRows, savedCells,     \* as a restart finds them
    lastId,                    \* sqlite3_last_insert_rowid
    tx,                        \* whose BEGIN opened the transaction
    indexed,                   \* the series with is_indexed
    pc,                        \* pc[t]: where t is in IndexSeries
    series, id, todo,          \* t's series, its series_id, the labels left
    misread,                   \* history: a series_id read was not its own series's
    failures, crashes

tables == <<rows, cells, savedRows, savedCells>>
locals == <<series, id, todo>>
vars == <<tables, lastId, tx, indexed, pc, locals, misread, failures, crashes>>

Cell == [id : Nat, label : LabelNames, of : Series]

Init == /\ rows = <<>> /\ cells = {} /\ savedRows = <<>> /\ savedCells = {}
        /\ lastId = 0 /\ tx = Nobody /\ indexed = {}
        /\ pc = [t \in Threads |-> "idle"]
        /\ series = [t \in Threads |-> NoSeries]
        /\ id = [t \in Threads |-> 0]
        /\ todo = [t \in Threads |-> {}]
        /\ misread = FALSE /\ failures = 0 /\ crashes = 0

Goes(t, from, to) == pc[t] = from /\ pc' = [pc EXCEPT ![t] = to]

\* IndexSeries returns or throws.
Ends(t, from) == /\ Goes(t, from, "idle")
                 /\ series' = [series EXCEPT ![t] = NoSeries]
                 /\ id' = [id EXCEPT ![t] = 0]
                 /\ todo' = [todo EXCEPT ![t] = {}]

\* Outside a transaction a statement commits by itself; inside one, whoever opened it,
\* it waits for END.
Commits == IF tx = Nobody THEN savedRows' = rows' /\ savedCells' = cells'
                          ELSE UNCHANGED <<savedRows, savedCells>>

----------------------------------------------------------------------------
\* The write is done, and the series was not indexed when this thread looked.
Start(t, s) == /\ Goes(t, "idle", "inserting")
               /\ s \notin indexed
               /\ series' = [series EXCEPT ![t] = s]
               /\ UNCHANGED <<tables, lastId, tx, indexed, id, todo, misread, failures, crashes>>

Known(s) == \E i \in 1..Len(rows) : rows[i] = s

\* INSERT OR IGNORE: an ignored one leaves last_insert_rowid as it is.
InsertSeries(t) == /\ Goes(t, "inserting", "identifying")
                   /\ ~Known(series[t])
                   /\ rows' = Append(rows, series[t])
                   /\ lastId' = Len(rows) + 1
                   /\ cells' = cells
                   /\ Commits
                   /\ UNCHANGED <<tx, indexed, locals, misread, failures, crashes>>
InsertIgnored(t) == /\ Goes(t, "inserting", "identifying")
                    /\ Known(series[t])
                    /\ UNCHANGED <<tables, lastId, tx, indexed, locals, misread, failures, crashes>>

\* The last insert of the connection, whoever made it.
ReadId(t) == /\ Goes(t, "identifying", "opening")
             /\ lastId # 0
             /\ id' = [id EXCEPT ![t] = lastId]
             /\ misread' = (misread \/ lastId > Len(rows) \/ rows[lastId] # series[t])
             /\ UNCHANGED <<tables, lastId, tx, indexed, series, todo, failures, crashes>>

\* Nothing was inserted since the connection was opened: the series is taken for indexed.
ReadNoId(t) == /\ Ends(t, "identifying")
               /\ lastId = 0
               /\ indexed' = indexed \union {series[t]}
               /\ misread' = TRUE
               /\ UNCHANGED <<tables, lastId, tx, failures, crashes>>

Open(t) == /\ Goes(t, "opening", "labelling")
           /\ tx = Nobody
           /\ tx' = t
           /\ todo' = [todo EXCEPT ![t] = Labels[series[t]]]
           /\ UNCHANGED <<tables, lastId, indexed, series, id, misread, failures, crashes>>

\* BEGIN within a transaction is an error: the exception is logged, the next Write to the
\* series tries again.
OpenFails(t) == /\ Ends(t, "opening")
                /\ tx # Nobody
                /\ UNCHANGED <<tables, lastId, tx, indexed, misread, failures, crashes>>

Has(i, l) == \E c \in cells : c.id = i /\ c.label = l

\* IndexLabel, in whatever order the proto's map has.
IndexLabel(t, l) == /\ pc[t] = "labelling" /\ l \in todo[t]
                    /\ ~Has(id[t], l)
                    /\ cells' = cells \union {[id |-> id[t], label |-> l, of |-> series[t]]}
                    /\ lastId' = id[t]
                    /\ todo' = [todo EXCEPT ![t] = @ \ {l}]
                    /\ rows' = rows
                    /\ Commits
                    /\ UNCHANGED <<tx, indexed, pc, series, id, misread, failures, crashes>>
IndexLabelIgnored(t, l) == /\ pc[t] = "labelling" /\ l \in todo[t]
                           /\ Has(id[t], l)
                           /\ todo' = [todo EXCEPT ![t] = @ \ {l}]
                           /\ UNCHANGED <<tables, lastId, tx, indexed, pc, series, id, misread,
                                          failures, crashes>>

CommitEarly(t) == /\ Ends(t, "labelling")
                  /\ tx' = Nobody
                  /\ savedRows' = rows /\ savedCells' = cells
                  /\ indexed' = indexed \union {series[t]}
                  /\ UNCHANGED <<rows, cells, lastId, misread, failures, crashes>>
\* END, and the flag.
Commit(t) == /\ Ends(t, "labelling")
             /\ todo[t] = {}
             /\ tx' = Nobody
             /\ savedRows' = rows /\ savedCells' = cells
             /\ indexed' = indexed \union {series[t]}
             /\ UNCHANGED <<rows, cells, lastId, misread, failures, crashes>>

\* An sqlite error in IndexLabel: nothing ends the transaction.
Throw(t) == /\ Ends(t, "labelling")
            /\ failures < MaxFailures
            /\ failures' = failures + 1
            /\ tx' = Abandoned
            /\ UNCHANGED <<tables, lastId, indexed, misread, crashes>>

\* The process ends; the next one opens the database as it was last committed.
Restart == /\ crashes < MaxCrashes
           /\ crashes' = crashes + 1
           /\ rows' = savedRows /\ cells' = savedCells
           /\ lastId' = 0 /\ tx' = Nobody /\ indexed' = {}
           /\ pc' = [t \in Threads |-> "idle"]
           /\ series' = [t \in Threads |-> NoSeries]
           /\ id' = [t \in Threads |-> 0]
           /\ todo' = [t \in Threads |-> {}]
           /\ UNCHANGED <<savedRows, savedCells, misread, failures>>

Step(t) == \/ InsertSeries(t) \/ InsertIgnored(t) \/ ReadId(t) \/ ReadNoId(t)
           \/ Open(t) \/ OpenFails(t) \/ Commit(t) \/ Throw(t)
           \/ \E l \in LabelNames : IndexLabel(t, l) \/ IndexLabelIgnored(t, l)

Next == (\E t \in Threads : Step(t) \/ \E s \in Series : Start(t, s)) \/ Restart

Spec == Init /\ [][Next]_vars

----------------------------------------------------------------------------
(* SearchSeries: vqro:series joined with the table of each constraint's      *)
(* label. The whole answer: its batches, limit and offset only divide it. It *)
(* reads the connection's tables, committed or not.                          *)

SearchUnjoined(q) == {rows[i] : i \in {j \in 1..Len(rows) :
                         q # {} /\ \A c \in q : \E x \in cells : x.label = c.label /\ x.of \in c.values}}
SearchSeries(q) == {rows[i] : i \in {j \in 1..Len(rows) :
                       q # {} /\ \A c \in q : \E x \in cells :
                                   x.id = j /\ x.label = c.label /\ x.of \in c.values}}

Satisfies(s, q) == q # {} /\ \A c \in q : s \in c.values

----------------------------------------------------------------------------
(* Properties.                                                               *)

TypeOK == /\ rows \in Seq(Series) /\ cells \in SUBSET Cell
          /\ savedRows \in Seq(Series) /\ savedCells \in SUBSET Cell
          /\ lastId \in Nat /\ tx \in Threads \union {Nobody, Abandoned}
          /\ indexed \in SUBSET Series
          /\ pc \in [Threads -> {"idle", "inserting", "identifying", "opening", "labelling"}]
          /\ series \in [Threads -> Series \union {NoSeries}] /\ id \in [Threads -> Nat]
          /\ todo \in [Threads -> SUBSET LabelNames]
          /\ misread \in BOOLEAN /\ failures \in 0..MaxFailures /\ crashes \in 0..MaxCrashes

\* As long as no thread has read an id that is not its own series's, a search finds
\* every series marked as indexed that satisfies it.
IndexedIsSearchable ==
    ~misread => \A q \in Queries : {s \in indexed : Satisfies(s, q)} \subseteq SearchSeries(q)

\* And what it finds satisfies it, half-labelled and uncommitted series included.
AnswersMatch ==
    ~misread => \A q \in Queries : \A s \in SearchSeries(q) : Satisfies(s, q)

\* Whatever the threads do and whenever the process ends, the label tables name only
\* series that are there, once each: the search's joins find a protobuf for each id.
LabelsHaveRows ==
    /\ \A c \in savedCells : c.id \in 1..Len(savedRows)
    /\ \A i, j \in 1..Len(savedRows) : savedRows[i] = savedRows[j] => i = j

\* One error between BEGIN and END stops indexing until the process ends: every later
\* BEGIN fails, no further series is marked, and nothing written since is ever committed.
AbandonedForGood ==
    [][tx = Abandoned /\ crashes' = crashes =>
          tx' = Abandoned /\ indexed' = indexed /\ UNCHANGED <<savedRows, savedCells>>]_vars

\* "No insert happened if the row already existed" (src/vqro/db/search_engine.cc:145):
\* such a series is not labelled, so the labels under an id are its own series's.
\* They need not be: the id is the connection's last, of whatever insert. No run checks it.
LabelsAreOwn == \A c \in cells : c.id \in 1..Len(rows) /\ rows[c.id] = c.of
=============================================================================

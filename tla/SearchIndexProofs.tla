------------------------- MODULE SearchIndexProofs -------------------------
(* Proofs about SearchIndex, for any series, labels and threads and any      *)
(* number of errors and restarts. Three invariants, each proved from the     *)
(* ones before it: Protocol, what the threads and the transaction agree on;  *)
(* Referential, what the tables keep; and Owned, what holds as long as no    *)
(* thread read a series_id that was not its own.                             *)
EXTENDS SearchIndex, TLAPS

----------------------------------------------------------------------------
(* The protocol of IndexSeries.                                              *)

\* A thread inside IndexSeries works on a series.
Working == \A t \in Threads : pc[t] # "idle" => series[t] \in Series

\* The transaction belongs to the thread that labels, or to one that threw.
Owner == \A t \in Threads : pc[t] = "labelling" <=> tx = t

\* A transaction is only opened with a series_id in hand, and the connection does not
\* forget that there was an insert.
HasId == /\ tx # Nobody => lastId # 0
         /\ \A t \in Threads : pc[t] \in {"opening", "labelling"} => lastId # 0 /\ id[t] # 0

Protocol == TypeOK /\ Working /\ Owner /\ HasId

LEMMA ProtocolInit == Init => Protocol
<1>. SUFFICES ASSUME Init PROVE Protocol
  OBVIOUS
<1>1. rows \in Seq(Series) /\ savedRows \in Seq(Series)
  BY DEF Init
<1>2. pc \in [Threads -> {"idle"}] /\ series \in [Threads -> {NoSeries}]
  BY DEF Init
<1>3. id \in [Threads -> Nat] /\ todo \in [Threads -> SUBSET LabelNames]
  BY DEF Init
<1>4. failures \in 0..MaxFailures /\ crashes \in 0..MaxCrashes
  BY BoundsAssumption DEF Init
<1>5. TypeOK
  BY <1>1, <1>2, <1>3, <1>4 DEF Init, TypeOK
<1>. QED
  BY <1>2, <1>5, NobodyAssumption DEF Init, Protocol, Working, Owner, HasId

\* A new row keeps the type of the table.
LEMMA AppendRow ==
    ASSUME NEW rs \in Seq(Series), NEW s \in Series
    PROVE  /\ Append(rs, s) \in Seq(Series)
           /\ Len(Append(rs, s)) = Len(rs) + 1
           /\ Len(rs) \in Nat
           /\ Append(rs, s)[Len(rs) + 1] = s
           /\ \A i \in 1..Len(rs) : Append(rs, s)[i] = rs[i]
OBVIOUS

LEMMA ProtocolStart ==
    ASSUME Protocol, NEW t \in Threads, NEW s \in Series, Start(t, s)
    PROVE  Protocol'
BY NobodyAssumption DEF Protocol, TypeOK, Working, Owner, HasId, Start, Goes, tables

LEMMA ProtocolInsert ==
    ASSUME Protocol, NEW t \in Threads, InsertSeries(t) \/ InsertIgnored(t)
    PROVE  Protocol'
<1>1. pc \in [Threads -> {"idle", "inserting", "identifying", "opening", "labelling"}]
  BY DEF Protocol, TypeOK
<1>2. pc' = [pc EXCEPT ![t] = "identifying"] /\ pc[t] = "inserting" /\ series[t] \in Series
  BY <1>1 DEF Protocol, Working, InsertSeries, InsertIgnored, Goes
<1>3. CASE InsertSeries(t)
  <2>1. /\ rows' = Append(rows, series[t]) /\ rows' \in Seq(Series)
        /\ lastId' = Len(rows) + 1 /\ Len(rows) \in Nat
    BY <1>2, <1>3, AppendRow DEF InsertSeries, Protocol, TypeOK
  <2>2. savedRows' \in Seq(Series) /\ savedCells' \in SUBSET Cell /\ cells' = cells
    BY <1>3, <2>1 DEF InsertSeries, Commits, Protocol, TypeOK
  <2>. QED
    BY <1>1, <1>2, <1>3, <2>1, <2>2
       DEF InsertSeries, locals, Protocol, TypeOK, Working, Owner, HasId
<1>4. CASE InsertIgnored(t)
  BY <1>1, <1>2, <1>4 DEF InsertIgnored, tables, locals, Protocol, TypeOK, Working, Owner, HasId
<1>. QED
  BY <1>3, <1>4

LEMMA ProtocolRead ==
    ASSUME Protocol, NEW t \in Threads, ReadId(t) \/ ReadNoId(t) \/ OpenFails(t)
    PROVE  Protocol'
<1>1. CASE ReadId(t)
  BY <1>1, NobodyAssumption
     DEF Protocol, TypeOK, Working, Owner, HasId, ReadId, Goes, tables
<1>2. CASE ReadNoId(t)
  BY <1>2, NobodyAssumption
     DEF Protocol, TypeOK, Working, Owner, HasId, ReadNoId, Ends, Goes, tables
<1>3. CASE OpenFails(t)
  BY <1>3, NobodyAssumption
     DEF Protocol, TypeOK, Working, Owner, HasId, OpenFails, Ends, Goes, tables
<1>. QED
  BY <1>1, <1>2, <1>3

LEMMA ProtocolOpen ==
    ASSUME Protocol, NEW t \in Threads, Open(t)
    PROVE  Protocol'
<1>1. Labels[series[t]] \in SUBSET LabelNames
  BY DEF Protocol, TypeOK, Working, Open, Goes, LabelNames
<1>. QED
  BY <1>1, NobodyAssumption DEF Protocol, TypeOK, Working, Owner, HasId, Open, Goes, tables

LEMMA ProtocolLabel ==
    ASSUME Protocol, NEW t \in Threads, NEW l \in LabelNames,
           IndexLabel(t, l) \/ IndexLabelIgnored(t, l)
    PROVE  Protocol'
<1>1. CASE IndexLabel(t, l)
  <2>1. [id |-> id[t], label |-> l, of |-> series[t]] \in Cell
    BY <1>1 DEF Protocol, TypeOK, Working, IndexLabel, Cell
  <2>2. cells' \in SUBSET Cell /\ savedRows' \in Seq(Series) /\ savedCells' \in SUBSET Cell
    BY <1>1, <2>1 DEF Protocol, TypeOK, IndexLabel, Commits
  <2>. QED
    BY <1>1, <2>2 DEF Protocol, TypeOK, Working, Owner, HasId, IndexLabel
<1>2. CASE IndexLabelIgnored(t, l)
  BY <1>2 DEF Protocol, TypeOK, Working, Owner, HasId, IndexLabelIgnored, tables
<1>. QED
  BY <1>1, <1>2

LEMMA ProtocolEnd ==
    ASSUME Protocol, NEW t \in Threads, Commit(t) \/ Throw(t)
    PROVE  Protocol'
<1>1. CASE Commit(t)
  BY <1>1, NobodyAssumption
     DEF Protocol, TypeOK, Working, Owner, HasId, Commit, Ends, Goes
<1>2. CASE Throw(t)
  BY <1>2, NobodyAssumption, BoundsAssumption
     DEF Protocol, TypeOK, Working, Owner, HasId, Throw, Ends, Goes, tables
<1>. QED
  BY <1>1, <1>2

LEMMA ProtocolRestart == ASSUME Protocol, Restart PROVE Protocol'
BY NobodyAssumption, BoundsAssumption
   DEF Protocol, TypeOK, Working, Owner, HasId, Restart

----------------------------------------------------------------------------
(* What the tables keep.                                                     *)

HaveRows(cs, rs) == \A c \in cs : c.id \in 1..Len(rs)
Distinct(rs) == \A i, j \in 1..Len(rs) : rs[i] = rs[j] => i = j

\* A series_id once read stays one of a row: rows are never deleted.
IdsHaveRows == /\ lastId <= Len(rows)
               /\ \A t \in Threads : pc[t] \in {"opening", "labelling"} => id[t] \in 1..Len(rows)

Referential == /\ IdsHaveRows
               /\ HaveRows(cells, rows) /\ Distinct(rows)
               /\ HaveRows(savedCells, savedRows) /\ Distinct(savedRows)

LEMMA ReferentialInit == Init => Referential
BY DEF Init, Referential, IdsHaveRows, HaveRows, Distinct

LEMMA NewRowDistinct ==
    ASSUME NEW rs \in Seq(Series), NEW s \in Series, Distinct(rs),
           ~ \E i \in 1..Len(rs) : rs[i] = s
    PROVE  Distinct(Append(rs, s))
<1>1. \A i \in 1..(Len(rs) + 1) : i \in 1..Len(rs) \/ i = Len(rs) + 1
  BY AppendRow
<1>. QED
  BY <1>1, AppendRow DEF Distinct

LEMMA MoreRows ==
    ASSUME NEW rs \in Seq(Series), NEW s \in Series, NEW cs, HaveRows(cs, rs)
    PROVE  HaveRows(cs, Append(rs, s))
BY AppendRow DEF HaveRows

LEMMA ReferentialInsert ==
    ASSUME Protocol, Referential, NEW t \in Threads, InsertSeries(t)
    PROVE  Referential'
<1>1. rows \in Seq(Series) /\ series[t] \in Series
  BY DEF Protocol, TypeOK, Working, InsertSeries, Goes
<1>2. rows' = Append(rows, series[t]) /\ cells' = cells /\ lastId' = Len(rows) + 1
  BY DEF InsertSeries
<1>3. Distinct(rows)' /\ HaveRows(cells, rows)'
  BY <1>1, <1>2, NewRowDistinct, MoreRows DEF Referential, InsertSeries, Known, Distinct, HaveRows
<1>4. HaveRows(savedCells, savedRows)' /\ Distinct(savedRows)'
  BY <1>3 DEF Referential, InsertSeries, Commits, HaveRows, Distinct
<1>5. Len(rows') = Len(rows) + 1 /\ Len(rows) \in Nat
  BY <1>1, <1>2, AppendRow
<1>6. IdsHaveRows'
  BY <1>2, <1>5 DEF Referential, IdsHaveRows, InsertSeries, Goes, Protocol, TypeOK, locals
<1>. QED
  BY <1>3, <1>4, <1>6 DEF Referential, HaveRows, Distinct

LEMMA ReferentialLabel ==
    ASSUME Protocol, Referential, NEW t \in Threads, NEW l \in LabelNames, IndexLabel(t, l)
    PROVE  Referential'
<1>1. id[t] \in 1..Len(rows) /\ rows' = rows /\ lastId' = id[t] /\ pc' = pc /\ id' = id
  BY DEF Referential, IdsHaveRows, IndexLabel
<1>2. IdsHaveRows'
  BY <1>1 DEF Referential, IdsHaveRows, Protocol, TypeOK
<1>3. HaveRows(cells, rows)' /\ Distinct(rows)'
  BY <1>1 DEF Referential, HaveRows, Distinct, IndexLabel
<1>4. HaveRows(savedCells, savedRows)' /\ Distinct(savedRows)'
  BY <1>3 DEF Referential, IndexLabel, Commits, HaveRows, Distinct
<1>. QED
  BY <1>2, <1>3, <1>4 DEF Referential

\* The steps that write no table, and the one that saves them as a whole.
LEMMA ReferentialOther ==
    ASSUME Protocol, Referential, NEW t \in Threads,
           \/ InsertIgnored(t) \/ ReadId(t) \/ ReadNoId(t) \/ Open(t) \/ OpenFails(t)
           \/ Commit(t) \/ Throw(t)
           \/ \E s \in Series : Start(t, s)
           \/ \E l \in LabelNames : IndexLabelIgnored(t, l)
    PROVE  Referential'
<1>1. /\ pc \in [Threads -> {"idle", "inserting", "identifying", "opening", "labelling"}]
      /\ id \in [Threads -> Nat] /\ lastId \in Nat /\ Len(rows) \in Nat /\ Len(savedRows) \in Nat
  BY DEF Protocol, TypeOK
<1>2. CASE InsertIgnored(t) \/ (\E s \in Series : Start(t, s))
           \/ (\E l \in LabelNames : IndexLabelIgnored(t, l))
  BY <1>1, <1>2 DEF Referential, IdsHaveRows, HaveRows, Distinct, InsertIgnored, Start,
                    IndexLabelIgnored, Goes, tables, locals
<1>3. CASE ReadId(t)
  BY <1>1, <1>3 DEF Referential, IdsHaveRows, HaveRows, Distinct, ReadId, Goes, tables
<1>4. CASE ReadNoId(t) \/ OpenFails(t) \/ Commit(t) \/ Throw(t)
  BY <1>1, <1>4 DEF Referential, IdsHaveRows, HaveRows, Distinct, ReadNoId, OpenFails, Commit,
                    Throw, Ends, Goes, tables
<1>5. CASE Open(t)
  BY <1>1, <1>5 DEF Referential, IdsHaveRows, HaveRows, Distinct, Open, Goes, tables
<1>. QED
  BY <1>2, <1>3, <1>4, <1>5

LEMMA ReferentialRestart == ASSUME Protocol, Referential, Restart PROVE Referential'
BY DEF Protocol, TypeOK, Referential, IdsHaveRows, HaveRows, Distinct, Restart

----------------------------------------------------------------------------
(* As long as every series_id read was the reader's own.                     *)

Own(cs, rs) == \A c \in cs : rs[c.id] = c.of
Labelled(s, i, l) == [id |-> i, label |-> l, of |-> s] \in cells
OwnIds == \A t \in Threads : pc[t] \in {"opening", "labelling"} => rows[id[t]] = series[t]
Complete == \A s \in indexed : \E i \in 1..Len(rows) :
                /\ rows[i] = s
                /\ \A l \in Labels[s] : Labelled(s, i, l)
HalfLabelled == \A t \in Threads : pc[t] = "labelling" =>
                   \A l \in Labels[series[t]] \ todo[t] : Labelled(series[t], id[t], l)

Owned == ~misread => /\ Own(cells, rows) /\ Own(savedCells, savedRows)
                     /\ OwnIds /\ HalfLabelled
                     /\ Complete

LEMMA OwnedInit == Init => Owned
BY DEF Init, Owned, Own, OwnIds, HalfLabelled, Complete

LEMMA OwnedInsert ==
    ASSUME Protocol, Referential, Owned, NEW t \in Threads, InsertSeries(t)
    PROVE  Owned'
<1>. SUFFICES ASSUME ~misread PROVE Owned'
  BY DEF Owned, InsertSeries
<1>1. rows \in Seq(Series) /\ series[t] \in Series
  BY DEF Protocol, TypeOK, Working, InsertSeries, Goes
<1>2. /\ rows' = Append(rows, series[t]) /\ cells' = cells
      /\ UNCHANGED <<indexed, series, id, todo>>
  BY DEF InsertSeries, locals
<1>3. /\ Len(rows') = Len(rows) + 1 /\ Len(rows) \in Nat
      /\ \A i \in 1..Len(rows) : i \in 1..Len(rows') /\ rows'[i] = rows[i]
  BY <1>1, <1>2, AppendRow
<1>4. Own(cells, rows)'
  BY <1>2, <1>3 DEF Owned, Own, Referential, HaveRows
<1>5. Own(savedCells, savedRows)'
  BY <1>4 DEF Owned, Own, InsertSeries, Commits
<1>6. OwnIds' /\ HalfLabelled'
  BY <1>2, <1>3 DEF Owned, OwnIds, HalfLabelled, Labelled, Referential, IdsHaveRows, InsertSeries,
                    Goes, Protocol, TypeOK
<1>7. Complete'
  BY <1>2, <1>3 DEF Owned, Complete, Labelled
<1>. QED
  BY <1>4, <1>5, <1>6, <1>7 DEF Owned

LEMMA OwnedLabel ==
    ASSUME Protocol, Referential, Owned, NEW t \in Threads, NEW l \in LabelNames,
           IndexLabel(t, l) \/ IndexLabelIgnored(t, l)
    PROVE  Owned'
<1>. SUFFICES ASSUME ~misread PROVE Owned'
  BY DEF Owned, IndexLabel, IndexLabelIgnored
<1>. DEFINE new == [id |-> id[t], label |-> l, of |-> series[t]]
<1>1. /\ rows' = rows /\ cells \subseteq cells' /\ cells' \subseteq cells \union {new}
      /\ todo' = [todo EXCEPT ![t] = @ \ {l}]
      /\ UNCHANGED <<indexed, pc, series, id>>
  BY DEF IndexLabel, IndexLabelIgnored, tables
<1>2. rows[id[t]] = series[t] /\ pc[t] = "labelling"
  BY DEF Owned, OwnIds, IndexLabel, IndexLabelIgnored
<1>3. new \in cells'
  <2>1. CASE IndexLabel(t, l)
    BY <2>1 DEF IndexLabel
  <2>2. CASE IndexLabelIgnored(t, l)
    <3>1. PICK c \in cells : c.id = id[t] /\ c.label = l
      BY <2>2 DEF IndexLabelIgnored, Has
    <3>2. c.of = series[t] /\ c \in Cell
      BY <1>2, <3>1 DEF Owned, Own, Protocol, TypeOK
    <3>3. c = new
      BY <3>1, <3>2 DEF Cell
    <3>. QED
      BY <1>1, <3>3
  <2>. QED
    BY <2>1, <2>2
<1>4. Own(cells, rows)'
  BY <1>1, <1>2 DEF Owned, Own
<1>5. Own(savedCells, savedRows)'
  BY <1>4 DEF Owned, Own, IndexLabel, IndexLabelIgnored, Commits, tables
<1>6. OwnIds'
  BY <1>1 DEF Owned, OwnIds
<1>7. HalfLabelled'
  <2>. SUFFICES ASSUME NEW u \in Threads, pc[u] = "labelling",
                       NEW k \in Labels[series[u]] \ todo'[u]
                PROVE  [id |-> id[u], label |-> k, of |-> series[u]] \in cells'
    BY <1>1 DEF HalfLabelled, Labelled
  <2>1. CASE u = t /\ k = l
    BY <1>3, <2>1
  <2>2. CASE u # t \/ k # l
    <3>1. k \notin todo[u]
      BY <1>1, <2>2 DEF Protocol, TypeOK
    <3>. QED
      BY <1>1, <3>1 DEF Owned, HalfLabelled, Labelled
  <2>. QED
    BY <2>1, <2>2
<1>8. Complete'
  BY <1>1 DEF Owned, Complete, Labelled
<1>. QED
  BY <1>4, <1>5, <1>6, <1>7, <1>8 DEF Owned

LEMMA OwnedCommit ==
    ASSUME Protocol, Referential, Owned, NEW t \in Threads, Commit(t)
    PROVE  Owned'
<1>. SUFFICES ASSUME ~misread PROVE Owned'
  BY DEF Owned, Commit
<1>1. /\ pc[t] = "labelling" /\ todo[t] = {} /\ rows' = rows /\ cells' = cells
      /\ savedRows' = rows /\ savedCells' = cells
      /\ indexed' = indexed \union {series[t]}
      /\ pc' = [pc EXCEPT ![t] = "idle"] /\ series' = [series EXCEPT ![t] = NoSeries]
      /\ id' = [id EXCEPT ![t] = 0] /\ todo' = [todo EXCEPT ![t] = {}]
  BY DEF Commit, Ends, Goes
<1>2. Own(cells, rows)' /\ Own(savedCells, savedRows)'
  BY <1>1 DEF Owned, Own
<1>3. OwnIds' /\ HalfLabelled'
  BY <1>1 DEF Owned, OwnIds, HalfLabelled, Labelled, Protocol, TypeOK
<1>4. /\ id[t] \in 1..Len(rows) /\ rows[id[t]] = series[t]
      /\ \A l \in Labels[series[t]] : [id |-> id[t], label |-> l, of |-> series[t]] \in cells
  BY <1>1 DEF Owned, OwnIds, HalfLabelled, Labelled, Referential, IdsHaveRows
<1>5. Complete'
  BY <1>1, <1>4 DEF Owned, Complete, Labelled
<1>. QED
  BY <1>2, <1>3, <1>5 DEF Owned

LEMMA OwnedOther ==
    ASSUME Protocol, Referential, Owned, NEW t \in Threads,
           \/ InsertIgnored(t) \/ ReadId(t) \/ ReadNoId(t) \/ Open(t) \/ OpenFails(t)
           \/ Throw(t) \/ \E s \in Series : Start(t, s)
    PROVE  Owned'
<1>1. /\ pc \in [Threads -> {"idle", "inserting", "identifying", "opening", "labelling"}]
      /\ series \in [Threads -> Series \union {NoSeries}]
      /\ id \in [Threads -> Nat] /\ todo \in [Threads -> SUBSET LabelNames]
      /\ misread \in BOOLEAN
  BY DEF Protocol, TypeOK
<1>2. CASE InsertIgnored(t) \/ \E s \in Series : Start(t, s)
  BY <1>1, <1>2, SMTT(30) DEF Owned, Own, OwnIds, HalfLabelled, Labelled, Complete, InsertIgnored,
                    Start, Goes, tables, locals
<1>3. CASE ReadId(t)
  <2>1. CASE misread'
    BY <2>1 DEF Owned
  <2>2. CASE ~misread'
    <3>1. ~misread /\ rows[lastId] = series[t]
      BY <1>1, <1>3, <2>2 DEF ReadId
    <3>. QED
      BY <1>1, <1>3, <3>1 DEF Owned, Own, OwnIds, HalfLabelled, Labelled, Complete,
                              ReadId, Goes, tables
  <2>. QED
    BY <2>1, <2>2
<1>4. CASE ReadNoId(t)
  BY <1>4 DEF Owned, ReadNoId
<1>5. CASE Open(t)
  BY <1>1, <1>5 DEF Owned, Own, OwnIds, HalfLabelled, Labelled, Complete, Open, Goes,
                    tables
<1>6. CASE OpenFails(t) \/ Throw(t)
  <2>1. /\ UNCHANGED <<rows, cells, savedRows, savedCells, indexed, misread>>
        /\ \E from : Ends(t, from)
    BY <1>6 DEF OpenFails, Throw, tables
  <2>2. \A u \in Threads : pc'[u] # "idle" =>
            u # t /\ pc'[u] = pc[u] /\ id'[u] = id[u] /\ series'[u] = series[u] /\ todo'[u] = todo[u]
    BY <1>1, <2>1 DEF Ends, Goes
  <2>3. ~misread => OwnIds' /\ HalfLabelled'
    BY <2>1, <2>2 DEF Owned, OwnIds, HalfLabelled, Labelled
  <2>. QED
    BY <2>1, <2>3 DEF Owned, Own, Complete, Labelled
<1>. QED
  BY <1>2, <1>3, <1>4, <1>5, <1>6

LEMMA OwnedRestart == ASSUME Owned, Restart PROVE Owned'
BY DEF Owned, Own, OwnIds, HalfLabelled, Complete, Restart

----------------------------------------------------------------------------
IInv == Protocol /\ Referential /\ Owned

LEMMA StepIInv ==
    ASSUME IInv, NEW t \in Threads, Step(t) \/ (\E s \in Series : Start(t, s))
    PROVE  IInv'
<1>. USE DEF IInv
<1>1. CASE InsertSeries(t)
  BY <1>1, ProtocolInsert, ReferentialInsert, OwnedInsert
<1>2. CASE InsertIgnored(t)
  BY <1>2, ProtocolInsert, ReferentialOther, OwnedOther
<1>3. CASE ReadId(t) \/ ReadNoId(t) \/ OpenFails(t)
  BY <1>3, ProtocolRead, ReferentialOther, OwnedOther
<1>4. CASE Open(t)
  BY <1>4, ProtocolOpen, ReferentialOther, OwnedOther
<1>5. CASE Commit(t)
  BY <1>5, ProtocolEnd, ReferentialOther, OwnedCommit
<1>6. CASE Throw(t)
  BY <1>6, ProtocolEnd, ReferentialOther, OwnedOther
<1>7. CASE \E l \in LabelNames : IndexLabel(t, l) \/ IndexLabelIgnored(t, l)
  <2>1. PICK l \in LabelNames : IndexLabel(t, l) \/ IndexLabelIgnored(t, l)
    BY <1>7
  <2>2. Protocol' /\ Owned'
    BY <2>1, ProtocolLabel, OwnedLabel
  <2>3. Referential'
    BY <2>1, ReferentialLabel, ReferentialOther
  <2>. QED
    BY <2>2, <2>3
<1>8. CASE \E s \in Series : Start(t, s)
  <2>1. Protocol'
    BY <1>8, ProtocolStart
  <2>. QED
    BY <1>8, <2>1, ReferentialOther, OwnedOther
<1>. QED
  BY <1>1, <1>2, <1>3, <1>4, <1>5, <1>6, <1>7, <1>8 DEF Step

LEMMA InitIInv == Init => IInv
BY ProtocolInit, ReferentialInit, OwnedInit DEF IInv

LEMMA NextIInv == IInv /\ [Next]_vars => IInv'
<1>. SUFFICES ASSUME IInv, [Next]_vars PROVE IInv'
  OBVIOUS
<1>1. CASE \E t \in Threads : Step(t) \/ \E s \in Series : Start(t, s)
  BY <1>1, StepIInv
<1>2. CASE Restart
  BY <1>2, ProtocolRestart, ReferentialRestart, OwnedRestart DEF IInv
<1>3. CASE UNCHANGED vars
  <2>1. Protocol'
    BY <1>3 DEF vars, tables, locals, IInv, Protocol, TypeOK, Working, Owner, HasId
  <2>2. Referential'
    BY <1>3 DEF vars, tables, locals, IInv, Referential, IdsHaveRows, HaveRows, Distinct
  <2>3. Owned'
    BY <1>3 DEF vars, tables, locals, IInv, Owned, Own, OwnIds, HalfLabelled, Labelled,
                Complete
  <2>. QED
    BY <2>1, <2>2, <2>3 DEF IInv
<1>. QED
  BY <1>1, <1>2, <1>3 DEF Next

LEMMA IInvHolds == Spec => []IInv
BY InitIInv, NextIInv, PTL DEF Spec

\* Type correctness of the index.
THEOREM TypeCorrect == Spec => []TypeOK
<1>1. IInv => TypeOK
  BY DEF IInv, Protocol
<1>. QED
  BY <1>1, IInvHolds, PTL

\* The label tables of the saved database (IndexLabel) name only series that are there,
\* once each, whatever the threads do and whenever the process ends.
THEOREM LabelsReferToRows == Spec => []LabelsHaveRows
<1>1. IInv => LabelsHaveRows
  BY DEF IInv, Referential, HaveRows, Distinct, LabelsHaveRows
<1>. QED
  BY <1>1, IInvHolds, PTL

\* A search finds each series with is_indexed that it asks for, unless a thread has read
\* another series's id from last_insert_rowid.
THEOREM IndexedAreFound == Spec => []IndexedIsSearchable
<1>1. ASSUME IInv PROVE IndexedIsSearchable
  <2>. SUFFICES ASSUME ~misread, NEW q \in Queries, NEW s \in indexed, Satisfies(s, q)
                PROVE  s \in SearchSeries(q)
    BY DEF IndexedIsSearchable
  <2>1. PICK i \in 1..Len(rows) : rows[i] = s /\ \A l \in Labels[s] : Labelled(s, i, l)
    BY <1>1 DEF IInv, Owned, Complete
  <2>2. ASSUME NEW c \in q
        PROVE  \E x \in cells : x.id = i /\ x.label = c.label /\ x.of \in c.values
    <3>1. s \in c.values /\ c.label \in Labels[s]
      BY QueriesAssumption DEF Satisfies, Constraint
    <3>. QED
      BY <2>1, <3>1 DEF Labelled
  <2>3. q # {}
    BY DEF Satisfies
  <2>. QED
    BY <2>1, <2>2, <2>3 DEF SearchSeries
<1>. QED
  BY <1>1, IInvHolds, PTL

\* What a search finds satisfies it, under the same condition: the rows of IndexLabel under
\* an id hold labels of the series with that id.
THEOREM AnswersAreRight == Spec => []AnswersMatch
<1>1. ASSUME IInv PROVE AnswersMatch
  <2>. SUFFICES ASSUME ~misread, NEW q \in Queries, NEW s \in SearchSeries(q)
                PROVE  Satisfies(s, q)
    BY DEF AnswersMatch
  <2>1. PICK i \in 1..Len(rows) :
            /\ s = rows[i] /\ q # {}
            /\ \A c \in q : \E x \in cells : x.id = i /\ x.label = c.label /\ x.of \in c.values
    BY DEF SearchSeries
  <2>2. \A x \in cells : rows[x.id] = x.of
    BY <1>1 DEF IInv, Owned, Own
  <2>. QED
    BY <2>1, <2>2 DEF Satisfies
<1>. QED
  BY <1>1, IInvHolds, PTL

\* An exception between BEGIN and END stops IndexSeries, and every commit, until the
\* process ends.
THEOREM AbandonedMeansForever == Spec => AbandonedForGood
<1>1. ASSUME IInv, Next, tx = Abandoned, crashes' = crashes
      PROVE  tx' = Abandoned /\ indexed' = indexed /\ UNCHANGED <<savedRows, savedCells>>
  <2>1. ~Restart
    BY <1>1 DEF IInv, Protocol, TypeOK, Restart
  <2>2. PICK t \in Threads : Step(t) \/ \E s \in Series : Start(t, s)
    BY <1>1, <2>1 DEF Next
  <2>3. pc[t] # "labelling" /\ lastId # 0 /\ tx # Nobody
    BY <1>1, NobodyAssumption DEF IInv, Protocol, Owner, HasId
  <2>4. CASE InsertSeries(t)
    BY <1>1, <2>3, <2>4 DEF InsertSeries, Commits
  <2>. QED
    BY <1>1, <2>2, <2>3, <2>4
       DEF Step, Start, InsertIgnored, ReadId, ReadNoId, Open, OpenFails, IndexLabel,
           IndexLabelIgnored, Commit, Throw, Ends, Goes, tables
<1>2. IInv /\ [Next]_vars =>
        [tx = Abandoned /\ crashes' = crashes =>
            tx' = Abandoned /\ indexed' = indexed /\ UNCHANGED <<savedRows, savedCells>>]_vars
  BY <1>1
<1>. QED
  BY <1>2, IInvHolds, PTL DEF Spec, AbandonedForGood

=============================================================================

------------------------------ MODULE Messages ------------------------------
(* The messages of the protocol and the code generated for them              *)
(* (src/vqro/rpc/{core,search,storage,controller}.pb.cc): what an object     *)
(* keeps of each field, what it writes to the wire, and what an object that  *)
(* reads the wire has afterwards. A message is the sequence of its fields;   *)
(* the number of a field is its place.                                       *)
EXTENDS Integers, SequencesExt

CONSTANT Unset    \* what a field holds without a message, or as another case of its oneof

Field(name, label, type, zero) == [name |-> name, label |-> label, type |-> type, zero |-> zero]
NoFields == <<>>
Number(name) == Field(name, "number", NoFields, 0)
Bool(name) == Field(name, "bool", NoFields, FALSE)
Text(name) == Field(name, "string", NoFields, "")
One(name, type) == Field(name, "message", type, Unset)
Many(name, type) == Field(name, "repeated", type, <<>>)
Case(name, type) == Field(name, "oneof", type, Unset)
Map(name) == Field(name, "map", NoFields, <<>>)

----------------------------------------------------------------------------
(* core.proto *)
LabelMap == Map("labels")
Series == <<LabelMap>>
\* -0.0 is not written: it comes out as 0.0, to which it is equal. So one 0 stands for both.
Datapoint == <<Number("timestamp"), Number("duration"), Number("value")>>
StatusMessage == <<Text("text"), Bool("error"), Bool("go_away")>>

(* search.proto: the predicate of a constraint is a oneof. *)
ConstrainedLabel == Text("label_name")
ExactValue == Case("exact_value", NoFields)
ValueRegex == Case("regex", NoFields)
LabelConstraint == <<ConstrainedLabel, ExactValue, ValueRegex>>
Constraints == Many("constraints", LabelConstraint)
ResultOffset == Number("result_offset")
ResultLimit == Number("result_limit")
SeriesQuery == <<Constraints, ResultOffset, ResultLimit>>
FoundSeries == Many("matches", Series)
SearchStatus == One("status", StatusMessage)
SearchSeriesResults == <<FoundSeries, SearchStatus>>
NameRegex == Text("regex")
LabelsQuery == <<NameRegex, ResultOffset, ResultLimit>>
FoundLabels == Many("labels", NoFields)
SearchLabelsResults == <<FoundLabels, SearchStatus>>

(* storage.proto: the selector of a read is a oneof. *)
OfSeries == One("series", Series)
Datapoints == Many("datapoints", Datapoint)
WriteOperation == <<OfSeries, Datapoints>>
ListedSeries == Many("series", Series)
SeriesList == <<ListedSeries>>
SelectedQuery == Case("query", SeriesQuery)
SelectedList == Case("list", SeriesList)
StartTime == Number("start_time")
EndTime == Number("end_time")
DatapointLimit == Number("datapoint_limit")
PreferLatest == Bool("prefer_latest")
ReadOperation == <<SelectedQuery, SelectedList, StartTime, EndTime, DatapointLimit, PreferLatest>>
ReadStatus == One("status", StatusMessage)
ReadResult == <<OfSeries, Datapoints, ReadStatus>>

(* controller.proto: the address of a server is a oneof, and so is the state sent. *)
ServerName == Text("name")
Ipv4Address == Case("ipv4_address", NoFields)
Ipv6Address == Case("ipv6_address", NoFields)
Port == Number("port")
Server == <<ServerName, Ipv4Address, Ipv6Address, Port>>
RangeMessage == <<Number("lower_bound"), Number("upper_bound"), Bool("not_synced")>>
LocateSeriesResults == <<Many("servers", Server), One("status", StatusMessage)>>
ServerRanges == <<One("server", Server), Many("range", RangeMessage)>>
VaqueroMetrics == <<Number("cpu_usage"), Number("num_series_written_to"), Number("num_datapoints_written"),
                    Number("storage_bytes_change")>>
VaqueroState == <<One("server", Server), One("metrics", VaqueroMetrics), Many("new_series", Series),
                  Many("expired_series", Series)>>
CellLocalState == <<Many("vaqueros", VaqueroState)>>
ExchangeStateRequest == <<One("local_state", CellLocalState), Number("only_diff_since_revision")>>
CellGlobalState == <<Number("revision"), Many("controllers", Server),
                     Many("range_assignments", ServerRanges)>>
CellGlobalStateDiff == <<Number("from_revision"), Number("to_revision"), Many("additions", ServerRanges),
                         Many("removals", ServerRanges)>>
FullState == Case("full", CellGlobalState)
StateDiff == Case("diff", CellGlobalStateDiff)
ExchangeStateResponse == <<FullState, StateDiff>>

MessageTypes == <<Series, Datapoint, StatusMessage, LabelConstraint, SeriesQuery,
    SearchSeriesResults, LabelsQuery, SearchLabelsResults, WriteOperation, SeriesList,
    ReadOperation, ReadResult, Server, RangeMessage, LocateSeriesResults, ServerRanges, VaqueroMetrics,
    VaqueroState, CellLocalState, ExchangeStateRequest, CellGlobalState, CellGlobalStateDiff,
    ExchangeStateResponse>>

----------------------------------------------------------------------------
(* Objects.                                                                  *)

IsMessage(f) == f.type # NoFields
Names(M) == {M[n].name : n \in DOMAIN M}
FieldOf(M, name) == M[CHOOSE n \in DOMAIN M : M[n].name = name]

\* Clear, and a new object.
Cleared(M) == [name \in Names(M) |-> FieldOf(M, name).zero]

\* The cases of the oneof but this one: what setting this one unsets. No message has two.
Others(M, f) == {M[n].name : n \in {k \in DOMAIN M : M[k].label = "oneof"}} \ {f.name}
Set(M, m, f, value) ==
    [name \in Names(M) |-> IF name = f.name THEN value
                           ELSE IF f.label = "oneof" /\ name \in Others(M, f) THEN Unset
                           ELSE m[name]]

\* mutable_<field>(): an unset message becomes an empty one.
Mutable(m, f) == IF m[f.name] = Unset THEN Cleared(f.type) ELSE m[f.name]

----------------------------------------------------------------------------
(* The wire: a sequence of numbered fields.                                  *)

\* An optional scalar that is zero is not written, a case of a oneof is, whatever it holds.
IsWritten(m, f) == IF f.label \in {"oneof", "message"} THEN m[f.name] # Unset
                                                        ELSE m[f.name] # f.zero

\* The code of a type calls that of the types of its fields; messages nest four deep.
Payload(serialize(_, _), f, value) ==
    IF IsMessage(f) THEN [message |-> serialize(f.type, value)]
    ELSE CASE f.label = "map" -> [entry |-> value]
           [] f.label = "number" -> [varint |-> value]
           [] f.label = "bool" -> [bool |-> value]
           [] OTHER -> [text |-> value]
Entries(map) == [i \in 1..Cardinality(DOMAIN map) |->
                    LET key == SetToSeq(DOMAIN map)[i] IN <<key, map[key]>>]
Values(m, f) == CASE f.label = "repeated" -> m[f.name]
                  [] f.label = "map" -> Entries(m[f.name])
                  [] OTHER -> IF IsWritten(m, f) THEN <<m[f.name]>> ELSE <<>>
Written(serialize(_, _), m, f, n) ==
    [i \in 1..Len(Values(m, f)) |-> [number |-> n, payload |-> Payload(serialize, f, Values(m, f)[i])]]
Fields(serialize(_, _), M, m) == FlattenSeq([n \in 1..Len(M) |-> Written(serialize, m, M[n], n)])
SerializePlain(M, m) == Fields(LAMBDA N, x : <<>>, M, m)
SerializeTwo(M, m) == Fields(SerializePlain, M, m)
SerializeThree(M, m) == Fields(SerializeTwo, M, m)
Serialize(M, m) == Fields(SerializeThree, M, m)

Plain(f, payload) == CASE f.label = "number" -> payload.varint
                       [] f.label = "bool" -> payload.bool
                       [] OTHER -> payload.text

\* The entries of a map: the last one of a key is the one that stays.
Keys(entries) == {entries[i][1] : i \in DOMAIN entries}
LastValue(entries, key) == entries[Max({i \in DOMAIN entries : entries[i][1] = key})][2]
WithEntries(map, entries) == [key \in DOMAIN map \union Keys(entries) |->
                                 IF key \in Keys(entries) THEN LastValue(entries, key) ELSE map[key]]

Numbered(wire, n) == FlattenSeq([i \in DOMAIN wire |-> IF wire[i].number = n THEN <<wire[i]>>
                                                                           ELSE <<>>])

\* MergePartialFromCodedStream: the wire is read into whatever the object holds, and a
\* field whose number the message does not have is skipped. Messages of one field are
\* merged; what comes after another case of the oneof starts anew.
ReadMessage(merge(_, _, _), f, message, wires) ==
    merge(f.type, IF message = Unset THEN Cleared(f.type) ELSE message, FlattenSeq(wires))
ReadField(merge(_, _, _), M, n, object, wire) ==
    LET f == M[n]
        others == {i \in DOMAIN wire : /\ wire[i].number \in DOMAIN M \ {n}
                                       /\ f.label = "oneof" /\ M[wire[i].number].label = "oneof"}
        mine == Numbered(IF others = {} THEN wire ELSE SubSeq(wire, Max(others) + 1, Len(wire)), n)
        held == IF others = {} THEN object[f.name] ELSE Unset
        messages == [i \in DOMAIN mine |-> mine[i].payload.message]
    IN  CASE f.label = "repeated" ->
                held \o [i \in DOMAIN mine |->
                            IF IsMessage(f) THEN ReadMessage(merge, f, Unset, <<messages[i]>>)
                                            ELSE Plain(f, mine[i].payload)]
          [] f.label = "map" -> WithEntries(held, [i \in DOMAIN mine |-> mine[i].payload.entry])
          [] OTHER -> IF mine = <<>> THEN held
                      ELSE IF IsMessage(f) THEN ReadMessage(merge, f, held, messages)
                      ELSE Plain(f, mine[Len(mine)].payload)
ReadFields(merge(_, _, _), M, object, wire) ==
    [name \in Names(M) |-> ReadField(merge, M, CHOOSE n \in DOMAIN M : M[n].name = name, object, wire)]
ReadPlain(M, object, wire) == ReadFields(LAMBDA N, x, w : x, M, object, wire)
ReadTwo(M, object, wire) == ReadFields(ReadPlain, M, object, wire)
ReadThree(M, object, wire) == ReadFields(ReadTwo, M, object, wire)
MergeFromWire(M, object, wire) == ReadFields(ReadThree, M, object, wire)

\* What Read() of a stream does to the object it is given.
Read(M, object, wire) == MergeFromWire(M, Cleared(M), wire)

----------------------------------------------------------------------------
\* MergeFrom(const M&): fields of the other object that are set go over this one's.
MergeFields(mergeFrom(_, _, _), M, to, from) ==
    LET merge(m, f) ==
            CASE f.label = "repeated" -> Set(M, m, f, m[f.name] \o from[f.name])
              [] f.label = "map" -> Set(M, m, f, from[f.name] @@ m[f.name])
              [] OTHER -> IF ~IsWritten(from, f) THEN m
                          ELSE Set(M, m, f, IF IsMessage(f)
                                            THEN mergeFrom(f.type, Mutable(m, f), from[f.name])
                                            ELSE from[f.name])
    IN  FoldLeft(merge, to, M)
MergePlain(M, to, from) == MergeFields(LAMBDA N, x, y : x, M, to, from)
MergeTwo(M, to, from) == MergeFields(MergePlain, M, to, from)
MergeThree(M, to, from) == MergeFields(MergeTwo, M, to, from)
MergeFrom(M, to, from) == MergeFields(MergeThree, M, to, from)

\* operator=
CopyFrom(M, to, from) == MergeFrom(M, Cleared(M), from)
=============================================================================

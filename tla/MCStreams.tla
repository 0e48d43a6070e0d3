----------------------------- MODULE MCStreams -----------------------------
(* Streams with two series that share a label, lines of two points, and      *)
(* results of one point and one row each. Beside it, the laws of the         *)
(* generated code for a full and a bare sample of every message.             *)
EXTENDS Streams

p0 == [ts |-> 0, dur |-> 1, val |-> 1]
p1 == [ts |-> 1, dur |-> 2, val |-> 1]
pNaN == [ts |-> 1, dur |-> 1, val |-> NaN]
p2 == [ts |-> 3, dur |-> 0, val |-> 0]
A == "host" :> "x"
AB == A @@ "disk" :> "y"

Line(kind, labels, points) == [kind |-> kind, labels |-> labels, points |-> points]
MCLines == {Line("blank", <<>>, <<>>), Line("bad", <<>>, <<>>), Line("bad_point", A, <<p0>>),
            Line("record", A, <<p0, p2>>), Line("record", A, <<pNaN, p1>>), Line("record", AB, <<p2>>),
            Line("record", AB, <<>>), Line("record", <<>>, <<p0>>)}

\* Time units that divide one another as the real ones do.
MCNanosecondsPerTick == "none" :> 0 @@ "ns" :> 1 @@ "s" :> 2 @@ "m" :> 4
Now == [kind |-> "now"]
From(flag) == [kind |-> flag]
Relative(n, unit) == [kind |-> "relative", number |-> n, unit |-> unit]
Date(seconds) == [kind |-> "date", seconds |-> seconds]

ListOf(series) == [Cleared(ReadOperation) EXCEPT !.list = [series |-> series]]
Equal(name, value) == [Cleared(LabelConstraint) EXCEPT !.label_name = name, !.exact_value = value]
Like(name, value) == [Cleared(LabelConstraint) EXCEPT !.label_name = name, !.regex = value]
NoPredicate(name) == [Cleared(LabelConstraint) EXCEPT !.label_name = name]
QueryOf(constraints, offset, limit) ==
    [constraints |-> constraints, result_offset |-> offset, result_limit |-> limit]
ByQuery(query) == [Cleared(ReadOperation) EXCEPT !.query = query]
SeriesOf(labels) == [labels |-> labels]

Reads(message, start, end, tick) ==
    [method |-> "read", message |-> message, start |-> start, end |-> end, tick |-> tick]
Searches(method, message) == [method |-> method, message |-> message]
Both == QueryOf(<<Like("host", ".*")>>, 0, 0)
MCRequests ==
    {Reads(ListOf(<<SeriesOf(A), SeriesOf(AB)>>), From("min"), From("max"), "s"),
     Reads(ListOf(<<SeriesOf(AB), SeriesOf(<<>>)>>), From("min"), Now, "none"),
     Reads(ListOf(<<SeriesOf(A), SeriesOf(A)>>), From("min"), Now, "s"),
     Reads(ListOf(<<SeriesOf(A)>>), Relative(-1, "m"), Now, "s"),
     Reads(ListOf(<<SeriesOf(A)>>), Relative(-1, "ns"), Now, "s"),
     Reads(ListOf(<<SeriesOf(A)>>), Relative(-33, "m"), Now, "s"),
     Reads(ListOf(<<SeriesOf(A)>>), Date(0), Relative(1, "s"), "ns"),
     Reads(ListOf(<<SeriesOf(A)>>), Relative(-1, "s"), Relative(1, "s"), "s"),
     Reads(ByQuery(Both), From("min"), From("max"), "s"),
     Reads(ByQuery(QueryOf(<<Like("host", ".*"), Equal("disk", "y")>>, 0, 0)), From("min"), Date(2), "s"),
     Reads(ByQuery(QueryOf(<<Like("host", ".*")>>, 1, 1)), From("min"), From("max"), "s"),
     Reads(Cleared(ReadOperation), From("min"), From("max"), "s"),
     Searches("series", Both), Searches("series", QueryOf(<<Like("host", ".*")>>, -1, -1)),
     Searches("series", QueryOf(<<Like("host", "x")>>, 1, 1)),
     Searches("series", QueryOf(<<>>, 0, 0)), Searches("series", QueryOf(<<NoPredicate("host")>>, 0, 0)),
     Searches("labels", [regex |-> ".*", result_offset |-> 0, result_limit |-> 0]),
     Searches("labels", [regex |-> ".*", result_offset |-> 1, result_limit |-> 2]),
     Searches("labels", [regex |-> "", result_offset |-> 0, result_limit |-> 0])}

\* A point that ends before it begins, and a read that starts between the two.
pBack == [ts |-> 3, dur |-> -3, val |-> 1]
BackLines == {Line("record", A, <<p0, pBack>>)}
BackRequests == {Reads(ListOf(<<SeriesOf(A)>>), Date(1), From("max"), "s")}

----------------------------------------------------------------------------
\* A message with everything set, or nothing but the first case of its oneof.
RECURSIVE Sample(_, _)
FirstCase(M) == CHOOSE n \in DOMAIN M : /\ M[n].label = "oneof"
                                        /\ \A k \in 1..(n - 1) : M[k].label # "oneof"
Some(f) == CASE f.label = "number" -> 7 [] f.label = "bool" -> TRUE [] f.label = "string" -> "x"
             [] f.label = "repeated" -> <<"x", "">> [] f.label = "map" -> AB
SampleField(M, f, full) ==
    CASE f.label = "oneof" -> IF f # M[FirstCase(M)] THEN Unset
                              ELSE IF IsMessage(f) THEN Sample(f.type, full) ELSE ""
      [] f.label = "repeated" /\ IsMessage(f) -> <<Sample(f.type, full), Sample(f.type, FALSE)>>
      [] OTHER -> IF ~full THEN f.zero ELSE IF IsMessage(f) THEN Sample(f.type, full) ELSE Some(f)
Sample(M, full) == [name \in Names(M) |-> SampleField(M, FieldOf(M, name), full)]

\* What is read is what was written, whatever the object held; reading without clearing,
\* and reading two messages as one, is merging; assigning copies.
ASSUME WireAssumption ==
    \A n \in DOMAIN MessageTypes : \A full, other \in BOOLEAN :
        LET M == MessageTypes[n]
            a == Sample(M, full)
            b == Sample(M, other)
        IN  /\ Read(M, b, Serialize(M, a)) = a
            /\ MergeFromWire(M, b, Serialize(M, a)) = MergeFrom(M, b, a)
            /\ Read(M, b, Serialize(M, b) \o Serialize(M, a)) = MergeFrom(M, b, a)
            /\ CopyFrom(M, b, a) = a
=============================================================================

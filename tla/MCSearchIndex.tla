--------------------------- MODULE MCSearchIndex ---------------------------
(* SearchIndex with two threads and three series that share a label name,    *)
(* one of them with a second one.                                            *)
EXTENDS SearchIndex

CONSTANTS s1, s2, s3, host, disk
MCLabels == [s \in {s1, s2, s3} |-> IF s = s3 THEN {host, disk} ELSE {host}]

\* One and two constraints; no series satisfies the last two.
Asks(l, ss) == [label |-> l, values |-> ss]
MCQueries == {{Asks(host, {s1})}, {Asks(host, {s1, s3})}, {Asks(host, {s2, s3}), Asks(disk, {s3})},
              {Asks(host, {s1, s2}), Asks(disk, {s3})}, {Asks(disk, {})}}
=============================================================================

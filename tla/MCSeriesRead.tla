---------------------------- MODULE MCSeriesRead ----------------------------
(* SeriesRead with a read buffer of one point and files of three: two        *)
(* flushes of one or two points, and a crash, beside one read.               *)
EXTENDS SeriesRead
=============================================================================

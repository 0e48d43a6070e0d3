----------------------------- MODULE MCSeries -----------------------------
(* Series with two Writes of at most two points each: enough for an append   *)
(* to meet every step of a flush, for a Write out of order to set off the    *)
(* sort on three cells or more, and for a re-sort between two files.         *)
EXTENDS Series
=============================================================================

------------------------------ MODULE MCServer ------------------------------
(* Server with two handlers, two series whose buffers hold up to two points, *)
(* a look at the deadline after every flush, and two workers to stop.        *)
EXTENDS Server
=============================================================================

------------------------- MODULE MCStorageOptimizer -------------------------
(* StorageOptimizer with two flushes of up to two points, a file too big at  *)
(* three, and a directory that begins empty, or with a dense file of two     *)
(* values from 0 on, or with a constant file.                                *)
EXTENDS StorageOptimizer

Points == [ts : 0..2, dur : 1..2, val : 1..2]
MCBatch == {<<p>> : p \in Points} \union {b \in Points \X Points : b[1].ts <= b[2].ts /\ b[1].val = 1}
MCRange == {[start |-> 0, end |-> 4], [start |-> 1, end |-> 3]}
MCListed == {[object |-> [kind |-> "dense", min |-> 0, dur |-> 1, max |-> 2],
              name |-> [kind |-> "dense", min |-> 0, dur |-> 1], content |-> <<1, 2>>],
             [object |-> [kind |-> "constant", min |-> 0, dur |-> 1, val |-> 1, count |-> 2, max |-> 2],
              name |-> [kind |-> "constant", min |-> 0, dur |-> 1, val |-> 1, count |-> 2],
              content |-> <<>>]}
=============================================================================

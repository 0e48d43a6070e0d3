----------------------------- MODULE MCWorker -----------------------------
(* Worker with two producers, one that waits for its tasks (an RPC thread in *)
(* Database::Write) and one that does not (StorageOptimizer), and a limit of *)
(* one task, so that the limit, the race to it and a full queue all happen.  *)
EXTENDS Worker

CONSTANTS p1, p2
=============================================================================

----------------------------- MODULE TaskQueue -----------------------------
(* What a WorkerThread (src/vqro/base/worker.h) promises to its callers: the *)
(* tasks it accepts run one at a time, each at most once, in the order they  *)
(* were accepted, and after Stop() at most one more of them is started.      *)
EXTENDS Naturals, Sequences

CONSTANT Task          \* the tasks callers may hand to Do()

VARIABLES accepted,    \* tasks accepted so far, oldest first
          ran,         \* tasks started so far, oldest first
          resolved,    \* tasks whose future has been made ready
          open,        \* FALSE once Stop() was called
          late         \* tasks started after Stop()

vars == <<accepted, ran, resolved, open, late>>

Init == /\ accepted = <<>>
        /\ ran = <<>>
        /\ resolved = {}
        /\ open = TRUE
        /\ late = 0

Accept(t) == /\ accepted' = Append(accepted, t)
             /\ UNCHANGED <<ran, resolved, open, late>>

\* Only one task runs at a time: the one before it has its future resolved.
Begin == /\ Len(ran) < Len(accepted)
         /\ Len(ran) > 0 => ran[Len(ran)] \in resolved
         /\ open \/ late = 0
         /\ ran' = Append(ran, accepted[Len(ran) + 1])
         /\ late' = IF open THEN 0 ELSE 1
         /\ UNCHANGED <<accepted, resolved, open>>

Resolve == /\ Len(ran) > 0
           /\ resolved' = resolved \union {ran[Len(ran)]}
           /\ UNCHANGED <<accepted, ran, open, late>>

Close == /\ open
         /\ open' = FALSE
         /\ UNCHANGED <<accepted, ran, resolved, late>>

Next == (\E t \in Task : Accept(t)) \/ Begin \/ Resolve \/ Close

Spec == Init /\ [][Next]_vars
=============================================================================

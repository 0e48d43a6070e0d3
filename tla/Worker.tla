------------------------------ MODULE Worker ------------------------------
(* WorkerThread (src/vqro/base/worker.h): a thread that runs the tasks other *)
(* threads hand it with Do(). The queue is protected by tasks_mutex, but the *)
(* worker waits for it under another mutex, tasks_available_mutex, that no   *)
(* producer takes, and Do() reads the queue's size without any lock.         *)
EXTENDS Naturals, Sequences, FiniteSets

CONSTANTS Producers,   \* threads that call Do()
          Blocking,    \* the producers that wait on the future Do() returns
          Stopper,     \* the thread that calls Stop()
          Limit,       \* FLAGS_worker_task_queue_limit
          MaxTasks,    \* bound: calls of Do() per thread
          MaxTorn,     \* bound: admissions decided by a torn read of size()
          NoTask       \* the empty packaged_task DoTasks() begins with

Threads == Producers \union {Stopper}

ASSUME ThreadsAssumption == /\ IsFiniteSet(Producers)
                            /\ Blocking \subseteq Producers
                            /\ Stopper \notin Producers
ASSUME BoundsAssumption == Limit \in Nat /\ MaxTasks \in Nat \ {0} /\ MaxTorn \in Nat

\* A task is named after the call of Do() that hands it over.
Task == Threads \X (1..MaxTasks)

ASSUME NoTaskAssumption == NoTask \notin Task

VARIABLES queue,       \* tasks
          keep,        \* keep_processing
          wpc,         \* where the worker is in DoTasks()
          task,        \* the task the worker claimed last
          tpc,         \* tpc[t]: where thread t is in Do(), or in Stop()
          issued,      \* issued[t]: the calls of Do() t has begun
          ran,         \* history: the tasks claimed, in order
          resolved,    \* the tasks whose future is ready
          late,        \* history: tasks claimed since keep_processing was cleared
          torn         \* history: admissions decided by a torn read

wvars == <<queue, keep, wpc, task, tpc, issued, ran, resolved, late, torn>>

Init == /\ queue = <<>>
        /\ keep = TRUE
        /\ wpc = "starting"
        /\ task = NoTask
        /\ tpc = [t \in Threads |-> "idle"]
        /\ issued = [t \in Threads |-> 0]
        /\ ran = <<>>
        /\ resolved = {}
        /\ late = 0
        /\ torn = 0

----------------------------------------------------------------------------
(* Do(), on the thread that calls it. Stop() clears keep_processing and then *)
(* calls Do() with an empty task.                                            *)

Callable(t) == IF t = Stopper THEN tpc[t] = "stopping"
               ELSE tpc[t] = "idle" /\ issued[t] < MaxTasks
AfterDo(t) == IF t = Stopper \/ t \in Blocking THEN "waiting" ELSE "idle"
Current(t) == <<t, issued[t]>>

\* tasks_mutex is held while the deque changes. A size() read meanwhile may combine
\* old and new pointers, and return anything.
Held == wpc = "popping" \/ \E t \in Threads : tpc[t] = "pushing"

MayAdmitOneMore(t) == Len(queue) <= Limit
MayAdmit(t) == Len(queue) < Limit

Admit(t) == /\ Callable(t)
            /\ \/ MayAdmit(t) /\ torn' = torn
               \/ Held /\ torn < MaxTorn /\ torn' = torn + 1
            /\ tpc' = [tpc EXCEPT ![t] = "admitted"]
            /\ issued' = [issued EXCEPT ![t] = @ + 1]
            /\ UNCHANGED <<queue, keep, wpc, task, ran, resolved, late>>

\* WorkerThreadTooBusy: thrown to the caller, and swallowed by Stop().
Reject(t) == /\ Callable(t)
             /\ Len(queue) >= Limit \/ Held
             /\ tpc' = [tpc EXCEPT ![t] = IF t = Stopper THEN "waiting" ELSE "idle"]
             /\ issued' = [issued EXCEPT ![t] = @ + 1]
             /\ UNCHANGED <<queue, keep, wpc, task, ran, resolved, late, torn>>

LockForPush(t) == /\ tpc[t] = "admitted"
                  /\ ~Held
                  /\ tpc' = [tpc EXCEPT ![t] = "pushing"]
                  /\ UNCHANGED <<queue, keep, wpc, task, issued, ran, resolved, late, torn>>

PushAtTheFront(t) == /\ tpc[t] = "pushing"
                     /\ queue' = <<Current(t)>> \o queue
                     /\ tpc' = [tpc EXCEPT ![t] = "notifying"]
                     /\ UNCHANGED <<keep, wpc, task, issued, ran, resolved, late, torn>>
Push(t) == /\ tpc[t] = "pushing"
           /\ queue' = Append(queue, Current(t))
           /\ tpc' = [tpc EXCEPT ![t] = "notifying"]
           /\ UNCHANGED <<keep, wpc, task, issued, ran, resolved, late, torn>>

NotifyNobody(t) == /\ tpc[t] = "notifying"
                   /\ tpc' = [tpc EXCEPT ![t] = AfterDo(t)]
                   /\ UNCHANGED <<queue, keep, wpc, task, issued, ran, resolved, late, torn>>
\* notify_one() outside every lock: it is lost unless the worker already sleeps.
Notify(t) == /\ tpc[t] = "notifying"
             /\ tpc' = [tpc EXCEPT ![t] = AfterDo(t)]
             /\ wpc' = IF wpc = "asleep" THEN "testing" ELSE wpc
             /\ UNCHANGED <<queue, keep, task, issued, ran, resolved, late, torn>>

\* future.wait() returns: the caller may call Do() again.
WaitReturns(t) == /\ t \in Blocking
                  /\ tpc[t] = "waiting"
                  /\ Current(t) \in resolved
                  /\ tpc' = [tpc EXCEPT ![t] = "idle"]
                  /\ UNCHANGED <<queue, keep, wpc, task, issued, ran, resolved, late, torn>>

Stop == /\ tpc[Stopper] = "idle"
        /\ keep' = FALSE
        /\ tpc' = [tpc EXCEPT ![Stopper] = "stopping"]
        /\ UNCHANGED <<queue, wpc, task, issued, ran, resolved, late, torn>>

\* Stop().wait() returns: will_die is set.
Joined == /\ tpc[Stopper] = "waiting"
          /\ wpc = "dead"
          /\ tpc' = [tpc EXCEPT ![Stopper] = "joined"]
          /\ UNCHANGED <<queue, keep, wpc, task, issued, ran, resolved, late, torn>>

----------------------------------------------------------------------------
(* DoTasks(), on the worker's thread.                                        *)

WorkerSteps(from, to) == wpc = from /\ wpc' = to

\* will_start is set, then alive.
StartLoop == /\ WorkerSteps("starting", "looping")
             /\ UNCHANGED <<queue, keep, task, tpc, issued, ran, resolved, late, torn>>

CheckKeep == /\ IF keep THEN WorkerSteps("looping", "testing")
                        ELSE WorkerSteps("looping", "dying")
             /\ UNCHANGED <<queue, keep, task, tpc, issued, ran, resolved, late, torn>>

\* The wait's predicate, !tasks.empty(), read without tasks_mutex: it may already
\* see the task of a push that still holds the mutex.
SeeWork == /\ WorkerSteps("testing", "claiming")
           /\ queue # <<>> \/ \E t \in Threads : tpc[t] = "pushing"
           /\ UNCHANGED <<queue, keep, task, tpc, issued, ran, resolved, late, torn>>

SeeNone == /\ WorkerSteps("testing", "blocking")
           /\ queue = <<>>
           /\ UNCHANGED <<queue, keep, task, tpc, issued, ran, resolved, late, torn>>

\* Between the predicate and this step a notify_one() finds nobody to wake.
Block == /\ WorkerSteps("blocking", "asleep")
         /\ UNCHANGED <<queue, keep, task, tpc, issued, ran, resolved, late, torn>>

SpuriousWakeup == /\ WorkerSteps("asleep", "testing")
                  /\ UNCHANGED <<queue, keep, task, tpc, issued, ran, resolved, late, torn>>

LockForClaim == /\ WorkerSteps("claiming", "popping")
                /\ ~Held
                /\ UNCHANGED <<queue, keep, task, tpc, issued, ran, resolved, late, torn>>

Claim == /\ WorkerSteps("popping", "running")
         /\ queue # <<>>          \* NeverPopsEmpty: front() of an empty deque is undefined
         /\ task' = Head(queue)
         /\ queue' = Tail(queue)
         /\ ran' = Append(ran, Head(queue))
         /\ late' = IF keep THEN 0 ELSE late + 1
         /\ UNCHANGED <<keep, tpc, issued, resolved, torn>>

\* task(): returns or throws, and either way the packaged_task resolves its future.
Finish == /\ WorkerSteps("running", "looping")
          /\ resolved' = resolved \union {task}
          /\ UNCHANGED <<queue, keep, task, tpc, issued, ran, late, torn>>

\* alive is cleared, then will_die is set. The tasks still queued are never run.
Die == /\ WorkerSteps("dying", "dead")
       /\ UNCHANGED <<queue, keep, task, tpc, issued, ran, resolved, late, torn>>

DoTasks == \/ StartLoop \/ CheckKeep \/ SeeWork \/ SeeNone \/ Block
           \/ LockForClaim \/ Claim \/ Finish \/ Die

Call(t) == \/ Admit(t) \/ Reject(t)
Continue(t) == \/ LockForPush(t) \/ Push(t) \/ Notify(t) \/ WaitReturns(t)

Next == \/ \E t \in Threads : Call(t) \/ Continue(t)
        \/ Stop \/ Joined
        \/ DoTasks \/ SpuriousWakeup

Spec == Init /\ [][Next]_wvars

\* Threads that are inside the code keep running; nothing makes anyone call Do() or
\* Stop(), and nothing makes a spurious wakeup happen.
Fairness == /\ WF_wvars(DoTasks)
            /\ \A t \in Threads : WF_wvars(Continue(t))
            /\ WF_wvars(Call(Stopper))

FairSpec == Spec /\ Fairness

----------------------------------------------------------------------------
(* Properties.                                                               *)

TypeOK == /\ queue \in Seq(Task)
          /\ keep \in BOOLEAN
          /\ wpc \in {"starting", "looping", "testing", "blocking", "asleep", "claiming",
                      "popping", "running", "dying", "dead"}
          /\ task \in Task \union {NoTask}
          /\ tpc \in [Threads -> {"idle", "stopping", "admitted", "pushing", "notifying",
                                 "waiting", "joined"}]
          /\ issued \in [Threads -> 0..MaxTasks]
          /\ ran \in Seq(Task)
          /\ resolved \in SUBSET Task
          /\ late \in Nat
          /\ torn \in 0..MaxTorn

\* The worker pops without looking at the queue again: the task its predicate saw,
\* under another mutex than the queue's, is still there (front() of an empty deque
\* is undefined).
NeverPopsEmpty == wpc = "popping" => queue # <<>>

\* The limit is checked before the lock is taken, so every thread that calls Do()
\* may pass the check on the same queue. This is the bound the code does keep: one
\* task per other thread above the limit, and one more for each torn read of size().
Admitted == {t \in Threads : tpc[t] \in {"admitted", "pushing"}}
QueueBound == Len(queue) + Cardinality(Admitted) <= Limit + Cardinality(Producers) + torn

\* After Stop() at most one more task is started, the one the worker had already
\* passed the while condition for.
AtMostOneLate == late <= 1 /\ (late > 0 => ~keep)

\* The thread is a serial executor: accepted tasks run in order, each once, one at a
\* time, and each resolves only its own future.
Executor == INSTANCE TaskQueue WITH accepted <- ran \o queue, open <- keep
IsExecutor == Executor!Spec

\* A task stranded by a lost notification is picked up by the next Do(): once some
\* thread is about to notify a sleeping worker, every queued task runs, unless
\* the worker is stopped first.
NextDoRescues ==
    \A t \in Task :
        (/\ wpc = "asleep"
         /\ \E i \in 1..Len(queue) : queue[i] = t
         /\ \E p \in Threads : tpc[p] = "notifying")
            ~> (t \in resolved \/ wpc = "dead")

\* Stop()'s empty task wakes the worker up if it is waiting (src/vqro/base/worker.h:51),
\* so that Stop().wait() returns. It need not: its notification can be lost like any
\* other's. Stated for who wants to see that; no run checks it.
StopIsNoticed == ~keep ~> wpc = "dead"
=============================================================================

--------------------------- MODULE WorkerProofs ---------------------------
(* Theorems about Worker: its type invariant, that it never pops an empty    *)
(* queue, the bound of its queue, that at most one task starts after Stop(), *)
(* and that it implements TaskQueue.                                         *)
EXTENDS Worker, FiniteSetTheorems, SequenceTheorems, TLAPS

\* A thread inside Do() has counted its call, and Stop() calls Do() once.
CallsCounted ==
    /\ \A t \in Threads : tpc[t] \in {"admitted", "pushing", "notifying"} => issued[t] \in 1..MaxTasks
    /\ tpc[Stopper] \in {"idle", "stopping"} => issued[Stopper] = 0

\* What the predicate saw is in the queue, or about to be: the thread that holds the
\* mutex to push it has not finished.
ClaimIsBacked ==
    /\ wpc = "claiming" => queue # <<>> \/ \E t \in Threads : tpc[t] = "pushing"
    /\ NeverPopsEmpty

\* keep_processing is never set again, and after a late task comes the while condition.
LateIsLast == /\ keep => late = 0
              /\ late \in {0, 1}
              /\ late = 1 => wpc \in {"running", "looping", "dying", "dead"}

\* The last task claimed is the one running, or its future is resolved.
LastRan == /\ wpc = "running" => ran # <<>> /\ task = ran[Len(ran)]
           /\ wpc # "running" /\ ran # <<>> => ran[Len(ran)] \in resolved

IInv == TypeOK /\ CallsCounted /\ ClaimIsBacked /\ LateIsLast /\ LastRan

----------------------------------------------------------------------------
LEMMA InitIInv == Init => IInv
  BY BoundsAssumption, ThreadsAssumption DEF Init, IInv, TypeOK, CallsCounted, ClaimIsBacked,
     NeverPopsEmpty, LateIsLast, LastRan, Threads, Task

LEMMA NextIInv == IInv /\ [Next]_wvars => IInv'
<1> SUFFICES ASSUME IInv, [Next]_wvars PROVE IInv'
  OBVIOUS
<1> USE ThreadsAssumption, BoundsAssumption
    DEF IInv, TypeOK, CallsCounted, ClaimIsBacked, NeverPopsEmpty, LateIsLast, LastRan
<1>1. ASSUME NEW t \in Threads, Admit(t) PROVE IInv'
  BY <1>1 DEF Admit, Callable, MayAdmit, Held, Threads
<1>2. ASSUME NEW t \in Threads, Reject(t) PROVE IInv'
  BY <1>2 DEF Reject, Callable, Held, Threads
<1>3. ASSUME NEW t \in Threads, LockForPush(t) PROVE IInv'
  BY <1>3 DEF LockForPush, Held, Threads
<1>4. ASSUME NEW t \in Threads, Push(t) PROVE IInv'
  <2>1. Current(t) \in Task
    BY <1>4 DEF Push, Current, Task
  <2>2. queue' \in Seq(Task) /\ queue' # <<>>
    BY <1>4, <2>1, AppendProperties DEF Push
  <2>3. TypeOK'
    BY <1>4, <2>2 DEF Push, Threads
  <2>4. CallsCounted'
    BY <1>4 DEF Push, Threads
  <2>5. ClaimIsBacked' /\ LateIsLast' /\ LastRan'
    BY <1>4, <2>2 DEF Push
  <2> QED
    BY <2>3, <2>4, <2>5
<1>5. ASSUME NEW t \in Threads, Notify(t) PROVE IInv'
  BY <1>5 DEF Notify, AfterDo, Threads
<1>6. ASSUME NEW t \in Threads, WaitReturns(t) PROVE IInv'
  BY <1>6 DEF WaitReturns, Threads
<1>7. CASE Stop
  BY <1>7 DEF Stop, Threads
<1>8. CASE Joined
  BY <1>8 DEF Joined, Threads
<1>9. CASE DoTasks
  <2>1. CASE StartLoop \/ CheckKeep
    BY <2>1 DEF StartLoop, CheckKeep, WorkerSteps
  <2>2. CASE SeeWork \/ SeeNone \/ Block
    BY <2>2 DEF SeeWork, SeeNone, Block, WorkerSteps
  <2>3. CASE LockForClaim
    BY <2>3 DEF LockForClaim, Held, WorkerSteps
  <2>4. CASE Claim
    BY <2>4 DEF Claim, WorkerSteps
  <2>5. CASE Finish
    BY <2>5 DEF Finish, WorkerSteps
  <2>6. CASE Die
    BY <2>6 DEF Die, WorkerSteps
  <2> QED
    BY <1>9, <2>1, <2>2, <2>3, <2>4, <2>5, <2>6 DEF DoTasks
<1>10. CASE SpuriousWakeup
  BY <1>10 DEF SpuriousWakeup, WorkerSteps
<1>11. CASE UNCHANGED wvars
  BY <1>11 DEF wvars
<1> QED
  BY <1>1, <1>2, <1>3, <1>4, <1>5, <1>6, <1>7, <1>8, <1>9, <1>10, <1>11
  DEF Next, Call, Continue

LEMMA IInvHolds == Spec => []IInv
  BY InitIInv, NextIInv, PTL DEF Spec

\* Every variable keeps its type: in particular only tasks some thread handed over are
\* queued, run and resolved.
THEOREM TypeCorrect == Spec => []TypeOK
<1>1. IInv => TypeOK
  BY DEF IInv
<1> QED
  BY <1>1, IInvHolds, PTL

\* DoTasks() never calls front() on an empty queue, although it looks at the queue under
\* a mutex its producers do not take.
THEOREM PopsWork == Spec => []NeverPopsEmpty
<1>1. IInv => NeverPopsEmpty
  BY DEF IInv, ClaimIsBacked
<1> QED
  BY <1>1, IInvHolds, PTL

\* After Stop() at most one more task is started.
THEOREM StopsSoon == Spec => []AtMostOneLate
<1>1. IInv => AtMostOneLate
  BY DEF IInv, LateIsLast, AtMostOneLate
<1> QED
  BY <1>1, IInvHolds, PTL

----------------------------------------------------------------------------
(* The bound of the queue.                                                   *)

LEMMA ThreadsCount == /\ IsFiniteSet(Threads)
                      /\ Cardinality(Threads) = Cardinality(Producers) + 1
                      /\ Cardinality(Producers) \in Nat
  BY ThreadsAssumption, FS_AddElement, FS_CardinalityType DEF Threads

LEMMA AdmittedCount == /\ IsFiniteSet(Admitted)
                       /\ Cardinality(Admitted) \in Nat
                       /\ Cardinality(Admitted) <= Cardinality(Producers) + 1
<1>1. Admitted \in SUBSET Threads
  BY DEF Admitted
<1> QED
  BY <1>1, ThreadsCount, FS_Subset, FS_CardinalityType

LEMMA AdmittedCountNext == /\ IsFiniteSet(Admitted')
                           /\ Cardinality(Admitted') \in Nat
                           /\ Cardinality(Admitted') <= Cardinality(Producers) + 1
<1>1. Admitted' \in SUBSET Threads
  BY DEF Admitted
<1> QED
  BY <1>1, ThreadsCount, FS_Subset, FS_CardinalityType

\* A step that admits nobody and queues nothing keeps the bound.
LEMMA BoundKept == ASSUME IInv, IInv', QueueBound, torn' = torn,
                          Len(queue') <= Len(queue), Admitted' = Admitted
                   PROVE  QueueBound'
  BY AdmittedCount, ThreadsCount, BoundsAssumption DEF QueueBound, IInv, TypeOK

LEMMA NextQueueBound == IInv /\ IInv' /\ QueueBound /\ [Next]_wvars => QueueBound'
<1> SUFFICES ASSUME IInv, IInv', QueueBound, [Next]_wvars PROVE QueueBound'
  OBVIOUS
<1> USE BoundsAssumption
<1>0. /\ tpc \in [Threads -> {"idle", "stopping", "admitted", "pushing", "notifying",
                             "waiting", "joined"}]
      /\ queue \in Seq(Task) /\ torn \in Nat
  BY DEF IInv, TypeOK
<1>1. ASSUME NEW t \in Threads, Admit(t) PROVE QueueBound'
  <2>1. t \notin Admitted /\ Admitted' = Admitted \union {t}
    BY <1>0, <1>1 DEF Admit, Callable, Admitted
  <2>2. Cardinality(Admitted') = Cardinality(Admitted) + 1
    BY <2>1, AdmittedCount, FS_AddElement
  <2>3. CASE MayAdmit(t) /\ torn' = torn
    BY <1>0, <1>1, <2>3, AdmittedCountNext, ThreadsCount DEF QueueBound, Admit, MayAdmit
  <2>4. CASE torn' = torn + 1
    BY <1>0, <1>1, <2>2, <2>4, AdmittedCount, ThreadsCount DEF QueueBound, Admit
  <2> QED
    BY <1>1, <2>3, <2>4 DEF Admit
<1>2. ASSUME NEW t \in Threads, Push(t) PROVE QueueBound'
  <2>1. t \in Admitted /\ Admitted' = Admitted \ {t}
    BY <1>0, <1>2 DEF Push, Admitted
  <2>2. Cardinality(Admitted') = Cardinality(Admitted) - 1
    BY <2>1, AdmittedCount, FS_RemoveElement
  <2>3. Len(queue') = Len(queue) + 1
    BY <1>0, <1>2 DEF Push
  <2> QED
    BY <1>0, <1>2, <2>2, <2>3, AdmittedCount, ThreadsCount DEF QueueBound, Push
<1>3. ASSUME NEW t \in Threads, Reject(t) \/ LockForPush(t) \/ Notify(t) \/ WaitReturns(t)
      PROVE  QueueBound'
  <2>1. Admitted' = Admitted
    BY <1>0, <1>3 DEF Reject, LockForPush, Notify, WaitReturns, Callable, AfterDo, Admitted
  <2>2. queue' = queue /\ torn' = torn
    BY <1>3 DEF Reject, LockForPush, Notify, WaitReturns
  <2> QED
    BY <1>0, <2>1, <2>2, BoundKept
<1>4. CASE Stop \/ Joined
  <2>1. Admitted' = Admitted
    BY <1>0, <1>4 DEF Stop, Joined, Admitted
  <2>2. queue' = queue /\ torn' = torn
    BY <1>4 DEF Stop, Joined
  <2> QED
    BY <1>0, <2>1, <2>2, BoundKept
<1>5. CASE DoTasks \/ SpuriousWakeup \/ UNCHANGED wvars
  <2>1. tpc' = tpc /\ torn' = torn
    BY <1>5 DEF DoTasks, StartLoop, CheckKeep, SeeWork, SeeNone, Block, LockForClaim, Claim,
       Finish, Die, SpuriousWakeup, wvars
  <2>2. Admitted' = Admitted
    BY <2>1 DEF Admitted
  <2>3. Len(queue') <= Len(queue)
    <3>1. CASE Claim
      BY <1>0, <3>1, HeadTailProperties DEF Claim
    <3>2. CASE ~Claim
      BY <1>0, <1>5, <3>2 DEF DoTasks, StartLoop, CheckKeep, SeeWork, SeeNone, Block,
         LockForClaim, Finish, Die, SpuriousWakeup, wvars
    <3> QED
      BY <3>1, <3>2
  <2> QED
    BY <2>1, <2>2, <2>3, BoundKept
<1> QED
  BY <1>1, <1>2, <1>3, <1>4, <1>5 DEF Next, Call, Continue

\* However many threads call Do(), the queue holds at most the limit, one task more for
\* each other thread, and one for each torn read of its size.
THEOREM QueueIsBounded == Spec => []QueueBound
<1>1. Init => QueueBound
  <2> SUFFICES ASSUME Init PROVE QueueBound
    OBVIOUS
  <2>1. Admitted = {}
    BY DEF Init, Admitted
  <2> QED
    BY <2>1, ThreadsCount, BoundsAssumption, FS_EmptySet DEF Init, QueueBound
<1> QED
  BY <1>1, NextQueueBound, IInvHolds, PTL DEF Spec

----------------------------------------------------------------------------
(* The worker implements TaskQueue.                                          *)

LEMMA PushAccepts == ASSUME NEW S, NEW r \in Seq(S), NEW q \in Seq(S), NEW e \in S
                     PROVE  r \o Append(q, e) = Append(r \o q, e)
<1>1. Append(q, e) \in Seq(S) /\ r \o q \in Seq(S)
  BY AppendProperties, ConcatProperties
<1>2. r \o Append(q, e) \in Seq(S) /\ Append(r \o q, e) \in Seq(S)
  BY <1>1, AppendProperties, ConcatProperties
<1>3. Len(r \o Append(q, e)) = Len(Append(r \o q, e))
  BY <1>1, AppendProperties, ConcatProperties
<1>4. ASSUME NEW i \in 1..Len(r \o Append(q, e))
      PROVE  (r \o Append(q, e))[i] = Append(r \o q, e)[i]
  BY <1>1, AppendProperties, ConcatProperties
<1> QED
  BY <1>2, <1>3, <1>4, SeqEqual

LEMMA ClaimKeepsOrder == ASSUME NEW S, NEW r \in Seq(S), NEW q \in Seq(S), q # <<>>
                         PROVE  /\ Append(r, Head(q)) \o Tail(q) = r \o q
                                /\ (r \o q)[Len(r) + 1] = Head(q)
                                /\ Len(r) < Len(r \o q)
<1>1. Head(q) \in S /\ Tail(q) \in Seq(S) /\ Len(q) > 0
  BY HeadTailProperties
<1>2. /\ Append(r, Head(q)) \in Seq(S) /\ r \o q \in Seq(S)
      /\ Append(r, Head(q)) \o Tail(q) \in Seq(S)
  BY <1>1, AppendProperties, ConcatProperties
<1>3. Len(Append(r, Head(q)) \o Tail(q)) = Len(r \o q)
  BY <1>1, <1>2, AppendProperties, ConcatProperties, HeadTailProperties
<1>4. ASSUME NEW i \in 1..Len(r \o q)
      PROVE  (Append(r, Head(q)) \o Tail(q))[i] = (r \o q)[i]
  BY <1>1, <1>2, <1>3, AppendProperties, ConcatProperties, HeadTailProperties
<1>5. Append(r, Head(q)) \o Tail(q) = r \o q
  BY <1>2, <1>3, <1>4, SeqEqual
<1> QED
  BY <1>1, <1>5, ConcatProperties

LEMMA StepImplements == IInv /\ [Next]_wvars => [Executor!Next]_(Executor!vars)
<1> SUFFICES ASSUME IInv, [Next]_wvars
             PROVE  Executor!Next \/ UNCHANGED Executor!vars
  OBVIOUS
<1>0. queue \in Seq(Task) /\ ran \in Seq(Task)
  BY DEF IInv, TypeOK
<1>1. ASSUME NEW t \in Threads, Push(t) PROVE Executor!Next
  <2>1. Current(t) \in Task
    BY <1>1 DEF IInv, TypeOK, CallsCounted, Push, Current, Task
  <2>2. ran' \o queue' = Append(ran \o queue, Current(t))
    BY <1>0, <1>1, <2>1, PushAccepts DEF Push
  <2>3. Executor!Accept(Current(t))
    BY <1>1, <2>2 DEF Executor!Accept, Push
  <2> QED
    BY <2>1, <2>3 DEF Executor!Next
<1>2. CASE Claim
  <2>1. /\ ran' \o queue' = ran \o queue
        /\ ran' = Append(ran, (ran \o queue)[Len(ran) + 1])
        /\ Len(ran) < Len(ran \o queue)
    BY <1>0, <1>2, ClaimKeepsOrder DEF Claim
  <2>2. Len(ran) > 0 => ran[Len(ran)] \in resolved
    BY <1>0, <1>2 DEF IInv, LastRan, Claim, WorkerSteps
  <2>3. /\ keep \/ late = 0
        /\ late' = IF keep THEN 0 ELSE 1
    BY <1>2 DEF IInv, TypeOK, LateIsLast, Claim, WorkerSteps
  <2>4. Executor!Begin
    BY <1>2, <2>1, <2>2, <2>3 DEF Executor!Begin, Claim
  <2> QED
    BY <2>4 DEF Executor!Next
<1>3. CASE Finish
  <2>1. Len(ran) > 0 /\ task = ran[Len(ran)]
    BY <1>0, <1>3 DEF IInv, LastRan, Finish, WorkerSteps
  <2>2. Executor!Resolve
    BY <1>3, <2>1 DEF Executor!Resolve, Finish
  <2> QED
    BY <2>2 DEF Executor!Next
<1>4. CASE Stop
  <2>1. CASE keep
    BY <1>4, <2>1 DEF Stop, Executor!Next, Executor!Close
  <2>2. CASE ~keep
    BY <1>4, <2>2 DEF Stop, Executor!vars, IInv, TypeOK
  <2> QED
    BY <2>1, <2>2
<1>5. ASSUME NEW t \in Threads,
             Admit(t) \/ Reject(t) \/ LockForPush(t) \/ Notify(t) \/ WaitReturns(t)
      PROVE  UNCHANGED Executor!vars
  BY <1>5 DEF Admit, Reject, LockForPush, Notify, WaitReturns, Executor!vars
<1>6. CASE Joined \/ SpuriousWakeup \/ UNCHANGED wvars
  BY <1>6 DEF Joined, SpuriousWakeup, wvars, Executor!vars
<1>7. CASE DoTasks /\ ~Claim /\ ~Finish
  BY <1>7 DEF DoTasks, StartLoop, CheckKeep, SeeWork, SeeNone, Block, LockForClaim, Die,
     Executor!vars
<1> QED
  BY <1>1, <1>2, <1>3, <1>4, <1>5, <1>6, <1>7 DEF Next, Call, Continue, DoTasks

\* A WorkerThread is a serial executor: it runs the tasks it accepted in order, each
\* once and one at a time, and starts at most one after Stop().
THEOREM WorkerIsExecutor == Spec => IsExecutor
<1>1. Init => Executor!Init
  BY DEF Init, Executor!Init
<1> QED
  BY <1>1, StepImplements, IInvHolds, PTL DEF Spec, IsExecutor, Executor!Spec
=============================================================================

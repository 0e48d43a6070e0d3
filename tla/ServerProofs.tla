---------------------------- MODULE ServerProofs ----------------------------
(* For any number of handlers, series and workers: no handler is inside the  *)
(* database when it is destroyed, and Shutdown is idempotent. Both rest on   *)
(* what main_server, the state of the grpc server and the place of the main  *)
(* thread say about each other.                                              *)
EXTENDS Server, FiniteSetTheorems, SequenceTheorems, TLAPS

Idle == \A h \in Handler : rpc[h] = "none"

\* The main thread and the server it has built.
Stages == /\ main \in {"starting", "building"} => server = "none" /\ ~main_server
          /\ main = "built" => server = "open" /\ ~main_server
          /\ main = "waiting" => server \in {"open", "closing", "closed"}
          /\ main \in {"destroying", "destroyed", "hung"} => server = "destroyed"

\* The signal thread and the pointer.
Pointer == /\ sig \in {"sigwait", "stopping"}
           /\ main_server \in BOOLEAN
           /\ sig = "stopping" => main_server /\ server \in {"closing", "closed", "destroyed"}
           /\ server = "closing" => sig = "stopping"
           /\ sig = "sigwait" /\ main_server => server = "open"

\* Where no handler is.
Empty == server \in {"none", "closed", "destroyed"} => Idle

Handlers == DOMAIN rpc = Handler

IInv == Stages /\ Pointer /\ Empty /\ Handlers

LEMMA InitInv == Init => IInv
BY DEF Init, IInv, Stages, Pointer, Empty, Handlers, Idle

\* The handlers change neither the stage nor the pointer, and only while the server is
\* open or closing does one come or stay.
LEMMA RpcKeeps == ASSUME IInv, NEW h \in Handler, Rpc(h) PROVE IInv'
<1> USE DEF IInv, Stages, Pointer, Handlers, process, rounds
<1>1. CASE Accept(h)
  BY <1>1 DEF Accept, Empty
<1>2. ASSUME NEW t \in Task, Do(h, t) PROVE IInv'
  BY <1>2 DEF Do, Empty, Idle
<1>3. CASE TooBusy(h)
  BY <1>3 DEF TooBusy, Empty, Idle, data
<1>4. CASE Done(h)
  BY <1>4 DEF Done, Empty, Idle
<1>5. CASE Return(h)
  BY <1>5 DEF Return, Empty, Idle
<1> QED BY <1>1, <1>2, <1>3, <1>4, <1>5 DEF Rpc

LEMMA MainKeeps == ASSUME IInv, Main \/ StopIsMissed PROVE IInv'
<1> USE DEF IInv, Stages, Pointer, Handlers, Empty, Idle, data
<1>1. CASE Construct BY <1>1 DEF Construct
<1>2. CASE ConstructFails BY <1>2 DEF ConstructFails
<1>3. CASE BuildAndStart BY <1>3 DEF BuildAndStart
<1>4. CASE BuildFails BY <1>4 DEF BuildFails
<1>5. CASE SetMainServer BY <1>5 DEF SetMainServer
<1>6. CASE WaitReturns BY <1>6 DEF WaitReturns
<1>7. CASE StopWorker BY <1>7 DEF StopWorker
<1>8. CASE StopIsMissed BY <1>8 DEF StopIsMissed
<1>9. CASE Destroy BY <1>9 DEF Destroy
<1>10. CASE Exit BY <1>10 DEF Exit
<1> QED BY <1>1, <1>2, <1>3, <1>4, <1>5, <1>6, <1>7, <1>8, <1>9, <1>10 DEF Main

LEMMA SignalsKeep == ASSUME IInv, Signals \/ Kill PROVE IInv'
<1> USE DEF IInv, Stages, Pointer, Handlers, Empty, Idle, data
<1>1. CASE Catch BY <1>1 DEF Catch, Ended
<1>2. CASE Drained BY <1>2 DEF Drained, Ended
<1>3. CASE ShutdownReturns BY <1>3 DEF ShutdownReturns, Ended
<1>4. CASE Kill BY <1>4 DEF Kill
<1> QED BY <1>1, <1>2, <1>3, <1>4 DEF Signals

LEMMA FlusherKeeps == ASSUME IInv, Flusher \/ UseAfterFree PROVE IInv'
<1> USE DEF IInv, Stages, Pointer, Handlers, Empty, Idle, data, process
<1>1. CASE Gather BY <1>1 DEF Gather
<1>2. CASE SkipEmpty BY <1>2 DEF SkipEmpty
<1>3. CASE FlushOne BY <1>3 DEF FlushOne
<1>4. CASE RoundEnds BY <1>4 DEF RoundEnds
<1>5. CASE Wakes BY <1>5 DEF Wakes
<1>6. CASE UseAfterFree BY <1>6 DEF UseAfterFree
<1> QED BY <1>1, <1>2, <1>3, <1>4, <1>5, <1>6 DEF Flusher

LEMMA StepInv == IInv /\ [Next]_vars => IInv'
<1> SUFFICES ASSUME IInv, [Next]_vars PROVE IInv' OBVIOUS
<1>1. CASE UNCHANGED vars
  BY <1>1 DEF vars, process, data, IInv, Stages, Pointer, Handlers, Empty, Idle
<1>2. CASE Next
  BY <1>2, RpcKeeps, MainKeeps, SignalsKeep, FlusherKeeps DEF Next
<1> QED BY <1>1, <1>2

LEMMA Invariance == Spec => []IInv
BY InitInv, StepInv, PTL DEF Spec

\* Whenever RunServer destroys the database no handler is in it: Wait returns only after
\* the signal thread's Shutdown has waited for all (src/vqro_server.cc:95).
THEOREM DestroyedWhenEmpty == Spec => []NobodyInside
<1>1. IInv => NobodyInside
  BY DEF IInv, Stages, Empty, Idle, NobodyInside
<1> QED BY <1>1, Invariance, PTL

\* Shutdown is idempotent, and never called of a server that is gone
\* (src/vqro_server.cc:41-48).
THEOREM ShutdownIsIdempotent == Spec => ShutdownOnce
<1>1. IInv /\ [Next]_vars => [sig = "sigwait" /\ sig' = "stopping" => server = "open"]_vars
  <2> SUFFICES ASSUME IInv, Next, sig = "sigwait", sig' = "stopping" PROVE server = "open"
    OBVIOUS
  <2>1. CASE Main \/ StopIsMissed
    BY <2>1 DEF Main, Construct, ConstructFails, BuildAndStart, BuildFails, SetMainServer,
                WaitReturns, StopWorker, StopIsMissed, Destroy, Exit
  <2>2. CASE Kill \/ Drained \/ ShutdownReturns
    BY <2>2 DEF Kill, Drained, ShutdownReturns
  <2>3. CASE Catch
    BY <2>3 DEF Catch, IInv, Pointer
  <2>4. CASE \E h \in Handler : Rpc(h)
    BY <2>4 DEF Rpc, Accept, Do, TooBusy, Done, Return, process
  <2>5. CASE Flusher \/ UseAfterFree
    BY <2>5 DEF Flusher, Gather, SkipEmpty, FlushOne, RoundEnds, Wakes, UseAfterFree, process
  <2> QED BY <2>1, <2>2, <2>3, <2>4, <2>5 DEF Next, Signals
<1> QED BY <1>1, Invariance, PTL DEF Spec, ShutdownOnce

----------------------------------------------------------------------------
(* The types, and with them that a round looks at each series once at most.  *)

Types == TypeOK /\ flushed \in Nat /\ DOMAIN task = Handler

LEMMA InitTypes == Init => Types
<1> SUFFICES ASSUME Init PROVE Types
  OBVIOUS
<1>1. Cardinality(Series) \in Nat
  BY SetsAssumption, FS_CardinalityType
<1>2. all_series \in Seq(series_by_key) /\ flushed + Len(all_series) <= Cardinality(Series)
  BY <1>1 DEF Init
<1>3. stopped \in 0..Workers /\ buffered \in [Series -> 0..MaxBuffered]
  BY NumbersAssumption DEF Init
<1> QED
  BY <1>2, <1>3 DEF Init, Types, TypeOK

\* The series in an order, as the flusher takes them.
LEMMA OrderIs ==
    ASSUME series_by_key \subseteq Series, NEW ss \in Orders
    PROVE  ss \in Seq(series_by_key) /\ Len(ss) <= Cardinality(Series)
<1>1. IsFiniteSet(series_by_key) /\ Cardinality(series_by_key) \in Nat
      /\ Cardinality(series_by_key) <= Cardinality(Series) /\ Cardinality(Series) \in Nat
  BY SetsAssumption, FS_Subset, FS_CardinalityType
<1>2. ss \in [1..Cardinality(series_by_key) -> series_by_key]
  BY DEF Orders, SetToSeqs
<1> QED
  BY <1>1, <1>2

LEMMA RpcTypes == ASSUME Types, NEW h \in Handler, Rpc(h) PROVE Types'
<1> USE DEF Types, TypeOK, process, rounds
<1>1. CASE Accept(h)
  BY <1>1 DEF Accept
<1>2. ASSUME NEW t \in Task, Do(h, t) PROVE Types'
  <2>1. t.series \in Series /\ t.points \in {0, 1}
    BY DEF Task
  <2>2. series_by_key' = series_by_key \union {t.series} /\ all_series' = all_series
    BY <1>2 DEF Do
  <2>3. all_series' \in Seq(series_by_key')
    <3>1. \A i \in 1..Len(all_series) : all_series[i] \in series_by_key'
      BY <2>2
    <3> QED
      BY <2>2, <3>1
  <2>4. \A g \in Handler : rpc'[g] = "queued" => task'[g] \in Task /\ task'[g].series \in series_by_key'
    BY <1>2, <2>2 DEF Do
  <2> QED
    BY <1>2, <2>1, <2>3, <2>4 DEF Do
<1>3. CASE TooBusy(h)
  BY <1>3 DEF TooBusy, data
<1>4. CASE Done(h)
  <2>1. task[h].series \in Series /\ task[h].points \in {0, 1}
    BY <1>4 DEF Done, Task
  <2>2. buffered' \in [Series -> 0..MaxBuffered]
    <3> DEFINE s == task[h].series
               n == buffered[s] + task[h].points
    <3>1. n \in 0..MaxBuffered
      BY <1>4, <2>1, NumbersAssumption DEF Done
    <3>2. buffered' = [buffered EXCEPT ![s] = n]
      BY <1>4 DEF Done
    <3> HIDE DEF n
    <3> QED
      BY <3>1, <3>2
  <2>3. \A g \in Handler : rpc'[g] = "queued" => task'[g] \in Task /\ task'[g].series \in series_by_key'
    BY <1>4 DEF Done
  <2> QED
    BY <1>4, <2>2, <2>3 DEF Done
<1>5. CASE Return(h)
  BY <1>5 DEF Return
<1> QED BY <1>1, <1>2, <1>3, <1>4, <1>5 DEF Rpc

LEMMA MainTypes == ASSUME Types, Main \/ StopIsMissed PROVE Types'
<1> USE DEF Types, TypeOK, data, rounds
<1>1. CASE Construct BY <1>1 DEF Construct
<1>2. CASE ConstructFails BY <1>2 DEF ConstructFails
<1>3. CASE BuildAndStart BY <1>3 DEF BuildAndStart
<1>4. CASE BuildFails BY <1>4 DEF BuildFails
<1>5. CASE SetMainServer BY <1>5 DEF SetMainServer
<1>6. CASE WaitReturns BY <1>6 DEF WaitReturns
<1>7. CASE StopWorker BY <1>7, NumbersAssumption DEF StopWorker
<1>8. CASE StopIsMissed BY <1>8 DEF StopIsMissed
<1>9. CASE Destroy BY <1>9 DEF Destroy
<1>10. CASE Exit BY <1>10 DEF Exit
<1> QED BY <1>1, <1>2, <1>3, <1>4, <1>5, <1>6, <1>7, <1>8, <1>9, <1>10 DEF Main

LEMMA SignalsTypes == ASSUME Types, Signals \/ Kill PROVE Types'
<1> USE DEF Types, TypeOK, data, rounds
<1>1. CASE Catch BY <1>1 DEF Catch
<1>2. CASE Drained BY <1>2 DEF Drained
<1>3. CASE ShutdownReturns BY <1>3, ZenonT(30) DEF ShutdownReturns
<1>4. CASE Kill BY <1>4 DEF Kill
<1> QED BY <1>1, <1>2, <1>3, <1>4 DEF Signals

LEMMA FlusherTypes == ASSUME Types, Flusher \/ UseAfterFree PROVE Types'
<1> USE DEF Types, TypeOK, data, process, rounds
<1>0. Cardinality(Series) \in Nat
  BY SetsAssumption, FS_CardinalityType
<1>1. CASE Gather
  <2>1. all_series' \in Seq(series_by_key) /\ Len(all_series') <= Cardinality(Series)
    BY <1>1, OrderIs DEF Gather
  <2>2. flushed' = 0 /\ UNCHANGED series_by_key
    BY <1>1 DEF Gather
  <2>3. flushed' + Len(all_series') <= Cardinality(Series)
    BY <1>0, <2>1, <2>2
  <2> QED
    BY <1>1, <2>1, <2>2, <2>3 DEF Gather
<1>2. CASE SkipEmpty
  <2>1. all_series' = Tail(all_series) /\ all_series # <<>> /\ UNCHANGED <<flushed, series_by_key>>
    BY <1>2 DEF SkipEmpty
  <2>2. all_series' \in Seq(series_by_key) /\ Len(all_series') = Len(all_series) - 1 /\ Len(all_series) \in Nat
    BY <2>1, HeadTailProperties
  <2>3. flushed' + Len(all_series') <= Cardinality(Series)
    BY <1>0, <2>1, <2>2
  <2> QED
    BY <1>2, <2>1, <2>2, <2>3 DEF SkipEmpty
<1>3. CASE FlushOne
  <2>1. /\ all_series # <<>> /\ flushed' = flushed + 1 /\ UNCHANGED series_by_key
        /\ all_series' \in {Tail(all_series), <<>>}
        /\ buffered' = [buffered EXCEPT ![Head(all_series)] = 0]
    BY <1>3 DEF FlushOne
  <2>2. /\ Tail(all_series) \in Seq(series_by_key) /\ Len(Tail(all_series)) = Len(all_series) - 1
        /\ Len(all_series) \in Nat \ {0} /\ Head(all_series) \in series_by_key
    BY <2>1, HeadTailProperties, EmptySeq
  <2>3. /\ all_series' \in Seq(series_by_key)
        /\ Len(all_series') <= Len(all_series) - 1 /\ Len(all_series') \in Nat
    <3>1. CASE all_series' = Tail(all_series)
      BY <2>2, <3>1
    <3>2. CASE all_series' = <<>>
      <4>1. all_series' \in Seq(series_by_key) /\ Len(all_series') = 0
        BY <3>2
      <4> QED
        BY <2>2, <4>1
    <3> QED
      BY <2>1, <3>1, <3>2
  <2>4. flushed' + Len(all_series') <= Cardinality(Series)
    BY <1>0, <2>1, <2>2, <2>3
  <2>5. buffered' \in [Series -> 0..MaxBuffered]
    BY <2>1, <2>2, NumbersAssumption
  <2>6. /\ UNCHANGED <<main, stopped, main_server, server, term, sig, rpc, task, series_by_key>>
        /\ flusher' \in {flusher, "gathering"} /\ cut' \in {cut, TRUE}
    BY <1>3 DEF FlushOne
  <2>7. /\ flushed' \in Nat
        /\ flusher' \in {"none", "gathering", "flushing", "sleeping"} /\ cut' \in BOOLEAN
    <3>1. flushed' \in Nat
      BY <2>1
    <3>2. flusher' \in {"none", "gathering", "flushing", "sleeping"}
      BY <2>6
    <3>3. cut' \in BOOLEAN
      <4>1. cut \in BOOLEAN /\ cut' \in {cut, TRUE}
        BY <2>6
      <4> QED
        BY <4>1, Zenon
    <3> QED
      BY <3>1, <3>2, <3>3
  <2>8. /\ (\A h \in Handler : rpc[h] = "queued" => task[h] \in Task /\ task[h].series \in series_by_key)'
        /\ rpc' \in [Handler -> {"none", "handling", "queued"}] /\ DOMAIN task' = Handler
    BY <2>6
  <2>9. all_series' \in Seq(series_by_key')
    BY <2>3, <2>6
  <2> QED
    BY <2>4, <2>5, <2>6, <2>7, <2>8, <2>9
<1>4. CASE RoundEnds BY <1>4 DEF RoundEnds
<1>5. CASE Wakes BY <1>5 DEF Wakes
<1>6. CASE UseAfterFree BY <1>6 DEF UseAfterFree
<1> QED BY <1>1, <1>2, <1>3, <1>4, <1>5, <1>6 DEF Flusher

\* Among the types: a handler waits for a task of a series that is known, and a round of
\* the flusher comes to each series once at most (src/vqro/db/db.cc:59).
THEOREM TypesHold == Spec => []TypeOK
<1>1. Types /\ [Next]_vars => Types'
  <2> SUFFICES ASSUME Types, [Next]_vars PROVE Types'
    OBVIOUS
  <2>1. CASE UNCHANGED vars
    BY <2>1 DEF vars, process, data, rounds, Types, TypeOK
  <2>2. CASE Next
    BY <2>2, RpcTypes, MainTypes, SignalsTypes, FlusherTypes DEF Next
  <2> QED BY <2>1, <2>2
<1>2. Types => TypeOK
  BY DEF Types
<1> QED BY InitTypes, <1>1, <1>2, PTL DEF Spec
=============================================================================

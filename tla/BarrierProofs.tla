---------------------------- MODULE BarrierProofs ----------------------------
(***************************************************************************)
(* The tick barrier, for any number of workers and ticks: the count that   *)
(* the scheduler waits on is exact, no worker runs a tick twice or skips   *)
(* one, the scheduler's phases have the processes to themselves, and the   *)
(* threads implement Lockstep.                                             *)
(***************************************************************************)
EXTENDS TickBarrier, FiniteSetTheorems, TLAPS

(* A worker is never ahead of the clock nor more than one tick behind, and  *)
(* what it is about to run, or has just run, is the tick of the clock.      *)
Keeps(w) ==
  /\ cycles[w] = last[w]
  /\ cpuCycles <= last[w] + 1 /\ last[w] <= master[w] /\ master[w] <= cpuCycles
  /\ worker[w] = "cycle" => last[w] < master[w]
  /\ worker[w] = "notify" => last[w] = cpuCycles

(* Who has been signalled, by how far the scheduler thread is.              *)
Signalled(w) ==
  /\ loop = "reset" => master[w] < cpuCycles
  /\ loop = "signal" => (w < at.loop => master[w] = cpuCycles)
                        /\ (w >= at.loop => master[w] < cpuCycles)
  /\ loop \in {"lock", "wait"} => master[w] = cpuCycles

Complete(w) == last[w] = cpuCycles /\ worker[w] # "notify"

Completed == {w \in Workers : Complete(w)}

Settled == \A w \in Workers : Complete(w)

Exact == workersCompleted = Cardinality(Completed)

(* Start finds no scheduler thread, and every loop begins with worker 0.    *)
Calls ==
  /\ control = "idle" /\ ~running => loop = "none"
  /\ control \in {"joinScheduler", "stopWorker", "joinWorker"} => ~running
  /\ control \in {"stopWorker", "joinWorker"} => loop = "none"
  /\ control = "show" => running
  /\ loop \notin {"signal", "dispatch"} => at.loop = 0

Ticks == \A w \in Workers : Keeps(w) /\ Signalled(w)

Phases == running /\ loop \in {"serve", "dispatch", "test"} => Settled

(* What the count is short of, or stale with respect to, nobody can add to. *)
Count ==
  /\ loop \in {"signal", "lock", "wait"} => Exact
  /\ loop # "reset" => Exact \/ Settled

BarrierInv == TypeOK /\ Calls /\ Ticks /\ Phases /\ Count

-----------------------------------------------------------------------------
LEMMA WorkersFinite ==
  /\ IsFiniteSet(Workers) /\ Cardinality(Workers) = NumCpu
  /\ Completed \subseteq Workers
  /\ IsFiniteSet(Completed) /\ Cardinality(Completed) \in 0 .. NumCpu
  /\ Cardinality(Completed) >= NumCpu => Settled
<1>1. NumCpu \in Nat /\ NumCpu > 0
  BY TickBarrierAssumption
<1>2. IsFiniteSet(0 .. NumCpu - 1) /\ Cardinality(0 .. NumCpu - 1) = NumCpu
  BY <1>1, FS_Interval
<1>3. IsFiniteSet(Workers) /\ Cardinality(Workers) = NumCpu
  BY <1>2 DEF Workers
<1>4. Completed \subseteq Workers
  BY DEF Completed
<1>5. /\ IsFiniteSet(Completed) /\ Cardinality(Completed) <= NumCpu
      /\ Cardinality(Completed) = NumCpu => Completed = Workers
  BY <1>3, <1>4, FS_Subset
<1>6. Cardinality(Completed) \in Nat
  BY <1>5, FS_CardinalityType
<1>7. Completed = Workers => Settled
  BY DEF Completed, Settled
<1> QED
  BY <1>1, <1>3, <1>4, <1>5, <1>6, <1>7

(* Where the clock, the cycles run and the notifications owed stand still,  *)
(* so does the number of completions.                                       *)
LEMMA SameCompleted ==
  ASSUME \A w \in Workers : Complete(w)' <=> Complete(w)
  PROVE  Completed' = Completed /\ (Settled' <=> Settled)
<1>1. Workers' = Workers
  BY DEF Workers
<1> QED
  BY <1>1 DEF Completed, Settled

LEMMA InitialBarrier == Init => BarrierInv
<1> SUFFICES ASSUME Init PROVE BarrierInv
  OBVIOUS
<1> USE TickBarrierAssumption
<1>1. TypeOK
  <2>1. 0 \in Workers /\ 0 \in 0 .. MaxTicks /\ 0 \in 0 .. NumCpu
    BY DEF Workers
  <2>2. at \in [loop : Workers, control : Workers]
    BY <2>1 DEF Init
  <2> QED
    BY <2>1, <2>2 DEF Init, TypeOK
<1>2. Calls
  BY DEF Init, Calls
<1>3. Ticks
  BY DEF Init, Ticks, Keeps, Signalled
<1>4. Settled
  BY DEF Init, Settled, Complete
<1>5. Phases /\ Count
  BY <1>4 DEF Init, Phases, Count
<1> QED
  BY <1>1, <1>2, <1>3, <1>5 DEF BarrierInv

-----------------------------------------------------------------------------
(* One lemma for each part of the invariant.                                *)

(* A completion is counted once, while the count still means this tick.     *)
LEMMA NotifyCounts ==
  ASSUME BarrierInv, NEW w \in Workers, NotifyWorkerDone(w)
  PROVE  /\ loop # "reset" /\ workersCompleted < NumCpu
         /\ workersCompleted' \in 0 .. NumCpu
         /\ Exact'
<1> USE TickBarrierAssumption DEF BarrierInv
<1>1. loop # "reset" /\ ~Complete(w) /\ last[w] = cpuCycles
  BY DEF NotifyWorkerDone, Ticks, Keeps, Signalled, Complete, TypeOK
<1>2. Exact
  BY <1>1 DEF Count, Settled
<1>3. w \notin Completed
  BY <1>1 DEF Completed
<1>4. Completed' = Completed \cup {w}
  <2>1. Workers' = Workers /\ \A v \in Workers : Complete(v)' <=> Complete(v) \/ v = w
    BY <1>1 DEF NotifyWorkerDone, Complete, TypeOK, Workers
  <2> QED
    BY <2>1 DEF Completed
<1>5. Cardinality(Completed') = Cardinality(Completed) + 1
  BY <1>3, <1>4, WorkersFinite, FS_AddElement
<1>6. Cardinality(Completed) < NumCpu
  BY <1>1, WorkersFinite DEF Settled
<1>7. workersCompleted' = workersCompleted + 1
  BY DEF NotifyWorkerDone
<1> QED
  BY <1>1, <1>2, <1>5, <1>6, <1>7, WorkersFinite DEF Exact

(* The thread that runs a cycle runs that of the clock.                     *)
LEMMA CycleOfTheClock ==
  ASSUME BarrierInv, NEW w \in Workers, RunCycle(w)
  PROVE  /\ last[w] + 1 = cpuCycles /\ master[w] = cpuCycles /\ loop # "reset"
         /\ ~Complete(w) /\ last'[w] = cpuCycles /\ cycles'[w] = cpuCycles
  BY DEF BarrierInv, RunCycle, Ticks, Keeps, Signalled, Complete, TypeOK

LEMMA Indices ==
  ASSUME TypeOK
  PROVE  /\ 0 \in Workers
         /\ at.loop + 1 < NumCpu => at.loop + 1 \in Workers
         /\ at.control + 1 < NumCpu => at.control + 1 \in Workers
<1>1. at.loop \in Workers /\ at.control \in Workers
  BY DEF TypeOK
<1> QED
  BY <1>1, TickBarrierAssumption DEF Workers

LEMMA KeepsTypes == BarrierInv /\ [Next]_vars => TypeOK'
<1> SUFFICES ASSUME BarrierInv, [Next]_vars PROVE TypeOK'
  OBVIOUS
<1> USE TickBarrierAssumption
<1>0. TypeOK /\ Workers' = Workers
  BY DEF BarrierInv, Workers
<1> USE <1>0, Indices
<1>1. CASE Start
  <2>1. 0 \in 0 .. MaxTicks
    OBVIOUS
  <2> QED
    BY <1>1, <2>1 DEF Start, TypeOK
<1>2. CASE Stop
  BY <1>2 DEF Stop, Woken, TypeOK
<1>3. CASE JoinScheduler
  BY <1>3 DEF JoinScheduler, signals, TypeOK
<1>4. CASE StopWorker
  BY <1>4 DEF StopWorker, Woken, TypeOK
<1>5. CASE JoinWorker
  BY <1>5 DEF JoinWorker, signals, TypeOK
<1>6. CASE BeginShow
  BY <1>6 DEF BeginShow, signals, TypeOK
<1>7. CASE Show
  BY <1>7 DEF Show, Iterate, signals, TypeOK
<1>8. CASE TestRunning
  BY <1>8 DEF TestRunning, signals, TypeOK
<1>9. CASE ResetCount
  BY <1>9 DEF ResetCount, CountReset, TypeOK
<1>10. CASE SignalNewTick
  BY <1>10 DEF SignalNewTick, Iterate, Woken, TypeOK
<1>11. CASE AwaitWorkers
  BY <1>11 DEF AwaitWorkers, signals, TypeOK
<1>12. CASE BeginServe
  BY <1>12 DEF BeginServe, signals, TypeOK
<1>13. CASE Dispatch
  BY <1>13 DEF Dispatch, Iterate, signals, TypeOK
<1>14. ASSUME NEW w \in Workers, TestAlive(w) PROVE TypeOK'
  BY <1>14 DEF TestAlive, signals, TypeOK
<1>15. ASSUME NEW w \in Workers, AwaitTick(w) PROVE TypeOK'
  BY <1>15 DEF AwaitTick, signals, TypeOK
<1>16. ASSUME NEW w \in Workers, RunCycle(w) PROVE TypeOK'
  <2>1. last'[w] \in 0 .. MaxTicks /\ cycles'[w] \in 0 .. MaxTicks
    BY <1>16, CycleOfTheClock DEF TypeOK
  <2> QED
    BY <1>16, <2>1 DEF RunCycle, signals, TypeOK
<1>17. ASSUME NEW w \in Workers, NotifyWorkerDone(w) PROVE TypeOK'
  <2>1. workersCompleted' \in 0 .. NumCpu
    BY <1>17, NotifyCounts
  <2> QED
    BY <1>17, <2>1 DEF NotifyWorkerDone, Woken, TypeOK
<1>18. CASE SpuriousWakeup
  BY <1>18 DEF SpuriousWakeup, signals, TypeOK
<1>19. CASE UNCHANGED vars
  BY <1>19 DEF vars, signals, TypeOK
<1> QED
  BY <1>1, <1>2, <1>3, <1>4, <1>5, <1>6, <1>7, <1>8, <1>9, <1>10, <1>11, <1>12, <1>13,
     <1>14, <1>15, <1>16, <1>17, <1>18, <1>19
     DEF Next, Control, SchedulerThread, WorkerThread

LEMMA KeepsCalls == BarrierInv /\ [Next]_vars => Calls'
<1> SUFFICES ASSUME BarrierInv, [Next]_vars PROVE Calls'
  OBVIOUS
<1>0. TypeOK /\ Calls
  BY DEF BarrierInv
<1> USE <1>0 DEF Calls
<1>1. CASE Control
  BY <1>1 DEF Control, Start, Stop, JoinScheduler, StopWorker, JoinWorker, BeginShow, Show,
              Iterate, Woken, signals, TypeOK
<1>2. CASE SchedulerThread
  BY <1>2 DEF SchedulerThread, TestRunning, ResetCount, SignalNewTick, AwaitWorkers, BeginServe,
              Dispatch, Iterate, signals, TypeOK
<1>3. ASSUME NEW w \in Workers, WorkerThread(w) PROVE Calls'
  BY <1>3 DEF WorkerThread, TestAlive, AwaitTick, RunCycle, NotifyWorkerDone, Woken, signals
<1>4. CASE SpuriousWakeup
  BY <1>4 DEF SpuriousWakeup, signals
<1>5. CASE UNCHANGED vars
  BY <1>5 DEF vars, signals
<1> QED
  BY <1>1, <1>2, <1>3, <1>4, <1>5 DEF Next

LEMMA KeepsTicks == BarrierInv /\ [Next]_vars => Ticks'
<1> SUFFICES ASSUME BarrierInv, [Next]_vars, NEW v \in Workers
             PROVE  Keeps(v)' /\ Signalled(v)'
  BY DEF Ticks, Workers
<1>0. TypeOK /\ Calls /\ Keeps(v) /\ Signalled(v)
  BY DEF BarrierInv, Ticks
<1>a. /\ v \in Int /\ v < NumCpu /\ 0 <= v /\ at.loop \in Int
      /\ cpuCycles \in Int /\ last[v] \in Int /\ master[v] \in Int
  BY <1>0, TickBarrierAssumption DEF TypeOK, Workers
<1>1. CASE Start
  BY <1>1, <1>a DEF Start, Keeps, Signalled
<1>2. CASE Stop
  BY <1>2, <1>0 DEF Stop, Woken, Keeps, Signalled
<1>3. CASE JoinScheduler
  BY <1>3, <1>0 DEF JoinScheduler, signals, Keeps, Signalled
<1>4. CASE StopWorker
  BY <1>4, <1>0 DEF StopWorker, Woken, Keeps, Signalled, TypeOK
<1>5. CASE JoinWorker
  BY <1>5, <1>0 DEF JoinWorker, signals, Calls, Keeps, Signalled, TypeOK
<1>6. CASE BeginShow
  BY <1>6, <1>0 DEF BeginShow, signals, Keeps, Signalled
<1>7. CASE Show
  BY <1>7, <1>0 DEF Show, Iterate, signals, Keeps, Signalled, TypeOK
<1>8. CASE TestRunning
  <2>1. CASE running
    <3>1. last[v] = cpuCycles /\ worker[v] # "notify"
      BY <1>8, <2>1 DEF BarrierInv, Phases, Settled, Complete, TestRunning
    <3> QED
      BY <1>8, <2>1, <3>1, <1>0, <1>a DEF TestRunning, signals, Keeps, Signalled
  <2> QED
    BY <1>8, <2>1, <1>0 DEF TestRunning, signals, Keeps, Signalled
<1>9. CASE ResetCount
  BY <1>9, <1>0, <1>a DEF ResetCount, Calls, Keeps, Signalled
<1>10. CASE SignalNewTick
  <2>1. Keeps(v)'
    BY <1>10, <1>0, <1>a DEF SignalNewTick, Woken, WorkerMutexFree, Keeps, TypeOK
  <2>2. master'[v] = IF v = at.loop THEN cpuCycles ELSE master[v]
    BY <1>10, <1>0 DEF SignalNewTick, TypeOK
  <2>b. /\ loop = "signal" /\ cpuCycles' = cpuCycles
        /\ at.loop + 1 < NumCpu => at'.loop = at.loop + 1 /\ loop' = "signal"
        /\ at.loop + 1 >= NumCpu => loop' = "lock"
    <3>1. at \in [loop : Workers, control : Workers] /\ Workers \subseteq Int /\ NumCpu \in Int
      BY <1>0, TickBarrierAssumption DEF TypeOK, Workers
    <3>2. at["loop"] = at.loop /\ at.loop \in Int
      BY <3>1
    <3>3. loop = "signal" /\ cpuCycles' = cpuCycles /\ Iterate("loop", loop, "lock")
      BY <1>10 DEF SignalNewTick
    <3>4. ASSUME at.loop + 1 < NumCpu PROVE at'.loop = at.loop + 1 /\ loop' = "signal"
      BY <3>1, <3>2, <3>3, <3>4 DEF Iterate
    <3>5. ASSUME at.loop + 1 >= NumCpu PROVE loop' = "lock"
      BY <3>1, <3>2, <3>3, <3>5 DEF Iterate
    <3> QED
      BY <3>3, <3>4, <3>5
  <2>c. /\ v <= at.loop => master'[v] = cpuCycles
        /\ v > at.loop => master'[v] < cpuCycles
    BY <1>0, <1>a, <2>2, <2>b DEF Signalled
  <2>3. Signalled(v)'
    <3>1. CASE at.loop + 1 < NumCpu
      BY <1>a, <2>b, <2>c, <3>1 DEF Signalled
    <3>2. CASE at.loop + 1 >= NumCpu
      <4>1. v <= at.loop
        BY <1>a, <3>2, TickBarrierAssumption
      <4> QED
        BY <2>b, <2>c, <3>2, <4>1 DEF Signalled
    <3> QED
      BY <1>a, <3>1, <3>2, TickBarrierAssumption
  <2> QED
    BY <2>1, <2>3
<1>11. CASE AwaitWorkers
  BY <1>11, <1>0 DEF AwaitWorkers, signals, Keeps, Signalled
<1>12. CASE BeginServe
  BY <1>12, <1>0 DEF BeginServe, signals, Keeps, Signalled
<1>13. CASE Dispatch
  BY <1>13, <1>0 DEF Dispatch, Iterate, signals, Keeps, Signalled
<1>14. ASSUME NEW w \in Workers, TestAlive(w) PROVE Keeps(v)' /\ Signalled(v)'
  BY <1>14, <1>0 DEF TestAlive, signals, Keeps, Signalled, TypeOK
<1>15. ASSUME NEW w \in Workers, AwaitTick(w) PROVE Keeps(v)' /\ Signalled(v)'
  BY <1>15, <1>0 DEF AwaitTick, Released, TickPending, signals, Keeps, Signalled, TypeOK
<1>16. ASSUME NEW w \in Workers, RunCycle(w) PROVE Keeps(v)' /\ Signalled(v)'
  BY <1>16, <1>0, <1>a, CycleOfTheClock DEF RunCycle, signals, Keeps, Signalled, TypeOK
<1>17. ASSUME NEW w \in Workers, NotifyWorkerDone(w) PROVE Keeps(v)' /\ Signalled(v)'
  BY <1>17, <1>0 DEF NotifyWorkerDone, Woken, Keeps, Signalled, TypeOK
<1>18. CASE SpuriousWakeup
  BY <1>18, <1>0 DEF SpuriousWakeup, signals, Keeps, Signalled, TypeOK
<1>19. CASE UNCHANGED vars
  BY <1>19, <1>0 DEF vars, signals, Keeps, Signalled
<1> QED
  BY <1>1, <1>2, <1>3, <1>4, <1>5, <1>6, <1>7, <1>8, <1>9, <1>10, <1>11, <1>12, <1>13,
     <1>14, <1>15, <1>16, <1>17, <1>18, <1>19
     DEF Next, Control, SchedulerThread, WorkerThread

LEMMA KeepsCount == BarrierInv /\ [Next]_vars => Phases' /\ Count'
<1> SUFFICES ASSUME BarrierInv, [Next]_vars PROVE Phases' /\ Count'
  OBVIOUS
<1>0. TypeOK /\ Calls /\ Ticks /\ Phases /\ Count
  BY DEF BarrierInv
<1> DEFINE Still == \A w \in Workers : Complete(w)' <=> Complete(w)
<1>a. ASSUME Still, workersCompleted' = workersCompleted
      PROVE  (Exact' <=> Exact) /\ (Settled' <=> Settled)
  BY <1>a, SameCompleted DEF Exact
<1> HIDE DEF Still
<1>1. CASE Start
  <2>1. Settled'
    BY <1>1 DEF Start, Settled, Complete, Workers
  <2> QED
    BY <1>1, <2>1 DEF Start, Phases, Count
<1>2. CASE Stop
  <2>1. Still /\ workersCompleted' = workersCompleted
    BY <1>2 DEF Stop, Complete, Still
  <2> QED
    BY <1>2, <1>0, <1>a, <2>1 DEF Stop, Woken, Phases, Count
<1>3. CASE JoinScheduler \/ BeginShow \/ Show \/ BeginServe \/ Dispatch
  <2>1. Still /\ workersCompleted' = workersCompleted
    BY <1>3 DEF JoinScheduler, BeginShow, Show, BeginServe, Dispatch, signals, Complete, Still
  <2> QED
    BY <1>3, <1>0, <1>a, <2>1
       DEF JoinScheduler, BeginShow, Show, BeginServe, Dispatch, Iterate, signals, Phases, Count
<1>4. CASE StopWorker \/ JoinWorker
  <2>1. Still /\ workersCompleted' = workersCompleted
    BY <1>4, <1>0 DEF StopWorker, JoinWorker, Woken, signals, Complete, TypeOK, Still
  <2> QED
    BY <1>4, <1>0, <1>a, <2>1 DEF StopWorker, JoinWorker, signals, Phases, Count
<1>5. CASE TestRunning
  <2>1. CASE running
    BY <1>5, <2>1, <1>0 DEF TestRunning, Phases, Count
  <2>2. CASE ~running
    <3>1. Still /\ workersCompleted' = workersCompleted
      BY <1>5, <2>2 DEF TestRunning, signals, Complete, Still
    <3> QED
      BY <1>5, <2>2, <1>0, <1>a, <3>1 DEF TestRunning, signals, Phases, Count
  <2> QED
    BY <2>1, <2>2, <1>0 DEF TypeOK
<1>6. CASE ResetCount
  <2>1. \A w \in Workers : ~Complete(w)'
    BY <1>6, <1>0 DEF ResetCount, Ticks, Keeps, Signalled, Complete, TypeOK
  <2>2. Completed' = {}
    BY <2>1 DEF Completed, Workers
  <2> QED
    BY <1>6, <2>2, FS_EmptySet DEF ResetCount, CountReset, Phases, Count, Exact
<1>7. CASE SignalNewTick
  <2>1. Still /\ workersCompleted' = workersCompleted
    BY <1>7, <1>0 DEF SignalNewTick, Woken, Complete, TypeOK, Still
  <2> QED
    BY <1>7, <1>0, <1>a, <2>1 DEF SignalNewTick, Iterate, Phases, Count
<1>8. CASE AwaitWorkers
  <2>1. Still /\ workersCompleted' = workersCompleted
    BY <1>8 DEF AwaitWorkers, signals, Complete, Still
  <2>2. AllCompleted => Settled
    BY <1>8, <1>0, WorkersFinite DEF AwaitWorkers, AllCompleted, Count, Exact
  <2> QED
    BY <1>8, <1>0, <1>a, <2>1, <2>2 DEF AwaitWorkers, signals, Phases, Count
<1>9. ASSUME NEW w \in Workers, TestAlive(w) \/ AwaitTick(w) PROVE Phases' /\ Count'
  <2>1. Still /\ workersCompleted' = workersCompleted
    BY <1>9, <1>0 DEF TestAlive, AwaitTick, signals, Complete, TypeOK, Still
  <2> QED
    BY <1>9, <1>0, <1>a, <2>1 DEF TestAlive, AwaitTick, signals, Phases, Count
<1>10. ASSUME NEW w \in Workers, RunCycle(w) PROVE Phases' /\ Count'
  <2>1. ~Complete(w)
    BY <1>10, CycleOfTheClock
  <2>2. Still /\ workersCompleted' = workersCompleted
    BY <1>10, <1>0, <2>1 DEF RunCycle, signals, Complete, TypeOK, Still
  <2> QED
    BY <1>10, <1>0, <1>a, <2>1, <2>2 DEF RunCycle, signals, Phases, Count, Settled
<1>11. ASSUME NEW w \in Workers, NotifyWorkerDone(w) PROVE Phases' /\ Count'
  <2>1. Exact' /\ ~Complete(w)
    BY <1>11, NotifyCounts DEF NotifyWorkerDone, Complete
  <2> QED
    BY <1>11, <1>0, <2>1 DEF NotifyWorkerDone, Woken, Phases, Count, Settled
<1>12. CASE SpuriousWakeup
  <2>1. Still /\ workersCompleted' = workersCompleted
    BY <1>12, <1>0 DEF SpuriousWakeup, signals, Complete, TypeOK, Still
  <2> QED
    BY <1>12, <1>0, <1>a, <2>1 DEF SpuriousWakeup, signals, Phases, Count
<1>13. CASE UNCHANGED vars
  <2>1. Still /\ workersCompleted' = workersCompleted
    BY <1>13 DEF vars, signals, Complete, Still
  <2> QED
    BY <1>13, <1>0, <1>a, <2>1 DEF vars, signals, Phases, Count
<1> QED
  BY <1>1, <1>2, <1>3, <1>4, <1>5, <1>6, <1>7, <1>8, <1>9, <1>10, <1>11, <1>12, <1>13
     DEF Next, Control, SchedulerThread, WorkerThread

-----------------------------------------------------------------------------
LEMMA BarrierInvariant == Spec => []BarrierInv
<1>1. BarrierInv /\ [Next]_vars => BarrierInv'
  BY KeepsTypes, KeepsCalls, KeepsTicks, KeepsCount DEF BarrierInv
<1> QED
  BY <1>1, InitialBarrier, PTL DEF Spec

(* No variable leaves its type: what is counted never exceeds the number of *)
(* workers, late notifications after a Stop included.                       *)
THEOREM BarrierTypes == Spec => []TypeOK
<1>1. BarrierInv => TypeOK
  BY DEF BarrierInv
<1> QED
  BY <1>1, BarrierInvariant, PTL

(* Every worker runs one cycle per tick, for any number of workers and      *)
(* however the wakeups fall.                                                *)
THEOREM TicksExact == Spec => []OneCyclePerTick
<1>1. BarrierInv => OneCyclePerTick
  BY DEF BarrierInv, Ticks, Keeps, OneCyclePerTick
<1> QED
  BY <1>1, BarrierInvariant, PTL

(* The count that TriggerWorkersTick waits on is that of this very tick.    *)
THEOREM CountExact == Spec => []CompletionsExact
<1>1. BarrierInv => CompletionsExact
  BY DEF BarrierInv, Count, Exact, Completed, Complete, CompletionsExact
<1> QED
  BY <1>1, BarrierInvariant, PTL

(* While the scheduler's phases run, no worker is in a cycle or may begin   *)
(* one: what makes the fields of Process safe without a lock.               *)
THEOREM PhasesExclusive == Spec => []PhasesApart
<1>1. BarrierInv => PhasesApart
  BY DEF BarrierInv, Ticks, Keeps, Phases, Settled, Complete, PhasesApart, WorkerMutexFree, TypeOK
<1> QED
  BY <1>1, BarrierInvariant, PTL

-----------------------------------------------------------------------------
(* The refinement of Lockstep.                                              *)
Phase == IF loop \in {"reset", "signal", "lock", "wait"} THEN "cycle" ELSE "serve"
Owing == IF loop = "reset" THEN Workers ELSE {w \in Workers : last[w] # cpuCycles}

(* The threads implement Lockstep: every step of any of them is a step of   *)
(* it or changes nothing that it sees.                                      *)
THEOREM ImplementsLockstep == Spec => RefinesLockstep
<1>1. Init => Abstract!Init
  BY DEF Init, Abstract!Init
<1>2. BarrierInv /\ [Next]_vars => [Abstract!Next]_(Abstract!vars)
  <2> SUFFICES ASSUME BarrierInv, [Next]_vars
               PROVE  Abstract!Next \/ UNCHANGED Abstract!vars
    OBVIOUS
  <2>0. TypeOK /\ Calls /\ Ticks /\ Phases /\ Count /\ Workers' = Workers
    BY DEF BarrierInv, Workers
  <2>a. ASSUME UNCHANGED <<running, Phase, Owing>> PROVE UNCHANGED Abstract!vars
    BY <2>a DEF Phase, Owing, Abstract!vars
  <2>1. CASE Start
    <3>1. ~running /\ Phase = "serve" /\ running' /\ Owing' = {} /\ Phase' = Phase
      BY <2>1, <2>0 DEF Start, Calls, Phase, Owing
    <3>2. Abstract!Launch
      BY <3>1, <2>0, <2>1 DEF Abstract!Launch, Phase, Owing, TypeOK, Start
    <3> QED
      BY <3>2 DEF Abstract!Next
  <2>2. CASE Stop
    <3>1. Phase' = Phase /\ Owing' = Owing
      BY <2>2, <2>0 DEF Stop, Woken, Phase, Owing
    <3>2. Abstract!Halt
      BY <2>2, <3>1 DEF Stop, Abstract!Halt, Phase, Owing
    <3> QED
      BY <3>2 DEF Abstract!Next
  <2>3. CASE JoinScheduler \/ StopWorker \/ JoinWorker \/ BeginShow \/ Show \/ BeginServe \/ Dispatch
    <3>1. UNCHANGED <<running, Phase, Owing>>
      BY <2>3, <2>0 DEF JoinScheduler, StopWorker, JoinWorker, BeginShow, Show, BeginServe,
                        Dispatch, Iterate, signals, Phase, Owing
    <3> QED
      BY <3>1, <2>a
  <2>4. CASE TestRunning
    <3>1. CASE running
      <4>1. Phase = "serve" /\ Phase' = "cycle" /\ Owing' = Workers /\ running' = running
        BY <2>4, <3>1, <2>0 DEF TestRunning, signals, Phase, Owing
      <4>2. Abstract!Tick
        BY <3>1, <4>1 DEF Abstract!Tick, Phase, Owing
      <4> QED
        BY <4>2 DEF Abstract!Next
    <3>2. CASE ~running
      <4>1. UNCHANGED <<running, Phase, Owing>>
        BY <2>4, <3>2, <2>0 DEF TestRunning, signals, Phase, Owing
      <4> QED
        BY <4>1, <2>a
    <3> QED
      BY <3>1, <3>2, <2>0 DEF TypeOK
  <2>5. CASE ResetCount
    <3>1. \A w \in Workers : last[w] # cpuCycles
      BY <2>5, <2>0 DEF ResetCount, Ticks, Keeps, Signalled, TypeOK
    <3>2. UNCHANGED <<running, Phase, Owing>>
      BY <2>5, <2>0, <3>1 DEF ResetCount, Phase, Owing
    <3> QED
      BY <3>2, <2>a
  <2>6. CASE SignalNewTick
    <3>1. UNCHANGED <<running, Phase, Owing>>
      BY <2>6, <2>0 DEF SignalNewTick, Iterate, Phase, Owing
    <3> QED
      BY <3>1, <2>a
  <2>7. CASE AwaitWorkers
    <3>1. AllCompleted => Settled
      BY <2>7, <2>0, WorkersFinite DEF AwaitWorkers, AllCompleted, Count, Exact
    <3>2. Settled => Owing = {}
      BY <2>7 DEF AwaitWorkers, Settled, Complete, Owing
    <3>3. CASE loop' = "wait"
      <4>1. UNCHANGED <<running, Phase, Owing>>
        BY <2>7, <3>3, <2>0 DEF AwaitWorkers, signals, Phase, Owing
      <4> QED
        BY <4>1, <2>a
    <3>4. CASE loop' = "serve"
      <4>1. /\ Phase = "cycle" /\ Phase' = "serve" /\ Owing' = Owing /\ running' = running
            /\ Owing = {} \/ ~running
        BY <2>7, <3>1, <3>2, <3>4, <2>0 DEF AwaitWorkers, signals, Phase, Owing
      <4>2. Abstract!Serve
        BY <4>1 DEF Abstract!Serve, Phase, Owing
      <4> QED
        BY <4>2 DEF Abstract!Next
    <3> QED
      BY <2>7, <3>3, <3>4 DEF AwaitWorkers
  <2>8. ASSUME NEW w \in Workers, TestAlive(w) \/ AwaitTick(w) \/ NotifyWorkerDone(w)
        PROVE  UNCHANGED Abstract!vars
    <3>1. UNCHANGED <<running, Phase, Owing>>
      BY <2>8, <2>0 DEF TestAlive, AwaitTick, NotifyWorkerDone, Woken, signals, Phase, Owing
    <3> QED
      BY <3>1, <2>a
  <2>9. ASSUME NEW w \in Workers, RunCycle(w) PROVE Abstract!Next
    <3>1. /\ last[w] # cpuCycles /\ loop # "reset" /\ loop' = loop
          /\ cpuCycles' = cpuCycles /\ running' = running
      <4>1. last[w] \in Int /\ cpuCycles \in Int
        BY <2>0 DEF TypeOK
      <4>2. last[w] + 1 = cpuCycles /\ loop # "reset"
        BY <2>9, CycleOfTheClock
      <4>3. loop' = loop /\ cpuCycles' = cpuCycles /\ running' = running
        BY <2>9 DEF RunCycle, signals
      <4> QED
        BY <4>1, <4>2, <4>3
    <3>2. \A v \in Workers : last'[v] # cpuCycles <=> last[v] # cpuCycles /\ v # w
      BY <2>9, <2>0, CycleOfTheClock DEF RunCycle, TypeOK
    <3>3. w \in Owing /\ Owing' = Owing \ {w} /\ Phase' = Phase
      BY <3>1, <3>2, <2>0 DEF Owing, Phase
    <3>4. Abstract!Cycle(w)
      BY <3>1, <3>3 DEF Abstract!Cycle, Owing, Phase
    <3> QED
      BY <3>4 DEF Abstract!Next
  <2>10. CASE SpuriousWakeup \/ UNCHANGED vars
    <3>1. UNCHANGED <<running, Phase, Owing>>
      BY <2>10, <2>0 DEF SpuriousWakeup, vars, signals, Phase, Owing
    <3> QED
      BY <3>1, <2>a
  <2> QED
    BY <2>1, <2>2, <2>3, <2>4, <2>5, <2>6, <2>7, <2>8, <2>9, <2>10
       DEF Next, Control, SchedulerThread, WorkerThread
<1> QED
  BY <1>1, <1>2, BarrierInvariant, PTL DEF Spec, RefinesLockstep, Abstract!Spec
=============================================================================

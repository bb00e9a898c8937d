----------------------------- MODULE TickBarrier -----------------------------
(***************************************************************************)
(* The threads, mutexes and condition variables behind one tick: how       *)
(* Scheduler::TriggerWorkersTick and Worker::ThreadTask meet, and how      *)
(* Start and Stop begin and end them.  What a cycle or a phase does to the *)
(* processes is the business of Scheduler.tla.                             *)
(*                                                                         *)
(* A critical section during which its thread takes no second lock is one  *)
(* action.  A lock held across actions is visible: workerMutex of w in the *)
(* states "cycle" and "notify" of w, and schedulerMutex as `holder`.       *)
(* A thread blocked in condition_variable::wait is in state "wait"; a      *)
(* notification moves it to "lock", and one that finds nobody there is     *)
(* lost.                                                                   *)
(***************************************************************************)
EXTENDS Integers, FiniteSets

CONSTANTS
  NumCpu,    \* ctx.num_cpu
  MaxTicks   \* bound: the scheduler thread sleeps on after this many ticks

ASSUME TickBarrierAssumption == NumCpu \in Nat \ {0} /\ MaxTicks \in Nat

Workers == 0 .. NumCpu - 1

VARIABLES
  running,           \* Scheduler::running
  loop,              \* where the scheduler thread is
  cpuCycles,         \* local to SchedulerLoop
  workersCompleted,
  worker,            \* where each worker thread is
  alive,             \* Worker::running
  master, last,      \* Worker::currentMasterTick, Worker::lastProcessedTick
  cycles,            \* history: how often RunCycle ran since the launch
  control,           \* where the thread is that starts, stops and observes
  holder,            \* who holds schedulerMutex
  at                 \* worker index of the loop that loop or control runs

signals == <<running, workersCompleted, master, alive>>
vars == <<loop, cpuCycles, worker, last, cycles, control, holder, at, signals>>

Init ==
  /\ running = FALSE /\ loop = "none" /\ cpuCycles = 0 /\ workersCompleted = 0
  /\ worker = [w \in Workers |-> "none"]
  /\ alive = [w \in Workers |-> FALSE]
  /\ master = [w \in Workers |-> 0]
  /\ last = [w \in Workers |-> 0]
  /\ cycles = [w \in Workers |-> 0]
  /\ control = "idle" /\ holder = "nobody"
  /\ at = [loop |-> 0, control |-> 0]

WorkerMutexFree(w) == worker[w] \notin {"cycle", "notify"}

Woken(s) == IF s = "wait" THEN "lock" ELSE s

(* One iteration of a loop over the workers by thread t, then `done`.       *)
Iterate(t, pc, following) ==
  IF at[t] + 1 < NumCpu
  THEN at' = [at EXCEPT ![t] = @ + 1] /\ UNCHANGED pc
  ELSE at' = [at EXCEPT ![t] = 0] /\ pc' = following

-----------------------------------------------------------------------------
(* The thread that calls Start, Stop and ShowScreenProcesses.               *)

(* Start: new workers with their threads, then the scheduler thread, whose  *)
(* cpuCycles starts from zero.  No other thread is left to interfere.       *)
Start ==
  /\ control = "idle" /\ ~running
  /\ running' = TRUE /\ loop' = "test" /\ cpuCycles' = 0
  /\ worker' = [w \in Workers |-> "test"]
  /\ alive' = [w \in Workers |-> TRUE]
  /\ master' = [w \in Workers |-> 0]
  /\ last' = [w \in Workers |-> 0]
  /\ cycles' = [w \in Workers |-> 0]
  /\ UNCHANGED <<workersCompleted, control, holder, at>>

(* Stop, first block, under tickMutex.                                      *)
Stop ==
  /\ control = "idle" /\ running
  /\ running' = FALSE
  /\ loop' = Woken(loop)
  /\ control' = "joinScheduler"
  /\ UNCHANGED <<cpuCycles, workersCompleted, worker, alive, master, last, cycles, holder, at>>

JoinScheduler ==
  /\ control = "joinScheduler" /\ loop = "exited"
  /\ loop' = "none" /\ control' = "stopWorker"
  /\ UNCHANGED <<cpuCycles, worker, last, cycles, holder, at, signals>>

(* Worker::Stop, under workerMutex ...                                      *)
StopWorker ==
  /\ control = "stopWorker" /\ WorkerMutexFree(at.control)
  /\ alive' = [alive EXCEPT ![at.control] = FALSE]
  /\ worker' = [worker EXCEPT ![at.control] = Woken(@)]
  /\ control' = "joinWorker"
  /\ UNCHANGED <<running, loop, cpuCycles, workersCompleted, master, last, cycles, holder, at>>

(* ... then the join, and the next worker.                                  *)
JoinWorker ==
  /\ control = "joinWorker" /\ worker[at.control] = "exited"
  /\ worker' = [worker EXCEPT ![at.control] = "none"]
  /\ IF at.control + 1 < NumCpu
     THEN at' = [at EXCEPT !.control = @ + 1] /\ control' = "stopWorker"
     ELSE at' = [at EXCEPT !.control = 0] /\ control' = "idle"
  /\ UNCHANGED <<loop, cpuCycles, last, cycles, holder, signals>>

(* ShowScreenProcesses: schedulerMutex, and under it every workerMutex.     *)
BeginShow ==
  /\ control = "idle" /\ running /\ holder = "nobody"
  /\ control' = "show" /\ holder' = "control"
  /\ UNCHANGED <<loop, cpuCycles, worker, last, cycles, at, signals>>

Show ==
  /\ control = "show" /\ WorkerMutexFree(at.control)
  /\ Iterate("control", control, "idle")
  /\ holder' = IF control' = "idle" THEN "nobody" ELSE holder
  /\ UNCHANGED <<loop, cpuCycles, worker, last, cycles, signals>>

Control ==
  \/ Start \/ Stop \/ JoinScheduler \/ StopWorker \/ JoinWorker \/ BeginShow \/ Show

-----------------------------------------------------------------------------
(* The scheduler thread.                                                    *)

(* while (running), read without a lock; then cpuCycles++.                  *)
TestRunning ==
  /\ loop = "test"
  /\ IF running
     THEN cpuCycles < MaxTicks /\ cpuCycles' = cpuCycles + 1 /\ loop' = "reset"
     ELSE loop' = "exited" /\ UNCHANGED cpuCycles
  /\ UNCHANGED <<worker, last, cycles, control, holder, at, signals>>

(* Variant: the count of the last tick is kept.                             *)
CountKept == workersCompleted

CountReset == 0

(* TriggerWorkersTick, first block, under tickMutex ...                     *)
ResetCount ==
  /\ loop = "reset"
  /\ workersCompleted' = CountReset
  /\ loop' = "signal"
  /\ UNCHANGED <<running, cpuCycles, worker, alive, master, last, cycles, control, holder, at>>

(* ... then SignalNewTick for every worker, under its workerMutex ...       *)
SignalNewTick ==
  /\ loop = "signal"
  /\ LET w == at.loop IN
     /\ WorkerMutexFree(w)
     /\ master' = [master EXCEPT ![w] = cpuCycles]
     /\ worker' = [worker EXCEPT ![w] = Woken(@)]
  /\ Iterate("loop", loop, "lock")
  /\ UNCHANGED <<running, cpuCycles, workersCompleted, alive, last, cycles, control, holder>>

(* Variant: one completion too few is waited for.                           *)
AllButOneCompleted == workersCompleted >= NumCpu - 1

AllCompleted == workersCompleted >= NumCpu

(* ... and the predicate of tickCv.wait, evaluated under tickMutex.         *)
AwaitWorkers ==
  /\ loop = "lock"
  /\ loop' = IF ~running \/ AllCompleted THEN "serve" ELSE "wait"
  /\ UNCHANGED <<cpuCycles, worker, last, cycles, control, holder, at, signals>>

(* FCFS and the dispatch of RoundRobin: schedulerMutex, and under it the    *)
(* workerMutex of every worker.                                             *)
BeginServe ==
  /\ loop = "serve" /\ holder = "nobody"
  /\ loop' = "dispatch" /\ holder' = "loop"
  /\ UNCHANGED <<cpuCycles, worker, last, cycles, control, at, signals>>

Dispatch ==
  /\ loop = "dispatch" /\ WorkerMutexFree(at.loop)
  /\ Iterate("loop", loop, "test")
  /\ holder' = IF loop' = "test" THEN "nobody" ELSE holder
  /\ UNCHANGED <<cpuCycles, worker, last, cycles, control, signals>>

SchedulerThread ==
  \/ TestRunning \/ ResetCount \/ SignalNewTick \/ AwaitWorkers \/ BeginServe \/ Dispatch

-----------------------------------------------------------------------------
(* Worker threads: ThreadTask with onCycleComplete set.                     *)

(* while (running), read without a lock.                                    *)
TestAlive(w) ==
  /\ worker[w] = "test"
  /\ worker' = [worker EXCEPT ![w] = IF alive[w] THEN "lock" ELSE "exited"]
  /\ UNCHANGED <<loop, cpuCycles, last, cycles, control, holder, at, signals>>

(* Variants: the tick already processed counts as new; a tick is noticed    *)
(* when the next one has come.                                              *)
TickNotOlder(w) == master[w] >= last[w]
TickPendingLate(w) == master[w] > last[w] + 1

TickPending(w) == master[w] > last[w]

(* Variant: the waiting thread looks for ticks alone.                       *)
ReleasedByTick(w) == TickPending(w)

Released(w) == ~alive[w] \/ TickPending(w)

(* workerMutex is taken and the predicate of cv.wait evaluated; while it is *)
(* false the mutex is given up and the thread blocks.                       *)
AwaitTick(w) ==
  /\ worker[w] = "lock"
  /\ worker' = [worker EXCEPT ![w] =
       IF ~Released(w) THEN "wait" ELSE IF alive[w] THEN "cycle" ELSE "exited"]
  /\ UNCHANGED <<loop, cpuCycles, last, cycles, control, holder, at, signals>>

RunCycle(w) ==
  /\ worker[w] = "cycle"
  /\ last' = [last EXCEPT ![w] = master[w]]
  /\ cycles' = [cycles EXCEPT ![w] = @ + 1]
  /\ worker' = [worker EXCEPT ![w] = "notify"]
  /\ UNCHANGED <<loop, cpuCycles, control, holder, at, signals>>

(* NotifyWorkerDone under tickMutex, called with workerMutex still held.    *)
NotifyWorkerDone(w) ==
  /\ worker[w] = "notify"
  /\ workersCompleted' = workersCompleted + 1
  /\ loop' = Woken(loop)
  /\ worker' = [worker EXCEPT ![w] = "test"]
  /\ UNCHANGED <<running, cpuCycles, alive, master, last, cycles, control, holder, at>>

WorkerThread(w) == TestAlive(w) \/ AwaitTick(w) \/ RunCycle(w) \/ NotifyWorkerDone(w)

(* A condition variable may wake its waiter for no reason.                  *)
SpuriousWakeup ==
  /\ \/ loop = "wait" /\ loop' = "lock" /\ UNCHANGED worker
     \/ \E w \in Workers :
          /\ worker[w] = "wait"
          /\ worker' = [worker EXCEPT ![w] = "lock"] /\ UNCHANGED loop
  /\ UNCHANGED <<cpuCycles, last, cycles, control, holder, at, signals>>

-----------------------------------------------------------------------------
Next ==
  Control \/ SchedulerThread \/ SpuriousWakeup \/ \E w \in Workers : WorkerThread(w)

Spec == Init /\ [][Next]_vars

(* A thread that can go on does: the scheduler thread, the workers, and the *)
(* calling thread within a call of Stop or ShowScreenProcesses.  Nobody has *)
(* to call either, and no spurious wakeup is ever owed.                     *)
Fairness ==
  /\ WF_vars(SchedulerThread)
  /\ \A w \in Workers : WF_vars(WorkerThread(w))
  /\ WF_vars(JoinScheduler \/ StopWorker \/ JoinWorker \/ Show)

FairSpec == Spec /\ Fairness

-----------------------------------------------------------------------------
(* Properties.                                                              *)

(* Every variable keeps its type; the count never exceeds the workers.      *)
TypeOK ==
  /\ running \in BOOLEAN /\ workersCompleted \in 0 .. NumCpu /\ cpuCycles \in 0 .. MaxTicks
  /\ loop \in {"none", "test", "reset", "signal", "lock", "wait", "serve", "dispatch", "exited"}
  /\ worker \in [Workers -> {"none", "test", "lock", "wait", "cycle", "notify", "exited"}]
  /\ alive \in [Workers -> BOOLEAN]
  /\ master \in [Workers -> 0 .. MaxTicks]
  /\ last \in [Workers -> 0 .. MaxTicks]
  /\ cycles \in [Workers -> 0 .. MaxTicks]
  /\ control \in {"idle", "show", "joinScheduler", "stopWorker", "joinWorker"}
  /\ holder \in {"nobody", "control", "loop"}
  /\ at \in [loop : Workers, control : Workers]

(* A worker runs one cycle per tick it was signalled: none is skipped, none *)
(* is run twice, whatever wakeups are spurious or come before the wait.     *)
OneCyclePerTick == \A w \in Workers : cycles[w] = last[w]

(* The count the scheduler waits on stands for completions of this very     *)
(* tick: none of an earlier tick, or of an earlier launch, is in it.        *)
CompletionsExact ==
  loop \in {"signal", "lock", "wait"} =>
    workersCompleted =
      Cardinality({w \in Workers : last[w] = cpuCycles /\ worker[w] # "notify"})

(* Outside TriggerWorkersTick a running scheduler has the processes to      *)
(* itself: every worker has finished its cycle and none can begin one.      *)
PhasesApart ==
  running /\ loop \in {"serve", "dispatch"} =>
    \A w \in Workers : last[w] = cpuCycles /\ WorkerMutexFree(w)

(* Every tick signalled is completed, also while somebody lists the screens *)
(* or stops the scheduler.                                                  *)
TickServed == loop = "signal" ~> loop = "serve"

(* Stop returns: every thread notices it, joins are never awaited for ever. *)
StopReturns == control = "joinScheduler" ~> control = "idle"

(* The implementation keeps ticks in lockstep (see Lockstep.tla).           *)
Abstract == INSTANCE Lockstep WITH
  up <- running,
  phase <- IF loop \in {"reset", "signal", "lock", "wait"} THEN "cycle" ELSE "serve",
  owing <- IF loop = "reset" THEN Workers ELSE {w \in Workers : last[w] # cpuCycles}

RefinesLockstep == Abstract!Spec
=============================================================================

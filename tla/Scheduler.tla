----------------------------- MODULE Scheduler -----------------------------
(***************************************************************************)
(* The tick-driven CPU scheduler of prosched (scheduler/Scheduler.h) with  *)
(* its worker cores (worker/Worker.h) and process control blocks           *)
(* (process/Process.h), from the moment the CLI starts it.                 *)
(*                                                                         *)
(* Three kinds of thread act: the scheduler thread walks the phases of     *)
(* SchedulerLoop; every worker thread runs one RunCycle per tick, in any   *)
(* order, while the scheduler waits in TriggerWorkersTick; the CLI thread  *)
(* creates and adds processes and switches generation at any time that     *)
(* schedulerMutex allows.  A loop of the source is one action per          *)
(* iteration, so the CLI and the observers may step in wherever they can.  *)
(***************************************************************************)
EXTENDS Integers, Sequences

CONSTANTS
  Procs,      \* the Process objects that may ever be constructed (a bound)
  Programs,   \* the flattened instruction sequences a process may be given
  NumCpu,     \* ctx.num_cpu
  Algo,       \* ctx.schedulerType
  Quantum,    \* ctx.rr_quantum_cycles
  Delay,      \* ctx.delay_per_execution
  BatchFreq,  \* ctx.batch_process_frequency
  None        \* nullptr

Workers == 0 .. NumCpu - 1

(* Process::AddInstruction leaves only plain statements in `statements`, so *)
(* an instruction either sleeps for `cycles` ticks or runs in one cycle.    *)
Statement == [keyword : {"EXEC", "SLEEP"}, cycles : Int]

ASSUME SchedulerAssumption ==
  /\ NumCpu \in Nat \ {0}
  /\ Quantum \in Int /\ Delay \in Nat /\ BatchFreq \in Nat \ {0}
  /\ Algo \in {"fcfs", "rr", "unknown"}
  /\ \A prog \in Programs : prog \in Seq(Statement)
  /\ None \notin Procs

VARIABLES
  processes,    \* Scheduler::processes, every process ever registered
  queue,        \* Scheduler::processQueue, front first
  current,      \* Worker::currentProcess of each core
  preempted,    \* Worker::preemptedProcess of each core
  batch,        \* preemptedList, local to CollectPreemptedCycle
  phase,        \* where the scheduler thread is in SchedulerLoop
  at,           \* iterations done of the loop that phase runs
  done,         \* workers that completed their cycle of this tick
  tick,         \* cpuCycles modulo BatchFreq, all that the loop reads of it
  generating,   \* Scheduler::generatingProcesses
  generated,    \* process built by generateProcess and not yet pushed
  named,        \* process built by CreateNamedProcess and not yet added
  nextPID,      \* Scheduler::nextPID
  pid, program,                        \* Process::pid, Process::statements
  state, index,                        \* currentState, currentInstructionIndex
  sleepLeft, cyclesLeft, quantumUsed,  \* the three counters of a Process
  coreNum,                             \* Process::coreNum, -1 at first
  finishTime                           \* Process::finishTime is not empty

ident == <<pid, program, nextPID>>
lists == <<processes, queue>>
cores == <<current, preempted>>
clock == <<phase, at, done, tick, batch>>
creators == <<generating, generated, named>>
pcb == <<state, index, sleepLeft, cyclesLeft, quantumUsed, coreNum, finishTime>>
vars == <<ident, lists, cores, clock, creators, pcb>>

Has(seq, x) == \E i \in 1 .. Len(seq) : seq[i] = x

Registered(p) == Has(processes, p)
Fresh == {p \in Procs : ~Registered(p) /\ p # generated /\ p # named}
IsBusy(w) == current[w] # None

(* FCFS, RoundRobin and UpdateSleepingProcessesCycle hold schedulerMutex    *)
(* from their first iteration to their last.                                *)
SchedulerMutexFree == ~(phase \in {"dispatch", "wake"} /\ at > 0)

Init ==
  /\ processes = <<>> /\ queue = <<>> /\ batch = <<>>
  /\ current = [w \in Workers |-> None]
  /\ preempted = [w \in Workers |-> None]
  /\ phase = "off" /\ at = 0 /\ done = {} /\ tick = 0
  /\ generating = FALSE /\ generated = None /\ named = None /\ nextPID = 1
  /\ pid = [p \in Procs |-> 0]
  /\ program = [p \in Procs |-> <<>>]
  /\ state = [p \in Procs |-> "READY"]
  /\ index = [p \in Procs |-> 0]
  /\ sleepLeft = [p \in Procs |-> 0]
  /\ cyclesLeft = [p \in Procs |-> 0]
  /\ quantumUsed = [p \in Procs |-> 0]
  /\ coreNum = [p \in Procs |-> -1]
  /\ finishTime = [p \in Procs |-> FALSE]

-----------------------------------------------------------------------------
(* The CLI thread.                                                          *)

(* Start: fresh workers and the scheduler thread; generation stays off.     *)
Start ==
  /\ phase = "off"
  /\ phase' = "generate" /\ at' = 0
  /\ generating' = FALSE
  /\ UNCHANGED <<ident, lists, cores, done, tick, batch, generated, named, pcb>>

(* scheduler-start resumes generation only once the scheduler is running.   *)
ResumeGenerating ==
  /\ phase # "off" /\ ~generating
  /\ generating' = TRUE
  /\ UNCHANGED <<ident, lists, cores, clock, generated, named, pcb>>

StopGenerating ==
  /\ phase # "off" /\ generating
  /\ generating' = FALSE
  /\ UNCHANGED <<ident, lists, cores, clock, generated, named, pcb>>

(* The constructor leaves a fresh process as Init describes it.             *)
Construct(p, prog) ==
  /\ pid' = [pid EXCEPT ![p] = nextPID]
  /\ program' = [program EXCEPT ![p] = prog]

(* Variant: the number is not used up.                                      *)
PidKept == nextPID

PidUsed == nextPID + 1

(* pid = nextPID++ under schedulerMutex, then the process is built outside. *)
CreateNamedProcess ==
  /\ named = None /\ SchedulerMutexFree
  /\ \E p \in Fresh, prog \in Programs : Construct(p, prog) /\ named' = p
  /\ nextPID' = PidUsed
  /\ UNCHANGED <<lists, cores, clock, generating, generated, pcb>>

(* Variant: the newcomer jumps the queue.                                   *)
RegisterAtFront(p) ==
  /\ processes' = Append(processes, p)
  /\ queue' = <<p>> \o queue

Register(p) ==
  /\ processes' = Append(processes, p)
  /\ queue' = Append(queue, p)

AddProcess ==
  /\ named # None /\ SchedulerMutexFree
  /\ Register(named)
  /\ named' = None
  /\ UNCHANGED <<ident, cores, clock, generating, generated, pcb>>

-----------------------------------------------------------------------------
(* The scheduler thread, phase by phase.                                    *)

(* TriggerWorkersTick: every worker owes one cycle.                         *)
TriggerWorkers == phase' = "cycle" /\ done' = {}

BatchDue == generating /\ (tick + 1) % BatchFreq = 0

AdvanceClock == tick' = (tick + 1) % BatchFreq

(* A tick without generation (or, in the model, with no Process left).      *)
SkipGeneration ==
  /\ phase = "generate" /\ ~(BatchDue /\ Fresh # {})
  /\ AdvanceClock /\ TriggerWorkers
  /\ UNCHANGED <<ident, lists, cores, at, batch, creators, pcb>>

(* GenerateProcessesCycle reads nextPID before it takes schedulerMutex ...  *)
GenerateProcess ==
  /\ phase = "generate" /\ BatchDue
  /\ AdvanceClock
  /\ \E p \in Fresh, prog \in Programs : Construct(p, prog) /\ generated' = p
  /\ phase' = "commit"
  /\ UNCHANGED <<nextPID, lists, cores, at, done, batch, generating, named, pcb>>

(* ... and increments it under the lock, when the process is pushed.        *)
CommitGenerated ==
  /\ phase = "commit"
  /\ Register(generated)
  /\ generated' = None
  /\ nextPID' = PidUsed
  /\ TriggerWorkers
  /\ UNCHANGED <<pid, program, cores, at, tick, batch, generating, named, pcb>>

(* The tick goes on with the chosen algorithm.                              *)
ServePhase == CASE Algo = "rr" -> "quantum" [] Algo = "fcfs" -> "dispatch" [] OTHER -> "collect"

(* Every worker reported in.                                                *)
WorkersDone ==
  /\ phase = "cycle" /\ done = Workers
  /\ phase' = ServePhase
  /\ UNCHANGED <<ident, lists, cores, at, done, tick, batch, creators, pcb>>

(* Variants: the loop stops one worker short, or goes one too far.          *)
NextWorkerButLast(following) ==
  IF at + 2 < NumCpu THEN at' = at + 1 /\ phase' = phase
                     ELSE at' = 0 /\ phase' = following

NextWorkerAndOne(following) ==
  IF at + 1 <= NumCpu THEN at' = at + 1 /\ phase' = phase
                      ELSE at' = 0 /\ phase' = following

(* One iteration of a loop over the workers, then the phase after it.       *)
NextWorker(following) ==
  IF at + 1 < NumCpu THEN at' = at + 1 /\ phase' = phase
                     ELSE at' = 0 /\ phase' = following

(* Variants: a quantum one tick too long; PreemptProcessUnlocked without    *)
(* currentProcess = nullptr.                                                *)
QuantumOverrun(p) == quantumUsed[p] + 1 > Quantum
StillAttached(w) == current

QuantumExpires(p) == quantumUsed[p] + 1 >= Quantum

Detached(w) == [current EXCEPT ![w] = None]

(* RoundRobin part 1: CheckAndIncrementQuantum, then PreemptProcess.        *)
CheckQuantum ==
  /\ phase = "quantum"
  /\ NextWorker("dispatch")
  /\ LET p == current[at] IN
     IF p = None \/ state[p] # "RUNNING"
     THEN UNCHANGED <<cores, state, quantumUsed>>
     ELSE IF QuantumExpires(p)
     THEN /\ state' = [state EXCEPT ![p] = "READY"]
          /\ quantumUsed' = [quantumUsed EXCEPT ![p] = 0]
          /\ current' = Detached(at)
          /\ preempted' = [preempted EXCEPT ![at] = p]
     ELSE /\ quantumUsed' = [quantumUsed EXCEPT ![p] = @ + 1]
          /\ UNCHANGED <<cores, state>>
  /\ UNCHANGED <<ident, lists, done, tick, batch, creators,
                 index, sleepLeft, cyclesLeft, coreNum, finishTime>>

(* Worker::AssignProcess on an idle core.                                   *)
AssignProcess(w, p) ==
  /\ current' = [current EXCEPT ![w] = p]
  /\ coreNum' = [coreNum EXCEPT ![p] = w]
  /\ state' = [state EXCEPT ![p] = "RUNNING"]
  /\ quantumUsed' = [quantumUsed EXCEPT ![p] = IF Algo = "rr" THEN 0 ELSE @]
  /\ cyclesLeft' = [cyclesLeft EXCEPT ![p] = IF index[p] = 0 THEN 0 ELSE @]

(* FCFS, and RoundRobin part 2: hand the front of the queue to idle cores.  *)
Dispatch ==
  /\ phase = "dispatch"
  /\ NextWorker("collect")
  /\ IF queue # <<>> /\ ~IsBusy(at)
     THEN AssignProcess(at, Head(queue)) /\ queue' = Tail(queue)
     ELSE UNCHANGED <<queue, current, coreNum, state, quantumUsed, cyclesLeft>>
  /\ UNCHANGED <<ident, processes, preempted, done, tick, batch, creators,
                 index, sleepLeft, finishTime>>

(* Variant: the slot is read and not cleared.                               *)
SlotKept(w) == preempted

SlotCleared(w) == [preempted EXCEPT ![w] = None]

(* CollectPreemptedCycle: empty the slots of the workers one by one ...     *)
CollectPreempted ==
  /\ phase = "collect"
  /\ NextWorker("requeue")
  /\ batch' = IF preempted[at] = None THEN batch ELSE Append(batch, preempted[at])
  /\ preempted' = SlotCleared(at)
  /\ UNCHANGED <<ident, lists, current, done, tick, creators, pcb>>

(* Variant: preempted processes return to the front of the queue.           *)
BatchInFront == batch \o queue

BatchBehind == queue \o batch

(* ... and push what they held under schedulerMutex.                        *)
RequeuePreempted ==
  /\ phase = "requeue"
  /\ queue' = BatchBehind
  /\ batch' = <<>>
  /\ phase' = "wake"
  /\ UNCHANGED <<ident, processes, cores, at, done, tick, creators, pcb>>

(* Variants: the last tick of a sleep is counted twice; a sleep of zero     *)
(* ticks is missed.                                                         *)
SleepExpiresLate(p) == sleepLeft[p] < 1
SleepExpiresAtOne(p) == sleepLeft[p] = 1

SleepExpires(p) == sleepLeft[p] <= 1

(* Variants: a woken process goes to the front, or is never queued again.   *)
WokenInFront(p) == <<p>> \o queue
WokenNowhere(p) == queue

WokenBehind(p) == Append(queue, p)

(* UpdateSleepingProcessesCycle, one process: DecrementSleepCycles stops at *)
(* zero, and a process woken past its last instruction finishes here.       *)
UpdateSleeping ==
  /\ phase = "wake" /\ at < Len(processes)
  /\ at' = at + 1
  /\ LET p == processes[at + 1] IN
     IF state[p] # "WAITING"
     THEN UNCHANGED <<queue, state, sleepLeft>>
     ELSE /\ sleepLeft' = [sleepLeft EXCEPT ![p] = IF @ > 0 THEN @ - 1 ELSE @]
          /\ IF ~SleepExpires(p)
             THEN UNCHANGED <<queue, state>>
             ELSE IF index[p] >= Len(program[p])
             THEN /\ state' = [state EXCEPT ![p] = "FINISHED"]
                  /\ UNCHANGED queue
             ELSE /\ state' = [state EXCEPT ![p] = "READY"]
                  /\ queue' = WokenBehind(p)
  /\ UNCHANGED <<ident, processes, cores, phase, done, tick, batch, creators,
                 index, cyclesLeft, quantumUsed, coreNum, finishTime>>

(* The lock is released and the loop sleeps until the next tick.            *)
EndTick ==
  /\ phase = "wake" /\ at = Len(processes)
  /\ phase' = "generate" /\ at' = 0
  /\ UNCHANGED <<ident, lists, cores, done, tick, batch, creators, pcb>>

-----------------------------------------------------------------------------
(* A worker thread: RunCycle under workerMutex, then onCycleComplete.       *)

(* Variant: the process looks for one more instruction after the last.      *)
IsPastLast(p) == index[p] + 1 > Len(program[p])

IsLast(p) == index[p] + 1 >= Len(program[p])

(* Process::ExecuteInstructions.  Only a FINISHED set here stamps           *)
(* finishTime.                                                              *)
ExecuteInstructions(p) ==
  LET stmt == program[p][index[p] + 1]
      Becomes(s) == /\ state' = [state EXCEPT ![p] = s]
                    /\ finishTime' = [finishTime EXCEPT ![p] = @ \/ s = "FINISHED"]
  IN  IF index[p] >= Len(program[p])
      THEN Becomes("FINISHED") /\ UNCHANGED <<index, sleepLeft>>
      ELSE /\ index' = [index EXCEPT ![p] = @ + 1]
           /\ IF stmt.keyword = "SLEEP"
              THEN /\ sleepLeft' = [sleepLeft EXCEPT ![p] = stmt.cycles]
                   /\ Becomes(IF IsLast(p) /\ stmt.cycles = 0 THEN "FINISHED" ELSE "WAITING")
              ELSE /\ Becomes(IF IsLast(p) THEN "FINISHED" ELSE "RUNNING")
                   /\ UNCHANGED sleepLeft

(* Variant: no instruction waits for the delay of the one before it.        *)
InstructionAlways(p) == TRUE

InstructionDue(p) == cyclesLeft[p] <= 0

(* Worker::TickExecution: an instruction runs when the delay of the one     *)
(* before it is over, and a process that sleeps or finishes leaves at once. *)
(* DecrementInstructionCyclesLeft stops at zero.                            *)
TickExecution(w, p) ==
  IF InstructionDue(p)
  THEN /\ ExecuteInstructions(p)
       /\ IF state'[p] \in {"WAITING", "FINISHED"}
          THEN current' = Detached(w) /\ UNCHANGED cyclesLeft
          ELSE /\ cyclesLeft' = [cyclesLeft EXCEPT ![p] = Delay]
               /\ UNCHANGED current
  ELSE /\ cyclesLeft' = [cyclesLeft EXCEPT ![p] = IF @ > 0 THEN @ - 1 ELSE @]
       /\ UNCHANGED <<current, state, index, sleepLeft, finishTime>>

(* Worker::RunCycle, with workerMutex held.                                 *)
Cycle(w) ==
  LET p == current[w] IN
  IF p = None
  THEN UNCHANGED <<current, state, index, sleepLeft, cyclesLeft, finishTime>>
  ELSE IF state[p] \in {"FINISHED", "WAITING"}
  THEN current' = Detached(w) /\ UNCHANGED <<state, index, sleepLeft, cyclesLeft, finishTime>>
  ELSE TickExecution(w, p)

RunCycle(w) ==
  /\ phase = "cycle" /\ w \notin done
  /\ done' = done \cup {w}
  /\ Cycle(w)
  /\ UNCHANGED <<ident, lists, preempted, phase, at, tick, batch, creators,
                 quantumUsed, coreNum>>

-----------------------------------------------------------------------------
CLI == Start \/ ResumeGenerating \/ StopGenerating \/ CreateNamedProcess \/ AddProcess

SchedulerLoop ==
  \/ SkipGeneration \/ GenerateProcess \/ CommitGenerated
  \/ WorkersDone \/ CheckQuantum \/ Dispatch
  \/ CollectPreempted \/ RequeuePreempted \/ UpdateSleeping \/ EndTick

Next == CLI \/ SchedulerLoop \/ \E w \in Workers : RunCycle(w)

Spec == Init /\ [][Next]_vars

-----------------------------------------------------------------------------
(* Properties.                                                              *)

Phases == {"off", "generate", "commit", "cycle", "quantum", "dispatch",
           "collect", "requeue", "wake"}
States == {"READY", "RUNNING", "WAITING", "FINISHED"}

ListsOK ==
  /\ processes \in Seq(Procs) /\ queue \in Seq(Procs) /\ batch \in Seq(Procs)

CoresOK ==
  /\ current \in [Workers -> Procs \cup {None}]
  /\ preempted \in [Workers -> Procs \cup {None}]

(* The loop counter stays within the loop of the phase.                     *)
ClockOK ==
  /\ phase \in Phases /\ at \in Nat /\ done \subseteq Workers
  /\ tick \in 0 .. BatchFreq - 1
  /\ phase \in {"quantum", "dispatch", "collect"} => at < NumCpu
  /\ phase = "wake" => at <= Len(processes)
  /\ phase \notin {"quantum", "dispatch", "collect", "wake"} => at = 0

CreatorsOK ==
  /\ generating \in BOOLEAN /\ nextPID \in Nat
  /\ generated \in Procs \cup {None} /\ named \in Procs \cup {None}
  /\ (phase = "commit") <=> (generated # None)
  /\ pid \in [Procs -> Nat] /\ program \in [Procs -> Seq(Statement)]

PcbOK ==
  /\ state \in [Procs -> States]
  /\ index \in [Procs -> Nat]
  /\ sleepLeft \in [Procs -> Int]
  /\ cyclesLeft \in [Procs -> 0 .. Delay]
  /\ quantumUsed \in [Procs -> Nat]
  /\ coreNum \in [Procs -> {-1} \cup Workers]
  /\ finishTime \in [Procs -> BOOLEAN]

(* Every variable keeps the type its declaration in the source gives it.    *)
TypeOK == ListsOK /\ CoresOK /\ ClockOK /\ CreatorsOK /\ PcbOK

Holds(slots, x) == \E w \in Workers : slots[w] = x

InQueue(p) == Has(queue, p)
InBatch(p) == Has(batch, p)
InSlot(p) == Holds(preempted, p)
OnCore(p) == Holds(current, p)
Enlisted(p) == InQueue(p) \/ InBatch(p) \/ InSlot(p) \/ OnCore(p)

NoRepeats(seq) == \A i, j \in 1 .. Len(seq) : seq[i] = seq[j] => i = j
NoSharing(slots) ==
  \A v, w \in Workers : slots[v] = slots[w] /\ slots[v] # None => v = w

(* A process is never in two places: not twice in the ready queue, not on   *)
(* two cores, and not queued while a core, a preemption slot or the         *)
(* scheduler's own preemptedList still holds it.                            *)
AtMostOnePlace ==
  /\ NoRepeats(queue) /\ NoRepeats(batch)
  /\ NoSharing(current) /\ NoSharing(preempted)
  /\ \A p \in Procs :
       /\ InQueue(p) => ~InBatch(p) /\ ~InSlot(p) /\ ~OnCore(p)
       /\ InBatch(p) => ~InSlot(p) /\ ~OnCore(p)
       /\ InSlot(p) => ~OnCore(p)

(* No process is lost: a registered process that is READY is queued or on   *)
(* its way back to the queue, and one that is RUNNING is on a core.         *)
(* Conversely no place holds a process that sleeps or has finished.         *)
NoneLost ==
  \A p \in Procs :
    /\ Registered(p) /\ state[p] = "READY" => InQueue(p) \/ InBatch(p) \/ InSlot(p)
    /\ state[p] = "RUNNING" <=> OnCore(p)
    /\ Enlisted(p) => Registered(p) /\ state[p] \in {"READY", "RUNNING"}

(* A preemption slot is emptied in the tick that filled it, before the next *)
(* preemption on that core could overwrite it.                              *)
SlotsCollected ==
  /\ \A w \in Workers :
       preempted[w] # None => \/ phase = "quantum" /\ w < at
                              \/ phase = "dispatch"
                              \/ phase = "collect" /\ w >= at
  /\ batch # <<>> => phase \in {"collect", "requeue"}

(* A process under construction is known to its creator alone, and starts   *)
(* out READY.                                                               *)
NewcomersApart ==
  /\ generated # None => ~Registered(generated) /\ generated # named
  /\ named # None => ~Registered(named)
  /\ \A p \in Procs : ~Registered(p) => state[p] = "READY"

(* The inductive invariant behind AtMostOnePlace and NoneLost.              *)
Placement == AtMostOnePlace /\ NoneLost /\ SlotsCollected /\ NewcomersApart

(* No core time is given to a process with nothing left to execute, and a   *)
(* process is FINISHED only after its last instruction.                     *)
EnlistedHasWork ==
  \A p \in Procs :
    /\ index[p] <= Len(program[p])
    /\ Enlisted(p) /\ program[p] # <<>> => index[p] < Len(program[p])
    /\ state[p] = "FINISHED" => index[p] = Len(program[p])

(* When a tick ends every process still asleep owes at least one more tick, *)
(* so that nobody oversleeps.                                               *)
NobodyOversleeps ==
  phase \in {"generate", "commit"} =>
    \A p \in Procs : state[p] = "WAITING" => sleepLeft[p] > 0

Ahead(p) == {q \in Procs : \E i, j \in 1 .. Len(queue) : i < j /\ queue[i] = q /\ queue[j] = p}
Behind(p) == {q \in Procs : p \in Ahead(q)}

(* The ready queue is served in order: while p stays queued, nobody gets    *)
(* ahead of it, and nobody behind it is dispatched.                         *)
NoOvertaking ==
  [][\A p \in Procs : InQueue(p) /\ InQueue(p)' =>
       Ahead(p)' \subseteq Ahead(p) /\ Behind(p) \subseteq Behind(p)']_vars

(* Dispatching leaves no core idle beside a process in the queue.  One that *)
(* was preempted in this tick comes to the queue only after this, so that a *)
(* core may stay idle beside it until the next tick.                        *)
WorkConserving ==
  [][phase = "dispatch" /\ phase' # "dispatch"
       => queue' = <<>> \/ \A w \in Workers : current'[w] # None]_vars

(* The documented tie-break: a process that wakes enters the queue behind   *)
(* every process added or preempted in the same tick.                       *)
WokenGoesLast ==
  [][\A p \in Procs : state[p] = "WAITING" /\ state'[p] = "READY"
       => /\ queue'[Len(queue')] = p
          /\ \A q \in Procs : Registered(q) /\ state[q] = "READY" => InQueue(q)]_vars

(* First come, first served: processes get their first core in the order in *)
(* which they were registered, under either algorithm.                      *)
FirstDispatchInOrder ==
  \A i, j \in 1 .. Len(processes) :
    i < j /\ coreNum[processes[j]] # -1 => coreNum[processes[i]] # -1

-----------------------------------------------------------------------------
(* The life of each process, as its user sees it.                           *)
Status == [p \in Procs |-> IF Registered(p) THEN state[p] ELSE "NEW"]
Todo == [p \in Procs |-> IF Registered(p) THEN Len(program[p]) - index[p] ELSE 0]

Life == INSTANCE Lifecycle WITH status <- Status, todo <- Todo

(* Queues, cores, slots and sleeps together take every process through the  *)
(* life that Lifecycle describes: it executes its program once, in order    *)
(* and to the end, one instruction at a time and only while dispatched.     *)
RefinesLifecycle == Life!Spec

-----------------------------------------------------------------------------
(* What comments and tests of the repository say, and the code does not do. *)

(* CreateNamedProcess "assigns it the next available PID": two processes    *)
(* never carry the same PID.                                                *)
UniquePids ==
  \A p, q \in Procs : Registered(p) /\ Registered(q) /\ pid[p] = pid[q] => p = q

(* GetProcessTimeFinish is "empty if not yet finished": a finished process  *)
(* has a finish time.                                                       *)
FinishedIsStamped ==
  \A p \in Procs : state[p] = "FINISHED" => finishTime[p]
=============================================================================

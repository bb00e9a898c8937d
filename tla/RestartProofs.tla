---------------------------- MODULE RestartProofs ----------------------------
(***************************************************************************)
(* However a Stop cuts into a tick, the next launch starts clean.          *)
(*                                                                         *)
(* Between Stop and the end of the wake-up loop a process may be in the    *)
(* queue and on a core, so that AtMostOnePlace fails for a while; what the *)
(* launch needs is that nothing of it outlives the workers and the queue.  *)
(***************************************************************************)
EXTENDS Restart, SchedulerProofs

(* Nobody is in the middle of a Stop.                                       *)
Quiet == running \/ control = "idle"

StagesInv ==
  /\ ~running /\ control = "idle" => alive = {} /\ phase = "off"
  /\ control = "join" => alive = Workers
  /\ \A w \in Workers \ alive : current[w] = None /\ preempted[w] = None

(* A process that falls asleep stays on its core, its SLEEP before it.      *)
FallingInv ==
  \A w \in falling : current[w] # None /\ index[current[w]] < Len(program[current[w]])

(* What holds even in the middle of a Stop: whoever has a place is known,   *)
(* and who was dropped has none.                                            *)
DroppedInv ==
  /\ NoSharing(current) /\ dropped \subseteq Procs
  /\ \A p \in Procs : Enlisted(p) => Registered(p) /\ p \notin dropped
  /\ \A p \in dropped : Registered(p) /\ state[p] \in {"READY", "RUNNING"}

PlacesInv == SlotsCollected /\ NewcomersApart /\ DroppedInv

(* The order is lost in the wake-up loop of a tick that Stop has cut into,  *)
(* and comes back when the queue is emptied.                                *)
Orderly == Quiet \/ phase \notin {"wake", "off"}

CleanInv ==
  /\ Orderly => AtMostOnePlace
  /\ Quiet => \A p \in Procs :
       /\ Registered(p) /\ state[p] \in {"READY", "RUNNING"} => Enlisted(p) \/ p \in dropped
       /\ Enlisted(p) => state[p] \in {"READY", "RUNNING"}

RestartInv == RestartTypeOK /\ StagesInv /\ FallingInv /\ PlacesInv /\ CleanInv

-----------------------------------------------------------------------------
(* Types.                                                                   *)

LEMMA TypeControl ==
  ASSUME TypeOK, StagesInv, Control
  PROVE  TypeOK'
<1> USE SchedulerAssumption DEF TypeOK, ident, lists, cores, clock, creators, pcb
<1>1. CASE Launch
  <2>1. ListsOK' /\ CoresOK' /\ PcbOK'
    BY <1>1 DEF Launch, ListsOK, CoresOK, PcbOK
  <2>2. ClockOK'
    BY <1>1 DEF Launch, ClockOK, Phases
  <2>3. CreatorsOK'
    BY <1>1 DEF Launch, CreatorsOK, StagesInv
  <2> QED
    BY <2>1, <2>2, <2>3
<1>2. CASE Stop
  <2>1. ListsOK' /\ CoresOK' /\ PcbOK'
    BY <1>2 DEF Stop, ListsOK, CoresOK, PcbOK
  <2>2. ClockOK'
    BY <1>2 DEF Stop, ClockOK, Phases
  <2>3. CreatorsOK'
    BY <1>2 DEF Stop, CreatorsOK
  <2> QED
    BY <2>1, <2>2, <2>3
<1>3. CASE JoinScheduler
  BY <1>3 DEF JoinScheduler, vars, ListsOK, CoresOK, ClockOK, CreatorsOK, PcbOK
<1>4. ASSUME NEW w \in Workers, StopWorker(w) PROVE TypeOK'
  <2>1. ListsOK' /\ ClockOK' /\ CreatorsOK' /\ PcbOK'
    BY <1>4 DEF StopWorker, ListsOK, ClockOK, CreatorsOK, PcbOK
  <2>2. CoresOK'
    BY <1>4 DEF StopWorker, CoresOK
  <2> QED
    BY <2>1, <2>2
<1>5. CASE EmptyQueue
  <2>1. CoresOK' /\ ClockOK' /\ CreatorsOK' /\ PcbOK'
    BY <1>5 DEF EmptyQueue, CoresOK, ClockOK, CreatorsOK, PcbOK
  <2>2. ListsOK'
    BY <1>5 DEF EmptyQueue, QueueEmptied, ListsOK
  <2> QED
    BY <2>1, <2>2
<1> QED
  BY <1>1, <1>2, <1>3, <1>4, <1>5 DEF Control

LEMMA TypeLoop == TypeOK /\ Loop => TypeOK'
<1> SUFFICES ASSUME TypeOK, Loop PROVE TypeOK'
  OBVIOUS
<1>1. CASE ReturnEarly
  <2> USE <1>1, SchedulerAssumption
      DEF ReturnEarly, TypeOK, ident, lists, cores, creators, pcb
  <2>1. ListsOK' /\ CoresOK' /\ PcbOK'
    BY DEF ListsOK, CoresOK, PcbOK
  <2>2. phase' \in {"quantum", "dispatch", "collect"}
    BY DEF ServePhase
  <2>3. ClockOK' /\ CreatorsOK'
    BY <2>2 DEF ClockOK, CreatorsOK, Phases
  <2> QED
    BY <2>1, <2>3
<1>2. CASE LeaveLoop
  <2> USE <1>2 DEF LeaveLoop, TypeOK, ident, lists, cores, creators, pcb
  <2>1. ListsOK' /\ CoresOK' /\ PcbOK'
    BY DEF ListsOK, CoresOK, PcbOK
  <2>2. ClockOK' /\ CreatorsOK'
    BY SchedulerAssumption DEF ClockOK, CreatorsOK, Phases
  <2> QED
    BY <2>1, <2>2
<1> QED
  BY <1>1, <1>2, TypeGenerate, TypeTick, TypeRequeue DEF Loop

LEMMA TypeCore ==
  ASSUME TypeOK, FallingInv, NEW w \in Workers, Core(w)
  PROVE  TypeOK'
<1> DEFINE p == current[w]
<1> USE SchedulerAssumption DEF TypeOK
<1>0. p \in Procs \cup {None}
  BY DEF CoresOK
<1>1. CASE TimelyCycle(w)
  BY <1>1, TypeRunCycle DEF TimelyCycle
<1>2. CASE LateCycle(w)
  BY <1>2, TypeCycle DEF LateCycle
<1>3. CASE FallAsleep(w)
  <2> USE <1>3 DEF FallAsleep, ident, lists, cores, clock, creators
  <2>1. ListsOK' /\ CoresOK' /\ ClockOK' /\ CreatorsOK'
    BY DEF ListsOK, CoresOK, ClockOK, CreatorsOK
  <2>2. PcbOK'
    BY DEF PcbOK, States
  <2> QED
    BY <2>1, <2>2
<1>4. CASE SettleAsleep(w)
  <2>1. p \in Procs /\ index[p] \in Nat /\ index[p] < Len(program[p])
    BY <1>0, <1>4 DEF SettleAsleep, FallingInv, PcbOK
  <2>2. program[p][index[p] + 1].cycles \in Int
    <3>1. program[p] \in Seq(Statement)
      BY <2>1 DEF CreatorsOK
    <3>2. program[p][index[p] + 1] \in Statement
      BY <2>1, <3>1
    <3> QED
      BY <3>2 DEF Statement
  <2>3. ListsOK' /\ ClockOK' /\ CreatorsOK'
    BY <1>4 DEF SettleAsleep, ident, lists, creators, ListsOK, ClockOK, CreatorsOK
  <2>4. CoresOK'
    BY <1>4 DEF SettleAsleep, Detached, CoresOK
  <2>5. PcbOK'
    <3> DEFINE s == IF IsLast(p) /\ program[p][index[p] + 1].cycles = 0
                    THEN "FINISHED" ELSE state[p]
    <3>1. s \in States
      BY <2>1 DEF PcbOK, States
    <3>2. /\ state' = [state EXCEPT ![p] = s]
          /\ finishTime' = [finishTime EXCEPT ![p] = @ \/ s = "FINISHED"]
          /\ index' = [index EXCEPT ![p] = @ + 1]
          /\ sleepLeft' = [sleepLeft EXCEPT ![p] = program[p][index[p] + 1].cycles]
          /\ cyclesLeft' = cyclesLeft \/ cyclesLeft' = [cyclesLeft EXCEPT ![p] = Delay]
          /\ UNCHANGED <<quantumUsed, coreNum>>
      BY <1>4 DEF SettleAsleep
    <3> HIDE DEF s, p
    <3>3. state' \in [Procs -> States] /\ index' \in [Procs -> Nat]
      BY <2>1, <3>1, <3>2 DEF PcbOK
    <3>4. sleepLeft' \in [Procs -> Int] /\ cyclesLeft' \in [Procs -> 0 .. Delay]
      <4>1. Delay \in 0 .. Delay
        OBVIOUS
      <4>2. sleepLeft' \in [Procs -> Int]
        BY <2>2, <3>2 DEF PcbOK
      <4>3. cyclesLeft' \in [Procs -> 0 .. Delay]
        BY <3>2, <4>1 DEF PcbOK
      <4> QED
        BY <4>2, <4>3
    <3>5. finishTime' \in [Procs -> BOOLEAN]
      <4>1. (finishTime[p] \/ s = "FINISHED") \in BOOLEAN
        OBVIOUS
      <4> QED
        BY <3>2, <4>1 DEF PcbOK
    <3> QED
      BY <3>2, <3>3, <3>4, <3>5 DEF PcbOK
  <2> QED
    BY <2>3, <2>4, <2>5
<1> QED
  BY <1>1, <1>2, <1>3, <1>4 DEF Core

-----------------------------------------------------------------------------
(* Where the calling thread is.                                             *)

(* Nothing of the scheduler thread runs between the join and the launch.    *)
LEMMA LoopStage ==
  ASSUME RestartTypeOK, StagesInv, Loop
  PROVE  (running \/ control = "join") /\ alive = Workers /\ phase # "off"
<1>1. phase # "off"
  BY DEF Loop, SkipGeneration, GenerateProcess, CommitGenerated, WorkersDone, ReturnEarly,
     CheckQuantum, Dispatch, CollectPreempted, RequeuePreempted, UpdateSleeping, EndTick, LeaveLoop
<1> QED
  BY <1>1 DEF RestartTypeOK, StagesInv

(* A cycle of a core is its process's alone, and takes it off the core when *)
(* it is no longer to run.                                                  *)
LEMMA CycleEffect ==
  ASSUME TypeOK, NEW w \in Workers, Cycle(w)
  PROVE  LET p == current[w] IN
         /\ current' = current \/ current' = Detached(w)
         /\ p = None => UNCHANGED <<current, state, index>>
         /\ p # None =>
              /\ p \in Procs
              /\ \A q \in Procs : q # p => state'[q] = state[q] /\ index'[q] = index[q]
              /\ state[p] \notin {"READY", "RUNNING"} => UNCHANGED state
              /\ state[p] \in {"READY", "RUNNING"} =>
                   \/ current' = Detached(w) /\ state'[p] \in {"WAITING", "FINISHED"}
                   \/ current' = current /\ state'[p] \in {"READY", "RUNNING"}
<1> DEFINE p == current[w]
<1>1. p \in Procs \cup {None}
  BY DEF TypeOK, CoresOK
<1>2. CASE p = None \/ state[p] \in {"FINISHED", "WAITING"}
  BY <1>1, <1>2 DEF Cycle
<1>3. CASE p # None /\ state[p] \notin {"FINISHED", "WAITING"}
  <2>1. p \in Procs /\ TickExecution(w, p) /\ state[p] \in {"READY", "RUNNING"}
    BY <1>1, <1>3 DEF Cycle, TypeOK, PcbOK, States
  <2>2. CASE InstructionDue(p)
    <3>1. ExecuteInstructions(p)
      BY <2>1, <2>2 DEF TickExecution
    <3>2. /\ state' = [state EXCEPT ![p] = state'[p]]
          /\ state'[p] \in {"RUNNING", "WAITING", "FINISHED"}
      BY <2>1, <3>1, ExecuteType DEF TypeOK
    <3>3. \A q \in Procs : q # p => state'[q] = state[q] /\ index'[q] = index[q]
      <4>1. index' = index \/ index' = [index EXCEPT ![p] = @ + 1]
        BY <3>1 DEF ExecuteInstructions
      <4> HIDE DEF p
      <4> QED
        BY <3>2, <4>1 DEF TypeOK, PcbOK
    <3>4. \/ current' = Detached(w) /\ state'[p] \in {"WAITING", "FINISHED"}
          \/ current' = current /\ state'[p] = "RUNNING"
      <4> HIDE DEF p
      <4> QED
        BY <2>1, <2>2, <3>2 DEF TickExecution
    <3> QED
      BY <1>3, <2>1, <3>3, <3>4
  <2>3. CASE ~InstructionDue(p)
    BY <1>3, <2>1, <2>3 DEF TickExecution
  <2> QED
    BY <2>2, <2>3
<1> QED
  BY <1>2, <1>3

LEMMA StageControl ==
  ASSUME RestartInv, Control, TypeOK'
  PROVE  RestartTypeOK' /\ StagesInv'
<1> USE DEF RestartInv, RestartTypeOK, StagesInv, clock
<1>1. CASE Launch
  BY <1>1 DEF Launch
<1>2. CASE Stop
  BY <1>2 DEF Stop, cores
<1>3. CASE JoinScheduler
  BY <1>3 DEF JoinScheduler, vars, cores
<1>4. ASSUME NEW w \in Workers, StopWorker(w) PROVE RestartTypeOK' /\ StagesInv'
  BY <1>4 DEF StopWorker, MutexHeld, TypeOK, CoresOK
<1>5. CASE EmptyQueue
  BY <1>5 DEF EmptyQueue, cores
<1> QED
  BY <1>1, <1>2, <1>3, <1>4, <1>5 DEF Control

LEMMA StageCalls ==
  ASSUME RestartInv, Calls, TypeOK'
  PROVE  RestartTypeOK' /\ StagesInv'
<1>1. UNCHANGED <<launch, clock, cores>>
  BY DEF Calls, CreateNamedProcess, AddProcess, ResumeGenerating, StopGenerating
<1> QED
  BY <1>1 DEF RestartInv, RestartTypeOK, StagesInv, launch, clock, cores

LEMMA StageLoop ==
  ASSUME RestartInv, Loop, TypeOK'
  PROVE  RestartTypeOK' /\ StagesInv'
<1>1. (running \/ control = "join") /\ alive = Workers /\ phase # "off"
  BY LoopStage DEF RestartInv
<1>2. running => phase' # "off"
  BY <1>1 DEF Loop, SkipGeneration, GenerateProcess, CommitGenerated, TriggerWorkers, WorkersDone,
     ReturnEarly, ServePhase, CheckQuantum, Dispatch, CollectPreempted, NextWorker,
     RequeuePreempted, UpdateSleeping, EndTick, LeaveLoop
<1>3. UNCHANGED launch
  BY DEF Loop
<1> QED
  BY <1>1, <1>2, <1>3 DEF RestartInv, RestartTypeOK, StagesInv, launch

LEMMA StageCore ==
  ASSUME RestartInv, NEW w \in Workers, Core(w), TypeOK'
  PROVE  RestartTypeOK' /\ StagesInv'
<1> USE DEF RestartInv, RestartTypeOK, StagesInv, launch
<1>1. /\ UNCHANGED <<phase, preempted, running, control, alive, dropped>>
      /\ w \in alive
      /\ running => UNCHANGED falling
      /\ falling' \subseteq falling \cup {w}
  BY DEF Core, TimelyCycle, RunCycle, LateCycle, FallAsleep, SettleAsleep, Owes, cores, clock
<1>2. \A v \in Workers : v # w => current'[v] = current[v]
  BY CycleEffect DEF Core, TimelyCycle, RunCycle, LateCycle, FallAsleep, SettleAsleep,
     Detached, cores, TypeOK, CoresOK
<1> QED
  BY <1>1, <1>2

-----------------------------------------------------------------------------
(* A SLEEP that has begun stays the next instruction of its core.           *)

LEMMA FallingControl ==
  ASSUME RestartInv, Control \/ Calls
  PROVE  FallingInv'
<1> USE DEF RestartInv, RestartTypeOK, StagesInv
<1>1. CASE Calls \/ Launch \/ Stop \/ EmptyQueue
  <2>1. falling' = {}
    BY <1>1 DEF Calls, Launch, Stop, EmptyQueue, launch
  <2> QED
    BY <2>1 DEF FallingInv
<1>2. CASE JoinScheduler
  BY <1>2 DEF JoinScheduler, FallingInv, vars, cores, ident, pcb
<1>3. ASSUME NEW w \in Workers, StopWorker(w) PROVE FallingInv'
  BY <1>3 DEF StopWorker, MutexHeld, FallingInv, ident, pcb
<1> QED
  BY <1>1, <1>2, <1>3 DEF Control

LEMMA FallingLoop ==
  ASSUME RestartInv, Loop
  PROVE  FallingInv'
<1> USE DEF RestartInv, RestartTypeOK
<1>1. UNCHANGED <<index, falling>>
  BY DEF Loop, launch, SkipGeneration, GenerateProcess, CommitGenerated, WorkersDone, ReturnEarly,
     CheckQuantum, Dispatch, CollectPreempted, RequeuePreempted, UpdateSleeping, EndTick, LeaveLoop, pcb
<1>2. ASSUME NEW v \in falling PROVE current'[v] = current[v]
  <2>1. phase \in {"quantum", "dispatch"} => at # v
    BY DEF Loop, CoreFree, MutexHeld
  <2>2. UNCHANGED current \/ CheckQuantum \/ Dispatch
    BY DEF Loop, SkipGeneration, GenerateProcess, CommitGenerated, WorkersDone, ReturnEarly,
       CollectPreempted, RequeuePreempted, UpdateSleeping, EndTick, LeaveLoop, cores
  <2> QED
    BY <2>1, <2>2 DEF CheckQuantum, Dispatch, AssignProcess, Detached, cores, TypeOK, CoresOK
<1>3. ASSUME NEW p \in Procs, Registered(p) PROVE program'[p] = program[p]
  BY <1>3 DEF Loop, SkipGeneration, GenerateProcess, CommitGenerated, WorkersDone, ReturnEarly,
     CheckQuantum, Dispatch, CollectPreempted, RequeuePreempted, UpdateSleeping, EndTick, LeaveLoop,
     ident, Construct, Fresh, TypeOK, CreatorsOK
<1>4. \A v \in falling : current[v] # None => current[v] \in Procs /\ Registered(current[v])
  BY DEF PlacesInv, DroppedInv, Enlisted, OnCore, Holds, TypeOK, CoresOK
<1> QED
  BY <1>1, <1>2, <1>3, <1>4 DEF FallingInv

LEMMA FallingCore ==
  ASSUME RestartInv, NEW w \in Workers, Core(w)
  PROVE  FallingInv'
<1> USE DEF RestartInv, RestartTypeOK, launch
<1>1. UNCHANGED program
  BY DEF Core, TimelyCycle, RunCycle, LateCycle, FallAsleep, SettleAsleep, ident
<1>2. ASSUME NEW v \in falling, v # w PROVE current'[v] = current[v]
  BY <1>2, CycleEffect DEF Core, TimelyCycle, RunCycle, LateCycle, FallAsleep, SettleAsleep,
     Detached, cores, TypeOK, CoresOK
<1>3. ASSUME NEW v \in falling, v # w, current[v] # None PROVE index'[current[v]] = index[current[v]]
  <2>1. current[v] \in Procs /\ current[v] # current[w] /\ v \in Workers
    BY <1>3 DEF PlacesInv, DroppedInv, NoSharing, TypeOK, CoresOK
  <2> QED
    BY <2>1, CycleEffect DEF Core, TimelyCycle, RunCycle, LateCycle, FallAsleep, SettleAsleep,
       TypeOK, PcbOK
<1>4. CASE FallAsleep(w)
  BY <1>1, <1>4 DEF FallAsleep, FallsAsleep, FallingInv, cores
<1>5. CASE ~FallAsleep(w)
  <2>1. falling' \subseteq falling /\ w \notin falling'
    BY <1>5 DEF Core, TimelyCycle, LateCycle, SettleAsleep, Owes
  <2> QED
    BY <1>1, <1>2, <1>3, <2>1 DEF FallingInv
<1> QED
  BY <1>4, <1>5

-----------------------------------------------------------------------------
(* The slots and the newcomers.                                             *)

LEMMA SlotsLoop ==
  ASSUME TypeOK, SlotsCollected, Loop
  PROVE  SlotsCollected'
<1> USE DEF SlotsCollected
<1>1. CASE UNCHANGED <<preempted, batch>> /\ phase \notin {"quantum", "dispatch", "collect", "requeue"}
  <2>1. batch' = <<>> /\ \A w \in Workers : preempted'[w] = None
    BY <1>1
  <2> QED
    BY <2>1
<1>2. CASE CheckQuantum
  <2>1. /\ at \in Workers /\ at \in Nat /\ phase = "quantum" /\ batch' = batch
        /\ \/ phase' = "quantum" /\ at' = at + 1
           \/ phase' = "dispatch"
        /\ \A w \in Workers : w # at => preempted'[w] = preempted[w]
    BY <1>2, NextWorkerStep DEF CheckQuantum, cores, TypeOK, ClockOK, CoresOK
  <2> QED
    BY <2>1 DEF Workers
<1>3. CASE Dispatch
  <2>1. /\ phase = "dispatch" /\ UNCHANGED <<preempted, batch>>
        /\ phase' = "dispatch" \/ (phase' = "collect" /\ at' = 0)
    BY <1>3 DEF Dispatch, NextWorker
  <2> QED
    BY <2>1 DEF Workers
<1>4. CASE CollectPreempted
  <2>1. /\ at \in Workers /\ at \in Nat /\ phase = "collect"
        /\ \/ phase' = "collect" /\ at' = at + 1
           \/ phase' = "requeue" /\ \A w \in Workers : w <= at
    BY <1>4, NextWorkerStep DEF CollectPreempted, TypeOK, ClockOK
  <2>2. \A w \in Workers : preempted'[w] # None => preempted[w] # None /\ w # at
    BY <1>4 DEF CollectPreempted, SlotCleared, TypeOK, CoresOK
  <2> QED
    BY <2>1, <2>2 DEF Workers
<1>5. CASE RequeuePreempted
  BY <1>5 DEF RequeuePreempted, cores
<1> QED
  BY <1>1, <1>2, <1>3, <1>4, <1>5 DEF Loop, SkipGeneration, GenerateProcess, CommitGenerated,
     WorkersDone, ReturnEarly, UpdateSleeping, EndTick, LeaveLoop, cores

(* Steps that make nobody and register nobody.                              *)
LEMMA NewcomersKept ==
  ASSUME NewcomersApart, UNCHANGED <<processes, generated, named>>,
         \A p \in Procs : ~Registered(p) => state'[p] = state[p]
  PROVE  NewcomersApart'
  BY DEF NewcomersApart, Registered

LEMMA NewcomersCalls ==
  ASSUME TypeOK, NewcomersApart, Calls
  PROVE  NewcomersApart'
<1>1. CASE CreateNamedProcess
  BY <1>1 DEF CreateNamedProcess, NewcomersApart, Registered, Fresh, lists, pcb
<1>2. CASE AddProcess
  <2>1. \A q \in Procs : Registered(q)' <=> Registered(q) \/ q = named
    BY <1>2, HasAppend DEF AddProcess, Register, Registered, TypeOK, ListsOK, CreatorsOK
  <2> QED
    BY <1>2, <2>1, SchedulerAssumption DEF AddProcess, NewcomersApart, TypeOK, CreatorsOK, pcb
<1>3. CASE ResumeGenerating \/ StopGenerating
  BY <1>3, NewcomersKept DEF ResumeGenerating, StopGenerating, lists, pcb
<1> QED
  BY <1>1, <1>2, <1>3 DEF Calls

LEMMA NewcomersLoop ==
  ASSUME TypeOK, NewcomersApart, DroppedInv, Loop
  PROVE  NewcomersApart'
<1>1. CASE GenerateProcess
  <2>1. generated = None
    BY <1>1 DEF GenerateProcess, TypeOK, CreatorsOK
  <2> QED
    BY <1>1, <2>1 DEF GenerateProcess, NewcomersApart, Registered, Fresh, lists, pcb
<1>2. CASE CommitGenerated
  <2>1. generated \in Procs
    BY <1>2 DEF CommitGenerated, TypeOK, CreatorsOK
  <2>2. \A q \in Procs : Registered(q)' <=> Registered(q) \/ q = generated
    BY <1>2, <2>1, HasAppend DEF CommitGenerated, Register, Registered, TypeOK, ListsOK
  <2> QED
    BY <1>2, <2>1, <2>2, SchedulerAssumption
    DEF CommitGenerated, NewcomersApart, TypeOK, CreatorsOK, pcb
<1>3. CASE CheckQuantum
  <2>1. at \in Workers
    BY <1>3, NextWorkerStep DEF CheckQuantum
  <2>2. \A p \in Procs : p = current[at] => Registered(p)
    BY <2>1 DEF DroppedInv, Enlisted, OnCore, Holds
  <2> QED
    BY <1>3, <2>2, NewcomersKept DEF CheckQuantum, lists, creators, TypeOK, PcbOK
<1>4. CASE Dispatch
  <2>1. queue # <<>> => Head(queue) = queue[1] /\ 1 \in 1 .. Len(queue) /\ Head(queue) \in Procs
    BY DEF TypeOK, ListsOK
  <2>2. queue # <<>> => Registered(Head(queue))
    BY <2>1 DEF DroppedInv, Enlisted, InQueue, Has
  <2> QED
    BY <1>4, <2>2, NewcomersKept DEF Dispatch, AssignProcess, creators, TypeOK, PcbOK
<1>5. CASE UpdateSleeping
  <2>1. Registered(processes[at + 1]) /\ processes[at + 1] \in Procs
    BY <1>5 DEF UpdateSleeping, Registered, Has, TypeOK, ListsOK, ClockOK
  <2> QED
    BY <1>5, <2>1, NewcomersKept DEF UpdateSleeping, creators, TypeOK, PcbOK
<1> QED
  BY <1>1, <1>2, <1>3, <1>4, <1>5, NewcomersKept DEF Loop, SkipGeneration, WorkersDone, ReturnEarly,
     CollectPreempted, RequeuePreempted, EndTick, LeaveLoop, lists, creators, pcb

-----------------------------------------------------------------------------
(* Who is where.                                                            *)

(* Steps that move nobody.                                                  *)
LEMMA NobodyMoves ==
  ASSUME DroppedInv, CleanInv, Orderly' => Orderly, Quiet' => Quiet,
         UNCHANGED <<processes, queue, batch, current, preempted, state, dropped>>
  PROVE  DroppedInv' /\ CleanInv'
<1> USE DEF InQueue, InBatch, InSlot, OnCore, Registered
<1>1. DroppedInv'
  BY DEF DroppedInv, Enlisted, NoSharing
<1>2. AtMostOnePlace => AtMostOnePlace'
  BY DEF AtMostOnePlace, NoRepeats, NoSharing
<1>3. CleanInv'
  BY <1>2 DEF CleanInv, Enlisted
<1> QED
  BY <1>1, <1>3

LEMMA MovesControl ==
  ASSUME RestartInv, Control
  PROVE  PlacesInv' /\ CleanInv'
<1> USE DEF RestartInv, PlacesInv
<1>1. CASE Launch
  <2>1. DroppedInv' /\ CleanInv'
    BY <1>1, NobodyMoves DEF Launch, Quiet, Orderly, lists, cores, pcb
  <2>2. SlotsCollected'
    BY <1>1 DEF Launch, StagesInv, SlotsCollected, cores
  <2>3. NewcomersApart'
    BY <1>1, NewcomersKept DEF Launch, lists, pcb
  <2> QED
    BY <2>1, <2>2, <2>3
<1>2. CASE Stop
  <2>1. DroppedInv' /\ CleanInv'
    BY <1>2, NobodyMoves DEF Stop, Quiet, Orderly, lists, cores, pcb
  <2>2. SlotsCollected'
    BY <1>2 DEF Stop, SlotsCollected, cores
  <2>3. NewcomersApart'
    BY <1>2, NewcomersKept DEF Stop, lists, pcb
  <2> QED
    BY <2>1, <2>2, <2>3
<1>3. CASE JoinScheduler
  <2> USE <1>3 DEF JoinScheduler, vars, lists, cores, clock, creators, pcb
  <2>1. DroppedInv' /\ CleanInv'
    BY NobodyMoves DEF RestartTypeOK, Quiet, Orderly
  <2>2. SlotsCollected'
    BY DEF SlotsCollected
  <2>3. NewcomersApart'
    BY NewcomersKept
  <2> QED
    BY <2>1, <2>2, <2>3
<1>4. ASSUME NEW w \in Workers, StopWorker(w) PROVE PlacesInv' /\ CleanInv'
  <2> USE <1>4 DEF StopWorker, lists, clock, creators, pcb
  <2>1. ~running /\ phase = "off" /\ ~Quiet' /\ ~Orderly'
    BY DEF RestartTypeOK, Quiet, Orderly
  <2>2. SlotsCollected'
    BY <2>1 DEF SlotsCollected, RestartTypeOK, TypeOK, CoresOK
  <2>3. NewcomersApart'
    BY NewcomersKept
  <2>4. \A q \in Procs : Enlisted(q)' => Enlisted(q)
    BY SchedulerAssumption
    DEF Enlisted, InQueue, InBatch, InSlot, OnCore, Holds, RestartTypeOK, TypeOK, CoresOK
  <2>5. NoSharing(current)'
    BY HoldsClear DEF DroppedInv, RestartTypeOK, TypeOK, CoresOK
  <2>6. DroppedInv'
    BY <2>4, <2>5 DEF DroppedInv, Registered
  <2>7. CleanInv'
    BY <2>1 DEF CleanInv
  <2> QED
    BY <2>2, <2>3, <2>6, <2>7
<1>5. CASE EmptyQueue
  <2> USE <1>5 DEF EmptyQueue, QueueEmptied, cores, clock, creators, pcb
  <2>1. phase = "off" /\ (\A w \in Workers : current[w] = None /\ preempted[w] = None) /\ batch = <<>>
    BY DEF RestartTypeOK, StagesInv, SlotsCollected
  <2>2. SlotsCollected'
    BY <2>1 DEF SlotsCollected
  <2>3. NewcomersApart'
    BY NewcomersKept
  <2>4. \A q \in Procs : ~InQueue(q)' /\ ~InBatch(q)' /\ ~InSlot(q)' /\ ~OnCore(q)'
    BY <2>1, HasEmpty, SchedulerAssumption DEF InQueue, InBatch, InSlot, OnCore, Holds
  <2>5. AtMostOnePlace' /\ NoSharing(current)'
    <3>1. Len(<<>>) = 0
      OBVIOUS
    <3>2. NoRepeats(queue)' /\ NoRepeats(batch)'
      BY <2>1, <3>1 DEF NoRepeats
    <3> QED
      BY <2>1, <2>4, <3>2 DEF AtMostOnePlace, NoSharing
  <2>6. \A p \in dropped' : Registered(p)' /\ state'[p] \in {"READY", "RUNNING"}
    BY DEF DroppedInv, Registered
  <2>7. DroppedInv'
    BY <2>4, <2>5, <2>6 DEF DroppedInv, Enlisted
  <2>8. \A p \in Procs : Registered(p)' /\ state'[p] \in {"READY", "RUNNING"} => p \in dropped'
    BY DEF Registered
  <2>9. CleanInv'
    BY <2>4, <2>5, <2>8 DEF CleanInv, Enlisted
  <2> QED
    BY <2>2, <2>3, <2>7, <2>9
<1> QED
  BY <1>1, <1>2, <1>3, <1>4, <1>5 DEF Control

(* A newcomer is registered while the order holds.                          *)
LEMMA NewcomerMoves ==
  ASSUME TypeOK, NewcomersApart, DroppedInv, CleanInv, AtMostOnePlace,
         NEW p \in Procs, ~Registered(p), Register(p), Quiet' => Quiet,
         UNCHANGED <<batch, current, preempted, state, dropped>>
  PROVE  DroppedInv' /\ CleanInv'
<1>1. ~Enlisted(p) /\ state[p] = "READY" /\ p \notin dropped
  BY DEF DroppedInv, NewcomersApart
<1>2. \A q \in Procs : Registered(q)' <=> Registered(q) \/ q = p
  BY HasAppend DEF Register, Registered, TypeOK, ListsOK
<1>3. AtMostOnePlace' /\ \A q \in Procs : Enlisted(q)' <=> Enlisted(q) \/ q = p
  BY <1>1, Enqueue DEF Register, Enlisted
<1>4. \A q \in dropped : q \in Procs => Registered(q)'
  BY <1>2 DEF DroppedInv
<1>5. DroppedInv'
  BY <1>1, <1>2, <1>3 DEF DroppedInv, AtMostOnePlace, Registered, Register, Has
<1>6. CleanInv'
  BY <1>1, <1>2, <1>3 DEF CleanInv
<1> QED
  BY <1>5, <1>6

LEMMA MovesCalls ==
  ASSUME RestartInv, Calls
  PROVE  PlacesInv' /\ CleanInv'
<1> USE DEF RestartInv, RestartTypeOK, PlacesInv, Calls, launch
<1>1. UNCHANGED <<clock, cores>>
  BY DEF CreateNamedProcess, AddProcess, ResumeGenerating, StopGenerating
<1>2. SlotsCollected'
  BY <1>1 DEF SlotsCollected, clock, cores
<1>3. NewcomersApart'
  BY NewcomersCalls
<1>4. Quiet' = Quiet /\ Orderly' = Orderly /\ Quiet
  BY <1>1 DEF Quiet, Orderly, clock
<1>5. CASE AddProcess
  <2>1. named \in Procs /\ ~Registered(named)
    BY <1>5 DEF AddProcess, NewcomersApart, TypeOK, CreatorsOK
  <2>2. AtMostOnePlace
    BY <1>4 DEF CleanInv, Orderly
  <2> QED
    BY <1>2, <1>3, <1>4, <1>5, <2>1, <2>2, NewcomerMoves DEF AddProcess, cores, clock, pcb
<1>6. CASE ~AddProcess
  <2>1. UNCHANGED <<lists, cores, clock, pcb, dropped>>
    BY <1>6 DEF CreateNamedProcess, ResumeGenerating, StopGenerating
  <2> QED
    BY <1>2, <1>3, <1>4, <2>1, NobodyMoves DEF lists, cores, clock, pcb
<1> QED
  BY <1>5, <1>6

(* Moves within the order: whoever has a place keeps one and may run on.    *)
LEMMA OrderKept ==
  ASSUME DroppedInv, CleanInv, AtMostOnePlace', Quiet' => Quiet,
         UNCHANGED <<processes, dropped>>,
         \A q \in Procs : /\ Enlisted(q)' <=> Enlisted(q)
                          /\ \/ state'[q] = state[q]
                             \/ Enlisted(q) /\ state'[q] \in {"READY", "RUNNING"}
  PROVE  DroppedInv' /\ CleanInv'
<1> USE DEF Registered
<1>1. \A q \in dropped : q \in Procs => state'[q] = state[q]
  BY DEF DroppedInv
<1>2. DroppedInv'
  BY <1>1 DEF DroppedInv, AtMostOnePlace
<1>3. CleanInv'
  BY DEF CleanInv, DroppedInv
<1> QED
  BY <1>2, <1>3

LEMMA MovesQuantum ==
  ASSUME TypeOK, SlotsCollected, DroppedInv, CleanInv, CheckQuantum, UNCHANGED launch
  PROVE  DroppedInv' /\ CleanInv'
<1>1. /\ at \in Workers /\ phase = "quantum" /\ Orderly /\ AtMostOnePlace /\ Quiet' = Quiet
      /\ UNCHANGED <<processes, queue, batch, dropped>>
  BY NextWorkerStep DEF CheckQuantum, CleanInv, Orderly, Quiet, launch, lists
<1>2. CASE UNCHANGED <<current, preempted, state>>
  BY <1>1, <1>2, NobodyMoves
<1>3. CASE ~UNCHANGED <<current, preempted, state>>
  <2>1. PICK p \in Procs : /\ p = current[at] /\ state[p] = "RUNNING"
                           /\ state' = [state EXCEPT ![p] = "READY"]
                           /\ current' = [current EXCEPT ![at] = None]
                           /\ preempted' = [preempted EXCEPT ![at] = p]
    BY <1>1, <1>3 DEF CheckQuantum, Detached, cores, TypeOK, CoresOK
  <2>2. preempted[at] = None
    BY <1>1 DEF SlotsCollected, TypeOK, ClockOK
  <2>3. /\ AtMostOnePlace' /\ OnCore(p)
        /\ \A q \in Procs : Enlisted(q)' <=> Enlisted(q)
    BY <1>1, <2>1, <2>2, CoreToSlot DEF Enlisted
  <2>4. \A q \in Procs : state'[q] = IF q = p THEN "READY" ELSE state[q]
    BY <2>1 DEF TypeOK, PcbOK
  <2> QED
    BY <1>1, <2>3, <2>4, OrderKept DEF Enlisted
<1> QED
  BY <1>2, <1>3

LEMMA MovesDispatch ==
  ASSUME TypeOK, DroppedInv, CleanInv, Dispatch, UNCHANGED launch
  PROVE  DroppedInv' /\ CleanInv'
<1>1. /\ at \in Workers /\ phase = "dispatch" /\ Orderly /\ AtMostOnePlace /\ Quiet' = Quiet
      /\ UNCHANGED <<processes, preempted, batch, dropped>>
  BY NextWorkerStep DEF Dispatch, CleanInv, Orderly, Quiet, launch
<1>2. CASE UNCHANGED <<queue, current, state>>
  BY <1>1, <1>2, NobodyMoves
<1>3. CASE ~UNCHANGED <<queue, current, state>>
  <2>1. PICK p \in Procs : /\ queue # <<>> /\ p = Head(queue) /\ current[at] = None
                           /\ state' = [state EXCEPT ![p] = "RUNNING"]
                           /\ current' = [current EXCEPT ![at] = p]
                           /\ queue' = Tail(queue)
    BY <1>3 DEF Dispatch, AssignProcess, IsBusy, TypeOK, ListsOK
  <2>2. /\ AtMostOnePlace' /\ InQueue(p)
        /\ \A q \in Procs : Enlisted(q)' <=> Enlisted(q)
    BY <1>1, <2>1, QueueToCore DEF Enlisted
  <2>3. \A q \in Procs : state'[q] = IF q = p THEN "RUNNING" ELSE state[q]
    BY <2>1 DEF TypeOK, PcbOK
  <2> QED
    BY <1>1, <2>2, <2>3, OrderKept DEF Enlisted
<1> QED
  BY <1>2, <1>3

LEMMA MovesCollect ==
  ASSUME TypeOK, DroppedInv, CleanInv, CollectPreempted \/ RequeuePreempted, UNCHANGED launch
  PROVE  DroppedInv' /\ CleanInv'
<1>1. /\ AtMostOnePlace /\ Quiet' = Quiet
      /\ UNCHANGED <<processes, state, dropped>>
  BY DEF CollectPreempted, RequeuePreempted, CleanInv, Orderly, Quiet, launch, lists, pcb
<1>2. CASE CollectPreempted
  <2>1. /\ AtMostOnePlace'
        /\ \A q \in Procs : Enlisted(q)' <=> Enlisted(q)
    BY <1>1, <1>2, NextWorkerStep, SlotToBatch DEF CollectPreempted, SlotCleared, Enlisted, lists
  <2> QED
    BY <1>1, <2>1, OrderKept
<1>3. CASE RequeuePreempted
  <2>1. /\ AtMostOnePlace'
        /\ \A q \in Procs : Enlisted(q)' <=> Enlisted(q)
    BY <1>1, <1>3, BatchToQueue DEF RequeuePreempted, BatchBehind, Enlisted, cores
  <2> QED
    BY <1>1, <2>1, OrderKept
<1> QED
  BY <1>2, <1>3

(* While a Stop goes on, the process that wakes may still be on its core.   *)
LEMMA MovesWake ==
  ASSUME RestartInv, UpdateSleeping, UNCHANGED launch
  PROVE  DroppedInv' /\ CleanInv'
<1> USE DEF RestartInv, RestartTypeOK, PlacesInv
<1> DEFINE p == processes[at + 1]
<1>1. /\ p \in Procs /\ Registered(p)
      /\ UNCHANGED <<processes, batch, current, preempted, phase, running, control, dropped>>
      /\ \/ UNCHANGED <<queue, state>>
         \/ /\ state[p] = "WAITING"
            /\ state' = [state EXCEPT ![p] = "FINISHED"] /\ queue' = queue
         \/ /\ state[p] = "WAITING"
            /\ state' = [state EXCEPT ![p] = "READY"] /\ queue' = Append(queue, p)
  BY DEF UpdateSleeping, WokenBehind, cores, launch, TypeOK, ListsOK, ClockOK, Registered, Has
<1> HIDE DEF p
<1>2. Quiet' = Quiet /\ Orderly' = Orderly
  BY <1>1 DEF Quiet, Orderly
<1>3. CASE UNCHANGED <<queue, state>>
  BY <1>1, <1>2, <1>3, NobodyMoves
<1>4. CASE state[p] = "WAITING" /\ ~UNCHANGED <<queue, state>>
  <2>1. \A q \in Procs : Registered(q)' <=> Registered(q)
    BY <1>1 DEF Registered
  <2>2. /\ state'[p] \in {"READY", "FINISHED"}
        /\ \A q \in Procs : q # p => state'[q] = state[q]
        /\ \A q \in Procs : InQueue(q)' <=> InQueue(q) \/ (q = p /\ state'[p] = "READY")
    <3>1. CASE state' = [state EXCEPT ![p] = "FINISHED"] /\ queue' = queue
      <4>1. /\ \A q \in Procs : state'[q] = IF q = p THEN "FINISHED" ELSE state[q]
            /\ \A q \in Procs : InQueue(q)' <=> InQueue(q)
        BY <1>1, <3>1 DEF InQueue, TypeOK, PcbOK
      <4> QED
        BY <1>1, <4>1
    <3>2. CASE state' = [state EXCEPT ![p] = "READY"] /\ queue' = Append(queue, p)
      <4>1. /\ \A q \in Procs : state'[q] = IF q = p THEN "READY" ELSE state[q]
            /\ \A q \in Procs : InQueue(q)' <=> InQueue(q) \/ q = p
        BY <1>1, <3>2, HasAppend DEF InQueue, TypeOK, PcbOK, ListsOK
      <4> QED
        BY <1>1, <4>1
    <3> QED
      BY <1>1, <1>4, <3>1, <3>2
  <2>3. \A q \in Procs : Enlisted(q)' <=> Enlisted(q) \/ (q = p /\ state'[p] = "READY")
    BY <1>1, <2>2 DEF Enlisted, InBatch, InSlot, OnCore
  <2>4. p \notin dropped
    BY <1>4 DEF DroppedInv
  <2>5. DroppedInv'
    BY <1>1, <2>1, <2>2, <2>3, <2>4 DEF DroppedInv, NoSharing
  <2>6. CASE ~Orderly
    BY <1>2, <2>5, <2>6 DEF CleanInv, Orderly
  <2>7. CASE Orderly
    <3>1. Quiet
      BY <2>7 DEF UpdateSleeping, Orderly
    <3>2. ~Enlisted(p) /\ AtMostOnePlace
      BY <1>1, <1>4, <2>7, <3>1 DEF CleanInv
    <3>3. AtMostOnePlace'
      <4>1. CASE queue' = queue
        BY <1>1, <3>2, <4>1
        DEF AtMostOnePlace, InQueue, InBatch, InSlot, OnCore, NoRepeats, NoSharing
      <4>2. CASE queue' = Append(queue, p)
        BY <1>1, <3>2, <4>2, Enqueue
      <4> QED
        BY <1>1, <1>4, <4>1, <4>2
    <3>4. CleanInv'
      BY <1>1, <1>2, <2>1, <2>2, <2>3, <3>1, <3>2, <3>3 DEF CleanInv
    <3> QED
      BY <2>5, <3>4
  <2> QED
    BY <2>5, <2>6, <2>7
<1> QED
  BY <1>1, <1>3, <1>4

LEMMA MovesLoop ==
  ASSUME RestartInv, Loop
  PROVE  PlacesInv' /\ CleanInv'
<1> USE DEF RestartInv, RestartTypeOK, PlacesInv, launch
<1>1. SlotsCollected' /\ NewcomersApart' /\ UNCHANGED launch
  BY SlotsLoop, NewcomersLoop DEF Loop
<1>2. (running \/ control = "join") /\ Quiet' = Quiet
  BY <1>1, LoopStage DEF Quiet
<1>3. CASE SkipGeneration \/ GenerateProcess \/ WorkersDone \/ ReturnEarly \/ (running /\ EndTick)
  <2>1. UNCHANGED <<lists, cores, batch, pcb>> /\ Orderly
    BY <1>3 DEF SkipGeneration, GenerateProcess, WorkersDone, ReturnEarly, EndTick, Orderly, Quiet
  <2> QED
    BY <1>1, <1>2, <2>1, NobodyMoves DEF lists, cores, pcb
<1>4. CASE LeaveLoop
  <2>1. UNCHANGED <<lists, cores, batch, pcb>> /\ ~Orderly'
    BY <1>1, <1>2, <1>4 DEF LeaveLoop, Orderly, Quiet
  <2> QED
    BY <1>1, <1>2, <2>1, NobodyMoves DEF lists, cores, pcb
<1>5. CASE CommitGenerated
  <2>1. generated \in Procs /\ ~Registered(generated)
    BY <1>5, SchedulerAssumption DEF CommitGenerated, NewcomersApart, TypeOK, CreatorsOK
  <2>2. AtMostOnePlace
    BY <1>5 DEF CommitGenerated, CleanInv, Orderly
  <2> QED
    BY <1>1, <1>2, <1>5, <2>1, <2>2, NewcomerMoves DEF CommitGenerated, cores, pcb
<1> QED
  BY <1>1, <1>3, <1>4, <1>5, MovesQuantum, MovesDispatch, MovesCollect, MovesWake DEF Loop

(* A core may keep its process or lose it, and change its state.            *)
LEMMA MovesCore ==
  ASSUME RestartInv, NEW w \in Workers,
         current' = current \/ current' = Detached(w),
         \A q \in Procs : q # current[w] => state'[q] = state[q],
         UNCHANGED <<processes, queue, batch, preempted, phase, at, generated, named,
                     running, control, dropped>>
  PROVE  /\ PlacesInv' /\ (Orderly => AtMostOnePlace')
         /\ Quiet' = Quiet /\ Orderly' = Orderly
         /\ \A q \in Procs : Registered(q)' <=> Registered(q)
         /\ AtMostOnePlace =>
              \A q \in Procs : Enlisted(q)' <=>
                Enlisted(q) /\ (q = current[w] => current' = current)
<1> USE DEF RestartInv, RestartTypeOK, PlacesInv
<1>1. /\ Quiet' = Quiet /\ Orderly' = Orderly /\ SlotsCollected'
      /\ \A q \in Procs : Registered(q)' <=> Registered(q)
  BY DEF Quiet, Orderly, SlotsCollected, Registered
<1>2. \A q \in Procs : q = current[w] => OnCore(q) /\ Registered(q) /\ q \notin dropped
  BY DEF DroppedInv, Enlisted, OnCore, Holds
<1>3. NewcomersApart'
  BY <1>2, NewcomersKept
<1>4. /\ NoSharing(current)'
      /\ \A q \in Procs : OnCore(q)' <=> OnCore(q) /\ (q = current[w] => current' = current)
  <2>1. CASE current' = current
    BY <2>1 DEF DroppedInv, NoSharing, OnCore
  <2>2. CASE current' = Detached(w) /\ current' # current
    BY <2>2, HoldsClear DEF Detached, DroppedInv, OnCore, TypeOK, CoresOK
  <2> QED
    BY <2>1, <2>2
<1>5. \A q \in Procs : /\ InQueue(q)' <=> InQueue(q)
                       /\ InBatch(q)' <=> InBatch(q)
                       /\ InSlot(q)' <=> InSlot(q)
  BY DEF InQueue, InBatch, InSlot
<1>6. \A q \in dropped : q \in Procs /\ q # current[w]
  BY <1>2 DEF DroppedInv
<1>7. DroppedInv'
  BY <1>1, <1>4, <1>5, <1>6 DEF DroppedInv, Enlisted
<1>8. AtMostOnePlace => AtMostOnePlace'
  BY <1>4, <1>5 DEF AtMostOnePlace, NoRepeats, NoSharing
<1>9. ASSUME AtMostOnePlace, NEW q \in Procs
      PROVE  Enlisted(q)' <=> Enlisted(q) /\ (q = current[w] => current' = current)
  BY <1>2, <1>4, <1>5, <1>9 DEF AtMostOnePlace, Enlisted
<1> QED
  BY <1>1, <1>3, <1>7, <1>8, <1>9 DEF CleanInv

LEMMA MovesTimely ==
  ASSUME RestartInv, NEW w \in Workers, TimelyCycle(w)
  PROVE  PlacesInv' /\ CleanInv'
<1> USE DEF RestartInv, RestartTypeOK, PlacesInv
<1> DEFINE p == current[w]
<1>1. /\ Cycle(w) /\ Quiet /\ AtMostOnePlace
      /\ UNCHANGED <<processes, queue, batch, preempted, phase, at, generated, named,
                     running, control, dropped>>
  BY DEF TimelyCycle, RunCycle, Quiet, Orderly, CleanInv, lists, creators, launch
<1>2. /\ current' = current \/ current' = Detached(w)
      /\ \A q \in Procs : q # p => state'[q] = state[q]
  BY <1>1, CycleEffect
<1>3. ASSUME NEW q \in Procs, q = p
      PROVE  /\ q # None /\ Enlisted(q) /\ state[q] \in {"READY", "RUNNING"} /\ Registered(q)
             /\ \/ current' # current /\ state'[q] \in {"WAITING", "FINISHED"}
                \/ current' = current /\ state'[q] \in {"READY", "RUNNING"}
  <2>1. q # None /\ Enlisted(q)
    BY <1>3, SchedulerAssumption DEF Enlisted, OnCore, Holds
  <2>2. state[q] \in {"READY", "RUNNING"} /\ Registered(q)
    BY <1>1, <2>1 DEF CleanInv, DroppedInv
  <2>3. current' = Detached(w) => current' # current
    BY <1>3, <2>1 DEF Detached, TypeOK, CoresOK
  <2> QED
    BY <1>1, <1>3, <2>1, <2>2, <2>3, CycleEffect
<1> HIDE DEF p
<1>4. /\ PlacesInv' /\ AtMostOnePlace' /\ Quiet' /\ Orderly'
      /\ \A q \in Procs : Registered(q)' <=> Registered(q)
      /\ \A q \in Procs : Enlisted(q)' <=> Enlisted(q) /\ (q = p => current' = current)
  BY <1>1, <1>2, MovesCore DEF p, Orderly
<1>5. CleanInv'
  <2> SUFFICES ASSUME NEW q \in Procs
               PROVE  /\ Registered(q)' /\ state'[q] \in {"READY", "RUNNING"}
                           => Enlisted(q)' \/ q \in dropped'
                      /\ Enlisted(q)' => state'[q] \in {"READY", "RUNNING"}
    BY <1>4 DEF CleanInv
  <2>1. CASE q = p
    BY <1>3, <1>4, <2>1
  <2>2. CASE q # p
    BY <1>1, <1>2, <1>4, <2>2 DEF CleanInv
  <2> QED
    BY <2>1, <2>2
<1> QED
  BY <1>4, <1>5

(* After a Stop, cores only ever lose what they hold.                       *)
LEMMA MovesLate ==
  ASSUME RestartInv, NEW w \in Workers, LateCycle(w) \/ FallAsleep(w) \/ SettleAsleep(w)
  PROVE  PlacesInv' /\ CleanInv'
<1> USE DEF RestartInv, RestartTypeOK, PlacesInv
<1>1. ~Quiet
  BY DEF LateCycle, FallAsleep, SettleAsleep, Owes, StagesInv, Quiet
<1>2. UNCHANGED <<processes, queue, batch, preempted, phase, at, generated, named,
                  running, control, dropped>>
  BY DEF LateCycle, FallAsleep, SettleAsleep, lists, cores, clock, creators, launch
<1>3. /\ current' = current \/ current' = Detached(w)
      /\ \A q \in Procs : q # current[w] => state'[q] = state[q]
  BY CycleEffect DEF LateCycle, FallAsleep, SettleAsleep, cores, TypeOK, PcbOK
<1> QED
  BY <1>1, <1>2, <1>3, MovesCore DEF CleanInv

-----------------------------------------------------------------------------
LEMMA RestartInitial == RestartInit => RestartInv
<1> SUFFICES ASSUME RestartInit PROVE RestartInv
  OBVIOUS
<1>1. TypeOK /\ Placement
  BY TypeInit, PlacementInit DEF RestartInit
<1>2. RestartTypeOK /\ StagesInv /\ FallingInv
  BY <1>1 DEF RestartInit, Init, RestartTypeOK, StagesInv, FallingInv
<1>3. \A p \in Procs : ~Registered(p)
  BY HasEmpty DEF RestartInit, Init, Registered
<1>4. PlacesInv /\ CleanInv
  BY <1>1, <1>3 DEF RestartInit, Placement, NoneLost, AtMostOnePlace, PlacesInv, DroppedInv, CleanInv
<1> QED
  BY <1>2, <1>4 DEF RestartInv

LEMMA RestartStutter ==
  ASSUME RestartInv, UNCHANGED <<vars, launch>>
  PROVE  RestartInv'
<1> USE DEF vars, launch, lists, ident, cores, clock, creators, pcb
<1>1. RestartTypeOK' /\ StagesInv' /\ FallingInv'
  BY DEF RestartInv, RestartTypeOK, StagesInv, FallingInv,
     TypeOK, ListsOK, CoresOK, ClockOK, CreatorsOK, PcbOK
<1>2. SlotsCollected' /\ NewcomersApart'
  BY NewcomersKept DEF RestartInv, PlacesInv, SlotsCollected
<1>3. DroppedInv' /\ CleanInv'
  BY NobodyMoves DEF RestartInv, PlacesInv, Quiet, Orderly
<1> QED
  BY <1>1, <1>2, <1>3 DEF RestartInv, PlacesInv

LEMMA RestartStep == RestartInv /\ [RestartNext]_<<vars, launch>> => RestartInv'
<1> SUFFICES ASSUME RestartInv, RestartNext PROVE RestartInv'
  BY RestartStutter
<1> USE DEF RestartInv
<1>0. TypeOK
  BY DEF RestartTypeOK
<1>1. CASE Control
  BY <1>0, <1>1, TypeControl, StageControl, FallingControl, MovesControl
<1>2. CASE Calls
  <2>1. TypeOK'
    BY <1>0, <1>2, TypeCLI DEF Calls, CLI
  <2> QED
    BY <1>2, <2>1, StageCalls, FallingControl, MovesCalls
<1>3. CASE Loop
  BY <1>0, <1>3, TypeLoop, StageLoop, FallingLoop, MovesLoop
<1>4. ASSUME NEW w \in Workers, Core(w) PROVE RestartInv'
  <2>1. RestartTypeOK' /\ StagesInv' /\ FallingInv'
    BY <1>0, <1>4, TypeCore, StageCore, FallingCore
  <2>2. PlacesInv' /\ CleanInv'
    BY <1>4, MovesTimely, MovesLate DEF Core
  <2> QED
    BY <2>1, <2>2
<1> QED
  BY <1>1, <1>2, <1>3, <1>4 DEF RestartNext

LEMMA RestartInvariant == RestartSpec => []RestartInv
  BY RestartInitial, RestartStep, PTL DEF RestartSpec

(* Every variable keeps its type through any number of stops and launches,  *)
(* and a scheduler that runs has all its workers, none of them falling.     *)
THEOREM RestartTypes == RestartSpec => []RestartTypeOK
<1>1. RestartInv => RestartTypeOK
  BY DEF RestartInv
<1> QED
  BY <1>1, RestartInvariant, PTL

(* Whatever tick a Stop cut into and wherever the workers were, the next    *)
(* launch has every process in one place at most and loses none but those   *)
(* that a Stop has dropped.                                                 *)
THEOREM LaunchIsClean == RestartSpec => []CleanLaunch
<1>1. RestartInv => CleanLaunch
  BY DEF RestartInv, PlacesInv, DroppedInv, CleanInv, Orderly, Quiet, CleanLaunch
<1> QED
  BY <1>1, RestartInvariant, PTL
=============================================================================

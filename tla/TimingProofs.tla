---------------------------- MODULE TimingProofs ----------------------------
(***************************************************************************)
(* The timing of the scheduler is exact.  The counters of the code and the *)
(* history variables of SchedulerTiming, which count from outside, are     *)
(* related by an equation in each state; they could drift apart wherever a *)
(* counter outlives a turn, a preemption or a sleep.                       *)
(***************************************************************************)
EXTENDS SchedulerTiming, SchedulerProofs

TimersOK ==
  /\ turn \in [Workers -> Nat] /\ gap \in [Procs -> Nat] /\ asleep \in [Procs -> Nat]

(* The quantum counter of the process on a core lags one behind its turn    *)
(* between the cycle and the quantum check of a tick.                       *)
Unchecked(w) == (phase = "cycle" /\ w \in done) \/ (phase = "quantum" /\ w >= at)

TurnOf(w) ==
  current[w] # None =>
    LET used == quantumUsed[current[w]] IN
    /\ turn[w] = IF Unchecked(w) THEN used + 1 ELSE used
    /\ used = 0 \/ used < Quantum

TurnInv ==
  /\ phase = "quantum" => Algo = "rr"
  /\ Algo = "rr" => \A w \in Workers : TurnOf(w)

(* What is left of a delay and what has passed of it make the whole, unless *)
(* the process has just slept or is about to begin.                         *)
Rested(p) == index[p] = 0 \/ program[p][index[p]].keyword = "SLEEP"

GapOf(p) ==
  /\ ~Registered(p) => gap[p] = 0 /\ cyclesLeft[p] = 0
  /\ index[p] < Len(program[p]) =>
       IF Rested(p) THEN gap[p] = 0 /\ cyclesLeft[p] = 0
                    ELSE gap[p] + cyclesLeft[p] = Delay

GapInv == \A p \in Procs : GapOf(p)

(* What is left of a sleep and what has passed of it make the whole.        *)
AsleepOf(p) ==
  state[p] = "WAITING" =>
    /\ index[p] > 0
    /\ asleep[p] + sleepLeft[p] = program[p][index[p]].cycles
    /\ asleep[p] = 0 \/ sleepLeft[p] > 0

AsleepInv == \A p \in Procs : AsleepOf(p)

ProgramsInv == \A p \in Procs : program[p] \in Programs \cup {<<>>}

TimingInv == TimersOK /\ ProgramsInv /\ TurnInv /\ GapInv /\ AsleepInv

-----------------------------------------------------------------------------
(* The history variables observe the scheduler and do not disturb it.       *)
LEMMA TimingIsScheduler == TimingSpec => Spec
<1>1. TimingInit => Init
  BY DEF TimingInit
<1>2. [TimingNext]_<<vars, timers>> => [Next]_vars
  BY DEF TimingNext
<1> QED
  BY <1>1, <1>2, PTL DEF TimingSpec, Spec

SchedulerInv == TypeOK /\ Placement /\ WorkInv

LEMMA SchedulerInvariants == TimingSpec => []SchedulerInv
<1>1. TypeOK /\ Placement /\ WorkInv => SchedulerInv
  BY DEF SchedulerInv
<1> QED
  BY <1>1, TimingIsScheduler, TypeCorrect, PlacementInvariant, WorkInvariant, PTL

(* What Record says of each worker and each process.                        *)
LEMMA RecordStep ==
  ASSUME TimersOK, Record
  PROVE  /\ TimersOK'
         /\ \A w \in Workers : turn'[w] =
              IF current'[w] # current[w] THEN 0
              ELSE IF w \in Cycling /\ current[w] # None THEN Bump(turn[w]) ELSE turn[w]
         /\ \A p \in Procs : gap'[p] =
              IF index'[p] # index[p] THEN 0
              ELSE IF p \in Served THEN Bump(gap[p]) ELSE gap[p]
         /\ \A p \in Procs : asleep'[p] =
              IF state[p] # "WAITING" THEN 0
              ELSE IF CountedDown(p) THEN Bump(asleep[p]) ELSE asleep[p]
<1>1. \A n \in Nat : Bump(n) \in Nat
  BY DEF Bump
<1> HIDE DEF Bump
<1> QED
  BY <1>1 DEF TimersOK, Record

(* Steps of all threads but the workers.                                    *)
Others ==
  \/ CLI \/ SkipGeneration \/ GenerateProcess \/ CommitGenerated \/ WorkersDone \/ CheckQuantum
  \/ Dispatch \/ CollectPreempted \/ RequeuePreempted \/ UpdateSleeping \/ EndTick

LEMMA NextSplit == Next => Others \/ \E w \in Workers : RunCycle(w)
  BY DEF Next, SchedulerLoop, Others

(* They are no cycle of a core, and change a program only while it is being *)
(* constructed.                                                             *)
LEMMA OthersDoNotCycle ==
  ASSUME TypeOK, Placement, Others
  PROVE  Cycling = {} /\ Served = {} /\ index' = index
<1> USE DEF pcb, clock
<1>1. done' = done \/ done' = {}
  BY DEF Others, CLI, Start, ResumeGenerating, StopGenerating, CreateNamedProcess, AddProcess,
     SkipGeneration, GenerateProcess, CommitGenerated, TriggerWorkers, WorkersDone, CheckQuantum,
     Dispatch, CollectPreempted, RequeuePreempted, UpdateSleeping, EndTick
<1>2. index' = index
  BY DEF Others, CLI, Start, ResumeGenerating, StopGenerating, CreateNamedProcess, AddProcess,
     SkipGeneration, GenerateProcess, CommitGenerated, WorkersDone, CheckQuantum,
     Dispatch, CollectPreempted, RequeuePreempted, UpdateSleeping, EndTick
<1> QED
  BY <1>1, <1>2 DEF Cycling, Served

LEMMA ProgramStep ==
  ASSUME TypeOK, Placement, Next, ProgramsInv
  PROVE  ProgramsInv' /\ \A p \in Procs : Registered(p) => program'[p] = program[p]
<1> USE DEF TypeOK, CreatorsOK, ident
<1>1. CASE CreateNamedProcess \/ GenerateProcess
  <2>1. PICK p \in Fresh, prog \in Programs : Construct(p, prog)
    BY <1>1 DEF CreateNamedProcess, GenerateProcess
  <2> QED
    BY <2>1 DEF Construct, Fresh, ProgramsInv
<1>2. CASE ~CreateNamedProcess /\ ~GenerateProcess
  <2>1. program' = program
    BY <1>2 DEF Next, CLI, Start, ResumeGenerating, StopGenerating, AddProcess, SchedulerLoop,
     SkipGeneration, CommitGenerated, WorkersDone, CheckQuantum, Dispatch, CollectPreempted,
     RequeuePreempted, UpdateSleeping, EndTick, RunCycle
  <2> QED
    BY <2>1 DEF ProgramsInv
<1> QED
  BY <1>1, <1>2

(* A process stays registered.                                              *)
LEMMA StaysRegistered ==
  ASSUME TypeOK, Placement, Next, NEW p \in Procs, Registered(p)
  PROVE  Registered(p)'
<1>1. CASE AddProcess
  BY <1>1, RegisterPlacement DEF AddProcess, cores, clock, pcb, TypeOK, CreatorsOK, Placement, NewcomersApart
<1>2. CASE CommitGenerated
  <2>1. generated \in Procs /\ ~Registered(generated)
    BY <1>2, SchedulerAssumption DEF CommitGenerated, TypeOK, CreatorsOK, Placement, NewcomersApart
  <2> QED
    BY <1>2, <2>1, RegisterPlacement DEF CommitGenerated, cores, pcb
<1>3. CASE ~AddProcess /\ ~CommitGenerated
  <2>1. processes' = processes
    BY <1>3 DEF Next, CLI, Start, ResumeGenerating, StopGenerating, CreateNamedProcess, SchedulerLoop,
     SkipGeneration, GenerateProcess, WorkersDone, CheckQuantum, Dispatch, CollectPreempted,
     RequeuePreempted, UpdateSleeping, EndTick, RunCycle, lists
  <2> QED
    BY <2>1 DEF Registered
<1> QED
  BY <1>1, <1>2, <1>3

(* The cycle of a core: one instruction of its process, or one cycle of the *)
(* delay before it.                                                         *)
Executes(p) ==
  /\ cyclesLeft[p] = 0 /\ index[p] < Len(program[p])
  /\ index'[p] = index[p] + 1
  /\ LET stmt == program[p][index[p] + 1] IN
     IF stmt.keyword = "SLEEP"
     THEN /\ sleepLeft'[p] = stmt.cycles /\ cyclesLeft'[p] = 0
     ELSE /\ state'[p] = IF index[p] + 1 >= Len(program[p]) THEN "FINISHED" ELSE "RUNNING"
          /\ state'[p] = "RUNNING" => cyclesLeft'[p] = Delay

Delays(p) ==
  /\ cyclesLeft[p] > 0 /\ cyclesLeft'[p] = cyclesLeft[p] - 1
  /\ state'[p] = "RUNNING" /\ index'[p] = index[p]

Expires(p) ==
  /\ index[p] >= Len(program[p]) /\ state'[p] = "FINISHED" /\ index'[p] = index[p]

LEMMA CycleOfCore ==
  ASSUME TypeOK, Placement, NEW w \in Workers, RunCycle(w)
  PROVE  LET p == current[w] IN
         /\ phase = "cycle" /\ w \notin done /\ done' = done \cup {w} /\ Cycling = {w}
         /\ Served = {p} \ {None}
         /\ UNCHANGED <<phase, at, processes, program, preempted, quantumUsed>>
         /\ \A v \in Workers : current'[v] = IF v = w /\ current'[w] # p THEN None ELSE current[v]
         /\ p # None => p \in Procs /\ Registered(p) /\ state[p] = "RUNNING"
         /\ p # None => Executes(p) \/ Delays(p) \/ Expires(p)
         /\ \A q \in Procs : q # p => /\ index'[q] = index[q] /\ state'[q] = state[q]
                                     /\ cyclesLeft'[q] = cyclesLeft[q] /\ sleepLeft'[q] = sleepLeft[q]
<1> DEFINE p == current[w]
<1> USE DEF TypeOK, CoresOK, PcbOK
<1>1. /\ phase = "cycle" /\ w \notin done /\ done' = done \cup {w} /\ Cycling = {w}
      /\ UNCHANGED <<phase, at, processes, program, preempted, quantumUsed>>
  BY DEF RunCycle, lists, ident, Cycling
<1>2. Served = {p} \ {None}
  BY <1>1 DEF Served
<1>3. \A v \in Workers : current'[v] = IF v = w /\ current'[w] # p THEN None ELSE current[v]
  BY DEF RunCycle, Cycle, TickExecution, Detached
<1>4. p # None => p \in Procs /\ Registered(p) /\ state[p] = "RUNNING"
  BY DEF Placement, NoneLost, Enlisted, OnCore, Holds
<1>5. \A q \in Procs : q # p => /\ index'[q] = index[q] /\ state'[q] = state[q]
                               /\ cyclesLeft'[q] = cyclesLeft[q] /\ sleepLeft'[q] = sleepLeft[q]
  BY <1>4 DEF RunCycle, Cycle, TickExecution, ExecuteInstructions
<1>6. ASSUME p # None PROVE Executes(p) \/ Delays(p) \/ Expires(p)
  <2>1. TickExecution(w, p) /\ p \in Procs
    BY <1>4, <1>6 DEF RunCycle, Cycle
  <2>2. index[p] \in Nat /\ Len(program[p]) \in Nat /\ cyclesLeft[p] \in Nat /\ Delay \in Nat
    BY <2>1, SchedulerAssumption DEF CreatorsOK
  <2>3. state[p] = "RUNNING"
    BY <1>4, <1>6
  <2> HIDE DEF p
  <2>4. CASE ~InstructionDue(p)
    BY <2>1, <2>2, <2>3, <2>4 DEF TickExecution, InstructionDue, Delays
  <2>5. CASE InstructionDue(p) /\ index[p] >= Len(program[p])
    BY <2>1, <2>2, <2>5 DEF TickExecution, ExecuteInstructions, Expires
  <2>6. CASE InstructionDue(p) /\ index[p] < Len(program[p])
    <3> DEFINE stmt == program[p][index[p] + 1]
    <3>1. ExecuteInstructions(p) /\ cyclesLeft[p] = 0
      BY <2>1, <2>2, <2>6 DEF TickExecution, InstructionDue
    <3>2. index'[p] = index[p] + 1
      BY <2>1, <2>2, <2>6, <3>1 DEF ExecuteInstructions
    <3>3. CASE stmt.keyword = "SLEEP"
      <4>1. state'[p] \in {"WAITING", "FINISHED"} /\ sleepLeft'[p] = stmt.cycles
        BY <2>1, <2>2, <2>6, <3>1, <3>3 DEF ExecuteInstructions
      <4>2. cyclesLeft' = cyclesLeft
        BY <2>1, <2>6, <4>1 DEF TickExecution
      <4> QED
        BY <2>6, <3>1, <3>2, <3>3, <4>1, <4>2 DEF Executes
    <3>4. CASE stmt.keyword # "SLEEP"
      <4>1. state'[p] = IF index[p] + 1 >= Len(program[p]) THEN "FINISHED" ELSE "RUNNING"
        BY <2>1, <2>2, <2>6, <3>1, <3>4 DEF ExecuteInstructions, IsLast
      <4>2. state'[p] = "RUNNING" => cyclesLeft'[p] = Delay
        BY <2>1, <2>6 DEF TickExecution
      <4> QED
        BY <2>6, <3>1, <3>2, <3>4, <4>1, <4>2 DEF Executes
    <3> QED
      BY <3>3, <3>4
  <2> QED
    BY <2>2, <2>4, <2>5, <2>6
<1> QED
  BY <1>1, <1>2, <1>3, <1>4, <1>5, <1>6

-----------------------------------------------------------------------------
(* The quantum.                                                             *)

(* Between cycles a worker's turn is over as soon as its process leaves.    *)
LEMMA TurnRunCycle ==
  ASSUME SchedulerInv, TimingInv, Record, NEW w \in Workers, RunCycle(w)
  PROVE  TurnInv'
<1> USE DEF SchedulerInv, TimingInv
<1>1. /\ phase = "cycle" /\ phase' = "cycle" /\ w \notin done /\ done' = done \cup {w}
      /\ Cycling = {w} /\ quantumUsed' = quantumUsed
      /\ \A v \in Workers : current'[v] = IF v = w /\ current'[w] # current[w] THEN None ELSE current[v]
  BY CycleOfCore
<1> SUFFICES ASSUME Algo = "rr", NEW v \in Workers, current'[v] # None PROVE TurnOf(v)'
  BY <1>1 DEF TurnInv, TurnOf
<1>2. current'[v] = current[v] /\ current[v] \in Procs
  BY <1>1 DEF TypeOK, CoresOK
<1>3. TurnOf(v) /\ turn[v] \in Nat /\ quantumUsed[current[v]] \in Nat
  BY <1>2 DEF TurnInv, TimersOK, TypeOK, PcbOK
<1>4. turn'[v] = IF v = w THEN Bump(turn[v]) ELSE turn[v]
  BY <1>1, <1>2, RecordStep
<1>5. CASE v = w
  BY <1>1, <1>2, <1>3, <1>4, <1>5, TimingAssumption, SchedulerAssumption DEF TurnOf, Unchecked, Bump
<1>6. CASE v # w
  BY <1>1, <1>2, <1>3, <1>4, <1>6 DEF TurnOf, Unchecked
<1> QED
  BY <1>5, <1>6

LEMMA TurnCheckQuantum ==
  ASSUME SchedulerInv, TimingInv, Record, CheckQuantum
  PROVE  TurnInv'
<1> USE DEF SchedulerInv, TimingInv
<1>1. /\ at \in Workers /\ phase = "quantum" /\ Cycling = {}
      /\ \/ phase' = "quantum" /\ at' = at + 1
         \/ phase' = "dispatch" /\ \A v \in Workers : v <= at
  BY NextWorkerStep, OthersDoNotCycle DEF CheckQuantum, Others
<1> SUFFICES ASSUME Algo = "rr", NEW v \in Workers, current'[v] # None PROVE TurnOf(v)'
  BY <1>1 DEF TurnInv, TurnOf
<1>2. current'[v] = current[v] /\ current[v] \in Procs
  BY <1>1 DEF CheckQuantum, Detached, cores, TypeOK, CoresOK
<1>3. /\ TurnOf(v) /\ turn[v] \in Nat /\ quantumUsed[current[v]] \in Nat
      /\ turn'[v] = turn[v]
  BY <1>1, <1>2, RecordStep DEF TurnInv, TimersOK, TypeOK, PcbOK
<1>4. CASE v = at
  <2>1. state[current[at]] = "RUNNING"
    BY <1>2, <1>4 DEF Placement, NoneLost, OnCore, Holds
  <2>2. ~QuantumExpires(current[at])
    BY <1>1, <1>2, <1>4, <2>1 DEF CheckQuantum, Detached, TypeOK, CoresOK
  <2>3. quantumUsed'[current[v]] = quantumUsed[current[v]] + 1
    BY <1>2, <1>4, <2>1, <2>2 DEF CheckQuantum, TypeOK, PcbOK
  <2>4. quantumUsed[current[v]] + 1 < Quantum
    BY <1>3, <1>4, <2>2, SchedulerAssumption DEF QuantumExpires
  <2>5. ~Unchecked(v)' /\ Unchecked(v)
    BY <1>1, <1>4 DEF Unchecked, Workers
  <2> QED
    BY <1>2, <1>3, <2>3, <2>4, <2>5, SchedulerAssumption DEF TurnOf
<1>5. CASE v # at
  <2>1. current[v] # current[at]
    BY <1>1, <1>2, <1>5, SchedulerAssumption DEF Placement, AtMostOnePlace, NoSharing
  <2>2. quantumUsed'[current[v]] = quantumUsed[current[v]]
    BY <1>2, <2>1 DEF CheckQuantum, TypeOK, PcbOK
  <2>3. Unchecked(v)' <=> Unchecked(v)
    BY <1>1, <1>5 DEF Unchecked, Workers
  <2> QED
    BY <1>2, <1>3, <2>2, <2>3 DEF TurnOf
<1> QED
  BY <1>4, <1>5

LEMMA TurnDispatch ==
  ASSUME SchedulerInv, TimingInv, Record, Dispatch
  PROVE  TurnInv'
<1> USE DEF SchedulerInv, TimingInv
<1>1. /\ at \in Workers /\ phase = "dispatch" /\ phase' \in {"dispatch", "collect"} /\ Cycling = {}
  BY NextWorkerStep, OthersDoNotCycle DEF Dispatch, Others
<1> SUFFICES ASSUME Algo = "rr", NEW v \in Workers, current'[v] # None PROVE TurnOf(v)'
  BY <1>1 DEF TurnInv, TurnOf
<1>2. ~Unchecked(v) /\ ~Unchecked(v)'
  BY <1>1 DEF Unchecked
<1>3. CASE UNCHANGED <<current, quantumUsed>>
  BY <1>1, <1>2, <1>3, RecordStep DEF TurnInv, TurnOf
<1>4. CASE ~UNCHANGED <<current, quantumUsed>>
  <2> DEFINE p == Head(queue)
  <2>1. /\ queue # <<>> /\ current[at] = None /\ p \in Procs
        /\ current' = [current EXCEPT ![at] = p]
        /\ quantumUsed' = [quantumUsed EXCEPT ![p] = 0]
    BY <1>4 DEF Dispatch, AssignProcess, IsBusy, TypeOK, ListsOK
  <2>2. ~OnCore(p)
    BY <2>1, HasTail DEF InQueue, Placement, AtMostOnePlace, TypeOK, ListsOK
  <2> HIDE DEF p
  <2>3. CASE v = at
    BY <1>1, <1>2, <2>1, <2>3, RecordStep, SchedulerAssumption DEF TurnOf, TypeOK, CoresOK, PcbOK
  <2>4. CASE v # at
    <3>1. /\ current'[v] = current[v] /\ current[v] # p
          /\ quantumUsed'[current[v]] = quantumUsed[current[v]] /\ turn'[v] = turn[v]
      BY <1>1, <2>1, <2>2, <2>4, RecordStep DEF OnCore, Holds, TypeOK, CoresOK, PcbOK
    <3> QED
      BY <1>2, <3>1 DEF TurnInv, TurnOf
  <2> QED
    BY <2>3, <2>4
<1> QED
  BY <1>3, <1>4

LEMMA TurnOthers ==
  ASSUME SchedulerInv, TimingInv, Record,
         \/ CLI \/ SkipGeneration \/ GenerateProcess \/ CommitGenerated \/ WorkersDone
         \/ CollectPreempted \/ RequeuePreempted \/ UpdateSleeping \/ EndTick
  PROVE  TurnInv'
<1> USE DEF SchedulerInv, TimingInv
<1>1. UNCHANGED <<current, quantumUsed>>
  BY DEF CLI, Start, ResumeGenerating, StopGenerating, CreateNamedProcess, AddProcess,
     SkipGeneration, GenerateProcess, CommitGenerated, WorkersDone, CollectPreempted,
     RequeuePreempted, UpdateSleeping, EndTick, cores, pcb
<1>2. \A v \in Workers : turn'[v] = turn[v]
  BY <1>1, RecordStep, OthersDoNotCycle DEF Others
<1>3. /\ phase' = "quantum" => Algo = "rr"
      /\ Algo = "rr" => \A v \in Workers : Unchecked(v)' <=> Unchecked(v)
  <2>1. CASE CLI
    <3>1. CASE Start
      BY <3>1 DEF Start, Unchecked
    <3>2. CASE ~Start
      BY <2>1, <3>2 DEF CLI, ResumeGenerating, StopGenerating, CreateNamedProcess, AddProcess,
         clock, Unchecked, TurnInv
    <3> QED
      BY <3>1, <3>2
  <2>2. CASE SkipGeneration \/ CommitGenerated
    BY <2>2 DEF SkipGeneration, CommitGenerated, TriggerWorkers, Unchecked
  <2>3. CASE WorkersDone
    BY <2>3, SchedulerAssumption DEF WorkersDone, ServePhase, Unchecked, TypeOK, ClockOK, Workers
  <2>4. CASE GenerateProcess \/ CollectPreempted \/ RequeuePreempted \/ UpdateSleeping \/ EndTick
    BY <2>4 DEF GenerateProcess, CollectPreempted, NextWorker, RequeuePreempted, UpdateSleeping,
       EndTick, Unchecked
  <2> QED
    BY <2>1, <2>2, <2>3, <2>4
<1> QED
  BY <1>1, <1>2, <1>3 DEF TurnInv, TurnOf

LEMMA TurnStep ==
  ASSUME SchedulerInv, TimingInv, TimingNext
  PROVE  TurnInv'
  BY NextSplit, TurnRunCycle, TurnCheckQuantum, TurnDispatch, TurnOthers DEF TimingNext, Others

-----------------------------------------------------------------------------
(* The delay.                                                               *)
LEMMA GapRunCycle ==
  ASSUME SchedulerInv, TimingInv, Record, NEW w \in Workers, RunCycle(w)
  PROVE  GapInv'
<1> USE DEF SchedulerInv, TimingInv
<1> DEFINE p == current[w]
<1>1. /\ Served = {p} \ {None} /\ UNCHANGED <<processes, program>>
      /\ p # None => p \in Procs /\ Registered(p)
      /\ p # None => Executes(p) \/ Delays(p) \/ Expires(p)
      /\ \A q \in Procs : q # p => index'[q] = index[q] /\ cyclesLeft'[q] = cyclesLeft[q]
  BY CycleOfCore
<1> HIDE DEF p
<1> SUFFICES ASSUME NEW q \in Procs PROVE GapOf(q)'
  BY DEF GapInv
<1>2. /\ GapOf(q) /\ index[q] \in Nat /\ gap[q] \in Nat /\ Len(program[q]) \in Nat
      /\ cyclesLeft[q] \in 0 .. Delay /\ Delay \in Nat /\ program'[q] = program[q]
      /\ Registered(q)' <=> Registered(q)
  BY <1>1, SchedulerAssumption DEF GapInv, TimersOK, TypeOK, PcbOK, CreatorsOK, Registered
<1>3. gap'[q] = IF index'[q] # index[q] THEN 0 ELSE IF q \in Served THEN Bump(gap[q]) ELSE gap[q]
  BY RecordStep
<1>4. CASE q # p
  <2>1. index'[q] = index[q] /\ cyclesLeft'[q] = cyclesLeft[q] /\ gap'[q] = gap[q]
    BY <1>1, <1>3, <1>4
  <2> QED
    BY <1>2, <2>1 DEF GapOf, Rested
<1>5. CASE q = p /\ Executes(p)
  <2>1. Registered(q) /\ index'[q] = index[q] + 1 /\ gap'[q] = 0
    BY <1>1, <1>2, <1>3, <1>5, SchedulerAssumption DEF Executes
  <2>2. index'[q] < Len(program[q]) =>
          cyclesLeft'[q] = IF program[q][index'[q]].keyword = "SLEEP" THEN 0 ELSE Delay
    BY <1>2, <1>5, <2>1 DEF Executes
  <2> QED
    BY <1>2, <2>1, <2>2 DEF GapOf, Rested
<1>6. CASE q = p /\ Delays(p)
  <2>1. Registered(q) /\ index'[q] = index[q] /\ gap'[q] = Bump(gap[q]) /\ cyclesLeft[q] > 0
        /\ cyclesLeft'[q] = cyclesLeft[q] - 1
    BY <1>1, <1>2, <1>3, <1>6, SchedulerAssumption DEF Delays
  <2>2. index[q] < Len(program[q]) => ~Rested(q) /\ gap[q] + cyclesLeft[q] = Delay
    BY <1>2, <2>1 DEF GapOf
  <2>3. index[q] < Len(program[q]) => gap'[q] = gap[q] + 1
    BY <1>2, <2>1, <2>2, TimingAssumption DEF Bump
  <2>4. (Rested(q)' <=> Rested(q)) /\ (index'[q] < Len(program'[q]) <=> index[q] < Len(program[q]))
    BY <1>2, <2>1 DEF Rested
  <2>5. index[q] < Len(program[q]) => gap'[q] + cyclesLeft'[q] = Delay
    BY <1>2, <2>1, <2>2, <2>3
  <2> QED
    BY <1>2, <2>1, <2>2, <2>4, <2>5 DEF GapOf
<1>7. CASE q = p /\ Expires(p)
  <2>1. Registered(q) /\ index'[q] = index[q] /\ index[q] >= Len(program[q])
    BY <1>1, <1>7, SchedulerAssumption DEF Expires
  <2> QED
    BY <1>2, <2>1 DEF GapOf
<1> QED
  BY <1>1, <1>4, <1>5, <1>6, <1>7, SchedulerAssumption

LEMMA GapStep ==
  ASSUME SchedulerInv, TimingInv, TimingNext
  PROVE  GapInv'
<1> USE DEF SchedulerInv, TimingInv
<1>1. CASE Others
  <2> SUFFICES ASSUME NEW q \in Procs PROVE GapOf(q)'
    BY DEF GapInv
  <2>1. /\ index'[q] = index[q] /\ gap'[q] = gap[q]
        /\ Registered(q) => Registered(q)' /\ program'[q] = program[q]
        /\ ~Registered(q) => index[q] = 0
        /\ GapOf(q)
    BY <1>1, OthersDoNotCycle, RecordStep, StaysRegistered, ProgramStep
    DEF TimingNext, WorkInv, WorkOf, GapInv
  <2>2. cyclesLeft'[q] = cyclesLeft[q]
          \/ (Registered(q) /\ index[q] = 0 /\ cyclesLeft'[q] = 0 /\ index[q] < Len(program[q]))
          \/ (Registered(q) /\ index[q] >= Len(program[q]))
    <3>1. CASE Dispatch
      <4>1. CASE cyclesLeft' = cyclesLeft
        BY <4>1
      <4>2. CASE cyclesLeft' # cyclesLeft
        <5>1. PICK p \in Procs : /\ queue # <<>> /\ p = Head(queue)
                                 /\ cyclesLeft' = [cyclesLeft EXCEPT ![p] = IF index[p] = 0 THEN 0 ELSE @]
          BY <3>1, <4>2 DEF Dispatch, AssignProcess, TypeOK, ListsOK
        <5>2. Registered(p)
          BY <5>1, HasTail DEF InQueue, Placement, AtMostOnePlace, NoneLost, Enlisted, TypeOK, ListsOK
        <5> QED
          BY <5>1, <5>2 DEF TypeOK, PcbOK, CreatorsOK
      <4> QED
        BY <4>1, <4>2
    <3>2. CASE ~Dispatch
      BY <1>1, <3>2 DEF Others, CLI, Start, ResumeGenerating, StopGenerating, CreateNamedProcess,
         AddProcess, SkipGeneration, GenerateProcess, CommitGenerated, WorkersDone, CheckQuantum,
         CollectPreempted, RequeuePreempted, UpdateSleeping, EndTick, pcb
    <3> QED
      BY <3>1, <3>2
  <2>3. CASE ~Registered(q)
    <3>1. cyclesLeft'[q] = 0 /\ gap'[q] = 0 /\ index'[q] = 0
      BY <2>1, <2>2, <2>3 DEF GapOf
    <3> QED
      BY <3>1 DEF GapOf, Rested
  <2>4. CASE Registered(q)
    <3>1. (Rested(q)' <=> Rested(q)) /\ (index'[q] < Len(program'[q]) <=> index[q] < Len(program[q]))
      BY <2>1, <2>4 DEF Rested
    <3>2. index[q] \in Nat /\ Len(program[q]) \in Nat
      BY DEF TypeOK, PcbOK, CreatorsOK
    <3>3. index[q] < Len(program[q]) => cyclesLeft'[q] = cyclesLeft[q]
      BY <2>1, <2>2, <3>2 DEF GapOf, Rested
    <3> QED
      BY <2>1, <2>4, <3>1, <3>3 DEF GapOf
  <2> QED
    BY <2>3, <2>4
<1> QED
  BY <1>1, NextSplit, GapRunCycle DEF TimingNext

-----------------------------------------------------------------------------
(* The sleep.                                                               *)
LEMMA AsleepRunCycle ==
  ASSUME SchedulerInv, TimingInv, Record, NEW w \in Workers, RunCycle(w)
  PROVE  AsleepInv'
<1> USE DEF SchedulerInv, TimingInv
<1> DEFINE p == current[w]
<1>1. /\ phase = "cycle" /\ program' = program
      /\ p # None => p \in Procs /\ state[p] = "RUNNING"
      /\ p # None => Executes(p) \/ Delays(p) \/ Expires(p)
      /\ \A q \in Procs : q # p =>
           index'[q] = index[q] /\ state'[q] = state[q] /\ sleepLeft'[q] = sleepLeft[q]
  BY CycleOfCore
<1> HIDE DEF p
<1> SUFFICES ASSUME NEW q \in Procs, state'[q] = "WAITING" PROVE AsleepOf(q)'
  BY DEF AsleepInv, AsleepOf
<1>2. asleep'[q] = IF state[q] # "WAITING" THEN 0 ELSE asleep[q]
  BY <1>1, RecordStep DEF CountedDown
<1>3. CASE q # p
  BY <1>1, <1>2, <1>3 DEF AsleepInv, AsleepOf
<1>4. CASE q = p
  <2>1. Executes(q) /\ asleep'[q] = 0 /\ index[q] \in Nat /\ Len(program[q]) \in Nat
    BY <1>1, <1>2, <1>4, SchedulerAssumption DEF Delays, Expires, TypeOK, PcbOK, CreatorsOK
  <2>2. program[q][index[q] + 1].keyword = "SLEEP"
    BY <2>1 DEF Executes
  <2>3. program[q][index[q] + 1] \in Statement
    BY <2>1 DEF Executes, TypeOK, CreatorsOK
  <2>4. index'[q] = index[q] + 1 /\ sleepLeft'[q] = program[q][index'[q]].cycles
        /\ program[q][index'[q]].cycles \in Int
    BY <2>1, <2>2, <2>3 DEF Executes, Statement
  <2> QED
    BY <1>1, <2>1, <2>4 DEF AsleepOf
<1> QED
  BY <1>3, <1>4

(* The statement that a sleeping process executed, and that MaxCount covers *)
(* it.                                                                      *)
LEMMA SleepStatement ==
  ASSUME TypeOK, TimingInv, WorkInv, NEW p \in Procs, state[p] = "WAITING"
  PROVE  LET n == program[p][index[p]].cycles IN n \in Int /\ n < MaxCount
<1>1. index[p] \in Nat /\ index[p] > 0 /\ index[p] <= Len(program[p]) /\ Len(program[p]) \in Nat
  BY DEF TimingInv, AsleepInv, AsleepOf, WorkInv, WorkOf, TypeOK, PcbOK, CreatorsOK
<1>2. program[p] \in Programs
  <2>1. Len(<<>>) = 0
    OBVIOUS
  <2> QED
    BY <1>1, <2>1 DEF TimingInv, ProgramsInv
<1>3. program[p][index[p]] \in Statement
  BY <1>1 DEF TypeOK, CreatorsOK
<1>4. program[p][index[p]].cycles \in Int
  BY <1>3 DEF Statement
<1> QED
  BY <1>1, <1>2, <1>4, TimingAssumption

(* One iteration of the wake-up loop.                                       *)
LEMMA CountDown ==
  ASSUME SchedulerInv, TimingInv, Record, UpdateSleeping, NEW p \in Procs, state[p] = "WAITING"
  PROVE  LET n == program[p][index[p]].cycles IN
         /\ UNCHANGED <<index, program>>
         /\ IF p = processes[at + 1]
            THEN /\ asleep'[p] = asleep[p] + 1
                 /\ IF sleepLeft[p] > 1 THEN sleepLeft'[p] = sleepLeft[p] - 1 /\ state'[p] = "WAITING"
                                        ELSE state'[p] # "WAITING"
            ELSE /\ asleep'[p] = asleep[p] /\ sleepLeft'[p] = sleepLeft[p] /\ state'[p] = "WAITING"
<1> USE DEF SchedulerInv
<1> DEFINE n == program[p][index[p]].cycles
<1>1. /\ phase = "wake" /\ at' = at + 1 /\ UNCHANGED <<processes, index, program>>
      /\ sleepLeft[p] \in Int /\ asleep[p] \in Nat
  BY DEF UpdateSleeping, ident, TypeOK, PcbOK, TimingInv, TimersOK
<1>2. n \in Int /\ n < MaxCount /\ asleep[p] + sleepLeft[p] = n /\ (asleep[p] = 0 \/ sleepLeft[p] > 0)
  BY SleepStatement DEF TimingInv, AsleepInv, AsleepOf
<1> HIDE DEF n
<1>3. asleep[p] < MaxCount
  BY <1>1, <1>2, TimingAssumption
<1>4. asleep'[p] = IF processes[at + 1] = p THEN asleep[p] + 1 ELSE asleep[p]
  BY <1>1, <1>3, RecordStep DEF CountedDown, Bump, TimingInv
<1>5. CASE p = processes[at + 1] /\ sleepLeft[p] > 1
  <2>1. ~SleepExpires(p)
    BY <1>1, <1>5 DEF SleepExpires
  <2> QED
    BY <1>1, <1>4, <1>5, <2>1 DEF UpdateSleeping, TypeOK, PcbOK
<1>6. CASE p = processes[at + 1] /\ ~(sleepLeft[p] > 1)
  <2>1. SleepExpires(p)
    BY <1>1, <1>6 DEF SleepExpires
  <2>2. state'[p] # "WAITING"
    BY <1>6, <2>1 DEF UpdateSleeping, TypeOK, PcbOK
  <2> QED
    BY <1>1, <1>4, <1>6, <2>2
<1>7. CASE p # processes[at + 1]
  BY <1>1, <1>4, <1>7 DEF UpdateSleeping, TypeOK, PcbOK
<1> QED
  BY <1>5, <1>6, <1>7

(* Outside a cycle of a core nobody falls asleep, and outside the wake-up   *)
(* loop nobody is counted down.                                             *)
LEMMA SleepersRest ==
  ASSUME SchedulerInv, TimingInv, Record, Others, ~UpdateSleeping
  PROVE  /\ UNCHANGED sleepLeft
         /\ \A p \in Procs : state'[p] = "WAITING" <=> state[p] = "WAITING"
         /\ \A p \in Procs : ~CountedDown(p)
<1> USE DEF SchedulerInv
<1>1. at \in Nat
  BY DEF TypeOK, ClockOK
<1>2. UNCHANGED sleepLeft
  BY DEF Others, CLI, Start, ResumeGenerating, StopGenerating, CreateNamedProcess, AddProcess,
     SkipGeneration, GenerateProcess, CommitGenerated, WorkersDone, CheckQuantum, Dispatch,
     CollectPreempted, RequeuePreempted, EndTick, pcb
<1>3. phase = "wake" => at' # at + 1
  BY <1>1 DEF Others, CLI, Start, ResumeGenerating, StopGenerating, CreateNamedProcess, AddProcess,
     SkipGeneration, GenerateProcess, CommitGenerated, WorkersDone, CheckQuantum, Dispatch,
     CollectPreempted, RequeuePreempted, EndTick, clock
<1>4. ASSUME NEW p \in Procs PROVE state'[p] = "WAITING" <=> state[p] = "WAITING"
  <2>1. CASE CheckQuantum
    <3>1. at \in Workers
      BY <2>1, NextWorkerStep DEF CheckQuantum
    <3> QED
      BY <2>1, <3>1 DEF CheckQuantum, TypeOK, PcbOK, CoresOK
  <2>2. CASE Dispatch
    <3>1. CASE UNCHANGED state
      BY <3>1
    <3>2. CASE ~UNCHANGED state
      <4>1. /\ queue # <<>> /\ Head(queue) \in Procs /\ state' = [state EXCEPT ![Head(queue)] = "RUNNING"]
        BY <2>2, <3>2 DEF Dispatch, AssignProcess, TypeOK, ListsOK
      <4>2. state[Head(queue)] # "WAITING"
        BY <4>1, HasTail DEF InQueue, Placement, AtMostOnePlace, NoneLost, Enlisted, TypeOK, ListsOK
      <4> QED
        BY <4>1, <4>2 DEF TypeOK, PcbOK
    <3> QED
      BY <3>1, <3>2
  <2>3. CASE ~CheckQuantum /\ ~Dispatch
    BY <2>3 DEF Others, CLI, Start, ResumeGenerating, StopGenerating, CreateNamedProcess, AddProcess,
     SkipGeneration, GenerateProcess, CommitGenerated, WorkersDone, CollectPreempted,
     RequeuePreempted, EndTick, pcb
  <2> QED
    BY <2>1, <2>2, <2>3
<1> QED
  BY <1>2, <1>3, <1>4 DEF CountedDown

LEMMA AsleepStep ==
  ASSUME SchedulerInv, TimingInv, TimingNext
  PROVE  AsleepInv'
<1> USE DEF SchedulerInv, TimingInv
<1>1. CASE UpdateSleeping
  <2> SUFFICES ASSUME NEW p \in Procs, state'[p] = "WAITING" PROVE AsleepOf(p)'
    BY DEF AsleepInv, AsleepOf
  <2>1. state[p] = "WAITING"
    BY <1>1 DEF UpdateSleeping, TypeOK, PcbOK
  <2>2. AsleepOf(p) /\ asleep[p] \in Nat /\ sleepLeft[p] \in Int
    BY DEF AsleepInv, TimersOK, TypeOK, PcbOK
  <2> QED
    BY <1>1, <2>1, <2>2, CountDown DEF TimingNext, AsleepOf
<1>2. CASE Others /\ ~UpdateSleeping
  <2> SUFFICES ASSUME NEW p \in Procs, state'[p] = "WAITING" PROVE AsleepOf(p)'
    BY DEF AsleepInv, AsleepOf
  <2>1. /\ state[p] = "WAITING" /\ sleepLeft'[p] = sleepLeft[p] /\ asleep'[p] = asleep[p]
        /\ index'[p] = index[p]
    BY <1>2, SleepersRest, RecordStep, OthersDoNotCycle DEF TimingNext
  <2>2. Registered(p)
    BY <2>1 DEF Placement, NewcomersApart
  <2>3. program'[p] = program[p]
    BY <2>2, ProgramStep DEF TimingNext
  <2> QED
    BY <2>1, <2>3 DEF AsleepInv, AsleepOf
<1> QED
  BY <1>1, <1>2, NextSplit, AsleepRunCycle DEF TimingNext

-----------------------------------------------------------------------------
LEMMA InitialTiming == TimingInit => TimingInv
<1> SUFFICES ASSUME TimingInit PROVE TimingInv
  OBVIOUS
<1>1. TimersOK /\ ProgramsInv /\ TurnInv
  BY DEF TimingInit, Init, TimersOK, ProgramsInv, TurnInv, TurnOf
<1>2. ASSUME NEW p \in Procs PROVE Len(program[p]) = 0 /\ index[p] = 0
  <2>1. index[p] = 0 /\ program[p] = <<>>
    BY DEF TimingInit, Init
  <2>2. Len(<<>>) = 0
    OBVIOUS
  <2>3. Len(program[p]) = Len(<<>>)
    BY <2>1
  <2> QED
    BY <2>1, <2>2, <2>3
<1>3. GapInv /\ AsleepInv
  BY <1>2 DEF TimingInit, Init, GapInv, GapOf, AsleepInv, AsleepOf
<1> QED
  BY <1>1, <1>3 DEF TimingInv

LEMMA TimingStutter ==
  ASSUME TimingInv, UNCHANGED <<vars, timers>>
  PROVE  TimingInv'
<1> USE DEF vars, timers, lists, ident, cores, clock, creators, pcb
<1>1. TimersOK' /\ ProgramsInv' /\ TurnInv'
  BY DEF TimingInv, TimersOK, ProgramsInv, TurnInv, TurnOf, Unchecked
<1>2. GapInv' /\ AsleepInv'
  BY DEF TimingInv, GapInv, GapOf, Rested, Registered, AsleepInv, AsleepOf
<1> QED
  BY <1>1, <1>2 DEF TimingInv

(* The counters of the code and those that count from outside agree.        *)
LEMMA TimingInvariant == TimingSpec => [](SchedulerInv /\ TimingInv)
<1>1. SchedulerInv /\ TimingInv /\ TimingNext => TimingInv'
  <2> SUFFICES ASSUME SchedulerInv, TimingInv, TimingNext PROVE TimingInv'
    OBVIOUS
  <2>1. TimersOK' /\ ProgramsInv'
    BY RecordStep, ProgramStep DEF SchedulerInv, TimingInv, TimingNext
  <2> QED
    BY <2>1, TurnStep, GapStep, AsleepStep DEF TimingInv
<1>2. SchedulerInv /\ TimingInv /\ [TimingNext]_<<vars, timers>> => TimingInv'
  BY <1>1, TimingStutter
<1> QED
  BY InitialTiming, <1>2, SchedulerInvariants, PTL DEF TimingSpec

(* Every turn that a preemption ends has lasted for exactly the quantum.    *)
THEOREM QuantumExact == TimingSpec => FullQuantum
<1>1. ASSUME SchedulerInv, TimingInv, [TimingNext]_<<vars, timers>>, NEW w \in Workers,
             preempted'[w] # preempted[w], preempted'[w] # None
      PROVE  turn[w] = IF Quantum > 1 THEN Quantum ELSE 1
  <2> USE DEF SchedulerInv, TimingInv
  <2>1. CheckQuantum
    <3>1. Next
      BY <1>1 DEF TimingNext, vars, cores, timers
    <3>2. ~CollectPreempted
      BY <1>1 DEF CollectPreempted, SlotCleared, TypeOK, CoresOK
    <3> QED
      BY <1>1, <3>1, <3>2, CycleOfCore DEF Next, CLI, SchedulerLoop, Start, ResumeGenerating,
         StopGenerating, CreateNamedProcess, AddProcess, SkipGeneration, GenerateProcess,
         CommitGenerated, WorkersDone, Dispatch, RequeuePreempted, UpdateSleeping, EndTick, cores
  <2>2. /\ w = at /\ current[w] # None /\ QuantumExpires(current[w]) /\ phase = "quantum"
        /\ current[w] \in Procs
    BY <1>1, <2>1 DEF CheckQuantum, cores, TypeOK, CoresOK
  <2>3. TurnOf(w) /\ Unchecked(w)
    BY <1>1, <2>2 DEF TurnInv, Unchecked, TypeOK, ClockOK
  <2>4. quantumUsed[current[w]] \in Nat
    BY <1>1, <2>2 DEF TypeOK, PcbOK
  <2> QED
    BY <2>2, <2>3, <2>4, SchedulerAssumption DEF TurnOf, QuantumExpires
<1>2. SchedulerInv /\ TimingInv /\ [TimingNext]_<<vars, timers>> =>
        [\A w \in Workers : preempted'[w] # preempted[w] /\ preempted'[w] # None
           => turn[w] = IF Quantum > 1 THEN Quantum ELSE 1]_<<vars, timers>>
  BY <1>1
<1> QED
  BY <1>2, TimingInvariant, PTL DEF TimingSpec, FullQuantum

(* Every instruction waits for exactly the delay that its predecessor       *)
(* leaves, across preemptions.                                              *)
THEOREM DelayExact == TimingSpec => DelayBetweenInstructions
<1>1. ASSUME SchedulerInv, TimingInv, [TimingNext]_<<vars, timers>>, NEW p \in Procs,
             index'[p] # index[p]
      PROVE  gap[p] = IF index[p] = 0 \/ program[p][index[p]].keyword = "SLEEP"
                      THEN 0 ELSE Delay
  <2> USE DEF SchedulerInv, TimingInv
  <2>1. Next
    BY <1>1 DEF TimingNext, vars, pcb, timers
  <2>2. PICK w \in Workers : RunCycle(w)
    BY <1>1, <2>1, NextSplit, OthersDoNotCycle
  <2>3. Executes(p)
    BY <1>1, <2>2, CycleOfCore, SchedulerAssumption DEF Delays, Expires
  <2>4. GapOf(p) /\ gap[p] \in Nat
    BY <1>1 DEF GapInv, TimersOK
  <2> QED
    BY <2>3, <2>4 DEF Executes, GapOf, Rested
<1>2. SchedulerInv /\ TimingInv /\ [TimingNext]_<<vars, timers>> =>
        [\A p \in Procs : index'[p] # index[p] =>
           gap[p] = IF index[p] = 0 \/ program[p][index[p]].keyword = "SLEEP"
                    THEN 0 ELSE Delay]_<<vars, timers>>
  BY <1>1
<1> QED
  BY <1>2, TimingInvariant, PTL DEF TimingSpec, DelayBetweenInstructions

(* Every sleep lasts for exactly the ticks it was given, and one at least.  *)
THEOREM SleepExact == TimingSpec => SleepsItsTicks
<1>1. ASSUME SchedulerInv, TimingInv, [TimingNext]_<<vars, timers>>, NEW p \in Procs,
             state[p] = "WAITING", state'[p] # "WAITING"
      PROVE  LET n == program[p][index[p]].cycles
             IN  asleep'[p] = IF n > 1 THEN n ELSE 1
  <2> USE DEF SchedulerInv, TimingInv
  <2> DEFINE n == program[p][index[p]].cycles
  <2>1. Next /\ Record
    BY <1>1 DEF TimingNext, vars, pcb, timers
  <2>2. UpdateSleeping
    <3>1. ~\E w \in Workers : RunCycle(w)
      BY <1>1, CycleOfCore, SchedulerAssumption
    <3> QED
      BY <1>1, <2>1, <3>1, NextSplit, SleepersRest
  <2>3. n \in Int
    BY <1>1, SleepStatement
  <2>4. asleep'[p] = asleep[p] + 1 /\ ~(sleepLeft[p] > 1)
    BY <1>1, <2>1, <2>2, CountDown
  <2>5. /\ asleep[p] + sleepLeft[p] = n /\ (asleep[p] = 0 \/ sleepLeft[p] > 0)
        /\ asleep[p] \in Nat /\ sleepLeft[p] \in Int
    BY <1>1 DEF AsleepInv, AsleepOf, TimersOK, TypeOK, PcbOK
  <2> HIDE DEF n
  <2> QED
    BY <2>3, <2>4, <2>5 DEF n
<1>2. SchedulerInv /\ TimingInv /\ [TimingNext]_<<vars, timers>> =>
        [\A p \in Procs : state[p] = "WAITING" /\ state'[p] # "WAITING" =>
           LET n == program[p][index[p]].cycles
           IN  asleep'[p] = IF n > 1 THEN n ELSE 1]_<<vars, timers>>
  BY <1>1
<1> QED
  BY <1>2, TimingInvariant, PTL DEF TimingSpec, SleepsItsTicks
=============================================================================

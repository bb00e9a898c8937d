--------------------------- MODULE SchedulerProofs ---------------------------
(***************************************************************************)
(* Machine-checked theorems about Scheduler, for every number of cores,    *)
(* every set of processes and programs, every quantum and delay: types;    *)
(* that every process is in exactly the place its state says (the          *)
(* inductive invariant Placement); the life of a process; the order of     *)
(* service.                                                                *)
(***************************************************************************)
EXTENDS Scheduler, TLAPS

(* Init gives every variable a value of its type.                           *)
LEMMA TypeInit == Init => TypeOK
<1> SUFFICES ASSUME Init PROVE TypeOK
  OBVIOUS
<1> USE SchedulerAssumption DEF Init
<1>1. ListsOK
  BY DEF ListsOK
<1>2. CoresOK
  BY DEF CoresOK
<1>3. ClockOK
  BY DEF ClockOK, Phases
<1>4. CreatorsOK
  <2>1. (phase = "commit") <=> (generated # None)
    OBVIOUS
  <2>2. pid \in [Procs -> Nat] /\ program \in [Procs -> Seq(Statement)]
    OBVIOUS
  <2> QED
    BY <2>1, <2>2 DEF CreatorsOK
<1>5. PcbOK
  BY DEF PcbOK, States
<1> QED
  BY <1>1, <1>2, <1>3, <1>4, <1>5 DEF TypeOK

(* Appending the new process keeps the lists well typed.                    *)
LEMMA RegisterType ==
  ASSUME ListsOK, NEW p \in Procs, Register(p)
  PROVE  /\ processes' \in Seq(Procs) /\ queue' \in Seq(Procs)
         /\ Len(processes') = Len(processes) + 1
  BY DEF ListsOK, Register

(* A freshly constructed process has a PID and a program.                   *)
LEMMA ConstructType ==
  ASSUME CreatorsOK, NEW p \in Procs, NEW prog \in Programs, Construct(p, prog)
  PROVE  pid' \in [Procs -> Nat] /\ program' \in [Procs -> Seq(Statement)]
  BY SchedulerAssumption DEF CreatorsOK, Construct

LEMMA TypeCLI == TypeOK /\ CLI => TypeOK'
<1> SUFFICES ASSUME TypeOK, CLI PROVE TypeOK'
  OBVIOUS
<1> USE SchedulerAssumption
<1>1. CASE Start \/ ResumeGenerating \/ StopGenerating
  <2> USE <1>1 DEF Start, ResumeGenerating, StopGenerating, TypeOK,
                   ident, lists, cores, clock, creators, pcb
  <2>1. ListsOK'
    BY DEF ListsOK
  <2>2. CoresOK'
    BY DEF CoresOK
  <2>3. ClockOK'
    BY DEF ClockOK, Phases
  <2>4. CreatorsOK'
    BY DEF CreatorsOK
  <2>5. PcbOK'
    BY DEF PcbOK
  <2> QED
    BY <2>1, <2>2, <2>3, <2>4, <2>5
<1>2. CASE CreateNamedProcess
  <2> USE <1>2 DEF CreateNamedProcess, PidUsed, TypeOK, lists, cores, clock, pcb
  <2>1. PICK p \in Fresh, prog \in Programs : Construct(p, prog) /\ named' = p
    OBVIOUS
  <2>2. p \in Procs
    BY DEF Fresh
  <2>3. ListsOK'
    BY DEF ListsOK
  <2>4. CoresOK'
    BY DEF CoresOK
  <2>5. ClockOK'
    BY DEF ClockOK
  <2>6. CreatorsOK'
    BY <2>1, <2>2, ConstructType DEF CreatorsOK
  <2>7. PcbOK'
    BY DEF PcbOK
  <2> QED
    BY <2>3, <2>4, <2>5, <2>6, <2>7
<1>3. CASE AddProcess
  <2> USE <1>3 DEF AddProcess, TypeOK, ident, cores, clock, pcb
  <2>1. named \in Procs
    BY DEF CreatorsOK
  <2>2. ListsOK'
    BY <2>1, RegisterType DEF ListsOK
  <2>3. CoresOK'
    BY DEF CoresOK
  <2>4. ClockOK'
    BY <2>1, RegisterType DEF ClockOK, ListsOK
  <2>5. CreatorsOK'
    BY DEF CreatorsOK
  <2>6. PcbOK'
    BY DEF PcbOK
  <2> QED
    BY <2>2, <2>3, <2>4, <2>5, <2>6
<1> QED
  BY <1>1, <1>2, <1>3 DEF CLI

-----------------------------------------------------------------------------
(* One iteration of a loop over the workers keeps the clock well typed.     *)
LEMMA NextWorkerType ==
  ASSUME ClockOK, NEW following \in Phases, NextWorker(following),
         at < NumCpu, done' = done, tick' = tick,
         phase \in {"quantum", "dispatch", "collect"},
         following \notin {"wake"}
  PROVE  ClockOK'
  BY SchedulerAssumption DEF ClockOK, NextWorker, Phases

(* Starting the next round of cycles keeps the clock well typed.            *)
LEMMA TriggerType ==
  ASSUME ClockOK, AdvanceClock \/ tick' = tick, TriggerWorkers, at' = at,
         phase \in {"generate", "commit"}
  PROVE  ClockOK'
<1>1. tick' \in 0 .. BatchFreq - 1
  BY SchedulerAssumption DEF ClockOK, AdvanceClock
<1> QED
  BY <1>1, SchedulerAssumption DEF ClockOK, TriggerWorkers, Phases

LEMMA TypeGenerate ==
  TypeOK /\ (SkipGeneration \/ GenerateProcess \/ CommitGenerated) => TypeOK'
<1> SUFFICES ASSUME TypeOK, SkipGeneration \/ GenerateProcess \/ CommitGenerated
             PROVE  TypeOK'
  OBVIOUS
<1> USE SchedulerAssumption
<1>1. CASE SkipGeneration
  <2> USE <1>1 DEF SkipGeneration, TypeOK, ident, lists, cores, creators, pcb
  <2>1. ListsOK'
    BY DEF ListsOK
  <2>2. CoresOK'
    BY DEF CoresOK
  <2>3. ClockOK'
    BY TriggerType
  <2>4. CreatorsOK'
    BY DEF CreatorsOK, TriggerWorkers
  <2>5. PcbOK'
    BY DEF PcbOK
  <2> QED
    BY <2>1, <2>2, <2>3, <2>4, <2>5
<1>2. CASE GenerateProcess
  <2> USE <1>2 DEF GenerateProcess, TypeOK, lists, cores, pcb
  <2>1. PICK p \in Fresh, prog \in Programs : Construct(p, prog) /\ generated' = p
    OBVIOUS
  <2>2. p \in Procs /\ p # None
    BY DEF Fresh
  <2>3. ListsOK'
    BY DEF ListsOK
  <2>4. CoresOK'
    BY DEF CoresOK
  <2>5. ClockOK'
    <3>1. tick' \in 0 .. BatchFreq - 1
      BY DEF ClockOK, AdvanceClock
    <3> QED
      BY <3>1 DEF ClockOK, Phases
  <2>6. CreatorsOK'
    BY <2>1, <2>2, ConstructType DEF CreatorsOK
  <2>7. PcbOK'
    BY DEF PcbOK
  <2> QED
    BY <2>3, <2>4, <2>5, <2>6, <2>7
<1>3. CASE CommitGenerated
  <2> USE <1>3 DEF CommitGenerated, PidUsed, TypeOK, cores, pcb
  <2>1. generated \in Procs
    BY DEF CreatorsOK
  <2>2. ListsOK'
    BY <2>1, RegisterType DEF ListsOK
  <2>3. CoresOK'
    BY DEF CoresOK
  <2>4. ClockOK'
    BY TriggerType
  <2>5. CreatorsOK'
    BY DEF CreatorsOK, TriggerWorkers
  <2>6. PcbOK'
    BY DEF PcbOK
  <2> QED
    BY <2>2, <2>3, <2>4, <2>5, <2>6
<1> QED
  BY <1>1, <1>2, <1>3

LEMMA TypeTick ==
  TypeOK /\ (WorkersDone \/ CheckQuantum \/ Dispatch) => TypeOK'
<1> SUFFICES ASSUME TypeOK, WorkersDone \/ CheckQuantum \/ Dispatch PROVE TypeOK'
  OBVIOUS
<1> USE SchedulerAssumption
<1>1. CASE WorkersDone
  <2> USE <1>1 DEF WorkersDone, ServePhase, TypeOK, ident, lists, cores, creators, pcb
  <2>1. ListsOK'
    BY DEF ListsOK
  <2>2. CoresOK'
    BY DEF CoresOK
  <2>3. phase' \in {"quantum", "dispatch", "collect"}
    OBVIOUS
  <2>4. ClockOK'
    BY <2>3 DEF ClockOK, Phases
  <2>5. CreatorsOK'
    BY <2>3 DEF CreatorsOK
  <2>6. PcbOK'
    BY DEF PcbOK
  <2> QED
    BY <2>1, <2>2, <2>4, <2>5, <2>6
<1>2. CASE CheckQuantum
  <2> USE <1>2 DEF CheckQuantum, TypeOK, ident, lists, cores, creators
  <2> DEFINE p == current[at]
  <2>1. at \in Workers /\ p \in Procs \cup {None}
    BY DEF ClockOK, CoresOK, Workers
  <2>2. ListsOK'
    BY DEF ListsOK
  <2>3. CoresOK'
    BY <2>1 DEF CoresOK, Detached
  <2>4. ClockOK'
    BY NextWorkerType DEF ClockOK, Phases
  <2>5. CreatorsOK'
    BY DEF CreatorsOK, NextWorker
  <2>6. PcbOK'
    <3>1. CASE p = None \/ state[p] # "RUNNING"
      BY <3>1 DEF PcbOK
    <3>2. CASE ~(p = None \/ state[p] # "RUNNING")
      <4>1. p \in Procs
        BY <2>1, <3>2
      <4>2. /\ state' = state \/ state' = [state EXCEPT ![p] = "READY"]
            /\ \/ quantumUsed' = [quantumUsed EXCEPT ![p] = 0]
               \/ quantumUsed' = [quantumUsed EXCEPT ![p] = @ + 1]
            /\ UNCHANGED <<index, sleepLeft, cyclesLeft, coreNum, finishTime>>
        BY <3>2
      <4> HIDE <1>2 DEF CheckQuantum, p
      <4>3. state' \in [Procs -> States]
        BY <4>1, <4>2 DEF PcbOK, States
      <4>4. quantumUsed' \in [Procs -> Nat]
        <5>1. quantumUsed \in [Procs -> Nat] /\ quantumUsed[p] + 1 \in Nat
          BY <4>1 DEF PcbOK
        <5> HIDE DEF TypeOK
        <5> QED
          BY <4>1, <4>2, <5>1
      <4> QED
        BY <4>2, <4>3, <4>4 DEF PcbOK
    <3> QED
      BY <3>1, <3>2
  <2> QED
    BY <2>2, <2>3, <2>4, <2>5, <2>6
<1>3. CASE Dispatch
  <2> USE <1>3 DEF Dispatch, TypeOK, ident, creators
  <2>1. at \in Workers
    BY DEF ClockOK, Workers
  <2>2. queue # <<>> => Head(queue) \in Procs /\ Tail(queue) \in Seq(Procs)
    BY DEF ListsOK
  <2>3. ListsOK'
    BY <2>2 DEF ListsOK
  <2>4. CoresOK'
    BY <2>1, <2>2 DEF CoresOK, AssignProcess
  <2>5. ClockOK'
    BY NextWorkerType DEF ClockOK, Phases
  <2>6. CreatorsOK'
    BY DEF CreatorsOK, NextWorker
  <2>7. PcbOK'
    <3>1. CASE queue # <<>> /\ ~IsBusy(at)
      <4>1. 0 \in 0 .. Delay
        OBVIOUS
      <4>2. AssignProcess(at, Head(queue)) /\ Head(queue) \in Procs
        BY <3>1, <2>2
      <4>3. cyclesLeft' \in [Procs -> 0 .. Delay] /\ quantumUsed' \in [Procs -> Nat]
        BY <4>1, <4>2 DEF AssignProcess, PcbOK
      <4> QED
        BY <4>2, <4>3, <2>1 DEF AssignProcess, PcbOK, States
    <3>2. CASE ~(queue # <<>> /\ ~IsBusy(at))
      BY <3>2 DEF PcbOK
    <3> QED
      BY <3>1, <3>2
  <2> QED
    BY <2>3, <2>4, <2>5, <2>6, <2>7
<1> QED
  BY <1>1, <1>2, <1>3

LEMMA TypeRequeue ==
  TypeOK /\ (CollectPreempted \/ RequeuePreempted \/ UpdateSleeping \/ EndTick) => TypeOK'
<1> SUFFICES ASSUME TypeOK,
                    CollectPreempted \/ RequeuePreempted \/ UpdateSleeping \/ EndTick
             PROVE  TypeOK'
  OBVIOUS
<1> USE SchedulerAssumption
<1>1. CASE CollectPreempted
  <2> USE <1>1 DEF CollectPreempted, TypeOK, ident, lists, creators, pcb
  <2>1. at \in Workers /\ preempted[at] \in Procs \cup {None}
    BY DEF ClockOK, CoresOK, Workers
  <2>2. ListsOK'
    BY <2>1 DEF ListsOK
  <2>3. CoresOK'
    BY <2>1 DEF CoresOK, SlotCleared
  <2>4. ClockOK'
    BY NextWorkerType DEF ClockOK, Phases
  <2>5. CreatorsOK'
    BY DEF CreatorsOK, NextWorker
  <2>6. PcbOK'
    BY DEF PcbOK
  <2> QED
    BY <2>2, <2>3, <2>4, <2>5, <2>6
<1>2. CASE RequeuePreempted
  <2> USE <1>2 DEF RequeuePreempted, TypeOK, ident, cores, creators, pcb
  <2>1. ListsOK'
    BY DEF ListsOK, BatchBehind
  <2>2. CoresOK'
    BY DEF CoresOK
  <2>3. ClockOK'
    BY DEF ClockOK, Phases, ListsOK
  <2>4. CreatorsOK'
    BY DEF CreatorsOK
  <2>5. PcbOK'
    BY DEF PcbOK
  <2> QED
    BY <2>1, <2>2, <2>3, <2>4, <2>5
<1>3. CASE UpdateSleeping
  <2> USE <1>3 DEF UpdateSleeping, TypeOK, ident, cores, creators
  <2> DEFINE p == processes[at + 1]
  <2>1. p \in Procs
    BY DEF ListsOK, ClockOK
  <2>2. queue' \in Seq(Procs)
    <3>1. WokenBehind(p) \in Seq(Procs)
      BY <2>1 DEF ListsOK, WokenBehind
    <3>2. queue' = queue \/ queue' = WokenBehind(p)
      OBVIOUS
    <3> QED
      BY <3>1, <3>2 DEF ListsOK
  <2>8. ListsOK'
    BY <2>2 DEF ListsOK
  <2>3. CoresOK'
    BY DEF CoresOK
  <2>4. ClockOK'
    BY DEF ClockOK, ListsOK
  <2>5. CreatorsOK'
    BY DEF CreatorsOK
  <2>6. PcbOK'
    <3>1. state' \in [Procs -> States]
      <4>1. \/ state' = state
            \/ state' = [state EXCEPT ![p] = "FINISHED"]
            \/ state' = [state EXCEPT ![p] = "READY"]
        OBVIOUS
      <4> HIDE <1>3 DEF UpdateSleeping, p
      <4> QED
        BY <4>1 DEF PcbOK, States
    <3>2. sleepLeft' \in [Procs -> Int]
      <4>1. \E n \in Int : sleepLeft' = [sleepLeft EXCEPT ![p] = n] \/ sleepLeft' = sleepLeft
        BY <2>1 DEF PcbOK
      <4> HIDE <1>3 DEF UpdateSleeping, p
      <4> QED
        BY <4>1 DEF PcbOK
    <3> QED
      BY <3>1, <3>2 DEF PcbOK
  <2> QED
    BY <2>3, <2>4, <2>5, <2>6, <2>8
<1>4. CASE EndTick
  <2> USE <1>4 DEF EndTick, TypeOK, ident, lists, cores, creators, pcb
  <2>1. ListsOK'
    BY DEF ListsOK
  <2>2. CoresOK'
    BY DEF CoresOK
  <2>3. ClockOK'
    BY DEF ClockOK, Phases
  <2>4. CreatorsOK'
    BY DEF CreatorsOK
  <2>5. PcbOK'
    BY DEF PcbOK
  <2> QED
    BY <2>1, <2>2, <2>3, <2>4, <2>5
<1> QED
  BY <1>1, <1>2, <1>3, <1>4

-----------------------------------------------------------------------------
(* What one instruction does to its process, and that it touches no other.  *)
LEMMA ExecuteType ==
  ASSUME PcbOK, CreatorsOK, NEW p \in Procs, ExecuteInstructions(p)
  PROVE  /\ state' = [state EXCEPT ![p] = state'[p]]
         /\ state'[p] \in {"RUNNING", "WAITING", "FINISHED"}
         /\ index' \in [Procs -> Nat] /\ sleepLeft' \in [Procs -> Int]
         /\ finishTime' \in [Procs -> BOOLEAN]
<1> USE DEF ExecuteInstructions, PcbOK, CreatorsOK
<1> DEFINE stmt == program[p][index[p] + 1]
<1>1. state' = [state EXCEPT ![p] = state'[p]]
      /\ state'[p] \in {"RUNNING", "WAITING", "FINISHED"}
  OBVIOUS
<1>2. index[p] < Len(program[p]) => stmt \in Statement
  OBVIOUS
<1>3. index' \in [Procs -> Nat]
  OBVIOUS
<1>4. sleepLeft' \in [Procs -> Int]
  BY <1>2 DEF Statement
<1>5. finishTime' \in [Procs -> BOOLEAN]
  OBVIOUS
<1> QED
  BY <1>1, <1>3, <1>4, <1>5

(* A cycle of a core keeps the types, whatever the phase.                   *)
LEMMA TypeCycle ==
  ASSUME TypeOK, NEW w \in Workers, Cycle(w), done' = done \cup {w},
         UNCHANGED <<ident, lists, preempted, phase, at, tick, batch, creators,
                     quantumUsed, coreNum>>
  PROVE  TypeOK'
<1> USE SchedulerAssumption DEF TypeOK, ident, lists, creators
<1> DEFINE p == current[w]
<1>1. p \in Procs \cup {None}
  BY DEF CoresOK
<1>2. ListsOK'
  BY DEF ListsOK
<1>3. CoresOK'
  BY DEF Cycle, CoresOK, Detached, TickExecution
<1>4. ClockOK'
  BY DEF ClockOK
<1>5. CreatorsOK'
  BY DEF CreatorsOK
<1>6. PcbOK'
  <2>1. CASE p = None \/ state[p] \in {"FINISHED", "WAITING"}
    BY <2>1 DEF Cycle, PcbOK
  <2>2. CASE p # None /\ state[p] \notin {"FINISHED", "WAITING"}
    <3>1. p \in Procs /\ TickExecution(w, p)
      BY <1>1, <2>2 DEF Cycle
    <3>2. CASE InstructionDue(p)
      <4>1. ExecuteInstructions(p)
        BY <3>1, <3>2 DEF TickExecution
      <4>2. cyclesLeft' \in [Procs -> 0 .. Delay]
        <5>1. cyclesLeft' = cyclesLeft \/ cyclesLeft' = [cyclesLeft EXCEPT ![p] = Delay]
          BY <3>1, <3>2 DEF TickExecution
        <5>2. Delay \in 0 .. Delay
          OBVIOUS
        <5> QED
          BY <5>1, <5>2 DEF PcbOK
      <4>3. state' \in [Procs -> States]
        <5>1. state' = [state EXCEPT ![p] = state'[p]] /\ state'[p] \in States
          BY <3>1, <4>1, ExecuteType DEF States
        <5> HIDE DEF p
        <5> QED
          BY <5>1 DEF PcbOK
      <4> QED
        BY <3>1, <4>1, <4>2, <4>3, ExecuteType DEF PcbOK
    <3>3. CASE ~InstructionDue(p)
      <4>1. cyclesLeft[p] \in 0 .. Delay /\ cyclesLeft[p] > 0
        BY <3>1, <3>3 DEF InstructionDue, PcbOK
      <4>2. cyclesLeft' \in [Procs -> 0 .. Delay]
        <5>1. cyclesLeft' = [cyclesLeft EXCEPT ![p] = cyclesLeft[p] - 1]
          BY <3>1, <3>3, <4>1 DEF TickExecution, PcbOK
        <5>2. cyclesLeft[p] - 1 \in 0 .. Delay
          BY <4>1
        <5> HIDE DEF p
        <5> QED
          BY <5>1, <5>2 DEF PcbOK
      <4> QED
        BY <3>1, <3>3, <4>2 DEF TickExecution, PcbOK
    <3> QED
      BY <3>2, <3>3
  <2> QED
    BY <2>1, <2>2
<1> QED
  BY <1>2, <1>3, <1>4, <1>5, <1>6

LEMMA TypeRunCycle == TypeOK /\ (\E w \in Workers : RunCycle(w)) => TypeOK'
  BY TypeCycle DEF RunCycle

(* Type correctness: every variable keeps its type in every behaviour.      *)
THEOREM TypeCorrect == Spec => []TypeOK
<1>1. TypeOK /\ UNCHANGED vars => TypeOK'
  BY DEF TypeOK, ListsOK, CoresOK, ClockOK, CreatorsOK, PcbOK,
         vars, ident, lists, cores, clock, creators, pcb
<1>2. TypeOK /\ [Next]_vars => TypeOK'
  BY <1>1, TypeCLI, TypeGenerate, TypeTick, TypeRequeue, TypeRunCycle
  DEF Next, SchedulerLoop
<1> QED
  BY TypeInit, <1>2, PTL DEF Spec

-----------------------------------------------------------------------------
(* Placement.                                                               *)

(* What Append, Tail and concatenation do to membership and uniqueness.     *)
LEMMA HasAppend ==
  ASSUME NEW s \in Seq(Procs), NEW x \in Procs
  PROVE  /\ \A y \in Procs : Has(Append(s, x), y) <=> Has(s, y) \/ y = x
         /\ NoRepeats(s) /\ ~Has(s, x) => NoRepeats(Append(s, x))
<1> DEFINE t == Append(s, x)
<1>1. /\ Len(t) = Len(s) + 1 /\ t[Len(s) + 1] = x
      /\ \A i \in 1 .. Len(s) : t[i] = s[i]
  OBVIOUS
<1> HIDE DEF t
<1>2. \A y \in Procs : Has(t, y) <=> Has(s, y) \/ y = x
  BY <1>1 DEF Has
<1>3. NoRepeats(s) /\ ~Has(s, x) => NoRepeats(t)
  BY <1>1 DEF Has, NoRepeats
<1> QED
  BY <1>2, <1>3 DEF t

LEMMA HasTail ==
  ASSUME NEW s \in Seq(Procs), s # <<>>, NoRepeats(s)
  PROVE  /\ \A y \in Procs : Has(Tail(s), y) <=> Has(s, y) /\ y # Head(s)
         /\ Has(s, Head(s)) /\ NoRepeats(Tail(s))
<1> DEFINE t == Tail(s)
<1>1. /\ Len(t) = Len(s) - 1 /\ Head(s) = s[1] /\ Len(s) \in Nat /\ Len(s) > 0
      /\ \A i \in 1 .. Len(s) - 1 : t[i] = s[i + 1]
  OBVIOUS
<1> HIDE DEF t
<1>2. ASSUME NEW y \in Procs PROVE Has(t, y) <=> Has(s, y) /\ y # Head(s)
  <2>1. Has(t, y) => Has(s, y) /\ y # s[1]
    BY <1>1 DEF Has, NoRepeats
  <2>2. ASSUME Has(s, y), y # s[1] PROVE Has(t, y)
    <3>1. PICK i \in 1 .. Len(s) : s[i] = y
      BY <2>2 DEF Has
    <3>2. i - 1 \in 1 .. Len(t) /\ t[i - 1] = y
      BY <3>1, <2>2, <1>1
    <3> QED
      BY <3>2 DEF Has
  <2> QED
    BY <2>1, <2>2, <1>1
<1>3. NoRepeats(t)
  BY <1>1 DEF NoRepeats
<1>4. Has(s, Head(s))
  BY <1>1 DEF Has
<1> QED
  BY <1>2, <1>3, <1>4 DEF t

LEMMA HasConcat ==
  ASSUME NEW s \in Seq(Procs), NEW t \in Seq(Procs)
  PROVE  /\ \A y \in Procs : Has(s \o t, y) <=> Has(s, y) \/ Has(t, y)
         /\ NoRepeats(s) /\ NoRepeats(t) /\ (\A y \in Procs : Has(s, y) => ~Has(t, y))
              => NoRepeats(s \o t)
<1> DEFINE u == s \o t
<1>1. /\ Len(u) = Len(s) + Len(t) /\ Len(s) \in Nat /\ Len(t) \in Nat
      /\ \A i \in 1 .. Len(s) : u[i] = s[i]
      /\ \A i \in Len(s) + 1 .. Len(s) + Len(t) : u[i] = t[i - Len(s)]
      /\ \A i \in 1 .. Len(s) : s[i] \in Procs
  OBVIOUS
<1>2. \A j \in 1 .. Len(t) : Len(s) + j \in 1 .. Len(u) /\ u[Len(s) + j] = t[j]
  BY <1>1
<1> HIDE DEF u
<1>3. ASSUME NEW y \in Procs PROVE Has(u, y) <=> Has(s, y) \/ Has(t, y)
  <2>1. Has(u, y) => Has(s, y) \/ Has(t, y)
    <3> SUFFICES ASSUME NEW i \in 1 .. Len(u), u[i] = y PROVE Has(s, y) \/ Has(t, y)
      BY DEF Has
    <3>1. CASE i <= Len(s)
      BY <3>1, <1>1 DEF Has
    <3>2. CASE i > Len(s)
      <4>1. i - Len(s) \in 1 .. Len(t) /\ t[i - Len(s)] = y
        BY <3>2, <1>1
      <4> QED
        BY <4>1 DEF Has
    <3> QED
      BY <3>1, <3>2, <1>1
  <2>2. Has(s, y) => Has(u, y)
    BY <1>1 DEF Has
  <2>3. Has(t, y) => Has(u, y)
    BY <1>2 DEF Has
  <2> QED
    BY <2>1, <2>2, <2>3
<1>4. ASSUME NoRepeats(s), NoRepeats(t), \A y \in Procs : Has(s, y) => ~Has(t, y)
      PROVE  NoRepeats(u)
  <2> SUFFICES ASSUME NEW i \in 1 .. Len(u), NEW j \in 1 .. Len(u), u[i] = u[j], i < j
               PROVE  FALSE
    BY <1>1 DEF NoRepeats
  <2>1. CASE j <= Len(s)
    BY <2>1, <1>1, <1>4 DEF NoRepeats
  <2>2. CASE i > Len(s)
    <3>1. /\ i - Len(s) \in 1 .. Len(t) /\ j - Len(s) \in 1 .. Len(t)
          /\ t[i - Len(s)] = t[j - Len(s)]
      BY <2>2, <1>1
    <3> QED
      BY <3>1, <1>1, <1>4 DEF NoRepeats
  <2>3. CASE i <= Len(s) /\ j > Len(s)
    <3>1. /\ i \in 1 .. Len(s) /\ s[i] \in Procs
          /\ j - Len(s) \in 1 .. Len(t) /\ t[j - Len(s)] = s[i]
      BY <2>3, <1>1
    <3>2. Has(s, s[i]) /\ Has(t, s[i])
      BY <3>1 DEF Has
    <3> QED
      BY <3>1, <3>2, <1>4
  <2> QED
    BY <2>1, <2>2, <2>3, <1>1
<1> QED
  BY <1>3, <1>4 DEF u

LEMMA HasEmpty == \A x : ~Has(<<>>, x)
<1>1. Len(<<>>) = 0
  OBVIOUS
<1> QED
  BY <1>1 DEF Has

(* Filling an empty slot, and emptying one.                                 *)
LEMMA HoldsFill ==
  ASSUME NEW f \in [Workers -> Procs \cup {None}], NEW w \in Workers,
         f[w] = None, NEW x \in Procs
  PROVE  LET g == [f EXCEPT ![w] = x] IN
         /\ \A y \in Procs : Holds(g, y) <=> Holds(f, y) \/ y = x
         /\ NoSharing(f) /\ ~Holds(f, x) => NoSharing(g)
<1> DEFINE g == [f EXCEPT ![w] = x]
<1>1. \A v \in Workers : g[v] = IF v = w THEN x ELSE f[v]
  OBVIOUS
<1> HIDE DEF g
<1>2. \A y \in Procs : Holds(g, y) <=> Holds(f, y) \/ y = x
  BY <1>1, SchedulerAssumption DEF Holds
<1>3. NoSharing(f) /\ ~Holds(f, x) => NoSharing(g)
  BY <1>1 DEF Holds, NoSharing
<1> QED
  BY <1>2, <1>3 DEF g

LEMMA HoldsClear ==
  ASSUME NEW f \in [Workers -> Procs \cup {None}], NEW w \in Workers, NoSharing(f)
  PROVE  LET g == [f EXCEPT ![w] = None] IN
         /\ \A y \in Procs : Holds(g, y) <=> Holds(f, y) /\ y # f[w]
         /\ NoSharing(g)
<1> DEFINE g == [f EXCEPT ![w] = None]
<1>1. \A v \in Workers : g[v] = IF v = w THEN None ELSE f[v]
  OBVIOUS
<1> HIDE DEF g
<1>2. \A y \in Procs : Holds(g, y) <=> Holds(f, y) /\ y # f[w]
  BY <1>1, SchedulerAssumption DEF Holds, NoSharing
<1>3. NoSharing(g)
  BY <1>1 DEF NoSharing
<1> QED
  BY <1>2, <1>3 DEF g

-----------------------------------------------------------------------------
(* The moves of a process from one place to the next.  None of them takes   *)
(* a process to two places.                                                 *)

LEMMA Enqueue ==
  ASSUME TypeOK, AtMostOnePlace, NEW p \in Procs, ~Enlisted(p),
         queue' = Append(queue, p), UNCHANGED <<batch, current, preempted>>
  PROVE  /\ AtMostOnePlace'
         /\ \A q \in Procs : /\ InQueue(q)' <=> InQueue(q) \/ q = p
                             /\ InBatch(q)' <=> InBatch(q)
                             /\ InSlot(q)' <=> InSlot(q)
                             /\ OnCore(q)' <=> OnCore(q)
<1>1. /\ \A q \in Procs : InQueue(q)' <=> InQueue(q) \/ q = p
      /\ NoRepeats(queue)'
  BY HasAppend DEF Enlisted, InQueue, AtMostOnePlace, TypeOK, ListsOK
<1>2. /\ \A q \in Procs : /\ InBatch(q)' <=> InBatch(q)
                          /\ InSlot(q)' <=> InSlot(q)
                          /\ OnCore(q)' <=> OnCore(q)
      /\ NoRepeats(batch)' /\ NoSharing(current)' /\ NoSharing(preempted)'
  BY DEF InBatch, InSlot, OnCore, AtMostOnePlace, NoRepeats, NoSharing
<1> QED
  BY <1>1, <1>2 DEF Enlisted, AtMostOnePlace

LEMMA QueueToCore ==
  ASSUME TypeOK, AtMostOnePlace, NEW w \in Workers, NEW p \in Procs,
         queue # <<>>, p = Head(queue), current[w] = None,
         queue' = Tail(queue), current' = [current EXCEPT ![w] = p],
         UNCHANGED <<batch, preempted>>
  PROVE  /\ AtMostOnePlace' /\ InQueue(p)
         /\ \A q \in Procs : /\ InQueue(q)' <=> InQueue(q) /\ q # p
                             /\ InBatch(q)' <=> InBatch(q)
                             /\ InSlot(q)' <=> InSlot(q)
                             /\ OnCore(q)' <=> OnCore(q) \/ q = p
<1>1. /\ \A q \in Procs : InQueue(q)' <=> InQueue(q) /\ q # p
      /\ NoRepeats(queue)' /\ InQueue(p)
  BY HasTail DEF InQueue, AtMostOnePlace, TypeOK, ListsOK
<1>2. ~OnCore(p) /\ ~InSlot(p) /\ ~InBatch(p)
  BY <1>1 DEF AtMostOnePlace
<1>3. /\ \A q \in Procs : OnCore(q)' <=> OnCore(q) \/ q = p
      /\ NoSharing(current)'
  BY <1>2, HoldsFill DEF OnCore, AtMostOnePlace, TypeOK, CoresOK
<1>4. /\ \A q \in Procs : (InSlot(q)' <=> InSlot(q)) /\ (InBatch(q)' <=> InBatch(q))
      /\ NoSharing(preempted)' /\ NoRepeats(batch)'
  BY DEF InSlot, InBatch, AtMostOnePlace, NoRepeats, NoSharing
<1> QED
  BY <1>1, <1>2, <1>3, <1>4 DEF AtMostOnePlace

LEMMA CoreToSlot ==
  ASSUME TypeOK, AtMostOnePlace, NEW w \in Workers, NEW p \in Procs,
         p = current[w], preempted[w] = None,
         current' = [current EXCEPT ![w] = None],
         preempted' = [preempted EXCEPT ![w] = p],
         UNCHANGED <<queue, batch>>
  PROVE  /\ AtMostOnePlace' /\ OnCore(p)
         /\ \A q \in Procs : /\ InQueue(q)' <=> InQueue(q)
                             /\ InBatch(q)' <=> InBatch(q)
                             /\ InSlot(q)' <=> InSlot(q) \/ q = p
                             /\ OnCore(q)' <=> OnCore(q) /\ q # p
<1>1. OnCore(p) /\ ~InSlot(p) /\ ~InQueue(p) /\ ~InBatch(p)
  BY DEF OnCore, Holds, AtMostOnePlace
<1>2. /\ \A q \in Procs : OnCore(q)' <=> OnCore(q) /\ q # p
      /\ NoSharing(current)'
  BY HoldsClear DEF OnCore, AtMostOnePlace, TypeOK, CoresOK
<1>3. /\ \A q \in Procs : InSlot(q)' <=> InSlot(q) \/ q = p
      /\ NoSharing(preempted)'
  BY <1>1, HoldsFill DEF InSlot, AtMostOnePlace, TypeOK, CoresOK
<1>4. /\ \A q \in Procs : (InQueue(q)' <=> InQueue(q)) /\ (InBatch(q)' <=> InBatch(q))
      /\ NoRepeats(queue)' /\ NoRepeats(batch)'
  BY DEF InQueue, InBatch, AtMostOnePlace, NoRepeats
<1> QED
  BY <1>1, <1>2, <1>3, <1>4 DEF AtMostOnePlace

LEMMA SlotToBatch ==
  ASSUME TypeOK, AtMostOnePlace, NEW w \in Workers,
         preempted' = [preempted EXCEPT ![w] = None],
         batch' = IF preempted[w] = None THEN batch ELSE Append(batch, preempted[w]),
         UNCHANGED <<queue, current>>
  PROVE  /\ AtMostOnePlace'
         /\ \A q \in Procs : /\ InQueue(q)' <=> InQueue(q)
                             /\ InBatch(q)' <=> InBatch(q) \/ q = preempted[w]
                             /\ InSlot(q)' <=> InSlot(q) /\ q # preempted[w]
                             /\ OnCore(q)' <=> OnCore(q)
         /\ \A q \in Procs : q = preempted[w] => InSlot(q)
<1>1. /\ \A q \in Procs : InSlot(q)' <=> InSlot(q) /\ q # preempted[w]
      /\ NoSharing(preempted)'
  BY HoldsClear DEF InSlot, AtMostOnePlace, TypeOK, CoresOK
<1>2. /\ \A q \in Procs : InBatch(q)' <=> InBatch(q) \/ q = preempted[w]
      /\ NoRepeats(batch)'
  <2>1. CASE preempted[w] = None
    BY <2>1, SchedulerAssumption DEF InBatch, AtMostOnePlace, NoRepeats
  <2>2. CASE preempted[w] # None
    <3>1. preempted[w] \in Procs /\ InSlot(preempted[w]) /\ ~InBatch(preempted[w])
      BY <2>2 DEF TypeOK, CoresOK, InSlot, Holds, AtMostOnePlace
    <3> QED
      BY <2>2, <3>1, HasAppend DEF InBatch, AtMostOnePlace, TypeOK, ListsOK
  <2> QED
    BY <2>1, <2>2
<1>3. \A q \in Procs : q = preempted[w] => InSlot(q)
  BY DEF InSlot, Holds
<1>4. /\ \A q \in Procs : (InQueue(q)' <=> InQueue(q)) /\ (OnCore(q)' <=> OnCore(q))
      /\ NoRepeats(queue)' /\ NoSharing(current)'
  BY DEF InQueue, OnCore, AtMostOnePlace, NoRepeats, NoSharing
<1> QED
  BY <1>1, <1>2, <1>3, <1>4 DEF AtMostOnePlace

LEMMA BatchToQueue ==
  ASSUME TypeOK, AtMostOnePlace, queue' = queue \o batch, batch' = <<>>,
         UNCHANGED <<current, preempted>>
  PROVE  /\ AtMostOnePlace'
         /\ \A q \in Procs : /\ InQueue(q)' <=> InQueue(q) \/ InBatch(q)
                             /\ ~InBatch(q)'
                             /\ InSlot(q)' <=> InSlot(q)
                             /\ OnCore(q)' <=> OnCore(q)
<1>1. /\ \A q \in Procs : InQueue(q)' <=> InQueue(q) \/ InBatch(q)
      /\ NoRepeats(queue)'
  BY HasConcat DEF InQueue, InBatch, AtMostOnePlace, TypeOK, ListsOK
<1>2. (\A q \in Procs : ~InBatch(q)') /\ NoRepeats(batch)'
  <2>1. Len(batch') = 0
    OBVIOUS
  <2> QED
    BY <2>1, HasEmpty DEF InBatch, NoRepeats
<1>3. /\ \A q \in Procs : (InSlot(q)' <=> InSlot(q)) /\ (OnCore(q)' <=> OnCore(q))
      /\ NoSharing(current)' /\ NoSharing(preempted)'
  BY DEF InSlot, OnCore, AtMostOnePlace, NoSharing
<1> QED
  BY <1>1, <1>2, <1>3 DEF AtMostOnePlace

-----------------------------------------------------------------------------
(* No process has a place, so nothing is misplaced, at first.               *)
LEMMA PlacementInit == Init => Placement
<1> SUFFICES ASSUME Init PROVE Placement
  OBVIOUS
<1> USE SchedulerAssumption DEF Init
<1>1. \A p \in Procs : ~InQueue(p) /\ ~InBatch(p) /\ ~InSlot(p) /\ ~OnCore(p) /\ ~Registered(p)
  BY HasEmpty DEF InQueue, InBatch, InSlot, OnCore, Registered, Holds
<1>2. AtMostOnePlace
  BY <1>1 DEF AtMostOnePlace, NoRepeats, NoSharing
<1>3. NoneLost
  BY <1>1 DEF NoneLost, Enlisted
<1>4. SlotsCollected
  BY DEF SlotsCollected
<1>5. NewcomersApart
  BY DEF NewcomersApart
<1> QED
  BY <1>2, <1>3, <1>4, <1>5 DEF Placement

(* Steps that move no process and change no state.                          *)
LEMMA PlacementFrame ==
  ASSUME Placement, UNCHANGED <<processes, queue, batch, current, preempted, state>>
  PROVE  AtMostOnePlace' /\ NoneLost' /\ (\A p \in Procs : Registered(p)' <=> Registered(p))
<1> USE DEF InQueue, InBatch, InSlot, OnCore, Registered
<1>1. AtMostOnePlace'
  BY DEF Placement, AtMostOnePlace, NoRepeats, NoSharing
<1>2. NoneLost'
  BY DEF Placement, NoneLost, Enlisted
<1> QED
  BY <1>1, <1>2

(* A registered newcomer is in the queue and nowhere else.                  *)
LEMMA RegisterPlacement ==
  ASSUME TypeOK, Placement, NEW p \in Procs, ~Registered(p), Register(p),
         UNCHANGED <<batch, current, preempted, state>>
  PROVE  /\ AtMostOnePlace' /\ NoneLost'
         /\ \A q \in Procs : Registered(q)' <=> Registered(q) \/ q = p
<1> USE DEF TypeOK, ListsOK
<1>1. ~InQueue(p) /\ ~InBatch(p) /\ ~InSlot(p) /\ ~OnCore(p) /\ state[p] = "READY"
  BY DEF Placement, NoneLost, Enlisted, NewcomersApart
<1>2. \A q \in Procs : Registered(q)' <=> Registered(q) \/ q = p
  BY HasAppend DEF Register, Registered
<1>3. /\ AtMostOnePlace'
      /\ \A q \in Procs : /\ InQueue(q)' <=> InQueue(q) \/ q = p
                          /\ InBatch(q)' <=> InBatch(q)
                          /\ InSlot(q)' <=> InSlot(q)
                          /\ OnCore(q)' <=> OnCore(q)
  BY <1>1, Enqueue DEF Register, Enlisted, Placement
<1>7. NoneLost'
  BY <1>1, <1>2, <1>3 DEF Placement, NoneLost, Enlisted
<1> QED
  BY <1>2, <1>3, <1>7

LEMMA PlacementCLI == TypeOK /\ Placement /\ CLI => Placement'
<1> SUFFICES ASSUME TypeOK, Placement, CLI PROVE Placement'
  OBVIOUS
<1>1. CASE Start \/ ResumeGenerating \/ StopGenerating
  <2> USE <1>1 DEF Start, ResumeGenerating, StopGenerating, lists, cores, clock, pcb
  <2>1. AtMostOnePlace' /\ NoneLost'
    BY PlacementFrame
  <2>2. SlotsCollected'
    BY DEF Placement, SlotsCollected
  <2>3. NewcomersApart'
    BY DEF Placement, NewcomersApart, Registered
  <2> QED
    BY <2>1, <2>2, <2>3 DEF Placement
<1>2. CASE CreateNamedProcess
  <2> USE <1>2 DEF CreateNamedProcess, lists, cores, clock, pcb
  <2>1. PICK p \in Fresh : named' = p
    OBVIOUS
  <2>2. AtMostOnePlace' /\ NoneLost'
    BY PlacementFrame
  <2>3. SlotsCollected'
    BY DEF Placement, SlotsCollected
  <2>4. NewcomersApart'
    BY <2>1, PlacementFrame DEF Placement, NewcomersApart, Fresh, Registered
  <2> QED
    BY <2>2, <2>3, <2>4 DEF Placement
<1>3. CASE AddProcess
  <2> USE <1>3 DEF AddProcess, cores, clock, pcb
  <2>1. named \in Procs /\ ~Registered(named) /\ generated \in Procs \cup {None}
    BY DEF TypeOK, CreatorsOK, Placement, NewcomersApart
  <2>2. AtMostOnePlace' /\ NoneLost' /\ \A q \in Procs : Registered(q)' <=> Registered(q) \/ q = named
    BY <2>1, RegisterPlacement
  <2>3. SlotsCollected'
    BY DEF Placement, SlotsCollected
  <2>4. NewcomersApart'
    BY <2>1, <2>2 DEF Placement, NewcomersApart
  <2> QED
    BY <2>2, <2>3, <2>4 DEF Placement
<1> QED
  BY <1>1, <1>2, <1>3 DEF CLI

(* Generation: a process under construction is nobody else's.               *)
LEMMA PlacementGenerate ==
  TypeOK /\ Placement /\ (SkipGeneration \/ GenerateProcess \/ CommitGenerated) => Placement'
<1> SUFFICES ASSUME TypeOK, Placement, SkipGeneration \/ GenerateProcess \/ CommitGenerated
             PROVE  Placement'
  OBVIOUS
<1>1. batch = <<>> /\ \A w \in Workers : preempted[w] = None
  BY DEF Placement, SlotsCollected, SkipGeneration, GenerateProcess, CommitGenerated
<1>2. CASE SkipGeneration
  <2> USE <1>2 DEF SkipGeneration, lists, cores, creators, pcb
  <2>1. AtMostOnePlace' /\ NoneLost'
    BY PlacementFrame
  <2>2. SlotsCollected'
    BY <1>1 DEF SlotsCollected
  <2>3. NewcomersApart'
    BY DEF Placement, NewcomersApart, Registered
  <2> QED
    BY <2>1, <2>2, <2>3 DEF Placement
<1>3. CASE GenerateProcess
  <2> USE <1>3 DEF GenerateProcess, lists, cores, pcb
  <2>1. PICK p \in Fresh : generated' = p
    OBVIOUS
  <2>2. AtMostOnePlace' /\ NoneLost'
    BY PlacementFrame
  <2>3. SlotsCollected'
    BY <1>1 DEF SlotsCollected
  <2>4. NewcomersApart'
    BY <2>1 DEF Placement, NewcomersApart, Fresh, Registered
  <2> QED
    BY <2>2, <2>3, <2>4 DEF Placement
<1>4. CASE CommitGenerated
  <2> USE <1>4 DEF CommitGenerated, cores, pcb
  <2>1. generated \in Procs /\ ~Registered(generated) /\ named \in Procs \cup {None} /\ generated # named
    BY SchedulerAssumption DEF TypeOK, CreatorsOK, Placement, NewcomersApart
  <2>2. /\ AtMostOnePlace' /\ NoneLost'
        /\ \A q \in Procs : Registered(q)' <=> Registered(q) \/ q = generated
    BY <2>1, RegisterPlacement
  <2>3. SlotsCollected'
    BY <1>1 DEF SlotsCollected
  <2>4. NewcomersApart'
    BY <2>1, <2>2 DEF Placement, NewcomersApart
  <2> QED
    BY <2>2, <2>3, <2>4 DEF Placement
<1> QED
  BY <1>2, <1>3, <1>4

(* A tick's phases begin with every slot empty.                             *)
LEMMA PlacementWorkersDone == TypeOK /\ Placement /\ WorkersDone => Placement'
<1> SUFFICES ASSUME TypeOK, Placement, WorkersDone PROVE Placement'
  OBVIOUS
<1> USE DEF WorkersDone, ServePhase, lists, cores, creators, pcb
<1>1. AtMostOnePlace' /\ NoneLost'
  BY PlacementFrame
<1>2. batch = <<>> /\ \A w \in Workers : preempted[w] = None
  BY DEF Placement, SlotsCollected
<1>3. SlotsCollected'
  BY <1>2 DEF SlotsCollected
<1>4. NewcomersApart'
  BY DEF Placement, NewcomersApart, Registered
<1> QED
  BY <1>1, <1>3, <1>4 DEF Placement

(* Where a loop over the workers goes next.                                 *)
LEMMA NextWorkerStep ==
  ASSUME TypeOK, NEW following, NextWorker(following), phase \in {"quantum", "dispatch", "collect"}
  PROVE  /\ at \in Workers
         /\ \/ phase' = phase /\ at' = at + 1
            \/ phase' = following /\ \A w \in Workers : w <= at
  BY SchedulerAssumption DEF TypeOK, ClockOK, NextWorker, Workers

(* Preemption moves a process from the core to the empty slot beside it.    *)
LEMMA PlacementCheckQuantum == TypeOK /\ Placement /\ CheckQuantum => Placement'
<1> SUFFICES ASSUME TypeOK, Placement, CheckQuantum PROVE Placement'
  OBVIOUS
<1> USE DEF CheckQuantum, lists, creators
<1>0. /\ at \in Workers /\ at \in Nat
      /\ \/ phase' = "quantum" /\ at' = at + 1
         \/ phase' = "dispatch" /\ \A w \in Workers : w <= at
  BY NextWorkerStep DEF TypeOK, ClockOK
<1>1. CASE UNCHANGED <<current, preempted, state>>
  <2>1. AtMostOnePlace' /\ NoneLost'
    BY <1>1, PlacementFrame
  <2>2. SlotsCollected'
    BY <1>0, <1>1 DEF Placement, SlotsCollected, Workers
  <2>3. NewcomersApart'
    BY <1>1 DEF Placement, NewcomersApart, Registered
  <2> QED
    BY <2>1, <2>2, <2>3 DEF Placement
<1>2. CASE ~UNCHANGED <<current, preempted, state>>
  <2>1. PICK p \in Procs : /\ p = current[at] /\ state[p] = "RUNNING"
                           /\ state' = [state EXCEPT ![p] = "READY"]
                           /\ current' = [current EXCEPT ![at] = None]
                           /\ preempted' = [preempted EXCEPT ![at] = p]
    BY <1>0, <1>2 DEF Detached, cores, TypeOK, CoresOK
  <2> HIDE DEF CheckQuantum
  <2>2. UNCHANGED <<processes, queue, batch, generated, named>> /\ phase = "quantum"
    BY DEF CheckQuantum
  <2>3. preempted[at] = None /\ batch = <<>>
    BY <1>0, <2>2 DEF Placement, SlotsCollected
  <2>4. /\ AtMostOnePlace' /\ OnCore(p)
        /\ \A q \in Procs : /\ InQueue(q)' <=> InQueue(q)
                            /\ InBatch(q)' <=> InBatch(q)
                            /\ InSlot(q)' <=> InSlot(q) \/ q = p
                            /\ OnCore(q)' <=> OnCore(q) /\ q # p
    BY <1>0, <2>1, <2>2, <2>3, CoreToSlot DEF Placement
  <2>7. \A q \in Procs : /\ Registered(q)' <=> Registered(q)
                         /\ state'[q] = IF q = p THEN "READY" ELSE state[q]
    BY <2>1, <2>2 DEF Registered, TypeOK, PcbOK
  <2>8. Registered(p)
    BY <2>4 DEF Placement, NoneLost, Enlisted
  <2>9. NoneLost'
    BY <2>4, <2>7, <2>8 DEF Placement, NoneLost, Enlisted
  <2>10. SlotsCollected'
    BY <1>0, <2>1, <2>2 DEF Placement, SlotsCollected, Workers, TypeOK, CoresOK
  <2>11. NewcomersApart'
    BY <2>2, <2>7, <2>8 DEF Placement, NewcomersApart, Registered, TypeOK, CreatorsOK
  <2> QED
    BY <2>4, <2>9, <2>10, <2>11 DEF Placement
<1> QED
  BY <1>1, <1>2

(* Dispatch moves the front of the queue to an idle core.                   *)
LEMMA PlacementDispatch == TypeOK /\ Placement /\ Dispatch => Placement'
<1> SUFFICES ASSUME TypeOK, Placement, Dispatch PROVE Placement'
  OBVIOUS
<1> USE DEF Dispatch, creators
<1>0. /\ at \in Workers /\ at \in Nat
      /\ \/ phase' = "dispatch"
         \/ phase' = "collect"
      /\ phase' = "collect" => at' = 0
  BY NextWorkerStep, SchedulerAssumption DEF TypeOK, ClockOK, NextWorker
<1>1. SlotsCollected'
  BY <1>0 DEF Placement, SlotsCollected, Workers
<1>2. CASE UNCHANGED <<queue, current, state>>
  <2>1. AtMostOnePlace' /\ NoneLost'
    BY <1>2, PlacementFrame
  <2>3. NewcomersApart'
    BY <1>2 DEF Placement, NewcomersApart, Registered
  <2> QED
    BY <1>1, <2>1, <2>3 DEF Placement
<1>3. CASE ~UNCHANGED <<queue, current, state>>
  <2>1. PICK p \in Procs : /\ queue # <<>> /\ p = Head(queue) /\ current[at] = None
                           /\ state' = [state EXCEPT ![p] = "RUNNING"]
                           /\ current' = [current EXCEPT ![at] = p]
                           /\ queue' = Tail(queue)
    BY <1>3 DEF AssignProcess, IsBusy, TypeOK, ListsOK
  <2> HIDE DEF Dispatch
  <2>2. UNCHANGED <<processes, batch, preempted, generated, named>>
    BY DEF Dispatch
  <2>3. /\ AtMostOnePlace' /\ InQueue(p)
        /\ \A q \in Procs : /\ InQueue(q)' <=> InQueue(q) /\ q # p
                            /\ InBatch(q)' <=> InBatch(q)
                            /\ InSlot(q)' <=> InSlot(q)
                            /\ OnCore(q)' <=> OnCore(q) \/ q = p
    BY <1>0, <2>1, <2>2, QueueToCore DEF Placement
  <2>4. ~InSlot(p) /\ ~InBatch(p) /\ Registered(p)
    BY <2>3 DEF Placement, AtMostOnePlace, NoneLost, Enlisted
  <2>6. \A q \in Procs : /\ Registered(q)' <=> Registered(q)
                         /\ state'[q] = IF q = p THEN "RUNNING" ELSE state[q]
    BY <2>1, <2>2 DEF Registered, TypeOK, PcbOK
  <2>8. NoneLost'
    BY <2>3, <2>4, <2>6 DEF Placement, NoneLost, Enlisted
  <2>9. NewcomersApart'
    BY <2>2, <2>4, <2>6 DEF Placement, NewcomersApart, Registered, TypeOK, CreatorsOK
  <2> QED
    BY <1>1, <2>3, <2>8, <2>9 DEF Placement
<1> QED
  BY <1>2, <1>3

(* Collecting moves a process from its slot to the list.                    *)
LEMMA PlacementCollect == TypeOK /\ Placement /\ CollectPreempted => Placement'
<1> SUFFICES ASSUME TypeOK, Placement, CollectPreempted PROVE Placement'
  OBVIOUS
<1>0. /\ at \in Workers /\ at \in Nat /\ phase = "collect"
      /\ \/ phase' = "collect" /\ at' = at + 1
         \/ phase' = "requeue" /\ \A w \in Workers : w <= at
      /\ preempted' = [preempted EXCEPT ![at] = None]
      /\ batch' = IF preempted[at] = None THEN batch ELSE Append(batch, preempted[at])
      /\ UNCHANGED <<processes, queue, current, state, generated, named>>
  BY NextWorkerStep DEF TypeOK, ClockOK, CollectPreempted, SlotCleared, lists, creators, pcb
<1>1. /\ AtMostOnePlace'
      /\ \A q \in Procs : /\ InQueue(q)' <=> InQueue(q)
                          /\ InBatch(q)' <=> InBatch(q) \/ q = preempted[at]
                          /\ InSlot(q)' <=> InSlot(q) /\ q # preempted[at]
                          /\ OnCore(q)' <=> OnCore(q)
      /\ \A q \in Procs : q = preempted[at] => InSlot(q)
  BY <1>0, SlotToBatch DEF Placement
<1>4. \A q \in Procs : Registered(q)' <=> Registered(q)
  BY <1>0 DEF Registered
<1>6. NoneLost'
  BY <1>0, <1>1, <1>4 DEF Placement, NoneLost, Enlisted
<1>7. SlotsCollected'
  <2>1. \A w \in Workers : preempted'[w] # None => preempted[w] # None /\ w # at
    BY <1>0 DEF TypeOK, CoresOK
  <2> QED
    BY <1>0, <2>1 DEF Placement, SlotsCollected, Workers
<1>8. NewcomersApart'
  BY <1>0, <1>4 DEF Placement, NewcomersApart, Registered
<1> QED
  BY <1>1, <1>6, <1>7, <1>8 DEF Placement

(* The list is spliced behind the queue in one piece.                       *)
LEMMA PlacementRequeue == TypeOK /\ Placement /\ RequeuePreempted => Placement'
<1> SUFFICES ASSUME TypeOK, Placement, RequeuePreempted PROVE Placement'
  OBVIOUS
<1> USE DEF RequeuePreempted, BatchBehind, cores, creators, pcb
<1>1. /\ AtMostOnePlace'
      /\ \A q \in Procs : /\ InQueue(q)' <=> InQueue(q) \/ InBatch(q)
                          /\ ~InBatch(q)'
                          /\ InSlot(q)' <=> InSlot(q)
                          /\ OnCore(q)' <=> OnCore(q)
  BY BatchToQueue DEF Placement
<1>3. \A q \in Procs : Registered(q)' <=> Registered(q)
  BY DEF Registered
<1>5. NoneLost'
  BY <1>1, <1>3 DEF Placement, NoneLost, Enlisted
<1>6. SlotsCollected'
  BY DEF Placement, SlotsCollected
<1>7. NewcomersApart'
  BY <1>3 DEF Placement, NewcomersApart, Registered
<1> QED
  BY <1>1, <1>5, <1>6, <1>7 DEF Placement

(* A woken process enters the queue from nowhere, or finishes.              *)
LEMMA PlacementWake == TypeOK /\ Placement /\ UpdateSleeping => Placement'
<1> SUFFICES ASSUME TypeOK, Placement, UpdateSleeping PROVE Placement'
  OBVIOUS
<1> DEFINE p == processes[at + 1]
<1>0. /\ p \in Procs /\ Registered(p) /\ phase = "wake"
      /\ UNCHANGED <<processes, batch, current, preempted, generated, named, phase>>
      /\ \/ UNCHANGED <<queue, state>>
         \/ /\ state[p] = "WAITING"
            /\ state' = [state EXCEPT ![p] = "FINISHED"] /\ queue' = queue
         \/ /\ state[p] = "WAITING"
            /\ state' = [state EXCEPT ![p] = "READY"] /\ queue' = Append(queue, p)
  BY DEF UpdateSleeping, WokenBehind, cores, creators, TypeOK, ListsOK, ClockOK, Registered, Has
<1> HIDE DEF p
<1>1. batch' = <<>> /\ \A w \in Workers : preempted'[w] = None
  BY <1>0 DEF Placement, SlotsCollected
<1>2. SlotsCollected'
  BY <1>1 DEF SlotsCollected
<1>3. CASE UNCHANGED <<queue, state>>
  <2>1. AtMostOnePlace' /\ NoneLost'
    BY <1>0, <1>3, PlacementFrame
  <2>2. NewcomersApart'
    BY <1>0, <1>3 DEF Placement, NewcomersApart, Registered
  <2> QED
    BY <1>2, <2>1, <2>2 DEF Placement
<1>4. CASE state[p] = "WAITING" /\ ~UNCHANGED <<queue, state>>
  <2>1. ~InQueue(p) /\ ~InBatch(p) /\ ~InSlot(p) /\ ~OnCore(p)
    BY <1>0, <1>4 DEF Placement, NoneLost, Enlisted
  <2>2. /\ state'[p] \in {"READY", "FINISHED"}
        /\ \A q \in Procs : q # p => state'[q] = state[q]
        /\ \A q \in Procs : InQueue(q)' <=> InQueue(q) \/ (q = p /\ state'[p] = "READY")
        /\ NoRepeats(queue)'
    <3>1. CASE state' = [state EXCEPT ![p] = "FINISHED"] /\ queue' = queue
      <4>1. /\ \A q \in Procs : state'[q] = IF q = p THEN "FINISHED" ELSE state[q]
            /\ \A q \in Procs : InQueue(q)' <=> InQueue(q)
            /\ NoRepeats(queue)'
        BY <1>0, <3>1 DEF InQueue, Placement, AtMostOnePlace, TypeOK, PcbOK
      <4> QED
        BY <1>0, <4>1
    <3>2. CASE state' = [state EXCEPT ![p] = "READY"] /\ queue' = Append(queue, p)
      <4>1. /\ \A q \in Procs : state'[q] = IF q = p THEN "READY" ELSE state[q]
            /\ \A q \in Procs : InQueue(q)' <=> InQueue(q) \/ q = p
            /\ NoRepeats(queue)'
        BY <1>0, <2>1, <3>2, HasAppend DEF InQueue, Placement, AtMostOnePlace, TypeOK, PcbOK, ListsOK
      <4> QED
        BY <1>0, <4>1
    <3> QED
      BY <1>0, <1>4, <3>1, <3>2
  <2>3. /\ \A q \in Procs : /\ InBatch(q)' <=> InBatch(q)
                            /\ InSlot(q)' <=> InSlot(q)
                            /\ OnCore(q)' <=> OnCore(q)
                            /\ Registered(q)' <=> Registered(q)
        /\ NoRepeats(batch)' /\ NoSharing(current)' /\ NoSharing(preempted)'
    BY <1>0 DEF InBatch, InSlot, OnCore, Registered, Placement, AtMostOnePlace, NoRepeats, NoSharing
  <2>4. AtMostOnePlace'
    BY <1>0, <2>1, <2>2, <2>3 DEF Placement, AtMostOnePlace
  <2>5. NoneLost'
    BY <1>0, <1>4, <2>1, <2>2, <2>3 DEF Placement, NoneLost, Enlisted
  <2>6. NewcomersApart'
    BY <1>0, <2>2, <2>3 DEF Placement, NewcomersApart, Registered, TypeOK, CreatorsOK
  <2> QED
    BY <1>2, <2>4, <2>5, <2>6 DEF Placement
<1> QED
  BY <1>0, <1>3, <1>4

LEMMA PlacementEndTick == TypeOK /\ Placement /\ EndTick => Placement'
<1> SUFFICES ASSUME TypeOK, Placement, EndTick PROVE Placement'
  OBVIOUS
<1> USE DEF EndTick, lists, cores, creators, pcb
<1>1. AtMostOnePlace' /\ NoneLost'
  BY PlacementFrame
<1>2. batch = <<>> /\ \A w \in Workers : preempted[w] = None
  BY DEF Placement, SlotsCollected
<1>3. SlotsCollected'
  BY <1>2 DEF SlotsCollected
<1>4. NewcomersApart'
  BY DEF Placement, NewcomersApart, Registered
<1> QED
  BY <1>1, <1>3, <1>4 DEF Placement

(* A process leaves its core exactly when it stops RUNNING.                 *)
LEMMA PlacementRunCycle ==
  ASSUME TypeOK, Placement, NEW w \in Workers, RunCycle(w)
  PROVE  Placement'
<1> DEFINE p == current[w]
<1>0. /\ UNCHANGED <<processes, queue, batch, preempted, generated, named, phase>>
      /\ p \in Procs \cup {None} /\ phase = "cycle"
  BY DEF RunCycle, Cycle, lists, creators, TypeOK, CoresOK
<1>1. p # None => p \in Procs /\ OnCore(p) /\ state[p] = "RUNNING"
  BY <1>0 DEF OnCore, Holds, Placement, NoneLost
<1>2. SlotsCollected'
  BY <1>0 DEF Placement, SlotsCollected
<1>3. \/ UNCHANGED <<current, state>>
      \/ /\ p \in Procs /\ current' = [current EXCEPT ![w] = None]
         /\ state' = [state EXCEPT ![p] = state'[p]]
         /\ state'[p] \in {"WAITING", "FINISHED"}
  <2>1. CASE p = None
    BY <2>1 DEF RunCycle, Cycle
  <2>2. CASE p # None
    <3>1. TickExecution(w, p) /\ p \in Procs
      BY <1>1, <2>2 DEF RunCycle, Cycle
    <3>2. CASE InstructionDue(p)
      <4>1. /\ state' = [state EXCEPT ![p] = state'[p]]
            /\ state'[p] \in {"RUNNING", "WAITING", "FINISHED"}
        BY <3>1, <3>2, ExecuteType DEF TickExecution, TypeOK
      <4>2. state'[p] = "RUNNING" => state' = state
        BY <1>1, <2>2, <4>1 DEF TypeOK, PcbOK
      <4> QED
        BY <3>1, <3>2, <4>1, <4>2 DEF TickExecution, Detached
    <3>3. CASE ~InstructionDue(p)
      BY <3>1, <3>3 DEF TickExecution
    <3> QED
      BY <3>2, <3>3
  <2> QED
    BY <2>1, <2>2
<1>4. CASE UNCHANGED <<current, state>>
  <2>1. AtMostOnePlace' /\ NoneLost'
    BY <1>0, <1>4, PlacementFrame
  <2>2. NewcomersApart'
    BY <1>0, <1>4 DEF Placement, NewcomersApart, Registered
  <2> QED
    BY <1>2, <2>1, <2>2 DEF Placement
<1>5. CASE ~UNCHANGED <<current, state>>
  <2>0. PICK s \in {"WAITING", "FINISHED"} :
          /\ p \in Procs /\ current' = [current EXCEPT ![w] = None]
          /\ state' = [state EXCEPT ![p] = s]
    BY <1>3, <1>5
  <2>1. OnCore(p) /\ ~InSlot(p) /\ ~InQueue(p) /\ ~InBatch(p) /\ Registered(p) /\ p # None
    BY <1>1, <2>0, SchedulerAssumption DEF Placement, AtMostOnePlace, NoneLost, Enlisted
  <2>2. /\ \A q \in Procs : OnCore(q)' <=> OnCore(q) /\ q # p
        /\ NoSharing(current)'
    BY <2>0, HoldsClear DEF OnCore, Placement, AtMostOnePlace, TypeOK, CoresOK
  <2>3. /\ \A q \in Procs : /\ InQueue(q)' <=> InQueue(q)
                            /\ InBatch(q)' <=> InBatch(q)
                            /\ InSlot(q)' <=> InSlot(q)
                            /\ Registered(q)' <=> Registered(q)
                            /\ state'[q] = IF q = p THEN s ELSE state[q]
        /\ NoRepeats(queue)' /\ NoRepeats(batch)' /\ NoSharing(preempted)'
    BY <1>0, <2>0 DEF InQueue, InBatch, InSlot, Registered, Placement, AtMostOnePlace,
                      NoRepeats, NoSharing, TypeOK, PcbOK
  <2> HIDE DEF p
  <2>4. AtMostOnePlace'
    BY <2>0, <2>1, <2>2, <2>3 DEF Placement, AtMostOnePlace
  <2>5. NoneLost'
    BY <2>0, <2>1, <2>2, <2>3 DEF Placement, NoneLost, Enlisted
  <2>6. NewcomersApart'
    BY <1>0, <2>0, <2>1, <2>3 DEF Placement, NewcomersApart, Registered, TypeOK, CreatorsOK
  <2> QED
    BY <1>2, <2>4, <2>5, <2>6 DEF Placement
<1> QED
  BY <1>4, <1>5

-----------------------------------------------------------------------------
(* In every behaviour each process is in the one place its state says, the  *)
(* preemption slots are emptied in time, and newcomers are private to their *)
(* creator.                                                                 *)
THEOREM PlacementInvariant == Spec => []Placement
<1>1. TypeOK /\ Placement /\ UNCHANGED vars => Placement'
  <2> SUFFICES ASSUME TypeOK, Placement, UNCHANGED vars PROVE Placement'
    OBVIOUS
  <2> USE DEF vars, lists, cores, clock, creators, pcb
  <2>1. AtMostOnePlace' /\ NoneLost'
    BY PlacementFrame
  <2>2. SlotsCollected' /\ NewcomersApart'
    BY DEF Placement, SlotsCollected, NewcomersApart, Registered
  <2> QED
    BY <2>1, <2>2 DEF Placement
<1>2. TypeOK /\ Placement /\ [Next]_vars => Placement'
  BY <1>1, PlacementCLI, PlacementGenerate, PlacementWorkersDone, PlacementCheckQuantum,
     PlacementDispatch, PlacementCollect, PlacementRequeue, PlacementWake, PlacementEndTick,
     PlacementRunCycle
  DEF Next, SchedulerLoop
<1> QED
  BY PlacementInit, <1>2, TypeCorrect, PTL DEF Spec

(* No process is ever in two places at once.                                *)
THEOREM OnePlace == Spec => []AtMostOnePlace
<1>1. Placement => AtMostOnePlace
  BY DEF Placement
<1> QED
  BY <1>1, PlacementInvariant, PTL

(* No process is ever lost between the queue, the cores and the slots.      *)
THEOREM NoProcessLost == Spec => []NoneLost
<1>1. Placement => NoneLost
  BY DEF Placement
<1> QED
  BY <1>1, PlacementInvariant, PTL

-----------------------------------------------------------------------------
(***************************************************************************)
(* The life of a process and the order of service.                         *)
(*                                                                         *)
(* The scheduler implements Lifecycle: every step of Spec is a step in the *)
(* life of one process, or none.  The proof sorts the steps by what they   *)
(* do to the processes (Effect) and needs that a process which is to run   *)
(* has something left to execute (WorkInv).                                *)
(*                                                                         *)
(* The ready queue is fair: nobody is overtaken in it, first cores are     *)
(* given out in the order of registration, no core idles while somebody    *)
(* waits, and who wakes up goes last.                                      *)
(***************************************************************************)

(* A process has executed no more than its program, all of it when it is    *)
(* finished, none when nobody knows it, and not all while it can run.       *)
WorkOf(p) ==
  /\ index[p] <= Len(program[p])
  /\ ~Registered(p) => index[p] = 0
  /\ state[p] \in {"READY", "RUNNING"} /\ program[p] # <<>> => index[p] < Len(program[p])
  /\ state[p] = "FINISHED" => index[p] = Len(program[p])

WorkInv == \A p \in Procs : WorkOf(p)

(* What a step may do to the processes.                                     *)
NoEffect ==
  /\ UNCHANGED <<processes, state, index>>
  /\ program' \in [Procs -> Seq(Statement)]
  /\ \A p \in Procs : Registered(p) => program'[p] = program[p]

Enrol(p) ==
  /\ ~Registered(p) /\ Registered(p)'
  /\ \A q \in Procs : q # p => (Registered(q)' <=> Registered(q))
  /\ UNCHANGED <<state, index, program>>

Shift(p, from, to) ==
  /\ Registered(p) /\ state[p] = from
  /\ state' = [state EXCEPT ![p] = to]
  /\ UNCHANGED <<processes, program>>

Advance(p, to) ==
  /\ Shift(p, "RUNNING", to)
  /\ index[p] < Len(program[p]) /\ index' = [index EXCEPT ![p] = index[p] + 1]
  /\ to # "WAITING" => to = IF index[p] + 1 >= Len(program[p]) THEN "FINISHED" ELSE "RUNNING"

Stand(p, from, to) == Shift(p, from, to) /\ UNCHANGED index

Effect(p) ==
  \/ Enrol(p)
  \/ Stand(p, "READY", "RUNNING")
  \/ Stand(p, "RUNNING", "READY")
  \/ \E s \in States : Advance(p, s)
  \/ index[p] >= Len(program[p]) /\ Stand(p, "RUNNING", "FINISHED")
  \/ Stand(p, "WAITING", IF index[p] >= Len(program[p]) THEN "FINISHED" ELSE "READY")

-----------------------------------------------------------------------------
(* Each step has one effect at most, on one process.                        *)
LEMMA EffectOfCLI ==
  ASSUME TypeOK, Placement, CLI
  PROVE  NoEffect \/ \E p \in Procs : Effect(p)
<1>1. CASE Start \/ ResumeGenerating \/ StopGenerating
  BY <1>1 DEF Start, ResumeGenerating, StopGenerating, ident, lists, pcb, NoEffect, TypeOK, CreatorsOK
<1>2. CASE CreateNamedProcess
  <2>1. PICK p \in Fresh, prog \in Programs : Construct(p, prog)
    BY <1>2 DEF CreateNamedProcess
  <2>2. program' \in [Procs -> Seq(Statement)] /\ \A q \in Procs : q # p => program'[q] = program[q]
    BY <2>1, SchedulerAssumption DEF Construct, Fresh, TypeOK, CreatorsOK
  <2> QED
    BY <1>2, <2>1, <2>2 DEF CreateNamedProcess, lists, pcb, NoEffect, Fresh
<1>3. CASE AddProcess
  <2>1. named \in Procs /\ ~Registered(named)
    BY <1>3 DEF AddProcess, TypeOK, CreatorsOK, Placement, NewcomersApart
  <2>2. \A q \in Procs : Registered(q)' <=> Registered(q) \/ q = named
    BY <1>3, <2>1, RegisterPlacement DEF AddProcess, clock, cores, pcb
  <2> QED
    BY <1>3, <2>1, <2>2 DEF AddProcess, ident, pcb, Effect, Enrol
<1> QED
  BY <1>1, <1>2, <1>3 DEF CLI

LEMMA EffectOfGenerate ==
  ASSUME TypeOK, Placement, SkipGeneration \/ GenerateProcess \/ CommitGenerated
  PROVE  NoEffect \/ \E p \in Procs : Effect(p)
<1>1. CASE SkipGeneration
  BY <1>1 DEF SkipGeneration, ident, lists, pcb, NoEffect, TypeOK, CreatorsOK
<1>2. CASE GenerateProcess
  <2>1. PICK p \in Fresh, prog \in Programs : Construct(p, prog)
    BY <1>2 DEF GenerateProcess
  <2>2. program' \in [Procs -> Seq(Statement)] /\ \A q \in Procs : q # p => program'[q] = program[q]
    BY <2>1, SchedulerAssumption DEF Construct, Fresh, TypeOK, CreatorsOK
  <2> QED
    BY <1>2, <2>1, <2>2 DEF GenerateProcess, lists, pcb, NoEffect, Fresh
<1>3. CASE CommitGenerated
  <2>1. generated \in Procs /\ ~Registered(generated)
    BY <1>3, SchedulerAssumption DEF CommitGenerated, TypeOK, CreatorsOK, Placement, NewcomersApart
  <2>2. \A q \in Procs : Registered(q)' <=> Registered(q) \/ q = generated
    BY <1>3, <2>1, RegisterPlacement DEF CommitGenerated, cores, pcb
  <2> QED
    BY <1>3, <2>1, <2>2 DEF CommitGenerated, pcb, Effect, Enrol
<1> QED
  BY <1>1, <1>2, <1>3

(* Preemption sends a running process back, dispatch lets a ready one run,  *)
(* and a sleep ends in READY or FINISHED.                                   *)
LEMMA EffectOfTick ==
  ASSUME TypeOK, Placement,
         \/ WorkersDone \/ CheckQuantum \/ Dispatch \/ CollectPreempted
         \/ RequeuePreempted \/ UpdateSleeping \/ EndTick
  PROVE  NoEffect \/ \E p \in Procs : Effect(p)
<1>0. (UNCHANGED <<processes, state, index, program>>) => NoEffect
  BY DEF NoEffect, TypeOK, CreatorsOK
<1>1. CASE WorkersDone \/ CollectPreempted \/ RequeuePreempted \/ EndTick
  BY <1>0, <1>1 DEF WorkersDone, CollectPreempted, RequeuePreempted, EndTick, ident, lists, pcb
<1>2. CASE CheckQuantum
  <2>0. UNCHANGED <<processes, index, program>> /\ at \in Workers
    BY <1>2, NextWorkerStep DEF CheckQuantum, ident, lists
  <2>1. CASE UNCHANGED state
    BY <1>0, <2>0, <2>1
  <2>2. CASE ~UNCHANGED state
    <3>1. PICK p \in Procs : /\ p = current[at] /\ state[p] = "RUNNING"
                             /\ state' = [state EXCEPT ![p] = "READY"]
      BY <1>2, <2>0, <2>2 DEF CheckQuantum, TypeOK, CoresOK
    <3>2. Registered(p)
      BY <2>0, <3>1 DEF Placement, NoneLost, Enlisted
    <3> QED
      BY <2>0, <3>1, <3>2 DEF Effect, Stand, Shift
  <2> QED
    BY <2>1, <2>2
<1>3. CASE Dispatch
  <2>0. UNCHANGED <<processes, index, program>>
    BY <1>3 DEF Dispatch, ident
  <2>1. CASE UNCHANGED state
    BY <1>0, <2>0, <2>1
  <2>2. CASE ~UNCHANGED state
    <3>1. PICK p \in Procs : /\ queue # <<>> /\ p = Head(queue)
                             /\ state' = [state EXCEPT ![p] = "RUNNING"]
      BY <1>3, <2>2 DEF Dispatch, AssignProcess, TypeOK, ListsOK
    <3>2. InQueue(p)
      BY <3>1, HasTail DEF InQueue, Placement, AtMostOnePlace, TypeOK, ListsOK
    <3>3. Registered(p) /\ state[p] = "READY"
      BY <3>2 DEF Placement, AtMostOnePlace, NoneLost, Enlisted
    <3> QED
      BY <2>0, <3>1, <3>3 DEF Effect, Stand, Shift
  <2> QED
    BY <2>1, <2>2
<1>4. CASE UpdateSleeping
  <2> DEFINE p == processes[at + 1]
  <2>0. UNCHANGED <<processes, index, program>> /\ p \in Procs /\ Registered(p)
    BY <1>4 DEF UpdateSleeping, ident, TypeOK, ListsOK, ClockOK, Registered, Has
  <2>1. CASE UNCHANGED state
    BY <1>0, <2>0, <2>1
  <2>2. CASE ~UNCHANGED state
    <3>1. state[p] = "WAITING" /\
          state' = [state EXCEPT ![p] = IF index[p] >= Len(program[p]) THEN "FINISHED" ELSE "READY"]
      BY <1>4, <2>2 DEF UpdateSleeping
    <3> QED
      BY <2>0, <3>1 DEF Effect, Stand, Shift
  <2> QED
    BY <2>1, <2>2
<1> QED
  BY <1>1, <1>2, <1>3, <1>4

(* A cycle of a core executes one instruction of the process it holds.      *)
LEMMA EffectOfCycle ==
  ASSUME TypeOK, Placement, NEW w \in Workers, RunCycle(w)
  PROVE  NoEffect \/ \E p \in Procs : Effect(p)
<1> DEFINE p == current[w]
<1>0. UNCHANGED <<processes, program>>
  BY DEF RunCycle, ident, lists
<1>1. CASE UNCHANGED <<state, index>>
  BY <1>0, <1>1 DEF NoEffect, TypeOK, CreatorsOK
<1>2. CASE ~UNCHANGED <<state, index>>
  <2>1. p # None /\ TickExecution(w, p)
    BY <1>2 DEF RunCycle, Cycle
  <2>2. p \in Procs /\ state[p] = "RUNNING" /\ Registered(p)
    BY <2>1 DEF TypeOK, CoresOK, Placement, NoneLost, OnCore, Holds, Enlisted
  <2>3. ExecuteInstructions(p)
    BY <1>2, <2>1 DEF TickExecution
  <2>4. index[p] \in Nat /\ Len(program[p]) \in Nat
    BY <2>2 DEF TypeOK, PcbOK, CreatorsOK
  <2> HIDE DEF p
  <2>5. CASE index[p] >= Len(program[p])
    <3>1. Stand(p, "RUNNING", "FINISHED")
      BY <1>0, <2>2, <2>3, <2>5 DEF ExecuteInstructions, Stand, Shift
    <3> QED
      BY <2>2, <2>5, <3>1 DEF Effect
  <2>6. CASE ~(index[p] >= Len(program[p]))
    <3>1. index' = [index EXCEPT ![p] = index[p] + 1]
      BY <2>3, <2>6 DEF ExecuteInstructions
    <3>2. PICK s \in States : state' = [state EXCEPT ![p] = s] /\
            (s # "WAITING" => s = IF index[p] + 1 >= Len(program[p]) THEN "FINISHED" ELSE "RUNNING")
      BY <2>3, <2>6 DEF ExecuteInstructions, IsLast, States
    <3>3. Advance(p, s)
      BY <1>0, <2>2, <2>4, <2>6, <3>1, <3>2 DEF Advance, Shift
    <3> QED
      BY <2>2, <3>3 DEF Effect
  <2> QED
    BY <2>5, <2>6
<1> QED
  BY <1>1, <1>2

LEMMA EffectOfStep ==
  ASSUME TypeOK, Placement, [Next]_vars
  PROVE  NoEffect \/ \E p \in Procs : Effect(p)
<1>1. CASE Next
  BY <1>1, EffectOfCLI, EffectOfGenerate, EffectOfTick, EffectOfCycle DEF Next, SchedulerLoop
<1>2. CASE UNCHANGED vars
  BY <1>2 DEF vars, ident, lists, pcb, NoEffect, TypeOK, CreatorsOK
<1> QED
  BY <1>1, <1>2

-----------------------------------------------------------------------------
LEMMA WorkInit == Init => WorkInv
<1> SUFFICES ASSUME Init, NEW p \in Procs PROVE WorkOf(p)
  BY DEF WorkInv
<1>1. index[p] = 0 /\ program[p] = <<>> /\ state[p] = "READY"
  BY DEF Init
<1>2. Len(<<>>) = 0
  OBVIOUS
<1> QED
  BY <1>1, <1>2 DEF WorkOf

LEMMA WorkStep ==
  ASSUME TypeOK, Placement, WorkInv, [Next]_vars
  PROVE  WorkInv'
<1> SUFFICES ASSUME NEW q \in Procs PROVE WorkOf(q)'
  BY DEF WorkInv, WorkOf
<1>1. /\ index[q] \in Nat /\ state[q] \in States /\ program[q] \in Seq(Statement)
      /\ index \in [Procs -> Nat] /\ state \in [Procs -> States]
  BY DEF TypeOK, PcbOK, CreatorsOK
<1>2. CASE NoEffect
  <2>1. CASE Registered(q)
    BY <1>2, <2>1 DEF NoEffect, WorkInv, WorkOf, Registered
  <2>2. CASE ~Registered(q)
    <3>1. index'[q] = 0 /\ state'[q] = "READY" /\ program'[q] \in Seq(Statement)
      BY <1>2, <2>2 DEF NoEffect, WorkInv, WorkOf, Placement, NewcomersApart
    <3>2. Len(program'[q]) >= 0 /\ (program'[q] # <<>> => Len(program'[q]) > 0)
      BY <3>1
    <3> QED
      BY <3>1, <3>2 DEF WorkOf
  <2> QED
    BY <2>1, <2>2
<1>3. ASSUME NEW p \in Procs, Effect(p) PROVE WorkOf(q)'
  <2>1. CASE Enrol(p)
    BY <2>1 DEF Enrol, WorkInv, WorkOf
  <2>2. CASE q # p /\ ~Enrol(p)
    BY <1>1, <1>3, <2>2 DEF Effect, Advance, Stand, Shift, Registered, WorkInv, WorkOf
  <2>3. CASE q = p /\ ~Enrol(p)
    <3>1. Registered(q)' /\ program' = program
      BY <1>3, <2>3 DEF Effect, Advance, Stand, Shift, Registered
    <3>2. CASE \E s \in States : Advance(p, s)
      BY <1>1, <2>3, <3>1, <3>2 DEF Advance, Shift, WorkInv, WorkOf
    <3>3. CASE Stand(p, "READY", "RUNNING") \/ Stand(p, "RUNNING", "READY")
      BY <1>1, <2>3, <3>1, <3>3 DEF Stand, Shift, WorkInv, WorkOf
    <3>4. CASE index[p] >= Len(program[p]) /\ Stand(p, "RUNNING", "FINISHED")
      BY <1>1, <2>3, <3>1, <3>4 DEF Stand, Shift, WorkInv, WorkOf
    <3>5. CASE Stand(p, "WAITING", IF index[p] >= Len(program[p]) THEN "FINISHED" ELSE "READY")
      BY <1>1, <2>3, <3>1, <3>5 DEF Stand, Shift, WorkInv, WorkOf
    <3> QED
      BY <1>3, <2>3, <3>2, <3>3, <3>4, <3>5 DEF Effect
  <2> QED
    BY <2>1, <2>2, <2>3
<1>4. NoEffect \/ \E p \in Procs : Effect(p)
  BY EffectOfStep
<1> QED
  BY <1>2, <1>3, <1>4

THEOREM WorkInvariant == Spec => []WorkInv
<1>1. TypeOK /\ Placement /\ WorkInv /\ [Next]_vars => WorkInv'
  BY WorkStep
<1> QED
  BY WorkInit, <1>1, TypeCorrect, PlacementInvariant, PTL DEF Spec

(* No core time goes to a process with nothing left to execute, and none is *)
(* finished before its last instruction.                                    *)
THEOREM NoIdleDispatch == Spec => []EnlistedHasWork
<1>1. Placement /\ WorkInv => EnlistedHasWork
  BY DEF Placement, NoneLost, WorkInv, WorkOf, EnlistedHasWork
<1> QED
  BY <1>1, WorkInvariant, PlacementInvariant, PTL

-----------------------------------------------------------------------------
(* The refinement.                                                          *)
LEMMA LifeInit == Init => Life!Init
<1> SUFFICES ASSUME Init PROVE Status = [p \in Procs |-> "NEW"] /\ Todo = [p \in Procs |-> 0]
  BY DEF Life!Init
<1>1. \A p \in Procs : ~Registered(p)
  BY HasEmpty DEF Init, Registered
<1> QED
  BY <1>1 DEF Status, Todo

(* Nobody's life changes when nothing happens to a registered process.      *)
LEMMA LifeStutters ==
  ASSUME NoEffect
  PROVE  UNCHANGED <<Status, Todo>>
<1>1. \A p \in Procs : /\ Registered(p)' <=> Registered(p)
                       /\ Registered(p) => program'[p] = program[p]
  BY DEF NoEffect, Registered
<1> QED
  BY <1>1 DEF NoEffect, Status, Todo

LEMMA LifeAdmits ==
  ASSUME TypeOK, Placement, WorkInv, NEW p \in Procs, Enrol(p)
  PROVE  Life!Admit(p)
<1>1. /\ index[p] \in Nat /\ Len(program[p]) \in Nat /\ index[p] <= Len(program[p])
      /\ state[p] = "READY"
  BY DEF TypeOK, PcbOK, CreatorsOK, WorkInv, WorkOf, Placement, NewcomersApart, Enrol
<1>2. Status[p] = "NEW" /\ Status' = [Status EXCEPT ![p] = "READY"]
  BY <1>1 DEF Enrol, Status
<1>3. Todo'[p] \in Nat
  BY <1>1 DEF Enrol, Todo
<1>4. Todo' = [Todo EXCEPT ![p] = Todo'[p]]
  BY DEF Enrol, Todo
<1> QED
  BY <1>2, <1>3, <1>4 DEF Life!Admit, Life!Move

(* A step that moves a registered process from one state to another.        *)
LEMMA LifeMoves ==
  ASSUME TypeOK, NEW p \in Procs, NEW from \in States, NEW to \in States, Shift(p, from, to)
  PROVE  /\ Life!Move(p, from, to)
         /\ Todo[p] = Len(program[p]) - index[p]
         /\ UNCHANGED index => UNCHANGED Todo
<1>1. \A q \in Procs : /\ Registered(q)' <=> Registered(q)
                       /\ state'[q] = IF q = p THEN to ELSE state[q]
  BY DEF Shift, Registered, TypeOK, PcbOK
<1>2. Status[p] = from /\ Status' = [Status EXCEPT ![p] = to]
  BY <1>1 DEF Shift, Status
<1>3. UNCHANGED index => UNCHANGED Todo
  BY <1>1 DEF Shift, Todo
<1>4. Todo[p] = Len(program[p]) - index[p]
  BY DEF Shift, Todo
<1> QED
  BY <1>2, <1>3, <1>4 DEF Life!Move

LEMMA LifeExecutes ==
  ASSUME TypeOK, NEW p \in Procs, NEW s \in States, Advance(p, s)
  PROVE  Life!Execute(p)
<1>1. /\ index \in [Procs -> Nat] /\ index[p] \in Nat /\ Len(program[p]) \in Nat
      /\ index[p] < Len(program[p]) /\ index' = [index EXCEPT ![p] = index[p] + 1]
      /\ Registered(p) /\ UNCHANGED <<processes, program>>
  BY DEF TypeOK, PcbOK, CreatorsOK, Advance, Shift
<1>2. Life!Move(p, "RUNNING", s) /\ Todo[p] = Len(program[p]) - index[p]
  BY LifeMoves DEF Advance, States
<1>3. \A q \in Procs : Todo'[q] = IF q = p THEN Todo[p] - 1 ELSE Todo[q]
  BY <1>1, <1>2 DEF Todo, Registered
<1>4. Todo' = [Todo EXCEPT ![p] = Todo[p] - 1]
  BY <1>3 DEF Todo
<1>5. Todo[p] > 0 /\ (index[p] + 1 >= Len(program[p]) <=> Todo[p] = 1)
  BY <1>1, <1>2
<1>6. s # "WAITING" => s = IF Todo[p] = 1 THEN "FINISHED" ELSE "RUNNING"
  BY <1>5 DEF Advance
<1> QED
  BY <1>2, <1>4, <1>5, <1>6 DEF Life!Execute

LEMMA LifeStep ==
  ASSUME TypeOK, Placement, WorkInv, [Next]_vars
  PROVE  [Life!Next]_(Life!vars)
<1>1. CASE NoEffect
  BY <1>1, LifeStutters DEF Life!vars
<1>2. ASSUME NEW p \in Procs, Effect(p) PROVE Life!Step(p)
  <2> USE DEF States
  <2>0. /\ index[p] \in Nat /\ Len(program[p]) \in Nat /\ index[p] <= Len(program[p])
    BY DEF TypeOK, PcbOK, CreatorsOK, WorkInv, WorkOf
  <2>1. CASE Enrol(p)
    BY <2>1, LifeAdmits DEF Life!Step
  <2>2. CASE Stand(p, "READY", "RUNNING")
    BY <2>2, LifeMoves DEF Stand, Life!Step, Life!Dispatch
  <2>3. CASE Stand(p, "RUNNING", "READY")
    BY <2>3, LifeMoves DEF Stand, Life!Step, Life!Preempt
  <2>4. CASE \E s \in States : Advance(p, s)
    BY <2>4, LifeExecutes DEF Life!Step
  <2>5. CASE index[p] >= Len(program[p]) /\ Stand(p, "RUNNING", "FINISHED")
    <3>1. Life!Move(p, "RUNNING", "FINISHED") /\ Todo[p] = 0 /\ UNCHANGED Todo
      BY <2>0, <2>5, LifeMoves DEF Stand
    <3> QED
      BY <3>1 DEF Life!Step, Life!FinishAtOnce
  <2>6. CASE Stand(p, "WAITING", IF index[p] >= Len(program[p]) THEN "FINISHED" ELSE "READY")
    <3> DEFINE s == IF index[p] >= Len(program[p]) THEN "FINISHED" ELSE "READY"
    <3>1. Life!Move(p, "WAITING", s) /\ Todo[p] = Len(program[p]) - index[p] /\ UNCHANGED Todo
      BY <2>6, LifeMoves DEF Stand
    <3>2. index[p] >= Len(program[p]) <=> Todo[p] = 0
      BY <2>0, <3>1
    <3> QED
      BY <3>1, <3>2 DEF Life!Step, Life!Wake
  <2> QED
    BY <1>2, <2>1, <2>2, <2>3, <2>4, <2>5, <2>6 DEF Effect
<1>3. NoEffect \/ \E p \in Procs : Effect(p)
  BY EffectOfStep
<1> QED
  BY <1>1, <1>2, <1>3 DEF Life!Next

(* Whatever the threads do, each process lives the life of Lifecycle: it    *)
(* executes its program once, in order and to the end.                      *)
THEOREM ImplementsLifecycle == Spec => RefinesLifecycle
<1>1. TypeOK /\ Placement /\ WorkInv /\ [Next]_vars => [Life!Next]_(Life!vars)
  BY LifeStep
<1> QED
  BY LifeInit, <1>1, TypeCorrect, PlacementInvariant, WorkInvariant, PTL
  DEF Spec, RefinesLifecycle, Life!Spec

-----------------------------------------------------------------------------
(* Sleeping.                                                                *)

(* The processes that the wake-up loop has visited owe at least a tick when *)
(* they still sleep, all of them once it is through, and nobody sleeps      *)
(* before the first tick.                                                   *)
SleepInv ==
  /\ NobodyOversleeps
  /\ phase = "wake" =>
       \A i \in 1 .. at : state[processes[i]] = "WAITING" => sleepLeft[processes[i]] > 0
  /\ phase = "off" => \A p \in Procs : state[p] # "WAITING"

LEMMA SleepInit == Init => SleepInv
  BY DEF Init, SleepInv, NobodyOversleeps

(* One iteration of the wake-up loop.                                       *)
LEMMA SleepWake ==
  ASSUME TypeOK, SleepInv, UpdateSleeping
  PROVE  SleepInv'
<1> DEFINE p == processes[at + 1]
<1>0. /\ phase = "wake" /\ phase' = "wake" /\ at' = at + 1 /\ processes' = processes
      /\ at \in Nat /\ p \in Procs /\ \A i \in 1 .. at : processes[i] \in Procs
  BY DEF UpdateSleeping, TypeOK, ListsOK, ClockOK
<1>1. state'[p] = "WAITING" => sleepLeft'[p] > 0
  <2>1. CASE state[p] = "WAITING" /\ ~SleepExpires(p)
    BY <1>0, <2>1 DEF UpdateSleeping, SleepExpires, TypeOK, PcbOK
  <2>2. CASE state[p] = "WAITING" /\ SleepExpires(p)
    <3>1. state'[p] # "WAITING"
      BY <1>0, <2>2 DEF UpdateSleeping, TypeOK, PcbOK
    <3> QED
      BY <3>1
  <2>3. CASE state[p] # "WAITING"
    BY <1>0, <2>3 DEF UpdateSleeping
  <2> QED
    BY <2>1, <2>2, <2>3
<1>2. \A q \in Procs : q # p => state'[q] = state[q] /\ sleepLeft'[q] = sleepLeft[q]
  BY <1>0 DEF UpdateSleeping, TypeOK, PcbOK
<1>3. ASSUME NEW i \in 1 .. at + 1
      PROVE  state'[processes[i]] = "WAITING" => sleepLeft'[processes[i]] > 0
  <2>1. CASE processes[i] = p
    BY <1>1, <2>1
  <2>2. CASE processes[i] # p
    BY <1>0, <1>2, <2>2 DEF SleepInv
  <2> QED
    BY <2>1, <2>2
<1> QED
  BY <1>0, <1>3 DEF SleepInv, NobodyOversleeps

(* The loop has visited every registered process when the tick ends.        *)
LEMMA SleepEndTick ==
  ASSUME TypeOK, Placement, SleepInv, EndTick
  PROVE  SleepInv'
<1>1. phase' = "generate" /\ UNCHANGED <<state, sleepLeft>>
  BY DEF EndTick, pcb
<1>2. ASSUME NEW p \in Procs, state[p] = "WAITING" PROVE sleepLeft[p] > 0
  <2>1. PICK i \in 1 .. Len(processes) : processes[i] = p
    BY <1>2 DEF Placement, NewcomersApart, Registered, Has
  <2> QED
    BY <1>2, <2>1 DEF EndTick, SleepInv
<1> QED
  BY <1>1, <1>2 DEF SleepInv, NobodyOversleeps

LEMMA SleepStep ==
  ASSUME TypeOK, Placement, SleepInv, [Next]_vars
  PROVE  SleepInv'
<1> USE DEF SleepInv, NobodyOversleeps
<1>1. CASE CLI
  <2>1. CASE Start
    BY <2>1 DEF Start, pcb
  <2>2. CASE ResumeGenerating \/ StopGenerating \/ CreateNamedProcess
    BY <2>2 DEF ResumeGenerating, StopGenerating, CreateNamedProcess, clock, lists, pcb
  <2>3. CASE AddProcess
    BY <2>3 DEF AddProcess, SchedulerMutexFree, clock, pcb, TypeOK, ClockOK
  <2> QED
    BY <1>1, <2>1, <2>2, <2>3 DEF CLI
<1>2. CASE SkipGeneration \/ GenerateProcess \/ CommitGenerated
  BY <1>2 DEF SkipGeneration, GenerateProcess, CommitGenerated, TriggerWorkers, pcb
<1>3. CASE WorkersDone \/ CheckQuantum \/ Dispatch \/ CollectPreempted
  BY <1>3 DEF WorkersDone, ServePhase, CheckQuantum, Dispatch, CollectPreempted, NextWorker
<1>4. CASE RequeuePreempted
  BY <1>4 DEF RequeuePreempted, TypeOK, ClockOK
<1>5. CASE \E w \in Workers : RunCycle(w)
  BY <1>5 DEF RunCycle
<1>6. CASE UNCHANGED vars
  BY <1>6 DEF vars, lists, clock, pcb
<1> QED
  BY <1>1, <1>2, <1>3, <1>4, <1>5, <1>6, SleepWake, SleepEndTick DEF Next, SchedulerLoop

(* When a tick ends everybody who still sleeps owes another tick.           *)
THEOREM NoOversleeping == Spec => []NobodyOversleeps
<1>1. TypeOK /\ Placement /\ SleepInv /\ [Next]_vars => SleepInv'
  BY SleepStep
<1>2. SleepInv => NobodyOversleeps
  BY DEF SleepInv
<1> QED
  BY SleepInit, <1>1, <1>2, TypeCorrect, PlacementInvariant, PTL DEF Spec

-----------------------------------------------------------------------------
(* The order of service.                                                    *)

(* What a step does to the ready queue: nothing, or add one process, or the *)
(* batch, at the end, or take the front.                                    *)
Pushed(p) == ~InQueue(p) /\ queue' = Append(queue, p)
Popped == Dispatch /\ queue # <<>> /\ queue' = Tail(queue)
Spliced == queue' = queue \o batch

(* Every step changes the queue in one of these ways.                       *)
LEMMA QueueStep ==
  ASSUME TypeOK, Placement, [Next]_vars
  PROVE  UNCHANGED queue \/ Popped \/ Spliced \/ \E p \in Procs : Pushed(p)
<1>1. CASE AddProcess
  <2>1. named \in Procs /\ ~InQueue(named)
    BY <1>1 DEF AddProcess, TypeOK, CreatorsOK, Placement, NewcomersApart, NoneLost, Enlisted
  <2> QED
    BY <1>1, <2>1 DEF AddProcess, Register, Pushed
<1>2. CASE CommitGenerated
  <2>1. generated \in Procs /\ ~InQueue(generated)
    BY <1>2, SchedulerAssumption DEF CommitGenerated, TypeOK, CreatorsOK, Placement,
       NewcomersApart, NoneLost, Enlisted
  <2> QED
    BY <1>2, <2>1 DEF CommitGenerated, Register, Pushed
<1>3. CASE Dispatch
  BY <1>3 DEF Dispatch, Popped
<1>4. CASE RequeuePreempted
  BY <1>4 DEF RequeuePreempted, BatchBehind, Spliced
<1>5. CASE UpdateSleeping
  <2> DEFINE p == processes[at + 1]
  <2>1. p \in Procs
    BY <1>5 DEF UpdateSleeping, TypeOK, ListsOK, ClockOK
  <2>2. UNCHANGED queue \/ (state[p] = "WAITING" /\ queue' = Append(queue, p))
    BY <1>5 DEF UpdateSleeping, WokenBehind
  <2>3. state[p] = "WAITING" => ~InQueue(p)
    BY <2>1 DEF Placement, NoneLost, Enlisted
  <2> QED
    BY <2>1, <2>2, <2>3 DEF Pushed
<1>6. CASE Start \/ ResumeGenerating \/ StopGenerating \/ CreateNamedProcess
           \/ SkipGeneration \/ GenerateProcess \/ WorkersDone \/ CheckQuantum
           \/ CollectPreempted \/ EndTick \/ (\E w \in Workers : RunCycle(w)) \/ UNCHANGED vars
  BY <1>6 DEF Start, ResumeGenerating, StopGenerating, CreateNamedProcess, SkipGeneration,
     GenerateProcess, WorkersDone, CheckQuantum, CollectPreempted, EndTick, RunCycle, vars, lists
<1> QED
  BY <1>1, <1>2, <1>3, <1>4, <1>5, <1>6 DEF Next, CLI, SchedulerLoop

-----------------------------------------------------------------------------
(* Nobody is overtaken.                                                     *)

Before(s, q, p) == \E i, j \in 1 .. Len(s) : i < j /\ s[i] = q /\ s[j] = p

(* Pairs that stay in a queue keep their order, and those behind stay.      *)
KeepsOrder(s, t) ==
  \A p \in Procs : Has(s, p) /\ Has(t, p) =>
    \A q \in Procs : /\ Before(t, q, p) => Before(s, q, p)
                     /\ Before(s, p, q) => Before(t, p, q)

(* Taking the front leaves the others as they stand.                        *)
LEMMA TailKeepsOrder ==
  ASSUME NEW s \in Seq(Procs), s # <<>>, NoRepeats(s)
  PROVE  KeepsOrder(s, Tail(s))
<1> DEFINE t == Tail(s)
<1>1. /\ Len(t) = Len(s) - 1 /\ Len(s) \in Nat /\ Len(s) > 0 /\ Head(s) = s[1]
      /\ \A i \in 1 .. Len(s) - 1 : t[i] = s[i + 1]
  OBVIOUS
<1>2. \A p \in Procs : Has(t, p) => p # s[1]
  BY <1>1, HasTail
<1> HIDE DEF t
<1> SUFFICES ASSUME NEW p \in Procs, NEW q \in Procs, Has(t, p)
             PROVE  /\ Before(t, q, p) => Before(s, q, p)
                    /\ Before(s, p, q) => Before(t, p, q)
  BY DEF KeepsOrder, t
<1>3. ASSUME NEW i \in 1 .. Len(t), NEW j \in 1 .. Len(t), i < j, t[i] = q, t[j] = p
      PROVE  Before(s, q, p)
  <2>1. i + 1 \in 1 .. Len(s) /\ j + 1 \in 1 .. Len(s) /\ i + 1 < j + 1 /\ s[i + 1] = q /\ s[j + 1] = p
    BY <1>1, <1>3
  <2> QED
    BY <2>1 DEF Before
<1>4. ASSUME NEW i \in 1 .. Len(s), NEW j \in 1 .. Len(s), i < j, s[i] = p, s[j] = q
      PROVE  Before(t, p, q)
  <2>1. i # 1
    BY <1>2, <1>4
  <2>2. i - 1 \in 1 .. Len(t) /\ j - 1 \in 1 .. Len(t) /\ i - 1 < j - 1 /\ t[i - 1] = p /\ t[j - 1] = q
    BY <1>1, <1>4, <2>1
  <2> QED
    BY <2>2 DEF Before
<1> QED
  BY <1>3, <1>4 DEF Before

(* A queue that only grows at its end, by processes that were not in it.    *)
LEMMA GrowthKeepsOrder ==
  ASSUME NEW s \in Seq(Procs), NEW t \in Seq(Procs), Len(s) <= Len(t),
         \A i \in 1 .. Len(s) : t[i] = s[i],
         \A i \in 1 .. Len(t) : i > Len(s) => ~Has(s, t[i])
  PROVE  KeepsOrder(s, t)
<1>0. Len(s) \in Nat /\ Len(t) \in Nat
  OBVIOUS
<1> SUFFICES ASSUME NEW p \in Procs, NEW q \in Procs, Has(s, p)
             PROVE  /\ Before(t, q, p) => Before(s, q, p)
                    /\ Before(s, p, q) => Before(t, p, q)
  BY DEF KeepsOrder
<1>1. ASSUME NEW i \in 1 .. Len(t), NEW j \in 1 .. Len(t), i < j, t[i] = q, t[j] = p
      PROVE  Before(s, q, p)
  <2>1. j <= Len(s)
    BY <1>0, <1>1
  <2>2. i \in 1 .. Len(s) /\ j \in 1 .. Len(s) /\ s[i] = q /\ s[j] = p
    BY <1>0, <1>1, <2>1
  <2> QED
    BY <1>1, <2>2 DEF Before
<1>2. ASSUME NEW i \in 1 .. Len(s), NEW j \in 1 .. Len(s), i < j, s[i] = p, s[j] = q
      PROVE  Before(t, p, q)
  <2>1. i \in 1 .. Len(t) /\ j \in 1 .. Len(t) /\ t[i] = p /\ t[j] = q
    BY <1>0, <1>2
  <2> QED
    BY <1>2, <2>1 DEF Before
<1> QED
  BY <1>1, <1>2 DEF Before

(* So the queue keeps its order in every step.                              *)
LEMMA QueueKeepsOrder ==
  ASSUME TypeOK, Placement, [Next]_vars
  PROVE  KeepsOrder(queue, queue')
<1> USE DEF TypeOK, ListsOK
<1>1. CASE UNCHANGED queue
  BY <1>1 DEF KeepsOrder
<1>2. CASE Popped
  BY <1>2, TailKeepsOrder DEF Popped, Placement, AtMostOnePlace
<1>3. ASSUME NEW p \in Procs, Pushed(p) PROVE KeepsOrder(queue, queue')
  <2>1. /\ queue' \in Seq(Procs) /\ Len(queue') = Len(queue) + 1 /\ queue'[Len(queue) + 1] = p
        /\ \A i \in 1 .. Len(queue) : queue'[i] = queue[i]
    BY <1>3 DEF Pushed
  <2>2. \A i \in 1 .. Len(queue') : i > Len(queue) => ~Has(queue, queue'[i])
    BY <1>3, <2>1 DEF Pushed, InQueue
  <2> QED
    BY <2>1, <2>2, GrowthKeepsOrder
<1>4. CASE Spliced
  <2>1. /\ queue' \in Seq(Procs) /\ Len(queue') = Len(queue) + Len(batch)
        /\ \A i \in 1 .. Len(queue) : queue'[i] = queue[i]
        /\ \A i \in Len(queue) + 1 .. Len(queue) + Len(batch) : queue'[i] = batch[i - Len(queue)]
    BY <1>4 DEF Spliced
  <2>2. \A i \in 1 .. Len(batch) : batch[i] \in Procs /\ ~Has(queue, batch[i])
    BY DEF Placement, AtMostOnePlace, InQueue, InBatch, Has
  <2>3. \A i \in 1 .. Len(queue') : i > Len(queue) => ~Has(queue, queue'[i])
    <3> SUFFICES ASSUME NEW i \in 1 .. Len(queue'), i > Len(queue) PROVE ~Has(queue, queue'[i])
      OBVIOUS
    <3>1. i - Len(queue) \in 1 .. Len(batch) /\ queue'[i] = batch[i - Len(queue)]
      BY <2>1
    <3> QED
      BY <2>2, <3>1
  <2>4. Len(queue) <= Len(queue')
    BY <2>1
  <2> QED
    BY <2>1, <2>3, <2>4, GrowthKeepsOrder
<1> QED
  BY <1>1, <1>2, <1>3, <1>4, QueueStep

(* While a process stays queued nobody gets ahead of it, and nobody behind  *)
(* it leaves first.                                                         *)
THEOREM NobodyOvertakes == Spec => NoOvertaking
<1>1. ASSUME TypeOK, Placement, [Next]_vars
      PROVE  \A p \in Procs : InQueue(p) /\ InQueue(p)' =>
               Ahead(p)' \subseteq Ahead(p) /\ Behind(p) \subseteq Behind(p)'
  <2>1. KeepsOrder(queue, queue')
    BY <1>1, QueueKeepsOrder
  <2>2. \A p, q \in Procs : /\ q \in Ahead(p) <=> Before(queue, q, p)
                            /\ q \in Behind(p) <=> Before(queue, p, q)
                            /\ q \in Ahead(p)' <=> Before(queue', q, p)
                            /\ q \in Behind(p)' <=> Before(queue', p, q)
    BY DEF Ahead, Behind, Before
  <2>3. \A p \in Procs : Ahead(p)' \subseteq Procs /\ Behind(p) \subseteq Procs
    BY DEF Ahead, Behind
  <2> QED
    BY <2>1, <2>2, <2>3 DEF KeepsOrder, InQueue
<1>2. TypeOK /\ Placement /\ [Next]_vars =>
        [\A p \in Procs : InQueue(p) /\ InQueue(p)' =>
           Ahead(p)' \subseteq Ahead(p) /\ Behind(p) \subseteq Behind(p)']_vars
  BY <1>1
<1> QED
  BY <1>2, TypeCorrect, PlacementInvariant, PTL DEF Spec, NoOvertaking

-----------------------------------------------------------------------------
(* First come, first served.                                                *)

Undispatched(p) == Registered(p) /\ coreNum[p] = -1

(* Who has not had a core yet is in the queue, those are queued in the      *)
(* order in which they were registered, and they are the last registered.   *)
OrderInv ==
  /\ NoRepeats(processes)
  /\ \A p \in Procs : ~Registered(p) => coreNum[p] = -1
  /\ \A p \in Procs : Undispatched(p) => InQueue(p)
  /\ \A p, q \in Procs : Undispatched(p) /\ Undispatched(q) /\ Before(processes, p, q)
                          => Before(queue, p, q)
  /\ FirstDispatchInOrder

(* Nobody is registered at first.                                           *)
LEMMA OrderInit == Init => OrderInv
<1> SUFFICES ASSUME Init PROVE OrderInv
  OBVIOUS
<1>1. Len(processes) = 0 /\ \A p \in Procs : coreNum[p] = -1
  BY DEF Init
<1> QED
  BY <1>1 DEF OrderInv, NoRepeats, Undispatched, Registered, Has, FirstDispatchInOrder

(* Steps that register nobody and dispatch nobody.                          *)
LEMMA OrderFrame ==
  ASSUME TypeOK, Placement, OrderInv, [Next]_vars, UNCHANGED <<processes, coreNum>>,
         \A p \in Procs : Undispatched(p) => InQueue(p)'
  PROVE  OrderInv'
<1>1. \A p \in Procs : /\ Registered(p)' <=> Registered(p)
                       /\ Undispatched(p)' <=> Undispatched(p)
  BY DEF Registered, Undispatched
<1>2. KeepsOrder(queue, queue')
  BY QueueKeepsOrder
<1>3. ASSUME NEW p \in Procs, NEW q \in Procs, Undispatched(p), Undispatched(q), Before(processes, p, q)
      PROVE  Before(queue', p, q)
  <2>1. Has(queue, p) /\ Has(queue', p) /\ Before(queue, p, q)
    BY <1>3 DEF OrderInv, InQueue
  <2> QED
    BY <1>2, <2>1 DEF KeepsOrder
<1> QED
  BY <1>1, <1>3 DEF OrderInv, NoRepeats, Before, FirstDispatchInOrder

(* A position of a longer sequence that is not the last.                    *)
LEMMA NotTheLast ==
  ASSUME NEW n \in Nat, NEW i \in 1 .. n + 1, i # n + 1
  PROVE  i \in 1 .. n
  OBVIOUS

(* A newcomer is the last of the registered and the last in the queue.      *)
LEMMA OrderRegister ==
  ASSUME TypeOK, Placement, OrderInv, NEW x \in Procs, ~Registered(x), Register(x), UNCHANGED coreNum
  PROVE  OrderInv'
<1> USE DEF TypeOK, ListsOK
<1>1. /\ Len(processes') = Len(processes) + 1 /\ processes'[Len(processes) + 1] = x
      /\ \A i \in 1 .. Len(processes) : processes'[i] = processes[i]
      /\ Len(queue') = Len(queue) + 1 /\ queue'[Len(queue) + 1] = x
      /\ \A i \in 1 .. Len(queue) : queue'[i] = queue[i]
      /\ Len(processes) \in Nat /\ Len(queue) \in Nat
  BY DEF Register
<1>2. NoRepeats(processes') /\ \A p \in Procs : Registered(p)' <=> Registered(p) \/ p = x
  BY HasAppend DEF Register, Registered, OrderInv
<1>3. \A p \in Procs : InQueue(p)' <=> InQueue(p) \/ p = x
  BY HasAppend DEF Register, InQueue
<1>4. ASSUME NEW p \in Procs, NEW q \in Procs,
             Undispatched(p)', Undispatched(q)', Before(processes', p, q)
      PROVE  Before(queue', p, q)
  <2>1. PICK i \in 1 .. Len(processes'), j \in 1 .. Len(processes') :
          i < j /\ processes'[i] = p /\ processes'[j] = q
    BY <1>4 DEF Before
  <2>2. i \in 1 .. Len(processes) /\ processes[i] = p
    BY <1>1, <2>1
  <2>3. Undispatched(p) /\ InQueue(p)
    BY <1>4, <2>2 DEF Undispatched, Registered, Has, OrderInv
  <2>4. CASE q = x
    <3>1. PICK k \in 1 .. Len(queue) : queue[k] = p
      BY <2>3 DEF InQueue, Has
    <3>2. k \in 1 .. Len(queue') /\ Len(queue) + 1 \in 1 .. Len(queue') /\ k < Len(queue) + 1
          /\ queue'[k] = p /\ queue'[Len(queue) + 1] = q
      BY <1>1, <2>4, <3>1
    <3> QED
      BY <3>2 DEF Before
  <2>5. CASE q # x
    <3>0. j \in 1 .. Len(processes) + 1 /\ j # Len(processes) + 1
      BY <1>1, <2>1, <2>5
    <3>1. j \in 1 .. Len(processes) /\ processes[j] = q
      BY <1>1, <2>1, <3>0, NotTheLast
    <3>2. Undispatched(q) /\ Before(processes, p, q)
      BY <1>4, <2>1, <2>2, <3>1 DEF Undispatched, Registered, Has, Before
    <3>3. PICK k \in 1 .. Len(queue), l \in 1 .. Len(queue) : k < l /\ queue[k] = p /\ queue[l] = q
      BY <2>3, <3>2 DEF OrderInv, Before
    <3>4. k \in 1 .. Len(queue') /\ l \in 1 .. Len(queue') /\ queue'[k] = p /\ queue'[l] = q
      BY <1>1, <3>3
    <3> QED
      BY <3>3, <3>4 DEF Before
  <2> QED
    BY <2>4, <2>5
<1>5. \A p \in Procs : Undispatched(p)' => InQueue(p)'
  BY <1>2, <1>3 DEF Undispatched, OrderInv
<1>6. \A p \in Procs : ~Registered(p)' => coreNum'[p] = -1
  BY <1>2 DEF OrderInv
<1>7. FirstDispatchInOrder'
  <2> SUFFICES ASSUME NEW i \in 1 .. Len(processes'), NEW j \in 1 .. Len(processes'), i < j,
                      coreNum[processes'[j]] # -1
               PROVE  coreNum[processes'[i]] # -1
    BY DEF FirstDispatchInOrder
  <2>1. coreNum[x] = -1
    BY DEF OrderInv
  <2>2. /\ i \in 1 .. Len(processes) + 1 /\ j \in 1 .. Len(processes) + 1
        /\ j # Len(processes) + 1
    BY <1>1, <2>1
  <2>3. j \in 1 .. Len(processes)
    BY <1>1, <2>2, NotTheLast
  <2>4. i \in 1 .. Len(processes)
    BY <1>1, <2>2, <2>3
  <2> QED
    BY <1>1, <2>3, <2>4 DEF OrderInv, FirstDispatchInOrder
<1> QED
  BY <1>2, <1>4, <1>5, <1>6, <1>7 DEF OrderInv

(* The front of the queue is the oldest of those still undispatched.        *)
LEMMA OrderDispatch ==
  ASSUME TypeOK, Placement, OrderInv, Dispatch
  PROVE  OrderInv'
<1> USE DEF TypeOK, ListsOK
<1>0. [Next]_vars /\ UNCHANGED processes
  BY DEF Next, SchedulerLoop, Dispatch
<1>1. CASE UNCHANGED <<queue, coreNum>>
  BY <1>0, <1>1, OrderFrame DEF OrderInv, InQueue
<1>2. CASE ~UNCHANGED <<queue, coreNum>>
  <2>1. PICK x \in Procs : /\ queue # <<>> /\ x = Head(queue) /\ queue' = Tail(queue)
                           /\ coreNum' = [coreNum EXCEPT ![x] = at]
    BY <1>2 DEF Dispatch, AssignProcess
  <2>2. at # -1 /\ InQueue(x) /\ Registered(x)
    BY <2>1, HasTail DEF ClockOK, InQueue, Placement, AtMostOnePlace, NoneLost, Enlisted
  <2>3. \A p \in Procs : coreNum'[p] = IF p = x THEN at ELSE coreNum[p]
    BY <2>1 DEF PcbOK
  <2>4. \A p \in Procs : /\ Registered(p)' <=> Registered(p)
                         /\ Undispatched(p)' <=> Undispatched(p) /\ p # x
    BY <1>0, <2>2, <2>3 DEF Registered, Undispatched
  <2>5. \A p \in Procs : InQueue(p)' <=> InQueue(p) /\ p # x
    BY <2>1, HasTail DEF InQueue, Placement, AtMostOnePlace
  <2>6. KeepsOrder(queue, queue')
    BY <1>0, QueueKeepsOrder
  <2>7. ASSUME NEW p \in Procs, NEW q \in Procs,
               Undispatched(p)', Undispatched(q)', Before(processes, p, q)
        PROVE  Before(queue', p, q)
    <3>1. Has(queue, p) /\ Has(queue', p) /\ Before(queue, p, q)
      BY <2>4, <2>5, <2>7 DEF OrderInv, InQueue
    <3> QED
      BY <2>6, <3>1 DEF KeepsOrder
  <2>8. ASSUME Undispatched(x), NEW p \in Procs, Undispatched(p), Before(processes, p, x) PROVE FALSE
    <3>1. PICK k \in 1 .. Len(queue), l \in 1 .. Len(queue) : k < l /\ queue[k] = p /\ queue[l] = x
      BY <2>8 DEF OrderInv, Before
    <3>2. x = queue[1] /\ 1 \in 1 .. Len(queue)
      BY <2>1
    <3>3. l = 1
      BY <3>1, <3>2 DEF Placement, AtMostOnePlace, NoRepeats
    <3> QED
      BY <3>1, <3>3
  <2>9. FirstDispatchInOrder'
    <3> SUFFICES ASSUME NEW i \in 1 .. Len(processes), NEW j \in 1 .. Len(processes), i < j,
                        coreNum'[processes[j]] # -1, coreNum'[processes[i]] = -1
                 PROVE  FALSE
      BY <1>0 DEF FirstDispatchInOrder
    <3>1. /\ processes[i] \in Procs /\ processes[j] \in Procs
          /\ Registered(processes[i]) /\ Registered(processes[j])
          /\ Before(processes, processes[i], processes[j])
      BY DEF Registered, Has, Before
    <3>2. Undispatched(processes[i]) /\ processes[i] # x
      BY <2>2, <2>3, <3>1 DEF Undispatched
    <3>3. CASE coreNum[processes[j]] # -1
      BY <3>2, <3>3 DEF OrderInv, FirstDispatchInOrder, Undispatched
    <3>4. CASE coreNum[processes[j]] = -1
      <4>1. processes[j] = x /\ Undispatched(x)
        BY <2>3, <3>1, <3>4 DEF Undispatched
      <4> QED
        BY <2>8, <3>1, <3>2, <4>1
    <3> QED
      BY <3>3, <3>4
  <2> QED
    BY <1>0, <2>2, <2>3, <2>4, <2>5, <2>7, <2>9 DEF OrderInv, NoRepeats
<1> QED
  BY <1>1, <1>2

(* The invariant holds on.                                                  *)
LEMMA OrderStep ==
  ASSUME TypeOK, Placement, OrderInv, [Next]_vars
  PROVE  OrderInv'
<1>1. CASE AddProcess
  <2>1. named \in Procs /\ ~Registered(named)
    BY <1>1 DEF AddProcess, TypeOK, CreatorsOK, Placement, NewcomersApart
  <2> QED
    BY <1>1, <2>1, OrderRegister DEF AddProcess, pcb
<1>2. CASE CommitGenerated
  <2>1. generated \in Procs /\ ~Registered(generated)
    BY <1>2, SchedulerAssumption DEF CommitGenerated, TypeOK, CreatorsOK, Placement, NewcomersApart
  <2> QED
    BY <1>2, <2>1, OrderRegister DEF CommitGenerated, pcb
<1>3. CASE Dispatch
  BY <1>3, OrderDispatch
<1>4. CASE UNCHANGED <<processes, coreNum>> /\ ~Dispatch
  <2>1. ASSUME Spliced PROVE \A p \in Procs : InQueue(p) => InQueue(p)'
    BY <2>1, HasConcat DEF Spliced, InQueue, TypeOK, ListsOK
  <2>2. ASSUME NEW x \in Procs, Pushed(x) PROVE \A p \in Procs : InQueue(p) => InQueue(p)'
    BY <2>2, HasAppend DEF Pushed, InQueue, TypeOK, ListsOK
  <2>3. \A p \in Procs : InQueue(p) => InQueue(p)'
    BY <1>4, <2>1, <2>2, QueueStep DEF Popped, InQueue
  <2> QED
    BY <1>4, <2>3, OrderFrame DEF OrderInv
<1>5. AddProcess \/ CommitGenerated \/ Dispatch \/ UNCHANGED <<processes, coreNum>>
  BY DEF Next, CLI, SchedulerLoop, Start, ResumeGenerating, StopGenerating, CreateNamedProcess,
     SkipGeneration, GenerateProcess, WorkersDone, CheckQuantum, CollectPreempted, RequeuePreempted,
     UpdateSleeping, EndTick, RunCycle, vars, lists, pcb
<1> QED
  BY <1>1, <1>2, <1>3, <1>4, <1>5

(* Processes get their first core in the order of their registration.       *)
THEOREM FirstComeFirstServed == Spec => []FirstDispatchInOrder
<1>1. OrderInv => FirstDispatchInOrder
  BY DEF OrderInv
<1>2. TypeOK /\ Placement /\ OrderInv /\ [Next]_vars => OrderInv'
  BY OrderStep
<1> QED
  BY OrderInit, <1>1, <1>2, TypeCorrect, PlacementInvariant, PTL DEF Spec

-----------------------------------------------------------------------------
(* No core idles while a process waits.                                     *)

(* While the queue is not empty, the cores that the loop has visited are    *)
(* busy.                                                                    *)
BusyInv ==
  phase = "dispatch" /\ queue # <<>> => \A w \in Workers : w < at => current[w] # None

(* One iteration of the dispatch loop.                                      *)
LEMMA BusyDispatch ==
  ASSUME TypeOK, BusyInv, Dispatch
  PROVE  BusyInv' /\ (phase' # "dispatch" => queue' = <<>> \/ \A w \in Workers : current'[w] # None)
<1>1. /\ at \in Workers /\ at \in Nat /\ phase = "dispatch"
      /\ \/ phase' = phase /\ at' = at + 1
         \/ phase' = "collect" /\ \A w \in Workers : w <= at
  BY NextWorkerStep DEF Dispatch, TypeOK, ClockOK
<1>2. Workers \subseteq Int
  BY DEF Workers
<1>3. ASSUME queue' # <<>> PROVE \A w \in Workers : w <= at => current'[w] # None
  <2>1. CASE queue # <<>> /\ ~IsBusy(at)
    <3>1. Head(queue) \in Procs /\ current' = [current EXCEPT ![at] = Head(queue)]
      BY <2>1 DEF Dispatch, AssignProcess, TypeOK, ListsOK
    <3>2. \A w \in Workers : current'[w] = IF w = at THEN Head(queue) ELSE current[w]
      BY <1>1, <3>1 DEF TypeOK, CoresOK
    <3> QED
      BY <1>1, <1>2, <2>1, <3>1, <3>2, SchedulerAssumption DEF BusyInv
  <2>2. CASE ~(queue # <<>> /\ ~IsBusy(at))
    <3>1. UNCHANGED <<queue, current>>
      BY <2>2 DEF Dispatch
    <3> QED
      BY <1>1, <1>2, <1>3, <2>2, <3>1 DEF BusyInv, IsBusy
  <2> QED
    BY <2>1, <2>2
<1> QED
  BY <1>1, <1>2, <1>3 DEF BusyInv

(* The loop starts at the first core, and nobody is queued while it runs.   *)
LEMMA BusyStep ==
  ASSUME TypeOK, BusyInv, [Next]_vars
  PROVE  BusyInv'
<1>0. \A w \in Workers : ~(w < 0)
  BY DEF Workers
<1>1. CASE Start \/ ResumeGenerating \/ StopGenerating \/ CreateNamedProcess
  BY <1>1 DEF Start, ResumeGenerating, StopGenerating, CreateNamedProcess, lists, cores, clock, BusyInv
<1>2. CASE AddProcess
  BY <1>0, <1>2 DEF AddProcess, SchedulerMutexFree, clock, cores, BusyInv, TypeOK, ClockOK
<1>3. CASE SkipGeneration \/ GenerateProcess \/ CommitGenerated \/ RequeuePreempted
           \/ UpdateSleeping \/ EndTick \/ \E w \in Workers : RunCycle(w)
  BY <1>3 DEF SkipGeneration, GenerateProcess, CommitGenerated, TriggerWorkers, RequeuePreempted,
     UpdateSleeping, EndTick, RunCycle, BusyInv
<1>4. CASE WorkersDone
  BY <1>0, <1>4 DEF WorkersDone, BusyInv, TypeOK, ClockOK
<1>5. CASE CheckQuantum
  <2>1. phase' = "dispatch" => at' = 0
    BY <1>5 DEF CheckQuantum, NextWorker
  <2> QED
    BY <1>0, <2>1 DEF BusyInv
<1>6. CASE CollectPreempted
  BY <1>6 DEF CollectPreempted, NextWorker, BusyInv
<1>7. CASE UNCHANGED vars
  BY <1>7 DEF vars, lists, cores, clock, BusyInv
<1> QED
  BY <1>1, <1>2, <1>3, <1>4, <1>5, <1>6, <1>7, BusyDispatch DEF Next, CLI, SchedulerLoop

(* Dispatching ends with an empty queue or every core busy.                 *)
THEOREM NoCoreIdles == Spec => WorkConserving
<1>1. ASSUME TypeOK, BusyInv, [Next]_vars, phase = "dispatch", phase' # "dispatch"
      PROVE  queue' = <<>> \/ \A w \in Workers : current'[w] # None
  <2>1. Dispatch
    BY <1>1 DEF Next, CLI, SchedulerLoop, Start, ResumeGenerating, StopGenerating, CreateNamedProcess,
       AddProcess, SkipGeneration, GenerateProcess, CommitGenerated, WorkersDone, CheckQuantum,
       CollectPreempted, RequeuePreempted, UpdateSleeping, EndTick, RunCycle, vars, clock
  <2> QED
    BY <1>1, <2>1, BusyDispatch
<1>2. TypeOK /\ BusyInv /\ [Next]_vars =>
        [phase = "dispatch" /\ phase' # "dispatch"
           => queue' = <<>> \/ \A w \in Workers : current'[w] # None]_vars
  BY <1>1
<1>3. Init => BusyInv
  BY DEF Init, BusyInv
<1>4. TypeOK /\ BusyInv /\ [Next]_vars => BusyInv'
  BY BusyStep
<1> QED
  BY <1>2, <1>3, <1>4, TypeCorrect, PTL DEF Spec, WorkConserving

-----------------------------------------------------------------------------
(* Who wakes up goes last.                                                  *)

(* A sleep ends in the wake-up loop alone.                                  *)
LEMMA WakesInLoop ==
  ASSUME TypeOK, Placement, [Next]_vars, NEW p \in Procs, state[p] = "WAITING", state'[p] = "READY"
  PROVE  UpdateSleeping
<1>1. ~CheckQuantum
  BY NextWorkerStep DEF CheckQuantum, TypeOK, CoresOK, PcbOK
<1>2. ~Dispatch
  BY DEF Dispatch, AssignProcess, TypeOK, ListsOK, PcbOK
<1>3. ASSUME NEW w \in Workers, RunCycle(w) PROVE FALSE
  <2>1. current[w] # p
    BY DEF Placement, NoneLost, OnCore, Holds
  <2>2. current[w] \in Procs \cup {None}
    BY DEF TypeOK, CoresOK
  <2> QED
    BY <1>3, <2>1, <2>2 DEF RunCycle, Cycle, TickExecution, ExecuteInstructions, TypeOK, PcbOK
<1> QED
  BY <1>1, <1>2, <1>3 DEF Next, CLI, SchedulerLoop, Start, ResumeGenerating, StopGenerating,
     CreateNamedProcess, AddProcess, SkipGeneration, GenerateProcess, CommitGenerated, WorkersDone,
     CollectPreempted, RequeuePreempted, EndTick, vars, pcb

(* A process that wakes up is last in the queue, and everybody who was      *)
(* added or preempted in the same tick is queued before it.                 *)
THEOREM WakersGoLast == Spec => WokenGoesLast
<1>1. ASSUME TypeOK, Placement, [Next]_vars, NEW p \in Procs, state[p] = "WAITING", state'[p] = "READY"
      PROVE  /\ queue'[Len(queue')] = p
             /\ \A q \in Procs : Registered(q) /\ state[q] = "READY" => InQueue(q)
  <2>1. UpdateSleeping
    BY <1>1, WakesInLoop
  <2>2. p = processes[at + 1] /\ queue' = Append(queue, p)
    <3>1. processes[at + 1] \in Procs
      BY <1>1, <2>1 DEF UpdateSleeping, TypeOK, ListsOK, ClockOK
    <3> QED
      BY <1>1, <2>1, <3>1 DEF UpdateSleeping, WokenBehind, TypeOK, PcbOK
  <2>3. queue'[Len(queue')] = p
    BY <1>1, <2>2 DEF TypeOK, ListsOK
  <2>4. batch = <<>> /\ \A w \in Workers : preempted[w] = None
    BY <1>1, <2>1 DEF UpdateSleeping, Placement, SlotsCollected
  <2>5. \A q \in Procs : ~InBatch(q) /\ ~InSlot(q)
    BY <2>4, HasEmpty, SchedulerAssumption DEF InBatch, InSlot, Holds
  <2> QED
    BY <1>1, <2>3, <2>5 DEF Placement, NoneLost
<1>2. TypeOK /\ Placement /\ [Next]_vars =>
        [\A p \in Procs : state[p] = "WAITING" /\ state'[p] = "READY"
           => /\ queue'[Len(queue')] = p
              /\ \A q \in Procs : Registered(q) /\ state[q] = "READY" => InQueue(q)]_vars
  BY <1>1
<1> QED
  BY <1>2, TypeCorrect, PlacementInvariant, PTL DEF Spec, WokenGoesLast
=============================================================================

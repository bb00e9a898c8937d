------------------------------- MODULE Restart -------------------------------
(***************************************************************************)
(* Stop and Start of a scheduler that has processes (Scheduler.h 65-136).  *)
(*                                                                         *)
(* Stop may come at any moment.  It releases the scheduler thread from     *)
(* TriggerWorkersTick, which then ends its iteration while workers may not *)
(* have run the cycle they owe, may be running it, or never will; then it  *)
(* joins that thread, deletes the workers one by one and empties the ready *)
(* queue.  The processes stay registered, and a later Start meets them in  *)
(* the states in which they were left.                                     *)
(***************************************************************************)
EXTENDS Scheduler

CONSTANT MaxStops  \* bound: how often Stop is called

VARIABLES
  running,  \* Scheduler::running
  control,  \* where the calling thread is in Stop, "idle" outside
  alive,    \* the workers not yet deleted
  falling,  \* workers in the middle of a SLEEP
  dropped,  \* history: processes that a Stop took off the queue or a core
  stops     \* history: calls of Stop

launch == <<running, control, alive, falling, dropped, stops>>

RestartInit ==
  /\ Init
  /\ running = FALSE /\ control = "idle" /\ alive = {} /\ falling = {}
  /\ dropped = {} /\ stops = 0

-----------------------------------------------------------------------------
(* The thread that calls the scheduler.                                     *)

(* Start: fresh workers that owe nothing, and a clock that starts again.    *)
Launch ==
  /\ control = "idle" /\ ~running
  /\ running' = TRUE /\ alive' = Workers
  /\ phase' = "generate" /\ at' = 0 /\ done' = Workers /\ tick' = 0
  /\ generating' = FALSE
  /\ UNCHANGED <<ident, lists, cores, batch, generated, named, pcb,
                 control, falling, dropped, stops>>

(* The loop has tested `running` for the iteration it is in; between two    *)
(* iterations it may have, or may not yet have, for the next one.           *)
Stop ==
  /\ control = "idle" /\ running /\ stops < MaxStops
  /\ running' = FALSE /\ generating' = FALSE
  /\ phase' \in IF phase = "generate" THEN {"generate", "off"} ELSE {phase}
  /\ control' = "join" /\ stops' = stops + 1
  /\ UNCHANGED <<ident, lists, cores, at, done, tick, batch, generated, named, pcb,
                 alive, falling, dropped>>

JoinScheduler ==
  /\ control = "join" /\ phase = "off"
  /\ control' = "workers"
  /\ UNCHANGED <<vars, running, alive, falling, dropped, stops>>

(* Variant: a worker is deleted while its process falls asleep.             *)
NeverHeld(w) == FALSE

(* workerMutex, seen between two steps: a worker keeps it while its process *)
(* falls asleep.                                                            *)
MutexHeld(w) == w \in falling

(* Worker::Stop takes workerMutex and joins; what a core held goes with it. *)
StopWorker(w) ==
  /\ control = "workers" /\ w \in alive /\ \A v \in alive : w <= v
  /\ ~MutexHeld(w)
  /\ alive' = alive \ {w}
  /\ current' = [current EXCEPT ![w] = None]
  /\ preempted' = [preempted EXCEPT ![w] = None]
  /\ UNCHANGED <<ident, lists, clock, creators, pcb, running, control, falling, dropped, stops>>

(* Variant: the queue is kept for the next launch.                          *)
QueueKept == queue

QueueEmptied == <<>>

EmptyQueue ==
  /\ control = "workers" /\ alive = {}
  /\ queue' = QueueEmptied
  /\ dropped' = dropped \cup {p \in Procs : Registered(p) /\ state[p] \in {"READY", "RUNNING"}}
  /\ control' = "idle"
  /\ UNCHANGED <<ident, processes, cores, clock, creators, pcb, running, alive, falling, stops>>

(* The rest of the interface, which the same thread uses.                   *)
Calls ==
  /\ control = "idle"
  /\ \/ CreateNamedProcess \/ AddProcess
     \/ running /\ (ResumeGenerating \/ StopGenerating)
  /\ UNCHANGED launch

Control ==
  \/ Launch \/ Stop \/ JoinScheduler \/ EmptyQueue \/ \E w \in Workers : StopWorker(w)

-----------------------------------------------------------------------------
(* The scheduler thread.                                                    *)

(* Stop releases the wait for the workers.                                  *)
ReturnEarly ==
  /\ ~running /\ phase = "cycle" /\ done # Workers
  /\ phase' = ServePhase
  /\ UNCHANGED <<ident, lists, cores, at, done, tick, batch, creators, pcb>>

LeaveLoop ==
  /\ ~running /\ phase = "wake" /\ at = Len(processes)
  /\ phase' = "off" /\ at' = 0
  /\ UNCHANGED <<ident, lists, cores, done, tick, batch, creators, pcb>>

(* A look at a core takes its workerMutex; the wake-up of sleepers does not *)
(* take it.                                                                 *)
CoreFree == phase \in {"quantum", "dispatch", "collect"} => ~MutexHeld(at)

Loop ==
  /\ CoreFree
  /\ \/ SkipGeneration \/ GenerateProcess \/ CommitGenerated
     \/ WorkersDone \/ ReturnEarly \/ CheckQuantum \/ Dispatch
     \/ CollectPreempted \/ RequeuePreempted \/ UpdateSleeping
     \/ running /\ EndTick
     \/ LeaveLoop
  /\ UNCHANGED launch

-----------------------------------------------------------------------------
(* Worker threads.                                                          *)

(* While the scheduler runs, it waits for the cycle: one step will do.      *)
TimelyCycle(w) == running /\ RunCycle(w) /\ UNCHANGED launch

(* After Stop, a worker that was signalled still runs its cycle, unless it  *)
(* is stopped first, and nobody waits for it.                               *)
Owes(w) ==
  ~running /\ w \in alive \ done /\ w \notin falling /\ phase \notin {"generate", "commit"}

FallsAsleep(w) ==
  LET p == current[w] IN
  /\ p # None /\ state[p] \in {"READY", "RUNNING"} /\ InstructionDue(p)
  /\ index[p] < Len(program[p]) /\ program[p][index[p] + 1].keyword = "SLEEP"

LateCycle(w) ==
  /\ Owes(w) /\ ~FallsAsleep(w)
  /\ done' = done \cup {w}
  /\ Cycle(w)
  /\ UNCHANGED <<ident, lists, preempted, phase, at, tick, batch, creators,
                 quantumUsed, coreNum, launch>>

(* ExecuteInstructions sets WAITING first ...                               *)
FallAsleep(w) ==
  /\ Owes(w) /\ FallsAsleep(w)
  /\ falling' = falling \cup {w}
  /\ state' = [state EXCEPT ![current[w]] = "WAITING"]
  /\ UNCHANGED <<ident, lists, cores, clock, creators, index, sleepLeft, cyclesLeft,
                 quantumUsed, coreNum, finishTime, running, control, alive, dropped, stops>>

(* ... and the length of the sleep and the index after it, when the wake-up *)
(* of sleepers may already have made the process READY again.               *)
SettleAsleep(w) ==
  /\ w \in falling
  /\ LET p == current[w]
         cycles == program[p][index[p] + 1].cycles
         s == IF IsLast(p) /\ cycles = 0 THEN "FINISHED" ELSE state[p]
     IN  /\ state' = [state EXCEPT ![p] = s]
         /\ finishTime' = [finishTime EXCEPT ![p] = @ \/ s = "FINISHED"]
         /\ index' = [index EXCEPT ![p] = @ + 1]
         /\ sleepLeft' = [sleepLeft EXCEPT ![p] = cycles]
         /\ IF s \in {"WAITING", "FINISHED"}
            THEN current' = Detached(w) /\ UNCHANGED cyclesLeft
            ELSE cyclesLeft' = [cyclesLeft EXCEPT ![p] = Delay] /\ UNCHANGED current
  /\ falling' = falling \ {w} /\ done' = done \cup {w}
  /\ UNCHANGED <<ident, lists, preempted, phase, at, tick, batch, creators,
                 quantumUsed, coreNum, running, control, alive, dropped, stops>>

Core(w) == TimelyCycle(w) \/ LateCycle(w) \/ FallAsleep(w) \/ SettleAsleep(w)

RestartNext == Control \/ Calls \/ Loop \/ \E w \in Workers : Core(w)

RestartSpec == RestartInit /\ [][RestartNext]_<<vars, launch>>

(* The threads are never starved, and Stop, once called, goes on; nobody    *)
(* has to call anything.                                                    *)
FairRestart ==
  /\ RestartSpec
  /\ WF_<<vars, launch>>(Loop)
  /\ \A w \in Workers : WF_<<vars, launch>>(Core(w)) /\ WF_<<vars, launch>>(StopWorker(w))
  /\ WF_<<vars, launch>>(JoinScheduler) /\ WF_<<vars, launch>>(EmptyQueue)

-----------------------------------------------------------------------------
(* Properties.                                                              *)

RestartTypeOK ==
  /\ TypeOK
  /\ running \in BOOLEAN /\ control \in {"idle", "join", "workers"}
  /\ alive \subseteq Workers /\ falling \subseteq alive /\ dropped \subseteq Procs
  /\ running => control = "idle" /\ alive = Workers /\ falling = {} /\ phase # "off"
  /\ control = "workers" => phase = "off"

(* However a Stop cut into a tick, the next launch starts clean: while the  *)
(* scheduler runs no process is in two places, none is lost but those that  *)
(* a Stop has dropped, and these are on no core and in no queue again.      *)
CleanLaunch ==
  running =>
    /\ AtMostOnePlace
    /\ \A p \in Procs :
         /\ Registered(p) /\ state[p] \in {"READY", "RUNNING"} => Enlisted(p) \/ p \in dropped
         /\ Enlisted(p) => Registered(p) /\ state[p] \in {"READY", "RUNNING"} /\ p \notin dropped

(* Once the scheduler is left running, every registered process finishes,   *)
(* the one that slept across restarts included, but for those dropped.      *)
SurvivorsFinish ==
  <>[]running => \A p \in Procs : Registered(p) ~> (state[p] = "FINISHED" \/ p \in dropped)
=============================================================================

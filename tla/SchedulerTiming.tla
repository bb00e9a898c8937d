--------------------------- MODULE SchedulerTiming ---------------------------
(***************************************************************************)
(* How long things take in Scheduler.  Three history variables count, from *)
(* outside the counters of the code, the core cycles of a turn, the core   *)
(* cycles between two instructions and the ticks of a sleep.  They record  *)
(* what happened and restrict nothing.                                     *)
(***************************************************************************)
EXTENDS Scheduler

VARIABLES
  turn,    \* cycles core w has run since its process was assigned
  gap,     \* core cycles p has spent since its last instruction
  asleep   \* ticks p has been counted down since its SLEEP began

CONSTANT MaxCount  \* where the counters stop, above every legal value

(* So far that no count which the properties compare is cut short.          *)
ASSUME TimingAssumption ==
  /\ MaxCount \in Nat /\ MaxCount > 1 /\ MaxCount > Quantum /\ MaxCount > Delay
  /\ \A prog \in Programs : \A i \in 1 .. Len(prog) : MaxCount > prog[i].cycles

timers == <<turn, gap, asleep>>

Bump(n) == IF n < MaxCount THEN n + 1 ELSE n

TimingInit ==
  /\ Init
  /\ turn = [w \in Workers |-> 0]
  /\ gap = [p \in Procs |-> 0]
  /\ asleep = [p \in Procs |-> 0]

(* The workers whose cycle this step is, and the processes that got one.    *)
Cycling == done' \ done
Served == {current[w] : w \in Cycling} \ {None}

CountedDown(p) == phase = "wake" /\ at' = at + 1 /\ processes[at'] = p

Record ==
  /\ turn' = [w \in Workers |->
       IF current'[w] # current[w] THEN 0
       ELSE IF w \in Cycling /\ current[w] # None THEN Bump(turn[w]) ELSE turn[w]]
  /\ gap' = [p \in Procs |->
       IF index'[p] # index[p] THEN 0
       ELSE IF p \in Served THEN Bump(gap[p]) ELSE gap[p]]
  /\ asleep' = [p \in Procs |->
       IF state[p] # "WAITING" THEN 0
       ELSE IF CountedDown(p) THEN Bump(asleep[p]) ELSE asleep[p]]

TimingNext == Next /\ Record

TimingSpec == TimingInit /\ [][TimingNext]_<<vars, timers>>

-----------------------------------------------------------------------------
(* A preempted process has had its core for exactly the quantum (a quantum  *)
(* below one acts as one): the counter is neither stale from an earlier     *)
(* turn nor shared with the process that held the core before.              *)
FullQuantum ==
  [][\A w \in Workers : preempted'[w] # preempted[w] /\ preempted'[w] # None
       => turn[w] = IF Quantum > 1 THEN Quantum ELSE 1]_<<vars, timers>>

(* Between two instructions of a process, Delay core cycles pass and not    *)
(* one more, however often it was preempted in between; after a SLEEP, and  *)
(* before the first instruction, none do.                                   *)
DelayBetweenInstructions ==
  [][\A p \in Procs : index'[p] # index[p] =>
       gap[p] = IF index[p] = 0 \/ program[p][index[p]].keyword = "SLEEP"
                THEN 0 ELSE Delay]_<<vars, timers>>

(* SLEEP n takes a process off the ready queue for n ticks, the tick that   *)
(* executes it included, and a sleep of zero for the rest of that tick.     *)
SleepsItsTicks ==
  [][\A p \in Procs : state[p] = "WAITING" /\ state'[p] # "WAITING" =>
       LET n == program[p][index[p]].cycles
       IN  asleep'[p] = IF n > 1 THEN n ELSE 1]_<<vars, timers>>
=============================================================================

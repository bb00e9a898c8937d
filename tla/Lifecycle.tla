------------------------------ MODULE Lifecycle ------------------------------
(***************************************************************************)
(* What the scheduler promises to each process, with no queue, core or     *)
(* clock in sight: it is admitted with a program, waits its turn, runs and *)
(* executes one instruction after the other, may be preempted between two  *)
(* of them or go to sleep after one, and finishes after the last and never *)
(* before, for good.                                                       *)
(***************************************************************************)
EXTENDS Integers

CONSTANT Procs

VARIABLES
  status,  \* "NEW", or the state of the process
  todo     \* how many instructions it has yet to execute

vars == <<status, todo>>

Init ==
  /\ status = [p \in Procs |-> "NEW"]
  /\ todo = [p \in Procs |-> 0]

Move(p, from, to) == status[p] = from /\ status' = [status EXCEPT ![p] = to]

Admit(p) ==
  /\ Move(p, "NEW", "READY")
  /\ todo'[p] \in Nat /\ todo' = [todo EXCEPT ![p] = todo'[p]]

Dispatch(p) == Move(p, "READY", "RUNNING") /\ UNCHANGED todo

Preempt(p) == Move(p, "RUNNING", "READY") /\ UNCHANGED todo

(* A process that has executed its last instruction finishes or, if that    *)
(* was a SLEEP, first sleeps.                                               *)
Execute(p) ==
  /\ todo[p] > 0 /\ todo' = [todo EXCEPT ![p] = @ - 1]
  /\ \/ Move(p, "RUNNING", "WAITING")
     \/ Move(p, "RUNNING", IF todo[p] = 1 THEN "FINISHED" ELSE "RUNNING")

(* An empty program.                                                        *)
FinishAtOnce(p) == todo[p] = 0 /\ Move(p, "RUNNING", "FINISHED") /\ UNCHANGED todo

Wake(p) ==
  /\ Move(p, "WAITING", IF todo[p] = 0 THEN "FINISHED" ELSE "READY")
  /\ UNCHANGED todo

Step(p) ==
  Admit(p) \/ Dispatch(p) \/ Preempt(p) \/ Execute(p) \/ FinishAtOnce(p) \/ Wake(p)

Next == \E p \in Procs : Step(p)

Spec == Init /\ [][Next]_vars
=============================================================================

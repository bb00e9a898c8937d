------------------------------- MODULE Lockstep -------------------------------
(***************************************************************************)
(* What the scheduler loop may rely on, and Scheduler.tla does rely on:    *)
(* ticks in lockstep.  A tick makes every worker owe one cycle, each       *)
(* worker pays once, and the scheduler's own phases come after the last    *)
(* payment.  Halting voids the debts: the scheduler then leaves at once    *)
(* and begins no further tick.                                             *)
(***************************************************************************)
CONSTANT Workers

VARIABLES
  up,      \* the scheduler is running
  phase,   \* "serve": the scheduler's phases; "cycle": the workers' turn
  owing    \* the workers that owe a cycle of this tick

vars == <<up, phase, owing>>

Init == ~up /\ phase = "serve" /\ owing = {}

Launch ==
  /\ ~up /\ phase = "serve"
  /\ up' = TRUE /\ owing' = {} /\ UNCHANGED phase

Tick ==
  /\ up /\ phase = "serve"
  /\ phase' = "cycle" /\ owing' = Workers /\ UNCHANGED up

Cycle(w) ==
  /\ w \in owing
  /\ owing' = owing \ {w}
  /\ UNCHANGED <<up, phase>>

Serve ==
  /\ phase = "cycle" /\ (owing = {} \/ ~up)
  /\ phase' = "serve" /\ UNCHANGED <<up, owing>>

Halt ==
  /\ up /\ up' = FALSE
  /\ UNCHANGED <<phase, owing>>

Next == Launch \/ Tick \/ Serve \/ Halt \/ \E w \in Workers : Cycle(w)

Spec == Init /\ [][Next]_vars
=============================================================================

---------------------------- MODULE ProcessCycles ----------------------------
(***************************************************************************)
(* The cycles of one Process (process/Process.h) with plain statements:    *)
(* each ExecuteInstructions executes one of them with the interpreter of   *)
(* the process, and sleeps interrupt it.  Which core calls, and when, is   *)
(* left to Scheduler.tla.                                                  *)
(***************************************************************************)
EXTENDS Statements

VARIABLES
  statements,  \* Process::statements
  index,       \* currentInstructionIndex
  state,       \* currentState
  sleepLeft,   \* cyclesRemainingForSleep
  memory,      \* of the interpreter
  logs         \* Process::logs

cycleVars == <<statements, index, state, sleepLeft, memory, logs>>

(* A process that is new, whatever it is to execute.                        *)
Fresh ==
  /\ index = 0 /\ state = "READY" /\ sleepLeft = 0
  /\ memory = <<>> /\ logs = <<>>

IsLast == index + 1 >= Len(statements)

Slept(stmt) == <<"slept", IF stmt.args = <<>> THEN "0" ELSE stmt.args[1].text>>

(* Text that is no int makes a sleep of zero ticks.                         *)
SleepCycles(stmt) ==
  IF stmt.args # <<>> /\ StoiOK(stmt.args[1]) THEN stmt.args[1].value ELSE 0

(* A process with nothing left to do finishes.                              *)
FinishAtOnce ==
  /\ state \in {"READY", "RUNNING"} /\ index >= Len(statements)
  /\ state' = "FINISHED"
  /\ UNCHANGED <<statements, index, sleepLeft, memory, logs>>

Sleep ==
  /\ state \in {"READY", "RUNNING"} /\ index < Len(statements)
  /\ LET stmt == statements[index + 1] IN
     /\ stmt.keyword = "SLEEP"
     /\ sleepLeft' = SleepCycles(stmt)
     /\ logs' = Append(logs, Slept(stmt))
  /\ index' = index + 1
  /\ state' = IF IsLast /\ sleepLeft' = 0 THEN "FINISHED" ELSE "WAITING"
  /\ UNCHANGED <<statements, memory>>

(* flushBuffer empties the screen buffer into the log.                      *)
Execute ==
  /\ state \in {"READY", "RUNNING"} /\ index < Len(statements)
  /\ statements[index + 1].keyword # "SLEEP"
  /\ LET out == ExecutePlain(Blank(memory), statements[index + 1]) IN
     memory' = out.memory /\ logs' = logs \o out.screen
  /\ index' = index + 1
  /\ state' = IF IsLast THEN "FINISHED" ELSE "RUNNING"
  /\ UNCHANGED <<statements, sleepLeft>>

(* Scheduler::UpdateSleepingProcessesCycle, for this process.               *)
UpdateSleeping ==
  /\ state = "WAITING"
  /\ sleepLeft' = IF sleepLeft > 0 THEN sleepLeft - 1 ELSE sleepLeft
  /\ state' = IF sleepLeft' > 0 THEN "WAITING"
              ELSE IF index >= Len(statements) THEN "FINISHED" ELSE "READY"
  /\ UNCHANGED <<statements, index, memory, logs>>

Cycle == FinishAtOnce \/ Sleep \/ Execute \/ UpdateSleeping

CyclesInit == statements \in Seq(PlainStatements) /\ Fresh

CyclesSpec == CyclesInit /\ [][Cycle]_cycleVars

-----------------------------------------------------------------------------
(* Every variable keeps its type; a variable of the program stays within a  *)
(* uint16_t whatever it is assigned, and only a process that waits has      *)
(* ticks left to sleep.                                                     *)
CyclesTypeOK ==
  /\ statements \in Seq(PlainStatements)
  /\ index \in 0 .. Len(statements)
  /\ state \in {"READY", "RUNNING", "WAITING", "FINISHED"}
  /\ sleepLeft \in -IntMax - 1 .. IntMax
  /\ sleepLeft > 0 => state = "WAITING"
  /\ \A name \in DOMAIN memory : memory[name] \in 0 .. Modulus - 1

(* A variable that is missing is worth zero, and is created when it is read.*)
Worth(m, name) == IF name \in DOMAIN m THEN m[name] ELSE 0

(* A statement without its operands does nothing at all, although the       *)
(* comments of executeDeclare and executeAdd call that a failure.           *)
Incomplete(stmt) ==
  \/ stmt.keyword = "PRINT" /\ stmt.args = <<>>
  \/ stmt.keyword = "DECLARE" /\ Len(stmt.args) < 2
  \/ stmt.keyword \in {"ADD", "SUBTRACT"} /\ Len(stmt.args) < 3

(* Whether a statement fails, by its text alone.                            *)
Fails(stmt) ==
  /\ ~Incomplete(stmt)
  /\ \/ stmt.keyword = "UNKNOWN"
     \/ stmt.keyword = "PRINT" /\ PrintsNumber(stmt.args) /\ ~ResolveOK(PrintOperand(stmt.args))
     \/ stmt.keyword = "DECLARE" /\ ~StolOK(stmt.args[2])
     \/ /\ stmt.keyword \in {"ADD", "SUBTRACT"}
        /\ ~(ResolveOK(stmt.args[2]) /\ ResolveOK(stmt.args[3]))

(* Reading changes no variable and none disappears: only the target of a    *)
(* DECLARE, ADD or SUBTRACT with all of its operands takes a new value, and *)
(* a variable that reading creates is worth what it was worth before.       *)
TargetsOnly ==
  /\ DOMAIN memory \subseteq DOMAIN memory'
  /\ \A name \in DOMAIN memory' :
       Worth(memory', name) # Worth(memory, name) =>
         LET stmt == statements[index + 1] IN
         /\ stmt.keyword \in {"DECLARE", "ADD", "SUBTRACT"} /\ ~Incomplete(stmt)
         /\ stmt.args[1].text = name

ReadsLeaveValues == [][TargetsOnly]_cycleVars

(* The log holds a warning or an error if, and only if, a statement that    *)
(* fails by its text was executed: what ran before makes none fail, and no  *)
(* such failure goes unseen or ends the program.  An incomplete statement   *)
(* is passed over without a line.                                           *)
FailuresAreLogged ==
  (\E k \in 1 .. Len(logs) : logs[k] \in {Warning, Error})
    <=> \E i \in 1 .. index : Fails(statements[i])
=============================================================================

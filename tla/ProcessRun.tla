------------------------------ MODULE ProcessRun ------------------------------
(***************************************************************************)
(* One Process from its program to its last line of log: AddInstruction    *)
(* unrolls the program, and ProcessCycles goes through what comes out.     *)
(***************************************************************************)
EXTENDS Interpreter, ProcessCycles

CONSTANT Trees  \* the programs, each a sequence of statements as parsed

ASSUME TreesAssumption == Trees \subseteq Seq(Nodes)

VARIABLE tree  \* the program the process was given (history)

vars == <<tree, cycleVars>>

Init ==
  /\ tree \in Trees
  /\ statements = Unroll(tree)
  /\ Fresh

Next == Cycle /\ UNCHANGED tree

Spec == Init /\ [][Next]_vars

-----------------------------------------------------------------------------
(* Properties.                                                              *)

(* A statement and all that are nested in it.                               *)
Parts[stmt \in Nodes] ==
  {stmt} \cup UNION {Parts[stmt.nested[i]] : i \in DOMAIN stmt.nested}

(* The statements for which unrolling and interpreting read a number alike. *)
WithinLimits(stmt) ==
  /\ stmt.keyword = "FOR" =>
       /\ Len(stmt.args) >= 2 /\ stmt.args[2].kind = "unsigned"
       /\ stmt.args[2].value \in 0 .. Modulus - 1
  /\ stmt.keyword = "SLEEP" => stmt.args = <<>> \/ StoulOK(stmt.args[1])

Unrollable == \A i \in DOMAIN tree : \A part \in Parts[tree[i]] : WithinLimits(part)

Output == FlattenSeq([k \in DOMAIN logs |-> IF logs[k][1] = "slept" THEN <<>> ELSE <<logs[k]>>])

(* Executed one statement per cycle, with sleeps in between, a process logs *)
(* what the interpreter prints for the whole program in one go, line by     *)
(* line, and ends with the same memory.                                     *)
RunsAsInterpreted ==
  Unrollable =>
    /\ IsPrefix(Output, Interpret(tree).screen)
    /\ state = "FINISHED" => Output = Interpret(tree).screen /\ memory = Interpret(tree).memory

(* The programs that GetRandomStatement may have produced for a process of  *)
(* that name.                                                               *)
IsGenerated(name) == \A i \in DOMAIN tree : <<name, tree[i]>> \in Drawn

(* The name stands in the argument of a PRINT, where executePrint takes     *)
(* what follows a plus sign for an operand: it can be read as one.          *)
GreetingReads(name) ==
  Find(name, Plus) # 0 => ResolveOK(PrintOperand(Greeting(name).args))

(* What GetRandomStatement puts into a program executes, unless the name of *)
(* the process has a plus sign before digits that no unsigned long holds:   *)
(* such a process never logs a warning or an error.                         *)
GeneratedRunsClean ==
  \A name \in ProcessNames : IsGenerated(name) /\ GreetingReads(name) =>
    \A i \in DOMAIN logs : logs[i] \notin {Warning, Error}
=============================================================================

---------------------------- MODULE Configuration ----------------------------
(***************************************************************************)
(* From config.txt to the context of the scheduler (src/Config.h and       *)
(* src/Context.h), and what the scheduler does with two of its values: the *)
(* length of a program it draws, and whether a tick generates a process.   *)
(*                                                                         *)
(* A line is a key and the text after it: a number, another word, or       *)
(* nothing.  The keys of the memory sizes are among the others: they are   *)
(* read and never used.                                                    *)
(***************************************************************************)
EXTENDS Integers, Sequences

CONSTANTS
  Files,    \* the contents that config.txt may have
  IntMax,   \* the largest int
  RandMax,  \* the largest value of rand(), RAND_MAX
  MaxCycle  \* the ticks after which cpuCycles is no longer told apart (a bound)

NumberKeys == {"num-cpu", "quantum-cycles", "batch-process-freq",
               "min-ins", "max-ins", "delay-per-exec"}

NoText == ""
Number(n) == [kind |-> "number", number |-> n, text |-> "a number"]
Word(w) == [kind |-> "word", number |-> 0, text |-> w]
Nothing == [kind |-> "nothing", number |-> 0, text |-> NoText]

ASSUME ConfigurationAssumption == IntMax \in Nat /\ RandMax \in Nat /\ MaxCycle \in Nat

(* A file is any sequence of lines: config.txt is written by hand.          *)
Value == [kind : {"number", "word", "nothing"}, number : Int, text : STRING]
ASSUME FilesAssumption == Files \subseteq Seq([key : STRING, value : Value])

VARIABLES
  stage,   \* "closed", "reading", "running", or "fault" after a division by zero
  file,    \* the lines of config.txt
  read,    \* how many of them fromFile has read
  config,  \* ConfigStruct: the numbers, by key ...
  name,    \* ... and the name of the scheduler
  ctx,     \* AlgoContext: algorithm and quantum; the rest is as in config
  cycle,   \* cpuCycles
  length   \* commandAmount of the process drawn last, -1 at first

vars == <<stage, file, read, config, name, ctx, cycle, length>>

(* new ConfigStruct() sets every value to zero.                             *)
Init ==
  /\ stage = "closed" /\ file = <<>> /\ read = 0
  /\ config = [k \in NumberKeys |-> 0] /\ name = NoText
  /\ ctx = [algo |-> "unknown", quantum |-> 0]
  /\ cycle = 0 /\ length = -1

Open ==
  /\ stage = "closed" /\ stage' = "reading"
  /\ file' \in Files
  /\ UNCHANGED <<read, config, name, ctx, cycle, length>>

(* The extraction of an int takes the nearest one to a number that does not *)
(* fit.                                                                     *)
Nearest(n) == IF n > IntMax THEN IntMax ELSE IF n < -IntMax - 1 THEN -IntMax - 1 ELSE n

(* What it leaves in a variable that held `old`: zero if there is no number.*)
Extracted(value, old) ==
  CASE value.kind = "nothing" -> old
    [] value.kind = "word" -> 0
    [] value.kind = "number" -> Nearest(value.number)

(* Variant: the first line with a key counts.                               *)
ReadFirst(key, value) ==
  config' = IF config[key] # 0 THEN config ELSE [config EXCEPT ![key] = Extracted(value, @)]

ReadNumber(key, value) == config' = [config EXCEPT ![key] = Extracted(value, @)]

(* fromFile: one line.  Unknown keys are passed over.                       *)
ReadLine ==
  /\ stage = "reading" /\ read < Len(file)
  /\ read' = read + 1
  /\ LET line == file[read'] IN
     /\ IF line.key \in NumberKeys THEN ReadNumber(line.key, line.value) ELSE UNCHANGED config
     /\ name' = IF line.key = "scheduler" /\ line.value.kind # "nothing"
                THEN line.value.text ELSE name
  /\ UNCHANGED <<stage, file, ctx, cycle, length>>

(* Of an unknown algorithm it stays unset; only a message shows it then.    *)
QuantumOf(algo) ==
  CASE algo = "fcfs" -> -1 [] algo = "rr" -> config["quantum-cycles"] [] OTHER -> 0

(* buildConfig, and the start of the scheduler.                             *)
BuildConfig ==
  /\ stage = "reading" /\ read = Len(file)
  /\ LET algo == IF name \in {"fcfs", "rr"} THEN name ELSE "unknown"
     IN  ctx' = [algo |-> algo, quantum |-> QuantumOf(algo)]
  /\ stage' = "running"
  /\ UNCHANGED <<file, read, config, name, cycle, length>>

Magnitude(n) == IF n < 0 THEN -n ELSE n

(* The remainder of C++ takes the sign of the dividend.                     *)
Remainder(a, b) == a % Magnitude(b)

(* Variant: the upper limit itself is never drawn.                          *)
SpanBelow == config["max-ins"] - config["min-ins"]

Span == config["max-ins"] - config["min-ins"] + 1

(* generateProcess and CreateNamedProcess draw the length of a program.     *)
DrawLength ==
  IF Span = 0 THEN stage' = "fault" /\ UNCHANGED length
  ELSE /\ UNCHANGED stage
       /\ \E r \in 0 .. RandMax : length' = config["min-ins"] + Remainder(r, Span)

CreateNamedProcess ==
  /\ stage = "running" /\ DrawLength
  /\ UNCHANGED <<file, read, config, name, ctx, cycle>>

(* GenerateProcessesCycle, while processes are generated.                   *)
Tick ==
  /\ stage = "running" /\ cycle < MaxCycle
  /\ cycle' = cycle + 1
  /\ IF config["batch-process-freq"] = 0 THEN stage' = "fault" /\ UNCHANGED length
     ELSE IF Remainder(cycle', config["batch-process-freq"]) = 0 THEN DrawLength
     ELSE UNCHANGED <<stage, length>>
  /\ UNCHANGED <<file, read, config, name, ctx>>

Next == Open \/ ReadLine \/ BuildConfig \/ CreateNamedProcess \/ Tick

Spec == Init /\ [][Next]_vars

-----------------------------------------------------------------------------
ConfigTypeOK ==
  /\ stage \in {"closed", "reading", "running", "fault"}
  /\ read \in 0 .. Len(file) /\ cycle \in 0 .. MaxCycle
  /\ config \in [NumberKeys -> -IntMax - 1 .. IntMax]
  /\ ctx.algo \in {"fcfs", "rr", "unknown"} /\ ctx.quantum \in Int
  /\ length \in Int

(* What a file says of a key: the value on the last line that has one.      *)
Given(key) == {i \in 1 .. Len(file) : file[i].key = key /\ file[i].value.kind # "nothing"}
Last(key) == file[CHOOSE i \in Given(key) : \A j \in Given(key) : j <= i].value
Says(key, range) == Given(key) # {} /\ Last(key).kind = "number" /\ Last(key).number \in range

(* The ranges that README.md gives for the keys, at this width of int.      *)
Documented ==
  /\ Says("num-cpu", 1 .. 128)
  /\ Given("scheduler") # {} /\ Last("scheduler").text \in {"fcfs", "rr"}
  /\ \A key \in {"quantum-cycles", "batch-process-freq", "min-ins", "max-ins"} :
       Says(key, 1 .. IntMax)
  /\ Last("min-ins").number <= Last("max-ins").number
  /\ Says("delay-per-exec", 0 .. IntMax)

(* A file within the documented ranges, in any order and with lines that    *)
(* contradict one another, gives a context that fits what Scheduler.tla     *)
(* assumes of its constants; an rr scheduler has a quantum.                 *)
DocumentedFilesFit ==
  Documented /\ stage = "running" =>
    /\ config["num-cpu"] \in 1 .. 128 /\ config["batch-process-freq"] > 0
    /\ config["delay-per-exec"] >= 0
    /\ ctx.algo = Last("scheduler").text
    /\ ctx.algo = "rr" => ctx.quantum = Last("quantum-cycles").number

(* Under such a file no tick and no screen -s divides by zero, and every    *)
(* program drawn has a length within the limits given.                      *)
LengthsWithinLimits ==
  Documented =>
    /\ stage # "fault"
    /\ length # -1 => length \in Last("min-ins").number .. Last("max-ins").number
=============================================================================

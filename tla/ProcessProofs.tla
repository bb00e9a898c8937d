---------------------------- MODULE ProcessProofs ----------------------------
(***************************************************************************)
(* Theorems about ProcessCycles and ProcessRun, for every program, however *)
(* deeply its loops are nested, and all widths of the integers.  First the *)
(* cycles, with plain statements: what the interpreter computes stays      *)
(* within 16 bits, only the target of a statement changes, and the log     *)
(* holds every failure.  Then the loops: unrolling leaves plain statements *)
(* that come to what the interpreter makes of the whole program.           *)
(***************************************************************************)
EXTENDS ProcessRun, WellFoundedInduction, TLAPS

Value16 == 0 .. Modulus - 1

(* The state of an interpreter whose variables are 16 bits wide.            *)
IsState(s) == \E m, lines : s = [memory |-> m, screen |-> lines]
Fits(m) == \A name \in DOMAIN m : m[name] \in Value16
IsInterpreter(s) == IsState(s) /\ Fits(s.memory)

(* Going from s to t, no variable disappears, and those of a name outside   *)
(* of `targets` are worth what they were worth.                             *)
Keeps(s, t, targets) ==
  /\ DOMAIN s.memory \subseteq DOMAIN t.memory
  /\ \A name \in DOMAIN t.memory \ targets : Worth(t.memory, name) = Worth(s.memory, name)

-----------------------------------------------------------------------------
(* The operators of the interpreter.                                        *)
LEMMA Uint16Fits == \A n \in Int : Uint16(n) \in Value16
BY WidthAssumption DEF Uint16, Value16

LEMMA Uint16Same == \A n \in 0 .. Modulus - 1 : Uint16(n) = n
BY WidthAssumption DEF Uint16

LEMMA ClampFits == \A n \in Int : Clamp(n) \in Value16
BY WidthAssumption, Uint16Fits DEF Clamp

LEMMA KeepsNothing ==
  ASSUME NEW s, NEW t, t.memory = s.memory, NEW targets
  PROVE  Keeps(s, t, targets)
BY DEF Keeps

LEMMA KeepsAll ==
  ASSUME NEW s, NEW t, NEW u, NEW targets, Keeps(s, t, {}), Keeps(t, u, targets)
  PROVE  Keeps(s, u, targets)
<1> SUFFICES ASSUME NEW name \in DOMAIN u.memory \ targets
             PROVE  Worth(u.memory, name) = Worth(s.memory, name)
  BY DEF Keeps
<1>1. Worth(u.memory, name) = Worth(t.memory, name)
  BY DEF Keeps
<1>2. CASE name \in DOMAIN t.memory
  BY <1>1, <1>2 DEF Keeps
<1>3. CASE name \notin DOMAIN t.memory
  BY <1>1, <1>3 DEF Keeps, Worth
<1> QED
  BY <1>2, <1>3

LEMMA SayKeeps ==
  ASSUME NEW s, IsInterpreter(s), NEW line
  PROVE  IsInterpreter(Say(s, line)) /\ Say(s, line).memory = s.memory
<1>1. PICK m, lines : s = [memory |-> m, screen |-> lines]
  BY DEF IsInterpreter, IsState
<1>2. Say(s, line) = [memory |-> m, screen |-> Append(lines, line)]
  BY <1>1 DEF Say
<1>3. IsState(Say(s, line))
  BY <1>2 DEF IsState
<1>4. s.memory = m /\ Say(s, line).memory = m
  BY <1>1, <1>2
<1> QED
  BY <1>3, <1>4 DEF IsInterpreter

LEMMA StoreKeeps ==
  ASSUME NEW s, IsInterpreter(s), NEW name, NEW n \in Value16
  PROVE  /\ IsInterpreter(Store(s, name, n))
         /\ Keeps(s, Store(s, name, n), {name})
         /\ DOMAIN Store(s, name, n).memory = DOMAIN s.memory \cup {name}
         /\ Worth(Store(s, name, n).memory, name) = n
<1>1. PICK m, lines : s = [memory |-> m, screen |-> lines]
  BY DEF IsInterpreter, IsState
<1>2. Store(s, name, n) =
        [memory |-> [v \in DOMAIN m \cup {name} |-> IF v = name THEN n ELSE m[v]],
         screen |-> lines]
  BY <1>1 DEF Store
<1>3. IsState(Store(s, name, n))
  BY <1>2 DEF IsState
<1>4. /\ s.memory = m
      /\ Store(s, name, n).memory = [v \in DOMAIN m \cup {name} |-> IF v = name THEN n ELSE m[v]]
  BY <1>1, <1>2
<1>5. Fits(Store(s, name, n).memory)
  BY <1>4 DEF IsInterpreter, Fits
<1>6. Keeps(s, Store(s, name, n), {name})
  BY <1>4 DEF Keeps, Worth
<1>7. Worth(Store(s, name, n).memory, name) = n
  BY <1>4 DEF Worth
<1> QED
  BY <1>3, <1>4, <1>5, <1>6, <1>7 DEF IsInterpreter

(* Reading an operand: the variable is there afterwards, and nothing else   *)
(* has become worth anything.                                               *)
LEMMA TouchKeeps ==
  ASSUME NEW s, IsInterpreter(s), NEW o
  PROVE  /\ IsInterpreter(Touch(s, o))
         /\ Keeps(s, Touch(s, o), {})
         /\ IsVariable(o) => o.text \in DOMAIN Touch(s, o).memory
<1>1. CASE IsVariable(o) /\ o.text \notin DOMAIN s.memory
  <2>1. PICK n \in Value16 : n = 0
    BY WidthAssumption DEF Value16
  <2>2. Touch(s, o) = Store(s, o.text, n)
    BY <1>1, <2>1 DEF Touch
  <2>3. /\ IsInterpreter(Store(s, o.text, n))
        /\ Keeps(s, Store(s, o.text, n), {o.text})
        /\ DOMAIN Store(s, o.text, n).memory = DOMAIN s.memory \cup {o.text}
        /\ Worth(Store(s, o.text, n).memory, o.text) = n
    BY StoreKeeps, Zenon
  <2> QED
    BY <1>1, <2>1, <2>2, <2>3 DEF Keeps, Worth
<1>2. CASE ~(IsVariable(o) /\ o.text \notin DOMAIN s.memory)
  BY <1>2, KeepsNothing DEF Touch
<1> QED
  BY <1>1, <1>2

LEMMA ResolveFits ==
  ASSUME NEW s, IsInterpreter(s), NEW o, o.value \in Int
  PROVE  Resolve(s, o) \in Value16
<1>1. CASE o.kind = "empty"
  BY <1>1, WidthAssumption DEF Resolve, Value16
<1>2. CASE o.kind = "unsigned"
  BY <1>2, Uint16Fits DEF Resolve
<1>3. CASE IsVariable(o)
  <2>1. Resolve(s, o) = Touch(s, o).memory[o.text]
    BY <1>3 DEF Resolve, IsVariable
  <2> QED
    BY <1>3, <2>1, TouchKeeps DEF IsInterpreter, Fits
<1> QED
  BY <1>1, <1>2, <1>3 DEF IsVariable

LEMMA TokenHasValue == \A o \in Tokens : o.value \in Int
BY DEF Tokens

-----------------------------------------------------------------------------
(* The statements.  Only the target takes a new value.                      *)
Targets(stmt) ==
  IF stmt.keyword \in {"DECLARE", "ADD", "SUBTRACT"} /\ ~Incomplete(stmt)
  THEN {stmt.args[1].text} ELSE {}

LEMMA PrintKeeps ==
  ASSUME NEW s, IsInterpreter(s), NEW stmt
  PROVE  IsInterpreter(ExecutePrint(s, stmt)) /\ Keeps(s, ExecutePrint(s, stmt), {})
<1>1. \A line : IsInterpreter(Say(s, line)) /\ Keeps(s, Say(s, line), {})
  BY SayKeeps, KeepsNothing
<1>2. IsInterpreter(s) /\ Keeps(s, s, {})
  BY KeepsNothing
<1>3. ASSUME NEW o, NEW line
      PROVE  /\ IsInterpreter(Say(Touch(s, o), line))
             /\ Keeps(s, Say(Touch(s, o), line), {})
  <2>1. IsInterpreter(Touch(s, o)) /\ Keeps(s, Touch(s, o), {})
    BY TouchKeeps
  <2>2. /\ IsInterpreter(Say(Touch(s, o), line))
        /\ Keeps(Touch(s, o), Say(Touch(s, o), line), {})
    BY <2>1, SayKeeps, KeepsNothing
  <2> QED
    BY <2>1, <2>2, KeepsAll
<1> QED
  BY <1>1, <1>2, <1>3 DEF ExecutePrint

LEMMA DeclareKeeps ==
  ASSUME NEW s, IsInterpreter(s), NEW stmt \in PlainStatements
  PROVE  /\ IsInterpreter(ExecuteDeclare(s, stmt))
         /\ Keeps(s, ExecuteDeclare(s, stmt), {stmt.args[1].text})
<1> DEFINE name == stmt.args[1].text
<1>1. CASE Len(stmt.args) < 2
  BY <1>1, KeepsNothing DEF ExecuteDeclare
<1>2. CASE Len(stmt.args) >= 2 /\ ~StolOK(stmt.args[2])
  BY <1>2, SayKeeps, KeepsNothing DEF ExecuteDeclare
<1>3. CASE Len(stmt.args) >= 2 /\ StolOK(stmt.args[2])
  <2>1. stmt.args[2] \in Tokens
    BY <1>3 DEF PlainStatements
  <2>2. PICK n \in Value16 : n = Clamp(stmt.args[2].value)
    BY <2>1, ClampFits DEF Tokens
  <2>3. ExecuteDeclare(s, stmt) = Store(s, name, n)
    BY <1>3, <2>2 DEF ExecuteDeclare
  <2>4. IsInterpreter(Store(s, name, n)) /\ Keeps(s, Store(s, name, n), {name})
    BY StoreKeeps, Zenon
  <2> QED
    BY <2>3, <2>4
<1> QED
  BY <1>1, <1>2, <1>3 DEF PlainStatements

LEMMA ArithmeticKeeps ==
  ASSUME NEW s, IsInterpreter(s), NEW stmt \in PlainStatements, NEW sign \in {1, -1}
  PROVE  /\ IsInterpreter(ExecuteArithmetic(s, stmt, sign))
         /\ Keeps(s, ExecuteArithmetic(s, stmt, sign), {stmt.args[1].text})
<1> DEFINE name == stmt.args[1].text
           a == stmt.args[2]
           b == stmt.args[3]
           touchedA == Touch(s, a)
           touched == Touch(touchedA, b)
           result == ExecuteArithmetic(s, stmt, sign)
<1>1. CASE Len(stmt.args) < 3
  <2>1. result = s
    BY <1>1 DEF ExecuteArithmetic
  <2> QED
    BY <2>1, KeepsNothing
<1>2. CASE Len(stmt.args) >= 3
  <2>1. a \in Tokens /\ b \in Tokens
    BY <1>2 DEF PlainStatements
  <2>2. IsInterpreter(touchedA) /\ Keeps(s, touchedA, {})
    BY TouchKeeps
  <2>3. IsInterpreter(touched) /\ Keeps(touchedA, touched, {})
    BY <2>2, TouchKeeps
  <2>4. Keeps(s, touched, {})
    BY <2>2, <2>3, KeepsAll
  <2>5. CASE ~ResolveOK(a)
    <3>1. result = Say(s, Error)
      BY <1>2, <2>5 DEF ExecuteArithmetic, PlainStatements
    <3> QED
      BY <3>1, SayKeeps, KeepsNothing
  <2>6. CASE ResolveOK(a) /\ ~ResolveOK(b)
    <3>1. result = Say(touchedA, Error)
      BY <1>2, <2>6 DEF ExecuteArithmetic, PlainStatements
    <3>2. IsInterpreter(Say(touchedA, Error)) /\ Keeps(touchedA, Say(touchedA, Error), {name})
      BY <2>2, SayKeeps, KeepsNothing
    <3>3. Keeps(s, Say(touchedA, Error), {name})
      BY <2>2, <3>2, KeepsAll
    <3> QED
      BY <3>1, <3>2, <3>3
  <2>7. CASE ResolveOK(a) /\ ResolveOK(b)
    <3>1. Resolve(s, a) + sign * Resolve(touched, b) \in Int
      BY <2>1, <2>3, TokenHasValue, ResolveFits, WidthAssumption DEF Value16
    <3>2. PICK n \in Value16 : n = Uint16(Resolve(s, a) + sign * Resolve(touched, b))
      BY <3>1, Uint16Fits
    <3>3. result = Store(touched, name, n)
      BY <1>2, <2>7, <3>2 DEF ExecuteArithmetic, PlainStatements
    <3>4. /\ IsInterpreter(Store(touched, name, n))
          /\ Keeps(touched, Store(touched, name, n), {name})
      BY <2>3, StoreKeeps, Zenon
    <3>5. Keeps(s, Store(touched, name, n), {name})
      BY <2>4, <3>4, KeepsAll
    <3> QED
      BY <3>3, <3>4, <3>5
  <2> QED
    BY <2>5, <2>6, <2>7
<1> QED
  BY <1>1, <1>2 DEF PlainStatements

(* Executing any plain statement.                                           *)
LEMMA PlainKeeps ==
  ASSUME NEW s, IsInterpreter(s), NEW stmt \in PlainStatements
  PROVE  /\ IsInterpreter(ExecutePlain(s, stmt))
         /\ Keeps(s, ExecutePlain(s, stmt), Targets(stmt))
<1> DEFINE result == ExecutePlain(s, stmt)
<1>0. /\ IsInterpreter(s) /\ Keeps(s, s, Targets(stmt))
      /\ \A line : IsInterpreter(Say(s, line)) /\ Keeps(s, Say(s, line), Targets(stmt))
  BY SayKeeps, KeepsNothing
<1>1. CASE stmt.keyword = "PRINT"
  <2>1. result = ExecutePrint(s, stmt) /\ Targets(stmt) = {}
    BY <1>1 DEF ExecutePlain, Targets
  <2> QED
    BY <2>1, PrintKeeps
<1>2. CASE stmt.keyword = "DECLARE"
  <2>1. result = ExecuteDeclare(s, stmt)
    BY <1>2 DEF ExecutePlain
  <2>2. CASE Incomplete(stmt)
    <3>1. result = s
      BY <1>2, <2>1, <2>2 DEF Incomplete, ExecuteDeclare
    <3> QED
      BY <1>0, <3>1
  <2>3. CASE ~Incomplete(stmt)
    <3>1. Targets(stmt) = {stmt.args[1].text}
      BY <1>2, <2>3 DEF Targets
    <3> QED
      BY <2>1, <3>1, DeclareKeeps
  <2> QED
    BY <2>2, <2>3
<1>3. CASE stmt.keyword \in {"ADD", "SUBTRACT"}
  <2>1. PICK sign \in {1, -1} : result = ExecuteArithmetic(s, stmt, sign)
    BY <1>3 DEF ExecutePlain
  <2>2. CASE Incomplete(stmt)
    <3>1. result = s
      BY <1>3, <2>1, <2>2 DEF Incomplete, ExecuteArithmetic
    <3> QED
      BY <1>0, <3>1
  <2>3. CASE ~Incomplete(stmt)
    <3>1. Targets(stmt) = {stmt.args[1].text}
      BY <1>3, <2>3 DEF Targets
    <3> QED
      BY <2>1, <3>1, ArithmeticKeeps
  <2> QED
    BY <2>2, <2>3
<1>4. CASE stmt.keyword = "SLEEP"
  <2>1. result = s \/ result = Say(s, Error)
    BY <1>4 DEF ExecutePlain, ExecuteSleep
  <2> QED
    BY <1>0, <2>1
<1>5. CASE stmt.keyword \in {"DBG", "UNKNOWN"}
  <2>1. \E line : result = Say(s, line)
    BY <1>5 DEF ExecutePlain, ExecuteDebug
  <2> QED
    BY <1>0, <2>1
<1> QED
  BY <1>1, <1>2, <1>3, <1>4, <1>5 DEF PlainStatements, Keywords

-----------------------------------------------------------------------------
LEMMA CyclesTypeInit == CyclesInit => CyclesTypeOK
<1> SUFFICES ASSUME CyclesInit PROVE CyclesTypeOK
  OBVIOUS
<1>1. DOMAIN memory = {}
  BY DEF CyclesInit, Fresh
<1> QED
  BY <1>1, WidthAssumption DEF CyclesInit, Fresh, CyclesTypeOK

(* A cycle that executes a statement with the interpreter.                  *)
LEMMA ExecuteKeeps ==
  ASSUME CyclesTypeOK, Execute
  PROVE  /\ statements[index + 1] \in PlainStatements
         /\ \A name \in DOMAIN memory' : memory'[name] \in Value16
         /\ DOMAIN memory \subseteq DOMAIN memory'
         /\ \A name \in DOMAIN memory' \ Targets(statements[index + 1]) :
              Worth(memory', name) = Worth(memory, name)
<1> DEFINE before == Blank(memory)
           stmt == statements[index + 1]
           after == ExecutePlain(before, stmt)
<1>1. stmt \in PlainStatements
  BY DEF CyclesTypeOK, Execute
<1>2. before.memory = memory /\ after.memory = memory'
  BY DEF Execute, Blank
<1>3. IsInterpreter(before)
  <2>1. IsState(before)
    BY DEF IsState, Blank
  <2> QED
    BY <2>1, <1>2 DEF IsInterpreter, Fits, CyclesTypeOK, Value16
<1> HIDE DEF before, after
<1>4. IsInterpreter(after) /\ Keeps(before, after, Targets(stmt))
  BY <1>1, <1>3, PlainKeeps DEF after
<1> QED
  BY <1>1, <1>2, <1>4 DEF IsInterpreter, Fits, Keeps

LEMMA CyclesTypeStep == CyclesTypeOK /\ [Cycle]_cycleVars => CyclesTypeOK'
<1> SUFFICES ASSUME CyclesTypeOK, [Cycle]_cycleVars PROVE CyclesTypeOK'
  OBVIOUS
<1> USE WidthAssumption DEF CyclesTypeOK
<1>1. CASE FinishAtOnce
  BY <1>1 DEF FinishAtOnce
<1>2. CASE Sleep
  <2>1. statements[index + 1] \in PlainStatements
    BY <1>2 DEF Sleep
  <2>2. SleepCycles(statements[index + 1]) \in -IntMax - 1 .. IntMax
    BY <2>1 DEF SleepCycles, StoiOK
  <2> QED
    BY <1>2, <2>2 DEF Sleep
<1>3. CASE Execute
  <2>1. \A name \in DOMAIN memory' : memory'[name] \in 0 .. Modulus - 1
    BY <1>3, ExecuteKeeps DEF Value16
  <2> QED
    BY <1>3, <2>1 DEF Execute
<1>4. CASE UpdateSleeping
  BY <1>4 DEF UpdateSleeping
<1>5. CASE UNCHANGED cycleVars
  BY <1>5 DEF cycleVars
<1> QED
  BY <1>1, <1>2, <1>3, <1>4, <1>5 DEF Cycle

(* Whatever a program declares, adds, subtracts or reads, in any order and  *)
(* with any operands, its variables stay within 16 bits; and a process      *)
(* never goes beyond its last statement.                                    *)
THEOREM VariablesFit == CyclesSpec => []CyclesTypeOK
BY CyclesTypeInit, CyclesTypeStep, PTL DEF CyclesSpec

(* Reading has no effect that a program can observe: only the targets of    *)
(* DECLARE, ADD and SUBTRACT change.                                        *)
THEOREM OnlyTargetsChange == CyclesSpec => ReadsLeaveValues
<1>1. CyclesTypeOK /\ [Cycle]_cycleVars => [TargetsOnly]_cycleVars
  <2> SUFFICES ASSUME CyclesTypeOK, Cycle PROVE TargetsOnly
    OBVIOUS
  <2>1. CASE UNCHANGED memory
    BY <2>1 DEF TargetsOnly
  <2>2. CASE Execute
    BY <2>2, ExecuteKeeps DEF Targets, TargetsOnly
  <2> QED
    BY <2>1, <2>2 DEF Cycle, FinishAtOnce, Sleep, UpdateSleeping
<1> QED
  BY <1>1, VariablesFit, PTL DEF CyclesSpec, ReadsLeaveValues

-----------------------------------------------------------------------------
(* What a statement says.  One that cannot be executed says so, and one     *)
(* that can be executed says nothing else.                                  *)
Failures == {Warning, Error}

LEMMA SaysNoFailure ==
  /\ \A text, number : Printed(text, number) \notin Failures
  /\ \A m : <<"dump", m>> \notin Failures
  /\ \A stmt : Slept(stmt) \notin Failures
<1>1. Warning[1] = "warning" /\ Error[1] = "error"
  BY DEF Warning, Error
<1>2. \A text, number : Printed(text, number)[1] = "printed"
  BY DEF Printed
<1>3. \A m : <<"dump", m>>[1] = "dump"
  OBVIOUS
<1>4. \A stmt : Slept(stmt)[1] = "slept"
  BY DEF Slept
<1> QED
  BY <1>1, <1>2, <1>3, <1>4 DEF Failures

(* At most one line, which is a failure if and only if the statement fails. *)
Says(s, t, fails) ==
  \/ ~fails /\ t.screen = s.screen
  \/ \E line : t.screen = Append(s.screen, line) /\ (line \in Failures <=> fails)

LEMMA SaySays ==
  ASSUME NEW s, IsInterpreter(s), NEW line
  PROVE  Say(s, line).screen = Append(s.screen, line)
<1>1. PICK m, lines : s = [memory |-> m, screen |-> lines]
  BY DEF IsInterpreter, IsState
<1>2. Say(s, line) = [memory |-> m, screen |-> Append(lines, line)]
  BY <1>1 DEF Say
<1> QED
  BY <1>1, <1>2

LEMMA StoreSaysNothing ==
  ASSUME NEW s, IsInterpreter(s), NEW name, NEW n
  PROVE  Store(s, name, n).screen = s.screen
<1>1. PICK m, lines : s = [memory |-> m, screen |-> lines]
  BY DEF IsInterpreter, IsState
<1>2. Store(s, name, n) =
        [memory |-> [v \in DOMAIN m \cup {name} |-> IF v = name THEN n ELSE m[v]],
         screen |-> lines]
  BY <1>1 DEF Store
<1> QED
  BY <1>1, <1>2

LEMMA TouchSaysNothing ==
  ASSUME NEW s, IsInterpreter(s), NEW o
  PROVE  Touch(s, o).screen = s.screen
BY StoreSaysNothing DEF Touch

LEMMA ErrorIsFailure == Error \in Failures /\ Warning \in Failures
BY DEF Failures

LEMMA PlainSays ==
  ASSUME NEW s, IsInterpreter(s), NEW stmt \in PlainStatements, stmt.keyword # "SLEEP"
  PROVE  Says(s, ExecutePlain(s, stmt), Fails(stmt))
<1> DEFINE result == ExecutePlain(s, stmt)
<1>1. CASE stmt.keyword = "PRINT"
  <2>1. result = ExecutePrint(s, stmt)
    BY <1>1 DEF ExecutePlain
  <2> DEFINE o == PrintOperand(stmt.args)
             text == PrintText(stmt.args)
  <2>2. Fails(stmt) <=> stmt.args # <<>> /\ PrintsNumber(stmt.args) /\ ~ResolveOK(o)
    BY <1>1 DEF Fails, Incomplete
  <2> HIDE DEF o, text
  <2>3. CASE stmt.args = <<>>
    BY <2>1, <2>2, <2>3 DEF ExecutePrint, Says
  <2>4. CASE stmt.args # <<>> /\ ~PrintsNumber(stmt.args)
    <3>1. result = Say(s, Printed(text, <<>>))
      BY <2>1, <2>4 DEF ExecutePrint, text
    <3>2. Printed(text, <<>>) \notin Failures
      BY SaysNoFailure
    <3> QED
      BY <2>2, <2>4, <3>1, <3>2, SaySays DEF Says
  <2>5. CASE stmt.args # <<>> /\ PrintsNumber(stmt.args) /\ ~ResolveOK(o)
    <3>1. result = Say(s, Error)
      BY <2>1, <2>5 DEF ExecutePrint, o
    <3> QED
      BY <2>2, <2>5, <3>1, SaySays, ErrorIsFailure DEF Says
  <2>6. CASE stmt.args # <<>> /\ PrintsNumber(stmt.args) /\ ResolveOK(o)
    <3> DEFINE line == Printed(text, <<Resolve(s, o)>>)
    <3>1. result = Say(Touch(s, o), line)
      BY <2>1, <2>6 DEF ExecutePrint, o, text
    <3>2. line \notin Failures
      BY SaysNoFailure
    <3>3. IsInterpreter(Touch(s, o)) /\ Touch(s, o).screen = s.screen
      BY TouchKeeps, TouchSaysNothing
    <3> HIDE DEF line
    <3>4. result.screen = Append(s.screen, line)
      BY <3>1, <3>3, SaySays
    <3> QED
      BY <2>2, <2>6, <3>2, <3>4 DEF Says
  <2> QED
    BY <2>3, <2>4, <2>5, <2>6
<1>2. CASE stmt.keyword = "DECLARE"
  <2>1. result = ExecuteDeclare(s, stmt)
    BY <1>2 DEF ExecutePlain
  <2>2. Fails(stmt) <=> ~(Len(stmt.args) < 2) /\ ~StolOK(stmt.args[2])
    BY <1>2 DEF Fails, Incomplete
  <2>3. Len(stmt.args) \in Nat
    BY DEF PlainStatements
  <2> QED
    BY <2>1, <2>2, <2>3, SaySays, StoreSaysNothing, ErrorIsFailure DEF ExecuteDeclare, Says
<1>3. CASE stmt.keyword \in {"ADD", "SUBTRACT"}
  <2> DEFINE a == stmt.args[2]
             b == stmt.args[3]
             touchedA == Touch(s, a)
             touched == Touch(touchedA, b)
  <2>1. PICK sign : result = ExecuteArithmetic(s, stmt, sign)
    BY <1>3 DEF ExecutePlain
  <2>2. Fails(stmt) <=> ~(Len(stmt.args) < 3) /\ ~(ResolveOK(a) /\ ResolveOK(b))
    BY <1>3 DEF Fails, Incomplete
  <2>3. Len(stmt.args) \in Nat
    BY DEF PlainStatements
  <2>4. /\ IsInterpreter(touchedA) /\ touchedA.screen = s.screen
        /\ IsInterpreter(touched) /\ touched.screen = s.screen
    BY TouchKeeps, TouchSaysNothing
  <2>5. CASE Len(stmt.args) < 3
    BY <2>1, <2>2, <2>3, <2>5 DEF ExecuteArithmetic, Says
  <2>6. CASE Len(stmt.args) >= 3 /\ ~ResolveOK(a)
    BY <2>1, <2>2, <2>3, <2>6, SaySays, ErrorIsFailure DEF ExecuteArithmetic, Says
  <2>7. CASE Len(stmt.args) >= 3 /\ ResolveOK(a) /\ ~ResolveOK(b)
    <3>1. result = Say(touchedA, Error)
      BY <2>1, <2>3, <2>7 DEF ExecuteArithmetic
    <3>2. result.screen = Append(s.screen, Error)
      BY <2>4, <3>1, SaySays
    <3> QED
      BY <2>2, <2>7, <3>2, ErrorIsFailure DEF Says
  <2>8. CASE Len(stmt.args) >= 3 /\ ResolveOK(a) /\ ResolveOK(b)
    <3>1. result = Store(touched, stmt.args[1].text,
                         Uint16(Resolve(s, a) + sign * Resolve(touched, b)))
      BY <2>1, <2>3, <2>8 DEF ExecuteArithmetic
    <3>2. result.screen = s.screen
      BY <2>4, <3>1, StoreSaysNothing
    <3> QED
      BY <2>2, <2>8, <3>2 DEF Says
  <2> QED
    BY <2>3, <2>5, <2>6, <2>7, <2>8
<1>4. CASE stmt.keyword = "DBG"
  <2>1. result = Say(s, <<"dump", s.memory>>) /\ ~Fails(stmt)
    BY <1>4 DEF ExecutePlain, ExecuteDebug, Fails
  <2> QED
    BY <2>1, SaySays, SaysNoFailure DEF Says
<1>5. CASE stmt.keyword = "UNKNOWN"
  <2>1. result = Say(s, Warning) /\ Fails(stmt)
    BY <1>5 DEF ExecutePlain, Fails, Incomplete
  <2> QED
    BY <2>1, SaySays, ErrorIsFailure DEF Says
<1> QED
  BY <1>1, <1>2, <1>3, <1>4, <1>5 DEF PlainStatements, Keywords

-----------------------------------------------------------------------------
(* The log grows by what the statements say.                                *)
LogInv == FailuresAreLogged /\ \E Texts : logs \in Seq(Texts)

Failed == \E k \in 1 .. Len(logs) : logs[k] \in Failures
Faulty == \E i \in 1 .. index : Fails(statements[i])

LEMMA FaultyNext ==
  ASSUME CyclesTypeOK, index < Len(statements), index' = index + 1, UNCHANGED statements
  PROVE  Faulty' <=> Faulty \/ Fails(statements[index + 1])
BY DEF Faulty, CyclesTypeOK

LEMMA FailedSame ==
  ASSUME UNCHANGED logs
  PROVE  (Failed' <=> Failed) /\ ((\E Texts : logs \in Seq(Texts)) => \E Texts : logs' \in Seq(Texts))
BY DEF Failed

LEMMA FailedNext ==
  ASSUME NEW Texts, logs \in Seq(Texts), NEW line, logs' = Append(logs, line)
  PROVE  /\ Failed' <=> Failed \/ line \in Failures
         /\ \E More : logs' \in Seq(More)
<1>1. logs \in Seq(Texts \cup {line})
  OBVIOUS
<1>2. /\ logs' \in Seq(Texts \cup {line}) /\ Len(logs') = Len(logs) + 1 /\ Len(logs) \in Nat
      /\ \A k \in 1 .. Len(logs) : logs'[k] = logs[k]
      /\ logs'[Len(logs) + 1] = line
  BY <1>1
<1>3. Failed' <=> Failed \/ line \in Failures
  BY <1>2 DEF Failed
<1> QED
  BY <1>2, <1>3

LEMMA LogInit == CyclesInit => LogInv
<1> SUFFICES ASSUME CyclesInit PROVE LogInv
  OBVIOUS
<1>1. Len(logs) = 0 /\ logs \in Seq({}) /\ index = 0
  BY DEF CyclesInit, Fresh
<1> QED
  BY <1>1 DEF LogInv, FailuresAreLogged

LEMMA LogStep == CyclesTypeOK /\ LogInv /\ [Cycle]_cycleVars => LogInv'
<1> SUFFICES ASSUME CyclesTypeOK, LogInv, [Cycle]_cycleVars PROVE LogInv'
  OBVIOUS
<1>0. LogInv <=> (Failed <=> Faulty) /\ \E Texts : logs \in Seq(Texts)
  BY DEF LogInv, FailuresAreLogged, Failed, Faulty, Failures
<1>1. PICK Texts : logs \in Seq(Texts)
  BY <1>0
<1>2. CASE UNCHANGED <<statements, index, logs>>
  BY <1>2 DEF LogInv, FailuresAreLogged
<1>3. CASE Sleep
  <2>1. logs' = Append(logs, Slept(statements[index + 1])) /\ ~Fails(statements[index + 1])
    BY <1>3 DEF Sleep, Fails
  <2>2. Failed' <=> Failed
    BY <1>1, <2>1, FailedNext, SaysNoFailure
  <2>3. Faulty' <=> Faulty
    BY <1>3, <2>1, FaultyNext DEF Sleep
  <2>4. \E More : logs' \in Seq(More)
    BY <1>1, <2>1, FailedNext
  <2> QED
    BY <1>0, <2>2, <2>3, <2>4 DEF LogInv, FailuresAreLogged, Failed, Faulty, Failures
<1>4. CASE Execute
  <2> DEFINE before == Blank(memory)
             stmt == statements[index + 1]
             after == ExecutePlain(before, stmt)
  <2>1. stmt \in PlainStatements /\ stmt.keyword # "SLEEP"
    BY <1>4 DEF Execute, CyclesTypeOK
  <2>2. IsInterpreter(before)
    <3>1. IsState(before) /\ before.memory = memory
      BY DEF IsState, Blank
    <3> QED
      BY <3>1 DEF IsInterpreter, Fits, CyclesTypeOK, Value16
  <2>3. before.screen = <<>> /\ logs' = logs \o after.screen
    BY <1>4 DEF Execute, Blank
  <2> HIDE DEF before, after
  <2>4. Says(before, after, Fails(stmt))
    BY <2>1, <2>2, PlainSays DEF after
  <2>5. Faulty' <=> Faulty \/ Fails(stmt)
    BY <1>4, FaultyNext DEF Execute
  <2>6. CASE ~Fails(stmt) /\ after.screen = before.screen
    <3>1. logs' = logs
      BY <1>1, <2>3, <2>6
    <3> QED
      BY <1>0, <2>5, <2>6, <3>1, FailedSame DEF LogInv, FailuresAreLogged, Failed, Faulty, Failures
  <2>7. ASSUME NEW line, after.screen = Append(before.screen, line),
               line \in Failures <=> Fails(stmt)
        PROVE  LogInv'
    <3>1. after.screen = <<line>>
      BY <2>3, <2>7
    <3>2. logs' = Append(logs, line)
      BY <1>1, <2>3, <3>1
    <3>3. (Failed' <=> Failed \/ line \in Failures) /\ \E More : logs' \in Seq(More)
      BY <1>1, <3>2, FailedNext
    <3> QED
      BY <1>0, <2>5, <2>7, <3>3 DEF LogInv, FailuresAreLogged, Failed, Faulty, Failures
  <2> QED
    BY <2>4, <2>6, <2>7 DEF Says
<1> QED
  BY <1>2, <1>3, <1>4 DEF Cycle, FinishAtOnce, UpdateSleeping, cycleVars

(* A warning or an error in the log is the fault of the text of a statement *)
(* that was executed, never of the values it met or of what ran before it;  *)
(* and every such statement leaves one.                                     *)
THEOREM FailuresLogged == CyclesSpec => []FailuresAreLogged
<1>1. LogInv => FailuresAreLogged
  BY DEF LogInv
<1> QED
  BY <1>1, LogInit, LogStep, VariablesFit, PTL DEF CyclesSpec

-----------------------------------------------------------------------------
(* Induction.  A set with zero and all successors holds every number, one   *)
(* with the empty sequence and all extensions every sequence, and one with  *)
(* every statement whose nested statements are in it every statement.       *)
LEMMA NatSet ==
  ASSUME NEW S, 0 \in S, \A n \in Nat : n \in S => n + 1 \in S
  PROVE  Nat \subseteq S
<1> SUFFICES ASSUME Nat \ S # {} PROVE FALSE
  OBVIOUS
<1>1. IsWellFoundedOn(OpToRel(<, Nat), Nat)
  BY NatLessThanWellFounded
<1>2. PICK x \in Nat \ S : \A y \in Nat \ S : <<y, x>> \notin OpToRel(<, Nat)
  BY <1>1, WFMin, Nat \ S \subseteq Nat
<1>3. \A y \in Nat : y < x => y \in S
  BY <1>2 DEF OpToRel
<1>4. x # 0
  OBVIOUS
<1>5. x - 1 \in Nat /\ x - 1 < x
  BY <1>4
<1> QED
  BY <1>3, <1>5

LEMMA SeqSet ==
  ASSUME NEW T, NEW S, <<>> \in S, \A seq \in Seq(T) : seq \in S => \A e \in T : Append(seq, e) \in S
  PROVE  Seq(T) \subseteq S
<1> DEFINE Lengths == {n \in Nat : \A seq \in Seq(T) : Len(seq) = n => seq \in S}
<1>1. 0 \in Lengths
  <2>1. \A seq \in Seq(T) : Len(seq) = 0 => seq = <<>>
    OBVIOUS
  <2> QED
    BY <2>1
<1>2. ASSUME NEW n \in Nat, n \in Lengths
      PROVE  n + 1 \in Lengths
  <2> SUFFICES ASSUME NEW seq \in Seq(T), Len(seq) = n + 1
               PROVE  seq \in S
    OBVIOUS
  <2> DEFINE front == SubSeq(seq, 1, n)
  <2>1. front \in Seq(T) /\ Len(front) = n
    BY <1>2
  <2>2. front \in S
    BY <1>2, <2>1
  <2>3. seq[n + 1] \in T
    BY <1>2
  <2>4. seq = Append(front, seq[n + 1])
    BY <1>2
  <2> QED
    BY <2>1, <2>2, <2>3, <2>4
<1> HIDE DEF Lengths
<1>3. Nat \subseteq Lengths
  BY <1>1, <1>2, NatSet
<1> SUFFICES ASSUME NEW seq \in Seq(T) PROVE seq \in S
  OBVIOUS
<1>4. Len(seq) \in Nat
  OBVIOUS
<1>5. Len(seq) \in Lengths
  BY <1>3, <1>4
<1> QED
  BY <1>5 DEF Lengths

(* What the scans of a text find lies in it.                                *)
LEMMA EndsExist ==
  ASSUME NEW n \in Nat, NEW S \in SUBSET (1 .. n), S # {}
  PROVE  Min(S) \in S /\ Max(S) \in S
<1> DEFINE Bounded(T) == /\ \E x \in T : \A y \in T : x =< y
                         /\ \E x \in T : \A y \in T : x >= y
           Good == {k \in Nat : \A T \in SUBSET (1 .. k) : T # {} => Bounded(T)}
<1>1. 0 \in Good
  <2>1. \A T \in SUBSET (1 .. 0) : T = {}
    OBVIOUS
  <2> HIDE DEF Bounded
  <2> QED
    BY <2>1
<1>2. ASSUME NEW k \in Nat, k \in Good
      PROVE  k + 1 \in Good
  <2> SUFFICES ASSUME NEW T \in SUBSET (1 .. k + 1), T # {}
               PROVE  Bounded(T)
    <3> HIDE DEF Bounded
    <3> QED
      OBVIOUS
  <2> DEFINE less == T \ {k + 1}
  <2>1. less \in SUBSET (1 .. k)
    OBVIOUS
  <2>2. CASE less = {}
    <3>1. T = {k + 1}
      BY <2>2
    <3> QED
      BY <3>1
  <2>3. CASE less # {}
    <3>1. Bounded(less)
      BY <1>2, <2>1, <2>3
    <3>2. PICK low \in less : \A y \in less : low =< y
      BY <3>1
    <3>3. PICK high \in less : \A y \in less : high >= y
      BY <3>1
    <3>4. \A y \in T : low =< y
      BY <3>2
    <3>5. \E x \in T : \A y \in T : x >= y
      <4>1. CASE k + 1 \in T
        BY <4>1
      <4>2. CASE k + 1 \notin T
        BY <4>2, <3>3
      <4> QED
        BY <4>1, <4>2
    <3> QED
      BY <3>2, <3>4, <3>5
  <2> QED
    BY <2>2, <2>3
<1> HIDE DEF Good
<1>3. n \in Good
  BY <1>1, <1>2, NatSet
<1>4. Bounded(S)
  BY <1>3 DEF Good
<1> QED
  BY <1>4 DEF Min, Max

LEMMA FindIs ==
  ASSUME NEW T, NEW text \in Seq(T), NEW token
  PROVE  /\ Find(text, token) \in Nat
         /\ Find(text, token) = 0 <=> \A i \in 1 .. Len(text) : text[i] # token
<1> DEFINE found == {i \in 1 .. Len(text) : text[i] = token}
<1>1. Find(text, token) = IF found # {} THEN Min(found) ELSE 0
  BY DEF Find, FindFrom, SelectInSubSeq
<1>2. found # {} => Min(found) \in found
  <2>1. Len(text) \in Nat /\ found \in SUBSET (1 .. Len(text))
    OBVIOUS
  <2> HIDE DEF found
  <2> QED
    BY <2>1, EndsExist
<1>3. CASE found = {}
  <2>1. Find(text, token) = 0
    BY <1>1, <1>3
  <2> QED
    BY <1>3, <2>1
<1>4. CASE found # {}
  <2>1. Find(text, token) \in found
    BY <1>1, <1>2, <1>4
  <2> QED
    BY <2>1
<1> QED
  BY <1>3, <1>4

LEMMA TrimIsSeq ==
  ASSUME NEW T, NEW text \in Seq(T)
  PROVE  Trim(text) \in Seq(T)
<1> DEFINE solid == {i \in DOMAIN text : text[i] # Space}
<1>1. solid \in SUBSET (1 .. Len(text))
  OBVIOUS
<1>2. CASE solid = {}
  BY <1>2 DEF Trim
<1>3. CASE solid # {}
  <2>1. Min(solid) \in 1 .. Len(text) /\ Max(solid) \in 1 .. Len(text)
    <3>1. Len(text) \in Nat
      OBVIOUS
    <3> HIDE DEF solid
    <3>2. Min(solid) \in solid /\ Max(solid) \in solid
      BY <1>1, <1>3, <3>1, EndsExist
    <3> QED
      BY <1>1, <3>2
  <2>2. Trim(text) = SubSeq(text, Min(solid), Max(solid))
    BY <1>3 DEF Trim
  <2> HIDE DEF solid
  <2> QED
    BY <2>1, <2>2
<1> QED
  BY <1>2, <1>3

(* What a PRINT takes for its number is an operand like any other.          *)
LEMMA OperandHasValue ==
  ASSUME NEW text \in Seq(Tokens)
  PROVE  Operand(text).value \in Int
<1>1. CASE text = <<>>
  BY <1>1 DEF Operand, Empty
<1>2. CASE text # <<>>
  <2>1. text[1] \in Tokens
    BY <1>2
  <2>2. Operand(text).value = text[1].value
    BY <1>2, <2>1 DEF Operand, Tokens
  <2> QED
    BY <2>1, <2>2, TokenHasValue
<1> QED
  BY <1>1, <1>2

LEMMA PrintOperandHasValue ==
  ASSUME NEW text \in Seq(Tokens)
  PROVE  PrintOperand(text).value \in Int
<1> DEFINE plus == Find(text, Plus)
           rest == SubSeq(text, plus + 1, Len(text))
<1>1. plus \in Nat
  BY FindIs
<1>2. Between(text, plus, 0) = Trim(rest)
  BY <1>1 DEF Between
<1>3. rest \in Seq(Tokens)
  BY <1>1
<1>4. Between(text, plus, 0) \in Seq(Tokens)
  BY <1>2, <1>3, TrimIsSeq
<1>5. PrintOperand(text) = Operand(IF plus = 0 THEN text ELSE Between(text, plus, 0))
  BY DEF PrintOperand
<1> QED
  BY <1>4, <1>5, OperandHasValue

LEMMA NestingIsNat == \A stmt \in Nodes : Nesting[stmt] \in Nat
BY NodesAssumption

LEMMA NodeSet ==
  ASSUME NEW S,
         \A stmt \in Nodes :
           (\A part \in Nodes : Nesting[part] < Nesting[stmt] => part \in S) => stmt \in S
  PROVE  Nodes \subseteq S
<1> DEFINE Levels == {n \in Nat : \A stmt \in Nodes : Nesting[stmt] < n => stmt \in S}
<1>1. 0 \in Levels
  BY NestingIsNat
<1>2. ASSUME NEW n \in Nat, n \in Levels
      PROVE  n + 1 \in Levels
  <2> SUFFICES ASSUME NEW stmt \in Nodes, Nesting[stmt] < n + 1
               PROVE  stmt \in S
    OBVIOUS
  <2>1. \A part \in Nodes : Nesting[part] < Nesting[stmt] => Nesting[part] < n
    BY NestingIsNat
  <2>2. \A part \in Nodes : Nesting[part] < Nesting[stmt] => part \in S
    BY <1>2, <2>1
  <2> QED
    BY <2>2
<1> HIDE DEF Levels
<1>3. Nat \subseteq Levels
  BY <1>1, <1>2, NatSet
<1> SUFFICES ASSUME NEW stmt \in Nodes PROVE stmt \in S
  OBVIOUS
<1>4. Nesting[stmt] + 1 \in Levels
  BY <1>3, NestingIsNat
<1> QED
  BY <1>4, NestingIsNat DEF Levels

-----------------------------------------------------------------------------
(* Recursion along a sequence: it defines one function, of the right type.  *)
Recurs(f, n, S, c, g) ==
  f \in [0 .. n -> S] /\ f[0] = c /\ \A i \in 1 .. n : f[i] = g[i][f[i - 1]]

LEMMA Recursion ==
  ASSUME NEW n \in Nat, NEW S, NEW c \in S, NEW g \in [1 .. n -> [S -> S]]
  PROVE  \E f : Recurs(f, n, S, c, g)
<1> DEFINE Reached == {k \in Nat : k <= n =>
             \E f \in [0 .. k -> S] : f[0] = c /\ \A i \in 1 .. k : f[i] = g[i][f[i - 1]]}
<1>1. 0 \in Reached
  <2> DEFINE f == [i \in 0 .. 0 |-> c]
  <2>1. f \in [0 .. 0 -> S] /\ f[0] = c /\ \A i \in 1 .. 0 : f[i] = g[i][f[i - 1]]
    OBVIOUS
  <2> HIDE DEF f
  <2> QED
    BY <2>1
<1>2. ASSUME NEW k \in Nat, k \in Reached
      PROVE  k + 1 \in Reached
  <2> SUFFICES ASSUME k + 1 <= n
               PROVE  \E f \in [0 .. k + 1 -> S] :
                        f[0] = c /\ \A i \in 1 .. k + 1 : f[i] = g[i][f[i - 1]]
    OBVIOUS
  <2>1. PICK f \in [0 .. k -> S] : f[0] = c /\ \A i \in 1 .. k : f[i] = g[i][f[i - 1]]
    BY <1>2
  <2> DEFINE next == g[k + 1][f[k]]
             h == [i \in 0 .. k + 1 |-> IF i = k + 1 THEN next ELSE f[i]]
  <2>2. next \in S
    <3>1. g[k + 1] \in [S -> S] /\ f[k] \in S
      BY <2>1
    <3> QED
      BY <3>1
  <2> HIDE DEF next
  <2>3. h \in [0 .. k + 1 -> S] /\ h[0] = c
    BY <2>1, <2>2
  <2>4. ASSUME NEW i \in 1 .. k + 1 PROVE h[i] = g[i][h[i - 1]]
    <3>1. CASE i = k + 1
      <4>1. h[i] = next /\ h[i - 1] = f[k]
        BY <3>1
      <4> QED
        BY <3>1, <4>1 DEF next
    <3>2. CASE i # k + 1
      <4>1. h[i] = f[i] /\ h[i - 1] = f[i - 1] /\ i \in 1 .. k
        BY <3>2
      <4> QED
        BY <2>1, <4>1
    <3> QED
      BY <3>1, <3>2
  <2> HIDE DEF h
  <2> QED
    BY <2>3, <2>4
<1> HIDE DEF Reached
<1>3. Nat \subseteq Reached
  BY <1>1, <1>2, NatSet
<1> QED
  BY <1>3 DEF Reached, Recurs

Agree(f, h, n) ==
  f[0] = h[0] /\ \A i \in 1 .. n : f[i - 1] = h[i - 1] => f[i] = h[i]

LEMMA SameUpTo ==
  ASSUME NEW n \in Nat, NEW f, NEW h, Agree(f, h, n)
  PROVE  f[n] = h[n]
<1> DEFINE Same == {k \in Nat : k <= n => f[k] = h[k]}
<1>1. 0 \in Same
  BY DEF Agree
<1>2. ASSUME NEW k \in Nat, k \in Same
      PROVE  k + 1 \in Same
  <2>1. k + 1 <= n => k + 1 \in 1 .. n /\ (k + 1) - 1 = k /\ f[k] = h[k]
    BY <1>2
  <2> QED
    BY <2>1 DEF Agree
<1> HIDE DEF Same
<1>3. Nat \subseteq Same
  BY <1>1, <1>2, NatSet
<1> QED
  BY <1>3 DEF Same

-----------------------------------------------------------------------------
(* FlattenSeq, from the front.                                              *)
FlattensTo(f, seqs, T) ==
  /\ f \in [0 .. Len(seqs) -> Seq(T)] /\ f[0] = <<>>
  /\ \A i \in 1 .. Len(seqs) : f[i] = f[i - 1] \o seqs[i]
  /\ FlattenSeq(seqs) = f[Len(seqs)]

LEMMA FlattenParts ==
  ASSUME NEW T, NEW seqs \in Seq(Seq(T))
  PROVE  \E f : FlattensTo(f, seqs, T)
<1> DEFINE n == Len(seqs)
           g == [i \in 1 .. n |-> [s \in Seq(T) |-> s \o seqs[i]]]
<1>1. n \in Nat /\ g \in [1 .. n -> [Seq(T) -> Seq(T)]] /\ <<>> \in Seq(T)
  OBVIOUS
<1> HIDE DEF n, g
<1>2. PICK f : Recurs(f, n, Seq(T), <<>>, g)
  BY <1>1, Recursion
<1>3. f \in [0 .. n -> Seq(T)] /\ f[0] = <<>>
  BY <1>2 DEF Recurs
<1>4. ASSUME NEW i \in 1 .. n
      PROVE  f[i] = f[i - 1] \o seqs[i] /\ seqs[i] \in Seq(T)
  <2>1. f[i - 1] \in Seq(T)
    BY <1>1, <1>3
  <2>2. f[i] = g[i][f[i - 1]]
    BY <1>2 DEF Recurs
  <2>3. \A s \in Seq(T) : g[i][s] = s \o seqs[i]
    BY DEF g
  <2>4. seqs[i] \in Seq(T)
    BY DEF n
  <2> QED
    BY <2>1, <2>2, <2>3, <2>4
<1>5. CASE n = 0
  <2>1. seqs = <<>> /\ FlattenSeq(seqs) = seqs
    BY <1>5 DEF FlattenSeq, n
  <2> QED
    BY <1>3, <1>4, <1>5, <2>1 DEF FlattensTo, n
<1>6. CASE n # 0
  <2> DEFINE IsFlatten(h) == h = [i \in 1 .. n |-> IF i = 1 THEN seqs[i] ELSE h[i - 1] \o seqs[i]]
             w == [i \in 1 .. n |-> f[i]]
             chosen == CHOOSE h : IsFlatten(h)
             shifted == [i \in 0 .. n |-> IF i = 0 THEN <<>> ELSE chosen[i]]
  <2>1. ASSUME NEW i \in 1 .. n
        PROVE  f[i] = IF i = 1 THEN seqs[i] ELSE f[i - 1] \o seqs[i]
    <3>1. f[i] = f[i - 1] \o seqs[i] /\ seqs[i] \in Seq(T)
      BY <1>4
    <3>2. i = 1 => f[i - 1] = <<>>
      BY <1>3
    <3>3. \A s \in Seq(T) : <<>> \o s = s
      OBVIOUS
    <3> QED
      BY <3>1, <3>2, <3>3
  <2>2. IsFlatten(w)
    <3>1. \A i \in 1 .. n : i # 1 => w[i - 1] = f[i - 1]
      BY <1>1
    <3> QED
      BY <2>1, <3>1
  <2> HIDE DEF w
  <2>3. IsFlatten(chosen)
    <3> HIDE DEF IsFlatten
    <3> QED
      BY <2>2
  <2>4. FlattenSeq(seqs) = chosen[n]
    BY <1>6 DEF FlattenSeq, n
  <2> HIDE DEF chosen
  <2>5. \A i \in 1 .. n : chosen[i] = IF i = 1 THEN seqs[i] ELSE chosen[i - 1] \o seqs[i]
    BY <2>3
  <2>6. ASSUME NEW i \in 1 .. n, shifted[i - 1] = f[i - 1]
        PROVE  shifted[i] = f[i]
    <3>1. shifted[i] = chosen[i]
      BY <1>1
    <3>2. i # 1 => shifted[i - 1] = chosen[i - 1]
      BY <1>1
    <3> HIDE DEF shifted
    <3> QED
      BY <2>1, <2>5, <2>6, <3>1, <3>2
  <2>7. shifted[0] = f[0] /\ shifted[n] = chosen[n]
    BY <1>1, <1>3, <1>6
  <2> HIDE DEF shifted
  <2>8. Agree(shifted, f, n)
    BY <2>6, <2>7 DEF Agree
  <2>9. shifted[n] = f[n]
    BY <1>1, <2>8, SameUpTo
  <2> QED
    BY <1>3, <1>4, <2>4, <2>7, <2>9 DEF FlattensTo, n
<1> QED
  BY <1>5, <1>6

LEMMA FlattenNone == FlattenSeq(<<>>) = <<>>
BY DEF FlattenSeq

LEMMA FlattenIsSeq ==
  ASSUME NEW T, NEW seqs \in Seq(Seq(T))
  PROVE  FlattenSeq(seqs) \in Seq(T)
<1>1. PICK f : FlattensTo(f, seqs, T)
  BY FlattenParts
<1>2. Len(seqs) \in 0 .. Len(seqs)
  OBVIOUS
<1> QED
  BY <1>1, <1>2 DEF FlattensTo

LEMMA FlattenMore ==
  ASSUME NEW T, NEW seqs \in Seq(Seq(T)), NEW s \in Seq(T)
  PROVE  FlattenSeq(Append(seqs, s)) = FlattenSeq(seqs) \o s
<1> DEFINE n == Len(seqs)
           more == Append(seqs, s)
<1>1. n \in Nat /\ more \in Seq(Seq(T)) /\ Len(more) = n + 1
  OBVIOUS
<1>2. more[n + 1] = s /\ \A i \in 1 .. n : more[i] = seqs[i]
  OBVIOUS
<1> HIDE DEF n, more
<1>3. PICK f : FlattensTo(f, seqs, T)
  BY FlattenParts
<1>4. PICK h : FlattensTo(h, more, T)
  BY <1>1, FlattenParts
<1>5. /\ f[0] = <<>> /\ FlattenSeq(seqs) = f[n]
      /\ \A i \in 1 .. n : f[i] = f[i - 1] \o seqs[i]
  BY <1>3 DEF FlattensTo, n
<1>6. /\ h[0] = <<>> /\ FlattenSeq(more) = h[n + 1]
      /\ \A i \in 1 .. n + 1 : h[i] = h[i - 1] \o more[i]
  BY <1>1, <1>4 DEF FlattensTo
<1>7. n + 1 \in 1 .. n + 1 /\ (n + 1) - 1 = n /\ 1 .. n \subseteq 1 .. n + 1
  BY <1>1
<1>8. Agree(f, h, n)
  BY <1>2, <1>5, <1>6, <1>7 DEF Agree
<1>9. f[n] = h[n]
  BY <1>1, <1>8, SameUpTo
<1> QED
  BY <1>2, <1>5, <1>6, <1>7, <1>9 DEF more

-----------------------------------------------------------------------------
(* Recursion on the statements nested in a statement: what is defined of a  *)
(* statement from what is defined of those nested in it, is defined of all. *)
Below(stmt) == {part \in Nodes : Nesting[part] < Nesting[stmt]}

LEMMA NodeParts ==
  ASSUME NEW stmt \in Nodes
  PROVE  /\ stmt.nested \in Seq(Below(stmt)) /\ stmt.nested \in Seq(Nodes)
         /\ stmt.args \in Seq(Tokens)
         /\ stmt.keyword # "FOR" => stmt \in PlainStatements /\ stmt.nested = <<>>
<1>1. stmt \in PlainStatements \cup Loops
  BY NodesAssumption
<1>2. \A i \in DOMAIN stmt.nested : Nesting[stmt.nested[i]] < Nesting[stmt]
  BY NodesAssumption
<1>3. CASE stmt \in PlainStatements
  <2>1. stmt.nested = <<>> /\ stmt.args \in Seq(Tokens)
    BY <1>3 DEF PlainStatements
  <2>2. <<>> \in Seq(Below(stmt)) /\ <<>> \in Seq(Nodes)
    OBVIOUS
  <2> QED
    BY <1>3, <2>1, <2>2
<1>4. CASE stmt \in Loops
  <2>1. stmt.nested \in Seq(Nodes) /\ stmt.args \in Seq(Tokens) /\ stmt.keyword = "FOR"
    BY <1>4 DEF Loops
  <2>2. \A i \in 1 .. Len(stmt.nested) : stmt.nested[i] \in Below(stmt)
    BY <1>2, <2>1 DEF Below
  <2>3. stmt.nested \in Seq(Below(stmt))
    BY <2>1, <2>2
  <2> QED
    BY <2>1, <2>3
<1> QED
  BY <1>1, <1>3, <1>4

SameBelow(f, h, stmt) == \A part \in Below(stmt) : f[part] = h[part]

LEMMA EachSame ==
  ASSUME NEW S, NEW f, NEW h, \A e \in S : f[e] = h[e], NEW seq \in Seq(S)
  PROVE  Each(f, seq) = Each(h, seq)
<1>1. \A i \in DOMAIN seq : f[seq[i]] = h[seq[i]]
  OBVIOUS
<1> QED
  BY <1>1 DEF Each

LEMMA EachIsSeq ==
  ASSUME NEW S, NEW Y, NEW f, NEW seq \in Seq(S), \A e \in S : f[e] \in Y
  PROVE  Each(f, seq) \in Seq(Y) /\ Len(Each(f, seq)) = Len(seq)
<1>1. Each(f, seq) = [i \in 1 .. Len(seq) |-> f[seq[i]]] /\ Len(seq) \in Nat
  BY DEF Each
<1> QED
  BY <1>1

IsLocal(G, Y) ==
  \A stmt \in Nodes : \A f, h \in [Nodes -> Y] :
    SameBelow(f, h, stmt) => G[stmt][f] = G[stmt][h]

RecursBelow(f, n, G, Y) ==
  /\ f \in [Nodes -> Y]
  /\ \A stmt \in Nodes : Nesting[stmt] < n => f[stmt] = G[stmt][f]

LEMMA BelowUnique ==
  ASSUME NEW Y, NEW G, IsLocal(G, Y), NEW n \in Nat, NEW m \in Nat,
         NEW f, RecursBelow(f, n, G, Y), NEW h, RecursBelow(h, m, G, Y)
  PROVE  \A stmt \in Nodes : Nesting[stmt] < n /\ Nesting[stmt] < m => f[stmt] = h[stmt]
<1> DEFINE Same == {stmt \in Nodes : Nesting[stmt] < n /\ Nesting[stmt] < m => f[stmt] = h[stmt]}
<1>1. ASSUME NEW stmt \in Nodes,
             \A part \in Nodes : Nesting[part] < Nesting[stmt] => part \in Same
      PROVE  stmt \in Same
  <2> SUFFICES ASSUME Nesting[stmt] < n, Nesting[stmt] < m PROVE f[stmt] = h[stmt]
    OBVIOUS
  <2>1. SameBelow(f, h, stmt)
    <3> SUFFICES ASSUME NEW part \in Nodes, Nesting[part] < Nesting[stmt]
                 PROVE  f[part] = h[part]
      BY DEF SameBelow, Below
    <3>1. Nesting[part] < n /\ Nesting[part] < m
      BY NestingIsNat
    <3> QED
      BY <1>1, <3>1
  <2>2. G[stmt][f] = G[stmt][h]
    BY <2>1 DEF IsLocal, RecursBelow
  <2> QED
    BY <2>2 DEF RecursBelow
<1> HIDE DEF Same
<1>2. Nodes \subseteq Same
  BY <1>1, NodeSet
<1> QED
  BY <1>2 DEF Same

LEMMA BelowExists ==
  ASSUME NEW Y, NEW c \in Y, NEW G \in [Nodes -> [[Nodes -> Y] -> Y]], IsLocal(G, Y)
  PROVE  \A n \in Nat : \E f : RecursBelow(f, n, G, Y)
<1> DEFINE Reached == {n \in Nat : \E f : RecursBelow(f, n, G, Y)}
<1>1. 0 \in Reached
  <2> DEFINE f == [stmt \in Nodes |-> c]
  <2>1. f \in [Nodes -> Y]
    OBVIOUS
  <2> HIDE DEF f
  <2>2. RecursBelow(f, 0, G, Y)
    BY <2>1, NestingIsNat DEF RecursBelow
  <2> QED
    BY <2>2
<1>2. ASSUME NEW n \in Nat, n \in Reached
      PROVE  n + 1 \in Reached
  <2>1. PICK f : RecursBelow(f, n, G, Y)
    BY <1>2
  <2>2. f \in [Nodes -> Y]
    BY <2>1 DEF RecursBelow
  <2> DEFINE h == [stmt \in Nodes |-> G[stmt][f]]
  <2>3. h \in [Nodes -> Y]
    <3>1. \A stmt \in Nodes : G[stmt][f] \in Y
      BY <2>2
    <3> QED
      BY <3>1
  <2>4. ASSUME NEW stmt \in Nodes, Nesting[stmt] < n + 1
        PROVE  h[stmt] = G[stmt][h]
    <3>1. SameBelow(f, h, stmt)
      <4> SUFFICES ASSUME NEW part \in Nodes, Nesting[part] < Nesting[stmt]
                   PROVE  f[part] = h[part]
        BY DEF SameBelow, Below
      <4>1. Nesting[part] < n
        BY <2>4, NestingIsNat
      <4> QED
        BY <2>1, <4>1 DEF RecursBelow
    <3>2. G[stmt][f] = G[stmt][h]
      <4> HIDE DEF h
      <4> QED
        BY <2>2, <2>3, <3>1 DEF IsLocal
    <3>3. h[stmt] = G[stmt][f]
      OBVIOUS
    <3> QED
      BY <3>2, <3>3
  <2> HIDE DEF h
  <2>5. RecursBelow(h, n + 1, G, Y)
    BY <2>3, <2>4 DEF RecursBelow
  <2> QED
    BY <2>5
<1> HIDE DEF Reached
<1>3. Nat \subseteq Reached
  BY <1>1, <1>2, NatSet
<1> QED
  BY <1>3 DEF Reached

RecursEverywhere(F, G, Y) ==
  F \in [Nodes -> Y] /\ \A stmt \in Nodes : F[stmt] = G[stmt][F]

LEMMA TreeRecursion ==
  ASSUME NEW Y, NEW c \in Y, NEW G \in [Nodes -> [[Nodes -> Y] -> Y]], IsLocal(G, Y)
  PROVE  \E F : RecursEverywhere(F, G, Y)
<1> DEFINE Approx(n) == CHOOSE f : RecursBelow(f, n, G, Y)
           level(stmt) == Nesting[stmt] + 1
           F == [stmt \in Nodes |-> Approx(level(stmt))[stmt]]
<1>1. \A n \in Nat : RecursBelow(Approx(n), n, G, Y)
  BY BelowExists
<1>2. \A stmt \in Nodes : level(stmt) \in Nat /\ Nesting[stmt] < level(stmt)
  BY NestingIsNat
<1> HIDE DEF Approx
<1>3. \A stmt \in Nodes : Approx(level(stmt)) \in [Nodes -> Y]
  <2> HIDE DEF level
  <2> QED
    BY <1>1, <1>2 DEF RecursBelow
<1>4. F \in [Nodes -> Y]
  BY <1>3
<1>5. ASSUME NEW stmt \in Nodes
      PROVE  F[stmt] = G[stmt][F]
  <2> DEFINE f == Approx(level(stmt))
  <2>1. F[stmt] = f[stmt]
    OBVIOUS
  <2>2. RecursBelow(f, level(stmt), G, Y)
    BY <1>1, <1>2
  <2>3. SameBelow(f, F, stmt)
    <3> SUFFICES ASSUME NEW part \in Nodes, Nesting[part] < Nesting[stmt]
                 PROVE  f[part] = F[part]
      BY DEF SameBelow, Below
    <3>1. Nesting[part] < level(stmt)
      BY NestingIsNat
    <3>2. F[part] = Approx(level(part))[part]
      OBVIOUS
    <3>3. RecursBelow(Approx(level(part)), level(part), G, Y)
      BY <1>1, <1>2
    <3> HIDE DEF level, F, f
    <3> QED
      BY <1>2, <2>2, <3>1, <3>2, <3>3, BelowUnique
  <2> HIDE DEF F, f
  <2>4. f[stmt] = G[stmt][f]
    BY <1>2, <2>2 DEF RecursBelow
  <2>5. G[stmt][f] = G[stmt][F]
    BY <1>4, <2>2, <2>3 DEF IsLocal, RecursBelow
  <2> QED
    BY <2>1, <2>4, <2>5
<1> HIDE DEF F
<1> QED
  BY <1>4, <1>5 DEF RecursEverywhere

-----------------------------------------------------------------------------
(* AddInstruction: what it appends are the plain statements of the loop.    *)
LEMMA TimesIsSeq ==
  ASSUME NEW T, NEW n \in Int, NEW seq \in Seq(T)
  PROVE  Times(n, seq) \in Seq(T)
<1> DEFINE copies == [i \in 1 .. n |-> seq]
<1>1. copies \in Seq(Seq(T))
  <2>1. CASE n >= 0
    BY <2>1
  <2>2. CASE n < 0
    <3>1. 1 .. n = 1 .. 0
      BY <2>2
    <3>2. copies = [i \in 1 .. 0 |-> seq]
      BY <3>1
    <3> QED
      BY <3>2
  <2> QED
    BY <2>1, <2>2
<1> HIDE DEF copies
<1>2. FlattenSeq(copies) \in Seq(T)
  BY <1>1, FlattenIsSeq
<1> QED
  BY <1>2 DEF Times, copies

LEMMA RepeatsIsInt ==
  ASSUME NEW stmt \in Nodes
  PROVE  Repeats(stmt) \in Int
<1>1. stmt.args \in Seq(Tokens)
  BY NodeParts
<1>2. Len(stmt.args) >= 2 => stmt.args[2] \in Tokens
  BY <1>1
<1>3. \A o \in Tokens : o.value \in Int
  BY DEF Tokens
<1> QED
  BY <1>2, <1>3 DEF Repeats

LEMMA AddInstructionTyped ==
  ASSUME NEW stmt \in Nodes, NEW S, NEW T, stmt.nested \in Seq(S), stmt \in T,
         NEW f, \A e \in S : f[e] \in Seq(T)
  PROVE  AddInstruction(f, stmt) \in Seq(T)
<1> DEFINE body == Times(Repeats(stmt), stmt.nested)
<1>1. body \in Seq(S)
  BY RepeatsIsInt, TimesIsSeq
<1> HIDE DEF body
<1>2. Each(f, body) \in Seq(Seq(T))
  BY <1>1, EachIsSeq
<1>3. FlattenSeq(Each(f, body)) \in Seq(T)
  BY <1>2, FlattenIsSeq
<1> QED
  BY <1>3 DEF AddInstruction, body

LEMMA AddInstructionLocal ==
  ASSUME NEW stmt \in Nodes, NEW f, NEW h, SameBelow(f, h, stmt)
  PROVE  AddInstruction(f, stmt) = AddInstruction(h, stmt)
<1> DEFINE body == Times(Repeats(stmt), stmt.nested)
<1>1. body \in Seq(Below(stmt))
  BY NodeParts, RepeatsIsInt, TimesIsSeq
<1> HIDE DEF body
<1>2. Each(f, body) = Each(h, body)
  BY <1>1, EachSame DEF SameBelow
<1> QED
  BY <1>2 DEF AddInstruction, body

LEMMA UnrolledIs == \A stmt \in Nodes : Unrolled[stmt] = AddInstruction(Unrolled, stmt)
<1> DEFINE Y == Seq(Nodes)
           G == [stmt \in Nodes |-> [f \in [Nodes -> Y] |-> AddInstruction(f, stmt)]]
<1>1. \A stmt \in Nodes : \A f \in [Nodes -> Y] : AddInstruction(f, stmt) \in Y
  <2> SUFFICES ASSUME NEW stmt \in Nodes, NEW f \in [Nodes -> Y]
               PROVE  AddInstruction(f, stmt) \in Seq(Nodes)
    OBVIOUS
  <2>1. stmt.nested \in Seq(Nodes)
    BY NodeParts
  <2>2. \A e \in Nodes : f[e] \in Seq(Nodes)
    OBVIOUS
  <2> QED
    BY <2>1, <2>2, AddInstructionTyped
<1>2. <<>> \in Y
  OBVIOUS
<1> HIDE DEF Y
<1>3. G \in [Nodes -> [[Nodes -> Y] -> Y]]
  BY <1>1
<1>4. \A stmt \in Nodes : \A f \in [Nodes -> Y] : G[stmt][f] = AddInstruction(f, stmt)
  OBVIOUS
<1> HIDE DEF G
<1>5. IsLocal(G, Y)
  BY <1>4, AddInstructionLocal DEF IsLocal
<1>6. PICK F : RecursEverywhere(F, G, Y)
  BY <1>2, <1>3, <1>5, TreeRecursion
<1>7. F = [stmt \in Nodes |-> AddInstruction(F, stmt)]
  BY <1>4, <1>6 DEF RecursEverywhere
<1>8. Unrolled = [stmt \in Nodes |-> AddInstruction(Unrolled, stmt)]
  BY <1>7 DEF Unrolled
<1> QED
  BY <1>8

(* A set of statements with all that are nested in them.                    *)
Hereditary(H) == H \subseteq Nodes /\ \A stmt \in H : stmt.nested \in Seq(H)

PlainOf(H) == {stmt \in H : stmt.keyword # "FOR"}

LEMMA NodesHereditary == Hereditary(Nodes)
BY NodeParts DEF Hereditary

LEMMA UnrolledIn ==
  ASSUME NEW H, Hereditary(H)
  PROVE  \A stmt \in H : Unrolled[stmt] \in Seq(PlainOf(H))
<1> DEFINE Done == {stmt \in Nodes : stmt \in H => Unrolled[stmt] \in Seq(PlainOf(H))}
<1>1. ASSUME NEW stmt \in Nodes,
             \A part \in Nodes : Nesting[part] < Nesting[stmt] => part \in Done
      PROVE  stmt \in Done
  <2> SUFFICES ASSUME stmt \in H PROVE Unrolled[stmt] \in Seq(PlainOf(H))
    OBVIOUS
  <2>1. CASE stmt.keyword # "FOR"
    <3>1. Unrolled[stmt] = <<stmt>>
      BY <2>1, UnrolledIs DEF AddInstruction
    <3>2. stmt \in PlainOf(H)
      BY <2>1 DEF PlainOf
    <3> QED
      BY <3>1, <3>2
  <2>2. CASE stmt.keyword = "FOR"
    <3> DEFINE S == H \cap Below(stmt)
               body == Times(Repeats(stmt), stmt.nested)
    <3>1. stmt.nested \in Seq(S)
      <4>1. stmt.nested \in Seq(H) /\ stmt.nested \in Seq(Below(stmt))
        BY NodeParts DEF Hereditary
      <4> QED
        BY <4>1
    <3>2. \A part \in S : Unrolled[part] \in Seq(PlainOf(H))
      BY <1>1 DEF Below
    <3> HIDE DEF S
    <3>3. body \in Seq(S)
      BY <3>1, RepeatsIsInt, TimesIsSeq
    <3> HIDE DEF body
    <3>4. Each(Unrolled, body) \in Seq(Seq(PlainOf(H)))
      BY <3>2, <3>3, EachIsSeq
    <3>5. FlattenSeq(Each(Unrolled, body)) \in Seq(PlainOf(H))
      BY <3>4, FlattenIsSeq
    <3> QED
      BY <2>2, <3>5, UnrolledIs DEF AddInstruction, body
  <2> QED
    BY <2>1, <2>2
<1> HIDE DEF Done
<1>2. Nodes \subseteq Done
  BY <1>1, NodeSet
<1> QED
  BY <1>2 DEF Done, Hereditary

LEMMA UnrollIn ==
  ASSUME NEW H, Hereditary(H), NEW program \in Seq(H)
  PROVE  Unroll(program) \in Seq(PlainOf(H))
<1>1. Each(Unrolled, program) \in Seq(Seq(PlainOf(H)))
  BY UnrolledIn, EachIsSeq
<1> QED
  BY <1>1, FlattenIsSeq DEF Unroll

-----------------------------------------------------------------------------
(* What a plain statement of a program leaves: variables with names that    *)
(* occur in the program, and lines of log.                                  *)
Lines ==
  {Printed(PrintText(stmt.args), <<>>) : stmt \in Nodes}
    \cup {Printed(PrintText(stmt.args), <<n>>) : stmt \in Nodes, n \in Value16}
    \cup {Warning, Error} \cup {<<"dump", m>> : m \in Memories}

Outcomes == [memory : Memories, screen : Seq(Lines)]

LEMMA NoMemory == <<>> \in Memories
<1>1. <<>> \in [{} -> 0 .. Modulus - 1] /\ {} \in SUBSET Names
  OBVIOUS
<1> QED
  BY <1>1 DEF Memories

LEMMA BlankOutcome == \A m \in Memories : Blank(m) \in Outcomes
BY DEF Blank, Outcomes

LEMMA SayOutcome ==
  ASSUME NEW s \in Outcomes, NEW line \in Lines
  PROVE  Say(s, line) \in Outcomes
<1>1. s.memory \in Memories /\ s.screen \in Seq(Lines)
  BY DEF Outcomes
<1>2. Say(s, line) = [memory |-> s.memory, screen |-> Append(s.screen, line)]
  <2>1. s = [memory |-> s.memory, screen |-> s.screen]
    BY DEF Outcomes
  <2> QED
    BY <2>1 DEF Say
<1>3. Append(s.screen, line) \in Seq(Lines)
  BY <1>1
<1> QED
  BY <1>1, <1>2, <1>3 DEF Outcomes

LEMMA StoreOutcome ==
  ASSUME NEW s \in Outcomes, NEW name \in Names, NEW n \in Value16
  PROVE  Store(s, name, n) \in Outcomes
<1>1. PICK known \in SUBSET Names : s.memory \in [known -> Value16]
  BY DEF Outcomes, Memories, Value16
<1> DEFINE m == [v \in known \cup {name} |-> IF v = name THEN n ELSE s.memory[v]]
<1>2. Store(s, name, n) = [memory |-> m, screen |-> s.screen]
  BY <1>1 DEF Store, Outcomes
<1>3. m \in [known \cup {name} -> Value16] /\ known \cup {name} \in SUBSET Names
  BY <1>1
<1> HIDE DEF m
<1>4. m \in Memories
  BY <1>3 DEF Memories, Value16
<1> QED
  BY <1>2, <1>4 DEF Outcomes

LEMMA ZeroFits == 0 \in Value16
BY WidthAssumption DEF Value16

LEMMA TouchOutcome ==
  ASSUME NEW s \in Outcomes, NEW o, IsVariable(o) => o.text \in Names
  PROVE  Touch(s, o) \in Outcomes
BY StoreOutcome, ZeroFits DEF Touch

LEMMA OutcomeIsInterpreter ==
  ASSUME NEW s \in Outcomes
  PROVE  IsInterpreter(s)
<1>1. s = [memory |-> s.memory, screen |-> s.screen]
  BY DEF Outcomes
<1>2. IsState(s)
  BY <1>1 DEF IsState
<1>3. PICK known \in SUBSET Names : s.memory \in [known -> Value16]
  BY DEF Outcomes, Memories, Value16
<1>4. Fits(s.memory)
  BY <1>3 DEF Fits
<1> QED
  BY <1>2, <1>4 DEF IsInterpreter

LEMMA NamesOfNode ==
  ASSUME NEW stmt \in Nodes, stmt.keyword # "PRINT", NEW i \in DOMAIN stmt.args,
         IsVariable(stmt.args[i]) \/ (i = 1 /\ stmt.keyword \in {"DECLARE", "ADD", "SUBTRACT"})
  PROVE  stmt.args[i].text \in Names
<1>1. stmt.args[i].text \in NamesIn(stmt)
  BY DEF NamesIn, OperandsOf
<1> QED
  BY <1>1 DEF Names

LEMMA NameOfPrint ==
  ASSUME NEW stmt \in Nodes, stmt.keyword = "PRINT", PrintsNumber(stmt.args),
         IsVariable(PrintOperand(stmt.args))
  PROVE  PrintOperand(stmt.args).text \in Names
<1> DEFINE o == PrintOperand(stmt.args)
<1>1. OperandsOf(stmt) = <<o>>
  BY DEF OperandsOf
<1> HIDE DEF o
<1>2. 1 \in DOMAIN OperandsOf(stmt) /\ OperandsOf(stmt)[1] = o
  BY <1>1
<1>3. o.text \in NamesIn(stmt)
  BY <1>2 DEF NamesIn, o
<1> QED
  BY <1>3 DEF Names, o

LEMMA PrintOutcome ==
  ASSUME NEW stmt \in Nodes, stmt.keyword = "PRINT", NEW s \in Outcomes
  PROVE  ExecutePrint(s, stmt) \in Outcomes
<1> DEFINE text == PrintText(stmt.args)
           o == PrintOperand(stmt.args)
           line == Printed(text, <<Resolve(s, o)>>)
<1>1. stmt.args \in Seq(Tokens)
  BY NodeParts
<1>2. Printed(text, <<>>) \in Lines /\ Error \in Lines
  BY DEF Lines
<1>3. Resolve(s, o) \in Value16
  BY <1>1, PrintOperandHasValue, OutcomeIsInterpreter, ResolveFits
<1>4. line \in Lines
  BY <1>3 DEF Lines
<1>5. PrintsNumber(stmt.args) => Touch(s, o) \in Outcomes
  BY NameOfPrint, TouchOutcome
<1> HIDE DEF text, o, line
<1>6. \/ ExecutePrint(s, stmt) = s
      \/ ExecutePrint(s, stmt) = Say(s, Printed(text, <<>>))
      \/ ExecutePrint(s, stmt) = Say(s, Error)
      \/ PrintsNumber(stmt.args) /\ ExecutePrint(s, stmt) = Say(Touch(s, o), line)
  BY DEF ExecutePrint, text, o, line
<1> QED
  BY <1>2, <1>4, <1>5, <1>6, SayOutcome

LEMMA DeclareOutcome ==
  ASSUME NEW stmt \in PlainStatements \cap Nodes, stmt.keyword = "DECLARE", NEW s \in Outcomes
  PROVE  ExecuteDeclare(s, stmt) \in Outcomes
<1>1. stmt.args \in Seq(Tokens) /\ Error \in Lines
  BY DEF PlainStatements, Lines
<1>2. CASE Len(stmt.args) < 2
  BY <1>2 DEF ExecuteDeclare
<1>3. CASE ~(Len(stmt.args) < 2)
  <2>1. 1 \in DOMAIN stmt.args /\ stmt.args[2] \in Tokens
    BY <1>1, <1>3
  <2>2. Clamp(stmt.args[2].value) \in Value16
    BY <2>1, ClampFits DEF Tokens
  <2>3. stmt.args[1].text \in Names
    BY <2>1, NamesOfNode
  <2>4. \/ ExecuteDeclare(s, stmt) = Say(s, Error)
        \/ ExecuteDeclare(s, stmt) = Store(s, stmt.args[1].text, Clamp(stmt.args[2].value))
    BY <1>3 DEF ExecuteDeclare
  <2> QED
    BY <1>1, <2>2, <2>3, <2>4, SayOutcome, StoreOutcome
<1> QED
  BY <1>2, <1>3

LEMMA ArithmeticOutcome ==
  ASSUME NEW stmt \in PlainStatements \cap Nodes, stmt.keyword \in {"ADD", "SUBTRACT"},
         NEW s \in Outcomes, NEW sign \in {1, -1}
  PROVE  ExecuteArithmetic(s, stmt, sign) \in Outcomes
<1>1. stmt.args \in Seq(Tokens) /\ Error \in Lines
  BY DEF PlainStatements, Lines
<1>2. CASE Len(stmt.args) < 3
  BY <1>2 DEF ExecuteArithmetic
<1>3. CASE ~(Len(stmt.args) < 3)
  <2> DEFINE a == stmt.args[2]
             b == stmt.args[3]
             touchedA == Touch(s, a)
             touched == Touch(touchedA, b)
             sum == Resolve(s, a) + sign * Resolve(touched, b)
  <2>1. 1 \in DOMAIN stmt.args /\ 2 \in DOMAIN stmt.args /\ 3 \in DOMAIN stmt.args
    BY <1>1, <1>3
  <2>2. a \in Tokens /\ b \in Tokens
    BY <1>1, <1>3
  <2>3. stmt.args[1].text \in Names
    BY <2>1, NamesOfNode
  <2>4. touchedA \in Outcomes
    BY <2>1, NamesOfNode, TouchOutcome
  <2>5. touched \in Outcomes
    BY <2>1, <2>4, NamesOfNode, TouchOutcome
  <2>6. Resolve(s, a) \in Value16 /\ Resolve(touched, b) \in Value16
    BY <2>2, <2>5, OutcomeIsInterpreter, TokenHasValue, ResolveFits
  <2>7. sum \in Int
    BY <2>6, WidthAssumption DEF Value16
  <2> HIDE DEF sum
  <2>8. Uint16(sum) \in Value16
    BY <2>7, Uint16Fits
  <2>9. \/ ExecuteArithmetic(s, stmt, sign) = Say(s, Error)
        \/ ExecuteArithmetic(s, stmt, sign) = Say(touchedA, Error)
        \/ ExecuteArithmetic(s, stmt, sign) = Store(touched, stmt.args[1].text, Uint16(sum))
    BY <1>3 DEF ExecuteArithmetic, sum
  <2> QED
    BY <1>1, <2>3, <2>4, <2>5, <2>8, <2>9, SayOutcome, StoreOutcome
<1> QED
  BY <1>2, <1>3

LEMMA PlainOutcome ==
  ASSUME NEW stmt \in Nodes, stmt.keyword # "FOR", NEW s \in Outcomes
  PROVE  ExecutePlain(s, stmt) \in Outcomes
<1> DEFINE result == ExecutePlain(s, stmt)
<1>0. stmt \in PlainStatements \cap Nodes /\ stmt.keyword \in Keywords \ {"FOR"}
  BY NodeParts DEF PlainStatements
<1>1. CASE stmt.keyword = "PRINT"
  <2>1. result = ExecutePrint(s, stmt)
    BY <1>1 DEF ExecutePlain
  <2> QED
    BY <1>0, <1>1, <2>1, PrintOutcome
<1>2. CASE stmt.keyword = "DECLARE"
  <2>1. result = ExecuteDeclare(s, stmt)
    BY <1>2 DEF ExecutePlain
  <2> QED
    BY <1>0, <1>2, <2>1, DeclareOutcome
<1>3. CASE stmt.keyword \in {"ADD", "SUBTRACT"}
  <2>1. PICK sign \in {1, -1} : result = ExecuteArithmetic(s, stmt, sign)
    BY <1>3 DEF ExecutePlain
  <2> QED
    BY <1>0, <1>3, <2>1, ArithmeticOutcome
<1>4. CASE stmt.keyword \in {"SLEEP", "DBG", "UNKNOWN"}
  <2>1. s.memory \in Memories
    BY DEF Outcomes
  <2>2. Error \in Lines /\ Warning \in Lines /\ <<"dump", s.memory>> \in Lines
    BY <2>1 DEF Lines
  <2>3. result = s \/ \E line \in Lines : result = Say(s, line)
    BY <1>4, <2>2 DEF ExecutePlain, ExecuteSleep, ExecuteDebug
  <2> QED
    BY <2>3, SayOutcome
<1> QED
  BY <1>0, <1>1, <1>2, <1>3, <1>4 DEF Keywords

-----------------------------------------------------------------------------
(* executeStatements, from the front.                                       *)
Effects == [Memories -> Outcomes]

LEMMA ThenOutcome ==
  ASSUME NEW s \in Outcomes, NEW effect \in Effects
  PROVE  /\ Then(s, effect) \in Outcomes
         /\ Then(s, effect).memory = effect[s.memory].memory
         /\ Then(s, effect).screen = s.screen \o effect[s.memory].screen
<1>1. s.memory \in Memories /\ s.screen \in Seq(Lines)
  BY DEF Outcomes
<1>2. effect[s.memory] \in Outcomes
  BY <1>1 DEF Effects
<1>3. effect[s.memory].memory \in Memories /\ effect[s.memory].screen \in Seq(Lines)
  BY <1>2 DEF Outcomes
<1>4. s.screen \o effect[s.memory].screen \in Seq(Lines)
  BY <1>1, <1>3
<1> QED
  BY <1>3, <1>4 DEF Then, Outcomes

RunsTo(after, effects, m) ==
  /\ after \in [0 .. Len(effects) -> Outcomes] /\ after[0] = Blank(m)
  /\ \A i \in 1 .. Len(effects) : after[i] = Then(after[i - 1], effects[i])
  /\ ExecuteStatements(effects, m) = after[Len(effects)]

LEMMA RunExists ==
  ASSUME NEW effects \in Seq(Effects), NEW m \in Memories
  PROVE  \E after : RunsTo(after, effects, m)
<1> DEFINE n == Len(effects)
           g == [i \in 1 .. n |-> [s \in Outcomes |-> Then(s, effects[i])]]
<1>1. n \in Nat /\ \A i \in 1 .. n : effects[i] \in Effects
  OBVIOUS
<1> HIDE DEF n
<1>2. \A i \in 1 .. n : \A s \in Outcomes : Then(s, effects[i]) \in Outcomes
  BY <1>1, ThenOutcome
<1>3. g \in [1 .. n -> [Outcomes -> Outcomes]]
  BY <1>2
<1>4. \A i \in 1 .. n : \A s \in Outcomes : g[i][s] = Then(s, effects[i])
  OBVIOUS
<1>5. Blank(m) \in Outcomes
  BY BlankOutcome
<1> HIDE DEF g
<1>6. PICK f : Recurs(f, n, Outcomes, Blank(m), g)
  BY <1>1, <1>3, <1>5, Recursion
<1>7. f \in [0 .. n -> Outcomes] /\ f[0] = Blank(m)
  BY <1>6 DEF Recurs
<1>8. ASSUME NEW i \in 1 .. n
      PROVE  f[i] = Then(f[i - 1], effects[i])
  <2>1. f[i - 1] \in Outcomes
    BY <1>1, <1>7
  <2>2. f[i] = g[i][f[i - 1]]
    BY <1>6 DEF Recurs
  <2> QED
    BY <1>4, <2>1, <2>2
<1> DEFINE IsAfter(h) ==
             h = [i \in 0 .. n |-> IF i = 0 THEN Blank(m) ELSE Then(h[i - 1], effects[i])]
           chosen == CHOOSE h : IsAfter(h)
<1>9. IsAfter(f)
  <2>1. \A i \in 0 .. n : i # 0 => i \in 1 .. n
    BY <1>1
  <2>2. \A i \in 0 .. n : f[i] = IF i = 0 THEN Blank(m) ELSE Then(f[i - 1], effects[i])
    BY <1>7, <1>8, <2>1
  <2> QED
    BY <1>7, <2>2
<1>10. IsAfter(chosen)
  <2> HIDE DEF IsAfter
  <2> QED
    BY <1>9
<1>11. ExecuteStatements(effects, m) = chosen[n]
  BY DEF ExecuteStatements, n
<1> HIDE DEF chosen
<1>12. chosen[0] = Blank(m)
  BY <1>1, <1>10
<1>13. \A i \in 1 .. n : chosen[i] = Then(chosen[i - 1], effects[i])
  BY <1>1, <1>10
<1>14. Agree(chosen, f, n)
  BY <1>7, <1>8, <1>12, <1>13 DEF Agree
<1>15. chosen[n] = f[n]
  BY <1>1, <1>14, SameUpTo
<1> QED
  BY <1>7, <1>8, <1>11, <1>15 DEF RunsTo, n

LEMMA RunOutcome ==
  ASSUME NEW effects \in Seq(Effects), NEW m \in Memories
  PROVE  ExecuteStatements(effects, m) \in Outcomes
<1>1. PICK after : RunsTo(after, effects, m)
  BY RunExists
<1>2. Len(effects) \in 0 .. Len(effects)
  OBVIOUS
<1> QED
  BY <1>1, <1>2 DEF RunsTo

LEMMA RunNone ==
  ASSUME NEW m \in Memories
  PROVE  ExecuteStatements(<<>>, m) = Blank(m)
<1>1. <<>> \in Seq(Effects) /\ Len(<<>>) = 0
  OBVIOUS
<1>2. PICK after : RunsTo(after, <<>>, m)
  BY <1>1, RunExists
<1> QED
  BY <1>1, <1>2 DEF RunsTo

LEMMA RunMore ==
  ASSUME NEW effects \in Seq(Effects), NEW effect \in Effects, NEW m \in Memories
  PROVE  ExecuteStatements(Append(effects, effect), m) = Then(ExecuteStatements(effects, m), effect)
<1> DEFINE n == Len(effects)
           more == Append(effects, effect)
<1>1. n \in Nat /\ more \in Seq(Effects) /\ Len(more) = n + 1
  OBVIOUS
<1>2. more[n + 1] = effect /\ \A i \in 1 .. n : more[i] = effects[i]
  OBVIOUS
<1> HIDE DEF n, more
<1>3. PICK f : RunsTo(f, effects, m)
  BY RunExists
<1>4. PICK h : RunsTo(h, more, m)
  BY <1>1, RunExists
<1>5. /\ f[0] = Blank(m) /\ ExecuteStatements(effects, m) = f[n]
      /\ \A i \in 1 .. n : f[i] = Then(f[i - 1], effects[i])
  BY <1>3 DEF RunsTo, n
<1>6. /\ h[0] = Blank(m) /\ ExecuteStatements(more, m) = h[n + 1]
      /\ \A i \in 1 .. n + 1 : h[i] = Then(h[i - 1], more[i])
  BY <1>1, <1>4 DEF RunsTo
<1>7. n + 1 \in 1 .. n + 1 /\ (n + 1) - 1 = n /\ 1 .. n \subseteq 1 .. n + 1
  BY <1>1
<1>8. Agree(f, h, n)
  BY <1>2, <1>5, <1>6, <1>7 DEF Agree
<1>9. f[n] = h[n]
  BY <1>1, <1>8, SameUpTo
<1> QED
  BY <1>2, <1>5, <1>6, <1>7, <1>9 DEF more

LEMMA ConcatMore ==
  ASSUME NEW S, NEW s \in Seq(S), NEW t \in Seq(S), NEW e \in S
  PROVE  s \o t \in Seq(S) /\ s \o Append(t, e) = Append(s \o t, e)
OBVIOUS

LEMMA LineConcat ==
  \A r \in Seq(Lines), s \in Seq(Lines), t \in Seq(Lines) : (r \o s) \o t = r \o (s \o t)
OBVIOUS

(* One part of a sequence after the other.                                  *)
LEMMA RunBoth ==
  ASSUME NEW before \in Seq(Effects), NEW effects \in Seq(Effects), NEW m \in Memories
  PROVE  LET first == ExecuteStatements(before, m)
             then == ExecuteStatements(effects, first.memory)
             both == ExecuteStatements(before \o effects, m)
         IN  both.memory = then.memory /\ both.screen = first.screen \o then.screen
<1> DEFINE first == ExecuteStatements(before, m)
           m1 == first.memory
           Good(es) == /\ ExecuteStatements(before \o es, m).memory = ExecuteStatements(es, m1).memory
                       /\ ExecuteStatements(before \o es, m).screen
                            = first.screen \o ExecuteStatements(es, m1).screen
           S == {es \in Seq(Effects) : Good(es)}
<1>1. first \in Outcomes /\ m1 \in Memories /\ first.screen \in Seq(Lines)
  BY RunOutcome DEF Outcomes
<1> HIDE DEF first, m1
<1>2. Good(<<>>)
  <2>1. before \o <<>> = before /\ ExecuteStatements(before, m) = first
    BY DEF first
  <2>2. ExecuteStatements(<<>>, m1) = Blank(m1)
    BY <1>1, RunNone
  <2>3. Blank(m1).memory = m1 /\ Blank(m1).screen = <<>> /\ first.screen \o <<>> = first.screen
    BY <1>1 DEF Blank
  <2> QED
    BY <2>1, <2>2, <2>3 DEF m1
<1>3. ASSUME NEW es \in Seq(Effects), Good(es), NEW e \in Effects
      PROVE  Good(Append(es, e))
  <2> DEFINE a == ExecuteStatements(before \o es, m)
             b == ExecuteStatements(es, m1)
  <2>1. before \o es \in Seq(Effects) /\ before \o Append(es, e) = Append(before \o es, e)
    BY ConcatMore
  <2>2. a \in Outcomes /\ b \in Outcomes
    BY <1>1, <2>1, RunOutcome
  <2>3. /\ ExecuteStatements(before \o Append(es, e), m) = Then(a, e)
        /\ ExecuteStatements(Append(es, e), m1) = Then(b, e)
    BY <1>1, <2>1, RunMore
  <2>4. a.memory = b.memory /\ a.screen = first.screen \o b.screen
    BY <1>3
  <2> HIDE DEF a, b
  <2>5. b.memory \in Memories /\ b.screen \in Seq(Lines)
    BY <2>2 DEF Outcomes
  <2>6. e[b.memory] \in Outcomes
    BY <2>5 DEF Effects
  <2>7. e[b.memory].screen \in Seq(Lines)
    BY <2>6 DEF Outcomes
  <2>8. /\ Then(a, e).memory = e[b.memory].memory
        /\ Then(a, e).screen = (first.screen \o b.screen) \o e[b.memory].screen
        /\ Then(b, e).memory = e[b.memory].memory
        /\ Then(b, e).screen = b.screen \o e[b.memory].screen
    BY <2>2, <2>4, ThenOutcome
  <2>9. (first.screen \o b.screen) \o e[b.memory].screen = first.screen \o (b.screen \o e[b.memory].screen)
    BY <1>1, <2>5, <2>7, LineConcat
  <2>10. Then(a, e).memory = Then(b, e).memory
    BY <2>4, <2>8
  <2>11. Then(a, e).screen = first.screen \o Then(b, e).screen
    BY <2>8, <2>9
  <2> QED
    BY <2>3, <2>10, <2>11
<1> HIDE DEF Good
<1>4. <<>> \in S /\ \A es \in Seq(Effects) : es \in S => \A e \in Effects : Append(es, e) \in S
  BY <1>2, <1>3
<1> HIDE DEF S
<1>5. Seq(Effects) \subseteq S
  BY <1>4, SeqSet
<1>6. Good(effects)
  BY <1>5 DEF S
<1> QED
  BY <1>6 DEF Good, first, m1

LEMMA RunOne ==
  ASSUME NEW effect \in Effects, NEW m \in Memories
  PROVE  ExecuteStatements(<<effect>>, m) = effect[m]
<1>1. <<>> \in Seq(Effects) /\ <<effect>> = Append(<<>>, effect)
  OBVIOUS
<1>2. ExecuteStatements(<<effect>>, m) = Then(Blank(m), effect)
  BY <1>1, RunMore, RunNone
<1>3. effect[m] \in Outcomes
  BY DEF Effects
<1>4. effect[m] = [memory |-> effect[m].memory, screen |-> effect[m].screen]
      /\ effect[m].screen \in Seq(Lines)
  BY <1>3 DEF Outcomes
<1>5. <<>> \o effect[m].screen = effect[m].screen
  BY <1>4
<1> QED
  BY <1>2, <1>4, <1>5 DEF Then, Blank

-----------------------------------------------------------------------------
(* executeStatement: what a statement with all that is nested in it does.   *)
LEMMA ForBody ==
  ASSUME NEW stmt \in Nodes, stmt.keyword = "FOR", ~(Len(stmt.args) < 2), NEW m \in Memories
  PROVE  LET s == Touch(Blank(m), stmt.args[2]) IN
         /\ s.memory \in Memories
         /\ Times(Resolve(s, stmt.args[2]), stmt.nested) \in Seq(Below(stmt))
<1> DEFINE o == stmt.args[2]
           s == Touch(Blank(m), o)
<1>1. stmt.args \in Seq(Tokens) /\ stmt.nested \in Seq(Below(stmt))
  BY NodeParts
<1>2. 2 \in DOMAIN stmt.args /\ o \in Tokens
  BY <1>1
<1>3. s \in Outcomes
  BY <1>2, NamesOfNode, BlankOutcome, TouchOutcome
<1>4. Resolve(s, o) \in Value16
  BY <1>2, <1>3, OutcomeIsInterpreter, TokenHasValue, ResolveFits
<1>5. Resolve(s, o) \in Int
  BY <1>4, WidthAssumption DEF Value16
<1>6. s.memory \in Memories
  BY <1>3 DEF Outcomes
<1> HIDE DEF s
<1>7. Times(Resolve(s, o), stmt.nested) \in Seq(Below(stmt))
  BY <1>1, <1>5, TimesIsSeq
<1> QED
  BY <1>6, <1>7 DEF s

LEMMA ExecuteOutcome ==
  ASSUME NEW stmt \in Nodes, NEW f, \A part \in Below(stmt) : f[part] \in Effects,
         NEW m \in Memories
  PROVE  ExecuteStatement(f, stmt, m) \in Outcomes
<1>1. CASE stmt.keyword # "FOR"
  <2>1. ExecuteStatement(f, stmt, m) = ExecutePlain(Blank(m), stmt)
    BY <1>1 DEF ExecuteStatement
  <2> QED
    BY <1>1, <2>1, BlankOutcome, PlainOutcome
<1>2. CASE stmt.keyword = "FOR"
  <2> DEFINE o == stmt.args[2]
             s == Touch(Blank(m), o)
             body == Times(Resolve(s, o), stmt.nested)
  <2>1. Blank(m) \in Outcomes /\ Say(Blank(m), Error) \in Outcomes
    BY BlankOutcome, SayOutcome DEF Lines
  <2>2. CASE Len(stmt.args) < 2 \/ ~ResolveOK(o)
    BY <1>2, <2>1, <2>2 DEF ExecuteStatement, ExecuteFor
  <2>3. CASE ~(Len(stmt.args) < 2) /\ ResolveOK(o)
    <3>1. s.memory \in Memories /\ body \in Seq(Below(stmt))
      BY <1>2, <2>3, ForBody
    <3>2. ExecuteStatement(f, stmt, m) = ExecuteStatements(Each(f, body), s.memory)
      BY <1>2, <2>3 DEF ExecuteStatement, ExecuteFor
    <3> HIDE DEF body, s
    <3>3. Each(f, body) \in Seq(Effects)
      BY <3>1, EachIsSeq
    <3> QED
      BY <3>1, <3>2, <3>3, RunOutcome
  <2> QED
    BY <2>2, <2>3
<1> QED
  BY <1>1, <1>2

LEMMA ExecuteLocal ==
  ASSUME NEW stmt \in Nodes, NEW f, NEW h, SameBelow(f, h, stmt), NEW m \in Memories
  PROVE  ExecuteStatement(f, stmt, m) = ExecuteStatement(h, stmt, m)
<1>1. CASE stmt.keyword # "FOR" \/ Len(stmt.args) < 2
  BY <1>1 DEF ExecuteStatement, ExecuteFor
<1>2. CASE stmt.keyword = "FOR" /\ ~(Len(stmt.args) < 2)
  <2> DEFINE o == stmt.args[2]
             s == Touch(Blank(m), o)
             body == Times(Resolve(s, o), stmt.nested)
  <2>1. body \in Seq(Below(stmt))
    BY <1>2, ForBody
  <2>2. Each(f, body) = Each(h, body)
    <3> HIDE DEF body
    <3>1. \A part \in Below(stmt) : f[part] = h[part]
      BY DEF SameBelow
    <3> QED
      BY <2>1, <3>1, EachSame
  <2>3. ExecuteFor(f, stmt, m) = ExecuteFor(h, stmt, m)
    BY <1>2, <2>2 DEF ExecuteFor
  <2> QED
    BY <1>2, <2>3 DEF ExecuteStatement
<1> QED
  BY <1>1, <1>2

LEMMA ExecutedIs ==
  \A stmt \in Nodes : Executed[stmt] = [m \in Memories |-> ExecuteStatement(Executed, stmt, m)]
<1> DEFINE Step(f, stmt) == [m \in Memories |-> ExecuteStatement(f, stmt, m)]
           G == [stmt \in Nodes |-> [f \in [Nodes -> Effects] |-> Step(f, stmt)]]
           idle == [m \in Memories |-> Blank(m)]
<1>1. \A stmt \in Nodes : \A f \in [Nodes -> Effects] : Step(f, stmt) \in Effects
  <2> SUFFICES ASSUME NEW stmt \in Nodes, NEW f \in [Nodes -> Effects]
               PROVE  Step(f, stmt) \in Effects
    OBVIOUS
  <2>1. \A part \in Below(stmt) : f[part] \in Effects
    BY DEF Below
  <2>2. \A m \in Memories : ExecuteStatement(f, stmt, m) \in Outcomes
    BY <2>1, ExecuteOutcome
  <2> QED
    BY <2>2 DEF Effects
<1>2. idle \in Effects
  BY BlankOutcome DEF Effects
<1>3. \A stmt \in Nodes : \A f, h \in [Nodes -> Effects] :
        SameBelow(f, h, stmt) => Step(f, stmt) = Step(h, stmt)
  BY ExecuteLocal
<1> HIDE DEF Step, idle
<1>4. G \in [Nodes -> [[Nodes -> Effects] -> Effects]]
  BY <1>1
<1>5. \A stmt \in Nodes : \A f \in [Nodes -> Effects] : G[stmt][f] = Step(f, stmt)
  OBVIOUS
<1> HIDE DEF G
<1>6. IsLocal(G, Effects)
  BY <1>3, <1>5 DEF IsLocal
<1>7. PICK F : RecursEverywhere(F, G, Effects)
  BY <1>2, <1>4, <1>6, TreeRecursion
<1>8. F = [stmt \in Nodes |-> Step(F, stmt)]
  BY <1>5, <1>7 DEF RecursEverywhere
<1>9. Executed = [stmt \in Nodes |-> [m \in Memories |-> ExecuteStatement(Executed, stmt, m)]]
  BY <1>8 DEF Executed, Step
<1> QED
  BY <1>9

LEMMA ExecutedEffect == \A stmt \in Nodes : Executed[stmt] \in Effects
<1> DEFINE Typed == {stmt \in Nodes : Executed[stmt] \in Effects}
<1>1. ASSUME NEW stmt \in Nodes,
             \A part \in Nodes : Nesting[part] < Nesting[stmt] => part \in Typed
      PROVE  stmt \in Typed
  <2>1. \A part \in Below(stmt) : Executed[part] \in Effects
    BY <1>1 DEF Below
  <2>2. \A m \in Memories : ExecuteStatement(Executed, stmt, m) \in Outcomes
    BY <2>1, ExecuteOutcome
  <2>3. Executed[stmt] = [m \in Memories |-> ExecuteStatement(Executed, stmt, m)]
    BY ExecutedIs
  <2> QED
    BY <2>2, <2>3 DEF Effects
<1> HIDE DEF Typed
<1>2. Nodes \subseteq Typed
  BY <1>1, NodeSet
<1> QED
  BY <1>2 DEF Typed

LEMMA ProgramEffects ==
  ASSUME NEW program \in Seq(Nodes)
  PROVE  Each(Executed, program) \in Seq(Effects)
BY ExecutedEffect, EachIsSeq

-----------------------------------------------------------------------------
(* Executing what a program is unrolled into comes to the same as executing *)
(* the program.                                                             *)
LEMMA EachNone == \A f : Each(f, <<>>) = <<>>
BY DEF Each

LEMMA EachImage ==
  ASSUME NEW S, NEW f, NEW seq \in Seq(S)
  PROVE  Each(f, seq) \in Seq({f[x] : x \in S}) /\ Len(Each(f, seq)) = Len(seq)
<1>1. \A x \in S : f[x] \in {f[y] : y \in S}
  OBVIOUS
<1> QED
  BY <1>1, EachIsSeq

LEMMA EachMore ==
  ASSUME NEW S, NEW f, NEW seq \in Seq(S), NEW e \in S
  PROVE  Each(f, Append(seq, e)) = Append(Each(f, seq), f[e])
<1> DEFINE Y == {f[x] : x \in S}
<1>0. \A x \in S : f[x] \in Y
  OBVIOUS
<1> HIDE DEF Y
<1>1. \A t \in Seq(S) : Each(f, t) \in Seq(Y) /\ Len(Each(f, t)) = Len(t)
  BY EachImage DEF Y
<1>2. Append(seq, e) \in Seq(S) /\ Len(Append(seq, e)) = Len(seq) + 1 /\ Len(seq) \in Nat
  OBVIOUS
<1>3. /\ Each(f, Append(seq, e)) \in Seq(Y)
      /\ Len(Each(f, Append(seq, e))) = Len(seq) + 1
  BY <1>1, <1>2
<1>4. \A i \in 1 .. Len(seq) + 1 : Each(f, Append(seq, e))[i] = Append(Each(f, seq), f[e])[i]
  <2> SUFFICES ASSUME NEW i \in 1 .. Len(seq) + 1
               PROVE  Each(f, Append(seq, e))[i] = Append(Each(f, seq), f[e])[i]
    OBVIOUS
  <2>1. Each(f, Append(seq, e))[i] = f[Append(seq, e)[i]]
    BY DEF Each
  <2>2. CASE i = Len(seq) + 1
    <3>1. Append(seq, e)[i] = e /\ Append(Each(f, seq), f[e])[i] = f[e]
      BY <1>1, <2>2
    <3> QED
      BY <2>1, <3>1
  <2>3. CASE i \in 1 .. Len(seq)
    <3>1. Append(seq, e)[i] = seq[i] /\ Append(Each(f, seq), f[e])[i] = Each(f, seq)[i]
      BY <1>1, <2>3
    <3>2. Each(f, seq)[i] = f[seq[i]]
      BY <2>3 DEF Each
    <3> QED
      BY <2>1, <3>1, <3>2
  <2>4. i = Len(seq) + 1 \/ i \in 1 .. Len(seq)
    BY <1>2
  <2> QED
    BY <2>2, <2>3, <2>4
<1> DEFINE a == Each(f, Append(seq, e))
           b == Append(Each(f, seq), f[e])
<1>5. a \in Seq(Y) /\ b \in Seq(Y) /\ Len(a) = Len(seq) + 1 /\ Len(b) = Len(seq) + 1
  BY <1>0, <1>1, <1>2, <1>3
<1> HIDE DEF a, b
<1>6. a = b
  BY <1>4, <1>5 DEF a, b
<1> QED
  BY <1>6 DEF a, b

LEMMA EachBoth ==
  ASSUME NEW S, NEW f, NEW r \in Seq(S), NEW s \in Seq(S)
  PROVE  Each(f, r \o s) = Each(f, r) \o Each(f, s)
<1> DEFINE Good == {t \in Seq(S) : Each(f, r \o t) = Each(f, r) \o Each(f, t)}
           Y == {f[x] : x \in S}
<1>0. \A x \in S : f[x] \in Y
  OBVIOUS
<1> HIDE DEF Y
<1>1. Each(f, r) \in Seq(Y)
  BY <1>0, EachIsSeq
<1>2. <<>> \in Good
  <2>1. r \o <<>> = r /\ Each(f, r) \o <<>> = Each(f, r) /\ <<>> \in Seq(S)
    BY <1>1
  <2> QED
    BY <2>1, EachNone
<1>3. ASSUME NEW t \in Seq(S), t \in Good, NEW e \in S
      PROVE  Append(t, e) \in Good
  <2>1. r \o t \in Seq(S) /\ r \o Append(t, e) = Append(r \o t, e)
    BY ConcatMore
  <2>2. /\ Each(f, Append(r \o t, e)) = Append(Each(f, r \o t), f[e])
        /\ Each(f, Append(t, e)) = Append(Each(f, t), f[e])
    BY <2>1, EachMore
  <2>3. Each(f, t) \in Seq(Y) /\ f[e] \in Y
    BY <1>0, EachIsSeq
  <2>4. Each(f, r) \o Append(Each(f, t), f[e]) = Append(Each(f, r) \o Each(f, t), f[e])
    BY <1>1, <2>3, ConcatMore
  <2>5. Append(t, e) \in Seq(S)
    OBVIOUS
  <2> QED
    BY <1>3, <2>1, <2>2, <2>4, <2>5
<1> HIDE DEF Good
<1>4. Seq(S) \subseteq Good
  BY <1>2, <1>3, SeqSet
<1> QED
  BY <1>4 DEF Good

(* Unrolled, a statement does what it does when it is executed in one go.   *)
UnrollsWell(stmt) ==
  \A m \in Memories : Executed[stmt][m] = ExecuteStatements(Each(Executed, Unrolled[stmt]), m)

LEMMA SeqWider ==
  ASSUME NEW T, NEW S \in SUBSET T, NEW seq \in Seq(S)
  PROVE  seq \in Seq(T)
OBVIOUS

LEMMA OutcomesEqual ==
  ASSUME NEW a \in Outcomes, NEW b \in Outcomes, a.memory = b.memory, a.screen = b.screen
  PROVE  a = b
BY DEF Outcomes

LEMMA UnrolledTyped == \A stmt \in Nodes : Unrolled[stmt] \in Seq(Nodes)
<1>1. \A stmt \in Nodes : Unrolled[stmt] \in Seq(PlainOf(Nodes))
  BY NodesHereditary, UnrolledIn
<1>2. \A s \in Seq(PlainOf(Nodes)) : s \in Seq(Nodes)
  BY DEF PlainOf
<1> QED
  BY <1>1, <1>2

LEMMA UnrollMore ==
  ASSUME NEW program \in Seq(Nodes), NEW stmt \in Nodes
  PROVE  /\ Unroll(program) \in Seq(Nodes)
         /\ Unroll(Append(program, stmt)) = Unroll(program) \o Unrolled[stmt]
<1>1. Each(Unrolled, program) \in Seq(Seq(Nodes)) /\ Unrolled[stmt] \in Seq(Nodes)
  BY UnrolledTyped, EachIsSeq
<1>2. Each(Unrolled, Append(program, stmt)) = Append(Each(Unrolled, program), Unrolled[stmt])
  BY EachMore
<1> QED
  BY <1>1, <1>2, FlattenMore, FlattenIsSeq DEF Unroll

LEMMA UnrollNone == Unroll(<<>>) = <<>>
BY EachNone, FlattenNone DEF Unroll

LEMMA UnrolledProgram ==
  ASSUME NEW S \in SUBSET Nodes, \A stmt \in S : UnrollsWell(stmt)
  PROVE  \A program \in Seq(S) : \A m \in Memories :
           ExecuteStatements(Each(Executed, Unroll(program)), m)
             = ExecuteStatements(Each(Executed, program), m)
<1> DEFINE Flat(program, m) == ExecuteStatements(Each(Executed, Unroll(program)), m)
           Whole(program, m) == ExecuteStatements(Each(Executed, program), m)
           Good == {program \in Seq(S) : \A m \in Memories : Flat(program, m) = Whole(program, m)}
<1>1. <<>> \in Good
  <2>1. Unroll(<<>>) = <<>> /\ <<>> \in Seq(S)
    BY UnrollNone
  <2> QED
    BY <2>1
<1>2. ASSUME NEW program \in Seq(S), program \in Good, NEW stmt \in S
      PROVE  Append(program, stmt) \in Good
  <2> DEFINE more == Append(program, stmt)
             effect == Executed[stmt]
  <2> SUFFICES ASSUME NEW m \in Memories PROVE Flat(more, m) = Whole(more, m)
    OBVIOUS
  <2>1. program \in Seq(Nodes) /\ stmt \in Nodes /\ more \in Seq(Nodes)
    <3>1. program \in Seq(Nodes)
      BY SeqWider
    <3>2. stmt \in Nodes
      OBVIOUS
    <3>3. Append(program, stmt) \in Seq(Nodes)
      BY <3>1, <3>2
    <3> QED
      BY <3>1, <3>2, <3>3
  <2>2. /\ Unroll(program) \in Seq(Nodes) /\ Unrolled[stmt] \in Seq(Nodes)
        /\ Unroll(more) = Unroll(program) \o Unrolled[stmt]
    BY <2>1, UnrollMore, UnrolledTyped
  <2>3. /\ Each(Executed, Unroll(more)) = Each(Executed, Unroll(program)) \o Each(Executed, Unrolled[stmt])
        /\ Each(Executed, more) = Append(Each(Executed, program), effect)
    <3>1. \A r, s \in Seq(Nodes) : Each(Executed, r \o s) = Each(Executed, r) \o Each(Executed, s)
      BY EachBoth
    <3>2. Each(Executed, Append(program, stmt)) = Append(Each(Executed, program), Executed[stmt])
      BY EachMore
    <3> QED
      BY <2>2, <3>1, <3>2
  <2>4. /\ Each(Executed, Unroll(program)) \in Seq(Effects)
        /\ Each(Executed, Unrolled[stmt]) \in Seq(Effects)
        /\ Each(Executed, program) \in Seq(Effects) /\ effect \in Effects
        /\ Each(Executed, Unroll(more)) \in Seq(Effects)
    <3>1. Unroll(more) \in Seq(Nodes)
      BY <2>1, <2>2
    <3> QED
      BY <2>1, <2>2, <3>1, ProgramEffects, ExecutedEffect
  <2> DEFINE first == Whole(program, m)
  <2>5. Flat(program, m) = first
    BY <1>2
  <2>6. first \in Outcomes /\ first.memory \in Memories
    BY <2>4, RunOutcome DEF Outcomes
  <2>7. Whole(more, m) = Then(first, effect)
    BY <2>3, <2>4, RunMore
  <2>8. ExecuteStatements(Each(Executed, Unrolled[stmt]), first.memory) = effect[first.memory]
    <3> HIDE DEF first
    <3> QED
      BY <2>6 DEF UnrollsWell
  <2>9. /\ Flat(more, m).memory = effect[first.memory].memory
        /\ Flat(more, m).screen = first.screen \o effect[first.memory].screen
    <3> DEFINE before == Each(Executed, Unroll(program))
               effects == Each(Executed, Unrolled[stmt])
               both == ExecuteStatements(before \o effects, m)
    <3>1. before \in Seq(Effects) /\ effects \in Seq(Effects)
      BY <2>4
    <3>2. /\ ExecuteStatements(before, m) = first
          /\ ExecuteStatements(effects, first.memory) = effect[first.memory]
          /\ Flat(more, m) = both
      BY <2>3, <2>5, <2>8
    <3> HIDE DEF before, effects, first, effect, Flat
    <3>3. /\ both.memory = effect[first.memory].memory
          /\ both.screen = first.screen \o effect[first.memory].screen
      BY <3>1, <3>2, RunBoth
    <3> QED
      BY <3>2, <3>3
  <2>10. Flat(more, m) \in Outcomes
    BY <2>4, RunOutcome
  <2> HIDE DEF Flat, Whole, more, effect
  <2>11. Then(first, effect) \in Outcomes /\ Then(first, effect).memory = Flat(more, m).memory
         /\ Then(first, effect).screen = Flat(more, m).screen
    BY <2>4, <2>6, <2>9, ThenOutcome
  <2> QED
    BY <2>7, <2>10, <2>11, OutcomesEqual
<1> HIDE DEF Good
<1>3. Seq(S) \subseteq Good
  BY <1>1, <1>2, SeqSet
<1> QED
  BY <1>3 DEF Good

(* A loop within limits: unrolling and interpreting count alike.            *)
LEMMA CountsAlike ==
  ASSUME NEW stmt \in Nodes, stmt.keyword = "FOR", WithinLimits(stmt), NEW m \in Memories
  PROVE  LET body == Times(Repeats(stmt), stmt.nested) IN
         /\ Executed[stmt][m] = ExecuteStatements(Each(Executed, body), m)
         /\ Unrolled[stmt] = Unroll(body)
<1> DEFINE o == stmt.args[2]
<1>1. stmt.args \in Seq(Tokens) /\ Len(stmt.args) >= 2
  BY NodeParts DEF WithinLimits
<1>2. o.kind = "unsigned" /\ o.value \in 0 .. Modulus - 1 /\ ~(Len(stmt.args) < 2)
  BY <1>1 DEF WithinLimits
<1>3. ResolveOK(o) /\ StoiOK(o)
  BY <1>2, WidthAssumption DEF ResolveOK, StoulOK, StoiOK, HasNumber
<1>4. Touch(Blank(m), o) = Blank(m) /\ Blank(m).memory = m
  BY <1>2 DEF Touch, IsVariable, Blank
<1>5. Resolve(Blank(m), o) = o.value
  <2>1. Resolve(Blank(m), o) = Uint16(o.value)
    BY <1>2 DEF Resolve
  <2> QED
    BY <1>2, <2>1, Uint16Same
<1>6. Repeats(stmt) = o.value
  BY <1>1, <1>3 DEF Repeats
<1>7. Executed[stmt][m] = ExecuteFor(Executed, stmt, m)
  BY ExecutedIs DEF ExecuteStatement
<1>8. ExecuteFor(Executed, stmt, m) = ExecuteStatements(Each(Executed, Times(o.value, stmt.nested)), m)
  BY <1>2, <1>3, <1>4, <1>5 DEF ExecuteFor
<1>9. Unrolled[stmt] = Unroll(Times(Repeats(stmt), stmt.nested))
  BY UnrolledIs DEF AddInstruction, Unroll
<1> QED
  BY <1>6, <1>7, <1>8, <1>9

LEMMA UnrolledStatement ==
  ASSUME NEW H, Hereditary(H), \A stmt \in H : WithinLimits(stmt)
  PROVE  \A stmt \in H : UnrollsWell(stmt)
<1> DEFINE Good == {stmt \in Nodes : stmt \in H => UnrollsWell(stmt)}
<1>1. ASSUME NEW stmt \in Nodes,
             \A part \in Nodes : Nesting[part] < Nesting[stmt] => part \in Good
      PROVE  stmt \in Good
  <2> SUFFICES ASSUME stmt \in H, NEW m \in Memories
               PROVE  Executed[stmt][m] = ExecuteStatements(Each(Executed, Unrolled[stmt]), m)
    BY DEF UnrollsWell
  <2>1. CASE stmt.keyword # "FOR"
    <3>1. Unrolled[stmt] = <<stmt>>
      BY <2>1, UnrolledIs DEF AddInstruction
    <3>2. Each(Executed, <<stmt>>) = <<Executed[stmt]>>
      BY DEF Each
    <3> QED
      BY <3>1, <3>2, ExecutedEffect, RunOne
  <2>2. CASE stmt.keyword = "FOR"
    <3> DEFINE body == Times(Repeats(stmt), stmt.nested)
               S == H \cap Below(stmt)
    <3>1. stmt.nested \in Seq(S)
      <4>1. stmt.nested \in Seq(H) /\ stmt.nested \in Seq(Below(stmt))
        BY NodeParts DEF Hereditary
      <4> QED
        BY <4>1
    <3>2. S \in SUBSET Nodes /\ \A part \in S : UnrollsWell(part)
      BY <1>1 DEF Below
    <3>3. /\ Executed[stmt][m] = ExecuteStatements(Each(Executed, body), m)
          /\ Unrolled[stmt] = Unroll(body)
      BY <2>2, CountsAlike
    <3> HIDE DEF S
    <3>4. body \in Seq(S)
      BY <3>1, RepeatsIsInt, TimesIsSeq
    <3> HIDE DEF body
    <3> QED
      BY <3>2, <3>3, <3>4, UnrolledProgram
  <2> QED
    BY <2>1, <2>2
<1> HIDE DEF Good
<1>2. Nodes \subseteq Good
  BY <1>1, NodeSet
<1> QED
  BY <1>2 DEF Good, Hereditary

-----------------------------------------------------------------------------
(* The statements within limits, with all that are nested in them, and      *)
(* those that may be generated.                                             *)
LEMMA PartsIs ==
  \A stmt \in Nodes :
    Parts[stmt] = {stmt} \cup UNION {Parts[stmt.nested[i]] : i \in DOMAIN stmt.nested}
<1> DEFINE Step(f, stmt) == {stmt} \cup UNION {f[stmt.nested[i]] : i \in DOMAIN stmt.nested}
           Y == SUBSET Nodes
           G == [stmt \in Nodes |-> [f \in [Nodes -> Y] |-> Step(f, stmt)]]
<1>1. \A stmt \in Nodes : \A i \in DOMAIN stmt.nested : stmt.nested[i] \in Below(stmt)
  <2> SUFFICES ASSUME NEW stmt \in Nodes, NEW i \in DOMAIN stmt.nested
               PROVE  stmt.nested[i] \in Below(stmt)
    OBVIOUS
  <2>1. stmt.nested \in Seq(Below(stmt))
    BY NodeParts
  <2> QED
    BY <2>1
<1>2. \A stmt \in Nodes : \A f \in [Nodes -> Y] : Step(f, stmt) \in Y
  BY <1>1 DEF Below
<1>3. \A stmt \in Nodes : \A f, h \in [Nodes -> Y] :
        SameBelow(f, h, stmt) => Step(f, stmt) = Step(h, stmt)
  BY <1>1 DEF SameBelow
<1>4. {} \in Y
  OBVIOUS
<1> HIDE DEF Step, Y
<1>5. G \in [Nodes -> [[Nodes -> Y] -> Y]]
  BY <1>2
<1>6. \A stmt \in Nodes : \A f \in [Nodes -> Y] : G[stmt][f] = Step(f, stmt)
  OBVIOUS
<1> HIDE DEF G
<1>7. IsLocal(G, Y)
  BY <1>3, <1>6 DEF IsLocal
<1>8. PICK F : RecursEverywhere(F, G, Y)
  BY <1>4, <1>5, <1>7, TreeRecursion
<1>9. F = [stmt \in Nodes |-> Step(F, stmt)]
  BY <1>6, <1>8 DEF RecursEverywhere
<1>10. Parts = [stmt \in Nodes |->
                  {stmt} \cup UNION {Parts[stmt.nested[i]] : i \in DOMAIN stmt.nested}]
  BY <1>9 DEF Parts, Step
<1> QED
  BY <1>10

Limited == {stmt \in Nodes : \A part \in Parts[stmt] : WithinLimits(part)}

LEMMA LimitedHereditary == Hereditary(Limited) /\ \A stmt \in Limited : WithinLimits(stmt)
<1>1. ASSUME NEW stmt \in Limited
      PROVE  WithinLimits(stmt) /\ stmt.nested \in Seq(Limited)
  <2>1. stmt \in Nodes /\ \A part \in Parts[stmt] : WithinLimits(part)
    BY DEF Limited
  <2>2. stmt.nested \in Seq(Nodes)
    BY <2>1, NodeParts
  <2>3. /\ stmt \in Parts[stmt]
        /\ \A i \in DOMAIN stmt.nested : Parts[stmt.nested[i]] \subseteq Parts[stmt]
    BY <2>1, PartsIs
  <2>4. \A i \in 1 .. Len(stmt.nested) : stmt.nested[i] \in Limited
    BY <2>1, <2>2, <2>3 DEF Limited
  <2> QED
    BY <2>1, <2>2, <2>3, <2>4
<1> QED
  BY <1>1 DEF Hereditary, Limited

Inside(depth, next) == IF depth >= 3 THEN {} ELSE Bodies(next)

LEMMA RandomIs ==
  ASSUME NEW name \in ProcessNames, NEW depth \in 0 .. 3
  PROVE  RandomStatements[name][depth] = Draw(name, depth, Inside(depth, RandomStatements[name][depth + 1]))
<1> DEFINE r3 == Draw(name, 3, {})
           r2 == Draw(name, 2, Bodies(r3))
           r1 == Draw(name, 1, Bodies(r2))
           r0 == Draw(name, 0, Bodies(r1))
           R == [d \in 0 .. 3 |-> IF d = 3 THEN r3 ELSE IF d = 2 THEN r2
                                  ELSE IF d = 1 THEN r1 ELSE r0]
<1>1. R[3] = r3 /\ R[2] = r2 /\ R[1] = r1 /\ R[0] = r0
  <2> HIDE DEF r3, r2, r1, r0
  <2> QED
    OBVIOUS
<1>2. /\ r3 = Draw(name, 3, Inside(3, R[4])) /\ r2 = Draw(name, 2, Inside(2, r3))
      /\ r1 = Draw(name, 1, Inside(1, r2)) /\ r0 = Draw(name, 0, Inside(0, r1))
  <2> HIDE DEF R
  <2> QED
    BY DEF Inside
<1> HIDE DEF r3, r2, r1, r0
<1>3. ASSUME NEW d \in 0 .. 3
      PROVE  R[d] = Draw(name, d, Inside(d, R[d + 1]))
  <2>1. d \in {0, 1, 2, 3}
    OBVIOUS
  <2> HIDE DEF R
  <2> QED
    BY <1>1, <1>2, <2>1
<1>4. R = [d \in 0 .. 3 |-> Draw(name, d, Inside(d, R[d + 1]))]
  BY <1>3
<1> HIDE DEF R
<1> DEFINE drawn == CHOOSE f : f = [d \in 0 .. 3 |-> Draw(name, d, Inside(d, f[d + 1]))]
<1>5. drawn = [d \in 0 .. 3 |-> Draw(name, d, Inside(d, drawn[d + 1]))]
  BY <1>4
<1>6. RandomStatements[name] = drawn
  BY DEF RandomStatements, Inside
<1> HIDE DEF drawn
<1> QED
  BY <1>5, <1>6

Random(name) ==
  {stmt \in Nodes : \E depth \in 0 .. 3 : stmt \in RandomStatements[name][depth]}

IsDrawn(name, stmt, depth, bodies) ==
  \/ stmt = Greeting(name)
  \/ \E v \in Words, n \in Literals : stmt = Stmt("DECLARE", <<v, n>>)
  \/ \E k \in {"ADD", "SUBTRACT"}, v \in Words, a \in Words, n \in Literals :
       stmt = Stmt(k, <<v, a, n>>)
  \/ \E n \in Literals : stmt = Stmt("SLEEP", <<n>>)
  \/ depth < 3 /\ \E c \in Counts, body \in bodies : stmt = For(Unsigned(c), body)

LEMMA DrawnArithmetic ==
  ASSUME NEW k, NEW stmt \in DrawArithmetic(k)
  PROVE  \E v \in Words, a \in Words, n \in Literals : stmt = Stmt(k, <<v, a, n>>)
BY DEF DrawArithmetic

LEMMA DrawnStatement ==
  ASSUME NEW name, NEW depth \in 0 .. 3, NEW bodies, NEW stmt, stmt \in Draw(name, depth, bodies)
  PROVE  IsDrawn(name, stmt, depth, bodies)
<1> DEFINE prints == {Greeting(name)}
           declares == {Stmt("DECLARE", <<v, n>>) : v \in Words, n \in Literals}
           sleeps == {Stmt("SLEEP", <<n>>) : n \in Literals}
           fors == {For(Unsigned(c), body) : c \in Counts, body \in bodies}
           loops == IF depth >= 3 THEN {} ELSE fors
<1>1. /\ stmt \in prints => stmt = Greeting(name)
      /\ stmt \in declares => \E v \in Words, n \in Literals : stmt = Stmt("DECLARE", <<v, n>>)
      /\ stmt \in sleeps => \E n \in Literals : stmt = Stmt("SLEEP", <<n>>)
      /\ stmt \in fors => \E c \in Counts, body \in bodies : stmt = For(Unsigned(c), body)
  <2>1. stmt \in prints => stmt = Greeting(name)
    OBVIOUS
  <2>2. stmt \in declares => \E v \in Words, n \in Literals : stmt = Stmt("DECLARE", <<v, n>>)
    OBVIOUS
  <2>3. stmt \in sleeps => \E n \in Literals : stmt = Stmt("SLEEP", <<n>>)
    OBVIOUS
  <2>4. stmt \in fors => \E c \in Counts, body \in bodies : stmt = For(Unsigned(c), body)
    OBVIOUS
  <2> HIDE DEF prints, declares, sleeps, fors
  <2> QED
    BY <2>1, <2>2, <2>3, <2>4
<1>3. Draw(name, depth, bodies)
        = prints \cup declares \cup DrawArithmetic("ADD") \cup DrawArithmetic("SUBTRACT")
            \cup sleeps \cup loops
  BY DEF Draw
<1> HIDE DEF prints, declares, sleeps, fors
<1>4. stmt \in loops => depth < 3 /\ stmt \in fors
  OBVIOUS
<1> HIDE DEF loops
<1>5. \/ stmt \in prints \/ stmt \in declares \/ stmt \in sleeps \/ stmt \in loops
      \/ \E k \in {"ADD", "SUBTRACT"} : stmt \in DrawArithmetic(k)
  BY <1>3
<1>6. CASE \E k \in {"ADD", "SUBTRACT"} : stmt \in DrawArithmetic(k)
  <2>1. \E k \in {"ADD", "SUBTRACT"}, v \in Words, a \in Words, n \in Literals : stmt = Stmt(k, <<v, a, n>>)
    BY <1>6, DrawnArithmetic
  <2> QED
    BY <2>1 DEF IsDrawn
<1> QED
  BY <1>1, <1>4, <1>5, <1>6 DEF IsDrawn

(* A name without a plus sign leaves the greeting a literal, which prints   *)
(* no number.                                                               *)
LEMMA GreetingFine ==
  ASSUME NEW name \in ProcessNames, GreetingReads(name)
  PROVE  ~Fails(Greeting(name))
<1> DEFINE arg == <<Quote>> \o Message(name) \o <<Quote>>
<1>1. Greeting(name).keyword = "PRINT" /\ Greeting(name).args = arg
  BY DEF Greeting, Stmt
<1>2. CASE Find(name, Plus) # 0
  BY <1>1, <1>2 DEF GreetingReads, Fails
<1>3. CASE Find(name, Plus) = 0
  <2>1. name \in Seq(Tokens)
    BY DrawnAssumption
  <2>2. \A i \in 1 .. Len(name) : name[i] # Plus
    BY <1>3, <2>1, FindIs
  <2>3. Quote # Plus /\ Hello # Plus /\ Exclamation # Plus
    <3>1. Plus.kind = "symbol" /\ Hello.kind = "word" /\ Exclamation.kind = "word"
      BY DEF Plus, Symbol, Hello, Exclamation, Word
    <3>2. Quote # Plus
      BY DEF Quote, Plus, Symbol
    <3> QED
      BY <3>1, <3>2
  <2> DEFINE More == Tokens \cup {Quote, Hello, Exclamation}
  <2>4. /\ name \in Seq(More) /\ <<Quote>> \in Seq(More)
        /\ <<Hello>> \in Seq(More) /\ <<Exclamation>> \in Seq(More)
    BY <2>1
  <2> HIDE DEF More
  <2>5. /\ Message(name) \in Seq(More)
        /\ \A i \in 1 .. Len(Message(name)) : Message(name)[i] # Plus
    BY <2>2, <2>3, <2>4 DEF Message
  <2>6. /\ arg \in Seq(More) /\ Len(arg) >= 2
        /\ arg[1] = Quote /\ arg[Len(arg)] = Quote
        /\ \A i \in 1 .. Len(arg) : arg[i] # Plus
    BY <2>3, <2>4, <2>5
  <2> HIDE DEF arg
  <2>7. Find(arg, Plus) = 0
    BY <2>6, FindIs
  <2>8. IsLiteral(arg)
    BY <2>6 DEF IsLiteral, Last
  <2> QED
    BY <1>1, <2>7, <2>8 DEF Fails, PrintsNumber
<1> QED
  BY <1>2, <1>3

LEMMA RandomStatement ==
  ASSUME NEW name \in ProcessNames, GreetingReads(name), NEW stmt \in Random(name)
  PROVE  stmt.nested \in Seq(Random(name)) /\ (stmt.keyword # "FOR" => ~Fails(stmt))
<1>1. PICK depth \in 0 .. 3 : stmt \in RandomStatements[name][depth]
  BY DEF Random
<1> DEFINE bodies == Inside(depth, RandomStatements[name][depth + 1])
<1>2. stmt \in Draw(name, depth, bodies)
  BY <1>1, RandomIs
<1>3. stmt.nested \in Seq(Nodes) /\ <<>> \in Seq(Random(name))
  BY NodeParts DEF Random
<1>6. \A o \in Literals : StolOK(o) /\ ResolveOK(o)
  <2> SUFFICES ASSUME NEW n \in Numbers PROVE StolOK(Unsigned(n)) /\ ResolveOK(Unsigned(n))
    BY DEF Literals
  <2>1. n \in 0 .. Modulus - 1
    BY DrawnAssumption
  <2> QED
    BY <2>1, WidthAssumption DEF StolOK, ResolveOK, StoulOK, HasNumber, Unsigned
<1>7. \A o \in Words : ResolveOK(o)
  BY DEF Words, Word, ResolveOK
<1> HIDE DEF bodies
<1>8. CASE stmt = Greeting(name)
  BY <1>3, <1>8, GreetingFine DEF Greeting, Stmt
<1>9. ASSUME NEW v \in Words, NEW n \in Literals, stmt = Stmt("DECLARE", <<v, n>>)
      PROVE  stmt.nested \in Seq(Random(name)) /\ ~Fails(stmt)
  <2>1. stmt.keyword = "DECLARE" /\ stmt.args[2] = n /\ stmt.nested = <<>>
    BY <1>9 DEF Stmt
  <2> QED
    BY <1>3, <1>6, <2>1 DEF Fails
<1>10. ASSUME NEW k \in {"ADD", "SUBTRACT"}, NEW v \in Words, NEW a \in Words, NEW n \in Literals,
              stmt = Stmt(k, <<v, a, n>>)
       PROVE  stmt.nested \in Seq(Random(name)) /\ ~Fails(stmt)
  <2>1. stmt.keyword = k /\ stmt.args[2] = a /\ stmt.args[3] = n /\ stmt.nested = <<>>
    BY <1>10 DEF Stmt
  <2> QED
    BY <1>3, <1>6, <1>7, <2>1 DEF Fails
<1>11. ASSUME NEW n \in Literals, stmt = Stmt("SLEEP", <<n>>)
       PROVE  stmt.nested \in Seq(Random(name)) /\ ~Fails(stmt)
  <2>1. stmt.keyword = "SLEEP" /\ stmt.nested = <<>>
    BY <1>11 DEF Stmt
  <2> QED
    BY <1>3, <2>1 DEF Fails
<1>12. ASSUME depth < 3, NEW c \in Counts, NEW body \in bodies, stmt = For(Unsigned(c), body)
       PROVE  stmt.nested \in Seq(Random(name)) /\ stmt.keyword = "FOR"
  <2>1. stmt.keyword = "FOR" /\ stmt.nested = body
    BY <1>12 DEF For, Stmt
  <2>2. PICK n \in BodySizes : body \in [1 .. n -> RandomStatements[name][depth + 1]]
    BY <1>12 DEF bodies, Inside, Bodies
  <2>3. \A i \in DOMAIN body : body[i] \in RandomStatements[name][depth + 1]
    BY <2>2
  <2>4. depth + 1 \in 0 .. 3
    BY <1>12
  <2>5. \A i \in 1 .. Len(stmt.nested) : stmt.nested[i] \in Random(name)
    BY <1>3, <2>1, <2>3, <2>4 DEF Random
  <2> QED
    BY <1>3, <2>1, <2>5
<1>13. IsDrawn(name, stmt, depth, bodies)
  BY <1>2, DrawnStatement
<1> QED
  BY <1>8, <1>9, <1>10, <1>11, <1>12, <1>13 DEF IsDrawn

LEMMA RandomHereditary ==
  ASSUME NEW name \in ProcessNames, GreetingReads(name)
  PROVE  Hereditary(Random(name)) /\ \A stmt \in PlainOf(Random(name)) : ~Fails(stmt)
BY RandomStatement DEF Hereditary, Random, PlainOf

-----------------------------------------------------------------------------
(* The log without what the sleeps put into it.                             *)
Logged == Lines \cup {Slept(stmt) : stmt \in Nodes}

Kept == [line \in Logged |-> IF line[1] = "slept" THEN <<>> ELSE <<line>>]

OutputOf(l) == FlattenSeq([k \in DOMAIN l |-> IF l[k][1] = "slept" THEN <<>> ELSE <<l[k]>>])

LEMMA KeptIs ==
  /\ \A line \in Lines : line \in Logged /\ Kept[line] = <<line>>
  /\ \A stmt \in Nodes : Slept(stmt) \in Logged /\ Kept[Slept(stmt)] = <<>>
  /\ \A line \in Logged : Kept[line] \in Seq(Lines)
<1>1. \A line \in Lines : line[1] # "slept"
  BY DEF Lines, Printed, Warning, Error
<1>2. \A stmt \in Nodes : Slept(stmt)[1] = "slept"
  BY DEF Slept
<1>3. \A line \in Logged : line[1] # "slept" => line \in Lines
  BY <1>2 DEF Logged
<1> QED
  BY <1>1, <1>2, <1>3 DEF Kept, Logged

LEMMA OutputIs ==
  ASSUME NEW l \in Seq(Logged)
  PROVE  OutputOf(l) = FlattenSeq(Each(Kept, l)) /\ Each(Kept, l) \in Seq(Seq(Lines))
<1>1. \A k \in DOMAIN l : Kept[l[k]] = IF l[k][1] = "slept" THEN <<>> ELSE <<l[k]>>
  BY DEF Kept
<1>2. Each(Kept, l) = [k \in DOMAIN l |-> IF l[k][1] = "slept" THEN <<>> ELSE <<l[k]>>]
  BY <1>1 DEF Each
<1> QED
  BY <1>2, KeptIs, EachIsSeq DEF OutputOf

LEMMA OutputTyped ==
  ASSUME NEW l \in Seq(Logged)
  PROVE  OutputOf(l) \in Seq(Lines)
BY OutputIs, FlattenIsSeq

LEMMA OutputMore ==
  ASSUME NEW l \in Seq(Logged), NEW line \in Logged
  PROVE  OutputOf(Append(l, line)) = OutputOf(l) \o Kept[line]
<1>1. Append(l, line) \in Seq(Logged)
  OBVIOUS
<1>2. Each(Kept, Append(l, line)) = Append(Each(Kept, l), Kept[line])
  BY EachMore
<1>3. Kept[line] \in Seq(Lines)
  BY KeptIs
<1>4. Each(Kept, l) \in Seq(Seq(Lines)) /\ OutputOf(l) = FlattenSeq(Each(Kept, l))
  BY OutputIs
<1>5. OutputOf(Append(l, line)) = FlattenSeq(Append(Each(Kept, l), Kept[line]))
  BY <1>1, <1>2, OutputIs
<1> QED
  BY <1>3, <1>4, <1>5, FlattenMore

LEMMA OutputSlept ==
  ASSUME NEW l \in Seq(Logged), NEW stmt \in Nodes
  PROVE  Append(l, Slept(stmt)) \in Seq(Logged) /\ OutputOf(Append(l, Slept(stmt))) = OutputOf(l)
<1>1. Slept(stmt) \in Logged /\ Kept[Slept(stmt)] = <<>>
  BY KeptIs
<1>2. OutputOf(Append(l, Slept(stmt))) = OutputOf(l) \o <<>>
  BY <1>1, OutputMore
<1>3. OutputOf(l) \o <<>> = OutputOf(l)
  BY OutputTyped
<1> QED
  BY <1>1, <1>2, <1>3

LEMMA ConcatOne ==
  ASSUME NEW S, NEW s \in Seq(S), NEW e \in S
  PROVE  s \o <<e>> = Append(s, e)
OBVIOUS

LEMMA OutputLines ==
  ASSUME NEW l \in Seq(Logged)
  PROVE  \A lines \in Seq(Lines) :
           l \o lines \in Seq(Logged) /\ OutputOf(l \o lines) = OutputOf(l) \o lines
<1> DEFINE Good == {lines \in Seq(Lines) :
                      l \o lines \in Seq(Logged) /\ OutputOf(l \o lines) = OutputOf(l) \o lines}
<1>1. <<>> \in Good
  <2>1. l \o <<>> = l /\ <<>> \in Seq(Lines)
    OBVIOUS
  <2>2. OutputOf(l) \o <<>> = OutputOf(l)
    BY OutputTyped
  <2> QED
    BY <2>1, <2>2
<1>2. ASSUME NEW lines \in Seq(Lines), lines \in Good, NEW line \in Lines
      PROVE  Append(lines, line) \in Good
  <2>1. line \in Logged /\ Kept[line] = <<line>>
    BY KeptIs
  <2>2. \A e \in Seq(Lines) : e \in Seq(Logged)
    BY DEF Logged
  <2>3. l \o Append(lines, line) = Append(l \o lines, line) /\ l \o lines \in Seq(Logged)
    BY <2>1, <2>2, ConcatMore
  <2>4. Append(l \o lines, line) \in Seq(Logged)
    BY <2>1, <2>3
  <2>5. OutputOf(Append(l \o lines, line)) = OutputOf(l \o lines) \o <<line>>
    BY <2>1, <2>3, OutputMore
  <2>6. OutputOf(l \o lines) = OutputOf(l) \o lines /\ OutputOf(l) \in Seq(Lines)
    BY <1>2, OutputTyped
  <2>7. (OutputOf(l) \o lines) \o <<line>> = OutputOf(l) \o Append(lines, line)
    <3>1. /\ OutputOf(l) \o lines \in Seq(Lines)
          /\ OutputOf(l) \o Append(lines, line) = Append(OutputOf(l) \o lines, line)
      BY <2>6, ConcatMore
    <3> QED
      BY <3>1, ConcatOne
  <2>8. Append(lines, line) \in Seq(Lines)
    OBVIOUS
  <2> QED
    BY <2>3, <2>4, <2>5, <2>6, <2>7, <2>8
<1> HIDE DEF Good
<1>3. Seq(Lines) \subseteq Good
  BY <1>1, <1>2, SeqSet
<1> QED
  BY <1>3 DEF Good

-----------------------------------------------------------------------------
(* The first k statements of st, executed in one go, leave memory m and     *)
(* print what is kept of the log l.                                         *)
FirstOf(st, k) == ExecuteStatements(Each(Executed, SubSeq(st, 1, k)), <<>>)

Reflects(st, k, m, l) == FirstOf(st, k).memory = m /\ FirstOf(st, k).screen = OutputOf(l)

LEMMA FirstNone ==
  ASSUME NEW st \in Seq(Nodes)
  PROVE  FirstOf(st, 0) = Blank(<<>>)
<1>1. SubSeq(st, 1, 0) = <<>>
  OBVIOUS
<1> QED
  BY <1>1, EachNone, RunNone, NoMemory DEF FirstOf

LEMMA FirstMore ==
  ASSUME NEW st \in Seq(Nodes), NEW k \in 0 .. Len(st) - 1
  PROVE  /\ FirstOf(st, k) \in Outcomes /\ st[k + 1] \in Nodes
         /\ FirstOf(st, k + 1) = Then(FirstOf(st, k), Executed[st[k + 1]])
<1> DEFINE front == SubSeq(st, 1, k)
           stmt == st[k + 1]
<1>1. front \in Seq(Nodes) /\ stmt \in Nodes
  OBVIOUS
<1>2. SubSeq(st, 1, k + 1) = Append(front, stmt)
  OBVIOUS
<1> HIDE DEF front, stmt
<1>3. Each(Executed, front) \in Seq(Effects) /\ Executed[stmt] \in Effects
  BY <1>1, ProgramEffects, ExecutedEffect
<1>4. Each(Executed, Append(front, stmt)) = Append(Each(Executed, front), Executed[stmt])
  BY <1>1, EachMore
<1>5. ExecuteStatements(Append(Each(Executed, front), Executed[stmt]), <<>>)
        = Then(ExecuteStatements(Each(Executed, front), <<>>), Executed[stmt])
  BY <1>3, NoMemory, RunMore
<1>6. ExecuteStatements(Each(Executed, front), <<>>) \in Outcomes
  BY <1>3, NoMemory, RunOutcome
<1> QED
  BY <1>1, <1>2, <1>4, <1>5, <1>6 DEF FirstOf, front, stmt

LEMMA PlainEffect ==
  ASSUME NEW stmt \in Nodes, stmt.keyword # "FOR", NEW m \in Memories
  PROVE  /\ Executed[stmt][m] = ExecutePlain(Blank(m), stmt)
         /\ ExecutePlain(Blank(m), stmt) \in Outcomes
<1>1. Executed[stmt][m] = ExecuteStatement(Executed, stmt, m)
  BY ExecutedIs
<1> QED
  BY <1>1, BlankOutcome, PlainOutcome DEF ExecuteStatement

LEMMA NextReflects ==
  ASSUME NEW st \in Seq(Nodes), NEW k \in 0 .. Len(st) - 1, NEW m \in Memories,
         NEW l, Reflects(st, k, m, l), st[k + 1].keyword # "FOR"
  PROVE  LET out == ExecutePlain(Blank(m), st[k + 1]) IN
         /\ out \in Outcomes
         /\ FirstOf(st, k + 1).memory = out.memory
         /\ FirstOf(st, k + 1).screen = OutputOf(l) \o out.screen
<1> DEFINE stmt == st[k + 1]
           first == FirstOf(st, k)
<1>1. first \in Outcomes /\ stmt \in Nodes /\ FirstOf(st, k + 1) = Then(first, Executed[stmt])
  BY FirstMore
<1>2. first.memory = m /\ first.screen = OutputOf(l)
  BY DEF Reflects
<1> HIDE DEF first
<1>3. Executed[stmt][m] = ExecutePlain(Blank(m), stmt) /\ ExecutePlain(Blank(m), stmt) \in Outcomes
  BY <1>1, PlainEffect
<1>4. Executed[stmt] \in Effects
  BY <1>1, ExecutedEffect
<1>5. /\ Then(first, Executed[stmt]).memory = Executed[stmt][first.memory].memory
      /\ Then(first, Executed[stmt]).screen = first.screen \o Executed[stmt][first.memory].screen
  BY <1>1, <1>4, ThenOutcome
<1> QED
  BY <1>1, <1>2, <1>3, <1>5

LEMMA SleepIsBlank ==
  ASSUME NEW stmt, stmt.keyword = "SLEEP", WithinLimits(stmt), NEW m
  PROVE  ExecutePlain(Blank(m), stmt) = Blank(m)
BY DEF WithinLimits, ExecutePlain, ExecuteSleep

-----------------------------------------------------------------------------
(* The inductive invariant: after each cycle the process is where the       *)
(* interpreter would be after as many of the unrolled statements.           *)
RunInv ==
  /\ tree \in Seq(Nodes) /\ statements = Unroll(tree)
  /\ index \in 0 .. Len(statements)
  /\ memory \in Memories /\ logs \in Seq(Logged)
  /\ state = "FINISHED" => index = Len(statements)
  /\ Unrollable => Reflects(statements, index, memory, logs)

LEMMA UnrolledPlain ==
  ASSUME NEW program \in Seq(Nodes)
  PROVE  /\ Unroll(program) \in Seq(Nodes)
         /\ \A i \in 1 .. Len(Unroll(program)) : Unroll(program)[i].keyword # "FOR"
         /\ Unroll(program) \in Seq(PlainStatements)
<1>1. Unroll(program) \in Seq(PlainOf(Nodes))
  BY NodesHereditary, UnrollIn
<1>2. \A stmt \in PlainOf(Nodes) : stmt \in Nodes /\ stmt.keyword # "FOR" /\ stmt \in PlainStatements
  BY NodeParts DEF PlainOf
<1> HIDE DEF PlainOf
<1> QED
  BY <1>1, <1>2

LEMMA UnrollableIs ==
  ASSUME tree \in Seq(Nodes), Unrollable
  PROVE  tree \in Seq(Limited)
<1>1. \A i \in 1 .. Len(tree) : tree[i] \in Limited
  BY DEF Unrollable, Limited
<1> QED
  BY <1>1

LEMMA UnrolledLimited ==
  ASSUME NEW program \in Seq(Limited)
  PROVE  \A i \in 1 .. Len(Unroll(program)) : WithinLimits(Unroll(program)[i])
<1>1. Unroll(program) \in Seq(PlainOf(Limited))
  BY LimitedHereditary, UnrollIn
<1>2. \A stmt \in PlainOf(Limited) : WithinLimits(stmt)
  BY LimitedHereditary DEF PlainOf
<1> HIDE DEF PlainOf
<1> QED
  BY <1>1, <1>2

LEMMA RunInit == Init => RunInv
<1> SUFFICES ASSUME Init PROVE RunInv
  OBVIOUS
<1>1. tree \in Seq(Nodes) /\ statements = Unroll(tree)
  BY TreesAssumption DEF Init
<1>2. index = 0 /\ state = "READY" /\ memory = <<>> /\ logs = <<>>
  BY DEF Init, Fresh
<1>3. statements \in Seq(Nodes)
  BY <1>1, UnrolledPlain
<1>4. FirstOf(statements, 0) = Blank(<<>>)
  BY <1>3, FirstNone
<1>5. <<>> \in Seq(Logged) /\ OutputOf(<<>>) = <<>>
  <2>1. <<>> \in Seq(Logged)
    OBVIOUS
  <2>2. OutputOf(<<>>) = FlattenSeq(Each(Kept, <<>>))
    BY <2>1, OutputIs
  <2> QED
    BY <2>1, <2>2, EachNone, FlattenNone
<1>6. Reflects(statements, 0, <<>>, <<>>)
  BY <1>4, <1>5 DEF Reflects, Blank
<1>7. 0 \in 0 .. Len(statements)
  BY <1>3
<1> QED
  BY <1>1, <1>2, <1>5, <1>6, <1>7, NoMemory DEF RunInv

LEMMA RunExecutes == RunInv /\ Execute /\ UNCHANGED tree => RunInv'
<1> SUFFICES ASSUME RunInv, Execute, UNCHANGED tree PROVE RunInv'
  OBVIOUS
<1> DEFINE stmt == statements[index + 1]
           out == ExecutePlain(Blank(memory), stmt)
<1>1. tree \in Seq(Nodes) /\ statements = Unroll(tree) /\ index \in 0 .. Len(statements)
  BY DEF RunInv
<1>2. memory \in Memories /\ logs \in Seq(Logged)
  BY DEF RunInv
<1>3. /\ statements \in Seq(Nodes) /\ index \in 0 .. Len(statements) - 1
      /\ stmt \in Nodes /\ stmt.keyword # "FOR"
  <2>1. statements \in Seq(Nodes) /\ \A i \in 1 .. Len(statements) : statements[i].keyword # "FOR"
    BY <1>1, UnrolledPlain
  <2>2. index + 1 \in 1 .. Len(statements) /\ index \in 0 .. Len(statements) - 1
    BY <1>1, <2>1 DEF Execute
  <2> QED
    BY <2>1, <2>2
<1>4. /\ memory' = out.memory /\ logs' = logs \o out.screen /\ index' = index + 1
      /\ statements' = statements /\ tree' = tree
      /\ state' = "FINISHED" => index + 1 >= Len(statements)
  BY DEF Execute, IsLast
<1>5. out \in Outcomes
  BY <1>2, <1>3, PlainEffect
<1> HIDE DEF out
<1>6. out.memory \in Memories /\ out.screen \in Seq(Lines)
  BY <1>5 DEF Outcomes
<1>7. logs \o out.screen \in Seq(Logged) /\ OutputOf(logs \o out.screen) = OutputOf(logs) \o out.screen
  BY <1>2, <1>6, OutputLines
<1>8. ASSUME Unrollable
      PROVE  Reflects(statements, index + 1, out.memory, logs \o out.screen)
  <2>1. Reflects(statements, index, memory, logs)
    BY <1>8 DEF RunInv
  <2>2. /\ FirstOf(statements, index + 1).memory = out.memory
        /\ FirstOf(statements, index + 1).screen = OutputOf(logs) \o out.screen
    BY <1>2, <1>3, <2>1, NextReflects DEF out
  <2> QED
    BY <1>7, <2>2 DEF Reflects
<1>9. Unrollable' => Unrollable
  BY <1>4 DEF Unrollable
<1>10. index + 1 \in 0 .. Len(statements) /\ (state' = "FINISHED" => index + 1 = Len(statements))
  BY <1>3, <1>4
<1> HIDE DEF stmt
<1>11. Unrollable' => Reflects(statements, index, memory, logs)'
  BY <1>4, <1>8, <1>9
<1> QED
  BY <1>1, <1>4, <1>6, <1>7, <1>10, <1>11 DEF RunInv

LEMMA RunSleeps == RunInv /\ Sleep /\ UNCHANGED tree => RunInv'
<1> SUFFICES ASSUME RunInv, Sleep, UNCHANGED tree PROVE RunInv'
  OBVIOUS
<1> DEFINE stmt == statements[index + 1]
<1>1. tree \in Seq(Nodes) /\ statements = Unroll(tree) /\ index \in 0 .. Len(statements)
  BY DEF RunInv
<1>2. memory \in Memories /\ logs \in Seq(Logged)
  BY DEF RunInv
<1>3. /\ statements \in Seq(Nodes) /\ index \in 0 .. Len(statements) - 1
      /\ stmt \in Nodes /\ stmt.keyword = "SLEEP"
  <2>1. statements \in Seq(Nodes)
    BY <1>1, UnrolledPlain
  <2>2. index + 1 \in 1 .. Len(statements) /\ index \in 0 .. Len(statements) - 1
    BY <1>1, <2>1 DEF Sleep
  <2> QED
    BY <2>1, <2>2 DEF Sleep
<1>4. /\ memory' = memory /\ logs' = Append(logs, Slept(stmt)) /\ index' = index + 1
      /\ statements' = statements /\ tree' = tree
      /\ state' = "FINISHED" => index + 1 >= Len(statements)
  BY DEF Sleep, IsLast
<1>5. Append(logs, Slept(stmt)) \in Seq(Logged) /\ OutputOf(Append(logs, Slept(stmt))) = OutputOf(logs)
  BY <1>2, <1>3, OutputSlept
<1>6. ASSUME Unrollable
      PROVE  Reflects(statements, index + 1, memory, Append(logs, Slept(stmt)))
  <2>1. Reflects(statements, index, memory, logs)
    BY <1>6 DEF RunInv
  <2>2. WithinLimits(stmt)
    <3>1. \A i \in 1 .. Len(statements) : WithinLimits(statements[i])
      BY <1>1, <1>6, UnrollableIs, UnrolledLimited
    <3>2. index + 1 \in 1 .. Len(statements)
      BY <1>3
    <3> QED
      BY <3>1, <3>2
  <2>3. ExecutePlain(Blank(memory), stmt) = Blank(memory)
    BY <1>3, <2>2, SleepIsBlank
  <2>4. /\ FirstOf(statements, index + 1).memory = Blank(memory).memory
        /\ FirstOf(statements, index + 1).screen = OutputOf(logs) \o Blank(memory).screen
    BY <1>2, <1>3, <2>1, <2>3, NextReflects
  <2>5. Blank(memory).memory = memory /\ OutputOf(logs) \o Blank(memory).screen = OutputOf(logs)
    BY <1>2, OutputTyped DEF Blank
  <2> QED
    BY <1>5, <2>4, <2>5 DEF Reflects
<1>7. Unrollable' => Unrollable
  BY <1>4 DEF Unrollable
<1>8. index + 1 \in 0 .. Len(statements) /\ (state' = "FINISHED" => index + 1 = Len(statements))
  BY <1>3, <1>4
<1> HIDE DEF stmt
<1>9. Unrollable' => Reflects(statements, index, memory, logs)'
  BY <1>4, <1>6, <1>7
<1> QED
  BY <1>1, <1>2, <1>4, <1>5, <1>8, <1>9 DEF RunInv

(* A step that leaves program, position, memory and log alone keeps RunInv,  *)
(* if it finishes the process at the end of its program only.               *)
LEMMA RunKept ==
  ASSUME RunInv, UNCHANGED <<tree, statements, index, memory, logs>>,
         state' = "FINISHED" => index = Len(statements)
  PROVE  RunInv'
<1>1. Unrollable => Reflects(statements, index, memory, logs)
  BY DEF RunInv
<1>2. Unrollable' <=> Unrollable
  BY DEF Unrollable
<1>3. Reflects(statements, index, memory, logs)' <=> Reflects(statements, index, memory, logs)
  OBVIOUS
<1>4. Unrollable' => Reflects(statements, index, memory, logs)'
  BY <1>1, <1>2, <1>3
<1>5. /\ tree' \in Seq(Nodes) /\ statements' = Unroll(tree')
      /\ index' \in 0 .. Len(statements')
      /\ memory' \in Memories /\ logs' \in Seq(Logged)
  BY DEF RunInv
<1>6. state' = "FINISHED" => index' = Len(statements')
  OBVIOUS
<1> QED
  BY <1>4, <1>5, <1>6 DEF RunInv

LEMMA RunStep == RunInv /\ [Next]_vars => RunInv'
<1> SUFFICES ASSUME RunInv, [Next]_vars PROVE RunInv'
  OBVIOUS
<1>1. CASE Execute /\ UNCHANGED tree
  BY <1>1, RunExecutes
<1>2. CASE Sleep /\ UNCHANGED tree
  BY <1>2, RunSleeps
<1>3. CASE (FinishAtOnce \/ UpdateSleeping) /\ UNCHANGED tree
  <2>1. UNCHANGED <<tree, statements, index, memory, logs>>
    BY <1>3 DEF FinishAtOnce, UpdateSleeping
  <2>2. state' = "FINISHED" => index >= Len(statements)
    BY <1>3 DEF FinishAtOnce, UpdateSleeping
  <2>3. tree \in Seq(Nodes) /\ statements = Unroll(tree) /\ index \in 0 .. Len(statements)
    BY DEF RunInv
  <2>4. state' = "FINISHED" => index = Len(statements)
    <3>1. Len(statements) \in Nat
      BY <2>3, UnrolledPlain
    <3>2. \A n \in Nat : index \in 0 .. n /\ index >= n => index = n
      OBVIOUS
    <3> QED
      BY <2>2, <2>3, <3>1, <3>2
  <2> QED
    BY <2>1, <2>4, RunKept
<1>4. CASE UNCHANGED vars
  <2>1. UNCHANGED <<tree, statements, index, state, memory, logs>>
    BY <1>4 DEF vars, cycleVars
  <2>2. state' = "FINISHED" => index = Len(statements)
    BY <2>1 DEF RunInv
  <2> QED
    BY <2>1, <2>2, RunKept
<1> QED
  BY <1>1, <1>2, <1>3, <1>4 DEF Next, Cycle

LEMMA Run == Spec => []RunInv
<1> QED
  BY RunInit, RunStep, PTL DEF Spec

-----------------------------------------------------------------------------
(* However loops are nested, what a process is given to execute are plain   *)
(* statements, and all its steps are cycles of such a process.              *)
THEOREM UnrollingLeavesPlain == Spec => CyclesSpec
<1>1. Init => CyclesInit
  <2> SUFFICES ASSUME Init PROVE CyclesInit
    OBVIOUS
  <2>1. tree \in Seq(Nodes) /\ statements = Unroll(tree) /\ Fresh
    BY TreesAssumption DEF Init
  <2> QED
    BY <2>1, UnrolledPlain DEF CyclesInit
<1>2. [Next]_vars => [Cycle]_cycleVars
  BY DEF Next, vars
<1> QED
  BY <1>1, <1>2, PTL DEF Spec, CyclesSpec

LEMMA PrefixOfConcat ==
  ASSUME NEW S, NEW s \in Seq(S), NEW t \in Seq(S)
  PROVE  IsPrefix(s, s \o t)
<1>1. s \o t \in Seq(S) /\ Len(s) <= Len(s \o t)
  OBVIOUS
<1>2. SubSeq(s, 1, Len(s)) = SubSeq(s \o t, 1, Len(s))
  OBVIOUS
<1> QED
  BY <1>1, <1>2 DEF IsPrefix

LEMMA SplitAt ==
  ASSUME NEW S, NEW s \in Seq(S), NEW k \in 0 .. Len(s)
  PROVE  SubSeq(s, 1, k) \o SubSeq(s, k + 1, Len(s)) = s
<1> DEFINE front == SubSeq(s, 1, k)
           rest == SubSeq(s, k + 1, Len(s))
<1>1. front \in Seq(S) /\ Len(front) = k /\ \A i \in 1 .. k : front[i] = s[i]
  OBVIOUS
<1>2. Len(s) \in Nat /\ k \in Nat /\ k <= Len(s)
  OBVIOUS
<1>3. rest \in Seq(S) /\ Len(rest) = Len(s) - k
  BY <1>2
<1>4. \A i \in 1 .. Len(s) - k : rest[i] = s[k + i]
  BY <1>2
<1> HIDE DEF front, rest
<1>5. front \o rest \in Seq(S) /\ Len(front \o rest) = Len(s)
  BY <1>1, <1>2, <1>3
<1>6. ASSUME NEW i \in 1 .. Len(s) PROVE (front \o rest)[i] = s[i]
  <2>1. CASE i <= k
    BY <1>1, <1>2, <1>3, <2>1
  <2>2. CASE ~(i <= k)
    <3>1. i - k \in 1 .. Len(s) - k /\ k + (i - k) = i
      BY <1>2, <2>2
    <3>2. (front \o rest)[i] = rest[i - k]
      BY <1>1, <1>2, <1>3, <2>2
    <3>3. rest[i - k] = s[k + (i - k)]
      BY <1>4, <3>1
    <3> QED
      BY <3>1, <3>2, <3>3
  <2> QED
    BY <2>1, <2>2
<1> DEFINE whole == front \o rest
<1>7. whole \in Seq(S) /\ Len(whole) = Len(s) /\ \A i \in 1 .. Len(s) : whole[i] = s[i]
  BY <1>5, <1>6
<1> HIDE DEF whole
<1>8. whole = s
  BY <1>7
<1> QED
  BY <1>8 DEF front, rest, whole

LEMMA FirstOfAll ==
  ASSUME NEW st \in Seq(Nodes), NEW k \in 0 .. Len(st)
  PROVE  /\ IsPrefix(FirstOf(st, k).screen, FirstOf(st, Len(st)).screen)
         /\ FirstOf(st, Len(st)) = ExecuteStatements(Each(Executed, st), <<>>)
<1> DEFINE front == SubSeq(st, 1, k)
           rest == SubSeq(st, k + 1, Len(st))
           before == Each(Executed, front)
           after == Each(Executed, rest)
<1>1. front \in Seq(Nodes) /\ rest \in Seq(Nodes) /\ SubSeq(st, 1, Len(st)) = st
  OBVIOUS
<1>2. front \o rest = st
  BY SplitAt
<1> HIDE DEF front, rest
<1>3. Each(Executed, front \o rest) = before \o after
  BY <1>1, EachBoth
<1>4. before \in Seq(Effects) /\ after \in Seq(Effects)
  BY <1>1, ProgramEffects
<1> HIDE DEF before, after
<1> DEFINE first == ExecuteStatements(before, <<>>)
           then == ExecuteStatements(after, first.memory)
           both == ExecuteStatements(before \o after, <<>>)
<1>5. first \in Outcomes
  BY <1>4, NoMemory, RunOutcome
<1>6. first.memory \in Memories /\ first.screen \in Seq(Lines)
  BY <1>5 DEF Outcomes
<1>7. then \in Outcomes
  <2> HIDE DEF first
  <2> QED
    BY <1>4, <1>6, RunOutcome
<1>8. then.screen \in Seq(Lines)
  BY <1>7 DEF Outcomes
<1>9. both.screen = first.screen \o then.screen
  BY <1>4, NoMemory, RunBoth
<1> HIDE DEF first, then, both
<1>10. IsPrefix(first.screen, both.screen)
  BY <1>6, <1>8, <1>9, PrefixOfConcat
<1> QED
  BY <1>1, <1>2, <1>3, <1>10 DEF FirstOf, first, both, before, front

LEMMA RunReflects == RunInv => RunsAsInterpreted
<1> SUFFICES ASSUME RunInv, Unrollable
             PROVE  /\ IsPrefix(Output, Interpret(tree).screen)
                    /\ state = "FINISHED" =>
                         Output = Interpret(tree).screen /\ memory = Interpret(tree).memory
  BY DEF RunsAsInterpreted
<1>1. tree \in Seq(Nodes) /\ statements = Unroll(tree) /\ index \in 0 .. Len(statements)
  BY DEF RunInv
<1>2. FirstOf(statements, index).memory = memory /\ FirstOf(statements, index).screen = Output
  BY DEF RunInv, Reflects, Output, OutputOf
<1>3. state = "FINISHED" => index = Len(statements)
  BY DEF RunInv
<1>4. statements \in Seq(Nodes)
  BY <1>1, UnrolledPlain
<1>5. Interpret(tree) = ExecuteStatements(Each(Executed, statements), <<>>)
  <2>1. Limited \in SUBSET Nodes /\ \A stmt \in Limited : UnrollsWell(stmt)
    BY LimitedHereditary, UnrolledStatement DEF Limited
  <2>2. tree \in Seq(Limited)
    BY <1>1, UnrollableIs
  <2> QED
    BY <1>1, <2>1, <2>2, NoMemory, UnrolledProgram DEF Interpret
<1>6. /\ IsPrefix(FirstOf(statements, index).screen, FirstOf(statements, Len(statements)).screen)
      /\ FirstOf(statements, Len(statements)) = Interpret(tree)
  BY <1>1, <1>4, <1>5, FirstOfAll
<1> QED
  BY <1>2, <1>3, <1>6

(* One statement per cycle, with sleeps in between and every loop unrolled  *)
(* beforehand, comes to what the interpreter makes of the whole program in  *)
(* one go: line by line, and in the memory left.                            *)
THEOREM RunsInSteps == Spec => []RunsAsInterpreted
BY Run, RunReflects, PTL

LEMMA GeneratedExecutes ==
  ASSUME NEW name \in ProcessNames, GreetingReads(name), NEW program \in Seq(Nodes),
         \A i \in DOMAIN program : <<name, program[i]>> \in Drawn
  PROVE  \A i \in 1 .. Len(Unroll(program)) : ~Fails(Unroll(program)[i])
<1>1. program \in Seq(Random(name))
  <2>1. ASSUME NEW i \in 1 .. Len(program)
        PROVE  program[i] \in RandomStatements[name][0]
    <3>1. <<name, program[i]>> \in Drawn
      OBVIOUS
    <3>2. PICK other \in ProcessNames :
            <<name, program[i]>> \in {other} \X RandomStatements[other][0]
      BY <3>1 DEF Drawn
    <3>3. name = other /\ program[i] \in RandomStatements[other][0]
      BY <3>2
    <3> QED
      BY <3>3
  <2>2. \A i \in 1 .. Len(program) : program[i] \in Random(name)
    BY <2>1 DEF Random
  <2> QED
    BY <2>2
<1>2. Unroll(program) \in Seq(PlainOf(Random(name)))
  BY <1>1, RandomHereditary, UnrollIn
<1>3. \A stmt \in PlainOf(Random(name)) : ~Fails(stmt)
  BY RandomHereditary
<1> HIDE DEF PlainOf
<1> QED
  BY <1>2, <1>3

LEMMA GeneratedFine == RunInv /\ FailuresAreLogged => GeneratedRunsClean
<1> SUFFICES ASSUME RunInv, FailuresAreLogged, NEW name \in ProcessNames,
                    IsGenerated(name), GreetingReads(name), NEW k \in DOMAIN logs
             PROVE  logs[k] \notin {Warning, Error}
  BY DEF GeneratedRunsClean
<1>1. /\ tree \in Seq(Nodes) /\ statements = Unroll(tree)
      /\ index \in 0 .. Len(statements) /\ logs \in Seq(Logged)
  BY DEF RunInv
<1>2. \A i \in 1 .. Len(statements) : ~Fails(statements[i])
  BY <1>1, GeneratedExecutes DEF IsGenerated
<1>3. Len(statements) \in Nat
  BY <1>1, UnrolledPlain
<1>4. ~ \E i \in 1 .. index : Fails(statements[i])
  BY <1>1, <1>2, <1>3
<1>5. k \in 1 .. Len(logs)
  BY <1>1
<1> QED
  BY <1>4, <1>5 DEF FailuresAreLogged

(* A program of statements that GetRandomStatement returns for a process of *)
(* any name, with loops in loops and the largest numbers, executes without  *)
(* a warning or an error, unless what follows a plus sign in the name is a  *)
(* number that no unsigned long holds.                                      *)
THEOREM GeneratedClean == Spec => []GeneratedRunsClean
BY UnrollingLeavesPlain, FailuresLogged, Run, GeneratedFine, PTL
=============================================================================

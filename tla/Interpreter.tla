----------------------------- MODULE Interpreter -----------------------------
(***************************************************************************)
(* Loops: how the interpreter executes a FOR in one go, how a Process      *)
(* unrolls one when it is given an instruction, and the programs that      *)
(* GetRandomStatement may produce.  Loops are nested in loops, so these    *)
(* are recursive functions on the statements, defined one level at a time. *)
(***************************************************************************)
EXTENDS Statements

CONSTANTS
  Nodes,         \* the statements: those of the programs, and all nested in them
  Nesting,       \* how many levels of loops there are in each of them
  ProcessNames,  \* the names of processes: screen -s takes any without a space
  Numbers,       \* the numbers,
  Variables,     \*   variable names,
  Counts,        \*   loop counts
  BodySizes      \*   and numbers of statements in a loop that are drawn

Loops ==
  [keyword : {"FOR"}, args : Seq(Tokens), nested : Seq(Nodes)]

ASSUME NodesAssumption ==
  /\ Nodes \subseteq PlainStatements \cup Loops
  /\ Nesting \in [Nodes -> Nat]
  /\ \A stmt \in Nodes : \A i \in DOMAIN stmt.nested : Nesting[stmt.nested[i]] < Nesting[stmt]

ASSUME DrawnAssumption ==
  /\ ProcessNames \subseteq Seq(Tokens)
  /\ Numbers \subseteq 0 .. Modulus - 1 /\ Counts \subseteq 0 .. Modulus - 1 /\ BodySizes \subseteq Nat

Times(n, seq) == FlattenSeq([i \in 1 .. n |-> seq])

Each(f, seq) == [i \in DOMAIN seq |-> f[seq[i]]]

-----------------------------------------------------------------------------
(* The names a statement may give to a variable, and the memories there may *)
(* be of such variables.                                                    *)
OperandsOf(stmt) ==
  IF stmt.keyword # "PRINT" THEN stmt.args
  ELSE IF PrintsNumber(stmt.args) THEN <<PrintOperand(stmt.args)>> ELSE <<>>

NamesIn(stmt) ==
  {OperandsOf(stmt)[i].text : i \in {j \in DOMAIN OperandsOf(stmt) :
     \/ IsVariable(OperandsOf(stmt)[j])
     \/ j = 1 /\ stmt.keyword \in {"DECLARE", "ADD", "SUBTRACT"}}}

Names == UNION {NamesIn(stmt) : stmt \in Nodes}

Memories == UNION {[known -> 0 .. Modulus - 1] : known \in SUBSET Names}

(* What a statement does, as a function: it takes a memory to the memory    *)
(* and the lines that the statement leaves.                                 *)
Then(s, effect) ==
  LET out == effect[s.memory] IN [memory |-> out.memory, screen |-> s.screen \o out.screen]

(* executeStatements, of statements with these effects.                     *)
ExecuteStatements(effects, memory) ==
  LET after[i \in 0 .. Len(effects)] ==
        IF i = 0 THEN Blank(memory) ELSE Then(after[i - 1], effects[i])
  IN  after[Len(effects)]

(* executeFor: the count is resolved once, before the first iteration.      *)
ExecuteFor(executed, stmt, memory) ==
  IF Len(stmt.args) < 2 THEN Blank(memory)
  ELSE IF ~ResolveOK(stmt.args[2]) THEN Say(Blank(memory), Error)
  ELSE LET s == Touch(Blank(memory), stmt.args[2])
           body == Times(Resolve(s, stmt.args[2]), stmt.nested)
       IN  ExecuteStatements(Each(executed, body), s.memory)

(* executeStatement, given what the statements nested in it do.             *)
ExecuteStatement(executed, stmt, memory) ==
  IF stmt.keyword = "FOR" THEN ExecuteFor(executed, stmt, memory)
  ELSE ExecutePlain(Blank(memory), stmt)

Executed[stmt \in Nodes] == [m \in Memories |-> ExecuteStatement(Executed, stmt, m)]

(* A program in one go, from an empty memory.                               *)
Interpret(program) == ExecuteStatements(Each(Executed, program), <<>>)

-----------------------------------------------------------------------------
(* Process::AddInstruction unrolls a FOR, however deeply nested, into the   *)
(* plain statements that are to be executed.                                *)

(* Variant: the loop runs once too often.                                   *)
RepeatsPlusOne(stmt) == IF Len(stmt.args) >= 2 THEN stmt.args[2].value + 1 ELSE 1

Repeats(stmt) ==
  IF Len(stmt.args) >= 2 /\ StoiOK(stmt.args[2]) THEN stmt.args[2].value ELSE 1

(* What it appends, given what it appends for the statements nested in one. *)
AddInstruction(unrolled, stmt) ==
  IF stmt.keyword = "FOR"
  THEN FlattenSeq(Each(unrolled, Times(Repeats(stmt), stmt.nested)))
  ELSE <<stmt>>

Unrolled[stmt \in Nodes] == AddInstruction(Unrolled, stmt)

Unroll(program) == FlattenSeq(Each(Unrolled, program))

-----------------------------------------------------------------------------
(* GetRandomStatement: the statements it may return to a process of a name  *)
(* at depth `depth`, with the numbers, variables and loop shapes drawn from *)
(* the given sets.                                                          *)
Hello == Word("Hello world from")
Exclamation == Word("!")

Message(name) == <<Hello>> \o name \o <<Exclamation>>

Greeting(name) == Stmt("PRINT", <<Quote>> \o Message(name) \o <<Quote>>)

Literals == {Unsigned(n) : n \in Numbers}
Words == {Word(v) : v \in Variables}

DrawArithmetic(keyword) ==
  {Stmt(keyword, <<v, a, n>>) : v \in Words, a \in Words, n \in Literals}

Draw(name, depth, bodies) ==
  {Greeting(name)}
    \cup {Stmt("DECLARE", <<v, n>>) : v \in Words, n \in Literals}
    \cup DrawArithmetic("ADD") \cup DrawArithmetic("SUBTRACT")
    \cup {Stmt("SLEEP", <<n>>) : n \in Literals}
    \cup (IF depth >= 3 THEN {} ELSE {For(Unsigned(c), body) : c \in Counts, body \in bodies})

Bodies(drawn) == UNION {[1 .. n -> drawn] : n \in BodySizes}

RandomStatements ==
  [name \in ProcessNames |->
    LET drawn[depth \in 0 .. 3] ==
          Draw(name, depth, IF depth >= 3 THEN {} ELSE Bodies(drawn[depth + 1]))
    IN  drawn]

(* The statements of generated programs, each with the name of its process. *)
Drawn == UNION {{name} \X RandomStatements[name][0] : name \in ProcessNames}
=============================================================================

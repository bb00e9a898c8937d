----------------------------- MODULE MCProcessRun -----------------------------
(* Small programs for ProcessText. *)
EXTENDS ProcessText

CONSTANTS MaxLength  \* bound: statements of a program, loops counted once

x == Word("x")
y == Word("y")

Literal(text) == <<Quote>> \o text \o <<Quote>>

PrintOf(arg) == Stmt("PRINT", arg)

(* Every keyword, with operands of every kind, missing, malformed and out   *)
(* of range; literals with commas, brackets and plus signs in them; loops   *)
(* that are nested, empty, endless in one type only.                        *)
Pool == {
  PrintOf(Literal(<<>>)), PrintOf(Literal(<<Word("a"), Plus, Word("b")>>)), PrintOf(<<Unsigned(5)>>),
  PrintOf(Literal(<<Word("a"), Comma, Space, OpenBracket, Word("b"), CloseBracket>>)),
  PrintOf(Literal(<<Symbol(":"), Close>>) \o <<Plus, x>>),
  PrintOf(Literal(<<Word("x is")>>) \o <<Space, Plus, Space, x>>),
  Stmt("DECLARE", <<x, Signed(-1)>>), Stmt("DECLARE", <<x, Unsigned(5)>>),
  Stmt("DECLARE", <<x, y>>), Stmt("DECLARE", <<>>), Stmt("DECLARE", <<y, Unsigned(9)>>),
  Stmt("ADD", <<x, x, Unsigned(3)>>), Stmt("ADD", <<y, x, Signed(-1)>>),
  Stmt("SUBTRACT", <<x, y, Unsigned(2)>>), Stmt("SUBTRACT", <<y, Unsigned(20), x>>),
  Stmt("SLEEP", <<Unsigned(0)>>), Stmt("SLEEP", <<Unsigned(2)>>), Stmt("SLEEP", <<x>>),
  Stmt("DBG", <<>>), Stmt("UNKNOWN", <<>>),
  For(Unsigned(3), <<Stmt("ADD", <<x, x, Unsigned(3)>>), PrintOf(<<x>>)>>),
  For(Unsigned(2), <<For(Unsigned(2), <<PrintOf(Literal(<<Comma, Space>>))>>),
                     Stmt("SLEEP", <<Unsigned(1)>>)>>),
  For(Unsigned(0), <<Stmt("DBG", <<>>)>>), For(x, <<PrintOf(<<y>>)>>),
  For(Unsigned(5), <<PrintOf(Literal(<<Word("wrap")>>))>>) }

(* The names of processes: a plain one, and ones with a plus sign before a  *)
(* number and before a number that is too large.                            *)
SmallNames ==
  {<<Word("p")>>, <<Word("a"), Plus, Unsigned(7)>>, <<Word("a"), Plus, Unsigned(99)>>}

Short(set, n) == UNION {[1 .. k -> set] : k \in 0 .. n}

(* Generated programs, whose numbers are the smallest and the largest.      *)
SmallNumbers == {0, Modulus - 1}

Generated(depth) == UNION {RandomStatements[name][depth] : name \in ProcessNames}

SmallTrees ==
  Short(Pool, MaxLength)
    \cup UNION {Short(RandomStatements[name][2], 1) \cup Short(RandomStatements[name][3], 2) :
                 name \in ProcessNames}

RECURSIVE Height(_)
Height(stmt) ==
  IF stmt.nested = <<>> THEN 0 ELSE 1 + Max({Height(part) : part \in Range(stmt.nested)})

RECURSIVE Within(_)
Within(stmt) == {stmt} \cup UNION {Within(part) : part \in Range(stmt.nested)}

SmallNodes == UNION {Within(stmt) : stmt \in Pool \cup Generated(2) \cup Generated(3)}

SmallNesting == [stmt \in SmallNodes |-> Height(stmt)]
=============================================================================

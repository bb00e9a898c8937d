----------------------------- MODULE Statements -----------------------------
(***************************************************************************)
(* The plain statements of commands/Interpreter.hpp, all but the FOR: what *)
(* executing one does to the memory of the interpreter and what it puts on *)
(* the screen buffer.  Pure operators.                                     *)
(*                                                                         *)
(* Text is a sequence of tokens.  An operand is one token, reduced to what *)
(* the conversions make of it:                                             *)
(*   word      a variable name, in which no number begins                  *)
(*   unsigned  begins with a digit: stoi, stol and stoul read its value    *)
(*   signed    a minus before the digits: stoi and stol read the value,    *)
(*             but resolveOperand takes the text for the name of a variable*)
(*   empty     no text                                                     *)
(*   symbol    a character that the scans of the interpreter look for      *)
(* Only the argument of a PRINT is more than an operand; executePrint      *)
(* scans it each time.  The widths of the integers are constants, so that  *)
(* small numbers wrap.                                                     *)
(***************************************************************************)
EXTENDS Integers, Sequences, SequencesExt, FiniteSetsExt, TLC

CONSTANTS
  IntMax,   \* the largest int
  LongMax,  \* the largest long
  Modulus   \* how many values a uint16_t has

ASSUME WidthAssumption ==
  /\ Modulus \in Nat \ {0, 1}
  /\ IntMax \in Nat /\ LongMax \in Nat /\ Modulus <= IntMax /\ IntMax <= LongMax

NoText == ""

Word(name) == [kind |-> "word", text |-> name, value |-> 0]
Unsigned(n) == [kind |-> "unsigned", text |-> ToString(n), value |-> n]
Signed(n) == [kind |-> "signed", text |-> ToString(n), value |-> n]
Empty == [kind |-> "empty", text |-> NoText, value |-> 0]

Symbol(t) == [kind |-> "symbol", text |-> t, value |-> 0]
Space == Symbol(" ")
Plus == Symbol("+")
Quote == Symbol("'")

Keywords == {"PRINT", "DECLARE", "ADD", "SUBTRACT", "SLEEP", "FOR", "DBG", "UNKNOWN"}

(* A Statement.  A PRINT has one argument, and its args are the tokens of   *)
(* it; the args of the others are operands.  Only a FOR has statements      *)
(* nested in it; its arguments are the text of the block and the count.     *)
Stmt(keyword, args) == [keyword |-> keyword, args |-> args, nested |-> <<>>]
For(count, body) == [Stmt("FOR", <<Empty, count>>) EXCEPT !.nested = body]

Tokens ==
  [kind : {"word", "unsigned", "signed", "empty", "symbol"}, text : STRING, value : Int]

PlainStatements ==
  [keyword : Keywords \ {"FOR"}, args : Seq(Tokens), nested : {<<>>}]

-----------------------------------------------------------------------------
(* Scanning; a position that is not found is 0.                             *)
FindFrom(text, token, i) == SelectInSubSeq(text, i, Len(text), LAMBDA t : t = token)
Find(text, token) == FindFrom(text, token, 1)

Trim(text) ==
  LET solid == {i \in DOMAIN text : text[i] # Space}
  IN  IF solid = {} THEN <<>> ELSE SubSeq(text, Min(solid), Max(solid))

(* substr behind position i and before j; an unsigned length that would be  *)
(* negative takes all the rest.                                             *)
Between(text, i, j) == Trim(SubSeq(text, i + 1, IF j <= i THEN Len(text) ELSE j - 1))

(* Text taken for an operand: its beginning decides what it is, and all of  *)
(* it is the name of a variable.                                            *)
Joined(text) == FoldLeft(LAMBDA all, t : all \o t.text, NoText, text)

Operand(text) == IF text = <<>> THEN Empty ELSE [text[1] EXCEPT !.text = Joined(text)]

IsLiteral(text) == text # <<>> /\ Head(text) = Quote /\ Last(text) = Quote

-----------------------------------------------------------------------------
(* Conversions.  The C++ library throws where there is no number to read or *)
(* the number does not fit the type.                                        *)
HasNumber(o) == o.kind \in {"unsigned", "signed"}

StoiOK(o) == HasNumber(o) /\ o.value \in -IntMax - 1 .. IntMax
StolOK(o) == HasNumber(o) /\ o.value \in -LongMax - 1 .. LongMax

(* An unsigned long has one bit more, and a sign wraps around.              *)
StoulOK(o) == HasNumber(o) /\ o.value \in -2 * LongMax - 1 .. 2 * LongMax + 1

(* Variant: variables are kept as int.                                      *)
Untruncated(n) == n

(* What a uint16_t keeps of a value.                                        *)
Uint16(n) == n % Modulus

(* executeDeclare stores the nearest value that fits.                       *)
Clamp(n) == Uint16(IF n < 0 THEN 0 ELSE IF n > Modulus - 1 THEN Modulus - 1 ELSE n)

-----------------------------------------------------------------------------
(* The state of an interpreter: memory maps names to values, screen is the  *)
(* screen buffer, which is flushed between statements.                      *)
Blank(memory) == [memory |-> memory, screen |-> <<>>]

(* A line of literal text, then of at most one number.                      *)
Printed(text, number) == <<"printed", text, number>>
Warning == <<"warning">>
Error == <<"error">>

Say(s, line) == [s EXCEPT !.screen = Append(@, line)]
Store(s, name, n) ==
  [s EXCEPT !.memory = [v \in DOMAIN @ \cup {name} |-> IF v = name THEN n ELSE @[v]]]

IsVariable(o) == o.kind \notin {"empty", "unsigned"}

(* Variant: a variable is reset whenever it is read.                        *)
TouchAlways(s, o) == IF IsVariable(o) THEN Store(s, o.text, 0) ELSE s

(* resolveOperand: reading a variable that is missing creates it as zero.   *)
Touch(s, o) ==
  IF IsVariable(o) /\ o.text \notin DOMAIN s.memory THEN Store(s, o.text, 0) ELSE s

(* Variant: any text is read as a number.                                   *)
ResolveAsNumber(o) == o.kind # "empty" => StoulOK(o)

ResolveOK(o) == o.kind = "unsigned" => StoulOK(o)

Resolve(s, o) ==
  CASE o.kind = "empty" -> 0
    [] o.kind = "unsigned" -> Uint16(o.value)
    [] OTHER -> Touch(s, o).memory[o.text]

(* executePrint looks for a plus sign in all of its argument, in a literal  *)
(* too.  It takes what stands behind the first one for a number, and drops  *)
(* what stands before it if that is no literal.                             *)
PrintsNumber(arg) == Find(arg, Plus) # 0 \/ ~IsLiteral(arg)

PrintOperand(arg) ==
  LET plus == Find(arg, Plus) IN Operand(IF plus = 0 THEN arg ELSE Between(arg, plus, 0))

PrintText(arg) ==
  LET plus == Find(arg, Plus)
      text == IF plus = 0 THEN arg ELSE Trim(SubSeq(arg, 1, plus - 1))
  IN  IF IsLiteral(text) THEN SubSeq(text, 2, Len(text) - 1) ELSE <<>>

ExecutePrint(s, stmt) ==
  LET text == PrintText(stmt.args)
      o == PrintOperand(stmt.args)
  IN  IF stmt.args = <<>> THEN s
      ELSE IF ~PrintsNumber(stmt.args) THEN Say(s, Printed(text, <<>>))
      ELSE IF ~ResolveOK(o) THEN Say(s, Error)
      ELSE Say(Touch(s, o), Printed(text, <<Resolve(s, o)>>))

(* Variant: a variable is declared once.                                    *)
ExecuteDeclareOnce(s, stmt) ==
  IF Len(stmt.args) < 2 THEN s
  ELSE IF ~StolOK(stmt.args[2]) \/ stmt.args[1].text \in DOMAIN s.memory THEN Say(s, Error)
  ELSE Store(s, stmt.args[1].text, Clamp(stmt.args[2].value))

ExecuteDeclare(s, stmt) ==
  IF Len(stmt.args) < 2 THEN s
  ELSE IF ~StolOK(stmt.args[2]) THEN Say(s, Error)
  ELSE Store(s, stmt.args[1].text, Clamp(stmt.args[2].value))

(* The operands are resolved left to right; C++ leaves the order open, but  *)
(* it shows only when one of them does not fit an unsigned long.            *)
ExecuteArithmetic(s, stmt, sign) ==
  IF Len(stmt.args) < 3 THEN s
  ELSE LET a == stmt.args[2]
           b == stmt.args[3]
           touched == Touch(Touch(s, a), b)
       IN  IF ~ResolveOK(a) THEN Say(s, Error)
           ELSE IF ~ResolveOK(b) THEN Say(Touch(s, a), Error)
           ELSE Store(touched, stmt.args[1].text, Uint16(Resolve(s, a) + sign * Resolve(touched, b)))

(* The thread sleeps; nothing the program can read changes.                 *)
ExecuteSleep(s, stmt) ==
  IF stmt.args # <<>> /\ ~StoulOK(stmt.args[1]) THEN Say(s, Error) ELSE s

ExecuteDebug(s) == Say(s, <<"dump", s.memory>>)

(* executeStatement but for loops: an exception ends the statement.         *)
ExecutePlain(s, stmt) ==
  CASE stmt.keyword = "PRINT" -> ExecutePrint(s, stmt)
    [] stmt.keyword = "DECLARE" -> ExecuteDeclare(s, stmt)
    [] stmt.keyword = "ADD" -> ExecuteArithmetic(s, stmt, 1)
    [] stmt.keyword = "SUBTRACT" -> ExecuteArithmetic(s, stmt, -1)
    [] stmt.keyword = "SLEEP" -> ExecuteSleep(s, stmt)
    [] stmt.keyword = "DBG" -> ExecuteDebug(s)
    [] stmt.keyword = "UNKNOWN" -> Say(s, Warning)
=============================================================================

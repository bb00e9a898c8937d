-------------------------------- MODULE Parser --------------------------------
(***************************************************************************)
(* The parser of commands/Interpreter.hpp: splitInstructions, the keyword  *)
(* of a statement, extractArgs and the recursion into the body of a FOR.   *)
(* Pure operators on the texts of Statements.tla, for TLC.                 *)
(*                                                                         *)
(* The parser knows no tokens and scans for single characters; so do the   *)
(* operators here, inside quotes as well.                                  *)
(***************************************************************************)
EXTENDS Statements

Comma == Symbol(",")
Open == Symbol("(")
Close == Symbol(")")
OpenBracket == Symbol("[")
CloseBracket == Symbol("]")

-----------------------------------------------------------------------------
FindLast(text, token) == SelectLastInSeq(text, LAMBDA t : t = token)

(* How many of `opening` are still open after position i.                   *)
Depth(text, opening, closing, i) ==
  LET CountOf(set) == Cardinality({k \in 1 .. i : text[k] \in set})
  IN  CountOf(opening) - CountOf(closing)

(* splitInstructions: cut at the commas outside of every bracket.           *)
SplitInstructions(text) ==
  LET cuts == {i \in DOMAIN text : text[i] = Comma /\
                 Depth(text, {Open, OpenBracket}, {Close, CloseBracket}, i) = 0}
      ends == SetToSortSeq(cuts \cup {0, Len(text) + 1}, <)
      pieces == [k \in 1 .. Len(ends) - 1 |-> Trim(SubSeq(text, ends[k] + 1, ends[k + 1] - 1))]
  IN  SelectSeq(pieces, LAMBDA piece : piece # <<>>)

-----------------------------------------------------------------------------
(* One statement.                                                           *)
IdentifyKeyword(text) ==
  CASE text = <<Symbol("DBG!")>> -> "DBG"
    [] IsPrefix(<<Symbol("FOR"), Open, OpenBracket>>, text) -> "FOR"
    [] \E k \in {"PRINT", "DECLARE", "ADD", "SUBTRACT", "SLEEP"} :
         IsPrefix(<<Symbol(k), Open>>, text) -> text[1].text
    [] OTHER -> "UNKNOWN"

(* extractArgs.  The argument of a PRINT goes up to the last parenthesis;   *)
(* one of no text is an argument all the same.                              *)
PrintArgs(text) ==
  LET end == FindLast(text, Close)
      arg == Between(text, 2, end)
  IN  IF end = 0 THEN <<>> ELSE IF arg = <<>> THEN <<Empty>> ELSE arg

(* The others end at the first one.                                         *)
DeclareArgs(text) ==
  LET comma == Find(text, Comma)
      end == Find(text, Close)
  IN  IF comma <= 3 \/ end = 0 THEN <<>>
      ELSE <<Operand(Between(text, 2, comma)), Operand(Between(text, comma, end))>>

ArithmeticArgs(text) ==
  LET comma1 == Find(text, Comma)
      comma2 == FindFrom(text, Comma, comma1 + 1)
      end == Find(text, Close)
  IN  IF 0 \in {comma1, comma2, end} THEN <<>>
      ELSE <<Operand(Between(text, 2, comma1)), Operand(Between(text, comma1, comma2)),
             Operand(Between(text, comma2, end))>>

SleepArgs(text) ==
  LET end == Find(text, Close)
  IN  IF end = 0 THEN <<>> ELSE <<Operand(Between(text, 2, end))>>

(* Variant: the first closing bracket ends the body.                        *)
FirstClosing(text) == Find(text, CloseBracket)

(* The bracket that closes the body of a FOR.                               *)
ClosingBracket(text) ==
  LET closed == {i \in DOMAIN text : text[i] = CloseBracket
                   /\ Depth(text, {OpenBracket}, {CloseBracket}, i) = 0}
  IN  IF closed = {} THEN 0 ELSE Min(closed)

RECURSIVE ParseStatement(_)

(* parseBlock: a program, or the body of a FOR.                             *)
ParseBlock(text) ==
  LET pieces == SplitInstructions(text)
  IN  [k \in DOMAIN pieces |-> ParseStatement(pieces[k])]

ParseFor(text) ==
  LET bracket == ClosingBracket(text)
      comma == IF bracket = 0 THEN 0 ELSE FindFrom(text, Comma, bracket)
      end == FindLast(text, Close)
  IN  IF 0 \in {comma, end} THEN Stmt("FOR", <<>>)
      ELSE For(Operand(Between(text, comma, end)), ParseBlock(SubSeq(text, 4, bracket - 1)))

ParseStatement(text) ==
  LET keyword == IdentifyKeyword(text) IN
  CASE keyword = "PRINT" -> Stmt(keyword, PrintArgs(text))
    [] keyword = "DECLARE" -> Stmt(keyword, DeclareArgs(text))
    [] keyword \in {"ADD", "SUBTRACT"} -> Stmt(keyword, ArithmeticArgs(text))
    [] keyword = "SLEEP" -> Stmt(keyword, SleepArgs(text))
    [] keyword = "FOR" -> ParseFor(text)
    [] OTHER -> Stmt(keyword, <<>>)

-----------------------------------------------------------------------------
(* How programs are written: the reference for the parser.                  *)
Listed(items) ==
  FoldLeft(LAMBDA all, item : IF all = <<>> THEN item ELSE all \o <<Comma, Space>> \o item, <<>>, items)

Singles(seq) == [k \in DOMAIN seq |-> <<seq[k]>>]

RECURSIVE WrittenStatement(_)

Written(stmts) == Listed([k \in DOMAIN stmts |-> WrittenStatement(stmts[k])])

WrittenStatement(stmt) ==
  LET Call(text) == <<Symbol(stmt.keyword), Open>> \o text \o <<Close>> IN
  CASE stmt.keyword = "DBG" -> <<Symbol("DBG!")>>
    [] stmt.keyword = "PRINT" -> Call(stmt.args)
    [] stmt.keyword = "FOR" ->
         Call(<<OpenBracket>> \o Written(stmt.nested) \o <<CloseBracket, Comma, Space, stmt.args[2]>>)
    [] OTHER -> Call(Listed(Singles(stmt.args)))

Balanced(text, opening, closing) ==
  /\ \A i \in DOMAIN text : Depth(text, opening, closing, i) >= 0
  /\ Depth(text, opening, closing, Len(text)) = 0

(* The argument of a PRINT that stands between its parentheses as it is.    *)
WritableText(text) ==
  /\ text # <<>> /\ Trim(text) = text
  /\ Balanced(text, {Open, OpenBracket}, {Close, CloseBracket})
  /\ Balanced(text, {OpenBracket}, {CloseBracket})

(* How many operands the statements have, but a PRINT.                      *)
Arities(keyword) ==
  CASE keyword = "DECLARE" -> {0, 2}
    [] keyword \in {"ADD", "SUBTRACT"} -> {0, 3}
    [] keyword = "SLEEP" -> {1}
    [] keyword = "FOR" -> {2}
    [] OTHER -> {0}

RECURSIVE Writable(_)

(* The programs that can be written down: operands are words and numbers,   *)
(* and the argument of a PRINT closes the brackets it opens, and no other.  *)
Writable(stmts) ==
  \A stmt \in Range(stmts) :
    /\ IF stmt.keyword = "PRINT" THEN WritableText(stmt.args)
       ELSE /\ Len(stmt.args) \in Arities(stmt.keyword)
            /\ \A i \in DOMAIN stmt.args :
                 IF stmt.keyword = "FOR" /\ i = 1 THEN stmt.args[i] = Empty
                 ELSE stmt.args[i].kind \in {"word", "unsigned", "signed"}
    /\ Writable(stmt.nested)
=============================================================================

----------------------------- MODULE ProcessText -----------------------------
(***************************************************************************)
(* The process of ProcessRun with a program that was read from its text:   *)
(* the parser yields the program as it was written.  For TLC.              *)
(***************************************************************************)
EXTENDS Parser, ProcessRun

(* A program comes out of the parser as it was written: the scans for       *)
(* commas and brackets tell apart those of the statements, of nested loops  *)
(* and of literals, as long as a literal closes the brackets it opens.  A   *)
(* plus sign in a literal is no matter of the parser: executePrint sees it. *)
ParsedAsWritten == index = 0 /\ Writable(tree) => ParseBlock(Written(tree)) = tree
=============================================================================

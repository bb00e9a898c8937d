------------------------------ MODULE MCConsole ------------------------------
(* A small instance of Console for TLC. *)
EXTENDS Console, TLC

Exec == [keyword |-> "EXEC", cycles |-> 0]
Sleep(n) == [keyword |-> "SLEEP", cycles |-> n]

(* Two processes whose order on the cores a sleep turns round.              *)
ShortPrograms == {<<Exec, Exec>>, <<Sleep(1), Exec>>}

ClosingPrograms == {<<Exec, Sleep(1)>>}

Symmetry == Permutations(Procs)
=============================================================================

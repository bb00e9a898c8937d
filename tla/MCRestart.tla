------------------------------ MODULE MCRestart ------------------------------
(* Small instances of Restart for TLC. *)
EXTENDS Restart, TLC

Exec == [keyword |-> "EXEC", cycles |-> 0]
Sleep(n) == [keyword |-> "SLEEP", cycles |-> n]

(* Sleeps of every length in the middle, at the end, and none.              *)
RestartPrograms == {<<Exec, Exec>>, <<Sleep(2), Exec>>, <<Sleep(0), Sleep(1)>>}
=============================================================================

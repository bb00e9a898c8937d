----------------------------- MODULE MCScheduler -----------------------------
(* Small instances of Scheduler for TLC. *)
EXTENDS Scheduler, TLC

Exec == [keyword |-> "EXEC", cycles |-> 0]
Sleep(n) == [keyword |-> "SLEEP", cycles |-> n]

(* A plain run longer than the quantum, sleeps of zero and one tick, and a  *)
(* sleep at the end.                                                        *)
MixedPrograms == {<<Exec, Exec, Exec>>, <<Exec, Sleep(1), Exec>>, <<Sleep(0), Sleep(1)>>}

(* A longer sleep, a sleep at the end, and an empty program.                *)
SleepyPrograms == {<<Sleep(2), Exec>>, <<Exec, Sleep(1)>>, <<>>}

(* buildConfig leaves the quantum of an fcfs scheduler at -1.               *)
NoQuantum == -1

Symmetry == Permutations(Procs)
=============================================================================

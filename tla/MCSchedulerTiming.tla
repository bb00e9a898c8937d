-------------------------- MODULE MCSchedulerTiming --------------------------
(* A small instance of SchedulerTiming for TLC. *)
EXTENDS SchedulerTiming, TLC

Exec == [keyword |-> "EXEC", cycles |-> 0]
Sleep(n) == [keyword |-> "SLEEP", cycles |-> n]

TimedPrograms == {<<Exec, Exec, Exec>>, <<Sleep(2), Exec>>, <<Exec, Sleep(0), Exec>>}

Symmetry == Permutations(Procs)
=============================================================================

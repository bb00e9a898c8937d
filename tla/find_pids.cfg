SPECIFICATION Spec
CONSTANTS
  Procs = {p1, p2}
  Programs <- SleepyPrograms
  NumCpu = 1
  Algo = "rr"
  Quantum = 2
  Delay = 0
  BatchFreq = 1
  None = None
INVARIANT UniquePids

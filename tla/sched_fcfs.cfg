SPECIFICATION Spec
CONSTANTS
  Procs = {p1, p2, p3}
  Programs <- SleepyPrograms
  NumCpu = 2
  Algo = "fcfs"
  Quantum <- NoQuantum
  Delay = 1
  BatchFreq = 1
  None = None
SYMMETRY Symmetry
INVARIANTS EnlistedHasWork NobodyOversleeps

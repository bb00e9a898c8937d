SPECIFICATION TimingSpec
CONSTANTS
  Procs = {p1, p2, p3}
  Programs <- TimedPrograms
  NumCpu = 1
  Algo = "rr"
  Quantum = 3
  Delay = 1
  BatchFreq = 1
  MaxCount = 6
  None = None
SYMMETRY Symmetry
PROPERTIES FullQuantum DelayBetweenInstructions SleepsItsTicks

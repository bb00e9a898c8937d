SPECIFICATION FairRestart
CONSTANTS
  Procs = {p1, p2}
  Programs <- RestartPrograms
  NumCpu = 1
  Algo = "rr"
  Quantum = 1
  Delay = 1
  BatchFreq = 1
  MaxStops = 2
  None = None
INVARIANTS RestartTypeOK CleanLaunch
PROPERTIES SurvivorsFinish

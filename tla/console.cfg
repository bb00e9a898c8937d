SPECIFICATION ConsoleSpec
CONSTANTS
  Procs = {p1, p2}
  Programs <- ShortPrograms
  NumCpu = 2
  Algo = "rr"
  Quantum = 1
  Delay = 0
  BatchFreq = 1
  Typed = {0}
  MaxShown = 1
  None = None
SYMMETRY Symmetry
INVARIANTS ConsoleTypeOK GeneratedNamesDistinct ListedOnce DrainedListingsAgree

SPECIFICATION Spec
CONSTANTS
  Procs = {p1, p2, p3}
  Programs <- MixedPrograms
  NumCpu = 2
  Algo = "rr"
  Quantum = 2
  Delay = 0
  BatchFreq = 2
  None = None
SYMMETRY Symmetry
INVARIANTS TypeOK Placement AtMostOnePlace NoneLost FirstDispatchInOrder
PROPERTIES NoOvertaking WorkConserving WokenGoesLast RefinesLifecycle

SPECIFICATION FairSpec
CONSTANTS
  NumCpu = 3
  MaxTicks = 3
INVARIANTS TypeOK OneCyclePerTick CompletionsExact PhasesApart
PROPERTIES TickServed StopReturns RefinesLockstep

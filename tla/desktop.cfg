SPECIFICATION FairDesktop
CONSTANTS
  NumResources = 2
  Tables <- SmallTables
  Capacity = 2
  MaxStep = 2
  Draws <- SmallDraws
  WalkPeriod = 2
  MetricsPeriod = 3
  Windows = {"task_manager", "text_editor"}
  MaxDelta = 2
INVARIANTS WithinCapacity BarsWithinScale
PROPERTIES KeepsWalking
CHECK_DEADLOCK FALSE

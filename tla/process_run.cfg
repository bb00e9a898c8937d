SPECIFICATION Spec
CONSTANTS
  Trees <- SmallTrees
  Nodes <- SmallNodes
  Nesting <- SmallNesting
  ProcessNames <- SmallNames
  Numbers <- SmallNumbers
  Variables = {"x", "y"}
  Counts = {1, 2}
  BodySizes = {1}
  MaxLength = 3
  IntMax = 6
  LongMax = 8
  Modulus = 4
INVARIANTS CyclesTypeOK FailuresAreLogged ParsedAsWritten RunsAsInterpreted GeneratedRunsClean
PROPERTIES ReadsLeaveValues
CHECK_DEADLOCK FALSE

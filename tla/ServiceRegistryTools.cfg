SPECIFICATION Spec
CONSTANTS
  Providers = {p1, p2}
  LastPoint = 1
  MaxFaults = 0
  Patient = FALSE
INVARIANTS ToolsComplete
CHECK_DEADLOCK FALSE

SPECIFICATION Spec
CONSTANTS
  Providers = {p1, p2}
  LastPoint = 1
  MaxFaults = 1
  Patient = FALSE
INVARIANTS ServingIsListed
CHECK_DEADLOCK FALSE

SPECIFICATION Spec
CONSTANTS
  Providers = {p1, p2}
  LastPoint = 1
  MaxFaults = 3
  Patient = TRUE
INVARIANTS TypeOK ServingIsListed
PROPERTIES CallsHaveAHome EventuallyServing CallsReachAgain
CHECK_DEADLOCK FALSE

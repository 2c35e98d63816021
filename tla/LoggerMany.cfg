SPECIFICATION Spec
CONSTANTS
  Producers = {worker, pool}
  Capacity = 3
  MaxMessages = 1
INVARIANTS AcceptedKept
CHECK_DEADLOCK FALSE

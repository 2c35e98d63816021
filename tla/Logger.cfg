SPECIFICATION Spec
CONSTANTS
  Producers = {worker}
  Capacity = 2
  MaxMessages = 6
INVARIANTS TypeOK SlotsExclusive AcceptedKept
PROPERTIES KeepsFifo
CHECK_DEADLOCK FALSE

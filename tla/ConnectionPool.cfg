SPECIFICATION Spec
CONSTANTS
  Callers = {c1, c2, c3}
  InitSize = 1
  MaxSize = 2
  MaxTrouble = 3
INVARIANTS TypeOK EachInOnePlace SleepersHaveReason
PROPERTIES KeepsServing
CHECK_DEADLOCK FALSE

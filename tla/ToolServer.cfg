SPECIFICATION Spec
CONSTANT MaxRequests = 4
INVARIANTS TypeOK InOnePlace LaneInOrder
PROPERTIES AllAnswered PoolsAreSerial
CHECK_DEADLOCK FALSE

SPECIFICATION SlowPythonSpec
CONSTANT MaxRequests = 3
PROPERTY Bulkhead
CHECK_DEADLOCK FALSE

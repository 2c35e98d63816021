SPECIFICATION Spec
CONSTANTS
  Clients = {c1, c2}
  Capacity = 1
  MaxQuestions = 3
  MaxMessages = 6
  MaxToolCalls = 2
  MaxRetry = 1
INVARIANTS TypeOK OneRequestEach MemoriesWellFormed
PROPERTIES KeepsConversation EveryRequestAnswered DeadTokenDropped
CHECK_DEADLOCK FALSE

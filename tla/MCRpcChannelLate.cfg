SPECIFICATION Spec
CONSTANTS
  c1 = c1
  c2 = c2
  n1 = n1
  bad = bad
  Calls = {c1, c2}
  Nodes = {n1, bad}
  Malformed = {bad}
  WaitLimit <- MCWaitLimit
  PendingLimit = 3
  None = None
  Garbled = Garbled

PROPERTY LateReplyDiscarded

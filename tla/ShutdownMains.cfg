CONSTANTS
  Nodes = {n1, n2}
  Clients = {c1}
  Confirm = 3
  MaxBlips = 2
  MinRounds = 4
  MaxRounds = 5
  Attempts = 3
  MaxRequests = 1
  MaxRestarts = 0
SPECIFICATION Spec
CHECK_DEADLOCK FALSE
INVARIANT AbortKeepsMains

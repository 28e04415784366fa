CONSTANTS
  Nodes = {n1, n2}
  Clients = {c1, c2}
  Confirm = 3
  MaxBlips = 2
  MinRounds = 4
  MaxRounds = 5
  Attempts = 3
  MaxRequests = 2
  MaxRestarts = 1
SPECIFICATION FairShutdown
CHECK_DEADLOCK FALSE
INVARIANTS ShutdownTypeOK NodesDownFirst NoPoweroffUnarmed
PROPERTY ShutdownEnds

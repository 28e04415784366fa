CONSTANTS
  Devices = {d1}
  Requests = {r1, r2}
  Tries = 2
  OnAtStart = TRUE
  MaxLoads = 2
  MaxTasks = 5
SPECIFICATION Spec
CHECK_DEADLOCK FALSE
INVARIANTS PowerTypeOK LastPressWins ReportIsTrue LockIsBrief

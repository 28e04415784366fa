SPECIFICATION Spec
CONSTANTS
  Project = {a, b}
  AutoProject = a
  MaxOps = 2
  Mishaps = {}
  Presses <- LoadPresses
  Frames <- AutoFrames
  AutoPlay = TRUE
  MayShutdown = FALSE
  Persistent = TRUE
INVARIANTS NotBehindOperator FailedPressRestarts
CHECK_DEADLOCK FALSE

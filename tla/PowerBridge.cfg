SPECIFICATION Spec
CONSTANTS
  Project = {a, b}
  AutoProject = a
  MaxOps = 1
  Mishaps = {"abort"}
  Presses <- AllPresses
  Frames <- ShowFrames
  AutoPlay = TRUE
  MayShutdown = TRUE
  Persistent = FALSE
INVARIANTS DoneMeansArmed CallHoldsLock
PROPERTY ShutdownRefuses
CHECK_DEADLOCK FALSE

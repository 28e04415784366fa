SPECIFICATION FairOpsSpec
CONSTANTS
  Project = {a}
  MaxOps = 2
  Mishaps = {"engine"}
  Presses <- PlainPresses
  Frames <- IdleFrames
PROPERTY EveryPressEnds
CHECK_DEADLOCK FALSE

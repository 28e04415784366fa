SPECIFICATION OpsSpec
CONSTANTS
  Project = {a}
  MaxOps = 2
  Mishaps = {"abort"}
  Presses <- PlainPresses
  Frames <- ArmFrames
INVARIANTS SlotIsNewest OneTracked WatchdogIsNewest
PROPERTY EndsStay
\* after MaxOps operations nothing may be left to do
CHECK_DEADLOCK FALSE

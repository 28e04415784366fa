CONSTANTS
  Screens = {a, b}
  MaxShows = 2
  MaxLoads = 1
  Early = {1}
  Timed = {2}
  Relayed = {1}
SYMMETRY SameScreens
SPECIFICATION Spec
CHECK_DEADLOCK FALSE
INVARIANTS OneAtATime VerdictIsOwn ScreensAreKnown

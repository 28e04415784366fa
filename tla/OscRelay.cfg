CONSTANTS
  Cues = {"c"}
  Paths <- CuePaths
  Project = {"x"}
  EventCap = 6
  Ids = {1, 2, 3, 4}
  HoldCap = 1
SPECIFICATION FairRelay
CHECK_DEADLOCK FALSE
INVARIANTS LaneCoherent OnMeansOwed SettledIsTrue
PROPERTIES LinkFirst EveryPulseEnds

SPECIFICATION Spec
CONSTANTS
  Nodes = {m, n}
  Controller = ctrl
  Strangers = {x}
  Address = {a, b, c, d}
  NoAddress = none
  MaxPolls = 1
SYMMETRY Symmetry
PROPERTIES RefusalHasCause GateIsTrue
CHECK_DEADLOCK FALSE

SPECIFICATION Spec
CONSTANTS
  Modes = {TRUE, FALSE}
  Reasons = {"plan", "break", "signal", "trap", "silent", "none"}
  Depth <- MCDepth
  MaxUint = 3
  MaxProcs = 2
  MaxStops = 2
  MaxOthers = 1
  MaxSelects = 1
CHECK_DEADLOCK FALSE
PROPERTY OnlyTheDeadExit

SPECIFICATION Spec
CONSTANTS
  LastOffset = 5
  Settings = {"a"}
  MaxId = 4
  Args = {}
  Careful = TRUE
  MaxCmds = 2
  MaxSnaps = 1
  FaultKinds = {"interrupt"}
  MaxFaults = 1
  Commands = {"create"}
  Inis <- OneMaster
PROPERTIES SafeToRerun
CHECK_DEADLOCK FALSE

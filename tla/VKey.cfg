SPECIFICATION Spec
CONSTANTS
  LastOffset = 5
  Settings = {"a"}
  MaxId = 4
  Args = {}
  Careful = FALSE
  MaxCmds = 3
  MaxSnaps = 1
  FaultKinds = {"interrupt"}
  MaxFaults = 1
  Commands = {"create", "restore"}
  Inis <- OneMaster
PROPERTIES KeyCheckedFirst
CHECK_DEADLOCK FALSE

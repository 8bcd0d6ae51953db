SPECIFICATION RetrySpec
CONSTANTS
  LastOffset = 5
  Settings = {"a"}
  MaxId = 4
  Args = {}
  Careful = FALSE
  MaxCmds = 3
  MaxSnaps = 1
  FaultKinds = {"interrupt", "power", "slow"}
  MaxFaults = 2
  Commands = {"create", "update", "destroy", "snapshot", "restore", "export-token"}
  Inis <- MastersOnly
INVARIANTS OneCluster
PROPERTIES PasswordKept
CHECK_DEADLOCK FALSE

SPECIFICATION FairSpec
CONSTANTS
  LastOffset = 5
  Settings = {"a"}
  MaxId = 4
  Args = {1, 2}
  Careful = FALSE
  MaxCmds = 3
  MaxSnaps = 1
  FaultKinds = {"interrupt", "power", "flap", "slow"}
  MaxFaults = 1
  Commands = {"create", "update", "destroy", "snapshot", "restore", "node-destroy", "k3s-uninstall", "rejoin-slave", "utility", "export-token"}
  Inis <- Either
PROPERTIES ProtectedKept StampIsTrue KeepsPromise CommandsEnd
CHECK_DEADLOCK FALSE

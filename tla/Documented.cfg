SPECIFICATION DocumentedSpec
CONSTANTS
  LastOffset = 5
  Settings = {"a"}
  MaxId = 6
  Args = {1, 2, 3}
  Careful = TRUE
  MaxCmds = 6
  MaxSnaps = 2
  FaultKinds = {"flap"}
  MaxFaults = 1
  Commands = {"create", "update", "destroy", "snapshot", "restore", "k3s-uninstall", "rejoin-slave"}
  Inis <- Either
INVARIANTS SnapshotsDecryptable
PROPERTIES RestoreRecovers Rejoined UninstallKeepsApi
CHECK_DEADLOCK FALSE

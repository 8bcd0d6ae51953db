SPECIFICATION PlanSpec
CONSTANTS
  LastOffset = 6
  Settings = {"a"}
  MaxId = 4
  Args = {}
  Careful = TRUE
  MaxCmds = 4
  MaxSnaps = 1
  FaultKinds = {}
  MaxFaults = 0
  Commands = {"create", "update", "destroy", "snapshot", "restore"}
  Inis <- Scaling
INVARIANTS TypeOK NoRejectedGuest
PROPERTIES BuiltAsAsked QuorumKept CleanEnds PlanExact
CHECK_DEADLOCK FALSE

CONSTANTS
  Ops = {"exec", "write", "reboot"}
  MaxCalls = 3
  MaxFaults = 2
  AgentFaults = {"lost", "bad", "off"}
SPECIFICATION FairAgentSpec
INVARIANTS AgentTypeOK AtMostTwice
PROPERTIES KeepsAgentPromise RebootWaits CallsEnd
CHECK_DEADLOCK FALSE

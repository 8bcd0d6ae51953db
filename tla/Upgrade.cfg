CONSTANTS
  LastOffset = 5
  Settings = {"a"}
  MaxId = 1
  Fleets <- SmallFleets
  Kinds = {"flap", "power", "interrupt", "installer"}
  MaxUpgrades = 3
  MaxMishaps = 2
SPECIFICATION FairUpgradeSpec
INVARIANT NoNewerAgent
PROPERTIES OneDown AllUpgraded UpgradeEnds
CHECK_DEADLOCK FALSE

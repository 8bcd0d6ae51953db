CONSTANTS
  Versions = {"v1", "v2"}
  ImageOpts = {"a", "b"}
  FleetNodes = {"m1", "w1"}
  Troubles = {"interrupt", "installer", "kernel", "patch"}
  MaxRuns = 4
  MaxTroubles = 2
SPECIFICATION ImageSpec
INVARIANT BaselineHonest
PROPERTIES RebuildWorks UpgradedTogether DriftReported
CHECK_DEADLOCK FALSE

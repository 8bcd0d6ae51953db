CONSTANTS
  ClusterName <- TestedNames
  Dash = 3
  One = 4
  Retention = 2
  MaxSaves = 4
SPECIFICATION BucketSpec
INVARIANT ListsOwn
PROPERTIES RestoresLatest NewestKept PruneWorks
CHECK_DEADLOCK FALSE

CONSTANTS
  MaxOps = 5
  MaxDepth = 2
  Resizes = 1
SPECIFICATION FairRendererSpec
INVARIANT AbortedStepsGone
PROPERTIES NeverCreeps TextKept GetsOut
CHECK_DEADLOCK FALSE

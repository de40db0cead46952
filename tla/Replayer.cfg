SPECIFICATION ReplaySpec
CONSTANTS
  TargetQPS = 4
  Replicas = 3
  Second = 4
  Gaps <- MCGapsSparse
  ZeroGapBudget = 0
  Size = 4
  Window = 3
  Period = 4
  Shape = "spike"
  Jitter = "fixed"
  Mode = "absorbing"
  Microsecond = 1
  Deadline = 13
  IntMax = 100
  QueueCapacity = 2
  MaxStall = 2
  MaxTime = 16
INVARIANTS
  TotalsAgree
  NeverEarly
  LatenessExplained
PROPERTIES
  RunDelivers

SPECIFICATION Spec
CONSTANTS
  TargetQPS = 2
  Replicas = 1
  Second = 4
  Gaps <- MCGapsSparse
  ZeroGapBudget = 0
  Size = 4
  Window = 5
  Period = 3
  Shape = "uniform"
  Jitter = "fixed"
  Mode = "additive"
  Microsecond = 1
  Deadline = 9
  IntMax = 9
INVARIANTS
  SpikesSorted

SPECIFICATION Spec
CONSTANTS
  TargetQPS = 2
  Replicas = 1
  Second = 4
  Gaps <- MCGapsWithZero
  ZeroGapBudget = 1
  Size = 2
  Window = 3
  Period = 3
  Shape = "random"
  Jitter = "poisson"
  Mode = "additive"
  Microsecond = 1
  Deadline = 6
  IntMax = 100
PROPERTIES
  ScheduleEnds
  StreamSpec

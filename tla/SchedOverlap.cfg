SPECIFICATION Spec
CONSTANTS
  TargetQPS = 2
  Replicas = 2
  Second = 4
  Gaps <- MCGapsSparse
  ZeroGapBudget = 0
  Size = 3
  Window = 6
  Period = 2
  Shape = "uniform"
  Jitter = "fixed"
  Mode = "additive"
  Microsecond = 1
  Deadline = 11
  IntMax = 100
INVARIANTS
  TypeOK
  SpikesSorted
  SpikeLedger
  NothingLeftBehind
  CountersConserved
  Timetable
  BurstsConfined

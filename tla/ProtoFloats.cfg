SPECIFICATION Spec
CONSTANTS
  Values = {0, 1, 3}
  Tolerance = 1
  TopLength = 2
  SubLength = 1
CHECK_DEADLOCK FALSE
INVARIANTS
  ComparisonExact

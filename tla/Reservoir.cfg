SPECIFICATION Spec
CONSTANTS
  MaxSamples = 3
  Values = {1, 2, 5}
  MaxCount = 5
INVARIANTS
  UniformSample
  SummarySound

SPECIFICATION Spec
CONSTANTS
  Workers = {w1, w2}
  QueueCapacity = 1
  NumReqs = 1
  NumConns = 1
  Messages = {m1}
  MaxDistinctErrors = 1
  AnalyzerCap = 1
  Outputs = {"csv", "jsonl"}
  Failing = {"csv", "jsonl"}
  Bursts = TRUE
  MaxArrivals = 2
  MaxTicks = 1
  MaxRows = 2
INVARIANTS
  NoSilentLoss
PROPERTIES
  RunEnds
  ReplaySpec

SPECIFICATION Spec
CONSTANTS
  Workers = {w1, w2}
  QueueCapacity = 1
  NumReqs = 2
  NumConns = 2
  Messages = {m1, m2}
  MaxDistinctErrors = 1
  AnalyzerCap = 2
  Outputs = {}
  Failing = {}
  Bursts = FALSE
  MaxArrivals = 3
  MaxTicks = 1
  MaxRows = 0
SYMMETRY Symmetry
INVARIANTS
  TypeOK
  Ledger
  RoundRobin
  TelemetryConserved
  ErrorsFiled
  SummaryFinal

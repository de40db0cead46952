SPECIFICATION Spec
CONSTANTS
  MaxStreams = 4
  ArrivalSampleCap = 3
  MaxBins = 2
  MaxSummaryBins = 2
  Windows <- MCWindows
  MaxTime = 2
  MaxGone = 2
INVARIANTS
  SummaryComplete
  NoteMeansFull
  SummaryExact
  AnalyzersAgree
PROPERTIES
  SummaryAfterSignal

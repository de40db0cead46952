SPECIFICATION Spec
CONSTANTS
  MaxStreams = 2
  ArrivalSampleCap = 1
  MaxBins = 3
  MaxSummaryBins = 3
  Windows <- MCWindows
  MaxTime = 1
  MaxGone = 1
PROPERTIES
  SignalFlushes

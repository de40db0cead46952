SPECIFICATION Spec
CONSTANTS
  Slots = 2
  NumReqs = 2
  Output = TRUE
  WritesFail = TRUE
  MaxChecks = 3
INVARIANTS
  CountersSound
  OutcomeRight
  RowsComplete
PROPERTIES
  VerdictGiven
  ParitySpec

CONSTANTS
  Jobs = {1, 2, 3}
  PrioOf <- OddArePrimary
  MaxRuns = 2
SPECIFICATION StatsFairSpec
INVARIANTS
  StatsPaired
  ReportedOnce
PROPERTIES
  CompletionIsReported
  StopsRunning
CHECK_DEADLOCK FALSE

CONSTANTS
  p1 = p1  p2 = p2  t0 = t0
  Nobody = Nobody
  MaxPrio = 1
  JobIds = {1, 2}
  Jobs = {p1, p2}
  JobIdOf <- MCJobIdOf
  PrioOf <- MCPrioOf
  Threads <- MCThreads
  ThreadPrio <- MCThreadPrio
  ReleaseOnePrios = {1}
  InitTargets <- OneTwo
  Thresholds = {}
  PurgeIds = {1}
  Calls = {p1, p2}
  Seed = 0
  Asked <- OneOne
  Low = 1
  High = 2
SPECIFICATION ProgramSpec
CHECK_DEADLOCK FALSE
INVARIANTS UniqueIds TargetsPaired ServedInOrder

CONSTANTS
  p1 = p1  s1 = s1  s2 = s2  t0 = t0  t1 = t1
  Nobody = Nobody
  MaxPrio = 1
  JobIds = {1, 2}
  Jobs <- MCJobs
  JobIdOf <- MCJobIdOf
  PrioOf <- MCPrioOf
  Threads <- MCThreads
  ThreadPrio <- MCThreadPrio
  ReleaseOnePrios = {1}
  InitTargets <- OneOne
  Thresholds = {}
  PurgeIds = {}
SPECIFICATION ThrottlerFairSpec
CHECK_DEADLOCK FALSE
PROPERTY BlockedOnlyByTwoZeros

CONSTANTS
  j1 = j1  j2 = j2  j3 = j3  t0 = t0  t1 = t1  t2 = t2
  Nobody = Nobody
  MaxPrio = 1
  JobIds = {1}
  Jobs <- MCJobs
  JobIdOf <- MCJobIdOf
  PrioOf <- MCPrioOf
  Threads <- MCThreads
  ThreadPrio <- MCThreadPrio
  ReleaseOnePrios = {1}
SPECIFICATION Spec
INVARIANTS NeverPopsEmptyList
CHECK_DEADLOCK FALSE

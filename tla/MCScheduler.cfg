CONSTANTS
  j1 = j1  j2 = j2  j3 = j3  t1 = t1  t2 = t2
  Nobody = Nobody
  MaxPrio = 0
  JobIds = {1, 2}
  PurgeIds = {1}
  Jobs <- PoolJobs
  JobIdOf <- PoolIds
  PrioOf <- PoolPrios
  Threads <- PoolThreads
  ThreadPrio <- PoolThreadPrio
  ReleaseOnePrios = {}
SPECIFICATION SchedulerFairSpec
CHECK_DEADLOCK FALSE
INVARIANTS PoppedIsFirstCopy ProcessedOnce JoinLosesNothing
PROPERTIES ImplementsAtomicQueues DestructorJoins EnqueuedIsProcessed

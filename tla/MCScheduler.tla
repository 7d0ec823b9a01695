----------------------------- MODULE MCScheduler ------------------------------
(***************************************************************************)
(* A small instance of Scheduler: the pool of an Executor, two workers at *)
(* the only priority, two copies of one job and a job of another id.       *)
(***************************************************************************)
EXTENDS Scheduler, TLC

CONSTANTS j1, j2, j3, t1, t2

PoolJobs == {j1, j2, j3}
PoolIds == j1 :> 1 @@ j2 :> 1 @@ j3 :> 2
PoolPrios == [j \in PoolJobs |-> 0]
PoolThreads == {t1, t2}
PoolThreadPrio == [t \in PoolThreads |-> 0]

===============================================================================

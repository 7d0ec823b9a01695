----------------------------- MODULE MCMultiQueue -----------------------------
(***************************************************************************)
(* A small instance of MultiQueue.  Three copies of one job: j1 and j2 at  *)
(* the same priority, so that their order in queue and mapper matters, and *)
(* j3 at the other one.  Two threads serve the first priority, one serves  *)
(* the second, which is also called back with ReleaseOne.                  *)
(***************************************************************************)
EXTENDS MultiQueue, TLC

CONSTANTS j1, j2, j3, t0, t1, t2

MCJobs == {j1, j2, j3}
MCJobIdOf == [j \in MCJobs |-> 1]
MCPrioOf == j1 :> 0 @@ j2 :> 0 @@ j3 :> 1

MCThreads == {t0, t1, t2}
MCThreadPrio == t0 :> 0 @@ t1 :> 0 @@ t2 :> 1

===============================================================================

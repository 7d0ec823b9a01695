------------------------------ MODULE Scheduler -------------------------------
(***************************************************************************)
(* scheduler.hh and the stages built on it (executor.cc and the handlers   *)
(* of the file client): the pool of threads that loop around               *)
(* MultiQueue::Dequeue, and the destruction of the stage.                  *)
(*                                                                         *)
(* The derived destructor sets _destructing and calls ReleaseQueues; the   *)
(* destructor of the base class then joins the workers.  By that time the  *)
(* members of the derived class are gone: workers still use the lock and   *)
(* the flag, which in glibc keep their bytes, and a thread that starts     *)
(* this late finds the StartScheduling of the base class, which returns.   *)
(* Nobody enqueues into a stage that is being destroyed.                   *)
(*                                                                         *)
(* Some definitions are preceded by a variant with a slip in it, which     *)
(* nothing uses: the properties are checked to fail with the variant.      *)
(***************************************************************************)
EXTENDS MultiQueue, FiniteSets

CONSTANT PurgeIds   \* the job ids that clients may purge from the stage

ASSUME SchedulerConstants == PurgeIds \subseteq JobIds

VARIABLES
  worker,       \* [Threads -> where it is in StartScheduling]
  destructing,  \* _destructing
  dtor,         \* progress of the destructor
  ran           \* the jobs a worker has processed

stage == <<destructing, dtor>>
svars == <<vars, worker, stage, ran>>

SchedulerInit ==
  /\ Init
  /\ worker = [t \in Threads |-> "start"]
  /\ destructing = FALSE
  /\ dtor = "alive"
  /\ ran = {}

GoTo(t, to) == worker' = [worker EXCEPT ![t] = to]

-------------------------------------------------------------------------------
\* The thread that Run created enters the virtual StartScheduling.
WorkerStart(t) ==
  /\ worker[t] = "start"
  /\ GoTo(t, IF dtor \in {"joining", "joined"} THEN "exited" ELSE "check")
  /\ UNCHANGED <<vars, stage, ran>>

\* The top of the loop: return if the stage is being destroyed, else Dequeue.
WorkerCheck(t) ==
  /\ worker[t] = "check"
  /\ \/ destructing /\ GoTo(t, "exited") /\ UNCHANGED vars
     \/ ~destructing /\ GoTo(t, "dequeue") /\ DequeueCall(t)
  /\ UNCHANGED <<stage, ran>>

\* What the worker does with the value Dequeue returned.
HandleDropped(r) == IF r = Nobody \/ destructing THEN "check" ELSE "run"
Handle(r) == IF r = Nobody THEN "check" ELSE "run"

WorkerDequeue(t) ==
  /\ worker[t] = "dequeue"
  /\ DequeueInside(t)
  /\ IF deq'[t] = "idle" THEN GoTo(t, Handle(result'[t])) ELSE UNCHANGED worker
  /\ UNCHANGED <<stage, ran>>

\* The closure of the task is run, or the job is processed by the handler.
WorkerRun(t) ==
  /\ worker[t] = "run"
  /\ GoTo(t, "check")
  /\ ran' = ran \cup {result[t]}
  /\ UNCHANGED <<vars, stage>>

Worker(t) == WorkerStart(t) \/ WorkerCheck(t) \/ WorkerDequeue(t) \/ WorkerRun(t)

-------------------------------------------------------------------------------
\* Submit, or Dispatch through a ForwardingDispatcher, while the stage lives.
Submit(j) ==
  /\ dtor = "alive"
  /\ Enqueue(j)
  /\ UNCHANGED <<worker, stage, ran>>

\* DStage::Purge; Scheduler::Purge adds nothing.
StagePurge(id) ==
  /\ dtor = "alive"
  /\ Purge(id)
  /\ UNCHANGED <<worker, stage, ran>>

\* The derived destructor, once no call is inside the stage.
DtorFlag ==
  /\ dtor = "alive"
  /\ \A j \in Jobs : job_state[j] \notin {"inserted", "mapping"}
  /\ destructing' = TRUE
  /\ dtor' = "flagged"
  /\ UNCHANGED <<vars, worker, ran>>

DtorRelease ==
  /\ dtor = "flagged"
  /\ ReleaseQueues
  /\ dtor' = "releasing"
  /\ UNCHANGED <<worker, destructing, ran>>

DtorLoop ==
  /\ dtor = "releasing"
  /\ ReleaseQueuesLoop
  /\ dtor' = IF exclusive'.op = "none" THEN "joining" ELSE dtor
  /\ UNCHANGED <<worker, destructing, ran>>

\* ~Scheduler has joined every worker.
DtorJoin ==
  /\ dtor = "joining"
  /\ \A t \in Threads : worker[t] = "exited"
  /\ dtor' = "joined"
  /\ UNCHANGED <<vars, worker, destructing, ran>>

Dtor == DtorRelease \/ DtorLoop \/ DtorJoin

-------------------------------------------------------------------------------
SchedulerNext ==
  \/ \E t \in Threads : Worker(t)
  \/ \E j \in Jobs : Submit(j)
  \/ \E id \in PurgeIds : StagePurge(id)
  \/ DtorFlag
  \/ Dtor

SchedulerSpec == SchedulerInit /\ [][SchedulerNext]_svars

\* Threads keep running and closures return; nobody has to submit, to purge or
\* to destroy the stage.  Purge has its lock for one step only and ReleaseQueues for
\* a loop that ends, so that no thread is kept out of its shared lock for ever.
SchedulerFairSpec ==
  /\ SchedulerSpec
  /\ \A t \in Threads : WF_svars(Worker(t))
  /\ \A j \in Jobs : WF_svars(Submit(j) /\ ~EnqueueInsert(j))
  /\ WF_svars(Dtor)

-------------------------------------------------------------------------------
\* A job is processed at most once: while a worker has one in hand, no other
\* worker of its pool has it and nobody has processed it.  Dequeue pops an id under
\* one lock and looks the job up under another, and distinct jobs may share the id.
ProcessedOnce ==
  \A t \in Threads : worker[t] = "run" =>
    /\ result[t] \in Jobs \ ran
    /\ \A u \in Threads : worker[u] = "run" /\ result[u] = result[t] => u = t

\* Destruction drops jobs only in the queue: once the workers are joined, a job
\* that left the queue has been processed or purged.
JoinLosesNothing ==
  dtor = "joined" =>
    \A j \in Jobs : job_state[j] \in {"new", "queued", "purged"} \/ j \in ran

Workers(p) == {t \in Threads : ThreadPrio[t] = p}

\* "Releasing threads from blocking MultiQueue call": the destructor comes to its
\* end if each queue is empty, or has a job for every worker of its pool, when it
\* starts.  (With fewer jobs than workers ReleaseQueues leaves the not-empty mutex
\* locked, the last job opens it for nobody, and the workers that are left wait for
\* ever.  A worker that popped an empty list is another matter.)
DestructorJoins ==
  dtor = "flagged"
    /\ (\A p \in Prios : Queue(p) = {} \/ Cardinality(Queue(p)) >= Cardinality(Workers(p)))
  ~> dtor = "joined" \/ \E t \in Threads : deq[t] = "corrupt"

\* A job put into a living stage is processed, unless it is purged or the stage
\* is destroyed first.
EnqueuedIsProcessed ==
  \A j \in Jobs :
    job_state[j] = "inserted"
      ~> j \in ran \/ job_state[j] = "purged" \/ dtor # "alive"

===============================================================================

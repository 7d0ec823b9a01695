---------------------------- MODULE ThrottlingProxy ----------------------------
(***************************************************************************)
(* The throttling proxy as a program: dans_throttling_proxy.cc under the   *)
(* main of throttling_proxy_example.cc, from the construction of its parts *)
(* to their destruction when --run_time is over.  (dans_proxy.cc is the    *)
(* same without targets and callback of its own, up to the order in which  *)
(* the destructors run.)                                                   *)
(*                                                                         *)
(* It composes JobIdFactory, whose calls are made by ReceivedConnection,   *)
(* and Throttler on MultiQueue, between the loop of                        *)
(* ProxyScheduler::StartScheduling and the destructors.  What a scheduled  *)
(* job goes through is in Proxy.  MultiQueue knows a job by its constant   *)
(* JobIdOf, which has a value of its own for every job here; UniqueIds     *)
(* below says that the ids of the factory are like that.                   *)
(*                                                                         *)
(* The Throttler is destroyed before the workers are joined.  A thread     *)
(* that uses it then does so at its peril: the model stops there.  That,   *)
(* and a worker that waits for a throttle block nobody opens any more, are *)
(* why no property says that the destructors come to their end.            *)
(* Some definitions are preceded by a variant with a slip in it, which     *)
(* nothing uses: the properties are checked to fail with the variant.      *)
(***************************************************************************)
EXTENDS Throttler, JobIdFactory, Sequences

CONSTANTS
  Asked,  \* [Prios -> Nat], primary_throttle and secondary_throttle
  Low,    \* the targets that the callback sets in turn
  High

ASSUME ProgramConstants ==
  /\ Nobody \notin Calls
  /\ Jobs \subseteq Calls  \* of the other connections only the ids are followed
  /\ \A i, j \in Jobs : JobIdOf[i] = JobIdOf[j] => i = j
  /\ Asked \in [Prios -> Nat \ {0}] /\ Low \in Nat \ {0} /\ High \in Nat \ {0}

VARIABLES
  main,     \* what the main thread does next
  worker,   \* [Threads -> where it is in StartScheduling]
  reactor,  \* the connection whose ReceivedConnection runs, or Nobody
  updater,  \* where the updater thread is in Runner
  state,    \* your_persistant_state
  joining,  \* _joining
  corrupt   \* a destroyed object was used

pvars == <<main, worker, reactor, updater, state, joining, corrupt>>
everything == <<allvars, idvars, pvars>>

\* The scheduler's part of DStage::DStage is done: LinkMultiQ made the Throttler with
\* the targets of the flags, and Run started the workers.
ProgramInit ==
  /\ ThrottlerInit /\ IdsInit
  /\ main = "serve primary"
  /\ worker = [t \in Threads |-> "check"]
  /\ reactor = Nobody
  /\ updater = "none" /\ state = FALSE
  /\ joining = FALSE /\ corrupt = FALSE

-------------------------------------------------------------------------------
(* The main thread.                                                          *)

\* What the constructors do, in this order, until main waits.
ConstructionRunsFirst ==
  <<"serve primary", "serve secondary", "run", "throttle primary", "throttle secondary", "wait">>
Construction ==
  <<"serve primary", "serve secondary", "throttle primary", "throttle secondary", "run", "wait">>

Constructs(step) ==
  \E i \in 1..(Len(Construction) - 1) :
    main = step /\ Construction[i] = step /\ main' = Construction[i + 1]

Construct ==
  \/ /\ Constructs("serve primary") \/ Constructs("serve secondary")
     /\ UNCHANGED <<allvars, updater>>
  \/ /\ Constructs("throttle primary") /\ SetThrottle(Primary, Asked[Primary])
     /\ UNCHANGED updater
  \/ /\ Constructs("throttle secondary") /\ SetThrottle(Secondary, Asked[Secondary])
     /\ UNCHANGED updater
  \/ /\ Constructs("run")
     /\ updater' = "top"
     /\ UNCHANGED allvars

Served(p) == main # "serve primary" /\ (p = Secondary => main # "serve secondary")

\* --run_time is over: ~ProxyScheduler sets _destructing, which keeps its value for
\* the workers that read it after its destruction, ...
RunTimeOver ==
  /\ main = "wait" /\ main' = "release"
  /\ UNCHANGED <<allvars, updater, joining>>

Destructing == main \in {"release", "loop", "stop", "join updater", "join pool",
                         "join", "ended"}

\* ... and calls ReleaseQueues;
DtorRelease ==
  /\ main = "release" /\ main' = "loop"
  /\ ReleaseQueues
  /\ UNCHANGED <<tvars, joining>>

DtorLoop ==
  /\ main = "loop"
  /\ ReleaseQueuesLoop
  /\ main' = IF exclusive'.op = "none" THEN "stop" ELSE "loop"
  /\ UNCHANGED <<tvars, joining>>

\* then ~Throttler stops and joins the updater thread;
Stop ==
  /\ main = "stop" /\ main' = "join updater"
  /\ joining' = TRUE
  /\ UNCHANGED allvars

JoinUpdater ==
  /\ main = "join updater" /\ main' = "join pool"
  /\ updater \in {"none", "exited"}
  /\ UNCHANGED <<allvars, joining>>

\* the next member to go is _worker_exec, whose pool is joined in turn: a stage like
\* that of Scheduler, where the join may hang;
JoinPool ==
  /\ main = "join pool" /\ main' = "join"
  /\ UNCHANGED <<allvars, joining>>

\* and in the end ~Scheduler joins the workers.
JoinWorkers ==
  /\ main = "join" /\ main' = "ended"
  /\ \A t \in Threads : worker[t] = "exited"
  /\ UNCHANGED <<allvars, joining>>

ThrottlerLives == main \notin {"join pool", "join", "ended"}

Destroy ==
  /\ DtorRelease \/ DtorLoop \/ Stop \/ JoinUpdater \/ JoinPool \/ JoinWorkers
  /\ UNCHANGED <<idvars, worker, reactor, updater, state, corrupt>>

Main ==
  \/ (Construct \/ RunTimeOver) /\ UNCHANGED <<idvars, worker, reactor, state, joining, corrupt>>
  \/ Destroy

-------------------------------------------------------------------------------
(* The workers: ProxyScheduler::StartScheduling.                             *)

\* The top of the loop.
WorkerCheck(t) ==
  /\ worker[t] = "check"
  /\ worker' = [worker EXCEPT ![t] = IF Destructing THEN "exited" ELSE "throttler"]
  /\ UNCHANGED <<allvars, idvars, main, reactor, updater, state, joining, corrupt>>

\* _throttler->Dequeue, which spends most of its time in the queue's Dequeue ...
WorkerSchedule(t) ==
  /\ worker[t] = "throttler"
  /\ ThrottlerLives \/ sched[t] = "dequeue"
  /\ Schedule(t)
  /\ UNCHANGED <<idvars, pvars>>

\* ... and ends with the decision.
Decides ==
  /\ ThrottlerLives
  /\ Decide
  /\ worker' = [t \in Threads |->
                  IF sched[t] = "deciding" /\ sched'[t] = "block" THEN "check" ELSE worker[t]]
  /\ UNCHANGED <<idvars, main, reactor, updater, state, joining, corrupt>>

\* A scheduled job comes to its end in one of the closures of Proxy.
JobEnds(j) ==
  /\ ThrottlerLives
  /\ Finish(j)
  /\ UNCHANGED <<idvars, pvars>>

\* Who has yet to use the destroyed Throttler: a worker, or a job when it ends.
WorkerUsesThrottler(t) ==
  /\ worker[t] = "throttler"
  /\ \/ sched[t] \in {"count", "decide", "deciding"}
     \/ sched[t] = "block" /\ ~throttle_blocks[ThreadPrio[t]]

JobUsesThrottler(j) == life[j] \in {"scheduled", "leaving", "deciding"}

UseDestroyed ==
  /\ ~ThrottlerLives
  /\ \/ \E t \in Threads : WorkerUsesThrottler(t)
     \/ \E j \in Jobs : JobUsesThrottler(j)
  /\ corrupt' = TRUE
  /\ UNCHANGED <<allvars, idvars, main, worker, reactor, updater, state, joining>>

-------------------------------------------------------------------------------
(* The thread of the communication handler: ReceivedConnection.              *)

\* It handles one connection at a time.
ReactorIsAnyOf(c) == TRUE
ReactorIs(c) == reactor = c

CreateId(c) ==
  /\ ReactorIs(IF call[c] = "new" THEN Nobody ELSE c)
  /\ \E p \in Prios : Served(p) /\ (c \in Jobs => PrioOf[c] = p)
  /\ CreateJobId(c)
  /\ reactor' = IF call'[c] = "returned" /\ c \notin Jobs THEN Nobody ELSE c
  /\ UNCHANGED <<allvars, main, worker, updater, state, joining, corrupt>>

\* The job is dispatched; the queues and the dispatcher outlive the scheduler.
Dispatch(j) ==
  /\ ReactorIs(j) /\ call[j] = "returned"
  /\ Arrive(j)
  /\ reactor' = IF job_state'[j] = "queued" THEN Nobody ELSE j
  /\ UNCHANGED <<idvars, main, worker, updater, state, joining, corrupt>>

\* The purge callback of a client that is gone, on a thread of _exec.
PurgeJob(jid) == GoAway(jid) /\ UNCHANGED <<idvars, pvars>>

-------------------------------------------------------------------------------
(* The updater thread: Runner with the callback of the example.              *)

\* The loop ends, or the thread sleeps and calls the callback ...
UpdaterTop ==
  /\ updater = "top"
  /\ updater' = IF joining THEN "exited" ELSE "primary"
  /\ UNCHANGED <<allvars, state>>

\* ... which sets one target after the other.
RunThisFunctionEveryT ==
  \/ /\ updater = "primary" /\ updater' = "secondary"
     /\ SetThrottle(Primary, IF state THEN Low ELSE High)
     /\ UNCHANGED state
  \/ /\ updater = "secondary" /\ updater' = "top"
     /\ SetThrottle(Secondary, IF state THEN Low ELSE High)
     /\ state' = ~state

Updater ==
  /\ UpdaterTop \/ RunThisFunctionEveryT
  /\ UNCHANGED <<idvars, main, worker, reactor, joining, corrupt>>

-------------------------------------------------------------------------------
\* Once the scheduler is gone the rest is the destructor of CommHandler.
Lives == ~corrupt /\ main # "ended"

ProgramNext ==
  /\ Lives
  /\ \/ Main \/ Updater \/ Decides \/ UseDestroyed
     \/ \E t \in Threads : WorkerCheck(t) \/ WorkerSchedule(t)
     \/ \E c \in Calls : CreateId(c)
     \/ \E j \in Jobs : Dispatch(j) \/ JobEnds(j)
     \/ \E jid \in PurgeIds : PurgeJob(jid)

ProgramSpec == ProgramInit /\ [][ProgramNext]_everything

-------------------------------------------------------------------------------
\* "Create a unique JobId": although CreateJobId reads the counter after it has let
\* go of it, no two connections get the same id, since the communication handler of
\* the proxies has one thread to call ReceivedConnection.
UniqueIds ==
  \A c, d \in Calls : c # d /\ {c, d} \subseteq Returned => id[c] # id[d]

Starting ==
  main \in {"serve primary", "serve secondary", "throttle primary", "throttle secondary"}

Both(target) == [p \in Prios |-> target]

\* The constructor sets the two targets one by one, and so does the callback, on
\* another thread.  They do not mix: between two callbacks the targets are the pair
\* that the last one set, or the one the constructor was asked for.
TargetsPaired ==
  ~Starting /\ updater # "secondary" =>
    throttle_targets \in IF state THEN {Both(High)} ELSE {Asked, Both(Low)}

\* Connections of one priority are scheduled in the order of their ids, across the
\* reactor that numbers and dispatches them, the queue, the purges and the worker
\* that the throttle holds up: when one is taken, those with a smaller id have been
\* taken or purged.
ServedInOrder ==
  \A i, j \in Jobs :
    /\ PrioOf[i] = PrioOf[j] /\ {i, j} \subseteq Returned /\ id[i] < id[j]
    /\ job_state[j] = "returned"
    => job_state[i] \in {"returned", "purged"}

===============================================================================

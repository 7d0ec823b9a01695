---------------------------- MODULE ThrottlerStats ----------------------------
(***************************************************************************)
(* The statistics of throttler.hh: jobs that end add their latency and     *)
(* size to the lists of their priority, under a shared _updater_lock and   *)
(* the mutex of the priority; the thread that RunEveryT starts takes the   *)
(* lists, under the lock exclusively, and passes them to the callback.     *)
(*                                                                         *)
(* An entry of a list is the job it is about.  Some definitions are        *)
(* preceded by a variant with a slip in it, which nothing uses: the        *)
(* properties are checked to fail with the variant.                        *)
(***************************************************************************)
EXTENDS Naturals, Sequences, Functions

CONSTANTS
  Jobs,      \* the jobs that end
  PrioOf,    \* [Jobs -> their priority]
  MaxRuns    \* how often RunEveryT is called (a bound)

Prios == {0, 1}

ASSUME StatsConstants == PrioOf \in [Jobs -> Prios] /\ MaxRuns \in Nat

VARIABLES
  adding,     \* [Jobs -> where the job is in AddStat]
  latencies,  \* [Prios -> _primary_latencies, _secondary_latencies]
  sizes,      \* [Prios -> _primary_sizes, _secondary_sizes]
  runner,     \* where the updater thread is in Runner
  joining,    \* _joining
  caller,     \* where the application is in RunEveryT or ~Throttler
  runs,       \* the calls of RunEveryT
  stats,      \* what the callback gets next
  reported    \* [Jobs -> how often the callback was told of it]

lists == <<latencies, sizes>>
thread == <<runner, joining, caller, runs>>
statvars == <<adding, lists, thread, stats, reported>>

NoLists == [p \in Prios |-> <<>>]

StatsInit ==
  /\ adding = [j \in Jobs |-> "running"]
  /\ latencies = NoLists /\ sizes = NoLists
  /\ runner = "none" /\ joining = FALSE /\ caller = "idle" /\ runs = 0
  /\ stats = [latencies |-> NoLists, sizes |-> NoLists]
  /\ reported = [j \in Jobs |-> 0]

-------------------------------------------------------------------------------
\* AddStat, in the destructor of a ThrottleJob: it locks and adds the latency, ...
AddLatency(j) ==
  /\ adding[j] = "running" /\ caller # "destroyed"
  /\ \A k \in Jobs : ~(adding[k] = "locked" /\ PrioOf[k] = PrioOf[j])
  /\ adding' = [adding EXCEPT ![j] = "locked"]
  /\ latencies' = [latencies EXCEPT ![PrioOf[j]] = Append(@, j)]
  /\ UNCHANGED <<sizes, thread, stats, reported>>

\* ... adds the size and unlocks.
AddSize(j) ==
  /\ adding[j] = "locked" /\ caller # "destroyed"
  /\ adding' = [adding EXCEPT ![j] = "ended"]
  /\ sizes' = [sizes EXCEPT ![PrioOf[j]] = Append(@, j)]
  /\ UNCHANGED <<latencies, thread, stats, reported>>

\* _updater_lock can be had exclusively.
UpdaterLockShared == TRUE
UpdaterLock == \A j \in Jobs : adding[j] # "locked"

-------------------------------------------------------------------------------
\* RunEveryT: stop the thread there is, and create one.
RunEveryT ==
  /\ caller = "idle" /\ runs < MaxRuns
  /\ joining' = TRUE
  /\ caller' = "join"
  /\ runs' = runs + 1
  /\ UNCHANGED <<adding, lists, runner, stats, reported>>

RunnerJoined ==
  /\ caller = "join" /\ runner = "none"
  /\ joining' = FALSE
  /\ caller' = "create"
  /\ UNCHANGED <<adding, lists, runner, runs, stats, reported>>

Created ==
  /\ caller = "create"
  /\ runner' = "start"
  /\ caller' = "idle"
  /\ UNCHANGED <<adding, lists, joining, runs, stats, reported>>

\* ~Throttler stops the thread.  Jobs may be left, and end while it waits; the model
\* ends where one that ends later would use a Throttler that is gone.
Destroy ==
  /\ caller = "idle"
  /\ joining' = TRUE
  /\ caller' = "destroy"
  /\ UNCHANGED <<adding, lists, runner, runs, stats, reported>>

Destroyed ==
  /\ caller = "destroy" /\ runner = "none"
  /\ caller' = "destroyed"
  /\ UNCHANGED <<adding, lists, runner, joining, runs, stats, reported>>

-------------------------------------------------------------------------------
\* Runner empties the lists, ...
Start ==
  /\ runner = "start" /\ UpdaterLock
  /\ latencies' = NoLists /\ sizes' = NoLists
  /\ runner' = "loop"
  /\ UNCHANGED <<adding, joining, caller, runs, stats, reported>>

\* ... then leaves or sleeps, ...
AfterLoopSleeps == "asleep"
AfterLoopInverted == IF joining THEN "asleep" ELSE "none"
AfterLoop == IF joining THEN "none" ELSE "asleep"

Loop ==
  /\ runner = "loop"
  /\ runner' = AfterLoop
  /\ UNCHANGED <<adding, lists, joining, caller, runs, stats, reported>>

\* ... takes what has been added, ...
TakeAndKeep == UNCHANGED lists
Take == latencies' = NoLists /\ sizes' = NoLists

Awake ==
  /\ runner = "asleep" /\ UpdaterLock
  /\ stats' = [latencies |-> latencies, sizes |-> sizes]
  /\ Take
  /\ runner' = "calling"
  /\ UNCHANGED <<adding, joining, caller, runs, reported>>

\* ... and calls back.
Call ==
  /\ runner = "calling"
  /\ reported' = [j \in Jobs |-> reported[j] +
       (IF j \in Range(stats.sizes[PrioOf[j]]) THEN 1 ELSE 0)]
  /\ runner' = "loop"
  /\ UNCHANGED <<adding, lists, joining, caller, runs, stats>>

Runner == Start \/ Loop \/ Awake \/ Call
Application == RunnerJoined \/ Created \/ Destroyed

StatsNext ==
  \/ \E j \in Jobs : AddLatency(j) \/ AddSize(j)
  \/ RunEveryT \/ Destroy \/ Application
  \/ Runner

StatsSpec == StatsInit /\ [][StatsNext]_statvars

\* The threads run.  The lock is a reader-preferring one, but the readers are the
\* ends of jobs, and they do not follow each other without pause for ever.
StatsFairSpec ==
  /\ StatsSpec /\ WF_statvars(Application) /\ WF_statvars(Runner) /\ SF_statvars(Awake) /\ SF_statvars(Start)
  /\ \A j \in Jobs : WF_statvars(AddSize(j))

-------------------------------------------------------------------------------
\* The callback finds the latency and the size of a job at the same position.
StatsPaired == stats.latencies = stats.sizes

\* No job is reported to the callback twice.
ReportedOnce == \A j \in Jobs : reported[j] <= 1

\* "all the good info on jobs that completed since the last time that your callback
\* was called": a job that ends while the callback is being called periodically is
\* reported, unless the throttler is destroyed first or RunEveryT is called again
\* (its new thread begins by emptying the lists).
CompletionIsReported ==
  \A j \in Jobs :
    adding[j] = "locked" /\ runner \in {"loop", "asleep", "calling"}
      ~> reported[j] = 1 \/ caller # "idle"

\* RunEveryT and ~Throttler return: the thread they join sees _joining.
StopsRunning == caller \in {"join", "destroy"} ~> caller \in {"create", "destroyed"}

===============================================================================

------------------------------- MODULE Throttler -------------------------------
(***************************************************************************)
(* throttler.hh between a ProxyScheduler and its MultiQueue: how many jobs *)
(* of each of the two priorities may be scheduled at a time.               *)
(*                                                                         *)
(* A scheduler thread first locks the throttle block of its priority,      *)
(* another mutex that is used as a semaphore; _primary_waiting and         *)
(* _secondary_waiting say that it has been admitted.  After its Dequeue,   *)
(* and whenever a ThrottleJob is destroyed, a decision is taken under      *)
(* _state_lock: whom to admit next, and whether to call the secondary      *)
(* thread back from the queue with ReleaseOne.  The counters and the size  *)
(* of the queue have locks of their own, or none, and so change while the  *)
(* decision reads them one after the other.                                *)
(*                                                                         *)
(* Some definitions are preceded by a variant with a slip in it, which     *)
(* nothing uses: the properties are checked to fail with the variant.      *)
(***************************************************************************)
EXTENDS MultiQueue, FiniteSets

CONSTANTS
  InitTargets,  \* [Prios -> Nat], the throttle targets at construction
  Thresholds,   \* values a client passes to SetThrottle
  PurgeIds      \* ids of jobs whose client goes away, and which are purged

Primary == 0
Secondary == 1

ASSUME ThrottlerConstants ==
  /\ MaxPrio = 1
  /\ InitTargets \in [Prios -> Nat]
  /\ ~(InitTargets[Primary] = 0 /\ InitTargets[Secondary] = 0)
  /\ Thresholds \subseteq Nat
  /\ PurgeIds \subseteq JobIds
  /\ IsFiniteSet(Jobs)

VARIABLES
  throttle_targets,
  throttle_blocks,   \* [Prios -> BOOLEAN], TRUE when locked
  scheduled_counts,  \* [Prios -> Nat]
  waiting,           \* [Prios -> BOOLEAN], _primary_waiting, _secondary_waiting
  sched,             \* [Threads -> where a scheduler thread is in Dequeue]
  life,              \* [Jobs -> the life of its ThrottleJob]
  decision           \* the call that owns _state_lock and what it has read

tvars == <<throttle_targets, throttle_blocks, scheduled_counts, waiting, sched,
           life, decision>>
allvars == <<vars, tvars>>

NoDecision == [by |-> Nobody, at |-> "none", high |-> 0, tried |-> FALSE]

-------------------------------------------------------------------------------
\* The constructor, run by LinkMultiQ.
ThrottlerInit ==
  /\ Init
  /\ throttle_targets = InitTargets
  /\ throttle_blocks = [p \in Prios |-> InitTargets[p] = 0]
  /\ waiting = [p \in Prios |-> InitTargets[p] # 0]
  /\ scheduled_counts = [p \in Prios |-> 0]
  /\ sched = [t \in Threads |-> "block"]
  /\ life = [j \in Jobs |-> "none"]
  /\ decision = NoDecision

Step(t, from, to) == sched[t] = from /\ sched' = [sched EXCEPT ![t] = to]

\* Dequeue: the throttle block of the priority is taken, then the queue asked.
ThrottleLock(t) ==
  /\ Step(t, "block", "dequeue")
  /\ ~throttle_blocks[ThreadPrio[t]]
  /\ throttle_blocks' = [throttle_blocks EXCEPT ![ThreadPrio[t]] = TRUE]
  /\ DequeueCall(t)
  /\ UNCHANGED <<throttle_targets, scheduled_counts, waiting, life, decision>>

ThrottleDequeue(t) ==
  /\ sched[t] = "dequeue"
  /\ DequeueInside(t)
  /\ sched' = [sched EXCEPT ![t] =
                 IF deq'[t] # "idle" THEN "dequeue"
                 ELSE IF result'[t] = Nobody THEN "decide" ELSE "count"]
  /\ UNCHANGED <<throttle_targets, throttle_blocks, scheduled_counts, waiting,
                 life, decision>>

\* The ThrottleJob is made and counted.
IncrementJobCount(t) ==
  /\ Step(t, "count", "decide")
  /\ scheduled_counts' = [scheduled_counts EXCEPT ![ThreadPrio[t]] = @ + 1]
  /\ UNCHANGED <<vars, throttle_targets, throttle_blocks, waiting, life, decision>>

\* The last reference to a ThrottleJob goes: its destructor counts it out.
DecrementJobCount(j) ==
  /\ life[j] = "scheduled"
  /\ scheduled_counts' = [scheduled_counts EXCEPT ![PrioOf[j]] = @ - 1]
  /\ life' = [life EXCEPT ![j] = "leaving"]
  /\ UNCHANGED <<vars, throttle_targets, throttle_blocks, waiting, sched, decision>>

-------------------------------------------------------------------------------
\* DecideToScheduleAfterScheduling(prio) takes _state_lock.
ForgetsWaiting(t) ==
  /\ Step(t, "decide", "deciding")
  /\ decision.by = Nobody
  /\ decision' = [by |-> t, at |-> "sum", high |-> 0, tried |-> FALSE]
  /\ UNCHANGED <<vars, throttle_targets, throttle_blocks, scheduled_counts,
                 waiting, life>>

DecideAfterScheduling(t) ==
  /\ Step(t, "decide", "deciding")
  /\ decision.by = Nobody
  /\ decision' = [by |-> t, at |-> "sum", high |-> 0, tried |-> FALSE]
  /\ waiting' = [waiting EXCEPT ![ThreadPrio[t]] = FALSE]
  /\ UNCHANGED <<vars, throttle_targets, throttle_blocks, scheduled_counts, life>>

\* DecideToScheduleCompleting takes it.
DecideCompleting(j) ==
  /\ life[j] = "leaving"
  /\ decision.by = Nobody
  /\ life' = [life EXCEPT ![j] = "deciding"]
  /\ decision' = [by |-> j, at |-> "sum", high |-> 0, tried |-> FALSE]
  /\ UNCHANGED <<vars, throttle_targets, throttle_blocks, scheduled_counts,
                 waiting, sched>>

\* high_prio_jobs is the sum of two values read one after the other, in the order
\* the compiler likes.
ReadNext(at) == IF at = "sum" THEN {"count", "size"} ELSE {at}
AfterReading(value) == IF decision.at = "sum" THEN value ELSE "primary"

DecideCount ==
  /\ "count" \in ReadNext(decision.at)
  /\ decision' = [by |-> decision.by, at |-> AfterReading("size"),
                  high |-> decision.high + scheduled_counts[Primary],
                  tried |-> FALSE]
  /\ UNCHANGED <<vars, throttle_targets, throttle_blocks, scheduled_counts,
                 waiting, sched, life>>

DecideSize ==
  /\ "size" \in ReadNext(decision.at)
  /\ decision' = [by |-> decision.by, at |-> AfterReading("count"),
                  high |-> decision.high + Cardinality(Queue(Primary)),
                  tried |-> FALSE]
  /\ UNCHANGED <<vars, throttle_targets, throttle_blocks, scheduled_counts,
                 waiting, sched, life>>

\* There is room at a priority and its thread has not been admitted.
RoomOffByOne(p) == scheduled_counts[p] <= throttle_targets[p] /\ ~waiting[p]
Room(p) == scheduled_counts[p] < throttle_targets[p] /\ ~waiting[p]

AdmitKeepsBlock(p) ==
  /\ waiting' = [waiting EXCEPT ![p] = TRUE]
  /\ UNCHANGED throttle_blocks
Admit(p) ==
  /\ waiting' = [waiting EXCEPT ![p] = TRUE]
  /\ throttle_blocks' = [throttle_blocks EXCEPT ![p] = FALSE]

DecidePrimary ==
  /\ decision.at = "primary"
  /\ IF Room(Primary) THEN Admit(Primary)
                      ELSE UNCHANGED <<waiting, throttle_blocks>>
  /\ decision' = [by |-> decision.by, at |-> "secondary",
                  high |-> decision.high, tried |-> Room(Primary)]
  /\ UNCHANGED <<vars, throttle_targets, scheduled_counts, sched, life>>

\* _state_lock is given up.  A job just dequeued is returned to the scheduler.
EndDecision ==
  /\ decision' = NoDecision
  /\ sched' = [t \in Threads |->
                 IF decision.by = t THEN "block" ELSE sched[t]]
  /\ life' = [j \in Jobs |->
                IF decision.by = j THEN "gone"
                ELSE IF decision.by \in Threads /\ j = result[decision.by]
                     THEN "scheduled" ELSE life[j]]

\* The primary jobs, scheduled and queued, leave room for secondary ones.
Spare == decision.high < throttle_targets[Primary]

DecideSecondaryAdmit ==
  /\ decision.at = "secondary"
  /\ Spare /\ Room(Secondary) /\ ~decision.tried
  /\ Admit(Secondary)
  /\ EndDecision
  /\ UNCHANGED <<vars, throttle_targets, scheduled_counts>>

\* Only the decision after a scheduling calls the secondary thread back.
CallsNobodyBack == FALSE
CallsBack == decision.by \in Threads /\ ~Spare /\ waiting[Secondary]

DecideSecondaryRelease ==
  /\ decision.at = "secondary"
  /\ CallsBack
  /\ decision' = [by |-> decision.by, at |-> "release", high |-> 0, tried |-> FALSE]
  /\ UNCHANGED <<vars, throttle_targets, throttle_blocks, scheduled_counts,
                 waiting, sched, life>>

DecideSecondaryNot ==
  /\ decision.at = "secondary"
  /\ ~(Spare /\ Room(Secondary) /\ ~decision.tried)
  /\ ~CallsBack
  /\ EndDecision
  /\ UNCHANGED <<vars, throttle_targets, throttle_blocks, scheduled_counts, waiting>>

\* _multi_q_p->ReleaseOne(kSecondaryPriority), with _state_lock held.
DecideReleaseCall ==
  /\ decision.at = "release"
  /\ ReleaseOne(Secondary)
  /\ IF exclusive'.op = "none"
       THEN EndDecision
       ELSE /\ decision' = [by |-> decision.by, at |-> "releasing",
                            high |-> 0, tried |-> FALSE]
            /\ UNCHANGED <<sched, life>>
  /\ UNCHANGED <<throttle_targets, throttle_blocks, scheduled_counts, waiting>>

DecideReleaseSet ==
  /\ decision.at = "releasing"
  /\ ReleaseOneSet
  /\ UNCHANGED tvars

DecideReleaseUnlock ==
  /\ decision.at = "releasing"
  /\ ReleaseOneUnlock
  /\ EndDecision
  /\ UNCHANGED <<throttle_targets, throttle_blocks, scheduled_counts, waiting>>

Decide ==
  \/ DecideCount \/ DecideSize \/ DecidePrimary
  \/ DecideSecondaryAdmit \/ DecideSecondaryRelease \/ DecideSecondaryNot
  \/ DecideReleaseCall \/ DecideReleaseSet \/ DecideReleaseUnlock

-------------------------------------------------------------------------------
\* SetThrottle changes a target and decides nothing.  Both targets at zero is a
\* failed CHECK: the process ends.
SetThrottle(p, threshold) ==
  /\ decision.by = Nobody
  /\ throttle_targets' = [throttle_targets EXCEPT ![p] = threshold]
  /\ ~(throttle_targets'[Primary] = 0 /\ throttle_targets'[Secondary] = 0)
  /\ UNCHANGED <<vars, throttle_blocks, scheduled_counts, waiting, sched, life,
                 decision>>

Arrive(j) == Enqueue(j) /\ UNCHANGED tvars
GoAway(id) == Purge(id) /\ UNCHANGED tvars

Schedule(t) ==
  \/ ThrottleLock(t) \/ ThrottleDequeue(t) \/ IncrementJobCount(t)
  \/ DecideAfterScheduling(t)

Finish(j) == DecrementJobCount(j) \/ DecideCompleting(j)

ThrottlerNext ==
  \/ \E j \in Jobs : Arrive(j) \/ Finish(j)
  \/ \E t \in Threads : Schedule(t)
  \/ Decide
  \/ \E p \in Prios, threshold \in Thresholds : SetThrottle(p, threshold)
  \/ \E id \in PurgeIds : GoAway(id)

ThrottlerSpec == ThrottlerInit /\ [][ThrottlerNext]_allvars

\* As long as a thread can go on or a scheduled job can come to its end, one of them
\* does; nobody has to connect, to go away or to change a target.
GoesOn ==
  \/ \E j \in Jobs : (Arrive(j) /\ ~EnqueueInsert(j)) \/ Finish(j)
  \/ \E t \in Threads : Schedule(t)
  \/ Decide

ThrottlerFairSpec == ThrottlerSpec /\ WF_allvars(GoesOn)

-------------------------------------------------------------------------------
\* No more jobs of a priority are scheduled than the largest of its targets allows,
\* however the decisions, the unprotected reads and SetThrottle interleave.  (A
\* lowered target does not call back what is scheduled already.)
Targets(p) == {InitTargets[p]} \cup Thresholds

ThrottleBound ==
  \A p \in Prios : \E target \in Targets(p) : scheduled_counts[p] <= target

\* The flags _primary_waiting and _secondary_waiting match the throttle blocks: a
\* priority is marked as waiting exactly while its block is open or one thread
\* that passed it has not decided yet.  Two admissions never run into one.
Admitted(t) == sched[t] \in {"dequeue", "count", "decide"}

AdmissionMatchesBlock ==
  \A p \in Prios :
    /\ waiting[p] <=> \/ ~throttle_blocks[p]
                      \/ \E t \in Threads : ThreadPrio[t] = p /\ Admitted(t)
    /\ \A t \in Threads : ThreadPrio[t] = p /\ Admitted(t) =>
         /\ throttle_blocks[p]
         /\ \A u \in Threads : ThreadPrio[u] = p /\ Admitted(u) => u = t

\* Secondary jobs are withheld while primary jobs fill their target: once a decision
\* after a scheduling is over, the secondary thread does not sit in its queue, ready
\* to take the next job, unless it is about to be told to come back.  (ReleaseOne
\* leaves a thread alone whose queue has a job: that one is taken.)
Withheld ==
  scheduled_counts[Primary] >= throttle_targets[Primary]
    /\ (\A t \in Threads : ThreadPrio[t] = Primary => sched[t] = "block")
  => \A t \in Threads : ThreadPrio[t] = Secondary /\ deq[t] = "lock" =>
       release_one[Secondary] \/ Queue(Secondary) # {}

SecondaryWithheld ==
  [][decision.by \in Threads /\ decision'.by = Nobody => Withheld']_allvars

\* A queued job is scheduled or purged in the end, and so each priority's thread is
\* admitted again whenever jobs have left, as long as its target stays positive and
\* the primary target above the number of primary jobs, whatever SetThrottle does
\* otherwise.  (At the target the secondary thread is called back, and there may be
\* no later decision to admit it.)
EveryJobServed ==
  [](throttle_targets[Primary] > Cardinality({j \in Jobs : PrioOf[j] = Primary}))
    => \A j \in Jobs : [](throttle_targets[PrioOf[j]] > 0) =>
         (job_state[j] = "inserted" ~> job_state[j] \in {"returned", "purged"})

-------------------------------------------------------------------------------
\* The constructor and SetThrottle refuse two targets of zero, since these "will
\* result in a blocked state": with other targets, as long as none changes, a
\* job whose priority has a positive one is scheduled or purged in the end.
BlockedOnlyByTwoZeros ==
  \A j \in Jobs :
    InitTargets[PrioOf[j]] > 0 /\ job_state[j] = "inserted"
      ~> job_state[j] \in {"returned", "purged"} \/ throttle_targets # InitTargets

===============================================================================

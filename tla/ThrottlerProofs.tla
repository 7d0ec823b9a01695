--------------------------- MODULE ThrottlerProofs ----------------------------
(***************************************************************************)
(* Proofs about Throttler and about the program ThrottlingProxy, for any   *)
(* number of jobs, of scheduler threads per priority and any targets.  For *)
(* the throttle bound nothing is assumed of the queue: whatever Dequeue    *)
(* returns, and when, the admissions keep the bound.                       *)
(***************************************************************************)
EXTENDS ThrottlingProxy, Integers, FiniteSetTheorems, TLAPS
-------------------------------------------------------------------------------
(* The inductive invariant.                                                *)

ThrottleTypes ==
  /\ throttle_targets \in [Prios -> Nat]
  /\ throttle_blocks \in [Prios -> BOOLEAN]
  /\ scheduled_counts \in [Prios -> Int]
  /\ waiting \in [Prios -> BOOLEAN]
  /\ sched \in [Threads -> {"block", "dequeue", "count", "decide", "deciding"}]

\* The thread whose decision is under way is not an admitted one.
DecidingThread == \A t \in Threads : decision.by = t => sched[t] = "deciding"

AdmissionInv == ThrottleTypes /\ DecidingThread /\ AdmissionMatchesBlock

\* A thread that has been admitted and has not counted its job yet still has its
\* place below one of the targets.
Counted(p) == \E t \in Threads : ThreadPrio[t] = p /\ sched[t] = "decide"

PlaceKept(p) ==
  /\ throttle_targets[p] \in Targets(p)
  /\ \E target \in Targets(p) : scheduled_counts[p] <= target
  /\ waiting[p] /\ ~Counted(p) => \E target \in Targets(p) : scheduled_counts[p] < target

BoundInv == \A p \in Prios : PlaceKept(p)

-------------------------------------------------------------------------------
\* The two priorities of the Throttler, and what is known of threads and jobs.
LEMMA Priorities ==
  /\ Primary \in Prios /\ Secondary \in Prios /\ Primary # Secondary
  /\ \A t \in Threads : ThreadPrio[t] \in Prios
  /\ \A j \in Jobs : PrioOf[j] \in Prios /\ j \notin Threads
  /\ Nobody \notin Threads
BY MultiQueueConstants, ThrottlerConstants DEF Primary, Secondary, Prios

\* Steps that touch no admission, block or flag.
LEMMA AdmissionFrame ==
  ASSUME AdmissionInv, UNCHANGED <<throttle_blocks, waiting>>,
         throttle_targets' \in [Prios -> Nat],
         scheduled_counts' \in [Prios -> Int],
         sched' \in [Threads -> {"block", "dequeue", "count", "decide", "deciding"}],
         \A t \in Threads : Admitted(t)' = Admitted(t),
         DecidingThread'
  PROVE  AdmissionInv'
BY DEF AdmissionInv, ThrottleTypes, AdmissionMatchesBlock

\* Ending a decision moves only a thread that is not admitted.
LEMMA EndDecisionMoves ==
  ASSUME AdmissionInv, EndDecision
  PROVE  /\ sched' \in [Threads -> {"block", "dequeue", "count", "decide", "deciding"}]
         /\ \A t \in Threads : /\ Admitted(t)' = Admitted(t)
                               /\ sched'[t] = "decide" <=> sched[t] = "decide"
         /\ DecidingThread'
BY Priorities DEF AdmissionInv, ThrottleTypes, DecidingThread, EndDecision,
   NoDecision, Admitted

\* Admitting a priority that is not waiting.
LEMMA AdmitKeeps ==
  ASSUME AdmissionInv, NEW p \in Prios, ~waiting[p], Admit(p),
         UNCHANGED <<throttle_targets, scheduled_counts>>,
         sched' \in [Threads -> {"block", "dequeue", "count", "decide", "deciding"}],
         \A t \in Threads : Admitted(t)' = Admitted(t),
         DecidingThread'
  PROVE  AdmissionInv'
<1>1. ThrottleTypes'
  BY DEF AdmissionInv, ThrottleTypes, Admit
<1>2. AdmissionMatchesBlock'
  <2> SUFFICES ASSUME NEW q \in Prios
               PROVE  /\ waiting'[q] <=>
                           \/ ~throttle_blocks'[q]
                           \/ \E t \in Threads : ThreadPrio[t] = q /\ Admitted(t)'
                      /\ \A t \in Threads : ThreadPrio[t] = q /\ Admitted(t)' =>
                           /\ throttle_blocks'[q]
                           /\ \A u \in Threads :
                                ThreadPrio[u] = q /\ Admitted(u)' => u = t
    BY DEF AdmissionMatchesBlock
  <2>1. CASE q = p
    <3>1. ~\E t \in Threads : ThreadPrio[t] = p /\ Admitted(t)
      BY DEF AdmissionInv, AdmissionMatchesBlock
    <3>2. waiting'[p] /\ ~throttle_blocks'[p]
      BY DEF Admit, AdmissionInv, ThrottleTypes
    <3>. QED
      BY <2>1, <3>1, <3>2
  <2>2. CASE q # p
    <3>1. waiting'[q] = waiting[q] /\ throttle_blocks'[q] = throttle_blocks[q]
      BY <2>2 DEF Admit, AdmissionInv, ThrottleTypes
    <3>. QED
      BY <3>1 DEF AdmissionInv, AdmissionMatchesBlock
  <2>. QED
    BY <2>1, <2>2
<1>. QED
  BY <1>1, <1>2 DEF AdmissionInv

\* The constructor opens the blocks of the priorities it marks as waiting.
LEMMA AdmissionInit == ThrottlerInit => AdmissionInv
<1> SUFFICES ASSUME ThrottlerInit PROVE AdmissionInv
  OBVIOUS
<1> USE DEF ThrottlerInit
<1>1. ThrottleTypes
  BY ThrottlerConstants DEF ThrottleTypes
<1>2. DecidingThread
  BY Priorities DEF DecidingThread, NoDecision
<1>3. \A t \in Threads : ~Admitted(t)
  BY DEF Admitted
<1>4. \A p \in Prios : waiting[p] <=> ~throttle_blocks[p]
  BY Zenon
<1>5. AdmissionMatchesBlock
  BY <1>3, <1>4 DEF AdmissionMatchesBlock
<1>. QED
  BY <1>1, <1>2, <1>5 DEF AdmissionInv

\* Every step keeps the flags, the blocks and the admitted threads in agreement.
LEMMA AdmissionStep ==
  ASSUME AdmissionInv, [ThrottlerNext]_allvars
  PROVE  AdmissionInv'
<1> USE Priorities
<1>1. ASSUME NEW t \in Threads, ThrottleLock(t) PROVE AdmissionInv'
  <2> DEFINE p == ThreadPrio[t]
  <2>1. ThrottleTypes' /\ DecidingThread'
    BY <1>1 DEF ThrottleLock, Step, AdmissionInv, ThrottleTypes, DecidingThread
  <2>2. /\ \A u \in Threads : Admitted(u)' <=> Admitted(u) \/ u = t
        /\ ~Admitted(t)
        /\ UNCHANGED waiting
        /\ ~throttle_blocks[p] /\ throttle_blocks'[p]
        /\ \A q \in Prios : q # p => throttle_blocks'[q] = throttle_blocks[q]
    BY <1>1 DEF ThrottleLock, Step, AdmissionInv, ThrottleTypes, Admitted
  <2>3. AdmissionMatchesBlock'
    BY <2>2 DEF AdmissionInv, AdmissionMatchesBlock
  <2>. QED
    BY <2>1, <2>3 DEF AdmissionInv
<1>2. ASSUME NEW t \in Threads, ThrottleDequeue(t) PROVE AdmissionInv'
  <2>1. /\ sched' \in [Threads -> {"block", "dequeue", "count", "decide", "deciding"}]
        /\ \A u \in Threads : Admitted(u)' = Admitted(u)
        /\ DecidingThread'
    BY <1>2 DEF ThrottleDequeue, AdmissionInv, ThrottleTypes, Admitted, DecidingThread
  <2>. QED
    BY <1>2, <2>1, AdmissionFrame DEF ThrottleDequeue, AdmissionInv, ThrottleTypes
<1>3. ASSUME NEW t \in Threads, IncrementJobCount(t) PROVE AdmissionInv'
  <2>1. /\ sched' \in [Threads -> {"block", "dequeue", "count", "decide", "deciding"}]
        /\ \A u \in Threads : Admitted(u)' = Admitted(u)
        /\ DecidingThread'
        /\ scheduled_counts' \in [Prios -> Int]
    BY <1>3 DEF IncrementJobCount, Step, AdmissionInv, ThrottleTypes, Admitted,
      DecidingThread
  <2>. QED
    BY <1>3, <2>1, AdmissionFrame DEF IncrementJobCount, AdmissionInv, ThrottleTypes
<1>4. ASSUME NEW t \in Threads, DecideAfterScheduling(t) PROVE AdmissionInv'
  <2> DEFINE p == ThreadPrio[t]
  <2>1. ThrottleTypes' /\ DecidingThread'
    BY <1>4 DEF DecideAfterScheduling, Step, AdmissionInv, ThrottleTypes,
      DecidingThread
  <2>2. /\ \A u \in Threads : Admitted(u)' <=> Admitted(u) /\ u # t
        /\ Admitted(t)
        /\ UNCHANGED throttle_blocks
        /\ ~waiting'[p]
        /\ \A q \in Prios : q # p => waiting'[q] = waiting[q]
    BY <1>4 DEF DecideAfterScheduling, Step, AdmissionInv, ThrottleTypes, Admitted
  <2>3. AdmissionMatchesBlock'
    BY <2>2 DEF AdmissionInv, AdmissionMatchesBlock
  <2>. QED
    BY <2>1, <2>3 DEF AdmissionInv
<1>5. ASSUME NEW j \in Jobs, DecrementJobCount(j) \/ DecideCompleting(j)
      PROVE  AdmissionInv'
  <2>1. /\ UNCHANGED <<sched, throttle_blocks, waiting, throttle_targets>>
        /\ DecidingThread'
        /\ scheduled_counts' \in [Prios -> Int]
    BY <1>5 DEF DecrementJobCount, DecideCompleting, AdmissionInv, ThrottleTypes,
      DecidingThread
  <2>. QED
    BY <2>1, AdmissionFrame DEF AdmissionInv, ThrottleTypes, Admitted
<1>6. ASSUME \/ DecideCount \/ DecideSize \/ DecideSecondaryRelease
             \/ DecideReleaseSet \/ UNCHANGED tvars
             \/ \E p \in Prios, threshold \in Thresholds : SetThrottle(p, threshold)
      PROVE  AdmissionInv'
  <2>1. /\ UNCHANGED <<sched, throttle_blocks, waiting, scheduled_counts>>
        /\ throttle_targets' \in [Prios -> Nat]
        /\ (decision').by = decision.by
    BY <1>6, ThrottlerConstants DEF DecideCount, DecideSize, DecideSecondaryRelease,
      DecideReleaseSet, SetThrottle, tvars, AdmissionInv, ThrottleTypes
  <2>. QED
    BY <2>1, AdmissionFrame DEF AdmissionInv, ThrottleTypes, Admitted, DecidingThread
<1>7. ASSUME DecidePrimary PROVE AdmissionInv'
  <2>1. UNCHANGED <<sched, throttle_targets, scheduled_counts>> /\ DecidingThread'
    BY <1>7 DEF DecidePrimary, AdmissionInv, DecidingThread
  <2>2. CASE Room(Primary)
    BY Zenon, <1>7, <2>1, <2>2, AdmitKeeps DEF DecidePrimary, Room, AdmissionInv,
      ThrottleTypes, Admitted
  <2>3. CASE ~Room(Primary)
    BY <1>7, <2>1, <2>3, AdmissionFrame DEF DecidePrimary, AdmissionInv,
      ThrottleTypes, Admitted
  <2>. QED
    BY <2>2, <2>3
<1>8. ASSUME DecideSecondaryAdmit PROVE AdmissionInv'
  BY Zenon, <1>8, EndDecisionMoves, AdmitKeeps DEF DecideSecondaryAdmit, Room
<1>9. ASSUME DecideSecondaryNot \/ DecideReleaseUnlock PROVE AdmissionInv'
  BY Zenon, <1>9, EndDecisionMoves, AdmissionFrame DEF DecideSecondaryNot,
    DecideReleaseUnlock, AdmissionInv, ThrottleTypes
<1>10. ASSUME DecideReleaseCall PROVE AdmissionInv'
  <2>1. CASE EndDecision
    BY Zenon, <1>10, <2>1, EndDecisionMoves, AdmissionFrame DEF DecideReleaseCall,
      AdmissionInv, ThrottleTypes
  <2>2. CASE (decision').by = decision.by /\ UNCHANGED sched
    BY <1>10, <2>2, AdmissionFrame DEF DecideReleaseCall, AdmissionInv,
      ThrottleTypes, Admitted, DecidingThread
  <2>. QED
    BY <1>10, <2>1, <2>2 DEF DecideReleaseCall
<1>. QED
  BY <1>1, <1>2, <1>3, <1>4, <1>5, <1>6, <1>7, <1>8, <1>9, <1>10
  DEF ThrottlerNext, Arrive, Finish, Schedule, Decide, GoAway, allvars

\* The flags of the throttler and its throttle blocks agree in every state, also
\* while clients change the targets.
THEOREM AdmissionsMatch == ThrottlerSpec => []AdmissionMatchesBlock
<1>1. AdmissionInv => AdmissionMatchesBlock
  BY DEF AdmissionInv
<1>. QED
  BY <1>1, AdmissionInit, AdmissionStep, PTL DEF ThrottlerSpec

-------------------------------------------------------------------------------
(* The bound.                                                              *)

\* The targets are numbers.
LEMMA TargetsAreNumbers == ASSUME NEW p \in Prios PROVE Targets(p) \subseteq Nat
BY Zenon, ThrottlerConstants DEF Targets

\* A priority keeps its places if its count does not rise and nobody is admitted or
\* loses its place.
LEMMA PlaceFrame ==
  ASSUME NEW p \in Prios, ThrottleTypes, PlaceKept(p),
         scheduled_counts'[p] \in Int,
         scheduled_counts'[p] <= scheduled_counts[p],
         throttle_targets'[p] \in Targets(p),
         waiting'[p] /\ ~Counted(p)' => waiting[p] /\ ~Counted(p)
  PROVE  PlaceKept(p)'
<1>1. Targets(p)' = Targets(p)
  BY DEF Targets
<1>2. scheduled_counts[p] \in Int
  BY DEF ThrottleTypes
<1>3. \E target \in Targets(p) : scheduled_counts'[p] <= target
  BY <1>2, TargetsAreNumbers DEF PlaceKept
<1>4. ASSUME waiting[p] /\ ~Counted(p)
      PROVE  \E target \in Targets(p) : scheduled_counts'[p] < target
  BY <1>2, <1>4, TargetsAreNumbers DEF PlaceKept
<1>. QED
  BY <1>1, <1>3, <1>4 DEF PlaceKept

\* An admission takes a place that is free.
LEMMA PlaceTaken ==
  ASSUME NEW p \in Prios, NEW q \in Prios, ThrottleTypes, PlaceKept(p),
         Room(q), Admit(q), UNCHANGED <<throttle_targets, scheduled_counts>>,
         Counted(p)' <=> Counted(p)
  PROVE  PlaceKept(p)'
<1>1. CASE q = p
  BY <1>1 DEF PlaceKept, ThrottleTypes, Room, Targets
<1>2. CASE q # p
  BY <1>2, PlaceFrame DEF ThrottleTypes, Admit, PlaceKept
<1>. QED
  BY <1>1, <1>2

\* A decision admits a thread only if its job will have a place below the target.
LEMMA BoundStep ==
  ASSUME AdmissionInv, BoundInv, [ThrottlerNext]_allvars
  PROVE  BoundInv'
<1> SUFFICES ASSUME NEW p \in Prios PROVE PlaceKept(p)'
  BY DEF BoundInv
<1> USE Priorities
<1>0. /\ ThrottleTypes /\ PlaceKept(p) /\ scheduled_counts[p] \in Int
      /\ throttle_targets[p] \in Targets(p)
  BY Zenon DEF AdmissionInv, BoundInv, ThrottleTypes, PlaceKept
<1>1. ASSUME UNCHANGED <<scheduled_counts, throttle_targets>>,
             waiting'[p] /\ ~Counted(p)' => waiting[p] /\ ~Counted(p)
      PROVE  PlaceKept(p)'
  <2>1. /\ scheduled_counts'[p] \in Int /\ throttle_targets'[p] \in Targets(p)
        /\ scheduled_counts'[p] <= scheduled_counts[p]
    BY <1>0, <1>1
  <2>. QED
    BY Zenon, <1>0, <1>1, <2>1, PlaceFrame
<1>2. ASSUME NEW t \in Threads, ThrottleLock(t) \/ ThrottleDequeue(t)
      PROVE  PlaceKept(p)'
  <2>1. Counted(p) => Counted(p)'
    BY <1>0, <1>2 DEF ThrottleLock, ThrottleDequeue, Step, Counted, ThrottleTypes
  <2>. QED
    BY <1>1, <1>2, <2>1 DEF ThrottleLock, ThrottleDequeue
<1>3. ASSUME NEW t \in Threads, IncrementJobCount(t) PROVE PlaceKept(p)'
  <2>1. CASE ThreadPrio[t] = p
    <3>1. waiting[p] /\ ~Counted(p)
      BY <1>3, <2>1 DEF IncrementJobCount, Step, AdmissionInv,
        AdmissionMatchesBlock, Admitted, Counted
    <3>2. Counted(p)'
      BY <1>0, <1>3, <2>1 DEF IncrementJobCount, Step, Counted, ThrottleTypes
    <3>3. scheduled_counts'[p] = scheduled_counts[p] + 1 /\ Targets(p)' = Targets(p)
      BY <1>0, <1>3, <2>1 DEF IncrementJobCount, ThrottleTypes, Targets
    <3>4. PICK target \in Targets(p) : scheduled_counts[p] < target
      BY <1>0, <3>1 DEF PlaceKept
    <3>5. scheduled_counts'[p] <= target
      BY <1>0, <3>3, <3>4, TargetsAreNumbers
    <3>6. throttle_targets'[p] \in Targets(p)
      BY <1>0, <1>3 DEF IncrementJobCount
    <3>. QED
      BY <3>2, <3>3, <3>4, <3>5, <3>6 DEF PlaceKept
  <2>2. CASE ThreadPrio[t] # p
    <3>1. Counted(p) => Counted(p)'
      BY <1>0, <1>3, <2>2 DEF IncrementJobCount, Step, Counted, ThrottleTypes
    <3>. QED
      BY <1>0, <1>3, <2>2, <3>1, PlaceFrame DEF IncrementJobCount, ThrottleTypes
  <2>. QED
    BY <2>1, <2>2
<1>4. ASSUME NEW t \in Threads, DecideAfterScheduling(t) PROVE PlaceKept(p)'
  <2>1. CASE ThreadPrio[t] = p
    <3>1. ~waiting'[p]
      BY Zenon, <1>0, <1>4, <2>1 DEF DecideAfterScheduling, ThrottleTypes
    <3>. QED
      BY Zenon, <1>1, <1>4, <3>1 DEF DecideAfterScheduling
  <2>2. CASE ThreadPrio[t] # p
    <3>1. waiting'[p] = waiting[p]
      BY Zenon, <1>0, <1>4, <2>2 DEF DecideAfterScheduling, ThrottleTypes
    <3>2. Counted(p) => Counted(p)'
      <4>1. \A u \in Threads : u # t => sched'[u] = sched[u]
        BY Zenon, <1>0, <1>4 DEF DecideAfterScheduling, Step, ThrottleTypes
      <4>. QED
        BY Zenon, <2>2, <4>1 DEF Counted
    <3>. QED
      BY Zenon, <1>1, <1>4, <3>1, <3>2 DEF DecideAfterScheduling
  <2>. QED
    BY <2>1, <2>2
<1>5. ASSUME NEW j \in Jobs, DecrementJobCount(j) PROVE PlaceKept(p)'
  <2>1. /\ scheduled_counts'[p] \in Int
        /\ scheduled_counts'[p] <= scheduled_counts[p]
    BY <1>0, <1>5 DEF DecrementJobCount, ThrottleTypes
  <2>. QED
    BY Zenon, <1>0, <1>5, <2>1, PlaceFrame DEF DecrementJobCount, Counted
<1>6. ASSUME DecidePrimary PROVE PlaceKept(p)'
  <2>1. Counted(p)' <=> Counted(p)
    BY Zenon, <1>6 DEF DecidePrimary, Counted
  <2>. QED
    BY Zenon, <1>0, <1>1, <1>6, <2>1, PlaceTaken DEF DecidePrimary
<1>7. ASSUME EndDecision PROVE Counted(p)' <=> Counted(p)
  BY Zenon, <1>7, EndDecisionMoves DEF Counted
<1>8. ASSUME DecideSecondaryAdmit PROVE PlaceKept(p)'
  <2>1. /\ Room(Secondary) /\ Admit(Secondary) /\ EndDecision
        /\ UNCHANGED <<throttle_targets, scheduled_counts>>
    BY Zenon, <1>8 DEF DecideSecondaryAdmit
  <2>. QED
    BY <1>0, <1>7, <2>1, PlaceTaken
<1>9. ASSUME DecideSecondaryNot \/ DecideReleaseUnlock \/ DecideReleaseCall
      PROVE  PlaceKept(p)'
  BY Zenon, <1>1, <1>7, <1>9 DEF DecideSecondaryNot, DecideReleaseUnlock,
    DecideReleaseCall, Counted
<1>10. ASSUME \/ DecideCount \/ DecideSize \/ DecideSecondaryRelease
              \/ DecideReleaseSet \/ UNCHANGED tvars
              \/ \E j \in Jobs : DecideCompleting(j)
       PROVE  PlaceKept(p)'
  <2>1. UNCHANGED <<scheduled_counts, throttle_targets, waiting, sched>>
    BY Zenon, <1>10 DEF DecideCount, DecideSize, DecideSecondaryRelease,
      DecideReleaseSet, DecideCompleting, tvars
  <2>. QED
    BY Zenon, <1>1, <2>1 DEF Counted
<1>11. ASSUME NEW q \in Prios, NEW threshold \in Thresholds, SetThrottle(q, threshold)
       PROVE  PlaceKept(p)'
  <2>1. throttle_targets'[p] \in Targets(p)
    BY <1>0, <1>11 DEF SetThrottle, ThrottleTypes, Targets
  <2>2. /\ scheduled_counts'[p] \in Int
        /\ scheduled_counts'[p] <= scheduled_counts[p]
        /\ waiting'[p] = waiting[p] /\ (Counted(p)' <=> Counted(p))
    BY <1>0, <1>11 DEF SetThrottle, Counted
  <2>. QED
    BY <1>0, <2>1, <2>2, PlaceFrame
<1>. QED
  BY <1>2, <1>3, <1>4, <1>5, <1>6, <1>8, <1>9, <1>10, <1>11
  DEF ThrottlerNext, Arrive, Finish, Schedule, Decide, GoAway, allvars

\* At most as many jobs of a priority are scheduled as the largest of its targets
\* says.
THEOREM BoundHolds == ThrottlerSpec => []ThrottleBound
<1>1. ThrottlerInit => BoundInv
  <2> SUFFICES ASSUME ThrottlerInit, NEW p \in Prios PROVE PlaceKept(p)
    BY DEF BoundInv
  <2>1. /\ scheduled_counts[p] = 0
        /\ throttle_targets[p] \in Nat
        /\ throttle_targets[p] \in Targets(p)
        /\ waiting[p] => throttle_targets[p] # 0
    BY Zenon, ThrottlerConstants DEF ThrottlerInit, Targets
  <2>. QED
    BY <2>1 DEF PlaceKept
<1>2. AdmissionInv /\ BoundInv /\ [ThrottlerNext]_allvars => BoundInv'
  BY BoundStep
<1>3. BoundInv => ThrottleBound
  BY DEF BoundInv, PlaceKept, ThrottleBound
<1>. QED
  BY <1>1, <1>2, <1>3, AdmissionInit, AdmissionStep, PTL DEF ThrottlerSpec

-------------------------------------------------------------------------------
(* Secondary jobs are withheld.                                            *)

DequeueAt == {"idle", "lock", "test", "clear", "guard", "recheck", "pop", "popped", "mapping",
              "corrupt"}

\* A thread is inside the queue's Dequeue only in its own; no bit of _release_one but
\* the secondary one is ever set, so that only a secondary thread clears one.
QueueSide ==
  /\ DOMAIN priority_qs \subseteq Jobs
  /\ deq \in [Threads -> DequeueAt] /\ DOMAIN result = Threads
  /\ release_one \in Word /\ exclusive.word \in Word /\ word \in [Threads -> Word]
  /\ ~release_one[Primary] /\ ~exclusive.word[Primary]
  /\ \A t \in Threads : ~word[t][Primary]
  /\ \A t \in Threads : deq[t] # "idle" => sched[t] = "dequeue"
  /\ \A t \in Threads : deq[t] = "clear" => ThreadPrio[t] = Secondary

\* The secondary thread has been told to come back, or has come back.
Told ==
  \/ release_one[Secondary]
  \/ \E t \in Threads : ThreadPrio[t] = Secondary /\ sched[t] = "decide"

\* No primary thread is on its way to counting a job, or has counted one since.
PrimaryAtRest ==
  \A t \in Threads : ThreadPrio[t] = Primary => sched[t] \in {"block", "deciding"}

\* ReleaseOne runs inside a decision, and what a decision has read of the primary
\* jobs is not too small unless a primary thread has its own decision still to take.
DecisionSide ==
  /\ decision.at # "none" => decision.by # Nobody
  /\ exclusive.op # "none" => decision.at = "releasing" /\ exclusive.prio = Secondary
  /\ exclusive.op = "ReleaseOneUnlock" => Told
  /\ decision.high \in Int
  /\ decision.at \in {"sum", "count"} => decision.high \in Nat
  /\ decision.at \in {"size", "primary", "secondary"} /\ PrimaryAtRest =>
       scheduled_counts[Primary] <= decision.high

WithheldInv == QueueSide /\ DecisionSide

\* A word without bits, and no call that owns the purge lock.
LEMMA Bits ==
  NoBits \in Word /\ ~NoBits[Primary] /\ NoExclusive.op = "none" /\ NoExclusive.word = NoBits
BY Priorities DEF NoBits, Word, NoExclusive, Call

LEMMA WithheldInit == ThrottlerInit => WithheldInv
<1> SUFFICES ASSUME ThrottlerInit PROVE WithheldInv
  OBVIOUS
<1>1. QueueSide
  BY Bits DEF ThrottlerInit, Init, QueueSide, DequeueAt, EmptyLists
<1>2. DecisionSide
  BY Bits DEF ThrottlerInit, Init, DecisionSide, NoDecision
<1>. QED
  BY <1>1, <1>2 DEF WithheldInv

\* Steps of the jobs and of the clients.
LEMMA WithheldFrame ==
  ASSUME AdmissionInv, WithheldInv, DOMAIN priority_qs' \subseteq Jobs,
         UNCHANGED <<deq, result, sched, release_one, exclusive, word, decision>>,
         scheduled_counts'[Primary] \in Int,
         scheduled_counts'[Primary] <= scheduled_counts[Primary]
  PROVE  WithheldInv'
<1>1. QueueSide'
  BY Zenon DEF WithheldInv, QueueSide
<1>2. (PrimaryAtRest' <=> PrimaryAtRest) /\ (Told' <=> Told)
  BY Zenon DEF PrimaryAtRest, Told
<1>3. scheduled_counts[Primary] \in Int
  BY Zenon, Priorities DEF AdmissionInv, ThrottleTypes
<1>4. decision.high \in Int /\ (decision.at \in {"size", "primary", "secondary"} /\ PrimaryAtRest =>
        scheduled_counts[Primary] <= decision.high)
  BY Zenon DEF WithheldInv, DecisionSide
<1>5. decision.at \in {"size", "primary", "secondary"} /\ PrimaryAtRest =>
        scheduled_counts'[Primary] <= decision.high
  BY <1>3, <1>4
<1>6. DecisionSide'
  BY Zenon, <1>2, <1>4, <1>5 DEF WithheldInv, DecisionSide
<1>. QED
  BY Zenon, <1>1, <1>6 DEF WithheldInv

\* A thread of the scheduler goes on before its decision.
LEMMA SchedulingWithheld ==
  ASSUME AdmissionInv, WithheldInv, NEW t \in Threads,
         NEW to \in {"dequeue", "count", "decide"}, sched' = [sched EXCEPT ![t] = to],
         sched[t] = "decide" => to = "decide",
         QueueSide', UNCHANGED <<exclusive, decision>>,
         ThreadPrio[t] # Primary => scheduled_counts'[Primary] = scheduled_counts[Primary],
         release_one' = release_one \/ (ThreadPrio[t] = Secondary /\ to = "decide")
  PROVE  WithheldInv'
<1>1. sched'[t] = to /\ \A u \in Threads : u # t => sched'[u] = sched[u]
  BY Zenon DEF AdmissionInv, ThrottleTypes
<1>2. Told => Told'
  BY Zenon, <1>1 DEF Told
<1>3. PrimaryAtRest' => PrimaryAtRest /\ scheduled_counts'[Primary] = scheduled_counts[Primary]
  <2>. SUFFICES ASSUME PrimaryAtRest'
                PROVE  PrimaryAtRest /\ scheduled_counts'[Primary] = scheduled_counts[Primary]
    OBVIOUS
  <2>1. ThreadPrio[t] # Primary
    BY <1>1 DEF PrimaryAtRest
  <2>. QED
    BY <1>1, <2>1 DEF PrimaryAtRest
<1>4. /\ decision.at # "none" => decision.by # Nobody
      /\ exclusive.op # "none" => decision.at = "releasing" /\ exclusive.prio = Secondary
      /\ exclusive.op = "ReleaseOneUnlock" => Told
      /\ decision.high \in Int
      /\ decision.at \in {"sum", "count"} => decision.high \in Nat
      /\ decision.at \in {"size", "primary", "secondary"} /\ PrimaryAtRest =>
           scheduled_counts[Primary] <= decision.high
  BY Zenon DEF WithheldInv, DecisionSide
<1>5. DecisionSide'
  BY Zenon, <1>2, <1>3, <1>4 DEF DecisionSide
<1>. QED
  BY Zenon, <1>5 DEF WithheldInv

\* A step inside the queue's Dequeue.
LEMMA DequeueWithheld ==
  ASSUME AdmissionInv, WithheldInv, NEW t \in Threads, ThrottleDequeue(t)
  PROVE  WithheldInv'
<1> DEFINE to == IF deq'[t] # "idle" THEN "dequeue"
                 ELSE IF result'[t] = Nobody THEN "decide" ELSE "count"
<1>0. /\ sched[t] = "dequeue" /\ sched' = [sched EXCEPT ![t] = to] /\ DequeueInside(t)
      /\ UNCHANGED <<scheduled_counts, decision>>
  BY Zenon DEF ThrottleDequeue
<1>1. PICK x \in DequeueAt : deq' = [deq EXCEPT ![t] = x]
  BY Zenon, <1>0 DEF DequeueInside, DequeueLock, DequeueTest, DequeueClear, DequeueGuard,
    DequeueRecheck, DequeuePop, DequeuePopEmpty, DequeueLockMap, DequeueFind, At, DequeueAt
<1>2. UNCHANGED exclusive /\ DOMAIN priority_qs' \subseteq Jobs /\ DOMAIN result' = Threads
  <2>1. UNCHANGED exclusive
    BY Zenon, <1>0 DEF DequeueInside, DequeueLock, DequeueTest, DequeueClear, DequeueGuard,
      DequeueRecheck, DequeuePop, DequeuePopEmpty, DequeueLockMap, DequeueFind, locks
  <2>2. UNCHANGED priority_qs \/ \E S : priority_qs' = Unlink(priority_qs, S)
    BY Zenon, <1>0 DEF DequeueInside, DequeueLock, DequeueTest, DequeueClear, DequeueGuard,
      DequeueRecheck, DequeuePop, DequeuePopEmpty, DequeueLockMap, DequeueFind, lists
  <2>3. UNCHANGED result \/ \E z : Return(t, z)
    BY Zenon, <1>0 DEF DequeueInside, DequeueLock, DequeueTest, DequeueClear, DequeueGuard,
      DequeueRecheck, DequeuePop, DequeuePopEmpty, DequeueLockMap, DequeueFind
  <2>. QED
    BY Zenon, <2>1, <2>2, <2>3 DEF WithheldInv, QueueSide, Unlink, Return
<1>3. deq'[t] = x /\ \A u \in Threads : u # t => deq'[u] = deq[u]
  BY Zenon, <1>1 DEF WithheldInv, QueueSide
<1>4. sched'[t] = to /\ \A u \in Threads : u # t => sched'[u] = sched[u]
  BY Zenon, <1>0 DEF AdmissionInv, ThrottleTypes
<1>5. CASE DequeueTest(t)
  <2>1. /\ UNCHANGED release_one
        /\ x = "clear" => release_one[ThreadPrio[t]]
        /\ word' \in [Threads -> Word] /\ \A u \in Threads : word'[u] \in {word[u], release_one}
    <3>1. \/ /\ release_one[ThreadPrio[t]] /\ word' = [word EXCEPT ![t] = release_one]
          \/ deq' = [deq EXCEPT ![t] = "guard"] /\ word' = word
      BY Zenon, <1>5 DEF DequeueTest, At
    <3>2. release_one \in Word /\ word \in [Threads -> Word] /\ deq \in [Threads -> DequeueAt]
      BY Zenon DEF WithheldInv, QueueSide
    <3>3. UNCHANGED release_one
      BY Zenon, <1>5 DEF DequeueTest, flags
    <3>. QED
      BY Zenon, <1>3, <3>1, <3>2, <3>3
  <2>2. x = "clear" => ThreadPrio[t] = Secondary
    BY <2>1, MultiQueueConstants, ThrottlerConstants
    DEF WithheldInv, QueueSide, Primary, Secondary, Prios
  <2>3. QueueSide'
    BY Zenon, <1>1, <1>2, <1>3, <1>4, <2>1, <2>2 DEF WithheldInv, QueueSide
  <2>. QED
    BY Zenon, <1>0, <1>2, <2>1, <2>3, SchedulingWithheld
<1>6. CASE DequeueClear(t)
  <2>0. /\ deq[t] = "clear" /\ deq'[t] = "idle"
        /\ release_one' = [word[t] EXCEPT ![ThreadPrio[t]] = FALSE]
        /\ word' = [word EXCEPT ![t] = NoBits] /\ result' = [result EXCEPT ![t] = Nobody]
    BY Zenon, <1>6 DEF DequeueClear, At, Return, WithheldInv, QueueSide
  <2>1. ThreadPrio[t] = Secondary /\ x = "idle" /\ to = "decide"
    BY Zenon, <1>3, <2>0 DEF WithheldInv, QueueSide
  <2>2. word[t] \in Word /\ ~word[t][Primary] /\ \A u \in Threads : word'[u] \in {word[u], NoBits}
    BY Zenon, <2>0 DEF WithheldInv, QueueSide
  <2>3. release_one' \in Word /\ ~release_one'[Primary]
    BY Zenon, <2>0, <2>1, <2>2, Priorities DEF Word
  <2>4. word' \in [Threads -> Word]
    BY Zenon, <2>0, Bits DEF WithheldInv, QueueSide
  <2>5. QueueSide'
    BY Zenon, <1>1, <1>2, <1>3, <1>4, <2>1, <2>2, <2>3, <2>4, Bits DEF WithheldInv, QueueSide
  <2>. QED
    BY Zenon, <1>0, <1>2, <2>1, <2>5, SchedulingWithheld
<1>7. CASE UNCHANGED <<release_one, word>> /\ x # "clear"
  <2>1. QueueSide'
    BY Zenon, <1>1, <1>2, <1>3, <1>4, <1>7 DEF WithheldInv, QueueSide
  <2>. QED
    BY Zenon, <1>0, <1>2, <1>7, <2>1, SchedulingWithheld
<1>8. CASE \/ DequeueLock(t) \/ DequeueGuard(t) \/ DequeueRecheck(t) \/ DequeuePop(t)
           \/ DequeuePopEmpty(t) \/ DequeueLockMap(t) \/ DequeueFind(t)
  <2>1. UNCHANGED <<release_one, word>>
    BY Zenon, <1>8 DEF DequeueLock, DequeueGuard, DequeueRecheck, DequeuePop, DequeuePopEmpty,
      DequeueLockMap, DequeueFind, flags
  <2>2. \E z \in DequeueAt \ {"clear"} : deq' = [deq EXCEPT ![t] = z]
    BY Zenon, <1>8 DEF DequeueLock, DequeueGuard, DequeueRecheck, DequeuePop, DequeuePopEmpty,
      DequeueLockMap, DequeueFind, At, DequeueAt
  <2>3. x # "clear"
    BY Zenon, <1>3, <2>2 DEF WithheldInv, QueueSide
  <2>. QED
    BY Zenon, <1>7, <2>1, <2>3
<1>. QED
  BY Zenon, <1>0, <1>5, <1>6, <1>8 DEF DequeueInside


\* A decision that goes on, with what it has read so far.
LEMMA DecisionGoesOn ==
  ASSUME WithheldInv, decision.at \notin {"none", "releasing"}, (decision').by = decision.by,
         (decision').high \in Int,
         \/ (decision').at = "release"
         \/ (decision').at = "count" /\ (decision').high \in Nat
         \/ /\ (decision').at \in {"size", "primary", "secondary"}
            /\ PrimaryAtRest => scheduled_counts[Primary] <= (decision').high,
         UNCHANGED <<vars, sched, scheduled_counts>>
  PROVE  WithheldInv'
<1>1. UNCHANGED <<priority_qs, deq, release_one, exclusive, word, result>>
  BY Zenon DEF vars, lists, threads, flags, locks
<1>2. QueueSide'
  BY Zenon, <1>1 DEF WithheldInv, QueueSide
<1>3. exclusive.op = "none" /\ decision.by # Nobody
  BY Zenon DEF WithheldInv, DecisionSide
<1>4. PrimaryAtRest' <=> PrimaryAtRest
  BY Zenon DEF PrimaryAtRest
<1>5. /\ (decision').at \in {"sum", "count"} => (decision').high \in Nat
      /\ (decision').at \in {"size", "primary", "secondary"} /\ PrimaryAtRest =>
           scheduled_counts[Primary] <= (decision').high
  OBVIOUS
<1>6. "none" # "ReleaseOneUnlock"
  OBVIOUS
<1>7. DecisionSide'
  BY Zenon, <1>1, <1>3, <1>4, <1>5, <1>6 DEF DecisionSide
<1>. QED
  BY Zenon, <1>2, <1>7 DEF WithheldInv

\* The steps of a decision before its end.
LEMMA DecidingWithheld ==
  ASSUME AdmissionInv, WithheldInv,
         \/ DecideCount \/ DecideSize \/ DecidePrimary \/ DecideSecondaryRelease
  PROVE  WithheldInv'
<1>1. /\ scheduled_counts[Primary] \in Int /\ decision.high \in Int
      /\ decision.at \in {"sum", "count"} => decision.high \in Nat
      /\ decision.at \in {"size", "primary", "secondary"} /\ PrimaryAtRest =>
           scheduled_counts[Primary] <= decision.high
  BY Zenon, Priorities DEF AdmissionInv, ThrottleTypes, WithheldInv, DecisionSide
<1>2. Cardinality(Queue(Primary)) \in Nat
  <2>1. Queue(Primary) \subseteq Jobs
    BY Zenon DEF WithheldInv, QueueSide, Queue
  <2>. QED
    BY Zenon, <2>1, ThrottlerConstants, FS_Subset, FS_CardinalityType
<1>3. CASE DecideCount
  <2>1. /\ (decision').by = decision.by /\ decision.at \in {"sum", "count"}
        /\ (decision').high = decision.high + scheduled_counts[Primary]
        /\ (decision').at \in {"size", "primary"}
    BY <1>3 DEF DecideCount, ReadNext, AfterReading
  <2>2. (decision').high \in Int /\ scheduled_counts[Primary] <= (decision').high
    BY <1>1, <2>1
  <2>. QED
    BY <1>3, <2>1, <2>2, DecisionGoesOn DEF DecideCount
<1>4. CASE DecideSize
  <2>1. /\ decision.at \in {"sum", "size"} /\ (decision').by = decision.by
        /\ (decision').high = decision.high + Cardinality(Queue(Primary))
        /\ (decision').at = IF decision.at = "sum" THEN "count" ELSE "primary"
    BY Zenon, <1>4 DEF DecideSize, ReadNext, AfterReading
  <2>2. /\ (decision').high \in Int
        /\ decision.at = "sum" => (decision').high \in Nat
        /\ decision.at = "size" /\ PrimaryAtRest => scheduled_counts[Primary] <= (decision').high
    BY <1>1, <1>2, <2>1
  <2>. QED
    BY <1>4, <2>1, <2>2, DecisionGoesOn DEF DecideSize
<1>5. CASE DecidePrimary
  <2>1. /\ decision.at = "primary" /\ (decision').by = decision.by
        /\ (decision').high = decision.high /\ (decision').at = "secondary"
    BY Zenon, <1>5 DEF DecidePrimary
  <2>. QED
    BY Zenon, <1>1, <1>5, <2>1, DecisionGoesOn DEF DecidePrimary
<1>6. CASE DecideSecondaryRelease
  <2>1. /\ (decision').by = decision.by /\ (decision').high = 0 /\ (decision').at = "release"
        /\ decision.at = "secondary"
    BY Zenon, <1>6 DEF DecideSecondaryRelease
  <2>2. (decision').high \in Int
    BY <2>1, 0 \in Int
  <2>. QED
    BY Zenon, <1>6, <2>1, <2>2, DecisionGoesOn DEF DecideSecondaryRelease
<1>. QED
  BY Zenon, <1>3, <1>4, <1>5, <1>6

\* The end of a decision, and its beginning.
LEMMA EndsWithheld ==
  ASSUME AdmissionInv, WithheldInv, EndDecision, (exclusive').op = "none",
         (exclusive').word \in {NoBits, exclusive.word},
         UNCHANGED <<priority_qs, deq, release_one, word, result>>
  PROVE  WithheldInv'
<1>1. decision' = NoDecision /\ \A t \in Threads : sched[t] = "dequeue" => sched'[t] = "dequeue"
  <2>1. \A t \in Threads : decision.by = t => sched[t] = "deciding"
    BY Zenon DEF AdmissionInv, DecidingThread
  <2>. QED
    BY <2>1 DEF EndDecision
<1>2. QueueSide'
  BY Zenon, <1>1, Bits DEF WithheldInv, QueueSide
<1>3. DecisionSide'
  BY <1>1 DEF DecisionSide, NoDecision
<1>. QED
  BY Zenon, <1>2, <1>3 DEF WithheldInv

LEMMA BeginsWithheld ==
  ASSUME AdmissionInv, WithheldInv, decision.by = Nobody,
         NEW b \in Threads \cup Jobs,
         decision' = [by |-> b, at |-> "sum", high |-> 0, tried |-> FALSE],
         \A t \in Threads : sched[t] = "dequeue" => sched'[t] = "dequeue", UNCHANGED vars
  PROVE  WithheldInv'
<1>1. UNCHANGED <<priority_qs, deq, release_one, word, result, exclusive>>
  BY DEF vars, lists, threads, flags, locks
<1>2. QueueSide'
  BY Zenon, <1>1 DEF WithheldInv, QueueSide
<1>3. exclusive.op = "none"
  BY Zenon DEF WithheldInv, DecisionSide
<1>4. DecisionSide'
  BY <1>1, <1>3, MultiQueueConstants DEF DecisionSide
<1>. QED
  BY Zenon, <1>2, <1>4 DEF WithheldInv

\* Every step keeps the invariant.
LEMMA WithheldStep ==
  ASSUME AdmissionInv, WithheldInv, [ThrottlerNext]_allvars
  PROVE  WithheldInv'
<1>0. scheduled_counts \in [Prios -> Int] /\ sched \in [Threads -> {"block", "dequeue", "count", "decide", "deciding"}]
      /\ deq \in [Threads -> DequeueAt] /\ DOMAIN result = Threads
      /\ DOMAIN priority_qs \subseteq Jobs
  BY Zenon DEF AdmissionInv, ThrottleTypes, WithheldInv, QueueSide
<1>1. ASSUME NEW t \in Threads, ThrottleLock(t) PROVE WithheldInv'
  <2>1. /\ sched[t] = "block" /\ sched' = [sched EXCEPT ![t] = "dequeue"]
        /\ deq' = [deq EXCEPT ![t] = "lock"] /\ result' = [result EXCEPT ![t] = Nobody]
        /\ UNCHANGED <<priority_qs, release_one, exclusive, word, scheduled_counts, decision>>
    BY Zenon, <1>1 DEF ThrottleLock, Step, DequeueCall, At, Return, lists, flags, locks
  <2>2. /\ sched'[t] = "dequeue" /\ deq'[t] = "lock"
        /\ \A u \in Threads : u # t => sched'[u] = sched[u] /\ deq'[u] = deq[u]
        /\ deq' \in [Threads -> DequeueAt] /\ DOMAIN result' = Threads
    BY <1>0, <2>1 DEF DequeueAt
  <2>3. QueueSide'
    BY Zenon, <2>1, <2>2 DEF WithheldInv, QueueSide
  <2>. QED
    BY Zenon, <2>1, <2>3, SchedulingWithheld
<1>2. ASSUME NEW t \in Threads, IncrementJobCount(t) PROVE WithheldInv'
  <2>1. /\ sched[t] = "count" /\ sched' = [sched EXCEPT ![t] = "decide"]
        /\ scheduled_counts' = [scheduled_counts EXCEPT ![ThreadPrio[t]] = @ + 1]
        /\ UNCHANGED <<priority_qs, deq, result, release_one, exclusive, word, decision>>
    BY Zenon, <1>2 DEF IncrementJobCount, Step, vars, threads, lists, flags, locks
  <2>2. /\ sched'[t] = "decide" /\ \A u \in Threads : u # t => sched'[u] = sched[u]
        /\ ThreadPrio[t] # Primary => scheduled_counts'[Primary] = scheduled_counts[Primary]
    BY Zenon, <1>0, <2>1, Priorities
  <2>3. QueueSide'
    BY Zenon, <2>1, <2>2 DEF WithheldInv, QueueSide
  <2>. QED
    BY Zenon, <2>1, <2>2, <2>3, SchedulingWithheld
<1>3. ASSUME NEW t \in Threads, DecideAfterScheduling(t) PROVE WithheldInv'
  <2>1. /\ decision.by = Nobody /\ UNCHANGED vars
        /\ decision' = [by |-> t, at |-> "sum", high |-> 0, tried |-> FALSE]
        /\ sched[t] = "decide" /\ sched' = [sched EXCEPT ![t] = "deciding"]
    BY Zenon, <1>3 DEF DecideAfterScheduling, Step
  <2>2. \A u \in Threads : sched[u] = "dequeue" => sched'[u] = "dequeue"
    BY <1>0, <2>1
  <2>. QED
    BY Zenon, <2>1, <2>2, BeginsWithheld
<1>4. ASSUME NEW j \in Jobs, DecideCompleting(j) PROVE WithheldInv'
  BY Zenon, <1>4, BeginsWithheld DEF DecideCompleting
<1>5. ASSUME DOMAIN priority_qs' \subseteq Jobs,
             UNCHANGED <<deq, result, release_one, exclusive, word, sched, decision>>,
             scheduled_counts'[Primary] \in Int,
             scheduled_counts'[Primary] <= scheduled_counts[Primary]
      PROVE  WithheldInv'
  BY Zenon, <1>5, WithheldFrame
<1>6. ASSUME NEW j \in Jobs, DecrementJobCount(j) PROVE WithheldInv'
  <2>1. /\ UNCHANGED <<priority_qs, deq, result, release_one, exclusive, word, sched, decision>>
        /\ scheduled_counts' = [scheduled_counts EXCEPT ![PrioOf[j]] = @ - 1]
    BY Zenon, <1>6 DEF DecrementJobCount, vars, threads, lists, flags, locks
  <2>2. /\ scheduled_counts'[Primary] \in Int
        /\ scheduled_counts'[Primary] <= scheduled_counts[Primary]
    BY <1>0, <2>1, Priorities
  <2>. QED
    BY Zenon, <1>0, <1>5, <2>1, <2>2
<1>7. CASE \/ \E j \in Jobs : Arrive(j)
           \/ \E id_ \in PurgeIds : GoAway(id_)
           \/ \E p \in Prios, threshold \in Thresholds : SetThrottle(p, threshold)
           \/ UNCHANGED allvars
  <2>1. UNCHANGED <<deq, result, release_one, exclusive, word, sched, decision, scheduled_counts>>
    BY Zenon, <1>7 DEF Arrive, Enqueue, EnqueueInsert, EnqueueLockMap, EnqueueMap, GoAway, Purge,
      SetThrottle, allvars, vars, tvars, threads, flags, locks
  <2>2. \/ UNCHANGED priority_qs
        \/ \E S : priority_qs' = Unlink(priority_qs, S)
        \/ \E j \in Jobs : \E S : priority_qs' = PushBack(priority_qs, j, S)
    BY Zenon, <1>7 DEF Arrive, Enqueue, EnqueueInsert, EnqueueLockMap, EnqueueMap, GoAway, Purge,
      SetThrottle, allvars, vars, lists
  <2>3. DOMAIN priority_qs' \subseteq Jobs
    BY Zenon, <1>0, <2>2 DEF Unlink, PushBack
  <2>4. /\ scheduled_counts'[Primary] \in Int
        /\ scheduled_counts'[Primary] <= scheduled_counts[Primary]
    BY <1>0, <2>1, Priorities
  <2>. QED
    BY Zenon, <1>5, <2>1, <2>3, <2>4
<1>8. CASE DecideSecondaryAdmit \/ DecideSecondaryNot
  <2>1. /\ EndDecision /\ decision.at = "secondary"
        /\ UNCHANGED <<priority_qs, deq, result, release_one, exclusive, word>>
    BY Zenon, <1>8 DEF DecideSecondaryAdmit, DecideSecondaryNot, vars, threads, lists, flags, locks
  <2>2. exclusive.op = "none"
    BY Zenon, <2>1 DEF WithheldInv, DecisionSide
  <2>. QED
    BY Zenon, <2>1, <2>2, EndsWithheld
<1>9. CASE DecideReleaseCall
  <2>1. /\ decision.at = "release" /\ ReleaseOne(Secondary)
        /\ UNCHANGED <<priority_qs, deq, result, release_one, word, scheduled_counts>>
    BY Zenon, <1>9 DEF DecideReleaseCall, ReleaseOne, threads, lists, flags
  <2>2. CASE EndDecision /\ (exclusive').op = "none"
    <3>1. exclusive' = exclusive
      BY <2>1, <2>2 DEF ReleaseOne, Call
    <3>. QED
      BY Zenon, <2>1, <2>2, <3>1, EndsWithheld
  <2>3. CASE (exclusive').op # "none" /\ UNCHANGED sched
             /\ decision' = [by |-> decision.by, at |-> "releasing", high |-> 0, tried |-> FALSE]
    <3>1. /\ (exclusive').op = "ReleaseOneSet" /\ (exclusive').prio = Secondary
          /\ (exclusive').word = release_one
      BY <2>1, <2>3 DEF ReleaseOne, Call, ExclusiveFree
    <3>2. QueueSide'
      BY Zenon, <2>1, <2>3, <3>1 DEF WithheldInv, QueueSide
    <3>3. decision.by # Nobody
      BY Zenon, <2>1 DEF WithheldInv, DecisionSide
    <3>4. DecisionSide'
      BY <2>3, <3>1, <3>3 DEF DecisionSide
    <3>. QED
      BY Zenon, <3>2, <3>4 DEF WithheldInv
  <2>. QED
    BY Zenon, <1>9, <2>2, <2>3 DEF DecideReleaseCall
<1>10. CASE DecideReleaseSet
  <2>1. /\ exclusive.op = "ReleaseOneSet" /\ decision.at = "releasing"
        /\ release_one' = [exclusive.word EXCEPT ![exclusive.prio] = TRUE]
        /\ exclusive' = Call("ReleaseOneUnlock", exclusive.prio, NoBits)
        /\ UNCHANGED <<priority_qs, deq, result, word, scheduled_counts, sched, decision>>
    BY Zenon, <1>10 DEF DecideReleaseSet, ReleaseOneSet, threads, lists, tvars
  <2>2. exclusive.prio = Secondary /\ exclusive.word \in Word /\ ~exclusive.word[Primary]
        /\ decision.by # Nobody /\ decision.high \in Int
    BY <2>1 DEF WithheldInv, QueueSide, DecisionSide
  <2>3. release_one' \in Word /\ ~release_one'[Primary] /\ release_one'[Secondary]
    BY Zenon, <2>1, <2>2, Priorities DEF Word
  <2>4. /\ (exclusive').op = "ReleaseOneUnlock" /\ (exclusive').prio = Secondary
        /\ (exclusive').word = NoBits
    BY Zenon, <2>1, <2>2 DEF Call
  <2>5. QueueSide'
    BY Zenon, <2>1, <2>3, <2>4, Bits DEF WithheldInv, QueueSide
  <2>6. DecisionSide'
    BY <2>1, <2>2, <2>3, <2>4 DEF DecisionSide, Told
  <2>. QED
    BY Zenon, <2>5, <2>6 DEF WithheldInv
<1>11. CASE DecideReleaseUnlock
  <2>1. /\ EndDecision /\ exclusive' = NoExclusive
        /\ UNCHANGED <<priority_qs, deq, result, release_one, word>>
    BY Zenon, <1>11 DEF DecideReleaseUnlock, ReleaseOneUnlock, threads, lists
  <2>. QED
    BY Zenon, <2>1, Bits, EndsWithheld
<1>. QED
  BY Zenon, <1>1, <1>2, <1>3, <1>4, <1>6, <1>7, <1>8, <1>9, <1>10, <1>11,
    DequeueWithheld, DecidingWithheld
  DEF ThrottlerNext, Schedule, Finish, Decide

\* Whenever a thread's decision is over and the primary jobs fill their target, the
\* secondary thread is called back from its queue, unless a job is there for it: for
\* any targets and changes of them, and although the decision reads counters and sizes
\* that change under it.
THEOREM SecondaryIsWithheld == ThrottlerSpec => SecondaryWithheld
<1>1. ASSUME AdmissionInv, WithheldInv, [ThrottlerNext]_allvars,
             decision.by \in Threads, (decision').by = Nobody
      PROVE  Withheld'
  <2>. SUFFICES ASSUME scheduled_counts'[Primary] >= throttle_targets'[Primary],
                       \A v \in Threads : ThreadPrio[v] = Primary => sched'[v] = "block",
                       NEW t \in Threads, ThreadPrio[t] = Secondary, deq'[t] = "lock"
                PROVE  release_one'[Secondary] \/ Queue(Secondary)' # {}
    BY DEF Withheld
  <2>0. decision.by # Nobody
    BY <1>1, Priorities
  <2>1. \/ DecideSecondaryAdmit \/ DecideSecondaryNot \/ DecideReleaseUnlock
        \/ DecideReleaseCall /\ EndDecision /\ (exclusive').op = "none"
    <3>1. (decision').by # decision.by
      BY Zenon, <1>1, <2>0
    <3>2. /\ ~UNCHANGED decision
          /\ ~DecideCount /\ ~DecideSize /\ ~DecidePrimary /\ ~DecideSecondaryRelease
      BY <3>1 DEF DecideCount, DecideSize, DecidePrimary, DecideSecondaryRelease
    <3>3. \A v \in Threads : ~Schedule(v)
      BY Zenon, <2>0, <3>2 DEF Schedule, ThrottleLock, ThrottleDequeue, IncrementJobCount,
        DecideAfterScheduling
    <3>4. /\ \A j \in Jobs : ~Arrive(j) /\ ~Finish(j)
          /\ \A id_ \in PurgeIds : ~GoAway(id_)
          /\ \A p \in Prios, threshold \in Thresholds : ~SetThrottle(p, threshold)
          /\ ~UNCHANGED allvars /\ ~DecideReleaseSet
      BY Zenon, <2>0, <3>2 DEF Arrive, Finish, DecrementJobCount, DecideCompleting, GoAway,
        SetThrottle, DecideReleaseSet, allvars, tvars
    <3>5. DecideReleaseCall => EndDecision /\ (exclusive').op = "none"
      BY <3>1 DEF DecideReleaseCall
    <3>. QED
      BY Zenon, <1>1, <3>2, <3>3, <3>4, <3>5 DEF ThrottlerNext, Decide
  <2>2. /\ EndDecision
        /\ UNCHANGED <<deq, priority_qs, release_one, scheduled_counts, throttle_targets>>
    BY Zenon, <2>1 DEF DecideSecondaryAdmit, DecideSecondaryNot, DecideReleaseUnlock,
      DecideReleaseCall, ReleaseOne, ReleaseOneUnlock, vars, threads, lists, flags
  <2>3. PrimaryAtRest
    <3>. SUFFICES ASSUME NEW v \in Threads, ThreadPrio[v] = Primary
                  PROVE  sched[v] \in {"block", "deciding"}
      BY DEF PrimaryAtRest
    <3>1. CASE decision.by = v
      BY Zenon, <1>1, <3>1 DEF AdmissionInv, DecidingThread
    <3>2. CASE decision.by # v
      BY Zenon, <2>2, <3>2 DEF EndDecision
    <3>. QED
      BY Zenon, <3>1, <3>2
  <2>4. decision.at = "secondary" => ~Spare
    <3>1. scheduled_counts[Primary] \in Int /\ throttle_targets[Primary] \in Int
      <4>1. scheduled_counts[Primary] \in Int /\ throttle_targets[Primary] \in Nat
        BY Zenon, <1>1, Priorities DEF AdmissionInv, ThrottleTypes
      <4>. QED
        BY <4>1
    <3>2. decision.at = "secondary" =>
            scheduled_counts[Primary] <= decision.high /\ decision.high \in Int
      BY Zenon, <1>1, <2>3 DEF WithheldInv, DecisionSide
    <3>. QED
      BY <2>2, <3>1, <3>2 DEF Spare
  <2>5. sched[t] = "dequeue" /\ waiting[Secondary]
        /\ \A u \in Threads : ThreadPrio[u] = Secondary /\ sched[u] = "decide" => u = t
    <3>1. sched[t] = "dequeue"
      <4>1. deq[t] = "lock" /\ "lock" # "idle"
        BY <2>2
      <4>. QED
        BY Zenon, <1>1, <4>1 DEF WithheldInv, QueueSide
    <3>. QED
      BY <1>1, <3>1, Priorities DEF AdmissionInv, AdmissionMatchesBlock, Admitted
  <2>6. CASE DecideSecondaryAdmit \/ DecideSecondaryNot
    BY <1>1, <2>4, <2>5, <2>6 DEF DecideSecondaryAdmit, DecideSecondaryNot, CallsBack
  <2>7. CASE DecideReleaseCall /\ (exclusive').op = "none"
    <3>1. Queue(Secondary) # {}
      BY <2>7 DEF DecideReleaseCall, ReleaseOne, Call
    <3>. QED
      BY Zenon, <2>2, <3>1 DEF Queue
  <2>8. CASE DecideReleaseUnlock
    <3>1. Told
      BY Zenon, <1>1, <2>8 DEF DecideReleaseUnlock, ReleaseOneUnlock, WithheldInv, DecisionSide
    <3>. QED
      BY <2>2, <2>5, <3>1 DEF Told
  <2>. QED
    BY Zenon, <2>1, <2>6, <2>7, <2>8
<1>2. AdmissionInv /\ WithheldInv /\ [ThrottlerNext]_allvars
        => [decision.by \in Threads /\ (decision').by = Nobody => Withheld']_allvars
  BY <1>1
<1>. QED
  BY <1>2, AdmissionInit, AdmissionStep, WithheldInit, WithheldStep, PTL
  DEF ThrottlerSpec, SecondaryWithheld

-------------------------------------------------------------------------------
\* An id handed out is at most the counter, and smaller than the counter once a
\* call that began later has incremented it.
IdsInv ==
  /\ IdsTypeOK
  /\ \A c \in Returned : id[c] <= last_id
  /\ \A c, d \in Calls : c \in earlier[d] =>
       /\ c \in Returned
       /\ call[d] = "incremented" => id[c] < last_id
       /\ call[d] = "returned" => id[c] < id[d]

\* Calls that do not overlap get increasing ids, for any number of callers.
THEOREM IdsIncrease == IdsSpec => []LaterIsLarger
<1>1. IdsInit => IdsInv
  BY SeedAssumption DEF IdsInit, IdsInv, IdsTypeOK, Returned
<1>2. ASSUME IdsInv, [IdsNext]_idvars PROVE IdsInv'
  <2>1. ASSUME NEW c \in Calls, Increment(c) PROVE IdsInv'
    BY <1>2, <2>1 DEF IdsInv, IdsTypeOK, Increment, Returned
  <2>2. ASSUME NEW c \in Calls, Count(c) PROVE IdsInv'
    BY <1>2, <2>2 DEF IdsInv, IdsTypeOK, Count, Returned
  <2>3. CASE UNCHANGED idvars
    BY <1>2, <2>3 DEF IdsInv, IdsTypeOK, Returned, idvars
  <2>. QED
    BY <1>2, <2>1, <2>2, <2>3 DEF IdsNext, CreateJobId
<1>3. IdsInv => LaterIsLarger
  BY Zenon DEF IdsInv, LaterIsLarger
<1>. QED
  BY <1>1, <1>2, <1>3, PTL DEF IdsSpec

-------------------------------------------------------------------------------
\* A call between its two locks is the one the reactor is in, and has made the counter
\* larger than every id handed out.
ProgramIds ==
  /\ last_id \in Nat
  /\ call \in [Calls -> {"new", "incremented", "returned"}]
  /\ id \in [Calls -> Nat]
  /\ \A c \in Calls : call[c] = "incremented" => reactor = c
  /\ \A c \in Returned : id[c] <= last_id
  /\ \A c, d \in Calls : c \in Returned /\ call[d] = "incremented" => id[c] < last_id
  /\ UniqueIds

\* The ids that CreateJobId returns to the reactor.
LEMMA CreateIdKeeps ==
  ASSUME ProgramIds, NEW c \in Calls, CreateId(c)
  PROVE  ProgramIds'
<1>1. CASE Increment(c)
  <2>1. call[c] = "new" /\ reactor = Nobody
    BY <1>1 DEF CreateId, ReactorIs, Increment
  <2>2. \A d \in Calls : call[d] # "incremented"
    BY <2>1, ProgramConstants DEF ProgramIds
  <2>3. call' = [call EXCEPT ![c] = "incremented"] /\ last_id' = last_id + 1 /\ id' = id
    BY Zenon, <1>1 DEF Increment
  <2>4. reactor' = c
    BY <2>3 DEF CreateId, ProgramIds
  <2>5. Returned' = Returned
    BY <2>1, <2>3 DEF ProgramIds, Returned
  <2>6. UniqueIds'
    BY <2>3, <2>5 DEF ProgramIds, UniqueIds
  <2>. QED
    BY <2>1, <2>2, <2>3, <2>4, <2>5, <2>6 DEF ProgramIds, Returned
<1>2. CASE Count(c)
  <2>1. call[c] = "incremented" /\ reactor = c
    BY <1>2 DEF Count, ProgramIds
  <2>2. \A d \in Calls : call[d] = "incremented" => d = c
    BY <2>1 DEF ProgramIds
  <2>3. call' = [call EXCEPT ![c] = "returned"] /\ last_id' = last_id /\ id' = [id EXCEPT ![c] = last_id]
    BY <1>2 DEF Count
  <2>4. \A d \in Calls : call'[d] # "incremented"
    BY <2>2, <2>3 DEF ProgramIds
  <2>5. Returned' = Returned \cup {c} /\ c \notin Returned
    BY <2>1, <2>3 DEF ProgramIds, Returned
  <2>6. \A d \in Returned : id'[d] = id[d] /\ id[d] < last_id
    BY <2>1, <2>3, <2>5 DEF ProgramIds, Returned
  <2>7. id'[c] = last_id
    BY <2>3 DEF ProgramIds
  <2>8. UniqueIds'
    BY <2>5, <2>6, <2>7 DEF ProgramIds, UniqueIds, Returned
  <2>. QED
    BY <2>3, <2>4, <2>5, <2>6, <2>7, <2>8 DEF ProgramIds
<1>. QED
  BY Zenon, <1>1, <1>2 DEF CreateId, CreateJobId

\* All the other steps leave the ids alone.
LEMMA IdsFrame ==
  ASSUME ProgramIds, UNCHANGED <<idvars, reactor>>
  PROVE  ProgramIds'
BY DEF ProgramIds, UniqueIds, Returned, idvars

\* No two connections are given the same id, for any number of them: CreateJobId
\* reads the counter after it has let go of it, but ReceivedConnection is only ever
\* called by the one thread of the communication handler.
THEOREM IdsAreUnique == ProgramSpec => []UniqueIds
<1>1. ASSUME ProgramInit PROVE ProgramIds
  <2>1. IdsInit
    BY Zenon, <1>1 DEF ProgramInit
  <2>2. Returned = {}
    BY <2>1 DEF IdsInit, Returned
  <2>. QED
    BY <2>1, <2>2, SeedAssumption DEF IdsInit, ProgramIds, UniqueIds
<1>2. ASSUME ProgramIds, [ProgramNext]_everything PROVE ProgramIds'
  <2>1. ASSUME NEW c \in Calls, CreateId(c) PROVE ProgramIds'
    BY Zenon, <1>2, <2>1, CreateIdKeeps
  <2>2. ASSUME NEW j \in Jobs, Dispatch(j) PROVE ProgramIds'
    <3>1. j \in Calls /\ reactor = j /\ call[j] = "returned"
      BY <2>2, ProgramConstants DEF Dispatch, ReactorIs
    <3>2. \A d \in Calls : call[d] # "incremented"
      BY <1>2, <3>1 DEF ProgramIds
    <3>3. UNCHANGED idvars
      BY <2>2 DEF Dispatch
    <3>. QED
      BY <1>2, <3>2, <3>3 DEF ProgramIds, UniqueIds, Returned, idvars
  <2>3. CASE Main
    BY <1>2, <2>3, IdsFrame DEF Main, Destroy
  <2>4. CASE Updater
    BY <1>2, <2>4, IdsFrame DEF Updater
  <2>5. CASE Decides
    BY <1>2, <2>5, IdsFrame DEF Decides
  <2>6. CASE UseDestroyed
    BY <1>2, <2>6, IdsFrame DEF UseDestroyed
  <2>7. ASSUME NEW t \in Threads, WorkerCheck(t) PROVE ProgramIds'
    BY <1>2, <2>7, IdsFrame DEF WorkerCheck
  <2>8. ASSUME NEW t \in Threads, WorkerSchedule(t) PROVE ProgramIds'
    BY <1>2, <2>8, IdsFrame DEF WorkerSchedule, pvars
  <2>9. ASSUME NEW j \in Jobs, JobEnds(j) PROVE ProgramIds'
    BY <1>2, <2>9, IdsFrame DEF JobEnds, pvars
  <2>10. ASSUME NEW jid \in PurgeIds, PurgeJob(jid) PROVE ProgramIds'
    BY <1>2, <2>10, IdsFrame DEF PurgeJob, pvars
  <2>11. CASE UNCHANGED everything
    BY <1>2, <2>11, IdsFrame DEF everything, pvars
  <2>. QED
    BY <1>2, <2>1, <2>2, <2>3, <2>4, <2>5, <2>6, <2>7, <2>8, <2>9, <2>10, <2>11
    DEF ProgramNext
<1>3. ProgramIds => UniqueIds
  BY DEF ProgramIds
<1>. QED
  BY <1>1, <1>2, <1>3, PTL DEF ProgramSpec

-------------------------------------------------------------------------------
\* The updater thread is not there before both targets are set, and between the two
\* calls of its callback one target is new.
CallbackSets == IF state THEN Low ELSE High

ProgramTargets ==
  /\ throttle_targets \in [Prios -> Nat]
  /\ state \in BOOLEAN
  /\ Starting \/ main = "run" => updater = "none" /\ ~state
  /\ main = "throttle secondary" => throttle_targets[Primary] = Asked[Primary]
  /\ main = "run" => throttle_targets = Asked
  /\ updater = "secondary" => throttle_targets[Primary] = CallbackSets
  /\ TargetsPaired

LEMMA TwoPrios == Prios = {Primary, Secondary} /\ Primary # Secondary
BY ThrottlerConstants, SMT DEF Prios, Primary, Secondary

\* The targets after SetThrottle.
LEMMA SetThrottleSets ==
  ASSUME throttle_targets \in [Prios -> Nat], NEW p \in Prios, NEW target \in Nat,
         SetThrottle(p, target)
  PROVE  /\ throttle_targets' \in [Prios -> Nat]
         /\ throttle_targets'[p] = target
         /\ \A q \in Prios : q # p => throttle_targets'[q] = throttle_targets[q]
BY DEF SetThrottle

\* The Throttler's own steps change no target.
LEMMA TargetsStay ==
  /\ \A t \in Threads : Schedule(t) => UNCHANGED throttle_targets
  /\ \A j \in Jobs : Finish(j) => UNCHANGED throttle_targets
  /\ Decide => UNCHANGED throttle_targets
<1>1. ASSUME NEW t \in Threads, Schedule(t) PROVE UNCHANGED throttle_targets
  BY Zenon, <1>1 DEF Schedule, ThrottleLock, ThrottleDequeue, IncrementJobCount, DecideAfterScheduling
<1>2. ASSUME NEW j \in Jobs, Finish(j) PROVE UNCHANGED throttle_targets
  BY Zenon, <1>2 DEF Finish, DecrementJobCount, DecideCompleting
<1>3. ASSUME Decide PROVE UNCHANGED throttle_targets
  <2>1. CASE DecideReleaseSet
    BY Zenon, <2>1 DEF DecideReleaseSet, tvars
  <2>2. CASE DecideReleaseCall \/ DecideReleaseUnlock
    BY Zenon, <2>2 DEF DecideReleaseCall, DecideReleaseUnlock
  <2>3. CASE DecideCount \/ DecideSize \/ DecidePrimary
    BY Zenon, <2>3 DEF DecideCount, DecideSize, DecidePrimary
  <2>4. CASE DecideSecondaryAdmit \/ DecideSecondaryRelease \/ DecideSecondaryNot
    BY Zenon, <2>4 DEF DecideSecondaryAdmit, DecideSecondaryRelease, DecideSecondaryNot
  <2>. QED
    BY <1>3, <2>1, <2>2, <2>3, <2>4 DEF Decide
<1>. QED
  BY Zenon, <1>1, <1>2, <1>3

\* A step that neither starts the updater thread nor is one of it keeps the pairs.
LEMMA TargetsFrame ==
  ASSUME ProgramTargets, UNCHANGED <<throttle_targets, updater, state>>,
         \/ main' = main
         \/ ~Starting' /\ main' # "run" /\ ~Starting
  PROVE  ProgramTargets'
BY Zenon DEF ProgramTargets, TargetsPaired, Starting, CallbackSets

LEMMA NextConstruction ==
  /\ Constructs("serve primary") => main = "serve primary" /\ main' = "serve secondary"
  /\ Constructs("serve secondary") => main = "serve secondary" /\ main' = "throttle primary"
  /\ Constructs("throttle primary") => main = "throttle primary" /\ main' = "throttle secondary"
  /\ Constructs("throttle secondary") => main = "throttle secondary" /\ main' = "run"
  /\ Constructs("run") => main = "run" /\ main' = "wait"
<1>1. Len(Construction) = 6
  BY DEF Construction
<1>2. /\ Construction[1] = "serve primary" /\ Construction[2] = "serve secondary"
      /\ Construction[3] = "throttle primary" /\ Construction[4] = "throttle secondary"
      /\ Construction[5] = "run" /\ Construction[6] = "wait"
  BY DEF Construction
<1>3. ASSUME NEW i \in 1..(Len(Construction) - 1)
      PROVE  \/ Construction[i] = "serve primary" /\ Construction[i + 1] = "serve secondary"
             \/ Construction[i] = "serve secondary" /\ Construction[i + 1] = "throttle primary"
             \/ Construction[i] = "throttle primary" /\ Construction[i + 1] = "throttle secondary"
             \/ Construction[i] = "throttle secondary" /\ Construction[i + 1] = "run"
             \/ Construction[i] = "run" /\ Construction[i + 1] = "wait"
  <2>1. i = 1 \/ i = 2 \/ i = 3 \/ i = 4 \/ i = 5
    BY <1>1
  <2>2. 1 + 1 = 2 /\ 2 + 1 = 3 /\ 3 + 1 = 4 /\ 4 + 1 = 5 /\ 5 + 1 = 6
    OBVIOUS
  <2>. QED
    BY Zenon, <1>2, <2>1, <2>2
<1>. QED
  BY Zenon, <1>3 DEF Constructs

\* The constructor, which sets the targets before it calls RunEveryT.
LEMMA ConstructKeeps ==
  ASSUME ProgramTargets, Construct, UNCHANGED state
  PROVE  ProgramTargets'
<1>1. CASE main = "serve primary"
  <2>1. main' = "serve secondary" /\ UNCHANGED <<allvars, updater>>
    BY Zenon, <1>1, NextConstruction DEF Construct
  <2>. QED
    BY Zenon, <1>1, <2>1 DEF ProgramTargets, TargetsPaired, Starting, CallbackSets, allvars, tvars
<1>2. CASE main = "serve secondary"
  <2>1. main' = "throttle primary" /\ UNCHANGED <<allvars, updater>>
    BY Zenon, <1>2, NextConstruction DEF Construct
  <2>. QED
    BY Zenon, <1>2, <2>1 DEF ProgramTargets, TargetsPaired, Starting, CallbackSets, allvars, tvars
<1>3. CASE main = "throttle primary"
  <2>1. main' = "throttle secondary" /\ SetThrottle(Primary, Asked[Primary]) /\ UNCHANGED updater
    BY Zenon, <1>3, NextConstruction DEF Construct
  <2>2. throttle_targets' \in [Prios -> Nat] /\ throttle_targets'[Primary] = Asked[Primary]
    BY Zenon, <2>1, SetThrottleSets, TwoPrios, ProgramConstants DEF ProgramTargets
  <2>. QED
    BY Zenon, <1>3, <2>1, <2>2 DEF ProgramTargets, TargetsPaired, Starting, CallbackSets
<1>4. CASE main = "throttle secondary"
  <2>1. main' = "run" /\ SetThrottle(Secondary, Asked[Secondary]) /\ UNCHANGED updater
    BY Zenon, <1>4, NextConstruction DEF Construct
  <2>2. /\ throttle_targets' \in [Prios -> Nat]
        /\ throttle_targets'[Secondary] = Asked[Secondary]
        /\ throttle_targets'[Primary] = throttle_targets[Primary]
    BY Zenon, <2>1, SetThrottleSets, TwoPrios, ProgramConstants DEF ProgramTargets
  <2>3. throttle_targets' = Asked
    <3>1. \A p \in Prios : throttle_targets'[p] = Asked[p]
      BY Zenon, <1>4, <2>2, TwoPrios DEF ProgramTargets
    <3>2. Asked \in [Prios -> Nat]
      BY Zenon, ProgramConstants
    <3>. QED
      BY <2>2, <3>1, <3>2
  <2>. QED
    BY Zenon, <1>4, <2>1, <2>2, <2>3 DEF ProgramTargets, TargetsPaired, Starting, CallbackSets
<1>5. CASE main = "run"
  <2>1. main' = "wait" /\ updater' = "top" /\ UNCHANGED allvars
    BY Zenon, <1>5, NextConstruction DEF Construct
  <2>. QED
    BY <1>5, <2>1 DEF ProgramTargets, TargetsPaired, Starting, CallbackSets, allvars, tvars
<1>. QED
  BY Zenon, <1>1, <1>2, <1>3, <1>4, <1>5, NextConstruction DEF Construct

\* The updater thread.
LEMMA UpdaterKeeps ==
  ASSUME ProgramTargets, Updater
  PROVE  ProgramTargets'
<1>1. main' = main /\ ~Starting /\ main # "run"
  BY Zenon DEF Updater, UpdaterTop, RunThisFunctionEveryT, ProgramTargets
<1>2. CASE UpdaterTop
  BY Zenon, <1>1, <1>2
  DEF UpdaterTop, ProgramTargets, TargetsPaired, Starting, CallbackSets, allvars, tvars
<1>3. CASE updater = "primary" /\ RunThisFunctionEveryT
  <2>1. updater' = "secondary" /\ SetThrottle(Primary, CallbackSets) /\ UNCHANGED state
    BY Zenon, <1>3 DEF RunThisFunctionEveryT, CallbackSets
  <2>2. throttle_targets' \in [Prios -> Nat] /\ throttle_targets'[Primary] = CallbackSets
    BY Zenon, <2>1, SetThrottleSets, TwoPrios, ProgramConstants DEF ProgramTargets, CallbackSets
  <2>. QED
    BY Zenon, <1>1, <2>1, <2>2 DEF ProgramTargets, TargetsPaired, Starting, CallbackSets
<1>4. CASE updater = "secondary" /\ RunThisFunctionEveryT
  <2>1. updater' = "top" /\ SetThrottle(Secondary, CallbackSets) /\ state' = ~state
    BY Zenon, <1>4 DEF RunThisFunctionEveryT, CallbackSets
  <2>2. /\ throttle_targets' \in [Prios -> Nat]
        /\ throttle_targets'[Secondary] = CallbackSets
        /\ throttle_targets'[Primary] = CallbackSets
    BY Zenon, <1>4, <2>1, SetThrottleSets, TwoPrios, ProgramConstants DEF ProgramTargets, CallbackSets
  <2>3. throttle_targets' = Both(CallbackSets)
    BY Zenon, <2>2, TwoPrios DEF Both
  <2>4. TargetsPaired'
    BY Zenon, <2>1, <2>3 DEF ProgramTargets, TargetsPaired, CallbackSets, Both
  <2>. QED
    BY Zenon, <1>1, <2>1, <2>2, <2>4 DEF ProgramTargets, Starting
<1>. QED
  BY <1>2, <1>3, <1>4 DEF Updater, RunThisFunctionEveryT

\* The constructor's targets and those of the callback never mix, for any values of
\* them and with any threads and jobs.
THEOREM PairsHold == ProgramSpec => []TargetsPaired
<1>1. ASSUME ProgramInit PROVE ProgramTargets
  BY Zenon, <1>1, ThrottlerConstants
  DEF ProgramInit, ThrottlerInit, ProgramTargets, TargetsPaired, Starting
<1>2. ASSUME ProgramTargets, [ProgramNext]_everything PROVE ProgramTargets'
  <2>1. CASE Main
    <3>1. CASE Construct /\ UNCHANGED state
      BY <1>2, <3>1, ConstructKeeps
    <3>2. CASE RunTimeOver /\ UNCHANGED state
      BY <1>2, <3>2, TargetsFrame DEF RunTimeOver, Starting, allvars, tvars
    <3>3. CASE Destroy
      <4>1. UNCHANGED <<throttle_targets, updater, state>>
        BY Zenon, <3>3 DEF Destroy, DtorRelease, DtorLoop, Stop, JoinUpdater, JoinPool,
          JoinWorkers, allvars, tvars
      <4>2. ~Starting /\ ~Starting' /\ main' # "run"
        BY Zenon, <3>3 DEF Destroy, DtorRelease, DtorLoop, Stop, JoinUpdater, JoinPool,
          JoinWorkers, Starting
      <4>. QED
        BY Zenon, <1>2, <4>1, <4>2, TargetsFrame
    <3>. QED
      BY <2>1, <3>1, <3>2, <3>3 DEF Main
  <2>2. CASE Updater
    BY Zenon, <1>2, <2>2, UpdaterKeeps
  <2>3. CASE Decides
    BY Zenon, <1>2, <2>3, TargetsFrame, TargetsStay DEF Decides
  <2>4. CASE UseDestroyed
    BY <1>2, <2>4, TargetsFrame DEF UseDestroyed, allvars, tvars
  <2>5. ASSUME NEW t \in Threads, WorkerCheck(t) PROVE ProgramTargets'
    BY <1>2, <2>5, TargetsFrame DEF WorkerCheck, allvars, tvars
  <2>6. ASSUME NEW t \in Threads, WorkerSchedule(t) PROVE ProgramTargets'
    BY Zenon, <1>2, <2>6, TargetsFrame, TargetsStay DEF WorkerSchedule, pvars
  <2>7. ASSUME NEW c \in Calls, CreateId(c) PROVE ProgramTargets'
    BY Zenon, <1>2, <2>7, TargetsFrame DEF CreateId, allvars, tvars
  <2>8. ASSUME NEW j \in Jobs, Dispatch(j) PROVE ProgramTargets'
    BY <1>2, <2>8, TargetsFrame DEF Dispatch, Arrive, tvars
  <2>9. ASSUME NEW j \in Jobs, JobEnds(j) PROVE ProgramTargets'
    BY Zenon, <1>2, <2>9, TargetsFrame, TargetsStay DEF JobEnds, pvars
  <2>10. ASSUME NEW jid \in PurgeIds, PurgeJob(jid) PROVE ProgramTargets'
    BY Zenon, <1>2, <2>10, TargetsFrame DEF PurgeJob, GoAway, pvars, tvars
  <2>11. CASE UNCHANGED everything
    BY <1>2, <2>11, TargetsFrame DEF everything, pvars, allvars, tvars
  <2>. QED
    BY <1>2, <2>1, <2>2, <2>3, <2>4, <2>5, <2>6, <2>7, <2>8, <2>9, <2>10, <2>11
    DEF ProgramNext
<1>3. ProgramTargets => TargetsPaired
  BY Zenon DEF ProgramTargets
<1>. QED
  BY <1>1, <1>2, <1>3, PTL DEF ProgramSpec

===============================================================================

--------------------------- MODULE MultiQueueProofs ---------------------------
(***************************************************************************)
(* The safety properties of MultiQueue, that it implements AtomicQueues,   *)
(* and what the jobs can rely on when the Scheduler runs them on these     *)
(* queues, for any number of jobs, priorities and threads.                 *)
(***************************************************************************)
EXTENDS Scheduler, MultiQueueSteps
USE DEF LockQueue, WakeFirst, LetNextIn, LetNextOut, EraseEntry, LoopEnds

\* The variables keep their types through every operation of the class.
THEOREM TypeCorrect == Spec => []TypeOK
<1>1. Inv => TypeOK
  BY DEF Inv
<1>. QED
  BY Invariance, <1>1, PTL

\* Purge, with the exclusive lock, always sees a mapper that has exactly the
\* queued jobs: its iterators are valid and it leaves no copy behind.
THEOREM PurgeIsComplete == Spec => []PurgeSeesEveryCopy
<1>1. Inv => PurgeSeesEveryCopy
  BY NothingInFlight DEF PurgeSeesEveryCopy
<1>. QED
  BY Invariance, <1>1, PTL

\* Dequeue always returns the job whose node it popped; its CHECKs cannot fail.
THEOREM FindsWhatItPopped == Spec => []PoppedIsFirstCopy
<1>1. Inv => PoppedIsFirstCopy
  BY FoundIsPopped DEF PoppedIsFirstCopy
<1>. QED
  BY Invariance, <1>1, PTL

\* MultiQueue with its locks behaves like the atomic queues.
THEOREM Refinement == Spec => ImplementsAtomicQueues
<1> USE MultiQueueConstants DEF Abs!QueueOf, Queue
<1>1. Init => Abs!AInit
  BY DEF Init, Abs!AInit, EmptyLists, Abs!EmptyLists
<1>2. ASSUME Inv, [Next]_vars PROVE [Abs!ANext]_(Abs!avars)
  <2> USE DEF Abs!avars
  <2>1. ASSUME NEW j \in Jobs, EnqueueInsert(j) PROVE Abs!ANext
    <3>1. Abs!Put(j)
      BY <1>2, <2>1 DEF EnqueueInsert, Abs!Put, PushBack, Abs!PushBack,
        Inv, TypeOK, threads
    <3>. QED
      BY <3>1 DEF Abs!ANext
  <2>2. ASSUME NEW j \in Jobs, EnqueueLockMap(j) \/ EnqueueMap(j)
        PROVE  UNCHANGED Abs!avars
    BY <1>2, <2>2 DEF EnqueueLockMap, EnqueueMap, Inv, TypeOK, lists, threads
  <2>3. ASSUME NEW t \in Threads, DequeuePop(t) PROVE Abs!ANext
    <3>1. popped[t] = Nobody
      BY <1>2, <2>3 DEF DequeuePop, At, Inv, PlaceInv, HeldPlace
    <3>2. Abs!Take(t)
      BY Zenon, <2>3, <3>1 DEF DequeuePop, Abs!Take, IsFirst, Abs!IsFirst, Unlink,
        Abs!Unlink
    <3>. QED
      BY <3>2 DEF Abs!ANext
  <2>4. ASSUME NEW t \in Threads, DequeueFind(t) PROVE Abs!ANext
    <3>1. /\ popped[t] \in Jobs
          /\ job_state' = [job_state EXCEPT ![popped[t]] = "returned"]
      BY Zenon, <1>2, <2>4, FoundIsPopped DEF DequeueFind
    <3>2. job_state[popped[t]] # "new"
      BY <1>2, <3>1 DEF Inv, PlaceInv, HeldPlace
    <3>3. Abs!Give(t)
      BY <1>2, <2>4, <3>1, <3>2 DEF DequeueFind, Abs!Give, Inv, TypeOK
    <3>. QED
      BY <3>3 DEF Abs!ANext
  <2>5. ASSUME NEW id \in JobIds, Purge(id) PROVE Abs!ANext
    <3>1. Duplicates(id) = {j \in DOMAIN priority_qs : JobIdOf[j] = id}
      BY <1>2, <2>5, NothingInFlight DEF Purge, Duplicates
    <3>2. \A j \in Duplicates(id) : job_state[j] = "queued"
      BY <1>2 DEF Inv, PlaceInv, MappedPlace, Duplicates, TypeOK
    <3>3. Abs!Drop(id)
      BY Zenon, <1>2, <2>5, <3>1, <3>2 DEF Purge, Abs!Drop, Unlink, Abs!Unlink,
        threads, Inv, TypeOK
    <3>. QED
      BY <3>3 DEF Abs!ANext
  <2>6. ASSUME \/ \E t \in Threads :
                    \/ DequeueCall(t) \/ DequeueLock(t) \/ DequeueTest(t)
                    \/ DequeueClear(t) \/ DequeueGuard(t) \/ DequeueRecheck(t)
                    \/ DequeuePopEmpty(t) \/ DequeueLockMap(t)
               \/ \E p \in ReleaseOnePrios : ReleaseOne(p)
               \/ ReleaseQueues \/ ExclusiveStep \/ UNCHANGED vars
        PROVE  UNCHANGED Abs!avars
    BY <2>6 DEF DequeueCall, DequeueLock, DequeueTest, DequeueClear,
      DequeueGuard, DequeueRecheck, Empty, DequeuePopEmpty, DequeueLockMap,
      ReleaseOne, ReleaseQueues,
      ExclusiveStep, ReleaseQueuesLoop, ReleaseOneSet, ReleaseOneUnlock, vars,
      lists, threads
  <2>. QED
    BY <1>2, <2>1, <2>2, <2>3, <2>4, <2>5, <2>6
    DEF Next, Enqueue, Dequeue, DequeueInside
<1>. QED
  BY <1>1, <1>2, Invariance, PTL DEF Spec, ImplementsAtomicQueues, Abs!ASpec

-------------------------------------------------------------------------------
(* Threads that do not share their priority.                               *)

\* A queue loses nodes only to a pop of its own priority and to Purge.
LEMMA QueueLoses ==
  ASSUME Inv, [Next]_vars, NEW p \in Prios, NEW j \in Queue(p), j \notin Queue(p)'
  PROVE  \/ \E t \in Threads : DequeuePop(t) /\ ThreadPrio[t] = p
         \/ \E id \in JobIds : Purge(id)
<1> USE DEF Queue
<1>1. ASSUME NEW i \in Jobs, EnqueueInsert(i) PROVE FALSE
  BY <1>1 DEF EnqueueInsert, PushBack
<1>2. ASSUME NEW t \in Threads, DequeuePop(t), ThreadPrio[t] # p PROVE FALSE
  BY <1>2 DEF DequeuePop, Unlink
<1>3. ASSUME UNCHANGED priority_qs PROVE FALSE
  BY Zenon, <1>3
<1>4. \/ \E i \in Jobs : EnqueueInsert(i)
      \/ \E t \in Threads : DequeuePop(t)
      \/ \E id \in JobIds : Purge(id)
      \/ UNCHANGED priority_qs
  BY Zenon DEF Next, Enqueue, EnqueueLockMap, EnqueueMap, Dequeue, DequeueInside,
    DequeueCall, DequeueLock, DequeueTest, DequeueClear, DequeueGuard,
    DequeueRecheck, Empty, DequeuePopEmpty, DequeueLockMap, DequeueFind, ReleaseOne, ReleaseQueues,
    ExclusiveStep, ReleaseQueuesLoop, ReleaseOneSet, ReleaseOneUnlock, vars, lists
<1>. QED
  BY Zenon, <1>1, <1>2, <1>3, <1>4

\* A thread gets to "pop" through DequeueRecheck and to "corrupt" through
\* DequeuePopEmpty only.
LEMMA ThreadMoves ==
  ASSUME TypeOK, [Next]_vars, NEW t \in Threads
  PROVE  /\ deq'[t] = "pop" /\ deq[t] # "pop" =>
              /\ DequeueRecheck(t) /\ Queue(ThreadPrio[t]) # {}
              /\ UNCHANGED priority_qs
         /\ deq'[t] = "corrupt" /\ deq[t] # "corrupt" => DequeuePopEmpty(t)
         /\ DequeuePop(t) => deq[t] = "pop" /\ deq'[t] = "popped"
<1> USE DEF TypeOK
<1>1. ASSUME NEW u \in Threads, Dequeue(u), u # t PROVE deq'[t] = deq[t]
  BY <1>1 DEF Dequeue, DequeueInside, DequeueCall, DequeueLock, DequeueTest,
    DequeueClear, DequeueGuard, DequeueRecheck, Empty, DequeuePop, DequeuePopEmpty,
    DequeueLockMap, DequeueFind, At
<1>2. ASSUME ~\E u \in Threads : Dequeue(u) PROVE deq' = deq
  BY Zenon, <1>2 DEF Next, Enqueue, EnqueueInsert, EnqueueLockMap, EnqueueMap, Purge,
    ReleaseOne, ReleaseQueues, ExclusiveStep, ReleaseQueuesLoop, ReleaseOneSet,
    ReleaseOneUnlock, vars, threads
<1>3. CASE Dequeue(t)
  <2>1. CASE DequeueRecheck(t)
    BY <2>1 DEF DequeueRecheck, Empty, DequeuePop, At, lists
  <2>2. CASE DequeuePop(t)
    BY Zenon, <2>2 DEF DequeuePop, At
  <2>. QED
    BY Zenon, <1>3, <2>1, <2>2 DEF Dequeue, DequeueInside, DequeueCall, DequeueLock,
      DequeueTest, DequeueClear, DequeueGuard, DequeuePop, DequeuePopEmpty,
      DequeueLockMap, DequeueFind, At
<1>4. CASE ~Dequeue(t)
  <2>1. deq'[t] = deq[t]
    BY <1>1, <1>2, <1>4
  <2>. QED
    BY <1>4, <2>1 DEF Dequeue, DequeueInside
<1>. QED
  BY Zenon, <1>3, <1>4

\* With one thread per priority, as the schedulers are configured for the
\* throttling proxy, Dequeue never pops an empty list.
THEOREM LoneThreadIsSafe == Spec => []LoneThreadPopsItem
<1>1. Init => LoneThreadPopsItem
  BY DEF Init, LoneThreadPopsItem
<1>2. ASSUME Inv, LoneThreadPopsItem, [Next]_vars PROVE LoneThreadPopsItem'
  <2> SUFFICES ASSUME NEW t \in Threads,
                      \A u \in Threads : ThreadPrio[u] = ThreadPrio[t] => u = t
               PROVE  /\ deq'[t] = "pop" => Queue(ThreadPrio[t])' # {}
                      /\ deq'[t] # "corrupt"
    BY DEF LoneThreadPopsItem
  <2>0. /\ deq[t] = "pop" => Queue(ThreadPrio[t]) # {}
        /\ deq[t] # "corrupt"
        /\ TypeOK
    BY <1>2 DEF LoneThreadPopsItem, Inv
  <2>1. deq'[t] # "corrupt"
    BY <1>2, <2>0, ThreadMoves DEF DequeuePopEmpty, At
  <2>2. ASSUME deq'[t] = "pop" PROVE Queue(ThreadPrio[t])' # {}
    <3>1. CASE deq[t] # "pop"
      BY <1>2, <2>0, <2>2, <3>1, ThreadMoves DEF Queue
    <3>2. CASE deq[t] = "pop"
      <4>1. PICK j \in Queue(ThreadPrio[t]) : TRUE
        BY <2>0, <3>2
      <4>2. ~DequeuePop(t)
        BY <1>2, <2>0, <2>2, ThreadMoves
      <4>3. \A id \in JobIds : ~Purge(id)
        BY <1>2, <3>2 DEF Purge, ExclusiveFree, Inv, LockInv, PurgeLock
      <4>4. ThreadPrio[t] \in Prios
        BY MultiQueueConstants
      <4>5. j \in Queue(ThreadPrio[t])'
        BY Zenon, <1>2, <4>1, <4>2, <4>3, <4>4, QueueLoses
      <4>. QED
        BY <4>5
    <3>. QED
      BY <3>1, <3>2
  <2>. QED
    BY <2>1, <2>2
<1>. QED
  BY <1>1, <1>2, Invariance, PTL DEF Spec

-------------------------------------------------------------------------------
(* Wake-ups.                                                               *)

\* Priorities nobody calls ReleaseOne on: their bit is clear in _release_one
\* and in every word loaded from it.
BitsInv ==
  \A p \in Prios \ ReleaseOnePrios :
    /\ ~release_one[p] /\ ~exclusive.word[p]
    /\ \A t \in Threads : ~word[t][p]
    /\ exclusive.op \in {"ReleaseOneSet", "ReleaseOneUnlock"}
         => exclusive.prio # p

\* There an item is queued only while the blocking lock is open or a thread that
\* passed it is still on its way to the pop.
OnItsWay(t, p) == ThreadPrio[t] = p /\ deq[t] \in {"test", "guard", "recheck", "pop"}

WakeInv ==
  \A p \in Prios \ ReleaseOnePrios :
    Queue(p) # {} => \/ ~not_empty_locked[p]
                     \/ \E t \in Threads : OnItsWay(t, p)

\* No step sets the bit of a priority that nobody calls ReleaseOne on.
LEMMA BitsStep == ASSUME TypeOK, BitsInv, [Next]_vars PROVE BitsInv'
<1> SUFFICES ASSUME NEW p \in Prios, p \notin ReleaseOnePrios
             PROVE  /\ ~release_one'[p] /\ ~(exclusive').word[p]
                    /\ \A t \in Threads : ~word'[t][p]
                    /\ (exclusive').op \in {"ReleaseOneSet", "ReleaseOneUnlock"}
                         => (exclusive').prio # p
  BY DEF BitsInv
<1>0. /\ ~release_one[p] /\ ~exclusive.word[p]
      /\ \A t \in Threads : ~word[t][p]
      /\ exclusive.op \in {"ReleaseOneSet", "ReleaseOneUnlock"}
           => exclusive.prio # p
      /\ ~NoBits[p]
  BY DEF BitsInv, NoBits
<1>1. CASE UNCHANGED <<release_one, exclusive, word>>
  BY <1>0, <1>1
<1>2. CASE \E t \in Threads : DequeueTest(t)
  BY <1>0, <1>2 DEF DequeueTest, TypeOK, locks, flags
<1>3. CASE \E t \in Threads : DequeueClear(t)
  BY <1>0, <1>3 DEF DequeueClear, TypeOK, locks, Word
<1>4. CASE ReleaseQueues \/ ReleaseQueuesLoop \/ ReleaseOneUnlock
  <2>1. /\ (exclusive').op \in {"none", "ReleaseQueues"}
        /\ (exclusive').word = NoBits
    BY <1>4 DEF ReleaseQueues, ReleaseQueuesLoop, ReleaseOneUnlock, NoExclusive,
      Call
  <2>. QED
    BY <1>0, <1>4, <2>1 DEF ReleaseQueues, ReleaseQueuesLoop, ReleaseOneUnlock,
      threads
<1>5. CASE \E q \in ReleaseOnePrios : ReleaseOne(q)
  BY <1>0, <1>5 DEF ReleaseOne, Call, threads, flags
<1>6. CASE ReleaseOneSet
  BY <1>0, <1>6 DEF ReleaseOneSet, Call, threads, TypeOK, Word
<1>. QED
  BY Zenon, <1>1, <1>2, <1>3, <1>4, <1>5, <1>6 DEF Next, Enqueue, EnqueueInsert,
    EnqueueLockMap, EnqueueMap, Dequeue, DequeueInside, DequeueCall, DequeueLock,
    DequeueGuard, DequeueRecheck, Empty, DequeuePop, DequeuePopEmpty, DequeueLockMap,
    DequeueFind, Purge,
    ExclusiveStep, vars, locks, flags, threads

\* A step that adds no item, locks nothing and stops no thread on its way.
LEMMA WakeFrame ==
  ASSUME WakeInv, NEW p \in Prios, p \notin ReleaseOnePrios,
         Queue(p)' # {}, Queue(p)' \subseteq Queue(p),
         not_empty_locked'[p] => not_empty_locked[p],
         \A t \in Threads : OnItsWay(t, p) => OnItsWay(t, p)'
  PROVE  \/ ~not_empty_locked'[p]
         \/ \E t \in Threads : OnItsWay(t, p)'
BY Zenon DEF WakeInv

\* Every step keeps an item from being stranded behind a locked not-empty mutex.
LEMMA WakeStep == ASSUME TypeOK, BitsInv, WakeInv, [Next]_vars PROVE WakeInv'
<1> SUFFICES ASSUME NEW p \in Prios, p \notin ReleaseOnePrios, Queue(p)' # {}
             PROVE  \/ ~not_empty_locked'[p]
                    \/ \E t \in Threads : OnItsWay(t, p)'
  BY DEF WakeInv
<1> DEFINE Opens == not_empty_locked'[p] => not_empty_locked[p]
           Stay == \A t \in Threads : OnItsWay(t, p) => OnItsWay(t, p)'
           Fewer == Queue(p)' \subseteq Queue(p)
<1>0. Opens /\ Stay /\ Fewer => \/ ~not_empty_locked'[p]
                               \/ \E t \in Threads : OnItsWay(t, p)'
  BY WakeFrame
<1>1. ASSUME NEW j \in Jobs, EnqueueInsert(j)
      PROVE  \/ ~not_empty_locked'[p] 
             \/ Opens /\ Stay /\ Queue(p) # {}
  <2>1. Stay
    BY <1>1 DEF EnqueueInsert, threads, OnItsWay
  <2>2. Queue(p) = {} => PrioOf[j] = p
    BY <1>1 DEF EnqueueInsert, PushBack, Queue
  <2>. QED
    BY <1>1, <2>1, <2>2 DEF EnqueueInsert, Unlock, TypeOK
<1>2. ASSUME NEW t \in Threads, DequeueLock(t)
      PROVE  Fewer /\ Stay /\ (OnItsWay(t, p)' \/ Opens)
  BY <1>2 DEF DequeueLock, At, OnItsWay, TypeOK, lists, Queue
<1>3. ASSUME NEW t \in Threads, DequeueTest(t) \/ DequeueGuard(t)
      PROVE  Fewer /\ Stay /\ Opens
  <2>1. ~release_one[p]
    BY Zenon DEF BitsInv
  <2>2. Queue(p)' = Queue(p)
    BY Zenon, <1>3 DEF DequeueTest, DequeueGuard, Empty, lists, Queue
  <2>3. CASE DequeueTest(t)
    BY <2>1, <2>2, <2>3 DEF DequeueTest, At, OnItsWay, TypeOK, flags
  <2>4. CASE DequeueGuard(t)
    <3>1. ThreadPrio[t] = p => ~Empty(ThreadPrio[t])
      BY Zenon, <2>2 DEF Empty
    <3>2. Opens
      BY Zenon, <2>4 DEF DequeueGuard, Unlock, TypeOK
    <3>3. Stay
      BY <2>4, <3>1 DEF DequeueGuard, At, OnItsWay, TypeOK
    <3>. QED
      BY <2>2, <3>2, <3>3
  <2>. QED
    BY <1>3, <2>3, <2>4
<1>3r. ASSUME NEW t \in Threads, DequeueRecheck(t) PROVE Fewer /\ Stay /\ Opens
  <2>1. Queue(p)' = Queue(p) /\ Opens
    BY Zenon, <1>3r DEF DequeueRecheck, lists, flags, Queue
  <2>2. ThreadPrio[t] = p => ~Empty(ThreadPrio[t])
    BY Zenon, <2>1 DEF Empty
  <2>3. Stay
    BY <1>3r, <2>2 DEF DequeueRecheck, At, OnItsWay, TypeOK
  <2>. QED
    BY <2>1, <2>3
<1>4. ASSUME NEW t \in Threads, DequeuePop(t)
      PROVE  ~not_empty_locked'[p] \/ (Fewer /\ Stay /\ Opens)
  <2>1. CASE ThreadPrio[t] = p
    BY Zenon, <1>4, <2>1 DEF DequeuePop, Unlock, Unlink, Queue, TypeOK
  <2>2. CASE ThreadPrio[t] # p
    BY <1>4, <2>2 DEF DequeuePop, Unlock, Unlink, Queue, TypeOK, At, OnItsWay
  <2>. QED
    BY Zenon, <2>1, <2>2
<1>5. ASSUME NEW t \in Threads, DequeuePopEmpty(t) PROVE Fewer /\ Stay /\ Opens
  <2>1. Fewer /\ Opens /\ ThreadPrio[t] # p
    BY <1>5 DEF DequeuePopEmpty, lists, flags, Queue
  <2>2. \A u \in Threads : u # t => deq'[u] = deq[u]
    BY Zenon, <1>5, HasShape DEF DequeuePopEmpty, At, Shape
  <2>. QED
    BY Zenon, <2>1, <2>2 DEF OnItsWay
<1>6. ASSUME NEW t \in Threads,
             DequeueCall(t) \/ DequeueClear(t) \/ DequeueLockMap(t) \/ DequeueFind(t)
      PROVE  Fewer /\ Stay /\ Opens
  BY <1>6 DEF DequeueCall, DequeueClear, DequeueLockMap, DequeueFind, At, OnItsWay,
    TypeOK, lists, flags, Queue
<1>7. ASSUME NEW id \in JobIds, Purge(id) PROVE Fewer /\ Stay /\ Opens
  BY <1>7 DEF Purge, Unlink, Queue, flags, threads, OnItsWay
<1>8. ASSUME \/ \E j \in Jobs : EnqueueLockMap(j) \/ EnqueueMap(j)
             \/ \E q \in ReleaseOnePrios : ReleaseOne(q)
             \/ ReleaseQueues \/ ExclusiveStep \/ UNCHANGED vars
      PROVE  Fewer /\ Stay /\ Opens
  <2>1. UNCHANGED <<priority_qs, deq>>
    BY Zenon, <1>8 DEF EnqueueLockMap, EnqueueMap, ReleaseOne, ReleaseQueues,
      ExclusiveStep, ReleaseQueuesLoop, ReleaseOneSet, ReleaseOneUnlock, vars,
      lists, threads
  <2>2. Opens
    BY Zenon, <1>8 DEF EnqueueLockMap, EnqueueMap, ReleaseOne, ReleaseQueues,
      ExclusiveStep, ReleaseQueuesLoop, ReleaseOneSet, ReleaseOneUnlock, vars,
      flags, Unlock, TypeOK
  <2>. QED
    BY Zenon, <2>1, <2>2 DEF Queue, OnItsWay
<1>9. CASE Queue(p) # {} /\ Opens /\ Stay
  BY <1>9 DEF WakeInv
<1>. QED
  BY Zenon, <1>0, <1>1, <1>2, <1>3, <1>3r, <1>4, <1>5, <1>6, <1>7, <1>8, <1>9
  DEF Next, Enqueue, Dequeue, DequeueInside

\* No wake-up is lost, with any number of threads per priority: the not-empty
\* locks of Enqueue and Dequeue never leave items behind a closed lock.
THEOREM NoWakeupIsLost == Spec => []NoLostWakeup
<1>1. Init => BitsInv /\ WakeInv
  BY DEF Init, BitsInv, WakeInv, NoBits, NoExclusive, Call, Queue, EmptyLists
<1>2. Inv /\ BitsInv /\ WakeInv /\ [Next]_vars => BitsInv' /\ WakeInv'
  BY Zenon, BitsStep, WakeStep DEF Inv
<1>3. WakeInv => NoLostWakeup
  BY Zenon DEF WakeInv, NoLostWakeup, Waiting, OnItsWay
<1>. QED
  BY <1>1, <1>2, <1>3, Invariance, PTL DEF Spec

-------------------------------------------------------------------------------
(* ReleaseOne.                                                             *)

\* With one priority for ReleaseOne, its bit is set behind a locked mutex only
\* before ReleaseOne unlocks it or while a thread is about to see the bit.
SeesBit(t, p) == ThreadPrio[t] = p /\ deq[t] \in {"test", "clear"}
Unlocking(p) == exclusive.op = "ReleaseOneUnlock" /\ exclusive.prio = p

ReleaseInv ==
  /\ \A t \in Threads : deq[t] = "clear" => ThreadPrio[t] \in ReleaseOnePrios
  /\ \A p \in Prios : ReleaseOnePrios \subseteq {p} /\ release_one[p] =>
       \/ ~not_empty_locked[p]
       \/ Unlocking(p)
       \/ \E t \in Threads : SeesBit(t, p)

\* Only a thread that has seen its bit set is about to clear it.
LEMMA ClearStep ==
  ASSUME TypeOK, BitsInv, ReleaseInv, [Next]_vars, NEW t \in Threads, deq'[t] = "clear"
  PROVE  ThreadPrio[t] \in ReleaseOnePrios
<1>1. CASE deq[t] = "clear"
  BY <1>1 DEF ReleaseInv
<1>2. ASSUME deq[t] # "clear", NEW u \in Threads, Dequeue(u)
      PROVE  ThreadPrio[t] \in ReleaseOnePrios
  <2>0. DequeueTest(u) \/ \E to \in {"lock", "test", "idle", "guard", "recheck", "pop",
                                     "popped", "mapping", "corrupt"} : deq' = [deq EXCEPT ![u] = to]
    BY Zenon, <1>2 DEF Dequeue, DequeueInside, DequeueCall, DequeueLock,
      DequeueClear, DequeueGuard, DequeueRecheck, DequeuePop, DequeuePopEmpty,
      DequeueLockMap, DequeueFind, At
  <2>1. t = u /\ DequeueTest(u)
    BY Zenon, <1>2, <2>0 DEF DequeueTest, At, TypeOK
  <2>2. release_one[ThreadPrio[t]] /\ ThreadPrio[t] \in Prios
    BY <2>1, MultiQueueConstants DEF DequeueTest, At, TypeOK
  <2>. QED
    BY <2>2 DEF BitsInv
<1>3. CASE UNCHANGED deq
  BY <1>3 DEF ReleaseInv
<1>. QED
  BY Zenon, <1>1, <1>2, <1>3 DEF Next, Enqueue, EnqueueInsert, EnqueueLockMap,
    EnqueueMap, Purge, ReleaseOne, ReleaseQueues, ExclusiveStep, ReleaseQueuesLoop,
    ReleaseOneSet, ReleaseOneUnlock, vars, threads

\* Every step keeps a bit from being stranded behind a locked not-empty mutex.
LEMMA ReleaseStep == ASSUME TypeOK, BitsInv, ReleaseInv, [Next]_vars PROVE ReleaseInv'
<1> SUFFICES ASSUME NEW p \in Prios, ReleaseOnePrios \subseteq {p}, release_one'[p]
             PROVE  \/ ~not_empty_locked'[p]
                    \/ Unlocking(p)'
                    \/ \E t \in Threads : SeesBit(t, p)'
  BY ClearStep DEF ReleaseInv
<1> DEFINE Opens == not_empty_locked'[p] => not_empty_locked[p]
           Stay == \A t \in Threads : SeesBit(t, p) => SeesBit(t, p)'
           Calls == Unlocking(p) => Unlocking(p)'
           Goal == \/ ~not_empty_locked'[p]
                   \/ Unlocking(p)'
                   \/ \E t \in Threads : SeesBit(t, p)'
<1>0. release_one[p] /\ Opens /\ Stay /\ Calls => Goal
  BY Zenon DEF ReleaseInv
<1>1. ASSUME NEW t \in Threads, DequeueLock(t) PROVE Goal
  <2>1. CASE ThreadPrio[t] = p
    BY <1>1, <2>1 DEF DequeueLock, At, SeesBit, TypeOK
  <2>2. CASE ThreadPrio[t] # p
    BY <1>0, <1>1, <2>2 DEF DequeueLock, At, SeesBit, TypeOK, Unlocking, locks
  <2>. QED
    BY Zenon, <2>1, <2>2
<1>2. ASSUME NEW t \in Threads, DequeueTest(t) PROVE Goal
  <2>1. release_one[p] /\ Opens /\ Calls
    BY Zenon, <1>2 DEF DequeueTest, flags, locks, Unlocking
  <2>2. Stay
    BY <1>2, <2>1 DEF DequeueTest, At, SeesBit, TypeOK
  <2>. QED
    BY Zenon, <1>0, <2>1, <2>2
<1>3. ASSUME NEW t \in Threads, DequeueClear(t) PROVE FALSE
  <2>1. ThreadPrio[t] = p
    BY <1>3 DEF DequeueClear, At, ReleaseInv
  <2>. QED
    BY Zenon, <1>3, <2>1 DEF DequeueClear, TypeOK, Word
<1>4. ASSUME NEW t \in Threads,
             \/ DequeueCall(t) \/ DequeueGuard(t) \/ DequeueRecheck(t)
             \/ DequeuePop(t) \/ DequeuePopEmpty(t) \/ DequeueLockMap(t) \/ DequeueFind(t)
      PROVE  Goal
  <2>1. release_one[p] /\ Calls
    BY Zenon, <1>4 DEF DequeueCall, DequeueGuard, DequeueRecheck, DequeuePop, DequeuePopEmpty,
      DequeueLockMap, DequeueFind, flags, locks, Unlocking
  <2>2. Opens
    <3>1. UNCHANGED not_empty_locked \/ Unlock(ThreadPrio[t])
      BY Zenon, <1>4 DEF DequeueCall, DequeueGuard, DequeueRecheck, DequeuePop, DequeuePopEmpty,
        DequeueLockMap, DequeueFind, flags
    <3>. QED
      BY <3>1 DEF Unlock, TypeOK
  <2>3. Stay
    BY Zenon, <1>4 DEF DequeueCall, DequeueGuard, DequeueRecheck, DequeuePop, DequeuePopEmpty,
      DequeueLockMap, DequeueFind, At, SeesBit, TypeOK
  <2>. QED
    BY Zenon, <1>0, <2>1, <2>2, <2>3
<1>5. CASE ReleaseOneSet
  <2>1. exclusive.prio = p
    BY <1>5 DEF ReleaseOneSet, BitsInv, TypeOK
  <2>. QED
    BY <1>5, <2>1 DEF ReleaseOneSet, Call, Unlocking
<1>6. CASE ReleaseOneUnlock
  <2>1. exclusive.prio = p
    BY <1>6 DEF ReleaseOneUnlock, BitsInv, TypeOK
  <2>. QED
    BY Zenon, <1>6, <2>1 DEF ReleaseOneUnlock, Unlock, TypeOK
<1>7. ASSUME \/ \E j \in Jobs : Enqueue(j)
             \/ \E id \in JobIds : Purge(id)
             \/ \E q \in ReleaseOnePrios : ReleaseOne(q)
             \/ ReleaseQueues \/ ReleaseQueuesLoop \/ UNCHANGED vars
      PROVE  Goal
  <2>1. UNCHANGED <<release_one, deq>>
    BY Zenon, <1>7 DEF Enqueue, EnqueueInsert, EnqueueLockMap, EnqueueMap, Purge,
      ReleaseOne, ReleaseQueues, ReleaseQueuesLoop, vars, flags, threads
  <2>2. Opens
    BY <1>7 DEF Enqueue, EnqueueInsert, EnqueueLockMap, EnqueueMap, Purge,
      ReleaseOne, ReleaseQueues, ReleaseQueuesLoop, vars, flags, Unlock, TypeOK
  <2>3. Calls
    BY Zenon, <1>7 DEF Enqueue, EnqueueInsert, EnqueueLockMap, EnqueueMap, Purge,
      ReleaseOne, ReleaseQueues, ReleaseQueuesLoop, vars, locks, Unlocking, ExclusiveFree
  <2>. QED
    BY Zenon, <1>0, <2>1, <2>2, <2>3 DEF SeesBit
<1>. QED
  BY Zenon, <1>1, <1>2, <1>3, <1>4, <1>5, <1>6, <1>7
  DEF Next, Dequeue, DequeueInside, ExclusiveStep

\* A ReleaseOne is not stranded, with any number of threads and priorities, as long
\* as it is called for one priority only.
THEOREM ReleaseIsSeen == Spec => []ReleaseOneNotStranded
<1>1. Init => BitsInv /\ ReleaseInv
  BY DEF Init, BitsInv, ReleaseInv, NoBits, NoExclusive, Call
<1>2. Inv /\ BitsInv /\ ReleaseInv /\ [Next]_vars => BitsInv' /\ ReleaseInv'
  BY Zenon, BitsStep, ReleaseStep DEF Inv
<1>3. ReleaseInv => ReleaseOneNotStranded
  BY Zenon DEF ReleaseInv, ReleaseOneNotStranded, Waiting, SeesBit, Unlocking
<1>. QED
  BY <1>1, <1>2, <1>3, Invariance, PTL DEF Spec

-------------------------------------------------------------------------------
\* Where the workers are: inside Dequeue exactly while Dequeue is under way.
WorkerInv ==
  /\ worker \in [Threads -> {"start", "check", "dequeue", "run", "exited"}]
  /\ \A t \in Threads : worker[t] = "dequeue" <=> deq[t] # "idle"
  /\ dtor = "joined" => \A t \in Threads : worker[t] = "exited"

\* Every job that left its queue is in the hands of one worker or processed.
HandInv ==
  /\ \A t \in Threads : worker[t] = "run" =>
       result[t] \in Jobs /\ job_state[result[t]] = "returned" /\ result[t] \notin ran
  /\ \A t, u \in Threads :
       worker[t] = "run" /\ worker[u] = "run" /\ result[t] = result[u] => t = u
  /\ \A j \in ran : j \in Jobs /\ job_state[j] = "returned"
  /\ \A j \in Jobs : job_state[j] = "returned" =>
       j \in ran \/ \E t \in Threads : worker[t] = "run" /\ result[t] = j

\* Nobody is inside Enqueue once the destructor has begun.
DtorInv ==
  dtor # "alive" => \A j \in Jobs : job_state[j] \notin {"inserted", "mapping"}

SchedulerInv == Inv /\ WorkerInv /\ HandInv /\ DtorInv

-------------------------------------------------------------------------------
\* What a step inside Dequeue does to the jobs and to what its thread is given.
LEMMA InsideEffect ==
  ASSUME Inv, NEW t \in Threads, DequeueInside(t)
  PROVE  /\ deq[t] # "idle"
         /\ \A u \in Threads : u # t => deq'[u] = deq[u] /\ result'[u] = result[u]
         /\ \/ deq'[t] # "idle" /\ job_state' = job_state
            \/ deq'[t] = "idle" /\ result'[t] = Nobody /\ job_state' = job_state
            \/ \E j \in Jobs : /\ deq'[t] = "idle" /\ result'[t] = j
                               /\ job_state[j] = "queued"
                               /\ job_state' = [job_state EXCEPT ![j] = "returned"]
<1>. DEFINE deqs == {"idle", "lock", "test", "clear", "guard", "recheck", "pop", "popped", "mapping",
                 "corrupt"}
<1>0. deq \in [Threads -> deqs] /\ result \in [Threads -> Jobs \cup {Nobody}]
  BY DEF Inv, TypeOK
<1>1. CASE DequeueLock(t)
  BY Zenon, <1>0, <1>1 DEF DequeueLock, At
<1>2. CASE DequeueTest(t)
  BY <1>0, <1>2 DEF DequeueTest, At
<1>3. CASE DequeueClear(t)
  BY <1>0, <1>3 DEF DequeueClear, At, Return
<1>4. CASE DequeueGuard(t)
  BY Zenon, <1>0, <1>4 DEF DequeueGuard, At, Return
<1>4r. CASE DequeueRecheck(t)
  BY Zenon, <1>0, <1>4r DEF DequeueRecheck, At
<1>5. CASE DequeuePop(t)
  BY Zenon, <1>0, <1>5 DEF DequeuePop, At
<1>6. CASE DequeuePopEmpty(t)
  BY <1>0, <1>6 DEF DequeuePopEmpty, At
<1>7. CASE DequeueLockMap(t)
  BY <1>0, <1>7 DEF DequeueLockMap, At
<1>8. CASE DequeueFind(t)
  <2>1. PICK j \in Copies(JobIdOf[popped[t]], ThreadPrio[t]) :
          job_state' = [job_state EXCEPT ![j] = "returned"] /\ Return(t, j)
    BY Zenon, <1>8 DEF DequeueFind
  <2>2. j \in DOMAIN value_mapper
    BY Zenon, <2>1 DEF Copies, Duplicates
  <2>3. j \in Jobs /\ job_state[j] = "queued"
    BY <2>2 DEF Inv, TypeOK, PlaceInv, MappedPlace
  <2>4. deq[t] = "mapping" /\ deq' = [deq EXCEPT ![t] = "idle"]
    BY <1>8 DEF DequeueFind
  <2>. QED
    BY Zenon, <1>0, <2>1, <2>3, <2>4 DEF Return
<1>. QED
  BY Zenon, <1>1, <1>2, <1>3, <1>4, <1>4r, <1>5, <1>6, <1>7, <1>8 DEF DequeueInside

\* A step of the stage is a step of its queue or leaves the queue alone.
LEMMA StageStep == [SchedulerNext]_svars => [Next]_vars
<1>. SUFFICES ASSUME [SchedulerNext]_svars PROVE [Next]_vars
  OBVIOUS
<1>1. ASSUME NEW t \in Threads, Worker(t) PROVE [Next]_vars
  <2>1. CASE WorkerStart(t) \/ WorkerRun(t)
    BY <2>1 DEF WorkerStart, WorkerRun
  <2>2. CASE WorkerCheck(t)
    BY Zenon, <2>2 DEF WorkerCheck, Next, Dequeue
  <2>3. CASE WorkerDequeue(t)
    BY <2>3 DEF WorkerDequeue, Next, Dequeue
  <2>. QED
    BY <1>1, <2>1, <2>2, <2>3 DEF Worker
<1>2. ASSUME NEW j \in Jobs, Submit(j) PROVE [Next]_vars
  BY <1>2 DEF Submit, Next
<1>3. ASSUME NEW id \in PurgeIds, StagePurge(id) PROVE [Next]_vars
  BY <1>3, SchedulerConstants DEF StagePurge, Next
<1>4. CASE DtorFlag \/ DtorJoin
  BY <1>4 DEF DtorFlag, DtorJoin
<1>5. CASE DtorRelease \/ DtorLoop
  BY <1>5 DEF DtorRelease, DtorLoop, Next, ExclusiveStep
<1>6. CASE UNCHANGED svars
  BY Zenon, <1>6 DEF svars
<1>. QED
  BY <1>1, <1>2, <1>3, <1>4, <1>5, <1>6 DEF SchedulerNext, Dtor

-------------------------------------------------------------------------------
\* Steps that move no worker into or out of "run" and return no job.
LEMMA HandsFrame ==
  ASSUME WorkerInv, HandInv, UNCHANGED ran,
         \A t \in Threads : /\ (worker'[t] = "run") = (worker[t] = "run")
                            /\ worker[t] = "run" => result'[t] = result[t],
         \A j \in Jobs : (job_state'[j] = "returned") = (job_state[j] = "returned")
  PROVE  HandInv'
  BY DEF HandInv

\* A step of a worker.
LEMMA WorkerKeeps ==
  ASSUME SchedulerInv, NEW t \in Threads, Worker(t)
  PROVE  WorkerInv' /\ HandInv' /\ DtorInv'
<1>0. /\ deq \in [Threads -> {"idle", "lock", "test", "clear", "guard", "recheck",
                              "pop", "popped", "mapping", "corrupt"}]
      /\ result \in [Threads -> Jobs \cup {Nobody}]
      /\ job_state \in [Jobs -> {"new", "inserted", "mapping", "queued", "returned", "purged"}]
      /\ worker \in [Threads -> {"start", "check", "dequeue", "run", "exited"}]
      /\ Nobody \notin Jobs
  BY MultiQueueConstants DEF SchedulerInv, Inv, TypeOK, WorkerInv
<1>1. CASE WorkerStart(t)
  <2>1. /\ worker[t] = "start" /\ UNCHANGED <<deq, result, job_state, ran, dtor>>
        /\ worker' = [worker EXCEPT ![t] = worker'[t]] /\ worker'[t] \in {"check", "exited"}
    BY <1>0, <1>1 DEF WorkerStart, GoTo, vars, threads, stage
  <2>2. WorkerInv' /\ DtorInv'
    BY <1>0, <2>1 DEF SchedulerInv, WorkerInv, DtorInv
  <2>3. HandInv'
    BY <1>0, <2>1, HandsFrame DEF SchedulerInv
  <2>. QED
    BY <2>2, <2>3
<1>2. CASE WorkerCheck(t)
  <2>1. CASE GoTo(t, "exited") /\ UNCHANGED vars
    <3>1. /\ worker[t] = "check" /\ worker' = [worker EXCEPT ![t] = "exited"]
          /\ UNCHANGED <<deq, result, job_state, ran, dtor>>
      BY <1>2, <2>1 DEF WorkerCheck, GoTo, vars, threads, stage
    <3>2. WorkerInv' /\ DtorInv'
      BY <1>0, <3>1 DEF SchedulerInv, WorkerInv, DtorInv
    <3>3. HandInv'
      BY <1>0, <3>1, HandsFrame DEF SchedulerInv
    <3>. QED
      BY <3>2, <3>3
  <2>2. CASE GoTo(t, "dequeue") /\ DequeueCall(t)
    <3>1. /\ worker[t] = "check" /\ worker' = [worker EXCEPT ![t] = "dequeue"]
          /\ deq' = [deq EXCEPT ![t] = "lock"]
          /\ result' = [result EXCEPT ![t] = Nobody]
          /\ UNCHANGED <<job_state, ran, dtor>>
      BY <1>2, <2>2 DEF WorkerCheck, GoTo, DequeueCall, At, Return, stage
    <3>2. WorkerInv' /\ DtorInv'
      BY <1>0, <3>1 DEF SchedulerInv, WorkerInv, DtorInv
    <3>3. HandInv'
      BY Zenon, <1>0, <3>1, HandsFrame DEF SchedulerInv
    <3>. QED
      BY <3>2, <3>3
  <2>. QED
    BY Zenon, <1>2, <2>1, <2>2 DEF WorkerCheck
<1>3. CASE WorkerDequeue(t)
  <2>0. /\ deq[t] # "idle" /\ worker[t] = "dequeue"
        /\ \A u \in Threads : u # t => deq'[u] = deq[u] /\ result'[u] = result[u]
        /\ UNCHANGED <<ran, dtor>>
    BY <1>3, InsideEffect DEF WorkerDequeue, SchedulerInv, stage
  <2>1. CASE deq'[t] # "idle" /\ job_state' = job_state
    <3>1. UNCHANGED worker
      BY <1>3, <2>1 DEF WorkerDequeue
    <3>2. WorkerInv' /\ DtorInv'
      BY Zenon, <1>0, <2>0, <2>1, <3>1 DEF SchedulerInv, WorkerInv, DtorInv
    <3>3. HandInv'
      BY Zenon, <1>0, <2>0, <2>1, <3>1, HandsFrame DEF SchedulerInv
    <3>. QED
      BY <3>2, <3>3
  <2>2. CASE deq'[t] = "idle" /\ result'[t] = Nobody /\ job_state' = job_state
    <3>1. worker' = [worker EXCEPT ![t] = "check"]
      BY <1>3, <2>2 DEF WorkerDequeue, GoTo, Handle
    <3>2. WorkerInv' /\ DtorInv'
      BY <1>0, <2>0, <2>2, <3>1 DEF SchedulerInv, WorkerInv, DtorInv
    <3>3. HandInv'
      BY <1>0, <2>0, <2>2, <3>1, HandsFrame DEF SchedulerInv
    <3>. QED
      BY <3>2, <3>3
  <2>3. ASSUME NEW j \in Jobs, deq'[t] = "idle", result'[t] = j, job_state[j] = "queued",
               job_state' = [job_state EXCEPT ![j] = "returned"]
        PROVE  WorkerInv' /\ HandInv' /\ DtorInv'
    <3>1. worker' = [worker EXCEPT ![t] = "run"]
      BY Zenon, <1>0, <1>3, <2>3 DEF WorkerDequeue, GoTo, Handle
    <3>2. WorkerInv' /\ DtorInv'
      BY <1>0, <2>0, <2>3, <3>1 DEF SchedulerInv, WorkerInv, DtorInv
    <3>3. j \notin ran /\ \A u \in Threads : worker[u] = "run" => result[u] # j
      BY Zenon, <2>3 DEF SchedulerInv, HandInv
    <3>4. \A u \in Threads : worker'[u] = "run" =>
            /\ result'[u] \in Jobs /\ job_state'[result'[u]] = "returned"
            /\ result'[u] \notin ran'
      BY <1>0, <2>0, <2>3, <3>1, <3>3 DEF SchedulerInv, HandInv
    <3>5. \A u, v \in Threads :
            worker'[u] = "run" /\ worker'[v] = "run" /\ result'[u] = result'[v] => u = v
      BY <1>0, <2>0, <2>3, <3>1, <3>3 DEF SchedulerInv, HandInv
    <3>6. \A k \in ran' : k \in Jobs /\ job_state'[k] = "returned"
      BY Zenon, <1>0, <2>0, <2>3 DEF SchedulerInv, HandInv
    <3>7. ASSUME NEW k \in Jobs, job_state'[k] = "returned"
          PROVE  k \in ran' \/ \E u \in Threads : worker'[u] = "run" /\ result'[u] = k
      BY <1>0, <2>0, <2>3, <3>1, <3>7 DEF SchedulerInv, HandInv
    <3>8. HandInv'
      BY <3>4, <3>5, <3>6, <3>7 DEF HandInv
    <3>. QED
      BY Zenon, <3>2, <3>8
  <2>. QED
    BY Zenon, <1>3, <2>1, <2>2, <2>3, InsideEffect DEF WorkerDequeue, SchedulerInv
<1>4. CASE WorkerRun(t)
  <2>1. /\ worker[t] = "run" /\ worker' = [worker EXCEPT ![t] = "check"]
        /\ ran' = ran \cup {result[t]} /\ UNCHANGED <<deq, result, job_state, dtor>>
    BY <1>4 DEF WorkerRun, GoTo, vars, threads, stage
  <2>2. WorkerInv' /\ DtorInv'
    BY <1>0, <2>1 DEF SchedulerInv, WorkerInv, DtorInv
  <2>3. HandInv'
    BY <1>0, <2>1 DEF SchedulerInv, HandInv
  <2>. QED
    BY <2>2, <2>3
<1>. QED
  BY Zenon, <1>1, <1>2, <1>3, <1>4 DEF Worker

\* Clients of the stage and its destructor.
LEMMA OthersKeep ==
  ASSUME SchedulerInv,
         \/ \E j \in Jobs : Submit(j)
         \/ \E id \in PurgeIds : StagePurge(id)
         \/ DtorFlag \/ Dtor
         \/ UNCHANGED svars
  PROVE  WorkerInv' /\ HandInv' /\ DtorInv'
<1>0. job_state \in [Jobs -> {"new", "inserted", "mapping", "queued", "returned", "purged"}]
  BY DEF SchedulerInv, Inv, TypeOK
<1>1. ASSUME UNCHANGED <<worker, deq, result, ran>>, dtor' = "joined" => dtor = "joined",
             \A j \in Jobs : (job_state'[j] = "returned") = (job_state[j] = "returned")
      PROVE  WorkerInv' /\ HandInv'
  <2>1. WorkerInv'
    BY Zenon, <1>1 DEF SchedulerInv, WorkerInv
  <2>2. HandInv'
    BY <1>1, HandsFrame DEF SchedulerInv
  <2>. QED
    BY <2>1, <2>2
<1>2. ASSUME NEW j \in Jobs, Submit(j) PROVE WorkerInv' /\ HandInv' /\ DtorInv'
  <2>1. /\ UNCHANGED <<worker, deq, result, ran, dtor>> /\ dtor = "alive"
        /\ \E to \in {"inserted", "mapping", "queued"} :
             job_state' = [job_state EXCEPT ![j] = to]
        /\ job_state[j] # "returned"
    BY Zenon, <1>2 DEF Submit, Enqueue, EnqueueInsert, EnqueueLockMap, EnqueueMap, threads, stage
  <2>2. \A k \in Jobs : (job_state'[k] = "returned") = (job_state[k] = "returned")
    BY <1>0, <2>1
  <2>. QED
    BY Zenon, <1>1, <2>1, <2>2 DEF DtorInv
<1>3. ASSUME NEW id \in PurgeIds, StagePurge(id) PROVE WorkerInv' /\ HandInv' /\ DtorInv'
  <2>1. /\ UNCHANGED <<worker, deq, result, ran, dtor>> /\ dtor = "alive"
        /\ job_state' = [j \in Jobs |->
                           IF j \in Duplicates(id) THEN "purged" ELSE job_state[j]]
    BY Zenon, <1>3 DEF StagePurge, Purge, threads, stage
  <2>2. \A j \in Duplicates(id) : job_state[j] = "queued"
    BY DEF Duplicates, SchedulerInv, Inv, TypeOK, PlaceInv, MappedPlace
  <2>3. \A k \in Jobs : (job_state'[k] = "returned") = (job_state[k] = "returned")
    BY <2>1, <2>2
  <2>. QED
    BY <1>1, <2>1, <2>3 DEF DtorInv
<1>4. CASE DtorFlag
  <2>1. /\ UNCHANGED <<worker, deq, result, ran, job_state>> /\ dtor' = "flagged"
        /\ \A j \in Jobs : job_state[j] \notin {"inserted", "mapping"}
    BY <1>4 DEF DtorFlag, vars, threads
  <2>. QED
    BY <1>1, <2>1 DEF DtorInv
<1>5. CASE DtorRelease \/ DtorLoop
  <2>1. /\ UNCHANGED <<worker, deq, result, ran, job_state>>
        /\ dtor # "alive" /\ dtor' # "joined"
    BY <1>5 DEF DtorRelease, DtorLoop, ReleaseQueues, ReleaseQueuesLoop, threads
  <2>. QED
    BY <1>1, <2>1 DEF SchedulerInv, DtorInv
<1>6. CASE DtorJoin
  <2>1. /\ UNCHANGED <<worker, deq, result, ran, job_state>>
        /\ dtor # "alive" /\ \A t \in Threads : worker[t] = "exited"
    BY <1>6 DEF DtorJoin, vars, threads
  <2>2. WorkerInv' /\ DtorInv'
    BY <2>1 DEF SchedulerInv, WorkerInv, DtorInv
  <2>3. HandInv'
    BY <2>1, HandsFrame DEF SchedulerInv
  <2>. QED
    BY <2>2, <2>3
<1>7. CASE UNCHANGED svars
  <2>1. UNCHANGED <<worker, deq, result, ran, job_state, dtor>>
    BY <1>7 DEF svars, vars, threads, stage
  <2>. QED
    BY <1>1, <2>1 DEF SchedulerInv, DtorInv
<1>. QED
  BY Zenon, <1>2, <1>3, <1>4, <1>5, <1>6, <1>7 DEF Dtor

LEMMA SchedulerInvariance == SchedulerSpec => []SchedulerInv
<1>1. SchedulerInit => SchedulerInv
  <2>. SUFFICES ASSUME SchedulerInit PROVE SchedulerInv
    OBVIOUS
  <2>1. Inv
    BY InitInv DEF SchedulerInit
  <2>2. WorkerInv /\ HandInv /\ DtorInv
    BY DEF SchedulerInit, Init, WorkerInv, HandInv, DtorInv
  <2>. QED
    BY <2>1, <2>2 DEF SchedulerInv
<1>2. SchedulerInv /\ [SchedulerNext]_svars => SchedulerInv'
  <2>. SUFFICES ASSUME SchedulerInv, [SchedulerNext]_svars PROVE SchedulerInv'
    OBVIOUS
  <2>1. Inv'
    BY StageStep, StepInv DEF SchedulerInv
  <2>2. WorkerInv' /\ HandInv' /\ DtorInv'
    BY WorkerKeeps, OthersKeep DEF SchedulerNext
  <2>. QED
    BY <2>1, <2>2 DEF SchedulerInv
<1>. QED
  BY <1>1, <1>2, PTL DEF SchedulerSpec

-------------------------------------------------------------------------------
\* The workers of a stage, of whatever size, never process one job twice, though
\* Dequeue looks jobs up by an id that several of them share.
THEOREM NoJobTwice == SchedulerSpec => []ProcessedOnce
<1>1. SchedulerInv => ProcessedOnce
  BY DEF SchedulerInv, HandInv, ProcessedOnce
<1>. QED
  BY <1>1, SchedulerInvariance, PTL

\* Once ~Scheduler has joined the workers, every job that left its queue has been
\* processed or purged.
THEOREM NothingIsLost == SchedulerSpec => []JoinLosesNothing
<1>1. SchedulerInv => JoinLosesNothing
  <2>. SUFFICES ASSUME SchedulerInv, dtor = "joined", NEW j \in Jobs
                PROVE  job_state[j] \in {"new", "queued", "purged"} \/ j \in ran
    BY Zenon DEF JoinLosesNothing
  <2>1. job_state[j] \in {"new", "queued", "returned", "purged"}
    BY Zenon DEF SchedulerInv, Inv, TypeOK, DtorInv
  <2>2. job_state[j] = "returned" => j \in ran
    BY DEF SchedulerInv, WorkerInv, HandInv
  <2>. QED
    BY <2>1, <2>2
<1>. QED
  BY <1>1, SchedulerInvariance, PTL

===============================================================================

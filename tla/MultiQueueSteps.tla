--------------------------- MODULE MultiQueueSteps ----------------------------
(***************************************************************************)
(* The inductive invariant of MultiQueue: the constructor establishes it   *)
(* and every step of every operation keeps it, for any number of jobs,     *)
(* priorities and threads.  MultiQueueProofs draws the properties from it. *)
(***************************************************************************)
EXTENDS MultiQueue, TLAPS
USE DEF LockQueue, WakeFirst, LetNextIn, LetNextOut, EraseEntry, LoopEnds

-------------------------------------------------------------------------------
(* The inductive invariant.                                                *)

\* Who owns which lock, by where it is in its operation.
QueueLocks ==
  /\ \A p \in Prios, j \in Jobs :
       pq_mutexes[p] = j <=> job_state[j] = "inserted" /\ PrioOf[j] = p
  /\ \A p \in Prios, t \in Threads :
       pq_mutexes[p] = t <=> deq[t] = "popped" /\ ThreadPrio[t] = p

MapLock ==
  /\ \A j \in Jobs : value_map_mutex = j <=> job_state[j] = "mapping"
  /\ \A t \in Threads : value_map_mutex = t <=> deq[t] = "mapping"

PurgeLock ==
  /\ \A j \in Jobs : j \in shared <=> job_state[j] \in {"inserted", "mapping"}
  /\ \A t \in Threads :
       t \in shared <=> deq[t] \in {"recheck", "pop", "popped", "mapping", "corrupt"}
  /\ exclusive.op # "none" => shared = {}

LockInv == QueueLocks /\ MapLock /\ PurgeLock

Held(j) == \E t \in Threads : popped[t] = j

\* Where each job object is: in a thread's hands, in its queue, in the mapper.
HeldPlace ==
  /\ \A t \in Threads : popped[t] # Nobody <=> deq[t] \in {"popped", "mapping"}
  /\ \A t \in Threads : popped[t] # Nobody =>
       /\ PrioOf[popped[t]] = ThreadPrio[t]
       /\ popped[t] \notin DOMAIN priority_qs
       /\ job_state[popped[t]] \in {"mapping", "queued"}
  /\ \A t, u \in Threads : popped[t] = popped[u] /\ popped[t] # Nobody => t = u

QueuedPlace ==
  /\ \A j \in DOMAIN priority_qs :
       job_state[j] \in {"inserted", "mapping", "queued"}
  /\ \A j \in Jobs : job_state[j] = "inserted" => j \in DOMAIN priority_qs
  /\ \A j \in Jobs : job_state[j] \in {"mapping", "queued"} =>
       j \in DOMAIN priority_qs \/ Held(j)

MappedPlace == \A j \in Jobs : j \in DOMAIN value_mapper <=> job_state[j] = "queued"

PlaceInv == HeldPlace /\ QueuedPlace /\ MappedPlace

\* The nodes ahead of a node are nodes of its list, and any two nodes of a list
\* are ordered. A list is what has one key: a priority, or a job id.
Ordered(l, key) ==
  /\ \A b \in DOMAIN l : \A a \in l[b] : a \in DOMAIN l /\ key[a] = key[b] /\ a # b
  /\ \A a, b \in DOMAIN l : key[a] = key[b] /\ a # b => (a \in l[b] <=> b \notin l[a])

ListInv == Ordered(priority_qs, PrioOf) /\ Ordered(value_mapper, JobIdOf)

SameCopy(a, b) == JobIdOf[a] = JobIdOf[b] /\ PrioOf[a] = PrioOf[b] /\ a # b

\* Copies of a job in one queue are mapped in the order in which they are queued.
MappedAsQueued ==
  \A a, b \in DOMAIN value_mapper :
    SameCopy(a, b) /\ a \in DOMAIN priority_qs /\ b \in DOMAIN priority_qs
      => (a \in value_mapper[b] <=> a \in priority_qs[b])

\* A popped copy is mapped ahead of those still queued, ...
HeldFirst ==
  \A a, b \in DOMAIN value_mapper :
    SameCopy(a, b) /\ Held(a) /\ b \in DOMAIN priority_qs
      => a \in value_mapper[b]

\* ... and of one popped after it.
HeldInOrder ==
  \A t, u \in Threads :
    (/\ deq[t] = "mapping" /\ deq[u] = "popped"
     /\ SameCopy(popped[t], popped[u]) /\ popped[u] \in DOMAIN value_mapper)
      => popped[t] \in value_mapper[popped[u]]

\* A job that is not mapped yet is queued behind those that are, ...
UnmappedLast ==
  \A a, b \in DOMAIN priority_qs :
    (/\ PrioOf[a] = PrioOf[b]
     /\ a \in DOMAIN value_mapper /\ b \notin DOMAIN value_mapper)
      => a \in priority_qs[b]

\* ... is not popped before them, ...
UnmappedNotHeld ==
  \A a \in DOMAIN priority_qs, b \in Jobs :
    PrioOf[a] = PrioOf[b] /\ a \in DOMAIN value_mapper /\ Held(b)
      => b \in DOMAIN value_mapper

\* ... and the owner of the queue's lock is behind the owner of the mapper's.
InsertedLast ==
  \A a, b \in DOMAIN priority_qs :
    (/\ PrioOf[a] = PrioOf[b]
     /\ job_state[a] = "mapping" /\ job_state[b] = "inserted")
      => a \in priority_qs[b]

OrderInv ==
  /\ MappedAsQueued /\ HeldFirst /\ HeldInOrder
  /\ UnmappedLast /\ UnmappedNotHeld /\ InsertedLast

Inv == TypeOK /\ LockInv /\ PlaceInv /\ ListInv /\ OrderInv

-------------------------------------------------------------------------------
\* The constructor establishes the invariant.
LEMMA InitInv == Init => Inv
<1> SUFFICES ASSUME Init PROVE Inv
  OBVIOUS
<1> USE MultiQueueConstants DEF Init
<1>0. DOMAIN priority_qs = {} /\ DOMAIN value_mapper = {} /\ 0 \in Prios
  BY DEF EmptyLists, Prios
<1>1. TypeOK
  <2>1. NoBits \in Word
    BY DEF NoBits, Word
  <2>. QED
    BY <1>0, <2>1 DEF TypeOK, Owners, ExclusiveOps, NoExclusive, Call
<1>2. LockInv
  BY <1>0 DEF LockInv, QueueLocks, MapLock, PurgeLock, NoExclusive, NoBits, Call
<1>3. PlaceInv
  BY <1>0 DEF PlaceInv, HeldPlace, QueuedPlace, MappedPlace
<1>4. ListInv
  BY <1>0 DEF ListInv, Ordered
<1>5. OrderInv
  BY <1>0 DEF OrderInv, MappedAsQueued, HeldFirst, HeldInOrder, UnmappedLast,
      UnmappedNotHeld, InsertedLast
<1>. QED
  BY <1>1, <1>2, <1>3, <1>4, <1>5 DEF Inv

\* A not-empty mutex that is opened, or not, keeps its type.
LEMMA UnlockType ==
  ASSUME not_empty_locked \in [Prios -> BOOLEAN], NEW p \in Prios,
         Unlock(p) \/ UNCHANGED not_empty_locked
  PROVE  not_empty_locked' \in [Prios -> BOOLEAN]
BY Zenon DEF Unlock

\* Every step of every operation keeps the variables in their types.
LEMMA TypeStep == TypeOK /\ [Next]_vars => TypeOK'
<1> SUFFICES ASSUME TypeOK, [Next]_vars PROVE TypeOK'
  OBVIOUS
<1> USE MultiQueueConstants DEF TypeOK, Owners, ExclusiveOps
<1>0. 0 \in Prios /\ NoBits \in Word
  BY DEF Prios, NoBits, Word
<1>1. ASSUME NEW j \in Jobs, EnqueueInsert(j) PROVE TypeOK'
  <2>1. not_empty_locked' \in [Prios -> BOOLEAN]
    BY Zenon, <1>1, UnlockType DEF EnqueueInsert
  <2>. QED
    BY Zenon, <1>1, <2>1 DEF PushBack, EnqueueInsert, Queue, threads
<1>2. ASSUME NEW j \in Jobs, EnqueueLockMap(j) PROVE TypeOK'
  BY <1>2 DEF EnqueueLockMap, lists, flags, threads
<1>3. ASSUME NEW j \in Jobs, EnqueueMap(j) PROVE TypeOK'
  BY <1>3 DEF PushBack, EnqueueMap, Duplicates, flags, threads
<1>4. ASSUME NEW t \in Threads, DequeueCall(t) PROVE TypeOK'
  BY <1>4 DEF DequeueCall, At, Return, locks, flags, lists
<1>5. ASSUME NEW t \in Threads, DequeueLock(t) PROVE TypeOK'
  BY <1>5 DEF DequeueLock, At, locks, lists
<1>6. ASSUME NEW t \in Threads, DequeueTest(t) PROVE TypeOK'
  BY <1>6 DEF DequeueTest, At, locks, flags, lists
<1>7. ASSUME NEW t \in Threads, DequeueClear(t) PROVE TypeOK'
  BY <1>7, <1>0 DEF DequeueClear, Word, At, Return, locks, lists
<1>8. ASSUME NEW t \in Threads, DequeueGuard(t) PROVE TypeOK'
  <2>1. not_empty_locked' \in [Prios -> BOOLEAN]
    BY Zenon, <1>8, UnlockType DEF DequeueGuard
  <2>. QED
    BY <1>8, <2>1 DEF DequeueGuard, Empty, At, Return, lists
<1>8r. ASSUME NEW t \in Threads, DequeueRecheck(t) PROVE TypeOK'
  BY <1>8r DEF DequeueRecheck, At, flags, lists
<1>9. ASSUME NEW t \in Threads, DequeuePop(t) PROVE TypeOK'
  <2>0. Queue(ThreadPrio[t]) \subseteq Jobs
    BY DEF Queue
  <2>1. PICK j \in Queue(ThreadPrio[t]) :
          /\ popped' = [popped EXCEPT ![t] = j]
          /\ priority_qs' = Unlink(priority_qs, {j})
    BY Zenon, <1>9 DEF DequeuePop
  <2>2. not_empty_locked' \in [Prios -> BOOLEAN]
    BY Zenon, <1>9, UnlockType DEF DequeuePop
  <2>3. /\ deq' = [deq EXCEPT ![t] = "popped"]
        /\ pq_mutexes' = [pq_mutexes EXCEPT ![ThreadPrio[t]] = t]
        /\ UNCHANGED <<value_mapper, value_map_mutex, shared, exclusive, released,
                       release_one, job_state, word, result>>
    BY <1>9 DEF DequeuePop, At
  <2>4. /\ DOMAIN priority_qs' \subseteq Jobs
        /\ \A a \in DOMAIN priority_qs' : priority_qs'[a] \subseteq Jobs
    BY <2>1 DEF Unlink
  <2>5. pq_mutexes' \in [Prios -> Owners]
    BY <2>3
  <2>6. popped' \in [Threads -> Jobs \cup {Nobody}]
    BY <2>0, <2>1
  <2>7. deq' \in [Threads -> {"idle", "lock", "test", "clear", "guard", "recheck",
                             "pop", "popped", "mapping", "corrupt"}]
    BY <2>3
  <2>. QED
    BY Zenon, <2>2, <2>3, <2>4, <2>5, <2>6, <2>7
<1>9e. ASSUME NEW t \in Threads, DequeuePopEmpty(t) PROVE TypeOK'
  BY <1>9e DEF DequeuePopEmpty, At, locks, flags, lists
<1>10. ASSUME NEW t \in Threads, DequeueLockMap(t) PROVE TypeOK'
  BY <1>10 DEF DequeueLockMap, At, flags, lists
<1>11. ASSUME NEW t \in Threads, DequeueFind(t) PROVE TypeOK'
  BY <1>11 DEF Unlink, DequeueFind, Copies, Duplicates, Return, flags
<1>12. ASSUME NEW id \in JobIds, Purge(id) PROVE TypeOK'
  BY <1>12 DEF Unlink, Purge, locks, flags, threads
<1>13. ASSUME ReleaseQueues PROVE TypeOK'
  BY <1>13, <1>0 DEF ReleaseQueues, NoExclusive, Call, lists, threads
<1>14. ASSUME ReleaseQueuesLoop PROVE TypeOK'
  <2>1. exclusive.prio # MaxPrio => exclusive.prio + 1 \in Prios
    BY DEF Prios
  <2>2. exclusive' \in [op : ExclusiveOps, prio : Prios, word : Word]
    BY <1>14, <1>0, <2>1 DEF ReleaseQueuesLoop, NoExclusive, Call
  <2>3. not_empty_locked' \in [Prios -> BOOLEAN]
    BY Zenon, <1>14, UnlockType DEF ReleaseQueuesLoop
  <2>. QED
    BY <1>14, <2>2, <2>3 DEF ReleaseQueuesLoop, lists, threads
<1>15. ASSUME NEW p \in ReleaseOnePrios, ReleaseOne(p) PROVE TypeOK'
  BY <1>15 DEF ReleaseOne, Call, flags, lists, threads
<1>16. ASSUME ReleaseOneSet PROVE TypeOK'
  BY <1>16, <1>0 DEF ReleaseOneSet, Word, NoExclusive, Call, lists, threads
<1>17. ASSUME ReleaseOneUnlock PROVE TypeOK'
  <2>1. not_empty_locked' \in [Prios -> BOOLEAN]
    BY Zenon, <1>17, UnlockType DEF ReleaseOneUnlock
  <2>. QED
    BY <1>17, <1>0, <2>1 DEF ReleaseOneUnlock, NoExclusive, Call, lists, threads
<1>18. ASSUME UNCHANGED vars PROVE TypeOK'
  BY <1>18 DEF vars, locks, flags, lists, threads
<1>. QED
  BY Zenon, <1>1, <1>2, <1>3, <1>4, <1>5, <1>6, <1>7, <1>8, <1>8r, <1>9, <1>9e,
     <1>10, <1>11, <1>12, <1>13, <1>14, <1>15, <1>16, <1>17, <1>18
  DEF Next, Enqueue, Dequeue, DequeueInside, ExclusiveStep

\* What the proofs below need of the types.
Shape ==
  /\ DOMAIN priority_qs \subseteq Jobs /\ DOMAIN value_mapper \subseteq Jobs
  /\ DOMAIN job_state = Jobs /\ DOMAIN pq_mutexes = Prios
  /\ DOMAIN deq = Threads /\ DOMAIN popped = Threads
  /\ \A t \in Threads : popped[t] \in Jobs \cup {Nobody}
  /\ \A j \in Jobs : PrioOf[j] \in Prios
  /\ \A t \in Threads : ThreadPrio[t] \in Prios
  /\ Jobs \cap Threads = {} /\ Nobody \notin Jobs /\ Nobody \notin Threads

\* The types and the assumption on the constants give it.
LEMMA HasShape == TypeOK => Shape
BY Zenon, MultiQueueConstants DEF TypeOK, Shape

\* The parts of the invariant, for the steps below to draw on one by one.
Facts ==
  /\ Shape
  /\ QueueLocks /\ MapLock /\ PurgeLock
  /\ HeldPlace /\ QueuedPlace /\ MappedPlace
  /\ ListInv
  /\ MappedAsQueued /\ HeldFirst /\ HeldInOrder
  /\ UnmappedLast /\ UnmappedNotHeld /\ InsertedLast

LEMMA InvFacts == Inv => Facts
BY Zenon, HasShape DEF Inv, LockInv, PlaceInv, OrderInv, Facts

-------------------------------------------------------------------------------
(* Steps that touch neither the lists nor the locks of an operation.       *)

Outside == {"idle", "lock", "test", "clear", "guard"}
Rest == LockInv /\ PlaceInv /\ ListInv /\ OrderInv

Quiet ==
  /\ UNCHANGED <<lists, pq_mutexes, value_map_mutex, shared, job_state, popped>>
  /\ \A t \in Threads :
       deq'[t] = deq[t] \/ (deq[t] \in Outside /\ deq'[t] \in Outside)
  /\ exclusive'.op # "none" => exclusive.op # "none" \/ shared = {}

\* The lists are in order as long as nobody touches them.
LEMMA ListFrame ==
  ASSUME ListInv, UNCHANGED <<priority_qs, value_mapper>>
  PROVE  ListInv'
  BY DEF ListInv

\* What is left of a list when nodes are unlinked is in order, ...
LEMMA UnlinkOrdered ==
  ASSUME NEW l, NEW rest, NEW key, NEW S, Ordered(l, key),
         DOMAIN rest = DOMAIN l \ S,
         \A a \in DOMAIN rest : rest[a] = l[a] \ S
  PROVE  Ordered(rest, key)
  BY DEF Ordered

\* ... and so is a list with a new node at its end.
LEMMA PushOrdered ==
  ASSUME NEW l, NEW longer, NEW key, NEW j, Ordered(l, key),
         j \notin DOMAIN l, DOMAIN longer = DOMAIN l \cup {j},
         longer[j] = {a \in DOMAIN l : key[a] = key[j]},
         \A a \in DOMAIN l : a # j => longer[a] = l[a]
  PROVE  Ordered(longer, key)
  BY DEF Ordered

\* A worker that is about to take the purge lock, and the calls that hold it
\* exclusively without purging, take such steps.
LEMMA QuietSteps ==
  ASSUME TypeOK,
         \/ \E t \in Threads : \/ DequeueCall(t) \/ DequeueLock(t)
                              \/ DequeueTest(t) \/ DequeueClear(t)
         \/ \E p \in ReleaseOnePrios : ReleaseOne(p)
         \/ ReleaseQueues \/ ExclusiveStep \/ UNCHANGED vars
  PROVE  Quiet
<1> USE DEF TypeOK, Quiet, Outside
<1>1. ASSUME NEW t \in Threads,
             \/ DequeueCall(t) \/ DequeueLock(t)
             \/ DequeueTest(t) \/ DequeueClear(t)
      PROVE  Quiet
  <2>1. /\ UNCHANGED <<lists, locks, job_state, popped>>
        /\ deq[t] \in Outside
        /\ \E to \in Outside : deq' = [deq EXCEPT ![t] = to]
    BY <1>1 DEF DequeueCall, DequeueLock, DequeueTest, DequeueClear, At
  <2>. QED
    BY Zenon, <2>1 DEF locks
<1>2. ASSUME NEW p \in ReleaseOnePrios, ReleaseOne(p) PROVE Quiet
  BY <1>2 DEF ReleaseOne, ExclusiveFree, threads
<1>3. ASSUME ReleaseQueues PROVE Quiet
  BY <1>3 DEF ReleaseQueues, ExclusiveFree, threads
<1>4. ASSUME ExclusiveStep PROVE Quiet
  BY <1>4 DEF ExclusiveStep, ReleaseQueuesLoop, ReleaseOneSet, ReleaseOneUnlock,
              threads
<1>5. ASSUME UNCHANGED vars PROVE Quiet
  BY <1>5 DEF vars, locks, threads
<1>. QED
  BY <1>1, <1>2, <1>3, <1>4, <1>5

\* What the lists, the states and the hands say changes with them only.
LEMMA Frame ==
  ASSUME Facts, UNCHANGED <<priority_qs, value_mapper, job_state, popped>>,
         \A t \in Threads : deq'[t] \in {"popped", "mapping"}
                             <=> deq[t] \in {"popped", "mapping"}
  PROVE  /\ PlaceInv' /\ ListInv'
         /\ MappedAsQueued' /\ HeldFirst'
         /\ UnmappedLast' /\ UnmappedNotHeld' /\ InsertedLast'
         /\ (\A t \in Threads : \A at \in {"popped", "mapping"} :
               deq'[t] = at <=> deq[t] = at) => HeldInOrder'
<1> USE DEF Facts
<1>0. \A j : Held(j)' <=> Held(j)
  BY Zenon DEF Held
<1>1. PlaceInv'
  <2>1. HeldPlace'
    BY Zenon DEF HeldPlace
  <2>2. QueuedPlace'
    BY Zenon, <1>0 DEF QueuedPlace
  <2>3. MappedPlace'
    BY Zenon DEF MappedPlace
  <2>. QED
    BY Zenon, <2>1, <2>2, <2>3 DEF PlaceInv
<1>2. ListInv'
  BY Zenon, ListFrame
<1>3. MappedAsQueued' /\ UnmappedLast'
  BY Zenon DEF MappedAsQueued, UnmappedLast, SameCopy
<1>4. HeldFirst'
  BY Zenon, <1>0 DEF HeldFirst, SameCopy
<1>5. UnmappedNotHeld'
  BY Zenon, <1>0 DEF UnmappedNotHeld
<1>6. InsertedLast'
  BY Zenon DEF InsertedLast
<1>7. ASSUME \A t \in Threads : \A at \in {"popped", "mapping"} :
               deq'[t] = at <=> deq[t] = at
      PROVE  HeldInOrder'
  <2>1. \A t \in Threads :
          /\ deq'[t] = "mapping" => deq[t] = "mapping"
          /\ deq'[t] = "popped" => deq[t] = "popped"
    BY Zenon, <1>7
  <2>. QED
    BY Zenon, <2>1 DEF HeldInOrder, SameCopy
<1>. QED
  BY Zenon, <1>1, <1>2, <1>3, <1>4, <1>5, <1>6, <1>7

\* Such steps keep the invariant.
LEMMA QuietKeeps == ASSUME Inv, Quiet PROVE Rest'
<1>0. Facts
  BY Zenon, InvFacts
<1> USE <1>0 DEF Facts, Quiet, lists, Rest
<1>1. \A t \in Threads : \A at \in {"recheck", "pop", "popped", "mapping", "corrupt"} :
        deq'[t] = at <=> deq[t] = at
  BY DEF Outside
<1>2. LockInv'
  <2>1. QueueLocks'
    BY <1>1 DEF QueueLocks
  <2>2. MapLock'
    BY <1>1 DEF MapLock
  <2>3. PurgeLock'
    BY <1>1 DEF PurgeLock
  <2>. QED
    BY Zenon, <2>1, <2>2, <2>3 DEF LockInv
<1>3. /\ PlaceInv' /\ ListInv'
      /\ MappedAsQueued' /\ HeldFirst'
      /\ UnmappedLast' /\ UnmappedNotHeld' /\ InsertedLast' /\ HeldInOrder'
  BY <1>1, Frame
<1>. QED
  BY Zenon, <1>2, <1>3 DEF OrderInv

-------------------------------------------------------------------------------
(* Enqueue.                                                                *)

\* A new node goes behind all nodes of its queue; it is not mapped yet.
LEMMA EnqueueInsertKeeps ==
  ASSUME Inv, NEW j \in Jobs, EnqueueInsert(j) PROVE Rest'
<1>0. Facts
  BY Zenon, InvFacts
<1> USE <1>0 DEF Facts, Rest
<1>1. /\ job_state[j] = "new" /\ exclusive.op = "none"
      /\ pq_mutexes[PrioOf[j]] = Nobody
      /\ shared' = shared \cup {j}
      /\ pq_mutexes' = [pq_mutexes EXCEPT ![PrioOf[j]] = j]
      /\ job_state' = [job_state EXCEPT ![j] = "inserted"]
      /\ UNCHANGED <<value_mapper, value_map_mutex, exclusive, deq, popped>>
  BY DEF EnqueueInsert, threads, Shape
<1>2. /\ DOMAIN priority_qs' = DOMAIN priority_qs \cup {j}
      /\ priority_qs'[j] = {a \in DOMAIN priority_qs : PrioOf[a] = PrioOf[j]}
      /\ \A a \in DOMAIN priority_qs : a # j => priority_qs'[a] = priority_qs[a]
  BY DEF EnqueueInsert, PushBack, Queue, Shape
<1>3. j \notin DOMAIN priority_qs /\ j \notin DOMAIN value_mapper /\ ~Held(j)
  BY <1>1 DEF HeldPlace, QueuedPlace, MappedPlace, Held, Shape
<1>4. \A a : Held(a)' <=> Held(a)
  BY <1>1 DEF Held, Shape
<1>5. LockInv'
  <2>1. QueueLocks'
    BY <1>1 DEF QueueLocks, Shape
  <2>2. MapLock'
    BY <1>1 DEF MapLock, Shape
  <2>3. PurgeLock'
    BY <1>1 DEF PurgeLock, Shape
  <2>. QED
    BY Zenon, <2>1, <2>2, <2>3 DEF LockInv
<1>6. PlaceInv'
  <2>1. HeldPlace'
    BY <1>1, <1>2, <1>3, <1>4 DEF HeldPlace, Shape
  <2>2. QueuedPlace'
    BY <1>1, <1>2, <1>3, <1>4 DEF QueuedPlace, Shape
  <2>3. MappedPlace'
    BY <1>1, <1>2, <1>3, <1>4 DEF MappedPlace, Shape
  <2>. QED
    BY Zenon, <2>1, <2>2, <2>3 DEF PlaceInv
<1>7. ListInv'
  <2>1. Ordered(priority_qs', PrioOf)
    BY Zenon, <1>2, <1>3, PushOrdered DEF ListInv
  <2>2. Ordered(value_mapper', JobIdOf)
    BY Zenon, <1>1 DEF ListInv
  <2>. QED
    BY Zenon, <2>1, <2>2 DEF ListInv
<1>8. OrderInv'
  <2> USE <1>1, <1>2, <1>3 DEF OrderInv, SameCopy
  <2>1. MappedAsQueued'
    BY DEF MappedAsQueued, Shape
  <2>2. HeldFirst'
    BY <1>4 DEF HeldFirst, Shape
  <2>3. HeldInOrder'
    BY DEF HeldInOrder, Shape
  <2>4. UnmappedLast'
    BY DEF UnmappedLast, Shape
  <2>5. UnmappedNotHeld'
    BY <1>4 DEF UnmappedNotHeld, Shape
  <2>6. InsertedLast'
    BY DEF InsertedLast, QueuedPlace, Shape
  <2>. QED
    BY <2>1, <2>2, <2>3, <2>4, <2>5, <2>6
<1>. QED
  BY <1>5, <1>6, <1>7, <1>8

\* Handing the queue's lock over for the mapper's changes no list.
LEMMA EnqueueLockMapKeeps ==
  ASSUME Inv, NEW j \in Jobs, EnqueueLockMap(j) PROVE Rest'
<1>0. Facts
  BY Zenon, InvFacts
<1> USE <1>0 DEF Facts, Rest
<1>1. /\ job_state[j] = "inserted" /\ value_map_mutex = Nobody
      /\ value_map_mutex' = j
      /\ pq_mutexes' = [pq_mutexes EXCEPT ![PrioOf[j]] = Nobody]
      /\ job_state' = [job_state EXCEPT ![j] = "mapping"]
      /\ UNCHANGED <<priority_qs, value_mapper, shared, exclusive, deq, popped>>
  BY DEF EnqueueLockMap, lists, threads, Shape
<1>2. \A a : Held(a)' <=> Held(a)
  BY <1>1 DEF Held, Shape
<1>3. LockInv'
  <2>1. QueueLocks'
    BY <1>1 DEF QueueLocks, Shape
  <2>2. MapLock'
    BY <1>1 DEF MapLock, Shape
  <2>3. PurgeLock'
    BY <1>1 DEF PurgeLock, Shape
  <2>. QED
    BY Zenon, <2>1, <2>2, <2>3 DEF LockInv
<1>4. PlaceInv'
  <2>1. HeldPlace'
    BY <1>1, <1>2 DEF HeldPlace, Shape
  <2>2. QueuedPlace'
    BY <1>1, <1>2 DEF QueuedPlace, Shape
  <2>3. MappedPlace'
    BY <1>1, <1>2 DEF MappedPlace, Shape
  <2>. QED
    BY Zenon, <2>1, <2>2, <2>3 DEF PlaceInv
<1>5. ListInv'
  BY Zenon, <1>1, ListFrame
<1>6. \A b \in Jobs \ {j} : job_state[b] = "inserted" => PrioOf[b] # PrioOf[j]
  BY <1>1 DEF QueueLocks, Shape
<1>7. OrderInv'
  <2> USE <1>1 DEF OrderInv, SameCopy
  <2>1. MappedAsQueued'
    BY DEF MappedAsQueued, Shape
  <2>2. HeldFirst'
    BY <1>2 DEF HeldFirst, Shape
  <2>3. HeldInOrder'
    BY DEF HeldInOrder, Shape
  <2>4. UnmappedLast'
    BY DEF UnmappedLast, Shape
  <2>5. UnmappedNotHeld'
    BY <1>2 DEF UnmappedNotHeld, Shape
  <2>6. InsertedLast'
    BY <1>6 DEF InsertedLast, Shape
  <2>. QED
    BY <2>1, <2>2, <2>3, <2>4, <2>5, <2>6
<1>. QED
  BY <1>3, <1>4, <1>5, <1>7

\* The owner of the mapper's lock is queued behind every mapped job of its
\* priority, and popped before none of them, so it may go to the end.
LEMMA EnqueueMapKeeps ==
  ASSUME Inv, NEW j \in Jobs, EnqueueMap(j) PROVE Rest'
<1>0. Facts
  BY Zenon, InvFacts
<1> USE <1>0 DEF Facts, Rest
<1>1. /\ job_state[j] = "mapping"
      /\ value_map_mutex' = Nobody
      /\ shared' = shared \ {j}
      /\ job_state' = [job_state EXCEPT ![j] = "queued"]
      /\ UNCHANGED <<priority_qs, pq_mutexes, exclusive, deq, popped>>
  BY DEF EnqueueMap, threads, Shape
<1>2. /\ DOMAIN value_mapper' = DOMAIN value_mapper \cup {j}
      /\ value_mapper'[j] = {a \in DOMAIN value_mapper : JobIdOf[a] = JobIdOf[j]}
      /\ \A a \in DOMAIN value_mapper : a # j => value_mapper'[a] = value_mapper[a]
  BY Zenon DEF EnqueueMap, PushBack, Duplicates
<1>3. /\ j \notin DOMAIN value_mapper /\ value_map_mutex = j
      /\ \A t \in Threads : deq[t] # "mapping"
  BY <1>1 DEF MappedPlace, MapLock, Shape
<1>4. \A a : Held(a)' <=> Held(a)
  BY Zenon, <1>1 DEF Held
<1>5. LockInv'
  <2>1. QueueLocks'
    BY <1>1, <1>3 DEF QueueLocks, Shape
  <2>2. MapLock'
    BY <1>1, <1>3 DEF MapLock, Shape
  <2>3. PurgeLock'
    BY <1>1, <1>3 DEF PurgeLock, Shape
  <2>. QED
    BY Zenon, <2>1, <2>2, <2>3 DEF LockInv
<1>6. PlaceInv'
  <2>1. HeldPlace'
    BY <1>1, <1>2, <1>3, <1>4 DEF HeldPlace, Shape
  <2>2. QueuedPlace'
    BY <1>1, <1>2, <1>3, <1>4 DEF QueuedPlace, Shape
  <2>3. MappedPlace'
    BY <1>1, <1>2, <1>3, <1>4 DEF MappedPlace, Shape
  <2>. QED
    BY Zenon, <2>1, <2>2, <2>3 DEF PlaceInv
<1>7. ListInv'
  <2>1. Ordered(priority_qs', PrioOf)
    BY Zenon, <1>1 DEF ListInv
  <2>2. Ordered(value_mapper', JobIdOf)
    BY Zenon, <1>2, <1>3, PushOrdered DEF ListInv
  <2>. QED
    BY Zenon, <2>1, <2>2 DEF ListInv
<1>8. \A b \in Jobs : job_state[b] = "mapping" => b = j
  BY <1>3 DEF MapLock, Shape
<1>9. OrderInv'
  <2> USE <1>1, <1>2, <1>3, <1>4 DEF OrderInv, SameCopy
  <2>1. MappedAsQueued'
    BY DEF MappedAsQueued, UnmappedLast, ListInv, Ordered, Shape
  <2>2. HeldFirst'
    BY DEF HeldFirst, UnmappedNotHeld, Shape
  <2>3. HeldInOrder'
    BY Zenon DEF HeldInOrder
  <2>4. UnmappedLast'
    BY Zenon, <1>8 DEF UnmappedLast, InsertedLast, QueuedPlace, MappedPlace, Shape
  <2>5. UnmappedNotHeld'
    <3>1. ASSUME NEW b \in Jobs, Held(b)
          PROVE  b \in DOMAIN value_mapper \/ job_state[b] = "mapping"
      BY <3>1 DEF HeldPlace, MappedPlace, Held, Shape
    <3>. QED
      BY Zenon, <1>8, <3>1 DEF UnmappedNotHeld
  <2>6. InsertedLast'
    BY Zenon, <1>8 DEF InsertedLast, Shape
  <2>. QED
    BY Zenon, <2>1, <2>2, <2>3, <2>4, <2>5, <2>6
<1>. QED
  BY <1>5, <1>6, <1>7, <1>9

-------------------------------------------------------------------------------
USE DEF LockQueue, WakeFirst, LetNextIn, LetNextOut, EraseEntry, LoopEnds

-------------------------------------------------------------------------------
(* Dequeue.                                                                *)

\* Leaving the loop with an item adds a shared owner of the purge lock.
LEMMA DequeueGuardKeeps ==
  ASSUME Inv, NEW t \in Threads, DequeueGuard(t) PROVE Rest'
<1>0. Facts
  BY Zenon, InvFacts
<1> USE <1>0 DEF Facts, Rest
<1>1. CASE shared' = shared \cup {t} /\ deq' = [deq EXCEPT ![t] = "recheck"]
  <2>1. /\ deq[t] = "guard" /\ exclusive.op = "none"
        /\ UNCHANGED <<priority_qs, value_mapper, pq_mutexes, value_map_mutex,
                       exclusive, job_state, popped>>
    BY Zenon DEF DequeueGuard, Empty, At, lists
  <2>2. deq'[t] = "recheck" /\ \A u \in Threads \ {t} : deq'[u] = deq[u]
    BY Zenon, <1>1 DEF Shape
  <2>3. LockInv'
    <3>1. QueueLocks'
      BY <1>1, <2>1 DEF QueueLocks, Shape
    <3>2. MapLock'
      BY <1>1, <2>1 DEF MapLock, Shape
    <3>3. PurgeLock'
      BY <1>1, <2>1 DEF PurgeLock, Shape
    <3>. QED
      BY Zenon, <3>1, <3>2, <3>3 DEF LockInv
  <2>4. /\ PlaceInv' /\ ListInv'
        /\ MappedAsQueued' /\ HeldFirst'
        /\ UnmappedLast' /\ UnmappedNotHeld' /\ InsertedLast' /\ HeldInOrder'
    BY <2>1, <2>2, Frame
  <2>. QED
    BY Zenon, <2>3, <2>4 DEF OrderInv
<1>2. CASE ~(shared' = shared \cup {t} /\ deq' = [deq EXCEPT ![t] = "recheck"])
  <2>1. /\ deq[t] = "guard"
        /\ deq' = [deq EXCEPT ![t] = "idle"]
        /\ UNCHANGED <<lists, pq_mutexes, value_map_mutex, shared, exclusive,
                       job_state, popped>>
    BY Zenon, <1>2 DEF DequeueGuard, Empty, At
  <2>2. Quiet
    BY Zenon, <2>1 DEF Quiet, Outside, Shape
  <2>. QED
    BY Zenon, <2>2, QuietKeeps
<1>. QED
  BY <1>1, <1>2

\* The second look goes back to the blocking lock, as one shared owner less, or on
\* to the pop.
LEMMA DequeueRecheckKeeps ==
  ASSUME Inv, NEW t \in Threads, DequeueRecheck(t) PROVE Rest'
<1>0. Facts
  BY Zenon, InvFacts
<1> USE <1>0 DEF Facts, Rest
<1>1. PICK to \in {"lock", "pop"} :
        /\ deq' = [deq EXCEPT ![t] = to]
        /\ shared' = IF to = "lock" THEN shared \ {t} ELSE shared
  BY Zenon DEF DequeueRecheck, At
<1>2. /\ deq[t] = "recheck"
      /\ UNCHANGED <<priority_qs, value_mapper, pq_mutexes, value_map_mutex,
                     exclusive, job_state, popped>>
  BY Zenon DEF DequeueRecheck, At, lists
<1>3. deq'[t] = to /\ \A u \in Threads \ {t} : deq'[u] = deq[u]
  BY Zenon, <1>1 DEF Shape
<1>4. LockInv'
  <2>1. QueueLocks'
    BY <1>1, <1>2, <1>3 DEF QueueLocks, Shape
  <2>2. MapLock'
    BY <1>1, <1>2, <1>3 DEF MapLock, Shape
  <2>3. PurgeLock'
    BY <1>1, <1>2, <1>3 DEF PurgeLock, Shape
  <2>. QED
    BY Zenon, <2>1, <2>2, <2>3 DEF LockInv
<1>5. /\ PlaceInv' /\ ListInv'
      /\ MappedAsQueued' /\ HeldFirst'
      /\ UnmappedLast' /\ UnmappedNotHeld' /\ InsertedLast' /\ HeldInOrder'
  <2>1. \A u \in Threads : \A at \in {"popped", "mapping"} :
          deq'[u] = at <=> deq[u] = at
    BY <1>2, <1>3
  <2>. QED
    BY <1>2, <2>1, Frame
<1>. QED
  BY Zenon, <1>4, <1>5 DEF OrderInv

\* A pop takes the first node; the lock of the queue keeps other pops and every
\* unmapped job of this priority but the owner of the mapper's lock away.
LEMMA DequeuePopKeeps ==
  ASSUME Inv, NEW t \in Threads, DequeuePop(t) PROVE Rest'
<1>0. Facts
  BY Zenon, InvFacts
<1> USE <1>0 DEF Facts, Rest
<1>1. PICK j \in Queue(ThreadPrio[t]) :
        /\ IsFirst(priority_qs, j, Queue(ThreadPrio[t]))
        /\ popped' = [popped EXCEPT ![t] = j]
        /\ priority_qs' = Unlink(priority_qs, {j})
  BY Zenon DEF DequeuePop
<1>2. /\ deq[t] = "pop" /\ deq' = [deq EXCEPT ![t] = "popped"]
      /\ pq_mutexes[ThreadPrio[t]] = Nobody
      /\ pq_mutexes' = [pq_mutexes EXCEPT ![ThreadPrio[t]] = t]
      /\ UNCHANGED <<value_mapper, value_map_mutex, shared, exclusive, job_state>>
  BY Zenon DEF DequeuePop, At
<1>3. /\ j \in Jobs /\ j \in DOMAIN priority_qs /\ PrioOf[j] = ThreadPrio[t]
      /\ \A a \in DOMAIN priority_qs :
           PrioOf[a] = PrioOf[j] /\ a # j
             => j \in priority_qs[a] /\ a \notin priority_qs[j]
  BY Zenon, <1>1 DEF IsFirst, Queue, ListInv, Ordered, Shape
<1>4. /\ DOMAIN priority_qs' = DOMAIN priority_qs \ {j}
      /\ \A a \in DOMAIN priority_qs' : priority_qs'[a] = priority_qs[a] \ {j}
      /\ \A a, b \in DOMAIN priority_qs' :
           a \in priority_qs'[b] <=> a \in priority_qs[b]
  BY Zenon, <1>1 DEF Unlink
<1>a. /\ deq'[t] = "popped" /\ popped'[t] = j
      /\ \A u \in Threads \ {t} : popped'[u] = popped[u] /\ deq'[u] = deq[u]
  BY Zenon, <1>1, <1>2 DEF Shape
<1>5. /\ popped[t] = Nobody /\ ~Held(j)
      /\ \A a \in Jobs : Held(a)' <=> Held(a) \/ a = j
  <2>1. popped[t] = Nobody
    BY Zenon, <1>2 DEF HeldPlace
  <2>2. ~Held(j)
    <3>1. j # Nobody
      BY Zenon, <1>3 DEF Shape
    <3>2. \A u \in Threads : popped[u] # Nobody => popped[u] \notin DOMAIN priority_qs
      BY Zenon DEF HeldPlace
    <3>. QED
      BY Zenon, <1>3, <3>1, <3>2 DEF Held
  <2>3. \A a \in Jobs : a # Nobody
    BY Zenon DEF Shape
  <2>. QED
    BY Zenon, <1>a, <2>1, <2>2, <2>3 DEF Held
<1>6. /\ job_state[j] \in {"mapping", "queued"}
      /\ \A u \in Threads : deq[u] = "popped" => ThreadPrio[u] # ThreadPrio[t]
  <2>1. /\ ThreadPrio[t] \in Prios /\ Nobody # j /\ \A u \in Threads : Nobody # u
    BY Zenon, <1>3 DEF Shape
  <2>2. job_state[j] # "inserted"
    BY <1>2, <1>3, <2>1 DEF QueueLocks
  <2>3. job_state[j] \in {"mapping", "queued"}
    BY <1>3, <2>2 DEF QueuedPlace
  <2>4. \A u \in Threads : deq[u] = "popped" => ThreadPrio[u] # ThreadPrio[t]
    BY <1>2, <2>1 DEF QueueLocks
  <2>. QED
    BY Zenon, <2>3, <2>4
<1>7. LockInv'
  <2>1. QueueLocks'
    BY <1>2 DEF QueueLocks, Shape
  <2>2. MapLock'
    BY <1>2 DEF MapLock, Shape
  <2>3. PurgeLock'
    BY <1>2 DEF PurgeLock, Shape
  <2>. QED
    BY Zenon, <2>1, <2>2, <2>3 DEF LockInv
<1>8. PlaceInv'
  <2>1. HeldPlace'
    <3>1. \A u \in Threads : popped[u] # j
      BY <1>5 DEF Held
    <3>. QED
      BY <1>2, <1>3, <1>4, <1>6, <1>a, <3>1 DEF HeldPlace, Shape
  <2>2. QueuedPlace'
    <3>1. job_state' = job_state
      BY <1>2
    <3>. QED
      BY <1>3, <1>4, <1>5, <1>6, <3>1 DEF QueuedPlace
  <2>3. MappedPlace'
    BY <1>2 DEF MappedPlace, Shape
  <2>. QED
    BY Zenon, <2>1, <2>2, <2>3 DEF PlaceInv
<1>9. ListInv'
  <2>1. Ordered(priority_qs', PrioOf)
    BY Zenon, <1>4, UnlinkOrdered DEF ListInv
  <2>2. Ordered(value_mapper', JobIdOf)
    BY Zenon, <1>2 DEF ListInv
  <2>. QED
    BY Zenon, <2>1, <2>2 DEF ListInv
<1>10. OrderInv'
  <2> USE <1>2, <1>4 DEF SameCopy
  <2>1. MappedAsQueued'
    BY Zenon DEF MappedAsQueued
  <2>2. HeldFirst'
    <3>1. ASSUME NEW a \in DOMAIN value_mapper, NEW b \in DOMAIN value_mapper,
                 SameCopy(a, b), Held(a)', b \in DOMAIN priority_qs, b # j
          PROVE  a \in value_mapper[b]
      <4>1. CASE Held(a)
        BY Zenon, <3>1, <4>1 DEF HeldFirst
      <4>2. CASE a = j
        BY Zenon, <1>3, <3>1, <4>2 DEF MappedAsQueued
      <4>3. a \in Jobs
        BY Zenon DEF Shape
      <4>. QED
        BY Zenon, <1>5, <3>1, <4>1, <4>2, <4>3
    <3>2. value_mapper' = value_mapper /\ DOMAIN priority_qs' = DOMAIN priority_qs \ {j}
      BY Zenon
    <3>. QED
      BY Zenon, <3>1, <3>2 DEF HeldFirst
  <2>3. HeldInOrder'
    <3>0. ASSUME NEW a \in Threads, deq[a] = "mapping"
          PROVE  popped[a] \in DOMAIN value_mapper /\ Held(popped[a])
      <4>1. /\ popped[a] # Nobody /\ popped[a] \in Jobs
            /\ job_state[popped[a]] \in {"mapping", "queued"}
        BY Zenon, <3>0 DEF HeldPlace, Shape
      <4>2. job_state[popped[a]] # "mapping"
        BY <3>0, <4>1 DEF MapLock, Shape
      <4>. QED
        BY Zenon, <4>1, <4>2 DEF MappedPlace, Held
    <3>1. ASSUME NEW a \in Threads, NEW b \in Threads, deq'[a] = "mapping",
                 deq'[b] = "popped", SameCopy(popped'[a], popped'[b]),
                 popped'[b] \in DOMAIN value_mapper
          PROVE  popped'[a] \in value_mapper[popped'[b]]
      <4>1. a # t /\ deq[a] = "mapping" /\ popped'[a] = popped[a]
        BY Zenon, <1>1, <3>1 DEF Shape
      <4>2. CASE b = t
        BY Zenon, <1>3, <1>a, <3>0, <3>1, <4>1, <4>2 DEF HeldFirst
      <4>3. CASE b # t
        BY Zenon, <1>1, <3>1, <4>1, <4>3 DEF HeldInOrder, Shape
      <4>. QED
        BY Zenon, <4>2, <4>3
    <3>. QED
      BY Zenon, <3>1 DEF HeldInOrder
  <2>4. UnmappedLast'
    BY DEF UnmappedLast, Shape
  <2>5. UnmappedNotHeld'
    BY <1>3, <1>5 DEF UnmappedNotHeld, UnmappedLast, Shape
  <2>6. InsertedLast'
    BY DEF InsertedLast, Shape
  <2>. QED
    BY Zenon, <2>1, <2>2, <2>3, <2>4, <2>5, <2>6 DEF OrderInv
<1>. QED
  BY <1>7, <1>8, <1>9, <1>10

\* Undefined behaviour is modelled as a thread that stops.
LEMMA DequeuePopEmptyKeeps ==
  ASSUME Inv, NEW t \in Threads, DequeuePopEmpty(t) PROVE Rest'
<1>0. Facts
  BY Zenon, InvFacts
<1> USE <1>0 DEF Facts, Rest
<1>1. /\ deq[t] = "pop" /\ deq' = [deq EXCEPT ![t] = "corrupt"]
      /\ UNCHANGED <<priority_qs, value_mapper, pq_mutexes, value_map_mutex,
                     shared, exclusive, job_state, popped>>
  BY Zenon DEF DequeuePopEmpty, At, locks, lists
<1>2. deq'[t] = "corrupt" /\ \A u \in Threads \ {t} : deq'[u] = deq[u]
  BY Zenon, <1>1 DEF Shape
<1>3. LockInv'
  <2>1. QueueLocks'
    BY <1>1 DEF QueueLocks, Shape
  <2>2. MapLock'
    BY <1>1 DEF MapLock, Shape
  <2>3. PurgeLock'
    BY <1>1 DEF PurgeLock, Shape
  <2>. QED
    BY Zenon, <2>1, <2>2, <2>3 DEF LockInv
<1>4. /\ PlaceInv' /\ ListInv'
      /\ MappedAsQueued' /\ HeldFirst'
      /\ UnmappedLast' /\ UnmappedNotHeld' /\ InsertedLast' /\ HeldInOrder'
  BY <1>1, <1>2, Frame
<1>. QED
  BY Zenon, <1>3, <1>4 DEF OrderInv

\* The owner of the queue's lock is the last to have popped from it.
LEMMA DequeueLockMapKeeps ==
  ASSUME Inv, NEW t \in Threads, DequeueLockMap(t) PROVE Rest'
<1>0. Facts
  BY Zenon, InvFacts
<1> USE <1>0 DEF Facts, Rest
<1>1. /\ deq[t] = "popped" /\ deq' = [deq EXCEPT ![t] = "mapping"]
      /\ value_map_mutex = Nobody /\ value_map_mutex' = t
      /\ pq_mutexes' = [pq_mutexes EXCEPT ![ThreadPrio[t]] = Nobody]
      /\ UNCHANGED <<priority_qs, value_mapper, shared, exclusive, job_state,
                     popped>>
  BY Zenon DEF DequeueLockMap, At, lists
<1>2. /\ deq'[t] = "mapping" /\ \A u \in Threads \ {t} : deq'[u] = deq[u]
      /\ pq_mutexes'[ThreadPrio[t]] = Nobody
      /\ \A p \in Prios \ {ThreadPrio[t]} : pq_mutexes'[p] = pq_mutexes[p]
  BY Zenon, <1>1 DEF Shape
<1>3. LockInv'
  <2>1. QueueLocks'
    <3>1. /\ pq_mutexes[ThreadPrio[t]] = t
          /\ \A u \in Threads \ {t} : deq[u] = "popped" => ThreadPrio[u] # ThreadPrio[t]
          /\ \A j \in Jobs : job_state[j] = "inserted" => PrioOf[j] # ThreadPrio[t]
      BY <1>1 DEF QueueLocks, Shape
    <3>2. Nobody \notin Jobs /\ Nobody \notin Threads
      BY Zenon DEF Shape
    <3>. QED
      BY <1>1, <1>2, <3>1, <3>2 DEF QueueLocks
  <2>2. MapLock'
    BY <1>1 DEF MapLock, Shape
  <2>3. PurgeLock'
    BY <1>1 DEF PurgeLock, Shape
  <2>. QED
    BY Zenon, <2>1, <2>2, <2>3 DEF LockInv
<1>4. /\ PlaceInv' /\ ListInv'
      /\ MappedAsQueued' /\ HeldFirst'
      /\ UnmappedLast' /\ UnmappedNotHeld' /\ InsertedLast'
  BY <1>1, <1>2, Frame
<1>6. /\ \A u \in Threads : deq[u] # "mapping"
      /\ \A u \in Threads \ {t} :
           deq[u] = "popped" => ThreadPrio[u] # ThreadPrio[t]
  BY <1>1 DEF QueueLocks, MapLock, Shape
<1>7. HeldInOrder'
  BY <1>1, <1>6 DEF HeldInOrder, SameCopy, HeldPlace, Shape
<1>. QED
  BY Zenon, <1>3, <1>4, <1>7 DEF OrderInv

\* The owner of the mapper's lock finds what it popped: every other copy is
\* still queued, or was popped later, and so is mapped behind it.
LEMMA FoundIsPopped ==
  ASSUME Inv, NEW t \in Threads, deq[t] = "mapping"
  PROVE  LET copies == Copies(JobIdOf[popped[t]], ThreadPrio[t])
         IN  /\ popped[t] \in Jobs
             /\ IsFirst(value_mapper, popped[t], copies)
             /\ \A j \in copies : IsFirst(value_mapper, j, copies) => j = popped[t]
<1> DEFINE x == popped[t]
           copies == Copies(JobIdOf[x], ThreadPrio[t])
<1>0. Facts
  BY Zenon, InvFacts
<1> USE <1>0 DEF Facts
<1>1. /\ x \in Jobs /\ PrioOf[x] = ThreadPrio[t] /\ Held(x)
      /\ x \in DOMAIN value_mapper
  <2>1. x # Nobody
    BY Zenon DEF HeldPlace
  <2>2. job_state[x] # "mapping"
    BY <2>1 DEF MapLock, Shape
  <2>. QED
    BY Zenon, <2>1, <2>2 DEF HeldPlace, MappedPlace, Held, Shape
<1>2. x \in copies /\ \A j \in copies : j \in DOMAIN value_mapper
                       /\ JobIdOf[j] = JobIdOf[x] /\ PrioOf[j] = PrioOf[x]
  BY <1>1 DEF Copies, Duplicates, Shape
<1>3. ASSUME NEW j \in copies, j # x PROVE x \in value_mapper[j]
  <2>1. CASE j \in DOMAIN priority_qs
    BY <1>1, <1>2, <1>3, <2>1 DEF OrderInv, HeldFirst, SameCopy, Shape
  <2>2. CASE j \notin DOMAIN priority_qs
    <3>1. PICK u \in Threads : popped[u] = j
      BY Zenon, <1>2, <2>2 DEF QueuedPlace, MappedPlace, Held, Shape
    <3>2. deq[u] = "popped"
      <4>1. j # Nobody /\ u # t
        BY Zenon, <1>2, <1>3, <3>1 DEF Shape
      <4>. QED
        BY <3>1, <4>1 DEF HeldPlace, MapLock, Shape
    <3>. QED
      BY <1>2, <1>3, <3>1, <3>2 DEF OrderInv, HeldInOrder, SameCopy, Shape
  <2>. QED
    BY <2>1, <2>2
<1>4. \A j \in copies : j \notin value_mapper[x]
  BY Zenon, <1>2, <1>3 DEF ListInv, Ordered
<1>. QED
  BY Zenon, <1>1, <1>2, <1>3, <1>4 DEF IsFirst

\* The entry that leaves the mapper is the one whose node left the queue.
LEMMA DequeueFindKeeps ==
  ASSUME Inv, NEW t \in Threads, DequeueFind(t) PROVE Rest'
<1> DEFINE x == popped[t]
<1>0. Facts
  BY Zenon, InvFacts
<1> USE <1>0 DEF Facts, Rest
<1>1. /\ deq[t] = "mapping" /\ deq' = [deq EXCEPT ![t] = "idle"]
      /\ popped' = [popped EXCEPT ![t] = Nobody]
      /\ value_map_mutex' = Nobody
      /\ shared' = shared \ {t}
      /\ UNCHANGED <<priority_qs, pq_mutexes, exclusive>>
  BY DEF DequeueFind, Shape
<1>2. /\ x \in Jobs
      /\ value_mapper' = Unlink(value_mapper, {x})
      /\ job_state' = [job_state EXCEPT ![x] = "returned"]
  BY Zenon, <1>1, FoundIsPopped DEF DequeueFind
<1>3. /\ DOMAIN value_mapper' = DOMAIN value_mapper \ {x}
      /\ \A a \in DOMAIN value_mapper' : value_mapper'[a] = value_mapper[a] \ {x}
      /\ \A a, b \in DOMAIN value_mapper' :
           a \in value_mapper'[b] <=> a \in value_mapper[b]
  BY Zenon, <1>2 DEF Unlink
<1>4. /\ x # Nobody /\ x \notin DOMAIN priority_qs
      /\ value_map_mutex = t
      /\ \A u \in Threads \ {t} : popped[u] # x /\ deq[u] # "mapping"
      /\ \A j \in Jobs : job_state[j] # "mapping"
      /\ job_state[x] = "queued"
  <2>1. value_map_mutex = t
    BY Zenon, <1>1 DEF MapLock
  <2>2. /\ \A u \in Threads \ {t} : deq[u] # "mapping"
        /\ \A j \in Jobs : job_state[j] # "mapping"
    BY <2>1 DEF MapLock, Shape
  <2>3. /\ x # Nobody /\ x \notin DOMAIN priority_qs
        /\ job_state[x] \in {"mapping", "queued"}
        /\ \A u \in Threads \ {t} : popped[u] # x
    BY <1>1 DEF HeldPlace
  <2>. QED
    BY <1>2, <2>1, <2>2, <2>3
<1>5. \A a \in Jobs : Held(a)' <=> Held(a) /\ a # x
  BY Zenon, <1>1, <1>2, <1>4 DEF Held, Shape
<1> HIDE DEF x
<1>6. LockInv'
  <2>1. QueueLocks'
    BY <1>1, <1>2, <1>4 DEF QueueLocks, Shape
  <2>2. MapLock'
    BY <1>1, <1>2, <1>4 DEF MapLock, Shape
  <2>3. PurgeLock'
    BY <1>1, <1>2, <1>4 DEF PurgeLock, Shape
  <2>. QED
    BY Zenon, <2>1, <2>2, <2>3 DEF LockInv
<1>7. PlaceInv'
  <2>0. /\ popped'[t] = Nobody /\ deq'[t] = "idle"
        /\ \A u \in Threads \ {t} : popped'[u] = popped[u] /\ deq'[u] = deq[u]
        /\ job_state'[x] = "returned"
        /\ \A a \in Jobs \ {x} : job_state'[a] = job_state[a]
    BY Zenon, <1>1, <1>2 DEF Shape
  <2>a. /\ priority_qs' = priority_qs /\ x \notin DOMAIN priority_qs
        /\ DOMAIN priority_qs \subseteq Jobs
        /\ \A u \in Threads \ {t} : popped[u] # x
        /\ \A u \in Threads : popped[u] # Nobody => popped[u] \in Jobs
    BY <1>1, <1>4 DEF Shape
  <2>1. HeldPlace'
    <3>1. ASSUME NEW u \in Threads, popped'[u] # Nobody
          PROVE  /\ u # t /\ popped'[u] = popped[u]
                 /\ job_state'[popped[u]] = job_state[popped[u]]
      BY <2>0, <2>a, <3>1
    <3>. QED
      BY <2>0, <2>a, <3>1 DEF HeldPlace
  <2>2. QueuedPlace'
    BY <1>5, <2>0, <2>a DEF QueuedPlace
  <2>3. MappedPlace'
    BY <1>3, <2>0 DEF MappedPlace
  <2>. QED
    BY Zenon, <2>1, <2>2, <2>3 DEF PlaceInv
<1>8. ListInv'
  <2>1. Ordered(priority_qs', PrioOf)
    BY Zenon, <1>1 DEF ListInv
  <2>2. Ordered(value_mapper', JobIdOf)
    BY Zenon, <1>3, UnlinkOrdered DEF ListInv
  <2>. QED
    BY Zenon, <2>1, <2>2 DEF ListInv
<1>9. OrderInv'
  <2> USE <1>1, <1>3 DEF OrderInv, SameCopy
  <2>1. MappedAsQueued'
    BY Zenon DEF MappedAsQueued
  <2>2. HeldFirst'
    BY Zenon, <1>5 DEF HeldFirst, Shape
  <2>3. HeldInOrder'
    BY Zenon, <1>4 DEF HeldInOrder, Shape
  <2>4. UnmappedLast'
    BY Zenon, <1>4 DEF UnmappedLast
  <2>5. UnmappedNotHeld'
    BY Zenon, <1>4, <1>5 DEF UnmappedNotHeld
  <2>6. InsertedLast'
    BY <1>2, <1>4 DEF InsertedLast, Shape
  <2>. QED
    BY Zenon, <2>1, <2>2, <2>3, <2>4, <2>5, <2>6
<1>. QED
  BY <1>6, <1>7, <1>8, <1>9

-------------------------------------------------------------------------------
(* Purge.                                                                  *)

\* Under the exclusive lock nothing is on its way in or out.
LEMMA NothingInFlight ==
  ASSUME Inv, ExclusiveFree
  PROVE  /\ \A j \in Jobs : job_state[j] \notin {"inserted", "mapping"} /\ ~Held(j)
         /\ \A t \in Threads : deq[t] \notin {"recheck", "pop", "popped", "mapping", "corrupt"}
         /\ DOMAIN value_mapper = DOMAIN priority_qs
<1>0. Facts
  BY Zenon, InvFacts
<1> USE <1>0 DEF Facts
<1>1. /\ \A j \in Jobs : job_state[j] \notin {"inserted", "mapping"}
      /\ \A t \in Threads : deq[t] \notin {"recheck", "pop", "popped", "mapping", "corrupt"}
  BY Zenon DEF ExclusiveFree, PurgeLock
<1>2. \A j \in Jobs : ~Held(j)
  BY Zenon, <1>1 DEF HeldPlace, Held, Shape
<1>3. DOMAIN value_mapper = DOMAIN priority_qs
  BY Zenon, <1>1, <1>2 DEF QueuedPlace, MappedPlace, Shape
<1>. QED
  BY <1>1, <1>2, <1>3

\* A purge unlinks the same jobs from the queues and from the mapper.
LEMMA PurgeKeeps ==
  ASSUME Inv, NEW id \in JobIds, Purge(id) PROVE Rest'
<1> DEFINE S == Duplicates(id)
<1>0. Facts
  BY Zenon, InvFacts
<1> USE <1>0 DEF Facts, Rest
<1>1. /\ ExclusiveFree
      /\ job_state' = [j \in Jobs |-> IF j \in S THEN "purged" ELSE job_state[j]]
      /\ UNCHANGED <<pq_mutexes, value_map_mutex, shared, exclusive, deq, popped>>
  BY Zenon DEF Purge, locks, threads
<1>2. /\ DOMAIN priority_qs' = DOMAIN priority_qs \ S
      /\ \A a \in DOMAIN priority_qs' : priority_qs'[a] = priority_qs[a] \ S
      /\ \A a, b \in DOMAIN priority_qs' :
           a \in priority_qs'[b] <=> a \in priority_qs[b]
      /\ DOMAIN value_mapper' = DOMAIN value_mapper \ S
      /\ \A a \in DOMAIN value_mapper' : value_mapper'[a] = value_mapper[a] \ S
      /\ \A a, b \in DOMAIN value_mapper' :
           a \in value_mapper'[b] <=> a \in value_mapper[b]
  BY Zenon DEF Purge, Unlink
<1>3. /\ S \subseteq DOMAIN value_mapper
      /\ \A j \in S : job_state[j] = "queued"
  BY Zenon DEF Duplicates, MappedPlace, Shape
<1>b. /\ \A j \in Jobs : job_state[j] \notin {"inserted", "mapping"} /\ ~Held(j)
      /\ \A t \in Threads : deq[t] \notin {"recheck", "pop", "popped", "mapping", "corrupt"}
      /\ DOMAIN value_mapper = DOMAIN priority_qs
  BY <1>1, NothingInFlight
<1>4. \A a \in Jobs : ~Held(a) /\ ~Held(a)'
  <2>1. popped' = popped
    BY <1>1
  <2>. QED
    BY Zenon, <1>b, <2>1 DEF Held
<1>a. \A j \in Jobs : /\ job_state'[j] = "inserted" <=> job_state[j] = "inserted"
                      /\ job_state'[j] = "mapping" <=> job_state[j] = "mapping"
  BY Zenon, <1>1, <1>3
<1>5. LockInv'
  <2>1. QueueLocks'
    BY <1>1, <1>a DEF QueueLocks
  <2>2. MapLock'
    BY <1>1, <1>a DEF MapLock
  <2>3. PurgeLock'
    BY <1>1, <1>a DEF PurgeLock
  <2>. QED
    BY Zenon, <2>1, <2>2, <2>3 DEF LockInv
<1>6. PlaceInv'
  <2>0. popped' = popped /\ deq' = deq
    BY <1>1
  <2>1. HeldPlace'
    <3>1. \A u \in Threads : popped[u] = Nobody /\ deq[u] \notin {"popped", "mapping"}
      BY Zenon, <1>b DEF HeldPlace
    <3>. QED
      BY Zenon, <2>0, <3>1 DEF HeldPlace
  <2>2. \A j \in Jobs : /\ j \in S => job_state'[j] = "purged"
                        /\ j \notin S => job_state'[j] = job_state[j]
    BY Zenon, <1>1
  <2>3. QueuedPlace'
    <3>1. ASSUME NEW j \in DOMAIN priority_qs'
          PROVE  job_state'[j] \in {"inserted", "mapping", "queued"}
      <4>1. j \in DOMAIN priority_qs /\ j \in Jobs /\ j \notin S
        BY Zenon, <1>2, <3>1 DEF Shape
      <4>. QED
        BY Zenon, <2>2, <4>1 DEF QueuedPlace
    <3>2. ASSUME NEW j \in Jobs, job_state'[j] \in {"inserted", "mapping", "queued"}
          PROVE  j \in DOMAIN priority_qs'
      <4>1. j \notin S /\ job_state[j] \in {"inserted", "mapping", "queued"}
        BY <2>2, <3>2
      <4>2. j \in DOMAIN priority_qs
        BY <1>b, <4>1 DEF QueuedPlace
      <4>. QED
        BY Zenon, <1>2, <4>1, <4>2
    <3>. QED
      BY <3>1, <3>2 DEF QueuedPlace
  <2>4. MappedPlace'
    BY <1>2, <2>2 DEF MappedPlace
  <2>. QED
    BY Zenon, <2>1, <2>3, <2>4 DEF PlaceInv
<1>7. ListInv'
  <2>1. Ordered(priority_qs', PrioOf)
    BY Zenon, <1>2, UnlinkOrdered DEF ListInv
  <2>2. Ordered(value_mapper', JobIdOf)
    BY Zenon, <1>2, UnlinkOrdered DEF ListInv
  <2>. QED
    BY Zenon, <2>1, <2>2 DEF ListInv
<1>8. OrderInv'
  <2> USE <1>2 DEF OrderInv, SameCopy
  <2>1. MappedAsQueued'
    BY Zenon DEF MappedAsQueued
  <2>2. HeldFirst'
    BY Zenon, <1>4 DEF HeldFirst, Shape
  <2>2a. UnmappedNotHeld'
    BY Zenon, <1>4 DEF UnmappedNotHeld
  <2>3. HeldInOrder'
    BY Zenon, <1>1, <1>b DEF HeldInOrder
  <2>4. UnmappedLast'
    BY Zenon, <1>1, <1>b DEF UnmappedLast
  <2>5. InsertedLast'
    BY Zenon, <1>1, <1>b DEF InsertedLast, Shape
  <2>. QED
    BY Zenon, <2>1, <2>2, <2>2a, <2>3, <2>4, <2>5
<1>. QED
  BY Zenon, <1>5, <1>6, <1>7, <1>8

-------------------------------------------------------------------------------
(* All steps.                                                              *)

\* Every step keeps the invariant.
LEMMA StepInv == Inv /\ [Next]_vars => Inv'
<1> SUFFICES ASSUME Inv, [Next]_vars PROVE Inv'
  OBVIOUS
<1>1. TypeOK'
  BY TypeStep DEF Inv
<1>2. ASSUME NEW j \in Jobs, Enqueue(j) PROVE Rest'
  BY <1>2, EnqueueInsertKeeps, EnqueueLockMapKeeps, EnqueueMapKeeps DEF Enqueue
<1>3. ASSUME NEW t \in Threads, Dequeue(t) PROVE Rest'
  <2>1. CASE \/ DequeueCall(t) \/ DequeueLock(t)
             \/ DequeueTest(t) \/ DequeueClear(t)
    BY <2>1, QuietSteps, QuietKeeps DEF Inv
  <2>. QED
    BY <1>3, <2>1, DequeueGuardKeeps, DequeueRecheckKeeps, DequeuePopKeeps,
       DequeuePopEmptyKeeps, DequeueLockMapKeeps, DequeueFindKeeps
    DEF Dequeue, DequeueInside
<1>4. ASSUME NEW id \in JobIds, Purge(id) PROVE Rest'
  BY <1>4, PurgeKeeps
<1>5. ASSUME \/ \E p \in ReleaseOnePrios : ReleaseOne(p)
             \/ ReleaseQueues \/ ExclusiveStep \/ UNCHANGED vars
      PROVE  Rest'
  BY <1>5, QuietSteps, QuietKeeps DEF Inv
<1>6. Rest'
  BY <1>2, <1>3, <1>4, <1>5 DEF Next
<1>. QED
  BY <1>1, <1>6 DEF Inv, Rest

\* The invariant holds in every reachable state.
THEOREM Invariance == Spec => []Inv
BY InitInv, StepInv, PTL DEF Spec

===============================================================================

------------------------------ MODULE MultiQueue ------------------------------
(***************************************************************************)
(* common/dstage/multiqueue.hh: one queue of job ids per priority, the     *)
(* _value_mapper that owns the jobs and points into the queues, and the    *)
(* four kinds of lock the operations take.                                 *)
(*                                                                         *)
(* Enqueue is called from any number of threads; a call is identified with *)
(* the job object it moves in, and a job object is enqueued at most once   *)
(* (it is a unique_ptr).  Each element of Threads is a worker that calls   *)
(* Dequeue for its own priority again and again.                           *)
(*                                                                         *)
(* A step is a lock acquisition with the accesses up to the next           *)
(* acquisition; unlocks that follow are part of it.  A thread that holds   *)
(* the shared purge lock and waits for a queue only delays the exclusive   *)
(* calls, so the two acquisitions are one step.  _not_empty_mutexes are    *)
(* locked in one thread and unlocked in another: glibc's std::mutex then   *)
(* is a binary semaphore, and unlocking an unlocked one does nothing.      *)
(*                                                                         *)
(* Some definitions are preceded by a variant with a slip in it, which     *)
(* nothing uses: the properties are checked to fail with the variant.      *)
(***************************************************************************)
EXTENDS Naturals, JobLists

CONSTANTS
  Jobs,             \* job objects, each a copy of a job at one priority
  JobIds,           \* values of job_id; copies of one job share theirs
  JobIdOf,          \* [Jobs -> JobIds]
  MaxPrio,          \* _max_prio
  PrioOf,           \* [Jobs -> Prios]
  Threads,          \* threads that call Dequeue
  ThreadPrio,       \* [Threads -> Prios], the priority each one serves
  ReleaseOnePrios,  \* priorities for which a client calls ReleaseOne
  Nobody            \* no owner, and nullptr

Prios == 0..MaxPrio

ASSUME MultiQueueConstants ==
  /\ MaxPrio \in Nat
  /\ JobIdOf \in [Jobs -> JobIds]
  /\ PrioOf \in [Jobs -> Prios]
  /\ ThreadPrio \in [Threads -> Prios]
  /\ ReleaseOnePrios \subseteq Prios
  /\ Jobs \cap Threads = {}
  /\ Nobody \notin Jobs \cup Threads

VARIABLES
  priority_qs,       \* the nodes of all priority queues (JobLists)
  value_mapper,      \* the entries of all duplicate lists (JobLists)
  not_empty_locked,  \* [Prios -> BOOLEAN], _not_empty_mutexes
  pq_mutexes,        \* [Prios -> owner]
  value_map_mutex,   \* owner
  shared,            \* shared owners of _purge_shared_mutex
  exclusive,         \* the call that owns _purge_shared_mutex exclusively
  released,          \* _released
  release_one,       \* [Prios -> BOOLEAN], one word of bits
  job_state,         \* progress of each job object
  deq,               \* where each thread is in Dequeue
  popped,            \* the node a thread took off its queue, or Nobody
  word,              \* _release_one as a thread loaded it to clear its bit
  result             \* what the last Dequeue of a thread returned

locks == <<pq_mutexes, value_map_mutex, shared, exclusive>>
flags == <<not_empty_locked, released, release_one>>
lists == <<priority_qs, value_mapper>>
threads == <<deq, popped, word, result>>
vars == <<locks, flags, lists, threads, job_state>>

Word == [Prios -> BOOLEAN]
Owners == Jobs \cup Threads \cup {Nobody}
ExclusiveOps == {"none", "ReleaseQueues", "ReleaseOneSet", "ReleaseOneUnlock"}
NoBits == [p \in Prios |-> FALSE]
Call(op, p, w) == [op |-> op, prio |-> p, word |-> w]
NoExclusive == Call("none", 0, NoBits)

\* The nodes of the queue of priority p, _priority_qs[p].
Queue(p) == {j \in DOMAIN priority_qs : PrioOf[j] = p}

\* The entries of the duplicate list of a job id, _value_mapper[id].
Duplicates(id) == {j \in DOMAIN value_mapper : JobIdOf[j] = id}

\* The entries for one job id and priority.  Dequeue's scan removes the first.
Copies(id, p) == {j \in Duplicates(id) : PrioOf[j] = p}

TypeOK ==
  /\ DOMAIN priority_qs \subseteq Jobs
  /\ \A j \in DOMAIN priority_qs : priority_qs[j] \subseteq Jobs
  /\ DOMAIN value_mapper \subseteq Jobs
  /\ \A j \in DOMAIN value_mapper : value_mapper[j] \subseteq Jobs
  /\ not_empty_locked \in [Prios -> BOOLEAN]
  /\ pq_mutexes \in [Prios -> Owners]
  /\ value_map_mutex \in Owners
  /\ shared \subseteq Jobs \cup Threads
  /\ exclusive \in [op : ExclusiveOps, prio : Prios, word : Word]
  /\ released \in BOOLEAN
  /\ release_one \in Word
  /\ job_state \in
       [Jobs -> {"new", "inserted", "mapping", "queued", "returned", "purged"}]
  /\ deq \in [Threads -> {"idle", "lock", "test", "clear", "guard", "recheck",
                          "pop", "popped", "mapping", "corrupt"}]
  /\ popped \in [Threads -> Jobs \cup {Nobody}]
  /\ word \in [Threads -> Word]
  /\ result \in [Threads -> Jobs \cup {Nobody}]

-------------------------------------------------------------------------------
\* The constructor.  Its loop stops short of _max_prio, so the not-empty mutex
\* of the last queue starts unlocked although the queue is empty.
Init ==
  /\ priority_qs = EmptyLists /\ value_mapper = EmptyLists
  /\ not_empty_locked = [p \in Prios |-> p < MaxPrio]
  /\ pq_mutexes = [p \in Prios |-> Nobody]
  /\ value_map_mutex = Nobody
  /\ shared = {}
  /\ exclusive = NoExclusive
  /\ released = FALSE
  /\ release_one = NoBits
  /\ job_state = [j \in Jobs |-> "new"]
  /\ deq = [t \in Threads |-> "idle"]
  /\ popped = [t \in Threads |-> Nobody]
  /\ word = [t \in Threads |-> NoBits]
  /\ result = [t \in Threads |-> Nobody]

Unlock(p) == not_empty_locked' = [not_empty_locked EXCEPT ![p] = FALSE]

\* lock_pq, which x holds up to the end of its block.
LockQueueUnnamed(p, x) == UNCHANGED pq_mutexes
LockQueue(p, x) == pq_mutexes' = [pq_mutexes EXCEPT ![p] = x]

\* Enqueue opens the not-empty mutex if its item is the only one.
WakeNobody(p) == UNCHANGED not_empty_locked
WakeFirst(p) == IF Queue(p) = {} THEN Unlock(p) ELSE UNCHANGED not_empty_locked

\* Dequeue opens it again if j was not the only item.
LetNobodyIn(p, j) == UNCHANGED not_empty_locked
LetNextIn(p, j) ==
  IF Queue(p) # {j} THEN Unlock(p) ELSE UNCHANGED not_empty_locked

\* A thread that leaves a released queue opens it for the next one.
LetNobodyOut(p) == UNCHANGED not_empty_locked
LetNextOut(p) == Unlock(p)

\* The entry that Dequeue returns is erased from the duplicate list.
KeepEntry(j) == UNCHANGED value_mapper
EraseEntry(j) == value_mapper' = Unlink(value_mapper, {j})

-------------------------------------------------------------------------------
\* Enqueue up to the push: the shared purge lock, the lock of the queue, the
\* new last node, and the wake-up if the queue was empty.
EnqueueInsert(j) ==
  LET p == PrioOf[j] IN
  /\ job_state[j] = "new"
  /\ exclusive.op = "none"
  /\ pq_mutexes[p] = Nobody
  /\ shared' = shared \cup {j}
  /\ LockQueue(p, j)
  /\ priority_qs' = PushBack(priority_qs, j, Queue(p))
  /\ WakeFirst(p)
  /\ job_state' = [job_state EXCEPT ![j] = "inserted"]
  /\ UNCHANGED <<value_mapper, value_map_mutex, exclusive, released,
                 release_one, threads>>

\* The value-map lock is taken before the lock of the queue is given up.
EnqueueLockMap(j) ==
  /\ job_state[j] = "inserted"
  /\ value_map_mutex = Nobody
  /\ value_map_mutex' = j
  /\ pq_mutexes' = [pq_mutexes EXCEPT ![PrioOf[j]] = Nobody]
  /\ job_state' = [job_state EXCEPT ![j] = "mapping"]
  /\ UNCHANGED <<lists, flags, shared, exclusive, threads>>

\* The job is appended to the duplicate list of its id; both locks are freed.
EnqueueMap(j) ==
  /\ job_state[j] = "mapping"
  /\ value_mapper' = PushBack(value_mapper, j, Duplicates(JobIdOf[j]))
  /\ value_map_mutex' = Nobody
  /\ shared' = shared \ {j}
  /\ job_state' = [job_state EXCEPT ![j] = "queued"]
  /\ UNCHANGED <<priority_qs, flags, pq_mutexes, exclusive, threads>>

Enqueue(j) == EnqueueInsert(j) \/ EnqueueLockMap(j) \/ EnqueueMap(j)

-------------------------------------------------------------------------------
At(t, from, to) == deq[t] = from /\ deq' = [deq EXCEPT ![t] = to]
Return(t, r) == result' = [result EXCEPT ![t] = r]

\* A worker calls Dequeue.
DequeueCall(t) ==
  /\ At(t, "idle", "lock")
  /\ Return(t, Nobody)
  /\ UNCHANGED <<locks, flags, lists, job_state, popped, word>>

\* _not_empty_mutexes[prio].lock()
DequeueLock(t) ==
  /\ At(t, "lock", "test")
  /\ ~not_empty_locked[ThreadPrio[t]]
  /\ not_empty_locked' = [not_empty_locked EXCEPT ![ThreadPrio[t]] = TRUE]
  /\ UNCHANGED <<locks, lists, released, release_one, job_state, popped, word,
                 result>>

\* The unprotected test of _release_one[prio].  To clear its bit the thread
\* loads the word that holds the bits of every priority.
DequeueTest(t) ==
  /\ \/ /\ release_one[ThreadPrio[t]]
        /\ At(t, "test", "clear")
        /\ word' = [word EXCEPT ![t] = release_one]
     \/ /\ ~release_one[ThreadPrio[t]]
        /\ At(t, "test", "guard")
        /\ UNCHANGED word
  /\ UNCHANGED <<locks, flags, lists, job_state, popped, result>>

\* The word is stored with the bit cleared and Dequeue returns nullptr; the
\* not-empty mutex stays locked.
DequeueClear(t) ==
  /\ At(t, "clear", "idle")
  /\ release_one' = [word[t] EXCEPT ![ThreadPrio[t]] = FALSE]
  /\ word' = [word EXCEPT ![t] = NoBits]
  /\ Return(t, Nobody)
  /\ UNCHANGED <<locks, lists, not_empty_locked, released, job_state, popped>>

\* The emptiness test of the loop, made under the shared purge lock.
NeverEmpty(p) == FALSE
Empty(p) == Queue(p) = {}

\* The shared purge lock and the first emptiness test: out of the loop with
\* nullptr if the queue is empty and released.
DequeueGuard(t) ==
  LET p == ThreadPrio[t] IN
  /\ exclusive.op = "none"
  /\ \/ /\ Empty(p) /\ released
        /\ At(t, "guard", "idle")
        /\ LetNextOut(p)
        /\ Return(t, Nobody)
        /\ UNCHANGED shared
     \/ /\ ~(Empty(p) /\ released)
        /\ At(t, "guard", "recheck")
        /\ shared' = shared \cup {t}
        /\ UNCHANGED <<not_empty_locked, result>>
  /\ UNCHANGED <<pq_mutexes, value_map_mutex, exclusive, lists, released,
                 release_one, job_state, popped, word>>

\* The second test, of a queue that may have changed since: around again, or
\* out of the loop to pop an item.
DequeueRecheck(t) ==
  /\ \/ /\ Empty(ThreadPrio[t])
        /\ At(t, "recheck", "lock")
        /\ shared' = shared \ {t}
     \/ /\ ~Empty(ThreadPrio[t])
        /\ At(t, "recheck", "pop")
        /\ UNCHANGED shared
  /\ UNCHANGED <<pq_mutexes, value_map_mutex, exclusive, flags, lists,
                 job_state, popped, word, result>>

\* Under the lock of the queue: the first node is taken off and, if another is
\* left, one more Dequeue is let in.
DequeuePop(t) ==
  LET p == ThreadPrio[t] IN
  /\ At(t, "pop", "popped")
  /\ pq_mutexes[p] = Nobody
  /\ LockQueue(p, t)
  /\ \E j \in Queue(p) :
       /\ IsFirst(priority_qs, j, Queue(p))
       /\ popped' = [popped EXCEPT ![t] = j]
       /\ priority_qs' = Unlink(priority_qs, {j})
       /\ LetNextIn(p, j)
  /\ UNCHANGED <<value_mapper, value_map_mutex, shared, exclusive, released,
                 release_one, job_state, word, result>>

\* begin() and pop_front() of an empty list are undefined behaviour: the thread
\* is "corrupt" and takes no further step.
DequeuePopEmpty(t) ==
  /\ At(t, "pop", "corrupt")
  /\ pq_mutexes[ThreadPrio[t]] = Nobody
  /\ Queue(ThreadPrio[t]) = {}
  /\ UNCHANGED <<locks, flags, lists, job_state, popped, word, result>>

\* The value-map lock is taken before the lock of the queue is given up.
DequeueLockMap(t) ==
  /\ At(t, "popped", "mapping")
  /\ value_map_mutex = Nobody
  /\ value_map_mutex' = t
  /\ pq_mutexes' = [pq_mutexes EXCEPT ![ThreadPrio[t]] = Nobody]
  /\ UNCHANGED <<flags, lists, shared, exclusive, job_state, popped, word,
                 result>>

\* The first entry of this priority in the duplicate list of the popped id is
\* removed and returned.  The CHECKs on the way (the id is mapped, an entry is
\* found) abort the process; here the step is then disabled, and
\* PoppedIsFirstCopy below says that this never happens.
DequeueFind(t) ==
  LET copies == Copies(JobIdOf[popped[t]], ThreadPrio[t]) IN
  /\ deq[t] = "mapping"
  /\ \E j \in copies :
       /\ IsFirst(value_mapper, j, copies)
       /\ EraseEntry(j)
       /\ job_state' = [job_state EXCEPT ![j] = "returned"]
       /\ Return(t, j)
  /\ deq' = [deq EXCEPT ![t] = "idle"]
  /\ popped' = [popped EXCEPT ![t] = Nobody]
  /\ value_map_mutex' = Nobody
  /\ shared' = shared \ {t}
  /\ UNCHANGED <<priority_qs, flags, pq_mutexes, exclusive, word>>

DequeueInside(t) ==
  \/ DequeueLock(t) \/ DequeueTest(t) \/ DequeueClear(t) \/ DequeueGuard(t)
  \/ DequeueRecheck(t) \/ DequeuePop(t) \/ DequeuePopEmpty(t)
  \/ DequeueLockMap(t) \/ DequeueFind(t)

Dequeue(t) == DequeueCall(t) \/ DequeueInside(t)

-------------------------------------------------------------------------------
ExclusiveFree == exclusive.op = "none" /\ shared = {}

PurgeKeepsNodes(id) ==
  /\ ExclusiveFree
  /\ value_mapper' = Unlink(value_mapper, Duplicates(id))
  /\ job_state' = [j \in Jobs |->
                     IF j \in Duplicates(id) THEN "purged" ELSE job_state[j]]
  /\ UNCHANGED <<priority_qs, locks, flags, threads>>

PurgeFirstNode(id) ==
  /\ ExclusiveFree
  /\ priority_qs' = Unlink(priority_qs,
       {j \in Duplicates(id) : IsFirst(value_mapper, j, Duplicates(id))})
  /\ value_mapper' = Unlink(value_mapper, Duplicates(id))
  /\ job_state' = [j \in Jobs |->
                     IF j \in Duplicates(id) THEN "purged" ELSE job_state[j]]
  /\ UNCHANGED <<locks, flags, threads>>

\* Purge: under the exclusive lock, every entry of the duplicate list of id is
\* dropped together with the node its iterator points to.
Purge(id) ==
  /\ ExclusiveFree
  /\ priority_qs' = Unlink(priority_qs, Duplicates(id))
  /\ value_mapper' = Unlink(value_mapper, Duplicates(id))
  /\ job_state' = [j \in Jobs |->
                     IF j \in Duplicates(id) THEN "purged" ELSE job_state[j]]
  /\ UNCHANGED <<locks, flags, threads>>

\* ReleaseQueues: _released is set and the loop over the priorities starts.
ReleaseQueues ==
  /\ ExclusiveFree
  /\ released' = TRUE
  /\ exclusive' = Call("ReleaseQueues", 0, NoBits)
  /\ UNCHANGED <<pq_mutexes, value_map_mutex, shared, not_empty_locked,
                 release_one, lists, threads, job_state>>

\* The loop ends after the last priority.
LoopEnds(p) == p = MaxPrio

\* One turn of that loop: only an empty queue is unlocked.
ReleaseQueuesLoop ==
  LET p == exclusive.prio IN
  /\ exclusive.op = "ReleaseQueues"
  /\ IF Queue(p) = {} THEN Unlock(p) ELSE UNCHANGED not_empty_locked
  /\ exclusive' = IF LoopEnds(p) THEN NoExclusive
                                 ELSE Call("ReleaseQueues", p + 1, NoBits)
  /\ UNCHANGED <<pq_mutexes, value_map_mutex, shared, released, release_one,
                 lists, threads, job_state>>

\* ReleaseOne on an empty queue: the word of _release_one is loaded, stored
\* with the bit set, and the not-empty mutex is unlocked.  Threads in Dequeue
\* may store the same word in between.  On a non-empty queue nothing happens.
ReleaseOne(p) ==
  /\ ExclusiveFree
  /\ exclusive' = IF Queue(p) = {}
                    THEN Call("ReleaseOneSet", p, release_one)
                    ELSE exclusive
  /\ UNCHANGED <<pq_mutexes, value_map_mutex, shared, flags, lists, threads,
                 job_state>>

ReleaseOneSet ==
  /\ exclusive.op = "ReleaseOneSet"
  /\ release_one' = [exclusive.word EXCEPT ![exclusive.prio] = TRUE]
  /\ exclusive' = Call("ReleaseOneUnlock", exclusive.prio, NoBits)
  /\ UNCHANGED <<pq_mutexes, value_map_mutex, shared, not_empty_locked,
                 released, lists, threads, job_state>>

ReleaseOneForgetsUnlock ==
  /\ exclusive.op = "ReleaseOneUnlock"
  /\ exclusive' = NoExclusive
  /\ UNCHANGED <<pq_mutexes, value_map_mutex, shared, flags, lists, threads,
                 job_state>>

ReleaseOneUnlock ==
  /\ exclusive.op = "ReleaseOneUnlock"
  /\ Unlock(exclusive.prio)
  /\ exclusive' = NoExclusive
  /\ UNCHANGED <<pq_mutexes, value_map_mutex, shared, released, release_one,
                 lists, threads, job_state>>

ExclusiveStep == ReleaseQueuesLoop \/ ReleaseOneSet \/ ReleaseOneUnlock

-------------------------------------------------------------------------------
Next ==
  \/ \E j \in Jobs : Enqueue(j)
  \/ \E t \in Threads : Dequeue(t)
  \/ \E id \in JobIds : Purge(id)
  \/ \E p \in ReleaseOnePrios : ReleaseOne(p)
  \/ ReleaseQueues
  \/ ExclusiveStep

Spec == Init /\ [][Next]_vars

-------------------------------------------------------------------------------
\* Purge follows iterators stored in _value_mapper.  Whenever a call can own the
\* purge lock exclusively, the entries of the mapper are exactly the nodes of
\* the queues: no iterator dangles, and a purge leaves no copy of its job behind.
PurgeSeesEveryCopy ==
  ExclusiveFree => DOMAIN value_mapper = DOMAIN priority_qs

\* "We should always find what we removed from the queue": a Dequeue looks an id
\* up that it read under another lock, and takes the first entry with its
\* priority.  That entry exists and is the one whose node was popped, however
\* many copies of the job are queued at this priority or on their way in or out.
PoppedIsFirstCopy ==
  \A t \in Threads : deq[t] = "mapping" =>
    IsFirst(value_mapper, popped[t], Copies(JobIdOf[popped[t]], ThreadPrio[t]))

\* The only thread that serves a priority leaves the loop of Dequeue with at
\* least one item in its queue, and so never pops an empty list.
LoneThreadPopsItem ==
  \A t \in Threads :
    (\A u \in Threads : ThreadPrio[u] = ThreadPrio[t] => u = t)
      => /\ deq[t] = "pop" => Queue(ThreadPrio[t]) # {}
         /\ deq[t] # "corrupt"

\* No wake-up is lost: when nobody is inside Dequeue for a priority beyond its
\* blocking lock and items are queued there, that lock is open.  (For the
\* priorities no client calls ReleaseOne on.)
Waiting(p) == \A t \in Threads : ThreadPrio[t] = p => deq[t] \in {"idle", "lock"}

NoLostWakeup ==
  \A p \in Prios \ ReleaseOnePrios :
    Waiting(p) /\ Queue(p) # {} => ~not_empty_locked[p]

\* A pending ReleaseOne is not stranded: once the call is over, its flag is not
\* left behind a locked not-empty mutex with no thread on its way to see it.  (This
\* is for the one priority that Throttler calls ReleaseOne on.  Were there another,
\* storing the word for one could set the bit of the other again.)
ReleaseOneNotStranded ==
  \A p \in Prios :
    ReleaseOnePrios \subseteq {p} /\ Waiting(p) /\ release_one[p] /\ exclusive.op = "none"
      => ~not_empty_locked[p]

\* With all its locks MultiQueue behaves like atomic queues: a job is enqueued
\* when its node is linked, taken when its node is popped and handed over when
\* its entry leaves the mapper, and a purge is one step.
Abs == INSTANCE AtomicQueues WITH
  queue <- priority_qs,
  put <- {j \in Jobs : job_state[j] # "new"},
  held <- popped,
  returned <- {j \in Jobs : job_state[j] = "returned"}

ImplementsAtomicQueues == Abs!ASpec

-------------------------------------------------------------------------------
\* "It should impossible to leave this loop without having acquired the
\* no_purging lock and having ensured that there is at least a single item in
\* the queue": no thread gets to pop an empty list.
NeverPopsEmptyList == \A t \in Threads : deq[t] # "corrupt"

\* "Dequeue is a blocking call which will block indefinitely until there is a job
\* to Dequeue": no thread waits at a locked not-empty mutex for a queue that has a
\* job, the priorities with a ReleaseOne included.
BlocksUntilAJob ==
  \A p \in Prios : Waiting(p) /\ Queue(p) # {} => ~not_empty_locked[p]

===============================================================================

----------------------------- MODULE AtomicQueues -----------------------------
(***************************************************************************)
(* What a MultiQueue promises, with no lock in sight: one FIFO queue per   *)
(* priority, jobs that leave it one at a time and are handed over to the   *)
(* thread that took them, and a purge that removes at once every queued    *)
(* copy of a job, at whatever priority.                                    *)
(***************************************************************************)
EXTENDS JobLists

CONSTANTS Jobs, JobIds, JobIdOf, PrioOf, Threads, ThreadPrio, Nobody

VARIABLES
  queue,     \* the queued jobs (JobLists)
  put,       \* the jobs ever enqueued
  held,      \* [Threads -> the job a thread has taken, or Nobody]
  returned   \* the jobs handed over

avars == <<queue, put, held, returned>>

QueueOf(p) == {j \in DOMAIN queue : PrioOf[j] = p}

AInit ==
  /\ queue = EmptyLists
  /\ put = {}
  /\ held = [t \in Threads |-> Nobody]
  /\ returned = {}

Put(j) ==
  /\ j \notin put
  /\ put' = put \cup {j}
  /\ queue' = PushBack(queue, j, QueueOf(PrioOf[j]))
  /\ UNCHANGED <<held, returned>>

\* A thread with empty hands takes the oldest job of its priority.
Take(t) ==
  /\ held[t] = Nobody
  /\ \E j \in QueueOf(ThreadPrio[t]) :
       /\ IsFirst(queue, j, QueueOf(ThreadPrio[t]))
       /\ held' = [held EXCEPT ![t] = j]
       /\ queue' = Unlink(queue, {j})
  /\ UNCHANGED <<put, returned>>

Give(t) ==
  /\ held[t] # Nobody
  /\ returned' = returned \cup {held[t]}
  /\ held' = [held EXCEPT ![t] = Nobody]
  /\ UNCHANGED <<queue, put>>

Drop(id) ==
  /\ queue' = Unlink(queue, {j \in DOMAIN queue : JobIdOf[j] = id})
  /\ UNCHANGED <<put, held, returned>>

ANext ==
  \/ \E j \in Jobs : Put(j)
  \/ \E t \in Threads : Take(t) \/ Give(t)
  \/ \E id \in JobIds : Drop(id)

ASpec == AInit /\ [][ANext]_avars

===============================================================================

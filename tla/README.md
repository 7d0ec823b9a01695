# DANS in TLA+

DANS (Duplicate Aware Networked Stack) is a C++ library of *D-Stages*: a
dispatcher turns a job into copies of different priorities, a multiqueue holds
them, and a scheduler's threads take them out and work on them. Stages are
chained; the copies of a job share an id, and the first one to be done purges the
others. Two systems are built from it: a file client (three stages) and a TCP
proxy with a throttler.

This directory holds TLA+ modules translated from that code, the TLC
configurations that check them on small instances, and theorems that TLAPS proves
for every instance. `PROJECT.json` has the inventory in full: which lines each
definition stands for, the runs, the hazards and the findings.

    tlc -workers 2 -config MCScheduler.cfg MCScheduler    # one run
    tlapm MultiQueueProofs.tla                            # one proof module

## The system and its modules

| Part of the code | Module | State and actions |
|---|---|---|
| `multiqueue.hh` | `MultiQueue` (lists: `JobLists`) | the queues, the value mapper, each lock; one action per lock section of `Enqueue`, `Dequeue`, `Purge`, `ReleaseQueues`, `ReleaseOne` |
| what it promises | `AtomicQueues` | put, take, give and drop in one step each |
| `scheduler.hh`, `executor.cc` | `Scheduler` (extends `MultiQueue`) | the worker's loop; `Submit`, `Purge`; both parts of the destructor |
| `throttler.hh`, decisions | `Throttler` (extends `MultiQueue`) | throttle blocks, waiting flags, counters; each unprotected read of a decision is a step |
| `throttler.hh`, statistics | `ThrottlerStats` | `AddStat`, `RunEveryT`, `Runner`, the destructor |
| `job.h`, `Counter` | `JobIdFactory` | the two lock sections of `CreateJobId` |
| `client_*_handler.cc`, `dispatcher.hh`, `PurgeState` | `FileClient` | where each copy of each request is and what it has read into its buffer; every handler, callback and the purge of one stage after another |
| `linux_communication_handler.cc`, reactor | `Epoll` | one-shot registrations, the heap of callbacks, the shared event buffer, each worker's loop |
| the same, as a whole | `CommHandler` (extends `Epoll`) | client sockets, the server socket, its accept loop and the descriptors that needs, the destructor |
| `proxy_dstage.cc`, callbacks of `dans_throttling_proxy.cc` | `Proxy` (extends `Epoll`) | one connection: reactor, scheduler thread and executor closures, up to the release of its sockets |
| `dans_throttling_proxy.cc`, `throttling_proxy_example.cc`, `ProxyScheduler` | `ThrottlingProxy` (extends `Throttler`, `JobIdFactory`) | the program: constructors, new connections and their ids, the workers' loop, the callback that sets the targets, the destructors |
| `TcpPipe::Pipe` | `Pipe` | the read and send loops, byte by byte |

The parts interact through two interfaces. Stages call each other's multiqueue,
so `Scheduler` and `Throttler` extend `MultiQueue` and use its actions as they
are. Everything that touches a socket goes through the reactor, so `CommHandler`
and `Proxy` extend `Epoll`. `ThrottlingProxy` puts the proxy's program together: the
reactor's thread numbers each connection with `CreateJobId` and dispatches it, the
workers take it through `Throttler` and `MultiQueue`, the updater thread calls
`SetThrottle`, and main constructs and destroys all of them. `FileClient` composes three stages, the reactor and
the servers, each abstracted to what the sharing of a `PurgeState` depends on.

The `MC*` modules define the small sets the configurations use. A definition that
is preceded by a variant with a slip in it (a guard dropped, a loop one turn
short) is one that a property is shown to depend on: with the variant in its
place the property fails.

## How the code is read

* **Steps.** A step is a lock acquisition and the accesses up to the next one.
  Accesses without a lock (the bits of `_release_one`, the counters and sizes the
  throttler reads, `first_cb` and `second_cb`) are steps of their own.
* **`_not_empty_mutexes` and `_throttle_blocks`** are locked by one thread and
  unlocked by another. That is undefined for `std::mutex`; with glibc it is a
  binary semaphore, and this is what the models have.
* **The size that `Dequeue` and the decisions read** without the queue's lock is the size
  at that moment; `Dequeue` tests it twice (`DequeueGuard`, `DequeueRecheck`), and a
  job may be enqueued between the two. The two operands of `+` in a decision are read in
  either order.
* **`vector<bool>`.** Writing one bit of `_release_one` loads and stores a word.
* **Popping an empty `std::list`** is undefined: the thread is "corrupt" then and
  does nothing more. A callback that is used after it was deleted stops `Proxy`, and a
  `Throttler` that is used after its destructor stops `ThrottlingProxy`.
* **A failing `CHECK`** ends the process: `FileClient` records which one; in the
  other modules the step is disabled, and where that could hide anything a
  property says that it does not fail (`PoppedIsFirstCopy`).
* **`JobLists`** represents a list by the set of members ahead of each member.
  This is what the order in a list means to the code, which only appends, takes
  the first and erases.
* The kernel, the network, servers and clients are external and do whatever the
  code allows for: refuse, reset, close, answer in pieces, or keep silent.

## Runs

Every passing run explores all states of its instance. Bounds are the constants
of the configuration.

| Run | Instance | What it shows |
|---|---|---|
| `scheduler` | 2 workers in one pool, 2 copies of a job and another job, purges, the destructor at any time | `PoppedIsFirstCopy`, `ProcessedOnce`, `JoinLosesNothing`; the queue implements `AtomicQueues`; jobs are processed, and the destructor ends when no queue has fewer jobs than workers, or it is empty (`DestructorJoins`) |
| `throttler` | 1 primary and 2 secondary jobs, targets 2 and 1, either set to 0 or 1 at any time, purges | `ThrottleBound`, `AdmissionMatchesBlock`, `SecondaryWithheld`; of the queue below it `PurgeSeesEveryCopy`, `LoneThreadPopsItem`, `NoLostWakeup`, `ReleaseOneNotStranded`; with room every job is scheduled (`EveryJobServed`) |
| `program` | 2 primary connections, the worker of their priority, a purge of one of them, the callback toggling the targets between 1 and 2, the end of `--run_time` at any time | `UniqueIds`, `TargetsPaired`; connections of a priority are scheduled in the order of their ids (`ServedInOrder`) |
| `file_client` | a request with a copy per priority, and one whose duplication wraps; servers that start at 0 and at 1, are silent, stop or close; faults of the network | `DoneOnce`; `done` gets what the server sent (`DoneIsAsSent`); `PurgedCopyStops`; a copy is dropped only for its own request (`PurgedForAReason`); the file arrives unless each copy is let down, and a copy ends unless its server keeps it waiting |
| `pipe` | 5 bytes through a buffer of 3, partial sends, EAGAIN, failing calls | order, completeness and count of the bytes, within the buffer; they and the end of the stream get through |
| `stats` | 3 jobs, 2 calls of `RunEveryT`, the destructor | latencies and sizes stay paired, nothing is reported twice, what ends while the callback is installed is reported unless `RunEveryT` is called again, the thread stops |
| `comm_handler` | 1 worker, server and 2 sockets, 2 connections and a descriptor for one of them at a time, the destructor at any time | every returned event is handled once, sockets are served, connections accepted, the worker joined |
| `proxy` | 1 connection, both sides send, close, reset, refuse | `CallbacksAreSafe`, `OnePipePerSocket`, `ServerIsHeard`; at rest nothing is kept of a connection that is gone |

**Why the bounds are enough.** The multiqueue's races are between at most two
threads of a priority and an enqueuer; three jobs, two of them with one id, make
"empty", "last" and "one more" all happen, in the queue and in the duplicate list, and
give the destructor of a pool of two workers fewer jobs than workers, as many, and
more. Two priorities are what
the throttler is built for and what one word of bits needs; two secondary jobs with
a target of 1 wait for each other, and lowering the primary target puts its one job
at the target or above it. In the file client a winner, a copy between two queues and a
copy in epoll coexist with two copies, beside a second request, and the two bytes of a
file come in one read or two. The start index is that of the server: it is at most the
size. The faults leave out
a server that answers with a refusal: the code only logs which answer it got, so
that nothing but the value of a field would differ. A second client that finds no
descriptor is what makes the accept loop spin. In the program two connections share a
target of 1 or 2, so that one waits for the other or both go ahead while the
destructors run; what secondary jobs do to primary ones is the subject of `throttler`.
A pipe of five bytes through a buffer of three has full, partial and empty rounds. In
`Proxy` a socket is monitored twice, so that a closure of each round and one of
`ConnectCallback` may overlap.

**Deadlock** is not checked: each model ends when its jobs, calls or connections
do, or when the destructor is through, and a `Dequeue` without jobs blocks as it
should. Where something must go on, a liveness property or `NoLostWakeup` and
`ReleasedAtRest` say so.

## Where code and documentation disagree

Four runs each check one statement that the repository makes, and TLC finds a
behaviour of the code that violates it. `PROJECT.json` quotes the statement.

| Run | Behaviour |
|---|---|
| `multiqueue_pop_empty` | two threads of a priority leave `Dequeue`'s loop for one item; the second pops an empty list (`NeverPopsEmptyList`) |
| `multiqueue_stranded` | a job enqueued between `ReleaseOne` and the `Dequeue` it calls back stays in its queue behind a locked mutex (`BlocksUntilAJob`) |
| `pipe_stall` | -1 from `send()` is added to the buffer position, so the next send starts a byte early (`Piped`) |
| `throttler_blocked` | with both targets at 1 a secondary job stays in its queue after a primary job, and a later primary job changes nothing (`BlockedOnlyByTwoZeros`, which reads the message of the `CHECK` as the list of the blocked settings; it fails with targets 0 and 1 too) |

The passing runs say where the line is: a priority with one thread never pops an
empty list (`LoneThreadPopsItem`), a priority without `ReleaseOne` strands no job (`NoLostWakeup`), every job is scheduled while there is room below
the primary target (`EveryJobServed`), and bytes stay in order while no `send()` finds
the socket full (`PipedInOrder`). Other places have no run of their own; they are
why a property carries the condition it does, and the model shows each when the
condition is dropped or the instance changed:

| Condition | Without it |
|---|---|
| `ReleaseOneNotStranded` has one priority that `ReleaseOne` is called for, as in `Throttler` | storing the word for one priority sets the bit of another again |
| `UniqueIds` has one reactor thread that calls `CreateJobId` | overlapping calls return the same id |
| `DestructorJoins` wants each queue empty or with a job for every worker | `ReleaseQueues` opens the mutex of an empty queue only, the last job opens it for nobody, and the workers that are left are not joined |
| `FileArrives`, `CopiesEnd` end with `~Running` | a `CHECK` ends the process: `connect()` completing at once, a server closing before its header or sending it in two parts, a duplication that wraps around |
| `FileArrives`, `CopiesEnd` excuse a server that neither sends nor closes | a copy stays in epoll, purged or not (`doc/simple_client.md` names this among the current issues) |
| `DoneIsAsSent` starts at the server's `start_idx` | what a server leaves out at the beginning is zeros in the buffer, and counts as read |
| `NothingHeldBack` counts bytes while `again = 0` | `TRY_LATER` is counted as bytes |
| `CompletionIsReported` excuses a new call of the application | a second `RunEveryT` drops the statistics not yet reported |
| `WorkersJoin` excuses a worker in the accept loop | the accept loop goes on after the server socket is shut down |
| `comm_handler` has one worker | two workers overwrite each other's events |
| `SocketIsServed`, `AllAccepted` excuse descriptors that are out for good | the accept loop goes on when `accept4` fails with anything but EAGAIN, and its worker serves nobody else |
| `CallbacksAreSafe` | an "outdated" callback is deleted while the reactor is about to call it |

Two more are states of `ThrottlingProxy` without a property, since nothing says that
they should not be reached: a worker that waits for its throttle block is not let out by
`ReleaseQueues`, so that `JoinWorkers` never comes; and `_throttler` is destroyed before
the workers are joined, so that they, or a job that ends late, use it afterwards
(`UseDestroyed`).

## Fairness

No fault, no call by the application and no arrival is ever forced.

* `Scheduler`: the worker loops, a `Submit` once begun and the destructor once begun
  go on (weak). `Purge` has `_purge_shared_mutex` for one step and `ReleaseQueues` for a
  loop that ends, so that nobody is kept out of the shared lock for ever.
* `Throttler`: one weak condition on all that moves by itself: threads, decisions,
  and the ends of scheduled jobs. It says only that the program does not stop while
  some of them can go on, which is less than fairness to each.
* `FileClient`: likewise one weak condition on workers, dispatch loops and callbacks of
  sockets that are ready. No server has to answer, no fault is forced, and the
  application need not ask.
* `Pipe`: the executor runs its tasks, and the socket that is sent to drains
  (strong on a `read` or `send` that succeeds).
* `ThrottlerStats`: threads run; the updater gets the writer's side of the lock in
  the end (strong), since the readers are ends of jobs, which do not follow each
  other without pause for ever.
* `CommHandler`: each worker's loop and the destructor once begun go on (weak).
* `MultiQueue`, `ThrottlingProxy` and `Proxy` have no liveness property, and so no fairness. What
  `Proxy` has released is stated at rest (`ReleasedAtRest`): when neither reactor,
  scheduler nor closure can take a step. That the throttler ever schedules a
  connection is *not* assumed.

## Proofs

| Module | Theorems |
|---|---|
| `MultiQueueSteps` | the inductive invariant of `MultiQueue`: `Invariance` |
| `MultiQueueProofs` | `MultiQueue`: `TypeCorrect`, `PurgeIsComplete`, `FindsWhatItPopped`, `Refinement`, `LoneThreadIsSafe`, `NoWakeupIsLost`, `ReleaseIsSeen`; `Scheduler`: `NoJobTwice`, `NothingIsLost` |
| `ThrottlerProofs` | `Throttler`: `AdmissionsMatch`, `BoundHolds`, `SecondaryIsWithheld`; `JobIdFactory`: `IdsIncrease`; `ThrottlingProxy`: `IdsAreUnique`, `PairsHold` |
| `FileClientProofs` | `FileClient`: `Invariance`, `TypeCorrect`, `CalledOnce`, `CalledWithWhatWasSent`, `CopiesStop`, `PurgesHaveAReason`; `ThrottlerStats`: `ListsArePaired`, `NoneReportedTwice` |
| `CommHandlerProofs` | `CommHandler`: `CallbacksRunOnce`, `NoEventIsLost`; `Pipe`: `BytesInOrder`, `NothingIsHeldBack` |
| `ProxyLemmas`, `ProxySteps`, `ProxyProofs` | `Proxy`: `ServerHeard`, `CallbacksSafe`, `OnePipe` |

They hold for any number of jobs, threads, priorities, requests, sockets and callers. The
assumptions are the named `ASSUME`s of the modules: constants have their types;
the throttler has two priorities and initial targets not both 0 (its `CHECK`); in the
program every job is one of the connections and has an id of its own in the queue.
`PurgesHaveAReason` assumes that requests have distinct ids, as those of
`CreateJobId` are while its calls do not overlap. The theorems of `CommHandlerProofs`
assume one worker, which is what the default constructor of
`LinuxCommunicationHandler` makes and all the programs use, and finitely many sockets.
`CallbacksSafe` and `OnePipe` assume one worker too. `ServerHeard` holds for any number
of workers, and assumes that `connect()` does not complete at once (`"open"` is not in
`AtOnce`): a non-blocking `connect()` to another host is in progress or fails, and the
code takes one that has completed for a failure.

**MultiQueue.** None of the properties is inductive. `Inv` adds to the types

* `LockInv`: which thread owns which lock at which point of which call (`QueueLocks`,
  `MapLock`, `PurgeLock`);
* `PlaceInv`: for each job, whether its node is in the queue (`QueuedPlace`), in a
  thread's hands (`HeldPlace`) or gone, and whether its entry is in the mapper
  (`MappedPlace`), by how far its `Enqueue` and its `Dequeue` are;
* `ListInv`: each list is a total order of its members;
* `OrderInv`: copies with one id and priority are in the mapper in the order of
  the queue, those in a thread's hands first and those not yet mapped last.

`OrderInv` is the heart: `Enqueue` appends to the queue and to the mapper under
different locks, and `Dequeue` finds its entry by the first priority that matches.
It follows that what it finds is what it popped, and with the shared mutex that a
`Purge` sees queue and mapper agree. `Refinement` maps the queues to themselves
and shows each step to be one of `AtomicQueues` or a stutter. For the wake-ups,
`WakeInv` says that with an item queued the not-empty mutex is open or some thread
is on its way to opening it, and `BitsInv` that no bit of `_release_one` is set at
a priority `ReleaseOne` is not called for. `ReleaseInv` says where the bit of the one
priority that `ReleaseOne` is called for may be set: the mutex is open, or `ReleaseOne`
is about to unlock it, or a thread is about to see the bit. `LoneThreadIsSafe` needs that between
the test and the pop only a thread of the same priority could take the item.

**Scheduler.** On top of `Inv`, which every step of the stage keeps since it is a step
of the queue or none: `WorkerInv` (a worker is in its `Dequeue` exactly while one is
under way), `HandInv` (a job that left its queue is in the hands of exactly one
worker, or processed) and `DtorInv` (no `Enqueue` is under way once the destructor has
begun). `Inv` is needed for one thing: the entry that `Dequeue` finds is that of a
job which nobody has been given.

**Throttler.** `AdmissionInv`: the thread whose decision is under way is not an
admitted one, and a priority is marked waiting exactly while its block is open or
the one thread that passed it has not decided yet.
`BoundInv`: an admitted thread that is not yet counted still has its place below
one of the targets that were ever set, whatever `SetThrottle` has done since. Nothing is
assumed of the queue: the sizes that the decisions read may be anything, so the bound
does not depend on the unprotected reads. `WithheldInv`, for the action property
`SecondaryWithheld`, has two parts. `DecisionSide`: what a decision has read of the
primary jobs is too small only while a primary thread that counted a job later has its
own decision still to take; and once `ReleaseOne` has set its bit, the bit is there or
the secondary thread has come back and waits for `_state_lock`. `QueueSide`: only the
secondary bit is ever set, so that only a secondary thread stores the word.

**FileClient.** `FreshInv` (copies not yet dispatched are new), `OnceInv` (a request has
at most one winner, it is purged
then, and the winner has not called `done` before), `BufferInv` (the index is the start
index and what was taken from the stream, which is no more than was sent; the buffer
holds the taken bytes in order from the start index on, and zeros elsewhere), `WholeInv`
(a winner has a buffer whose index is its size), `StopInv` (a copy that has
done something after its request was complete is not about to do more), `PurgeInv` (a
purged request has a winner, a purged copy a purged request).

**CommHandler.** `ArmedInv`: an armed callback lives and belongs to its socket.
`RoundInv`: the callbacks in what is left of a round live, are disarmed, and are of
different sockets, and none of these is armed again before its callback is called.
`LeftInv`: a callback that lives is armed or in what is left of the round. A socket
armed again by its own callback is why `RoundInv` tells a callback still to be called
from the one that was called and is about to be deleted.

**Pipe.** `PipeInv`, while no `send()` has found the socket full: what was sent is 1, 2,
..., and as many bytes as were read but for those left in the buffer; while bytes are
being sent (`SendInv`) the buffer holds the last ones read and the unsent ones are its
end. The throughput reported so far is what was sent before this call, modulo the width
of the counter, for which two lemmas about `%` are needed. That `Pipe` does not come
back with `TRY_LATER` rests on the reactor: it is called with input ready, so the first
read gives bytes or the end of the stream.

**ThrottlerStats.** `PairInv`: the list of latencies is ahead of the list of sizes by the
one job that holds the mutex of its priority, and equal otherwise; `Runner` takes both
under the exclusive lock, so that it sees them equal. `ReportInv`: a job that has ended
is in the list, or in what the callback is about to get, or reported, and never in two of
them; without the second the property is not inductive.

**JobIdFactory.** `IdsInv`: a returned id is at most the counter, and a call that
has incremented finds the counter above the ids returned before it began.

**ThrottlingProxy.** `ProgramIds`: the call between its two lock sections is the one
the reactor is in, and the counter is larger than every id returned then.
`ProgramTargets`: the updater thread is not there before the constructor has set both
targets, and between the two calls of the callback the primary target is the new one.

**Proxy.** `ProxyInv` is the conjunction of types and

* `ReactorInv`: an armed callback lives and belongs to its socket; those in what is left
  of a round are disarmed and of different sockets, and those that nothing but the
  reactor deletes (`ConnectCallback`, `MonitorCallback`) live;
* `ConnectInv`: there is one connection attempt with one closure, which begins the
  monitoring of the client's socket and then of the server's;
* `PipeInv`: a socket has at most one callback that monitors it and has not been called,
  or else one closure that pipes from it. This is `OnePipePerSocket` made inductive;
* `PurgeInv`: `first_cb` points to the purge callback exactly as long as that one lives
  and has not been called, and it is cleared before `StartScheduling` ends;
* `ClientInv`: while the client stays, the callback that notices its end is returned
  only after the proxy itself shut the client's socket down, and this it does only for
  a connection that failed, whose closure does not go on to delete `second_cb`.

`ClientInv` is why `CallbacksAreSafe` is conditional: with the client gone the reactor
and `ConnectCallback` may both have the same callback in hand. For `ServerHeard`,
`HeardInv` says that each closure on its way to a shutdown of the client's side has seen
the server refuse, reset, or close with nothing left to read, and that the server's
side is shut down only after the flag of the client's was set.

Only model-checked: all liveness properties (fairness is beyond the prover),
`ReleasedAtRest`, which says with `ENABLED` that nothing can take a step, and
`ServedInOrder`, which needs the order of the queue beside that of the ids. Every other
property of a passing run is the subject of a theorem. `IdsIncrease` has no run of its
own: the ids are checked in `program`.
No module declares a recursive operator, and nothing is proved by induction over
data.

## Not modelled

* What `Job` and `Callback` store.
* Creating sockets, resolving and formatting addresses, flags, logging, start-up.
  A socket whose `connect` is refused is not closed by `client_connect_handler.cc`;
  the file client's model has no descriptors, and so says nothing of it: `CopiesEnd` is
  about copies, not about their sockets.
* `Dispatch` moves `job_p` from and reads its priority in the arguments of one call; the
  model has the order in which the priority is read first.
* A callback of `RunEveryT` that calls `RunEveryT` itself.
* Several connections at once through `Proxy`: `program` has two of them up to their
  scheduling, and `Proxy` follows one from there.
* The order in which `dans_proxy.cc` destroys its parts, where it differs from that of
  the throttling proxy.
* `thread_utility` (scheduling policy and priority: threads of the models run in any
  order), the tests and the scripts.

## Plan

Done, in this order: the lists and the multiqueue with its abstract
specification; scheduler and throttler on top of it; the file client; the reactor,
the communication handler and the proxy on top of it; pipe and statistics; the
proxy's program; proofs.

Next, in the model:

1. Two connections through `Proxy` with an abstract throttler, so that the purge
   of one races the admission of the other; then bytes that `Pipe` holds back
   across rounds, and the life of its buffer.
2. An abstract specification of the file client (a request is answered at most
   once, then every copy is dropped) and of a stage, each shown to be implemented.
3. Descriptors in the file client, and a server that sends a start index above the size.

Next, in proofs:

1. `Throttler`: each counter is the number of scheduled jobs, and so never below 0.
2. `Proxy` without the assumption of one worker, as far as it holds.
3. `ServedInOrder`, from the total order of each queue.
4. That a whole stage implements its abstract specification, once there is one.

-------------------------------- MODULE Proxy --------------------------------
(***************************************************************************)
(* One connection through the proxy: ReceivedConnection registers the      *)
(* client socket and queues the job; ProxyScheduler::StartScheduling       *)
(* registers it again and connects to the server; ConnectCallback then     *)
(* monitors both sockets, and MonitorCallback pipes bytes until one side   *)
(* closes.  The steps run on the communication handler's worker, on the    *)
(* scheduler's thread and on the executors' threads.                       *)
(*                                                                         *)
(* The job, and with it both sockets, lives as long as something holds a   *)
(* reference to it.  Pipe is one step here; module Pipe has its detail.    *)
(* Some definitions are preceded by a variant with a slip in it, which     *)
(* nothing uses: the properties are checked to fail with the variant.      *)
(***************************************************************************)
EXTENDS Epoll

CONSTANTS
  Senders,    \* the sockets whose peer sends anything
  MaxData,    \* how many chunks of bytes it sends at a time (a bound)
  MaxMonitor, \* how often a socket is monitored for input (a bound)
  Ends,       \* how a connection may end: "closed" or "reset"
  AtOnce      \* how connect() may end at once: "refused" or "open"

\* The sockets of the client and of the server, and the callbacks: the one that
\* purges, the one that notices that the client closed, the one for the
\* connection, and those that monitor a socket for input.
In == "in"
Out == "out"
Other(s) == IF s = In THEN Out ELSE In
PurgeCb == <<"purge", In, 1>>
CliClosedCb == <<"cli_closed", In, 1>>
ConnectCb == <<"connect", Out, 1>>
MonitorCb(s, k) == <<"monitor", s, k>>

ASSUME ProxyConstants ==
  /\ Sockets = {In, Out} /\ Senders \subseteq Sockets /\ MaxData \in Nat /\ MaxMonitor \in Nat \ {0, 1}
  /\ Ends \subseteq {"closed", "reset"} /\ AtOnce \subseteq {"refused", "open"}
  /\ Callbacks = {PurgeCb, CliClosedCb, ConnectCb}
                   \cup {MonitorCb(s, k) : s \in Sockets, k \in 1..MaxMonitor}

VARIABLES
  job,        \* where the job is: not yet there, in the multiqueue, purged there, or taken
  sched,      \* how far StartScheduling is with it
  tasks,      \* the closures submitted to the executors, and how far each is
  first_cb,   \* job_data->first_cb
  second_cb,  \* job_data->second_cb
  connected,  \* out->connection is set
  shut,       \* the sockets the proxy shut down
  _shutdown,  \* Connection::_shutdown of each socket
  peer,       \* what the peer did with its end
  error,      \* the sockets with an error nobody has read
  data        \* the chunks of bytes a peer sent and the proxy has not read

pipe == <<first_cb, second_cb, connected>>
net == <<shut, _shutdown, peer, error, data>>
vars == <<epoll, job, sched, tasks, pipe, net>>

\* A closure in an executor: the callback that submitted it, where it is, and
\* whether the socket was reported to have failed.
Task(c, err) == [cb |-> c, at |-> "start", err |-> err]
Kind(c) == c[1]
Soc(c) == c[2]

Init ==
  /\ EpollInit
  /\ job = "none" /\ sched = "dequeue" /\ tasks = {}
  /\ first_cb = NoCb /\ second_cb = NoCb /\ connected = FALSE
  /\ shut = {} /\ _shutdown = {}
  /\ peer = [s \in Sockets |-> IF s = In THEN "open" ELSE "none"]
  /\ error = {} /\ data = [s \in Sockets |-> 0]

\* The callbacks whose closure holds the job.
Holders == Callbacks \ {PurgeCb}

\* Something still holds the job; when nothing does its sockets are closed.
Held ==
  \/ job = "queued"
  \/ job = "taken" /\ sched # "done"
  \/ \E c \in Holders : heap[c] = "live"
  \/ \E t \in tasks : t.cb # PurgeCb
Released == job \in {"purged", "taken"} /\ ~Held

\* After a use of a deleted callback anything can happen: the model stops there.
Sane == misused = {}

\* A peer's end is gone, or the proxy shut the socket down.
Ended(s) == peer[s] \in {"closed", "reset"} \/ s \in shut

\* The sockets whose registration epoll would report, by what each asks for.
Ready ==
  {s \in Sockets : /\ ~Released
                   /\ CASE entry[s] \in {PurgeCb, CliClosedCb} -> Ended(s)
                        [] entry[s] = ConnectCb -> peer[s] \in {"refused", "open", "closed", "reset"}
                        [] OTHER -> data[s] > 0 \/ Ended(s)}

-------------------------------------------------------------------------------
(* The communication handler's worker.                                       *)

\* ReceivedConnection, called for an accepted client: register the purge callback,
\* and dispatch the job.
ReceivedConnection(w) ==
  /\ job = "none" /\ At(w, "wait")
  /\ MonitorFor(In, PurgeCb)
  /\ first_cb' = PurgeCb
  /\ job' = "queued"
  /\ UNCHANGED <<_events, loop, misused, sched, tasks, second_cb, connected, net>>

\* A timeout of epoll_wait would change nothing here.
Wait(w) ==
  /\ \E s \in Ready : entry[s] # NoCb
  /\ EpollWait(w, Ready)
  /\ UNCHANGED <<job, sched, tasks, pipe, net>>
Handle(w) == NextEvent(w) /\ UNCHANGED <<job, sched, tasks, pipe, net>>
Finish(w) == Ran(w) /\ UNCHANGED <<job, sched, tasks, pipe, net>>
EndOfRound(w) == Check(w, FALSE) /\ UNCHANGED <<job, sched, tasks, pipe, net>>

\* MonitorSocketReady, which reads the socket's error and so clears it, and the
\* callback given to it: the lambda of ReceivedConnection, CliClosedCallbackWrapper, ConnectCallbackWrapper or
\* MonitorCallbackWrapper.  Each submits its closure to an executor.
RunCallback(w) ==
  \E c \in Callbacks :
    /\ Calls(w, c)
    /\ tasks' = tasks \cup {Task(c, Soc(c) \in error)}
    /\ error' = error \ {Soc(c)}
    /\ first_cb' = IF c = PurgeCb THEN NoCb ELSE first_cb
    /\ second_cb' = IF c = CliClosedCb THEN NoCb ELSE second_cb
    /\ UNCHANGED <<entry, heap, job, sched, connected, shut, _shutdown, peer, data>>

CommWorker(w) ==
  Sane /\ (Wait(w) \/ Handle(w) \/ RunCallback(w) \/ Finish(w) \/ EndOfRound(w))

-------------------------------------------------------------------------------
(* The scheduler's thread: StartScheduling.                                  *)

\* Dequeue, when the throttler lets it.
Dequeue ==
  /\ Sane /\ sched = "dequeue" /\ job = "queued"
  /\ job' = "taken" /\ sched' = "monitor"
  /\ UNCHANGED <<epoll, tasks, pipe, net>>

\* Monitor, in the place of the purge callback ...
MonitorClient ==
  /\ sched = "monitor"
  /\ MonitorFor(In, CliClosedCb)
  /\ sched' = "assign"
  /\ UNCHANGED <<_events, loop, misused, job, tasks, pipe, net>>

\* ... whose result is then assigned.
AssignSecond ==
  /\ sched = "assign"
  /\ second_cb' = CliClosedCb
  /\ sched' = "connect"
  /\ UNCHANGED <<epoll, job, tasks, first_cb, connected, net>>

\* Connect: the connection is in progress and its socket registered, or connect()
\* ended at once, which the callback is told like a failure.
Connect ==
  /\ sched = "connect"
  /\ sched' = "clear"
  /\ \/ /\ MonitorFor(Out, ConnectCb)
        /\ peer' = [peer EXCEPT ![Out] = "connecting"]
        /\ UNCHANGED tasks
     \/ /\ \E r \in AtOnce : peer' = [peer EXCEPT ![Out] = r]
        /\ tasks' = tasks \cup {Task(ConnectCb, TRUE)}
        /\ UNCHANGED <<entry, heap>>
  /\ UNCHANGED <<_events, loop, misused, job, pipe, shut, _shutdown, error, data>>

\* `Clear resources of input': test first_cb, then delete what it holds.
TestFirst ==
  /\ sched = "clear"
  /\ sched' = IF first_cb # NoCb THEN "delete" ELSE "done"
  /\ UNCHANGED <<epoll, job, tasks, pipe, net>>

DeleteFirst ==
  /\ sched = "delete"
  /\ Delete(first_cb)
  /\ first_cb' = NoCb
  /\ sched' = "done"
  /\ UNCHANGED <<entry, _events, loop, job, tasks, second_cb, connected, net>>

Scheduling ==
  Sane /\ (MonitorClient \/ AssignSecond \/ Connect \/ TestFirst \/ DeleteFirst)

-------------------------------------------------------------------------------
(* The closures, on the executors' threads.                                  *)

Goto(t, at) == tasks' = (tasks \ {t}) \cup {[t EXCEPT !.at = at]}
End(t) == tasks' = tasks \ {t}

\* DStageProxy::Purge: the job goes if it is still queued.
Purge(t) ==
  /\ t.cb = PurgeCb
  /\ job' = IF job = "queued" THEN "purged" ELSE job
  /\ End(t)
  /\ UNCHANGED <<epoll, sched, pipe, net>>

\* TcpPipe::ShutdownOther(soc).  Nothing is shut down while the server's
\* connection is not there; otherwise soc is marked as shut down, and then the other
\* is shut down unless it is marked.
SetShutdown(t) ==
  /\ t.at = "flag"
  /\ IF Soc(t.cb) = In /\ ~connected
     THEN End(t) /\ UNCHANGED _shutdown
     ELSE Goto(t, "shutdown") /\ _shutdown' = _shutdown \cup {Soc(t.cb)}
  /\ UNCHANGED <<epoll, job, sched, pipe, shut, peer, error, data>>

ToShutItself(s) == {s} \ _shutdown
ToShut(s) == {Other(s)} \ _shutdown

Shutdown(t) ==
  /\ t.at = "shutdown"
  /\ shut' = shut \cup ToShut(Soc(t.cb))
  /\ _shutdown' = _shutdown \cup ToShut(Soc(t.cb))
  /\ End(t)
  /\ UNCHANGED <<epoll, job, sched, pipe, peer, error, data>>

\* CliClosedCallback: the client socket was monitored for no input, so either way
\* the server's is shut down.
CliClosedCallback(t) ==
  /\ t.cb = CliClosedCb /\ t.at = "start"
  /\ Goto(t, "flag")
  /\ UNCHANGED <<epoll, job, sched, pipe, net>>

\* ConnectCallback: the server's connection is there; if it failed, the client's is
\* shut down.
ConnectCallback(t) ==
  /\ t.cb = ConnectCb /\ t.at = "start"
  /\ connected' = TRUE
  /\ Goto(t, IF t.err THEN "flag" ELSE "client")
  /\ UNCHANGED <<epoll, job, sched, first_cb, second_cb, net>>

\* A new callback that monitors socket s for input.
Monitor(s) ==
  \E k \in 1..MaxMonitor :
    /\ \A i \in 1..(k - 1) : heap[MonitorCb(s, i)] # "unused"
    /\ MonitorFor(s, MonitorCb(s, k))

\* Otherwise both sockets are monitored, the client's first ...
MonitorBoth(t) ==
  /\ t.at \in {"client", "server"}
  /\ Monitor(IF t.at = "client" THEN In ELSE Out)
  /\ Goto(t, IF t.at = "client" THEN "server" ELSE "clear")
  /\ UNCHANGED <<_events, loop, misused, job, sched, pipe, net>>

\* ... and `Clear outdated resources of client callback'.
TestSecond(t) ==
  /\ t.at = "clear"
  /\ IF second_cb # NoCb THEN Goto(t, "delete") ELSE End(t)
  /\ UNCHANGED <<epoll, job, sched, pipe, net>>

DeleteSecond(t) ==
  /\ t.at = "delete"
  /\ Delete(second_cb)
  /\ second_cb' = NoCb
  /\ End(t)
  /\ UNCHANGED <<entry, _events, loop, job, sched, first_cb, connected, net>>

\* send() fails for certain on a socket that was shut down or reset, and sooner or
\* later on one whose peer closed.
SendFails(s) == s \in shut \/ peer[s] = "reset"
SendMayFail(s) == data[s] > 0 /\ Ended(Other(s))

\* What is left of socket s when Pipe has read up to its end.
LeftAtEnd(s) == IF Ended(s) THEN data[s] ELSE 0
Left(s) == 0

\* MonitorCallback: an error, or the end of the input, shuts the other socket down; a
\* failed send ends the closure; otherwise the socket is to be monitored again.
MonitorCallback(t) ==
  LET s == Soc(t.cb)
  IN  /\ Kind(t.cb) = "monitor" /\ t.at = "start"
      /\ \/ /\ t.err
            /\ Goto(t, "flag") /\ UNCHANGED data
         \/ /\ ~t.err /\ (data[s] > 0 => ~SendFails(Other(s)))
            /\ data' = [data EXCEPT ![s] = Left(s)]
            /\ Goto(t, IF Ended(s) THEN "flag" ELSE "again")
         \/ /\ ~t.err /\ SendMayFail(s)
            /\ data' = [data EXCEPT ![s] = @ - 1]
            /\ End(t)
      /\ UNCHANGED <<epoll, job, sched, pipe, shut, _shutdown, peer, error>>

AfterMonitorGoOn(t) == Goto(t, "start")
AfterMonitor(t) == End(t)

MonitorAgain(t) ==
  /\ t.at = "again"
  /\ Monitor(Soc(t.cb))
  /\ AfterMonitor(t)
  /\ UNCHANGED <<_events, loop, misused, job, sched, pipe, net>>

Closure(t) ==
  Sane /\ \/ Purge(t) \/ SetShutdown(t) \/ Shutdown(t) \/ CliClosedCallback(t)
          \/ ConnectCallback(t) \/ MonitorBoth(t) \/ TestSecond(t) \/ DeleteSecond(t)
          \/ MonitorCallback(t) \/ MonitorAgain(t)

-------------------------------------------------------------------------------
(* The client, the server and the network.                                   *)

ConnectEnds ==
  /\ peer[Out] = "connecting"
  /\ \E r \in {"refused", "open"} :
       /\ peer' = [peer EXCEPT ![Out] = r]
       /\ error' = IF r = "refused" THEN error \cup {Out} ELSE error
  /\ UNCHANGED <<epoll, job, sched, tasks, pipe, shut, _shutdown, data>>

\* A peer sends no more than the registrations of its socket suffice for.
Sends(s) ==
  /\ s \in Senders /\ peer[s] = "open" /\ data[s] < MaxData
  /\ heap[MonitorCb(s, MaxMonitor)] = "unused"
  /\ \A t \in tasks : t.cb # MonitorCb(s, MaxMonitor - 1)
  /\ data' = [data EXCEPT ![s] = @ + 1]
  /\ UNCHANGED <<epoll, job, sched, tasks, pipe, shut, _shutdown, peer, error>>

Closes(s) ==
  /\ peer[s] = "open"
  /\ \E r \in Ends :
       /\ peer' = [peer EXCEPT ![s] = r]
       /\ error' = IF r = "reset" THEN error \cup {s} ELSE error
  /\ UNCHANGED <<epoll, job, sched, tasks, pipe, shut, _shutdown, data>>

\* What they do once the sockets are closed is nothing to the proxy.
Environment ==
  Sane /\ ~Released /\ (ConnectEnds \/ (\E s \in Sockets : Sends(s) \/ Closes(s)))

Next ==
  \/ \E w \in Workers : ReceivedConnection(w) \/ CommWorker(w)
  \/ Dequeue \/ Scheduling
  \/ \E t \in tasks : Closure(t)
  \/ Environment

Spec == Init /\ [][Next]_vars

\* What moves by itself: the threads, and a connection attempt.  Nothing says that
\* the throttler ever lets the job go, or that a peer does anything.
Running ==
  \/ \E w \in Workers : CommWorker(w)
  \/ Scheduling
  \/ \E t \in tasks : Closure(t)
  \/ Sane /\ ConnectEnds

-------------------------------------------------------------------------------
(* Properties.                                                               *)

\* StartScheduling and ConnectCallback (`Clear resources of input', `Clear outdated
\* resources of client callback'): while the client stays, the callback they delete
\* is outdated.  No callback is called or deleted after it was deleted, however
\* connecting and piping end.  And the purge callback, as long as it is not deleted
\* itself, finds the job's data there, which it writes to through a pointer.
CallbacksAreSafe ==
  /\ peer[In] = "open" => misused = {}
  /\ \A w \in Workers :
       At(w, "call") /\ loop[w].cb = PurgeCb /\ heap[PurgeCb] = "live" => ~Released

\* MonitorCallback and the one-shot registrations: at no time do two closures pipe
\* from the same socket.
OnePipePerSocket ==
  \A t, u \in tasks :
    Kind(t.cb) = "monitor" /\ Kind(u.cb) = "monitor" /\ Soc(t.cb) = Soc(u.cb) => t = u

\* Pipe, MonitorCallback and ShutdownOther: the client is not cut off from what a
\* server sent before it closed.
ServerIsHeard ==
  In \in shut /\ peer[In] = "open" /\ peer[Out] = "closed" => data[Out] = 0

\* CliClosedCallback, ConnectCallback, MonitorCallback and the purge callback: after
\* either peer is gone, or the connection was refused, everything lets go of the job
\* and its sockets are closed, even if the throttler never lets it through.  So when
\* all threads have come to rest, none of them keeps the job of a peer that is gone.
ReleasedAtRest ==
  /\ job # "none" /\ misused = {}
  /\ peer[In] \in {"closed", "reset"} \/ peer[Out] \in {"refused", "closed", "reset"}
  /\ ~ENABLED Running
  => Released

===============================================================================

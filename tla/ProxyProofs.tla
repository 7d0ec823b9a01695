------------------------------ MODULE ProxyProofs ------------------------------
(***************************************************************************)
(* Proofs about Proxy: every step keeps the inductive invariant of         *)
(* ProxyLemmas, so that with one worker no callback is used after it was   *)
(* deleted and no socket has two pipes.                                    *)
(***************************************************************************)
EXTENDS ProxySteps

\* Steps of StartScheduling and Purge that leave the callbacks alone.
LEMMA SchedulingKeeps ==
  ASSUME ProxyInv, Dequeue \/ AssignSecond \/ TestFirst
  PROVE  ReactorTypes' /\ ReactorInv' /\ ConnectInv' /\ PipeInv' /\ PurgeInv' /\ ClientInv'
<1>0. /\ ReactorTypes /\ ReactorInv /\ JobTypes /\ ConnectInv /\ PipeInv /\ PurgeInv /\ ClientInv
  BY Zenon DEF ProxyInv
<1>1. UNCHANGED <<entry, heap, _events, loop, misused, tasks, first_cb, shut, peer>>
  BY DEF Dequeue, AssignSecond, TestFirst, epoll, pipe, net
<1>2. ReactorTypes' /\ ReactorInv'
  BY <1>0, <1>1, ReactorFrame
<1>3. SameCallbacks
  BY <1>1, SameEffect
<1>4. BeforeConnect' <=> BeforeConnect
  BY DEF Dequeue, AssignSecond, TestFirst, BeforeConnect
<1>5. ConnectInv' /\ PipeInv'
  BY <1>0, <1>1, <1>3, <1>4, ClosuresFrame DEF JobTypes
<1>6. /\ PurgeCb \in Callbacks /\ CliClosedCb \in Callbacks /\ ConnectCb \in Callbacks
      /\ PurgeCb # NoCb /\ CliClosedCb # NoCb
  BY CallbackFacts
<1>7. /\ Uncalled(PurgeCb)' <=> Uncalled(PurgeCb)
      /\ Uncalled(CliClosedCb)' <=> Uncalled(CliClosedCb)
      /\ Uncalled(ConnectCb)' <=> Uncalled(ConnectCb)
  BY <1>3, <1>6 DEF SameCallbacks
<1>8. PurgeInv'
  BY <1>0, <1>1, <1>6, <1>7 DEF PurgeInv, JobTypes, Dequeue, AssignSecond, TestFirst
<1>9. NotYet(In)' <=> NotYet(In)
  BY <1>1 DEF NotYet
<1>10. ConnectFailed' <=> ConnectFailed
  BY <1>1, <1>4, <1>7 DEF ConnectFailed
<1>11. \A c : Returned(c)' <=> Returned(c)
  BY <1>1, RoundFrame
<1>12. CASE Dequeue \/ TestFirst
  <2>1. /\ UNCHANGED second_cb
        /\ sched' \in {"dequeue", "monitor"} <=> sched \in {"dequeue", "monitor"}
        /\ sched' # "assign"
    BY <1>12 DEF Dequeue, TestFirst, pipe
  <2>2. ClientInv'
    BY Zenon, <1>0, <1>1, <1>4, <1>7, <1>9, <1>10, <1>11, <2>1 DEF ClientInv
  <2>. QED
    BY <1>2, <1>5, <1>8, <2>2
<1>13. CASE AssignSecond
  <2>1. sched = "assign" /\ sched' = "connect" /\ BeforeConnect
    BY <1>13 DEF AssignSecond, BeforeConnect
  <2>2. ~ConnectFailed
    BY <2>1 DEF ConnectFailed
  <2>3. peer[In] = "open" => ~Returned(CliClosedCb) /\ heap[CliClosedCb] = "live"
    BY <1>0, <2>1, <2>2 DEF ClientInv
  <2>4. peer[In] = "open" => Uncalled(CliClosedCb)
    BY <1>0, <2>3, RunningIsReturned DEF Uncalled
  <2>5. ClientInv'
    BY <1>0, <1>1, <1>4, <1>7, <1>9, <1>10, <1>11, <2>1, <2>4 DEF ClientInv
  <2>. QED
    BY <1>2, <1>5, <1>8, <2>5
<1>. QED
  BY <1>12, <1>13

\* The connection attempt: its socket is registered, or its closure submitted at once.
LEMMA ConnectKeeps ==
  ASSUME ProxyInv, Connect
  PROVE  ReactorTypes' /\ ReactorInv' /\ ConnectInv' /\ PipeInv' /\ PurgeInv' /\ ClientInv'
<1>0. /\ ReactorTypes /\ ReactorInv /\ JobTypes /\ ConnectInv /\ PipeInv /\ PurgeInv /\ ClientInv
  BY Zenon DEF ProxyInv
<1>1. /\ sched = "connect" /\ sched' = "clear" /\ BeforeConnect /\ ~BeforeConnect'
      /\ UNCHANGED <<_events, loop, misused, job, first_cb, second_cb, shut>>
  BY DEF Connect, pipe, BeforeConnect
<1>2. /\ In \in Sockets /\ Out \in Sockets /\ In # Out /\ Soc(ConnectCb) = Out
      /\ PurgeCb \in Callbacks /\ CliClosedCb \in Callbacks /\ ConnectCb \in Callbacks
      /\ CliClosedCb # ConnectCb /\ PurgeCb # ConnectCb /\ Kind(ConnectCb) = "connect"
  BY CallbackFacts
<1>3. peer'[In] = peer[In]
  BY Zenon, <1>0, <1>2 DEF Connect, JobTypes
<1>4. In \notin shut /\ ~ConnectFailed
  BY <1>0, <1>1 DEF ClientInv, ConnectFailed
<1>5. \A c : Returned(c)' <=> Returned(c)
  BY <1>1, RoundFrame
<1>6. tasks \subseteq Tasks
  BY <1>0 DEF JobTypes
<1>7. CASE MonitorFor(Out, ConnectCb) /\ UNCHANGED tasks
  <2>1. ReactorTypes' /\ ReactorInv' /\ Registered(ConnectCb)
    BY <1>0, <1>1, <1>2, <1>7, RegisterKeeps, RegisterEffect
  <2>2. ConnectInv' /\ PipeInv'
    BY <1>0, <1>1, <1>2, <1>6, <1>7, <2>1, ClosuresRegister
  <2>3. entry'[In] = entry[In] /\ heap'[CliClosedCb] = heap[CliClosedCb]
    BY Zenon, <1>0, <1>2, <1>7 DEF MonitorFor, ReactorTypes
  <2>4. PurgeInv'
    BY <1>0, <1>1, <1>2, <1>7, <2>1, <2>3, PurgeFrame DEF PurgeInv, Registered
  <2>5. NotYet(In)' <=> NotYet(In)
    BY <1>2, <2>1 DEF NotYet, Registered
  <2>6. Uncalled(CliClosedCb)' <=> Uncalled(CliClosedCb)
    BY <1>2, <2>1 DEF Registered
  <2>7. ClientInv'
    BY <1>0, <1>1, <1>3, <1>4, <1>5, <2>3, <2>5, <2>6 DEF ClientInv
  <2>. QED
    BY <2>1, <2>2, <2>4, <2>7
<1>8. CASE tasks' = tasks \cup {Task(ConnectCb, TRUE)} /\ UNCHANGED <<entry, heap>>
  <2> DEFINE t == Task(ConnectCb, TRUE)
  <2>0. t \in Tasks /\ t.cb = ConnectCb /\ t.at = "start"
    BY Zenon, <1>2, NewTask
  <2> HIDE DEF t
  <2>1. ReactorTypes' /\ ReactorInv' /\ SameCallbacks
    BY <1>0, <1>1, <1>8, ReactorFrame, SameEffect
  <2>2. \A s : NotYet(s)' <=> NotYet(s)
    BY <2>1, NotYetSame DEF SameCallbacks
  <2>3. /\ Uncalled(PurgeCb)' <=> Uncalled(PurgeCb)
        /\ Uncalled(CliClosedCb)' <=> Uncalled(CliClosedCb)
        /\ Uncalled(ConnectCb)' <=> Uncalled(ConnectCb)
    BY <1>2, <2>1 DEF SameCallbacks
  <2>4. ~Uncalled(ConnectCb) /\ tasks' = tasks \cup {t}
    BY <1>0, <1>1, <1>8 DEF ConnectInv, Uncalled, t
  <2>5. ConnectInv'
    BY Zenon, <1>0, <1>1, <1>2, <1>8, <2>0, <2>2, <2>3, <2>4 DEF ConnectInv
  <2>6. \A v \in tasks : v.cb \in Callbacks
    BY Zenon, <1>6, TaskFields
  <2>7. PipeInv'
    BY <1>0, <1>2, <2>0, <2>1, <2>4, <2>6 DEF PipeInv, SameCallbacks
  <2>8. PurgeInv'
    BY Zenon, <1>0, <1>1, <1>2, <1>8, <2>0, <2>3, <2>4, PurgeFrame DEF PurgeInv
  <2>9. ClientInv'
    BY Zenon, <1>0, <1>1, <1>3, <1>4, <1>5, <1>8, <2>2, <2>3 DEF ClientInv
  <2>. QED
    BY <2>1, <2>5, <2>7, <2>8, <2>9
<1>. QED
  BY Zenon, <1>7, <1>8 DEF Connect

\* The purge callback is deleted, unless it was called meanwhile.
LEMMA DeleteFirstKeeps ==
  ASSUME ProxyInv, DeleteFirst
  PROVE  ReactorTypes' /\ ReactorInv' /\ ConnectInv' /\ PipeInv' /\ PurgeInv' /\ ClientInv'
<1>0. /\ ReactorTypes /\ ReactorInv /\ JobTypes /\ ConnectInv /\ PipeInv /\ PurgeInv /\ ClientInv
  BY Zenon DEF ProxyInv
<1>1. /\ sched = "delete" /\ sched' = "done" /\ Delete(first_cb) /\ first_cb' = NoCb
      /\ UNCHANGED <<entry, _events, loop, job, tasks, second_cb, shut, peer>>
      /\ ~BeforeConnect /\ ~BeforeConnect'
  BY DEF DeleteFirst, net, BeforeConnect
<1>2. /\ In \in Sockets /\ Sockets = {In, Out} /\ In # Out /\ Soc(PurgeCb) = In
      /\ PurgeCb \in Callbacks /\ CliClosedCb \in Callbacks /\ ConnectCb \in Callbacks
      /\ CliClosedCb # PurgeCb /\ PurgeCb # ConnectCb /\ Kind(PurgeCb) = "purge"
      /\ PurgeCb # NoCb
  BY CallbackFacts
<1>3. \A c : Returned(c)' <=> Returned(c)
  BY <1>1, RoundFrame
<1>4. tasks \subseteq Tasks /\ first_cb \in {NoCb, PurgeCb}
  BY <1>0 DEF JobTypes
<1>5. CASE first_cb = NoCb
  <2>1. UNCHANGED <<heap, misused>>
    BY <1>1, <1>5 DEF Delete
  <2>2. ReactorTypes' /\ ReactorInv' /\ SameCallbacks
    BY <1>0, <1>1, <2>1, ReactorFrame, SameEffect
  <2>3. ConnectInv' /\ PipeInv'
    BY Zenon, <1>0, <1>1, <1>4, <2>2, ClosuresFrame
  <2>4. PurgeInv'
    BY Zenon, <1>0, <1>1, <1>2, <1>5, <2>2, PurgeFrame DEF PurgeInv, SameCallbacks
  <2>5. /\ NotYet(In)' <=> NotYet(In)
        /\ Uncalled(CliClosedCb)' <=> Uncalled(CliClosedCb)
        /\ Uncalled(ConnectCb)' <=> Uncalled(ConnectCb)
    BY <1>2, <2>2, NotYetSame DEF SameCallbacks
  <2>6. ConnectFailed' <=> ConnectFailed
    BY <1>1, <2>5 DEF ConnectFailed
  <2>7. ClientInv'
    BY <1>0, <1>1, <1>3, <2>1, <2>5, <2>6 DEF ClientInv
  <2>. QED
    BY <2>2, <2>3, <2>4, <2>7
<1>6. CASE first_cb = PurgeCb
  <2>1. Uncalled(PurgeCb) /\ heap[PurgeCb] = "live" /\ ~Kept(PurgeCb)
    BY Zenon, <1>0, <1>2, <1>6 DEF PurgeInv, Uncalled, Kept
  <2>2. \A s \in Sockets : entry[s] # PurgeCb
    BY <1>0, <1>1, <1>2 DEF PurgeInv, ReactorInv
  <2>3. /\ ReactorTypes' /\ ReactorInv' /\ heap' = [heap EXCEPT ![PurgeCb] = "deleted"]
    BY Zenon, <1>0, <1>1, <1>2, <1>6, <2>1, <2>2, DeleteKeeps
  <2>4. Gone(PurgeCb) /\ misused' = misused
    BY Zenon, <1>0, <1>1, <1>2, <1>6, <2>1, DeleteEffect DEF Delete, Use
  <2>5. /\ \A s : NotYet(s)' <=> NotYet(s)
        /\ Uncalled(CliClosedCb)' <=> Uncalled(CliClosedCb)
        /\ Uncalled(ConnectCb)' <=> Uncalled(ConnectCb)
        /\ heap'[CliClosedCb] = heap[CliClosedCb]
    BY <1>0, <1>2, <2>3, <2>4, NotYetSame DEF Gone, ReactorTypes
  <2>6. ConnectInv' /\ PipeInv'
    BY Zenon, <1>0, <1>1, <1>2, <1>4, <2>1, <2>4, ClosuresGone
  <2>7. PurgeInv'
    BY <1>0, <1>1, <1>2, <2>1, <2>4 DEF PurgeInv, Gone
  <2>8. ConnectFailed' <=> ConnectFailed
    BY <1>1, <2>5 DEF ConnectFailed
  <2>9. ClientInv'
    BY Zenon, <1>0, <1>1, <1>3, <2>4, <2>5, <2>8 DEF ClientInv
  <2>. QED
    BY <2>3, <2>6, <2>7, <2>9
<1>. QED
  BY <1>4, <1>5, <1>6

\* Closures that leave the reactor and the sockets alone.
LEMMA QuietKeeps ==
  ASSUME ProxyInv, ConnectInv', PipeInv', ConnectFailed => ConnectFailed',
         UNCHANGED <<epoll, sched, first_cb, second_cb, shut, peer>>,
         job' = job \/ (job' = "purged" /\ job # "none" /\ ~Uncalled(PurgeCb)),
         \A t \in tasks' : t.cb = PurgeCb => \E u \in tasks : u.cb = PurgeCb
  PROVE  ReactorTypes' /\ ReactorInv' /\ ConnectInv' /\ PipeInv' /\ PurgeInv' /\ ClientInv'
<1>0. /\ ReactorTypes /\ ReactorInv /\ PurgeInv /\ ClientInv
  BY Zenon DEF ProxyInv
<1>1. UNCHANGED <<entry, heap, _events, loop, misused>>
  BY DEF epoll
<1>2. ReactorTypes' /\ ReactorInv' /\ SameCallbacks
  BY Zenon, <1>0, <1>1, ReactorFrame, SameEffect
<1>3. /\ Uncalled(PurgeCb)' <=> Uncalled(PurgeCb)
      /\ Uncalled(CliClosedCb)' <=> Uncalled(CliClosedCb)
  BY <1>2, CallbackFacts DEF SameCallbacks
<1>4. PurgeInv'
  BY <1>0, <1>1, <1>3 DEF PurgeInv
<1>5. NotYet(In)' <=> NotYet(In)
  BY <1>1 DEF NotYet
<1>6. \A c : Returned(c)' <=> Returned(c)
  BY <1>1, RoundFrame
<1>7. ClientInv'
  BY <1>0, <1>1, <1>3, <1>5, <1>6, ClientFrame
<1>. QED
  BY <1>2, <1>4, <1>7

LEMMA QuietEnds ==
  ASSUME ProxyInv, NEW t \in tasks, End(t),
         UNCHANGED <<epoll, sched, first_cb, second_cb, shut, peer>>,
         job' = job \/ (job' = "purged" /\ job # "none" /\ ~Uncalled(PurgeCb))
  PROVE  ReactorTypes' /\ ReactorInv' /\ ConnectInv' /\ PipeInv' /\ PurgeInv' /\ ClientInv'
<1>1. tasks' \subseteq tasks /\ tasks \subseteq Tasks
  BY DEF End, ProxyInv, JobTypes
<1>2. SameCallbacks
  BY SameEffect DEF epoll
<1>3. ConnectInv' /\ PipeInv'
  BY <1>1, <1>2, ClosuresFrame DEF ProxyInv, BeforeConnect
<1>4. ConnectFailed => ConnectFailed'
  BY Zenon, <1>1, <1>2, FailedFrame, CallbackFacts DEF SameCallbacks
<1>. QED
  BY <1>1, <1>3, <1>4, QuietKeeps

LEMMA QuietMoves ==
  ASSUME ProxyInv, NEW t \in tasks, NEW a \in TaskAt, Goto(t, a),
         UNCHANGED <<epoll, job, sched, first_cb, second_cb, shut, peer>>,
         a \in {"client", "delete"} => t.cb = ConnectCb /\ ~t.err,
         a \notin {"start", "server", "clear"},
         a = "again" => Kind(t.cb) = "monitor",
         a = "client" => NotYet(In) /\ NotYet(Out) /\ t.at = "start",
         a = "delete" => t.at = "clear"
  PROVE  ReactorTypes' /\ ReactorInv' /\ ConnectInv' /\ PipeInv' /\ PurgeInv' /\ ClientInv'
<1>1. tasks \subseteq Tasks /\ ConnectInv /\ PipeInv
  BY DEF ProxyInv, JobTypes
<1>2. PICK u \in Tasks : /\ tasks' = (tasks \ {t}) \cup {u}
                         /\ u.cb = t.cb /\ u.err = t.err /\ u.at = a
  BY Zenon, <1>1, Moved
<1>3. SameCallbacks
  BY Zenon, SameEffect DEF epoll
<1>4. a = "delete" => ~NotYet(In)
  BY <1>1 DEF ConnectInv
<1>5. ConnectInv' /\ PipeInv'
  BY <1>1, <1>3, <1>4, ClosuresMove DEF TaskAt
<1>6. ASSUME ConnectFailed PROVE ConnectFailed'
  <2>1. t.cb = ConnectCb => t.at \in {"flag", "shutdown"} \/ (t.at = "start" /\ t.err)
    BY <1>6 DEF ConnectFailed
  <2>2. t.cb = ConnectCb => a \notin {"again", "client", "delete"}
    BY Zenon, <1>1, <2>1, CallbackFacts
  <2>3. Uncalled(ConnectCb)' <=> Uncalled(ConnectCb)
    BY <1>3, CallbackFacts DEF SameCallbacks
  <2>. QED
    BY <1>2, <1>6, <2>2, <2>3, FailedFrame DEF TaskAt
<1>7. \A v \in tasks' : v.cb = PurgeCb => \E x \in tasks : x.cb = PurgeCb
  BY <1>2
<1>. QED
  BY <1>5, <1>6, <1>7, QuietKeeps

LEMMA QuietClosures ==
  ASSUME ProxyInv, NEW t \in tasks,
         \/ Purge(t) \/ SetShutdown(t) \/ CliClosedCallback(t) \/ ConnectCallback(t)
         \/ TestSecond(t) \/ MonitorCallback(t)
  PROVE  ReactorTypes' /\ ReactorInv' /\ ConnectInv' /\ PipeInv' /\ PurgeInv' /\ ClientInv'
<1>0. ConnectInv /\ PurgeInv /\ JobTypes
  BY Zenon DEF ProxyInv
<1>1. CASE Purge(t)
  BY Zenon, <1>0, <1>1, QuietEnds DEF Purge, pipe, net, PurgeInv
<1>2. CASE SetShutdown(t)
  BY <1>2, QuietEnds, QuietMoves DEF SetShutdown, pipe, TaskAt
<1>3. CASE CliClosedCallback(t)
  BY <1>3, QuietMoves DEF CliClosedCallback, pipe, net, TaskAt
<1>4. CASE ConnectCallback(t)
  <2>1. t.err \in BOOLEAN
    BY Zenon, <1>0, TaskFields DEF JobTypes
  <2>2. t.cb = ConnectCb /\ t.at = "start" /\ NotYet(In) /\ NotYet(Out)
    BY <1>0, <1>4 DEF ConnectCallback, ConnectInv
  <2>3. UNCHANGED <<epoll, job, sched, first_cb, second_cb, shut, peer>>
    BY <1>4 DEF ConnectCallback, net
  <2>4. CASE t.err
    BY Zenon, <1>4, <2>3, <2>4, QuietMoves DEF ConnectCallback, TaskAt
  <2>5. CASE ~t.err
    BY <1>4, <2>2, <2>3, <2>5, QuietMoves DEF ConnectCallback, TaskAt
  <2>. QED
    BY <2>1, <2>4, <2>5
<1>5. CASE TestSecond(t)
  <2>1. t.cb = ConnectCb /\ ~t.err
    BY Zenon, <1>0, <1>5 DEF TestSecond, ConnectInv
  <2>. QED
    BY Zenon, <1>5, <2>1, QuietEnds, QuietMoves DEF TestSecond, pipe, net, TaskAt
<1>6. CASE MonitorCallback(t)
  BY <1>6, QuietEnds, QuietMoves DEF MonitorCallback, pipe, TaskAt
<1>. QED
  BY <1>1, <1>2, <1>3, <1>4, <1>5, <1>6

\* The client's socket is shut down only after the connection failed, or after input
\* of the server was monitored.
LEMMA ShutdownKeeps ==
  ASSUME ProxyInv, NEW t \in tasks, Shutdown(t)
  PROVE  ReactorTypes' /\ ReactorInv' /\ ConnectInv' /\ PipeInv' /\ PurgeInv' /\ ClientInv'
<1>0. /\ ReactorTypes /\ ReactorInv /\ JobTypes /\ ConnectInv /\ PipeInv /\ PurgeInv /\ ClientInv
  BY Zenon DEF ProxyInv
<1>1. /\ t.at = "shutdown" /\ shut' = shut \cup ToShut(Soc(t.cb)) /\ tasks' = tasks \ {t}
      /\ UNCHANGED <<entry, heap, _events, loop, misused, job, sched, first_cb, second_cb, peer>>
  BY DEF Shutdown, End, epoll, pipe
<1>2. tasks \subseteq Tasks /\ t.cb \in Callbacks
  BY <1>0, TaskFields DEF JobTypes
<1>3. ReactorTypes' /\ ReactorInv' /\ SameCallbacks
  BY <1>0, <1>1, ReactorFrame, SameEffect
<1>4. BeforeConnect' <=> BeforeConnect
  BY <1>1 DEF BeforeConnect
<1>5. ConnectInv' /\ PipeInv'
  BY <1>0, <1>1, <1>2, <1>3, <1>4, ClosuresFrame
<1>6. /\ Uncalled(PurgeCb)' <=> Uncalled(PurgeCb)
      /\ Uncalled(CliClosedCb)' <=> Uncalled(CliClosedCb)
      /\ Uncalled(ConnectCb)' <=> Uncalled(ConnectCb)
  BY Zenon, <1>3, CallbackFacts DEF SameCallbacks
<1>7. PurgeInv'
  BY Zenon, <1>0, <1>1, <1>6, PurgeFrame DEF PurgeInv
<1>8. NotYet(In)' <=> NotYet(In)
  BY <1>1 DEF NotYet
<1>9. ConnectFailed => ConnectFailed'
  BY <1>1, <1>6, FailedFrame
<1>10. ASSUME In \in shut', In \notin shut
       PROVE  ~BeforeConnect /\ (NotYet(In) => ConnectFailed')
  <2>1. Soc(t.cb) = Out
    BY Zenon, <1>1, <1>2, <1>10, CallbackFacts DEF ToShut
  <2>2. t.cb = ConnectCb \/ Kind(t.cb) = "monitor"
    BY <1>2, <2>1, CallbackFacts
  <2>3. CASE t.cb = ConnectCb
    <3>1. ~BeforeConnect /\ ~Uncalled(ConnectCb)
      BY Zenon, <1>0, <2>3 DEF ConnectInv
    <3>2. \A u \in tasks' : u.cb # ConnectCb
      BY Zenon, <1>0, <1>1, <2>3 DEF ConnectInv
    <3>. QED
      BY <1>4, <1>6, <3>1, <3>2 DEF ConnectFailed
  <2>4. CASE Kind(t.cb) = "monitor"
    <3>1. ~NotYet(Out)
      BY <1>0, <1>2, <2>1, <2>4 DEF PipeInv, NotYet
    <3>. QED
      BY Zenon, <1>0, <3>1 DEF ConnectInv
  <2>. QED
    BY Zenon, <2>2, <2>3, <2>4
<1>11. \A c : Returned(c)' <=> Returned(c)
  BY Zenon, <1>1, RoundFrame
<1>12. ClientInv'
  BY Zenon, <1>0, <1>1, <1>4, <1>6, <1>8, <1>9, <1>10, <1>11 DEF ClientInv
<1>. QED
  BY <1>3, <1>5, <1>7, <1>12

\* A socket is monitored for input, the first time or again.
LEMMA MonitorKeeps ==
  ASSUME ProxyInv, NEW t \in tasks, MonitorBoth(t) \/ MonitorAgain(t)
  PROVE  ReactorTypes' /\ ReactorInv' /\ ConnectInv' /\ PipeInv' /\ PurgeInv' /\ ClientInv'
<1>0. /\ ReactorTypes /\ ReactorInv /\ JobTypes /\ ConnectInv /\ PipeInv /\ PurgeInv /\ ClientInv
  BY Zenon DEF ProxyInv
<1>1. /\ UNCHANGED <<_events, loop, misused, job, sched, first_cb, second_cb, shut, peer>>
      /\ tasks \subseteq Tasks /\ t.cb \in Callbacks /\ Soc(t.cb) \in Sockets
  BY <1>0, TaskFields DEF MonitorBoth, MonitorAgain, pipe, net, JobTypes
<1>2. /\ In \in Sockets /\ Out \in Sockets /\ In # Out
      /\ PurgeCb \in Callbacks /\ CliClosedCb \in Callbacks /\ ConnectCb \in Callbacks
      /\ Kind(PurgeCb) # "monitor" /\ Kind(CliClosedCb) # "monitor" /\ Kind(ConnectCb) # "monitor"
  BY CallbackFacts
<1> DEFINE s == IF t.at = "client" THEN In ELSE IF t.at = "server" THEN Out ELSE Soc(t.cb)
<1>3. s \in Sockets /\ Monitor(s)
  BY Zenon, <1>1, <1>2 DEF MonitorBoth, MonitorAgain
<1>4. \/ /\ t.at = "client" /\ s = In /\ Goto(t, "server") /\ t.cb = ConnectCb
      \/ /\ t.at = "server" /\ s = Out /\ Goto(t, "clear") /\ t.cb = ConnectCb
      \/ /\ t.at = "again" /\ s = Soc(t.cb) /\ End(t) /\ Kind(t.cb) = "monitor"
  BY <1>0 DEF MonitorBoth, MonitorAgain, AfterMonitor, ConnectInv
<1> HIDE DEF s
<1>5. PICK k \in 1..MaxMonitor : MonitorFor(s, MonitorCb(s, k))
  BY <1>3 DEF Monitor
<1> DEFINE c == MonitorCb(s, k)
<1>6. c \in Callbacks /\ Kind(c) = "monitor" /\ Soc(c) = s /\ MonitorFor(s, c)
  BY <1>3, <1>5, CallbackFacts
<1> HIDE DEF c
<1>7. ReactorTypes' /\ ReactorInv' /\ Registered(c)
  BY Zenon, <1>0, <1>1, <1>3, <1>6, RegisterKeeps, RegisterEffect
<1>8. /\ t.at \in {"client", "server"} => NotYet(s)
      /\ t.at = "again" => ~NotYet(s)
      /\ t.at = "server" => ~NotYet(In)
  BY Zenon, <1>0, <1>1, <1>4 DEF ConnectInv, PipeInv, NotYet
<1>9. ~BeforeConnect /\ ~Uncalled(ConnectCb)
  BY Zenon, <1>0, <1>2, <1>3, <1>4, <1>8, CallbackFacts DEF ConnectInv
<1>10. \A d \in Callbacks : Kind(d) = "monitor" /\ Soc(d) = s => ~Uncalled(d)
  <2>1. CASE t.at \in {"client", "server"}
    BY Zenon, <1>8, <2>1 DEF NotYet, Uncalled
  <2>2. CASE t.at = "again"
    BY Zenon, <1>0, <1>4, <2>2 DEF PipeInv
  <2>. QED
    BY <1>4, <2>1, <2>2
<1>11. \/ /\ t.cb = ConnectCb /\ NotYet(s)
          /\ \E u \in Tasks : /\ tasks' = (tasks \ {t}) \cup {u}
                              /\ u.cb = t.cb /\ u.err = t.err
                              /\ \/ t.at = "client" /\ s = In /\ u.at = "server"
                                 \/ t.at = "server" /\ s = Out /\ u.at = "clear"
       \/ Kind(t.cb) = "monitor" /\ Soc(t.cb) = s /\ tasks' = tasks \ {t}
  <2>0. "server" \in TaskAt /\ "clear" \in TaskAt
    BY DEF TaskAt
  <2>1. CASE t.at = "client"
    <3>1. Goto(t, "server") /\ t.cb = ConnectCb /\ s = In
      BY <1>4, <2>1
    <3>2. \E u \in Tasks : /\ tasks' = (tasks \ {t}) \cup {u}
                           /\ u.cb = t.cb /\ u.err = t.err /\ u.at = "server"
      BY Zenon, <1>1, <2>0, <3>1, Moved
    <3>. QED
      BY <1>8, <2>1, <3>1, <3>2
  <2>2. CASE t.at = "server"
    <3>1. Goto(t, "clear") /\ t.cb = ConnectCb /\ s = Out
      BY <1>4, <2>2
    <3>2. \E u \in Tasks : /\ tasks' = (tasks \ {t}) \cup {u}
                           /\ u.cb = t.cb /\ u.err = t.err /\ u.at = "clear"
      BY Zenon, <1>1, <2>0, <3>1, Moved
    <3>. QED
      BY <1>8, <2>2, <3>1, <3>2
  <2>3. CASE t.at = "again"
    BY <1>4, <2>3 DEF End
  <2>. QED
    BY <1>4, <2>1, <2>2, <2>3
<1>12. tasks' \subseteq Tasks /\ \A u \in tasks' : \E v \in tasks : u.cb = v.cb
  BY Zenon, <1>1, <1>11
<1>13. ConnectInv' /\ PipeInv'
  BY Zenon, <1>0, <1>1, <1>3, <1>6, <1>7, <1>9, <1>10, <1>11, <1>12, ClosuresMonitor
<1>14. /\ entry'[In] = IF s = In THEN c ELSE entry[In]
       /\ heap'[CliClosedCb] = heap[CliClosedCb]
  BY Zenon, <1>0, <1>2, <1>3, <1>6 DEF MonitorFor, ReactorTypes
<1>15. /\ Uncalled(PurgeCb)' <=> Uncalled(PurgeCb)
       /\ heap'[PurgeCb] = "unused" <=> heap[PurgeCb] = "unused"
       /\ Uncalled(CliClosedCb)' <=> Uncalled(CliClosedCb)
       /\ Uncalled(ConnectCb)' <=> Uncalled(ConnectCb)
       /\ c \notin {PurgeCb, CliClosedCb}
  BY Zenon, <1>2, <1>6, <1>7 DEF Registered
<1>16. PurgeInv'
  BY Zenon, <1>0, <1>1, <1>12, <1>14, <1>15, PurgeFrame DEF PurgeInv
<1>17. \A d : Returned(d)' <=> Returned(d)
  BY <1>1, RoundFrame
<1>18. t.cb = ConnectCb => ~ConnectFailed
  BY <1>2, <1>4 DEF ConnectFailed
<1>19. CASE s = In
  <2>1. ~NotYet(In)' /\ entry'[In] # CliClosedCb
    BY Zenon, <1>6, <1>7, <1>14, <1>15, <1>19 DEF NotYet, Registered
  <2>2. ConnectFailed => ConnectFailed'
    BY <1>1, <1>11, <1>15, <1>18, FailedFrame
  <2>3. BeforeConnect' <=> BeforeConnect
    BY Zenon, <1>1 DEF BeforeConnect
  <2>4. ClientInv'
    BY Zenon, <1>0, <1>1, <1>14, <1>15, <1>17, <2>1, <2>2, <2>3 DEF ClientInv
  <2>. QED
    BY Zenon, <1>7, <1>13, <1>16, <2>4
<1>20. CASE s # In
  <2>1. NotYet(In)' <=> NotYet(In)
    BY Zenon, <1>6, <1>7, <1>20 DEF NotYet, Registered
  <2>2. ConnectFailed => ConnectFailed'
    BY <1>1, <1>11, <1>15, <1>18, FailedFrame
  <2>3. ClientInv'
    BY Zenon, <1>0, <1>1, <1>14, <1>15, <1>17, <1>20, <2>1, <2>2, ClientFrame
  <2>. QED
    BY <1>7, <1>13, <1>16, <2>3
<1>. QED
  BY <1>19, <1>20

\* The outdated callback of the client is deleted, unless it was called meanwhile.
LEMMA DeleteSecondKeeps ==
  ASSUME ProxyInv, NEW t \in tasks, DeleteSecond(t)
  PROVE  ReactorTypes' /\ ReactorInv' /\ ConnectInv' /\ PipeInv' /\ PurgeInv' /\ ClientInv'
<1>0. /\ ReactorTypes /\ ReactorInv /\ JobTypes /\ ConnectInv /\ PipeInv /\ PurgeInv /\ ClientInv
  BY Zenon DEF ProxyInv
<1>1. /\ t.at = "delete" /\ Delete(second_cb) /\ second_cb' = NoCb /\ tasks' = tasks \ {t}
      /\ UNCHANGED <<entry, _events, loop, job, sched, first_cb, shut, peer>>
  BY DEF DeleteSecond, End, net
<1>2. /\ Sockets = {In, Out} /\ In # Out /\ Soc(CliClosedCb) = In
      /\ PurgeCb \in Callbacks /\ CliClosedCb \in Callbacks /\ ConnectCb \in Callbacks
      /\ CliClosedCb # PurgeCb /\ CliClosedCb # ConnectCb /\ Kind(CliClosedCb) = "cli_closed"
      /\ CliClosedCb # NoCb
  BY CallbackFacts
<1>3. \A c : Returned(c)' <=> Returned(c)
  BY <1>1, RoundFrame
<1>4. tasks \subseteq Tasks /\ second_cb \in {NoCb, CliClosedCb}
  BY Zenon, <1>0 DEF JobTypes
<1>5. t.cb = ConnectCb /\ ~NotYet(In) /\ ~BeforeConnect /\ ~ConnectFailed
  BY <1>0, <1>1 DEF ConnectInv, ConnectFailed
<1>6. BeforeConnect' <=> BeforeConnect
  BY Zenon, <1>1 DEF BeforeConnect
<1>7. CASE second_cb = NoCb
  <2>1. UNCHANGED <<heap, misused>>
    BY <1>1, <1>7 DEF Delete
  <2>2. ReactorTypes' /\ ReactorInv' /\ SameCallbacks
    BY <1>0, <1>1, <2>1, ReactorFrame, SameEffect
  <2>3. ConnectInv' /\ PipeInv'
    BY Zenon, <1>0, <1>1, <1>4, <1>6, <2>2, ClosuresFrame
  <2>4. PurgeInv'
    BY Zenon, <1>0, <1>1, <1>2, <2>2, PurgeFrame DEF PurgeInv, SameCallbacks
  <2>5. NotYet(In)' <=> NotYet(In)
    BY Zenon, <2>2, NotYetSame DEF SameCallbacks
  <2>6. ClientInv'
    BY Zenon, <1>0, <1>1, <1>2, <1>3, <1>5, <1>6, <2>1, <2>5 DEF ClientInv
  <2>. QED
    BY <2>2, <2>3, <2>4, <2>6
<1>8. CASE second_cb = CliClosedCb
  <2>1. heap[CliClosedCb] # "unused" /\ ~Kept(CliClosedCb)
    BY Zenon, <1>0, <1>2, <1>5 DEF ClientInv, Kept, BeforeConnect
  <2>2. \A s \in Sockets : entry[s] # CliClosedCb
    BY Zenon, <1>0, <1>2, <1>5 DEF ClientInv, ReactorInv
  <2>3. ReactorTypes' /\ ReactorInv' /\ heap' = [heap EXCEPT ![CliClosedCb] = "deleted"]
    BY <1>0, <1>1, <1>2, <1>8, <2>1, <2>2, DeleteKeeps
  <2>4. Gone(CliClosedCb)
    BY Zenon, <1>0, <1>1, <1>2, <1>8, <2>1, DeleteEffect
  <2>5. peer[In] = "open" => misused' = misused
    BY <1>0, <1>1, <1>2, <1>8 DEF ClientInv, Uncalled, Delete, Use
  <2>6. ConnectInv' /\ PipeInv'
    BY Zenon, <1>0, <1>1, <1>2, <1>4, <1>6, <2>1, <2>4, ClosuresGone
  <2>7. PurgeInv'
    BY Zenon, <1>0, <1>1, <1>2, <2>4, PurgeFrame DEF PurgeInv, Gone
  <2>8. /\ NotYet(In)' <=> NotYet(In)
        /\ heap'[CliClosedCb] = "unused" <=> heap[CliClosedCb] = "unused"
        /\ sched # "assign"
    BY Zenon, <1>2, <1>5, <2>4, NotYetSame DEF Gone, BeforeConnect
  <2>9. ClientInv'
    BY Zenon, <1>0, <1>1, <1>2, <1>3, <1>5, <1>6, <2>5, <2>8 DEF ClientInv
  <2>. QED
    BY Zenon, <2>3, <2>6, <2>7, <2>9
<1>. QED
  BY <1>4, <1>7, <1>8

\* The peers and the network touch nothing of the proxy's.
LEMMA EnvironmentKeeps ==
  ASSUME ProxyInv, Environment \/ UNCHANGED vars
  PROVE  ReactorTypes' /\ ReactorInv' /\ ConnectInv' /\ PipeInv' /\ PurgeInv' /\ ClientInv'
<1>0. /\ ReactorTypes /\ ReactorInv /\ JobTypes /\ ConnectInv /\ PipeInv /\ PurgeInv /\ ClientInv
  BY Zenon DEF ProxyInv
<1>1. UNCHANGED <<entry, heap, _events, loop, misused, job, sched, tasks, first_cb, second_cb, shut>>
  BY Zenon DEF Environment, ConnectEnds, Sends, Closes, vars, epoll, pipe, net
<1>2. ReactorTypes' /\ ReactorInv' /\ SameCallbacks
  BY <1>0, <1>1, ReactorFrame, SameEffect
<1>3. BeforeConnect' <=> BeforeConnect
  BY <1>1 DEF BeforeConnect
<1>4. ConnectInv' /\ PipeInv'
  BY Zenon, <1>0, <1>1, <1>2, <1>3, ClosuresFrame DEF JobTypes
<1>5. PurgeInv'
  BY Zenon, <1>0, <1>1, <1>2, PurgeFrame, CallbackFacts DEF PurgeInv, SameCallbacks
<1>6. NotYet(In)' <=> NotYet(In)
  BY <1>1 DEF NotYet
<1>7. \A c : Returned(c)' <=> Returned(c)
  BY Zenon, <1>1, RoundFrame
<1>8. ConnectFailed => ConnectFailed'
  BY Zenon, <1>1, <1>2, FailedFrame, CallbackFacts DEF SameCallbacks
<1>9. Uncalled(CliClosedCb)' <=> Uncalled(CliClosedCb)
  BY <1>2, CallbackFacts DEF SameCallbacks
<1>10. peer'[In] = "open" => peer[In] = "open"
  <2>0. DOMAIN peer = {In, Out} /\ In # Out
    BY <1>0, CallbackFacts DEF JobTypes
  <2>1. CASE ConnectEnds
    BY <2>0, <2>1 DEF ConnectEnds
  <2>2. CASE \E s \in Sockets : Closes(s)
    BY Zenon, <2>0, <2>2, ProxyConstants DEF Closes
  <2>3. CASE (\E s \in Sockets : Sends(s)) \/ UNCHANGED vars
    BY <2>3 DEF Sends, vars, net
  <2>. QED
    BY Zenon, <2>1, <2>2, <2>3 DEF Environment
<1>11. ClientInv'
  BY Zenon, <1>0, <1>1, <1>6, <1>7, <1>8, <1>9, <1>10, ClientFrame
<1>. QED
  BY <1>2, <1>4, <1>5, <1>11

LEMMA ProxyInit == Init => ProxyInv
<1>. SUFFICES ASSUME Init PROVE ProxyInv
  OBVIOUS
<1>1. JobTypes
  BY JobInit
<1>2. /\ entry = [s \in Sockets |-> NoCb] /\ heap = [c \in Callbacks |-> "unused"]
      /\ _events = [k \in 1..MaxEvents |-> NoCb]
      /\ loop = [w \in Workers |-> [pc |-> "wait", n |-> 0, i |-> 1, cb |-> NoCb]]
      /\ misused = {} /\ job = "none" /\ sched = "dequeue" /\ tasks = {}
      /\ first_cb = NoCb /\ second_cb = NoCb /\ shut = {}
  BY DEF Init, EpollInit
<1>3. /\ In \in Sockets /\ NoCb \notin Callbacks
      /\ PurgeCb \in Callbacks /\ CliClosedCb \in Callbacks /\ ConnectCb \in Callbacks
  BY CallbackFacts
<1>4. \A w \in Workers : loop[w].pc = "wait"
  BY <1>2
<1>5. ReactorTypes
  <2>1. [pc |-> "wait", n |-> 0, i |-> 1, cb |-> NoCb] \in Place
    BY EpollConstants DEF Place
  <2>. QED
    BY <1>2, <2>1 DEF ReactorTypes
<1>6. ReactorInv
  BY <1>2, <1>4 DEF ReactorInv, InRound
<1>7. \A c \in Callbacks : heap[c] = "unused" /\ ~Uncalled(c)
  BY <1>2 DEF Uncalled
<1>8. \A s : NotYet(s)
  BY <1>7 DEF NotYet
<1>9. BeforeConnect
  BY Zenon, <1>2 DEF BeforeConnect
<1>10. ConnectInv
  BY Zenon, <1>2, <1>3, <1>7, <1>8, <1>9 DEF ConnectInv
<1>11. PipeInv
  BY Zenon, <1>2, <1>7 DEF PipeInv
<1>12. PurgeInv
  BY <1>2, <1>3, <1>7 DEF PurgeInv
<1>13. \A c : ~Returned(c)
  BY Zenon, <1>4 DEF Returned, InRound
<1>14. ClientInv
  BY Zenon, <1>2, <1>3, <1>7, <1>8, <1>13 DEF ClientInv
<1>. QED
  BY <1>1, <1>5, <1>6, <1>10, <1>11, <1>12, <1>14 DEF ProxyInv

LEMMA ProxyStep ==
  ASSUME OneWorker, ProxyInv, [Next]_vars
  PROVE  ProxyInv'
<1>0. JobTypes'
  BY JobStep DEF ProxyInv
<1>1. CASE \E w \in Workers : ReceivedConnection(w) \/ CommWorker(w)
  BY Zenon, <1>0, <1>1, ReceiveKeeps, LoopKeeps, RunKeeps DEF CommWorker, ProxyInv
<1>2. CASE Dequeue \/ Scheduling
  BY Zenon, <1>0, <1>2, MonitorClientKeeps, SchedulingKeeps, ConnectKeeps, DeleteFirstKeeps
  DEF Scheduling, ProxyInv
<1>3. CASE \E t \in tasks : Closure(t)
  BY Zenon, <1>0, <1>3, QuietClosures, ShutdownKeeps, MonitorKeeps, DeleteSecondKeeps
  DEF Closure, ProxyInv
<1>4. CASE Environment \/ UNCHANGED vars
  BY <1>0, <1>4, EnvironmentKeeps DEF ProxyInv
<1>. QED
  BY <1>1, <1>2, <1>3, <1>4 DEF Next

LEMMA ProxyInvariance == ASSUME OneWorker PROVE Spec => []ProxyInv
BY ProxyInit, ProxyStep, PTL DEF Spec

\* With one worker, and while the client stays, no callback is called or deleted after
\* it was deleted, although StartScheduling, ConnectCallback and the worker delete the
\* same callbacks on three threads; and the purge callback, while it lives, finds the
\* job's data there.
THEOREM CallbacksSafe == ASSUME OneWorker PROVE Spec => []CallbacksAreSafe
<1>1. ProxyInv => CallbacksAreSafe
  <2>. SUFFICES ASSUME ProxyInv PROVE CallbacksAreSafe
    OBVIOUS
  <2>1. peer[In] = "open" => misused = {}
    BY DEF ProxyInv, ClientInv
  <2>2. ASSUME NEW w \in Workers, At(w, "call"), loop[w].cb = PurgeCb, heap[PurgeCb] = "live"
        PROVE  ~Released
    <3>1. Uncalled(PurgeCb)
      BY Zenon, <2>2 DEF OneWorker, Uncalled, BeingRun, At
    <3>2. first_cb = PurgeCb /\ job # "purged" /\ PurgeCb # NoCb
      BY <3>1, CallbackFacts DEF ProxyInv, PurgeInv
    <3>3. sched # "done"
      BY Zenon, <3>2 DEF ProxyInv, PurgeInv
    <3>. QED
      BY Zenon, <3>2, <3>3 DEF Released, Held
  <2>. QED
    BY <2>1, <2>2 DEF CallbacksAreSafe
<1>. QED
  BY <1>1, ProxyInvariance, PTL

\* With one worker, at no time do two closures pipe from the same socket, however often
\* it is monitored again and whichever executor threads run the closures.
THEOREM OnePipe == ASSUME OneWorker PROVE Spec => []OnePipePerSocket
<1>1. ProxyInv => OnePipePerSocket
  BY DEF ProxyInv, PipeInv, OnePipePerSocket
<1>. QED
  BY <1>1, ProxyInvariance, PTL

===============================================================================

----------------------------- MODULE ProxyLemmas ------------------------------
(***************************************************************************)
(* The inductive invariants of Proxy with one worker in the communication  *)
(* handler, which is what its default constructor makes, for any number of *)
(* registrations, amount of data and size of the event buffer; and what    *)
(* the reactor's steps do to them.  ProxySteps and ProxyProofs build on    *)
(* it.                                                                     *)
(***************************************************************************)
EXTENDS Proxy, TLAPS

OneWorker == \A v, w \in Workers : v = w

-------------------------------------------------------------------------------
(* The inductive invariants.                                               *)

Place ==
  [pc: {"wait", "handle", "call", "delete", "check"}, n: 0..MaxEvents,
   i: Nat \ {0}, cb: Callbacks \cup {NoCb}]

TaskAt == {"start", "flag", "shutdown", "client", "server", "clear", "delete", "again"}
Tasks == [cb: Callbacks, at: TaskAt, err: BOOLEAN]

ReactorTypes ==
  /\ entry \in [Sockets -> Callbacks \cup {NoCb}]
  /\ heap \in [Callbacks -> {"unused", "live", "deleted"}]
  /\ _events \in [1..MaxEvents -> Callbacks \cup {NoCb}]
  /\ loop \in [Workers -> Place]

JobTypes ==
  /\ job \in {"none", "queued", "purged", "taken"}
  /\ sched \in {"dequeue", "monitor", "assign", "connect", "clear", "delete", "done"}
  /\ sched # "dequeue" <=> job = "taken"
  /\ tasks \subseteq Tasks
  /\ first_cb \in {NoCb, PurgeCb} /\ second_cb \in {NoCb, CliClosedCb}
  /\ peer \in [Sockets -> {"none", "connecting", "refused", "open", "closed", "reset"}]
  /\ data \in [Sockets -> Nat]

\* The events the worker has not finished with, and those it has yet to call.
InRound(w, k) == loop[w].pc \in {"handle", "call", "delete"} /\ k \in loop[w].i..loop[w].n

\* The callback lives and has not been called.
BeingRun(c) == \E w \in Workers : At(w, "delete") /\ loop[w].cb = c
Uncalled(c) == heap[c] = "live" /\ ~BeingRun(c)

\* Connections and input are monitored by callbacks that nothing but themselves deletes.
Kept(c) == Kind(c) \in {"connect", "monitor"}

\* Armed callbacks live and belong to their socket; returned ones are disarmed, of
\* different sockets, and live if nothing else deletes them.
ReactorInv ==
  /\ \A s \in Sockets : entry[s] # NoCb => heap[entry[s]] = "live" /\ Soc(entry[s]) = s
  /\ \A w \in Workers :
       /\ loop[w].pc \in {"call", "delete"} =>
            loop[w].i <= loop[w].n /\ loop[w].cb = _events[loop[w].i]
       /\ \A k \in Nat : InRound(w, k) =>
            /\ _events[k] \in Callbacks /\ heap[_events[k]] # "unused"
            /\ Kept(_events[k]) => heap[_events[k]] = "live"
            /\ \A s \in Sockets : entry[s] # _events[k]
       /\ \A k, l \in Nat : InRound(w, k) /\ InRound(w, l) /\ k # l =>
            Soc(_events[k]) # Soc(_events[l])

-------------------------------------------------------------------------------
(* One closure at a time pipes from a socket.                              *)

BeforeConnect == sched \in {"dequeue", "monitor", "assign", "connect"}

\* The socket has not been monitored for input yet.
NotYet(s) == \A c \in Callbacks : Kind(c) = "monitor" /\ Soc(c) = s => heap[c] = "unused"

\* There is one connection attempt, with one closure; that one begins the monitoring
\* of the client's socket and then of the server's.
ConnectInv ==
  /\ BeforeConnect => heap[ConnectCb] = "unused"
  /\ BeforeConnect \/ Uncalled(ConnectCb) =>
       NotYet(In) /\ NotYet(Out) /\ \A t \in tasks : t.cb # ConnectCb
  /\ \A t, u \in tasks : t.cb = ConnectCb /\ u.cb = ConnectCb => t = u
  /\ \A t \in tasks :
       /\ t.at \in {"client", "server", "clear", "delete"} => t.cb = ConnectCb
       /\ t.at = "again" => Kind(t.cb) = "monitor"
       /\ t.cb = ConnectCb =>
            /\ t.at \in {"start", "client"} => NotYet(In) /\ NotYet(Out)
            /\ t.at = "server" => NotYet(Out)
            /\ t.at \in {"server", "clear", "delete"} => ~NotYet(In)
            /\ t.at \in {"client", "server", "clear", "delete"} => ~t.err
  /\ NotYet(In) => NotYet(Out)

\* A socket has at most one callback that monitors it and has not been called, or else
\* one closure that pipes from it.
PipeInv ==
  /\ \A t \in tasks : Kind(t.cb) = "monitor" => heap[t.cb] # "unused"
  /\ \A t, u \in tasks :
       Kind(t.cb) = "monitor" /\ Kind(u.cb) = "monitor" /\ Soc(t.cb) = Soc(u.cb) => t = u
  /\ \A c \in Callbacks : Kind(c) = "monitor" /\ Uncalled(c) =>
       /\ \A t \in tasks : ~(Kind(t.cb) = "monitor" /\ Soc(t.cb) = Soc(c))
       /\ \A d \in Callbacks :
            Kind(d) = "monitor" /\ Soc(d) = Soc(c) /\ Uncalled(d) => d = c

-------------------------------------------------------------------------------
(* What is deleted.                                                        *)

\* The purge callback is the one that first_cb points to until it is called.
PurgeInv ==
  /\ heap[PurgeCb] = "unused" <=> job = "none"
  /\ first_cb = PurgeCb <=> Uncalled(PurgeCb)
  /\ sched = "done" => first_cb = NoCb
  /\ job = "purged" => ~Uncalled(PurgeCb)
  /\ \A t \in tasks : t.cb = PurgeCb => job # "none" /\ ~Uncalled(PurgeCb)
  /\ entry[In] = PurgeCb => sched \in {"dequeue", "monitor"}

\* The connection failed: no closure of ConnectCallback goes on to monitor.
ConnectFailed ==
  /\ ~BeforeConnect /\ ~Uncalled(ConnectCb)
  /\ \A t \in tasks : t.cb = ConnectCb => t.at \in {"flag", "shutdown"} \/ (t.at = "start" /\ t.err)

Returned(c) == \E w \in Workers, k \in Nat : InRound(w, k) /\ _events[k] = c

\* As long as the client is there, the callback that notices its end is returned only
\* after the proxy shut the client's socket down itself, for a connection that failed.
ClientInv ==
  /\ heap[CliClosedCb] = "unused" <=> sched \in {"dequeue", "monitor"}
  /\ entry[In] = CliClosedCb => NotYet(In)
  /\ In \in shut => ~BeforeConnect
  /\ In \in shut /\ NotYet(In) => ConnectFailed
  /\ peer[In] = "open" =>
       /\ misused = {}
       /\ ~Returned(PurgeCb)
       /\ sched = "assign" => heap[CliClosedCb] = "live"
       /\ second_cb = CliClosedCb => Uncalled(CliClosedCb)
       /\ Returned(CliClosedCb) => ConnectFailed /\ heap[CliClosedCb] = "live"

-------------------------------------------------------------------------------
(* What the client gets of the server's bytes.                             *)

\* The server's side is over, and nothing it sent before closing is left unread.
ServerGone == peer[Out] \in {"refused", "reset"} \/ (peer[Out] = "closed" /\ data[Out] = 0)

HeardInv ==
  /\ BeforeConnect <=> peer[Out] = "none"
  /\ Out \in error => peer[Out] \in {"refused", "reset"}
  /\ Out \in shut => In \in _shutdown
  /\ In \in shut => ServerGone
  /\ \A t \in tasks :
       /\ t.at = "shutdown" => Soc(t.cb) \in _shutdown
       /\ Soc(t.cb) = Out /\ t.err => peer[Out] \in {"refused", "reset"}
       /\ Soc(t.cb) = Out /\ t.at \in {"flag", "shutdown"} => ServerGone \/ In \in _shutdown

-------------------------------------------------------------------------------
(* Sockets, callbacks and closures.                                        *)

LEMMA CallbackFacts ==
  /\ Sockets = {In, Out} /\ In # Out /\ Other(In) = Out /\ Other(Out) = In
  /\ {PurgeCb, CliClosedCb, ConnectCb} \subseteq Callbacks /\ NoCb \notin Callbacks
  /\ Soc(PurgeCb) = In /\ Soc(CliClosedCb) = In /\ Soc(ConnectCb) = Out
  /\ Kind(PurgeCb) = "purge" /\ Kind(CliClosedCb) = "cli_closed" /\ Kind(ConnectCb) = "connect"
  /\ \A s \in Sockets, k \in 1..MaxMonitor :
       /\ MonitorCb(s, k) \in Callbacks
       /\ Kind(MonitorCb(s, k)) = "monitor" /\ Soc(MonitorCb(s, k)) = s
  /\ \A c \in Callbacks :
       /\ Soc(c) \in Sockets
       /\ c \in {PurgeCb, CliClosedCb, ConnectCb} \/ Kind(c) = "monitor"
<1>1. Sockets = {In, Out} /\ In # Out /\ Other(In) = Out /\ Other(Out) = In
  BY ProxyConstants DEF In, Out, Other
<1>2. /\ Soc(PurgeCb) = In /\ Soc(CliClosedCb) = In /\ Soc(ConnectCb) = Out
      /\ Kind(PurgeCb) = "purge" /\ Kind(CliClosedCb) = "cli_closed" /\ Kind(ConnectCb) = "connect"
  BY DEF Soc, Kind, PurgeCb, CliClosedCb, ConnectCb
<1>3. \A s, k : Kind(MonitorCb(s, k)) = "monitor" /\ Soc(MonitorCb(s, k)) = s
  BY DEF MonitorCb, Kind, Soc
<1> DEFINE M == {MonitorCb(s, k) : s \in Sockets, k \in 1..MaxMonitor}
<1>0. Callbacks = {PurgeCb, CliClosedCb, ConnectCb} \cup M
  BY ProxyConstants
<1>4. /\ {PurgeCb, CliClosedCb, ConnectCb} \subseteq Callbacks /\ NoCb \notin Callbacks
      /\ \A s \in Sockets, k \in 1..MaxMonitor : MonitorCb(s, k) \in Callbacks
  BY <1>0, EpollConstants
<1>5. \A c \in Callbacks : \/ c \in {PurgeCb, CliClosedCb, ConnectCb}
                           \/ \E s \in Sockets, k \in 1..MaxMonitor : c = MonitorCb(s, k)
  BY <1>0
<1>6. ASSUME NEW c \in Callbacks
      PROVE  /\ Soc(c) \in Sockets
             /\ c \in {PurgeCb, CliClosedCb, ConnectCb} \/ Kind(c) = "monitor"
  BY <1>1, <1>2, <1>3, <1>5
<1>. QED
  BY Zenon, <1>1, <1>2, <1>3, <1>4, <1>6

\* A closure that goes on is the same closure at another place.
LEMMA Moved ==
  ASSUME tasks \subseteq Tasks, NEW t \in tasks, NEW a \in TaskAt, Goto(t, a)
  PROVE  /\ tasks' \subseteq Tasks
         /\ \E u \in Tasks : /\ tasks' = (tasks \ {t}) \cup {u}
                             /\ u.cb = t.cb /\ u.err = t.err /\ u.at = a
<1> DEFINE u == [t EXCEPT !.at = a]
<1>1. t \in Tasks
  OBVIOUS
<1>2. u \in Tasks /\ u.cb = t.cb /\ u.err = t.err /\ u.at = a
  BY Zenon, <1>1 DEF Tasks
<1>3. tasks' = (tasks \ {t}) \cup {u}
  BY DEF Goto
<1>. QED
  BY Zenon, <1>2, <1>3

LEMMA NewTask ==
  ASSUME NEW c \in Callbacks, NEW e \in BOOLEAN
  PROVE  /\ Task(c, e) \in Tasks
         /\ Task(c, e).cb = c /\ Task(c, e).at = "start" /\ Task(c, e).err = e
BY DEF Task, Tasks, TaskAt

LEMMA CalledTask ==
  ASSUME NEW c \in Callbacks
  PROVE  \E t \in Tasks : /\ t = Task(c, Soc(c) \in error)
                          /\ t.cb = c /\ t.at = "start" /\ t.err = (Soc(c) \in error)
<1>1. (Soc(c) \in error) \in BOOLEAN
  OBVIOUS
<1>. QED
  BY Zenon, <1>1, NewTask

LEMMA TaskFields ==
  ASSUME tasks \subseteq Tasks, NEW t \in tasks
  PROVE  t.cb \in Callbacks /\ t.at \in TaskAt /\ t.err \in BOOLEAN /\ Soc(t.cb) \in Sockets
<1>1. t \in Tasks
  OBVIOUS
<1>2. t.cb \in Callbacks /\ t.at \in TaskAt /\ t.err \in BOOLEAN
  BY Zenon, <1>1 DEF Tasks
<1>. QED
  BY Zenon, <1>2, CallbackFacts

-------------------------------------------------------------------------------
(* What the steps do to the closures and to the job.                       *)

\* The steps of the closures move or end one closure.
LEMMA ClosureTasks ==
  ASSUME JobTypes, NEW t \in tasks, Closure(t)
  PROVE  tasks' \subseteq Tasks
<1>1. CASE End(t)
  BY <1>1 DEF End, JobTypes
<1>2. ASSUME NEW a \in TaskAt, Goto(t, a) PROVE tasks' \subseteq Tasks
  BY <1>2, Moved DEF JobTypes
<1>3. End(t) \/ \E a \in TaskAt : Goto(t, a)
  BY DEF Closure, Purge, SetShutdown, Shutdown, CliClosedCallback, ConnectCallback,
    MonitorBoth, TestSecond, DeleteSecond, MonitorCallback, MonitorAgain, AfterMonitor, TaskAt
<1>. QED
  BY <1>1, <1>2, <1>3

LEMMA JobInit == Init => JobTypes
BY CallbackFacts DEF Init, JobTypes

LEMMA JobStep ==
  ASSUME JobTypes, [Next]_vars
  PROVE  JobTypes'
<1> USE CallbackFacts DEF JobTypes
<1>1. ASSUME NEW w \in Workers, ReceivedConnection(w) PROVE JobTypes'
  BY <1>1 DEF ReceivedConnection, net
<1>2. ASSUME NEW w \in Workers, Wait(w) \/ Handle(w) \/ Finish(w) \/ EndOfRound(w)
      PROVE  JobTypes'
  BY Zenon, <1>2 DEF Wait, Handle, Finish, EndOfRound, pipe, net
<1>3. ASSUME NEW w \in Workers, RunCallback(w) PROVE JobTypes'
  <2>1. PICK c \in Callbacks :
          /\ tasks' = tasks \cup {Task(c, Soc(c) \in error)}
          /\ first_cb' = IF c = PurgeCb THEN NoCb ELSE first_cb
          /\ second_cb' = IF c = CliClosedCb THEN NoCb ELSE second_cb
          /\ UNCHANGED <<job, sched, peer, data>>
    BY <1>3 DEF RunCallback
  <2>2. Task(c, Soc(c) \in error) \in Tasks
    BY CalledTask
  <2>. QED
    BY <2>1, <2>2
<1>4. CASE Dequeue
  BY <1>4 DEF Dequeue, pipe, net
<1>5. CASE MonitorClient
  BY <1>5 DEF MonitorClient, pipe, net
<1>6. CASE AssignSecond
  BY <1>6 DEF AssignSecond, net
<1>7. CASE Connect
  <2>1. Task(ConnectCb, TRUE) \in Tasks
    BY Zenon, NewTask
  <2>2. tasks' \subseteq Tasks
    BY Zenon, <1>7, <2>1 DEF Connect
  <2>3. peer' \in [Sockets -> {"none", "connecting", "refused", "open", "closed", "reset"}]
    <3>1. PICK r \in {"connecting"} \cup AtOnce : peer' = [peer EXCEPT ![Out] = r]
      BY Zenon, <1>7 DEF Connect
    <3>2. /\ r \in {"none", "connecting", "refused", "open", "closed", "reset"}
          /\ peer \in [Sockets -> {"none", "connecting", "refused", "open", "closed", "reset"}]
      BY ProxyConstants
    <3>. QED
      BY Zenon, <3>1, <3>2
  <2>. QED
    BY <1>7, <2>2, <2>3 DEF Connect, pipe
<1>8. CASE TestFirst \/ DeleteFirst
  BY <1>8 DEF TestFirst, DeleteFirst, pipe, net
<1>9. ASSUME NEW t \in tasks, Closure(t) PROVE JobTypes'
  <2>1. tasks' \subseteq Tasks
    BY Zenon, <1>9, ClosureTasks
  <2>2. /\ UNCHANGED <<sched, peer, first_cb>>
        /\ job' = job \/ (job = "queued" /\ job' = "purged")
        /\ second_cb' \in {second_cb, NoCb}
    BY <1>9 DEF Closure, Purge, SetShutdown, Shutdown, CliClosedCallback, ConnectCallback,
      MonitorBoth, TestSecond, DeleteSecond, MonitorCallback, MonitorAgain, pipe, net
  <2>3. data' \in [Sockets -> Nat]
    <3>1. CASE MonitorCallback(t)
      <4>1. Soc(t.cb) \in Sockets
        BY Zenon, TaskFields
      <4>. QED
        BY <3>1, <4>1 DEF MonitorCallback, Left, SendMayFail
    <3>2. CASE ~MonitorCallback(t)
      BY <1>9, <3>2 DEF Closure, Purge, SetShutdown, Shutdown, CliClosedCallback, ConnectCallback,
        MonitorBoth, TestSecond, DeleteSecond, MonitorAgain, net
    <3>. QED
      BY <3>1, <3>2
  <2>. QED
    BY <2>1, <2>2, <2>3
<1>10. CASE Environment
  <2>1. CASE ConnectEnds
    BY <2>1 DEF ConnectEnds, pipe
  <2>2. ASSUME NEW s \in Sockets, Sends(s) PROVE JobTypes'
    BY <2>2 DEF Sends, pipe
  <2>3. ASSUME NEW s \in Sockets, Closes(s) PROVE JobTypes'
    BY <2>3, ProxyConstants DEF Closes, pipe
  <2>. QED
    BY <1>10, <2>1, <2>2, <2>3 DEF Environment
<1>11. CASE UNCHANGED vars
  BY <1>11 DEF vars, pipe, net
<1>. QED
  BY <1>1, <1>2, <1>3, <1>4, <1>5, <1>6, <1>7, <1>8, <1>9, <1>10, <1>11
  DEF Next, CommWorker, Scheduling

-------------------------------------------------------------------------------
(* The client is not cut off.                                              *)

LEMMA HeardInit == Init => HeardInv
BY CallbackFacts DEF Init, HeardInv, BeforeConnect

\* Steps that leave the closures and the sockets alone.
LEMMA HeardFrame ==
  ASSUME HeardInv, UNCHANGED net, tasks' = tasks, BeforeConnect' <=> BeforeConnect
  PROVE  HeardInv'
BY DEF HeardInv, ServerGone, net

\* Steps that move a closure on without touching the sockets.
LEMMA HeardMoves ==
  ASSUME JobTypes, HeardInv, UNCHANGED net, UNCHANGED sched, NEW t \in tasks, NEW a \in TaskAt,
         Goto(t, a), a # "shutdown", t.at # "shutdown",
         a = "flag" /\ Soc(t.cb) = Out => ServerGone \/ In \in _shutdown
  PROVE  HeardInv'
<1>1. PICK u \in Tasks : /\ tasks' = (tasks \ {t}) \cup {u}
                         /\ u.cb = t.cb /\ u.err = t.err /\ u.at = a
  BY Zenon, Moved DEF JobTypes
<1>2. BeforeConnect' <=> BeforeConnect
  BY DEF BeforeConnect
<1>. QED
  BY <1>1, <1>2 DEF HeardInv, ServerGone, net

LEMMA HeardEnds ==
  ASSUME HeardInv, UNCHANGED net, UNCHANGED sched, NEW t \in tasks, End(t)
  PROVE  HeardInv'
<1>1. BeforeConnect' <=> BeforeConnect
  BY DEF BeforeConnect
<1>. QED
  BY <1>1 DEF HeardInv, ServerGone, net, End

LEMMA HeardShutdown ==
  ASSUME JobTypes, HeardInv, NEW t \in tasks, SetShutdown(t) \/ Shutdown(t)
  PROVE  HeardInv'
<1>0. t.cb \in Callbacks /\ Soc(t.cb) \in {In, Out}
  BY TaskFields, CallbackFacts DEF JobTypes
<1>1. BeforeConnect' <=> BeforeConnect
  BY DEF SetShutdown, Shutdown, BeforeConnect
<1>2. CASE SetShutdown(t) /\ End(t)
  BY <1>2, <1>1 DEF SetShutdown, End, HeardInv, ServerGone
<1>3. CASE SetShutdown(t) /\ Goto(t, "shutdown")
  <2>1. PICK u \in Tasks : /\ tasks' = (tasks \ {t}) \cup {u}
                           /\ u.cb = t.cb /\ u.err = t.err /\ u.at = "shutdown"
    BY Zenon, <1>3, Moved DEF JobTypes, TaskAt
  <2>2. _shutdown \subseteq _shutdown'
    BY <1>3 DEF SetShutdown
  <2>3. _shutdown' = _shutdown \cup {Soc(t.cb)} \/ (_shutdown' = _shutdown /\ End(t))
    BY <1>3 DEF SetShutdown
  <2>4. UNCHANGED <<shut, peer, error, data>> /\ t.at = "flag"
    BY <1>3 DEF SetShutdown
  <2>5. CASE _shutdown' = _shutdown /\ End(t)
    BY <1>1, <2>4, <2>5 DEF End, HeardInv, ServerGone
  <2>6. CASE _shutdown' = _shutdown \cup {Soc(t.cb)}
    BY Zenon, <1>1, <2>1, <2>2, <2>4, <2>6 DEF HeardInv, ServerGone
  <2>. QED
    BY <2>3, <2>5, <2>6
<1>4. CASE Shutdown(t)
  BY <1>0, <1>1, <1>4, CallbackFacts DEF Shutdown, ToShut, End, HeardInv, ServerGone
<1>. QED
  BY <1>2, <1>3, <1>4 DEF SetShutdown

LEMMA HeardPipes ==
  ASSUME JobTypes, HeardInv, NEW t \in tasks, MonitorCallback(t)
  PROVE  HeardInv'
<1> DEFINE s == Soc(t.cb)
<1>0. /\ s \in {In, Out} /\ data \in [Sockets -> Nat] /\ In # Out
      /\ Sockets = {In, Out}
  BY TaskFields, CallbackFacts DEF JobTypes
<1>1. /\ UNCHANGED <<shut, _shutdown, peer, error>> /\ t.at = "start"
      /\ BeforeConnect' <=> BeforeConnect
  BY DEF MonitorCallback, BeforeConnect
<1>2. CASE t.err /\ Goto(t, "flag") /\ UNCHANGED data
  BY Zenon, <1>1, <1>2, HeardMoves DEF HeardInv, ServerGone, net, MonitorCallback, TaskAt
<1>3. CASE /\ data' = [data EXCEPT ![s] = Left(s)]
           /\ Goto(t, IF Ended(s) THEN "flag" ELSE "again")
  <2>1. PICK u \in Tasks : /\ tasks' = (tasks \ {t}) \cup {u}
                           /\ u.cb = t.cb /\ u.err = t.err
                           /\ u.at = IF Ended(s) THEN "flag" ELSE "again"
    BY <1>3, Moved DEF JobTypes, TaskAt
  <2>2. data'[s] = 0 /\ \A z \in Sockets : z # s => data'[z] = data[z]
    BY <1>0, <1>3 DEF Left
  <2>3. ServerGone => ServerGone'
    BY <1>0, <1>1, <2>2 DEF ServerGone
  <2>4. s = Out /\ u.at = "flag" => ServerGone' \/ In \in _shutdown
    BY <1>1, <2>1, <2>2 DEF Ended, ServerGone, HeardInv
  <2>. QED
    BY <1>0, <1>1, <2>1, <2>3, <2>4 DEF HeardInv
<1>4. CASE SendMayFail(s) /\ data' = [data EXCEPT ![s] = @ - 1] /\ End(t)
  <2>1. ServerGone => ServerGone'
    BY <1>0, <1>1, <1>4 DEF ServerGone, SendMayFail
  <2>. QED
    BY <1>1, <1>4, <2>1 DEF HeardInv, End
<1>. QED
  BY Zenon, <1>2, <1>3, <1>4 DEF MonitorCallback

LEMMA HeardClosures ==
  ASSUME JobTypes, HeardInv, NEW t \in tasks, Closure(t)
  PROVE  HeardInv'
<1>1. CASE Purge(t) \/ MonitorAgain(t) \/ DeleteSecond(t)
  BY <1>1, HeardEnds DEF Purge, MonitorAgain, AfterMonitor, DeleteSecond, net
<1>2. CASE SetShutdown(t) \/ Shutdown(t)
  BY <1>2, HeardShutdown
<1>3. CASE CliClosedCallback(t)
  BY <1>3, HeardMoves, CallbackFacts DEF CliClosedCallback, TaskAt
<1>4. CASE ConnectCallback(t)
  <2>1. t.err \in BOOLEAN
    BY Zenon, TaskFields DEF JobTypes
  <2>2. t.err => ServerGone
    BY <1>4, CallbackFacts DEF ConnectCallback, HeardInv, ServerGone
  <2>3. CASE t.err
    BY <1>4, <2>2, <2>3, HeardMoves DEF ConnectCallback, TaskAt
  <2>4. CASE ~t.err
    BY <1>4, <2>4, HeardMoves DEF ConnectCallback, TaskAt
  <2>. QED
    BY <2>1, <2>3, <2>4
<1>5. CASE MonitorBoth(t)
  BY <1>5, HeardMoves DEF MonitorBoth, TaskAt
<1>6. CASE TestSecond(t)
  BY <1>6, HeardMoves, HeardEnds DEF TestSecond, TaskAt
<1>7. CASE MonitorCallback(t)
  BY <1>7, HeardPipes
<1>. QED
  BY <1>1, <1>2, <1>3, <1>4, <1>5, <1>6, <1>7 DEF Closure

LEMMA HeardStep ==
  ASSUME "open" \notin AtOnce, JobTypes, HeardInv, [Next]_vars
  PROVE  HeardInv'
<1>1. ASSUME NEW w \in Workers,
             ReceivedConnection(w) \/ Wait(w) \/ Handle(w) \/ Finish(w) \/ EndOfRound(w)
      PROVE  HeardInv'
  BY Zenon, <1>1, HeardFrame DEF ReceivedConnection, Wait, Handle, Finish, EndOfRound, BeforeConnect
<1>2. ASSUME NEW w \in Workers, RunCallback(w) PROVE HeardInv'
  <2>1. PICK c \in Callbacks :
          /\ tasks' = tasks \cup {Task(c, Soc(c) \in error)}
          /\ error' = error \ {Soc(c)}
          /\ UNCHANGED <<sched, shut, _shutdown, peer, data>>
    BY <1>2 DEF RunCallback
  <2>2. PICK t \in Tasks : /\ t = Task(c, Soc(c) \in error)
                           /\ t.cb = c /\ t.at = "start" /\ t.err = (Soc(c) \in error)
    BY CalledTask
  <2>. QED
    BY Zenon, <2>1, <2>2 DEF HeardInv, ServerGone, BeforeConnect
<1>3. CASE Dequeue \/ MonitorClient \/ AssignSecond \/ TestFirst \/ DeleteFirst
  BY <1>3, HeardFrame DEF Dequeue, MonitorClient, AssignSecond, TestFirst, DeleteFirst, BeforeConnect
<1>4. CASE Connect
  <2>0. /\ peer[Out] = "none" /\ DOMAIN peer = {In, Out} /\ ~BeforeConnect'
        /\ UNCHANGED <<shut, _shutdown, error, data>>
    BY Zenon, <1>4, CallbackFacts DEF Connect, HeardInv, BeforeConnect, JobTypes
  <2>1. CASE tasks' = tasks /\ peer' = [peer EXCEPT ![Out] = "connecting"]
    BY <2>0, <2>1, CallbackFacts DEF HeardInv, ServerGone
  <2>2. CASE /\ \E r \in AtOnce : peer' = [peer EXCEPT ![Out] = r]
             /\ tasks' = tasks \cup {Task(ConnectCb, TRUE)}
    <3>1. peer'[Out] = "refused"
      BY <2>0, <2>2, ProxyConstants
    <3>2. /\ Task(ConnectCb, TRUE).at = "start" /\ Task(ConnectCb, TRUE).cb = ConnectCb
      BY Zenon, NewTask, CallbackFacts
    <3>. QED
      BY Zenon, <2>0, <2>2, <3>1, <3>2, CallbackFacts DEF HeardInv, ServerGone
  <2>. QED
    BY Zenon, <1>4, <2>1, <2>2 DEF Connect
<1>5. ASSUME NEW t \in tasks, Closure(t) PROVE HeardInv'
  BY <1>5, HeardClosures
<1>6. CASE Environment
  <2>0. /\ DOMAIN peer = {In, Out} /\ data \in [Sockets -> Nat]
        /\ Sockets = {In, Out} /\ In # Out
    BY Zenon, CallbackFacts DEF JobTypes
  <2>1. CASE ConnectEnds
    BY Zenon, <2>0, <2>1 DEF ConnectEnds, HeardInv, ServerGone, BeforeConnect
  <2>2. ASSUME NEW s \in Sockets, Sends(s) PROVE HeardInv'
    BY Zenon, <2>0, <2>2 DEF Sends, HeardInv, ServerGone, BeforeConnect
  <2>3. ASSUME NEW s \in Sockets, Closes(s) PROVE HeardInv'
    BY <2>0, <2>3, ProxyConstants DEF Closes, HeardInv, ServerGone, BeforeConnect
  <2>. QED
    BY <1>6, <2>1, <2>2, <2>3 DEF Environment
<1>7. CASE UNCHANGED vars
  BY <1>7, HeardFrame DEF vars, BeforeConnect
<1>. QED
  BY <1>1, <1>2, <1>3, <1>4, <1>5, <1>6, <1>7 DEF Next, CommWorker, Scheduling

\* When connect() does not complete at once, the client is not cut off before it got
\* everything the server sent, whatever the closures of both sides do meanwhile.
THEOREM ServerHeard == ASSUME "open" \notin AtOnce PROVE Spec => []ServerIsHeard
<1>1. Init => JobTypes /\ HeardInv
  BY JobInit, HeardInit
<1>2. JobTypes /\ HeardInv /\ [Next]_vars => (JobTypes /\ HeardInv)'
  BY Zenon, JobStep, HeardStep
<1>3. HeardInv => ServerIsHeard
  BY DEF HeardInv, ServerIsHeard, ServerGone
<1>. QED
  BY <1>1, <1>2, <1>3, PTL DEF Spec

-------------------------------------------------------------------------------
(* The reactor's rounds.                                                   *)

LEMMA PlaceUpdates ==
  ASSUME NEW r \in Place, NEW m \in 0..MaxEvents, NEW c \in Callbacks \cup {NoCb},
         NEW pc \in {"wait", "handle", "call", "delete", "check"}
  PROVE  /\ [r EXCEPT !.pc = pc] \in Place
         /\ [r EXCEPT !.pc = pc, !.n = m, !.i = 1] \in Place
         /\ [r EXCEPT !.pc = pc, !.cb = c] \in Place
         /\ [r EXCEPT !.pc = pc, !.i = r.i + 1, !.cb = c] \in Place
<1>0. 1 \in Nat \ {0} /\ r.i + 1 \in Nat \ {0}
  BY DEF Place
<1>1. [r EXCEPT !.pc = pc] \in Place
  BY Zenon DEF Place
<1>2. [r EXCEPT !.pc = pc, !.n = m, !.i = 1] \in Place
  BY Zenon, <1>0 DEF Place
<1>3. [r EXCEPT !.pc = pc, !.cb = c] \in Place
  BY Zenon DEF Place
<1>4. [r EXCEPT !.pc = pc, !.i = r.i + 1, !.cb = c] \in Place
  BY Zenon, <1>0 DEF Place
<1>. QED
  BY <1>1, <1>2, <1>3, <1>4

\* What epoll_wait returns: each event once, and of a socket that was ready.
LEMMA WaitEffect ==
  ASSUME NEW w \in Workers, EpollWait(w, Ready)
  PROVE  \E S \in SUBSET Ready, m \in 0..MaxEvents : \E order \in [1..m -> S] :
           /\ \A s \in S : entry[s] # NoCb
           /\ \A k, l \in 1..m : k # l => order[k] # order[l]
           /\ entry' = [s \in Sockets |-> IF s \in S THEN NoCb ELSE entry[s]]
           /\ _events' = [k \in 1..MaxEvents |->
                            IF k <= m THEN entry[order[k]] ELSE _events[k]]
           /\ loop' = [loop EXCEPT ![w].pc = "handle", ![w].n = m, ![w].i = 1]
<1>. DEFINE armed == {s \in Ready : entry[s] # NoCb}
            most == IF Cardinality(armed) < MaxEvents THEN Cardinality(armed) ELSE MaxEvents
<1>1. PICK S \in {T \in SUBSET armed : Cardinality(T) = most} :
        /\ Disarm(S)
        /\ \E order \in Bijection(1..most, S) :
             _events' = [k \in 1..MaxEvents |->
                           IF k <= most THEN entry[order[k]] ELSE _events[k]]
  BY Zenon DEF EpollWait
<1>2. PICK order \in Bijection(1..most, S) :
        _events' = [k \in 1..MaxEvents |->
                      IF k <= most THEN entry[order[k]] ELSE _events[k]]
  BY Zenon, <1>1
<1>3. S \subseteq armed
  BY <1>1
<1>4. most \in 0..MaxEvents
  <2>1. armed \in SUBSET Sockets
    BY DEF Ready
  <2>2. Cardinality(armed) \in Nat
    BY Zenon, <2>1, SocketsAreCounted
  <2>. QED
    BY <2>2, EpollConstants
<1>5. order \in [1..most -> S] /\ \A k, l \in 1..most : k # l => order[k] # order[l]
  <2>1. order \in [1..most -> S] /\ IsInjective(order)
    BY Zenon, <1>2 DEF Bijection, Injection
  <2>2. DOMAIN order = 1..most
    BY Zenon, <2>1
  <2>. QED
    BY Zenon, <2>1, <2>2 DEF IsInjective
<1>6. loop' = [loop EXCEPT ![w].pc = "handle", ![w].n = most, ![w].i = 1]
  BY Zenon DEF EpollWait
<1>7. S \in SUBSET Ready /\ \A s \in S : entry[s] # NoCb
  BY Zenon, <1>3
<1>8. entry' = [s \in Sockets |-> IF s \in S THEN NoCb ELSE entry[s]]
  BY Zenon, <1>1 DEF Disarm
<1>. HIDE DEF most
<1>. QED
  BY Zenon, <1>2, <1>4, <1>5, <1>6, <1>7, <1>8

\* epoll_wait begins a round; it leaves all callbacks uncalled.
LEMMA WaitKeeps ==
  ASSUME OneWorker, ReactorTypes, ReactorInv, NEW w \in Workers,
         EpollWait(w, Ready)
  PROVE  /\ ReactorTypes' /\ ReactorInv'
         /\ UNCHANGED <<heap, misused>>
         /\ \A c : ~BeingRun(c) /\ ~BeingRun(c)' /\ ~Returned(c)
         /\ \A s \in Sockets : entry'[s] \in {entry[s], NoCb}
         /\ \A c : Returned(c)' => \E s \in Ready : entry[s] = c
<1>0. loop[w].pc = "wait" /\ UNCHANGED <<heap, misused>>
  BY Zenon DEF EpollWait, At
<1>2. PICK S \in SUBSET Ready, m \in 0..MaxEvents : \E order \in [1..m -> S] :
        /\ \A s \in S : entry[s] # NoCb
        /\ \A k, l \in 1..m : k # l => order[k] # order[l]
        /\ entry' = [s \in Sockets |-> IF s \in S THEN NoCb ELSE entry[s]]
        /\ _events' = [k \in 1..MaxEvents |->
                         IF k <= m THEN entry[order[k]] ELSE _events[k]]
        /\ loop' = [loop EXCEPT ![w].pc = "handle", ![w].n = m, ![w].i = 1]
  BY Zenon, WaitEffect
<1>3. PICK order \in [1..m -> S] :
        /\ \A s \in S : entry[s] # NoCb
        /\ \A k, l \in 1..m : k # l => order[k] # order[l]
        /\ entry' = [s \in Sockets |-> IF s \in S THEN NoCb ELSE entry[s]]
        /\ _events' = [k \in 1..MaxEvents |->
                         IF k <= m THEN entry[order[k]] ELSE _events[k]]
        /\ loop' = [loop EXCEPT ![w].pc = "handle", ![w].n = m, ![w].i = 1]
  BY Zenon, <1>2
<1>4. S \subseteq Sockets
  BY DEF Ready
<1>5. loop \in [Workers -> Place]
  BY Zenon DEF ReactorTypes
<1>6. loop' \in [Workers -> Place]
  <2>1. [loop[w] EXCEPT !.pc = "handle", !.n = m, !.i = 1] \in Place
    BY Zenon, <1>5, PlaceUpdates
  <2>2. loop' = [loop EXCEPT ![w] = [loop[w] EXCEPT !.pc = "handle", !.n = m, !.i = 1]]
    BY Zenon, <1>3, <1>5
  <2>. QED
    BY Zenon, <1>5, <2>1, <2>2
<1>7. /\ loop'[w].pc = "handle" /\ loop'[w].n = m /\ loop'[w].i = 1
      /\ \A v \in Workers : v = w
  BY Zenon, <1>3, <1>5 DEF Place, OneWorker
<1>8. \A v \in Workers, k \in Nat : ~InRound(v, k) /\ (InRound(v, k)' <=> k \in 1..m)
  BY Zenon, <1>0, <1>7 DEF InRound
<1>9. \A c : ~BeingRun(c) /\ ~BeingRun(c)' /\ ~Returned(c)
  BY <1>0, <1>7, <1>8 DEF BeingRun, Returned, At
<1>a. \A k, l \in 1..m : k # l => order[k] # order[l]
  BY <1>3
<1>b. \A z \in Sockets : entry'[z] = IF z \in S THEN NoCb ELSE entry[z]
  BY <1>3
<1>c. \A k \in 1..m : order[k] \in S /\ order[k] \in Sockets /\ _events'[k] = entry[order[k]]
  BY <1>3, <1>4, EpollConstants
<1>d. \A k \in 1..m : /\ _events'[k] \in Callbacks /\ heap[_events'[k]] = "live"
                      /\ Soc(_events'[k]) = order[k]
  <2>1. \A k \in 1..m : entry[order[k]] # NoCb
    BY <1>3, <1>c
  <2>2. \A z \in Sockets : entry[z] # NoCb =>
          entry[z] \in Callbacks /\ heap[entry[z]] = "live" /\ Soc(entry[z]) = z
    BY Zenon DEF ReactorTypes, ReactorInv
  <2>. QED
    BY Zenon, <1>c, <2>1, <2>2
<1>10. ReactorTypes'
  <2>1. entry' \in [Sockets -> Callbacks \cup {NoCb}]
    BY <1>3 DEF ReactorTypes
  <2>2. ASSUME NEW k \in 1..MaxEvents PROVE _events'[k] \in Callbacks \cup {NoCb}
    <3>1. CASE k \in 1..m
      BY <1>d, <3>1
    <3>2. CASE k \notin 1..m
      BY <1>3, <3>2 DEF ReactorTypes
    <3>. QED
      BY <3>1, <3>2
  <2>3. _events' = [k \in 1..MaxEvents |-> _events'[k]]
    BY <1>3
  <2>4. _events' \in [1..MaxEvents -> Callbacks \cup {NoCb}]
    BY Zenon, <2>2, <2>3
  <2>. QED
    BY <1>0, <1>6, <2>1, <2>4 DEF ReactorTypes
<1>11. ReactorInv'
  <2>1. ASSUME NEW z \in Sockets, entry'[z] # NoCb
        PROVE  heap'[entry'[z]] = "live" /\ Soc(entry'[z]) = z
    BY <1>0, <1>b, <2>1 DEF ReactorInv
  <2>2. ASSUME NEW k \in 1..m, NEW z \in Sockets PROVE entry'[z] # _events'[k]
    <3>1. CASE z \in S
      BY <1>b, <1>d, <3>1, EpollConstants
    <3>2. CASE z \notin S
      <4>1. entry'[z] = entry[z] /\ order[k] # z
        BY <1>b, <1>c, <3>2
      <4>2. Soc(_events'[k]) = order[k] /\ _events'[k] # NoCb
        BY <1>d, EpollConstants
      <4>. QED
        BY <4>1, <4>2 DEF ReactorInv
    <3>. QED
      BY Zenon, <3>1, <3>2
  <2>3. \A k, l \in 1..m : k # l => Soc(_events'[k]) # Soc(_events'[l])
    <3>1. \A k \in 1..m : Soc(_events'[k]) = order[k]
      BY <1>d
    <3>. QED
      BY Zenon, <1>a, <3>1
  <2>4. \A v \in Workers : loop'[v].pc \notin {"call", "delete"}
    BY <1>7
  <2>5. \A v \in Workers, k \in Nat : InRound(v, k)' =>
          /\ _events'[k] \in Callbacks /\ heap'[_events'[k]] = "live"
          /\ \A z \in Sockets : entry'[z] # _events'[k]
    BY Zenon, <1>0, <1>8, <1>d, <2>2
  <2>6. \A v \in Workers : \A k, l \in Nat : InRound(v, k)' /\ InRound(v, l)' /\ k # l =>
          Soc(_events'[k]) # Soc(_events'[l])
    BY Zenon, <1>8, <2>3
  <2>. QED
    BY Zenon, <2>1, <2>4, <2>5, <2>6 DEF ReactorInv
<1>12. \A s \in Sockets : entry'[s] \in {entry[s], NoCb}
  BY <1>b
<1>13. ASSUME NEW c, Returned(c)' PROVE \E s \in Ready : entry[s] = c
  <2>1. PICK v \in Workers, k \in Nat : InRound(v, k)' /\ _events'[k] = c
    BY <1>13 DEF Returned
  <2>. QED
    BY <1>8, <1>c, <2>1
<1>. QED
  BY <1>0, <1>9, <1>10, <1>11, <1>12, <1>13

\* The loop takes the next event or ends: nothing changes in what is left to do.
LEMMA HandleKeeps ==
  ASSUME OneWorker, ReactorTypes, ReactorInv, NEW w \in Workers, NextEvent(w)
  PROVE  /\ ReactorTypes' /\ ReactorInv'
         /\ UNCHANGED <<entry, heap, misused>>
         /\ \A c : ~BeingRun(c) /\ ~BeingRun(c)' /\ (Returned(c)' => Returned(c))
<1>0. /\ loop[w].pc = "handle" /\ UNCHANGED <<entry, heap, _events, misused>>
      /\ IF MoreEvents(w)
         THEN loop' = [loop EXCEPT ![w].pc = "call", ![w].cb = _events[loop[w].i]]
         ELSE loop' = [loop EXCEPT ![w].pc = "check"]
  BY Zenon DEF NextEvent, At, Go
<1>1. loop \in [Workers -> Place]
  BY Zenon DEF ReactorTypes
<1>2. /\ loop[w].i \in Nat \ {0} /\ loop[w].n \in 0..MaxEvents
      /\ \A v \in Workers : v = w
  BY <1>1 DEF Place, OneWorker
<1>3. CASE MoreEvents(w)
  <2>0. loop[w].i <= loop[w].n
    BY <1>3 DEF MoreEvents
  <2>1. InRound(w, loop[w].i) /\ loop[w].i \in Nat
    BY <1>0, <1>2, <2>0 DEF InRound
  <2>2. _events[loop[w].i] \in Callbacks
    BY <2>1 DEF ReactorInv
  <2>3. loop' = [loop EXCEPT ![w] = [loop[w] EXCEPT !.pc = "call", !.cb = _events[loop[w].i]]]
    BY Zenon, <1>0, <1>1, <1>3
  <2>4. [loop[w] EXCEPT !.pc = "call", !.cb = _events[loop[w].i]] \in Place
    BY Zenon, <1>1, <2>2, <1>2, PlaceUpdates
  <2>5. loop' \in [Workers -> Place]
    BY Zenon, <1>1, <2>3, <2>4
  <2>6. /\ loop'[w].pc = "call" /\ loop'[w].cb = _events[loop[w].i]
        /\ loop'[w].n = loop[w].n /\ loop'[w].i = loop[w].i
    BY <1>1, <2>3 DEF Place
  <2>7. \A v \in Workers, k \in Nat : InRound(v, k)' <=> InRound(v, k)
    BY <1>0, <1>2, <2>6 DEF InRound
  <2>8. ReactorTypes'
    BY <1>0, <2>5 DEF ReactorTypes
  <2>9. ReactorInv'
    BY <1>0, <1>2, <2>0, <2>6, <2>7 DEF ReactorInv
  <2>10. \A c : ~BeingRun(c) /\ ~BeingRun(c)' /\ (Returned(c)' => Returned(c))
    BY <1>0, <1>2, <2>6, <2>7 DEF BeingRun, Returned, At
  <2>. QED
    BY <1>0, <2>8, <2>9, <2>10
<1>4. CASE ~MoreEvents(w)
  <2>1. loop' = [loop EXCEPT ![w] = [loop[w] EXCEPT !.pc = "check"]]
    BY Zenon, <1>0, <1>1, <1>4
  <2>2. [loop[w] EXCEPT !.pc = "check"] \in Place
    BY Zenon, <1>1, <1>2, PlaceUpdates
  <2>3. loop' \in [Workers -> Place]
    BY Zenon, <1>1, <2>1, <2>2
  <2>4. loop'[w].pc = "check"
    BY <1>1, <2>1 DEF Place
  <2>. QED
    BY <1>0, <1>2, <2>3, <2>4 DEF ReactorTypes, ReactorInv, InRound, BeingRun, Returned, At
<1>. QED
  BY <1>3, <1>4

\* The next callback of the round is called.
LEMMA CallKeeps ==
  ASSUME OneWorker, ReactorTypes, ReactorInv, NEW w \in Workers, NEW c \in Callbacks,
         Calls(w, c), UNCHANGED <<entry, heap>>
  PROVE  /\ ReactorTypes' /\ ReactorInv'
         /\ heap[c] # "unused" /\ (Kept(c) => heap[c] = "live") /\ Returned(c)
         /\ \A d : ~BeingRun(d) /\ (BeingRun(d)' <=> d = c) /\ (Returned(d)' <=> Returned(d))
<1>0. /\ loop[w].pc = "call" /\ loop[w].cb = c /\ _events' = _events
      /\ loop' = [loop EXCEPT ![w].pc = "delete"]
  BY Zenon DEF Calls, At, Go
<1>1. loop \in [Workers -> Place]
  BY Zenon DEF ReactorTypes
<1>2. /\ loop[w].i \in Nat \ {0} /\ loop[w].n \in 0..MaxEvents
      /\ \A v \in Workers : v = w
  BY <1>1 DEF Place, OneWorker
<1>3. loop[w].i <= loop[w].n /\ _events[loop[w].i] = c
  BY <1>0 DEF ReactorInv
<1>4. InRound(w, loop[w].i)
  <2>1. loop[w].i \in loop[w].i..loop[w].n
    BY <1>2, <1>3, EpollConstants
  <2>. QED
    BY Zenon, <1>0, <2>1 DEF InRound
<1>5. heap[c] # "unused" /\ (Kept(c) => heap[c] = "live") /\ Returned(c)
  BY <1>2, <1>3, <1>4 DEF ReactorInv, Returned
<1>6. loop' = [loop EXCEPT ![w] = [loop[w] EXCEPT !.pc = "delete"]]
  BY Zenon, <1>0, <1>1
<1>7. [loop[w] EXCEPT !.pc = "delete"] \in Place
  BY Zenon, <1>1, <1>2, PlaceUpdates
<1>8. loop' \in [Workers -> Place]
  BY Zenon, <1>1, <1>6, <1>7
<1>9. /\ loop'[w].pc = "delete" /\ loop'[w].cb = c
      /\ loop'[w].i = loop[w].i /\ loop'[w].n = loop[w].n
  BY <1>0, <1>1, <1>6 DEF Place
<1>10. \A v \in Workers, k \in Nat : InRound(v, k)' <=> InRound(v, k)
  BY <1>0, <1>2, <1>9 DEF InRound
<1>11. ReactorTypes'
  BY <1>0, <1>8 DEF ReactorTypes
<1>12. ReactorInv'
  BY <1>0, <1>2, <1>3, <1>9, <1>10 DEF ReactorInv
<1>13. \A d : ~BeingRun(d) /\ (BeingRun(d)' <=> d = c) /\ (Returned(d)' <=> Returned(d))
  BY <1>0, <1>2, <1>9, <1>10 DEF BeingRun, Returned, At
<1>. QED
  BY <1>5, <1>11, <1>12, <1>13

\* The callback deletes itself, and the loop goes on.
LEMMA RanKeeps ==
  ASSUME OneWorker, ReactorTypes, ReactorInv, NEW w \in Workers, Ran(w)
  PROVE  /\ ReactorTypes' /\ ReactorInv' /\ UNCHANGED entry
         /\ \E c \in Callbacks :
              /\ Use(c) /\ Returned(c)
              /\ heap[c] # "unused" /\ (Kept(c) => heap[c] = "live")
              /\ heap' = [heap EXCEPT ![c] = "deleted"]
              /\ \A d : (BeingRun(d) <=> d = c) /\ ~BeingRun(d)'
              /\ \A d : Returned(d)' => Returned(d) /\ d # c
<1> DEFINE c == loop[w].cb
<1>0. /\ loop[w].pc = "delete" /\ UNCHANGED <<entry, _events>> /\ Delete(c)
      /\ loop' = [loop EXCEPT ![w].pc = "handle", ![w].i = @ + 1, ![w].cb = NoCb]
  BY Zenon DEF Ran, At
<1>1. loop \in [Workers -> Place]
  BY Zenon DEF ReactorTypes
<1>2. /\ loop[w].i \in Nat \ {0} /\ loop[w].n \in 0..MaxEvents
      /\ \A v \in Workers : v = w
  BY <1>1 DEF Place, OneWorker
<1>3. loop[w].i <= loop[w].n /\ _events[loop[w].i] = c
  BY <1>0 DEF ReactorInv
<1>4. InRound(w, loop[w].i) /\ loop[w].i \in Nat
  <2>1. loop[w].i \in loop[w].i..loop[w].n /\ loop[w].i \in Nat
    BY <1>2, <1>3, EpollConstants
  <2>. QED
    BY Zenon, <1>0, <2>1 DEF InRound
<1>5. /\ c \in Callbacks /\ heap[c] # "unused" /\ (Kept(c) => heap[c] = "live")
      /\ \A s \in Sockets : entry[s] # c
  BY <1>3, <1>4 DEF ReactorInv
<1>6. Use(c) /\ heap' = [heap EXCEPT ![c] = "deleted"] /\ Returned(c)
  BY <1>0, <1>3, <1>4, <1>5, EpollConstants DEF Delete, Returned
<1>7. loop' = [loop EXCEPT ![w] = [loop[w] EXCEPT !.pc = "handle", !.i = loop[w].i + 1, !.cb = NoCb]]
  BY Zenon, <1>0, <1>1
<1>8. [loop[w] EXCEPT !.pc = "handle", !.i = loop[w].i + 1, !.cb = NoCb] \in Place
  BY Zenon, <1>1, <1>2, PlaceUpdates
<1>9. loop' \in [Workers -> Place]
  BY Zenon, <1>1, <1>7, <1>8
<1>10. loop'[w].pc = "handle" /\ loop'[w].i = loop[w].i + 1 /\ loop'[w].n = loop[w].n
  BY <1>1, <1>7 DEF Place
<1>11. \A v \in Workers, k \in Nat : InRound(v, k)' => InRound(v, k) /\ k # loop[w].i
  <2>1. \A k \in Nat : InRound(w, k)' <=> k \in (loop[w].i + 1)..loop[w].n
    BY <1>10 DEF InRound
  <2>2. \A k \in Nat : InRound(w, k) <=> k \in loop[w].i..loop[w].n
    BY <1>0 DEF InRound
  <2>3. loop[w].i \in Nat /\ loop[w].n \in Nat
    BY <1>2, EpollConstants
  <2>4. \A i, n \in Nat : \A k \in (i + 1)..n : k \in i..n /\ k # i
    OBVIOUS
  <2>5. \A k \in Nat : InRound(w, k)' => InRound(w, k) /\ k # loop[w].i
    BY Zenon, <2>1, <2>2, <2>3, <2>4
  <2>. QED
    BY Zenon, <1>2, <2>5
<1>12. \A k \in Nat : InRound(w, k)' => Soc(_events[k]) # Soc(c)
  <2>1. \A k, l \in Nat : InRound(w, k) /\ InRound(w, l) /\ k # l =>
          Soc(_events[k]) # Soc(_events[l])
    BY Zenon DEF ReactorInv
  <2>2. \A k \in Nat : InRound(w, k) /\ k # loop[w].i => Soc(_events[k]) # Soc(_events[loop[w].i])
    BY Zenon, <1>4, <2>1
  <2>. QED
    BY Zenon, <1>3, <1>11, <2>2
<1>13. ReactorTypes'
  BY Zenon, <1>0, <1>6, <1>9 DEF ReactorTypes
<1>14. ReactorInv'
  <2>0. /\ entry' = entry /\ _events' = _events
        /\ \A v \in Workers : loop'[v].pc \notin {"call", "delete"}
    BY Zenon, <1>0, <1>2, <1>10
  <2>1. ASSUME NEW s \in Sockets, entry[s] # NoCb
        PROVE  heap'[entry[s]] = "live" /\ Soc(entry[s]) = s
    BY <1>5, <1>6, <2>1 DEF ReactorTypes, ReactorInv
  <2>2. ASSUME NEW v \in Workers, NEW k \in Nat, InRound(v, k)'
        PROVE  /\ _events[k] \in Callbacks /\ heap'[_events[k]] # "unused"
               /\ Kept(_events[k]) => heap'[_events[k]] = "live"
               /\ \A s \in Sockets : entry[s] # _events[k]
    <3>1. InRound(v, k) /\ _events[k] # c
      BY Zenon, <1>2, <1>11, <1>12, <2>2
    <3>2. /\ _events[k] \in Callbacks /\ heap[_events[k]] # "unused"
          /\ Kept(_events[k]) => heap[_events[k]] = "live"
          /\ \A s \in Sockets : entry[s] # _events[k]
      BY Zenon, <3>1 DEF ReactorInv
    <3>3. heap'[_events[k]] = heap[_events[k]]
      BY Zenon, <1>6, <3>1, <3>2 DEF ReactorTypes
    <3>. QED
      BY Zenon, <3>2, <3>3
  <2>3. \A v \in Workers, k, l \in Nat : InRound(v, k)' /\ InRound(v, l)' /\ k # l =>
          Soc(_events[k]) # Soc(_events[l])
    <3>1. \A v \in Workers : \A k, l \in Nat : InRound(v, k) /\ InRound(v, l) /\ k # l =>
            Soc(_events[k]) # Soc(_events[l])
      BY Zenon DEF ReactorInv
    <3>. QED
      BY Zenon, <1>11, <3>1
  <2>4. \A s \in Sockets : entry'[s] # NoCb =>
          heap'[entry'[s]] = "live" /\ Soc(entry'[s]) = s
    BY Zenon, <2>0, <2>1
  <2>5. \A v \in Workers : \A k \in Nat : InRound(v, k)' =>
          /\ _events'[k] \in Callbacks /\ heap'[_events'[k]] # "unused"
          /\ Kept(_events'[k]) => heap'[_events'[k]] = "live"
          /\ \A s \in Sockets : entry'[s] # _events'[k]
    BY Zenon, <2>0, <2>2
  <2>6. \A v \in Workers : \A k, l \in Nat : InRound(v, k)' /\ InRound(v, l)' /\ k # l =>
          Soc(_events'[k]) # Soc(_events'[l])
    BY Zenon, <2>0, <2>3
  <2>7. \A v \in Workers : loop'[v].pc \notin {"call", "delete"}
    BY Zenon, <2>0
  <2>. QED
    BY Zenon, <2>4, <2>5, <2>6, <2>7 DEF ReactorInv
<1>15. \A d : (BeingRun(d) <=> d = c) /\ ~BeingRun(d)'
  BY Zenon, <1>0, <1>2, <1>10 DEF BeingRun, At
<1>16. \A d : Returned(d)' => Returned(d) /\ d # c
  BY Zenon, <1>0, <1>2, <1>11, <1>12 DEF Returned
<1>. HIDE DEF c
<1>. QED
  BY Zenon, <1>0, <1>5, <1>6, <1>13, <1>14, <1>15, <1>16

LEMMA EndKeeps ==
  ASSUME OneWorker, ReactorTypes, ReactorInv, NEW w \in Workers, Check(w, FALSE)
  PROVE  /\ ReactorTypes' /\ ReactorInv'
         /\ UNCHANGED <<entry, heap, misused>>
         /\ \A c : ~BeingRun(c) /\ ~BeingRun(c)' /\ ~Returned(c)'
<1>0. /\ loop[w].pc = "check" /\ UNCHANGED <<entry, heap, _events, misused>>
      /\ loop' = [loop EXCEPT ![w].pc = "wait", ![w].n = 0, ![w].i = 1]
  BY DEF Check, Stops, At
<1>1. loop \in [Workers -> Place] /\ \A v \in Workers : v = w
  BY Zenon DEF ReactorTypes, OneWorker
<1>2. loop' = [loop EXCEPT ![w] = [loop[w] EXCEPT !.pc = "wait", !.n = 0, !.i = 1]]
  BY Zenon, <1>0, <1>1
<1>3. [loop[w] EXCEPT !.pc = "wait", !.n = 0, !.i = 1] \in Place
  <2>1. 0 \in 0..MaxEvents
    BY EpollConstants
  <2>. QED
    BY Zenon, <1>1, <2>1, PlaceUpdates
<1>4. loop' \in [Workers -> Place]
  BY Zenon, <1>1, <1>2, <1>3
<1>5. loop'[w].pc = "wait"
  BY Zenon, <1>1, <1>2 DEF Place
<1>. QED
  BY <1>0, <1>1, <1>4, <1>5 DEF ReactorTypes, ReactorInv, InRound, BeingRun, Returned, At

-------------------------------------------------------------------------------
(* What the other threads do to the reactor.                               *)

LEMMA ReactorFrame ==
  ASSUME ReactorTypes, ReactorInv, UNCHANGED <<entry, heap, _events, loop>>
  PROVE  ReactorTypes' /\ ReactorInv'
BY DEF ReactorTypes, ReactorInv, InRound

\* What runs or was returned depends on the worker alone.
LEMMA RoundFrame ==
  ASSUME UNCHANGED <<_events, loop>>
  PROVE  \A c : (BeingRun(c)' <=> BeingRun(c)) /\ (Returned(c)' <=> Returned(c))
BY DEF BeingRun, Returned, InRound, At

LEMMA InHandIsInRound ==
  ASSUME ReactorTypes, NEW w \in Workers, loop[w].pc = "delete", loop[w].i <= loop[w].n
  PROVE  loop[w].i \in Nat /\ InRound(w, loop[w].i)
<1>1. loop[w] \in Place
  BY Zenon DEF ReactorTypes
<1>2. loop[w].i \in Nat /\ loop[w].n \in Nat
  BY <1>1, EpollConstants DEF Place
<1>. QED
  BY <1>2 DEF InRound

\* Between two steps of the reactor, what it has in hand stays as it is required to be.
LEMMA HandFrame ==
  ASSUME ReactorInv, UNCHANGED <<_events, loop>>,
         \A s \in Sockets : entry'[s] # NoCb => heap'[entry'[s]] = "live" /\ Soc(entry'[s]) = s,
         \A w \in Workers : \A k \in Nat : InRound(w, k) =>
           /\ heap'[_events[k]] # "unused"
           /\ Kept(_events[k]) => heap'[_events[k]] = "live"
           /\ \A s \in Sockets : entry'[s] # _events[k]
  PROVE  ReactorInv'
<1>1. \A w \in Workers : \A k \in Nat : InRound(w, k)' <=> InRound(w, k)
  BY Zenon DEF InRound
<1>2. _events' = _events /\ loop' = loop
  OBVIOUS
<1>3. \A w \in Workers : loop'[w].pc \in {"call", "delete"} =>
        loop'[w].i <= loop'[w].n /\ loop'[w].cb = _events'[loop'[w].i]
  BY Zenon, <1>2 DEF ReactorInv
<1>4. \A w \in Workers : \A k \in Nat : InRound(w, k)' =>
        /\ _events'[k] \in Callbacks /\ heap'[_events'[k]] # "unused"
        /\ Kept(_events'[k]) => heap'[_events'[k]] = "live"
        /\ \A s \in Sockets : entry'[s] # _events'[k]
  <2>1. \A w \in Workers : \A k \in Nat : InRound(w, k) => _events[k] \in Callbacks
    BY Zenon DEF ReactorInv
  <2>. QED
    BY Zenon, <1>1, <1>2, <2>1
<1>5. \A w \in Workers : \A k, l \in Nat : InRound(w, k)' /\ InRound(w, l)' /\ k # l =>
        Soc(_events'[k]) # Soc(_events'[l])
  <2>1. \A w \in Workers : \A k, l \in Nat : InRound(w, k) /\ InRound(w, l) /\ k # l =>
          Soc(_events[k]) # Soc(_events[l])
    BY Zenon DEF ReactorInv
  <2>. QED
    BY <1>1, <1>2, <2>1
<1>. QED
  BY Zenon, <1>3, <1>4, <1>5 DEF ReactorInv

\* A new callback is neither running nor returned.
LEMMA RegisterKeeps ==
  ASSUME ReactorTypes, ReactorInv, NEW s \in Sockets, NEW c \in Callbacks, Soc(c) = s,
         MonitorFor(s, c), UNCHANGED <<_events, loop>>
  PROVE  ReactorTypes' /\ ReactorInv' /\ ~BeingRun(c) /\ ~Returned(c)
<1>0. /\ heap[c] = "unused" /\ heap' = [heap EXCEPT ![c] = "live"]
      /\ entry' = [entry EXCEPT ![s] = c]
  BY DEF MonitorFor
<1>1. ReactorTypes'
  BY Zenon, <1>0 DEF ReactorTypes
<1>2. ASSUME NEW w \in Workers, NEW k \in Nat, InRound(w, k)
      PROVE  /\ _events[k] # c
             /\ heap'[_events[k]] # "unused"
             /\ Kept(_events[k]) => heap'[_events[k]] = "live"
             /\ \A z \in Sockets : entry'[z] # _events[k]
  <2>1. /\ _events[k] \in Callbacks /\ heap[_events[k]] # "unused"
        /\ Kept(_events[k]) => heap[_events[k]] = "live"
        /\ \A z \in Sockets : entry[z] # _events[k]
    BY Zenon, <1>2 DEF ReactorInv
  <2>2. DOMAIN heap = Callbacks /\ DOMAIN entry = Sockets
    BY Zenon DEF ReactorTypes
  <2>. QED
    BY <1>0, <2>1, <2>2
<1>3. ASSUME NEW z \in Sockets, entry'[z] # NoCb
      PROVE  heap'[entry'[z]] = "live" /\ Soc(entry'[z]) = z
  <2>1. /\ heap'[c] = "live" /\ entry'[s] = c
        /\ \A d \in Callbacks \ {c} : heap'[d] = heap[d]
        /\ z # s => entry'[z] = entry[z]
    BY Zenon, <1>0 DEF ReactorTypes
  <2>2. CASE z = s
    BY Zenon, <2>1, <2>2
  <2>3. CASE z # s
    <3>1. entry'[z] = entry[z] /\ entry[z] # NoCb
      BY Zenon, <1>3, <2>1, <2>3
    <3>2. entry[z] \in Callbacks /\ heap[entry[z]] = "live" /\ Soc(entry[z]) = z
      BY Zenon, <3>1 DEF ReactorTypes, ReactorInv
    <3>. QED
      BY <1>0, <2>1, <3>1, <3>2
  <2>. QED
    BY Zenon, <2>2, <2>3
<1>4. ReactorInv'
  BY Zenon, <1>2, <1>3, HandFrame
<1>5. ~Returned(c)
  BY Zenon, <1>2 DEF Returned
<1>6. ASSUME BeingRun(c) PROVE FALSE
  <2>1. PICK w \in Workers : loop[w].pc = "delete" /\ loop[w].cb = c
    BY <1>6 DEF BeingRun, At
  <2>2. loop[w].i <= loop[w].n /\ _events[loop[w].i] = c
    BY Zenon, <2>1 DEF ReactorInv
  <2>3. loop[w].i \in Nat /\ InRound(w, loop[w].i)
    BY <2>1, <2>2, InHandIsInRound
  <2>. QED
    BY <1>2, <2>2, <2>3
<1>. QED
  BY <1>1, <1>4, <1>5, <1>6

\* A callback that is not armed, and that others may delete, is deleted.
LEMMA DeleteKeeps ==
  ASSUME ReactorTypes, ReactorInv, NEW c \in Callbacks, ~Kept(c), heap[c] # "unused",
         Delete(c), \A s \in Sockets : entry[s] # c, UNCHANGED <<entry, _events, loop>>
  PROVE  ReactorTypes' /\ ReactorInv' /\ heap' = [heap EXCEPT ![c] = "deleted"]
<1>0. heap' = [heap EXCEPT ![c] = "deleted"]
  BY EpollConstants DEF Delete
<1>1. ReactorTypes'
  BY Zenon, <1>0 DEF ReactorTypes
<1>2. heap'[c] = "deleted" /\ \A d \in Callbacks \ {c} : heap'[d] = heap[d]
  BY Zenon, <1>0 DEF ReactorTypes
<1>3. \A s \in Sockets : entry'[s] # NoCb => heap'[entry'[s]] = "live" /\ Soc(entry'[s]) = s
  <2>1. \A s \in Sockets : entry[s] # NoCb =>
          entry[s] \in Callbacks \ {c} /\ heap[entry[s]] = "live" /\ Soc(entry[s]) = s
    BY Zenon DEF ReactorTypes, ReactorInv
  <2>. QED
    BY <1>2, <2>1
<1>4. \A w \in Workers : \A k \in Nat : InRound(w, k) =>
        /\ heap'[_events[k]] # "unused"
        /\ Kept(_events[k]) => heap'[_events[k]] = "live"
        /\ \A s \in Sockets : entry'[s] # _events[k]
  <2>1. \A w \in Workers : \A k \in Nat : InRound(w, k) =>
          /\ _events[k] \in Callbacks /\ heap[_events[k]] # "unused"
          /\ Kept(_events[k]) => heap[_events[k]] = "live"
          /\ \A s \in Sockets : entry[s] # _events[k]
    BY Zenon DEF ReactorInv
  <2>. QED
    BY <1>2, <2>1
<1>5. ReactorInv'
  BY Zenon, <1>3, <1>4, HandFrame
<1>. QED
  BY Zenon, <1>0, <1>1, <1>5

\* A callback that runs was returned.
LEMMA RunningIsReturned ==
  ASSUME ReactorTypes, ReactorInv, NEW c, BeingRun(c)
  PROVE  Returned(c)
<1>1. PICK w \in Workers : loop[w].pc = "delete" /\ loop[w].cb = c
  BY Zenon DEF BeingRun, At
<1>2. loop[w].i <= loop[w].n /\ _events[loop[w].i] = c
  BY Zenon, <1>1 DEF ReactorInv
<1>3. loop[w].i \in Nat /\ InRound(w, loop[w].i)
  BY Zenon, <1>1, <1>2, InHandIsInRound
<1>. QED
  BY <1>2, <1>3 DEF Returned

===============================================================================

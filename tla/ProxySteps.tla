------------------------------- MODULE ProxySteps ------------------------------
(***************************************************************************)
(* Lemmas about Proxy: the closures and the callbacks they are made from,  *)
(* and the steps of the communication handler's threads and of the start   *)
(* of StartScheduling, which keep the invariant of the whole proxy.        *)
(***************************************************************************)
EXTENDS ProxyLemmas

-------------------------------------------------------------------------------
(* The closures and the callbacks.                                         *)

SameCallbacks ==
  \A c \in Callbacks : /\ Uncalled(c)' <=> Uncalled(c)
                       /\ heap'[c] = "unused" <=> heap[c] = "unused"

\* A callback is registered: it waits to be called.
Registered(c) ==
  /\ heap[c] = "unused"
  /\ \A d \in Callbacks : /\ Uncalled(d)' <=> Uncalled(d) \/ d = c
                          /\ heap'[d] = "unused" <=> heap[d] = "unused" /\ d # c

\* A callback is called or deleted: it no longer waits to be called.
Gone(c) ==
  /\ heap[c] # "unused"
  /\ \A d \in Callbacks : /\ Uncalled(d)' <=> Uncalled(d) /\ d # c
                          /\ heap'[d] = "unused" <=> heap[d] = "unused"

LEMMA NotYetSame ==
  ASSUME \A c \in Callbacks : heap'[c] = "unused" <=> heap[c] = "unused"
  PROVE  \A s : NotYet(s)' <=> NotYet(s)
BY DEF NotYet

\* Steps that end closures at most.
LEMMA ClosuresFrame ==
  ASSUME ConnectInv, PipeInv, SameCallbacks, tasks \subseteq Tasks, tasks' \subseteq tasks,
         BeforeConnect' <=> BeforeConnect
  PROVE  ConnectInv' /\ PipeInv'
<1>1. \A s : NotYet(s)' <=> NotYet(s)
  BY NotYetSame DEF SameCallbacks
<1>2. Uncalled(ConnectCb)' <=> Uncalled(ConnectCb)
  BY CallbackFacts DEF SameCallbacks
<1>3. heap'[ConnectCb] = "unused" <=> heap[ConnectCb] = "unused"
  BY CallbackFacts DEF SameCallbacks
<1>4. ConnectInv'
  BY <1>1, <1>2, <1>3 DEF ConnectInv
<1>5. \A t \in tasks : t.cb \in Callbacks
  BY TaskFields
<1>6. PipeInv'
  BY <1>5 DEF PipeInv, SameCallbacks
<1>. QED
  BY <1>4, <1>6

\* Steps that move a closure on.
LEMMA ClosuresMove ==
  ASSUME ConnectInv, PipeInv, SameCallbacks, UNCHANGED sched, tasks \subseteq Tasks,
         NEW t \in tasks, NEW a \in TaskAt, Goto(t, a),
         a \in {"client", "server", "clear", "delete"} => t.cb = ConnectCb /\ ~t.err,
         a = "again" => Kind(t.cb) = "monitor",
         a \in {"start", "client"} => t.cb = ConnectCb /\ NotYet(In) /\ NotYet(Out),
         a = "server" => NotYet(Out),
         a \in {"server", "clear", "delete"} => ~NotYet(In)
  PROVE  ConnectInv' /\ PipeInv'
<1>0. PICK u \in Tasks : /\ tasks' = (tasks \ {t}) \cup {u}
                         /\ u.cb = t.cb /\ u.err = t.err /\ u.at = a
  BY Zenon, Moved
<1>1. \A s : NotYet(s)' <=> NotYet(s)
  BY NotYetSame DEF SameCallbacks
<1>2. Uncalled(ConnectCb)' <=> Uncalled(ConnectCb)
  BY CallbackFacts DEF SameCallbacks
<1>3. heap'[ConnectCb] = "unused" <=> heap[ConnectCb] = "unused"
  BY CallbackFacts DEF SameCallbacks
<1>4. BeforeConnect' <=> BeforeConnect
  BY DEF BeforeConnect
<1>5. ConnectInv'
  BY <1>0, <1>1, <1>2, <1>3, <1>4 DEF ConnectInv
<1>6. \A v \in tasks : v.cb \in Callbacks
  BY TaskFields
<1>7. PipeInv'
  BY <1>0, <1>6 DEF PipeInv, SameCallbacks
<1>. QED
  BY <1>5, <1>7

\* A callback is called and its closure submitted.
LEMMA ClosuresCall ==
  ASSUME ConnectInv, PipeInv, NEW c \in Callbacks, Gone(c), UNCHANGED sched,
         Kept(c) => Uncalled(c), tasks \subseteq Tasks,
         NEW t \in Tasks, t.cb = c, t.at = "start", tasks' = tasks \cup {t}
  PROVE  ConnectInv' /\ PipeInv'
<1>1. \A s : NotYet(s)' <=> NotYet(s)
  BY NotYetSame DEF Gone
<1>2. Uncalled(ConnectCb)' => Uncalled(ConnectCb) /\ c # ConnectCb
  BY CallbackFacts DEF Gone
<1>3. heap'[ConnectCb] = "unused" <=> heap[ConnectCb] = "unused"
  BY CallbackFacts DEF Gone
<1>4. BeforeConnect' <=> BeforeConnect
  BY DEF BeforeConnect
<1>5. c = ConnectCb => Uncalled(ConnectCb) /\ heap[ConnectCb] # "unused"
  BY CallbackFacts DEF Kept, Gone
<1>6. ConnectInv'
  BY <1>1, <1>2, <1>3, <1>4, <1>5 DEF ConnectInv
<1>7. \A v \in tasks : v.cb \in Callbacks
  BY TaskFields
<1>8. Kind(c) = "monitor" => Uncalled(c)
  BY DEF Kept
<1>9. PipeInv'
  BY <1>7, <1>8 DEF PipeInv, Gone
<1>. QED
  BY <1>6, <1>9

\* A callback that others may delete is deleted.
LEMMA ClosuresGone ==
  ASSUME ConnectInv, PipeInv, NEW c \in Callbacks, Gone(c), ~Kept(c), c # ConnectCb,
         tasks \subseteq Tasks, tasks' \subseteq tasks, BeforeConnect' <=> BeforeConnect
  PROVE  ConnectInv' /\ PipeInv'
<1>1. \A s : NotYet(s)' <=> NotYet(s)
  BY NotYetSame DEF Gone
<1>2. /\ Uncalled(ConnectCb)' <=> Uncalled(ConnectCb)
      /\ heap'[ConnectCb] = "unused" <=> heap[ConnectCb] = "unused"
  BY CallbackFacts DEF Gone
<1>3. ConnectInv'
  BY <1>1, <1>2 DEF ConnectInv
<1>4. \A v \in tasks : v.cb \in Callbacks
  BY TaskFields
<1>5. PipeInv'
  BY <1>4 DEF PipeInv, Gone, Kept
<1>. QED
  BY <1>3, <1>5

\* A callback of another kind is registered.
LEMMA ClosuresRegister ==
  ASSUME ConnectInv, PipeInv, NEW c \in Callbacks, Registered(c), Kind(c) # "monitor",
         UNCHANGED tasks, tasks \subseteq Tasks,
         \/ c # ConnectCb /\ (BeforeConnect' <=> BeforeConnect)
         \/ BeforeConnect /\ ~BeforeConnect'
  PROVE  ConnectInv' /\ PipeInv'
<1>1. \A s : NotYet(s)' <=> NotYet(s)
  BY DEF NotYet, Registered
<1>2. /\ Uncalled(ConnectCb)' <=> Uncalled(ConnectCb) \/ c = ConnectCb
      /\ heap'[ConnectCb] = "unused" <=> heap[ConnectCb] = "unused" /\ c # ConnectCb
  BY CallbackFacts DEF Registered
<1>3. ConnectInv'
  BY <1>1, <1>2 DEF ConnectInv
<1>4. \A v \in tasks : v.cb \in Callbacks
  BY TaskFields
<1>5. PipeInv'
  BY <1>4 DEF PipeInv, Registered
<1>. QED
  BY <1>3, <1>5

\* A socket is monitored for input; no callback or closure waits for it already.
LEMMA ClosuresMonitor ==
  ASSUME ConnectInv, PipeInv, NEW s \in Sockets, NEW c \in Callbacks,
         Kind(c) = "monitor", Soc(c) = s, Registered(c), UNCHANGED sched,
         tasks \subseteq Tasks, tasks' \subseteq Tasks,
         ~BeforeConnect /\ ~Uncalled(ConnectCb),
         \A d \in Callbacks : Kind(d) = "monitor" /\ Soc(d) = s => ~Uncalled(d),
         NEW t \in tasks,
         \/ /\ t.cb = ConnectCb /\ NotYet(s)
            /\ \E u \in Tasks : /\ tasks' = (tasks \ {t}) \cup {u}
                                /\ u.cb = t.cb /\ u.err = t.err
                                /\ \/ t.at = "client" /\ s = In /\ u.at = "server"
                                   \/ t.at = "server" /\ s = Out /\ u.at = "clear"
         \/ Kind(t.cb) = "monitor" /\ Soc(t.cb) = s /\ tasks' = tasks \ {t}
  PROVE  ConnectInv' /\ PipeInv'
<1>0. Sockets = {In, Out} /\ In # Out /\ ConnectCb \in Callbacks /\ Kind(ConnectCb) = "connect"
  BY CallbackFacts
<1>1. ~NotYet(s)' /\ \A z : z # s => (NotYet(z)' <=> NotYet(z))
  BY DEF NotYet, Registered
<1>2. ~Uncalled(ConnectCb)' /\ ~BeforeConnect'
  BY <1>0 DEF Registered, BeforeConnect
<1>3. \A v \in tasks : v.cb \in Callbacks
  BY TaskFields
<1>4. CASE /\ t.cb = ConnectCb /\ NotYet(s)
           /\ \E u \in Tasks : /\ tasks' = (tasks \ {t}) \cup {u}
                               /\ u.cb = t.cb /\ u.err = t.err
                               /\ \/ t.at = "client" /\ s = In /\ u.at = "server"
                                  \/ t.at = "server" /\ s = Out /\ u.at = "clear"
  <2>1. PICK u \in Tasks : /\ tasks' = (tasks \ {t}) \cup {u}
                           /\ u.cb = t.cb /\ u.err = t.err
                           /\ \/ t.at = "client" /\ s = In /\ u.at = "server"
                              \/ t.at = "server" /\ s = Out /\ u.at = "clear"
    BY Zenon, <1>4
  <2>2. ConnectInv'
    BY <1>0, <1>1, <1>2, <1>4, <2>1 DEF ConnectInv
  <2>3. \A v \in tasks : Kind(v.cb) = "monitor" => Soc(v.cb) # s
    BY <1>3, <1>4 DEF PipeInv, NotYet
  <2>4. \A v \in tasks' : v \in tasks \/ Kind(v.cb) = "connect"
    BY Zenon, <1>0, <1>4, <2>1
  <2>5. PipeInv'
    BY <1>3, <2>3, <2>4 DEF PipeInv, Registered
  <2>. QED
    BY <2>2, <2>5
<1>5. CASE Kind(t.cb) = "monitor" /\ Soc(t.cb) = s /\ tasks' = tasks \ {t}
  <2>1. ~NotYet(s)
    BY <1>3, <1>5 DEF PipeInv, NotYet
  <2>2. ConnectInv'
    BY Zenon, <1>0, <1>1, <1>2, <1>5, <2>1 DEF ConnectInv
  <2>3. PipeInv'
    BY <1>3, <1>5 DEF PipeInv, Registered
  <2>. QED
    BY <2>2, <2>3
<1>. QED
  BY <1>4, <1>5

-------------------------------------------------------------------------------
(* What the steps do to the callbacks.                                     *)

LEMMA WorkerEffects ==
  ASSUME OneWorker, ReactorTypes, ReactorInv, NEW w \in Workers,
         EpollWait(w, Ready) \/ NextEvent(w) \/ Ran(w) \/ Check(w, FALSE)
  PROVE  SameCallbacks
<1>1. CASE UNCHANGED heap /\ \A c : ~BeingRun(c) /\ ~BeingRun(c)'
  BY <1>1 DEF SameCallbacks, Uncalled
<1>2. CASE Ran(w)
  <2>1. PICK c \in Callbacks :
          /\ heap[c] # "unused" /\ heap' = [heap EXCEPT ![c] = "deleted"]
          /\ \A d : (BeingRun(d) <=> d = c) /\ ~BeingRun(d)'
    BY <1>2, RanKeeps
  <2>. QED
    BY <2>1 DEF SameCallbacks, Uncalled, ReactorTypes
<1>. QED
  BY Zenon, <1>1, <1>2, WaitKeeps, HandleKeeps, EndKeeps

LEMMA SameEffect ==
  ASSUME UNCHANGED <<heap, _events, loop>>
  PROVE  SameCallbacks
BY RoundFrame DEF SameCallbacks, Uncalled

LEMMA RegisterEffect ==
  ASSUME ReactorTypes, ReactorInv, NEW s \in Sockets, NEW c \in Callbacks, Soc(c) = s,
         MonitorFor(s, c), UNCHANGED <<_events, loop>>
  PROVE  Registered(c)
<1>1. \A d : BeingRun(d)' <=> BeingRun(d)
  BY RoundFrame
<1>2. ~BeingRun(c)
  BY RegisterKeeps
<1>. QED
  BY <1>1, <1>2 DEF MonitorFor, Registered, Uncalled, ReactorTypes

LEMMA CallEffect ==
  ASSUME OneWorker, ReactorTypes, ReactorInv, NEW w \in Workers, NEW c \in Callbacks,
         Calls(w, c), UNCHANGED <<entry, heap>>
  PROVE  Gone(c) /\ (heap[c] = "live" <=> Uncalled(c))
BY CallKeeps DEF Gone, Uncalled

LEMMA DeleteEffect ==
  ASSUME ReactorTypes, NEW c \in Callbacks, heap[c] # "unused", Delete(c),
         UNCHANGED <<_events, loop>>
  PROVE  Gone(c)
<1>1. \A d : BeingRun(d)' <=> BeingRun(d)
  BY RoundFrame
<1>2. heap' = [heap EXCEPT ![c] = "deleted"]
  BY EpollConstants DEF Delete
<1>. QED
  BY <1>1, <1>2 DEF Gone, Uncalled, ReactorTypes

-------------------------------------------------------------------------------
(* The invariant of the whole proxy, and steps that leave a part of it.    *)

ProxyInv ==
  /\ ReactorTypes /\ ReactorInv /\ JobTypes
  /\ ConnectInv /\ PipeInv /\ PurgeInv /\ ClientInv

\* Steps that do nothing to the purge callback.
LEMMA PurgeFrame ==
  ASSUME PurgeInv, UNCHANGED <<job, first_cb>>,
         Uncalled(PurgeCb)' <=> Uncalled(PurgeCb),
         heap'[PurgeCb] = "unused" <=> heap[PurgeCb] = "unused",
         sched' = "done" => first_cb = NoCb,
         \A t \in tasks' : t.cb = PurgeCb => \E u \in tasks : u.cb = PurgeCb,
         entry'[In] = PurgeCb => entry[In] = PurgeCb /\ sched' \in {"dequeue", "monitor"}
  PROVE  PurgeInv'
BY DEF PurgeInv

\* Steps that do nothing to the callback that notices the client's end.
LEMMA ClientFrame ==
  ASSUME ClientInv, UNCHANGED <<sched, shut, second_cb>>,
         Uncalled(CliClosedCb)' <=> Uncalled(CliClosedCb),
         heap'[CliClosedCb] = heap[CliClosedCb],
         NotYet(In)' <=> NotYet(In),
         entry'[In] = CliClosedCb => entry[In] = CliClosedCb,
         ConnectFailed => ConnectFailed',
         Returned(PurgeCb)' => Returned(PurgeCb),
         Returned(CliClosedCb)' => Returned(CliClosedCb),
         peer'[In] = "open" => peer[In] = "open",
         peer[In] = "open" => misused' = misused
  PROVE  ClientInv'
<1>1. BeforeConnect' <=> BeforeConnect
  BY DEF BeforeConnect
<1>. QED
  BY <1>1 DEF ClientInv

LEMMA FailedFrame ==
  ASSUME ConnectFailed, UNCHANGED sched, Uncalled(ConnectCb)' => Uncalled(ConnectCb),
         \A t \in tasks' : t.cb = ConnectCb => t \in tasks \/ t.at \in {"flag", "shutdown"}
  PROVE  ConnectFailed'
BY DEF ConnectFailed, BeforeConnect

\* A returned callback lives, as long as the client is there.
LEMMA UseIsSafe ==
  ASSUME ClientInv, NEW c \in Callbacks, Returned(c), Kept(c) => heap[c] = "live",
         Use(c), peer[In] = "open"
  PROVE  misused' = misused /\ heap[c] = "live"
<1>1. c \in {PurgeCb, CliClosedCb} \/ Kept(c)
  BY CallbackFacts DEF Kept
<1>2. heap[c] = "live"
  BY <1>1 DEF ClientInv
<1>. QED
  BY <1>2 DEF Use

\* The worker's loop, between calls.
LEMMA LoopKeeps ==
  ASSUME OneWorker, ProxyInv, NEW w \in Workers,
         Wait(w) \/ Handle(w) \/ Finish(w) \/ EndOfRound(w)
  PROVE  ReactorTypes' /\ ReactorInv' /\ ConnectInv' /\ PipeInv' /\ PurgeInv' /\ ClientInv'
<1>0. /\ ReactorTypes /\ ReactorInv /\ JobTypes /\ ConnectInv /\ PipeInv /\ PurgeInv /\ ClientInv
  BY Zenon DEF ProxyInv
<1>1. /\ UNCHANGED <<job, sched, tasks, first_cb, second_cb, shut, peer>>
      /\ EpollWait(w, Ready) \/ NextEvent(w) \/ Ran(w) \/ Check(w, FALSE)
  BY Zenon DEF Wait, Handle, Finish, EndOfRound, pipe, net
<1>2. SameCallbacks
  BY Zenon, <1>0, <1>1, WorkerEffects
<1>3. ReactorTypes' /\ ReactorInv' /\ \A s \in Sockets : entry'[s] \in {entry[s], NoCb}
  BY Zenon, <1>0, <1>1, WaitKeeps, HandleKeeps, RanKeeps, EndKeeps
<1>4. /\ tasks \subseteq Tasks /\ {In, Out} = Sockets
      /\ PurgeCb \in Callbacks /\ CliClosedCb \in Callbacks /\ ConnectCb \in Callbacks
      /\ NoCb \notin Callbacks
  BY <1>0, CallbackFacts DEF JobTypes
<1>5. BeforeConnect' <=> BeforeConnect
  BY <1>1 DEF BeforeConnect
<1>6. ConnectInv' /\ PipeInv'
  BY <1>0, <1>1, <1>2, <1>4, <1>5, ClosuresFrame
<1>7. entry'[In] \in {entry[In], NoCb}
  BY Zenon, <1>3, <1>4
<1>8. PurgeInv'
  BY Zenon, <1>0, <1>1, <1>2, <1>4, <1>7, PurgeFrame DEF SameCallbacks, PurgeInv
<1>9. NotYet(In)' <=> NotYet(In)
  BY <1>2, NotYetSame DEF SameCallbacks
<1>10. ConnectFailed => ConnectFailed'
  BY <1>1, <1>2, <1>4, FailedFrame DEF SameCallbacks
<1>11. Uncalled(CliClosedCb)' <=> Uncalled(CliClosedCb)
  BY <1>2, <1>4 DEF SameCallbacks
<1>12. CASE NextEvent(w) \/ Check(w, FALSE)
  <2>1. /\ UNCHANGED <<heap, misused>>
        /\ \A c : Returned(c)' => Returned(c)
    BY Zenon, <1>0, <1>12, HandleKeeps, EndKeeps
  <2>2. ClientInv'
    BY Zenon, <1>0, <1>1, <1>4, <1>7, <1>9, <1>10, <1>11, <2>1, ClientFrame
  <2>. QED
    BY <1>3, <1>6, <1>8, <2>2
<1>13. CASE EpollWait(w, Ready)
  <2>1. /\ UNCHANGED <<heap, misused>>
        /\ \A c : Returned(c)' => \E s \in Ready : entry[s] = c
    BY Zenon, <1>0, <1>13, WaitKeeps
  <2>2. ASSUME NEW c \in {PurgeCb, CliClosedCb}, Returned(c)', peer[In] = "open"
        PROVE  c = CliClosedCb /\ ConnectFailed /\ heap[c] = "live"
    <3>1. PICK s \in Ready : entry[s] = c
      BY <2>1, <2>2
    <3>2. s \in Sockets /\ s = In
      BY <1>0, <1>4, <3>1, CallbackFacts DEF Ready, ReactorInv
    <3>3. In \in shut
      <4>1. entry[In] \in {PurgeCb, CliClosedCb} /\ In \in Ready
        BY <2>2, <3>1, <3>2
      <4>2. Ended(In)
        BY <4>1, CallbackFacts DEF Ready
      <4>. QED
        BY <2>2, <4>2 DEF Ended
    <3>4. c = CliClosedCb
      BY <1>0, <2>2, <3>1, <3>2, <3>3 DEF PurgeInv, ClientInv, BeforeConnect
    <3>. QED
      BY <1>0, <1>4, <3>1, <3>2, <3>3, <3>4 DEF ClientInv, ReactorInv
  <2>3. CliClosedCb # PurgeCb
    BY Zenon, CallbackFacts
  <2>4. ClientInv'
    BY Zenon, <1>0, <1>1, <1>4, <1>5, <1>7, <1>9, <1>10, <1>11, <2>1, <2>2, <2>3 DEF ClientInv
  <2>. QED
    BY <1>3, <1>6, <1>8, <2>4
<1>14. CASE Ran(w)
  <2>1. PICK c \in Callbacks :
          /\ Use(c) /\ Returned(c) /\ (Kept(c) => heap[c] = "live")
          /\ heap[c] # "unused" /\ heap' = [heap EXCEPT ![c] = "deleted"]
          /\ \A d : Returned(d)' => Returned(d) /\ d # c
    BY <1>0, <1>14, RanKeeps
  <2>2. peer[In] = "open" => misused' = misused
    BY Zenon, <1>0, <2>1, UseIsSafe
  <2>3. heap'[CliClosedCb] = "unused" <=> heap[CliClosedCb] = "unused"
    BY <1>2, <1>4 DEF SameCallbacks
  <2>4. CliClosedCb # c => heap'[CliClosedCb] = heap[CliClosedCb]
    BY <1>0, <1>4, <2>1 DEF ReactorTypes
  <2>5. sched = "assign" => ~ConnectFailed
    BY Zenon DEF ConnectFailed, BeforeConnect
  <2>6. ClientInv'
    BY Zenon, <1>0, <1>1, <1>4, <1>5, <1>7, <1>9, <1>10, <1>11, <2>1, <2>2, <2>3, <2>4, <2>5
    DEF ClientInv
  <2>. QED
    BY <1>3, <1>6, <1>8, <2>6
<1>. QED
  BY Zenon, <1>1, <1>12, <1>13, <1>14

\* A callback is called: it submits its closure and clears the pointer to itself.
LEMMA RunKeeps ==
  ASSUME OneWorker, ProxyInv, NEW w \in Workers, RunCallback(w)
  PROVE  ReactorTypes' /\ ReactorInv' /\ ConnectInv' /\ PipeInv' /\ PurgeInv' /\ ClientInv'
<1>0. /\ ReactorTypes /\ ReactorInv /\ JobTypes /\ ConnectInv /\ PipeInv /\ PurgeInv /\ ClientInv
  BY Zenon DEF ProxyInv
<1>1. PICK c \in Callbacks :
        /\ Calls(w, c)
        /\ tasks' = tasks \cup {Task(c, Soc(c) \in error)}
        /\ first_cb' = IF c = PurgeCb THEN NoCb ELSE first_cb
        /\ second_cb' = IF c = CliClosedCb THEN NoCb ELSE second_cb
        /\ UNCHANGED <<entry, heap, job, sched, shut, peer>>
  BY DEF RunCallback
<1>2. PICK t \in Tasks : /\ t = Task(c, Soc(c) \in error)
                         /\ t.cb = c /\ t.at = "start" /\ t.err = (Soc(c) \in error)
  BY CalledTask
<1>3. tasks' = tasks \cup {t} /\ tasks \subseteq Tasks
  BY <1>0, <1>1, <1>2 DEF JobTypes
<1>4. /\ PurgeCb \in Callbacks /\ CliClosedCb \in Callbacks /\ ConnectCb \in Callbacks
      /\ PurgeCb # CliClosedCb /\ NoCb \notin Callbacks /\ Kept(ConnectCb)
  BY CallbackFacts DEF Kept
<1>5. /\ ReactorTypes' /\ ReactorInv' /\ heap[c] # "unused" /\ Returned(c)
      /\ Kept(c) => heap[c] = "live"
      /\ \A d : Returned(d)' <=> Returned(d)
  BY <1>0, <1>1, CallKeeps
<1>6. Gone(c) /\ (heap[c] = "live" <=> Uncalled(c))
  BY Zenon, <1>0, <1>1, CallEffect
<1>7. ConnectInv' /\ PipeInv'
  BY Zenon, <1>0, <1>1, <1>2, <1>3, <1>5, <1>6, ClosuresCall
<1>8. PurgeInv'
  BY <1>0, <1>1, <1>2, <1>3, <1>4, <1>6 DEF PurgeInv, Gone, JobTypes
<1>9. peer[In] = "open" => misused' = misused
  BY <1>0, <1>1, <1>5, UseIsSafe DEF Calls
<1>10. NotYet(In)' <=> NotYet(In)
  BY <1>6, NotYetSame DEF Gone
<1>11. BeforeConnect' <=> BeforeConnect
  BY <1>1 DEF BeforeConnect
<1>12. ASSUME ConnectFailed PROVE ConnectFailed'
  <2>1. c # ConnectCb
    BY <1>4, <1>5, <1>6, <1>12 DEF ConnectFailed
  <2>2. Uncalled(ConnectCb)' => Uncalled(ConnectCb)
    BY <1>4, <1>6 DEF Gone
  <2>. QED
    BY Zenon, <1>1, <1>2, <1>3, <1>12, <2>1, <2>2, FailedFrame
<1>13. second_cb' = CliClosedCb => c # CliClosedCb /\ second_cb = CliClosedCb
  BY <1>1, <1>4
<1>14. c # CliClosedCb => (Uncalled(CliClosedCb)' <=> Uncalled(CliClosedCb))
  BY Zenon, <1>4, <1>6 DEF Gone
<1>15. ClientInv'
  BY Zenon, <1>0, <1>1, <1>5, <1>9, <1>10, <1>11, <1>12, <1>13, <1>14 DEF ClientInv
<1>. QED
  BY <1>5, <1>7, <1>8, <1>15

\* The client's socket is registered for the purge callback.
LEMMA ReceiveKeeps ==
  ASSUME ProxyInv, NEW w \in Workers, ReceivedConnection(w)
  PROVE  ReactorTypes' /\ ReactorInv' /\ ConnectInv' /\ PipeInv' /\ PurgeInv' /\ ClientInv'
<1>0. /\ ReactorTypes /\ ReactorInv /\ JobTypes /\ ConnectInv /\ PipeInv /\ PurgeInv /\ ClientInv
  BY Zenon DEF ProxyInv
<1>1. /\ job = "none" /\ job' = "queued" /\ first_cb' = PurgeCb /\ MonitorFor(In, PurgeCb)
      /\ UNCHANGED <<_events, loop, misused, sched, tasks, second_cb, shut, peer>>
  BY DEF ReceivedConnection, net
<1>2. /\ In \in Sockets /\ Soc(PurgeCb) = In /\ PurgeCb # NoCb /\ PurgeCb # CliClosedCb
      /\ PurgeCb \in Callbacks /\ CliClosedCb \in Callbacks /\ ConnectCb \in Callbacks
      /\ PurgeCb # ConnectCb /\ Kind(PurgeCb) # "monitor"
  BY CallbackFacts
<1>3. ReactorTypes' /\ ReactorInv'
  BY <1>0, <1>1, <1>2, RegisterKeeps
<1>4. Registered(PurgeCb)
  BY Zenon, <1>0, <1>1, <1>2, RegisterEffect
<1>5. NotYet(In)' <=> NotYet(In)
  BY <1>2, <1>4 DEF NotYet, Registered
<1>6. ConnectInv' /\ PipeInv'
  BY <1>0, <1>1, <1>2, <1>4, ClosuresRegister DEF JobTypes, BeforeConnect
<1>7. entry'[In] = PurgeCb
  BY <1>0, <1>1, <1>2 DEF MonitorFor, ReactorTypes
<1>8. sched = "dequeue"
  BY Zenon, <1>0, <1>1 DEF JobTypes
<1>9. PurgeInv'
  BY Zenon, <1>0, <1>1, <1>2, <1>4, <1>8 DEF PurgeInv, Registered
<1>10. ConnectFailed => ConnectFailed'
  BY <1>1, <1>2, <1>4, FailedFrame DEF Registered
<1>11. /\ heap'[CliClosedCb] = heap[CliClosedCb]
       /\ Uncalled(CliClosedCb)' <=> Uncalled(CliClosedCb)
  BY <1>0, <1>1, <1>2, <1>4 DEF MonitorFor, ReactorTypes, Registered
<1>12. \A c : Returned(c)' <=> Returned(c)
  BY Zenon, <1>1, RoundFrame
<1>13. ClientInv'
  BY Zenon, <1>0, <1>1, <1>2, <1>5, <1>7, <1>10, <1>11, <1>12, ClientFrame
<1>. QED
  BY <1>3, <1>6, <1>9, <1>13

\* StartScheduling registers the client's socket anew, in the place of the purge
\* callback.
LEMMA MonitorClientKeeps ==
  ASSUME ProxyInv, MonitorClient
  PROVE  ReactorTypes' /\ ReactorInv' /\ ConnectInv' /\ PipeInv' /\ PurgeInv' /\ ClientInv'
<1>0. /\ ReactorTypes /\ ReactorInv /\ JobTypes /\ ConnectInv /\ PipeInv /\ PurgeInv /\ ClientInv
  BY Zenon DEF ProxyInv
<1>1. /\ sched = "monitor" /\ sched' = "assign" /\ MonitorFor(In, CliClosedCb)
      /\ UNCHANGED <<_events, loop, misused, job, tasks, first_cb, second_cb, shut, peer>>
  BY DEF MonitorClient, pipe, net
<1>2. /\ In \in Sockets /\ Soc(CliClosedCb) = In /\ PurgeCb # CliClosedCb
      /\ PurgeCb \in Callbacks /\ CliClosedCb \in Callbacks /\ ConnectCb \in Callbacks
      /\ CliClosedCb # ConnectCb /\ Kind(CliClosedCb) # "monitor"
  BY CallbackFacts
<1>3. ReactorTypes' /\ ReactorInv' /\ ~Returned(CliClosedCb)
  BY <1>0, <1>1, <1>2, RegisterKeeps
<1>4. Registered(CliClosedCb)
  BY <1>0, <1>1, <1>2, RegisterEffect
<1>5. BeforeConnect /\ BeforeConnect'
  BY <1>1 DEF BeforeConnect
<1>6. ConnectInv' /\ PipeInv'
  BY <1>0, <1>1, <1>2, <1>4, <1>5, ClosuresRegister DEF JobTypes
<1>7. entry'[In] = CliClosedCb /\ heap'[CliClosedCb] = "live"
  BY Zenon, <1>0, <1>1, <1>2 DEF MonitorFor, ReactorTypes
<1>8. PurgeInv'
  BY Zenon, <1>0, <1>1, <1>2, <1>4, <1>7, PurgeFrame DEF Registered
<1>9. NotYet(In)'
  BY <1>5, <1>6 DEF ConnectInv
<1>10. \A c : Returned(c)' <=> Returned(c)
  BY <1>1, RoundFrame
<1>11. In \notin shut
  BY <1>0, <1>5 DEF ClientInv
<1>12. Uncalled(CliClosedCb)'
  BY Zenon, <1>2, <1>4 DEF Registered
<1>13. ClientInv'
  BY <1>0, <1>1, <1>3, <1>7, <1>9, <1>10, <1>11, <1>12 DEF ClientInv
<1>. QED
  BY <1>3, <1>6, <1>8, <1>13

===============================================================================

-------------------------------- MODULE Epoll --------------------------------
(***************************************************************************)
(* The reactor of LinuxCommunicationHandler: sockets are registered with   *)
(* epoll, each with a heap allocated callback; the workers wait for ready  *)
(* sockets, call their callbacks, and a callback deletes itself after it   *)
(* ran.  The modules that extend this one say when a socket is ready and   *)
(* what a callback does.                                                   *)
(*                                                                         *)
(* Every registration is one-shot: epoll_wait disarms what it returns.     *)
(* The workers share one buffer of returned events, _events.               *)
(*                                                                         *)
(* Some definitions are preceded by a variant with a slip in it, which     *)
(* nothing uses: the properties are checked to fail with the variant.      *)
(***************************************************************************)
EXTENDS Naturals, FiniteSets, Functions

CONSTANTS
  Workers,    \* the threads that run MonitorAllSockets
  Sockets,
  Callbacks,  \* the callbacks that are ever allocated (a bound); no address is reused
  MaxEvents,  \* kMaxEvents
  NoCb        \* nullptr

ASSUME EpollConstants == MaxEvents \in Nat \ {0} /\ NoCb \notin Callbacks

\* There are finitely many sockets: the members of any set of them can be counted.
ASSUME SocketsAreCounted == \A S \in SUBSET Sockets : Cardinality(S) \in Nat

VARIABLES
  entry,    \* the callback a socket is armed with in the epoll set
  heap,     \* what became of each callback
  _events,  \* what epoll_wait returned last
  loop,     \* [Workers -> its place in MonitorAllSockets: pc, how many events (n),
            \* which is next (i), the callback in hand (cb)]
  misused   \* the callbacks called or deleted after they were deleted

epoll == <<entry, heap, _events, loop, misused>>

EpollInit ==
  /\ entry = [s \in Sockets |-> NoCb]
  /\ heap = [c \in Callbacks |-> "unused"]
  /\ _events = [k \in 1..MaxEvents |-> NoCb]
  /\ loop = [w \in Workers |-> [pc |-> "wait", n |-> 0, i |-> 1, cb |-> NoCb]]
  /\ misused = {}

At(w, pc) == loop[w].pc = pc
Go(w, pc) == loop' = [loop EXCEPT ![w].pc = pc]

\* A callback is used (called or deleted), which is only right while it lives.
Use(c) == misused' = IF heap[c] = "live" THEN misused ELSE misused \cup {c}

\* `delete': nothing happens to nullptr.
Delete(c) ==
  IF c = NoCb THEN UNCHANGED <<heap, misused>>
  ELSE Use(c) /\ heap' = [heap EXCEPT ![c] = "deleted"]

\* MonitorFor and AddServerSocket: allocate a callback and arm the socket with it,
\* in the place of the one it was armed with.
MonitorFor(s, c) ==
  /\ heap[c] = "unused"
  /\ heap' = [heap EXCEPT ![c] = "live"]
  /\ entry' = [entry EXCEPT ![s] = c]

-------------------------------------------------------------------------------
(* One round of MonitorAllSockets.                                          *)

\* The registrations epoll_wait returned are disarmed, each being one-shot.
DisarmNothing(S) == entry' = entry
Disarm(S) == entry' = [s \in Sockets |-> IF s \in S THEN NoCb ELSE entry[s]]

\* epoll_wait returns ready sockets, as many as there are and the buffer holds; it
\* returns none at a timeout.
EpollWait(w, ready) ==
  LET armed == {s \in ready : entry[s] # NoCb}
      most == IF Cardinality(armed) < MaxEvents THEN Cardinality(armed) ELSE MaxEvents
  IN  /\ At(w, "wait")
      /\ \E S \in {T \in SUBSET armed : Cardinality(T) = most} :
           /\ Disarm(S)
           /\ \E order \in Bijection(1..most, S) :
                _events' = [k \in 1..MaxEvents |->
                              IF k <= most THEN entry[order[k]] ELSE _events[k]]
      /\ loop' = [loop EXCEPT ![w].pc = "handle", ![w].n = most, ![w].i = 1]
      /\ UNCHANGED <<heap, misused>>

\* The loop over the returned events reads the callback of the next one.
MoreEventsButOne(w) == loop[w].i < loop[w].n
MoreEvents(w) == loop[w].i <= loop[w].n

NextEvent(w) ==
  /\ At(w, "handle")
  /\ IF MoreEvents(w)
     THEN loop' = [loop EXCEPT ![w].pc = "call", ![w].cb = _events[loop[w].i]]
     ELSE Go(w, "check")
  /\ UNCHANGED <<entry, heap, _events, misused>>

\* The callback is called; the module that knows what it does adds that.
Calls(w, c) ==
  /\ At(w, "call") /\ loop[w].cb = c
  /\ Use(c)
  /\ Go(w, "delete")
  /\ UNCHANGED _events

\* Callback::Run ends with `delete this', and the loop goes on.
Ran(w) ==
  /\ At(w, "delete")
  /\ Delete(loop[w].cb)
  /\ loop' = [loop EXCEPT ![w].pc = "handle", ![w].i = @ + 1, ![w].cb = NoCb]
  /\ UNCHANGED <<entry, _events>>

\* The end of the round: the loop ends in the destructor, unless the buffer was
\* full and more may be waiting.
StopsIfFull(w, destructing) == destructing /\ loop[w].n = MaxEvents
StopsAnyway(w, destructing) == loop[w].n # MaxEvents
Stops(w, destructing) == destructing /\ loop[w].n # MaxEvents
Check(w, destructing) ==
  /\ At(w, "check")
  /\ loop' = [loop EXCEPT ![w].pc = IF Stops(w, destructing) THEN "exited" ELSE "wait",
                          ![w].n = 0, ![w].i = 1]
  /\ UNCHANGED <<entry, heap, _events, misused>>

===============================================================================

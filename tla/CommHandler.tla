----------------------------- MODULE CommHandler -----------------------------
(***************************************************************************)
(* LinuxCommunicationHandler on its own: threads monitor client sockets,   *)
(* a server socket accepts connections, the workers run MonitorAllSockets, *)
(* and the destructor shuts the server down and joins the workers.         *)
(*                                                                         *)
(* A callback is named by the socket it was registered for and a number.   *)
(* Some definitions are preceded by a variant with a slip in it, which     *)
(* nothing uses: the properties are checked to fail with the variant.      *)
(***************************************************************************)
EXTENDS Epoll

CONSTANTS
  Server,    \* the listening socket
  MaxConns,  \* how many clients connect to it (a bound)
  MaxKept    \* how many of them there are descriptors for

ASSUME CommConstants ==
  /\ Server \in Sockets /\ MaxConns \in Nat /\ MaxKept \in Nat
  /\ Callbacks \subseteq Sockets \X Nat

Clients == Sockets \ {Server}

VARIABLES
  monitored,    \* the client sockets whose callback was not called yet
  ready,        \* the client sockets something has happened on
  pending,      \* the connections waiting at the server socket
  connects,     \* how many clients connected so far
  kept,         \* how many accepted connections were not closed yet
  up,           \* the server socket is listening
  epollin,      \* the server callbacks epoll_wait returned with EPOLLIN
  accepting,    \* the workers inside the accept loop of ServeSocketReady
  destructing,  \* _destructing
  dtor          \* how far the destructor is

users == <<monitored, ready, pending, connects, kept>>
serving == <<epollin, accepting>>
destructor == <<up, destructing, dtor>>
vars == <<epoll, users, serving, destructor>>

Init ==
  /\ EpollInit
  /\ monitored = {} /\ ready = {} /\ pending = 0 /\ connects = 0 /\ kept = 0
  /\ up = FALSE /\ epollin = {} /\ accepting = {} /\ destructing = FALSE /\ dtor = "no"

-------------------------------------------------------------------------------
(* The users of the handler, which do not call it any more once it is being *)
(* destroyed, and their peers.                                               *)

\* Serve: listen, and register the server socket.
Serve ==
  /\ ~up /\ dtor = "no"
  /\ up' = TRUE
  /\ \E c \in Callbacks : c[1] = Server /\ MonitorFor(Server, c)
  /\ UNCHANGED <<_events, loop, misused, users, serving, destructing, dtor>>

\* MonitorNew or Monitor, of a socket that has no callback outstanding.
Monitor(s) ==
  /\ dtor = "no" /\ s \notin monitored
  /\ \E c \in Callbacks : c[1] = s /\ MonitorFor(s, c)
  /\ monitored' = monitored \cup {s}
  /\ UNCHANGED <<_events, loop, misused, ready, pending, connects, kept, serving, destructor>>

\* Bytes, an error or the end of the connection arrive.
Arrives(s) ==
  /\ s \notin ready
  /\ ready' = ready \cup {s}
  /\ UNCHANGED <<epoll, monitored, pending, connects, kept, serving, destructor>>

\* A client connects to the server socket.
ClientConnects ==
  /\ up /\ connects < MaxConns
  /\ connects' = connects + 1
  /\ pending' = pending + 1
  /\ UNCHANGED <<epoll, monitored, ready, kept, serving, destructor>>

\* An accepted connection ends, and its descriptor is closed.
ConnectionEnds ==
  /\ kept > 0
  /\ kept' = kept - 1
  /\ UNCHANGED <<epoll, monitored, ready, pending, connects, serving, destructor>>

User == Serve \/ (\E s \in Clients : Monitor(s) \/ Arrives(s)) \/ ClientConnects \/ ConnectionEnds

-------------------------------------------------------------------------------
(* The workers.                                                              *)

\* What epoll would report: the server socket is ready for a connection, or
\* because it was shut down.
Ready == ready \cup (IF pending > 0 \/ dtor # "no" THEN {Server} ELSE {})

Wait(w) ==
  /\ EpollWait(w, Ready)
  /\ epollin' = IF entry'[Server] # entry[Server] /\ pending > 0
                THEN epollin \cup {entry[Server]} ELSE epollin
  /\ UNCHANGED <<users, accepting, destructor>>

Handle(w) == NextEvent(w) /\ UNCHANGED <<users, serving, destructor>>

\* MonitorSocketReady: the callback of a client socket takes what there is.
MonitorSocketReady(w) ==
  \E c \in Callbacks :
    /\ c[1] \in Clients /\ Calls(w, c)
    /\ monitored' = monitored \ {c[1]}
    /\ ready' = ready \ {c[1]}
    /\ UNCHANGED <<entry, heap, pending, connects, kept, serving, destructor>>

\* ServeSocketReady: without EPOLLIN the server is closing; otherwise register the
\* socket again and accept what is pending.
ServesOnce(c) == UNCHANGED <<entry, heap>>
ServesAgain(c) ==
  IF c \in epollin THEN \E d \in Callbacks : d[1] = Server /\ MonitorFor(Server, d)
  ELSE UNCHANGED <<entry, heap>>

ServeSocketReady(w) ==
  \E c \in Callbacks :
    /\ c[1] = Server /\ Calls(w, c)
    /\ ServesAgain(c)
    /\ accepting' = IF c \in epollin THEN accepting \cup {w} ELSE accepting
    /\ UNCHANGED <<epollin, users, destructor>>

\* Whether accept4 finds a connection, or EAGAIN.
HasPending == pending > 0

\* accept4, once round the loop.  It fails with EINVAL on a socket that was shut down,
\* for ever, and with EMFILE as long as there is no descriptor for the connection: the
\* loop goes on, and the worker takes no other step.
Accept(w) ==
  /\ w \in accepting /\ up
  /\ \/ /\ HasPending /\ kept < MaxKept
        /\ pending' = pending - 1 /\ kept' = kept + 1
        /\ UNCHANGED accepting
     \/ /\ ~HasPending
        /\ accepting' = accepting \ {w}
        /\ UNCHANGED <<pending, kept>>
  /\ UNCHANGED <<epoll, monitored, ready, connects, epollin, destructor>>

Finish(w) == w \notin accepting /\ Ran(w) /\ UNCHANGED <<users, serving, destructor>>

EndOfRound(w) == Check(w, destructing) /\ UNCHANGED <<users, serving, destructor>>

Worker(w) ==
  \/ Wait(w) \/ Handle(w) \/ MonitorSocketReady(w) \/ ServeSocketReady(w)
  \/ Accept(w) \/ Finish(w) \/ EndOfRound(w)

-------------------------------------------------------------------------------
(* The destructor.                                                           *)

\* The server socket is shut down, and what was pending at it is gone.
ShutdownServers ==
  /\ dtor = "no"
  /\ dtor' = "sleep" /\ up' = FALSE /\ pending' = 0
  /\ UNCHANGED <<epoll, monitored, ready, connects, kept, serving, destructing>>

SetDestructing ==
  /\ dtor = "sleep"
  /\ dtor' = "join" /\ destructing' = TRUE
  /\ UNCHANGED <<epoll, users, serving, up>>

Joined ==
  /\ dtor = "join" /\ \A w \in Workers : At(w, "exited")
  /\ dtor' = "done"
  /\ UNCHANGED <<epoll, users, serving, up, destructing>>

Destructor == ShutdownServers \/ SetDestructing \/ Joined

Next == User \/ (\E w \in Workers : Worker(w)) \/ Destructor

Spec == Init /\ [][Next]_vars

\* Threads that can go on do; the destructor, once it began, goes on too.
FairSpec ==
  /\ Spec
  /\ \A w \in Workers : WF_vars(Worker(w))
  /\ WF_vars(SetDestructing \/ Joined)

-------------------------------------------------------------------------------
(* Properties.                                                               *)

\* Worker w will still get to callback c in this round.
WillHandle(w, c) ==
  \/ loop[w].pc \in {"call", "delete"} /\ loop[w].cb = c
  \/ \E k \in 1..loop[w].n :
       /\ _events[k] = c
       /\ \/ loop[w].pc = "handle" /\ k >= loop[w].i
          \/ loop[w].pc \in {"call", "delete"} /\ k > loop[w].i

\* MonitorAllSockets (linux_communication_handler.cc, "Handle every returned
\* socket"): a callback that epoll_wait has returned, and that is thus disarmed,
\* is going to be handled by a worker until it is deleted.
ReturnedIsHandled ==
  \A c \in Callbacks :
    heap[c] = "live" /\ (\A s \in Sockets : entry[s] # c) =>
      \E w \in Workers : WillHandle(w, c)

\* Callback::Run: no callback is called, or deletes itself, a second time.
CalledOnce == misused = {}

\* The descriptors are used up for good with a connection left: a worker in the accept
\* loop stays there.
NoneLeft == <>[](kept = MaxKept /\ pending > 0)

\* MonitorFor and MonitorAllSockets: something that happens on a monitored socket
\* gets the socket's callback called, unless the handler is being destroyed or a
\* connection is left for which there never is a descriptor.
SocketIsServed ==
  \/ \A s \in Clients :
       s \in monitored /\ s \in ready ~> s \notin monitored \/ dtor # "no"
  \/ NoneLeft

\* ServeSocketReady ("Must get all pending connections", "Must re-add server socket
\* to epoll"): every connection is accepted while the server is up and descriptors
\* become free.
AllAccepted == (pending > 0 ~> pending = 0) \/ NoneLeft

\* ~LinuxCommunicationHandler and MonitorAllSockets ("Check for destruction and end
\* loop if so"): the destructor's join of the workers returns, unless a worker was in
\* the accept loop when the server socket was shut down.
WorkersJoin == dtor = "join" ~> dtor = "done" \/ accepting # {}

===============================================================================

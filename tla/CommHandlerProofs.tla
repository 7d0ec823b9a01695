-------------------------- MODULE CommHandlerProofs ---------------------------
(***************************************************************************)
(* Proofs about CommHandler with one worker, which is what its default     *)
(* constructor makes, for any sockets, callbacks, connections and size of  *)
(* the event buffer, and about Pipe, the copying between two sockets that  *)
(* runs on it, for any amount of data.                                     *)
(***************************************************************************)
EXTENDS CommHandler, Pipe, TLAPS
OneWorker == \A v, w \in Workers : v = w

\* A worker's place in MonitorAllSockets.
Place ==
  [pc : {"wait", "handle", "call", "delete", "check", "exited"},
   n : 0..MaxEvents, i : Nat \ {0}, cb : Callbacks \cup {NoCb}]

CommType ==
  /\ entry \in [Sockets -> Callbacks \cup {NoCb}]
  /\ heap \in [Callbacks -> {"unused", "live", "deleted"}]
  /\ _events \in [1..MaxEvents -> Callbacks \cup {NoCb}]
  /\ ready \subseteq Sockets
  /\ loop \in [Workers -> Place]

\* The events of this round that w has not deleted the callback of, and those among
\* them that it has not called yet.
InRound(w, k) == loop[w].pc \in {"handle", "call", "delete"} /\ k \in loop[w].i..loop[w].n
ToCall(w, k) == InRound(w, k) /\ (loop[w].pc = "delete" => k # loop[w].i)

NotServing == ~up /\ dtor = "no"

\* Armed callbacks live and belong to their socket, which a user is waiting for.
ArmedInv ==
  /\ \A s \in Sockets : entry[s] # NoCb =>
       heap[entry[s]] = "live" /\ entry[s][1] = s /\ (s # Server => s \in monitored)
  /\ NotServing => entry[Server] = NoCb

\* Returned callbacks live, are disarmed and belong to different sockets, which are
\* not armed again before the callback is called.
RoundInv ==
  \A w \in Workers :
    /\ loop[w].pc \in {"call", "delete"} =>
         loop[w].i <= loop[w].n /\ loop[w].cb = _events[loop[w].i]
    /\ \A k \in Nat : InRound(w, k) =>
         /\ _events[k] \in Callbacks /\ heap[_events[k]] = "live"
         /\ \A s \in Sockets : entry[s] # _events[k]
    /\ \A k, l \in Nat : InRound(w, k) /\ InRound(w, l) /\ k # l =>
         _events[k][1] # _events[l][1]
    /\ \A k \in Nat : ToCall(w, k) =>
         /\ entry[_events[k][1]] = NoCb
         /\ _events[k][1] # Server => _events[k][1] \in monitored
         /\ NotServing => _events[k][1] # Server

\* No callback is lost.
LeftInv ==
  \A c \in Callbacks : heap[c] = "live" /\ (\A s \in Sockets : entry[s] # c) =>
    \E w \in Workers, k \in Nat : InRound(w, k) /\ _events[k] = c

CommInv == CommType /\ ArmedInv /\ RoundInv /\ LeftInv /\ misused = {}

-------------------------------------------------------------------------------
\* What the worker's loop does to its place.
LEMMA PlaceUpdates ==
  ASSUME NEW r \in Place, NEW m \in 0..MaxEvents, NEW c \in Callbacks \cup {NoCb},
         NEW at \in {"wait", "handle", "call", "delete", "check", "exited"}
  PROVE  /\ [r EXCEPT !.pc = at] \in Place
         /\ [r EXCEPT !.pc = at, !.n = m, !.i = 1] \in Place
         /\ [r EXCEPT !.pc = at, !.cb = c] \in Place
         /\ [r EXCEPT !.pc = at, !.i = r.i + 1, !.cb = c] \in Place
<1>0. 1 \in Nat \ {0} /\ r.i + 1 \in Nat \ {0}
  BY DEF Place
<1>1. [r EXCEPT !.pc = at] \in Place
  BY Zenon DEF Place
<1>2. [r EXCEPT !.pc = at, !.n = m, !.i = 1] \in Place
  BY Zenon, <1>0 DEF Place
<1>3. [r EXCEPT !.pc = at, !.cb = c] \in Place
  BY Zenon DEF Place
<1>4. [r EXCEPT !.pc = at, !.i = r.i + 1, !.cb = c] \in Place
  BY Zenon, <1>0 DEF Place
<1>. QED
  BY <1>1, <1>2, <1>3, <1>4

\* Events in the round have a place in the buffer.
LEMMA RoundBounds ==
  ASSUME CommType, NEW w \in Workers, NEW k \in Nat, InRound(w, k)
  PROVE  k \in 1..MaxEvents
BY EpollConstants DEF CommType, Place, InRound

\* Steps that leave the reactor alone.
LEMMA ReactorFrame ==
  ASSUME CommInv, UNCHANGED <<epoll, monitored>>, ready' \subseteq Sockets,
         NotServing' => NotServing
  PROVE  CommInv'
<1>1. UNCHANGED <<entry, heap, _events, loop, misused>>
  BY DEF epoll
<1>2. CommType' /\ LeftInv' /\ misused' = {}
  BY <1>1 DEF CommInv, CommType, LeftInv, InRound
<1>3. ArmedInv'
  BY Zenon, <1>1 DEF CommInv, ArmedInv
<1>4. RoundInv'
  BY <1>1 DEF CommInv, RoundInv, InRound, ToCall
<1>. QED
  BY <1>2, <1>3, <1>4 DEF CommInv

\* A socket that nobody waits for is registered.
LEMMA RegisterKeeps ==
  ASSUME CommInv, NEW s \in Sockets, NEW c \in Callbacks, c[1] = s, MonitorFor(s, c),
         UNCHANGED <<_events, loop, misused>>,
         UNCHANGED ready,
         s # Server => s \notin monitored /\ monitored' = monitored \cup {s},
         s = Server => NotServing /\ ~NotServing' /\ monitored' = monitored,
         NotServing' => NotServing
  PROVE  CommInv'
<1>0. /\ heap[c] = "unused" /\ heap' = [heap EXCEPT ![c] = "live"]
      /\ entry' = [entry EXCEPT ![s] = c] /\ entry[s] = NoCb
  BY DEF MonitorFor, CommInv, ArmedInv
<1>1. CommType'
  BY <1>0 DEF CommInv, CommType
<1>2. ArmedInv'
  BY <1>0, EpollConstants DEF CommInv, CommType, ArmedInv
<1>3. RoundInv'
  <2>. SUFFICES ASSUME NEW w \in Workers
       PROVE /\ loop[w].pc \in {"call", "delete"} =>
                  loop[w].i <= loop[w].n /\ loop[w].cb = _events[loop[w].i]
             /\ \A k \in Nat : InRound(w, k) =>
                  /\ _events[k] \in Callbacks /\ heap'[_events[k]] = "live"
                  /\ \A z \in Sockets : entry'[z] # _events[k]
             /\ \A k, l \in Nat : InRound(w, k) /\ InRound(w, l) /\ k # l =>
                  _events[k][1] # _events[l][1]
             /\ \A k \in Nat : ToCall(w, k) =>
                  /\ entry'[_events[k][1]] = NoCb
                  /\ _events[k][1] # Server => _events[k][1] \in monitored'
                  /\ NotServing' => _events[k][1] # Server
    BY DEF RoundInv, InRound, ToCall
  <2>1. ASSUME NEW k \in Nat, InRound(w, k)
        PROVE  /\ _events[k] \in Callbacks /\ heap'[_events[k]] = "live"
               /\ \A z \in Sockets : entry'[z] # _events[k]
    BY Zenon, <1>0, <2>1 DEF CommInv, CommType, RoundInv
  <2>2. ASSUME NEW k \in Nat, ToCall(w, k)
        PROVE  /\ entry'[_events[k][1]] = NoCb
               /\ _events[k][1] # Server => _events[k][1] \in monitored'
               /\ NotServing' => _events[k][1] # Server
    BY <1>0, <2>2 DEF CommInv, CommType, RoundInv
  <2>. QED
    BY Zenon, <2>1, <2>2 DEF CommInv, RoundInv
<1>4. LeftInv'
  <2>. SUFFICES ASSUME NEW d \in Callbacks, heap'[d] = "live",
                       \A z \in Sockets : entry'[z] # d
                PROVE  \E w \in Workers, k \in Nat : InRound(w, k) /\ _events[k] = d
    BY DEF LeftInv, InRound
  <2>1. d # c /\ heap[d] = "live"
    BY <1>0 DEF CommInv, CommType
  <2>2. \A z \in Sockets : entry[z] # d
    BY <1>0, EpollConstants DEF CommInv, CommType
  <2>. QED
    BY <2>1, <2>2 DEF CommInv, LeftInv
<1>. QED
  BY <1>1, <1>2, <1>3, <1>4 DEF CommInv

-------------------------------------------------------------------------------
\* The events that epoll_wait returned are in the buffer, each once.
LEMMA WaitEffect ==
  ASSUME CommType, NEW w \in Workers, NEW R \in SUBSET Sockets,
         EpollWait(w, R)
  PROVE  \E S \in SUBSET Sockets, m \in 0..MaxEvents : \E order \in [1..m -> S] :
           /\ \A s \in S : entry[s] # NoCb
           /\ \A k, l \in 1..m : k # l => order[k] # order[l]
           /\ \A s \in S : \E k \in 1..m : order[k] = s
           /\ entry' = [s \in Sockets |-> IF s \in S THEN NoCb ELSE entry[s]]
           /\ _events' = [k \in 1..MaxEvents |->
                            IF k <= m THEN entry[order[k]] ELSE _events[k]]
           /\ loop' = [loop EXCEPT ![w].pc = "handle", ![w].n = m, ![w].i = 1]
<1>. DEFINE armed == {s \in R : entry[s] # NoCb}
            most == IF Cardinality(armed) < MaxEvents THEN Cardinality(armed) ELSE MaxEvents
<1>1. PICK S \in {T \in SUBSET armed : Cardinality(T) = most} :
        /\ Disarm(S)
        /\ \E order \in Bijection(1..most, S) :
             _events' = [k \in 1..MaxEvents |->
                           IF k <= most THEN entry[order[k]] ELSE _events[k]]
  BY Zenon DEF EpollWait
<1>2. PICK order \in Bijection(1..most, S) :
        _events' = [k \in 1..MaxEvents |->
                      IF k <= most THEN entry[order[k]] ELSE _events[k]]
  BY Zenon, <1>1
<1>3. S \subseteq armed /\ Cardinality(S) = most
  BY <1>1
<1>4. most \in 0..MaxEvents
  <2>1. Cardinality(armed) \in Nat
    BY Zenon, SocketsAreCounted
  <2>. QED
    BY <2>1, EpollConstants
<1>5. order \in [1..most -> S] /\ \A k, l \in 1..most : k # l => order[k] # order[l]
  <2>1. order \in [1..most -> S] /\ IsInjective(order)
    BY Zenon, <1>2 DEF Bijection, Injection
  <2>2. DOMAIN order = 1..most
    BY Zenon, <2>1
  <2>. QED
    BY Zenon, <2>1, <2>2 DEF IsInjective
<1>6. \A s \in S : \E k \in 1..most : order[k] = s
  BY Zenon, <1>2 DEF Bijection, Surjection
<1>7. loop' = [loop EXCEPT ![w].pc = "handle", ![w].n = most, ![w].i = 1]
  BY Zenon DEF EpollWait
<1>8. S \in SUBSET Sockets /\ \A s \in S : entry[s] # NoCb
  BY <1>3
<1>9. entry' = [s \in Sockets |-> IF s \in S THEN NoCb ELSE entry[s]]
  BY <1>1 DEF Disarm
<1>. HIDE DEF most
<1>. QED
  BY Zenon, <1>2, <1>4, <1>5, <1>6, <1>7, <1>8, <1>9

\* epoll_wait begins a round: nothing is left of the one before.
LEMMA WaitKeeps ==
  ASSUME OneWorker, CommInv, NEW w \in Workers, Wait(w)
  PROVE  CommInv'
<1>0. /\ EpollWait(w, Ready) /\ loop[w].pc = "wait"
      /\ UNCHANGED <<heap, misused, monitored, ready, up, dtor>>
  BY Zenon DEF Wait, EpollWait, At, users, destructor
<1>1. CommType /\ Ready \subseteq Sockets
  BY CommConstants DEF CommInv, CommType, Ready
<1>2. PICK S \in SUBSET Sockets, m \in 0..MaxEvents : \E order \in [1..m -> S] :
        /\ \A s \in S : entry[s] # NoCb
        /\ \A k, l \in 1..m : k # l => order[k] # order[l]
        /\ \A s \in S : \E k \in 1..m : order[k] = s
        /\ entry' = [s \in Sockets |-> IF s \in S THEN NoCb ELSE entry[s]]
        /\ _events' = [k \in 1..MaxEvents |->
                         IF k <= m THEN entry[order[k]] ELSE _events[k]]
        /\ loop' = [loop EXCEPT ![w].pc = "handle", ![w].n = m, ![w].i = 1]
  BY Zenon, <1>0, <1>1, WaitEffect
<1>3. PICK order \in [1..m -> S] :
        /\ \A s \in S : entry[s] # NoCb
        /\ \A k, l \in 1..m : k # l => order[k] # order[l]
        /\ \A s \in S : \E k \in 1..m : order[k] = s
        /\ entry' = [s \in Sockets |-> IF s \in S THEN NoCb ELSE entry[s]]
        /\ _events' = [k \in 1..MaxEvents |->
                         IF k <= m THEN entry[order[k]] ELSE _events[k]]
        /\ loop' = [loop EXCEPT ![w].pc = "handle", ![w].n = m, ![w].i = 1]
  BY Zenon, <1>2
<1>4. \A v \in Workers, k \in Nat : ~InRound(v, k)
  BY <1>0 DEF InRound, OneWorker
<1>5. /\ loop'[w].pc = "handle" /\ loop'[w].n = m /\ loop'[w].i = 1
      /\ \A v \in Workers : v = w
  BY <1>1, <1>3 DEF CommType, Place, OneWorker
<1>6. \A v \in Workers, k \in Nat : InRound(v, k)' <=> k \in 1..m
  BY <1>5 DEF InRound
<1>a. \A k, l \in 1..m : k # l => order[k] # order[l]
  BY <1>3
<1>b. \A z \in Sockets : entry'[z] = IF z \in S THEN NoCb ELSE entry[z]
  BY <1>3
<1>7. \A k \in 1..m : order[k] \in S /\ _events'[k] = entry[order[k]] /\ _events'[k] # NoCb
  BY <1>3, EpollConstants
<1>8. CommType'
  <2>1. entry' \in [Sockets -> Callbacks \cup {NoCb}]
    BY <1>1, <1>3 DEF CommType
  <2>2. _events' \in [1..MaxEvents -> Callbacks \cup {NoCb}]
    <3>1. ASSUME NEW k \in 1..MaxEvents PROVE _events'[k] \in Callbacks \cup {NoCb}
      <4>1. CASE k \in 1..m
        <5>1. order[k] \in Sockets /\ _events'[k] = entry[order[k]]
          BY <1>7, <4>1
        <5>. QED
          BY <1>1, <5>1 DEF CommType
      <4>2. CASE k \notin 1..m
        <5>1. _events'[k] = _events[k]
          BY <1>3, <4>2
        <5>. QED
          BY <1>1, <5>1 DEF CommType
      <4>. QED
        BY <4>1, <4>2
    <3>2. _events' = [k \in 1..MaxEvents |-> _events'[k]]
      BY <1>3
    <3>. QED
      BY <3>1, <3>2
  <2>3. loop' \in [Workers -> Place]
    <3>1. loop \in [Workers -> Place]
      BY Zenon, <1>1 DEF CommType
    <3>2. [loop[w] EXCEPT !.pc = "handle", !.n = m, !.i = 1] \in Place
      BY Zenon, <3>1, PlaceUpdates
    <3>3. loop' = [loop EXCEPT ![w] = [loop[w] EXCEPT !.pc = "handle", !.n = m, !.i = 1]]
      BY Zenon, <1>3, <3>1
    <3>. QED
      BY <3>1, <3>2, <3>3
  <2>. QED
    BY <1>0, <1>1, <2>1, <2>2, <2>3 DEF CommType
<1>c. NotServing' <=> NotServing
  BY Zenon, <1>0 DEF NotServing
<1>9. ArmedInv'
  <2>1. ASSUME NEW z \in Sockets, entry'[z] # NoCb
        PROVE  /\ heap[entry'[z]] = "live" /\ entry'[z][1] = z
               /\ z # Server => z \in monitored
    <3>1. entry'[z] = entry[z]
      BY <1>b, <2>1
    <3>. QED
      BY <2>1, <3>1 DEF CommInv, ArmedInv
  <2>2. NotServing => entry'[Server] = NoCb
    BY Zenon, <1>b, CommConstants DEF CommInv, ArmedInv
  <2>. QED
    BY Zenon, <1>0, <1>c, <2>1, <2>2 DEF ArmedInv
<1>10. \A k \in 1..m :
         /\ _events'[k] \in Callbacks /\ heap[_events'[k]] = "live"
         /\ _events'[k][1] = order[k]
         /\ order[k] # Server => order[k] \in monitored
         /\ NotServing => order[k] # Server
  <2>. SUFFICES ASSUME NEW k \in 1..m
       PROVE  /\ _events'[k] \in Callbacks /\ heap[_events'[k]] = "live"
              /\ _events'[k][1] = order[k]
              /\ order[k] # Server => order[k] \in monitored
              /\ NotServing => order[k] # Server
    OBVIOUS
  <2>1. order[k] \in Sockets /\ _events'[k] = entry[order[k]] /\ entry[order[k]] # NoCb
    BY Zenon, <1>7
  <2>. QED
    BY <1>1, <2>1 DEF CommType, CommInv, ArmedInv
<1>11. RoundInv'
  <2>. SUFFICES ASSUME NEW v \in Workers
       PROVE /\ loop'[v].pc \in {"call", "delete"} =>
                  loop'[v].i <= loop'[v].n /\ loop'[v].cb = _events'[loop'[v].i]
             /\ \A k \in Nat : InRound(v, k)' =>
                  /\ _events'[k] \in Callbacks /\ heap'[_events'[k]] = "live"
                  /\ \A z \in Sockets : entry'[z] # _events'[k]
             /\ \A k, l \in Nat : InRound(v, k)' /\ InRound(v, l)' /\ k # l =>
                  _events'[k][1] # _events'[l][1]
             /\ \A k \in Nat : ToCall(v, k)' =>
                  /\ entry'[_events'[k][1]] = NoCb
                  /\ _events'[k][1] # Server => _events'[k][1] \in monitored'
                  /\ NotServing' => _events'[k][1] # Server
    BY Zenon DEF RoundInv
  <2>1. loop'[v].pc \notin {"call", "delete"}
    BY Zenon, <1>5
  <2>2. ASSUME NEW k \in Nat, InRound(v, k)'
        PROVE  /\ _events'[k] \in Callbacks /\ heap'[_events'[k]] = "live"
               /\ \A z \in Sockets : entry'[z] # _events'[k]
    <3>1. k \in 1..m
      BY <1>6, <2>2
    <3>2. ASSUME NEW z \in Sockets PROVE entry'[z] # _events'[k]
      <4>1. CASE z \in S
        BY <1>7, <1>b, <3>1, <4>1
      <4>2. CASE z \notin S
        <5>1. entry'[z] = entry[z] /\ order[k] # z
          BY <1>7, <1>b, <3>1, <4>2
        <5>2. _events'[k][1] = order[k] /\ _events'[k] # NoCb
          BY <1>7, <1>10, <3>1
        <5>. QED
          BY <5>1, <5>2 DEF CommInv, ArmedInv
      <4>. QED
        BY <4>1, <4>2
    <3>. QED
      BY <1>0, <1>10, <3>1, <3>2
  <2>3. ASSUME NEW k \in Nat, NEW l \in Nat, InRound(v, k)', InRound(v, l)', k # l
        PROVE  _events'[k][1] # _events'[l][1]
    <3>1. k \in 1..m /\ l \in 1..m
      BY <1>6, <2>3
    <3>2. _events'[k][1] = order[k] /\ _events'[l][1] = order[l]
      BY Zenon, <1>10, <3>1
    <3>. QED
      BY Zenon, <1>a, <2>3, <3>1, <3>2
  <2>4. ASSUME NEW k \in Nat, ToCall(v, k)'
        PROVE  /\ entry'[_events'[k][1]] = NoCb
               /\ _events'[k][1] # Server => _events'[k][1] \in monitored'
               /\ NotServing' => _events'[k][1] # Server
    <3>1. k \in 1..m
      BY <1>6, <2>4 DEF ToCall
    <3>2. order[k] \in S /\ _events'[k][1] = order[k] /\ entry'[order[k]] = NoCb
      BY <1>7, <1>10, <1>b, <3>1
    <3>. QED
      BY Zenon, <1>0, <1>10, <1>c, <3>1, <3>2
  <2>. QED
    BY <2>1, <2>2, <2>3, <2>4
<1>12. LeftInv'
  <2>. SUFFICES ASSUME NEW c \in Callbacks, heap[c] = "live", \A z \in Sockets : entry'[z] # c
                PROVE  \E v \in Workers, k \in Nat : InRound(v, k)' /\ _events'[k] = c
    BY <1>0 DEF LeftInv
  <2>1. PICK z \in Sockets : entry[z] = c
    BY <1>4 DEF CommInv, LeftInv
  <2>2. z \in S
    BY <1>b, <2>1
  <2>3. PICK k \in 1..m : order[k] = z
    BY <1>3, <2>2
  <2>4. k \in Nat
    BY <2>3
  <2>. QED
    BY Zenon, <1>6, <1>7, <2>1, <2>3, <2>4
<1>. QED
  BY <1>0, <1>8, <1>9, <1>11, <1>12 DEF CommInv

\* The loop turns to the next event or to the end of the round: nothing changes in
\* what is left to do.
LEMMA HandleKeeps ==
  ASSUME OneWorker, CommInv, NEW w \in Workers, Handle(w)
  PROVE  CommInv'
<1>0. /\ loop[w].pc = "handle"
      /\ UNCHANGED <<entry, heap, _events, misused, monitored, ready, up, dtor>>
      /\ IF MoreEvents(w)
         THEN loop' = [loop EXCEPT ![w].pc = "call", ![w].cb = _events[loop[w].i]]
         ELSE loop' = [loop EXCEPT ![w].pc = "check"]
  BY Zenon DEF Handle, NextEvent, At, Go, users, destructor
<1>1. loop \in [Workers -> Place] /\ CommType
  BY Zenon DEF CommInv, CommType
<1>2. /\ loop[w].i \in Nat \ {0} /\ loop[w].n \in 0..MaxEvents
      /\ \A v \in Workers : v = w
  BY <1>1 DEF Place, OneWorker
<1>3. NotServing' <=> NotServing
  BY Zenon, <1>0 DEF NotServing
<1>4. CASE loop[w].i <= loop[w].n
  <2>1. InRound(w, loop[w].i) /\ loop[w].i \in 1..MaxEvents
    BY <1>0, <1>2, <1>4, EpollConstants DEF InRound
  <2>2. _events[loop[w].i] \in Callbacks
    BY <1>2, <2>1 DEF CommInv, RoundInv
  <2>3. loop' = [loop EXCEPT ![w] = [loop[w] EXCEPT !.pc = "call", !.cb = _events[loop[w].i]]]
    BY Zenon, <1>0, <1>1, <1>4 DEF MoreEvents
  <2>4. [loop[w] EXCEPT !.pc = "call", !.cb = _events[loop[w].i]] \in Place
    BY Zenon, <1>1, <2>2, <1>2, PlaceUpdates
  <2>5. loop' \in [Workers -> Place]
    BY Zenon, <1>1, <2>3, <2>4
  <2>6. /\ loop'[w].pc = "call" /\ loop'[w].cb = _events[loop[w].i]
        /\ loop'[w].n = loop[w].n /\ loop'[w].i = loop[w].i
    BY <1>1, <2>3 DEF Place
  <2>7. CommType'
    BY <1>0, <1>1, <2>5 DEF CommType
  <2>8. \A v \in Workers, k \in Nat :
          (InRound(v, k)' <=> InRound(v, k)) /\ (ToCall(v, k)' <=> ToCall(v, k))
    BY Zenon, <1>0, <1>2, <2>6 DEF InRound, ToCall
  <2>9. RoundInv'
    BY <1>0, <1>2, <1>3, <1>4, <2>6, <2>8 DEF CommInv, RoundInv
  <2>10. ArmedInv' /\ LeftInv'
    BY <1>0, <1>3, <2>8 DEF CommInv, ArmedInv, LeftInv
  <2>. QED
    BY <1>0, <2>7, <2>9, <2>10 DEF CommInv
<1>5. CASE ~(loop[w].i <= loop[w].n)
  <2>1. loop' = [loop EXCEPT ![w] = [loop[w] EXCEPT !.pc = "check"]]
    BY Zenon, <1>0, <1>1, <1>5 DEF MoreEvents
  <2>2. [loop[w] EXCEPT !.pc = "check"] \in Place
    BY Zenon, <1>1, <1>2, PlaceUpdates
  <2>3. loop' \in [Workers -> Place]
    BY Zenon, <1>1, <2>1, <2>2
  <2>4. loop'[w].pc = "check"
    BY Zenon, <1>1, <2>1 DEF Place
  <2>5. CommType'
    BY <1>0, <1>1, <2>3 DEF CommType
  <2>6. \A v \in Workers, k \in Nat : ~InRound(v, k) /\ ~InRound(v, k)' /\ ~ToCall(v, k)'
    BY <1>2, <1>5, <2>4 DEF InRound, ToCall
  <2>7. RoundInv'
    BY <1>2, <2>4, <2>6 DEF RoundInv
  <2>8. ArmedInv' /\ LeftInv'
    BY <1>0, <1>3, <2>6 DEF CommInv, ArmedInv, LeftInv
  <2>. QED
    BY <1>0, <2>5, <2>7, <2>8 DEF CommInv
<1>. QED
  BY <1>4, <1>5

\* A callback is called: it lives, and is the next of the round.
LEMMA CallEffect ==
  ASSUME OneWorker, CommInv, NEW w \in Workers, NEW c \in Callbacks, Calls(w, c)
  PROVE  /\ misused' = {} /\ _events' = _events /\ loop' \in [Workers -> Place]
         /\ \A v \in Workers : v = w
         /\ loop[w].i \in Nat /\ ToCall(w, loop[w].i) /\ _events[loop[w].i] = c
         /\ loop'[w].pc = "delete" /\ loop'[w].cb = c
         /\ loop'[w].i = loop[w].i /\ loop'[w].n = loop[w].n /\ loop[w].i <= loop[w].n
         /\ \A k \in Nat : InRound(w, k)' <=> InRound(w, k)
         /\ \A k \in Nat : ToCall(w, k)' <=> InRound(w, k) /\ k # loop[w].i
<1>0. /\ loop[w].pc = "call" /\ loop[w].cb = c /\ Use(c) /\ _events' = _events
      /\ loop' = [loop EXCEPT ![w].pc = "delete"]
  BY Zenon DEF Calls, At, Go
<1>1. loop \in [Workers -> Place]
  BY Zenon DEF CommInv, CommType
<1>2. /\ loop[w].i \in Nat \ {0} /\ loop[w].n \in 0..MaxEvents
      /\ \A v \in Workers : v = w
  BY <1>1 DEF Place, OneWorker
<1>3. loop[w].i <= loop[w].n /\ _events[loop[w].i] = c
  BY <1>0 DEF CommInv, RoundInv
<1>4. InRound(w, loop[w].i) /\ ToCall(w, loop[w].i)
  BY <1>0, <1>2, <1>3 DEF InRound, ToCall
<1>5. misused' = {}
  BY <1>0, <1>2, <1>3, <1>4 DEF CommInv, RoundInv, Use
<1>6. loop' = [loop EXCEPT ![w] = [loop[w] EXCEPT !.pc = "delete"]]
  BY Zenon, <1>0, <1>1
<1>7. [loop[w] EXCEPT !.pc = "delete"] \in Place
  BY Zenon, <1>1, <1>2, PlaceUpdates
<1>8. loop' \in [Workers -> Place]
  BY Zenon, <1>1, <1>6, <1>7
<1>9. /\ loop'[w].pc = "delete" /\ loop'[w].cb = c
      /\ loop'[w].i = loop[w].i /\ loop'[w].n = loop[w].n
  BY <1>0, <1>1, <1>6 DEF Place
<1>10. \A k \in Nat : /\ InRound(w, k)' <=> InRound(w, k)
                      /\ ToCall(w, k)' <=> InRound(w, k) /\ k # loop[w].i
  BY Zenon, <1>0, <1>9 DEF InRound, ToCall
<1>. QED
  BY <1>0, <1>2, <1>3, <1>4, <1>5, <1>8, <1>9, <1>10

\* The callback of a client socket, which may be registered again after it.
LEMMA MonitorSocketReadyKeeps ==
  ASSUME OneWorker, CommInv, NEW w \in Workers, MonitorSocketReady(w)
  PROVE  CommInv'
<1>0. PICK c \in Callbacks :
        /\ c[1] \in Clients /\ Calls(w, c) /\ monitored' = monitored \ {c[1]}
        /\ ready' = ready \ {c[1]} /\ UNCHANGED <<entry, heap, up, dtor>>
  BY Zenon DEF MonitorSocketReady, destructor
<1>1. NotServing' <=> NotServing
  BY Zenon, <1>0 DEF NotServing
<1>2. /\ misused' = {} /\ _events' = _events /\ loop' \in [Workers -> Place]
      /\ \A v \in Workers : v = w
      /\ loop[w].i \in Nat /\ ToCall(w, loop[w].i) /\ _events[loop[w].i] = c
      /\ loop'[w].pc = "delete" /\ loop'[w].cb = c
      /\ loop'[w].i = loop[w].i /\ loop'[w].n = loop[w].n /\ loop[w].i <= loop[w].n
      /\ \A k \in Nat : InRound(w, k)' <=> InRound(w, k)
      /\ \A k \in Nat : ToCall(w, k)' <=> InRound(w, k) /\ k # loop[w].i
  BY Zenon, <1>0, CallEffect
<1>3. entry[c[1]] = NoCb /\ InRound(w, loop[w].i)
  BY Zenon, <1>2 DEF CommInv, RoundInv, ToCall
<1>4. CommType'
  BY Zenon, <1>0, <1>2 DEF CommInv, CommType
<1>5. ArmedInv'
  BY Zenon, <1>0, <1>1, <1>3 DEF CommInv, ArmedInv
<1>6. \A k \in Nat : ToCall(w, k)' =>
        ToCall(w, k) /\ InRound(w, k) /\ _events[k][1] # c[1]
  <2>1. RoundInv
    BY Zenon DEF CommInv
  <2>. QED
    BY <1>2, <1>3, <2>1 DEF RoundInv, ToCall
<1>7. RoundInv'
  <2>1. RoundInv
    BY Zenon DEF CommInv
  <2>. QED
    BY <1>0, <1>1, <1>2, <1>6, <2>1 DEF RoundInv
<1>8. LeftInv'
  <2>1. LeftInv
    BY Zenon DEF CommInv
  <2>. QED
    BY <1>0, <1>2, <2>1 DEF LeftInv
<1>. QED
  BY <1>2, <1>4, <1>5, <1>7, <1>8 DEF CommInv

\* What the callback of the server socket does, but for registering the socket again.
Serves(w) ==
  /\ (NotServing' <=> NotServing) /\ UNCHANGED <<monitored, ready, up, dtor, _events>>
  /\ misused' = {} /\ loop' \in [Workers -> Place] /\ \A v \in Workers : v = w
  /\ entry[Server] = NoCb /\ ~NotServing
  /\ loop'[w].i <= loop'[w].n /\ loop'[w].cb = _events[loop'[w].i]
  /\ \A k \in Nat : InRound(w, k)' <=> InRound(w, k)
  /\ \A k \in Nat : ToCall(w, k)' =>
       ToCall(w, k) /\ InRound(w, k) /\ _events[k][1] # Server

LEMMA ServeEffect ==
  ASSUME OneWorker, CommInv, NEW w \in Workers, ServeSocketReady(w)
  PROVE  Serves(w) /\ \E c \in Callbacks : ServesAgain(c)
<1>0. PICK c \in Callbacks :
        /\ c[1] = Server /\ Calls(w, c) /\ ServesAgain(c)
        /\ UNCHANGED <<monitored, ready, up, dtor>>
  BY Zenon DEF ServeSocketReady, users, destructor
<1>1. NotServing' <=> NotServing
  BY Zenon, <1>0 DEF NotServing
<1>2. /\ misused' = {} /\ _events' = _events /\ loop' \in [Workers -> Place]
      /\ \A v \in Workers : v = w
      /\ loop[w].i \in Nat /\ ToCall(w, loop[w].i) /\ _events[loop[w].i] = c
      /\ loop'[w].pc = "delete" /\ loop'[w].cb = c
      /\ loop'[w].i = loop[w].i /\ loop'[w].n = loop[w].n /\ loop[w].i <= loop[w].n
      /\ \A k \in Nat : InRound(w, k)' <=> InRound(w, k)
      /\ \A k \in Nat : ToCall(w, k)' <=> InRound(w, k) /\ k # loop[w].i
  BY Zenon, <1>0, CallEffect
<1>3. RoundInv
  BY Zenon DEF CommInv
<1>4. entry[Server] = NoCb /\ ~NotServing /\ InRound(w, loop[w].i)
  <2>1. ToCall(w, loop[w].i) => entry[_events[loop[w].i][1]] = NoCb
                              /\ (NotServing => _events[loop[w].i][1] # Server)
    BY Zenon, <1>2, <1>3 DEF RoundInv
  <2>. QED
    BY Zenon, <1>0, <1>2, <2>1 DEF ToCall
<1>5. \A k \in Nat : ToCall(w, k)' =>
        ToCall(w, k) /\ InRound(w, k) /\ _events[k][1] # Server
  BY <1>0, <1>2, <1>3, <1>4 DEF RoundInv, ToCall
<1>. QED
  BY Zenon, <1>0, <1>1, <1>2, <1>4, <1>5 DEF Serves

\* It does not register the socket again when the event is an error.
LEMMA ServesNoMore ==
  ASSUME CommInv, NEW w \in Workers, Serves(w), UNCHANGED <<entry, heap>>
  PROVE  CommInv'
<1>1. CommType' /\ ArmedInv'
  BY Zenon DEF CommInv, CommType, ArmedInv, Serves
<1>2. RoundInv /\ LeftInv
  BY Zenon DEF CommInv
<1>3. RoundInv'
  <2>1. ASSUME NEW k \in Nat, InRound(w, k)'
        PROVE  /\ _events[k] \in Callbacks /\ heap[_events[k]] = "live"
               /\ \A s \in Sockets : entry[s] # _events[k]
    BY Zenon, <1>2, <2>1 DEF RoundInv, Serves
  <2>2. ASSUME NEW k \in Nat, NEW l \in Nat, InRound(w, k)', InRound(w, l)', k # l
        PROVE  _events[k][1] # _events[l][1]
    BY Zenon, <1>2, <2>2 DEF RoundInv, Serves
  <2>3. ASSUME NEW k \in Nat, ToCall(w, k)'
        PROVE  /\ entry[_events[k][1]] = NoCb
               /\ _events[k][1] # Server => _events[k][1] \in monitored
               /\ _events[k][1] # Server
    BY Zenon, <1>2, <2>3 DEF RoundInv, Serves
  <2>. QED
    BY Zenon, <2>1, <2>2, <2>3 DEF RoundInv, Serves
<1>4. LeftInv'
  <2>1. /\ _events' = _events /\ \A v \in Workers : v = w
        /\ \A k \in Nat : InRound(w, k)' <=> InRound(w, k)
    BY Zenon DEF Serves
  <2>. QED
    BY Zenon, <1>2, <2>1 DEF LeftInv
<1>. QED
  BY Zenon, <1>1, <1>3, <1>4 DEF CommInv, Serves

LEMMA ServesOn ==
  ASSUME CommInv, NEW w \in Workers, Serves(w),
         NEW d \in Callbacks, d[1] = Server, MonitorFor(Server, d)
  PROVE  CommInv'
<1>0. /\ heap[d] = "unused" /\ heap' = [heap EXCEPT ![d] = "live"]
      /\ entry' = [entry EXCEPT ![Server] = d] /\ Server \in Sockets
  BY Zenon, CommConstants DEF MonitorFor
<1>1. CommType /\ RoundInv /\ LeftInv /\ ArmedInv
  BY Zenon DEF CommInv
<1>. entry \in [Sockets -> Callbacks \cup {NoCb}] /\ NoCb \notin Callbacks
  BY Zenon, <1>1, EpollConstants DEF CommType
<1>. heap \in [Callbacks -> {"unused", "live", "deleted"}]
  BY Zenon, <1>1 DEF CommType
<1>2. CommType'
  BY Zenon, <1>0, <1>1 DEF CommType, Serves
<1>3. ArmedInv'
  <2>1. ~NotServing' /\ monitored' = monitored
    BY Zenon DEF Serves
  <2>2. ASSUME NEW s \in Sockets, entry'[s] # NoCb
        PROVE  heap'[entry'[s]] = "live" /\ entry'[s][1] = s /\ (s # Server => s \in monitored)
    <3>1. CASE s = Server
      BY Zenon, <1>0, <3>1
    <3>2. CASE s # Server
      <4>1. entry'[s] = entry[s] /\ entry[s] \in Callbacks
        BY Zenon, <1>0, <2>2, <3>2
      <4>2. heap[entry[s]] = "live" /\ entry[s][1] = s /\ s \in monitored
        BY Zenon, <1>1, <2>2, <3>2, <4>1 DEF ArmedInv
      <4>. QED
        BY Zenon, <1>0, <4>1, <4>2
    <3>. QED
      BY Zenon, <3>1, <3>2
  <2>. QED
    BY Zenon, <2>1, <2>2 DEF ArmedInv
<1>4. ASSUME NEW k \in Nat, InRound(w, k)'
      PROVE  /\ _events[k] \in Callbacks /\ heap'[_events[k]] = "live"
             /\ \A z \in Sockets : entry'[z] # _events[k]
  <2>1. InRound(w, k)
    BY Zenon, <1>4 DEF Serves
  <2>. QED
    BY Zenon, <1>0, <1>1, <2>1 DEF RoundInv
<1>5. ASSUME NEW k \in Nat, ToCall(w, k)'
      PROVE  /\ entry'[_events[k][1]] = NoCb
             /\ _events[k][1] # Server /\ _events[k][1] \in monitored
  <2>1. /\ _events[k][1] # Server /\ entry[_events[k][1]] = NoCb
        /\ _events[k][1] \in monitored /\ _events[k] \in Callbacks
    BY Zenon, <1>1, <1>5 DEF RoundInv, Serves
  <2>2. _events[k][1] \in Sockets
    BY <2>1, CommConstants
  <2>. QED
    BY Zenon, <1>0, <2>1, <2>2
<1>6. RoundInv'
  <2>1. ASSUME NEW k \in Nat, NEW l \in Nat, InRound(w, k)', InRound(w, l)', k # l
        PROVE  _events[k][1] # _events[l][1]
    <3>1. InRound(w, k) /\ InRound(w, l)
      BY Zenon, <2>1 DEF Serves
    <3>2. \A m, n \in Nat : InRound(w, m) /\ InRound(w, n) /\ m # n =>
            _events[m][1] # _events[n][1]
      BY Zenon, <1>1 DEF RoundInv
    <3>. QED
      BY Zenon, <2>1, <3>1, <3>2
  <2>2. /\ _events' = _events /\ monitored' = monitored /\ \A v \in Workers : v = w
        /\ loop'[w].i <= loop'[w].n /\ loop'[w].cb = _events[loop'[w].i]
    BY Zenon DEF Serves
  <2>3. \A k \in Nat : InRound(w, k)' =>
          /\ _events'[k] \in Callbacks /\ heap'[_events'[k]] = "live"
          /\ \A s \in Sockets : entry'[s] # _events'[k]
    BY Zenon, <1>4, <2>2
  <2>4. \A k, l \in Nat : InRound(w, k)' /\ InRound(w, l)' /\ k # l =>
          _events'[k][1] # _events'[l][1]
    BY Zenon, <2>1, <2>2
  <2>5. \A k \in Nat : ToCall(w, k)' =>
          /\ entry'[_events'[k][1]] = NoCb
          /\ _events'[k][1] # Server /\ _events'[k][1] \in monitored'
    BY Zenon, <1>5, <2>2
  <2>6. loop'[w].i <= loop'[w].n /\ loop'[w].cb = _events'[loop'[w].i]
    BY Zenon, <2>2
  <2>7. \A v \in Workers : v = w
    BY Zenon, <2>2
  <2>. QED
    BY Zenon, <2>3, <2>4, <2>5, <2>6, <2>7 DEF RoundInv
<1>7. ASSUME NEW b \in Callbacks, heap'[b] = "live", \A z \in Sockets : entry'[z] # b
      PROVE  \E k \in Nat : InRound(w, k) /\ _events[k] = b
  <2>1. b # d /\ heap[b] = "live"
    BY <1>0, <1>7
  <2>2. \A z \in Sockets : entry[z] # b
    BY Zenon, <1>0, <1>7 DEF Serves
  <2>. QED
    BY Zenon, <1>1, <2>1, <2>2 DEF LeftInv, Serves
<1>8. LeftInv'
  BY <1>7 DEF LeftInv, Serves
<1>. QED
  BY Zenon, <1>2, <1>3, <1>6, <1>8 DEF CommInv, Serves

\* The callback of the server socket, which registers the socket again.
LEMMA ServeSocketReadyKeeps ==
  ASSUME OneWorker, CommInv, NEW w \in Workers, ServeSocketReady(w)
  PROVE  CommInv'
  BY Zenon, ServeEffect, ServesNoMore, ServesOn DEF ServesAgain

\* `delete this' at the end of Callback::Run, and on to the next event.
LEMMA FinishKeeps ==
  ASSUME OneWorker, CommInv, NEW w \in Workers, Finish(w)
  PROVE  CommInv'
<1>0. /\ loop[w].pc = "delete" /\ Delete(loop[w].cb)
      /\ loop' = [loop EXCEPT ![w].pc = "handle", ![w].i = loop[w].i + 1, ![w].cb = NoCb]
      /\ UNCHANGED <<entry, _events, monitored, ready, up, dtor>>
  BY Zenon DEF Finish, Ran, At, users, destructor
<1>1. loop \in [Workers -> Place]
  BY Zenon DEF CommInv, CommType
<1>2. /\ loop[w].i \in Nat \ {0} /\ loop[w].n \in 0..MaxEvents
      /\ \A v \in Workers : v = w
  BY <1>1 DEF Place, OneWorker
<1>3. loop[w].i <= loop[w].n /\ loop[w].cb = _events[loop[w].i]
  BY <1>0 DEF CommInv, RoundInv
<1>4. InRound(w, loop[w].i)
  BY <1>0, <1>2, <1>3 DEF InRound
<1>5. PICK c \in Callbacks : /\ c = _events[loop[w].i] /\ heap[c] = "live"
                             /\ \A z \in Sockets : entry[z] # c
  BY Zenon, <1>2, <1>4 DEF CommInv, RoundInv
<1>6. misused' = {} /\ heap' = [heap EXCEPT ![c] = "deleted"]
  BY <1>0, <1>3, <1>5, EpollConstants DEF Delete, Use, CommInv
<1>7. NotServing' <=> NotServing
  BY Zenon, <1>0 DEF NotServing
<1>8. loop' = [loop EXCEPT ![w] =
                 [loop[w] EXCEPT !.pc = "handle", !.i = loop[w].i + 1, !.cb = NoCb]]
  BY Zenon, <1>0, <1>1
<1>9. [loop[w] EXCEPT !.pc = "handle", !.i = loop[w].i + 1, !.cb = NoCb] \in Place
  BY Zenon, <1>1, <1>2, PlaceUpdates
<1>10. loop' \in [Workers -> Place]
  BY Zenon, <1>1, <1>8, <1>9
<1>11. loop'[w].pc = "handle" /\ loop'[w].i = loop[w].i + 1 /\ loop'[w].n = loop[w].n
  BY <1>1, <1>8 DEF Place
<1>12. \A k \in Nat : /\ InRound(w, k)' <=> InRound(w, k) /\ k # loop[w].i
                      /\ ToCall(w, k)' <=> ToCall(w, k)
  BY <1>0, <1>2, <1>11 DEF InRound, ToCall
<1>13. CommType'
  BY <1>0, <1>6, <1>10 DEF CommInv, CommType
<1>14. ArmedInv'
  <2>1. \A z \in Sockets : entry[z] # NoCb => heap'[entry[z]] = "live"
    BY <1>5, <1>6 DEF CommInv, CommType, ArmedInv
  <2>. QED
    BY Zenon, <1>0, <1>7, <2>1 DEF CommInv, ArmedInv
<1>15. RoundInv'
  <2>1. ASSUME NEW k \in Nat, InRound(w, k)'
        PROVE  _events[k] \in Callbacks /\ heap'[_events[k]] = "live"
    <3>1. InRound(w, k) /\ k # loop[w].i
      BY Zenon, <1>12, <2>1
    <3>2. _events[k] \in Callbacks /\ heap[_events[k]] = "live" /\ _events[k][1] # c[1]
      BY <1>2, <1>4, <1>5, <3>1 DEF CommInv, RoundInv
    <3>. QED
      BY <1>6, <3>2 DEF CommInv, CommType
  <2>2. loop'[w].pc \notin {"call", "delete"}
    BY Zenon, <1>11
  <2>3. ASSUME NEW k \in Nat, InRound(w, k)'
        PROVE  /\ \A z \in Sockets : entry[z] # _events[k]
               /\ \A l \in Nat : InRound(w, l)' /\ k # l => _events[k][1] # _events[l][1]
    BY Zenon, <1>12, <2>3 DEF CommInv, RoundInv
  <2>4. ASSUME NEW k \in Nat, ToCall(w, k)'
        PROVE  /\ entry[_events[k][1]] = NoCb
               /\ _events[k][1] # Server => _events[k][1] \in monitored
               /\ NotServing' => _events[k][1] # Server
    BY Zenon, <1>7, <1>12, <2>4 DEF CommInv, RoundInv
  <2>5. entry' = entry /\ _events' = _events /\ monitored' = monitored /\ \A v \in Workers : v = w
    BY Zenon, <1>0, <1>2
  <2>. QED
    BY Zenon, <2>1, <2>2, <2>3, <2>4, <2>5 DEF RoundInv
<1>16. LeftInv'
  <2>. SUFFICES ASSUME NEW d \in Callbacks, heap'[d] = "live",
                       \A z \in Sockets : entry[z] # d
                PROVE  \E k \in Nat : InRound(w, k)' /\ _events[k] = d
    BY <1>0 DEF LeftInv
  <2>1. d # c /\ heap[d] = "live"
    BY Zenon, <1>6 DEF CommInv, CommType
  <2>2. PICK k \in Nat : InRound(w, k) /\ _events[k] = d
    BY <1>2, <2>1 DEF CommInv, LeftInv
  <2>. QED
    BY <1>5, <1>12, <2>1, <2>2
<1>. QED
  BY <1>6, <1>13, <1>14, <1>15, <1>16 DEF CommInv

\* The end of a round, with nothing left to do.
LEMMA EndOfRoundKeeps ==
  ASSUME OneWorker, CommInv, NEW w \in Workers, EndOfRound(w)
  PROVE  CommInv'
<1>0. /\ loop[w].pc = "check"
      /\ \E at \in {"wait", "exited"} :
           loop' = [loop EXCEPT ![w].pc = at, ![w].n = 0, ![w].i = 1]
      /\ UNCHANGED <<entry, heap, _events, misused, monitored, ready, up, dtor>>
  <2>1. (IF Stops(w, destructing) THEN "exited" ELSE "wait") \in {"wait", "exited"}
    BY Zenon
  <2>. QED
    BY Zenon, <2>1 DEF EndOfRound, Check, At, users, destructor
<1>1. loop \in [Workers -> Place]
  BY Zenon DEF CommInv, CommType
<1>2. PICK at \in {"wait", "exited"} :
        loop' = [loop EXCEPT ![w].pc = at, ![w].n = 0, ![w].i = 1]
  BY Zenon, <1>0
<1>3. loop' = [loop EXCEPT ![w] = [loop[w] EXCEPT !.pc = at, !.n = 0, !.i = 1]]
  BY Zenon, <1>1, <1>2
<1>4. [loop[w] EXCEPT !.pc = at, !.n = 0, !.i = 1] \in Place
  <2>1. 0 \in 0..MaxEvents /\ loop[w] \in Place
    BY <1>1, EpollConstants
  <2>. QED
    BY Zenon, <2>1, PlaceUpdates
<1>5. loop' \in [Workers -> Place]
  BY Zenon, <1>1, <1>3, <1>4
<1>6. loop'[w].pc \in {"wait", "exited"}
  BY <1>1, <1>3 DEF Place
<1>7. \A v \in Workers, k \in Nat : ~InRound(v, k) /\ ~InRound(v, k)' /\ ~ToCall(v, k)'
  BY Zenon, <1>0, <1>6 DEF InRound, ToCall, OneWorker
<1>8. NotServing' <=> NotServing
  BY Zenon, <1>0 DEF NotServing
<1>9. CommType' /\ RoundInv'
  <2>1. CommType'
    BY Zenon, <1>0, <1>5 DEF CommInv, CommType
  <2>2. \A v \in Workers : loop'[v].pc \notin {"call", "delete"}
    BY <1>6 DEF OneWorker
  <2>. QED
    BY Zenon, <1>7, <2>1, <2>2 DEF RoundInv
<1>10. ArmedInv' /\ LeftInv'
  BY <1>0, <1>7, <1>8 DEF CommInv, ArmedInv, LeftInv
<1>. QED
  BY <1>0, <1>9, <1>10 DEF CommInv

-------------------------------------------------------------------------------
\* The users of the handler, and its destructor.
LEMMA UserKeeps ==
  ASSUME CommInv, User \/ Destructor \/ UNCHANGED vars
  PROVE  CommInv'
<1>1. CASE Serve
  <2>1. PICK c \in Callbacks : c[1] = Server /\ MonitorFor(Server, c)
    BY Zenon, <1>1 DEF Serve
  <2>2. /\ NotServing /\ ~NotServing'
        /\ UNCHANGED <<_events, loop, misused, monitored, ready>>
    BY Zenon, <1>1 DEF Serve, NotServing, users
  <2>. QED
    BY Zenon, <2>1, <2>2, CommConstants, RegisterKeeps
<1>2. ASSUME NEW s \in Clients, Monitor(s) PROVE CommInv'
  <2>1. PICK c \in Callbacks : c[1] = s /\ MonitorFor(s, c)
    BY Zenon, <1>2 DEF Monitor
  <2>2. /\ NotServing' => NotServing
        /\ UNCHANGED <<_events, loop, misused, ready>>
        /\ s \notin monitored /\ monitored' = monitored \cup {s}
    BY Zenon, <1>2 DEF Monitor, NotServing, destructor
  <2>3. s \in Sockets /\ s # Server
    BY DEF Clients
  <2>. QED
    BY Zenon, <2>1, <2>2, <2>3, RegisterKeeps
<1>3. ASSUME NEW s \in Clients, Arrives(s) PROVE CommInv'
  <2>1. UNCHANGED <<epoll, monitored>> /\ (NotServing' => NotServing)
    BY Zenon, <1>3 DEF Arrives, NotServing, destructor
  <2>2. ready' \subseteq Sockets
    BY <1>3 DEF Arrives, Clients, CommInv, CommType
  <2>. QED
    BY Zenon, <2>1, <2>2, ReactorFrame
<1>4. CASE ClientConnects \/ ConnectionEnds \/ Destructor \/ UNCHANGED vars
  <2>1. UNCHANGED <<epoll, monitored>> /\ ready' = ready
    BY Zenon, <1>4 DEF ClientConnects, ConnectionEnds, Destructor, ShutdownServers, SetDestructing,
      Joined, vars, users
  <2>2. NotServing' => NotServing
    <3>1. CASE ClientConnects \/ ConnectionEnds
      BY Zenon, <3>1 DEF ClientConnects, ConnectionEnds, NotServing, destructor
    <3>2. CASE ShutdownServers
      BY <3>2 DEF ShutdownServers, NotServing
    <3>3. CASE SetDestructing
      BY <3>3 DEF SetDestructing, NotServing
    <3>4. CASE Joined
      BY <3>4 DEF Joined, NotServing
    <3>5. CASE UNCHANGED vars
      BY Zenon, <3>5 DEF vars, NotServing, destructor
    <3>. QED
      BY Zenon, <1>4, <3>1, <3>2, <3>3, <3>4, <3>5 DEF Destructor
  <2>3. ready' \subseteq Sockets
    BY <2>1 DEF CommInv, CommType
  <2>. QED
    BY Zenon, <2>1, <2>2, <2>3, ReactorFrame
<1>. QED
  BY Zenon, <1>1, <1>2, <1>3, <1>4 DEF User

\* The worker.
LEMMA WorkerKeeps ==
  ASSUME OneWorker, CommInv, NEW w \in Workers, Worker(w)
  PROVE  CommInv'
<1>1. CASE Accept(w)
  <2>1. UNCHANGED <<epoll, monitored>> /\ (NotServing' => NotServing) /\ ready' = ready
    BY Zenon, <1>1 DEF Accept, NotServing, destructor
  <2>2. ready' \subseteq Sockets
    BY <2>1 DEF CommInv, CommType
  <2>. QED
    BY Zenon, <2>1, <2>2, ReactorFrame
<1>. QED
  BY Zenon, <1>1, WaitKeeps, HandleKeeps, MonitorSocketReadyKeeps,
    ServeSocketReadyKeeps, FinishKeeps, EndOfRoundKeeps DEF Worker

LEMMA CommInvariance == ASSUME OneWorker PROVE Spec => []CommInv
<1>1. Init => CommInv
  <2>. SUFFICES ASSUME Init PROVE CommInv
    OBVIOUS
  <2>1. /\ entry = [s \in Sockets |-> NoCb] /\ heap = [c \in Callbacks |-> "unused"]
        /\ _events = [k \in 1..MaxEvents |-> NoCb] /\ ready = {} /\ misused = {}
        /\ loop = [w \in Workers |-> [pc |-> "wait", n |-> 0, i |-> 1, cb |-> NoCb]]
    BY Zenon DEF Init, EpollInit
  <2>2. [pc |-> "wait", n |-> 0, i |-> 1, cb |-> NoCb] \in Place
    BY EpollConstants DEF Place
  <2>3. CommType
    BY Zenon, <2>1, <2>2 DEF CommType
  <2>4. \A w \in Workers : loop[w].pc = "wait"
    BY Zenon, <2>1
  <2>5. ArmedInv /\ LeftInv
    BY Zenon, <2>1, CommConstants DEF ArmedInv, LeftInv
  <2>6. RoundInv
    BY <2>4 DEF RoundInv, InRound, ToCall
  <2>. QED
    BY <2>1, <2>3, <2>5, <2>6 DEF CommInv
<1>2. CommInv /\ [Next]_vars => CommInv'
  BY Zenon, UserKeeps, WorkerKeeps DEF Next
<1>. QED
  BY <1>1, <1>2, PTL DEF Spec

\* With one worker no callback is called or deletes itself a second time, although
\* every round reuses the buffer of events and callbacks register sockets anew.
THEOREM CallbacksRunOnce == ASSUME OneWorker PROVE Spec => []CalledOnce
<1>1. CommInv => CalledOnce
  BY Zenon DEF CommInv, CalledOnce
<1>. QED
  BY <1>1, CommInvariance, PTL

\* With one worker every callback that epoll_wait has returned and disarmed is still
\* to be handled in this round: none is lost, however many sockets are ready.
THEOREM NoEventIsLost == ASSUME OneWorker PROVE Spec => []ReturnedIsHandled
<1>1. CommInv => ReturnedIsHandled
  <2>. SUFFICES ASSUME CommInv, NEW c \in Callbacks, heap[c] = "live",
                       \A s \in Sockets : entry[s] # c
                PROVE  \E w \in Workers : WillHandle(w, c)
    BY Zenon DEF ReturnedIsHandled
  <2>1. PICK w \in Workers, k \in Nat : InRound(w, k) /\ _events[k] = c
    BY Zenon DEF CommInv, LeftInv
  <2>2. loop[w].pc \in {"call", "delete"} => loop[w].cb = _events[loop[w].i]
    BY Zenon DEF CommInv, RoundInv
  <2>3. loop[w].i \in Nat \ {0} /\ loop[w].n \in 0..MaxEvents
    BY DEF CommInv, CommType, Place
  <2>. QED
    BY <2>1, <2>2, <2>3, EpollConstants DEF InRound, WillHandle
<1>. QED
  BY <1>1, CommInvariance, PTL

-------------------------------------------------------------------------------
-------------------------------------------------------------------------------
(* Unsigned arithmetic.                                                    *)

\* The remainder is the only number below m that differs from a by a multiple of m.
LEMMA Remainder ==
  ASSUME NEW a \in Int, NEW q \in Int, NEW r \in Int, NEW m \in Nat \ {0},
         a = m * q + r, 0 <= r, r < m
  PROVE  a % m = r
OBVIOUS

\* Adding to a remainder is adding to the number.
LEMMA AddToRemainder ==
  ASSUME NEW a \in Nat, NEW b \in Nat, NEW m \in Nat \ {0}
  PROVE  ((a % m) + b) % m = (a + b) % m
<1> DEFINE c == (a % m) + b
<1>1. a = m * (a \div m) + (a % m) /\ a \div m \in Int /\ a % m \in Int
  OBVIOUS
<1>2. c = m * (c \div m) + (c % m) /\ c \div m \in Int /\ c % m \in 0..(m - 1) /\ c \in Int
  OBVIOUS
<1> HIDE DEF c
<1>3. m * ((a \div m) + (c \div m)) = m * (a \div m) + m * (c \div m)
  BY <1>1, <1>2
<1>4. a + b = m * ((a \div m) + (c \div m)) + (c % m)
  BY <1>1, <1>2, <1>3 DEF c
<1>5. (a + b) % m = c % m
  <2> DEFINE q == (a \div m) + (c \div m)
             r == c % m
             s == a + b
  <2>1. q \in Int /\ r \in Int /\ s \in Int /\ s = m * q + r /\ 0 <= r /\ r < m
    BY <1>1, <1>2, <1>4
  <2> HIDE DEF q, r, s
  <2>2. s % m = r
    BY <2>1, Remainder
  <2>. QED
    BY <2>2 DEF r, s
<1>. QED
  BY <1>5 DEF c

-------------------------------------------------------------------------------
(* Pipe.                                                                   *)

\* While bytes are being sent: the buffer has the bytes read last, the first of them
\* are sent, and bytes_read are not.
SendInv ==
  /\ buf \in Seq(Nat) /\ bytes_read \in 1..Len(buf)
  /\ sent_round = Len(buf) - bytes_read
  /\ consumed >= Len(buf)
  /\ \A i \in 1..Len(buf) : buf[i] = consumed - Len(buf) + i
  /\ Len(delivered) = consumed - bytes_read

\* What has been read is sent, but for what is left in the buffer, in order; what has
\* been sent is reported, but for the bytes of this call.
PipeInv ==
  /\ again \in Nat
  /\ again = 0 =>
       /\ arrived \in Nat /\ consumed \in Nat /\ consumed <= arrived /\ total \in Nat
       /\ total_completed \in Nat /\ delivered \in Seq(Nat) /\ Piped
       /\ pc \in {"monitor", "read", "send", "shutdown", "dropped"}
       /\ pc \in {"monitor", "read", "send"} => failed = "no"
       /\ pc = "send" => SendInv
       /\ pc # "send" /\ failed # "send" => Len(delivered) = consumed
       /\ pc = "monitor" => total_completed = Len(delivered) % Word
       /\ pc \in {"read", "send"} =>
            total <= Len(delivered) /\ total_completed = (Len(delivered) - total) % Word
       /\ pc = "read" /\ total = 0 => IsReady

LEMMA PipeStarts == PipeInit => PipeInv
BY PipeConstants DEF PipeInit, PipeInv, Piped

LEMMA ReadyKeeps ==
  ASSUME PipeInv, BecomesReady
  PROVE  PipeInv'
BY PipeConstants DEF PipeInv, BecomesReady, Unexpected, Piped, IsReady, peer, result

LEMMA ReadKeeps ==
  ASSUME PipeInv, Read, again = 0
  PROVE  PipeInv'
<1>1. PICK n \in 1..BufSize : /\ consumed + n <= arrived
                              /\ buf' = [i \in 1..n |-> consumed + i]
                              /\ bytes_read' = n
                              /\ consumed' = consumed + n
  BY Zenon DEF Read, ReadSize
<1>2. n \in Nat /\ consumed \in Nat /\ pc = "read" /\ Len(delivered) = consumed
  BY PipeConstants, <1>1 DEF PipeInv, Read
<1>3. buf' \in Seq(Nat) /\ Len(buf') = n /\ \A i \in 1..n : buf'[i] = consumed + i
  BY <1>1, <1>2
<1>4. UNCHANGED <<arrived, open, total, ret, failed, delivered, again, total_completed>>
      /\ sent_round' = 0 /\ pc' = "send"
  BY DEF Read, peer, result, out
<1>5. SendInv'
  BY <1>1, <1>2, <1>3, <1>4 DEF SendInv
<1>. QED
  BY <1>1, <1>2, <1>4, <1>5 DEF PipeInv, Piped

\* read() has nothing for the code to send: what was sent is reported, unless the
\* call ends the pipe.
LEMMA ReadEndsKeeps ==
  ASSUME PipeInv, ReadEnds, again = 0
  PROVE  PipeInv'
<1>0. /\ pc = "read" /\ total \in Nat /\ total_completed \in Nat /\ failed = "no"
      /\ Len(delivered) = consumed /\ total <= Len(delivered) /\ Len(delivered) \in Nat
      /\ total_completed = (Len(delivered) - total) % Word
      /\ total = 0 => IsReady
  BY Zenon DEF PipeInv, ReadEnds
<1>1. CASE arrived = consumed /\ open /\ Return(IF total = 0 THEN -TRY_LATER ELSE total, "no")
  <2>1. total > 0
    BY <1>0, <1>1 DEF IsReady, PipeInv
  <2>2. AfterPipe(total) = "monitor"
    BY <2>1, <1>0 DEF AfterPipe
  <2>3. Return(total, "no")
    BY <2>1, <1>1
  <2>4. pc' = "monitor" /\ total_completed' = (total_completed + total) % Word /\ failed' = "no"
    BY <2>2, <2>3 DEF Return, ReportThroughput
  <2>5. (total_completed + total) % Word = Len(delivered) % Word
    <3> DEFINE before == Len(delivered) - total
    <3>1. before \in Nat /\ before + total = Len(delivered) /\ total_completed = before % Word
      BY <1>0
    <3> HIDE DEF before
    <3>2. Word \in Nat \ {0} /\ total \in Nat
      BY <1>0, PipeConstants
    <3>3. ((before % Word) + total) % Word = (before + total) % Word
      BY Zenon, <3>1, <3>2, AddToRemainder
    <3>. QED
      BY Zenon, <3>1, <3>3
  <2>6. UNCHANGED <<arrived, open, consumed, total, delivered, again>>
    BY <2>3 DEF Return, peer, out
  <2>7. Len(delivered) % Word \in Nat
    BY <1>0, PipeConstants
  <2>. QED
    BY Zenon, <1>0, <2>4, <2>5, <2>6, <2>7 DEF PipeInv, Piped
<1>2. CASE Return(0, "no") \/ Return(-READ_FAIL, "read")
  <2>0. -READ_FAIL = 0
    <3>1. READ_FAIL \in Int /\ 0 - READ_FAIL = 0
      BY DEF READ_FAIL
    <3>2. -READ_FAIL = 0 - READ_FAIL
      BY <3>1
    <3>. QED
      BY Zenon, <3>1, <3>2
  <2>1. AfterPipe(0) = "shutdown"
    BY DEF AfterPipe, TRY_LATER
  <2>2. pc' = "shutdown" /\ failed' # "send" /\ total_completed' = total_completed
    BY Zenon, <1>2, <2>0, <2>1 DEF Return
  <2>3. UNCHANGED <<arrived, open, consumed, total, delivered, again>>
    BY <1>2 DEF Return, peer, out
  <2>. QED
    BY <1>0, <2>2, <2>3 DEF PipeInv, Piped
<1>. QED
  BY Zenon, <1>1, <1>2 DEF ReadEnds

LEMMA Concatenation ==
  ASSUME NEW s \in Seq(Nat), NEW t \in Seq(Nat)
  PROVE  s \o t \in Seq(Nat) /\ Len(s \o t) = Len(s) + Len(t)
OBVIOUS

\* The bytes send() takes are the next ones.
LEMMA SendKeeps ==
  ASSUME PipeInv, Send, again = 0
  PROVE  PipeInv'
<1>0. /\ pc = "send" /\ SendInv /\ delivered \in Seq(Nat) /\ Len(delivered) \in Nat
      /\ Piped /\ consumed \in Nat /\ total \in Nat /\ total <= Len(delivered)
      /\ total_completed = (Len(delivered) - total) % Word
  BY DEF PipeInv, Send
<1>1. PICK n \in 1..bytes_read : Count(n) /\ delivered' = delivered \o FromBuf(n)
  BY Zenon DEF Send
<1>2. n \in Nat /\ n >= 1 /\ n <= bytes_read /\ bytes_read \in Nat /\ bytes_read <= Len(buf)
      /\ Len(buf) \in Nat
  BY <1>0, <1>1 DEF SendInv
<1>3. ASSUME NEW i \in 1..n PROVE FromBuf(n)[i] = Len(delivered) + i
  <2>1. sent_round + i \in 1..Len(buf) /\ sent_round + i = Len(buf) - bytes_read + i
    BY <1>0, <1>2 DEF SendInv
  <2>2. buf[sent_round + i] = consumed - Len(buf) + (sent_round + i)
    BY Zenon, <1>0, <2>1 DEF SendInv
  <2>3. FromBuf(n)[i] = buf[sent_round + i]
    BY <2>1 DEF FromBuf
  <2>. QED
    BY <1>0, <1>2, <2>1, <2>2, <2>3 DEF SendInv
<1>4. FromBuf(n) \in Seq(Nat) /\ Len(FromBuf(n)) = n
  <2>1. \A i \in 1..n : FromBuf(n)[i] \in Nat
    BY <1>0, <1>2, <1>3
  <2>2. FromBuf(n) = [i \in 1..n |-> FromBuf(n)[i]]
    BY Zenon DEF FromBuf
  <2>3. FromBuf(n) \in [1..n -> Nat]
    BY Zenon, <2>1, <2>2
  <2>. QED
    BY <1>2, <2>3
<1>5. /\ delivered' \in Seq(Nat) /\ Len(delivered') = Len(delivered) + n
      /\ \A i \in 1..(Len(delivered) + n) : delivered'[i] = i
  <2> DEFINE f == FromBuf(n)
  <2>1. f \in Seq(Nat) /\ Len(f) = n /\ \A i \in 1..n : f[i] = Len(delivered) + i
    BY <1>3, <1>4
  <2>2. \A i \in 1..Len(delivered) : delivered[i] = i
    BY <1>0 DEF Piped
  <2> HIDE DEF f
  <2>3. delivered' = delivered \o f
    BY <1>1 DEF f
  <2>4. delivered' \in Seq(Nat) /\ Len(delivered') = Len(delivered) + n
    BY Zenon, <1>0, <2>1, <2>3, Concatenation
  <2>5. ASSUME NEW i \in 1..(Len(delivered) + n) PROVE delivered'[i] = i
    <3>1. CASE i <= Len(delivered)
      BY <1>0, <1>2, <2>1, <2>2, <2>3, <3>1
    <3>2. CASE i > Len(delivered)
      <4>1. i - Len(delivered) \in 1..n
        BY <1>0, <1>2, <3>2
      <4>2. delivered'[i] = f[i - Len(delivered)]
        BY <1>0, <2>1, <2>3, <3>2
      <4>. QED
        BY <1>0, <2>1, <4>1, <4>2
    <3>. QED
      BY <1>0, <1>2, <3>1, <3>2
  <2>. QED
    BY <2>4, <2>5
<1>6. Piped'
  BY <1>5 DEF Piped
<1>7. /\ total' = total + n /\ bytes_read' = bytes_read - n /\ sent_round' = sent_round + n
      /\ pc' = IF bytes_read - n = 0 THEN "read" ELSE "send"
      /\ UNCHANGED <<arrived, open, consumed, buf, failed, total_completed, again>>
  BY Zenon, <1>1 DEF Count, Send, peer, result
<1>8. bytes_read - n # 0 => SendInv'
  BY <1>0, <1>2, <1>5, <1>7 DEF SendInv
<1>9. bytes_read - n = 0 => Len(delivered') = consumed'
  BY <1>0, <1>2, <1>5, <1>7 DEF SendInv
<1>10. /\ total' \in Nat /\ total' # 0 /\ total' <= Len(delivered')
       /\ Len(delivered') - total' = Len(delivered) - total
  BY <1>0, <1>2, <1>5, <1>7
<1>. QED
  BY Zenon, <1>0, <1>5, <1>6, <1>7, <1>8, <1>9, <1>10 DEF PipeInv

\* A send() that fails ends the pipe.
LEMMA SendFailsKeeps ==
  ASSUME PipeInv, SendFails, again = 0
  PROVE  PipeInv'
<1>1. AfterPipe(-1) \in {"shutdown", "dropped"}
  BY DEF AfterPipe, TRY_LATER
<1>2. pc' \in {"shutdown", "dropped"} /\ failed' = "send" /\ total_completed' = total_completed
  BY <1>1 DEF SendFails, Return, SEND_FAIL
<1>3. UNCHANGED <<arrived, open, consumed, total, delivered, again>>
  BY DEF SendFails, Return, peer, out
<1>. QED
  BY <1>2, <1>3 DEF PipeInv, Piped

\* Every step keeps the invariant; a send() that finds the socket full, or an event
\* without input, is counted in again.
LEMMA PipeStep ==
  ASSUME PipeInv, [PipeNext]_pipevars
  PROVE  PipeInv'
<1>0. CASE again # 0
  <2>0. again \in Nat
    BY Zenon DEF PipeInv
  <2>1. UNCHANGED again \/ Unexpected
    BY Zenon DEF PipeNext, Proxy, BecomesReady, Read, ReadEnds, Send, SendStalls, SendFails,
      Return, Write, Close, out, pipevars
  <2>2. again' \in Nat /\ again' # 0
    BY <1>0, <2>0, <2>1 DEF Unexpected
  <2>. QED
    BY Zenon, <2>2 DEF PipeInv
<1>1. CASE again = 0
  <2>1. CASE BecomesReady
    BY <2>1, ReadyKeeps
  <2>2. CASE Read
    BY <1>1, <2>2, ReadKeeps
  <2>3. CASE ReadEnds
    BY Zenon, <1>1, <2>3, ReadEndsKeeps
  <2>4. CASE Send
    BY <1>1, <2>4, SendKeeps
  <2>5. CASE SendStalls
    BY <2>5 DEF SendStalls, Unexpected, PipeInv
  <2>6. CASE SendFails
    BY <1>1, <2>6, SendFailsKeeps
  <2>7. CASE Write
    BY <2>7 DEF Write, PipeInv, SendInv, Piped, IsReady, result, out
  <2>8. CASE Close
    BY Zenon, <2>8 DEF Close, PipeInv, SendInv, Piped, IsReady, result, out
  <2>9. CASE UNCHANGED pipevars
    BY <2>9 DEF pipevars, peer, result, out, PipeInv, SendInv, Piped, IsReady
  <2>. QED
    BY Zenon, <2>1, <2>2, <2>3, <2>4, <2>5, <2>6, <2>7, <2>8, <2>9 DEF PipeNext, Proxy
<1>. QED
  BY Zenon, <1>0, <1>1

\* What TcpPipe::Pipe sends to one side is what the other side wrote, in order, for
\* any number of bytes, size of the buffer and way to cut them up, as long as no
\* send() finds the socket full.
THEOREM BytesInOrder == PipeSpec => []PipedInOrder
<1>1. PipeInv => PipedInOrder
  BY Zenon DEF PipeInv, PipedInOrder
<1>. QED
  BY <1>1, PipeStarts, PipeStep, PTL DEF PipeSpec

\* When TcpPipe::Pipe returns without a failed call, all it has read is sent, and the
\* job's total_completed is what was sent, modulo the width of unsigned.
THEOREM NothingIsHeldBack == PipeSpec => []NothingHeldBack
<1>1. PipeInv => NothingHeldBack
  BY DEF PipeInv, NothingHeldBack
<1>. QED
  BY <1>1, PipeStarts, PipeStep, PTL DEF PipeSpec

===============================================================================

--------------------------- MODULE FileClientProofs ---------------------------
(***************************************************************************)
(* Proofs about FileClient, for any number of requests and priorities, any *)
(* file size and any faults of the network: done is called once, with what *)
(* the server sent, a purged copy stops, and none is purged without a      *)
(* winner.  Each property gets the strengthening that makes it inductive:  *)
(* who can be the winner of a request (OnceInv), what the buffer holds and *)
(* how the index and the stream agree (BufferInv), when it is full         *)
(* (WholeInv), where a copy that has acted late cannot be (StopInv), and   *)
(* that a set PurgeState has a winner (PurgeInv).  The proofs about        *)
(* ThrottlerStats are at the end.                                          *)
(***************************************************************************)
EXTENDS FileClient, ThrottlerStats, TLAPS

OnceInv ==
  /\ \A c \in Copies : Winner(c) => purged[c[1]]
  /\ \A c, d \in Copies : Winner(c) /\ Winner(d) /\ c[1] = d[1] => c = d
  /\ \A c \in Copies : at[c] = <<"response", "won">> => calls[c[1]] = 0
  /\ \A t \in Tasks : calls[t] <= 1 /\ (calls[t] # 0 => purged[t])

FreshInv ==
  \A c \in Copies : c[2] >= next[c[1]] => at[c] = New

BufferInv ==
  \A c \in Copies :
    /\ taken[c] <= sent[c]
    /\ object[c] = "null" => taken[c] = 0 /\ \A k \in 1..Size : data[c][k] = 0
    /\ object[c] # "null" =>
         /\ index[c] = StartIdx[c] + taken[c]
         /\ \A k \in 1..Size : data[c][k] = IF StartIdx[c] < k /\ k <= index[c] THEN k - StartIdx[c] ELSE 0

WholeInv ==
  \A c \in Copies :
    /\ at[c] = <<"response", "read">> => object[c] # "null"
    /\ at[c] = <<"response", "full">> \/ Winner(c) => object[c] # "null" /\ index[c] = Size

StopInv ==
  \A c \in Copies :
    /\ late[c] <= 1
    /\ late[c] # 0 => purged[c[1]]
    /\ late[c] # 0 => at[c] \notin Stages \X {"go", "called"}

PurgeInv ==
  /\ \A t \in Tasks : purged[t] => \E d \in Copies : d[1] = t /\ Winner(d)
  /\ \A c \in Copies : at[c] = <<"end", "purged">> => purged[c[1]]

USE DEF Copies

\* A copy is a pair of a task and a priority.
LEMMA CopyParts == \A c \in Copies : c[1] \in Tasks /\ c[2] \in 0..MaxPriority /\ c = <<c[1], c[2]>>
  OBVIOUS

\* The last priority Dispatch computes is one there is.
LEMMA MaxPrioRange == ASSUME NEW t \in Tasks PROVE MaxPrio(t) \in 0..MaxPriority
  BY ClientConstants DEF MaxPrio

\* Only the copy that moves is elsewhere afterwards.
LEMMA MoveMoves ==
  ASSUME TypeOK, NEW c \in Copies, NEW to, Move(c, to)
  PROVE  \A d \in Copies : at'[d] = IF d = c THEN to ELSE at[d]
<1>1. DOMAIN at = Copies
  BY Zenon DEF TypeOK
<1> QED
  BY Zenon, <1>1 DEF Move

\* Where a read leads.
AfterRead == {<<"response", "read">>, <<"response", "full">>, <<"response", "epoll">>, <<"end", "failed">>}

LEMMA ReadLeads ==
  ASSUME NEW c \in Copies, ReadMore(c) \/ ReadFails(c)
  PROVE  \E to \in AfterRead : Move(c, to) /\ (to = <<"response", "full">> => IsFull(c))
<1>1. CASE ReadMore(c)
  BY <1>1 DEF ReadMore, AfterRead
<1>2. CASE ReadFails(c)
  BY <1>2 DEF ReadFails, AfterRead
<1> QED
  BY <1>1, <1>2

\* Every step is one of these.
LEMMA StepCases ==
  ASSUME [Next]_vars
  PROVE  \/ \E t \in Tasks : Dispatch(t) \/ DuplicateAndEnqueue(t)
         \/ \E c \in Copies : \E s \in Stages : Dequeue(c, s) \/ Check(c, s) \/ Purge(c, s) \/ PassOn(c, s)
         \/ \E c \in Copies : Connect(c) \/ Send(c) \/ Complete(c) \/ Done(c)
         \/ \E c \in Copies : ReadHeader(c) \/ HeaderAborts(c) \/ ReadOn(c) \/ ReadMore(c) \/ ReadFails(c)
         \/ \E c \in Copies : \E s \in Stages : \E e \in BOOLEAN : at[c] = <<s, "epoll">> /\ Callback(c, s, e)
         \/ \E c \in Copies : SendFile(c) \/ Close(c) \/ \E a \in Answers : Answer(c, a)
         \/ UNCHANGED vars
<1>1. ASSUME NEW c \in Copies, Connected(c)
      PROVE  \E s \in Stages : \E e \in BOOLEAN : at[c] = <<s, "epoll">> /\ Callback(c, s, e)
  <2>1. "connect" \in Stages
    BY DEF Stages
  <2> QED
    BY Zenon, <1>1, <2>1 DEF Connected
<1>2. ASSUME NEW c \in Copies, NEW s \in Stages, Monitored(c, s)
      PROVE  \E e \in BOOLEAN : at[c] = <<s, "epoll">> /\ Callback(c, s, e)
  BY Zenon, <1>2 DEF Monitored
<1> QED
  BY <1>1, <1>2 DEF Next, Worker, Comm, Server

\* The types hold before the first Dispatch.
LEMMA TypeInit == Init => TypeOK /\ FreshInv
<1>1. Blank \in Buffers
  BY ClientConstants DEF Blank, Buffers
<1> QED
  BY <1>1, ClientConstants DEF Init, TypeOK, New, FreshInv

\* What a copy does late is counted by a natural number.
LEMMA ActType ==
  ASSUME TypeOK, NEW c \in Copies, Act(c) \/ UNCHANGED late
  PROVE  late' \in [Copies -> Nat]
  BY DEF Act, TypeOK

\* A read takes no more than has arrived and no more than there is room for.
LEMMA ReadRoom ==
  ASSUME TypeOK, BufferInv, NEW c \in Copies
  PROVE  /\ Arrived(c) \in Nat
         /\ index[c] + Arrived(c) \in 0..Size
         /\ taken[c] + Arrived(c) \in 0..Size
         /\ taken[c] + Arrived(c) <= sent[c]
         /\ \A k \in 1..Size : index[c] < k /\ k <= index[c] + Arrived(c) => taken[c] + (k - index[c]) \in 0..Size
<1>1. index[c] \in 0..Size /\ sent[c] \in 0..Size /\ taken[c] \in 0..Size /\ taken[c] <= sent[c]
  BY Zenon DEF TypeOK, BufferInv
<1> QED
  BY <1>1, ClientConstants DEF Arrived

\* Every step of the client, the server and the network keeps the types.
LEMMA TypeStep == TypeOK /\ BufferInv /\ [Next]_vars => TypeOK'
<1> SUFFICES ASSUME TypeOK, BufferInv, [Next]_vars PROVE TypeOK'
  BY Zenon
<1> USE DEF TypeOK, Move, app, file, server, net
<1>1. ASSUME NEW t \in Tasks, DuplicateAndEnqueue(t) PROVE TypeOK'
  <2>1. next[t] \in 0..MaxPriority
    BY <1>1, MaxPrioRange, ClientConstants DEF DuplicateAndEnqueue
  <2> QED
    BY <1>1, <2>1, ClientConstants DEF DuplicateAndEnqueue, Places, Stages
<1>2. ASSUME NEW t \in Tasks, Dispatch(t) PROVE TypeOK'
  BY <1>2 DEF Dispatch
<1>3. ASSUME NEW c \in Copies, NEW s \in Stages, Dequeue(c, s) \/ Check(c, s) PROVE TypeOK'
  BY <1>3 DEF Dequeue, Check, IfNotPurged, Places, Ends
<1>4. ASSUME NEW c \in Copies, NEW s \in Stages, Purge(c, s) PROVE TypeOK'
  BY <1>4 DEF Purge, Purging, Ends, NextStage, Stages
<1>5. ASSUME NEW c \in Copies, Connect(c) PROVE TypeOK'
  <2>1. late' \in [Copies -> Nat]
    BY <1>5, ActType DEF Connect
  <2>2. CASE UNCHANGED at
    BY Zenon, <1>5, <2>1, <2>2 DEF Connect
  <2>3. CASE Move(c, <<"connect", "epoll">>) /\ UNCHANGED aborted
    BY Zenon, <1>5, <2>1, <2>3 DEF Connect, Places, Stages
  <2> QED
    BY <1>5, <2>2, <2>3 DEF Connect
<1>6. ASSUME NEW c \in Copies, Send(c) PROVE TypeOK'
  <2>1. late' \in [Copies -> Nat]
    BY Zenon, <1>6, ActType DEF Send
  <2>2. CASE UNCHANGED <<at, header>>
    BY <1>6, <2>1, <2>2 DEF Send
  <2>3. CASE Move(c, <<"request", "epoll">>) /\ header' = [header EXCEPT ![c] = "none"] /\ UNCHANGED aborted
    BY Zenon, <1>6, <2>1, <2>3 DEF Send, Places, Stages
  <2> QED
    BY <1>6, <2>2, <2>3 DEF Send
<1>7. ASSUME NEW c \in Copies, ReadHeader(c) \/ ReadOn(c) PROVE TypeOK'
  <2>1. late' \in [Copies -> Nat]
    BY Zenon, <1>7, ActType DEF ReadHeader, ReadOn
  <2>2. StartIdx[c] \in 0..Size
    BY ClientConstants
  <2>3. CASE ReadHeader(c)
    BY Zenon, <2>1, <2>2, <2>3 DEF ReadHeader, StartIndex, Places, Stages
  <2>4. CASE ReadOn(c)
    BY Zenon, <2>1, <2>4 DEF ReadOn, Places, Stages
  <2> QED
    BY Zenon, <1>7, <2>3, <2>4
<1>8. ASSUME NEW c \in Copies, ReadMore(c) PROVE TypeOK'
  <2>1. /\ index[c] + Arrived(c) \in 0..Size /\ taken[c] + Arrived(c) \in 0..Size
        /\ \A k \in 1..Size : index[c] < k /\ k <= index[c] + Arrived(c) => taken[c] + (k - index[c]) \in 0..Size
    BY ReadRoom
  <2>2. at' \in [Copies -> Places \cup Purging \cup Ends \cup {New}]
    BY <1>8 DEF ReadMore, Places, Stages, Ends
  <2>3. index' \in [Copies -> 0..Size] /\ taken' \in [Copies -> 0..Size]
    BY Zenon, <1>8, <2>1 DEF ReadMore
  <2>4. data' \in [Copies -> Buffers]
    <3>1. [k \in 1..Size |-> IF index[c] < k /\ k <= index[c] + Arrived(c)
                             THEN taken[c] + (k - index[c]) ELSE data[c][k]] \in Buffers
      <4>1. \A k \in 1..Size : data[c][k] \in 0..Size
        BY Zenon DEF Buffers
      <4>2. \A k \in 1..Size : (IF index[c] < k /\ k <= index[c] + Arrived(c)
                                THEN taken[c] + (k - index[c]) ELSE data[c][k]) \in 0..Size
        BY ONLY <2>1, <4>1
      <4> QED
        BY Zenon, <4>2 DEF Buffers
    <3> QED
      BY Zenon, <1>8, <3>1 DEF ReadMore
  <2> QED
    BY Zenon, <1>8, <2>2, <2>3, <2>4 DEF ReadMore
<1>17. ASSUME NEW c \in Copies, ReadFails(c) PROVE TypeOK'
  BY Zenon, <1>17 DEF ReadFails, Places, Stages, Ends
<1>18. ASSUME NEW c \in Copies, HeaderAborts(c) PROVE TypeOK'
  BY Zenon, <1>18 DEF HeaderAborts
<1>9. ASSUME NEW c \in Copies, Complete(c) PROVE TypeOK'
  BY Zenon, <1>9, CopyParts DEF Complete, SetPurged, Places, Stages, Ends
<1>10. ASSUME NEW c \in Copies, Done(c) PROVE TypeOK'
  BY <1>10, CopyParts DEF Done, Purging, Stages
<1>11. ASSUME NEW c \in Copies, NEW s \in Stages, NEW e \in BOOLEAN, Callback(c, s, e) PROVE TypeOK'
  BY <1>11 DEF Callback, IfNotPurged, Places, Ends
<1>12. ASSUME NEW c \in Copies, NEW s \in Stages, PassOn(c, s) PROVE TypeOK'
  BY <1>12, CopyParts DEF PassOn, Act, NextStage, Places, Stages
<1>13. ASSUME NEW c \in Copies, NEW a \in Answers, Answer(c, a) PROVE TypeOK'
  BY Zenon, <1>13 DEF Answer, Answers
<1>14. ASSUME NEW c \in Copies, SendFile(c) PROVE TypeOK'
  BY <1>14, ClientConstants DEF SendFile
<1>15. ASSUME NEW c \in Copies, Close(c) PROVE TypeOK'
  BY <1>15 DEF Close
<1>16. CASE UNCHANGED vars
  BY Zenon, <1>16 DEF vars
<1> HIDE DEF TypeOK, Move
<1> QED
  BY <1>1, <1>2, <1>3, <1>4, <1>5, <1>6, <1>7, <1>8, <1>9, <1>10, <1>11, <1>12, <1>13,
     <1>14, <1>15, <1>16, <1>17, <1>18, StepCases

-------------------------------------------------------------------------------
\* A copy that was not enqueued is where it began.
LEMMA FreshStep == TypeOK /\ FreshInv /\ [Next]_vars => FreshInv'
<1> SUFFICES ASSUME TypeOK, FreshInv, [Next]_vars PROVE FreshInv'
  BY Zenon
<1> USE DEF TypeOK, FreshInv, Move, app, file, server, net
<1>1. ASSUME NEW t \in Tasks, DuplicateAndEnqueue(t) PROVE FreshInv'
  <2>1. next[t] \in 0..MaxPriority
    BY <1>1, MaxPrioRange, ClientConstants DEF DuplicateAndEnqueue
  <2>2. <<t, next[t]>> \in Copies /\ at[<<t, next[t]>>] = New
    BY <2>1
  <2>4. ASSUME NEW d \in Copies PROVE d[2] >= next'[d[1]] => at'[d] = New
    <3>1. next'[t] = next[t] + 1 /\ \A u \in Tasks : u # t => next'[u] = next[u]
      BY Zenon, <1>1 DEF DuplicateAndEnqueue
    <3>2. d # <<t, next[t]>> => at'[d] = at[d]
      BY <1>1, <2>2 DEF DuplicateAndEnqueue
    <3> QED
      BY <2>1, <3>1, <3>2, CopyParts, ClientConstants
  <2> QED
    BY Zenon, <2>4
<1>2. ASSUME NEW t \in Tasks, Dispatch(t) PROVE FreshInv'
  BY Zenon, <1>2 DEF Dispatch
<1>3. ASSUME NEW c \in Copies, NEW s \in Stages, Dequeue(c, s) PROVE FreshInv'
  BY <1>3 DEF Dequeue, New
<1>4. ASSUME NEW c \in Copies, NEW s \in Stages, Check(c, s) PROVE FreshInv'
  BY <1>4 DEF Check, IfNotPurged, New
<1>5. ASSUME NEW c \in Copies, NEW s \in Stages, Purge(c, s) PROVE FreshInv'
  BY <1>5 DEF Purge, Purges, NextStage, New
<1>6. ASSUME NEW c \in Copies, NEW s \in Stages, PassOn(c, s) PROVE FreshInv'
  BY <1>6 DEF PassOn, NextStage, New, Stages
<1>7. ASSUME NEW c \in Copies, Connect(c) PROVE FreshInv'
  BY <1>7 DEF Connect, New
<1>8. ASSUME NEW c \in Copies, Send(c) PROVE FreshInv'
  BY <1>8 DEF Send, New
<1>9. ASSUME NEW c \in Copies, ReadHeader(c) \/ HeaderAborts(c) \/ ReadOn(c) PROVE FreshInv'
  <2>1. next' = next /\ at[c] # New
    BY <1>9 DEF ReadHeader, HeaderAborts, ReadOn, New
  <2>2. \A d \in Copies : d # c => at'[d] = at[d]
    BY Zenon, <1>9 DEF ReadHeader, HeaderAborts, ReadOn
  <2> QED
    BY Zenon, <2>1, <2>2
<1>10. ASSUME NEW c \in Copies, ReadMore(c) \/ ReadFails(c) PROVE FreshInv'
  <2>1. next' = next /\ at[c] # New
    BY <1>10 DEF ReadMore, ReadFails, New
  <2>2. \A d \in Copies : d # c => at'[d] = at[d]
    BY Zenon, <1>10 DEF ReadMore, ReadFails
  <2> QED
    BY Zenon, <2>1, <2>2
<1>11. ASSUME NEW c \in Copies, Complete(c) \/ Done(c) PROVE FreshInv'
  BY <1>11 DEF Complete, SetPurged, Done, New
<1>12. ASSUME NEW c \in Copies, NEW s \in Stages, NEW e \in BOOLEAN,
              at[c] = <<s, "epoll">>, Callback(c, s, e)
       PROVE  FreshInv'
  BY <1>12 DEF Callback, IfNotPurged, New
<1>13. ASSUME NEW c \in Copies,
              SendFile(c) \/ Close(c) \/ \E a \in Answers : Answer(c, a)
       PROVE  FreshInv'
  BY <1>13 DEF SendFile, Close, Answer
<1>14. CASE UNCHANGED vars
  BY Zenon, <1>14 DEF vars
<1> HIDE DEF FreshInv, TypeOK, Move
<1> QED
  BY <1>1, <1>2, <1>3, <1>4, <1>5, <1>6, <1>7, <1>8, <1>9, <1>10, <1>11, <1>12,
     <1>13, <1>14, StepCases

-------------------------------------------------------------------------------
\* A step that makes nobody a winner and calls no done.
LEMMA OnceFrame ==
  ASSUME TypeOK, OnceInv, UNCHANGED <<purged, calls>>,
         \A d \in Copies : Winner(d)' => Winner(d),
         \A d \in Copies : at'[d] = <<"response", "won">> => at[d] = <<"response", "won">>
  PROVE  OnceInv'
  BY Zenon DEF OnceInv, TypeOK

\* A step that moves one copy, to a place that is no winner's, makes no second winner.
LEMMA OnceMove ==
  ASSUME TypeOK, OnceInv, UNCHANGED <<purged, calls>>, NEW c \in Copies, NEW to, Move(c, to),
         to # <<"response", "won">>, to \notin Purging, to # <<"end", "done">>
  PROVE  OnceInv'
<1>1. \A d \in Copies : at'[d] = IF d = c THEN to ELSE at[d]
  BY ONLY TypeOK, c \in Copies, Move(c, to), MoveMoves
<1> QED
  BY <1>1, OnceFrame DEF Winner

\* SetPurged lets one copy through, and every other step keeps it the only one.
LEMMA OnceStep == TypeOK /\ FreshInv /\ OnceInv /\ [Next]_vars => OnceInv'
<1> SUFFICES ASSUME TypeOK, FreshInv, OnceInv, [Next]_vars PROVE OnceInv'
  BY Zenon
<1> USE DEF Move, app, file, server, net
<1>1. ASSUME NEW t \in Tasks, DuplicateAndEnqueue(t) PROVE OnceInv'
  <2>1. next[t] \in 0..MaxPriority
    BY <1>1, MaxPrioRange, ClientConstants DEF DuplicateAndEnqueue, TypeOK
  <2> QED
    BY Zenon, <1>1, <2>1, OnceFrame DEF DuplicateAndEnqueue, Winner, Purging, TypeOK
<1>2. ASSUME NEW t \in Tasks, Dispatch(t) PROVE OnceInv'
  BY <1>2, OnceFrame DEF Dispatch, Winner
<1>3. ASSUME NEW c \in Copies, NEW s \in Stages, Dequeue(c, s) \/ Check(c, s) \/ PassOn(c, s)
      PROVE  OnceInv'
  <2> HIDE DEF Move
  <2>1. CASE Dequeue(c, s)
    BY Zenon, <2>1, OnceMove DEF Dequeue, Purging, Stages
  <2>2. CASE Check(c, s)
    BY <2>2, OnceMove DEF Check, IfNotPurged, Purging, Stages
  <2>3. CASE PassOn(c, s)
    BY Zenon, <2>3, OnceMove DEF PassOn, NextStage, Purging, Stages
  <2> QED
    BY Zenon, <1>3, <2>1, <2>2, <2>3
<1>4. ASSUME NEW c \in Copies, NEW s \in Stages, Purge(c, s) PROVE OnceInv'
  BY <1>4, OnceFrame DEF Purge, Winner, Purging, Stages, NextStage, TypeOK
<1>5. ASSUME NEW c \in Copies, Connect(c) \/ Send(c) \/ ReadHeader(c) \/ HeaderAborts(c) \/ ReadOn(c)
      PROVE  OnceInv'
  <2> HIDE DEF Move
  <2>1. UNCHANGED <<purged, calls>>
    BY Zenon, <1>5 DEF Connect, Send, ReadHeader, HeaderAborts, ReadOn
  <2>2. CASE UNCHANGED at
    BY Zenon, <2>1, <2>2, OnceFrame DEF Winner
  <2>3. ASSUME NEW s \in Stages, NEW p \in {"epoll", "read"}, Move(c, <<s, p>>) PROVE OnceInv'
    BY Zenon, <2>1, <2>3, OnceMove DEF Purging, Stages
  <2> QED
    BY Zenon, <1>5, <2>2, <2>3 DEF Connect, Send, ReadHeader, HeaderAborts, ReadOn, Stages
<1>6. ASSUME NEW c \in Copies, ReadMore(c) \/ ReadFails(c) PROVE OnceInv'
  <2> HIDE DEF Move
  <2>1. UNCHANGED <<purged, calls>>
    BY Zenon, <1>6 DEF ReadMore, ReadFails
  <2>2. PICK to \in AfterRead : Move(c, to)
    BY <1>6, ReadLeads
  <2> QED
    BY Zenon, <2>1, <2>2, OnceMove DEF AfterRead, Purging, Stages
<1>7. ASSUME NEW c \in Copies, Complete(c) PROVE OnceInv'
  <2>1. CASE purged[c[1]]
    <3>1. purged' = purged
      BY <1>7, <2>1 DEF Complete, SetPurged, TypeOK
    <3> QED
      BY Zenon, <1>7, <2>1, <3>1, OnceFrame DEF Complete, SetPurged, Winner, Purging, TypeOK
  <2>2. CASE ~purged[c[1]]
    <3>1. \A d \in Copies : d[1] = c[1] => ~Winner(d)
      BY Zenon, <2>2 DEF OnceInv
    <3>2. \A d \in Copies : d # c => at'[d] = at[d]
      BY <1>7 DEF Complete, SetPurged, TypeOK
    <3>3. \A t \in Tasks : purged'[t] = (purged[t] \/ t = c[1])
      BY Zenon, <1>7 DEF Complete, SetPurged, TypeOK
    <3>4. calls' = calls /\ calls[c[1]] = 0
      BY <1>7, <2>2, CopyParts DEF Complete, OnceInv
    <3>5. \A d \in Copies : d # c => Winner(d)' = Winner(d)
      BY <3>2 DEF Winner
    <3>6. \A d \in Copies : Winner(d)' => purged'[d[1]]
      BY Zenon, <3>3, <3>5, CopyParts DEF OnceInv
    <3>7. \A d, e \in Copies : Winner(d)' /\ Winner(e)' /\ d[1] = e[1] => d = e
      BY <3>1, <3>5 DEF OnceInv
    <3>8. \A d \in Copies : at'[d] = <<"response", "won">> => calls'[d[1]] = 0
      BY <3>2, <3>4 DEF OnceInv
    <3>9. \A t \in Tasks : calls'[t] <= 1 /\ (calls'[t] # 0 => purged'[t])
      BY Zenon, <3>3, <3>4 DEF OnceInv
    <3> QED
      BY Zenon, <3>6, <3>7, <3>8, <3>9 DEF OnceInv
  <2> QED
    BY Zenon, <2>1, <2>2
<1>8. ASSUME NEW c \in Copies, Done(c) PROVE OnceInv'
  <2>1. Winner(c) /\ purged' = purged
    BY Zenon, <1>8 DEF Done, Winner
  <2>2. \A d \in Copies : (d # c => at'[d] = at[d]) /\ at'[c] = <<"purge", "connect">>
    BY Zenon, <1>8 DEF Done, TypeOK
  <2>3. \A d \in Copies : Winner(d)' = Winner(d)
    BY <2>1, <2>2 DEF Winner, Purging, Stages
  <2>4. \A d \in Copies : at'[d] = <<"response", "won">> => d[1] # c[1]
    BY <2>1, <2>2 DEF OnceInv, Winner
  <2>5. calls[c[1]] = 0 /\ calls'[c[1]] = 1 /\ \A t \in Tasks : t # c[1] => calls'[t] = calls[t]
    <3>1. c[1] \in Tasks /\ calls[c[1]] = 0
      BY Zenon, <1>8, CopyParts DEF Done, OnceInv
    <3>2. calls \in [Tasks -> Nat] /\ calls' = [calls EXCEPT ![c[1]] = @ + 1]
      BY Zenon, <1>8 DEF Done, TypeOK
    <3> QED
      BY <3>1, <3>2
  <2> QED
    BY <2>1, <2>2, <2>3, <2>4, <2>5, CopyParts DEF OnceInv
<1>9. ASSUME NEW c \in Copies, NEW s \in Stages, NEW e \in BOOLEAN, Callback(c, s, e)
      PROVE  OnceInv'
  <2> HIDE DEF Move
  <2> QED
    BY <1>9, OnceMove DEF Callback, IfNotPurged, Purging, Stages
<1>10. ASSUME NEW c \in Copies,
              SendFile(c) \/ Close(c) \/ \E a \in Answers : Answer(c, a)
       PROVE  OnceInv'
  BY <1>10, OnceFrame DEF SendFile, Close, Answer, Winner
<1>11. CASE UNCHANGED vars
  BY Zenon, <1>11, OnceFrame DEF vars, Winner
<1> HIDE DEF Move
<1> QED
  BY Zenon, <1>1, <1>2, <1>3, <1>4, <1>5, <1>6, <1>7, <1>8, <1>9, <1>10, <1>11, StepCases

-------------------------------------------------------------------------------
\* A step that reads nothing.
LEMMA BufferFrame ==
  ASSUME TypeOK, BufferInv, UNCHANGED file, \A d \in Copies : sent'[d] \in Nat /\ sent'[d] >= sent[d]
  PROVE  BufferInv'
<1>1. \A d \in Copies : sent[d] \in Nat /\ taken[d] \in Nat
  BY ClientConstants DEF TypeOK
<1>2. \A d \in Copies : taken[d] <= sent'[d]
  <2> TAKE d \in Copies
  <2>1. taken[d] <= sent[d]
    BY ONLY BufferInv, d \in Copies DEF BufferInv
  <2>2. sent'[d] \in Nat /\ sent'[d] >= sent[d] /\ sent[d] \in Nat /\ taken[d] \in Nat
    BY Zenon, <1>1
  <2> QED
    BY ONLY <2>1, <2>2
<1>3. object' = object /\ data' = data /\ index' = index /\ taken' = taken
  BY DEF file
<1> QED
  BY ONLY BufferInv, <1>2, <1>3 DEF BufferInv

\* A buffer is blank when it is allocated, and every read adds what comes next in the
\* stream behind what is there.
LEMMA BufferStep == TypeOK /\ BufferInv /\ WholeInv /\ [Next]_vars => BufferInv'
<1> SUFFICES ASSUME TypeOK, BufferInv, WholeInv, [Next]_vars PROVE BufferInv'
  BY Zenon
<1>1. \A d \in Copies : sent[d] \in Nat /\ taken[d] \in Nat /\ index[d] \in Nat /\ StartIdx[d] \in Nat
  BY ClientConstants DEF TypeOK
<1>2. ASSUME UNCHANGED <<file, sent>> PROVE BufferInv'
  BY <1>1, <1>2, BufferFrame
<1>3. ASSUME NEW c \in Copies, ReadHeader(c) PROVE BufferInv'
  <2>1. UNCHANGED <<data, taken, sent>> /\ object[c] = "null"
    BY Zenon, <1>3 DEF ReadHeader, net, server
  <2>2. index'[c] = StartIdx[c] /\ object'[c] = "buffer"
    BY <1>3 DEF ReadHeader, StartIndex, TypeOK
  <2>3. \A d \in Copies : d # c => index'[d] = index[d] /\ object'[d] = object[d]
    BY <1>3 DEF ReadHeader, TypeOK
  <2>4. taken[c] = 0 /\ \A k \in 1..Size : data[c][k] = 0
    BY Zenon, <2>1 DEF BufferInv
  <2> QED
    BY <1>1, <2>1, <2>2, <2>3, <2>4, ClientConstants DEF BufferInv
<1>4. ASSUME NEW c \in Copies, ReadMore(c) PROVE BufferInv'
  <2>1. UNCHANGED <<object, sent>> /\ object[c] # "null"
    BY Zenon, <1>4 DEF ReadMore, WholeInv, net, server
  <2>2. index'[c] = index[c] + Arrived(c) /\ taken'[c] = taken[c] + Arrived(c)
    BY Zenon, <1>4 DEF ReadMore, TypeOK
  <2>3. \A d \in Copies : d # c => index'[d] = index[d] /\ taken'[d] = taken[d] /\ data'[d] = data[d]
    BY Zenon, <1>4 DEF ReadMore, TypeOK
  <2>4. \A k \in 1..Size : data'[c][k] = IF index[c] < k /\ k <= index[c] + Arrived(c)
                                         THEN taken[c] + (k - index[c]) ELSE data[c][k]
    BY Zenon, <1>4 DEF ReadMore, TypeOK
  <2>5. Arrived(c) \in Nat /\ taken[c] + Arrived(c) <= sent[c]
    BY Zenon, ReadRoom
  <2>6. /\ index[c] = StartIdx[c] + taken[c]
        /\ \A k \in 1..Size : data[c][k] = IF StartIdx[c] < k /\ k <= index[c] THEN k - StartIdx[c] ELSE 0
    BY Zenon, <2>1 DEF BufferInv
  <2>7. ASSUME NEW k \in 1..Size
        PROVE  data'[c][k] = IF StartIdx[c] < k /\ k <= index'[c] THEN k - StartIdx[c] ELSE 0
    BY <1>1, <2>2, <2>4, <2>5, <2>6, ClientConstants
  <2>8. taken'[c] <= sent'[c] /\ index'[c] = StartIdx[c] + taken'[c]
    BY <1>1, <2>1, <2>2, <2>5, <2>6
  <2> QED
    BY ONLY BufferInv, <2>1, <2>3, <2>7, <2>8 DEF BufferInv
<1>5. ASSUME NEW c \in Copies, SendFile(c) PROVE BufferInv'
  <2>1. \A d \in Copies : sent'[d] \in Nat /\ sent'[d] >= sent[d]
    BY <1>1, <1>5 DEF SendFile, TypeOK
  <2> QED
    BY Zenon, <1>5, <2>1, BufferFrame DEF SendFile
<1> USE DEF net, server
<1>6. ASSUME NEW t \in Tasks, Dispatch(t) \/ DuplicateAndEnqueue(t) PROVE UNCHANGED <<file, sent>>
  BY Zenon, <1>6 DEF Dispatch, DuplicateAndEnqueue
<1>7. ASSUME NEW c \in Copies, NEW s \in Stages, Dequeue(c, s) \/ Check(c, s) \/ Purge(c, s) \/ PassOn(c, s)
      PROVE  UNCHANGED <<file, sent>>
  BY Zenon, <1>7 DEF Dequeue, Check, Purge, PassOn
<1>8. ASSUME NEW c \in Copies, Connect(c) \/ Send(c) \/ Complete(c) \/ Done(c) PROVE UNCHANGED <<file, sent>>
  BY Zenon, <1>8 DEF Connect, Send, Complete, Done
<1>9. ASSUME NEW c \in Copies, HeaderAborts(c) \/ ReadOn(c) \/ ReadFails(c) PROVE UNCHANGED <<file, sent>>
  BY Zenon, <1>9 DEF HeaderAborts, ReadOn, ReadFails
<1>10. ASSUME NEW c \in Copies, NEW s \in Stages, NEW e \in BOOLEAN, Callback(c, s, e) PROVE UNCHANGED <<file, sent>>
  BY Zenon, <1>10 DEF Callback
<1>11. ASSUME NEW c \in Copies, Close(c) \/ \E a \in Answers : Answer(c, a) PROVE UNCHANGED <<file, sent>>
  BY Zenon, <1>11 DEF Close, Answer
<1>12. CASE UNCHANGED vars
  BY Zenon, <1>2, <1>12 DEF vars
<1> QED
  BY Zenon, <1>2, <1>3, <1>4, <1>5, <1>6, <1>7, <1>8, <1>9, <1>10, <1>11, <1>12, StepCases

-------------------------------------------------------------------------------
\* A step that moves one copy, and not into reading or completion.
LEMMA WholeMove ==
  ASSUME TypeOK, WholeInv, NEW c \in Copies, NEW to, Move(c, to), UNCHANGED <<object, index>>,
         to \notin {"response"} \X {"read", "full", "won"}, to \notin Purging, to # <<"end", "done">>
  PROVE  WholeInv'
<1>1. \A d \in Copies : at'[d] = IF d = c THEN to ELSE at[d]
  BY ONLY TypeOK, c \in Copies, Move(c, to), MoveMoves
<1> QED
  BY <1>1 DEF WholeInv, Winner

\* A copy gets to the end of the read loop with the buffer filled to its end only.
LEMMA WholeStep == TypeOK /\ BufferInv /\ WholeInv /\ [Next]_vars => WholeInv'
<1> SUFFICES ASSUME TypeOK, BufferInv, WholeInv, [Next]_vars PROVE WholeInv'
  BY Zenon
<1> USE DEF app, file, server, net
<1>1. ASSUME NEW t \in Tasks, DuplicateAndEnqueue(t) PROVE WholeInv'
  <2>1. next[t] \in 0..MaxPriority
    BY <1>1, MaxPrioRange, ClientConstants DEF DuplicateAndEnqueue, TypeOK
  <2> QED
    BY <1>1, <2>1, WholeMove DEF DuplicateAndEnqueue, Purging
<1>2. ASSUME NEW t \in Tasks, Dispatch(t) PROVE WholeInv'
  BY Zenon, <1>2 DEF Dispatch, WholeInv, Winner
<1>3. ASSUME NEW c \in Copies, NEW s \in Stages, Dequeue(c, s) PROVE WholeInv'
  BY Zenon, <1>3, WholeMove DEF Dequeue, Purging, Stages
<1>4. ASSUME NEW c \in Copies, NEW s \in Stages, Check(c, s) PROVE WholeInv'
  BY Zenon, <1>4, WholeMove DEF Check, IfNotPurged, Purging, Stages
<1>5. ASSUME NEW c \in Copies, NEW s \in Stages, PassOn(c, s) PROVE WholeInv'
  BY Zenon, <1>5, WholeMove DEF PassOn, NextStage, Purging, Stages
<1>6. ASSUME NEW c \in Copies, NEW s \in Stages, Purge(c, s) PROVE WholeInv'
  <2>1. UNCHANGED <<object, index>>
    BY Zenon, <1>6 DEF Purge
  <2>. Winner(c)
    BY <1>6 DEF Purge, Winner, Purging
  <2>2. \A d \in Copies : d = c \/ at'[d] = at[d] \/ at'[d] = <<"end", "purged">>
    BY Zenon, <1>6 DEF Purge
  <2>3. at'[c] # <<"response", "read">>
    BY <1>6 DEF Purge
  <2>4. at'[c] # <<"response", "full">> /\ \A d \in Copies : Winner(d)' => Winner(d)
    BY <1>6, <2>1, <2>2 DEF Purge, Winner, Purging
  <2> QED
    BY <2>1, <2>2, <2>3, <2>4 DEF WholeInv
<1>7. ASSUME NEW c \in Copies, Connect(c) PROVE WholeInv'
  <2>1. CASE UNCHANGED at
    BY Zenon, <1>7, <2>1 DEF Connect, WholeInv, Winner
  <2>2. CASE Move(c, <<"connect", "epoll">>)
    BY <1>7, <2>2, WholeMove DEF Connect, Purging
  <2> QED
    BY <1>7, <2>1, <2>2 DEF Connect
<1>8. ASSUME NEW c \in Copies, Send(c) PROVE WholeInv'
  <2>1. CASE UNCHANGED at
    BY Zenon, <1>8, <2>1 DEF Send, WholeInv, Winner
  <2>2. CASE Move(c, <<"request", "epoll">>)
    BY <1>8, <2>2, WholeMove DEF Send, Purging
  <2> QED
    BY Zenon, <1>8, <2>1, <2>2 DEF Send
<1>9. ASSUME NEW c \in Copies, ReadHeader(c) \/ ReadOn(c) PROVE WholeInv'
  <2>1. at[c] = <<"response", "go">> /\ at'[c] = <<"response", "read">> /\ object'[c] # "null"
    BY <1>9 DEF ReadHeader, ReadOn, Move, TypeOK
  <2>2. \A d \in Copies : d # c => at'[d] = at[d] /\ object'[d] = object[d] /\ index'[d] = index[d]
    BY Zenon, <1>9 DEF ReadHeader, ReadOn, Move, TypeOK
  <2> QED
    BY <2>1, <2>2 DEF WholeInv, Winner, Purging
<1>16. ASSUME NEW c \in Copies, HeaderAborts(c) PROVE WholeInv'
  BY Zenon, <1>16 DEF HeaderAborts, WholeInv, Winner
<1>10. ASSUME NEW c \in Copies, ReadMore(c) \/ ReadFails(c) PROVE WholeInv'
  <2>1. object' = object /\ object[c] # "null"
    BY Zenon, <1>10 DEF ReadMore, ReadFails, WholeInv
  <2>2. PICK to \in AfterRead : Move(c, to) /\ (to = <<"response", "full">> => IsFull(c))
    BY Zenon, <1>10, ReadLeads
  <2>3. \A d \in Copies : at'[d] = IF d = c THEN to ELSE at[d]
    BY <2>2, MoveMoves
  <2>4. \A d \in Copies : d # c => index'[d] = index[d]
    BY Zenon, <1>10 DEF ReadMore, ReadFails, TypeOK
  <2>5. index'[c] = index[c] \/ index'[c] = index[c] + Arrived(c)
    BY Zenon, <1>10 DEF ReadMore, ReadFails, TypeOK
  <2>6. IsFull(c) => index'[c] = Size
    BY <2>5, ReadRoom, ClientConstants DEF IsFull
  <2> QED
    BY <2>1, <2>2, <2>3, <2>4, <2>6 DEF WholeInv, Winner, Purging, AfterRead
<1>11. ASSUME NEW c \in Copies, Complete(c) PROVE WholeInv'
  BY Zenon, <1>11 DEF Complete, SetPurged, Move, WholeInv, Winner, Purging, TypeOK
<1>12. ASSUME NEW c \in Copies, Done(c) PROVE WholeInv'
  <2>1. /\ at[c] = <<"response", "won">> /\ UNCHANGED <<object, index>>
        /\ at'[c] = <<"purge", "connect">> /\ \A d \in Copies : d # c => at'[d] = at[d]
    BY <1>12 DEF Done, Move, TypeOK
  <2> QED
    BY <2>1 DEF WholeInv, Winner, Purging, Stages
<1>13. ASSUME NEW c \in Copies, NEW s \in Stages, NEW e \in BOOLEAN, Callback(c, s, e)
       PROVE  WholeInv'
  BY Zenon, <1>13, WholeMove DEF Callback, IfNotPurged, Purging, Stages
<1>14. ASSUME NEW c \in Copies,
              SendFile(c) \/ Close(c) \/ \E a \in Answers : Answer(c, a)
       PROVE  WholeInv'
  BY Zenon, <1>14 DEF SendFile, Close, Answer, WholeInv, Winner
<1>15. CASE UNCHANGED vars
  BY Zenon, <1>15 DEF vars, WholeInv, Winner
<1> QED
  BY Zenon, <1>1, <1>2, <1>3, <1>4, <1>5, <1>6, <1>7, <1>8, <1>9, <1>10, <1>11, <1>12,
     <1>13, <1>14, <1>15, <1>16, StepCases

-------------------------------------------------------------------------------
\* A step that moves one copy, which does nothing for its request, and not to a
\* place where it would.
LEMMA StopMove ==
  ASSUME TypeOK, StopInv, NEW c \in Copies, NEW to, Move(c, to), UNCHANGED late,
         \A t \in Tasks : purged[t] => purged'[t],
         to \in Stages \X {"go", "called"} => ~purged[c[1]]
  PROVE  StopInv'
<1>1. \A d \in Copies : at'[d] = IF d = c THEN to ELSE at[d]
  BY MoveMoves
<1> QED
  BY Zenon, <1>1, CopyParts DEF StopInv

\* A step in which a copy acts, that was in a place where it may.
LEMMA StopAct ==
  ASSUME TypeOK, StopInv, NEW c \in Copies, at[c] \in Stages \X {"go", "called"}, Act(c),
         UNCHANGED purged, \A d \in Copies : d # c => at'[d] = at[d],
         late'[c] # 0 => at'[c] \notin Stages \X {"go", "called"}
  PROVE  StopInv'
<1>1. late[c] = 0
  BY Zenon DEF StopInv
<1>2. late'[c] = (IF purged[c[1]] THEN 1 ELSE 0)
  BY <1>1 DEF Act, TypeOK
<1>3. \A d \in Copies : d # c => late'[d] = late[d]
  BY DEF Act, TypeOK
<1> QED
  BY <1>2, <1>3 DEF StopInv

\* Every act of a copy comes after a test of the PurgeState, and uses it up.
LEMMA StopStep == TypeOK /\ StopInv /\ [Next]_vars => StopInv'
<1> SUFFICES ASSUME TypeOK, StopInv, [Next]_vars PROVE StopInv'
  OBVIOUS
<1> USE DEF app, file, server, net
<1>1. ASSUME NEW t \in Tasks, DuplicateAndEnqueue(t) PROVE StopInv'
  <2>1. next[t] \in 0..MaxPriority
    BY <1>1, MaxPrioRange, ClientConstants DEF DuplicateAndEnqueue, TypeOK
  <2> QED
    BY Zenon, <1>1, <2>1, StopMove DEF DuplicateAndEnqueue
<1>2. ASSUME NEW t \in Tasks, Dispatch(t) PROVE StopInv'
  BY Zenon, <1>2 DEF Dispatch, StopInv
<1>3. ASSUME NEW c \in Copies, NEW s \in Stages, Dequeue(c, s) PROVE StopInv'
  BY <1>3, StopMove DEF Dequeue
<1>4. ASSUME NEW c \in Copies, NEW s \in Stages, Check(c, s) PROVE StopInv'
  BY Zenon, <1>4, StopMove DEF Check, IfNotPurged
<1>5. ASSUME NEW c \in Copies, NEW s \in Stages, PassOn(c, s) PROVE StopInv'
  <2>1. at'[c] = <<NextStage(s), "queue">> /\ \A d \in Copies : d # c => at'[d] = at[d]
    BY Zenon, <1>5 DEF PassOn, Move, TypeOK
  <2> QED
    BY <1>5, <2>1, StopAct DEF PassOn
<1>6. ASSUME NEW c \in Copies, NEW s \in Stages, Purge(c, s) PROVE StopInv'
  <2>1. \A d \in Copies : at'[d] = at[d] \/ at'[d] \in Ends \/ at'[d] \in Purging
    BY <1>6 DEF Purge, Ends, Purging, NextStage, Stages, TypeOK
  <2>2. UNCHANGED <<late, purged>>
    BY <1>6 DEF Purge
  <2> QED
    BY Zenon, <2>1, <2>2 DEF StopInv, Ends, Purging, Stages
<1>7. ASSUME NEW c \in Copies, Connect(c) PROVE StopInv'
  <2>1. CASE UNCHANGED <<at, late>>
    BY Zenon, <1>7, <2>1 DEF Connect, StopInv
  <2>2. CASE Move(c, <<"connect", "epoll">>) /\ Act(c)
    <3>1. at'[c] = <<"connect", "epoll">> /\ \A d \in Copies : d # c => at'[d] = at[d]
      BY Zenon, <2>2 DEF Move, TypeOK
    <3> QED
      BY <1>7, <2>2, <3>1, StopAct DEF Connect, Stages
  <2> QED
    BY Zenon, <1>7, <2>1, <2>2 DEF Connect
<1>8. ASSUME NEW c \in Copies, Send(c) PROVE StopInv'
  <2>1. CASE UNCHANGED <<at, late>>
    BY Zenon, <1>8, <2>1 DEF Send, StopInv
  <2>2. CASE Move(c, <<"request", "epoll">>) /\ Act(c)
    <3>1. at'[c] = <<"request", "epoll">> /\ \A d \in Copies : d # c => at'[d] = at[d]
      BY <2>2 DEF Move, TypeOK
    <3> QED
      BY <1>8, <2>2, <3>1, StopAct DEF Send, Stages
  <2> QED
    BY Zenon, <1>8, <2>1, <2>2 DEF Send
<1>9. ASSUME NEW c \in Copies, ReadHeader(c) \/ HeaderAborts(c) \/ ReadOn(c) PROVE StopInv'
  <2>1. CASE UNCHANGED <<at, late>>
    BY Zenon, <1>9, <2>1 DEF ReadHeader, HeaderAborts, ReadOn, StopInv
  <2>2. CASE Move(c, <<"response", "read">>) /\ Act(c)
    <3>1. at'[c] = <<"response", "read">> /\ \A d \in Copies : d # c => at'[d] = at[d]
      BY Zenon, <2>2 DEF Move, TypeOK
    <3> QED
      <4>1. at[c] = <<"response", "go">> /\ UNCHANGED purged
        BY Zenon, <1>9 DEF ReadHeader, HeaderAborts, ReadOn
      <4> QED
        BY <2>2, <3>1, <4>1, StopAct DEF Stages
  <2> QED
    BY Zenon, <1>9, <2>1, <2>2 DEF ReadHeader, HeaderAborts, ReadOn
<1>10. ASSUME NEW c \in Copies, ReadMore(c) \/ ReadFails(c) PROVE StopInv'
  <2>1. UNCHANGED <<late, purged>>
    BY Zenon, <1>10 DEF ReadMore, ReadFails
  <2>2. PICK to \in AfterRead : Move(c, to)
    BY Zenon, <1>10, ReadLeads
  <2> QED
    BY <2>1, <2>2, StopMove DEF AfterRead
<1>11. ASSUME NEW c \in Copies, Complete(c) PROVE StopInv'
  <2>1. \A t \in Tasks : purged[t] => purged'[t]
    BY Zenon, <1>11 DEF Complete, SetPurged, TypeOK
  <2> QED
    BY <1>11, <2>1, StopMove DEF Complete, SetPurged
<1>12. ASSUME NEW c \in Copies, Done(c) PROVE StopInv'
  BY <1>12, StopMove DEF Done, Stages
<1>13. ASSUME NEW c \in Copies, NEW s \in Stages, NEW e \in BOOLEAN, Callback(c, s, e)
       PROVE  StopInv'
  BY Zenon, <1>13, StopMove DEF Callback, IfNotPurged
<1>14. ASSUME NEW c \in Copies,
              SendFile(c) \/ Close(c) \/ \E a \in Answers : Answer(c, a)
       PROVE  StopInv'
  BY Zenon, <1>14 DEF SendFile, Close, Answer, StopInv
<1>15. CASE UNCHANGED vars
  BY <1>15 DEF vars, StopInv
<1> QED
  BY Zenon, <1>1, <1>2, <1>3, <1>4, <1>5, <1>6, <1>7, <1>8, <1>9, <1>10, <1>11,
     <1>12, <1>13, <1>14, <1>15, StepCases

-------------------------------------------------------------------------------
\* A step that keeps the PurgeStates and the winners, and purges only copies of a
\* request whose PurgeState is set.
LEMMA PurgeFrame ==
  ASSUME PurgeInv, UNCHANGED purged, \A d \in Copies : Winner(d) => Winner(d)',
         \A d \in Copies : at'[d] = <<"end", "purged">> => at[d] = <<"end", "purged">> \/ purged[d[1]]
  PROVE  PurgeInv'
  BY Zenon DEF PurgeInv

\* A copy at these places is not a winner.
LEMMA NotYetWinner ==
  ASSUME NEW c \in Copies, NEW s \in Stages, NEW w \in {"queue", "got", "go", "read", "full", "epoll", "called"},
         at[c] = <<s, w>>
  PROVE  ~Winner(c)
  BY DEF Winner, Purging, Stages

\* A step that moves one copy, which is not a winner.
LEMMA PurgeMove ==
  ASSUME TypeOK, PurgeInv, UNCHANGED purged, NEW c \in Copies, NEW to, Move(c, to), ~Winner(c),
         to = <<"end", "purged">> => purged[c[1]]
  PROVE  PurgeInv'
<1>1. \A d \in Copies : at'[d] = IF d = c THEN to ELSE at[d]
  BY MoveMoves
<1>2. \A d \in Copies : Winner(d) => Winner(d)'
  BY Zenon, <1>1 DEF Winner
<1> QED
  BY Zenon, <1>1, <1>2, PurgeFrame

\* The copy that sets the PurgeState becomes a winner and stays one, and its Purge
\* reaches copies of its own request only.
LEMMA PurgeStep ==
  ASSUME \A t, u \in Tasks : JobId[t] = JobId[u] => t = u,
         TypeOK, FreshInv, OnceInv, PurgeInv, [Next]_vars
  PROVE  PurgeInv'
<1> USE DEF app, file, server, net
<1>1. ASSUME NEW t \in Tasks, DuplicateAndEnqueue(t) PROVE PurgeInv'
  <2>1. next[t] \in 0..MaxPriority
    BY <1>1, MaxPrioRange, ClientConstants DEF DuplicateAndEnqueue, TypeOK
  <2>2. at[<<t, next[t]>>] = New
    BY <2>1 DEF FreshInv
  <2>3. ~Winner(<<t, next[t]>>)
    BY <2>2 DEF Winner, New, Purging
  <2> QED
    BY Zenon, <1>1, <2>1, <2>3, PurgeMove DEF DuplicateAndEnqueue
<1>2. ASSUME NEW t \in Tasks, Dispatch(t) PROVE PurgeInv'
  BY Zenon, <1>2, PurgeFrame DEF Dispatch, Winner
<1>3. ASSUME NEW c \in Copies, NEW s \in Stages, Dequeue(c, s) PROVE PurgeInv'
  BY Zenon, <1>3, NotYetWinner, PurgeMove DEF Dequeue
<1>4. ASSUME NEW c \in Copies, NEW s \in Stages, Check(c, s) PROVE PurgeInv'
  BY Zenon, <1>4, NotYetWinner, PurgeMove DEF Check, IfNotPurged
<1>5. ASSUME NEW c \in Copies, NEW s \in Stages, PassOn(c, s) PROVE PurgeInv'
  BY Zenon, <1>5, NotYetWinner, PurgeMove DEF PassOn
<1>6. ASSUME NEW c \in Copies, NEW s \in Stages, Purge(c, s) PROVE PurgeInv'
  <2>1. purged' = purged /\ at[c] = <<"purge", s>> /\ at[c] \in Purging
    BY <1>6 DEF Purge, Purging
  <2>2. Winner(c)' /\ at'[c] # <<"end", "purged">>
    BY <1>6 DEF Purge, Winner, Purging, Stages, NextStage
  <2>3. ASSUME NEW d \in Copies, d # c
        PROVE  at'[d] = at[d] \/ (at[d] = <<s, "queue">> /\ JobId[d[1]] = JobId[c[1]])
    BY Zenon, <1>6, <2>3 DEF Purge, Purges
  <2>4. \A d \in Copies : Winner(d) => Winner(d)'
    <3>1. ASSUME NEW d \in Copies, Winner(d), d # c PROVE at'[d] = at[d]
      <4>1. at[d] # <<s, "queue">>
        BY Zenon, <3>1, NotYetWinner
      <4> QED
        BY <2>3, <3>1, <4>1
    <3> QED
      BY Zenon, <2>2, <3>1 DEF Winner
  <2>5. purged[c[1]]
    BY <2>1 DEF OnceInv, Winner
  <2>6. ASSUME NEW d \in Copies, at'[d] = <<"end", "purged">>, at[d] # <<"end", "purged">>
        PROVE  purged[d[1]]
    <3>1. JobId[d[1]] = JobId[c[1]]
      BY <2>2, <2>3, <2>6
    <3>2. d[1] = c[1]
      BY Zenon, <3>1, CopyParts
    <3> QED
      BY Zenon, <2>5, <3>2
  <2> QED
    BY <2>1, <2>4, <2>6, PurgeFrame
<1>7. ASSUME NEW c \in Copies, Connect(c) PROVE PurgeInv'
  <2>1. CASE UNCHANGED at
    BY Zenon, <1>7, <2>1, PurgeFrame DEF Connect, Winner
  <2>2. CASE Move(c, <<"connect", "epoll">>)
    BY <1>7, <2>2, PurgeMove DEF Connect, Winner, Purging
  <2> QED
    BY Zenon, <1>7, <2>1, <2>2 DEF Connect
<1>8. ASSUME NEW c \in Copies, Send(c) PROVE PurgeInv'
  <2>1. CASE UNCHANGED at
    BY Zenon, <1>8, <2>1, PurgeFrame DEF Send, Winner
  <2>2. CASE Move(c, <<"request", "epoll">>)
    BY <1>8, <2>2, PurgeMove DEF Send, Winner, Purging
  <2> QED
    BY Zenon, <1>8, <2>1, <2>2 DEF Send
<1>9. ASSUME NEW c \in Copies, ReadHeader(c) \/ HeaderAborts(c) \/ ReadOn(c) PROVE PurgeInv'
  <2>1. at[c] = <<"response", "go">> /\ purged' = purged
    BY Zenon, <1>9 DEF ReadHeader, HeaderAborts, ReadOn
  <2>2. CASE UNCHANGED at
    BY Zenon, <2>1, <2>2, PurgeFrame DEF Winner
  <2>3. CASE Move(c, <<"response", "read">>)
    BY <2>1, <2>3, PurgeMove DEF Winner, Purging
  <2> QED
    BY Zenon, <1>9, <2>2, <2>3 DEF ReadHeader, HeaderAborts, ReadOn
<1>10. ASSUME NEW c \in Copies, ReadMore(c) \/ ReadFails(c) PROVE PurgeInv'
  <2>1. at[c] = <<"response", "read">> /\ purged' = purged
    BY Zenon, <1>10 DEF ReadMore, ReadFails
  <2>2. ~Winner(c)
    BY <2>1 DEF Winner, Purging
  <2>3. PICK to \in AfterRead : Move(c, to)
    BY Zenon, <1>10, ReadLeads
  <2> QED
    BY <2>1, <2>2, <2>3, PurgeMove DEF AfterRead
<1>11. ASSUME NEW c \in Copies, Complete(c) PROVE PurgeInv'
  <2>1. CASE purged[c[1]]
    <3>1. purged' = purged
      BY <1>11, <2>1 DEF Complete, SetPurged, TypeOK
    <3> QED
      BY <1>11, <2>1, <3>1, PurgeMove DEF Complete, SetPurged, Winner, Purging
  <2>2. CASE ~purged[c[1]]
    <3>1. \A d \in Copies : at'[d] = IF d = c THEN <<"response", "won">> ELSE at[d]
      BY <1>11, <2>2, MoveMoves DEF Complete, SetPurged
    <3>2. \A t \in Tasks : purged'[t] = (purged[t] \/ t = c[1])
      BY Zenon, <1>11 DEF Complete, SetPurged, TypeOK
    <3>3. Winner(c)' /\ \A d \in Copies : Winner(d) => Winner(d)'
      BY <3>1 DEF Winner
    <3>4. \A t \in Tasks : purged'[t] => \E d \in Copies : d[1] = t /\ Winner(d)'
      BY Zenon, <3>2, <3>3 DEF PurgeInv
    <3>5. \A d \in Copies : at'[d] = <<"end", "purged">> => at[d] = <<"end", "purged">>
      BY <3>1
    <3>6. \A d \in Copies : at'[d] = <<"end", "purged">> => purged'[d[1]]
      BY Zenon, <3>2, <3>5, CopyParts DEF PurgeInv
    <3> QED
      BY Zenon, <3>4, <3>6 DEF PurgeInv
  <2> QED
    BY Zenon, <2>1, <2>2
<1>12. ASSUME NEW c \in Copies, Done(c) PROVE PurgeInv'
  <2>1. purged' = purged /\ \A d \in Copies : at'[d] = IF d = c THEN <<"purge", "connect">> ELSE at[d]
    BY Zenon, <1>12, MoveMoves DEF Done
  <2>2. at'[c] \in Purging
    BY <2>1 DEF Purging, Stages
  <2>3. \A d \in Copies : Winner(d) => Winner(d)'
    BY Zenon, <2>1, <2>2 DEF Winner
  <2> QED
    BY <2>1, <2>3, PurgeFrame
<1>13. ASSUME NEW c \in Copies, NEW s \in Stages, NEW e \in BOOLEAN,
              at[c] = <<s, "epoll">>, Callback(c, s, e)
       PROVE  PurgeInv'
  BY Zenon, <1>13, NotYetWinner, PurgeMove DEF Callback, IfNotPurged
<1>14. ASSUME NEW c \in Copies,
              SendFile(c) \/ Close(c) \/ \E a \in Answers : Answer(c, a)
       PROVE  PurgeInv'
  BY Zenon, <1>14, PurgeFrame DEF SendFile, Close, Answer, Winner
<1>15. CASE UNCHANGED vars
  BY <1>15, PurgeFrame DEF vars, Winner
<1>16. ASSUME NEW c \in Copies, NEW s \in Stages, Dequeue(c, s) \/ Check(c, s) \/ Purge(c, s) \/ PassOn(c, s)
       PROVE  PurgeInv'
  BY Zenon, <1>3, <1>4, <1>5, <1>6, <1>16
<1>17. ASSUME NEW c \in Copies, Connect(c) \/ Send(c) \/ Complete(c) \/ Done(c) PROVE PurgeInv'
  BY Zenon, <1>7, <1>8, <1>11, <1>12, <1>17
<1>18. ASSUME NEW c \in Copies, ReadHeader(c) \/ HeaderAborts(c) \/ ReadOn(c) \/ ReadMore(c) \/ ReadFails(c)
       PROVE  PurgeInv'
  BY Zenon, <1>9, <1>10, <1>18
<1> QED
  BY ONLY Zenon, [Next]_vars, <1>1, <1>2, <1>13, <1>14, <1>15, <1>16, <1>17, <1>18, StepCases

-------------------------------------------------------------------------------
Inv == TypeOK /\ FreshInv /\ OnceInv /\ BufferInv /\ WholeInv /\ StopInv

\* The inductive invariant holds in every reachable state.
THEOREM Invariance == Spec => []Inv
<1>1. Init => Inv
  <2> SUFFICES ASSUME Init PROVE Inv
    OBVIOUS
  <2>1. \A c \in Copies : ~Winner(c) /\ at[c] = New
    BY DEF Init, Winner, New, Purging
  <2>2. OnceInv
    BY <2>1 DEF Init, OnceInv, New
  <2>3. WholeInv
    BY <2>1 DEF Init, WholeInv, New
  <2>5. BufferInv
    BY DEF Init, BufferInv, Blank
  <2>4. StopInv
    BY <2>1 DEF Init, StopInv, New, Stages
  <2> QED
    BY <2>2, <2>3, <2>4, <2>5, TypeInit DEF Inv
<1>2. Inv /\ [Next]_vars => Inv'
  BY Zenon, TypeStep, FreshStep, OnceStep, BufferStep, WholeStep, StopStep DEF Inv
<1> QED
  BY <1>1, <1>2, PTL DEF Spec

\* Every variable has its type.
THEOREM TypeCorrect == Spec => []TypeOK
  BY Invariance, PTL DEF Inv

\* However many copies a request has, and whichever of them complete, in whatever
\* order: SetPurged lets one of them call done.
THEOREM CalledOnce == Spec => []DoneOnce
<1>1. Inv => DoneOnce
  BY Zenon DEF Inv, OnceInv, DoneOnce
<1> QED
  BY <1>1, Invariance, PTL

\* However the bytes arrive, and however often the copy waits in epoll in between,
\* what done is called with is what the server sent, in order and without a gap, from
\* the start_idx to the size_bytes of the header.
THEOREM CalledWithWhatWasSent == Spec => []DoneIsAsSent
<1>1. ASSUME Inv PROVE DoneIsAsSent
  <2> SUFFICES ASSUME NEW c \in Copies, Winner(c) PROVE object[c] # "null" /\ data[c] = AsSent(c)
    BY Zenon DEF DoneIsAsSent
  <2>1. object[c] # "null" /\ index[c] = Size
    BY Zenon, <1>1 DEF Inv, WholeInv
  <2>2. data[c] \in [1..Size -> 0..Size]
    BY Zenon, <1>1 DEF Inv, TypeOK, Buffers
  <2>3. \A k \in 1..Size : data[c][k] = IF StartIdx[c] < k /\ k <= Size THEN k - StartIdx[c] ELSE 0
    <3>1. BufferInv
      BY Zenon, <1>1 DEF Inv
    <3> QED
      BY ONLY <2>1, <3>1, c \in Copies DEF BufferInv
  <2>4. StartIdx[c] \in Nat /\ Size \in Nat
    BY ClientConstants
  <2>5. \A k \in 1..Size : data[c][k] = IF k <= StartIdx[c] THEN 0 ELSE k - StartIdx[c]
    BY <2>3, <2>4
  <2> QED
    BY Zenon, <2>1, <2>2, <2>5 DEF AsSent
<1> QED
  BY <1>1, Invariance, PTL

\* A copy of a complete request does at most one thing more.
THEOREM CopiesStop == Spec => []PurgedCopyStops
<1>1. Inv => PurgedCopyStops
  BY DEF Inv, StopInv, PurgedCopyStops
<1> QED
  BY <1>1, Invariance, PTL

\* When no two requests share a job id, a copy is purged only if another copy of
\* its request has the whole file.
THEOREM PurgesHaveAReason ==
  ASSUME \A t, u \in Tasks : JobId[t] = JobId[u] => t = u
  PROVE  Spec => []PurgedForAReason
<1>1. Init => PurgeInv
  BY DEF Init, PurgeInv, New
<1>2. Inv /\ PurgeInv /\ [Next]_vars => PurgeInv'
  BY PurgeStep DEF Inv
<1>3. PurgeInv => PurgedForAReason
  BY Zenon, CopyParts DEF PurgeInv, PurgedForAReason
<1> QED
  BY <1>1, <1>2, <1>3, Invariance, PTL DEF Spec

-------------------------------------------------------------------------------
(* ThrottlerStats.                                                         *)

StatsTypes ==
  /\ adding \in [Jobs -> {"running", "locked", "ended"}]
  /\ latencies \in [Prios -> Seq(Jobs)] /\ sizes \in [Prios -> Seq(Jobs)]
  /\ stats.sizes \in [Prios -> Seq(Jobs)]
  /\ reported \in [Jobs -> Nat]

\* A list of latencies is ahead of that of the sizes by the job that has the mutex of
\* its priority, if there is one.
PairInv ==
  /\ \A j, k \in Jobs :
       adding[j] = "locked" /\ adding[k] = "locked" /\ PrioOf[j] = PrioOf[k] => j = k
  /\ \A j \in Jobs : adding[j] = "locked" =>
       latencies[PrioOf[j]] = Append(sizes[PrioOf[j]], j)
  /\ \A p \in Prios : (\A j \in Jobs : adding[j] = "locked" => PrioOf[j] # p) =>
       latencies[p] = sizes[p]
  /\ StatsPaired

Listed(j) == j \in Range(sizes[PrioOf[j]])
InHand(j) == j \in Range(stats.sizes[PrioOf[j]])

\* A job is in the list, or in what the callback is about to get, or reported; and in
\* none of these before it has ended.
ReportInv ==
  /\ \A j \in Jobs : adding[j] # "ended" => ~Listed(j) /\ ~InHand(j) /\ reported[j] = 0
  /\ \A j \in Jobs : Listed(j) => ~InHand(j) /\ reported[j] = 0
  /\ \A j \in Jobs : InHand(j) /\ runner = "calling" => reported[j] = 0
  /\ ReportedOnce

StatsInv == StatsTypes /\ PairInv /\ ReportInv

LEMMA NoListsEmpty ==
  /\ NoLists \in [Prios -> Seq(Jobs)]
  /\ \A p \in Prios : NoLists[p] = <<>> /\ Range(NoLists[p]) = {}
BY DEF NoLists, Range

LEMMA RangeOfAppend ==
  ASSUME NEW s \in Seq(Jobs), NEW j \in Jobs
  PROVE  Append(s, j) \in Seq(Jobs) /\ Range(Append(s, j)) = Range(s) \cup {j}
<1>1. /\ Append(s, j) \in Seq(Jobs) /\ Len(s) \in Nat
      /\ DOMAIN Append(s, j) = 1..(Len(s) + 1) /\ DOMAIN s = 1..Len(s)
      /\ Append(s, j)[Len(s) + 1] = j
      /\ \A i \in 1..Len(s) : Append(s, j)[i] = s[i]
  OBVIOUS
<1>2. \A i \in 1..(Len(s) + 1) : i \in 1..Len(s) \/ i = Len(s) + 1
  BY <1>1
<1>3. 1..Len(s) \subseteq 1..(Len(s) + 1) /\ Len(s) + 1 \in 1..(Len(s) + 1)
  BY <1>1
<1>. QED
  BY Zenon, <1>1, <1>2, <1>3 DEF Range

LEMMA StatsStart == StatsInit => StatsInv
<1> SUFFICES ASSUME StatsInit PROVE StatsInv
  BY Zenon
<1>1. \A j \in Jobs : ~Listed(j) /\ ~InHand(j)
  BY StatsConstants, NoListsEmpty DEF StatsInit, Listed, InHand
<1>. QED
  BY <1>1, StatsConstants, NoListsEmpty
  DEF StatsInit, StatsInv, StatsTypes, PairInv, StatsPaired, ReportInv, ReportedOnce

LEMMA AddLatencyKeeps ==
  ASSUME StatsInv, NEW j \in Jobs, AddLatency(j)
  PROVE  StatsInv'
<1>0. /\ PrioOf[j] \in Prios /\ \A k \in Jobs : PrioOf[k] \in Prios
      /\ UNCHANGED <<sizes, runner, stats, reported>>
      /\ adding' = [adding EXCEPT ![j] = "locked"]
      /\ latencies' = [latencies EXCEPT ![PrioOf[j]] = Append(@, j)]
      /\ adding[j] = "running"
      /\ \A k \in Jobs : ~(adding[k] = "locked" /\ PrioOf[k] = PrioOf[j])
  BY Zenon, StatsConstants DEF AddLatency, thread
<1>1. StatsTypes'
  BY Zenon, <1>0, RangeOfAppend DEF StatsInv, StatsTypes
<1>2. PairInv'
  BY Zenon, <1>0 DEF StatsInv, StatsTypes, PairInv, StatsPaired
<1>3. ReportInv'
  BY Zenon, <1>0 DEF StatsInv, StatsTypes, ReportInv, Listed, InHand, ReportedOnce
<1>. QED
  BY Zenon, <1>1, <1>2, <1>3 DEF StatsInv

LEMMA AddSizeKeeps ==
  ASSUME StatsInv, NEW j \in Jobs, AddSize(j)
  PROVE  StatsInv'
<1>0. /\ PrioOf[j] \in Prios /\ \A k \in Jobs : PrioOf[k] \in Prios
      /\ UNCHANGED <<latencies, runner, stats, reported>>
      /\ adding' = [adding EXCEPT ![j] = "ended"]
      /\ sizes' = [sizes EXCEPT ![PrioOf[j]] = Append(@, j)]
      /\ adding[j] = "locked"
  BY Zenon, StatsConstants DEF AddSize, thread
<1>1. StatsTypes'
  BY Zenon, <1>0, RangeOfAppend DEF StatsInv, StatsTypes
<1>2. PairInv'
  BY Zenon, <1>0 DEF StatsInv, StatsTypes, PairInv, StatsPaired
<1>3. \A k \in Jobs : /\ InHand(k)' <=> InHand(k)
                      /\ k # j => (Listed(k)' <=> Listed(k))
  BY <1>0, RangeOfAppend DEF StatsInv, StatsTypes, Listed, InHand
<1>4. ReportInv'
  BY Zenon, <1>0, <1>3 DEF StatsInv, StatsTypes, ReportInv, ReportedOnce
<1>. QED
  BY <1>1, <1>2, <1>4 DEF StatsInv

\* Emptying the lists, under the exclusive lock.
LEMMA EmptyLists ==
  ASSUME StatsInv, UpdaterLock, latencies' = NoLists, sizes' = NoLists,
         UNCHANGED <<adding, reported>>
  PROVE  /\ latencies' \in [Prios -> Seq(Jobs)] /\ sizes' \in [Prios -> Seq(Jobs)]
         /\ \A p \in Prios : latencies'[p] = sizes'[p]
         /\ \A j \in Jobs : ~Listed(j)' /\ adding'[j] # "locked"
         /\ \A p \in Prios : latencies[p] = sizes[p]
<1>1. latencies' \in [Prios -> Seq(Jobs)] /\ sizes' \in [Prios -> Seq(Jobs)]
  BY Zenon, NoListsEmpty
<1>2. \A p \in Prios : latencies'[p] = sizes'[p]
  BY Zenon
<1>3. \A j \in Jobs : ~Listed(j)' /\ adding'[j] # "locked"
  BY StatsConstants, NoListsEmpty DEF UpdaterLock, Listed
<1>4. \A p \in Prios : latencies[p] = sizes[p]
  BY Zenon DEF StatsInv, PairInv, UpdaterLock
<1>. QED
  BY Zenon, <1>1, <1>2, <1>3, <1>4

LEMMA StartKeeps ==
  ASSUME StatsInv, Start
  PROVE  StatsInv'
<1>1. /\ UpdaterLock /\ latencies' = NoLists /\ sizes' = NoLists /\ runner' = "loop"
      /\ UNCHANGED <<adding, stats, reported>>
  BY Zenon DEF Start
<1>2. \A j \in Jobs : InHand(j)' <=> InHand(j)
  BY Zenon, <1>1 DEF InHand
<1>. QED
  BY Zenon, <1>1, <1>2, EmptyLists
  DEF StatsInv, StatsTypes, PairInv, StatsPaired, ReportInv, ReportedOnce

LEMMA AwakeKeeps ==
  ASSUME StatsInv, Awake
  PROVE  StatsInv'
<1>1. /\ UpdaterLock /\ latencies' = NoLists /\ sizes' = NoLists /\ runner' = "calling"
      /\ stats' = [latencies |-> latencies, sizes |-> sizes]
      /\ UNCHANGED <<adding, reported>>
  BY Zenon DEF Awake, Take
<1>2. latencies = sizes
  <2>1. \A p \in Prios : latencies[p] = sizes[p]
    BY Zenon, <1>1, EmptyLists
  <2>. QED
    BY <2>1 DEF StatsInv, StatsTypes
<1>3. \A j \in Jobs : InHand(j)' <=> Listed(j)
  BY Zenon, <1>1 DEF InHand, Listed
<1>4. StatsTypes' /\ PairInv'
  BY Zenon, <1>1, <1>2, EmptyLists DEF StatsInv, StatsTypes, PairInv, StatsPaired
<1>. QED
  BY Zenon, <1>1, <1>3, <1>4, EmptyLists DEF StatsInv, ReportInv, ReportedOnce

LEMMA CallKeeps ==
  ASSUME StatsInv, Call
  PROVE  StatsInv'
<1>1. /\ runner = "calling" /\ runner' = "loop"
      /\ UNCHANGED <<adding, latencies, sizes, stats>>
      /\ reported' = [j \in Jobs |-> reported[j] + (IF InHand(j) THEN 1 ELSE 0)]
  BY Zenon DEF Call, lists, InHand
<1>2. \A j \in Jobs : /\ InHand(j)' <=> InHand(j)
                      /\ Listed(j)' <=> Listed(j)
  BY Zenon, <1>1 DEF InHand, Listed
<1>3. \A j \in Jobs : /\ reported'[j] \in Nat
                      /\ InHand(j) => reported[j] = 0 /\ reported'[j] = 1
                      /\ ~InHand(j) => reported'[j] = reported[j]
  <2>1. \A j \in Jobs : /\ reported'[j] = reported[j] + (IF InHand(j) THEN 1 ELSE 0)
                        /\ reported[j] \in Nat /\ (InHand(j) => reported[j] = 0)
    BY Zenon, <1>1 DEF StatsInv, StatsTypes, ReportInv
  <2>. QED
    BY <2>1
<1>4. StatsTypes' /\ PairInv'
  BY Zenon, <1>1, <1>3 DEF StatsInv, StatsTypes, PairInv, StatsPaired
<1>5. ReportedOnce'
  <2>1. ReportedOnce
    BY Zenon DEF StatsInv, ReportInv
  <2>. QED
    BY <1>3, <2>1 DEF ReportedOnce
<1>6. \A j \in Jobs : /\ adding[j] # "ended" => ~Listed(j) /\ ~InHand(j) /\ reported[j] = 0
                      /\ Listed(j) => ~InHand(j) /\ reported[j] = 0
  BY Zenon DEF StatsInv, ReportInv
<1>7. runner' # "calling"
  BY Zenon, <1>1
<1>. QED
  BY <1>1, <1>2, <1>3, <1>4, <1>5, <1>6, <1>7 DEF StatsInv, ReportInv

\* The steps that touch neither lists nor reports.
LEMMA StatsFrame ==
  ASSUME StatsInv, UNCHANGED <<adding, latencies, sizes, stats, reported>>,
         runner' = "calling" => runner = "calling"
  PROVE  StatsInv'
BY Zenon DEF StatsInv, StatsTypes, PairInv, StatsPaired, ReportInv, ReportedOnce, Listed, InHand

LEMMA StatsStep ==
  ASSUME StatsInv, [StatsNext]_statvars
  PROVE  StatsInv'
<1>1. ASSUME NEW j \in Jobs, AddLatency(j) \/ AddSize(j) PROVE StatsInv'
  BY Zenon, <1>1, AddLatencyKeeps, AddSizeKeeps
<1>2. CASE RunEveryT \/ Destroy \/ Application
  BY <1>2, StatsFrame DEF RunEveryT, Destroy, Application, RunnerJoined, Created, Destroyed, lists
<1>3. CASE Start
  BY <1>3, StartKeeps
<1>4. CASE Loop
  BY Zenon, <1>4, StatsFrame DEF Loop, AfterLoop, lists
<1>5. CASE Awake
  BY <1>5, AwakeKeeps
<1>6. CASE Call
  BY <1>6, CallKeeps
<1>7. CASE UNCHANGED statvars
  BY Zenon, <1>7, StatsFrame DEF statvars, lists, thread
<1>. QED
  BY Zenon, <1>1, <1>2, <1>3, <1>4, <1>5, <1>6, <1>7 DEF StatsNext, Runner

\* The callback of RunEveryT finds latency and size of a job at the same position of
\* its two lists, however AddStat and Runner interleave, for any number of jobs.
THEOREM ListsArePaired == StatsSpec => []StatsPaired
<1>1. StatsInv => StatsPaired
  BY Zenon DEF StatsInv, PairInv
<1>. QED
  BY <1>1, StatsStart, StatsStep, PTL DEF StatsSpec

\* The callback of RunEveryT is told of no job twice, through any number of updater
\* threads that follow each other.
THEOREM NoneReportedTwice == StatsSpec => []ReportedOnce
<1>1. StatsInv => ReportedOnce
  BY DEF StatsInv, ReportInv
<1>. QED
  BY <1>1, StatsStart, StatsStep, PTL DEF StatsSpec

===============================================================================

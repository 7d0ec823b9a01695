------------------------------ MODULE FileClient ------------------------------
(***************************************************************************)
(* The file client: client_connect_handler.cc, client_request_handler.cc   *)
(* and client_response_handler.cc chained behind one another, with the     *)
(* PurgeState that the duplicates of a request share.                      *)
(*                                                                         *)
(* A request is dispatched as copies of decreasing priority.  Each copy    *)
(* connects, asks for the file and reads it; the first to have it all      *)
(* calls done and purges the others.  Purging is a flag, tested before     *)
(* every step, and then a Purge of the three queues one after another.     *)
(*                                                                         *)
(* The servers are not part of the repository: they answer, in parts or    *)
(* whole, send, close or stay silent as they like.  A byte is the number   *)
(* it has in what its server sent after the header, and 0 was never        *)
(* written.                                                                *)
(*                                                                         *)
(* A copy is owned by one party at a time, so its place says all: the      *)
(* queue of a stage, the worker of that stage and priority, the epoll set, *)
(* or the thread of the communication handler.  A queue is a set: the      *)
(* properties do not depend on the order in it (MultiQueue has the order). *)
(* Some definitions are preceded by a variant with a slip in it, which     *)
(* nothing uses: the properties are checked to fail with the variant.      *)
(***************************************************************************)
EXTENDS Naturals

CONSTANTS
  Tasks,         \* the requests of the application
  MaxPriority,   \* _max_priority
  Priority,      \* [Tasks -> the priority of the request]
  Duplication,   \* [Tasks -> requested_duplication]
  JobId,         \* [Tasks -> job_id]
  Word,          \* unsigned arithmetic is modulo Word
  Size,          \* the size_bytes of every file
  StartIdx,      \* [Copies -> the start_idx its server answers with]
  Faults         \* what can go wrong in the network

FaultKinds == {"connect_now", "refused", "reset", "closed", "no_header", "part", "zero", "reject"}

ASSUME ClientConstants ==
  /\ MaxPriority \in Nat /\ Size \in Nat \ {0} /\ Word \in Nat \ {0}
  /\ MaxPriority < Word
  /\ Priority \in [Tasks -> 0..MaxPriority]
  /\ Duplication \in [Tasks -> 0..(Word - 1)]
  /\ StartIdx \in [Tasks \X (0..MaxPriority) -> 0..Size]
  /\ Faults \subseteq FaultKinds

Copies == Tasks \X (0..MaxPriority)
Stages == {"connect", "request", "response"}

VARIABLES
  asked,    \* [Tasks -> whether the application has called Dispatch]
  next,     \* [Tasks -> the priority of the next copy to enqueue]
  at,       \* [Copies -> <<stage, place>>]
  purged,   \* [Tasks -> purge_state]
  calls,    \* [Tasks -> the calls of done]
  object,   \* [Copies -> whether it has a buffer, or "null"]
  data,     \* [Copies -> what is in the buffer]
  index,    \* [Copies -> where the next byte goes]
  header,   \* [Copies -> the answer of its server, "none" once it is asked]
  sent,     \* [Copies -> the bytes its server has written after the header]
  taken,    \* [Copies -> those of them that were read]
  open,     \* [Copies -> whether its server has not closed the connection]
  aborted,  \* a CHECK has failed, and which
  late      \* [Copies -> what it did for a request that is complete]

server == <<header, sent, open>>
net == <<server, aborted>>
file == <<object, data, index, taken>>
app == <<asked, next>>
vars == <<app, at, purged, calls, file, net, late>>

Buffers == [1..Size -> 0..Size]
Blank == [k \in 1..Size |-> 0]

Places == Stages \X {"queue", "got", "go", "read", "full", "won", "epoll", "called"}
Purging == {"purge"} \X Stages
Ends == {"end"} \X {"done", "beaten", "purged", "failed"}
New == <<"app", "new">>

TypeOK ==
  /\ asked \in [Tasks -> BOOLEAN]
  /\ next \in [Tasks -> 0..(MaxPriority + 1)]
  /\ at \in [Copies -> Places \cup Purging \cup Ends \cup {New}]
  /\ purged \in [Tasks -> BOOLEAN]
  /\ calls \in [Tasks -> Nat]
  /\ object \in [Copies -> {"null", "buffer"}]
  /\ data \in [Copies -> Buffers]
  /\ index \in [Copies -> 0..Size]
  /\ header \in [Copies -> {"unasked", "none", "part", "zero", "accept", "reject"}]
  /\ sent \in [Copies -> 0..Size]
  /\ taken \in [Copies -> 0..Size]
  /\ open \in [Copies -> BOOLEAN]
  /\ aborted \in {"no", "dispatch", "connect", "send", "header"}
  /\ late \in [Copies -> Nat]

Init ==
  /\ asked = [t \in Tasks |-> FALSE]
  /\ next = Priority
  /\ at = [c \in Copies |-> New]
  /\ purged = [t \in Tasks |-> FALSE]
  /\ calls = [t \in Tasks |-> 0]
  /\ object = [c \in Copies |-> "null"]
  /\ data = [c \in Copies |-> Blank]
  /\ index = [c \in Copies |-> 0]
  /\ header = [c \in Copies |-> "unasked"]
  /\ sent = [c \in Copies |-> 0]
  /\ taken = [c \in Copies |-> 0]
  /\ open = [c \in Copies |-> TRUE]
  /\ aborted = "no"
  /\ late = [c \in Copies |-> 0]

-------------------------------------------------------------------------------
Move(c, to) == at' = [at EXCEPT ![c] = to]

\* The copy does something for its request: connects, sends, reads, moves on.
Act(c) == late' = [late EXCEPT ![c] = IF purged[c[1]] THEN @ + 1 ELSE @]

\* The worker of this stage and priority has a job in hand.
Busy(s, p) ==
  \E c \in Copies : /\ c[2] = p
                    /\ \/ at[c] \in {s} \X {"got", "go", "read", "full", "won"}
                       \/ s = "response" /\ at[c] \in Purging

\* The communication handler has one thread, and it is in a callback.
InCallback == \E c \in Copies : at[c] \in Stages \X {"called"}

Answered(c) == header[c] \in {"accept", "reject"}

HasInput(c) == \/ object[c] = "null" /\ header[c] \notin {"unasked", "none"}
               \/ object[c] # "null" /\ sent[c] > taken[c]
Readable(c) == HasInput(c) \/ ~open[c]

-------------------------------------------------------------------------------
\* Dispatcher::Dispatch: the lowest priority that gets a copy.
MaxPrio(t) ==
  LET sum == (Priority[t] + Duplication[t]) % Word
  IN  IF sum > MaxPriority THEN MaxPriority ELSE sum

\* DuplicateAndEnqueue: there must be an address for every copy; then one turn
\* of its loop at a time.
AnyAddresses(t) == TRUE
EnoughAddresses(t) == MaxPriority + 1 > (MaxPrio(t) + Word - Priority[t]) % Word

Dispatch(t) ==
  /\ ~asked[t]
  /\ asked' = [asked EXCEPT ![t] = TRUE]
  /\ aborted' = IF EnoughAddresses(t) THEN aborted ELSE "dispatch"
  /\ UNCHANGED <<next, at, purged, calls, file, server, late>>

DuplicateAndEnqueue(t) ==
  /\ asked[t] /\ next[t] <= MaxPrio(t)
  /\ Move(<<t, next[t]>>, <<"connect", "queue">>)
  /\ next' = [next EXCEPT ![t] = @ + 1]
  /\ UNCHANGED <<asked, purged, calls, file, net, late>>

\* A stage's worker dequeues a copy, and then tests whether it was purged.
Dequeue(c, s) ==
  /\ at[c] = <<s, "queue">>
  /\ ~Busy(s, c[2])
  /\ Move(c, <<s, "got">>)
  /\ UNCHANGED <<app, purged, calls, file, net, late>>

IfNotPurged(c, to) ==
  Move(c, IF purged[c[1]] THEN <<"end", "purged">> ELSE to)

Check(c, s) ==
  /\ at[c] = <<s, "got">>
  /\ IfNotPurged(c, <<s, "go">>)
  /\ UNCHANGED <<app, purged, calls, file, net, late>>

\* ConnectCallback, RequestCallback and ResponseCallback up to the Dispatch.
CallbackUnchecked(c, s, err) ==
  /\ Move(c, IF err THEN <<"end", "failed">> ELSE <<s, "called">>)
  /\ UNCHANGED <<app, purged, calls, file, net, late>>
Callback(c, s, err) ==
  /\ IF err THEN Move(c, <<"end", "failed">>) ELSE IfNotPurged(c, <<s, "called">>)
  /\ UNCHANGED <<app, purged, calls, file, net, late>>

\* The Dispatch to the next stage, or back to the response stage.
NextStage(s) == IF s = "connect" THEN "request" ELSE "response"

PassOn(c, s) ==
  /\ at[c] = <<s, "called">>
  /\ Move(c, <<NextStage(s), "queue">>)
  /\ Act(c)
  /\ UNCHANGED <<app, purged, calls, file, net>>

-------------------------------------------------------------------------------
\* Connect: the socket goes to epoll.  When connect() does not answer "in
\* progress" it calls back at once, ready for nothing and without an error.
Connect(c) ==
  /\ at[c] = <<"connect", "go">>
  /\ \/ Move(c, <<"connect", "epoll">>) /\ Act(c) /\ UNCHANGED aborted
     \/ "connect_now" \in Faults /\ aborted' = "connect" /\ UNCHANGED <<at, late>>
  /\ UNCHANGED <<app, purged, calls, file, server>>

Connected(c) ==
  /\ at[c] = <<"connect", "epoll">>
  /\ ~InCallback
  /\ \/ Callback(c, "connect", FALSE)
     \/ "refused" \in Faults /\ Callback(c, "connect", TRUE)

\* RequestScheduler sends the request and monitors the socket.  A peer that has
\* closed may make send() fail.
Send(c) ==
  /\ at[c] = <<"request", "go">>
  /\ \/ /\ Move(c, <<"request", "epoll">>)
        /\ Act(c)
        /\ header' = [header EXCEPT ![c] = "none"]
        /\ UNCHANGED aborted
     \/ ~open[c] /\ aborted' = "send" /\ UNCHANGED <<at, late, header>>
  /\ UNCHANGED <<app, purged, calls, file, sent, open>>

Monitored(c, s) ==
  /\ s \in {"request", "response"} /\ at[c] = <<s, "epoll">>
  /\ ~InCallback
  /\ \/ Readable(c) /\ Callback(c, s, FALSE)
     \/ "reset" \in Faults /\ Callback(c, s, TRUE)

-------------------------------------------------------------------------------
\* ResponseScheduler: the header, unless there is a buffer already.  It must come in
\* one read, and announce a size other than 0; its type is only logged.
StartIndexDropped(c) == 0
StartIndex(c) == StartIdx[c]

ReadHeader(c) ==
  /\ at[c] = <<"response", "go">>
  /\ object[c] = "null" /\ Answered(c)
  /\ Act(c)
  /\ object' = [object EXCEPT ![c] = "buffer"]
  /\ index' = [index EXCEPT ![c] = StartIndex(c)]
  /\ Move(c, <<"response", "read">>)
  /\ UNCHANGED <<app, purged, calls, data, taken, net>>

HeaderAborts(c) ==
  /\ at[c] = <<"response", "go">>
  /\ object[c] = "null"
  /\ ~Answered(c) \/ "reset" \in Faults
  /\ aborted' = "header"
  /\ UNCHANGED <<app, at, purged, calls, file, server, late>>

ReadOn(c) ==
  /\ at[c] = <<"response", "go">>
  /\ object[c] # "null"
  /\ Act(c)
  /\ Move(c, <<"response", "read">>)
  /\ UNCHANGED <<app, purged, calls, file, net>>

\* What the next read() returns, and the test whether the last one was the end.
Arrived(c) == IF sent[c] - taken[c] < Size - index[c] THEN sent[c] - taken[c] ELSE Size - index[c]
IsFull(c) == index[c] = Size

\* The loop around read(): what has arrived is taken, as far as there is room; else
\* the file is complete, the connection closed, or it is back to epoll.
ReadMore(c) ==
  /\ at[c] = <<"response", "read">>
  /\ index' = [index EXCEPT ![c] = @ + Arrived(c)]
  /\ taken' = [taken EXCEPT ![c] = @ + Arrived(c)]
  /\ data' = [data EXCEPT ![c] = [k \in 1..Size |->
                IF index[c] < k /\ k <= index[c] + Arrived(c) THEN taken[c] + (k - index[c]) ELSE @[k]]]
  /\ Move(c, CASE Arrived(c) > 0 -> <<"response", "read">>
               [] Arrived(c) = 0 /\ IsFull(c) -> <<"response", "full">>
               [] Arrived(c) = 0 /\ ~IsFull(c) /\ open[c] -> <<"response", "epoll">>
               [] OTHER -> <<"end", "failed">>)
  /\ UNCHANGED <<app, purged, calls, object, net, late>>

\* read() fails: what was read before it may be the whole file.
ReadFails(c) ==
  /\ at[c] = <<"response", "read">>
  /\ "reset" \in Faults
  /\ Move(c, IF IsFull(c) THEN <<"response", "full">> ELSE <<"end", "failed">>)
  /\ UNCHANGED <<app, purged, calls, file, net, late>>

\* SetPurged says whether this copy is the first to complete.
SetPurgedAlways(c) ==
  /\ Move(c, <<"response", "won">>)
  /\ purged' = [purged EXCEPT ![c[1]] = TRUE]
SetPurgedInverted(c) ==
  /\ Move(c, IF purged[c[1]] THEN <<"response", "won">> ELSE <<"end", "beaten">>)
  /\ purged' = [purged EXCEPT ![c[1]] = TRUE]
SetPurged(c) ==
  /\ Move(c, IF purged[c[1]] THEN <<"end", "beaten">> ELSE <<"response", "won">>)
  /\ purged' = [purged EXCEPT ![c[1]] = TRUE]

Complete(c) ==
  /\ at[c] = <<"response", "full">>
  /\ SetPurged(c)
  /\ UNCHANGED <<app, calls, file, net, late>>

Done(c) ==
  /\ at[c] = <<"response", "won">>
  /\ calls' = [calls EXCEPT ![c[1]] = @ + 1]
  /\ Move(c, <<"purge", "connect">>)
  /\ UNCHANGED <<app, purged, file, net, late>>

\* _origin_dstage->Purge: the three queues, the connect stage's first.
Purges(d, c, s) == at[d] = <<s, "queue">> /\ JobId[d[1]] = JobId[c[1]]

Purge(c, s) ==
  /\ at[c] = <<"purge", s>>
  /\ at' = [d \in Copies |->
       CASE d = c -> IF s = "response" THEN <<"end", "done">> ELSE <<"purge", NextStage(s)>>
         [] d # c /\ Purges(d, c, s) -> <<"end", "purged">>
         [] OTHER -> at[d]]
  /\ UNCHANGED <<app, purged, calls, file, net, late>>

-------------------------------------------------------------------------------
\* The server, which is not part of the repository: it answers with a header, of
\* which a part may come first, and bytes of the file, and may close.
Answers == {"part", "zero", "accept", "reject"}

Answer(c, answer) ==
  /\ open[c]
  /\ header[c] = "none" \/ (header[c] = "part" /\ answer # "part")
  /\ answer = "accept" \/ answer \in Faults
  /\ header' = [header EXCEPT ![c] = answer]
  /\ UNCHANGED <<app, at, purged, calls, file, sent, open, aborted, late>>

SendFile(c) ==
  /\ open[c] /\ Answered(c) /\ sent[c] < Size
  /\ sent' = [sent EXCEPT ![c] = @ + 1]
  /\ UNCHANGED <<app, at, purged, calls, file, header, open, aborted, late>>

Close(c) ==
  /\ open[c]
  /\ \/ "closed" \in Faults /\ Answered(c)
     \/ "no_header" \in Faults /\ at[c] \in {"request", "response"} \X {"queue", "got", "go", "epoll"}
  /\ open' = [open EXCEPT ![c] = FALSE]
  /\ UNCHANGED <<app, at, purged, calls, file, header, sent, aborted, late>>

-------------------------------------------------------------------------------
Running == aborted = "no"

Worker(c) ==
  /\ Running
  /\ \/ \E s \in Stages : Dequeue(c, s) \/ Check(c, s) \/ Purge(c, s)
     \/ Connect(c) \/ Send(c)
     \/ ReadHeader(c) \/ HeaderAborts(c) \/ ReadOn(c)
     \/ ReadMore(c) \/ ReadFails(c) \/ Complete(c) \/ Done(c)

Comm(c) ==
  /\ Running
  /\ Connected(c) \/ \E s \in Stages : Monitored(c, s) \/ PassOn(c, s)

Server(c) ==
  /\ Running
  /\ SendFile(c) \/ Close(c) \/ \E answer \in Answers : Answer(c, answer)

Next ==
  \/ \E t \in Tasks : Running /\ (Dispatch(t) \/ DuplicateAndEnqueue(t))
  \/ \E c \in Copies : Worker(c) \/ Comm(c) \/ Server(c)

Spec == Init /\ [][Next]_vars

\* As long as a thread can go on or a socket is ready, one of them moves.  No connection
\* has to fail, no request has to be made, and no server has to answer.
CommReady(c) == Comm(c) /\ at'[c] # <<"end", "failed">>

GoesOn ==
  \/ \E t \in Tasks : Running /\ DuplicateAndEnqueue(t)
  \/ \E c \in Copies : Worker(c) \/ CommReady(c)

FairSpec == Spec /\ WF_vars(GoesOn)

-------------------------------------------------------------------------------
\* The application gets a file once, whatever the copies of its request do:
\* PurgeState lets one of them through.
DoneOnce == \A t \in Tasks : calls[t] <= 1

\* What the application gets is what the server sent, each byte once, in order and at
\* its place, from the announced start_idx to the announced size_bytes, however often
\* the copy went through epoll and the queue in between.  (Before start_idx it is
\* zeros: that a server starts at 0, as it is asked to, is not tested.)
Winner(c) == at[c] = <<"response", "won">> \/ at[c] \in Purging \/ at[c] = <<"end", "done">>

AsSent(c) == [k \in 1..Size |-> IF k <= StartIdx[c] THEN 0 ELSE k - StartIdx[c]]

DoneIsAsSent == \A c \in Copies : Winner(c) => object[c] # "null" /\ data[c] = AsSent(c)

\* Once a request is complete each other copy does at most one thing more: every
\* connect, send, read and Dispatch comes after a test of the PurgeState of its
\* own.  (The test and the act are two steps, so none is not to be had.)
PurgedCopyStops == \A c \in Copies : late[c] <= 1

\* A copy is given up as purged, by its own test of the PurgeState or in one of the
\* queues, only when another copy of its request has the whole file and calls done
\* or has called it.
PurgedForAReason ==
  \A c \in Copies :
    at[c] = <<"end", "purged">> => \E d \in Copies : d[1] = c[1] /\ Winner(d)

\* A copy waits in epoll for a server that neither sends nor closes.
KeptWaiting(c) == at[c] \in {"request", "response"} \X {"epoll"} /\ open[c] /\ ~HasInput(c)

LetDown(c) == at[c] = <<"end", "failed">> \/ KeptWaiting(c)

\* Every request is answered, unless there are copies of it and the network lets every
\* one of them down for good, or a CHECK ends the process.  A request for so many
\* copies that the sum wraps has none, and does end it.
FileArrives ==
  \A t \in Tasks :
    \/ asked[t] ~> calls[t] = 1 \/ ~Running
    \/ <>[](/\ Priority[t] <= MaxPrio(t)
            /\ \A p \in Priority[t]..MaxPrio(t) : LetDown(<<t, p>>))

\* Every copy comes to an end, purged or not, unless its server keeps it waiting for
\* ever or a CHECK ends the process: it is not left in a queue that Purge is done
\* with, nor in epoll when the server has closed.
CopiesEnd ==
  \A c \in Copies :
    \/ at[c] = <<"connect", "queue">> ~> at[c] \in Ends \/ ~Running
    \/ <>[]KeptWaiting(c)

===============================================================================

--------------------------------- MODULE Pipe ---------------------------------
(***************************************************************************)
(* TcpPipe::Pipe and what MonitorCallback makes of its result: the bytes   *)
(* of one peer are read into a buffer and sent to the other, until the     *)
(* reader has nothing more; then the socket is monitored again.            *)
(*                                                                         *)
(* Bytes are numbered in the order in which the peer wrote them; what lies *)
(* outside the bytes just read is Garbage.  Some definitions are preceded  *)
(* by a variant with a slip in it, which nothing uses: the properties are  *)
(* checked to fail with the variant.                                       *)
(***************************************************************************)
EXTENDS Integers, Sequences

CONSTANTS
  Bytes,      \* how much the peer writes
  BufSize,    \* kBufSize
  Soc,        \* the descriptor of the socket that is read
  Word,       \* unsigned arithmetic is modulo Word
  MaxAgain,   \* how often EAGAIN comes unexpected (a bound)
  Faults      \* which of read() and send() may fail

ASSUME PipeConstants ==
  /\ Bytes \in Nat /\ BufSize \in Nat \ {0} /\ Soc \in Nat /\ MaxAgain \in Nat
  /\ Word \in Nat \ {0}
  /\ Faults \subseteq {"read", "send"}

READ_FAIL == 0
SEND_FAIL == 1
TRY_LATER == 2
Garbage == 0

VARIABLES
  pc,          \* "monitor", in Pipe "read" or "send", and then how it ended
  arrived,     \* the bytes in the socket so far
  open,        \* the peer has not closed
  consumed,    \* the bytes read so far
  buf,         \* the bytes read last
  bytes_read,  \* those still to send, as the code counts them
  sent_round,  \* bytes_sent_this_round
  total,       \* total_bytes_piped
  ret,         \* what Pipe returned last,
  failed,      \* ... and for which system call's failure, if any
  delivered,   \* what the other side was sent
  total_completed,  \* of the job
  again        \* the sends that found no room and the events without input

peer == <<arrived, open>>
out == <<delivered, again>>
result == <<ret, failed>>
pipevars == <<pc, peer, consumed, buf, bytes_read, sent_round, total, result, out, total_completed>>

PipeInit ==
  /\ pc = "monitor"
  /\ arrived = 0 /\ open = TRUE /\ consumed = 0
  /\ buf = <<>> /\ bytes_read = 0 /\ sent_round = 0 /\ total = 0 /\ ret = 0 /\ failed = "no"
  /\ delivered = <<>> /\ total_completed = 0 /\ again = 0

-------------------------------------------------------------------------------
\* The socket is monitored for input, which the end of the stream is as well.
IsReadyAtEnd == ~open
IsReady == arrived > consumed \/ ~open

\* EAGAIN where the code does not count on it.
Unexpected == again < MaxAgain /\ again' = again + 1

\* The socket is ready, or is said to be: MonitorCallback calls Pipe.
BecomesReady ==
  /\ pc = "monitor"
  /\ \/ IsReady /\ UNCHANGED again
     \/ arrived = consumed /\ open /\ Unexpected
  /\ pc' = "read"
  /\ total' = 0
  /\ UNCHANGED <<peer, consumed, buf, bytes_read, sent_round, result, delivered, total_completed>>

\* MonitorCallback, with the result: it shuts the other side down, does nothing,
\* or reports the bytes and monitors the socket again.
AfterPipeEnds(r) == IF r > 0 THEN "shutdown" ELSE "monitor"
AfterPipe(r) ==
  CASE r < 0 /\ r # -TRY_LATER -> IF r = -Soc THEN "shutdown" ELSE "dropped"
    [] r = 0 -> "shutdown"
    [] r > 0 \/ r = -TRY_LATER -> "monitor"

ReportThroughput(r) == (total_completed + r) % Word

Return(r, call) ==
  /\ ret' = r
  /\ failed' = call
  /\ pc' = AfterPipe(r)
  /\ total_completed' = IF AfterPipe(r) = "monitor" THEN ReportThroughput(r) ELSE total_completed
  /\ UNCHANGED <<peer, consumed, buf, bytes_read, sent_round, total, out>>

\* The room read() is given.
ReadSize == BufSize

\* read(): some of the bytes that are there, ...
Read ==
  /\ pc = "read"
  /\ \E n \in 1..ReadSize :
       /\ consumed + n <= arrived
       /\ buf' = [i \in 1..n |-> consumed + i]
       /\ bytes_read' = n
       /\ consumed' = consumed + n
  /\ sent_round' = 0
  /\ pc' = "send"
  /\ UNCHANGED <<peer, total, result, out, total_completed>>

\* ... or none: EAGAIN, the end of the stream, an error.
ReadEnds ==
  /\ pc = "read"
  /\ \/ arrived = consumed /\ open /\ Return(IF total = 0 THEN -TRY_LATER ELSE total, "no")
     \/ arrived = consumed /\ ~open /\ Return(0, "no")
     \/ "read" \in Faults /\ Return(-READ_FAIL, "read")

\* What n bytes from buf + sent_round are.
FromStart(n) == [i \in 1..n |-> IF i \in 1..Len(buf) THEN buf[i] ELSE Garbage]
FromBuf(n) ==
  [i \in 1..n |-> IF sent_round + i \in 1..Len(buf) THEN buf[sent_round + i] ELSE Garbage]

\* The bookkeeping after a send(), whose result may be -1.
CountOnce(n) ==
  /\ total' = total + n
  /\ bytes_read' = 0
  /\ sent_round' = n
  /\ pc' = "read"
  /\ UNCHANGED <<peer, consumed, buf, result, total_completed>>
Count(n) ==
  /\ total' = total + n
  /\ bytes_read' = bytes_read - n
  /\ sent_round' = sent_round + n
  /\ pc' = IF bytes_read - n = 0 THEN "read" ELSE "send"
  /\ UNCHANGED <<peer, consumed, buf, result, total_completed>>

\* send() takes some bytes, ...
Send ==
  /\ pc = "send"
  /\ \E n \in 1..bytes_read : Count(n) /\ delivered' = delivered \o FromBuf(n)
  /\ UNCHANGED again

\* ... none for now (EAGAIN), ...
SendStalls ==
  /\ pc = "send"
  /\ Unexpected
  /\ Count(-1)
  /\ UNCHANGED delivered

\* ... or fails.
SendFails == pc = "send" /\ "send" \in Faults /\ Return(-SEND_FAIL, "send")

-------------------------------------------------------------------------------
\* The peer, which is external.
Write ==
  /\ open /\ arrived < Bytes
  /\ arrived' = arrived + 1
  /\ UNCHANGED <<pc, open, consumed, buf, bytes_read, sent_round, total, result, out, total_completed>>

Close ==
  /\ open
  /\ open' = FALSE
  /\ UNCHANGED <<pc, arrived, consumed, buf, bytes_read, sent_round, total, result, out, total_completed>>

Proxy == BecomesReady \/ Read \/ ReadEnds \/ Send \/ SendStalls \/ SendFails

PipeNext == Proxy \/ Write \/ Close

PipeSpec == PipeInit /\ [][PipeNext]_pipevars

\* The executor runs its tasks, and the socket that is sent to drains.
FairPipeSpec == PipeSpec /\ WF_pipevars(Proxy) /\ SF_pipevars(Read) /\ SF_pipevars(Send)

-------------------------------------------------------------------------------
\* "Pipes from connections related to soc to the other": what one side is sent is
\* what the other side wrote, from its first byte on, across any number of reads
\* and partial sends, ...
Piped == delivered = [i \in 1..Len(delivered) |-> i]

\* ... as long as no send() of Pipe finds the socket full.
PipedInOrder == again = 0 => Piped

\* Pipe does not come back with bytes that it has read and not sent, to monitor
\* the socket again or to shut the other side down: its buffer is gone.  And what it
\* returns, "total bytes piped", adds up to the job's throughput.
NothingHeldBack ==
  again = 0 /\ pc \in {"monitor", "shutdown"} /\ failed = "no" =>
    /\ Len(delivered) = consumed
    /\ pc = "monitor" => total_completed = Len(delivered) % Word

\* A peer's bytes get to the other side, unless the pipe comes to an end.
BytesGetThrough ==
  \A n \in 1..Bytes :
    arrived = n ~> Len(delivered) >= n \/ pc \in {"shutdown", "dropped"}

\* When the peer closes, the other side is shut down.
CloseGetsThrough == ~open ~> pc \in {"shutdown", "dropped"}

===============================================================================

------------------------------ MODULE Network -------------------------------
(***************************************************************************)
(* A session seen from the socket: net_send and net_recv call by call, and *)
(* the three programs that use them.  send_over_network of afl-fuzz and    *)
(* aflnet-replay send the messages of a test case one by one, afl-replay   *)
(* sends its file as one. The kernel takes as many bytes at a time as it      *)
(* likes, and the server reads, answers and closes when it likes.          *)
(*                                                                         *)
(* A byte on its way to the server is the number of its message; a byte of *)
(* an answer is the number of the last message the server had read from.   *)
(***************************************************************************)
EXTENDS Integers, Sequences, FiniteSets

CONSTANTS
    TestCases,          \* test cases, as the sizes of their messages
    MaxAnswer,          \* bound: bytes the server writes in a session
    TempBuf,            \* sizeof(temp_buf)
    MaxPacket           \* aflnet-replay gives up on a longer message

VARIABLES
    program,            \* "afl-fuzz", "aflnet-replay" or "afl-replay"
    messages, udp,
    phase,
    io,                 \* where in net_send or net_recv it is, or "none"
    m, byte_count,      \* the message that is sent next, and how much of it is
    messages_sent, response_buf, response_bytes, prev_buf_size, likely_buggy,
    wire, read,         \* sent, and how much of it the server has read
    written, inbox,     \* all that the server wrote, and what has not been received:
                        \* the bytes of a stream, or datagrams
    closed              \* by the server

client == <<phase, io, m, byte_count>>
record == <<messages_sent, response_buf, response_bytes, prev_buf_size, likely_buggy>>
kernel == <<wire, read, written, inbox, closed>>
vars   == <<program, messages, udp, client, record, kernel>>

NULL == <<>>

\* To afl-replay a file is one message.  messages_sent is what the session before left there.
Init ==
    /\ program \in {"afl-fuzz", "aflnet-replay", "afl-replay"}
    /\ messages \in TestCases /\ (program = "afl-replay" => Len(messages) = 1)
    /\ udp \in BOOLEAN
    /\ phase = "connect" /\ io = "none" /\ m = 1 /\ byte_count = 0
    /\ messages_sent \in (IF program = "afl-fuzz" THEN {0, 3} ELSE {0})
    /\ response_buf = NULL /\ response_bytes = NULL /\ prev_buf_size = 0 /\ likely_buggy = FALSE
    /\ wire = <<>> /\ read = 0 /\ written = <<>> /\ inbox = <<>> /\ closed = FALSE

Goto(p, call) == phase' = p /\ io' = call

-----------------------------------------------------------------------------
(* What a program does next, when net_recv or net_send has returned        *)

\* The size of the whole response becomes that of the message counted last.
SizeOfLast ==
    response_bytes' = IF messages_sent > 0 /\ response_bytes # NULL
                      THEN [response_bytes EXCEPT ![messages_sent] = Len(response_buf)]
                      ELSE response_bytes

\* send_over_network, by the place of the call and whether it reported an error.
FuzzerReceived(bad) ==
    \/ /\ phase = "early"
       /\ IF bad THEN Goto("last", "poll in") /\ UNCHANGED messages_sent
          ELSE Goto("send", "poll out") /\ messages_sent' = 0
       /\ UNCHANGED <<m, response_bytes, prev_buf_size, likely_buggy>>
    \/ /\ phase = "answer"
       /\ IF bad
            THEN Goto("last", "poll in") /\ UNCHANGED <<m, response_bytes, likely_buggy>>
            ELSE /\ response_bytes' = [response_bytes EXCEPT ![messages_sent] = Len(response_buf)]
                 /\ likely_buggy' = (prev_buf_size = Len(response_buf))
                 /\ m' = m + 1
                 /\ IF m < Len(messages) THEN Goto("send", "poll out") ELSE Goto("last", "poll in")
       /\ UNCHANGED <<messages_sent, prev_buf_size>>
    \/ /\ phase = "last" /\ Goto("done", "none") /\ SizeOfLast
       /\ UNCHANGED <<m, messages_sent, prev_buf_size, likely_buggy>>

\* aflnet-replay receives before and after every message, and ends with its file.
ReplayReceived(bad) ==
    /\ IF bad \/ (phase = "answer" /\ m = Len(messages)) THEN Goto("done", "none")
       ELSE IF phase = "before" THEN Goto("send", "poll out")
       ELSE Goto("next", "none")
    /\ m' = IF phase = "answer" /\ ~bad THEN m + 1 ELSE m
    /\ UNCHANGED <<messages_sent, response_bytes, prev_buf_size, likely_buggy>>

\* afl-replay does not look at what the calls return.
WholeReceived(bad) ==
    /\ Goto("done", "none")
    /\ UNCHANGED <<m, messages_sent, response_bytes, prev_buf_size, likely_buggy>>

Received(bad) ==
    CASE program = "afl-fuzz" -> FuzzerReceived(bad)
      [] program = "aflnet-replay" -> ReplayReceived(bad)
      [] program = "afl-replay" -> WholeReceived(bad)

\* Mutant: only an error counts, not a message sent in part.
SentUnlessError(n) == n # -1

SentWhole(n) == n = messages[m]

\* n bytes were sent; -1 says that there was an error, however many were.
Sent(n) ==
    /\ byte_count' = 0
    /\ CASE program = "afl-fuzz" ->
              /\ messages_sent' = messages_sent + 1
              /\ response_bytes' = Append(response_bytes, -1)
              /\ prev_buf_size' = Len(response_buf)
              /\ Goto(IF SentWhole(n) THEN "answer" ELSE "last", "poll in")
         [] program = "aflnet-replay" ->
              /\ IF SentWhole(n) THEN Goto("answer", "poll in") ELSE Goto("done", "none")
              /\ UNCHANGED <<messages_sent, response_bytes, prev_buf_size>>
         [] program = "afl-replay" ->
              /\ Goto("answer", "poll in")
              /\ UNCHANGED <<messages_sent, response_bytes, prev_buf_size>>
    /\ UNCHANGED <<program, messages, udp, m, response_buf, likely_buggy>>

-----------------------------------------------------------------------------
(* The beginning of a session                                              *)

\* A thousand attempts, while the server may still be starting.
ConnectFuzzer ==
    /\ program = "afl-fuzz" /\ phase = "connect"
    /\ Goto("early", "poll in") \/ Goto("failed", "none")
    /\ UNCHANGED <<program, messages, udp, m, byte_count, record, kernel>>

ConnectReplay ==
    /\ program = "aflnet-replay" /\ phase = "connect"
    /\ Goto("next", "none") \/ Goto("failed", "none")
    /\ UNCHANGED <<program, messages, udp, m, byte_count, record, kernel>>

ConnectWhole ==
    /\ program = "afl-replay" /\ phase = "connect"
    /\ Goto("send", "poll out") \/ Goto("failed", "none")
    /\ UNCHANGED <<program, messages, udp, m, byte_count, record, kernel>>

\* aflnet-replay reads the length of the next message.
ReadPacket ==
    /\ phase = "next"
    /\ IF messages[m] > MaxPacket THEN Goto("gave up", "none") ELSE Goto("before", "poll in")
    /\ UNCHANGED <<program, messages, udp, m, byte_count, record, kernel>>

-----------------------------------------------------------------------------
(* net_send                                                                *)

\* The socket does not become writable within a millisecond: nothing is sent.
SendPoll ==
    /\ io = "poll out"
    /\ \/ io' = "send" /\ UNCHANGED <<program, messages, udp, phase, m, byte_count, record>>
       \/ Sent(0)
    /\ UNCHANGED kernel

\* One send: part of a stream, or a datagram, which is sent whole.
Send ==
    /\ io = "send" /\ byte_count < messages[m]
    /\ \E n \in 1 .. messages[m] - byte_count :
         /\ udp => n = messages[m]
         /\ byte_count' = byte_count + n
         /\ wire' = wire \o [b \in 1 .. n |-> m]
    /\ UNCHANGED <<program, messages, udp, phase, io, m, record, read, written, inbox, closed>>

\* The time set for sending is over, or the server has closed.
SendError == io = "send" /\ byte_count < messages[m] /\ Sent(-1) /\ UNCHANGED kernel

SendEnd == io = "send" /\ byte_count = messages[m] /\ Sent(byte_count) /\ UNCHANGED kernel

-----------------------------------------------------------------------------
(* net_recv                                                                *)

ReturnRecv(bad) ==
    /\ Received(bad)
    /\ UNCHANGED <<program, messages, udp, byte_count, response_buf, kernel>>

\* Nothing comes within poll_w milliseconds, an error, or something to receive.
RecvPoll ==
    /\ io = "poll in"
    /\ \/ \E bad \in BOOLEAN : ReturnRecv(bad)
       \/ /\ inbox # <<>> \/ closed
          /\ io' = "recv"
          /\ UNCHANGED <<program, messages, udp, phase, m, byte_count, record, kernel>>

\* What one recv takes: some of a stream, or the head of a datagram, whose rest is lost.
Ready == IF udp THEN Head(inbox) ELSE inbox

Takes(n) ==
    /\ n <= TempBuf /\ n <= Len(Ready)
    /\ udp => n = TempBuf \/ n = Len(Ready)
    /\ inbox' = IF udp THEN Tail(inbox) ELSE SubSeq(inbox, n + 1, Len(inbox))

Recv ==
    /\ io = "recv" /\ inbox # <<>>
    /\ \E n \in 1 .. MaxAnswer :
         /\ Takes(n)
         /\ response_buf' = response_buf \o SubSeq(Ready, 1, n)
    /\ UNCHANGED <<program, messages, udp, client, messages_sent, response_bytes, prev_buf_size,
                   likely_buggy, wire, read, written, closed>>

\* The end of the stream or EAGAIN end the loop well, any other error does not.
RecvEnd == io = "recv" /\ (\E bad \in BOOLEAN : ReturnRecv(bad))

-----------------------------------------------------------------------------
(* The server                                                              *)

ServerReads ==
    /\ ~closed /\ read' \in read + 1 .. Len(wire)
    /\ UNCHANGED <<program, messages, udp, client, record, wire, written, inbox, closed>>

ServerWrites ==
    /\ ~closed /\ phase # "connect"
    /\ \E n \in 1 .. MaxAnswer - Len(written) :
         LET answer == [b \in 1 .. n |-> IF read = 0 THEN 0 ELSE wire[read]]
         IN  /\ written' = written \o answer
             /\ inbox' = IF udp THEN Append(inbox, answer) ELSE inbox \o answer
    /\ UNCHANGED <<program, messages, udp, client, record, wire, read, closed>>

ServerCloses ==
    /\ ~closed /\ phase # "connect" /\ closed' = TRUE
    /\ UNCHANGED <<program, messages, udp, client, record, wire, read, written, inbox>>

Over == phase \in {"done", "failed", "gave up"}

Next ==
    /\ ~Over
    /\ \/ ConnectFuzzer \/ ConnectReplay \/ ConnectWhole \/ ReadPacket
       \/ SendPoll \/ Send \/ SendError \/ SendEnd
       \/ RecvPoll \/ Recv \/ RecvEnd
       \/ ServerReads \/ ServerWrites \/ ServerCloses

Spec == Init /\ [][Next]_vars

-----------------------------------------------------------------------------
(* The server gets the test case from its beginning and without a gap,     *)
(* however the sends are cut short, and no message before the one before   *)
(* has left as a whole.                                                    *)
SentOf(k) == {b \in DOMAIN wire : wire[b] = k}

WireTrue ==
    /\ \A a, b \in DOMAIN wire : a < b => wire[a] <= wire[b]
    /\ \A b \in DOMAIN wire : wire[b] \in DOMAIN messages
    /\ \A k \in DOMAIN messages :
         /\ Cardinality(SentOf(k)) <= messages[k]
         /\ (\E b \in DOMAIN wire : wire[b] > k) => Cardinality(SentOf(k)) = messages[k]

(* What is taken for the response is what the server wrote, in its order:  *)
(* all of it so far from a stream, something of it from datagrams.         *)
ResponseTrue ==
    IF udp THEN \A a, b \in DOMAIN response_buf : a < b => response_buf[a] <= response_buf[b]
    ELSE written = response_buf \o inbox

(* No answer is counted for a message before the one it answers; the sizes *)
(* grow with the messages, and the last one is that of the response.       *)
AttributedWell ==
    program = "afl-fuzz" /\ phase = "done" /\ response_bytes # NULL =>
      /\ Len(response_bytes) = messages_sent
      /\ response_bytes[messages_sent] = Len(response_buf)
      /\ \A k \in 1 .. messages_sent :
           /\ k > 1 => response_bytes[k - 1] <= response_bytes[k]
           /\ \A b \in 1 .. response_bytes[k] : response_buf[b] <= k

NetworkTrue == WireTrue /\ ResponseTrue /\ AttributedWell
=============================================================================

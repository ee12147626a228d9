----------------------------- MODULE AsioClient -----------------------------
(***************************************************************************)
(* The Asio clients, src/asio18_client and, when auto holds, its twin      *)
(* src/benchmark/bm_asio_client: the request/response chain and the        *)
(* timeout of client.cpp, the user's thread and the background thread of   *)
(* main.cpp, and the server as far as the client can tell.  In the twin    *)
(* main() sends the first request, and the response handler the next one,  *)
(* on the background thread and out of the buffer it has just parsed.      *)
(*                                                                         *)
(* The user's thread starts an exchange with a write; the background       *)
(* thread, alone inside io_context::run, runs every handler.  The two      *)
(* share the socket and the buffer.  A buffer is a sequence of messages,   *)
(* and its length is their number; "torn" is a part of a message.          *)
(*                                                                         *)
(* Assumed of the user: a number is typed when no exchange is under way.   *)
(***************************************************************************)
EXTENDS Naturals, Sequences

CONSTANTS
    MaxJobs,  \* bound: requests the user sends; the job_ids of rounds wrap there
    Torn      \* whether a transfer may stop in the middle of a message

ASSUME BoundsAssumption == MaxJobs \in Nat \ {0} /\ Torn \in BOOLEAN

Ops      == {"none", "writeLen", "writeData", "readLen", "readData"}
Messages == [kind : {"req", "resp", "torn"}, job : 0 .. MaxJobs]
Cells    == [t : {"len", "part", "rest", "body"}, job : 0 .. MaxJobs]
Results  == [ec : BOOLEAN, n : Nat]
LenSize  == 8

VARIABLES
    auto,             \* which program runs; never changes
    \* main()
    ui,               \* where the user's thread is
    typed,            \* main()'s own id, which the response handler does not share
    id,               \* the job_id of the last request
    is_disconnected, guard,
    bg,               \* where the background thread is
    \* Client
    socket,           \* is_open()
    op, res,          \* the outstanding operation and its completion
    m_dataLen, m_dataBuf,
    armed,            \* m_timeoutTimer has a wait that has not expired
    queue,            \* the handlers that are ready to run, first come first
    failed,           \* the last exchange ended in m_disconnectHandler
    \* the server's end of the connection
    up,               \* it is still there
    outbox, rx        \* what it will send, and what has arrived

user   == <<auto, ui, typed, id, is_disconnected, guard>>
chain  == <<op, res, m_dataLen, m_dataBuf>>
server == <<up, outbox, rx>>
vars   == <<user, bg, socket, chain, armed, queue, failed, server>>

NoResult == [ec |-> FALSE, n |-> 0]
TornPart == [kind |-> "torn", job |-> 0]

TypeOK ==
    /\ auto \in BOOLEAN
    /\ ui \in {"start", "first", "input", "reconnect", "send", "guard", "join",
               "done", "failed", "terminated"}
    /\ typed \in 0 .. MaxJobs /\ id \in 0 .. MaxJobs
    /\ is_disconnected \in BOOLEAN /\ guard \in BOOLEAN
    /\ bg \in {"none", "loop", "run", "exited"}
    /\ socket \in {"open", "closed"}
    /\ op \in Ops /\ res \in Results
    /\ m_dataLen \in Nat /\ m_dataBuf \in Seq(Messages)
    /\ armed \in BOOLEAN
    /\ queue \in Seq({"op", "timeout"})
    /\ failed \in BOOLEAN
    /\ up \in BOOLEAN /\ outbox \in Seq(Cells) /\ rx \in Seq(Cells)

Init ==
    /\ auto \in BOOLEAN
    /\ ui = "start" /\ typed = 0 /\ id = 0
    /\ is_disconnected = FALSE /\ guard = TRUE /\ bg = "none"
    /\ socket = "closed"
    /\ op = "none" /\ res = NoResult
    /\ m_dataLen = 0 /\ m_dataBuf = <<>>
    /\ armed = FALSE /\ queue = <<>> /\ failed = FALSE
    /\ up = FALSE /\ outbox = <<>> /\ rx = <<>>

Alive == ui \notin {"failed", "terminated", "done"}

ExpectedLength == IF op \in {"readLen", "writeLen"} THEN LenSize ELSE m_dataLen
CheckOperation == ~res.ec /\ res.n = ExpectedLength

\* The handler of the outstanding operation is queued.
Ready == \E k \in 1 .. Len(queue) : queue[k] = "op"

\* A handler leaves the queue and ends by starting the next operation.
Starts(kind) ==
    /\ op' = kind /\ res' = NoResult
    /\ queue' = Tail(queue)

Completes(ec, n) ==
    /\ res' = [ec |-> ec, n |-> n]
    /\ queue' = Append(queue, "op")

(***************************************************************************)
(* The user's thread.                                                      *)
(***************************************************************************)
Connected ==
    /\ socket' = "open"
    /\ up' = TRUE /\ outbox' = <<>> /\ rx' = <<>>

\* The first connection is made before the background thread exists.
ConnectFirst ==
    /\ ui = "start" /\ ui' = IF auto THEN "first" ELSE "input"
    /\ Connected
    /\ bg' = "loop"
    /\ UNCHANGED <<auto, typed, id, is_disconnected, guard, chain, armed, queue, failed>>

ConnectFirstFails ==
    /\ ui = "start" /\ ui' = "failed"
    /\ UNCHANGED <<auto, typed, id, is_disconnected, guard, bg, socket, chain, armed, queue, failed, server>>

\* std::cin >> load, then isConnected().
ReadLoad ==
    /\ ui = "input" /\ op = "none" /\ typed < MaxJobs
    /\ ui' = IF socket = "open" THEN "send" ELSE "reconnect"
    /\ UNCHANGED <<auto, typed, id, is_disconnected, guard, bg, socket, chain, armed, queue, failed, server>>

Reconnect ==
    /\ ui = "reconnect" /\ ui' = "send"
    /\ Connected
    /\ UNCHANGED <<auto, typed, id, is_disconnected, guard, bg, chain, armed, queue, failed>>

\* main() returns while bg_thread is joinable, which terminates the process.
ReconnectFails ==
    /\ ui = "reconnect" /\ ui' = "terminated"
    /\ UNCHANGED <<auto, typed, id, is_disconnected, guard, bg, socket, chain, armed, queue, failed, server>>

\* The request is serialised behind whatever the buffer still holds.
Sends(job) ==
    /\ ui' = "input"
    /\ id' = job
    /\ m_dataBuf' = Append(m_dataBuf, [kind |-> "req", job |-> job])
    /\ m_dataLen' = Len(m_dataBuf) + 1
    /\ op' = "writeLen" /\ res' = NoResult
    /\ failed' = FALSE
    /\ UNCHANGED <<auto, is_disconnected, guard, bg, socket, armed, queue, server>>

\* main()'s id does not count the first request of the benchmark's chain.
SendFirst   == ui = "first" /\ Sends(1) /\ UNCHANGED typed
SendRequest == ui = "send" /\ typed' = typed + 1 /\ Sends(typed + 1)

Eof ==
    /\ ui = "input" /\ ui' = "guard"
    /\ is_disconnected' = TRUE
    /\ UNCHANGED <<auto, typed, id, guard, bg, socket, chain, armed, queue, failed, server>>

ResetGuard ==
    /\ ui = "guard" /\ ui' = "join"
    /\ guard' = FALSE
    /\ UNCHANGED <<auto, typed, id, is_disconnected, bg, socket, chain, armed, queue, failed, server>>

Join ==
    /\ ui = "join" /\ bg = "exited" /\ ui' = "done"
    /\ UNCHANGED <<auto, typed, id, is_disconnected, guard, bg, socket, chain, armed, queue, failed, server>>

(***************************************************************************)
(* The background thread.                                                  *)
(***************************************************************************)
Loop ==
    /\ Alive /\ bg = "loop"
    /\ bg' = IF is_disconnected THEN "exited" ELSE "run"
    /\ UNCHANGED <<user, socket, chain, armed, queue, failed, server>>

RunReturns ==
    /\ Alive /\ bg = "run"
    /\ ~guard /\ op = "none" /\ ~armed /\ queue = <<>>
    /\ bg' = "loop"
    /\ UNCHANGED <<user, socket, chain, armed, queue, failed, server>>

Turn(h) == Alive /\ bg = "run" /\ queue # <<>> /\ Head(queue) = h

Dispatch(kind) == Turn("op") /\ op = kind

OnLenSent ==
    /\ Dispatch("writeLen") /\ CheckOperation
    /\ Starts("writeData")
    /\ UNCHANGED <<user, bg, socket, m_dataLen, m_dataBuf, armed, failed, server>>

\* initiateReceiveResponse: expires_after aborts a wait that is still armed.
OnDataSent ==
    /\ Dispatch("writeData") /\ CheckOperation
    /\ m_dataLen' = 0
    /\ armed' = TRUE
    /\ Starts("readLen")
    /\ UNCHANGED <<user, bg, socket, m_dataBuf, failed, server>>

\* Fault: the timeout covers the length of the response only.
OnLenReceivedCancels ==
    /\ Dispatch("readLen") /\ CheckOperation
    /\ Starts("readData")
    /\ armed' = FALSE
    /\ UNCHANGED <<user, bg, socket, m_dataLen, m_dataBuf, failed, server>>

OnLenReceived ==
    /\ Dispatch("readLen") /\ CheckOperation
    /\ Starts("readData")
    /\ UNCHANGED <<user, bg, socket, m_dataLen, m_dataBuf, armed, failed, server>>

NextJob == (id % MaxJobs) + 1

StartsRound ==
    /\ id' = NextJob
    /\ m_dataBuf' = <<[kind |-> "req", job |-> NextJob]>>
    /\ m_dataLen' = 1
    /\ Starts("writeLen")

\* Fault: the handler sends the next request even after the end of input.
OnDataReceivedAlwaysSends ==
    /\ Dispatch("readData") /\ CheckOperation
    /\ armed' = FALSE
    /\ auto /\ StartsRound
    /\ UNCHANGED <<auto, ui, typed, is_disconnected, guard, bg, socket, failed, server>>

\* Cancelling does not recall a checkTimeout that is queued already.  The
\* response handler parses, and so empties, the whole buffer; the benchmark's
\* then starts the next round.
OnDataReceived ==
    /\ Dispatch("readData") /\ CheckOperation
    /\ armed' = FALSE
    /\ \/ auto /\ ~is_disconnected /\ StartsRound
       \/ /\ ~auto \/ is_disconnected
          /\ m_dataBuf' = <<>>
          /\ Starts("none")
          /\ UNCHANGED <<id, m_dataLen>>
    /\ UNCHANGED <<auto, ui, typed, is_disconnected, guard, bg, socket, failed, server>>

\* checkOperation reports the failure and leaves the socket open; only the
\* handler of the last read cancels the timer.
OnFailed ==
    /\ \E kind \in Ops \ {"none"} : Dispatch(kind)
    /\ ~CheckOperation
    /\ failed' = TRUE
    /\ armed' = (armed /\ op # "readData")
    /\ Starts("none")
    /\ UNCHANGED <<user, bg, socket, m_dataLen, m_dataBuf, server>>

\* Fault: the timeout cancels the read and keeps the connection.
CheckTimeoutCancelsOnly ==
    /\ Turn("timeout") /\ socket = "open"
    /\ IF op # "none" /\ ~Ready
       THEN res' = [ec |-> TRUE, n |-> 0] /\ queue' = Append(Tail(queue), "op")
       ELSE res' = res /\ queue' = Tail(queue)
    /\ UNCHANGED <<user, bg, socket, op, m_dataLen, m_dataBuf, armed, failed, server>>

\* Closing the socket aborts what is outstanding on it.
CheckTimeout ==
    /\ Turn("timeout") /\ socket = "open"
    /\ socket' = "closed"
    /\ IF op # "none" /\ ~Ready
       THEN res' = [ec |-> TRUE, n |-> 0] /\ queue' = Append(Tail(queue), "op")
       ELSE res' = res /\ queue' = Tail(queue)
    /\ UNCHANGED <<user, bg, op, m_dataLen, m_dataBuf, armed, failed, server>>

\* m_socket.cancel() throws on a closed socket, out of run() into the loop.
CheckTimeoutThrows ==
    /\ Turn("timeout") /\ socket = "closed"
    /\ queue' = Tail(queue)
    /\ bg' = "loop"
    /\ UNCHANGED <<user, socket, chain, armed, failed, server>>

(***************************************************************************)
(* The reactor.                                                            *)
(***************************************************************************)
TimerExpires ==
    /\ Alive /\ armed
    /\ armed' = FALSE
    /\ queue' = Append(queue, "timeout")
    /\ UNCHANGED <<user, bg, socket, chain, failed, server>>

Outstanding(kind) == Alive /\ op = kind /\ ~Ready

\* An operation started on a closed socket fails.
NotOpen ==
    /\ Alive /\ op # "none" /\ ~Ready /\ socket = "closed"
    /\ Completes(TRUE, 0)
    /\ UNCHANGED <<user, bg, socket, op, m_dataLen, m_dataBuf, armed, failed, server>>

CompleteWriteLen ==
    /\ Outstanding("writeLen") /\ socket = "open"
    /\ Completes(FALSE, LenSize)
    /\ UNCHANGED <<user, bg, socket, op, m_dataLen, m_dataBuf, armed, failed, server>>

\* The server parses a whole frame as one message, in which the last of
\* several requests prevails; what is torn does not parse, and the answer then
\* bears no job_id.
AnswerTo(frame) ==
    IF \E k \in 1 .. Len(frame) : frame[k].kind = "torn" THEN 0
    ELSE frame[Len(frame)].job

Replies(job) ==
    LET Cell(t) == [t |-> t, job |-> job]
    IN  {<<Cell("len"), Cell("body")>>} \cup
        IF Torn THEN {<<Cell("len"), Cell("part"), Cell("rest")>>} ELSE {}

CompleteWriteData ==
    /\ Outstanding("writeData") /\ socket = "open"
    /\ \E reply \in Replies(AnswerTo(m_dataBuf)) : outbox' = outbox \o reply
    /\ m_dataBuf' = <<>>
    /\ Completes(FALSE, Len(m_dataBuf))
    /\ UNCHANGED <<user, bg, socket, op, m_dataLen, armed, failed, up, rx>>

\* What has been written of the buffer is consumed even so.
WriteFails ==
    /\ Outstanding("writeLen") \/ Outstanding("writeData")
    /\ socket = "open" /\ ~up
    /\ m_dataBuf' \in {m_dataBuf} \cup
         IF Torn /\ op = "writeData" THEN {<<TornPart>> \o Tail(m_dataBuf)} ELSE {}
    /\ Completes(TRUE, 0)
    /\ UNCHANGED <<user, bg, socket, op, m_dataLen, armed, failed, server>>

CompleteReadLen ==
    /\ Outstanding("readLen") /\ socket = "open" /\ rx # <<>>
    /\ m_dataLen' = 1
    /\ rx' = Tail(rx)
    /\ Completes(FALSE, LenSize)
    /\ UNCHANGED <<user, bg, socket, op, m_dataBuf, armed, failed, up, outbox>>

\* Some of the response is in the buffer, the read goes on.
PartArrives ==
    /\ Outstanding("readData") /\ socket = "open"
    /\ rx # <<>> /\ Head(rx).t = "part"
    /\ m_dataBuf' = Append(m_dataBuf, TornPart)
    /\ rx' = Tail(rx)
    /\ UNCHANGED <<user, bg, socket, op, res, m_dataLen, armed, queue, failed, up, outbox>>

CompleteReadData ==
    LET resp == [kind |-> "resp", job |-> Head(rx).job] IN
    /\ Outstanding("readData") /\ socket = "open"
    /\ rx # <<>> /\ Head(rx).t # "part"
    /\ m_dataBuf' = IF Head(rx).t = "rest" THEN [m_dataBuf EXCEPT ![Len(m_dataBuf)] = resp]
                    ELSE Append(m_dataBuf, resp)
    /\ rx' = Tail(rx)
    /\ Completes(FALSE, 1)
    /\ UNCHANGED <<user, bg, socket, op, m_dataLen, armed, failed, up, outbox>>

ReadFails ==
    /\ Outstanding("readLen") \/ Outstanding("readData")
    /\ socket = "open" /\ ~up /\ rx = <<>>
    /\ Completes(TRUE, 0)
    /\ UNCHANGED <<user, bg, socket, op, m_dataLen, m_dataBuf, armed, failed, server>>

(***************************************************************************)
(* The server.                                                             *)
(***************************************************************************)
ServerSends ==
    /\ Alive /\ up /\ outbox # <<>>
    /\ rx' = Append(rx, Head(outbox))
    /\ outbox' = Tail(outbox)
    /\ UNCHANGED <<user, bg, socket, chain, armed, queue, failed, up>>

ServerCloses ==
    /\ Alive /\ up
    /\ up' = FALSE
    /\ \E k \in 0 .. Len(rx) : rx' = SubSeq(rx, 1, k)
    /\ UNCHANGED <<user, bg, socket, chain, armed, queue, failed, outbox>>

(***************************************************************************)
(* The specification.                                                      *)
(***************************************************************************)
Completion ==
    \/ NotOpen \/ CompleteWriteLen \/ CompleteWriteData \/ WriteFails
    \/ CompleteReadLen \/ CompleteReadData \/ ReadFails

Terminated == ~Alive /\ UNCHANGED vars

Surroundings ==
    Completion \/ PartArrives \/ TimerExpires \/ ServerSends \/ ServerCloses

UserStep ==
    \/ ConnectFirst \/ ConnectFirstFails \/ SendFirst \/ SendRequest
    \/ Reconnect \/ ReconnectFails \/ ResetGuard \/ Join

BackgroundStep ==
    \/ Loop \/ RunReturns
    \/ OnLenSent \/ OnDataSent \/ OnLenReceived \/ OnDataReceived \/ OnFailed
    \/ CheckTimeout \/ CheckTimeoutThrows

Next ==
    \/ ReadLoad \/ Eof \/ UserStep
    \/ BackgroundStep
    \/ Surroundings
    \/ Terminated

Spec == Init /\ [][Next]_vars

\* Both threads run, time passes, and the kernel completes what it can.  The
\* user need not type anything, nor the server answer.
Fairness ==
    /\ WF_vars(UserStep) /\ WF_vars(BackgroundStep)
    /\ WF_vars(Completion) /\ WF_vars(TimerExpires)

FairSpec == Spec /\ Fairness

(***************************************************************************)
(* Properties.                                                             *)
(***************************************************************************)

\* The client never waits for a response without a timeout that will end the
\* wait: while a read is outstanding on an open socket the timer runs, or it
\* has expired and checkTimeout is about to close the socket.
EveryWaitIsTimed ==
    op \in {"readLen", "readData"} /\ ~Ready /\ socket = "open" =>
        armed \/ \E k \in 1 .. Len(queue) : queue[k] = "timeout"

\* A request goes out behind the leftovers of another transfer (main() appends
\* to m_dataBuf) in the exchange after a failed one and in no other: neither
\* timeouts nor reconnections carry them further, and an exchange that
\* succeeds, even behind leftovers, leaves none.
LeftoversFollowFailure == op = "none" /\ m_dataBuf # <<>> => failed

\* What the response handler is given is one whole response and nothing else,
\* and it is the response to the request of this exchange, or to a frame that
\* the failure just before had made unreadable; never that of another exchange.
ResponseIsOwn ==
    /\ op = "readData" /\ Ready /\ CheckOperation =>
         \E j \in {id, 0} : m_dataBuf = <<[kind |-> "resp", job |-> j]>>
    /\ LeftoversFollowFailure

\* Every exchange ends, in an answer or in a call of the disconnect handler,
\* even when the server never answers; in the benchmark the answer brings the
\* next round, and a failed round leaves the client silent until the user types.
ExchangeEnds ==
    \A j \in 1 .. MaxJobs :
        (op # "none" /\ id = j) ~> (id # j \/ op = "none" \/ bg = "exited")

\* After the end of input main() joins the background thread and returns,
\* whatever exchange or timeout is under way.
ShutdownCompletes == (ui = "guard") ~> (ui = "done")

\* benchmark/README.md: "Timeouts need to be handled reliably".  A timeout
\* belongs to one exchange: it never closes a sound connection on which the
\* next request is being written.
TimeoutClosesItsOwn ==
    [][up /\ socket = "open" /\ socket' = "closed" => op \notin {"writeLen", "writeData"}]_vars
=============================================================================

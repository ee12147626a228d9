------------------------------ MODULE QtClient ------------------------------
(***************************************************************************)
(* The Qt client, src/qt19_client, and its benchmark twin,                 *)
(* benchmark/bm_qt_client: one thread, whose event loop delivers the       *)
(* signals of the socket, of the timer and of the standard input, and one  *)
(* m_dataLen and m_dataBuf for the requests and the responses both.  The   *)
(* two differ in what follows a response: the benchmark's handler sends    *)
(* the next request (auto).                                                *)
(***************************************************************************)
EXTENDS Integers, QtFraming

CONSTANT MaxId  \* bound: the requests of a run

ASSUME ClientAssumption == MaxId \in Nat \ {0}

VARIABLES
    auto,        \* which of the two programs runs
    at,          \* where main is
    id,          \* the last job_id
    socket, timer,
    buf,         \* bytesAvailable()
    m_dataLen,
    answered,    \* job_id of the last response that was delivered
    peer,        \* the other end of the connection
    out, net,    \* requests the server has, what is on the way back
    pending,     \* requests of this connection that await a response
    overlapped   \* one was sent on this connection while another awaited its own

user == <<auto, at, id>>
link == <<peer, out, net>>
vars == <<user, socket, timer, buf, m_dataLen, answered, link, pending, overlapped>>

Jobs == 0 .. MaxId


Init ==
    /\ auto \in BOOLEAN /\ at = "start" /\ id = 0
    /\ socket = "unconnected" /\ timer = FALSE
    /\ buf = <<>> /\ m_dataLen = 0 /\ answered = -1
    /\ peer = "absent" /\ out = <<>> /\ net = <<>>
    /\ pending = 0 /\ overlapped = FALSE

\* bound: a response may need an id of its own
Room == id + (IF auto THEN Len(buf \o net) ELSE 0) < MaxId

(***************************************************************************)
(* The client's calls.  A connection is attempted and waited for at once;  *)
(* it starts with empty buffers.                                           *)
(***************************************************************************)
\* Fault: the length of the request is left where that of the response goes.
SendRequestKeepsLen(job, state, queue, waiting) ==
    /\ timer' = TRUE
    /\ m_dataLen' = 1
    /\ IF state = "connected"
       THEN /\ out' = Append(queue, job)
            /\ pending' = waiting + 1
       ELSE out' = queue /\ pending' = waiting

\* A socket that is not connected refuses the length, which stays.
SendRequest(job, state, queue, waiting) ==
    /\ timer' = TRUE
    /\ IF state = "connected"
       THEN /\ m_dataLen' = 0
            /\ out' = Append(queue, job)
            /\ pending' = waiting + 1
       ELSE m_dataLen' = 1 /\ out' = queue /\ pending' = waiting

ConnectToHost ==
    \/ socket' = "connected" /\ peer' = "connected" /\ overlapped' = FALSE
    \/ UNCHANGED <<socket, peer, overlapped>>

\* main before app.exec: the benchmark sends request 0 whatever came of the
\* connection.
Start ==
    /\ at = "start" /\ at' = "loop"
    /\ ConnectToHost
    /\ \/ auto /\ SendRequest(0, socket', <<>>, 0)
       \/ ~auto /\ UNCHANGED <<timer, m_dataLen, out, pending>>
    /\ UNCHANGED <<auto, id, buf, answered, net>>

\* Input, with the connection standing.
ReadLoad ==
    /\ at = "loop" /\ socket = "connected" /\ Room
    /\ id' = id + 1
    /\ SendRequest(id + 1, socket, out, pending)
    /\ overlapped' = (overlapped \/ pending > 0)
    /\ UNCHANGED <<auto, at, socket, buf, answered, peer, net>>

\* Input, without one.
ReadLoadReconnects ==
    /\ at = "loop" /\ socket = "unconnected" /\ Room
    /\ id' = id + 1
    /\ ConnectToHost
    /\ SendRequest(id + 1, socket', <<>>, 0)
    /\ UNCHANGED <<auto, at, buf, answered, net>>

Eof ==
    /\ at = "loop" /\ at' = "done"
    /\ UNCHANGED <<auto, id, socket, timer, buf, m_dataLen, answered, link,
                   pending, overlapped>>

(***************************************************************************)
(* The signals.                                                            *)
(***************************************************************************)
Waits(h) ==
    /\ ~HasFrame(h)
    /\ buf' = h.rest /\ m_dataLen' = h.len
    /\ UNCHANGED <<id, timer, answered, out, pending, overlapped>>

\* The handlers of responseReceived: one program prints the response, the
\* other goes on with the next request.
Prints ==
    /\ ~auto
    /\ m_dataLen' = 0 /\ timer' = FALSE /\ pending' = pending - 1
    /\ UNCHANGED <<id, out, overlapped>>

SendsNext ==
    /\ auto
    /\ id' = id + 1
    /\ SendRequest(id + 1, socket, out, pending - 1)
    /\ overlapped' = (overlapped \/ pending > 1)

Receive(h) ==
    /\ HasFrame(h)
    /\ buf' = Tail(h.rest)
    /\ answered' = Head(h.rest).job
    /\ Prints \/ SendsNext

\* Fault: any data that arrive stop the timer.
ReceiveResponseStopsTimer ==
    /\ at = "loop" /\ socket = "connected"
    /\ \E k \in 1 .. Len(net) :
         LET h == AfterHeader(m_dataLen, buf \o Arrived(net, k)) IN
         /\ net' = Left(net, k)
         /\ \/ Receive(h)
            \/ /\ ~HasFrame(h)
               /\ buf' = h.rest /\ m_dataLen' = h.len /\ timer' = FALSE
               /\ UNCHANGED <<id, answered, out, pending, overlapped>>
    /\ UNCHANGED <<auto, at, socket, peer>>

ReceiveResponse ==
    /\ at = "loop" /\ socket = "connected"
    /\ \E k \in 1 .. Len(net) :
         LET h == AfterHeader(m_dataLen, buf \o Arrived(net, k)) IN
         /\ net' = Left(net, k)
         /\ Receive(h) \/ Waits(h)
    /\ UNCHANGED <<auto, at, socket, peer>>

\* The end of a connection, as the client's own lambdas and Qt leave it: the
\* disconnected signal stops the timer, what was unread is never looked at.
Closed ==
    /\ socket' = "unconnected" /\ timer' = FALSE
    /\ peer' = "absent" /\ out' = <<>> /\ net' = <<>> /\ buf' = <<>>
    /\ pending' = 0
    /\ UNCHANGED <<user, m_dataLen, answered, overlapped>>

\* Fault: the wait is given up, the connection is not.
OnTimeoutGivesUp ==
    /\ at = "loop" /\ timer
    /\ timer' = FALSE /\ pending' = 0
    /\ UNCHANGED <<user, socket, buf, m_dataLen, answered, link, overlapped>>

OnTimeout ==
    /\ at = "loop" /\ timer
    /\ \/ socket = "connected" /\ Closed
       \/ /\ socket = "unconnected" /\ timer' = FALSE
          /\ UNCHANGED <<user, socket, buf, m_dataLen, answered, link, pending,
                         overlapped>>

\* The server has closed, all it sent has been read: errorOccurred, then
\* disconnected.
Disconnected ==
    /\ at = "loop" /\ socket = "connected"
    /\ peer = "gone" /\ net = <<>>
    /\ Closed

(***************************************************************************)
(* The server: it answers in order, or not at all; it closes, or the link  *)
(* goes silent.                                                            *)
(***************************************************************************)
ServerAnswers ==
    /\ peer = "connected" /\ out # <<>>
    /\ auto => Room
    /\ net' = net \o Frame(Head(out))
    /\ out' = Tail(out)
    /\ UNCHANGED <<user, socket, timer, buf, m_dataLen, answered, peer, pending,
                   overlapped>>

ServerLeaves ==
    /\ peer = "connected" /\ peer' \in {"gone", "silent"}
    /\ \E k \in 0 .. Len(net) : net' = Arrived(net, k)
    /\ UNCHANGED <<user, socket, timer, buf, m_dataLen, answered, out, pending,
                   overlapped>>

Step == Start \/ ReceiveResponse \/ OnTimeout \/ Disconnected
Next == Step \/ ReadLoad \/ ReadLoadReconnects \/ Eof \/ ServerAnswers \/ ServerLeaves

Spec     == Init /\ [][Next]_vars
\* The event loop delivers what is due.  Nothing is asked of the user, nor of
\* the server.
FairSpec == Spec /\ WF_vars(Step)

(***************************************************************************)
(* Properties.                                                             *)
(***************************************************************************)
\* One m_dataLen and one timer serve every exchange.  As long as no request of a
\* connection is sent while another is outstanding (client.cpp:38-50), the client
\* never takes a body for a length: m_dataLen (client.cpp:41, :48, :55, :61),
\* what is buffered and what is on the way are whole frames from the first cell
\* on.
InSync ==
    socket = "connected" /\ ~overlapped =>
        LET ahead == buf \o net IN
        \A n \in 1 .. Len(ahead) :
            ahead[n].t = IF (n + m_dataLen) % 2 = 1 THEN "len" ELSE "body"

\* Under the same condition a response belongs to the request that was sent
\* last: an answer that comes after its timeout never reaches a handler,
\* because onTimeout aborts the connection (client.cpp:35).
ResponseIsOwn == [][answered' # answered => overlapped \/ answered' = id]_vars

\* An exchange ends, by a response, a timeout or a disconnection, whatever the
\* server does (client.cpp:10-35), unless another is sent into it.
ExchangeEnds == \A j \in Jobs :
    pending > 0 /\ id = j ~> pending = 0 \/ answered = j \/ overlapped \/ at = "done"
=============================================================================

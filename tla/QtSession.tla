------------------------------ MODULE QtSession ------------------------------
(***************************************************************************)
(* The sessions of the Qt servers, as the thread that owns a session's     *)
(* socket sees it: its event loop, the framing of the requests and the     *)
(* answers.  receiveRequest and sendResponse of src/qt19_server/client.cpp *)
(* and onReadyRead of src/qt20_server/client.cpp do the same; how the      *)
(* thread comes about and ends is the servers' own.                        *)
(*                                                                         *)
(* Data arrive in chunks of whole cells, each with one readyRead.          *)
(***************************************************************************)
EXTENDS QtFraming

CONSTANTS
    MaxId,    \* bound: connections in a run
    MaxReq,   \* bound: requests a peer sends
    Patient   \* the peers that await an answer before they send on

Ids == 0 .. MaxId - 1

ASSUME SessionAssumption ==
    /\ MaxId \in Nat \ {0} /\ MaxReq \in Nat
    /\ Patient \subseteq Ids

VARIABLES
    at,         \* where the session's thread is
    quit,       \* its event loop has been told to return
    socket,     \* the state of its QTcpSocket
    buf,        \* bytesAvailable()
    m_dataLen,
    m_dataBuf,  \* the request in m_dataBuf, 0 before the first
    peer, sent, \* the other end and the requests it has sent
    net,        \* what is on the way to the session
    tx          \* the requests answered

session == <<at, quit, socket, buf, m_dataLen, m_dataBuf>>
wire    == <<peer, sent, net, tx>>

Cells == [t : {"len", "body"}, job : 1 .. MaxReq]

SessionTypeOK ==
    /\ at \in [Ids -> {"none", "queued", "started", "loop", "work", "ending", "finished"}]
    /\ quit \in [Ids -> BOOLEAN]
    /\ socket \in [Ids -> {"none", "open", "closed"}]
    /\ buf \in [Ids -> Seq(Cells)] /\ net \in [Ids -> Seq(Cells)]
    /\ m_dataLen \in [Ids -> Lengths]
    /\ m_dataBuf \in [Ids -> 0 .. MaxReq]
    /\ peer \in [Ids -> {"absent", "connected", "gone"}]
    /\ sent \in [Ids -> 0 .. MaxReq]
    /\ tx \in [Ids -> Seq(1 .. MaxReq)]

SessionInit ==
    /\ at = [i \in Ids |-> "none"]
    /\ quit = [i \in Ids |-> FALSE]
    /\ socket = [i \in Ids |-> "none"]
    /\ buf = [i \in Ids |-> <<>>] /\ net = [i \in Ids |-> <<>>]
    /\ m_dataLen = [i \in Ids |-> 0]
    /\ m_dataBuf = [i \in Ids |-> 0]
    /\ peer = [i \in Ids |-> "absent"]
    /\ sent = [i \in Ids |-> 0]
    /\ tx = [i \in Ids |-> <<>>]

Active(i) == at[i] \in {"started", "loop", "work", "ending"}

(***************************************************************************)
(* The event loop of a session.                                            *)
(***************************************************************************)
Goes(i, place) == at' = [at EXCEPT ![i] = place]

\* Fault: the body is taken as soon as its length is known.
ReceiveUnchecked(i, h) ==
    /\ h.len # 0
    /\ m_dataBuf' = [m_dataBuf EXCEPT ![i] = sent[i]]
    /\ buf' = [buf EXCEPT ![i] = IF h.rest = <<>> THEN <<>> ELSE Tail(h.rest)]
    /\ m_dataLen' = [m_dataLen EXCEPT ![i] = 0]
    /\ Goes(i, "work")

\* Fault: the length of the request is kept for the next one.
ReceiveKeepsLength(i, h) ==
    /\ HasFrame(h)
    /\ m_dataBuf' = [m_dataBuf EXCEPT ![i] = Head(h.rest).job]
    /\ buf' = [buf EXCEPT ![i] = Tail(h.rest)]
    /\ m_dataLen' = [m_dataLen EXCEPT ![i] = h.len]
    /\ Goes(i, "work")

\* Fault: everything that has arrived is taken for the request.
ReceiveAll(i, h) ==
    /\ HasFrame(h)
    /\ m_dataBuf' = [m_dataBuf EXCEPT ![i] = Head(h.rest).job]
    /\ buf' = [buf EXCEPT ![i] = <<>>]
    /\ m_dataLen' = [m_dataLen EXCEPT ![i] = 0]
    /\ Goes(i, "work")

\* A whole request: m_onRequest is about to run.
Receive(i, h) ==
    /\ HasFrame(h)
    /\ m_dataBuf' = [m_dataBuf EXCEPT ![i] = Head(h.rest).job]
    /\ buf' = [buf EXCEPT ![i] = Tail(h.rest)]
    /\ m_dataLen' = [m_dataLen EXCEPT ![i] = 0]
    /\ Goes(i, "work")

Waits(i, h) ==
    /\ ~HasFrame(h)
    /\ buf' = [buf EXCEPT ![i] = h.rest]
    /\ m_dataLen' = [m_dataLen EXCEPT ![i] = h.len]
    /\ UNCHANGED <<at, m_dataBuf>>

\* One readyRead serves one request at the most.
ReadyRead(i) ==
    /\ at[i] = "loop" /\ socket[i] = "open"
    /\ \E k \in 1 .. Len(net[i]) :
         LET h == AfterHeader(m_dataLen[i], buf[i] \o Arrived(net[i], k)) IN
         /\ net' = [net EXCEPT ![i] = Left(@, k)]
         /\ Receive(i, h) \/ Waits(i, h)
    /\ UNCHANGED <<quit, socket, peer, sent, tx>>

\* The response takes the job_id of the request and then its buffer.
OnRequest(i) == tx' = [tx EXCEPT ![i] = Append(@, m_dataBuf[i])]

\* m_onRequest has run, the response is written.
SendResponse(i) ==
    /\ at[i] = "work"
    /\ OnRequest(i)
    /\ Goes(i, "loop")
    /\ UNCHANGED <<quit, socket, buf, m_dataLen, m_dataBuf, peer, sent, net>>

\* errorOccurred closes the socket, which then reports that it is
\* disconnected, and the loop is told to return.
CloseSocket(i) ==
    /\ socket' = [socket EXCEPT ![i] = "closed"]
    /\ buf' = [buf EXCEPT ![i] = <<>>]
    /\ quit' = [quit EXCEPT ![i] = TRUE]

SendFails(i) ==
    /\ at[i] = "work" /\ peer[i] = "gone"
    /\ CloseSocket(i)
    /\ Goes(i, "loop")
    /\ UNCHANGED <<m_dataLen, m_dataBuf, wire>>

\* Fault: nobody listens for the end of the connection.
DisconnectedIgnored(i) ==
    /\ at[i] = "loop" /\ socket[i] = "open"
    /\ peer[i] = "gone" /\ net[i] = <<>>
    /\ UNCHANGED <<session, wire>>

\* The peer has gone and all it sent has been read.
Disconnected(i) ==
    /\ at[i] = "loop" /\ socket[i] = "open"
    /\ peer[i] = "gone" /\ net[i] = <<>>
    /\ CloseSocket(i)
    /\ UNCHANGED <<at, m_dataLen, m_dataBuf, wire>>

(***************************************************************************)
(* The peers.                                                              *)
(***************************************************************************)
PeerSends(i) ==
    /\ peer[i] = "connected" /\ sent[i] < MaxReq
    /\ i \in Patient => sent[i] = Len(tx[i])
    /\ sent' = [sent EXCEPT ![i] = @ + 1]
    /\ net' = [net EXCEPT ![i] = @ \o Frame(sent[i] + 1)]
    /\ UNCHANGED <<session, peer, tx>>

\* What was under way when the peer left may arrive or not.
PeerLeaves(i) ==
    /\ peer[i] = "connected"
    /\ peer' = [peer EXCEPT ![i] = "gone"]
    /\ \E k \in 0 .. Len(net[i]) : net' = [net EXCEPT ![i] = Arrived(@, k)]
    /\ UNCHANGED <<session, sent, tx>>

(***************************************************************************)
(* The refinement: what RequestService calls a connection.                 *)
(***************************************************************************)
Service == INSTANCE RequestService WITH
    Conns   <- Ids,
    conn    <- [i \in Ids |-> IF socket[i] = "none" THEN "free" ELSE socket[i]],
    current <- [i \in Ids |-> IF at[i] = "work" THEN m_dataBuf[i] ELSE 0],
    answers <- tx

\* Each connection is served as RequestService says: one request at a time,
\* in order, answered before the next is taken.
ServesRequests == Service!SSpec

\* As long as data are on their way to a session that has a thread, another
\* request is answered, unless the peer or the server goes.  So a peer that
\* awaits each answer gets them all; and of requests that arrive together,
\* of which a readyRead serves one, the others wait for more data, but are
\* neither lost nor overtaken when these come, in whatever pieces.
RequestAnswered ==
    \A i \in Ids : \A k \in 0 .. MaxReq - 1 :
        (Active(i) /\ net[i] # <<>> /\ Len(tx[i]) = k) ~> (Len(tx[i]) > k \/ peer[i] = "gone")
=============================================================================

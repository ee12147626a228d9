----------------------------- MODULE AsioServer -----------------------------
(***************************************************************************)
(* The multi-threaded Asio server of src/asio18_server: the accept chain   *)
(* and the session map of server.cpp, the request/response chain of        *)
(* client.cpp (here called a session), and the thread pool and shutdown    *)
(* of main.cpp.                                                            *)
(*                                                                         *)
(* A session has at most one asynchronous operation outstanding, op[i];    *)
(* the reactor completes it (res[i]), a pool thread inside io_context::run *)
(* takes the completion and runs its handler.  A handler that touches only *)
(* its own session is one step.  The two that touch the shared map, and    *)
(* the user callback that sleeps, are several, so that other threads run   *)
(* in between.                                                             *)
(***************************************************************************)
EXTENDS Naturals, Sequences

CONSTANTS
    Threads,       \* the pool; its size is hardware_concurrency()
    MaxId,         \* bound: connections accepted in a run
    MaxReq,        \* bound: requests a peer sends on one connection
    ReqSizes,      \* the request lengths peers announce
    BufMax,        \* capacity of a session's streambuf
    RespSize,      \* length of a serialised response
    AcceptErrors   \* whether async_accept may complete with an error

ASSUME SizesAssumption ==
    /\ MaxId \in Nat /\ MaxReq \in Nat
    /\ ReqSizes \subseteq Nat \ {0}
    /\ BufMax \in Nat /\ RespSize \in 1 .. BufMax
    /\ AcceptErrors \in BOOLEAN

Ids     == 0 .. MaxId
LenSize == 8              \* sizeof(m_dataLen)

Ops     == {"none", "accept", "readLen", "readData", "writeLen", "writeData"}
Cells   == [t : {"len", "body"}, job : Nat, n : Nat]
Results == [ready : BOOLEAN, ec : BOOLEAN, n : Nat]
Buffers == [job : Nat, size : Nat]

VARIABLES
    \* Server
    m_clients,         \* ids with an entry in the session map
    m_clientIdCounter, \* the id the next entry gets
    raced,             \* two threads have been inside m_clients at once
    \* Client, per session id
    op,                \* the outstanding asynchronous operation
    res,               \* its completion: error code and bytes_transferred
    m_dataLen,
    m_dataBuf,         \* the message in the streambuf and its size
    \* main(): pool threads and shutdown
    at,                \* what a pool thread is doing
    cur,               \* the session whose handler it runs
    isRunning, guard, stopped, main,
    \* the connections, seen from the peers
    peer, sent, rx, tx

registry == <<m_clients, m_clientIdCounter, raced>>
session  == <<op, res, m_dataLen, m_dataBuf>>
pool     == <<at, cur>>
shutdown == <<isRunning, guard, stopped, main>>
wire     == <<peer, sent, rx, tx>>
vars     == <<registry, session, pool, shutdown, wire>>

InMap    == {"emplace", "erase"}
Busy     == InMap \cup {"begin", "work"}
NoResult == [ready |-> FALSE, ec |-> FALSE, n |-> 0]
Empty    == [job |-> 0, size |-> 0]

(***************************************************************************)
(* State predicates.                                                       *)
(***************************************************************************)
Alive == main \notin {"crashed", "terminated"}

\* Something will still run for session i: an operation or a handler.
Owned(i) == op[i] # "none" \/ \E t \in Threads : at[t] \in Busy /\ cur[t] = i

\* asio counts pending operations and running handlers as work.
HasWork == guard \/ \E i \in Ids : Owned(i)

Room(buf) == IF buf.size < BufMax THEN BufMax - buf.size ELSE 0

\* async_read with transfer_exactly(m_dataLen) stops early, without an
\* error, when the streambuf is full.
Transferred(i) ==
    IF m_dataLen[i] <= Room(m_dataBuf[i]) THEN m_dataLen[i] ELSE Room(m_dataBuf[i])

ExpectedLength(i) == IF op[i] \in {"readLen", "writeLen"} THEN LenSize ELSE m_dataLen[i]

\* Fault: a short transfer is taken for a whole one.
CheckErrorOnly(i) == ~res[i].ec
CheckOperation(i) == ~res[i].ec /\ res[i].n = ExpectedLength(i)

\* Fault: the response is appended to the request.
ResponseOnTop(buf) == [job |-> buf.job, size |-> buf.size + RespSize]

\* Parsing empties the buffer, then the response to the same job is
\* serialised into it.
Response(buf) == [job |-> buf.job, size |-> RespSize]

RegistryType ==
    /\ m_clientIdCounter \in 0 .. MaxId + 1
    /\ m_clients \subseteq Ids
    /\ raced \in BOOLEAN

SessionType ==
    /\ op \in [Ids -> Ops]
    /\ res \in [Ids -> Results]
    /\ m_dataLen \in [Ids -> Nat]
    /\ m_dataBuf \in [Ids -> Buffers]

PoolType ==
    /\ at \in [Threads -> {"loop", "run", "exited"} \cup Busy]
    /\ cur \in [Threads -> Ids]

ShutdownType ==
    /\ isRunning \in BOOLEAN /\ guard \in BOOLEAN /\ stopped \in BOOLEAN
    /\ main \in {"ctor", "serving", "guard", "stop", "join", "done",
                 "terminated", "crashed"}

WireType ==
    /\ peer \in [Ids -> {"absent", "connected", "gone"}]
    /\ sent \in [Ids -> 0 .. MaxReq]
    /\ rx \in [Ids -> Seq(Cells)]
    /\ tx \in [Ids -> Seq(Cells)]

TypeOK == RegistryType /\ SessionType /\ PoolType /\ ShutdownType /\ WireType

\* main() starts the pool before it constructs the Server.
Init ==
    /\ m_clients = {} /\ m_clientIdCounter = 0 /\ raced = FALSE
    /\ op = [i \in Ids |-> "none"]
    /\ res = [i \in Ids |-> NoResult]
    /\ m_dataLen = [i \in Ids |-> 0]
    /\ m_dataBuf = [i \in Ids |-> Empty]
    /\ at = [t \in Threads |-> "loop"]
    /\ cur = [t \in Threads |-> 0]
    /\ isRunning = TRUE /\ guard = TRUE /\ stopped = FALSE /\ main = "ctor"
    /\ peer = [i \in Ids |-> "absent"]
    /\ sent = [i \in Ids |-> 0]
    /\ rx = [i \in Ids |-> <<>>]
    /\ tx = [i \in Ids |-> <<>>]

(***************************************************************************)
(* Operations.  Starts(i, kind) is the async_ call that ends a handler.    *)
(***************************************************************************)
Starts(i, kind) ==
    /\ op'  = [op EXCEPT ![i] = kind]
    /\ res' = [res EXCEPT ![i] = NoResult]

Completes(i, failed, bytes) ==
    res' = [res EXCEPT ![i] = [ready |-> TRUE, ec |-> failed, n |-> bytes]]

Goes(t, place) == at' = [at EXCEPT ![t] = place]

\* A thread in run() takes the completion of an operation on session i.
Dispatch(t, i, kind) ==
    /\ Alive /\ ~stopped
    /\ at[t] = "run"
    /\ op[i] = kind /\ res[i].ready

\* Nothing synchronises the threads that modify m_clients.
EnterMap(t, i, place) ==
    /\ Goes(t, place)
    /\ cur' = [cur EXCEPT ![t] = i]
    /\ raced' = (raced \/ \E u \in Threads \ {t} : at[u] \in InMap)

\* An insertion or an erasure in a map that threads have raced on may lose its
\* effect, or take the process down.
MapBecomes(new) == m_clients' \in IF raced THEN {m_clients, new} ELSE {new}
MapSurvives     == main' \in IF raced THEN {main, "crashed"} ELSE {main}

(***************************************************************************)
(* The accept chain.                                                       *)
(***************************************************************************)
\* Fault: the counter is incremented at the call as well.
AcceptsAfterNext(id) ==
    /\ MapBecomes(m_clients \cup {id})
    /\ m_clientIdCounter' = id + 2
    /\ Starts(id, "accept")

AcceptsNext(id) ==
    /\ MapBecomes(m_clients \cup {id})
    /\ m_clientIdCounter' = id + 1
    /\ Starts(id, "accept")

\* The accept handler reports an error by throwing out of run(), before it
\* has called initiateAccept.
OnAcceptError(t, i) ==
    /\ Dispatch(t, i, "accept") /\ res[i].ec
    /\ Starts(i, "none")
    /\ Goes(t, "loop")
    /\ UNCHANGED <<registry, m_dataLen, m_dataBuf, cur, shutdown, wire>>

OnAccept(t, i) ==
    /\ Dispatch(t, i, "accept") /\ ~res[i].ec
    /\ Starts(i, "none")
    /\ EnterMap(t, i, "emplace")
    /\ UNCHANGED <<m_clients, m_clientIdCounter, m_dataLen, m_dataBuf, shutdown, wire>>

\* Fault: the chain that is already communicating is re-armed as well.
InitiateAcceptAndBegin(t) ==
    /\ Alive /\ at[t] = "emplace"
    /\ MapBecomes(m_clients \cup {m_clientIdCounter})
    /\ m_clientIdCounter' = m_clientIdCounter + 1
    /\ op'  = [op EXCEPT ![m_clientIdCounter] = "accept", ![cur[t]] = "readLen"]
    /\ res' = [res EXCEPT ![m_clientIdCounter] = NoResult, ![cur[t]] = NoResult]
    /\ MapSurvives
    /\ Goes(t, "begin")
    /\ UNCHANGED <<raced, m_dataLen, m_dataBuf, cur, isRunning, guard, stopped, wire>>

InitiateAccept(t) ==
    /\ Alive /\ at[t] = "emplace"
    /\ AcceptsNext(m_clientIdCounter)
    /\ MapSurvives
    /\ Goes(t, "begin")
    /\ UNCHANGED <<raced, m_dataLen, m_dataBuf, cur, isRunning, guard, stopped, wire>>

(***************************************************************************)
(* The chain of one session.                                               *)
(***************************************************************************)
InitiateReceiveRequest(i) ==
    /\ Starts(i, "readLen")
    /\ m_dataLen' = [m_dataLen EXCEPT ![i] = 0]

InitiateCommunication(t) ==
    /\ Alive /\ at[t] = "begin"
    /\ InitiateReceiveRequest(cur[t])
    /\ Goes(t, "run")
    /\ UNCHANGED <<registry, m_dataBuf, cur, shutdown, wire>>

OnLenReceived(t, i) ==
    /\ Dispatch(t, i, "readLen") /\ CheckOperation(i)
    /\ Starts(i, "readData")
    /\ UNCHANGED <<registry, m_dataLen, m_dataBuf, pool, shutdown, wire>>

\* m_onRequest is about to run: it parses, sleeps for the workload, answers.
OnDataReceived(t, i) ==
    /\ Dispatch(t, i, "readData") /\ CheckOperation(i)
    /\ Starts(i, "none")
    /\ Goes(t, "work")
    /\ cur' = [cur EXCEPT ![t] = i]
    /\ UNCHANGED <<registry, m_dataLen, m_dataBuf, shutdown, wire>>

OnRequest(t) ==
    LET i == cur[t] IN
    /\ Alive /\ at[t] = "work"
    /\ m_dataBuf' = [m_dataBuf EXCEPT ![i] = Response(@)]
    /\ m_dataLen' = [m_dataLen EXCEPT ![i] = Response(m_dataBuf[i]).size]
    /\ Starts(i, "writeLen")
    /\ Goes(t, "run")
    /\ UNCHANGED <<registry, cur, shutdown, wire>>

OnLenSent(t, i) ==
    /\ Dispatch(t, i, "writeLen") /\ CheckOperation(i)
    /\ Starts(i, "writeData")
    /\ UNCHANGED <<registry, m_dataLen, m_dataBuf, pool, shutdown, wire>>

\* Fault: the session stops after its first response.
OnDataSentOnce(t, i) ==
    /\ Dispatch(t, i, "writeData") /\ CheckOperation(i)
    /\ Starts(i, "none")
    /\ UNCHANGED <<registry, m_dataLen, m_dataBuf, pool, shutdown, wire>>

OnDataSent(t, i) ==
    /\ Dispatch(t, i, "writeData") /\ CheckOperation(i)
    /\ InitiateReceiveRequest(i)
    /\ UNCHANGED <<registry, m_dataBuf, pool, shutdown, wire>>

\* Fault: the failed chain ends and its entry is forgotten.
OnFailedSilently(t, i) ==
    /\ \E kind \in Ops \ {"none", "accept"} : Dispatch(t, i, kind)
    /\ ~CheckOperation(i)
    /\ Starts(i, "none")
    /\ UNCHANGED <<registry, m_dataLen, m_dataBuf, pool, shutdown, wire>>

\* Any handler whose checkOperation fails calls m_onDisconnect.
OnFailed(t, i) ==
    /\ \E kind \in Ops \ {"none", "accept"} : Dispatch(t, i, kind)
    /\ ~CheckOperation(i)
    /\ Starts(i, "none")
    /\ EnterMap(t, i, "erase")
    /\ UNCHANGED <<m_clients, m_clientIdCounter, m_dataLen, m_dataBuf, shutdown, wire>>

\* Fault: the chain goes on after its entry has been erased.
OnDisconnectContinues(t) ==
    LET i == cur[t] IN
    /\ Alive /\ at[t] = "erase"
    /\ MapBecomes(m_clients \ {i})
    /\ Starts(i, "readLen")
    /\ MapSurvives
    /\ Goes(t, "run")
    /\ UNCHANGED <<m_clientIdCounter, raced, m_dataLen, m_dataBuf, cur, isRunning, guard, stopped, wire>>

\* Destroying the entry closes its socket.
OnDisconnect(t) ==
    LET i == cur[t] IN
    /\ Alive /\ at[t] = "erase"
    /\ MapBecomes(m_clients \ {i})
    /\ peer' = IF i \in m_clients \ m_clients' THEN [peer EXCEPT ![i] = "gone"] ELSE peer
    /\ MapSurvives
    /\ Goes(t, "run")
    /\ UNCHANGED <<m_clientIdCounter, raced, session, cur, isRunning, guard, stopped, sent, rx, tx>>

(***************************************************************************)
(* The loop of a pool thread, and main().                                  *)
(***************************************************************************)
\* Fault: the loop ignores isRunning.
LoopForever(t) ==
    /\ Alive /\ at[t] = "loop"
    /\ Goes(t, "run")
    /\ UNCHANGED <<registry, session, cur, shutdown, wire>>

Loop(t) ==
    /\ Alive /\ at[t] = "loop"
    /\ Goes(t, IF isRunning THEN "run" ELSE "exited")
    /\ UNCHANGED <<registry, session, cur, shutdown, wire>>

\* run() returns when the context is stopped; running out of work stops it.
RunReturns(t) ==
    /\ Alive /\ at[t] = "run"
    /\ stopped \/ ~HasWork
    /\ stopped' = TRUE
    /\ Goes(t, "loop")
    /\ UNCHANGED <<registry, session, cur, isRunning, guard, main, wire>>

Construct ==
    /\ main = "ctor" /\ main' = "serving"
    /\ AcceptsNext(0)
    /\ UNCHANGED <<raced, m_dataLen, m_dataBuf, pool, isRunning, guard, stopped, wire>>

\* The acceptor's constructor throws, the joinable threads are destroyed.
BindFails ==
    /\ main = "ctor" /\ main' = "terminated"
    /\ UNCHANGED <<registry, session, pool, isRunning, guard, stopped, wire>>

Eof ==
    /\ main = "serving" /\ main' = "guard"
    /\ isRunning' = FALSE
    /\ UNCHANGED <<registry, session, pool, guard, stopped, wire>>

ResetGuard ==
    /\ main = "guard" /\ main' = "stop"
    /\ guard' = FALSE
    /\ UNCHANGED <<registry, session, pool, isRunning, stopped, wire>>

Stop ==
    /\ main = "stop" /\ main' = "join"
    /\ stopped' = TRUE
    /\ UNCHANGED <<registry, session, pool, isRunning, guard, wire>>

Join ==
    /\ main = "join" /\ main' = "done"
    /\ \A t \in Threads : at[t] = "exited"
    /\ UNCHANGED <<registry, session, pool, isRunning, guard, stopped, wire>>

(***************************************************************************)
(* The reactor and the peers.  Once the context is stopped no completion   *)
(* is taken any more, so neither moves.                                    *)
(***************************************************************************)
Outstanding(i, kind) == Alive /\ ~stopped /\ op[i] = kind /\ ~res[i].ready

Connect(i) ==
    /\ Outstanding(i, "accept") /\ i < MaxId
    /\ Completes(i, FALSE, 0)
    /\ peer' = [peer EXCEPT ![i] = "connected"]
    /\ UNCHANGED <<registry, op, m_dataLen, m_dataBuf, pool, shutdown, sent, rx, tx>>

AcceptFails(i) ==
    /\ AcceptErrors
    /\ Outstanding(i, "accept")
    /\ Completes(i, TRUE, 0)
    /\ UNCHANGED <<registry, op, m_dataLen, m_dataBuf, pool, shutdown, wire>>

\* A read ends with an error only when the peer is gone and all it sent has
\* been read.
ReadFails(i) ==
    /\ Outstanding(i, "readLen") \/ Outstanding(i, "readData")
    /\ rx[i] = <<>> /\ peer[i] = "gone"
    /\ Completes(i, TRUE, 0)
    /\ UNCHANGED <<registry, op, m_dataLen, m_dataBuf, pool, shutdown, wire>>

CompleteReadLen(i) ==
    /\ Outstanding(i, "readLen") /\ rx[i] # <<>>
    /\ m_dataLen' = [m_dataLen EXCEPT ![i] = Head(rx[i]).n]
    /\ rx' = [rx EXCEPT ![i] = Tail(@)]
    /\ Completes(i, FALSE, LenSize)
    /\ UNCHANGED <<registry, op, m_dataBuf, pool, shutdown, peer, sent, tx>>

CompleteReadData(i) ==
    /\ Outstanding(i, "readData") /\ rx[i] # <<>>
    /\ m_dataBuf' = [m_dataBuf EXCEPT ![i] =
                       [job |-> Head(rx[i]).job, size |-> @.size + Transferred(i)]]
    /\ rx' = [rx EXCEPT ![i] = Tail(@)]
    /\ Completes(i, FALSE, Transferred(i))
    /\ UNCHANGED <<registry, op, m_dataLen, pool, shutdown, peer, sent, tx>>

WriteFails(i) ==
    /\ Outstanding(i, "writeLen") \/ Outstanding(i, "writeData")
    /\ peer[i] = "gone"
    /\ Completes(i, TRUE, 0)
    /\ UNCHANGED <<registry, op, m_dataLen, m_dataBuf, pool, shutdown, wire>>

CompleteWriteLen(i) ==
    /\ Outstanding(i, "writeLen")
    /\ tx' = [tx EXCEPT ![i] = Append(@, [t |-> "len", job |-> 0, n |-> m_dataLen[i]])]
    /\ Completes(i, FALSE, LenSize)
    /\ UNCHANGED <<registry, op, m_dataLen, m_dataBuf, pool, shutdown, peer, sent, rx>>

\* async_write consumes from the streambuf what it has sent.
CompleteWriteData(i) ==
    LET buf == m_dataBuf[i] IN
    /\ Outstanding(i, "writeData")
    /\ tx' = [tx EXCEPT ![i] = Append(@, [t |-> "body", job |-> buf.job, n |-> buf.size])]
    /\ m_dataBuf' = [m_dataBuf EXCEPT ![i] = Empty]
    /\ Completes(i, FALSE, buf.size)
    /\ UNCHANGED <<registry, op, m_dataLen, pool, shutdown, peer, sent, rx>>

\* A peer may send its next request before it has the last response.
PeerSends(i) ==
    /\ Alive /\ ~stopped
    /\ peer[i] = "connected" /\ sent[i] < MaxReq
    /\ \E n \in ReqSizes :
         rx' = [rx EXCEPT ![i] = @ \o <<[t |-> "len", job |-> 0, n |-> n],
                                        [t |-> "body", job |-> sent[i] + 1, n |-> n]>>]
    /\ sent' = [sent EXCEPT ![i] = @ + 1]
    /\ UNCHANGED <<registry, session, pool, shutdown, peer, tx>>

\* What was under way when the peer left may arrive or not.
PeerLeaves(i) ==
    /\ Alive /\ ~stopped
    /\ peer[i] = "connected"
    /\ peer' = [peer EXCEPT ![i] = "gone"]
    /\ \E k \in 0 .. Len(rx[i]) : rx' = [rx EXCEPT ![i] = SubSeq(@, 1, k)]
    /\ UNCHANGED <<registry, session, pool, shutdown, sent, tx>>

(***************************************************************************)
(* The specification.                                                      *)
(***************************************************************************)
Handler(t, i) ==
    \/ OnAcceptError(t, i) \/ OnAccept(t, i)
    \/ OnLenReceived(t, i) \/ OnDataReceived(t, i)
    \/ OnLenSent(t, i) \/ OnDataSent(t, i)
    \/ OnFailed(t, i)

ThreadStep(t) ==
    \/ \E i \in Ids : Handler(t, i)
    \/ InitiateAccept(t) \/ InitiateCommunication(t)
    \/ OnRequest(t) \/ OnDisconnect(t)
    \/ Loop(t) \/ RunReturns(t)

Completion(i) ==
    \/ ReadFails(i) \/ CompleteReadLen(i) \/ CompleteReadData(i)
    \/ WriteFails(i) \/ CompleteWriteLen(i) \/ CompleteWriteData(i)

MainStep == ResetGuard \/ Stop \/ Join

PeerStep(i) == Connect(i) \/ PeerSends(i) \/ PeerLeaves(i)

Terminated == main \in {"done", "terminated", "crashed"} /\ UNCHANGED vars

Next ==
    \/ \E t \in Threads : ThreadStep(t)
    \/ \E i \in Ids : Completion(i) \/ PeerStep(i) \/ AcceptFails(i)
    \/ Construct \/ BindFails \/ Eof \/ MainStep
    \/ Terminated

Spec == Init /\ [][Next]_vars

\* The scheduler runs every pool thread, the kernel completes what can be
\* completed, and main() goes on with the shutdown it has begun.
Fairness ==
    /\ \A t \in Threads : WF_vars(ThreadStep(t))
    /\ \A i \in Ids : WF_vars(Completion(i))
    /\ WF_vars(MainStep)

FairSpec == Spec /\ Fairness

(***************************************************************************)
(* Properties.                                                             *)
(***************************************************************************)

\* The implicit strand: the handlers of one session never run on two threads
\* at once, nor while an operation of it is outstanding, although no strand
\* or mutex protects m_dataBuf and m_dataLen.
OneChainPerSession ==
    \A i \in Ids, t \in Threads :
        at[t] \in Busy /\ cur[t] = i =>
            /\ op[i] = "none"
            /\ \A u \in Threads \ {t} : ~(at[u] \in Busy /\ cur[u] = i)

\* The accept chain: at most one accept is outstanding, always for the newest
\* id, and while a thread re-arms it there is none.  An id that has not been
\* given out has no operation, no entry and no connection.
AcceptChain ==
    /\ \A i \in Ids : op[i] = "accept" =>
         /\ m_clientIdCounter = i + 1
         /\ IF res[i].ready /\ ~res[i].ec THEN i < MaxId ELSE peer[i] = "absent"
    /\ \A t \in Threads :
         /\ at[t] = "emplace" => m_clientIdCounter = cur[t] + 1 /\ cur[t] < MaxId
         /\ at[t] \in Busy => cur[t] < m_clientIdCounter
    /\ \A i \in Ids : i >= m_clientIdCounter =>
         op[i] = "none" /\ i \notin m_clients /\ peer[i] = "absent"
    /\ main = "ctor" => m_clientIdCounter = 0

\* The completion handlers keep a bare `this`: as long as threads do not race
\* on the map, whatever still runs for a session finds it in the map.
OwnedIsStored == ~raced => \A i \in Ids : Owned(i) => i \in m_clients

\* An entry that nothing will run for again is one whose accept failed: every
\* other way a session ends goes through its erase.
StoredIsOwned == ~raced => \A i \in m_clients : ~Owned(i) => peer[i] = "absent"

\* m_onRequest gets exactly one whole request, the next one in the peer's
\* order, although frames are pipelined, cut short, or too big to buffer.
HandlerSeesOneRequest ==
    \A t \in Threads : at[t] = "work" =>
        LET i == cur[t] IN
        m_dataBuf[i] = [job |-> (Len(tx[i]) \div 2) + 1, size |-> m_dataLen[i]]

\* What a peer reads is a sequence of whole frames, the k-th being the
\* response to its k-th request.
ResponsesInOrder ==
    \A i \in Ids : \A k \in 1 .. Len(tx[i]) :
        tx[i][k] = IF k % 2 = 1 THEN [t |-> "len", job |-> 0, n |-> RespSize]
                   ELSE [t |-> "body", job |-> k \div 2, n |-> RespSize]

\* A request whose connection stays up is answered in the end, wherever the
\* frames are cut and whichever thread runs the next handler, until the server
\* stops or races on its map.
RequestAnswered ==
    \A i \in Ids : \A k \in 1 .. MaxReq :
        (sent[i] >= k) ~> (Len(tx[i]) >= 2 * k \/ peer[i] = "gone" \/ raced \/ main # "serving")

\* Reading the end of input leads to a clean exit: every pool thread leaves
\* its loop and is joined, even from within a handler.
ShutdownCompletes == (main = "guard") ~> (main \in {"done", "crashed"})

\* benchmark/README.md: "When a client disconnects from the server, its
\* corresponding entry is removed from the session map."
DisconnectedIsRemoved ==
    \A i \in Ids : (peer[i] = "gone") ~> (i \notin m_clients \/ main # "serving")

(***************************************************************************)
(* The refinement.  A connection is open while something runs for it; its  *)
(* current request is the one that has been read and not yet sent back.    *)
(***************************************************************************)
Open(i) ==
    \/ peer[i] # "absent" /\ op[i] # "none"
    \/ \E t \in Threads : at[t] \in {"emplace", "begin", "work"} /\ cur[t] = i

Serving(i) ==
    \/ op[i] = "readData" /\ res[i].ready /\ CheckOperation(i)
    \/ \E t \in Threads : at[t] = "work" /\ cur[t] = i
    \/ op[i] = "writeLen"
    \/ op[i] = "writeData" /\ ~(res[i].ready /\ ~res[i].ec)

Service == INSTANCE RequestService WITH
    Conns   <- Ids,
    conn    <- [i \in Ids |-> IF Open(i) THEN "open"
                              ELSE IF peer[i] = "absent" THEN "free" ELSE "closed"],
    current <- [i \in Ids |-> IF Serving(i) THEN m_dataBuf[i].job ELSE 0],
    answers <- [i \in Ids |-> [k \in 1 .. Len(tx[i]) \div 2 |-> tx[i][2 * k].job]]

\* Each connection is served as RequestService says.
ServesRequests == Service!SSpec
=============================================================================

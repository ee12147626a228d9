------------------------------- MODULE Asio14 -------------------------------
(***************************************************************************)
(* The server and the clients of src/asio14_server and src/asio14_client,  *)
(* composed: the ancestors of the asio18 programs.  The server runs its    *)
(* io_context on one thread, each client on one besides its main(), and    *)
(* there are no timeouts.  In both programs the other end's leaving is     *)
(* reported to a handler, and any other error is thrown out of run(),      *)
(* which is not called again.                                              *)
(*                                                                         *)
(* A connection has two ends with the same functions: an end is a pair of  *)
(* a side and a client.  A frame is two cells, its length and its message. *)
(*                                                                         *)
(* A user who types during an exchange makes main() write into the buffer  *)
(* that the other thread is using; what such a client still sends is junk, *)
(* which is taken to be less than the megabyte that the server's buffer    *)
(* holds (of more a read would end short, and be thrown as an error).      *)
(***************************************************************************)
EXTENDS Naturals, Sequences

CONSTANTS
    Clients, None,
    Rude,         \* the clients whose user may type ahead or press Ctrl-C
    MaxJobs,      \* bound: requests that a user types
    MaxJunk,      \* bound: cells that a client sends after such a race
    AcceptErrors  \* whether an accept may fail

ASSUME BoundsAssumption ==
    /\ None \notin Clients /\ Rude \subseteq Clients
    /\ MaxJobs \in Nat /\ MaxJunk \in Nat /\ AcceptErrors \in BOOLEAN

Ends   == {"server", "client"} \X Clients
Ops    == {"none", "readLen", "readData", "writeLen", "writeData"}
Reads  == {"readLen", "readData"}
Writes == {"writeLen", "writeData"}

VARIABLES
    \* either end
    op, res,          \* its outstanding operation, and how that has ended
    m_dataBuf,        \* the message it holds, 0 for none
    wire,             \* what it has written and the other end has not read
    \* the server
    srv,              \* where main() is
    io,               \* its thread: in "run", or how it left: "returned", "thrown", "deaf"
    handling,         \* the client whose request the thread sleeps for
    m_clients,        \* the sessions, but for the one that awaits the next accept
    \* each client
    ui, id,           \* where main() is; the number of requests typed
    bg,               \* the background thread is inside run()
    guard, is_disconnected

ends   == <<op, res, m_dataBuf, wire>>
server == <<srv, io, handling, m_clients>>
client == <<ui, id, bg, guard, is_disconnected>>
vars   == <<ends, server, client>>

Init ==
    /\ op = [e \in Ends |-> "none"] /\ res = [e \in Ends |-> "none"]
    /\ m_dataBuf = [e \in Ends |-> 0] /\ wire = [e \in Ends |-> <<>>]
    /\ srv = "start" /\ io = "run" /\ handling = None /\ m_clients = {}
    /\ ui = [c \in Clients |-> "start"] /\ id = [c \in Clients |-> 0]
    /\ bg = [c \in Clients |-> FALSE]
    /\ guard = [c \in Clients |-> TRUE]
    /\ is_disconnected = [c \in Clients |-> FALSE]

Server(c) == <<"server", c>>
Client(c) == <<"client", c>>
Other(e)  == IF e[1] = "server" THEN Client(e[2]) ELSE Server(e[2])

Listening == srv \in {"serving", "join"}
Left(c)   == ui[c] = "ended"
Served(c) == c \in m_clients

\* The connection waits in the backlog.
Queued(c) == ui[c] \notin {"start", "failed"} /\ res[Server(c)] = "none"

Closed(e) ==
    IF e[1] = "client" THEN Left(e[2])
    ELSE ~Listening \/ (~Served(e[2]) /\ ~Queued(e[2]))

Raced(e) == e[1] = "client" /\ ui[e[2]] = "raced"
Junk     == <<"junk", 0>>

Min(a, b)    == IF a < b THEN a ELSE b
Prefix(w, k) == SubSeq(w, 1, Min(k, Len(w)))

(***************************************************************************)
(* Operations, alike at both ends.                                         *)
(***************************************************************************)
Starts(e, kind) ==
    /\ op' = [op EXCEPT ![e] = kind]
    /\ res' = [res EXCEPT ![e] = "pending"]

Stops(e) ==
    /\ op' = [op EXCEPT ![e] = "none"]
    /\ res' = [res EXCEPT ![e] = "over"]

Pending(e, kinds) == ~Closed(e) /\ op[e] \in kinds /\ res[e] = "pending"
Completes(e, how) == res' = [res EXCEPT ![e] = how]

CompleteWrite(e) ==
    /\ Pending(e, Writes)
    /\ wire' = [wire EXCEPT ![e] =
         IF Closed(Other(e)) THEN <<>>
         ELSE Append(@, IF Raced(e) THEN Junk ELSE <<op[e], m_dataBuf[e]>>)]
    /\ m_dataBuf' = IF op[e] = "writeLen" THEN m_dataBuf ELSE [m_dataBuf EXCEPT ![e] = 0]
    /\ Completes(e, "ok")
    /\ UNCHANGED <<op, server, client>>

\* Fault: connection_reset is not told from the other errors.
ReadEndsByReset(e) ==
    /\ Pending(e, Reads) /\ Closed(Other(e)) /\ wire[Other(e)] = <<>>
    /\ \E how \in {"eof", "error"} : Completes(e, how)
    /\ UNCHANGED <<op, m_dataBuf, wire, server, client>>

\* A read of what is cut off ends with eof or connection_reset.
ReadEnds(e) ==
    /\ Pending(e, Reads) /\ Closed(Other(e)) /\ wire[Other(e)] = <<>>
    /\ Completes(e, "eof")
    /\ UNCHANGED <<op, m_dataBuf, wire, server, client>>

\* connection_reset, or broken_pipe.
WriteFails(e) ==
    /\ Pending(e, Writes) /\ Closed(Other(e))
    /\ \E how \in {"eof", "error"} : Completes(e, how)
    /\ UNCHANGED <<op, m_dataBuf, wire, server, client>>

Kernel(e) == CompleteWrite(e) \/ ReadEnds(e) \/ WriteFails(e)

\* The message of the next cell; the handler of a read takes the cell.
Arrived(e) == Head(wire[Other(e)])[2]
Takes(e)   == wire' = [wire EXCEPT ![Other(e)] = Tail(@)]

\* A handler runs for the operation of this kind, which has gone well.  A junk
\* length announces anything, so that any junk may be the message.
Ran(e, kind) ==
    /\ op[e] = kind
    /\ IF kind \in Writes THEN res[e] = "ok"
       ELSE /\ res[e] = "pending" /\ wire[Other(e)] # <<>>
            /\ Head(wire[Other(e)])[1] \in
                 {"junk", IF kind = "readLen" THEN "writeLen" ELSE "writeData"}

\* Fault: a session does not read again after its response.
ChainWithoutSecondRequest ==
    [server |-> [readLen |-> "readData", writeLen |-> "writeData"],
     client |-> [writeLen |-> "writeData", writeData |-> "readLen", readLen |-> "readData"]]

\* onLenReceived, onLenSent and onDataSent: every handler ends by starting the
\* next operation; onDataReceived is where the two sides differ.
Chain ==
    [server |-> [readLen |-> "readData", writeLen |-> "writeData", writeData |-> "readLen"],
     client |-> [writeLen |-> "writeData", writeData |-> "readLen", readLen |-> "readData"]]

Continues(e) ==
    /\ \E kind \in DOMAIN Chain[e[1]] :
         /\ Ran(e, kind) /\ Starts(e, Chain[e[1]][kind])
         /\ IF kind \in Reads THEN Takes(e) ELSE UNCHANGED wire
    /\ UNCHANGED <<m_dataBuf, server, client>>

(***************************************************************************)
(* The server.                                                             *)
(***************************************************************************)
\* The thread runs before the Server is constructed, which may throw.
Construct ==
    /\ srv = "start" /\ srv' \in {"serving", "ended"}
    /\ UNCHANGED <<ends, io, handling, m_clients, client>>

\* The end of input: work_guard.reset() and stop().
Stop ==
    /\ srv = "serving" /\ srv' = "join"
    /\ UNCHANGED <<ends, io, handling, m_clients, client>>

\* What is left of an end when its process is gone; of what it has written
\* the first k cells are still delivered.
Forget(f, gone, v) == f' = [e \in Ends |-> IF e \in gone THEN v ELSE f[e]]

Cut(gone, k) ==
    /\ Forget(op, gone, "none") /\ Forget(res, gone, "over")
    /\ Forget(m_dataBuf, gone, 0)
    /\ wire' = [e \in Ends |->
         IF Other(e) \in gone THEN <<>>
         ELSE IF e \in gone THEN Prefix(wire[e], k) ELSE wire[e]]

\* Returning closes every socket; unread requests reset their connections.
Join ==
    /\ srv = "join" /\ io # "run" /\ srv' = "ended"
    /\ m_clients' = {}
    /\ \E k \in 0 .. 2 : Cut({"server"} \X Clients, k)
    /\ UNCHANGED <<io, handling, client>>

RunReturns ==
    /\ srv = "join" /\ io = "run" /\ handling = None
    /\ io' = "returned"
    /\ UNCHANGED <<ends, srv, handling, m_clients, client>>

\* The one thread is free to run a handler.
Turn == srv = "serving" /\ io = "run" /\ handling = None

\* The handler re-arms the accept and starts the session.
OnAccept(c) ==
    /\ Turn /\ Queued(c)
    /\ m_clients' = m_clients \cup {c}
    /\ Starts(Server(c), "readLen")
    /\ UNCHANGED <<m_dataBuf, wire, srv, io, handling, client>>

OnAcceptError ==
    /\ AcceptErrors /\ Turn
    /\ io' = "deaf"
    /\ UNCHANGED <<ends, srv, handling, m_clients, client>>

\* Fault: the sessions share one buffer.
OnDataReceivedInOneBuffer(c) ==
    /\ Turn /\ Ran(Server(c), "readData")
    /\ handling' = c
    /\ Takes(Server(c)) /\ Completes(Server(c), "ok")
    /\ m_dataBuf' = [e \in Ends |->
         IF e[1] = "server" THEN Arrived(Server(c)) ELSE m_dataBuf[e]]
    /\ UNCHANGED <<op, srv, io, m_clients, client>>

\* communicationHandler sleeps for the workload, then writes the response.
OnDataReceived(c) ==
    /\ Turn /\ Ran(Server(c), "readData")
    /\ handling' = c
    /\ Takes(Server(c)) /\ Completes(Server(c), "ok")
    /\ m_dataBuf' = [m_dataBuf EXCEPT ![Server(c)] = Arrived(Server(c))]
    /\ UNCHANGED <<op, srv, io, m_clients, client>>

InitiateSendResponse(c) ==
    /\ handling = c /\ handling' = None
    /\ Starts(Server(c), "writeLen")
    /\ UNCHANGED <<m_dataBuf, wire, srv, io, m_clients, client>>

\* Fault: the session is reported, not erased.
OnDisconnectedKeeps(c) ==
    /\ Turn /\ res[Server(c)] = "eof"
    /\ Stops(Server(c))
    /\ UNCHANGED <<m_dataBuf, wire, server, client>>

OnDisconnected(c) ==
    /\ Turn /\ res[Server(c)] = "eof"
    /\ m_clients' = m_clients \ {c}
    /\ Stops(Server(c))
    /\ UNCHANGED <<m_dataBuf, wire, srv, io, handling, client>>

\* The exception ends the thread, and nobody else runs the io_context.
OnError(c) ==
    /\ Turn /\ res[Server(c)] = "error"
    /\ io' = "thrown"
    /\ UNCHANGED <<ends, srv, handling, m_clients, client>>

ServerStep(c) ==
    \/ OnAccept(c) \/ (Turn /\ Continues(Server(c)))
    \/ OnDataReceived(c) \/ InitiateSendResponse(c)
    \/ OnDisconnected(c) \/ OnError(c)

(***************************************************************************)
(* A client.                                                               *)
(***************************************************************************)
Goes(c, where) == ui' = [ui EXCEPT ![c] = where]
Gives(f, c, v) == f' = [f EXCEPT ![c] = v]

Connect(c) ==
    /\ ui[c] = "start" /\ srv # "start"
    /\ IF Listening THEN Goes(c, "input") ELSE Goes(c, "failed")
    /\ Gives(bg, c, Listening)
    /\ UNCHANGED <<ends, server, id, guard, is_disconnected>>

SendRequest(c) ==
    /\ ui[c] = "input" /\ id[c] < MaxJobs
    /\ op[Client(c)] = "none" /\ ~is_disconnected[c]
    /\ Gives(id, c, id[c] + 1)
    /\ m_dataBuf' = [m_dataBuf EXCEPT ![Client(c)] = id[c] + 1]
    /\ Starts(Client(c), "writeLen")
    /\ UNCHANGED <<wire, server, ui, bg, guard, is_disconnected>>

\* Two threads in one buffer.
TypeAhead(c) ==
    /\ ui[c] = "input" /\ op[Client(c)] # "none" /\ ~is_disconnected[c]
    /\ Goes(c, "raced")
    /\ \E k \in 0 .. MaxJunk :
         wire' = [wire EXCEPT ![Client(c)] = @ \o [j \in 1 .. k |-> Junk]]
    /\ UNCHANGED <<op, res, m_dataBuf, server, id, bg, guard, is_disconnected>>

\* Fault: the guard is reset by the disconnect handler only.
LeaveLoopKeepsGuard(c) ==
    /\ ui[c] = "input" /\ Goes(c, "join")
    /\ UNCHANGED <<ends, server, id, bg, guard, is_disconnected>>

\* The end of input, or any input once the server is known to have left.
LeaveLoop(c) ==
    /\ ui[c] = "input" /\ Goes(c, "join")
    /\ Gives(guard, c, FALSE)
    /\ UNCHANGED <<ends, server, id, bg, is_disconnected>>

Exit(c) ==
    /\ Goes(c, "ended")
    /\ Gives(id, c, 0) /\ Gives(bg, c, FALSE)
    /\ Gives(guard, c, FALSE) /\ Gives(is_disconnected, c, TRUE)

ClientJoin(c) ==
    /\ ui[c] = "join" /\ ~bg[c] /\ Exit(c)
    /\ Cut({Client(c)}, Len(wire[Client(c)]))
    /\ UNCHANGED server

\* The user's Ctrl-C, at any moment; what is under way is cut off.
Killed(c) ==
    /\ ui[c] \in {"input", "join", "raced"} /\ Exit(c)
    /\ \E k \in 0 .. Len(wire[Client(c)]) : Cut({Client(c)}, k)
    /\ UNCHANGED server

InRun(c) == bg[c] /\ ui[c] \in {"input", "join"}

OnResponse(c) ==
    /\ InRun(c) /\ Ran(Client(c), "readData")
    /\ Takes(Client(c)) /\ Stops(Client(c))
    /\ UNCHANGED <<m_dataBuf, server, client>>

\* The disconnect handler; after an exception run() is left as well.
OnServerLost(c) ==
    /\ InRun(c) /\ res[Client(c)] \in {"eof", "error"}
    /\ Gives(guard, c, FALSE) /\ Gives(is_disconnected, c, TRUE)
    /\ Gives(bg, c, res[Client(c)] = "eof")
    /\ Stops(Client(c))
    /\ UNCHANGED <<m_dataBuf, wire, server, ui, id>>

BgReturns(c) ==
    /\ InRun(c) /\ ~guard[c] /\ op[Client(c)] = "none"
    /\ Gives(bg, c, FALSE)
    /\ UNCHANGED <<ends, server, ui, id, guard, is_disconnected>>

ClientStep(c) ==
    \/ InRun(c) /\ Continues(Client(c))
    \/ OnResponse(c) \/ OnServerLost(c) \/ BgReturns(c) \/ ClientJoin(c)

UserStep(c) ==
    \/ Connect(c) \/ SendRequest(c) \/ LeaveLoop(c)
    \/ c \in Rude /\ (TypeAhead(c) \/ Killed(c))

(***************************************************************************)
(* The specification.                                                      *)
(***************************************************************************)
Next ==
    \/ Construct \/ Stop \/ Join \/ RunReturns \/ OnAcceptError
    \/ \E c \in Clients : ServerStep(c) \/ ClientStep(c) \/ UserStep(c)
    \/ \E e \in Ends : Kernel(e)

Spec == Init /\ [][Next]_vars

\* Each thread runs while it can, and so does the kernel.  No order among the
\* handlers that are ready is assumed, and the users are under no obligation.
Fairness ==
    /\ WF_vars(Join) /\ WF_vars(RunReturns \/ \E c \in Clients : ServerStep(c))
    /\ \A c \in Clients : WF_vars(ClientStep(c))
    /\ WF_vars(\E e \in Ends : Kernel(e))

FairSpec == Spec /\ Fairness

(***************************************************************************)
(* Properties.                                                             *)
(***************************************************************************)
\* The request the server sleeps for is the one its client awaits the answer
\* to, and what the client's handler is given is the answer to its last
\* request, whatever the other clients do; the job_id, always 1, cannot tell.
AnswerIsOwn ==
    \A c \in Clients : ui[c] \in {"input", "join"} =>
        /\ handling = c => m_dataBuf[Server(c)] = id[c] /\ op[Client(c)] # "none"
        /\ Ran(Client(c), "readData") => Arrived(Client(c)) = id[c]

\* The map holds exactly the sessions that have an operation or a handler: with
\* one thread none is left behind, and none runs on a destroyed Client.
MapIsExact ==
    \A c \in Clients :
        Served(c) <=> op[Server(c)] # "none" \/ handling = c

\* A client that leaves, or sends junk, stops the service for the others only
\* if it leaves while it is being answered.
SilencedByBrokenPipe ==
    srv = "serving" /\ io \notin {"run", "deaf"} =>
        \E c \in Clients : Left(c) /\ op[Server(c)] \in Writes

Silent == srv = "serving" /\ io # "run"

\* As long as the server's thread has not been thrown out of run(), every
\* request is answered in the end, however the handlers block the one thread.
Awaiting == {c \in Clients : op[Client(c)] # "none" /\ ~Raced(Client(c))}

RequestsAnswered == []<>(Awaiting = {} \/ Silent)

\* Clients that have left are removed from the map.
LeaversAreErased == []<>(io # "run" \/ \A c \in m_clients : ~Left(c))

\* The end of input ends the server, even after its thread was lost; and it
\* ends a client, unless that waits for a server that has fallen silent.
ShutdownCompletes ==
    /\ (srv = "join") ~> (srv = "ended")
    /\ []<>(Silent \/ \A c \in Clients : ui[c] # "join")
=============================================================================

---------------------------- MODULE Asio14Proofs ----------------------------
(***************************************************************************)
(* Proofs about Asio14, for any number of clients and any bounds: the map  *)
(* is exact, what silences the server, and that a client gets its own      *)
(* answer.  IInv is inductive: the thread sleeps for a session only        *)
(* between its read and its write, and leaves run() only between handlers; *)
(* an end that has stopped is never started again; and a client that has   *)
(* left stays so.  Pairs, on top of it, gives the four cells of every      *)
(* exchange their places.                                                  *)
(***************************************************************************)
EXTENDS Asio14, TLAPS

Ended == {"none", "pending", "ok", "eof", "error", "over"}
Uis   == {"start", "failed", "input", "raced", "join", "ended"}

StateType ==
    /\ op \in [Ends -> Ops] /\ res \in [Ends -> Ended]
    /\ m_clients \subseteq Clients /\ handling \in Clients \cup {None}
    /\ ui \in [Clients -> Uis]
    /\ srv \in {"start", "serving", "join", "ended"}
    /\ io \in {"run", "returned", "thrown", "deaf"}

\* A session is in the map exactly while it has an operation, or its handler
\* sleeps between two of them.
Exact ==
    /\ \A c \in Clients : Served(c) <=> op[Server(c)] # "none"
    /\ \A c \in Clients : handling = c => op[Server(c)] = "readData" /\ res[Server(c)] = "ok"
    /\ io # "run" => handling = None

\* The only error that is thrown is that of a write to a client that has left.
Thrown ==
    /\ \A c \in Clients : res[Server(c)] = "error" => op[Server(c)] \in Writes /\ Left(c)
    /\ srv = "serving" /\ io \notin {"run", "deaf"} =>
         \E c \in Clients : res[Server(c)] = "error"
    /\ srv = "start" => io = "run"

IInv == StateType /\ Exact /\ Thrown

\* The ends of the connections are distinct.
LEMMA EndFacts ==
    /\ \A c \in Clients : Server(c) \in Ends /\ Client(c) \in Ends
    /\ \A c, d \in Clients : Server(c) # Client(d)
    /\ \A c, d \in Clients : Server(c) = Server(d) => c = d
    /\ \A c \in Clients : Other(Server(c)) = Client(c)
    /\ \A c \in Clients : Closed(Client(c)) => Left(c)
    /\ \A e \in Ends : \E c \in Clients : e = Server(c) \/ e = Client(c)
BY DEF Ends, Server, Client, Other, Closed

\* Initially no session exists, and the thread runs.
LEMMA InitIInv == Init => IInv
<1> SUFFICES ASSUME Init PROVE IInv
  OBVIOUS
<1>1. \A c \in Clients : op[Server(c)] = "none" /\ res[Server(c)] = "none"
  BY EndFacts DEF Init
<1> QED BY <1>1, BoundsAssumption
        DEF Init, IInv, StateType, Exact, Thrown, Ops, Ended, Uis, Served

\* What an operation of the kernel does to the outcomes.
LEMMA KernelStep ==
    ASSUME IInv, NEW e \in Ends, Kernel(e)
    PROVE  IInv'
<1>1. UNCHANGED <<op, srv, io, handling, m_clients, ui>>
  BY DEF Kernel, CompleteWrite, ReadEnds, WriteFails, server, client
<1>2. PICK how \in {"ok", "eof", "error"} : res' = [res EXCEPT ![e] = how]
  BY DEF Kernel, CompleteWrite, ReadEnds, WriteFails, Completes
<1>3. res[e] = "pending"
  BY DEF Kernel, CompleteWrite, ReadEnds, WriteFails, Pending
<1>4. how = "error" => op[e] \in Writes /\ Closed(Other(e))
  <2>1. CASE CompleteWrite(e)
    BY <2>1, <1>2, <1>3 DEF CompleteWrite, Completes, IInv, StateType
  <2>2. CASE ReadEnds(e)
    BY <2>2, <1>2, <1>3 DEF ReadEnds, Completes, IInv, StateType
  <2>3. CASE WriteFails(e)
    BY <2>3 DEF WriteFails, Pending
  <2> QED BY <2>1, <2>2, <2>3 DEF Kernel
<1>5. StateType'
  BY <1>1, <1>2 DEF IInv, StateType, Ended
<1>6. \A c \in Clients : res[Server(c)] \in {"ok", "error"} => res'[Server(c)] = res[Server(c)]
  BY <1>2, <1>3, EndFacts DEF IInv, StateType
<1>7. Exact'
  BY <1>1, <1>6, EndFacts DEF IInv, Exact, Served
<1>8. \A c \in Clients : res'[Server(c)] = "error" => op[Server(c)] \in Writes /\ Left(c)
  <2> TAKE c \in Clients
  <2>1. CASE e = Server(c)
    BY <2>1, <1>2, <1>4, EndFacts DEF IInv, StateType
  <2>2. CASE e # Server(c)
    BY <2>2, <1>2, EndFacts DEF IInv, StateType, Thrown
  <2> QED BY <2>1, <2>2
<1>9. Thrown'
  BY <1>1, <1>6, <1>8 DEF IInv, Thrown, Left
<1> QED BY <1>5, <1>7, <1>9 DEF IInv

\* A handler of the server's thread, which no thrown error has ended.
LEMMA ServerHandler ==
    ASSUME IInv, NEW c \in Clients, ServerStep(c)
    PROVE  IInv'
<1>1. ASSUME NEW kind \in Ops \ {"none"}, op' = [op EXCEPT ![Server(c)] = kind],
             res' = [res EXCEPT ![Server(c)] = "pending"],
             io = "run", UNCHANGED <<srv, io, ui>>,
             m_clients' = m_clients \cup {c}, handling' = None
      PROVE  IInv'
  <2>1. StateType'
    BY <1>1, EndFacts DEF IInv, StateType, Ended
  <2>2. \A d \in Clients \ {c} : op'[Server(d)] = op[Server(d)] /\ res'[Server(d)] = res[Server(d)]
    BY <1>1, EndFacts DEF IInv, StateType
  <2>3. op'[Server(c)] = kind /\ res'[Server(c)] = "pending"
    BY <1>1, EndFacts DEF IInv, StateType
  <2>4. Exact'
    BY <1>1, <2>2, <2>3, BoundsAssumption DEF IInv, Exact, Served
  <2>5. Thrown'
    BY <1>1, <2>2, <2>3 DEF IInv, Thrown, Left
  <2> QED BY <2>1, <2>4, <2>5 DEF IInv
<1>2. CASE OnAccept(c)
  <2>1. handling = None /\ io = "run"
    BY <1>2 DEF OnAccept, Turn
  <2> QED BY <1>1, <1>2, <2>1 DEF OnAccept, Starts, client, Ops
<1>3. CASE Turn /\ Continues(Server(c))
  <2>1. PICK kind \in DOMAIN Chain["server"] :
          Ran(Server(c), kind) /\ Starts(Server(c), Chain["server"][kind])
    BY <1>3 DEF Continues, Server
  <2>2. Chain["server"][kind] \in Ops \ {"none"} /\ kind # "none"
    BY DEF Chain, Ops
  <2>3. Served(c)
    BY <2>1, <2>2 DEF Ran, IInv, Exact
  <2>4. m_clients = m_clients \cup {c}
    BY <2>3 DEF Served
  <2> QED BY <1>1, <1>3, <2>1, <2>2, <2>4 DEF Continues, Starts, Turn, server, client
<1>4. CASE InitiateSendResponse(c)
  <2>1. handling = c /\ io = "run" /\ Served(c)
    BY <1>4, BoundsAssumption DEF InitiateSendResponse, IInv, Exact
  <2>2. m_clients = m_clients \cup {c}
    BY <2>1 DEF Served
  <2> QED BY <1>1, <1>4, <2>1, <2>2 DEF InitiateSendResponse, Starts, client, Ops
<1>5. CASE OnDataReceived(c)
  <2>1. op[Server(c)] = "readData" /\ res[Server(c)] = "pending"
    BY <1>5 DEF OnDataReceived, Ran, Writes
  <2>2. res'[Server(c)] = "ok"
    BY <1>5, EndFacts DEF OnDataReceived, Completes, IInv, StateType
  <2>3. \A d \in Clients \ {c} : res'[Server(d)] = res[Server(d)]
    BY <1>5, EndFacts DEF OnDataReceived, Completes, IInv, StateType
  <2>4. StateType'
    BY <1>5, EndFacts DEF OnDataReceived, Completes, IInv, StateType, Ended, client
  <2>5. Exact'
    BY <1>5, <2>1, <2>2 DEF OnDataReceived, Turn, IInv, Exact, Served
  <2>6. Thrown'
    BY <1>5, <2>2, <2>3 DEF OnDataReceived, Turn, IInv, Thrown, Left, client
  <2> QED BY <2>4, <2>5, <2>6 DEF IInv
<1>6. CASE OnDisconnected(c)
  <2>1. op'[Server(c)] = "none" /\ res'[Server(c)] = "over"
    BY <1>6, EndFacts DEF OnDisconnected, Stops, IInv, StateType
  <2>2. \A d \in Clients \ {c} : op'[Server(d)] = op[Server(d)] /\ res'[Server(d)] = res[Server(d)]
    BY <1>6, EndFacts DEF OnDisconnected, Stops, IInv, StateType
  <2>3. StateType'
    BY <1>6, EndFacts DEF OnDisconnected, Stops, IInv, StateType, Ops, Ended, client
  <2>4. Exact'
    BY <1>6, <2>1, <2>2, BoundsAssumption DEF OnDisconnected, Turn, IInv, Exact, Served
  <2>5. Thrown'
    BY <1>6, <2>1, <2>2 DEF OnDisconnected, Turn, IInv, Thrown, Left, client
  <2> QED BY <2>3, <2>4, <2>5 DEF IInv
<1>7. CASE OnError(c)
  <2>1. io' = "thrown" /\ srv' = "serving" /\ handling' = None /\ res'[Server(c)] = "error"
    BY <1>7 DEF OnError, Turn, ends
  <2>2. UNCHANGED <<op, res, m_clients, ui>>
    BY <1>7 DEF OnError, ends, client
  <2>3. StateType'
    BY <2>1, <2>2 DEF IInv, StateType
  <2>5. Exact'
    BY <2>1, <2>2, BoundsAssumption DEF IInv, Exact, Served
  <2>4. Thrown'
    BY <2>1, <2>2 DEF IInv, Thrown, Left
  <2> QED BY <2>3, <2>4, <2>5 DEF IInv
<1> QED BY <1>2, <1>3, <1>4, <1>5, <1>6, <1>7 DEF ServerStep

\* The server's main() and the end of its thread.
LEMMA ServerMain ==
    ASSUME IInv, Construct \/ Stop \/ Join \/ RunReturns \/ OnAcceptError
    PROVE  IInv'
<1>1. CASE Construct \/ Stop \/ RunReturns
  BY <1>1 DEF Construct, Stop, RunReturns, ends, client, IInv, StateType, Exact, Thrown,
     Served, Left
<1>2. CASE OnAcceptError
  BY <1>2 DEF OnAcceptError, Turn, ends, client, IInv, StateType, Exact, Thrown, Served, Left
<1>3. CASE Join
  <2>1. /\ op' = [e \in Ends |-> IF e \in {"server"} \X Clients THEN "none" ELSE op[e]]
        /\ res' = [e \in Ends |-> IF e \in {"server"} \X Clients THEN "over" ELSE res[e]]
    BY <1>3 DEF Join, Cut, Forget
  <2>2. \A c \in Clients : Server(c) \in {"server"} \X Clients
    BY DEF Server
  <2>3. \A c \in Clients : op'[Server(c)] = "none" /\ res'[Server(c)] = "over"
    BY <2>1, <2>2, EndFacts
  <2>4. StateType'
    BY <1>3, <2>1 DEF Join, IInv, StateType, Ops, Ended, client
  <2>5. handling' = None
    BY <1>3 DEF Join, IInv, Exact
  <2> QED BY <1>3, <2>3, <2>4, <2>5, BoundsAssumption DEF Join, IInv, Exact, Thrown, Served
<1> QED BY <1>1, <1>2, <1>3

\* A client's own steps leave the sessions alone, and a client that has left
\* takes none.
LEMMA ClientSteps ==
    ASSUME IInv, NEW c \in Clients, ClientStep(c) \/ UserStep(c)
    PROVE  IInv'
<1>1. UNCHANGED <<srv, io, handling, m_clients>>
  BY DEF ClientStep, UserStep, Continues, OnResponse, OnServerLost, BgReturns, ClientJoin,
     Connect, SendRequest, TypeAhead, LeaveLoop, Killed, ends, server, client
<1>2. ui[c] # "ended" /\ \E where \in Uis : ui' = [ui EXCEPT ![c] = where]
  <2>1. CASE UNCHANGED ui /\ InRun(c)
    <3>1. ui[c] \in Uis /\ ui' = [ui EXCEPT ![c] = ui[c]]
      BY <2>1 DEF IInv, StateType
    <3> QED BY <2>1, <3>1 DEF InRun
  <2>2. CASE SendRequest(c)
    <3>1. ui[c] \in Uis /\ ui' = [ui EXCEPT ![c] = ui[c]]
      BY <2>2 DEF SendRequest, IInv, StateType
    <3> QED BY <2>2, <3>1 DEF SendRequest
  <2>3. CASE ClientJoin(c) \/ Connect(c) \/ TypeAhead(c) \/ LeaveLoop(c) \/ Killed(c)
    BY <2>3 DEF ClientJoin, Connect, TypeAhead, LeaveLoop, Killed, Exit, Goes, Uis
  <2>4. CASE (InRun(c) /\ Continues(Client(c))) \/ OnResponse(c) \/ OnServerLost(c) \/ BgReturns(c)
    BY <2>1, <2>4 DEF Continues, OnResponse, OnServerLost, BgReturns, client
  <2> QED BY <2>2, <2>3, <2>4 DEF ClientStep, UserStep
<1>3. /\ \E kind \in Ops : op' = [op EXCEPT ![Client(c)] = kind]
      /\ \E how \in Ended : res' = [res EXCEPT ![Client(c)] = how]
  <2>0. op = [op EXCEPT ![Client(c)] = op[Client(c)]] /\ op[Client(c)] \in Ops
        /\ res = [res EXCEPT ![Client(c)] = res[Client(c)]] /\ res[Client(c)] \in Ended
    BY EndFacts DEF IInv, StateType
  <2>1. UNCHANGED <<op, res>> =>
          /\ \E kind \in Ops : op' = [op EXCEPT ![Client(c)] = kind]
          /\ \E how \in Ended : res' = [res EXCEPT ![Client(c)] = how]
    BY <2>0
  <2>2. CASE InRun(c) /\ Continues(Client(c))
    <3>1. PICK kind \in DOMAIN Chain["client"] : Starts(Client(c), Chain["client"][kind])
      BY <2>2 DEF Continues, Client
    <3>2. Chain["client"][kind] \in Ops
      BY DEF Chain, Ops
    <3> QED BY <3>1, <3>2 DEF Starts, Ended
  <2>3. CASE OnResponse(c) \/ OnServerLost(c) \/ SendRequest(c)
    BY <2>3 DEF OnResponse, OnServerLost, SendRequest, Starts, Stops, Ops, Ended
  <2>4. CASE ClientJoin(c) \/ Killed(c)
    <3>1. /\ op' = [e \in Ends |-> IF e \in {Client(c)} THEN "none" ELSE op[e]]
          /\ res' = [e \in Ends |-> IF e \in {Client(c)} THEN "over" ELSE res[e]]
      BY <2>4 DEF ClientJoin, Killed, Cut, Forget
    <3>2. op' = [op EXCEPT ![Client(c)] = "none"] /\ res' = [res EXCEPT ![Client(c)] = "over"]
      BY <3>1 DEF IInv, StateType
    <3> QED BY <3>2 DEF Ops, Ended
  <2>5. CASE BgReturns(c) \/ Connect(c) \/ LeaveLoop(c) \/ TypeAhead(c)
    BY <2>1, <2>5 DEF BgReturns, Connect, LeaveLoop, TypeAhead, ends
  <2> QED BY <2>2, <2>3, <2>4, <2>5 DEF ClientStep, UserStep
<1>4. \A d \in Clients : op'[Server(d)] = op[Server(d)] /\ res'[Server(d)] = res[Server(d)]
  BY <1>3, EndFacts DEF IInv, StateType
<1>5. \A d \in Clients : Left(d) => Left(d)'
  BY <1>2 DEF Left, IInv, StateType
<1>6. StateType'
  BY <1>1, <1>2, <1>3 DEF IInv, StateType
<1> QED BY <1>1, <1>4, <1>5, <1>6 DEF IInv, Exact, Thrown, Served

\* Every step preserves the invariant.
LEMMA NextIInv == IInv /\ [Next]_vars => IInv'
<1> SUFFICES ASSUME IInv, [Next]_vars PROVE IInv'
  OBVIOUS
<1>1. CASE UNCHANGED vars
  BY <1>1 DEF vars, ends, server, client, IInv, StateType, Exact, Thrown, Served, Left
<1> QED BY <1>1, KernelStep, ServerHandler, ServerMain, ClientSteps DEF Next

\* In every state of every execution the map is exact.
THEOREM MapTheorem == Spec => []MapIsExact
<1>1. IInv => MapIsExact
  BY DEF IInv, Exact, MapIsExact
<1> QED BY <1>1, InitIInv, NextIInv, PTL DEF Spec

\* In every state of every execution a server that was silenced by an exception
\* was so by a client that left while it was being answered.
THEOREM BrokenPipeTheorem == Spec => []SilencedByBrokenPipe
<1>1. IInv => SilencedByBrokenPipe
  BY DEF IInv, Thrown, SilencedByBrokenPipe
<1> QED BY <1>1, InitIInv, NextIInv, PTL DEF Spec
-----------------------------------------------------------------------------
(***************************************************************************)
(* Answers.  An exchange moves four cells: the client writes two and takes *)
(* two.  ClientAt and ServerAt tell from an end's operation how many of    *)
(* them the end has written or taken, and what is on the wire is the       *)
(* difference.  Of a user who types ahead nothing is claimed.              *)
(***************************************************************************)
Cells == {"junk", "writeLen", "writeData"} \X Nat

ContentType ==
    /\ wire \in [Ends -> Seq(Cells)] /\ m_dataBuf \in [Ends -> Nat]
    /\ id \in [Clients -> Nat]

\* Of the first p cells of an exchange, those of the request and of the response.
Asked(p) == IF p < 2 THEN p ELSE 2
Told(p)  == IF p < 2 THEN 0 ELSE p - 2

ClientAt(c, p) ==
    \/ op[Client(c)] = "writeLen"  /\ res[Client(c)] # "ok" /\ p = 0
    \/ op[Client(c)] = "writeLen"  /\ res[Client(c)] = "ok" /\ p = 1
    \/ op[Client(c)] = "writeData" /\ res[Client(c)] # "ok" /\ p = 1
    \/ op[Client(c)] = "writeData" /\ res[Client(c)] = "ok" /\ p = 2
    \/ op[Client(c)] = "readLen"  /\ p = 2
    \/ op[Client(c)] = "readData" /\ p = 3
    \/ op[Client(c)] = "none"     /\ p = 4

\* Between two exchanges the server cannot know that the next has begun.
ServerAt(c, s) ==
    \/ op[Server(c)] \in {"none", "readLen"} /\ s \in {0, 4}
    \/ op[Server(c)] = "readData"  /\ res[Server(c)] # "ok" /\ s = 1
    \/ op[Server(c)] = "readData"  /\ res[Server(c)] = "ok" /\ s = 2
    \/ op[Server(c)] = "writeLen"  /\ res[Server(c)] # "ok" /\ s = 2
    \/ op[Server(c)] = "writeLen"  /\ res[Server(c)] = "ok" /\ s = 3
    \/ op[Server(c)] = "writeData" /\ res[Server(c)] # "ok" /\ s = 3
    \/ op[Server(c)] = "writeData" /\ res[Server(c)] = "ok" /\ s \in {0, 4}

\* Every cell of w carries the message n.
AllOf(w, n) == \A k \in 1 .. Len(w) : w[k][2] = n

Exchange(c, p, s) ==
    /\ p \in 0 .. 4 /\ s \in 0 .. 4
    /\ ClientAt(c, p) /\ ServerAt(c, s)
    /\ Asked(p) = Asked(s) + Len(wire[Client(c)])
    /\ Told(s) = Told(p) + Len(wire[Server(c)])
    /\ p < 2 => m_dataBuf[Client(c)] = id[c]
    /\ s \in {2, 3} => m_dataBuf[Server(c)] = id[c]

\* While the server has the connection nothing fails at either end.
Connected(c) ==
    /\ srv \in {"serving", "join"}
    /\ \E p, s \in 0 .. 4 : Exchange(c, p, s)
    /\ res[Client(c)] \notin {"eof", "error"}
    /\ res[Server(c)] \notin {"eof", "error", "over"}
    /\ op[Server(c)] = "none" <=> res[Server(c)] = "none"

\* After it only the rest of a response may arrive.
Abandoned(c) ==
    /\ srv = "ended" /\ op[Server(c)] = "none" /\ wire[Client(c)] = <<>>
    /\ \E p \in 0 .. 4 :
         /\ ClientAt(c, p)
         /\ Told(p) + Len(wire[Server(c)]) <= 2
         /\ p < 2 => wire[Server(c)] = <<>> /\ m_dataBuf[Client(c)] = id[c]
    /\ res[Client(c)] \in {"eof", "error"} => wire[Server(c)] = <<>>

Unused(c) ==
    /\ op[Client(c)] = "none" /\ op[Server(c)] = "none"
    /\ wire[Client(c)] = <<>> /\ wire[Server(c)] = <<>>
    /\ srv = "ended" \/ (res[Server(c)] = "none" /\ res[Client(c)] = "none")

Pair(c) ==
    /\ ui[c] \in {"start", "failed"} => Unused(c)
    /\ ui[c] \in {"input", "join"} =>
         /\ AllOf(wire[Client(c)], id[c]) /\ AllOf(wire[Server(c)], id[c])
         /\ Connected(c) \/ Abandoned(c)

Pairs == \A c \in Clients : Pair(c)
\* What a handler appends, takes or is cut off leaves the messages of the others.
LEMMA SeqFacts ==
    /\ \A w \in Seq(Cells), x \in Cells :
         /\ Append(w, x) \in Seq(Cells) /\ Len(Append(w, x)) = Len(w) + 1
         /\ \A n : AllOf(w, n) /\ x[2] = n => AllOf(Append(w, x), n)
    /\ \A w \in Seq(Cells) : w # <<>> =>
         /\ Tail(w) \in Seq(Cells) /\ Len(w) = Len(Tail(w)) + 1
         /\ Head(w) \in Cells
         /\ \A n : AllOf(w, n) => AllOf(Tail(w), n) /\ Head(w)[2] = n
    /\ \A w \in Seq(Cells), k \in Nat :
         /\ Prefix(w, k) \in Seq(Cells) /\ Len(Prefix(w, k)) <= Len(w)
         /\ \A n : AllOf(w, n) => AllOf(Prefix(w, k), n)
    /\ \A n : AllOf(<<>>, n)
    /\ \A w \in Seq(Cells) : Len(w) \in Nat /\ (w = <<>> <=> Len(w) = 0)
    /\ <<>> \in Seq(Cells)
<1>1. ASSUME NEW w \in Seq(Cells), NEW x \in Cells
      PROVE  /\ Append(w, x) \in Seq(Cells) /\ Len(Append(w, x)) = Len(w) + 1
             /\ \A n : AllOf(w, n) /\ x[2] = n => AllOf(Append(w, x), n)
  <2>1. Append(w, x) \in Seq(Cells) /\ Len(Append(w, x)) = Len(w) + 1
    OBVIOUS
  <2>2. \A k \in 1 .. Len(Append(w, x)) :
          Append(w, x)[k] = IF k = Len(w) + 1 THEN x ELSE w[k]
    OBVIOUS
  <2> QED BY <2>1, <2>2 DEF AllOf
<1>2. ASSUME NEW w \in Seq(Cells), w # <<>>
      PROVE  /\ Tail(w) \in Seq(Cells) /\ Len(w) = Len(Tail(w)) + 1
             /\ Head(w) \in Cells
             /\ \A n : AllOf(w, n) => AllOf(Tail(w), n) /\ Head(w)[2] = n
  <2>1. /\ Tail(w) \in Seq(Cells) /\ Len(w) = Len(Tail(w)) + 1
        /\ Head(w) = w[1] /\ 1 \in 1 .. Len(w)
    BY <1>2
  <2>2. \A k \in 1 .. Len(Tail(w)) : Tail(w)[k] = w[k + 1] /\ k + 1 \in 1 .. Len(w)
    BY <1>2, <2>1
  <2> QED BY <2>1, <2>2 DEF AllOf
<1>3. ASSUME NEW w \in Seq(Cells), NEW k \in Nat
      PROVE  /\ Prefix(w, k) \in Seq(Cells) /\ Len(Prefix(w, k)) <= Len(w)
             /\ \A n : AllOf(w, n) => AllOf(Prefix(w, k), n)
  <2>1. Min(k, Len(w)) \in Nat /\ Min(k, Len(w)) <= Len(w)
    BY DEF Min
  <2>2. PICK m \in Nat : m <= Len(w) /\ Prefix(w, k) = SubSeq(w, 1, m)
    BY <2>1 DEF Prefix
  <2>3. Len(SubSeq(w, 1, m)) = m /\ \A j \in 1 .. m : SubSeq(w, 1, m)[j] = w[j] /\ j \in 1 .. Len(w)
    BY <2>2
  <2>4. SubSeq(w, 1, m) \in Seq(Cells)
    BY <2>2
  <2> QED BY <2>2, <2>3, <2>4 DEF AllOf
<1>4. (\A n : AllOf(<<>>, n)) /\ <<>> \in Seq(Cells)
  BY DEF AllOf
<1>5. \A w \in Seq(Cells) : Len(w) \in Nat /\ (w = <<>> <=> Len(w) = 0)
  OBVIOUS
<1> QED BY <1>1, <1>2, <1>3, <1>4, <1>5

\* The pair of ends of client d, its user and its number of requests stay as
\* they are, and so does what the pair knows of the server.
Untouched(d) ==
    /\ op'[Client(d)] = op[Client(d)] /\ op'[Server(d)] = op[Server(d)]
    /\ res'[Client(d)] = res[Client(d)] /\ res'[Server(d)] = res[Server(d)]
    /\ wire'[Client(d)] = wire[Client(d)] /\ wire'[Server(d)] = wire[Server(d)]
    /\ m_dataBuf'[Client(d)] = m_dataBuf[Client(d)]
    /\ m_dataBuf'[Server(d)] = m_dataBuf[Server(d)]
    /\ ui'[d] = ui[d] /\ id'[d] = id[d]

SameServer ==
    srv' = srv \/ srv = "start" \/ (srv = "serving" /\ srv' = "join")

\* A pair that a step does not touch keeps what is known of it.
LEMMA UntouchedPair ==
    ASSUME NEW d \in Clients, Pair(d), Untouched(d), SameServer
    PROVE  Pair(d)'
<1>1. \A p, s : Exchange(d, p, s) <=> Exchange(d, p, s)'
  BY DEF Exchange, ClientAt, ServerAt, Untouched
<1>2. \A p : ClientAt(d, p) <=> ClientAt(d, p)'
  BY DEF ClientAt, Untouched
<1>3. Connected(d) => Connected(d)'
  BY <1>1 DEF Connected, Untouched, SameServer
<1>4. Abandoned(d) => Abandoned(d)'
  BY <1>2 DEF Abandoned, Untouched, SameServer
<1>5. Unused(d) => Unused(d)'
  BY DEF Unused, Untouched, SameServer
<1> QED BY <1>3, <1>4, <1>5 DEF Pair, Untouched

\* What a step of client c, or at an end of its connection, leaves alone.
LEMMA OthersUntouched ==
    ASSUME IInv, ContentType, NEW c \in Clients,
           \/ ServerStep(c) \/ ClientStep(c) \/ UserStep(c)
           \/ Kernel(Client(c)) \/ Kernel(Server(c)),
           NEW d \in Clients \ {c}
    PROVE  Untouched(d)
<1>1. /\ Server(d) \in Ends /\ Client(d) \in Ends
      /\ Server(d) # Server(c) /\ Server(d) # Client(c)
      /\ Client(d) # Server(c) /\ Client(d) # Client(c)
      /\ Other(Server(c)) = Client(c) /\ Other(Client(c)) = Server(c)
  BY DEF Ends, Server, Client, Other
<1>2. CASE Kernel(Client(c)) \/ Kernel(Server(c))
  <2> SUFFICES ASSUME NEW e \in {Client(c), Server(c)}, Kernel(e) PROVE Untouched(d)
    BY <1>2
  <2>1. e # Server(d) /\ e # Client(d)
    BY <1>1
  <2>2. UNCHANGED <<op, ui, id>>
    BY DEF Kernel, CompleteWrite, ReadEnds, WriteFails, client
  <2>3. \E how : res' = [res EXCEPT ![e] = how]
    BY DEF Kernel, CompleteWrite, ReadEnds, WriteFails, Completes
  <2>4. wire' = wire \/ \E w : wire' = [wire EXCEPT ![e] = w]
    BY DEF Kernel, CompleteWrite, ReadEnds, WriteFails
  <2>5. m_dataBuf' = m_dataBuf \/ m_dataBuf' = [m_dataBuf EXCEPT ![e] = 0]
    BY DEF Kernel, CompleteWrite, ReadEnds, WriteFails
  <2> QED BY <1>1, <2>1, <2>2, <2>3, <2>4, <2>5 DEF Untouched, IInv, StateType, ContentType
<1>3. CASE \E e \in {Client(c), Server(c)} : Continues(e)
  <2>1. PICK e \in {Client(c), Server(c)} : Continues(e)
    BY <1>3
  <2>2. UNCHANGED <<m_dataBuf, ui, id>>
    BY <2>1 DEF Continues, client
  <2>3. \E kind : op' = [op EXCEPT ![e] = kind] /\ res' = [res EXCEPT ![e] = "pending"]
    BY <2>1 DEF Continues, Starts
  <2>4. wire' = wire \/ \E w : wire' = [wire EXCEPT ![Other(e)] = w]
    BY <2>1 DEF Continues, Takes
  <2>5. e # Server(d) /\ e # Client(d) /\ Other(e) # Server(d) /\ Other(e) # Client(d)
    BY <1>1
  <2> QED BY <1>1, <2>2, <2>3, <2>4, <2>5 DEF Untouched, IInv, StateType, ContentType
<1>4. CASE OnAccept(c) \/ InitiateSendResponse(c) \/ OnDisconnected(c) \/ OnError(c)
  BY <1>1, <1>4 DEF OnAccept, InitiateSendResponse, OnDisconnected, OnError, Starts, Stops,
     Untouched, IInv, StateType, ContentType, client, ends
<1>5. CASE OnDataReceived(c)
  <2>1. UNCHANGED <<op, ui, id>> /\ \E how : res' = [res EXCEPT ![Server(c)] = how]
    BY <1>5 DEF OnDataReceived, Completes, client
  <2>2. \E w : wire' = [wire EXCEPT ![Client(c)] = w]
    BY <1>1, <1>5 DEF OnDataReceived, Takes
  <2>3. \E n : m_dataBuf' = [m_dataBuf EXCEPT ![Server(c)] = n]
    BY <1>5 DEF OnDataReceived
  <2> QED BY <1>1, <2>1, <2>2, <2>3 DEF Untouched, IInv, StateType, ContentType
<1>6. CASE OnResponse(c) \/ OnServerLost(c)
  <2>1. UNCHANGED <<m_dataBuf, ui, id>> /\ Stops(Client(c))
    BY <1>6 DEF OnResponse, OnServerLost, client
  <2>2. wire' = wire \/ \E w : wire' = [wire EXCEPT ![Server(c)] = w]
    BY <1>1, <1>6 DEF OnResponse, OnServerLost, Takes
  <2> QED BY <1>1, <2>1, <2>2 DEF Stops, Untouched, IInv, StateType, ContentType
<1>7. CASE BgReturns(c) \/ Connect(c) \/ LeaveLoop(c)
  BY <1>1, <1>7 DEF BgReturns, Connect, LeaveLoop, Goes, Untouched, IInv, StateType,
     ContentType, ends
<1>8. CASE SendRequest(c)
  BY <1>1, <1>8 DEF SendRequest, Gives, Starts, Untouched, IInv, StateType, ContentType
<1>9. CASE TypeAhead(c)
  <2>1. UNCHANGED <<op, res, m_dataBuf, id>> /\ ui' = [ui EXCEPT ![c] = "raced"]
    BY <1>9 DEF TypeAhead, Goes
  <2>2. \E w : wire' = [wire EXCEPT ![Client(c)] = w]
    BY <1>9 DEF TypeAhead
  <2> QED BY <1>1, <2>1, <2>2 DEF Untouched, IInv, StateType, ContentType
<1>10. CASE ClientJoin(c) \/ Killed(c)
  <2>1. Exit(c)
    BY <1>10 DEF ClientJoin, Killed
  <2>2. ui'[d] = ui[d] /\ id'[d] = id[d]
    BY <2>1 DEF Exit, Goes, Gives, IInv, StateType, ContentType
  <2>3. PICK k : Cut({Client(c)}, k)
    BY <1>10 DEF ClientJoin, Killed
  <2>4. Other(Server(d)) # Client(c) /\ Other(Client(d)) # Client(c)
    BY DEF Other, Server, Client
  <2> QED BY <1>1, <2>2, <2>3, <2>4 DEF Cut, Forget, Untouched
<1> QED BY <1>2, <1>3, <1>4, <1>5, <1>6, <1>7, <1>8, <1>9, <1>10
        DEF ServerStep, ClientStep, UserStep

\* The contents keep their type.
LEMMA ContentTypeStep == IInv /\ ContentType /\ [Next]_vars => ContentType'
<1> SUFFICES ASSUME IInv, ContentType, [Next]_vars PROVE ContentType'
  OBVIOUS
<1>1. \A e \in Ends : Other(e) \in Ends /\ wire[e] \in Seq(Cells)
  BY DEF Ends, Other, Server, Client, ContentType
<1>2. \A e \in Ends, w \in Seq(Cells) : [wire EXCEPT ![e] = w] \in [Ends -> Seq(Cells)]
  BY DEF ContentType
<1>3. \A e \in Ends : wire[Other(e)] # <<>> =>
        /\ Tail(wire[Other(e)]) \in Seq(Cells)
        /\ Arrived(e) \in Nat
  BY <1>1, SeqFacts DEF Arrived, Cells
<1>4. \A c \in Clients : Server(c) \in Ends /\ Client(c) \in Ends
  BY EndFacts
<1>5. ASSUME NEW gone, NEW k \in Nat, Cut(gone, k)
      PROVE  wire' \in [Ends -> Seq(Cells)] /\ m_dataBuf' \in [Ends -> Nat]
  <2>1. \A e \in Ends : Prefix(wire[e], k) \in Seq(Cells) /\ <<>> \in Seq(Cells)
    BY <1>1, SeqFacts
  <2>2. wire' \in [Ends -> Seq(Cells)]
    BY <1>1, <1>5, <2>1 DEF Cut
  <2>3. m_dataBuf' \in [Ends -> Nat]
    BY <1>5 DEF Cut, Forget, ContentType
  <2> QED BY <2>2, <2>3
<1>6. CASE UNCHANGED <<wire, m_dataBuf, id>>
  BY <1>6 DEF ContentType
<1>7. ASSUME NEW e \in Ends, Kernel(e) PROVE ContentType'
  <2>1. CASE CompleteWrite(e)
    <3>1. PICK x : /\ x = IF Raced(e) THEN Junk ELSE <<op[e], m_dataBuf[e]>>
                   /\ wire' = [wire EXCEPT ![e] =
                        IF Closed(Other(e)) THEN <<>> ELSE Append(wire[e], x)]
      BY <2>1 DEF CompleteWrite
    <3>2. op[e] \in {"writeLen", "writeData"} /\ m_dataBuf[e] \in Nat
      BY <2>1 DEF CompleteWrite, Pending, Writes, ContentType
    <3>3. x \in Cells
      BY <3>1, <3>2 DEF Cells, Junk
    <3>4. wire' \in [Ends -> Seq(Cells)]
      BY <1>1, <1>2, <3>1, <3>3, SeqFacts
    <3>5. m_dataBuf' \in [Ends -> Nat]
      BY <2>1 DEF CompleteWrite, ContentType
    <3> QED BY <2>1, <3>4, <3>5 DEF CompleteWrite, ContentType, client
  <2> QED BY <1>6, <1>7, <2>1 DEF Kernel, ReadEnds, WriteFails, client
<1>8. ASSUME NEW e \in Ends, Continues(e) PROVE ContentType'
  <2>1. UNCHANGED <<m_dataBuf, id>>
    BY <1>8 DEF Continues, client
  <2>2. CASE UNCHANGED wire
    BY <1>6, <2>1, <2>2
  <2>3. CASE wire[Other(e)] # <<>> /\ Takes(e)
    BY <1>1, <1>2, <1>3, <2>1, <2>3 DEF Takes, ContentType
  <2> QED BY <1>8, <2>2, <2>3 DEF Continues, Ran, Reads, Writes
<1>9. ASSUME NEW c \in Clients, OnDataReceived(c) PROVE ContentType'
  <2>1. wire[Other(Server(c))] # <<>> /\ Takes(Server(c))
    BY <1>9 DEF OnDataReceived, Ran, Writes
  <2>2. wire' \in [Ends -> Seq(Cells)] /\ Arrived(Server(c)) \in Nat
    BY <1>1, <1>2, <1>3, <1>4, <2>1 DEF Takes
  <2> QED BY <1>9, <2>2 DEF OnDataReceived, ContentType, client
<1>10. ASSUME NEW c \in Clients, OnResponse(c) PROVE ContentType'
  <2>1. wire[Other(Client(c))] # <<>> /\ Takes(Client(c))
    BY <1>10 DEF OnResponse, Ran, Writes
  <2>2. wire' \in [Ends -> Seq(Cells)]
    BY <1>1, <1>2, <1>3, <1>4, <2>1 DEF Takes
  <2> QED BY <1>10, <2>2 DEF OnResponse, ContentType, client
<1>11. ASSUME NEW c \in Clients, SendRequest(c) PROVE ContentType'
  <2>1. id[c] \in Nat /\ id[c] + 1 \in Nat
    BY DEF ContentType
  <2>2. id' \in [Clients -> Nat]
    BY <1>11, <2>1 DEF SendRequest, Gives, ContentType
  <2>3. m_dataBuf' \in [Ends -> Nat] /\ UNCHANGED wire
    BY <1>11, <2>1 DEF SendRequest, ContentType
  <2> QED BY <2>2, <2>3 DEF ContentType
<1>12. ASSUME NEW c \in Clients, TypeAhead(c) PROVE ContentType'
  <2>1. PICK k \in 0 .. MaxJunk :
          wire' = [wire EXCEPT ![Client(c)] = wire[Client(c)] \o [j \in 1 .. k |-> Junk]]
    BY <1>12 DEF TypeAhead
  <2>2. k \in Nat
    BY BoundsAssumption
  <2>3. Junk \in Cells
    BY DEF Junk, Cells
  <2>4. \A x \in Cells : [j \in 1 .. k |-> x] \in Seq(Cells)
    BY <2>2
  <2>5. wire[Client(c)] \o [j \in 1 .. k |-> Junk] \in Seq(Cells)
    BY <1>1, <1>4, <2>3, <2>4
  <2> QED BY <1>2, <1>4, <1>12, <2>1, <2>5 DEF TypeAhead, ContentType
<1>13. ASSUME NEW c \in Clients, ClientJoin(c) \/ Killed(c) PROVE ContentType'
  <2>1. Exit(c) /\ \E k \in 0 .. Len(wire[Client(c)]) : Cut({Client(c)}, k)
    <3>1. Len(wire[Client(c)]) \in Nat
      BY <1>1, <1>4
    <3>2. PICK n \in Nat : n = Len(wire[Client(c)])
      BY <3>1
    <3>3. n \in 0 .. n
      OBVIOUS
    <3>4. Exit(c) /\ (Cut({Client(c)}, n) \/ \E k \in 0 .. n : Cut({Client(c)}, k))
      BY <1>13, <3>2 DEF ClientJoin, Killed
    <3> QED BY <3>2, <3>3, <3>4
  <2>2. PICK k \in 0 .. Len(wire[Client(c)]) : Cut({Client(c)}, k)
    BY <2>1
  <2>3. k \in Nat
    BY <1>1, <1>4
  <2> QED BY <1>5, <2>1, <2>2, <2>3 DEF Exit, Gives, ContentType
<1>14. CASE Join
  <2>1. PICK k \in 0 .. 2 : Cut({"server"} \X Clients, k)
    BY <1>14 DEF Join
  <2> QED BY <1>5, <1>14, <2>1 DEF Join, ContentType, client
<1>15. CASE Construct \/ Stop \/ RunReturns \/ OnAcceptError
  BY <1>6, <1>15 DEF Construct, Stop, RunReturns, OnAcceptError, ends, client
<1>16. ASSUME NEW c \in Clients,
              \/ OnAccept(c) \/ InitiateSendResponse(c) \/ OnDisconnected(c) \/ OnError(c)
              \/ OnServerLost(c) \/ BgReturns(c) \/ Connect(c) \/ LeaveLoop(c)
       PROVE  ContentType'
  BY <1>6, <1>16 DEF OnAccept, InitiateSendResponse, OnDisconnected, OnError, OnServerLost,
     BgReturns, Connect, LeaveLoop, ends, client
<1>17. CASE UNCHANGED vars
  BY <1>6, <1>17 DEF vars, ends, client
<1> QED BY <1>4, <1>7, <1>8, <1>9, <1>10, <1>11, <1>12, <1>13, <1>14, <1>15, <1>16, <1>17
        DEF Next, ServerStep, ClientStep, UserStep

\* While the server has the connection neither end sees the other closed.
LEMMA WhoIsOpen ==
    ASSUME IInv, NEW c \in Clients, ui[c] \in {"input", "join"}
    PROVE  /\ ~Closed(Client(c))
           /\ Connected(c) => ~Closed(Server(c))
           /\ Abandoned(c) => Closed(Server(c))
<1>1. Client(c)[1] = "client" /\ Client(c)[2] = c /\ Server(c)[1] = "server" /\ Server(c)[2] = c
  BY DEF Client, Server
<1>2. ~Closed(Client(c))
  BY <1>1 DEF Closed, Left
<1>3. Connected(c) => Listening /\ (Served(c) \/ Queued(c))
  BY DEF Connected, Listening, Queued, IInv, Exact
<1>4. Abandoned(c) => ~Listening
  BY DEF Abandoned, Listening
<1> QED BY <1>1, <1>2, <1>3, <1>4 DEF Closed

\* The other end of each, and the values at the two ends.
LEMMA TwoEnds ==
    ASSUME NEW c \in Clients
    PROVE  /\ Server(c) \in Ends /\ Client(c) \in Ends /\ Server(c) # Client(c)
           /\ Other(Server(c)) = Client(c) /\ Other(Client(c)) = Server(c)
           /\ Server(c)[1] = "server" /\ Client(c)[1] = "client" /\ Client(c)[2] = c
BY DEF Ends, Server, Client, Other

\* A write of the client: its next cell is on the wire, or is lost.
LEMMA ClientWrites ==
    ASSUME IInv, ContentType, NEW c \in Clients, Pair(c), ui[c] \in {"input", "join"},
           CompleteWrite(Client(c))
    PROVE  Pair(c)'
<1>1. PICK o : o = op[Client(c)] /\ o \in Writes /\ res[Client(c)] = "pending"
  BY DEF CompleteWrite, Pending
<1>2. /\ UNCHANGED <<op, srv, ui, id>>
      /\ res'[Client(c)] = "ok" /\ res'[Server(c)] = res[Server(c)]
  BY TwoEnds DEF CompleteWrite, Completes, IInv, StateType, server, client
<1>3. /\ m_dataBuf'[Server(c)] = m_dataBuf[Server(c)]
      /\ o = "writeLen" => m_dataBuf'[Client(c)] = m_dataBuf[Client(c)]
  BY <1>1, TwoEnds DEF CompleteWrite, ContentType
<1>4. PICK x : x = <<op[Client(c)], m_dataBuf[Client(c)]>>
  OBVIOUS
<1>5. x \in Cells /\ x[2] = m_dataBuf[Client(c)] /\ wire[Client(c)] \in Seq(Cells)
      /\ wire[Server(c)] \in Seq(Cells)
  BY <1>1, <1>4, TwoEnds DEF Cells, Writes, ContentType
<1>6. ~Raced(Client(c))
  BY TwoEnds DEF Raced
<1>7. /\ wire'[Server(c)] = wire[Server(c)]
      /\ wire'[Client(c)] = IF Closed(Server(c)) THEN <<>> ELSE Append(wire[Client(c)], x)
  BY <1>4, <1>6, TwoEnds DEF CompleteWrite, ContentType
<1>8. \A p, s : ServerAt(c, s)' <=> ServerAt(c, s)
  BY <1>2 DEF ServerAt
<1>9. \A p : ClientAt(c, p) => p \in {0, 1} /\ ClientAt(c, p + 1)' /\ (p = 0 => o = "writeLen")
  BY <1>1, <1>2 DEF ClientAt, Writes
<1>10. CASE Connected(c)
  <2>1. PICK p, s \in 0 .. 4 : Exchange(c, p, s)
    BY <1>10 DEF Connected
  <2>2. m_dataBuf[Client(c)] = id[c] /\ p \in {0, 1}
    BY <1>9, <2>1 DEF Exchange
  <2>3. wire'[Client(c)] = Append(wire[Client(c)], x)
    BY <1>7, <1>10, WhoIsOpen
  <2>4. Len(wire'[Client(c)]) = Len(wire[Client(c)]) + 1 /\ AllOf(wire'[Client(c)], id[c])
    BY <1>5, <2>2, <2>3, SeqFacts DEF Pair
  <2>5. Len(wire[Client(c)]) \in Nat /\ Len(wire[Server(c)]) \in Nat
    BY <1>5
  <2>6. Asked(p + 1) = Asked(p) + 1 /\ Told(p + 1) = Told(p) /\ Asked(s) \in Nat
    BY <2>1, <2>2 DEF Asked, Told
  <2>7. Exchange(c, p + 1, s)'
    BY <1>2, <1>3, <1>7, <1>8, <1>9, <2>1, <2>2, <2>4, <2>5, <2>6 DEF Exchange
  <2>8. p + 1 \in 0 .. 4
    BY <2>2
  <2>9. Connected(c)'
    BY <1>2, <1>10, <2>7, <2>8 DEF Connected
  <2> QED BY <1>2, <1>7, <2>4, <2>9 DEF Pair
<1>11. CASE Abandoned(c)
  <2>1. PICK p \in 0 .. 4 :
          /\ ClientAt(c, p) /\ Told(p) + Len(wire[Server(c)]) <= 2
          /\ p < 2 => wire[Server(c)] = <<>> /\ m_dataBuf[Client(c)] = id[c]
    BY <1>11 DEF Abandoned
  <2>2. p \in {0, 1} /\ wire'[Server(c)] = <<>> /\ wire'[Client(c)] = <<>>
    BY <1>7, <1>9, <1>11, <2>1, WhoIsOpen
  <2>3. ClientAt(c, p + 1)' /\ p + 1 \in 0 .. 4 /\ Told(p + 1) + Len(<<>>) <= 2
    BY <1>9, <2>1, <2>2 DEF Told
  <2>4. p + 1 < 2 => m_dataBuf'[Client(c)] = id[c]
    BY <1>3, <1>9, <2>1, <2>2
  <2>5. Abandoned(c)'
    BY <1>2, <1>11, <2>2, <2>3, <2>4 DEF Abandoned
  <2> QED BY <1>2, <2>2, <2>5, SeqFacts DEF Pair
<1> QED BY <1>10, <1>11 DEF Pair

\* A write of the server.
LEMMA ServerWrites ==
    ASSUME IInv, ContentType, NEW c \in Clients, Pair(c), ui[c] \in {"input", "join"},
           CompleteWrite(Server(c))
    PROVE  Pair(c)'
<1>1. PICK o : o = op[Server(c)] /\ o \in Writes /\ res[Server(c)] = "pending"
  BY DEF CompleteWrite, Pending
<1>2. /\ UNCHANGED <<op, srv, ui, id>>
      /\ res'[Server(c)] = "ok" /\ res'[Client(c)] = res[Client(c)]
  BY TwoEnds DEF CompleteWrite, Completes, IInv, StateType, server, client
<1>3. /\ m_dataBuf'[Client(c)] = m_dataBuf[Client(c)]
      /\ o = "writeLen" => m_dataBuf'[Server(c)] = m_dataBuf[Server(c)]
  BY <1>1, TwoEnds DEF CompleteWrite, ContentType
<1>4. PICK x : x = <<op[Server(c)], m_dataBuf[Server(c)]>>
  OBVIOUS
<1>5. x \in Cells /\ x[2] = m_dataBuf[Server(c)] /\ wire[Client(c)] \in Seq(Cells)
      /\ wire[Server(c)] \in Seq(Cells)
  BY <1>1, <1>4, TwoEnds DEF Cells, Writes, ContentType
<1>6. ~Raced(Server(c)) /\ ~Closed(Client(c))
  BY TwoEnds, WhoIsOpen DEF Raced
<1>7. /\ wire'[Client(c)] = wire[Client(c)]
      /\ wire'[Server(c)] = Append(wire[Server(c)], x)
  BY <1>4, <1>6, TwoEnds DEF CompleteWrite, ContentType
<1>8. \A p : ClientAt(c, p)' <=> ClientAt(c, p)
  BY <1>2 DEF ClientAt
<1>9. \A s : ServerAt(c, s) => s \in {2, 3} /\ ServerAt(c, s + 1)' /\ (s = 2 => o = "writeLen")
  BY <1>1, <1>2 DEF ServerAt, Writes
<1>10. Connected(c)
  BY <1>1 DEF Pair, Abandoned, Writes
<1>11. PICK p, s \in 0 .. 4 : Exchange(c, p, s)
  BY <1>10 DEF Connected
<1>12. m_dataBuf[Server(c)] = id[c] /\ s \in {2, 3}
  BY <1>9, <1>11 DEF Exchange
<1>13. Len(wire'[Server(c)]) = Len(wire[Server(c)]) + 1 /\ AllOf(wire'[Server(c)], id[c])
  BY <1>5, <1>7, <1>12, SeqFacts DEF Pair
<1>14. Len(wire[Client(c)]) \in Nat /\ Len(wire[Server(c)]) \in Nat
  BY <1>5
<1>15. Asked(s + 1) = Asked(s) /\ Told(s + 1) = Told(s) + 1 /\ Told(p) \in Nat
  BY <1>11, <1>12 DEF Asked, Told
<1>16. Exchange(c, p, s + 1)'
  BY <1>2, <1>3, <1>7, <1>8, <1>9, <1>11, <1>12, <1>13, <1>14, <1>15 DEF Exchange
<1>17. s + 1 \in 0 .. 4
  BY <1>12
<1>18. Connected(c)'
  BY <1>1, <1>2, <1>10, <1>16, <1>17 DEF Connected, Writes
<1> QED BY <1>2, <1>7, <1>13, <1>18 DEF Pair

\* Nothing fails but at a client whose server has ended.
LEMMA EndsFail ==
    ASSUME IInv, ContentType, NEW c \in Clients, Pair(c), ui[c] \in {"input", "join"},
           NEW e \in {Client(c), Server(c)}, ReadEnds(e) \/ WriteFails(e)
    PROVE  Pair(c)'
<1>1. op[e] # "none" /\ res[e] = "pending" /\ Closed(Other(e))
      /\ (op[e] \in Writes \/ wire[Other(e)] = <<>>)
  BY DEF ReadEnds, WriteFails, Pending, Reads, Writes
<1>2. UNCHANGED <<op, m_dataBuf, wire, srv, ui, id>>
  BY DEF ReadEnds, WriteFails, server, client
<1>3. e = Client(c) /\ Closed(Server(c)) /\ Abandoned(c)
  BY <1>1, TwoEnds, WhoIsOpen DEF Pair
<1>4. /\ res'[Client(c)] \in {"eof", "error"} /\ res'[Server(c)] = res[Server(c)]
  BY <1>3, TwoEnds DEF ReadEnds, WriteFails, Completes, IInv, StateType
<1>5. \A p : ClientAt(c, p)' <=> ClientAt(c, p)
  BY <1>1, <1>2, <1>3, <1>4 DEF ClientAt
<1>6. PICK p \in 0 .. 4 :
        /\ ClientAt(c, p) /\ Told(p) + Len(wire[Server(c)]) <= 2
        /\ p < 2 => wire[Server(c)] = <<>> /\ m_dataBuf[Client(c)] = id[c]
  BY <1>3 DEF Abandoned
<1>7. op[Client(c)] \in Writes => p < 2
  BY <1>1, <1>3, <1>6 DEF ClientAt, Writes
<1>8. wire[Server(c)] = <<>>
  BY <1>1, <1>3, <1>6, <1>7, TwoEnds
<1>9. Abandoned(c)'
  BY <1>2, <1>3, <1>5, <1>6, <1>8 DEF Abandoned
<1> QED BY <1>2, <1>9 DEF Pair

\* A step of the kernel at one of the ends of the client's connection.
LEMMA KernelPair ==
    ASSUME IInv, ContentType, NEW c \in Clients, Pair(c),
           NEW e \in {Client(c), Server(c)}, Kernel(e)
    PROVE  Pair(c)'
<1>1. UNCHANGED ui
  BY DEF Kernel, CompleteWrite, ReadEnds, WriteFails, client
<1>2. op[e] # "none"
  BY DEF Kernel, CompleteWrite, ReadEnds, WriteFails, Pending, Reads, Writes
<1>3. ui[c] \notin {"start", "failed"}
  BY <1>2 DEF Pair, Unused
<1>4. CASE ui[c] \in {"input", "join"}
  BY <1>4, ClientWrites, ServerWrites, EndsFail DEF Kernel
<1> QED BY <1>1, <1>3, <1>4 DEF Pair

\* The counts of an exchange.
LEMMA Counts ==
    /\ \A p \in 0 .. 4 : Asked(p) \in 0 .. 2 /\ Told(p) \in 0 .. 2
    /\ Asked(0) = 0 /\ Asked(1) = 1 /\ Asked(2) = 2 /\ Asked(3) = 2 /\ Asked(4) = 2
    /\ Told(0) = 0 /\ Told(1) = 0 /\ Told(2) = 0 /\ Told(3) = 1 /\ Told(4) = 2
BY DEF Asked, Told

\* A step that changes the server's end of a connected client: it is enough to
\* say where the server is then.
LEMMA ServerMoves ==
    ASSUME IInv, ContentType, NEW c \in Clients, Pair(c), ui[c] \in {"input", "join"},
           UNCHANGED <<srv, ui, id>>, op'[Server(c)] # "none",
           res'[Server(c)] \in {"pending", "ok"},
           op'[Client(c)] = op[Client(c)], res'[Client(c)] = res[Client(c)],
           m_dataBuf'[Client(c)] = m_dataBuf[Client(c)],
           wire'[Server(c)] = wire[Server(c)],
           AllOf(wire'[Client(c)], id[c]),
           \A p \in 0 .. 4, s \in 0 .. 4 : Exchange(c, p, s) =>
             \E r \in 0 .. 4 :
               /\ ServerAt(c, r)' /\ Told(r) = Told(s)
               /\ Asked(p) = Asked(r) + Len(wire'[Client(c)])
               /\ r \in {2, 3} => m_dataBuf'[Server(c)] = id[c],
           Connected(c)
    PROVE  Pair(c)'
<1>1. PICK p, s \in 0 .. 4 : Exchange(c, p, s)
  BY DEF Connected
<1>2. PICK r \in 0 .. 4 :
               /\ ServerAt(c, r)' /\ Told(r) = Told(s)
               /\ Asked(p) = Asked(r) + Len(wire'[Client(c)])
               /\ r \in {2, 3} => m_dataBuf'[Server(c)] = id[c]
  BY <1>1
<1>3. ClientAt(c, p)'
  BY <1>1 DEF Exchange, ClientAt
<1>4. Exchange(c, p, r)'
  BY <1>1, <1>2, <1>3 DEF Exchange
<1>5. Connected(c)'
  BY <1>4 DEF Connected
<1> QED BY <1>5 DEF Pair

\* The handlers of the server's thread, for the session of the client.
LEMMA ServerPair ==
    ASSUME IInv, ContentType, NEW c \in Clients, Pair(c), ui[c] \in {"input", "join"},
           ServerStep(c)
    PROVE  Pair(c)'
<1>1. wire[Client(c)] \in Seq(Cells) /\ wire[Server(c)] \in Seq(Cells)
  BY TwoEnds DEF ContentType
<1>2. Len(wire[Client(c)]) \in Nat /\ AllOf(wire[Client(c)], id[c])
  BY <1>1 DEF Pair
<1>3. CASE OnAccept(c)
  <2>1. /\ op'[Server(c)] = "readLen" /\ res'[Server(c)] = "pending"
        /\ op'[Client(c)] = op[Client(c)] /\ res'[Client(c)] = res[Client(c)]
        /\ UNCHANGED <<m_dataBuf, wire, srv, ui, id>>
    BY <1>3, TwoEnds DEF OnAccept, Starts, IInv, StateType, client
  <2>2. srv = "serving" /\ res[Server(c)] = "none"
    BY <1>3 DEF OnAccept, Turn, Queued
  <2>3. Connected(c) /\ op[Server(c)] = "none"
    BY <2>2 DEF Pair, Abandoned, Connected
  <2>4. \A s : ServerAt(c, s) => s \in {0, 4} /\ ServerAt(c, s)'
    BY <2>1, <2>3 DEF ServerAt
  <2>5. \A p \in 0 .. 4, s \in 0 .. 4 : Exchange(c, p, s) =>
          /\ ServerAt(c, s)' /\ Told(s) = Told(s)
          /\ Asked(p) = Asked(s) + Len(wire'[Client(c)])
          /\ s \in {2, 3} => m_dataBuf'[Server(c)] = id[c]
    BY <2>1, <2>4 DEF Exchange
  <2> QED BY <1>2, <2>1, <2>3, <2>5, ServerMoves
<1>4. CASE Turn /\ Continues(Server(c))
  <2>0. PICK kind \in {"readLen", "writeLen", "writeData"} :
          /\ Ran(Server(c), kind) /\ Starts(Server(c), Chain["server"][kind])
          /\ IF kind \in Reads THEN Takes(Server(c)) ELSE UNCHANGED wire
    BY <1>4, TwoEnds DEF Continues, Chain
  <2>1. PICK next : /\ next = Chain["server"][kind]
                    /\ next = IF kind = "readLen" THEN "readData"
                              ELSE IF kind = "writeLen" THEN "writeData" ELSE "readLen"
    BY DEF Chain
  <2>2. /\ op'[Server(c)] = next /\ res'[Server(c)] = "pending"
        /\ op'[Client(c)] = op[Client(c)] /\ res'[Client(c)] = res[Client(c)]
    BY <2>0, <2>1, TwoEnds DEF Starts, IInv, StateType
  <2>3. UNCHANGED <<m_dataBuf, srv, ui, id>> /\ srv = "serving"
    BY <1>4 DEF Turn, Continues, server, client
  <2>4. Connected(c)
    BY <2>3 DEF Pair, Abandoned
  <2>5. CASE kind = "readLen"
    <3>1. wire[Client(c)] # <<>> /\ op[Server(c)] = "readLen"
      BY <2>0, <2>5, TwoEnds DEF Ran, Writes
    <3>0. Takes(Server(c))
      BY <2>0, <2>5 DEF Reads
    <3>2. /\ wire'[Client(c)] = Tail(wire[Client(c)]) /\ wire'[Server(c)] = wire[Server(c)]
      BY <3>0, TwoEnds DEF Takes, ContentType
    <3>3. /\ AllOf(wire'[Client(c)], id[c]) /\ Len(wire'[Client(c)]) \in Nat
          /\ Len(wire[Client(c)]) = Len(wire'[Client(c)]) + 1
      BY <1>1, <1>2, <3>1, <3>2, SeqFacts
    <3>4. ServerAt(c, 1)' /\ \A s : ServerAt(c, s) => s \in {0, 4}
      BY <2>1, <2>2, <2>5, <3>1 DEF ServerAt
    <3>5. ASSUME NEW p \in 0 .. 4, NEW s \in 0 .. 4, Exchange(c, p, s)
          PROVE  \E r \in 0 .. 4 :
                   /\ ServerAt(c, r)' /\ Told(r) = Told(s)
                   /\ Asked(p) = Asked(r) + Len(wire'[Client(c)])
                   /\ r \in {2, 3} => m_dataBuf'[Server(c)] = id[c]
      <4>1. Asked(p) = Asked(s) + Len(wire[Client(c)]) /\ s \in {0, 4}
        BY <3>4, <3>5 DEF Exchange
      <4>2. s = 0
        BY <3>3, <4>1, Counts
      <4>3. Asked(p) = Asked(1) + Len(wire'[Client(c)]) /\ Told(1) = Told(s)
        BY <3>3, <4>1, <4>2, Counts
      <4> QED BY <3>4, <4>3
    <3> QED BY <2>1, <2>2, <2>3, <2>4, <2>5, <3>2, <3>3, <3>5, ServerMoves
  <2>6. CASE kind \in {"writeLen", "writeData"}
    <3>1. UNCHANGED wire /\ op[Server(c)] = kind /\ res[Server(c)] = "ok"
      BY <2>0, <2>6 DEF Ran, Reads, Writes
    <3>2. \A s : ServerAt(c, s) => ServerAt(c, s)'
      BY <2>1, <2>2, <2>6, <3>1 DEF ServerAt
    <3>3. \A p \in 0 .. 4, s \in 0 .. 4 : Exchange(c, p, s) =>
            /\ ServerAt(c, s)' /\ Told(s) = Told(s)
            /\ Asked(p) = Asked(s) + Len(wire'[Client(c)])
            /\ s \in {2, 3} => m_dataBuf'[Server(c)] = id[c]
      BY <2>3, <3>1, <3>2 DEF Exchange
    <3> QED BY <1>2, <2>1, <2>2, <2>3, <2>4, <2>6, <3>1, <3>3, ServerMoves
  <2> QED BY <2>5, <2>6
<1>5. CASE OnDataReceived(c)
  <2>1. /\ op[Server(c)] = "readData" /\ res[Server(c)] = "pending" /\ wire[Client(c)] # <<>>
    BY <1>5, TwoEnds DEF OnDataReceived, Ran, Writes
  <2>2. UNCHANGED <<op, srv, ui, id>> /\ srv = "serving"
    BY <1>5 DEF OnDataReceived, Turn, client
  <2>3. res'[Server(c)] = "ok" /\ res'[Client(c)] = res[Client(c)]
    BY <1>5, TwoEnds DEF OnDataReceived, Completes, IInv, StateType
  <2>4. /\ wire'[Client(c)] = Tail(wire[Client(c)]) /\ wire'[Server(c)] = wire[Server(c)]
    BY <1>5, TwoEnds DEF OnDataReceived, Takes, ContentType
  <2>5. /\ m_dataBuf'[Server(c)] = Head(wire[Client(c)])[2]
        /\ m_dataBuf'[Client(c)] = m_dataBuf[Client(c)]
    BY <1>5, TwoEnds DEF OnDataReceived, Arrived, ContentType
  <2>6. /\ AllOf(wire'[Client(c)], id[c]) /\ Len(wire'[Client(c)]) \in Nat
        /\ Len(wire[Client(c)]) = Len(wire'[Client(c)]) + 1
        /\ m_dataBuf'[Server(c)] = id[c]
    BY <1>1, <1>2, <2>1, <2>4, <2>5, SeqFacts
  <2>7. ServerAt(c, 2)' /\ \A s : ServerAt(c, s) => s = 1
    BY <2>1, <2>2, <2>3 DEF ServerAt
  <2>8. Connected(c)
    BY <2>2 DEF Pair, Abandoned
  <2>9. ASSUME NEW p \in 0 .. 4, NEW s \in 0 .. 4, Exchange(c, p, s)
        PROVE  \E r \in 0 .. 4 :
                 /\ ServerAt(c, r)' /\ Told(r) = Told(s)
                 /\ Asked(p) = Asked(r) + Len(wire'[Client(c)])
                 /\ r \in {2, 3} => m_dataBuf'[Server(c)] = id[c]
    <3>0. Asked(p) = Asked(s) + Len(wire[Client(c)]) /\ s = 1
      BY <2>7, <2>9 DEF Exchange
    <3>1. Told(2) = Told(s) /\ Asked(p) = Asked(2) + Len(wire'[Client(c)])
      BY <2>6, <3>0, Counts
    <3> QED BY <2>6, <2>7, <3>1
  <2> QED BY <2>1, <2>2, <2>3, <2>4, <2>5, <2>6, <2>8, <2>9, ServerMoves
<1>6. CASE InitiateSendResponse(c)
  <2>1. op[Server(c)] = "readData" /\ res[Server(c)] = "ok"
    BY <1>6, BoundsAssumption DEF InitiateSendResponse, IInv, Exact
  <2>2. /\ op'[Server(c)] = "writeLen" /\ res'[Server(c)] = "pending"
        /\ op'[Client(c)] = op[Client(c)] /\ res'[Client(c)] = res[Client(c)]
        /\ UNCHANGED <<m_dataBuf, wire, srv, ui, id>>
    BY <1>6, TwoEnds DEF InitiateSendResponse, Starts, IInv, StateType, client
  <2>3. \A s : ServerAt(c, s) => ServerAt(c, s)'
    BY <2>1, <2>2 DEF ServerAt
  <2>4. Connected(c)
    BY <2>1 DEF Pair, Abandoned
  <2>5. \A p \in 0 .. 4, s \in 0 .. 4 : Exchange(c, p, s) =>
          /\ ServerAt(c, s)' /\ Told(s) = Told(s)
          /\ Asked(p) = Asked(s) + Len(wire'[Client(c)])
          /\ s \in {2, 3} => m_dataBuf'[Server(c)] = id[c]
    BY <2>2, <2>3 DEF Exchange
  <2> QED BY <1>2, <2>2, <2>4, <2>5, ServerMoves
<1>7. CASE OnDisconnected(c) \/ OnError(c)
  <2>1. res[Server(c)] \in {"eof", "error"} /\ srv = "serving"
    BY <1>7 DEF OnDisconnected, OnError, Turn
  <2> QED BY <2>1 DEF Pair, Connected, Abandoned
<1> QED BY <1>3, <1>4, <1>5, <1>6, <1>7 DEF ServerStep

\* A step that takes the client on and leaves the server's end alone.
LEMMA ClientMoves ==
    ASSUME IInv, ContentType, NEW c \in Clients, Pair(c), ui[c] \in {"input", "join"},
           UNCHANGED <<srv, ui, id, m_dataBuf>>, res'[Client(c)] \in {"pending", "over"},
           op'[Server(c)] = op[Server(c)], res'[Server(c)] = res[Server(c)],
           wire'[Client(c)] = wire[Client(c)],
           AllOf(wire'[Server(c)], id[c]), NEW taken \in 0 .. 1,
           wire'[Server(c)] \in Seq(Cells),
           Len(wire[Server(c)]) = Len(wire'[Server(c)]) + taken,
           \A p \in 0 .. 4 : ClientAt(c, p) =>
             \E r \in 0 .. 4 :
               /\ ClientAt(c, r)' /\ Asked(r) = Asked(p) /\ Told(r) = Told(p) + taken
               /\ r < 2 <=> p < 2
    PROVE  Pair(c)'
<1>1. CASE Connected(c)
  <2>1. PICK p, s \in 0 .. 4 : Exchange(c, p, s)
    BY <1>1 DEF Connected
  <2>2. PICK r \in 0 .. 4 :
               /\ ClientAt(c, r)' /\ Asked(r) = Asked(p) /\ Told(r) = Told(p) + taken
               /\ r < 2 <=> p < 2
    BY <2>1 DEF Exchange
  <2>3. ServerAt(c, s)'
    BY <2>1 DEF Exchange, ServerAt
  <2>4. Told(s) = Told(r) + Len(wire'[Server(c)])
    <3>1. Told(s) = Told(p) + Len(wire[Server(c)])
      BY <2>1 DEF Exchange
    <3>2. Len(wire'[Server(c)]) \in Nat
      BY SeqFacts
    <3> QED BY <2>2, <3>1, <3>2, Counts
  <2>5. Exchange(c, r, s)'
    BY <2>1, <2>2, <2>3, <2>4 DEF Exchange
  <2>6. Connected(c)'
    BY <1>1, <2>5 DEF Connected
  <2> QED BY <2>6 DEF Pair
<1>2. CASE Abandoned(c)
  <2>1. PICK p \in 0 .. 4 :
          /\ ClientAt(c, p) /\ Told(p) + Len(wire[Server(c)]) <= 2
          /\ p < 2 => wire[Server(c)] = <<>> /\ m_dataBuf[Client(c)] = id[c]
    BY <1>2 DEF Abandoned
  <2>2. PICK r \in 0 .. 4 :
               /\ ClientAt(c, r)' /\ Asked(r) = Asked(p) /\ Told(r) = Told(p) + taken
               /\ r < 2 <=> p < 2
    BY <2>1
  <2>3. Told(r) + Len(wire'[Server(c)]) <= 2
    <3>1. Len(wire'[Server(c)]) \in Nat
      BY SeqFacts
    <3> QED BY <2>1, <2>2, <3>1, Counts
  <2>4. r < 2 => wire'[Server(c)] = <<>>
    <3>1. ASSUME r < 2 PROVE wire'[Server(c)] = <<>>
      <4>1. Told(r) = 0 /\ Told(p) = 0
        BY <2>2, <3>1 DEF Told
      <4>2. taken = 0 /\ wire[Server(c)] = <<>>
        BY <2>1, <2>2, <3>1, <4>1
      <4>3. Len(wire'[Server(c)]) \in Nat /\ Len(wire'[Server(c)]) + 0 = 0
        BY <4>2, SeqFacts
      <4> QED BY <4>3, SeqFacts
    <3> QED BY <3>1
  <2>5. Abandoned(c)'
    BY <1>2, <2>1, <2>2, <2>3, <2>4 DEF Abandoned
  <2> QED BY <2>5 DEF Pair
<1> QED BY <1>1, <1>2 DEF Pair

\* The steps of a client and its user, for its own connection.
LEMMA ClientPair ==
    ASSUME IInv, ContentType, NEW c \in Clients, Pair(c),
           ClientStep(c) \/ UserStep(c)
    PROVE  Pair(c)'
<1>1. /\ wire[Client(c)] \in Seq(Cells) /\ wire[Server(c)] \in Seq(Cells)
      /\ Len(wire[Server(c)]) \in Nat
  BY TwoEnds DEF ContentType
<1>2. ASSUME ui[c] \in {"input", "join"}, UNCHANGED <<srv, ui, id, m_dataBuf>>,
             Takes(Client(c)), wire[Server(c)] # <<>>,
             \/ op[Client(c)] = "readLen" /\ op' = [op EXCEPT ![Client(c)] = "readData"]
             \/ op[Client(c)] = "readData" /\ op' = [op EXCEPT ![Client(c)] = "none"],
             \E how \in {"pending", "over"} : res' = [res EXCEPT ![Client(c)] = how]
      PROVE  Pair(c)'
  <2>1. wire'[Server(c)] = Tail(wire[Server(c)]) /\ wire'[Client(c)] = wire[Client(c)]
    BY <1>2, TwoEnds DEF Takes, ContentType
  <2>2. /\ AllOf(wire'[Server(c)], id[c]) /\ wire'[Server(c)] \in Seq(Cells)
        /\ Len(wire[Server(c)]) = Len(wire'[Server(c)]) + 1
    BY <1>1, <1>2, <2>1, SeqFacts DEF Pair
  <2>3. /\ op'[Server(c)] = op[Server(c)] /\ res'[Server(c)] = res[Server(c)]
        /\ res'[Client(c)] \in {"pending", "over"}
    BY <1>2, TwoEnds DEF IInv, StateType
  <2>4. \/ op[Client(c)] = "readLen" /\ op'[Client(c)] = "readData"
        \/ op[Client(c)] = "readData" /\ op'[Client(c)] = "none"
    BY <1>2, TwoEnds DEF IInv, StateType
  <2>5. \A p \in 0 .. 4 : ClientAt(c, p) => p \in {2, 3} /\ ClientAt(c, p + 1)'
    BY <2>4 DEF ClientAt
  <2>6. \A p \in 0 .. 4 : ClientAt(c, p) =>
          \E r \in 0 .. 4 :
            /\ ClientAt(c, r)' /\ Asked(r) = Asked(p) /\ Told(r) = Told(p) + 1
            /\ r < 2 <=> p < 2
    <3> SUFFICES ASSUME NEW p \in 0 .. 4, ClientAt(c, p)
                 PROVE  /\ p + 1 \in 0 .. 4 /\ ClientAt(c, p + 1)'
                        /\ Asked(p + 1) = Asked(p) /\ Told(p + 1) = Told(p) + 1
                        /\ p + 1 < 2 <=> p < 2
      OBVIOUS
    <3> QED BY <2>5, Counts
  <2>7. ui[c] \in {"input", "join"} /\ UNCHANGED <<srv, ui, id, m_dataBuf>> /\ 1 \in 0 .. 1
    BY <1>2
  <2> HIDE <1>2
  <2> QED BY <2>1, <2>2, <2>3, <2>6, <2>7, ClientMoves
<1>3. CASE InRun(c) /\ Continues(Client(c))
  <2>1. PICK kind \in {"writeLen", "writeData", "readLen"} :
          /\ Ran(Client(c), kind) /\ Starts(Client(c), Chain["client"][kind])
          /\ IF kind \in Reads THEN Takes(Client(c)) ELSE UNCHANGED wire
    BY <1>3, TwoEnds DEF Continues, Chain
  <2>2. ui[c] \in {"input", "join"} /\ UNCHANGED <<srv, ui, id, m_dataBuf>>
    BY <1>3 DEF InRun, Continues, server, client
  <2>3. CASE kind = "readLen"
    <3>1. Takes(Client(c)) /\ wire[Server(c)] # <<>> /\ op[Client(c)] = "readLen"
      BY <2>1, <2>3, TwoEnds DEF Ran, Reads, Writes
    <3>2. Starts(Client(c), "readData")
      BY <2>1, <2>3 DEF Chain
    <3> QED BY <1>2, <2>2, <3>1, <3>2 DEF Starts
  <2>4. CASE kind \in {"writeLen", "writeData"}
    <3>1. UNCHANGED wire /\ op[Client(c)] = kind /\ res[Client(c)] = "ok"
      BY <2>1, <2>4 DEF Ran, Reads, Writes
    <3>2. PICK next : /\ next = Chain["client"][kind]
                      /\ next = IF kind = "writeLen" THEN "writeData" ELSE "readLen"
      BY <2>4 DEF Chain
    <3>3. /\ op'[Client(c)] = next /\ res'[Client(c)] = "pending"
          /\ op'[Server(c)] = op[Server(c)] /\ res'[Server(c)] = res[Server(c)]
      BY <2>1, <3>2, TwoEnds DEF Starts, IInv, StateType
    <3>4. \A p \in 0 .. 4 : ClientAt(c, p) => ClientAt(c, p)'
      BY <2>4, <3>1, <3>2, <3>3 DEF ClientAt
    <3>5. \A p \in 0 .. 4 : ClientAt(c, p) =>
            \E r \in 0 .. 4 :
              /\ ClientAt(c, r)' /\ Asked(r) = Asked(p) /\ Told(r) = Told(p) + 0
              /\ r < 2 <=> p < 2
      BY <3>4, Counts
    <3>6. /\ AllOf(wire'[Server(c)], id[c]) /\ wire'[Server(c)] \in Seq(Cells)
          /\ Len(wire[Server(c)]) = Len(wire'[Server(c)]) + 0
      BY <1>1, <2>2, <3>1 DEF Pair
    <3> QED BY <2>2, <3>1, <3>3, <3>5, <3>6, ClientMoves
  <2> QED BY <2>3, <2>4
<1>4. CASE OnResponse(c)
  <2>1. ui[c] \in {"input", "join"} /\ UNCHANGED <<srv, ui, id, m_dataBuf>>
    BY <1>4 DEF InRun, OnResponse, server, client
  <2>2. Takes(Client(c)) /\ wire[Server(c)] # <<>> /\ op[Client(c)] = "readData"
        /\ Stops(Client(c))
    BY <1>4, TwoEnds DEF OnResponse, Ran, Writes
  <2> QED BY <1>2, <2>1, <2>2 DEF Stops
<1>5. CASE OnServerLost(c)
  <2>1. ui[c] \in {"input", "join"} /\ UNCHANGED <<srv, ui, id, m_dataBuf, wire>>
    BY <1>5 DEF InRun, OnServerLost, server
  <2>2. /\ op'[Client(c)] = "none" /\ res'[Client(c)] = "over"
        /\ op'[Server(c)] = op[Server(c)] /\ res'[Server(c)] = res[Server(c)]
        /\ res[Client(c)] \in {"eof", "error"}
    BY <1>5, TwoEnds DEF OnServerLost, Stops, IInv, StateType
  <2>3. Abandoned(c) /\ wire[Server(c)] = <<>>
    BY <2>1, <2>2 DEF Pair, Connected, Abandoned
  <2>4. ClientAt(c, 4)' /\ Told(4) + Len(<<>>) <= 2
    BY <2>2 DEF ClientAt, Told
  <2>5. Abandoned(c)'
    BY <2>1, <2>2, <2>3, <2>4 DEF Abandoned
  <2> QED BY <2>1, <2>5 DEF Pair
<1>6. CASE BgReturns(c) \/ LeaveLoop(c)
  <2>1. UNCHANGED <<op, res, m_dataBuf, wire, srv, id>>
    BY <1>6 DEF BgReturns, LeaveLoop, ends, server
  <2>2. ui[c] \in {"input", "join"} /\ ui'[c] \in {"input", "join"}
    BY <1>6 DEF BgReturns, LeaveLoop, InRun, Goes, IInv, StateType
  <2>3. (Connected(c) => Connected(c)') /\ (Abandoned(c) => Abandoned(c)')
    BY <2>1 DEF Connected, Abandoned, Exchange, ClientAt, ServerAt
  <2> QED BY <2>1, <2>2, <2>3 DEF Pair
<1>7. CASE ClientJoin(c) \/ TypeAhead(c) \/ Killed(c)
  <2>1. ui'[c] \in {"raced", "ended"}
    BY <1>7 DEF ClientJoin, TypeAhead, Killed, Exit, Goes, IInv, StateType
  <2> QED BY <2>1 DEF Pair
<1>8. CASE SendRequest(c)
  <2>1. ui[c] = "input" /\ op[Client(c)] = "none" /\ UNCHANGED <<wire, srv, ui>>
    BY <1>8 DEF SendRequest, server
  <2>2. /\ op'[Client(c)] = "writeLen" /\ res'[Client(c)] = "pending"
        /\ op'[Server(c)] = op[Server(c)] /\ res'[Server(c)] = res[Server(c)]
    BY <1>8, TwoEnds DEF SendRequest, Starts, IInv, StateType
  <2>3. /\ id'[c] = id[c] + 1 /\ m_dataBuf'[Client(c)] = id[c] + 1
        /\ m_dataBuf'[Server(c)] = m_dataBuf[Server(c)]
    BY <1>8, TwoEnds DEF SendRequest, Gives, ContentType
  <2>4. ClientAt(c, 0)' /\ \A p : ClientAt(c, p) => p = 4
    BY <2>1, <2>2 DEF ClientAt
  <2>5. \A s : ServerAt(c, s)' <=> ServerAt(c, s)
    BY <2>2 DEF ServerAt
  <2>6. CASE Connected(c)
    <3>1. PICK p, s \in 0 .. 4 : Exchange(c, p, s)
      BY <2>6 DEF Connected
    <3>2. /\ ServerAt(c, s) /\ Asked(4) = Asked(s) + Len(wire[Client(c)])
          /\ Told(s) = Told(4) + Len(wire[Server(c)])
      BY <2>4, <3>1 DEF Exchange
    <3>3. Len(wire[Client(c)]) \in Nat /\ Len(wire[Server(c)]) \in Nat
      BY <1>1
    <3>4. Told(s) = 2
      BY <3>1, <3>2, <3>3, Counts
    <3>5. s = 4
      BY <3>4, Counts
    <3>6. Len(wire[Client(c)]) = 0 /\ Len(wire[Server(c)]) = 0
      BY <3>2, <3>3, <3>5, Counts
    <3>7. wire'[Client(c)] = <<>> /\ wire'[Server(c)] = <<>>
      BY <1>1, <2>1, <3>6, SeqFacts
    <3>8. ServerAt(c, 0)'
      BY <2>5, <3>2, <3>5 DEF ServerAt
    <3>9. Exchange(c, 0, 0)'
      BY <2>3, <2>4, <3>7, <3>8, Counts DEF Exchange
    <3>10. Connected(c)'
      BY <2>1, <2>2, <2>6, <3>9 DEF Connected
    <3> QED BY <2>1, <3>7, <3>10, SeqFacts DEF Pair
  <2>7. CASE Abandoned(c)
    <3>1. Told(4) + Len(wire[Server(c)]) <= 2
      BY <2>4, <2>7 DEF Abandoned
    <3>2. Len(wire[Server(c)]) = 0
      BY <1>1, <3>1, Counts
    <3>3. wire'[Client(c)] = <<>> /\ wire'[Server(c)] = <<>>
      BY <1>1, <2>1, <2>7, <3>2, SeqFacts DEF Abandoned
    <3>4. Told(0) + Len(<<>>) <= 2
      BY Counts
    <3>5. Abandoned(c)'
      BY <2>1, <2>2, <2>3, <2>4, <2>7, <3>3, <3>4 DEF Abandoned
    <3> QED BY <2>1, <3>3, <3>5, SeqFacts DEF Pair
  <2> QED BY <2>1, <2>6, <2>7 DEF Pair
<1>9. CASE Connect(c)
  <2>1. ui[c] = "start" /\ srv # "start" /\ UNCHANGED <<op, res, m_dataBuf, wire, srv, id>>
    BY <1>9 DEF Connect, ends, server
  <2>2. Unused(c) /\ ui'[c] = IF Listening THEN "input" ELSE "failed"
    BY <1>9, <2>1 DEF Pair, Connect, Goes, IInv, StateType
  <2>3. CASE Listening
    <3>1. /\ srv \in {"serving", "join"} /\ res[Server(c)] = "none" /\ res[Client(c)] = "none"
      BY <2>2, <2>3 DEF Listening, Unused
    <3>2. ClientAt(c, 4)' /\ ServerAt(c, 4)'
      BY <2>1, <2>2 DEF Unused, ClientAt, ServerAt
    <3>3. Len(<<>>) = 0
      OBVIOUS
    <3>4. Exchange(c, 4, 4)'
      BY <2>1, <2>2, <3>2, <3>3, Counts DEF Unused, Exchange
    <3>5. Connected(c)'
      BY <2>1, <2>2, <3>1, <3>4 DEF Unused, Connected
    <3> QED BY <2>1, <2>2, <2>3, <3>5, SeqFacts DEF Unused, Pair
  <2>4. CASE ~Listening
    BY <2>1, <2>2, <2>4 DEF Unused, Pair
  <2> QED BY <2>3, <2>4
<1> QED BY <1>3, <1>4, <1>5, <1>6, <1>7, <1>8, <1>9 DEF ClientStep, UserStep

\* The end of the server: of a response its client may still get the rest.
LEMMA JoinPair ==
    ASSUME IInv, ContentType, NEW c \in Clients, Pair(c), Join
    PROVE  Pair(c)'
<1>1. PICK k \in 0 .. 2 : Cut({"server"} \X Clients, k)
  BY DEF Join
<1>2. Server(c) \in {"server"} \X Clients /\ Client(c) \notin {"server"} \X Clients
  BY DEF Server, Client
<1>3. /\ op'[Server(c)] = "none" /\ op'[Client(c)] = op[Client(c)]
      /\ res'[Client(c)] = res[Client(c)] /\ m_dataBuf'[Client(c)] = m_dataBuf[Client(c)]
      /\ wire'[Client(c)] = <<>> /\ wire'[Server(c)] = Prefix(wire[Server(c)], k)
  BY <1>1, <1>2, TwoEnds DEF Cut, Forget
<1>4. UNCHANGED <<ui, id>> /\ srv = "join" /\ srv' = "ended"
  BY DEF Join, client
<1>5. /\ wire[Client(c)] \in Seq(Cells) /\ wire[Server(c)] \in Seq(Cells)
      /\ Len(wire[Client(c)]) \in Nat /\ Len(wire[Server(c)]) \in Nat /\ k \in Nat
  BY TwoEnds DEF ContentType
<1>6. /\ wire'[Server(c)] \in Seq(Cells) /\ Len(wire'[Server(c)]) <= Len(wire[Server(c)])
      /\ Len(wire'[Server(c)]) \in Nat
      /\ AllOf(wire[Server(c)], id[c]) => AllOf(wire'[Server(c)], id[c])
  BY <1>3, <1>5, SeqFacts
<1>7. wire[Server(c)] = <<>> => wire'[Server(c)] = <<>>
  BY <1>5, <1>6, SeqFacts
<1>8. \A p : ClientAt(c, p)' <=> ClientAt(c, p)
  BY <1>3 DEF ClientAt
<1>9. CASE ui[c] \in {"start", "failed"}
  BY <1>3, <1>4, <1>7, <1>9 DEF Pair, Unused
<1>10. CASE ui[c] \in {"input", "join"}
  <2>1. Connected(c)
    BY <1>4, <1>10 DEF Pair, Abandoned
  <2>2. PICK p, s \in 0 .. 4 : Exchange(c, p, s)
    BY <2>1 DEF Connected
  <2>3. /\ ClientAt(c, p) /\ Asked(p) = Asked(s) + Len(wire[Client(c)])
        /\ Told(s) = Told(p) + Len(wire[Server(c)])
        /\ p < 2 => m_dataBuf[Client(c)] = id[c]
    BY <2>2 DEF Exchange
  <2>4. Told(p) + Len(wire'[Server(c)]) <= 2
    BY <1>5, <1>6, <2>3, Counts
  <2>5. p < 2 => wire'[Server(c)] = <<>>
    <3>1. ASSUME p < 2 PROVE wire[Server(c)] = <<>>
      <4>0. p \in {0, 1} /\ Asked(p) < 2
        BY <3>1, Counts
      <4>1. s < 2
        BY <1>5, <2>3, <4>0, Counts
      <4>2. Told(p) = 0 /\ Told(s) = 0
        BY <3>1, <4>1 DEF Told
      <4>3. Len(wire[Server(c)]) = 0
        BY <1>5, <2>3, <4>2
      <4> QED BY <1>5, <4>3, SeqFacts
    <3> QED BY <1>7, <3>1
  <2>6. Abandoned(c)'
    BY <1>3, <1>4, <1>8, <2>1, <2>3, <2>4, <2>5 DEF Abandoned, Connected
  <2> QED BY <1>3, <1>4, <1>6, <1>10, <2>6, SeqFacts DEF Pair
<1> QED BY <1>4, <1>9, <1>10 DEF Pair

\* Every step preserves what is known of every pair.
LEMMA NextPairs == IInv /\ ContentType /\ Pairs /\ [Next]_vars => Pairs'
<1> SUFFICES ASSUME IInv, ContentType, Pairs, [Next]_vars, NEW d \in Clients
             PROVE  Pair(d)'
  BY DEF Pairs
<1>1. Pair(d)
  BY DEF Pairs
<1>2. ASSUME NEW c \in Clients,
             \/ ServerStep(c) \/ ClientStep(c) \/ UserStep(c)
             \/ Kernel(Client(c)) \/ Kernel(Server(c))
      PROVE  Pair(d)'
  <2>1. UNCHANGED srv
    BY <1>2 DEF ServerStep, OnAccept, Continues, OnDataReceived, InitiateSendResponse,
       OnDisconnected, OnError, ClientStep, OnResponse, OnServerLost, BgReturns, ClientJoin,
       UserStep, Connect, SendRequest, LeaveLoop, TypeAhead, Killed, Kernel, CompleteWrite,
       ReadEnds, WriteFails, server
  <2>2. CASE c # d
    BY <1>1, <1>2, <2>1, <2>2, OthersUntouched, UntouchedPair DEF SameServer
  <2>3. CASE c = d /\ ServerStep(d)
    <3>1. UNCHANGED ui
      BY <2>3 DEF ServerStep, OnAccept, Continues, OnDataReceived, InitiateSendResponse,
         OnDisconnected, OnError, client
    <3>2. ASSUME Unused(d), ui[d] \in {"start", "failed"} PROVE FALSE
      <4>1. ~OnAccept(d)
        BY <3>2 DEF OnAccept, Queued
      <4>2. ~(Turn /\ Continues(Server(d)))
        BY <3>2, TwoEnds DEF Continues, Ran, Chain, Unused
      <4>3. ~OnDataReceived(d)
        BY <3>2 DEF OnDataReceived, Ran, Unused
      <4>4. ~InitiateSendResponse(d)
        BY <3>2, BoundsAssumption DEF InitiateSendResponse, IInv, Exact, Unused
      <4>5. ~OnDisconnected(d) /\ ~OnError(d)
        BY <3>2 DEF OnDisconnected, OnError, Turn, Unused
      <4> QED BY <2>3, <4>1, <4>2, <4>3, <4>4, <4>5 DEF ServerStep
    <3>3. ui[d] \notin {"start", "failed"}
      BY <1>1, <3>2 DEF Pair
    <3>4. CASE ui[d] \in {"input", "join"}
      BY <1>1, <2>3, <3>4, ServerPair
    <3> QED BY <3>1, <3>3, <3>4 DEF Pair
  <2> QED BY <1>1, <1>2, <2>2, <2>3, KernelPair, ClientPair
<1>3. CASE Join
  BY <1>1, <1>3, JoinPair
<1>4. CASE Construct \/ Stop \/ RunReturns \/ OnAcceptError \/ UNCHANGED vars
  <2>1. UNCHANGED <<op, res, m_dataBuf, wire, ui, id>> /\ SameServer
    BY <1>4 DEF Construct, Stop, RunReturns, OnAcceptError, SameServer, vars, ends, server, client
  <2> QED BY <1>1, <2>1, UntouchedPair DEF Untouched
<1>5. \A e \in Ends : \E c \in Clients : e = Server(c) \/ e = Client(c)
  BY EndFacts
<1> QED BY <1>2, <1>3, <1>4, <1>5 DEF Next

\* What the server works on, and what a client is given, follows from the pairs.
LEMMA PairsAnswer == IInv /\ ContentType /\ Pairs => AnswerIsOwn
<1> SUFFICES ASSUME IInv, ContentType, NEW c \in Clients, Pair(c), ui[c] \in {"input", "join"}
             PROVE  /\ handling = c => m_dataBuf[Server(c)] = id[c] /\ op[Client(c)] # "none"
                    /\ Ran(Client(c), "readData") => Arrived(Client(c)) = id[c]
  BY DEF Pairs, AnswerIsOwn
<1>1. /\ wire[Client(c)] \in Seq(Cells) /\ wire[Server(c)] \in Seq(Cells)
      /\ Len(wire[Client(c)]) \in Nat /\ Len(wire[Server(c)]) \in Nat
  BY TwoEnds DEF ContentType
<1>2. ASSUME handling = c
      PROVE  m_dataBuf[Server(c)] = id[c] /\ op[Client(c)] # "none"
  <2>1. op[Server(c)] = "readData" /\ res[Server(c)] = "ok"
    BY <1>2 DEF IInv, Exact
  <2>2. PICK p, s \in 0 .. 4 : Exchange(c, p, s)
    BY <2>1 DEF Pair, Abandoned, Connected
  <2>3. s = 2 /\ ClientAt(c, p) /\ Told(s) = Told(p) + Len(wire[Server(c)])
        /\ m_dataBuf[Server(c)] = id[c]
    BY <2>1, <2>2 DEF Exchange, ServerAt
  <2>4. Told(p) = 0
    BY <1>1, <2>3, Counts
  <2>5. p # 4
    BY <2>4, Counts
  <2> QED BY <2>3, <2>5 DEF ClientAt
<1>3. ASSUME Ran(Client(c), "readData") PROVE Arrived(Client(c)) = id[c]
  <2>1. wire[Server(c)] # <<>>
    BY <1>3, TwoEnds DEF Ran, Writes
  <2> QED BY <1>1, <2>1, SeqFacts, TwoEnds DEF Arrived, Pair
<1> QED BY <1>2, <1>3

\* Initially no connection is used.
LEMMA InitPairs == Init => ContentType /\ Pairs
<1> SUFFICES ASSUME Init PROVE ContentType /\ Pairs
  OBVIOUS
<1>1. ContentType
  BY SeqFacts DEF Init, ContentType
<1>2. Pairs
  BY TwoEnds DEF Init, Pairs, Pair, Unused
<1> QED BY <1>1, <1>2

\* In every state of every execution the request that the server works on is
\* the one that its client awaits the answer to, and the answer that a client is
\* given is to its last request, whatever the other clients do.
THEOREM AnswerTheorem == Spec => []AnswerIsOwn
<1>1. Init => IInv /\ ContentType /\ Pairs
  BY InitIInv, InitPairs
<1>2. IInv /\ ContentType /\ Pairs /\ [Next]_vars => (IInv /\ ContentType /\ Pairs)'
  BY NextIInv, ContentTypeStep, NextPairs
<1> QED BY <1>1, <1>2, PairsAnswer, PTL DEF Spec
=============================================================================

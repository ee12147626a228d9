---------------------------- MODULE AsioExchange ----------------------------
(***************************************************************************)
(* The programs of one exchange: src/asio6 to asio8, asio11, asio12,       *)
(* asio13, asio15 and asio16.  Each opens a socket, listens or connects on *)
(* port 8172 (asio13: 8174), and sends or receives one message.  Any of    *)
(* them may meet any other on the port.                                    *)
(*                                                                         *)
(* A program is the sequence of the library calls it makes.  All but       *)
(* asio13's make them in main() and stop at the first that fails.  Those   *)
(* of asio13 start their reads and writes from main() and complete them on *)
(* a background thread inside io_context::run, which a timer releases.     *)
(*                                                                         *)
(* A stream is a sequence of units of four bytes, each with its kind and,  *)
(* if it is half of a length, with that length.  A length is two units,    *)
(* "Hello\nWorld!" three; a payload and a TLS flight are a few.            *)
(***************************************************************************)
EXTENDS Naturals, FiniteSets, Sequences, SequencesExt

CONSTANTS
    Servers, Clients,  \* processes, by the end of the connection they take
    None,
    MaxKills           \* bound: processes that the user interrupts

ASSUME ProcessAssumption ==
    /\ MaxKills \in Nat
    /\ Servers \cap Clients = {}
    /\ None \notin Servers \cup Clients

Procs == Servers \cup Clients

(***************************************************************************)
(* The programs.                                                           *)
(***************************************************************************)
Program(n, steps) ==
    [steps |-> steps, frame |-> n, port |-> 8172, async |-> FALSE, throws |-> FALSE]

PersonLen == 1  \* a serialised Person
ArrayLen  == 2  \* two arrays of 4 KB, received into four of 2 KB

\* open() touches nothing that another program sees; it is part of the next call.
Listens  == <<"bind", "listen", "accept">>
Connects == <<"connect">>
Sends    == <<"writeLen", "writeData">>
Receives == <<"readLen", "readData">>

\* In a handshake each side awaits the other's flight.  The server's last one
\* carries session tickets, which the client would find in a later read.
ServerHandshake == <<"readHello", "writeHello", "readHello", "writeTickets">>
ClientHandshake == <<"writeHello", "readHello", "writeHello">>

asio6        == Program(0, <<"bind">>)
asio7        == Program(0, Connects)
asio8        == Program(0, Listens)
asio11Server == Program(0, Listens \o <<"writeRawUnchecked">>)
asio11Client == Program(0, Connects \o <<"writeRaw">>)
asio12Server == Program(0, Listens \o <<"readRaw">>)
asio12Client == Program(0, Connects \o <<"readRaw">>)
sendServer    == Program(PersonLen, Listens \o Sends)
receiveClient == Program(PersonLen, Connects \o Receives)
arrayServer   == Program(ArrayLen, Listens \o Sends)
arrayClient   == Program(ArrayLen, Connects \o Receives)

\* The certificates are loaded before the try block.
sslServer == Program(PersonLen, <<"context">> \o Listens \o ServerHandshake \o Receives)
sslClient == Program(PersonLen, <<"context", "connect">> \o ClientHandshake \o Sends)

asio13Server ==
    [sendServer EXCEPT !.port = 8174, !.async = TRUE, !.throws = TRUE]
asio13Client == [receiveClient EXCEPT !.port = 8174, !.async = TRUE]

ServerPrograms == {asio6, asio8, asio11Server, asio12Server, asio13Server,
                   sendServer, sslServer, arrayServer}
ClientPrograms == {asio7, asio11Client, asio12Client, asio13Client,
                   receiveClient, sslClient, arrayClient}

(***************************************************************************)
(* The state.                                                              *)
(***************************************************************************)
VARIABLES
    program,  \* what each process runs; never changes
    pc,       \* the call it makes next
    conn,     \* the process at the other end of its connection
    out,      \* what it has written and the other end has not read
    got,      \* what it has read
    main,     \* where main() is
    failed,   \* where a call has failed: "no", in "main", or in the "bg" thread
    bg,       \* the background thread is inside run()
    timer     \* the wait that resets the work guard: "unset", "armed", "expired"

vars == <<program, pc, conn, out, got, main, failed, bg, timer>>

Init ==
    /\ program \in [Procs -> ServerPrograms \cup ClientPrograms]
    /\ \A s \in Servers : program[s] \in ServerPrograms
    /\ \A c \in Clients : program[c] \in ClientPrograms
    /\ pc = [p \in Procs |-> 1]
    /\ conn = [p \in Procs |-> None]
    /\ out = [p \in Procs |-> <<>>] /\ got = [p \in Procs |-> <<>>]
    /\ main = [p \in Procs |-> "steps"]
    /\ failed = [p \in Procs |-> "no"]
    /\ bg = [p \in Procs |-> program[p].async]
    /\ timer = [p \in Procs |-> "unset"]

Setup == {"context", "bind", "listen", "accept", "connect"}

Over(p)    == pc[p] > Len(program[p].steps)
Step(p)    == program[p].steps[pc[p]]
Running(p) == main[p] # "ended"

\* The calls of the exchange itself, which asio13 leaves to its other thread.
InBackground(p) == program[p].async /\ ~Over(p) /\ Step(p) \notin Setup

Calls(p, step) ==
    /\ ~Over(p) /\ failed[p] = "no" /\ Step(p) = step
    /\ IF InBackground(p) THEN bg[p] ELSE main[p] = "steps"

\* asio13's server ends its last handler in an exception, to test the thread.
Advance(p) ==
    /\ pc' = [pc EXCEPT ![p] = @ + 1]
    /\ bg' = [bg EXCEPT ![p] =
                @ /\ ~(program[p].throws /\ pc[p] = Len(program[p].steps))]
    /\ UNCHANGED <<program, main, failed, timer>>

\* An exception in a handler ends run(), one in main() does not.
Fail(p) ==
    /\ failed' = [failed EXCEPT ![p] = IF InBackground(p) THEN "bg" ELSE "main"]
    /\ bg' = [bg EXCEPT ![p] = @ /\ ~InBackground(p)]
    /\ UNCHANGED <<program, pc, conn, out, got, main, timer>>

(***************************************************************************)
(* The port.                                                               *)
(***************************************************************************)
AfterStep(p, step) == \E k \in 1 .. pc[p] - 1 : program[p].steps[k] = step

\* The acceptor lives as long as its function: asio13 returns from it when the
\* exchange has been started, the others at their end.
AcceptorOpen(s) ==
    /\ Running(s) /\ AfterStep(s, "bind")
    /\ ~(program[s].async /\ (failed[s] = "main" \/ AfterStep(s, "accept")))

Listening(s) == AcceptorOpen(s) /\ AfterStep(s, "listen")

Accepted(p)  == conn[p] # None /\ conn[conn[p]] = p
Connected(p) == conn[p] # None
Incoming(p)  == IF Accepted(p) THEN out[conn[p]] ELSE <<>>

\* The other end is closed; a connection nobody accepted closes with the acceptor.
Gone(p) ==
    /\ Connected(p)
    /\ ~Running(conn[p]) \/ (~Accepted(p) /\ ~AcceptorOpen(conn[p]))

(***************************************************************************)
(* Calls.                                                                  *)
(***************************************************************************)
Prepare(p) ==
    /\ \E step \in {"context", "listen"} : Calls(p, step)
    /\ Advance(p)
    /\ UNCHANGED <<conn, out, got>>

Bind(p) ==
    /\ Calls(p, "bind")
    /\ \A s \in Servers : AcceptorOpen(s) => program[s].port # program[p].port
    /\ Advance(p)
    /\ UNCHANGED <<conn, out, got>>

Connect(p, s) ==
    /\ Calls(p, "connect") /\ Listening(s) /\ program[s].port = program[p].port
    /\ conn' = [conn EXCEPT ![p] = s]
    /\ Advance(p)
    /\ UNCHANGED <<out, got>>

\* A connection is accepted even when its client has left meanwhile.
Accept(s, p) ==
    /\ Calls(s, "accept") /\ conn[p] = s
    /\ conn' = [conn EXCEPT ![s] = p]
    /\ Advance(s)
    /\ UNCHANGED <<out, got>>

\* A port in use or in TIME_WAIT, nobody listening, a certificate that is
\* missing or not trusted: any call before the exchange may fail.
SetupFails(p) ==
    /\ \E step \in Setup \cup {"readHello"} : Calls(p, step)
    /\ Fail(p)

\* What a call writes.
Length(n)  == <<<<"len", n>>, <<"len", n>>>>
Payload(n) == [k \in 1 .. n |-> <<"data", 0>>]
Flight     == <<<<"hello", 0>>, <<"hello", 0>>, <<"hello", 0>>>>
Raw        == <<<<"raw", 0>>, <<"raw", 0>>, <<"raw", 0>>>>
Frame(n)   == Length(n) \o Payload(n)

Written(p, step) ==
    CASE step = "writeLen"     -> {Length(program[p].frame)}
      [] step = "writeData"    -> {Payload(program[p].frame)}
      [] step = "writeHello"   -> {Flight}
      [] step = "writeTickets" -> {<<>>, Flight}
      [] OTHER                 -> {Raw}

Writes == {"writeLen", "writeData", "writeHello", "writeTickets", "writeRaw", "writeRawUnchecked"}

Write(p) ==
    \E step \in Writes :
        /\ Calls(p, step)
        /\ \E units \in Written(p, step) : out' = [out EXCEPT ![p] = @ \o units]
        /\ Advance(p)
        /\ UNCHANGED <<conn, got>>

\* asio11's server does not look at the error.
WriteFails(p) ==
    /\ Gone(p)
    /\ \/ \E step \in Writes \ {"writeRawUnchecked", "writeTickets"} : Calls(p, step) /\ Fail(p)
       \/ Calls(p, "writeRawUnchecked") /\ Advance(p) /\ UNCHANGED <<conn, out, got>>

Reads == {"readLen", "readData", "readHello", "readRaw"}

\* How many units a read takes.  What is not a length reads as an immense one.
Announced(p) == Last(got[p])
Suffices(p, step, n) ==
    CASE step = "readLen"   -> n = 2
      [] step = "readHello" -> n = 3
      [] step = "readRaw"   -> n = 3
      [] step = "readData"  -> Announced(p)[1] = "len" /\ n = Announced(p)[2]

BadFlight(p) == Incoming(p) # <<>> /\ Head(Incoming(p))[1] # "hello"

Takes(p, n) ==
    /\ got' = [got EXCEPT ![p] = @ \o SubSeq(Incoming(p), 1, n)]
    /\ out' = [out EXCEPT ![conn[p]] = SubSeq(@, n + 1, Len(@))]

\* Fault: a read of data that the end of the stream cuts short is taken for done.
ReadUnchecked(p) ==
    \E step \in Reads :
        /\ Calls(p, step)
        /\ \E n \in 0 .. Len(Incoming(p)) :
             /\ \/ Suffices(p, step, n)
                \/ step = "readData" /\ Gone(p) /\ Accepted(p) /\ n = Len(Incoming(p))
             /\ Takes(p, n)
        /\ Advance(p)
        /\ UNCHANGED conn

Read(p) ==
    \E step \in Reads :
        /\ Calls(p, step)
        /\ step = "readHello" => ~BadFlight(p)
        /\ \E n \in 0 .. Len(Incoming(p)) : Suffices(p, step, n) /\ Takes(p, n)
        /\ Advance(p)
        /\ UNCHANGED conn

\* The end of the stream, or not what TLS expects.
ReadFails(p) ==
    /\ \E step \in Reads :
         /\ Calls(p, step)
         /\ \/ /\ Gone(p)
               /\ \A n \in 0 .. Len(Incoming(p)) : ~Suffices(p, step, n)
            \/ step = "readHello" /\ BadFlight(p)
    /\ Fail(p)

(***************************************************************************)
(* The end of a process, and asio13's background thread.                   *)
(***************************************************************************)
\* Closing over unread data resets the connection, and a reset may destroy
\* what is still on its way to the other end.
Closes(p) ==
    /\ main' = [main EXCEPT ![p] = "ended"]
    /\ out' \in IF Incoming(p) = <<>> THEN {out}
                ELSE {[out EXCEPT ![p] = SubSeq(@, 1, k)] : k \in 0 .. Len(out[p])}

Return(p) ==
    /\ main[p] = "steps" /\ ~program[p].async
    /\ Over(p) \/ failed[p] # "no"
    /\ Closes(p)
    /\ UNCHANGED <<program, pc, conn, got, failed, bg, timer>>

\* Fault: the timer is a local of run_client() and dies with it.
ArmTimerForgets(p) ==
    /\ main[p] = "steps" /\ program[p].async
    /\ Over(p) \/ InBackground(p) \/ failed[p] # "no"
    /\ main' = [main EXCEPT ![p] = "join"]
    /\ UNCHANGED <<program, pc, conn, out, got, failed, bg, timer>>

\* run_server() or run_client() has returned.
ArmTimer(p) ==
    /\ main[p] = "steps" /\ program[p].async
    /\ Over(p) \/ InBackground(p) \/ failed[p] # "no"
    /\ main' = [main EXCEPT ![p] = "join"]
    /\ timer' = [timer EXCEPT ![p] = "armed"]
    /\ UNCHANGED <<program, pc, conn, out, got, failed, bg>>

TimerExpires(p) ==
    /\ Running(p) /\ timer[p] = "armed" /\ bg[p]
    /\ timer' = [timer EXCEPT ![p] = "expired"]
    /\ UNCHANGED <<program, pc, conn, out, got, main, failed, bg>>

\* Fault: the timer stops the context instead of resetting the guard.
RunStops(p) ==
    /\ Running(p) /\ bg[p] /\ timer[p] = "expired"
    /\ bg' = [bg EXCEPT ![p] = FALSE]
    /\ UNCHANGED <<program, pc, conn, out, got, main, failed, timer>>

\* Without the guard run() returns when no operation is outstanding.
RunReturns(p) ==
    /\ Running(p) /\ bg[p] /\ timer[p] = "expired"
    /\ Over(p) \/ failed[p] = "main"
    /\ bg' = [bg EXCEPT ![p] = FALSE]
    /\ UNCHANGED <<program, pc, conn, out, got, main, failed, timer>>

Join(p) ==
    /\ main[p] = "join" /\ ~bg[p]
    /\ Closes(p)
    /\ UNCHANGED <<program, pc, conn, got, failed, bg, timer>>

\* The user's Ctrl-C; a write under way is cut off.
Killed(p) ==
    /\ Running(p)
    /\ Cardinality({q \in Procs : failed[q] = "killed"}) < MaxKills
    /\ main' = [main EXCEPT ![p] = "ended"]
    /\ failed' = [failed EXCEPT ![p] = "killed"]
    /\ \E k \in 0 .. Len(out[p]) : out' = [out EXCEPT ![p] = SubSeq(@, 1, k)]
    /\ UNCHANGED <<program, pc, conn, got, bg, timer>>

(***************************************************************************)
(* The specification.                                                      *)
(***************************************************************************)
ProcessStep(p) ==
    \/ Prepare(p) \/ Bind(p) \/ SetupFails(p)
    \/ \E q \in Procs : Connect(p, q) \/ Accept(p, q)
    \/ Write(p) \/ WriteFails(p) \/ Read(p) \/ ReadFails(p)
    \/ Return(p) \/ ArmTimer(p) \/ TimerExpires(p) \/ RunReturns(p) \/ Join(p)

Next == \E p \in Procs : ProcessStep(p) \/ Killed(p)

Spec == Init /\ [][Next]_vars

\* Processes are scheduled and time passes.
Fairness == \A p \in Procs : WF_vars(ProcessStep(p))

FairSpec == Spec /\ Fairness

(***************************************************************************)
(* Properties.                                                             *)
(***************************************************************************)
\* A program that receives frames and gets to the end of its calls has met one
\* that sends them, and has read the flights of its handshake, the whole of
\* that one's frame and nothing else, wherever the other was cut off.
FrameIsWhole ==
    \A p \in Procs :
        Over(p) /\ "readData" \in ToSet(program[p].steps) =>
            /\ "writeData" \in ToSet(program[conn[p]].steps)
            /\ \E n \in 0 .. Len(got[p]) :
                 /\ \A k \in 1 .. n : got[p][k] \in ToSet(Flight)
                 /\ SubSeq(got[p], n + 1, Len(got[p])) = Frame(program[conn[p]].frame)

\* Both ends read first: asio12's client and server, for one.
StandOff ==
    \E p \in Procs :
        /\ Accepted(p)
        /\ \A q \in {p, conn[p]} :
             \E step \in Reads : ~Over(q) /\ Step(q) = step /\ failed[q] = "no" /\ got[q] = <<>>
        /\ Incoming(p) = <<>> /\ Incoming(conn[p]) = <<>>

\* Every program that has its connection ends, with or without success: neither
\* an outstanding read, nor the guard, nor a place in a queue that is never
\* served keeps it, unless two programs that both await the first word face
\* each other.
NobodyWaitsForever ==
    \A p \in Procs : Connected(p) ~> (~Running(p) \/ StandOff)

\* No process ends in the middle of its calls but for one that failed: the
\* timer of asio13, which gives up the guard, never gives up the exchange.
NothingAbandoned ==
    \A p \in Procs : ~Running(p) => Over(p) \/ failed[p] # "no"
=============================================================================

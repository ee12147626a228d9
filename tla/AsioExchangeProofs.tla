------------------------- MODULE AsioExchangeProofs -------------------------
(***************************************************************************)
(* Proofs about AsioExchange, for any number of processes on the port and  *)
(* any mixture of the programs.                                            *)
(*                                                                         *)
(* That no process abandons its exchange is an argument about the two      *)
(* threads of the asio13 programs: main() joins the other one, and that    *)
(* one leaves run() by its exception, by a failure, or when nothing is     *)
(* left to do, which the reset of the guard alone does not bring about.    *)
(* That a receiver gets a whole frame is one about the two streams of a    *)
(* connection: what stands in them is known from the programs, by position.*)
(***************************************************************************)
EXTENDS AsioExchange, SequenceTheorems, TLAPS

ProcessType ==
    /\ program \in [Procs -> ServerPrograms \cup ClientPrograms]
    /\ pc \in [Procs -> Nat]
    /\ main \in [Procs -> {"steps", "join", "ended"}]
    /\ failed \in [Procs -> {"no", "main", "bg", "killed"}]
    /\ bg \in [Procs -> BOOLEAN]

Finished(p) == Over(p) \/ failed[p] # "no"

\* The background thread leaves run() with the exchange finished.
BgLeavesLast  == \A p \in Procs : program[p].async /\ ~bg[p] => Finished(p)
OnlyBgsJoined == \A p \in Procs : main[p] = "join" => program[p].async

IInv == ProcessType /\ BgLeavesLast /\ OnlyBgsJoined /\ NothingAbandoned

\* Whether a program has a background thread is a boolean.
LEMMA AsyncType == \A n \in ServerPrograms \cup ClientPrograms : n.async \in BOOLEAN
<1>1. \A k, steps : Program(k, steps).async = FALSE
  BY DEF Program
<1>2. /\ asio6.async = FALSE /\ asio7.async = FALSE /\ asio8.async = FALSE
      /\ asio11Server.async = FALSE /\ asio11Client.async = FALSE
      /\ asio12Server.async = FALSE /\ asio12Client.async = FALSE
  BY <1>1 DEF asio6, asio7, asio8, asio11Server, asio11Client, asio12Server, asio12Client
<1>3. /\ sendServer.async = FALSE /\ receiveClient.async = FALSE
      /\ arrayServer.async = FALSE /\ arrayClient.async = FALSE
      /\ sslServer.async = FALSE /\ sslClient.async = FALSE
  BY <1>1 DEF sendServer, receiveClient, arrayServer, arrayClient, sslServer, sslClient
<1>4. asio13Server.async = TRUE /\ asio13Client.async = TRUE
  BY DEF asio13Server, asio13Client, sendServer, receiveClient, Program
<1> QED BY <1>2, <1>3, <1>4 DEF ServerPrograms, ClientPrograms

\* Initially every program is before its first call, and run() is entered.
LEMMA InitIInv == Init => IInv
<1> SUFFICES ASSUME Init PROVE IInv
  OBVIOUS
<1>1. program \in [Procs -> ServerPrograms \cup ClientPrograms]
  BY DEF Init
<1>2. \A p \in Procs : program[p].async \in BOOLEAN
  BY <1>1, AsyncType
<1>3. ProcessType
  BY <1>1, <1>2 DEF Init, ProcessType
<1> QED BY <1>3 DEF Init, IInv, BgLeavesLast, OnlyBgsJoined, NothingAbandoned, Running

\* A call that succeeds is made by a thread that runs, and if it is the last of
\* the background thread its exception finds the exchange over.
LEMMA AdvanceStep ==
    ASSUME IInv, NEW p \in Procs, NEW step, Calls(p, step), Advance(p)
    PROVE  IInv'
<1>1. ProcessType'
  BY DEF IInv, ProcessType, Advance
<1>2. \A q \in Procs \ {p} : pc'[q] = pc[q] /\ bg'[q] = bg[q]
  BY DEF IInv, ProcessType, Advance
<1>3. program[p].async => bg[p]
  BY DEF IInv, BgLeavesLast, Finished, Calls
<1>4. pc'[p] = pc[p] + 1 /\ pc[p] \in Nat
  BY DEF IInv, ProcessType, Advance
<1>5. program[p].async /\ ~bg'[p] => pc'[p] > Len(program[p].steps)
  BY <1>3, <1>4 DEF IInv, ProcessType, Advance
<1>6. BgLeavesLast'
  BY <1>2, <1>5 DEF IInv, BgLeavesLast, Finished, Over, Advance
<1>7. OnlyBgsJoined'
  BY DEF IInv, OnlyBgsJoined, Advance
<1>8. main[p] # "ended"
  BY DEF IInv, NothingAbandoned, Running, Calls
<1>9. NothingAbandoned'
  BY <1>2, <1>8 DEF IInv, NothingAbandoned, Running, Over, Advance
<1> QED BY <1>1, <1>6, <1>7, <1>9 DEF IInv

\* A call that fails is on record.
LEMMA FailStep ==
    ASSUME IInv, NEW p \in Procs, Fail(p)
    PROVE  IInv'
<1>1. ProcessType'
  BY DEF IInv, ProcessType, Fail
<1>2. failed'[p] # "no"
  BY DEF IInv, ProcessType, Fail
<1>3. \A q \in Procs \ {p} : failed'[q] = failed[q] /\ bg'[q] = bg[q]
  BY DEF IInv, ProcessType, Fail
<1>4. BgLeavesLast'
  BY <1>2, <1>3 DEF IInv, BgLeavesLast, Finished, Over, Fail
<1>5. OnlyBgsJoined'
  BY DEF IInv, OnlyBgsJoined, Fail
<1>6. NothingAbandoned'
  BY <1>2, <1>3 DEF IInv, NothingAbandoned, Running, Over, Fail
<1> QED BY <1>1, <1>4, <1>5, <1>6 DEF IInv

\* A process ends, having joined its thread if it has one, or is interrupted.
LEMMA EndStep ==
    ASSUME IInv, NEW p \in Procs, Return(p) \/ Join(p) \/ Killed(p)
    PROVE  IInv'
<1>1. main' = [main EXCEPT ![p] = "ended"] /\ UNCHANGED <<program, pc, bg>>
  BY DEF Return, Join, Killed, Closes
<1>2. failed' = failed \/ failed' = [failed EXCEPT ![p] = "killed"]
  BY DEF Return, Join, Killed
<1>3. Over(p) \/ failed'[p] # "no"
  <2>1. CASE Return(p)
    BY <2>1 DEF Return
  <2>2. CASE Join(p)
    BY <2>2 DEF Join, IInv, OnlyBgsJoined, BgLeavesLast, Finished
  <2>3. CASE Killed(p)
    BY <2>3 DEF Killed, IInv, ProcessType
  <2> QED BY <2>1, <2>2, <2>3
<1>4. \A q \in Procs : failed[q] # "no" => failed'[q] # "no"
  BY <1>2 DEF IInv, ProcessType
<1>5. ProcessType'
  BY <1>1, <1>2 DEF IInv, ProcessType
<1>6. \A q \in Procs \ {p} : main'[q] = main[q]
  BY <1>1 DEF IInv, ProcessType
<1>7. main'[p] = "ended"
  BY <1>1 DEF IInv, ProcessType
<1>8. BgLeavesLast'
  BY <1>1, <1>4 DEF IInv, BgLeavesLast, Finished, Over
<1>9. OnlyBgsJoined'
  BY <1>1, <1>6, <1>7 DEF IInv, OnlyBgsJoined
<1>10. NothingAbandoned'
  BY <1>1, <1>3, <1>4, <1>6 DEF IInv, NothingAbandoned, Running, Over
<1> QED BY <1>5, <1>8, <1>9, <1>10 DEF IInv

\* main() arms the timer and joins; the timer releases the guard, and run()
\* returns without it once nothing is outstanding.
LEMMA TimerStep ==
    ASSUME IInv, NEW p \in Procs, ArmTimer(p) \/ TimerExpires(p) \/ RunReturns(p)
    PROVE  IInv'
<1>1. CASE ArmTimer(p)
  <2>1. main' = [main EXCEPT ![p] = "join"] /\ UNCHANGED <<program, pc, failed, bg>>
    BY <1>1 DEF ArmTimer
  <2>2. program[p].async
    BY <1>1 DEF ArmTimer
  <2> QED BY <2>1, <2>2 DEF IInv, ProcessType, BgLeavesLast, OnlyBgsJoined, NothingAbandoned,
          Finished, Running, Over
<1>2. CASE TimerExpires(p)
  BY <1>2 DEF TimerExpires, IInv, ProcessType, BgLeavesLast, OnlyBgsJoined, NothingAbandoned,
     Finished, Running, Over
<1>3. CASE RunReturns(p)
  <2>1. bg' = [bg EXCEPT ![p] = FALSE] /\ UNCHANGED <<program, pc, main, failed>>
    BY <1>3 DEF RunReturns
  <2>2. Finished(p)
    BY <1>3 DEF RunReturns, Finished
  <2>3. ProcessType'
    BY <2>1 DEF IInv, ProcessType
  <2>4. BgLeavesLast'
    BY <2>1, <2>2 DEF IInv, ProcessType, BgLeavesLast, Finished, Over
  <2> QED BY <2>1, <2>3, <2>4 DEF IInv, OnlyBgsJoined, NothingAbandoned, Running, Over
<1> QED BY <1>1, <1>2, <1>3

\* Every step preserves the invariant.
LEMMA NextIInv == IInv /\ [Next]_vars => IInv'
<1> SUFFICES ASSUME IInv, [Next]_vars PROVE IInv'
  OBVIOUS
<1>1. ASSUME NEW p \in Procs, ProcessStep(p) \/ Killed(p) PROVE IInv'
  <2>1. CASE Prepare(p) \/ Bind(p) \/ (\E q \in Procs : Connect(p, q) \/ Accept(p, q))
             \/ Write(p) \/ Read(p)
    <3>1. Advance(p) /\ \E step : Calls(p, step)
      BY <2>1 DEF Prepare, Bind, Connect, Accept, Write, Read
    <3> QED BY <3>1, AdvanceStep
  <2>2. CASE SetupFails(p) \/ ReadFails(p)
    BY <2>2, FailStep DEF SetupFails, ReadFails
  <2>3. CASE WriteFails(p)
    BY <2>3, FailStep, AdvanceStep DEF WriteFails
  <2> QED BY <1>1, <2>1, <2>2, <2>3, EndStep, TimerStep DEF ProcessStep
<1>2. CASE UNCHANGED vars
  BY <1>2 DEF vars, IInv, ProcessType, BgLeavesLast, OnlyBgsJoined, NothingAbandoned,
     Finished, Running, Over
<1> QED BY <1>1, <1>2 DEF Next

\* No process of any mixture of these programs ends in the middle of its calls
\* but for one that failed or was interrupted.
THEOREM NothingAbandonedTheorem == Spec => []NothingAbandoned
<1>1. IInv => NothingAbandoned
  BY DEF IInv
<1> QED BY <1>1, InitIInv, NextIInv, PTL DEF Spec

(***************************************************************************)
(* A receiver gets a whole frame.  What a process writes is known from its *)
(* program: Unit(n, j) is the j-th unit, and Wrote(n, k) how many of them  *)
(* precede call k.  What a receiver has read is then known from the call   *)
(* it has come to.                                                         *)
(***************************************************************************)
Programs == ServerPrograms \cup ClientPrograms

Final(n)     == n.steps[Len(n.steps)]
RawWriter(n) == Final(n) \in {"writeRaw", "writeRawUnchecked"}
Sender(n)    == Final(n) = "writeData"
Receiver(n)  == Final(n) = "readData"
Ssl(n)       == n.steps[1] = "context"
Hellos(n)    == IF Ssl(n) THEN 6 ELSE 0

Unit(n, j) ==
    IF j <= Hellos(n) THEN <<"hello", 0>>
    ELSE IF RawWriter(n) THEN <<"raw", 0>>
    ELSE IF j <= Hellos(n) + 2 THEN <<"len", n.frame>> ELSE <<"data", 0>>

Wrote(n, k) ==
    IF RawWriter(n) THEN IF k > Len(n.steps) THEN 3 ELSE 0
    ELSE IF Sender(n) /\ ~Ssl(n)
    THEN IF k <= 4 THEN 0 ELSE IF k = 5 THEN 2 ELSE 2 + n.frame
    ELSE IF Sender(n)
    THEN IF k <= 3 THEN 0 ELSE IF k <= 5 THEN 3 ELSE IF k = 6 THEN 6
         ELSE IF k = 7 THEN 8 ELSE 8 + n.frame
    ELSE IF Ssl(n) THEN IF k <= 6 THEN 0 ELSE IF k <= 8 THEN 3 ELSE 6
    ELSE 0

\* How many units a receiver has read when it comes to call k.
TookBefore(n, k) ==
    IF Ssl(n) THEN IF k <= 5 THEN 0 ELSE IF k <= 7 THEN 3 ELSE IF k <= 9 THEN 6 ELSE 8
    ELSE IF k <= 2 THEN 0 ELSE 2

\* The calls of the servers, one by one.
LEMMA ServerTable ==
    /\ /\ Len(asio6.steps) = 1 /\ asio6.frame = 0 /\ asio6.steps[1] = "bind"
    /\ /\ Len(asio8.steps) = 3 /\ asio8.frame = 0 /\ asio8.steps[1] = "bind"
       /\ asio8.steps[2] = "listen" /\ asio8.steps[3] = "accept"
    /\ /\ Len(asio11Server.steps) = 4 /\ asio11Server.frame = 0 /\ asio11Server.steps[1] = "bind"
       /\ asio11Server.steps[2] = "listen" /\ asio11Server.steps[3] = "accept"
       /\ asio11Server.steps[4] = "writeRawUnchecked"
    /\ /\ Len(asio12Server.steps) = 4 /\ asio12Server.frame = 0 /\ asio12Server.steps[1] = "bind"
       /\ asio12Server.steps[2] = "listen" /\ asio12Server.steps[3] = "accept"
       /\ asio12Server.steps[4] = "readRaw"
    /\ /\ Len(sslServer.steps) = 10 /\ sslServer.frame = 1 /\ sslServer.steps[1] = "context"
       /\ sslServer.steps[2] = "bind" /\ sslServer.steps[3] = "listen"
       /\ sslServer.steps[4] = "accept" /\ sslServer.steps[5] = "readHello"
       /\ sslServer.steps[6] = "writeHello" /\ sslServer.steps[7] = "readHello"
       /\ sslServer.steps[8] = "writeTickets" /\ sslServer.steps[9] = "readLen"
       /\ sslServer.steps[10] = "readData"
<1>1. /\ Len(asio6.steps) = 1 /\ asio6.frame = 0 /\ asio6.steps[1] = "bind"
  BY DEF asio6, Program
<1>2. /\ Len(asio8.steps) = 3 /\ asio8.frame = 0 /\ asio8.steps[1] = "bind"
      /\ asio8.steps[2] = "listen" /\ asio8.steps[3] = "accept"
  BY DEF asio8, Program, Listens
<1>3. /\ Len(asio11Server.steps) = 4 /\ asio11Server.frame = 0 /\ asio11Server.steps[1] = "bind"
      /\ asio11Server.steps[2] = "listen" /\ asio11Server.steps[3] = "accept"
      /\ asio11Server.steps[4] = "writeRawUnchecked"
  BY DEF asio11Server, Program, Listens
<1>4. /\ Len(asio12Server.steps) = 4 /\ asio12Server.frame = 0 /\ asio12Server.steps[1] = "bind"
      /\ asio12Server.steps[2] = "listen" /\ asio12Server.steps[3] = "accept"
      /\ asio12Server.steps[4] = "readRaw"
  BY DEF asio12Server, Program, Listens
<1>5. /\ Len(sslServer.steps) = 10 /\ sslServer.frame = 1 /\ sslServer.steps[1] = "context"
      /\ sslServer.steps[2] = "bind" /\ sslServer.steps[3] = "listen"
      /\ sslServer.steps[4] = "accept" /\ sslServer.steps[5] = "readHello"
      /\ sslServer.steps[6] = "writeHello" /\ sslServer.steps[7] = "readHello"
      /\ sslServer.steps[8] = "writeTickets" /\ sslServer.steps[9] = "readLen"
      /\ sslServer.steps[10] = "readData"
  BY DEF sslServer, Program, PersonLen, Listens, ServerHandshake, Receives
<1> QED BY <1>1, <1>2, <1>3, <1>4, <1>5

\* The calls of a server that sends a frame.
LEMMA SenderTable ==
    ASSUME NEW n, n \in {sendServer, arrayServer, asio13Server}
    PROVE  /\ Len(n.steps) = 5 /\ n.frame \in {1, 2} /\ n.steps[1] = "bind"
           /\ n.steps[2] = "listen" /\ n.steps[3] = "accept"
           /\ n.steps[4] = "writeLen" /\ n.steps[5] = "writeData"
<1>1. sendServer.steps = Listens \o Sends /\ sendServer.frame = 1
  BY DEF sendServer, Program, PersonLen
<1>2. arrayServer.steps = Listens \o Sends /\ arrayServer.frame = 2
  BY DEF arrayServer, Program, ArrayLen
<1>3. asio13Server.steps = sendServer.steps /\ asio13Server.frame = sendServer.frame
  BY DEF asio13Server, sendServer, Program
<1>4. n.steps = Listens \o Sends /\ n.frame \in {1, 2}
  BY <1>1, <1>2, <1>3
<1> QED BY <1>4 DEF Listens, Sends

\* The calls of the clients, one by one.
LEMMA ClientTable ==
    /\ /\ Len(asio7.steps) = 1 /\ asio7.frame = 0 /\ asio7.steps[1] = "connect"
    /\ /\ Len(asio11Client.steps) = 2 /\ asio11Client.frame = 0
       /\ asio11Client.steps[1] = "connect" /\ asio11Client.steps[2] = "writeRaw"
    /\ /\ Len(asio12Client.steps) = 2 /\ asio12Client.frame = 0
       /\ asio12Client.steps[1] = "connect" /\ asio12Client.steps[2] = "readRaw"
    /\ /\ Len(sslClient.steps) = 7 /\ sslClient.frame = 1 /\ sslClient.steps[1] = "context"
       /\ sslClient.steps[2] = "connect" /\ sslClient.steps[3] = "writeHello"
       /\ sslClient.steps[4] = "readHello" /\ sslClient.steps[5] = "writeHello"
       /\ sslClient.steps[6] = "writeLen" /\ sslClient.steps[7] = "writeData"
<1>1. /\ Len(asio7.steps) = 1 /\ asio7.frame = 0 /\ asio7.steps[1] = "connect"
  BY DEF asio7, Program, Connects
<1>2. /\ Len(asio11Client.steps) = 2 /\ asio11Client.frame = 0
      /\ asio11Client.steps[1] = "connect" /\ asio11Client.steps[2] = "writeRaw"
  BY DEF asio11Client, Program, Connects
<1>3. /\ Len(asio12Client.steps) = 2 /\ asio12Client.frame = 0
      /\ asio12Client.steps[1] = "connect" /\ asio12Client.steps[2] = "readRaw"
  BY DEF asio12Client, Program, Connects
<1>4. /\ Len(sslClient.steps) = 7 /\ sslClient.frame = 1 /\ sslClient.steps[1] = "context"
      /\ sslClient.steps[2] = "connect" /\ sslClient.steps[3] = "writeHello"
      /\ sslClient.steps[4] = "readHello" /\ sslClient.steps[5] = "writeHello"
      /\ sslClient.steps[6] = "writeLen" /\ sslClient.steps[7] = "writeData"
  BY DEF sslClient, Program, PersonLen, Connects, ClientHandshake, Sends
<1> QED BY <1>1, <1>2, <1>3, <1>4

\* The calls of a client that receives a frame.
LEMMA ReceiverTable ==
    ASSUME NEW n, n \in {receiveClient, arrayClient, asio13Client}
    PROVE  /\ Len(n.steps) = 3 /\ n.frame \in {1, 2} /\ n.steps[1] = "connect"
           /\ n.steps[2] = "readLen" /\ n.steps[3] = "readData"
<1>1. receiveClient.steps = Connects \o Receives /\ receiveClient.frame = 1
  BY DEF receiveClient, Program, PersonLen
<1>2. arrayClient.steps = Connects \o Receives /\ arrayClient.frame = 2
  BY DEF arrayClient, Program, ArrayLen
<1>3. asio13Client.steps = receiveClient.steps /\ asio13Client.frame = receiveClient.frame
  BY DEF asio13Client, receiveClient, Program
<1>4. n.steps = Connects \o Receives /\ n.frame \in {1, 2}
  BY <1>1, <1>2, <1>3
<1> QED BY <1>4 DEF Connects, Receives

(***************************************************************************)
(* What every call adds to the two counts.                                 *)
(***************************************************************************)
\* A call that writes writes the units that come next, and as many as are
\* counted.
Adds(n, k, m, u) ==
    /\ Wrote(n, k + 1) = Wrote(n, k) + m
    /\ \A j \in 1 .. m : Unit(n, Wrote(n, k) + j) = u

WritesWell(n, k) ==
    /\ Wrote(n, k) \in Nat
    /\ n.steps[k] = "writeLen" => Adds(n, k, 2, <<"len", n.frame>>)
    /\ n.steps[k] = "writeData" => Adds(n, k, n.frame, <<"data", 0>>)
    /\ n.steps[k] \in {"writeHello", "writeTickets"} => Adds(n, k, 3, <<"hello", 0>>)
    /\ n.steps[k] \in {"writeRaw", "writeRawUnchecked"} => Adds(n, k, 3, <<"raw", 0>>)
    /\ n.steps[k] \notin Writes => Wrote(n, k + 1) = Wrote(n, k)
    /\ n.steps[k] \in {"writeTickets", "writeRawUnchecked"} =>
         \A m \in 1 .. Len(n.steps) : m > k => n.steps[m] \notin Writes

\* A receiver's calls read its flights, the length and the data, the last of all.
ReadsWell(n) ==
    /\ \A k \in 1 .. Len(n.steps) : n.steps[k] = "readData" => k = Len(n.steps)
    /\ Receiver(n) =>
         /\ TookBefore(n, 1) = 0 /\ TookBefore(n, Len(n.steps)) = Hellos(n) + 2
         /\ \A k \in 1 .. Len(n.steps) - 1 :
              /\ n.steps[k] # "readRaw"
              /\ n.steps[k] = "readLen" => TookBefore(n, k + 1) = TookBefore(n, k) + 2
              /\ n.steps[k] = "readHello" => TookBefore(n, k + 1) = TookBefore(n, k) + 3
              /\ n.steps[k] \notin Reads => TookBefore(n, k + 1) = TookBefore(n, k)

\* A connection is opened once, by the kind of call that its end takes, and
\* only the end that accepts listens.
OpensBy(n, step) ==
    /\ \A j, k \in 1 .. Len(n.steps) :
         n.steps[j] \in {"connect", "accept"} /\ n.steps[k] \in {"connect", "accept"} => j = k
    /\ \A k \in 1 .. Len(n.steps) : n.steps[k] \in {"connect", "accept"} => n.steps[k] = step
    /\ \A k \in 1 .. Len(n.steps) : n.steps[k] = "listen" => step = "accept"

ProgramType(n) == Len(n.steps) \in Nat \ {0} /\ DOMAIN n.steps = 1 .. Len(n.steps) /\ n.frame \in Nat

\* A program that writes nothing.
LEMMA QuietWrites ==
    ASSUME NEW n, Len(n.steps) \in Nat \ {0}, ~RawWriter(n), ~Sender(n), ~Ssl(n),
           \A k \in 1 .. Len(n.steps) : n.steps[k] \notin Writes,
           NEW k \in 1 .. Len(n.steps)
    PROVE  WritesWell(n, k)
BY DEF WritesWell, Wrote, Writes

\* A program that writes one message of its own format at its end.
LEMMA RawWrites ==
    ASSUME NEW n, Len(n.steps) \in Nat \ {0}, RawWriter(n), ~Ssl(n),
           \A k \in 1 .. Len(n.steps) : n.steps[k] \in Writes => k = Len(n.steps),
           NEW k \in 1 .. Len(n.steps)
    PROVE  WritesWell(n, k)
<1>1. Wrote(n, k) = 0 /\ (k < Len(n.steps) => Wrote(n, k + 1) = 0)
  BY DEF Wrote
<1>2. k = Len(n.steps) => Wrote(n, k + 1) = 3
  BY DEF Wrote
<1>3. \A j \in 1 .. 3 : Unit(n, j) = <<"raw", 0>>
  BY DEF Unit, Hellos
<1>4. k # Len(n.steps) => n.steps[k] \notin Writes
  OBVIOUS
<1>5. k = Len(n.steps) => n.steps[k] \in {"writeRaw", "writeRawUnchecked"}
  BY DEF RawWriter, Final
<1> QED BY <1>1, <1>2, <1>3, <1>4, <1>5 DEF WritesWell, Adds, Writes

\* A server that sends a frame.
LEMMA FrameWrites ==
    ASSUME NEW n, n \in {sendServer, arrayServer, asio13Server},
           NEW k \in 1 .. Len(n.steps)
    PROVE  WritesWell(n, k)
<1>1. ~RawWriter(n) /\ ~Ssl(n) /\ Sender(n) /\ Hellos(n) = 0 /\ n.frame \in {1, 2}
  BY SenderTable DEF RawWriter, Ssl, Sender, Final, Hellos
<1>2. \A j \in 1 .. 6 :
        Wrote(n, j) = IF j <= 4 THEN 0 ELSE IF j = 5 THEN 2 ELSE 2 + n.frame
  BY <1>1 DEF Wrote
<1>3. \A j \in 1 .. 4 : Unit(n, j) = IF j <= 2 THEN <<"len", n.frame>> ELSE <<"data", 0>>
  BY <1>1 DEF Unit
<1>4. /\ Len(n.steps) = 5 /\ n.steps[4] = "writeLen" /\ n.steps[5] = "writeData"
      /\ \A j \in 1 .. 3 : n.steps[j] \notin Writes
  BY SenderTable DEF Writes
<1>5. CASE k <= 3
  BY <1>2, <1>4, <1>5 DEF WritesWell, Writes
<1>6. CASE k = 4
  BY <1>1, <1>2, <1>3, <1>4, <1>6 DEF WritesWell, Adds, Writes
<1>7. CASE k = 5
  BY <1>1, <1>2, <1>3, <1>4, <1>7 DEF WritesWell, Adds, Writes
<1> QED BY <1>4, <1>5, <1>6, <1>7

\* The server of asio15, which writes its flights.
LEMMA SslServerWrites ==
    ASSUME NEW k \in 1 .. Len(sslServer.steps)
    PROVE  WritesWell(sslServer, k)
<1> DEFINE n == sslServer
<1>1. ~RawWriter(n) /\ Ssl(n) /\ ~Sender(n) /\ Hellos(n) = 6
  BY ServerTable DEF RawWriter, Ssl, Sender, Final, Hellos
<1>2. \A j \in 1 .. 11 : Wrote(n, j) = IF j <= 6 THEN 0 ELSE IF j <= 8 THEN 3 ELSE 6
  BY <1>1 DEF Wrote
<1>3. \A j \in 1 .. 6 : Unit(n, j) = <<"hello", 0>>
  BY <1>1 DEF Unit
<1>4. Len(n.steps) = 10
  BY ServerTable
<1>5. CASE k = 6 \/ k = 8
  BY <1>2, <1>3, <1>4, <1>5, ServerTable DEF WritesWell, Adds, Writes
<1>6. CASE k \notin {6, 8}
  <2>1. n.steps[k] \notin Writes
    BY <1>4, <1>6, ServerTable DEF Writes
  <2> QED BY <1>2, <1>4, <1>6, <2>1 DEF WritesWell, Writes
<1> QED BY <1>5, <1>6

\* Its client, which writes its flights and a frame.
LEMMA SslClientWrites ==
    ASSUME NEW k \in 1 .. Len(sslClient.steps)
    PROVE  WritesWell(sslClient, k)
<1> DEFINE n == sslClient
<1>1. ~RawWriter(n) /\ Ssl(n) /\ Sender(n) /\ Hellos(n) = 6 /\ n.frame = 1
  BY ClientTable DEF RawWriter, Ssl, Sender, Final, Hellos
<1>2. \A j \in 1 .. 8 :
        Wrote(n, j) = IF j <= 3 THEN 0 ELSE IF j <= 5 THEN 3 ELSE IF j = 6 THEN 6
                      ELSE IF j = 7 THEN 8 ELSE 9
  BY <1>1 DEF Wrote
<1>3. \A j \in 1 .. 9 :
        Unit(n, j) = IF j <= 6 THEN <<"hello", 0>>
                     ELSE IF j <= 8 THEN <<"len", 1>> ELSE <<"data", 0>>
  BY <1>1 DEF Unit
<1>4. Len(n.steps) = 7
  BY ClientTable
<1>5. CASE k = 3 \/ k = 5
  BY <1>2, <1>3, <1>4, <1>5, ClientTable DEF WritesWell, Adds, Writes
<1>6. CASE k = 6 \/ k = 7
  BY <1>1, <1>2, <1>3, <1>4, <1>6, ClientTable DEF WritesWell, Adds, Writes
<1>7. CASE k \in {1, 2, 4}
  <2>1. n.steps[k] \notin Writes
    BY <1>4, <1>7, ClientTable DEF Writes
  <2> QED BY <1>2, <1>4, <1>7, <2>1 DEF WritesWell, Writes
<1> QED BY <1>4, <1>5, <1>6, <1>7

\* What holds of the calls of every program, at the end that it takes.
CallsWell(n, opens) ==
    /\ ProgramType(n) /\ ReadsWell(n) /\ OpensBy(n, opens)
    /\ \A k \in 1 .. Len(n.steps) : WritesWell(n, k)

\* It holds of the servers.
LEMMA ServerCalls == \A n \in ServerPrograms : CallsWell(n, "accept")
<1> SUFFICES ASSUME NEW n \in ServerPrograms PROVE CallsWell(n, "accept")
  OBVIOUS
<1>1. DOMAIN n.steps = 1 .. Len(n.steps)
  BY DEF ServerPrograms, asio6, asio8, asio11Server, asio12Server, asio13Server, sendServer,
     sslServer, arrayServer, Program, Listens, Sends, Receives, ServerHandshake
<1>2. CASE n = asio6
  <2>1. ~RawWriter(n) /\ ~Ssl(n) /\ ~Sender(n) /\ ~Receiver(n)
    BY <1>2, ServerTable DEF RawWriter, Ssl, Sender, Receiver, Final
  <2>2. \A k \in 1 .. Len(n.steps) : n.steps[k] \notin Writes /\ n.steps[k] # "readData"
    BY <1>2, ServerTable DEF Writes
  <2>3. ProgramType(n) /\ OpensBy(n, "accept")
    BY <1>1, <1>2, ServerTable DEF ProgramType, OpensBy
  <2> QED BY <2>1, <2>2, <2>3, QuietWrites DEF CallsWell, ReadsWell, ProgramType
<1>3. CASE n = asio8
  <2>1. ~RawWriter(n) /\ ~Ssl(n) /\ ~Sender(n) /\ ~Receiver(n)
    BY <1>3, ServerTable DEF RawWriter, Ssl, Sender, Receiver, Final
  <2>2. \A k \in 1 .. Len(n.steps) : n.steps[k] \notin Writes /\ n.steps[k] # "readData"
    BY <1>3, ServerTable DEF Writes
  <2>3. ProgramType(n) /\ OpensBy(n, "accept")
    BY <1>1, <1>3, ServerTable DEF ProgramType, OpensBy
  <2> QED BY <2>1, <2>2, <2>3, QuietWrites DEF CallsWell, ReadsWell, ProgramType
<1>4. CASE n = asio12Server
  <2>1. ~RawWriter(n) /\ ~Ssl(n) /\ ~Sender(n) /\ ~Receiver(n)
    BY <1>4, ServerTable DEF RawWriter, Ssl, Sender, Receiver, Final
  <2>2. \A k \in 1 .. Len(n.steps) : n.steps[k] \notin Writes /\ n.steps[k] # "readData"
    BY <1>4, ServerTable DEF Writes
  <2>3. ProgramType(n) /\ OpensBy(n, "accept")
    BY <1>1, <1>4, ServerTable DEF ProgramType, OpensBy
  <2> QED BY <2>1, <2>2, <2>3, QuietWrites DEF CallsWell, ReadsWell, ProgramType
<1>5. CASE n = asio11Server
  <2>1. RawWriter(n) /\ ~Ssl(n) /\ ~Receiver(n)
    BY <1>5, ServerTable DEF RawWriter, Ssl, Receiver, Final
  <2>2. \A k \in 1 .. Len(n.steps) :
          (n.steps[k] \in Writes => k = Len(n.steps)) /\ n.steps[k] # "readData"
    BY <1>5, ServerTable DEF Writes
  <2>3. ProgramType(n) /\ OpensBy(n, "accept")
    BY <1>1, <1>5, ServerTable DEF ProgramType, OpensBy
  <2> QED BY <2>1, <2>2, <2>3, RawWrites DEF CallsWell, ReadsWell, ProgramType
<1>6. CASE n \in {sendServer, arrayServer, asio13Server}
  <2>1. ReadsWell(n)
    BY <1>6, SenderTable DEF ReadsWell, Receiver, Final
  <2>2. ProgramType(n) /\ OpensBy(n, "accept")
    BY <1>1, <1>6, SenderTable DEF ProgramType, OpensBy
  <2> QED BY <1>6, <2>1, <2>2, FrameWrites DEF CallsWell
<1>7. CASE n = sslServer
  <2>1. Len(n.steps) = 10 /\ Ssl(n) /\ Hellos(n) = 6
    BY <1>7, ServerTable DEF Ssl, Hellos
  <2>2. \A k \in 1 .. 10 : n.steps[k] = "readData" => k = 10
    BY <1>7, ServerTable
  <2>3. \A k \in 1 .. 9 :
          /\ n.steps[k] # "readRaw"
          /\ n.steps[k] = "readHello" <=> k \in {5, 7}
          /\ n.steps[k] = "readLen" <=> k = 9
    BY <1>7, ServerTable
  <2>4. \A k \in 1 .. 10 :
          TookBefore(n, k) =
            IF k <= 5 THEN 0 ELSE IF k <= 7 THEN 3 ELSE IF k <= 9 THEN 6 ELSE 8
    BY <2>1 DEF TookBefore
  <2>5. ReadsWell(n)
    BY <2>1, <2>2, <2>3, <2>4 DEF ReadsWell, Reads
  <2>6. ProgramType(n)
    BY <1>1, <1>7, ServerTable DEF ProgramType
  <2>7. \A k \in 1 .. 10 : n.steps[k] \in {"connect", "accept"} => k = 4
    BY <1>7, ServerTable
  <2>8. OpensBy(n, "accept")
    BY <1>7, <2>1, <2>7, ServerTable DEF OpensBy
  <2> QED BY <1>7, <2>5, <2>6, <2>8, SslServerWrites DEF CallsWell
<1> QED BY <1>2, <1>3, <1>5, <1>6, <1>7, <1>4 DEF ServerPrograms

\* And of the clients.
LEMMA ClientCalls == \A n \in ClientPrograms : CallsWell(n, "connect")
<1> SUFFICES ASSUME NEW n \in ClientPrograms PROVE CallsWell(n, "connect")
  OBVIOUS
<1>1. DOMAIN n.steps = 1 .. Len(n.steps)
  BY DEF ClientPrograms, asio7, asio11Client, asio12Client, asio13Client, receiveClient,
     sslClient, arrayClient, Program, Connects, Sends, Receives, ClientHandshake
<1>2. CASE n \in {asio7, asio12Client}
  <2>1. ~RawWriter(n) /\ ~Ssl(n) /\ ~Sender(n) /\ ~Receiver(n)
    BY <1>2, ClientTable DEF RawWriter, Ssl, Sender, Receiver, Final
  <2>2. \A k \in 1 .. Len(n.steps) : n.steps[k] \notin Writes /\ n.steps[k] # "readData"
    BY <1>2, ClientTable DEF Writes
  <2>3. ProgramType(n) /\ OpensBy(n, "connect")
    BY <1>1, <1>2, ClientTable DEF ProgramType, OpensBy
  <2> QED BY <2>1, <2>2, <2>3, QuietWrites DEF CallsWell, ReadsWell, ProgramType
<1>3. CASE n = asio11Client
  <2>1. RawWriter(n) /\ ~Ssl(n) /\ ~Receiver(n)
    BY <1>3, ClientTable DEF RawWriter, Ssl, Receiver, Final
  <2>2. \A k \in 1 .. Len(n.steps) :
          (n.steps[k] \in Writes => k = Len(n.steps)) /\ n.steps[k] # "readData"
    BY <1>3, ClientTable DEF Writes
  <2>3. ProgramType(n) /\ OpensBy(n, "connect")
    BY <1>1, <1>3, ClientTable DEF ProgramType, OpensBy
  <2> QED BY <2>1, <2>2, <2>3, RawWrites DEF CallsWell, ReadsWell, ProgramType
<1>4. CASE n \in {receiveClient, arrayClient, asio13Client}
  <2>1. ~RawWriter(n) /\ ~Ssl(n) /\ ~Sender(n) /\ Hellos(n) = 0
    BY <1>4, ReceiverTable DEF RawWriter, Ssl, Sender, Hellos, Final
  <2>2. \A k \in 1 .. Len(n.steps) : n.steps[k] \notin Writes
    BY <1>4, ReceiverTable DEF Writes
  <2>3. ProgramType(n) /\ OpensBy(n, "connect")
    BY <1>1, <1>4, ReceiverTable DEF ProgramType, OpensBy
  <2>4. /\ Len(n.steps) = 3 /\ n.steps[1] = "connect" /\ n.steps[2] = "readLen"
        /\ n.steps[3] = "readData"
    BY <1>4, ReceiverTable
  <2>5. TookBefore(n, 1) = 0 /\ TookBefore(n, 2) = 0 /\ TookBefore(n, 3) = 2
    BY <2>1 DEF TookBefore
  <2>6. ReadsWell(n)
    BY <2>1, <2>4, <2>5 DEF ReadsWell, Reads
  <2> QED BY <2>1, <2>2, <2>3, <2>6, QuietWrites DEF CallsWell, ProgramType
<1>5. CASE n = sslClient
  <2>1. Len(n.steps) = 7 /\ ~Receiver(n)
    BY <1>5, ClientTable DEF Receiver, Final
  <2>2. \A k \in 1 .. 7 : n.steps[k] # "readData"
    BY <1>5, ClientTable
  <2>3. ReadsWell(n)
    BY <2>1, <2>2 DEF ReadsWell
  <2>4. \A k \in 1 .. 7 : n.steps[k] \in {"connect", "accept"} => k = 2
    BY <1>5, ClientTable
  <2>5. \A k \in 1 .. 7 : n.steps[k] # "listen"
    BY <1>5, ClientTable
  <2>6. OpensBy(n, "connect")
    BY <1>5, <2>1, <2>4, <2>5, ClientTable DEF OpensBy
  <2>7. ProgramType(n)
    BY <1>1, <1>5, ClientTable DEF ProgramType
  <2> QED BY <1>5, <2>3, <2>6, <2>7, SslClientWrites DEF CallsWell
<1> QED BY <1>2, <1>3, <1>4, <1>5 DEF ClientPrograms

\* The servers that send frames.
LEMMA SendingServer ==
    ASSUME NEW n \in ServerPrograms, Sender(n)
    PROVE  n \in {sendServer, arrayServer, asio13Server}
BY ServerTable DEF Sender, Final, ServerPrograms

\* The one server that receives a frame, over TLS.
LEMMA ReceivingServer ==
    ASSUME NEW n \in ServerPrograms, Receiver(n)
    PROVE  n = sslServer
<1>1. n \notin {sendServer, arrayServer, asio13Server}
  BY SenderTable DEF Receiver, Final
<1> QED BY <1>1, ServerTable DEF Receiver, Final, ServerPrograms

\* The one client that sends a frame, over TLS.
LEMMA SendingClient ==
    ASSUME NEW n \in ClientPrograms, Sender(n)
    PROVE  n = sslClient
<1>1. n \notin {receiveClient, arrayClient, asio13Client}
  BY ReceiverTable DEF Sender, Final
<1> QED BY <1>1, ClientTable DEF Sender, Final, ClientPrograms

\* The clients that receive frames.
LEMMA ReceivingClient ==
    ASSUME NEW n \in ClientPrograms, Receiver(n)
    PROVE  n \in {receiveClient, arrayClient, asio13Client}
BY ClientTable DEF Receiver, Final, ClientPrograms

\* What a receiver takes for a length was written by a program that sends a
\* frame of that length, behind as many flights as the receiver has read.
LEMMA LengthOfSender ==
    ASSUME NEW n, NEW m, NEW k \in Nat,
           \/ n \in ServerPrograms /\ m \in ClientPrograms
           \/ n \in ClientPrograms /\ m \in ServerPrograms,
           Receiver(n), Hellos(n) + 2 <= Wrote(m, k),
           Unit(m, Hellos(n) + 2)[1] = "len"
    PROVE  Sender(m) /\ ~RawWriter(m) /\ Hellos(m) = Hellos(n) /\ Unit(m, Hellos(n) + 2)[2] = m.frame
<1> DEFINE h == Hellos(n) + 2
<1>1. h \in {2, 8}
  BY DEF Hellos
<1>2. h > Hellos(m) /\ ~RawWriter(m)
  BY <1>1 DEF Unit, Hellos
<1>3. Sender(m)
  <2>1. SUFFICES ASSUME ~Sender(m) PROVE FALSE
    OBVIOUS
  <2>2. Ssl(m)
    BY <1>1, <1>2, <2>1 DEF Wrote
  <2>3. Wrote(m, k) \in 0 .. 6
    BY <1>2, <2>1, <2>2 DEF Wrote
  <2> QED BY <1>1, <1>2, <2>2, <2>3 DEF Hellos
<1>4. CASE n \in ServerPrograms /\ m \in ClientPrograms
  <2>1. n = sslServer
    BY <1>4, ReceivingServer
  <2>2. m = sslClient
    BY <1>3, <1>4, SendingClient
  <2>3. Hellos(n) = 6 /\ Hellos(m) = 6
    BY <2>1, <2>2, ServerTable, ClientTable DEF Hellos, Ssl
  <2> QED BY <1>2, <1>3, <2>3 DEF Unit
<1>5. CASE n \in ClientPrograms /\ m \in ServerPrograms
  <2>1. n \in {receiveClient, arrayClient, asio13Client}
    BY <1>5, ReceivingClient
  <2>2. m \in {sendServer, arrayServer, asio13Server}
    BY <1>3, <1>5, SendingServer
  <2>3. Hellos(n) = 0 /\ Hellos(m) = 0
    BY <2>1, <2>2, SenderTable, ReceiverTable DEF Hellos, Ssl
  <2> QED BY <1>2, <1>3, <2>3 DEF Unit
<1> QED BY <1>4, <1>5

(***************************************************************************)
(* The inductive invariant of the streams.                                 *)
(***************************************************************************)
Units == {"len", "data", "hello", "raw"} \X Nat

StreamType ==
    /\ \A s \in Servers : program[s] \in ServerPrograms
    /\ \A c \in Clients : program[c] \in ClientPrograms
    /\ \A p \in Procs : pc[p] >= 1 /\ pc[p] <= Len(program[p].steps) + 1
    /\ conn \in [Procs -> Procs \cup {None}]
    /\ out \in [Procs -> Seq(Units)] /\ got \in [Procs -> Seq(Units)]

\* A connection joins the two ends, and an end has none before it has opened it.
Pairing ==
    /\ \A s \in Servers : conn[s] \in Clients \cup {None}
    /\ \A s \in Servers : conn[s] # None => conn[conn[s]] = s
    /\ \A c \in Clients : conn[c] \in Servers \cup {None}
    /\ \A p \in Procs : \A k \in 1 .. Len(program[p].steps) :
         program[p].steps[k] \in {"connect", "accept"} /\ pc[p] <= k => conn[p] = None

\* How much of what p has written is read, and whether it writes more.
Taken(p)    == IF Accepted(p) THEN Len(got[conn[p]]) ELSE 0
MayWrite(p) == Running(p) /\ \E k \in 1 .. Len(program[p].steps) :
                                k >= pc[p] /\ program[p].steps[k] \in Writes

\* What p has read is the beginning of the other end's text, and what it has
\* written that is not read continues its own; nothing is lost while it writes.
Stream(p) ==
    /\ ~Accepted(p) => got[p] = <<>>
    /\ Accepted(p) => \A k \in 1 .. Len(got[p]) : got[p][k] = Unit(program[conn[p]], k)
    /\ \A k \in 1 .. Len(out[p]) : out[p][k] = Unit(program[p], Taken(p) + k)
    /\ Taken(p) + Len(out[p]) <= Wrote(program[p], pc[p])
    /\ MayWrite(p) => Taken(p) + Len(out[p]) = Wrote(program[p], pc[p])

Receipt(p) ==
    Receiver(program[p]) =>
        /\ pc[p] <= Len(program[p].steps) => Len(got[p]) = TookBefore(program[p], pc[p])
        /\ pc[p] > Len(program[p].steps) =>
             /\ Accepted(p) /\ Sender(program[conn[p]]) /\ ~RawWriter(program[conn[p]])
             /\ Hellos(program[conn[p]]) = Hellos(program[p])
             /\ Len(got[p]) = Hellos(program[p]) + 2 + program[conn[p]].frame

Streams == \A p \in Procs : Stream(p)
Receipts == \A p \in Procs : Receipt(p)

SInv == IInv /\ StreamType /\ Pairing /\ Streams /\ Receipts

\* Every process runs a program whose calls are as they should be.
LEMMA WellProcs ==
    ASSUME StreamType, NEW p \in Procs
    PROVE  /\ ProgramType(program[p]) /\ ReadsWell(program[p])
           /\ \A k \in 1 .. Len(program[p].steps) : WritesWell(program[p], k)
           /\ p \in Servers => OpensBy(program[p], "accept")
           /\ p \in Clients => OpensBy(program[p], "connect")
BY ServerCalls, ClientCalls DEF StreamType, Procs, CallsWell

\* The two ends of an accepted connection.
LEMMA Peers ==
    ASSUME StreamType, Pairing, NEW p \in Procs, Accepted(p)
    PROVE  /\ conn[p] \in Procs /\ conn[p] # p /\ conn[conn[p]] = p /\ Accepted(conn[p])
           /\ \/ program[p] \in ServerPrograms /\ program[conn[p]] \in ClientPrograms
              \/ program[p] \in ClientPrograms /\ program[conn[p]] \in ServerPrograms
BY ProcessAssumption DEF StreamType, Pairing, Accepted, Procs

\* A call that is made is the next of a process that runs.
LEMMA Calling ==
    ASSUME SInv, NEW p \in Procs, NEW step, Calls(p, step)
    PROVE  /\ pc[p] \in 1 .. Len(program[p].steps)
           /\ program[p].steps[pc[p]] = step
           /\ Running(p)
<1>1. pc[p] \in Nat /\ pc[p] >= 1 /\ Len(program[p].steps) \in Nat
  BY WellProcs DEF SInv, IInv, ProcessType, StreamType, ProgramType
<1>2. Running(p)
  BY DEF SInv, IInv, NothingAbandoned, Calls
<1> QED BY <1>1, <1>2 DEF Calls, Over, Step

\* What a call that succeeds changes besides the streams.
LEMMA Advancing ==
    ASSUME SInv, NEW p \in Procs, Advance(p)
    PROVE  /\ pc'[p] = pc[p] + 1 /\ pc[p] \in Nat
           /\ \A q \in Procs \ {p} : pc'[q] = pc[q]
           /\ program' = program /\ main' = main
BY DEF SInv, IInv, ProcessType, Advance

\* Initially nothing is connected, written or read.
LEMMA InitSInv == Init => SInv
<1> SUFFICES ASSUME Init PROVE SInv
  OBVIOUS
<1>1. IInv
  BY InitIInv
<1>2. StreamType
  <2>1. \A p \in Procs : ProgramType(program[p])
    BY ServerCalls, ClientCalls DEF Init, Procs, CallsWell
  <2> QED BY <2>1 DEF Init, StreamType, ProgramType, Procs
<1>3. Pairing
  BY DEF Init, Pairing, Procs
<1>4. ASSUME NEW p \in Procs PROVE Stream(p) /\ Receipt(p)
  <2>1. /\ conn[p] = None /\ pc[p] = 1 /\ got[p] = <<>> /\ out[p] = <<>>
        /\ ~Accepted(p)
    BY DEF Init, Accepted
  <2>2. Taken(p) = 0 /\ Len(out[p]) = 0 /\ Len(got[p]) = 0
    BY <2>1 DEF Taken
  <2>3. ProgramType(program[p]) /\ ReadsWell(program[p])
    BY <1>2, WellProcs
  <2>4. Wrote(program[p], 1) = 0
    BY <2>3 DEF Wrote, ProgramType
  <2>5. Stream(p)
    BY <2>1, <2>2, <2>4 DEF Stream
  <2>6. Receipt(p)
    BY <2>1, <2>2, <2>3 DEF Receipt, ReadsWell, ProgramType
  <2> QED BY <2>5, <2>6
<1> QED BY <1>1, <1>2, <1>3, <1>4 DEF SInv, Streams, Receipts

(***************************************************************************)
(* The steps.                                                              *)
(***************************************************************************)
\* A call other than a read: what it writes comes next in the text.
LEMMA OutStep ==
    ASSUME SInv, NEW p \in Procs, NEW step, Calls(p, step), step \notin Reads, Advance(p),
           NEW u \in Seq(Units), out' = [out EXCEPT ![p] = @ \o u], got' = got,
           Len(u) <= Wrote(program[p], pc[p] + 1) - Wrote(program[p], pc[p]),
           \A j \in 1 .. Len(u) : u[j] = Unit(program[p], Wrote(program[p], pc[p]) + j),
           u # <<>> => step \in Writes,
           \/ Len(u) = Wrote(program[p], pc[p] + 1) - Wrote(program[p], pc[p])
           \/ \A k \in 1 .. Len(program[p].steps) :
                k > pc[p] => program[p].steps[k] \notin Writes,
           \A q \in Procs : Accepted(q) => Accepted(q)' /\ conn'[q] = conn[q],
           \A q \in Procs : Accepted(q)' /\ ~Accepted(q) => conn'[q] \in Procs /\ got[conn'[q]] = <<>>
    PROVE  Streams' /\ Receipts' /\ out' \in [Procs -> Seq(Units)]
<1>1. /\ pc[p] \in 1 .. Len(program[p].steps) /\ program[p].steps[pc[p]] = step /\ Running(p)
      /\ pc'[p] = pc[p] + 1 /\ \A q \in Procs \ {p} : pc'[q] = pc[q]
      /\ program' = program /\ main' = main
  BY Calling, Advancing
<1>2. /\ out'[p] = out[p] \o u /\ \A q \in Procs \ {p} : out'[q] = out[q]
      /\ \A q \in Procs : out[q] \in Seq(Units) /\ got[q] \in Seq(Units)
      /\ out' \in [Procs -> Seq(Units)]
  BY DEF SInv, StreamType
<1>3. \A q \in Procs : Taken(q)' = Taken(q) /\ Taken(q) \in Nat
  <2> SUFFICES ASSUME NEW q \in Procs PROVE Taken(q)' = Taken(q) /\ Taken(q) \in Nat
    OBVIOUS
  <2>1. CASE Accepted(q)
    <3>1. conn[q] \in Procs
      BY <2>1, Peers DEF SInv
    <3> QED BY <1>2, <2>1, <3>1 DEF Taken
  <2>2. CASE ~Accepted(q)
    BY <2>2 DEF Taken
  <2> QED BY <2>1, <2>2
<1>4. ASSUME NEW q \in Procs PROVE /\ ~Accepted(q)' => got'[q] = <<>>
                                   /\ Accepted(q)' => \A k \in 1 .. Len(got'[q]) :
                                        got'[q][k] = Unit(program'[conn'[q]], k)
  <2>1. Stream(q)
    BY DEF SInv, Streams
  <2> QED BY <1>1, <2>1 DEF Stream
<1>5. ASSUME NEW q \in Procs \ {p} PROVE Stream(q)'
  <2>1. Stream(q)
    BY DEF SInv, Streams
  <2>2. MayWrite(q)' => MayWrite(q)
    BY <1>1 DEF MayWrite, Running
  <2> QED BY <1>1, <1>2, <1>3, <1>4, <2>1, <2>2 DEF Stream
<1>6. Stream(p)'
  <2>1. Stream(p)
    BY DEF SInv, Streams
  <2>2. Len(out'[p]) = Len(out[p]) + Len(u) /\ Len(out[p]) \in Nat /\ Len(u) \in Nat
    BY <1>2
  <2>3. Wrote(program[p], pc[p]) \in Nat
    BY <1>1, WellProcs DEF SInv, WritesWell
  <2>4. Wrote(program[p], pc[p] + 1) \in Int
    BY <1>1, <2>3, WellProcs DEF SInv, ProgramType, Wrote
  <2>5. Taken(p) + Len(out'[p]) <= Wrote(program[p], pc[p] + 1)
    BY <1>3, <2>1, <2>2, <2>3, <2>4 DEF Stream
  <2>6. MayWrite(p)' => MayWrite(p) /\ \E k \in 1 .. Len(program[p].steps) :
                                         k > pc[p] /\ program[p].steps[k] \in Writes
    BY <1>1 DEF MayWrite, Running
  <2>7. MayWrite(p)' => Taken(p) + Len(out'[p]) = Wrote(program[p], pc[p] + 1)
    <3> SUFFICES ASSUME MayWrite(p)'
                 PROVE  Taken(p) + Len(out'[p]) = Wrote(program[p], pc[p] + 1)
      OBVIOUS
    <3>1. Taken(p) + Len(out[p]) = Wrote(program[p], pc[p])
      BY <2>1, <2>6 DEF Stream
    <3>2. Len(u) = Wrote(program[p], pc[p] + 1) - Wrote(program[p], pc[p])
      BY <2>6
    <3> QED BY <1>3, <2>2, <2>3, <2>4, <3>1, <3>2
  <2>8. ASSUME NEW k \in 1 .. Len(out'[p]) PROVE out'[p][k] = Unit(program[p], Taken(p) + k)
    <3>1. CASE k <= Len(out[p])
      <4>1. out'[p][k] = out[p][k]
        BY <1>2, <2>2, <3>1
      <4> QED BY <2>1, <2>2, <3>1, <4>1 DEF Stream
    <3>2. CASE k > Len(out[p])
      <4>1. MayWrite(p)
        <5>1. u # <<>>
          BY <2>2, <3>2
        <5> QED BY <1>1, <5>1 DEF MayWrite
      <4>2. PICK j \in 1 .. Len(u) : k = Len(out[p]) + j
        <5>1. k - Len(out[p]) \in 1 .. Len(u)
          BY <2>2, <3>2
        <5> QED BY <2>2, <5>1
      <4>3. out'[p][k] = u[j]
        BY <1>2, <2>2, <4>2
      <4>4. Taken(p) + k = Wrote(program[p], pc[p]) + j
        BY <1>3, <2>1, <2>2, <2>3, <4>1, <4>2 DEF Stream
      <4> QED BY <4>3, <4>4
    <3> QED BY <2>2, <3>1, <3>2
  <2> QED BY <1>1, <1>3, <1>4, <2>5, <2>7, <2>8 DEF Stream
<1>7. ASSUME NEW q \in Procs PROVE Receipt(q)'
  <2>1. Receipt(q)
    BY DEF SInv, Receipts
  <2>2. CASE q # p
    BY <1>1, <2>1, <2>2 DEF Receipt
  <2>3. CASE q = p
    <3>1. ReadsWell(program[p]) /\ ProgramType(program[p])
      BY WellProcs DEF SInv
    <3>2. Receiver(program[p]) => pc[p] < Len(program[p].steps)
      BY <1>1, <3>1 DEF Receiver, Final, Reads, ProgramType
    <3>3. Receiver(program[p]) =>
            TookBefore(program[p], pc[p] + 1) = TookBefore(program[p], pc[p])
      BY <1>1, <3>1, <3>2 DEF ReadsWell, ProgramType
    <3> QED BY <1>1, <2>1, <2>3, <3>1, <3>2, <3>3 DEF Receipt, ProgramType
  <2> QED BY <2>2, <2>3
<1> QED BY <1>2, <1>5, <1>6, <1>7 DEF Streams, Receipts

\* A payload is one unit, repeated.
LEMMA Repeated ==
    ASSUME NEW f \in Nat
    PROVE  LET b == [k \in 1 .. f |-> <<"data", 0>>]
           IN  b \in Seq(Units) /\ Len(b) = f /\ \A j \in 1 .. f : b[j] = <<"data", 0>>
<1>1. <<"data", 0>> \in Units
  BY DEF Units
<1> QED BY <1>1

\* What a write may write is what comes next in the text; tickets that are not
\* sent are the last that would have been.
LEMMA NextUnits ==
    ASSUME SInv, NEW p \in Procs, NEW step \in Writes, Calls(p, step),
           NEW u, u \in Written(p, step)
    PROVE  /\ u \in Seq(Units)
           /\ Len(u) <= Wrote(program[p], pc[p] + 1) - Wrote(program[p], pc[p])
           /\ \A j \in 1 .. Len(u) : u[j] = Unit(program[p], Wrote(program[p], pc[p]) + j)
           /\ \/ Len(u) = Wrote(program[p], pc[p] + 1) - Wrote(program[p], pc[p])
              \/ \A k \in 1 .. Len(program[p].steps) :
                   k > pc[p] => program[p].steps[k] \notin Writes
<1>1. pc[p] \in 1 .. Len(program[p].steps) /\ program[p].steps[pc[p]] = step
  BY Calling
<1>2. WritesWell(program[p], pc[p]) /\ program[p].frame \in Nat
  BY <1>1, WellProcs DEF SInv, ProgramType
<1> DEFINE n == program[p]
           w == Wrote(n, pc[p])
           Fits(v, m, x) == /\ v \in Seq(Units) /\ Len(v) = m /\ m \in Nat
                            /\ \A j \in 1 .. m : v[j] = x
                            /\ Adds(n, pc[p], m, x)
<1>3. ASSUME NEW m, NEW x, Fits(u, m, x)
      PROVE  /\ u \in Seq(Units) /\ Len(u) = Wrote(n, pc[p] + 1) - w
             /\ \A j \in 1 .. Len(u) : u[j] = Unit(n, w + j)
  <2>1. Wrote(n, pc[p] + 1) = w + m /\ \A j \in 1 .. m : Unit(n, w + j) = x
    BY <1>3 DEF Adds
  <2>2. w \in Nat
    BY <1>2 DEF WritesWell
  <2>3. m \in Nat /\ Len(u) = m /\ \A j \in 1 .. m : u[j] = x
    BY <1>3
  <2>4. Len(u) = Wrote(n, pc[p] + 1) - w
    BY <2>1, <2>2, <2>3
  <2>5. \A j \in 1 .. Len(u) : u[j] = Unit(n, w + j)
    BY <2>1, <2>3
  <2> QED BY <1>3, <2>4, <2>5
<1>4. CASE step = "writeLen"
  <2>1. u = <<<<"len", n.frame>>, <<"len", n.frame>>>>
    BY <1>4 DEF Written, Length
  <2>2. Adds(n, pc[p], 2, <<"len", n.frame>>)
    BY <1>1, <1>2, <1>4 DEF WritesWell
  <2>3. Fits(u, 2, <<"len", n.frame>>)
    BY <1>2, <2>1, <2>2 DEF Units
  <2> QED BY <1>3, <2>3
<1>5. CASE step = "writeData"
  <2>1. u = [k \in 1 .. n.frame |-> <<"data", 0>>]
    BY <1>5 DEF Written, Payload
  <2>2. Adds(n, pc[p], n.frame, <<"data", 0>>)
    BY <1>1, <1>2, <1>5 DEF WritesWell
  <2>3. /\ u \in Seq(Units) /\ Len(u) = n.frame
        /\ \A j \in 1 .. n.frame : u[j] = <<"data", 0>>
    BY <1>2, <2>1, Repeated
  <2>4. Fits(u, n.frame, <<"data", 0>>)
    BY <1>2, <2>2, <2>3
  <2> QED BY <1>3, <2>4
<1>6. CASE step \in {"writeHello", "writeTickets"} /\ u = Flight
  <2>1. u = <<<<"hello", 0>>, <<"hello", 0>>, <<"hello", 0>>>>
    BY <1>6 DEF Flight
  <2>2. Adds(n, pc[p], 3, <<"hello", 0>>)
    BY <1>1, <1>2, <1>6 DEF WritesWell
  <2>3. u \in Seq(Units) /\ Len(u) = 3 /\ u[1] = <<"hello", 0>> /\ u[2] = <<"hello", 0>>
        /\ u[3] = <<"hello", 0>>
    BY <2>1 DEF Units
  <2>4. Fits(u, 3, <<"hello", 0>>)
    BY <2>2, <2>3
  <2> QED BY <1>3, <2>4
<1>7. CASE step = "writeTickets" /\ u = <<>>
  <2>1. Wrote(n, pc[p] + 1) = w + 3 /\ w \in Nat
    BY <1>1, <1>2, <1>7 DEF WritesWell, Adds
  <2>2. \A k \in 1 .. Len(n.steps) : k > pc[p] => n.steps[k] \notin Writes
    BY <1>1, <1>2, <1>7 DEF WritesWell
  <2> QED BY <1>7, <2>1, <2>2
<1>8. CASE step \in {"writeRaw", "writeRawUnchecked"}
  <2>1. u = <<<<"raw", 0>>, <<"raw", 0>>, <<"raw", 0>>>>
    BY <1>8 DEF Written, Raw
  <2>2. Adds(n, pc[p], 3, <<"raw", 0>>)
    BY <1>1, <1>2, <1>8 DEF WritesWell
  <2>3. u \in Seq(Units) /\ Len(u) = 3 /\ u[1] = <<"raw", 0>> /\ u[2] = <<"raw", 0>>
        /\ u[3] = <<"raw", 0>>
    BY <2>1 DEF Units
  <2>4. Fits(u, 3, <<"raw", 0>>)
    BY <2>2, <2>3
  <2> QED BY <1>3, <2>4
<1>9. /\ step = "writeHello" => u = Flight
      /\ step = "writeTickets" => u \in {<<>>, Flight}
  BY DEF Written
<1> QED BY <1>4, <1>5, <1>6, <1>7, <1>8, <1>9 DEF Writes

\* A call that neither reads nor writes leaves the counts alone.
LEMMA NoUnits ==
    ASSUME SInv, NEW p \in Procs, NEW step, Calls(p, step), step \notin Writes
    PROVE  Wrote(program[p], pc[p] + 1) - Wrote(program[p], pc[p]) = 0
<1>1. pc[p] \in 1 .. Len(program[p].steps) /\ program[p].steps[pc[p]] = step
  BY Calling
<1>2. WritesWell(program[p], pc[p])
  BY <1>1, WellProcs DEF SInv
<1> QED BY <1>1, <1>2 DEF WritesWell

\* Nothing is as much as was there.
LEMMA NothingWritten ==
    ASSUME SInv, NEW p \in Procs, out' = out
    PROVE  out' = [out EXCEPT ![p] = @ \o <<>>]
<1>1. out[p] \in Seq(Units)
  BY DEF SInv, StreamType
<1>2. out[p] \o <<>> = out[p]
  BY <1>1, ConcatEmptySeq
<1>3. out = [out EXCEPT ![p] = out[p]]
  BY DEF SInv, StreamType
<1> QED BY <1>2, <1>3

\* A call that writes nothing.
LEMMA NoOutStep ==
    ASSUME SInv, NEW p \in Procs, NEW step, Calls(p, step), step \notin Reads, Advance(p),
           step \notin Writes \/ step = "writeRawUnchecked", out' = out, got' = got,
           \A q \in Procs : Accepted(q) => Accepted(q)' /\ conn'[q] = conn[q],
           \A q \in Procs : Accepted(q)' /\ ~Accepted(q) => conn'[q] \in Procs /\ got[conn'[q]] = <<>>
    PROVE  Streams' /\ Receipts' /\ out' \in [Procs -> Seq(Units)]
<1> DEFINE w == Wrote(program[p], pc[p] + 1) - Wrote(program[p], pc[p])
<1>1. /\ pc[p] \in 1 .. Len(program[p].steps) /\ program[p].steps[pc[p]] = step
  BY Calling
<1>2. WritesWell(program[p], pc[p])
  BY <1>1, WellProcs DEF SInv
<1>3. 0 <= w /\ (0 = w \/ \A k \in 1 .. Len(program[p].steps) :
                             k > pc[p] => program[p].steps[k] \notin Writes)
  <2>1. CASE step \notin Writes
    BY <2>1, NoUnits
  <2>2. CASE step = "writeRawUnchecked"
    BY <1>1, <1>2, <2>2 DEF WritesWell, Adds
  <2> QED BY <2>1, <2>2
<1>4. PICK u : u \in Seq(Units) /\ u = <<>> /\ Len(u) = 0
  <2>1. <<>> \in Seq(Units) /\ Len(<<>>) = 0
    OBVIOUS
  <2> QED BY <2>1
<1>5. out' = [out EXCEPT ![p] = @ \o u]
  BY <1>4, NothingWritten
<1>6. Len(u) <= w /\ \A j \in 1 .. Len(u) : u[j] = Unit(program[p], Wrote(program[p], pc[p]) + j)
  BY <1>3, <1>4
<1>7. Len(u) = w \/ \A k \in 1 .. Len(program[p].steps) :
                       k > pc[p] => program[p].steps[k] \notin Writes
  BY <1>3, <1>4
<1>8. u # <<>> => step \in Writes
  BY <1>4
<1> QED BY <1>4, <1>5, <1>6, <1>7, <1>8, OutStep

\* No process gets past the end of its calls.
LEMMA CallInRange ==
    ASSUME SInv, NEW p \in Procs, NEW step, Calls(p, step), Advance(p), NEW q \in Procs
    PROVE  pc'[q] >= 1 /\ pc'[q] <= Len(program[q].steps) + 1
<1>1. pc[q] \in Nat /\ pc[q] >= 1 /\ pc[q] <= Len(program[q].steps) + 1
  BY DEF SInv, IInv, ProcessType, StreamType
<1>2. CASE q = p
  BY <1>1, <1>2, Calling, Advancing
<1>3. CASE q # p
  BY <1>1, <1>3, Advancing
<1> QED BY <1>2, <1>3

\* Connections stay as they are while none is opened.
LEMMA SamePairs ==
    ASSUME SInv, NEW p \in Procs, NEW step, Calls(p, step), Advance(p), conn' = conn,
           out' \in [Procs -> Seq(Units)], got' \in [Procs -> Seq(Units)]
    PROVE  StreamType' /\ Pairing'
<1>1. \A q \in Procs : pc'[q] >= pc[q] /\ pc'[q] \in Nat /\ pc[q] \in Nat
  BY DEF SInv, IInv, ProcessType, Advance
<1>2. program' = program
  BY Advancing
<1>3. StreamType'
  <2>1. StreamType
    BY DEF SInv
  <2>2. ASSUME NEW q \in Procs PROVE pc'[q] >= 1 /\ pc'[q] <= Len(program[q].steps) + 1
    BY CallInRange
  <2> QED BY <1>2, <2>1, <2>2 DEF StreamType
<1>4. \A q \in Procs : Len(program[q].steps) \in Nat
  BY WellProcs DEF SInv, ProgramType
<1>5. Pairing'
  <2>1. Pairing
    BY DEF SInv
  <2>2. ASSUME NEW q \in Procs, NEW k \in 1 .. Len(program[q].steps),
               program[q].steps[k] \in {"connect", "accept"}, pc'[q] <= k
        PROVE  conn[q] = None
    <3>1. pc[q] <= k
      BY <1>1, <1>4, <2>2
    <3> QED BY <2>1, <2>2, <3>1 DEF Pairing
  <2> QED BY <1>2, <2>1, <2>2 DEF Pairing
<1> QED BY <1>3, <1>5

\* A client that connects has an end of its own, which nobody has accepted yet.
LEMMA ConnectStep ==
    ASSUME SInv, NEW p \in Procs, NEW s \in Procs, Connect(p, s)
    PROVE  SInv'
<1>1. /\ Calls(p, "connect") /\ Advance(p) /\ Listening(s)
      /\ conn' = [conn EXCEPT ![p] = s] /\ out' = out /\ got' = got
  BY DEF Connect
<1>2. /\ pc[p] \in 1 .. Len(program[p].steps) /\ program[p].steps[pc[p]] = "connect"
      /\ pc'[p] = pc[p] + 1 /\ (\A q \in Procs \ {p} : pc'[q] = pc[q])
      /\ program' = program
  BY <1>1, Calling, Advancing
<1>3. StreamType /\ Pairing
  BY DEF SInv
<1>4. p \in Clients /\ p \notin Servers
  <2>1. p \notin Servers
    BY <1>2, <1>3, WellProcs DEF OpensBy
  <2> QED BY <2>1 DEF Procs
<1>5. s \in Servers
  <2>1. PICK k \in 1 .. pc[s] - 1 : program[s].steps[k] = "listen"
    BY <1>1 DEF Listening, AfterStep
  <2>2. k \in 1 .. Len(program[s].steps)
    BY <1>3, WellProcs DEF SInv, IInv, ProcessType, StreamType, ProgramType
  <2>3. s \notin Clients
    BY <1>3, <2>1, <2>2, WellProcs DEF OpensBy
  <2> QED BY <2>3 DEF Procs
<1>6. conn[p] = None
  BY <1>2, <1>3 DEF Pairing
<1>7. \A q \in Procs : conn[q] # p
  BY <1>3, <1>4, <1>6, ProcessAssumption DEF Pairing, Procs
<1>8. conn'[p] = s /\ \A q \in Procs \ {p} : conn'[q] = conn[q]
  BY <1>1, <1>3 DEF StreamType
<1>9. \A q \in Procs : Accepted(q) => Accepted(q)' /\ conn'[q] = conn[q]
  BY <1>3, <1>6, <1>7, <1>8, Peers DEF Accepted
<1>10. \A q \in Procs : Accepted(q)' => Accepted(q)
  <2> SUFFICES ASSUME NEW q \in Procs, Accepted(q)' PROVE Accepted(q)
    OBVIOUS
  <2>1. conn'[q] # None /\ conn'[conn'[q]] = q
    BY DEF Accepted
  <2>2. q # p
    BY <1>4, <1>5, <1>7, <1>8, <2>1
  <2>3. conn[q] \in Procs /\ conn[q] # p /\ conn'[q] = conn[q]
    BY <1>3, <1>7, <1>8, <2>1, <2>2 DEF StreamType
  <2> QED BY <1>8, <2>1, <2>3 DEF Accepted
<1>11. StreamType'
  <2>1. \A q \in Procs : pc'[q] >= 1 /\ pc'[q] <= Len(program[q].steps) + 1
    BY <1>1, CallInRange
  <2> QED BY <1>1, <1>2, <1>3, <2>1 DEF StreamType
<1>12. Pairing'
  <2>1. \A q \in Servers : conn'[q] = conn[q] /\ (conn[q] # None => conn'[conn[q]] = q)
    <3> SUFFICES ASSUME NEW q \in Servers
                 PROVE  conn'[q] = conn[q] /\ (conn[q] # None => conn'[conn[q]] = q)
      OBVIOUS
    <3>1. q \in Procs /\ q # p
      BY <1>4 DEF Procs
    <3>2. conn[q] # None => conn[q] \in Procs /\ conn[q] # p /\ conn[conn[q]] = q
      BY <1>3, <1>7, <3>1 DEF Pairing, Procs
    <3> QED BY <1>8, <3>1, <3>2
  <2>2. \A q \in Clients : conn'[q] \in Servers \cup {None}
    BY <1>3, <1>5, <1>8 DEF Pairing, Procs
  <2>3. ASSUME NEW q \in Procs, NEW k \in 1 .. Len(program[q].steps),
               program[q].steps[k] \in {"connect", "accept"}, pc'[q] <= k
        PROVE  conn'[q] = None
    <3>1. CASE q = p
      <4>1. k = pc[p]
        BY <1>2, <1>3, <1>4, <2>3, <3>1, WellProcs DEF OpensBy
      <4> QED BY <1>2, <2>3, <3>1, <4>1
    <3>2. CASE q # p
      BY <1>2, <1>3, <1>8, <2>3, <3>2 DEF Pairing
    <3> QED BY <3>1, <3>2
  <2> QED BY <1>2, <1>3, <2>1, <2>2, <2>3 DEF Pairing
<1>13. Streams' /\ Receipts'
  BY <1>1, <1>9, <1>10, NoOutStep DEF Reads, Writes
<1>14. IInv'
  BY <1>1, AdvanceStep DEF SInv
<1> QED BY <1>11, <1>12, <1>13, <1>14 DEF SInv

\* A server that accepts is joined to its client: neither has read anything.
LEMMA AcceptStep ==
    ASSUME SInv, NEW s \in Procs, NEW p \in Procs, Accept(s, p)
    PROVE  SInv'
<1>1. /\ Calls(s, "accept") /\ Advance(s) /\ conn[p] = s
      /\ conn' = [conn EXCEPT ![s] = p] /\ out' = out /\ got' = got
  BY DEF Accept
<1>2. /\ pc[s] \in 1 .. Len(program[s].steps) /\ program[s].steps[pc[s]] = "accept"
      /\ pc'[s] = pc[s] + 1 /\ (\A q \in Procs \ {s} : pc'[q] = pc[q])
      /\ program' = program
  BY <1>1, Calling, Advancing
<1>3. StreamType /\ Pairing
  BY DEF SInv
<1>4. s \in Servers /\ s \notin Clients
  <2>1. s \notin Clients
    BY <1>2, <1>3, WellProcs DEF OpensBy
  <2> QED BY <2>1 DEF Procs
<1>5. p \in Clients /\ p # s
  BY <1>1, <1>3, <1>4, ProcessAssumption DEF Pairing, Procs
<1>6. conn[s] = None
  BY <1>2, <1>3 DEF Pairing
<1>7. conn'[s] = p /\ \A q \in Procs \ {s} : conn'[q] = conn[q]
  BY <1>1, <1>3 DEF StreamType
<1>8. \A q \in Procs : Accepted(q) => Accepted(q)' /\ conn'[q] = conn[q]
  <2> SUFFICES ASSUME NEW q \in Procs, Accepted(q) PROVE Accepted(q)' /\ conn'[q] = conn[q]
    OBVIOUS
  <2>1. q # s /\ conn[q] \in Procs /\ conn[conn[q]] = q /\ conn[q] # None
    BY <1>3, <1>6, Peers DEF Accepted
  <2>2. conn[q] # s
    BY <1>6, <2>1, ProcessAssumption DEF Procs
  <2> QED BY <1>7, <2>1, <2>2 DEF Accepted
<1>9. ~Accepted(s) /\ ~Accepted(p)
  BY <1>1, <1>6, ProcessAssumption DEF Accepted, Procs
<1>10. got[s] = <<>> /\ got[p] = <<>>
  BY <1>9 DEF SInv, Streams, Stream
<1>11. \A q \in Procs : Accepted(q)' /\ ~Accepted(q) => conn'[q] \in Procs /\ got[conn'[q]] = <<>>
  <2> SUFFICES ASSUME NEW q \in Procs, Accepted(q)', ~Accepted(q)
               PROVE  conn'[q] \in Procs /\ got[conn'[q]] = <<>>
    OBVIOUS
  <2>1. conn'[q] # None /\ conn'[conn'[q]] = q
    BY DEF Accepted
  <2>2. CASE q = s
    BY <1>7, <1>10, <2>2
  <2>3. CASE q # s
    <3>1. conn'[q] = conn[q] /\ conn[q] # None
      BY <1>7, <2>1, <2>3
    <3>2. conn[q] = s
      BY <1>3, <1>7, <2>1, <3>1 DEF Accepted, StreamType
    <3> QED BY <1>10, <3>1, <3>2
  <2> QED BY <2>2, <2>3
<1>12. StreamType'
  <2>1. \A q \in Procs : pc'[q] >= 1 /\ pc'[q] <= Len(program[q].steps) + 1
    BY <1>1, CallInRange
  <2> QED BY <1>1, <1>2, <1>3, <2>1 DEF StreamType
<1>13. Pairing'
  <2>1. \A q \in Servers : conn'[q] \in Clients \cup {None}
    BY <1>3, <1>5, <1>7 DEF Pairing, Procs
  <2>2. \A q \in Servers : conn'[q] # None => conn'[conn'[q]] = q
    <3> SUFFICES ASSUME NEW q \in Servers, conn'[q] # None PROVE conn'[conn'[q]] = q
      OBVIOUS
    <3>1. CASE q = s
      BY <1>1, <1>5, <1>7, <3>1
    <3>2. CASE q # s
      <4>1. conn'[q] = conn[q] /\ conn[q] \in Clients /\ conn[conn[q]] = q
        BY <1>3, <1>7, <3>2 DEF Pairing, Procs
      <4> QED BY <1>4, <1>7, <4>1 DEF Procs
    <3> QED BY <3>1, <3>2
  <2>3. \A q \in Clients : conn'[q] \in Servers \cup {None}
    BY <1>3, <1>4, <1>7 DEF Pairing, Procs
  <2>4. ASSUME NEW q \in Procs, NEW k \in 1 .. Len(program[q].steps),
               program[q].steps[k] \in {"connect", "accept"}, pc'[q] <= k
        PROVE  conn'[q] = None
    <3>1. CASE q = s
      <4>1. k = pc[s]
        BY <1>2, <1>3, <1>4, <2>4, <3>1, WellProcs DEF OpensBy
      <4> QED BY <1>2, <2>4, <3>1, <4>1
    <3>2. CASE q # s
      BY <1>2, <1>3, <1>7, <2>4, <3>2 DEF Pairing
    <3> QED BY <3>1, <3>2
  <2> QED BY <1>2, <2>1, <2>2, <2>3, <2>4 DEF Pairing
<1>14. Streams' /\ Receipts'
  BY <1>1, <1>8, <1>11, NoOutStep DEF Reads, Writes
<1>15. IInv'
  BY <1>1, AdvanceStep DEF SInv
<1> QED BY <1>12, <1>13, <1>14, <1>15 DEF SInv

\* A call on the same connections that reads nothing.
LEMMA SendStep ==
    ASSUME SInv, NEW p \in Procs, Prepare(p) \/ Bind(p) \/ Write(p) \/ (WriteFails(p) /\ Advance(p))
    PROVE  SInv'
<1>1. /\ conn' = conn /\ got' = got /\ Advance(p)
      /\ \/ \E step \in {"context", "listen", "bind"} : Calls(p, step) /\ out' = out
         \/ \E step \in Writes : Calls(p, step) /\
              \E u \in Written(p, step) : out' = [out EXCEPT ![p] = @ \o u]
         \/ Calls(p, "writeRawUnchecked") /\ out' = out
  <2>1. CASE Prepare(p)
    BY <2>1 DEF Prepare
  <2>2. CASE Bind(p)
    BY <2>2 DEF Bind
  <2>3. CASE Write(p)
    BY <2>3 DEF Write
  <2>4. CASE WriteFails(p) /\ Advance(p)
    <3>1. ~Fail(p)
      <4>1. pc'[p] = pc[p] + 1 /\ pc[p] \in Nat
        BY <2>4, Advancing
      <4> QED BY <4>1 DEF Fail
    <3> QED BY <2>4, <3>1 DEF WriteFails
  <2> QED BY <2>1, <2>2, <2>3, <2>4
<1>2. \A q \in Procs : (Accepted(q) <=> Accepted(q)') /\ conn'[q] = conn[q]
  BY <1>1 DEF Accepted
<1>3. ASSUME NEW step, Calls(p, step), step \in {"context", "listen", "bind"}, out' = out
      PROVE  Streams' /\ Receipts' /\ out' \in [Procs -> Seq(Units)]
  BY <1>1, <1>2, <1>3, NoOutStep DEF Reads, Writes
<1>4. ASSUME NEW step \in Writes, Calls(p, step), NEW u \in Written(p, step),
             out' = [out EXCEPT ![p] = @ \o u]
      PROVE  Streams' /\ Receipts' /\ out' \in [Procs -> Seq(Units)]
  <2>1. step \notin Reads
    BY DEF Writes, Reads
  <2> QED BY <1>1, <1>2, <1>4, <2>1, NextUnits, OutStep
<1>5. ASSUME Calls(p, "writeRawUnchecked"), out' = out
      PROVE  Streams' /\ Receipts' /\ out' \in [Procs -> Seq(Units)]
  BY <1>1, <1>2, <1>5, NoOutStep DEF Reads, Writes
<1>6. Streams' /\ Receipts' /\ out' \in [Procs -> Seq(Units)] /\ \E step : Calls(p, step)
  BY <1>1, <1>3, <1>4, <1>5
<1>7. got' \in [Procs -> Seq(Units)]
  BY <1>1 DEF SInv, StreamType
<1>8. StreamType' /\ Pairing'
  BY <1>1, <1>6, <1>7, SamePairs
<1>9. IInv'
  BY <1>1, <1>6, AdvanceStep DEF SInv
<1> QED BY <1>6, <1>8, <1>9 DEF SInv

\* The cells of a sequence that has been continued.
LEMMA Joined ==
    ASSUME NEW S, NEW s \in Seq(S), NEW t \in Seq(S)
    PROVE  /\ s \o t \in Seq(S) /\ Len(s \o t) = Len(s) + Len(t)
           /\ \A k \in 1 .. Len(s) : (s \o t)[k] = s[k]
           /\ \A k \in 1 .. Len(t) : (s \o t)[Len(s) + k] = t[k]
OBVIOUS

\* What is read is no longer to be read.
LEMMA TakenOver == \A a, b, n \in Nat : (a + n) + (b - n) = a + b
OBVIOUS

\* A read takes what stands next in the other end's text, and the read of the
\* data as much of it as the length before it says.
LEMMA ReadStep ==
    ASSUME SInv, NEW p \in Procs, Read(p)
    PROVE  SInv'
<1>1. PICK step \in Reads, n \in 0 .. Len(Incoming(p)) :
        /\ Calls(p, step) /\ Advance(p) /\ conn' = conn
        /\ Suffices(p, step, n) /\ Takes(p, n)
  BY DEF Read
<1>2. /\ step \in {"readLen", "readData", "readHello", "readRaw"}
      /\ step = "readLen" => n = 2
      /\ step \in {"readHello", "readRaw"} => n = 3
      /\ step = "readData" => Announced(p)[1] = "len" /\ n = Announced(p)[2]
  BY <1>1 DEF Suffices, Reads
<1>3. /\ pc[p] \in 1 .. Len(program[p].steps) /\ program[p].steps[pc[p]] = step
      /\ pc'[p] = pc[p] + 1 /\ (\A q \in Procs \ {p} : pc'[q] = pc[q])
      /\ program' = program /\ main' = main /\ Running(p)
  BY <1>1, Calling, Advancing
<1>4. StreamType /\ Pairing /\ ProgramType(program[p]) /\ ReadsWell(program[p])
  BY WellProcs DEF SInv
<1>5. step = "readData" => pc[p] = Len(program[p].steps) /\ Receiver(program[p])
  BY <1>3, <1>4 DEF ReadsWell, Receiver, Final
<1>6. step = "readData" => Len(got[p]) = Hellos(program[p]) + 2
  BY <1>3, <1>4, <1>5 DEF SInv, Receipts, Receipt, ReadsWell, ProgramType
<1>7. Accepted(p)
  <2>1. SUFFICES ASSUME ~Accepted(p) PROVE FALSE
    OBVIOUS
  <2>2. n = 0 /\ got[p] = <<>>
    BY <1>1, <2>1 DEF Incoming, SInv, Streams, Stream
  <2>3. step = "readData"
    BY <1>2, <2>2
  <2> QED BY <1>6, <2>2, <2>3 DEF Hellos
<1>8. PICK q \in Procs :
        /\ q = conn[p] /\ q # p /\ conn[q] = p /\ Accepted(q)
        /\ \/ program[p] \in ServerPrograms /\ program[q] \in ClientPrograms
           \/ program[p] \in ClientPrograms /\ program[q] \in ServerPrograms
  BY <1>4, <1>7, Peers
<1>9. /\ n \in 0 .. Len(out[q]) /\ out[q] \in Seq(Units) /\ got[p] \in Seq(Units)
      /\ n \in Nat /\ Len(out[q]) \in Nat /\ Len(got[p]) \in Nat
  BY <1>1, <1>4, <1>7, <1>8 DEF Incoming, StreamType
<1>10. /\ got' = [got EXCEPT ![p] = @ \o SubSeq(out[q], 1, n)]
       /\ out' = [out EXCEPT ![q] = SubSeq(@, n + 1, Len(@))]
  BY <1>1, <1>7, <1>8 DEF Takes, Incoming
<1>11. /\ SubSeq(out[q], 1, n) \in Seq(Units) /\ Len(SubSeq(out[q], 1, n)) = n
       /\ \A k \in 1 .. n : SubSeq(out[q], 1, n)[k] = out[q][k]
  BY <1>9
<1>12. /\ got'[p] \in Seq(Units) /\ Len(got'[p]) = Len(got[p]) + n
       /\ \A k \in 1 .. Len(got[p]) : got'[p][k] = got[p][k]
       /\ \A k \in 1 .. n : got'[p][Len(got[p]) + k] = out[q][k]
       /\ \A r \in Procs \ {p} : got'[r] = got[r]
  <2>1. got'[p] = got[p] \o SubSeq(out[q], 1, n)
    BY <1>4, <1>10 DEF StreamType
  <2>2. \A r \in Procs \ {p} : got'[r] = got[r]
    BY <1>4, <1>10 DEF StreamType
  <2>3. /\ got'[p] \in Seq(Units) /\ Len(got'[p]) = Len(got[p]) + n
        /\ \A k \in 1 .. Len(got[p]) : got'[p][k] = got[p][k]
        /\ \A k \in 1 .. n : got'[p][Len(got[p]) + k] = SubSeq(out[q], 1, n)[k]
    <3>1. PICK t \in Seq(Units) : t = SubSeq(out[q], 1, n)
      BY <1>11
    <3>2. Len(t) = n /\ got'[p] = got[p] \o t
      BY <1>11, <2>1, <3>1
    <3>3. /\ got[p] \o t \in Seq(Units) /\ Len(got[p] \o t) = Len(got[p]) + Len(t)
          /\ \A k \in 1 .. Len(got[p]) : (got[p] \o t)[k] = got[p][k]
          /\ \A k \in 1 .. Len(t) : (got[p] \o t)[Len(got[p]) + k] = t[k]
      BY <1>9, Joined
    <3> QED BY <3>1, <3>2, <3>3
  <2> QED BY <1>11, <2>2, <2>3
<1>13. /\ out'[q] \in Seq(Units) /\ Len(out'[q]) = Len(out[q]) - n
       /\ \A k \in 1 .. Len(out'[q]) : out'[q][k] = out[q][n + k]
       /\ \A r \in Procs \ {q} : out'[r] = out[r]
  <2>1. out'[q] = SubSeq(out[q], n + 1, Len(out[q]))
    BY <1>4, <1>8, <1>10 DEF StreamType
  <2>2. \A r \in Procs \ {q} : out'[r] = out[r]
    BY <1>4, <1>10 DEF StreamType
  <2> QED BY <1>9, <2>1, <2>2
<1>14. \A r \in Procs : (Accepted(r) <=> Accepted(r)') /\ conn'[r] = conn[r]
  BY <1>1 DEF Accepted
<1>15. \A r \in Procs : Stream(r)
  BY DEF SInv, Streams
<1>16. Taken(q) = Len(got[p]) /\ Taken(q)' = Len(got[p]) + n
  BY <1>8, <1>12, <1>14 DEF Taken
<1>17. \A r \in Procs \ {q} : Taken(r)' = Taken(r)
  <2> SUFFICES ASSUME NEW r \in Procs \ {q} PROVE Taken(r)' = Taken(r)
    OBVIOUS
  <2>1. CASE Accepted(r)
    <3>1. conn[r] \in Procs /\ conn[r] # p
      BY <1>4, <1>8, <2>1, Peers
    <3> QED BY <1>12, <1>14, <2>1, <3>1 DEF Taken
  <2>2. CASE ~Accepted(r)
    BY <1>14, <2>2 DEF Taken
  <2> QED BY <2>1, <2>2
<1>18. ASSUME NEW k \in 1 .. Len(got'[p]) PROVE got'[p][k] = Unit(program[q], k)
  <2>1. CASE k <= Len(got[p])
    BY <1>7, <1>8, <1>9, <1>12, <1>15, <2>1 DEF Stream
  <2>2. CASE k > Len(got[p])
    <3>1. PICK j \in 1 .. n : k = Len(got[p]) + j
      <4>1. k \in Nat /\ k - Len(got[p]) \in 1 .. n
        BY <1>9, <1>12, <2>2
      <4>2. k = Len(got[p]) + (k - Len(got[p]))
        BY <1>9, <4>1
      <4> QED BY <4>1, <4>2
    <3>2. out[q][j] = Unit(program[q], Taken(q) + j)
      BY <1>8, <1>9, <1>15 DEF Stream
    <3> QED BY <1>12, <1>16, <3>1, <3>2
  <2> QED BY <1>9, <1>12, <2>1, <2>2
<1>19. ASSUME NEW r \in Procs
       PROVE  /\ MayWrite(r)' => MayWrite(r)
              /\ Wrote(program'[r], pc'[r]) = Wrote(program[r], pc[r])
  <2>1. CASE r # p
    BY <1>3, <2>1 DEF MayWrite, Running
  <2>2. CASE r = p
    <3>1. pc[p] \in Nat /\ pc'[p] = pc[p] + 1
      BY <1>3, <1>4 DEF ProgramType
    <3>2. MayWrite(p)' => MayWrite(p)
      BY <1>3, <3>1 DEF MayWrite, Running
    <3>3. Wrote(program[p], pc[p] + 1) = Wrote(program[p], pc[p])
      <4>1. step \notin Writes
        BY DEF Reads, Writes
      <4>2. WritesWell(program[p], pc[p])
        BY <1>3, WellProcs DEF SInv
      <4> QED BY <1>3, <4>1, <4>2 DEF WritesWell
    <3> QED BY <1>3, <2>2, <3>2, <3>3
  <2> QED BY <2>1, <2>2
<1>20. ASSUME NEW r \in Procs PROVE Stream(r)'
  <2>1. ~Accepted(r)' => got'[r] = <<>>
    BY <1>7, <1>12, <1>14, <1>15 DEF Stream
  <2>2. Accepted(r)' => \A k \in 1 .. Len(got'[r]) : got'[r][k] = Unit(program'[conn'[r]], k)
    <3>1. CASE r = p
      BY <1>3, <1>8, <1>14, <1>18, <3>1
    <3>2. CASE r # p
      <4>1. Stream(r) /\ program' = program
        BY <1>3, <1>15
      <4>2. got'[r] = got[r] /\ conn'[r] = conn[r] /\ (Accepted(r) <=> Accepted(r)')
        BY <1>12, <1>14, <3>2
      <4> QED BY <4>1, <4>2 DEF Stream
    <3> QED BY <3>1, <3>2
  <2>3. \A k \in 1 .. Len(out'[r]) : out'[r][k] = Unit(program'[r], Taken(r)' + k)
    <3>1. CASE r # q
      BY <1>3, <1>13, <1>15, <1>17, <3>1 DEF Stream
    <3>2. CASE r = q
      <4> SUFFICES ASSUME NEW k \in 1 .. Len(out'[q])
                   PROVE  out'[q][k] = Unit(program[q], Taken(q)' + k)
        BY <1>3, <3>2
      <4>1. n + k \in 1 .. Len(out[q]) /\ out'[q][k] = out[q][n + k]
        BY <1>9, <1>13
      <4>2. out[q][n + k] = Unit(program[q], Taken(q) + (n + k))
        BY <1>8, <1>15, <4>1 DEF Stream
      <4>3. Taken(q)' + k = Taken(q) + (n + k)
        BY <1>9, <1>13, <1>16
      <4> QED BY <4>1, <4>2, <4>3
    <3> QED BY <3>1, <3>2
  <2>4. Taken(r)' + Len(out'[r]) = Taken(r) + Len(out[r])
    <3>1. CASE r # q
      BY <1>13, <1>17, <3>1
    <3>2. CASE r = q
      <4>1. n \in Nat /\ Len(out[q]) \in Nat /\ Len(got[p]) \in Nat
        BY <1>9
      <4>2. Len(out'[q]) = Len(out[q]) - n
        BY <1>13
      <4>3. (Len(got[p]) + n) + (Len(out[q]) - n) = Len(got[p]) + Len(out[q])
        BY <4>1, TakenOver
      <4>4. Taken(q)' + Len(out'[q]) = Taken(q) + Len(out[q])
        BY <1>16, <4>2, <4>3
      <4> QED BY <3>2, <4>4
    <3> QED BY <3>1, <3>2
  <2>5. /\ Taken(r)' + Len(out'[r]) <= Wrote(program'[r], pc'[r])
        /\ MayWrite(r)' => Taken(r)' + Len(out'[r]) = Wrote(program'[r], pc'[r])
    BY <1>15, <1>19, <2>4 DEF Stream
  <2> QED BY <2>1, <2>2, <2>3, <2>5 DEF Stream
<1>21. ASSUME NEW r \in Procs \ {p} PROVE Receipt(r)'
  BY <1>3, <1>12, <1>14 DEF SInv, Receipts, Receipt
<1>22. Receipt(p)'
  <2> SUFFICES ASSUME Receiver(program[p]) PROVE Receipt(p)'
    BY <1>3 DEF Receipt
  <2>1. Len(got[p]) = TookBefore(program[p], pc[p])
    BY <1>3 DEF SInv, Receipts, Receipt
  <2>2. CASE step # "readData"
    <3>1. pc[p] < Len(program[p].steps)
      BY <1>3, <1>4, <2>2 DEF Receiver, Final, ProgramType
    <3>2. step # "readRaw"
      BY <1>3, <1>4, <3>1 DEF ReadsWell, ProgramType
    <3>3. TookBefore(program[p], pc[p] + 1) = TookBefore(program[p], pc[p]) + n
      <4>1. pc[p] \in 1 .. Len(program[p].steps) - 1
        BY <1>3, <1>4, <3>1 DEF ProgramType
      <4>2. /\ step = "readLen" => TookBefore(program[p], pc[p] + 1) = TookBefore(program[p], pc[p]) + 2
            /\ step = "readHello" => TookBefore(program[p], pc[p] + 1) = TookBefore(program[p], pc[p]) + 3
        BY <1>3, <1>4, <4>1 DEF ReadsWell
      <4> QED BY <1>2, <2>2, <3>2, <4>2
    <3> QED BY <1>3, <1>4, <1>12, <2>1, <3>1, <3>3 DEF Receipt, ProgramType
  <2>3. CASE step = "readData"
    <3> DEFINE h == Hellos(program[p]) + 2
    <3>1. pc[p] = Len(program[p].steps) /\ Len(got[p]) = h /\ h \in {2, 8}
      BY <1>5, <1>6, <2>3 DEF Hellos
    <3>2. Last(got[p]) = Unit(program[q], h)
      BY <1>7, <1>8, <1>15, <3>1 DEF Last, Stream
    <3>3. Unit(program[q], h)[1] = "len" /\ n = Unit(program[q], h)[2]
      BY <1>2, <2>3, <3>2 DEF Announced
    <3>4. h <= Wrote(program[q], pc[q])
      <4>1. Taken(q) = h /\ Len(out[q]) \in Nat
        BY <1>9, <1>16, <3>1
      <4>2. Taken(q) + Len(out[q]) <= Wrote(program[q], pc[q])
        BY <1>8, <1>15 DEF Stream
      <4>3. Wrote(program[q], pc[q]) \in Int
        BY <1>4, <1>8, WellProcs DEF Wrote, ProgramType
      <4> QED BY <3>1, <4>1, <4>2, <4>3
    <3>5. pc[q] \in Nat
      BY <1>8 DEF SInv, IInv, ProcessType
    <3>6. /\ Sender(program[q]) /\ ~RawWriter(program[q])
          /\ Hellos(program[q]) = Hellos(program[p]) /\ n = program[q].frame
      BY <1>8, <3>3, <3>4, <3>5, LengthOfSender
    <3>7. Len(got'[p]) = h + program[q].frame
      BY <1>12, <3>1, <3>6
    <3> QED BY <1>3, <1>7, <1>8, <1>14, <3>1, <3>6, <3>7 DEF Receipt
  <2> QED BY <2>2, <2>3
<1>23. out' \in [Procs -> Seq(Units)] /\ got' \in [Procs -> Seq(Units)]
  <2>1. \A r \in Procs : out'[r] \in Seq(Units) /\ got'[r] \in Seq(Units)
    BY <1>4, <1>12, <1>13 DEF StreamType
  <2> QED BY <1>4, <1>10, <2>1 DEF StreamType
<1>24. StreamType' /\ Pairing'
  BY <1>1, <1>23, SamePairs
<1>25. IInv'
  BY <1>1, AdvanceStep DEF SInv
<1> QED BY <1>20, <1>21, <1>22, <1>24, <1>25 DEF SInv, Streams, Receipts

\* A step that leaves the calls and the connections alone: at most it ends a
\* process, and cuts off what that one has written.
LEMMA LeavingStep ==
    ASSUME SInv, IInv', UNCHANGED <<program, pc, conn, got>>,
           out' \in [Procs -> Seq(Units)],
           \A q \in Procs : Running(q)' => Running(q) /\ out'[q] = out[q],
           \A q \in Procs : /\ Len(out'[q]) <= Len(out[q])
                            /\ \A k \in 1 .. Len(out'[q]) : out'[q][k] = out[q][k]
    PROVE  SInv'
<1>1. StreamType' /\ Pairing'
  BY DEF SInv, StreamType, Pairing
<1>2. ASSUME NEW q \in Procs PROVE Stream(q)' /\ Receipt(q)'
  <2>1. Stream(q) /\ Receipt(q)
    BY DEF SInv, Streams, Receipts
  <2>2. (Accepted(q) <=> Accepted(q)') /\ Taken(q)' = Taken(q)
    BY DEF Accepted, Taken
  <2>3. MayWrite(q)' => MayWrite(q) /\ out'[q] = out[q]
    BY DEF MayWrite
  <2>4. out[q] \in Seq(Units) /\ out'[q] \in Seq(Units)
    BY DEF SInv, StreamType
  <2>5. Len(out[q]) \in Nat /\ Len(out'[q]) \in Nat
    BY <2>4
  <2>6. Taken(q) \in Nat
    <3>1. CASE Accepted(q)
      <4>1. conn[q] \in Procs
        BY <3>1, Peers DEF SInv
      <4> QED BY <3>1, <4>1 DEF Taken, SInv, StreamType
    <3>2. CASE ~Accepted(q)
      BY <3>2 DEF Taken
    <3> QED BY <3>1, <3>2
  <2>7. Wrote(program[q], pc[q]) \in Int
    BY WellProcs DEF SInv, Wrote, ProgramType
  <2>8. Taken(q) + Len(out'[q]) <= Wrote(program[q], pc[q])
    BY <2>1, <2>5, <2>6, <2>7 DEF Stream
  <2>9. \A k \in 1 .. Len(out'[q]) : out'[q][k] = Unit(program[q], Taken(q) + k)
    BY <2>1, <2>5 DEF Stream
  <2>10. Stream(q)'
    BY <2>1, <2>2, <2>3, <2>8, <2>9 DEF Stream
  <2>11. Receipt(q)'
    BY <2>1, <2>2 DEF Receipt
  <2> QED BY <2>10, <2>11
<1> QED BY <1>1, <1>2 DEF SInv, Streams, Receipts

\* The beginning of a sequence.
LEMMA CutOff ==
    ASSUME NEW S, NEW s \in Seq(S), NEW k \in 0 .. Len(s)
    PROVE  /\ SubSeq(s, 1, k) \in Seq(S) /\ Len(SubSeq(s, 1, k)) <= Len(s)
           /\ \A j \in 1 .. Len(SubSeq(s, 1, k)) : SubSeq(s, 1, k)[j] = s[j]
OBVIOUS

\* The end of a process, with or without a cut.
LEMMA EndingStep ==
    ASSUME SInv, IInv', NEW p \in Procs, Return(p) \/ Join(p) \/ Killed(p)
    PROVE  SInv'
<1>1. main' = [main EXCEPT ![p] = "ended"] /\ UNCHANGED <<program, pc, conn, got>>
  BY DEF Return, Join, Killed, Closes
<1>2. out' = out \/ \E k \in 0 .. Len(out[p]) : out' = [out EXCEPT ![p] = SubSeq(@, 1, k)]
  BY DEF Return, Join, Killed, Closes
<1>3. main \in [Procs -> {"steps", "join", "ended"}] /\ out \in [Procs -> Seq(Units)]
  BY DEF SInv, IInv, ProcessType, StreamType
<1>4. out' \in [Procs -> Seq(Units)] /\ \A q \in Procs \ {p} : out'[q] = out[q]
  <2>1. CASE out' = out
    BY <1>3, <2>1
  <2>2. ASSUME NEW k \in 0 .. Len(out[p]), out' = [out EXCEPT ![p] = SubSeq(@, 1, k)]
        PROVE  out' \in [Procs -> Seq(Units)] /\ \A q \in Procs \ {p} : out'[q] = out[q]
    <3>1. out[p] \in Seq(Units)
      BY <1>3
    <3>2. SubSeq(out[p], 1, k) \in Seq(Units)
      BY <3>1, CutOff
    <3> QED BY <1>3, <2>2, <3>2
  <2> QED BY <1>2, <2>1, <2>2
<1>5. /\ Len(out'[p]) <= Len(out[p])
      /\ \A k \in 1 .. Len(out'[p]) : out'[p][k] = out[p][k]
  <2>1. CASE out' = out
    BY <1>3, <2>1
  <2>2. CASE \E k \in 0 .. Len(out[p]) : out' = [out EXCEPT ![p] = SubSeq(@, 1, k)]
    <3>1. PICK k \in 0 .. Len(out[p]) : out'[p] = SubSeq(out[p], 1, k)
      BY <1>3, <2>2
    <3> QED BY <1>3, <3>1, CutOff
  <2> QED BY <1>2, <2>1, <2>2
<1>6. ~Running(p)' /\ \A q \in Procs \ {p} : Running(q)' => Running(q)
  BY <1>1, <1>3 DEF Running
<1>7. \A q \in Procs : Running(q)' => Running(q) /\ out'[q] = out[q]
  BY <1>4, <1>6
<1>8. \A q \in Procs : /\ Len(out'[q]) <= Len(out[q])
                       /\ \A k \in 1 .. Len(out'[q]) : out'[q][k] = out[q][k]
  <2> SUFFICES ASSUME NEW q \in Procs
               PROVE  /\ Len(out'[q]) <= Len(out[q])
                      /\ \A k \in 1 .. Len(out'[q]) : out'[q][k] = out[q][k]
    OBVIOUS
  <2>1. CASE q = p
    BY <1>5, <2>1
  <2>2. CASE q # p
    BY <1>3, <1>4, <2>2
  <2> QED BY <2>1, <2>2
<1> QED BY <1>1, <1>4, <1>7, <1>8, LeavingStep

\* A failure, or a step of the timer, of the guard or of main() on its way to join.
LEMMA StandingStep ==
    ASSUME SInv, IInv', NEW p \in Procs,
           Fail(p) \/ ArmTimer(p) \/ TimerExpires(p) \/ RunReturns(p) \/ UNCHANGED vars
    PROVE  SInv'
<1>1. UNCHANGED <<program, pc, conn, got, out>>
  BY DEF Fail, ArmTimer, TimerExpires, RunReturns, vars
<1>2. \A q \in Procs : Running(q)' => Running(q)
  BY DEF Fail, ArmTimer, TimerExpires, RunReturns, vars, Running, SInv, IInv, ProcessType
<1>3. out' \in [Procs -> Seq(Units)] /\ \A q \in Procs : Len(out[q]) \in Nat
  BY <1>1 DEF SInv, StreamType
<1> QED BY <1>1, <1>2, <1>3, LeavingStep

\* Every step preserves the invariant.
LEMMA NextSInv == SInv /\ [Next]_vars => SInv'
<1> SUFFICES ASSUME SInv, [Next]_vars PROVE SInv'
  OBVIOUS
<1>1. IInv'
  BY NextIInv DEF SInv
<1>2. ASSUME NEW p \in Procs, ProcessStep(p) \/ Killed(p) PROVE SInv'
  <2>1. CASE Prepare(p) \/ Bind(p) \/ Write(p)
    BY <1>2, <2>1, SendStep
  <2>2. CASE WriteFails(p)
    <3>1. Fail(p) \/ Advance(p)
      BY <2>2 DEF WriteFails
    <3> QED BY <1>1, <1>2, <2>2, <3>1, SendStep, StandingStep
  <2>3. CASE \E q \in Procs : Connect(p, q) \/ Accept(p, q)
    BY <1>2, <2>3, ConnectStep, AcceptStep
  <2>4. CASE Read(p)
    BY <1>2, <2>4, ReadStep
  <2>5. CASE SetupFails(p) \/ ReadFails(p)
    BY <1>1, <1>2, <2>5, StandingStep DEF SetupFails, ReadFails
  <2>6. CASE ArmTimer(p) \/ TimerExpires(p) \/ RunReturns(p)
    BY <1>1, <1>2, <2>6, StandingStep
  <2>7. CASE Return(p) \/ Join(p) \/ Killed(p)
    BY <1>1, <1>2, <2>7, EndingStep
  <2> QED BY <1>2, <2>1, <2>2, <2>3, <2>4, <2>5, <2>6, <2>7 DEF ProcessStep
<1>3. CASE UNCHANGED vars
  BY <1>1, <1>3 DEF vars, SInv, StreamType, Pairing, Streams, Stream, Receipts, Receipt,
     Accepted, Taken, MayWrite, Running
<1> QED BY <1>2, <1>3 DEF Next

\* The units of a frame.
LEMMA FrameUnits ==
    ASSUME NEW f \in Nat
    PROVE  /\ Frame(f) \in Seq(Units) /\ Len(Frame(f)) = 2 + f
           /\ \A j \in 1 .. 2 + f :
                Frame(f)[j] = IF j <= 2 THEN <<"len", f>> ELSE <<"data", 0>>
<1> DEFINE a == Length(f)
           b == Payload(f)
<1>1. a \in Seq(Units) /\ Len(a) = 2 /\ a[1] = <<"len", f>> /\ a[2] = <<"len", f>>
  BY DEF Length, Units
<1>2. b \in Seq(Units) /\ Len(b) = f
  BY Repeated DEF Payload
<1>3. \A j \in 1 .. f : b[j] = <<"data", 0>>
  BY Repeated DEF Payload
<1> HIDE DEF a, b
<1>4. /\ a \o b \in Seq(Units) /\ Len(a \o b) = 2 + f
      /\ \A j \in 1 .. 2 : (a \o b)[j] = a[j]
      /\ \A j \in 1 .. f : (a \o b)[2 + j] = b[j]
  <2>1. /\ a \o b \in Seq(Units) /\ Len(a \o b) = Len(a) + Len(b)
        /\ \A j \in 1 .. Len(a) : (a \o b)[j] = a[j]
        /\ \A j \in 1 .. Len(b) : (a \o b)[Len(a) + j] = b[j]
    <3>1. a \in Seq(Units) /\ b \in Seq(Units)
      BY <1>1, <1>2
    <3> QED BY <3>1, Joined
  <2> QED BY <1>1, <1>2, <2>1
<1>5. ASSUME NEW j \in 1 .. 2 + f
      PROVE  (a \o b)[j] = IF j <= 2 THEN <<"len", f>> ELSE <<"data", 0>>
  <2>1. CASE j <= 2
    <3>1. j \in 1 .. 2
      BY <2>1
    <3>2. (a \o b)[j] = a[j] /\ a[j] = <<"len", f>>
      BY <1>1, <1>4, <3>1
    <3> QED BY <2>1, <3>2
  <2>2. CASE j > 2
    <3>1. j - 2 \in 1 .. f /\ j = 2 + (j - 2)
      BY <2>2
    <3>2. (a \o b)[j] = b[j - 2]
      BY <1>4, <3>1
    <3> QED BY <1>3, <2>2, <3>1, <3>2
  <2>3. j <= 2 \/ j > 2
    OBVIOUS
  <2> QED BY <2>1, <2>2, <2>3
<1> QED BY <1>4, <1>5 DEF a, b, Frame

\* A sequence whose units from the h-th on are those of a frame ends in one.
LEMMA TailIsFrame ==
    ASSUME NEW g \in Seq(Units), NEW h \in Nat, NEW f \in Nat, Len(g) = h + 2 + f,
           \A j \in 1 .. 2 + f : g[h + j] = IF j <= 2 THEN <<"len", f>> ELSE <<"data", 0>>
    PROVE  SubSeq(g, h + 1, Len(g)) = Frame(f)
<1> DEFINE s == SubSeq(g, h + 1, Len(g))
<1>1. s \in Seq(Units) /\ Len(s) = 2 + f
  OBVIOUS
<1>2. \A j \in 1 .. 2 + f : s[j] = g[h + j]
  OBVIOUS
<1>3. Frame(f) \in Seq(Units) /\ Len(Frame(f)) = 2 + f
  BY FrameUnits
<1>4. \A j \in 1 .. 2 + f : s[j] = Frame(f)[j]
  BY <1>2, FrameUnits
<1> HIDE DEF s
<1>5. s = Frame(f)
  BY <1>1, <1>3, <1>4, SeqEqual
<1> QED BY <1>5 DEF s

\* What the invariant says of a receiver at the end of its calls.
LEMMA ReceiptIsFrame ==
    ASSUME SInv, NEW p \in Procs, Over(p), "readData" \in ToSet(program[p].steps)
    PROVE  /\ "writeData" \in ToSet(program[conn[p]].steps)
           /\ \E n \in 0 .. Len(got[p]) :
                /\ \A k \in 1 .. n : got[p][k] \in ToSet(Flight)
                /\ SubSeq(got[p], n + 1, Len(got[p])) = Frame(program[conn[p]].frame)
<1> DEFINE m == program[conn[p]]
           n == Hellos(program[p])
<1>1. ProgramType(program[p]) /\ ReadsWell(program[p])
  BY WellProcs DEF SInv
<1>2. Receiver(program[p])
  BY <1>1 DEF ToSet, ReadsWell, Receiver, Final, ProgramType
<1>3. /\ Accepted(p) /\ Sender(m) /\ ~RawWriter(m) /\ Hellos(m) = n
      /\ Len(got[p]) = n + 2 + m.frame
  BY <1>2 DEF Over, SInv, Receipts, Receipt
<1>4. conn[p] \in Procs
  BY <1>3, Peers DEF SInv
<1>5. ProgramType(m)
  BY <1>4, WellProcs DEF SInv
<1>6. "writeData" \in ToSet(m.steps)
  <2>1. Len(m.steps) \in DOMAIN m.steps
    BY <1>5 DEF ProgramType
  <2> QED BY <1>3, <2>1 DEF ToSet, Sender, Final
<1>7. n \in {0, 6} /\ m.frame \in Nat /\ got[p] \in Seq(Units)
  BY <1>5 DEF Hellos, ProgramType, SInv, StreamType
<1>8. \A k \in 1 .. Len(got[p]) : got[p][k] = Unit(m, k)
  BY <1>3 DEF SInv, Streams, Stream
<1>9. \A k \in 1 .. n : got[p][k] \in ToSet(Flight)
  <2>1. \A k \in 1 .. n : got[p][k] = <<"hello", 0>>
    BY <1>3, <1>7, <1>8 DEF Unit
  <2>2. <<"hello", 0>> \in ToSet(Flight)
    BY DEF ToSet, Flight
  <2> QED BY <2>1, <2>2
<1>10. SubSeq(got[p], n + 1, Len(got[p])) = Frame(m.frame)
  <2>1. ASSUME NEW j \in 1 .. 2 + m.frame
        PROVE  got[p][n + j] = IF j <= 2 THEN <<"len", m.frame>> ELSE <<"data", 0>>
    <3>1. got[p][n + j] = Unit(m, n + j)
      <4>1. n + j \in 1 .. Len(got[p])
        BY <1>3, <1>7
      <4> QED BY <1>8, <4>1
    <3>2. ~(n + j <= n) /\ (n + j <= n + 2 <=> j <= 2)
      BY <1>7
    <3> QED BY <1>3, <3>1, <3>2 DEF Unit
  <2>2. n \in Nat /\ m.frame \in Nat /\ got[p] \in Seq(Units) /\ Len(got[p]) = n + 2 + m.frame
    BY <1>3, <1>7
  <2> HIDE DEF m, n
  <2> QED BY <2>1, <2>2, TailIsFrame
<1>11. n \in 0 .. Len(got[p])
  BY <1>3, <1>7
<1> QED BY <1>6, <1>9, <1>10, <1>11

\* Whichever programs meet on the port, in any number, and wherever one of them
\* is cut off: a receiver that gets to the end of its calls has a whole frame,
\* the one of the program at the other end.
THEOREM FrameTheorem == Spec => []FrameIsWhole
<1>1. SInv => FrameIsWhole
  BY ReceiptIsFrame DEF FrameIsWhole
<1> QED BY <1>1, InitSInv, NextSInv, PTL DEF Spec
=============================================================================

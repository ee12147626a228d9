------------------------- MODULE QtPoolServerProofs -------------------------
(***************************************************************************)
(* Proofs about the Qt server on a thread pool, for any number of          *)
(* connections, requests and threads: when main() returns no runnable is   *)
(* left, running or queued, and each connection is served as               *)
(* RequestService says, however long it has waited for a thread.  The last *)
(* part is about the benchmark's twin: both hold of it, and what it prints *)
(* is the sum of what its sessions have counted.                           *)
(***************************************************************************)
EXTENDS BmQtPoolServer, QtSessionProofs

\* The queue has every connection that waits for a thread, once, and no other;
\* it is empty for good when main() has waited for it.
QueueInv ==
    /\ \A k \in 1 .. Len(queue) : at[queue[k]] = "queued"
    /\ \A k, l \in 1 .. Len(queue) : queue[k] = queue[l] => k = l
    /\ \A i \in Ids : at[i] = "queued" => \E k \in 1 .. Len(queue) : queue[k] = i
    /\ main = "done" => PoolIsDone

IInv == SessionInv /\ TypeOK /\ QueueInv

\* What every step keeps, and the step of the service it is.
Good == IInv' /\ ServiceStep

(***************************************************************************)
(* The steps.                                                              *)
(***************************************************************************)
\* A step that leaves the queue and main() alone moves no session into the
\* queue or out of it, and starts none.
LEMMA QueueKept ==
    ASSUME IInv, SessionInv', ServiceStep, TypeOK', UNCHANGED <<queue, main>>,
           \A j \in Ids : Active(j)' => Active(j),
           \A j \in Ids : at'[j] = "queued" <=> at[j] = "queued"
    PROVE  Good
<1>1. \A k \in 1 .. Len(queue) : queue[k] \in Ids
  BY DEF IInv, TypeOK
<1>2. QueueInv'
  BY <1>1 DEF IInv, QueueInv, PoolIsDone
<1> QED BY <1>2 DEF Good, IInv

\* What the peers do and what the sessions answer.
LEMMA TalkKeeps ==
    ASSUME IInv, NEW i \in Ids,
           \/ PeerStep(i) \/ Answering(i) \/ (Disconnected(i) /\ UNCHANGED service)
    PROVE  Good
<1>1. /\ SessionInv /\ UNCHANGED service
      /\ \/ PeerSends(i) \/ PeerLeaves(i) \/ ReadyRead(i) \/ SendResponse(i)
         \/ SendFails(i) \/ Disconnected(i)
  BY DEF PeerStep, Answering, IInv
<1>2. SessionInv' /\ ServiceStep
  BY <1>1, PeerSendsStep, PeerLeavesStep, ReadyReadStep, SendResponseStep, SendFailsStep,
     DisconnectedStep
<1>3. TypeOK'
  BY <1>1, <1>2 DEF IInv, TypeOK, SessionInv, service
<1>4. /\ (at[i] \in {"loop", "work"} /\ at'[i] \in {"loop", "work"}) \/ at' = at
      /\ \A j \in Ids \ {i} : at'[j] = at[j]
  BY <1>1 DEF PeerSends, PeerLeaves, ReadyRead, SendResponse, SendFails, Disconnected, Goes,
              Receive, Waits, session, IInv, SessionInv, SessionTypeOK
<1>5. \A j \in Ids : Active(j)' => Active(j)
  BY <1>4 DEF Active
<1>6. \A j \in Ids : at'[j] = "queued" <=> at[j] = "queued"
  BY <1>4
<1> QED BY <1>1, <1>2, <1>3, <1>5, <1>6, QueueKept DEF service

\* A connection is queued behind the others.
LEMMA IncomingStep ==
    ASSUME IInv, NEW i \in Ids, IncomingConnection(i)
    PROVE  Good
<1>1. /\ SessionInv /\ at[i] = "none" /\ main = "exec" /\ at' = [at EXCEPT ![i] = "queued"]
      /\ queue' = Append(queue, i) /\ peer' = [peer EXCEPT ![i] = "connected"]
      /\ UNCHANGED <<quit, socket, buf, m_dataLen, m_dataBuf, sent, net, tx,
                     main, listening, m_isStopping>>
  BY DEF IncomingConnection, IInv, Goes
<1>2. SessionTypeOK'
  BY <1>1 DEF SessionInv, SessionTypeOK
<1>3. at'[i] = "queued" /\ \A j \in Ids \ {i} : Same(j)
  BY <1>1 DEF SessionInv, SessionTypeOK, Same
<1>4. peer[i] # "gone" /\ Placed(i)'
  BY <1>1, <1>3 DEF SessionInv, Placed, Active
<1>5. SessionInv' /\ ServiceStep
  BY <1>1, <1>2, <1>3, <1>4, MoveStep
<1>6. queue \in Seq(Ids) /\ Len(queue) \in Nat
  BY LenProperties DEF IInv, TypeOK
<1>7. /\ queue' \in Seq(Ids) /\ Len(queue') = Len(queue) + 1 /\ queue'[Len(queue) + 1] = i
      /\ \A k \in 1 .. Len(queue) : queue'[k] = queue[k]
  BY <1>1, <1>6, AppendProperties
<1>8. TypeOK'
  BY <1>1, <1>2, <1>7 DEF IInv, TypeOK
<1>9. \A k \in 1 .. Len(queue) : queue[k] \in Ids /\ queue[k] # i
  BY <1>1, <1>6 DEF IInv, QueueInv
<1>10. \A k \in 1 .. Len(queue') : k \in 1 .. Len(queue) \/ k = Len(queue) + 1
  BY <1>6, <1>7
<1>11. QueueInv'
  <2>1. \A k \in 1 .. Len(queue') : at'[queue'[k]] = "queued"
    BY <1>3, <1>7, <1>9, <1>10 DEF IInv, QueueInv, Same
  <2>2. \A k, l \in 1 .. Len(queue') : queue'[k] = queue'[l] => k = l
    BY <1>7, <1>9, <1>10 DEF IInv, QueueInv
  <2>3. ASSUME NEW j \in Ids, at'[j] = "queued" PROVE \E k \in 1 .. Len(queue') : queue'[k] = j
    <3>1. CASE j = i
      <4>1. Len(queue) + 1 \in 1 .. Len(queue')
        BY <1>6, <1>7
      <4> QED BY <1>7, <3>1, <4>1
    <3>2. CASE j # i
      <4>1. PICK k \in 1 .. Len(queue) : queue[k] = j
        BY <1>3, <2>3, <3>2 DEF IInv, QueueInv, Same
      <4>2. k \in 1 .. Len(queue')
        BY <1>6, <1>7
      <4> QED BY <1>7, <4>1, <4>2
    <3> QED BY <3>1, <3>2
  <2>4. main' # "done"
    BY <1>1
  <2> QED BY <2>1, <2>2, <2>3, <2>4 DEF QueueInv
<1> QED BY <1>5, <1>8, <1>11 DEF Good, IInv

\* The first of the queue is a connection that waits, and it is in there once.
LEMMA TakesFirst ==
    ASSUME IInv, NEW i \in Ids, Takes(i), at'[i] # "queued",
           \A j \in Ids \ {i} : at'[j] = at[j]
    PROVE  /\ at[i] = "queued" /\ main # "done" /\ queue' \in Seq(Ids)
           /\ main' = main => QueueInv'
<1>1. /\ queue \in Seq(Ids) /\ queue # <<>> /\ i = queue[1] /\ queue' = Tail(queue)
      /\ Len(queue) \in Nat \ {0}
  BY EmptySeq DEF IInv, TypeOK, Takes
<1>2. /\ queue' \in Seq(Ids) /\ Len(queue') = Len(queue) - 1
      /\ \A k \in 1 .. Len(queue') : queue'[k] = queue[k + 1]
  BY <1>1, HeadTailProperties
<1>3. at[i] = "queued"
  BY <1>1 DEF IInv, QueueInv
<1>4. main # "done"
  BY <1>1 DEF IInv, QueueInv, PoolIsDone
<1>5. \A k \in 1 .. Len(queue') :
        k + 1 \in 1 .. Len(queue) /\ queue[k + 1] \in Ids /\ queue[k + 1] # i
  <2> SUFFICES ASSUME NEW k \in 1 .. Len(queue')
               PROVE  k + 1 \in 1 .. Len(queue) /\ queue[k + 1] \in Ids /\ queue[k + 1] # i
    OBVIOUS
  <2>1. k + 1 \in 1 .. Len(queue) /\ 1 \in 1 .. Len(queue) /\ k + 1 # 1
    BY <1>1, <1>2
  <2> QED BY <1>1, <2>1 DEF IInv, QueueInv
<1>6. ASSUME main' = main PROVE QueueInv'
  <2>1. \A k \in 1 .. Len(queue') : at'[queue'[k]] = "queued"
    BY <1>2, <1>5 DEF IInv, QueueInv
  <2>2. ASSUME NEW k \in 1 .. Len(queue'), NEW l \in 1 .. Len(queue'), queue'[k] = queue'[l]
        PROVE  k = l
    <3>1. k + 1 = l + 1
      BY <1>2, <1>5, <2>2 DEF IInv, QueueInv
    <3> QED BY <3>1
  <2>3. ASSUME NEW j \in Ids, at'[j] = "queued" PROVE \E k \in 1 .. Len(queue') : queue'[k] = j
    <3>1. j # i /\ at[j] = "queued"
      BY <2>3
    <3>2. PICK k \in 1 .. Len(queue) : queue[k] = j
      BY <3>1 DEF IInv, QueueInv
    <3>3. k - 1 \in 1 .. Len(queue') /\ k - 1 + 1 = k
      BY <1>1, <1>2, <3>1, <3>2
    <3> QED BY <1>2, <3>2, <3>3
  <2> QED BY <1>4, <1>6, <2>1, <2>2, <2>3 DEF QueueInv
<1> QED BY <1>2, <1>3, <1>4, <1>6

\* A pool thread takes a runnable and opens its socket, or fails to.
LEMMA StartingStep ==
    ASSUME IInv, NEW i \in Ids, Starting(i)
    PROVE  Good
<1>1. /\ SessionInv /\ Takes(i)
      /\ UNCHANGED <<quit, buf, m_dataLen, m_dataBuf, peer, sent, net, tx, main, listening, m_isStopping>>
      /\ \/ at' = [at EXCEPT ![i] = "loop"] /\ socket' = [socket EXCEPT ![i] = "open"]
         \/ at' = [at EXCEPT ![i] = "finished"] /\ socket' = socket
  BY DEF Starting, Run, SetDescriptorFails, IInv, Goes, wire
<1>2. SessionTypeOK'
  BY <1>1 DEF SessionInv, SessionTypeOK
<1>3. /\ \/ at'[i] = "loop" /\ socket'[i] = "open"
         \/ at'[i] = "finished" /\ socket' = socket
      /\ \A j \in Ids \ {i} : Same(j) /\ at'[j] = at[j]
  BY <1>1 DEF SessionInv, SessionTypeOK, Same
<1>4. at[i] = "queued" /\ main # "done" /\ queue' \in Seq(Ids) /\ QueueInv'
  BY <1>1, <1>3, TakesFirst
<1>5. SessionInv' /\ ServiceStep
  <2>1. CASE at'[i] = "loop" /\ socket'[i] = "open"
    BY <1>1, <1>2, <1>3, <1>4, <2>1, OpenStep
  <2>2. CASE at'[i] = "finished" /\ socket' = socket
    <3>1. Placed(i)'
      BY <2>2 DEF Placed, Active
    <3> QED BY <1>1, <1>2, <1>3, <1>4, <2>2, <3>1, MoveStep
  <2> QED BY <1>3, <2>1, <2>2
<1>6. TypeOK'
  BY <1>1, <1>2, <1>4 DEF IInv, TypeOK
<1> QED BY <1>4, <1>5, <1>6 DEF Good, IInv

\* The flag that a session's timer finds raised, and the end of its runnable.
LEMMA EndingStep ==
    ASSUME IInv, NEW i \in Ids, Tick(i) \/ LoopReturns(i)
    PROVE  Good
<1>1. /\ SessionInv /\ at[i] = "loop" /\ UNCHANGED service
      /\ at' = at \/ at' = [at EXCEPT ![i] = "finished"]
      /\ socket' = [socket EXCEPT ![i] = "closed"]
      /\ quit' = quit \/ quit' = [quit EXCEPT ![i] = TRUE]
      /\ buf' = buf \/ buf' = [buf EXCEPT ![i] = <<>>]
      /\ peer' = peer \/ peer' = [peer EXCEPT ![i] = "gone"]
      /\ UNCHANGED <<m_dataLen, m_dataBuf, sent, net, tx>>
  BY DEF Tick, LoopReturns, CloseSocket, Goes, IInv, wire
<1>2. SessionTypeOK'
  <2>1. at' \in [Ids -> {"none", "queued", "started", "loop", "work", "ending", "finished"}]
    BY <1>1 DEF SessionInv, SessionTypeOK
  <2>2. /\ quit' \in [Ids -> BOOLEAN] /\ socket' \in [Ids -> {"none", "open", "closed"}]
        /\ peer' \in [Ids -> {"absent", "connected", "gone"}]
    BY <1>1 DEF SessionInv, SessionTypeOK
  <2>3. <<>> \in Seq(Cells) /\ buf \in [Ids -> Seq(Cells)]
    BY <1>1, EmptySeq DEF SessionInv, SessionTypeOK
  <2>4. buf' \in [Ids -> Seq(Cells)]
    BY <1>1, <2>3
  <2> QED BY <1>1, <2>1, <2>2, <2>4 DEF SessionInv, SessionTypeOK
<1>3. /\ at'[i] \in {"loop", "finished"} /\ socket'[i] = "closed" /\ socket[i] # "none"
      /\ \A j \in Ids \ {i} : Same(j)
  BY <1>1 DEF SessionInv, SessionTypeOK, Same, Placed, Active
<1>4. SessionInv' /\ ServiceStep
  BY <1>1, <1>2, <1>3, CloseStep
<1>5. TypeOK'
  BY <1>1, <1>2 DEF IInv, TypeOK, service
<1>6. /\ \A j \in Ids : Active(j)' => Active(j)
      /\ \A j \in Ids : at'[j] = "queued" <=> at[j] = "queued"
  BY <1>1, <1>3 DEF Active, Same
<1> QED BY <1>1, <1>4, <1>5, <1>6, QueueKept DEF service

\* main() returns when the pool is done.
LEMMA MainStep ==
    ASSUME IInv, Eof \/ WaitForDone
    PROVE  Good
<1>1. /\ SessionInv /\ UNCHANGED <<session, wire, queue>>
      /\ main' = "wait" \/ (main' = "done" /\ PoolIsDone)
  BY DEF Eof, WaitForDone, IInv
<1>2. SessionTypeOK' /\ (\A j \in Ids : Same(j)) /\ tx' = tx /\ at' = at
  BY <1>1 DEF SessionInv, SessionTypeOK, Same, session, wire
<1>3. SessionInv' /\ ServiceStep
  BY <1>1, <1>2, IdleStep
<1>4. TypeOK'
  BY <1>1, <1>2 DEF Eof, WaitForDone, IInv, TypeOK
<1>5. QueueInv'
  BY <1>1, <1>2 DEF IInv, QueueInv, PoolIsDone, Active
<1> QED BY <1>3, <1>4, <1>5 DEF Good, IInv

\* Every step, a stutter included.
LEMMA StepKeeps ==
    ASSUME IInv, [Next]_vars
    PROVE  Good
<1>1. CASE UNCHANGED vars
  <2>1. SessionInv /\ UNCHANGED <<session, wire>> /\ UNCHANGED service
    BY <1>1 DEF vars, IInv
  <2>2. SessionTypeOK' /\ (\A j \in Ids : Same(j)) /\ tx' = tx /\ at' = at
    BY <2>1 DEF SessionInv, SessionTypeOK, Same, session, wire
  <2>3. SessionInv' /\ ServiceStep
    BY <2>1, <2>2, IdleStep
  <2>4. TypeOK' /\ UNCHANGED <<queue, main>>
    BY <2>1, <2>2 DEF IInv, TypeOK, service
  <2> QED BY <2>2, <2>3, <2>4, QueueKept DEF Active
<1>2. CASE Eof \/ WaitForDone
  BY <1>2, MainStep
<1>3. ASSUME NEW i \in Ids,
             \/ IncomingConnection(i) \/ PeerStep(i) \/ Starting(i)
             \/ Answering(i) \/ Ending(i) \/ LoopReturns(i)
      PROVE  Good
  BY <1>3, IncomingStep, TalkKeeps, StartingStep, EndingStep DEF Ending
<1> QED BY <1>1, <1>2, <1>3 DEF Next, Terminated

\* Before the first step.
LEMMA InitHolds == Init => IInv /\ Service!SInit
<1> SUFFICES ASSUME Init PROVE IInv /\ Service!SInit
  OBVIOUS
<1>1. SessionInv /\ Service!SInit
  BY SessionStarts DEF Init
<1>2. queue \in Seq(Ids) /\ Len(queue) = 0
  BY EmptySeq DEF Init
<1>3. TypeOK
  BY <1>1, <1>2 DEF Init, TypeOK, SessionInv
<1>4. QueueInv
  BY <1>2 DEF Init, SessionInit, QueueInv
<1> QED BY <1>1, <1>3, <1>4 DEF IInv

\* IInv is an invariant.
LEMMA Invariance == Spec => []IInv
<1>1. IInv /\ [Next]_vars => IInv'
  BY StepKeeps DEF Good
<1> QED BY <1>1, InitHolds, PTL DEF Spec

(***************************************************************************)
(* The theorems.                                                           *)
(***************************************************************************)
\* Every variable of the server and of its sessions keeps its type.
THEOREM TypeCorrect == Spec => []TypeOK
<1>1. IInv => TypeOK
  BY DEF IInv
<1> QED BY <1>1, Invariance, PTL

\* No runnable is running or queued when main() has returned: those that had no
\* thread yet have been given one before.
THEOREM PoolTheorem == Spec => []NoClientOutlivesServer
<1>1. IInv => NoClientOutlivesServer
  <2> SUFFICES ASSUME IInv, main = "done", NEW i \in Ids PROVE at[i] \in {"none", "finished"}
    BY DEF NoClientOutlivesServer
  <2>1. queue = <<>> /\ ~Active(i)
    BY DEF IInv, QueueInv, PoolIsDone
  <2>2. Len(queue) = 0
    BY <2>1, EmptySeq
  <2>3. at[i] # "queued"
    BY <2>2 DEF IInv, QueueInv
  <2> QED BY <2>1, <2>3 DEF Active, IInv, SessionInv, SessionTypeOK
<1> QED BY <1>1, Invariance, PTL

\* The server implements RequestService, for any number of connections and
\* threads.
THEOREM RefinementTheorem == Spec => ServesRequests
<1>1. IInv /\ [Next]_vars => [Service!SNext]_Service!svars
  BY StepKeeps DEF Good, ServiceStep
<1> QED BY <1>1, InitHolds, Invariance, PTL DEF Spec, ServesRequests, Service!SSpec

(***************************************************************************)
(* The benchmark's server.  Its sessions and its queue are the same, its   *)
(* shutdown is the helper's: nothing is queued once the listener is        *)
(* closed, so that a pool that is found done stays so until main() prints  *)
(* the total, which then has every count.                                  *)
(***************************************************************************)
Finished == {i \in Ids : at[i] = "finished"}

HelperInv ==
    /\ helper \in {"input", "spin", "wait", "finished"}
    /\ helper \in {"wait", "finished"} => ~listening
    /\ helper = "finished" => PoolIsDone
    /\ main = "done" => helper = "finished"

CountsInv ==
    /\ requestCount \in [Ids -> Nat]
    /\ m_totalRequests = SumOver(requestCount, Finished)
    /\ \A i \in Ids : at[i] \in {"none", "queued"} => requestCount[i] = 0
    /\ output = IF main = "done" THEN <<m_totalRequests>> ELSE <<>>

BmInv == IInv /\ HelperInv /\ CountsInv

\* There are finitely many sessions.
LEMMA FinitelyMany ==
    ASSUME NEW S \in SUBSET Ids
    PROVE  IsFiniteSet(S)
<1>1. MaxId - 1 \in Int
  BY SessionAssumption
<1>2. IsFiniteSet(Ids)
  BY <1>1, FS_Interval DEF Ids
<1> QED BY <1>2, FS_Subset

\* In a pool that is done nobody runs, and nobody waits.
LEMMA DoneMeansIdle ==
    ASSUME IInv, PoolIsDone, NEW i \in Ids
    PROVE  at[i] \in {"none", "finished"}
<1>1. queue = <<>> /\ ~Active(i)
  BY DEF PoolIsDone
<1>2. Len(queue) = 0
  BY <1>1, EmptySeq
<1>3. at[i] # "queued"
  BY <1>2 DEF IInv, QueueInv
<1> QED BY <1>1, <1>3 DEF Active, IInv, SessionInv, SessionTypeOK

\* A pool that is done stays so while nothing new comes.
LEMMA HelperKept ==
    ASSUME BmInv, IInv', UNCHANGED <<main, helper>>, listening' => listening,
           helper = "finished" => at' = at /\ queue' = queue
    PROVE  HelperInv'
BY DEF BmInv, HelperInv, PoolIsDone, Active

\* The total is of the same sessions with the same counts.
LEMMA CountsKept ==
    ASSUME BmInv, UNCHANGED <<main, output, m_totalRequests>>, requestCount' \in [Ids -> Nat],
           Finished' = Finished, \A i \in Finished : requestCount'[i] = requestCount[i],
           \A i \in Ids : at'[i] \in {"none", "queued"} => requestCount'[i] = 0
    PROVE  CountsInv'
<1>1. IsFiniteSet(Finished)
  BY FinitelyMany DEF Finished
<1>2. SumOver(requestCount, Finished) = SumOver(requestCount', Finished)
  BY <1>1, SumSame
<1> QED BY <1>2 DEF BmInv, CountsInv

\* The queue, the peers and the sessions' answers.
LEMMA BmTalks ==
    ASSUME BmInv, NEW i \in Ids,
           \/ BmAnswering(i)
           \/ /\ IncomingConnection(i) \/ PeerStep(i) \/ Starting(i)
                 \/ (Disconnected(i) /\ UNCHANGED service)
              /\ UNCHANGED <<helper, counts>>
    PROVE  BmInv' /\ ServiceStep
<1>1. IInv' /\ ServiceStep
  BY IncomingStep, TalkKeeps, StartingStep DEF BmInv, BmAnswering, Good
<1>2. /\ UNCHANGED <<main, helper, m_totalRequests, output>> /\ listening' = listening
      /\ requestCount \in [Ids -> Nat] /\ IInv
  BY DEF BmInv, CountsInv, BmAnswering, Answering, IncomingConnection, PeerStep, Starting, Run,
         SetDescriptorFails, service, counts
<1>3. \/ /\ at[i] \in {"loop", "work"} /\ at'[i] \in {"loop", "work"} /\ queue' = queue
         /\ requestCount' = [requestCount EXCEPT ![i] = @ + 1] \/ requestCount' = requestCount
      \/ /\ at[i] = "none" /\ listening /\ at'[i] = "queued" /\ requestCount' = requestCount
      \/ /\ at' = at /\ queue' = queue /\ requestCount' = requestCount
      \/ /\ at[i] = "queued" /\ queue # <<>> /\ at'[i] \in {"loop", "finished"}
         /\ requestCount' = requestCount
  <2>1. CASE BmAnswering(i)
    <3>1. at[i] \in {"loop", "work"} /\ (at' = at \/ at'[i] \in {"loop", "work"}) /\ queue' = queue
      BY <1>2, <2>1 DEF BmAnswering, Answering, ReadyRead, Receive, Waits, SendResponse, SendFails,
         Goes, service, IInv, SessionInv, SessionTypeOK
    <3> QED BY <2>1, <3>1 DEF BmAnswering
  <2>2. CASE IncomingConnection(i) /\ UNCHANGED <<helper, counts>>
    BY <1>2, <2>2 DEF IncomingConnection, Goes, counts, IInv, SessionInv, SessionTypeOK
  <2>3. CASE (PeerStep(i) \/ (Disconnected(i) /\ UNCHANGED service)) /\ UNCHANGED <<helper, counts>>
    BY <2>3 DEF PeerStep, PeerSends, PeerLeaves, Disconnected, session, service, counts
  <2>4. CASE Starting(i) /\ UNCHANGED <<helper, counts>>
    <3>1. Takes(i) /\ at'[i] \in {"loop", "finished"} /\ \A j \in Ids \ {i} : at'[j] = at[j]
      BY <1>2, <2>4 DEF Starting, Run, SetDescriptorFails, Goes, IInv, SessionInv, SessionTypeOK
    <3>2. at[i] = "queued"
      BY <1>2, <3>1, TakesFirst
    <3> QED BY <2>4, <3>1, <3>2 DEF Takes, counts
  <2> QED BY <2>1, <2>2, <2>3, <2>4
<1>4. \A j \in Ids \ {i} : at'[j] = at[j] /\ requestCount'[j] = requestCount[j]
  <2>1. \A j \in Ids \ {i} : at'[j] = at[j]
    BY <1>2 DEF BmAnswering, Answering, ReadyRead, Receive, Waits, SendResponse, SendFails, Goes,
       IncomingConnection, PeerStep, PeerSends, PeerLeaves, Disconnected, Starting, Run,
       SetDescriptorFails, session, IInv, SessionInv, SessionTypeOK
  <2>2. \A j \in Ids \ {i} : requestCount'[j] = requestCount[j]
    BY <1>2, <1>3
  <2> QED BY <2>1, <2>2
<1>5. helper = "finished" => ~listening /\ queue = <<>> /\ at[i] \in {"none", "finished"}
  BY <1>2, DoneMeansIdle DEF BmInv, HelperInv, PoolIsDone
<1>6. helper = "finished" => at' = at /\ queue' = queue
  BY <1>3, <1>5
<1>7. HelperInv'
  BY <1>1, <1>2, <1>6, HelperKept
<1>8. requestCount' \in [Ids -> Nat]
  BY <1>2, <1>3
<1>9. \A j \in Ids : at[j] \in {"none", "queued"} => requestCount[j] = 0
  BY DEF BmInv, CountsInv
<1>10. \A j \in Ids : at'[j] \in {"none", "queued"} => requestCount'[j] = 0
  BY <1>2, <1>3, <1>4, <1>9
<1>11. CASE at[i] = "queued" /\ at'[i] = "finished"
  <2>1. Finished' = Finished \cup {i} /\ i \notin Finished /\ requestCount' = requestCount /\ requestCount[i] = 0
    BY <1>3, <1>4, <1>9, <1>11 DEF Finished
  <2>2. IsFiniteSet(Finished) /\ \A x \in Finished \cup {i} : requestCount[x] \in Nat
    BY <1>2, FinitelyMany DEF Finished
  <2>3. PICK n \in Nat : n = SumOver(requestCount, Finished)
    BY <2>2, SumType
  <2>4. SumOver(requestCount, Finished \cup {i}) = n + 0
    BY <2>1, <2>2, <2>3, SumAdd
  <2>5. m_totalRequests' = SumOver(requestCount', Finished')
    BY <1>2, <2>1, <2>3, <2>4 DEF BmInv, CountsInv
  <2> QED BY <1>1, <1>2, <1>7, <1>8, <1>10, <2>5 DEF BmInv, CountsInv
<1>12. CASE ~(at[i] = "queued" /\ at'[i] = "finished")
  <2>1. Finished' = Finished /\ \A j \in Finished : requestCount'[j] = requestCount[j]
    BY <1>3, <1>4, <1>12 DEF Finished
  <2>2. CountsInv'
    BY <1>2, <1>8, <1>10, <2>1, CountsKept
  <2> QED BY <1>1, <1>7, <2>2 DEF BmInv
<1> QED BY <1>11, <1>12

\* A session adds its count as its runnable returns, the first and only time.
LEMMA BmReturns ==
    ASSUME BmInv, NEW i \in Ids, BmLoopReturns(i)
    PROVE  BmInv' /\ ServiceStep
<1>1. IInv' /\ ServiceStep
  BY EndingStep DEF BmInv, BmLoopReturns, Good
<1>2. /\ at[i] = "loop" /\ UNCHANGED <<queue, main, listening, m_isStopping, helper, requestCount, output>>
      /\ \A j \in Ids : at'[j] = IF j = i THEN "finished" ELSE at[j]
      /\ m_totalRequests' = m_totalRequests + requestCount[i]
  BY DEF BmLoopReturns, LoopReturns, Goes, service, BmInv, IInv, SessionInv, SessionTypeOK
<1>3. helper # "finished" /\ main # "done"
  BY <1>2 DEF BmInv, HelperInv, PoolIsDone, Active
<1>4. HelperInv'
  BY <1>1, <1>2, <1>3, HelperKept
<1>5. Finished' = Finished \cup {i} /\ i \notin Finished
  BY <1>2 DEF Finished
<1>6. requestCount \in [Ids -> Nat] /\ m_totalRequests = SumOver(requestCount, Finished)
  BY DEF BmInv, CountsInv
<1>7. m_totalRequests' = SumOver(requestCount', Finished')
  <2>1. IsFiniteSet(Finished) /\ \A x \in Finished \cup {i} : requestCount[x] \in Nat
    BY <1>6, FinitelyMany DEF Finished
  <2>2. SumOver(requestCount, Finished \cup {i}) = SumOver(requestCount, Finished) + requestCount[i]
    BY <1>5, <2>1, SumAdd
  <2> QED BY <1>2, <1>5, <1>6, <2>2
<1>8. CountsInv'
  BY <1>2, <1>3, <1>6, <1>7 DEF BmInv, CountsInv
<1> QED BY <1>1, <1>4, <1>8 DEF BmInv

\* A tick of the stop timer tells a session's loop to quit, and no more.
LEMMA BmTicks ==
    ASSUME BmInv, NEW i \in Ids, StopTick(i)
    PROVE  BmInv' /\ ServiceStep
<1>1. /\ SessionInv /\ IInv /\ quit' = [quit EXCEPT ![i] = TRUE]
      /\ UNCHANGED <<at, socket, buf, m_dataLen, m_dataBuf, peer, sent, net, tx>>
      /\ UNCHANGED service /\ UNCHANGED <<helper, requestCount, m_totalRequests, output>>
  BY DEF StopTick, BmInv, IInv, wire, counts
<1>2. SessionTypeOK' /\ \A j \in Ids : Same(j)
  BY <1>1 DEF SessionInv, SessionTypeOK, Same
<1>3. SessionInv' /\ ServiceStep
  BY <1>1, <1>2, IdleStep
<1>4. TypeOK' /\ UNCHANGED <<queue, main, listening>>
  BY <1>1, <1>2 DEF IInv, TypeOK, service
<1>5. IInv'
  BY <1>1, <1>3, <1>4, QueueKept DEF Active, Good
<1>6. HelperInv'
  BY <1>1, <1>4, <1>5, HelperKept
<1>7. CountsInv'
  BY <1>1, <1>4, CountsKept DEF BmInv, CountsInv, Finished
<1> QED BY <1>3, <1>5, <1>6, <1>7 DEF BmInv

\* The shutdown, step by step; main() prints when the pool is done and nobody
\* can come to it any more.
LEMMA BmShutsDown ==
    ASSUME BmInv,
           \/ UNCHANGED bmvars \/ (Terminated /\ UNCHANGED <<helper, counts>>)
           \/ Enter \/ HelperStep \/ BmMainStep
    PROVE  BmInv' /\ ServiceStep
<1>1. /\ SessionInv /\ IInv /\ UNCHANGED <<session, wire>>
      /\ UNCHANGED <<queue, requestCount, m_totalRequests>>
  BY DEF bmvars, vars, Terminated, Enter, HelperStep, DisconnectClients, BmWaitForDone, BmMainStep,
         Close, StartTimer, PrintTotal, service, counts, BmInv, IInv
<1>2. /\ \/ UNCHANGED <<main, output>>
         \/ main = "exec" /\ main' = "done" /\ helper = "finished" /\ output' = Append(output, m_totalRequests)
      /\ \/ listening' = listening \/ listening' = FALSE
      /\ \/ m_isStopping' = m_isStopping \/ m_isStopping' = TRUE
      /\ \/ helper' = helper
         \/ helper = "input" /\ helper' = "spin"
         \/ helper = "spin" /\ ~listening /\ helper' = "wait"
         \/ helper = "wait" /\ PoolIsDone /\ helper' = "finished"
  BY DEF bmvars, vars, Terminated, Enter, HelperStep, DisconnectClients, BmWaitForDone, BmMainStep,
         Close, StartTimer, PrintTotal, service, counts
<1>3. SessionTypeOK' /\ (\A j \in Ids : Same(j)) /\ tx' = tx /\ at' = at
  BY <1>1 DEF SessionInv, SessionTypeOK, Same, session, wire
<1>4. SessionInv' /\ ServiceStep
  BY <1>1, <1>3, IdleStep
<1>5. TypeOK'
  <2>1. listening' \in BOOLEAN /\ m_isStopping' \in BOOLEAN
    BY <1>1, <1>2 DEF IInv, TypeOK
  <2>2. main' \in {"exec", "wait", "done"} /\ queue' \in Seq(Ids)
    BY <1>1, <1>2 DEF IInv, TypeOK
  <2> QED BY <1>3, <2>1, <2>2 DEF TypeOK
<1>6. QueueInv'
  BY <1>1, <1>2, <1>3 DEF BmInv, HelperInv, IInv, QueueInv, PoolIsDone, Active
<1>7. HelperInv'
  BY <1>1, <1>2, <1>3 DEF BmInv, HelperInv, PoolIsDone, Active
<1>8. CountsInv'
  <2>1. CASE UNCHANGED <<main, output>>
    BY <1>1, <1>3, <2>1, CountsKept DEF BmInv, CountsInv, Finished
  <2>2. CASE main = "exec" /\ main' = "done" /\ output' = Append(output, m_totalRequests)
    <3>1. output' = <<m_totalRequests>>
      BY <2>2 DEF BmInv, CountsInv
    <3> QED BY <1>1, <1>3, <2>2, <3>1 DEF BmInv, CountsInv, Finished
  <2> QED BY <1>2, <2>1, <2>2
<1> QED BY <1>4, <1>5, <1>6, <1>7, <1>8 DEF BmInv, IInv

\* Every step, a stutter included.
LEMMA BmStepKeeps ==
    ASSUME BmInv, [BmNext]_bmvars
    PROVE  BmInv' /\ ServiceStep
<1>1. CASE \/ UNCHANGED bmvars \/ (Terminated /\ UNCHANGED <<helper, counts>>)
           \/ Enter \/ HelperStep \/ BmMainStep
  BY <1>1, BmShutsDown
<1>2. ASSUME NEW i \in Ids,
             \/ BmAnswering(i) \/ BmEnding(i) \/ StopTick(i)
             \/ (IncomingConnection(i) \/ PeerStep(i) \/ Starting(i)) /\ UNCHANGED <<helper, counts>>
      PROVE  BmInv' /\ ServiceStep
  <2>1. \/ BmAnswering(i) \/ BmLoopReturns(i) \/ StopTick(i)
        \/ /\ IncomingConnection(i) \/ PeerStep(i) \/ Starting(i)
              \/ (Disconnected(i) /\ UNCHANGED service)
           /\ UNCHANGED <<helper, counts>>
    BY <1>2 DEF BmEnding
  <2> QED BY <2>1, BmTalks, BmReturns, BmTicks
<1> QED BY <1>1, <1>2 DEF BmNext

\* Before the first step.
LEMMA BmInitHolds == BmInit => BmInv /\ Service!SInit
<1> SUFFICES ASSUME BmInit PROVE BmInv /\ Service!SInit
  OBVIOUS
<1>1. IInv /\ Service!SInit
  BY InitHolds DEF BmInit
<1>2. /\ at = [i \in Ids |-> "none"] /\ main = "exec" /\ listening = TRUE /\ helper = "input"
      /\ requestCount = [i \in Ids |-> 0] /\ m_totalRequests = 0 /\ output = <<>>
  BY DEF BmInit, Init, SessionInit
<1>3. HelperInv
  BY <1>2 DEF HelperInv
<1>4. Finished = {}
  BY <1>2 DEF Finished
<1>5. m_totalRequests = SumOver(requestCount, Finished)
  BY <1>2, <1>4, SumEmpty
<1>6. CountsInv
  BY <1>2, <1>5 DEF CountsInv
<1> QED BY <1>1, <1>3, <1>6 DEF BmInv

\* BmInv is an invariant of the benchmark's server.
LEMMA BmInvariance == BmSpec => []BmInv
<1>1. BmInv /\ [BmNext]_bmvars => BmInv'
  BY BmStepKeeps
<1> QED BY <1>1, BmInitHolds, PTL DEF BmSpec

\* No runnable of the benchmark's server is running or queued when main() has
\* returned.
THEOREM BmPoolTheorem == BmSpec => []NoClientOutlivesServer
<1>1. BmInv => NoClientOutlivesServer
  BY DoneMeansIdle DEF BmInv, IInv, QueueInv, NoClientOutlivesServer
<1> QED BY <1>1, BmInvariance, PTL

\* The total that main() prints is the sum of the counts of all sessions.
THEOREM TotalTheorem == BmSpec => []PrintsEveryCount
<1>1. BmInv => PrintsEveryCount
  <2> SUFFICES ASSUME BmInv, output # <<>> PROVE output[1] = SumOver(requestCount, Ids)
    BY DEF PrintsEveryCount
  <2>1. main = "done" /\ output[1] = m_totalRequests /\ requestCount \in [Ids -> Nat]
        /\ m_totalRequests = SumOver(requestCount, Finished)
    BY DEF BmInv, CountsInv
  <2>2. \A i \in Ids : at[i] \in {"none", "finished"}
    BY <2>1, DoneMeansIdle DEF BmInv, IInv, QueueInv
  <2>3. \A i \in Ids \ Finished : requestCount[i] = 0
    BY <2>2 DEF Finished, BmInv, CountsInv
  <2>4. IsFiniteSet(Ids) /\ Finished \in SUBSET Ids
    BY FinitelyMany DEF Finished
  <2> QED BY <2>1, <2>3, <2>4, SumWithoutZeros
<1> QED BY <1>1, BmInvariance, PTL

\* The benchmark's server implements RequestService too, in its own shutdown as
\* before it.
THEOREM BmRefinementTheorem == BmSpec => ServesRequests
<1>1. BmInv /\ [BmNext]_bmvars => [Service!SNext]_Service!svars
  BY BmStepKeeps DEF ServiceStep
<1> QED BY <1>1, BmInitHolds, BmInvariance, PTL DEF BmSpec, ServesRequests, Service!SSpec
=============================================================================

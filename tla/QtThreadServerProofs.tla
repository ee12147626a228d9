------------------------ MODULE QtThreadServerProofs ------------------------
(***************************************************************************)
(* Proofs about the Qt server with a thread per client, for any number of  *)
(* connections and requests: no thread of a client outlives the Client,    *)
(* and each connection is served as RequestService says, through the       *)
(* connections' being accepted, deleted and destroyed in the server's      *)
(* thread.  The benchmark's twin takes the same steps, and its total is    *)
(* the sum of what the deleted sessions have counted.                      *)
(***************************************************************************)
EXTENDS BmQtThreadServer, QtSessionProofs

\* Whose thread runs is a child of the listener; the server's thread is the
\* last but main() to end, and has deleted the children then.
ThreadsInv ==
    /\ \A i \in Ids : Active(i) => i \in children
    /\ server = "finished" => children = {}
    /\ main = "done" => server = "finished"

IInv == SessionInv /\ ThreadsTypeOK /\ ThreadsInv

\* What every step keeps, and the step of the service it is.
Good == IInv' /\ ServiceStep

(***************************************************************************)
(* The steps.                                                              *)
(***************************************************************************)
\* Neither a session nor main() nor a Client's life is touched.
LEMMA SameSessions ==
    ASSUME SessionInv, UNCHANGED <<session, wire>>
    PROVE  SessionInv' /\ ServiceStep /\ \A i \in Ids : Active(i)' <=> Active(i)
<1>1. SessionTypeOK' /\ (\A j \in Ids : Same(j)) /\ tx' = tx
  BY DEF SessionInv, SessionTypeOK, Same, session, wire
<1> QED BY <1>1, IdleStep DEF Active, Same

\* The listener's new child.
LEMMA NewConnectionStep ==
    ASSUME IInv, NEW i \in Ids, NewConnection(i)
    PROVE  Good
<1>1. /\ SessionInv /\ at[i] = "none" /\ server = "exec" /\ at' = [at EXCEPT ![i] = "started"]
      /\ socket' = [socket EXCEPT ![i] = "open"] /\ peer' = [peer EXCEPT ![i] = "connected"]
      /\ children' = children \cup {i}
      /\ UNCHANGED <<quit, buf, m_dataLen, m_dataBuf, sent, net, tx, main, server, serverQuit, deleting>>
  BY DEF NewConnection, IInv, Goes
<1>2. SessionTypeOK'
  BY <1>1 DEF SessionInv, SessionTypeOK
<1>3. /\ at'[i] = "started" /\ socket'[i] = "open" /\ \A j \in Ids \ {i} : Same(j) /\ at'[j] = at[j]
  BY <1>1 DEF SessionInv, SessionTypeOK, Same
<1>4. peer[i] # "gone"
  BY <1>1 DEF SessionInv, Placed
<1>5. SessionInv' /\ ServiceStep
  BY <1>1, <1>2, <1>3, <1>4, OpenStep
<1>6. ThreadsTypeOK'
  BY <1>1 DEF IInv, ThreadsTypeOK
<1>7. ThreadsInv'
  BY <1>1, <1>3 DEF IInv, ThreadsInv, Active
<1> QED BY <1>5, <1>6, <1>7 DEF Good, IInv

\* The server's thread: a Client is destroyed only when its thread has finished.
LEMMA ServerKeeps ==
    ASSUME IInv, ServerStep
    PROVE  Good
<1>1. CASE Run \/ ExecReturns \/ ServerFinishes
  <2>1. UNCHANGED <<session, wire>> /\ SessionInv
    BY <1>1 DEF Run, ExecReturns, ServerFinishes, IInv
  <2>2. ThreadsTypeOK'
    BY <1>1 DEF Run, ExecReturns, ServerFinishes, IInv, ThreadsTypeOK
  <2>3. ThreadsInv'
    BY <1>1, <2>1, SameSessions DEF Run, ExecReturns, ServerFinishes, IInv, ThreadsInv
  <2> QED BY <2>1, <2>2, <2>3, SameSessions DEF Good, IInv
<1>2. CASE Deleted
  <2>1. UNCHANGED <<session, wire>> /\ SessionInv
    BY <1>2 DEF Deleted, IInv
  <2>2. ThreadsTypeOK'
    BY <1>2 DEF Deleted, IInv, ThreadsTypeOK
  <2>3. ~Active(deleting)
    BY <1>2 DEF Deleted, Active
  <2>4. ThreadsInv'
    BY <1>2, <2>1, <2>3, SameSessions DEF Deleted, IInv, ThreadsInv
  <2> QED BY <2>1, <2>2, <2>4, SameSessions DEF Good, IInv
<1>3. ASSUME NEW i \in Ids, DeleteLater(i) \/ DestroyChild(i) PROVE Good
  <2>1. /\ SessionInv /\ deleting' = i /\ server' \in {"delete", "destroy"}
        /\ server # "finished" /\ quit' = [quit EXCEPT ![i] = TRUE]
        /\ UNCHANGED <<at, socket, buf, m_dataLen, m_dataBuf, peer, sent, net, tx>>
        /\ UNCHANGED <<main, serverQuit, children>>
    BY <1>3 DEF DeleteLater, DestroyChild, Destructor, IInv, wire
  <2>2. SessionTypeOK' /\ \A j \in Ids : Same(j)
    BY <2>1 DEF SessionInv, SessionTypeOK, Same
  <2>3. SessionInv' /\ ServiceStep
    BY <2>1, <2>2, IdleStep
  <2>4. ThreadsTypeOK' /\ ThreadsInv'
    BY <2>1 DEF IInv, ThreadsTypeOK, ThreadsInv, Active
  <2> QED BY <2>3, <2>4 DEF Good, IInv
<1> QED BY <1>1, <1>2, <1>3 DEF ServerStep

\* A session's own steps do not begin or end its thread.
LEMMA SessionKeeps ==
    ASSUME IInv, NEW i \in Ids, UNCHANGED threads, SessionInv', ServiceStep,
           \A j \in Ids : Active(j)' => Active(j)
    PROVE  Good
BY DEF Good, IInv, ThreadsTypeOK, ThreadsInv, threads

\* What the peers do and what the sessions answer.
LEMMA TalkKeeps ==
    ASSUME IInv, NEW i \in Ids,
           \/ PeerStep(i) \/ Answering(i) \/ (Disconnected(i) /\ UNCHANGED threads)
    PROVE  Good
<1>1. /\ SessionInv /\ UNCHANGED threads
      /\ \/ PeerSends(i) \/ PeerLeaves(i) \/ ReadyRead(i) \/ SendResponse(i)
         \/ SendFails(i) \/ Disconnected(i)
  BY DEF PeerStep, Answering, IInv
<1>2. SessionInv' /\ ServiceStep
  BY <1>1, PeerSendsStep, PeerLeavesStep, ReadyReadStep, SendResponseStep, SendFailsStep,
     DisconnectedStep
<1>3. /\ at[i] \in {"loop", "work"} \/ at' = at
      /\ \A j \in Ids \ {i} : at'[j] = at[j]
  BY <1>1 DEF PeerSends, PeerLeaves, ReadyRead, SendResponse, SendFails, Disconnected, Goes,
              Receive, Waits, session, IInv, SessionInv, SessionTypeOK
<1>4. \A j \in Ids : Active(j)' => Active(j)
  BY <1>3 DEF Active
<1> QED BY <1>1, <1>2, <1>4, SessionKeeps

\* A client's thread, from start to end.
LEMMA ThreadKeeps ==
    ASSUME IInv, NEW i \in Ids, RunClient(i) \/ LoopReturns(i) \/ ClientFinishes(i)
    PROVE  Good
<1>1. SessionInv
  BY DEF IInv
<1>2. CASE RunClient(i) \/ LoopReturns(i)
  <2>1. /\ at[i] \in {"started", "loop"} /\ UNCHANGED threads
        /\ at' = [at EXCEPT ![i] = "ending"] \/ at' = [at EXCEPT ![i] = "loop"]
        /\ UNCHANGED <<quit, socket, buf, m_dataLen, m_dataBuf, peer, sent, net, tx>>
    BY <1>2 DEF RunClient, LoopReturns, Goes, wire
  <2>2. SessionTypeOK'
    BY <1>1, <2>1 DEF SessionInv, SessionTypeOK
  <2>3. at'[i] \in {"ending", "loop"} /\ \A j \in Ids \ {i} : Same(j)
    BY <1>1, <2>1 DEF SessionInv, SessionTypeOK, Same
  <2>4. Placed(i)'
    BY <1>1, <2>1, <2>3 DEF SessionInv, Placed, Active
  <2>5. SessionInv' /\ ServiceStep
    BY <1>1, <2>1, <2>2, <2>3, <2>4, MoveStep
  <2>6. \A j \in Ids : Active(j)' => Active(j)
    BY <2>1, <2>3 DEF Active, Same
  <2> QED BY <2>1, <2>5, <2>6, SessionKeeps
<1>3. CASE ClientFinishes(i)
  <2>1. /\ at[i] = "ending" /\ UNCHANGED threads /\ at' = [at EXCEPT ![i] = "finished"]
        /\ socket' = [socket EXCEPT ![i] = "closed"] /\ peer' = [peer EXCEPT ![i] = "gone"]
        /\ UNCHANGED <<quit, buf, m_dataLen, m_dataBuf, sent, net, tx>>
    BY <1>3 DEF ClientFinishes, Goes
  <2>2. SessionTypeOK'
    BY <1>1, <2>1 DEF SessionInv, SessionTypeOK
  <2>3. /\ at'[i] = "finished" /\ socket'[i] = "closed" /\ socket[i] # "none"
        /\ \A j \in Ids \ {i} : Same(j)
    BY <1>1, <2>1 DEF SessionInv, SessionTypeOK, Same, Placed, Active
  <2>4. SessionInv' /\ ServiceStep
    BY <1>1, <2>1, <2>2, <2>3, CloseStep
  <2>5. \A j \in Ids : Active(j)' => Active(j)
    BY <2>1, <2>3 DEF Active, Same
  <2> QED BY <2>1, <2>4, <2>5, SessionKeeps
<1> QED BY <1>2, <1>3

\* main() does not return before it has joined the server's thread.
LEMMA MainKeeps ==
    ASSUME IInv, MainStep \/ Eof
    PROVE  Good
<1>1. UNCHANGED <<session, wire>> /\ SessionInv
  BY DEF MainStep, Eof, DestroyServer, Wait, IInv
<1>2. ThreadsTypeOK'
  BY DEF MainStep, Eof, DestroyServer, Wait, IInv, ThreadsTypeOK
<1>3. ThreadsInv'
  BY <1>1, SameSessions DEF MainStep, Eof, DestroyServer, Wait, IInv, ThreadsInv
<1> QED BY <1>1, <1>2, <1>3, SameSessions DEF Good, IInv

\* Every step, a stutter included.
LEMMA StepKeeps ==
    ASSUME IInv, [Next]_vars
    PROVE  Good
<1>1. CASE UNCHANGED vars
  <2>1. UNCHANGED <<session, wire>> /\ UNCHANGED threads /\ SessionInv
    BY <1>1 DEF vars, IInv
  <2>2. ThreadsTypeOK' /\ ThreadsInv'
    BY <2>1, SameSessions DEF threads, IInv, ThreadsTypeOK, ThreadsInv
  <2> QED BY <2>1, <2>2, SameSessions DEF Good, IInv
<1>2. CASE ServerStep \/ MainStep \/ Eof
  BY <1>2, ServerKeeps, MainKeeps
<1>3. ASSUME NEW i \in Ids,
             \/ NewConnection(i) \/ PeerStep(i) \/ Answering(i) \/ Ending(i) \/ ClientFinishes(i)
      PROVE  Good
  BY <1>3, NewConnectionStep, TalkKeeps, ThreadKeeps DEF Ending
<1> QED BY <1>1, <1>2, <1>3 DEF Next, Terminated

\* Before the first step.
LEMMA InitHolds == Init => IInv /\ Service!SInit
<1> SUFFICES ASSUME Init PROVE IInv /\ Service!SInit
  OBVIOUS
<1>1. SessionInv /\ Service!SInit
  BY SessionStarts DEF Init
<1>2. 0 \in Ids
  BY SessionAssumption DEF Ids
<1>3. ThreadsTypeOK /\ ThreadsInv
  BY <1>2 DEF Init, SessionInit, ThreadsTypeOK, ThreadsInv, Active
<1> QED BY <1>1, <1>3 DEF IInv

\* IInv is an invariant.
LEMMA Invariance == Spec => []IInv
<1>1. IInv /\ [Next]_vars => IInv'
  BY StepKeeps DEF Good
<1> QED BY <1>1, InitHolds, PTL DEF Spec

(***************************************************************************)
(* The theorems.                                                           *)
(***************************************************************************)
\* Every variable of the server and of its sessions keeps its type: no body is
\* taken for a length, and no request for one that was not sent.
THEOREM TypeCorrect == Spec => []TypeOK
<1>1. IInv => TypeOK
  BY DEF IInv, SessionInv, TypeOK
<1> QED BY <1>1, Invariance, PTL

\* No Client is deleted before its thread has finished, and main() leaves no
\* thread behind.
THEOREM ThreadsTheorem == Spec => []NoThreadOutlivesItsClient
<1>1. IInv => NoThreadOutlivesItsClient
  BY DEF IInv, ThreadsInv, NoThreadOutlivesItsClient
<1> QED BY <1>1, Invariance, PTL

\* The server implements RequestService: each connection's requests are taken
\* one at a time and in order, and answered before the next is taken.
THEOREM RefinementTheorem == Spec => ServesRequests
<1>1. IInv /\ [Next]_vars => [Service!SNext]_Service!svars
  BY StepKeeps DEF Good, ServiceStep
<1> QED BY <1>1, InitHolds, Invariance, PTL DEF Spec, ServesRequests, Service!SSpec

(***************************************************************************)
(* The benchmark's server.  It is the same server with three counters:     *)
(* each of its steps is a step of the server, and the counters say of the  *)
(* sessions what TotalIsExact says.                                        *)
(***************************************************************************)
Finished == {i \in Ids : at[i] = "finished"}

CountsType ==
    /\ requestCount \in [Ids -> Nat] /\ m_totalRequests \in Nat
    /\ output \in Seq(Nat)

BmInv == IInv /\ CountsType /\ TotalIsExact

\* Each of its steps is one of the server or leaves the server alone.
LEMMA BmImplements == ASSUME [BmNext]_bmvars PROVE [Next]_vars
BY DEF BmNext, bmvars, BmEof, BmAnswering, BmClientFinishes, Next

\* There are finitely many sessions.
LEMMA SomeFinished ==
    ASSUME NEW S \in SUBSET Ids
    PROVE  IsFiniteSet(S)
<1>1. MaxId - 1 \in Int
  BY SessionAssumption
<1>2. IsFiniteSet(Ids)
  BY <1>1, FS_Interval DEF Ids
<1> QED BY <1>2, FS_Subset

\* A total is of the same threads with the same counts.
LEMMA TotalKept ==
    ASSUME BmInv, Finished' = Finished, m_totalRequests' = m_totalRequests,
           \A i \in Finished : requestCount'[i] = requestCount[i]
    PROVE  m_totalRequests' = SumOver(requestCount', Finished')
<1>1. IsFiniteSet(Finished)
  BY SomeFinished DEF Finished
<1>2. SumOver(requestCount, Finished) = SumOver(requestCount', Finished)
  BY <1>1, SumSame
<1>3. m_totalRequests = SumOver(requestCount, Finished)
  BY DEF BmInv, TotalIsExact, Finished
<1> QED BY <1>2, <1>3

\* Steps that neither count, nor answer, nor end a thread.
LEMMA UncountedKeeps ==
    ASSUME BmInv, UNCHANGED counts, tx' = tx, Finished' = Finished,
           \A i \in Ids : socket[i] = "closed" => socket'[i] = "closed"
    PROVE  CountsType' /\ TotalIsExact'
<1>1. CountsType' /\ requestCount' = requestCount /\ m_totalRequests' = m_totalRequests /\ output' = output
  BY DEF BmInv, CountsType, counts
<1>2. m_totalRequests' = SumOver(requestCount', Finished')
  BY <1>1, TotalKept
<1>3. TotalIsExact'
  BY <1>1, <1>2 DEF BmInv, TotalIsExact, Finished
<1> QED BY <1>1, <1>3

\* Of a session that works nothing has been counted that was not answered; it
\* counts as it answers, or as its socket closes.
LEMMA WorkCounts ==
    ASSUME BmInv, NEW i \in Ids, SendResponse(i) \/ SendFails(i), UNCHANGED <<m_totalRequests, output>>,
           requestCount' = [requestCount EXCEPT ![i] = @ + 1]
    PROVE  CountsType' /\ TotalIsExact'
<1>1. /\ at[i] = "work" /\ \A j \in Ids : at'[j] = IF j = i THEN "loop" ELSE at[j]
      /\ socket[i] = "open" /\ requestCount \in [Ids -> Nat] /\ tx \in [Ids -> Seq(1 .. MaxReq)]
  <2>1. /\ SessionTypeOK /\ Placed(i) /\ requestCount \in [Ids -> Nat]
        /\ at[i] = "work" /\ at' = [at EXCEPT ![i] = "loop"]
    BY DEF BmInv, IInv, SessionInv, CountsType, SendResponse, SendFails, Goes
  <2> QED BY <2>1 DEF SessionTypeOK, Placed
<1>2. Finished' = Finished /\ i \notin Finished
  BY <1>1 DEF Finished
<1>3. m_totalRequests' = SumOver(requestCount', Finished')
  <2>1. \A j \in Finished : requestCount'[j] = requestCount[j]
    BY <1>1, <1>2
  <2> QED BY <1>2, <2>1, TotalKept
<1>4. CountsType'
  BY <1>1 DEF BmInv, CountsType
<1>5. requestCount[i] = Len(tx[i])
  BY <1>1 DEF BmInv, TotalIsExact
<1>6. ASSUME NEW j \in Ids
      PROVE  \/ requestCount'[j] = Len(tx'[j])
             \/ requestCount'[j] = Len(tx'[j]) + 1 /\ socket'[j] = "closed"
  <2>1. CASE j = i /\ SendResponse(i)
    <3>1. tx'[j] = Append(tx[i], m_dataBuf[i]) /\ m_dataBuf[i] = Len(tx[i]) + 1
      <4>1. Placed(i)
        BY DEF BmInv, IInv, SessionInv
      <4> QED BY <1>1, <2>1, <4>1 DEF SendResponse, OnRequest, Placed
    <3>2. Len(tx'[j]) = Len(tx[i]) + 1
      BY <1>1, <3>1, AppendProperties
    <3> QED BY <1>1, <1>5, <2>1, <3>2
  <2>2. CASE j = i /\ SendFails(i)
    <3>1. tx' = tx
      BY <2>2 DEF SendFails, wire
    <3>2. socket'[j] = "closed"
      <4>1. socket' = [socket EXCEPT ![i] = "closed"] /\ socket \in [Ids -> {"none", "open", "closed"}]
        BY <2>2 DEF SendFails, CloseSocket, BmInv, IInv, SessionInv, SessionTypeOK
      <4> QED BY <2>2, <4>1
    <3> QED BY <1>1, <1>5, <2>2, <3>1, <3>2
  <2>3. CASE j # i
    <3>1. socket'[j] = socket[j] /\ tx'[j] = tx[j]
      <4>1. /\ socket' = socket \/ socket' = [socket EXCEPT ![i] = "closed"]
            /\ tx' = tx \/ tx' = [tx EXCEPT ![i] = Append(@, m_dataBuf[i])]
            /\ socket \in [Ids -> {"none", "open", "closed"}]
        BY DEF SendFails, CloseSocket, SendResponse, OnRequest, wire, BmInv, IInv, SessionInv, SessionTypeOK
      <4> QED BY <1>1, <2>3, <4>1
    <3> QED BY <1>1, <2>3, <3>1 DEF BmInv, TotalIsExact
  <2> QED BY <2>1, <2>2, <2>3
<1>7. output' # <<>> => output'[1] <= m_totalRequests'
  BY DEF BmInv, TotalIsExact
<1> QED BY <1>3, <1>4, <1>6, <1>7 DEF TotalIsExact, Finished

\* A thread that finishes adds its count, the first and the only time.
LEMMA FinishCounts ==
    ASSUME BmInv, NEW i \in Ids, BmClientFinishes(i)
    PROVE  CountsType' /\ TotalIsExact'
<1>1. /\ at[i] = "ending" /\ \A j \in Ids : at'[j] = IF j = i THEN "finished" ELSE at[j]
      /\ socket' = [socket EXCEPT ![i] = "closed"] /\ socket \in [Ids -> {"none", "open", "closed"}]
      /\ UNCHANGED <<tx, requestCount, output>> /\ m_totalRequests' = m_totalRequests + requestCount[i]
  <2>1. SessionTypeOK
    BY DEF BmInv, IInv, SessionInv
  <2> QED BY <2>1 DEF SessionTypeOK, BmClientFinishes, ClientFinishes, Goes
<1>2. requestCount \in [Ids -> Nat] /\ m_totalRequests \in Nat /\ output \in Seq(Nat)
  BY DEF BmInv, CountsType
<1>3. Finished' = Finished \cup {i} /\ i \notin Finished
  BY <1>1 DEF Finished
<1>4. m_totalRequests' = SumOver(requestCount', Finished')
  <2>1. IsFiniteSet(Finished) /\ \A x \in Finished \cup {i} : requestCount[x] \in Nat
    BY <1>2, SomeFinished DEF Finished
  <2>2. SumOver(requestCount, Finished \cup {i}) = SumOver(requestCount, Finished) + requestCount[i]
    BY <1>3, <2>1, SumAdd
  <2>3. m_totalRequests = SumOver(requestCount, Finished)
    BY DEF BmInv, TotalIsExact, Finished
  <2> QED BY <1>1, <1>3, <2>2, <2>3
<1>5. m_totalRequests' \in Nat /\ m_totalRequests <= m_totalRequests'
  <2>1. PICK n \in Nat : n = requestCount[i]
    BY <1>2
  <2>2. m_totalRequests' = m_totalRequests + n
    BY <1>1, <2>1
  <2> QED BY <1>2, <2>2
<1>6. CountsType' /\ (output' # <<>> => output'[1] <= m_totalRequests')
  <2>1. output # <<>> => output[1] \in Nat /\ output[1] <= m_totalRequests
    <3>1. output # <<>> => 1 \in 1 .. Len(output)
      BY <1>2, EmptySeq, LenProperties
    <3> QED BY <1>2, <3>1, ElementOfSeq DEF BmInv, TotalIsExact
  <2>2. output' # <<>> => output'[1] <= m_totalRequests'
    BY <1>1, <1>2, <1>5, <2>1
  <2>3. CountsType'
    BY <1>1, <1>2, <1>5 DEF CountsType
  <2> QED BY <2>2, <2>3
<1>7. \A j \in Ids : \/ requestCount'[j] = Len(tx'[j])
                     \/ requestCount'[j] = Len(tx'[j]) + 1 /\ socket'[j] = "closed"
  BY <1>1 DEF BmInv, TotalIsExact
<1> QED BY <1>4, <1>6, <1>7 DEF TotalIsExact, Finished

\* What main() prints at the end of input is what has been added up to then.
LEMMA EofCounts ==
    ASSUME BmInv, BmEof
    PROVE  CountsType' /\ TotalIsExact'
<1>1. /\ UNCHANGED <<at, socket, tx, requestCount, m_totalRequests>>
      /\ output' = Append(output, m_totalRequests)
  BY DEF BmEof, Eof, session, wire
<1>2. requestCount \in [Ids -> Nat] /\ m_totalRequests \in Nat /\ output \in Seq(Nat)
  BY DEF BmInv, CountsType
<1>3. output' \in Seq(Nat) /\ output'[1] <= m_totalRequests
  <2>1. CASE output = <<>>
    BY <1>1, <1>2, <2>1
  <2>2. CASE output # <<>>
    <3>1. output'[1] = output[1]
      BY <1>1, <1>2, <2>2
    <3> QED BY <1>1, <1>2, <2>2, <3>1 DEF BmInv, TotalIsExact
  <2> QED BY <2>1, <2>2
<1>4. m_totalRequests' = SumOver(requestCount', Finished')
  BY <1>1, TotalKept DEF Finished
<1>5. \A j \in Ids : \/ requestCount'[j] = Len(tx'[j])
                     \/ requestCount'[j] = Len(tx'[j]) + 1 /\ socket'[j] = "closed"
  BY <1>1 DEF BmInv, TotalIsExact
<1> QED BY <1>1, <1>2, <1>3, <1>4, <1>5 DEF CountsType, TotalIsExact, Finished

\* Every other step of the benchmark's server leaves the counters as they are.
LEMMA OtherStepsKeep ==
    ASSUME BmInv, UNCHANGED counts,
           \/ UNCHANGED vars \/ ServerStep \/ MainStep \/ Terminated
           \/ \E i \in Ids : NewConnection(i) \/ PeerStep(i) \/ Ending(i) \/ ReadyRead(i)
    PROVE  CountsType' /\ TotalIsExact'
<1>1. SessionTypeOK /\ \A i \in Ids : Placed(i)
  BY DEF BmInv, IInv, SessionInv
<1>2. CASE UNCHANGED vars \/ ServerStep \/ MainStep \/ Terminated
  <2>1. UNCHANGED <<at, socket, tx>>
    BY <1>2 DEF vars, ServerStep, Run, ExecReturns, Deleted, ServerFinishes, DeleteLater,
       DestroyChild, MainStep, DestroyServer, Wait, Terminated, session, wire
  <2> QED BY <2>1, UncountedKeeps DEF Finished
<1>3. ASSUME NEW i \in Ids, NewConnection(i) \/ PeerStep(i) \/ Ending(i) \/ ReadyRead(i)
      PROVE  CountsType' /\ TotalIsExact'
  <2>1. /\ tx' = tx
        /\ socket' = socket \/ (socket[i] # "closed" /\ socket' = [socket EXCEPT ![i] = "open"])
                            \/ socket' = [socket EXCEPT ![i] = "closed"]
        /\ \/ at' = at
           \/ /\ at[i] \in {"none", "started", "loop"}
              /\ \E p \in {"started", "loop", "work", "ending"} : at' = [at EXCEPT ![i] = p]
    <3>1. CASE NewConnection(i)
      BY <1>1, <3>1 DEF NewConnection, Goes, Placed
    <3>2. CASE PeerStep(i)
      BY <3>2 DEF PeerStep, PeerSends, PeerLeaves, session
    <3>3. CASE Ending(i)
      BY <3>3 DEF Ending, RunClient, LoopReturns, Disconnected, CloseSocket, Goes, wire
    <3>4. CASE ReadyRead(i)
      BY <3>4 DEF ReadyRead, Receive, Waits, Goes
    <3> QED BY <1>3, <3>1, <3>2, <3>3, <3>4
  <2>2. Finished' = Finished
    <3>1. \A j \in Ids : at'[j] = "finished" <=> at[j] = "finished"
      BY <1>1, <2>1 DEF SessionTypeOK
    <3> QED BY <3>1 DEF Finished
  <2>3. \A j \in Ids : socket[j] = "closed" => socket'[j] = "closed"
    BY <1>1, <2>1 DEF SessionTypeOK
  <2> QED BY <2>1, <2>2, <2>3, UncountedKeeps
<1> QED BY <1>2, <1>3

\* The counters of a step, and the server's own invariant.
LEMMA BmStepKeeps ==
    ASSUME BmInv, [BmNext]_bmvars
    PROVE  BmInv'
<1>1. IInv'
  BY BmImplements, StepKeeps DEF BmInv, Good
<1>2. CASE UNCHANGED bmvars
  BY <1>2, OtherStepsKeep, <1>1 DEF bmvars, BmInv
<1>3. CASE BmEof
  BY <1>1, <1>3, EofCounts DEF BmInv
<1>4. ASSUME NEW i \in Ids, BmClientFinishes(i) PROVE BmInv'
  BY <1>1, <1>4, FinishCounts DEF BmInv
<1>5. ASSUME NEW i \in Ids, BmAnswering(i) PROVE BmInv'
  <2>1. CASE ReadyRead(i)
    <3>1. at[i] = "loop" /\ UNCHANGED counts
      BY <1>5, <2>1 DEF BmAnswering, ReadyRead, counts
    <3> QED BY <1>1, <2>1, <3>1, OtherStepsKeep DEF BmInv
  <2>2. CASE SendResponse(i) \/ SendFails(i)
    <3>1. /\ requestCount' = [requestCount EXCEPT ![i] = @ + 1]
          /\ UNCHANGED <<m_totalRequests, output>>
      BY <1>5, <2>2 DEF BmAnswering, SendResponse, SendFails
    <3> QED BY <1>1, <2>2, <3>1, WorkCounts DEF BmInv
  <2> QED BY <1>5, <2>1, <2>2 DEF BmAnswering, Answering
<1>6. CASE /\ \/ ServerStep \/ MainStep \/ Terminated
              \/ \E i \in Ids : NewConnection(i) \/ PeerStep(i) \/ Ending(i)
           /\ UNCHANGED counts
  BY <1>1, <1>6, OtherStepsKeep DEF BmInv
<1> QED BY <1>2, <1>3, <1>4, <1>5, <1>6 DEF BmNext

\* Before anything has run the totals are 0.
LEMMA BmInitHolds == BmInit => BmInv
<1> SUFFICES ASSUME BmInit PROVE BmInv
  OBVIOUS
<1>1. IInv
  BY InitHolds DEF BmInit
<1>2. /\ at = [i \in Ids |-> "none"] /\ tx = [i \in Ids |-> <<>>]
      /\ requestCount = [i \in Ids |-> 0] /\ m_totalRequests = 0 /\ output = <<>>
  BY DEF BmInit, Init, SessionInit
<1>3. Finished = {}
  BY <1>2 DEF Finished
<1>4. m_totalRequests = SumOver(requestCount, Finished)
  BY <1>2, <1>3, SumEmpty
<1>5. CountsType
  BY <1>2 DEF CountsType
<1>6. \A i \in Ids : requestCount[i] = Len(tx[i])
  BY <1>2
<1> QED BY <1>1, <1>2, <1>4, <1>5, <1>6 DEF BmInv, TotalIsExact, Finished

\* The benchmark's server is the server: what is proved of the one holds of
\* the other.
THEOREM BmRefinement == BmSpec => Spec
<1>1. BmInit => Init
  BY DEF BmInit
<1> QED BY <1>1, BmImplements, PTL DEF BmSpec, Spec

\* The total holds the counts of the threads that have finished, each once;
\* main() never prints more, and a session counts what it has answered, and
\* at most the one request whose answer could not be sent.
THEOREM TotalTheorem == BmSpec => []TotalIsExact
<1>1. BmInv /\ [BmNext]_bmvars => BmInv'
  BY BmStepKeeps
<1>2. BmInv => TotalIsExact
  BY DEF BmInv
<1> QED BY <1>1, <1>2, BmInitHolds, PTL DEF BmSpec
=============================================================================

--------------------------- MODULE BmQtPoolServer ---------------------------
(***************************************************************************)
(* The benchmark's Qt server on a thread pool, in                          *)
(* src/benchmark/bm_qt_server_pool.  Its sessions are those of             *)
(* QtPoolServer; the shutdown is another: a helper thread asks main() to   *)
(* close the listener, spins until it is closed, has main() start a timer  *)
(* whose every tick tells the sessions' loops to quit, and waits for the   *)
(* pool.  Each session counts its readyRead signals; the total is printed  *)
(* as the number of requests handled.                                      *)
(***************************************************************************)
EXTENDS QtPoolServer, Totals

VARIABLES
    helper,           \* where the shutdown thread is
    requestCount,     \* a local variable of each session's run()
    m_totalRequests,
    output            \* what main() has printed

counts == <<requestCount, m_totalRequests, output>>
bmvars == <<vars, helper, counts>>

BmInit ==
    /\ Init
    /\ helper = "input"
    /\ requestCount = [i \in Ids |-> 0]
    /\ m_totalRequests = 0
    /\ output = <<>>

(***************************************************************************)
(* The sessions.  The count goes up when onReadyRead returns, which is     *)
(* after the answer if there was a whole request.                          *)
(***************************************************************************)
BmAnswering(i) ==
    /\ Answering(i)
    /\ requestCount' = IF at'[i] = "loop" THEN [requestCount EXCEPT ![i] = @ + 1]
                       ELSE requestCount
    /\ UNCHANGED <<helper, m_totalRequests, output>>

BmLoopReturns(i) ==
    /\ LoopReturns(i)
    /\ m_totalRequests' = m_totalRequests + requestCount[i]
    /\ UNCHANGED <<helper, requestCount, output>>

\* A tick of m_stopTimer, in main(): quit() is queued to every session's loop,
\* and the socket is closed only as run() returns.
StopTick(i) ==
    /\ m_isStopping /\ main = "exec"
    /\ at[i] = "loop" /\ ~quit[i]
    /\ quit' = [quit EXCEPT ![i] = TRUE]
    /\ UNCHANGED <<at, socket, buf, m_dataLen, m_dataBuf, wire, service, helper, counts>>

(***************************************************************************)
(* The shutdown.  m_isStopping stands for a running m_stopTimer.           *)
(***************************************************************************)
\* Fault: main() itself reads ENTER and then waits, out of its event loop.
EnterInMain ==
    /\ helper = "input" /\ helper' = "spin"
    /\ main' = "wait"
    /\ UNCHANGED <<session, wire, queue, listening, m_isStopping, counts>>

\* The helper reads ENTER and posts Server::close to main().
Enter ==
    /\ helper = "input" /\ helper' = "spin"
    /\ UNCHANGED <<vars, counts>>

Close ==
    /\ helper = "spin" /\ main = "exec" /\ listening
    /\ listening' = FALSE
    /\ UNCHANGED <<session, wire, queue, main, m_isStopping, helper, counts>>

\* Fault: the helper does not wait for the listener to be closed.
DisconnectClientsEarly ==
    /\ helper = "spin" /\ helper' = "wait"
    /\ UNCHANGED <<vars, counts>>

\* The helper posts the start of the timer and enters waitForDone().
DisconnectClients ==
    /\ helper = "spin" /\ ~listening
    /\ helper' = "wait"
    /\ UNCHANGED <<vars, counts>>

StartTimer ==
    /\ helper = "wait" /\ main = "exec" /\ ~m_isStopping
    /\ m_isStopping' = TRUE
    /\ UNCHANGED <<session, wire, queue, main, listening, helper, counts>>

\* app.quit() lets main() return from its loop, print, and join the helper.
BmWaitForDone ==
    /\ helper = "wait" /\ PoolIsDone
    /\ helper' = "finished"
    /\ UNCHANGED <<vars, counts>>

PrintTotal ==
    /\ helper = "finished" /\ main = "exec"
    /\ main' = "done"
    /\ output' = Append(output, m_totalRequests)
    /\ UNCHANGED <<session, wire, queue, listening, m_isStopping, helper, requestCount,
                   m_totalRequests>>

(***************************************************************************)
(* The specification.                                                      *)
(***************************************************************************)
HelperStep == DisconnectClients \/ BmWaitForDone
BmMainStep == Close \/ StartTimer \/ PrintTotal

BmEnding(i) == BmLoopReturns(i) \/ (Disconnected(i) /\ UNCHANGED <<service, helper, counts>>)

BmNext ==
    \/ Enter \/ HelperStep \/ BmMainStep
    \/ \E i \in Ids : BmAnswering(i) \/ BmEnding(i) \/ StopTick(i)
    \/ /\ \/ \E i \in Ids : IncomingConnection(i) \/ PeerStep(i) \/ Starting(i)
          \/ Terminated
       /\ UNCHANGED <<helper, counts>>

BmSpec == BmInit /\ [][BmNext]_bmvars

BmFairSpec ==
    /\ BmSpec
    /\ WF_bmvars(HelperStep) /\ WF_bmvars(BmMainStep)
    /\ \A i \in Ids :
         /\ WF_bmvars(Starting(i) /\ UNCHANGED <<helper, counts>>)
         /\ WF_bmvars(BmAnswering(i) \/ BmEnding(i))
         /\ WF_bmvars(StopTick(i))

(***************************************************************************)
(* Properties.                                                             *)
(***************************************************************************)
\* ENTER ends the program: the queued calls reach main(), which must stay in
\* its event loop for them, and the connections that still wait for a thread
\* are told to quit by a later tick.
EnterEndsIt == (helper = "spin") ~> (main = "done")

\* The total is printed when no session can add to it any more, and nobody who
\* has been counted is left out, as opposed to the other benchmark servers.
PrintsEveryCount == output # <<>> => output[1] = SumOver(requestCount, Ids)

\* benchmark/README.md: "Performance is measured as the number of requests
\* handled by the server", and main() prints it as "Total requests handled":
\* not more than the peers have sent.
PrintsRequestsHandled == output # <<>> => output[1] <= SumOver(sent, Ids)
=============================================================================

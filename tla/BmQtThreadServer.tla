-------------------------- MODULE BmQtThreadServer --------------------------
(***************************************************************************)
(* The benchmark's Qt server with a thread per client, in                  *)
(* src/benchmark/bm_qt_server_threads.  It is QtThreadServer with a count  *)
(* of requests, kept by each client's thread, added to an atomic total     *)
(* when the thread ends, and printed by main() between its event loop and  *)
(* the destruction of the server.                                          *)
(***************************************************************************)
EXTENDS QtThreadServer, Totals

VARIABLES
    requestCount,     \* a local variable of each client's run()
    m_totalRequests,
    output            \* what main() has printed

counts == <<requestCount, m_totalRequests, output>>
bmvars == <<vars, counts>>

BmInit ==
    /\ Init
    /\ requestCount = [i \in Ids |-> 0]
    /\ m_totalRequests = 0
    /\ output = <<>>

\* Sent or not, a request that has been handled is counted.
BmAnswering(i) ==
    /\ Answering(i)
    /\ requestCount' = IF at[i] = "work" THEN [requestCount EXCEPT ![i] = @ + 1]
                       ELSE requestCount
    /\ UNCHANGED <<m_totalRequests, output>>

\* Fault: the last thread's count replaces the total.
BmClientFinishesAssigns(i) ==
    /\ ClientFinishes(i)
    /\ m_totalRequests' = requestCount[i]
    /\ UNCHANGED <<requestCount, output>>

BmClientFinishes(i) ==
    /\ ClientFinishes(i)
    /\ m_totalRequests' = m_totalRequests + requestCount[i]
    /\ UNCHANGED <<requestCount, output>>

BmEof ==
    /\ Eof
    /\ output' = Append(output, m_totalRequests)
    /\ UNCHANGED <<requestCount, m_totalRequests>>

BmNext ==
    \/ BmEof
    \/ \E i \in Ids : BmAnswering(i) \/ BmClientFinishes(i)
    \/ /\ \/ ServerStep \/ MainStep \/ Terminated
          \/ \E i \in Ids : NewConnection(i) \/ PeerStep(i) \/ Ending(i)
       /\ UNCHANGED counts

BmSpec == BmInit /\ [][BmNext]_bmvars

BmFairSpec ==
    /\ BmSpec
    /\ WF_bmvars(ServerStep /\ UNCHANGED counts) /\ WF_bmvars(MainStep /\ UNCHANGED counts)
    /\ \A i \in Ids :
         WF_bmvars(BmAnswering(i) \/ BmClientFinishes(i) \/ (Ending(i) /\ UNCHANGED counts))

(***************************************************************************)
(* Properties.                                                             *)
(***************************************************************************)
\* The total holds the counts of the threads that have finished, each once,
\* and what main() has printed leaves out those that still ran.  A thread
\* counts the requests it has handled: those it has answered, and the last one
\* when its answer could not be sent.
TotalIsExact ==
    /\ m_totalRequests = SumOver(requestCount, {i \in Ids : at[i] = "finished"})
    /\ output # <<>> => output[1] <= m_totalRequests
    /\ \A i \in Ids :
         \/ requestCount[i] = Len(tx[i])
         \/ requestCount[i] = Len(tx[i]) + 1 /\ socket[i] = "closed"
=============================================================================

---------------------------- MODULE BmAsioServer ----------------------------
(***************************************************************************)
(* The benchmark's Asio server, src/benchmark/bm_asio_server.  It is       *)
(* AsioServer with a count of the requests each session has answered,      *)
(* added to an atomic total when the session disconnects and printed when  *)
(* main() is done, and with an accept handler that sets an option on the   *)
(* new socket, which may throw.                                            *)
(***************************************************************************)
EXTENDS AsioServer, Totals

CONSTANT OptionErrors  \* whether set_option(no_delay) fails on a reset socket

ASSUME OptionAssumption == OptionErrors \in BOOLEAN

VARIABLES
    m_requestCount,    \* per session
    m_totalRequests,
    output             \* what main() has printed

counts == <<m_requestCount, m_totalRequests, output>>
bmvars == <<vars, counts>>

BmInit ==
    /\ Init
    /\ m_requestCount = [i \in Ids |-> 0]
    /\ m_totalRequests = 0
    /\ output = <<>>

BmOnDataSent(t, i) ==
    /\ OnDataSent(t, i)
    /\ m_requestCount' = [m_requestCount EXCEPT ![i] = @ + 1]
    /\ UNCHANGED <<m_totalRequests, output>>

\* Fault: the last session's count replaces the total.
BmOnFailedAssigns(t, i) ==
    /\ OnFailed(t, i)
    /\ m_totalRequests' = m_requestCount[i]
    /\ UNCHANGED <<m_requestCount, output>>

\* checkOperation adds the session's count before m_onDisconnect erases it.
BmOnFailed(t, i) ==
    /\ OnFailed(t, i)
    /\ m_totalRequests' = m_totalRequests + m_requestCount[i]
    /\ UNCHANGED <<m_requestCount, output>>

\* set_option throws out of run() after initiateAccept has re-armed, before
\* the session has begun.
SetOptionThrows(t) ==
    /\ OptionErrors
    /\ Alive /\ at[t] = "begin"
    /\ peer[cur[t]] = "gone"
    /\ Goes(t, "loop")
    /\ UNCHANGED <<registry, session, cur, shutdown, wire, counts>>

BmJoin ==
    /\ Join
    /\ output' = Append(output, m_totalRequests)
    /\ UNCHANGED <<m_requestCount, m_totalRequests>>

BmThreadStep(t) ==
    \/ \E i \in Ids : BmOnDataSent(t, i) \/ BmOnFailed(t, i)
    \/ SetOptionThrows(t)
    \/ /\ \/ \E i \in Ids : \/ OnAcceptError(t, i) \/ OnAccept(t, i)
                            \/ OnLenReceived(t, i) \/ OnDataReceived(t, i)
                            \/ OnLenSent(t, i)
          \/ InitiateAccept(t) \/ InitiateCommunication(t)
          \/ OnRequest(t) \/ OnDisconnect(t)
          \/ Loop(t) \/ RunReturns(t)
       /\ UNCHANGED counts

BmMainStep == BmJoin \/ ((ResetGuard \/ Stop) /\ UNCHANGED counts)

BmNext ==
    \/ \E t \in Threads : BmThreadStep(t)
    \/ BmMainStep
    \/ /\ \/ \E i \in Ids : Completion(i) \/ PeerStep(i) \/ AcceptFails(i)
          \/ Construct \/ BindFails \/ Eof \/ Terminated
       /\ UNCHANGED counts

BmSpec == BmInit /\ [][BmNext]_bmvars

BmFairSpec ==
    /\ BmSpec
    /\ \A t \in Threads : WF_bmvars(BmThreadStep(t))
    /\ \A i \in Ids : WF_bmvars(Completion(i) /\ UNCHANGED counts)
    /\ WF_bmvars(BmMainStep)

(***************************************************************************)
(* Properties.                                                             *)
(***************************************************************************)
Answered      == [i \in Ids |-> Len(tx[i]) \div 2]

\* A session whose chain has ended with an error.
Ended == {i \in Ids : i < m_clientIdCounter /\ peer[i] # "absent" /\ ~Open(i)}

\* The total is what the sessions that have ended have counted: each enters
\* once, whichever thread sees it end, and those still connected not at all.
\* Nothing is counted that was not sent, and a session misses no more than the
\* response it was sending when it ended.
TotalIsExact ==
    /\ m_totalRequests = SumOver(m_requestCount, Ended)
    /\ \A i \in Ids : m_requestCount[i] \in {Answered[i] - 1, Answered[i]}
=============================================================================

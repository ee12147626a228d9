---------------------------- MODULE QtPoolServer ----------------------------
(***************************************************************************)
(* The Qt server on a thread pool, src/qt20_server.  A connection becomes  *)
(* a runnable, which keeps a pool thread for as long as the connection     *)
(* lasts; the runnables for which there is no thread wait in the pool's    *)
(* queue.  main() accepts, and at the end of input closes the listener,    *)
(* raises a flag that every session polls once a second, and waits in the  *)
(* handler for the pool to be done.                                        *)
(***************************************************************************)
EXTENDS QtSession, FiniteSets

CONSTANT PoolSize   \* setMaxThreadCount(idealThreadCount())

ASSUME PoolAssumption == PoolSize \in Nat \ {0}

VARIABLES
    queue,        \* the runnables without a thread
    main,         \* where main() is
    listening,    \* isListening()
    m_isStopping  \* the sessions are asked to end

service == <<queue, main, listening, m_isStopping>>
vars    == <<session, wire, service>>

TypeOK ==
    /\ SessionTypeOK
    /\ queue \in Seq(Ids)
    /\ main \in {"exec", "wait", "done"}
    /\ listening \in BOOLEAN /\ m_isStopping \in BOOLEAN

Init ==
    /\ SessionInit
    /\ queue = <<>> /\ main = "exec"
    /\ listening = TRUE /\ m_isStopping = FALSE

(***************************************************************************)
(* The pool.                                                               *)
(***************************************************************************)
IncomingConnection(i) ==
    /\ main = "exec" /\ listening
    /\ at[i] = "none"
    /\ Goes(i, "queued")
    /\ queue' = Append(queue, i)
    /\ peer' = [peer EXCEPT ![i] = "connected"]
    /\ UNCHANGED <<quit, socket, buf, m_dataLen, m_dataBuf, sent, net, tx,
                   main, listening, m_isStopping>>

\* A thread takes the runnable that has waited longest.
Takes(i) ==
    /\ queue # <<>> /\ i = Head(queue)
    /\ Cardinality({j \in Ids : Active(j)}) < PoolSize
    /\ queue' = Tail(queue)

\* Client::run up to loop.exec().
Run(i) ==
    /\ Takes(i)
    /\ Goes(i, "loop")
    /\ socket' = [socket EXCEPT ![i] = "open"]
    /\ UNCHANGED <<quit, buf, m_dataLen, m_dataBuf, wire, main, listening, m_isStopping>>

SetDescriptorFails(i) ==
    /\ Takes(i) /\ peer[i] = "gone"
    /\ Goes(i, "finished")
    /\ UNCHANGED <<quit, socket, buf, m_dataLen, m_dataBuf, wire,
                   main, listening, m_isStopping>>

\* Fault: the poll closes the socket and leaves the loop running.
TickClosesOnly(i) ==
    /\ m_isStopping
    /\ at[i] = "loop" /\ ~quit[i] /\ socket[i] = "open"
    /\ socket' = [socket EXCEPT ![i] = "closed"]
    /\ UNCHANGED <<at, quit, buf, m_dataLen, m_dataBuf, wire, service>>

\* The session's timer polls the flag.
Tick(i) ==
    /\ m_isStopping
    /\ at[i] = "loop" /\ ~quit[i]
    /\ CloseSocket(i)
    /\ UNCHANGED <<at, m_dataLen, m_dataBuf, wire, service>>

\* run() returns; the socket, a local variable, is destroyed.
LoopReturns(i) ==
    /\ at[i] = "loop" /\ quit[i]
    /\ Goes(i, "finished")
    /\ socket' = [socket EXCEPT ![i] = "closed"]
    /\ peer' = [peer EXCEPT ![i] = "gone"]
    /\ UNCHANGED <<quit, buf, m_dataLen, m_dataBuf, sent, net, tx, service>>

(***************************************************************************)
(* main().                                                                 *)
(***************************************************************************)
\* server.close() and disconnectClients(), in the handler of the input.
Eof ==
    /\ main = "exec" /\ main' = "wait"
    /\ listening' = FALSE
    /\ m_isStopping' = TRUE
    /\ UNCHANGED <<session, wire, queue>>

\* Fault: a runnable that has no thread yet is not waited for.
PoolIsIdle == \A i \in Ids : ~Active(i)
PoolIsDone == queue = <<>> /\ \A i \in Ids : ~Active(i)

WaitForDone ==
    /\ main = "wait" /\ main' = "done"
    /\ PoolIsDone
    /\ UNCHANGED <<session, wire, queue, listening, m_isStopping>>

(***************************************************************************)
(* The specification.                                                      *)
(***************************************************************************)
Answering(i) == (ReadyRead(i) \/ SendResponse(i) \/ SendFails(i)) /\ UNCHANGED service

Ending(i) == Tick(i) \/ (Disconnected(i) /\ UNCHANGED service)

Starting(i) == Run(i) \/ SetDescriptorFails(i)

PeerStep(i) == (PeerSends(i) \/ PeerLeaves(i)) /\ UNCHANGED service

Terminated == main = "done" /\ UNCHANGED vars

Next ==
    \/ Eof \/ WaitForDone
    \/ \E i \in Ids : \/ IncomingConnection(i) \/ PeerStep(i) \/ Starting(i)
                      \/ Answering(i) \/ Ending(i) \/ LoopReturns(i)
    \/ Terminated

Spec == Init /\ [][Next]_vars

\* A pool thread that is free takes from the queue, and the sessions' threads
\* and main() run.  The peers need not do anything.
Fairness ==
    /\ WF_vars(WaitForDone)
    /\ \A i \in Ids : /\ WF_vars(Starting(i))
                      /\ WF_vars(Answering(i) \/ Ending(i) \/ LoopReturns(i))

FairSpec == Spec /\ Fairness

(***************************************************************************)
(* Properties.                                                             *)
(***************************************************************************)

\* A runnable holds references to members of the Server: when main() returns
\* none is running and none is left in the queue to be run.
NoClientOutlivesServer ==
    main = "done" => \A i \in Ids : at[i] \in {"none", "finished"}

\* The end of input ends the program, however many connections are open or
\* waiting for a thread, and whatever their peers do.
ShutdownCompletes == (main = "wait") ~> (main = "done")

\* The thread of a connection whose peer has left goes to the next in the
\* queue: none that is taken is kept for ever.
ThreadIsReleased == \A i \in Ids : (Active(i) /\ peer[i] = "gone") ~> (at[i] = "finished")
=============================================================================

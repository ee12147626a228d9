--------------------------- MODULE QtThreadServer ---------------------------
(***************************************************************************)
(* The Qt server with a thread per client, src/qt19_server: main() in its  *)
(* event loop, the server's thread with the listener, and a QThread, the   *)
(* Client, for every connection.  The Client objects are children of the   *)
(* listener and live in the server's thread, which creates and deletes     *)
(* them; a destructor tells the client's thread to quit and waits for it.  *)
(***************************************************************************)
EXTENDS QtSession

VARIABLES
    main,       \* where main() is
    server,     \* where the server's thread is
    serverQuit, \* its event loop has been told to return
    children,   \* the Client objects that exist
    deleting    \* the one that is being destroyed

threads == <<main, server, serverQuit, children, deleting>>
vars    == <<session, wire, threads>>

ThreadsTypeOK ==
    /\ main \in {"exec", "destroy", "wait", "done"}
    /\ server \in {"start", "exec", "delete", "down", "destroy", "finished"}
    /\ serverQuit \in BOOLEAN
    /\ children \subseteq Ids /\ deleting \in Ids

TypeOK == SessionTypeOK /\ ThreadsTypeOK

Init ==
    /\ SessionInit
    /\ main = "exec" /\ server = "start" /\ serverQuit = FALSE
    /\ children = {} /\ deleting = 0

(***************************************************************************)
(* The server's thread.                                                    *)
(***************************************************************************)
\* QThread::exec returns at once when quit() came before it.
Run ==
    /\ server = "start"
    /\ server' = IF serverQuit THEN "down" ELSE "exec"
    /\ UNCHANGED <<session, wire, main, serverQuit, children, deleting>>

NewConnection(i) ==
    /\ server = "exec"
    /\ at[i] = "none"
    /\ children' = children \cup {i}
    /\ socket' = [socket EXCEPT ![i] = "open"]
    /\ Goes(i, "started")
    /\ peer' = [peer EXCEPT ![i] = "connected"]
    /\ UNCHANGED <<quit, buf, m_dataLen, m_dataBuf, sent, net, tx,
                   main, server, serverQuit, deleting>>

ExecReturns ==
    /\ server = "exec" /\ serverQuit
    /\ server' = "down"
    /\ UNCHANGED <<session, wire, main, serverQuit, children, deleting>>

\* Fault: the destructor waits for a thread that nobody tells to quit.
DestructorWithoutQuit(i, place) ==
    /\ deleting' = i
    /\ server' = place
    /\ quit' = quit

\* ~Client: quit(), then wait().
Destructor(i, place) ==
    /\ deleting' = i
    /\ server' = place
    /\ quit' = [quit EXCEPT ![i] = TRUE]

\* The signal of the client's thread arrives in the server's.
DeleteLater(i) ==
    /\ server = "exec"
    /\ i \in children /\ socket[i] = "closed"
    /\ Destructor(i, "delete")
    /\ UNCHANGED <<at, socket, buf, m_dataLen, m_dataBuf, wire, main, serverQuit, children>>

\* The listener goes out of scope and with it its children, one by one.
DestroyChild(i) ==
    /\ server = "down" /\ i \in children
    /\ Destructor(i, "destroy")
    /\ UNCHANGED <<at, socket, buf, m_dataLen, m_dataBuf, wire, main, serverQuit, children>>

\* Fault: the destructor does not wait.
DeletedAtOnce ==
    /\ server \in {"delete", "destroy"}
    /\ children' = children \ {deleting}
    /\ server' = IF server = "delete" THEN "exec" ELSE "down"
    /\ UNCHANGED <<session, wire, main, serverQuit, deleting>>

Deleted ==
    /\ server \in {"delete", "destroy"}
    /\ at[deleting] = "finished"
    /\ children' = children \ {deleting}
    /\ server' = IF server = "delete" THEN "exec" ELSE "down"
    /\ UNCHANGED <<session, wire, main, serverQuit, deleting>>

ServerFinishes ==
    /\ server = "down" /\ children = {}
    /\ server' = "finished"
    /\ UNCHANGED <<session, wire, main, serverQuit, children, deleting>>

(***************************************************************************)
(* The thread of a client.                                                 *)
(***************************************************************************)
RunClient(i) ==
    /\ at[i] = "started"
    /\ Goes(i, IF quit[i] THEN "ending" ELSE "loop")
    /\ UNCHANGED <<quit, socket, buf, m_dataLen, m_dataBuf, wire, threads>>

LoopReturns(i) ==
    /\ at[i] = "loop" /\ quit[i]
    /\ Goes(i, "ending")
    /\ UNCHANGED <<quit, socket, buf, m_dataLen, m_dataBuf, wire, threads>>

\* m_socket->deleteLater() is carried out before the thread has finished.
ClientFinishes(i) ==
    /\ at[i] = "ending"
    /\ Goes(i, "finished")
    /\ socket' = [socket EXCEPT ![i] = "closed"]
    /\ peer' = [peer EXCEPT ![i] = "gone"]
    /\ UNCHANGED <<quit, buf, m_dataLen, m_dataBuf, sent, net, tx, threads>>

(***************************************************************************)
(* main().                                                                 *)
(***************************************************************************)
Eof ==
    /\ main = "exec" /\ main' = "destroy"
    /\ UNCHANGED <<session, wire, server, serverQuit, children, deleting>>

\* ~Server: quit(), then wait().
DestroyServer ==
    /\ main = "destroy" /\ main' = "wait"
    /\ serverQuit' = TRUE
    /\ UNCHANGED <<session, wire, server, children, deleting>>

Wait ==
    /\ main = "wait" /\ server = "finished" /\ main' = "done"
    /\ UNCHANGED <<session, wire, server, serverQuit, children, deleting>>

(***************************************************************************)
(* The specification.                                                      *)
(***************************************************************************)
ServerStep ==
    \/ Run \/ ExecReturns \/ Deleted \/ ServerFinishes
    \/ \E i \in Ids : DeleteLater(i) \/ DestroyChild(i)

Answering(i) == (ReadyRead(i) \/ SendResponse(i) \/ SendFails(i)) /\ UNCHANGED threads

Ending(i) == RunClient(i) \/ LoopReturns(i) \/ (Disconnected(i) /\ UNCHANGED threads)

MainStep == DestroyServer \/ Wait

PeerStep(i) == (PeerSends(i) \/ PeerLeaves(i)) /\ UNCHANGED threads

Terminated == main = "done" /\ UNCHANGED vars

Next ==
    \/ ServerStep \/ MainStep \/ Eof
    \/ \E i \in Ids : \/ NewConnection(i) \/ PeerStep(i)
                      \/ Answering(i) \/ Ending(i) \/ ClientFinishes(i)
    \/ Terminated

Spec == Init /\ [][Next]_vars

\* The scheduler runs every thread that can go on.
Fairness ==
    /\ WF_vars(ServerStep) /\ WF_vars(MainStep)
    /\ \A i \in Ids : WF_vars(Answering(i) \/ Ending(i) \/ ClientFinishes(i))

FairSpec == Spec /\ Fairness

(***************************************************************************)
(* Properties.                                                             *)
(***************************************************************************)

\* The thread of a Client uses its members to the end: no Client is deleted
\* before its thread has finished, and main() leaves no thread behind.
NoThreadOutlivesItsClient ==
    /\ \A i \in Ids : Active(i) => i \in children
    /\ main = "done" => \A i \in Ids : ~Active(i)

\* The end of input ends the program, whichever of the threads are starting,
\* in a handler, or being deleted: none of the two kinds of destructor waits
\* for ever.
ShutdownCompletes == (main = "destroy") ~> (main = "done")

\* The Client of a peer that has left is deleted in the end.
LeaverIsDeleted == \A i \in Ids : (peer[i] = "gone") ~> (i \notin children)
=============================================================================

# asio-recipes in TLA+

asio-recipes is a collection of network programs written with Boost.Asio and with Qt. The early ones
(`asio1` to `asio10`) are a few calls of the library; those in the middle (`asio11` to `asio16`) exchange
one message, or, `asio14`, many between a server and its clients. The late ones (`src/asio18_*`,
`src/qt19_*`, `src/qt20_server`) and their benchmark twins (`benchmark/bm_*`) are complete servers and
clients: they speak one protocol, answer many peers at once, time out, reconnect and shut down. This
directory specifies them, checks the specifications with TLC and proves what matters most with TLAPS.

The protocol is nearly the same everywhere. A message is a frame: an 8-byte length, then a serialised
protobuf message of that length. A request carries a `job_id` and a `workload` in milliseconds; a server
sleeps for the workload and sends a response with the same `job_id`.

## 1. The system

| part | code | state | operations | interacts with |
|---|---|---|---|---|
| Asio server: `Server` | `asio18_server/server.cpp` | `m_clients`, `m_clientIdCounter`, the acceptor | `initiateAccept` and its handler, `onDisconnect` | sessions (calls `initiateCommunication`; is called by `m_onDisconnect`) |
| Asio server: `Client` (a session) | `asio18_server/client.cpp` | `m_dataLen`, `m_dataBuf`, the socket, one outstanding operation | five handlers, `checkOperation` | the io_context; `onRequest` of main.cpp |
| Asio server: `main` | `asio18_server/main.cpp` | the pool's threads, the work guard, `isRunning` | the loop around `run()`, the end of input, join | everything, through the io_context |
| Asio client | `asio18_client/client.cpp`, `main.cpp` | socket, buffers, `m_timeoutTimer`, `is_disconnected` | the exchange's chain, `checkTimeout`, input, reconnection, shutdown | two threads share the `Client` |
| benchmark Asio server and client | `bm_asio_server`, `bm_asio_client` | request counts and their atomic total; rounds that start each other | as above | |
| their ancestors | `asio14_server`, `asio14_client` | one io thread, the sessions, guard and flag of the client | accept, the handlers, the throw on any error but the peer's leaving, Ctrl-C | each other, over TCP |
| Qt server, thread per client | `qt19_server` | a `QThread` for the listener and one for each client, `m_dataLen`, `m_dataBuf` | `newConnection`, `receiveRequest`, `sendResponse`, `deleteLater`, the destructors | three kinds of thread, signals between them |
| Qt server, thread pool | `qt20_server` | the pool's queue, `m_isStopping` | `incomingConnection`, `run`, the polling timer, `waitForDone` | runnables refer to the `Server` |
| their benchmark twins | `bm_qt_server_threads`, `bm_qt_server_pool` | counts and totals; a helper thread and `m_stopTimer` | the second has a shutdown of its own | |
| Qt client and its twin | `qt19_client`, `bm_qt_client` | socket, one timer, one `m_dataLen` for both directions | input, `sendRequest`, `receiveResponse`, `onTimeout` | one event loop |
| exchanges | `asio6` to `asio8`, `asio11_*`, `asio12_*`, `asio13_*`, `asio15_ssl`, `asio16` | a socket; in `asio13` a background thread, a guard and a timer | listen or connect, a handshake, one write or read | whichever program is at the other end of the port |
| the rest | `asio1` to `asio5`, `asio9`, `asio10`, `asio17` | | | see section 8 |

What is hard in them:

* **Concurrency without locks.** The Asio server runs one io_context on a pool of threads. There is no
  strand and no mutex: a session is protected only by the fact that it has one asynchronous operation at
  a time, and the session map is not protected at all.
* **Ownership by convention.** Completion handlers hold a bare `this`; who erases a session must be sure
  that nothing else will run for it. Qt's runnables hold references to the `Server`.
* **Framing across events.** Data arrive in any pieces; the Qt programs keep the state of the framing in
  `m_dataLen` from one `readyRead` to the next, and use the same member to send.
* **Timeouts that race answers**, and a single timer for what may be several exchanges.
* **Errors that are thrown** out of `run()` on a thread that does not call it again.
* **Shutdown** with handlers running, threads not yet started, connections queued, and destructors that
  wait for other threads.
* **Totals** that are put together from several threads and printed at a particular moment.

What makes each part correct, in a sentence: a session of any server takes its requests one at a time,
in order, and answers each before it takes the next (`RequestService`); the map of the Asio servers holds
exactly the sessions for which something still runs; no thread outlives what it refers to; every wait of
a client is timed (where there is a timer) and every exchange ends; the end of input ends every program;
a total counts what each session has sent, once; a receiver gets a whole frame or fails. `PROJECT.json`
lists each hazard with its line and the properties that cover it.

## 2. Modules

| module | models | notes |
|---|---|---|
| `RequestService` | what a server promises on a connection | the abstract specification, implemented by `AsioServer` and by both Qt servers (`ServesRequests`) |
| `AsioServer` | `asio18_server`, whole | `AsioServerProofs` |
| `BmAsioServer` | `bm_asio_server` | `AsioServer` with counts, total, `set_option`; `MCBmAsioServer` adds TLC's symmetry; proved about in `AsioServerProofs` |
| `AsioClient` | `asio18_client`, `bm_asio_client` | user thread, background thread, timer, the server's end; the variable `auto` says which of the two runs; `AsioClientProofs` |
| `Asio14` | `asio14_server` and `asio14_client`, composed | one module, since both ends run the same chain; `Asio14Proofs` |
| `AsioExchange` | the fifteen programs of one exchange | any of them may meet any other; `MCAsioExchange` restricts the second client; `AsioExchangeProofs` |
| `QtFraming` | the framing of the Qt programs | shared by the sessions and the client |
| `QtSession` | a session of either Qt server | its event loop, its framing, its peer; `QtSessionProofs` |
| `QtThreadServer`, `BmQtThreadServer` | `qt19_server`, `bm_qt_server_threads` | compose the sessions with the threads that create and delete them; `QtThreadServerProofs` |
| `QtPoolServer`, `BmQtPoolServer` | `qt20_server`, `bm_qt_server_pool` | compose the sessions with a queue and a pool; `QtPoolServerProofs` |
| `QtClient` | `qt19_client`, `bm_qt_client` | the variable `auto` says which of the two runs; `QtClientProofs` |
| `Totals` | | sums over sessions, for the three `Bm` modules |

Definitions marked *Fault* are broken versions of the definition that follows them. Nothing uses them:
each property is shown to fail when a fault takes its definition's place.

### AsioServer

`op[i]` is the one asynchronous operation of session *i* that is outstanding and `res[i]` its completion
(error code and `bytes_transferred`). The actions come in four groups.

* *Completions* are the kernel's and the peers' part: a connection, a whole or cut transfer, an error.
* *Handlers* carry the source's names. A pool thread (`at[t]`, `cur[t]`) that is inside `run()` takes a
  completed operation and runs its handler to its end, which is the next `async_` call. A handler that
  touches its own session only is one step. A handler that modifies the map is two (it enters the map,
  then the map changes), and `raced` records that a second thread was inside at the same time: from then
  on the effect of an insertion or erasure may be lost, or the process may die (`MapBecomes`,
  `MapSurvives`). The accept handler has a further step between `initiateAccept` and
  `initiateCommunication`, and the request handler one for its sleep.
* The *loop* around `run()` in each thread: an exception (a failed accept) leads back to the loop;
  `run()` returns when the context is stopped or has no more work.
* `main()`: pool first, then the `Server` (`Construct`, or `BindFails`), end of input, `guard.reset()`,
  `stop()`, join.

Lengths are numbers, because `async_read` into a `streambuf` of bounded size may end short and without
an error; contents are the number of the job.

### AsioClient

The user's thread starts an exchange with a write; the background thread runs all handlers, in the order
in which they became ready (`queue`). That order is what a late timeout depends on: `cancel()` does not
recall a handler that is queued. In the benchmark's program the handler of a response starts the next
round. The server answers in whole, in part, or not at all. The model assumes that the user types only
when no exchange is under way: typing earlier is a data race on `m_dataBuf` and `m_dataLen`
(`main.cpp:90`), and what its outcomes are the model does not say, which is why the two clients are listed
as partly modelled.

### Asio14

An end of a connection is a pair of a side and a client; `op`, `res`, `m_dataBuf` and `wire` are functions
of it, and `Continues` is the chain that both `client.cpp` share. The server's one thread runs a handler at
a time and sleeps in `OnRequest`, while other clients connect, leave and send. In both programs `eof` and
`connection_reset` reach the disconnect handler; any other error, such as the `broken_pipe` of a write to a
client that has gone, is thrown out of `run()` (`io = "thrown"`, `bg` false). Clients in `Rude` have users
who type ahead (`TypeAhead`: two threads in one buffer, after which the client may send junk) or press
Ctrl-C; what is on its way when a process dies is cut off anywhere (`Cut`).

### AsioExchange

A program is the sequence of the library calls it makes, with a few attributes: the port, whether its
reads and writes run on a background thread (`asio13`), and how a failure ends it. `pc` counts the calls;
`Read`, `Write`, `Connect`, `Accept` and the failures of each are the actions. What is written is a
sequence of units of four bytes, so that a program that reads a length from one that does not send any
reads something, as it does over a real port. TLS (`asio15_ssl`) is the order of the flights of its
handshake; `asio16`'s frame is gathered from two arrays and scattered over four. `asio13`'s background
thread, work guard and the timer that resets it are the actions from `ArmTimer` to `Join`. Programs of the
two ports cannot meet.

### The Qt servers

A frame is two cells, a length and a body, and data arrive in chunks of whole cells, each with one
`readyRead`. `QtSession` is what both servers do with them. `QtThreadServer` adds the three kinds of
thread: `NewConnection`, `DeleteLater` and the destruction of the listener's children happen in the
server's thread, and `Destructor`/`Deleted` are the two halves of `~Client`, `quit()` and `wait()`.
A thread that is told to quit before it enters its event loop leaves it at once (`Run`, `RunClient`).
`QtPoolServer` adds the queue: a connection takes a pool thread (`Run`) and keeps it until `LoopReturns`.
In `BmQtPoolServer` `Enter`, `DisconnectClients` and `BmWaitForDone` are the helper thread's, `Close`,
`StartTimer`, `StopTick` and `PrintTotal` main()'s.

### QtClient

One event loop, so that every signal is one step; the handlers of `responseReceived` run inside
`receiveResponse`. `pending` and `overlapped` are history: how many requests of this connection await a
response, and whether one was sent while another was waiting. What the code guarantees, it guarantees as
long as they do not overlap (section 6).

## 3. Runs

| run | bounds | shows |
|---|---|---|
| `server_connection` | `AsioServer`; 2 threads, 1 connection, 2 pipelined requests of lengths below, at and above the buffer's capacity, accept errors | `HandlerSeesOneRequest`, `ResponsesInOrder`, the refinement of `RequestService`; what the map keeps; a request is answered, the shutdown ends |
| `bm_server` | `BmAsioServer`; 2 threads, 2 connections and the next accept, 2 requests each, `set_option` may throw | implicit strand, accept chain, map against ownership, and the total against what was sent |
| `bm_server_race` | 2 threads, 2 connections | *violation*: an entry stays in the map |
| `client` | either client, 3 requests, torn transfers | no wait without a timeout, each response is its request's, what an exchange leaves over reaches the next one at most, every exchange ends, the program exits although answers go on starting rounds |
| `client_late_timeout` | 3 rounds, whole transfers | *violation*: a timeout closes the next round's connection |
| `asio14` | a server and 2 clients, 2 requests each, one client rude, accept errors | each answer is its client's, the map is exact, what silences the server, and what the server and the clients still do when it is not silent |
| `exchange` | one listener, 2 clients, any programs, 1 process interrupted | a receiver gets a whole frame or fails, the timer of `asio13` gives up no exchange, every connected program ends |
| `qt_threads` | 2 clients, 2 requests each, one peer waits for answers and one does not | destructors, deletions, the refinement of `RequestService`, the total, answers, shutdown |
| `qt_pool` | 2 connections for 1 thread, 3 requests each, one peer waits for answers and one does not | the refinement of `RequestService`, threads are released, the program ends, nothing outlives the `Server` |
| `bm_qt_pool` | 3 connections for 2 threads, 1 request each | ENTER ends the program, nothing outlives the `Server`, the total has every count |
| `bm_qt_pool_total` | 1 connection, 1 request | *violation*: one request is printed as two |
| `qt_client` | 6 requests of either program | framing and ownership of responses, and the end of every exchange, while requests do not overlap |

Why these bounds are enough to be of use. Every race of the Asio server needs two threads and two
sessions; a third session would meet the first two in the same ways, and the proofs of section 5 cover
any number. The chain of a session repeats after one request, so that two requests show what the first
leaves behind for the second. In the pool server the interesting connection is the one that has no
thread: three for two, or two for one; in what order a session serves its requests does not depend on
how many threads there are, but needs several requests, the third being the one that brings the second
out of the buffer. In the clients an exchange can disturb the next and the one after. On the port of the
exchanges a second client matters only as one that stands in the backlog, or finds the listener gone; it
runs one program that reads in `main()` and one that reads on its other thread.

Bounds are guards on what the peers and the user do (`MaxId`, `MaxReq`, `MaxJobs`, `MaxJunk`, `MaxKills`),
never on what the program does. `MaxId` of `AsioServer` is a connection that never comes: its
accept stays outstanding. `QtClient.cfg`, `Asio14.cfg` and `Exchange.cfg` do not look for deadlocks, since
their programs just exit, and since two programs that both read first wait for ever; the others have a
`Terminated` step for the end.

### Fairness

* Threads are scheduled: each pool thread, `main()`, each Qt thread (weak fairness of its steps together).
* The kernel completes what can complete, and a timer that runs expires.
* Qt's event loops deliver what is due. In `QtClient` the fairness is of all signals together, and in the
  servers of everything a session's thread does: no signal is favoured.
* In `Asio14` each thread runs while it can, and the kernel as a whole does; which of the handlers that are
  ready comes first is left open. In `AsioExchange` each process goes on while it can.
* A free pool thread takes the first runnable of the queue.
* The peers, the server as seen from a client, and the user are under no obligation. A peer may stop
  reading and sending for ever, a server may never answer, the end of input may never come.

## 4. Where code and text disagree

* `bm_server_race`: `benchmark/README.md:79` says that a client's entry is removed from the session map
  when it disconnects. Two pool threads may erase (or erase and insert) at the same time.
* `client_late_timeout`: `benchmark/README.md:5` asks for reliable timeouts. The answer and the timeout
  may be ready together; the answer's handler starts the next round and the timeout's, which `cancel()`
  does not recall, closes its connection.
* `bm_qt_pool_total`: `benchmark/README.md:289` and `main.cpp:80` speak of requests handled.
  `bm_qt_server_pool/client.cpp:39` counts `readyRead` signals, and a request whose length and body
  arrive apart brings two.

## 5. What is proved

The theorems hold for every value of the constants that satisfies the assumption of the module:
any number of threads, connections, clients, requests and rounds, any lengths, any mixture of programs.
The assumptions say that bounds are natural numbers and, in `AsioServer`, that a response fits the buffer.

| module | theorems | inductive invariant |
|---|---|---|
| `AsioServerProofs`, about `AsioServer` | `TypeCorrect`, `ImplicitStrand`, `AcceptChainHolds`, `OwnedTheorem`, `StoredTheorem` | `TypeOK`, `AcceptChain`, `OneChainPerSession`, `OwnedIsStored`, `StoredIsOwned` together |
| | `HandlerTheorem`, `ResponsesTheorem`, `ServiceRefinement` | the above and `Chains` |
| the same, about `BmAsioServer` | `TotalTheorem`, `BmRegistryTheorem`, `BmServiceTheorem` | the above without `StoredIsOwned`, and `Counts` |
| `AsioClientProofs` | `TypeCorrect`, `TimedWaitTheorem` | `TypeOK`, `TimedWait`, `IdleConnects`, `RequestInBuffer`, `RoomToType` |
| | `ResponseTheorem` | the above and `Conversation` |
| | `LeftoversTheorem` | inductive as it stands |
| `Asio14Proofs` | `MapTheorem`, `BrokenPipeTheorem` | `StateType`, `Exact`, `Thrown` |
| | `AnswerTheorem` | the above, `ContentType` and `Pairs` |
| `AsioExchangeProofs` | `NothingAbandonedTheorem` | `ProcessType`, `BgLeavesLast`, `OnlyBgsJoined`, `NothingAbandoned` |
| | `FrameTheorem` | the above, `StreamType`, `Pairing`, `Streams` and `Receipts` |
| `QtThreadServerProofs` | `TypeCorrect`, `ThreadsTheorem`, `RefinementTheorem` | `SessionInv` of `QtSessionProofs`, `ThreadsTypeOK`, `ThreadsInv` |
| the same, about `BmQtThreadServer` | `BmRefinement` (of `QtThreadServer`), `TotalTheorem` | the above and the counts |
| `QtPoolServerProofs` | `TypeCorrect`, `PoolTheorem`, `RefinementTheorem` | `SessionInv`, `TypeOK`, `QueueInv` |
| the same, about `BmQtPoolServer` | `BmPoolTheorem`, `TotalTheorem`, `BmRefinementTheorem` | the above, what the helper thread waits for, and the counts |
| `QtClientProofs` | `InSyncTheorem`, `ResponseTheorem` | `StateType`, `Idle`, `Exchange` |

Why the invariants are what they are:

* **The registry of the Asio server.** No part is inductive alone. The counter keeps its type only because
  of the accept chain (an id is taken when the previous accept has succeeded); the accept chain needs the
  implicit strand (the thread that re-arms it must be the only one in its session); the strand needs the
  accept chain (the id whose accept is started must have no handler yet); and the two halves of the
  registry need both, to know that the session that is erased is not owned by another thread and that the
  one that is inserted is new.
* **The chain of its sessions.** `Chain(i)` relates the operation that is outstanding, its result and the
  handler that runs to the cells of the connection: they tell how many of the peer's cells have been taken
  (`Taken`) and whether half of a response is out (`HalfSent`), and the cells that are still on their way
  stand at known positions (`JobsFrom`). From that follow what the handler sees, what the peer reads, and
  that every step is one of `RequestService` or a stutter. Half of the lemmas say that a step of one
  session leaves the others alone (`OthersKept`), and half that it moves its own as it should.
* **The sessions of the Qt servers.** Likewise: the cells in the buffer and on the wire stand at known
  positions, and `m_dataLen` tells whether the next one is a length or a body. `QtSessionProofs` holds what
  the two servers share. `ThreadsInv` adds that a running thread's `Client` is a child of the listener, and
  that the server's thread ends with none; `QueueInv` that the queue has each waiting connection once.
* **The Asio client.** `EveryWaitIsTimed` must also be known while the handler of a read or of the timer is
  queued (`TimedWait`), and it survives a reconnection only because `main()` connects when nothing is
  awaited (`IdleConnects`).
  That a response is its request's (`Conversation`) relates the operation that is outstanding, the buffer
  and what is still to come on the connection; an exchange that ends on an open socket leaves nothing to
  come, so that the next one starts clean.
* **Asio14.** The thread sleeps for a session only between its read and its write (`Exact`), and whatever
  was thrown came from a write to a client that had left, and stays so (`Thrown`). The four cells of an
  exchange, two of a request and two of its answer, are at any moment split among the client's buffer, the
  wires and the session's buffer in a way that the two outstanding operations tell (`Pairs`); a rude client
  gives up its part of it.
* **The Qt client.** While requests do not overlap there is one response on its way, of which `m_dataLen`
  tells how much has been taken (`Exchange`); a connection that has ended leaves nothing behind (`Idle`).
* **The totals.** A session enters the sum when it ends and its count does not change afterwards; until
  then the count is what it has sent, or short of it by the response that it was sending (`Counts`). That
  the sum over a set with one more member is the sum and that member's count is itself proved, by
  induction over the finite subsets of the sessions along the library's well-founded ordering.
  `StoredIsOwned` does not hold of `bm_asio_server`, where `set_option` may throw (section 6), and the
  session that dies there has counted nothing. In the pool server nothing is queued once the listener is
  closed, so that the helper thread's pool stays done until `main()` prints.
* **asio13.** The background thread is the last to leave: by its exception, by a failure, or with nothing
  outstanding, which the reset of the guard alone does not bring about.
* **The frames of the exchanges.** What stands at a position of a stream is known from the program that
  writes it (`Unit`), and how much has been written from its `pc` (`Wrote`). What a process has read and
  what is still out to it make up the beginning of what its peer has written, unless it has not connected
  yet (`Streams`); two peers are a server and a client, each the other's (`Pairing`). The `pc` of a receiver
  tells how many units it has read, and a receiver that goes on past the length has read it from a program
  that sends a frame of that length (`Receipts`): which of the fifteen those are is a table of lemmas.

With these, every safety invariant and every refinement that the passing runs check is proved. Model-checked
only are the liveness properties: fairness and ENABLED are beyond the prover.

## 6. Known limits of the programs, visible in the models

These are plain consequences of single lines, which no document of the repository denies; the models have
the steps and no property restates them.

* A failed accept throws before `initiateAccept`: the server never accepts again (`OnAcceptError`).
* `set_option` may throw between the re-arming and the start of a session: its entry stays in the map
  with nothing to run for it (`SetOptionThrows`).
* `hardware_concurrency()` may be 0: then the Asio server listens and nothing is ever served. A port in use
  ends it with joinable threads (`BindFails`).
* The totals of `bm_asio_server` and `bm_qt_server_threads` leave out the sessions that are still
  connected when they are printed (`TotalIsExact` says what they hold).
* A failed exchange of the Asio client reports, but leaves the socket open, so that `isConnected()` keeps
  the user from reconnecting; a failed reconnection returns past a joinable thread (`ReconnectFails`).
* What an aborted transfer left in the Asio client's buffer is sent in front of the next request.
* In `asio14_server` a client that leaves while its answer is being written ends the service for all others
  (`SilencedByBrokenPipe`: no other client does), and an accept that fails ends it too (`OnAcceptError`).
  The client resets its guard on the disconnection and again at its end, to no effect.
* `asio13`'s programs exit with 0 although their exchange has failed on the other thread.
* A session of the Qt servers takes one request per `readyRead`: of two that arrive together, the second
  waits for more data. `RequestAnswered` of `QtSession` therefore promises an answer while data are on
  their way: to every request of a peer that awaits its answers, and otherwise one per arrival.
* A request typed into the Qt client while another is outstanding stops being timed with the first
  response, and, if it falls between the length and the body of a response, breaks the framing of the
  connection. The properties of `QtClient` say what holds otherwise.

## 7. Plan

Done: the Asio server with its proofs and its refinement, the Asio clients, both `asio14` programs composed,
the exchanges, the Qt servers with theirs, the Qt clients, the twins of all.

Next, in this order:

1. A composition of the asio18 client with a session of its server, in the place of the two stand-ins.
2. The user who types during an exchange of the asio18 client: what the server may receive from it, as in
   `Asio14`, and which of the client's properties survive.
3. For each composition of 1 and 2, the invariants of its parts carried over, and a proof of what a client
   may rely on: an abstract service seen from its side of the connection, as `RequestService` is from the
   server's.

## 8. Not modelled

* `asio17`: one thread, three timers and one `cancel_one()`; the order of its four handlers is decided
  inside the library's timer queue, and the program keeps no state of its own.
* `asio1` to `asio5`, `asio9_*` and `asio10`: single calls of the API (an endpoint, a socket, a name, a
  buffer), with no state and nobody to interact with. The build files.
* Inside the modelled parts: logging, the protobuf encoding (a message is the number of its job), the
  sleep's duration, the TCP stack below the frames' pieces, the cryptography of TLS. A Qt server that fails
  to listen, which the code ignores, would have no connections. Junk that a raced `asio14` client sends is
  taken to be less than the megabyte of the server's buffer.

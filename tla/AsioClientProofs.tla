-------------------------- MODULE AsioClientProofs --------------------------
(***************************************************************************)
(* Proofs about AsioClient, for any number of rounds: type correctness,    *)
(* that every wait is timed, that a response belongs to its request, and   *)
(* that leftovers are those of a failed exchange.                          *)
(*                                                                         *)
(* A timed wait survives the queue: a timeout that has expired stays in it *)
(* until its own turn, and closes the socket then; and main() opens a      *)
(* socket only when nothing is awaited.  A response is the request's own   *)
(* because no exchange ends with anything still to come on an open socket. *)
(***************************************************************************)
EXTENDS AsioClient, SequenceTheorems, TLAPS

Handlers == {"op", "timeout"}
Has(q, h) == \E k \in 1 .. Len(q) : q[k] = h
Pending(h) == Has(queue, h)

\* Stronger than EveryWaitIsTimed: also while the handler of the read is queued.
TimedWait ==
    op \in {"readLen", "readData"} /\ socket = "open" => armed \/ Pending("timeout")

\* main() connects when no exchange is under way.
IdleConnects == ui \in {"start", "reconnect"} => op = "none"

\* A request that is not yet written is in the buffer.
RequestInBuffer ==
    /\ op = "writeLen" => m_dataBuf # <<>>
    /\ op = "writeData" /\ ~Pending("op") => m_dataBuf # <<>>

\* The bound is tested when the user types.
RoomToType == ui \in {"send", "reconnect"} => typed < MaxJobs

IInv == TypeOK /\ TimedWait /\ IdleConnects /\ RequestInBuffer /\ RoomToType

(***************************************************************************)
(* The queue.                                                              *)
(***************************************************************************)
\* A handler that becomes ready joins those that are.
LEMMA QueueAppend ==
    ASSUME NEW q \in Seq(Handlers), NEW h \in Handlers
    PROVE  /\ Append(q, h) \in Seq(Handlers)
           /\ Has(Append(q, h), h)
           /\ \A x : Has(q, x) => Has(Append(q, h), x)
<1>1. /\ Append(q, h) \in Seq(Handlers) /\ Len(Append(q, h)) = Len(q) + 1 /\ Len(q) \in Nat
      /\ \A k \in 1 .. Len(q) : Append(q, h)[k] = q[k]
      /\ Append(q, h)[Len(q) + 1] = h
  BY AppendProperties, LenProperties
<1>2. Has(Append(q, h), h)
  <2>1. Len(q) + 1 \in 1 .. Len(Append(q, h))
    BY <1>1
  <2> QED BY <1>1, <2>1 DEF Has
<1>3. ASSUME NEW x, Has(q, x) PROVE Has(Append(q, h), x)
  <2>1. PICK k \in 1 .. Len(q) : q[k] = x
    BY <1>3 DEF Has
  <2>2. k \in 1 .. Len(Append(q, h)) /\ Append(q, h)[k] = x
    BY <1>1, <2>1
  <2> QED BY <2>2 DEF Has
<1> QED BY <1>1, <1>2, <1>3

\* The turn of one handler leaves the others in the queue.
LEMMA QueueTail ==
    ASSUME NEW q \in Seq(Handlers), q # <<>>
    PROVE  /\ Tail(q) \in Seq(Handlers)
           /\ \A x : x # Head(q) /\ Has(q, x) => Has(Tail(q), x)
<1>1. /\ Tail(q) \in Seq(Handlers) /\ Len(Tail(q)) = Len(q) - 1
      /\ \A k \in 1 .. Len(Tail(q)) : Tail(q)[k] = q[k + 1]
      /\ Len(q) \in Nat /\ Head(q) = q[1]
  BY HeadTailProperties, LenProperties
<1>2. ASSUME NEW x, x # Head(q), Has(q, x) PROVE Has(Tail(q), x)
  <2>1. PICK k \in 1 .. Len(q) : q[k] = x
    BY <1>2 DEF Has
  <2>2. k # 1
    BY <1>1, <1>2, <2>1
  <2>3. k - 1 \in 1 .. Len(Tail(q)) /\ Tail(q)[k - 1] = q[(k - 1) + 1]
    BY <1>1, <2>1, <2>2
  <2>4. Tail(q)[k - 1] = x
    BY <2>1, <2>3
  <2> QED BY <2>3, <2>4 DEF Has
<1> QED BY <1>1, <1>2

\* A completion makes its handler ready and forgets no other.
LEMMA CompletesStep ==
    ASSUME TypeOK, NEW ec \in BOOLEAN, NEW n \in Nat, Completes(ec, n)
    PROVE  /\ res' \in Results /\ queue' \in Seq(Handlers)
           /\ Pending("op")' /\ (Pending("timeout") => Pending("timeout")')
<1>1. res' \in Results
  BY DEF Completes, Results
<1>2. queue \in Seq(Handlers) /\ queue' = Append(queue, "op") /\ "op" \in Handlers
  BY DEF TypeOK, Completes, Handlers
<1>3. Has(queue', "op") /\ queue' \in Seq(Handlers) /\ \A x : Has(queue, x) => Has(queue', x)
  BY <1>2, QueueAppend
<1> QED BY <1>1, <1>3 DEF Pending

\* The handler of an operation leaves the queue to the timeouts behind it.
LEMMA StartsStep ==
    ASSUME TypeOK, Turn("op"), NEW kind \in Ops, Starts(kind)
    PROVE  /\ op' \in Ops /\ res' \in Results /\ queue' \in Seq(Handlers)
           /\ Pending("timeout") => Pending("timeout")'
<1>1. op' \in Ops /\ res' \in Results
  BY DEF Starts, NoResult, Results
<1>2. queue \in Seq(Handlers) /\ queue' = Tail(queue) /\ queue # <<>> /\ Head(queue) = "op"
  BY DEF TypeOK, Handlers, Turn, Starts
<1>3. queue' \in Seq(Handlers) /\ (Has(queue, "timeout") => Has(queue', "timeout"))
  BY <1>2, QueueTail
<1> QED BY <1>1, <1>3 DEF Pending

(***************************************************************************)
(* The threads.                                                            *)
(***************************************************************************)
\* The program starts with nothing under way.
LEMMA InitIInv == Init => IInv
<1> SUFFICES ASSUME Init PROVE IInv
  OBVIOUS
<1>1. TypeOK
  <2>1. <<>> \in Seq(Messages) /\ <<>> \in Seq(Cells) /\ <<>> \in Seq(Handlers)
    BY EmptySeq
  <2>2. NoResult \in Results
    BY DEF Results, NoResult
  <2>3. 0 \in 0 .. MaxJobs
    BY BoundsAssumption
  <2> QED BY <2>1, <2>2, <2>3 DEF Init, TypeOK, Ops, Handlers
<1> QED BY <1>1 DEF Init, IInv, TimedWait, IdleConnects, RequestInBuffer, RoomToType

\* main(): it opens sockets and starts exchanges, and awaits neither.
LEMMA UserThread ==
    ASSUME IInv, ReadLoad \/ Eof \/ UserStep
    PROVE  IInv'
<1> USE DEF Handlers
<1>1. CASE ConnectFirst \/ Reconnect
  <2>1. /\ op = "none" /\ UNCHANGED <<op, res, m_dataLen, m_dataBuf, armed, queue, failed>>
        /\ ui' \in {"first", "input", "send"} /\ bg' \in {"loop", bg}
        /\ ui' = "send" => ui = "reconnect"
    BY <1>1 DEF IInv, IdleConnects, ConnectFirst, Reconnect, chain
  <2>2. UNCHANGED <<auto, typed, id, is_disconnected, guard>>
    BY <1>1 DEF ConnectFirst, Reconnect
  <2>3. socket' = "open" /\ up' = TRUE /\ outbox' = <<>> /\ rx' = <<>>
    BY <1>1 DEF ConnectFirst, Reconnect, Connected
  <2>4. TypeOK'
    BY <2>1, <2>2, <2>3, EmptySeq DEF IInv, TypeOK
  <2> QED BY <2>1, <2>2, <2>4 DEF IInv, TimedWait, IdleConnects, RequestInBuffer, RoomToType
<1>2. CASE ReadLoad \/ ConnectFirstFails \/ ReconnectFails \/ Eof \/ ResetGuard \/ Join
  <2>1. UNCHANGED <<chain, armed, queue, socket, server, auto, typed, id, bg, failed>>
    BY <1>2 DEF ReadLoad, ConnectFirstFails, ReconnectFails, Eof, ResetGuard, Join
  <2>2. /\ is_disconnected' \in BOOLEAN /\ guard' \in BOOLEAN
        /\ ui' \in {"send", "reconnect", "failed", "terminated", "guard", "join", "done"}
        /\ ui' = "reconnect" => op = "none"
        /\ ui' \in {"send", "reconnect"} => typed < MaxJobs
    BY <1>2 DEF IInv, TypeOK, ReadLoad, ConnectFirstFails, ReconnectFails, Eof, ResetGuard, Join
  <2>3. TypeOK'
    BY <2>1, <2>2 DEF IInv, TypeOK, chain, server
  <2>4. op' = op /\ m_dataBuf' = m_dataBuf /\ UNCHANGED <<Pending("op"), Pending("timeout")>>
    BY <2>1 DEF chain, Pending
  <2>5. TimedWait' /\ RequestInBuffer'
    BY <2>1, <2>4 DEF IInv, TimedWait, RequestInBuffer
  <2>6. IdleConnects' /\ RoomToType'
    BY <2>1, <2>2, <2>4 DEF IdleConnects, RoomToType
  <2> QED BY <2>3, <2>5, <2>6 DEF IInv
<1>3. CASE SendFirst \/ SendRequest
  <2>1. PICK job \in 0 .. MaxJobs : Sends(job) /\ typed' \in 0 .. MaxJobs
    <3>1. CASE SendFirst
      BY <3>1, BoundsAssumption DEF SendFirst, IInv, TypeOK
    <3>2. CASE SendRequest
      <4>1. typed + 1 \in 0 .. MaxJobs
        BY <3>2, BoundsAssumption DEF SendRequest, IInv, TypeOK, RoomToType
      <4> QED BY <3>2, <4>1 DEF SendRequest
    <3> QED BY <1>3, <3>1, <3>2
  <2> DEFINE request == [kind |-> "req", job |-> job]
  <2>2. request \in Messages
    BY DEF Messages
  <2>3. /\ m_dataBuf' = Append(m_dataBuf, request) /\ m_dataBuf \in Seq(Messages)
        /\ m_dataLen' = Len(m_dataBuf) + 1
    BY <2>1 DEF Sends, IInv, TypeOK
  <2>4. m_dataBuf' \in Seq(Messages) /\ m_dataBuf' # <<>> /\ m_dataLen' \in Nat
    BY <2>2, <2>3, AppendProperties, LenProperties
  <2>5. TypeOK'
    BY <2>1, <2>4 DEF Sends, IInv, TypeOK, NoResult, Results, Ops, server
  <2> QED BY <2>1, <2>4, <2>5 DEF Sends, IInv, TimedWait, IdleConnects, RequestInBuffer, RoomToType
<1> QED BY <1>1, <1>2, <1>3 DEF UserStep

\* The background thread's turns at the loop, and its timeouts.
LEMMA LoopStep ==
    ASSUME IInv, Loop \/ RunReturns \/ CheckTimeout \/ CheckTimeoutThrows \/ TimerExpires
    PROVE  IInv'
<1>1. CASE Loop \/ RunReturns
  <2>1. bg' \in {"loop", "run", "exited"} /\ UNCHANGED <<user, socket, chain, armed, queue, failed, server>>
    BY <1>1 DEF Loop, RunReturns
  <2>2. TypeOK'
    BY <2>1 DEF IInv, TypeOK, user, chain, server
  <2> QED BY <2>1, <2>2 DEF IInv, TimedWait, IdleConnects, RequestInBuffer, RoomToType,
          Pending, user, chain
<1>2. CASE CheckTimeout
  <2>1. queue \in Seq(Handlers) /\ queue # <<>> /\ Head(queue) = "timeout"
    BY <1>2 DEF IInv, TypeOK, CheckTimeout, Turn, Handlers
  <2>2. Tail(queue) \in Seq(Handlers) /\ (Pending("op") => Has(Tail(queue), "op"))
    BY <2>1, QueueTail DEF Pending
  <2>3. Append(Tail(queue), "op") \in Seq(Handlers) /\ Has(Append(Tail(queue), "op"), "op")
    BY <2>2, QueueAppend DEF Handlers
  <2>4. queue' \in Seq(Handlers) /\ (Pending("op") => Has(queue', "op"))
    BY <1>2, <2>2, <2>3 DEF CheckTimeout, Pending, Ready, Has
  <2>5. res' \in Results
    <3>1. [ec |-> TRUE, n |-> 0] \in Results /\ res \in Results
      BY DEF IInv, TypeOK, Results
    <3> QED BY <1>2, <3>1 DEF CheckTimeout
  <2>6. socket' = "closed" /\ UNCHANGED <<user, bg, op, m_dataLen, m_dataBuf, armed, failed, server>>
    BY <1>2 DEF CheckTimeout
  <2>7. TypeOK'
    BY <2>4, <2>5, <2>6 DEF IInv, TypeOK, user, server, Handlers
  <2> QED BY <2>4, <2>6, <2>7 DEF IInv, TimedWait, IdleConnects, RequestInBuffer, RoomToType,
          Pending, user
<1>3. CASE CheckTimeoutThrows
  <2>1. queue \in Seq(Handlers) /\ queue # <<>> /\ Head(queue) = "timeout" /\ queue' = Tail(queue)
    BY <1>3 DEF IInv, TypeOK, CheckTimeoutThrows, Turn, Handlers
  <2>2. queue' \in Seq(Handlers) /\ (Pending("op") => Has(queue', "op"))
    BY <2>1, QueueTail DEF Pending
  <2>3. socket = "closed" /\ bg' = "loop" /\ UNCHANGED <<user, socket, chain, armed, failed, server>>
    BY <1>3 DEF CheckTimeoutThrows
  <2>4. TypeOK'
    BY <2>2, <2>3 DEF IInv, TypeOK, user, chain, server, Handlers
  <2> QED BY <2>2, <2>3, <2>4 DEF IInv, TimedWait, IdleConnects, RequestInBuffer, RoomToType,
          Pending, user, chain
<1>4. CASE TimerExpires
  <2>1. queue \in Seq(Handlers) /\ queue' = Append(queue, "timeout") /\ "timeout" \in Handlers
    BY <1>4 DEF IInv, TypeOK, TimerExpires, Handlers
  <2>2. queue' \in Seq(Handlers) /\ Has(queue', "timeout") /\ (Pending("op") => Has(queue', "op"))
    BY <2>1, QueueAppend DEF Pending
  <2>3. armed' = FALSE /\ UNCHANGED <<user, bg, socket, chain, failed, server>>
    BY <1>4 DEF TimerExpires
  <2>4. TypeOK'
    BY <2>2, <2>3 DEF IInv, TypeOK, user, chain, server, Handlers
  <2> QED BY <2>2, <2>3, <2>4 DEF IInv, TimedWait, IdleConnects, RequestInBuffer, RoomToType,
          Pending, user, chain
<1> QED BY <1>1, <1>2, <1>3, <1>4

\* The handlers of the exchange: the one that starts the first read arms the
\* timer, and those that disarm it start no read.
LEMMA HandlerStep ==
    ASSUME IInv, OnLenSent \/ OnDataSent \/ OnLenReceived \/ OnDataReceived \/ OnFailed
    PROVE  IInv'
<1>1. Turn("op") /\ op # "none"
  BY DEF OnLenSent, OnDataSent, OnLenReceived, OnDataReceived, OnFailed, Dispatch
<1>2. ui \notin {"start", "reconnect"} /\ TypeOK
  BY <1>1 DEF IInv, IdleConnects
<1>3. CASE OnLenSent \/ OnDataSent \/ OnLenReceived
  <2>1. PICK kind \in Ops \ {"none", "writeLen"} :
          /\ Starts(kind)
          /\ kind = "writeData" => op = "writeLen"
          /\ kind = "readLen" => armed' = TRUE
          /\ kind = "readData" => op = "readLen" /\ armed' = armed
    BY <1>3 DEF OnLenSent, OnDataSent, OnLenReceived, Dispatch, Ops
  <2>2. /\ op' = kind /\ op' \in Ops /\ res' \in Results /\ queue' \in Seq(Handlers)
        /\ Pending("timeout") => Pending("timeout")'
    BY <1>1, <1>2, <2>1, StartsStep DEF Starts
  <2>3. /\ m_dataLen' \in {0, m_dataLen} /\ armed' \in BOOLEAN
        /\ UNCHANGED <<user, bg, socket, m_dataBuf, failed, server>>
    BY <1>2, <1>3 DEF OnLenSent, OnDataSent, OnLenReceived, TypeOK
  <2>4. TypeOK'
    BY <1>2, <2>2, <2>3 DEF TypeOK, user, server, Handlers
  <2>5. TimedWait'
    BY <2>1, <2>2, <2>3 DEF IInv, TimedWait
  <2> QED BY <1>2, <2>1, <2>2, <2>3, <2>4, <2>5 DEF IInv, IdleConnects, RequestInBuffer,
          RoomToType, user
<1>4. CASE OnDataReceived \/ OnFailed
  <2>1. PICK kind \in {"none", "writeLen"} :
          /\ Starts(kind)
          /\ kind = "writeLen" => m_dataBuf' # <<>>
    BY <1>4 DEF OnDataReceived, OnFailed, StartsRound
  <2>2. op' = kind /\ op' \in Ops /\ res' \in Results /\ queue' \in Seq(Handlers)
    BY <1>1, <1>2, <2>1, StartsStep DEF Starts, Ops
  <2>3. m_dataBuf' \in Seq(Messages) /\ m_dataLen' \in Nat /\ id' \in 0 .. MaxJobs
    <3>1. CASE UNCHANGED <<m_dataBuf, m_dataLen, id>>
      BY <1>2, <3>1 DEF TypeOK
    <3>2. CASE m_dataBuf' = <<>> /\ UNCHANGED <<m_dataLen, id>>
      BY <1>2, <3>2, EmptySeq DEF TypeOK
    <3>3. CASE StartsRound
      <4>1. NextJob \in 0 .. MaxJobs
        BY <1>2, BoundsAssumption DEF NextJob, TypeOK
      <4>2. [kind |-> "req", job |-> NextJob] \in Messages
        BY <4>1 DEF Messages
      <4> QED BY <3>3, <4>1, <4>2 DEF StartsRound
    <3> QED BY <1>4, <3>1, <3>2, <3>3 DEF OnDataReceived, OnFailed, user
  <2>4. /\ armed' \in BOOLEAN /\ failed' \in BOOLEAN
        /\ UNCHANGED <<auto, ui, typed, is_disconnected, guard, bg, socket, server>>
    BY <1>2, <1>4 DEF OnDataReceived, OnFailed, TypeOK, user
  <2>5. TypeOK'
    BY <1>2, <2>2, <2>3, <2>4 DEF TypeOK, server, Handlers
  <2> QED BY <1>2, <2>1, <2>2, <2>4, <2>5 DEF IInv, TimedWait, IdleConnects, RequestInBuffer,
          RoomToType
<1> QED BY <1>3, <1>4

(***************************************************************************)
(* The reactor and the server.                                             *)
(***************************************************************************)
\* A reply has well-formed cells, and answers the frame it is sent for.
LEMMA ReplyType ==
    ASSUME NEW frame \in Seq(Messages), frame # <<>>,
           NEW reply \in Replies(AnswerTo(frame))
    PROVE  reply \in Seq(Cells)
<1>1. Len(frame) \in 1 .. Len(frame)
  BY EmptySeq
<1>2. frame[Len(frame)] \in Messages
  BY <1>1, ElementOfSeq
<1>3. AnswerTo(frame) \in 0 .. MaxJobs
  BY <1>2, BoundsAssumption DEF AnswerTo, Messages
<1> DEFINE Cell(t) == [t |-> t, job |-> AnswerTo(frame)]
<1>4. \A t \in {"len", "part", "rest", "body"} : Cell(t) \in Cells
  BY <1>3 DEF Cells
<1>5. reply \in {<<Cell("len"), Cell("body")>>, <<Cell("len"), Cell("part"), Cell("rest")>>}
  BY DEF Replies
<1>6. Cell("len") \in Cells /\ Cell("part") \in Cells /\ Cell("rest") \in Cells
      /\ Cell("body") \in Cells
  BY <1>4
<1> HIDE DEF Cell
<1>7. /\ <<Cell("len"), Cell("body")>> \in Seq(Cells)
      /\ <<Cell("len"), Cell("part"), Cell("rest")>> \in Seq(Cells)
  BY <1>6
<1> QED BY <1>5, <1>7

\* An outstanding operation completes: a frame was in the buffer to be written,
\* and what is read is a message.
LEMMA CompletionStep ==
    ASSUME IInv, Completion
    PROVE  IInv'
<1>1. /\ op # "none" /\ ~Pending("op")
      /\ UNCHANGED <<user, bg, socket, op, armed, failed, up>>
  BY DEF Completion, NotOpen, CompleteWriteLen, CompleteWriteData, WriteFails, CompleteReadLen,
     CompleteReadData, ReadFails, Outstanding, Ready, Pending, Has, server
<1>2. PICK ec \in BOOLEAN, n \in Nat : Completes(ec, n)
  <2>1. m_dataBuf \in Seq(Messages)
    BY DEF IInv, TypeOK
  <2>2. Len(m_dataBuf) \in Nat
    BY <2>1, LenProperties
  <2> QED BY <2>2 DEF Completion, NotOpen, CompleteWriteLen, CompleteWriteData, WriteFails,
          CompleteReadLen, CompleteReadData, ReadFails, LenSize
<1>3. TypeOK
  BY DEF IInv
<1>4. /\ res' \in Results /\ queue' \in Seq(Handlers)
      /\ Pending("op")' /\ (Pending("timeout") => Pending("timeout")')
  BY <1>2, <1>3, CompletesStep
<1>5. m_dataBuf' \in Seq(Messages)
  <2>1. CASE UNCHANGED m_dataBuf
    BY <1>3, <2>1 DEF TypeOK
  <2>2. CASE m_dataBuf' = <<>>
    BY <2>2, EmptySeq
  <2>3. CASE WriteFails /\ ~UNCHANGED m_dataBuf
    <3>1. op = "writeData" /\ m_dataBuf' = <<TornPart>> \o Tail(m_dataBuf)
      BY <2>3 DEF WriteFails
    <3>2. m_dataBuf # <<>> /\ m_dataBuf \in Seq(Messages)
      BY <1>1, <1>3, <3>1 DEF IInv, RequestInBuffer, TypeOK
    <3>3. Tail(m_dataBuf) \in Seq(Messages)
      BY <3>2, HeadTailProperties
    <3>4. TornPart \in Messages
      BY BoundsAssumption DEF TornPart, Messages
    <3>5. <<TornPart>> \in Seq(Messages)
      BY <3>4
    <3> QED BY <3>1, <3>3, <3>5, ConcatProperties
  <2>4. CASE CompleteReadData
    <3>1. rx \in Seq(Cells) /\ rx # <<>> /\ m_dataBuf \in Seq(Messages)
      BY <1>3, <2>4 DEF CompleteReadData, TypeOK
    <3>2. Head(rx) \in Cells
      BY <3>1, HeadTailProperties
    <3> DEFINE resp == [kind |-> "resp", job |-> Head(rx).job]
    <3>3. resp \in Messages
      BY <3>2 DEF Cells, Messages
    <3>4. Append(m_dataBuf, resp) \in Seq(Messages)
      BY <3>1, <3>3, AppendProperties
    <3>5. [m_dataBuf EXCEPT ![Len(m_dataBuf)] = resp] \in Seq(Messages)
      <4> DEFINE size == Len(m_dataBuf)
      <4>1. size \in Nat /\ m_dataBuf \in [1 .. size -> Messages]
        BY <3>1, LenProperties
      <4>2. [m_dataBuf EXCEPT ![size] = resp] \in [1 .. size -> Messages]
        BY <3>3, <4>1
      <4> QED BY <4>1, <4>2, SeqDef
    <3> QED BY <2>4, <3>4, <3>5 DEF CompleteReadData
  <2> QED BY <2>1, <2>2, <2>3, <2>4 DEF Completion, NotOpen, CompleteWriteLen,
          CompleteWriteData, CompleteReadLen, ReadFails
<1>6. m_dataLen' \in Nat
  <2>1. m_dataLen \in Nat
    BY <1>3 DEF TypeOK
  <2>2. m_dataLen' = m_dataLen \/ m_dataLen' = 1
    BY DEF Completion, NotOpen, CompleteWriteLen, CompleteWriteData, WriteFails,
       CompleteReadLen, CompleteReadData, ReadFails
  <2> QED BY <2>1, <2>2
<1>7. rx' \in Seq(Cells)
  <2>1. rx \in Seq(Cells) /\ (rx # <<>> => Tail(rx) \in Seq(Cells))
    BY <1>3, HeadTailProperties DEF TypeOK
  <2> QED BY <2>1 DEF Completion, NotOpen, CompleteWriteLen, CompleteWriteData, WriteFails,
          CompleteReadLen, CompleteReadData, ReadFails, server
<1>8. outbox' \in Seq(Cells)
  <2>1. CASE CompleteWriteData
    <3>1. m_dataBuf \in Seq(Messages) /\ m_dataBuf # <<>> /\ outbox \in Seq(Cells)
      BY <1>1, <1>3, <2>1 DEF CompleteWriteData, Outstanding, IInv, RequestInBuffer, TypeOK
    <3>2. PICK reply \in Replies(AnswerTo(m_dataBuf)) : outbox' = outbox \o reply
      BY <2>1 DEF CompleteWriteData
    <3>3. reply \in Seq(Cells)
      BY <3>1, ReplyType
    <3> QED BY <3>1, <3>2, <3>3, ConcatProperties
  <2>2. CASE ~CompleteWriteData
    <3>1. outbox' = outbox
      BY <2>2 DEF Completion, NotOpen, CompleteWriteLen, WriteFails, CompleteReadLen,
         CompleteReadData, ReadFails, server
    <3> QED BY <1>3, <3>1 DEF TypeOK
  <2> QED BY <2>1, <2>2
<1>9. TypeOK'
  BY <1>1, <1>3, <1>4, <1>5, <1>6, <1>7, <1>8 DEF TypeOK, user, Handlers
<1>10. op = "writeLen" => m_dataBuf' = m_dataBuf
  BY DEF Completion, NotOpen, CompleteWriteLen, CompleteWriteData, WriteFails, CompleteReadLen,
     CompleteReadData, ReadFails, Outstanding
<1>11. TimedWait' /\ IdleConnects' /\ RoomToType'
  BY <1>1, <1>4 DEF IInv, TimedWait, IdleConnects, RoomToType, user
<1>12. RequestInBuffer'
  BY <1>1, <1>4, <1>10 DEF IInv, RequestInBuffer
<1> QED BY <1>9, <1>11, <1>12 DEF IInv

\* The server and what is on its way concern no operation of the client.
LEMMA ServerStep ==
    ASSUME IInv, PartArrives \/ ServerSends \/ ServerCloses
    PROVE  IInv'
<1>1. rx \in Seq(Cells) /\ outbox \in Seq(Cells) /\ m_dataBuf \in Seq(Messages)
  BY DEF IInv, TypeOK
<1>2. CASE PartArrives
  <2>1. TornPart \in Messages
    BY BoundsAssumption DEF TornPart, Messages
  <2>2. m_dataBuf' \in Seq(Messages) /\ rx' \in Seq(Cells)
    BY <1>1, <1>2, <2>1, AppendProperties, HeadTailProperties DEF PartArrives
  <2>3. op = "readData" /\ UNCHANGED <<user, bg, socket, op, res, m_dataLen, armed, queue,
                                       failed, up, outbox>>
    BY <1>2 DEF PartArrives, Outstanding
  <2>4. TypeOK'
    BY <2>2, <2>3 DEF IInv, TypeOK, user
  <2> QED BY <2>3, <2>4 DEF IInv, TimedWait, IdleConnects, RequestInBuffer, RoomToType,
          Pending, user
<1>3. CASE ServerSends \/ ServerCloses
  <2>1. rx' \in Seq(Cells) /\ outbox' \in Seq(Cells)
    <3>1. CASE ServerSends
      <4>1. Head(outbox) \in Cells /\ Tail(outbox) \in Seq(Cells)
        BY <1>1, <3>1, HeadTailProperties DEF ServerSends
      <4> QED BY <1>1, <3>1, <4>1, AppendProperties DEF ServerSends
    <3>2. CASE ServerCloses
      <4>1. PICK k \in 0 .. Len(rx) : rx' = SubSeq(rx, 1, k)
        BY <3>2 DEF ServerCloses
      <4>2. \A j \in 1 .. k : rx[j] \in Cells
        BY <1>1, ElementOfSeq, LenProperties
      <4>3. SubSeq(rx, 1, k) \in Seq(Cells)
        BY <4>2, LenProperties, <1>1, SubSeqProperties
      <4> QED BY <1>1, <3>2, <4>1, <4>3 DEF ServerCloses
    <3> QED BY <1>3, <3>1, <3>2
  <2>2. up' \in BOOLEAN /\ UNCHANGED <<user, bg, socket, chain, armed, queue, failed>>
    BY <1>3 DEF ServerSends, ServerCloses, IInv, TypeOK
  <2>3. TypeOK'
    BY <2>1, <2>2 DEF IInv, TypeOK, user, chain
  <2> QED BY <2>2, <2>3 DEF IInv, TimedWait, IdleConnects, RequestInBuffer, RoomToType,
          Pending, user, chain
<1> QED BY <1>2, <1>3

\* Every step keeps the invariant.
LEMMA NextIInv == IInv /\ [Next]_vars => IInv'
<1> SUFFICES ASSUME IInv, [Next]_vars PROVE IInv'
  OBVIOUS
<1>1. CASE UNCHANGED vars
  BY <1>1 DEF vars, user, chain, server, IInv, TypeOK, TimedWait, IdleConnects,
     RequestInBuffer, RoomToType, Pending
<1>2. CASE Next
  BY <1>1, <1>2, UserThread, LoopStep, HandlerStep, CompletionStep, ServerStep
     DEF Next, BackgroundStep, Surroundings, Terminated
<1> QED BY <1>1, <1>2

\* Every variable keeps its type: a write finds its request in the buffer, and a
\* response that arrives in parts ends as a message.
THEOREM TypeCorrect == Spec => []TypeOK
<1>1. IInv => TypeOK
  BY DEF IInv
<1> QED BY <1>1, InitIInv, NextIInv, PTL DEF Spec

\* In every state of every execution a read that is outstanding on an open
\* socket will be ended by a timeout.
THEOREM TimedWaitTheorem == Spec => []EveryWaitIsTimed
<1>1. IInv => EveryWaitIsTimed
  BY DEF IInv, TimedWait, EveryWaitIsTimed, Pending, Has
<1> QED BY <1>1, InitIInv, NextIInv, PTL DEF Spec

-----------------------------------------------------------------------------
(***************************************************************************)
(* Responses.  Conversation relates the operation to what the buffer holds *)
(* and to what is still to come: while a request is written, nothing; then *)
(* the rest of one reply, of which the client has taken q cells.  On a     *)
(* socket that is closed nothing more arrives, whatever is on its way.     *)
(***************************************************************************)
Ok      == Ready /\ ~res.ec
Failing == Ready /\ res.ec

Writing == op = "writeLen" \/ (op = "writeData" /\ ~Ready)
Reading == \/ op = "writeData" /\ Ok
           \/ op \in {"readLen", "readData"} /\ ~Failing

\* What may still arrive; of a server that has left, what has arrived.
Stream(u, r, o) == IF u THEN r \o o ELSE r
Coming == Stream(up, rx, outbox)

\* s is what follows the first q cells of the reply, or a part of that.
IsRest(s, reply, q) ==
    /\ Len(s) + q <= Len(reply)
    /\ \A k \in 1 .. Len(s) : s[k] = reply[q + k]

\* The client has taken q cells of a reply to the request j.
Received(reply, q, j) ==
    \/ op = "writeData" /\ q = 0 /\ m_dataBuf = <<>>
    \/ op = "readLen" /\ ~Ready /\ q = 0 /\ m_dataBuf = <<>>
    \/ op = "readLen" /\ Ready /\ q = 1 /\ m_dataBuf = <<>>
    \/ op = "readData" /\ ~Ready /\ q = 1 /\ m_dataBuf = <<>>
    \/ op = "readData" /\ ~Ready /\ q = 2 /\ Len(reply) = 3 /\ m_dataBuf = <<TornPart>>
    \/ op = "readData" /\ Ready /\ q = Len(reply)
         /\ m_dataBuf = <<[kind |-> "resp", job |-> j]>>

One(q) == \A k, l \in 1 .. Len(q) : q[k] = "op" /\ q[l] = "op" => k = l

\* The outstanding operation has at most one turn.
OneTurn == One(queue) /\ (Ready => op # "none")

\* No exchange is under way where main() connects or sends.
IdleSends == ui \in {"start", "reconnect", "first", "send"} => op = "none"

\* What has not failed has transferred what was asked for.
Whole ==
    /\ Ok => res.n = ExpectedLength
    /\ op = "readData" \/ (op = "readLen" /\ Ok) => m_dataLen = 1

\* The request is the last message of the frame that is written.
Request ==
    Writing => /\ m_dataBuf # <<>> /\ m_dataBuf[Len(m_dataBuf)].job = id
               /\ m_dataLen = Len(m_dataBuf)

\* Nothing is to come where no response is awaited, nor after a failure.
Quiet ==
    socket = "open" => /\ op = "none" \/ Writing => Coming = <<>>
                       /\ Failing => ~up /\ rx = <<>>

Response ==
    Reading => \E j \in {id, 0} : \E reply \in Replies(j) : \E q \in 0 .. 3 :
                 Received(reply, q, j) /\ (socket = "open" => IsRest(Coming, reply, q))

Conversation == OneTurn /\ IdleSends /\ Whole /\ Request /\ Quiet /\ Response

\* One handler of the operation at a time.
LEMMA OneFacts ==
    ASSUME NEW q \in Seq(Handlers)
    PROVE  /\ ~Has(q, "op") => One(Append(q, "op")) /\ Has(Append(q, "op"), "op")
           /\ /\ One(q) => One(Append(q, "timeout"))
              /\ Has(Append(q, "timeout"), "op") <=> Has(q, "op")
           /\ q # <<>> /\ Head(q) = "op" /\ One(q) => One(Tail(q)) /\ ~Has(Tail(q), "op")
           /\ q # <<>> /\ Head(q) = "timeout" =>
                /\ One(q) => One(Tail(q))
                /\ Has(Tail(q), "op") <=> Has(q, "op")
<1>1. ASSUME NEW h \in Handlers
      PROVE  /\ Len(Append(q, h)) = Len(q) + 1 /\ Len(q) \in Nat
             /\ \A k \in 1 .. Len(q) + 1 :
                  Append(q, h)[k] = IF k = Len(q) + 1 THEN h ELSE q[k]
  BY AppendProperties, LenProperties
<1>2. "op" \in Handlers /\ "timeout" \in Handlers
  BY DEF Handlers
<1>3. ~Has(q, "op") => One(Append(q, "op")) /\ Has(Append(q, "op"), "op")
  <2>1. Len(q) + 1 \in 1 .. Len(q) + 1
    BY <1>1, <1>2
  <2>2. ASSUME NEW k \in 1 .. Len(q) + 1, ~Has(q, "op"), Append(q, "op")[k] = "op"
        PROVE  k = Len(q) + 1
    BY <1>1, <1>2, <2>2 DEF Has
  <2> QED BY <1>1, <1>2, <2>1, <2>2 DEF One, Has
<1>4. /\ One(q) => One(Append(q, "timeout"))
      /\ Has(Append(q, "timeout"), "op") <=> Has(q, "op")
  <2>1. \A k \in 1 .. Len(q) + 1 :
          Append(q, "timeout")[k] = "op" <=> k \in 1 .. Len(q) /\ q[k] = "op"
    BY <1>1, <1>2
  <2>2. 1 .. Len(q) \subseteq 1 .. Len(q) + 1
    BY <1>1, <1>2
  <2> QED BY <1>1, <1>2, <2>1, <2>2 DEF One, Has
<1>5. ASSUME q # <<>>
      PROVE  /\ Len(q) \in Nat /\ Len(Tail(q)) = Len(q) - 1 /\ Head(q) = q[1] /\ Len(q) >= 1
             /\ \A k \in 1 .. Len(q) - 1 : Tail(q)[k] = q[k + 1] /\ k + 1 \in 1 .. Len(q)
  BY <1>5, HeadTailProperties, LenProperties, EmptySeq
<1>6. ASSUME q # <<>>, Head(q) = "op", One(q) PROVE One(Tail(q)) /\ ~Has(Tail(q), "op")
  <2>1. \A k \in 1 .. Len(q) - 1 : Tail(q)[k] # "op"
    <3> SUFFICES ASSUME NEW k \in 1 .. Len(q) - 1, q[k + 1] = "op" PROVE FALSE
      BY <1>5, <1>6
    <3>1. k + 1 \in 1 .. Len(q) /\ 1 \in 1 .. Len(q) /\ k + 1 # 1
      BY <1>5, <1>6
    <3> QED BY <1>5, <1>6, <3>1 DEF One
  <2> QED BY <1>5, <1>6, <2>1 DEF One, Has
<1>7. ASSUME q # <<>>, Head(q) = "timeout"
      PROVE  /\ One(q) => One(Tail(q))
             /\ Has(Tail(q), "op") <=> Has(q, "op")
  <2>1. One(q) => One(Tail(q))
    <3> SUFFICES ASSUME One(q), NEW k \in 1 .. Len(q) - 1, NEW l \in 1 .. Len(q) - 1,
                        q[k + 1] = "op", q[l + 1] = "op"
                 PROVE  k = l
      BY <1>5, <1>7 DEF One
    <3> QED BY <1>5, <1>7 DEF One
  <2>2. Has(Tail(q), "op") => Has(q, "op")
    BY <1>5, <1>7 DEF Has
  <2>3. Has(q, "op") => Has(Tail(q), "op")
    BY <1>2, <1>7, QueueTail
  <2> QED BY <2>1, <2>2, <2>3
<1> QED BY <1>3, <1>4, <1>6, <1>7

\* The cells that have arrived come before those that have not.
LEMMA ConcatCells ==
    ASSUME NEW r \in Seq(Cells), NEW o \in Seq(Cells)
    PROVE  /\ r \o o \in Seq(Cells) /\ Len(r) \in Nat /\ Len(o) \in Nat
           /\ Len(r \o o) = Len(r) + Len(o)
           /\ \A k \in 1 .. Len(r) : (r \o o)[k] = r[k]
           /\ \A k \in 1 .. Len(o) : (r \o o)[Len(r) + k] = o[k]
<1>1. Len(r) \in Nat /\ Len(o) \in Nat
  BY LenProperties
<1>2. /\ r \o o \in Seq(Cells) /\ Len(r \o o) = Len(r) + Len(o)
      /\ \A i \in 1 .. Len(r) + Len(o) :
           (r \o o)[i] = IF i <= Len(r) THEN r[i] ELSE o[i - Len(r)]
  BY ConcatProperties
<1>3. ASSUME NEW k \in 1 .. Len(o) PROVE (r \o o)[Len(r) + k] = o[k]
  BY <1>1, <1>2
<1> QED BY <1>1, <1>2, <1>3

\* Of a server that has left only they are left.
LEMMA StreamType ==
    ASSUME NEW u \in BOOLEAN, NEW r \in Seq(Cells), NEW o \in Seq(Cells)
    PROVE  /\ Stream(u, r, o) \in Seq(Cells)
           /\ Len(Stream(u, r, o)) = IF u THEN Len(r) + Len(o) ELSE Len(r)
           /\ \A k \in 1 .. Len(r) : Stream(u, r, o)[k] = r[k]
           /\ u => \A k \in 1 .. Len(o) : Stream(u, r, o)[Len(r) + k] = o[k]
BY ConcatCells DEF Stream

\* Taking the next cell leaves the rest of the reply.
LEMMA TakeCell ==
    ASSUME NEW u \in BOOLEAN, NEW r \in Seq(Cells), NEW o \in Seq(Cells), r # <<>>,
           NEW reply, NEW q \in Nat, IsRest(Stream(u, r, o), reply, q), Len(reply) \in Nat
    PROVE  /\ IsRest(Stream(u, Tail(r), o), reply, q + 1)
           /\ q + 1 <= Len(reply) /\ Head(r) = reply[q + 1]
<1>1. PICK t \in Seq(Cells) : t = Tail(r)
  BY HeadTailProperties
<1>2. /\ Len(r) \in Nat /\ Len(r) >= 1 /\ Head(r) = r[1] /\ Len(t) = Len(r) - 1
      /\ \A k \in 1 .. Len(r) - 1 : t[k] = r[k + 1]
  BY <1>1, HeadTailProperties, EmptySeq, LenProperties
<1>3. Len(o) \in Nat
  BY LenProperties
<1>4. PICK s \in Seq(Cells), w \in Seq(Cells) : s = Stream(u, r, o) /\ w = Stream(u, t, o)
  BY StreamType
<1>5. /\ Len(s) = IF u THEN Len(r) + Len(o) ELSE Len(r)
      /\ Len(w) = IF u THEN Len(t) + Len(o) ELSE Len(t)
      /\ \A k \in 1 .. Len(r) : s[k] = r[k]
      /\ \A k \in 1 .. Len(t) : w[k] = t[k]
      /\ u => \A k \in 1 .. Len(o) : s[Len(r) + k] = o[k] /\ w[Len(t) + k] = o[k]
  BY <1>4, StreamType
<1>6. Len(s) \in Nat /\ Len(w) = Len(s) - 1 /\ Len(s) >= 1 /\ s[1] = r[1]
  BY <1>2, <1>3, <1>5
<1>7. ASSUME NEW k \in 1 .. Len(s) - 1 PROVE w[k] = s[k + 1]
  <2>1. CASE k <= Len(r) - 1
    <3>1. k \in 1 .. Len(t) /\ k + 1 \in 1 .. Len(r) /\ k \in 1 .. Len(r) - 1
      BY <1>2, <2>1
    <3> QED BY <1>2, <1>5, <3>1
  <2>2. CASE k > Len(r) - 1
    <3>1. u /\ Len(s) = Len(r) + Len(o)
      BY <1>2, <1>5, <2>2
    <3>2. PICK j \in 1 .. Len(o) : j = k - (Len(r) - 1)
      <4>1. k \in Int /\ k <= Len(r) + Len(o) - 1
        BY <1>2, <1>3, <3>1
      <4>2. k - (Len(r) - 1) \in 1 .. Len(o)
        BY <1>2, <1>3, <2>2, <4>1
      <4> QED BY <4>2
    <3>3. s[Len(r) + j] = o[j] /\ w[Len(t) + j] = o[j]
      BY <1>5, <3>1
    <3>4. Len(r) + j = k + 1 /\ Len(t) + j = k
      BY <1>2, <3>2
    <3> QED BY <3>3, <3>4
  <2> QED BY <1>2, <2>1, <2>2
<1>8. IsRest(s, reply, q)
  BY <1>4
<1>9. q + 1 <= Len(reply) /\ Len(w) + (q + 1) <= Len(reply) /\ r[1] = reply[q + 1]
  <2>1. Len(s) + q <= Len(reply) /\ 1 \in 1 .. Len(s)
    BY <1>6, <1>8 DEF IsRest
  <2>2. s[1] = reply[q + 1]
    BY <1>8, <2>1 DEF IsRest
  <2> QED BY <1>6, <2>1, <2>2
<1>10. ASSUME NEW k \in 1 .. Len(w) PROVE w[k] = reply[(q + 1) + k]
  <2>1. k \in 1 .. Len(s) - 1 /\ k + 1 \in 1 .. Len(s) /\ q + (k + 1) = (q + 1) + k
    BY <1>6
  <2>2. s[k + 1] = reply[q + (k + 1)]
    BY <1>8, <2>1 DEF IsRest
  <2> QED BY <1>7, <2>1, <2>2
<1>11. IsRest(w, reply, q + 1)
  BY <1>9, <1>10 DEF IsRest
<1> QED BY <1>1, <1>2, <1>4, <1>9, <1>11

\* The server's cells keep their order on their way.
LEMMA SendKeepsStream ==
    ASSUME NEW r \in Seq(Cells), NEW o \in Seq(Cells), o # <<>>
    PROVE  Stream(TRUE, Append(r, Head(o)), Tail(o)) = Stream(TRUE, r, o)
<1>1. PICK h \in Cells, t \in Seq(Cells) : h = Head(o) /\ t = Tail(o)
  BY HeadTailProperties
<1>2. /\ Len(r) \in Nat /\ Len(o) \in Nat /\ Len(o) >= 1
      /\ Len(t) = Len(o) - 1 /\ h = o[1]
      /\ \A k \in 1 .. Len(o) - 1 : t[k] = o[k + 1]
  BY <1>1, HeadTailProperties, EmptySeq, LenProperties
<1>3. PICK a \in Seq(Cells) : a = Append(r, h)
  BY AppendProperties
<1>4. /\ Len(a) = Len(r) + 1 /\ a[Len(r) + 1] = h
      /\ \A k \in 1 .. Len(r) : a[k] = r[k]
  BY <1>3, AppendProperties
<1>5. PICK s \in Seq(Cells), w \in Seq(Cells) : s = r \o o /\ w = a \o t
  BY ConcatCells
<1>6. /\ Len(s) = Len(r) + Len(o) /\ Len(w) = Len(a) + Len(t)
      /\ \A k \in 1 .. Len(r) : s[k] = r[k]
      /\ \A k \in 1 .. Len(a) : w[k] = a[k]
      /\ \A k \in 1 .. Len(o) : s[Len(r) + k] = o[k]
      /\ \A k \in 1 .. Len(t) : w[Len(a) + k] = t[k]
  BY <1>5, ConcatCells
<1>7. Len(w) = Len(s) /\ Len(s) \in Nat
  BY <1>2, <1>4, <1>6
<1>8. ASSUME NEW k \in 1 .. Len(s) PROVE w[k] = s[k]
  <2>1. CASE k <= Len(r)
    <3>1. k \in 1 .. Len(r) /\ k \in 1 .. Len(a)
      BY <1>2, <1>4, <2>1
    <3> QED BY <1>4, <1>6, <3>1
  <2>2. CASE k = Len(r) + 1
    <3>1. k \in 1 .. Len(a) /\ 1 \in 1 .. Len(o)
      BY <1>2, <1>4, <2>2
    <3> QED BY <1>2, <1>4, <1>6, <2>2, <3>1
  <2>3. CASE k > Len(r) + 1
    <3>1. k - (Len(r) + 1) \in 1 .. Len(t)
      BY <1>2, <1>6, <2>3
    <3>2. PICK j \in 1 .. Len(t) : j = k - (Len(r) + 1)
      BY <3>1
    <3>3. /\ Len(r) + (j + 1) = k /\ Len(a) + j = k /\ j + 1 \in 1 .. Len(o)
          /\ j \in 1 .. Len(o) - 1
      BY <1>2, <1>4, <3>2
    <3>4. w[Len(a) + j] = t[j] /\ s[Len(r) + (j + 1)] = o[j + 1]
      BY <1>6, <3>3
    <3> QED BY <1>2, <3>3, <3>4
  <2> QED BY <1>2, <2>1, <2>2, <2>3
<1>9. w = s
  BY <1>7, <1>8, SeqEqual
<1> QED BY <1>1, <1>3, <1>5, <1>9 DEF Stream

\* A server that leaves cuts off what was to come.
LEMMA CloseCutsStream ==
    ASSUME NEW r \in Seq(Cells), NEW o \in Seq(Cells), NEW n \in 0 .. Len(r)
    PROVE  /\ \A reply, q : IsRest(Stream(TRUE, r, o), reply, q) /\ Len(reply) \in Nat /\ q \in Nat =>
                IsRest(SubSeq(r, 1, n), reply, q)
           /\ Stream(TRUE, r, o) = <<>> => SubSeq(r, 1, n) = <<>>
<1>1. Len(r) \in Nat /\ Len(o) \in Nat /\ n \in Nat
  BY LenProperties
<1>2. \A j \in 1 .. n : r[j] \in Cells
  BY <1>1, ElementOfSeq
<1>3. PICK t : t = SubSeq(r, 1, n)
  OBVIOUS
<1>4. t \in Seq(Cells) /\ Len(t) = n /\ \A k \in 1 .. n : t[k] = r[k]
  BY <1>1, <1>2, <1>3, SubSeqProperties
<1>5. PICK s \in Seq(Cells) : s = r \o o
  BY ConcatCells
<1>6. Len(s) = Len(r) + Len(o) /\ \A k \in 1 .. Len(r) : s[k] = r[k]
  BY <1>5, ConcatCells
<1>7. ASSUME NEW reply, NEW q \in Nat, IsRest(s, reply, q), Len(reply) \in Nat
      PROVE  IsRest(t, reply, q)
  <2>1. Len(t) + q <= Len(reply)
    BY <1>1, <1>4, <1>6, <1>7 DEF IsRest
  <2>2. ASSUME NEW k \in 1 .. Len(t) PROVE t[k] = reply[q + k]
    <3>1. k \in 1 .. Len(s) /\ k \in 1 .. Len(r) /\ k \in 1 .. n
      BY <1>1, <1>4, <1>6
    <3>2. s[k] = reply[q + k]
      BY <1>7, <3>1 DEF IsRest
    <3> QED BY <1>4, <1>6, <3>1, <3>2
  <2> QED BY <2>1, <2>2 DEF IsRest
<1>8. s = <<>> => t = <<>>
  <2>1. s = <<>> => Len(t) = 0
    BY <1>1, <1>4, <1>6, EmptySeq
  <2> QED BY <1>4, <2>1, EmptySeq
<1> QED BY <1>3, <1>5, <1>7, <1>8 DEF Stream

\* A socket that is open was so, and no more is to come on it than was before.
StreamKept ==
    socket' = "open" =>
      /\ socket = "open"
      /\ \A reply, q : IsRest(Coming, reply, q) /\ Len(reply) \in Nat /\ q \in Nat =>
                         IsRest(Coming', reply, q)
      /\ Coming = <<>> => Coming' = <<>>
      /\ ~up /\ rx = <<>> => ~up' /\ rx' = <<>>

\* A reply is two cells, or three of which the second is a part.
LEMMA ReplyCells ==
    ASSUME NEW job, NEW reply \in Replies(job)
    PROVE  /\ Len(reply) \in {2, 3}
           /\ Len(reply) = 2 => reply[2].t = "body" /\ reply[2].job = job
           /\ Len(reply) = 3 => /\ reply[2].t = "part"
                                /\ reply[3].t = "rest" /\ reply[3].job = job
<1> DEFINE Cell(t) == [t |-> t, job |-> job]
<1>1. reply \in {<<Cell("len"), Cell("body")>>, <<Cell("len"), Cell("part"), Cell("rest")>>}
  BY DEF Replies
<1>2. /\ Cell("body").t = "body" /\ Cell("body").job = job /\ Cell("part").t = "part"
      /\ Cell("rest").t = "rest" /\ Cell("rest").job = job
  OBVIOUS
<1> HIDE DEF Cell
<1>a. PICK a : a = Cell("len")
  OBVIOUS
<1>b. PICK b : b = Cell("body")
  OBVIOUS
<1>c. PICK c : c = Cell("part")
  OBVIOUS
<1>d. PICK d : d = Cell("rest")
  OBVIOUS
<1>3. reply = <<a, b>> \/ reply = <<a, c, d>>
  BY <1>1, <1>a, <1>b, <1>c, <1>d
<1>4. CASE reply = <<a, b>>
  BY <1>2, <1>4, <1>b
<1>5. CASE reply = <<a, c, d>>
  BY <1>2, <1>5, <1>c, <1>d
<1> QED BY <1>3, <1>4, <1>5

\* A step that touches neither the operation nor the buffer.
LEMMA ConversationKept ==
    ASSUME IInv, Conversation, UNCHANGED <<op, res, m_dataLen, m_dataBuf, id>>,
           One(queue'), Ready' <=> Ready, IdleSends', StreamKept
    PROVE  Conversation'
<1>1. OneTurn' /\ IdleSends' /\ Whole' /\ Request'
  BY DEF Conversation, OneTurn, Whole, Ok, ExpectedLength, Request, Writing
<1>2. Quiet'
  BY DEF Conversation, Quiet, Writing, Failing, StreamKept
<1>3. Response'
  <2> SUFFICES ASSUME Reading PROVE Response'
    BY DEF Response, Reading, Ok, Failing
  <2>1. PICK j \in {id, 0} : \E reply \in Replies(j) : \E q \in 0 .. 3 :
               Received(reply, q, j) /\ (socket = "open" => IsRest(Coming, reply, q))
    BY DEF Conversation, Response
  <2>2. PICK reply \in Replies(j), q \in 0 .. 3 :
               Received(reply, q, j) /\ (socket = "open" => IsRest(Coming, reply, q))
    BY <2>1
  <2>3. Received(reply, q, j)'
    BY <2>2 DEF Received
  <2>4. Len(reply) \in Nat
    BY ReplyCells
  <2>5. socket' = "open" => IsRest(Coming, reply, q)'
    BY <2>2, <2>4 DEF StreamKept
  <2> QED BY <2>3, <2>5 DEF Response
<1> QED BY <1>1, <1>2, <1>3 DEF Conversation

\* main(), the loop and the queue of timeouts, and the server.
LEMMA SurroundingsTalk ==
    ASSUME IInv, Conversation,
           \/ ReadLoad \/ Eof \/ ConnectFirstFails \/ ReconnectFails \/ ResetGuard \/ Join
           \/ Loop \/ RunReturns \/ CheckTimeoutThrows \/ TimerExpires
           \/ ServerSends \/ ServerCloses \/ UNCHANGED vars
    PROVE  Conversation'
<1>1. UNCHANGED <<op, res, m_dataLen, m_dataBuf, id, socket>>
  BY DEF ReadLoad, Eof, ConnectFirstFails, ReconnectFails, ResetGuard, Join, Loop, RunReturns,
     CheckTimeoutThrows, TimerExpires, ServerSends, ServerCloses, vars, user, chain
<1>2. IdleSends'
  BY <1>1 DEF Conversation, IdleSends, ReadLoad, Eof, ConnectFirstFails, ReconnectFails,
     ResetGuard, Join, Loop, RunReturns, CheckTimeoutThrows, TimerExpires, ServerSends,
     ServerCloses, vars, user
<1>3. One(queue') /\ (Ready' <=> Ready)
  <2>1. queue \in Seq(Handlers) /\ One(queue)
    BY DEF IInv, TypeOK, Handlers, Conversation, OneTurn
  <2>2. Ready <=> Has(queue, "op")
    BY DEF Ready, Has
  <2>3. Ready' <=> Has(queue', "op")
    BY DEF Ready, Has
  <2>4. CASE CheckTimeoutThrows
    <3>1. queue # <<>> /\ Head(queue) = "timeout" /\ queue' = Tail(queue)
      BY <2>4 DEF CheckTimeoutThrows, Turn
    <3> QED BY <2>1, <2>2, <2>3, <3>1, OneFacts
  <2>5. CASE TimerExpires
    <3>1. queue' = Append(queue, "timeout")
      BY <2>5 DEF TimerExpires
    <3> QED BY <2>1, <2>2, <2>3, <3>1, OneFacts
  <2>6. CASE UNCHANGED queue
    BY <2>1, <2>2, <2>3, <2>6
  <2> QED BY <2>4, <2>5, <2>6 DEF ReadLoad, Eof, ConnectFirstFails, ReconnectFails,
          ResetGuard, Join, Loop, RunReturns, ServerSends, ServerCloses, vars
<1>4. StreamKept
  <2>1. rx \in Seq(Cells) /\ outbox \in Seq(Cells)
    BY DEF IInv, TypeOK
  <2>2. CASE ServerSends
    <3>1. /\ up = TRUE /\ up' = TRUE /\ outbox # <<>>
          /\ rx' = Append(rx, Head(outbox)) /\ outbox' = Tail(outbox)
      BY <2>2 DEF ServerSends, IInv, TypeOK
    <3>2. Coming' = Coming
      BY <2>1, <3>1, SendKeepsStream DEF Coming
    <3> QED BY <1>1, <3>1, <3>2 DEF StreamKept
  <2>3. CASE ServerCloses
    <3>1. up = TRUE /\ up' = FALSE /\ \E n \in 0 .. Len(rx) : rx' = SubSeq(rx, 1, n)
      BY <2>3 DEF ServerCloses, IInv, TypeOK
    <3>2. Coming = Stream(TRUE, rx, outbox) /\ Coming' = rx'
      BY <3>1 DEF Coming, Stream
    <3> QED BY <1>1, <2>1, <3>1, <3>2, CloseCutsStream DEF StreamKept
  <2>4. CASE UNCHANGED server
    <3>1. Coming' = Coming
      BY <2>4 DEF server, Coming
    <3> QED BY <1>1, <2>4, <3>1 DEF StreamKept, server
  <2> QED BY <2>2, <2>3, <2>4 DEF ReadLoad, Eof, ConnectFirstFails, ReconnectFails,
          ResetGuard, Join, Loop, RunReturns, CheckTimeoutThrows, TimerExpires, vars
<1> QED BY <1>1, <1>2, <1>3, <1>4, ConversationKept

\* main() connects and sends while no exchange is under way.
LEMMA UserTalk ==
    ASSUME IInv, Conversation, ConnectFirst \/ Reconnect \/ SendFirst \/ SendRequest
    PROVE  Conversation'
<1>1. op = "none" /\ ~Ready /\ ~Ready' /\ One(queue') /\ UNCHANGED queue
  BY DEF ConnectFirst, Reconnect, SendFirst, SendRequest, Sends, Conversation, IdleSends, OneTurn,
     Ready
<1>2. CASE ConnectFirst \/ Reconnect
  <2>1. UNCHANGED <<op, res, m_dataLen, m_dataBuf>> /\ rx' = <<>> /\ outbox' = <<>>
    BY <1>2 DEF ConnectFirst, Reconnect, Connected, chain
  <2>2. Coming' = <<>>
    <3>1. <<>> \o <<>> = <<>>
      OBVIOUS
    <3> QED BY <2>1, <3>1 DEF Coming, Stream
  <2> QED BY <1>1, <2>1, <2>2 DEF Conversation, OneTurn, IdleSends, Whole, Ok, Request, Writing,
          Quiet, Failing, Response, Reading
<1>3. CASE SendFirst \/ SendRequest
  <2>1. PICK job, request : Sends(job) /\ request = [kind |-> "req", job |-> job]
    BY <1>3 DEF SendFirst, SendRequest
  <2>2. job \in 0 .. MaxJobs
    <3>1. id' = job
      BY <2>1 DEF Sends
    <3>2. IInv'
      BY <1>3, UserThread DEF UserStep
    <3> QED BY <3>1, <3>2 DEF IInv, TypeOK
  <2>3. request \in Messages /\ request.job = job
    BY <2>1, <2>2 DEF Messages
  <2>4. /\ m_dataBuf \in Seq(Messages) /\ m_dataBuf' = Append(m_dataBuf, request)
        /\ m_dataLen' = Len(m_dataBuf) + 1 /\ id' = job
    BY <2>1 DEF Sends, IInv, TypeOK
  <2>5. /\ m_dataBuf' # <<>> /\ Len(m_dataBuf') = m_dataLen'
        /\ m_dataBuf'[Len(m_dataBuf')].job = id'
    BY <2>3, <2>4, AppendProperties, LenProperties
  <2>6. op' = "writeLen" /\ ui' = "input" /\ UNCHANGED <<socket, server>>
    BY <2>1 DEF Sends
  <2>7. Coming' = Coming
    BY <2>6 DEF Coming, server
  <2>8. Quiet'
    BY <1>1, <2>6, <2>7 DEF Conversation, Quiet, Failing
  <2> QED BY <1>1, <2>5, <2>6, <2>8 DEF Conversation, OneTurn, IdleSends, Whole, Ok, Request,
          Response, Reading
<1> QED BY <1>2, <1>3

\* The turn of the operation's handler, which starts the next one.
LEMMA StartsTalk ==
    ASSUME IInv, Conversation, Turn("op"), NEW kind, Starts(kind)
    PROVE  Ready /\ ~Ready' /\ One(queue') /\ op' = kind /\ OneTurn'
<1>1. queue \in Seq(Handlers) /\ queue # <<>> /\ Head(queue) = "op" /\ One(queue)
  BY DEF IInv, TypeOK, Handlers, Turn, Conversation, OneTurn
<1>2. queue' = Tail(queue) /\ op' = kind
  BY DEF Starts
<1>3. One(queue') /\ ~Has(queue', "op")
  BY <1>1, <1>2, OneFacts
<1>4. Ready
  <2>1. Len(queue) >= 1 /\ queue[1] = "op" /\ Len(queue) \in Nat
    BY <1>1, HeadTailProperties, LenProperties, EmptySeq
  <2>2. 1 \in 1 .. Len(queue)
    BY <2>1
  <2> QED BY <2>1, <2>2 DEF Ready
<1>5. ~Ready'
  BY <1>3 DEF Ready, Has
<1> QED BY <1>2, <1>3, <1>4, <1>5 DEF OneTurn

\* The three handlers in the middle of an exchange: each has what the next
\* operation needs, and none changes what is to come.
LEMMA MiddleTalk ==
    ASSUME IInv, Conversation, OnLenSent \/ OnDataSent \/ OnLenReceived
    PROVE  Conversation'
<1>1. PICK kind : Turn("op") /\ Starts(kind) /\ kind \in {"writeData", "readLen", "readData"}
  BY DEF OnLenSent, OnDataSent, OnLenReceived, Dispatch
<1>2. Ready /\ ~Ready' /\ op' = kind /\ OneTurn'
  BY <1>1, StartsTalk
<1>3. CheckOperation /\ UNCHANGED <<user, socket, m_dataBuf, server>>
  BY DEF OnLenSent, OnDataSent, OnLenReceived
<1>4. IdleSends'
  BY <1>1, <1>2, <1>3 DEF Conversation, IdleSends, user, OnLenSent, OnDataSent, OnLenReceived, Dispatch
<1>5. Coming' = Coming
  BY <1>3 DEF Coming, server
<1>6. Ok
  BY <1>2, <1>3 DEF Ok, CheckOperation
<1>7. CASE OnLenSent
  <2>1. op = "writeLen" /\ op' = "writeData" /\ UNCHANGED <<m_dataLen, id>>
    BY <1>7 DEF OnLenSent, Dispatch, Starts, user
  <2>2. Writing /\ Writing' /\ ~Reading'
    BY <1>2, <2>1 DEF Writing, Reading, Ok
  <2> QED BY <1>2, <1>3, <1>4, <1>5, <2>1, <2>2 DEF Conversation, Whole, Ok, Request, Quiet, Failing,
          Response
<1>8. CASE OnDataSent
  <2>1. op = "writeData" /\ op' = "readLen" /\ UNCHANGED id
    BY <1>8 DEF OnDataSent, Dispatch, Starts, user
  <2>2. Reading /\ ~Writing'
    BY <1>6, <2>1 DEF Writing, Reading
  <2>3. PICK j \in {id, 0} : \E reply \in Replies(j) : \E q \in 0 .. 3 :
               Received(reply, q, j) /\ (socket = "open" => IsRest(Coming, reply, q))
    BY <2>2 DEF Conversation, Response
  <2>4. PICK reply \in Replies(j), q \in 0 .. 3 :
               Received(reply, q, j) /\ (socket = "open" => IsRest(Coming, reply, q))
    BY <2>3
  <2>5. Received(reply, q, j)'
    BY <1>2, <1>3, <2>1, <2>4 DEF Received
  <2>6. Response'
    BY <1>3, <1>5, <2>1, <2>4, <2>5 DEF Response
  <2> QED BY <1>2, <1>4, <2>1, <2>2, <2>6 DEF Conversation, Whole, Ok, Request, Quiet, Failing
<1>9. CASE OnLenReceived
  <2>1. op = "readLen" /\ op' = "readData" /\ UNCHANGED <<m_dataLen, id>>
    BY <1>9 DEF OnLenReceived, Dispatch, Starts, user
  <2>2. Reading /\ ~Writing' /\ m_dataLen = 1
    BY <1>6, <2>1 DEF Writing, Reading, Conversation, Whole, Ok, Failing
  <2>3. PICK j \in {id, 0} : \E reply \in Replies(j) : \E q \in 0 .. 3 :
               Received(reply, q, j) /\ (socket = "open" => IsRest(Coming, reply, q))
    BY <2>2 DEF Conversation, Response
  <2>4. PICK reply \in Replies(j), q \in 0 .. 3 :
               Received(reply, q, j) /\ (socket = "open" => IsRest(Coming, reply, q))
    BY <2>3
  <2>5. Received(reply, q, j)'
    BY <1>2, <1>3, <2>1, <2>4 DEF Received
  <2>6. Response'
    BY <1>3, <1>5, <2>1, <2>4, <2>5 DEF Response
  <2> QED BY <1>2, <1>4, <2>1, <2>2, <2>6 DEF Conversation, Whole, Ok, Request, Quiet, Failing
<1> QED BY <1>7, <1>8, <1>9

\* The two ends of an exchange: nothing more is to come, whether the response
\* is complete or the connection has failed.
LEMMA EndTalk ==
    ASSUME IInv, Conversation, OnDataReceived \/ OnFailed
    PROVE  Conversation'
<1>1. PICK kind : Turn("op") /\ Starts(kind) /\ kind \in {"none", "writeLen"}
  BY DEF OnDataReceived, OnFailed, StartsRound, Dispatch
<1>2. Ready /\ ~Ready' /\ op' = kind /\ OneTurn' /\ op # "none"
  BY <1>1, StartsTalk DEF OnDataReceived, OnFailed, Dispatch
<1>3. UNCHANGED <<ui, socket, server>>
  BY DEF OnDataReceived, OnFailed, user
<1>4. IdleSends'
  BY <1>2, <1>3 DEF Conversation, IdleSends
<1>5. Coming' = Coming
  BY <1>3 DEF Coming, server
<1>6. socket = "open" => Coming = <<>>
  <2> SUFFICES ASSUME socket = "open" PROVE Coming = <<>>
    OBVIOUS
  <2>1. rx \in Seq(Cells) /\ outbox \in Seq(Cells) /\ up \in BOOLEAN
    BY DEF IInv, TypeOK
  <2>2. CASE Failing
    BY <2>2 DEF Conversation, Quiet, Coming, Stream
  <2>3. CASE ~Failing
    <3>1. Ok
      BY <1>2, <2>1, <2>3 DEF Ok, Failing
    <3>2. CheckOperation
      BY <3>1 DEF Conversation, Whole, Ok, CheckOperation
    <3>3. op = "readData"
      BY <3>2 DEF OnDataReceived, OnFailed, Dispatch
    <3>4. Reading
      BY <3>3, <2>3 DEF Reading
    <3>5. PICK j \in {id, 0} : \E reply \in Replies(j) : \E q \in 0 .. 3 :
                 Received(reply, q, j) /\ IsRest(Coming, reply, q)
      BY <3>4 DEF Conversation, Response
    <3>6. PICK reply \in Replies(j), q \in 0 .. 3 :
                 Received(reply, q, j) /\ IsRest(Coming, reply, q)
      BY <3>5
    <3>7. q = Len(reply)
      BY <1>2, <3>3, <3>6 DEF Received
    <3>8. Coming \in Seq(Cells)
      BY <2>1, StreamType DEF Coming
    <3>9. Len(Coming) + q <= Len(reply) /\ Len(Coming) \in Nat
      BY <3>6, <3>8, LenProperties DEF IsRest
    <3>10. Len(Coming) = 0
      BY <3>7, <3>9
    <3> QED BY <3>8, <3>10, EmptySeq
  <2> QED BY <2>2, <2>3
<1>7. CASE kind = "none"
  <2>1. ~Writing' /\ ~Reading' /\ ~Ok' /\ ~Failing' /\ op' = "none"
    BY <1>2, <1>7 DEF Writing, Reading, Ok, Failing
  <2> QED BY <1>2, <1>3, <1>4, <1>5, <1>6, <2>1 DEF Conversation, Whole, Request, Quiet, Response
<1>8. CASE kind = "writeLen"
  <2>1. StartsRound
    BY <1>1, <1>8 DEF OnDataReceived, OnFailed, Starts
  <2>2. Writing' /\ ~Reading' /\ ~Ok' /\ ~Failing' /\ op' = "writeLen"
    BY <1>2, <1>8 DEF Writing, Reading, Ok, Failing
  <2>3. PICK request : request = [kind |-> "req", job |-> NextJob]
    OBVIOUS
  <2>4. m_dataBuf' = <<request>> /\ request.job = id' /\ m_dataLen' = 1
    BY <2>1, <2>3 DEF StartsRound
  <2>5. m_dataBuf' # <<>> /\ Len(m_dataBuf') = 1 /\ m_dataBuf'[1] = request
    BY <2>4
  <2>6. Request'
    BY <2>4, <2>5 DEF Request
  <2> QED BY <1>2, <1>3, <1>4, <1>5, <1>6, <2>2, <2>6 DEF Conversation, Whole, Quiet, Response
<1> QED BY <1>1, <1>7, <1>8

\* A timeout closes the socket, and fails what is outstanding on it.
LEMMA TimeoutTalk ==
    ASSUME IInv, Conversation, CheckTimeout
    PROVE  Conversation'
<1>1. /\ queue \in Seq(Handlers) /\ queue # <<>> /\ Head(queue) = "timeout" /\ One(queue)
      /\ Tail(queue) \in Seq(Handlers)
  BY HeadTailProperties DEF IInv, TypeOK, Handlers, CheckTimeout, Turn, Conversation, OneTurn
<1>2. One(Tail(queue)) /\ (Has(Tail(queue), "op") <=> Ready)
  BY <1>1, OneFacts DEF Ready, Has
<1>3. /\ socket' = "closed" /\ UNCHANGED <<user, op, m_dataLen, m_dataBuf, server>>
      /\ UNCHANGED <<ui, id>>
  BY DEF CheckTimeout, user
<1>4. IdleSends'
  BY <1>3 DEF Conversation, IdleSends
<1>5. CASE op # "none" /\ ~Ready
  <2>1. res' = [ec |-> TRUE, n |-> 0] /\ queue' = Append(Tail(queue), "op")
    BY <1>5 DEF CheckTimeout
  <2>2. One(queue') /\ Has(queue', "op")
    BY <1>1, <1>2, <1>5, <2>1, OneFacts
  <2>3. Ready' /\ ~Ok' /\ Failing'
    BY <2>1, <2>2 DEF Ready, Has, Ok, Failing
  <2>4. ~Reading' /\ (Writing' => Writing)
    BY <1>3, <2>3 DEF Reading, Writing
  <2>5. OneTurn' /\ Whole'
    BY <1>3, <1>5, <2>2, <2>3 DEF OneTurn, Conversation, Whole
  <2>6. Request' /\ Quiet' /\ Response'
    BY <1>3, <2>4 DEF Conversation, Request, Quiet, Response
  <2> QED BY <1>4, <2>5, <2>6 DEF Conversation
<1>6. CASE ~(op # "none" /\ ~Ready)
  <2>1. res' = res /\ queue' = Tail(queue)
    BY <1>6 DEF CheckTimeout
  <2>2. One(queue') /\ (Ready' <=> Ready)
    BY <1>2, <2>1 DEF Ready, Has
  <2>3. StreamKept
    BY <1>3 DEF StreamKept
  <2> QED BY <1>3, <1>4, <2>1, <2>2, <2>3, ConversationKept
<1> QED BY <1>5, <1>6

\* The operation completes once.
LEMMA CompletesTalk ==
    ASSUME IInv, Conversation, op # "none", ~Ready, UNCHANGED <<op, ui>>,
           NEW ec, NEW n, Completes(ec, n)
    PROVE  Ready' /\ OneTurn' /\ IdleSends' /\ res'.ec = ec /\ res'.n = n
<1>1. queue \in Seq(Handlers) /\ ~Has(queue, "op") /\ queue' = Append(queue, "op")
  BY DEF IInv, TypeOK, Handlers, Ready, Has, Completes
<1>2. One(queue') /\ Has(queue', "op")
  BY <1>1, OneFacts
<1>3. Ready'
  BY <1>2 DEF Ready, Has
<1>4. res'.ec = ec /\ res'.n = n
  BY DEF Completes
<1> QED BY <1>2, <1>3, <1>4 DEF OneTurn, IdleSends, Conversation

\* An operation that fails on an open socket leaves nothing to come: the server
\* has left, and what it had sent is read.
LEMMA FailsTalk ==
    ASSUME IInv, Conversation, NotOpen \/ WriteFails \/ ReadFails
    PROVE  Conversation'
<1>1. /\ op # "none" /\ ~Ready /\ Completes(TRUE, 0)
      /\ UNCHANGED <<user, socket, op, m_dataLen, server>>
  BY DEF NotOpen, WriteFails, ReadFails, Outstanding
<1>2. UNCHANGED <<ui, id>>
  BY <1>1 DEF user
<1>3. Ready' /\ OneTurn' /\ IdleSends' /\ Failing' /\ ~Ok'
  <2>1. PICK ec : ec = TRUE
    OBVIOUS
  <2>2. Ready' /\ OneTurn' /\ IdleSends' /\ res'.ec = ec
    BY <1>1, <1>2, <2>1, CompletesTalk
  <2> QED BY <2>1, <2>2 DEF Failing, Ok
<1>4. ~Reading' /\ (Writing' => Writing /\ op = "writeLen")
  BY <1>1, <1>3 DEF Reading, Writing
<1>5. op = "writeLen" => m_dataBuf' = m_dataBuf
  BY DEF NotOpen, WriteFails, ReadFails, Outstanding
<1>6. Whole' /\ Request' /\ Response'
  BY <1>1, <1>2, <1>3, <1>4, <1>5 DEF Conversation, Whole, Request, Response
<1>7. Coming' = Coming
  BY <1>1 DEF server, Coming
<1>8. socket = "open" => ~up' /\ rx' = <<>>
  <2> SUFFICES ASSUME socket = "open" PROVE ~up /\ rx = <<>>
    BY <1>1 DEF server
  <2>1. CASE WriteFails
    <3>1. Writing /\ ~up
      BY <1>1, <2>1 DEF WriteFails, Writing, Outstanding
    <3> QED BY <3>1 DEF Conversation, Quiet, Coming, Stream
  <2>2. CASE ~WriteFails
    BY <2>2 DEF NotOpen, ReadFails
  <2> QED BY <2>1, <2>2
<1>9. Quiet'
  BY <1>1, <1>4, <1>7, <1>8 DEF Conversation, Quiet
<1> QED BY <1>3, <1>6, <1>9 DEF Conversation

\* The answer is all that is to come.
LEMMA AnswerStream ==
    ASSUME NEW u \in BOOLEAN, NEW r \in Seq(Cells), NEW o \in Seq(Cells),
           NEW reply \in Seq(Cells), Stream(u, r, o) = <<>>
    PROVE  IsRest(Stream(u, r, o \o reply), reply, 0)
<1>1. PICK a \in Seq(Cells) : a = o \o reply
  BY ConcatCells
<1>2. /\ Len(r) \in Nat /\ Len(o) \in Nat /\ Len(reply) \in Nat
      /\ Len(a) = Len(o) + Len(reply)
      /\ \A k \in 1 .. Len(reply) : a[Len(o) + k] = reply[k]
  BY <1>1, ConcatCells
<1>3. Len(r) = 0 /\ (u => Len(o) = 0)
  <2>1. Len(Stream(u, r, o)) = 0
    BY EmptySeq
  <2> QED BY <1>2, <2>1, StreamType
<1>4. PICK s \in Seq(Cells) : s = Stream(u, r, a)
  BY StreamType
<1>5. /\ Len(s) = IF u THEN Len(r) + Len(a) ELSE Len(r)
      /\ u => \A k \in 1 .. Len(a) : s[Len(r) + k] = a[k]
  BY <1>4, StreamType
<1>6. CASE u
  <2>1. Len(s) = Len(reply) /\ Len(a) = Len(reply)
    BY <1>2, <1>3, <1>5, <1>6
  <2>2. ASSUME NEW k \in 1 .. Len(s) PROVE s[k] = reply[0 + k]
    <3>1. k \in 1 .. Len(a) /\ k \in 1 .. Len(reply) /\ 0 + k = k /\ Len(r) + k = k /\ Len(o) + k = k
      BY <1>2, <1>3, <1>6, <2>1
    <3> QED BY <1>2, <1>5, <1>6, <3>1
  <2>3. Len(reply) \in Nat /\ 0 \in Nat /\ Len(s) = Len(reply) - 0
    BY <1>2, <2>1
  <2>4. IsRest(s, reply, 0)
    BY <2>2, <2>3 DEF IsRest
  <2> QED BY <2>4, <1>1, <1>4
<1>7. CASE ~u
  <2>1. Len(s) = 0
    BY <1>3, <1>5, <1>7
  <2>2. IsRest(s, reply, 0)
    BY <1>2, <2>1 DEF IsRest
  <2> QED BY <2>2, <1>1, <1>4
<1> QED BY <1>6, <1>7

\* The request is written: what is to come is the reply to it, or to a frame
\* whose number is lost.
LEMMA WrittenTalk ==
    ASSUME IInv, Conversation, CompleteWriteLen \/ CompleteWriteData
    PROVE  Conversation'
<1>1. /\ op # "none" /\ ~Ready /\ socket = "open" /\ UNCHANGED <<ui, id, socket, op, m_dataLen, up, rx>>
      /\ Writing
  BY DEF CompleteWriteLen, CompleteWriteData, Outstanding, user, Writing, server
<1>2. /\ m_dataBuf # <<>> /\ m_dataBuf[Len(m_dataBuf)].job = id /\ m_dataLen = Len(m_dataBuf)
      /\ Coming = <<>>
  BY <1>1 DEF Conversation, Request, Quiet
<1> DEFINE ec == FALSE
<1>3. PICK n : Completes(ec, n) /\ n = IF op = "writeLen" THEN LenSize ELSE m_dataLen
  BY <1>2 DEF CompleteWriteLen, CompleteWriteData, Outstanding
<1>4. Ready' /\ OneTurn' /\ IdleSends' /\ res'.ec = ec /\ res'.n = n
  <2> HIDE DEF ec
  <2> QED BY <1>1, <1>3, CompletesTalk
<1>5. Ok' /\ ~Failing'
  BY <1>4 DEF Ok, Failing
<1>6. op \in {"writeLen", "writeData"} /\ Whole'
  <2>1. op \in {"writeLen", "writeData"}
    BY DEF CompleteWriteLen, CompleteWriteData, Outstanding
  <2> QED BY <1>1, <1>3, <1>4, <2>1 DEF Whole, ExpectedLength
<1>7. CASE CompleteWriteLen
  <2>1. op = "writeLen" /\ UNCHANGED <<m_dataBuf, outbox>>
    BY <1>7 DEF CompleteWriteLen, Outstanding, server
  <2>2. Writing' /\ ~Reading'
    BY <1>1, <1>5, <2>1 DEF Writing, Reading
  <2>3. Coming' = <<>>
    BY <1>1, <1>2, <2>1 DEF Coming
  <2> QED BY <1>1, <1>2, <1>4, <1>5, <1>6, <2>1, <2>2, <2>3 DEF Conversation, Request, Quiet, Response
<1>8. CASE CompleteWriteData
  <2>1. op' = "writeData" /\ m_dataBuf' = <<>>
    BY <1>1, <1>8 DEF CompleteWriteData, Outstanding
  <2>2. ~Writing' /\ Request' /\ Quiet'
    BY <1>4, <1>5, <2>1 DEF Writing, Request, Quiet
  <2>3. PICK j : j = AnswerTo(m_dataBuf)
    OBVIOUS
  <2>4. j \in {id', 0}
    BY <1>1, <1>2, <2>3 DEF AnswerTo
  <2>5. PICK reply \in Replies(j) : outbox' = outbox \o reply
    BY <1>8, <2>3 DEF CompleteWriteData
  <2>6. rx \in Seq(Cells) /\ outbox \in Seq(Cells) /\ up \in BOOLEAN /\ m_dataBuf \in Seq(Messages)
    BY DEF IInv, TypeOK
  <2>7. reply \in Seq(Cells)
    BY <1>2, <2>3, <2>6, ReplyType
  <2>8. IsRest(Coming', reply, 0)
    <3>1. Stream(up, rx, outbox) = <<>>
      BY <1>2 DEF Coming
    <3>2. IsRest(Stream(up, rx, outbox \o reply), reply, 0)
      BY <2>6, <2>7, <3>1, AnswerStream
    <3> QED BY <1>1, <2>5, <3>2 DEF Coming
  <2>9. Received(reply, 0, j)'
    BY <2>1 DEF Received
  <2>10. Response'
    <3>1. 0 \in 0 .. 3
      OBVIOUS
    <3> QED BY <2>4, <2>8, <2>9, <3>1 DEF Response
  <2> QED BY <1>4, <1>6, <2>2, <2>10 DEF Conversation
<1> QED BY <1>7, <1>8

\* Reading takes the cells of the reply in their order.
LEMMA ReadTalk ==
    ASSUME IInv, Conversation, CompleteReadLen \/ PartArrives \/ CompleteReadData
    PROVE  Conversation'
<1>1. /\ op \in {"readLen", "readData"} /\ ~Ready /\ socket = "open" /\ rx # <<>> /\ rx' = Tail(rx)
      /\ UNCHANGED <<ui, id, socket, op, up, outbox>>
  BY DEF CompleteReadLen, PartArrives, CompleteReadData, Outstanding, user
<1>2. Reading
  BY <1>1 DEF Reading, Failing
<1>3. PICK j \in {id, 0} : \E reply \in Replies(j) : \E q \in 0 .. 3 :
             Received(reply, q, j) /\ IsRest(Coming, reply, q)
  BY <1>1, <1>2 DEF Conversation, Response
<1>4. PICK reply \in Replies(j), q \in 0 .. 3 : Received(reply, q, j) /\ IsRest(Coming, reply, q)
  BY <1>3
<1>5. /\ Len(reply) \in {2, 3}
      /\ Len(reply) = 2 => reply[2].t = "body" /\ reply[2].job = j
      /\ Len(reply) = 3 => reply[2].t = "part" /\ reply[3].t = "rest" /\ reply[3].job = j
  BY ReplyCells
<1>6. IsRest(Coming', reply, q + 1) /\ q + 1 <= Len(reply) /\ Head(rx) = reply[q + 1]
  <2>1. rx \in Seq(Cells) /\ outbox \in Seq(Cells) /\ up \in BOOLEAN
    BY DEF IInv, TypeOK
  <2>2. IsRest(Stream(up, rx, outbox), reply, q) /\ q \in Nat /\ Len(reply) \in Nat
    BY <1>4, <1>5 DEF Coming
  <2>3. /\ IsRest(Stream(up, Tail(rx), outbox), reply, q + 1)
        /\ q + 1 <= Len(reply) /\ Head(rx) = reply[q + 1]
    BY <1>1, <2>1, <2>2, TakeCell
  <2> QED BY <1>1, <2>3 DEF Coming
<1>7. q + 1 \in 0 .. 3
  BY <1>5, <1>6
<1>8. ~Writing' /\ op' # "none" /\ Request'
  BY <1>1 DEF Writing, Request
<1>9. Received(reply, q + 1, j)' => Response'
  BY <1>1, <1>6, <1>7 DEF Response
<1>10. CASE PartArrives
  <2>1. /\ op = "readData" /\ Head(rx).t = "part" /\ m_dataBuf' = Append(m_dataBuf, TornPart)
        /\ UNCHANGED <<queue, res, m_dataLen>>
    BY <1>10 DEF PartArrives, Outstanding
  <2>2. ~Ready' /\ OneTurn' /\ IdleSends'
    BY <1>1, <2>1 DEF Ready, OneTurn, One, IdleSends, Conversation
  <2>3. q = 1 /\ Len(reply) = 3 /\ m_dataBuf = <<>>
    BY <1>1, <1>4, <1>5, <1>6, <2>1 DEF Received
  <2>4. m_dataBuf' = <<TornPart>>
    BY <2>1, <2>3
  <2>5. Received(reply, q + 1, j)'
    BY <1>1, <2>1, <2>2, <2>3, <2>4 DEF Received
  <2> QED BY <1>1, <1>8, <1>9, <2>1, <2>2, <2>5 DEF Conversation, Whole, Ok, Quiet, Failing
<1>11. CASE CompleteReadLen \/ CompleteReadData
  <2> DEFINE ec == FALSE
  <2>1. PICK n : Completes(ec, n) /\ n = IF op = "readLen" THEN LenSize ELSE 1
    BY <1>11 DEF CompleteReadLen, CompleteReadData, Outstanding
  <2>2. Ready' /\ OneTurn' /\ IdleSends' /\ res'.ec = ec /\ res'.n = n
    <3> HIDE DEF ec
    <3> QED BY <1>1, <2>1, CompletesTalk
  <2>3. Ok' /\ ~Failing'
    BY <2>2 DEF Ok, Failing
  <2>4. m_dataLen' = 1
    BY <1>1, <1>11 DEF CompleteReadLen, CompleteReadData, Outstanding, Conversation, Whole
  <2>5. Whole' /\ Quiet'
    BY <1>1, <1>8, <2>1, <2>2, <2>3, <2>4 DEF Whole, ExpectedLength, Quiet
  <2>6. Received(reply, q + 1, j)'
    <3>1. CASE CompleteReadLen
      <4>1. op = "readLen" /\ q = 0 /\ m_dataBuf = <<>> /\ m_dataBuf' = m_dataBuf
        BY <1>1, <1>4, <3>1 DEF CompleteReadLen, Outstanding, Received
      <4> QED BY <1>1, <2>2, <4>1 DEF Received
    <3>2. CASE CompleteReadData
      <4>1. PICK resp : resp = [kind |-> "resp", job |-> Head(rx).job]
        OBVIOUS
      <4>2. /\ op = "readData" /\ Head(rx).t # "part"
            /\ m_dataBuf' = IF Head(rx).t = "rest" THEN [m_dataBuf EXCEPT ![Len(m_dataBuf)] = resp]
                            ELSE Append(m_dataBuf, resp)
        BY <3>2, <4>1 DEF CompleteReadData, Outstanding
      <4>3. \/ q = 1 /\ m_dataBuf = <<>>
            \/ q = 2 /\ Len(reply) = 3 /\ m_dataBuf = <<TornPart>>
        BY <1>1, <1>4, <4>2 DEF Received
      <4>4. CASE q = 1 /\ m_dataBuf = <<>>
        <5>1. Len(reply) = 2 /\ Head(rx).t = "body" /\ Head(rx).job = j
          BY <1>5, <1>6, <4>2, <4>4
        <5>2. m_dataBuf' = <<resp>> /\ resp = [kind |-> "resp", job |-> j]
          BY <4>1, <4>2, <4>4, <5>1
        <5> QED BY <1>1, <2>2, <4>2, <4>4, <5>1, <5>2 DEF Received
      <4>5. CASE q = 2 /\ Len(reply) = 3 /\ m_dataBuf = <<TornPart>>
        <5>1. Head(rx).t = "rest" /\ Head(rx).job = j
          BY <1>5, <1>6, <4>5
        <5>2. resp = [kind |-> "resp", job |-> j]
          BY <4>1, <5>1
        <5>3. m_dataBuf' = <<resp>>
          <6>1. PICK torn : torn = TornPart
            OBVIOUS
          <6>2. m_dataBuf = <<torn>> /\ m_dataBuf' = [m_dataBuf EXCEPT ![Len(m_dataBuf)] = resp]
            BY <4>2, <4>5, <5>1, <6>1
          <6>3. Len(<<torn>>) = 1 /\ [<<torn>> EXCEPT ![1] = resp] = <<resp>>
            OBVIOUS
          <6> QED BY <6>2, <6>3
        <5> QED BY <1>1, <2>2, <4>2, <4>5, <5>2, <5>3 DEF Received
      <4> QED BY <4>3, <4>4, <4>5
    <3> QED BY <1>11, <3>1, <3>2
  <2> QED BY <1>8, <1>9, <2>2, <2>5, <2>6 DEF Conversation
<1> QED BY <1>10, <1>11 DEF CompleteReadLen, CompleteReadData, PartArrives

\* The program starts with nothing said.
LEMMA InitConversation == Init => Conversation
<1> SUFFICES ASSUME Init PROVE Conversation
  OBVIOUS
<1>1. op = "none" /\ queue = <<>> /\ socket = "closed"
  BY DEF Init
<1>2. ~Ready /\ One(queue)
  BY <1>1 DEF Ready, One
<1> QED BY <1>1, <1>2 DEF Conversation, OneTurn, IdleSends, Whole, Ok, Request, Writing, Quiet,
        Response, Reading

\* Every step keeps the conversation.
LEMMA NextTalk == IInv /\ Conversation /\ [Next]_vars => Conversation'
<1> SUFFICES ASSUME IInv, Conversation, [Next]_vars PROVE Conversation'
  OBVIOUS
<1>1. CASE ReadLoad \/ Eof \/ UserStep \/ UNCHANGED vars
  BY <1>1, UserTalk, SurroundingsTalk DEF UserStep
<1>2. CASE BackgroundStep
  BY <1>2, MiddleTalk, EndTalk, TimeoutTalk, SurroundingsTalk DEF BackgroundStep
<1>3. CASE Surroundings
  BY <1>3, FailsTalk, WrittenTalk, ReadTalk, SurroundingsTalk DEF Surroundings, Completion
<1> QED BY <1>1, <1>2, <1>3 DEF Next, Terminated

\* The buffer of an idle client holds something only after an exchange that
\* failed, whatever was torn and however often the client has reconnected: an
\* exchange that succeeds has emptied it.
THEOREM LeftoversTheorem == Spec => []LeftoversFollowFailure
<1>1. Init => LeftoversFollowFailure
  BY DEF Init, LeftoversFollowFailure
<1>2. LeftoversFollowFailure /\ [Next]_vars => LeftoversFollowFailure'
  <2> SUFFICES ASSUME LeftoversFollowFailure, [Next]_vars
               PROVE  LeftoversFollowFailure'
    OBVIOUS
  <2> USE DEF LeftoversFollowFailure
  <2>1. CASE UNCHANGED vars
    BY <2>1 DEF vars, chain
  <2>2. CASE SendFirst \/ SendRequest
    BY <2>2 DEF SendFirst, SendRequest, Sends
  <2>3. CASE OnFailed
    BY <2>3 DEF OnFailed
  <2>4. CASE OnDataReceived
    BY <2>4 DEF OnDataReceived, StartsRound, Starts
  <2>5. CASE OnLenSent \/ OnDataSent \/ OnLenReceived
    BY <2>5 DEF OnLenSent, OnDataSent, OnLenReceived, Starts
  <2>6. CASE \/ CompleteWriteData \/ WriteFails \/ PartArrives \/ CompleteReadData
    BY <2>6 DEF CompleteWriteData, WriteFails, PartArrives, CompleteReadData, Outstanding
  <2>7. CASE \/ ReadLoad \/ Eof \/ ConnectFirst \/ ConnectFirstFails \/ Reconnect
             \/ ReconnectFails \/ ResetGuard \/ Join \/ Terminated
    BY <2>7 DEF ReadLoad, Eof, ConnectFirst, ConnectFirstFails, Reconnect, ReconnectFails,
       ResetGuard, Join, Terminated, vars, chain
  <2>8. CASE \/ Loop \/ RunReturns \/ CheckTimeout \/ CheckTimeoutThrows
             \/ TimerExpires \/ ServerSends \/ ServerCloses
    BY <2>8 DEF Loop, RunReturns, CheckTimeout, CheckTimeoutThrows, TimerExpires, ServerSends,
       ServerCloses, chain
  <2>9. CASE NotOpen \/ CompleteWriteLen \/ CompleteReadLen \/ ReadFails
    BY <2>9 DEF NotOpen, CompleteWriteLen, CompleteReadLen, ReadFails
  <2> QED BY <2>1, <2>2, <2>3, <2>4, <2>5, <2>6, <2>7, <2>8, <2>9
          DEF Next, UserStep, BackgroundStep, Surroundings, Completion
<1> QED BY <1>1, <1>2, PTL DEF Spec

\* The response handler is given one whole response and nothing else, and it is
\* the response to the request of this exchange, or to a frame that an earlier
\* failure had made unreadable: whatever timeouts, failures and reconnections
\* came before, no answer of another exchange is left to be read, and nothing
\* of the last one to be sent again unless it has failed.
THEOREM ResponseTheorem == Spec => []ResponseIsOwn
<1>1. IInv /\ Conversation /\ LeftoversFollowFailure => ResponseIsOwn
  <2> SUFFICES ASSUME IInv, Conversation, LeftoversFollowFailure,
                      op = "readData", Ready, CheckOperation
               PROVE  \E j \in {id, 0} : m_dataBuf = <<[kind |-> "resp", job |-> j]>>
    BY DEF ResponseIsOwn
  <2>1. Reading
    BY DEF Reading, Failing, CheckOperation
  <2>2. PICK j \in {id, 0} : \E reply \in Replies(j) : \E q \in 0 .. 3 : Received(reply, q, j)
    BY <2>1 DEF Conversation, Response
  <2> QED BY <2>2 DEF Received
<1> QED BY <1>1, InitIInv, NextIInv, InitConversation, NextTalk, LeftoversTheorem, PTL DEF Spec
=============================================================================

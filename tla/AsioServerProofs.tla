-------------------------- MODULE AsioServerProofs --------------------------
(***************************************************************************)
(* Proofs about AsioServer, for any number of pool threads and any bounds: *)
(* first the registry, then what a session takes and sends, and last the   *)
(* same of its twin in the benchmark, with the total that it prints.       *)
(*                                                                         *)
(* IInv is inductive: the accept chain keeps the ids that will be given    *)
(* out untouched, the implicit strand keeps a session's operation and its  *)
(* handler apart, and on both rests what the registry says of the sessions *)
(* for which something still runs.  Each part has a lemma for its step,    *)
(* which assumes those of the parts it needs.                              *)
(***************************************************************************)
EXTENDS BmAsioServer, SequenceTheorems, FiniteSetTheorems, WellFoundedInduction, TLAPS

\* The program starts with every variable in its type.
LEMMA InitType == Init => TypeOK
<1> SUFFICES ASSUME Init PROVE TypeOK
  OBVIOUS
<1>1. RegistryType
  <2>1. m_clients = {} /\ m_clientIdCounter = 0 /\ raced = FALSE
    BY DEF Init
  <2>2. 0 \in 0 .. MaxId + 1
    BY SizesAssumption
  <2> QED BY <2>1, <2>2 DEF RegistryType
<1>2. SessionType
  BY DEF Init, SessionType, Ops, Results, Buffers, NoResult, Empty
<1>3. PoolType
  BY SizesAssumption DEF Init, PoolType, Ids
<1>4. ShutdownType
  BY DEF Init, ShutdownType
<1>5. WireType
  BY SizesAssumption DEF Init, WireType, Cells
<1> QED BY <1>1, <1>2, <1>3, <1>4, <1>5 DEF TypeOK

\* Erasures, insertions and the id counter stay among the ids: the accept chain
\* is what keeps the counter from running past the bound.
LEMMA RegistryStep ==
    ASSUME TypeOK, AcceptChain, Next
    PROVE  RegistryType'
<1>1. ASSUME NEW t \in Threads, NEW i \in Ids, OnAccept(t, i) \/ OnFailed(t, i)
      PROVE  RegistryType'
  <2>1. raced' \in BOOLEAN
    BY <1>1 DEF OnAccept, OnFailed, EnterMap
  <2> QED BY <1>1, <2>1 DEF TypeOK, RegistryType, OnAccept, OnFailed
<1>2. ASSUME NEW t \in Threads, InitiateAccept(t)
      PROVE  RegistryType'
  <2>1. m_clientIdCounter <= MaxId
    BY <1>2, SizesAssumption DEF AcceptChain, InitiateAccept, TypeOK, PoolType, Ids
  <2>2. m_clients' \subseteq m_clients \cup {m_clientIdCounter}
    BY <1>2 DEF InitiateAccept, AcceptsNext, MapBecomes
  <2> QED BY <1>2, <2>1, <2>2, SizesAssumption
          DEF TypeOK, RegistryType, Ids, InitiateAccept, AcceptsNext
<1>3. ASSUME NEW t \in Threads, OnDisconnect(t)
      PROVE  RegistryType'
  <2>1. m_clients' \subseteq m_clients
    BY <1>3 DEF OnDisconnect, MapBecomes
  <2> QED BY <1>3, <2>1 DEF TypeOK, RegistryType, OnDisconnect
<1>4. CASE Construct
  BY <1>4, SizesAssumption DEF TypeOK, RegistryType, AcceptChain, Construct, AcceptsNext,
     MapBecomes, Ids
<1>5. CASE UNCHANGED registry
  BY <1>5 DEF TypeOK, RegistryType, registry
<1>6. ASSUME NEW t \in Threads, ThreadStep(t)
      PROVE  \/ \E i \in Ids : OnAccept(t, i) \/ OnFailed(t, i)
             \/ InitiateAccept(t) \/ OnDisconnect(t)
             \/ UNCHANGED registry
  BY <1>6 DEF ThreadStep, Handler, OnAcceptError, InitiateCommunication, OnLenReceived,
     OnDataReceived, OnRequest, OnLenSent, OnDataSent, Loop, RunReturns
<1>7. ASSUME NEW i \in Ids, Completion(i) \/ PeerStep(i) \/ AcceptFails(i)
      PROVE  UNCHANGED registry
  BY <1>7 DEF Completion, PeerStep, Connect, AcceptFails, ReadFails, CompleteReadLen,
     CompleteReadData, WriteFails, CompleteWriteLen, CompleteWriteData, PeerSends, PeerLeaves
<1>8. CASE BindFails \/ Eof \/ MainStep \/ Terminated
  BY <1>5, <1>8 DEF BindFails, Eof, MainStep, ResetGuard, Stop, Join, Terminated, vars
<1> QED BY <1>1, <1>2, <1>3, <1>4, <1>5, <1>6, <1>7, <1>8 DEF Next

\* An async_ call leaves the session's operations and results well typed.
LEMMA StartsType ==
    ASSUME SessionType, NEW i \in Ids, NEW kind \in Ops, Starts(i, kind)
    PROVE  op' \in [Ids -> Ops] /\ res' \in [Ids -> Results]
<1>1. NoResult \in Results
  BY DEF NoResult, Results
<1> QED BY <1>1 DEF SessionType, Starts

\* So does its completion, with either outcome.
LEMMA CompletesType ==
    ASSUME SessionType, NEW i \in Ids, NEW failed \in BOOLEAN, NEW bytes \in Nat,
           Completes(i, failed, bytes)
    PROVE  res' \in [Ids -> Results]
<1>1. [ready |-> TRUE, ec |-> failed, n |-> bytes] \in Results
  BY DEF Results
<1> QED BY <1>1 DEF SessionType, Completes

\* What a connection delivers next, and what is left of it.
LEMMA NextCell ==
    ASSUME WireType, NEW i \in Ids, rx[i] # <<>>
    PROVE  Head(rx[i]) \in Cells /\ Tail(rx[i]) \in Seq(Cells)
BY HeadTailProperties DEF WireType

\* The bytes a read has moved into a session's buffer are a number.
LEMMA TransferredType ==
    ASSUME SessionType, NEW i \in Ids
    PROVE  Transferred(i) \in Nat
BY SizesAssumption DEF SessionType, Buffers, Transferred, Room

\* A session's operation, result, lengths and buffer keep their types through its
\* handlers (client.cpp:14-71) and completions.
LEMMA SessionStep ==
    ASSUME TypeOK, AcceptChain, Next
    PROVE  SessionType'
<1> USE DEF TypeOK
<1>1. ASSUME NEW t \in Threads, NEW i \in Ids, Handler(t, i)
      PROVE  SessionType'
  <2>1. PICK kind \in Ops : Starts(i, kind)
    BY <1>1 DEF Handler, OnAcceptError, OnAccept, OnLenReceived, OnDataReceived, OnLenSent,
       OnDataSent, OnFailed, InitiateReceiveRequest, Ops
  <2>2. op' \in [Ids -> Ops] /\ res' \in [Ids -> Results]
    BY <2>1, StartsType
  <2>3. m_dataLen' \in [Ids -> Nat] /\ m_dataBuf' = m_dataBuf
    BY <1>1 DEF SessionType, Handler, OnAcceptError, OnAccept, OnLenReceived, OnDataReceived,
       OnLenSent, OnDataSent, OnFailed, InitiateReceiveRequest
  <2> QED BY <2>2, <2>3 DEF SessionType
<1>2. ASSUME NEW t \in Threads, InitiateAccept(t)
      PROVE  SessionType'
  <2>1. m_clientIdCounter \in Ids
    BY <1>2, SizesAssumption DEF AcceptChain, InitiateAccept, PoolType, RegistryType, Ids
  <2>2. op' \in [Ids -> Ops] /\ res' \in [Ids -> Results]
    BY <1>2, <2>1, StartsType DEF InitiateAccept, AcceptsNext, Ops
  <2> QED BY <1>2, <2>2 DEF SessionType, InitiateAccept
<1>3. ASSUME NEW t \in Threads, InitiateCommunication(t)
      PROVE  SessionType'
  <2>1. cur[t] \in Ids
    BY DEF PoolType
  <2>2. op' \in [Ids -> Ops] /\ res' \in [Ids -> Results]
    BY <1>3, <2>1, StartsType DEF InitiateCommunication, InitiateReceiveRequest, Ops
  <2> QED BY <1>3, <2>1, <2>2 DEF SessionType, InitiateCommunication, InitiateReceiveRequest
<1>4. ASSUME NEW t \in Threads, OnRequest(t)
      PROVE  SessionType'
  <2>1. cur[t] \in Ids
    BY DEF PoolType
  <2>2. op' \in [Ids -> Ops] /\ res' \in [Ids -> Results]
    BY <1>4, <2>1, StartsType DEF OnRequest, Ops
  <2>3. Response(m_dataBuf[cur[t]]) \in Buffers
    BY <2>1, SizesAssumption DEF SessionType, Response, Buffers
  <2> QED BY <1>4, <2>1, <2>2, <2>3 DEF SessionType, OnRequest, Buffers
<1>5. CASE Construct
  <2>1. 0 \in Ids
    BY SizesAssumption DEF Ids
  <2>2. op' \in [Ids -> Ops] /\ res' \in [Ids -> Results]
    BY <1>5, <2>1, StartsType DEF Construct, AcceptsNext, Ops
  <2> QED BY <1>5, <2>2 DEF SessionType, Construct
<1>6. ASSUME NEW i \in Ids, Connect(i) \/ AcceptFails(i) \/ ReadFails(i) \/ WriteFails(i)
                            \/ CompleteWriteLen(i)
      PROVE  SessionType'
  <2>1. PICK failed \in BOOLEAN, bytes \in Nat : Completes(i, failed, bytes)
    BY <1>6 DEF Connect, AcceptFails, ReadFails, WriteFails, CompleteWriteLen, LenSize
  <2>2. res' \in [Ids -> Results]
    BY <2>1, CompletesType
  <2>3. UNCHANGED <<op, m_dataLen, m_dataBuf>>
    BY <1>6 DEF Connect, AcceptFails, ReadFails, WriteFails, CompleteWriteLen
  <2> QED BY <2>2, <2>3 DEF SessionType
<1>7. ASSUME NEW i \in Ids, CompleteReadLen(i)
      PROVE  SessionType'
  <2>1. Head(rx[i]).n \in Nat
    BY <1>7, NextCell DEF CompleteReadLen, Cells
  <2>2. res' \in [Ids -> Results]
    BY <1>7, CompletesType DEF CompleteReadLen, LenSize
  <2> QED BY <1>7, <2>1, <2>2 DEF SessionType, CompleteReadLen
<1>8. ASSUME NEW i \in Ids, CompleteReadData(i)
      PROVE  SessionType'
  <2>1. Head(rx[i]).job \in Nat
    BY <1>8, NextCell DEF CompleteReadData, Cells
  <2>2. Transferred(i) \in Nat
    BY TransferredType
  <2>3. res' \in [Ids -> Results]
    BY <1>8, <2>2, CompletesType DEF CompleteReadData
  <2>4. [job |-> Head(rx[i]).job, size |-> m_dataBuf[i].size + Transferred(i)] \in Buffers
    BY <2>1, <2>2 DEF SessionType, Buffers
  <2> QED BY <1>8, <2>3, <2>4 DEF SessionType, CompleteReadData
<1>9. ASSUME NEW i \in Ids, CompleteWriteData(i)
      PROVE  SessionType'
  <2>1. m_dataBuf[i].size \in Nat /\ Empty \in Buffers
    BY DEF SessionType, Buffers, Empty
  <2>2. res' \in [Ids -> Results]
    BY <1>9, <2>1, CompletesType DEF CompleteWriteData
  <2> QED BY <1>9, <2>1, <2>2 DEF SessionType, CompleteWriteData
<1>10. CASE UNCHANGED session
  BY <1>10 DEF SessionType, session
<1>11. ASSUME NEW t \in Threads, OnDisconnect(t) \/ Loop(t) \/ RunReturns(t)
       PROVE  UNCHANGED session
  BY <1>11 DEF OnDisconnect, Loop, RunReturns
<1>12. ASSUME NEW i \in Ids, PeerSends(i) \/ PeerLeaves(i)
       PROVE  UNCHANGED session
  BY <1>12 DEF PeerSends, PeerLeaves
<1>13. CASE BindFails \/ Eof \/ MainStep \/ Terminated
  BY <1>10, <1>13 DEF BindFails, Eof, MainStep, ResetGuard, Stop, Join, Terminated, vars
<1> QED BY <1>1, <1>2, <1>3, <1>4, <1>5, <1>6, <1>7, <1>8, <1>9, <1>10, <1>11, <1>12, <1>13
        DEF Next, ThreadStep, Completion, PeerStep

\* A pool thread is at a known place, with a session that exists.
LEMMA PoolStep ==
    ASSUME TypeOK, Next
    PROVE  PoolType'
<1> USE DEF TypeOK
<1>1. ASSUME NEW t \in Threads, NEW i \in Ids,
             OnAccept(t, i) \/ OnDataReceived(t, i) \/ OnFailed(t, i)
      PROVE  PoolType'
  BY <1>1 DEF PoolType, OnAccept, OnDataReceived, OnFailed, EnterMap, Goes, Busy, InMap
<1>2. ASSUME NEW t \in Threads,
             \/ \E i \in Ids : OnAcceptError(t, i)
             \/ InitiateAccept(t) \/ InitiateCommunication(t) \/ OnRequest(t)
             \/ OnDisconnect(t) \/ Loop(t) \/ RunReturns(t)
      PROVE  PoolType'
  BY <1>2 DEF PoolType, OnAcceptError, InitiateAccept, InitiateCommunication, OnRequest,
     OnDisconnect, Loop, RunReturns, Goes, Busy, InMap
<1>3. CASE UNCHANGED pool
  BY <1>3 DEF PoolType, pool
<1>4. ASSUME NEW t \in Threads, NEW i \in Ids,
             OnLenReceived(t, i) \/ OnLenSent(t, i) \/ OnDataSent(t, i)
      PROVE  UNCHANGED pool
  BY <1>4 DEF OnLenReceived, OnLenSent, OnDataSent
<1>5. ASSUME NEW i \in Ids, Completion(i) \/ PeerStep(i) \/ AcceptFails(i)
      PROVE  UNCHANGED pool
  BY <1>5 DEF Completion, PeerStep, Connect, AcceptFails, ReadFails, CompleteReadLen,
     CompleteReadData, WriteFails, CompleteWriteLen, CompleteWriteData, PeerSends, PeerLeaves
<1>6. CASE Construct \/ BindFails \/ Eof \/ MainStep \/ Terminated
  BY <1>3, <1>6 DEF Construct, BindFails, Eof, MainStep, ResetGuard, Stop, Join,
     Terminated, vars
<1> QED BY <1>1, <1>2, <1>3, <1>4, <1>5, <1>6 DEF Next, ThreadStep, Handler

\* main() and the flags of the shutdown keep their types.
LEMMA ShutdownStep ==
    ASSUME TypeOK, Next
    PROVE  ShutdownType'
<1> USE DEF TypeOK
<1>1. CASE Construct \/ BindFails \/ Eof \/ MainStep
  BY <1>1 DEF ShutdownType, Construct, BindFails, Eof, MainStep, ResetGuard, Stop, Join
<1>2. ASSUME NEW t \in Threads, RunReturns(t)
      PROVE  ShutdownType'
  BY <1>2 DEF ShutdownType, RunReturns
<1>3. CASE UNCHANGED shutdown
  BY <1>3 DEF ShutdownType, shutdown
<1>4. ASSUME NEW t \in Threads, ThreadStep(t),
             ~RunReturns(t), ~InitiateAccept(t), ~OnDisconnect(t)
      PROVE  UNCHANGED shutdown
  BY <1>4 DEF ThreadStep, Handler, OnAcceptError, OnAccept,
     InitiateCommunication, OnLenReceived, OnDataReceived, OnRequest, OnLenSent, OnDataSent,
     OnFailed, Loop
<1>5. ASSUME NEW i \in Ids, Completion(i) \/ PeerStep(i) \/ AcceptFails(i)
      PROVE  UNCHANGED shutdown
  BY <1>5 DEF Completion, PeerStep, Connect, AcceptFails, ReadFails, CompleteReadLen,
     CompleteReadData, WriteFails, CompleteWriteLen, CompleteWriteData, PeerSends, PeerLeaves
<1>6. CASE Terminated
  BY <1>3, <1>6 DEF Terminated, vars
<1>7. ASSUME NEW t \in Threads, InitiateAccept(t) \/ OnDisconnect(t)
      PROVE  ShutdownType'
  <2>1. main' \in {main, "crashed"}
    BY <1>7 DEF InitiateAccept, OnDisconnect, MapSurvives
  <2> QED BY <1>7, <2>1 DEF ShutdownType, InitiateAccept, OnDisconnect
<1> QED BY <1>1, <1>2, <1>3, <1>4, <1>5, <1>6, <1>7 DEF Next

\* What the peers send and what they are sent are frames' cells throughout.
LEMMA WireStep ==
    ASSUME TypeOK, Next
    PROVE  WireType'
<1> USE DEF TypeOK
<1>1. ASSUME NEW t \in Threads, OnDisconnect(t)
      PROVE  WireType'
  BY <1>1 DEF WireType, OnDisconnect
<1>2. ASSUME NEW i \in Ids, Connect(i)
      PROVE  WireType'
  BY <1>2 DEF WireType, Connect
<1>3. ASSUME NEW i \in Ids, CompleteReadLen(i) \/ CompleteReadData(i)
      PROVE  WireType'
  <2>1. Tail(rx[i]) \in Seq(Cells)
    BY <1>3, NextCell DEF CompleteReadLen, CompleteReadData
  <2> QED BY <1>3, <2>1 DEF WireType, CompleteReadLen, CompleteReadData
<1>4. ASSUME NEW i \in Ids, CompleteWriteLen(i) \/ CompleteWriteData(i)
      PROVE  WireType'
  <2>1. PICK cell \in Cells : tx' = [tx EXCEPT ![i] = Append(@, cell)]
    BY <1>4 DEF SessionType, Buffers, Cells, CompleteWriteLen, CompleteWriteData
  <2>2. Append(tx[i], cell) \in Seq(Cells)
    BY <2>1, AppendProperties DEF WireType
  <2> QED BY <1>4, <2>1, <2>2 DEF WireType, CompleteWriteLen, CompleteWriteData
<1>5. ASSUME NEW i \in Ids, PeerSends(i)
      PROVE  WireType'
  <2>1. PICK n \in ReqSizes :
          rx' = [rx EXCEPT ![i] = @ \o <<[t |-> "len", job |-> 0, n |-> n],
                                         [t |-> "body", job |-> sent[i] + 1, n |-> n]>>]
    BY <1>5 DEF PeerSends
  <2> DEFINE frame == <<[t |-> "len", job |-> 0, n |-> n],
                        [t |-> "body", job |-> sent[i] + 1, n |-> n]>>
  <2>2. frame \in Seq(Cells)
    BY SizesAssumption DEF WireType, Cells
  <2>3. rx[i] \o frame \in Seq(Cells)
    BY <2>2, ConcatProperties DEF WireType
  <2>4. sent[i] + 1 \in 0 .. MaxReq
    BY <1>5, SizesAssumption DEF PeerSends, WireType
  <2> QED BY <1>5, <2>1, <2>3, <2>4 DEF WireType, PeerSends
<1>6. ASSUME NEW i \in Ids, PeerLeaves(i)
      PROVE  WireType'
  <2>1. PICK k \in 0 .. Len(rx[i]) : rx' = [rx EXCEPT ![i] = SubSeq(@, 1, k)]
    BY <1>6 DEF PeerLeaves
  <2>2. SubSeq(rx[i], 1, k) \in Seq(Cells)
    BY SubSeqProperties DEF WireType
  <2> QED BY <1>6, <2>1, <2>2 DEF WireType, PeerLeaves
<1>7. CASE UNCHANGED wire
  BY <1>7 DEF WireType, wire
<1>8. ASSUME NEW t \in Threads, ThreadStep(t), ~OnDisconnect(t)
      PROVE  UNCHANGED wire
  BY <1>8 DEF ThreadStep, Handler, OnAcceptError, OnAccept, InitiateAccept,
     InitiateCommunication, OnLenReceived, OnDataReceived, OnRequest, OnLenSent, OnDataSent,
     OnFailed, Loop, RunReturns
<1>9. ASSUME NEW i \in Ids, AcceptFails(i) \/ ReadFails(i) \/ WriteFails(i)
      PROVE  UNCHANGED wire
  BY <1>9 DEF AcceptFails, ReadFails, WriteFails
<1>10. CASE Construct \/ BindFails \/ Eof \/ MainStep \/ Terminated
  BY <1>7, <1>10 DEF Construct, BindFails, Eof, MainStep, ResetGuard, Stop, Join,
     Terminated, vars
<1> QED BY <1>1, <1>2, <1>3, <1>4, <1>5, <1>6, <1>7, <1>8, <1>9, <1>10
        DEF Next, Completion, PeerStep

\* The five parts together: a step keeps every type.
LEMMA TypeStep ==
    ASSUME TypeOK, AcceptChain, Next
    PROVE  TypeOK'
BY RegistryStep, SessionStep, PoolStep, ShutdownStep, WireStep DEF TypeOK

\* An operation is outstanding only on a session no thread is busy with.
LEMMA IdleOwner ==
    ASSUME OneChainPerSession, NEW i \in Ids, op[i] # "none", NEW t \in Threads
    PROVE  ~(at[t] \in Busy /\ cur[t] = i)
BY DEF OneChainPerSession

\* The implicit strand: a step leaves each session with one operation or one
\* handler, never both. Who takes an operation up frees it in the same step, and
\* who starts one gives the session up.
LEMMA OneChainStep ==
    ASSUME TypeOK, AcceptChain, OneChainPerSession, Next
    PROVE  OneChainPerSession'
<1> USE DEF TypeOK
<1>1. ASSUME NEW t \in Threads, NEW i \in Ids,
             OnAccept(t, i) \/ OnDataReceived(t, i) \/ OnFailed(t, i)
      PROVE  OneChainPerSession'
  <2>1. op[i] # "none" /\ op' = [op EXCEPT ![i] = "none"] /\ cur' = [cur EXCEPT ![t] = i]
    BY <1>1 DEF OnAccept, OnDataReceived, OnFailed, EnterMap, Dispatch, Starts
  <2>2. PICK place : at' = [at EXCEPT ![t] = place]
    BY <1>1 DEF OnAccept, OnDataReceived, OnFailed, EnterMap, Goes
  <2>3. \A u \in Threads : ~(at[u] \in Busy /\ cur[u] = i)
    BY <2>1, IdleOwner
  <2> QED BY <2>1, <2>2, <2>3 DEF OneChainPerSession, SessionType, PoolType
<1>2. ASSUME NEW t \in Threads, NEW i \in Ids,
             OnLenReceived(t, i) \/ OnLenSent(t, i) \/ OnDataSent(t, i)
      PROVE  OneChainPerSession'
  <2>1. PICK kind : op[i] # "none" /\ op' = [op EXCEPT ![i] = kind] /\ UNCHANGED pool
    BY <1>2 DEF OnLenReceived, OnLenSent, OnDataSent, InitiateReceiveRequest, Dispatch, Starts
  <2>2. \A u \in Threads : ~(at[u] \in Busy /\ cur[u] = i)
    BY <2>1, IdleOwner
  <2> QED BY <2>1, <2>2 DEF OneChainPerSession, SessionType, pool
<1>3. ASSUME NEW t \in Threads, NEW i \in Ids, OnAcceptError(t, i)
      PROVE  OneChainPerSession'
  <2>1. op' = [op EXCEPT ![i] = "none"] /\ at' = [at EXCEPT ![t] = "loop"] /\ cur' = cur
    BY <1>3 DEF OnAcceptError, Starts, Goes
  <2> QED BY <2>1 DEF OneChainPerSession, SessionType, PoolType, Busy, InMap
<1>4. ASSUME NEW t \in Threads, InitiateAccept(t)
      PROVE  OneChainPerSession'
  <2> DEFINE c == m_clientIdCounter
  <2>1. op' = [op EXCEPT ![c] = "accept"] /\ at' = [at EXCEPT ![t] = "begin"] /\ cur' = cur
    BY <1>4 DEF InitiateAccept, AcceptsNext, Starts, Goes
  <2>2. at[t] \in Busy
    BY <1>4 DEF InitiateAccept, Busy, InMap
  <2>3. \A u \in Threads : at[u] \in Busy => cur[u] # c
    BY SizesAssumption DEF AcceptChain, PoolType, RegistryType, Ids
  <2>4. "begin" \in Busy
    BY DEF Busy
  <2> QED BY <2>1, <2>2, <2>3, <2>4 DEF OneChainPerSession, SessionType, PoolType
<1>5. ASSUME NEW t \in Threads, InitiateCommunication(t) \/ OnRequest(t)
      PROVE  OneChainPerSession'
  <2>1. PICK kind : op' = [op EXCEPT ![cur[t]] = kind]
    BY <1>5 DEF InitiateCommunication, InitiateReceiveRequest, OnRequest, Starts
  <2>2. at' = [at EXCEPT ![t] = "run"] /\ cur' = cur
    BY <1>5 DEF InitiateCommunication, OnRequest, Goes
  <2>3. at[t] \in Busy /\ "run" \notin Busy
    BY <1>5 DEF InitiateCommunication, OnRequest, Busy, InMap
  <2> QED BY <2>1, <2>2, <2>3 DEF OneChainPerSession, SessionType, PoolType
<1>6. ASSUME NEW t \in Threads, OnDisconnect(t) \/ Loop(t) \/ RunReturns(t)
      PROVE  OneChainPerSession'
  <2>1. UNCHANGED <<op, cur>>
    BY <1>6 DEF OnDisconnect, Loop, RunReturns, session
  <2>2. PICK place : place \notin Busy /\ at' = [at EXCEPT ![t] = place]
    BY <1>6 DEF OnDisconnect, Loop, RunReturns, Goes, Busy, InMap
  <2> QED BY <2>1, <2>2 DEF OneChainPerSession, PoolType
<1>7. CASE Construct
  <2>1. \A u \in Threads : at[u] \notin Busy
    BY <1>7 DEF Construct, AcceptChain, PoolType, Ids
  <2> QED BY <1>7, <2>1 DEF OneChainPerSession, Construct, pool
<1>8. CASE UNCHANGED <<op, pool>>
  BY <1>8 DEF OneChainPerSession, pool
<1>9. ASSUME NEW i \in Ids, Completion(i) \/ PeerStep(i) \/ AcceptFails(i)
      PROVE  UNCHANGED <<op, pool>>
  BY <1>9 DEF Completion, PeerStep, Connect, AcceptFails, ReadFails, CompleteReadLen,
     CompleteReadData, WriteFails, CompleteWriteLen, CompleteWriteData, PeerSends, PeerLeaves,
     session
<1>10. CASE BindFails \/ Eof \/ MainStep \/ Terminated
  BY <1>8, <1>10 DEF BindFails, Eof, MainStep, ResetGuard, Stop, Join, Terminated,
     vars, session
<1> QED BY <1>1, <1>2, <1>3, <1>4, <1>5, <1>6, <1>7, <1>8, <1>9, <1>10
        DEF Next, ThreadStep, Handler

\* An id with an operation, an entry or a connection has been given out.
LEMMA GivenOut ==
    ASSUME TypeOK, AcceptChain, NEW i \in Ids,
           op[i] # "none" \/ i \in m_clients \/ peer[i] # "absent"
    PROVE  i < m_clientIdCounter
BY SizesAssumption DEF TypeOK, RegistryType, AcceptChain, Ids

\* A step leaves at most one accept outstanding, for the newest id, and touches no
\* id that is still to be given out.
LEMMA AcceptChainStep ==
    ASSUME TypeOK, AcceptChain, OneChainPerSession, Next
    PROVE  AcceptChain'
<1> USE DEF TypeOK
<1>0. m_clientIdCounter \in Nat /\ \A i \in Ids : i \in Nat
  BY SizesAssumption DEF RegistryType, Ids
<1>1. ASSUME NEW t \in Threads, NEW i \in Ids, OnAccept(t, i)
      PROVE  AcceptChain'
  <2>1. op[i] = "accept" /\ res[i].ready /\ ~res[i].ec
    BY <1>1 DEF OnAccept, Dispatch
  <2>2. m_clientIdCounter = i + 1 /\ i < MaxId
    BY <2>1 DEF AcceptChain
  <2>3. /\ op' = [op EXCEPT ![i] = "none"] /\ res' = [res EXCEPT ![i] = NoResult]
        /\ at' = [at EXCEPT ![t] = "emplace"] /\ cur' = [cur EXCEPT ![t] = i]
        /\ UNCHANGED <<m_clients, m_clientIdCounter, main, peer>>
    BY <1>1 DEF OnAccept, EnterMap, Starts, Goes, shutdown, wire
  <2> QED BY <1>0, <2>2, <2>3 DEF AcceptChain, SessionType, PoolType
<1>2. ASSUME NEW t \in Threads, NEW i \in Ids, OnDataReceived(t, i) \/ OnFailed(t, i)
      PROVE  AcceptChain'
  <2>1. i < m_clientIdCounter
    BY <1>2, GivenOut DEF OnDataReceived, OnFailed, Dispatch
  <2>2. /\ op' = [op EXCEPT ![i] = "none"] /\ res' = [res EXCEPT ![i] = NoResult]
        /\ cur' = [cur EXCEPT ![t] = i]
        /\ UNCHANGED <<m_clients, m_clientIdCounter, main, peer>>
    BY <1>2 DEF OnDataReceived, OnFailed, EnterMap, Starts, registry, shutdown, wire
  <2>3. PICK place : place # "emplace" /\ at' = [at EXCEPT ![t] = place]
    BY <1>2 DEF OnDataReceived, OnFailed, EnterMap, Goes
  <2> QED BY <1>0, <2>1, <2>2, <2>3 DEF AcceptChain, SessionType, PoolType
<1>3. ASSUME NEW t \in Threads, NEW i \in Ids,
             OnLenReceived(t, i) \/ OnLenSent(t, i) \/ OnDataSent(t, i)
      PROVE  AcceptChain'
  <2>1. i < m_clientIdCounter
    BY <1>3, GivenOut DEF OnLenReceived, OnLenSent, OnDataSent, Dispatch
  <2>2. PICK kind : /\ kind # "accept"
                    /\ op' = [op EXCEPT ![i] = kind]
                    /\ res' = [res EXCEPT ![i] = NoResult]
    BY <1>3 DEF OnLenReceived, OnLenSent, OnDataSent, InitiateReceiveRequest, Starts
  <2>3. UNCHANGED <<m_clients, m_clientIdCounter, at, cur, main, peer>>
    BY <1>3 DEF OnLenReceived, OnLenSent, OnDataSent, registry, pool, shutdown, wire
  <2> QED BY <1>0, <2>1, <2>2, <2>3 DEF AcceptChain, SessionType
<1>4. ASSUME NEW t \in Threads, NEW i \in Ids, OnAcceptError(t, i)
      PROVE  AcceptChain'
  <2>1. /\ op' = [op EXCEPT ![i] = "none"] /\ res' = [res EXCEPT ![i] = NoResult]
        /\ at' = [at EXCEPT ![t] = "loop"]
        /\ UNCHANGED <<m_clients, m_clientIdCounter, cur, main, peer>>
    BY <1>4 DEF OnAcceptError, Starts, Goes, registry, shutdown, wire
  <2> QED BY <1>0, <2>1 DEF AcceptChain, SessionType, PoolType, Busy, InMap
<1>5. ASSUME NEW t \in Threads, InitiateAccept(t)
      PROVE  AcceptChain'
  <2> DEFINE c == m_clientIdCounter
  <2>1. at[t] = "emplace" /\ at[t] \in Busy /\ cur[t] \in Ids
    BY <1>5 DEF InitiateAccept, Busy, InMap, PoolType
  <2>2. c = cur[t] + 1 /\ c \in Ids
    BY <2>1, SizesAssumption DEF AcceptChain, Ids
  <2>3. /\ op' = [op EXCEPT ![c] = "accept"] /\ res' = [res EXCEPT ![c] = NoResult]
        /\ at' = [at EXCEPT ![t] = "begin"] /\ m_clientIdCounter' = c + 1
        /\ m_clients' \subseteq m_clients \cup {c}
        /\ main' \in {main, "crashed"} /\ UNCHANGED <<cur, peer>>
    BY <1>5 DEF InitiateAccept, AcceptsNext, MapBecomes, MapSurvives, Starts, Goes, wire
  <2>4. ASSUME NEW i \in Ids, op[i] = "accept"
        PROVE  FALSE
    <3>1. c = i + 1
      BY <2>4 DEF AcceptChain
    <3>2. i \in Nat /\ cur[t] \in Nat
      BY <1>0, <2>1
    <3>3. i = cur[t]
      BY <2>2, <3>1, <3>2
    <3> QED BY <2>1, <2>4, <3>3 DEF OneChainPerSession
  <2>5. ASSUME NEW u \in Threads \ {t}, at[u] = "emplace"
        PROVE  FALSE
    <3>1. c = cur[u] + 1 /\ cur[u] \in Ids /\ at[u] \in Busy
      BY <2>5 DEF AcceptChain, PoolType, Busy, InMap
    <3>2. cur[u] \in Nat /\ cur[t] \in Nat
      BY <1>0, <2>1, <3>1
    <3>3. cur[u] = cur[t]
      BY <2>2, <3>1, <3>2
    <3> QED BY <2>1, <2>5, <3>1, <3>3 DEF OneChainPerSession
  <2>6. peer[c] = "absent" /\ main # "ctor"
    <3>1. cur[t] \in Nat
      BY <1>0, <2>1
    <3>2. c >= m_clientIdCounter /\ c # 0
      BY <1>0, <2>2, <3>1
    <3> QED BY <2>2, <3>2 DEF AcceptChain
  <2>7. \A i \in Ids : op'[i] = "accept" => i = c /\ ~res'[i].ready /\ peer'[i] = "absent"
    BY <2>2, <2>3, <2>4, <2>6 DEF SessionType, NoResult
  <2>8. \A u \in Threads : at'[u] # "emplace" /\ (at'[u] \in Busy => cur'[u] < c + 1)
    <3> SUFFICES ASSUME NEW u \in Threads
                 PROVE  at'[u] # "emplace" /\ (at'[u] \in Busy => cur'[u] < c + 1)
      OBVIOUS
    <3>1. cur[u] \in Nat /\ (at[u] \in Busy => cur[u] < c)
      BY <1>0 DEF AcceptChain, PoolType
    <3>2. CASE u = t
      BY <1>0, <2>1, <2>3, <3>1, <3>2 DEF PoolType
    <3>3. CASE u # t
      BY <1>0, <2>3, <2>5, <3>1, <3>3 DEF PoolType
    <3> QED BY <3>2, <3>3
  <2>9. \A i \in Ids : i >= c + 1 => op'[i] = "none" /\ i \notin m_clients' /\ peer'[i] = "absent"
    BY <1>0, <2>2, <2>3 DEF AcceptChain, SessionType
  <2> QED BY <2>3, <2>6, <2>7, <2>8, <2>9 DEF AcceptChain
<1>6. ASSUME NEW t \in Threads, InitiateCommunication(t) \/ OnRequest(t)
      PROVE  AcceptChain'
  <2>1. at[t] \in Busy /\ cur[t] \in Ids
    BY <1>6 DEF InitiateCommunication, OnRequest, Busy, InMap, PoolType
  <2>2. PICK kind : /\ kind # "accept"
                    /\ op' = [op EXCEPT ![cur[t]] = kind]
                    /\ res' = [res EXCEPT ![cur[t]] = NoResult]
    BY <1>6 DEF InitiateCommunication, InitiateReceiveRequest, OnRequest, Starts
  <2>3. /\ at' = [at EXCEPT ![t] = "run"]
        /\ UNCHANGED <<m_clients, m_clientIdCounter, cur, main, peer>>
    BY <1>6 DEF InitiateCommunication, OnRequest, Goes, registry, shutdown, wire
  <2>4. cur[t] < m_clientIdCounter
    BY <2>1 DEF AcceptChain
  <2> QED BY <1>0, <2>1, <2>2, <2>3, <2>4 DEF AcceptChain, SessionType, PoolType, Busy, InMap
<1>7. ASSUME NEW t \in Threads, OnDisconnect(t)
      PROVE  AcceptChain'
  <2> DEFINE i == cur[t]
  <2>1. at[t] \in Busy /\ i \in Ids
    BY <1>7 DEF OnDisconnect, Busy, InMap, PoolType
  <2>2. op[i] = "none" /\ i < m_clientIdCounter
    BY <2>1 DEF OneChainPerSession, AcceptChain
  <2>3. /\ m_clients' \subseteq m_clients
        /\ at' = [at EXCEPT ![t] = "run"]
        /\ main' \in {main, "crashed"} /\ UNCHANGED <<m_clientIdCounter, op, res, cur>>
    BY <1>7 DEF OnDisconnect, MapBecomes, MapSurvives, Goes, session
  <2>4. \A j \in Ids : j # i => peer'[j] = peer[j]
    BY <1>7 DEF OnDisconnect, WireType
  <2> QED BY <1>0, <2>1, <2>2, <2>3, <2>4 DEF AcceptChain, PoolType, Busy, InMap
<1>8. ASSUME NEW t \in Threads, Loop(t) \/ RunReturns(t)
      PROVE  AcceptChain'
  <2>1. PICK place : place \notin Busy /\ at' = [at EXCEPT ![t] = place]
    BY <1>8 DEF Loop, RunReturns, Goes, Busy, InMap
  <2>2. UNCHANGED <<m_clients, m_clientIdCounter, op, res, cur, main, peer>>
    BY <1>8 DEF Loop, RunReturns, registry, session, shutdown, wire
  <2> QED BY <2>1, <2>2 DEF AcceptChain, PoolType, Busy, InMap
<1>9. CASE Construct
  <2>1. /\ m_clientIdCounter = 0 /\ m_clientIdCounter' = 1 /\ main' = "serving"
        /\ op' = [op EXCEPT ![0] = "accept"] /\ res' = [res EXCEPT ![0] = NoResult]
        /\ m_clients' \subseteq m_clients \cup {0}
        /\ UNCHANGED <<at, cur, peer>>
    BY <1>9 DEF Construct, AcceptChain, AcceptsNext, MapBecomes, Starts, pool, wire
  <2>2. \A u \in Threads : at[u] \notin Busy /\ at[u] # "emplace"
    BY <1>0, <2>1 DEF AcceptChain, PoolType, Busy, InMap
  <2>3. 0 \in Ids
    BY SizesAssumption DEF Ids
  <2>4. \A i \in Ids : op[i] = "none" /\ i \notin m_clients /\ peer[i] = "absent"
    BY <1>0, <2>1 DEF AcceptChain
  <2> QED BY <1>0, <2>1, <2>2, <2>3, <2>4 DEF AcceptChain, SessionType, NoResult
<1>10. ASSUME NEW i \in Ids, Connect(i) \/ AcceptFails(i)
       PROVE  AcceptChain'
  <2>1. op[i] = "accept" /\ ~res[i].ready
    BY <1>10 DEF Connect, AcceptFails, Outstanding
  <2>2. i < m_clientIdCounter /\ m_clientIdCounter = i + 1 /\ peer[i] = "absent"
    BY <2>1, GivenOut DEF AcceptChain
  <2>3. UNCHANGED <<m_clients, m_clientIdCounter, op, at, cur, main>>
    BY <1>10 DEF Connect, AcceptFails, registry, pool, shutdown
  <2>4. \A j \in Ids \ {i} : res'[j] = res[j] /\ peer'[j] = peer[j]
    BY <1>10 DEF Connect, AcceptFails, Completes, SessionType, WireType, wire
  <2>5. IF res'[i].ready /\ ~res'[i].ec THEN i < MaxId ELSE peer'[i] = "absent"
    BY <1>10, <2>2 DEF Connect, AcceptFails, Completes, SessionType, wire
  <2> QED BY <1>0, <2>2, <2>3, <2>4, <2>5 DEF AcceptChain
<1>11. ASSUME NEW i \in Ids, Completion(i)
       PROVE  AcceptChain'
  <2>1. op[i] # "accept"
    BY <1>11 DEF Completion, Outstanding, ReadFails, CompleteReadLen, CompleteReadData,
       WriteFails, CompleteWriteLen, CompleteWriteData
  <2>2. \A j \in Ids \ {i} : res'[j] = res[j]
    BY <1>11 DEF Completion, Completes, SessionType, ReadFails, CompleteReadLen,
       CompleteReadData, WriteFails, CompleteWriteLen, CompleteWriteData
  <2>3. UNCHANGED <<m_clients, m_clientIdCounter, op, at, cur, main, peer>>
    BY <1>11 DEF Completion, ReadFails, CompleteReadLen, CompleteReadData, WriteFails,
       CompleteWriteLen, CompleteWriteData, registry, pool, shutdown, wire
  <2> QED BY <2>1, <2>2, <2>3 DEF AcceptChain
<1>12. ASSUME NEW i \in Ids, PeerSends(i) \/ PeerLeaves(i)
       PROVE  AcceptChain'
  <2>1. peer[i] = "connected"
    BY <1>12 DEF PeerSends, PeerLeaves
  <2>2. i < m_clientIdCounter
    BY <2>1, GivenOut
  <2>3. UNCHANGED <<m_clients, m_clientIdCounter, op, res, at, cur, main>>
    BY <1>12 DEF PeerSends, PeerLeaves, registry, session, pool, shutdown
  <2>4. \A j \in Ids \ {i} : peer'[j] = peer[j]
    BY <1>12 DEF PeerSends, PeerLeaves, WireType
  <2>5. op[i] = "accept" => res[i].ready /\ ~res[i].ec
    BY <2>1 DEF AcceptChain
  <2> QED BY <1>0, <2>2, <2>3, <2>4, <2>5 DEF AcceptChain
<1>13. CASE BindFails \/ Eof \/ MainStep \/ Terminated
  <2>1. UNCHANGED <<m_clients, m_clientIdCounter, op, res, at, cur, peer>>
    BY <1>13 DEF BindFails, Eof, MainStep, ResetGuard, Stop, Join, Terminated,
       vars, registry, session, pool, wire
  <2>2. main' = "ctor" => main = "ctor"
    BY <1>13 DEF BindFails, Eof, MainStep, ResetGuard, Stop, Join, Terminated,
       vars, shutdown
  <2> QED BY <2>1, <2>2 DEF AcceptChain
<1> QED BY <1>1, <1>2, <1>3, <1>4, <1>5, <1>6, <1>7, <1>8, <1>9, <1>10, <1>11, <1>12, <1>13
        DEF Next, ThreadStep, Handler, PeerStep

\* The steps that pass a session on from an operation to a handler, from a
\* handler to an operation, or leave both alone.
LEMMA OwnershipKept ==
    ASSUME TypeOK, Next,
           \A t \in Threads : ~InitiateAccept(t) /\ ~OnDisconnect(t),
           \A t \in Threads, i \in Ids : ~OnAcceptError(t, i),
           ~Construct
    PROVE  \A j \in Ids : Owned(j)' <=> Owned(j)
<1> USE DEF TypeOK
<1>1. ASSUME NEW t \in Threads, NEW i \in Ids,
             OnAccept(t, i) \/ OnDataReceived(t, i) \/ OnFailed(t, i)
      PROVE  \A j \in Ids : Owned(j)' <=> Owned(j)
  <2>1. /\ op[i] # "none" /\ op' = [op EXCEPT ![i] = "none"]
        /\ at[t] \notin Busy /\ cur' = [cur EXCEPT ![t] = i]
    BY <1>1 DEF OnAccept, OnDataReceived, OnFailed, EnterMap, Dispatch, Starts, Busy, InMap
  <2>2. PICK place \in Busy : at' = [at EXCEPT ![t] = place]
    BY <1>1 DEF OnAccept, OnDataReceived, OnFailed, EnterMap, Goes, Busy, InMap
  <2> QED BY <2>1, <2>2 DEF Owned, SessionType, PoolType
<1>2. ASSUME NEW t \in Threads, NEW i \in Ids,
             OnLenReceived(t, i) \/ OnLenSent(t, i) \/ OnDataSent(t, i)
      PROVE  \A j \in Ids : Owned(j)' <=> Owned(j)
  <2>1. PICK kind : /\ kind # "none" /\ op[i] # "none"
                    /\ op' = [op EXCEPT ![i] = kind] /\ at' = at /\ cur' = cur
    BY <1>2 DEF OnLenReceived, OnLenSent, OnDataSent, InitiateReceiveRequest, Dispatch, Starts,
       pool
  <2> QED BY <2>1 DEF Owned, SessionType
<1>3. ASSUME NEW t \in Threads, InitiateCommunication(t) \/ OnRequest(t)
      PROVE  \A j \in Ids : Owned(j)' <=> Owned(j)
  <2>1. PICK kind : kind # "none" /\ op' = [op EXCEPT ![cur[t]] = kind]
    BY <1>3 DEF InitiateCommunication, InitiateReceiveRequest, OnRequest, Starts
  <2>2. at' = [at EXCEPT ![t] = "run"] /\ cur' = cur /\ at[t] \in Busy /\ "run" \notin Busy
    BY <1>3 DEF InitiateCommunication, OnRequest, Goes, Busy, InMap
  <2> QED BY <2>1, <2>2 DEF Owned, SessionType, PoolType
<1>4. ASSUME NEW t \in Threads, Loop(t) \/ RunReturns(t)
      PROVE  \A j \in Ids : Owned(j)' <=> Owned(j)
  <2>1. PICK place : place \notin Busy /\ at' = [at EXCEPT ![t] = place]
    BY <1>4 DEF Loop, RunReturns, Goes, Busy, InMap
  <2>2. at[t] \notin Busy /\ UNCHANGED <<op, cur>>
    BY <1>4 DEF Loop, RunReturns, Busy, InMap, session
  <2> QED BY <2>1, <2>2 DEF Owned, PoolType
<1>5. CASE UNCHANGED <<op, at, cur>>
  BY <1>5 DEF Owned
<1>6. ASSUME NEW i \in Ids, Completion(i) \/ PeerStep(i) \/ AcceptFails(i)
      PROVE  UNCHANGED <<op, at, cur>>
  BY <1>6 DEF Completion, PeerStep, Connect, AcceptFails, ReadFails, CompleteReadLen,
     CompleteReadData, WriteFails, CompleteWriteLen, CompleteWriteData, PeerSends, PeerLeaves,
     session, pool
<1>7. CASE BindFails \/ Eof \/ MainStep \/ Terminated
  BY <1>5, <1>7 DEF BindFails, Eof, MainStep, ResetGuard, Stop, Join, Terminated,
     vars, session, pool
<1> QED BY <1>1, <1>2, <1>3, <1>4, <1>5, <1>6, <1>7 DEF Next, ThreadStep, Handler

\* A race in the map is never taken back: where there is none, there was none.
LEMMA RacedStays ==
    ASSUME Next, raced
    PROVE  raced'
<1>1. ASSUME NEW t \in Threads, ThreadStep(t)
      PROVE  raced'
  BY <1>1 DEF ThreadStep, Handler, OnAcceptError, OnAccept, EnterMap, InitiateAccept,
     InitiateCommunication, OnLenReceived, OnDataReceived, OnRequest, OnLenSent, OnDataSent,
     OnFailed, OnDisconnect, Loop, RunReturns, registry
<1>2. ASSUME NEW i \in Ids, Completion(i) \/ PeerStep(i) \/ AcceptFails(i)
      PROVE  raced'
  BY <1>2 DEF Completion, PeerStep, Connect, AcceptFails, ReadFails, CompleteReadLen,
     CompleteReadData, WriteFails, CompleteWriteLen, CompleteWriteData, PeerSends, PeerLeaves,
     registry
<1>3. CASE Construct \/ BindFails \/ Eof \/ MainStep \/ Terminated
  BY <1>3 DEF Construct, BindFails, Eof, MainStep, ResetGuard, Stop, Join,
     Terminated, vars, registry
<1> QED BY <1>1, <1>2, <1>3 DEF Next

\* As long as there is no race, a step leaves the map's entries and the sessions
\* something runs for in agreement, but for failed accepts.
LEMMA StoredStep ==
    ASSUME TypeOK, AcceptChain, OneChainPerSession, OwnedIsStored, Next
    PROVE  OwnedIsStored' /\ (StoredIsOwned => StoredIsOwned')
<1> USE DEF TypeOK
<1> SUFFICES ASSUME ~raced'
             PROVE  /\ \A j \in Ids : Owned(j)' => j \in m_clients'
                    /\ \A j \in m_clients' : StoredIsOwned /\ ~Owned(j)' => peer'[j] = "absent"
  BY DEF OwnedIsStored, StoredIsOwned
<1>0. /\ ~raced
      /\ \A j \in Ids : Owned(j) => j \in m_clients
      /\ \A j \in m_clients : j \in Ids /\ (StoredIsOwned /\ ~Owned(j) => peer[j] = "absent")
  BY RacedStays DEF OwnedIsStored, StoredIsOwned, RegistryType
<1>1. ASSUME NEW t \in Threads, NEW i \in Ids, OnAcceptError(t, i)
      PROVE  /\ \A j \in Ids : Owned(j)' => j \in m_clients'
             /\ \A j \in m_clients' : StoredIsOwned /\ ~Owned(j)' => peer'[j] = "absent"
  <2>1. /\ op[i] = "accept" /\ res[i].ec /\ at[t] \notin Busy /\ "loop" \notin Busy
        /\ op' = [op EXCEPT ![i] = "none"] /\ at' = [at EXCEPT ![t] = "loop"]
        /\ UNCHANGED <<m_clients, cur, peer>>
    BY <1>1 DEF OnAcceptError, Dispatch, Starts, Goes, Busy, InMap, registry, wire
  <2>2. peer[i] = "absent"
    BY <2>1 DEF AcceptChain
  <2>3. \A j \in Ids : Owned(j)' => Owned(j)
    BY <2>1 DEF Owned, SessionType, PoolType
  <2>4. \A j \in Ids : j # i => (Owned(j) => Owned(j)')
    BY <2>1 DEF Owned, SessionType, PoolType
  <2> QED BY <1>0, <2>1, <2>2, <2>3, <2>4
<1>2. ASSUME NEW t \in Threads, InitiateAccept(t)
      PROVE  /\ \A j \in Ids : Owned(j)' => j \in m_clients'
             /\ \A j \in m_clients' : StoredIsOwned /\ ~Owned(j)' => peer'[j] = "absent"
  <2>0. PICK c : c = m_clientIdCounter
    OBVIOUS
  <2>1. /\ at[t] \in Busy /\ "begin" \in Busy
        /\ op' = [op EXCEPT ![c] = "accept"] /\ at' = [at EXCEPT ![t] = "begin"]
        /\ m_clients' = m_clients \cup {c} /\ UNCHANGED <<cur, peer>>
    BY <1>0, <1>2, <2>0 DEF InitiateAccept, AcceptsNext, MapBecomes, Starts, Goes, Busy, InMap, wire
  <2>2. c \in Ids
    BY <1>2, <2>0, SizesAssumption DEF AcceptChain, InitiateAccept, PoolType, RegistryType, Ids
  <2>3. \A j \in Ids : j # c => (Owned(j)' <=> Owned(j))
    BY <2>1 DEF Owned, SessionType, PoolType
  <2>4. Owned(c)'
    BY <2>1, <2>2 DEF Owned, SessionType
  <2> QED BY <1>0, <2>1, <2>2, <2>3, <2>4
<1>3. ASSUME NEW t \in Threads, OnDisconnect(t)
      PROVE  /\ \A j \in Ids : Owned(j)' => j \in m_clients'
             /\ \A j \in m_clients' : StoredIsOwned /\ ~Owned(j)' => peer'[j] = "absent"
  <2>0. PICK i : i = cur[t]
    OBVIOUS
  <2>1. /\ at[t] \in Busy /\ i \in Ids
    BY <1>3, <2>0 DEF OnDisconnect, Busy, InMap, PoolType
  <2>2. /\ m_clients' = m_clients \ {i} /\ UNCHANGED <<op, cur>>
        /\ at' = [at EXCEPT ![t] = "run"] /\ "run" \notin Busy
    BY <1>0, <1>3, <2>0 DEF OnDisconnect, MapBecomes, Goes, Busy, InMap, session
  <2>3. \A j \in Ids : j # i => peer'[j] = peer[j]
    BY <1>3, <2>0 DEF OnDisconnect, WireType
  <2>4. ~Owned(i)'
    BY <2>0, <2>1, <2>2 DEF OneChainPerSession, Owned, PoolType
  <2>5. \A j \in Ids : j # i => (Owned(j)' <=> Owned(j))
    BY <2>0, <2>2 DEF Owned, PoolType
  <2> QED BY <1>0, <2>2, <2>3, <2>4, <2>5
<1>4. CASE Construct
  <2>1. /\ op' = [op EXCEPT ![0] = "accept"] /\ m_clients' = m_clients \cup {0}
        /\ UNCHANGED <<at, cur, peer>>
    BY <1>0, <1>4 DEF Construct, AcceptsNext, MapBecomes, Starts, pool, wire
  <2>2. 0 \in Ids
    BY SizesAssumption DEF Ids
  <2>3. \A j \in Ids : j # 0 => (Owned(j)' <=> Owned(j))
    BY <2>1 DEF Owned, SessionType
  <2>4. Owned(0)'
    BY <2>1, <2>2 DEF Owned, SessionType
  <2> QED BY <1>0, <2>1, <2>2, <2>3, <2>4
<1>5. CASE /\ \A t \in Threads : ~InitiateAccept(t) /\ ~OnDisconnect(t)
           /\ \A t \in Threads, i \in Ids : ~OnAcceptError(t, i)
           /\ ~Construct
  <2>1. \A j \in Ids : Owned(j)' <=> Owned(j)
    BY <1>5, OwnershipKept
  <2>2. m_clients' = m_clients
    <3>1. ASSUME NEW t \in Threads, ThreadStep(t)
          PROVE  m_clients' = m_clients
      BY <1>5, <3>1 DEF ThreadStep, Handler, OnAccept, InitiateCommunication, OnLenReceived,
         OnDataReceived, OnRequest, OnLenSent, OnDataSent, OnFailed, Loop, RunReturns, registry
    <3>2. ASSUME NEW i \in Ids, Completion(i) \/ PeerStep(i) \/ AcceptFails(i)
          PROVE  m_clients' = m_clients
      BY <3>2 DEF Completion, PeerStep, Connect, AcceptFails, ReadFails, CompleteReadLen,
         CompleteReadData, WriteFails, CompleteWriteLen, CompleteWriteData, PeerSends,
         PeerLeaves, registry
    <3>3. CASE BindFails \/ Eof \/ MainStep \/ Terminated
      BY <3>3 DEF BindFails, Eof, MainStep, ResetGuard, Stop, Join, Terminated, vars,
         registry
    <3> QED BY <1>5, <3>1, <3>2, <3>3 DEF Next
  <2>3. \A j \in Ids : ~Owned(j) /\ peer[j] = "absent" => peer'[j] = "absent"
    <3>1. ASSUME NEW t \in Threads, ThreadStep(t)
          PROVE  peer' = peer
      BY <1>5, <3>1 DEF ThreadStep, Handler, OnAccept, InitiateCommunication, OnLenReceived,
         OnDataReceived, OnRequest, OnLenSent, OnDataSent, OnFailed, Loop, RunReturns, wire
    <3>2. ASSUME NEW i \in Ids, Connect(i) \/ PeerLeaves(i)
          PROVE  \A j \in Ids : ~Owned(j) /\ peer[j] = "absent" => peer'[j] = "absent"
      <4>1. Owned(i) \/ peer[i] # "absent"
        BY <3>2 DEF Connect, Outstanding, PeerLeaves, Owned
      <4>2. \A j \in Ids : j # i => peer'[j] = peer[j]
        BY <3>2 DEF Connect, PeerLeaves, WireType
      <4> QED BY <4>1, <4>2
    <3>3. ASSUME NEW i \in Ids, Completion(i) \/ PeerSends(i) \/ AcceptFails(i)
          PROVE  peer' = peer
      BY <3>3 DEF Completion, AcceptFails, ReadFails, CompleteReadLen, CompleteReadData,
         WriteFails, CompleteWriteLen, CompleteWriteData, PeerSends, wire
    <3>4. CASE BindFails \/ Eof \/ MainStep \/ Terminated
      BY <3>4 DEF BindFails, Eof, MainStep, ResetGuard, Stop, Join, Terminated, vars,
         wire
    <3> QED BY <1>5, <3>1, <3>2, <3>3, <3>4 DEF Next, PeerStep
  <2> QED BY <1>0, <2>1, <2>2, <2>3
<1> QED BY <1>1, <1>2, <1>3, <1>4, <1>5

(***************************************************************************)
(* The inductive invariant.  OneChainPerSession alone is not inductive: a  *)
(* re-armed accept could fall on an id that is in use, were it not for     *)
(* AcceptChain; and that invariant in turn needs the sessions' chains to   *)
(* be single, so that only one thread at a time re-arms the accept.        *)
(***************************************************************************)
Base == TypeOK /\ AcceptChain /\ OneChainPerSession
IInv == Base /\ OwnedIsStored /\ StoredIsOwned

\* The first state satisfies the inductive invariant.
LEMMA InitInvariant == Init => IInv
<1> SUFFICES ASSUME Init PROVE IInv
  OBVIOUS
<1>1. TypeOK
  BY InitType
<1>2. \A i \in Ids : op[i] = "none" /\ peer[i] = "absent"
  BY DEF Init
<1>3. \A t \in Threads : at[t] \notin Busy /\ at[t] # "emplace"
  BY DEF Init, Busy, InMap
<1>4. m_clients = {} /\ m_clientIdCounter = 0
  BY DEF Init
<1> QED BY <1>1, <1>2, <1>3, <1>4
        DEF IInv, Base, AcceptChain, OneChainPerSession, OwnedIsStored, StoredIsOwned, Owned

\* Every step keeps it: this is where the lemmas of the parts meet.
LEMMA StepInvariant == IInv /\ [Next]_vars => IInv'
<1> SUFFICES ASSUME IInv, [Next]_vars PROVE IInv'
  OBVIOUS
<1>1. CASE Next
  BY <1>1, TypeStep, AcceptChainStep, OneChainStep, StoredStep DEF IInv, Base
<1>2. CASE UNCHANGED vars
  BY <1>2 DEF IInv, Base, vars, registry, session, pool, shutdown, wire, TypeOK, RegistryType,
     SessionType, PoolType, ShutdownType, WireType, AcceptChain, OneChainPerSession,
     OwnedIsStored, StoredIsOwned, Owned
<1> QED BY <1>1, <1>2

\* The inductive invariant holds in every reachable state.
THEOREM Invariance == Spec => []IInv
<1>1. Init => IInv
  BY InitInvariant
<1>2. IInv /\ [Next]_vars => IInv'
  BY StepInvariant
<1> QED BY <1>1, <1>2, PTL DEF Spec

\* Every variable keeps its type; in particular no id exceeds the bound.
THEOREM TypeCorrect == Spec => []TypeOK
BY Invariance, PTL DEF IInv, Base

\* The implicit strand, for any number of threads and connections.
THEOREM ImplicitStrand == Spec => []OneChainPerSession
BY Invariance, PTL DEF IInv, Base

\* The accept chain never forks and never reuses an id.
THEOREM AcceptChainHolds == Spec => []AcceptChain
BY Invariance, PTL DEF IInv, Base

\* As long as no two threads have met in the session map, no handler runs for
\* an erased session: who has an operation or a handler is in the map.
THEOREM OwnedTheorem == Spec => []OwnedIsStored
BY Invariance, PTL DEF IInv, Base

\* As long as no two threads have met in the session map, no session is
\* forgotten: an entry for which nothing runs never had a connection.
THEOREM StoredTheorem == Spec => []StoredIsOwned
BY Invariance, PTL DEF IInv, Base

-----------------------------------------------------------------------------
(***************************************************************************)
(* The chain of a session, for any number of threads, connections and      *)
(* requests: a handler sees one whole request, the responses are whole and *)
(* in order, and the server implements RequestService.  The operation that *)
(* is outstanding, its result and the handler that runs tell how many of   *)
(* its peer's cells a session has taken, and whether one of the two cells  *)
(* of a response is out.                                                   *)
(***************************************************************************)
\* A thread is in a handler of session i.
In(i, place) == \E t \in Threads : at[t] = place /\ cur[t] = i

Ok(i)       == res[i].ready /\ ~res[i].ec
HasLen(i)   == (op[i] = "readLen" /\ Ok(i)) \/ (op[i] = "readData" /\ ~Ok(i))
HalfSent(i) == (op[i] = "writeLen" /\ Ok(i)) \/ (op[i] = "writeData" /\ ~Ok(i))
HasBody(i)  == \/ op[i] = "readData" /\ Ok(i)
               \/ In(i, "work")
               \/ op[i] = "writeLen"
               \/ op[i] = "writeData" /\ ~Ok(i)

Replies(i) == Len(tx[i]) \div 2

\* The cells of the connection that the session has taken.
InHand(i) == IF HasBody(i) THEN 2 ELSE IF HasLen(i) THEN 1 ELSE 0
Taken(i)  == 2 * Replies(i) + InHand(i)

\* A part of what a peer sends, that begins after p cells: every second cell is
\* the body of the next request.
JobsFrom(s, p) == \A k \in 1 .. Len(s) : \A m \in Nat : p + k = 2 * m => s[k].job = m

\* The session has come to its end.
Dead(i) == ~Open(i) /\ peer[i] # "absent"

Placed(i) ==
    /\ Len(tx[i]) = 2 * Replies(i) + (IF HalfSent(i) THEN 1 ELSE 0)
    /\ JobsFrom(rx[i], Taken(i))
    /\ peer[i] # "gone" => Taken(i) + Len(rx[i]) = 2 * sent[i]
    /\ IF HasBody(i) THEN m_dataBuf[i].job = Replies(i) + 1 ELSE m_dataBuf[i] = Empty

\* The length in m_dataLen against the size of what is in the buffer.
Sized(i) ==
    /\ op[i] = "readData" /\ Ok(i) => m_dataBuf[i].size = res[i].n
    /\ In(i, "work") => m_dataBuf[i].size = m_dataLen[i]
    /\ op[i] = "writeLen" \/ (op[i] = "writeData" /\ ~Ok(i)) =>
         m_dataBuf[i].size = RespSize /\ m_dataLen[i] = RespSize

\* What runs for a session runs for a peer that has connected.
Met(i) ==
    /\ op[i] \notin {"none", "accept"} \/ (op[i] = "accept" /\ Ok(i)) => peer[i] # "absent"
    /\ \A place \in Busy : In(i, place) => peer[i] # "absent"

InOrder(i) ==
    \A k \in 1 .. Len(tx[i]) :
        tx[i][k] = IF k % 2 = 1 THEN [t |-> "len", job |-> 0, n |-> RespSize]
                   ELSE [t |-> "body", job |-> k \div 2, n |-> RespSize]

Chain(i) == Met(i) /\ Sized(i) /\ InOrder(i) /\ (Dead(i) \/ Placed(i))

Chains == \A i \in Ids : Chain(i)

\* The refinement mapping, and a step under it.
Conn(i)    == IF Open(i) THEN "open" ELSE IF peer[i] = "absent" THEN "free" ELSE "closed"
Current(i) == IF Serving(i) THEN m_dataBuf[i].job ELSE 0
Answers(i) == [k \in 1 .. Replies(i) |-> tx[i][2 * k].job]

ServiceStep == Service!SNext \/ UNCHANGED Service!svars

(***************************************************************************)
(* Numbers and sequences.                                                  *)
(***************************************************************************)
\* Frames are made of two cells.
LEMMA Halves ==
    ASSUME NEW n \in Nat
    PROVE  /\ (2 * n) \div 2 = n /\ (2 * n + 1) \div 2 = n
           /\ (2 * n) % 2 = 0 /\ (2 * n + 1) % 2 = 1
OBVIOUS

\* A number is even or odd.
LEMMA HalfOf ==
    ASSUME NEW n \in Nat
    PROVE  n \div 2 \in Nat /\ (n = 2 * (n \div 2) \/ n = 2 * (n \div 2) + 1)
OBVIOUS

\* The first cell, and those behind it.
LEMMA JobsTail ==
    ASSUME NEW s \in Seq(Cells), NEW p \in Nat, JobsFrom(s, p), s # <<>>
    PROVE  /\ JobsFrom(Tail(s), p + 1)
           /\ \A m \in Nat : p + 1 = 2 * m => Head(s).job = m
           /\ Len(s) \in Nat /\ Len(Tail(s)) = Len(s) - 1
<1>1. /\ Len(s) \in Nat \ {0} /\ Len(Tail(s)) = Len(s) - 1 /\ Head(s) = s[1]
      /\ \A k \in 1 .. Len(Tail(s)) : Tail(s)[k] = s[k + 1]
  BY HeadTailProperties, EmptySeq
<1>2. ASSUME NEW k \in 1 .. Len(Tail(s)), NEW m \in Nat, p + 1 + k = 2 * m
      PROVE  Tail(s)[k].job = m
  <2>1. k + 1 \in 1 .. Len(s) /\ p + (k + 1) = 2 * m
    BY <1>1, <1>2
  <2> QED BY <1>1, <2>1 DEF JobsFrom
<1>3. 1 \in 1 .. Len(s)
  BY <1>1
<1> QED BY <1>1, <1>2, <1>3 DEF JobsFrom

\* One sequence behind another.
LEMMA Concatenated ==
    ASSUME NEW s \in Seq(Cells), NEW r \in Seq(Cells)
    PROVE  /\ Len(s) \in Nat /\ Len(s \o r) = Len(s) + Len(r) /\ s \o r \in Seq(Cells)
           /\ \A k \in 1 .. Len(s) + Len(r) :
                (s \o r)[k] = IF k <= Len(s) THEN s[k] ELSE r[k - Len(s)]
BY ConcatProperties, LenProperties

\* A frame behind what a peer has sent.
LEMMA JobsFrame ==
    ASSUME NEW s \in Seq(Cells), NEW p \in Nat, NEW n \in Nat, NEW f \in Seq(Cells),
           JobsFrom(s, p), p + Len(s) = 2 * n, Len(f) = 2, f[2].job = n + 1
    PROVE  JobsFrom(s \o f, p) /\ Len(s \o f) = Len(s) + 2 /\ s \o f \in Seq(Cells)
<1>1. /\ Len(s) \in Nat /\ Len(s \o f) = Len(s) + 2 /\ s \o f \in Seq(Cells)
      /\ \A k \in 1 .. Len(s) + 2 : (s \o f)[k] = IF k <= Len(s) THEN s[k] ELSE f[k - Len(s)]
  BY Concatenated
<1>2. ASSUME NEW k \in 1 .. Len(s \o f), NEW m \in Nat, p + k = 2 * m
      PROVE  (s \o f)[k].job = m
  <2>1. CASE k <= Len(s)
    <3>1. k \in 1 .. Len(s)
      BY <1>1, <2>1
    <3> QED BY <1>1, <1>2, <2>1, <3>1 DEF JobsFrom
  <2>2. CASE k > Len(s)
    <3>1. k \in Nat /\ (k = Len(s) + 1 \/ k = Len(s) + 2)
      <4>1. Len(s) \in Nat /\ k \in 1 .. Len(s) + 2
        BY <1>1
      <4> QED BY <2>2, <4>1
    <3>2. k = Len(s) + 2 /\ m = n + 1
      <4>1. p + k = 2 * n + 1 \/ p + k = 2 * n + 2
        BY <1>1, <3>1
      <4>2. p + k # 2 * n + 1
        BY <1>2
      <4> QED BY <1>1, <1>2, <3>1, <4>1, <4>2
    <3>3. k - Len(s) = 2 /\ ~(k <= Len(s))
      BY <1>1, <3>2
    <3> QED BY <1>1, <3>2, <3>3
  <2> QED BY <1>1, <2>1, <2>2
<1> QED BY <1>1, <1>2 DEF JobsFrom

\* The beginning of what a peer has sent.
LEMMA JobsPrefix ==
    ASSUME NEW s \in Seq(Cells), NEW k \in 0 .. Len(s), NEW p \in Nat, JobsFrom(s, p)
    PROVE  JobsFrom(SubSeq(s, 1, k), p)
<1>1. Len(s) \in Nat /\ k \in Nat /\ k <= Len(s)
  BY LenProperties
<1>2. \A j \in 1 .. k : s[j] \in Cells
  BY <1>1, ElementOfSeq
<1>3. /\ Len(SubSeq(s, 1, k)) = IF 1 <= k THEN k - 1 + 1 ELSE 0
      /\ \A j \in 1 .. k - 1 + 1 : SubSeq(s, 1, k)[j] = s[1 + j - 1]
  BY <1>1, <1>2, SubSeqProperties
<1>4. Len(SubSeq(s, 1, k)) = k /\ \A j \in 1 .. k : SubSeq(s, 1, k)[j] = s[j] /\ j \in 1 .. Len(s)
  BY <1>1, <1>3
<1> QED BY <1>4 DEF JobsFrom

(***************************************************************************)
(* The other sessions.                                                     *)
(***************************************************************************)
\* The sessions' part of the state, as seen from one of them.
Same(j) ==
    /\ op'[j] = op[j] /\ res'[j] = res[j]
    /\ m_dataLen'[j] = m_dataLen[j] /\ m_dataBuf'[j] = m_dataBuf[j]
    /\ peer'[j] = peer[j] /\ sent'[j] = sent[j] /\ rx'[j] = rx[j] /\ tx'[j] = tx[j]
    /\ \A place \in Busy : In(j, place)' <=> In(j, place)

\* What RequestService says of a connection stays the same.
Stays(j) == Conn(j)' = Conn(j) /\ Current(j)' = Current(j) /\ Answers(j)' = Answers(j)

\* A connection is open while something but its erasure runs for it.
LEMMA OpenIs ==
    ASSUME NEW j \in Ids
    PROVE  /\ Open(j) <=> \/ peer[j] # "absent" /\ op[j] # "none"
                          \/ In(j, "emplace") \/ In(j, "begin") \/ In(j, "work")
           /\ Open(j)' <=> \/ peer'[j] # "absent" /\ op'[j] # "none"
                           \/ In(j, "emplace")' \/ In(j, "begin")' \/ In(j, "work")'
BY DEF Open, In

\* A request is in hand from the end of its body to that of its response.
LEMMA ServingIs ==
    ASSUME NEW j \in Ids
    PROVE  /\ Serving(j) <=> \/ op[j] = "readData" /\ Ok(j) /\ res[j].n = m_dataLen[j]
                             \/ In(j, "work") \/ op[j] = "writeLen"
                             \/ op[j] = "writeData" /\ ~Ok(j)
           /\ Serving(j)' <=> \/ op'[j] = "readData" /\ Ok(j)' /\ res'[j].n = m_dataLen'[j]
                              \/ In(j, "work")' \/ op'[j] = "writeLen"
                              \/ op'[j] = "writeData" /\ ~Ok(j)'
BY DEF Serving, CheckOperation, ExpectedLength, In, Ok

\* A session that a step leaves alone keeps what holds of it.
LEMMA OthersKept ==
    ASSUME NEW j \in Ids, Same(j), Chain(j)
    PROVE  Chain(j)' /\ Stays(j)
<1>1. /\ In(j, "emplace")' <=> In(j, "emplace")
      /\ In(j, "begin")' <=> In(j, "begin")
      /\ In(j, "work")' <=> In(j, "work")
  BY DEF Same, Busy, InMap
<1>2. (Open(j)' <=> Open(j)) /\ (Serving(j)' <=> Serving(j)) /\ (Dead(j)' <=> Dead(j))
  BY <1>1, OpenIs, ServingIs DEF Same, Ok, Dead
<1>3. Replies(j)' = Replies(j) /\ Taken(j)' = Taken(j) /\ (HalfSent(j)' <=> HalfSent(j))
      /\ (HasBody(j)' <=> HasBody(j))
  BY <1>1 DEF Same, Replies, Taken, InHand, HalfSent, HasBody, HasLen, Ok
<1>4. Placed(j) => Placed(j)'
  BY <1>3 DEF Same, Placed, JobsFrom
<1>5. Sized(j)' /\ InOrder(j)'
  BY <1>1 DEF Same, Chain, Sized, InOrder, Ok
<1>6. Met(j)'
  BY DEF Same, Chain, Met, Ok
<1>7. Conn(j)' = Conn(j) /\ Current(j)' = Current(j)
  BY <1>2 DEF Same, Conn, Current
<1>8. Answers(j)' = Answers(j)
  BY <1>3 DEF Same, Answers
<1> QED BY <1>2, <1>4, <1>5, <1>6, <1>7, <1>8 DEF Chain, Stays

\* A thread takes a completed operation and enters a handler of its session.
LEMMA HandlerEnters ==
    ASSUME TypeOK, OneChainPerSession, NEW t \in Threads, NEW i \in Ids, NEW place \in Busy,
           at[t] = "run", op[i] # "none", Goes(t, place), cur' = [cur EXCEPT ![t] = i]
    PROVE  /\ \A j \in Ids \ {i} : \A p \in Busy : In(j, p)' <=> In(j, p)
           /\ \A p \in Busy : ~In(i, p) /\ (In(i, p)' <=> p = place)
<1>1. /\ at \in [Threads -> {"loop", "run", "exited"} \cup Busy] /\ cur \in [Threads -> Ids]
      /\ "run" \notin Busy
  BY DEF TypeOK, PoolType, Busy, InMap
<1>2. /\ at'[t] = place /\ cur'[t] = i
      /\ \A u \in Threads \ {t} : at'[u] = at[u] /\ cur'[u] = cur[u]
  BY <1>1 DEF Goes
<1>3. \A p \in Busy : ~In(i, p)
  BY DEF OneChainPerSession, In
<1>4. \A p \in Busy : In(i, p)' <=> p = place
  BY <1>2, <1>3 DEF In
<1>5. \A j \in Ids \ {i} : \A p \in Busy : In(j, p)' <=> In(j, p)
  BY <1>1, <1>2 DEF In
<1> QED BY <1>3, <1>4, <1>5

\* A thread goes on from the handler of a session.
LEMMA HandlerMoves ==
    ASSUME TypeOK, OneChainPerSession, NEW t \in Threads, NEW i \in Ids, NEW place,
           i = cur[t], at[t] \in Busy, Goes(t, place), cur' = cur
    PROVE  /\ \A j \in Ids \ {i} : \A p \in Busy : In(j, p)' <=> In(j, p)
           /\ \A p \in Busy : (In(i, p) <=> p = at[t]) /\ (In(i, p)' <=> p = place)
           /\ op[i] = "none"
<1>1. at \in [Threads -> {"loop", "run", "exited"} \cup Busy] /\ cur \in [Threads -> Ids]
  BY DEF TypeOK, PoolType
<1>2. at'[t] = place /\ \A u \in Threads \ {t} : at'[u] = at[u]
  BY <1>1 DEF Goes
<1>3. op[i] = "none" /\ \A u \in Threads \ {t} : ~(at[u] \in Busy /\ cur[u] = i)
  BY <1>1 DEF OneChainPerSession
<1>4. \A p \in Busy : (In(i, p) <=> p = at[t]) /\ (In(i, p)' <=> p = place)
  BY <1>2, <1>3 DEF In
<1>5. \A j \in Ids \ {i} : \A p \in Busy : In(j, p)' <=> In(j, p)
  BY <1>1, <1>2 DEF In
<1> QED BY <1>3, <1>4, <1>5

\* A thread that is in no handler enters none.
LEMMA IdleMoves ==
    ASSUME TypeOK, NEW t \in Threads, NEW place, at[t] \notin Busy, place \notin Busy,
           Goes(t, place), cur' = cur
    PROVE  \A j \in Ids : \A p \in Busy : In(j, p)' <=> In(j, p)
<1>1. at \in [Threads -> {"loop", "run", "exited"} \cup Busy]
  BY DEF TypeOK, PoolType
<1>2. at'[t] = place /\ \A u \in Threads \ {t} : at'[u] = at[u]
  BY <1>1 DEF Goes
<1> QED BY <1>2 DEF In

\* An operation is outstanding where no handler runs.
LEMMA NoHandler ==
    ASSUME OneChainPerSession, NEW i \in Ids, op[i] # "none"
    PROVE  \A p \in Busy : ~In(i, p)
BY DEF OneChainPerSession, In

(***************************************************************************)
(* The refinement.                                                         *)
(***************************************************************************)
\* What may become of a connection in one step.
Opens(i)  == /\ Conn(i) = "free" /\ Conn(i)' = "open"
             /\ Current(i)' = Current(i) /\ Answers(i)' = Answers(i)
Drops(i)  == /\ Conn(i) = "open" /\ Conn(i)' = "closed"
             /\ Current(i)' = 0 /\ Answers(i)' = Answers(i)
Takes(i)  == /\ Conn(i) = "open" /\ Conn(i)' = "open" /\ Answers(i)' = Answers(i)
             /\ Current(i) = 0 /\ Current(i)' = Len(Answers(i)) + 1
Answer(i) == /\ Conn(i) = "open" /\ Conn(i)' = "open" /\ Current(i) # 0 /\ Current(i)' = 0
             /\ Answers(i)' = Append(Answers(i), Current(i))
Moves(i)  == Stays(i) \/ Opens(i) \/ Drops(i) \/ Takes(i) \/ Answer(i)

\* A step that moves one connection is one of the service.
LEMMA ServiceMoves ==
    ASSUME NEW i \in Ids, Moves(i), \A j \in Ids \ {i} : Stays(j)
    PROVE  ServiceStep
<1> USE DEF Conn, Current, Answers, Replies
<1>1. CASE Stays(i)
  <2>1. \A j \in Ids : Stays(j)
    BY <1>1
  <2> QED BY <2>1 DEF Stays, ServiceStep, Service!svars
<1>2. CASE Opens(i)
  <2>1. Service!Open(i)
    BY <1>2 DEF Opens, Stays, Service!Open
  <2> QED BY <2>1 DEF ServiceStep, Service!SNext
<1>3. CASE Drops(i)
  <2>1. Service!Drop(i)
    BY <1>3 DEF Drops, Stays, Service!Drop
  <2> QED BY <2>1 DEF ServiceStep, Service!SNext
<1>4. CASE Takes(i)
  <2>1. Service!Take(i)
    BY <1>4 DEF Takes, Stays, Service!Take
  <2> QED BY <2>1 DEF ServiceStep, Service!SNext
<1>5. CASE Answer(i)
  <2>1. Service!Answer(i)
    BY <1>5 DEF Answer, Stays, Service!Answer
  <2> QED BY <2>1 DEF ServiceStep, Service!SNext
<1> QED BY <1>1, <1>2, <1>3, <1>4, <1>5 DEF Moves

\* The sequence of a session's cells has not moved.
Calm(i) ==
    /\ tx'[i] = tx[i] /\ rx'[i] = rx[i] /\ sent'[i] = sent[i]
    /\ peer'[i] # "gone" => peer[i] # "gone"
    /\ HasLen(i)' <=> HasLen(i)
    /\ HalfSent(i)' <=> HalfSent(i)
    /\ HasBody(i)' <=> HasBody(i)
    /\ IF HasBody(i) THEN m_dataBuf'[i].job = m_dataBuf[i].job ELSE m_dataBuf'[i] = m_dataBuf[i]

\* Then what holds of them holds still.
LEMMA CalmKeeps ==
    ASSUME NEW i \in Ids, Calm(i)
    PROVE  /\ Placed(i) => Placed(i)'
           /\ InOrder(i) => InOrder(i)'
           /\ Answers(i)' = Answers(i)
<1>1. Replies(i)' = Replies(i) /\ Taken(i)' = Taken(i)
  BY DEF Calm, Replies, Taken, InHand
<1>2. Placed(i) => Placed(i)'
  BY <1>1 DEF Calm, Placed, JobsFrom
<1>3. InOrder(i) => InOrder(i)'
  BY DEF Calm, InOrder
<1>4. Answers(i)' = Answers(i)
  BY <1>1 DEF Calm, Answers
<1> QED BY <1>2, <1>3, <1>4

\* What a step of a session has to show.
Good == Chains' /\ ServiceStep

\* A step of one session in which its sequence of cells does not move.
LEMMA CalmStep ==
    ASSUME Chains, NEW i \in Ids, Calm(i), Met(i)', Sized(i)', Dead(i) => Dead(i)',
           (Conn(i)' = Conn(i) /\ Current(i)' = Current(i)) \/ Opens(i) \/ Drops(i),
           \A j \in Ids \ {i} : Same(j)
    PROVE  Good
<1>1. Chain(i) /\ Answers(i)' = Answers(i) /\ (Placed(i) => Placed(i)') /\ InOrder(i)'
  BY CalmKeeps DEF Chains, Chain
<1>2. Chain(i)' /\ Moves(i)
  BY <1>1 DEF Chain, Moves, Stays
<1>3. \A j \in Ids \ {i} : Chain(j)' /\ Stays(j)
  BY OthersKept DEF Chains
<1> QED BY <1>2, <1>3, ServiceMoves DEF Good, Chains

(***************************************************************************)
(* The steps that leave every session alone, and those of the accepts.     *)
(***************************************************************************)
\* The loop of a pool thread, main() and the end.
LEMMA IdleStep ==
    ASSUME Chains, \A j \in Ids : Same(j)
    PROVE  Good
<1>1. \A j \in Ids : Chain(j)' /\ Stays(j)
  BY OthersKept DEF Chains
<1>2. 0 \in Ids
  BY SizesAssumption DEF Ids
<1> QED BY <1>1, <1>2, ServiceMoves DEF Good, Chains, Moves

\* A thread that is outside every handler stays outside.
LEMMA LoopStep ==
    ASSUME Base, Chains, NEW t \in Threads, Loop(t) \/ RunReturns(t)
    PROVE  Good
<1>1. PICK place : place \notin Busy /\ Goes(t, place)
  BY DEF Loop, RunReturns, Busy, InMap
<1>2. at[t] \notin Busy /\ cur' = cur /\ UNCHANGED <<session, wire>>
  BY DEF Loop, RunReturns, Busy, InMap
<1>3. \A j \in Ids : \A p \in Busy : In(j, p)' <=> In(j, p)
  BY <1>1, <1>2, IdleMoves DEF Base
<1> QED BY <1>2, <1>3, IdleStep DEF Same, session, wire

\* main() touches no session after it has constructed the Server.
LEMMA MainIdles ==
    ASSUME Chains, BindFails \/ Eof \/ MainStep \/ Terminated
    PROVE  Good
<1>1. UNCHANGED <<session, pool, wire>>
  BY DEF BindFails, Eof, MainStep, ResetGuard, Stop, Join, Terminated, vars
<1>2. \A j \in Ids : \A p \in Busy : In(j, p)' <=> In(j, p)
  BY <1>1 DEF In, pool
<1> QED BY <1>1, <1>2, IdleStep DEF Same, session, wire

\* A session that has nothing yet awaits its connection.
LEMMA Armed ==
    ASSUME NEW c \in Ids, Chain(c), op[c] = "none", peer[c] = "absent", op'[c] = "accept", ~Ok(c)',
           UNCHANGED <<m_dataLen, m_dataBuf, peer, sent, rx, tx>>,
           \A p \in Busy : In(c, p)' <=> In(c, p)
    PROVE  Chain(c)' /\ Stays(c)
<1>1. /\ In(c, "work")' <=> In(c, "work")
      /\ In(c, "emplace")' <=> In(c, "emplace")
      /\ In(c, "begin")' <=> In(c, "begin")
  BY DEF Busy, InMap
<1>2. Calm(c)
  BY <1>1 DEF Calm, HasLen, HalfSent, HasBody
<1>3. Met(c)' /\ Sized(c)'
  BY <1>1 DEF Chain, Met, Sized
<1>4. (Open(c)' <=> Open(c)) /\ (Serving(c)' <=> Serving(c))
  BY <1>1, OpenIs, ServingIs
<1>5. (Dead(c) => Dead(c)') /\ Conn(c)' = Conn(c) /\ Current(c)' = Current(c)
  BY <1>4 DEF Dead, Conn, Current
<1> QED BY <1>2, <1>3, <1>5, CalmKeeps DEF Chain, Stays

\* The first accept.
LEMMA ConstructStep ==
    ASSUME Base, Chains, Construct
    PROVE  Good
<1>1. 0 \in Ids /\ m_clientIdCounter = 0
  BY SizesAssumption DEF Ids, Construct, Base, AcceptChain
<1>2. op[0] = "none" /\ peer[0] = "absent"
  BY <1>1 DEF Base, AcceptChain
<1>3. /\ op' = [op EXCEPT ![0] = "accept"] /\ res' = [res EXCEPT ![0] = NoResult]
      /\ UNCHANGED <<m_dataLen, m_dataBuf, at, cur, peer, sent, rx, tx>>
  BY DEF Construct, AcceptsNext, Starts, pool, wire
<1>4. op'[0] = "accept" /\ ~Ok(0)'
  BY <1>1, <1>3 DEF Base, TypeOK, SessionType, Ok, NoResult
<1>5. \A j \in Ids : \A p \in Busy : In(j, p)' <=> In(j, p)
  BY <1>3 DEF In
<1>6. Chain(0)' /\ Stays(0)
  BY <1>1, <1>2, <1>3, <1>4, <1>5, Armed DEF Chains
<1>7. \A j \in Ids \ {0} : Chain(j)' /\ Stays(j)
  <2>1. \A j \in Ids \ {0} : Same(j)
    BY <1>1, <1>3, <1>5 DEF Base, TypeOK, SessionType, Same
  <2> QED BY <2>1, OthersKept DEF Chains
<1> QED BY <1>1, <1>6, <1>7, ServiceMoves DEF Good, Chains, Moves

\* Re-arming the accept concerns two sessions: the newest has nothing yet, and
\* the one that has been accepted goes on.
LEMMA InitiateAcceptStep ==
    ASSUME Base, Chains, NEW t \in Threads, InitiateAccept(t)
    PROVE  Good
<1>0. PICK i, c : i = cur[t] /\ c = m_clientIdCounter
  OBVIOUS
<1>1. /\ i \in Ids /\ c \in Ids /\ c # i /\ at[t] = "emplace" /\ at[t] \in Busy
      /\ op[c] = "none" /\ peer[c] = "absent"
  <2>1. at[t] = "emplace" /\ i \in Ids /\ c = i + 1 /\ i < MaxId
    BY <1>0 DEF InitiateAccept, Base, AcceptChain, TypeOK, PoolType
  <2>2. c \in Ids /\ c # i /\ c >= c
    BY <2>1, SizesAssumption DEF Ids
  <2> QED BY <1>0, <2>1, <2>2 DEF Base, AcceptChain, Busy, InMap
<1>2. /\ op' = [op EXCEPT ![c] = "accept"] /\ res' = [res EXCEPT ![c] = NoResult]
      /\ Goes(t, "begin")
      /\ UNCHANGED <<m_dataLen, m_dataBuf, cur, peer, sent, rx, tx>>
  BY <1>0 DEF InitiateAccept, AcceptsNext, Starts, wire
<1>3. /\ \A j \in Ids \ {i} : \A p \in Busy : In(j, p)' <=> In(j, p)
      /\ \A p \in Busy : (In(i, p) <=> p = "emplace") /\ (In(i, p)' <=> p = "begin")
      /\ op[i] = "none"
  BY <1>0, <1>1, <1>2, HandlerMoves DEF Base
<1>4. op'[c] = "accept" /\ ~Ok(c)' /\ op'[i] = op[i] /\ res'[i] = res[i]
  BY <1>1, <1>2 DEF Base, TypeOK, SessionType, Ok, NoResult
<1>5. \A j \in Ids \ {i, c} : Same(j)
  BY <1>2, <1>3 DEF Base, TypeOK, SessionType, Same
<1>6. Chain(c)' /\ Stays(c)
  BY <1>1, <1>2, <1>3, <1>4, Armed DEF Chains
<1>7. Chain(i)' /\ Stays(i)
  <2>1. /\ In(i, "emplace") /\ ~In(i, "work") /\ ~In(i, "begin")
        /\ ~In(i, "emplace")' /\ ~In(i, "work")' /\ In(i, "begin")'
    BY <1>3 DEF Busy, InMap
  <2>2. Calm(i)
    BY <1>2, <1>3, <1>4, <2>1 DEF Calm, HasLen, HalfSent, HasBody, Ok
  <2>3. Chain(i)
    BY <1>1 DEF Chains
  <2>4. peer[i] # "absent"
    BY <2>1, <2>3 DEF Chain, Met, Busy, InMap
  <2>5. Met(i)' /\ Sized(i)'
    BY <1>2, <1>3, <1>4, <2>1, <2>4 DEF Met, Sized
  <2>6. (Open(i)' <=> Open(i)) /\ (Serving(i)' <=> Serving(i))
    BY <1>1, <1>2, <1>3, <1>4, <2>1, OpenIs, ServingIs
  <2>7. (Dead(i) => Dead(i)') /\ Conn(i)' = Conn(i) /\ Current(i)' = Current(i)
    BY <1>2, <2>6 DEF Dead, Conn, Current
  <2> QED BY <1>1, <2>2, <2>3, <2>5, <2>7, CalmKeeps DEF Chain, Stays
<1>8. \A j \in Ids : Chain(j)' /\ Stays(j)
  <2>1. \A j \in Ids \ {i, c} : Chain(j)' /\ Stays(j)
    BY <1>5, OthersKept DEF Chains
  <2> QED BY <1>6, <1>7, <2>1
<1> QED BY <1>1, <1>8, ServiceMoves DEF Good, Chains, Moves

(***************************************************************************)
(* The steps of one session in which its cells do not move.                *)
(***************************************************************************)
\* What an async_ call does to the sessions.
LEMMA Started ==
    ASSUME TypeOK, NEW i \in Ids, NEW kind, Starts(i, kind)
    PROVE  /\ op'[i] = kind /\ res'[i] = NoResult /\ ~Ok(i)'
           /\ \A j \in Ids \ {i} : op'[j] = op[j] /\ res'[j] = res[j]
BY DEF TypeOK, SessionType, Starts, Ok, NoResult

\* What its completion does.
LEMMA Completed ==
    ASSUME TypeOK, NEW i \in Ids, NEW failed \in BOOLEAN, NEW bytes, Completes(i, failed, bytes)
    PROVE  /\ res'[i] = [ready |-> TRUE, ec |-> failed, n |-> bytes]
           /\ (Ok(i)' <=> ~failed)
           /\ \A j \in Ids \ {i} : res'[j] = res[j]
BY DEF TypeOK, SessionType, Completes, Ok

\* The places of a session's handlers, one by one.
LEMMA Places == "emplace" \in Busy /\ "begin" \in Busy /\ "work" \in Busy /\ "erase" \in Busy
BY DEF Busy, InMap

\* An accept that fails, or is reported to have failed, is of no connection.
LEMMA AcceptErrorStep ==
    ASSUME Base, Chains, NEW i \in Ids,
           AcceptFails(i) \/ \E t \in Threads : OnAcceptError(t, i)
    PROVE  Good
<1>1. /\ op[i] = "accept" /\ peer[i] = "absent" /\ ~Ok(i)
      /\ UNCHANGED <<m_dataLen, m_dataBuf, peer, sent, rx, tx>>
  BY DEF AcceptFails, OnAcceptError, Outstanding, Dispatch, Base, AcceptChain, wire, Ok
<1>2. /\ op'[i] \in {"accept", "none"} /\ ~Ok(i)'
      /\ \A j \in Ids \ {i} : op'[j] = op[j] /\ res'[j] = res[j]
  <2>1. CASE AcceptFails(i)
    BY <1>1, <2>1, Completed DEF AcceptFails, Base
  <2>2. CASE \E t \in Threads : OnAcceptError(t, i)
    BY <2>2, Started DEF OnAcceptError, Base
  <2> QED BY <2>1, <2>2
<1>3. \A j \in Ids : \A p \in Busy : In(j, p)' <=> In(j, p)
  <2>1. CASE AcceptFails(i)
    BY <2>1 DEF AcceptFails, pool, In
  <2>2. ASSUME NEW t \in Threads, OnAcceptError(t, i)
        PROVE  \A j \in Ids : \A p \in Busy : In(j, p)' <=> In(j, p)
    BY <2>2, IdleMoves DEF OnAcceptError, Dispatch, Busy, InMap, Base
  <2> QED BY <2>1, <2>2
<1>4. \A j \in Ids \ {i} : Same(j)
  BY <1>1, <1>2, <1>3 DEF Same
<1>5. \A p \in Busy : ~In(i, p) /\ ~In(i, p)'
  BY <1>1, <1>3, NoHandler DEF Base
<1>6. Calm(i)
  BY <1>1, <1>2, <1>5, Places DEF Calm, HasLen, HalfSent, HasBody
<1>7. Met(i)' /\ Sized(i)'
  BY <1>1, <1>2, <1>5, Places DEF Met, Sized
<1>8. ~Open(i) /\ ~Open(i)' /\ ~Serving(i) /\ ~Serving(i)'
  BY <1>1, <1>2, <1>5, Places, OpenIs, ServingIs
<1>9. Conn(i)' = Conn(i) /\ Current(i)' = Current(i) /\ ~Dead(i)
  BY <1>1, <1>8 DEF Conn, Current, Dead
<1> QED BY <1>4, <1>6, <1>7, <1>9, CalmStep

\* A connection is made.
LEMMA ConnectStep ==
    ASSUME Base, Chains, NEW i \in Ids, Connect(i)
    PROVE  Good
<1>1. /\ op[i] = "accept" /\ peer[i] = "absent" /\ ~Ok(i)
      /\ UNCHANGED <<op, m_dataLen, m_dataBuf, at, cur, sent, rx, tx>>
  BY DEF Connect, Outstanding, Base, AcceptChain, pool, Ok
<1>2. Ok(i)' /\ \A j \in Ids \ {i} : res'[j] = res[j]
  BY Completed DEF Connect, Base
<1>3. peer'[i] = "connected" /\ \A j \in Ids \ {i} : peer'[j] = peer[j]
  BY DEF Connect, Base, TypeOK, WireType
<1>4. \A j \in Ids : \A p \in Busy : In(j, p)' <=> In(j, p)
  BY <1>1 DEF In
<1>5. \A j \in Ids \ {i} : Same(j)
  BY <1>1, <1>2, <1>3, <1>4 DEF Same
<1>6. \A p \in Busy : ~In(i, p) /\ ~In(i, p)'
  BY <1>1, <1>4, NoHandler DEF Base
<1>7. Calm(i)
  BY <1>1, <1>3, <1>6, Places DEF Calm, HasLen, HalfSent, HasBody
<1>8. Met(i)' /\ Sized(i)'
  BY <1>1, <1>3, <1>6, Places DEF Met, Sized
<1>9. ~Open(i) /\ Open(i)' /\ ~Serving(i) /\ ~Serving(i)'
  BY <1>1, <1>3, <1>6, Places, OpenIs, ServingIs
<1>10. Conn(i) = "free" /\ Conn(i)' = "open" /\ Current(i)' = Current(i) /\ ~Dead(i)
  BY <1>1, <1>9 DEF Conn, Current, Dead
<1>11. Answers(i)' = Answers(i)
  BY <1>7, CalmKeeps
<1> QED BY <1>5, <1>7, <1>8, <1>10, <1>11, CalmStep DEF Opens

\* The accept handler takes the new connection.
LEMMA OnAcceptStep ==
    ASSUME Base, Chains, NEW t \in Threads, NEW i \in Ids, OnAccept(t, i)
    PROVE  Good
<1>1. /\ op[i] = "accept" /\ Ok(i) /\ at[t] = "run" /\ Starts(i, "none")
      /\ Goes(t, "emplace") /\ cur' = [cur EXCEPT ![t] = i]
      /\ UNCHANGED <<m_dataLen, m_dataBuf, peer, sent, rx, tx>>
  BY DEF OnAccept, Dispatch, EnterMap, wire, Ok
<1>2. /\ \A j \in Ids \ {i} : \A p \in Busy : In(j, p)' <=> In(j, p)
      /\ \A p \in Busy : ~In(i, p) /\ (In(i, p)' <=> p = "emplace")
  BY <1>1, Places, HandlerEnters DEF Base
<1>3. op'[i] = "none" /\ \A j \in Ids \ {i} : Same(j)
  BY <1>1, <1>2, Started DEF Base, Same
<1>4. peer[i] # "absent"
  BY <1>1 DEF Chains, Chain, Met
<1>5. Calm(i)
  BY <1>1, <1>2, <1>3, Places DEF Calm, HasLen, HalfSent, HasBody
<1>6. Met(i)' /\ Sized(i)'
  BY <1>1, <1>2, <1>3, <1>4, Places DEF Met, Sized
<1>7. Open(i) /\ Open(i)' /\ ~Serving(i) /\ ~Serving(i)'
  BY <1>1, <1>2, <1>3, <1>4, Places, OpenIs, ServingIs
<1>8. Conn(i)' = Conn(i) /\ Current(i)' = Current(i) /\ ~Dead(i)
  BY <1>7 DEF Conn, Current, Dead
<1> QED BY <1>3, <1>5, <1>6, <1>8, CalmStep

\* The session begins to read.
LEMMA InitiateCommunicationStep ==
    ASSUME Base, Chains, NEW t \in Threads, InitiateCommunication(t)
    PROVE  Good
<1>0. PICK i : i = cur[t]
  OBVIOUS
<1>1. /\ i \in Ids /\ at[t] = "begin" /\ Starts(i, "readLen") /\ Goes(t, "run") /\ cur' = cur
      /\ m_dataLen' = [m_dataLen EXCEPT ![i] = 0]
      /\ UNCHANGED <<m_dataBuf, peer, sent, rx, tx>>
  BY <1>0 DEF InitiateCommunication, InitiateReceiveRequest, wire, Base, TypeOK, PoolType
<1>2. /\ \A j \in Ids \ {i} : \A p \in Busy : In(j, p)' <=> In(j, p)
      /\ \A p \in Busy : (In(i, p) <=> p = "begin") /\ ~In(i, p)'
      /\ op[i] = "none"
  <2>1. "run" \notin Busy
    BY DEF Busy, InMap
  <2> QED BY <1>0, <1>1, <2>1, Places, HandlerMoves DEF Base
<1>3. op'[i] = "readLen" /\ ~Ok(i)' /\ \A j \in Ids \ {i} : Same(j)
  <2>1. \A j \in Ids \ {i} : m_dataLen'[j] = m_dataLen[j]
    BY <1>1 DEF Base, TypeOK, SessionType
  <2> QED BY <1>1, <1>2, <2>1, Started DEF Base, Same
<1>4. peer[i] # "absent"
  BY <1>1, <1>2, Places DEF Chains, Chain, Met
<1>5. Calm(i)
  BY <1>1, <1>2, <1>3, Places DEF Calm, HasLen, HalfSent, HasBody
<1>6. Met(i)' /\ Sized(i)'
  BY <1>1, <1>2, <1>3, <1>4, Places DEF Met, Sized
<1>7. Open(i) /\ Open(i)' /\ ~Serving(i) /\ ~Serving(i)'
  BY <1>1, <1>2, <1>3, <1>4, Places, OpenIs, ServingIs
<1>8. Conn(i)' = Conn(i) /\ Current(i)' = Current(i) /\ ~Dead(i)
  BY <1>7 DEF Conn, Current, Dead
<1> QED BY <1>1, <1>3, <1>5, <1>6, <1>8, CalmStep

\* A handler that goes on with the session's next operation.
LEMMA NextOperationStep ==
    ASSUME Base, Chains, NEW t \in Threads, NEW i \in Ids,
           OnLenReceived(t, i) \/ OnLenSent(t, i) \/ OnDataSent(t, i)
    PROVE  Good
<1>1. /\ Ok(i) /\ \/ op[i] = "readLen" /\ Starts(i, "readData") /\ m_dataLen' = m_dataLen
                  \/ op[i] = "writeLen" /\ Starts(i, "writeData") /\ m_dataLen' = m_dataLen
                  \/ /\ op[i] = "writeData" /\ Starts(i, "readLen")
                     /\ m_dataLen' = [m_dataLen EXCEPT ![i] = 0]
      /\ UNCHANGED <<m_dataBuf, at, cur, peer, sent, rx, tx>>
  BY DEF OnLenReceived, OnLenSent, OnDataSent, InitiateReceiveRequest, Dispatch,
     CheckOperation, Ok, pool, wire
<1>2. \A j \in Ids : \A p \in Busy : In(j, p)' <=> In(j, p)
  BY <1>1 DEF In
<1>3. /\ \/ op[i] = "readLen" /\ op'[i] = "readData" /\ m_dataLen'[i] = m_dataLen[i]
         \/ op[i] = "writeLen" /\ op'[i] = "writeData" /\ m_dataLen'[i] = m_dataLen[i]
         \/ op[i] = "writeData" /\ op'[i] = "readLen"
      /\ ~Ok(i)'
  BY <1>1, Started DEF Base
<1>4. \A j \in Ids \ {i} : Same(j)
  <2>1. \A j \in Ids \ {i} : m_dataLen'[j] = m_dataLen[j]
    BY <1>1 DEF Base, TypeOK, SessionType
  <2>2. \A j \in Ids \ {i} : op'[j] = op[j] /\ res'[j] = res[j]
    BY <1>1, Started DEF Base
  <2> QED BY <1>1, <1>2, <2>1, <2>2 DEF Same
<1>5. \A p \in Busy : ~In(i, p) /\ ~In(i, p)'
  BY <1>2, <1>3, NoHandler DEF Base
<1>6. Chain(i) /\ peer[i] # "absent"
  BY <1>3 DEF Chains, Chain, Met
<1>7. Calm(i)
  BY <1>1, <1>3, <1>5, Places DEF Calm, HasLen, HalfSent, HasBody
<1>8. Met(i)' /\ Sized(i)'
  BY <1>1, <1>3, <1>5, <1>6, Places DEF Met, Chain, Sized
<1>9. Open(i) /\ Open(i)' /\ (Serving(i)' <=> Serving(i))
  BY <1>1, <1>3, <1>5, <1>6, Places, OpenIs, ServingIs
<1>10. Conn(i)' = Conn(i) /\ Current(i)' = Current(i) /\ ~Dead(i)
  BY <1>1, <1>9 DEF Conn, Current, Dead
<1> QED BY <1>4, <1>7, <1>8, <1>10, CalmStep

\* The handler of a whole request.
LEMMA OnDataReceivedStep ==
    ASSUME Base, Chains, NEW t \in Threads, NEW i \in Ids, OnDataReceived(t, i)
    PROVE  Good
<1>1. /\ op[i] = "readData" /\ Ok(i) /\ res[i].n = m_dataLen[i]
      /\ at[t] = "run" /\ Starts(i, "none")
      /\ Goes(t, "work") /\ cur' = [cur EXCEPT ![t] = i]
      /\ UNCHANGED <<m_dataLen, m_dataBuf, peer, sent, rx, tx>>
  BY DEF OnDataReceived, Dispatch, CheckOperation, ExpectedLength, wire, Ok
<1>2. /\ \A j \in Ids \ {i} : \A p \in Busy : In(j, p)' <=> In(j, p)
      /\ \A p \in Busy : ~In(i, p) /\ (In(i, p)' <=> p = "work")
  BY <1>1, Places, HandlerEnters DEF Base
<1>3. op'[i] = "none" /\ \A j \in Ids \ {i} : Same(j)
  BY <1>1, <1>2, Started DEF Base, Same
<1>4. Chain(i) /\ peer[i] # "absent"
  BY <1>1 DEF Chains, Chain, Met
<1>5. Calm(i)
  BY <1>1, <1>2, <1>3, Places DEF Calm, HasLen, HalfSent, HasBody
<1>6. Met(i)' /\ Sized(i)'
  BY <1>1, <1>2, <1>3, <1>4, Places DEF Met, Chain, Sized
<1>7. Open(i) /\ Open(i)' /\ Serving(i) /\ Serving(i)'
  BY <1>1, <1>2, <1>3, <1>4, Places, OpenIs, ServingIs
<1>8. Conn(i)' = Conn(i) /\ Current(i)' = Current(i) /\ ~Dead(i)
  BY <1>1, <1>7 DEF Conn, Current, Dead
<1> QED BY <1>3, <1>5, <1>6, <1>8, CalmStep

\* The response takes the request's place in the buffer.
LEMMA OnRequestStep ==
    ASSUME Base, Chains, NEW t \in Threads, OnRequest(t)
    PROVE  Good
<1>0. PICK i : i = cur[t]
  OBVIOUS
<1>1. /\ i \in Ids /\ at[t] = "work" /\ Starts(i, "writeLen") /\ Goes(t, "run") /\ cur' = cur
      /\ m_dataLen' = [m_dataLen EXCEPT ![i] = RespSize]
      /\ m_dataBuf' = [m_dataBuf EXCEPT ![i] = [job |-> m_dataBuf[i].job, size |-> RespSize]]
      /\ UNCHANGED <<peer, sent, rx, tx>>
  BY <1>0 DEF OnRequest, Response, wire, Base, TypeOK, PoolType
<1>2. /\ \A j \in Ids \ {i} : \A p \in Busy : In(j, p)' <=> In(j, p)
      /\ \A p \in Busy : (In(i, p) <=> p = "work") /\ ~In(i, p)'
      /\ op[i] = "none"
  <2>1. "run" \notin Busy
    BY DEF Busy, InMap
  <2> QED BY <1>0, <1>1, <2>1, Places, HandlerMoves DEF Base
<1>3. /\ m_dataLen'[i] = RespSize
      /\ m_dataBuf'[i].job = m_dataBuf[i].job /\ m_dataBuf'[i].size = RespSize
      /\ \A j \in Ids \ {i} : m_dataLen'[j] = m_dataLen[j] /\ m_dataBuf'[j] = m_dataBuf[j]
  BY <1>1 DEF Base, TypeOK, SessionType
<1>4. op'[i] = "writeLen" /\ ~Ok(i)' /\ \A j \in Ids \ {i} : Same(j)
  BY <1>1, <1>2, <1>3, Started DEF Base, Same
<1>5. peer[i] # "absent"
  BY <1>1, <1>2, Places DEF Chains, Chain, Met
<1>6. Calm(i)
  BY <1>1, <1>2, <1>3, <1>4, Places DEF Calm, HasLen, HalfSent, HasBody
<1>7. Met(i)' /\ Sized(i)'
  BY <1>1, <1>2, <1>3, <1>4, <1>5, Places DEF Met, Sized
<1>8. Open(i) /\ Open(i)' /\ Serving(i) /\ Serving(i)'
  BY <1>1, <1>2, <1>4, <1>5, Places, OpenIs, ServingIs
<1>9. Conn(i)' = Conn(i) /\ Current(i)' = Current(i) /\ ~Dead(i)
  BY <1>3, <1>8 DEF Conn, Current, Dead
<1> QED BY <1>1, <1>4, <1>6, <1>7, <1>9, CalmStep

\* A session is dead from then on.
LEMMA DeathStep ==
    ASSUME Chains, NEW i \in Ids, Dead(i)', Met(i)', Sized(i)', tx'[i] = tx[i],
           Stays(i) \/ Drops(i), \A j \in Ids \ {i} : Same(j)
    PROVE  Good
<1>1. InOrder(i)'
  BY DEF Chains, Chain, InOrder
<1>2. Chain(i)' /\ Moves(i)
  BY <1>1 DEF Chain, Moves
<1>3. \A j \in Ids \ {i} : Chain(j)' /\ Stays(j)
  BY OthersKept DEF Chains
<1> QED BY <1>2, <1>3, ServiceMoves DEF Good, Chains

\* The answers are what has been sent.
LEMMA AnswersKept ==
    ASSUME NEW i \in Ids, tx'[i] = tx[i]
    PROVE  Answers(i)' = Answers(i)
BY DEF Answers, Replies

\* A failed operation ends the session.
LEMMA OnFailedStep ==
    ASSUME Base, Chains, NEW t \in Threads, NEW i \in Ids, OnFailed(t, i)
    PROVE  Good
<1>1. /\ op[i] \notin {"none", "accept"} /\ at[t] = "run" /\ Starts(i, "none")
      /\ Goes(t, "erase") /\ cur' = [cur EXCEPT ![t] = i]
      /\ UNCHANGED <<m_dataLen, m_dataBuf, peer, sent, rx, tx>>
  BY DEF OnFailed, Dispatch, EnterMap, wire, Ok
<1>2. /\ \A j \in Ids \ {i} : \A p \in Busy : In(j, p)' <=> In(j, p)
      /\ \A p \in Busy : ~In(i, p) /\ (In(i, p)' <=> p = "erase")
  BY <1>1, Places, HandlerEnters DEF Base
<1>3. op'[i] = "none" /\ \A j \in Ids \ {i} : Same(j)
  BY <1>1, <1>2, Started DEF Base, Same
<1>4. peer[i] # "absent"
  BY <1>1 DEF Chains, Chain, Met
<1>5. Met(i)' /\ Sized(i)'
  BY <1>1, <1>2, <1>3, <1>4, Places DEF Met, Sized
<1>6. Open(i) /\ ~Open(i)' /\ ~Serving(i)'
  BY <1>1, <1>2, <1>3, <1>4, Places, OpenIs, ServingIs
<1>7. Drops(i) /\ Dead(i)'
  BY <1>1, <1>4, <1>6, AnswersKept DEF Drops, Conn, Current, Dead
<1> QED BY <1>1, <1>3, <1>5, <1>7, DeathStep

\* Its erasure closes a socket that nothing is done with any more.
LEMMA OnDisconnectStep ==
    ASSUME Base, Chains, NEW t \in Threads, OnDisconnect(t)
    PROVE  Good
<1>0. PICK i : i = cur[t]
  OBVIOUS
<1>1. /\ i \in Ids /\ at[t] = "erase" /\ Goes(t, "run") /\ cur' = cur
      /\ peer' \in {peer, [peer EXCEPT ![i] = "gone"]}
      /\ UNCHANGED <<op, res, m_dataLen, m_dataBuf, sent, rx, tx>>
  BY <1>0 DEF OnDisconnect, session, Base, TypeOK, PoolType
<1>2. /\ \A j \in Ids \ {i} : \A p \in Busy : In(j, p)' <=> In(j, p)
      /\ \A p \in Busy : (In(i, p) <=> p = "erase") /\ ~In(i, p)'
      /\ op[i] = "none"
  <2>1. "run" \notin Busy
    BY DEF Busy, InMap
  <2> QED BY <1>0, <1>1, <2>1, Places, HandlerMoves DEF Base
<1>3. peer[i] # "absent" /\ peer'[i] # "absent" /\ \A j \in Ids \ {i} : peer'[j] = peer[j]
  <2>1. peer[i] # "absent"
    BY <1>1, <1>2, Places DEF Chains, Chain, Met
  <2> QED BY <1>1, <2>1 DEF Base, TypeOK, WireType
<1>4. \A j \in Ids \ {i} : Same(j)
  BY <1>1, <1>2, <1>3 DEF Same
<1>5. Met(i)' /\ Sized(i)'
  BY <1>1, <1>2, <1>3, Places DEF Met, Sized
<1>6. ~Open(i) /\ ~Open(i)' /\ ~Serving(i) /\ ~Serving(i)'
  BY <1>1, <1>2, <1>3, Places, OpenIs, ServingIs
<1>7. Stays(i) /\ Dead(i)'
  BY <1>1, <1>3, <1>6, AnswersKept DEF Stays, Conn, Current, Dead
<1> QED BY <1>1, <1>4, <1>5, <1>7, DeathStep

\* A transfer that fails moves nothing.
LEMMA TransferFailsStep ==
    ASSUME Base, Chains, NEW i \in Ids, ReadFails(i) \/ WriteFails(i)
    PROVE  Good
<1>1. /\ op[i] \in {"readLen", "readData", "writeLen", "writeData"} /\ ~res[i].ready
      /\ Completes(i, TRUE, 0)
      /\ UNCHANGED <<op, m_dataLen, m_dataBuf, at, cur, peer, sent, rx, tx>>
  BY DEF ReadFails, WriteFails, Outstanding, pool, wire
<1>2. ~Ok(i) /\ ~Ok(i)' /\ \A j \in Ids \ {i} : res'[j] = res[j]
  BY <1>1, Completed DEF Base, Ok
<1>3. \A j \in Ids : \A p \in Busy : In(j, p)' <=> In(j, p)
  BY <1>1 DEF In
<1>4. \A j \in Ids \ {i} : Same(j)
  BY <1>1, <1>2, <1>3 DEF Same
<1>5. Chain(i) /\ \A p \in Busy : ~In(i, p) /\ ~In(i, p)'
  BY <1>1, <1>3, NoHandler DEF Base, Chains
<1>6. Calm(i)
  BY <1>1, <1>2, <1>5, Places DEF Calm, HasLen, HalfSent, HasBody
<1>7. Met(i)' /\ Sized(i)'
  BY <1>1, <1>2, <1>5, Places DEF Chain, Met, Sized
<1>8. (Open(i)' <=> Open(i)) /\ (Serving(i)' <=> Serving(i))
  BY <1>1, <1>2, <1>5, Places, OpenIs, ServingIs
<1>9. Conn(i)' = Conn(i) /\ Current(i)' = Current(i) /\ (Dead(i) => Dead(i)')
  BY <1>1, <1>8 DEF Conn, Current, Dead
<1> QED BY <1>4, <1>6, <1>7, <1>9, CalmStep

(***************************************************************************)
(* The steps in which a session's cells move.                              *)
(***************************************************************************)
\* The types that the counting needs.
LEMMA Counted ==
    ASSUME Base, NEW i \in Ids
    PROVE  /\ rx[i] \in Seq(Cells) /\ tx[i] \in Seq(Cells)
           /\ Len(rx[i]) \in Nat /\ Len(tx[i]) \in Nat
           /\ Replies(i) \in Nat /\ InHand(i) \in {0, 1, 2} /\ Taken(i) \in Nat /\ sent[i] \in Nat
<1>1. rx[i] \in Seq(Cells) /\ tx[i] \in Seq(Cells) /\ sent[i] \in Nat
  BY SizesAssumption DEF Base, TypeOK, WireType
<1>2. Len(rx[i]) \in Nat /\ Len(tx[i]) \in Nat
  BY <1>1, LenProperties
<1>3. Replies(i) \in Nat
  BY <1>2, HalfOf DEF Replies
<1>4. InHand(i) \in {0, 1, 2}
  BY DEF InHand
<1> QED BY <1>1, <1>2, <1>3, <1>4 DEF Taken

\* A session that has an operation is not at its end.
LEMMA Living ==
    ASSUME Base, Chains, NEW i \in Ids, op[i] \notin {"none", "accept"}
    PROVE  /\ peer[i] # "absent" /\ Open(i) /\ Conn(i) = "open"
           /\ Met(i) /\ Sized(i) /\ InOrder(i) /\ Placed(i)
           /\ \A p \in Busy : ~In(i, p)
<1>1. Chain(i) /\ peer[i] # "absent"
  BY DEF Chains, Chain, Met
<1>2. Open(i)
  BY <1>1, OpenIs
<1> QED BY <1>1, <1>2, NoHandler DEF Base, Chain, Dead, Conn

\* A step of one session.
LEMMA MoveStep ==
    ASSUME Chains, NEW i \in Ids, Met(i)', Sized(i)', InOrder(i)', Dead(i)' \/ Placed(i)',
           Moves(i), \A j \in Ids \ {i} : Same(j)
    PROVE  Good
<1>1. Chain(i)'
  BY DEF Chain
<1>2. \A j \in Ids \ {i} : Chain(j)' /\ Stays(j)
  BY OthersKept DEF Chains
<1> QED BY <1>1, <1>2, ServiceMoves DEF Good, Chains

\* A cell that is read is one more taken and one less on its way.
LEMMA TailCounts ==
    ASSUME NEW p \in Nat, NEW l \in Nat
    PROVE  \A s : p + l = s => p + 1 + (l - 1) = s
OBVIOUS

\* The completion of a transfer leaves the other sessions alone.
LEMMA TransferStep ==
    ASSUME Base, NEW i \in Ids, Completion(i)
    PROVE  /\ \A j \in Ids \ {i} : Same(j)
           /\ \A p \in Busy : In(i, p)' <=> In(i, p)
           /\ op'[i] = op[i] /\ peer'[i] = peer[i] /\ sent'[i] = sent[i]
<1>1. UNCHANGED <<op, at, cur, peer, sent>>
  BY DEF Completion, ReadFails, CompleteReadLen, CompleteReadData, WriteFails, CompleteWriteLen,
     CompleteWriteData, pool, wire
<1>2. \A j \in Ids : \A p \in Busy : In(j, p)' <=> In(j, p)
  BY <1>1 DEF In
<1>3. \A j \in Ids \ {i} : res'[j] = res[j] /\ m_dataLen'[j] = m_dataLen[j]
  BY DEF Completion, Completes, Base, TypeOK, SessionType, ReadFails, CompleteReadLen,
     CompleteReadData, WriteFails, CompleteWriteLen, CompleteWriteData
<1>4. \A j \in Ids \ {i} : m_dataBuf'[j] = m_dataBuf[j] /\ rx'[j] = rx[j] /\ tx'[j] = tx[j]
  BY DEF Completion, Base, TypeOK, SessionType, WireType, ReadFails, CompleteReadLen,
     CompleteReadData, WriteFails, CompleteWriteLen, CompleteWriteData, wire
<1> QED BY <1>1, <1>2, <1>3, <1>4 DEF Same

\* A length has been read.
LEMMA CompleteReadLenStep ==
    ASSUME Base, Chains, NEW i \in Ids, CompleteReadLen(i)
    PROVE  Good
<1>1. /\ op[i] = "readLen" /\ ~Ok(i) /\ rx[i] # <<>>
      /\ rx' = [rx EXCEPT ![i] = Tail(rx[i])]
      /\ Completes(i, FALSE, LenSize) /\ UNCHANGED <<m_dataBuf, tx>>
  BY DEF CompleteReadLen, Outstanding, Ok
<1>2. /\ \A j \in Ids \ {i} : Same(j)
      /\ \A p \in Busy : In(i, p)' <=> In(i, p)
      /\ op'[i] = "readLen" /\ peer'[i] = peer[i] /\ sent'[i] = sent[i]
  BY <1>1, TransferStep DEF Completion
<1>3. /\ peer[i] # "absent" /\ Open(i) /\ Conn(i) = "open" /\ Met(i) /\ Sized(i) /\ InOrder(i)
      /\ Placed(i) /\ \A p \in Busy : ~In(i, p)
  BY <1>1, Living
<1>4. Ok(i)' /\ rx'[i] = Tail(rx[i])
  <2>1. Ok(i)'
    BY <1>1, Completed DEF Base
  <2>2. rx'[i] = Tail(rx[i])
    BY <1>1 DEF Base, TypeOK, WireType
  <2> QED BY <2>1, <2>2
<1>5. /\ ~HasLen(i) /\ ~HasBody(i) /\ ~HalfSent(i)
      /\ HasLen(i)' /\ ~HasBody(i)' /\ ~HalfSent(i)'
  BY <1>1, <1>2, <1>3, <1>4, Places DEF HasLen, HasBody, HalfSent
<1>6. /\ Len(rx[i]) \in Nat /\ Replies(i) \in Nat /\ Taken(i) \in Nat /\ Taken(i)' = Taken(i) + 1
      /\ Replies(i)' = Replies(i) /\ rx[i] \in Seq(Cells)
  <2>1. Replies(i)' = Replies(i)
    BY <1>1 DEF Replies
  <2>2. Taken(i) = 2 * Replies(i) + 0 /\ Taken(i)' = 2 * Replies(i) + 1
    BY <1>5, <2>1 DEF Taken, InHand
  <2> QED BY <2>1, <2>2, Counted
<1>7. Placed(i)'
  <2>1. JobsFrom(rx'[i], Taken(i) + 1) /\ Len(rx'[i]) = Len(rx[i]) - 1
    BY <1>1, <1>3, <1>4, <1>6, JobsTail DEF Placed
  <2>2. peer[i] # "gone" => Taken(i) + 1 + (Len(rx[i]) - 1) = 2 * sent[i]
    <3>1. peer[i] # "gone" => Taken(i) + Len(rx[i]) = 2 * sent[i]
      BY <1>3 DEF Placed
    <3>2. Taken(i) \in Nat /\ Len(rx[i]) \in Nat
      BY <1>6
    <3> QED BY <3>1, <3>2, TailCounts
  <2> QED BY <1>1, <1>2, <1>3, <1>5, <1>6, <2>1, <2>2 DEF Placed
<1>8. Met(i)' /\ Sized(i)' /\ InOrder(i)'
  BY <1>1, <1>2, <1>3, Places DEF Met, Sized, InOrder
<1>9. Open(i)' /\ ~Serving(i) /\ ~Serving(i)'
  BY <1>1, <1>2, <1>3, <1>4, Places, OpenIs, ServingIs
<1>10. Moves(i)
  BY <1>1, <1>3, <1>9, AnswersKept DEF Moves, Stays, Conn, Current
<1> QED BY <1>2, <1>7, <1>8, <1>10, MoveStep

\* The second cell of a frame is among the cells.
LEMMA SecondCell ==
    ASSUME NEW l \in Nat, NEW k \in 1 .. l \div 2
    PROVE  2 * k \in 1 .. l
<1>1. PICK h \in Nat : h = l \div 2 /\ (l = 2 * h \/ l = 2 * h + 1)
  BY HalfOf
<1>2. k \in Nat /\ 1 <= k /\ k <= h
  BY <1>1
<1> QED BY <1>1, <1>2

\* The answers are a sequence of jobs.
LEMMA AnswersAre ==
    ASSUME Base, NEW i \in Ids
    PROVE  Answers(i) \in Seq(Nat) /\ Len(Answers(i)) = Replies(i)
<1>1. Replies(i) \in Nat /\ Len(tx[i]) \in Nat /\ tx[i] \in Seq(Cells)
  BY Counted
<1>2. ASSUME NEW k \in 1 .. Replies(i) PROVE tx[i][2 * k].job \in Nat
  <2>1. 2 * k \in 1 .. Len(tx[i])
    BY <1>1, SecondCell DEF Replies
  <2>2. tx[i][2 * k] \in Cells
    BY <1>1, <2>1, ElementOfSeq
  <2> QED BY <2>2 DEF Cells
<1>3. Answers(i) \in [1 .. Replies(i) -> Nat]
  BY <1>2 DEF Answers
<1> HIDE DEF Answers, Replies
<1>4. Answers(i) \in Seq(Nat)
  BY <1>1, <1>3, SeqDef
<1>5. Len(Answers(i)) \in Nat /\ DOMAIN Answers(i) = 1 .. Len(Answers(i))
  BY <1>4, LenProperties
<1>6. 1 .. Len(Answers(i)) = 1 .. Replies(i)
  BY <1>3, <1>5
<1> QED BY <1>1, <1>4, <1>5, <1>6

\* A body has been read, whole or short.
LEMMA CompleteReadDataStep ==
    ASSUME Base, Chains, NEW i \in Ids, CompleteReadData(i)
    PROVE  Good
<1>0. PICK n : n = Transferred(i)
  OBVIOUS
<1>1. /\ op[i] = "readData" /\ ~Ok(i) /\ rx[i] # <<>>
      /\ rx' = [rx EXCEPT ![i] = Tail(rx[i])]
      /\ m_dataBuf' = [m_dataBuf EXCEPT ![i] =
                         [job |-> Head(rx[i]).job, size |-> m_dataBuf[i].size + n]]
      /\ Completes(i, FALSE, n) /\ UNCHANGED <<m_dataLen, tx>>
  BY <1>0 DEF CompleteReadData, Outstanding, Ok
<1>2. /\ \A j \in Ids \ {i} : Same(j)
      /\ \A p \in Busy : In(i, p)' <=> In(i, p)
      /\ op'[i] = "readData" /\ peer'[i] = peer[i] /\ sent'[i] = sent[i]
  BY <1>1, TransferStep DEF Completion
<1>3. /\ peer[i] # "absent" /\ Open(i) /\ Conn(i) = "open" /\ Met(i) /\ Sized(i) /\ InOrder(i)
      /\ Placed(i) /\ \A p \in Busy : ~In(i, p)
  BY <1>1, Living
<1>4. Ok(i)' /\ rx'[i] = Tail(rx[i]) /\ res'[i].n = n
  <2>1. res'[i] = [ready |-> TRUE, ec |-> FALSE, n |-> n]
    BY <1>1 DEF Completes, Base, TypeOK, SessionType
  <2>2. rx'[i] = Tail(rx[i])
    BY <1>1 DEF Base, TypeOK, WireType
  <2>3. Ok(i)' /\ res'[i].n = n
    BY <2>1 DEF Ok
  <2> QED BY <2>2, <2>3
<1>5. /\ HasLen(i) /\ ~HasBody(i) /\ ~HalfSent(i)
      /\ HasBody(i)' /\ ~HalfSent(i)'
  BY <1>1, <1>2, <1>3, <1>4, Places DEF HasLen, HasBody, HalfSent
<1>6. /\ Len(rx[i]) \in Nat /\ Replies(i) \in Nat /\ Taken(i) \in Nat /\ Taken(i)' = Taken(i) + 1
      /\ Replies(i)' = Replies(i) /\ rx[i] \in Seq(Cells) /\ Taken(i) + 1 = 2 * (Replies(i) + 1)
  <2>1. Replies(i)' = Replies(i)
    BY <1>1 DEF Replies
  <2>2. Taken(i) = 2 * Replies(i) + 1 /\ Taken(i)' = 2 * Replies(i) + 2
    BY <1>5, <2>1 DEF Taken, InHand
  <2> QED BY <2>1, <2>2, Counted
<1>7. /\ JobsFrom(Tail(rx[i]), Taken(i) + 1) /\ Len(Tail(rx[i])) = Len(rx[i]) - 1
      /\ Head(rx[i]).job = Replies(i) + 1
  <2>1. /\ JobsFrom(Tail(rx[i]), Taken(i) + 1) /\ Len(Tail(rx[i])) = Len(rx[i]) - 1
        /\ \A m \in Nat : Taken(i) + 1 = 2 * m => Head(rx[i]).job = m
    BY <1>1, <1>3, <1>6, JobsTail DEF Placed
  <2>2. Replies(i) + 1 \in Nat
    BY <1>6
  <2> QED BY <1>6, <2>1, <2>2
<1>8. m_dataBuf'[i].job = Replies(i) + 1 /\ m_dataBuf'[i].size = n
  <2>1. m_dataBuf[i].size = 0
    BY <1>3, <1>5 DEF Placed, Empty
  <2>2. 0 + n = n
    BY <1>0, TransferredType DEF Base, TypeOK
  <2>3. m_dataBuf'[i] = [job |-> Head(rx[i]).job, size |-> 0 + n]
    BY <1>1, <2>1 DEF Base, TypeOK, SessionType
  <2> QED BY <1>7, <2>2, <2>3
<1>9. Placed(i)'
  <2>1. peer[i] # "gone" => Taken(i) + 1 + (Len(rx[i]) - 1) = 2 * sent[i]
    <3>1. peer[i] # "gone" => Taken(i) + Len(rx[i]) = 2 * sent[i]
      BY <1>3 DEF Placed
    <3>2. Taken(i) \in Nat /\ Len(rx[i]) \in Nat
      BY <1>6
    <3> QED BY <3>1, <3>2, TailCounts
  <2> QED BY <1>1, <1>2, <1>3, <1>4, <1>5, <1>6, <1>7, <1>8, <2>1 DEF Placed
<1>10. Met(i)' /\ Sized(i)' /\ InOrder(i)'
  BY <1>1, <1>2, <1>3, <1>4, <1>8, Places DEF Met, Sized, InOrder
<1>11. Open(i)' /\ ~Serving(i) /\ (Serving(i)' <=> n = m_dataLen[i])
  BY <1>1, <1>2, <1>3, <1>4, Places, OpenIs, ServingIs
<1>12. Answers(i)' = Answers(i) /\ Conn(i)' = "open" /\ Current(i) = 0
  BY <1>1, <1>11, AnswersKept DEF Conn, Current
<1>13. Moves(i)
  <2>1. CASE n = m_dataLen[i]
    <3>1. Current(i)' = Len(Answers(i)) + 1
      BY <1>8, <1>11, <2>1, AnswersAre DEF Current
    <3> QED BY <1>3, <1>12, <3>1 DEF Moves, Takes
  <2>2. CASE n # m_dataLen[i]
    <3>1. Current(i)' = 0
      BY <1>11, <2>2 DEF Current
    <3> QED BY <1>3, <1>12, <3>1 DEF Moves, Stays
  <2> QED BY <2>1, <2>2
<1> QED BY <1>2, <1>9, <1>10, <1>13, MoveStep

\* A cell behind a sequence of cells.
LEMMA CellAppended ==
    ASSUME NEW s \in Seq(Cells), NEW c \in Cells, NEW f, f = Append(s, c)
    PROVE  /\ Len(s) \in Nat /\ Len(f) = Len(s) + 1
           /\ f[Len(s) + 1] = c
           /\ \A k \in 1 .. Len(s) : f[k] = s[k]
BY AppendProperties, LenProperties

\* A sequence that has one element more.
LEMMA OneMore ==
    ASSUME NEW s \in Seq(Nat), NEW e \in Nat, NEW n \in Nat, n = Len(s),
           NEW f, f = [k \in 1 .. n + 1 |-> IF k <= n THEN s[k] ELSE e]
    PROVE  f = Append(s, e)
<1>1. /\ Append(s, e) \in Seq(Nat) /\ Len(Append(s, e)) = n + 1
      /\ Append(s, e)[n + 1] = e /\ \A k \in 1 .. n : Append(s, e)[k] = s[k]
  BY AppendProperties
<1>2. f \in [1 .. n + 1 -> Nat]
  <2>1. \A k \in 1 .. n : s[k] \in Nat
    BY ElementOfSeq
  <2>2. \A k \in 1 .. n + 1 : (IF k <= n THEN s[k] ELSE e) \in Nat
    BY <2>1
  <2> QED BY <2>2
<1>3. f \in Seq(Nat)
  BY <1>2, SeqDef
<1>4. Len(f) = n + 1
  BY <1>2, <1>3, LenProperties
<1>5. \A k \in 1 .. n + 1 : f[k] = Append(s, e)[k]
  BY <1>1
<1> QED BY <1>1, <1>3, <1>4, <1>5, SeqEqual

\* A cell that is in its order keeps the order.
LEMMA OrderGrows ==
    ASSUME Base, NEW i \in Ids, InOrder(i), NEW c \in Cells, tx'[i] = Append(tx[i], c),
           c = IF (Len(tx[i]) + 1) % 2 = 1 THEN [t |-> "len", job |-> 0, n |-> RespSize]
               ELSE [t |-> "body", job |-> (Len(tx[i]) + 1) \div 2, n |-> RespSize]
    PROVE  InOrder(i)' /\ Len(tx'[i]) = Len(tx[i]) + 1 /\ tx'[i][Len(tx[i]) + 1] = c
<1>1. /\ Len(tx[i]) \in Nat /\ Len(tx'[i]) = Len(tx[i]) + 1
      /\ tx'[i][Len(tx[i]) + 1] = c
      /\ \A k \in 1 .. Len(tx[i]) : tx'[i][k] = tx[i][k]
  <2>1. PICK s, f : s = tx[i] /\ f = tx'[i]
    OBVIOUS
  <2>2. s \in Seq(Cells) /\ f = Append(s, c)
    BY <2>1, Counted
  <2> QED BY ONLY <2>1, <2>2, c \in Cells, CellAppended
<1>2. \A k \in 1 .. Len(tx[i]) + 1 : k \in 1 .. Len(tx[i]) \/ k = Len(tx[i]) + 1
  BY <1>1
<1> QED BY <1>1, <1>2 DEF InOrder

\* The length of a response has been sent.
LEMMA CompleteWriteLenStep ==
    ASSUME Base, Chains, NEW i \in Ids, CompleteWriteLen(i)
    PROVE  Good
<1>0. PICK c : c = [t |-> "len", job |-> 0, n |-> m_dataLen[i]]
  OBVIOUS
<1>1. /\ op[i] = "writeLen" /\ ~Ok(i)
      /\ tx' = [tx EXCEPT ![i] = Append(tx[i], c)]
      /\ Completes(i, FALSE, LenSize) /\ UNCHANGED <<m_dataLen, m_dataBuf, rx>>
  BY <1>0 DEF CompleteWriteLen, Outstanding, Ok
<1>2. /\ \A j \in Ids \ {i} : Same(j)
      /\ \A p \in Busy : In(i, p)' <=> In(i, p)
      /\ op'[i] = "writeLen" /\ peer'[i] = peer[i] /\ sent'[i] = sent[i]
  BY <1>1, TransferStep DEF Completion
<1>3. /\ peer[i] # "absent" /\ Open(i) /\ Conn(i) = "open" /\ Met(i) /\ Sized(i) /\ InOrder(i)
      /\ Placed(i) /\ \A p \in Busy : ~In(i, p)
  BY <1>1, Living
<1>4. Ok(i)' /\ tx'[i] = Append(tx[i], c)
  <2>1. Ok(i)'
    BY <1>1, Completed DEF Base
  <2>2. tx'[i] = Append(tx[i], c)
    BY <1>1 DEF Base, TypeOK, WireType
  <2> QED BY <2>1, <2>2
<1>5. /\ HasBody(i) /\ ~HalfSent(i)
      /\ HasBody(i)' /\ HalfSent(i)'
  BY <1>1, <1>2, <1>3, <1>4, Places DEF HasBody, HalfSent
<1>6. /\ Replies(i) \in Nat /\ Len(tx[i]) = 2 * Replies(i)
      /\ c = [t |-> "len", job |-> 0, n |-> RespSize] /\ c \in Cells
  <2>1. Replies(i) \in Nat
    BY Counted
  <2>2. Len(tx[i]) = 2 * Replies(i)
    BY <1>3, <1>5, <2>1 DEF Placed
  <2>3. m_dataLen[i] = RespSize /\ RespSize \in Nat
    BY <1>1, <1>3, SizesAssumption DEF Sized
  <2> QED BY <1>0, <2>1, <2>2, <2>3 DEF Cells
<1>7. InOrder(i)' /\ Len(tx'[i]) = 2 * Replies(i) + 1
  <2>1. (Len(tx[i]) + 1) % 2 = 1
    BY <1>6, Halves
  <2> QED BY <1>3, <1>4, <1>6, <2>1, OrderGrows
<1>8. Replies(i)' = Replies(i) /\ Taken(i)' = Taken(i)
  <2>1. Replies(i)' = Replies(i)
    BY <1>6, <1>7, Halves DEF Replies
  <2> QED BY <1>5, <2>1 DEF Taken, InHand
<1>9. Placed(i)'
  BY <1>1, <1>2, <1>3, <1>5, <1>7, <1>8 DEF Placed, JobsFrom
<1>10. Met(i)' /\ Sized(i)'
  BY <1>1, <1>2, <1>3, Places DEF Met, Sized
<1>11. Open(i)' /\ Serving(i) /\ Serving(i)'
  BY <1>1, <1>2, <1>3, <1>4, Places, OpenIs, ServingIs
<1>12. Answers(i)' = Answers(i)
  <2>1. \A k \in 1 .. Replies(i) : 2 * k \in 1 .. Len(tx[i])
    BY <1>6
  <2>2. \A k \in 1 .. Replies(i) : tx'[i][2 * k] = tx[i][2 * k]
    BY <1>4, <1>6, <2>1, Counted, CellAppended
  <2> QED BY <1>8, <2>2 DEF Answers
<1>13. Moves(i)
  BY <1>1, <1>3, <1>11, <1>12 DEF Moves, Stays, Conn, Current
<1> QED BY <1>2, <1>7, <1>9, <1>10, <1>13, MoveStep

\* A response has been sent, and the request is answered.
LEMMA CompleteWriteDataStep ==
    ASSUME Base, Chains, NEW i \in Ids, CompleteWriteData(i)
    PROVE  Good
<1>0. PICK c, a : /\ c = [t |-> "body", job |-> m_dataBuf[i].job, n |-> m_dataBuf[i].size]
                  /\ a = Replies(i)
  OBVIOUS
<1>1. /\ op[i] = "writeData" /\ ~Ok(i)
      /\ tx' = [tx EXCEPT ![i] = Append(tx[i], c)]
      /\ m_dataBuf' = [m_dataBuf EXCEPT ![i] = Empty]
      /\ Completes(i, FALSE, m_dataBuf[i].size) /\ UNCHANGED <<m_dataLen, rx>>
  BY <1>0 DEF CompleteWriteData, Outstanding, Ok
<1>2. /\ \A j \in Ids \ {i} : Same(j)
      /\ \A p \in Busy : In(i, p)' <=> In(i, p)
      /\ op'[i] = "writeData" /\ peer'[i] = peer[i] /\ sent'[i] = sent[i]
  BY <1>1, TransferStep DEF Completion
<1>3. /\ peer[i] # "absent" /\ Open(i) /\ Conn(i) = "open" /\ Met(i) /\ Sized(i) /\ InOrder(i)
      /\ Placed(i) /\ \A p \in Busy : ~In(i, p)
  BY <1>1, Living
<1>4. Ok(i)' /\ tx'[i] = Append(tx[i], c) /\ m_dataBuf'[i] = Empty
  <2>1. Ok(i)'
    BY <1>1, Completed DEF Base
  <2>2. tx'[i] = Append(tx[i], c) /\ m_dataBuf'[i] = Empty
    BY <1>1 DEF Base, TypeOK, SessionType, WireType
  <2> QED BY <2>1, <2>2
<1>5. /\ HasBody(i) /\ HalfSent(i)
      /\ ~HasLen(i)' /\ ~HasBody(i)' /\ ~HalfSent(i)'
  BY <1>1, <1>2, <1>3, <1>4, Places DEF HasLen, HasBody, HalfSent
<1>6. /\ a \in Nat /\ Len(tx[i]) = 2 * a + 1 /\ m_dataBuf[i].job = a + 1
      /\ c = [t |-> "body", job |-> a + 1, n |-> RespSize] /\ c \in Cells
  <2>1. a \in Nat
    BY <1>0, Counted
  <2>2. Len(tx[i]) = 2 * a + 1 /\ m_dataBuf[i].job = a + 1
    BY <1>0, <1>3, <1>5, <2>1 DEF Placed
  <2>3. m_dataBuf[i].size = RespSize /\ RespSize \in Nat
    BY <1>1, <1>3, SizesAssumption DEF Sized
  <2> QED BY <1>0, <2>1, <2>2, <2>3 DEF Cells
<1>7. InOrder(i)' /\ Len(tx'[i]) = 2 * (a + 1) /\ tx'[i][2 * (a + 1)] = c
  <2>1. Len(tx[i]) + 1 = 2 * (a + 1) /\ a + 1 \in Nat
    BY <1>6
  <2>2. (Len(tx[i]) + 1) % 2 = 0 /\ (Len(tx[i]) + 1) \div 2 = a + 1
    BY <2>1, Halves
  <2>3. c = IF (Len(tx[i]) + 1) % 2 = 1 THEN [t |-> "len", job |-> 0, n |-> RespSize]
            ELSE [t |-> "body", job |-> (Len(tx[i]) + 1) \div 2, n |-> RespSize]
    BY <1>6, <2>2
  <2>4. InOrder(i)' /\ Len(tx'[i]) = Len(tx[i]) + 1 /\ tx'[i][Len(tx[i]) + 1] = c
    BY <1>3, <1>4, <1>6, <2>3, OrderGrows
  <2> QED BY <2>1, <2>4
<1>8. Replies(i)' = a + 1 /\ Taken(i)' = Taken(i)
  <2>1. Replies(i)' = a + 1
    BY <1>6, <1>7, Halves DEF Replies
  <2>2. Taken(i) = 2 * a + 2 /\ Taken(i)' = 2 * (a + 1) + 0
    BY <1>0, <1>5, <2>1 DEF Taken, InHand
  <2> QED BY <1>6, <2>1, <2>2
<1>9. Placed(i)'
  <2>1. JobsFrom(rx'[i], Taken(i)') /\ (peer'[i] # "gone" => Taken(i)' + Len(rx'[i]) = 2 * sent'[i])
    BY <1>1, <1>2, <1>3, <1>8 DEF Placed
  <2>2. Len(tx'[i]) = 2 * Replies(i)' + 0
    BY <1>6, <1>7, <1>8
  <2> QED BY <1>4, <1>5, <2>1, <2>2 DEF Placed
<1>10. Met(i)' /\ Sized(i)'
  BY <1>1, <1>2, <1>3, <1>4, Places DEF Met, Sized
<1>11. Open(i)' /\ Serving(i) /\ ~Serving(i)'
  BY <1>1, <1>2, <1>3, <1>4, Places, OpenIs, ServingIs
<1>12. Answers(i)' = Append(Answers(i), a + 1)
  <2>1. /\ Len(tx[i]) + 1 = 2 * (a + 1) /\ a + 1 \in Nat
        /\ \A k \in 1 .. a + 1 : /\ k <= a => 2 * k \in 1 .. Len(tx[i]) /\ k \in 1 .. a
                                 /\ ~(k <= a) => k = a + 1
    BY <1>6
  <2>2. \A k \in 1 .. Len(tx[i]) : tx'[i][k] = tx[i][k]
    BY <1>4, <1>6, Counted, CellAppended
  <2>3. tx'[i][2 * (a + 1)] = c
    BY <1>7
  <2>4. \A k \in 1 .. a : Answers(i)[k] = tx[i][2 * k].job
    BY <1>0 DEF Answers
  <2>5. ASSUME NEW k \in 1 .. a + 1
        PROVE  tx'[i][2 * k].job = IF k <= a THEN Answers(i)[k] ELSE a + 1
    <3>1. CASE k <= a
      <4>1. 2 * k \in 1 .. Len(tx[i]) /\ k \in 1 .. a
        BY <2>1, <3>1
      <4>2. tx'[i][2 * k] = tx[i][2 * k]
        BY <2>2, <4>1
      <4> QED BY <2>4, <3>1, <4>1, <4>2
    <3>2. CASE ~(k <= a)
      <4>1. k = a + 1
        BY <2>1, <3>2
      <4> QED BY <1>6, <2>3, <3>2, <4>1
    <3> QED BY <3>1, <3>2
  <2>6. Answers(i)' = [k \in 1 .. a + 1 |-> IF k <= a THEN Answers(i)[k] ELSE a + 1]
    BY <1>8, <2>5 DEF Answers
  <2>7. Answers(i) \in Seq(Nat) /\ Len(Answers(i)) = a
    BY <1>0, AnswersAre
  <2> QED BY <1>6, <2>1, <2>6, <2>7, OneMore
<1>13. Moves(i)
  <2>1. Current(i) = a + 1 /\ Current(i)' = 0 /\ Conn(i)' = "open" /\ a + 1 # 0
    BY <1>6, <1>11 DEF Current, Conn
  <2> QED BY <1>3, <1>12, <2>1 DEF Moves, Answer
<1> QED BY <1>2, <1>7, <1>9, <1>10, <1>13, MoveStep

(***************************************************************************)
(* The steps of the peers.                                                 *)
(***************************************************************************)
\* A peer touches nothing of a session but what it sends.
LEMMA PeerStays ==
    ASSUME NEW i \in Ids, UNCHANGED <<session, pool, tx>>,
           peer[i] = "connected", peer'[i] \in {"connected", "gone"}
    PROVE  /\ \A p \in Busy : In(i, p)' <=> In(i, p)
           /\ (HasLen(i)' <=> HasLen(i)) /\ (HasBody(i)' <=> HasBody(i))
           /\ (HalfSent(i)' <=> HalfSent(i))
           /\ Replies(i)' = Replies(i) /\ Taken(i)' = Taken(i)
           /\ Stays(i) /\ (Dead(i)' <=> Dead(i))
           /\ (Met(i) => Met(i)') /\ (Sized(i) => Sized(i)') /\ (InOrder(i) => InOrder(i)')
<1>1. /\ op'[i] = op[i] /\ res'[i] = res[i] /\ m_dataLen'[i] = m_dataLen[i]
      /\ m_dataBuf'[i] = m_dataBuf[i] /\ tx'[i] = tx[i]
      /\ \A p : In(i, p)' <=> In(i, p)
  BY DEF session, pool, In
<1>2. /\ HasLen(i)' <=> HasLen(i)
      /\ HasBody(i)' <=> HasBody(i)
      /\ HalfSent(i)' <=> HalfSent(i)
  BY <1>1 DEF HasLen, HasBody, HalfSent, Ok
<1>3. Replies(i)' = Replies(i) /\ Taken(i)' = Taken(i)
  BY <1>1, <1>2 DEF Replies, Taken, InHand
<1>4. (Open(i)' <=> Open(i)) /\ (Serving(i)' <=> Serving(i))
  BY <1>1, OpenIs, ServingIs DEF Ok
<1>5. Stays(i) /\ (Dead(i)' <=> Dead(i))
  BY <1>1, <1>4, AnswersKept DEF Stays, Conn, Current, Dead
<1>6. Met(i) => Met(i)'
  BY <1>1 DEF Met, Ok
<1>7. Sized(i) => Sized(i)'
  BY <1>1 DEF Sized, Ok
<1>8. InOrder(i) => InOrder(i)'
  BY <1>1 DEF InOrder
<1> QED BY <1>1, <1>2, <1>3, <1>5, <1>6, <1>7, <1>8

\* A peer sends its next request.
LEMMA PeerSendsStep ==
    ASSUME Base, Chains, NEW i \in Ids, PeerSends(i)
    PROVE  Good
<1>0. PICK n \in ReqSizes :
        rx' = [rx EXCEPT ![i] = rx[i] \o <<[t |-> "len", job |-> 0, n |-> n],
                                           [t |-> "body", job |-> sent[i] + 1, n |-> n]>>]
  BY DEF PeerSends
<1>1. PICK f : f = <<[t |-> "len", job |-> 0, n |-> n],
                     [t |-> "body", job |-> sent[i] + 1, n |-> n]>>
  OBVIOUS
<1>2. f \in Seq(Cells) /\ Len(f) = 2 /\ f[2].job = sent[i] + 1
  <2>1. n \in Nat /\ sent[i] + 1 \in Nat
    BY Counted, SizesAssumption
  <2> QED BY <1>1, <2>1 DEF Cells
<1>3. /\ peer[i] = "connected" /\ sent' = [sent EXCEPT ![i] = sent[i] + 1]
      /\ rx' = [rx EXCEPT ![i] = rx[i] \o f] /\ UNCHANGED <<session, pool, peer, tx>>
  BY <1>0, <1>1 DEF PeerSends
<1>4. /\ rx'[i] = rx[i] \o f /\ sent'[i] = sent[i] + 1
      /\ \A j \in Ids \ {i} : rx'[j] = rx[j] /\ sent'[j] = sent[j]
  BY <1>3 DEF Base, TypeOK, WireType
<1>5. \A j \in Ids \ {i} : Same(j)
  <2>1. \A j \in Ids : \A p \in Busy : In(j, p)' <=> In(j, p)
    BY <1>3 DEF In, pool
  <2> QED BY <1>3, <1>4, <2>1 DEF Same, session
<1>6. /\ (HasBody(i)' <=> HasBody(i)) /\ (HalfSent(i)' <=> HalfSent(i))
      /\ Replies(i)' = Replies(i) /\ Taken(i)' = Taken(i)
      /\ Stays(i) /\ (Dead(i)' <=> Dead(i))
      /\ (Met(i) => Met(i)') /\ (Sized(i) => Sized(i)') /\ (InOrder(i) => InOrder(i)')
  BY <1>3, PeerStays
<1>7. Placed(i) => Placed(i)'
  <2> SUFFICES ASSUME Placed(i) PROVE Placed(i)'
    OBVIOUS
  <2>1. /\ JobsFrom(rx[i], Taken(i)) /\ Taken(i) + Len(rx[i]) = 2 * sent[i]
        /\ rx[i] \in Seq(Cells) /\ Taken(i) \in Nat /\ sent[i] \in Nat /\ Len(rx[i]) \in Nat
    BY <1>3, Counted DEF Placed
  <2>2. JobsFrom(rx[i] \o f, Taken(i)) /\ Len(rx[i] \o f) = Len(rx[i]) + 2
    BY <1>2, <2>1, JobsFrame
  <2>3. Taken(i) + (Len(rx[i]) + 2) = 2 * (sent[i] + 1)
    BY <2>1
  <2>4. JobsFrom(rx'[i], Taken(i)) /\ Taken(i) + Len(rx'[i]) = 2 * sent'[i]
    BY <1>4, <2>2, <2>3
  <2> QED BY <1>3, <1>6, <2>4 DEF Placed, session
<1> QED BY <1>5, <1>6, <1>7, MoveStep DEF Chains, Chain, Moves

\* A peer leaves, with what was under way.
LEMMA PeerLeavesStep ==
    ASSUME Base, Chains, NEW i \in Ids, PeerLeaves(i)
    PROVE  Good
<1>0. PICK k \in 0 .. Len(rx[i]) : rx' = [rx EXCEPT ![i] = SubSeq(rx[i], 1, k)]
  BY DEF PeerLeaves
<1>1. /\ peer[i] = "connected" /\ peer' = [peer EXCEPT ![i] = "gone"]
      /\ UNCHANGED <<session, pool, sent, tx>>
  BY DEF PeerLeaves
<1>2. /\ rx'[i] = SubSeq(rx[i], 1, k) /\ peer'[i] = "gone"
      /\ \A j \in Ids \ {i} : rx'[j] = rx[j] /\ peer'[j] = peer[j]
  BY <1>0, <1>1 DEF Base, TypeOK, WireType
<1>3. \A j \in Ids \ {i} : Same(j)
  <2>1. \A j \in Ids : \A p \in Busy : In(j, p)' <=> In(j, p)
    BY <1>1 DEF In, pool
  <2> QED BY <1>1, <1>2, <2>1 DEF Same, session
<1>4. /\ (HasBody(i)' <=> HasBody(i)) /\ (HalfSent(i)' <=> HalfSent(i))
      /\ Replies(i)' = Replies(i) /\ Taken(i)' = Taken(i)
      /\ Stays(i) /\ (Dead(i)' <=> Dead(i))
      /\ (Met(i) => Met(i)') /\ (Sized(i) => Sized(i)') /\ (InOrder(i) => InOrder(i)')
  BY <1>1, <1>2, PeerStays
<1>5. Placed(i) => Placed(i)'
  <2> SUFFICES ASSUME Placed(i) PROVE Placed(i)'
    OBVIOUS
  <2>1. JobsFrom(rx[i], Taken(i)) /\ rx[i] \in Seq(Cells) /\ Taken(i) \in Nat
    BY Counted DEF Placed
  <2>2. JobsFrom(rx'[i], Taken(i))
    BY <1>2, <2>1, JobsPrefix
  <2> QED BY <1>1, <1>2, <1>4, <2>2 DEF Placed, session
<1> QED BY <1>3, <1>4, <1>5, MoveStep DEF Chains, Chain, Moves

(***************************************************************************)
(* The invariant and the refinement.                                       *)
(***************************************************************************)
\* Every step keeps the chains and is one of the service.
LEMMA ChainsStep == Base /\ Chains /\ [Next]_vars => Good
<1> SUFFICES ASSUME Base, Chains, [Next]_vars PROVE Good
  OBVIOUS
<1>1. ASSUME NEW t \in Threads, ThreadStep(t) PROVE Good
  BY <1>1, AcceptErrorStep, OnAcceptStep, NextOperationStep, OnDataReceivedStep, OnFailedStep,
     InitiateAcceptStep, InitiateCommunicationStep, OnRequestStep, OnDisconnectStep, LoopStep
     DEF ThreadStep, Handler
<1>2. ASSUME NEW i \in Ids, Completion(i) PROVE Good
  BY <1>2, TransferFailsStep, CompleteReadLenStep, CompleteReadDataStep, CompleteWriteLenStep,
     CompleteWriteDataStep DEF Completion
<1>3. ASSUME NEW i \in Ids, PeerStep(i) \/ AcceptFails(i) PROVE Good
  BY <1>3, ConnectStep, PeerSendsStep, PeerLeavesStep, AcceptErrorStep DEF PeerStep
<1>4. CASE Construct \/ BindFails \/ Eof \/ MainStep \/ Terminated
  BY <1>4, ConstructStep, MainIdles
<1>5. CASE UNCHANGED vars
  <2>1. \A j \in Ids : Same(j)
    BY <1>5 DEF vars, session, pool, wire, Same, In
  <2> QED BY <2>1, IdleStep
<1> QED BY <1>1, <1>2, <1>3, <1>4, <1>5 DEF Next

\* No session has begun in the first state.
LEMMA ChainsInit == Init => Chains /\ Service!SInit
<1> SUFFICES ASSUME Init PROVE Chains /\ Service!SInit
  OBVIOUS
<1>1. /\ \A i \in Ids : /\ op[i] = "none" /\ res[i] = NoResult /\ m_dataBuf[i] = Empty
                        /\ peer[i] = "absent" /\ sent[i] = 0 /\ rx[i] = <<>> /\ tx[i] = <<>>
      /\ \A i \in Ids : \A p \in Busy : ~In(i, p)
  BY DEF Init, In, Busy, InMap
<1>2. ASSUME NEW i \in Ids
      PROVE  ~Open(i) /\ ~Serving(i) /\ Replies(i) = 0 /\ ~HasLen(i) /\ ~HasBody(i) /\ ~HalfSent(i)
  <2>1. ~Open(i) /\ ~Serving(i)
    BY <1>1, Places, OpenIs, ServingIs
  <2>2. ~HasLen(i) /\ ~HasBody(i) /\ ~HalfSent(i)
    BY <1>1, Places DEF HasLen, HasBody, HalfSent
  <2>3. Replies(i) = 0
    <3>1. Len(tx[i]) = 2 * 0
      BY <1>1
    <3> QED BY <3>1, Halves DEF Replies
  <2> QED BY <2>1, <2>2, <2>3
<1>3. Chains
  <2>1. ASSUME NEW i \in Ids PROVE Placed(i)
    BY <1>1, <1>2 DEF Placed, Taken, InHand, JobsFrom
  <2>2. ASSUME NEW i \in Ids PROVE Met(i) /\ Sized(i) /\ InOrder(i)
    BY <1>1, Places DEF Met, Sized, InOrder
  <2> QED BY <2>1, <2>2 DEF Chains, Chain
<1>4. Service!SInit
  <2>1. \A i \in Ids : Conn(i) = "free" /\ Current(i) = 0
    BY <1>1, <1>2 DEF Conn, Current
  <2>2. \A i \in Ids : Answers(i) = <<>>
    BY <1>2 DEF Answers
  <2> QED BY <2>1, <2>2 DEF Service!SInit, Conn, Current, Answers, Replies
<1> QED BY <1>3, <1>4

\* The chains hold in every reachable state.
LEMMA ChainsHold == Spec => []Chains
<1>1. Base /\ Chains /\ [Next]_vars => Chains'
  BY ChainsStep DEF Good
<1> QED BY <1>1, ChainsInit, Invariance, PTL DEF Spec, IInv

(***************************************************************************)
(* The theorems.                                                           *)
(***************************************************************************)
\* The user's handler gets one whole request, the next one in the peer's order.
THEOREM HandlerTheorem == Spec => []HandlerSeesOneRequest
<1>1. Base /\ Chains => HandlerSeesOneRequest
  <2> SUFFICES ASSUME Base, Chains, NEW t \in Threads, at[t] = "work"
               PROVE  m_dataBuf[cur[t]] = [job |-> (Len(tx[cur[t]]) \div 2) + 1,
                                           size |-> m_dataLen[cur[t]]]
    BY DEF HandlerSeesOneRequest
  <2>0. PICK i : i = cur[t]
    OBVIOUS
  <2>1. i \in Ids /\ In(i, "work")
    BY <2>0 DEF Base, TypeOK, PoolType, In
  <2>2. Open(i) /\ HasBody(i)
    BY <2>1, OpenIs DEF HasBody
  <2>3. Placed(i) /\ Sized(i)
    BY <2>1, <2>2 DEF Chains, Chain, Dead
  <2>4. m_dataBuf[i].job = (Len(tx[i]) \div 2) + 1 /\ m_dataBuf[i].size = m_dataLen[i]
    BY <2>1, <2>2, <2>3 DEF Placed, Sized, Replies
  <2>5. m_dataBuf[i] = [job |-> m_dataBuf[i].job, size |-> m_dataBuf[i].size]
    BY <2>1 DEF Base, TypeOK, SessionType, Buffers
  <2> QED BY <2>0, <2>4, <2>5
<1> QED BY <1>1, Invariance, ChainsHold, PTL DEF IInv

\* A peer reads whole responses, in the order of its requests.
THEOREM ResponsesTheorem == Spec => []ResponsesInOrder
<1>1. Chains => ResponsesInOrder
  BY DEF Chains, Chain, InOrder, ResponsesInOrder
<1> QED BY <1>1, ChainsHold, PTL

\* The server implements RequestService: each connection's requests are taken
\* one at a time and in order, and answered before the next is taken.
THEOREM ServiceRefinement == Spec => ServesRequests
<1>1. Base /\ Chains /\ [Next]_vars => [Service!SNext]_Service!svars
  BY ChainsStep DEF Good, ServiceStep
<1> QED BY <1>1, ChainsInit, ChainsHold, Invariance, PTL DEF Spec, IInv, ServesRequests, Service!SSpec

(***************************************************************************)
(* Sums.  The community modules' fold is a recursive function on the       *)
(* subsets of the set, which removes a chosen element at a time.  These    *)
(* lemmas are those of QtSessionProofs, with which this module shares no   *)
(* proofs.                                                                 *)
(***************************************************************************)
First(s) == CHOOSE x \in s : TRUE

Sums(f, g, S) ==
    g = [s \in SUBSET S |-> IF s = {} THEN 0 ELSE f[First(s)] + g[s \ {First(s)}]]

\* What holds of a set whenever it holds of its strict subsets holds of every
\* finite set.
LEMMA SubsetInduction ==
  ASSUME NEW S, IsFiniteSet(S), NEW B,
         \A T \in SUBSET S : (\A U \in SUBSET T : U # T => U \in B) => T \in B
  PROVE  S \in B
<1> SUFFICES ASSUME S \notin B PROVE FALSE
  OBVIOUS
<1> DEFINE C == {T \in SUBSET S : T \notin B}
<1>1. IsWellFoundedOn(StrictSubsetOrdering(S), SUBSET S)
  <2>1. FiniteSubsetsOf(S) = SUBSET S
    BY FS_FiniteSubsetsOfFinite
  <2>2. IsWellFoundedOn(StrictSubsetOrdering(S), FiniteSubsetsOf(S))
    BY FS_StrictSubsetOrderingWellFounded
  <2> QED BY <2>1, <2>2
<1>2. \E T \in C : \A U \in C : <<U, T>> \notin StrictSubsetOrdering(S)
  <2>1. C \subseteq SUBSET S /\ C # {}
    OBVIOUS
  <2> HIDE DEF C
  <2> QED BY <1>1, <2>1, WFMin
<1>3. PICK T \in C : \A U \in C : <<U, T>> \notin StrictSubsetOrdering(S)
  BY <1>2
<1>4. \A U \in SUBSET T : U # T => U \in B
  BY <1>3 DEF StrictSubsetOrdering
<1> QED BY <1>3, <1>4

\* The chosen element is one of the set's.
LEMMA FirstIn ==
  ASSUME NEW s, s # {}
  PROVE  First(s) \in s
BY DEF First

\* What such a function says of a set.
LEMMA SumsValue ==
  ASSUME NEW f, NEW g, NEW S, Sums(f, g, S), NEW s \in SUBSET S
  PROVE  /\ s = {} => g[s] = 0
         /\ s # {} => g[s] = f[First(s)] + g[s \ {First(s)}]
BY DEF Sums

\* No two functions are the sums over the subsets of a finite set.
LEMMA SumsUnique ==
  ASSUME NEW f, NEW g, NEW h, NEW S, IsFiniteSet(S), Sums(f, g, S), Sums(f, h, S)
  PROVE  g = h
<1> DEFINE B == {T \in SUBSET S : g[T] = h[T]}
<1>1. ASSUME NEW T \in SUBSET S PROVE T \in B
  <2>1. ASSUME NEW V \in SUBSET T, \A U \in SUBSET V : U # V => U \in B
        PROVE  V \in B
    <3>1. CASE V = {}
      BY <3>1 DEF Sums
    <3>2. CASE V # {}
      <4>1. First(V) \in V
        BY <3>2, FirstIn
      <4>2. g[V \ {First(V)}] = h[V \ {First(V)}]
        BY <2>1, <4>1
      <4>3. g[V] = f[First(V)] + g[V \ {First(V)}]
        BY <3>2 DEF Sums
      <4>4. h[V] = f[First(V)] + h[V \ {First(V)}]
        BY <3>2 DEF Sums
      <4> QED BY <4>2, <4>3, <4>4
    <3> QED BY <3>1, <3>2
  <2>2. IsFiniteSet(T)
    BY FS_Subset
  <2> HIDE DEF B
  <2> QED BY <2>1, <2>2, SubsetInduction
<1>2. g = [s \in SUBSET S |-> g[s]] /\ h = [s \in SUBSET S |-> h[s]]
  BY DEF Sums
<1> QED BY <1>1, <1>2

\* The sums over the subsets of a set contain those over the subsets of its
\* subsets.
LEMMA SumsRestricted ==
  ASSUME NEW f, NEW g, NEW S, Sums(f, g, S), NEW T \in SUBSET S
  PROVE  Sums(f, [s \in SUBSET T |-> g[s]], T)
<1>1. ASSUME NEW s \in SUBSET T
      PROVE g[s] = IF s = {} THEN 0 ELSE f[First(s)] + [u \in SUBSET T |-> g[u]][s \ {First(s)}]
  BY DEF Sums
<1> QED BY <1>1 DEF Sums

\* There are such functions.
LEMMA SumsExist ==
  ASSUME NEW f, NEW S, IsFiniteSet(S)
  PROVE  \E g : Sums(f, g, S)
<1> DEFINE B == {T \in SUBSET S : \E g : Sums(f, g, T)}
<1>1. ASSUME NEW T \in SUBSET S, \A U \in SUBSET T : U # T => U \in B
      PROVE  T \in B
  <2> DEFINE R(s) == s \ {First(s)}
  <2>1. \A u \in SUBSET T : u # {} => R(u) \in SUBSET u /\ R(u) # u /\ R(u) # T /\ R(u) \in SUBSET T
    BY FirstIn
  <2> HIDE DEF R
  <2>2. \A u \in SUBSET T : u # T => \E g : Sums(f, g, u)
    BY <1>1
  <2>3. PICK G : G = [u \in SUBSET T |-> CHOOSE g : Sums(f, g, u)]
    OBVIOUS
  <2>4. ASSUME NEW u \in SUBSET T, u # T PROVE Sums(f, G[u], u)
    BY <2>2, <2>3, <2>4
  <2>5. PICK g : g = [s \in SUBSET T |-> IF s = {} THEN 0 ELSE f[First(s)] + G[R(s)][R(s)]]
    OBVIOUS
  <2>6. ASSUME NEW u \in SUBSET T, u # T PROVE g[u] = G[u][u]
    <3>1. Sums(f, G[u], u)
      BY <2>4, <2>6
    <3>2. CASE u = {}
      <4>1. g[u] = 0
        BY <2>5, <3>2
      <4>2. G[u][u] = 0
        BY <3>1, <3>2, SumsValue
      <4> QED BY <4>1, <4>2
    <3>3. CASE u # {}
      <4>1. R(u) \in SUBSET u /\ R(u) # T /\ R(u) \in SUBSET T /\ IsFiniteSet(R(u))
        BY <2>1, <3>3, FS_Subset
      <4>2. Sums(f, [s \in SUBSET R(u) |-> G[u][s]], R(u)) /\ Sums(f, G[R(u)], R(u))
        BY <2>4, <3>1, <4>1, SumsRestricted
      <4>3. [s \in SUBSET R(u) |-> G[u][s]] = G[R(u)]
        BY <4>1, <4>2, SumsUnique
      <4>4. G[R(u)][R(u)] = G[u][R(u)]
        BY <4>3
      <4>5. G[u][u] = f[First(u)] + G[u][R(u)]
        BY <3>1, <3>3, SumsValue DEF R
      <4>6. g[u] = f[First(u)] + G[R(u)][R(u)]
        BY <2>5, <3>3
      <4> QED BY <4>4, <4>5, <4>6
    <3> QED BY <3>2, <3>3
  <2>7. ASSUME NEW s \in SUBSET T, s # {} PROVE g[s] = f[First(s)] + g[R(s)]
    <3>1. g[s] = f[First(s)] + G[R(s)][R(s)]
      BY <2>5, <2>7
    <3>2. g[R(s)] = G[R(s)][R(s)]
      BY <2>1, <2>6, <2>7
    <3> QED BY <3>1, <3>2
  <2>8. Sums(f, g, T)
    BY <2>5, <2>7 DEF Sums, R
  <2> QED BY <2>8
<1> HIDE DEF B
<1>2. S \in B
  BY <1>1, SubsetInduction
<1> QED BY <1>2 DEF B

\* The fold is the value of the sums at the whole set.
LEMMA SumIsFold ==
  ASSUME NEW f, NEW S
  PROVE  SumOver(f, S) = (CHOOSE g : Sums(f, g, S))[S]
BY DEF SumOver, MapThenSumSet, MapThenFoldSet, Sums, First

\* A sum over no elements.
LEMMA SumEmpty ==
  ASSUME NEW f
  PROVE  SumOver(f, {}) = 0
<1>1. PICK g : g = CHOOSE h : Sums(f, h, {})
  OBVIOUS
<1>2. Sums(f, g, {})
  BY <1>1, SumsExist, FS_EmptySet
<1> QED BY <1>1, <1>2, SumIsFold, SumsValue

\* A sum over some elements: the chosen one's share, and the rest's.
LEMMA SumFirst ==
  ASSUME NEW f, NEW S, IsFiniteSet(S), S # {}
  PROVE  SumOver(f, S) = f[First(S)] + SumOver(f, S \ {First(S)})
<1>1. PICK T : T = S \ {First(S)}
  OBVIOUS
<1>2. T \in SUBSET S /\ IsFiniteSet(T)
  BY <1>1, FS_Subset
<1>3. PICK g : g = CHOOSE x : Sums(f, x, S)
  OBVIOUS
<1>4. PICK h : h = CHOOSE x : Sums(f, x, T)
  OBVIOUS
<1>5. Sums(f, g, S) /\ Sums(f, h, T)
  BY <1>2, <1>3, <1>4, SumsExist
<1>6. [s \in SUBSET T |-> g[s]] = h
  BY <1>2, <1>5, SumsRestricted, SumsUnique
<1>7. g[T] = h[T]
  BY <1>6
<1>8. g[S] = f[First(S)] + g[T]
  BY <1>1, <1>5, SumsValue
<1>9. SumOver(f, S) = g[S] /\ SumOver(f, T) = h[T]
  BY <1>3, <1>4, SumIsFold
<1> QED BY <1>1, <1>7, <1>8, <1>9

\* A sum of naturals is a natural.
LEMMA SumType ==
  ASSUME NEW f, NEW S, IsFiniteSet(S), \A x \in S : f[x] \in Nat
  PROVE  SumOver(f, S) \in Nat
<1> DEFINE B == {T \in SUBSET S : SumOver(f, T) \in Nat}
<1>1. ASSUME NEW T \in SUBSET S, \A U \in SUBSET T : U # T => U \in B
      PROVE  T \in B
  <2>1. CASE T = {}
    BY <2>1, SumEmpty
  <2>2. CASE T # {}
    <3>1. First(T) \in T
      BY <2>2, FirstIn
    <3>2. SumOver(f, T) = f[First(T)] + SumOver(f, T \ {First(T)})
      BY <2>2, SumFirst, FS_Subset
    <3>3. SumOver(f, T \ {First(T)}) \in Nat
      BY <1>1, <3>1
    <3> QED BY <3>1, <3>2, <3>3
  <2> QED BY <2>1, <2>2
<1> HIDE DEF B
<1>2. S \in B
  BY <1>1, SubsetInduction
<1> QED BY <1>2 DEF B

\* Any element may be the one that is removed, whichever the fold takes first.
LEMMA SumRemove ==
  ASSUME NEW f, NEW S, IsFiniteSet(S), \A x \in S : f[x] \in Nat, NEW a \in S
  PROVE  SumOver(f, S) = f[a] + SumOver(f, S \ {a})
<1> DEFINE B == {T \in SUBSET S : \A x \in T : SumOver(f, T) = f[x] + SumOver(f, T \ {x})}
<1>1. ASSUME NEW T \in SUBSET S, \A U \in SUBSET T : U # T => U \in B
      PROVE  T \in B
  <2>1. ASSUME NEW x \in T PROVE SumOver(f, T) = f[x] + SumOver(f, T \ {x})
    <3>1. PICK y : y = First(T)
      OBVIOUS
    <3>2. y \in T /\ SumOver(f, T) = f[y] + SumOver(f, T \ {y})
      BY <3>1, FirstIn, SumFirst, FS_Subset
    <3>3. CASE x # y
      <4>1. SumOver(f, T \ {y}) = f[x] + SumOver(f, (T \ {y}) \ {x})
        BY <1>1, <3>2, <3>3
      <4>2. SumOver(f, T \ {x}) = f[y] + SumOver(f, (T \ {x}) \ {y})
        BY <1>1, <3>2, <3>3
      <4>3. PICK U : U = (T \ {y}) \ {x}
        OBVIOUS
      <4>4. U = (T \ {x}) \ {y}
        BY <4>3
      <4>5. SumOver(f, U) \in Nat
        BY <4>3, SumType, FS_Subset
      <4>6. f[x] \in Nat /\ f[y] \in Nat
        BY <3>2
      <4> QED BY <3>2, <4>1, <4>2, <4>3, <4>4, <4>5, <4>6
    <3> QED BY <3>2, <3>3
  <2> QED BY <2>1
<1> HIDE DEF B
<1>2. S \in B
  BY <1>1, SubsetInduction
<1> QED BY <1>2 DEF B

\* A sum looks at its elements only.
LEMMA SumSame ==
  ASSUME NEW f, NEW g, NEW S, IsFiniteSet(S), \A x \in S : f[x] = g[x]
  PROVE  SumOver(f, S) = SumOver(g, S)
<1> DEFINE B == {T \in SUBSET S : SumOver(f, T) = SumOver(g, T)}
<1>1. ASSUME NEW T \in SUBSET S, \A U \in SUBSET T : U # T => U \in B
      PROVE  T \in B
  <2>1. CASE T = {}
    BY <2>1, SumEmpty
  <2>2. CASE T # {}
    <3>1. First(T) \in T /\ IsFiniteSet(T)
      BY <2>2, FirstIn, FS_Subset
    <3>2. SumOver(f, T) = f[First(T)] + SumOver(f, T \ {First(T)})
      BY <2>2, <3>1, SumFirst
    <3>3. SumOver(g, T) = g[First(T)] + SumOver(g, T \ {First(T)})
      BY <2>2, <3>1, SumFirst
    <3>4. SumOver(f, T \ {First(T)}) = SumOver(g, T \ {First(T)})
      BY <1>1, <3>1
    <3> QED BY <3>1, <3>2, <3>3, <3>4
  <2> QED BY <2>1, <2>2
<1> HIDE DEF B
<1>2. S \in B
  BY <1>1, SubsetInduction
<1> QED BY <1>2 DEF B

\* An element that joins adds its share.
LEMMA SumAdd ==
  ASSUME NEW f, NEW S, NEW a, IsFiniteSet(S), a \notin S, \A x \in S \cup {a} : f[x] \in Nat
  PROVE  SumOver(f, S \cup {a}) = SumOver(f, S) + f[a]
<1>1. PICK T : T = S \cup {a}
  OBVIOUS
<1>2. IsFiniteSet(T)
  BY <1>1, FS_AddElement
<1>3. T \ {a} = S /\ a \in T
  BY <1>1
<1>4. SumOver(f, T) = f[a] + SumOver(f, S)
  BY <1>1, <1>2, <1>3, SumRemove
<1>5. SumOver(f, S) \in Nat /\ f[a] \in Nat
  BY SumType
<1> QED BY <1>1, <1>4, <1>5

(***************************************************************************)
(* The benchmark's server.  Its steps are those of AsioServer, which count *)
(* or add up what was counted, and an exception out of the accept handler  *)
(* between the re-arming and the session's first read.  The latter leaves  *)
(* an entry that nothing runs for, so StoredIsOwned is lost.               *)
(***************************************************************************)
\* A response has been sent that is not counted yet.
Sent(i) == op[i] = "writeData" /\ Ok(i)

\* The session has not begun.
Fresh(i) == peer[i] = "absent" \/ op[i] = "accept" \/ In(i, "emplace") \/ In(i, "begin")

Gone == {i \in Ids : Dead(i)}

Count(i) ==
    /\ m_requestCount[i] \in Nat
    /\ m_requestCount[i] \in {Replies(i) - 1, Replies(i)}
    /\ ~Dead(i) => m_requestCount[i] = IF Sent(i) THEN Replies(i) - 1 ELSE Replies(i)
    /\ Fresh(i) => m_requestCount[i] = 0

Counts ==
    /\ m_requestCount \in [Ids -> Nat]
    /\ m_totalRequests = SumOver(m_requestCount, Gone)
    /\ \A i \in Ids : Count(i)

BmInv == Base /\ OwnedIsStored /\ Chains /\ Counts

\* What the counts depend on is as before.
Settled(i) ==
    /\ Dead(i)' <=> Dead(i)
    /\ Fresh(i)' => Fresh(i)
    /\ Replies(i)' = Replies(i)
    /\ Sent(i)' <=> Sent(i)

\* A session that gets no response and neither begins nor ends.
LEMMA SettledIs ==
    ASSUME NEW i \in Ids, tx'[i] = tx[i], Sent(i)' <=> Sent(i),
           op'[i] = "none" <=> op[i] = "none", op'[i] = "accept" => op[i] = "accept",
           peer'[i] = "absent" <=> peer[i] = "absent",
           \A p \in Busy : In(i, p)' <=> In(i, p)
    PROVE  Settled(i)
<1>1. /\ In(i, "emplace")' <=> In(i, "emplace")
      /\ In(i, "begin")' <=> In(i, "begin")
      /\ In(i, "work")' <=> In(i, "work")
  BY Places
<1>2. Open(i)' <=> Open(i)
  BY <1>1, OpenIs
<1> QED BY <1>1, <1>2 DEF Settled, Dead, Fresh, Replies

\* A session that a step leaves alone.
LEMMA SameSettled ==
    ASSUME NEW i \in Ids, Same(i)
    PROVE  Settled(i)
BY SettledIs DEF Same, Sent, Ok

\* The loop, main(), the peers, and the end.
LEMMA QuietSettled ==
    ASSUME Base, \/ \E t \in Threads : Loop(t) \/ RunReturns(t)
                 \/ \E i \in Ids : PeerSends(i) \/ PeerLeaves(i)
                 \/ BindFails \/ Eof \/ MainStep \/ Terminated \/ UNCHANGED vars
    PROVE  \A i \in Ids : Settled(i)
<1>1. UNCHANGED <<op, res, tx>>
  BY DEF Loop, RunReturns, PeerSends, PeerLeaves, BindFails, Eof, MainStep, ResetGuard, Stop,
     Join, Terminated, vars, session, wire
<1>2. \A i \in Ids : \A p \in Busy : In(i, p)' <=> In(i, p)
  <2>1. ASSUME NEW t \in Threads, Loop(t) \/ RunReturns(t)
        PROVE  \A i \in Ids : \A p \in Busy : In(i, p)' <=> In(i, p)
    <3>1. PICK place : place \notin Busy /\ Goes(t, place)
      BY <2>1 DEF Loop, RunReturns, Busy, InMap
    <3>2. at[t] \notin Busy /\ cur' = cur
      BY <2>1 DEF Loop, RunReturns, Busy, InMap
    <3> QED BY <3>1, <3>2, IdleMoves DEF Base
  <2>2. CASE \/ \E i \in Ids : PeerSends(i) \/ PeerLeaves(i)
             \/ BindFails \/ Eof \/ MainStep \/ Terminated \/ UNCHANGED vars
    <3>1. at' = at /\ cur' = cur
      BY <2>2 DEF PeerSends, PeerLeaves, BindFails, Eof, MainStep, ResetGuard, Stop, Join,
         Terminated, vars, pool
    <3> QED BY <3>1 DEF In
  <2> QED BY <2>1, <2>2
<1>3. \A i \in Ids : peer'[i] = "absent" <=> peer[i] = "absent"
  <2>1. ASSUME NEW i \in Ids, PeerLeaves(i)
        PROVE  \A j \in Ids : peer'[j] = "absent" <=> peer[j] = "absent"
    BY <2>1 DEF PeerLeaves, Base, TypeOK, WireType
  <2>2. CASE \/ \E t \in Threads : Loop(t) \/ RunReturns(t)
             \/ \E i \in Ids : PeerSends(i)
             \/ BindFails \/ Eof \/ MainStep \/ Terminated \/ UNCHANGED vars
    BY <2>2 DEF Loop, RunReturns, PeerSends, BindFails, Eof, MainStep, ResetGuard, Stop, Join,
       Terminated, vars, wire
  <2> QED BY <2>1, <2>2
<1> QED BY <1>1, <1>2, <1>3, SettledIs DEF Sent, Ok

\* The operations on an accept, and the first of them.
LEMMA AcceptsSettled ==
    ASSUME Base, Chains,
           \/ \E i \in Ids : Connect(i) \/ AcceptFails(i)
           \/ \E i \in Ids, t \in Threads : OnAccept(t, i) \/ OnAcceptError(t, i)
           \/ Construct
    PROVE  \A i \in Ids : Settled(i)
<1>1. ASSUME NEW i \in Ids, Connect(i) \/ AcceptFails(i)
      PROVE  \A j \in Ids : Settled(j)
  <2>1. /\ op[i] = "accept" /\ op' = op /\ tx' = tx /\ at' = at /\ cur' = cur
        /\ peer[i] = "absent" /\ peer' \in {peer, [peer EXCEPT ![i] = "connected"]}
        /\ res' \in {[res EXCEPT ![i] = [ready |-> TRUE, ec |-> TRUE, n |-> 0]],
                     [res EXCEPT ![i] = [ready |-> TRUE, ec |-> FALSE, n |-> 0]]}
    BY <1>1 DEF Connect, AcceptFails, Outstanding, Completes, Base, AcceptChain, pool, wire
  <2>2. \A j \in Ids \ {i} : res'[j] = res[j] /\ peer'[j] = peer[j]
    BY <2>1 DEF Base, TypeOK, SessionType, WireType
  <2>3. \A j \in Ids : \A p \in Busy : In(j, p)' <=> In(j, p)
    BY <2>1 DEF In
  <2>4. \A j \in Ids \ {i} : Settled(j)
    BY <2>1, <2>2, <2>3, SettledIs DEF Sent, Ok
  <2>5. Settled(i)
    <3>1. peer'[i] # "absent" => Open(i)'
      BY <2>1, OpenIs
    <3> QED BY <2>1, <3>1 DEF Settled, Dead, Fresh, Replies, Sent
  <2> QED BY <2>4, <2>5
<1>2. ASSUME NEW i \in Ids, NEW t \in Threads, OnAccept(t, i)
      PROVE  \A j \in Ids : Settled(j)
  <2>1. /\ op[i] = "accept" /\ Ok(i) /\ at[t] = "run" /\ Starts(i, "none")
        /\ Goes(t, "emplace") /\ cur' = [cur EXCEPT ![t] = i] /\ UNCHANGED <<peer, tx>>
    BY <1>2 DEF OnAccept, Dispatch, EnterMap, wire, Ok
  <2>2. /\ \A j \in Ids \ {i} : \A p \in Busy : In(j, p)' <=> In(j, p)
        /\ \A p \in Busy : ~In(i, p) /\ (In(i, p)' <=> p = "emplace")
    BY <2>1, Places, HandlerEnters DEF Base
  <2>3. op'[i] = "none" /\ \A j \in Ids \ {i} : op'[j] = op[j] /\ res'[j] = res[j]
    BY <2>1, Started DEF Base
  <2>4. \A j \in Ids \ {i} : Settled(j)
    BY <2>1, <2>2, <2>3, SettledIs DEF Sent, Ok
  <2>5. Open(i) /\ Open(i)'
    <3>1. peer[i] # "absent"
      BY <2>1 DEF Chains, Chain, Met
    <3> QED BY <2>1, <2>2, <3>1, Places, OpenIs
  <2>6. Settled(i)
    BY <2>1, <2>3, <2>5 DEF Settled, Dead, Fresh, Replies, Sent
  <2> QED BY <2>4, <2>6
<1>3. ASSUME NEW i \in Ids, NEW t \in Threads, OnAcceptError(t, i)
      PROVE  \A j \in Ids : Settled(j)
  <2>1. /\ op[i] = "accept" /\ peer[i] = "absent" /\ Starts(i, "none") /\ UNCHANGED <<peer, tx>>
    BY <1>3 DEF OnAcceptError, Dispatch, Base, AcceptChain, wire
  <2>2. \A j \in Ids : \A p \in Busy : In(j, p)' <=> In(j, p)
    BY <1>3, IdleMoves DEF OnAcceptError, Dispatch, Busy, InMap, Base
  <2>3. op'[i] = "none" /\ \A j \in Ids \ {i} : op'[j] = op[j] /\ res'[j] = res[j]
    BY <2>1, Started DEF Base
  <2>4. \A j \in Ids \ {i} : Settled(j)
    BY <2>1, <2>2, <2>3, SettledIs DEF Sent, Ok
  <2>5. Settled(i)
    BY <2>1, <2>3 DEF Settled, Dead, Fresh, Replies, Sent
  <2> QED BY <2>4, <2>5
<1>4. CASE Construct
  <2>1. /\ 0 \in Ids /\ op[0] = "none" /\ peer[0] = "absent"
    BY <1>4, SizesAssumption DEF Ids, Construct, Base, AcceptChain
  <2>2. Starts(0, "accept") /\ UNCHANGED <<at, cur, peer, tx>>
    BY <1>4 DEF Construct, AcceptChain, Base, AcceptsNext, pool, wire
  <2>3. op'[0] = "accept" /\ \A j \in Ids \ {0} : op'[j] = op[j] /\ res'[j] = res[j]
    BY <2>1, <2>2, Started DEF Base
  <2>4. \A j \in Ids : \A p \in Busy : In(j, p)' <=> In(j, p)
    BY <2>2 DEF In
  <2>5. \A j \in Ids \ {0} : Settled(j)
    BY <2>2, <2>3, <2>4, SettledIs DEF Sent, Ok
  <2>6. Settled(0)
    BY <2>1, <2>2, <2>3 DEF Settled, Dead, Fresh, Replies, Sent
  <2> QED BY <2>5, <2>6
<1> QED BY <1>1, <1>2, <1>3, <1>4

\* The steps from the accept to the first read, and those of a session that
\* has died.
LEMMA RegistrySettled ==
    ASSUME Base, Chains, NEW t \in Threads,
           InitiateAccept(t) \/ InitiateCommunication(t) \/ OnDisconnect(t)
    PROVE  \A i \in Ids : Settled(i)
<1>1. PICK i : i = cur[t]
  OBVIOUS
<1>2. i \in Ids /\ at[t] \in Busy /\ cur' = cur /\ tx' = tx
  BY <1>1 DEF InitiateAccept, InitiateCommunication, OnDisconnect, Base, TypeOK, PoolType, Busy,
     InMap, wire
<1>3. CASE InitiateAccept(t)
  <2>1. PICK c : c = m_clientIdCounter
    OBVIOUS
  <2>2. c \in Ids /\ c # i /\ op[c] = "none" /\ peer[c] = "absent"
    <3>1. c = i + 1 /\ i < MaxId
      BY <1>1, <1>3, <2>1 DEF InitiateAccept, Base, AcceptChain
    <3>2. c \in Ids /\ c # i /\ c >= c
      BY <1>2, <3>1, SizesAssumption DEF Ids
    <3> QED BY <2>1, <3>2 DEF Base, AcceptChain
  <2>3. at[t] = "emplace" /\ Goes(t, "begin") /\ Starts(c, "accept") /\ peer' = peer
    BY <1>3, <2>1 DEF InitiateAccept, AcceptsNext, wire
  <2>4. op'[c] = "accept" /\ \A j \in Ids \ {c} : op'[j] = op[j] /\ res'[j] = res[j]
    BY <2>2, <2>3, Started DEF Base
  <2>5. /\ \A j \in Ids \ {i} : \A p \in Busy : In(j, p)' <=> In(j, p)
        /\ \A p \in Busy : (In(i, p) <=> p = "emplace") /\ (In(i, p)' <=> p = "begin")
    BY <1>1, <1>2, <2>3, HandlerMoves DEF Base
  <2>6. \A j \in Ids \ {i, c} : Settled(j)
    BY <1>2, <2>3, <2>4, <2>5, SettledIs DEF Sent, Ok
  <2>7. Settled(c)
    BY <1>2, <2>2, <2>3, <2>4 DEF Settled, Dead, Fresh, Replies, Sent
  <2>8. Settled(i)
    <3>1. Open(i) /\ Open(i)' /\ Fresh(i) /\ op'[i] = op[i] /\ res'[i] = res[i]
      BY <1>2, <2>2, <2>4, <2>5, Places, OpenIs DEF Fresh
    <3> QED BY <1>2, <3>1 DEF Settled, Dead, Replies, Sent, Ok
  <2> QED BY <2>6, <2>7, <2>8
<1>4. CASE InitiateCommunication(t)
  <2>1. at[t] = "begin" /\ Goes(t, "run") /\ Starts(i, "readLen") /\ peer' = peer
    BY <1>1, <1>4 DEF InitiateCommunication, InitiateReceiveRequest, wire
  <2>2. op'[i] = "readLen" /\ \A j \in Ids \ {i} : op'[j] = op[j] /\ res'[j] = res[j]
    BY <1>2, <2>1, Started DEF Base
  <2>3. /\ \A j \in Ids \ {i} : \A p \in Busy : In(j, p)' <=> In(j, p)
        /\ \A p \in Busy : In(i, p) <=> p = "begin"
        /\ op[i] = "none"
    BY <1>1, <1>2, <2>1, HandlerMoves DEF Base
  <2>4. \A j \in Ids \ {i} : Settled(j)
    BY <1>2, <2>1, <2>2, <2>3, SettledIs DEF Sent, Ok
  <2>5. peer[i] # "absent" /\ Open(i) /\ Fresh(i)
    BY <1>2, <2>3, Places, OpenIs DEF Chains, Chain, Met, Fresh
  <2>6. Open(i)'
    BY <1>2, <2>1, <2>2, <2>5, OpenIs
  <2>7. Settled(i)
    BY <1>2, <2>2, <2>3, <2>5, <2>6 DEF Settled, Dead, Replies, Sent
  <2> QED BY <2>4, <2>7
<1>5. CASE OnDisconnect(t)
  <2>1. at[t] = "erase" /\ Goes(t, "run") /\ op' = op /\ res' = res
    BY <1>5 DEF OnDisconnect, session
  <2>2. /\ \A j \in Ids \ {i} : \A p \in Busy : In(j, p)' <=> In(j, p)
        /\ \A p \in Busy : (In(i, p) <=> p = "erase") /\ ~In(i, p)'
        /\ op[i] = "none"
    <3>1. "run" \notin Busy
      BY DEF Busy, InMap
    <3> QED BY <1>1, <1>2, <2>1, <3>1, HandlerMoves DEF Base
  <2>3. peer[i] # "absent"
    BY <1>2, <2>2, Places DEF Chains, Chain, Met
  <2>4. peer'[i] # "absent" /\ \A j \in Ids \ {i} : peer'[j] = peer[j]
    BY <1>1, <1>2, <1>5, <2>3 DEF OnDisconnect, Base, TypeOK, WireType
  <2>5. \A j \in Ids \ {i} : Settled(j)
    BY <1>2, <2>1, <2>2, <2>4, SettledIs DEF Sent, Ok
  <2>6. ~Open(i) /\ ~Open(i)'
    BY <1>2, <2>1, <2>2, Places, OpenIs
  <2>7. Settled(i)
    BY <1>2, <2>1, <2>2, <2>3, <2>4, <2>6, Places DEF Settled, Dead, Fresh, Replies, Sent, Ok
  <2> QED BY <2>5, <2>7
<1> QED BY <1>3, <1>4, <1>5

\* The handlers and operations of a request, but for the sending of the
\* response.
LEMMA RequestSettled ==
    ASSUME Base, Chains,
           \/ \E t \in Threads, i \in Ids : \/ OnLenReceived(t, i) \/ OnDataReceived(t, i)
                                            \/ OnLenSent(t, i)
           \/ \E t \in Threads : OnRequest(t)
    PROVE  \A i \in Ids : Settled(i)
<1>1. ASSUME NEW t \in Threads, NEW i \in Ids, OnLenReceived(t, i) \/ OnLenSent(t, i)
      PROVE  \A j \in Ids : Settled(j)
  <2>1. /\ \/ op[i] = "readLen" /\ Starts(i, "readData")
           \/ op[i] = "writeLen" /\ Starts(i, "writeData")
        /\ UNCHANGED <<at, cur, peer, tx>>
    BY <1>1 DEF OnLenReceived, OnLenSent, Dispatch, pool, wire
  <2>2. /\ op'[i] \in {"readData", "writeData"} /\ ~Ok(i)'
        /\ \A j \in Ids \ {i} : op'[j] = op[j] /\ res'[j] = res[j]
    BY <2>1, Started DEF Base
  <2>3. \A j \in Ids : \A p \in Busy : In(j, p)' <=> In(j, p)
    BY <2>1 DEF In
  <2>4. \A j \in Ids \ {i} : Settled(j)
    BY <2>1, <2>2, <2>3, SettledIs DEF Sent, Ok
  <2>5. Settled(i)
    BY <2>1, <2>2, <2>3, SettledIs DEF Sent
  <2> QED BY <2>4, <2>5
<1>2. ASSUME NEW t \in Threads, NEW i \in Ids, OnDataReceived(t, i)
      PROVE  \A j \in Ids : Settled(j)
  <2>1. /\ op[i] = "readData" /\ at[t] = "run" /\ Starts(i, "none")
        /\ Goes(t, "work") /\ cur' = [cur EXCEPT ![t] = i] /\ UNCHANGED <<peer, tx>>
    BY <1>2 DEF OnDataReceived, Dispatch, wire
  <2>2. /\ \A j \in Ids \ {i} : \A p \in Busy : In(j, p)' <=> In(j, p)
        /\ \A p \in Busy : ~In(i, p) /\ (In(i, p)' <=> p = "work")
    BY <2>1, Places, HandlerEnters DEF Base
  <2>3. op'[i] = "none" /\ \A j \in Ids \ {i} : op'[j] = op[j] /\ res'[j] = res[j]
    BY <2>1, Started DEF Base
  <2>4. \A j \in Ids \ {i} : Settled(j)
    BY <2>1, <2>2, <2>3, SettledIs DEF Sent, Ok
  <2>5. peer[i] # "absent" /\ Open(i)
    BY <2>1, Living
  <2>6. Open(i)' /\ ~Fresh(i)'
    BY <2>1, <2>2, <2>3, <2>5, Places, OpenIs DEF Fresh
  <2>7. Settled(i)
    BY <2>1, <2>3, <2>5, <2>6 DEF Settled, Dead, Replies, Sent
  <2> QED BY <2>4, <2>7
<1>3. ASSUME NEW t \in Threads, OnRequest(t)
      PROVE  \A j \in Ids : Settled(j)
  <2>1. PICK i : i = cur[t]
    OBVIOUS
  <2>2. /\ i \in Ids /\ at[t] = "work" /\ Starts(i, "writeLen") /\ Goes(t, "run") /\ cur' = cur
        /\ UNCHANGED <<peer, tx>>
    BY <1>3, <2>1 DEF OnRequest, wire, Base, TypeOK, PoolType
  <2>3. /\ \A j \in Ids \ {i} : \A p \in Busy : In(j, p)' <=> In(j, p)
        /\ \A p \in Busy : (In(i, p) <=> p = "work") /\ ~In(i, p)'
        /\ op[i] = "none"
    <3>1. "run" \notin Busy
      BY DEF Busy, InMap
    <3> QED BY <2>1, <2>2, <3>1, Places, HandlerMoves DEF Base
  <2>4. op'[i] = "writeLen" /\ \A j \in Ids \ {i} : op'[j] = op[j] /\ res'[j] = res[j]
    BY <2>2, Started DEF Base
  <2>5. \A j \in Ids \ {i} : Settled(j)
    BY <2>2, <2>3, <2>4, SettledIs DEF Sent, Ok
  <2>6. peer[i] # "absent"
    BY <2>2, <2>3, Places DEF Chains, Chain, Met
  <2>7. Open(i) /\ Open(i)' /\ ~Fresh(i)'
    BY <2>2, <2>3, <2>4, <2>6, Places, OpenIs DEF Fresh
  <2>8. Settled(i)
    BY <2>2, <2>3, <2>4, <2>7 DEF Settled, Dead, Replies, Sent
  <2> QED BY <2>5, <2>8
<1> QED BY <1>1, <1>2, <1>3

\* The transfers, but for that of a response's body.
LEMMA TransferSettled ==
    ASSUME Base, Chains, NEW i \in Ids,
           ReadFails(i) \/ CompleteReadLen(i) \/ CompleteReadData(i) \/ WriteFails(i)
             \/ CompleteWriteLen(i)
    PROVE  \A j \in Ids : Settled(j)
<1>1. /\ \A j \in Ids \ {i} : Same(j)
      /\ \A p \in Busy : In(i, p)' <=> In(i, p)
      /\ op'[i] = op[i] /\ peer'[i] = peer[i]
  BY TransferStep DEF Completion
<1>2. /\ op[i] \in {"readLen", "readData", "writeLen", "writeData"} /\ ~res[i].ready
      /\ op[i] = "writeData" => Completes(i, TRUE, 0)
  BY DEF ReadFails, CompleteReadLen, CompleteReadData, WriteFails, CompleteWriteLen, Outstanding
<1>3. ~Sent(i) /\ ~Sent(i)'
  BY <1>1, <1>2, Completed DEF Base, Sent, Ok
<1>4. CASE tx' = tx
  BY <1>1, <1>3, <1>4, SettledIs, SameSettled
<1>5. CASE CompleteWriteLen(i)
  <2>1. Replies(i)' = Replies(i)
    <3>1. /\ op[i] = "writeLen" /\ ~Ok(i) /\ tx[i] \in Seq(Cells)
          /\ tx' = [tx EXCEPT ![i] = Append(@, [t |-> "len", job |-> 0, n |-> m_dataLen[i]])]
      BY <1>5, Counted DEF CompleteWriteLen, Outstanding, Ok
    <3>2. Len(tx[i]) = 2 * Replies(i) /\ Replies(i) \in Nat
      <4>1. Placed(i) /\ ~HalfSent(i)
        BY <3>1, Living DEF HalfSent
      <4> QED BY <4>1, Counted DEF Placed
    <3>3. Len(tx'[i]) = Len(tx[i]) + 1
      BY <3>1 DEF Base, TypeOK, WireType
    <3>4. Len(tx'[i]) = 2 * Replies(i) + 1
      BY <3>2, <3>3
    <3> QED BY <3>2, <3>4, Halves DEF Replies
  <2>2. /\ In(i, "emplace")' <=> In(i, "emplace")
        /\ In(i, "begin")' <=> In(i, "begin")
        /\ In(i, "work")' <=> In(i, "work")
    BY <1>1, Places
  <2>3. Open(i)' <=> Open(i)
    BY <1>1, <2>2, OpenIs
  <2>4. Settled(i)
    BY <1>1, <1>3, <2>1, <2>2, <2>3 DEF Settled, Dead, Fresh
  <2> QED BY <1>1, <2>4, SameSettled
<1>6. tx' = tx \/ CompleteWriteLen(i)
  BY DEF ReadFails, CompleteReadLen, CompleteReadData, WriteFails, wire
<1> QED BY <1>4, <1>5, <1>6

\* A response goes out: it is not yet counted.
LEMMA SentSteps ==
    ASSUME Base, Chains, NEW i \in Ids, CompleteWriteData(i)
    PROVE  /\ \A j \in Ids \ {i} : Settled(j)
           /\ Replies(i)' = Replies(i) + 1 /\ ~Sent(i) /\ Sent(i)'
           /\ ~Dead(i) /\ ~Dead(i)' /\ ~Fresh(i)'
<1>1. /\ \A j \in Ids \ {i} : Same(j)
      /\ \A p \in Busy : In(i, p)' <=> In(i, p)
      /\ op'[i] = op[i] /\ peer'[i] = peer[i]
  BY TransferStep DEF Completion
<1>2. PICK c : c = [t |-> "body", job |-> m_dataBuf[i].job, n |-> m_dataBuf[i].size]
  OBVIOUS
<1>3. /\ op[i] = "writeData" /\ ~Ok(i) /\ Completes(i, FALSE, m_dataBuf[i].size)
      /\ tx' = [tx EXCEPT ![i] = Append(tx[i], c)] /\ tx[i] \in Seq(Cells)
  BY <1>2, Counted DEF CompleteWriteData, Outstanding, Ok
<1>4. Ok(i)'
  BY <1>3, Completed DEF Base
<1>5. /\ peer[i] # "absent" /\ Open(i) /\ Placed(i) /\ HalfSent(i)
      /\ \A p \in Busy : ~In(i, p)
  BY <1>3, Living DEF HalfSent
<1>6. Replies(i)' = Replies(i) + 1
  <2>1. Len(tx[i]) = 2 * Replies(i) + 1 /\ Replies(i) \in Nat
    BY <1>5, Counted DEF Placed
  <2>2. Len(tx'[i]) = Len(tx[i]) + 1
    BY <1>3 DEF Base, TypeOK, WireType
  <2>3. Len(tx'[i]) = 2 * (Replies(i) + 1) /\ Replies(i) + 1 \in Nat
    BY <2>1, <2>2
  <2> QED BY <2>3, Halves DEF Replies
<1>7. Open(i)' /\ ~Fresh(i)'
  BY <1>1, <1>3, <1>5, Places, OpenIs DEF Fresh
<1> QED BY <1>1, <1>3, <1>4, <1>5, <1>6, <1>7, SameSettled DEF Sent, Dead

\* Its handler.
LEMMA OnDataSentSettled ==
    ASSUME Base, Chains, NEW t \in Threads, NEW i \in Ids, OnDataSent(t, i)
    PROVE  /\ \A j \in Ids \ {i} : Settled(j)
           /\ Replies(i)' = Replies(i) /\ Sent(i) /\ ~Sent(i)'
           /\ ~Dead(i) /\ ~Dead(i)' /\ ~Fresh(i)'
<1>1. /\ op[i] = "writeData" /\ Ok(i) /\ Starts(i, "readLen") /\ UNCHANGED <<at, cur, peer, tx>>
  BY DEF OnDataSent, Dispatch, CheckOperation, InitiateReceiveRequest, Ok, pool, wire
<1>2. op'[i] = "readLen" /\ \A j \in Ids \ {i} : op'[j] = op[j] /\ res'[j] = res[j]
  BY <1>1, Started DEF Base
<1>3. \A j \in Ids : \A p \in Busy : In(j, p)' <=> In(j, p)
  BY <1>1 DEF In
<1>4. \A j \in Ids \ {i} : Settled(j)
  BY <1>1, <1>2, <1>3, SettledIs DEF Sent, Ok
<1>5. peer[i] # "absent" /\ Open(i) /\ \A p \in Busy : ~In(i, p)
  BY <1>1, Living
<1>6. Open(i)' /\ ~Fresh(i)'
  BY <1>1, <1>2, <1>3, <1>5, Places, OpenIs DEF Fresh
<1> QED BY <1>1, <1>2, <1>4, <1>5, <1>6 DEF Replies, Sent, Dead

\* A session ends, at a failed operation.
LEMMA OnFailedSettled ==
    ASSUME Base, Chains, NEW t \in Threads, NEW i \in Ids, OnFailed(t, i)
    PROVE  /\ \A j \in Ids \ {i} : Settled(j)
           /\ Replies(i)' = Replies(i) /\ ~Dead(i) /\ Dead(i)' /\ ~Fresh(i)'
<1>1. /\ op[i] \notin {"none", "accept"} /\ at[t] = "run" /\ Starts(i, "none")
      /\ Goes(t, "erase") /\ cur' = [cur EXCEPT ![t] = i] /\ UNCHANGED <<peer, tx>>
  BY DEF OnFailed, Dispatch, EnterMap, wire
<1>2. /\ \A j \in Ids \ {i} : \A p \in Busy : In(j, p)' <=> In(j, p)
      /\ \A p \in Busy : ~In(i, p) /\ (In(i, p)' <=> p = "erase")
  BY <1>1, Places, HandlerEnters DEF Base
<1>3. op'[i] = "none" /\ \A j \in Ids \ {i} : op'[j] = op[j] /\ res'[j] = res[j]
  BY <1>1, Started DEF Base
<1>4. \A j \in Ids \ {i} : Settled(j)
  BY <1>1, <1>2, <1>3, SettledIs DEF Sent, Ok
<1>5. peer[i] # "absent" /\ Open(i)
  BY <1>1, Living
<1>6. ~Open(i)' /\ ~Fresh(i)'
  BY <1>1, <1>2, <1>3, <1>5, Places, OpenIs DEF Fresh
<1> QED BY <1>1, <1>4, <1>5, <1>6 DEF Replies, Dead

\* A session ends, at an exception before its first read.
LEMMA ThrowSettled ==
    ASSUME Base, Chains, NEW t \in Threads, SetOptionThrows(t), NEW i, i = cur[t]
    PROVE  /\ i \in Ids /\ \A j \in Ids \ {i} : Same(j) /\ Settled(j)
           /\ Fresh(i) /\ Replies(i)' = Replies(i)
           /\ ~Dead(i) /\ Dead(i)' /\ Good
<1>1. /\ i \in Ids /\ at[t] = "begin" /\ Goes(t, "loop") /\ peer[i] = "gone"
      /\ UNCHANGED <<op, res, m_dataLen, m_dataBuf, cur, peer, sent, rx, tx>>
  BY DEF SetOptionThrows, Base, TypeOK, PoolType, session, wire
<1>2. /\ \A j \in Ids \ {i} : \A p \in Busy : In(j, p)' <=> In(j, p)
      /\ \A p \in Busy : (In(i, p) <=> p = "begin") /\ ~In(i, p)'
      /\ op[i] = "none"
  <2>1. "loop" \notin Busy
    BY DEF Busy, InMap
  <2> QED BY <1>1, <2>1, Places, HandlerMoves DEF Base
<1>3. \A j \in Ids \ {i} : Same(j) /\ Settled(j)
  BY <1>1, <1>2, SameSettled DEF Same
<1>4. Fresh(i) /\ Open(i) /\ ~Open(i)' /\ ~Serving(i)'
  BY <1>1, <1>2, Places, OpenIs, ServingIs DEF Fresh
<1>5. Drops(i) /\ Dead(i)'
  BY <1>1, <1>4, AnswersKept DEF Drops, Conn, Current, Dead
<1>6. Met(i)' /\ Sized(i)'
  BY <1>1, <1>2, Places DEF Met, Sized
<1>7. Good
  BY <1>1, <1>3, <1>5, <1>6, DeathStep
<1> QED BY <1>1, <1>3, <1>4, <1>5, <1>7 DEF Replies, Dead

\* It leaves the registry as it is.
LEMMA ThrowKeeps ==
    ASSUME Base, OwnedIsStored, NEW t \in Threads, SetOptionThrows(t)
    PROVE  Base' /\ OwnedIsStored'
<1> USE DEF Base
<1>1. /\ at[t] \in Busy /\ "loop" \notin Busy /\ "loop" # "emplace"
      /\ at' = [at EXCEPT ![t] = "loop"]
      /\ UNCHANGED <<registry, session, cur, shutdown, wire>>
  BY DEF SetOptionThrows, Goes, Busy, InMap
<1>2. TypeOK'
  BY <1>1 DEF TypeOK, RegistryType, SessionType, PoolType, ShutdownType, WireType, registry,
     session, shutdown, wire
<1>3. AcceptChain'
  BY <1>1 DEF AcceptChain, TypeOK, PoolType, registry, session, shutdown, wire
<1>4. OneChainPerSession'
  BY <1>1 DEF OneChainPerSession, TypeOK, PoolType, session
<1>5. OwnedIsStored'
  BY <1>1 DEF OwnedIsStored, Owned, TypeOK, PoolType, registry, session
<1> QED BY <1>2, <1>3, <1>4, <1>5

\* The sessions are finitely many, and so are those that have ended.
LEMMA GoneFinite == IsFiniteSet(Gone) /\ IsFiniteSet(Gone')
<1>1. IsFiniteSet(Ids)
  BY FS_Interval, SizesAssumption DEF Ids
<1> QED BY <1>1, FS_Subset DEF Gone

\* A step that no session's count is concerned with.
LEMMA CountsKept ==
    ASSUME Counts, UNCHANGED counts, \A j \in Ids : Settled(j)
    PROVE  Counts'
<1>1. Gone' = Gone /\ m_requestCount' = m_requestCount /\ m_totalRequests' = m_totalRequests
  BY DEF Settled, Gone, counts
<1>2. ASSUME NEW j \in Ids PROVE Count(j)'
  BY <1>1 DEF Counts, Count, Settled
<1> QED BY <1>1, <1>2 DEF Counts

\* A settled session's count holds on, if it is not itself changed.
LEMMA CountKept ==
    ASSUME Counts, NEW j \in Ids, Settled(j), m_requestCount'[j] = m_requestCount[j]
    PROVE  Count(j)'
BY DEF Counts, Count, Settled

\* A response is out before it is counted.
LEMMA CountsLag ==
    ASSUME Base, Chains, Counts, NEW i \in Ids, CompleteWriteData(i), UNCHANGED counts
    PROVE  Counts'
<1>1. /\ \A j \in Ids \ {i} : Settled(j)
      /\ Replies(i)' = Replies(i) + 1 /\ ~Sent(i) /\ Sent(i)'
      /\ ~Dead(i) /\ ~Dead(i)' /\ ~Fresh(i)'
  BY SentSteps
<1>2. Gone' = Gone /\ m_requestCount' = m_requestCount /\ m_totalRequests' = m_totalRequests
  BY <1>1 DEF Settled, Gone, counts
<1>3. Count(i)'
  <2>1. m_requestCount[i] \in Nat /\ m_requestCount[i] = Replies(i) /\ Replies(i) \in Nat
    BY <1>1, Counted DEF Counts, Count
  <2>2. m_requestCount'[i] = Replies(i)' - 1
    BY <1>1, <1>2, <2>1
  <2> QED BY <1>1, <1>2, <2>1, <2>2 DEF Count
<1>4. \A j \in Ids : Count(j)'
  BY <1>1, <1>2, <1>3, CountKept
<1> QED BY <1>2, <1>4 DEF Counts

\* It is counted by a session that has not ended, so the total is not concerned.
LEMMA CountsCatchUp ==
    ASSUME Base, Chains, Counts, NEW t \in Threads, NEW i \in Ids, BmOnDataSent(t, i)
    PROVE  Counts'
<1>1. /\ \A j \in Ids \ {i} : Settled(j)
      /\ Replies(i)' = Replies(i) /\ Sent(i) /\ ~Sent(i)'
      /\ ~Dead(i) /\ ~Dead(i)' /\ ~Fresh(i)'
  BY OnDataSentSettled DEF BmOnDataSent
<1>2. /\ m_requestCount' = [m_requestCount EXCEPT ![i] = m_requestCount[i] + 1]
      /\ m_totalRequests' = m_totalRequests
  BY DEF BmOnDataSent
<1>3. /\ m_requestCount' \in [Ids -> Nat] /\ m_requestCount'[i] = m_requestCount[i] + 1
      /\ \A j \in Ids \ {i} : m_requestCount'[j] = m_requestCount[j]
  BY <1>2 DEF Counts
<1>4. Gone' = Gone /\ i \notin Gone
  BY <1>1 DEF Settled, Gone
<1>5. SumOver(m_requestCount', Gone) = SumOver(m_requestCount, Gone)
  <2>1. \A j \in Gone : m_requestCount'[j] = m_requestCount[j]
    BY <1>3, <1>4 DEF Gone
  <2> QED BY <2>1, GoneFinite, SumSame
<1>6. Count(i)'
  <2>1. m_requestCount[i] \in Nat /\ m_requestCount[i] = Replies(i) - 1 /\ Replies(i) \in Nat
    BY <1>1, Counted DEF Counts, Count
  <2>2. m_requestCount'[i] = Replies(i)'
    BY <1>1, <1>3, <2>1
  <2> QED BY <1>1, <1>3, <2>1, <2>2 DEF Count
<1>7. \A j \in Ids : Count(j)'
  BY <1>1, <1>3, <1>6, CountKept
<1> QED BY <1>2, <1>3, <1>4, <1>5, <1>7 DEF Counts

\* A session that ends adds its count, once.
LEMMA CountsAdded ==
    ASSUME Base, Counts, NEW i \in Ids, \A j \in Ids \ {i} : Settled(j), ~Dead(i), Dead(i)',
           m_requestCount' = m_requestCount,
           m_totalRequests' = m_totalRequests + m_requestCount[i], Count(i)'
    PROVE  Counts'
<1>1. Gone' = Gone \cup {i} /\ i \notin Gone
  BY DEF Settled, Gone
<1>2. \A j \in Gone \cup {i} : m_requestCount[j] \in Nat
  BY DEF Counts, Gone
<1>3. SumOver(m_requestCount, Gone \cup {i}) = SumOver(m_requestCount, Gone) + m_requestCount[i]
  BY <1>1, <1>2, GoneFinite, SumAdd
<1>4. m_totalRequests' = SumOver(m_requestCount', Gone')
  BY <1>1, <1>3 DEF Counts
<1>5. \A j \in Ids : Count(j)'
  BY CountKept
<1> QED BY <1>4, <1>5 DEF Counts

\* checkOperation adds it before the session is erased; the count may lack the
\* response that was just sent.
LEMMA CountsEnd ==
    ASSUME Base, Chains, Counts, NEW t \in Threads, NEW i \in Ids, BmOnFailed(t, i)
    PROVE  Counts'
<1>1. /\ \A j \in Ids \ {i} : Settled(j)
      /\ Replies(i)' = Replies(i) /\ ~Dead(i) /\ Dead(i)' /\ ~Fresh(i)'
  BY OnFailedSettled DEF BmOnFailed
<1>2. m_requestCount' = m_requestCount /\ m_totalRequests' = m_totalRequests + m_requestCount[i]
  BY DEF BmOnFailed
<1>3. Count(i)'
  BY <1>1, <1>2 DEF Counts, Count
<1> QED BY <1>1, <1>2, <1>3, CountsAdded

\* A session that ends before it has begun adds nothing, and has nothing to add.
LEMMA CountsThrow ==
    ASSUME Base, Chains, Counts, NEW t \in Threads, SetOptionThrows(t)
    PROVE  Counts'
<1>1. PICK i : i = cur[t]
  OBVIOUS
<1>2. /\ i \in Ids /\ \A j \in Ids \ {i} : Settled(j)
      /\ Fresh(i) /\ Replies(i)' = Replies(i) /\ ~Dead(i) /\ Dead(i)'
  BY <1>1, ThrowSettled
<1>3. m_requestCount' = m_requestCount /\ m_totalRequests' = m_totalRequests
  BY DEF SetOptionThrows, counts
<1>4. m_requestCount[i] = 0
  BY <1>2 DEF Counts, Count
<1>5. m_totalRequests \in Nat
  <2>1. \A j \in Gone : m_requestCount[j] \in Nat
    BY DEF Counts, Gone
  <2> QED BY <2>1, GoneFinite, SumType DEF Counts
<1>6. m_totalRequests' = m_totalRequests + m_requestCount[i]
  BY <1>3, <1>4, <1>5
<1>7. Count(i)'
  BY <1>2, <1>3, <1>4 DEF Counts, Count
<1> QED BY <1>2, <1>3, <1>6, <1>7, CountsAdded

\* Every step keeps the counts.
LEMMA CountsStep ==
    ASSUME Base, Chains, Counts, [BmNext]_bmvars
    PROVE  Counts'
<1>1. ASSUME NEW t \in Threads, BmThreadStep(t) PROVE Counts'
  <2>1. ASSUME NEW i \in Ids, \/ OnAcceptError(t, i) \/ OnAccept(t, i) \/ OnLenReceived(t, i)
                              \/ OnDataReceived(t, i) \/ OnLenSent(t, i),
               UNCHANGED counts
        PROVE  Counts'
    <3>1. \A j \in Ids : Settled(j)
      BY <2>1, AcceptsSettled, RequestSettled
    <3> QED BY <2>1, <3>1, CountsKept
  <2>2. ASSUME \/ InitiateAccept(t) \/ InitiateCommunication(t) \/ OnRequest(t)
               \/ OnDisconnect(t) \/ Loop(t) \/ RunReturns(t),
               UNCHANGED counts
        PROVE  Counts'
    <3>1. \A j \in Ids : Settled(j)
      BY <2>2, RegistrySettled, RequestSettled, QuietSettled
    <3> QED BY <2>2, <3>1, CountsKept
  <2> QED BY <1>1, <2>1, <2>2, CountsCatchUp, CountsEnd, CountsThrow DEF BmThreadStep
<1>2. CASE BmMainStep
  <2>1. m_requestCount' = m_requestCount /\ m_totalRequests' = m_totalRequests /\ MainStep
    BY <1>2 DEF BmMainStep, BmJoin, MainStep, counts
  <2>2. \A j \in Ids : Settled(j)
    BY <2>1, QuietSettled
  <2>3. Gone' = Gone /\ \A j \in Ids : Count(j)'
    BY <2>1, <2>2, CountKept DEF Settled, Gone
  <2> QED BY <2>1, <2>3 DEF Counts
<1>3. ASSUME NEW i \in Ids, Completion(i), UNCHANGED counts PROVE Counts'
  <2>1. CASE CompleteWriteData(i)
    BY <1>3, <2>1, CountsLag
  <2>2. CASE ~CompleteWriteData(i)
    <3>1. \A j \in Ids : Settled(j)
      BY <1>3, <2>2, TransferSettled DEF Completion
    <3> QED BY <1>3, <3>1, CountsKept
  <2> QED BY <2>1, <2>2
<1>4. ASSUME NEW i \in Ids, PeerStep(i) \/ AcceptFails(i), UNCHANGED counts PROVE Counts'
  <2>1. \A j \in Ids : Settled(j)
    BY <1>4, AcceptsSettled, QuietSettled DEF PeerStep
  <2> QED BY <1>4, <2>1, CountsKept
<1>5. ASSUME Construct \/ BindFails \/ Eof \/ Terminated \/ UNCHANGED vars, UNCHANGED counts
      PROVE  Counts'
  <2>1. \A j \in Ids : Settled(j)
    BY <1>5, AcceptsSettled, QuietSettled
  <2> QED BY <1>5, <2>1, CountsKept
<1> QED BY <1>1, <1>2, <1>3, <1>4, <1>5 DEF BmNext, bmvars

\* A step of the benchmark's server is one of the server's or the exception.
LEMMA BmSteps ==
    ASSUME [BmNext]_bmvars
    PROVE  [Next]_vars \/ \E t \in Threads : SetOptionThrows(t)
<1>1. ASSUME NEW t \in Threads, BmThreadStep(t), ~SetOptionThrows(t) PROVE ThreadStep(t)
  BY <1>1 DEF BmThreadStep, ThreadStep, Handler, BmOnDataSent, BmOnFailed
<1>2. BmMainStep => MainStep
  BY DEF BmMainStep, BmJoin, MainStep
<1> QED BY <1>1, <1>2 DEF BmNext, Next, bmvars

\* A step is one of the service, and keeps the chains, whichever server's it is.
LEMMA BmGood ==
    ASSUME Base, Chains, [BmNext]_bmvars
    PROVE  Good
BY BmSteps, ChainsStep, ThrowSettled

\* In the first state nothing has been counted.
LEMMA BmInitInv == BmInit => BmInv /\ Service!SInit
<1> SUFFICES ASSUME BmInit PROVE BmInv /\ Service!SInit
  OBVIOUS
<1>1. Base /\ OwnedIsStored /\ Chains /\ Service!SInit
  BY InitInvariant, ChainsInit DEF BmInit, IInv
<1>2. ASSUME NEW i \in Ids PROVE peer[i] = "absent" /\ op[i] = "none" /\ Len(tx[i]) = 2 * 0
  BY DEF BmInit, Init
<1>3. \A i \in Ids : Replies(i) = 0 /\ ~Sent(i) /\ ~Dead(i)
  BY <1>2, Halves DEF Replies, Sent, Dead
<1>4. Gone = {} /\ \A i \in Ids : m_requestCount[i] = 0 /\ Count(i)
  BY <1>3 DEF BmInit, Gone, Count
<1>5. m_requestCount \in [Ids -> Nat] /\ m_totalRequests = 0
  BY DEF BmInit
<1>6. Counts
  BY <1>4, <1>5, SumEmpty DEF Counts
<1> QED BY <1>1, <1>6 DEF BmInv

\* Every step keeps the benchmark's invariant.
LEMMA BmStepInv == BmInv /\ [BmNext]_bmvars => BmInv'
<1> SUFFICES ASSUME BmInv, [BmNext]_bmvars PROVE BmInv'
  OBVIOUS
<1>1. Base' /\ OwnedIsStored'
  <2>1. CASE Next
    BY <2>1, TypeStep, AcceptChainStep, OneChainStep, StoredStep DEF BmInv, Base
  <2>2. CASE UNCHANGED vars
    BY <2>2 DEF BmInv, Base, vars, registry, session, pool, shutdown, wire, TypeOK, RegistryType,
       SessionType, PoolType, ShutdownType, WireType, AcceptChain, OneChainPerSession,
       OwnedIsStored, Owned
  <2>3. ASSUME NEW t \in Threads, SetOptionThrows(t) PROVE Base' /\ OwnedIsStored'
    BY <2>3, ThrowKeeps DEF BmInv
  <2> QED BY <2>1, <2>2, <2>3, BmSteps
<1>2. Chains'
  BY BmGood DEF BmInv, Good
<1>3. Counts'
  BY CountsStep DEF BmInv
<1> QED BY <1>1, <1>2, <1>3 DEF BmInv

\* It holds in every reachable state.
LEMMA BmInvariance == BmSpec => []BmInv
BY BmInitInv, BmStepInv, PTL DEF BmSpec

\* The total, which main() prints, is what the sessions that have ended have
\* counted, each once, and no count is off by more than the response in flight.
THEOREM TotalTheorem == BmSpec => []TotalIsExact
<1>1. BmInv => TotalIsExact
  <2> SUFFICES ASSUME BmInv PROVE TotalIsExact
    OBVIOUS
  <2>1. Ended = Gone
    BY GivenOut DEF Ended, Gone, Dead, BmInv, Base
  <2>2. \A i \in Ids : m_requestCount[i] \in {Answered[i] - 1, Answered[i]}
    BY DEF BmInv, Counts, Count, Answered, Replies
  <2> QED BY <2>1, <2>2 DEF TotalIsExact, BmInv, Counts
<1> QED BY <1>1, BmInvariance, PTL

\* The counting, and the exception out of the accept handler, leave the server's
\* own invariants as they are, but for StoredIsOwned.
THEOREM BmRegistryTheorem ==
    BmSpec => [](TypeOK /\ AcceptChain /\ OneChainPerSession /\ OwnedIsStored)
<1>1. BmInv => TypeOK /\ AcceptChain /\ OneChainPerSession /\ OwnedIsStored
  BY DEF BmInv, Base
<1> QED BY <1>1, BmInvariance, PTL

\* The benchmark's server implements RequestService too: the exception is a drop.
THEOREM BmServiceTheorem == BmSpec => ServesRequests
<1>1. BmInv /\ [BmNext]_bmvars => [Service!SNext]_Service!svars
  BY BmGood DEF BmInv, Good, ServiceStep
<1> QED BY <1>1, BmInitInv, BmInvariance, PTL DEF BmSpec, ServesRequests, Service!SSpec

=============================================================================

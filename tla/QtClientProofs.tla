--------------------------- MODULE QtClientProofs ---------------------------
(***************************************************************************)
(* Proofs about QtClient, for any number of requests and however the data  *)
(* are cut into chunks: as long as no request of a connection is sent      *)
(* while another is outstanding, the framing holds and a response belongs  *)
(* to the last request.  An exchange has then one frame to receive, of     *)
(* which m_dataLen cells are taken, and nothing else is buffered or on the *)
(* way; and a connection that ends leaves nothing for the next one.        *)
(***************************************************************************)
EXTENDS QtClient, SequenceTheorems, TLAPS

Cells == [t : {"len", "body"}, job : Nat]

StateType ==
    /\ auto \in BOOLEAN /\ at \in {"start", "loop", "done"} /\ id \in Nat
    /\ socket \in {"unconnected", "connected"} /\ timer \in BOOLEAN
    /\ buf \in Seq(Cells) /\ net \in Seq(Cells) /\ out \in Seq(Nat)
    /\ m_dataLen \in Lengths /\ answered \in Int
    /\ peer \in {"absent", "connected", "gone", "silent"}
    /\ pending \in Int /\ overlapped \in BOOLEAN

\* A connection that has ended, or was never made, has left nothing.
Idle ==
    /\ socket = "unconnected" =>
         peer = "absent" /\ out = <<>> /\ net = <<>> /\ buf = <<>> /\ pending = 0
    /\ at = "start" => socket = "unconnected" /\ m_dataLen = 0 /\ id = 0

\* What follows p cells of the response to the request j, or a part of it.
Reads(s, p, j) == p + Len(s) <= 2 /\ \A k \in 1 .. Len(s) : s[k] = Frame(j)[p + k]

\* One request is with the server, or some of its response is ahead.
Exchange ==
    socket = "connected" /\ ~overlapped =>
        /\ pending \in {0, 1} /\ m_dataLen \in {0, 1}
        /\ Reads(buf, m_dataLen, id) /\ Reads(net, m_dataLen + Len(buf), id)
        /\ pending = 0 => m_dataLen = 0 /\ buf = <<>> /\ net = <<>> /\ out = <<>>
        /\ out = <<>> \/ (out = <<id>> /\ m_dataLen = 0 /\ buf = <<>> /\ net = <<>>)

IInv == StateType /\ Idle /\ Exchange

(***************************************************************************)
(* Sequences of cells.                                                     *)
(***************************************************************************)
\* A frame: its length, then its body.
LEMMA FrameCells ==
    ASSUME NEW j \in Nat
    PROVE  /\ Frame(j) \in Seq(Cells) /\ Len(Frame(j)) = 2
           /\ Frame(j)[1].t = "len" /\ Frame(j)[2].t = "body" /\ Frame(j)[2].job = j
<1>1. [t |-> "len", job |-> j] \in Cells /\ [t |-> "body", job |-> j] \in Cells
  BY DEF Cells
<1>2. PICK a \in Cells : a = [t |-> "len", job |-> j]
  BY <1>1
<1>3. PICK b \in Cells : b = [t |-> "body", job |-> j]
  BY <1>1
<1>4. a.t = "len" /\ b.t = "body" /\ b.job = j
  BY <1>2, <1>3
<1>5. Frame(j) = <<a, b>>
  BY <1>2, <1>3 DEF Frame
<1> QED BY <1>4, <1>5

\* The next cell, and those behind it.
LEMMA ReadsTail ==
    ASSUME NEW s \in Seq(Cells), NEW p \in Nat, NEW j, Reads(s, p, j), s # <<>>
    PROVE  /\ Head(s) = Frame(j)[p + 1] /\ Reads(Tail(s), p + 1, j) /\ p + 1 <= 2
           /\ Head(s) \in Cells /\ Tail(s) \in Seq(Cells) /\ Len(Tail(s)) = Len(s) - 1
           /\ Len(s) \in Nat \ {0}
<1>1. /\ Len(s) \in Nat \ {0} /\ Len(Tail(s)) = Len(s) - 1 /\ Head(s) = s[1]
      /\ Head(s) \in Cells /\ Tail(s) \in Seq(Cells)
      /\ \A k \in 1 .. Len(Tail(s)) : Tail(s)[k] = s[k + 1]
  BY HeadTailProperties, EmptySeq
<1>2. ASSUME NEW k \in 1 .. Len(Tail(s)) PROVE Tail(s)[k] = Frame(j)[p + 1 + k]
  <2>1. k + 1 \in 1 .. Len(s) /\ p + (k + 1) = p + 1 + k
    BY <1>1
  <2> QED BY <1>1, <2>1 DEF Reads
<1>3. 1 \in 1 .. Len(s) /\ p + Len(s) <= 2
  BY <1>1 DEF Reads
<1> QED BY <1>1, <1>2, <1>3 DEF Reads

\* Consecutive parts make one.
LEMMA ReadsConcat ==
    ASSUME NEW s \in Seq(Cells), NEW r \in Seq(Cells), NEW p \in Nat, NEW j,
           Reads(s, p, j), Reads(r, p + Len(s), j)
    PROVE  Reads(s \o r, p, j)
<1>1. /\ Len(s) \in Nat /\ Len(r) \in Nat /\ Len(s \o r) = Len(s) + Len(r)
      /\ \A k \in 1 .. Len(s) + Len(r) :
           (s \o r)[k] = IF k <= Len(s) THEN s[k] ELSE r[k - Len(s)]
  BY ConcatProperties, LenProperties
<1>2. ASSUME NEW k \in 1 .. Len(s \o r) PROVE (s \o r)[k] = Frame(j)[p + k]
  <2>1. CASE k <= Len(s)
    <3>1. k \in 1 .. Len(s)
      BY <1>1, <2>1
    <3> QED BY <1>1, <2>1, <3>1 DEF Reads
  <2>2. CASE k > Len(s)
    <3>1. k - Len(s) \in 1 .. Len(r) /\ p + Len(s) + (k - Len(s)) = p + k
      BY <1>1, <2>2
    <3> QED BY <1>1, <2>2, <3>1 DEF Reads
  <2> QED BY <1>1, <2>1, <2>2
<1>3. p + Len(s \o r) <= 2
  BY <1>1 DEF Reads
<1> QED BY <1>2, <1>3 DEF Reads

\* A part is cut in two.
LEMMA ReadsCut ==
    ASSUME NEW s \in Seq(Cells), NEW k \in 0 .. Len(s)
    PROVE  /\ Arrived(s, k) \in Seq(Cells) /\ Len(Arrived(s, k)) = k
           /\ Left(s, k) \in Seq(Cells) /\ Len(Left(s, k)) = Len(s) - k
           /\ \A p \in Nat : \A j : Reads(s, p, j) =>
                Reads(Arrived(s, k), p, j) /\ Reads(Left(s, k), p + k, j)
<1>1. Len(s) \in Nat /\ k \in Nat /\ k <= Len(s)
  BY LenProperties
<1>2. \A i \in 1 .. Len(s) : s[i] \in Cells
  BY ElementOfSeq
<1>3. /\ SubSeq(s, 1, k) \in Seq(Cells)
      /\ Len(SubSeq(s, 1, k)) = k
      /\ \A i \in 1 .. k : SubSeq(s, 1, k)[i] = s[i]
  <2>1. \A i \in 1 .. k : s[i] \in Cells
    BY <1>1, <1>2
  <2>2. /\ SubSeq(s, 1, k) \in Seq(Cells)
        /\ Len(SubSeq(s, 1, k)) = IF 1 <= k THEN k - 1 + 1 ELSE 0
        /\ \A i \in 1 .. k - 1 + 1 : SubSeq(s, 1, k)[i] = s[1 + i - 1]
    BY <1>1, <2>1, SubSeqProperties
  <2> QED BY <1>1, <2>2
<1>4. /\ SubSeq(s, k + 1, Len(s)) \in Seq(Cells)
      /\ Len(SubSeq(s, k + 1, Len(s))) = Len(s) - k
      /\ \A i \in 1 .. Len(s) - k : SubSeq(s, k + 1, Len(s))[i] = s[k + i]
  <2>1. \A i \in k + 1 .. Len(s) : s[i] \in Cells
    BY <1>1, <1>2
  <2>2. /\ SubSeq(s, k + 1, Len(s)) \in Seq(Cells)
        /\ Len(SubSeq(s, k + 1, Len(s))) = IF k + 1 <= Len(s) THEN Len(s) - (k + 1) + 1 ELSE 0
        /\ \A i \in 1 .. Len(s) - (k + 1) + 1 : SubSeq(s, k + 1, Len(s))[i] = s[k + 1 + i - 1]
    BY <1>1, <2>1, SubSeqProperties
  <2>3. \A i \in 1 .. Len(s) - k : i \in 1 .. Len(s) - (k + 1) + 1 /\ k + 1 + i - 1 = k + i
    BY <1>1
  <2> QED BY <1>1, <2>2, <2>3
<1>5. ASSUME NEW p \in Nat, NEW j, Reads(s, p, j)
      PROVE  Reads(Arrived(s, k), p, j) /\ Reads(Left(s, k), p + k, j)
  <2>0. p + k + (Len(s) - k) <= 2 /\ p + k <= 2
    BY <1>1, <1>5 DEF Reads
  <2>1. Reads(SubSeq(s, 1, k), p, j)
    <3>1. \A i \in 1 .. k : i \in 1 .. Len(s)
      BY <1>1
    <3> QED BY <1>3, <1>5, <2>0, <3>1 DEF Reads
  <2>2. ASSUME NEW i \in 1 .. Len(s) - k
        PROVE  SubSeq(s, k + 1, Len(s))[i] = Frame(j)[p + k + i]
    <3>1. k + i \in 1 .. Len(s) /\ p + (k + i) = p + k + i
      BY <1>1
    <3> QED BY <1>4, <1>5, <3>1 DEF Reads
  <2>3. Reads(SubSeq(s, k + 1, Len(s)), p + k, j)
    BY <1>4, <2>0, <2>2 DEF Reads
  <2> QED BY <2>1, <2>3 DEF Arrived, Left
<1> QED BY <1>3, <1>4, <1>5 DEF Arrived, Left

\* Nothing is a part of any frame.
LEMMA ReadsNothing ==
    ASSUME NEW p \in 0 .. 2, NEW j
    PROVE  Reads(<<>>, p, j) /\ <<>> \in Seq(Cells) /\ Len(<<>>) = 0
BY EmptySeq DEF Reads

\* However the data are cut, the next cell is taken for what it is.
LEMMA HeaderIsWhole ==
    ASSUME NEW len \in {0, 1}, NEW j \in Nat, NEW b \in Seq(Cells), NEW s \in Seq(Cells),
           NEW k \in 1 .. Len(s), Reads(b, len, j), Reads(s, len + Len(b), j),
           NEW h, h = AfterHeader(len, b \o Arrived(s, k))
    PROVE  /\ h.len = 1 /\ h.rest \in Seq(Cells) /\ Reads(h.rest, 1, j)
           /\ Reads(Left(s, k), 1 + Len(h.rest), j)
<1>1. Len(b) \in Nat /\ Len(s) \in Nat /\ k \in Nat /\ k >= 1 /\ k \in 0 .. Len(s)
  BY LenProperties
<1>2. PICK data : data = b \o Arrived(s, k)
  OBVIOUS
<1>3. /\ Arrived(s, k) \in Seq(Cells) /\ Len(Arrived(s, k)) = k
      /\ Reads(Arrived(s, k), len + Len(b), j) /\ Reads(Left(s, k), len + Len(b) + k, j)
  <2>1. len + Len(b) \in Nat
    BY <1>1
  <2> QED BY <1>1, <2>1, ReadsCut
<1>4. data \in Seq(Cells) /\ Len(data) = Len(b) + k
  <2>1. data \in Seq(Cells) /\ Len(data) = Len(b) + Len(Arrived(s, k))
    BY <1>2, <1>3, ConcatProperties
  <2> QED BY <1>3, <2>1
<1>5. Reads(data, len, j)
  BY <1>2, <1>3, ReadsConcat
<1>6. data # <<>>
  <2>1. Len(data) # 0
    BY <1>1, <1>4
  <2> QED BY <2>1, EmptySeq
<1>7. CASE len = 0
  <2>1. /\ Head(data) = Frame(j)[1] /\ Reads(Tail(data), 1, j)
        /\ Tail(data) \in Seq(Cells) /\ Len(Tail(data)) = Len(data) - 1
    <3>1. Reads(data, 0, j) /\ 0 + 1 = 1
      BY <1>5, <1>7
    <3> QED BY <1>4, <1>6, <3>1, ReadsTail
  <2>2. h = [len |-> LengthIn(Head(data)), rest |-> Tail(data)]
    BY <1>2, <1>6, <1>7 DEF AfterHeader
  <2>3. LengthIn(Head(data)) = 1
    BY <2>1, FrameCells DEF LengthIn
  <2>4. h.len = 1 /\ h.rest = Tail(data)
    BY <2>2, <2>3
  <2>5. 1 + Len(Tail(data)) = len + Len(b) + k
    BY <1>1, <1>4, <1>7, <2>1
  <2> QED BY <1>3, <2>1, <2>4, <2>5
<1>8. CASE len = 1
  <2>1. h = [len |-> 1, rest |-> data]
    BY <1>2, <1>8 DEF AfterHeader
  <2>2. h.len = 1 /\ h.rest = data
    BY <2>1
  <2>3. 1 + Len(data) = len + Len(b) + k
    BY <1>1, <1>4, <1>8
  <2> QED BY <1>3, <1>4, <1>5, <1>8, <2>2, <2>3
<1> QED BY <1>7, <1>8

(***************************************************************************)
(* The steps.                                                              *)
(***************************************************************************)
\* The program starts without a connection.
LEMMA InitIInv == Init => IInv
<1> SUFFICES ASSUME Init PROVE IInv
  OBVIOUS
<1>1. <<>> \in Seq(Cells) /\ <<>> \in Seq(Nat)
  BY EmptySeq
<1>2. overlapped \in BOOLEAN /\ auto \in BOOLEAN /\ timer \in BOOLEAN
  BY DEF Init
<1>3. pending \in Int /\ answered \in Int /\ id \in Nat
  BY DEF Init
<1>4. StateType
  BY <1>1, <1>2, <1>3 DEF Init, StateType, Lengths
<1> QED BY <1>4 DEF Init, IInv, Idle, Exchange

\* main(), with input or without: a request on a new connection is the only
\* one, and one that is sent on a connection is so, or overlaps another.
LEMMA UserStep ==
    ASSUME IInv, Start \/ ReadLoad \/ ReadLoadReconnects \/ Eof
    PROVE  IInv'
<1>1. StateType /\ Idle /\ Exchange
  BY DEF IInv
<1>2. 0 \in 0 .. 2 /\ Len(<<>>) = 0 /\ \A j : Reads(<<>>, 0, j)
  BY ReadsNothing
<1>3. CASE Start \/ ReadLoadReconnects
  <2>1. /\ socket = "unconnected" /\ buf = <<>> /\ net = <<>> /\ out = <<>> /\ pending = 0
        /\ peer = "absent" /\ at \in {"start", "loop"} /\ at' = "loop" /\ UNCHANGED <<auto, buf, net, answered>>
    BY <1>1, <1>3 DEF Start, ReadLoadReconnects, Idle
  <2>2. id' \in Nat
    BY <1>1, <1>3 DEF Start, ReadLoadReconnects, StateType
  <2>3. /\ \/ socket' = "connected" /\ peer' = "connected" /\ overlapped' = FALSE
           \/ socket' = "unconnected" /\ peer' = "absent" /\ overlapped' = overlapped
    BY <1>3, <2>1 DEF Start, ReadLoadReconnects, ConnectToHost
  <2>4. /\ timer' \in BOOLEAN /\ m_dataLen' \in {0, 1}
        /\ socket' = "connected" => m_dataLen' = 0
        /\ \/ out' = <<>> /\ pending' = 0
           \/ socket' = "connected" /\ out' = <<id'>> /\ pending' = 1
    <3>1. CASE UNCHANGED <<timer, m_dataLen, out, pending>> /\ Start
      BY <1>1, <2>1, <3>1 DEF Start, Idle, StateType
    <3>2. CASE SendRequest(id', socket', <<>>, 0)
      <4>1. Append(<<>>, id') = <<id'>>
        OBVIOUS
      <4> QED BY <3>2, <4>1 DEF SendRequest
    <3> QED BY <1>1, <1>3, <3>1, <3>2 DEF Start, ReadLoadReconnects, Idle
  <2>5. out' \in Seq(Nat)
    <3>1. <<>> \in Seq(Nat) /\ <<id'>> \in Seq(Nat)
      BY <2>2, EmptySeq
    <3> QED BY <2>4, <3>1
  <2>6. StateType'
    <3>1. overlapped' \in BOOLEAN
      BY <1>1, <2>3 DEF StateType
    <3>2. pending' \in Int
      BY <2>4
    <3> QED BY <1>1, <2>1, <2>2, <2>3, <2>4, <2>5, <3>1, <3>2 DEF StateType, Lengths
  <2>7. Idle'
    BY <2>1, <2>3, <2>4 DEF Idle
  <2>8. Exchange'
    BY <1>2, <2>1, <2>3, <2>4 DEF Exchange
  <2> QED BY <2>6, <2>7, <2>8 DEF IInv
<1>4. CASE ReadLoad
  <2>1. /\ at = "loop" /\ socket = "connected" /\ id' = id + 1
        /\ overlapped' = (overlapped \/ pending > 0)
        /\ timer' = TRUE /\ m_dataLen' = 0 /\ out' = Append(out, id + 1) /\ pending' = pending + 1
        /\ UNCHANGED <<auto, at, socket, buf, answered, peer, net>>
    BY <1>4 DEF ReadLoad, SendRequest
  <2>2. id + 1 \in Nat /\ pending' \in Int
    BY <1>1, <2>1 DEF StateType
  <2>3. out' \in Seq(Nat)
    BY <1>1, <2>1, <2>2, AppendProperties DEF StateType
  <2>4. StateType'
    BY <1>1, <2>1, <2>2, <2>3 DEF StateType, Lengths
  <2>5. Idle'
    BY <2>1 DEF Idle
  <2>6. Exchange'
    <3> SUFFICES ASSUME ~overlapped' PROVE Exchange'
      BY DEF Exchange
    <3>1. ~overlapped /\ ~(pending > 0)
      BY <1>1, <2>1 DEF StateType
    <3>2. pending = 0 /\ buf = <<>> /\ net = <<>> /\ out = <<>>
      BY <1>1, <2>1, <3>1 DEF Exchange
    <3>3. Append(<<>>, id + 1) = <<id + 1>>
      OBVIOUS
    <3>4. out' = <<id'>> /\ pending' = 1
      BY <2>1, <3>2, <3>3
    <3> QED BY <1>2, <2>1, <3>2, <3>4 DEF Exchange
  <2> QED BY <2>4, <2>5, <2>6 DEF IInv
<1>5. CASE Eof
  <2>1. at' = "done" /\ UNCHANGED <<auto, id, socket, timer, buf, m_dataLen, answered, peer, out,
                                    net, pending, overlapped>>
    BY <1>5 DEF Eof, link
  <2> QED BY <1>1, <2>1 DEF IInv, StateType, Idle, Exchange
<1> QED BY <1>3, <1>4, <1>5

\* What the data that arrive may be, whatever has gone before.
LEMMA HeaderType ==
    ASSUME NEW len \in Lengths, NEW b \in Seq(Cells), NEW s \in Seq(Cells), NEW k \in 1 .. Len(s),
           NEW h, h = AfterHeader(len, b \o Arrived(s, k))
    PROVE  h.len \in Lengths /\ h.rest \in Seq(Cells)
<1>1. k \in 0 .. Len(s)
  BY LenProperties
<1>2. PICK data \in Seq(Cells) : data = b \o Arrived(s, k)
  <2>1. Arrived(s, k) \in Seq(Cells)
    BY <1>1, ReadsCut
  <2> QED BY <2>1, ConcatProperties
<1>3. CASE len = 0 /\ data # <<>>
  <2>1. h = [len |-> LengthIn(Head(data)), rest |-> Tail(data)]
    BY <1>2, <1>3 DEF AfterHeader
  <2>2. h.len = LengthIn(Head(data)) /\ h.rest = Tail(data)
    BY <2>1
  <2>3. Tail(data) \in Seq(Cells)
    BY <1>3, HeadTailProperties
  <2> QED BY <2>2, <2>3 DEF LengthIn, Lengths
<1>4. CASE ~(len = 0 /\ data # <<>>)
  <2>1. h = [len |-> len, rest |-> data]
    BY <1>2, <1>4 DEF AfterHeader
  <2> QED BY <2>1
<1> QED BY <1>3, <1>4

\* The data of one readyRead: the response of the exchange, and nothing behind
\* it, or the first of its two cells.
LEMMA ReceiveStep ==
    ASSUME IInv, ReceiveResponse
    PROVE  IInv' /\ (answered' # answered => overlapped \/ answered' = id)
<1>1. StateType /\ Idle /\ Exchange
  BY DEF IInv
<1>2. PICK k \in 1 .. Len(net) : \E g :
        /\ g = AfterHeader(m_dataLen, buf \o Arrived(net, k)) /\ net' = Left(net, k)
        /\ Receive(g) \/ Waits(g)
  BY DEF ReceiveResponse
<1>3. PICK h : /\ h = AfterHeader(m_dataLen, buf \o Arrived(net, k)) /\ net' = Left(net, k)
               /\ Receive(h) \/ Waits(h)
  BY <1>2
<1>4. /\ buf \in Seq(Cells) /\ net \in Seq(Cells) /\ out \in Seq(Nat) /\ m_dataLen \in Lengths
      /\ id \in Nat /\ id + 1 \in Nat /\ pending \in Int /\ overlapped \in BOOLEAN
      /\ auto \in BOOLEAN /\ timer \in BOOLEAN /\ answered \in Int
  BY <1>1 DEF StateType
<1>5. h.len \in Lengths /\ h.rest \in Seq(Cells)
  BY <1>3, <1>4, HeaderType
<1>6. at = "loop" /\ socket = "connected" /\ UNCHANGED <<auto, at, socket, peer>>
  BY DEF ReceiveResponse
<1>7. k \in 0 .. Len(net) /\ k >= 1
  BY <1>4, LenProperties
<1>8. Left(net, k) \in Seq(Cells)
  BY <1>4, <1>7, ReadsCut
<1>9. Idle'
  BY <1>6 DEF Idle
<1>10. Receive(h) =>
         /\ h.rest # <<>> /\ buf' = Tail(h.rest) /\ answered' = Head(h.rest).job /\ m_dataLen' = 0
         /\ timer' \in BOOLEAN
         /\ \/ id' = id /\ out' = out /\ pending' = pending - 1 /\ overlapped' = overlapped
            \/ /\ id' = id + 1 /\ out' = Append(out, id + 1) /\ pending' = (pending - 1) + 1
               /\ overlapped' = (overlapped \/ pending > 1)
  BY <1>6 DEF Receive, HasFrame, Prints, SendsNext, SendRequest
<1>11. StateType'
  <2>1. CASE Receive(h)
    <3>1. Head(h.rest) \in Cells /\ Tail(h.rest) \in Seq(Cells)
      BY <1>5, <1>10, <2>1, HeadTailProperties
    <3>2. answered' \in Int /\ buf' \in Seq(Cells)
      <4>1. Head(h.rest).job \in Nat
        BY <3>1 DEF Cells
      <4>2. answered' \in Int
        BY <1>10, <2>1, <4>1
      <4> QED BY <1>10, <2>1, <3>1, <4>2
    <3>3. id' \in Nat /\ out' \in Seq(Nat) /\ pending' \in Int /\ overlapped' \in BOOLEAN
      <4>1. Append(out, id + 1) \in Seq(Nat)
        BY <1>4, AppendProperties
      <4>2. id' \in Nat /\ out' \in Seq(Nat)
        BY <1>4, <1>10, <2>1, <4>1
      <4>3. pending' \in Int
        BY <1>4, <1>10, <2>1
      <4>4. overlapped' \in BOOLEAN
        BY <1>4, <1>10, <2>1
      <4> QED BY <4>2, <4>3, <4>4
    <3> QED BY <1>1, <1>3, <1>6, <1>8, <1>10, <2>1, <3>2, <3>3 DEF StateType, Lengths
  <2>2. CASE Waits(h)
    BY <1>1, <1>3, <1>5, <1>6, <1>8, <2>2 DEF StateType, Waits
  <2> QED BY <1>3, <2>1, <2>2
<1>12. CASE overlapped
  <2>1. overlapped'
    BY <1>3, <1>10, <1>12 DEF Waits
  <2> QED BY <1>9, <1>11, <1>12, <2>1 DEF IInv, Exchange
<1>13. CASE ~overlapped
  <2>1. net # <<>>
    BY <1>4, <1>7, EmptySeq
  <2>2. /\ m_dataLen \in {0, 1} /\ pending = 1 /\ out = <<>>
        /\ Reads(buf, m_dataLen, id) /\ Reads(net, m_dataLen + Len(buf), id)
    BY <1>1, <1>6, <1>13, <2>1 DEF Exchange
  <2>3. h.len = 1 /\ Reads(h.rest, 1, id) /\ Reads(Left(net, k), 1 + Len(h.rest), id)
    <3>1. m_dataLen \in {0, 1} /\ id \in Nat /\ buf \in Seq(Cells) /\ net \in Seq(Cells)
      BY <1>4, <2>2
    <3>2. Reads(buf, m_dataLen, id) /\ Reads(net, m_dataLen + Len(buf), id)
      BY <2>2
    <3>3. h = AfterHeader(m_dataLen, buf \o Arrived(net, k))
      BY <1>3
    <3> QED BY <3>1, <3>2, <3>3, HeaderIsWhole
  <2>4. CASE Waits(h)
    <3>1. h.rest = <<>>
      BY <2>3, <2>4 DEF Waits, HasFrame
    <3>2. /\ buf' = h.rest /\ m_dataLen' = 1 /\ UNCHANGED <<id, answered, out, pending, overlapped>>
      BY <2>3, <2>4 DEF Waits
    <3>3. Exchange'
      BY <1>3, <2>2, <2>3, <3>1, <3>2 DEF Exchange
    <3> QED BY <1>9, <1>11, <3>2, <3>3 DEF IInv
  <2>5. CASE Receive(h)
    <3>1. /\ Head(h.rest) = Frame(id)[2] /\ Len(Tail(h.rest)) = Len(h.rest) - 1
          /\ Tail(h.rest) \in Seq(Cells) /\ Len(h.rest) \in Nat \ {0} /\ 1 + Len(h.rest) <= 2
      <4>1. Reads(h.rest, 1, id) /\ 1 \in Nat /\ 1 + 1 = 2 /\ h.rest # <<>>
        BY <1>10, <2>3, <2>5
      <4>2. 1 + Len(h.rest) <= 2
        BY <4>1 DEF Reads
      <4> QED BY <1>5, <4>1, <4>2, ReadsTail
    <3>2. answered' = id
      <4>1. Frame(id)[2].job = id
        BY <1>4, FrameCells
      <4>2. answered' = Head(h.rest).job
        BY <1>10, <2>5
      <4> QED BY <3>1, <4>1, <4>2
    <3>3. Len(h.rest) = 1
      <4>1. \A n \in Nat \ {0} : 1 + n <= 2 => n = 1
        OBVIOUS
      <4> QED BY <3>1, <4>1
    <3>4. Tail(h.rest) = <<>>
      <4>1. Len(Tail(h.rest)) = 0
        BY <3>1, <3>3
      <4> QED BY <3>1, <4>1, EmptySeq
    <3>5. Left(net, k) = <<>>
      <4>1. 2 + Len(Left(net, k)) <= 2 /\ Len(Left(net, k)) \in Nat
        <5>1. 1 + Len(h.rest) = 2
          BY <3>3
        <5>2. Len(Left(net, k)) \in Nat
          BY <1>8, LenProperties
        <5> QED BY <2>3, <5>1, <5>2 DEF Reads
      <4>2. Len(Left(net, k)) = 0
        BY <4>1
      <4> QED BY <1>8, <4>2, EmptySeq
    <3>6. buf' = <<>> /\ net' = <<>> /\ m_dataLen' = 0
      BY <1>3, <1>10, <2>5, <3>4, <3>5
    <3>7. (out' = <<>> /\ pending' = 0) \/ (out' = <<id'>> /\ pending' = 1)
      <4>1. Append(<<>>, id + 1) = <<id + 1>>
        OBVIOUS
      <4> QED BY <1>10, <2>2, <2>5, <4>1
    <3>8. Exchange'
      <4>1. Len(<<>>) = 0 /\ \A j : Reads(<<>>, 0, j)
        BY ReadsNothing
      <4> QED BY <3>6, <3>7, <4>1 DEF Exchange
    <3> QED BY <1>9, <1>11, <3>2, <3>8 DEF IInv
  <2> QED BY <1>3, <2>4, <2>5
<1> QED BY <1>4, <1>12, <1>13

\* A connection ends, by a timeout or by the server.
LEMMA ClosedStep ==
    ASSUME IInv, OnTimeout \/ Disconnected
    PROVE  IInv'
<1>1. StateType /\ Idle /\ Exchange
  BY DEF IInv
<1>2. CASE Closed /\ at = "loop"
  <2>1. /\ socket' = "unconnected" /\ timer' = FALSE /\ peer' = "absent" /\ out' = <<>>
        /\ net' = <<>> /\ buf' = <<>> /\ pending' = 0 /\ at' = "loop"
        /\ UNCHANGED <<auto, id, m_dataLen, answered, overlapped>>
    BY <1>2 DEF Closed, user
  <2>2. <<>> \in Seq(Cells) /\ <<>> \in Seq(Nat)
    BY EmptySeq
  <2>3. StateType'
    <3>1. overlapped' \in BOOLEAN
      BY <1>1, <2>1 DEF StateType
    <3>2. pending' \in Int
      BY <2>1
    <3> QED BY <1>1, <2>1, <2>2, <3>1, <3>2 DEF StateType
  <2> QED BY <2>1, <2>3 DEF IInv, Idle, Exchange
<1>3. CASE timer' = FALSE /\ UNCHANGED <<user, socket, buf, m_dataLen, answered, link, pending, overlapped>>
  BY <1>1, <1>3 DEF IInv, StateType, Idle, Exchange, user, link
<1> QED BY <1>2, <1>3 DEF OnTimeout, Disconnected

\* The server answers the one request it has, or what was under way is cut off.
LEMMA ServerStep ==
    ASSUME IInv, ServerAnswers \/ ServerLeaves
    PROVE  IInv'
<1>1. StateType /\ Idle /\ Exchange
  BY DEF IInv
<1>2. /\ buf \in Seq(Cells) /\ net \in Seq(Cells) /\ out \in Seq(Nat) /\ id \in Nat
      /\ Len(buf) \in Nat /\ Len(net) \in Nat /\ peer = "connected"
  BY <1>1, LenProperties DEF StateType, ServerAnswers, ServerLeaves
<1>3. socket = "connected" /\ UNCHANGED <<auto, at, id, socket, timer, buf, m_dataLen, answered,
                                          pending, overlapped>>
  BY <1>1, <1>2 DEF Idle, StateType, ServerAnswers, ServerLeaves, user
<1>4. Idle'
  BY <1>1, <1>3 DEF Idle
<1>5. CASE ServerAnswers
  <2>1. out # <<>> /\ net' = net \o Frame(Head(out)) /\ out' = Tail(out) /\ peer' = peer
    BY <1>5 DEF ServerAnswers
  <2>2. Head(out) \in Nat /\ Tail(out) \in Seq(Nat)
    BY <1>2, <2>1, HeadTailProperties
  <2>3. net' \in Seq(Cells)
    <3>1. Frame(Head(out)) \in Seq(Cells)
      BY <2>2, FrameCells
    <3> QED BY <1>2, <2>1, <3>1, ConcatProperties
  <2>4. StateType'
    BY <1>1, <1>3, <2>1, <2>2, <2>3 DEF StateType
  <2>5. Exchange'
    <3> SUFFICES ASSUME ~overlapped PROVE Exchange'
      BY <1>3 DEF Exchange
    <3>1. out = <<id>> /\ m_dataLen = 0 /\ buf = <<>> /\ net = <<>> /\ pending = 1
      BY <1>1, <1>3, <2>1 DEF Exchange
    <3>2. Head(<<id>>) = id /\ Tail(<<id>>) = <<>>
      OBVIOUS
    <3>3. Frame(id) \in Seq(Cells) /\ Len(Frame(id)) = 2
      BY <1>2, FrameCells
    <3>4. net' = Frame(id) /\ out' = <<>>
      <4>1. <<>> \o Frame(id) = Frame(id)
        BY <3>3, ConcatEmptySeq
      <4> QED BY <2>1, <3>1, <3>2, <4>1
    <3>5. Reads(Frame(id), 0, id)
      BY <3>3 DEF Reads
    <3>6. Len(<<>>) = 0 /\ Reads(<<>>, 0, id)
      BY ReadsNothing
    <3> QED BY <1>3, <3>1, <3>4, <3>5, <3>6 DEF Exchange
  <2> QED BY <1>4, <2>4, <2>5 DEF IInv
<1>6. CASE ServerLeaves
  <2>1. PICK k \in 0 .. Len(net) : net' = Arrived(net, k)
    BY <1>6 DEF ServerLeaves
  <2>2. peer' \in {"gone", "silent"} /\ out' = out
    BY <1>6 DEF ServerLeaves
  <2>3. /\ Arrived(net, k) \in Seq(Cells) /\ Len(Arrived(net, k)) = k
        /\ \A p \in Nat : \A j : Reads(net, p, j) => Reads(Arrived(net, k), p, j)
    BY <1>2, ReadsCut
  <2>4. StateType'
    BY <1>1, <1>3, <2>1, <2>2, <2>3 DEF StateType
  <2>5. Exchange'
    <3> SUFFICES ASSUME ~overlapped PROVE Exchange'
      BY <1>3 DEF Exchange
    <3>1. m_dataLen + Len(buf) \in Nat /\ Reads(net, m_dataLen + Len(buf), id)
      BY <1>1, <1>2, <1>3 DEF Exchange
    <3>2. Reads(net', m_dataLen + Len(buf), id)
      BY <2>1, <2>3, <3>1
    <3>3. net = <<>> => net' = <<>>
      <4> SUFFICES ASSUME net = <<>> PROVE net' = <<>>
        OBVIOUS
      <4>1. Len(net) = 0
        BY EmptySeq
      <4>2. k = 0
        BY <4>1
      <4> QED BY <2>1, <2>3, <4>2, EmptySeq
    <3> QED BY <1>1, <1>3, <2>2, <3>2, <3>3 DEF Exchange
  <2> QED BY <1>4, <2>4, <2>5 DEF IInv
<1> QED BY <1>5, <1>6

\* Every step keeps the invariant, and delivers the response of the exchange
\* if it delivers one.
LEMMA NextIInv ==
    ASSUME IInv, [Next]_vars
    PROVE  IInv' /\ (answered' # answered => overlapped \/ answered' = id)
<1>1. CASE ReceiveResponse
  BY <1>1, ReceiveStep
<1>2. CASE Start \/ ReadLoad \/ ReadLoadReconnects \/ Eof
  <2>1. answered' = answered
    BY <1>2 DEF Start, ReadLoad, ReadLoadReconnects, Eof
  <2> QED BY <1>2, <2>1, UserStep
<1>3. CASE OnTimeout \/ Disconnected
  <2>1. answered' = answered
    BY <1>3 DEF OnTimeout, Disconnected, Closed
  <2> QED BY <1>3, <2>1, ClosedStep
<1>4. CASE ServerAnswers \/ ServerLeaves
  <2>1. answered' = answered
    BY <1>4 DEF ServerAnswers, ServerLeaves
  <2> QED BY <1>4, <2>1, ServerStep
<1>5. CASE UNCHANGED vars
  BY <1>5 DEF vars, user, link, IInv, StateType, Idle, Exchange
<1> QED BY <1>1, <1>2, <1>3, <1>4, <1>5 DEF Next, Step

\* What is buffered and what is on the way, read as one.
LEMMA Synchronised == IInv => InSync
<1> SUFFICES ASSUME IInv, socket = "connected", ~overlapped,
                    NEW n \in 1 .. Len(buf \o net)
             PROVE  (buf \o net)[n].t = IF (n + m_dataLen) % 2 = 1 THEN "len" ELSE "body"
  BY DEF InSync
<1>1. /\ buf \in Seq(Cells) /\ net \in Seq(Cells) /\ id \in Nat /\ m_dataLen \in {0, 1}
      /\ Reads(buf, m_dataLen, id) /\ Reads(net, m_dataLen + Len(buf), id)
  BY DEF IInv, StateType, Exchange
<1>2. PICK ahead : ahead = buf \o net
  OBVIOUS
<1>3. ahead \in Seq(Cells) /\ Reads(ahead, m_dataLen, id)
  <2>1. m_dataLen \in Nat
    BY <1>1
  <2> QED BY <1>1, <1>2, <2>1, ReadsConcat, ConcatProperties
<1>4. n \in Nat /\ n >= 1 /\ m_dataLen + n <= 2 /\ ahead[n] = Frame(id)[m_dataLen + n]
  <2>1. Len(ahead) \in Nat /\ n \in 1 .. Len(ahead)
    BY <1>2, <1>3, LenProperties
  <2> QED BY <1>1, <1>3, <2>1 DEF Reads
<1>5. n + m_dataLen \in {1, 2} /\ n + m_dataLen = m_dataLen + n
  BY <1>1, <1>4
<1>6. Frame(id)[1].t = "len" /\ Frame(id)[2].t = "body" /\ 1 % 2 = 1 /\ 2 % 2 = 0
  BY <1>1, FrameCells
<1> QED BY <1>2, <1>4, <1>5, <1>6

\* As long as no request of a connection is sent while another is outstanding,
\* the client never takes a body for a length, on this connection or on the
\* next, however the data are cut and whatever a timeout has interrupted.
THEOREM InSyncTheorem == Spec => []InSync
<1>1. IInv /\ [Next]_vars => IInv'
  BY NextIInv
<1> QED BY <1>1, InitIInv, Synchronised, PTL DEF Spec

\* Under the same condition no response is delivered but that of the last
\* request: none that comes after its timeout, and none of an earlier connection.
THEOREM ResponseTheorem == Spec => ResponseIsOwn
<1>1. IInv /\ [Next]_vars => IInv'
  BY NextIInv
<1>2. IInv /\ [Next]_vars => [answered' # answered => overlapped \/ answered' = id]_vars
  BY NextIInv
<1> QED BY <1>1, <1>2, InitIInv, PTL DEF Spec, ResponseIsOwn
=============================================================================

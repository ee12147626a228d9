--------------------------- MODULE QtSessionProofs ---------------------------
(***************************************************************************)
(* Proofs about the sessions of QtSession, shared by those about the two   *)
(* Qt servers, for any number of connections and requests and however the  *)
(* data are cut into chunks.  The cells on their way to a session stand at *)
(* known positions in what its peer sends, and m_dataLen tells whether the *)
(* next one is a length or a body: so no body is ever taken for a length,  *)
(* and the request that is taken is the next in order.  The last part is   *)
(* about the sums that the benchmark's servers are held against.           *)
(***************************************************************************)
EXTENDS QtSession, Totals, SequenceTheorems, FiniteSetTheorems, WellFoundedInduction, TLAPS

\* What a peer sends, cell by cell, and a part of it that begins after p cells.
CellAt(p)   == [t |-> IF p % 2 = 1 THEN "len" ELSE "body", job |-> (p + 1) \div 2]
Reads(s, p) == \A k \in 1 .. Len(s) : s[k] = CellAt(p + k)

Working(i) == IF at[i] = "work" THEN 1 ELSE 0

\* The cells of a connection that its session has taken.
Taken(i) == 2 * (Len(tx[i]) + Working(i)) + m_dataLen[i]

Framed(i) ==
    socket[i] # "closed" =>
        /\ m_dataLen[i] \in {0, 1}
        /\ Reads(buf[i], Taken(i))
        /\ Reads(net[i], Taken(i) + Len(buf[i]))
        /\ peer[i] # "gone" => Taken(i) + Len(buf[i]) + Len(net[i]) = 2 * sent[i]

Placed(i) ==
    /\ at[i] = "none" => peer[i] = "absent"
    /\ at[i] \in {"none", "queued"} => socket[i] = "none"
    /\ Active(i) => socket[i] # "none"
    /\ at[i] = "work" => socket[i] = "open" /\ m_dataBuf[i] = Len(tx[i]) + 1

SessionInv == SessionTypeOK /\ \A i \in Ids : Framed(i) /\ Placed(i)

\* The refinement mapping, and a step under it.
Conn(i)    == IF socket[i] = "none" THEN "free" ELSE socket[i]
Current(i) == IF at[i] = "work" THEN m_dataBuf[i] ELSE 0

ServiceStep == Service!SNext \/ UNCHANGED Service!svars

(***************************************************************************)
(* Sequences of cells.                                                     *)
(***************************************************************************)
\* A frame is an odd cell and the even one that follows it.
LEMMA CellFacts ==
    ASSUME NEW n \in Nat
    PROVE  /\ CellAt(2 * n + 1) = [t |-> "len", job |-> n + 1]
           /\ CellAt(2 * n + 2) = [t |-> "body", job |-> n + 1]
<1>1. (2 * n + 1) % 2 = 1 /\ (2 * n + 2) % 2 = 0
  OBVIOUS
<1>2. (2 * n + 1 + 1) \div 2 = n + 1 /\ (2 * n + 2 + 1) \div 2 = n + 1
  OBVIOUS
<1> QED BY <1>1, <1>2 DEF CellAt

\* The first cell, and those behind it.
LEMMA ReadsTail ==
    ASSUME NEW s \in Seq(Cells), NEW p \in Nat, Reads(s, p), s # <<>>
    PROVE  Head(s) = CellAt(p + 1) /\ Reads(Tail(s), p + 1)
<1>1. /\ Len(s) \in Nat \ {0} /\ Len(Tail(s)) = Len(s) - 1 /\ Head(s) = s[1]
      /\ \A k \in 1 .. Len(Tail(s)) : Tail(s)[k] = s[k + 1]
  BY HeadTailProperties, EmptySeq
<1>2. ASSUME NEW k \in 1 .. Len(Tail(s)) PROVE Tail(s)[k] = CellAt(p + 1 + k)
  <2>1. k + 1 \in 1 .. Len(s) /\ p + (k + 1) = p + 1 + k
    BY <1>1
  <2> QED BY <1>1, <2>1 DEF Reads
<1>3. 1 \in 1 .. Len(s)
  BY <1>1
<1> QED BY <1>1, <1>2, <1>3 DEF Reads

\* Consecutive parts make one.
LEMMA ReadsConcat ==
    ASSUME NEW s \in Seq(Cells), NEW r \in Seq(Cells), NEW p \in Nat,
           Reads(s, p), Reads(r, p + Len(s))
    PROVE  Reads(s \o r, p)
<1>1. /\ Len(s) \in Nat /\ Len(r) \in Nat /\ Len(s \o r) = Len(s) + Len(r)
      /\ \A k \in 1 .. Len(s) + Len(r) :
           (s \o r)[k] = IF k <= Len(s) THEN s[k] ELSE r[k - Len(s)]
  BY ConcatProperties, LenProperties
<1>2. ASSUME NEW k \in 1 .. Len(s \o r) PROVE (s \o r)[k] = CellAt(p + k)
  <2>1. CASE k <= Len(s)
    <3>1. k \in 1 .. Len(s)
      BY <1>1, <2>1
    <3> QED BY <1>1, <2>1, <3>1 DEF Reads
  <2>2. CASE k > Len(s)
    <3>1. k - Len(s) \in 1 .. Len(r) /\ p + Len(s) + (k - Len(s)) = p + k
      BY <1>1, <2>2
    <3> QED BY <1>1, <2>2, <3>1 DEF Reads
  <2> QED BY <1>1, <2>1, <2>2
<1> QED BY <1>2 DEF Reads

\* A part is cut in two.
LEMMA ReadsCut ==
    ASSUME NEW s \in Seq(Cells), NEW k \in 0 .. Len(s)
    PROVE  /\ Arrived(s, k) \in Seq(Cells) /\ Len(Arrived(s, k)) = k
           /\ Left(s, k) \in Seq(Cells) /\ Len(Left(s, k)) = Len(s) - k
           /\ \A p \in Nat : Reads(s, p) => Reads(Arrived(s, k), p) /\ Reads(Left(s, k), p + k)
<1>1. Len(s) \in Nat /\ k \in Nat /\ k <= Len(s)
  BY LenProperties
<1>2. \A j \in 1 .. Len(s) : s[j] \in Cells
  BY ElementOfSeq
<1>3. /\ SubSeq(s, 1, k) \in Seq(Cells)
      /\ Len(SubSeq(s, 1, k)) = k
      /\ \A j \in 1 .. k : SubSeq(s, 1, k)[j] = s[j]
  <2>1. \A j \in 1 .. k : s[j] \in Cells
    BY <1>1, <1>2
  <2>2. /\ SubSeq(s, 1, k) \in Seq(Cells)
        /\ Len(SubSeq(s, 1, k)) = IF 1 <= k THEN k - 1 + 1 ELSE 0
        /\ \A j \in 1 .. k - 1 + 1 : SubSeq(s, 1, k)[j] = s[1 + j - 1]
    BY <1>1, <2>1, SubSeqProperties
  <2> QED BY <1>1, <2>2
<1>4. /\ SubSeq(s, k + 1, Len(s)) \in Seq(Cells)
      /\ Len(SubSeq(s, k + 1, Len(s))) = Len(s) - k
      /\ \A j \in 1 .. Len(s) - k : SubSeq(s, k + 1, Len(s))[j] = s[k + j]
  <2>1. \A j \in k + 1 .. Len(s) : s[j] \in Cells
    BY <1>1, <1>2
  <2>2. /\ SubSeq(s, k + 1, Len(s)) \in Seq(Cells)
        /\ Len(SubSeq(s, k + 1, Len(s))) = IF k + 1 <= Len(s) THEN Len(s) - (k + 1) + 1 ELSE 0
        /\ \A j \in 1 .. Len(s) - (k + 1) + 1 : SubSeq(s, k + 1, Len(s))[j] = s[k + 1 + j - 1]
    BY <1>1, <2>1, SubSeqProperties
  <2>3. \A j \in 1 .. Len(s) - k : j \in 1 .. Len(s) - (k + 1) + 1 /\ k + 1 + j - 1 = k + j
    BY <1>1
  <2> QED BY <1>1, <2>2, <2>3
<1>5. ASSUME NEW p \in Nat, Reads(s, p)
      PROVE  Reads(Arrived(s, k), p) /\ Reads(Left(s, k), p + k)
  <2>1. Reads(SubSeq(s, 1, k), p)
    BY <1>1, <1>3, <1>5 DEF Reads
  <2>2. ASSUME NEW j \in 1 .. Len(s) - k PROVE SubSeq(s, k + 1, Len(s))[j] = CellAt(p + k + j)
    <3>1. k + j \in 1 .. Len(s) /\ p + (k + j) = p + k + j
      BY <1>1
    <3> QED BY <1>4, <1>5, <3>1 DEF Reads
  <2>3. Reads(SubSeq(s, k + 1, Len(s)), p + k)
    BY <1>4, <2>2 DEF Reads
  <2> QED BY <2>1, <2>3 DEF Arrived, Left
<1> QED BY <1>3, <1>4, <1>5 DEF Arrived, Left

(***************************************************************************)
(* The refinement.                                                         *)
(***************************************************************************)
\* A session that a step leaves alone keeps what holds of it.
Same(j) ==
    /\ at'[j] = at[j] /\ socket'[j] = socket[j] /\ buf'[j] = buf[j] /\ net'[j] = net[j]
    /\ m_dataLen'[j] = m_dataLen[j] /\ m_dataBuf'[j] = m_dataBuf[j]
    /\ peer'[j] = peer[j] /\ sent'[j] = sent[j] /\ tx'[j] = tx[j]

\* The part of every step that concerns the other sessions.
LEMMA OthersKept ==
    ASSUME NEW j \in Ids, Framed(j), Placed(j), Same(j)
    PROVE  Framed(j)' /\ Placed(j)' /\ Conn(j)' = Conn(j) /\ Current(j)' = Current(j)
BY DEF Framed, Placed, Same, Taken, Working, Active, Conn, Current

\* A step that changes neither the state of a connection nor the request in hand
\* nor the answers is none of the service.
LEMMA ServiceStutters ==
    ASSUME \A j \in Ids : Conn(j)' = Conn(j) /\ Current(j)' = Current(j), tx' = tx
    PROVE  ServiceStep
BY DEF ServiceStep, Service!svars, Conn, Current

\* A connection is made.
LEMMA ServiceOpens ==
    ASSUME NEW i \in Ids, Conn(i) = "free", Conn(i)' = "open", Current(i)' = Current(i), tx' = tx,
           \A j \in Ids \ {i} : Conn(j)' = Conn(j) /\ Current(j)' = Current(j)
    PROVE  ServiceStep
<1>1. Service!Open(i)
  BY DEF Service!Open, Conn, Current
<1> QED BY <1>1 DEF ServiceStep, Service!SNext

\* A connection ends.
LEMMA ServiceDrops ==
    ASSUME NEW i \in Ids, Conn(i) = "open", Conn(i)' = "closed", Current(i)' = 0, tx' = tx,
           \A j \in Ids \ {i} : Conn(j)' = Conn(j) /\ Current(j)' = Current(j)
    PROVE  ServiceStep
<1>1. Service!Drop(i)
  BY DEF Service!Drop, Conn, Current
<1> QED BY <1>1 DEF ServiceStep, Service!SNext

\* The next request is taken.
LEMMA ServiceTakes ==
    ASSUME NEW i \in Ids, Conn(i) = "open", Current(i) = 0, tx' = tx,
           Conn(i)' = Conn(i), Current(i)' = Len(tx[i]) + 1,
           \A j \in Ids \ {i} : Conn(j)' = Conn(j) /\ Current(j)' = Current(j)
    PROVE  ServiceStep
<1>1. Service!Take(i)
  BY DEF Service!Take, Conn, Current
<1> QED BY <1>1 DEF ServiceStep, Service!SNext

\* The request in hand is answered.
LEMMA ServiceAnswers ==
    ASSUME NEW i \in Ids, Conn(i) = "open", Current(i) # 0,
           tx' = [tx EXCEPT ![i] = Append(@, Current(i))],
           Conn(i)' = Conn(i), Current(i)' = 0,
           \A j \in Ids \ {i} : Conn(j)' = Conn(j) /\ Current(j)' = Current(j)
    PROVE  ServiceStep
<1>1. Service!Answer(i)
  BY DEF Service!Answer, Conn, Current
<1> QED BY <1>1 DEF ServiceStep, Service!SNext

(***************************************************************************)
(* The steps of the sessions and of their peers.                           *)
(***************************************************************************)
\* No request and no answer, and no place in any sequence.
LEMMA SessionStarts == SessionInit => SessionInv /\ Service!SInit
<1> SUFFICES ASSUME SessionInit PROVE SessionInv /\ Service!SInit
  OBVIOUS
<1>1. 0 \in 0 .. MaxReq
  BY SessionAssumption
<1>2. SessionTypeOK
  BY <1>1 DEF SessionInit, SessionTypeOK, Lengths
<1>3. \A i \in Ids : Reads(<<>>, 0)
  BY DEF Reads
<1>4. ASSUME NEW i \in Ids PROVE Framed(i) /\ Placed(i)
  BY <1>3 DEF SessionInit, Framed, Placed, Taken, Working, Active
<1>5. Service!SInit
  BY DEF SessionInit, Service!SInit
<1> QED BY <1>2, <1>4, <1>5 DEF SessionInv

\* The types of a session, its typed part of the invariant.
LEMMA SessionTypes ==
    ASSUME SessionInv, NEW i \in Ids
    PROVE  /\ buf[i] \in Seq(Cells) /\ net[i] \in Seq(Cells) /\ tx[i] \in Seq(1 .. MaxReq)
           /\ Len(buf[i]) \in Nat /\ Len(net[i]) \in Nat /\ Len(tx[i]) \in Nat
           /\ sent[i] \in 0 .. MaxReq /\ m_dataLen[i] \in Lengths /\ m_dataBuf[i] \in 0 .. MaxReq
           /\ Working(i) \in {0, 1} /\ Taken(i) \in Nat
<1>1. /\ buf[i] \in Seq(Cells) /\ net[i] \in Seq(Cells) /\ tx[i] \in Seq(1 .. MaxReq)
      /\ sent[i] \in 0 .. MaxReq /\ m_dataLen[i] \in Lengths /\ m_dataBuf[i] \in 0 .. MaxReq
  BY DEF SessionInv, SessionTypeOK
<1>2. Len(buf[i]) \in Nat /\ Len(net[i]) \in Nat /\ Len(tx[i]) \in Nat
  BY <1>1, LenProperties
<1>3. m_dataLen[i] \in Nat
  BY <1>1 DEF Lengths, Garbage
<1>4. Working(i) \in {0, 1}
  BY DEF Working
<1> QED BY <1>1, <1>2, <1>3, <1>4 DEF Taken

\* A number of cells stays as it is while k of them go from the wire to the buffer.
LEMMA Moved ==
    ASSUME NEW a \in Nat, NEW b \in Nat, NEW c \in Nat, NEW s, NEW k \in 0 .. c, a + b + c = s
    PROVE  a + (b + k) + (c - k) = s /\ a + b + k = a + (b + k)
OBVIOUS

\* A length more that has been read is a cell less in the data, or none.
LEMMA HeaderCounts ==
    ASSUME NEW n \in Nat, NEW b \in Nat, NEW k \in Nat
    PROVE  /\ 2 * n + 1 + (b + k - 1) = 2 * n + b + k
           /\ 2 * n + 1 + (b + k) = 2 * n + 1 + b + k
OBVIOUS

\* A frame that is sent is two cells more on the wire.
LEMMA FrameCounts ==
    ASSUME NEW a \in Nat, NEW b \in Nat, NEW c \in Nat, NEW s \in Nat
    PROVE  a + b + (c + 2) = (a + b + c) + 2 /\ 2 * s + 2 = 2 * (s + 1)
OBVIOUS

\* A body that is taken is a cell less in the data.
LEMMA BodyCounts ==
    ASSUME NEW n \in Nat
    PROVE  \A r \in Nat : \A s : 2 * n + 1 + r = s => 2 * n + 2 + (r - 1) = s
OBVIOUS

\* The length is always read from a length's cell.
LEMMA HeaderIsWhole ==
    ASSUME SessionInv, NEW i \in Ids, at[i] = "loop", socket[i] = "open", NEW k \in 1 .. Len(net[i]),
           NEW h, h = AfterHeader(m_dataLen[i], buf[i] \o Arrived(net[i], k))
    PROVE  /\ h.len = 1 /\ h.rest \in Seq(Cells)
           /\ Reads(h.rest, 2 * Len(tx[i]) + 1)
           /\ 2 * Len(tx[i]) + 1 + Len(h.rest) = Taken(i) + Len(buf[i]) + k
<1> DEFINE data == buf[i] \o Arrived(net[i], k)
<1> DEFINE n == Len(tx[i])
<1>1. /\ buf[i] \in Seq(Cells) /\ net[i] \in Seq(Cells) /\ n \in Nat
      /\ Len(buf[i]) \in Nat /\ Len(net[i]) \in Nat /\ Taken(i) \in Nat
  BY SessionTypes
<1>2. /\ m_dataLen[i] \in {0, 1} /\ Reads(buf[i], Taken(i))
      /\ Reads(net[i], Taken(i) + Len(buf[i])) /\ Taken(i) = 2 * n + m_dataLen[i]
  <2>1. Framed(i) /\ socket[i] # "closed"
    BY DEF SessionInv
  <2>2. Taken(i) = 2 * (n + 0) + m_dataLen[i]
    BY DEF Taken, Working
  <2> QED BY <1>1, <2>1, <2>2 DEF Framed
<1>3. k \in 0 .. Len(net[i]) /\ k \in Nat /\ k >= 1 /\ Taken(i) + Len(buf[i]) \in Nat
  BY <1>1
<1>4. /\ Arrived(net[i], k) \in Seq(Cells) /\ Len(Arrived(net[i], k)) = k
      /\ Reads(Arrived(net[i], k), Taken(i) + Len(buf[i]))
  BY <1>1, <1>2, <1>3, ReadsCut
<1>5. data \in Seq(Cells) /\ Len(data) = Len(buf[i]) + k /\ Reads(data, Taken(i))
  <2>1. data \in Seq(Cells) /\ Len(data) = Len(buf[i]) + k
    <3>1. Len(data) = Len(buf[i]) + Len(Arrived(net[i], k))
      BY <1>1, <1>4, ConcatProperties
    <3>2. data \in Seq(Cells)
      BY <1>1, <1>4
    <3> QED BY <1>4, <3>1, <3>2
  <2>2. Reads(Arrived(net[i], k), Taken(i) + Len(buf[i]))
    BY <1>4
  <2>3. Reads(data, Taken(i))
    BY <1>1, <1>2, <1>4, <2>2, ReadsConcat
  <2> QED BY <2>1, <2>3
<1>6. data # <<>>
  <2>1. Len(data) # 0
    BY <1>1, <1>3, <1>5
  <2> QED BY <2>1, EmptySeq
<1> HIDE DEF data, n
<1>7. CASE m_dataLen[i] = 0
  <2>1. h = [len |-> LengthIn(Head(data)), rest |-> Tail(data)]
    BY <1>6, <1>7 DEF AfterHeader, data
  <2>2. Head(data) = CellAt(2 * n + 1) /\ Reads(Tail(data), 2 * n + 1)
    <3>1. Taken(i) = 2 * n
      BY <1>1, <1>2, <1>7
    <3> QED BY <1>1, <1>5, <1>6, <3>1, ReadsTail
  <2>3. LengthIn(Head(data)) = 1
    <3>1. CellAt(2 * n + 1) = [t |-> "len", job |-> n + 1]
      BY <1>1, CellFacts
    <3> QED BY <2>2, <3>1 DEF LengthIn
  <2>4. Tail(data) \in Seq(Cells) /\ Len(Tail(data)) = Len(data) - 1
    BY <1>5, <1>6, HeadTailProperties
  <2>5. h.len = 1 /\ h.rest = Tail(data)
    BY <2>1, <2>3
  <2>6. 2 * n + 1 + Len(Tail(data)) = Taken(i) + Len(buf[i]) + k
    <3>1. Len(Tail(data)) = Len(buf[i]) + k - 1
      BY <1>5, <2>4
    <3>2. Taken(i) = 2 * n
      BY <1>1, <1>2, <1>7
    <3>3. 2 * n + 1 + (Len(buf[i]) + k - 1) = 2 * n + Len(buf[i]) + k
      <4>1. n \in Nat /\ Len(buf[i]) \in Nat /\ k \in Nat
        BY <1>1, <1>3
      <4> QED BY <4>1, HeaderCounts
    <3> QED BY <3>1, <3>2, <3>3
  <2> QED BY <2>2, <2>4, <2>5, <2>6 DEF n
<1>8. CASE m_dataLen[i] = 1
  <2>1. h = [len |-> 1, rest |-> data]
    BY <1>8 DEF AfterHeader, data
  <2>2. h.len = 1 /\ h.rest = data
    BY <2>1
  <2>3. Taken(i) = 2 * n + 1
    BY <1>1, <1>2, <1>8
  <2>4. 2 * n + 1 + Len(data) = Taken(i) + Len(buf[i]) + k
    <3>1. 2 * n + 1 + (Len(buf[i]) + k) = 2 * n + 1 + Len(buf[i]) + k
      <4>1. n \in Nat /\ Len(buf[i]) \in Nat /\ k \in Nat
        BY <1>1, <1>3
      <4> QED BY <4>1, HeaderCounts
    <3> QED BY <1>5, <2>3, <3>1
  <2> QED BY <1>5, <2>2, <2>3, <2>4 DEF n
<1> QED BY <1>2, <1>7, <1>8

\* A session that takes a request takes the next one.
LEMMA ReceiveStep ==
    ASSUME SessionInv, NEW i \in Ids, at[i] = "loop", socket[i] = "open", NEW k \in 1 .. Len(net[i]),
           NEW h, h = AfterHeader(m_dataLen[i], buf[i] \o Arrived(net[i], k)),
           Receive(i, h), net' = [net EXCEPT ![i] = Left(@, k)],
           UNCHANGED <<quit, socket, peer, sent, tx>>
    PROVE  SessionInv' /\ ServiceStep
<1> DEFINE n == Len(tx[i])
<1>1. /\ net[i] \in Seq(Cells) /\ tx[i] \in Seq(1 .. MaxReq) /\ n \in Nat
      /\ Len(buf[i]) \in Nat /\ Len(net[i]) \in Nat /\ Taken(i) \in Nat /\ sent[i] \in Nat
  BY SessionTypes
<1>2. /\ h.len = 1 /\ h.rest \in Seq(Cells) /\ Reads(h.rest, 2 * n + 1)
      /\ 2 * n + 1 + Len(h.rest) = Taken(i) + Len(buf[i]) + k
  BY HeaderIsWhole
<1>3. k \in 0 .. Len(net[i]) /\ k \in Nat
  BY <1>1
<1>4. /\ Left(net[i], k) \in Seq(Cells) /\ Len(Left(net[i], k)) = Len(net[i]) - k
      /\ \A p \in Nat : Reads(net[i], p) => Reads(Left(net[i], k), p + k)
  BY <1>1, <1>3, ReadsCut
<1>5. h.rest # <<>>
  BY DEF Receive, HasFrame
<1>6. /\ Head(h.rest) \in Cells /\ Head(h.rest) = CellAt(2 * n + 2) /\ Head(h.rest).job = n + 1
      /\ Tail(h.rest) \in Seq(Cells) /\ Len(Tail(h.rest)) = Len(h.rest) - 1
      /\ Len(h.rest) \in Nat /\ Reads(Tail(h.rest), 2 * n + 2)
  <2>1. 2 * n + 1 \in Nat /\ 2 * n + 1 + 1 = 2 * n + 2
    BY <1>1
  <2>2. Head(h.rest) = CellAt(2 * n + 2) /\ Reads(Tail(h.rest), 2 * n + 2)
    BY <1>2, <1>5, <2>1, ReadsTail
  <2>3. CellAt(2 * n + 2) = [t |-> "body", job |-> n + 1]
    BY <1>1, CellFacts
  <2>4. /\ Head(h.rest) \in Cells /\ Tail(h.rest) \in Seq(Cells)
        /\ Len(Tail(h.rest)) = Len(h.rest) - 1 /\ Len(h.rest) \in Nat
    BY <1>2, <1>5, HeadTailProperties, LenProperties
  <2> QED BY <2>2, <2>3, <2>4
<1>7. n + 1 \in 0 .. MaxReq
  BY <1>1, <1>6, SessionAssumption DEF Cells
<1>8. /\ at' = [at EXCEPT ![i] = "work"] /\ buf' = [buf EXCEPT ![i] = Tail(h.rest)]
      /\ m_dataBuf' = [m_dataBuf EXCEPT ![i] = n + 1] /\ m_dataLen' = [m_dataLen EXCEPT ![i] = 0]
      /\ net' = [net EXCEPT ![i] = Left(net[i], k)]
  BY <1>6 DEF Receive, Goes
<1>9. SessionTypeOK'
  BY <1>4, <1>6, <1>7, <1>8 DEF SessionInv, SessionTypeOK, Lengths
<1>10. /\ at'[i] = "work" /\ buf'[i] = Tail(h.rest) /\ m_dataBuf'[i] = n + 1 /\ m_dataLen'[i] = 0
       /\ net'[i] = Left(net[i], k)
  BY <1>8 DEF SessionInv, SessionTypeOK
<1>11. Framed(i)'
  <2>1. Taken(i)' = 2 * n + 2
    BY <1>1, <1>10 DEF Taken, Working
  <2>2. 2 * n + 2 + Len(Tail(h.rest)) = Taken(i) + Len(buf[i]) + k
    <3>1. 2 * n + 2 + (Len(h.rest) - 1) = Taken(i) + Len(buf[i]) + k
      <4>1. n \in Nat /\ Len(h.rest) \in Nat /\ 2 * n + 1 + Len(h.rest) = Taken(i) + Len(buf[i]) + k
        BY <1>1, <1>2, <1>6
      <4>2. \A s : 2 * n + 1 + Len(h.rest) = s => 2 * n + 2 + (Len(h.rest) - 1) = s
        BY <4>1, BodyCounts
      <4> HIDE DEF n
      <4> QED BY <4>1, <4>2, Zenon
    <3> QED BY <1>6, <3>1
  <2>3. Reads(Left(net[i], k), Taken(i) + Len(buf[i]) + k)
    <3>1. Framed(i)
      BY DEF SessionInv
    <3>2. Reads(net[i], Taken(i) + Len(buf[i])) /\ Taken(i) + Len(buf[i]) \in Nat
      BY <1>1, <3>1 DEF Framed
    <3> QED BY <1>4, <3>2
  <2>4. peer[i] # "gone" => Taken(i) + Len(buf[i]) + Len(net[i]) = 2 * sent[i]
    BY DEF SessionInv, Framed
  <2>5. peer[i] # "gone" => Taken(i) + Len(buf[i]) + k + (Len(net[i]) - k) = 2 * sent[i]
    <3>1. /\ Taken(i) \in Nat /\ Len(buf[i]) \in Nat /\ Len(net[i]) \in Nat
          /\ k \in 0 .. Len(net[i]) /\ k \in Nat
      BY <1>1, <1>3
    <3>2. Taken(i) + Len(buf[i]) + k = Taken(i) + (Len(buf[i]) + k)
      BY <3>1
    <3> QED BY <2>4, <3>1, <3>2, Moved
  <2> QED BY <1>4, <1>6, <1>10, <2>1, <2>2, <2>3, <2>5 DEF Framed
<1>12. Placed(i)'
  BY <1>10 DEF Placed, Active
<1>13. \A j \in Ids \ {i} : Same(j)
  BY <1>8 DEF Same, SessionInv, SessionTypeOK
<1>14. SessionInv'
  BY <1>9, <1>11, <1>12, <1>13, OthersKept DEF SessionInv
<1>15. Conn(i) = "open" /\ Current(i) = 0 /\ Conn(i)' = Conn(i) /\ Current(i)' = Len(tx[i]) + 1
  BY <1>10 DEF Conn, Current
<1>16. \A j \in Ids \ {i} : Conn(j)' = Conn(j) /\ Current(j)' = Current(j)
  BY <1>13, OthersKept DEF SessionInv
<1> QED BY <1>14, <1>15, <1>16, ServiceTakes

\* A session that waits for the rest of a request has its length.
LEMMA WaitsStep ==
    ASSUME SessionInv, NEW i \in Ids, at[i] = "loop", socket[i] = "open", NEW k \in 1 .. Len(net[i]),
           NEW h, h = AfterHeader(m_dataLen[i], buf[i] \o Arrived(net[i], k)),
           Waits(i, h), net' = [net EXCEPT ![i] = Left(@, k)],
           UNCHANGED <<quit, socket, peer, sent, tx>>
    PROVE  SessionInv' /\ ServiceStep
<1> DEFINE n == Len(tx[i])
<1>1. /\ net[i] \in Seq(Cells) /\ n \in Nat
      /\ Len(buf[i]) \in Nat /\ Len(net[i]) \in Nat /\ Taken(i) \in Nat
  BY SessionTypes
<1>2. /\ h.len = 1 /\ h.rest \in Seq(Cells)
      /\ 2 * n + 1 + Len(h.rest) = Taken(i) + Len(buf[i]) + k
  BY HeaderIsWhole
<1>3. k \in 0 .. Len(net[i]) /\ k \in Nat
  BY <1>1
<1>4. /\ Left(net[i], k) \in Seq(Cells) /\ Len(Left(net[i], k)) = Len(net[i]) - k
      /\ \A p \in Nat : Reads(net[i], p) => Reads(Left(net[i], k), p + k)
  BY <1>1, <1>3, ReadsCut
<1>5. h.rest = <<>> /\ Len(<<>>) = 0
  BY <1>2, EmptySeq DEF Waits, HasFrame
<1>6. 2 * n + 1 = Taken(i) + Len(buf[i]) + k
  <2>1. 2 * n + 1 + 0 = Taken(i) + Len(buf[i]) + k
    BY <1>2, <1>5
  <2> QED BY <1>1, <2>1
<1>7. /\ at' = at /\ m_dataBuf' = m_dataBuf /\ buf' = [buf EXCEPT ![i] = <<>>]
      /\ m_dataLen' = [m_dataLen EXCEPT ![i] = 1] /\ net' = [net EXCEPT ![i] = Left(net[i], k)]
  BY <1>2, <1>5 DEF Waits
<1>8. SessionTypeOK'
  <2>1. <<>> \in Seq(Cells) /\ 1 \in Lengths
    BY EmptySeq DEF Lengths
  <2> QED BY <1>4, <1>7, <2>1 DEF SessionInv, SessionTypeOK
<1>9. buf'[i] = <<>> /\ m_dataLen'[i] = 1 /\ net'[i] = Left(net[i], k) /\ at'[i] = "loop"
  BY <1>7 DEF SessionInv, SessionTypeOK
<1>10. Framed(i)'
  <2>1. Taken(i)' = 2 * n + 1
    BY <1>1, <1>9 DEF Taken, Working
  <2>2. Framed(i)
    BY DEF SessionInv
  <2>3. Reads(Left(net[i], k), 2 * n + 1)
    <3>1. Reads(net[i], Taken(i) + Len(buf[i])) /\ Taken(i) + Len(buf[i]) \in Nat
      BY <1>1, <2>2 DEF Framed
    <3> QED BY <1>4, <1>6, <3>1
  <2>4. peer[i] # "gone" => 2 * n + 1 + 0 + (Len(net[i]) - k) = 2 * sent[i]
    <3>1. peer[i] # "gone" => Taken(i) + Len(buf[i]) + Len(net[i]) = 2 * sent[i]
      BY <2>2 DEF Framed
    <3>2. /\ Taken(i) \in Nat /\ Len(buf[i]) \in Nat /\ Len(net[i]) \in Nat
          /\ k \in 0 .. Len(net[i]) /\ k \in Nat
      BY <1>1, <1>3
    <3>3. peer[i] # "gone" => Taken(i) + Len(buf[i]) + k + (Len(net[i]) - k) = 2 * sent[i]
      <4>1. Taken(i) + Len(buf[i]) + k = Taken(i) + (Len(buf[i]) + k)
        BY <3>2
      <4> QED BY <3>1, <3>2, <4>1, Moved
    <3>4. 2 * n + 1 + 0 = 2 * n + 1
      BY <1>1
    <3> QED BY <1>6, <3>3, <3>4
  <2>5. Reads(<<>>, 2 * n + 1)
    BY <1>5 DEF Reads
  <2>6. 2 * n + 1 + 0 = 2 * n + 1
    BY <1>1
  <2> QED BY <1>4, <1>5, <1>9, <2>1, <2>3, <2>4, <2>5, <2>6 DEF Framed
<1>11. Placed(i)'
  BY <1>9 DEF Placed, Active
<1>12. \A j \in Ids \ {i} : Same(j)
  BY <1>7 DEF Same, SessionInv, SessionTypeOK
<1>13. SessionInv'
  BY <1>8, <1>10, <1>11, <1>12, OthersKept DEF SessionInv
<1>14. \A j \in Ids : Conn(j)' = Conn(j) /\ Current(j)' = Current(j)
  BY <1>7 DEF Conn, Current
<1> QED BY <1>13, <1>14, ServiceStutters

\* The data of a readyRead are taken in order and at most one request of them.
LEMMA ReadyReadStep ==
    ASSUME SessionInv, NEW i \in Ids, ReadyRead(i)
    PROVE  SessionInv' /\ ServiceStep
<1>1. PICK k \in 1 .. Len(net[i]) :
         /\ net' = [net EXCEPT ![i] = Left(@, k)]
         /\ \/ Receive(i, AfterHeader(m_dataLen[i], buf[i] \o Arrived(net[i], k)))
            \/ Waits(i, AfterHeader(m_dataLen[i], buf[i] \o Arrived(net[i], k)))
  BY DEF ReadyRead
<1>2. at[i] = "loop" /\ socket[i] = "open" /\ UNCHANGED <<quit, socket, peer, sent, tx>>
  BY DEF ReadyRead
<1> QED BY <1>1, <1>2, ReceiveStep, WaitsStep

\* What is answered is the request in hand.
LEMMA SendResponseStep ==
    ASSUME SessionInv, NEW i \in Ids, SendResponse(i)
    PROVE  SessionInv' /\ ServiceStep
<1> DEFINE n == Len(tx[i])
<1>1. /\ tx[i] \in Seq(1 .. MaxReq) /\ n \in Nat /\ m_dataBuf[i] \in 0 .. MaxReq
      /\ m_dataLen[i] \in Lengths
  BY SessionTypes
<1>2. at[i] = "work" /\ socket[i] = "open" /\ m_dataBuf[i] = n + 1 /\ Framed(i)
  BY DEF SendResponse, SessionInv, Placed
<1>3. m_dataBuf[i] \in 1 .. MaxReq
  BY <1>1, <1>2, SessionAssumption
<1>4. /\ Append(tx[i], m_dataBuf[i]) \in Seq(1 .. MaxReq)
      /\ Len(Append(tx[i], m_dataBuf[i])) = n + 1
  BY <1>1, <1>3, AppendProperties
<1>5. /\ at' = [at EXCEPT ![i] = "loop"]
      /\ tx' = [tx EXCEPT ![i] = Append(tx[i], m_dataBuf[i])]
      /\ UNCHANGED <<quit, socket, buf, m_dataLen, m_dataBuf, peer, sent, net>>
  BY DEF SendResponse, OnRequest, Goes
<1>6. SessionTypeOK'
  BY <1>4, <1>5 DEF SessionInv, SessionTypeOK
<1>7. at'[i] = "loop" /\ Len(tx'[i]) = n + 1
  BY <1>4, <1>5 DEF SessionInv, SessionTypeOK
<1>8. Taken(i)' = Taken(i)
  <2>1. Taken(i) = 2 * (n + 1) + m_dataLen[i]
    BY <1>2 DEF Taken, Working
  <2>2. Taken(i)' = 2 * (n + 1 + 0) + m_dataLen[i]
    BY <1>5, <1>7 DEF Taken, Working
  <2> QED BY <1>1, <2>1, <2>2
<1>9. Framed(i)' /\ Placed(i)'
  BY <1>2, <1>5, <1>7, <1>8 DEF Framed, Placed, Active
<1>10. \A j \in Ids \ {i} : Same(j)
  BY <1>5 DEF Same, SessionInv, SessionTypeOK
<1>11. SessionInv'
  BY <1>6, <1>9, <1>10, OthersKept DEF SessionInv
<1>12. /\ Conn(i) = "open" /\ Conn(i)' = Conn(i) /\ Current(i) = m_dataBuf[i] /\ Current(i) # 0
       /\ Current(i)' = 0
  BY <1>2, <1>3, <1>5, <1>7 DEF Conn, Current
<1>13. \A j \in Ids \ {i} : Conn(j)' = Conn(j) /\ Current(j)' = Current(j)
  BY <1>10, OthersKept DEF SessionInv
<1>14. tx' = [tx EXCEPT ![i] = Append(@, Current(i))]
  BY <1>5, <1>12
<1> QED BY <1>11, <1>12, <1>13, <1>14, ServiceAnswers

\* A step that closes the socket of a session, or leaves it closed, drops the
\* connection, with the request in hand, or does nothing.
LEMMA CloseStep ==
    ASSUME SessionInv, NEW i \in Ids, socket[i] # "none", SessionTypeOK',
           socket'[i] = "closed", at'[i] \in {"started", "loop", "ending", "finished"}, tx' = tx,
           \A j \in Ids \ {i} : Same(j)
    PROVE  SessionInv' /\ ServiceStep
<1>1. Framed(i)' /\ Placed(i)'
  BY DEF Framed, Placed, Active
<1>2. SessionInv'
  BY <1>1, OthersKept DEF SessionInv
<1>3. \A j \in Ids \ {i} : Conn(j)' = Conn(j) /\ Current(j)' = Current(j)
  BY OthersKept DEF SessionInv
<1>4. Conn(i)' = "closed" /\ Current(i)' = 0
  BY DEF Conn, Current
<1>5. CASE socket[i] = "open"
  <2>1. Conn(i) = "open"
    BY <1>5 DEF Conn
  <2> QED BY <1>2, <1>3, <1>4, <2>1, ServiceDrops
<1>6. CASE socket[i] # "open"
  <2>1. socket[i] = "closed"
    BY <1>6 DEF SessionInv, SessionTypeOK
  <2>2. Conn(i)' = Conn(i) /\ Current(i)' = Current(i)
    BY <1>4, <2>1 DEF Conn, Current, SessionInv, Placed
  <2> QED BY <1>2, <1>3, <2>2, ServiceStutters
<1> QED BY <1>5, <1>6

\* A session whose thread goes from one place to another keeps its data.
LEMMA MoveStep ==
    ASSUME SessionInv, NEW i \in Ids, SessionTypeOK', Placed(i)', at[i] # "work", at'[i] # "work",
           peer'[i] # "gone" => peer[i] # "gone", UNCHANGED <<socket, buf, m_dataLen, sent, net, tx>>,
           \A j \in Ids \ {i} : Same(j)
    PROVE  SessionInv' /\ ServiceStep
<1>1. Framed(i) /\ Taken(i)' = Taken(i)
  BY DEF SessionInv, Taken, Working
<1>2. Framed(i)'
  BY <1>1 DEF Framed
<1>3. SessionInv'
  BY <1>2, OthersKept DEF SessionInv
<1>4. \A j \in Ids : Conn(j)' = Conn(j) /\ Current(j)' = Current(j)
  BY OthersKept DEF SessionInv, Conn, Current
<1> QED BY <1>3, <1>4, ServiceStutters

\* A socket that is opened has nothing in it, however much its peer has sent.
LEMMA OpenStep ==
    ASSUME SessionInv, NEW i \in Ids, SessionTypeOK', at[i] \in {"none", "queued"},
           at'[i] \in {"started", "loop"}, socket'[i] = "open",
           peer'[i] # "gone" => peer[i] # "gone", UNCHANGED <<buf, m_dataLen, sent, net, tx>>,
           \A j \in Ids \ {i} : Same(j)
    PROVE  SessionInv' /\ ServiceStep
<1>1. Framed(i) /\ Taken(i)' = Taken(i) /\ socket[i] = "none"
  BY DEF SessionInv, Placed, Taken, Working
<1>2. Framed(i)' /\ Placed(i)'
  BY <1>1 DEF Framed, Placed
<1>3. SessionInv'
  BY <1>2, OthersKept DEF SessionInv
<1>4. \A j \in Ids \ {i} : Conn(j)' = Conn(j) /\ Current(j)' = Current(j)
  BY OthersKept DEF SessionInv
<1>5. Conn(i) = "free" /\ Conn(i)' = "open" /\ Current(i)' = Current(i)
  BY <1>1 DEF Conn, Current
<1> QED BY <1>3, <1>4, <1>5, ServiceOpens

\* A step that is none of the sessions'.
LEMMA IdleStep ==
    ASSUME SessionInv, SessionTypeOK', \A j \in Ids : Same(j), tx' = tx
    PROVE  SessionInv' /\ ServiceStep
<1>1. SessionInv'
  BY OthersKept DEF SessionInv
<1>2. \A j \in Ids : Conn(j)' = Conn(j) /\ Current(j)' = Current(j)
  BY OthersKept DEF SessionInv
<1> QED BY <1>1, <1>2, ServiceStutters

\* A response that cannot be sent ends the connection.
LEMMA SendFailsStep ==
    ASSUME SessionInv, NEW i \in Ids, SendFails(i)
    PROVE  SessionInv' /\ ServiceStep
<1>1. at[i] = "work" /\ socket[i] # "none"
  BY DEF SendFails, SessionInv, Placed
<1>2. /\ at' = [at EXCEPT ![i] = "loop"] /\ socket' = [socket EXCEPT ![i] = "closed"]
      /\ buf' = [buf EXCEPT ![i] = <<>>] /\ quit' = [quit EXCEPT ![i] = TRUE]
      /\ UNCHANGED <<m_dataLen, m_dataBuf, peer, sent, net, tx>>
  BY DEF SendFails, CloseSocket, Goes, wire
<1>3. SessionTypeOK'
  BY <1>2, EmptySeq DEF SessionInv, SessionTypeOK
<1>4. socket'[i] = "closed" /\ at'[i] = "loop" /\ \A j \in Ids \ {i} : Same(j)
  BY <1>2 DEF Same, SessionInv, SessionTypeOK
<1> QED BY <1>1, <1>2, <1>3, <1>4, CloseStep

\* So does the peer's leaving.
LEMMA DisconnectedStep ==
    ASSUME SessionInv, NEW i \in Ids, Disconnected(i)
    PROVE  SessionInv' /\ ServiceStep
<1>1. at[i] = "loop" /\ socket[i] # "none"
  BY DEF Disconnected
<1>2. /\ socket' = [socket EXCEPT ![i] = "closed"]
      /\ buf' = [buf EXCEPT ![i] = <<>>] /\ quit' = [quit EXCEPT ![i] = TRUE]
      /\ UNCHANGED <<at, m_dataLen, m_dataBuf, peer, sent, net, tx>>
  BY DEF Disconnected, CloseSocket, wire
<1>3. SessionTypeOK'
  BY <1>2, EmptySeq DEF SessionInv, SessionTypeOK
<1>4. socket'[i] = "closed" /\ at'[i] = "loop" /\ \A j \in Ids \ {i} : Same(j)
  BY <1>1, <1>2 DEF Same, SessionInv, SessionTypeOK
<1> QED BY <1>1, <1>2, <1>3, <1>4, CloseStep

\* A peer sends a whole frame behind what it has sent.
LEMMA PeerSendsStep ==
    ASSUME SessionInv, NEW i \in Ids, PeerSends(i)
    PROVE  SessionInv' /\ ServiceStep
<1> DEFINE f == Frame(sent[i] + 1)
<1>1. /\ net[i] \in Seq(Cells) /\ sent[i] \in Nat /\ sent[i] + 1 \in 1 .. MaxReq
      /\ Len(buf[i]) \in Nat /\ Len(net[i]) \in Nat /\ Taken(i) \in Nat
  BY SessionTypes, SessionAssumption DEF PeerSends
<1>2. /\ sent' = [sent EXCEPT ![i] = sent[i] + 1] /\ net' = [net EXCEPT ![i] = net[i] \o f]
      /\ UNCHANGED <<at, quit, socket, buf, m_dataLen, m_dataBuf, peer, tx>>
  BY DEF PeerSends, session
<1>3. f \in Seq(Cells) /\ Len(f) = 2
  BY <1>1 DEF Frame, Cells
<1>4. net[i] \o f \in Seq(Cells) /\ Len(net[i] \o f) = Len(net[i]) + 2
  <2>1. Len(net[i] \o f) = Len(net[i]) + Len(f)
    BY <1>1, <1>3, ConcatProperties
  <2> HIDE DEF f
  <2> QED BY <1>1, <1>3, <2>1
<1>5. Reads(f, 2 * sent[i])
  <2>1. f[1] = CellAt(2 * sent[i] + 1) /\ f[2] = CellAt(2 * sent[i] + 2)
    BY <1>1, CellFacts DEF Frame
  <2> HIDE DEF f
  <2>2. \A k \in 1 .. Len(f) : k = 1 \/ k = 2
    BY <1>3
  <2> QED BY <2>1, <2>2 DEF Reads
<1> HIDE DEF f
<1>6. SessionTypeOK'
  <2>1. sent[i] + 1 \in 0 .. MaxReq
    BY <1>1
  <2> QED BY <1>2, <1>4, <2>1 DEF SessionInv, SessionTypeOK
<1>7. sent'[i] = sent[i] + 1 /\ net'[i] = net[i] \o f
  BY <1>2 DEF SessionInv, SessionTypeOK
<1>8. Taken(i)' = Taken(i)
  BY <1>2 DEF Taken, Working
<1>9. ASSUME socket[i] # "closed"
      PROVE  /\ Reads(net[i] \o f, Taken(i) + Len(buf[i]))
             /\ Taken(i) + Len(buf[i]) + (Len(net[i]) + 2) = 2 * (sent[i] + 1)
  <2>1. /\ Reads(net[i], Taken(i) + Len(buf[i]))
        /\ Taken(i) + Len(buf[i]) + Len(net[i]) = 2 * sent[i]
    BY <1>9 DEF PeerSends, SessionInv, Framed
  <2>2. Taken(i) + Len(buf[i]) \in Nat
    BY <1>1
  <2>3. Reads(net[i] \o f, Taken(i) + Len(buf[i]))
    BY <1>1, <1>3, <1>5, <2>1, <2>2, ReadsConcat
  <2>4. /\ Taken(i) \in Nat /\ Len(buf[i]) \in Nat /\ Len(net[i]) \in Nat /\ sent[i] \in Nat
        /\ Taken(i) + Len(buf[i]) + Len(net[i]) = 2 * sent[i]
    BY <1>1, <2>1
  <2>5. Taken(i) + Len(buf[i]) + (Len(net[i]) + 2) = 2 * (sent[i] + 1)
    <3>1. Taken(i) + Len(buf[i]) + (Len(net[i]) + 2) = (Taken(i) + Len(buf[i]) + Len(net[i])) + 2
      BY <2>4, FrameCounts
    <3>2. 2 * sent[i] + 2 = 2 * (sent[i] + 1)
      BY <2>4, FrameCounts
    <3> QED BY <2>4, <3>1, <3>2, Zenon
  <2> QED BY <2>3, <2>5
<1>10. Framed(i)' /\ Placed(i)'
  <2>1. Framed(i) /\ Placed(i)
    BY DEF SessionInv
  <2> QED BY <1>2, <1>4, <1>7, <1>8, <1>9, <2>1 DEF Framed, Placed, Active
<1>11. \A j \in Ids \ {i} : Same(j)
  BY <1>2 DEF Same, SessionInv, SessionTypeOK
<1>12. SessionInv'
  BY <1>6, <1>10, <1>11, OthersKept DEF SessionInv
<1>13. \A j \in Ids : Conn(j)' = Conn(j) /\ Current(j)' = Current(j)
  BY <1>2 DEF Conn, Current
<1> QED BY <1>2, <1>12, <1>13, ServiceStutters

\* A peer that leaves may take the end of what it has sent with it.
LEMMA PeerLeavesStep ==
    ASSUME SessionInv, NEW i \in Ids, PeerLeaves(i)
    PROVE  SessionInv' /\ ServiceStep
<1>1. PICK k \in 0 .. Len(net[i]) : net' = [net EXCEPT ![i] = Arrived(net[i], k)]
  BY DEF PeerLeaves
<1>2. /\ net[i] \in Seq(Cells) /\ Len(buf[i]) \in Nat /\ Taken(i) \in Nat
  BY SessionTypes
<1>3. /\ Arrived(net[i], k) \in Seq(Cells)
      /\ \A p \in Nat : Reads(net[i], p) => Reads(Arrived(net[i], k), p)
  BY <1>2, ReadsCut
<1>4. /\ peer' = [peer EXCEPT ![i] = "gone"]
      /\ UNCHANGED <<at, quit, socket, buf, m_dataLen, m_dataBuf, sent, tx>>
  BY DEF PeerLeaves, session
<1>5. SessionTypeOK'
  BY <1>1, <1>3, <1>4 DEF SessionInv, SessionTypeOK
<1>6. net'[i] = Arrived(net[i], k) /\ peer'[i] = "gone"
  BY <1>1, <1>4 DEF SessionInv, SessionTypeOK
<1>7. Framed(i) /\ Placed(i)
  BY DEF SessionInv
<1>8. Framed(i)' /\ Placed(i)'
  <2>1. Taken(i)' = Taken(i)
    BY <1>4 DEF Taken, Working
  <2>2. Taken(i) + Len(buf[i]) \in Nat
    BY <1>2
  <2>3. Framed(i)'
    BY <1>3, <1>4, <1>6, <1>7, <2>1, <2>2 DEF Framed
  <2>4. Placed(i)'
    BY <1>4, <1>7 DEF Placed, Active, PeerLeaves
  <2> QED BY <2>3, <2>4
<1>9. \A j \in Ids \ {i} : Same(j)
  BY <1>1, <1>4 DEF Same, SessionInv, SessionTypeOK
<1>10. SessionInv'
  BY <1>5, <1>8, <1>9, OthersKept DEF SessionInv
<1>11. \A j \in Ids : Conn(j)' = Conn(j) /\ Current(j)' = Current(j)
  BY <1>4 DEF Conn, Current
<1> QED BY <1>4, <1>10, <1>11, ServiceStutters

(***************************************************************************)
(* Sums.  The community modules' fold is a recursive function on the       *)
(* subsets of the set, which removes a chosen element at a time.           *)
(***************************************************************************)
First(s) == CHOOSE x \in s : TRUE

Sums(f, g, S) ==
    g = [s \in SUBSET S |-> IF s = {} THEN 0 ELSE f[First(s)] + g[s \ {First(s)}]]

\* What holds of a set whenever it holds of its strict subsets holds of every
\* finite set.
LEMMA SubsetInduction ==
  ASSUME NEW S, IsFiniteSet(S), NEW B,
         \A T \in SUBSET S : (\A U \in SUBSET T : U # T => U \in B) => T \in B
  PROVE  S \in B
<1> SUFFICES ASSUME S \notin B PROVE FALSE
  OBVIOUS
<1> DEFINE C == {T \in SUBSET S : T \notin B}
<1>1. IsWellFoundedOn(StrictSubsetOrdering(S), SUBSET S)
  <2>1. FiniteSubsetsOf(S) = SUBSET S
    BY FS_FiniteSubsetsOfFinite
  <2>2. IsWellFoundedOn(StrictSubsetOrdering(S), FiniteSubsetsOf(S))
    BY FS_StrictSubsetOrderingWellFounded
  <2> QED BY <2>1, <2>2
<1>2. \E T \in C : \A U \in C : <<U, T>> \notin StrictSubsetOrdering(S)
  <2>1. C \subseteq SUBSET S /\ C # {}
    OBVIOUS
  <2> HIDE DEF C
  <2> QED BY <1>1, <2>1, WFMin
<1>3. PICK T \in C : \A U \in C : <<U, T>> \notin StrictSubsetOrdering(S)
  BY <1>2
<1>4. \A U \in SUBSET T : U # T => U \in B
  BY <1>3 DEF StrictSubsetOrdering
<1> QED BY <1>3, <1>4

\* The chosen element is one of the set's.
LEMMA FirstIn ==
  ASSUME NEW s, s # {}
  PROVE  First(s) \in s
BY DEF First

\* What such a function says of a set.
LEMMA SumsValue ==
  ASSUME NEW f, NEW g, NEW S, Sums(f, g, S), NEW s \in SUBSET S
  PROVE  /\ s = {} => g[s] = 0
         /\ s # {} => g[s] = f[First(s)] + g[s \ {First(s)}]
BY DEF Sums

\* No two functions are the sums over the subsets of a finite set.
LEMMA SumsUnique ==
  ASSUME NEW f, NEW g, NEW h, NEW S, IsFiniteSet(S), Sums(f, g, S), Sums(f, h, S)
  PROVE  g = h
<1> DEFINE B == {T \in SUBSET S : g[T] = h[T]}
<1>1. ASSUME NEW T \in SUBSET S PROVE T \in B
  <2>1. ASSUME NEW V \in SUBSET T, \A U \in SUBSET V : U # V => U \in B
        PROVE  V \in B
    <3>1. CASE V = {}
      BY <3>1 DEF Sums
    <3>2. CASE V # {}
      <4>1. First(V) \in V
        BY <3>2, FirstIn
      <4>2. g[V \ {First(V)}] = h[V \ {First(V)}]
        BY <2>1, <4>1
      <4>3. g[V] = f[First(V)] + g[V \ {First(V)}]
        BY <3>2 DEF Sums
      <4>4. h[V] = f[First(V)] + h[V \ {First(V)}]
        BY <3>2 DEF Sums
      <4> QED BY <4>2, <4>3, <4>4
    <3> QED BY <3>1, <3>2
  <2>2. IsFiniteSet(T)
    BY FS_Subset
  <2> HIDE DEF B
  <2> QED BY <2>1, <2>2, SubsetInduction
<1>2. g = [s \in SUBSET S |-> g[s]] /\ h = [s \in SUBSET S |-> h[s]]
  BY DEF Sums
<1> QED BY <1>1, <1>2

\* The sums over the subsets of a set contain those over the subsets of its
\* subsets.
LEMMA SumsRestricted ==
  ASSUME NEW f, NEW g, NEW S, Sums(f, g, S), NEW T \in SUBSET S
  PROVE  Sums(f, [s \in SUBSET T |-> g[s]], T)
<1>1. ASSUME NEW s \in SUBSET T
      PROVE g[s] = IF s = {} THEN 0 ELSE f[First(s)] + [u \in SUBSET T |-> g[u]][s \ {First(s)}]
  BY DEF Sums
<1> QED BY <1>1 DEF Sums

\* There are such functions.
LEMMA SumsExist ==
  ASSUME NEW f, NEW S, IsFiniteSet(S)
  PROVE  \E g : Sums(f, g, S)
<1> DEFINE B == {T \in SUBSET S : \E g : Sums(f, g, T)}
<1>1. ASSUME NEW T \in SUBSET S, \A U \in SUBSET T : U # T => U \in B
      PROVE  T \in B
  <2> DEFINE R(s) == s \ {First(s)}
  <2>1. \A u \in SUBSET T : u # {} => R(u) \in SUBSET u /\ R(u) # u /\ R(u) # T /\ R(u) \in SUBSET T
    BY FirstIn
  <2> HIDE DEF R
  <2>2. \A u \in SUBSET T : u # T => \E g : Sums(f, g, u)
    BY <1>1
  <2>3. PICK G : G = [u \in SUBSET T |-> CHOOSE g : Sums(f, g, u)]
    OBVIOUS
  <2>4. ASSUME NEW u \in SUBSET T, u # T PROVE Sums(f, G[u], u)
    BY <2>2, <2>3, <2>4
  <2>5. PICK g : g = [s \in SUBSET T |-> IF s = {} THEN 0 ELSE f[First(s)] + G[R(s)][R(s)]]
    OBVIOUS
  <2>6. ASSUME NEW u \in SUBSET T, u # T PROVE g[u] = G[u][u]
    <3>1. Sums(f, G[u], u)
      BY <2>4, <2>6
    <3>2. CASE u = {}
      <4>1. g[u] = 0
        BY <2>5, <3>2
      <4>2. G[u][u] = 0
        BY <3>1, <3>2, SumsValue
      <4> QED BY <4>1, <4>2
    <3>3. CASE u # {}
      <4>1. R(u) \in SUBSET u /\ R(u) # T /\ R(u) \in SUBSET T /\ IsFiniteSet(R(u))
        BY <2>1, <3>3, FS_Subset
      <4>2. Sums(f, [s \in SUBSET R(u) |-> G[u][s]], R(u)) /\ Sums(f, G[R(u)], R(u))
        BY <2>4, <3>1, <4>1, SumsRestricted
      <4>3. [s \in SUBSET R(u) |-> G[u][s]] = G[R(u)]
        BY <4>1, <4>2, SumsUnique
      <4>4. G[R(u)][R(u)] = G[u][R(u)]
        BY <4>3
      <4>5. G[u][u] = f[First(u)] + G[u][R(u)]
        BY <3>1, <3>3, SumsValue DEF R
      <4>6. g[u] = f[First(u)] + G[R(u)][R(u)]
        BY <2>5, <3>3
      <4> QED BY <4>4, <4>5, <4>6
    <3> QED BY <3>2, <3>3
  <2>7. ASSUME NEW s \in SUBSET T, s # {} PROVE g[s] = f[First(s)] + g[R(s)]
    <3>1. g[s] = f[First(s)] + G[R(s)][R(s)]
      BY <2>5, <2>7
    <3>2. g[R(s)] = G[R(s)][R(s)]
      BY <2>1, <2>6, <2>7
    <3> QED BY <3>1, <3>2
  <2>8. Sums(f, g, T)
    BY <2>5, <2>7 DEF Sums, R
  <2> QED BY <2>8
<1> HIDE DEF B
<1>2. S \in B
  BY <1>1, SubsetInduction
<1> QED BY <1>2 DEF B

\* The fold is the value of the sums at the whole set.
LEMMA SumIsFold ==
  ASSUME NEW f, NEW S
  PROVE  SumOver(f, S) = (CHOOSE g : Sums(f, g, S))[S]
BY DEF SumOver, MapThenSumSet, MapThenFoldSet, Sums, First

\* A sum over no elements.
LEMMA SumEmpty ==
  ASSUME NEW f
  PROVE  SumOver(f, {}) = 0
<1>1. PICK g : g = CHOOSE h : Sums(f, h, {})
  OBVIOUS
<1>2. Sums(f, g, {})
  BY <1>1, SumsExist, FS_EmptySet
<1> QED BY <1>1, <1>2, SumIsFold, SumsValue

\* A sum over some elements: the chosen one's share, and the rest's.
LEMMA SumFirst ==
  ASSUME NEW f, NEW S, IsFiniteSet(S), S # {}
  PROVE  SumOver(f, S) = f[First(S)] + SumOver(f, S \ {First(S)})
<1>1. PICK T : T = S \ {First(S)}
  OBVIOUS
<1>2. T \in SUBSET S /\ IsFiniteSet(T)
  BY <1>1, FS_Subset
<1>3. PICK g : g = CHOOSE x : Sums(f, x, S)
  OBVIOUS
<1>4. PICK h : h = CHOOSE x : Sums(f, x, T)
  OBVIOUS
<1>5. Sums(f, g, S) /\ Sums(f, h, T)
  BY <1>2, <1>3, <1>4, SumsExist
<1>6. [s \in SUBSET T |-> g[s]] = h
  BY <1>2, <1>5, SumsRestricted, SumsUnique
<1>7. g[T] = h[T]
  BY <1>6
<1>8. g[S] = f[First(S)] + g[T]
  BY <1>1, <1>5, SumsValue
<1>9. SumOver(f, S) = g[S] /\ SumOver(f, T) = h[T]
  BY <1>3, <1>4, SumIsFold
<1> QED BY <1>1, <1>7, <1>8, <1>9

\* A sum of naturals is a natural.
LEMMA SumType ==
  ASSUME NEW f, NEW S, IsFiniteSet(S), \A x \in S : f[x] \in Nat
  PROVE  SumOver(f, S) \in Nat
<1> DEFINE B == {T \in SUBSET S : SumOver(f, T) \in Nat}
<1>1. ASSUME NEW T \in SUBSET S, \A U \in SUBSET T : U # T => U \in B
      PROVE  T \in B
  <2>1. CASE T = {}
    BY <2>1, SumEmpty
  <2>2. CASE T # {}
    <3>1. First(T) \in T
      BY <2>2, FirstIn
    <3>2. SumOver(f, T) = f[First(T)] + SumOver(f, T \ {First(T)})
      BY <2>2, SumFirst, FS_Subset
    <3>3. SumOver(f, T \ {First(T)}) \in Nat
      BY <1>1, <3>1
    <3> QED BY <3>1, <3>2, <3>3
  <2> QED BY <2>1, <2>2
<1> HIDE DEF B
<1>2. S \in B
  BY <1>1, SubsetInduction
<1> QED BY <1>2 DEF B

\* Any element may be the one that is removed, whichever the fold takes first.
LEMMA SumRemove ==
  ASSUME NEW f, NEW S, IsFiniteSet(S), \A x \in S : f[x] \in Nat, NEW a \in S
  PROVE  SumOver(f, S) = f[a] + SumOver(f, S \ {a})
<1> DEFINE B == {T \in SUBSET S : \A x \in T : SumOver(f, T) = f[x] + SumOver(f, T \ {x})}
<1>1. ASSUME NEW T \in SUBSET S, \A U \in SUBSET T : U # T => U \in B
      PROVE  T \in B
  <2>1. ASSUME NEW x \in T PROVE SumOver(f, T) = f[x] + SumOver(f, T \ {x})
    <3>1. PICK y : y = First(T)
      OBVIOUS
    <3>2. y \in T /\ SumOver(f, T) = f[y] + SumOver(f, T \ {y})
      BY <3>1, FirstIn, SumFirst, FS_Subset
    <3>3. CASE x # y
      <4>1. SumOver(f, T \ {y}) = f[x] + SumOver(f, (T \ {y}) \ {x})
        BY <1>1, <3>2, <3>3
      <4>2. SumOver(f, T \ {x}) = f[y] + SumOver(f, (T \ {x}) \ {y})
        BY <1>1, <3>2, <3>3
      <4>3. PICK U : U = (T \ {y}) \ {x}
        OBVIOUS
      <4>4. U = (T \ {x}) \ {y}
        BY <4>3
      <4>5. SumOver(f, U) \in Nat
        BY <4>3, SumType, FS_Subset
      <4>6. f[x] \in Nat /\ f[y] \in Nat
        BY <3>2
      <4> QED BY <3>2, <4>1, <4>2, <4>3, <4>4, <4>5, <4>6
    <3> QED BY <3>2, <3>3
  <2> QED BY <2>1
<1> HIDE DEF B
<1>2. S \in B
  BY <1>1, SubsetInduction
<1> QED BY <1>2 DEF B

\* A sum looks at its elements only.
LEMMA SumSame ==
  ASSUME NEW f, NEW g, NEW S, IsFiniteSet(S), \A x \in S : f[x] = g[x]
  PROVE  SumOver(f, S) = SumOver(g, S)
<1> DEFINE B == {T \in SUBSET S : SumOver(f, T) = SumOver(g, T)}
<1>1. ASSUME NEW T \in SUBSET S, \A U \in SUBSET T : U # T => U \in B
      PROVE  T \in B
  <2>1. CASE T = {}
    BY <2>1, SumEmpty
  <2>2. CASE T # {}
    <3>1. First(T) \in T /\ IsFiniteSet(T)
      BY <2>2, FirstIn, FS_Subset
    <3>2. SumOver(f, T) = f[First(T)] + SumOver(f, T \ {First(T)})
      BY <2>2, <3>1, SumFirst
    <3>3. SumOver(g, T) = g[First(T)] + SumOver(g, T \ {First(T)})
      BY <2>2, <3>1, SumFirst
    <3>4. SumOver(f, T \ {First(T)}) = SumOver(g, T \ {First(T)})
      BY <1>1, <3>1
    <3> QED BY <3>1, <3>2, <3>3, <3>4
  <2> QED BY <2>1, <2>2
<1> HIDE DEF B
<1>2. S \in B
  BY <1>1, SubsetInduction
<1> QED BY <1>2 DEF B

\* An element that joins adds its share.
LEMMA SumAdd ==
  ASSUME NEW f, NEW S, NEW a, IsFiniteSet(S), a \notin S, \A x \in S \cup {a} : f[x] \in Nat
  PROVE  SumOver(f, S \cup {a}) = SumOver(f, S) + f[a]
<1>1. PICK T : T = S \cup {a}
  OBVIOUS
<1>2. IsFiniteSet(T)
  BY <1>1, FS_AddElement
<1>3. T \ {a} = S /\ a \in T
  BY <1>1
<1>4. SumOver(f, T) = f[a] + SumOver(f, S)
  BY <1>1, <1>2, <1>3, SumRemove
<1>5. SumOver(f, S) \in Nat /\ f[a] \in Nat
  BY SumType
<1> QED BY <1>1, <1>4, <1>5

\* Elements that add nothing may be left out.
LEMMA SumWithoutZeros ==
  ASSUME NEW f, NEW S, NEW Z \in SUBSET S, IsFiniteSet(S), \A x \in S : f[x] \in Nat,
         \A x \in S \ Z : f[x] = 0
  PROVE  SumOver(f, S) = SumOver(f, Z)
<1> DEFINE B == {T \in SUBSET S : SumOver(f, T) = SumOver(f, T \cap Z)}
<1>1. ASSUME NEW T \in SUBSET S, \A U \in SUBSET T : U # T => U \in B
      PROVE  T \in B
  <2>1. CASE T = {}
    BY <2>1
  <2>2. CASE T # {}
    <3>1. PICK x : x = First(T)
      OBVIOUS
    <3>2. PICK U : U = T \ {x}
      OBVIOUS
    <3>3. x \in T /\ U \in SUBSET T /\ U # T /\ IsFiniteSet(T) /\ IsFiniteSet(U \cap Z)
      BY <2>2, <3>1, <3>2, FirstIn, FS_Subset
    <3>4. SumOver(f, T) = f[x] + SumOver(f, U)
      BY <2>2, <3>1, <3>2, <3>3, SumFirst
    <3>5. SumOver(f, U) = SumOver(f, U \cap Z)
      BY <1>1, <3>3
    <3>6. SumOver(f, U \cap Z) \in Nat
      BY <3>3, SumType
    <3>7. SumOver(f, T \cap Z) = f[x] + SumOver(f, U \cap Z)
      <4>1. CASE x \in Z
        <5>1. (T \cap Z) \ {x} = U \cap Z /\ x \in T \cap Z /\ IsFiniteSet(T \cap Z)
          BY <3>2, <3>3, <4>1, FS_Subset
        <5> QED BY <5>1, SumRemove
      <4>2. CASE x \notin Z
        <5>1. T \cap Z = U \cap Z /\ f[x] = 0
          BY <3>2, <3>3, <4>2
        <5>2. SumOver(f, T \cap Z) = SumOver(f, U \cap Z)
          BY <5>1
        <5> QED BY <3>6, <5>1, <5>2
      <4> QED BY <4>1, <4>2
    <3> QED BY <3>4, <3>5, <3>7
  <2> QED BY <2>1, <2>2
<1> HIDE DEF B
<1>2. S \in B
  BY <1>1, SubsetInduction
<1>3. S \cap Z = Z
  OBVIOUS
<1> QED BY <1>2, <1>3 DEF B
=============================================================================

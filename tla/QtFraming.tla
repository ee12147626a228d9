------------------------------ MODULE QtFraming ------------------------------
(***************************************************************************)
(* How the Qt programs cut frames out of the bytes of a socket: the common *)
(* first half of receiveRequest, onReadyRead and receiveResponse.          *)
(*                                                                         *)
(* A frame is two cells, its length and its body.  A body is of length 1;  *)
(* the bytes of a body that are taken for a length make a number no socket *)
(* will ever hold, Garbage.                                                *)
(***************************************************************************)
EXTENDS Naturals, Sequences

Garbage == 2
Lengths == {0, 1, Garbage}

Frame(job) == <<[t |-> "len", job |-> job], [t |-> "body", job |-> job]>>

LengthIn(cell) == IF cell.t = "len" THEN 1 ELSE Garbage

\* The length is read when none is pending and the data allow it.
AfterHeader(len, data) ==
    IF len = 0 /\ data # <<>>
    THEN [len |-> LengthIn(Head(data)), rest |-> Tail(data)]
    ELSE [len |-> len, rest |-> data]

HasFrame(h) == h.len = 1 /\ h.rest # <<>>

\* The data of a socket that arrive at once, and what is left on the wire.
Arrived(wire, k) == SubSeq(wire, 1, k)
Left(wire, k)    == SubSeq(wire, k + 1, Len(wire))
=============================================================================

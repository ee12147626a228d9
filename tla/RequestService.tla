---------------------------- MODULE RequestService ----------------------------
(***************************************************************************)
(* What the servers of this repository promise on each connection: the     *)
(* requests are taken one at a time, in the order the peer sent them, each *)
(* is answered before the next is taken, and when the connection is        *)
(* dropped the request in hand, and only that one, is abandoned.           *)
(***************************************************************************)
EXTENDS Naturals, Sequences

CONSTANT Conns

VARIABLES
    conn,      \* "free" until the connection is made, "closed" for ever after
    current,   \* the request being served, 0 when there is none
    answers    \* the requests answered, in order

svars == <<conn, current, answers>>

SInit ==
    /\ conn = [c \in Conns |-> "free"]
    /\ current = [c \in Conns |-> 0]
    /\ answers = [c \in Conns |-> <<>>]

Open(c) ==
    /\ conn[c] = "free"
    /\ conn' = [conn EXCEPT ![c] = "open"]
    /\ UNCHANGED <<current, answers>>

Take(c) ==
    /\ conn[c] = "open" /\ current[c] = 0
    /\ current' = [current EXCEPT ![c] = Len(answers[c]) + 1]
    /\ UNCHANGED <<conn, answers>>

Answer(c) ==
    /\ conn[c] = "open" /\ current[c] # 0
    /\ answers' = [answers EXCEPT ![c] = Append(@, current[c])]
    /\ current' = [current EXCEPT ![c] = 0]
    /\ UNCHANGED conn

Drop(c) ==
    /\ conn[c] = "open"
    /\ conn' = [conn EXCEPT ![c] = "closed"]
    /\ current' = [current EXCEPT ![c] = 0]
    /\ UNCHANGED answers

SNext == \E c \in Conns : Open(c) \/ Take(c) \/ Answer(c) \/ Drop(c)

SSpec == SInit /\ [][SNext]_svars
=============================================================================

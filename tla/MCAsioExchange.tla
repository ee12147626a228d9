--------------------------- MODULE MCAsioExchange ---------------------------
(***************************************************************************)
(* TLC instance of AsioExchange.  The second of two clients only has to    *)
(* stand in the queue of the first: it runs one that reads in main() or    *)
(* one that reads on its other thread.                                     *)
(***************************************************************************)
EXTENDS AsioExchange

CONSTANT Second

MCInit == Init /\ program[Second] \in {asio12Client, asio13Client}

MCSpec == MCInit /\ [][Next]_vars /\ Fairness
=============================================================================

--------------------------- MODULE MCBmAsioServer ---------------------------
(***************************************************************************)
(* TLC instances of BmAsioServer.                                          *)
(***************************************************************************)
EXTENDS BmAsioServer, TLC

ThreadSymmetry == Permutations(Threads)
=============================================================================

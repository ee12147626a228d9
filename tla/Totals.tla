------------------------------- MODULE Totals -------------------------------
(***************************************************************************)
(* Totals over the sessions of a server: what the benchmark's programs     *)
(* print, and what they are held against.                                  *)
(***************************************************************************)
EXTENDS FiniteSetsExt

SumOver(f, S) == MapThenSumSet(LAMBDA i : f[i], S)
=============================================================================

--------------------------- MODULE MCRealtimeBridge ---------------------------
(***************************************************************************)
(* Small instances of the bridge for TLC.                                  *)
(***************************************************************************)
EXTENDS RealtimeBridge, TLC

\* Processes are not interchangeable when only some of them may stop
Interchangeable == Permutations(Clients) \cup Permutations(Requests)
=============================================================================

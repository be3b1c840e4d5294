---------------------------- MODULE MCHeartbeatLease ----------------------------
(***************************************************************************)
(* The heartbeat with small times.  They keep what the constants of the    *)
(* code have in common with a round of at most 5s: heartbeatInterval 30s,  *)
(* jitter up to 5s and that round add up to exactly heartbeatTTL 40s.      *)
(***************************************************************************)
EXTENDS HeartbeatLease
=============================================================================

--------------------------- MODULE MCBridgeDelivery ---------------------------
(***************************************************************************)
(* A small instance of the bridge with its messages for TLC.               *)
(***************************************************************************)
EXTENDS BridgeDelivery, TLC

Interchangeable == Permutations(Instances) \cup Permutations(Clients) \cup Permutations(Requests)
=============================================================================

---------------------------- MODULE MCOfflineDrain ----------------------------
(* The worker's recovery and the offline drain over one store, for TLC. *)
EXTENDS OfflineDrain
=============================================================================

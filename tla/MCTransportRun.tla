----------------------------- MODULE MCTransportRun -----------------------------
(* One run of the adapter; its constants are given in the configuration. *)
EXTENDS TransportRun
=============================================================================

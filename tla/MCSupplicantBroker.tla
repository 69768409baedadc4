------------------------ MODULE MCSupplicantBroker -------------------------
(* SupplicantBroker for TLC; the constants are given in the configurations. *)
EXTENDS SupplicantBroker
=============================================================================

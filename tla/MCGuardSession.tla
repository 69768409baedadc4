--------------------------- MODULE MCGuardSession ---------------------------
(* The instances of GuardSession are given by the configurations alone. *)
EXTENDS GuardSession
=============================================================================

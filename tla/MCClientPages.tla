------------------------------ MODULE MCClientPages ------------------------------
(* ClientPages for TLC. *)
EXTENDS ClientPages
=============================================================================

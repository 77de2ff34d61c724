-------------------------------- MODULE MCApiGate --------------------------------
(* ApiGate for TLC: the addresses are interchangeable. *)
EXTENDS ApiGate, TLC

SameHosts == Permutations(Hosts)
=============================================================================

---------------------------- MODULE MCRelayRequest ----------------------------
(* A request delivered up to twice, to two sessions that run it in         *)
(* different ways; see the configurations.                                 *)
EXTENDS RelayRequest

CONSTANTS d1, d2
=============================================================================

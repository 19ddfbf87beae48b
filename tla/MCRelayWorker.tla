---------------------------- MODULE MCRelayWorker ----------------------------
(* Two worker sessions that may run two handlers each, on a client that    *)
(* admits two requests and has one poll in flight; see the configurations. *)
EXTENDS RelayWorker

CONSTANTS w1, w2
=============================================================================

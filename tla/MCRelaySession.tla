---------------------------- MODULE MCRelaySession ----------------------------
(* Two sessions of the same rollout on one client, the first of them with  *)
(* a worker loop, and a caller that unregisters the rollout by the token   *)
(* that the client remembers.                                              *)
EXTENDS SyncRelayWorker

CONSTANTS s1, s2
=============================================================================

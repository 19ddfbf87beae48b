----------------------------- MODULE MCGroupCreate -----------------------------
(* A group of three members, created on either client.                     *)
EXTENDS GroupCreate

CONSTANTS m1, m2, m3
=============================================================================

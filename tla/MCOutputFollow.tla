--------------------------- MODULE MCOutputFollow ---------------------------
EXTENDS ProcessInput

(* Three pieces of output in pages of two, so that the last page comes     *)
(* after a full one; a process that is fed three pieces through pipes that *)
(* hold one; and an adapter with two writes beside a short output.       *)
FollowCases ==
    [reader : Readers, gateway : {"new", "old"}, bound : {3}, input : {0}]
    \cup [reader : {"wait"}, gateway : {"new"}, bound : {3}, input : {3}]
    \cup [reader : {"events"}, gateway : {"new"}, bound : {1}, input : {2}]
=============================================================================

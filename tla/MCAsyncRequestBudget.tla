------------------------- MODULE MCAsyncRequestBudget -------------------------
(* Two sessions share two permits; w1 has three calls.                     *)
EXTENDS AsyncRequestBudget, TLC

CONSTANTS c1, c2, c3, c4, w1, w2

MCCall == {c1, c2, c3, c4}

MCOwner == (c1 :> w1) @@ (c2 :> w1) @@ (c3 :> w1) @@ (c4 :> w2)
=============================================================================

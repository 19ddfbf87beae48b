--------------------------- MODULE MCInspectSample ---------------------------
EXTENDS InspectSample, TLC

CONSTANTS s1, s2

(* The first sample can submit its build again, the second only once.      *)
Submits == s1 :> 2 @@ s2 :> 1
Entries == {<<s1, 1>>, <<s1, 2>>, <<s2, 1>>}
=============================================================================

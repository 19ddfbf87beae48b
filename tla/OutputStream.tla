----------------------------- MODULE OutputStream -----------------------------
(***************************************************************************)
(* What every way to read the output of a process promises: the reader is  *)
(* handed the pieces in the order in which they were written, each once    *)
(* and without a gap, and it is told that the output is complete only when *)
(* it has all that was written before the process exited.  Descendants of  *)
(* the process may go on writing after that.                               *)
(***************************************************************************)
EXTENDS Naturals, Sequences

CONSTANT None

VARIABLES written,    (* pieces written so far, named by their position    *)
          owed,       (* how many there were when the process exited       *)
          out,        (* the pieces handed out                             *)
          reader      (* open, ended or failed                             *)

vars == <<written, owed, out, reader>>

Init ==
    /\ written = 0
    /\ owed = None
    /\ out = <<>>
    /\ reader = "open"

Write ==
    /\ written' = written + 1
    /\ UNCHANGED <<owed, out, reader>>

Exit ==
    /\ owed = None
    /\ owed' = written
    /\ UNCHANGED <<written, out, reader>>

(* The reader gets more of the output, all of it together or piece by      *)
(* piece, and may learn at the same time that it is complete.              *)
HandOut ==
    /\ reader = "open"
    /\ \E n \in Len(out)..written :
          /\ out' = [i \in 1..n |-> i]
          /\ reader' = "open" \/ (reader' = "ended" /\ owed # None /\ n >= owed)
    /\ UNCHANGED <<written, owed>>

(* It learns that it will not get the rest.                                *)
Fail ==
    /\ reader = "open"
    /\ reader' = "failed"
    /\ UNCHANGED <<written, owed, out>>

Next == Write \/ Exit \/ HandOut \/ Fail

Spec == Init /\ [][Next]_vars
=============================================================================

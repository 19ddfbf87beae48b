---------------------------- MODULE FifoAdmission ----------------------------
(***************************************************************************)
(* What a request budget promises its callers, whatever it is built from:  *)
(* at most Capacity calls hold a permit, and no call is admitted while one *)
(* that asked earlier is still waiting.                                    *)
(*                                                                         *)
(* Arrival order is the relation "ahead": ahead[c] is the set of the calls *)
(* still waiting that asked before c.  A step may also admit waiting calls,*)
(* so that a budget that grants eagerly (inside the releasing call) and one*)
(* that grants lazily (when the waiter looks) both implement it.           *)
(***************************************************************************)
EXTENDS Naturals, FiniteSets

CONSTANTS Call,       (* the calls of acquire                              *)
          Capacity    (* how many of them may hold a permit                *)

VARIABLES waiting,    (* calls that asked and have no answer yet           *)
          ahead,      (* who is in front of whom                           *)
          holding     (* calls that own a permit                           *)

vars == <<waiting, ahead, holding>>

Init ==
    /\ waiting = {}
    /\ ahead = [c \in Call |-> {}]
    /\ holding = {}

(***************************************************************************)
(* From the waiting set W, the order A and the holders H, admit a set of   *)
(* calls that is closed under "asked before" and fits in the capacity.     *)
(***************************************************************************)
Settle(W, A, H) ==
    \E admitted \in SUBSET W :
        /\ \A c \in admitted : A[c] \subseteq admitted
        /\ Cardinality(H \cup admitted) <= Capacity
        /\ waiting' = W \ admitted
        /\ holding' = H \cup admitted
        /\ ahead' = [c \in Call |-> IF c \in W \ admitted
                                    THEN A[c] \ admitted ELSE {}]

(* A call joins at the back.                                               *)
Join(c) ==
    /\ c \notin waiting \cup holding
    /\ Settle(waiting \cup {c}, [ahead EXCEPT ![c] = waiting], holding)

(* A waiting call gives up: nobody is behind it any more.                  *)
Leave(c) ==
    /\ c \in waiting
    /\ Settle(waiting \ {c}, [d \in Call |-> ahead[d] \ {c}], holding)

(* A holder returns its permit.                                            *)
Return(c) ==
    /\ c \in holding
    /\ Settle(waiting, ahead, holding \ {c})

(* Calls are admitted by a step that does nothing else.                    *)
Admit == Settle(waiting, ahead, holding)

Next ==
    \/ \E c \in Call : Join(c) \/ Leave(c) \/ Return(c)
    \/ Admit

Spec == Init /\ [][Next]_vars
=============================================================================

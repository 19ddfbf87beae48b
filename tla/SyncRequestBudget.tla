-------------------------- MODULE SyncRequestBudget --------------------------
(***************************************************************************)
(* The thread budget shared by every worker session of one synchronous     *)
(* client (_relay_admission.py, SyncRequestBudget).                        *)
(*                                                                         *)
(* Every step is one critical section of self.condition: from entering it, *)
(* or waking in it, to condition.wait(.05) or to leaving it.  The wait is  *)
(* timed, so that a waiting thread looks again whether or not anybody      *)
(* notified it; a stop event is set outside the lock and notifies nobody.  *)
(***************************************************************************)
EXTENDS Naturals, Sequences, FiniteSets

CONSTANTS Call,        (* threads that may call acquire                    *)
          Worker,      (* worker sessions; each has one stop event         *)
          Owner,       (* the session on whose stop event a call looks     *)
          Capacity     (* permits: max_inflight_requests                   *)

ASSUME SyncCallAssumption     == IsFiniteSet(Call)
ASSUME SyncOwnerAssumption    == Owner \in [Call -> Worker]
ASSUME SyncCapacityAssumption == Capacity \in Nat \ {0}

VARIABLES available,   (* self.available                                   *)
          waiters,     (* self.waiters, oldest first: one ticket per call  *)
          pc,          (* idle, waiting in the condition, or holding       *)
          stop         (* sessions whose stop event is set                 *)

vars == <<available, waiters, pc, stop>>

Held == {c \in Call : pc[c] = "held"}

TypeOK ==
    /\ available \in Nat
    /\ waiters \in Seq(Call)
    /\ pc \in [Call -> {"idle", "waiting", "held"}]
    /\ stop \in SUBSET Worker

Init ==
    /\ available = Capacity
    /\ waiters = <<>>
    /\ pc = [c \in Call |-> "idle"]
    /\ stop = {}
-----------------------------------------------------------------------------
(* waiters' is q without the ticket of c (self.waiters.remove).            *)
Dequeue(q, c) ==
    \E i \in 1..Len(q) :
        /\ q[i] = c
        /\ waiters' = [k \in 1..(Len(q) - 1) |-> q[IF k < i THEN k ELSE k + 1]]

(* Variants of the three turns with a bug.                                 *)
StopTurnWhenFirst(c, q) ==
    /\ Owner[c] \in stop
    /\ Head(q) = c
    /\ pc' = [pc EXCEPT ![c] = "idle"]
    /\ Dequeue(q, c)
    /\ UNCHANGED available

GrantTurnUnordered(c, q) ==
    /\ Owner[c] \notin stop
    /\ available > 0
    /\ available' = available - 1
    /\ pc' = [pc EXCEPT ![c] = "held"]
    /\ Dequeue(q, c)

GrantTurnNewestFirst(c, q) ==
    /\ Owner[c] \notin stop
    /\ q[Len(q)] = c
    /\ available > 0
    /\ available' = available - 1
    /\ pc' = [pc EXCEPT ![c] = "held"]
    /\ Dequeue(q, c)

(***************************************************************************)
(* One turn of the while loop of acquire, with the tickets q in the deque. *)
(* The stop event is read first: a stopped call leaves without a permit    *)
(* even when it is first and one is free.                                  *)
(***************************************************************************)
StopTurn(c, q) ==
    /\ Owner[c] \in stop
    /\ pc' = [pc EXCEPT ![c] = "idle"]
    /\ Dequeue(q, c)
    /\ UNCHANGED available

GrantTurn(c, q) ==
    /\ Owner[c] \notin stop
    /\ Head(q) = c
    /\ available > 0
    /\ available' = available - 1
    /\ pc' = [pc EXCEPT ![c] = "held"]
    /\ Dequeue(q, c)

WaitTurn(c, q) ==
    /\ Owner[c] \notin stop
    /\ Head(q) # c \/ available = 0
    /\ pc' = [pc EXCEPT ![c] = "waiting"]
    /\ waiters' = q
    /\ UNCHANGED available

Turn(c, q) == StopTurn(c, q) \/ GrantTurn(c, q) \/ WaitTurn(c, q)

(* acquire enters the lock, queues its ticket and takes a first turn.      *)
Acquire(c) ==
    /\ pc[c] = "idle"
    /\ Turn(c, Append(waiters, c))
    /\ UNCHANGED stop

(* condition.wait returns, notified or after 50 ms.                        *)
Wake(c) ==
    /\ pc[c] = "waiting"
    /\ Turn(c, waiters)
    /\ UNCHANGED stop

(* A variant of release with a bug: it drops the permit.                   *)
ReleaseDropped(c) ==
    /\ pc[c] = "held"
    /\ pc' = [pc EXCEPT ![c] = "idle"]
    /\ UNCHANGED <<available, waiters, stop>>

(* The owner of a permit calls release.                                    *)
Release(c) ==
    /\ pc[c] = "held"
    /\ pc' = [pc EXCEPT ![c] = "idle"]
    /\ available' = available + 1
    /\ UNCHANGED <<waiters, stop>>

SetStop(w) ==
    /\ w \notin stop
    /\ stop' = stop \cup {w}
    /\ UNCHANGED <<available, waiters, pc>>

Next ==
    \/ \E c \in Call : Acquire(c) \/ Wake(c) \/ Release(c)
    \/ \E w \in Worker : SetStop(w)

(* Timed waits expire and the lock is free between them, so that each      *)
(* waiting thread keeps taking turns; nothing makes a caller release.      *)
Fairness == \A c \in Call : WF_vars(Wake(c))

Spec == Init /\ [][Next]_vars /\ Fairness
-----------------------------------------------------------------------------
(* Every permit is available or held by one thread.                        *)
PermitsConserved == available = Capacity - Cardinality(Held)

InFront(q, c) ==
    {d \in Call : \E i, j \in 1..Len(q) : i < j /\ q[i] = d /\ q[j] = c}

Fifo == INSTANCE FifoAdmission WITH
            waiting <- {c \in Call : pc[c] = "waiting"},
            ahead   <- [c \in Call |-> InFront(waiters, c)],
            holding <- Held

(* The thread budget implements the same FIFO admission as the asyncio     *)
(* one, though it grants only when the first waiter looks.                 *)
FifoOrder == Fifo!Spec

(* A thread whose session is stopped leaves, though no permit comes back   *)
(* and Event.set does not notify the condition.                            *)
StopAnswersCall ==
    \A c \in Call : (pc[c] = "waiting" /\ Owner[c] \in stop) ~> pc[c] # "waiting"

(* If permits keep coming back, every thread is answered.                  *)
EveryCallAnswered ==
    (\A c \in Call : []<>(pc[c] # "held"))
        => \A c \in Call : pc[c] = "waiting" ~> pc[c] # "waiting"
=============================================================================

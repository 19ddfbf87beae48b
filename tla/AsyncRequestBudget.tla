-------------------------- MODULE AsyncRequestBudget --------------------------
(***************************************************************************)
(* The asyncio request budget shared by every worker session of one client *)
(* (_relay_admission.py, AsyncRequestBudget).                              *)
(*                                                                         *)
(* A step runs from one suspension point of a task to the next.  A call of *)
(* acquire suspends twice: in asyncio.wait, and in the gather that reaps   *)
(* the helper task on stop.wait().  Between the two, and between a grant   *)
(* and the resumption it schedules, every other task may run.              *)
(*                                                                         *)
(* future.cancel() leaves the cancelled future in the deque; the model     *)
(* writes a tombstone in its place, because the next call of the same slot *)
(* makes a new future.                                                     *)
(***************************************************************************)
EXTENDS Naturals, Sequences, FiniteSets

CONSTANTS Call,        (* slots for calls of acquire                       *)
          Worker,      (* worker sessions; each has one stop event         *)
          Owner,       (* the session on whose stop event a call waits     *)
          Capacity,    (* permits: max_inflight_requests                   *)
          Cancelled,   (* a cancelled future left in the deque             *)
          MaxQueue     (* bound of the model: entries of the deque         *)

ASSUME CallAssumption      == IsFiniteSet(Call) /\ Cancelled \notin Call
ASSUME OwnerAssumption     == Owner \in [Call -> Worker]
ASSUME CapacityAssumption  == Capacity \in Nat \ {0}
ASSUME QueueAssumption     == MaxQueue \in Nat

VARIABLES available,   (* self.available                                   *)
          waiters,     (* self.waiters, oldest first                       *)
          future,      (* the future of each call in progress              *)
          pc,          (* where each call is suspended                     *)
          stop         (* sessions whose stop event is set                 *)

vars == <<available, waiters, future, pc, stop>>

Entry == Call \cup {Cancelled}

FutureState == {"none", "pending", "granted"}

(***************************************************************************)
(* waiting   suspended in asyncio.wait((future, stopped))                  *)
(* claiming  suspended in gather(stopped); only the future was done        *)
(* leaving   suspended in gather(stopped); stopped was done, or the call   *)
(*           was cancelled                                                 *)
(* held      acquire returned 1 and the permit has not been released       *)
(***************************************************************************)
Stage == {"idle", "waiting", "claiming", "leaving", "held"}

(* The calls whose future carries a permit.                                *)
Granted(f) == {c \in Call : f[c] = "granted"}

TypeOK ==
    /\ available \in Nat
    /\ waiters \in Seq(Entry)
    /\ future \in [Call -> FutureState]
    /\ pc \in [Call -> Stage]
    /\ stop \in SUBSET Worker

Init ==
    /\ available = Capacity
    /\ waiters = <<>>
    /\ future = [c \in Call |-> "none"]
    /\ pc = [c \in Call |-> "idle"]
    /\ stop = {}
-----------------------------------------------------------------------------
(* The futures among the first k entries of the deque that are not         *)
(* cancelled.                                                              *)
Live(q, k) == {q[i] : i \in 1..k} \ {Cancelled}

(* Variants of _drain with a bug: it grants without looking at             *)
(* self.available, or it stops at a cancelled head instead of popping it.  *)
DrainUnchecked(n, q, f) ==
    /\ available' = n - Cardinality(Live(q, Len(q)))
    /\ waiters' = <<>>
    /\ future' = [c \in Call |-> IF c \in Live(q, Len(q)) THEN "granted" ELSE f[c]]

DrainStopsAtCancelled(n, q, f) ==
    IF q # <<>> /\ Head(q) # Cancelled /\ n > 0
    THEN /\ available' = n - 1
         /\ waiters' = Tail(q)
         /\ future' = [f EXCEPT ![Head(q)] = "granted"]
    ELSE available' = n /\ waiters' = q /\ future' = f

(***************************************************************************)
(* The loop of _drain on n permits, the deque q and the futures f.  It pops*)
(* k entries, discards the cancelled ones, grants a permit to each other   *)
(* one, and ends when the deque is empty or when its head is a live future *)
(* and no permit is left.                                                  *)
(***************************************************************************)
Drain(n, q, f) ==
    \E k \in 0..Len(q) :
        /\ Cardinality(Live(q, k)) <= n
        /\ k < Len(q) => /\ q[k + 1] # Cancelled
                         /\ Cardinality(Live(q, k)) = n
        /\ available' = n - Cardinality(Live(q, k))
        /\ waiters' = SubSeq(q, k + 1, Len(q))
        /\ future' = [c \in Call |-> IF c \in Live(q, k)
                                     THEN "granted" ELSE f[c]]

(* A variant of release with a bug: it does not drain.                     *)
GiveBackQuietly(c) ==
    /\ available' = available + 1
    /\ future' = [future EXCEPT ![c] = "none"]
    /\ UNCHANGED waiters

(* release(1): the permit goes back and the deque is drained at once.      *)
GiveBack(c) == Drain(available + 1, waiters, [future EXCEPT ![c] = "none"])

(* future.cancel(), seen from the deque.                                   *)
Bury(q, c) == [i \in DOMAIN q |-> IF q[i] = c THEN Cancelled ELSE q[i]]

(* A variant of the outer finally with a bug: it has no elif branch, so a  *)
(* grant that raced the give-up is forgotten.                              *)
AbandonForgetsGrant(c) ==
    \/ /\ future[c] = "pending"
       /\ Drain(available, Bury(waiters, c), [future EXCEPT ![c] = "none"])
    \/ /\ future[c] = "granted"
       /\ future' = [future EXCEPT ![c] = "none"]
       /\ UNCHANGED <<available, waiters>>

(***************************************************************************)
(* The outer finally of acquire, when the call does not return its permit. *)
(* The future is looked at again: a grant may have arrived since           *)
(* asyncio.wait returned, and is then given back.                          *)
(***************************************************************************)
Abandon(c) ==
    \/ /\ future[c] = "pending"
       /\ Drain(available, Bury(waiters, c), [future EXCEPT ![c] = "none"])
    \/ /\ future[c] = "granted"
       /\ GiveBack(c)
-----------------------------------------------------------------------------
(* A variant of acquire with a bug: the future goes to the front.          *)
AcquireInFront(c) ==
    /\ pc[c] = "idle"
    /\ Len(waiters) < MaxQueue
    /\ pc' = [pc EXCEPT ![c] = "waiting"]
    /\ Drain(available, <<c>> \o waiters, [future EXCEPT ![c] = "pending"])
    /\ UNCHANGED stop

(* A call enters: its future is queued and the deque drained, so that it   *)
(* may be granted at once; either way the call suspends in asyncio.wait.   *)
Acquire(c) ==
    /\ pc[c] = "idle"
    /\ Len(waiters) < MaxQueue
    /\ pc' = [pc EXCEPT ![c] = "waiting"]
    /\ Drain(available, Append(waiters, c), [future EXCEPT ![c] = "pending"])
    /\ UNCHANGED stop

(* asyncio.wait returns with only the future in done.                      *)
WakeGranted(c) ==
    /\ pc[c] = "waiting"
    /\ future[c] = "granted"
    /\ pc' = [pc EXCEPT ![c] = "claiming"]
    /\ UNCHANGED <<available, waiters, future, stop>>

(* A variant with a bug: the call awaits its future alone.                 *)
WakeStoppedAfterGrant(c) ==
    /\ pc[c] = "waiting"
    /\ Owner[c] \in stop
    /\ future[c] = "granted"
    /\ pc' = [pc EXCEPT ![c] = "leaving"]
    /\ UNCHANGED <<available, waiters, future, stop>>

(* asyncio.wait returns with stopped in done, granted or not.              *)
WakeStopped(c) ==
    /\ pc[c] = "waiting"
    /\ Owner[c] \in stop
    /\ pc' = [pc EXCEPT ![c] = "leaving"]
    /\ UNCHANGED <<available, waiters, future, stop>>

(* The call is cancelled in asyncio.wait; the inner finally still reaps.   *)
CancelWaiting(c) ==
    /\ pc[c] = "waiting"
    /\ pc' = [pc EXCEPT ![c] = "leaving"]
    /\ UNCHANGED <<available, waiters, future, stop>>

(* acquire returns future.result(), that is 1.                             *)
Claim(c) ==
    /\ pc[c] = "claiming"
    /\ pc' = [pc EXCEPT ![c] = "held"]
    /\ UNCHANGED <<available, waiters, future, stop>>

(* The call is cancelled in the gather, before it could claim.             *)
CancelClaiming(c) ==
    /\ pc[c] = "claiming"
    /\ pc' = [pc EXCEPT ![c] = "idle"]
    /\ Abandon(c)
    /\ UNCHANGED stop

(* acquire returns 0, or raises CancelledError.                            *)
Exit(c) ==
    /\ pc[c] = "leaving"
    /\ pc' = [pc EXCEPT ![c] = "idle"]
    /\ Abandon(c)
    /\ UNCHANGED stop

(* The owner of a permit calls release.                                    *)
Release(c) ==
    /\ pc[c] = "held"
    /\ pc' = [pc EXCEPT ![c] = "idle"]
    /\ GiveBack(c)
    /\ UNCHANGED stop

(* A session's stop event is set, by anyone.                               *)
SetStop(w) ==
    /\ w \notin stop
    /\ stop' = stop \cup {w}
    /\ UNCHANGED <<available, waiters, future, pc>>

Wake(c) == WakeGranted(c) \/ WakeStopped(c)

CallStep(c) ==
    \/ Acquire(c)
    \/ Wake(c)
    \/ CancelWaiting(c)
    \/ Claim(c)
    \/ CancelClaiming(c)
    \/ Exit(c)
    \/ Release(c)

Next == (\E c \in Call : CallStep(c)) \/ (\E w \in Worker : SetStop(w))

(* The event loop resumes every task that is ready; it makes nobody call   *)
(* acquire, release a permit, stop or cancel.                              *)
Fairness == \A c \in Call : WF_vars(Wake(c)) /\ WF_vars(Claim(c) \/ Exit(c))

Spec == Init /\ [][Next]_vars /\ Fairness
-----------------------------------------------------------------------------
(* Every permit is available or belongs to exactly one call, whatever      *)
(* cancellation, stop and release do to a call that has just been granted: *)
(* no path of acquire loses a permit or returns it twice.                  *)
PermitsConserved == available = Capacity - Cardinality(Granted(future))

(* No call waits while a permit is free: each of enqueue, give-up and      *)
(* release drains the deque before another task can look at it.            *)
NoIdlePermit == available > 0 => \A c \in Call : future[c] # "pending"

(* The calls that are in front of c in the deque q.                        *)
InFront(q, c) ==
    {d \in Call : \E i, j \in 1..Len(q) : i < j /\ q[i] = d /\ q[j] = c}

Fifo == INSTANCE FifoAdmission WITH
            waiting <- {c \in Call : future[c] = "pending"},
            ahead   <- [c \in Call |-> InFront(waiters, c)],
            holding <- Granted(future)

(* The budget implements FIFO admission: at most Capacity permits are out, *)
(* and neither a cancelled entry, a stop nor a late grant lets a call      *)
(* overtake one that asked before it.                                      *)
FifoOrder == Fifo!Spec

(* A call whose session is stopped returns even if no permit ever comes    *)
(* back (the run loop leaves its while on 0).                              *)
StopAnswersCall ==
    \A c \in Call : (pc[c] = "waiting" /\ Owner[c] \in stop) ~> pc[c] # "waiting"

(* If every permit that is granted is eventually given back, every call is *)
(* answered: no call is passed over for ever.                              *)
EveryCallAnswered ==
    (\A c \in Call : []<>(future[c] # "granted"))
        => \A c \in Call : pc[c] = "waiting" ~> pc[c] # "waiting"
=============================================================================

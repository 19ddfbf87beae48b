----------------------------- MODULE RelayWorker -----------------------------
(***************************************************************************)
(* The asyncio worker sessions of one relay client (relay.py,              *)
(* _run_async_worker), composed with the request budget they share         *)
(* (AsyncRequestBudget) and the semaphore that bounds their polls.         *)
(*                                                                         *)
(* A session reserves a permit, polls for one request, starts a handler    *)
(* task that takes the permit over, and comes back.  It ends when its stop *)
(* event is set, when a poll or a handler fails, or when it is cancelled;  *)
(* on a failure it cancels its handlers and waits for them.                *)
(*                                                                         *)
(* A slot <<w, i>> is one of the max_concurrency places of session w: the  *)
(* call of acquire, then the poll, then the handler task it leads to.  The *)
(* handler is abstract here: it ends well, with an error, or cancelled.    *)
(*                                                                         *)
(* The done callback that releases a permit runs one turn of the event     *)
(* loop after the handler ends; the model does both in one step, since no  *)
(* task that has to be resumed first can tell the two turns apart.  The    *)
(* top of the loop is a step of its own although the asyncio session does  *)
(* not suspend there: the model allows more interleavings than the code.   *)
(***************************************************************************)
EXTENDS Naturals, Sequences, FiniteSets

CONSTANTS Worker,          (* worker sessions of one client                *)
          MaxConcurrency,  (* handlers a session may run                   *)
          Capacity,        (* max_inflight_requests of the client          *)
          PollSlots,       (* polls the client may have in flight          *)
          MaxErrors,       (* max_consecutive_poll_errors                  *)
          Cancelled,       (* see AsyncRequestBudget                       *)
          MaxQueue         (* see AsyncRequestBudget                       *)

ASSUME WorkerAssumption == IsFiniteSet(Worker)
ASSUME LimitAssumption ==
    /\ MaxConcurrency \in Nat \ {0}
    /\ PollSlots \in Nat \ {0}
    /\ MaxErrors \in Nat \ {0}

Call == Worker \X (1..MaxConcurrency)

(* What the budget assumes of its constants.                               *)
ASSUME BudgetAssumption ==
    /\ Capacity \in Nat \ {0}
    /\ Cancelled \notin Call
    /\ MaxQueue \in Nat

Owner == [c \in Call |-> c[1]]

Slots(w) == {w} \X (1..MaxConcurrency)

VARIABLES available, waiters, future, pc, stop,   (* the budget            *)
          at,          (* where each session is suspended                  *)
          task,        (* the handler task of each slot, until it is reaped*)
          errs,        (* poll_errors: consecutive failures                *)
          outcome,     (* how run_worker ends                              *)
          cancel,      (* a cancellation of the session that is under way  *)
          slotQueue    (* sessions waiting for _worker_poll_slots          *)

budgetVars == <<available, waiters, future, pc, stop>>
sessionVars == <<at, task, errs, outcome, cancel, slotQueue>>
vars == <<available, waiters, future, pc, stop,
          at, task, errs, outcome, cancel, slotQueue>>

Budget == INSTANCE AsyncRequestBudget

(***************************************************************************)
(* start      run_worker, in asyncio.sleep(0)                              *)
(* top        the test of the while loop                                   *)
(* full       asyncio.wait on the handlers: no slot is free                *)
(* admission  _request_budget.acquire                                      *)
(* slot       entering _worker_poll_slots                                  *)
(* poll       client.poll is in flight                                     *)
(* backoff    _wait_async_cancel after a retryable poll error              *)
(* draining   gather(tasks) after the loop                                 *)
(* cleanup    gather(tasks, return_exceptions=True) after a failure        *)
(***************************************************************************)
Place == {"start", "top", "full", "admission", "slot", "poll", "backoff",
          "draining", "cleanup", "ended"}

Outcome == {"none", "returned", "cancelled", "pollError", "taskError"}

TypeOK ==
    /\ Budget!TypeOK
    /\ at \in [Worker -> Place]
    /\ task \in [Call -> {"none", "running", "ok", "failed", "cancelled"}]
    /\ errs \in [Worker -> 0..(MaxErrors - 1)]
    /\ outcome \in [Worker -> Outcome]
    /\ cancel \in [Worker -> BOOLEAN]
    /\ slotQueue \in Seq(Worker)

Init ==
    /\ Budget!Init
    /\ at = [w \in Worker |-> "start"]
    /\ task = [c \in Call |-> "none"]
    /\ errs = [w \in Worker |-> 0]
    /\ outcome = [w \in Worker |-> "none"]
    /\ cancel = [w \in Worker |-> FALSE]
    /\ slotQueue = <<>>
-----------------------------------------------------------------------------
Running(w) == {c \in Slots(w) : task[c] = "running"}

(* The tasks set of a session: done tasks stay in it until the loop top.   *)
Tasks(w) == {c \in Slots(w) : task[c] # "none"}

Ended(w, result) == {c \in Slots(w) : task[c] = result}

Polling == {w \in Worker : at[w] = "poll"}

(* The slot a session is acquiring or polling with.                        *)
Current(w) == {c \in Slots(w) : pc[c] # "idle" /\ task[c] = "none"}

(* The loop top takes the tasks that ended out of the tasks set.           *)
Reaped(w) == [c \in Call |-> IF c \in Tasks(w) \ Running(w)
                             THEN "none" ELSE task[c]]

(* The except clause: cancel what is still running and wait for it, unless *)
(* there is nothing to wait for.  poll_errors is not read after the loop.  *)
Fail(w, why) ==
    /\ outcome' = [outcome EXCEPT ![w] = why]
    /\ at' = [at EXCEPT ![w] = IF Running(w) # {} THEN "cleanup" ELSE "ended"]
    /\ cancel' = [cancel EXCEPT ![w] = FALSE]
    /\ errs' = [errs EXCEPT ![w] = 0]
    /\ task' = Reaped(w)

(* What a handler raised is raised in the session: by task.result() at the *)
(* top of the loop, or by gather, which raises what the first one raised.  *)
HandlerRaises(w) ==
    \/ Ended(w, "failed") # {} /\ Fail(w, "taskError")
    \/ Ended(w, "cancelled") # {} /\ Fail(w, "cancelled")

NoneRaised(w) == Ended(w, "failed") \cup Ended(w, "cancelled") = {}

(* The loop is left: wait for the handlers, if there are any.              *)
LeaveLoop(w) ==
    /\ UNCHANGED <<task, cancel>>
    /\ errs' = [errs EXCEPT ![w] = 0]
    /\ IF Tasks(w) # {}
       THEN /\ at' = [at EXCEPT ![w] = "draining"]
            /\ UNCHANGED outcome
       ELSE /\ at' = [at EXCEPT ![w] = "ended"]
            /\ outcome' = [outcome EXCEPT ![w] = "returned"]
-----------------------------------------------------------------------------
Start(w) ==
    /\ at[w] = "start"
    /\ at' = [at EXCEPT ![w] = "top"]
    /\ UNCHANGED <<budgetVars, task, errs, outcome, cancel, slotQueue>>

(* while not stop.is_set() ends the loop without reaping.                  *)
LoopStops(w) ==
    /\ at[w] = "top"
    /\ w \in stop
    /\ LeaveLoop(w)
    /\ UNCHANGED <<budgetVars, slotQueue>>

(* task.result() raises for a handler that did not end well.               *)
LoopFails(w) ==
    /\ at[w] = "top"
    /\ w \notin stop
    /\ HandlerRaises(w)
    /\ UNCHANGED <<budgetVars, slotQueue>>

(* Every slot has a handler: wait until one is done.                       *)
LoopFull(w) ==
    /\ at[w] = "top"
    /\ w \notin stop
    /\ NoneRaised(w)
    /\ Cardinality(Running(w)) >= MaxConcurrency
    /\ at' = [at EXCEPT ![w] = "full"]
    /\ task' = Reaped(w)
    /\ UNCHANGED <<budgetVars, errs, outcome, cancel, slotQueue>>

(* A slot is free: ask the budget for a permit.                            *)
LoopAcquires(w) ==
    /\ at[w] = "top"
    /\ w \notin stop
    /\ NoneRaised(w)
    /\ Cardinality(Running(w)) < MaxConcurrency
    /\ at' = [at EXCEPT ![w] = "admission"]
    /\ task' = Reaped(w)
    /\ Budget!Acquire(CHOOSE c \in Slots(w) : task[c] # "running")
    /\ UNCHANGED <<errs, outcome, cancel, slotQueue>>

FullWakes(w) ==
    /\ at[w] = "full"
    /\ Tasks(w) # Running(w)
    /\ at' = [at EXCEPT ![w] = "top"]
    /\ UNCHANGED <<budgetVars, task, errs, outcome, cancel, slotQueue>>

AdmissionWakes(c) ==
    /\ Budget!Wake(c)
    /\ UNCHANGED sessionVars

(* acquire returned 1: enter the semaphore, at once if it is not locked.   *)
Admitted(c) ==
    LET w == Owner[c] IN
    /\ Budget!Claim(c)
    /\ IF slotQueue = <<>> /\ Cardinality(Polling) < PollSlots
       THEN /\ at' = [at EXCEPT ![w] = "poll"]
            /\ UNCHANGED slotQueue
       ELSE /\ at' = [at EXCEPT ![w] = "slot"]
            /\ slotQueue' = Append(slotQueue, w)
    /\ UNCHANGED <<task, errs, outcome, cancel>>

(* acquire returned 0 and the loop breaks, or it raised CancelledError.    *)
NotAdmitted(c) ==
    LET w == Owner[c] IN
    /\ Budget!Exit(c)
    /\ IF cancel[w] THEN Fail(w, "cancelled") ELSE LeaveLoop(w)
    /\ UNCHANGED slotQueue

(* The semaphore admits its oldest waiter.                                 *)
EnterPoll(w) ==
    /\ at[w] = "slot"
    /\ Head(slotQueue) = w
    /\ Cardinality(Polling) < PollSlots
    /\ at' = [at EXCEPT ![w] = "poll"]
    /\ slotQueue' = Tail(slotQueue)
    /\ UNCHANGED <<budgetVars, task, errs, outcome, cancel>>

(* The poll brought nothing: the permit goes back.                         *)
PollEmpty(w) ==
    /\ at[w] = "poll"
    /\ \E c \in Current(w) : Budget!Release(c)
    /\ at' = [at EXCEPT ![w] = "top"]
    /\ errs' = [errs EXCEPT ![w] = 0]
    /\ UNCHANGED <<task, outcome, cancel, slotQueue>>

(* A variant with a bug: the task is started, but "reserved" is not counted *)
(* down, so that the finally clause releases the permit too.               *)
PollDeliversAndReleases(w) ==
    /\ at[w] = "poll"
    /\ \E c \in Current(w) : /\ task' = [task EXCEPT ![c] = "running"]
                             /\ Budget!Release(c)
    /\ at' = [at EXCEPT ![w] = "top"]
    /\ errs' = [errs EXCEPT ![w] = 0]
    /\ UNCHANGED <<outcome, cancel, slotQueue>>

(* The poll brought a request: its handler task takes the permit over.     *)
PollDelivers(w) ==
    /\ at[w] = "poll"
    /\ \E c \in Current(w) : task' = [task EXCEPT ![c] = "running"]
    /\ at' = [at EXCEPT ![w] = "top"]
    /\ errs' = [errs EXCEPT ![w] = 0]
    /\ UNCHANGED <<budgetVars, outcome, cancel, slotQueue>>

(* A variant with a bug: the last error allowed is retried too.            *)
PollRetriesOnceMore(w) ==
    /\ at[w] = "poll"
    /\ errs[w] < MaxErrors
    /\ \E c \in Current(w) : Budget!Release(c)
    /\ at' = [at EXCEPT ![w] = "backoff"]
    /\ errs' = [errs EXCEPT ![w] = errs[w] + 1]
    /\ UNCHANGED <<task, outcome, cancel, slotQueue>>

(* A retryable RelayApiError, not the last one allowed.                    *)
PollRetries(w) ==
    /\ at[w] = "poll"
    /\ errs[w] + 1 < MaxErrors
    /\ \E c \in Current(w) : Budget!Release(c)
    /\ at' = [at EXCEPT ![w] = "backoff"]
    /\ errs' = [errs EXCEPT ![w] = errs[w] + 1]
    /\ UNCHANGED <<task, outcome, cancel, slotQueue>>

(* An error that is not a RelayApiError or not retryable, the last         *)
(* retryable one, or a poll that brought more than it was asked for.       *)
PollFails(w) ==
    /\ at[w] = "poll"
    /\ \E c \in Current(w) : Budget!Release(c)
    /\ Fail(w, "pollError")
    /\ UNCHANGED slotQueue

BackoffEnds(w) ==
    /\ at[w] = "backoff"
    /\ at' = [at EXCEPT ![w] = "top"]
    /\ UNCHANGED <<budgetVars, task, errs, outcome, cancel, slotQueue>>
-----------------------------------------------------------------------------
(* A handler ends well, with an error, or with CancelledError: because the *)
(* session cancelled it, or because of what the caller's handler awaited.  *)
HandlerResult == {"ok", "failed", "cancelled"}

(* A variant with a bug: the handler has no done callback.                 *)
TaskEndsQuietly(c) ==
    /\ task[c] = "running"
    /\ \E result \in HandlerResult : task' = [task EXCEPT ![c] = result]
    /\ UNCHANGED <<budgetVars, at, errs, outcome, cancel, slotQueue>>

(* A handler ends and its done callback releases the permit.               *)
TaskEnds(c) ==
    /\ task[c] = "running"
    /\ \E result \in HandlerResult : task' = [task EXCEPT ![c] = result]
    /\ Budget!Release(c)
    /\ UNCHANGED <<at, errs, outcome, cancel, slotQueue>>

(* gather raises as soon as one handler did.                               *)
DrainFails(w) ==
    /\ at[w] = "draining"
    /\ HandlerRaises(w)
    /\ UNCHANGED <<budgetVars, slotQueue>>

(* Every handler ended well; a cancellation of gather still surfaces.      *)
DrainEnds(w) ==
    /\ at[w] = "draining"
    /\ Tasks(w) = Ended(w, "ok")
    /\ Fail(w, IF cancel[w] THEN "cancelled" ELSE "returned")
    /\ UNCHANGED <<budgetVars, slotQueue>>

(* A variant with a bug: gather has no return_exceptions, so that the      *)
(* failure of a sibling replaces the one that started the cleanup.         *)
CleanupEndsWithSibling(w) ==
    /\ at[w] = "cleanup"
    /\ Running(w) = {}
    /\ Fail(w, IF Ended(w, "failed") # {} THEN "taskError"
               ELSE IF cancel[w] THEN "cancelled" ELSE outcome[w])
    /\ UNCHANGED <<budgetVars, slotQueue>>

(* Every handler ended, and the failure that started the cleanup is raised *)
(* again, unless the session was cancelled meanwhile.                      *)
CleanupEnds(w) ==
    /\ at[w] = "cleanup"
    /\ Running(w) = {}
    /\ Fail(w, IF cancel[w] THEN "cancelled" ELSE outcome[w])
    /\ UNCHANGED <<budgetVars, slotQueue>>
-----------------------------------------------------------------------------
(* The session's task is cancelled from outside, wherever it is suspended. *)
CancelIdle(w) ==
    /\ at[w] \in {"start", "full", "backoff"}
    /\ Fail(w, "cancelled")
    /\ UNCHANGED <<budgetVars, slotQueue>>

CancelAdmission(w) ==
    /\ at[w] = "admission"
    /\ \E c \in Current(w) :
        \/ /\ Budget!CancelWaiting(c) \/ (pc[c] = "leaving" /\ UNCHANGED budgetVars)
           /\ cancel' = [cancel EXCEPT ![w] = TRUE]
           /\ UNCHANGED <<at, task, errs, outcome>>
        \/ /\ Budget!CancelClaiming(c)
           /\ Fail(w, "cancelled")
    /\ UNCHANGED slotQueue

(* A session that is cancelled in the semaphore gives its place up.        *)
QuitQueue(w) ==
    \E i \in 1..Len(slotQueue) :
        /\ slotQueue[i] = w
        /\ slotQueue' = [k \in 1..(Len(slotQueue) - 1) |->
                              slotQueue[IF k < i THEN k ELSE k + 1]]

(* Variants with a bug: the permit is kept, or the place in the queue.     *)
CancelSlotKeepsPermit(w) ==
    /\ at[w] = "slot"
    /\ QuitQueue(w)
    /\ Fail(w, "cancelled")
    /\ UNCHANGED budgetVars

CancelSlotKeepsPlace(w) ==
    /\ at[w] = "slot"
    /\ \E c \in Current(w) : Budget!Release(c)
    /\ Fail(w, "cancelled")
    /\ UNCHANGED slotQueue

(* The except clause around the poll gives the permit back.                *)
CancelSlot(w) ==
    /\ at[w] = "slot"
    /\ \E c \in Current(w) : Budget!Release(c)
    /\ QuitQueue(w)
    /\ Fail(w, "cancelled")

CancelPoll(w) ==
    /\ at[w] = "poll"
    /\ \E c \in Current(w) : Budget!Release(c)
    /\ Fail(w, "cancelled")
    /\ UNCHANGED slotQueue

(* A cancelled gather cancels the handlers and raises once they ended.     *)
CancelGather(w) ==
    /\ at[w] \in {"draining", "cleanup"}
    /\ ~cancel[w]
    /\ cancel' = [cancel EXCEPT ![w] = TRUE]
    /\ UNCHANGED <<budgetVars, at, task, errs, outcome, slotQueue>>

(* Setting the event of a session that ended would change nothing.         *)
SetStop(w) ==
    /\ at[w] # "ended"
    /\ Budget!SetStop(w)
    /\ UNCHANGED sessionVars
-----------------------------------------------------------------------------
PollReturns(w) ==
    PollEmpty(w) \/ PollDelivers(w) \/ PollRetries(w) \/ PollFails(w)

(* What a session does by itself.                                          *)
SessionStep(w) ==
    \/ Start(w)
    \/ LoopStops(w) \/ LoopFails(w) \/ LoopFull(w) \/ LoopAcquires(w)
    \/ FullWakes(w)
    \/ \E c \in Slots(w) : AdmissionWakes(c) \/ Admitted(c) \/ NotAdmitted(c)
    \/ EnterPoll(w) \/ PollReturns(w) \/ BackoffEnds(w)
    \/ DrainFails(w) \/ DrainEnds(w) \/ CleanupEnds(w)

Cancel(w) ==
    \/ CancelIdle(w) \/ CancelAdmission(w) \/ CancelSlot(w)
    \/ CancelPoll(w) \/ CancelGather(w)

Done == (\A w \in Worker : at[w] = "ended") /\ UNCHANGED vars

Next ==
    \/ \E w \in Worker : SessionStep(w) \/ Cancel(w) \/ SetStop(w)
    \/ \E c \in Call : TaskEnds(c)
    \/ Done

(* The event loop resumes every task that is ready.  Polls end: each has a *)
(* client timeout.  Backoffs end: they are timed.  Handlers end: forwarding*)
(* and commits have timeouts and a bounded number of attempts, and a       *)
(* caller's handler is expected to return.                                 *)
Fairness ==
    /\ \A w \in Worker : WF_vars(SessionStep(w))
    /\ \A c \in Call : WF_vars(TaskEnds(c))

Spec == Init /\ [][Next]_vars /\ Fairness
-----------------------------------------------------------------------------
(* A poll is sent only with a permit in hand, and the permit stays out     *)
(* until the request it brought is handled: requests leased or about to be *)
(* leased never exceed the client's capacity, over all sessions.           *)
NeverOverCommitted ==
    Cardinality({c \in Call : task[c] = "running"}) + Cardinality(Polling)
        <= Capacity

(* A session that ended left nothing behind, whichever way it ended: no    *)
(* handler runs, no permit is out or asked for, no place in the poll queue *)
(* is kept.                                                                *)
EndedHoldsNothing ==
    \A w \in Worker : at[w] = "ended" =>
        /\ \A c \in Slots(w) : task[c] = "none" /\ pc[c] = "idle"
        /\ \A i \in 1..Len(slotQueue) : slotQueue[i] # w

(* The failure that made a session clean up is the one it raises: whatever *)
(* its other handlers do while they are cancelled, only a cancellation of  *)
(* the session itself takes its place.                                     *)
PrimaryFailureKept ==
    [][\A w \in Worker : outcome[w] # "none" /\ outcome'[w] # outcome[w]
            => cancel[w] /\ outcome'[w] = "cancelled"]_vars

(* A session that is stopped, cancelled, or cleaning up ends.              *)
SessionEnds ==
    \A w \in Worker :
        (w \in stop \/ cancel[w] \/ at[w] = "cleanup") ~> at[w] = "ended"

(* No session is kept for ever from polling by the others.                 *)
PollersServed ==
    \A w \in Worker : at[w] \in {"admission", "slot"}
                            ~> at[w] \notin {"admission", "slot"}
=============================================================================

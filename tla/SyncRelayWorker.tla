---------------------------- MODULE SyncRelayWorker ----------------------------
(***************************************************************************)
(* Thread sessions: each registers, runs a worker loop (relay.py,          *)
(* _run_sync_worker) and closes.  The loop admits one request at a time    *)
(* through the client's budget, polls with the token of its session and    *)
(* gives each lease to a ThreadPoolExecutor.  Futures that ended are       *)
(* collected at the top of the loop; leaving the with statement of the     *)
(* executor joins its threads, and with them the callbacks of the futures, *)
(* which return the permits.                                               *)
(*                                                                         *)
(* The order of admission is SyncRequestBudget's and left out here: a poll *)
(* reserves one permit, whichever loop gets it.                            *)
(***************************************************************************)
EXTENDS RelayRegistration

CONSTANTS Runner,           (* the sessions that run a worker loop         *)
          MaxConcurrency,   (* handlers of one session                     *)
          Capacity,         (* permits of the client                       *)
          MaxErrors         (* max_consecutive_poll_errors                 *)

ASSUME RunnerAssumption == Runner \subseteq Session
ASSUME BoundsAssumption ==
    MaxConcurrency \in Nat \ {0} /\ Capacity \in Nat \ {0} /\ MaxErrors \in Nat \ {0}

VARIABLES run,         (* where the loop of each session is                *)
          stop,        (* sessions whose cancel event is set               *)
          running,     (* futures whose handler runs                       *)
          failed,      (* futures that ended with an exception             *)
          settling,    (* futures that ended, with their callback to come  *)
          errors,      (* consecutive poll errors                          *)
          polled,      (* the token of the poll in flight                  *)
          leased,      (* the registrations it handled requests of         *)
          available    (* permits of the client                            *)

workerVars == <<run, stop, running, failed, settling, errors, polled, leased, available>>
vars == <<registrationVars, workerVars>>

(***************************************************************************)
(* loop        at the top of the while loop                                *)
(* full        stop.wait(0.05), with every thread busy                     *)
(* admission   in client._request_budget.acquire(stop)                     *)
(* polling     in client.poll, with a permit                               *)
(* pausing     stop.wait after a poll error                                *)
(* collecting  after the loop: waiting for each future's result            *)
(* failing     an exception is leaving the with statement of the executor  *)
(***************************************************************************)
RunPlace == {"none", "loop", "full", "admission", "polling", "pausing",
             "collecting", "failing", "returned", "raised"}

WorkerTypeOK ==
    /\ run \in [Session -> RunPlace]
    /\ stop \subseteq Session
    /\ running \in [Session -> 0..MaxConcurrency]
    /\ failed \in [Session -> Nat]
    /\ settling \in [Session -> Nat]
    /\ errors \in [Session -> 0..MaxErrors]
    /\ polled \in [Session -> Token \cup {None}]
    /\ leased \in [Session -> SUBSET Token]
    /\ available \in Nat

TypeOK == RegistrationTypeOK /\ WorkerTypeOK

Init ==
    /\ RegistrationInit
    /\ run = [s \in Session |-> "none"]
    /\ stop = {}
    /\ running = [s \in Session |-> 0]
    /\ failed = [s \in Session |-> 0]
    /\ settling = [s \in Session |-> 0]
    /\ errors = [s \in Session |-> 0]
    /\ polled = [s \in Session |-> None]
    /\ leased = [s \in Session |-> {}]
    /\ available = Capacity

Goes(s, place) == run' = [run EXCEPT ![s] = place]

(* A variant with a bug: run does not pass the session's token on.         *)
RememberedToken(s) == IF remembered = None THEN token[s] ELSE remembered

(* registration_token=self._required_registration_token()                  *)
RunToken(s) == token[s]

Run(s) ==
    /\ s \in Runner
    /\ run[s] = "none"
    /\ at[s] = "open"
    /\ Goes(s, "loop")
    /\ UNCHANGED <<registrationVars, stop, running, failed, settling, errors,
                   polled, leased, available>>

(* A failed future is raised; the others that ended are forgotten.         *)
LoopTurns(s) ==
    /\ run[s] = "loop"
    /\ Goes(s, IF s \in stop THEN "collecting"
               ELSE IF failed[s] > 0 THEN "failing"
               ELSE IF running[s] = MaxConcurrency THEN "full"
               ELSE "admission")
    /\ UNCHANGED <<registrationVars, stop, running, failed, settling, errors,
                   polled, leased, available>>

(* The wait of a full loop, or the one after a poll error, ends.           *)
Wakes(s) ==
    /\ run[s] \in {"full", "pausing"}
    /\ Goes(s, "loop")
    /\ UNCHANGED <<registrationVars, stop, running, failed, settling, errors,
                   polled, leased, available>>

AdmissionStops(s) ==
    /\ run[s] = "admission"
    /\ s \in stop
    /\ Goes(s, "collecting")
    /\ UNCHANGED <<registrationVars, stop, running, failed, settling, errors,
                   polled, leased, available>>

(* The permit is granted and the poll sent; its token is remembered.       *)
Poll(s) ==
    /\ run[s] = "admission"
    /\ s \notin stop
    /\ available > 0
    /\ available' = available - 1
    /\ polled' = [polled EXCEPT ![s] = RunToken(s)]
    /\ remembered' = RunToken(s)
    /\ Goes(s, "polling")
    /\ UNCHANGED <<token, at, target, attempts, reply, relayVars, mail,
                   stop, running, failed, settling, errors, leased>>

(* Nothing is waiting: the permit goes back.                               *)
PollEmpty(s) ==
    /\ run[s] = "polling"
    /\ available' = available + 1
    /\ errors' = [errors EXCEPT ![s] = 0]
    /\ Goes(s, "loop")
    /\ UNCHANGED <<registrationVars, stop, running, failed, settling, polled, leased>>

(* A request of the registration that was polled: its handler starts, and  *)
(* the permit is now the future's.                                         *)
PollLeases(s) ==
    /\ run[s] = "polling"
    /\ registered = polled[s]
    /\ running' = [running EXCEPT ![s] = running[s] + 1]
    /\ leased' = [leased EXCEPT ![s] = leased[s] \cup {polled[s]}]
    /\ errors' = [errors EXCEPT ![s] = 0]
    /\ Goes(s, "loop")
    /\ UNCHANGED <<registrationVars, stop, failed, settling, polled, available>>

(* A transient error, or a reply for another rollout or registration.      *)
PollFails(s) ==
    /\ run[s] = "polling"
    /\ available' = available + 1
    /\ errors' = [errors EXCEPT ![s] = errors[s] + 1]
    /\ Goes(s, IF errors[s] + 1 >= MaxErrors THEN "failing" ELSE "pausing")
    /\ UNCHANGED <<registrationVars, stop, running, failed, settling, polled, leased>>

(* An error that is not retryable, such as the one for a registration that *)
(* is gone, an exception that is no RelayApiError, or a reply with more    *)
(* requests than the permit allows.                                        *)
PollRaises(s) ==
    /\ run[s] = "polling"
    /\ available' = available + 1
    /\ Goes(s, "failing")
    /\ UNCHANGED <<registrationVars, stop, running, failed, settling, errors,
                   polled, leased>>
-----------------------------------------------------------------------------
(* A handler ends, well or badly; its future is done.                      *)
HandlerEnds(s) ==
    /\ running[s] > 0
    /\ running' = [running EXCEPT ![s] = running[s] - 1]
    /\ settling' = [settling EXCEPT ![s] = settling[s] + 1]
    /\ \/ failed' = [failed EXCEPT ![s] = failed[s] + 1]
       \/ UNCHANGED failed
    /\ UNCHANGED <<registrationVars, run, stop, errors, polled, leased, available>>

(* The done callback of the future, on its thread: release.                *)
Callback(s) ==
    /\ settling[s] > 0
    /\ settling' = [settling EXCEPT ![s] = settling[s] - 1]
    /\ available' = available + 1
    /\ UNCHANGED <<registrationVars, run, stop, running, failed, errors, polled, leased>>

(* future.result() of the futures that are left raises the first failure.  *)
CollectFails(s) ==
    /\ run[s] = "collecting"
    /\ failed[s] > 0
    /\ Goes(s, "failing")
    /\ UNCHANGED <<registrationVars, stop, running, failed, settling, errors,
                   polled, leased, available>>

(* A variant with a bug: the results are waited for, and not the threads.  *)
JoinedResults(s) == running[s] = 0

(* executor.__exit__: every thread ended, with the callback of its future. *)
Joined(s) == running[s] = 0 /\ settling[s] = 0

(* The locals of the loop are gone, and nobody looks at its event.         *)
Leaves(s, place) ==
    /\ Goes(s, place)
    /\ errors' = [errors EXCEPT ![s] = 0]
    /\ polled' = [polled EXCEPT ![s] = None]
    /\ stop' = stop \ {s}
    /\ UNCHANGED <<registrationVars, running, settling, leased, available>>

RunReturns(s) ==
    /\ run[s] = "collecting"
    /\ failed[s] = 0
    /\ Joined(s)
    /\ Leaves(s, "returned")
    /\ UNCHANGED failed

RunRaises(s) ==
    /\ run[s] = "failing"
    /\ Joined(s)
    /\ Leaves(s, "raised")
    /\ failed' = [failed EXCEPT ![s] = 0]

SetStop(s) ==
    /\ run[s] \notin {"none", "returned", "raised"}
    /\ stop' = stop \cup {s}
    /\ UNCHANGED <<registrationVars, run, running, failed, settling, errors,
                   polled, leased, available>>
-----------------------------------------------------------------------------
RunStep(s) ==
    \/ LoopTurns(s) \/ Wakes(s) \/ AdmissionStops(s)
    \/ Poll(s) \/ PollEmpty(s) \/ PollLeases(s) \/ PollFails(s) \/ PollRaises(s)
    \/ CollectFails(s) \/ RunReturns(s) \/ RunRaises(s)

(* The with statement of a session closes it when its run has ended.       *)
Exit(s) ==
    /\ run[s] \in {"none", "returned", "raised"}
    /\ Close(s)
    /\ UNCHANGED workerVars

Done ==
    /\ \A s \in Session : at[s] \in {"closed", "rejected"}
    /\ UNCHANGED vars

Next ==
    \/ RegistrationStep /\ UNCHANGED workerVars
    \/ \E s \in Session :
          Run(s) \/ RunStep(s) \/ HandlerEnds(s) \/ Callback(s) \/ SetStop(s) \/ Exit(s)
    \/ Done

Spec == Init /\ [][Next]_vars
-----------------------------------------------------------------------------
(* A session handles only requests of its own registration, even after a   *)
(* later session registered the same rollout through the same client.      *)
OwnRequests == \A s \in Session : leased[s] \subseteq {s}

(* Permits in hand: of the poll in flight, of the handlers that run, and of*)
(* the futures whose callback is to come.                                  *)
InHand(s) == running[s] + settling[s] + (IF run[s] = "polling" THEN 1 ELSE 0)

Looping == {s \in Session : run[s] \notin {"none", "returned", "raised"}}

PermitsInHand == UNION {{s} \X (1..InHand(s)) : s \in Looping}

(* Every permit that is not free is in the hand of a loop that still runs: *)
(* whichever way loops that share the client end, stopped, failed by a     *)
(* poll or by a handler, with handlers that run and callbacks to come,     *)
(* each has given back all its permits by then, and each of them once.     *)
EndedRunsGiveBack == available + Cardinality(PermitsInHand) = Capacity
=============================================================================

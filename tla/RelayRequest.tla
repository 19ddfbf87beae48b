----------------------------- MODULE RelayRequest -----------------------------
(***************************************************************************)
(* One relayed request, from the lease to the answer (relay.py,            *)
(* _handle_async_request and _handle_sync_request).  Each delivery of the  *)
(* request is a handler, which works and then commits its answer, and a    *)
(* renewer, which keeps the lease alive beside it.  Renewals and commits   *)
(* race: with each other, with the expiry of the lease and the delivery    *)
(* of the request to another session, and with replies that get lost.      *)
(*                                                                         *)
(* The relay is not in this repository: holder, answer and the actions     *)
(* Lease, Expire and Accept model what its clients rely on.  A lease can   *)
(* expire at any moment, and a message that was sent may be processed even *)
(* after its sender gave up waiting.                                       *)
(***************************************************************************)
EXTENDS Naturals, FiniteSets

CONSTANTS Delivery,       (* leases of the request, one after the other    *)
          Forwarding,     (* the deliveries whose session has an upstream  *)
          Threaded,       (* the deliveries to a thread client; the others *)
                          (* are to an asyncio one                         *)
          MaxAttempts,    (* attempts of commit_response_bytes_to          *)
          None

ASSUME DeliveryAssumption == Forwarding \subseteq Delivery /\ Threaded \subseteq Delivery
ASSUME AttemptsAssumption == MaxAttempts \in Nat \ {0}

VARIABLES at,         (* where the handler of each delivery is             *)
          cause,      (* the exception that is on its way out of it        *)
          sent,       (* the results it has sent to the relay              *)
          attempts,   (* attempts to send the last of them                 *)
          acked,      (* the relay's receipt for it has arrived            *)
          renewer,    (* the renewal task or thread                        *)
          holder,     (* relay: the delivery that holds the lease          *)
          answer,     (* relay: who answered the request, and what         *)
          revoked     (* relay: the registration of the rollout is gone    *)

relayVars == <<holder, answer, revoked>>
vars == <<at, cause, sent, attempts, acked, renewer, holder, answer, revoked>>

(***************************************************************************)
(* working     forwarding upstream, or in the caller's handler             *)
(* committing  a respond or error call is in flight                        *)
(* pausing     between two attempts of commit_response_bytes_to            *)
(* settling    committed; stop is set and the renewer awaited              *)
(* cleanup     failing; the renewer is stopped, and cancelled if a task    *)
(***************************************************************************)
Ended == {"ok", "failed", "cancelled"}

Place == {"none", "working", "committing", "pausing", "settling", "cleanup"}
            \cup Ended

(* lost: no reply, or a retryable error; refused: an error that is not     *)
(* retryable; local: a RelayApiError that is raised before anything is     *)
(* sent; broken: an exception of the exchange that is no RelayApiError.    *)
Cause == {"none", "lost", "refused", "local", "broken", "cancel"}

(* answer: what the upstream or the caller's handler answered, or the 502  *)
(* or 504 that stands for an upstream that failed; error: error_request in *)
(* the clause for other exceptions; refusal: of a streaming model request. *)
Result == {"answer", "error", "refusal"}

ASSUME NoneAssumption == None \notin Delivery \cup (Delivery \X Result)

(* How the renewer ended: stopped, cancelled, or with the 410 that says    *)
(* the request is completed, rejected by another 409 or 410, denied with   *)
(* another error that is not retryable, or its thread died of an exception *)
(* that is no RelayApiError.                                               *)
Renewer == {"none", "sleeping", "renewing", "stopped", "cancelled",
            "completed", "rejected", "denied", "broken"}

TypeOK ==
    /\ at \in [Delivery -> Place]
    /\ cause \in [Delivery -> Cause]
    /\ sent \in [Delivery -> SUBSET Result]
    /\ attempts \in [Delivery -> 0..MaxAttempts]
    /\ acked \in [Delivery -> BOOLEAN]
    /\ renewer \in [Delivery -> Renewer]
    /\ holder \in Delivery \cup {None}
    /\ answer \in (Delivery \X Result) \cup {None}
    /\ revoked \in BOOLEAN

Init ==
    /\ at = [d \in Delivery |-> "none"]
    /\ cause = [d \in Delivery |-> "none"]
    /\ sent = [d \in Delivery |-> {}]
    /\ attempts = [d \in Delivery |-> 0]
    /\ acked = [d \in Delivery |-> FALSE]
    /\ renewer = [d \in Delivery |-> "none"]
    /\ holder = None
    /\ answer = None
    /\ revoked = FALSE
-----------------------------------------------------------------------------
(* The relay.                                                              *)

Answered(d) == answer # None /\ answer[1] = d

(* The request is leased to a new delivery, whose handler and renewer start.*)
Lease(d) ==
    /\ at[d] = "none"
    /\ holder = None
    /\ answer = None
    /\ ~revoked
    /\ holder' = d
    /\ at' = [at EXCEPT ![d] = "working"]
    /\ renewer' = [renewer EXCEPT ![d] = "sleeping"]
    /\ UNCHANGED <<cause, sent, attempts, acked, answer, revoked>>

(* The lease runs out before a renewal reaches the relay.                  *)
Expire ==
    /\ holder # None
    /\ holder' = None
    /\ UNCHANGED <<at, cause, sent, attempts, acked, renewer, answer, revoked>>

(* The rollout is unregistered, or its registration expires.               *)
Revoke ==
    /\ ~revoked
    /\ revoked' = TRUE
    /\ holder' = None
    /\ UNCHANGED <<at, cause, sent, attempts, acked, renewer, answer>>

(* The relay makes a result of the lease holder durable, the first that    *)
(* reaches it.                                                             *)
Accept(d) ==
    /\ holder = d
    /\ \E result \in sent[d] : answer' = <<d, result>>
    /\ holder' = None
    /\ UNCHANGED <<at, cause, sent, attempts, acked, renewer, revoked>>
-----------------------------------------------------------------------------
(* The handler.                                                            *)

Send(d, result) ==
    /\ at' = [at EXCEPT ![d] = "committing"]
    /\ sent' = [sent EXCEPT ![d] = sent[d] \cup {result}]
    /\ attempts' = [attempts EXCEPT ![d] = IF result \in sent[d] THEN attempts[d] + 1 ELSE 1]

(* An exception leaves the body of the handler: stop is set.               *)
Raise(d, why) ==
    /\ at' = [at EXCEPT ![d] = "cleanup"]
    /\ cause' = [cause EXCEPT ![d] = why]

(* A streaming model request is refused with status 400; the upstream or   *)
(* the caller's handler answers; or it fails, and 502 or 504 is sent.      *)
WorkEnds(d) ==
    /\ at[d] = "working"
    /\ \E result \in Result : Send(d, result)
    /\ UNCHANGED <<cause, acked, renewer, relayVars>>

(* The upstream body is too large, or the caller's handler raises a        *)
(* RelayApiError of its own: nothing is sent.                              *)
WorkRaises(d) ==
    /\ at[d] = "working"
    /\ Raise(d, "local")
    /\ UNCHANGED <<sent, attempts, acked, renewer, relayVars>>

(* Only forwarded answers go through commit_response_bytes_to: refusals,   *)
(* errors, and what the caller's handler returns, have one attempt.        *)
Retried(d) == d \in Forwarding /\ sent[d] = {"answer"}

CommitAcked(d) ==
    /\ at[d] = "committing"
    /\ Answered(d)
    /\ acked' = [acked EXCEPT ![d] = TRUE]
    /\ at' = [at EXCEPT ![d] = "settling"]
    /\ UNCHANGED <<cause, sent, attempts, renewer, relayVars>>

(* A variant with a bug: a 410 is always taken for one's own completion.   *)
CommitRefusedCompleted(d) ==
    /\ at[d] = "committing"
    /\ IF answer # None
       THEN at' = [at EXCEPT ![d] = "settling"] /\ UNCHANGED cause
       ELSE Raise(d, "refused")
    /\ UNCHANGED <<sent, attempts, acked, renewer, relayVars>>

(* An error that is not retryable: 409 or 410, for a lease or registration *)
(* that is gone or a request that is answered, but also 400, 401, 403, 422,*)
(* or a reply that is not JSON, which say nothing of the lease.            *)
CommitRefused(d) ==
    /\ at[d] = "committing"
    /\ Raise(d, "refused")
    /\ UNCHANGED <<sent, attempts, acked, renewer, relayVars>>

(* A variant with a bug: the attempts are counted one short.               *)
CommitLostOnceMore(d) ==
    /\ at[d] = "committing"
    /\ Retried(d) /\ attempts[d] < MaxAttempts + 1
    /\ at' = [at EXCEPT ![d] = "pausing"]
    /\ UNCHANGED <<cause, sent, attempts, acked, renewer, relayVars>>

(* No reply or a transient error, with attempts left.                      *)
CommitLost(d) ==
    /\ at[d] = "committing"
    /\ Retried(d) /\ attempts[d] < MaxAttempts
    /\ at' = [at EXCEPT ![d] = "pausing"]
    /\ UNCHANGED <<cause, sent, attempts, acked, renewer, relayVars>>

(* A variant with a bug: the error of the commit is taken for an error of  *)
(* the caller's handler, and answered with error_request.                  *)
CommitGivesUpWithError(d) ==
    /\ at[d] = "committing"
    /\ ~(Retried(d) /\ attempts[d] < MaxAttempts)
    /\ \/ Raise(d, "lost") /\ UNCHANGED sent
       \/ /\ "error" \notin sent[d]
          /\ sent' = [sent EXCEPT ![d] = sent[d] \cup {"error"}]
          /\ UNCHANGED <<at, cause>>
    /\ UNCHANGED <<attempts, acked, renewer, relayVars>>

(* The same, with none left.                                               *)
CommitGivesUp(d) ==
    /\ at[d] = "committing"
    /\ ~(Retried(d) /\ attempts[d] < MaxAttempts)
    /\ Raise(d, "lost")
    /\ UNCHANGED <<sent, attempts, acked, renewer, relayVars>>

(* The identical result is sent again.                                     *)
Resend(d) ==
    /\ at[d] = "pausing"
    /\ \E result \in sent[d] : Send(d, result)
    /\ UNCHANGED <<cause, acked, renewer, relayVars>>

(***************************************************************************)
(* The thread client makes RelayApiErrors of the OSErrors of an exchange,  *)
(* but not of one raised while the body of an error reply is read, of a    *)
(* reply that http.client cannot read, or of one that is not UTF-8         *)
(* (relay.py:648-694).  Such an exception is not retried; the handler      *)
(* takes it for one of the work and sends error_request; a second one      *)
(* leaves it.                                                              *)
(***************************************************************************)
CommitBreaks(d) ==
    /\ d \in Threaded
    /\ at[d] = "committing"
    /\ "error" \notin sent[d]
    /\ Send(d, "error")
    /\ UNCHANGED <<cause, acked, renewer, relayVars>>

ErrorBreaks(d) ==
    /\ d \in Threaded
    /\ at[d] = "committing"
    /\ "error" \in sent[d]
    /\ Raise(d, "broken")
    /\ UNCHANGED <<sent, attempts, acked, renewer, relayVars>>
-----------------------------------------------------------------------------
(* The renewer.                                                            *)

(* A variant with a bug: stop is set only when the handler fails.          *)
StoppingOnFailure(d) == at[d] \in {"cleanup"} \cup Ended

(* The stop event the handler shares with its renewer is set.              *)
Stopping(d) == at[d] \in {"settling", "cleanup"} \cup Ended

Renew(d) ==
    /\ renewer[d] = "sleeping"
    /\ ~Stopping(d)
    /\ renewer' = [renewer EXCEPT ![d] = "renewing"]
    /\ UNCHANGED <<at, cause, sent, attempts, acked, relayVars>>

(* The stop event ends the sleep.                                          *)
RenewerStops(d) ==
    /\ renewer[d] = "sleeping"
    /\ Stopping(d)
    /\ renewer' = [renewer EXCEPT ![d] = "stopped"]
    /\ UNCHANGED <<at, cause, sent, attempts, acked, relayVars>>

(* The lease is renewed, or the reply is lost, or a retryable error.       *)
RenewReturns(d) ==
    /\ renewer[d] = "renewing"
    /\ renewer' = [renewer EXCEPT ![d] = "sleeping"]
    /\ UNCHANGED <<at, cause, sent, attempts, acked, relayVars>>

(* The relay refuses: the registration is gone, the request is completed,  *)
(* or the lease is not d's any more.                                       *)
RenewRefused(d) ==
    /\ renewer[d] = "renewing"
    /\ holder # d
    /\ renewer' = [renewer EXCEPT ![d] =
                      IF answer # None /\ ~revoked THEN "completed" ELSE "rejected"]
    /\ UNCHANGED <<at, cause, sent, attempts, acked, relayVars>>

(* 400, 401, 403, 404, 422, or a reply that is not JSON: no retry either,  *)
(* whoever holds the lease.                                                *)
RenewDenied(d) ==
    /\ renewer[d] = "renewing"
    /\ renewer' = [renewer EXCEPT ![d] = "denied"]
    /\ UNCHANGED <<at, cause, sent, attempts, acked, relayVars>>

(* As CommitBreaks: the exception ends the thread, and nobody hears of it. *)
RenewBreaks(d) ==
    /\ d \in Threaded
    /\ renewer[d] = "renewing"
    /\ renewer' = [renewer EXCEPT ![d] = "broken"]
    /\ UNCHANGED <<at, cause, sent, attempts, acked, relayVars>>

Renewing(d) == renewer[d] \in {"sleeping", "renewing"}

(* The task of a handler that fails is cancelled (asyncio only).           *)
RenewerCancelled(d) ==
    /\ d \notin Threaded
    /\ Renewing(d)
    /\ at[d] = "cleanup"
    /\ renewer' = [renewer EXCEPT ![d] = "cancelled"]
    /\ UNCHANGED <<at, cause, sent, attempts, acked, relayVars>>
-----------------------------------------------------------------------------
(* A variant with a bug: the renewer is not awaited.                       *)
JoinedAtOnce(d) == TRUE

(* The handler waits for its renewer; a thread waits with a timeout.       *)
Joined(d) == d \in Threaded \/ ~Renewing(d)

(* A variant with a bug: every error of the renewer fails the handler.     *)
SettleEndsStrictly(d) ==
    /\ at[d] = "settling"
    /\ Joined(d)
    /\ at' = [at EXCEPT ![d] =
                 IF cause[d] = "cancel" THEN "cancelled"
                 ELSE IF renewer[d] \in {"completed", "rejected", "denied"} THEN "failed"
                 ELSE "ok"]
    /\ UNCHANGED <<cause, sent, attempts, acked, renewer, relayVars>>

(* A renewal that was refused because the request is completed is no error *)
(* here: the handler's own commit completed it.                            *)
SettleEnds(d) ==
    /\ at[d] = "settling"
    /\ Joined(d)
    /\ at' = [at EXCEPT ![d] = IF cause[d] = "cancel" THEN "cancelled"
                               ELSE IF renewer[d] \in {"rejected", "denied"} THEN "failed"
                               ELSE "ok"]
    /\ UNCHANGED <<cause, sent, attempts, acked, renewer, relayVars>>

CleanupEnds(d) ==
    /\ at[d] = "cleanup"
    /\ Joined(d)
    /\ at' = [at EXCEPT ![d] = IF cause[d] = "cancel" THEN "cancelled"
                               ELSE "failed"]
    /\ UNCHANGED <<cause, sent, attempts, acked, renewer, relayVars>>

(***************************************************************************)
(* The session cancels the task of the handler, wherever it is suspended.  *)
(* In "await renewer" the cancellation reaches the renewer first.          *)
(***************************************************************************)
Cancel(d) ==
    /\ d \notin Threaded
    /\ \/ /\ at[d] \in {"working", "committing", "pausing", "cleanup"}
          /\ Raise(d, "cancel")
          /\ UNCHANGED renewer
       \/ /\ at[d] = "settling"
          /\ cause' = [cause EXCEPT ![d] = "cancel"]
          /\ renewer' = [renewer EXCEPT ![d] =
                            IF Renewing(d) THEN "cancelled" ELSE renewer[d]]
          /\ UNCHANGED at
    /\ UNCHANGED <<sent, attempts, acked, relayVars>>
-----------------------------------------------------------------------------
HandlerStep(d) ==
    \/ WorkEnds(d) \/ WorkRaises(d)
    \/ CommitAcked(d) \/ CommitRefused(d) \/ CommitLost(d) \/ CommitGivesUp(d)
    \/ Resend(d) \/ CommitBreaks(d) \/ ErrorBreaks(d)
    \/ SettleEnds(d) \/ CleanupEnds(d)

RenewerStep(d) ==
    \/ RenewReturns(d) \/ RenewRefused(d) \/ RenewDenied(d) \/ RenewBreaks(d)
    \/ RenewerStops(d) \/ RenewerCancelled(d)

Done ==
    /\ \A d \in Delivery : at[d] \in Ended \cup {"none"}
    /\ UNCHANGED vars

Next ==
    \/ \E d \in Delivery :
        Lease(d) \/ Accept(d) \/ HandlerStep(d) \/ Renew(d) \/ RenewerStep(d)
            \/ Cancel(d)
    \/ Expire \/ Revoke
    \/ Done

(* Calls end, since each has a timeout; pauses and sleeps are timed; a     *)
(* handler is expected to return.  Nothing makes the relay lease or accept.*)
Fairness == \A d \in Delivery : WF_vars(HandlerStep(d)) /\ WF_vars(RenewerStep(d))

Spec == Init /\ [][Next]_vars /\ Fairness
-----------------------------------------------------------------------------
(* A delivery to an asyncio client sends one result: a commit that failed, *)
(* however it failed, is never followed by a different answer to the same  *)
(* request.  One to a thread client may send an error after its result     *)
(* (see CommitBreaks), and then nothing else.                              *)
OneResultPerDelivery ==
    [][\A d \in Delivery :
           \/ sent[d] \in {{}, sent'[d]}
           \/ d \in Threaded /\ sent'[d] = sent[d] \cup {"error"}]_vars

(* A handler ends well only if the relay made a result of its own durable, *)
(* even when its lease was lost and another delivery answered the request. *)
OkMeansDurable ==
    \A d \in Delivery : at[d] = "ok" => \E result \in sent[d] : answer = <<d, result>>

(* A delivery whose receipt has arrived fails only if the registration is  *)
(* gone or its renewal was denied for another reason than 409 or 410: a    *)
(* renewal that loses the race with the commit does not end the session    *)
(* (CHANGELOG 0.4.21).                                                     *)
AckedSurvivesRenewal ==
    \A d \in Delivery :
        acked[d] /\ at[d] = "failed" => revoked \/ renewer[d] = "denied"

(* An asyncio handler that ended leaves no renewal task behind.            *)
NoOrphanRenewer ==
    \A d \in Delivery \ Threaded : at[d] \in Ended => ~Renewing(d)

(* Every delivery comes to an end, whatever is lost, refused or cancelled. *)
EveryDeliveryEnds ==
    \A d \in Delivery : at[d] = "working" ~> at[d] \in Ended

(* README.md:509: "A lost acknowledgement retries the identical result": a *)
(* delivery whose answer the relay made durable fails for want of the      *)
(* acknowledgement only when its attempts are used up.                     *)
LostAckIsRetried ==
    \A d \in Delivery :
        Answered(d) /\ sent[d] = {"answer"} /\ at[d] = "failed" /\ cause[d] = "lost"
            => attempts[d] = MaxAttempts
=============================================================================

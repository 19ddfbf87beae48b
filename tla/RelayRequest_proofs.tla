-------------------------- MODULE RelayRequest_proofs --------------------------
(***************************************************************************)
(* One relayed request, for every set of deliveries, every choice of those *)
(* that forward or run in threads, and every number of attempts: what is   *)
(* sent, what the relay has made durable, who renews and how a handler     *)
(* ends always agree.                                                      *)
(***************************************************************************)
EXTENDS RelayRequest, TLAPS

(* A handler that has sent nothing has made no attempt, one that pauses has*)
(* another attempt left, and its receipt is what lets a handler settle.    *)
HandlerFits ==
    \A d \in Delivery :
        /\ at[d] \in {"none", "working"} => sent[d] = {} /\ attempts[d] = 0
        /\ at[d] = "pausing" => attempts[d] < MaxAttempts
        /\ at[d] \in {"none", "working", "committing", "pausing", "cleanup"} => ~acked[d]
        /\ at[d] \in {"settling", "ok"} => acked[d]

(* The durable answer is one its delivery sent, no lease is given out      *)
(* after it, and a receipt arrives only for it.                            *)
AnswerFits ==
    /\ answer # None => /\ holder = None
                        /\ answer[2] \in sent[answer[1]]
    /\ \A d \in Delivery : acked[d] => Answered(d)

(* A delivery has one lease.  One whose renewal was rejected has lost it   *)
(* for good: it can have an answer only if that was in before the          *)
(* registration went.                                                      *)
LeaseFits ==
    \A d \in Delivery :
        /\ at[d] = "none" => holder # d
        /\ renewer[d] = "none" <=> at[d] = "none"
        /\ renewer[d] = "rejected" => holder # d /\ (Answered(d) => revoked)

(* The inductive invariant.                                                *)
IInv ==
    /\ TypeOK
    /\ HandlerFits
    /\ AnswerFits
    /\ LeaseFits
    /\ AckedSurvivesRenewal
    /\ NoOrphanRenewer
-----------------------------------------------------------------------------
LEMMA InitIInv == Init => IInv
  <1> SUFFICES ASSUME Init PROVE IInv
    OBVIOUS
  <1> USE AttemptsAssumption, NoneAssumption DEF Init
  <1>0. 0 \in 0..MaxAttempts
    OBVIOUS
  <1>1. TypeOK
    BY <1>0 DEF TypeOK, Place, Cause, Result, Renewer, Ended
  <1>2. HandlerFits
    BY DEF HandlerFits
  <1>3. AnswerFits /\ LeaseFits
    BY DEF AnswerFits, LeaseFits, Answered
  <1>4. AckedSurvivesRenewal /\ NoOrphanRenewer
    BY DEF AckedSurvivesRenewal, NoOrphanRenewer, Renewing
  <1> QED
    BY <1>1, <1>2, <1>3, <1>4 DEF IInv

(* The type of every variable, action by action.                           *)
LEMMA TypeStep == TypeOK /\ HandlerFits /\ [Next]_vars => TypeOK'
  <1> SUFFICES ASSUME TypeOK, HandlerFits, [Next]_vars PROVE TypeOK'
    OBVIOUS
  <1> USE AttemptsAssumption, NoneAssumption
      DEF TypeOK, Place, Cause, Result, Renewer, Ended, relayVars
  <1>1. CASE UNCHANGED vars
    BY <1>1 DEF vars
  <1>2. ASSUME NEW d \in Delivery,
               Lease(d) \/ Accept(d) \/ HandlerStep(d) \/ Renew(d) \/ RenewerStep(d)
                   \/ Cancel(d)
        PROVE  TypeOK'
    <2>1. CASE Lease(d)
      BY <2>1 DEF Lease
    <2>2. CASE Accept(d)
      BY <2>2 DEF Accept
    <2>3. CASE WorkEnds(d)
      BY <2>3 DEF WorkEnds, Send, HandlerFits
    <2>4. CASE WorkRaises(d) \/ CommitRefused(d) \/ CommitGivesUp(d) \/ ErrorBreaks(d)
      BY <2>4 DEF WorkRaises, CommitRefused, CommitGivesUp, ErrorBreaks, Raise
    <2>5. CASE CommitAcked(d) \/ CommitLost(d)
      BY <2>5 DEF CommitAcked, CommitLost
    <2>6. CASE Resend(d)
      <3>1. PICK result \in sent[d] : Send(d, result)
        BY <2>6 DEF Resend
      <3>2. attempts[d] + 1 \in 0..MaxAttempts
        BY <2>6 DEF Resend, HandlerFits
      <3> QED
        BY <2>6, <3>1, <3>2 DEF Resend, Send
    <2>6a. CASE CommitBreaks(d)
      BY <2>6a DEF CommitBreaks, Send
    <2>7. CASE SettleEnds(d) \/ CleanupEnds(d)
      BY <2>7 DEF SettleEnds, CleanupEnds
    <2>8. CASE Renew(d) \/ RenewerStep(d)
      BY <2>8 DEF Renew, RenewerStep, RenewReturns, RenewRefused, RenewDenied,
                  RenewBreaks, RenewerStops, RenewerCancelled
    <2>9. CASE Cancel(d)
      BY <2>9 DEF Cancel, Raise
    <2> QED
      BY <1>2, <2>1, <2>2, <2>3, <2>4, <2>5, <2>6, <2>6a, <2>7, <2>8, <2>9 DEF HandlerStep
  <1>3. CASE Expire \/ Revoke
    <2>1. holder' = None /\ revoked' \in BOOLEAN
      BY <1>3 DEF Expire, Revoke
    <2>2. UNCHANGED <<at, cause, sent, attempts, acked, renewer, answer>>
      BY <1>3 DEF Expire, Revoke
    <2> QED
      BY <2>1, <2>2
  <1> QED
    BY <1>1, <1>2, <1>3 DEF Next, Done

(* What a step of the delivery d leaves alone.                             *)
LEMMA Frame ==
  ASSUME TypeOK, HandlerFits, NEW d \in Delivery,
         Lease(d) \/ Accept(d) \/ HandlerStep(d) \/ Renew(d) \/ RenewerStep(d) \/ Cancel(d)
  PROVE  /\ \A c \in Delivery \ {d} :
               /\ at'[c] = at[c]
               /\ cause'[c] = cause[c]
               /\ sent'[c] = sent[c]
               /\ attempts'[c] = attempts[c]
               /\ acked'[c] = acked[c]
               /\ renewer'[c] = renewer[c]
         /\ sent[d] \subseteq sent'[d]
         /\ \/ sent[d] \in {{}, sent'[d]}
            \/ d \in Threaded /\ sent'[d] = sent[d] \cup {"error"}
         /\ revoked' = revoked
  <1> USE DEF TypeOK, Send, Raise, relayVars
  <1>1. CASE Lease(d) \/ Accept(d)
    BY <1>1 DEF Lease, Accept
  <1>2. CASE WorkEnds(d)
    BY <1>2 DEF WorkEnds, HandlerFits
  <1>3. CASE Resend(d)
    BY <1>3 DEF Resend
  <1>3a. CASE CommitBreaks(d)
    BY <1>3a DEF CommitBreaks
  <1>4. CASE WorkRaises(d) \/ CommitRefused(d) \/ CommitGivesUp(d) \/ ErrorBreaks(d)
    BY <1>4 DEF WorkRaises, CommitRefused, CommitGivesUp, ErrorBreaks
  <1>5. CASE CommitAcked(d) \/ CommitLost(d) \/ SettleEnds(d) \/ CleanupEnds(d)
    BY <1>5 DEF CommitAcked, CommitLost, SettleEnds, CleanupEnds
  <1>6. CASE Renew(d) \/ RenewerStep(d)
    BY <1>6 DEF Renew, RenewerStep, RenewReturns, RenewRefused, RenewDenied, RenewBreaks,
                RenewerStops, RenewerCancelled
  <1>7. CASE Cancel(d)
    BY <1>7 DEF Cancel
  <1> QED
    BY <1>1, <1>2, <1>3, <1>3a, <1>4, <1>5, <1>6, <1>7 DEF HandlerStep

(* A step of one delivery keeps the invariant.                             *)
LEMMA DeliveryStep ==
  ASSUME IInv, TypeOK', NEW d \in Delivery,
         Lease(d) \/ Accept(d) \/ HandlerStep(d) \/ Renew(d) \/ RenewerStep(d) \/ Cancel(d)
  PROVE  IInv'
  <1>f. /\ \A c \in Delivery \ {d} :
               /\ at'[c] = at[c]
               /\ cause'[c] = cause[c]
               /\ sent'[c] = sent[c]
               /\ attempts'[c] = attempts[c]
               /\ acked'[c] = acked[c]
               /\ renewer'[c] = renewer[c]
        /\ sent[d] \subseteq sent'[d]
        /\ d \notin Threaded /\ sent[d] # {} => sent'[d] = sent[d]
        /\ revoked' = revoked
    BY Frame DEF IInv
  <1> USE DEF IInv, TypeOK, Ended, relayVars
  <1> USE AttemptsAssumption, NoneAssumption DEF HandlerFits, AnswerFits, Answered
  <1>1. CASE Lease(d)
    <2>1. HandlerFits' /\ AnswerFits'
      BY <1>1, <1>f DEF Lease
    <2>2. LeaseFits' /\ AckedSurvivesRenewal' /\ NoOrphanRenewer'
      BY <1>1, <1>f
      DEF LeaseFits, AckedSurvivesRenewal, NoOrphanRenewer, Renewing,
          Lease
    <2> QED
      BY <2>1, <2>2 DEF IInv
  <1>2. CASE Accept(d)
    <2>1. /\ d # None
          /\ answer = None
          /\ \A c \in Delivery : ~acked'[c]
          /\ answer' \in {d} \X sent[d] /\ answer' # None
      BY <1>2, <1>f DEF Accept
    <2>2. HandlerFits' /\ AnswerFits'
      BY <2>1, <1>2, <1>f DEF Accept
    <2>3. LeaseFits' /\ AckedSurvivesRenewal' /\ NoOrphanRenewer'
      BY <2>1, <1>2, <1>f DEF LeaseFits, AckedSurvivesRenewal, NoOrphanRenewer,
         Renewing, Accept
    <2> QED
      BY <2>2, <2>3 DEF IInv
  <1>3. CASE WorkEnds(d)
    <2>1. HandlerFits' /\ AnswerFits'
      BY <1>3, <1>f DEF WorkEnds, Send
    <2>2. LeaseFits' /\ AckedSurvivesRenewal' /\ NoOrphanRenewer'
      BY <1>3, <1>f
      DEF LeaseFits, AckedSurvivesRenewal, NoOrphanRenewer, Renewing,
          WorkEnds, Send
    <2> QED
      BY <2>1, <2>2 DEF IInv
  <1>4. CASE WorkRaises(d) \/ CommitRefused(d) \/ CommitGivesUp(d) \/ ErrorBreaks(d)
    <2>1. HandlerFits' /\ AnswerFits'
      BY <1>4, <1>f DEF WorkRaises, CommitRefused, CommitGivesUp, ErrorBreaks, Raise
    <2>2. LeaseFits' /\ AckedSurvivesRenewal' /\ NoOrphanRenewer'
      BY <1>4, <1>f
      DEF LeaseFits, AckedSurvivesRenewal, NoOrphanRenewer, Renewing,
          WorkRaises, CommitRefused, CommitGivesUp, ErrorBreaks, Raise
    <2> QED
      BY <2>1, <2>2 DEF IInv
  <1>5. CASE CommitAcked(d) \/ CommitLost(d)
    <2>1. HandlerFits' /\ AnswerFits'
      BY <1>5, <1>f DEF CommitAcked, CommitLost
    <2>2. LeaseFits' /\ AckedSurvivesRenewal' /\ NoOrphanRenewer'
      BY <1>5, <1>f
      DEF LeaseFits, AckedSurvivesRenewal, NoOrphanRenewer, Renewing,
          CommitAcked, CommitLost
    <2> QED
      BY <2>1, <2>2 DEF IInv
  <1>6. CASE Resend(d)
    <2>1. HandlerFits' /\ AnswerFits'
      BY <1>6, <1>f DEF Resend, Send
    <2>2. LeaseFits' /\ AckedSurvivesRenewal' /\ NoOrphanRenewer'
      BY <1>6, <1>f
      DEF LeaseFits, AckedSurvivesRenewal, NoOrphanRenewer, Renewing,
          Resend, Send
    <2> QED
      BY <2>1, <2>2 DEF IInv
  <1>6a. CASE CommitBreaks(d)
    <2>1. HandlerFits' /\ AnswerFits'
      BY <1>6a, <1>f DEF CommitBreaks, Send
    <2>2. LeaseFits' /\ AckedSurvivesRenewal' /\ NoOrphanRenewer'
      BY <1>6a, <1>f
      DEF LeaseFits, AckedSurvivesRenewal, NoOrphanRenewer, Renewing,
          CommitBreaks, Send
    <2> QED
      BY <2>1, <2>2 DEF IInv
  <1>7. CASE SettleEnds(d) \/ CleanupEnds(d)
    <2>1. HandlerFits' /\ AnswerFits'
      BY <1>7, <1>f DEF SettleEnds, CleanupEnds, Joined
    <2>2. LeaseFits' /\ AckedSurvivesRenewal' /\ NoOrphanRenewer'
      BY <1>7, <1>f
      DEF LeaseFits, AckedSurvivesRenewal, NoOrphanRenewer, Renewing,
          SettleEnds, CleanupEnds, Joined
    <2> QED
      BY <2>1, <2>2 DEF IInv
  <1>8. CASE Renew(d) \/ RenewerStep(d)
    <2>1. HandlerFits' /\ AnswerFits'
      BY <1>8, <1>f DEF Renew, RenewerStep, RenewReturns, RenewRefused, RenewDenied,
              RenewBreaks, RenewerStops, RenewerCancelled
    <2>2. LeaseFits' /\ AckedSurvivesRenewal' /\ NoOrphanRenewer'
      BY <1>8, <1>f
      DEF LeaseFits, AckedSurvivesRenewal, NoOrphanRenewer, Renewing,
          Renew, RenewerStep, RenewReturns, RenewRefused, RenewDenied,
              RenewBreaks, RenewerStops, RenewerCancelled
    <2> QED
      BY <2>1, <2>2 DEF IInv
  <1>9. CASE Cancel(d)
    <2>1. HandlerFits' /\ AnswerFits'
      BY <1>9, <1>f DEF Cancel, Raise
    <2>2. LeaseFits' /\ AckedSurvivesRenewal' /\ NoOrphanRenewer'
      BY <1>9, <1>f
      DEF LeaseFits, AckedSurvivesRenewal, NoOrphanRenewer, Renewing,
          Cancel, Raise
    <2> QED
      BY <2>1, <2>2 DEF IInv
  <1> QED
    BY <1>1, <1>2, <1>3, <1>4, <1>5, <1>6, <1>6a, <1>7, <1>8, <1>9 DEF HandlerStep

(* Every step keeps the invariant.                                         *)
LEMMA StepIInv == IInv /\ [Next]_vars => IInv'
  <1> SUFFICES ASSUME IInv, [Next]_vars PROVE IInv'
    OBVIOUS
  <1>1. TypeOK'
    BY TypeStep DEF IInv
  <1>2. ASSUME NEW d \in Delivery,
               Lease(d) \/ Accept(d) \/ HandlerStep(d) \/ Renew(d) \/ RenewerStep(d)
                   \/ Cancel(d)
        PROVE  IInv'
    BY <1>1, <1>2, DeliveryStep
  <1>3. CASE Expire \/ Revoke
    <2>1. HandlerFits' /\ AckedSurvivesRenewal' /\ NoOrphanRenewer'
      BY <1>3 DEF IInv, TypeOK, HandlerFits, AckedSurvivesRenewal, NoOrphanRenewer,
                  Renewing, Expire, Revoke
    <2>2. AnswerFits'
      BY <1>3 DEF IInv, AnswerFits, Answered, Expire, Revoke
    <2>3. LeaseFits'
      BY <1>3, NoneAssumption DEF IInv, TypeOK, LeaseFits, Answered, Expire, Revoke
    <2> QED
      BY <1>1, <2>1, <2>2, <2>3 DEF IInv
  <1>4. CASE UNCHANGED vars
    BY <1>4 DEF vars, IInv, TypeOK, HandlerFits, AnswerFits, LeaseFits,
                AckedSurvivesRenewal, NoOrphanRenewer, Answered, Renewing
  <1> QED
    BY <1>2, <1>3, <1>4 DEF Next, Done

(* The invariant holds in every behaviour.                                 *)
THEOREM Invariant == Spec => []IInv
  BY InitIInv, StepIInv, PTL DEF Spec

(* Every variable keeps its type; in particular commit_response_bytes_to   *)
(* never starts more attempts than it is allowed.                          *)
THEOREM TypeCorrect == Spec => []TypeOK
  <1>1. IInv => TypeOK
    BY DEF IInv
  <1> QED
    BY Invariant, <1>1, PTL

(* _handle_async_request and _handle_sync_request return without an error  *)
(* only if the relay has made a result of this delivery durable: a lease   *)
(* that was lost meanwhile, and another delivery that answered, are never  *)
(* taken for a commit of one's own.                                        *)
THEOREM EndedOkIsDurable == Spec => []OkMeansDurable
  <1>1. IInv => OkMeansDurable
    <2> SUFFICES ASSUME IInv, NEW d \in Delivery, at[d] = "ok"
                 PROVE  \E result \in sent[d] : answer = <<d, result>>
      BY DEF OkMeansDurable
    <2>1. acked[d]
      BY DEF IInv, HandlerFits
    <2>2. answer # None /\ answer[1] = d
      BY <2>1 DEF IInv, AnswerFits, Answered
    <2>3. answer \in Delivery \X Result /\ answer[2] \in sent[d]
      BY <2>2 DEF IInv, TypeOK, AnswerFits
    <2> QED
      BY <2>2, <2>3
  <1> QED
    BY Invariant, <1>1, PTL

(* The renewal that loses the race with the commit of its own delivery is  *)
(* refused with 410 and does not fail the handler.                         *)
THEOREM ReceiptSurvivesRenewal == Spec => []AckedSurvivesRenewal
  <1>1. IInv => AckedSurvivesRenewal
    BY DEF IInv
  <1> QED
    BY Invariant, <1>1, PTL

(* However an asyncio handler ends, cancelled while it waits for its       *)
(* renewer included, the renewal task has ended before it.                 *)
THEOREM RenewerNeverOutlives == Spec => []NoOrphanRenewer
  <1>1. IInv => NoOrphanRenewer
    BY DEF IInv
  <1> QED
    BY Invariant, <1>1, PTL

(* An attempt that is repeated, and every way out of a failed commit, leave*)
(* the result as it was, for asyncio clients always (_request_json wraps   *)
(* every exception there, so that error_request never follows a commit);   *)
(* what a thread client may add is an error.                               *)
THEOREM OneResult == Spec => OneResultPerDelivery
  <1> DEFINE Keeps(d) == \/ sent[d] \in {{}, sent'[d]}
                         \/ d \in Threaded /\ sent'[d] = sent[d] \cup {"error"}
  <1>1. IInv /\ [Next]_vars => [\A d \in Delivery : Keeps(d)]_vars
    <2> SUFFICES ASSUME IInv, Next, NEW d \in Delivery PROVE Keeps(d)
      OBVIOUS
    <2>1. ASSUME NEW c \in Delivery,
                 Lease(c) \/ Accept(c) \/ HandlerStep(c) \/ Renew(c) \/ RenewerStep(c)
                     \/ Cancel(c)
          PROVE  Keeps(d)
      BY <2>1, Frame DEF IInv
    <2>2. CASE Expire \/ Revoke \/ Done
      BY <2>2 DEF Expire, Revoke, Done, vars
    <2> QED
      BY <2>1, <2>2 DEF Next
  <1> QED
    BY Invariant, <1>1, PTL DEF Spec, OneResultPerDelivery
=============================================================================

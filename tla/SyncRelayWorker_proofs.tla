------------------------- MODULE SyncRelayWorker_proofs -------------------------
(***************************************************************************)
(* Registrations and thread sessions, for every set of sessions, of loops, *)
(* and every number of handlers, permits and attempts: closing an older    *)
(* registration ends no newer one, an acknowledged close leaves nothing    *)
(* behind, a loop serves its own registration and leaves nothing behind.   *)
(***************************************************************************)
EXTENDS SyncRelayWorker, FiniteSetTheorems, TLAPS

(* The session s has been told its token: whoever uses it, uses it after   *)
(* the relay answered the registration.                                    *)
Known(s) == at[s] \notin {"new", "registering", "rejected"}

(***************************************************************************)
(* A token that somebody holds belongs to a session that knows it; one     *)
(* that is held is held by its own session, unless the client remembers it.*)
(***************************************************************************)
TokensKnown ==
    /\ remembered # None => Known(remembered)
    /\ \A s \in Session :
          /\ token[s] \in {s, None}
          /\ at[s] \in {"open", "deleting", "pausing", "unclosed"} => token[s] = s
          /\ at[s] \in {"new", "registering", "rejected"} => target[s] = None
          /\ at[s] = "open" => target[s] = None
          /\ target[s] \in {s, None}
    /\ \A c \in Caller :
          /\ target[c] # None => Known(target[c])
          /\ at[c] \in {"deleting", "pausing", "closed", "unclosed"} => target[c] # None
    /\ at[Direct] = "open" => target[Direct] = None
    /\ at[Direct] \notin {"new", "registering", "rejected"}

(***************************************************************************)
(* What is under way fits its sender: a session registers once, its call   *)
(* is no longer under way when it knows its token, and an unregistration   *)
(* names the target of its caller.                                         *)
(***************************************************************************)
MailFits ==
    /\ \A m \in mail :
          /\ m.call = "register" => m.from \in Session /\ m.token = m.from
          /\ m.call = "delete" => m.token = target[m.from] /\ m.token # None
    /\ \A s \in Session :
          /\ at[s] = "new" \/ reply[s] # "none" \/ Known(s) =>
                [call |-> "register", from |-> s, token |-> s] \notin mail

(* A caller that reads of its success left nothing behind.                 *)
AnswersTrue ==
    \A c \in Caller :
       at[c] = "deleting" /\ reply[c] = "ok" => registered # target[c]

(* No unregistration pauses after its last attempt.                        *)
AttemptsFit == \A c \in Caller : at[c] = "pausing" => attempts[c] < Attempts

(* The part of the invariant that is about registrations.                  *)
RegistrationInv ==
    /\ RegistrationTypeOK
    /\ TokensKnown
    /\ MailFits
    /\ AnswersTrue
    /\ AttemptsFit
    /\ ClosedMeansGone
    /\ NewestSurvives

(* The loop of a session runs while the session is open, polls with its    *)
(* token, has room where it goes on to lease or to retry, and outlives its *)
(* handlers and their callbacks.                                           *)
LoopFits ==
    \A s \in Session :
       /\ run[s] \notin {"none", "returned", "raised"} => at[s] = "open"
       /\ run[s] = "polling" => polled[s] = s
       /\ run[s] = "none" => failed[s] = 0 /\ errors[s] = 0
       /\ run[s] \in {"none", "returned", "raised"} => running[s] = 0 /\ settling[s] = 0
       /\ run[s] \in {"admission", "polling"} => running[s] < MaxConcurrency
       /\ run[s] \in {"loop", "full", "admission", "polling", "pausing"}
             => errors[s] < MaxErrors

(* The part that is about the loops.                                       *)
LoopInv ==
    /\ WorkerTypeOK
    /\ LoopFits
    /\ OwnRequests

(* The part that is about the permits that the loops share.                *)
PermitInv == IsFiniteSet(PermitsInHand) /\ EndedRunsGiveBack

SessionInv == RegistrationInv /\ LoopInv

(* The inductive invariant.                                                *)
IInv == SessionInv /\ PermitInv
-----------------------------------------------------------------------------
(* The actions on registrations one by one.                                *)

LEMMA ProcessKeeps ==
    ASSUME RegistrationInv, Process
    PROVE  RegistrationInv'
  <1>1. PICK m \in mail :
            /\ ProcessRegister(m) \/ ProcessDelete(m)
            /\ mail' = mail \ {m}
    BY DEF Process
  <1>2. /\ UNCHANGED <<remembered, token, at, target, attempts>>
        /\ m \in [call : {"register", "delete"}, from : Caller, token : Token]
    BY DEF Process, RegistrationInv, RegistrationTypeOK
  <1>3. UNCHANGED <<TokensKnown, AttemptsFit>>
    BY <1>2 DEF TokensKnown, AttemptsFit, Known
  <1>4. CASE ProcessRegister(m)
    <2>1. m.call = "register" /\ m.from \in Session /\ m.token = m.from
      BY <1>4 DEF ProcessRegister, RegistrationInv, MailFits
    <2>2. m = [call |-> "register", from |-> m.token, token |-> m.token]
      BY <1>2, <2>1
    <2>3. ~Known(m.token)
      BY <1>1, <2>1, <2>2 DEF RegistrationInv, MailFits
    <2>4. RegistrationTypeOK'
      BY <1>1, <1>2, <1>4 DEF ProcessRegister, RegistrationInv, RegistrationTypeOK
    <2>5. MailFits'
      BY <1>1, <1>2, <1>4, <2>1, <2>2
         DEF ProcessRegister, RegistrationInv, RegistrationTypeOK, MailFits, Known, Caller
    <2>6. AnswersTrue' /\ ClosedMeansGone'
      <3>1. \A c \in Caller : target[c] # None => target[c] # m.token
        BY <2>3 DEF RegistrationInv, TokensKnown
      <3>2. \A c \in Caller : at[c] \in {"deleting", "closed"} => target[c] # m.token
        BY <3>1 DEF RegistrationInv, TokensKnown
      <3>3. QED
        BY <1>2, <1>4, <3>2 DEF ProcessRegister, AnswersTrue, ClosedMeansGone
    <2>7. NewestSurvives'
      BY <1>4 DEF ProcessRegister, NewestSurvives
    <2>8. QED
      BY <1>3, <2>4, <2>5, <2>6, <2>7 DEF RegistrationInv
  <1>5. CASE ProcessDelete(m)
    <2>1. m.call = "delete" /\ m.token = target[m.from] /\ m.token # None
      BY <1>5 DEF ProcessDelete, RegistrationInv, MailFits
    <2>2. /\ registered' = IF registered = m.token THEN None ELSE registered
          /\ UNCHANGED <<newest, expired>>
      BY <1>5 DEF ProcessDelete
    <2>3. PICK answer \in {"ok", "refused"} :
              reply' = IF Awaited(m) THEN [reply EXCEPT ![m.from] = answer] ELSE reply
      BY <1>5 DEF ProcessDelete
    <2>4. RegistrationTypeOK'
      BY <1>1, <1>2, <2>2, <2>3 DEF RegistrationInv, RegistrationTypeOK
    <2>5. MailFits'
      <3>1. \A s \in Session : reply'[s] # reply[s] => Known(s)
        BY <1>2, <2>1, <2>3 DEF Awaited, Known, RegistrationInv, RegistrationTypeOK, Caller
      <3>2. QED
        BY <1>1, <1>2, <3>1 DEF RegistrationInv, MailFits, Known
    <2>6. AnswersTrue'
      <3>1. \A c \in Caller : at[c] = "deleting" => target[c] # None
        BY DEF RegistrationInv, TokensKnown
      <3>2. \A c \in Caller : reply'[c] # reply[c] => c = m.from
        BY <1>2, <2>3 DEF RegistrationInv, RegistrationTypeOK
      <3>3. registered' # m.token
        BY <2>1, <2>2
      <3>4. QED
        BY <1>2, <2>1, <2>2, <3>1, <3>2, <3>3 DEF AnswersTrue, RegistrationInv
    <2>7. ClosedMeansGone'
      BY <1>2, <2>2 DEF ClosedMeansGone, RegistrationInv, TokensKnown
    <2>8. NewestSurvives'
      BY <1>2, <2>1, <2>2 DEF NewestSurvives, RegistrationInv
    <2>9. QED
      BY <1>3, <2>4, <2>5, <2>6, <2>7, <2>8 DEF RegistrationInv
  <1>6. QED
    BY <1>1, <1>4, <1>5

LEMMA ExpireKeeps ==
    ASSUME RegistrationInv, Expire
    PROVE  RegistrationInv'
  <1>1. /\ registered' = None
        /\ expired'
        /\ UNCHANGED <<remembered, token, at, target, attempts, reply, newest, mail>>
    BY DEF Expire
  <1>2. RegistrationTypeOK' /\ TokensKnown' /\ MailFits' /\ AttemptsFit'
    BY <1>1 DEF RegistrationInv, RegistrationTypeOK, TokensKnown, MailFits,
                AttemptsFit, Known
  <1>3. AnswersTrue' /\ ClosedMeansGone'
    BY <1>1 DEF RegistrationInv, TokensKnown, AnswersTrue, ClosedMeansGone
  <1>4. NewestSurvives'
    BY <1>1 DEF NewestSurvives
  <1>5. QED
    BY <1>2, <1>3, <1>4 DEF RegistrationInv

LEMMA EnterKeeps ==
    ASSUME RegistrationInv, NEW s \in Session, Enter(s)
    PROVE  RegistrationInv'
  <1>1. /\ at[s] = "new" /\ at' = [at EXCEPT ![s] = "registering"]
        /\ reply' = [reply EXCEPT ![s] = "none"]
        /\ mail' = mail \cup {[call |-> "register", from |-> s, token |-> s]}
        /\ UNCHANGED <<remembered, token, target, attempts, registered, newest, expired>>
    BY DEF Enter, Moves, Send, relayVars
  <1>2. s \in Caller /\ s # Direct
    BY CallerAssumption DEF Caller
  <1>3. RegistrationTypeOK'
    BY <1>1, <1>2 DEF RegistrationInv, RegistrationTypeOK, Token, Place
  <1>4. \A c \in Caller : c # s => Known(c)' = Known(c) /\ at'[c] = at[c] /\ reply'[c] = reply[c]
    BY <1>1 DEF Known, RegistrationInv, RegistrationTypeOK
  <1>5. ~Known(s) /\ ~Known(s)' /\ at'[s] = "registering" /\ reply'[s] = "none"
    BY <1>1, <1>2 DEF Known, RegistrationInv, RegistrationTypeOK
  <1>6. TokensKnown'
    BY <1>1, <1>2, <1>4, <1>5
       DEF RegistrationInv, RegistrationTypeOK, TokensKnown, Caller, Token
  <1>7. MailFits'
    BY <1>1, <1>2, <1>4, <1>5 DEF RegistrationInv, MailFits, Caller
  <1>8. AnswersTrue' /\ AttemptsFit' /\ ClosedMeansGone' /\ NewestSurvives'
    BY <1>1, <1>4, <1>5
       DEF RegistrationInv, AnswersTrue, AttemptsFit, ClosedMeansGone, NewestSurvives
  <1>9. QED
    BY <1>3, <1>6, <1>7, <1>8 DEF RegistrationInv

(* The session learns its token, and the client remembers it.              *)
LEMMA EnteredKeeps ==
    ASSUME RegistrationInv, NEW s \in Session, Entered(s)
    PROVE  RegistrationInv'
  <1>1. /\ at[s] = "registering" /\ reply[s] = "ok"
        /\ at' = [at EXCEPT ![s] = "open"]
        /\ reply' = [reply EXCEPT ![s] = "none"]
        /\ remembered' = s
        /\ token' = [token EXCEPT ![s] = s]
        /\ UNCHANGED <<target, attempts, registered, newest, expired, mail>>
    BY DEF Entered, Moves, relayVars
  <1>2. s \in Caller /\ s # Direct /\ s # None
    BY CallerAssumption DEF Caller
  <1>3. RegistrationTypeOK'
    BY <1>1, <1>2 DEF RegistrationInv, RegistrationTypeOK, Token, Place
  <1>4. \A c \in Caller : c # s => Known(c)' = Known(c) /\ at'[c] = at[c] /\ reply'[c] = reply[c]
    BY <1>1 DEF Known, RegistrationInv, RegistrationTypeOK
  <1>5. Known(s)' /\ at'[s] = "open" /\ reply'[s] = "none"
    BY <1>1, <1>2 DEF Known, RegistrationInv, RegistrationTypeOK
  <1>6. TokensKnown'
    BY <1>1, <1>2, <1>4, <1>5
       DEF RegistrationInv, RegistrationTypeOK, TokensKnown, Caller, Token
  <1>7. MailFits'
    BY <1>1, <1>2, <1>4, <1>5 DEF RegistrationInv, MailFits, Caller
  <1>8. AnswersTrue' /\ AttemptsFit' /\ ClosedMeansGone' /\ NewestSurvives'
    BY <1>1, <1>4, <1>5
       DEF RegistrationInv, AnswersTrue, AttemptsFit, ClosedMeansGone, NewestSurvives
  <1>9. QED
    BY <1>3, <1>6, <1>7, <1>8 DEF RegistrationInv

LEMMA EnterFailsKeeps ==
    ASSUME RegistrationInv, NEW s \in Session, EnterFails(s)
    PROVE  RegistrationInv'
  <1>1. /\ at[s] = "registering"
        /\ at' = [at EXCEPT ![s] = "rejected"]
        /\ reply' = [reply EXCEPT ![s] = "none"]
        /\ UNCHANGED <<remembered, token, target, attempts, registered, newest, expired, mail>>
    BY DEF EnterFails, Moves, relayVars
  <1>2. s \in Caller /\ s # Direct /\ s # None
    BY CallerAssumption DEF Caller
  <1>3. RegistrationTypeOK'
    BY <1>1, <1>2 DEF RegistrationInv, RegistrationTypeOK, Place
  <1>4. \A c \in Caller : c # s => Known(c)' = Known(c) /\ at'[c] = at[c] /\ reply'[c] = reply[c]
    BY <1>1 DEF Known, RegistrationInv, RegistrationTypeOK
  <1>5. ~Known(s) /\ ~Known(s)' /\ at'[s] = "rejected" /\ reply'[s] = "none"
    BY <1>1, <1>2 DEF Known, RegistrationInv, RegistrationTypeOK
  <1>6. TokensKnown'
    BY <1>1, <1>2, <1>4, <1>5
       DEF RegistrationInv, RegistrationTypeOK, TokensKnown, Caller, Token
  <1>7. MailFits'
    BY <1>1, <1>2, <1>4, <1>5 DEF RegistrationInv, MailFits, Caller
  <1>8. AnswersTrue' /\ AttemptsFit' /\ ClosedMeansGone' /\ NewestSurvives'
    BY <1>1, <1>4, <1>5
       DEF RegistrationInv, AnswersTrue, AttemptsFit, ClosedMeansGone, NewestSurvives
  <1>9. QED
    BY <1>3, <1>6, <1>7, <1>8 DEF RegistrationInv

(* Whatever remembers the token of an open session, as Remember and a poll *)
(* of the worker loop do.                                                  *)
LEMMA RememberKeeps ==
    ASSUME RegistrationInv, NEW s \in Session, Remember(s)
    PROVE  RegistrationInv'
  <1>1. /\ at[s] = "open" /\ remembered' = token[s]
        /\ UNCHANGED <<token, at, target, attempts, reply, registered, newest, expired, mail>>
    BY DEF Remember, relayVars
  <1>2. token[s] = s /\ Known(s)
    BY <1>1 DEF RegistrationInv, TokensKnown, Known
  <1>3. QED
    BY <1>1, <1>2
       DEF RegistrationInv, RegistrationTypeOK, TokensKnown, MailFits, AnswersTrue,
           AttemptsFit, ClosedMeansGone, NewestSurvives, Known, Token

(* An unregistration of token t begins: by its session, or by the direct   *)
(* caller, who had no target before.                                       *)
LEMMA UnregisterKeeps ==
    ASSUME RegistrationInv, NEW c \in Caller, NEW t,
           Unregister(c, t),
           Known(c),
           t # None => t \in Session /\ Known(t),
           target[c] \in {t, None},
           c \in Session => t = c /\ token[c] = c,
           remembered' \in {remembered, t},
           UNCHANGED <<token, relayVars>>
    PROVE  RegistrationInv'
  <1>1. /\ t # None
        /\ target' = [target EXCEPT ![c] = t]
        /\ attempts' = [attempts EXCEPT ![c] = 1]
        /\ at' = [at EXCEPT ![c] = "deleting"]
        /\ reply' = [reply EXCEPT ![c] = "none"]
        /\ mail' = mail \cup {[call |-> "delete", from |-> c, token |-> t]}
        /\ UNCHANGED <<registered, newest, expired>>
    BY DEF Unregister, Moves, Send, relayVars
  <1>2. t \in Session /\ Known(t)
    BY <1>1
  <1>3. RegistrationTypeOK'
    BY <1>1, <1>2, AttemptsAssumption
       DEF RegistrationInv, RegistrationTypeOK, Place, Token
  <1>4. \A d \in Caller : d # c => /\ at'[d] = at[d] /\ reply'[d] = reply[d]
                                   /\ target'[d] = target[d]
    BY <1>1 DEF RegistrationInv, RegistrationTypeOK
  <1>5. at'[c] = "deleting" /\ reply'[c] = "none" /\ target'[c] = t /\ Known(c)'
    BY <1>1 DEF RegistrationInv, RegistrationTypeOK, Known
  <1>6. \A d \in Caller : Known(d)' = Known(d)
    BY <1>4, <1>5 DEF Known
  <1>7. TokensKnown'
    <2>1. remembered' # None => at'[remembered'] \notin {"new", "registering", "rejected"}
      BY <1>2, <1>6 DEF RegistrationInv, RegistrationTypeOK, TokensKnown, Caller, Token, Known
    <2>2. \A s \in Session :
             /\ token'[s] \in {s, None}
             /\ at'[s] \in {"open", "deleting", "pausing", "unclosed"} => token'[s] = s
      BY <1>4, <1>5 DEF RegistrationInv, TokensKnown, Caller
    <2>3. \A s \in Session :
             /\ at'[s] \in {"new", "registering", "rejected"} => target'[s] = None
             /\ at'[s] = "open" => target'[s] = None
             /\ target'[s] \in {s, None}
      BY <1>4, <1>5 DEF RegistrationInv, TokensKnown, Caller
    <2>4. \A d \in Caller :
             target'[d] # None => at'[target'[d]] \notin {"new", "registering", "rejected"}
      BY <1>2, <1>4, <1>5, <1>6
         DEF RegistrationInv, RegistrationTypeOK, TokensKnown, Caller, Token, Known
    <2>5. \A d \in Caller :
             at'[d] \in {"deleting", "pausing", "closed", "unclosed"} => target'[d] # None
      BY <1>1, <1>4, <1>5 DEF RegistrationInv, TokensKnown
    <2>6. /\ at'[Direct] = "open" => target'[Direct] = None
          /\ at'[Direct] \notin {"new", "registering", "rejected"}
      BY <1>4, <1>5 DEF RegistrationInv, TokensKnown, Caller
    <2>7. QED
      BY <2>1, <2>2, <2>3, <2>4, <2>5, <2>6 DEF TokensKnown, Known
  <1>8. MailFits'
    <2>1. \A m \in mail : m.call = "delete" /\ m.from = c => m.token = t
      BY DEF RegistrationInv, MailFits
    <2>2. QED
      BY <1>1, <1>2, <1>4, <1>5, <1>6, <2>1
         DEF RegistrationInv, RegistrationTypeOK, MailFits, Caller
  <1>9. AnswersTrue' /\ AttemptsFit' /\ ClosedMeansGone'
    BY <1>1, <1>4, <1>5
       DEF RegistrationInv, RegistrationTypeOK, AnswersTrue, AttemptsFit, ClosedMeansGone
  <1>10. NewestSurvives'
    BY <1>1, <1>4, <1>5 DEF RegistrationInv, NewestSurvives
  <1>11. QED
    BY <1>3, <1>7, <1>8, <1>9, <1>10 DEF RegistrationInv

LEMMA CloseKeeps ==
    ASSUME RegistrationInv, NEW s \in Session, Close(s)
    PROVE  RegistrationInv'
  <1>1. /\ at[s] \in {"open", "unclosed"}
        /\ Unregister(s, token[s])
        /\ remembered' = token[s]
        /\ UNCHANGED <<token, relayVars>>
    BY DEF Close
  <1>2. token[s] = s /\ Known(s) /\ target[s] \in {s, None}
    BY <1>1 DEF RegistrationInv, TokensKnown, Known
  <1>3. QED
    BY <1>1, <1>2, UnregisterKeeps DEF Caller

LEMMA CloseDirectlyKeeps ==
    ASSUME RegistrationInv, CloseDirectly
    PROVE  RegistrationInv'
  <1>1. /\ at[Direct] = "open"
        /\ Unregister(Direct, remembered)
        /\ UNCHANGED <<remembered, token, relayVars>>
    BY DEF CloseDirectly
  <1>2. /\ target[Direct] = None
        /\ Known(Direct)
        /\ remembered # None => remembered \in Session /\ Known(remembered)
    BY <1>1 DEF RegistrationInv, RegistrationTypeOK, TokensKnown, Known, Token
  <1>3. Direct \in Caller /\ Direct \notin Session
    BY CallerAssumption DEF Caller
  <1>4. QED
    BY <1>1, <1>2, <1>3, UnregisterKeeps

LEMMA ClosedKeeps ==
    ASSUME RegistrationInv, NEW c \in Caller, Closed(c)
    PROVE  RegistrationInv'
  <1>1. /\ at[c] = "deleting" /\ reply[c] = "ok"
        /\ remembered' = None
        /\ token' = IF c = Direct THEN token ELSE [token EXCEPT ![c] = None]
        /\ attempts' = [attempts EXCEPT ![c] = 0]
        /\ at' = [at EXCEPT ![c] = "closed"]
        /\ reply' = [reply EXCEPT ![c] = "none"]
        /\ UNCHANGED <<target, registered, newest, expired, mail>>
    BY DEF Closed, Moves, relayVars
  <1>2. RegistrationTypeOK'
    <2>1. token' \in [Session -> Token \cup {None}]
      BY <1>1 DEF RegistrationInv, RegistrationTypeOK
    <2>2. QED
      BY <1>1, <2>1, AttemptsAssumption DEF RegistrationInv, RegistrationTypeOK, Place
  <1>3. \A d \in Caller : d # c => at'[d] = at[d] /\ reply'[d] = reply[d]
    BY <1>1 DEF RegistrationInv, RegistrationTypeOK
  <1>4. at'[c] = "closed" /\ reply'[c] = "none" /\ Known(c)
    BY <1>1 DEF RegistrationInv, RegistrationTypeOK, Known
  <1>5. \A d \in Caller : Known(d)' = Known(d)
    BY <1>3, <1>4 DEF Known
  <1>6. \A s \in Session : token'[s] = IF s = c THEN None ELSE token[s]
    BY <1>1, CallerAssumption DEF RegistrationInv, RegistrationTypeOK, Caller
  <1>7. TokensKnown'
    BY <1>1, <1>3, <1>4, <1>5, <1>6
       DEF RegistrationInv, RegistrationTypeOK, TokensKnown, Caller, Token
  <1>8. MailFits'
    BY <1>1, <1>3, <1>4, <1>5 DEF RegistrationInv, RegistrationTypeOK, MailFits, Caller
  <1>9. AnswersTrue' /\ AttemptsFit' /\ ClosedMeansGone' /\ NewestSurvives'
    BY <1>1, <1>3, <1>4
       DEF RegistrationInv, RegistrationTypeOK, AnswersTrue, AttemptsFit,
           ClosedMeansGone, NewestSurvives
  <1>10. QED
    BY <1>2, <1>7, <1>8, <1>9 DEF RegistrationInv

(* An attempt ends without the answer that would close the caller: it      *)
(* pauses before another, or is over.                                      *)
LEMMA DeleteEndsKeeps ==
    ASSUME RegistrationInv, NEW c \in Caller, DeleteLost(c) \/ CloseFails(c)
    PROVE  RegistrationInv'
  <1>1. PICK place \in {"pausing", "unclosed"} :
            /\ at[c] \in {"deleting", "pausing"}
            /\ at' = [at EXCEPT ![c] = place]
            /\ reply' = [reply EXCEPT ![c] = "none"]
            /\ place = "pausing" => attempts[c] < Attempts /\ attempts' = attempts
            /\ attempts' \in {attempts, [attempts EXCEPT ![c] = 0]}
            /\ UNCHANGED <<remembered, token, target, registered, newest, expired, mail>>
    BY DEF DeleteLost, CloseFails, Moves, relayVars
  <1>2. RegistrationTypeOK'
    BY <1>1, AttemptsAssumption DEF RegistrationInv, RegistrationTypeOK, Place
  <1>3. \A d \in Caller : d # c => /\ at'[d] = at[d] /\ reply'[d] = reply[d]
                                   /\ attempts'[d] = attempts[d]
    BY <1>1 DEF RegistrationInv, RegistrationTypeOK
  <1>4. at'[c] \in {"pausing", "unclosed"} /\ reply'[c] = "none" /\ Known(c)
    BY <1>1 DEF RegistrationInv, RegistrationTypeOK, Known
  <1>5. \A d \in Caller : Known(d)' = Known(d)
    BY <1>3, <1>4 DEF Known
  <1>6. TokensKnown'
    BY <1>1, <1>3, <1>4, <1>5
       DEF RegistrationInv, RegistrationTypeOK, TokensKnown, Caller, Token
  <1>7. MailFits'
    BY <1>1, <1>3, <1>4, <1>5 DEF RegistrationInv, RegistrationTypeOK, MailFits, Caller
  <1>8. AttemptsFit'
    BY <1>1, <1>3, <1>4 DEF RegistrationInv, RegistrationTypeOK, AttemptsFit
  <1>9. AnswersTrue' /\ ClosedMeansGone' /\ NewestSurvives'
    BY <1>1, <1>3, <1>4
       DEF RegistrationInv, AnswersTrue, ClosedMeansGone, NewestSurvives
  <1>10. QED
    BY <1>2, <1>6, <1>7, <1>8, <1>9 DEF RegistrationInv

LEMMA DeleteAgainKeeps ==
    ASSUME RegistrationInv, NEW c \in Caller, DeleteAgain(c)
    PROVE  RegistrationInv'
  <1>1. /\ at[c] = "pausing"
        /\ attempts' = [attempts EXCEPT ![c] = attempts[c] + 1]
        /\ at' = [at EXCEPT ![c] = "deleting"]
        /\ reply' = [reply EXCEPT ![c] = "none"]
        /\ mail' = mail \cup {[call |-> "delete", from |-> c, token |-> target[c]]}
        /\ UNCHANGED <<remembered, token, target, registered, newest, expired>>
    BY DEF DeleteAgain, Moves, Send, Fence, relayVars
  <1>2. attempts[c] < Attempts /\ target[c] # None /\ target[c] \in Session
    BY <1>1 DEF RegistrationInv, RegistrationTypeOK, AttemptsFit, TokensKnown, Token
  <1>3. RegistrationTypeOK'
    BY <1>1, <1>2, AttemptsAssumption DEF RegistrationInv, RegistrationTypeOK, Place, Token
  <1>4. \A d \in Caller : d # c => at'[d] = at[d] /\ reply'[d] = reply[d]
    BY <1>1 DEF RegistrationInv, RegistrationTypeOK
  <1>5. at'[c] = "deleting" /\ reply'[c] = "none" /\ Known(c)
    BY <1>1 DEF RegistrationInv, RegistrationTypeOK, Known
  <1>6. \A d \in Caller : Known(d)' = Known(d)
    BY <1>4, <1>5 DEF Known
  <1>7. TokensKnown'
    BY <1>1, <1>4, <1>5, <1>6
       DEF RegistrationInv, RegistrationTypeOK, TokensKnown, Caller, Token
  <1>8. MailFits'
    BY <1>1, <1>2, <1>4, <1>5, <1>6
       DEF RegistrationInv, RegistrationTypeOK, MailFits, Caller
  <1>9. AnswersTrue' /\ AttemptsFit' /\ ClosedMeansGone' /\ NewestSurvives'
    BY <1>1, <1>4, <1>5
       DEF RegistrationInv, RegistrationTypeOK, AnswersTrue, AttemptsFit,
           ClosedMeansGone, NewestSurvives
  <1>10. QED
    BY <1>3, <1>7, <1>8, <1>9 DEF RegistrationInv

LEMMA RegistrationStepKeeps ==
    ASSUME RegistrationInv, RegistrationStep
    PROVE  RegistrationInv'
  BY ProcessKeeps, ExpireKeeps, EnterKeeps, EnteredKeeps, EnterFailsKeeps,
     RememberKeeps, CloseDirectlyKeeps, ClosedKeeps, DeleteEndsKeeps, DeleteAgainKeeps
     DEF RegistrationStep

LEMMA RegistrationStutters ==
    ASSUME RegistrationInv, UNCHANGED registrationVars
    PROVE  RegistrationInv'
  BY DEF registrationVars, relayVars, RegistrationInv, RegistrationTypeOK, TokensKnown,
         MailFits, AnswersTrue, AttemptsFit, ClosedMeansGone, NewestSurvives, Known

-----------------------------------------------------------------------------
(* The loops.  What happens to registrations leaves the loops alone, and   *)
(* a session whose loop runs stays open.                                   *)

InLoop(s) == run[s] \notin {"none", "returned", "raised"}

LEMMA RegistrationKeepsOpen ==
    ASSUME RegistrationInv, RegistrationStep, NEW s \in Session, at[s] = "open"
    PROVE  at'[s] = "open"
  <1>1. s # Direct /\ s \in Caller /\ at \in [Caller -> Place]
    BY CallerAssumption DEF RegistrationInv, RegistrationTypeOK, Caller
  <1>2. CASE Process \/ Expire
    BY <1>2 DEF Process, Expire
  <1>3. ASSUME NEW r \in Session, Enter(r) \/ Entered(r) \/ EnterFails(r) \/ Remember(r)
        PROVE  at'[s] = "open"
    BY <1>1, <1>3 DEF Enter, Entered, EnterFails, Remember, Moves
  <1>4. CASE CloseDirectly
    BY <1>1, <1>4 DEF CloseDirectly, Unregister, Moves
  <1>5. ASSUME NEW c \in Caller, Closed(c) \/ DeleteLost(c) \/ DeleteAgain(c) \/ CloseFails(c)
        PROVE  at'[s] = "open"
    BY <1>1, <1>5 DEF Closed, DeleteLost, DeleteAgain, CloseFails, Moves
  <1>6. QED
    BY <1>2, <1>3, <1>4, <1>5 DEF RegistrationStep

LEMMA LoopsLeftAlone ==
    ASSUME LoopInv, UNCHANGED workerVars,
           \A s \in Session : InLoop(s) /\ at[s] = "open" => at'[s] = "open"
    PROVE  LoopInv'
  BY DEF workerVars, LoopInv, WorkerTypeOK, LoopFits, OwnRequests, InLoop

LEMMA ExitKeeps ==
    ASSUME SessionInv, NEW s \in Session, Exit(s)
    PROVE  SessionInv'
  <1>1. /\ Close(s)
        /\ ~InLoop(s)
        /\ UNCHANGED workerVars
    BY DEF Exit, InLoop
  <1>2. RegistrationInv'
    BY <1>1, CloseKeeps DEF SessionInv
  <1>3. \A r \in Session : InLoop(r) => at'[r] = at[r]
    BY <1>1 DEF Close, Unregister, Moves, SessionInv, RegistrationInv, RegistrationTypeOK
  <1>4. LoopInv'
    BY <1>1, <1>3, LoopsLeftAlone DEF SessionInv
  <1>5. QED
    BY <1>2, <1>4 DEF SessionInv

(* The moves of one loop that only change its place, or set its event.     *)
LEMMA PlaceKeeps ==
    ASSUME LoopInv, NEW s \in Session,
           Run(s) \/ LoopTurns(s) \/ Wakes(s) \/ AdmissionStops(s) \/ CollectFails(s)
             \/ SetStop(s)
    PROVE  LoopInv'
  <1>1. CASE Run(s)
    BY <1>1, BoundsAssumption
       DEF Run, Goes, registrationVars, LoopInv, WorkerTypeOK, RunPlace, LoopFits, OwnRequests
  <1>2. CASE LoopTurns(s)
    <2>1. PICK place \in {"collecting", "failing", "full", "admission"} :
             /\ run' = [run EXCEPT ![s] = place]
             /\ place = "admission" => running[s] # MaxConcurrency
      BY <1>2 DEF LoopTurns, Goes
    <2>2. running[s] # MaxConcurrency => running[s] < MaxConcurrency
      BY BoundsAssumption DEF LoopInv, WorkerTypeOK
    <2>3. /\ run[s] = "loop"
          /\ UNCHANGED <<at, stop, running, failed, settling, errors, polled, leased, available>>
      BY <1>2 DEF LoopTurns, registrationVars
    <2>4. WorkerTypeOK'
      BY <2>1, <2>3 DEF LoopInv, WorkerTypeOK, RunPlace
    <2>5. QED
      BY <2>1, <2>2, <2>3, <2>4
         DEF LoopInv, WorkerTypeOK, LoopFits, OwnRequests
  <1>3. CASE Wakes(s)
    BY <1>3 DEF Wakes, Goes, registrationVars, LoopInv, WorkerTypeOK, RunPlace, LoopFits,
                OwnRequests
  <1>4. CASE AdmissionStops(s)
    BY <1>4 DEF AdmissionStops, Goes, registrationVars, LoopInv, WorkerTypeOK, RunPlace,
                LoopFits, OwnRequests
  <1>5. CASE CollectFails(s)
    BY <1>5 DEF CollectFails, Goes, registrationVars, LoopInv, WorkerTypeOK, RunPlace,
                LoopFits, OwnRequests
  <1>6. CASE SetStop(s)
    <2>1. /\ stop' = stop \cup {s}
          /\ UNCHANGED <<at, run, running, failed, settling, errors, polled, leased, available>>
      BY <1>6 DEF SetStop, registrationVars
    <2>2. WorkerTypeOK'
      BY <2>1 DEF LoopInv, WorkerTypeOK
    <2>3. QED
      BY <2>1, <2>2 DEF LoopInv, LoopFits, OwnRequests
  <1>7. QED
    BY <1>1, <1>2, <1>3, <1>4, <1>5, <1>6

(* A poll is sent with the token of its session, and remembers it.         *)
LEMMA PollKeeps ==
    ASSUME SessionInv, NEW s \in Session, Poll(s)
    PROVE  SessionInv'
  <1>1. at[s] = "open" /\ token[s] = s
    BY DEF Poll, SessionInv, LoopInv, LoopFits, RegistrationInv, TokensKnown
  <1>2. Remember(s)
    BY <1>1 DEF Poll, Remember, RunToken
  <1>3. RegistrationInv'
    BY <1>2, RememberKeeps DEF SessionInv
  <1>4. LoopInv'
    BY <1>1 DEF Poll, RunToken, Goes, Token, SessionInv, LoopInv, WorkerTypeOK, RunPlace,
                LoopFits, OwnRequests
  <1>5. QED
    BY <1>3, <1>4 DEF SessionInv

(* The ways a poll ends.                                                   *)
LEMMA PolledKeeps ==
    ASSUME LoopInv, NEW s \in Session,
           PollEmpty(s) \/ PollLeases(s) \/ PollFails(s) \/ PollRaises(s)
    PROVE  LoopInv'
  <1>1. CASE PollEmpty(s)
    BY <1>1, BoundsAssumption
       DEF PollEmpty, Goes, registrationVars, LoopInv, WorkerTypeOK, RunPlace, LoopFits,
           OwnRequests
  <1>2. CASE PollLeases(s)
    BY <1>2, BoundsAssumption
       DEF PollLeases, Goes, registrationVars, Token, LoopInv, WorkerTypeOK, RunPlace,
           LoopFits, OwnRequests
  <1>3. CASE PollFails(s)
    BY <1>3, BoundsAssumption
       DEF PollFails, Goes, registrationVars, LoopInv, WorkerTypeOK, RunPlace, LoopFits,
           OwnRequests
  <1>4. CASE PollRaises(s)
    BY <1>4 DEF PollRaises, Goes, registrationVars, LoopInv, WorkerTypeOK, RunPlace, LoopFits,
                OwnRequests
  <1>5. QED
    BY <1>1, <1>2, <1>3, <1>4

(* The handlers and the end of the loop, which waits for them.             *)
LEMMA HandlersKeep ==
    ASSUME LoopInv, NEW s \in Session,
           HandlerEnds(s) \/ Callback(s) \/ RunReturns(s) \/ RunRaises(s)
    PROVE  LoopInv'
  <1>1. CASE HandlerEnds(s)
    BY <1>1, BoundsAssumption
       DEF HandlerEnds, registrationVars, LoopInv, WorkerTypeOK, RunPlace, LoopFits,
           OwnRequests
  <1>2. CASE Callback(s)
    BY <1>2 DEF Callback, registrationVars, LoopInv, WorkerTypeOK, RunPlace, LoopFits,
                OwnRequests
  <1>3. CASE RunReturns(s)
    BY <1>3, BoundsAssumption
       DEF RunReturns, Joined, Leaves, Goes, registrationVars, LoopInv, WorkerTypeOK,
           RunPlace, LoopFits, OwnRequests
  <1>4. CASE RunRaises(s)
    BY <1>4, BoundsAssumption
       DEF RunRaises, Joined, Leaves, Goes, registrationVars, LoopInv, WorkerTypeOK,
           RunPlace, LoopFits, OwnRequests
  <1>5. QED
    BY <1>1, <1>2, <1>3, <1>4

LEMMA SessionStep ==
    ASSUME SessionInv, [Next]_vars
    PROVE  SessionInv'
  <1>1. CASE RegistrationStep /\ UNCHANGED workerVars
    <2>1. RegistrationInv'
      BY <1>1, RegistrationStepKeeps DEF SessionInv
    <2>2. LoopInv'
      BY <1>1, RegistrationKeepsOpen, LoopsLeftAlone DEF SessionInv
    <2>3. QED
      BY <2>1, <2>2 DEF SessionInv
  <1>2. ASSUME NEW s \in Session,
               \/ Run(s) \/ LoopTurns(s) \/ Wakes(s) \/ AdmissionStops(s) \/ CollectFails(s)
               \/ SetStop(s)
               \/ PollEmpty(s) \/ PollLeases(s) \/ PollFails(s) \/ PollRaises(s)
               \/ HandlerEnds(s) \/ Callback(s) \/ RunReturns(s) \/ RunRaises(s)
        PROVE  SessionInv'
    <2>1. UNCHANGED registrationVars
      BY <1>2 DEF Run, LoopTurns, Wakes, AdmissionStops, CollectFails, SetStop,
                  PollEmpty, PollLeases, PollFails, PollRaises,
                  HandlerEnds, Callback, RunReturns, RunRaises, Leaves
    <2>2. RegistrationInv'
      BY <2>1, RegistrationStutters DEF SessionInv
    <2>3. LoopInv'
      BY <1>2, PlaceKeeps, PolledKeeps, HandlersKeep DEF SessionInv
    <2>4. QED
      BY <2>2, <2>3 DEF SessionInv
  <1>3. CASE Done \/ UNCHANGED vars
    <2>1. UNCHANGED vars
      BY <1>3 DEF Done
    <2>2. UNCHANGED registrationVars /\ UNCHANGED workerVars
      BY <2>1 DEF vars
    <2>3. \A s \in Session : at'[s] = at[s]
      BY <2>2 DEF registrationVars
    <2>4. QED
      BY <2>2, <2>3, RegistrationStutters, LoopsLeftAlone DEF SessionInv
  <1>4. QED
    BY <1>1, <1>2, <1>3, PollKeeps, ExitKeeps DEF Next, RunStep

LEMMA SessionInit == Init => SessionInv
  <1>1. ASSUME Init PROVE RegistrationInv
    <2>1. RegistrationTypeOK
      <3>1. /\ at \in [Caller -> Place]
            /\ reply \in [Caller -> {"none", "ok", "refused"}]
            /\ attempts \in [Caller -> 0..Attempts]
            /\ target \in [Caller -> Token \cup {None}]
        BY <1>1, AttemptsAssumption DEF Init, RegistrationInit, Place
      <3>2. QED
        BY <1>1, <3>1 DEF Init, RegistrationInit, RegistrationTypeOK
    <2>2. /\ remembered = None /\ registered = None /\ newest = None /\ mail = {}
          /\ \A s \in Session : at[s] = "new" /\ token[s] = None
          /\ at[Direct] = "open"
          /\ \A c \in Caller : at[c] \in {"new", "open"} /\ target[c] = None
      BY <1>1, CallerAssumption DEF Init, RegistrationInit, Caller
    <2>3. TokensKnown
      BY <2>2 DEF TokensKnown, Caller
    <2>4. MailFits /\ AnswersTrue /\ AttemptsFit /\ ClosedMeansGone /\ NewestSurvives
      BY <2>2 DEF MailFits, AnswersTrue, AttemptsFit, ClosedMeansGone, NewestSurvives
    <2>5. QED
      BY <2>1, <2>3, <2>4 DEF RegistrationInv
  <1>2. ASSUME Init PROVE LoopInv
    BY <1>2, BoundsAssumption
       DEF Init, LoopInv, WorkerTypeOK, RunPlace, LoopFits, OwnRequests
  <1>3. QED
    BY <1>1, <1>2 DEF SessionInv
-----------------------------------------------------------------------------
(* The permits.  The permits in hand of a session are numbered, so that a  *)
(* poll adds one and its end, or a callback, takes one away.               *)

LEMMA InHandType ==
    ASSUME LoopInv, NEW s \in Session
    PROVE  /\ InHand(s) \in Nat
           /\ s \notin Looping => InHand(s) = 0
           /\ run[s] = "polling" => InHand(s) = running[s] + settling[s] + 1
           /\ run[s] # "polling" => InHand(s) = running[s] + settling[s]
  BY BoundsAssumption DEF LoopInv, WorkerTypeOK, LoopFits, InHand, Looping

Numbered ==
    /\ \A s \in Session : InHand(s) \in Nat
    /\ PermitsInHand = {p \in Session \X Nat : p[2] \in 1..InHand(p[1])}

LEMMA InHandMembers == LoopInv => Numbered
  <1> SUFFICES ASSUME LoopInv PROVE Numbered
    OBVIOUS
  <1>1. \A s \in Session : InHand(s) \in Nat /\ (s \notin Looping => InHand(s) = 0)
    BY InHandType
  <1>2. \A s \in Session : s \notin Looping => 1..InHand(s) = {}
    BY <1>1
  <1>3. \A s \in Session : 1..InHand(s) \subseteq Nat
    BY <1>1
  <1>4. PermitsInHand = UNION {{s} \X (1..InHand(s)) : s \in Looping}
    BY DEF PermitsInHand
  <1>5. Looping \subseteq Session
    BY DEF Looping
  <1>6. ASSUME NEW p \in PermitsInHand
        PROVE  p \in Session \X Nat /\ p[2] \in 1..InHand(p[1])
    <2>1. PICK s \in Looping : p \in {s} \X (1..InHand(s))
      BY <1>4
    <2>2. QED
      BY <2>1, <1>3, <1>5
  <1>7. ASSUME NEW p \in Session \X Nat, p[2] \in 1..InHand(p[1])
        PROVE  p \in PermitsInHand
    <2>1. p[1] \in Looping /\ p \in {p[1]} \X (1..InHand(p[1]))
      BY <1>2, <1>7
    <2>2. QED
      BY <2>1, <1>4
  <1>8. QED
    BY <1>1, <1>6, <1>7 DEF Numbered

(* The same of the next state.                                             *)
LEMMA InHandMembersNext == LoopInv' => Numbered'
  BY InHandMembers, PTL

(* A step that moves no permit.                                            *)
LEMMA PermitsStay ==
    ASSUME LoopInv, LoopInv', PermitInv, available' = available,
           \A s \in Session : InHand(s)' = InHand(s)
    PROVE  PermitInv'
  <1>1. PermitsInHand' = PermitsInHand
    <2>1. PermitsInHand = {p \in Session \X Nat : p[2] \in 1..InHand(p[1])}
      BY InHandMembers DEF Numbered
    <2>2. PermitsInHand' = {p \in Session \X Nat : p[2] \in 1..InHand(p[1])'}
      BY InHandMembersNext DEF Numbered
    <2>3. QED
      BY <2>1, <2>2
  <1>2. QED
    BY <1>1 DEF PermitInv, EndedRunsGiveBack

(* A poll takes a free permit.                                             *)
LEMMA PermitTaken ==
    ASSUME LoopInv, LoopInv', PermitInv, NEW s \in Session,
           available' = available - 1,
           InHand(s)' = InHand(s) + 1,
           \A r \in Session \ {s} : InHand(r)' = InHand(r)
    PROVE  PermitInv'
  <1> DEFINE new == <<s, InHand(s) + 1>>
  <1>1. /\ PermitsInHand = {p \in Session \X Nat : p[2] \in 1..InHand(p[1])}
        /\ PermitsInHand' = {p \in Session \X Nat : p[2] \in 1..InHand(p[1])'}
    BY InHandMembers, InHandMembersNext DEF Numbered
  <1>2. InHand(s) \in Nat
    BY InHandType
  <1>3. 1..InHand(s)' = (1..InHand(s)) \cup {InHand(s) + 1}
    BY <1>2
  <1>4. PermitsInHand' = PermitsInHand \cup {new}
    <2>1. ASSUME NEW p \in Session \X Nat
          PROVE  p \in PermitsInHand' <=> p \in PermitsInHand \/ p = new
      <3>1. CASE p[1] = s
        BY <1>1, <1>3, <3>1
      <3>2. CASE p[1] # s
        BY <1>1, <3>2
      <3>3. QED
        BY <3>1, <3>2
    <2>2. new \in Session \X Nat
      BY <1>2
    <2>3. PermitsInHand \subseteq Session \X Nat /\ PermitsInHand' \subseteq Session \X Nat
      BY <1>1
    <2>4. QED
      BY <2>1, <2>2, <2>3
  <1>5. new \notin PermitsInHand
    BY <1>1, <1>2
  <1>6. /\ IsFiniteSet(PermitsInHand')
        /\ Cardinality(PermitsInHand') = Cardinality(PermitsInHand) + 1
        /\ Cardinality(PermitsInHand) \in Nat
    BY <1>4, <1>5, FS_AddElement, FS_CardinalityType DEF PermitInv
  <1>7. available \in Nat /\ Capacity \in Nat
    BY BoundsAssumption DEF LoopInv, WorkerTypeOK
  <1>8. QED
    BY <1>6, <1>7 DEF PermitInv, EndedRunsGiveBack

(* A poll that leases nothing, and the callback of a future, return it.    *)
LEMMA PermitReturned ==
    ASSUME LoopInv, LoopInv', PermitInv, NEW s \in Session,
           available' = available + 1,
           InHand(s) = InHand(s)' + 1,
           \A r \in Session \ {s} : InHand(r)' = InHand(r)
    PROVE  PermitInv'
  <1> DEFINE old == <<s, InHand(s)>>
  <1>1. /\ PermitsInHand = {p \in Session \X Nat : p[2] \in 1..InHand(p[1])}
        /\ PermitsInHand' = {p \in Session \X Nat : p[2] \in 1..InHand(p[1])'}
    BY InHandMembers, InHandMembersNext DEF Numbered
  <1>2. InHand(s) \in Nat /\ InHand(s)' \in Nat
    BY InHandMembers, InHandMembersNext DEF Numbered
  <1>3. 1..InHand(s)' = (1..InHand(s)) \ {InHand(s)}
    BY <1>2
  <1>4. PermitsInHand' = PermitsInHand \ {old}
    <2>1. ASSUME NEW p \in Session \X Nat
          PROVE  p \in PermitsInHand' <=> p \in PermitsInHand /\ p # old
      <3>1. CASE p[1] = s
        BY <1>1, <1>3, <3>1
      <3>2. CASE p[1] # s
        BY <1>1, <3>2
      <3>3. QED
        BY <3>1, <3>2
    <2>2. PermitsInHand \subseteq Session \X Nat /\ PermitsInHand' \subseteq Session \X Nat
      BY <1>1
    <2>3. QED
      BY <2>1, <2>2
  <1>5. old \in PermitsInHand
    BY <1>1, <1>2
  <1>6. /\ IsFiniteSet(PermitsInHand')
        /\ Cardinality(PermitsInHand') = Cardinality(PermitsInHand) - 1
        /\ Cardinality(PermitsInHand) \in Nat
    BY <1>4, <1>5, FS_RemoveElement, FS_CardinalityType DEF PermitInv
  <1>7. available \in Nat /\ Capacity \in Nat
    BY BoundsAssumption DEF LoopInv, WorkerTypeOK
  <1>8. QED
    BY <1>6, <1>7 DEF PermitInv, EndedRunsGiveBack

(* What each step of the loops does to the permits.                        *)
LEMMA PermitStep ==
    ASSUME LoopInv, LoopInv', PermitInv, [Next]_vars
    PROVE  PermitInv'
  <1> USE DEF InHand
  <1>1. CASE UNCHANGED workerVars
    BY <1>1, PermitsStay DEF workerVars
  <1>2. ASSUME NEW s \in Session,
               \/ Run(s) \/ LoopTurns(s) \/ Wakes(s) \/ AdmissionStops(s) \/ CollectFails(s)
               \/ SetStop(s) \/ PollLeases(s) \/ HandlerEnds(s)
               \/ RunReturns(s) \/ RunRaises(s)
        PROVE  PermitInv'
    <2>1. available' = available
      BY <1>2 DEF Run, LoopTurns, Wakes, AdmissionStops, CollectFails, SetStop,
                  PollLeases, HandlerEnds, RunReturns, RunRaises, Leaves
    <2>2. \A r \in Session : InHand(r)' = InHand(r)
      <3>1. CASE Run(s) \/ LoopTurns(s) \/ Wakes(s) \/ AdmissionStops(s) \/ CollectFails(s)
                   \/ SetStop(s)
        BY <3>1 DEF Run, LoopTurns, Wakes, AdmissionStops, CollectFails, SetStop, Goes,
                    LoopInv, WorkerTypeOK
      <3>2. CASE PollLeases(s)
        BY <3>2 DEF PollLeases, Goes, LoopInv, WorkerTypeOK
      <3>3. CASE HandlerEnds(s)
        BY <3>3 DEF HandlerEnds, LoopInv, WorkerTypeOK
      <3>4. CASE RunReturns(s) \/ RunRaises(s)
        BY <3>4 DEF RunReturns, RunRaises, Leaves, Goes, LoopInv, WorkerTypeOK
      <3>5. QED
        BY <1>2, <3>1, <3>2, <3>3, <3>4
    <2>3. QED
      BY <2>1, <2>2, PermitsStay
  <1>3. ASSUME NEW s \in Session, Poll(s)
        PROVE  PermitInv'
    <2>1. /\ available' = available - 1
          /\ InHand(s)' = InHand(s) + 1
          /\ \A r \in Session \ {s} : InHand(r)' = InHand(r)
      BY <1>3 DEF Poll, Goes, LoopInv, WorkerTypeOK
    <2>2. QED
      BY <2>1, PermitTaken
  <1>4. ASSUME NEW s \in Session, PollEmpty(s) \/ PollFails(s) \/ PollRaises(s)
        PROVE  PermitInv'
    <2>1. PICK place \in {"loop", "failing", "pausing"} :
             /\ run[s] = "polling" /\ run' = [run EXCEPT ![s] = place]
             /\ available' = available + 1
             /\ UNCHANGED <<running, settling>>
      BY <1>4 DEF PollEmpty, PollFails, PollRaises, Goes
    <2>2. /\ InHand(s) = InHand(s)' + 1
          /\ \A r \in Session \ {s} : InHand(r)' = InHand(r)
      BY <2>1 DEF LoopInv, WorkerTypeOK
    <2>3. QED
      BY <2>1, <2>2, PermitReturned
  <1>5. ASSUME NEW s \in Session, Callback(s)
        PROVE  PermitInv'
    <2>1. /\ available' = available + 1
          /\ InHand(s) = InHand(s)' + 1
          /\ \A r \in Session \ {s} : InHand(r)' = InHand(r)
      BY <1>5 DEF Callback, LoopInv, WorkerTypeOK
    <2>2. QED
      BY <2>1, PermitReturned
  <1>6. QED
    BY <1>1, <1>2, <1>3, <1>4, <1>5 DEF Next, RunStep, Exit, Done, vars

LEMMA PermitInit ==
    ASSUME Init, LoopInv
    PROVE  PermitInv
  <1>1. Looping = {}
    BY DEF Init, Looping
  <1>2. PermitsInHand = {}
    BY <1>1 DEF PermitsInHand
  <1>3. QED
    BY <1>2, FS_EmptySet, BoundsAssumption DEF Init, PermitInv, EndedRunsGiveBack
-----------------------------------------------------------------------------
(* Every state of every instance satisfies the inductive invariant.        *)
THEOREM Invariant == Spec => []IInv
  <1>1. Init => IInv
    BY SessionInit, PermitInit DEF IInv, SessionInv
  <1>2. IInv /\ [Next]_vars => IInv'
    BY SessionStep, PermitStep DEF IInv, SessionInv
  <1>3. QED
    BY <1>1, <1>2, PTL DEF Spec

(* Type correctness, for any number of sessions, handlers and permits.     *)
THEOREM TypeCorrect == Spec => []TypeOK
  <1>1. IInv => TypeOK
    BY DEF IInv, SessionInv, RegistrationInv, LoopInv, TypeOK
  <1>2. QED
    BY <1>1, Invariant, PTL

(* RelaySession.close and unregister_rollout: a caller whose               *)
(* unregistration was acknowledged left no registration of its own behind, *)
(* however many attempts are processed and however late.                   *)
THEOREM AcknowledgedCloseIsFinal == Spec => []ClosedMeansGone
  <1>1. IInv => ClosedMeansGone
    BY DEF IInv, SessionInv, RegistrationInv
  <1>2. QED
    BY <1>1, Invariant, PTL

(* The registration token fences unregistration: no session that is closed,*)
(* and no late attempt of it, ends a registration made after its own.      *)
THEOREM NewestRegistrationSurvives == Spec => []NewestSurvives
  <1>1. IInv => NewestSurvives
    BY DEF IInv, SessionInv, RegistrationInv
  <1>2. QED
    BY <1>1, Invariant, PTL

(* The worker loop of a session leases requests of its own registration    *)
(* only, although the client remembers one token for all its sessions.     *)
THEOREM LoopsServeTheirOwn == Spec => []OwnRequests
  <1>1. IInv => OwnRequests
    BY DEF IInv, SessionInv, LoopInv
  <1>2. QED
    BY <1>1, Invariant, PTL

(* _run_sync_worker: whichever of its loops end, and however, the permits  *)
(* that are not free are in the hand of loops that still run; when none    *)
(* does, the client has all its permits.                                   *)
THEOREM PermitsComeBack == Spec => []EndedRunsGiveBack
  <1>1. IInv => EndedRunsGiveBack
    BY DEF IInv, PermitInv
  <1>2. QED
    BY <1>1, Invariant, PTL
=============================================================================

--------------------------- MODULE RelayRegistration ---------------------------
(***************************************************************************)
(* Registrations of one rollout through one client (relay.py,              *)
(* _RelayWorkerState, RelaySession and AsyncRelaySession).  Several        *)
(* sessions may register the same rollout: each registration replaces the  *)
(* one before it, and its token fences what is done in its name.  The      *)
(* client remembers one token for the rollout, for calls that name none;   *)
(* a session keeps its own.                                                *)
(*                                                                         *)
(* The relay is not in this repository: registered, newest, expired and    *)
(* mail, and the actions Process, model what its clients rely on.  Calls   *)
(* and replies can be lost, and a call can be processed after its sender   *)
(* gave up.  A registration token is named by the session that it answers. *)
(***************************************************************************)
EXTENDS Naturals, FiniteSets

CONSTANTS Session,      (* sessions that register the rollout              *)
          Direct,       (* a caller of client.unregister_rollout(rollout)  *)
          Attempts,     (* attempts of unregister_rollout                  *)
          None

ASSUME CallerAssumption   == Direct \notin Session /\ None \notin Session \cup {Direct}
ASSUME AttemptsAssumption == Attempts \in Nat \ {0}

Token  == Session
Caller == Session \cup {Direct}

VARIABLES remembered,   (* self._registration_tokens[rollout] of the client*)
          token,        (* self.registration_token of each session         *)
          at,           (* where each caller is                            *)
          target,       (* the token that its unregistration carries       *)
          attempts,     (* attempts of that unregistration so far          *)
          reply,        (* what the relay made of the call in flight       *)
          registered,   (* relay: the token of the live registration       *)
          newest,       (* relay: the last registration that was made      *)
          expired,      (* relay: that one ran out by itself               *)
          mail          (* calls that were sent and may still be processed *)

relayVars == <<registered, newest, expired>>
registrationVars == <<remembered, token, at, target, attempts, reply, relayVars, mail>>

Place == {"new", "registering", "open", "deleting", "pausing",
          "closed", "unclosed", "rejected"}

RegistrationTypeOK ==
    /\ remembered \in Token \cup {None}
    /\ token \in [Session -> Token \cup {None}]
    /\ at \in [Caller -> Place]
    /\ target \in [Caller -> Token \cup {None}]
    /\ attempts \in [Caller -> 0..Attempts]
    /\ reply \in [Caller -> {"none", "ok", "refused"}]
    /\ registered \in Token \cup {None}
    /\ newest \in Token \cup {None}
    /\ expired \in BOOLEAN
    /\ mail \subseteq [call : {"register", "delete"}, from : Caller, token : Token]

RegistrationInit ==
    /\ remembered = None
    /\ token = [s \in Session |-> None]
    /\ at = [c \in Caller |-> IF c = Direct THEN "open" ELSE "new"]
    /\ target = [c \in Caller |-> None]
    /\ attempts = [c \in Caller |-> 0]
    /\ reply = [c \in Caller |-> "none"]
    /\ registered = None
    /\ newest = None
    /\ expired = FALSE
    /\ mail = {}

(* The caller that m has come from still waits for its answer.             *)
Awaited(m) == at[m.from] = IF m.call = "register" THEN "registering" ELSE "deleting"

Send(kind, c, t) ==
    mail' = mail \cup {[call |-> kind, from |-> c, token |-> t]}

(* The caller goes on, without an answer to wait for.                      *)
Moves(c, place) ==
    /\ at' = [at EXCEPT ![c] = place]
    /\ reply' = [reply EXCEPT ![c] = "none"]
-----------------------------------------------------------------------------
(* The relay.                                                              *)

ProcessRegister(m) ==
    /\ m.call = "register"
    /\ registered' = m.token
    /\ newest' = m.token
    /\ expired' = FALSE
    /\ reply' = IF Awaited(m) THEN [reply EXCEPT ![m.from] = "ok"] ELSE reply

(* Only the registration that the token names is deleted; for one that is  *)
(* gone or replaced the relay says so, as a success or as an error.        *)
ProcessDelete(m) ==
    /\ m.call = "delete"
    /\ registered' = IF registered = m.token THEN None ELSE registered
    /\ \E answer \in (IF registered = m.token THEN {"ok"} ELSE {"ok", "refused"}) :
          reply' = IF Awaited(m) THEN [reply EXCEPT ![m.from] = answer] ELSE reply
    /\ UNCHANGED <<newest, expired>>

Process ==
    /\ \E m \in mail :
          /\ ProcessRegister(m) \/ ProcessDelete(m)
          /\ mail' = mail \ {m}
    /\ UNCHANGED <<remembered, token, at, target, attempts>>

(* A registration that nobody refreshes runs out.                          *)
Expire ==
    /\ registered # None
    /\ registered' = None
    /\ expired' = TRUE
    /\ UNCHANGED <<remembered, token, at, target, attempts, reply, newest, mail>>
-----------------------------------------------------------------------------
(* Entering a session: register_rollout.                                   *)

Enter(s) ==
    /\ at[s] = "new"
    /\ Moves(s, "registering")
    /\ Send("register", s, s)
    /\ UNCHANGED <<remembered, token, target, attempts, relayVars>>

Entered(s) ==
    /\ at[s] = "registering"
    /\ reply[s] = "ok"
    /\ remembered' = s
    /\ token' = [token EXCEPT ![s] = s]
    /\ Moves(s, "open")
    /\ UNCHANGED <<target, attempts, relayVars, mail>>

(* The call fails, its answer is lost or malformed, or it is cancelled.    *)
EnterFails(s) ==
    /\ at[s] = "registering"
    /\ Moves(s, "rejected")
    /\ UNCHANGED <<remembered, token, target, attempts, relayVars, mail>>

(* heartbeat and update_resource_phase with the token of the session: an   *)
(* explicit token is remembered, whichever the client knew before.         *)
Remember(s) ==
    /\ at[s] = "open"
    /\ remembered' = token[s]
    /\ UNCHANGED <<token, at, target, attempts, reply, relayVars, mail>>
-----------------------------------------------------------------------------
(* unregister_rollout, with the session's token or the remembered one.     *)

(* A variant with a bug: the fence is read again for every attempt.        *)
FenceOfClient(c) == IF remembered = None THEN target[c] ELSE remembered

Fence(c) == target[c]

Unregister(c, t) ==
    /\ t # None
    /\ target' = [target EXCEPT ![c] = t]
    /\ attempts' = [attempts EXCEPT ![c] = 1]
    /\ Moves(c, "deleting")
    /\ Send("delete", c, t)

(* RelaySession.close; a session that failed to close can be closed again. *)
Close(s) ==
    /\ at[s] \in {"open", "unclosed"}
    /\ Unregister(s, token[s])
    /\ remembered' = token[s]
    /\ UNCHANGED <<token, relayVars>>

(* One direct call; at Direct, "open" says that it is still to come.       *)
CloseDirectly ==
    /\ at[Direct] = "open"
    /\ Unregister(Direct, remembered)
    /\ UNCHANGED <<remembered, token, relayVars>>

Closed(c) ==
    /\ at[c] = "deleting"
    /\ reply[c] = "ok"
    /\ remembered' = None
    /\ token' = IF c = Direct THEN token ELSE [token EXCEPT ![c] = None]
    /\ attempts' = [attempts EXCEPT ![c] = 0]
    /\ Moves(c, "closed")
    /\ UNCHANGED <<target, relayVars, mail>>

(* No answer, or one that allows another attempt.                          *)
DeleteLost(c) ==
    /\ at[c] = "deleting"
    /\ attempts[c] < Attempts
    /\ Moves(c, "pausing")
    /\ UNCHANGED <<remembered, token, target, attempts, relayVars, mail>>

DeleteAgain(c) ==
    /\ at[c] = "pausing"
    /\ attempts' = [attempts EXCEPT ![c] = attempts[c] + 1]
    /\ Moves(c, "deleting")
    /\ Send("delete", c, Fence(c))
    /\ UNCHANGED <<remembered, token, target, relayVars>>

(* A variant with a bug: an error forgets the token as an answer does.     *)
CloseFailsForgetting(c) ==
    /\ \/ at[c] = "deleting" /\ reply[c] = "refused"
       \/ at[c] = "deleting" /\ attempts[c] = Attempts
       \/ at[c] \in {"deleting", "pausing"}
    /\ remembered' = None
    /\ token' = IF c = Direct THEN token ELSE [token EXCEPT ![c] = None]
    /\ attempts' = [attempts EXCEPT ![c] = 0]
    /\ Moves(c, "closed")
    /\ UNCHANGED <<target, relayVars, mail>>

(* The relay refuses, the attempts are used up, or the task is cancelled:  *)
(* both tokens are kept for another close.                                 *)
CloseFails(c) ==
    /\ \/ at[c] = "deleting" /\ reply[c] = "refused"
       \/ at[c] = "deleting" /\ attempts[c] = Attempts
       \/ at[c] \in {"deleting", "pausing"}
    /\ attempts' = [attempts EXCEPT ![c] = 0]
    /\ Moves(c, "unclosed")
    /\ UNCHANGED <<remembered, token, target, relayVars, mail>>

RegistrationStep ==
    \/ Process \/ Expire
    \/ \E s \in Session : Enter(s) \/ Entered(s) \/ EnterFails(s) \/ Remember(s)
    \/ CloseDirectly
    \/ \E c \in Caller : Closed(c) \/ DeleteLost(c) \/ DeleteAgain(c) \/ CloseFails(c)
-----------------------------------------------------------------------------
(* A caller whose unregistration was acknowledged left no registration     *)
(* behind: the one that it named is gone from the relay, whichever of its  *)
(* attempts was processed and however late.                                *)
ClosedMeansGone == \A c \in Caller : at[c] = "closed" => registered # target[c]

(* Nobody who leaves an older registration ends a newer one: the newest    *)
(* registration lives until somebody unregisters it by its own token or it *)
(* runs out, whatever the client remembered in the meantime.               *)
NewestSurvives ==
    newest # None /\ ~expired /\ (\A c \in Caller : target[c] # newest)
        => registered = newest
=============================================================================

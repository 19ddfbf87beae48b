----------------------------- MODULE RequestRetry -----------------------------
(***************************************************************************)
(* Requests to the gateway: the retry loop of both clients (client.py,     *)
(* _request_json_response, _request_bytes and _send) over the connections  *)
(* that the threads of a process share (_http.py, _ConnectionPool and      *)
(* open_reusing).  Every request is one call of the loop; the loop repeats *)
(* it after a refused connection, or after an answer that says the request *)
(* was not dispatched, or for which a repetition is harmless.              *)
(*                                                                         *)
(* The gateway and the network are not in this repository: peer, pending,  *)
(* wire and applied, and the actions Process and PeerDrops, model what the *)
(* clients rely on.  A request that was sent can be applied even after its *)
(* sender gave up on the connection.                                       *)
(***************************************************************************)
EXTENDS Naturals, Sequences, FiniteSets

CONSTANTS Request,      (* calls of the loop                               *)
          Mixes,        (* what they may ask for, and of which client      *)
          Conn,         (* connections                                     *)
          MaxIdle,      (* _MAX_IDLE_PER_ORIGIN                            *)
          MaxAttempts,  (* UCLOUD_UNAVAILABLE_RETRY_ATTEMPTS               *)
          MaxConnects,  (* the limit of _connection_retry_delay            *)
          Deadline,     (* ticks of time that a request has                *)
          None

(***************************************************************************)
(* read       GET, HEAD under /v1/sandboxes/ or /v1/exec/ (elsewhere its   *)
(*            fences are bounded like those of the last kind)              *)
(* create     POST /v1/sandboxes, with the caller's stable id              *)
(* delete     DELETE of a sandbox, idempotent                              *)
(* discard    DELETE of a group, idempotent                                *)
(* operation  a mutation under /v1/sandboxes/ or /v1/exec/, or an image    *)
(*            build                                                        *)
(* other      any other mutation                                           *)
(***************************************************************************)
Kinds == {"read", "create", "delete", "discard", "operation", "other"}

ASSUME MixAssumption == Mixes \subseteq [Request -> [kind : Kinds, pooled : BOOLEAN]]
ASSUME LimitAssumption ==
    /\ {MaxIdle, MaxAttempts, MaxConnects} \subseteq Nat \ {0}
    /\ Deadline \in Nat
ASSUME NoneAssumption == None \notin Request \cup Conn

VARIABLES asks,      (* what each request asks for                         *)
          at,        (* where each request is                              *)
          attempt,   (* the attempt it is in, from 0                       *)
          left,      (* ticks before its deadline                          *)
          conn,      (* the connection it uses                             *)
          reused,    (* that connection came from the pool                 *)
          got,       (* the request whose answer it read last              *)
          idle,      (* _idle of the pool, oldest first                    *)
          peer,      (* the connections as both ends see them              *)
          pending,   (* requests on a connection, not yet processed        *)
          wire,      (* answers on a connection, not yet read              *)
          applied    (* gateway: how often each request took effect        *)

requestVars == <<asks, at, attempt, left, conn, reused, got>>
netVars == <<idle, peer, pending, wire, applied>>
vars == <<requestVars, netVars>>

Ended == {"ok", "failed", "exhausted", "timeout"}

Place == {"idle", "connecting", "sent", "sleeping"} \cup Ended

(* fence: refused before anything downstream was dispatched; retryable:    *)
(* any other transient status with retryable set, or the 503 of a job that *)
(* is unavailable; failure: any other error; large: over the size limit.   *)
Status == {"ok", "fence", "retryable", "failure", "large"}

(* none: closed by both ends; dropped: closed by the gateway only; ghost:  *)
(* closed by the client only, with a request that may still be processed.  *)
Peer == {"none", "open", "dropped", "ghost"}

MaxApplied == 2      (* more often is not told apart                       *)

(* Nor is an attempt after the last one that has a limit.                  *)
MaxAttempt == IF MaxAttempts > MaxConnects THEN MaxAttempts ELSE MaxConnects

TypeOK ==
    /\ asks \in Mixes
    /\ at \in [Request -> Place]
    /\ attempt \in [Request -> 0..MaxAttempt]
    /\ left \in [Request -> 0..Deadline]
    /\ conn \in [Request -> Conn \cup {None}]
    /\ reused \in [Request -> BOOLEAN]
    /\ got \in [Request -> Request \cup {None}]
    /\ idle \in Seq(Conn) /\ Len(idle) <= MaxIdle
    /\ peer \in [Conn -> Peer]
    /\ pending \in [Conn -> Seq(Request)]
    /\ wire \in [Conn -> Seq([to : Request, status : Status])]
    /\ applied \in [Request -> 0..MaxApplied]

Init ==
    /\ asks \in Mixes
    /\ at = [r \in Request |-> "idle"]
    /\ attempt = [r \in Request |-> 0]
    /\ left = [r \in Request |-> Deadline]
    /\ conn = [r \in Request |-> None]
    /\ reused = [r \in Request |-> FALSE]
    /\ got = [r \in Request |-> None]
    /\ idle = <<>>
    /\ peer = [c \in Conn |-> "none"]
    /\ pending = [c \in Conn |-> <<>>]
    /\ wire = [c \in Conn |-> <<>>]
    /\ applied = [r \in Request |-> 0]

Kind(r) == asks[r].kind

(* The request of a synchronous client; the others go through aiohttp.     *)
Pooled(r) == asks[r].pooled
-----------------------------------------------------------------------------
(* The gateway and the network.                                            *)

(* The first request on c is applied or refused, and answered if anybody   *)
(* still listens.                                                          *)
Process(c) ==
    /\ pending[c] # <<>>
    /\ peer[c] \in {"open", "ghost"}
    /\ LET r    == Head(pending[c])
           rest == Tail(pending[c])
       IN  \E status \in Status, effect \in BOOLEAN :
              /\ status = "ok" => effect
              /\ status = "fence" => ~effect
              /\ applied' = [applied EXCEPT ![r] =
                                IF effect /\ @ < MaxApplied THEN @ + 1 ELSE @]
              /\ pending' = [pending EXCEPT ![c] = rest]
              /\ IF peer[c] = "open"
                 THEN /\ wire' = [wire EXCEPT ![c] =
                                     Append(@, [to |-> r, status |-> status])]
                      /\ UNCHANGED peer
                 ELSE /\ peer' = [peer EXCEPT ![c] = IF rest = <<>> THEN "none" ELSE @]
                      /\ UNCHANGED wire
    /\ UNCHANGED <<requestVars, idle>>

(* The gateway, a proxy or the network closes c: what was on it is lost.   *)
PeerDrops(c) ==
    /\ peer[c] \in {"open", "ghost"}
    /\ peer' = [peer EXCEPT ![c] = IF @ = "open" THEN "dropped" ELSE "none"]
    /\ pending' = [pending EXCEPT ![c] = <<>>]
    /\ wire' = [wire EXCEPT ![c] = <<>>]
    /\ UNCHANGED <<requestVars, idle, applied>>
-----------------------------------------------------------------------------
(* The connections of the client.                                          *)

(* The connections in closed are closed by the client.                     *)
CloseAll(closed) ==
    /\ peer' = [c \in Conn |->
                   IF c \notin closed THEN peer[c]
                   ELSE IF pending[c] = <<>> THEN "none" ELSE "ghost"]
    /\ wire' = [c \in Conn |-> IF c \in closed THEN <<>> ELSE wire[c]]

(* _dropped: an idle connection that was closed, or that has data to read. *)
Usable(c) == peer[c] = "open" /\ wire[c] = <<>>

(* The connections of the pool from the i-th on.                           *)
From(i) == {idle[j] : j \in i..Len(idle)}

(* take: the newest idle connection that is usable; those above it are     *)
(* closed.  All of them are when even the newest is past idle_seconds.     *)
Take(r) ==
    /\ at[r] = "connecting"
    /\ Pooled(r)
    /\ \E i \in 1..Len(idle) :
          /\ Usable(idle[i])
          /\ \A c \in From(i + 1) : ~Usable(c)
          /\ idle' = SubSeq(idle, 1, i - 1)
          /\ conn' = [conn EXCEPT ![r] = idle[i]]
          /\ CloseAll(From(i + 1))
          /\ pending' = [pending EXCEPT ![idle[i]] = Append(@, r)]
    /\ reused' = [reused EXCEPT ![r] = TRUE]
    /\ at' = [at EXCEPT ![r] = "sent"]
    /\ UNCHANGED <<asks, attempt, left, got, applied>>

(* Nothing usable is idle, or all of it is too old.                        *)
Retired(r) == IF Pooled(r) THEN From(1) ELSE {}

(* A new connection, on which the request is sent.                         *)
Connect(r) ==
    /\ at[r] = "connecting"
    /\ \E c \in Conn :
          /\ peer[c] = "none" /\ c \notin From(1)
          /\ conn' = [conn EXCEPT ![r] = c]
          /\ pending' = [pending EXCEPT ![c] = <<r>>]
          /\ peer' = [d \in Conn |->
                         IF d = c THEN "open"
                         ELSE IF d \in Retired(r) THEN "none"
                         ELSE peer[d]]
    /\ wire' = [d \in Conn |-> IF d \in Retired(r) THEN <<>> ELSE wire[d]]
    /\ idle' = IF Pooled(r) THEN <<>> ELSE idle
    /\ reused' = [reused EXCEPT ![r] = FALSE]
    /\ at' = [at EXCEPT ![r] = "sent"]
    /\ UNCHANGED <<asks, attempt, left, got, applied>>

(* A variant with a bug: the response always returns its connection.       *)
GiveOrCloseUnread(r, complete) ==
    /\ conn' = [conn EXCEPT ![r] = None]
    /\ reused' = [reused EXCEPT ![r] = FALSE]
    /\ IF Len(idle) < MaxIdle
       THEN /\ idle' = Append(idle, conn[r])
            /\ wire' = [wire EXCEPT ![conn[r]] = IF @ = <<>> THEN @ ELSE Tail(@)]
            /\ UNCHANGED peer
       ELSE CloseAll({conn[r]}) /\ UNCHANGED idle

(* _PooledResponse.close: a response that was read to its end returns its  *)
(* connection, if the gateway keeps it open and there is room.             *)
GiveOrClose(r, complete) ==
    /\ conn' = [conn EXCEPT ![r] = None]
    /\ reused' = [reused EXCEPT ![r] = FALSE]
    /\ \/ /\ complete /\ Pooled(r) /\ Len(idle) < MaxIdle
          /\ idle' = Append(idle, conn[r])
          /\ wire' = [wire EXCEPT ![conn[r]] = Tail(@)]
          /\ UNCHANGED peer
       \/ CloseAll({conn[r]}) /\ UNCHANGED idle
-----------------------------------------------------------------------------
(* The retry loop.                                                         *)

Start(r) ==
    /\ at[r] = "idle"
    /\ at' = [at EXCEPT ![r] = "connecting"]
    /\ UNCHANGED <<asks, attempt, left, conn, reused, got, netVars>>

(* The call returns or raises, and its locals are gone.                    *)
Ends(r, how) ==
    /\ at' = [at EXCEPT ![r] = how]
    /\ attempt' = [attempt EXCEPT ![r] = 0]
    /\ left' = [left EXCEPT ![r] = 0]

(* _ucloud_unavailable_retry_attempts is None.                             *)
DeadlineBound(r) == Kind(r) \notin {"discard", "other"}

(* pre_dispatch_fence                                                      *)
Fenced(r, status) ==
    \/ status = "fence"
    \/ status = "retryable" /\ Kind(r) \in {"delete", "discard"}

(* A variant with a bug: what is retryable is repeated for every method.   *)
MayRepeatAnything(r, status) ==
    /\ status \in {"fence", "retryable"}
    /\ \/ DeadlineBound(r) /\ (Fenced(r, status) \/ Kind(r) = "create")
       \/ attempt[r] + 1 < MaxAttempts

(* _should_retry_ucloud_unavailable                                        *)
MayRepeat(r, status) ==
    /\ \/ Fenced(r, status)
       \/ status = "retryable" /\ Kind(r) \in {"read", "create"}
    /\ \/ DeadlineBound(r) /\ (Fenced(r, status) \/ Kind(r) = "create")
       \/ attempt[r] + 1 < MaxAttempts

(* _sleep_for_retry: only when more than the delay remains.                *)
SleepOrRaise(r) ==
    IF left[r] > 1
    THEN /\ at' = [at EXCEPT ![r] = "sleeping"]
         /\ left' = [left EXCEPT ![r] = @ - 1]
         /\ UNCHANGED attempt
    ELSE Ends(r, "exhausted")

(* The answer is read; the loop ends with it, or repeats the request.      *)
Answered(r) ==
    /\ at[r] = "sent"
    /\ wire[conn[r]] # <<>>
    /\ LET answer == Head(wire[conn[r]])
       IN  /\ got' = [got EXCEPT ![r] = answer.to]
           /\ GiveOrClose(r, answer.status # "large")
           /\ IF MayRepeat(r, answer.status) THEN SleepOrRaise(r)
              ELSE Ends(r, IF answer.status = "ok" THEN "ok" ELSE "failed")
    /\ UNCHANGED <<asks, pending, applied>>

(* _connection_retry_delay                                                 *)
MayReconnect(r) ==
    attempt[r] + 1 < (IF DeadlineBound(r) \/ MaxConnects < MaxAttempts
                      THEN MaxConnects ELSE MaxAttempts)

(* The connection is refused, or there is no route: nothing was sent.      *)
ConnectFails(r) ==
    /\ at[r] = "connecting"
    /\ idle' = IF Pooled(r) THEN <<>> ELSE idle
    /\ CloseAll(Retired(r))
    /\ IF MayReconnect(r) /\ left[r] > 1 THEN SleepOrRaise(r)
       ELSE Ends(r, "failed")
    /\ UNCHANGED <<asks, conn, reused, got, pending, applied>>

(* A reused connection the peer closed: only a read may be sent again.     *)
ResentAfterDrop(r) == reused[r] /\ Kind(r) = "read"

Dropped(r) ==
    /\ at[r] = "sent"
    /\ peer[conn[r]] = "dropped"
    /\ CloseAll({conn[r]})
    /\ conn' = [conn EXCEPT ![r] = None]
    /\ reused' = [reused EXCEPT ![r] = FALSE]
    /\ IF ResentAfterDrop(r)
       THEN at' = [at EXCEPT ![r] = "connecting"] /\ UNCHANGED <<attempt, left>>
       ELSE Ends(r, "failed")
    /\ UNCHANGED <<asks, got, idle, pending, applied>>

(* A variant with a bug: the timeout is the connection's only.             *)
TimesOutConnecting(r) ==
    /\ at[r] = "connecting"
    /\ left[r] = 0
    /\ Ends(r, "timeout")
    /\ UNCHANGED <<asks, conn, reused, got, netVars>>

(* The timeout of an attempt is the time that is left to the request.      *)
TimesOut(r) ==
    /\ at[r] = "sent"
    /\ left[r] = 0
    /\ GiveOrClose(r, FALSE)
    /\ Ends(r, "timeout")
    /\ UNCHANGED <<asks, got, pending, applied>>

(* The delay is over, perhaps long over: _required_remaining_seconds.      *)
Wake(r) ==
    /\ at[r] = "sleeping"
    /\ \/ /\ at' = [at EXCEPT ![r] = "connecting"]
          /\ attempt' = [attempt EXCEPT ![r] = IF @ < MaxAttempt THEN @ + 1 ELSE @]
          /\ UNCHANGED left
       \/ Ends(r, "timeout")
    /\ UNCHANGED <<asks, conn, reused, got, netVars>>

(* Time passes while an answer is awaited.                                 *)
Tick(r) ==
    /\ at[r] = "sent"
    /\ left[r] > 0
    /\ left' = [left EXCEPT ![r] = @ - 1]
    /\ UNCHANGED <<asks, at, attempt, conn, reused, got, netVars>>
-----------------------------------------------------------------------------
RequestStep(r) ==
    \/ Take(r) \/ Connect(r) \/ ConnectFails(r)
    \/ Answered(r) \/ Dropped(r) \/ TimesOut(r) \/ Wake(r) \/ Tick(r)

Done ==
    /\ \A r \in Request : at[r] \in Ended
    /\ UNCHANGED vars

Next ==
    \/ \E r \in Request : Start(r) \/ RequestStep(r)
    \/ \E c \in Conn : Process(c) \/ PeerDrops(c)
    \/ Done

(* Timeouts and delays end and a step that is possible is taken.           *)
Fairness == \A r \in Request : WF_vars(RequestStep(r))

Spec == Init /\ [][Next]_vars /\ Fairness
-----------------------------------------------------------------------------
(* A mutation that is not idempotent takes effect at most once, whatever   *)
(* is lost, refused, late or repeated by either of the two loops: nothing  *)
(* ambiguous is ever sent again.                                           *)
AppliedOnce ==
    \A r \in Request : Kind(r) \in {"operation", "other"} => applied[r] <= 1

(* Threads that share connections never read each other's answers, though  *)
(* a connection is reused and an answer can come after its timeout.        *)
OwnAnswer == \A r \in Request : got[r] \in {r, None}

(* Every request ends: by an answer, or by its attempts or its deadline.   *)
RequestsEnd == \A r \in Request : at[r] = "connecting" ~> at[r] \in Ended
=============================================================================

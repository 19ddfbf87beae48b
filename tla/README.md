# Formal model of the UCloud Sandboxes SDK

TLA+ specifications of the parts of `src/ucloud_sandboxes_sdk` whose behaviour
depends on concurrency, failure and order, with TLC models that check them on
small instances and TLAPS proofs for every instance. Paths below are relative
to the repository; `relay.py`, `client.py` and so on are files of
`src/ucloud_sandboxes_sdk`.

## 1. The system

The package is the client side of two services. `client.py` talks to a sandbox
gateway (create, exec, files, jobs, groups, image builds). `relay.py` talks to a
relay, which holds HTTP requests made inside sandboxes until a worker on the
trainer's side answers them. `integrations/inspect.py` adapts the asynchronous
sandbox client to Inspect. Both clients exist twice, for threads and for asyncio.

| Component | State | Operations | Interacts with | What makes it correct |
|---|---|---|---|---|
| Request budget, asyncio (`_relay_admission.py:41-84`) | free permits, FIFO deque of futures | `acquire`, `release`, `_drain` | every worker session of a client | permits conserved, no idle permit beside a waiter, FIFO, a stop answers |
| Request budget, threads (`:13-38`) | free permits, deque of tickets, condition | `acquire`, `release` | the same | the same |
| Worker sessions (`relay.py:1407-1572`) | handler tasks, poll errors, stop event | poll loop, handlers, failure and cancellation | budget, poll semaphore, relay | capacity never exceeded, nothing left behind, first failure raised, every session ends |
| Request handling (`relay.py:1575-1742`, the commit calls) | handler, lease renewer, stop event | forward or call the handler, commit, renew | relay; session that started it | ok means durable, one durable result, no orphan renewer, it ends |
| Registrations (`relay.py:200-238, 367-460, 1184-1405`) | token per rollout, session's own token | register, unregister with retries, close | relay; polls carry the token | an old session never removes a newer registration |
| Sync connection pool (`_http.py:39-206`) | idle connections per origin | take, give, reuse after a drop | all sync requests, threads | a connection has one user; a write is never replayed |
| Request retries (`client.py:2187-2307, 3661-3742, 4862-5135`) | attempt, deadline | retry or raise | gateway | ambiguous mutations are not repeated |
| Exec streams (`client.py:1240-1430, 2451-2680`) | cursor, terminal status, stdin buffer | read events, wait, write, close | gateway, output pumps | no output lost or repeated, end only after the last page |
| Jobs (`client.py:1433-1556, 2682-2805, 3987-4049`) | cursor, delays | follow | gateway | as exec streams, across reconnects |
| Sandbox groups (`client.py:743-922, 1647-1690`) | members placed so far | repeated creation | gateway | created once, every member accounted for |
| Images (`client.py:1282-1341, 2068-2098`) | settled images, build cursor | poll until settled | gateway | settles or times out |
| Build context admission (`client.py:4052-4133`) | limiter per event loop, executor work | admit, prepare, discard | event loop and executor threads | a place is returned exactly once |
| Inspect provider (`integrations/inspect.py:97-303, 856-931, 1003-1103`) | registry of running sandboxes | sample and task life cycle, builds | sandbox client | every sandbox is deleted or registered |
| Validation, decoding (`network_policy.py`, `_agent_contract.py`, wire formats) | none | pure functions | | |

The hard behaviour is of three kinds. In the relay worker one event loop (or one
process with threads) runs many sessions that share permits and a token, and any
of them can be stopped, cancelled or refused between two suspension points. The
gateway client repeats requests that may or may not have been served, over
connections that may or may not be alive, and reads output whose end is announced
apart from the output itself. The Inspect provider puts a life cycle on top, of
builds and sandboxes that outlive the requests that made them.

## 2. What is modelled

| Module | Models | Role |
|---|---|---|
| `FifoAdmission` | what a budget promises: at most `Capacity` holders, nobody admitted ahead of a call that asked earlier | abstract specification |
| `AsyncRequestBudget` | `AsyncRequestBudget` | implements `FifoAdmission` |
| `SyncRequestBudget` | `SyncRequestBudget` | implements `FifoAdmission` |
| `RelayWorker` | `_run_async_worker`, the poll semaphore | composed with `AsyncRequestBudget` (`Budget == INSTANCE ...`) |
| `RelayRequest` | `_handle_async_request`, `_handle_sync_request`, renewers, commits; the relay as environment | |
| `RelayRegistration` | `_RelayWorkerState`, `RelaySession`, `unregister_rollout`; the registrations at the relay | component of `SyncRelayWorker` |
| `SyncRelayWorker` | `_run_sync_worker` and the executor it runs handlers in | extends `RelayRegistration` |
| `RequestRetry` | the retry loop of both gateway clients, `_ConnectionPool`, `open_reusing` | composes the two |
| `GroupCreate` | `_SandboxGroupCreate` and the loops around it | |
| `OutputStream` | what reading the output of a process promises | abstract specification |
| `OutputFollow` | `events`, `wait` and `follow` of exec and job handles | implements `OutputStream` |
| `ProcessInput` | `exec(input=...)`, `AsyncProcessStdin`, `AsyncSandboxProcess` | extends `OutputFollow` |
| `BuildContext` | `_async_image_build_request`: the limiter and the executor | component of `InspectSample` |
| `InspectSample` | the sandbox provider of Inspect: builds, sandboxes, cleanup | extends `BuildContext` |
| `..._proofs` | | theorems about the module of that name (`InspectSample_proofs`: about `BuildContext` too, `ProcessInput_proofs`: about `OutputFollow` too; `GatewayCalls_proofs`: about `RequestRetry` and `GroupCreate`) |
| `MC...` | constants for TLC | |

**Steps.** In the asyncio modules a step runs from one suspension point of a task
to the next, since nothing else runs in between. In `SyncRequestBudget` a step is
one critical section of the condition. Definitions keep the names of the code
(`available`, `waiters`, `future`, `stop`, `Acquire`, `Release`, `Drain`).

**AsyncRequestBudget.** `pc` says where a call of `acquire` is suspended:
`waiting` in `asyncio.wait`, `claiming` or `leaving` in the `gather` that reaps
the helper task on `stop.wait()`. The two are different states because the code
decides between them from `done` *before* the gather and looks at the future
again *after* it: a grant can arrive, or a second cancellation, in between.
`Abandon` is the outer `finally`. A cancelled future stays in the deque until a
drain pops it; the model replaces it by `Cancelled`. `Drain` states the loop of
`_drain` by its result: the number `k` of entries it pops.

**SyncRequestBudget.** `Turn` is one turn of the `while` loop: the stop event is
read first, then the head and the permits. `condition.wait(.05)` can return at
any moment, so `Wake` needs no notification.

**RelayWorker.** A slot `<<w, i>>` follows one permit through a session: the call
of `acquire`, the poll, and the handler task the poll leads to. `at` is the
`await` the session is suspended in. Every path that ends a poll is an action of
its own (empty, delivered, retryable error, fatal error, cancelled), because each
must return the permit exactly once or hand it over. `Fail` is the `except`
clause, `LeaveLoop` the code after the loop. The poll semaphore is FIFO with
`PollSlots` places. The handler is abstract: it ends well, with an error, or
cancelled. Cancellation of the session is an action for each `await`.

**RelayRequest.** A delivery is one lease of the request, with a handler and a
renewer that share a stop event. `Forwarding` deliveries commit through
`commit_response_bytes_to` (retried), the others through one `respond_to`;
`Threaded` ones join the renewer with a timeout and cannot be cancelled. A commit
is processed by the relay (`Accept`) at any moment after it was sent, also after
its sender gave up, and only while the delivery holds the lease. The relay is not
in the repository: `Lease`, `Expire`, `Revoke`, `Accept` and `Answered` are marked
external and say what its clients rely on (a lease can expire at any time, one
result is durable, a stale lease is refused with 409 or 410, the same result sent
again is acknowledged). Any commit, and any renewal (`RenewDenied`), can also end in
an error that is not retryable and says nothing of the lease: 400, 401, 403, 404,
422, or a reply that is not JSON. `sent` is the set of the results a delivery has
sent: the thread client makes no `RelayApiError` of some exceptions
(`relay.py:648-694`), and the handler answers such an exception with
`error_request` although a result is on its way already (`CommitBreaks`); a second
one leaves the handler (`ErrorBreaks`), and one in the renewer ends its thread
without a word (`RenewBreaks`). The asyncio client wraps every exception.

**RelayRegistration and SyncRelayWorker.** A registration token is named by the
session that it answers. `remembered` is the client's one token for the rollout,
`token` the session's own. Calls go into `mail` and are processed late, or never;
their sender may have given up. The last `CloseFails` alternative is the
cancellation of the task. `SyncRelayWorker` adds the worker loop of a session:
`run` is its place in the `while` loop, `settling` the futures that are done but
whose done callback, which returns the permit, has not run. The `with` statement
of the executor is the guard `Joined` of the two ways out: all threads have ended,
those that run done callbacks among them. `available` is the one count of permits
that all loops of the client share. The order of admission
is `SyncRequestBudget`'s; here a poll takes a permit when there is one.

**RequestRetry.** `at` is the place of a request in the loop; `left` is the time
to its deadline in ticks, of which every delay takes one at least. What the
gateway answers is reduced to what the loop tells apart: `fence` (refused before
dispatch), `retryable`, `failure`, `ok`, and `large`, a body over the limit that
is not read to its end. `peer` is a connection as both ends see it, so that an
idle connection can be closed, hold a late answer, or be reused between the two.
The deletion of a group (`discard`) is repeated like that of a sandbox, but bounded by
attempts as well as by the deadline.
A request of an asyncio client (`pooled = FALSE`) uses a connection of its own:
the pool of aiohttp is outside the repository.

**GroupCreate.** `last` and `records` are the fields of `_SandboxGroupCreate`; an
answer shows the state of each member and brings the records of those it created.
`Lost` is where the two clients differ: the asyncio client wraps no lost exchange in
a `SandboxApiError`, the other most of them (section 6). `Oversleeps` says whether a
delay can outlast the deadline, which `request_timeout` turns into a
`TimeoutError`.

**OutputFollow and ProcessInput.** A piece of output is named by its position. An
`Answer` holds up to `Limit` pieces and the status at the time; accepting it,
handing out each piece and deciding about the end are separate steps, since the
caller of a generator runs in between and another task may call `get`. A job's
record counts the bytes of its log, an older gateway sends no record with the log
and no `final_sequence`; its streams end with its process. In `ProcessInput` the
process of `exec` copies its input to its output through pipes of `Window` pieces
(the hardest case for `FollowEnds`); stdin of the adapter is a buffer, `sending`
is what the holder of the lock took out of it, and a send that fails may have
arrived. `received` keeps the first arrival of each piece, because a repetition
after a failure is what the code allows.

**BuildContext and InspectSample.** A preparation has a `stage` (its caller) and a
`job` (its future on the executor), which end independently: `Leave` is the
caller's cancellation or deadline at every suspension point, `releases` are the
`call_soon_threadsafe` calls that wait for the loop. `InspectSample` runs two
samples that need the same image. The look for an available image, the two looks
for an active build, the known ids, the preparation, the upload with its
ambiguous outcomes, the recovery and the wait are steps of their own, because
each is an await and builds begin and end in between. `known` is the list of build ids
that a sample read before it submits, or that it read none. `blind` (samples one of
whose reads failed) and `old` (builds that had ended at the start) are only there
for `RightBuild`.

Each module also holds variants of its actions "with a bug" next to the action
they belong to. They are not part of the specification: replacing the action by
its variant makes one of the properties fail, which shows that the property
depends on that line of the code.

## 3. What is checked

| Run | Instance | Shows |
|---|---|---|
| `async_budget` | 3 calls of one session, 1 of another, 2 permits, deque of 4 | `PermitsConserved`, `NoIdlePermit`, `FifoOrder` (refinement of `FifoAdmission`), `StopAnswersCall`, `EveryCallAnswered` |
| `sync_budget` | the same instance | the same, without `NoIdlePermit`: a thread takes its permit only when it looks |
| `relay_worker` | 2 sessions of 2 handlers, 2 permits, 1 poll in flight, 2 poll errors | `NeverOverCommitted`, `EndedHoldsNothing`, `PrimaryFailureKept` |
| `relay_worker_live` | the same, every poll error fatal | `SessionEnds`, `PollersServed` |
| `relay_request` | 2 deliveries, one forwarding on asyncio, one threaded with a handler, 2 commit attempts | `OkMeansDurable`, `AckedSurvivesRenewal`, `NoOrphanRenewer`, `OneResultPerDelivery`, `EveryDeliveryEnds` |
| `relay_request_ack` | 2 handler deliveries | violates `LostAckIsRetried` (section 6) |
| `relay_sessions` | 2 sessions of one rollout, one with a loop of 2 handlers, a direct caller, 2 permits, 2 attempts, 2 poll errors | `ClosedMeansGone`, `NewestSurvives`, `OwnRequests`, `EndedRunsGiveBack` |
| `request_retry` | 2 requests in four mixes of kinds, 2 connections, 2 attempts, 2 ticks | `AppliedOnce`, `OwnAnswer`, `RequestsEnd` |
| `group_create` | 3 members, either client, 3 ticks | `EveryMemberHandled`, `ErrorKnowsMembers`, `CallEnds` |
| `group_create_lost` | the asyncio client, delays that keep to the deadline | violates `FailureListsMembers` (section 6) |
| `output_follow` | 3 readers on 2 gateways with 3 pieces in pages of 2; `exec` with 3 pieces of input and pipes of 1; an adapter with 2 writes | `OutputInOrder` (refinement of `OutputStream`), `FollowEnds`, `StdinInOrder`, `ClosedStdin` |
| `inspect_samples` | 2 samples with 2 and 1 submissions, 1 place, 1 thread | `PlacesReturned`, `ArchiveOwned`, `RightBuild`, `NothingForgotten` |

In words:

- `OneResultPerDelivery`: a delivery to an asyncio client sends one result, and
  after a commit that failed never a different one. One to a thread client can send
  an error after its result (section 6), and nothing else. What holds of both is that
  the relay makes one result durable and that `ok` means one's own (`OkMeansDurable`).
  `AckedSurvivesRenewal`: after its receipt a delivery fails only if the
  registration is gone or a renewal was denied for a reason that is no race with the
  commit.
- `ClosedMeansGone`: an acknowledged unregistration left nothing at the relay,
  whichever attempt was processed. `NewestSurvives`: whoever leaves an older
  registration, with lost answers and repetitions, does not end a newer one.
  `OwnRequests`: a loop polls with the token of its session, although the client
  remembers the token of the latest. `EndedRunsGiveBack`: the permits that are
  free and those in the hand of loops that still run (a poll in flight, handlers,
  callbacks to come) add up to the capacity, so that a loop that ended has given back
  all of its own, and none twice. It speaks of the shared count, in every state, and
  breaks when the executor is left before a callback has run.
- `AppliedOnce`: a mutation that is not idempotent takes effect at most once.
  `OwnAnswer`: no request reads the answer of another. `RequestsEnd`: no chain of
  retries goes on for ever.
- `EveryMemberHandled`, `ErrorKnowsMembers`: nothing that an answer told is lost
  to the caller, in success or in a `SandboxGroupError`.
- `OutputInOrder`: no piece is skipped, repeated or swapped, and the end is told
  after all that was written before the exit. `FollowEnds`: it is told.
- `PlacesReturned`, `ArchiveOwned`: a preparation returns its place once and
  closes its archive, whoever is last. `RightBuild`: a sample never takes the end
  of an old build for its own, and has no second build accepted unless a look
  failed. `NothingForgotten`: after the cleanup a sandbox is left only if somebody
  was told, or the initialisation of its sample was cancelled.

**Bounds.** Four calls on two permits leave two calls waiting, so that a live, a
cancelled and a granted entry can stand in every order; two sessions share the
budget so that one can be stopped while the other goes on. `MaxQueue` is the one
bound on an otherwise unbounded value: cancelled futures behind a live head stay
in the deque, and each stop adds one. Four entries allow tombstones between live
ones; the proofs hold for every `MaxQueue`. Two sessions with two handlers each
compete for two permits, so that one session can take both; one poll place makes
the semaphore queue matter. The code allows 60 commit attempts and 8 poll errors;
2 are enough for "not the last" and "the last". The liveness run of the worker
takes `MaxErrors = 1`, which drops the backoff, to keep the behaviour graph small;
the safety run goes through the backoff. Two deliveries are a stale holder and a
new one; a third would be another stale one.

Two sessions and a direct caller are an older registration, a newer one and a
caller that owns neither; 2 of the code's 3 attempts are "not the last" and "the
last". A loop of two handlers can poll while one runs, and end while one runs and the
callback of the other is to come; that several loops share the permits is left to
the proof. `RequestMixes` puts a read beside a mutation, or
the deletion of a group, on the same connections, two mutations with different rules
beside each other, and the two clients; two
connections are enough for one that is idle while the other is used, and
`MaxIdle` (16 in the code) is not reached. `Deadline` bounds the delays that a
request survives; 2 of the code's 5 refused connections and 2 of its attempts
stand for all but the last and the last. `MaxApplied = 2` stops counting where
`AppliedOnce` is broken. Three group members are placed in up to three answers,
and `Deadline = 3` leaves time for two repetitions. Three pieces in pages of
`Limit = 2` have a full page, a last one and a gap between them; `Window = 1` is
the tightest pipe. One of the two samples can submit twice (`Submits`), which is
the repetition that `RightBuild` is about; with three preparations on one place
and one thread (the code has two of each) all but one wait.

**Fairness.** Only what the runtime does by itself is fair: the event loop resumes
a task that is ready, a timed wait expires, a call with a client timeout returns
(each relay call has one), and a handler is expected to return. Nobody is obliged
to call `acquire`, to release, to stop or to cancel, and nothing makes the relay
lease or accept. `EveryCallAnswered` assumes in its own statement that granted
permits come back, since that is the session's doing; `PollersServed` shows that
the sessions keep that promise. `RequestsEnd` and `CallEnds` need a step of the
request only: an attempt has a timeout and a delay ends, whatever the gateway
does. `FollowEnds` needs the reader, `exec` and the pump to run and their requests
to be answered, and of the process only that the one which copies its input goes
on when it can; nobody has to write to the adapter, signal, or abandon a read.
`relay_sessions` and `inspect_samples` check safety and assume no fairness.

**Deadlock** is checked in every run; `Done` steps stand for executions that are
over.

## 4. What is proved

Every theorem holds for all values of the constants that satisfy the assumptions
of its module; each invariant was checked by TLC, on the instance of its run,
before it was proved. Hardly any of the properties is inductive as it stands. For
each module this section says what had to be added and why.

The assumptions are those the code justifies: limits and capacities are positive,
sets that are counted are finite, a function has the domain its use needs, and
`None` and the tombstone `Cancelled` are different from the values they stand
beside (`NoneAssumption`, `CallAssumption`, `BudgetAssumption`).

### Request budgets

| Module | Theorem | Statement |
|---|---|---|
| `AsyncRequestBudget_proofs` | `TypeCorrect` | `Spec => []TypeOK`; in particular `available` is never negative |
| | `PermitsNeverLost` | `Spec => []PermitsConserved` |
| | `NoLostWakeup` | `Spec => []NoIdlePermit` |
| | `ImplementsFifo` | `Spec => FifoOrder`, the refinement of `FifoAdmission` |
| `SyncRequestBudget_proofs` | `TypeCorrect` | `Spec => []TypeOK` |
| | `NoPermitLost` | `Spec => []PermitsConserved` |
| | `ImplementsFifo` | `Spec => FifoOrder`, the refinement of `FifoAdmission` |

**asyncio.** A drain pops an entry and grants it: the count is right only if the
entry is a future that is pending (a granted one would be counted once and paid
twice) and is in the deque once, and no waiter is left beside a permit only if
every pending future is in the deque. That is `QueueFits`. A release or a give-up
is right only if the stage of the call says what its future is: `StageFits`. The
proof follows the code: `DrainRestores` shows that a drain of any `n` permits and
any fitting deque establishes the invariant, whatever was wrong about idle permits
before; `EnqueueFits`, `BuryFits` and `GiveBackFits` show that what each caller
passes to it fits; `StepInvariant` has one case per action.

**Threads.** The deque holds each waiting call once (`QueueFits`); then a turn that
finds its ticket first takes the only occurrence out, and the others keep their
order. `TurnEffect` states what any turn does, for `acquire` and for the timed
wait alike.

**Refinement.** `FifoAdmission` holds a set of holders and, for each waiting call,
the set of calls that asked before it. Both are computed from the deque, so that a
step is right if it moves exactly the calls it admits and keeps everybody else's
predecessors. In the thread budget `acquire` is a `Join` or a stutter, a turn a
`Leave`, an `Admit` or a stutter, a release a `Return`. A drain of the asyncio
budget admits several calls at once: `DrainOrder` and `DrainSettles` show that it
admits a prefix of the live futures and no more than there are permits, which is
what `Settle` of the abstract specification asks for. A give-up after a grant
(`Abandon`) maps to a `Return`, one before it to a `Leave`.

### Worker sessions

| Module | Theorem | Statement |
|---|---|---|
| `RelayWorker_proofs` | `UsesBudget` | `Spec => BP!Init /\ [][BP!Next]_(BP!vars)`: sessions take only steps of the budget |
| | `TypeCorrect` | `Spec => []TypeOK` |
| | `CapacityRespected` | `Spec => []NeverOverCommitted` |
| | `NothingLeftBehind` | `Spec => []EndedHoldsNothing` |
| | `FirstFailureWins` | `Spec => PrimaryFailureKept`, an action property |
| `SyncRelayWorker_proofs` | `TypeCorrect` | `Spec => []TypeOK` |
| | `AcknowledgedCloseIsFinal` | `Spec => []ClosedMeansGone` |
| | `NewestRegistrationSurvives` | `Spec => []NewestSurvives` |
| | `LoopsServeTheirOwn` | `Spec => []OwnRequests` |
| | `PermitsComeBack` | `Spec => []EndedRunsGiveBack` |

**asyncio.** The proof is compositional. `BP` is the budget's proof module
instantiated with the budget inside `RelayWorker`; its inductive invariant is a
conjunct of this one, and its `StepInvariant` gives the budget's half of every
step. What is left is the sessions' half: `Fits` says that a handler that runs
holds the permit of its slot, that beside its handlers a session has at most one
slot in hand, at the stage that the `await` it is suspended in implies, that a
session that ended has no task, and that there is no outcome before the cleanup.
This is why a path out of the poll can return *the* permit (`Current`) without
asking which. `QueueFits` says that the poll semaphore's queue holds each session
that waits in it once, so that a cancelled session leaves no place behind. Every
action of one session is shown to leave the others alone (`OthersKept`) and to
restore its own `Fits` (`Local`). `CapacityRespected` then counts: handlers and
polls in flight are different slots that hold permits, and there are no more than
`Capacity` of those.

**Threads.** For every set of sessions, finite or not, and every choice of those
that run a loop. A late call could undo what an answer said, so `MailFits` says
what may be under way: an unregistration carries the token its caller is after,
and the registration of a session is no longer under way once the session has its
token. The second half rests on who may know a token at all, `TokensKnown`: the
client, the session and the direct caller hold a token only after the relay has
answered its registration, so nobody can name a registration that is still to
come, and a late registration cannot bring back one whose unregistration was
acknowledged. `AnswersTrue` says that an answer that is not read yet is still true
when it is read; `AttemptsFit` keeps the count of attempts within its type.
`LoopFits` ties the loops to the sessions: a session is open while its loop runs,
the loop polls with the session's token, and there is a free thread between the
check at the top of the loop and the lease. The proof has a lemma per action on
registrations; of those of the loops, only `Poll` touches a registration, and it
does what `Remember` does. `RegistrationKeepsOpen` and `LoopsLeftAlone` let the
two halves be proved apart. `PermitsComeBack` counts: the permits in hand are
numbered, session by session, from 1 to what the session has (`Numbered`), so that
a step takes the next number (`PermitTaken`), returns the last one
(`PermitReturned`) or moves none (`PermitsStay`); a poll that becomes a handler
and a handler that becomes a callback are of the third kind. `PermitInv` adds that the
set is finite, without which the count would say nothing. The way out of a loop
moves none because of `Joined`, and it is the one step where a permit could leave
the sum.

### Request handling

| `RelayRequest_proofs` | Statement |
|---|---|
| `TypeCorrect` | `Spec => []TypeOK` |
| `EndedOkIsDurable` | `Spec => []OkMeansDurable` |
| `ReceiptSurvivesRenewal` | `Spec => []AckedSurvivesRenewal` |
| `RenewerNeverOutlives` | `Spec => []NoOrphanRenewer` |
| `OneResult` | `Spec => OneResultPerDelivery`, an action property |

`HandlerFits` says what the place of a handler implies: nothing was sent while it
works, something was while it commits (one result, on asyncio), a receipt has arrived
from `settling` on. `AnswerFits` ties the relay to it: the durable answer is one that
its delivery sent,
no lease is given out beside it, and a receipt arrives for the durable answer
only, so that `ok` is durable. `LeaseFits` is what `AckedSurvivesRenewal` needs: a
renewal is refused with 409 or 410 only to a delivery that has lost its lease for good, so that it
can have an answer only if the answer came first and the registration went after;
without it a refused renewal could be followed by a commit that succeeds.

### Requests and sandbox groups

| `GatewayCalls_proofs` | Statement |
|---|---|
| `TypeCorrect` | `Spec => []TypeOK` of `RequestRetry` |
| `NeverAppliedTwice` | `Spec => []AppliedOnce` |
| `ReadsOwnAnswer` | `Spec => []OwnAnswer` |
| `GroupTypeCorrect` | `GroupSpec => []GroupTypeOK` |
| `NoMemberLost` | `GroupSpec => []EveryMemberHandled` |
| `ErrorNamesMembers` | `GroupSpec => []ErrorKnowsMembers` |

**Requests.** `ConnFits` says that a connection carries one request or its answer,
never both and never a second one, and that what the client closed while its
request was on it (`ghost`) is remembered until the gateway has processed or lost
that request. `UseFits`: a request that awaits its answer has a connection that no
other request uses and that is not idle, and unless the gateway dropped it, the
request or its answer is on it. `PoolFits`: an idle connection is in the pool
once, and nothing is on it. Together they give `OwnAnswer`: the only answers on a
connection are those of its user, and what is returned to the pool was read to its
end. `MutationFits` is what `AppliedOnce` needs: a mutation that is not idempotent
is under way on one connection at most and has then had no effect; while a further
attempt can still be sent it has had none and is under way nowhere. The step that
could break this is the answer: the only one such a mutation is repeated after is
a fence, and a fence means no effect.
A read that is sent again after a dropped connection, and a connection that is
refused, leave it alone.

**Groups.** The two specifications share no variable, and nothing is claimed about
them together. The records of a group arrive in several answers. `RecordsFit` says
that while the call goes on the record of each member that exists has arrived, is
in the answer under way, or never left the gateway; `ReplyFits` says how far the
answer under way may be behind the gateway (a member may have been deleted since,
and nothing else).

### Inspect provider and build contexts

| `InspectSample_proofs` | Statement |
|---|---|
| `TypeCorrect` | `Spec => []InspectTypeOK` |
| `NoPlaceLost` | `Spec => []PlacesReturned` |
| `NoArchiveLost` | `Spec => []ArchiveOwned` |
| `NoWrongBuild` | `Spec => []RightBuild` |
| `NoSandboxForgotten` | `Spec => []NothingForgotten` |

The context half (`ContextInv`) is proved for a step of any caller (`ContextStep`),
and each step of a sample is shown to be one. `QueueFits` says that the queue of
the limiter holds each asking preparation once; `JobFits` relates the two ends
that can come in either order: a caller that left while a thread worked has told
it to discard the archive, and nobody leaves work in the executor's queue. A
place is then counted once, since a granted caller has no job.

`RightBuild` needs `SearchFits` and `OneBuild`. `SearchFits`: a list of known ids,
once read, holds every build that had ended at the start and is closed towards
older ids, so that what recovery matches (an id that is not in the list) is newer
than all of them. `OneBuild`: until a sample has submitted, it owns no build, and
one that it owns while it recovers is not in its list; hence recovery finds it and
there is no second submission that is accepted. `SandboxFits` says for every place
of a sample where its sandbox is accounted for: in the registry, in the work that
`task_cleanup` still has, in its errors, or in a warning.

### Output and stdin of a process

| `ProcessInput_proofs` | Statement |
|---|---|
| `ImplementsStream` | `Spec => OutputInOrder`, the refinement of `OutputStream` |
| `StdinKeepsOrder` | `Spec => []StdinInOrder` |
| `StdinClosesLast` | `Spec => []ClosedStdin` |

For every set of cases (any amount of output and input), page size and pipe size.
`PageFits` is what the readers rely on: an answer has no more than there is behind
the cursor, is empty only if nothing is left, and goes on at the cursor if nothing
was lost. `HandFits` says that what was handed out, and what is left of a page,
are the pieces before the cursor. The end is the hard part: `StatusFits` says that
a status that was seen, however old, tells no end before the exit, and `ReplyFits`
that an answer without events which says that the process exited was given when
all had been read, and that its status is still the accepted one when the reader
decides (`get` of another task cannot come in between). For stdin, `StdinFits`
says that what arrived, what is being sent and what is buffered cover all that was
written, the first two perhaps overlapping after a failure; `LockFits` says that
one drain sends at a time and that nothing is left when the end of the input is
sent. The refinement maps each hand-out to `HandOut`, a failure to `Fail`, and the
reader's other steps to stutters.

### Only model-checked

- Liveness (`StopAnswersCall`, `EveryCallAnswered`, `SessionEnds`, `PollersServed`,
  `EveryDeliveryEnds`, `RequestsEnd`, `CallEnds`, `FollowEnds`): beyond the proof
  system, which has no rules for `ENABLED` and fairness.
- `LostAckIsRetried` and `FailureListsMembers` are violated (section 6).

The type invariants of `SyncRequestBudget`, `SyncRelayWorker`, `RequestRetry`,
`GroupCreate`, `BuildContext` and `InspectSample` belong to no run, and are proved.
`OutputTypeOK` describes the instance that is checked (`Positions` is its
bound); the proofs use `GatewayFits` in its place, which has no bound.

## 5. What is not modelled

- The relay and the gateway themselves: outside the repository. Their behaviour is
  the least the client relies on.
- A create or a build whose answer was lost is, in `InspectSample`, served at once or
  never. Late service is outside `RightBuild` and `NothingForgotten`: the code takes
  a 404 of the deletion as final (`inspect.py:869`), so that a sandbox that is created
  after it has no owner until its time to live is over; and it polls for a build that
  appears late (`inspect.py:1076-1103`), but for a bounded time, after which a second
  one may be submitted.
- Reads outside `/v1/sandboxes/` and `/v1/exec/`, whose fences are repeated up to six
  times and not up to the deadline (`client.py:5024-5036`): they end the earlier.
- A property of the reset: both worker modules start the count of poll errors anew
  after a good poll, but no property would notice that the code did not.
- Wire formats, validation, headers, URLs: pure functions.
- Lengths of time: a timeout is a step that may happen; deadlines of requests and
  groups are counted in ticks, all others pass at any moment.
- `release(n)` for `n > 1` and a poll with `limit > 1`: `acquire` returns 0 or 1.
- A poll reply that is lost with the leases in it: the relay gives the requests to
  another worker when the leases expire; `RelayRequest` starts at the delivery.
- In `RelayWorker` the done callback of a handler and the end of the handler are
  one step, and the top of the loop is a step of its own; the second adds
  interleavings, the first removes none that a task could observe.
- `communicate` and the `StreamReader`s of the process adapter. A failing signal
  sets the exception of both readers as well as that of `wait` (`_fail`); only
  `wait` is modelled.
- Handles used by several threads at once: `get` beside `events` on one
  `ExecHandle` is modelled for asyncio, where nothing runs between an answer and
  its acceptance.
- `ensure_images`, `wait_for_images` and `build_image` of the clients; `wait` of a
  job. They are loops over one read that decide from the answer alone.
- A loop that closes while a preparation runs, and a process that forks with
  executor threads.
- Two samples that look for an active build at the same time both submit one: the
  code checks and acts across several awaits. README.md:857 says a provider waits
  when another client *already* has the build running; `RightBuild` claims nothing
  about two samples.
- `SandboxClient` calls that are one request and one decoded reply: files, tunnels,
  SSH, resources.

## 6. Findings

`relay_request_ack`: README.md:509 says that a lost acknowledgement retries the
identical result and never requires a second model invocation. Forwarded results
are retried (`commit_response_bytes_to`). What a caller's handler returns is
not: `_commit_async_handler_result` and `_commit_sync_handler_result`
(`relay.py:1794-1823`) call `respond_to` once, and a lost acknowledgement ends the
session with an error. If the relay has not stored the answer, the request is
leased again and the handler runs a second time. `OkMeansDurable` holds all the same:
the relay makes one result of a request durable, and no handler reports success
without a durable one of its own.

The same sentence fails in another way on the thread client, which the model allows
(`CommitBreaks`) and no run of its own shows. The docstring of
`commit_response_bytes_to` (`relay.py:527`) says "Retain a response durably, retrying
the identical result if needed". `RelayWorkerClient._request_json`
(`relay.py:648-694`) makes a `RelayApiError` of an `OSError` of the exchange, but not of
one raised while the body of an error reply is read (inside the `except` clause for
`HTTPError`, which the next clause does not cover), of the exceptions of
`http.client`, and of a reply that is not UTF-8. Such an exception is not retried. It
reaches `_handle_sync_request`, which takes it for an error of the work and sends
`error_request` (`relay.py:1615-1616`): if the answer was not stored, the relay makes
the error durable in its place, although the answer exists and could have been sent
again. If the answer *was* stored, it depends on the relay's reply to the error
whether the session goes on; the model allows both. `OneResultPerDelivery` bounds
what can happen: one error after the result, and only on threads.

`group_create_lost`: README.md:334 says that failures of a group creation other
than a gateway without groups raise `SandboxGroupError`, whose `group` lists the
members that were placed. The loop of the asyncio client catches `SandboxApiError`
only (`client.py:3002`), and its request layer wraps only a refused connection in
one. A connection that breaks or a read that times out after a partial answer
leaves the call as an exception of aiohttp, and the placed members are not listed.
The synchronous client makes a `SandboxApiError` of most such failures
(`client.py:2248-2258`), but not of one raised while the body of an error reply is read
(`client.py:2236, 4844-4859`) and not of the exceptions of `http.client`; `Lost` allows
both outcomes. Two more paths lose the list on
both clients, and `Unavailable` and `GroupWake` model them: a 404, 405 or 501 after a
partial answer raises `SandboxGroupUnavailableError` without a group
(`client.py:880`), and a delay that outlasts the deadline a `TimeoutError`
(`client.py:859`).

Seen while modelling, and allowed by the models: a drain that is cancelled loses
the bytes it was sending (`client.py:2567`); a gap in the event history moves the
cursor over events that are never handed out (`client.py:1259`); `wait` with a
timeout that passes drops the events it has consumed; a sample whose
initialisation is cancelled leaves its sandbox to `cli_cleanup` (`inspect.py:211`);
a registration whose answer is lost has no owner until it expires.

## 7. Plan

The modules planned at the survey are written. What is left to model, in order:
waiting for jobs and images (one read in a loop), `communicate`, and a job or an
exec session whose sandbox is deleted or parked while it is read.

Every safety invariant, action property and refinement that a passing run checks
is a theorem.

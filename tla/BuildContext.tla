----------------------------- MODULE BuildContext -----------------------------
(***************************************************************************)
(* Preparing build contexts on the asyncio client                          *)
(* (_async_image_build_request in client.py): a semaphore of the event     *)
(* loop admits a preparation, a thread of an executor that all loops and   *)
(* clients share makes the archive, and the caller uses and closes it.     *)
(* The caller may be cancelled, or its deadline may pass, at any point of  *)
(* this, and what a thread has begun cannot be stopped.                    *)
(***************************************************************************)
EXTENDS Naturals, Sequences, FiniteSets

CONSTANTS Entry,      (* preparations                                      *)
          Places,     (* of the semaphore: _BUILD_CONTEXT_WORKERS          *)
          Workers     (* threads of the executor that others leave idle    *)

ASSUME ContextAssumption ==
    /\ IsFiniteSet(Entry)
    /\ Places \in Nat \ {0} /\ Workers \in Nat \ {0}

VARIABLES stage,      (* where the caller of the context manager is        *)
          free,       (* places that are free                              *)
          queue,      (* admission tasks that wait for one                 *)
          releases,   (* calls of release that wait for the loop           *)
          job,        (* _prepare_image_build_request on the executor      *)
          archive,    (* none, open or closed                              *)
          discard     (* preparations with _discard_image_build_request    *)

contextVars == <<stage, free, queue, releases, job, archive, discard>>

(***************************************************************************)
(* asking       waits for its admission                                    *)
(* granted      the admission task has a place, the caller not yet resumed *)
(* preparing    waits for the archive                                      *)
(* using        in the body of the context manager                         *)
(***************************************************************************)
ContextTypeOK ==
    /\ stage \in [Entry -> {"none", "asking", "granted", "preparing", "using", "left"}]
    /\ free \in 0..Places /\ releases \in 0..Places
    /\ queue \in Seq(Entry)
    /\ job \in [Entry -> {"none", "queued", "running", "done", "failed", "cancelled"}]
    /\ archive \in [Entry -> {"none", "open", "closed"}]
    /\ discard \subseteq Entry

ContextInit ==
    /\ stage = [e \in Entry |-> "none"]
    /\ free = Places
    /\ queue = <<>>
    /\ releases = 0
    /\ job = [e \in Entry |-> "none"]
    /\ archive = [e \in Entry |-> "none"]
    /\ discard = {}
-----------------------------------------------------------------------------
Ask(e) ==
    /\ stage[e] = "none"
    /\ stage' = [stage EXCEPT ![e] = "asking"]
    /\ queue' = Append(queue, e)
    /\ UNCHANGED <<free, releases, job, archive, discard>>

(* The semaphore gives a place to the admission that waits longest.        *)
Admit ==
    /\ free > 0 /\ queue # <<>>
    /\ free' = free - 1
    /\ queue' = Tail(queue)
    /\ stage' = [stage EXCEPT ![Head(queue)] = "granted"]
    /\ UNCHANGED <<releases, job, archive, discard>>

Submit(e) ==
    /\ stage[e] = "granted"
    /\ stage' = [stage EXCEPT ![e] = "preparing"]
    /\ job' = [job EXCEPT ![e] = "queued"]
    /\ UNCHANGED <<free, queue, releases, archive, discard>>

StartJob(e) ==
    /\ job[e] = "queued"
    /\ Cardinality({f \in Entry : job[f] = "running"}) < Workers
    /\ job' = [job EXCEPT ![e] = "running"]
    /\ UNCHANGED <<stage, free, queue, releases, archive, discard>>

(* The callbacks run in the thread: the loop is asked to release the       *)
(* place, and an archive nobody waits for is closed.                       *)
EndJob(e) ==
    /\ job[e] = "running"
    /\ \/ job' = [job EXCEPT ![e] = "failed"] /\ UNCHANGED archive
       \/ /\ job' = [job EXCEPT ![e] = "done"]
          /\ archive' = [archive EXCEPT ![e] = IF e \in discard THEN "closed" ELSE "open"]
    /\ releases' = releases + 1
    /\ UNCHANGED <<stage, free, queue, discard>>

ReleasePlace ==
    /\ releases > 0
    /\ releases' = releases - 1
    /\ free' = free + 1
    /\ UNCHANGED <<stage, queue, job, archive, discard>>

Receive(e) ==
    /\ stage[e] = "preparing" /\ job[e] = "done"
    /\ stage' = [stage EXCEPT ![e] = "using"]
    /\ UNCHANGED <<free, queue, releases, job, archive, discard>>

Gone(e) == stage' = [stage EXCEPT ![e] = "left"]

Withdraw(e) ==
    \E i \in 1..Len(queue) :
        /\ queue[i] = e
        /\ queue' = [k \in 1..(Len(queue) - 1) |-> queue[IF k < i THEN k ELSE k + 1]]

(* A variant with a bug: the caller that stops waiting for its admission   *)
(* does not look whether it was admitted meanwhile.                        *)
LeaveAdmissionBlindly(e) ==
    /\ \/ stage[e] = "asking" /\ Withdraw(e)
       \/ stage[e] = "granted" /\ UNCHANGED queue
    /\ Gone(e)
    /\ UNCHANGED <<free, releases, job, archive, discard>>

(* The admission is cancelled, or the place it got given back.             *)
LeaveAdmission(e) ==
    /\ \/ stage[e] = "asking" /\ Withdraw(e) /\ UNCHANGED free
       \/ stage[e] = "granted" /\ free' = free + 1 /\ UNCHANGED queue
    /\ Gone(e)
    /\ UNCHANGED <<releases, job, archive, discard>>

(* A variant with a bug: only an archive that is still to come is closed.  *)
LeavePreparationLate(e) ==
    /\ stage[e] = "preparing"
    /\ Gone(e)
    /\ discard' = discard \cup {e}
    /\ IF job[e] = "queued"
       THEN job' = [job EXCEPT ![e] = "cancelled"] /\ releases' = releases + 1
       ELSE UNCHANGED <<job, releases>>
    /\ UNCHANGED <<free, queue, archive>>

(* A preparation that did not start is cancelled, which runs its           *)
(* callbacks; one that is under way closes its archive when it ends, and   *)
(* one that has ended at once.                                             *)
LeavePreparation(e) ==
    /\ stage[e] = "preparing"
    /\ Gone(e)
    /\ discard' = discard \cup {e}
    /\ IF job[e] = "queued"
       THEN job' = [job EXCEPT ![e] = "cancelled"] /\ releases' = releases + 1
       ELSE UNCHANGED <<job, releases>>
    /\ archive' = [archive EXCEPT ![e] = IF job[e] = "done" THEN "closed" ELSE @]
    /\ UNCHANGED <<free, queue>>

(* The end of the context manager, however the body ended.                 *)
Close(e) ==
    /\ stage[e] = "using"
    /\ Gone(e)
    /\ archive' = [archive EXCEPT ![e] = "closed"]
    /\ UNCHANGED <<free, queue, releases, job, discard>>

Leave(e) == LeaveAdmission(e) \/ LeavePreparation(e) \/ Close(e)

(* Steps that need nothing of the caller.                                  *)
Background == Admit \/ ReleasePlace \/ \E e \in Entry : StartJob(e) \/ EndJob(e)
-----------------------------------------------------------------------------
(* However its caller leaves, a preparation gives its place back exactly   *)
(* once: every place is free, with a caller that was just admitted, with   *)
(* work on the executor, or on its way back to the loop.                   *)
PlacesReturned ==
    Places = free + releases
             + Cardinality({e \in Entry : stage[e] = "granted"})
             + Cardinality({e \in Entry : job[e] \in {"queued", "running"}})

(* An archive stays open while it is used, and when neither its caller nor *)
(* a thread has it any more it is closed, whoever of the two was last.     *)
ArchiveOwned ==
    \A e \in Entry :
       /\ stage[e] = "using" => archive[e] = "open"
       /\ stage[e] = "left" /\ job[e] \notin {"queued", "running"} => archive[e] # "open"
=============================================================================

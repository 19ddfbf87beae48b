-------------------------- MODULE RelayWorker_proofs --------------------------
(***************************************************************************)
(* The asyncio worker sessions of one client, for every set of sessions,   *)
(* every number of handlers and polls, and every capacity: they use the    *)
(* budget they share as AsyncRequestBudget expects, never have more        *)
(* requests in hand than the capacity, leave nothing behind when they end, *)
(* and raise the failure that ended them.                                  *)
(***************************************************************************)
EXTENDS RelayWorker, TLAPS, FiniteSetTheorems, SequenceTheorems

(* The budget with what is proved of it.                                   *)
BP == INSTANCE AsyncRequestBudget_proofs

(* The slot of w that has no handler and is not idle either, with its      *)
(* stages p and its handler tasks t.                                       *)
Hand(w, p, t) == {c \in Slots(w) : t[c] = "none" /\ p[c] # "idle"}

(***************************************************************************)
(* A session w that is at place a, with the outcome o, the stages p of its *)
(* slots and its handler tasks t: a handler that runs holds the permit of  *)
(* its slot, one that ended does not, and beside its handlers the session  *)
(* has at most one slot in use, at the stage that its own place implies.   *)
(***************************************************************************)
Fits(w, a, o, p, t) ==
    /\ \A c \in Slots(w) : /\ t[c] = "running" => p[c] = "held"
                           /\ t[c] \in HandlerResult => p[c] = "idle"
    /\ a = "admission" => \E c \in Slots(w) :
            /\ Hand(w, p, t) = {c}
            /\ p[c] \in {"waiting", "claiming", "leaving"}
    /\ a \in {"slot", "poll"} => \E c \in Slots(w) :
            /\ Hand(w, p, t) = {c}
            /\ p[c] = "held"
    /\ a \notin {"admission", "slot", "poll"} => Hand(w, p, t) = {}
    /\ a = "ended" => \A c \in Slots(w) : t[c] = "none"
    /\ a \notin {"cleanup", "ended"} => o = "none"

(* The queue q of the poll semaphore holds, once each, the sessions that   *)
(* are waiting in it.                                                      *)
QueueFits(q, a) ==
    /\ q \in Seq(Worker)
    /\ \A i \in 1..Len(q) : a[q[i]] = "slot"
    /\ \A i, j \in 1..Len(q) : q[i] = q[j] => i = j
    /\ \A w \in Worker : a[w] = "slot" => \E i \in 1..Len(q) : q[i] = w

(* p is the queue q without its entry i; session w has left the queue.     *)
Without(p, q, i) ==
    /\ p \in Seq(Worker)
    /\ Len(p) = Len(q) - 1
    /\ \A k \in 1..Len(p) : p[k] = q[IF k < i THEN k ELSE k + 1]

LeftBy(w, a, b) == b[w] # "slot" /\ \A v \in Worker \ {w} : b[v] = a[v]

(* The types of what a session keeps.                                      *)
SessionTypes ==
    /\ at \in [Worker -> Place]
    /\ task \in [Call -> {"none", "running"} \cup HandlerResult]
    /\ errs \in [Worker -> 0..(MaxErrors - 1)]
    /\ outcome \in [Worker -> Outcome]
    /\ cancel \in [Worker -> BOOLEAN]

(* The inductive invariant.                                                *)
IInv ==
    /\ BP!IInv
    /\ SessionTypes
    /\ \A w \in Worker : Fits(w, at[w], outcome[w], pc, task)
    /\ QueueFits(slotQueue, at)
-----------------------------------------------------------------------------
(* The constants of the sessions satisfy what the budget assumes of its    *)
(* own, and the two instances of the budget are the same.                  *)

LEMMA SlotFacts ==
  /\ \A w \in Worker : \A c \in Slots(w) : c \in Call /\ Owner[c] = w
  /\ \A c \in Call : Owner[c] \in Worker /\ c \in Slots(Owner[c]) /\ Owner[c] = c[1]
  /\ \A w, v \in Worker : w # v => \A c \in Slots(w) : c \notin Slots(v)
  BY DEF Slots, Call, Owner

LEMMA CallFinite == IsFiniteSet(Call)
  <1>1. IsFiniteSet(1..MaxConcurrency)
    BY LimitAssumption, FS_Interval
  <1> QED
    BY <1>1, WorkerAssumption, FS_Product DEF Call

LEMMA SameCount == \A S : BP!Cardinality(S) = Cardinality(S)
  BY DEF BP!Cardinality, Cardinality

LEMMA SameFinite == \A S : BP!IsFiniteSet(S) <=> IsFiniteSet(S)
  BY DEF BP!IsFiniteSet, IsFiniteSet

LEMMA BudgetConstants ==
  /\ BP!IsFiniteSet(Call) /\ Cancelled \notin Call
  /\ Owner \in [Call -> Worker]
  /\ Capacity \in Nat \ {0}
  /\ MaxQueue \in Nat
  <1>1. Owner \in [Call -> Worker]
    BY SlotFacts DEF Owner
  <1> QED
    BY <1>1, CallFinite, SameFinite, BudgetAssumption

LEMMA BudgetStep == BP!IInv /\ [BP!Next]_(BP!vars) => BP!IInv'
  BY BP!StepInvariant, BudgetConstants

LEMMA BudgetInit == Budget!Init => BP!IInv
  <1>1. BP!Init => BP!IInv
    BY BP!InitInvariant, BudgetConstants
  <1>2. Budget!Init => BP!Init
    BY DEF Budget!Init, BP!Init
  <1> QED
    BY <1>1, <1>2

(* The types of the budget, as this module reads them.                     *)
LEMMA BudgetTypes ==
  BP!IInv => /\ Budget!TypeOK
             /\ pc \in [Call -> {"idle", "waiting", "claiming", "leaving", "held"}]
             /\ \A c \in Call : pc[c] = "held" => future[c] = "granted"
  BY DEF BP!IInv, BP!TypeOK, BP!Entry, BP!FutureState, BP!Stage, BP!StageFits,
         Budget!TypeOK, Budget!Entry, Budget!FutureState, Budget!Stage

(* Every operation of the budget that a session calls is a step of it.     *)
LEMMA BudgetCalls ==
  ASSUME NEW c \in Call
  PROVE  /\ Budget!Acquire(c) => BP!Next
         /\ Budget!Wake(c) => BP!Next
         /\ Budget!CancelWaiting(c) => BP!Next
         /\ Budget!Claim(c) => BP!Next
         /\ Budget!CancelClaiming(c) => BP!Next
         /\ Budget!Exit(c) => BP!Next
         /\ Budget!Release(c) => BP!Next
  <1>1. \A n, q, f : Budget!Drain(n, q, f) <=> BP!Drain(n, q, f)
    BY DEF Budget!Drain, BP!Drain, Budget!Live, BP!Live, Budget!Cardinality,
           BP!Cardinality
  <1>2. Budget!GiveBack(c) <=> BP!GiveBack(c)
    BY <1>1 DEF Budget!GiveBack, BP!GiveBack
  <1>3. Budget!Abandon(c) <=> BP!Abandon(c)
    BY <1>1, <1>2 DEF Budget!Abandon, BP!Abandon, Budget!Bury, BP!Bury
  <1>4. Budget!Acquire(c) => BP!Acquire(c)
    BY <1>1 DEF Budget!Acquire, BP!Acquire
  <1>5. Budget!Wake(c) => BP!Wake(c)
    BY DEF Budget!Wake, BP!Wake, Budget!WakeGranted, BP!WakeGranted,
           Budget!WakeStopped, BP!WakeStopped
  <1>6. Budget!CancelWaiting(c) => BP!CancelWaiting(c)
    BY DEF Budget!CancelWaiting, BP!CancelWaiting
  <1>7. Budget!Claim(c) => BP!Claim(c)
    BY DEF Budget!Claim, BP!Claim
  <1>8. Budget!CancelClaiming(c) => BP!CancelClaiming(c)
    BY <1>3 DEF Budget!CancelClaiming, BP!CancelClaiming
  <1>9. Budget!Exit(c) => BP!Exit(c)
    BY <1>3 DEF Budget!Exit, BP!Exit
  <1>10. Budget!Release(c) => BP!Release(c)
    BY <1>2 DEF Budget!Release, BP!Release
  <1> QED
    BY <1>4, <1>5, <1>6, <1>7, <1>8, <1>9, <1>10 DEF BP!Next, BP!CallStep
-----------------------------------------------------------------------------
(* A session that runs fewer handlers than it may has a slot for another.  *)
LEMMA FreeSlot ==
  ASSUME NEW w \in Worker, Cardinality(Running(w)) < MaxConcurrency
  PROVE  LET c == CHOOSE c \in Slots(w) : task[c] # "running"
         IN  c \in Slots(w) /\ task[c] # "running"
  <1>1. Cardinality(Slots(w)) = MaxConcurrency
    <2>1. IsFiniteSet({w}) /\ Cardinality({w}) = 1
      BY FS_Singleton
    <2>2. IsFiniteSet(1..MaxConcurrency) /\ Cardinality(1..MaxConcurrency) = MaxConcurrency
      BY FS_Interval, LimitAssumption
    <2> DEFINE S == {w}
               T == 1..MaxConcurrency
    <2>3. Cardinality(S \X T) = Cardinality(S) * Cardinality(T)
      <3> HIDE DEF S, T
      <3>1. IsFiniteSet(S) /\ IsFiniteSet(T)
        BY <2>1, <2>2 DEF S, T
      <3> QED
        BY <3>1, FS_Product
    <2> QED
      BY <2>1, <2>2, <2>3, LimitAssumption DEF Slots
  <1>2. Running(w) # Slots(w)
    BY <1>1, LimitAssumption
  <1>3. \E c \in Slots(w) : task[c] # "running"
    BY <1>2 DEF Running
  <1> QED
    BY <1>3

(* The sessions use the budget as it expects to be used.                   *)
LEMMA FollowsBudget == [Next]_vars => [BP!Next]_(BP!vars)
  <1> SUFFICES ASSUME [Next]_vars PROVE [BP!Next]_(BP!vars)
    OBVIOUS
  <1>1. UNCHANGED budgetVars => UNCHANGED BP!vars
    BY DEF budgetVars, BP!vars
  <1>2. ASSUME NEW w \in Worker, SessionStep(w) PROVE [BP!Next]_(BP!vars)
    <2>1. ASSUME LoopAcquires(w) PROVE BP!Next
      BY <2>1, FreeSlot, BudgetCalls, SlotFacts DEF LoopAcquires
    <2>2. ASSUME NEW c \in Slots(w), AdmissionWakes(c) \/ Admitted(c) \/ NotAdmitted(c)
          PROVE  BP!Next
      BY <2>2, BudgetCalls, SlotFacts DEF AdmissionWakes, Admitted, NotAdmitted
    <2>3. ASSUME PollReturns(w) PROVE BP!Next \/ UNCHANGED budgetVars
      BY <2>3, BudgetCalls, SlotFacts
         DEF PollReturns, PollEmpty, PollDelivers, PollRetries, PollFails, Current
    <2>4. ASSUME \/ Start(w) \/ LoopStops(w) \/ LoopFails(w) \/ LoopFull(w) \/ FullWakes(w)
                 \/ EnterPoll(w) \/ BackoffEnds(w)
                 \/ DrainFails(w) \/ DrainEnds(w) \/ CleanupEnds(w)
          PROVE  UNCHANGED budgetVars
      BY <2>4 DEF Start, LoopStops, LoopFails, LoopFull, FullWakes, EnterPoll, BackoffEnds,
                  DrainFails, DrainEnds, CleanupEnds
    <2> QED
      BY <1>1, <1>2, <2>1, <2>2, <2>3, <2>4 DEF SessionStep
  <1>3. ASSUME NEW w \in Worker, Cancel(w) PROVE [BP!Next]_(BP!vars)
    <2>1. ASSUME CancelAdmission(w) \/ CancelSlot(w) \/ CancelPoll(w)
          PROVE  BP!Next \/ UNCHANGED budgetVars
      BY <2>1, BudgetCalls, SlotFacts DEF CancelAdmission, CancelSlot, CancelPoll, Current
    <2>2. ASSUME CancelIdle(w) \/ CancelGather(w) PROVE UNCHANGED budgetVars
      BY <2>2 DEF CancelIdle, CancelGather
    <2> QED
      BY <1>1, <1>3, <2>1, <2>2 DEF Cancel
  <1>4. ASSUME NEW w \in Worker, SetStop(w) PROVE BP!Next
    BY <1>4 DEF SetStop, Budget!SetStop, BP!SetStop, BP!Next
  <1>5. ASSUME NEW c \in Call, TaskEnds(c) PROVE BP!Next
    BY <1>5, BudgetCalls DEF TaskEnds
  <1>6. ASSUME UNCHANGED vars PROVE UNCHANGED budgetVars
    BY <1>6 DEF vars, budgetVars
  <1> QED
    BY <1>1, <1>2, <1>3, <1>4, <1>5, <1>6 DEF Next, Done
-----------------------------------------------------------------------------
(* A step of session w, as the other sessions see it.                      *)
OthersKept(w) ==
    \A v \in Worker \ {w} :
        /\ at'[v] = at[v] /\ outcome'[v] = outcome[v]
        /\ \A c \in Slots(v) : pc'[c] = pc[c] /\ task'[c] = task[c]

(* What a step of w owes to the invariant.                                 *)
Local(w) ==
    /\ SessionTypes'
    /\ OthersKept(w)
    /\ Fits(w, at'[w], outcome'[w], pc', task')

LEMMA AllFit ==
  ASSUME IInv, NEW w \in Worker, OthersKept(w),
         Fits(w, at'[w], outcome'[w], pc', task')
  PROVE  \A v \in Worker : Fits(v, at'[v], outcome'[v], pc', task')
  <1> SUFFICES ASSUME NEW v \in Worker \ {w}
               PROVE  Fits(v, at'[v], outcome'[v], pc', task')
    OBVIOUS
  <1>1. Fits(v, at[v], outcome[v], pc, task)
    BY DEF IInv
  <1>2. at'[v] = at[v] /\ outcome'[v] = outcome[v]
    BY DEF OthersKept
  <1>3. \A c \in Slots(v) : pc'[c] = pc[c] /\ task'[c] = task[c]
    BY DEF OthersKept
  <1>4. Hand(v, pc', task') = Hand(v, pc, task)
    BY <1>3 DEF Hand
  <1> QED
    BY <1>1, <1>2, <1>3, <1>4 DEF Fits

(* A step that moves nobody into or out of the semaphore's queue.          *)
LEMMA QueueKept ==
  ASSUME IInv, NEW w \in Worker, slotQueue' = slotQueue,
         at[w] # "slot", at'[w] # "slot", OthersKept(w)
  PROVE  QueueFits(slotQueue', at')
  <1>1. \A v \in Worker : at'[v] = "slot" <=> at[v] = "slot"
    BY DEF OthersKept
  <1>2. \A i \in 1..Len(slotQueue) : slotQueue[i] \in Worker
    BY DEF IInv, QueueFits
  <1> QED
    BY <1>1, <1>2 DEF IInv, QueueFits

(* The except clause, when every slot but those of running handlers is     *)
(* idle after the step.                                                    *)
LEMMA FailFits ==
  ASSUME IInv, NEW w \in Worker, NEW why \in Outcome, Fail(w, why),
         \A c \in Slots(w) : IF task[c] = "running" THEN pc'[c] = "held" ELSE pc'[c] = "idle",
         \A v \in Worker \ {w} : \A c \in Slots(v) : pc'[c] = pc[c]
  PROVE  Local(w) /\ at'[w] \in {"cleanup", "ended"}
  <1> USE DEF IInv
  <1>1. /\ at' = [at EXCEPT ![w] = IF Running(w) # {} THEN "cleanup" ELSE "ended"]
        /\ task' = [c \in Call |-> IF c \in Tasks(w) \ Running(w) THEN "none" ELSE task[c]]
    BY DEF Fail, Reaped
  <1>2. SessionTypes'
    BY LimitAssumption DEF SessionTypes, Fail, Reaped, Place
  <1>3. OthersKept(w)
    <2> SUFFICES ASSUME NEW v \in Worker \ {w}
                 PROVE  /\ at'[v] = at[v] /\ outcome'[v] = outcome[v]
                        /\ \A c \in Slots(v) : pc'[c] = pc[c] /\ task'[c] = task[c]
      BY DEF OthersKept
    <2>1. at'[v] = at[v] /\ outcome'[v] = outcome[v]
      BY DEF Fail, SessionTypes
    <2>2. \A c \in Slots(v) : task'[c] = task[c]
      BY <1>1, SlotFacts DEF Tasks
    <2> QED
      BY <2>1, <2>2
  <1>4. \A c \in Slots(w) :
            task'[c] = IF task[c] = "running" THEN "running" ELSE "none"
    BY <1>1, SlotFacts DEF Tasks, Running
  <1>5. Hand(w, pc', task') = {}
    BY <1>4 DEF Hand
  <1>6. at'[w] \in {"cleanup", "ended"} /\ (at'[w] = "ended" => Running(w) = {})
    BY <1>1 DEF SessionTypes
  <1>7. at'[w] = "ended" => \A c \in Slots(w) : task'[c] = "none"
    BY <1>4, <1>6 DEF Running
  <1>8. \A c \in Slots(w) : /\ task'[c] = "running" => pc'[c] = "held"
                            /\ task'[c] \in HandlerResult => pc'[c] = "idle"
    BY <1>4 DEF HandlerResult
  <1> QED
    BY <1>2, <1>3, <1>5, <1>6, <1>7, <1>8 DEF Local, Fits

(* The end of the loop, when every slot but those of running handlers is   *)
(* idle after the step.                                                    *)
LEMMA LeaveFits ==
  ASSUME IInv, NEW w \in Worker, at[w] \notin {"cleanup", "ended"}, LeaveLoop(w),
         \A c \in Slots(w) : IF task[c] = "running" THEN pc'[c] = "held" ELSE pc'[c] = "idle",
         \A v \in Worker \ {w} : \A c \in Slots(v) : pc'[c] = pc[c]
  PROVE  Local(w) /\ at'[w] \in {"draining", "ended"}
  <1> USE DEF IInv
  <1>1. /\ at' = [at EXCEPT ![w] = IF Tasks(w) # {} THEN "draining" ELSE "ended"]
        /\ Tasks(w) # {} => outcome' = outcome
        /\ Tasks(w) = {} => outcome' = [outcome EXCEPT ![w] = "returned"]
        /\ task' = task
    BY DEF LeaveLoop
  <1>2. SessionTypes'
    BY <1>1, LimitAssumption DEF SessionTypes, LeaveLoop, Place, Outcome
  <1>3. OthersKept(w)
    BY <1>1 DEF OthersKept, SessionTypes
  <1>4. Hand(w, pc', task') = {}
    BY <1>1 DEF Hand
  <1>5. \/ at'[w] = "draining" /\ outcome'[w] = outcome[w]
        \/ at'[w] = "ended" /\ Tasks(w) = {}
    BY <1>1 DEF SessionTypes
  <1>6. at'[w] = "ended" => \A c \in Slots(w) : task'[c] = "none"
    BY <1>1, <1>5 DEF Tasks
  <1>7. \A c \in Slots(w) : /\ task'[c] = "running" => pc'[c] = "held"
                            /\ task'[c] \in HandlerResult => pc'[c] = "idle"
    BY <1>1 DEF HandlerResult
  <1>8. outcome[w] = "none"
    BY DEF Fits
  <1> QED
    BY <1>2, <1>3, <1>4, <1>5, <1>6, <1>7, <1>8 DEF Local, Fits

(* Any other move of a session, out of the semaphore and the admission or  *)
(* never there.                                                            *)
LEMMA MoveFits ==
  ASSUME IInv, NEW w \in Worker, at[w] \notin {"cleanup", "ended"},
         NEW a \in Place \ {"admission", "slot", "poll", "ended"},
         at' = [at EXCEPT ![w] = a], outcome' = outcome, cancel' = cancel,
         NEW n \in 0..(MaxErrors - 1), errs' = [errs EXCEPT ![w] = n],
         task' \in [Call -> {"none", "running"} \cup HandlerResult],
         \A c \in Slots(w) : IF task'[c] = "running" THEN pc'[c] = "held" ELSE pc'[c] = "idle",
         \A v \in Worker \ {w} : \A c \in Slots(v) : pc'[c] = pc[c] /\ task'[c] = task[c]
  PROVE  Local(w) /\ at'[w] # "slot"
  <1> USE DEF IInv
  <1>1. SessionTypes'
    BY DEF SessionTypes
  <1>2. OthersKept(w)
    BY DEF OthersKept, SessionTypes
  <1>3. at'[w] = a
    BY DEF SessionTypes
  <1>4. Hand(w, pc', task') = {}
    BY DEF Hand
  <1>5. outcome'[w] = "none"
    BY DEF Fits
  <1>6. \A c \in Slots(w) : /\ task'[c] = "running" => pc'[c] = "held"
                            /\ task'[c] \in HandlerResult => pc'[c] = "idle"
    BY DEF HandlerResult
  <1> QED
    BY <1>1, <1>2, <1>3, <1>4, <1>5, <1>6 DEF Local, Fits

(* Where the permits of the slots are before a step.                       *)
LEMMA OutsidePoll ==
  ASSUME IInv, NEW w \in Worker, at[w] \notin {"admission", "slot", "poll"}
  PROVE  \A c \in Slots(w) : IF task[c] = "running" THEN pc[c] = "held" ELSE pc[c] = "idle"
  <1>1. Fits(w, at[w], outcome[w], pc, task)
    BY DEF IInv
  <1>2. \A c \in Slots(w) : task[c] \in {"none", "running"} \cup HandlerResult
    BY SlotFacts DEF IInv, SessionTypes
  <1> QED
    BY <1>1, <1>2 DEF Fits, Hand

LEMMA InAdmission ==
  ASSUME IInv, NEW w \in Worker, NEW c \in Slots(w),
         pc[c] \in {"waiting", "claiming", "leaving"}
  PROVE  /\ at[w] = "admission" /\ task[c] = "none"
         /\ \A d \in Slots(w) \ {c} :
                IF task[d] = "running" THEN pc[d] = "held" ELSE pc[d] = "idle"
  <1>1. Fits(w, at[w], outcome[w], pc, task)
    BY DEF IInv
  <1>2. \A d \in Slots(w) : task[d] \in {"none", "running"} \cup HandlerResult
    BY SlotFacts DEF IInv, SessionTypes
  <1>3. task[c] = "none" /\ c \in Hand(w, pc, task)
    BY <1>1, <1>2 DEF Fits, Hand
  <1>4. at[w] = "admission" /\ Hand(w, pc, task) = {c}
    BY <1>1, <1>3 DEF Fits
  <1> QED
    BY <1>1, <1>2, <1>3, <1>4 DEF Fits, Hand

LEMMA InPoll ==
  ASSUME IInv, NEW w \in Worker, at[w] \in {"slot", "poll"}, NEW c \in Current(w)
  PROVE  /\ c \in Slots(w) /\ task[c] = "none" /\ pc[c] = "held"
         /\ \A d \in Slots(w) \ {c} :
                IF task[d] = "running" THEN pc[d] = "held" ELSE pc[d] = "idle"
  <1>1. Fits(w, at[w], outcome[w], pc, task)
    BY DEF IInv
  <1>2. \A d \in Slots(w) : task[d] \in {"none", "running"} \cup HandlerResult
    BY SlotFacts DEF IInv, SessionTypes
  <1>3. c \in Hand(w, pc, task)
    BY DEF Current, Hand
  <1>4. Hand(w, pc, task) = {c} /\ pc[c] = "held"
    BY <1>1, <1>3 DEF Fits
  <1> QED
    BY <1>1, <1>2, <1>3, <1>4 DEF Fits, Hand

(* A stage of one slot of w changes, and that of no slot of another one.   *)
LEMMA OneStage ==
  ASSUME IInv, NEW w \in Worker, NEW c \in Slots(w), NEW s, pc' = [pc EXCEPT ![c] = s]
  PROVE  /\ pc'[c] = s
         /\ \A d \in Slots(w) \ {c} : pc'[d] = pc[d]
         /\ \A v \in Worker \ {w} : \A d \in Slots(v) : pc'[d] = pc[d]
  BY SlotFacts, BudgetTypes DEF IInv

(* The hand of w changes its stage, or the place of the session changes    *)
(* with it.                                                                *)
LEMMA HandFits ==
  ASSUME IInv, NEW w \in Worker, NEW c \in Slots(w), at[w] \notin {"cleanup", "ended"},
         NEW a \in {"admission", "slot", "poll"}, at' = [at EXCEPT ![w] = a],
         IF a = "admission" THEN pc'[c] \in {"waiting", "claiming", "leaving"}
                            ELSE pc'[c] = "held",
         task' \in [Call -> {"none", "running"} \cup HandlerResult], task'[c] = "none",
         cancel' \in [Worker -> BOOLEAN], outcome' = outcome, errs' = errs,
         \A d \in Slots(w) \ {c} :
                IF task'[d] = "running" THEN pc'[d] = "held" ELSE pc'[d] = "idle",
         \A v \in Worker \ {w} : \A d \in Slots(v) : pc'[d] = pc[d] /\ task'[d] = task[d]
  PROVE  Local(w) /\ at'[w] = a
  <1> USE DEF IInv
  <1>1. SessionTypes'
    BY DEF SessionTypes, Place
  <1>2. OthersKept(w)
    BY DEF OthersKept, SessionTypes
  <1>3. at'[w] = a
    BY DEF SessionTypes
  <1>4. Hand(w, pc', task') = {c}
    BY DEF Hand
  <1>5. outcome'[w] = "none"
    BY DEF Fits
  <1>6. \A d \in Slots(w) : /\ task'[d] = "running" => pc'[d] = "held"
                            /\ task'[d] \in HandlerResult => pc'[d] = "idle"
    BY DEF HandlerResult
  <1> QED
    BY <1>1, <1>2, <1>3, <1>4, <1>5, <1>6 DEF Local, Fits
-----------------------------------------------------------------------------
(* The loop of a session, around the semaphore's queue.                    *)

(* Steps that leave the budget alone.                                      *)
LEMMA QuietLocal ==
  ASSUME IInv, NEW w \in Worker, UNCHANGED budgetVars, slotQueue' = slotQueue,
         \/ Start(w) \/ LoopStops(w) \/ LoopFails(w) \/ LoopFull(w) \/ FullWakes(w)
         \/ BackoffEnds(w) \/ DrainFails(w) \/ DrainEnds(w) \/ CleanupEnds(w)
         \/ CancelIdle(w)
  PROVE  Local(w) /\ QueueFits(slotQueue', at')
  <1>1. /\ at[w] \notin {"admission", "slot", "poll"}
        /\ at[w] = "ended" => FALSE
    BY DEF Start, LoopStops, LoopFails, LoopFull, FullWakes, BackoffEnds, DrainFails,
           DrainEnds, CleanupEnds, CancelIdle
  <1>2. pc' = pc
    BY DEF budgetVars
  <1>3. \A c \in Slots(w) : IF task[c] = "running" THEN pc'[c] = "held" ELSE pc'[c] = "idle"
    BY <1>1, <1>2, OutsidePoll
  <1>4. outcome[w] \in Outcome /\ errs[w] \in 0..(MaxErrors - 1)
    BY DEF IInv, SessionTypes
  <1>5. /\ "pollError" \in Outcome /\ "taskError" \in Outcome
        /\ "cancelled" \in Outcome /\ "returned" \in Outcome
    BY DEF Outcome
  <1>6. ASSUME \E why \in Outcome : Fail(w, why)
        PROVE  Local(w) /\ at'[w] # "slot"
    BY <1>2, <1>3, <1>6, FailFits
  <1>7. ASSUME LeaveLoop(w), at[w] \notin {"cleanup", "ended"}
        PROVE  Local(w) /\ at'[w] # "slot"
    BY <1>2, <1>3, <1>7, LeaveFits
  <1>8. ASSUME NEW a \in {"top", "full", "backoff"}, at' = [at EXCEPT ![w] = a],
               at[w] \notin {"cleanup", "ended"},
               outcome' = outcome, cancel' = cancel, errs' = errs,
               task' = task \/ task' = Reaped(w)
        PROVE  Local(w) /\ at'[w] # "slot"
    <2>1. a \in Place \ {"admission", "slot", "poll", "ended"}
      BY DEF Place
    <2>2. errs' = [errs EXCEPT ![w] = errs[w]]
      BY <1>8 DEF IInv, SessionTypes
    <2>3. task' \in [Call -> {"none", "running"} \cup HandlerResult]
      BY <1>8 DEF IInv, SessionTypes, Reaped
    <2>4. \A c \in Call : task'[c] = task[c] \/ (c \in Slots(w) /\ task'[c] = "none" /\ task[c] # "running")
      BY <1>8 DEF Reaped, Tasks, Running
    <2>5. \A c \in Slots(w) : IF task'[c] = "running" THEN pc'[c] = "held" ELSE pc'[c] = "idle"
      BY <1>3, <2>4, SlotFacts
    <2>6. \A v \in Worker \ {w} : \A c \in Slots(v) : pc'[c] = pc[c] /\ task'[c] = task[c]
      BY <1>2, <2>4, SlotFacts
    <2> QED
      BY <1>4, <1>8, <2>1, <2>2, <2>3, <2>5, <2>6, MoveFits
  <1>9. Local(w) /\ at'[w] # "slot"
    <2>1. CASE Start(w) \/ LoopFull(w) \/ FullWakes(w) \/ BackoffEnds(w)
      BY <1>8, <2>1 DEF Start, LoopFull, FullWakes, BackoffEnds
    <2>2. CASE LoopStops(w)
      BY <1>7, <2>2 DEF LoopStops
    <2>3. CASE LoopFails(w) \/ DrainFails(w)
      BY <1>5, <1>6, <2>3 DEF LoopFails, DrainFails, HandlerRaises
    <2>4. CASE DrainEnds(w)
      BY <1>5, <1>6, <2>4 DEF DrainEnds
    <2>5. CASE CleanupEnds(w)
      BY <1>4, <1>5, <1>6, <2>5 DEF CleanupEnds
    <2>6. CASE CancelIdle(w)
      BY <1>5, <1>6, <2>6 DEF CancelIdle
    <2> QED
      BY <2>1, <2>2, <2>3, <2>4, <2>5, <2>6
  <1> QED
    BY <1>1, <1>9, QueueKept DEF Local

(* A permit is asked for.                                                  *)
LEMMA LoopAcquiresLocal ==
  ASSUME IInv, NEW w \in Worker, LoopAcquires(w)
  PROVE  Local(w) /\ QueueFits(slotQueue', at')
  <1> DEFINE c == CHOOSE c \in Slots(w) : task[c] # "running"
  <1>1. c \in Slots(w) /\ task[c] # "running" /\ Budget!Acquire(c)
    BY FreeSlot DEF LoopAcquires
  <1> HIDE DEF c
  <1>2. at[w] = "top" /\ pc' = [pc EXCEPT ![c] = "waiting"]
    BY <1>1 DEF LoopAcquires, Budget!Acquire
  <1>3. \A d \in Slots(w) : IF task[d] = "running" THEN pc[d] = "held" ELSE pc[d] = "idle"
    BY <1>2, OutsidePoll
  <1>4. /\ pc'[c] = "waiting"
        /\ \A d \in Slots(w) \ {c} : pc'[d] = pc[d]
        /\ \A v \in Worker \ {w} : \A d \in Slots(v) : pc'[d] = pc[d]
    BY <1>1, <1>2, OneStage
  <1>5. task' = Reaped(w) /\ task' \in [Call -> {"none", "running"} \cup HandlerResult]
    BY DEF LoopAcquires, IInv, SessionTypes, Reaped
  <1>6. \A d \in Slots(w) : task'[d] = IF task[d] = "running" THEN "running" ELSE "none"
    BY <1>5, SlotFacts DEF Reaped, Tasks, Running
  <1>7. \A v \in Worker \ {w} : \A d \in Slots(v) : task'[d] = task[d]
    BY <1>5, SlotFacts DEF Reaped, Tasks
  <1>8. /\ at' = [at EXCEPT ![w] = "admission"] /\ slotQueue' = slotQueue
        /\ outcome' = outcome /\ errs' = errs /\ cancel' \in [Worker -> BOOLEAN]
    BY DEF LoopAcquires, IInv, SessionTypes
  <1>9. Local(w) /\ at'[w] = "admission"
    <2>1. /\ task'[c] = "none" /\ at[w] \notin {"cleanup", "ended"}
          /\ pc'[c] \in {"waiting", "claiming", "leaving"}
      BY <1>1, <1>2, <1>4, <1>6
    <2>2. \A d \in Slots(w) \ {c} :
              IF task'[d] = "running" THEN pc'[d] = "held" ELSE pc'[d] = "idle"
      BY <1>3, <1>4, <1>6
    <2>3. \A v \in Worker \ {w} : \A d \in Slots(v) : pc'[d] = pc[d] /\ task'[d] = task[d]
      BY <1>4, <1>7
    <2> QED
      BY <1>1, <1>5, <1>8, <2>1, <2>2, <2>3, HandFits
  <1> QED
    BY <1>2, <1>8, <1>9, QueueKept DEF Local

(* A call of acquire goes on, or is cancelled and goes on to its end.      *)
LEMMA AdmissionLocal ==
  ASSUME IInv, NEW w \in Worker, NEW c \in Slots(w),
         \/ Budget!Wake(c) \/ Budget!CancelWaiting(c)
         \/ pc[c] = "leaving" /\ UNCHANGED budgetVars,
         UNCHANGED <<at, task, errs, outcome, slotQueue>>,
         cancel' \in [Worker -> BOOLEAN]
  PROVE  Local(w) /\ QueueFits(slotQueue', at')
  <1>1. PICK s \in {"waiting", "claiming", "leaving"} : pc' = [pc EXCEPT ![c] = s]
    <2>1. CASE pc[c] = "leaving" /\ UNCHANGED budgetVars
      <3>1. pc' = [pc EXCEPT ![c] = "leaving"]
        BY <2>1, BudgetTypes DEF IInv, budgetVars
      <3> QED
        BY <3>1
    <2> QED
      BY <2>1 DEF Budget!Wake, Budget!WakeGranted, Budget!WakeStopped, Budget!CancelWaiting
  <1>2. pc[c] \in {"waiting", "claiming", "leaving"}
    BY DEF Budget!Wake, Budget!WakeGranted, Budget!WakeStopped, Budget!CancelWaiting
  <1>3. /\ at[w] = "admission" /\ task[c] = "none"
        /\ \A d \in Slots(w) \ {c} :
                IF task[d] = "running" THEN pc[d] = "held" ELSE pc[d] = "idle"
    BY <1>2, InAdmission
  <1>4. /\ pc'[c] = s
        /\ \A d \in Slots(w) \ {c} : pc'[d] = pc[d]
        /\ \A v \in Worker \ {w} : \A d \in Slots(v) : pc'[d] = pc[d]
    BY <1>1, OneStage
  <1>5. /\ at' = [at EXCEPT ![w] = "admission"]
        /\ task' \in [Call -> {"none", "running"} \cup HandlerResult]
    BY <1>3 DEF IInv, SessionTypes
  <1>6. Local(w) /\ at'[w] = "admission"
    <2>1. /\ task'[c] = "none" /\ at[w] \notin {"cleanup", "ended"}
          /\ pc'[c] \in {"waiting", "claiming", "leaving"}
      BY <1>3, <1>4
    <2>2. \A d \in Slots(w) \ {c} :
              IF task'[d] = "running" THEN pc'[d] = "held" ELSE pc'[d] = "idle"
      BY <1>3, <1>4
    <2>3. \A v \in Worker \ {w} : \A d \in Slots(v) : pc'[d] = pc[d] /\ task'[d] = task[d]
      BY <1>4
    <2> QED
      BY <1>5, <2>1, <2>2, <2>3, HandFits
  <1> QED
    BY <1>3, <1>6, QueueKept DEF Local

(* A call of acquire ends without a permit, and the loop with it.          *)
LEMMA NotAdmittedLocal ==
  ASSUME IInv, NEW w \in Worker, NEW c \in Slots(w),
         Budget!Exit(c) \/ Budget!CancelClaiming(c),
         Fail(w, "cancelled") \/ LeaveLoop(w), slotQueue' = slotQueue
  PROVE  Local(w) /\ QueueFits(slotQueue', at')
  <1>1. pc[c] \in {"claiming", "leaving"} /\ pc' = [pc EXCEPT ![c] = "idle"]
    BY DEF Budget!Exit, Budget!CancelClaiming
  <1>2. /\ at[w] = "admission" /\ task[c] = "none"
        /\ \A d \in Slots(w) \ {c} :
                IF task[d] = "running" THEN pc[d] = "held" ELSE pc[d] = "idle"
    BY <1>1, InAdmission
  <1>3. /\ pc'[c] = "idle"
        /\ \A d \in Slots(w) \ {c} : pc'[d] = pc[d]
        /\ \A v \in Worker \ {w} : \A d \in Slots(v) : pc'[d] = pc[d]
    BY <1>1, OneStage
  <1>4. \A d \in Slots(w) : IF task[d] = "running" THEN pc'[d] = "held" ELSE pc'[d] = "idle"
    BY <1>2, <1>3
  <1>5. "cancelled" \in Outcome
    BY DEF Outcome
  <1>6. Local(w) /\ at'[w] # "slot"
    BY <1>2, <1>3, <1>4, <1>5, FailFits, LeaveFits
  <1> QED
    BY <1>2, <1>6, QueueKept DEF Local

(* What ends a poll or the wait for one, but a request: the permit is back.*)
LEMMA PermitBack ==
  ASSUME IInv, NEW w \in Worker, at[w] \in {"slot", "poll"},
         \E c \in Current(w) : Budget!Release(c)
  PROVE  /\ \A d \in Slots(w) : IF task[d] = "running" THEN pc'[d] = "held" ELSE pc'[d] = "idle"
         /\ \A v \in Worker \ {w} : \A d \in Slots(v) : pc'[d] = pc[d]
  <1>1. PICK c \in Current(w) : Budget!Release(c)
    OBVIOUS
  <1>2. /\ c \in Slots(w) /\ task[c] = "none"
        /\ \A d \in Slots(w) \ {c} :
                IF task[d] = "running" THEN pc[d] = "held" ELSE pc[d] = "idle"
    BY <1>1, InPoll
  <1>3. pc' = [pc EXCEPT ![c] = "idle"]
    BY <1>1 DEF Budget!Release
  <1>4. /\ pc'[c] = "idle"
        /\ \A d \in Slots(w) \ {c} : pc'[d] = pc[d]
        /\ \A v \in Worker \ {w} : \A d \in Slots(v) : pc'[d] = pc[d]
    BY <1>2, <1>3, OneStage
  <1> QED
    BY <1>2, <1>4

LEMMA PollLocal ==
  ASSUME IInv, NEW w \in Worker, PollReturns(w) \/ CancelPoll(w)
  PROVE  Local(w) /\ QueueFits(slotQueue', at')
  <1>1. at[w] = "poll" /\ slotQueue' = slotQueue
    BY DEF PollReturns, PollEmpty, PollDelivers, PollRetries, PollFails, CancelPoll
  <1>2. /\ "top" \in Place \ {"admission", "slot", "poll", "ended"}
        /\ "backoff" \in Place \ {"admission", "slot", "poll", "ended"}
        /\ "pollError" \in Outcome /\ "cancelled" \in Outcome
    BY DEF Place, Outcome
  <1>3. 0 \in 0..(MaxErrors - 1) /\ errs[w] \in 0..(MaxErrors - 1)
    BY LimitAssumption DEF IInv, SessionTypes
  <1>4. task \in [Call -> {"none", "running"} \cup HandlerResult]
    BY DEF IInv, SessionTypes
  <1>5. ASSUME PollEmpty(w) \/ PollRetries(w) PROVE Local(w) /\ at'[w] # "slot"
    <2>1. /\ \A d \in Slots(w) : IF task[d] = "running" THEN pc'[d] = "held" ELSE pc'[d] = "idle"
          /\ \A v \in Worker \ {w} : \A d \in Slots(v) : pc'[d] = pc[d]
      BY <1>1, <1>5, PermitBack DEF PollEmpty, PollRetries
    <2>2. task' = task /\ outcome' = outcome /\ cancel' = cancel
      BY <1>5 DEF PollEmpty, PollRetries
    <2>3. PICK n \in 0..(MaxErrors - 1) : errs' = [errs EXCEPT ![w] = n]
      BY <1>3, <1>5, LimitAssumption DEF PollEmpty, PollRetries
    <2>4. at' = [at EXCEPT ![w] = "top"] \/ at' = [at EXCEPT ![w] = "backoff"]
      BY <1>5 DEF PollEmpty, PollRetries
    <2> QED
      BY <1>1, <1>2, <1>4, <2>1, <2>2, <2>3, <2>4, MoveFits
  <1>6. ASSUME PollFails(w) \/ CancelPoll(w) PROVE Local(w) /\ at'[w] # "slot"
    <2>1. /\ \A d \in Slots(w) : IF task[d] = "running" THEN pc'[d] = "held" ELSE pc'[d] = "idle"
          /\ \A v \in Worker \ {w} : \A d \in Slots(v) : pc'[d] = pc[d]
      BY <1>1, <1>6, PermitBack DEF PollFails, CancelPoll
    <2>2. Fail(w, "pollError") \/ Fail(w, "cancelled")
      BY <1>6 DEF PollFails, CancelPoll
    <2> QED
      BY <1>2, <2>1, <2>2, FailFits
  <1>7. ASSUME PollDelivers(w) PROVE Local(w) /\ at'[w] # "slot"
    <2>1. PICK c \in Current(w) : task' = [task EXCEPT ![c] = "running"]
      BY <1>7 DEF PollDelivers
    <2>2. /\ c \in Slots(w) /\ pc[c] = "held"
          /\ \A d \in Slots(w) \ {c} :
                IF task[d] = "running" THEN pc[d] = "held" ELSE pc[d] = "idle"
      BY <1>1, InPoll
    <2>3. pc' = pc
      BY <1>7 DEF PollDelivers, budgetVars
    <2>4. /\ task' \in [Call -> {"none", "running"} \cup HandlerResult]
          /\ task'[c] = "running" /\ \A d \in Call \ {c} : task'[d] = task[d]
      BY <1>4, <2>1, <2>2, SlotFacts
    <2>5. \A d \in Slots(w) : IF task'[d] = "running" THEN pc'[d] = "held" ELSE pc'[d] = "idle"
      BY <2>2, <2>3, <2>4, SlotFacts
    <2>6. \A v \in Worker \ {w} : \A d \in Slots(v) : pc'[d] = pc[d] /\ task'[d] = task[d]
      BY <2>2, <2>3, <2>4, SlotFacts
    <2>7. /\ at' = [at EXCEPT ![w] = "top"] /\ errs' = [errs EXCEPT ![w] = 0]
          /\ outcome' = outcome /\ cancel' = cancel
      BY <1>7 DEF PollDelivers
    <2> QED
      BY <1>1, <1>2, <1>3, <2>4, <2>5, <2>6, <2>7, MoveFits
  <1>8. Local(w) /\ at'[w] # "slot"
    BY <1>5, <1>6, <1>7 DEF PollReturns
  <1> QED
    BY <1>1, <1>8, QueueKept DEF Local
-----------------------------------------------------------------------------
(* The queue of the poll semaphore.                                        *)

LEMMA JoinQueue ==
  ASSUME NEW a \in [Worker -> Place], NEW q, QueueFits(q, a),
         NEW w \in Worker, a[w] # "slot"
  PROVE  QueueFits(Append(q, w), [a EXCEPT ![w] = "slot"])
  <1> DEFINE p == Append(q, w)
             b == [a EXCEPT ![w] = "slot"]
  <1>1. q \in Seq(Worker) /\ Len(q) \in Nat
    BY DEF QueueFits
  <1>2. /\ p \in Seq(Worker)
        /\ Len(p) = Len(q) + 1
        /\ \A i \in 1..Len(q) : p[i] = q[i]
        /\ p[Len(q) + 1] = w
    BY <1>1, AppendProperties
  <1>3. b[w] = "slot" /\ \A v \in Worker \ {w} : b[v] = a[v]
    OBVIOUS
  <1> HIDE DEF p, b
  <1>4. \A i \in 1..Len(p) : i \in 1..Len(q) \/ i = Len(q) + 1
    BY <1>1, <1>2
  <1>5. 1..Len(q) \subseteq 1..Len(p) /\ Len(q) + 1 \in 1..Len(p)
    BY <1>1, <1>2
  <1>6. \A i \in 1..Len(q) : q[i] \in Worker /\ q[i] # w
    BY <1>1 DEF QueueFits
  <1>7. \A i \in 1..Len(p) : b[p[i]] = "slot"
    BY <1>2, <1>3, <1>4, <1>6 DEF QueueFits
  <1>8. \A i, j \in 1..Len(p) : p[i] = p[j] => i = j
    BY <1>2, <1>4, <1>6 DEF QueueFits
  <1>9. \A v \in Worker : b[v] = "slot" => \E i \in 1..Len(p) : p[i] = v
    BY <1>2, <1>3, <1>5 DEF QueueFits
  <1> QED
    BY <1>2, <1>7, <1>8, <1>9 DEF QueueFits, p, b

LEMMA QuitsQueue ==
  ASSUME NEW a, NEW q, QueueFits(q, a), NEW w \in Worker,
         NEW i \in 1..Len(q), q[i] = w,
         NEW p, Without(p, q, i), NEW b, LeftBy(w, a, b)
  PROVE  QueueFits(p, b)
  <1> USE DEF Without, LeftBy
  <1>1. q \in Seq(Worker) /\ Len(q) \in Nat /\ i \in Nat
    BY DEF QueueFits
  <1> DEFINE to(k) == IF k < i THEN k ELSE k + 1
             from(k) == IF k < i THEN k ELSE k - 1
  <1>2. \A k \in 1..Len(p) : to(k) \in 1..Len(q) /\ to(k) # i /\ p[k] = q[to(k)]
    <2>1. \A k \in 1..Len(p) : p[k] = q[to(k)]
      OBVIOUS
    <2>2. \A k \in 1..(Len(q) - 1) : to(k) \in 1..Len(q) /\ to(k) # i
      BY <1>1
    <2> HIDE DEF to
    <2> QED
      BY <2>1, <2>2
  <1>3. \A k \in 1..Len(q) : k # i => from(k) \in 1..Len(p) /\ to(from(k)) = k
    BY <1>1
  <1>4. \A k, l \in 1..Len(p) : to(k) = to(l) => k = l
    BY <1>1
  <1> HIDE DEF to, from
  <1>5. \A k \in 1..Len(p) : p[k] \in Worker \ {w} /\ a[p[k]] = "slot"
    <2>1. \A k \in 1..Len(q) : q[k] \in Worker /\ a[q[k]] = "slot"
      BY <1>1 DEF QueueFits
    <2>2. \A k \in 1..Len(q) : k # i => q[k] # w
      BY DEF QueueFits
    <2> QED
      BY <1>2, <2>1, <2>2
  <1>6. \A k \in 1..Len(p) : b[p[k]] = "slot"
    BY <1>5
  <1>7. \A k, l \in 1..Len(p) : p[k] = p[l] => k = l
    <2>1. \A k, l \in 1..Len(q) : q[k] = q[l] => k = l
      BY DEF QueueFits
    <2> QED
      BY <1>2, <1>4, <2>1
  <1>8. ASSUME NEW v \in Worker, b[v] = "slot"
        PROVE  \E k \in 1..Len(p) : p[k] = v
    <2>1. v # w /\ a[v] = "slot"
      BY <1>8
    <2>2. PICK l \in 1..Len(q) : q[l] = v
      BY <2>1 DEF QueueFits
    <2>3. from(l) \in 1..Len(p) /\ to(from(l)) = l
      BY <1>3, <2>1, <2>2
    <2> QED
      BY <1>2, <2>2, <2>3
  <1> QED
    BY <1>6, <1>7, <1>8 DEF QueueFits

(* A permit in hand: the session polls, or waits for its turn to.          *)
LEMMA AdmittedLocal ==
  ASSUME IInv, NEW w \in Worker, NEW c \in Slots(w), Admitted(c)
  PROVE  Local(w) /\ QueueFits(slotQueue', at')
  <1>1. Owner[c] = w /\ c \in Call
    BY SlotFacts
  <1>2. pc[c] = "claiming" /\ pc' = [pc EXCEPT ![c] = "held"]
    BY DEF Admitted, Budget!Claim
  <1>3. /\ at[w] = "admission" /\ task[c] = "none"
        /\ \A d \in Slots(w) \ {c} :
                IF task[d] = "running" THEN pc[d] = "held" ELSE pc[d] = "idle"
    BY <1>2, InAdmission
  <1>4. /\ pc'[c] = "held"
        /\ \A d \in Slots(w) \ {c} : pc'[d] = pc[d]
        /\ \A v \in Worker \ {w} : \A d \in Slots(v) : pc'[d] = pc[d]
    BY <1>2, OneStage
  <1>5. /\ task' = task /\ errs' = errs /\ outcome' = outcome
        /\ cancel' \in [Worker -> BOOLEAN]
        /\ task' \in [Call -> {"none", "running"} \cup HandlerResult]
    BY DEF Admitted, IInv, SessionTypes
  <1>6. ASSUME NEW a \in {"slot", "poll"}, at' = [at EXCEPT ![w] = a]
        PROVE  Local(w) /\ at'[w] = a
    <2>1. /\ task'[c] = "none" /\ at[w] \notin {"cleanup", "ended"}
          /\ pc'[c] = "held" /\ a # "admission"
      BY <1>3, <1>4, <1>5
    <2>2. \A d \in Slots(w) \ {c} :
              IF task'[d] = "running" THEN pc'[d] = "held" ELSE pc'[d] = "idle"
      BY <1>3, <1>4, <1>5
    <2>3. \A v \in Worker \ {w} : \A d \in Slots(v) : pc'[d] = pc[d] /\ task'[d] = task[d]
      BY <1>4, <1>5
    <2> QED
      BY <1>5, <1>6, <2>1, <2>2, <2>3, HandFits
  <1>7. CASE at' = [at EXCEPT ![w] = "poll"] /\ slotQueue' = slotQueue
    BY <1>3, <1>6, <1>7, QueueKept DEF Local
  <1>8. CASE at' = [at EXCEPT ![w] = "slot"] /\ slotQueue' = Append(slotQueue, w)
    BY <1>3, <1>6, <1>8, JoinQueue DEF IInv, SessionTypes
  <1> QED
    BY <1>1, <1>7, <1>8 DEF Admitted

(* The oldest session in the semaphore's queue may poll.                   *)
LEMMA EnterPollLocal ==
  ASSUME IInv, NEW w \in Worker, EnterPoll(w)
  PROVE  Local(w) /\ QueueFits(slotQueue', at')
  <1>1. /\ at[w] = "slot" /\ Head(slotQueue) = w /\ slotQueue' = Tail(slotQueue)
        /\ at' = [at EXCEPT ![w] = "poll"]
        /\ pc' = pc /\ task' = task /\ errs' = errs /\ outcome' = outcome /\ cancel' = cancel
    BY DEF EnterPoll, budgetVars
  <1>2. PICK c \in Slots(w) : Hand(w, pc, task) = {c} /\ pc[c] = "held"
    BY <1>1 DEF IInv, Fits
  <1>3. c \in Current(w)
    BY <1>2 DEF Current, Hand
  <1>4. Local(w) /\ at'[w] = "poll"
    <2>1. /\ task'[c] = "none" /\ at[w] \notin {"cleanup", "ended"} /\ pc'[c] = "held"
      BY <1>1, <1>3, InPoll
    <2>2. \A d \in Slots(w) \ {c} :
              IF task'[d] = "running" THEN pc'[d] = "held" ELSE pc'[d] = "idle"
      BY <1>1, <1>3, InPoll
    <2>3. \A v \in Worker \ {w} : \A d \in Slots(v) : pc'[d] = pc[d] /\ task'[d] = task[d]
      BY <1>1
    <2>4. /\ cancel' \in [Worker -> BOOLEAN]
          /\ task' \in [Call -> {"none", "running"} \cup HandlerResult]
      BY <1>1 DEF IInv, SessionTypes
    <2> QED
      BY <1>1, <2>1, <2>2, <2>3, <2>4, HandFits
  <1>5. QueueFits(slotQueue', at')
    <2>1. slotQueue \in Seq(Worker) /\ QueueFits(slotQueue, at)
      BY DEF IInv, QueueFits
    <2>2. \E i \in 1..Len(slotQueue) : slotQueue[i] = w
      BY <1>1, <2>1 DEF QueueFits
    <2>3. 1 \in 1..Len(slotQueue) /\ slotQueue[1] = w /\ slotQueue # <<>>
      BY <1>1, <2>1, <2>2
    <2>4. /\ slotQueue' \in Seq(Worker) /\ Len(slotQueue') = Len(slotQueue) - 1
          /\ \A k \in 1..Len(slotQueue') : slotQueue'[k] = slotQueue[k + 1]
      BY <1>1, <2>1, <2>3, HeadTailProperties
    <2>5. \A k \in 1..Len(slotQueue') : slotQueue'[k] = slotQueue[IF k < 1 THEN k ELSE k + 1]
      BY <2>4
    <2>6. at'[w] # "slot" /\ \A v \in Worker \ {w} : at'[v] = at[v]
      BY <1>4 DEF Local, OthersKept
    <2> DEFINE q == slotQueue
               p == slotQueue'
               a == at
               b == at'
    <2>7. /\ QueueFits(q, a) /\ 1 \in 1..Len(q) /\ q[1] = w
          /\ Without(p, q, 1) /\ LeftBy(w, a, b)
      BY <2>1, <2>3, <2>4, <2>5, <2>6 DEF Without, LeftBy
    <2> HIDE DEF p, q, a, b
    <2>8. QueueFits(p, b)
      BY <2>7, QuitsQueue
    <2> QED
      BY <2>8 DEF p, b
  <1> QED
    BY <1>4, <1>5

(* A session that is cancelled in the semaphore.                           *)
LEMMA CancelSlotLocal ==
  ASSUME IInv, NEW w \in Worker, CancelSlot(w)
  PROVE  Local(w) /\ QueueFits(slotQueue', at')
  <1>1. /\ at[w] = "slot" /\ Fail(w, "cancelled") /\ "cancelled" \in Outcome
        /\ \E c \in Current(w) : Budget!Release(c)
    BY DEF CancelSlot, Outcome
  <1>2. Local(w) /\ at'[w] # "slot"
    <2>1. /\ \A d \in Slots(w) : IF task[d] = "running" THEN pc'[d] = "held" ELSE pc'[d] = "idle"
          /\ \A v \in Worker \ {w} : \A d \in Slots(v) : pc'[d] = pc[d]
      BY <1>1, PermitBack
    <2> QED
      BY <1>1, <2>1, FailFits
  <1>3. QueueFits(slotQueue', at')
    <2>1. slotQueue \in Seq(Worker) /\ QueueFits(slotQueue, at) /\ Len(slotQueue) \in Nat
      BY DEF IInv, QueueFits
    <2>2. PICK i \in 1..Len(slotQueue) :
             /\ slotQueue[i] = w
             /\ slotQueue' = [k \in 1..(Len(slotQueue) - 1) |->
                                  slotQueue[IF k < i THEN k ELSE k + 1]]
      BY DEF CancelSlot, QuitQueue
    <2>3. \A k \in 1..(Len(slotQueue) - 1) : (IF k < i THEN k ELSE k + 1) \in 1..Len(slotQueue)
      BY <2>1, <2>2
    <2>4. slotQueue' \in [1..(Len(slotQueue) - 1) -> Worker] /\ Len(slotQueue) - 1 \in Nat
      BY <2>1, <2>2, <2>3
    <2>5. slotQueue' \in Seq(Worker) /\ Len(slotQueue') = Len(slotQueue) - 1
      <3> DEFINE n == Len(slotQueue) - 1
      <3>1. n \in Nat /\ slotQueue' \in [1..n -> Worker]
        BY <2>4
      <3> HIDE DEF n
      <3>2. slotQueue' \in Seq(Worker) /\ DOMAIN slotQueue' = 1..n
        BY <3>1, SeqDef
      <3>3. Len(slotQueue') = n
        BY <3>1, <3>2
      <3> QED
        BY <3>2, <3>3 DEF n
    <2>6. \A k \in 1..Len(slotQueue') : slotQueue'[k] = slotQueue[IF k < i THEN k ELSE k + 1]
      BY <2>2, <2>5
    <2>7. at'[w] # "slot" /\ \A v \in Worker \ {w} : at'[v] = at[v]
      BY <1>2 DEF Local, OthersKept
    <2> DEFINE q == slotQueue
               p == slotQueue'
               a == at
               b == at'
    <2>8. /\ QueueFits(q, a) /\ q[i] = w
          /\ Without(p, q, i) /\ LeftBy(w, a, b)
      BY <2>1, <2>2, <2>5, <2>6, <2>7 DEF Without, LeftBy
    <2>9. i \in 1..Len(q)
      BY DEF q
    <2> HIDE DEF p, q, a, b
    <2>10. QueueFits(p, b)
      BY <2>8, <2>9, QuitsQueue
    <2> QED
      BY <2>10 DEF p, b
  <1> QED
    BY <1>2, <1>3
-----------------------------------------------------------------------------
(* A handler ends: the permit of its slot goes back with it, wherever the  *)
(* session is.                                                             *)
LEMMA TaskEndsLocal ==
  ASSUME IInv, NEW w \in Worker, NEW c \in Slots(w), TaskEnds(c)
  PROVE  Local(w) /\ QueueFits(slotQueue', at')
  <1>1. PICK result \in HandlerResult : task' = [task EXCEPT ![c] = result]
    BY DEF TaskEnds
  <1>2. /\ task[c] = "running" /\ pc' = [pc EXCEPT ![c] = "idle"]
        /\ UNCHANGED <<at, errs, outcome, cancel, slotQueue>>
    BY DEF TaskEnds, Budget!Release
  <1>3. /\ pc'[c] = "idle"
        /\ \A d \in Slots(w) \ {c} : pc'[d] = pc[d]
        /\ \A v \in Worker \ {w} : \A d \in Slots(v) : pc'[d] = pc[d]
    BY <1>2, OneStage
  <1>4. /\ task'[c] = result
        /\ \A d \in Call \ {c} : task'[d] = task[d]
        /\ task' \in [Call -> {"none", "running"} \cup HandlerResult]
    BY <1>1, SlotFacts DEF IInv, SessionTypes
  <1>5. SessionTypes'
    BY <1>2, <1>4 DEF IInv, SessionTypes
  <1>6. OthersKept(w)
    BY <1>2, <1>3, <1>4, SlotFacts DEF OthersKept
  <1>7. result # "none" /\ result # "running"
    BY DEF HandlerResult
  <1>8. Fits(w, at[w], outcome[w], pc, task)
    BY DEF IInv
  <1>9. Hand(w, pc', task') = Hand(w, pc, task)
    BY <1>2, <1>3, <1>4, <1>7, SlotFacts DEF Hand
  <1>10. \A d \in Slots(w) : /\ task'[d] = "running" => pc'[d] = "held"
                             /\ task'[d] \in HandlerResult => pc'[d] = "idle"
    BY <1>3, <1>4, <1>7, <1>8, SlotFacts DEF Fits
  <1>11. c \notin Hand(w, pc, task) /\ at[w] # "ended"
    BY <1>2, <1>8 DEF Fits, Hand
  <1>12. Fits(w, at[w], outcome[w], pc', task')
    BY <1>3, <1>8, <1>9, <1>10, <1>11 DEF Fits
  <1> QED
    BY <1>2, <1>5, <1>6, <1>12 DEF Local, IInv

LEMMA CancelGatherLocal ==
  ASSUME IInv, NEW w \in Worker, CancelGather(w)
  PROVE  Local(w) /\ QueueFits(slotQueue', at')
  BY DEF CancelGather, IInv, SessionTypes, budgetVars, Local, OthersKept

LEMMA SessionLocal ==
  ASSUME IInv, NEW w \in Worker, SessionStep(w) \/ Cancel(w)
  PROVE  Local(w) /\ QueueFits(slotQueue', at')
  <1>1. CASE \/ Start(w) \/ LoopStops(w) \/ LoopFails(w) \/ LoopFull(w) \/ FullWakes(w)
             \/ BackoffEnds(w) \/ DrainFails(w) \/ DrainEnds(w) \/ CleanupEnds(w)
             \/ CancelIdle(w)
    <2>1. UNCHANGED budgetVars /\ slotQueue' = slotQueue
      BY <1>1 DEF Start, LoopStops, LoopFails, LoopFull, FullWakes, BackoffEnds, DrainFails,
                  DrainEnds, CleanupEnds, CancelIdle
    <2> QED
      BY <1>1, <2>1, QuietLocal
  <1>2. CASE LoopAcquires(w)
    BY <1>2, LoopAcquiresLocal
  <1>3. ASSUME NEW c \in Slots(w), AdmissionWakes(c) PROVE Local(w) /\ QueueFits(slotQueue', at')
    <2>1. cancel' \in [Worker -> BOOLEAN]
      BY <1>3 DEF AdmissionWakes, sessionVars, IInv, SessionTypes
    <2>2. Budget!Wake(c) /\ UNCHANGED <<at, task, errs, outcome, slotQueue>>
      BY <1>3 DEF AdmissionWakes, sessionVars
    <2> QED
      BY <2>1, <2>2, AdmissionLocal
  <1>4. ASSUME NEW c \in Slots(w), Admitted(c) PROVE Local(w) /\ QueueFits(slotQueue', at')
    BY <1>4, AdmittedLocal
  <1>5. ASSUME NEW c \in Slots(w), NotAdmitted(c) PROVE Local(w) /\ QueueFits(slotQueue', at')
    <2>1. Budget!Exit(c) /\ (Fail(w, "cancelled") \/ LeaveLoop(w)) /\ slotQueue' = slotQueue
      BY <1>5, SlotFacts DEF NotAdmitted
    <2> QED
      BY <2>1, NotAdmittedLocal
  <1>6. CASE EnterPoll(w)
    BY <1>6, EnterPollLocal
  <1>7. CASE PollReturns(w) \/ CancelPoll(w)
    BY <1>7, PollLocal
  <1>8. CASE CancelAdmission(w)
    <2>1. PICK c \in Slots(w) :
            \/ /\ Budget!CancelWaiting(c) \/ (pc[c] = "leaving" /\ UNCHANGED budgetVars)
               /\ cancel' = [cancel EXCEPT ![w] = TRUE]
               /\ UNCHANGED <<at, task, errs, outcome>>
            \/ Budget!CancelClaiming(c) /\ Fail(w, "cancelled")
      BY <1>8 DEF CancelAdmission, Current
    <2>2. slotQueue' = slotQueue
      BY <1>8 DEF CancelAdmission
    <2>3. CASE Budget!CancelClaiming(c) /\ Fail(w, "cancelled")
      BY <2>2, <2>3, NotAdmittedLocal
    <2>4. CASE /\ Budget!CancelWaiting(c) \/ (pc[c] = "leaving" /\ UNCHANGED budgetVars)
               /\ cancel' = [cancel EXCEPT ![w] = TRUE]
               /\ UNCHANGED <<at, task, errs, outcome>>
      <3>1. cancel' \in [Worker -> BOOLEAN]
        BY <2>4 DEF IInv, SessionTypes
      <3> QED
        BY <2>2, <2>4, <3>1, AdmissionLocal
    <2> QED
      BY <2>1, <2>3, <2>4
  <1>9. CASE CancelSlot(w)
    BY <1>9, CancelSlotLocal
  <1>10. CASE CancelGather(w)
    BY <1>10, CancelGatherLocal
  <1> QED
    BY <1>1, <1>2, <1>3, <1>4, <1>5, <1>6, <1>7, <1>8, <1>9, <1>10 DEF SessionStep, Cancel

LEMMA InitIInv == Init => IInv
  <1> SUFFICES ASSUME Init PROVE IInv
    OBVIOUS
  <1>1. BP!IInv
    BY BudgetInit DEF Init
  <1>2. SessionTypes
    BY LimitAssumption DEF Init, SessionTypes, Place, Outcome
  <1>3. pc = [c \in Call |-> "idle"]
    BY DEF Init, Budget!Init
  <1>4. ASSUME NEW w \in Worker PROVE Fits(w, at[w], outcome[w], pc, task)
    <2>1. at[w] = "start" /\ outcome[w] = "none"
      BY DEF Init
    <2>2. \A c \in Slots(w) : pc[c] = "idle" /\ task[c] = "none"
      BY <1>3, SlotFacts DEF Init
    <2> QED
      BY <2>1, <2>2 DEF Fits, Hand, HandlerResult
  <1>5. QueueFits(slotQueue, at)
    BY EmptySeq DEF Init, QueueFits
  <1> QED
    BY <1>1, <1>2, <1>4, <1>5 DEF IInv

LEMMA StepIInv == IInv /\ [Next]_vars => IInv'
  <1> SUFFICES ASSUME IInv, [Next]_vars PROVE IInv'
    OBVIOUS
  <1>1. BP!IInv'
    BY FollowsBudget, BudgetStep DEF IInv
  <1>2. ASSUME NEW w \in Worker, Local(w), QueueFits(slotQueue', at') PROVE IInv'
    <2>1. \A v \in Worker : Fits(v, at'[v], outcome'[v], pc', task')
      BY <1>2, AllFit DEF Local
    <2>2. (\A v \in Worker : Fits(v, at[v], outcome[v], pc, task))'
      BY <2>1 DEF Fits, Hand
    <2>3. QueueFits(slotQueue, at)'
      BY <1>2 DEF QueueFits
    <2> QED
      BY <1>1, <1>2, <2>2, <2>3 DEF IInv, Local
  <1>3. ASSUME NEW w \in Worker, SessionStep(w) \/ Cancel(w) PROVE IInv'
    BY <1>2, <1>3, SessionLocal
  <1>4. ASSUME NEW c \in Call, TaskEnds(c) PROVE IInv'
    BY <1>2, <1>4, TaskEndsLocal, SlotFacts
  <1>5. ASSUME pc' = pc, UNCHANGED sessionVars PROVE IInv'
    <2>1. /\ at' = at /\ task' = task /\ outcome' = outcome /\ slotQueue' = slotQueue
          /\ errs' = errs /\ cancel' = cancel
      BY <1>5 DEF sessionVars
    <2>2. (\A v \in Worker : Fits(v, at[v], outcome[v], pc, task))'
      BY <1>5, <2>1 DEF IInv, Fits, Hand
    <2>3. QueueFits(slotQueue, at)' /\ SessionTypes'
      BY <2>1 DEF IInv, QueueFits, SessionTypes
    <2> QED
      BY <1>1, <2>2, <2>3 DEF IInv
  <1>6. ASSUME NEW w \in Worker, SetStop(w) PROVE IInv'
    BY <1>5, <1>6 DEF SetStop, Budget!SetStop
  <1>7. CASE UNCHANGED vars
    BY <1>5, <1>7 DEF vars, sessionVars
  <1> QED
    BY <1>3, <1>4, <1>6, <1>7 DEF Next, Done

(* IInv holds in every reachable state.                                    *)
THEOREM Invariant == Spec => []IInv
  BY InitIInv, StepIInv, PTL DEF Spec

(* The sessions use their budget as AsyncRequestBudget specifies: whatever *)
(* is proved of every behaviour of the budget holds while they share it.   *)
THEOREM UsesBudget == Spec => BP!Init /\ [][BP!Next]_(BP!vars)
  <1>1. Init => BP!Init
    BY DEF Init, Budget!Init, BP!Init
  <1> QED
    BY <1>1, FollowsBudget, PTL DEF Spec

(* Type correctness of the sessions and of their budget.                   *)
THEOREM TypeCorrect == Spec => []TypeOK
  <1>1. IInv => TypeOK
    BY BudgetTypes DEF IInv, SessionTypes, QueueFits, TypeOK, HandlerResult
  <1> QED
    BY <1>1, Invariant, PTL

(* Requests leased or about to be leased never exceed the client's         *)
(* capacity, over all its sessions: each poll in flight and each handler   *)
(* that runs owns a permit of its own.                                     *)
THEOREM CapacityRespected == Spec => []NeverOverCommitted
  <1>1. ASSUME IInv PROVE NeverOverCommitted
    <2> DEFINE R == {c \in Call : task[c] = "running"}
               M == {c \in Call : /\ task[c] = "none" /\ pc[c] = "held"
                                  /\ at[Owner[c]] = "poll"}
               G == BP!Granted(future)
    <2>1. /\ IsFiniteSet(R) /\ IsFiniteSet(M) /\ IsFiniteSet(G)
          /\ R \subseteq Call /\ M \subseteq Call /\ R \cap M = {}
      BY CallFinite, FS_Subset DEF BP!Granted
    <2>2. Cardinality(Polling) <= Cardinality(M)
      <3> DEFINE f == [c \in M |-> Owner[c]]
      <3>1. f \in [M -> Polling]
        BY SlotFacts DEF Polling
      <3>2. ASSUME NEW w \in Polling PROVE \E c \in M : f[c] = w
        <4>1. PICK c \in Slots(w) : Hand(w, pc, task) = {c} /\ pc[c] = "held"
          BY <1>1 DEF Polling, IInv, Fits
        <4>2. c \in M
          BY <4>1, SlotFacts DEF Hand, Polling
        <4> QED
          BY <4>2, SlotFacts DEF Polling
      <3>3. f \in Surjection(M, Polling)
        BY <3>1, <3>2 DEF Surjection
      <3> QED
        BY <2>1, <3>3, FS_Surjection
    <2>3. R \cup M \subseteq G
      <3>1. \A c \in R \cup M : pc[c] = "held"
        BY <1>1, SlotFacts DEF IInv, Fits
      <3> QED
        BY <1>1, <3>1, BudgetTypes DEF IInv, BP!Granted
    <2>4. Cardinality(R) + Cardinality(M) <= Cardinality(G)
      <3>1. Cardinality(R \cup M) = Cardinality(R) + Cardinality(M) - Cardinality({})
        BY <2>1, FS_Union
      <3>2. Cardinality(R \cup M) <= Cardinality(G)
        BY <2>1, <2>3, FS_Subset
      <3> QED
        BY <2>1, <3>1, <3>2, FS_EmptySet, FS_CardinalityType
    <2>5. Cardinality(G) <= Capacity
      <3>1. available \in Nat /\ available = Capacity - Cardinality(G)
        BY <1>1, SameCount DEF IInv, BP!IInv, BP!TypeOK, BP!PermitsConserved
      <3> QED
        BY <2>1, <3>1, FS_CardinalityType, BudgetAssumption
    <2>6. /\ Cardinality(R) \in Nat /\ Cardinality(M) \in Nat /\ Cardinality(G) \in Nat
          /\ Cardinality(Polling) \in Nat
      BY <2>1, WorkerAssumption, FS_Subset, FS_CardinalityType DEF Polling
    <2> QED
      BY <2>2, <2>4, <2>5, <2>6, BudgetAssumption DEF NeverOverCommitted
  <1> QED
    BY <1>1, Invariant, PTL

(* A session that ended, whichever way, left no handler running, no permit *)
(* out or asked for, and no place in the queue for a poll.                 *)
THEOREM NothingLeftBehind == Spec => []EndedHoldsNothing
  <1>1. ASSUME IInv PROVE EndedHoldsNothing
    <2> SUFFICES ASSUME NEW w \in Worker, at[w] = "ended"
                 PROVE  /\ \A c \in Slots(w) : task[c] = "none" /\ pc[c] = "idle"
                        /\ \A i \in 1..Len(slotQueue) : slotQueue[i] # w
      BY DEF EndedHoldsNothing
    <2>1. \A c \in Slots(w) : task[c] = "none" /\ pc[c] = "idle"
      BY <1>1 DEF IInv, Fits, Hand
    <2>2. \A i \in 1..Len(slotQueue) : slotQueue[i] # w
      BY <1>1 DEF IInv, QueueFits
    <2> QED
      BY <2>1, <2>2
  <1> QED
    BY <1>1, Invariant, PTL

(* The failure that made a session clean up is the one run_worker raises,  *)
(* unless the session is cancelled meanwhile.                              *)
THEOREM FirstFailureWins == Spec => PrimaryFailureKept
  <1> DEFINE Kept(w) == outcome[w] # "none" /\ outcome'[w] # outcome[w]
                            => cancel[w] /\ outcome'[w] = "cancelled"
  <1>1. ASSUME IInv, [Next]_vars PROVE \A w \in Worker : Kept(w)
    <2>1. \A w \in Worker : outcome[w] # "none" => at[w] \in {"cleanup", "ended"}
      BY <1>1 DEF IInv, Fits
    <2>2. ASSUME NEW v \in Worker, SessionStep(v) \/ Cancel(v) PROVE Kept(v)
      <3> SUFFICES ASSUME at[v] \in {"cleanup", "ended"} PROVE Kept(v)
        BY <2>1
      <3>1. ASSUME NEW c \in Slots(v), Budget!Exit(c) \/ Budget!CancelClaiming(c) PROVE FALSE
        BY <1>1, <3>1, InAdmission DEF Budget!Exit, Budget!CancelClaiming
      <3>2. CASE CleanupEnds(v)
        <4>1. Fail(v, IF cancel[v] THEN "cancelled" ELSE outcome[v])
          BY <3>2 DEF CleanupEnds
        <4>2. outcome'[v] = IF cancel[v] THEN "cancelled" ELSE outcome[v]
          BY <1>1, <4>1 DEF Fail, IInv, SessionTypes
        <4> QED
          BY <4>2
      <3>3. CASE \E c \in Slots(v) : AdmissionWakes(c) \/ Admitted(c) \/ NotAdmitted(c)
        BY <3>1, <3>3 DEF AdmissionWakes, Admitted, NotAdmitted, sessionVars
      <3>4. CASE CancelGather(v)
        BY <3>4 DEF CancelGather
      <3> QED
        BY <2>2, <3>2, <3>3, <3>4
           DEF SessionStep, Cancel, Start, LoopStops, LoopFails, LoopFull, LoopAcquires,
               FullWakes, EnterPoll, PollReturns, PollEmpty, PollDelivers, PollRetries,
               PollFails, BackoffEnds, DrainFails, DrainEnds, CancelIdle, CancelAdmission,
               CancelSlot, CancelPoll
    <2>3. ASSUME NEW v \in Worker, SessionStep(v) \/ Cancel(v) PROVE \A w \in Worker : Kept(w)
      <3>1. OthersKept(v)
        BY <1>1, <2>3, SessionLocal DEF Local
      <3> QED
        BY <2>2, <2>3, <3>1 DEF OthersKept
    <2>4. ASSUME outcome' = outcome PROVE \A w \in Worker : Kept(w)
      BY <2>4
    <2>5. ASSUME \/ \E w \in Worker : SetStop(w)
                 \/ \E c \in Call : TaskEnds(c)
                 \/ UNCHANGED vars
          PROVE  outcome' = outcome
      BY <2>5 DEF SetStop, TaskEnds, sessionVars, vars
    <2> QED
      BY <1>1, <2>3, <2>4, <2>5 DEF Next, Done
  <1>2. IInv /\ [Next]_vars => [\A w \in Worker : Kept(w)]_vars
    BY <1>1
  <1>3. Spec => [][\A w \in Worker : Kept(w)]_vars
    BY <1>2, Invariant, PTL DEF Spec
  <1> QED
    BY <1>3 DEF PrimaryFailureKept
=============================================================================

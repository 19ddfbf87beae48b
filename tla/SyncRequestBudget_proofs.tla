----------------------- MODULE SyncRequestBudget_proofs -----------------------
(***************************************************************************)
(* The thread budget, for every finite set of threads, every assignment of *)
(* stop events and every capacity: no permit is lost, and the budget       *)
(* implements the FIFO admission that FifoAdmission specifies.             *)
(***************************************************************************)
EXTENDS SyncRequestBudget, TLAPS, FiniteSetTheorems, SequenceTheorems

Waiting(p) == {c \in Call : p[c] = "waiting"}

(* The deque holds the waiting calls, each once.                           *)
QueueFits(q, W) ==
    /\ \A i \in 1..Len(q) : q[i] \in W
    /\ \A i, j \in 1..Len(q) : q[i] = q[j] => i = j
    /\ \A c \in W : \E i \in 1..Len(q) : q[i] = c

(* The inductive invariant.                                                *)
IInv ==
    /\ TypeOK
    /\ QueueFits(waiters, Waiting(pc))
    /\ PermitsConserved
-----------------------------------------------------------------------------
(* What appending a ticket, and taking one out, does to a deque.           *)

LEMMA AppendFits ==
  ASSUME NEW W \in SUBSET Call, NEW q \in Seq(Call), QueueFits(q, W), NEW c \in Call \ W
  PROVE  LET p == Append(q, c)
         IN  /\ p \in Seq(Call)
             /\ QueueFits(p, W \cup {c})
             /\ InFront(p, c) = W
             /\ \A d \in Call \ {c} : InFront(p, d) = InFront(q, d)
  <1> DEFINE p == Append(q, c)
  <1>1. Len(q) \in Nat /\ \A i \in 1..Len(q) : q[i] \in W /\ q[i] # c
    BY DEF QueueFits
  <1>2. /\ p \in Seq(Call)
        /\ Len(p) = Len(q) + 1
        /\ \A i \in 1..Len(q) : p[i] = q[i]
        /\ p[Len(q) + 1] = c
    BY AppendProperties
  <1> HIDE DEF p
  <1>3. \A i \in 1..Len(p) : i \in 1..Len(q) \/ i = Len(q) + 1
    BY <1>1, <1>2
  <1>4. 1..Len(q) \subseteq 1..Len(p) /\ Len(q) + 1 \in 1..Len(p)
    BY <1>1, <1>2
  <1>5. QueueFits(p, W \cup {c})
    <2>1. \A i \in 1..Len(p) : p[i] \in W \cup {c}
      BY <1>1, <1>2, <1>3
    <2>2. \A i, j \in 1..Len(p) : p[i] = p[j] => i = j
      BY <1>1, <1>2, <1>3 DEF QueueFits
    <2>3. \A d \in W \cup {c} : \E i \in 1..Len(p) : p[i] = d
      BY <1>2, <1>4 DEF QueueFits
    <2> QED
      BY <2>1, <2>2, <2>3 DEF QueueFits
  <1>6. InFront(p, c) = W
    <2>1. ASSUME NEW d \in InFront(p, c) PROVE d \in W
      <3>1. PICK i \in 1..Len(p), j \in 1..Len(p) : i < j /\ p[i] = d /\ p[j] = c
        BY <2>1 DEF InFront
      <3>2. i \in 1..Len(q)
        BY <1>1, <1>2, <1>3, <3>1
      <3> QED
        BY <1>1, <1>2, <3>1, <3>2
    <2>2. ASSUME NEW d \in W PROVE d \in InFront(p, c)
      <3>1. PICK i \in 1..Len(q) : q[i] = d
        BY DEF QueueFits
      <3>2. i < Len(q) + 1 /\ p[i] = d /\ p[Len(q) + 1] = c
        BY <1>1, <1>2, <3>1
      <3> QED
        BY <1>4, <3>2 DEF InFront
    <2> QED
      BY <2>1, <2>2
  <1>7. ASSUME NEW d \in Call \ {c} PROVE InFront(p, d) = InFront(q, d)
    <2>1. ASSUME NEW e \in InFront(p, d) PROVE e \in InFront(q, d)
      <3>1. PICK i \in 1..Len(p), j \in 1..Len(p) : i < j /\ p[i] = e /\ p[j] = d
        BY <2>1 DEF InFront
      <3>2. j \in 1..Len(q)
        BY <1>2, <1>3, <3>1
      <3>3. i \in 1..Len(q)
        BY <1>1, <1>2, <3>1, <3>2
      <3> QED
        BY <1>2, <2>1, <3>1, <3>2, <3>3 DEF InFront
    <2>2. ASSUME NEW e \in InFront(q, d) PROVE e \in InFront(p, d)
      <3>1. PICK i \in 1..Len(q), j \in 1..Len(q) : i < j /\ q[i] = e /\ q[j] = d
        BY <2>2 DEF InFront
      <3> QED
        BY <1>2, <1>4, <2>2, <3>1 DEF InFront
    <2> QED
      BY <2>1, <2>2
  <1> QED
    BY <1>2, <1>5, <1>6, <1>7 DEF p

LEMMA DequeueFits ==
  ASSUME NEW W \in SUBSET Call, NEW q \in Seq(Call), QueueFits(q, W), NEW c \in Call,
         Dequeue(q, c)
  PROVE  /\ waiters' \in Seq(Call)
         /\ QueueFits(waiters', W \ {c})
         /\ \A d \in Call \ {c} : InFront(waiters', d) = InFront(q, d) \ {c}
         /\ InFront(waiters', c) = {}
  <1> DEFINE p == waiters'
  <1>1. PICK i \in 1..Len(q) :
           /\ q[i] = c
           /\ p = [k \in 1..(Len(q) - 1) |-> q[IF k < i THEN k ELSE k + 1]]
    BY DEF Dequeue
  <1>2. Len(q) \in Nat /\ i \in Nat /\ Len(q) - 1 \in Nat
    BY <1>1
  <1>3. p \in Seq(Call) /\ Len(p) = Len(q) - 1
    <2>1. \A k \in 1..(Len(q) - 1) : (IF k < i THEN k ELSE k + 1) \in 1..Len(q)
      BY <1>2
    <2>2. p \in [1..(Len(q) - 1) -> Call]
      BY <1>1, <2>1
    <2> QED
      BY <1>1, <1>2, <2>2
  (* at and to translate the positions of the two deques into each other.  *)
  <1> DEFINE to(k) == IF k < i THEN k ELSE k + 1
             at(k) == IF k < i THEN k ELSE k - 1
  <1>4. ASSUME NEW k \in 1..Len(p)
        PROVE  to(k) \in 1..Len(q) /\ to(k) # i /\ p[k] = q[to(k)] /\ p[k] # c
    <2>1. to(k) \in 1..Len(q) /\ to(k) # i /\ p[k] = q[to(k)]
      BY <1>1, <1>2, <1>3
    <2> QED
      BY <1>1, <2>1 DEF QueueFits
  <1>5. ASSUME NEW k \in 1..Len(q), k # i
        PROVE  at(k) \in 1..Len(p) /\ p[at(k)] = q[k]
    BY <1>1, <1>2, <1>3, <1>5
  <1>6. \A k, l \in 1..Len(p) : (k < l <=> to(k) < to(l)) /\ (to(k) = to(l) => k = l)
    BY <1>2, <1>3
  <1>7. \A k, l \in 1..Len(q) : k # i /\ l # i /\ k < l => at(k) < at(l)
    BY <1>2
  <1> HIDE DEF to, at, p
  <1>8. QueueFits(p, W \ {c})
    <2>1. \A k \in 1..Len(p) : p[k] \in W \ {c}
      BY <1>4 DEF QueueFits
    <2>2. \A k, l \in 1..Len(p) : p[k] = p[l] => k = l
      BY <1>4, <1>6 DEF QueueFits
    <2>3. ASSUME NEW d \in W \ {c} PROVE \E k \in 1..Len(p) : p[k] = d
      <3>1. PICK l \in 1..Len(q) : q[l] = d
        BY DEF QueueFits
      <3>2. l # i
        BY <1>1, <3>1
      <3> QED
        BY <1>5, <3>1, <3>2
    <2> QED
      BY <2>1, <2>2, <2>3 DEF QueueFits
  <1>9. ASSUME NEW d \in Call \ {c} PROVE InFront(p, d) = InFront(q, d) \ {c}
    <2>1. ASSUME NEW e \in InFront(p, d) PROVE e \in InFront(q, d) \ {c}
      <3>1. PICK k \in 1..Len(p), l \in 1..Len(p) : k < l /\ p[k] = e /\ p[l] = d
        BY <2>1 DEF InFront
      <3> QED
        BY <1>4, <1>6, <2>1, <3>1 DEF InFront
    <2>2. ASSUME NEW e \in InFront(q, d) \ {c} PROVE e \in InFront(p, d)
      <3>1. PICK k \in 1..Len(q), l \in 1..Len(q) : k < l /\ q[k] = e /\ q[l] = d
        BY <2>2 DEF InFront
      <3>2. k # i /\ l # i
        BY <1>1, <2>2, <3>1
      <3> QED
        BY <1>5, <1>7, <2>2, <3>1, <3>2 DEF InFront
    <2> QED
      BY <2>1, <2>2
  <1>10. InFront(p, c) = {}
    BY <1>4 DEF InFront
  <1> QED
    BY <1>3, <1>8, <1>9, <1>10 DEF p

(* Nobody is in front of a call that is first, or that is not waiting.     *)
LEMMA NobodyInFront ==
  ASSUME NEW W \in SUBSET Call, NEW q \in Seq(Call), QueueFits(q, W), NEW c \in Call,
         c \notin W \/ Head(q) = c
  PROVE  InFront(q, c) = {}
  <1> SUFFICES ASSUME NEW i \in 1..Len(q), NEW j \in 1..Len(q), i < j, q[j] = c
               PROVE  FALSE
    BY DEF InFront
  <1>1. c \in W
    BY DEF QueueFits
  <1>2. 1 \in 1..Len(q) /\ j # 1
    OBVIOUS
  <1>3. q[1] = c
    BY <1>1
  <1> QED
    BY <1>2, <1>3 DEF QueueFits
-----------------------------------------------------------------------------
Holding(p) == {c \in Call : p[c] = "held"}

LEMMA Holders == Held = Holding(pc) /\ Held' = Holding(pc')
  BY DEF Held, Holding

(* The counts of a thread that takes a permit or returns one.              *)
LEMMA HeldCounts ==
  ASSUME NEW H \in SUBSET Call, NEW c \in Call
  PROVE  /\ Cardinality(H) \in Nat
         /\ c \notin H => Cardinality(H \cup {c}) = Cardinality(H) + 1
         /\ c \in H => Cardinality(H \ {c}) = Cardinality(H) - 1
  <1>1. IsFiniteSet(H)
    BY SyncCallAssumption, FS_Subset
  <1> QED
    BY <1>1, FS_CardinalityType, FS_AddElement, FS_RemoveElement

(* What a turn of c, with the tickets q in the deque, does to the waiting  *)
(* calls, the holders and the deque.                                       *)
LEMMA TurnEffect ==
  ASSUME TypeOK, NEW c \in Call, pc[c] # "held", NEW q \in Seq(Call),
         QueueFits(q, Waiting(pc) \cup {c}), Turn(c, q)
  PROVE  /\ pc' \in [Call -> {"idle", "waiting", "held"}]
         /\ waiters' \in Seq(Call)
         /\ QueueFits(waiters', Waiting(pc'))
         /\ StopTurn(c, q) \/ GrantTurn(c, q) =>
               /\ Waiting(pc') = Waiting(pc) \ {c}
               /\ \A d \in Call \ {c} : InFront(waiters', d) = InFront(q, d) \ {c}
               /\ InFront(waiters', c) = {}
         /\ WaitTurn(c, q) =>
               /\ Waiting(pc') = Waiting(pc) \cup {c}
               /\ waiters' = q
         /\ StopTurn(c, q) \/ WaitTurn(c, q) => Holding(pc') = Holding(pc)
         /\ GrantTurn(c, q) => Holding(pc') = Holding(pc) \cup {c}
  <1> DEFINE W == Waiting(pc) \cup {c}
  <1>1. W \in SUBSET Call /\ W \ {c} = Waiting(pc) \ {c}
    BY DEF Waiting
  <1> HIDE DEF W
  <1>2. ASSUME Dequeue(q, c)
        PROVE  /\ waiters' \in Seq(Call)
               /\ QueueFits(waiters', Waiting(pc) \ {c})
               /\ \A d \in Call \ {c} : InFront(waiters', d) = InFront(q, d) \ {c}
               /\ InFront(waiters', c) = {}
    <2>1. QueueFits(q, W) /\ W \in SUBSET Call
      BY <1>1 DEF W
    <2>2. /\ waiters' \in Seq(Call)
          /\ QueueFits(waiters', W \ {c})
          /\ \A d \in Call \ {c} : InFront(waiters', d) = InFront(q, d) \ {c}
          /\ InFront(waiters', c) = {}
      BY <1>2, <2>1, DequeueFits
    <2> QED
      BY <1>1, <2>2
  <1>3. CASE StopTurn(c, q)
    <2>1. Waiting(pc') = Waiting(pc) \ {c} /\ Holding(pc') = Holding(pc)
      BY <1>3 DEF StopTurn, TypeOK, Waiting, Holding
    <2>2. ~GrantTurn(c, q) /\ ~WaitTurn(c, q) /\ Dequeue(q, c)
      BY <1>3 DEF StopTurn, GrantTurn, WaitTurn
    <2>3. pc' \in [Call -> {"idle", "waiting", "held"}]
      BY <1>3 DEF StopTurn, TypeOK
    <2> QED
      BY <1>3, <1>2, <2>1, <2>2, <2>3
  <1>4. CASE GrantTurn(c, q)
    <2>1. Waiting(pc') = Waiting(pc) \ {c} /\ Holding(pc') = Holding(pc) \cup {c}
      BY <1>4 DEF GrantTurn, TypeOK, Waiting, Holding
    <2>2. ~StopTurn(c, q) /\ Dequeue(q, c)
      BY <1>4 DEF StopTurn, GrantTurn
    <2>3. ~WaitTurn(c, q)
      BY <1>4 DEF WaitTurn, GrantTurn, TypeOK
    <2>4. pc' \in [Call -> {"idle", "waiting", "held"}]
      BY <1>4 DEF GrantTurn, TypeOK
    <2> QED
      BY <1>4, <1>2, <2>1, <2>2, <2>3, <2>4
  <1>5. CASE WaitTurn(c, q)
    <2>1. Waiting(pc') = Waiting(pc) \cup {c} /\ Holding(pc') = Holding(pc)
      BY <1>5 DEF WaitTurn, TypeOK, Waiting, Holding
    <2>2. ~GrantTurn(c, q) /\ ~StopTurn(c, q) /\ waiters' = q
      BY <1>5 DEF WaitTurn, GrantTurn, StopTurn, TypeOK
    <2>3. pc' \in [Call -> {"idle", "waiting", "held"}]
      BY <1>5 DEF WaitTurn, TypeOK
    <2> QED
      BY <1>5, <2>1, <2>2, <2>3
  <1> QED
    BY <1>3, <1>4, <1>5 DEF Turn
-----------------------------------------------------------------------------
LEMMA InitIInv == Init => IInv
  <1> SUFFICES ASSUME Init PROVE IInv
    OBVIOUS
  <1>1. TypeOK
    BY SyncCapacityAssumption DEF Init, TypeOK
  <1>2. QueueFits(waiters, Waiting(pc))
    BY DEF Init, QueueFits, Waiting
  <1>3. PermitsConserved
    <2>1. Held = {}
      BY DEF Init, Held
    <2> QED
      BY <2>1, FS_EmptySet, SyncCapacityAssumption DEF Init, PermitsConserved
  <1> QED
    BY <1>1, <1>2, <1>3 DEF IInv

(* A turn preserves the invariant, if the caller's ticket is queued.       *)
LEMMA TurnIInv ==
  ASSUME IInv, NEW c \in Call, pc[c] # "held", NEW q \in Seq(Call),
         QueueFits(q, Waiting(pc) \cup {c}), Turn(c, q), UNCHANGED stop
  PROVE  IInv'
  <1> USE DEF IInv
  <1>1. /\ pc' \in [Call -> {"idle", "waiting", "held"}]
        /\ waiters' \in Seq(Call)
        /\ QueueFits(waiters', Waiting(pc'))
        /\ StopTurn(c, q) \/ WaitTurn(c, q) => Holding(pc') = Holding(pc)
        /\ GrantTurn(c, q) => Holding(pc') = Holding(pc) \cup {c}
    BY TurnEffect
  <1>2. available' \in Nat
    BY DEF Turn, StopTurn, GrantTurn, WaitTurn, TypeOK
  <1>3. TypeOK'
    BY <1>1, <1>2 DEF TypeOK
  <1>4. available' = Capacity - Cardinality(Holding(pc'))
    <2>1. available = Capacity - Cardinality(Holding(pc))
      BY Holders DEF PermitsConserved
    <2>2. CASE GrantTurn(c, q)
      <3>1. Holding(pc) \in SUBSET Call /\ c \notin Holding(pc)
        BY DEF Holding
      <3>2. /\ Cardinality(Holding(pc)) \in Nat
            /\ Cardinality(Holding(pc')) = Cardinality(Holding(pc)) + 1
        BY <1>1, <2>2, <3>1, HeldCounts
      <3>3. available' = available - 1
        BY <2>2 DEF GrantTurn
      <3> QED
        BY <2>1, <3>2, <3>3, SyncCapacityAssumption
    <2>3. CASE StopTurn(c, q) \/ WaitTurn(c, q)
      BY <1>1, <2>1, <2>3 DEF StopTurn, WaitTurn
    <2> QED
      BY <2>2, <2>3 DEF Turn
  <1>5. PermitsConserved'
    BY <1>4, Holders DEF PermitsConserved
  <1>6. QueueFits(waiters, Waiting(pc))'
    BY <1>1 DEF QueueFits, Waiting
  <1> QED
    BY <1>3, <1>5, <1>6

(* The deque in which c takes its turn: its ticket is in it.               *)
LEMMA AcquireQueue ==
  ASSUME IInv, NEW c \in Call, pc[c] = "idle"
  PROVE  LET q == Append(waiters, c)
         IN  /\ q \in Seq(Call)
             /\ QueueFits(q, Waiting(pc) \cup {c})
             /\ InFront(q, c) = Waiting(pc)
             /\ \A d \in Call \ {c} : InFront(q, d) = InFront(waiters, d)
  <1>1. Waiting(pc) \in SUBSET Call /\ c \in Call \ Waiting(pc)
    BY DEF Waiting
  <1>2. waiters \in Seq(Call) /\ QueueFits(waiters, Waiting(pc))
    BY DEF IInv, TypeOK
  <1> QED
    BY <1>1, <1>2, AppendFits

LEMMA WakeQueue ==
  ASSUME IInv, NEW c \in Call, pc[c] = "waiting"
  PROVE  waiters \in Seq(Call) /\ QueueFits(waiters, Waiting(pc) \cup {c})
  <1>1. Waiting(pc) \cup {c} = Waiting(pc)
    BY DEF Waiting
  <1> QED
    BY <1>1 DEF IInv, TypeOK

LEMMA StepIInv == IInv /\ [Next]_vars => IInv'
  <1> SUFFICES ASSUME IInv, [Next]_vars PROVE IInv'
    OBVIOUS
  <1>1. ASSUME NEW c \in Call, Acquire(c) PROVE IInv'
    BY <1>1, AcquireQueue, TurnIInv DEF Acquire
  <1>2. ASSUME NEW c \in Call, Wake(c) PROVE IInv'
    BY <1>2, WakeQueue, TurnIInv DEF Wake
  <1>3. ASSUME NEW c \in Call, Release(c) PROVE IInv'
    <2>1. TypeOK'
      BY <1>3 DEF IInv, TypeOK, Release
    <2>2. Waiting(pc') = Waiting(pc) /\ Holding(pc') = Holding(pc) \ {c}
      BY <1>3 DEF IInv, TypeOK, Release, Waiting, Holding
    <2>3. QueueFits(waiters, Waiting(pc))'
      BY <1>3, <2>2 DEF IInv, Release, QueueFits, Waiting
    <2>4. Holding(pc) \in SUBSET Call /\ c \in Holding(pc)
      BY <1>3 DEF Release, Holding
    <2>5. /\ Cardinality(Holding(pc)) \in Nat
          /\ Cardinality(Holding(pc')) = Cardinality(Holding(pc)) - 1
      BY <2>2, <2>4, HeldCounts
    <2>6. available = Capacity - Cardinality(Holding(pc)) /\ available' = available + 1
      BY <1>3, Holders DEF IInv, PermitsConserved, Release
    <2>7. PermitsConserved'
      BY <2>5, <2>6, Holders, SyncCapacityAssumption DEF PermitsConserved
    <2> QED
      BY <2>1, <2>3, <2>7 DEF IInv
  <1>4. ASSUME NEW w \in Worker, SetStop(w) PROVE IInv'
    BY <1>4 DEF SetStop, IInv, TypeOK, QueueFits, Waiting, PermitsConserved, Held
  <1>5. CASE UNCHANGED vars
    BY <1>5 DEF vars, IInv, TypeOK, QueueFits, Waiting, PermitsConserved, Held
  <1> QED
    BY <1>1, <1>2, <1>3, <1>4, <1>5 DEF Next

(* IInv holds in every reachable state.                                    *)
THEOREM Invariant == Spec => []IInv
  BY InitIInv, StepIInv, PTL DEF Spec

(* Type correctness of the thread budget.                                  *)
THEOREM TypeCorrect == Spec => []TypeOK
  <1>1. IInv => TypeOK
    BY DEF IInv
  <1> QED
    BY <1>1, Invariant, PTL

(* No path of SyncRequestBudget.acquire, the stopped one included, loses a *)
(* permit, and none is released twice.                                     *)
THEOREM NoPermitLost == Spec => []PermitsConserved
  <1>1. IInv => PermitsConserved
    BY DEF IInv
  <1> QED
    BY <1>1, Invariant, PTL
-----------------------------------------------------------------------------
(* The refinement.  The specification counts as this module does.          *)
LEMMA SameCount == \A S : Fifo!Cardinality(S) = Cardinality(S)
  BY DEF Fifo!Cardinality, Cardinality

(* Conservation bounds the holders.                                        *)
LEMMA HeldBound ==
  ASSUME NEW p, NEW n \in Nat, n = Capacity - Cardinality(Holding(p))
  PROVE  Cardinality(Holding(p)) <= Capacity
  <1>1. Holding(p) \in SUBSET Call
    BY DEF Holding
  <1>2. Cardinality(Holding(p)) \in Nat
    BY <1>1, SyncCallAssumption, FS_Subset, FS_CardinalityType
  <1> QED
    BY <1>2, SyncCapacityAssumption

(* What to show for a step of the budget to admit the calls in "admitted". *)
LEMMA Settles ==
  ASSUME IInv', NEW W \in SUBSET Call, NEW A, NEW admitted \in SUBSET W,
         \A c \in admitted : A[c] \subseteq admitted,
         Waiting(pc') = W \ admitted,
         Holding(pc') = Holding(pc) \cup admitted,
         \A d \in W \ admitted : InFront(waiters', d) = A[d] \ admitted
  PROVE  Fifo!Settle(W, A, Held)
  <1>1. Cardinality(Holding(pc')) <= Capacity
    <2>1. available' \in Nat /\ available' = Capacity - Cardinality(Holding(pc'))
      BY Holders DEF IInv, TypeOK, PermitsConserved
    <2> QED
      BY <2>1, HeldBound
  <1>2. \A d \in Call \ (W \ admitted) : InFront(waiters', d) = {}
    <2>1. waiters' \in Seq(Call) /\ QueueFits(waiters', Waiting(pc'))
      BY DEF IInv, TypeOK, QueueFits, Waiting
    <2>2. Waiting(pc') \in SUBSET Call
      BY DEF Waiting
    <2> QED
      BY <2>1, <2>2, NobodyInFront
  <1>3. [c \in Call |-> InFront(waiters, c)]'
          = [c \in Call |-> IF c \in W \ admitted THEN A[c] \ admitted ELSE {}]
    BY <1>2 DEF InFront
  <1>4. {c \in Call : pc[c] = "waiting"}' = W \ admitted
    BY DEF Waiting
  <1>5. Held' = Held \cup admitted
    BY Holders
  <1>6. Cardinality(Held \cup admitted) <= Capacity
    BY <1>1, <1>5, Holders
  <1> QED
    BY <1>3, <1>4, <1>5, <1>6, SameCount DEF Fifo!Settle

(* The same, of a step that admits nobody.                                 *)
LEMMA SettlesNobody ==
  ASSUME IInv', NEW W \in SUBSET Call, NEW A,
         Waiting(pc') = W, Holding(pc') = Holding(pc),
         \A d \in W : InFront(waiters', d) = A[d]
  PROVE  Fifo!Settle(W, A, Held)
  <1> DEFINE nobody == {}
  <1>1. /\ nobody \in SUBSET W
        /\ \A c \in nobody : A[c] \subseteq nobody
        /\ Waiting(pc') = W \ nobody
        /\ Holding(pc') = Holding(pc) \cup nobody
        /\ \A d \in W \ nobody : InFront(waiters', d) = A[d] \ nobody
    OBVIOUS
  <1> QED
    BY <1>1, Settles

(* A step that leaves the waiting calls, their order and the holders alone.*)
LEMMA Stutters ==
  ASSUME Waiting(pc') = Waiting(pc), Holding(pc') = Holding(pc),
         \A d \in Call : InFront(waiters', d) = InFront(waiters, d)
  PROVE  UNCHANGED Fifo!vars
  <1>1. {c \in Call : pc[c] = "waiting"}' = {c \in Call : pc[c] = "waiting"}
    BY DEF Waiting
  <1>2. [c \in Call |-> InFront(waiters, c)]' = [c \in Call |-> InFront(waiters, c)]
    BY DEF InFront
  <1>3. Held' = Held
    BY Holders
  <1> QED
    BY <1>1, <1>2, <1>3 DEF Fifo!vars

(* The ticket of c stands behind all the others: acquire is Join when c    *)
(* waits or, the deque being empty, gets a permit, and no step at all when *)
(* its session has been stopped.                                           *)
LEMMA AcquireFollows ==
  ASSUME IInv, IInv', NEW c \in Call, Acquire(c)
  PROVE  Fifo!Join(c) \/ UNCHANGED Fifo!vars
  <1> DEFINE q == Append(waiters, c)
             W == Waiting(pc)
             A == [d \in Call |-> InFront(waiters, d)]
  <1>1. /\ pc[c] = "idle" /\ Turn(c, q)
        /\ W \in SUBSET Call /\ c \notin W
        /\ TypeOK /\ QueueFits(waiters, W)
    BY DEF Acquire, IInv, Waiting
  <1>2. /\ q \in Seq(Call)
        /\ QueueFits(q, W \cup {c})
        /\ InFront(q, c) = W
        /\ \A d \in Call \ {c} : InFront(q, d) = InFront(waiters, d)
    BY <1>1, AcquireQueue
  <1>3. /\ StopTurn(c, q) \/ GrantTurn(c, q) =>
              /\ Waiting(pc') = W \ {c}
              /\ \A d \in Call \ {c} : InFront(waiters', d) = InFront(q, d) \ {c}
              /\ InFront(waiters', c) = {}
        /\ WaitTurn(c, q) => Waiting(pc') = W \cup {c} /\ waiters' = q
    BY <1>1, <1>2, TurnEffect
  <1>4. /\ StopTurn(c, q) \/ WaitTurn(c, q) => Holding(pc') = Holding(pc)
        /\ GrantTurn(c, q) => Holding(pc') = Holding(pc) \cup {c}
    BY <1>1, <1>2, TurnEffect
  <1>5. \A d \in Call : c \notin InFront(waiters, d)
    BY <1>1 DEF InFront, QueueFits
  <1>6. InFront(waiters, c) = {}
    BY <1>1, NobodyInFront DEF TypeOK
  <1>7. c \notin {d \in Call : pc[d] = "waiting"} \cup Held
    BY <1>1 DEF Held
  <1>8. {d \in Call : pc[d] = "waiting"} = W
    BY DEF Waiting
  <1>9. GrantTurn(c, q) => Head(q) = c
    BY DEF GrantTurn
  <1> HIDE DEF q, W
  <1>10. CASE StopTurn(c, q)
    <2>1. Waiting(pc') = W /\ Holding(pc') = Holding(pc)
      BY <1>1, <1>3, <1>4, <1>10
    <2>2. \A d \in Call : InFront(waiters', d) = InFront(waiters, d)
      <3>1. InFront(waiters', c) = InFront(waiters, c)
        BY <1>3, <1>6, <1>10
      <3>2. ASSUME NEW d \in Call \ {c} PROVE InFront(waiters', d) = InFront(waiters, d)
        <4>1. InFront(waiters', d) = InFront(waiters, d) \ {c}
          BY <1>2, <1>3, <1>10
        <4> QED
          BY <1>5, <4>1
      <3> QED
        BY <3>1, <3>2
    <2> QED
      BY <2>1, <2>2, Stutters DEF W
  <1>11. CASE GrantTurn(c, q)
    <2>1. W = {}
      BY <1>1, <1>2, <1>9, <1>11, NobodyInFront
    <2>2. Waiting(pc') = {}
      BY <1>3, <1>11, <2>1
    <2>3. Fifo!Settle({c}, [A EXCEPT ![c] = W], Held)
      BY <1>4, <1>11, <2>1, <2>2, Settles
    <2> QED
      BY <1>7, <1>8, <2>1, <2>3 DEF Fifo!Join
  <1>12. CASE WaitTurn(c, q)
    <2>1. Waiting(pc') = W \cup {c} /\ waiters' = q
      BY <1>3, <1>12
    <2>2. \A d \in W \cup {c} : InFront(waiters', d) = [A EXCEPT ![c] = W][d]
      BY <1>1, <1>2, <2>1
    <2>3. W \cup {c} \in SUBSET Call /\ Holding(pc') = Holding(pc)
      BY <1>1, <1>4, <1>12
    <2>4. Fifo!Settle(W \cup {c}, [A EXCEPT ![c] = W], Held)
      BY <2>1, <2>2, <2>3, SettlesNobody
    <2> QED
      BY <1>7, <1>8, <2>4 DEF Fifo!Join
  <1> QED
    BY <1>1, <1>10, <1>11, <1>12 DEF Turn

(* A waiting call that looks again leaves, is admitted because it is       *)
(* first, or waits on.                                                     *)
LEMMA WakeFollows ==
  ASSUME IInv, IInv', NEW c \in Call, Wake(c)
  PROVE  Fifo!Leave(c) \/ Fifo!Admit \/ UNCHANGED Fifo!vars
  <1> DEFINE W == Waiting(pc)
             A == [d \in Call |-> InFront(waiters, d)]
             B == [d \in Call |-> A[d] \ {c}]
  <1>1. /\ pc[c] = "waiting" /\ Turn(c, waiters)
        /\ W \in SUBSET Call /\ c \in W
        /\ TypeOK /\ QueueFits(waiters, W)
    BY DEF Wake, IInv, Waiting
  <1>2. waiters \in Seq(Call) /\ QueueFits(waiters, W \cup {c})
    BY <1>1, WakeQueue
  <1>3. /\ StopTurn(c, waiters) \/ GrantTurn(c, waiters) =>
              /\ Waiting(pc') = W \ {c}
              /\ \A d \in Call \ {c} : InFront(waiters', d) = InFront(waiters, d) \ {c}
              /\ InFront(waiters', c) = {}
        /\ WaitTurn(c, waiters) => Waiting(pc') = W \cup {c} /\ waiters' = waiters
    BY <1>1, <1>2, TurnEffect
  <1>4. /\ StopTurn(c, waiters) \/ WaitTurn(c, waiters) => Holding(pc') = Holding(pc)
        /\ GrantTurn(c, waiters) => Holding(pc') = Holding(pc) \cup {c}
    BY <1>1, <1>2, TurnEffect
  <1>5. {d \in Call : pc[d] = "waiting"} = W
    BY DEF Waiting
  <1>6. GrantTurn(c, waiters) => Head(waiters) = c
    BY DEF GrantTurn
  <1> HIDE DEF W
  <1>7. CASE StopTurn(c, waiters)
    <2>1. W \ {c} \in SUBSET Call /\ Waiting(pc') = W \ {c} /\ Holding(pc') = Holding(pc)
      BY <1>1, <1>3, <1>4, <1>7
    <2>2. \A d \in W \ {c} : InFront(waiters', d) = B[d]
      BY <1>1, <1>3, <1>7
    <2>3. Fifo!Settle(W \ {c}, B, Held)
      BY <2>1, <2>2, SettlesNobody
    <2> QED
      BY <1>1, <1>5, <2>3 DEF Fifo!Leave
  <1>8. CASE GrantTurn(c, waiters)
    <2>1. A[c] \subseteq {c}
      BY <1>1, <1>2, <1>6, <1>8, NobodyInFront
    <2>2. /\ {c} \in SUBSET W
          /\ Waiting(pc') = W \ {c}
          /\ Holding(pc') = Holding(pc) \cup {c}
          /\ \A d \in W \ {c} : InFront(waiters', d) = A[d] \ {c}
      BY <1>1, <1>3, <1>4, <1>8
    <2>3. \A d \in {c} : A[d] \subseteq {c}
      BY <2>1
    <2>4. Fifo!Settle(W, A, Held)
      BY <1>1, <2>2, <2>3, Settles
    <2> QED
      BY <1>5, <2>4 DEF Fifo!Admit
  <1>9. CASE WaitTurn(c, waiters)
    <2>1. W \cup {c} = W
      BY <1>1
    <2> QED
      BY <1>3, <1>4, <1>9, <2>1, Stutters DEF W
  <1> QED
    BY <1>1, <1>7, <1>8, <1>9 DEF Turn

(* release takes the caller out of the holders and admits nobody: the next *)
(* waiter admits itself when it looks.                                     *)
LEMMA ReleaseFollows ==
  ASSUME IInv, IInv', NEW c \in Call, Release(c)
  PROVE  Fifo!Return(c)
  <1> DEFINE W == Waiting(pc)
             A == [d \in Call |-> InFront(waiters, d)]
  <1>1. c \in Held /\ Held' = Held \ {c}
    BY DEF IInv, TypeOK, Release, Held
  <1>2. Waiting(pc') = W /\ waiters' = waiters /\ W \in SUBSET Call
    BY DEF IInv, TypeOK, Release, Waiting
  <1>3. Fifo!Settle(W, A, Held \ {c})
    <2>1. Cardinality(Held') <= Capacity
      <3>1. available' \in Nat /\ available' = Capacity - Cardinality(Holding(pc'))
        BY Holders DEF IInv, TypeOK, PermitsConserved
      <3> QED
        BY <3>1, HeldBound, Holders
    <2>2. \A d \in Call \ W : InFront(waiters, d) = {}
      BY <1>2, NobodyInFront DEF IInv, TypeOK
    <2>3. [d \in Call |-> InFront(waiters, d)]'
              = [d \in Call |-> IF d \in W \ {} THEN A[d] \ {} ELSE {}]
      BY <1>2, <2>2 DEF InFront
    <2>4. {d \in Call : pc[d] = "waiting"}' = W \ {}
      BY <1>2 DEF Waiting
    <2>5. Held' = (Held \ {c}) \cup {}
      BY <1>1
    <2> QED
      BY <2>1, <2>3, <2>4, <2>5, SameCount DEF Fifo!Settle
  <1>4. {d \in Call : pc[d] = "waiting"} = W
    BY DEF Waiting
  <1> QED
    BY <1>1, <1>3, <1>4 DEF Fifo!Return

LEMMA InitFollows == Init => Fifo!Init
  BY DEF Init, Fifo!Init, InFront, Held

LEMMA StepFollows == IInv /\ IInv' /\ [Next]_vars => [Fifo!Next]_(Fifo!vars)
  <1> SUFFICES ASSUME IInv, IInv', [Next]_vars PROVE [Fifo!Next]_(Fifo!vars)
    OBVIOUS
  <1>1. ASSUME NEW c \in Call, Acquire(c) PROVE [Fifo!Next]_(Fifo!vars)
    BY <1>1, AcquireFollows DEF Fifo!Next
  <1>2. ASSUME NEW c \in Call, Wake(c) PROVE [Fifo!Next]_(Fifo!vars)
    BY <1>2, WakeFollows DEF Fifo!Next
  <1>3. ASSUME NEW c \in Call, Release(c) PROVE [Fifo!Next]_(Fifo!vars)
    BY <1>3, ReleaseFollows DEF Fifo!Next
  <1>4. ASSUME NEW w \in Worker, SetStop(w) PROVE UNCHANGED Fifo!vars
    BY <1>4, Stutters DEF SetStop, Waiting, Holding
  <1>5. CASE UNCHANGED vars
    BY <1>5, Stutters DEF vars, Waiting, Holding
  <1> QED
    BY <1>1, <1>2, <1>3, <1>4, <1>5 DEF Next

(* The thread budget implements FIFO admission: at most Capacity permits   *)
(* are out and no call is admitted before one whose ticket is older, though*)
(* nobody grants and every waiter looks for itself after a timed wait.     *)
THEOREM ImplementsFifo == Spec => FifoOrder
  BY Invariant, InitFollows, StepFollows, PTL DEF Spec, FifoOrder, Fifo!Spec
=============================================================================

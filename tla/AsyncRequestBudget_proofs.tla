----------------------- MODULE AsyncRequestBudget_proofs -----------------------
(***************************************************************************)
(* The asyncio budget neither loses nor invents a permit and never leaves  *)
(* one idle while a call waits, for every set of calls, every assignment   *)
(* of stop events and every capacity.                                      *)
(***************************************************************************)
EXTENDS AsyncRequestBudget, TLAPS, FiniteSetTheorems, SequenceTheorems

(***************************************************************************)
(* The deque q and the futures f agree: a live entry is a pending future,  *)
(* it is there once, and every pending future is there.                    *)
(***************************************************************************)
QueueFits(q, f) ==
    /\ \A i \in 1..Len(q) : q[i] # Cancelled => f[q[i]] = "pending"
    /\ \A i, j \in 1..Len(q) : q[i] # Cancelled /\ q[i] = q[j] => i = j
    /\ \A c \in Call : f[c] = "pending" => \E i \in 1..Len(q) : q[i] = c

(* Where a call is suspended and what its future is agree.                 *)
StageFits ==
    \A c \in Call : /\ pc[c] = "idle" <=> future[c] = "none"
                    /\ pc[c] \in {"claiming", "held"} => future[c] = "granted"

(* The inductive invariant.                                                *)
IInv ==
    /\ TypeOK
    /\ QueueFits(waiters, future)
    /\ StageFits
    /\ PermitsConserved
    /\ NoIdlePermit

(* The part of it that is about the three variables _drain writes.         *)
DrainInv ==
    /\ available \in Nat
    /\ waiters \in Seq(Entry)
    /\ future \in [Call -> FutureState]
    /\ QueueFits(waiters, future)
    /\ PermitsConserved
    /\ NoIdlePermit
-----------------------------------------------------------------------------
(* Only calls can be granted, so there are finitely many grants.           *)
LEMMA GrantedFinite ==
    ASSUME NEW f
    PROVE  /\ IsFiniteSet(Granted(f))
           /\ Cardinality(Granted(f)) \in Nat
  <1>1. Granted(f) \in SUBSET Call
    BY DEF Granted
  <1>2. QED
    BY <1>1, CallAssumption, FS_Subset, FS_CardinalityType

(* The live entries of a prefix of the deque are calls.                    *)
LEMMA LiveFinite ==
    ASSUME NEW q \in Seq(Entry), NEW k \in 0..Len(q)
    PROVE  /\ Live(q, k) \in SUBSET Call
           /\ IsFiniteSet(Live(q, k))
           /\ Cardinality(Live(q, k)) \in Nat
  <1>1. Live(q, k) \in SUBSET Call
    <2>1. \A i \in 1..k : q[i] \in Entry
      BY ElementOfSeq
    <2>2. QED
      BY <2>1 DEF Live, Entry
  <1>2. QED
    BY <1>1, CallAssumption, FS_Subset, FS_CardinalityType

(***************************************************************************)
(* _drain restores everything: called on permits, a deque and futures that *)
(* account for every permit, it leaves variables that do so, with no idle  *)
(* permit beside a pending call.                                           *)
(***************************************************************************)
LEMMA DrainRestores ==
    ASSUME NEW n \in Nat, NEW q \in Seq(Entry), NEW f \in [Call -> FutureState],
           QueueFits(q, f),
           n = Capacity - Cardinality(Granted(f)),
           Drain(n, q, f)
    PROVE  /\ DrainInv'
           /\ \A c \in Call : /\ future'[c] = "none" <=> f[c] = "none"
                              /\ f[c] = "granted" => future'[c] = "granted"
  <1>1. PICK k \in 0..Len(q) :
            /\ Cardinality(Live(q, k)) <= n
            /\ k < Len(q) => q[k + 1] # Cancelled /\ Cardinality(Live(q, k)) = n
            /\ available' = n - Cardinality(Live(q, k))
            /\ waiters' = SubSeq(q, k + 1, Len(q))
            /\ future' = [c \in Call |-> IF c \in Live(q, k)
                                         THEN "granted" ELSE f[c]]
    BY DEF Drain
  <1>2. /\ Len(q) \in Nat
        /\ k \in Nat
        /\ \A i \in 1..Len(q) : q[i] \in Entry
    BY LenProperties, ElementOfSeq
  <1>3. /\ Live(q, k) \in SUBSET Call
        /\ IsFiniteSet(Live(q, k))
        /\ Cardinality(Live(q, k)) \in Nat
    BY LiveFinite
  <1>4. \A c \in Live(q, k) : f[c] = "pending"
    BY <1>2 DEF Live, QueueFits
  <1>5. /\ available' \in Nat
        /\ future' \in [Call -> FutureState]
    BY <1>1, <1>3 DEF FutureState
  <1>6. /\ waiters' \in Seq(Entry)
        /\ Len(waiters') = Len(q) - k
        /\ \A i \in 1..Len(waiters') : waiters'[i] = q[k + i]
    <2>1. \A i \in (k + 1)..Len(q) : q[i] \in Entry
      BY <1>2
    <2>2. /\ SubSeq(q, k + 1, Len(q)) \in Seq(Entry)
          /\ Len(SubSeq(q, k + 1, Len(q))) =
                IF k + 1 <= Len(q) THEN Len(q) - (k + 1) + 1 ELSE 0
          /\ \A i \in 1..(Len(q) - (k + 1) + 1) :
                SubSeq(q, k + 1, Len(q))[i] = q[(k + 1) + i - 1]
      BY <1>2, <2>1, SubSeqProperties
    <2>3. Len(SubSeq(q, k + 1, Len(q))) = Len(q) - k
      BY <1>2, <2>2
    <2>4. \A i \in 1..(Len(q) - k) : SubSeq(q, k + 1, Len(q))[i] = q[k + i]
      BY <1>2, <2>2
    <2>5. QED
      BY <1>1, <2>2, <2>3, <2>4
  <1>7. QueueFits(waiters', future')
    <2>1. ASSUME NEW i \in 1..Len(waiters'), waiters'[i] # Cancelled
          PROVE  future'[waiters'[i]] = "pending"
      <3>1. k + i \in 1..Len(q) /\ waiters'[i] = q[k + i]
        BY <1>2, <1>6
      <3>2. q[k + i] \in Call /\ f[q[k + i]] = "pending"
        BY <1>2, <2>1, <3>1 DEF QueueFits, Entry
      <3>3. q[k + i] \notin Live(q, k)
        <4>1. ASSUME NEW j \in 1..k, q[j] = q[k + i]
              PROVE  FALSE
          <5>1. j \in 1..Len(q) /\ j # k + i
            BY <1>2
          <5>2. QED
            BY <2>1, <3>1, <4>1, <5>1 DEF QueueFits
        <4>2. QED
          BY <4>1 DEF Live
      <3>4. QED
        BY <1>1, <3>1, <3>2, <3>3
    <2>2. ASSUME NEW i \in 1..Len(waiters'), NEW j \in 1..Len(waiters'),
                 waiters'[i] # Cancelled, waiters'[i] = waiters'[j]
          PROVE  i = j
      <3>1. k + i \in 1..Len(q) /\ k + j \in 1..Len(q)
        BY <1>2, <1>6
      <3>2. q[k + i] # Cancelled /\ q[k + i] = q[k + j]
        BY <1>6, <2>2
      <3>3. k + i = k + j
        BY <3>1, <3>2 DEF QueueFits
      <3>4. QED
        BY <1>2, <1>6, <3>3
    <2>3. ASSUME NEW c \in Call, future'[c] = "pending"
          PROVE  \E i \in 1..Len(waiters') : waiters'[i] = c
      <3>1. c \notin Live(q, k) /\ f[c] = "pending"
        BY <1>1, <2>3
      <3>2. PICK j \in 1..Len(q) : q[j] = c
        BY <3>1 DEF QueueFits
      <3>3. ~(j \in 1..k)
        BY <3>1, <3>2, CallAssumption DEF Live
      <3>4. j - k \in 1..Len(waiters') /\ k + (j - k) = j
        BY <1>2, <1>6, <3>2, <3>3
      <3>5. QED
        BY <1>6, <3>2, <3>4
    <2>4. QED
      BY <2>1, <2>2, <2>3 DEF QueueFits
  <1>8. PermitsConserved'
    <2>1. Granted(future') = Granted(f) \cup Live(q, k)
      BY <1>1, <1>3 DEF Granted
    <2>2. Granted(f) \cap Live(q, k) = {}
      BY <1>4 DEF Granted
    <2>3. /\ IsFiniteSet(Granted(f))
          /\ Cardinality(Granted(f)) \in Nat
      BY GrantedFinite
    <2>4. Cardinality(Granted(f) \cup Live(q, k)) =
              Cardinality(Granted(f)) + Cardinality(Live(q, k)) - Cardinality({})
      BY <1>3, <2>2, <2>3, FS_Union
    <2>5. Cardinality(Granted(future')) =
              Cardinality(Granted(f)) + Cardinality(Live(q, k))
      BY <1>3, <2>1, <2>3, <2>4, FS_EmptySet
    <2>6. available' = Capacity - Cardinality(Granted(future'))
      BY <1>1, <1>3, <2>3, <2>5, CapacityAssumption
    <2>7. QED
      BY <2>6 DEF PermitsConserved
  <1>9. NoIdlePermit'
    <2> SUFFICES ASSUME available' > 0, NEW c \in Call, future'[c] = "pending"
                 PROVE  FALSE
      BY DEF NoIdlePermit
    <2>1. ~(k < Len(q))
      BY <1>1, <1>3
    <2>2. Len(waiters') = 0
      BY <1>2, <1>6, <2>1
    <2>3. PICK i \in 1..Len(waiters') : waiters'[i] = c
      BY <1>7 DEF QueueFits
    <2>4. QED
      BY <2>2, <2>3
  <1>10. \A c \in Call : /\ future'[c] = "none" <=> f[c] = "none"
                         /\ f[c] = "granted" => future'[c] = "granted"
    BY <1>1, <1>4
  <1>11. QED
    BY <1>5, <1>6, <1>7, <1>8, <1>9, <1>10 DEF DrainInv
-----------------------------------------------------------------------------
(* Each caller of _drain hands it a deque and futures that account for     *)
(* every permit; the rest of the action decides pc.                        *)

(* acquire appends a new pending future: nothing else changes.             *)
LEMMA EnqueueFits ==
    ASSUME IInv, NEW c \in Call, future[c] = "none"
    PROVE  LET q == Append(waiters, c)
               f == [future EXCEPT ![c] = "pending"]
           IN  /\ q \in Seq(Entry)
               /\ f \in [Call -> FutureState]
               /\ QueueFits(q, f)
               /\ Granted(f) = Granted(future)
  <1> DEFINE q == Append(waiters, c)
             f == [future EXCEPT ![c] = "pending"]
  <1>1. /\ waiters \in Seq(Entry)
        /\ future \in [Call -> FutureState]
        /\ QueueFits(waiters, future)
        /\ c \in Entry
        /\ c # Cancelled
    BY CallAssumption DEF IInv, TypeOK, Entry
  <1>2. Len(waiters) \in Nat
    BY <1>1, LenProperties
  <1>3. /\ q \in Seq(Entry)
        /\ Len(q) = Len(waiters) + 1
        /\ \A i \in 1..Len(waiters) : q[i] = waiters[i]
        /\ q[Len(waiters) + 1] = c
    BY <1>1, AppendProperties
  <1>4. \A i \in 1..Len(q) : i \in 1..Len(waiters) \/ i = Len(waiters) + 1
    BY <1>2, <1>3
  <1>5. \A i \in 1..Len(waiters) : waiters[i] # c
    BY <1>1 DEF QueueFits
  <1>6. f \in [Call -> FutureState]
    BY <1>1 DEF FutureState
  <1>7. \A d \in Call : d # c => f[d] = future[d]
    BY <1>1
  <1>8. f[c] = "pending"
    BY <1>1
  <1>9. Granted(f) = Granted(future)
    BY <1>7, <1>8 DEF Granted
  <1>10. QueueFits(q, f)
    <2>1. ASSUME NEW i \in 1..Len(q), q[i] # Cancelled
          PROVE  f[q[i]] = "pending"
      <3>1. CASE i = Len(waiters) + 1
        BY <1>3, <1>8, <3>1
      <3>2. CASE i \in 1..Len(waiters)
        <4>1. q[i] = waiters[i] /\ waiters[i] \in Entry
          BY <1>1, <1>3, <3>2, ElementOfSeq
        <4>2. q[i] \in Call /\ future[q[i]] = "pending"
          BY <1>1, <2>1, <3>2, <4>1 DEF QueueFits, Entry
        <4>3. QED
          BY <1>5, <1>7, <3>2, <4>1, <4>2
      <3>3. QED
        BY <1>4, <3>1, <3>2
    <2>2. ASSUME NEW i \in 1..Len(q), NEW j \in 1..Len(q),
                 q[i] # Cancelled, q[i] = q[j]
          PROVE  i = j
      BY <1>1, <1>3, <1>4, <1>5, <2>2 DEF QueueFits
    <2>3. ASSUME NEW d \in Call, f[d] = "pending"
          PROVE  \E i \in 1..Len(q) : q[i] = d
      <3>1. CASE d = c
        BY <1>2, <1>3, <3>1
      <3>2. CASE d # c
        <4>1. PICK i \in 1..Len(waiters) : waiters[i] = d
          BY <1>1, <1>7, <2>3, <3>2 DEF QueueFits
        <4>2. i \in 1..Len(q) /\ q[i] = d
          BY <1>2, <1>3, <4>1
        <4>3. QED
          BY <4>2
      <3>3. QED
        BY <3>1, <3>2
    <2>4. QED
      BY <2>1, <2>2, <2>3 DEF QueueFits
  <1>11. QED
    BY <1>3, <1>6, <1>9, <1>10

(* A cancelled future keeps its place in the deque, as a tombstone.        *)
LEMMA BuryFits ==
    ASSUME IInv, NEW c \in Call, future[c] = "pending"
    PROVE  LET q == Bury(waiters, c)
               f == [future EXCEPT ![c] = "none"]
           IN  /\ q \in Seq(Entry)
               /\ f \in [Call -> FutureState]
               /\ QueueFits(q, f)
               /\ Granted(f) = Granted(future)
  <1> DEFINE q == Bury(waiters, c)
             f == [future EXCEPT ![c] = "none"]
  <1>1. /\ waiters \in Seq(Entry)
        /\ future \in [Call -> FutureState]
        /\ QueueFits(waiters, future)
        /\ c # Cancelled
    BY CallAssumption DEF IInv, TypeOK
  <1>2. /\ Len(waiters) \in Nat
        /\ DOMAIN waiters = 1..Len(waiters)
        /\ \A i \in 1..Len(waiters) : waiters[i] \in Entry
    BY <1>1, LenProperties, ElementOfSeq
  <1>3. q = [i \in 1..Len(waiters) |->
                 IF waiters[i] = c THEN Cancelled ELSE waiters[i]]
    BY <1>2 DEF Bury
  <1>4. q \in [1..Len(waiters) -> Entry]
    BY <1>2, <1>3 DEF Entry
  <1>5. q \in Seq(Entry) /\ Len(q) = Len(waiters)
    <2>1. q \in Seq(Entry)
      BY <1>2, <1>4, SeqDef
    <2>2. DOMAIN q = 1..Len(q) /\ DOMAIN q = 1..Len(waiters) /\ Len(q) \in Nat
      BY <1>3, <2>1, LenProperties
    <2>3. \A m, n \in Nat : 1..m = 1..n => m = n
      OBVIOUS
    <2>4. QED
      BY <1>2, <2>1, <2>2, <2>3
  <1>6. f \in [Call -> FutureState] /\ f[c] = "none"
    BY <1>1 DEF FutureState
  <1>7. \A d \in Call : d # c => f[d] = future[d]
    BY <1>1
  <1>8. Granted(f) = Granted(future)
    BY <1>6, <1>7 DEF Granted
  <1>9. \A i \in 1..Len(q) : q[i] # Cancelled => q[i] = waiters[i] /\ q[i] # c
    BY <1>1, <1>3, <1>5
  <1>10. QueueFits(q, f)
    <2>1. ASSUME NEW i \in 1..Len(q), q[i] # Cancelled
          PROVE  f[q[i]] = "pending"
      <3>1. q[i] = waiters[i] /\ q[i] # c /\ q[i] \in Call
        BY <1>2, <1>5, <1>9, <2>1 DEF Entry
      <3>2. QED
        BY <1>1, <1>5, <1>7, <2>1, <3>1 DEF QueueFits
    <2>2. ASSUME NEW i \in 1..Len(q), NEW j \in 1..Len(q),
                 q[i] # Cancelled, q[i] = q[j]
          PROVE  i = j
      BY <1>1, <1>5, <1>9, <2>2 DEF QueueFits
    <2>3. ASSUME NEW d \in Call, f[d] = "pending"
          PROVE  \E i \in 1..Len(q) : q[i] = d
      <3>1. d # c /\ future[d] = "pending"
        BY <1>6, <1>7, <2>3
      <3>2. PICK i \in 1..Len(waiters) : waiters[i] = d
        BY <1>1, <3>1 DEF QueueFits
      <3>3. QED
        BY <1>3, <1>5, <3>1, <3>2
    <2>4. QED
      BY <2>1, <2>2, <2>3 DEF QueueFits
  <1>11. QED
    BY <1>5, <1>6, <1>8, <1>10

(* Giving a permit back takes one call out of the granted ones.            *)
LEMMA GiveBackFits ==
    ASSUME IInv, NEW c \in Call, future[c] = "granted"
    PROVE  LET f == [future EXCEPT ![c] = "none"]
           IN  /\ f \in [Call -> FutureState]
               /\ QueueFits(waiters, f)
               /\ available + 1 = Capacity - Cardinality(Granted(f))
  <1> DEFINE f == [future EXCEPT ![c] = "none"]
  <1>1. /\ waiters \in Seq(Entry)
        /\ future \in [Call -> FutureState]
        /\ QueueFits(waiters, future)
        /\ available = Capacity - Cardinality(Granted(future))
    BY DEF IInv, TypeOK, PermitsConserved
  <1>2. f \in [Call -> FutureState] /\ f[c] = "none"
    BY <1>1 DEF FutureState
  <1>3. \A d \in Call : d # c => f[d] = future[d]
    BY <1>1
  <1>4. QueueFits(waiters, f)
    <2>1. \A i \in 1..Len(waiters) : waiters[i] \in Entry
      BY <1>1, ElementOfSeq
    <2>2. \A i \in 1..Len(waiters) :
              waiters[i] # Cancelled => f[waiters[i]] = "pending"
      BY <1>1, <1>3, <2>1 DEF QueueFits, Entry
    <2>3. \A d \in Call :
              f[d] = "pending" => \E i \in 1..Len(waiters) : waiters[i] = d
      BY <1>1, <1>2, <1>3 DEF QueueFits
    <2>4. QED
      BY <1>1, <2>2, <2>3 DEF QueueFits
  <1>5. Granted(f) = Granted(future) \ {c} /\ c \in Granted(future)
    BY <1>2, <1>3 DEF Granted
  <1>6. /\ IsFiniteSet(Granted(future))
        /\ Cardinality(Granted(future)) \in Nat
    BY GrantedFinite
  <1>7. Cardinality(Granted(f)) = Cardinality(Granted(future)) - 1
    BY <1>5, <1>6, FS_RemoveElement
  <1>8. QED
    BY <1>1, <1>2, <1>4, <1>6, <1>7, CapacityAssumption
-----------------------------------------------------------------------------
(* The step of a call c that ends suspended at "stage", as the other calls *)
(* see it: they keep their pc, and a future changes by a grant at most.    *)
LEMMA StageAfterDrain ==
    ASSUME IInv, NEW c \in Call, NEW stage \in Stage \ {"claiming", "held"},
           pc' = [pc EXCEPT ![c] = stage],
           future'[c] = "none" <=> stage = "idle",
           \A d \in Call \ {c} :
               /\ future'[d] = "none" <=> future[d] = "none"
               /\ future[d] = "granted" => future'[d] = "granted"
    PROVE  StageFits' /\ pc' \in [Call -> Stage]
  <1>1. pc \in [Call -> Stage] /\ StageFits
    BY DEF IInv, TypeOK
  <1>2. pc' \in [Call -> Stage]
    BY <1>1
  <1>3. ASSUME NEW d \in Call
        PROVE  /\ pc'[d] = "idle" <=> future'[d] = "none"
               /\ pc'[d] \in {"claiming", "held"} => future'[d] = "granted"
    <2>1. CASE d = c
      BY <1>1, <2>1
    <2>2. CASE d # c
      <3>1. pc'[d] = pc[d]
        BY <1>1, <2>2
      <3>2. QED
        BY <1>1, <2>2, <3>1 DEF StageFits
    <2>3. QED
      BY <2>1, <2>2
  <1>4. QED
    BY <1>2, <1>3 DEF StageFits

(* acquire preserves the invariant.                                        *)
LEMMA AcquireStep ==
    ASSUME IInv, NEW c \in Call, Acquire(c)
    PROVE  IInv'
  <1> DEFINE q == Append(waiters, c)
             f == [future EXCEPT ![c] = "pending"]
  <1>1. /\ future \in [Call -> FutureState]
        /\ available \in Nat
        /\ available = Capacity - Cardinality(Granted(future))
        /\ stop \in SUBSET Worker
    BY DEF IInv, TypeOK, PermitsConserved
  <1>2. future[c] = "none"
    BY DEF IInv, StageFits, Acquire
  <1>3. /\ q \in Seq(Entry)
        /\ f \in [Call -> FutureState]
        /\ QueueFits(q, f)
        /\ Granted(f) = Granted(future)
    BY <1>2, EnqueueFits
  <1>4. Drain(available, q, f)
    BY DEF Acquire
  <1>5. /\ DrainInv'
        /\ \A d \in Call : /\ future'[d] = "none" <=> f[d] = "none"
                           /\ f[d] = "granted" => future'[d] = "granted"
    <2> HIDE DEF q, f
    <2> QED
      BY <1>1, <1>3, <1>4, DrainRestores
  <1>6. StageFits' /\ pc' \in [Call -> Stage]
    <2>1. pc' = [pc EXCEPT ![c] = "waiting"]
      BY DEF Acquire
    <2>2. f[c] = "pending" /\ \A d \in Call : d # c => f[d] = future[d]
      BY <1>1
    <2>3. "waiting" \in Stage
      BY DEF Stage
    <2> HIDE DEF f
    <2>4. /\ future'[c] # "none"
          /\ \A d \in Call \ {c} :
                 /\ future'[d] = "none" <=> future[d] = "none"
                 /\ future[d] = "granted" => future'[d] = "granted"
      BY <1>5, <2>2
    <2>5. QED
      BY <2>1, <2>3, <2>4, StageAfterDrain DEF Stage
  <1>7. stop' \in SUBSET Worker
    BY <1>1 DEF Acquire
  <1>8. QED
    BY <1>5, <1>6, <1>7 DEF IInv, DrainInv, TypeOK

(* A call that gives its permit back preserves the invariant.              *)
LEMMA GiveBackStep ==
    ASSUME IInv, NEW c \in Call, future[c] = "granted", GiveBack(c),
           pc' = [pc EXCEPT ![c] = "idle"], stop' = stop
    PROVE  IInv'
  <1> DEFINE f == [future EXCEPT ![c] = "none"]
  <1>1. /\ available \in Nat
        /\ waiters \in Seq(Entry)
        /\ future \in [Call -> FutureState]
        /\ stop \in SUBSET Worker
    BY DEF IInv, TypeOK
  <1>2. /\ f \in [Call -> FutureState]
        /\ QueueFits(waiters, f)
        /\ available + 1 = Capacity - Cardinality(Granted(f))
    BY GiveBackFits
  <1>3. Drain(available + 1, waiters, f)
    BY DEF GiveBack
  <1>4. /\ DrainInv'
        /\ \A d \in Call : /\ future'[d] = "none" <=> f[d] = "none"
                           /\ f[d] = "granted" => future'[d] = "granted"
    <2>1. available + 1 \in Nat
      BY <1>1
    <2> HIDE DEF f
    <2>2. QED
      BY <1>1, <1>2, <1>3, <2>1, DrainRestores
  <1>5. StageFits' /\ pc' \in [Call -> Stage]
    <2>1. f[c] = "none" /\ \A d \in Call : d # c => f[d] = future[d]
      BY <1>1
    <2>2. "idle" \in Stage
      BY DEF Stage
    <2> HIDE DEF f
    <2>3. /\ future'[c] = "none"
          /\ \A d \in Call \ {c} :
                 /\ future'[d] = "none" <=> future[d] = "none"
                 /\ future[d] = "granted" => future'[d] = "granted"
      BY <1>4, <2>1
    <2>4. QED
      BY <2>2, <2>3, StageAfterDrain
  <1>6. QED
    BY <1>1, <1>4, <1>5 DEF IInv, DrainInv, TypeOK

(* A call that leaves without a permit preserves the invariant, whether    *)
(* its future is still pending or was granted behind its back.             *)
LEMMA AbandonStep ==
    ASSUME IInv, NEW c \in Call, Abandon(c),
           pc' = [pc EXCEPT ![c] = "idle"], stop' = stop
    PROVE  IInv'
  <1>1. CASE future[c] = "granted" /\ GiveBack(c)
    BY <1>1, GiveBackStep
  <1>2. CASE /\ future[c] = "pending"
             /\ Drain(available, Bury(waiters, c), [future EXCEPT ![c] = "none"])
    <2> DEFINE q == Bury(waiters, c)
               f == [future EXCEPT ![c] = "none"]
    <2>1. /\ available \in Nat
          /\ future \in [Call -> FutureState]
          /\ available = Capacity - Cardinality(Granted(future))
          /\ stop \in SUBSET Worker
      BY DEF IInv, TypeOK, PermitsConserved
    <2>2. /\ q \in Seq(Entry)
          /\ f \in [Call -> FutureState]
          /\ QueueFits(q, f)
          /\ Granted(f) = Granted(future)
      BY <1>2, BuryFits
    <2>3. Drain(available, q, f)
      BY <1>2
    <2>4. f[c] = "none" /\ \A d \in Call : d # c => f[d] = future[d]
      BY <2>1
    <2> HIDE DEF q, f
    <2>5. /\ DrainInv'
          /\ \A d \in Call : /\ future'[d] = "none" <=> f[d] = "none"
                             /\ f[d] = "granted" => future'[d] = "granted"
      BY <2>1, <2>2, <2>3, DrainRestores
    <2>6. StageFits' /\ pc' \in [Call -> Stage]
      <3>1. "idle" \in Stage
        BY DEF Stage
      <3>2. /\ future'[c] = "none"
            /\ \A d \in Call \ {c} :
                   /\ future'[d] = "none" <=> future[d] = "none"
                   /\ future[d] = "granted" => future'[d] = "granted"
        BY <2>4, <2>5
      <3>3. QED
        BY <3>1, <3>2, StageAfterDrain
    <2>7. QED
      BY <2>1, <2>5, <2>6 DEF IInv, DrainInv, TypeOK
  <1>3. QED
    BY <1>1, <1>2 DEF Abandon
-----------------------------------------------------------------------------
LEMMA InitInvariant == Init => IInv
  <1> SUFFICES ASSUME Init
               PROVE  IInv
    OBVIOUS
  <1>1. /\ available = Capacity
        /\ waiters = <<>>
        /\ \A c \in Call : future[c] = "none" /\ pc[c] = "idle"
    BY DEF Init
  <1>2. TypeOK
    BY CapacityAssumption, EmptySeq DEF Init, TypeOK, FutureState, Stage
  <1>3. QueueFits(waiters, future)
    BY <1>1, EmptySeq DEF QueueFits
  <1>4. PermitsConserved
    <2>1. Granted(future) = {}
      BY <1>1 DEF Granted
    <2>2. QED
      BY <1>1, <2>1, FS_EmptySet, CapacityAssumption DEF PermitsConserved
  <1>5. QED
    BY <1>1, <1>2, <1>3, <1>4 DEF IInv, StageFits, NoIdlePermit

(* Every step preserves the invariant.                                     *)
LEMMA StepInvariant == IInv /\ [Next]_vars => IInv'
  <1> SUFFICES ASSUME IInv, [Next]_vars
               PROVE  IInv'
    OBVIOUS
  <1> USE DEF IInv, TypeOK, StageFits, PermitsConserved, NoIdlePermit
  <1>1. ASSUME NEW c \in Call, Acquire(c)
        PROVE  IInv'
    BY <1>1, AcquireStep
  <1>2. ASSUME NEW c \in Call, WakeGranted(c)
        PROVE  IInv'
    BY <1>2 DEF WakeGranted, Stage, QueueFits
  <1>3. ASSUME NEW c \in Call, WakeStopped(c)
        PROVE  IInv'
    BY <1>3 DEF WakeStopped, Stage, QueueFits
  <1>4. ASSUME NEW c \in Call, CancelWaiting(c)
        PROVE  IInv'
    BY <1>4 DEF CancelWaiting, Stage, QueueFits
  <1>5. ASSUME NEW c \in Call, Claim(c)
        PROVE  IInv'
    BY <1>5 DEF Claim, Stage, QueueFits
  <1>6. ASSUME NEW c \in Call, CancelClaiming(c)
        PROVE  IInv'
    BY <1>6, AbandonStep DEF CancelClaiming
  <1>7. ASSUME NEW c \in Call, Exit(c)
        PROVE  IInv'
    BY <1>7, AbandonStep DEF Exit
  <1>8. ASSUME NEW c \in Call, Release(c)
        PROVE  IInv'
    BY <1>8, GiveBackStep DEF Release
  <1>9. ASSUME NEW w \in Worker, SetStop(w)
        PROVE  IInv'
    BY <1>9 DEF SetStop, QueueFits
  <1>10. CASE UNCHANGED vars
    BY <1>10 DEF vars, QueueFits
  <1>11. QED
    BY <1>1, <1>2, <1>3, <1>4, <1>5, <1>6, <1>7, <1>8, <1>9, <1>10
       DEF Next, CallStep, Wake

(* The invariant holds throughout: permits, deque, futures and suspension  *)
(* points of the asyncio budget always agree.                              *)
THEOREM Invariant == Spec => []IInv
  BY InitInvariant, StepInvariant, PTL DEF Spec

(* Every variable of the budget keeps its type.                            *)
THEOREM TypeCorrect == Spec => []TypeOK
  <1>1. IInv => TypeOK
    BY DEF IInv
  <1>2. QED
    BY <1>1, Invariant, PTL

(* No interleaving of acquire, cancel, stop and release loses a permit or  *)
(* returns it twice.                                                       *)
THEOREM PermitsNeverLost == Spec => []PermitsConserved
  <1>1. IInv => PermitsConserved
    BY DEF IInv
  <1>2. QED
    BY <1>1, Invariant, PTL

(* A free permit and a waiting call never coexist between two steps.       *)
THEOREM NoLostWakeup == Spec => []NoIdlePermit
  <1>1. IInv => NoIdlePermit
    BY DEF IInv
  <1>2. QED
    BY <1>1, Invariant, PTL
-----------------------------------------------------------------------------
(* The refinement of FifoAdmission.                                        *)

Pending(f) == {c \in Call : f[c] = "pending"}

(* The specification counts as this module does.                           *)
LEMMA SameCount == \A S : Fifo!Cardinality(S) = Cardinality(S)
  BY DEF Fifo!Cardinality, Cardinality

(* Nobody is in front of a call that is not in the deque.                  *)
LEMMA NobodyInFront ==
    ASSUME NEW q, NEW f, QueueFits(q, f), NEW c \in Call, f[c] # "pending"
    PROVE  InFront(q, c) = {}
  BY CallAssumption DEF InFront, QueueFits

(* The calls that _drain grants are those in front; the others keep their  *)
(* order.                                                                  *)
LEMMA DrainOrder ==
    ASSUME NEW q \in Seq(Entry), NEW f, QueueFits(q, f), NEW k \in 0..Len(q)
    PROVE  LET p == SubSeq(q, k + 1, Len(q))
           IN  /\ \A c \in Live(q, k) : InFront(q, c) \subseteq Live(q, k)
               /\ \A c \in Pending(f) \ Live(q, k) :
                      InFront(p, c) = InFront(q, c) \ Live(q, k)
  <1> DEFINE p == SubSeq(q, k + 1, Len(q))
  <1>1. Len(q) \in Nat /\ k \in Nat /\ \A i \in 1..Len(q) : q[i] \in Entry
    BY LenProperties, ElementOfSeq
  <1>2. /\ Len(p) = Len(q) - k
        /\ \A i \in 1..Len(p) : p[i] = q[k + i]
    <2>1. \A i \in (k + 1)..Len(q) : q[i] \in Entry
      BY <1>1
    <2>2. /\ Len(p) = IF k + 1 <= Len(q) THEN Len(q) - (k + 1) + 1 ELSE 0
          /\ \A i \in 1..(Len(q) - (k + 1) + 1) : p[i] = q[(k + 1) + i - 1]
      BY <1>1, <2>1, SubSeqProperties
    <2>3. Len(p) = Len(q) - k
      BY <1>1, <2>2
    <2>4. \A i \in 1..(Len(q) - k) : p[i] = q[k + i]
      BY <1>1, <2>2
    <2>5. QED
      BY <2>3, <2>4
  <1> HIDE DEF p
  <1>3. \A i, j \in 1..Len(q) : q[i] \in Call /\ q[i] = q[j] => i = j
    BY CallAssumption DEF QueueFits
  <1>4. \A i \in 1..Len(q) : q[i] \in Call => (q[i] \in Live(q, k) <=> i <= k)
    <2> SUFFICES ASSUME NEW i \in 1..Len(q), q[i] \in Call
                 PROVE  q[i] \in Live(q, k) <=> i <= k
      OBVIOUS
    <2>1. ASSUME i <= k PROVE q[i] \in Live(q, k)
      BY <1>1, <2>1, CallAssumption DEF Live
    <2>2. ASSUME q[i] \in Live(q, k) PROVE i <= k
      <3>1. PICK j \in 1..k : q[j] = q[i]
        BY <2>2 DEF Live
      <3>2. j \in 1..Len(q)
        BY <1>1
      <3>3. QED
        BY <1>1, <1>3, <3>1, <3>2
    <2>3. QED
      BY <2>1, <2>2
  <1>5. ASSUME NEW c \in Live(q, k), NEW d \in InFront(q, c)
        PROVE  d \in Live(q, k)
    <2>1. PICK i \in 1..Len(q), j \in 1..Len(q) : i < j /\ q[i] = d /\ q[j] = c
      BY <1>5 DEF InFront
    <2>2. d \in Call /\ c \in Call
      <3>1. c \in Entry /\ c # Cancelled
        BY <1>1, <2>1 DEF Live
      <3>2. QED
        BY <3>1 DEF Entry, InFront
    <2>3. QED
      BY <1>1, <1>4, <2>1, <2>2
  <1>6. ASSUME NEW c \in Pending(f) \ Live(q, k)
        PROVE  InFront(p, c) = InFront(q, c) \ Live(q, k)
    <2>1. ASSUME NEW d \in InFront(p, c) PROVE d \in InFront(q, c) \ Live(q, k)
      <3>1. PICK i \in 1..Len(p), j \in 1..Len(p) : i < j /\ p[i] = d /\ p[j] = c
        BY <2>1 DEF InFront
      <3>2. k + i \in 1..Len(q) /\ k + j \in 1..Len(q) /\ k + i < k + j /\ ~(k + i <= k)
        BY <1>1, <1>2, <3>1
      <3>3. q[k + i] = d /\ q[k + j] = c /\ d \in Call
        BY <1>2, <2>1, <3>1 DEF InFront
      <3>4. d \notin Live(q, k)
        BY <1>4, <3>2, <3>3
      <3>5. QED
        BY <3>2, <3>3, <3>4 DEF InFront
    <2>2. ASSUME NEW d \in InFront(q, c) \ Live(q, k) PROVE d \in InFront(p, c)
      <3>1. PICK i \in 1..Len(q), j \in 1..Len(q) : i < j /\ q[i] = d /\ q[j] = c
        BY <2>2 DEF InFront
      <3>2. d \in Call /\ ~(i <= k)
        BY <1>4, <2>2, <3>1 DEF InFront
      <3>3. /\ i - k \in 1..Len(p) /\ j - k \in 1..Len(p) /\ i - k < j - k
            /\ k + (i - k) = i /\ k + (j - k) = j
        BY <1>1, <1>2, <3>1, <3>2
      <3>4. p[i - k] = d /\ p[j - k] = c
        BY <1>2, <3>1, <3>3
      <3>5. QED
        BY <3>2, <3>3, <3>4 DEF InFront
    <2>3. QED
      BY <2>1, <2>2
  <1>7. QED
    BY <1>5, <1>6 DEF p

(* So _drain grants, to a set L of calls that is closed under "asked       *)
(* before", and leaves the others waiting in their order.                  *)
LEMMA DrainSettles ==
    ASSUME NEW n \in Nat, NEW q \in Seq(Entry), NEW f \in [Call -> FutureState],
           QueueFits(q, f),
           n = Capacity - Cardinality(Granted(f)),
           Drain(n, q, f)
    PROVE  \E L \in SUBSET Pending(f) :
               /\ \A c \in L : InFront(q, c) \subseteq L
               /\ Pending(future') = Pending(f) \ L
               /\ Granted(future') = Granted(f) \cup L
               /\ Cardinality(Granted(future')) <= Capacity
               /\ \A c \in Call : InFront(waiters', c) =
                      IF c \in Pending(f) \ L THEN InFront(q, c) \ L ELSE {}
  <1>1. PICK k \in 0..Len(q) :
            /\ waiters' = SubSeq(q, k + 1, Len(q))
            /\ future' = [c \in Call |-> IF c \in Live(q, k)
                                         THEN "granted" ELSE f[c]]
    BY DEF Drain
  <1> DEFINE L == Live(q, k)
  <1>2. L \subseteq Pending(f)
    <2>1. L \in SUBSET Call
      BY LiveFinite
    <2>2. k \in Nat /\ Len(q) \in Nat
      BY LenProperties
    <2>3. \A c \in L : f[c] = "pending"
      BY <2>2 DEF Live, QueueFits
    <2>4. QED
      BY <2>1, <2>3 DEF Pending
  <1>3. /\ \A c \in L : InFront(q, c) \subseteq L
        /\ \A c \in Pending(f) \ L : InFront(waiters', c) = InFront(q, c) \ L
    BY <1>1, DrainOrder
  <1>4. DrainInv'
    BY DrainRestores
  <1>5. Granted(future') = Granted(f) \cup L /\ Pending(future') = Pending(f) \ L
    BY <1>1, <1>2 DEF Granted, Pending
  <1> HIDE DEF L
  <1>6. Cardinality(Granted(future')) <= Capacity
    <2>1. available' \in Nat /\ available' = Capacity - Cardinality(Granted(future'))
      BY <1>4 DEF DrainInv, PermitsConserved
    <2>2. Cardinality(Granted(future')) \in Nat
      BY GrantedFinite
    <2>3. QED
      BY <2>1, <2>2, CapacityAssumption
  <1>7. \A c \in Call : InFront(waiters', c) =
            IF c \in Pending(f) \ L THEN InFront(q, c) \ L ELSE {}
    <2>1. \A c \in Call : future'[c] # "pending" => InFront(waiters', c) = {}
      <3>1. QueueFits(waiters', future')
        BY <1>4 DEF DrainInv, QueueFits
      <3>2. QED
        BY <3>1, NobodyInFront
    <2>2. QED
      BY <1>3, <1>5, <2>1 DEF Pending
  <1>8. QED
    BY <1>2, <1>3, <1>5, <1>6, <1>7

(* The order of the calls in a deque with one more entry at its end.       *)
LEMMA AppendOrder ==
    ASSUME NEW q \in Seq(Entry), NEW f, QueueFits(q, f), NEW c \in Call, f[c] # "pending"
    PROVE  /\ InFront(Append(q, c), c) = Pending(f)
           /\ \A d \in Call \ {c} : InFront(Append(q, c), d) = InFront(q, d)
  <1> DEFINE p == Append(q, c)
  <1>1. Len(q) \in Nat /\ c \in Entry
    BY LenProperties DEF Entry
  <1>2. /\ Len(p) = Len(q) + 1
        /\ \A i \in 1..Len(q) : p[i] = q[i]
        /\ p[Len(q) + 1] = c
    BY <1>1, AppendProperties
  <1> HIDE DEF p
  <1>3. \A i \in 1..Len(p) : i \in 1..Len(q) \/ i = Len(q) + 1
    BY <1>1, <1>2
  <1>4. 1..Len(q) \subseteq 1..Len(p) /\ Len(q) + 1 \in 1..Len(p)
    BY <1>1, <1>2
  <1>5. \A i \in 1..Len(q) : q[i] # c
    BY CallAssumption DEF QueueFits
  <1>6. InFront(p, c) = Pending(f)
    <2>1. ASSUME NEW d \in InFront(p, c) PROVE d \in Pending(f)
      <3>1. PICK i \in 1..Len(p), j \in 1..Len(p) : i < j /\ p[i] = d /\ p[j] = c
        BY <2>1 DEF InFront
      <3>2. i \in 1..Len(q)
        BY <1>1, <1>2, <1>3, <3>1
      <3>3. d \in Call /\ q[i] = d
        BY <1>2, <2>1, <3>1, <3>2 DEF InFront
      <3>4. QED
        BY <3>2, <3>3, CallAssumption DEF QueueFits, Pending
    <2>2. ASSUME NEW d \in Pending(f) PROVE d \in InFront(p, c)
      <3>1. PICK i \in 1..Len(q) : q[i] = d
        BY DEF QueueFits, Pending
      <3>2. i < Len(q) + 1 /\ p[i] = d /\ p[Len(q) + 1] = c
        BY <1>1, <1>2, <3>1
      <3>3. QED
        BY <1>4, <3>2 DEF InFront, Pending
    <2>3. QED
      BY <2>1, <2>2
  <1>7. ASSUME NEW d \in Call \ {c} PROVE InFront(p, d) = InFront(q, d)
    <2>1. ASSUME NEW e \in InFront(p, d) PROVE e \in InFront(q, d)
      <3>1. PICK i \in 1..Len(p), j \in 1..Len(p) : i < j /\ p[i] = e /\ p[j] = d
        BY <2>1 DEF InFront
      <3>2. j \in 1..Len(q)
        BY <1>2, <1>3, <3>1
      <3>3. i \in 1..Len(q)
        BY <1>1, <1>2, <1>3, <3>1, <3>2
      <3>4. QED
        BY <1>2, <2>1, <3>1, <3>2, <3>3 DEF InFront
    <2>2. ASSUME NEW e \in InFront(q, d) PROVE e \in InFront(p, d)
      <3>1. PICK i \in 1..Len(q), j \in 1..Len(q) : i < j /\ q[i] = e /\ q[j] = d
        BY <2>2 DEF InFront
      <3>2. QED
        BY <1>2, <1>4, <2>2, <3>1 DEF InFront
    <2>3. QED
      BY <2>1, <2>2
  <1>8. QED
    BY <1>6, <1>7 DEF p

(* A tombstone is in front of nobody and behind nobody.                    *)
LEMMA BuryOrder ==
    ASSUME NEW q \in Seq(Entry), NEW c \in Call, NEW d \in Call \ {c}
    PROVE  InFront(Bury(q, c), d) = InFront(q, d) \ {c}
  <1> DEFINE p == Bury(q, c)
  <1>1. DOMAIN q = 1..Len(q) /\ Len(q) \in Nat
    BY LenProperties
  <1>2. p = [i \in 1..Len(q) |-> IF q[i] = c THEN Cancelled ELSE q[i]]
    BY <1>1 DEF Bury
  <1>3. 1..Len(p) = 1..Len(q)
    <2>1. \A i \in 1..Len(q) : q[i] \in Entry
      BY ElementOfSeq
    <2>2. p \in [1..Len(q) -> Entry]
      BY <1>2, <2>1 DEF Entry
    <2>3. p \in Seq(Entry)
      BY <1>1, <2>2, SeqDef
    <2>4. QED
      BY <1>2, <2>3, LenProperties
  <1>4. \A i \in 1..Len(p) : p[i] = IF q[i] = c THEN Cancelled ELSE q[i]
    BY <1>2, <1>3
  <1> HIDE DEF p
  <1>5. InFront(p, d) \subseteq InFront(q, d) \ {c}
    BY <1>3, <1>4, CallAssumption DEF InFront
  <1>6. InFront(q, d) \ {c} \subseteq InFront(p, d)
    BY <1>3, <1>4 DEF InFront
  <1>7. QED
    BY <1>5, <1>6 DEF p

(* acquire, with the drain that follows it, is Join.                       *)
LEMMA AcquireFollows ==
    ASSUME IInv, NEW c \in Call, Acquire(c)
    PROVE  Fifo!Join(c)
  <1> DEFINE q == Append(waiters, c)
             f == [future EXCEPT ![c] = "pending"]
             A == [[d \in Call |-> InFront(waiters, d)] EXCEPT ![c] = Pending(future)]
  <1>1. /\ future \in [Call -> FutureState]
        /\ available \in Nat
        /\ available = Capacity - Cardinality(Granted(future))
        /\ waiters \in Seq(Entry)
        /\ QueueFits(waiters, future)
    BY DEF IInv, TypeOK, PermitsConserved
  <1>2. future[c] = "none" /\ Drain(available, q, f)
    BY DEF IInv, StageFits, Acquire
  <1>3. /\ q \in Seq(Entry)
        /\ f \in [Call -> FutureState]
        /\ QueueFits(q, f)
        /\ Granted(f) = Granted(future)
    BY <1>2, EnqueueFits
  <1>4. Pending(f) = Pending(future) \cup {c}
    BY <1>1 DEF Pending
  <1>5. /\ InFront(q, c) = Pending(future)
        /\ \A d \in Call \ {c} : InFront(q, d) = InFront(waiters, d)
    BY <1>1, <1>2, AppendOrder
  <1>6. \A d \in Pending(f) : A[d] = InFront(q, d)
    BY <1>5 DEF Pending
  <1> HIDE DEF q, f, A
  <1>7. PICK L \in SUBSET Pending(f) :
            /\ \A d \in L : InFront(q, d) \subseteq L
            /\ Pending(future') = Pending(f) \ L
            /\ Granted(future') = Granted(f) \cup L
            /\ Cardinality(Granted(future')) <= Capacity
            /\ \A d \in Call : InFront(waiters', d) =
                   IF d \in Pending(f) \ L THEN InFront(q, d) \ L ELSE {}
    BY <1>1, <1>2, <1>3, DrainSettles
  <1>8. /\ L \in SUBSET (Pending(future) \cup {c})
        /\ \A d \in L : A[d] \subseteq L
        /\ Pending(future)' = (Pending(future) \cup {c}) \ L
        /\ Granted(future)' = Granted(future) \cup L
        /\ Cardinality(Granted(future)') <= Capacity
    BY <1>3, <1>4, <1>6, <1>7 DEF Pending, Granted
  <1>9. [d \in Call |-> InFront(waiters, d)]' = [d \in Call |->
             IF d \in (Pending(future) \cup {c}) \ L THEN A[d] \ L ELSE {}]
    <2>1. \A d \in Call : InFront(waiters', d) =
              IF d \in (Pending(future) \cup {c}) \ L THEN A[d] \ L ELSE {}
      BY <1>4, <1>6, <1>7
    <2>2. QED
      BY <2>1 DEF InFront
  <1>10. Cardinality(Granted(future) \cup L) <= Capacity
    BY <1>8
  <1>11. c \notin Pending(future) \cup Granted(future)
    BY <1>2 DEF Pending, Granted
  <1>12. QED
    BY <1>8, <1>9, <1>10, <1>11, SameCount DEF Fifo!Join, Fifo!Settle, A, Pending

(* A granted call that gives its permit back is Return.                    *)
LEMMA GiveBackFollows ==
    ASSUME IInv, NEW c \in Call, future[c] = "granted", GiveBack(c)
    PROVE  Fifo!Return(c)
  <1> DEFINE f == [future EXCEPT ![c] = "none"]
             A == [d \in Call |-> InFront(waiters, d)]
  <1>1. /\ future \in [Call -> FutureState]
        /\ available + 1 \in Nat
        /\ waiters \in Seq(Entry)
    BY DEF IInv, TypeOK
  <1>2. /\ f \in [Call -> FutureState]
        /\ QueueFits(waiters, f)
        /\ available + 1 = Capacity - Cardinality(Granted(f))
    BY GiveBackFits
  <1>3. Drain(available + 1, waiters, f)
    BY DEF GiveBack
  <1>4. Pending(f) = Pending(future) /\ Granted(f) = Granted(future) \ {c}
    BY <1>1 DEF Pending, Granted
  <1> HIDE DEF f
  <1>5. PICK L \in SUBSET Pending(f) :
            /\ \A d \in L : InFront(waiters, d) \subseteq L
            /\ Pending(future') = Pending(f) \ L
            /\ Granted(future') = Granted(f) \cup L
            /\ Cardinality(Granted(future')) <= Capacity
            /\ \A d \in Call : InFront(waiters', d) =
                   IF d \in Pending(f) \ L THEN InFront(waiters, d) \ L ELSE {}
    BY <1>1, <1>2, <1>3, DrainSettles
  <1>6. /\ L \in SUBSET Pending(future)
        /\ \A d \in L : A[d] \subseteq L
        /\ Pending(future)' = Pending(future) \ L
        /\ Granted(future)' = (Granted(future) \ {c}) \cup L
        /\ Cardinality(Granted(future)') <= Capacity
    BY <1>4, <1>5 DEF Pending, Granted
  <1>7. [d \in Call |-> InFront(waiters, d)]' = [d \in Call |->
             IF d \in Pending(future) \ L THEN A[d] \ L ELSE {}]
    BY <1>4, <1>5 DEF InFront
  <1> HIDE DEF A
  <1>8. Cardinality((Granted(future) \ {c}) \cup L) <= Capacity
    BY <1>6
  <1>9. c \in Granted(future)
    BY DEF Granted
  <1>10. QED
    BY <1>6, <1>7, <1>8, <1>9, SameCount DEF Fifo!Return, Fifo!Settle, A, Pending

(* A call that gives up is Leave, or Return when it had been granted       *)
(* behind its back.                                                        *)
LEMMA AbandonFollows ==
    ASSUME IInv, NEW c \in Call, Abandon(c)
    PROVE  Fifo!Leave(c) \/ Fifo!Return(c)
  <1>1. CASE future[c] = "granted" /\ GiveBack(c)
    BY <1>1, GiveBackFollows
  <1>2. CASE /\ future[c] = "pending"
             /\ Drain(available, Bury(waiters, c), [future EXCEPT ![c] = "none"])
    <2> DEFINE q == Bury(waiters, c)
               f == [future EXCEPT ![c] = "none"]
               A == [d \in Call |-> [e \in Call |-> InFront(waiters, e)][d] \ {c}]
    <2>1. /\ available \in Nat
          /\ future \in [Call -> FutureState]
          /\ available = Capacity - Cardinality(Granted(future))
          /\ waiters \in Seq(Entry)
      BY DEF IInv, TypeOK, PermitsConserved
    <2>2. /\ q \in Seq(Entry)
          /\ f \in [Call -> FutureState]
          /\ QueueFits(q, f)
          /\ Granted(f) = Granted(future)
      BY <1>2, BuryFits
    <2>3. Drain(available, q, f)
      BY <1>2
    <2>4. Pending(f) = Pending(future) \ {c}
      BY <2>1 DEF Pending
    <2>5. \A d \in Pending(f) : A[d] = InFront(q, d)
      BY <2>1, <2>4, BuryOrder DEF Pending
    <2> HIDE DEF q, f, A
    <2>6. PICK L \in SUBSET Pending(f) :
              /\ \A d \in L : InFront(q, d) \subseteq L
              /\ Pending(future') = Pending(f) \ L
              /\ Granted(future') = Granted(f) \cup L
              /\ Cardinality(Granted(future')) <= Capacity
              /\ \A d \in Call : InFront(waiters', d) =
                     IF d \in Pending(f) \ L THEN InFront(q, d) \ L ELSE {}
      BY <2>1, <2>2, <2>3, DrainSettles
    <2>7. /\ L \in SUBSET (Pending(future) \ {c})
          /\ \A d \in L : A[d] \subseteq L
          /\ Pending(future)' = (Pending(future) \ {c}) \ L
          /\ Granted(future)' = Granted(future) \cup L
          /\ Cardinality(Granted(future)') <= Capacity
      BY <2>2, <2>4, <2>5, <2>6 DEF Pending, Granted
    <2>8. [d \in Call |-> InFront(waiters, d)]' = [d \in Call |->
               IF d \in (Pending(future) \ {c}) \ L THEN A[d] \ L ELSE {}]
      <3>1. \A d \in Call : InFront(waiters', d) =
                IF d \in (Pending(future) \ {c}) \ L THEN A[d] \ L ELSE {}
        BY <2>4, <2>5, <2>6
      <3>2. QED
        BY <3>1 DEF InFront
    <2>9. Cardinality(Granted(future) \cup L) <= Capacity
      BY <2>7
    <2>10. c \in Pending(future)
      BY <1>2 DEF Pending
    <2>11. QED
      BY <2>7, <2>8, <2>9, <2>10, SameCount DEF Fifo!Leave, Fifo!Settle, A, Pending
  <1>3. QED
    BY <1>1, <1>2 DEF Abandon

LEMMA InitFollows == Init => Fifo!Init
  BY EmptySeq DEF Init, Fifo!Init, InFront, Granted

LEMMA StepFollows == IInv /\ [Next]_vars => [Fifo!Next]_(Fifo!vars)
  <1> SUFFICES ASSUME IInv, [Next]_vars
               PROVE  [Fifo!Next]_(Fifo!vars)
    OBVIOUS
  <1>1. ASSUME UNCHANGED <<waiters, future>>
        PROVE  UNCHANGED Fifo!vars
    BY <1>1 DEF Fifo!vars, InFront, Granted
  <1>2. ASSUME NEW c \in Call, Acquire(c)
        PROVE  Fifo!Next
    BY <1>2, AcquireFollows DEF Fifo!Next
  <1>3. ASSUME NEW c \in Call, CancelClaiming(c) \/ Exit(c)
        PROVE  Fifo!Next
    BY <1>3, AbandonFollows DEF CancelClaiming, Exit, Fifo!Next
  <1>4. ASSUME NEW c \in Call, Release(c)
        PROVE  Fifo!Next
    <2>1. future[c] = "granted" /\ GiveBack(c)
      BY <1>4 DEF Release, IInv, StageFits
    <2>2. QED
      BY <2>1, GiveBackFollows DEF Fifo!Next
  <1>5. ASSUME NEW c \in Call, Wake(c) \/ CancelWaiting(c) \/ Claim(c)
        PROVE  UNCHANGED <<waiters, future>>
    BY <1>5 DEF Wake, WakeGranted, WakeStopped, CancelWaiting, Claim
  <1>6. ASSUME NEW w \in Worker, SetStop(w)
        PROVE  UNCHANGED <<waiters, future>>
    BY <1>6 DEF SetStop
  <1>7. CASE UNCHANGED vars
    BY <1>1, <1>7 DEF vars
  <1>8. QED
    BY <1>1, <1>2, <1>3, <1>4, <1>5, <1>6, <1>7 DEF Next, CallStep

(* The asyncio budget implements FIFO admission: at most Capacity permits  *)
(* are out, and neither a tombstone, a stop nor a grant that raced a       *)
(* give-up lets a call be admitted before one that asked earlier.          *)
THEOREM ImplementsFifo == Spec => FifoOrder
  BY Invariant, InitFollows, StepFollows, PTL DEF Spec, FifoOrder, Fifo!Spec
=============================================================================

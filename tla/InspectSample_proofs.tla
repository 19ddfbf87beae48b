-------------------------- MODULE InspectSample_proofs --------------------------
(***************************************************************************)
(* Build contexts and Inspect samples, for every set of samples and every  *)
(* number of submissions, places and executor threads: no place and no     *)
(* archive is lost, a sample waits for a build of its own or one under way,*)
(* and the clean-up of a task forgets no sandbox in silence.               *)
(***************************************************************************)
EXTENDS InspectSample, FiniteSetTheorems, SequenceTheorems, TLAPS

(* A preparation waits for its admission in the queue, and only once.      *)
QueueFits ==
    /\ \A i \in 1..Len(queue) : stage[queue[i]] = "asking"
    /\ \A i, j \in 1..Len(queue) : queue[i] = queue[j] => i = j

(* The work on the executor and the archive fit the place of the caller;   *)
(* a caller that left while a thread works told it to discard the archive. *)
JobFits ==
    \A e \in Entry :
       /\ stage[e] \in {"none", "asking", "granted"} => job[e] = "none"
       /\ stage[e] = "preparing" => job[e] \in {"queued", "running", "done", "failed"}
       /\ stage[e] = "using" => job[e] = "done"
       /\ stage[e] = "left" => job[e] # "queued"
       /\ stage[e] = "left" /\ job[e] = "running" => e \in discard
       /\ e \in discard => stage[e] = "left"
       /\ job[e] # "done" => archive[e] = "none"
       /\ stage[e] = "preparing" /\ job[e] = "done" => archive[e] = "open"

(* The part of the invariant that is about build contexts.                 *)
ContextInv ==
    /\ ContextTypeOK
    /\ QueueFits
    /\ JobFits
    /\ PlacesReturned
    /\ ArchiveOwned
-----------------------------------------------------------------------------
(* A set of preparations is finite in number.                              *)
LEMMA Parts ==
  ASSUME NEW S \in SUBSET Entry
  PROVE  IsFiniteSet(S) /\ Cardinality(S) \in Nat
  BY ContextAssumption, FS_Subset, FS_CardinalityType

(* A preparation that joins or leaves a set of them counts for one.        *)
LEMMA Moves ==
  ASSUME NEW S \in SUBSET Entry, NEW T \in SUBSET Entry, NEW e \in Entry,
         \A f \in Entry \ {e} : f \in S <=> f \in T
  PROVE  /\ (e \in S <=> e \in T) => Cardinality(T) = Cardinality(S)
         /\ e \notin S /\ e \in T => Cardinality(T) = Cardinality(S) + 1
         /\ e \in S /\ e \notin T => Cardinality(T) = Cardinality(S) - 1
  <1>1. CASE e \in S <=> e \in T
    <2>1. S = T
      BY <1>1
    <2> QED
      BY <1>1, <2>1
  <1>2. CASE e \notin S /\ e \in T
    <2>1. T = S \cup {e}
      BY <1>2
    <2> QED
      BY <1>2, <2>1, Parts, FS_AddElement
  <1>3. CASE e \in S /\ e \notin T
    <2>1. S = T \cup {e}
      BY <1>3
    <2>2. Cardinality(S) = Cardinality(T) + 1
      BY <1>3, <2>1, Parts, FS_AddElement
    <2> QED
      BY <1>3, <2>2, Parts
  <1> QED
    BY <1>1, <1>2, <1>3

(* The preparations that have a place: admitted, or with the executor.     *)
Admitted(st) == {e \in Entry : st[e] = "granted"}
Busy(jb) == {e \in Entry : jb[e] \in {"queued", "running"}}

LEMMA PlacesCounted ==
  /\ PlacesReturned
        <=> Places = free + releases + Cardinality(Admitted(stage)) + Cardinality(Busy(job))
  /\ Cardinality(Admitted(stage)) \in Nat
  /\ Cardinality(Busy(job)) \in Nat
  /\ Cardinality(Admitted(stage')) \in Nat
  /\ Cardinality(Busy(job')) \in Nat
  <1>1. /\ Admitted(stage) \in SUBSET Entry /\ Busy(job) \in SUBSET Entry
        /\ Admitted(stage') \in SUBSET Entry /\ Busy(job') \in SUBSET Entry
    BY DEF Admitted, Busy
  <1> QED
    BY <1>1, Parts DEF PlacesReturned, Admitted, Busy

(* How often e is counted for its stage, or its work, before and after.    *)
LEMMA StageCount ==
  ASSUME NEW e \in Entry, \A f \in Entry \ {e} : stage'[f] = stage[f]
  PROVE  /\ (stage[e] = "granted" <=> stage'[e] = "granted") =>
               Cardinality(Admitted(stage')) = Cardinality(Admitted(stage))
         /\ stage[e] # "granted" /\ stage'[e] = "granted" =>
               Cardinality(Admitted(stage')) = Cardinality(Admitted(stage)) + 1
         /\ stage[e] = "granted" /\ stage'[e] # "granted" =>
               Cardinality(Admitted(stage')) = Cardinality(Admitted(stage)) - 1
  <1>1. Admitted(stage) \in SUBSET Entry /\ Admitted(stage') \in SUBSET Entry
    BY DEF Admitted
  <1>2. \A f \in Entry \ {e} : f \in Admitted(stage) <=> f \in Admitted(stage')
    BY DEF Admitted
  <1>3. /\ e \in Admitted(stage) <=> stage[e] = "granted"
        /\ e \in Admitted(stage') <=> stage'[e] = "granted"
    BY DEF Admitted
  <1> QED
    BY <1>1, <1>2, <1>3, Moves

LEMMA JobCount ==
  ASSUME NEW e \in Entry, \A f \in Entry \ {e} : job'[f] = job[f]
  PROVE  LET among == {"queued", "running"}
         IN  /\ (job[e] \in among <=> job'[e] \in among) =>
                   Cardinality(Busy(job')) = Cardinality(Busy(job))
             /\ job[e] \notin among /\ job'[e] \in among =>
                   Cardinality(Busy(job')) = Cardinality(Busy(job)) + 1
             /\ job[e] \in among /\ job'[e] \notin among =>
                   Cardinality(Busy(job')) = Cardinality(Busy(job)) - 1
  <1>1. Busy(job) \in SUBSET Entry /\ Busy(job') \in SUBSET Entry
    BY DEF Busy
  <1>2. \A f \in Entry \ {e} : f \in Busy(job) <=> f \in Busy(job')
    BY DEF Busy
  <1>3. /\ e \in Busy(job) <=> job[e] \in {"queued", "running"}
        /\ e \in Busy(job') <=> job'[e] \in {"queued", "running"}
    BY DEF Busy
  <1> QED
    BY <1>1, <1>2, <1>3, Moves

LEMMA ContextInitInv == ContextInit => ContextInv
  <1> SUFFICES ASSUME ContextInit PROVE ContextInv
    OBVIOUS
  <1> USE ContextAssumption DEF ContextInit
  <1>1. ContextTypeOK
    <2>1. free \in 0..Places /\ releases \in 0..Places
      OBVIOUS
    <2> QED
      BY <2>1 DEF ContextTypeOK
  <1>2. QueueFits /\ JobFits /\ ArchiveOwned
    BY DEF QueueFits, JobFits, ArchiveOwned
  <1>3. PlacesReturned
    <2>1. Admitted(stage) = {} /\ Busy(job) = {}
      BY DEF Admitted, Busy
    <2>2. Cardinality({}) = 0
      BY FS_EmptySet
    <2>3. free = Places /\ releases = 0 /\ Places \in Nat
      OBVIOUS
    <2> HIDE DEF ContextInit
    <2> QED
      BY <2>1, <2>2, <2>3, PlacesCounted
  <1> QED
    BY <1>1, <1>2, <1>3 DEF ContextInv

LEMMA PartOfSum ==
  ASSUME NEW p \in Nat, NEW f \in Nat, NEW r \in Nat, NEW a \in Nat, NEW b \in Nat,
         p = f + r + a + b
  PROVE  f \in 0..p /\ r \in 0..p
  OBVIOUS

(* The counts of places bound themselves.                                  *)
LEMMA PlacesBound ==
  ASSUME ContextTypeOK, PlacesReturned', free' \in Nat, releases' \in Nat,
         stage' \in [Entry -> {"none", "asking", "granted", "preparing", "using", "left"}],
         queue' \in Seq(Entry),
         job' \in [Entry -> {"none", "queued", "running", "done", "failed", "cancelled"}],
         archive' \in [Entry -> {"none", "open", "closed"}],
         discard' \subseteq Entry
  PROVE  ContextTypeOK'
  <1>1. Places = free' + releases' + Cardinality(Admitted(stage')) + Cardinality(Busy(job'))
    BY DEF PlacesReturned, Admitted, Busy
  <1>2. /\ Cardinality(Admitted(stage')) \in Nat
        /\ Cardinality(Busy(job')) \in Nat
        /\ Places \in Nat
    BY PlacesCounted, ContextAssumption
  <1>3. free' \in 0..Places /\ releases' \in 0..Places
    BY <1>1, <1>2, PartOfSum
  <1> QED
    BY <1>3 DEF ContextTypeOK

LEMMA PlacesNow ==
  ASSUME ContextTypeOK, PlacesReturned
  PROVE  Places = free + releases + Cardinality(Admitted(stage)) + Cardinality(Busy(job))
  BY PlacesCounted

LEMMA PlacesNext ==
  PlacesReturned'
     <=> Places = free' + releases' + Cardinality(Admitted(stage')) + Cardinality(Busy(job'))
  BY DEF PlacesReturned, Admitted, Busy

LEMMA AskInv == ASSUME ContextInv, NEW e \in Entry, Ask(e) PROVE ContextInv'
  <1> USE DEF ContextInv, Ask
  <1>1. PlacesReturned'
    <2>1. Cardinality(Admitted(stage')) = Cardinality(Admitted(stage))
      BY StageCount DEF ContextTypeOK
    <2>2. job' = job /\ free' = free /\ releases' = releases
      OBVIOUS
    <2> QED
      BY <2>1, <2>2, PlacesNow, PlacesNext
  <1>2. ContextTypeOK'
    BY <1>1, PlacesBound DEF ContextTypeOK
  <1>3. QueueFits'
    BY DEF QueueFits, ContextTypeOK
  <1>4. JobFits' /\ ArchiveOwned'
    BY DEF JobFits, ArchiveOwned, ContextTypeOK
  <1> QED
    BY <1>1, <1>2, <1>3, <1>4

LEMMA SubmitInv == ASSUME ContextInv, NEW e \in Entry, Submit(e) PROVE ContextInv'
  <1> USE DEF ContextInv, Submit
  <1>1. PlacesReturned'
    <2>1. job[e] = "none"
      BY DEF JobFits
    <2>2. Cardinality(Admitted(stage')) = Cardinality(Admitted(stage)) - 1
      BY StageCount DEF ContextTypeOK
    <2>3. Cardinality(Busy(job')) = Cardinality(Busy(job)) + 1
      BY <2>1, JobCount DEF ContextTypeOK
    <2>4. free' = free /\ releases' = releases /\ free \in Nat /\ releases \in Nat
      BY DEF ContextTypeOK
    <2> QED
      BY <2>2, <2>3, <2>4, PlacesCounted, PlacesNow, PlacesNext
  <1>2. ContextTypeOK'
    BY <1>1, PlacesBound DEF ContextTypeOK
  <1>3. QueueFits'
    BY DEF QueueFits, ContextTypeOK
  <1>4. JobFits' /\ ArchiveOwned'
    BY DEF JobFits, ArchiveOwned, ContextTypeOK
  <1> QED
    BY <1>1, <1>2, <1>3, <1>4

LEMMA ReceiveInv ==
  ASSUME ContextInv, NEW e \in Entry, Receive(e) \/ Close(e)
  PROVE  ContextInv'
  <1> USE DEF ContextInv, Receive, Close, Gone
  <1>1. PlacesReturned'
    <2>1. Cardinality(Admitted(stage')) = Cardinality(Admitted(stage))
      BY StageCount DEF ContextTypeOK
    <2>2. job' = job /\ free' = free /\ releases' = releases
      OBVIOUS
    <2> QED
      BY <2>1, <2>2, PlacesNow, PlacesNext
  <1>2. ContextTypeOK'
    BY <1>1, PlacesBound DEF ContextTypeOK
  <1>3. QueueFits'
    BY DEF QueueFits, ContextTypeOK
  <1>4. JobFits' /\ ArchiveOwned'
    BY DEF JobFits, ArchiveOwned, ContextTypeOK
  <1> QED
    BY <1>1, <1>2, <1>3, <1>4

LEMMA JobInv ==
  ASSUME ContextInv, NEW e \in Entry, StartJob(e) \/ EndJob(e)
  PROVE  ContextInv'
  <1> USE DEF ContextInv, StartJob, EndJob
  <1>0. stage' = stage /\ free' = free /\ free \in Nat /\ releases \in Nat
    BY DEF ContextTypeOK
  <1>1. PlacesReturned'
    <2>1. CASE StartJob(e)
      <3>1. Cardinality(Busy(job')) = Cardinality(Busy(job))
        BY <2>1, JobCount DEF ContextTypeOK
      <3>2. releases' = releases
        BY <2>1
      <3> QED
        BY <1>0, <3>1, <3>2, PlacesNow, PlacesNext
    <2>2. CASE EndJob(e)
      <3>1. Cardinality(Busy(job')) = Cardinality(Busy(job)) - 1
        BY <2>2, JobCount DEF ContextTypeOK
      <3>2. releases' = releases + 1
        BY <2>2
      <3> QED
        BY <1>0, <3>1, <3>2, PlacesCounted, PlacesNow, PlacesNext
    <2> QED
      BY <2>1, <2>2
  <1>2. ContextTypeOK'
    BY <1>1, PlacesBound DEF ContextTypeOK
  <1>3. QueueFits'
    BY DEF QueueFits, ContextTypeOK
  <1>4. JobFits' /\ ArchiveOwned'
    BY DEF JobFits, ArchiveOwned, ContextTypeOK
  <1> QED
    BY <1>1, <1>2, <1>3, <1>4

LEMMA AdmitInv == ASSUME ContextInv, Admit \/ ReleasePlace PROVE ContextInv'
  <1> USE DEF ContextInv
  <1>1. CASE Admit
    <2> USE <1>1 DEF Admit
    <2> DEFINE e == queue[1]
    <2>1. e \in Entry /\ e = Head(queue) /\ stage[e] = "asking"
      BY DEF ContextTypeOK, QueueFits
    <2>2. /\ Tail(queue) \in Seq(Entry)
          /\ Len(Tail(queue)) = Len(queue) - 1
          /\ \A i \in 1..Len(Tail(queue)) : Tail(queue)[i] = queue[i + 1]
      BY DEF ContextTypeOK
    <2>3. QueueFits'
      BY <2>1, <2>2 DEF QueueFits, ContextTypeOK
    <2> HIDE DEF e
    <2>4. PlacesReturned'
      <3>1. Cardinality(Admitted(stage')) = Cardinality(Admitted(stage)) + 1
        BY <2>1, StageCount DEF ContextTypeOK
      <3>2. /\ job' = job /\ free' = free - 1 /\ releases' = releases
            /\ free \in Nat /\ releases \in Nat
        BY DEF ContextTypeOK
      <3> QED
        BY <3>1, <3>2, PlacesCounted, PlacesNow, PlacesNext
    <2>5. ContextTypeOK'
      BY <2>1, <2>2, <2>4, PlacesBound DEF ContextTypeOK
    <2>6. JobFits' /\ ArchiveOwned'
      BY <2>1 DEF JobFits, ArchiveOwned, ContextTypeOK
    <2> QED
      BY <2>3, <2>4, <2>5, <2>6
  <1>2. CASE ReleasePlace
    <2> USE <1>2 DEF ReleasePlace
    <2>1. PlacesReturned'
      BY PlacesCounted, PlacesNow, PlacesNext DEF ContextTypeOK
    <2>2. ContextTypeOK'
      BY <2>1, PlacesBound DEF ContextTypeOK
    <2>3. QueueFits' /\ JobFits' /\ ArchiveOwned'
      BY DEF QueueFits, JobFits, ArchiveOwned
    <2> QED
      BY <2>1, <2>2, <2>3
  <1> QED
    BY <1>1, <1>2

LEMMA LeaveInv ==
  ASSUME ContextInv, NEW e \in Entry, LeaveAdmission(e) \/ LeavePreparation(e)
  PROVE  ContextInv'
  <1> USE DEF ContextInv, Gone
  <1>1. CASE LeaveAdmission(e) /\ stage[e] = "asking"
    <2>1. PICK i \in 1..Len(queue) :
             /\ queue[i] = e
             /\ queue' = [k \in 1..(Len(queue) - 1) |-> queue[IF k < i THEN k ELSE k + 1]]
      BY <1>1 DEF LeaveAdmission, Withdraw
    <2>2. /\ queue' \in Seq(Entry)
          /\ Len(queue') = Len(queue) - 1
          /\ \A k \in 1..Len(queue') :
                queue'[k] = queue[IF k < i THEN k ELSE k + 1]
      <3>1. Len(queue) - 1 \in Nat /\ \A k \in 1..Len(queue) : queue[k] \in Entry
        BY DEF ContextTypeOK
      <3>2. \A k \in 1..(Len(queue) - 1) : queue'[k] \in Entry
        BY <2>1, <3>1
      <3> QED
        BY <2>1, <3>1, <3>2, IsASeq
    <2>3. QueueFits'
      <3>1. ASSUME NEW k \in 1..Len(queue') PROVE stage'[queue'[k]] = "asking"
        <4> DEFINE j == IF k < i THEN k ELSE k + 1
        <4>1. j \in 1..Len(queue) /\ queue'[k] = queue[j] /\ j # i
          BY <2>2 DEF ContextTypeOK
        <4>2. queue[j] # e /\ queue[j] \in Entry /\ stage[queue[j]] = "asking"
          BY <2>1, <4>1 DEF QueueFits, ContextTypeOK
        <4> QED
          BY <1>1, <4>1, <4>2 DEF LeaveAdmission, ContextTypeOK
      <3>2. ASSUME NEW k \in 1..Len(queue'), NEW l \in 1..Len(queue'), queue'[k] = queue'[l]
            PROVE  k = l
        <4> DEFINE j == IF k < i THEN k ELSE k + 1
                   m == IF l < i THEN l ELSE l + 1
        <4>0. Len(queue) \in Nat /\ i \in Nat /\ k \in Nat /\ l \in Nat
          BY <2>2 DEF ContextTypeOK
        <4>1. j \in 1..Len(queue) /\ queue'[k] = queue[j]
          <5>1. k <= Len(queue) - 1 /\ k >= 1
            BY <2>2, <4>0
          <5> QED
            BY <2>2, <4>0, <5>1
        <4>2. m \in 1..Len(queue) /\ queue'[l] = queue[m]
          <5>1. l <= Len(queue) - 1 /\ l >= 1
            BY <2>2, <4>0
          <5> QED
            BY <2>2, <4>0, <5>1
        <4>3. j = m
          BY <3>2, <4>1, <4>2 DEF QueueFits
        <4> QED
          BY <4>3
      <3> QED
        BY <3>1, <3>2 DEF QueueFits
    <2>4. PlacesReturned'
      <3>1. Cardinality(Admitted(stage')) = Cardinality(Admitted(stage))
        BY <1>1, StageCount DEF LeaveAdmission, ContextTypeOK
      <3>2. job' = job /\ free' = free /\ releases' = releases
        BY <1>1 DEF LeaveAdmission
      <3> QED
        BY <3>1, <3>2, PlacesNow, PlacesNext
    <2>5. ContextTypeOK'
      BY <1>1, <2>2, <2>4, PlacesBound DEF LeaveAdmission, ContextTypeOK
    <2>6. JobFits' /\ ArchiveOwned'
      BY <1>1 DEF LeaveAdmission, JobFits, ArchiveOwned, ContextTypeOK
    <2> QED
      BY <2>3, <2>4, <2>5, <2>6
  <1>2. CASE LeaveAdmission(e) /\ stage[e] = "granted"
    <2>1. PlacesReturned'
      <3>1. Cardinality(Admitted(stage')) = Cardinality(Admitted(stage)) - 1
        BY <1>2, StageCount DEF LeaveAdmission, ContextTypeOK
      <3>2. job' = job /\ free' = free + 1 /\ releases' = releases
        BY <1>2 DEF LeaveAdmission
      <3>3. free \in Nat /\ releases \in Nat
        BY DEF ContextTypeOK
      <3> QED
        BY <3>1, <3>2, <3>3, PlacesCounted, PlacesNow, PlacesNext
    <2>2. ContextTypeOK'
      BY <1>2, <2>1, PlacesBound DEF LeaveAdmission, ContextTypeOK
    <2>3. QueueFits' /\ JobFits' /\ ArchiveOwned'
      BY <1>2 DEF LeaveAdmission, QueueFits, JobFits, ArchiveOwned, ContextTypeOK
    <2> QED
      BY <2>1, <2>2, <2>3
  <1>3. CASE LeavePreparation(e)
    <2>1. PlacesReturned'
      <3>1. Cardinality(Admitted(stage')) = Cardinality(Admitted(stage))
        BY <1>3, StageCount DEF LeavePreparation, ContextTypeOK
      <3>2. CASE job[e] = "queued"
        <4>1. Cardinality(Busy(job')) = Cardinality(Busy(job)) - 1
          BY <1>3, <3>2, JobCount DEF LeavePreparation, ContextTypeOK
        <4>2. /\ free' = free /\ releases' = releases + 1
              /\ free \in Nat /\ releases \in Nat
          BY <1>3, <3>2 DEF LeavePreparation, ContextTypeOK
        <4> QED
          BY <3>1, <4>1, <4>2, PlacesCounted, PlacesNow, PlacesNext
      <3>3. CASE job[e] # "queued"
        <4>1. job' = job /\ free' = free /\ releases' = releases
          BY <1>3, <3>3 DEF LeavePreparation
        <4> QED
          BY <3>1, <4>1, PlacesNow, PlacesNext
      <3> QED
        BY <3>2, <3>3
    <2>2. ContextTypeOK'
      BY <1>3, <2>1, PlacesBound DEF LeavePreparation, ContextTypeOK
    <2>3. QueueFits' /\ JobFits' /\ ArchiveOwned'
      BY <1>3 DEF LeavePreparation, QueueFits, JobFits, ArchiveOwned, ContextTypeOK
    <2> QED
      BY <2>1, <2>2, <2>3
  <1> QED
    BY <1>1, <1>2, <1>3 DEF LeaveAdmission

(* What the context manager, the executor and the loop do keeps it.        *)
ContextStep ==
    \/ \E e \in Entry : Ask(e) \/ Submit(e) \/ Receive(e) \/ Leave(e)
    \/ Background
    \/ UNCHANGED contextVars

LEMMA ContextStepInv == ASSUME ContextInv, ContextStep PROVE ContextInv'
  <1>1. CASE UNCHANGED contextVars
    <2>1. PlacesReturned'
      BY <1>1 DEF contextVars, ContextInv, PlacesReturned
    <2> QED
      BY <1>1, <2>1 DEF contextVars, ContextInv, ContextTypeOK, QueueFits, JobFits, ArchiveOwned
  <1> QED
    BY <1>1, AskInv, SubmitInv, ReceiveInv, JobInv, AdmitInv, LeaveInv
    DEF ContextStep, Leave, Background
-----------------------------------------------------------------------------
Owned(all, s) == {b \in DOMAIN all : all[b].owner = s}

(* What a sample has listed has every build that had ended before it began,*)
(* and every build that is older than one in it.                           *)
SearchFits(s) ==
    /\ at[s] = "context" => submits[s] > 0
    /\ at[s] = "building" => building[s] \notin old
    /\ known[s].listed => old \subseteq known[s].ids
    /\ known[s].ids \subseteq DOMAIN builds
    /\ \A b \in known[s].ids : 1..b \subseteq known[s].ids

(* A sample whose looks were all answered has no build before it submits   *)
(* one, and one that it did not list while it recovers its submission.     *)
OneBuild(s) ==
    s \notin blind =>
       /\ at[s] \in {"new", "active", "looking", "known", "context"} => Owned(builds, s) = {}
       /\ at[s] \in {"context", "recovering"} => known[s].listed
       /\ at[s] = "recovering" => Owned(builds, s) \cap known[s].ids = {}
       /\ \A b, c \in Owned(builds, s) : b = c

(* A sandbox is in the registry, or reported, or its sample was cancelled. *)
SandboxFits(s) ==
    /\ s \in sandboxes =>
          /\ at[s] \in {"cleaning", "running", "deleting", "ended", "failed", "cancelled"}
          /\ at[s] \in {"running", "deleting"} => s \in registry
          /\ at[s] = "failed" => s \in warned
          /\ at[s] = "ended" /\ task = "running" => s \in registry
          /\ at[s] = "ended" /\ task = "cleaning" => s \in todo \cup failures
          /\ at[s] = "ended" /\ task = "cleaned" => s \in failures
    /\ task # "running" => at[s] \in {"ended", "failed", "cancelled"}

(* The inductive invariant; builds that have ended have ended for good.    *)
IInv ==
    /\ InspectTypeOK
    /\ ContextInv
    /\ \A b \in old : b \in DOMAIN builds /\ Terminal(b)
    /\ \A s \in Sample : SearchFits(s) /\ OneBuild(s) /\ SandboxFits(s)

LEMMA EntryOf ==
  ASSUME NEW s \in Sample, NEW n \in 1..MaxSubmits[s]
  PROVE  <<s, n>> \in Entry
  BY SampleAssumption

(* The preparation of a sample that is in the context manager.             *)
LEMMA CurrentEntry ==
  ASSUME InspectTypeOK, NEW s \in Sample, SearchFits(s), at[s] = "context"
  PROVE  Current(s) \in Entry
  <1>1. submits[s] \in 1..MaxSubmits[s]
    BY SampleAssumption DEF InspectTypeOK, SearchFits
  <1> QED
    BY <1>1, EntryOf DEF Current

(* Whatever a sample does, its context manager does one step, or none.     *)
LEMMA NextIsContextStep == ASSUME IInv, Next PROVE ContextStep
  <1> USE DEF IInv, ContextStep
  <1>1. ASSUME NEW s \in Sample, SampleStep(s) PROVE ContextStep
    <2>1. CASE StartSubmission(s)
      <3>1. /\ submits[s] \in Nat /\ MaxSubmits[s] \in Nat
            /\ submits[s] < MaxSubmits[s]
            /\ submits'[s] = submits[s] + 1
        BY <2>1, SampleAssumption DEF StartSubmission, InspectTypeOK
      <3>2. submits'[s] \in 1..MaxSubmits[s]
        BY <3>1
      <3>3. <<s, submits'[s]>> \in Entry
        BY <3>2, EntryOf
      <3> QED
        BY <2>1, <3>3 DEF StartSubmission
    <2>2. CASE Prepare(s)
      BY <2>2, CurrentEntry DEF Prepare
    <2>3. CASE ContextFails(s) \/ Post(s)
      BY <2>3, CurrentEntry DEF ContextFails, Post, Leave
    <2>4. CASE Expire(s) \/ Cancel(s)
      BY <2>4, CurrentEntry DEF Expire, Cancel
    <2>5. CASE \/ LookForImage(s) \/ LookForBuild(s) \/ Recover(s) \/ Built(s) \/ Create(s)
               \/ CleanUpInit(s) \/ EndSample(s) \/ DeleteSample(s)
      BY <2>5 DEF LookForImage, LookForBuild, Recover, Built, Create, CleanUpInit, EndSample,
                  DeleteSample
    <2> QED
      BY <1>1, <2>1, <2>2, <2>3, <2>4, <2>5 DEF SampleStep
  <1>2. ASSUME NEW s \in Sample, DeleteLeft(s) \/ CliCleanup(s) PROVE ContextStep
    BY <1>2 DEF DeleteLeft, CliCleanup
  <1>3. CASE \E b \in DOMAIN builds : FinishBuild(b)
    BY <1>3 DEF FinishBuild
  <1>4. CASE EndTask \/ TaskCleaned \/ Done
    BY <1>4 DEF EndTask, TaskCleaned, Done, vars, contextVars
  <1> QED
    BY <1>1, <1>2, <1>3, <1>4 DEF Next

(* What a step of the sample s can do to each variable.                    *)
LEMMA Shape ==
  ASSUME InspectTypeOK, NEW s \in Sample, SampleStep(s)
  PROVE  /\ \E where \in Place : Goto(s, where)
         /\ \/ UNCHANGED buildVars
            \/ \E where \in Place : Leaves(s, where)
            \/ \E b \in Nat : /\ building' = [building EXCEPT ![s] = b]
                              /\ UNCHANGED <<submits, known>>
            \/ StartSubmission(s)
         /\ builds' = builds \/ Accepted(s)
         /\ UNCHANGED <<old, task, todo, failures>>
         /\ blind' \in {blind, blind \cup {s}}
         /\ registry' \in {registry, registry \cup {s}, registry \ {s}}
         /\ warned' \in {warned, warned \cup {s}}
         /\ sandboxes' \in {sandboxes, sandboxes \cup {s}, sandboxes \ {s}}
  <1> USE DEF Goto, Blinded, buildVars, sampleVars, taskVars, gatewayVars, Place
  <1>1. CASE LookForImage(s)
    BY <1>1 DEF LookForImage
  <1>2. CASE LookForBuild(s)
    BY <1>2 DEF LookForBuild, Newest, Active, Adopt, InspectTypeOK
  <1>3. CASE StartSubmission(s)
    BY <1>3 DEF StartSubmission
  <1>4. CASE Prepare(s)
    BY <1>4 DEF Prepare, InspectTypeOK
  <1>5. CASE ContextFails(s) \/ Expire(s)
    BY <1>5 DEF ContextFails, Expire, Leaves
  <1>6. CASE Post(s)
    BY <1>6 DEF Post, Adopt, Leaves, InspectTypeOK, Accepted
  <1>7. CASE Recover(s)
    BY <1>7 DEF Recover, Adopt, Leaves, InspectTypeOK
  <1>8. CASE Built(s)
    BY <1>8 DEF Built, Leaves
  <1>9. CASE Create(s) \/ CleanUpInit(s)
    BY <1>9 DEF Create, CleanUpInit, Deleted, DeletionFails
  <1>10. CASE Cancel(s)
    BY <1>10 DEF Cancel, Leaves, Deleted
  <1>11. CASE EndSample(s) \/ DeleteSample(s)
    BY <1>11 DEF EndSample, DeleteSample, Deleted, DeletionFails
  <1> QED
    BY <1>1, <1>2, <1>3, <1>4, <1>5, <1>6, <1>7, <1>8, <1>9, <1>10, <1>11 DEF SampleStep

LEMMA SampleTypes ==
  ASSUME InspectTypeOK, ContextInv', NEW s \in Sample, SampleStep(s)
  PROVE  InspectTypeOK'
  <1> USE DEF InspectTypeOK
  <1>1. at' \in [Sample -> Place]
    BY Shape DEF Goto
  <1>2. /\ submits' \in [Sample -> Nat] /\ \A t \in Sample : submits'[t] <= MaxSubmits[t]
        /\ known' \in [Sample -> [listed : BOOLEAN, ids : SUBSET Nat]]
        /\ building' \in [Sample -> Nat]
    <2>0. /\ \A t \in Sample : MaxSubmits[t] \in Nat /\ submits[t] \in Nat
          /\ Unlisted \in [listed : BOOLEAN, ids : SUBSET Nat]
          /\ [listed |-> TRUE, ids |-> DOMAIN builds] \in [listed : BOOLEAN, ids : SUBSET Nat]
      BY SampleAssumption DEF Unlisted
    <2>1. CASE UNCHANGED buildVars
      BY <2>1 DEF buildVars
    <2>2. CASE \E where \in Place : Leaves(s, where)
      <3>1. submits' = [submits EXCEPT ![s] = 0]
        BY <2>2 DEF Leaves
      <3>2. submits' \in [Sample -> Nat] /\ \A t \in Sample : submits'[t] <= MaxSubmits[t]
        BY <2>0, <3>1
      <3>3. /\ known' \in [Sample -> [listed : BOOLEAN, ids : SUBSET Nat]]
            /\ building' \in [Sample -> Nat]
        BY <2>0, <2>2 DEF Leaves
      <3> QED
        BY <3>2, <3>3
    <2>3. CASE \E b \in Nat : /\ building' = [building EXCEPT ![s] = b]
                              /\ UNCHANGED <<submits, known>>
      BY <2>3
    <2>4. CASE StartSubmission(s)
      <3>1. /\ submits' = [submits EXCEPT ![s] = submits[s] + 1]
            /\ submits[s] < MaxSubmits[s]
        BY <2>4 DEF StartSubmission
      <3>2. submits' \in [Sample -> Nat] /\ \A t \in Sample : submits'[t] <= MaxSubmits[t]
        BY <2>0, <3>1
      <3>3. known' \in [Sample -> [listed : BOOLEAN, ids : SUBSET Nat]]
        BY <2>4, <2>0 DEF StartSubmission
      <3> QED
        BY <2>4, <3>2, <3>3 DEF StartSubmission
    <2> QED
      BY <2>1, <2>2, <2>3, <2>4, Shape
  <1>3. /\ registry' \subseteq Sample /\ warned' \subseteq Sample
        /\ todo' \subseteq Sample /\ failures' \subseteq Sample
        /\ sandboxes' \subseteq Sample /\ blind' \subseteq Sample
    <2>1. /\ UNCHANGED <<todo, failures>>
          /\ blind' \in {blind, blind \cup {s}}
          /\ registry' \in {registry, registry \cup {s}, registry \ {s}}
          /\ warned' \in {warned, warned \cup {s}}
          /\ sandboxes' \in {sandboxes, sandboxes \cup {s}, sandboxes \ {s}}
      BY Shape
    <2> QED
      BY <2>1
  <1>4. builds' \in Seq(Build)
    <2>1. [owner |-> s, status |-> "running"] \in Build
      BY DEF Build
    <2>2. builds' = builds \/ builds' = Append(builds, [owner |-> s, status |-> "running"])
      BY Shape DEF Accepted
    <2>3. builds \in Seq(Build)
      OBVIOUS
    <2> HIDE DEF InspectTypeOK
    <2> QED
      BY <2>1, <2>2, <2>3, AppendProperties
  <1>5. task' \in {"running", "cleaning", "cleaned", "kept"}
    BY Shape
  <1> QED
    BY <1>1, <1>2, <1>3, <1>4, <1>5 DEF ContextInv

(* What a step of the sample s leaves alone, and what becomes of builds.   *)
LEMMA FrameOthers ==
  ASSUME InspectTypeOK, NEW s \in Sample, SampleStep(s), NEW t \in Sample \ {s}
  PROVE  /\ at'[t] = at[t]
         /\ submits'[t] = submits[t]
         /\ known'[t] = known[t]
         /\ building'[t] = building[t]
         /\ t \in blind' <=> t \in blind
         /\ t \in registry' <=> t \in registry
         /\ t \in warned' <=> t \in warned
         /\ t \in sandboxes' <=> t \in sandboxes
  <1>1. at'[t] = at[t]
    BY Shape DEF Goto, InspectTypeOK
  <1>2. submits'[t] = submits[t] /\ known'[t] = known[t] /\ building'[t] = building[t]
    <2>1. CASE UNCHANGED buildVars
      BY <2>1 DEF buildVars
    <2>2. CASE \E where \in Place : Leaves(s, where)
      BY <2>2 DEF Leaves, InspectTypeOK
    <2>3. CASE \E b \in Nat : /\ building' = [building EXCEPT ![s] = b]
                              /\ UNCHANGED <<submits, known>>
      BY <2>3 DEF InspectTypeOK
    <2>4. CASE StartSubmission(s)
      BY <2>4 DEF StartSubmission, InspectTypeOK
    <2> QED
      BY <2>1, <2>2, <2>3, <2>4, Shape
  <1>3. /\ t \in blind' <=> t \in blind
        /\ t \in registry' <=> t \in registry
        /\ t \in warned' <=> t \in warned
        /\ t \in sandboxes' <=> t \in sandboxes
    BY Shape
  <1> QED
    BY <1>1, <1>2, <1>3

LEMMA FrameBuilds ==
  ASSUME InspectTypeOK, NEW s \in Sample, SampleStep(s)
  PROVE  /\ \A t \in Sample \ {s} : Owned(builds', t) = Owned(builds, t)
         /\ DOMAIN builds \subseteq DOMAIN builds'
         /\ \A b \in DOMAIN builds : builds'[b] = builds[b]
         /\ \/ builds' = builds /\ Owned(builds', s) = Owned(builds, s)
            \/ Accepted(s) /\ Owned(builds', s) = Owned(builds, s) \cup {Len(builds) + 1}
  <1> USE DEF InspectTypeOK
  <1>1. CASE builds' = builds
    BY <1>1 DEF Owned
  <1>2. CASE Accepted(s)
    <2>1. /\ Len(builds') = Len(builds) + 1
          /\ \A b \in 1..Len(builds) : builds'[b] = builds[b]
          /\ builds'[Len(builds) + 1].owner = s
          /\ DOMAIN builds = 1..Len(builds) /\ DOMAIN builds' = 1..(Len(builds) + 1)
      BY <1>2 DEF Accepted
    <2>2. Owned(builds', s) = Owned(builds, s) \cup {Len(builds) + 1}
      BY <2>1 DEF Owned
    <2>3. \A t \in Sample \ {s} : Owned(builds', t) = Owned(builds, t)
      BY <2>1 DEF Owned
    <2>4. DOMAIN builds \subseteq DOMAIN builds'
      BY <2>1
    <2> QED
      BY <1>2, <2>1, <2>2, <2>3, <2>4
  <1>3. builds' = builds \/ Accepted(s)
    BY Shape
  <1> QED
    BY <1>1, <1>2, <1>3

(* A step of a sample keeps its own part of the invariant.                 *)
LEMMA OwnPart ==
  ASSUME IInv, NEW s \in Sample, SampleStep(s)
  PROVE  SearchFits(s)' /\ OneBuild(s)' /\ SandboxFits(s)'
  <1>t. /\ InspectTypeOK
        /\ \A b \in old : b \in DOMAIN builds /\ Terminal(b)
        /\ SearchFits(s) /\ OneBuild(s) /\ SandboxFits(s)
    BY DEF IInv
  <1>b. /\ DOMAIN builds \subseteq DOMAIN builds'
        /\ \/ builds' = builds /\ Owned(builds', s) = Owned(builds, s)
           \/ Accepted(s) /\ Owned(builds', s) = Owned(builds, s) \cup {Len(builds) + 1}
    BY <1>t, FrameBuilds
  <1>d. builds \in Seq(Build) /\ DOMAIN builds = 1..Len(builds) /\ Len(builds) \in Nat
    BY <1>t DEF InspectTypeOK
  <1> USE DEF Goto, Blinded, buildVars, sampleVars, taskVars, gatewayVars
  <1>1. CASE LookForImage(s)
    <2> USE <1>1 DEF LookForImage
    <2>1. SearchFits(s)'
      BY <1>t, <1>b, <1>d DEF SearchFits, InspectTypeOK
    <2>2. OneBuild(s)'
      BY <1>t, <1>b, <1>d DEF OneBuild, InspectTypeOK
    <2>3. SandboxFits(s)'
      BY <1>t DEF SandboxFits, InspectTypeOK
    <2> QED
      BY <2>1, <2>2, <2>3
  <1>2. CASE LookForBuild(s)
    <2> USE <1>2 DEF LookForBuild, Adopt, Active, Newest, Terminal
    <2>1. SearchFits(s)'
      BY <1>t, <1>b, <1>d DEF SearchFits, InspectTypeOK
    <2>2. OneBuild(s)'
      BY <1>t, <1>b, <1>d DEF OneBuild, InspectTypeOK
    <2>3. SandboxFits(s)'
      BY <1>t DEF SandboxFits, InspectTypeOK
    <2> QED
      BY <2>1, <2>2, <2>3
  <1>3. CASE Prepare(s)
    <2> USE <1>3 DEF Prepare
    <2>1. SearchFits(s)'
      BY <1>t, <1>b, <1>d DEF SearchFits, InspectTypeOK
    <2>2. OneBuild(s)'
      BY <1>t, <1>b, <1>d DEF OneBuild, InspectTypeOK
    <2>3. SandboxFits(s)'
      BY <1>t DEF SandboxFits, InspectTypeOK
    <2> QED
      BY <2>1, <2>2, <2>3
  <1>4. CASE ContextFails(s) \/ Expire(s)
    <2> USE <1>4 DEF ContextFails, Expire, Leaves, Unlisted
    <2>1. SearchFits(s)'
      BY <1>t, <1>b, <1>d DEF SearchFits, InspectTypeOK
    <2>2. OneBuild(s)'
      BY <1>t, <1>b, <1>d DEF OneBuild, InspectTypeOK
    <2>3. SandboxFits(s)'
      BY <1>t DEF SandboxFits, InspectTypeOK
    <2> QED
      BY <2>1, <2>2, <2>3
  <1>5. CASE Built(s)
    <2> USE <1>5 DEF Built, Leaves, Unlisted
    <2>1. SearchFits(s)'
      BY <1>t, <1>b, <1>d DEF SearchFits, InspectTypeOK
    <2>2. OneBuild(s)'
      BY <1>t, <1>b, <1>d DEF OneBuild, InspectTypeOK
    <2>3. SandboxFits(s)'
      BY <1>t DEF SandboxFits, InspectTypeOK
    <2> QED
      BY <2>1, <2>2, <2>3
  <1>6. CASE Create(s) \/ CleanUpInit(s)
    <2> USE <1>6 DEF Create, CleanUpInit, Deleted, DeletionFails
    <2>1. SearchFits(s)'
      BY <1>t, <1>b, <1>d DEF SearchFits, InspectTypeOK
    <2>2. OneBuild(s)'
      BY <1>t, <1>b, <1>d DEF OneBuild, InspectTypeOK
    <2>3. SandboxFits(s)'
      BY <1>t DEF SandboxFits, InspectTypeOK
    <2> QED
      BY <2>1, <2>2, <2>3
  <1>7. CASE EndSample(s) \/ DeleteSample(s)
    <2> USE <1>7 DEF EndSample, DeleteSample, Deleted, DeletionFails
    <2>1. SearchFits(s)'
      BY <1>t, <1>b, <1>d DEF SearchFits, InspectTypeOK
    <2>2. OneBuild(s)'
      BY <1>t, <1>b, <1>d DEF OneBuild, InspectTypeOK
    <2>3. SandboxFits(s)'
      BY <1>t DEF SandboxFits, InspectTypeOK
    <2> QED
      BY <2>1, <2>2, <2>3
  <1>8. CASE StartSubmission(s)
    <2> USE <1>8 DEF StartSubmission, Unlisted
    <2>1. SearchFits(s)'
      BY <1>t, <1>b, <1>d DEF SearchFits, InspectTypeOK
    <2>2. OneBuild(s)'
      BY <1>t, <1>b, <1>d DEF OneBuild, InspectTypeOK
    <2>3. SandboxFits(s)'
      BY <1>t DEF SandboxFits, InspectTypeOK
    <2> QED
      BY <2>1, <2>2, <2>3
  <1>9. CASE Post(s)
    <2> USE <1>9 DEF Post, Accepted, Adopt, Leaves, Unlisted
    <2>1. SearchFits(s)'
      BY <1>t, <1>b, <1>d DEF SearchFits, InspectTypeOK
    <2>2. OneBuild(s)'
      <3> SUFFICES ASSUME s \notin blind PROVE OneBuild(s)'
        BY DEF OneBuild
      <3>1. Owned(builds, s) = {} /\ known[s].listed
        BY <1>t DEF OneBuild
      <3>2. Owned(builds', s) \subseteq {Len(builds) + 1}
        BY <1>b, <3>1
      <3>3. known[s].ids \subseteq 1..Len(builds)
        BY <1>t, <1>d DEF SearchFits
      <3>4. Owned(builds', s) \cap known[s].ids = {}
        BY <1>d, <3>2, <3>3
      <3>5. at'[s] = "recovering" => known' = known
        BY DEF InspectTypeOK, IInv
      <3>6. at'[s] = "looking" => builds' = builds
        BY DEF InspectTypeOK, IInv
      <3>7. at'[s] \in {"building", "cleaning", "looking", "recovering"}
        BY DEF InspectTypeOK, IInv
      <3> QED
        BY <3>1, <3>2, <3>4, <3>5, <3>6, <3>7 DEF OneBuild
    <2>3. SandboxFits(s)'
      BY <1>t DEF SandboxFits, InspectTypeOK
    <2> QED
      BY <2>1, <2>2, <2>3
  <1>10. CASE Recover(s)
    <2> USE <1>10 DEF Recover, Adopt, Leaves, Unlisted, Matches, Terminal
    <2>1. SearchFits(s)'
      BY <1>t, <1>b, <1>d DEF SearchFits, InspectTypeOK
    <2>2. OneBuild(s)'
      <3> SUFFICES ASSUME s \notin blind' PROVE OneBuild(s)'
        BY DEF OneBuild
      <3>1. /\ known[s].listed
            /\ Owned(builds, s) \cap known[s].ids = {}
            /\ \A b, c \in Owned(builds, s) : b = c
        BY <1>t DEF OneBuild
      <3>2. builds' = builds
        OBVIOUS
      <3>3. CASE Len(builds) \in DOMAIN builds /\ Matches(s, Len(builds))
        <4>1. at'[s] = "building"
          BY <1>t, <3>3 DEF InspectTypeOK
        <4> QED
          BY <3>1, <3>2, <4>1 DEF OneBuild
      <3>4. CASE ~(Len(builds) \in DOMAIN builds /\ Matches(s, Len(builds)))
        <4>1. at'[s] = "looking" /\ known' = known
          BY <1>t, <3>4 DEF InspectTypeOK
        <4>2. ASSUME NEW b \in Owned(builds, s) PROVE FALSE
          <5>1. b \in 1..Len(builds) /\ Len(builds) \in 1..Len(builds)
            BY <1>d DEF Owned
          <5>2. Len(builds) \in known[s].ids
            BY <1>d, <3>1, <3>4, <5>1
          <5>3. b \in known[s].ids
            BY <1>t, <5>1, <5>2 DEF SearchFits
          <5> QED
            BY <3>1, <5>3
        <4> QED
          BY <3>2, <4>1, <4>2 DEF OneBuild
      <3> QED
        BY <3>3, <3>4
    <2>3. SandboxFits(s)'
      BY <1>t DEF SandboxFits, InspectTypeOK
    <2> QED
      BY <2>1, <2>2, <2>3
  <1>11. CASE Cancel(s)
    <2> USE <1>11 DEF Cancel, Accepted, Deleted, Leaves, Unlisted
    <2>1. SearchFits(s)'
      BY <1>t, <1>b, <1>d DEF SearchFits, InspectTypeOK
    <2>2. OneBuild(s)'
      BY <1>t, <1>b, <1>d DEF OneBuild, InspectTypeOK
    <2>3. SandboxFits(s)'
      BY <1>t DEF SandboxFits, InspectTypeOK
    <2> QED
      BY <2>1, <2>2, <2>3
  <1> QED
    BY <1>1, <1>2, <1>3, <1>4, <1>5, <1>6, <1>7, <1>8, <1>9, <1>10, <1>11 DEF SampleStep

(* A step of the sample s keeps the invariant.                             *)
LEMMA SampleStepInv ==
  ASSUME IInv, ContextInv', NEW s \in Sample, SampleStep(s)
  PROVE  IInv'
  <1>1. InspectTypeOK'
    BY SampleTypes DEF IInv
  <1>2. /\ \A t \in Sample \ {s} : Owned(builds', t) = Owned(builds, t)
        /\ DOMAIN builds \subseteq DOMAIN builds'
        /\ \A b \in DOMAIN builds : builds'[b] = builds[b]
        /\ UNCHANGED <<old, task, todo, failures>>
    BY FrameBuilds, Shape DEF IInv
  <1>3. \A b \in old' : b \in DOMAIN builds' /\ Terminal(b)'
    BY <1>2 DEF IInv, Terminal
  <1>4. ASSUME NEW t \in Sample \ {s}
        PROVE  SearchFits(t)' /\ OneBuild(t)' /\ SandboxFits(t)'
    <2>1. /\ at'[t] = at[t]
          /\ submits'[t] = submits[t]
          /\ known'[t] = known[t]
          /\ building'[t] = building[t]
          /\ t \in blind' <=> t \in blind
          /\ t \in registry' <=> t \in registry
          /\ t \in warned' <=> t \in warned
          /\ t \in sandboxes' <=> t \in sandboxes
      BY FrameOthers DEF IInv
    <2>2. SearchFits(t) /\ OneBuild(t) /\ SandboxFits(t)
      BY DEF IInv
    <2>3. SearchFits(t)'
      BY <1>2, <2>1, <2>2 DEF SearchFits
    <2>4. OneBuild(t)'
      BY <1>2, <2>1, <2>2 DEF OneBuild
    <2>5. SandboxFits(t)'
      BY <1>2, <2>1, <2>2 DEF SandboxFits
    <2> QED
      BY <2>3, <2>4, <2>5
  <1> QED
    BY <1>1, <1>3, <1>4, OwnPart DEF IInv

(* So do the clean-ups, the gateway and what runs in the background.       *)
LEMMA TaskStepInv ==
  ASSUME IInv, ContextInv',
         \/ \E s \in Sample : DeleteLeft(s) \/ CliCleanup(s)
         \/ EndTask \/ TaskCleaned
  PROVE  IInv'
  <1>1. /\ UNCHANGED <<sampleVars, warned, builds, blind, old>>
        /\ sandboxes' \subseteq sandboxes
    BY DEF DeleteLeft, CliCleanup, EndTask, TaskCleaned, DeleteLeftFails, DeletionFails,
           Deleted, sampleVars, taskVars, gatewayVars
  <1>2. InspectTypeOK'
    <2>1. /\ registry' \subseteq Sample /\ todo' \subseteq Sample /\ failures' \subseteq Sample
          /\ sandboxes' \subseteq Sample /\ warned' \subseteq Sample /\ blind' \subseteq Sample
      BY <1>1 DEF IInv, InspectTypeOK, DeleteLeft, CliCleanup, EndTask, TaskCleaned,
                  DeleteLeftFails, taskVars
    <2>2. task' \in {"running", "cleaning", "cleaned", "kept"}
      BY DEF IInv, InspectTypeOK, DeleteLeft, CliCleanup, EndTask, TaskCleaned, taskVars
    <2> QED
      BY <1>1, <2>1, <2>2 DEF IInv, InspectTypeOK, ContextInv, sampleVars, buildVars
  <1>3. \A b \in old' : b \in DOMAIN builds' /\ Terminal(b)'
    BY <1>1 DEF IInv, Terminal
  <1>4. ASSUME NEW t \in Sample PROVE SearchFits(t)' /\ OneBuild(t)'
    BY <1>1 DEF IInv, SearchFits, OneBuild, sampleVars, buildVars
  <1>5. ASSUME NEW t \in Sample PROVE SandboxFits(t)'
    <2>1. SandboxFits(t)
      BY DEF IInv
    <2>2. ASSUME NEW s \in Sample, DeleteLeft(s) PROVE SandboxFits(t)'
      BY <2>1, <2>2 DEF SandboxFits, DeleteLeft, DeleteLeftFails, Deleted, DeletionFails,
                        sampleVars
    <2>3. ASSUME NEW s \in Sample, CliCleanup(s) PROVE SandboxFits(t)'
      BY <2>1, <2>3 DEF SandboxFits, CliCleanup, Deleted, sampleVars, taskVars
    <2>4. CASE EndTask
      BY <2>1, <2>4 DEF SandboxFits, EndTask, sampleVars, gatewayVars
    <2>5. CASE TaskCleaned
      BY <2>1, <2>5 DEF SandboxFits, TaskCleaned, sampleVars, gatewayVars
    <2> QED
      BY <2>2, <2>3, <2>4, <2>5
  <1> QED
    BY <1>2, <1>3, <1>4, <1>5 DEF IInv

LEMMA FinishBuildInv ==
  ASSUME IInv, ContextInv', NEW b \in DOMAIN builds, FinishBuild(b)
  PROVE  IInv'
  <1>1. PICK end \in {"succeeded", "failed"} : builds' = [builds EXCEPT ![b].status = end]
    BY DEF FinishBuild
  <1>2. UNCHANGED <<sampleVars, taskVars, sandboxes, blind, old>>
    BY DEF FinishBuild
  <1>3. builds \in Seq(Build) /\ builds[b] \in Build
    BY DEF IInv, InspectTypeOK
  <1>4. [builds[b] EXCEPT !.status = end] \in Build
    BY <1>3 DEF Build
  <1>5. builds' = [builds EXCEPT ![b] = [builds[b] EXCEPT !.status = end]]
    BY <1>1
  <1>6. builds' \in Seq(Build) /\ DOMAIN builds' = DOMAIN builds
    BY <1>3, <1>4, <1>5, ExceptSeq
  <1>7. \A c \in DOMAIN builds : builds'[c].owner = builds[c].owner
    BY <1>3, <1>5 DEF Build
  <1>8. \A c \in DOMAIN builds : Terminal(c) => Terminal(c)'
    BY <1>3, <1>5 DEF Terminal, Build
  <1>9. \A t \in Sample : Owned(builds', t) = Owned(builds, t)
    BY <1>6, <1>7 DEF Owned
  <1>10. InspectTypeOK'
    BY <1>2, <1>6 DEF IInv, InspectTypeOK, ContextInv, sampleVars, buildVars, taskVars
  <1>11. \A c \in old' : c \in DOMAIN builds' /\ Terminal(c)'
    BY <1>2, <1>6, <1>8 DEF IInv
  <1>12. ASSUME NEW t \in Sample PROVE SearchFits(t)' /\ OneBuild(t)' /\ SandboxFits(t)'
    BY <1>2, <1>6, <1>9
    DEF IInv, SearchFits, OneBuild, SandboxFits, sampleVars, buildVars, taskVars
  <1> QED
    BY <1>10, <1>11, <1>12 DEF IInv

LEMMA QuietInv ==
  ASSUME IInv, ContextInv', UNCHANGED <<sampleVars, taskVars, gatewayVars>>
  PROVE  IInv'
  <1> USE DEF sampleVars, buildVars, taskVars, gatewayVars
  <1>1. InspectTypeOK'
    BY DEF IInv, InspectTypeOK, ContextInv
  <1>2. \A b \in old' : b \in DOMAIN builds' /\ Terminal(b)'
    BY DEF IInv, Terminal
  <1>3. ASSUME NEW t \in Sample PROVE SearchFits(t)' /\ OneBuild(t)' /\ SandboxFits(t)'
    BY DEF IInv, SearchFits, OneBuild, SandboxFits
  <1> QED
    BY <1>1, <1>2, <1>3 DEF IInv

LEMMA StepIInv == IInv /\ [Next]_vars => IInv'
  <1> SUFFICES ASSUME IInv, [Next]_vars PROVE IInv'
    OBVIOUS
  <1>1. CASE UNCHANGED vars
    <2>1. ContextInv'
      BY <1>1, ContextStepInv DEF IInv, ContextStep, vars
    <2> QED
      BY <1>1, <2>1, QuietInv DEF vars
  <1>2. CASE Next
    <2>1. ContextInv'
      BY <1>2, NextIsContextStep, ContextStepInv DEF IInv
    <2> QED
      BY <1>1, <1>2, <2>1, SampleStepInv, TaskStepInv, FinishBuildInv, QuietInv DEF Next, Done
  <1> QED
    BY <1>1, <1>2

LEMMA InitIInv == Init => IInv
  <1> SUFFICES ASSUME Init PROVE IInv
    OBVIOUS
  <1>1. ContextInv
    BY ContextInitInv DEF Init
  <1>2. builds \in Seq(Build) /\ \A b \in DOMAIN builds : Terminal(b) /\ builds[b].owner = None
    <2>1. CASE builds = <<>>
      BY <2>1
    <2>2. CASE builds = <<[owner |-> None, status |-> "failed"]>>
      BY <2>2 DEF Build, Terminal
    <2> QED
      BY <2>1, <2>2 DEF Init
  <1>3. InspectTypeOK
    BY <1>1, <1>2, SampleAssumption DEF Init, InspectTypeOK, ContextInv, Place, Unlisted
  <1>4. ASSUME NEW s \in Sample PROVE SearchFits(s) /\ OneBuild(s) /\ SandboxFits(s)
    <2>1. Owned(builds, s) = {}
      BY <1>2, SampleAssumption DEF Owned
    <2> QED
      BY <2>1 DEF Init, SearchFits, OneBuild, SandboxFits, Unlisted
  <1> QED
    BY <1>1, <1>2, <1>3, <1>4 DEF IInv, Init

(* The invariant holds in every behaviour.                                 *)
THEOREM Invariant == Spec => []IInv
  BY InitIInv, StepIInv, PTL DEF Spec

(* Every variable keeps its type; in particular no more places of the      *)
(* semaphore are free, or on their way back, than there are.               *)
THEOREM TypeCorrect == Spec => []InspectTypeOK
  <1>1. IInv => InspectTypeOK
    BY DEF IInv
  <1> QED
    BY Invariant, <1>1, PTL

(* _async_image_build_request gives each place of the semaphore back once, *)
(* wherever its caller is cancelled and however the work on the executor   *)
(* ends.                                                                   *)
THEOREM NoPlaceLost == Spec => []PlacesReturned
  <1>1. IInv => PlacesReturned
    BY DEF IInv, ContextInv
  <1> QED
    BY Invariant, <1>1, PTL

(* The archive of a build context is open while it is used, and closed by  *)
(* the caller or by the thread, whoever of the two is the last to have it. *)
THEOREM NoArchiveLost == Spec => []ArchiveOwned
  <1>1. IInv => ArchiveOwned
    BY DEF IInv, ContextInv
  <1> QED
    BY Invariant, <1>1, PTL

(* _build_image_with_wait never takes the end of an earlier build for the  *)
(* end of its own, and submits a second build only if a look for the first *)
(* one failed.                                                             *)
THEOREM NoWrongBuild == Spec => []RightBuild
  <1>1. ASSUME IInv, NEW s \in Sample, at[s] = "building" PROVE building[s] \notin old
    BY <1>1 DEF IInv, SearchFits
  <1>2. ASSUME IInv, NEW s \in Sample \ blind
        PROVE  Cardinality({b \in DOMAIN builds : builds[b].owner = s}) <= 1
    <2>1. \A b, c \in Owned(builds, s) : b = c
      BY <1>2 DEF IInv, OneBuild
    <2>2. CASE Owned(builds, s) = {}
      BY <2>2, FS_EmptySet DEF Owned
    <2>3. CASE Owned(builds, s) # {}
      <3>1. PICK b : Owned(builds, s) = {b}
        BY <2>1, <2>3
      <3>2. Cardinality({b}) = 1
        BY FS_Singleton
      <3> QED
        BY <3>1, <3>2 DEF Owned
    <2> QED
      BY <2>2, <2>3
  <1>3. IInv => RightBuild
    BY <1>1, <1>2 DEF RightBuild
  <1> QED
    BY Invariant, <1>3, PTL

(* After task_cleanup a sandbox is left only where somebody was told, or   *)
(* where the initialisation of its sample was cancelled.                   *)
THEOREM NoSandboxForgotten == Spec => []NothingForgotten
  <1>1. IInv => NothingForgotten
    <2> SUFFICES ASSUME IInv, task = "cleaned", NEW s \in sandboxes
                 PROVE  s \in warned \cup failures \cup {t \in Sample : at[t] = "cancelled"}
      BY DEF NothingForgotten
    <2>1. s \in Sample
      BY DEF IInv, InspectTypeOK
    <2>2. SandboxFits(s)
      BY <2>1 DEF IInv
    <2> QED
      BY <2>1, <2>2 DEF SandboxFits
  <1> QED
    BY Invariant, <1>1, PTL
=============================================================================

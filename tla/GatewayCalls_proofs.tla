-------------------------- MODULE GatewayCalls_proofs --------------------------
(***************************************************************************)
(* Proofs about the calls of the gateway.                                  *)
(*                                                                         *)
(* Requests (RequestRetry), for any number of requests of any kinds over   *)
(* any number of connections: a mutation that is not idempotent takes      *)
(* effect at most once, and no request reads the answer of another.        *)
(*                                                                         *)
(* Group creation (GroupCreate), for every finite group and every          *)
(* deadline: whatever the gateway answers and loses, and whoever deletes   *)
(* members meanwhile, what the call returns or raises names every member   *)
(* it was shown.                                                           *)
(***************************************************************************)
EXTENDS RequestRetry, GroupCreate, SequenceTheorems, TLAPS

Pool == {idle[i] : i \in 1..Len(idle)}

(* A connection carries one request or its answer, and what both ends have *)
(* closed, or the gateway has, carries nothing; one that only the client   *)
(* has closed is remembered for the request on it.                         *)
ConnFits(c) ==
    /\ pending[c] # <<>> => \E r \in Request : pending[c] = <<r>>
    /\ wire[c] # <<>> => pending[c] = <<>> /\ peer[c] = "open"
    /\ peer[c] \in {"none", "dropped"} => pending[c] = <<>>
    /\ peer[c] = "ghost" => pending[c] # <<>>

(* A request that awaits its answer has a connection of its own, which     *)
(* carries it or its answer until the gateway drops it.                    *)
UseFits(r) ==
    /\ at[r] = "sent" <=> conn[r] # None
    /\ conn[r] # None =>
          /\ conn[r] \notin Pool
          /\ \A q \in Request \ {r} : conn[q] # conn[r]
          /\ \/ peer[conn[r]] = "dropped"
             \/ peer[conn[r]] = "open" /\ pending[conn[r]] = <<r>>
             \/ /\ peer[conn[r]] = "open" /\ pending[conn[r]] = <<>>
                /\ \E s \in Status : wire[conn[r]] = <<[to |-> r, status |-> s]>>

(* Each idle connection is in the pool once, and nothing is on it.         *)
PoolFits ==
    /\ \A i, j \in 1..Len(idle) : idle[i] = idle[j] => i = j
    /\ \A c \in Pool : /\ peer[c] \in {"open", "dropped"}
                       /\ pending[c] = <<>> /\ wire[c] = <<>>

(* A mutation that is not idempotent is under way once at most, and not at *)
(* all once it took effect.  It is sent only while it had no effect: what  *)
(* leads to a repetition is a refused connection or a fence.               *)
MutationFits(r) ==
    Kind(r) \in {"operation", "other"} =>
       /\ applied[r] <= 1
       /\ \A c \in Conn : pending[c] = <<r>> => applied[r] = 0
       /\ \A c, d \in Conn : pending[c] = <<r>> /\ pending[d] = <<r>> => c = d
       /\ at[r] \in {"idle", "connecting", "sleeping"} =>
             applied[r] = 0 /\ \A c \in Conn : pending[c] # <<r>>
       /\ conn[r] # None =>
             /\ \A c \in Conn : pending[c] = <<r>> => c = conn[r]
             /\ wire[conn[r]] = <<[to |-> r, status |-> "fence"]>> => applied[r] = 0

(* The inductive invariant.                                                *)
IInv ==
    /\ TypeOK
    /\ \A c \in Conn : ConnFits(c)
    /\ \A r \in Request : UseFits(r)
    /\ PoolFits
    /\ \A r \in Request : MutationFits(r)
    /\ OwnAnswer
-----------------------------------------------------------------------------
(* Short sequences.                                                        *)

LEMMA Singles ==
  ASSUME NEW S, NEW x \in S, NEW y \in S
  PROVE  /\ <<x>> # <<>>
         /\ <<x>> = <<y>> => x = y
         /\ Head(<<x>>) = x /\ Tail(<<x>>) = <<>>
         /\ Append(<<>>, x) = <<x>>
         /\ <<x>> \in Seq(S) /\ <<>> \in Seq(S)
  OBVIOUS

(* The connections below the i-th one of the pool, when those from the     *)
(* i-th on are taken out of it.                                            *)
LEMMA Splits ==
  ASSUME TypeOK, PoolFits, NEW i \in 1..Len(idle)
  PROVE  /\ SubSeq(idle, 1, i - 1) \in Seq(Conn)
         /\ Len(SubSeq(idle, 1, i - 1)) = i - 1
         /\ i - 1 <= MaxIdle
         /\ \A j \in 1..(i - 1) : SubSeq(idle, 1, i - 1)[j] = idle[j]
         /\ 1..(i - 1) \subseteq 1..Len(idle)
         /\ idle[i] \in Pool /\ idle[i] \notin From(i + 1)
         /\ From(i + 1) \subseteq Pool
         /\ \A j \in 1..(i - 1) : idle[j] # idle[i] /\ idle[j] \notin From(i + 1)
  <1>1. idle \in Seq(Conn) /\ Len(idle) \in Nat /\ i \in Nat /\ i - 1 \in 0..Len(idle)
    BY DEF TypeOK
  <1>2. /\ SubSeq(idle, 1, i - 1) \in Seq(Conn)
        /\ Len(SubSeq(idle, 1, i - 1)) = i - 1
        /\ \A j \in 1..(i - 1) : SubSeq(idle, 1, i - 1)[j] = idle[j]
    BY <1>1
  <1>3. i - 1 <= MaxIdle
    BY <1>1, LimitAssumption DEF TypeOK
  <1>4. /\ 1..(i - 1) \subseteq 1..Len(idle)
        /\ (i + 1)..Len(idle) \subseteq 1..Len(idle)
        /\ i \notin (i + 1)..Len(idle) /\ i \notin 1..(i - 1)
        /\ \A j \in 1..(i - 1) : j \notin (i + 1)..Len(idle)
    BY <1>1
  <1>5. \A j, k \in 1..Len(idle) : idle[j] = idle[k] => j = k
    BY DEF PoolFits
  <1> QED
    BY <1>2, <1>3, <1>4, <1>5 DEF Pool, From

LEMMA WholePool == From(1) = Pool
  BY DEF From, Pool

(* A connection that a request uses is one of the connections.             *)
LEMMA Uses ==
  ASSUME TypeOK
  PROVE  /\ \A r \in Request : conn[r] # None => conn[r] \in Conn
         /\ Pool \subseteq Conn
  BY DEF TypeOK, Pool
-----------------------------------------------------------------------------
LEMMA InitIInv == Init => IInv
  <1> SUFFICES ASSUME Init PROVE IInv
    OBVIOUS
  <1> USE DEF Init
  <1>1. TypeOK
    <2>1. Deadline \in 0..Deadline /\ MaxAttempt \in Nat /\ 0 \in 0..MaxAttempt
      BY LimitAssumption DEF MaxAttempt
    <2>2. 0 \in 0..MaxApplied
      BY DEF MaxApplied
    <2>3. idle \in Seq(Conn) /\ Len(idle) <= MaxIdle
      BY LimitAssumption
    <2>4. <<>> \in Seq(Request) /\ <<>> \in Seq([to : Request, status : Status])
      OBVIOUS
    <2> QED
      BY <2>1, <2>2, <2>3, <2>4 DEF TypeOK, Place, Peer
  <1>2. \A c \in Conn : ConnFits(c)
    BY DEF ConnFits
  <1>3. \A r \in Request : UseFits(r) /\ MutationFits(r)
    <2> TAKE r \in Request
    <2>1. <<r>> # <<>>
      OBVIOUS
    <2>2. UseFits(r)
      BY DEF UseFits
    <2>3. MutationFits(r)
      BY <2>1 DEF MutationFits
    <2> QED
      BY <2>2, <2>3
  <1>4. PoolFits
    BY DEF PoolFits, Pool
  <1>5. OwnAnswer
    BY DEF OwnAnswer
  <1> QED
    BY <1>1, <1>2, <1>3, <1>4, <1>5 DEF IInv
-----------------------------------------------------------------------------
(* The type of every variable, by what the actions have in common.         *)
Answers == [to : Request, status : Status]

LEMMA CloseAllType ==
  ASSUME TypeOK, NEW closed, CloseAll(closed)
  PROVE  peer' \in [Conn -> Peer] /\ wire' \in [Conn -> Seq(Answers)]
  <1>1. peer' \in [Conn -> Peer]
    BY DEF TypeOK, CloseAll, Peer
  <1>2. <<>> \in Seq(Answers)
    OBVIOUS
  <1>3. \A c \in Conn : wire[c] \in Seq(Answers)
    BY DEF TypeOK, Answers
  <1> HIDE DEF Answers
  <1>4. wire' \in [Conn -> Seq(Answers)]
    BY <1>2, <1>3 DEF CloseAll
  <1> QED
    BY <1>1, <1>4

LEMMA GiveOrCloseType ==
  ASSUME TypeOK, NEW r \in Request, conn[r] \in Conn, NEW complete \in BOOLEAN,
         complete => wire[conn[r]] # <<>>, GiveOrClose(r, complete)
  PROVE  /\ conn' \in [Request -> Conn \cup {None}]
         /\ reused' \in [Request -> BOOLEAN]
         /\ idle' \in Seq(Conn) /\ Len(idle') <= MaxIdle
         /\ peer' \in [Conn -> Peer]
         /\ wire' \in [Conn -> Seq(Answers)]
  <1>1. conn' \in [Request -> Conn \cup {None}] /\ reused' \in [Request -> BOOLEAN]
    BY DEF GiveOrClose, TypeOK
  <1>2. CASE CloseAll({conn[r]}) /\ UNCHANGED idle
    BY <1>1, <1>2, CloseAllType DEF TypeOK
  <1>3. CASE /\ complete /\ Len(idle) < MaxIdle
             /\ idle' = Append(idle, conn[r])
             /\ wire' = [wire EXCEPT ![conn[r]] = Tail(@)]
             /\ UNCHANGED peer
    <2>1. idle' \in Seq(Conn) /\ Len(idle') <= MaxIdle
      <3>1. idle \in Seq(Conn) /\ Len(idle) \in Nat /\ MaxIdle \in Nat
        BY LimitAssumption DEF TypeOK
      <3>2. idle' \in Seq(Conn) /\ Len(idle') = Len(idle) + 1
        BY <1>3, <3>1
      <3> QED
        BY <1>3, <3>1, <3>2
    <2>2. Tail(wire[conn[r]]) \in Seq(Answers)
      <3>1. wire[conn[r]] \in Seq(Answers) /\ wire[conn[r]] # <<>>
        BY <1>3 DEF TypeOK, Answers
      <3> HIDE DEF Answers
      <3> QED
        BY <3>1
    <2>3. wire' \in [Conn -> Seq(Answers)]
      BY <1>3, <2>2 DEF TypeOK, Answers
    <2> QED
      BY <1>1, <1>3, <2>1, <2>3 DEF TypeOK
  <1> QED
    BY <1>2, <1>3 DEF GiveOrClose

LEMMA EndsType ==
  ASSUME TypeOK, NEW r \in Request, NEW how \in Ended, Ends(r, how)
  PROVE  /\ at' \in [Request -> Place]
         /\ attempt' \in [Request -> 0..MaxAttempt]
         /\ left' \in [Request -> 0..Deadline]
  <1>1. how \in Place
    BY DEF Place
  <1>2. 0 \in 0..MaxAttempt /\ 0 \in 0..Deadline
    BY LimitAssumption DEF MaxAttempt
  <1> QED
    BY <1>1, <1>2 DEF Ends, TypeOK

LEMMA SleepOrRaiseType ==
  ASSUME TypeOK, NEW r \in Request, SleepOrRaise(r)
  PROVE  /\ at' \in [Request -> Place]
         /\ attempt' \in [Request -> 0..MaxAttempt]
         /\ left' \in [Request -> 0..Deadline]
  <1>1. CASE left[r] > 1
    <2>1. left[r] \in 0..Deadline /\ left[r] - 1 \in 0..Deadline
      BY <1>1, LimitAssumption DEF TypeOK
    <2> QED
      BY <1>1, <2>1 DEF SleepOrRaise, TypeOK, Place
  <1>2. CASE ~(left[r] > 1)
    BY <1>2, EndsType DEF SleepOrRaise, Ended
  <1> QED
    BY <1>1, <1>2
LEMMA TypeStep == IInv /\ [Next]_vars => TypeOK'
  <1> SUFFICES ASSUME IInv, [Next]_vars PROVE TypeOK'
    OBVIOUS
  <1>t. TypeOK
    BY DEF IInv
  <1>u. \A r \in Request : at[r] = "sent" => conn[r] \in Conn
    BY Uses DEF IInv, TypeOK, UseFits
  <1>e. {"ok", "failed", "exhausted", "timeout"} \subseteq Ended
    BY DEF Ended
  <1>p. {"sent", "connecting", "sleeping"} \subseteq Place
    BY DEF Place
  <1>n. <<>> \in Seq(Conn) /\ Len(<<>>) <= MaxIdle
    BY LimitAssumption
  <1>1. ASSUME NEW r \in Request, Take(r) PROVE TypeOK'
    <2>1. PICK i \in 1..Len(idle) :
             /\ idle' = SubSeq(idle, 1, i - 1)
             /\ conn' = [conn EXCEPT ![r] = idle[i]]
             /\ CloseAll(From(i + 1))
             /\ pending' = [pending EXCEPT ![idle[i]] = Append(@, r)]
      BY <1>1 DEF Take
    <2>2. idle[i] \in Conn /\ idle' \in Seq(Conn) /\ Len(idle') <= MaxIdle
      <3>1. idle \in Seq(Conn) /\ PoolFits
        BY <1>t DEF IInv, TypeOK
      <3>2. idle[i] \in Conn
        BY <3>1
      <3> QED
        BY <1>t, <2>1, <3>1, <3>2, Splits
    <2>3. Append(pending[idle[i]], r) \in Seq(Request)
      BY <1>t, <2>2 DEF TypeOK
    <2>4. conn' \in [Request -> Conn \cup {None}] /\ pending' \in [Conn -> Seq(Request)]
      BY <1>t, <2>1, <2>2, <2>3 DEF TypeOK
    <2>5. peer' \in [Conn -> Peer] /\ wire' \in [Conn -> Seq(Answers)]
      BY <1>t, <2>1, CloseAllType
    <2>6. at' \in [Request -> Place] /\ reused' \in [Request -> BOOLEAN]
      BY <1>t, <1>p, <1>1 DEF Take, TypeOK
    <2> QED
      BY <1>t, <1>1, <2>2, <2>4, <2>5, <2>6 DEF Take, TypeOK, Answers
  <1>2. ASSUME NEW r \in Request, Connect(r) PROVE TypeOK'
    <2>1. PICK c \in Conn :
             /\ conn' = [conn EXCEPT ![r] = c]
             /\ pending' = [pending EXCEPT ![c] = <<r>>]
             /\ peer' = [d \in Conn |->
                            IF d = c THEN "open"
                            ELSE IF d \in Retired(r) THEN "none"
                            ELSE peer[d]]
      BY <1>2 DEF Connect
    <2>2. conn' \in [Request -> Conn \cup {None}] /\ pending' \in [Conn -> Seq(Request)]
      BY <1>t, <2>1 DEF TypeOK
    <2>3. peer' \in [Conn -> Peer]
      BY <1>t, <2>1 DEF TypeOK, Peer
    <2>4. wire' \in [Conn -> Seq(Answers)]
      <3>1. \A d \in Conn : wire[d] \in Seq(Answers)
        BY <1>t DEF TypeOK, Answers
      <3>2. <<>> \in Seq(Answers)
        OBVIOUS
      <3> HIDE DEF Answers
      <3> QED
        BY <1>2, <3>1, <3>2 DEF Connect
    <2>5. idle' \in Seq(Conn) /\ Len(idle') <= MaxIdle
      BY <1>t, <1>n, <1>2 DEF Connect, TypeOK
    <2>6. at' \in [Request -> Place] /\ reused' \in [Request -> BOOLEAN]
      BY <1>t, <1>p, <1>2 DEF Connect, TypeOK
    <2> QED
      BY <1>t, <1>2, <2>2, <2>3, <2>4, <2>5, <2>6 DEF Connect, TypeOK, Answers
  <1>3. ASSUME NEW r \in Request, ConnectFails(r) PROVE TypeOK'
    <2>1. peer' \in [Conn -> Peer] /\ wire' \in [Conn -> Seq(Answers)]
      BY <1>t, <1>3, CloseAllType DEF ConnectFails
    <2>2. idle' \in Seq(Conn) /\ Len(idle') <= MaxIdle
      BY <1>t, <1>n, <1>3 DEF ConnectFails, TypeOK
    <2>3. SleepOrRaise(r) \/ Ends(r, "failed")
      BY <1>3 DEF ConnectFails
    <2>4. /\ at' \in [Request -> Place]
          /\ attempt' \in [Request -> 0..MaxAttempt]
          /\ left' \in [Request -> 0..Deadline]
      BY <1>t, <1>e, <2>3, EndsType, SleepOrRaiseType
    <2> QED
      BY <1>t, <1>3, <2>1, <2>2, <2>4 DEF ConnectFails, TypeOK, Answers
  <1>4. ASSUME NEW r \in Request, Answered(r) PROVE TypeOK'
    <2> DEFINE answer == Head(wire[conn[r]])
    <2>1. /\ at[r] = "sent" /\ wire[conn[r]] # <<>>
          /\ got' = [got EXCEPT ![r] = answer.to]
          /\ GiveOrClose(r, answer.status # "large")
          /\ SleepOrRaise(r) \/ Ends(r, "ok") \/ Ends(r, "failed")
      BY <1>4 DEF Answered
    <2>2. conn[r] \in Conn
      BY <1>u, <2>1
    <2>3. answer \in Answers /\ answer.to \in Request
      <3>1. wire[conn[r]] \in Seq(Answers) /\ wire[conn[r]] # <<>>
        BY <1>t, <2>1, <2>2 DEF TypeOK, Answers
      <3>2. answer \in Answers
        BY <3>1
      <3> QED
        BY <3>2 DEF Answers
    <2>4. /\ conn' \in [Request -> Conn \cup {None}]
          /\ reused' \in [Request -> BOOLEAN]
          /\ idle' \in Seq(Conn) /\ Len(idle') <= MaxIdle
          /\ peer' \in [Conn -> Peer]
          /\ wire' \in [Conn -> Seq(Answers)]
      BY <1>t, <2>1, <2>2, GiveOrCloseType
    <2>5. /\ at' \in [Request -> Place]
          /\ attempt' \in [Request -> 0..MaxAttempt]
          /\ left' \in [Request -> 0..Deadline]
      BY <1>t, <1>e, <2>1, EndsType, SleepOrRaiseType
    <2>6. got' \in [Request -> Request \cup {None}]
      BY <1>t, <2>1, <2>3 DEF TypeOK
    <2> QED
      BY <1>t, <1>4, <2>4, <2>5, <2>6 DEF Answered, TypeOK, Answers
  <1>5. ASSUME NEW r \in Request, Dropped(r) PROVE TypeOK'
    <2>1. peer' \in [Conn -> Peer] /\ wire' \in [Conn -> Seq(Answers)]
      BY <1>t, <1>5, CloseAllType DEF Dropped
    <2>2. /\ at' \in [Request -> Place]
          /\ attempt' \in [Request -> 0..MaxAttempt]
          /\ left' \in [Request -> 0..Deadline]
      <3>1. CASE ResentAfterDrop(r)
        BY <1>t, <1>p, <1>5, <3>1 DEF Dropped, TypeOK
      <3>2. CASE ~ResentAfterDrop(r)
        BY <1>t, <1>e, <1>5, <3>2, EndsType DEF Dropped
      <3> QED
        BY <3>1, <3>2
    <2> QED
      BY <1>t, <1>5, <2>1, <2>2 DEF Dropped, TypeOK, Answers
  <1>6. ASSUME NEW r \in Request, TimesOut(r) PROVE TypeOK'
    <2>1. conn[r] \in Conn
      BY <1>u, <1>6 DEF TimesOut
    <2>2. /\ conn' \in [Request -> Conn \cup {None}]
          /\ reused' \in [Request -> BOOLEAN]
          /\ idle' \in Seq(Conn) /\ Len(idle') <= MaxIdle
          /\ peer' \in [Conn -> Peer]
          /\ wire' \in [Conn -> Seq(Answers)]
      BY <1>t, <1>6, <2>1, GiveOrCloseType DEF TimesOut
    <2>3. /\ at' \in [Request -> Place]
          /\ attempt' \in [Request -> 0..MaxAttempt]
          /\ left' \in [Request -> 0..Deadline]
      BY <1>t, <1>e, <1>6, EndsType DEF TimesOut
    <2> QED
      BY <1>t, <1>6, <2>2, <2>3 DEF TimesOut, TypeOK, Answers
  <1>7. ASSUME NEW r \in Request, Start(r) \/ Wake(r) \/ Tick(r) PROVE TypeOK'
    <2>1. UNCHANGED <<asks, conn, reused, got, netVars>>
      BY <1>7 DEF Start, Wake, Tick
    <2>2. attempt[r] \in 0..MaxAttempt /\ left[r] \in 0..Deadline /\ MaxAttempt \in Nat
      BY <1>t, LimitAssumption DEF TypeOK, MaxAttempt
    <2>3. /\ at' \in [Request -> Place]
          /\ attempt' \in [Request -> 0..MaxAttempt]
          /\ left' \in [Request -> 0..Deadline]
      <3>1. CASE Start(r)
        BY <1>t, <1>p, <3>1 DEF Start, TypeOK
      <3>2. CASE Ends(r, "timeout")
        BY <1>t, <1>e, <3>2, EndsType
      <3>3. CASE /\ at' = [at EXCEPT ![r] = "connecting"]
                 /\ attempt' = [attempt EXCEPT ![r] = IF @ < MaxAttempt THEN @ + 1 ELSE @]
                 /\ UNCHANGED left
        <4>1. (IF attempt[r] < MaxAttempt THEN attempt[r] + 1 ELSE attempt[r]) \in 0..MaxAttempt
          BY <2>2
        <4> QED
          BY <1>t, <1>p, <3>3, <4>1 DEF TypeOK
      <3>4. CASE Tick(r)
        <4>1. left[r] - 1 \in 0..Deadline
          BY <2>2, <3>4, LimitAssumption DEF Tick
        <4> QED
          BY <1>t, <3>4, <4>1 DEF Tick, TypeOK
      <3> QED
        BY <1>7, <3>1, <3>2, <3>3, <3>4 DEF Wake
    <2> QED
      BY <1>t, <2>1, <2>3 DEF TypeOK, netVars
  <1>8. ASSUME NEW c \in Conn, Process(c) PROVE TypeOK'
    <2> DEFINE r == Head(pending[c])
    <2>1. PICK status \in Status, effect \in BOOLEAN :
             /\ applied' = [applied EXCEPT ![r] =
                               IF effect /\ @ < MaxApplied THEN @ + 1 ELSE @]
             /\ pending' = [pending EXCEPT ![c] = Tail(pending[c])]
             /\ \/ /\ wire' = [wire EXCEPT ![c] = Append(@, [to |-> r, status |-> status])]
                   /\ UNCHANGED peer
                \/ /\ peer' = [peer EXCEPT ![c] = IF Tail(pending[c]) = <<>> THEN "none" ELSE @]
                   /\ UNCHANGED wire
      BY <1>8 DEF Process
    <2>2. pending[c] \in Seq(Request) /\ pending[c] # <<>>
      BY <1>t, <1>8 DEF TypeOK, Process
    <2>3. r \in Request /\ Tail(pending[c]) \in Seq(Request)
      BY <2>2
    <2>4. pending' \in [Conn -> Seq(Request)]
      BY <1>t, <2>1, <2>3 DEF TypeOK
    <2>5. applied' \in [Request -> 0..MaxApplied]
      <3>1. applied[r] \in 0..MaxApplied
        BY <1>t, <2>3 DEF TypeOK
      <3>2. (IF effect /\ applied[r] < MaxApplied THEN applied[r] + 1 ELSE applied[r])
               \in 0..MaxApplied
        BY <3>1 DEF MaxApplied
      <3> HIDE DEF r
      <3> QED
        BY <1>t, <2>1, <3>2 DEF TypeOK
    <2>6. peer' \in [Conn -> Peer]
      BY <1>t, <2>1 DEF TypeOK, Peer
    <2>7. wire' \in [Conn -> Seq(Answers)]
      <3>1. [to |-> r, status |-> status] \in Answers
        BY <2>3 DEF Answers
      <3>2. wire \in [Conn -> Seq(Answers)]
        BY <1>t DEF TypeOK, Answers
      <3> HIDE DEF r, Answers
      <3>3. Append(wire[c], [to |-> r, status |-> status]) \in Seq(Answers)
        BY <3>1, <3>2
      <3> QED
        BY <2>1, <3>2, <3>3
    <2> QED
      BY <1>t, <1>8, <2>4, <2>5, <2>6, <2>7 DEF Process, TypeOK, Answers, requestVars
  <1>9. ASSUME NEW c \in Conn, PeerDrops(c) PROVE TypeOK'
    <2>1. <<>> \in Seq(Request) /\ <<>> \in Seq([to : Request, status : Status])
      OBVIOUS
    <2> QED
      BY <1>t, <1>9, <2>1 DEF PeerDrops, TypeOK, Peer, requestVars
  <1>10. CASE UNCHANGED vars
    BY <1>t, <1>10 DEF vars, requestVars, netVars, TypeOK
  <1> QED
    BY <1>1, <1>2, <1>3, <1>4, <1>5, <1>6, <1>7, <1>8, <1>9, <1>10
       DEF Next, RequestStep, Done
-----------------------------------------------------------------------------
(* What a step leaves alone.                                               *)

LEMMA UseKept ==
  ASSUME NEW r \in Request, UseFits(r),
         at'[r] = "sent" <=> at[r] = "sent", conn'[r] = conn[r],
         conn[r] # None =>
            /\ conn[r] \notin Pool'
            /\ \A q \in Request \ {r} : conn'[q] # conn[r]
            /\ peer'[conn[r]] = peer[conn[r]]
            /\ pending'[conn[r]] = pending[conn[r]]
            /\ wire'[conn[r]] = wire[conn[r]]
  PROVE  UseFits(r)'
  BY DEF UseFits

LEMMA MutationKept ==
  ASSUME NEW r \in Request, MutationFits(r), asks' = asks, applied'[r] = applied[r],
         \A c \in Conn : pending'[c] = <<r>> => pending[c] = <<r>>,
         at'[r] \in {"idle", "connecting", "sleeping"}
            => at[r] \in {"idle", "connecting", "sleeping"},
         \/ conn'[r] = None
         \/ /\ conn'[r] = conn[r]
            /\ wire'[conn[r]] # <<>> => wire'[conn[r]] = wire[conn[r]]
  PROVE  MutationFits(r)'
  <1>1. <<[to |-> r, status |-> "fence"]>> # <<>>
    OBVIOUS
  <1> QED
    BY <1>1 DEF MutationFits, Kind

LEMMA CloseAllEffect ==
  ASSUME TypeOK, NEW closed, CloseAll(closed)
  PROVE  \A c \in Conn :
            /\ c \notin closed => peer'[c] = peer[c] /\ wire'[c] = wire[c]
            /\ c \in closed =>
                  /\ wire'[c] = <<>>
                  /\ peer'[c] = IF pending[c] = <<>> THEN "none" ELSE "ghost"
  BY DEF CloseAll

(* A connection that is closed still fits.                                 *)
LEMMA ClosedFits ==
  ASSUME TypeOK, NEW closed, CloseAll(closed), NEW c \in Conn, ConnFits(c),
         pending'[c] = pending[c]
  PROVE  ConnFits(c)'
  BY CloseAllEffect DEF ConnFits

(* Steps that change neither the connections nor who uses them.            *)
LEMMA QuietStep ==
  ASSUME IInv, TypeOK', asks' = asks, got' = got, UNCHANGED <<conn, netVars>>,
         \A q \in Request :
            /\ at'[q] = "sent" <=> at[q] = "sent"
            /\ at'[q] \in {"idle", "connecting", "sleeping"}
                  => at[q] \in {"idle", "connecting", "sleeping"}
  PROVE  IInv'
  <1> USE DEF IInv, netVars
  <1>0. Pool' = Pool
    BY DEF Pool
  <1>1. \A c \in Conn : ConnFits(c)'
    BY DEF ConnFits
  <1>2. \A r \in Request : UseFits(r)'
    <2> TAKE r \in Request
    <2>1. UseFits(r)
      OBVIOUS
    <2>2. conn[r] # None => /\ conn[r] \notin Pool'
                            /\ \A q \in Request \ {r} : conn'[q] # conn[r]
      BY <1>0, <2>1 DEF UseFits
    <2> QED
      BY <2>1, <2>2, UseKept
  <1>3. PoolFits'
    BY <1>0 DEF PoolFits
  <1>4. \A r \in Request : MutationFits(r)'
    BY MutationKept
  <1>5. OwnAnswer'
    BY DEF OwnAnswer
  <1> QED
    BY <1>1, <1>2, <1>3, <1>4, <1>5

LEMMA StartIInv ==
  ASSUME IInv, TypeOK', NEW r \in Request, Start(r) \/ Wake(r) \/ Tick(r)
  PROVE  IInv'
  <1>1. \A q \in Request \ {r} : at'[q] = at[q]
    BY DEF Start, Wake, Tick, Ends, IInv, TypeOK
  <1>2. \/ at[r] = "idle" /\ at'[r] = "connecting"
        \/ at[r] = "sleeping" /\ at'[r] \in {"connecting", "timeout"}
        \/ at'[r] = at[r]
    BY DEF Start, Wake, Tick, Ends, IInv, TypeOK
  <1>3. UNCHANGED <<asks, got, conn, netVars>>
    BY DEF Start, Wake, Tick, netVars
  <1> QED
    BY <1>1, <1>2, <1>3, QuietStep
-----------------------------------------------------------------------------
(* The gateway's steps.                                                    *)

LEMMA ProcessIInv ==
  ASSUME IInv, TypeOK', NEW c \in Conn, Process(c)
  PROVE  IInv'
  <1>t. TypeOK /\ PoolFits /\ OwnAnswer /\ ConnFits(c)
    BY DEF IInv
  <1>1. PICK h \in Request : pending[c] = <<h>>
    BY <1>t DEF Process, ConnFits
  <1>2. Head(pending[c]) = h /\ Tail(pending[c]) = <<>> /\ pending[c] # <<>>
    BY <1>1
  <1>3. peer[c] \in {"open", "ghost"} /\ wire[c] = <<>> /\ c \notin Pool
    BY <1>t, <1>2 DEF Process, ConnFits, PoolFits
  <1>4. PICK status \in Status, effect \in BOOLEAN :
           /\ status = "fence" => ~effect
           /\ applied' = [applied EXCEPT ![h] =
                             IF effect /\ @ < MaxApplied THEN @ + 1 ELSE @]
           /\ pending' = [pending EXCEPT ![c] = <<>>]
           /\ IF peer[c] = "open"
              THEN /\ wire' = [wire EXCEPT ![c] =
                                  Append(@, [to |-> h, status |-> status])]
                   /\ UNCHANGED peer
              ELSE /\ peer' = [peer EXCEPT ![c] = "none"]
                   /\ UNCHANGED wire
    BY <1>2 DEF Process
  <1>5. UNCHANGED <<asks, at, attempt, left, conn, reused, got, idle>>
    BY DEF Process, requestVars
  <1> DEFINE answer == [to |-> h, status |-> status]
  <1>6. /\ \A d \in Conn \ {c} : /\ peer'[d] = peer[d] /\ wire'[d] = wire[d]
                                 /\ pending'[d] = pending[d]
        /\ pending'[c] = <<>>
        /\ peer[c] = "open" => peer'[c] = "open" /\ wire'[c] = <<answer>>
        /\ peer[c] # "open" => peer'[c] = "none" /\ wire'[c] = <<>>
    <2>1. Append(<<>>, answer) = <<answer>>
      OBVIOUS
    <2> HIDE DEF answer
    <2>2. /\ pending \in [Conn -> Seq(Request)] /\ peer \in [Conn -> Peer]
          /\ DOMAIN wire = Conn
      BY <1>t DEF TypeOK
    <2>3. IF peer[c] = "open"
          THEN wire' = [wire EXCEPT ![c] = <<answer>>] /\ UNCHANGED peer
          ELSE peer' = [peer EXCEPT ![c] = "none"] /\ UNCHANGED wire
      BY <1>3, <1>4, <2>1 DEF answer
    <2>4. wire = [d \in Conn |-> wire[d]]
      BY <1>t DEF TypeOK
    <2> QED
      BY <1>3, <1>4, <2>2, <2>3, <2>4
  <1>7. /\ \A r \in Request \ {h} : applied'[r] = applied[r]
        /\ applied[h] = 0 => applied'[h] = IF effect THEN 1 ELSE 0
    BY <1>4, <1>t DEF TypeOK, MaxApplied
  <1>8. Pool' = Pool
    BY <1>5 DEF Pool
  <1>9. \A d \in Conn : ConnFits(d)'
    <2> TAKE d \in Conn
    <2>1. CASE d = c
      BY <1>3, <1>6, <2>1 DEF ConnFits
    <2>2. CASE d # c
      BY <1>6, <2>2 DEF ConnFits, IInv
    <2> QED
      BY <2>1, <2>2
  <1>10. PoolFits'
    BY <1>3, <1>5, <1>6, <1>8, <1>t, Uses DEF PoolFits
  <1>11. ASSUME NEW r \in Request PROVE UseFits(r)'
    <2>1. UseFits(r) /\ (conn[r] # None => conn[r] \in Conn)
      BY <1>t, Uses DEF IInv
    <2>2. CASE conn[r] # c
      <3>1. conn[r] # None => /\ conn[r] \notin Pool'
                              /\ \A q \in Request \ {r} : conn'[q] # conn[r]
        BY <1>5, <1>8, <2>1 DEF UseFits
      <3> QED
        BY <1>5, <1>6, <2>1, <2>2, <3>1, UseKept
    <2>3. CASE conn[r] = c
      <3>1. c # None
        BY NoneAssumption
      <3>2. peer[c] = "open" /\ <<h>> = <<r>>
        BY <1>1, <1>2, <1>3, <2>1, <2>3, <3>1 DEF UseFits
      <3>3. h = r
        BY <3>2
      <3>4. peer'[c] = "open" /\ pending'[c] = <<>> /\ wire'[c] = <<[to |-> r, status |-> status]>>
        BY <1>6, <3>2, <3>3
      <3> QED
        BY <1>5, <1>8, <2>1, <2>3, <3>1, <3>4 DEF UseFits
    <2> QED
      BY <2>2, <2>3
  <1>12. ASSUME NEW r \in Request PROVE MutationFits(r)'
    <2>1. MutationFits(r) /\ UseFits(r) /\ (conn[r] # None => conn[r] \in Conn)
      BY <1>t, Uses DEF IInv
    <2>2. <<r>> # <<>>
      OBVIOUS
    <2>3. CASE r # h
      <3>1. <<r>> # <<h>>
        BY <2>3
      <3>2. conn[r] # None => conn[r] # c
        BY <1>1, <1>2, <1>3, <2>1, <3>1 DEF UseFits
      <3>3. \A d \in Conn : pending'[d] = <<r>> => pending[d] = <<r>>
        BY <1>6, <2>2
      <3>4. conn[r] # None => wire'[conn[r]] = wire[conn[r]]
        BY <1>6, <2>1, <3>2
      <3> QED
        BY <1>5, <1>7, <2>1, <2>3, <3>3, <3>4, MutationKept
    <2>4. CASE r = h
      <3> SUFFICES ASSUME Kind(r) \in {"operation", "other"} PROVE MutationFits(r)'
        BY <1>5 DEF MutationFits, Kind
      <3>1. /\ applied[r] = 0
            /\ \A d \in Conn : pending[d] = <<r>> => d = c
            /\ at[r] \notin {"idle", "connecting", "sleeping"}
            /\ conn[r] # None => conn[r] = c
        BY <1>1, <2>1, <2>4 DEF MutationFits
      <3>2. applied'[r] = IF effect THEN 1 ELSE 0
        BY <1>7, <2>4, <3>1
      <3>3. \A d \in Conn : pending'[d] # <<r>>
        BY <1>6, <2>2, <3>1
      <3>4. wire'[c] = <<[to |-> r, status |-> "fence"]>> => applied'[r] = 0
        <4>1. CASE peer[c] = "open"
          <5>1. wire'[c] = <<[to |-> r, status |-> status]>>
            BY <1>6, <2>4, <4>1
          <5>2. <<[to |-> r, status |-> status]>> = <<[to |-> r, status |-> "fence"]>>
                   => status = "fence"
            OBVIOUS
          <5> QED
            BY <1>4, <3>2, <5>1, <5>2
        <4>2. CASE peer[c] # "open"
          <5>1. <<[to |-> r, status |-> "fence"]>> # <<>>
            OBVIOUS
          <5> QED
            BY <1>6, <4>2, <5>1
        <4> QED
          BY <4>1, <4>2
      <3> QED
        BY <1>5, <3>1, <3>2, <3>3, <3>4 DEF MutationFits
    <2> QED
      BY <2>3, <2>4
  <1>13. OwnAnswer'
    BY <1>t, <1>5 DEF OwnAnswer
  <1> QED
    BY <1>9, <1>10, <1>11, <1>12, <1>13 DEF IInv

LEMMA PeerDropsIInv ==
  ASSUME IInv, TypeOK', NEW c \in Conn, PeerDrops(c)
  PROVE  IInv'
  <1>t. TypeOK /\ PoolFits /\ OwnAnswer
    BY DEF IInv
  <1>1. /\ \A d \in Conn \ {c} : /\ peer'[d] = peer[d] /\ wire'[d] = wire[d]
                                 /\ pending'[d] = pending[d]
        /\ pending'[c] = <<>> /\ wire'[c] = <<>>
        /\ peer[c] \in {"open", "ghost"}
        /\ peer'[c] = IF peer[c] = "open" THEN "dropped" ELSE "none"
    BY <1>t DEF PeerDrops, TypeOK
  <1>2. UNCHANGED <<asks, at, attempt, left, conn, reused, got, idle, applied>>
    BY DEF PeerDrops, requestVars
  <1>3. Pool' = Pool
    BY <1>2 DEF Pool
  <1>4. \A d \in Conn : ConnFits(d)'
    <2> TAKE d \in Conn
    <2>1. CASE d = c
      BY <1>1, <2>1 DEF ConnFits
    <2>2. CASE d # c
      BY <1>1, <2>2 DEF ConnFits, IInv
    <2> QED
      BY <2>1, <2>2
  <1>5. PoolFits'
    BY <1>1, <1>2, <1>3, <1>t, Uses DEF PoolFits
  <1>6. ASSUME NEW r \in Request PROVE UseFits(r)'
    <2>1. UseFits(r) /\ (conn[r] # None => conn[r] \in Conn)
      BY <1>t, Uses DEF IInv
    <2>2. conn[r] # None => /\ conn[r] \notin Pool'
                            /\ \A q \in Request \ {r} : conn'[q] # conn[r]
      BY <1>2, <1>3, <2>1 DEF UseFits
    <2>3. CASE conn[r] # c
      BY <1>1, <1>2, <2>1, <2>2, <2>3, UseKept
    <2>4. CASE conn[r] = c
      <3>1. c # None
        BY NoneAssumption
      <3>2. peer'[c] = "dropped"
        BY <1>1, <2>1, <2>4, <3>1 DEF UseFits
      <3> QED
        BY <1>2, <2>1, <2>2, <2>4, <3>1, <3>2 DEF UseFits
    <2> QED
      BY <2>3, <2>4
  <1>7. ASSUME NEW r \in Request PROVE MutationFits(r)'
    <2>1. MutationFits(r) /\ (conn[r] # None => conn[r] \in Conn)
      BY <1>t, Uses DEF IInv
    <2>2. <<r>> # <<>>
      OBVIOUS
    <2>3. \A d \in Conn : pending'[d] = <<r>> => pending[d] = <<r>>
      BY <1>1, <2>2
    <2> QED
      BY <1>1, <1>2, <2>1, <2>3, MutationKept
  <1>8. OwnAnswer'
    BY <1>t, <1>2 DEF OwnAnswer
  <1> QED
    BY <1>4, <1>5, <1>6, <1>7, <1>8 DEF IInv
-----------------------------------------------------------------------------
(* The steps of a request that take, open and close connections.           *)

LEMMA TakeIInv ==
  ASSUME IInv, TypeOK', NEW r \in Request, Take(r)
  PROVE  IInv'
  <1>t. TypeOK /\ PoolFits /\ OwnAnswer /\ UseFits(r) /\ MutationFits(r)
    BY DEF IInv
  <1>1. PICK i \in 1..Len(idle) :
           /\ idle' = SubSeq(idle, 1, i - 1)
           /\ Usable(idle[i])
           /\ conn' = [conn EXCEPT ![r] = idle[i]]
           /\ CloseAll(From(i + 1))
           /\ pending' = [pending EXCEPT ![idle[i]] = Append(@, r)]
    BY DEF Take
  <1> DEFINE c == idle[i]
             closed == From(i + 1)
  <1>2. /\ c \in Pool /\ c \in Conn /\ c \notin closed /\ closed \subseteq Pool
        /\ c # None
    BY <1>t, Splits, Uses, NoneAssumption
  <1>3. /\ peer[c] = "open" /\ wire[c] = <<>> /\ pending[c] = <<>>
        /\ \A d \in closed : pending[d] = <<>> /\ d # c
    BY <1>1, <1>2, <1>t DEF Usable, PoolFits
  <1>4. Pool' \subseteq Pool /\ Pool' \cap closed = {} /\ c \notin Pool'
        /\ \A j, k \in 1..Len(idle') : idle'[j] = idle'[k] => j = k
    <2>1. /\ Len(idle') = i - 1
          /\ \A j \in 1..(i - 1) : idle'[j] = idle[j]
          /\ 1..(i - 1) \subseteq 1..Len(idle)
          /\ \A j \in 1..(i - 1) : idle[j] # c /\ idle[j] \notin closed
      BY <1>1, <1>t, Splits
    <2> HIDE DEF c, closed
    <2>2. \A d \in Pool' : \E j \in 1..(i - 1) : d = idle[j]
      BY <2>1 DEF Pool
    <2>3. Pool' \subseteq Pool /\ Pool' \cap closed = {} /\ c \notin Pool'
      BY <2>1, <2>2 DEF Pool
    <2>4. \A j, k \in 1..Len(idle') : idle'[j] = idle'[k] => j = k
      BY <1>t, <2>1 DEF PoolFits
    <2> QED
      BY <2>3, <2>4
  <1> HIDE DEF c, closed
  <1>5. /\ UNCHANGED <<asks, got, applied>>
        /\ at[r] = "connecting" /\ at'[r] = "sent" /\ conn[r] = None /\ conn'[r] = c
        /\ \A q \in Request \ {r} : at'[q] = at[q] /\ conn'[q] = conn[q]
    BY <1>1, <1>t DEF Take, TypeOK, UseFits, c
  <1>6. pending'[c] = <<r>> /\ \A d \in Conn \ {c} : pending'[d] = pending[d]
    <2>1. Append(<<>>, r) = <<r>>
      OBVIOUS
    <2>2. pending' = [pending EXCEPT ![c] = <<r>>]
      BY <1>1, <1>3, <2>1 DEF c
    <2> QED
      BY <1>2, <1>t, <2>2 DEF TypeOK
  <1>7. /\ \A d \in Conn : d \notin closed => peer'[d] = peer[d] /\ wire'[d] = wire[d]
        /\ \A d \in Conn : d \in closed => peer'[d] = "none" /\ wire'[d] = <<>>
    BY <1>1, <1>3, <1>t, CloseAllEffect DEF closed
  <1>8. \A d \in Conn : ConnFits(d)'
    <2> TAKE d \in Conn
    <2>1. ConnFits(d)
      BY DEF IInv
    <2>2. CASE d = c
      BY <1>2, <1>3, <1>6, <1>7, <2>2 DEF ConnFits
    <2>3. CASE d \in closed
      BY <1>3, <1>6, <1>7, <2>3 DEF ConnFits
    <2>4. CASE d # c /\ d \notin closed
      BY <1>6, <1>7, <2>1, <2>4 DEF ConnFits
    <2> QED
      BY <2>2, <2>3, <2>4
  <1>9. PoolFits'
    <2>1. \A d \in Pool' : d \in Conn /\ d \in Pool /\ d # c /\ d \notin closed
      BY <1>4, <1>t, Uses
    <2> QED
      BY <1>4, <1>6, <1>7, <1>t, <2>1 DEF PoolFits
  <1>10. ASSUME NEW q \in Request PROVE UseFits(q)'
    <2>1. UseFits(q) /\ (conn[q] # None => conn[q] \in Conn /\ conn[q] \notin Pool)
      BY <1>t, Uses DEF IInv, UseFits
    <2>2. CASE q = r
      <3>1. \A p \in Request \ {r} : conn'[p] # c
        <4> TAKE p \in Request \ {r}
        <4>1. UseFits(p)
          BY DEF IInv
        <4> QED
          BY <1>2, <1>5, <4>1 DEF UseFits
      <3> QED
        BY <1>2, <1>3, <1>4, <1>5, <1>6, <1>7, <2>2, <3>1 DEF UseFits
    <2>3. CASE q # r
      <3>1. conn[q] # None =>
               /\ conn[q] \notin Pool' /\ conn[q] # c /\ conn[q] \notin closed
               /\ \A p \in Request \ {q} : conn'[p] # conn[q]
        BY <1>2, <1>4, <1>5, <2>1, <2>3 DEF UseFits
      <3> QED
        BY <1>5, <1>6, <1>7, <2>1, <2>3, <3>1, UseKept
    <2> QED
      BY <2>2, <2>3
  <1>11. ASSUME NEW q \in Request PROVE MutationFits(q)'
    <2>1. MutationFits(q) /\ (conn[q] # None => conn[q] \in Conn /\ conn[q] \notin Pool)
      BY <1>t, Uses DEF IInv, UseFits
    <2>2. CASE q = r
      <3> SUFFICES ASSUME Kind(r) \in {"operation", "other"} PROVE MutationFits(r)'
        BY <1>5, <2>2 DEF MutationFits, Kind
      <3>1. applied[r] = 0 /\ \A d \in Conn : pending[d] # <<r>>
        BY <1>5, <1>t DEF MutationFits
      <3>2. \A d \in Conn : pending'[d] = <<r>> => d = c
        BY <1>6, <3>1
      <3> QED
        BY <1>5, <3>1, <3>2 DEF MutationFits
    <2>3. CASE q # r
      <3>1. <<q>> # <<r>>
        BY <2>3
      <3>2. \A d \in Conn : pending'[d] = <<q>> => pending[d] = <<q>>
        BY <1>6, <3>1
      <3>3. conn[q] # None => wire'[conn[q]] = wire[conn[q]]
        BY <1>2, <1>7, <2>1
      <3> QED
        BY <1>5, <2>1, <2>3, <3>2, <3>3, MutationKept
    <2> QED
      BY <2>2, <2>3
  <1>12. OwnAnswer'
    BY <1>t, <1>5 DEF OwnAnswer
  <1> QED
    BY <1>8, <1>9, <1>10, <1>11, <1>12 DEF IInv

(* What is retired from the pool is closed, and the rest of it stays.      *)
LEMMA RetireEffect ==
  ASSUME TypeOK, PoolFits, NEW r \in Request,
         idle' = IF Pooled(r) THEN <<>> ELSE idle
  PROVE  /\ Retired(r) \subseteq Pool
         /\ Pool' = Pool \ Retired(r)
         /\ \A j, k \in 1..Len(idle') : idle'[j] = idle'[k] => j = k
         /\ \A d \in Retired(r) : pending[d] = <<>>
  <1>1. CASE Pooled(r)
    <2>1. idle' = <<>> /\ 1..Len(idle') = {}
      BY <1>1
    <2> QED
      BY <1>1, <2>1, WholePool DEF Retired, Pool, PoolFits
  <1>2. CASE ~Pooled(r)
    BY <1>2 DEF Retired, Pool, PoolFits
  <1> QED
    BY <1>1, <1>2
LEMMA ConnectIInv ==
  ASSUME IInv, TypeOK', NEW r \in Request, Connect(r)
  PROVE  IInv'
  <1>t. TypeOK /\ PoolFits /\ OwnAnswer /\ UseFits(r) /\ MutationFits(r)
    BY DEF IInv
  <1>1. PICK c \in Conn :
           /\ peer[c] = "none" /\ c \notin From(1)
           /\ conn' = [conn EXCEPT ![r] = c]
           /\ pending' = [pending EXCEPT ![c] = <<r>>]
           /\ peer' = [d \in Conn |->
                          IF d = c THEN "open"
                          ELSE IF d \in Retired(r) THEN "none"
                          ELSE peer[d]]
    BY DEF Connect
  <1> DEFINE closed == Retired(r)
  <1>2. /\ closed \subseteq Pool
        /\ Pool' = Pool \ closed
        /\ \A j, k \in 1..Len(idle') : idle'[j] = idle'[k] => j = k
        /\ \A d \in closed : pending[d] = <<>>
    BY <1>t, RetireEffect DEF Connect
  <1>3. /\ c \notin Pool /\ c \notin closed /\ c # None
        /\ pending[c] = <<>> /\ wire[c] = <<>>
    <2>1. ConnFits(c)
      BY DEF IInv
    <2> QED
      BY <1>1, <1>2, <2>1, WholePool, NoneAssumption DEF ConnFits
  <1>4. /\ UNCHANGED <<asks, got, applied>>
        /\ at[r] = "connecting" /\ at'[r] = "sent" /\ conn[r] = None /\ conn'[r] = c
        /\ \A q \in Request \ {r} : at'[q] = at[q] /\ conn'[q] = conn[q]
    BY <1>1, <1>t DEF Connect, TypeOK, UseFits
  <1>5. pending'[c] = <<r>> /\ \A d \in Conn \ {c} : pending'[d] = pending[d]
    BY <1>1, <1>t DEF TypeOK
  <1>6. /\ peer'[c] = "open" /\ wire'[c] = <<>>
        /\ \A d \in Conn \ {c} : d \notin closed => peer'[d] = peer[d] /\ wire'[d] = wire[d]
        /\ \A d \in Conn : d \in closed => peer'[d] = "none" /\ wire'[d] = <<>>
    BY <1>1, <1>3 DEF Connect
  <1> HIDE DEF closed
  <1>7. \A d \in Conn : ConnFits(d)'
    <2> TAKE d \in Conn
    <2>1. ConnFits(d)
      BY DEF IInv
    <2>2. CASE d = c
      BY <1>5, <1>6, <2>2 DEF ConnFits
    <2>3. CASE d \in closed
      BY <1>2, <1>3, <1>5, <1>6, <2>3 DEF ConnFits
    <2>4. CASE d # c /\ d \notin closed
      BY <1>5, <1>6, <2>1, <2>4 DEF ConnFits
    <2> QED
      BY <2>2, <2>3, <2>4
  <1>8. PoolFits'
    <2>1. \A d \in Pool' : d \in Conn /\ d \in Pool /\ d # c /\ d \notin closed
      BY <1>2, <1>3, <1>t, Uses
    <2> QED
      BY <1>2, <1>5, <1>6, <1>t, <2>1 DEF PoolFits
  <1>9. ASSUME NEW q \in Request, q # r
        PROVE  conn[q] # None => conn[q] \in Conn /\ conn[q] \notin Pool /\ conn[q] # c
    <2>1. UseFits(q)
      BY DEF IInv
    <2> QED
      BY <1>1, <1>t, <2>1, Uses DEF UseFits
  <1>10. ASSUME NEW q \in Request PROVE UseFits(q)'
    <2>1. UseFits(q)
      BY DEF IInv
    <2>2. CASE q = r
      <3>1. \A p \in Request \ {r} : conn'[p] # c
        BY <1>3, <1>4, <1>9
      <3> QED
        BY <1>2, <1>3, <1>4, <1>5, <1>6, <2>2, <3>1 DEF UseFits
    <2>3. CASE q # r
      <3>1. conn[q] # None =>
               /\ conn[q] \notin Pool' /\ conn[q] # c /\ conn[q] \notin closed
               /\ \A p \in Request \ {q} : conn'[p] # conn[q]
        BY <1>2, <1>4, <1>9, <2>1, <2>3 DEF UseFits
      <3> QED
        BY <1>4, <1>5, <1>6, <1>9, <2>1, <2>3, <3>1, UseKept
    <2> QED
      BY <2>2, <2>3
  <1>11. ASSUME NEW q \in Request PROVE MutationFits(q)'
    <2>1. MutationFits(q)
      BY DEF IInv
    <2>2. CASE q = r
      <3> SUFFICES ASSUME Kind(r) \in {"operation", "other"} PROVE MutationFits(r)'
        BY <1>4, <2>2 DEF MutationFits, Kind
      <3>1. applied[r] = 0 /\ \A d \in Conn : pending[d] # <<r>>
        BY <1>4, <1>t DEF MutationFits
      <3>2. \A d \in Conn : pending'[d] = <<r>> => d = c
        BY <1>5, <3>1
      <3> QED
        BY <1>4, <3>1, <3>2 DEF MutationFits
    <2>3. CASE q # r
      <3>1. <<q>> # <<r>>
        BY <2>3
      <3>2. \A d \in Conn : pending'[d] = <<q>> => pending[d] = <<q>>
        BY <1>5, <3>1
      <3>3. conn[q] # None => wire'[conn[q]] = wire[conn[q]]
        BY <1>2, <1>6, <1>9, <2>3
      <3> QED
        BY <1>4, <2>1, <2>3, <3>2, <3>3, MutationKept
    <2> QED
      BY <2>2, <2>3
  <1>12. OwnAnswer'
    BY <1>t, <1>4 DEF OwnAnswer
  <1> QED
    BY <1>7, <1>8, <1>10, <1>11, <1>12 DEF IInv

LEMMA ConnectFailsIInv ==
  ASSUME IInv, TypeOK', NEW r \in Request, ConnectFails(r)
  PROVE  IInv'
  <1>t. TypeOK /\ PoolFits /\ OwnAnswer /\ UseFits(r) /\ MutationFits(r)
    BY DEF IInv
  <1> DEFINE closed == Retired(r)
  <1>1. /\ closed \subseteq Pool
        /\ Pool' = Pool \ closed
        /\ \A j, k \in 1..Len(idle') : idle'[j] = idle'[k] => j = k
        /\ \A d \in closed : pending[d] = <<>>
    BY <1>t, RetireEffect DEF ConnectFails
  <1>2. CloseAll(closed) /\ UNCHANGED <<asks, conn, reused, got, pending, applied>>
    BY DEF ConnectFails
  <1>3. /\ at[r] = "connecting" /\ at'[r] \in {"sleeping", "exhausted", "failed"}
        /\ \A q \in Request \ {r} : at'[q] = at[q]
    BY <1>t DEF ConnectFails, SleepOrRaise, Ends, TypeOK
  <1> HIDE DEF closed
  <1>4. \A d \in Conn : ConnFits(d)'
    BY <1>2, <1>t, ClosedFits DEF IInv
  <1>5. \A d \in Conn : d \notin closed => peer'[d] = peer[d] /\ wire'[d] = wire[d]
    BY <1>2, <1>t, CloseAllEffect
  <1>6. PoolFits'
    <2>1. \A d \in Pool' : d \in Conn /\ d \in Pool /\ d \notin closed
      BY <1>1, <1>t, Uses
    <2> QED
      BY <1>1, <1>2, <1>5, <1>t, <2>1 DEF PoolFits
  <1>7. ASSUME NEW q \in Request PROVE UseFits(q)' /\ MutationFits(q)'
    <2>1. UseFits(q) /\ MutationFits(q)
      BY DEF IInv
    <2>2. conn[q] # None =>
             /\ conn[q] \in Conn /\ conn[q] \notin Pool' /\ conn[q] \notin closed
             /\ \A p \in Request \ {q} : conn'[p] # conn[q]
      BY <1>1, <1>2, <1>t, <2>1, Uses DEF UseFits
    <2>3. /\ at'[q] = "sent" <=> at[q] = "sent"
          /\ at'[q] \in {"idle", "connecting", "sleeping"}
                => at[q] \in {"idle", "connecting", "sleeping"}
      BY <1>3
    <2>4. UseFits(q)'
      BY <1>2, <1>5, <2>1, <2>2, <2>3, UseKept
    <2>5. MutationFits(q)'
      <3>1. conn[q] # None => wire'[conn[q]] = wire[conn[q]]
        BY <1>5, <2>2
      <3> QED
        BY <1>2, <2>1, <2>3, <3>1, MutationKept
    <2> QED
      BY <2>4, <2>5
  <1>8. OwnAnswer'
    BY <1>t, <1>2 DEF OwnAnswer
  <1> QED
    BY <1>4, <1>6, <1>7, <1>8 DEF IInv

(* A request leaves its connection, which it closes or, when its answer    *)
(* was read to the end, returns.                                           *)
LEMMA LeaveIInv ==
  ASSUME IInv, TypeOK', NEW r \in Request, at[r] = "sent", at'[r] # "sent",
         NEW complete \in BOOLEAN, complete => wire[conn[r]] # <<>>,
         GiveOrClose(r, complete),
         \A q \in Request \ {r} : at'[q] = at[q],
         UNCHANGED <<asks, pending, applied>>,
         MutationFits(r)', OwnAnswer'
  PROVE  IInv'
  <1> DEFINE c == conn[r]
  <1>t. TypeOK /\ PoolFits /\ UseFits(r)
    BY DEF IInv
  <1>1. c \in Conn /\ c # None /\ c \notin Pool
    BY <1>t, Uses DEF UseFits
  <1>2. conn'[r] = None /\ \A q \in Request \ {r} : conn'[q] = conn[q]
    BY <1>t DEF GiveOrClose, TypeOK
  <1>3. ASSUME NEW q \in Request, q # r
        PROVE  conn[q] # None => conn[q] \in Conn /\ conn[q] \notin Pool /\ conn[q] # c
    <2>1. UseFits(q)
      BY DEF IInv
    <2> QED
      BY <1>t, <2>1, <1>3, Uses DEF UseFits
  <1>4. /\ \A d \in Conn : ConnFits(d)'
        /\ PoolFits'
        /\ Pool' \subseteq Pool \cup {c}
        /\ \A d \in Conn \ {c} : peer'[d] = peer[d] /\ wire'[d] = wire[d]
    <2>1. CASE CloseAll({c}) /\ UNCHANGED idle
      <3>1. \A d \in Conn : ConnFits(d)'
        BY <1>t, <2>1, ClosedFits DEF IInv
      <3>2. Pool' = Pool
        BY <2>1 DEF Pool
      <3>3. \A d \in Conn \ {c} : peer'[d] = peer[d] /\ wire'[d] = wire[d]
        BY <1>t, <2>1, CloseAllEffect
      <3>4. \A d \in Pool' : d \in Conn \ {c}
        BY <1>1, <1>t, <3>2, Uses
      <3> HIDE DEF c
      <3>5. PoolFits'
        BY <1>t, <2>1, <3>2, <3>3, <3>4 DEF PoolFits
      <3> QED
        BY <3>1, <3>2, <3>3, <3>5
    <2>2. CASE /\ complete
               /\ idle' = Append(idle, c)
               /\ wire' = [wire EXCEPT ![c] = Tail(@)]
               /\ UNCHANGED peer
      <3>1. ConnFits(c) /\ wire[c] # <<>>
        BY <1>1, <2>2 DEF IInv
      <3>2. peer[c] = "open" /\ pending[c] = <<>> /\ \E a \in Answers : wire[c] = <<a>>
        <4>1. peer[c] = "open" /\ pending[c] = <<>>
          BY <3>1 DEF ConnFits
        <4>2. pending[c] # <<r>>
          BY <4>1
        <4>3. PICK s \in Status : wire[c] = <<[to |-> r, status |-> s]>>
          BY <1>1, <1>t, <4>1, <4>2 DEF UseFits
        <4>4. [to |-> r, status |-> s] \in Answers
          BY DEF Answers
        <4> QED
          BY <4>1, <4>3, <4>4
      <3>3. Tail(wire[c]) = <<>>
        BY <3>2
      <3> HIDE DEF c
      <3>4. wire'[c] = <<>> /\ \A d \in Conn \ {c} : peer'[d] = peer[d] /\ wire'[d] = wire[d]
        BY <1>1, <1>t, <2>2, <3>3 DEF TypeOK
      <3>5. /\ Len(idle') = Len(idle) + 1 /\ Len(idle) \in Nat
            /\ \A j \in 1..Len(idle) : idle'[j] = idle[j]
            /\ idle'[Len(idle) + 1] = c
        <4>1. idle \in Seq(Conn)
          BY <1>t DEF TypeOK
        <4> QED
          BY <1>1, <2>2, <4>1, AppendProperties DEF c
      <3>6. /\ \A j \in 1..Len(idle') : j \in 1..Len(idle) \/ j = Len(idle) + 1
            /\ 1..Len(idle) \subseteq 1..Len(idle')
        BY <3>5
      <3>7. Pool' \subseteq Pool \cup {c}
        BY <3>5, <3>6 DEF Pool
      <3>8. \A j, k \in 1..Len(idle') : idle'[j] = idle'[k] => j = k
        BY <1>1, <1>t, <3>5, <3>6 DEF Pool, PoolFits
      <3>9. \A d \in Conn : ConnFits(d)'
        <4> TAKE d \in Conn
        <4>1. CASE d = c
          BY <2>2, <3>2, <3>4, <4>1 DEF ConnFits
        <4>2. CASE d # c
          BY <3>4, <4>2 DEF ConnFits, IInv
        <4> QED
          BY <4>1, <4>2
      <3>10. PoolFits'
        <4>1. \A d \in Pool' : /\ peer'[d] \in {"open", "dropped"}
                               /\ pending'[d] = <<>> /\ wire'[d] = <<>>
          <5> TAKE d \in Pool'
          <5>1. CASE d = c
            BY <2>2, <3>2, <3>4, <5>1
          <5>2. CASE d # c
            <6>1. d \in Pool /\ d \in Conn
              BY <1>t, <3>7, <5>2, Uses
            <6> QED
              BY <1>t, <3>4, <5>2, <6>1 DEF PoolFits
          <5> QED
            BY <5>1, <5>2
        <4> QED
          BY <3>8, <4>1 DEF PoolFits
      <3> QED
        BY <3>4, <3>7, <3>9, <3>10
    <2> QED
      BY <2>1, <2>2 DEF GiveOrClose
  <1> HIDE DEF c
  <1>5. ASSUME NEW q \in Request PROVE UseFits(q)' /\ MutationFits(q)'
    <2>1. UseFits(q) /\ MutationFits(q)
      BY DEF IInv
    <2>2. CASE q = r
      BY <1>2, <2>2 DEF UseFits
    <2>3. CASE q # r
      <3>1. conn[q] # None =>
               /\ conn[q] \in Conn \ {c} /\ conn[q] \notin Pool'
               /\ \A p \in Request \ {q} : conn'[p] # conn[q]
        BY <1>2, <1>3, <1>4, <2>1, <2>3 DEF UseFits
      <3>2. UseFits(q)'
        BY <1>2, <1>4, <2>1, <2>3, <3>1, UseKept
      <3>3. MutationFits(q)'
        <4>1. conn[q] # None => wire'[conn[q]] = wire[conn[q]]
          BY <1>4, <3>1
        <4> QED
          BY <1>2, <2>1, <2>3, <4>1, MutationKept
      <3> QED
        BY <3>2, <3>3
    <2> QED
      BY <2>2, <2>3
  <1> QED
    BY <1>4, <1>5 DEF IInv
(* A request reads its own answer, and nothing of it is under way any more.*)
LEMMA ReadsItsOwn ==
  ASSUME IInv, NEW r \in Request, at[r] = "sent", wire[conn[r]] # <<>>
  PROVE  \E s \in Status : /\ wire[conn[r]] = <<[to |-> r, status |-> s]>>
                           /\ Head(wire[conn[r]]) = [to |-> r, status |-> s]
                           /\ pending[conn[r]] = <<>>
  <1>1. UseFits(r) /\ conn[r] # None /\ conn[r] \in Conn
    BY Uses DEF IInv, UseFits
  <1>2. pending[conn[r]] = <<>> /\ peer[conn[r]] = "open"
    BY <1>1 DEF IInv, ConnFits
  <1>3. pending[conn[r]] # <<r>>
    BY <1>2
  <1>4. PICK s \in Status : wire[conn[r]] = <<[to |-> r, status |-> s]>>
    BY <1>1, <1>2, <1>3 DEF UseFits
  <1>5. Head(<<[to |-> r, status |-> s]>>) = [to |-> r, status |-> s]
    OBVIOUS
  <1> QED
    BY <1>2, <1>4, <1>5

LEMMA AnsweredIInv ==
  ASSUME IInv, TypeOK', NEW r \in Request, Answered(r)
  PROVE  IInv'
  <1>t. TypeOK /\ OwnAnswer /\ MutationFits(r)
    BY DEF IInv
  <1>1. PICK s \in Status : /\ wire[conn[r]] = <<[to |-> r, status |-> s]>>
                            /\ Head(wire[conn[r]]) = [to |-> r, status |-> s]
                            /\ pending[conn[r]] = <<>>
    BY ReadsItsOwn DEF Answered
  <1>2. /\ at[r] = "sent" /\ wire[conn[r]] # <<>>
        /\ got' = [got EXCEPT ![r] = r]
        /\ GiveOrClose(r, s # "large")
        /\ IF MayRepeat(r, s) THEN SleepOrRaise(r)
           ELSE Ends(r, IF s = "ok" THEN "ok" ELSE "failed")
        /\ UNCHANGED <<asks, pending, applied>>
    <2> DEFINE answer == Head(wire[conn[r]])
    <2>1. answer.to = r /\ answer.status = s
      BY <1>1
    <2>2. /\ at[r] = "sent" /\ wire[conn[r]] # <<>>
          /\ got' = [got EXCEPT ![r] = answer.to]
          /\ GiveOrClose(r, answer.status # "large")
          /\ IF MayRepeat(r, answer.status) THEN SleepOrRaise(r)
             ELSE Ends(r, IF answer.status = "ok" THEN "ok" ELSE "failed")
          /\ UNCHANGED <<asks, pending, applied>>
      BY DEF Answered
    <2> HIDE DEF answer
    <2> QED
      BY <2>1, <2>2
  <1>3. /\ at'[r] \in Ended \cup {"sleeping"}
        /\ at'[r] = "sleeping" => MayRepeat(r, s)
        /\ \A q \in Request \ {r} : at'[q] = at[q]
    BY <1>2, <1>t DEF SleepOrRaise, Ends, TypeOK, Ended
  <1>4. OwnAnswer'
    BY <1>2, <1>t DEF OwnAnswer, TypeOK
  <1>5. MutationFits(r)'
    <2> SUFFICES ASSUME Kind(r) \in {"operation", "other"} PROVE MutationFits(r)'
      BY <1>2 DEF MutationFits, Kind
    <2>1. conn'[r] = None
      BY <1>2, <1>t DEF GiveOrClose, TypeOK
    <2>2. conn[r] # None /\ conn[r] \in Conn
      BY <1>2, Uses DEF IInv, UseFits
    <2>3. \A d \in Conn : pending[d] # <<r>>
      <3>1. <<r>> # <<>>
        OBVIOUS
      <3> QED
        BY <1>1, <1>t, <2>2, <3>1 DEF MutationFits
    <2>4. at'[r] = "sleeping" => applied[r] = 0
      <3> SUFFICES ASSUME MayRepeat(r, s) PROVE applied[r] = 0
        BY <1>3
      <3>1. s = "fence"
        BY DEF MayRepeat, Fenced
      <3> QED
        BY <1>1, <1>t, <2>2, <3>1 DEF MutationFits
    <2> QED
      BY <1>2, <1>3, <1>t, <2>1, <2>3, <2>4 DEF MutationFits, Kind, Ended
  <1>6. at'[r] # "sent"
    BY <1>3 DEF Ended
  <1> QED
    BY <1>2, <1>3, <1>4, <1>5, <1>6, LeaveIInv

LEMMA TimesOutIInv ==
  ASSUME IInv, TypeOK', NEW r \in Request, TimesOut(r)
  PROVE  IInv'
  <1>t. TypeOK /\ OwnAnswer /\ MutationFits(r)
    BY DEF IInv
  <1>1. /\ at[r] = "sent" /\ GiveOrClose(r, FALSE)
        /\ UNCHANGED <<asks, got, pending, applied>>
    BY DEF TimesOut
  <1>2. at'[r] = "timeout" /\ \A q \in Request \ {r} : at'[q] = at[q]
    BY <1>t DEF TimesOut, Ends, TypeOK
  <1>3. OwnAnswer'
    BY <1>1, <1>t DEF OwnAnswer
  <1>4. conn'[r] = None
    BY <1>1, <1>t DEF GiveOrClose, TypeOK
  <1>5. MutationFits(r)'
    BY <1>1, <1>2, <1>4, <1>t, MutationKept
  <1> QED
    BY <1>1, <1>2, <1>3, <1>5, LeaveIInv

LEMMA DroppedIInv ==
  ASSUME IInv, TypeOK', NEW r \in Request, Dropped(r)
  PROVE  IInv'
  <1>t. TypeOK /\ OwnAnswer /\ MutationFits(r)
    BY DEF IInv
  <1>1. /\ at[r] = "sent" /\ GiveOrClose(r, FALSE)
        /\ UNCHANGED <<asks, got, pending, applied>>
    BY DEF Dropped, GiveOrClose
  <1>2. /\ at'[r] = "failed" \/ (at'[r] = "connecting" /\ Kind(r) = "read")
        /\ \A q \in Request \ {r} : at'[q] = at[q]
    BY <1>t DEF Dropped, ResentAfterDrop, Ends, TypeOK
  <1>3. OwnAnswer'
    BY <1>1, <1>t DEF OwnAnswer
  <1>4. conn'[r] = None
    BY <1>1, <1>t DEF GiveOrClose, TypeOK
  <1>5. MutationFits(r)'
    <2>1. CASE at'[r] = "failed"
      BY <1>1, <1>4, <1>t, <2>1, MutationKept
    <2>2. CASE Kind(r) = "read"
      BY <1>1, <2>2 DEF MutationFits, Kind
    <2> QED
      BY <1>2, <2>1, <2>2
  <1>6. at'[r] # "sent"
    BY <1>2
  <1> QED
    BY <1>1, <1>2, <1>3, <1>5, <1>6, LeaveIInv
-----------------------------------------------------------------------------
LEMMA StepIInv == IInv /\ [Next]_vars => IInv'
  <1> SUFFICES ASSUME IInv, [Next]_vars PROVE IInv'
    OBVIOUS
  <1>t. TypeOK'
    BY TypeStep
  <1>1. CASE \E r \in Request : Start(r) \/ RequestStep(r)
    BY <1>t, <1>1, StartIInv, TakeIInv, ConnectIInv, ConnectFailsIInv,
       AnsweredIInv, TimesOutIInv, DroppedIInv DEF RequestStep
  <1>2. CASE \E c \in Conn : Process(c) \/ PeerDrops(c)
    BY <1>t, <1>2, ProcessIInv, PeerDropsIInv
  <1>3. CASE UNCHANGED vars
    BY <1>t, <1>3, QuietStep DEF vars, requestVars
  <1> QED
    BY <1>1, <1>2, <1>3 DEF Next, Done

(* The invariant holds in every behaviour.                                 *)
THEOREM Invariant == Spec => []IInv
  BY InitIInv, StepIInv, PTL DEF Spec

(* Every variable keeps its type: the pool never exceeds its bound.        *)
THEOREM TypeCorrect == Spec => []TypeOK
  <1>1. IInv => TypeOK
    BY DEF IInv
  <1> QED
    BY Invariant, <1>1, PTL

(* _should_retry_ucloud_unavailable and open_reusing: a mutation that is   *)
(* not idempotent takes effect at most once, whatever is lost, late or     *)
(* repeated.                                                               *)
THEOREM NeverAppliedTwice == Spec => []AppliedOnce
  <1>1. IInv => AppliedOnce
    BY DEF IInv, MutationFits, AppliedOnce
  <1> QED
    BY Invariant, <1>1, PTL

(* _ConnectionPool: no request reads the answer of another, on however     *)
(* many connections and in whichever order they are reused.                *)
THEOREM ReadsOwnAnswer == Spec => []OwnAnswer
  <1>1. IInv => OwnAnswer
    BY DEF IInv
  <1> QED
    BY Invariant, <1>1, PTL
-----------------------------------------------------------------------------
(* Sandbox groups.                                                         *)

(* An answer under way is awaited, and shows which members there are; they *)
(* can only have been deleted since.                                       *)
ReplyFits ==
    reply # NoAnswer =>
       /\ groupAt = "posting"
       /\ \A m \in Member :
             /\ reply.view[m] = "absent" <=> member[m] = "absent"
             /\ reply.view[m] = "deleted" => member[m] = "deleted"
       /\ reply.status = "busy" => reply.created \subseteq unheard
       /\ reply.status = "unavailable" => reply.created = {}

(* The record of a member has arrived, or is under way, or never left.     *)
RecordsFit ==
    groupAt \in {"posting", "sleeping"} =>
       \A m \in Member : member[m] # "absent" =>
          m \in records \cup unheard \/ (reply # NoAnswer /\ m \in reply.created)

(* The inductive invariant.                                                *)
GroupInv ==
    /\ GroupTypeOK
    /\ ReplyFits
    /\ RecordsFit
    /\ EveryMemberHandled
    /\ ErrorKnowsMembers
-----------------------------------------------------------------------------
LEMMA InitGroupInv == GroupInit => GroupInv
  <1> SUFFICES ASSUME GroupInit PROVE GroupInv
    OBVIOUS
  <1> USE DEF GroupInit
  <1>1. GroupTypeOK
    <2>1. GroupDeadline \in 0..GroupDeadline /\ asyncio \in Async
      BY GroupAssumption
    <2>2. member \in View
      BY DEF View, State
    <2> QED
      BY <2>1, <2>2 DEF GroupTypeOK
  <1>2. ReplyFits /\ RecordsFit
    BY DEF ReplyFits, RecordsFit
  <1>3. EveryMemberHandled /\ ErrorKnowsMembers
    BY DEF EveryMemberHandled, ErrorKnowsMembers
  <1> QED
    BY <1>1, <1>2, <1>3 DEF GroupInv

(* The type of every variable, action by action.                           *)
LEMMA GroupTypeStep == GroupTypeOK /\ [GroupNext]_groupVars => GroupTypeOK'
  <1> SUFFICES ASSUME GroupTypeOK, [GroupNext]_groupVars PROVE GroupTypeOK'
    OBVIOUS
  <1> USE DEF GroupTypeOK, GroupEnded, callVars, GroupEnds, Accept, Fail
  <1>0. reply # NoAnswer =>
           reply \in Reply /\ reply.view \in View /\ reply.created \subseteq Member
    BY DEF Reply
  <1>1. CASE ProcessGroup
    <2>1. PICK created \in SUBSET Member, status \in ReplyStatus :
             /\ member' = [m \in Member |-> IF m \in created THEN "placed" ELSE member[m]]
             /\ reply' = [status |-> status, view |-> member', created |-> created]
             /\ unheard' = IF status = "busy" THEN unheard \cup created ELSE unheard
      BY <1>1 DEF ProcessGroup
    <2>2. member' \in View
      BY <2>1 DEF View, State
    <2>3. reply' \in Reply
      BY <2>1, <2>2 DEF Reply
    <2> QED
      BY <1>1, <2>1, <2>2, <2>3 DEF ProcessGroup
  <1>2. CASE (\E m \in Member : DeleteMember(m)) \/ DeleteGroup
    BY <1>2 DEF DeleteMember, DeleteGroup, View, State
  <1>3. CASE Returned
    BY <1>0, <1>3 DEF Returned, Placed
  <1>4. CASE Incomplete \/ Broken
    BY <1>0, <1>4 DEF Incomplete, Broken
  <1>5. CASE Partial \/ Busy
    BY <1>0, <1>5, GroupAssumption DEF Partial, Busy, PauseOrFail, EnoughTime
  <1>6. CASE Unavailable \/ Unreachable \/ Lost \/ GroupWake
    BY <1>6 DEF Unavailable, Unreachable, Lost, GroupWake
  <1>7. CASE UNCHANGED groupVars
    BY <1>7 DEF groupVars, gatewayVars
  <1> QED
    BY <1>1, <1>2, <1>3, <1>4, <1>5, <1>6, <1>7 DEF GroupNext, CallStep, GroupDone

LEMMA StepGroupInv == GroupInv /\ [GroupNext]_groupVars => GroupInv'
  <1> SUFFICES ASSUME GroupInv, [GroupNext]_groupVars PROVE GroupInv'
    OBVIOUS
  <1>t. GroupTypeOK /\ GroupTypeOK'
    BY GroupTypeStep DEF GroupInv
  <1> USE DEF GroupInv, ReplyFits, RecordsFit, EveryMemberHandled, ErrorKnowsMembers, Placed,
              GroupEnded, callVars, GroupEnds, Accept, Fail
  <1>1. CASE ProcessGroup
    <2>1. PICK created \in SUBSET Member, status \in ReplyStatus :
             /\ created \subseteq {m \in Member : member[m] = "absent"}
             /\ status = "unavailable" => created = {}
             /\ member' = [m \in Member |-> IF m \in created THEN "placed" ELSE member[m]]
             /\ reply' = [status |-> status, view |-> member', created |-> created]
             /\ unheard' = IF status = "busy" THEN unheard \cup created ELSE unheard
      BY <1>1 DEF ProcessGroup
    <2>2. groupAt = "posting" /\ groupAt' = "posting" /\ records' = records /\ reply = NoAnswer
      BY <1>1 DEF ProcessGroup
    <2>3. ReplyFits'
      BY <2>1, <2>2
    <2>4. RecordsFit'
      <3> SUFFICES ASSUME NEW m \in Member, member'[m] # "absent"
                   PROVE  \/ m \in records' \cup unheard'
                          \/ reply' # NoAnswer /\ m \in reply'.created
        BY <2>2
      <3>1. CASE m \in created
        <4>1. reply' \in Reply
          BY <1>t, <2>1 DEF GroupTypeOK, Reply
        <4> QED
          BY NoAnswerAssumption, <2>1, <3>1, <4>1
      <3>2. CASE m \notin created
        BY <2>1, <2>2, <3>2
      <3> QED
        BY <3>1, <3>2
    <2> QED
      BY <1>t, <2>2, <2>3, <2>4
  <1>2. CASE (\E m \in Member : DeleteMember(m)) \/ DeleteGroup
    <2>1. UNCHANGED <<callVars, reply, unheard>>
      BY <1>2 DEF DeleteMember, DeleteGroup
    <2>2. \A m \in Member : \/ member'[m] = member[m]
                            \/ member[m] = "placed" /\ member'[m] = "deleted"
      BY <1>t, <1>2 DEF DeleteMember, DeleteGroup, GroupTypeOK, View
    <2>3. ReplyFits' /\ RecordsFit'
      BY <2>1, <2>2
    <2>4. EveryMemberHandled' /\ ErrorKnowsMembers'
      BY <2>1, <2>2
    <2> QED
      BY <1>t, <2>3, <2>4
  <1>3. CASE Returned
    <2>1. /\ groupAt = "posting" /\ reply # NoAnswer
          /\ groupAt' = "returned" /\ reply' = NoAnswer
          /\ \A m \in Member : reply.view[m] # "absent"
          /\ member' = member /\ unheard' = unheard
          /\ handles' = [made |-> Placed(reply.view),
                         recorded |-> (records \cup reply.created) \cap Placed(reply.view)]
      BY <1>3 DEF Returned
    <2>2. \A m \in Member : reply.view[m] \in {"absent", "placed", "deleted"}
      BY <1>t, <2>1 DEF GroupTypeOK, Reply, View, State
    <2>3. EveryMemberHandled'
      <3>1. \A m \in Member : member[m] # "absent"
        BY <2>1
      <3>2. Placed(member) \subseteq Placed(reply.view)
        BY <2>1, <2>2
      <3>3. Placed(reply.view) \subseteq handles'.recorded \cup unheard
        BY <2>1, <3>1
      <3> QED
        BY <2>1, <3>1, <3>2, <3>3
    <2>4. ReplyFits' /\ RecordsFit' /\ ErrorKnowsMembers'
      BY <2>1
    <2> QED
      BY <1>t, <2>3, <2>4
  <1>4. CASE Incomplete \/ Broken
    BY <1>t, <1>4 DEF Incomplete, Broken
  <1>5. CASE Partial \/ Busy
    BY <1>t, <1>5 DEF Partial, Busy, PauseOrFail
  <1>6. CASE Unavailable \/ Unreachable \/ Lost \/ GroupWake
    BY <1>t, <1>6 DEF Unavailable, Unreachable, Lost, GroupWake
  <1>7. CASE UNCHANGED groupVars
    BY <1>t, <1>7 DEF groupVars, gatewayVars
  <1> QED
    BY <1>1, <1>2, <1>3, <1>4, <1>5, <1>6, <1>7 DEF GroupNext, CallStep, GroupDone

(* The invariant holds in every behaviour.                                 *)
THEOREM GroupInvariant == GroupSpec => []GroupInv
  BY InitGroupInv, StepGroupInv, PTL DEF GroupSpec

(* Every variable keeps its type.                                          *)
THEOREM GroupTypeCorrect == GroupSpec => []GroupTypeOK
  <1>1. GroupInv => GroupTypeOK
    BY DEF GroupInv
  <1> QED
    BY GroupInvariant, <1>1, PTL

(* _SandboxGroupCreate.handles: a call that returns hands out a handle for *)
(* each member that is there, and a record wherever one ever arrived,      *)
(* whichever answers were retried and whoever deleted members meanwhile.   *)
THEOREM NoMemberLost == GroupSpec => []EveryMemberHandled
  <1>1. GroupInv => EveryMemberHandled
    BY DEF GroupInv
  <1> QED
    BY GroupInvariant, <1>1, PTL

(* _SandboxGroupCreate.error: the error names every member that the last   *)
(* answer with members showed placed.                                      *)
THEOREM ErrorNamesMembers == GroupSpec => []ErrorKnowsMembers
  <1>1. GroupInv => ErrorKnowsMembers
    BY DEF GroupInv
  <1> QED
    BY GroupInvariant, <1>1, PTL
=============================================================================

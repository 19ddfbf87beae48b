-------------------------- MODULE ProcessInput_proofs --------------------------
(***************************************************************************)
(* Proofs about reading the output of a process and feeding it, for every  *)
(* set of cases, every size of page and of pipe: every reader implements   *)
(* the output stream (OutputInOrder), stdin arrives in order               *)
(* (StdinInOrder) and is closed behind all that was written (ClosedStdin). *)
(***************************************************************************)
EXTENDS ProcessInput, FiniteSetTheorems, SequenceTheorems, TLAPS

(* The n pieces behind position a, in order.                               *)
Pieces(a, n) == [i \in 1..n |-> a + i]

(* The gateway: an exec session keeps all that was written; nothing is     *)
(* written behind the end of a job, of a session of an older gateway, or   *)
(* of streams that were closed; the last event is never lost.              *)
GatewayFits ==
    /\ case \in Cases
    /\ written \in Nat /\ kept \in Nat /\ kept <= written
    /\ Exec => kept = written
    /\ owed \in Nat \cup {None} /\ final \in Nat \cup {None}
    /\ owed # None => owed <= written
    /\ owed # None /\ ~(Exec /\ case.gateway = "new") => owed = written
    /\ final # None => Exec /\ owed # None /\ final = written
    /\ lost \subseteq Nat /\ (lost # {} => Exec)
    /\ \A p \in lost : p < written

(* What the gateway once said of the process: an end that it told is not   *)
(* before the exit.                                                        *)
StatusFits(s) ==
    /\ s.terminal => owed # None
    /\ Exec /\ s.final # None => owed # None /\ s.final \in Nat /\ owed <= s.final
    /\ ~Exec /\ s.terminal /\ ~s.truncated => s.final = owed

(* The answer the reader works on.  One of an exec session that has no     *)
(* events and says that the process exited came when all had been read.    *)
ReplyFits ==
    at \in {"answered", "status", "handing", "last"} =>
       /\ StatusFits(reply.status)
       /\ reply.page \in Seq({reply.page[i] : i \in DOMAIN reply.page})
       /\ at = "answered" => cursor + Len(reply.page) <= kept
       /\ at = "answered" /\ ~Exec => Follows(reply.page)
       /\ Exec /\ reply.page = <<>> /\ reply.status.terminal => owed <= cursor
       /\ Exec /\ at = "handing" /\ reply.page = <<>> => session = reply.status

(* What was handed out, and what is collected or left to hand out, is what *)
(* is before the cursor.                                                   *)
HandFits ==
    at # "failed" =>
       /\ cursor \in Nat /\ cursor <= kept
       /\ page \in Seq(Nat) /\ Len(page) <= cursor
       /\ at \in {"reading", "answered"} => page = <<>>
       /\ at \in {"status", "last"} => ~Exec
       /\ at = "last" => owed # None /\ owed <= cursor
       /\ case.reader = "wait" => page = <<>> /\ events = Pieces(0, cursor)
       /\ case.reader = "wait" /\ at # "ended" => out = <<>>
       /\ case.reader # "wait" => /\ out = Pieces(0, cursor - Len(page))
                                  /\ page = Pieces(cursor - Len(page), Len(page))

(* The invariant of the output.                                            *)
OutInv ==
    /\ GatewayFits
    /\ at \in {"reading", "answered", "status", "handing", "last", "ended", "failed"}
    /\ StatusFits(session)
    /\ asked # None => StatusFits(asked)
    /\ ReplyFits
    /\ HandFits

InputTypes ==
    /\ received \in Seq(Nat)
    /\ eofAt \in Nat \cup {None}
    /\ wrote \in Nat
    /\ buffer \in Seq(Nat) /\ sending \in Seq(Nat)
    /\ drain["app"] \in {"idle", "waiting", "sending"}
    /\ drain["closer"] \in {"idle", "waiting", "sending", "eof", "failed", "closed"}
    /\ DOMAIN drain = Drainers

(* exec closes the input when it has written it.                           *)
FedFits ==
    ~Adapter => /\ received = Pieces(0, Len(received))
                /\ eofAt # None => writing = "done" /\ eofAt = Len(received)

(* One drain sends at a time; the closer sends after the last write, and   *)
(* when it sent the end of the input there was nothing left to send.       *)
LockFits ==
    Adapter =>
       /\ ~(drain["app"] = "sending" /\ drain["closer"] = "sending")
       /\ ~Locked => sending = <<>>
       /\ drain["closer"] = "sending" => buffer = <<>>
       /\ drain["closer"] \in {"eof", "closed"} \/ eofAt # None =>
             buffer = <<>> /\ drain["app"] # "sending"
       /\ eofAt # None => /\ drain["closer"] \in {"closed", "failed"}
                          /\ eofAt = Len(received)
                          /\ ~cancelled => Len(received) = wrote

(* While no drain was cancelled, what arrived, what is being sent and what *)
(* is buffered cover all that was written: a drain that failed may have    *)
(* arrived, so that the first two may overlap.                             *)
StdinFits ==
    Adapter /\ ~cancelled =>
       LET sent == wrote - Len(buffer)
       IN  /\ Len(sending) <= sent /\ Len(buffer) <= wrote
           /\ buffer = Pieces(sent, Len(buffer))
           /\ sending = Pieces(sent - Len(sending), Len(sending))
           /\ received = Pieces(0, Len(received))
           /\ sent - Len(sending) <= Len(received) /\ Len(received) <= wrote

(* The invariant of the input.                                             *)
InInv == InputTypes /\ FedFits /\ LockFits /\ StdinFits

(* The inductive invariant.                                                *)
IInv == OutInv /\ InInv
-----------------------------------------------------------------------------
(* Sequences of pieces.                                                    *)

(* Pieces(a, n) is a sequence of n numbers.                                *)
LEMMA PiecesType ==
    ASSUME NEW a \in Nat, NEW n \in Nat
    PROVE  /\ Pieces(a, n) \in Seq(Nat)
           /\ Len(Pieces(a, n)) = n
           /\ \A i \in 1..n : Pieces(a, n)[i] = a + i
  <1>1. Pieces(a, n) \in [1..n -> Nat] BY DEF Pieces
  <1>2. Pieces(a, n) \in Seq(Nat) BY <1>1, SeqDef
  <1>3. Len(Pieces(a, n)) = n BY <1>1, <1>2, LenProperties
  <1> QED BY <1>2, <1>3 DEF Pieces

(* A sequence that counts on from a is one of pieces.                      *)
LEMMA PiecesAre ==
    ASSUME NEW a \in Nat, NEW S, NEW s \in Seq(S), \A i \in 1..Len(s) : s[i] = a + i
    PROVE  s = Pieces(a, Len(s)) /\ s \in Seq(Nat)
  <1>1. Len(s) \in Nat /\ s \in [1..Len(s) -> S] BY LenProperties
  <1>2. s = [i \in 1..Len(s) |-> s[i]] BY <1>1
  <1>3. s = Pieces(a, Len(s)) BY <1>2 DEF Pieces
  <1> QED BY <1>1, <1>3, PiecesType

(* No pieces are the empty sequence.                                       *)
LEMMA NoPieces ==
    ASSUME NEW a \in Nat
    PROVE  Pieces(a, 0) = <<>>
  <1>1. Pieces(a, 0) \in Seq(Nat) /\ Len(Pieces(a, 0)) = 0 BY PiecesType
  <1> QED BY <1>1, EmptySeq

(* Pieces that follow each other, put together.                            *)
LEMMA PiecesJoin ==
    ASSUME NEW a \in Nat, NEW m \in Nat, NEW n \in Nat
    PROVE  Pieces(a, m) \o Pieces(a + m, n) = Pieces(a, m + n)
  <1> DEFINE s == Pieces(a, m)
             t == Pieces(a + m, n)
  <1>1. s \in Seq(Nat) /\ Len(s) = m /\ \A i \in 1..m : s[i] = a + i BY PiecesType
  <1>2. t \in Seq(Nat) /\ Len(t) = n /\ \A i \in 1..n : t[i] = a + m + i
    <2>1. a + m \in Nat OBVIOUS
    <2> QED BY <2>1, PiecesType
  <1> HIDE DEF s, t
  <1>3. /\ s \o t \in Seq(Nat)
        /\ Len(s \o t) = m + n
        /\ \A i \in 1..(m + n) : (s \o t)[i] = IF i <= m THEN s[i] ELSE t[i - m]
    <2>1. /\ s \o t \in Seq(Nat)
          /\ Len(s \o t) = Len(s) + Len(t)
          /\ \A i \in 1..(Len(s) + Len(t)) :
                (s \o t)[i] = IF i <= Len(s) THEN s[i] ELSE t[i - Len(s)]
      BY <1>1, <1>2, ConcatProperties
    <2> QED BY <1>1, <1>2, <2>1
  <1>4. ASSUME NEW i \in 1..(m + n)
        PROVE  (s \o t)[i] = a + i
    <2>1. CASE i <= m
      <3>1. i \in 1..m BY <2>1
      <3> QED BY <2>1, <3>1, <1>1, <1>3
    <2>2. CASE ~(i <= m)
      <3>1. i - m \in 1..n BY <2>2
      <3>2. t[i - m] = a + m + (i - m) BY <3>1, <1>2
      <3> QED BY <2>2, <3>2, <1>3
    <2> QED BY <2>1, <2>2
  <1>5. s \o t = Pieces(a, Len(s \o t)) BY <1>3, <1>4, PiecesAre
  <1> QED BY <1>3, <1>5 DEF s, t

(* One more piece.                                                         *)
LEMMA PiecesAppend ==
    ASSUME NEW a \in Nat, NEW n \in Nat
    PROVE  Append(Pieces(a, n), a + n + 1) = Pieces(a, n + 1)
  <1> DEFINE s == Pieces(a, n)
  <1>1. s \in Seq(Nat) /\ Len(s) = n /\ \A i \in 1..n : s[i] = a + i BY PiecesType
  <1> HIDE DEF s
  <1> DEFINE t == Append(s, a + n + 1)
  <1>2. /\ t \in Seq(Nat) /\ Len(t) = n + 1
        /\ \A i \in 1..(n + 1) : t[i] = a + i
    BY <1>1, AppendProperties
  <1> HIDE DEF t
  <1>3. t = Pieces(a, n + 1) BY <1>2, PiecesAre
  <1> QED BY <1>3 DEF s, t

(* The first piece and the others.                                         *)
LEMMA PiecesTail ==
    ASSUME NEW a \in Nat, NEW n \in Nat \ {0}
    PROVE  /\ Head(Pieces(a, n)) = a + 1
           /\ Tail(Pieces(a, n)) = Pieces(a + 1, n - 1)
  <1> DEFINE s == Pieces(a, n)
  <1>1. s \in Seq(Nat) /\ Len(s) = n /\ \A i \in 1..n : s[i] = a + i BY PiecesType
  <1> HIDE DEF s
  <1>2. s # <<>> BY <1>1
  <1>3. Head(s) = a + 1 BY <1>1, <1>2
  <1> DEFINE t == Tail(s)
  <1>4. /\ t \in Seq(Nat) /\ Len(t) = n - 1
        /\ \A i \in 1..(n - 1) : t[i] = a + 1 + i
    BY <1>1, <1>2, HeadTailProperties
  <1> HIDE DEF t
  <1>5. t = Pieces(a + 1, n - 1)
    <2>1. a + 1 \in Nat OBVIOUS
    <2>2. t = Pieces(a + 1, Len(t)) BY <1>4, <2>1, PiecesAre
    <2> QED BY <1>4, <2>2
  <1> QED BY <1>3, <1>5 DEF s, t

(* What is left of pieces without the first k.                             *)
LEMMA PiecesBehind ==
    ASSUME NEW a \in Nat, NEW n \in Nat, NEW k \in 0..n
    PROVE  SubSeq(Pieces(a, n), k + 1, n) = Pieces(a + k, n - k)
  <1> DEFINE s == Pieces(a, n)
  <1>1. s \in Seq(Nat) /\ Len(s) = n /\ \A i \in 1..n : s[i] = a + i BY PiecesType
  <1> HIDE DEF s
  <1> DEFINE t == SubSeq(s, k + 1, n)
  <1>2. /\ t \in Seq(Nat) /\ Len(t) = n - k
        /\ \A i \in 1..(n - k) : t[i] = a + k + i
    BY <1>1, SubSeqProperties
  <1> HIDE DEF t
  <1>3. t = Pieces(a + k, n - k) BY <1>2, PiecesAre
  <1> QED BY <1>3 DEF s, t
-----------------------------------------------------------------------------
(* The answer of the gateway has no more than there is behind the cursor;  *)
(* it is empty only if nothing is left to read, and from a log of which    *)
(* nothing was lost it goes on where the cursor is.                        *)
LEMMA PageFits ==
    ASSUME cursor \in Nat, kept \in Nat, cursor <= kept, \A p \in lost : p < kept
    PROVE  /\ NextPage \in Seq({NextPage[i] : i \in DOMAIN NextPage})
           /\ cursor + Len(NextPage) <= kept
           /\ NextPage = <<>> => cursor = kept
           /\ lost = {} => Follows(NextPage)
  <1> DEFINE n == Cardinality(Ahead)
             P == NextPage
             R == {P[i] : i \in DOMAIN P}
  <1>1. /\ IsFiniteSet((cursor + 1)..kept)
        /\ Cardinality((cursor + 1)..kept) = kept - cursor
    <2>1. cursor + 1 \in Int /\ kept \in Int OBVIOUS
    <2>2. /\ IsFiniteSet((cursor + 1)..kept)
          /\ Cardinality((cursor + 1)..kept)
               = IF cursor + 1 > kept THEN 0 ELSE kept - (cursor + 1) + 1
      BY <2>1, FS_Interval
    <2> QED BY <2>2
  <1>2. Ahead \subseteq (cursor + 1)..kept BY DEF Ahead
  <1>3. IsFiniteSet(Ahead) /\ n \in Nat /\ n <= kept - cursor
    BY <1>1, <1>2, FS_Subset, FS_CardinalityType
  <1>4. PageSize \in Nat /\ PageSize <= n /\ (PageSize = 0 => n = 0)
    BY <1>3, CaseAssumption DEF PageSize
  <1>5. P \in [1..PageSize -> R] BY DEF NextPage
  <1>6. P \in Seq(R) BY <1>4, <1>5, SeqDef
  <1>7. Len(P) = PageSize /\ DOMAIN P = 1..PageSize BY <1>4, <1>5, <1>6, LenProperties
  <1>8. ASSUME P = <<>> PROVE cursor = kept
    <2>1. n = 0 BY <1>4, <1>7, <1>8
    <2>2. Ahead = {} BY <2>1, <1>3, FS_EmptySet
    <2>3. kept \notin Ahead BY <2>2
    <2> QED BY <2>3 DEF Ahead
  <1>9. ASSUME lost = {}, NEW i \in 1..PageSize PROVE P[i] = cursor + i
    <2>1. Ahead = (cursor + 1)..kept BY <1>9 DEF Ahead
    <2>2. i <= kept - cursor BY <1>3, <1>4
    <2>3. cursor + i \in Ahead BY <2>1, <2>2
    <2>4. ASSUME NEW p \in Ahead PROVE Rank(p) = p - cursor - 1
      <3>1. {q \in Ahead : q < p} = (cursor + 1)..(p - 1) BY <2>1, <2>4
      <3>2. p \in Int /\ cursor + 1 <= p BY <2>1, <2>4
      <3>3. Cardinality((cursor + 1)..(p - 1)) = p - cursor - 1 BY <3>2, FS_Interval
      <3> QED BY <3>1, <3>3 DEF Rank
    <2>5. Rank(cursor + i) = i - 1 BY <2>3, <2>4
    <2>6. P[i] \in Ahead /\ Rank(P[i]) = i - 1 BY <2>3, <2>5, <1>7 DEF NextPage
    <2>7. P[i] - cursor - 1 = i - 1 BY <2>4, <2>6
    <2>8. P[i] \in Int BY <2>1, <2>6
    <2> QED BY <2>7, <2>8
  <1>10. lost = {} => Follows(P) BY <1>7, <1>9 DEF Follows
  <1> QED BY <1>3, <1>4, <1>6, <1>7, <1>8, <1>10

(* What arrives of pieces, when those in front have arrived before.        *)
LEMMA ReceivedRun ==
    ASSUME NEW r \in Nat, received = Pieces(0, r),
           NEW a \in 0..r, NEW n \in Nat
    PROVE  Received(Pieces(a, n)) = Pieces(0, IF a + n > r THEN a + n ELSE r)
  <1> DEFINE s == Pieces(a, n)
             k == IF a + n > r THEN r - a ELSE n
             Old == {i \in DOMAIN s : \E j \in DOMAIN received : received[j] = s[i]}
  <1>0. a \in Nat OBVIOUS
  <1>1. s \in Seq(Nat) /\ Len(s) = n /\ \A i \in 1..n : s[i] = a + i BY <1>0, PiecesType
  <1>2. received \in Seq(Nat) /\ Len(received) = r /\ \A i \in 1..r : received[i] = i
    <2>1. \A i \in 1..r : Pieces(0, r)[i] = 0 + i BY PiecesType
    <2> QED BY <2>1, PiecesType
  <1>3. k \in 0..n BY DEF k
  <1>4. Old = 1..k
    <2>1. DOMAIN s = 1..n /\ DOMAIN received = 1..r BY <1>1, <1>2, LenProperties
    <2>2. ASSUME NEW i \in 1..n
          PROVE  (\E j \in 1..r : received[j] = s[i]) <=> i <= k
      <3>1. s[i] = a + i BY <1>1
      <3>2. (\E j \in 1..r : received[j] = s[i]) <=> a + i \in 1..r BY <1>2, <3>1
      <3>3. a + i \in 1..r <=> i <= k BY DEF k
      <3> QED BY <3>2, <3>3
    <2>3. Old = {i \in 1..n : i <= k} BY <2>1, <2>2
    <2> QED BY <2>3, <1>3
  <1>5. Repeated(s) = k
    <2> HIDE DEF k
    <2>1. Cardinality(1..k) = IF 1 > k THEN 0 ELSE k - 1 + 1 BY <1>3, FS_Interval
    <2>2. Cardinality(1..k) = k BY <1>3, <2>1
    <2> HIDE DEF s
    <2> QED BY <2>2, <1>4 DEF Repeated
  <1>6. Received(s) = received \o Pieces(a + k, n - k)
    <2> HIDE DEF k
    <2>1. SubSeq(Pieces(a, n), k + 1, n) = Pieces(a + k, n - k) BY <1>0, <1>3, PiecesBehind
    <2> HIDE DEF s
    <2> QED BY <2>1, <1>1, <1>5 DEF Received, s
  <1>7. CASE a + n > r
    <2>1. k = r - a BY <1>7 DEF k
    <2>2. a + k = 0 + r /\ n - k \in Nat /\ r + (n - k) = a + n BY <2>1, <1>7
    <2>3. Pieces(0, r) \o Pieces(0 + r, n - k) = Pieces(0, r + (n - k)) BY <2>2, PiecesJoin
    <2> HIDE DEF k, s
    <2>4. Received(s) = Pieces(0, a + n) BY <2>2, <2>3, <1>6
    <2> QED BY <2>4, <1>7 DEF s
  <1>8. CASE ~(a + n > r)
    <2>1. k = n /\ n - k = 0 /\ a + k \in Nat BY <1>8 DEF k
    <2>2. Pieces(a + k, n - k) = <<>> BY <2>1, NoPieces
    <2>3. received \o <<>> = received BY <1>2, ConcatEmptySeq
    <2> HIDE DEF k, s
    <2>4. Received(s) = Pieces(0, r) BY <2>2, <2>3, <1>6
    <2> QED BY <2>4, <1>8 DEF s
  <1> QED BY <1>7, <1>8
-----------------------------------------------------------------------------
(* The output: the inductive step.                                         *)

LEMMA OutStarts == OutputInit => OutInv
  <1> SUFFICES ASSUME OutputInit PROVE OutInv OBVIOUS
  <1> USE DEF OutputInit
  <1>1. GatewayFits BY NoneAssumption DEF GatewayFits
  <1>2. StatusFits(session) BY DEF StatusFits
  <1>3. Pieces(0, 0) = <<>> BY NoPieces
  <1>4. HandFits BY <1>1, <1>3 DEF HandFits, GatewayFits
  <1> QED BY <1>1, <1>2, <1>4 DEF OutInv, ReplyFits

(* A step that leaves the reader alone, takes nothing from the log and     *)
(* ends the process at most once.                                          *)
LEMMA GatewayMoves ==
    ASSUME OutInv, UNCHANGED <<case, readerVars>>, GatewayFits',
           kept <= kept', owed # None => owed' = owed
    PROVE  OutInv'
  <1> USE DEF readerVars
  <1>1. Exec' = Exec BY DEF Exec
  <1>2. \A s : StatusFits(s) =>
              /\ s.terminal => owed' # None
              /\ Exec /\ s.final # None => owed' # None /\ s.final \in Nat /\ owed' <= s.final
              /\ ~Exec /\ s.terminal /\ ~s.truncated => s.final = owed'
    BY DEF StatusFits
  <1>3. StatusFits(session)' BY <1>1, <1>2 DEF OutInv, StatusFits
  <1>4. (asked # None => StatusFits(asked))' BY <1>1, <1>2 DEF OutInv, StatusFits
  <1>5. kept \in Nat /\ kept' \in Nat BY DEF OutInv, GatewayFits
  <1>6. ReplyFits'
    <2> SUFFICES ASSUME at \in {"answered", "status", "handing", "last"} PROVE ReplyFits'
      BY DEF ReplyFits
    <2>1. StatusFits(reply.status)' BY <1>1, <1>2 DEF OutInv, ReplyFits, StatusFits
    <2>2. (reply.page \in Seq({reply.page[i] : i \in DOMAIN reply.page}))'
      BY DEF OutInv, ReplyFits
    <2>3. at = "answered" => cursor + Len(reply.page) <= kept'
      <3> SUFFICES ASSUME at = "answered" PROVE cursor + Len(reply.page) <= kept' OBVIOUS
      <3>1. cursor \in Nat BY DEF OutInv, HandFits
      <3>2. Len(reply.page) \in Nat BY LenProperties DEF OutInv, ReplyFits
      <3>3. cursor + Len(reply.page) <= kept BY DEF OutInv, ReplyFits
      <3> QED BY <3>1, <3>2, <3>3, <1>5
    <2>4. (at = "answered" /\ ~Exec => Follows(reply.page))'
      BY <1>1 DEF OutInv, ReplyFits, Follows
    <2>5. Exec /\ reply.page = <<>> /\ reply.status.terminal => owed' <= cursor
      BY DEF OutInv, ReplyFits, StatusFits
    <2>6. Exec /\ at = "handing" /\ reply.page = <<>> => session = reply.status
      BY DEF OutInv, ReplyFits
    <2> QED BY <2>1, <2>2, <2>3, <2>4, <2>5, <2>6, <1>1 DEF ReplyFits
  <1>7. HandFits'
    <2>1. at # "failed" => cursor \in Nat /\ cursor <= kept' BY <1>5 DEF OutInv, HandFits
    <2> QED BY <2>1, <1>1 DEF OutInv, HandFits
  <1> QED BY <1>3, <1>4, <1>6, <1>7 DEF OutInv
-----------------------------------------------------------------------------
(* The steps of the process and the gateway.                               *)

LEMMA GatewayStepInv ==
    ASSUME OutInv, GatewayStep
    PROVE  OutInv'
  <1> USE DEF readerVars
  <1>0. GatewayFits BY DEF OutInv
  <1>1. CASE Write
    <2>1. case \in Cases /\ case.bound \in Nat BY <1>0, CaseAssumption DEF GatewayFits
    <2>2. UNCHANGED <<case, readerVars, owed>> /\ kept <= kept'
      BY <1>0, <1>1 DEF Write, GatewayFits
    <2>3. GatewayFits' BY <1>0, <1>1, <2>1, NoneAssumption DEF Write, GatewayFits, Exec
    <2> QED BY <2>2, <2>3, GatewayMoves
  <1>2. CASE Exit
    <2>1. UNCHANGED <<case, readerVars, kept>> /\ owed = None BY <1>2 DEF Exit
    <2>2. GatewayFits' BY <1>0, <1>2, NoneAssumption DEF Exit, GatewayFits, Exec
    <2>3. kept <= kept' BY <1>0, <2>1 DEF GatewayFits
    <2> QED BY <2>1, <2>2, <2>3, GatewayMoves
  <1>3. CASE CloseStreams
    <2>1. UNCHANGED <<case, readerVars, kept, owed>> BY <1>3 DEF CloseStreams
    <2>2. GatewayFits' BY <1>0, <1>3, NoneAssumption DEF CloseStreams, GatewayFits, Exec
    <2>3. kept <= kept' BY <1>0, <2>1 DEF GatewayFits
    <2> QED BY <2>1, <2>2, <2>3, GatewayMoves
  <1>4. CASE LoseEvent
    <2>1. UNCHANGED <<case, readerVars, kept, owed>> BY <1>4 DEF LoseEvent
    <2>2. GatewayFits' BY <1>0, <1>4 DEF LoseEvent, GatewayFits, Exec
    <2>3. kept <= kept' BY <1>0, <2>1 DEF GatewayFits
    <2> QED BY <2>1, <2>2, <2>3, GatewayMoves
  <1> QED BY <1>1, <1>2, <1>3, <1>4 DEF GatewayStep

(* The process of exec, and a kill that arrives.                           *)
LEMMA ProcessStepInv ==
    ASSUME OutInv, Copy \/ Copied \/ Kill \/ Signalled
    PROVE  OutInv'
  <1> USE DEF readerVars
  <1>0. GatewayFits BY DEF OutInv
  <1>1. CASE Copy
    <2>1. UNCHANGED <<case, readerVars, owed>> /\ kept <= kept'
      BY <1>0, <1>1 DEF Copy, GatewayFits
    <2>2. Exec BY <1>1 DEF Copy, ExecCall, Exec
    <2>3. GatewayFits' BY <1>0, <1>1, <2>2, NoneAssumption DEF Copy, GatewayFits, Exec
    <2> QED BY <2>1, <2>3, GatewayMoves
  <1>2. CASE Copied \/ Kill \/ Signalled
    <2>1. /\ UNCHANGED <<case, readerVars, kept, written, final, lost>>
          /\ owed' = owed \/ (owed = None /\ owed' = written)
      BY <1>2 DEF Copied, Kill, Signalled
    <2>2. GatewayFits' BY <1>0, <2>1, NoneAssumption DEF GatewayFits, Exec
    <2>3. kept <= kept' /\ (owed # None => owed' = owed) BY <1>0, <2>1 DEF GatewayFits
    <2> QED BY <2>1, <2>2, <2>3, GatewayMoves
  <1> QED BY <1>1, <1>2
-----------------------------------------------------------------------------
(* The steps of the reader.                                                *)

(* What the gateway says now is true.                                      *)
LEMMA NowFits == GatewayFits => StatusFits(Now)
  <1> SUFFICES ASSUME GatewayFits PROVE StatusFits(Now) OBVIOUS
  <1>1. Now.terminal = (owed # None) /\ Now.truncated = (kept < written) BY DEF Now
  <1>2. Exec => Now.final = final BY DEF Now
  <1>3. ~Exec => Now.final = kept BY DEF Now
  <1>4. Exec /\ Now.final # None => owed # None /\ Now.final \in Nat /\ owed <= Now.final
    BY <1>2 DEF GatewayFits
  <1>5. ASSUME ~Exec, Now.terminal, ~Now.truncated PROVE Now.final = owed
    <2>1. owed # None /\ ~(kept < written) BY <1>5 DEF Now
    <2>2. owed = written /\ kept = written BY <1>5, <2>1 DEF GatewayFits
    <2> QED BY <2>2, <1>3, <1>5
  <1>6. Now.terminal => owed # None BY DEF Now
  <1> QED BY <1>4, <1>5, <1>6 DEF StatusFits

(* A step of the reader leaves what the gateway has, and so what is known  *)
(* of it, as it is.                                                        *)
LEMMA ReaderKeeps ==
    ASSUME OutInv, UNCHANGED gatewayVars
    PROVE  /\ GatewayFits' /\ Exec' = Exec
           /\ session' = session \/ StatusFits(session') => StatusFits(session)'
           /\ asked' = asked => (asked # None => StatusFits(asked))'
           /\ reply' = reply /\ at \in {"answered", "status", "handing", "last"}
                 => StatusFits(reply.status)'
  <1> USE DEF gatewayVars
  <1>1. GatewayFits' BY DEF OutInv, GatewayFits, Exec
  <1>2. Exec' = Exec BY DEF Exec
  <1>3. session' = session \/ StatusFits(session') => StatusFits(session)'
    BY <1>2 DEF OutInv, StatusFits
  <1>4. asked' = asked => (asked # None => StatusFits(asked))'
    BY <1>2 DEF OutInv, StatusFits
  <1>5. reply' = reply /\ at \in {"answered", "status", "handing", "last"}
           => StatusFits(reply.status)'
    BY <1>2 DEF OutInv, ReplyFits, StatusFits
  <1> QED BY <1>1, <1>2, <1>3, <1>4, <1>5

LEMMA AnswerInv ==
    ASSUME OutInv, Answer
    PROVE  OutInv'
  <1> USE DEF Answer
  <1>1. UNCHANGED gatewayVars BY DEF gatewayVars
  <1>2. /\ GatewayFits' /\ Exec' = Exec /\ StatusFits(session)'
        /\ (asked # None => StatusFits(asked))'
    BY <1>1, ReaderKeeps
  <1>3. /\ at = "reading" /\ at' = "answered"
        /\ reply'.page = NextPage /\ reply'.status = Now
        /\ UNCHANGED <<cursor, session, page, events, out>>
    OBVIOUS
  <1>4. GatewayFits /\ HandFits BY DEF OutInv
  <1>5. cursor \in Nat /\ kept \in Nat /\ cursor <= kept BY <1>3, <1>4 DEF HandFits, GatewayFits
  <1>6. \A p \in lost : p < kept BY <1>4 DEF GatewayFits
  <1>7. /\ NextPage \in Seq({NextPage[i] : i \in DOMAIN NextPage})
        /\ cursor + Len(NextPage) <= kept
        /\ NextPage = <<>> => cursor = kept
        /\ lost = {} => Follows(NextPage)
    BY <1>5, <1>6, PageFits
  <1>8. StatusFits(Now) BY <1>4, NowFits
  <1>9. UNCHANGED <<case, kept, owed, written, lost, final>> BY <1>1 DEF gatewayVars
  <1>10. ReplyFits'
    <2>1. StatusFits(reply.status)' BY <1>2, <1>3, <1>8, <1>9 DEF StatusFits
    <2>2. (reply.page \in Seq({reply.page[i] : i \in DOMAIN reply.page}))' BY <1>3, <1>7
    <2>3. (cursor + Len(reply.page) <= kept)' BY <1>3, <1>7, <1>9
    <2>4. (~Exec => Follows(reply.page))'
      BY <1>2, <1>3, <1>4, <1>7 DEF GatewayFits, Follows
    <2>5. (Exec /\ reply.page = <<>> /\ reply.status.terminal => owed <= cursor)'
      <3> SUFFICES ASSUME Exec, NextPage = <<>>, Now.terminal PROVE owed <= cursor
        BY <1>2, <1>3, <1>9
      <3>1. owed # None BY DEF Now
      <3>2. owed <= written /\ kept = written BY <3>1, <1>4 DEF GatewayFits
      <3> QED BY <3>2, <1>7
    <2> QED BY <2>1, <2>2, <2>3, <2>4, <2>5, <1>3 DEF ReplyFits
  <1>11. HandFits' BY <1>3, <1>4, <1>9 DEF HandFits, Exec
  <1> QED BY <1>2, <1>3, <1>10, <1>11 DEF OutInv

LEMMA StopsInv ==
    ASSUME OutInv, Stops
    PROVE  OutInv'
  <1>1. UNCHANGED gatewayVars BY DEF Stops
  <1>2. /\ GatewayFits' /\ StatusFits(session)' /\ (asked # None => StatusFits(asked))'
    BY <1>1, ReaderKeeps DEF Stops
  <1>3. at' = "failed" BY DEF Stops
  <1> QED BY <1>2, <1>3 DEF OutInv, ReplyFits, HandFits

LEMMA HistoryLostInv ==
    ASSUME OutInv, HistoryLost
    PROVE  OutInv'
  <1>1. UNCHANGED gatewayVars BY DEF HistoryLost
  <1>2. /\ GatewayFits' /\ StatusFits(session)' /\ (asked # None => StatusFits(asked))'
    BY <1>1, ReaderKeeps DEF HistoryLost
  <1>3. at' = "failed" BY DEF HistoryLost
  <1> QED BY <1>2, <1>3 DEF OutInv, ReplyFits, HandFits

(* The pieces of an answer that follows the cursor.                        *)
LEMMA FollowingPieces ==
    ASSUME cursor \in Nat, NEW S, NEW p \in Seq(S), Follows(p)
    PROVE  p = Pieces(cursor, Len(p)) /\ p \in Seq(Nat) /\ Len(p) \in Nat
  <1>1. DOMAIN p = 1..Len(p) /\ Len(p) \in Nat BY LenProperties
  <1>2. \A i \in 1..Len(p) : p[i] = cursor + i BY <1>1 DEF Follows
  <1> QED BY <1>1, <1>2, PiecesAre

LEMMA AcceptEventsInv ==
    ASSUME OutInv, AcceptEvents
    PROVE  OutInv'
  <1> DEFINE p == reply.page
             n == Len(p)
  <1>0. /\ at = "answered" /\ Exec /\ Follows(p) /\ at' = "handing"
        /\ cursor' = cursor + n /\ session' = reply.status
        /\ page' = IF case.reader = "wait" THEN <<>> ELSE p
        /\ events' = IF case.reader = "wait" THEN events \o p ELSE events
        /\ UNCHANGED gatewayVars /\ UNCHANGED <<asked, reply, out>>
    BY DEF AcceptEvents
  <1>1. UNCHANGED <<case, written, kept, owed, final, lost>> BY <1>0 DEF gatewayVars
  <1>2. GatewayFits /\ ReplyFits /\ HandFits BY DEF OutInv
  <1>3. cursor \in Nat /\ p = Pieces(cursor, n) /\ p \in Seq(Nat) /\ n \in Nat
    BY <1>0, <1>2, FollowingPieces DEF ReplyFits, HandFits
  <1>4. StatusFits(reply.status) /\ cursor + n <= kept BY <1>0, <1>2 DEF ReplyFits
  <1>5. StatusFits(session') BY <1>0, <1>4
  <1>6. /\ GatewayFits' /\ Exec' = Exec /\ StatusFits(session)'
        /\ (asked # None => StatusFits(asked))' /\ StatusFits(reply.status)'
    BY <1>0, <1>5, ReaderKeeps
  <1>7. ReplyFits'
    <2>1. p = <<>> => n = 0 BY EmptySeq
    <2>2. p = <<>> /\ reply.status.terminal => owed <= cursor BY <1>0, <1>2 DEF ReplyFits
    <2>3. p = <<>> => cursor' = cursor BY <2>1, <1>0, <1>3
    <2>4. (reply.page \in Seq({reply.page[i] : i \in DOMAIN reply.page}))'
      BY <1>0, <1>2 DEF ReplyFits
    <2> QED BY <2>2, <2>3, <2>4, <1>0, <1>1, <1>6 DEF ReplyFits
  <1>8. HandFits'
    <2>1. cursor' \in Nat /\ cursor' <= kept' BY <1>0, <1>1, <1>3, <1>4
    <2>2. case' = case /\ at' = "handing" /\ out' = out BY <1>0, <1>1
    <2>3. CASE case.reader = "wait"
      <3>1. events = Pieces(0, cursor) /\ out = <<>> BY <2>3, <1>0, <1>2 DEF HandFits
      <3>2. Pieces(0, cursor) \o Pieces(0 + cursor, n) = Pieces(0, cursor + n)
        BY <1>3, PiecesJoin
      <3>3. events' = Pieces(0, cursor')
        <4>1. 0 + cursor = cursor BY <1>3
        <4>2. events' = events \o p BY <2>3, <1>0
        <4> HIDE DEF p, n
        <4> QED BY <4>1, <4>2, <3>1, <3>2, <1>0, <1>3
      <3>4. page' = <<>> /\ page' \in Seq(Nat) /\ Len(page') = 0 BY <2>3, <1>0, EmptySeq
      <3> QED BY <2>1, <2>2, <2>3, <3>1, <3>3, <3>4 DEF HandFits
    <2>4. CASE case.reader # "wait"
      <3>1. page = <<>> /\ out = Pieces(0, cursor - Len(page)) BY <2>4, <1>0, <1>2 DEF HandFits
      <3>2. Len(page) = 0 BY <3>1, EmptySeq
      <3>3. out = Pieces(0, cursor) BY <3>1, <3>2, <1>3
      <3>4. page' = p /\ cursor' - Len(page') = cursor /\ Len(page') <= cursor'
        BY <2>4, <1>0, <1>3
      <3>5. page' \in Seq(Nat) /\ page' = Pieces(cursor, Len(page')) BY <3>4, <1>3
      <3> QED BY <2>1, <2>2, <2>4, <3>3, <3>4, <3>5 DEF HandFits
    <2> QED BY <2>3, <2>4
  <1> QED BY <1>0, <1>6, <1>7, <1>8 DEF OutInv

(* What the caller has been handed by a step: the pieces up to n, and the  *)
(* end only when n covers all that is owed.                                *)
HandsOut ==
    \E n \in Len(out)..written :
       /\ out' = Pieces(0, n)
       /\ at' = "ended" => owed # None /\ owed <= n

LEMMA YieldInv ==
    ASSUME OutInv, Yield
    PROVE  OutInv' /\ HandsOut
  <1> DEFINE L == Len(page)
             a == cursor - L
  <1>0. /\ at = "handing" /\ Exec /\ page # <<>> /\ at' = at
        /\ out' = Append(out, Head(page)) /\ page' = Tail(page)
        /\ UNCHANGED gatewayVars /\ UNCHANGED <<cursor, session, asked, reply, events>>
    BY DEF Yield
  <1>1. UNCHANGED <<case, written, kept, owed, final, lost>> BY <1>0 DEF gatewayVars
  <1>2. /\ GatewayFits' /\ Exec' = Exec /\ StatusFits(session)'
        /\ (asked # None => StatusFits(asked))' /\ StatusFits(reply.status)'
    BY <1>0, ReaderKeeps
  <1>3. GatewayFits /\ ReplyFits /\ HandFits BY DEF OutInv
  <1>4. /\ cursor \in Nat /\ cursor <= kept /\ page \in Seq(Nat) /\ L <= cursor
        /\ case.reader # "wait" /\ out = Pieces(0, a) /\ page = Pieces(a, L)
    BY <1>0, <1>3 DEF HandFits
  <1>5. L \in Nat \ {0} /\ a \in Nat BY <1>0, <1>4, EmptySeq
  <1>6. Head(page) = a + 1 /\ Tail(page) = Pieces(a + 1, L - 1)
    <2> HIDE DEF L, a
    <2> QED BY <1>4, <1>5, PiecesTail
  <1>7. Append(Pieces(0, a), 0 + a + 1) = Pieces(0, a + 1) BY <1>5, PiecesAppend
  <1>8. out' = Pieces(0, a + 1)
    <2>1. 0 + a + 1 = a + 1 BY <1>5
    <2> HIDE DEF L, a
    <2> QED BY <2>1, <1>0, <1>4, <1>6, <1>7
  <1>9. Len(page') = L - 1 /\ page' \in Seq(Nat)
    <2>1. a + 1 \in Nat /\ L - 1 \in Nat BY <1>5
    <2>2. Pieces(a + 1, L - 1) \in Seq(Nat) /\ Len(Pieces(a + 1, L - 1)) = L - 1
      BY <2>1, PiecesType
    <2> HIDE DEF L, a
    <2> QED BY <2>2, <1>0, <1>6
  <1>10. ReplyFits' BY <1>0, <1>1, <1>2, <1>3 DEF ReplyFits, Follows
  <1>11. HandFits'
    <2>1. cursor' - Len(page') = a + 1 /\ Len(page') <= cursor' BY <1>0, <1>4, <1>5, <1>9
    <2>2. page' = Pieces(cursor' - Len(page'), Len(page')) BY <2>1, <1>0, <1>6, <1>9
    <2> HIDE DEF L, a
    <2>3. out' = Pieces(0, cursor' - Len(page')) BY <2>1, <1>8
    <2>4. cursor' \in Nat /\ cursor' <= kept' /\ at' = "handing" /\ case' = case
      BY <1>0, <1>1, <1>4
    <2> QED BY <2>1, <2>2, <2>3, <2>4, <1>4, <1>9 DEF HandFits
  <1>12. HandsOut
    <2>1. Len(out) = a BY <1>4, <1>5, PiecesType
    <2>2. kept <= written /\ kept \in Nat /\ written \in Nat BY <1>3 DEF GatewayFits
    <2>3. a + 1 \in Len(out)..written BY <2>1, <2>2, <1>4, <1>5
    <2> HIDE DEF L, a
    <2> QED BY <2>3, <1>0, <1>8 DEF HandsOut
  <1> QED BY <1>0, <1>2, <1>10, <1>11, <1>12 DEF OutInv

LEMMA PageDoneInv ==
    ASSUME OutInv, PageDone
    PROVE  OutInv' /\ ((out' = out /\ at' = "reading") \/ HandsOut)
  <1>0. /\ at = "handing" /\ Exec /\ page = <<>>
        /\ at' = IF EventsDrained THEN "ended" ELSE "reading"
        /\ out' = IF at' = "ended" /\ case.reader = "wait" THEN events ELSE out
        /\ UNCHANGED gatewayVars /\ UNCHANGED <<cursor, session, asked, page, events>>
    BY DEF PageDone
  <1>1. UNCHANGED <<case, written, kept, owed, final, lost>> BY <1>0 DEF gatewayVars
  <1>2. /\ GatewayFits' /\ StatusFits(session)' /\ (asked # None => StatusFits(asked))'
    BY <1>0, ReaderKeeps
  <1>3. GatewayFits /\ ReplyFits /\ HandFits /\ StatusFits(session) BY DEF OutInv
  <1>4. at' \in {"reading", "ended"} /\ ReplyFits' BY <1>0 DEF ReplyFits
  <1>5. Len(page) = 0 /\ cursor \in Nat /\ cursor - Len(page) = cursor
    BY <1>0, <1>3, EmptySeq DEF HandFits
  <1>6. HandFits' BY <1>0, <1>1, <1>3, <1>4 DEF HandFits
  <1>7. ASSUME at' = "ended" PROVE HandsOut
    <2>1. EventsDrained BY <1>0, <1>7
    <2>2. owed # None BY <2>1, <1>3 DEF EventsDrained, StatusFits
    <2>3. owed <= cursor
      <3>1. owed \in Nat BY <2>2, <1>3 DEF GatewayFits
      <3>2. CASE session.final # None
        <4>1. session.final <= cursor /\ owed <= session.final /\ session.final \in Nat
          BY <2>1, <3>2, <1>0, <1>3 DEF EventsDrained, StatusFits
        <4> QED BY <3>1, <4>1, <1>5
      <3>3. CASE session.final = None
        <4>1. reply.page = <<>> /\ session.terminal BY <2>1, <3>3 DEF EventsDrained
        <4> QED BY <4>1, <1>0, <1>3 DEF ReplyFits
      <3> QED BY <3>2, <3>3
    <2>4. out' = Pieces(0, cursor) BY <1>0, <1>3, <1>5, <1>7 DEF HandFits
    <2>5. Len(out) \in Nat /\ Len(out) <= cursor
      <3>1. CASE case.reader = "wait"
        <4>1. out = <<>> BY <3>1, <1>0, <1>3 DEF HandFits
        <4> QED BY <4>1, <1>5, EmptySeq
      <3>2. CASE case.reader # "wait"
        <4>1. out = Pieces(0, cursor) BY <3>2, <1>0, <1>3, <1>5 DEF HandFits
        <4>2. Len(Pieces(0, cursor)) = cursor BY <1>5, PiecesType
        <4> QED BY <4>1, <4>2, <1>5
      <3> QED BY <3>1, <3>2
    <2>6. cursor <= kept /\ kept <= written /\ kept \in Nat /\ written \in Nat
      BY <1>0, <1>3 DEF HandFits, GatewayFits
    <2>7. cursor \in Len(out)..written BY <2>5, <2>6, <1>5
    <2> QED BY <2>2, <2>3, <2>4, <2>7 DEF HandsOut
  <1> QED BY <1>0, <1>2, <1>4, <1>6, <1>7 DEF OutInv

LEMMA GetInv ==
    ASSUME OutInv, Get
    PROVE  OutInv'
  <1>0. /\ asked' = Now /\ UNCHANGED gatewayVars
        /\ UNCHANGED <<at, cursor, session, reply, page, events, out>>
    BY DEF Get
  <1>1. UNCHANGED <<case, written, kept, owed, final, lost>> BY <1>0 DEF gatewayVars
  <1>2. GatewayFits' /\ Exec' = Exec /\ StatusFits(session)' BY <1>0, ReaderKeeps
  <1>3. StatusFits(Now) BY NowFits DEF OutInv
  <1>4. StatusFits(asked)' BY <1>0, <1>1, <1>2, <1>3 DEF StatusFits
  <1>5. ReplyFits' BY <1>0, <1>1, <1>2 DEF OutInv, ReplyFits, StatusFits, Follows
  <1>6. HandFits' BY <1>0, <1>1, <1>2 DEF OutInv, HandFits
  <1> QED BY <1>0, <1>2, <1>4, <1>5, <1>6 DEF OutInv

LEMMA AcceptSessionInv ==
    ASSUME OutInv, AcceptSession
    PROVE  OutInv'
  <1>0. /\ asked # None /\ session' = asked /\ asked' = None
        /\ at \in {"reading", "answered"} \/ (at = "handing" /\ reply.page # <<>>)
        /\ UNCHANGED gatewayVars
        /\ UNCHANGED <<at, cursor, reply, page, events, out>>
    BY DEF AcceptSession
  <1>1. UNCHANGED <<case, written, kept, owed, final, lost>> BY <1>0 DEF gatewayVars
  <1>2. StatusFits(asked) BY <1>0 DEF OutInv
  <1>3. StatusFits(session') BY <1>0, <1>2
  <1>4. GatewayFits' /\ Exec' = Exec /\ StatusFits(session)' BY <1>0, <1>3, ReaderKeeps
  <1>5. ReplyFits' BY <1>0, <1>1, <1>4 DEF OutInv, ReplyFits, StatusFits, Follows
  <1>6. HandFits' BY <1>0, <1>1, <1>4 DEF OutInv, HandFits
  <1> QED BY <1>0, <1>4, <1>5, <1>6 DEF OutInv

LEMMA AcceptChunkInv ==
    ASSUME OutInv, AcceptChunk
    PROVE  OutInv' /\ out' = out /\ at' \in {"status", "handing", "last", "failed"}
  <1> DEFINE p == reply.page
             n == Len(p)
  <1>0. /\ at = "answered" /\ ~Exec /\ cursor' = cursor + n /\ page' = p
        /\ UNCHANGED gatewayVars /\ UNCHANGED <<asked, reply, events, out>>
    BY DEF AcceptChunk
  <1>a. \/ at' \in {"status", "handing"} /\ session' = session
        \/ session' = reply.status /\ Judge(reply.status, cursor')
    BY DEF AcceptChunk
  <1>b. /\ at' \in {"status", "handing", "last", "failed"}
        /\ session' = session \/ session' = reply.status
        /\ at' = "last" => /\ reply.status.terminal /\ ~reply.status.truncated
                           /\ cursor' >= reply.status.final
    BY <1>a DEF Judge, LogRead
  <1>1. UNCHANGED <<case, written, kept, owed, final, lost>> BY <1>0 DEF gatewayVars
  <1>2. GatewayFits /\ ReplyFits /\ HandFits BY DEF OutInv
  <1>3. cursor \in Nat /\ case.reader # "wait"
    BY <1>0, <1>2 DEF HandFits, Exec
  <1>4. StatusFits(reply.status) /\ cursor + n <= kept /\ Follows(p)
    BY <1>0, <1>2 DEF ReplyFits
  <1>5. p = Pieces(cursor, n) /\ p \in Seq(Nat) /\ n \in Nat
    BY <1>0, <1>2, <1>3, <1>4, FollowingPieces DEF ReplyFits
  <1>6. session' = session \/ StatusFits(session') BY <1>b, <1>4
  <1>7. /\ GatewayFits' /\ Exec' = Exec /\ StatusFits(session)'
        /\ (asked # None => StatusFits(asked))' /\ StatusFits(reply.status)'
    BY <1>0, <1>6, ReaderKeeps
  <1>8. ReplyFits'
    <2>1. (reply.page \in Seq({reply.page[i] : i \in DOMAIN reply.page}))'
      BY <1>0, <1>2 DEF ReplyFits
    <2> QED BY <2>1, <1>0, <1>b, <1>7 DEF ReplyFits
  <1>9. HandFits'
    <2>1. cursor' \in Nat /\ cursor' <= kept' BY <1>0, <1>1, <1>3, <1>4, <1>5
    <2>2. page = <<>> /\ out = Pieces(0, cursor - Len(page)) BY <1>0, <1>2, <1>3 DEF HandFits
    <2>3. Len(page) = 0 BY <2>2, EmptySeq
    <2>4. out = Pieces(0, cursor) BY <2>2, <2>3, <1>3
    <2>5. page' = p /\ cursor' - Len(page') = cursor /\ Len(page') <= cursor'
      BY <1>0, <1>3, <1>5
    <2>6. page' \in Seq(Nat) /\ page' = Pieces(cursor, Len(page')) BY <2>5, <1>5
    <2>7. at' = "last" => owed' # None /\ owed' <= cursor'
      <3> SUFFICES ASSUME at' = "last" PROVE owed # None /\ owed <= cursor' BY <1>1
      <3>1. reply.status.terminal /\ ~reply.status.truncated /\ cursor' >= reply.status.final
        BY <1>b
      <3>2. owed # None /\ reply.status.final = owed BY <3>1, <1>0, <1>4 DEF StatusFits
      <3>3. owed \in Nat BY <3>2, <1>2 DEF GatewayFits
      <3> QED BY <3>1, <3>2, <3>3, <2>1
    <2> QED BY <2>1, <2>4, <2>5, <2>6, <2>7, <1>0, <1>1, <1>3, <1>7, <1>b DEF HandFits
  <1> QED BY <1>0, <1>b, <1>7, <1>8, <1>9 DEF OutInv

LEMMA ReadStatusInv ==
    ASSUME OutInv, ReadStatus
    PROVE  OutInv' /\ out' = out /\ at' \in {"handing", "last", "failed"}
  <1>0. /\ at = "status" /\ session' = Now /\ Judge(Now, cursor)
        /\ UNCHANGED gatewayVars
        /\ UNCHANGED <<cursor, asked, reply, page, events, out>>
    BY DEF ReadStatus
  <1>a. /\ at' \in {"handing", "last", "failed"}
        /\ at' = "last" => Now.terminal /\ ~Now.truncated /\ cursor >= Now.final
    BY <1>0 DEF Judge, LogRead
  <1>1. UNCHANGED <<case, written, kept, owed, final, lost>> BY <1>0 DEF gatewayVars
  <1>2. GatewayFits /\ ReplyFits /\ HandFits BY DEF OutInv
  <1>3. ~Exec /\ cursor \in Nat BY <1>0, <1>2 DEF HandFits
  <1>4. StatusFits(session') BY <1>0, <1>2, NowFits
  <1>5. /\ GatewayFits' /\ Exec' = Exec /\ StatusFits(session)'
        /\ (asked # None => StatusFits(asked))' /\ StatusFits(reply.status)'
    BY <1>0, <1>4, ReaderKeeps
  <1>6. ReplyFits' BY <1>0, <1>a, <1>2, <1>3, <1>5 DEF ReplyFits
  <1>7. at' = "last" => owed # None /\ owed <= cursor
    <2> SUFFICES ASSUME at' = "last" PROVE owed # None /\ owed <= cursor OBVIOUS
    <2>1. owed # None BY <1>a DEF Now
    <2>2. Now.final = owed /\ owed \in Nat
      BY <2>1, <1>0, <1>a, <1>2, <1>3, NowFits DEF StatusFits, GatewayFits
    <2> QED BY <2>1, <2>2, <1>a, <1>3
  <1>8. HandFits' BY <1>0, <1>a, <1>1, <1>2, <1>3, <1>5, <1>7 DEF HandFits
  <1> QED BY <1>0, <1>a, <1>5, <1>6, <1>8 DEF OutInv

LEMMA YieldChunkInv ==
    ASSUME OutInv, YieldChunk
    PROVE  OutInv' /\ HandsOut /\ at' \in {"reading", "ended"}
  <1> DEFINE L == Len(page)
             a == cursor - L
  <1>0. /\ at \in {"handing", "last"} /\ ~Exec
        /\ out' = out \o page /\ page' = <<>>
        /\ at' = IF at = "last" THEN "ended" ELSE "reading"
        /\ UNCHANGED gatewayVars /\ UNCHANGED <<cursor, session, asked, events>>
    BY DEF YieldChunk
  <1>1. UNCHANGED <<case, written, kept, owed, final, lost>> BY <1>0 DEF gatewayVars
  <1>2. /\ GatewayFits' /\ Exec' = Exec /\ StatusFits(session)'
        /\ (asked # None => StatusFits(asked))'
    BY <1>0, ReaderKeeps
  <1>3. GatewayFits /\ HandFits BY DEF OutInv
  <1>4. /\ cursor \in Nat /\ cursor <= kept /\ page \in Seq(Nat) /\ L <= cursor
        /\ case.reader # "wait" /\ out = Pieces(0, a) /\ page = Pieces(a, L)
    BY <1>0, <1>3 DEF HandFits, Exec
  <1>5. L \in Nat /\ a \in Nat /\ a + L = cursor BY <1>4, LenProperties
  <1>6. out' = Pieces(0, cursor)
    <2>1. Pieces(0, a) \o Pieces(0 + a, L) = Pieces(0, a + L) BY <1>5, PiecesJoin
    <2>2. 0 + a = a BY <1>5
    <2> HIDE DEF L, a
    <2> QED BY <2>1, <2>2, <1>0, <1>4, <1>5
  <1>7. at' \in {"reading", "ended"} BY <1>0
  <1>8. ReplyFits' BY <1>7 DEF ReplyFits
  <1>9. HandFits'
    <2>1. page' \in Seq(Nat) /\ Len(page') = 0 BY <1>0, EmptySeq
    <2>2. cursor' - Len(page') = cursor /\ Len(page') <= cursor' BY <2>1, <1>0, <1>4
    <2>3. page' = Pieces(cursor, 0) BY <1>0, <1>4, NoPieces
    <2> HIDE DEF L, a
    <2> QED BY <2>1, <2>2, <2>3, <1>0, <1>1, <1>4, <1>6, <1>7 DEF HandFits
  <1>10. HandsOut
    <2>1. Len(out) = a BY <1>4, <1>5, PiecesType
    <2>2. kept <= written /\ kept \in Nat /\ written \in Nat BY <1>3 DEF GatewayFits
    <2>3. cursor \in Len(out)..written BY <2>1, <2>2, <1>4, <1>5
    <2>4. at' = "ended" => owed # None /\ owed <= cursor BY <1>0, <1>3 DEF HandFits
    <2> HIDE DEF L, a
    <2> QED BY <2>3, <2>4, <1>6 DEF HandsOut
  <1> QED BY <1>0, <1>2, <1>7, <1>8, <1>9, <1>10 DEF OutInv

LEMMA ExecRaisesInv ==
    ASSUME OutInv, ExecRaises
    PROVE  OutInv'
  <1>0. /\ at' = IF at = "ended" THEN "ended" ELSE "failed"
        /\ UNCHANGED gatewayVars
        /\ UNCHANGED <<cursor, session, asked, reply, page, events, out>>
    BY DEF ExecRaises
  <1>1. UNCHANGED <<case, written, kept, owed, final, lost>> BY <1>0 DEF gatewayVars
  <1>2. /\ GatewayFits' /\ Exec' = Exec /\ StatusFits(session)'
        /\ (asked # None => StatusFits(asked))'
    BY <1>0, ReaderKeeps
  <1>3. ReplyFits' BY <1>0 DEF ReplyFits
  <1>4. HandFits' BY <1>0, <1>1, <1>2 DEF OutInv, HandFits
  <1> QED BY <1>0, <1>2, <1>3, <1>4 DEF OutInv

(* Whatever happens, the invariant of the output is kept.                  *)
LEMMA OutStep ==
    ASSUME OutInv, [Next]_vars
    PROVE  OutInv'
  <1>1. ASSUME UNCHANGED outputVars PROVE OutInv'
    <2>1. UNCHANGED gatewayVars BY <1>1 DEF outputVars
    <2>2. UNCHANGED <<at, cursor, session, asked, reply, page, events, out>>
      BY <1>1 DEF outputVars, readerVars
    <2>3. UNCHANGED <<case, written, kept, owed, final, lost>> BY <2>1 DEF gatewayVars
    <2>4. /\ GatewayFits' /\ Exec' = Exec /\ StatusFits(session)'
          /\ (asked # None => StatusFits(asked))'
      BY <2>1, <2>2, ReaderKeeps
    <2>5. ReplyFits' BY <2>2, <2>3, <2>4 DEF OutInv, ReplyFits, StatusFits, Follows
    <2>6. HandFits' BY <2>2, <2>3, <2>4 DEF OutInv, HandFits
    <2> QED BY <2>2, <2>4, <2>5, <2>6 DEF OutInv
  <1>2. CASE Environment BY <1>2, GatewayStepInv DEF Environment
  <1>3. CASE Reader
    BY <1>3, AnswerInv, AcceptEventsInv, HistoryLostInv, YieldInv, PageDoneInv,
       AcceptChunkInv, ReadStatusInv, YieldChunkInv DEF Reader, ReaderStep
  <1>4. CASE Other BY <1>4, StopsInv, GetInv, AcceptSessionInv DEF Other
  <1>5. CASE Copy \/ Copied \/ Kill \/ Signalled BY <1>5, ProcessStepInv
  <1>6. CASE ExecRaises BY <1>6, ExecRaisesInv
  <1>7. CASE Feed \/ Fed \/ BrokenPipe \/ ExecReturns \/ WriteFails \/ PumpEnds
    BY <1>7, <1>1 DEF Feed, Fed, BrokenPipe, ExecReturns, WriteFails, PumpEnds
  <1>8. CASE \/ WriteChunk \/ CancelDrain \/ SendEof \/ ScheduleSignal \/ SignalFails
             \/ \E d \in Drainers : StartDrain(d) \/ TakeBuffer(d) \/ SendOk(d) \/ SendFails(d)
    BY <1>8, <1>1 DEF WriteChunk, CancelDrain, SendEof, ScheduleSignal, SignalFails,
       StartDrain, TakeBuffer, SendOk, SendFails
  <1>9. CASE Done \/ UNCHANGED vars BY <1>9, <1>1 DEF Done, vars
  <1> QED
    BY <1>2, <1>3, <1>4, <1>5, <1>6, <1>7, <1>8, <1>9 DEF Next, ExecStep, AdapterStep
-----------------------------------------------------------------------------
(* The input: the inductive step.                                          *)

LEMMA InStarts == Init => InInv
  <1> SUFFICES ASSUME Init PROVE InInv OBVIOUS
  <1> USE DEF Init
  <1>1. <<>> \in Seq(Nat) /\ Len(<<>>) = 0 BY EmptySeq
  <1>2. Pieces(0, 0) = <<>> BY NoPieces
  <1>3. InputTypes BY <1>1, NoneAssumption DEF InputTypes, Drainers
  <1>4. FedFits BY <1>1, <1>2 DEF FedFits
  <1>5. LockFits BY DEF LockFits, Drainers
  <1>6. StdinFits
    <2>1. 0 - 0 = 0 OBVIOUS
    <2> QED BY <2>1, <1>1, <1>2 DEF StdinFits
  <1> QED BY <1>3, <1>4, <1>5, <1>6 DEF InInv

(* A step that leaves stdin alone; one may cancel a write that is not over.*)
LEMMA InputLeftAlone ==
    ASSUME InInv, UNCHANGED <<case, received, eofAt, stdinVars>>,
           writing = "done" => writing' = "done"
    PROVE  InInv'
  <1>1. UNCHANGED <<case, received, eofAt, wrote, buffer, sending, drain, cancelled>>
    BY DEF stdinVars
  <1>2. Adapter' = Adapter /\ Locked' = Locked BY <1>1 DEF Adapter, Locked
  <1>3. InputTypes' BY <1>1 DEF InInv, InputTypes
  <1>4. FedFits' BY <1>1, <1>2 DEF InInv, FedFits
  <1>5. LockFits' BY <1>1, <1>2 DEF InInv, LockFits
  <1>6. StdinFits' BY <1>1, <1>2 DEF InInv, StdinFits
  <1> QED BY <1>3, <1>4, <1>5, <1>6 DEF InInv

(* exec writes its input piece by piece, and closes it.                    *)
LEMMA FeedInv ==
    ASSUME InInv, Feed \/ Fed
    PROVE  InInv'
  <1>1. /\ ExecCall /\ writing = "busy"
        /\ UNCHANGED <<case, wrote, buffer, sending, drain, cancelled>>
    BY DEF Feed, Fed, stdinVars, outputVars, gatewayVars
  <1>2. ~Adapter /\ ~Adapter' BY <1>1 DEF ExecCall, Adapter
  <1>3. /\ received \in Seq(Nat) /\ received = Pieces(0, Len(received))
        /\ eofAt = None /\ Len(received) \in Nat
    BY <1>1, <1>2, LenProperties DEF InInv, FedFits, InputTypes
  <1>4. LockFits' /\ StdinFits' BY <1>2 DEF LockFits, StdinFits
  <1>5. CASE Feed
    <2> DEFINE r == Len(received)
    <2>1. received' = Append(received, r + 1) /\ eofAt' = eofAt BY <1>5 DEF Feed
    <2>2. Append(Pieces(0, r), 0 + r + 1) = Pieces(0, r + 1) BY <1>3, PiecesAppend
    <2>3. 0 + r + 1 = r + 1 /\ r + 1 \in Nat BY <1>3
    <2> HIDE DEF r
    <2>4. received' = Pieces(0, r + 1) BY <2>1, <2>2, <2>3, <1>3 DEF r
    <2>5. Pieces(0, r + 1) \in Seq(Nat) /\ Len(Pieces(0, r + 1)) = r + 1
      BY <2>3, PiecesType
    <2>6. InputTypes' BY <2>1, <2>4, <2>5, <1>1 DEF InInv, InputTypes
    <2>7. FedFits' BY <2>1, <2>4, <2>5, <1>3 DEF FedFits
    <2> QED BY <2>6, <2>7, <1>4 DEF InInv
  <1>6. CASE Fed
    <2>1. received' = received /\ eofAt' = Len(received) /\ writing' = "done"
      BY <1>6 DEF Fed
    <2>2. InputTypes' BY <2>1, <1>1, <1>3 DEF InInv, InputTypes
    <2>3. FedFits' BY <2>1, <1>3 DEF FedFits
    <2> QED BY <2>2, <2>3, <1>4 DEF InInv
  <1> QED BY <1>5, <1>6

(* A request that was processed, or may have been, adds what it repeats    *)
(* nothing of; before a cancellation, that leaves what arrived in order.   *)
LEMMA Arrives ==
    ASSUME InInv, Adapter, MayArrive
    PROVE  /\ received' \in Seq(Nat)
           /\ ~cancelled =>
                 /\ received' = Pieces(0, Len(received'))
                 /\ wrote - Len(buffer) - Len(sending) <= Len(received')
                 /\ Len(received') <= wrote
                 /\ received' = Received(sending) => wrote - Len(buffer) <= Len(received')
  <1> DEFINE n == Len(sending)
             k == Repeated(sending)
             r == Len(received)
  <1>1. /\ received \in Seq(Nat) /\ sending \in Seq(Nat) /\ buffer \in Seq(Nat)
        /\ wrote \in Nat /\ StdinFits
    BY DEF InInv, InputTypes
  <1>2. n \in Nat /\ r \in Nat /\ Len(buffer) \in Nat BY <1>1, LenProperties
  <1>3. received' = received \/ received' = Received(sending) BY DEF MayArrive
  <1>4. Received(sending) \in Seq(Nat)
    <2>1. DOMAIN sending = 1..n BY <1>1, LenProperties
    <2>2. IsFiniteSet(1..n) BY <1>2, FS_Interval
    <2>3. k \in Nat
      <3> DEFINE Old == {i \in DOMAIN sending : \E j \in DOMAIN received : received[j] = sending[i]}
      <3>1. Old \subseteq 1..n BY <2>1
      <3>2. IsFiniteSet(Old) BY <3>1, <2>2, FS_Subset
      <3>3. Cardinality(Old) \in Nat BY <3>2, FS_CardinalityType
      <3> QED BY <3>3 DEF Repeated
    <2>4. \A i \in (k + 1)..n : sending[i] \in Nat
      <3> SUFFICES ASSUME NEW i \in (k + 1)..n PROVE sending[i] \in Nat OBVIOUS
      <3>1. i \in 1..n BY <2>3, <1>2
      <3> QED BY <3>1, <1>1, ElementOfSeq
    <2> HIDE DEF k
    <2>5. SubSeq(sending, k + 1, n) \in Seq(Nat)
      <3>1. k + 1 \in Int /\ n \in Int BY <2>3, <1>2
      <3> HIDE DEF n
      <3> QED BY <3>1, <2>4, SubSeqProperties
    <2>6. received \o SubSeq(sending, k + 1, n) \in Seq(Nat) BY <2>5, <1>1, ConcatProperties
    <2> QED BY <2>6 DEF Received, k
  <1>5. ASSUME ~cancelled
        PROVE  /\ received' = Pieces(0, Len(received'))
               /\ wrote - Len(buffer) - Len(sending) <= Len(received')
               /\ Len(received') <= wrote
               /\ received' = Received(sending) => wrote - Len(buffer) <= Len(received')
    <2> DEFINE b == wrote - Len(buffer)
               m == IF b > r THEN b ELSE r
    <2>1. /\ n <= b /\ Len(buffer) <= wrote
          /\ sending = Pieces(b - n, n) /\ received = Pieces(0, r)
          /\ b - n <= r /\ r <= wrote
      BY <1>1, <1>5 DEF StdinFits
    <2>2. b \in Nat /\ b - n \in 0..r /\ b - n + n = b BY <2>1, <1>1, <1>2
    <2>3. Received(Pieces(b - n, n)) = Pieces(0, IF b - n + n > r THEN b - n + n ELSE r)
      <3> HIDE DEF b, n, r
      <3> QED BY <2>1, <2>2, <1>2, ReceivedRun
    <2>4. Received(sending) = Pieces(0, m)
      <3> HIDE DEF b, n, r
      <3> QED BY <2>1, <2>2, <2>3
    <2>5. m \in Nat /\ b - n <= m /\ b <= m /\ m <= wrote BY <2>1, <2>2, <1>1, <1>2
    <2>6. Len(Pieces(0, m)) = m
      <3> HIDE DEF m
      <3> QED BY <2>5, PiecesType
    <2>7. CASE received' = Received(sending)
      <3>1. received' = Pieces(0, m) /\ Len(received') = m
        <4> HIDE DEF m
        <4> QED BY <2>4, <2>6, <2>7
      <3> HIDE DEF m
      <3> QED BY <3>1, <2>5
    <2>8. CASE received' = received /\ received' # Received(sending)
      BY <2>8, <2>1
    <2> QED BY <2>7, <2>8, <1>3
  <1> QED BY <1>1, <1>3, <1>4, <1>5

(* What a step of the adapter leaves alone.                                *)
LEMMA AdapterKeeps ==
    ASSUME Adapter,
           \/ WriteChunk \/ CancelDrain \/ SendEof
           \/ \E d \in Drainers : StartDrain(d) \/ TakeBuffer(d) \/ SendOk(d) \/ SendFails(d)
    PROVE  Adapter' /\ FedFits'
  <1>1. case' = case
    BY DEF WriteChunk, CancelDrain, SendEof, StartDrain, TakeBuffer, SendOk, SendFails,
       outputVars, gatewayVars
  <1> QED BY <1>1 DEF Adapter, FedFits

LEMMA WriteChunkInv ==
    ASSUME InInv, WriteChunk
    PROVE  InInv'
  <1> DEFINE m == Len(buffer)
             b == wrote - m
  <1>0. /\ Adapter /\ drain["closer"] = "idle"
        /\ wrote' = wrote + 1 /\ buffer' = Append(buffer, wrote + 1)
        /\ UNCHANGED <<case, received, eofAt, sending, drain, cancelled>>
    BY DEF WriteChunk, Closing, outputVars, gatewayVars
  <1>1. Adapter' /\ FedFits' BY <1>0, AdapterKeeps
  <1>2. InputTypes /\ LockFits /\ StdinFits BY DEF InInv
  <1>3. wrote \in Nat /\ buffer \in Seq(Nat) /\ m \in Nat
    BY <1>2, LenProperties DEF InputTypes
  <1>4. Len(buffer') = m + 1 /\ buffer' \in Seq(Nat)
    BY <1>0, <1>3, AppendProperties
  <1>5. InputTypes' BY <1>0, <1>2, <1>3, <1>4 DEF InputTypes
  <1>6. Locked' = Locked BY <1>0 DEF Locked
  <1>7. LockFits' BY <1>0, <1>2, <1>6 DEF LockFits
  <1>8. StdinFits'
    <2> SUFFICES ASSUME ~cancelled PROVE StdinFits' BY <1>0 DEF StdinFits
    <2>1. /\ Len(sending) <= b /\ m <= wrote /\ buffer = Pieces(b, m)
          /\ sending = Pieces(b - Len(sending), Len(sending))
          /\ received = Pieces(0, Len(received))
          /\ b - Len(sending) <= Len(received) /\ Len(received) <= wrote
      BY <1>0, <1>2 DEF StdinFits
    <2>2. wrote' - Len(buffer') = b /\ b \in Nat /\ b + m + 1 = wrote + 1
      BY <2>1, <1>0, <1>3, <1>4
    <2>3. Append(Pieces(b, m), b + m + 1) = Pieces(b, m + 1)
      <3> HIDE DEF b, m
      <3> QED BY <2>2, <1>3, PiecesAppend
    <2>4. buffer' = Pieces(b, Len(buffer'))
      <3> HIDE DEF b, m
      <3> QED BY <2>1, <2>2, <2>3, <1>0, <1>4
    <2>5. Len(buffer') <= wrote' /\ Len(received) <= wrote'
      <3>1. Len(received) \in Nat BY <1>2, LenProperties DEF InputTypes
      <3> QED BY <3>1, <2>1, <1>0, <1>3, <1>4
    <2> HIDE DEF b, m
    <2> QED BY <2>1, <2>2, <2>4, <2>5, <1>0 DEF StdinFits
  <1> QED BY <1>1, <1>5, <1>7, <1>8 DEF InInv

LEMMA StartDrainInv ==
    ASSUME InInv, NEW d \in Drainers, StartDrain(d)
    PROVE  InInv'
  <1>0. /\ Adapter /\ drain[d] = "idle" /\ drain' = [drain EXCEPT ![d] = "waiting"]
        /\ UNCHANGED <<case, received, eofAt, wrote, buffer, sending, cancelled>>
    BY DEF StartDrain, outputVars, gatewayVars
  <1>1. Adapter' /\ FedFits' BY <1>0, AdapterKeeps
  <1>2. InputTypes /\ LockFits /\ StdinFits BY DEF InInv
  <1>3. DOMAIN drain = Drainers /\ (d = "app" \/ d = "closer")
    BY <1>2 DEF InputTypes, Drainers
  <1>4. InputTypes' BY <1>0, <1>2, <1>3 DEF InputTypes, Drainers
  <1>5. Locked' = Locked BY <1>0, <1>3 DEF Locked, Drainers
  <1>6. LockFits' BY <1>0, <1>2, <1>3, <1>5 DEF LockFits, Drainers
  <1>7. StdinFits' BY <1>0, <1>1, <1>2 DEF StdinFits
  <1> QED BY <1>1, <1>4, <1>6, <1>7 DEF InInv

LEMMA TakeBufferInv ==
    ASSUME InInv, NEW d \in Drainers, TakeBuffer(d)
    PROVE  InInv'
  <1>0. /\ Adapter /\ drain[d] = "waiting" /\ ~Locked
        /\ drain' = [drain EXCEPT ![d] = IF buffer = <<>> THEN Drained(d) ELSE "sending"]
        /\ sending' = buffer /\ buffer' = <<>>
        /\ UNCHANGED <<case, received, eofAt, wrote, cancelled>>
    BY DEF TakeBuffer, outputVars, gatewayVars
  <1>1. Adapter' /\ FedFits' BY <1>0, AdapterKeeps
  <1>2. InputTypes /\ LockFits /\ StdinFits BY DEF InInv
  <1>3. DOMAIN drain = Drainers /\ (d = "app" \/ d = "closer")
    BY <1>2 DEF InputTypes, Drainers
  <1>4. InputTypes'
    <2>1. buffer' \in Seq(Nat) BY <1>0, EmptySeq
    <2> QED BY <2>1, <1>0, <1>2, <1>3 DEF InputTypes, Drainers, Drained
  <1>5. sending = <<>> /\ drain["app"] # "sending" /\ drain["closer"] # "sending"
    BY <1>0, <1>2 DEF LockFits, Locked, Drainers
  <1>6. ~Locked' => buffer = <<>> BY <1>0, <1>3 DEF Locked, Drainers
  <1>7. LockFits' BY <1>0, <1>2, <1>3, <1>5, <1>6 DEF LockFits, Drainers, Drained
  <1>8. StdinFits'
    <2> SUFFICES ASSUME ~cancelled PROVE StdinFits' BY <1>0 DEF StdinFits
    <2> DEFINE m == Len(buffer)
               b == wrote - m
    <2>1. /\ Len(sending) <= b /\ m <= wrote /\ buffer = Pieces(b, m)
          /\ received = Pieces(0, Len(received))
          /\ b - Len(sending) <= Len(received) /\ Len(received) <= wrote
      BY <1>0, <1>2 DEF StdinFits
    <2>2. Len(sending) = 0 /\ Len(buffer') = 0 BY <1>0, <1>5, EmptySeq
    <2>3. wrote \in Nat /\ m \in Nat /\ b \in Nat
      BY <2>1, <1>2, LenProperties DEF InputTypes
    <2>4. wrote' - Len(buffer') = wrote /\ Len(sending') = m /\ wrote - m = b
      BY <2>2, <2>3, <1>0
    <2>5. buffer' = Pieces(wrote, 0) BY <2>3, <1>0, NoPieces
    <2>6. b <= Len(received) /\ Len(sending') <= wrote
      <3>1. Len(received) \in Nat BY <1>2, LenProperties DEF InputTypes
      <3> QED BY <3>1, <2>1, <2>2, <2>3, <2>4
    <2> HIDE DEF b, m
    <2> QED BY <2>1, <2>2, <2>3, <2>4, <2>5, <2>6, <1>0 DEF StdinFits
  <1> QED BY <1>1, <1>4, <1>7, <1>8 DEF InInv

LEMMA SendOkInv ==
    ASSUME InInv, NEW d \in Drainers, SendOk(d)
    PROVE  InInv'
  <1>0. /\ Adapter /\ drain[d] = "sending"
        /\ drain' = [drain EXCEPT ![d] = Drained(d)]
        /\ received' = Received(sending) /\ sending' = <<>>
        /\ UNCHANGED <<case, eofAt, wrote, buffer, cancelled>>
    BY DEF SendOk, outputVars, gatewayVars
  <1>1. Adapter' /\ FedFits' BY <1>0, AdapterKeeps
  <1>2. InputTypes /\ LockFits /\ StdinFits BY DEF InInv
  <1>3. DOMAIN drain = Drainers /\ (d = "app" \/ d = "closer")
    BY <1>2 DEF InputTypes, Drainers
  <1>4. /\ received' \in Seq(Nat)
        /\ ~cancelled => /\ received' = Pieces(0, Len(received'))
                         /\ Len(received') <= wrote
                         /\ wrote - Len(buffer) <= Len(received')
    BY <1>0, Arrives DEF MayArrive
  <1>5. InputTypes'
    <2>1. sending' \in Seq(Nat) BY <1>0, EmptySeq
    <2> QED BY <2>1, <1>0, <1>2, <1>3, <1>4 DEF InputTypes, Drainers, Drained
  <1>6. LockFits'
    <2>1. (eofAt = None /\ drain["closer"] \notin {"eof", "closed"}) \/ d = "closer"
      BY <1>0, <1>2, <1>3 DEF LockFits
    <2>2. eofAt = None
      BY <2>1, <1>0, <1>2, <1>3 DEF LockFits
    <2> QED BY <2>1, <2>2, <1>0, <1>2, <1>3 DEF LockFits, Drainers, Drained
  <1>7. StdinFits'
    <2> SUFFICES ASSUME ~cancelled PROVE StdinFits' BY <1>0 DEF StdinFits
    <2> DEFINE m == Len(buffer)
               b == wrote - m
    <2>1. /\ Len(sending) <= b /\ m <= wrote /\ buffer = Pieces(b, m)
      BY <1>0, <1>2 DEF StdinFits
    <2>2. wrote \in Nat /\ m \in Nat /\ b \in Nat
      BY <2>1, <1>2, LenProperties DEF InputTypes
    <2>3. Len(sending') = 0 /\ b - 0 = b /\ sending' = Pieces(b, 0)
      BY <2>2, <1>0, EmptySeq, NoPieces
    <2>4. 0 <= b BY <2>2
    <2>5. wrote' - Len(buffer') = b /\ Len(buffer') = m BY <1>0
    <2>6. b <= Len(received') BY <1>4
    <2> HIDE DEF b, m
    <2> QED BY <2>1, <2>3, <2>4, <2>5, <2>6, <1>0, <1>4 DEF StdinFits
  <1> QED BY <1>1, <1>5, <1>6, <1>7 DEF InInv

LEMMA SendFailsInv ==
    ASSUME InInv, NEW d \in Drainers, SendFails(d)
    PROVE  InInv'
  <1>0. /\ Adapter /\ drain[d] = "sending" /\ MayArrive
        /\ drain' = [drain EXCEPT ![d] = IF d = "app" THEN "idle" ELSE "failed"]
        /\ buffer' = sending \o buffer /\ sending' = <<>>
        /\ UNCHANGED <<case, eofAt, wrote, cancelled>>
    BY DEF SendFails, Restored, outputVars, gatewayVars
  <1>1. Adapter' /\ FedFits' BY <1>0, AdapterKeeps
  <1>2. InputTypes /\ LockFits /\ StdinFits BY DEF InInv
  <1>3. DOMAIN drain = Drainers /\ (d = "app" \/ d = "closer")
    BY <1>2 DEF InputTypes, Drainers
  <1>4. /\ received' \in Seq(Nat)
        /\ ~cancelled => /\ received' = Pieces(0, Len(received'))
                         /\ wrote - Len(buffer) - Len(sending) <= Len(received')
                         /\ Len(received') <= wrote
    BY <1>0, Arrives
  <1>5. sending \in Seq(Nat) /\ buffer \in Seq(Nat) BY <1>2 DEF InputTypes
  <1>6. buffer' \in Seq(Nat) /\ Len(buffer') = Len(sending) + Len(buffer)
    BY <1>0, <1>5, ConcatProperties
  <1>7. InputTypes'
    <2>1. sending' \in Seq(Nat) BY <1>0, EmptySeq
    <2> QED BY <2>1, <1>0, <1>2, <1>3, <1>4, <1>6 DEF InputTypes, Drainers
  <1>8. LockFits'
    <2>1. eofAt = None BY <1>0, <1>2, <1>3 DEF LockFits
    <2> QED BY <2>1, <1>0, <1>2, <1>3 DEF LockFits, Drainers
  <1>9. StdinFits'
    <2> SUFFICES ASSUME ~cancelled PROVE StdinFits' BY <1>0 DEF StdinFits
    <2> DEFINE m == Len(buffer)
               n == Len(sending)
               b == wrote - m
               a == b - n
    <2>1. n <= b /\ m <= wrote /\ buffer = Pieces(b, m) /\ sending = Pieces(a, n)
      BY <1>0, <1>2 DEF StdinFits
    <2>2. wrote \in Nat /\ m \in Nat /\ n \in Nat BY <1>2, LenProperties DEF InputTypes
    <2>3. b \in Nat /\ a \in Nat /\ a + n = b /\ n + m <= wrote /\ wrote - (n + m) = a
      BY <2>1, <2>2
    <2>4. Pieces(a, n) \o Pieces(a + n, m) = Pieces(a, n + m)
      <3>1. a \in Nat /\ n \in Nat /\ m \in Nat BY <2>2, <2>3
      <3> HIDE DEF a, n, m, b
      <3> QED BY <3>1, PiecesJoin
    <2>5. buffer' = Pieces(a, n + m)
      <3> HIDE DEF a, n, m, b
      <3> QED BY <2>1, <2>3, <2>4, <1>0
    <2>6. Len(sending') = 0 /\ sending' = Pieces(a, 0) /\ a - 0 = a /\ 0 <= a
      BY <2>3, <1>0, EmptySeq, NoPieces
    <2>7. wrote' - Len(buffer') = a /\ Len(buffer') = n + m /\ wrote' = wrote
      BY <2>3, <1>0, <1>6
    <2>8. a <= Len(received') BY <1>4
    <2> HIDE DEF a, b, n, m
    <2> QED BY <2>3, <2>5, <2>6, <2>7, <2>8, <1>4 DEF StdinFits
  <1> QED BY <1>1, <1>7, <1>8, <1>9 DEF InInv

LEMMA CancelDrainInv ==
    ASSUME InInv, CancelDrain
    PROVE  InInv'
  <1>0. /\ Adapter /\ drain["app"] \in {"waiting", "sending"}
        /\ drain' = [drain EXCEPT !["app"] = "idle"]
        /\ UNCHANGED <<case, eofAt, wrote, buffer>>
    BY DEF CancelDrain, outputVars, gatewayVars
  <1>1. Adapter' /\ FedFits' BY <1>0, AdapterKeeps
  <1>2. InputTypes /\ LockFits /\ StdinFits BY DEF InInv
  <1>3. DOMAIN drain = Drainers BY <1>2 DEF InputTypes
  <1>4. CASE drain["app"] = "sending"
    <2>1. MayArrive /\ sending' = <<>> /\ cancelled' = TRUE BY <1>4 DEF CancelDrain
    <2>2. received' \in Seq(Nat) BY <2>1, <1>0, Arrives
    <2>3. sending' \in Seq(Nat) BY <2>1, EmptySeq
    <2>4. InputTypes' BY <2>2, <2>3, <1>0, <1>2, <1>3 DEF InputTypes, Drainers
    <2>5. eofAt = None BY <1>4, <1>0, <1>2 DEF LockFits
    <2>6. LockFits' BY <2>1, <2>5, <1>0, <1>2, <1>3, <1>4 DEF LockFits, Drainers
    <2>7. StdinFits' BY <2>1 DEF StdinFits
    <2> QED BY <2>4, <2>6, <2>7, <1>1 DEF InInv
  <1>5. CASE drain["app"] # "sending"
    <2>1. UNCHANGED <<received, sending, cancelled>> BY <1>5 DEF CancelDrain
    <2>2. InputTypes' BY <2>1, <1>0, <1>2, <1>3 DEF InputTypes, Drainers
    <2>3. Locked' = Locked BY <1>0, <1>3, <1>5 DEF Locked, Drainers
    <2>4. LockFits' BY <2>1, <2>3, <1>0, <1>2, <1>3, <1>5 DEF LockFits, Drainers
    <2>5. StdinFits' BY <2>1, <1>0, <1>1, <1>2 DEF StdinFits
    <2> QED BY <2>2, <2>4, <2>5, <1>1 DEF InInv
  <1> QED BY <1>4, <1>5

LEMMA SendEofInv ==
    ASSUME InInv, SendEof
    PROVE  InInv'
  <1>0. /\ Adapter /\ drain["closer"] = "eof"
        /\ eofAt' \in {None, Len(received)}
        /\ \/ drain' = [drain EXCEPT !["closer"] = "closed"] /\ eofAt' = Len(received)
           \/ drain' = [drain EXCEPT !["closer"] = "failed"]
        /\ UNCHANGED <<case, received, wrote, buffer, sending, cancelled>>
    BY DEF SendEof, outputVars, gatewayVars
  <1>1. Adapter' /\ FedFits' BY <1>0, AdapterKeeps
  <1>2. InputTypes /\ LockFits /\ StdinFits BY DEF InInv
  <1>3. DOMAIN drain = Drainers /\ Len(received) \in Nat
    BY <1>2, LenProperties DEF InputTypes
  <1>4. InputTypes' BY <1>0, <1>2, <1>3 DEF InputTypes, Drainers
  <1>5. buffer = <<>> /\ drain["app"] # "sending" /\ sending = <<>>
    BY <1>0, <1>2 DEF LockFits, Locked, Drainers
  <1>6. ~cancelled => Len(received) = wrote
    <2> SUFFICES ASSUME ~cancelled PROVE Len(received) = wrote OBVIOUS
    <2>1. Len(buffer) = 0 /\ Len(sending) = 0 /\ wrote \in Nat
      BY <1>2, <1>5, EmptySeq DEF InputTypes
    <2>2. wrote - Len(buffer) - Len(sending) <= Len(received) /\ Len(received) <= wrote
      BY <1>0, <1>2 DEF StdinFits
    <2> QED BY <2>1, <2>2, <1>3
  <1>7. LockFits' BY <1>0, <1>2, <1>3, <1>5, <1>6 DEF LockFits, Drainers
  <1>8. StdinFits' BY <1>0, <1>1, <1>2 DEF StdinFits
  <1> QED BY <1>1, <1>4, <1>7, <1>8 DEF InInv

(* Whatever happens, the invariant of the input is kept.                   *)
LEMMA InStep ==
    ASSUME InInv, [Next]_vars
    PROVE  InInv'
  <1>1. CASE Environment \/ Reader \/ Other \/ Done \/ UNCHANGED vars
    <2>1. case' = case
      <3>1. CASE Environment
        BY <3>1 DEF Environment, GatewayStep, Write, Exit, CloseStreams, LoseEvent
      <3>2. CASE Reader
        BY <3>2 DEF Reader, ReaderStep, Answer, AcceptEvents, HistoryLost, Yield, PageDone,
           AcceptChunk, ReadStatus, YieldChunk, gatewayVars
      <3>3. CASE Other BY <3>3 DEF Other, Stops, Get, AcceptSession, gatewayVars
      <3>4. CASE Done \/ UNCHANGED vars BY <3>4 DEF Done, vars, outputVars, gatewayVars
      <3> QED BY <3>1, <3>2, <3>3, <3>4, <1>1
    <2>2. UNCHANGED inputVars BY <1>1 DEF Environment, Reader, Other, Done, vars
    <2> QED BY <2>1, <2>2, InputLeftAlone DEF inputVars
  <1>2. CASE Feed \/ Fed BY <1>2, FeedInv
  <1>3. CASE \/ Copy \/ Copied \/ BrokenPipe \/ Kill \/ ExecRaises \/ ExecReturns
             \/ WriteFails \/ PumpEnds \/ ScheduleSignal \/ Signalled \/ SignalFails
    <2>1. UNCHANGED <<case, received, eofAt, stdinVars>> /\ (writing = "done" => writing' = "done")
      BY <1>3 DEF Copy, Copied, BrokenPipe, Kill, ExecRaises, ExecReturns, WriteFails, PumpEnds,
         ScheduleSignal, Signalled, SignalFails, outputVars, gatewayVars, inputVars
    <2> QED BY <2>1, InputLeftAlone
  <1>4. CASE WriteChunk BY <1>4, WriteChunkInv
  <1>5. CASE CancelDrain BY <1>5, CancelDrainInv
  <1>6. CASE SendEof BY <1>6, SendEofInv
  <1>7. CASE \E d \in Drainers : StartDrain(d) \/ TakeBuffer(d) \/ SendOk(d) \/ SendFails(d)
    BY <1>7, StartDrainInv, TakeBufferInv, SendOkInv, SendFailsInv
  <1> QED
    BY <1>1, <1>2, <1>3, <1>4, <1>5, <1>6, <1>7 DEF Next, ExecStep, AdapterStep
-----------------------------------------------------------------------------
(* Theorems.                                                               *)

(* The inductive invariant holds in every state of every behaviour.        *)
THEOREM Invariant == Spec => []IInv
  <1>1. Init => IInv BY OutStarts, InStarts DEF Init, IInv
  <1>2. IInv /\ [Next]_vars => IInv' BY OutStep, InStep DEF IInv
  <1> QED BY <1>1, <1>2, PTL DEF Spec

(* Pieces of stdin reach the process in the order in which they were       *)
(* written (StdinInOrder), as long as no drain is cancelled: a drain that  *)
(* fails puts its bytes back in front (_drain of AsyncProcessStdin).       *)
THEOREM StdinKeepsOrder == Spec => []StdinInOrder
  <1>1. IInv => StdinInOrder
    <2> SUFFICES ASSUME IInv, ~cancelled PROVE \A i \in DOMAIN received : received[i] = i
      BY DEF StdinInOrder
    <2>1. /\ received = Pieces(0, Len(received)) /\ received \in Seq(Nat)
      BY DEF IInv, InInv, InputTypes, FedFits, StdinFits
    <2>2. Len(received) \in Nat /\ DOMAIN received = 1..Len(received)
      BY <2>1, LenProperties
    <2>3. \A i \in 1..Len(received) : received[i] = 0 + i
      <3> DEFINE r == Len(received)
      <3>1. \A i \in 1..r : Pieces(0, r)[i] = 0 + i BY <2>2, PiecesType
      <3> HIDE DEF r
      <3>2. received = Pieces(0, r) BY <2>1 DEF r
      <3>3. \A i \in 1..r : received[i] = 0 + i BY <3>1, <3>2
      <3> QED BY <3>3 DEF r
    <2> QED BY <2>2, <2>3
  <1> QED BY <1>1, Invariant, PTL

(* The end of the input comes behind all of it (ClosedStdin): close does   *)
(* not overtake the buffer, or a drain of the application.                 *)
THEOREM StdinClosesLast == Spec => []ClosedStdin
  <1>1. IInv => ClosedStdin
    BY DEF ClosedStdin, IInv, InInv, FedFits, LockFits
  <1> QED BY <1>1, Invariant, PTL

(* How a step maps to the output stream.                                   *)
LEMMA StreamFollows ==
    ASSUME OutInv, [Next]_vars
    PROVE  [Stream!Next]_(Stream!vars)
  <1> DEFINE Open == at \notin {"ended", "failed"}
             Same == UNCHANGED <<written, owed, out>>
  <1> USE DEF Stream!vars
  <1>1. ASSUME Same, at' = at \/ (Open /\ at' \notin {"ended", "failed"})
        PROVE  UNCHANGED Stream!vars
    BY <1>1
  <1>2. ASSUME Same, Open, at' = "failed" PROVE Stream!Fail
    BY <1>2 DEF Stream!Fail
  <1>3. ASSUME HandsOut, UNCHANGED <<written, owed>>, Open,
               at' \in {"reading", "handing", "ended"}
        PROVE  Stream!HandOut
    BY <1>3 DEF HandsOut, Stream!HandOut, Pieces
  <1>4. CASE Environment
    <2>1. CASE Write
      BY <2>1 DEF Write, readerVars, Stream!Next, Stream!Write
    <2>2. CASE Exit
      BY <2>2 DEF Exit, readerVars, Stream!Next, Stream!Exit
    <2>3. CASE CloseStreams \/ LoseEvent
      BY <2>3, <1>1 DEF CloseStreams, LoseEvent, readerVars
    <2> QED BY <2>1, <2>2, <2>3, <1>4 DEF Environment, GatewayStep
  <1>5. CASE Reader
    <2>1. CASE Answer \/ AcceptEvents BY <2>1, <1>1 DEF Answer, AcceptEvents, gatewayVars
    <2>2. CASE HistoryLost
      BY <2>2, <1>2 DEF HistoryLost, gatewayVars, Stream!Next
    <2>3. CASE Yield
      <3>1. HandsOut BY <2>3, YieldInv
      <3> QED BY <2>3, <3>1, <1>3 DEF Yield, gatewayVars, Stream!Next
    <2>4. CASE PageDone
      <3>1. (out' = out /\ at' = "reading") \/ HandsOut BY <2>4, PageDoneInv
      <3>2. /\ UNCHANGED <<written, owed>> /\ Open /\ at' \in {"reading", "ended"}
        BY <2>4 DEF PageDone, gatewayVars
      <3>3. CASE out' = out /\ at' = "reading" BY <3>2, <3>3, <1>1
      <3>4. CASE HandsOut BY <3>2, <3>4, <1>3 DEF Stream!Next
      <3> QED BY <3>1, <3>3, <3>4
    <2>5. CASE AcceptChunk
      <3>1. out' = out /\ at' \in {"status", "handing", "last", "failed"}
        BY <2>5, AcceptChunkInv
      <3>2. Same /\ Open BY <2>5, <3>1 DEF AcceptChunk, gatewayVars
      <3> QED BY <3>1, <3>2, <1>1, <1>2 DEF Stream!Next
    <2>6. CASE ReadStatus
      <3>1. out' = out /\ at' \in {"handing", "last", "failed"} BY <2>6, ReadStatusInv
      <3>2. Same /\ Open BY <2>6, <3>1 DEF ReadStatus, gatewayVars
      <3> QED BY <3>1, <3>2, <1>1, <1>2 DEF Stream!Next
    <2>7. CASE YieldChunk
      <3>1. HandsOut /\ at' \in {"reading", "ended"} BY <2>7, YieldChunkInv
      <3> QED BY <2>7, <3>1, <1>3 DEF YieldChunk, gatewayVars, Stream!Next
    <2> QED
      BY <2>1, <2>2, <2>3, <2>4, <2>5, <2>6, <2>7, <1>5 DEF Reader, ReaderStep
  <1>6. CASE Other
    <2>1. CASE Stops BY <2>1, <1>2 DEF Stops, gatewayVars, Stream!Next
    <2>2. CASE Get \/ AcceptSession BY <2>2, <1>1 DEF Get, AcceptSession, gatewayVars
    <2> QED BY <2>1, <2>2, <1>6 DEF Other
  <1>7. CASE Copy
    BY <1>7 DEF Copy, readerVars, Stream!Next, Stream!Write
  <1>8. CASE Copied \/ Kill \/ Signalled
    <2>1. /\ UNCHANGED <<written, out, at>>
          /\ owed' = owed \/ (owed = None /\ owed' = written)
      BY <1>8 DEF Copied, Kill, Signalled, readerVars
    <2> QED BY <2>1, <1>1 DEF Stream!Next, Stream!Exit
  <1>9. CASE ExecRaises
    <2>1. Same /\ at' = IF at = "ended" THEN "ended" ELSE "failed"
      BY <1>9 DEF ExecRaises, gatewayVars
    <2> QED BY <2>1, <1>1, <1>2 DEF Stream!Next
  <1>10. CASE Feed \/ Fed \/ BrokenPipe \/ ExecReturns \/ WriteFails \/ PumpEnds
    BY <1>10, <1>1 DEF Feed, Fed, BrokenPipe, ExecReturns, WriteFails, PumpEnds,
       outputVars, gatewayVars, readerVars
  <1>11. CASE \/ WriteChunk \/ CancelDrain \/ SendEof \/ ScheduleSignal \/ SignalFails
              \/ \E d \in Drainers : StartDrain(d) \/ TakeBuffer(d) \/ SendOk(d) \/ SendFails(d)
    BY <1>11, <1>1 DEF WriteChunk, CancelDrain, SendEof, ScheduleSignal, SignalFails,
       StartDrain, TakeBuffer, SendOk, SendFails, outputVars, gatewayVars, readerVars
  <1>12. CASE Done \/ UNCHANGED vars
    BY <1>12, <1>1 DEF Done, vars, outputVars, gatewayVars, readerVars
  <1> QED
    BY <1>4, <1>5, <1>6, <1>7, <1>8, <1>9, <1>10, <1>11, <1>12
    DEF Next, ExecStep, AdapterStep

(* Every reader implements the output stream (OutputInOrder): the pieces   *)
(* are handed out in order, each once, and the end is told only after all  *)
(* that was written before the exit of the process.                        *)
THEOREM ImplementsStream == Spec => OutputInOrder
  <1>1. Init => Stream!Init BY DEF Init, OutputInit, Stream!Init
  <1>2. IInv /\ [Next]_vars => [Stream!Next]_(Stream!vars) BY StreamFollows DEF IInv
  <1> QED BY <1>1, <1>2, Invariant, PTL DEF Spec, OutputInOrder, Stream!Spec
=============================================================================

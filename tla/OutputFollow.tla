----------------------------- MODULE OutputFollow -----------------------------
(***************************************************************************)
(* Reading the output of a process to its end: ExecHandle.events and       *)
(* ExecHandle.wait over the events of an exec session, and                 *)
(* JobHandle.follow over the log of a job (client.py); the asyncio handles *)
(* have the same loops.  The reader asks for what comes after its cursor   *)
(* again and again, and decides from the state of the process that comes   *)
(* with each answer whether there is more.                                 *)
(*                                                                         *)
(* The gateway is not in this repository: the first six variables and the  *)
(* actions over them model what the readers rely on.  An older gateway     *)
(* does not say where the output ends (final_sequence), and sends no job   *)
(* record with a piece of the log.                                         *)
(***************************************************************************)
EXTENDS Naturals, Sequences, FiniteSets

CONSTANTS Cases,      (* who reads, from which gateway, how much of it     *)
                      (* there is, and what the process is fed             *)
          Limit,      (* pieces in an answer: limit                        *)
          None

Readers == {"events", "wait", "follow"}

ASSUME CaseAssumption ==
    /\ Cases \subseteq [reader : Readers, gateway : {"new", "old"},
                       bound : Nat, input : Nat]
    /\ Limit \in Nat \ {0}

ASSUME NoneAssumption == None \notin Nat

VARIABLES case,       (* the case of this behaviour                        *)
          written,    (* pieces that were written, named by position       *)
          kept,       (* how many of them the log has (a job's is capped)  *)
          owed,       (* how many were written when the process exited     *)
          final,      (* final_sequence, once every stream is closed       *)
          lost,       (* events that are gone from the history             *)
          at,         (* where the reader is                               *)
          cursor,     (* last_sequence, or offset                          *)
          session,    (* session, or record, as last accepted              *)
          asked,      (* what get, of another task, was answered           *)
          reply,      (* the answer in flight, or being handed out         *)
          page,       (* what is left of it to hand out                    *)
          events,     (* what wait has collected                           *)
          out         (* what the caller was handed                        *)

gatewayVars == <<case, written, kept, owed, final, lost>>
readerVars == <<at, cursor, session, asked, reply, page, events, out>>
outputVars == <<gatewayVars, readerVars>>

Exec == case.reader \in {"events", "wait"}

Positions == 0..3
Status == [terminal : BOOLEAN, final : Positions \cup {None}, truncated : BOOLEAN]

OutputTypeOK ==
    /\ case \in Cases
    /\ {written, kept, cursor} \subseteq Positions
    /\ {owed, final} \subseteq Positions \cup {None}
    /\ lost \subseteq Positions
    /\ at \in {"reading", "answered", "status", "handing", "last", "ended", "failed"}
    /\ session \in Status
    /\ asked \in Status \cup {None}
    /\ reply \in [page : Seq(Positions), status : Status, eof : BOOLEAN] \cup {None}
    /\ page \in Seq(Positions) /\ events \in Seq(Positions) /\ out \in Seq(Positions)

OutputInit ==
    /\ case \in Cases
    /\ written = 0
    /\ kept = 0
    /\ owed = None
    /\ final = None
    /\ lost = {}
    /\ at = "reading"
    /\ cursor = 0
    /\ session = [terminal |-> FALSE, final |-> None, truncated |-> FALSE]
    /\ asked = None
    /\ reply = None
    /\ page = <<>>
    /\ events = <<>>
    /\ out = <<>>
-----------------------------------------------------------------------------
(* The process and the gateway.                                            *)

(* The log of a job stops growing at its cap; a descendant of an exec      *)
(* session can write until its streams are closed.                         *)
Write ==
    /\ written < case.bound
    /\ owed = None \/ (Exec /\ case.gateway = "new" /\ final = None)
    /\ written' = written + 1
    /\ \/ kept = written /\ kept' = kept + 1
       \/ ~Exec /\ UNCHANGED kept
    /\ UNCHANGED <<case, owed, final, lost, readerVars>>

Exit ==
    /\ owed = None
    /\ owed' = written
    /\ UNCHANGED <<case, written, kept, final, lost, readerVars>>

CloseStreams ==
    /\ Exec /\ case.gateway = "new"
    /\ owed # None /\ final = None
    /\ final' = written
    /\ UNCHANGED <<case, written, kept, owed, lost, readerVars>>

(* The history of a session is bounded: an older event is gone.            *)
LoseEvent ==
    /\ Exec /\ lost = {}
    /\ \E p \in 1..(written - 1) : lost' = {p}
    /\ UNCHANGED <<case, written, kept, owed, final, readerVars>>

(* What the gateway says of the process now; a record counts its bytes.    *)
Now == [terminal  |-> owed # None,
        final     |-> IF Exec THEN final ELSE kept,
        truncated |-> kept < written]

(* The first pieces after the cursor that the gateway has.                 *)
Ahead == (cursor + 1)..kept \ lost
Rank(p) == Cardinality({q \in Ahead : q < p})
PageSize == LET n == Cardinality(Ahead) IN IF n < Limit THEN n ELSE Limit
NextPage == [i \in 1..PageSize |-> CHOOSE p \in Ahead : Rank(p) = i - 1]
-----------------------------------------------------------------------------
(* The reader.                                                             *)

Answer ==
    /\ at = "reading"
    /\ reply' = [page |-> NextPage, status |-> Now,
                 eof |-> cursor + Len(NextPage) = kept]
    /\ at' = "answered"
    /\ UNCHANGED <<gatewayVars, cursor, session, asked, page, events, out>>

(* A read fails, wait times out, or the caller abandons the iteration.     *)
Stops ==
    /\ at \in {"reading", "answered", "status", "handing", "last"}
    /\ at' = "failed"
    /\ page' = <<>>
    /\ UNCHANGED <<gatewayVars, cursor, session, asked, reply, events, out>>

Follows(s) == \A i \in DOMAIN s : s[i] = cursor + i

(* _accept_events and _accept_session: the cursor moves over the events    *)
(* before any is handed out.  wait keeps them until it returns.            *)
AcceptEvents ==
    /\ at = "answered" /\ Exec
    /\ Follows(reply.page)
    /\ cursor' = cursor + Len(reply.page)
    /\ session' = reply.status
    /\ page' = IF case.reader = "wait" THEN <<>> ELSE reply.page
    /\ events' = IF case.reader = "wait" THEN events \o reply.page ELSE events
    /\ at' = "handing"
    /\ UNCHANGED <<gatewayVars, asked, reply, out>>

(* ExecEventHistoryLostError: the events before the gap are not handed out *)
(* any more, though the cursor has passed them.                            *)
HistoryLost ==
    /\ at = "answered" /\ Exec
    /\ ~Follows(reply.page)
    /\ LET gap == CHOOSE i \in DOMAIN reply.page :
                     reply.page[i] # cursor + i /\ Follows(SubSeq(reply.page, 1, i - 1))
       IN  cursor' = cursor + gap - 1
    /\ at' = "failed"
    /\ UNCHANGED <<gatewayVars, session, asked, reply, page, events, out>>

Yield ==
    /\ at = "handing" /\ Exec /\ page # <<>>
    /\ out' = Append(out, Head(page))
    /\ page' = Tail(page)
    /\ UNCHANGED <<gatewayVars, at, cursor, session, asked, reply, events>>

(* handle.get() of another task is answered, and its answer, by then       *)
(* perhaps an old one, is accepted while the reader waits for its own      *)
(* answer or its caller holds an event: nothing comes between an answer    *)
(* without events and what the reader makes of it.                         *)
Get ==
    /\ Exec /\ at \in {"reading", "answered", "handing"} /\ asked = None
    /\ asked' = Now
    /\ UNCHANGED <<gatewayVars, at, cursor, session, reply, page, events, out>>

AcceptSession ==
    /\ asked # None
    /\ \/ at \in {"reading", "answered"}
       \/ at = "handing" /\ case.reader = "events" /\ reply.page # <<>>
    /\ session' = asked
    /\ asked' = None
    /\ UNCHANGED <<gatewayVars, at, cursor, reply, page, events, out>>

(* A variant with a bug: a terminal status ends the stream.                *)
TerminalEnds == session.terminal

(* _events_drained: up to final_sequence if that is known, and else until  *)
(* an answer comes without events.                                         *)
EventsDrained ==
    /\ session.terminal
    /\ IF session.final # None THEN cursor >= session.final ELSE reply.page = <<>>

PageDone ==
    /\ at = "handing" /\ Exec /\ page = <<>>
    /\ at' = IF EventsDrained THEN "ended" ELSE "reading"
    /\ out' = IF at' = "ended" /\ case.reader = "wait" THEN events ELSE out
    /\ reply' = None
    /\ UNCHANGED <<gatewayVars, cursor, session, asked, page, events>>

(* job_read_delay: None when the job ended and its log is read.            *)
LogRead(record, offset) == record.terminal /\ offset >= record.final

(* job_read_delay, and the chunk before it is yielded.                     *)
Judge(record, offset) ==
    at' = IF record.truncated THEN "failed"
          ELSE IF LogRead(record, offset) THEN "last"
          ELSE "handing"

(* _job_log_needs_status: an older gateway, and the end of the log.        *)
NeedsStatus == case.gateway = "old" /\ (reply.page = <<>> \/ reply.eof)

AcceptChunk ==
    /\ at = "answered" /\ ~Exec
    /\ cursor' = cursor + Len(reply.page)
    /\ page' = reply.page
    /\ IF NeedsStatus THEN at' = "status" /\ UNCHANGED session
       ELSE IF case.gateway = "old" THEN at' = "handing" /\ UNCHANGED session
       ELSE session' = reply.status /\ Judge(reply.status, cursor')
    /\ UNCHANGED <<gatewayVars, asked, reply, events, out>>

(* get_job, after the piece of the log was read.                           *)
ReadStatus ==
    /\ at = "status"
    /\ session' = Now
    /\ Judge(Now, cursor)
    /\ UNCHANGED <<gatewayVars, cursor, asked, reply, page, events, out>>

YieldChunk ==
    /\ at \in {"handing", "last"} /\ ~Exec
    /\ out' = out \o page
    /\ page' = <<>>
    /\ at' = IF at = "last" THEN "ended" ELSE "reading"
    /\ reply' = None
    /\ UNCHANGED <<gatewayVars, cursor, session, asked, events>>

ReaderStep ==
    \/ Answer
    \/ AcceptEvents \/ HistoryLost \/ Yield \/ PageDone
    \/ AcceptChunk \/ ReadStatus \/ YieldChunk

GatewayStep == Write \/ Exit \/ CloseStreams \/ LoseEvent

OutputStep == GatewayStep \/ ReaderStep \/ Stops \/ Get \/ AcceptSession
-----------------------------------------------------------------------------
Stream == INSTANCE OutputStream WITH
              reader <- IF at \in {"ended", "failed"} THEN at ELSE "open"

(* Every reader implements the output stream: no piece is skipped, handed  *)
(* out twice or out of order, and the end is not announced before all that *)
(* was written at the exit of the process is handed out - with pages, a    *)
(* terminal status that overtakes the last of them, a history that lost    *)
(* events, a log that was cut, and records read after the log was.         *)
OutputInOrder == Stream!Spec
=============================================================================

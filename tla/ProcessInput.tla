----------------------------- MODULE ProcessInput -----------------------------
(***************************************************************************)
(* A process that is fed while its output is read (client.py):             *)
(* - exec(input=...), which writes the input and reads the output at the   *)
(*   same time, because the gateway holds a process back whose output      *)
(*   nobody reads, and kills the process when either of the two fails;     *)
(* - AsyncSandboxProcess, whose stdin is written into a buffer that drain  *)
(*   and close send, whose pump reads the events, and whose wait is        *)
(*   answered by the pump or by a signal that could not be sent.           *)
(* The output is read as in OutputFollow.                                  *)
(***************************************************************************)
EXTENDS OutputFollow

CONSTANT Window       (* pieces a pipe of the gateway holds                *)

ASSUME WindowAssumption == Window \in Nat \ {0}

VARIABLES received,   (* pieces of input in the order in which each        *)
                      (* reached the gateway for the first time            *)
          taken,      (* how many of them the process of exec has read     *)
          eofAt,      (* how many had come when the input was closed       *)
          call,       (* exec(), or wait(): running, (the process is)      *)
          (*             killed, returned or raised                      *)
          writing,    (* the write of exec: busy, done or failed           *)
          wrote,      (* pieces that were written to the adapter           *)
          buffer,     (* _buffer                                           *)
          sending,    (* what the holder of _lock took out of it           *)
          drain,      (* the drain of the application and of _close_task   *)
          cancelled,  (* a drain was cancelled while it was sending        *)
          signals     (* signals on their way                              *)

stdinVars == <<wrote, buffer, sending, drain, cancelled>>
inputVars == <<received, taken, eofAt, call, writing, signals, stdinVars>>
vars == <<outputVars, inputVars>>

ExecCall == case.input > 0 /\ case.reader = "wait"
Adapter == case.input > 0 /\ case.reader = "events"

Drainers == {"app", "closer"}

Init ==
    /\ OutputInit
    /\ received = <<>>
    /\ taken = 0
    /\ eofAt = None
    /\ call = "running"
    /\ writing = "busy"
    /\ wrote = 0
    /\ buffer = <<>>
    /\ sending = <<>>
    /\ drain = [d \in Drainers |-> "idle"]
    /\ cancelled = FALSE
    /\ signals = 0
-----------------------------------------------------------------------------
(* exec(input=...).  The process here copies its input to its output.      *)

(* The request of write_stdin makes progress as the pipe has room.         *)
Feed ==
    /\ ExecCall /\ writing = "busy" /\ owed = None
    /\ Len(received) < case.input
    /\ Len(received) - taken < Window
    /\ received' = Append(received, Len(received) + 1)
    /\ UNCHANGED <<outputVars, taken, eofAt, call, writing, signals, stdinVars>>

Fed ==
    /\ ExecCall /\ writing = "busy" /\ Len(received) = case.input
    /\ writing' = "done"
    /\ eofAt' = Len(received)
    /\ UNCHANGED <<outputVars, received, taken, call, signals, stdinVars>>

Copy ==
    /\ ExecCall /\ owed = None
    /\ taken < Len(received)
    /\ written - cursor < Window
    /\ taken' = taken + 1
    /\ written' = written + 1
    /\ kept' = kept + 1
    /\ UNCHANGED <<case, owed, final, lost, readerVars,
                   received, eofAt, call, writing, signals, stdinVars>>

Copied ==
    /\ ExecCall /\ owed = None
    /\ eofAt # None /\ taken = eofAt
    /\ owed' = written
    /\ UNCHANGED <<case, written, kept, final, lost, readerVars, inputVars>>

(* The process went before it took its input.                              *)
BrokenPipe ==
    /\ ExecCall /\ writing = "busy" /\ owed # None
    /\ writing' = "failed"
    /\ UNCHANGED <<outputVars, received, taken, eofAt, call, signals, stdinVars>>

WriteFails ==
    /\ ExecCall /\ writing = "busy" /\ call = "running"
    /\ writing' = "failed"
    /\ UNCHANGED <<outputVars, received, taken, eofAt, call, signals, stdinVars>>

(* The first failure: the process is killed, which may fail unnoticed.     *)
Kill ==
    /\ ExecCall /\ call = "running"
    /\ writing = "failed" \/ at = "failed"
    /\ owed' \in {owed, IF owed = None THEN written ELSE owed}
    /\ call' = "killed"
    /\ UNCHANGED <<case, written, kept, final, lost, readerVars,
                   received, taken, eofAt, writing, signals, stdinVars>>

(* What is left of the two tasks is cancelled, and the failure raised.     *)
ExecRaises ==
    /\ call = "killed"
    /\ call' = "raised"
    /\ writing' = IF writing = "done" THEN "done" ELSE "failed"
    /\ at' = IF at = "ended" THEN "ended" ELSE "failed"
    /\ UNCHANGED <<gatewayVars, cursor, session, asked, reply, page, events, out,
                   received, taken, eofAt, signals, stdinVars>>

ExecReturns ==
    /\ ExecCall /\ call = "running"
    /\ writing = "done" /\ at = "ended"
    /\ call' = "returned"
    /\ UNCHANGED <<outputVars, received, taken, eofAt, writing, signals, stdinVars>>

Running == call \in {"running", "killed"}

(* A variant with a bug: the output is read after the input was written.   *)
ReaderRunsLast == ExecCall => Running /\ writing = "done"

(* The two run at the same time.                                           *)
ReaderRuns == ExecCall => Running
-----------------------------------------------------------------------------
(* AsyncProcessStdin.                                                      *)

Closing == drain["closer"] # "idle"

WriteChunk ==
    /\ Adapter /\ ~Closing /\ wrote < case.input
    /\ wrote' = wrote + 1
    /\ buffer' = Append(buffer, wrote')
    /\ UNCHANGED <<outputVars, received, taken, eofAt, call, writing, signals,
                   sending, drain, cancelled>>

(* drain() of the application; close() starts _close_task, which drains.   *)
StartDrain(d) ==
    /\ Adapter /\ drain[d] = "idle"
    /\ drain' = [drain EXCEPT ![d] = "waiting"]
    /\ UNCHANGED <<outputVars, received, taken, eofAt, call, writing, signals,
                   wrote, buffer, sending, cancelled>>

Drained(d) == IF d = "app" THEN "idle" ELSE "eof"
Locked == \E d \in Drainers : drain[d] = "sending"

(* A variant with a bug: the buffer is looked at before the lock is taken. *)
TakeBufferUnlocked(d) ==
    /\ Adapter /\ drain[d] = "waiting" /\ (buffer # <<>> => ~Locked)
    /\ drain' = [drain EXCEPT ![d] = IF buffer = <<>> THEN Drained(d) ELSE "sending"]
    /\ sending' = IF buffer = <<>> THEN sending ELSE buffer
    /\ buffer' = <<>>
    /\ UNCHANGED <<outputVars, received, taken, eofAt, call, writing, signals,
                   wrote, cancelled>>

(* Under the lock, the buffer is emptied before it is sent.                *)
TakeBuffer(d) ==
    /\ Adapter /\ drain[d] = "waiting" /\ ~Locked
    /\ drain' = [drain EXCEPT ![d] = IF buffer = <<>> THEN Drained(d) ELSE "sending"]
    /\ sending' = buffer
    /\ buffer' = <<>>
    /\ UNCHANGED <<outputVars, received, taken, eofAt, call, writing, signals,
                   wrote, cancelled>>

(* What is sent again stands in front of what is sent for the first time.  *)
Repeated(s) == Cardinality({i \in DOMAIN s : \E j \in DOMAIN received : received[j] = s[i]})
Received(s) == received \o SubSeq(s, Repeated(s) + 1, Len(s))

SendOk(d) ==
    /\ Adapter /\ drain[d] = "sending"
    /\ received' = Received(sending)
    /\ sending' = <<>>
    /\ drain' = [drain EXCEPT ![d] = Drained(d)]
    /\ UNCHANGED <<outputVars, taken, eofAt, call, writing, signals,
                   wrote, buffer, cancelled>>

(* A request that failed may have reached the gateway.                     *)
MayArrive == received' \in {received, Received(sending)}

(* A variant with a bug: what was not sent goes behind what was written    *)
(* meanwhile.                                                              *)
RestoredLast == buffer \o sending

(* What was not sent goes back in front.                                   *)
Restored == sending \o buffer

SendFails(d) ==
    /\ Adapter /\ drain[d] = "sending"
    /\ MayArrive
    /\ buffer' = Restored
    /\ sending' = <<>>
    /\ drain' = [drain EXCEPT ![d] = IF d = "app" THEN "idle" ELSE "failed"]
    /\ UNCHANGED <<outputVars, taken, eofAt, call, writing, signals, wrote, cancelled>>

(* A cancelled drain does not put back what it was sending.                *)
CancelDrain ==
    /\ Adapter /\ drain["app"] \in {"waiting", "sending"}
    /\ IF drain["app"] = "sending"
       THEN MayArrive /\ sending' = <<>> /\ cancelled' = TRUE
       ELSE UNCHANGED <<received, sending, cancelled>>
    /\ drain' = [drain EXCEPT !["app"] = "idle"]
    /\ UNCHANGED <<outputVars, taken, eofAt, call, writing, signals, wrote, buffer>>

(* close_stdin at the end of _close; a failure of it may be a lost reply.  *)
SendEof ==
    /\ Adapter /\ drain["closer"] = "eof"
    /\ \/ eofAt' = Len(received) /\ drain' = [drain EXCEPT !["closer"] = "closed"]
       \/ eofAt' \in {None, Len(received)} /\ drain' = [drain EXCEPT !["closer"] = "failed"]
    /\ UNCHANGED <<outputVars, received, taken, call, writing, signals,
                   wrote, buffer, sending, cancelled>>
-----------------------------------------------------------------------------
(* AsyncSandboxProcess: the pump, and signals that fail.                   *)

PumpEnds ==
    /\ Adapter /\ at \in {"ended", "failed"} /\ call = "running"
    /\ call' = IF at = "ended" THEN "returned" ELSE "raised"
    /\ UNCHANGED <<outputVars, received, taken, eofAt, writing, signals, stdinVars>>

(* terminate() and kill(), while there is no returncode.                   *)
ScheduleSignal ==
    /\ Adapter /\ call # "returned" /\ signals = 0
    /\ signals' = 1
    /\ UNCHANGED <<outputVars, received, taken, eofAt, call, writing, stdinVars>>

Signalled ==
    /\ signals = 1 /\ owed = None
    /\ owed' = written
    /\ signals' = 0
    /\ UNCHANGED <<case, written, kept, final, lost, readerVars,
                   received, taken, eofAt, call, writing, stdinVars>>

SignalFails ==
    /\ signals = 1
    /\ call' = IF call = "running" THEN "raised" ELSE call
    /\ signals' = 0
    /\ UNCHANGED <<outputVars, received, taken, eofAt, writing, stdinVars>>
-----------------------------------------------------------------------------
Reader == ReaderRuns /\ ReaderStep /\ UNCHANGED inputVars

(* The process of exec writes and ends as its input tells it to, or is     *)
(* gone early; every other process does what it wants.                     *)
Environment ==
    /\ ExecCall => UNCHANGED written
    /\ GatewayStep
    /\ UNCHANGED inputVars

ExecStep == Feed \/ Fed \/ Copy \/ Copied \/ BrokenPipe \/ Kill \/ ExecRaises \/ ExecReturns

AdapterStep ==
    \/ WriteChunk
    \/ \E d \in Drainers :
          StartDrain(d) \/ TakeBuffer(d) \/ SendOk(d) \/ SendFails(d)
    \/ CancelDrain \/ SendEof
    \/ ScheduleSignal \/ Signalled \/ SignalFails

(* The handle of an adapter is left to its pump, to keep the model small.  *)
Other ==
    /\ Stops \/ (~Adapter /\ (Get \/ AcceptSession))
    /\ ReaderRuns
    /\ UNCHANGED inputVars

(* The reader is done, and so is whoever waits for it.                     *)
Done ==
    /\ at \in {"ended", "failed"}
    /\ case.input > 0 => ~Running
    /\ UNCHANGED vars

Next ==
    \/ Environment \/ Reader \/ Other
    \/ ExecStep \/ WriteFails \/ AdapterStep \/ PumpEnds
    \/ Done

(* The tasks of the client run and its requests are answered; the process  *)
(* of exec reads and writes when it can.  Nothing else has to happen.      *)
Spec ==
    /\ Init /\ [][Next]_vars
    /\ WF_vars(Reader) /\ WF_vars(ExecStep) /\ WF_vars(PumpEnds)
-----------------------------------------------------------------------------
(* While no drain is cancelled, a piece of input reaches the process only  *)
(* after all that was written before it: a drain that fails, with or       *)
(* without its bytes having arrived, and writes that go on while it is     *)
(* under way may repeat pieces, but never skip or swap them.               *)
StdinInOrder ==
    ~cancelled => \A i \in DOMAIN received : received[i] = i

(* The input is closed behind all that was written to it: close overtakes  *)
(* neither the buffer nor a drain of the application that is under way.    *)
ClosedStdin ==
    eofAt # None =>
       /\ Len(received) = eofAt
       /\ Adapter /\ ~cancelled => eofAt = wrote

(* Whoever follows a process that exits comes to an end, and exec comes to *)
(* an end with a process that ends with its input: bounded pipes in both   *)
(* directions do not make it and the process wait for each other.          *)
FollowEnds ==
    (owed # None \/ ExecCall) ~> /\ at \in {"ended", "failed"}
                                 /\ case.input > 0 => ~Running
=============================================================================

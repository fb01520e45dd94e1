---------------------------- MODULE NativeStream ----------------------------
(***************************************************************************)
(* One streaming native task: the worker reads frames from Ollama and      *)
(* delivers each as a numbered event, one at a time, to the server         *)
(* (execute_task_with_events, send_stream_event, KeyComputeClient::        *)
(* stream_event).  An attempt to deliver may be lost, answered too late,   *)
(* or served long after the worker has moved on; the same request is sent  *)
(* again, at most MaxAttempts times.  There is no lease monitor here: the  *)
(* server cancels through its acknowledgements.                            *)
(***************************************************************************)
EXTENDS Naturals, Sequences, FiniteSets

CONSTANTS
  MaxAttempts,      \* deliveries of one event, 12 in the code
  MaxChunk,         \* bound: frames decoded from one chunk
  MaxFrames,        \* bound: frames of the whole stream
  MaxHeartbeats     \* bound: idle periods of 3 s

ASSUME StreamAssumption ==
  /\ MaxAttempts \in Nat \ {0}
  /\ MaxChunk \in Nat /\ MaxFrames \in Nat /\ MaxHeartbeats \in Nat

VARIABLES
  clock,            \* before the deadline, in the grace period after it, past both
  pc, seq, event, attempt, ack,
  pending,          \* frames decoded and not yet delivered
  frames, beats,    \* frames and heartbeats turned into events so far
  eof, result,
  wire,             \* requests sent and not yet served
  log, canceled     \* the server: events recorded, task canceled

workerVars == <<pc, seq, event, attempt, ack, pending, frames, beats, eof>>
vars == <<clock, workerVars, result, wire, log, canceled>>

EL == INSTANCE EventLog WITH log <- log, result <- result

NoEvent == [kind |-> "none", n |-> 0]
IsFinal(e) == e.kind \in EL!Final
Request == [seq : Nat, event : EL!Event]

\* An answer: recorded or not, the task over or not, or try again later.
Ack == {"accepted", "accepted_terminal", "terminal", "refused", "retry"}

TypeOK ==
  /\ clock \in {"live", "grace", "over"}
  /\ pc \in {"open", "read", "frames", "send", "wait", "done"}
  /\ seq \in Nat /\ frames \in Nat /\ beats \in Nat
  /\ event \in EL!Event \cup {NoEvent}
  /\ attempt \in 1 .. MaxAttempts
  /\ ack \in Ack \cup {"none"}
  /\ pending \in Seq(EL!Data)
  /\ eof \in BOOLEAN /\ canceled \in BOOLEAN
  /\ result \in {"none", "streamed", "json", "failed"}
  /\ wire \subseteq Request
  /\ log \in Seq(EL!Event)

Init ==
  /\ clock = "live" /\ pc = "open" /\ seq = 0 /\ event = NoEvent
  /\ attempt = 1 /\ ack = "none" /\ pending = <<>> /\ frames = 0 /\ beats = 0
  /\ eof = FALSE /\ result = "none" /\ wire = {} /\ log = <<>> /\ canceled = FALSE

-----------------------------------------------------------------------------
(* send_stream_event: one event at a time, under the next number. *)

streamVars == <<pending, frames, beats, eof>>
otherVars  == <<clock, wire, log, canceled>>

Send(kind, n) ==
  /\ event' = [kind |-> kind, n |-> n]
  /\ attempt' = 1 /\ ack' = "none" /\ pc' = "send"
  /\ UNCHANGED result

Finish(r) ==
  /\ result' = r /\ pc' = "done" /\ ack' = "none"
  /\ UNCHANGED <<event, attempt>>

\* A final event has the grace period, every other one only the deadline.
Deliverable == clock = "live" \/ (clock = "grace" /\ IsFinal(event))

Post ==
  /\ pc = "send" /\ Deliverable
  /\ wire' = wire \cup {[seq |-> seq, event |-> event]}
  /\ pc' = "wait"
  /\ UNCHANGED <<clock, seq, event, attempt, ack, streamVars, result, log, canceled>>

\* native_stream_deadline ends the task, whatever the attempt has come to.
DeliveryDeadline ==
  /\ pc \in {"send", "wait"} /\ ~Deliverable
  /\ Finish("failed")
  /\ UNCHANGED <<seq, streamVars, otherVars>>

\* Mutant: one attempt too many.
BeyondLastAttempt == attempt > MaxAttempts

LastAttempt == attempt = MaxAttempts

\* Mutant: every attempt gets a number of its own.
AttemptFailsRenumbered ==
  /\ pc = "wait" /\ ack \in {"none", "retry"}
  /\ \/ LastAttempt /\ Finish("failed") /\ UNCHANGED seq
     \/ /\ ~LastAttempt
        /\ attempt' = attempt + 1 /\ seq' = seq + 1
        /\ ack' = "none" /\ pc' = "send"
        /\ UNCHANGED <<event, result>>
  /\ UNCHANGED <<streamVars, otherVars>>

\* No answer, a 429 or 5xx, or backpressure: the same request once more.
AttemptFails ==
  /\ pc = "wait" /\ ack \in {"none", "retry"}
  /\ \/ LastAttempt /\ Finish("failed")
     \/ /\ ~LastAttempt
        /\ attempt' = attempt + 1 /\ ack' = "none" /\ pc' = "send"
        /\ UNCHANGED <<event, result>>
  /\ UNCHANGED <<seq, streamVars, otherVars>>

\* Mutant: any answer with a status of 200 counts.
AcknowledgesAll(a) == a \in {"accepted", "accepted_terminal", "terminal", "refused"}

\* validate_stream_ack: an event counts if it is recorded, and a task that is
\* over ends with anything but a final event.
Acknowledges(a) == a = "accepted" \/ (a = "accepted_terminal" /\ IsFinal(event))

AckRefused ==
  /\ pc = "wait" /\ ack \notin {"none", "retry"} /\ ~Acknowledges(ack)
  /\ Finish("failed")
  /\ UNCHANGED <<seq, streamVars, otherVars>>

\* The event is not the end of the stream, nor the frame that says so.
GoesOn == event.kind \notin EL!Final \cup {"complete", "failure"}

\* Mutant: the end of a stream without a terminal frame is taken for success.
ContinueToTerminal ==
  \/ event.kind = "terminal" /\ Finish("streamed")
  \/ event.kind = "failed"   /\ Finish("failed")
  \/ event.kind = "complete" /\ Send("terminal", frames)
  \/ event.kind = "failure"  /\ Send("failed", frames)
  \/ GoesOn /\ pending = <<>> /\ eof /\ Send("terminal", frames)
  \/ /\ GoesOn /\ (pending # <<>> \/ ~eof)
     /\ pc' = IF pending = <<>> THEN "read" ELSE "frames"
     /\ ack' = "none"
     /\ UNCHANGED <<event, attempt, result>>

\* What the worker does once its event is acknowledged: return, send the
\* outcome of a terminal frame at once, report a stream that ended early, go on
\* with the chunk, or read on.
Continue ==
  \/ event.kind = "terminal" /\ Finish("streamed")
  \/ event.kind = "failed"   /\ Finish("failed")
  \/ event.kind = "complete" /\ Send("terminal", frames)
  \/ event.kind = "failure"  /\ Send("failed", frames)
  \/ GoesOn /\ pending = <<>> /\ eof /\ Send("failed", frames)
  \/ /\ GoesOn /\ (pending # <<>> \/ ~eof)
     /\ pc' = IF pending = <<>> THEN "read" ELSE "frames"
     /\ ack' = "none"
     /\ UNCHANGED <<event, attempt, result>>

\* Mutant: the number is not advanced.
SameSeq == seq

NextSeq == seq + 1

Acknowledged ==
  /\ pc = "wait" /\ Acknowledges(ack)
  /\ Continue
  /\ seq' = NextSeq
  /\ UNCHANGED <<streamVars, otherVars>>

-----------------------------------------------------------------------------
(* execute_task_with_events: the upstream response. *)

\* An SSE response is announced with Start.  An error response becomes the
\* result itself and nothing is logged; anything else is an error.
Open ==
  /\ pc = "open"
  /\ Send("start", 0) \/ Finish("json") \/ Finish("failed")
  /\ UNCHANGED <<seq, streamVars, otherVars>>

\* A chunk completes some frames, or none.
ReadChunk ==
  /\ pc = "read" /\ ~eof
  /\ \E k \in 0 .. MaxChunk : \E fs \in [1 .. k -> EL!Data] :
       /\ frames + k <= MaxFrames
       /\ pending' = fs
       /\ pc' = IF k = 0 THEN "read" ELSE "frames"
  /\ UNCHANGED <<seq, event, attempt, ack, frames, beats, eof, result, otherVars>>

\* The next frame of the chunk is observed and sent.
NextFrame ==
  /\ pc = "frames"
  /\ Send(Head(pending), frames + 1)
  /\ pending' = Tail(pending) /\ frames' = frames + 1
  /\ UNCHANGED <<seq, beats, eof, otherVars>>

\* Nothing for 3 s, and the deadline is still ahead.
Idle ==
  /\ pc = "read" /\ clock = "live" /\ beats < MaxHeartbeats
  /\ Send("heartbeat", frames) /\ beats' = beats + 1
  /\ UNCHANGED <<seq, pending, frames, eof, otherVars>>

\* A transport error, a stream beyond the profile's limit, an undecodable
\* chunk.
ReadFails ==
  /\ pc = "read"
  /\ Send("failed", frames)
  /\ UNCHANGED <<seq, streamVars, otherVars>>

\* Mutant: the deadline is taken for another idle period.
ReadDeadlineMissed ==
  /\ pc = "read" /\ clock # "live" /\ beats < MaxHeartbeats
  /\ beats' = beats + 1
  /\ UNCHANGED <<pc, seq, event, attempt, ack, pending, frames, eof, result, otherVars>>

\* native_timeout.
ReadDeadline ==
  /\ pc = "read" /\ clock # "live"
  /\ Send("failed", frames)
  /\ UNCHANGED <<seq, streamVars, otherVars>>

\* The end of the body: it may complete one last frame; without one the stream
\* is incomplete, or ended within a frame.
Eof ==
  /\ pc = "read"
  /\ eof' = TRUE
  /\ \/ Send("failed", frames) /\ UNCHANGED frames
     \/ \E f \in EL!Data :
          frames < MaxFrames /\ Send(f, frames + 1) /\ frames' = frames + 1
  /\ UNCHANGED <<seq, pending, beats, otherVars>>

-----------------------------------------------------------------------------
(* The server (external) and the network. *)

\* An event is recorded when its number is next, and a copy of a recorded one
\* is acknowledged again.  A canceled task is over for every answer.  A refusal
\* is also what a 200 with an unreadable body comes to.
Answer(r, recorded) ==
  {"refused"} \cup
    IF recorded THEN IF canceled \/ IsFinal(r.event) THEN {"accepted_terminal"}
                     ELSE {"accepted"}
    ELSE IF canceled THEN {"terminal"} ELSE {"retry"}

Serve ==
  \E r \in wire, records \in BOOLEAN :
    /\ records => r.seq = Len(log)
    /\ wire' = wire \ {r}
    /\ log' = IF records THEN Append(log, r.event) ELSE log
    /\ \/ /\ pc = "wait" /\ r = [seq |-> seq, event |-> event] /\ ack = "none"
          /\ ack' \in Answer(r, records \/ r.seq < Len(log))
       \/ UNCHANGED ack                             \* the answer is lost
    /\ UNCHANGED <<clock, pc, seq, event, attempt, streamVars, result, canceled>>

Lose ==
  /\ \E r \in wire : wire' = wire \ {r}
  /\ UNCHANGED <<clock, workerVars, result, log, canceled>>

Cancel ==
  /\ ~canceled /\ canceled' = TRUE
  /\ UNCHANGED <<clock, workerVars, result, wire, log>>

Tick ==
  /\ clock # "over"
  /\ clock' = IF clock = "live" THEN "grace" ELSE "over"
  /\ UNCHANGED <<workerVars, result, wire, log, canceled>>

-----------------------------------------------------------------------------
Deliver == Post \/ DeliveryDeadline \/ AttemptFails \/ AckRefused \/ Acknowledged
Read == Open \/ ReadChunk \/ NextFrame \/ Idle \/ ReadFails \/ ReadDeadline \/ Eof
Next == Deliver \/ Read \/ Serve \/ Lose \/ Cancel \/ Tick

\* Time passes, and the worker's task is scheduled when it can run: a delivery
\* attempt has a timeout of 3 s, a read one of 3 s or up to the deadline.
Fairness == WF_vars(Deliver) /\ WF_vars(Open \/ NextFrame \/ ReadDeadline) /\ WF_vars(Tick)

Spec == Init /\ [][Next]_vars
FairSpec == Spec /\ Fairness
-----------------------------------------------------------------------------
\* The log is never behind the worker, and ahead of it by the event in delivery
\* at most: no number is skipped and none is used up by a retry
\* (KeyComputeClient::stream_event keeps the request across its attempts).
LogInStep == Len(log) \in {seq, seq + 1}

\* A late copy of a request never differs from what is recorded under its
\* number, so acknowledging it again is harmless (stream_event freezes the
\* encoded event).
CopiesAgree ==
  \A r \in wire : r.seq < Len(log) => log[r.seq + 1] = r.event

\* The server's log and the worker's result keep the promise of EventLog, under
\* lost and late answers, backpressure, cancellation and the deadline
\* (execute_task_with_events).
Implements == EL!Spec

\* Every streaming task comes to a result, even with a silent upstream and a
\* server that never answers (execute_task_with_events).
StreamSettles == <>(result # "none")
=============================================================================

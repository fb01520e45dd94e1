------------------------- MODULE NativeStreamProofs -------------------------
(***************************************************************************)
(* NativeStream implements EventLog, for every number of attempts and for  *)
(* streams of every length.  The argument is about the one event that is   *)
(* in delivery: until it is recorded it is the only one any request can    *)
(* extend the log with, and what the worker has seen of the log makes it   *)
(* the right one.                                                          *)
(***************************************************************************)
EXTENDS NativeStream, SequenceTheorems, TLAPS

Last == log[Len(log)]

\* Between two events the worker is where the log is, and the stream goes on.
BetweenEvents ==
  /\ pc = "open" => /\ log = <<>> /\ wire = {} /\ frames = 0 /\ ack = "none"
  /\ pc \in {"read", "frames"} =>
       /\ log # <<>> /\ Len(log) = seq
       /\ Last.kind \notin EL!Final \cup {"complete", "failure"}
       /\ Last.n = frames
  /\ pc = "frames" => pending # <<>>

\* The event in delivery is the next one, or has just become the last one.
InDelivery ==
  pc \in {"send", "wait"} =>
    /\ event \in EL!Event /\ event.n = frames
    /\ Len(log) = seq => EL!Extends(event.kind) /\ event.n = EL!Count(event.kind)
    /\ Len(log) = seq + 1 => Last = event

\* A request is a copy of what is recorded, or the event in delivery.
Requests ==
  \A r \in wire :
    /\ r.seq <= Len(log)
    /\ r.seq < Len(log) => log[r.seq + 1] = r.event
    /\ r.seq = Len(log) =>
         /\ r.seq = seq /\ r.event = event
         /\ pc \in {"send", "wait", "done"} /\ result \in {"none", "failed"}
         /\ EL!Extends(r.event.kind) /\ r.event.n = EL!Count(r.event.kind)

\* An acknowledgement tells the truth, and only the end has a result.
Answers ==
  /\ ack \in {"accepted", "accepted_terminal"} => pc = "wait" /\ Len(log) = seq + 1
  /\ pc = "done" <=> result # "none"

StreamInv == LogInStep /\ BetweenEvents /\ InDelivery /\ Requests /\ Answers

-----------------------------------------------------------------------------
(* Types *)

\* What a step of the delivery finds and leaves.
LEMMA TypeContinue ==
  ASSUME TypeOK, pc = "wait", event \in EL!Event, Continue, seq' = NextSeq,
         UNCHANGED <<streamVars, otherVars>>
  PROVE  TypeOK'
<1> USE StreamAssumption DEF TypeOK, NextSeq, streamVars, otherVars, EL!Event, EL!Kind,
                             EL!Final, EL!Data
<1>1. CASE event.kind \in {"terminal", "failed"}
  BY <1>1 DEF Continue, Finish, GoesOn
<1>2. CASE event.kind \in {"complete", "failure"}
  BY <1>2 DEF Continue, Send, GoesOn
<1>3. CASE GoesOn
  BY <1>3 DEF Continue, Send, GoesOn
<1> QED
  BY <1>1, <1>2, <1>3 DEF GoesOn

\* The steps of the delivery keep the types.
LEMMA TypeDeliver ==
  ASSUME TypeOK, StreamInv, Deliver
  PROVE  TypeOK'
<1> USE StreamAssumption DEF TypeOK, streamVars, otherVars
<1>1. CASE Post
  <2>1. event \in EL!Event
    BY <1>1 DEF Post, StreamInv, InDelivery
  <2>2. [seq |-> seq, event |-> event] \in Request
    BY <2>1 DEF Request
  <2> QED
    BY <1>1, <2>2 DEF Post
<1>2. CASE DeliveryDeadline
  BY <1>2 DEF DeliveryDeadline, Finish
<1>3. CASE AttemptFails
  BY <1>3 DEF AttemptFails, Finish, LastAttempt
<1>4. CASE AckRefused
  BY <1>4 DEF AckRefused, Finish
<1>5. CASE Acknowledged
  <2>1. event \in EL!Event
    BY <1>5 DEF Acknowledged, StreamInv, InDelivery
  <2> QED
    BY <1>5, <2>1, TypeContinue DEF Acknowledged
<1> QED
  BY <1>1, <1>2, <1>3, <1>4, <1>5 DEF Deliver

\* The steps that read the upstream response keep the types.
LEMMA TypeRead ==
  ASSUME TypeOK, StreamInv, Read
  PROVE  TypeOK'
<1> USE StreamAssumption DEF TypeOK, streamVars, otherVars, Send, EL!Event, EL!Kind,
                             EL!Final, EL!Data
<1>1. CASE Open
  BY <1>1 DEF Open, Finish
<1>2. CASE ReadChunk
  <2>1. pending' \in Seq(EL!Data)
    BY <1>2, SeqDef DEF ReadChunk
  <2> QED
    BY <1>2, <2>1 DEF ReadChunk
<1>3. CASE NextFrame
  <2>1. pending # <<>>
    BY <1>3 DEF NextFrame, StreamInv, BetweenEvents
  <2>2. Head(pending) \in EL!Data /\ Tail(pending) \in Seq(EL!Data)
    BY <2>1, HeadTailProperties
  <2> QED
    BY <1>3, <2>2 DEF NextFrame
<1>4. CASE Idle
  BY <1>4 DEF Idle
<1>5. CASE ReadFails \/ ReadDeadline
  BY <1>5 DEF ReadFails, ReadDeadline
<1>6. CASE Eof
  BY <1>6 DEF Eof
<1> QED
  BY <1>1, <1>2, <1>3, <1>4, <1>5, <1>6 DEF Read

\* Server, network and clock keep the types.
LEMMA TypeEnvironment ==
  ASSUME TypeOK, Serve \/ Lose \/ Cancel \/ Tick
  PROVE  TypeOK'
<1> USE DEF TypeOK, streamVars, workerVars
<1>1. CASE Serve
  <2>1. PICK r \in wire, records \in BOOLEAN :
          /\ wire' = wire \ {r}
          /\ log' = IF records THEN Append(log, r.event) ELSE log
          /\ ack' \in Answer(r, records \/ r.seq < Len(log)) \/ UNCHANGED ack
    BY <1>1 DEF Serve
  <2>2. r.event \in EL!Event
    BY DEF Request
  <2>3. log' \in Seq(EL!Event)
    BY <2>1, <2>2, AppendProperties
  <2>4. ack' \in Ack \cup {"none"}
    BY <2>1 DEF Answer, Ack
  <2> QED
    BY <1>1, <2>1, <2>3, <2>4 DEF Serve
<1>2. CASE Lose
  BY <1>2 DEF Lose
<1>3. CASE Cancel
  BY <1>3 DEF Cancel
<1>4. CASE Tick
  BY <1>4 DEF Tick
<1> QED
  BY <1>1, <1>2, <1>3, <1>4

-----------------------------------------------------------------------------
(* The invariant *)

\* The delivery of an event keeps the invariant.
LEMMA InvDeliver ==
  ASSUME TypeOK, StreamInv, Deliver
  PROVE  StreamInv'
<1> USE DEF TypeOK, StreamInv, LogInStep, BetweenEvents, InDelivery, Requests, Answers,
            Last, streamVars, otherVars, Request
<1>1. CASE Post
  <2>1. /\ UNCHANGED <<seq, event, ack, pending, frames, result, log>>
        /\ pc = "send" /\ pc' = "wait"
        /\ wire' = wire \cup {[seq |-> seq, event |-> event]}
    BY <1>1 DEF Post
  <2>2. LogInStep' /\ BetweenEvents' /\ Answers'
    BY <2>1
  <2>3. InDelivery'
    BY <2>1 DEF EL!Extends, EL!Count
  <2>4. Requests'
    BY <2>1 DEF EL!Extends, EL!Count
  <2> QED
    BY <2>2, <2>3, <2>4
<1>2. CASE DeliveryDeadline
  BY <1>2 DEF DeliveryDeadline, Finish, EL!Extends, EL!Count
<1>3. CASE AttemptFails
  BY <1>3 DEF AttemptFails, Finish, EL!Extends, EL!Count
<1>4. CASE AckRefused
  BY <1>4 DEF AckRefused, Finish, EL!Extends, EL!Count
<1>5. CASE Acknowledged
  <2>1. /\ pc = "wait" /\ Len(log) = seq + 1 /\ seq' = seq + 1 /\ log # <<>>
        /\ Last = event /\ event \in EL!Event /\ event.n = frames
        /\ UNCHANGED <<pending, frames, wire, log>>
    BY <1>5 DEF Acknowledged, Acknowledges, NextSeq
  <2>2. \A r \in wire : r.seq < Len(log)
    BY <2>1
  <2>3. LogInStep' /\ Requests'
    BY <2>1, <2>2
  <2>4. CASE event.kind \in {"terminal", "failed"}
    BY <1>5, <2>1, <2>3, <2>4 DEF Acknowledged, Continue, Finish, GoesOn, EL!Final
  <2>5. CASE event.kind \in {"complete", "failure"}
    <3>1. \E k \in {"terminal", "failed"} :
            /\ (k = "terminal") <=> (event.kind = "complete")
            /\ event' = [kind |-> k, n |-> frames] /\ pc' = "send" /\ ack' = "none"
            /\ UNCHANGED result
      BY <1>5, <2>5 DEF Acknowledged, Continue, Send, GoesOn, EL!Final
    <3>2. InDelivery'
      BY <2>1, <2>5, <3>1 DEF EL!Extends, EL!Follows, EL!Count, EL!Event, EL!Kind, EL!Final,
                              EL!Data
    <3> QED
      BY <2>1, <2>3, <3>1, <3>2
  <2>6. CASE GoesOn /\ pc' \in {"read", "frames"}
    BY <1>5, <2>1, <2>3, <2>6 DEF Acknowledged, Continue, Send, Finish, GoesOn, EL!Final
  <2>7. CASE GoesOn /\ pc' \notin {"read", "frames"}
    <3>1. /\ event' = [kind |-> "failed", n |-> frames] /\ pc' = "send" /\ ack' = "none"
          /\ UNCHANGED result
      BY <1>5, <2>7 DEF Acknowledged, Continue, Send, GoesOn, EL!Final
    <3>2. InDelivery'
      BY <2>1, <2>7, <3>1 DEF GoesOn, EL!Extends, EL!Follows, EL!Count, EL!Event, EL!Kind,
                              EL!Final, EL!Data
    <3> QED
      BY <2>1, <2>3, <3>1, <3>2
  <2> QED
    BY <2>4, <2>5, <2>6, <2>7 DEF GoesOn, EL!Final
<1> QED
  BY <1>1, <1>2, <1>3, <1>4, <1>5 DEF Deliver

\* An event that the stream so far may be continued with starts its delivery.
LEMMA InvSend ==
  ASSUME TypeOK, StreamInv, pc \in {"open", "read", "frames"},
         NEW k \in EL!Kind, Send(k, frames'), frames' \in Nat,
         EL!Extends(k), frames' = EL!Count(k), UNCHANGED <<seq, wire, log>>
  PROVE  StreamInv'
<1> USE DEF TypeOK, StreamInv, LogInStep, BetweenEvents, InDelivery, Requests, Answers,
            Last, Send, Request
<1>1. Len(log) = seq
  BY LenProperties
<1>2. \A r \in wire : r.seq < Len(log)
  OBVIOUS
<1>3. InDelivery'
  BY <1>1 DEF EL!Event, EL!Extends, EL!Count
<1> QED
  BY <1>1, <1>2, <1>3

\* Reading the upstream response keeps the invariant.
LEMMA InvRead ==
  ASSUME TypeOK, StreamInv, Read
  PROVE  StreamInv'
<1> USE DEF TypeOK, streamVars, otherVars, EL!Kind, EL!Data, EL!Final
<1>1. CASE Open
  <2>1. CASE Send("start", 0)
    BY <1>1, <2>1, InvSend DEF Open, EL!Extends, EL!Count, StreamInv, BetweenEvents
  <2>2. CASE Finish("json") \/ Finish("failed")
    BY <1>1, <2>2 DEF Open, Finish, StreamInv, LogInStep, BetweenEvents, InDelivery,
                      Requests, Answers
  <2> QED
    BY <1>1, <2>1, <2>2 DEF Open
<1>2. CASE ReadChunk
  <2>1. pc' = "frames" => pending' # <<>>
    BY <1>2, SeqDef DEF ReadChunk
  <2>2. /\ pc = "read" /\ pc' \in {"read", "frames"}
        /\ UNCHANGED <<seq, event, ack, frames, result, wire, log>>
    BY <1>2 DEF ReadChunk
  <2> QED
    BY <2>1, <2>2 DEF StreamInv, LogInStep, BetweenEvents, InDelivery, Requests, Answers,
                      Last, EL!Extends, EL!Count
<1>3. CASE NextFrame
  <2>1. Head(pending) \in EL!Data
    BY <1>3, HeadTailProperties DEF NextFrame, StreamInv, BetweenEvents
  <2>2. EL!Extends(Head(pending)) /\ frames + 1 = EL!Count(Head(pending))
    BY <1>3, <2>1 DEF NextFrame, StreamInv, BetweenEvents, Last, EL!Extends, EL!Count,
                      EL!Follows
  <2> QED
    BY <1>3, <2>1, <2>2, InvSend DEF NextFrame
<1>4. CASE Idle
  <2>1. EL!Extends("heartbeat") /\ frames = EL!Count("heartbeat")
    BY <1>4 DEF Idle, StreamInv, BetweenEvents, Last, EL!Extends, EL!Count, EL!Follows
  <2> QED
    BY <1>4, <2>1, InvSend DEF Idle
<1>5. CASE ReadFails \/ ReadDeadline
  <2>1. EL!Extends("failed") /\ frames = EL!Count("failed")
    BY <1>5 DEF ReadFails, ReadDeadline, StreamInv, BetweenEvents, Last, EL!Extends,
                EL!Count, EL!Follows
  <2> QED
    BY <1>5, <2>1, InvSend DEF ReadFails, ReadDeadline
<1>6. CASE Eof
  <2>1. EL!Extends("failed") /\ frames = EL!Count("failed")
    BY <1>6 DEF Eof, StreamInv, BetweenEvents, Last, EL!Extends, EL!Count, EL!Follows
  <2>2. \A f \in EL!Data : EL!Extends(f) /\ frames + 1 = EL!Count(f)
    BY <1>6 DEF Eof, StreamInv, BetweenEvents, Last, EL!Extends, EL!Count, EL!Follows
  <2>3. CASE Send("failed", frames) /\ UNCHANGED frames
    BY <1>6, <2>1, <2>3, InvSend DEF Eof
  <2>4. ASSUME NEW f \in EL!Data, Send(f, frames + 1), frames' = frames + 1
        PROVE  StreamInv'
    BY <1>6, <2>2, <2>4, InvSend DEF Eof
  <2> QED
    BY <1>6, <2>3, <2>4 DEF Eof
<1> QED
  BY <1>1, <1>2, <1>3, <1>4, <1>5, <1>6 DEF Read

\* A request that extends the log is the event in delivery; every other one is a copy.
LEMMA InvServe ==
  ASSUME TypeOK, StreamInv, Serve
  PROVE  StreamInv'
<1> USE DEF TypeOK, StreamInv, LogInStep, BetweenEvents, InDelivery, Requests, Answers,
            Last, streamVars, Request
<1>1. PICK r \in wire, records \in BOOLEAN :
        /\ records => r.seq = Len(log)
        /\ wire' = wire \ {r}
        /\ log' = IF records THEN Append(log, r.event) ELSE log
        /\ \/ /\ pc = "wait" /\ r = [seq |-> seq, event |-> event] /\ ack = "none"
              /\ ack' \in Answer(r, records \/ r.seq < Len(log))
           \/ UNCHANGED ack
  BY DEF Serve
<1>2. UNCHANGED <<pc, seq, event, pending, frames, result>>
  BY DEF Serve
<1>3. CASE records
  <2>1. /\ r.seq = seq /\ r.event = event /\ seq = Len(log)
        /\ pc \in {"send", "wait", "done"} /\ r \in Request
    BY <1>1, <1>3
  <2>2. /\ log' = Append(log, event) /\ Len(log') = Len(log) + 1
        /\ log'[Len(log')] = event
        /\ \A i \in 1 .. Len(log) : log'[i] = log[i]
    BY <1>1, <1>3, <2>1, AppendProperties
  <2>3. \A q \in wire' : q.seq < Len(log)
    <3> SUFFICES ASSUME NEW q \in wire, q.seq = Len(log) PROVE q = r
      BY <1>1
    <3> QED
      BY <2>1
  <2>4. Requests'
    BY <1>1, <2>2, <2>3
  <2>5. Answers'
    BY <1>1, <1>2, <2>1, <2>2
  <2>6. LogInStep' /\ BetweenEvents' /\ InDelivery'
    BY <1>2, <2>1, <2>2
  <2> QED
    BY <2>4, <2>5, <2>6
<1>4. CASE ~records
  <2>1. log' = log /\ wire' \subseteq wire
    BY <1>1, <1>4
  <2>2. ack' \in {"accepted", "accepted_terminal"} => pc = "wait" /\ Len(log) = seq + 1
    BY <1>1, <1>4 DEF Answer
  <2>3. Answers'
    BY <1>2, <2>1, <2>2
  <2>4. BetweenEvents'
    BY <1>1, <1>2, <2>1
  <2>5. LogInStep' /\ InDelivery' /\ Requests'
    BY <1>2, <2>1 DEF EL!Extends, EL!Count
  <2> QED
    BY <2>3, <2>4, <2>5
<1> QED
  BY <1>3, <1>4

\* The rest of the environment keeps the invariant.
LEMMA InvEnvironment ==
  ASSUME TypeOK, StreamInv, Lose \/ Cancel \/ Tick
  PROVE  StreamInv'
<1> USE DEF StreamInv, LogInStep, BetweenEvents, InDelivery, Requests, Answers, Last,
            workerVars, EL!Extends, EL!Count
<1>1. CASE Lose
  BY <1>1 DEF Lose
<1>2. CASE Cancel
  BY <1>2 DEF Cancel
<1>3. CASE Tick
  BY <1>3 DEF Tick
<1> QED
  BY <1>1, <1>2, <1>3

\* Every step of the worker, the server, the network and the clock keeps types and
\* invariant.
THEOREM StreamInvariant == Spec => [](TypeOK /\ StreamInv)
<1>1. Init => TypeOK
  <2> SUFFICES ASSUME Init PROVE TypeOK
    OBVIOUS
  <2>1. pending \in Seq(EL!Data) /\ log \in Seq(EL!Event)
    BY DEF Init
  <2>2. wire \subseteq Request
    BY DEF Init
  <2>3. attempt \in 1..MaxAttempts
    BY StreamAssumption DEF Init
  <2> QED
    BY <2>1, <2>2, <2>3 DEF Init, TypeOK
<1>2. Init => StreamInv
  BY DEF Init, StreamInv, LogInStep, BetweenEvents, InDelivery, Requests, Answers
<1>3. TypeOK /\ StreamInv /\ [Next]_vars => TypeOK' /\ StreamInv'
  <2> SUFFICES ASSUME TypeOK, StreamInv, [Next]_vars PROVE TypeOK' /\ StreamInv'
    OBVIOUS
  <2>1. CASE Deliver
    BY <2>1, TypeDeliver, InvDeliver
  <2>2. CASE Read
    BY <2>2, TypeRead, InvRead
  <2>3. CASE Serve
    BY <2>3, TypeEnvironment, InvServe
  <2>4. CASE Lose \/ Cancel \/ Tick
    BY <2>4, TypeEnvironment, InvEnvironment
  <2>5. CASE UNCHANGED vars
    BY <2>5 DEF vars, workerVars, TypeOK, StreamInv, LogInStep, BetweenEvents, InDelivery,
                Requests, Answers, Last, EL!Extends, EL!Count
  <2> QED
    BY <2>1, <2>2, <2>3, <2>4, <2>5 DEF Next
<1> QED
  BY <1>1, <1>2, <1>3, PTL DEF Spec

\* Every variable of the worker, the network and the server's log keeps its type
\* (execute_task_with_events, stream_event).
THEOREM TypeCorrect == Spec => []TypeOK
BY StreamInvariant, PTL

\* The log is where the worker is or one event ahead: retries use up no number
\* (stream_event).
THEOREM LogAlwaysInStep == Spec => []LogInStep
<1>1. StreamInv => LogInStep
  BY DEF StreamInv
<1> QED
  BY <1>1, StreamInvariant, PTL

\* A copy served late is the event recorded under its number (stream_event).
THEOREM CopiesAlwaysAgree == Spec => []CopiesAgree
<1>1. StreamInv => CopiesAgree
  BY DEF StreamInv, Requests, CopiesAgree
<1> QED
  BY <1>1, StreamInvariant, PTL

-----------------------------------------------------------------------------
(* Refinement *)

\* A step of the worker records nothing; what it may do is report its result.
LEMMA WorkerReports ==
  ASSUME TypeOK, StreamInv, Deliver \/ Read
  PROVE  [EL!Next]_<<log, result>>
<1> USE DEF streamVars, otherVars
<1>1. UNCHANGED log
  BY DEF Deliver, Read, Post, DeliveryDeadline, AttemptFails, AckRefused, Acknowledged, Open,
         ReadChunk, NextFrame, Idle, ReadFails, ReadDeadline, Eof
<1>2. CASE result' = result
  BY <1>1, <1>2
<1>3. CASE result' # result
  <2>1. result = "none"
    <3>1. pc # "done"
      BY <1>3 DEF Deliver, Read, Post, DeliveryDeadline, AttemptFails, AckRefused,
                  Acknowledged, Open, ReadChunk, NextFrame, Idle, ReadFails, ReadDeadline, Eof
    <3> QED
      BY <3>1 DEF StreamInv, Answers
  <2>2. \/ result' = "failed"
        \/ result' = "json" /\ Open
        \/ result' = "streamed" /\ Acknowledged /\ event.kind = "terminal"
    BY <1>3 DEF Deliver, Read, Post, DeliveryDeadline, AttemptFails, AckRefused,
                Acknowledged, Open, ReadChunk, NextFrame, Idle, ReadFails, ReadDeadline, Eof,
                Send, Finish, Continue
  <2>3. CASE result' = "failed"
    BY <1>1, <2>1, <2>3 DEF EL!Next, EL!Report
  <2>4. CASE result' = "json" /\ Open
    BY <1>1, <2>1, <2>4 DEF EL!Next, EL!Report, Open, StreamInv, BetweenEvents
  <2>5. CASE result' = "streamed" /\ Acknowledged /\ event.kind = "terminal"
    <3>1. log # <<>> /\ Last = event
      BY <2>5 DEF Acknowledged, Acknowledges, StreamInv, Answers, InDelivery, TypeOK
    <3> QED
      BY <1>1, <2>1, <2>5, <3>1 DEF EL!Next, EL!Report, Last
  <2> QED
    BY <2>2, <2>3, <2>4, <2>5
<1> QED
  BY <1>2, <1>3

\* A step of the server records the next event, or nothing.
LEMMA ServerRecords ==
  ASSUME TypeOK, StreamInv, Serve
  PROVE  [EL!Next]_<<log, result>>
<1>1. PICK r \in wire, records \in BOOLEAN :
        /\ records => r.seq = Len(log)
        /\ log' = IF records THEN Append(log, r.event) ELSE log
        /\ UNCHANGED result
  BY DEF Serve, streamVars
<1>2. CASE records
  <2>1. /\ r.event \in EL!Event /\ result \in {"none", "failed"}
        /\ EL!Extends(r.event.kind) /\ r.event.n = EL!Count(r.event.kind)
    BY <1>1, <1>2 DEF TypeOK, Request, StreamInv, Requests
  <2>2. r.event = [kind |-> r.event.kind, n |-> EL!Count(r.event.kind)]
    BY <2>1 DEF EL!Event
  <2>3. r.event.kind \in EL!Kind
    BY <2>1 DEF EL!Event
  <2>4. EL!Record(r.event.kind)
    BY <1>1, <1>2, <2>1, <2>2 DEF EL!Record
  <2> QED
    BY <2>3, <2>4 DEF EL!Next
<1>3. CASE ~records
  BY <1>1, <1>3
<1> QED
  BY <1>2, <1>3

\* The detailed delivery implements the abstract log: whatever is lost, late, repeated or
\* cancelled, every event is recorded once and in order, nothing follows a final one,
\* and the result agrees with the log (execute_task_with_events).
THEOREM ImplementsEventLog == Spec => Implements
<1>1. Init => EL!Init
  BY DEF Init, EL!Init
<1>2. TypeOK /\ StreamInv /\ [Next]_vars => [EL!Next]_<<log, result>>
  <2> SUFFICES ASSUME TypeOK, StreamInv, [Next]_vars PROVE [EL!Next]_<<log, result>>
    OBVIOUS
  <2>1. CASE Deliver \/ Read
    BY <2>1, WorkerReports
  <2>2. CASE Serve
    BY <2>2, ServerRecords
  <2>3. CASE Lose \/ Cancel \/ Tick \/ UNCHANGED vars
    BY <2>3 DEF Lose, Cancel, Tick, vars
  <2> QED
    BY <2>1, <2>2, <2>3 DEF Next
<1> QED
  BY <1>1, <1>2, StreamInvariant, PTL DEF Spec, Implements, EL!Spec
=============================================================================

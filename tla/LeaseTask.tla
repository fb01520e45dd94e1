----------------------------- MODULE LeaseTask -----------------------------
(***************************************************************************)
(* One leased task against the clock: the inference, the lease monitor     *)
(* racing it (execute_native_cancellable), and the delivery of its result  *)
(* within a budget taken from the deadline or the grace period             *)
(* (complete_with_retry).  A "cancellable" task has the monitor and the    *)
(* deadline, a "native" one the deadline only, a "legacy" one just the     *)
(* timeout of the Ollama client.  A timer fires when it is due; time never *)
(* passes one that is.  The unit of time is open: with the milliseconds of *)
(* the code the periods have the values given beside them.                 *)
(***************************************************************************)
EXTENDS Naturals

CONSTANTS
  Starts,            \* when the task may start: its lease may have waited for a permit
  Deadline,          \* deadline_unix_ms, counted from the grant of the lease
  GraceUntil,        \* complete_grace_until_unix_ms
  LegacyTimeout,     \* the Ollama client's timeout, 600 000
  CompleteTimeout,   \* the server client's timeout, 300 000
  MonitorPeriod,     \* the monitor's sleep between two questions, 2 000
  StatusTimeout,     \* how long it waits for an answer, 2 000
  RetryInterval,     \* the cap of the pauses between attempts, 5 000
  FirstDelay         \* the pause before the first retry, 100

ASSUME LeaseTaskAssumption ==
  /\ Starts \subseteq Nat
  /\ Deadline \in Nat /\ GraceUntil \in Nat /\ Deadline <= GraceUntil
  /\ LegacyTimeout \in Nat /\ CompleteTimeout \in Nat
  /\ MonitorPeriod \in Nat /\ StatusTimeout \in Nat
  /\ RetryInterval \in Nat \ {0}
  /\ FirstDelay \in Nat /\ FirstDelay <= RetryInterval

MaxFailures == 3

VARIABLES
  now, kind, pc,
  exec,              \* the inference
  monitor, wake,     \* asleep or asking until wake
  status_reply, failures, reason,
  last_contact,      \* when the server last confirmed the lease
  result, budget, retries, due, slept, reply,
  lease, ended_at,   \* the server's view of the lease, and when it ended, if before
                     \* the result
  recorded           \* the server has the result

execVars     == <<exec, monitor, wake, status_reply, failures, reason, last_contact>>
deliveryVars == <<result, budget, retries, due, slept, reply>>
serverVars   == <<lease, ended_at, recorded>>
vars == <<now, kind, pc, execVars, deliveryVars, serverVars>>

StatusReply   == {"none", "active", "inactive", "refused", "error"}
StopReason    == {"native_task_cancelled", "native_task_lease_invalid",
                  "native_task_control_unavailable", "native_task_deadline"}
CompleteReply == {"none", "ok", "unreadable", "refused", "error"}

TypeOK ==
  /\ now \in Nat /\ kind \in {"cancellable", "native", "legacy"}
  /\ pc \in {"check", "run", "send", "reply", "pause", "done"}
  /\ exec \in {"idle", "running", "succeeded", "failed", "dropped"}
  /\ monitor \in {"off", "sleep", "ask"} /\ wake \in Nat
  /\ status_reply \in StatusReply /\ failures \in 0 .. MaxFailures
  /\ reason \in StopReason \cup {"none"}
  /\ last_contact \in 0 .. now
  /\ result \in {"none", "succeeded", "failed"} \cup StopReason
  /\ budget \in Nat /\ retries \in Nat /\ due \in Nat /\ slept \in Nat
  /\ reply \in CompleteReply
  /\ lease \in {"active", "inactive", "invalid"} /\ ended_at \in 0 .. now
  /\ recorded \in BOOLEAN

Init ==
  /\ now \in Starts /\ kind \in {"cancellable", "native", "legacy"}
  /\ pc = IF kind = "cancellable" THEN "check" ELSE "run"
  /\ exec = IF kind = "cancellable" THEN "idle"
            ELSE IF kind = "native" /\ now >= Deadline THEN "failed" ELSE "running"
  /\ monitor = IF kind = "cancellable" THEN "ask" ELSE "off"
  /\ wake = now + StatusTimeout /\ status_reply = "none"
  /\ failures = 0 /\ reason = "none" /\ last_contact = 0
  /\ result = "none" /\ budget = 0 /\ retries = 0 /\ due = 0 /\ slept = 0
  /\ reply = "none" /\ lease = "active" /\ ended_at = 0 /\ recorded = FALSE

-----------------------------------------------------------------------------
(* The result is settled; complete_with_retry reads the clock once. *)

AtLeast(m, n) == IF n < m THEN m ELSE n

\* The time left to the deadline, or past it to the end of the grace period.
RetryDuration ==
  IF now < Deadline THEN Deadline - now
  ELSE IF now < GraceUntil THEN GraceUntil - now ELSE 0

\* Past the grace period there is one attempt and no retry; any time left, be it
\* shorter than a pause, is worth one.
MaxRetries(duration) ==
  IF duration = 0 THEN 0 ELSE AtLeast(1, duration \div RetryInterval)

Conclude(r) ==
  /\ result' = r /\ pc' = "send"
  /\ budget' = RetryDuration
  /\ retries' = MaxRetries(RetryDuration)
  /\ UNCHANGED <<due, slept, reply>>
  \* the monitor is dropped with what it knows
  /\ monitor' = "off" /\ wake' = 0 /\ status_reply' = "none"
  /\ failures' = 0 /\ reason' = "none" /\ last_contact' = 0

-----------------------------------------------------------------------------
(* execute_native_cancellable. *)

Asked == monitor = "ask" /\ (status_reply # "none" \/ now >= wake)

\* The lease is verified before anything is sent to Ollama.
Verified ==
  /\ pc = "check" /\ Asked /\ status_reply = "active" /\ now < Deadline
  /\ pc' = "run" /\ exec' = "running"
  /\ monitor' = "sleep" /\ wake' = now + MonitorPeriod
  /\ status_reply' = "none" /\ last_contact' = now
  /\ UNCHANGED <<now, kind, failures, reason, deliveryVars, serverVars>>

NotVerified ==
  /\ pc = "check" /\ Asked
  /\ \/ status_reply = "inactive" /\ Conclude("native_task_cancelled")
     \/ status_reply = "active" /\ now >= Deadline /\ Conclude("native_task_deadline")
     \/ status_reply \notin {"active", "inactive"} /\ Conclude("failed")
  /\ UNCHANGED <<now, kind, exec, serverVars>>

Ask ==
  /\ pc = "run" /\ monitor = "sleep" /\ now >= wake
  /\ monitor' = "ask" /\ wake' = now + StatusTimeout
  /\ UNCHANGED <<now, kind, pc, exec, status_reply, failures, reason, last_contact,
                 deliveryVars, serverVars>>

\* Mutant: a confirmed lease does not clear the count of failures.
FailuresAfterContact == failures

FailuresAfterSuccess == 0

MonitorContinues(f) ==
  /\ failures' = f
  /\ monitor' = "sleep" /\ wake' = now + MonitorPeriod
  /\ UNCHANGED reason

MonitorStops(why) ==
  /\ reason' = why /\ monitor' = "off"
  /\ UNCHANGED <<failures, wake>>

\* Mutant: a status call that times out is waited out for ever.
UncertainAnswer == status_reply = "error"

Uncertain == status_reply \in {"none", "error"}

\* Mutant: an error of the server is taken for a refusal.
RefusedOrError == status_reply \in {"refused", "error"}

\* 401, 403, 404 or 409.
Refused == status_reply = "refused"

\* Mutant: one failure too many.
ExhaustedLate == failures >= MaxFailures

\* Mutant: failures are counted for nothing.
NeverExhausted == FALSE

Exhausted == failures + 1 >= MaxFailures

\* One turn of the monitor; the select ends with it when there is a reason.
Monitor ==
  /\ pc = "run" /\ Asked
  /\ \/ status_reply = "active" /\ MonitorContinues(FailuresAfterSuccess)
     \/ status_reply = "inactive" /\ MonitorStops("native_task_cancelled")
     \/ Refused /\ MonitorStops("native_task_lease_invalid")
     \/ Uncertain /\ Exhausted /\ MonitorStops("native_task_control_unavailable")
     \/ Uncertain /\ ~Exhausted /\ MonitorContinues(failures + 1)
  /\ status_reply' = "none"
  /\ last_contact' = IF status_reply = "active" THEN now ELSE last_contact
  /\ UNCHANGED <<now, kind, pc, exec, deliveryVars, serverVars>>

\* The inference answers, fails, or runs into its own limit of time.
InferenceEnds ==
  /\ exec = "running"
  /\ exec' \in {"succeeded", "failed"}
  /\ exec' = "succeeded" /\ kind # "legacy" => now <= Deadline
  /\ UNCHANGED <<now, kind, pc, monitor, wake, status_reply, failures, reason,
                 last_contact, deliveryVars, serverVars>>

\* generate cuts a long error text of Ollama at a byte count; inside a character
\* the cut panics, and the spawned task unwinds.
InferencePanics ==
  /\ kind = "legacy" /\ exec = "running"
  /\ exec' = "dropped" /\ pc' = "done"
  /\ UNCHANGED <<now, kind, monitor, wake, status_reply, failures, reason, last_contact,
                 deliveryVars, serverVars>>

\* The biased select!: a finished inference first, then the monitor, then the
\* deadline.  The branches not taken are dropped, the inference with them.
SelectExecution ==
  /\ pc = "run" /\ exec \in {"succeeded", "failed"}
  /\ Conclude(exec)
  /\ UNCHANGED <<now, kind, exec, serverVars>>

SelectMonitor ==
  /\ pc = "run" /\ exec = "running" /\ reason # "none"
  /\ Conclude(reason) /\ exec' = "dropped"
  /\ UNCHANGED <<now, kind, serverVars>>

SelectDeadline ==
  /\ pc = "run" /\ exec = "running" /\ kind = "cancellable"
  /\ reason = "none" /\ now >= Deadline
  /\ Conclude("native_task_deadline") /\ exec' = "dropped"
  /\ UNCHANGED <<now, kind, serverVars>>

-----------------------------------------------------------------------------
(* complete_with_retry. *)

Post ==
  /\ pc = "send"
  /\ pc' = "reply" /\ due' = now + CompleteTimeout
  /\ UNCHANGED <<now, kind, execVars, result, budget, retries, slept, reply, serverVars>>

\* Mutant: every error is worth another attempt.
RetryableAny == reply \in {"none", "error", "refused"}

\* A network error, a 429 or a 5xx.
Retryable == reply \in {"none", "error"}

Answered == pc = "reply" /\ (reply # "none" \/ now >= due)

Delivered ==
  /\ Answered
  /\ ~Retryable \/ retries = 0
  /\ pc' = "done"
  /\ UNCHANGED <<now, kind, execVars, deliveryVars, serverVars>>

\* Mutant: the pauses grow by the strategy's factor of 100, without the cap.
UncappedDelay == IF retries = MaxRetries(budget) THEN FirstDelay ELSE 2 * RetryInterval

\* The strategy's first pause, and the capped interval before every other retry.
RetryDelay == IF retries = MaxRetries(budget) THEN FirstDelay ELSE RetryInterval

Backoff ==
  /\ Answered /\ Retryable /\ retries > 0
  /\ pc' = "pause" /\ due' = now + RetryDelay
  /\ slept' = slept + RetryDelay
  /\ retries' = retries - 1 /\ reply' = "none"
  /\ UNCHANGED <<now, kind, execVars, result, budget, serverVars>>

Retry ==
  /\ pc = "pause" /\ now >= due
  /\ pc' = "send"
  /\ UNCHANGED <<now, kind, execVars, deliveryVars, serverVars>>

-----------------------------------------------------------------------------
(* The server (external). *)

EndLease ==
  /\ lease = "active" /\ ~recorded
  /\ lease' \in {"inactive", "invalid"}
  /\ ended_at' = IF pc \in {"check", "run"} THEN now ELSE ended_at
  /\ UNCHANGED <<now, kind, pc, execVars, deliveryVars, recorded>>

ServeStatus ==
  /\ monitor = "ask" /\ status_reply = "none" /\ now < wake
  /\ status_reply' \in {"error", IF lease = "invalid" THEN "refused" ELSE lease}
  /\ UNCHANGED <<now, kind, pc, exec, monitor, wake, failures, reason, last_contact,
                 deliveryVars, serverVars>>

\* The result of an active lease is recorded, that of another one refused; an
\* answer may be lost, or be more than the client reads.
ServeComplete ==
  /\ pc = "reply" /\ reply = "none" /\ now < due
  /\ \/ /\ recorded \/ lease = "active"
        /\ recorded' = TRUE /\ reply' \in {"ok", "unreadable", "none"}
     \/ /\ lease # "active" /\ ~recorded
        /\ reply' = "refused" /\ UNCHANGED recorded
     \/ reply' = "error" /\ UNCHANGED recorded
  /\ UNCHANGED <<now, kind, pc, execVars, result, budget, retries, due, slept,
                 lease, ended_at>>

-----------------------------------------------------------------------------
OutOfTime ==
  exec = "running" /\ now >= (IF kind = "legacy" THEN LegacyTimeout ELSE Deadline)

\* Something is to be done before time passes.
Pressing ==
  \/ OutOfTime
  \/ pc = "run" /\ (exec # "running" \/ reason # "none")
  \/ monitor # "off" /\ now >= wake
  \/ pc = "send" \/ (pc \in {"reply", "pause"} /\ now >= due)
  \/ pc = "done"

Tick ==
  /\ ~Pressing
  /\ now' = now + 1
  /\ UNCHANGED <<kind, pc, execVars, deliveryVars, serverVars>>

Execute == \/ Verified \/ NotVerified \/ Ask \/ Monitor \/ SelectExecution
           \/ SelectMonitor \/ SelectDeadline
Complete == Post \/ Delivered \/ Backoff \/ Retry

Next == Execute \/ InferenceEnds \/ InferencePanics \/ Complete \/ EndLease \/ ServeStatus
        \/ ServeComplete \/ Tick

\* The task is scheduled when it can run and time passes; Ollama and the server
\* may stay silent until a timeout.
Fairness ==
  /\ WF_vars(Execute) /\ WF_vars(Complete) /\ WF_vars(Tick)
  /\ WF_vars(InferenceEnds /\ OutOfTime)
Spec == Init /\ [][Next]_vars /\ Fairness

-----------------------------------------------------------------------------
(* Properties *)

Turn == MonitorPeriod + StatusTimeout
Infers == exec = "running" /\ kind = "cancellable"

\* An inference goes on for at most three turns of the monitor without the
\* server's word that its lease is active, so a lease that ends stops it within
\* that time and one answer more, whatever gets lost (the monitor loop of
\* execute_native_cancellable; "a bounded run of control failures closes that
\* request", docs/native-protocols.md).
LostLeaseStopsInference ==
  Infers => /\ now - last_contact <= MaxFailures * Turn
            /\ lease # "active" => now - ended_at <= MaxFailures * Turn + StatusTimeout

\* Control is given up only after three turns of silence in a row: one answer in
\* between starts the count again.
ControlReallyLost ==
  reason = "native_task_control_unavailable" =>
    now - last_contact >= MaxFailures * MonitorPeriod

\* A task is reported as stopped only for the reason the server gave, or at its
\* deadline.
StopReasonTrue ==
  /\ result \in {"native_task_cancelled", "native_task_lease_invalid"} => lease # "active"
  /\ result = "native_task_deadline" => now >= Deadline

\* The pauses between the attempts fit into the time that was left when the
\* result was settled, so only slow answers carry the delivery past it.  The one
\* exception is a result settled less than the first pause before the limit: it is
\* retried all the same, once, after a pause longer than what was left.
PausesFitBudget ==
  \/ slept <= budget
  \/ 0 < budget /\ budget < FirstDelay /\ slept = FirstDelay

\* A definite refusal ends the delivery ("definite completion rejections are not
\* retried", docs/native-protocols.md).
RefusalIsFinal == [][reply = "refused" => reply' = "refused"]_vars

\* Every task is executed, and its result delivered or given up, or the task dies.
TaskSettles == <>(pc = "done")

\* execute ends by submitting a result ("4. 提交结果到服务端（带重试）", the doc comment
\* of execute: submit the result to the server, with retries).  A task that panics
\* submits none.
ResultSubmitted == pc = "done" => result # "none"
=============================================================================

--------------------------- MODULE LeaseTaskProofs ---------------------------
(***************************************************************************)
(* The safety of LeaseTask for any deadline, grace period, timeouts and    *)
(* periods.                                                                *)
(* The bounds in time rest on what each turn of the monitor may take: with *)
(* every failure the next wake moves at least one period and at most one   *)
(* turn away from the last word of the server.  The bound on the pauses    *)
(* rests on the retries that are left.                                     *)
(***************************************************************************)
EXTENDS LeaseTask, Integers, TLAPS

Stopped == {"native_task_cancelled", "native_task_lease_invalid"}

\* Which phase a monitor, an inference and a reason to stop belong to.
Phases ==
  /\ pc = "check" => monitor = "ask" /\ exec = "idle" /\ failures = 0 /\ kind = "cancellable"
  /\ monitor # "off" => kind = "cancellable" /\ pc \in {"check", "run"} /\ reason = "none"
  /\ monitor = "sleep" => pc = "run"
  /\ exec = "running" => pc = "run"
  /\ Infers /\ reason = "none" => monitor # "off"
  /\ status_reply # "none" => monitor = "ask"
  /\ reason # "none" => pc = "run" /\ kind = "cancellable"
  /\ failures < MaxFailures

\* The timer of the monitor, seen from the last word of the server.
Timers ==
  /\ monitor # "off" => now <= wake
  /\ monitor = "ask" => wake <= now + StatusTimeout
  /\ monitor = "sleep" => /\ last_contact + (failures + 1) * MonitorPeriod <= wake
                          /\ wake <= last_contact + failures * Turn + MonitorPeriod
  /\ monitor = "ask" /\ pc = "run" => /\ last_contact + (failures + 1) * MonitorPeriod <= now
                                      /\ wake <= last_contact + (failures + 1) * Turn
  /\ reason # "none" => now <= last_contact + MaxFailures * Turn
  /\ reason = "native_task_control_unavailable" =>
       last_contact + MaxFailures * MonitorPeriod <= now

\* What the node has been told, or gives as a reason, is so at the server.
Truthful ==
  /\ status_reply = "inactive" => lease = "inactive"
  /\ status_reply = "refused" => lease = "invalid"
  /\ reason # "native_task_deadline"
  /\ reason \in Stopped \/ result \in Stopped => lease # "active"
  /\ result = "native_task_deadline" => now >= Deadline

\* An answer read after the end of the lease was given before it, within one timeout.
Outdated ==
  lease # "active" /\ pc \in {"check", "run"} =>
    /\ last_contact <= ended_at + StatusTimeout
    /\ status_reply = "active" => wake <= ended_at + StatusTimeout

\* The first retry waits its own delay, every other one the interval.
Paused ==
  /\ pc \in {"check", "run"} => budget = 0 /\ retries = 0 /\ slept = 0
  /\ pc \notin {"check", "run"} =>
       /\ retries <= MaxRetries(budget)
       /\ slept = IF retries = MaxRetries(budget) THEN 0
                  ELSE FirstDelay + (MaxRetries(budget) - retries - 1) * RetryInterval

LeaseInv == Phases /\ Timers /\ Truthful /\ Outdated /\ Paused

-----------------------------------------------------------------------------
(* The budget of the delivery *)

\* The whole intervals of a duration are no longer than it is.
LEMMA Division ==
  ASSUME NEW d \in Nat, NEW i \in Nat, i > 0
  PROVE  d \div i \in Nat /\ (d \div i) * i <= d
  OBVIOUS

\* A budget is time, and the pauses of all its retries fit into it, but for the one
\* retry of a budget shorter than the first pause.
LEMMA Budget ==
  /\ TypeOK => RetryDuration \in Nat
  /\ \A d \in Nat : MaxRetries(d) \in Nat
  /\ \A d \in Nat : MaxRetries(d) > 0 =>
       \/ FirstDelay + (MaxRetries(d) - 1) * RetryInterval <= d
       \/ 0 < d /\ d < FirstDelay /\ MaxRetries(d) = 1
<1>1. TypeOK => RetryDuration \in Nat
  BY LeaseTaskAssumption DEF TypeOK, RetryDuration
<1>2. ASSUME NEW d \in Nat
      PROVE  /\ MaxRetries(d) \in Nat
             /\ MaxRetries(d) > 0 =>
                  \/ FirstDelay + (MaxRetries(d) - 1) * RetryInterval <= d
                  \/ 0 < d /\ d < FirstDelay /\ MaxRetries(d) = 1
  <2> DEFINE q == d \div RetryInterval
  <2>1. q \in Nat /\ q * RetryInterval <= d
    BY Division, LeaseTaskAssumption
  <2>2. CASE d = 0
    BY <2>2 DEF MaxRetries
  <2>3. CASE d # 0 /\ q < 1
    <3>1. MaxRetries(d) = 1
      BY <2>3 DEF MaxRetries, AtLeast
    <3> QED
      BY <2>3, <3>1, LeaseTaskAssumption
  <2>4. CASE d # 0 /\ q >= 1
    <3>1. MaxRetries(d) = q
      BY <2>1, <2>4 DEF MaxRetries, AtLeast
    <3>2. q * RetryInterval = (q - 1) * RetryInterval + RetryInterval
      BY <2>1, LeaseTaskAssumption
    <3> HIDE DEF q
    <3> QED
      BY <2>1, <3>1, <3>2, LeaseTaskAssumption
  <2> QED
    BY <2>1, <2>2, <2>3, <2>4
<1> QED
  BY <1>1, <1>2

-----------------------------------------------------------------------------
(* Types *)

\* What settling the result leaves behind.
LEMMA ConcludeType ==
  ASSUME TypeOK, NEW r \in {"succeeded", "failed"} \cup StopReason, Conclude(r)
  PROVE  /\ result' \in {"none", "succeeded", "failed"} \cup StopReason
         /\ pc' = "send" /\ budget' \in Nat /\ retries' \in Nat
         /\ due' \in Nat /\ slept' \in Nat /\ reply' \in CompleteReply
         /\ monitor' = "off" /\ wake' = 0 /\ status_reply' = "none"
         /\ failures' = 0 /\ reason' = "none" /\ last_contact' = 0
  BY Budget DEF TypeOK, Conclude

\* Every step keeps the types.
LEMMA TypeStep ==
  ASSUME TypeOK, [Next]_vars
  PROVE  TypeOK'
<1> USE DEF TypeOK, StatusReply, CompleteReply, MaxFailures, execVars, deliveryVars, serverVars
<1>1. CASE Verified
  BY <1>1, LeaseTaskAssumption DEF Verified
<1>2. CASE NotVerified
  <2>1. PICK r \in {"succeeded", "failed"} \cup StopReason : Conclude(r)
    BY <1>2 DEF NotVerified, StopReason
  <2> QED
    BY <1>2, <2>1, ConcludeType DEF NotVerified
<1>3. CASE Ask
  BY <1>3, LeaseTaskAssumption DEF Ask
<1>4. CASE Monitor
  BY <1>4, LeaseTaskAssumption
     DEF Monitor, MonitorContinues, MonitorStops, FailuresAfterSuccess, Uncertain, Refused,
         Exhausted, StopReason
<1>5. CASE SelectExecution
  BY <1>5, ConcludeType DEF SelectExecution
<1>6. CASE SelectMonitor
  <2>1. reason \in StopReason /\ Conclude(reason)
    BY <1>6 DEF SelectMonitor
  <2>2. /\ result' \in {"none", "succeeded", "failed"} \cup StopReason
        /\ pc' = "send" /\ budget' \in Nat /\ retries' \in Nat
        /\ due' \in Nat /\ slept' \in Nat /\ reply' \in CompleteReply
        /\ monitor' = "off" /\ wake' = 0 /\ status_reply' = "none"
        /\ failures' = 0 /\ reason' = "none" /\ last_contact' = 0
    BY <2>1, Budget DEF Conclude
  <2> QED
    BY <1>6, <2>2 DEF SelectMonitor
<1>7. CASE SelectDeadline
  BY <1>7, ConcludeType DEF SelectDeadline, StopReason
<1>8. CASE InferenceEnds \/ InferencePanics
  BY <1>8 DEF InferenceEnds, InferencePanics
<1>9. CASE Post \/ Retry
  BY <1>9, LeaseTaskAssumption DEF Post, Retry
<1>10. CASE Delivered \/ Backoff
  BY <1>10, LeaseTaskAssumption DEF Delivered, Backoff, RetryDelay
<1>11. CASE EndLease
  BY <1>11 DEF EndLease
<1>12. CASE ServeStatus
  BY <1>12 DEF ServeStatus
<1>13. CASE ServeComplete
  <2>1. reply' \in CompleteReply /\ recorded' \in BOOLEAN
    BY <1>13 DEF ServeComplete
  <2> QED
    BY <1>13, <2>1 DEF ServeComplete
<1>14. CASE Tick
  BY <1>14 DEF Tick
<1>15. CASE UNCHANGED vars
  BY <1>15 DEF vars
<1> QED
  BY <1>1, <1>2, <1>3, <1>4, <1>5, <1>6, <1>7, <1>8, <1>9, <1>10, <1>11, <1>12, <1>13, <1>14,
     <1>15 DEF Next, Execute, Complete

\* The task starts with these types.
LEMMA TypeInit == Init => TypeOK
<1> SUFFICES ASSUME Init PROVE TypeOK
  OBVIOUS
<1>1. now \in Nat /\ wake \in Nat
  BY LeaseTaskAssumption DEF Init
<1>2. /\ kind \in {"cancellable", "native", "legacy"}
      /\ pc \in {"check", "run", "send", "reply", "pause", "done"}
      /\ exec \in {"idle", "running", "succeeded", "failed", "dropped"}
      /\ monitor \in {"off", "sleep", "ask"}
  BY DEF Init
<1>3. last_contact \in 0 .. now /\ ended_at \in 0 .. now /\ failures \in 0 .. MaxFailures
  BY <1>1 DEF Init, MaxFailures
<1> QED
  BY <1>1, <1>2, <1>3 DEF Init, TypeOK, StatusReply, CompleteReply

\* TypeOK: the type of the task, its monitor, its delivery and the server's view.
THEOREM TypeCorrect == Spec => []TypeOK
  BY TypeInit, TypeStep, PTL DEF Spec

-----------------------------------------------------------------------------
(* The invariant *)

\* A result settled for a true reason keeps the invariant, whatever settles it.
LEMMA InvConclude ==
  ASSUME TypeOK, LeaseInv, NEW r, Conclude(r), UNCHANGED <<now, kind, serverVars>>,
         pc \in {"check", "run"}, exec' # "running" ,
         r \in Stopped => lease # "active",
         r = "native_task_deadline" => now >= Deadline
  PROVE  LeaseInv'
<1>1. Phases' /\ Timers' /\ Outdated'
  BY DEF LeaseInv, Conclude, Phases, Timers, Outdated, Infers, MaxFailures, serverVars
<1>2. Truthful'
  BY DEF LeaseInv, Conclude, Truthful, Stopped, serverVars
<1>3. Paused'
  BY Budget DEF LeaseInv, Conclude, Paused
<1> QED
  BY <1>1, <1>2, <1>3 DEF LeaseInv

\* Execution before the result is settled.
LEMMA InvExecute ==
  ASSUME TypeOK, LeaseInv, Execute
  PROVE  LeaseInv'
<1> USE LeaseTaskAssumption DEF TypeOK, Turn, MaxFailures, deliveryVars, serverVars
<1>1. CASE Verified
  BY <1>1 DEF Verified, Asked, LeaseInv, Phases, Timers, Truthful, Outdated, Paused, Infers,
              Stopped
<1>2. CASE NotVerified
  BY <1>2, InvConclude DEF NotVerified, LeaseInv, Phases, Truthful, Stopped
<1>3. CASE Ask
  BY <1>3 DEF Ask, LeaseInv, Phases, Timers, Truthful, Outdated, Paused, Infers, Stopped
<1>4. CASE Monitor
  <2>1. pc = "run" /\ monitor = "ask" /\ kind = "cancellable" /\ reason = "none"
    BY <1>4 DEF Monitor, Asked, LeaseInv, Phases
  <2> USE <2>1 DEF Monitor, MonitorContinues, MonitorStops, FailuresAfterSuccess, Uncertain,
                   Refused, Exhausted
  <2>2. Phases'
    BY <1>4 DEF LeaseInv, Phases, Infers
  <2>3. Timers'
    BY <1>4 DEF LeaseInv, Phases, Timers
  <2>4. Truthful'
    BY <1>4 DEF LeaseInv, Truthful, Stopped
  <2>5. Outdated' /\ Paused'
    BY <1>4 DEF LeaseInv, Timers, Outdated, Paused
  <2> QED
    BY <2>2, <2>3, <2>4, <2>5 DEF LeaseInv
<1>5. CASE SelectExecution
  BY <1>5, InvConclude DEF SelectExecution, LeaseInv, Stopped
<1>6. CASE SelectMonitor
  BY <1>6, InvConclude DEF SelectMonitor, LeaseInv, Truthful
<1>7. CASE SelectDeadline
  BY <1>7, InvConclude DEF SelectDeadline, LeaseInv, Stopped
<1> QED
  BY <1>1, <1>2, <1>3, <1>4, <1>5, <1>6, <1>7 DEF Execute

\* The inference ends by itself.
LEMMA InvInference ==
  ASSUME TypeOK, LeaseInv, InferenceEnds \/ InferencePanics
  PROVE  LeaseInv'
<1>1. CASE InferenceEnds
  BY <1>1 DEF InferenceEnds, TypeOK, LeaseInv, Phases, Timers, Truthful, Outdated, Paused,
              Infers, Stopped, deliveryVars, serverVars
<1>2. CASE InferencePanics
  <2>1. Phases' /\ Timers' /\ Truthful' /\ Outdated'
    BY <1>2 DEF InferencePanics, TypeOK, LeaseInv, Phases, Timers, Truthful, Outdated,
                Infers, Stopped, deliveryVars, serverVars
  <2>2. Paused'
    BY <1>2 DEF InferencePanics, LeaseInv, Phases, Paused, MaxRetries, deliveryVars
  <2> QED
    BY <2>1, <2>2 DEF LeaseInv
<1> QED
  BY <1>1, <1>2

\* The delivery of the result.
LEMMA InvComplete ==
  ASSUME TypeOK, LeaseInv, Complete
  PROVE  LeaseInv'
<1> USE DEF TypeOK, LeaseInv
<1>1. CASE Post \/ Delivered \/ Retry
  BY <1>1 DEF Post, Delivered, Retry, Answered, Phases, Timers, Truthful, Outdated, Paused,
              Infers, Stopped, execVars, deliveryVars, serverVars
<1>2. CASE Backoff
  <2>1. Phases' /\ Timers' /\ Truthful' /\ Outdated'
    BY <1>2 DEF Backoff, Answered, Phases, Timers, Truthful, Outdated, Infers, Stopped,
                execVars, serverVars
  <2>2. Paused'
    <3> DEFINE m == MaxRetries(budget)
    <3>1. /\ m \in Nat /\ retries \in Nat /\ retries > 0 /\ retries <= m
          /\ retries' = retries - 1 /\ budget' = budget /\ pc' = "pause"
          /\ slept' = slept + (IF retries = m THEN FirstDelay ELSE RetryInterval)
          /\ slept = IF retries = m THEN 0
                     ELSE FirstDelay + (m - retries - 1) * RetryInterval
      BY <1>2, Budget DEF Backoff, Answered, Paused, RetryDelay
    <3>2. m' = m
      BY <3>1 DEF MaxRetries
    <3> HIDE DEF m
    <3>3. slept' = FirstDelay + (m - retries' - 1) * RetryInterval
      <4>1. CASE retries = m
        BY <3>1, <4>1, LeaseTaskAssumption
      <4>2. CASE retries # m
        <5>1. (m - retries) * RetryInterval = (m - retries - 1) * RetryInterval + RetryInterval
          BY <3>1, LeaseTaskAssumption
        <5>2. m - retries' - 1 = m - retries
          BY <3>1
        <5> QED
          BY <3>1, <4>2, <5>1, <5>2, LeaseTaskAssumption
      <4> QED
        BY <4>1, <4>2
    <3> QED
      BY <3>1, <3>2, <3>3 DEF Paused, m
  <2> QED
    BY <2>1, <2>2
<1> QED
  BY <1>1, <1>2 DEF Complete

\* The server, and time.
LEMMA InvServer ==
  ASSUME TypeOK, LeaseInv, EndLease \/ ServeStatus \/ ServeComplete \/ Tick
  PROVE  LeaseInv'
<1> USE DEF TypeOK, LeaseInv, Phases, Timers, Truthful, Outdated, Paused, Infers, Stopped,
            execVars, deliveryVars, serverVars
<1>1. CASE EndLease
  BY <1>1, LeaseTaskAssumption DEF EndLease
<1>2. CASE ServeStatus
  BY <1>2, LeaseTaskAssumption DEF ServeStatus
<1>3. CASE ServeComplete
  BY <1>3 DEF ServeComplete
<1>4. CASE Tick
  <2>1. monitor # "off" => now < wake
    BY <1>4 DEF Tick, Pressing
  <2>2. reason = "none"
    BY <1>4 DEF Tick, Pressing
  <2>3. Phases'
    BY <1>4 DEF Tick
  <2>4. Timers'
    <3>1. now' = now + 1 /\ UNCHANGED <<pc, monitor, wake, reason, failures, last_contact>>
      BY <1>4 DEF Tick
    <3> HIDE DEF Phases, Truthful, Outdated, Paused
    <3> QED
      BY <2>1, <2>2, <3>1, LeaseTaskAssumption
  <2>5. Truthful'
    BY <1>4, LeaseTaskAssumption DEF Tick
  <2>6. Outdated' /\ Paused'
    BY <1>4 DEF Tick
  <2> QED
    BY <2>3, <2>4, <2>5, <2>6
<1> QED
  BY <1>1, <1>2, <1>3, <1>4

\* Every step of the task, the server and the clock keeps types and invariant.
THEOREM LeaseInvariant == Spec => [](TypeOK /\ LeaseInv)
<1>1. Init => TypeOK /\ LeaseInv
  <2>1. Init => LeaseInv
    BY LeaseTaskAssumption
       DEF Init, LeaseInv, Phases, Timers, Truthful, Outdated, Paused, Infers, Stopped,
           MaxFailures
  <2> QED
    BY <2>1, TypeInit
<1>2. TypeOK /\ LeaseInv /\ [Next]_vars => TypeOK' /\ LeaseInv'
  <2> SUFFICES ASSUME TypeOK, LeaseInv, [Next]_vars PROVE TypeOK' /\ LeaseInv'
    OBVIOUS
  <2>1. CASE Next
    BY <2>1, TypeStep, InvExecute, InvInference, InvComplete, InvServer DEF Next
  <2>2. CASE UNCHANGED vars
    <3>1. LeaseInv'
      BY <2>2 DEF vars, LeaseInv, Phases, Timers, Truthful, Outdated, Paused, Infers,
                  Stopped, execVars, deliveryVars, serverVars
    <3> QED
      BY <3>1, TypeStep
  <2> QED
    BY <2>1, <2>2
<1> QED
  BY <1>1, <1>2, PTL DEF Spec

-----------------------------------------------------------------------------
(* What follows from it *)

\* LostLeaseStopsInference: the bound in time on an inference without a lease.
THEOREM InferenceNeedsLease == Spec => []LostLeaseStopsInference
<1>1. TypeOK /\ LeaseInv => LostLeaseStopsInference
  <2> SUFFICES ASSUME TypeOK, LeaseInv, Infers
               PROVE  /\ now - last_contact <= MaxFailures * Turn
                      /\ lease # "active" =>
                           now - ended_at <= MaxFailures * Turn + StatusTimeout
    BY DEF LostLeaseStopsInference
  <2>1. now <= last_contact + MaxFailures * Turn
    <3>1. failures \in {0, 1, 2}
      BY DEF LeaseInv, Phases, TypeOK, MaxFailures
    <3>2. CASE reason # "none"
      BY <3>2 DEF LeaseInv, Timers
    <3>3. CASE reason = "none" /\ monitor = "sleep"
      BY <3>1, <3>3, LeaseTaskAssumption DEF LeaseInv, Timers, TypeOK, Turn, MaxFailures
    <3>4. CASE reason = "none" /\ monitor = "ask"
      BY <3>1, <3>4, LeaseTaskAssumption DEF LeaseInv, Phases, Timers, TypeOK, Turn, Infers, MaxFailures
    <3> QED
      BY <3>2, <3>3, <3>4 DEF LeaseInv, Phases, TypeOK
  <2>2. lease # "active" => last_contact <= ended_at + StatusTimeout
    BY DEF LeaseInv, Phases, Outdated
  <2> QED
    BY <2>1, <2>2, LeaseTaskAssumption DEF TypeOK, Turn, MaxFailures
<1> QED
  BY <1>1, LeaseInvariant, PTL

\* ControlReallyLost: no task is stopped for want of control before three turns of silence.
THEOREM ControlIsLost == Spec => []ControlReallyLost
<1>1. TypeOK /\ LeaseInv => ControlReallyLost
  BY LeaseTaskAssumption DEF TypeOK, LeaseInv, Timers, ControlReallyLost, MaxFailures
<1> QED
  BY <1>1, LeaseInvariant, PTL

\* StopReasonTrue: a reported stop has the reason it names.
THEOREM StoppedForTheReason == Spec => []StopReasonTrue
<1>1. LeaseInv => StopReasonTrue
  BY DEF LeaseInv, Truthful, Stopped, StopReasonTrue
<1> QED
  BY <1>1, LeaseInvariant, PTL

\* PausesFitBudget: for any time left and any interval, the pauses of the delivery fit
\* into it, or the time was shorter than the first pause and there was just that one.
THEOREM PausesWithinBudget == Spec => []PausesFitBudget
<1>1. TypeOK /\ LeaseInv => PausesFitBudget
  <2> SUFFICES ASSUME TypeOK, LeaseInv PROVE PausesFitBudget
    OBVIOUS
  <2> DEFINE m == MaxRetries(budget)
  <2>1. /\ m \in Nat /\ retries \in Nat /\ budget \in Nat
        /\ m > 0 => \/ FirstDelay + (m - 1) * RetryInterval <= budget
                    \/ 0 < budget /\ budget < FirstDelay /\ m = 1
    BY Budget DEF TypeOK
  <2>2. \/ slept = 0
        \/ retries < m /\ slept = FirstDelay + (m - retries - 1) * RetryInterval
    BY <2>1 DEF LeaseInv, Paused
  <2> HIDE DEF m
  <2>3. retries < m => /\ (m - retries - 1) * RetryInterval <= (m - 1) * RetryInterval
                       /\ m = 1 => (m - retries - 1) * RetryInterval = 0
    BY <2>1, LeaseTaskAssumption
  <2>4. CASE slept = 0
    BY <2>1, <2>4 DEF PausesFitBudget
  <2>5. CASE retries < m /\ slept = FirstDelay + (m - retries - 1) * RetryInterval
    BY <2>1, <2>3, <2>5, LeaseTaskAssumption DEF PausesFitBudget
  <2> QED
    BY <2>2, <2>4, <2>5
<1> QED
  BY <1>1, LeaseInvariant, PTL

\* RefusalIsFinal: no step answers a refusal with another attempt.
THEOREM RefusalEndsDelivery == Spec => RefusalIsFinal
<1>1. [Next]_vars => [reply = "refused" => reply' = "refused"]_vars
  <2> SUFFICES ASSUME Next, reply = "refused" PROVE reply' = "refused"
    OBVIOUS
  <2>1. CASE Execute
    BY <2>1 DEF Execute, Verified, NotVerified, Ask, Monitor, SelectExecution, SelectMonitor,
                SelectDeadline, Conclude, deliveryVars
  <2>2. CASE Complete
    BY <2>2 DEF Complete, Post, Delivered, Backoff, Retry, Retryable, deliveryVars
  <2>3. CASE InferenceEnds \/ InferencePanics \/ Tick
    BY <2>3 DEF InferenceEnds, InferencePanics, Tick, deliveryVars
  <2>4. CASE EndLease \/ ServeStatus \/ ServeComplete
    BY <2>4 DEF EndLease, ServeStatus, ServeComplete, deliveryVars
  <2> QED
    BY <2>1, <2>2, <2>3, <2>4 DEF Next
<1> QED
  BY <1>1, PTL DEF Spec, RefusalIsFinal
=============================================================================

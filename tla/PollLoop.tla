------------------------------ MODULE PollLoop ------------------------------
(***************************************************************************)
(* runtime/poll.rs: one task per generation that asks for leases and hands *)
(* each one, with a permit of the generation's semaphore, to a task of its *)
(* own.  The pauses between polls carry no state and are left out.         *)
(***************************************************************************)
EXTENDS KeyComputeServer

\* stop_signal is only looked at here.
PollStop ==
  /\ poll_pc = "top" /\ stop_signal
  /\ poll_pc' = "done"
  /\ UNCHANGED <<serverVars, session_file, mainVars, flagVars, genVars, hbVars, poll_token,
                 poll_reply, taskVars>>

\* An excluded node does not ask; it looks again after a pause.
PollSend ==
  /\ poll_pc = "top" /\ ~stop_signal /\ ~is_excluded
  /\ poll_pc' = "sent"
  /\ poll_token' = client_token
  /\ UNCHANGED <<serverVars, session_file, mainVars, flagVars, genVars, hbVars, poll_reply,
                 taskVars>>

PollAnswered ==
  /\ poll_reply' = "none"
  /\ poll_token' = NoSession
  /\ UNCHANGED <<serverVars, session_file, mainVars, flagVars, session, exec_token, permits,
                 hbVars, task_gen, task_reply, retries>>

PollNoTask ==
  /\ poll_reply \in {"empty", "error"}
  /\ poll_pc' = "top"
  /\ UNCHANGED <<session_lost, task_pc>>
  /\ PollAnswered

\* Mutant: the loop goes on polling with the lease in hand.
PollTaskQueued(l) ==
  /\ poll_reply = "task" /\ task_pc[l] = "offered"
  /\ poll_pc' = "top"
  /\ task_pc' = [task_pc EXCEPT ![l] = "held"]
  /\ UNCHANGED session_lost
  /\ PollAnswered

PollTask(l) ==
  /\ poll_reply = "task" /\ task_pc[l] = "offered"
  /\ poll_pc' = "permit"
  /\ task_pc' = [task_pc EXCEPT ![l] = "held"]
  /\ UNCHANGED session_lost
  /\ PollAnswered

PollUnauthorized ==
  /\ poll_reply = "unauthorized"
  /\ poll_pc' = "done"
  /\ session_lost' = [session_lost EXCEPT ![Gen] = TRUE]
  /\ UNCHANGED task_pc
  /\ PollAnswered

\* Mutant: the task is spawned whether or not there is a permit for it.
AcquirePermitUnchecked(l) ==
  /\ poll_pc = "permit" /\ task_pc[l] = "held"
  /\ permits' = [permits EXCEPT ![Gen] = IF @ > 0 THEN @ - 1 ELSE @]
  /\ task_pc' = [task_pc EXCEPT ![l] = "executing"]
  /\ task_gen' = [task_gen EXCEPT ![l] = Gen]
  /\ poll_pc' = "top"
  /\ UNCHANGED <<serverVars, session_file, mainVars, flagVars, session, exec_token,
                 session_lost, hbVars, poll_token, poll_reply, task_reply, retries>>

\* acquire_owned() then tokio::spawn: the loop waits here, with the lease it
\* holds, for as long as every permit is out, whatever stop_signal says.
AcquirePermit(l) ==
  /\ poll_pc = "permit" /\ task_pc[l] = "held"
  /\ permits[Gen] > 0
  /\ permits' = [permits EXCEPT ![Gen] = @ - 1]
  /\ task_pc' = [task_pc EXCEPT ![l] = "executing"]
  /\ task_gen' = [task_gen EXCEPT ![l] = Gen]
  /\ poll_pc' = "top"
  /\ UNCHANGED <<serverVars, session_file, mainVars, flagVars, session, exec_token,
                 session_lost, hbVars, poll_token, poll_reply, task_reply, retries>>

PollNext ==
  \/ PollStop \/ PollSend \/ PollNoTask \/ PollUnauthorized
  \/ \E l \in Lease : PollTask(l) \/ AcquirePermit(l)
=============================================================================

---------------------------- MODULE TaskExecutor ----------------------------
(***************************************************************************)
(* runtime/executor.rs, as far as the runtime around it can tell: a        *)
(* spawned task works on its lease, whatever becomes of the generation     *)
(* that spawned it, delivers one result with retries, and gives its permit *)
(* back.                                                                   *)
(***************************************************************************)
EXTENDS KeyComputeServer

\* Mutant: the executor uses the client it was given.
SharedToken(g) == client_token

\* TaskExecutor::new keeps a client whose token is the session's for good.
ExecutorToken(g) == exec_token[g]

\* Mutant: the flag is one for the whole process.
LoseCurrentSession(g) == session_lost' = [session_lost EXCEPT ![Gen] = TRUE]

\* The executor's session_lost flag: the one of the generation it was made for.
LoseSession(g) == session_lost' = [session_lost EXCEPT ![g] = TRUE]

\* The work is over, one way or another, and the result goes out.
ExecuteTask(l) ==
  /\ task_pc[l] = "executing"
  /\ task_pc' = [task_pc EXCEPT ![l] = "completing"]
  /\ UNCHANGED <<serverVars, session_file, mainVars, flagVars, genVars, hbVars, pollVars,
                 task_gen, task_reply, retries>>

\* execute() returns and its permit is dropped.
FinishTask(l) ==
  /\ task_pc' = [task_pc EXCEPT ![l] = "finished"]
  /\ task_reply' = [task_reply EXCEPT ![l] = "none"]
  /\ retries' = [retries EXCEPT ![l] = 0]
  /\ permits' = [permits EXCEPT ![task_gen[l]] = @ + 1]
  /\ UNCHANGED <<serverVars, session_file, mainVars, flagVars, session, exec_token, hbVars,
                 pollVars, task_gen>>

\* A task that panics while it works unwinds: no result goes out, and the permit
\* is dropped all the same.
TaskPanics(l) ==
  /\ task_pc[l] = "executing"
  /\ UNCHANGED session_lost
  /\ FinishTask(l)

\* Answered, refused for good, or the retries are used up.
CompleteEnds(l) ==
  /\ task_reply[l] \in {"ok", "rejected", "error"}
  /\ UNCHANGED session_lost
  /\ FinishTask(l)

\* Mutant: the permit is not dropped on the way out after a 401.
CompleteUnauthorizedLeaks(l) ==
  /\ task_reply[l] = "unauthorized"
  /\ LoseSession(task_gen[l])
  /\ task_pc' = [task_pc EXCEPT ![l] = "finished"]
  /\ task_reply' = [task_reply EXCEPT ![l] = "none"]
  /\ retries' = [retries EXCEPT ![l] = 0]
  /\ UNCHANGED <<serverVars, session_file, mainVars, flagVars, session, exec_token, permits,
                 hbVars, pollVars, task_gen>>

CompleteUnauthorized(l) ==
  /\ task_reply[l] = "unauthorized"
  /\ LoseSession(task_gen[l])
  /\ FinishTask(l)

\* A network error, 429 or 5xx with retries left: the same request again.
CompleteRetry(l) ==
  /\ task_reply[l] = "error" /\ retries[l] < MaxRetries
  /\ task_reply' = [task_reply EXCEPT ![l] = "none"]
  /\ retries' = [retries EXCEPT ![l] = @ + 1]
  /\ UNCHANGED <<serverVars, session_file, mainVars, flagVars, genVars, hbVars, pollVars,
                 task_pc, task_gen>>

ServeTask(l) == ServeComplete(l, session[task_gen[l]], ExecutorToken(task_gen[l]))

TaskNext(l) ==
  \/ ExecuteTask(l) \/ TaskPanics(l) \/ ServeTask(l)
  \/ CompleteEnds(l) \/ CompleteUnauthorized(l) \/ CompleteRetry(l)
=============================================================================

-------------------------- MODULE KeyComputeServer --------------------------
(***************************************************************************)
(* The server as the node's client sees it.  The server is not in this     *)
(* repository: what it may answer is read off the replies client/api.rs    *)
(* and the runtime distinguish.  A request in flight is served at some     *)
(* moment between the node's send and its receive; the reply then waits    *)
(* (…_reply) until the node's loop runs again, and state may change in     *)
(* between.  "error" stands for every failure that is not a 401: the       *)
(* request was not served, or it was and the reply was lost.               *)
(***************************************************************************)
EXTENDS NodeState

\* The state of the sessions after the server has issued a new one.
Issue(s) == [session_state EXCEPT ![s] = "active"]

Unissued == {s \in Session : session_state[s] = "unissued"}

\* The server forgets a session: expiry, an operator, a newer registration.
Revoke(s) ==
  /\ session_state[s] \in {"active", "replaced"}
  /\ session_state' = [session_state EXCEPT ![s] = "revoked"]
  /\ UNCHANGED <<lease_holder, session_file, mainVars, flagVars, genVars,
                 hbVars, pollVars, taskVars>>

ServeHeartbeat ==
  /\ hb_pc = "sent" /\ hb_reply = "none"
  /\ \/ /\ Accepts(session[Gen], hb_token)
        /\ hb_reply' \in {"online", "excluded"}
     \/ /\ ~Accepts(session[Gen], hb_token)
        /\ hb_reply' = "unauthorized"
     \/ hb_reply' = "error"
  /\ UNCHANGED <<serverVars, session_file, mainVars, flagVars, genVars, hb_pc, hb_token,
                 pollVars, taskVars>>

\* A granted lease reaches the node ("offered") or its reply is lost: then the
\* server holds a lease nobody will ever work on.
ServePoll ==
  /\ poll_pc = "sent" /\ poll_reply = "none"
  /\ \/ /\ Accepts(session[Gen], poll_token)
        /\ \E l \in Lease :
             /\ lease_holder[l] = NoSession
             /\ lease_holder' = [lease_holder EXCEPT ![l] = session[Gen]]
             /\ \/ /\ poll_reply' = "task"
                   /\ task_pc' = [task_pc EXCEPT ![l] = "offered"]
                \/ /\ poll_reply' = "error"
                   /\ UNCHANGED task_pc
     \/ /\ Accepts(session[Gen], poll_token)
        /\ poll_reply' = "empty"
        /\ UNCHANGED <<lease_holder, task_pc>>
     \/ /\ ~Accepts(session[Gen], poll_token)
        /\ poll_reply' = "unauthorized"
        /\ UNCHANGED <<lease_holder, task_pc>>
     \/ /\ poll_reply' = "error"
        /\ UNCHANGED <<lease_holder, task_pc>>
  /\ UNCHANGED <<session_state, session_file, mainVars, flagVars, genVars,
                 hbVars, poll_pc, poll_token, task_gen, task_reply, retries>>

\* A completion is authenticated by its token, then judged against the lease.  A
\* replaced session may still finish the leases it was granted.
CompletionAuthentic(sid, token) ==
  Authentic(sid, token) /\ session_state[token] \in {"active", "replaced"}

ServeComplete(l, sid, token) ==
  /\ task_pc[l] = "completing" /\ task_reply[l] = "none"
  /\ \/ /\ CompletionAuthentic(sid, token)
        /\ lease_holder[l] = sid
        /\ \E r \in {"ok", "error"} : task_reply' = [task_reply EXCEPT ![l] = r]
     \/ /\ CompletionAuthentic(sid, token)
        /\ task_reply' = [task_reply EXCEPT ![l] = "rejected"]
     \/ /\ ~CompletionAuthentic(sid, token)
        /\ task_reply' = [task_reply EXCEPT ![l] = "unauthorized"]
     \/ /\ task_reply' = [task_reply EXCEPT ![l] = "error"]
  /\ UNCHANGED <<session_state, lease_holder, session_file, mainVars, flagVars, genVars,
                 hbVars, pollVars, task_pc, task_gen, retries>>
=============================================================================

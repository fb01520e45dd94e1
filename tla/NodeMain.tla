------------------------------ MODULE NodeMain ------------------------------
(***************************************************************************)
(* main.rs after the session is there: start a generation, watch for a     *)
(* signal or a lost session, stop and join the loops, then leave or        *)
(* recover.  Also what happens to the process from outside: a signal, a    *)
(* crash at any moment, and the supervisor that starts it again.           *)
(***************************************************************************)
EXTENDS KeyComputeServer

\* Phases 2 and 3: fresh flags, the heartbeat loop spawned.
StartGeneration ==
  /\ main_pc = "start"
  /\ main_pc' = "first_hb"
  /\ client_token' = session[Gen]
  /\ stop_signal' = FALSE /\ is_excluded' = FALSE /\ first_hb' = FALSE
  /\ session_lost' = [session_lost EXCEPT ![Gen] = FALSE]
  /\ hb_pc' = "top"
  /\ UNCHANGED <<serverVars, session_file, reregister_count, attempt, event, signal,
                 restarts, session, exec_token, permits, hb_token, hb_reply, pollVars,
                 taskVars>>

\* Phases 4 and 5.  If the 401 is already known the heartbeat loop is stopped;
\* otherwise the executor, its semaphore and the poll loop are made, and
\* monitor_events installs the signal handlers.
AfterFirstHeartbeat ==
  /\ first_hb' = FALSE
  /\ IF session_lost[Gen]
     THEN /\ main_pc' = "join"
          /\ event' = "session_lost"
          /\ stop_signal' = TRUE
          /\ UNCHANGED <<signal, exec_token, permits, poll_pc>>
     ELSE /\ main_pc' = "monitor"
          /\ exec_token' = [exec_token EXCEPT ![Gen] = session[Gen]]
          /\ permits' = [permits EXCEPT ![Gen] = MaxConcurrent]
          /\ poll_pc' = "top"
          /\ signal' = IF signal = "default" THEN "handled" ELSE signal
          /\ UNCHANGED <<event, stop_signal>>
  /\ UNCHANGED <<serverVars, session_file, reregister_count, attempt, restarts,
                 client_token, is_excluded, session, session_lost, hbVars, poll_token,
                 poll_reply, taskVars>>

FirstHeartbeatSeen    == main_pc = "first_hb" /\ first_hb /\ AfterFirstHeartbeat
FirstHeartbeatTimeout == main_pc = "first_hb" /\ ~first_hb /\ AfterFirstHeartbeat

\* Mutant: main goes to join the loops without telling them to stop.
StopLoopsSilently(why) ==
  /\ main_pc = "monitor"
  /\ main_pc' = "join"
  /\ event' = why
  /\ UNCHANGED <<serverVars, session_file, reregister_count, attempt, restarts, flagVars,
                 genVars, hbVars, pollVars, taskVars>>

\* Phase 7: both loops are told to stop.
StopLoops(why) ==
  /\ main_pc = "monitor"
  /\ main_pc' = "join"
  /\ event' = why
  /\ stop_signal' = TRUE
  /\ UNCHANGED <<serverVars, session_file, reregister_count, attempt, restarts,
                 client_token, is_excluded, first_hb, genVars, hbVars, pollVars, taskVars>>

\* monitor_events is a select!: with both ready it may take either, and a signal
\* it does not take is gone with the stream that held it.
TakeShutdown ==
  /\ signal = "pending"
  /\ signal' = "taken"
  /\ StopLoops("shutdown")

TakeSessionLost ==
  /\ session_lost[Gen]
  /\ signal' = IF signal = "pending" THEN "lost" ELSE signal
  /\ StopLoops("session_lost")

\* Mutant: only the heartbeat loop is joined.
HeartbeatJoined == hb_pc = "done"

LoopsJoined == hb_pc \in {"off", "done"} /\ poll_pc \in {"off", "done"}

\* The two loops are joined; the tasks they spawned are not.
JoinLoops ==
  /\ main_pc = "join" /\ LoopsJoined
  /\ IF event = "shutdown"
     THEN Terminate("stopped")
     ELSE /\ main_pc' = "recover"
          /\ UNCHANGED <<reregister_count, attempt, event, signal, restarts, flagVars,
                         genVars, hbVars, pollVars, taskVars>>
  /\ UNCHANGED <<serverVars, session_file>>

\* Phase 9: session.json is removed and main starts over.
Recovers ==
  /\ main_pc = "recover"
  /\ reregister_count' = reregister_count + 1
  /\ session_file' = NoSession
  /\ main_pc' = "load"
  /\ event' = "none"
  /\ UNCHANGED <<serverVars, attempt, signal, restarts, flagVars, genVars, hbVars, pollVars,
                 taskVars>>

\* Mutant: the limit is compared one too late.
RecoverLate == reregister_count < MaxReregisters /\ Recovers

\* The counter is never reset while the process lives.
Recover == reregister_count + 1 < MaxReregisters /\ Recovers

RecoverExhausted ==
  /\ main_pc = "recover"
  /\ reregister_count + 1 >= MaxReregisters
  /\ Terminate("failed")
  /\ UNCHANGED <<serverVars, session_file>>

\* session.json cannot be removed.
ClearFails ==
  /\ main_pc = "recover"
  /\ reregister_count + 1 < MaxReregisters
  /\ Terminate("failed")
  /\ UNCHANGED <<serverVars, session_file>>

\* SIGTERM or SIGINT once the handlers are installed: noticed by the
\* monitor_events that is listening, lost if none is.  (Before that it kills: Crash.)
Signal ==
  /\ signal = "handled" /\ main_pc \notin Ended
  /\ signal' = IF main_pc = "monitor" THEN "pending" ELSE "lost"
  /\ UNCHANGED <<serverVars, session_file, main_pc, reregister_count, attempt, event,
                 restarts, flagVars, genVars, hbVars, pollVars, taskVars>>

Crash ==
  /\ main_pc \notin Ended
  /\ Terminate("crashed")
  /\ UNCHANGED <<serverVars, session_file>>

Restart ==
  /\ main_pc \in Ended /\ restarts < MaxRestarts
  /\ restarts' = restarts + 1
  /\ main_pc' = "load"
  /\ reregister_count' = 0
  /\ signal' = "default"
  /\ UNCHANGED <<serverVars, session_file, attempt, event, flagVars, genVars, hbVars,
                 pollVars, taskVars>>

MainNext ==
  \/ StartGeneration \/ FirstHeartbeatSeen \/ FirstHeartbeatTimeout
  \/ TakeShutdown \/ TakeSessionLost \/ JoinLoops
  \/ Recover \/ RecoverExhausted \/ ClearFails
=============================================================================

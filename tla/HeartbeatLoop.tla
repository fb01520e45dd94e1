--------------------------- MODULE HeartbeatLoop ---------------------------
(***************************************************************************)
(* runtime/heartbeat.rs: one task per generation, started by main, that    *)
(* reports to the server, mirrors the node's status into is_excluded and   *)
(* raises session_lost on a 401.  Which models it reports is left out.     *)
(***************************************************************************)
EXTENDS KeyComputeServer

\* first_hb_signal.take().send(()): heard only while main still waits for it.
SignalFirstHeartbeat == first_hb' = (first_hb \/ main_pc = "first_hb")

\* Mutant: the loop runs until a 401.
HeartbeatAlways ==
  /\ hb_pc = "top"
  /\ hb_pc' = "tick"
  /\ UNCHANGED <<serverVars, session_file, mainVars, flagVars, genVars, hb_token, hb_reply,
                 pollVars, taskVars>>

\* The loop's while condition.  The tick is awaited after it: a heartbeat may
\* still be sent after stop_signal has been raised.
HeartbeatCheck ==
  /\ hb_pc = "top"
  /\ hb_pc' = IF stop_signal THEN "done" ELSE "tick"
  /\ UNCHANGED <<serverVars, session_file, mainVars, flagVars, genVars, hb_token, hb_reply,
                 pollVars, taskVars>>

HeartbeatSend ==
  /\ hb_pc = "tick"
  /\ hb_pc' = "sent"
  /\ hb_token' = client_token
  /\ UNCHANGED <<serverVars, session_file, mainVars, flagVars, genVars, hb_reply, pollVars,
                 taskVars>>

\* Nothing was registered and Ollama does not answer: the beat is skipped.
HeartbeatSkip ==
  /\ hb_pc = "tick"
  /\ hb_pc' = "top"
  /\ SignalFirstHeartbeat
  /\ UNCHANGED <<serverVars, session_file, mainVars, client_token, stop_signal,
                 is_excluded, genVars, hb_token, hb_reply, pollVars, taskVars>>

HeartbeatAnswered ==
  /\ hb_reply' = "none"
  /\ hb_token' = NoSession
  /\ UNCHANGED <<serverVars, session_file, mainVars, client_token, stop_signal, session,
                 exec_token, permits, pollVars, taskVars>>

HeartbeatAccepted ==
  /\ hb_reply \in {"online", "excluded"}
  /\ hb_pc' = "top"
  /\ is_excluded' = (hb_reply = "excluded")
  /\ SignalFirstHeartbeat
  /\ UNCHANGED session_lost
  /\ HeartbeatAnswered

HeartbeatUnauthorized ==
  /\ hb_reply = "unauthorized"
  /\ hb_pc' = "done"
  /\ session_lost' = [session_lost EXCEPT ![Gen] = TRUE]
  /\ SignalFirstHeartbeat
  /\ UNCHANGED is_excluded
  /\ HeartbeatAnswered

\* Any other failure: try again at the next tick.  Main is not told.
HeartbeatError ==
  /\ hb_reply = "error"
  /\ hb_pc' = "top"
  /\ UNCHANGED <<is_excluded, first_hb, session_lost>>
  /\ HeartbeatAnswered

HeartbeatNext ==
  \/ HeartbeatCheck \/ HeartbeatSend \/ HeartbeatSkip
  \/ HeartbeatAccepted \/ HeartbeatUnauthorized \/ HeartbeatError
=============================================================================

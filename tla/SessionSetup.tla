---------------------------- MODULE SessionSetup ----------------------------
(***************************************************************************)
(* Phase 1 of the main loop: load session.json and refresh it, or register *)
(* the node (main.rs, runtime/register.rs, storage/mod.rs).  Only main     *)
(* runs in this phase; a crash may fall between any two of its steps.      *)
(***************************************************************************)
EXTENDS KeyComputeServer

MaxRegisterAttempts == 3      \* register_with_retry
MaxUpdateRetries == 2         \* refresh_existing_session

\* main's local SessionData.
SetSession(s) == session' = [session EXCEPT ![Gen] = s]

\* An attempt failed and another one follows.
NextAttempt ==
  /\ attempt' = attempt + 1
  /\ UNCHANGED <<main_pc, reregister_count, event, signal, restarts, flagVars, genVars,
                 hbVars, pollVars, taskVars>>

SetupStep(pc) ==
  /\ main_pc' = pc
  /\ UNCHANGED <<reregister_count, event, signal, restarts, stop_signal, is_excluded,
                 first_hb, exec_token, session_lost, permits, hbVars, pollVars, taskVars>>

\* try_load_session.  An unreadable file ends the process.
LoadSession ==
  /\ main_pc = "load"
  /\ IF session_file = NoSession
     THEN /\ SetupStep("register")
          /\ attempt' = 1
          /\ UNCHANGED <<session, client_token>>
     ELSE /\ SetupStep("refresh")
          /\ attempt' = 0
          /\ SetSession(session_file)
          /\ client_token' = session_file
  /\ UNCHANGED <<serverVars, session_file>>

\* The file cannot be read, Ollama not be scanned, or the file not be written.
SetupFails ==
  /\ main_pc \in {"load", "refresh", "save_refreshed"}
  /\ Terminate("failed")
  /\ UNCHANGED <<serverVars, session_file>>

\* refresh_existing_session found the capabilities as they were registered.
RefreshUnchanged ==
  /\ main_pc = "refresh"
  /\ SetupStep("start")
  /\ UNCHANGED <<serverVars, session_file, attempt, session, client_token>>

\* They differ: ask the server for a replacement session.
RefreshDiffers ==
  /\ main_pc = "refresh"
  /\ SetupStep("update")
  /\ UNCHANGED <<serverVars, session_file, attempt, session, client_token>>

\* The server replaces the session and the reply arrives.
UpdateAccepted(s) ==
  /\ main_pc = "update"
  /\ Accepts(session[Gen], client_token)
  /\ s \in Unissued
  /\ session_state' = [Issue(s) EXCEPT ![client_token] = "replaced"]
  /\ SetSession(s)
  /\ SetupStep("save_refreshed")
  /\ attempt' = 0
  /\ UNCHANGED <<lease_holder, session_file, client_token>>

\* Without a usable reply either nothing was done, or the session was replaced by
\* one this node will never hear of.
UpdateUnanswered ==
  /\ main_pc = "update"
  /\ \/ UNCHANGED session_state
     \/ /\ Accepts(session[Gen], client_token)
        /\ \E s \in Unissued :
             session_state' = [Issue(s) EXCEPT ![client_token] = "replaced"]
  /\ UNCHANGED <<lease_holder, session_file>>

\* Mutant: any failed refresh forgets the session, not only a 401.
UpdateFailsForgets ==
  /\ main_pc = "update"
  /\ session_file' = NoSession
  /\ UNCHANGED serverVars
  /\ Terminate("failed")

\* Network errors and 5xx are retried, other failures and the last one are not.
UpdateRetry == attempt < MaxUpdateRetries /\ UpdateUnanswered /\ NextAttempt
UpdateFails == UpdateUnanswered /\ Terminate("failed")

\* 401: main goes on with the session it loaded, and its first heartbeat finds out.
UpdateUnauthorized ==
  /\ main_pc = "update"
  /\ ~Accepts(session[Gen], client_token)
  /\ SetupStep("start")
  /\ attempt' = 0
  /\ UNCHANGED <<serverVars, session_file, session, client_token>>

\* Mutant: the replacement session is used but not saved.
SaveRefreshedForgets ==
  /\ main_pc = "save_refreshed"
  /\ client_token' = session[Gen]
  /\ SetupStep("start")
  /\ UNCHANGED <<serverVars, session_file, attempt, session>>

\* save_session renames a complete temporary file over session.json.
SaveRefreshed ==
  /\ main_pc = "save_refreshed"
  /\ session_file' = session[Gen]
  /\ client_token' = session[Gen]
  /\ SetupStep("start")
  /\ UNCHANGED <<serverVars, attempt, session>>

RegisterAccepted(s) ==
  /\ main_pc = "register"
  /\ s \in Unissued
  /\ session_state' = Issue(s)
  /\ SetSession(s)
  /\ SetupStep("save_registered")
  /\ UNCHANGED <<lease_holder, session_file, attempt, client_token>>

\* No model became ready, the request failed, or its reply was lost.
RegisterFails ==
  /\ main_pc = "register"
  /\ \/ UNCHANGED session_state
     \/ \E s \in Unissued : session_state' = Issue(s)
  /\ IF attempt < MaxRegisterAttempts THEN NextAttempt ELSE Terminate("failed")
  /\ UNCHANGED <<lease_holder, session_file>>

\* register_node saves the session and main loads it back.
SaveRegistered ==
  /\ main_pc = "save_registered"
  /\ session_file' = session[Gen]
  /\ SetupStep("start")
  /\ attempt' = 0
  /\ UNCHANGED <<serverVars, session, client_token>>

\* The session could not be written: one more failed registration attempt.
SaveRegisteredFails ==
  /\ main_pc = "save_registered"
  /\ IF attempt < MaxRegisterAttempts
     THEN /\ SetupStep("register")
          /\ attempt' = attempt + 1
          /\ SetSession(NoSession)
          /\ UNCHANGED client_token
     ELSE Terminate("failed")
  /\ UNCHANGED <<serverVars, session_file>>

SetupNext ==
  \/ LoadSession \/ SetupFails \/ RefreshUnchanged \/ RefreshDiffers
  \/ UpdateRetry \/ UpdateFails \/ UpdateUnauthorized \/ SaveRefreshed
  \/ RegisterFails \/ SaveRegistered \/ SaveRegisteredFails
  \/ \E s \in Session : UpdateAccepted(s) \/ RegisterAccepted(s)
=============================================================================

----------------------------- MODULE NodeState -----------------------------
(***************************************************************************)
(* The state of one KeyCompute node and of the part of the KeyCompute      *)
(* server it talks to.  The node is one process: the main loop (main.rs)   *)
(* sets a session up, runs one heartbeat loop and one poll loop for it,    *)
(* and when the server answers 401 stops both, forgets the session and     *)
(* starts again.  One turn of that loop is a generation.  Tasks spawned by *)
(* a generation are not stopped with it: they go on beside the next one.   *)
(*                                                                         *)
(* A session and the token the server issued with it are one value, so a   *)
(* request is well formed when the session id of its body and the bearer   *)
(* token of its header are equal.  A lease is one leased task.             *)
(***************************************************************************)
EXTENDS Naturals, FiniteSets

CONSTANTS
  Session,             \* the sessions the server can issue
  NoSession,           \* no session (a missing file, an unset token)
  Lease,               \* the leases the server can grant
  MaxConcurrent,       \* config max_concurrent_tasks
  MaxReregisters,      \* config max_reregisters
  MaxRetries,          \* bound: resends of one completion
  MaxRestarts          \* bound: how often the supervisor starts the process again

ASSUME ConstantsAssumption ==
  /\ NoSession \notin Session
  /\ IsFiniteSet(Lease)
  /\ MaxConcurrent \in Nat \ {0}     \* load_config refuses 0
  /\ MaxReregisters \in Nat
  /\ MaxRetries \in Nat
  /\ MaxRestarts \in Nat

\* Generations of one process: recovery gives up when the count reaches
\* max_reregisters, and there is always a first generation.
MaxGeneration == IF MaxReregisters = 0 THEN 1 ELSE MaxReregisters
Generation == 1 .. MaxGeneration

VARIABLES
  (* the server *)
  session_state,      \* what the server thinks of each session
  lease_holder,       \* the session each lease was granted to
  (* the data directory *)
  session_file,       \* session.json
  (* the main loop *)
  main_pc, reregister_count, attempt, event, signal, restarts,
  client_token,       \* the token of the client shared by main and both loops
  stop_signal, is_excluded, first_hb,
  (* what belongs to a generation *)
  session,            \* the SessionData its loops and its executor hold
  exec_token,         \* the token frozen in its executor's client
  session_lost,       \* its session_lost flag
  permits,            \* free permits of its semaphore
  (* the loops of the current generation, with their request in flight *)
  hb_pc, hb_token, hb_reply,
  poll_pc, poll_token, poll_reply,
  (* the leased tasks *)
  task_pc, task_gen, task_reply, retries

serverVars == <<session_state, lease_holder>>
mainVars   == <<main_pc, reregister_count, attempt, event, signal, restarts>>
flagVars   == <<client_token, stop_signal, is_excluded, first_hb>>
genVars    == <<session, exec_token, session_lost, permits>>
hbVars     == <<hb_pc, hb_token, hb_reply>>
pollVars   == <<poll_pc, poll_token, poll_reply>>
taskVars   == <<task_pc, task_gen, task_reply, retries>>
vars == <<serverVars, session_file, mainVars, flagVars, genVars, hbVars, pollVars,
          taskVars>>

-----------------------------------------------------------------------------
Gen == reregister_count + 1                  \* the generation main is in

SessionOrNone == Session \cup {NoSession}
Ended == {"stopped", "failed", "crashed"}     \* there is no process
Setup == {"load", "refresh", "update", "save_refreshed", "register",
          "save_registered", "start"}
Looping == {"first_hb", "monitor", "join"}    \* the loops may be running
Busy == {"executing", "completing"}           \* the task holds a permit
InProcess == {"offered", "held"} \cup Busy    \* the process knows the lease

\* What a call of the client comes to, as its caller tells the outcomes apart.
HeartbeatReply == {"online", "excluded", "unauthorized", "error"}
PollReply      == {"task", "empty", "unauthorized", "error"}
CompleteReply  == {"ok", "unauthorized", "rejected", "error"}

Authentic(sid, token) == sid = token /\ token \in Session

\* The session may heartbeat and poll.
Accepts(sid, token) == Authentic(sid, token) /\ session_state[token] = "active"

SessionState == {"unissued", "active", "replaced", "revoked"}
TaskPc == {"none", "finished", "dropped"} \cup InProcess

ServerType ==
  /\ session_state \in [Session -> SessionState]
  /\ lease_holder \in [Lease -> SessionOrNone]
  /\ session_file \in SessionOrNone

MainType ==
  /\ main_pc \in Setup \cup Looping \cup {"recover"} \cup Ended
  /\ reregister_count \in Nat /\ Gen \in Generation
  /\ attempt \in 0 .. 3
  /\ event \in {"none", "shutdown", "session_lost"}
  /\ signal \in {"default", "handled", "pending", "taken", "lost"}
  /\ restarts \in 0 .. MaxRestarts
  /\ client_token \in SessionOrNone

FlagType ==
  /\ stop_signal \in BOOLEAN /\ is_excluded \in BOOLEAN /\ first_hb \in BOOLEAN

GenerationType ==
  /\ session \in [Generation -> SessionOrNone]
  /\ exec_token \in [Generation -> SessionOrNone]
  /\ session_lost \in [Generation -> BOOLEAN]
  /\ permits \in [Generation -> Nat]

LoopType ==
  /\ hb_pc \in {"off", "top", "tick", "sent", "done"}
  /\ hb_token \in SessionOrNone
  /\ hb_reply \in HeartbeatReply \cup {"none"}
  /\ poll_pc \in {"off", "top", "sent", "permit", "done"}
  /\ poll_token \in SessionOrNone
  /\ poll_reply \in PollReply \cup {"none"}

TaskType ==
  /\ task_pc \in [Lease -> TaskPc]
  /\ task_gen \in [Lease -> Generation]
  /\ task_reply \in [Lease -> CompleteReply \cup {"none"}]
  /\ retries \in [Lease -> 0 .. MaxRetries]

TypeOK ==
  ServerType /\ MainType /\ FlagType /\ GenerationType /\ LoopType /\ TaskType

\* The process is gone: every task it knew is dropped where it stands, the
\* completion of a lease in flight included, and nothing but the file remains.
Terminate(how) ==
  /\ main_pc' = how
  /\ attempt' = 0
  /\ event' = "none"
  /\ client_token' = NoSession
  /\ stop_signal' = FALSE /\ is_excluded' = FALSE /\ first_hb' = FALSE
  /\ session' = [g \in Generation |-> NoSession]
  /\ exec_token' = [g \in Generation |-> NoSession]
  /\ session_lost' = [g \in Generation |-> FALSE]
  /\ permits' = [g \in Generation |-> MaxConcurrent]
  /\ hb_pc' = "off" /\ hb_token' = NoSession /\ hb_reply' = "none"
  /\ poll_pc' = "off" /\ poll_token' = NoSession /\ poll_reply' = "none"
  /\ task_pc' = [l \in Lease |->
                   IF task_pc[l] \in InProcess THEN "dropped" ELSE task_pc[l]]
  /\ task_reply' = [l \in Lease |-> "none"]
  /\ retries' = [l \in Lease |-> 0]
  /\ UNCHANGED <<task_gen, reregister_count, signal, restarts>>
=============================================================================

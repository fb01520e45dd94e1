------------------------------ MODULE NodeToken ------------------------------
(***************************************************************************)
(* The node: main, the two loops and the tasks of every generation running *)
(* side by side, against the server, with crashes and restarts.            *)
(***************************************************************************)
EXTENDS SessionSetup, HeartbeatLoop, PollLoop, TaskExecutor, NodeMain

Init ==
  /\ session_state = [s \in Session |-> "unissued"]
  /\ lease_holder = [l \in Lease |-> NoSession]
  /\ session_file = NoSession
  /\ main_pc = "load" /\ reregister_count = 0 /\ attempt = 0
  /\ event = "none" /\ signal = "default" /\ restarts = 0
  /\ client_token = NoSession
  /\ stop_signal = FALSE /\ is_excluded = FALSE /\ first_hb = FALSE
  /\ session = [g \in Generation |-> NoSession]
  /\ exec_token = [g \in Generation |-> NoSession]
  /\ session_lost = [g \in Generation |-> FALSE]
  /\ permits = [g \in Generation |-> MaxConcurrent]
  /\ hb_pc = "off" /\ hb_token = NoSession /\ hb_reply = "none"
  /\ poll_pc = "off" /\ poll_token = NoSession /\ poll_reply = "none"
  /\ task_pc = [l \in Lease |-> "none"]
  /\ task_gen = [l \in Lease |-> 1]
  /\ task_reply = [l \in Lease |-> "none"]
  /\ retries = [l \in Lease |-> 0]

Next ==
  \/ SetupNext \/ MainNext \/ HeartbeatNext \/ PollNext
  \/ \E l \in Lease : TaskNext(l)
  \/ ServeHeartbeat \/ ServePoll
  \/ \E s \in Session : Revoke(s)
  \/ Signal \/ Crash \/ Restart

\* The tokio scheduler runs every task that can run, and every request is answered
\* or fails: all the clients have timeouts.  Nothing forces a signal, a crash, a
\* restart or a revocation.
Fairness ==
  /\ WF_vars(SetupNext \/ MainNext)
  /\ WF_vars(HeartbeatNext \/ ServeHeartbeat)
  /\ WF_vars(PollNext \/ ServePoll)
  /\ \A l \in Lease : WF_vars(TaskNext(l))

Spec == Init /\ [][Next]_vars
FairSpec == Spec /\ Fairness

-----------------------------------------------------------------------------
(* Safety *)

LoopsIdle == hb_pc \in {"off", "done"} /\ poll_pc \in {"off", "done"}

Running(g) == {l \in Lease : task_pc[l] \in Busy /\ task_gen[l] = g}

Waiting == {l \in Lease : task_pc[l] \in {"offered", "held"}}

\* Every request in flight carries the session id and the token of one session: a
\* heartbeat or a poll never mixes the loop's session with a token main has set for
\* another one, and a task of an old generation keeps its own (with_fixed_session).
CredentialsPaired ==
  /\ hb_pc = "sent" => Authentic(session[Gen], hb_token)
  /\ poll_pc = "sent" => Authentic(session[Gen], poll_token)
  /\ \A l \in Lease : task_pc[l] \in Busy =>
       Authentic(session[task_gen[l]], ExecutorToken(task_gen[l]))

\* A result is delivered under the session its lease was granted to, however many
\* times the node has registered again in the meantime.
ResultUnderLeaseSession ==
  \A l \in Lease : task_pc[l] \in Busy => lease_holder[l] = session[task_gen[l]]

\* session_lost is only ever raised for a generation whose own session the server
\* no longer accepts: the late 401 of an old task never costs the current session.
LostSessionIsDead ==
  \A g \in Generation : session_lost[g] =>
    /\ session[g] \in Session
    /\ session_state[session[g]] # "active"

\* While main sets up or replaces a session, no loop of an earlier generation is
\* alive to use the shared client (the join in phase 7 and phase 4).
SetupRunsAlone ==
  main_pc \in Setup \cup {"recover"} => LoopsIdle

\* While a generation runs, session.json holds the session it runs with, so that a
\* process killed at that moment comes back as the same node session.
RunningSessionOnDisk ==
  main_pc \in Looping => /\ session_file \in Session
                         /\ session_file = session[Gen]
                         /\ client_token = session[Gen]

\* A permit is out exactly while a spawned task of that generation runs: none is
\* lost on any way out of execute() and none is given back twice.
PermitsBalanced ==
  \A g \in Generation : permits[g] + Cardinality(Running(g)) = MaxConcurrent

\* A lease on its way to the poll loop or in its hands is the only one, it is there
\* exactly when the loop's own state says so, and it belongs to the session of the
\* generation that polled for it.
AtMostOneLeaseHeld ==
  /\ \A k, l \in Waiting : k = l
  /\ Waiting # {} <=> poll_reply = "task" \/ poll_pc = "permit"
  /\ \A l \in Waiting : lease_holder[l] = session[Gen]

\* session.json is never cleared or overwritten while the session in it is still
\* good at the server.
OnlyDeadSessionForgotten ==
  [][session_file # NoSession /\ session_file' # session_file
       => session_state[session_file] # "active"]_vars

\* What has become of a lease, as LeaseLedger has it.
Stage(pc) ==
  IF pc \in {"offered", "held"} THEN "waiting"
  ELSE IF pc \in Busy THEN "working"
  ELSE IF pc = "finished" THEN "settled"
  ELSE pc

StageOf == [l \in Lease |-> Stage(task_pc[l])]

LL == INSTANCE LeaseLedger WITH holder <- lease_holder, stage <- StageOf

\* The node is a LeaseLedger: it takes one lease at a time, works on each at most once
\* and on no more than max_concurrent_tasks of one session at a time, whatever number of
\* times it has registered again or was restarted, and drops leases only with its end
\* (poll_loop, its semaphore, and main, which makes a new one for each session).
ImplementsLedger == LL!Spec

-----------------------------------------------------------------------------
(* The inductive invariant: what each part of the node may rely on between two *)
(* of its own steps, whatever the others have done in the meantime.            *)

Issued(s) == s \in Session /\ session_state[s] # "unissued"
Dead(s) == s \in Session /\ session_state[s] \in {"replaced", "revoked"}

\* Main and the session: which of file, local session and shared token agree.
MainInv ==
  /\ main_pc \in Setup \cup {"recover"} => LoopsIdle
  /\ main_pc \in Ended => LoopsIdle
  /\ main_pc \in {"refresh", "update"} =>
       session_file \in Session /\ session[Gen] = session_file
                                /\ client_token = session_file
  /\ main_pc = "save_refreshed" => session[Gen] \in Session /\ Dead(session_file)
  /\ main_pc \in {"register", "save_registered"} => session_file = NoSession
  /\ main_pc = "save_registered" => session[Gen] \in Session
  /\ main_pc = "start" => session_file \in Session /\ session[Gen] = session_file
  /\ main_pc \in Looping \cup {"recover"} =>
       session_file \in Session /\ session[Gen] = session_file
                                /\ client_token = session_file
  /\ main_pc \in {"join", "recover"} /\ event # "shutdown" => session_lost[Gen]
  /\ main_pc = "recover" => event # "shutdown"

\* Nobody holds a session the server has not issued.
IssuedInv ==
  /\ session_file # NoSession => Issued(session_file)
  /\ \A g \in Generation : session[g] # NoSession => Issued(session[g])

\* A request in flight is paired, and a 401 on its way back is deserved.
LoopInv ==
  /\ hb_pc = "sent" => hb_token = session[Gen]
  /\ hb_reply # "none" => hb_pc = "sent"
  /\ hb_reply = "unauthorized" => Dead(session[Gen])
  /\ poll_pc = "sent" => poll_token = session[Gen]
  /\ poll_reply # "none" => poll_pc = "sent"
  /\ poll_reply = "unauthorized" => Dead(session[Gen])
  /\ poll_pc \in {"top", "sent", "permit"} =>
       main_pc \in {"monitor", "join"} /\ exec_token[Gen] = session[Gen]

\* Tasks outlive their generation with its session, never ahead of it.
TaskInv ==
  \A l \in Lease :
    /\ task_pc[l] \in Busy =>
         /\ session[task_gen[l]] \in Session
         /\ exec_token[task_gen[l]] = session[task_gen[l]]
         /\ lease_holder[l] = session[task_gen[l]]
         /\ task_gen[l] <= Gen /\ main_pc \notin Ended
         /\ task_gen[l] = Gen => main_pc \in {"monitor", "join", "recover"}
    /\ task_reply[l] # "none" => task_pc[l] = "completing"
    /\ task_reply[l] = "unauthorized" => Dead(session[task_gen[l]])
    /\ task_pc[l] = "offered" => poll_reply = "task" /\ lease_holder[l] = session[Gen]
    /\ task_pc[l] = "held" => poll_pc = "permit" /\ lease_holder[l] = session[Gen]

\* The poll loop and the lease it waits with.
HeldInv ==
  /\ \A k, l \in Lease :
       task_pc[k] \in {"offered", "held"} /\ task_pc[l] \in {"offered", "held"} => k = l
  /\ poll_reply = "task" => \E l \in Lease : task_pc[l] = "offered"
  /\ poll_pc = "permit" => \E l \in Lease : task_pc[l] = "held"

\* A raised session_lost flag tells the truth about its own generation.
LostInv ==
  \A g \in Generation : session_lost[g] =>
    /\ Dead(session[g])
    /\ g <= Gen /\ main_pc \notin Ended
    /\ g = Gen => main_pc \in Looping \cup {"recover"}

\* Generations have sessions of their own, so that a session has one semaphore.
ApartInv ==
  /\ \A g, h \in Generation : session[g] # NoSession /\ session[g] = session[h] => g = h
  /\ \A g \in Generation : g > Gen => session[g] = NoSession
  /\ main_pc = "load" /\ Gen > 1 => session_file = NoSession
  /\ main_pc \in Ended => \A g \in Generation : session[g] = NoSession

NodeInv == MainInv /\ IssuedInv /\ LoopInv /\ TaskInv /\ HeldInv /\ LostInv

-----------------------------------------------------------------------------
(* Liveness *)

\* A 401 noticed by anyone in the current generation leads to a new generation or to
\* the end of the process, whatever the loops and the tasks are waiting for.
LostSessionRecovers ==
  \A g \in Generation :
    (session_lost[g] /\ Gen = g) ~> (Gen # g \/ main_pc \in Ended)

\* A lease the node has received is worked on and reported, or the process ends: it
\* is not left waiting for a permit, nor behind a stopped loop.
ReceivedLeaseSettles ==
  \A l \in Lease :
    task_pc[l] \in InProcess ~> task_pc[l] \in {"finished", "dropped"}

\* A shutdown that main has taken ends the process even if the poll loop is waiting
\* for a permit or a heartbeat is in flight.
ShutdownEnds == event = "shutdown" ~> main_pc \in Ended

-----------------------------------------------------------------------------
(* What the documents say and the code does not do *)

\* README.md: on exit the node completes in-flight work.
GracefulShutdown ==
  [][main_pc' = "stopped" => \A l \in Lease : task_pc[l] \notin Busy]_vars

\* config.rs: max_concurrent_tasks is the number of tasks executed at once.
ConcurrencyLimit == Cardinality({l \in Lease : task_pc[l] \in Busy}) <= MaxConcurrent

\* main.rs: SIGTERM or SIGINT received is the Shutdown event.
SignalIsShutdown == signal \in {"pending", "lost"} ~> main_pc \in Ended
=============================================================================

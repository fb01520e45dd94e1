--------------------------- MODULE NodeTokenProofs ---------------------------
(***************************************************************************)
(* Theorems about NodeToken, for every number of sessions, leases, permits *)
(* and re-registrations.                                                   *)
(***************************************************************************)
EXTENDS NodeToken, FiniteSetTheorems, TLAPS

USE ConstantsAssumption
USE DEF ConstantsAssumption, serverVars, mainVars, flagVars, genVars, hbVars, pollVars,
        taskVars, Gen, SessionOrNone, HeartbeatReply, PollReply, CompleteReply

-----------------------------------------------------------------------------
(* Types *)

\* There is always a first generation.
LEMMA GenerationOne == 1 \in Generation
  BY DEF Generation, MaxGeneration

\* The process starts well typed.
LEMMA TypeInit == Init => TypeOK
<1> SUFFICES ASSUME Init PROVE TypeOK
  OBVIOUS
<1> USE GenerationOne DEF Init
<1>1. ServerType
  BY DEF ServerType, SessionState
<1>2. MainType
  BY DEF MainType, Setup
<1>3. FlagType
  BY Zenon DEF FlagType
<1>4. GenerationType
  BY DEF GenerationType
<1>5. LoopType
  BY DEF LoopType
<1>6. TaskType
  BY DEF TaskType, TaskPc
<1> QED
  BY <1>1, <1>2, <1>3, <1>4, <1>5, <1>6 DEF TypeOK

\* The end of the process leaves every variable of the node well typed.
LEMMA TypeTerminate ==
  ASSUME TypeOK, NEW how \in Ended, Terminate(how)
  PROVE  MainType' /\ FlagType' /\ GenerationType' /\ LoopType' /\ TaskType'
<1> USE DEF TypeOK, Terminate
<1>1. MainType'
  BY DEF MainType, Ended
<1>2. FlagType'
  BY Zenon DEF FlagType
<1>3. GenerationType'
  BY DEF GenerationType
<1>4. LoopType'
  BY DEF LoopType
<1>5. TaskType'
  BY DEF TaskType, TaskPc
<1> QED
  BY <1>1, <1>2, <1>3, <1>4, <1>5

\* Setting a session up keeps the types.
LEMMA TypeSetup ==
  ASSUME TypeOK, SetupNext
  PROVE  TypeOK'
<1> USE DEF TypeOK, ServerType, MainType, FlagType, GenerationType, LoopType, TaskType,
            Setup, Ended, SessionState, Issue, Unissued, MaxUpdateRetries,
            MaxRegisterAttempts
<1>1. CASE LoadSession
  BY <1>1 DEF LoadSession, SetupStep, SetSession
<1>2. CASE SetupFails
  BY <1>2, TypeTerminate DEF SetupFails
<1>3. CASE RefreshUnchanged
  BY <1>3 DEF RefreshUnchanged, SetupStep
<1>4. CASE RefreshDiffers
  BY <1>4 DEF RefreshDiffers, SetupStep
<1>5. CASE UpdateRetry
  BY <1>5 DEF UpdateRetry, UpdateUnanswered, NextAttempt
<1>6. CASE UpdateFails
  BY <1>6, TypeTerminate DEF UpdateFails, UpdateUnanswered
<1>7. CASE UpdateUnauthorized
  BY <1>7 DEF UpdateUnauthorized, SetupStep
<1>8. CASE SaveRefreshed
  BY <1>8 DEF SaveRefreshed, SetupStep
<1>9. CASE RegisterFails
  <2>1. ServerType'
    BY <1>9 DEF RegisterFails
  <2>2. CASE attempt < MaxRegisterAttempts
    BY <1>9, <2>1, <2>2 DEF RegisterFails, NextAttempt
  <2>3. CASE ~(attempt < MaxRegisterAttempts)
    <3>1. Terminate("failed")
      BY <1>9, <2>3 DEF RegisterFails
    <3> QED
      BY <2>1, <3>1, TypeTerminate
  <2> QED
    BY <2>2, <2>3
<1>10. CASE SaveRegistered
  BY <1>10 DEF SaveRegistered, SetupStep
<1>11. CASE SaveRegisteredFails
  <2>1. ServerType'
    BY <1>11 DEF SaveRegisteredFails
  <2>2. CASE attempt < MaxRegisterAttempts
    BY <1>11, <2>1, <2>2 DEF SaveRegisteredFails, SetupStep, SetSession
  <2>3. CASE ~(attempt < MaxRegisterAttempts)
    <3>1. Terminate("failed")
      BY <1>11, <2>3 DEF SaveRegisteredFails
    <3> QED
      BY <2>1, <3>1, TypeTerminate
  <2> QED
    BY <2>2, <2>3
<1>12. ASSUME NEW s \in Session, UpdateAccepted(s) PROVE TypeOK'
  <2>1. Issue(s) \in [Session -> SessionState]
    OBVIOUS
  <2>2. ServerType'
    BY <1>12, <2>1 DEF UpdateAccepted
  <2> QED
    BY <1>12, <2>2 DEF UpdateAccepted, SetupStep, SetSession
<1>13. ASSUME NEW s \in Session, RegisterAccepted(s) PROVE TypeOK'
  BY <1>13 DEF RegisterAccepted, SetupStep, SetSession
<1> QED
  BY <1>1, <1>2, <1>3, <1>4, <1>5, <1>6, <1>7, <1>8, <1>9, <1>10, <1>11, <1>12, <1>13
     DEF SetupNext

\* The heartbeat loop keeps the types.
LEMMA TypeHeartbeat ==
  ASSUME TypeOK, HeartbeatNext
  PROVE  TypeOK'
<1> USE DEF TypeOK, ServerType, MainType, FlagType, GenerationType, LoopType, TaskType
<1>1. CASE HeartbeatCheck
  BY <1>1 DEF HeartbeatCheck
<1>2. CASE HeartbeatSend
  BY <1>2 DEF HeartbeatSend
<1>3. CASE HeartbeatSkip
  BY <1>3 DEF HeartbeatSkip, SignalFirstHeartbeat
<1>4. CASE HeartbeatAccepted
  BY <1>4 DEF HeartbeatAccepted, HeartbeatAnswered, SignalFirstHeartbeat
<1>5. CASE HeartbeatUnauthorized
  BY <1>5 DEF HeartbeatUnauthorized, HeartbeatAnswered, SignalFirstHeartbeat
<1>6. CASE HeartbeatError
  BY <1>6 DEF HeartbeatError, HeartbeatAnswered
<1> QED
  BY <1>1, <1>2, <1>3, <1>4, <1>5, <1>6 DEF HeartbeatNext

\* The poll loop keeps the types.
LEMMA TypePoll ==
  ASSUME TypeOK, PollNext
  PROVE  TypeOK'
<1> USE DEF TypeOK, ServerType, MainType, FlagType, GenerationType, LoopType, TaskType,
            TaskPc, InProcess, Busy
<1>1. CASE PollStop
  BY <1>1 DEF PollStop
<1>2. CASE PollSend
  BY <1>2 DEF PollSend
<1>3. CASE PollNoTask
  BY <1>3 DEF PollNoTask, PollAnswered
<1>4. CASE PollUnauthorized
  BY <1>4 DEF PollUnauthorized, PollAnswered
<1>5. ASSUME NEW l \in Lease, PollTask(l) PROVE TypeOK'
  BY <1>5 DEF PollTask, PollAnswered
<1>6. ASSUME NEW l \in Lease, AcquirePermit(l) PROVE TypeOK'
  BY <1>6 DEF AcquirePermit
<1> QED
  BY <1>1, <1>2, <1>3, <1>4, <1>5, <1>6 DEF PollNext

\* A task keeps the types.
LEMMA TypeTask ==
  ASSUME TypeOK, NEW l \in Lease, TaskNext(l)
  PROVE  TypeOK'
<1> USE DEF TypeOK, ServerType, MainType, FlagType, GenerationType, LoopType, TaskType,
            TaskPc, InProcess, Busy
<1>1. CASE ExecuteTask(l)
  BY <1>1 DEF ExecuteTask
<1>2. CASE ServeTask(l)
  BY <1>2 DEF ServeTask, ServeComplete
<1>3. CASE CompleteEnds(l)
  BY <1>3 DEF CompleteEnds, FinishTask
<1>4. CASE CompleteUnauthorized(l)
  BY <1>4 DEF CompleteUnauthorized, FinishTask, LoseSession
<1>5. CASE CompleteRetry(l)
  BY <1>5 DEF CompleteRetry
<1>6. CASE TaskPanics(l)
  BY <1>6 DEF TaskPanics, FinishTask
<1> QED
  BY <1>1, <1>2, <1>3, <1>4, <1>5, <1>6 DEF TaskNext

\* Main keeps the types.
LEMMA TypeMain ==
  ASSUME TypeOK, MainNext
  PROVE  TypeOK'
<1> USE DEF TypeOK, ServerType, MainType, FlagType, GenerationType, LoopType, TaskType,
            Ended, Looping, Setup
<1>1. CASE StartGeneration
  <2>1. FlagType'
    BY <1>1, Zenon DEF StartGeneration
  <2> QED
    BY <1>1, <2>1 DEF StartGeneration
<1>2. CASE FirstHeartbeatSeen
  <2>1. FlagType'
    BY <1>2, Zenon DEF FirstHeartbeatSeen, AfterFirstHeartbeat
  <2> QED
    BY <1>2, <2>1 DEF FirstHeartbeatSeen, AfterFirstHeartbeat
<1>3. CASE FirstHeartbeatTimeout
  <2>1. FlagType'
    BY <1>3, Zenon DEF FirstHeartbeatTimeout, AfterFirstHeartbeat
  <2> QED
    BY <1>3, <2>1 DEF FirstHeartbeatTimeout, AfterFirstHeartbeat
<1>4. CASE TakeShutdown
  BY <1>4 DEF TakeShutdown, StopLoops
<1>5. CASE TakeSessionLost
  BY <1>5 DEF TakeSessionLost, StopLoops
<1>6. CASE JoinLoops
  <2>1. ServerType'
    BY <1>6 DEF JoinLoops
  <2>2. CASE event # "shutdown"
    BY <1>6, <2>1, <2>2 DEF JoinLoops
  <2>3. CASE ~(event # "shutdown")
    <3>1. Terminate("stopped")
      BY <1>6, <2>3 DEF JoinLoops
    <3> QED
      BY <2>1, <3>1, TypeTerminate
  <2> QED
    BY <2>2, <2>3
<1>7. CASE Recover
  BY <1>7 DEF Recover, Recovers, Generation, MaxGeneration
<1>8. CASE RecoverExhausted
  BY <1>8, TypeTerminate DEF RecoverExhausted
<1>9. CASE ClearFails
  BY <1>9, TypeTerminate DEF ClearFails
<1> QED
  BY <1>1, <1>2, <1>3, <1>4, <1>5, <1>6, <1>7, <1>8, <1>9 DEF MainNext

\* The server and the outside world keep the types.
LEMMA TypeEnvironment ==
  ASSUME TypeOK, ServeHeartbeat \/ ServePoll \/ (\E s \in Session : Revoke(s)) \/ Signal
         \/ Crash \/ Restart
  PROVE  TypeOK'
<1> USE DEF TypeOK, ServerType, MainType, FlagType, GenerationType, LoopType, TaskType,
            SessionState, TaskPc, InProcess, Busy, Ended, Setup
<1>1. CASE ServeHeartbeat
  BY <1>1 DEF ServeHeartbeat
<1>2. CASE ServePoll
  BY <1>2 DEF ServePoll
<1>3. ASSUME NEW s \in Session, Revoke(s) PROVE TypeOK'
  BY <1>3 DEF Revoke
<1>4. CASE Signal
  BY <1>4 DEF Signal
<1>5. CASE Crash
  BY <1>5, TypeTerminate DEF Crash
<1>6. CASE Restart
  BY <1>6, GenerationOne DEF Restart
<1> QED
  BY <1>1, <1>2, <1>3, <1>4, <1>5, <1>6

\* Every step of the composition keeps the types.
LEMMA TypeStep == TypeOK /\ [Next]_vars => TypeOK'
<1> SUFFICES ASSUME TypeOK, [Next]_vars PROVE TypeOK'
  OBVIOUS
<1>1. CASE UNCHANGED vars
  BY <1>1 DEF vars, TypeOK, ServerType, MainType, FlagType, GenerationType, LoopType,
              TaskType
<1>2. CASE Next
  BY <1>2, TypeSetup, TypeHeartbeat, TypePoll, TypeTask, TypeMain, TypeEnvironment DEF
     Next
<1> QED
  BY <1>1, <1>2

\* Type correctness of the node and of its view of the server.
THEOREM TypeCorrect == Spec => []TypeOK
  BY TypeInit, TypeStep, PTL DEF Spec

-----------------------------------------------------------------------------
(* The inductive invariant *)

\* The invariant holds before the node has a session.
LEMMA InvInit == Init => NodeInv
  BY DEF Init, NodeInv, MainInv, IssuedInv, LoopInv, TaskInv, HeldInv, LostInv, Setup,
     Looping,
         Ended, Busy, InProcess, LoopsIdle, Issued, Dead

\* Setting a session up keeps the invariant.
LEMMA InvSetup ==
  ASSUME TypeOK, TypeOK', NodeInv, SetupNext
  PROVE  NodeInv'
<1> USE DEF TypeOK, ServerType, MainType, FlagType, GenerationType, LoopType, TaskType,
            NodeInv, MainInv, IssuedInv, LoopInv, TaskInv, HeldInv, LostInv, Setup,
            Looping, Ended, Busy, InProcess, LoopsIdle, Issued, Dead, Issue, Unissued,
            MaxUpdateRetries, MaxRegisterAttempts, Accepts, Authentic
<1>1. CASE LoadSession
  BY <1>1 DEF LoadSession, SetupStep, SetSession
<1>2. CASE SetupFails
  BY <1>2 DEF SetupFails, Terminate
<1>3. CASE RefreshUnchanged
  BY <1>3 DEF RefreshUnchanged, SetupStep
<1>4. CASE RefreshDiffers
  BY <1>4 DEF RefreshDiffers, SetupStep
<1>5. CASE UpdateRetry
  BY <1>5 DEF UpdateRetry, UpdateUnanswered, NextAttempt
<1>6. CASE UpdateFails
  BY <1>6 DEF UpdateFails, UpdateUnanswered, Terminate
<1>7. CASE UpdateUnauthorized
  BY <1>7 DEF UpdateUnauthorized, SetupStep
<1>8. CASE SaveRefreshed
  BY <1>8 DEF SaveRefreshed, SetupStep
<1>9. CASE RegisterFails
  BY <1>9 DEF RegisterFails, NextAttempt, Terminate
<1>10. CASE SaveRegistered
  BY <1>10 DEF SaveRegistered, SetupStep
<1>11. CASE SaveRegisteredFails
  BY <1>11 DEF SaveRegisteredFails, SetupStep, SetSession, Terminate
<1>12. ASSUME NEW s \in Session, UpdateAccepted(s) PROVE NodeInv'
  BY <1>12 DEF UpdateAccepted, SetupStep, SetSession
<1>13. ASSUME NEW s \in Session, RegisterAccepted(s) PROVE NodeInv'
  BY <1>13 DEF RegisterAccepted, SetupStep, SetSession
<1> QED
  BY <1>1, <1>2, <1>3, <1>4, <1>5, <1>6, <1>7, <1>8, <1>9, <1>10, <1>11, <1>12, <1>13
     DEF SetupNext

\* The heartbeat loop keeps the invariant.
LEMMA InvHeartbeat ==
  ASSUME TypeOK, TypeOK', NodeInv, HeartbeatNext
  PROVE  NodeInv'
<1> USE DEF TypeOK, ServerType, MainType, FlagType, GenerationType, LoopType, TaskType,
            NodeInv, MainInv, IssuedInv, LoopInv, TaskInv, HeldInv, LostInv, Setup,
            Looping, Ended, Busy, InProcess, LoopsIdle, Issued, Dead
<1>1. CASE HeartbeatCheck
  BY <1>1 DEF HeartbeatCheck
<1>2. CASE HeartbeatSend
  BY <1>2 DEF HeartbeatSend
<1>3. CASE HeartbeatSkip
  BY <1>3 DEF HeartbeatSkip, SignalFirstHeartbeat
<1>4. CASE HeartbeatAccepted
  BY <1>4 DEF HeartbeatAccepted, HeartbeatAnswered, SignalFirstHeartbeat
<1>5. CASE HeartbeatUnauthorized
  BY <1>5 DEF HeartbeatUnauthorized, HeartbeatAnswered, SignalFirstHeartbeat
<1>6. CASE HeartbeatError
  BY <1>6 DEF HeartbeatError, HeartbeatAnswered
<1> QED
  BY <1>1, <1>2, <1>3, <1>4, <1>5, <1>6 DEF HeartbeatNext

\* The poll loop keeps the invariant.
LEMMA InvPoll ==
  ASSUME TypeOK, TypeOK', NodeInv, PollNext
  PROVE  NodeInv'
<1> USE DEF TypeOK, ServerType, MainType, FlagType, GenerationType, LoopType, TaskType,
            NodeInv, MainInv, IssuedInv, LoopInv, TaskInv, HeldInv, LostInv, Setup,
            Looping, Ended, Busy, InProcess, LoopsIdle, Issued, Dead
<1>1. CASE PollStop
  BY <1>1 DEF PollStop
<1>2. CASE PollSend
  BY <1>2 DEF PollSend
<1>3. CASE PollNoTask
  BY <1>3 DEF PollNoTask, PollAnswered
<1>4. CASE PollUnauthorized
  BY <1>4 DEF PollUnauthorized, PollAnswered
<1>5. ASSUME NEW l \in Lease, PollTask(l) PROVE NodeInv'
  BY <1>5 DEF PollTask, PollAnswered
<1>6. ASSUME NEW l \in Lease, AcquirePermit(l) PROVE NodeInv'
  BY <1>6 DEF AcquirePermit
<1> QED
  BY <1>1, <1>2, <1>3, <1>4, <1>5, <1>6 DEF PollNext

\* A task keeps the invariant.
LEMMA InvTask ==
  ASSUME TypeOK, TypeOK', NodeInv, NEW l \in Lease, TaskNext(l)
  PROVE  NodeInv'
<1> USE DEF TypeOK, ServerType, MainType, FlagType, GenerationType, LoopType, TaskType,
            NodeInv, MainInv, IssuedInv, LoopInv, TaskInv, HeldInv, LostInv, Setup,
            Looping, Ended, Busy, InProcess, LoopsIdle, Issued, Dead, Authentic
<1>1. CASE ExecuteTask(l)
  BY <1>1 DEF ExecuteTask
<1>2. CASE ServeTask(l)
  <2>1. ServeComplete(l, session[task_gen[l]], exec_token[task_gen[l]])
    BY <1>2 DEF ServeTask, ExecutorToken
  <2>2. task_reply'[l] = "unauthorized" => Dead(session[task_gen[l]])
    <3>1. Issued(session[task_gen[l]]) /\ exec_token[task_gen[l]] = session[task_gen[l]]
      BY <2>1 DEF ServeComplete
    <3> QED
      BY <2>1, <3>1 DEF ServeComplete, CompletionAuthentic, SessionState
  <2> QED
    BY <2>1, <2>2 DEF ServeComplete
<1>3. CASE CompleteEnds(l)
  BY <1>3 DEF CompleteEnds, FinishTask
<1>4. CASE CompleteUnauthorized(l)
  BY <1>4 DEF CompleteUnauthorized, FinishTask, LoseSession
<1>5. CASE CompleteRetry(l)
  BY <1>5 DEF CompleteRetry
<1>6. CASE TaskPanics(l)
  BY <1>6 DEF TaskPanics, FinishTask
<1> QED
  BY <1>1, <1>2, <1>3, <1>4, <1>5, <1>6 DEF TaskNext

\* Main keeps the invariant.
LEMMA InvMain ==
  ASSUME TypeOK, TypeOK', NodeInv, MainNext
  PROVE  NodeInv'
<1> USE DEF TypeOK, ServerType, MainType, FlagType, GenerationType, LoopType, TaskType,
            NodeInv, MainInv, IssuedInv, LoopInv, TaskInv, HeldInv, LostInv, Setup,
            Looping, Ended, Busy, InProcess, LoopsIdle, Issued, Dead
<1>1. CASE StartGeneration
  BY <1>1 DEF StartGeneration
<1>2. CASE FirstHeartbeatSeen
  BY <1>2 DEF FirstHeartbeatSeen, AfterFirstHeartbeat
<1>3. CASE FirstHeartbeatTimeout
  BY <1>3 DEF FirstHeartbeatTimeout, AfterFirstHeartbeat
<1>4. CASE TakeShutdown
  BY <1>4 DEF TakeShutdown, StopLoops
<1>5. CASE TakeSessionLost
  BY <1>5 DEF TakeSessionLost, StopLoops
<1>6. CASE JoinLoops
  BY <1>6 DEF JoinLoops, LoopsJoined, Terminate
<1>7. CASE Recover
  BY <1>7 DEF Recover, Recovers, Generation, MaxGeneration
<1>8. CASE RecoverExhausted
  BY <1>8 DEF RecoverExhausted, Terminate
<1>9. CASE ClearFails
  BY <1>9 DEF ClearFails, Terminate
<1> QED
  BY <1>1, <1>2, <1>3, <1>4, <1>5, <1>6, <1>7, <1>8, <1>9 DEF MainNext

\* The server and the outside world keep the invariant.
LEMMA InvEnvironment ==
  ASSUME TypeOK, TypeOK', NodeInv, ServeHeartbeat \/ ServePoll \/ (\E s \in Session :
         Revoke(s)) \/ Signal \/ Crash \/ Restart
  PROVE  NodeInv'
<1> USE DEF TypeOK, ServerType, MainType, FlagType, GenerationType, LoopType, TaskType,
            NodeInv, MainInv, IssuedInv, LoopInv, TaskInv, HeldInv, LostInv, Setup,
            Looping, Ended, Busy, InProcess, LoopsIdle, Issued, Dead, Accepts, Authentic
<1>1. CASE ServeHeartbeat
  <2>1. hb_reply' = "unauthorized" => Dead(session[Gen])
    <3>1. session[Gen] \in Session /\ Issued(session[Gen])
      BY <1>1 DEF ServeHeartbeat
    <3> QED
      BY <1>1, <3>1 DEF ServeHeartbeat, SessionState
  <2> QED
    BY <1>1, <2>1 DEF ServeHeartbeat
<1>2. CASE ServePoll
  <2>1. /\ poll_reply' = "unauthorized" => Dead(session[Gen])
        /\ \A k \in Lease : task_pc[k] \notin {"offered", "held"}
    <3>1. session[Gen] \in Session /\ Issued(session[Gen])
      BY <1>2 DEF ServePoll
    <3> QED
      BY <1>2, <3>1 DEF ServePoll, SessionState
  <2>2. MainInv' /\ IssuedInv' /\ LostInv'
    BY <1>2 DEF ServePoll
  <2>3. LoopInv'
    BY <1>2, <2>1 DEF ServePoll
  <2>4. TaskInv' /\ HeldInv'
    BY <1>2, <2>1 DEF ServePoll
  <2> QED
    BY <2>2, <2>3, <2>4
<1>3. ASSUME NEW s \in Session, Revoke(s) PROVE NodeInv'
  BY <1>3 DEF Revoke
<1>4. CASE Signal
  BY <1>4 DEF Signal
<1>5. CASE Crash
  BY <1>5 DEF Crash, Terminate
<1>6. CASE Restart
  BY <1>6 DEF Restart
<1> QED
  BY <1>1, <1>2, <1>3, <1>4, <1>5, <1>6

\* Every step of the composition keeps the invariant.
LEMMA InvStep == TypeOK /\ NodeInv /\ [Next]_vars => NodeInv'
<1> SUFFICES ASSUME TypeOK, NodeInv, [Next]_vars PROVE NodeInv'
  OBVIOUS
<1>1. TypeOK'
  BY TypeStep
<1>2. CASE UNCHANGED vars
  BY <1>2 DEF vars, NodeInv, MainInv, IssuedInv, LoopInv, TaskInv, HeldInv, LostInv,
              LoopsIdle, Issued, Dead
<1>3. CASE Next
  BY <1>1, <1>3, InvSetup, InvHeartbeat, InvPoll, InvTask, InvMain, InvEnvironment DEF
     Next
<1> QED
  BY <1>2, <1>3

\* The invariant every safety theorem below rests on.
THEOREM NodeInvariant == Spec => []NodeInv
  BY TypeCorrect, InvInit, InvStep, PTL DEF Spec

-----------------------------------------------------------------------------
(* Safety *)

\* No request ever mixes two sessions, in whatever order main sets tokens, the
\* loops send and old tasks finish.
THEOREM CredentialsAlwaysPaired == Spec => []CredentialsPaired
<1>1. TypeOK /\ NodeInv => CredentialsPaired
  BY DEF TypeOK, MainType, LoopType, GenerationType, NodeInv, MainInv, LoopInv, TaskInv,
     CredentialsPaired, Authentic,
         ExecutorToken, Setup, Looping, Ended, LoopsIdle, Busy
<1> QED
  BY <1>1, TypeCorrect, NodeInvariant, PTL

\* A result always goes out under the session its lease was granted to.
THEOREM ResultsUnderLeaseSession == Spec => []ResultUnderLeaseSession
<1>1. NodeInv => ResultUnderLeaseSession
  BY DEF NodeInv, TaskInv, ResultUnderLeaseSession
<1> QED
  BY <1>1, NodeInvariant, PTL

\* The 401 that ends a generation is about that generation's own session.
THEOREM LostSessionsAreDead == Spec => []LostSessionIsDead
<1>1. NodeInv => LostSessionIsDead
  BY DEF NodeInv, LostInv, LostSessionIsDead, Dead
<1> QED
  BY <1>1, NodeInvariant, PTL

\* Sessions are set up and replaced only while no loop is alive.
THEOREM SetupAlwaysAlone == Spec => []SetupRunsAlone
<1>1. NodeInv => SetupRunsAlone
  BY DEF NodeInv, MainInv, SetupRunsAlone
<1> QED
  BY <1>1, NodeInvariant, PTL

\* A process killed while it runs finds its own session on disk.
THEOREM SessionsOnDisk == Spec => []RunningSessionOnDisk
<1>1. NodeInv => RunningSessionOnDisk
  BY DEF NodeInv, MainInv, RunningSessionOnDisk
<1> QED
  BY <1>1, NodeInvariant, PTL

\* The poll loop never holds a second lease, nor one of another session.
THEOREM OneLeaseHeld == Spec => []AtMostOneLeaseHeld
<1>1. NodeInv => AtMostOneLeaseHeld
  BY DEF NodeInv, TaskInv, HeldInv, AtMostOneLeaseHeld, Waiting
<1> QED
  BY <1>1, NodeInvariant, PTL

\* Neither recovery nor a refresh throws away a session that is still good.
THEOREM OnlyDeadSessionsForgotten == Spec => OnlyDeadSessionForgotten
<1> DEFINE Forgets == session_file # NoSession /\ session_file' # session_file
<1>1. ASSUME TypeOK, NodeInv, [Next]_vars, Forgets
      PROVE  session_state[session_file] # "active"
  <2>1. CASE Recover
    <3>1. session_lost[Gen] /\ session_file = session[Gen]
      BY <1>1, <2>1 DEF Recover, Recovers, NodeInv, MainInv
    <3>2. Dead(session[Gen])
      BY <1>1, <3>1 DEF NodeInv, LostInv, TypeOK, MainType
    <3> QED
      BY <3>1, <3>2 DEF Dead
  <2>2. CASE SaveRefreshed
    BY <1>1, <2>2 DEF SaveRefreshed, NodeInv, MainInv, Dead
  <2>3. CASE SaveRegistered
    BY <1>1, <2>3 DEF SaveRegistered, NodeInv, MainInv
  <2>4. CASE ~Recover /\ ~SaveRefreshed /\ ~SaveRegistered
    <3>1. ~SetupNext
      BY <1>1, <2>4 DEF SetupNext, LoadSession, SetupFails, RefreshUnchanged,
                        RefreshDiffers, UpdateRetry, UpdateFails, UpdateUnanswered,
                        UpdateUnauthorized, RegisterFails, SaveRegisteredFails,
                        UpdateAccepted, RegisterAccepted
    <3>2. ~HeartbeatNext
      BY <1>1 DEF HeartbeatNext, HeartbeatCheck, HeartbeatSend, HeartbeatSkip,
                  HeartbeatAccepted, HeartbeatUnauthorized, HeartbeatError,
                  HeartbeatAnswered
    <3>3. ~PollNext
      BY <1>1 DEF PollNext, PollStop, PollSend, PollNoTask, PollUnauthorized, PollTask,
                  AcquirePermit, PollAnswered
    <3>4. ~MainNext
      BY <1>1, <2>4 DEF MainNext, StartGeneration, FirstHeartbeatSeen,
                        FirstHeartbeatTimeout, AfterFirstHeartbeat, TakeShutdown,
                        TakeSessionLost, StopLoops, JoinLoops, RecoverExhausted,
                        ClearFails
    <3>5. ~(\E l \in Lease : TaskNext(l))
      BY <1>1 DEF TaskNext, ExecuteTask, ServeTask, ServeComplete, CompleteEnds,
                  CompleteUnauthorized, CompleteRetry, TaskPanics, FinishTask
    <3>6. ~(\/ ServeHeartbeat \/ ServePoll \/ (\E s \in Session : Revoke(s))
            \/ Signal \/ Crash \/ Restart)
      BY <1>1 DEF ServeHeartbeat, ServePoll, Revoke, Signal, Crash, Restart
    <3>7. ~(UNCHANGED vars)
      BY <1>1 DEF vars
    <3> QED
      BY <1>1, <3>1, <3>2, <3>3, <3>4, <3>5, <3>6, <3>7 DEF Next
  <2> QED
    BY <2>1, <2>2, <2>3, <2>4
<1>2. TypeOK /\ NodeInv /\ [Next]_vars
        => [Forgets => session_state[session_file] # "active"]_vars
  BY <1>1
<1> QED
  BY <1>2, TypeCorrect, NodeInvariant, PTL DEF Spec, OnlyDeadSessionForgotten

-----------------------------------------------------------------------------
(* The semaphore *)

\* The tasks of a generation can be counted.
LEMMA RunningFinite ==
  ASSUME NEW g \in Generation
  PROVE  /\ IsFiniteSet(Running(g))
         /\ Cardinality(Running(g)) \in Nat
<1>1. Running(g) \subseteq Lease
  BY DEF Running
<1> QED
  BY <1>1, FS_Subset, FS_CardinalityType

\* A step that neither spawns nor ends a task nor touches a semaphore.
LEMMA PermitsFrame ==
  ASSUME PermitsBalanced, UNCHANGED <<permits, task_gen>>,
         \A l \in Lease : task_pc'[l] \in Busy <=> task_pc[l] \in Busy
  PROVE  PermitsBalanced'
<1>1. \A g \in Generation : Running(g)' = Running(g)
  BY DEF Running
<1> QED
  BY <1>1 DEF PermitsBalanced

\* The end of the process gives every permit back.
LEMMA PermitsTerminate ==
  ASSUME TypeOK, NEW how \in Ended, Terminate(how)
  PROVE  PermitsBalanced'
<1>1. \A g \in Generation : Running(g)' = {}
  BY DEF Running, Terminate, TypeOK, TaskType, TaskPc, InProcess, Busy
<1> QED
  BY <1>1, FS_EmptySet DEF PermitsBalanced, Terminate

\* A permit goes out with each task spawned ...
LEMMA PermitsAcquire ==
  ASSUME TypeOK, PermitsBalanced, NEW l \in Lease, AcquirePermit(l)
  PROVE  PermitsBalanced'
<1> SUFFICES ASSUME NEW g \in Generation
             PROVE  permits'[g] + Cardinality(Running(g)') = MaxConcurrent
  BY DEF PermitsBalanced
<1>1. permits[g] + Cardinality(Running(g)) = MaxConcurrent
  BY DEF PermitsBalanced
<1>2. IsFiniteSet(Running(g)) /\ Cardinality(Running(g)) \in Nat /\ l \notin Running(g)
  BY RunningFinite DEF AcquirePermit, Running, Busy
<1>3. CASE g = Gen
  <2>1. Running(g)' = Running(g) \cup {l}
    BY <1>3 DEF AcquirePermit, Running, Busy, TypeOK, TaskType, MainType
  <2>2. Cardinality(Running(g)') = Cardinality(Running(g)) + 1
    BY <1>2, <2>1, FS_AddElement
  <2> QED
    BY <1>1, <1>2, <1>3, <2>2 DEF AcquirePermit, TypeOK, GenerationType, MainType
<1>4. CASE g # Gen
  <2>1. Running(g)' = Running(g)
    BY <1>4 DEF AcquirePermit, Running, Busy, TypeOK, TaskType, MainType
  <2> QED
    BY <1>1, <1>4, <2>1 DEF AcquirePermit, TypeOK, GenerationType, MainType
<1> QED
  BY <1>3, <1>4

\* ... and comes back with it, to the semaphore of the task's own generation.
LEMMA PermitsFinish ==
  ASSUME TypeOK, PermitsBalanced, NEW l \in Lease, task_pc[l] \in Busy, FinishTask(l)
  PROVE  PermitsBalanced'
<1> SUFFICES ASSUME NEW g \in Generation
             PROVE  permits'[g] + Cardinality(Running(g)') = MaxConcurrent
  BY DEF PermitsBalanced
<1>1. permits[g] + Cardinality(Running(g)) = MaxConcurrent
  BY DEF PermitsBalanced
<1>2. IsFiniteSet(Running(g)) /\ Cardinality(Running(g)) \in Nat
  BY RunningFinite
<1>3. CASE g = task_gen[l]
  <2>1. l \in Running(g) /\ Running(g)' = Running(g) \ {l}
    BY <1>3 DEF FinishTask, Running, Busy, TypeOK, TaskType
  <2>2. Cardinality(Running(g)') = Cardinality(Running(g)) - 1
    BY <1>2, <2>1, FS_RemoveElement
  <2> QED
    BY <1>1, <1>2, <1>3, <2>2 DEF FinishTask, TypeOK, GenerationType, TaskType
<1>4. CASE g # task_gen[l]
  <2>1. Running(g)' = Running(g)
    BY <1>4 DEF FinishTask, Running, Busy, TypeOK, TaskType
  <2> QED
    BY <1>1, <1>4, <2>1 DEF FinishTask, TypeOK, GenerationType, TaskType
<1> QED
  BY <1>3, <1>4

\* A generation starts with a full semaphore, and has no task yet.
LEMMA PermitsStart ==
  ASSUME TypeOK, NodeInv, PermitsBalanced, main_pc = "first_hb", AfterFirstHeartbeat
  PROVE  PermitsBalanced'
<1>1. \A g \in Generation : Running(g)' = Running(g)
  BY DEF AfterFirstHeartbeat, Running
<1>2. Running(Gen) = {}
  BY DEF Running, NodeInv, TaskInv
<1>3. Gen \in Generation /\ Cardinality(Running(Gen)) = 0
  BY <1>2, FS_EmptySet DEF TypeOK, MainType
<1>4. permits[Gen] = MaxConcurrent
  BY <1>3 DEF PermitsBalanced, TypeOK, GenerationType
<1>5. permits' = permits
  BY <1>4 DEF AfterFirstHeartbeat, TypeOK, GenerationType
<1> QED
  BY <1>1, <1>5 DEF PermitsBalanced

\* Every step keeps the balance.
LEMMA PermitsStep ==
  ASSUME TypeOK, NodeInv, PermitsBalanced, [Next]_vars
  PROVE  PermitsBalanced'
<1> USE DEF TypeOK, TaskType
<1>1. CASE UNCHANGED vars
  BY <1>1, PermitsFrame DEF vars
<1>2. CASE SetupNext
  <2>1. CASE \E how \in Ended : Terminate(how)
    BY <2>1, PermitsTerminate
  <2>2. CASE ~(\E how \in Ended : Terminate(how))
    <3>1. UNCHANGED <<permits, task_gen, task_pc>>
      BY <1>2, <2>2 DEF SetupNext, LoadSession, SetupFails, RefreshUnchanged,
                        RefreshDiffers, UpdateRetry, UpdateFails, UpdateUnauthorized,
                        RegisterFails, SaveRegisteredFails, UpdateAccepted,
                        RegisterAccepted, SaveRefreshed, SaveRegistered, SetupStep,
                        NextAttempt, Ended
    <3> QED
      BY <3>1, PermitsFrame
  <2> QED
    BY <2>1, <2>2
<1>3. CASE HeartbeatNext
  <2>1. UNCHANGED <<permits, task_gen, task_pc>>
    BY <1>3 DEF HeartbeatNext, HeartbeatCheck, HeartbeatSend, HeartbeatSkip,
                HeartbeatAccepted, HeartbeatUnauthorized, HeartbeatError,
                HeartbeatAnswered
  <2> QED
    BY <2>1, PermitsFrame
<1>4. CASE PollNext
  <2>1. CASE \E l \in Lease : AcquirePermit(l)
    BY <2>1, PermitsAcquire
  <2>2. CASE \E l \in Lease : PollTask(l)
    BY <2>2, PermitsFrame DEF PollTask, PollAnswered, Busy
  <2>3. CASE PollStop \/ PollSend \/ PollNoTask \/ PollUnauthorized
    <3>1. UNCHANGED <<permits, task_gen, task_pc>>
      BY <2>3 DEF PollStop, PollSend, PollNoTask, PollUnauthorized, PollAnswered
    <3> QED
      BY <3>1, PermitsFrame
  <2> QED
    BY <1>4, <2>1, <2>2, <2>3 DEF PollNext
<1>5. ASSUME NEW l \in Lease, TaskNext(l) PROVE PermitsBalanced'
  <2>1. CASE ExecuteTask(l)
    BY <2>1, PermitsFrame DEF ExecuteTask, Busy
  <2>2. CASE CompleteEnds(l) \/ CompleteUnauthorized(l)
    <3>1. task_reply[l] # "none"
      BY <2>2 DEF CompleteEnds, CompleteUnauthorized
    <3>2. task_pc[l] \in Busy
      BY <3>1 DEF NodeInv, TaskInv, Busy
    <3> QED
      BY <2>2, <3>2, PermitsFinish DEF CompleteEnds, CompleteUnauthorized
  <2>3. CASE ServeTask(l) \/ CompleteRetry(l)
    <3>1. UNCHANGED <<permits, task_gen, task_pc>>
      BY <2>3 DEF ServeTask, ServeComplete, CompleteRetry
    <3> QED
      BY <3>1, PermitsFrame
  <2>4. CASE TaskPanics(l)
    BY <2>4, PermitsFinish DEF TaskPanics, Busy
  <2> QED
    BY <1>5, <2>1, <2>2, <2>3, <2>4 DEF TaskNext
<1>6. CASE MainNext
  <2>1. CASE FirstHeartbeatSeen \/ FirstHeartbeatTimeout
    BY <2>1, PermitsStart DEF FirstHeartbeatSeen, FirstHeartbeatTimeout
  <2>2. CASE \E how \in Ended : Terminate(how)
    BY <2>2, PermitsTerminate
  <2>3. CASE /\ ~(FirstHeartbeatSeen \/ FirstHeartbeatTimeout)
             /\ ~(\E how \in Ended : Terminate(how))
    <3>1. UNCHANGED <<permits, task_gen, task_pc>>
      BY <1>6, <2>3 DEF MainNext, StartGeneration, TakeShutdown, TakeSessionLost,
                        StopLoops, JoinLoops, Recover, Recovers, RecoverExhausted,
                        ClearFails, Ended
    <3> QED
      BY <3>1, PermitsFrame
  <2> QED
    BY <2>1, <2>2, <2>3
<1>7. CASE ServeHeartbeat \/ (\E s \in Session : Revoke(s)) \/ Signal \/ Restart
  <2>1. UNCHANGED <<permits, task_gen, task_pc>>
    BY <1>7 DEF ServeHeartbeat, Revoke, Signal, Restart
  <2> QED
    BY <2>1, PermitsFrame
<1>8. CASE ServePoll
  <2>1. poll_pc = "sent" /\ poll_reply = "none"
    BY <1>8 DEF ServePoll
  <2>2. \A l \in Lease : lease_holder[l] = NoSession => task_pc[l] \notin Busy
    BY DEF NodeInv, TaskInv
  <2> QED
    BY <1>8, <2>2, PermitsFrame DEF ServePoll, Busy
<1>9. CASE Crash
  BY <1>9, PermitsTerminate DEF Crash, Ended
<1> QED
  BY <1>1, <1>2, <1>3, <1>4, <1>5, <1>6, <1>7, <1>8, <1>9 DEF Next

\* The permits of every generation balance its running tasks.
THEOREM PermitsAlwaysBalanced == Spec => []PermitsBalanced
<1>1. Init => PermitsBalanced
  <2> SUFFICES ASSUME Init PROVE PermitsBalanced
    OBVIOUS
  <2>1. \A g \in Generation : Running(g) = {}
    BY DEF Running, Init, Busy
  <2> QED
    BY <2>1, FS_EmptySet DEF PermitsBalanced, Init
<1>2. TypeOK /\ NodeInv /\ PermitsBalanced /\ [Next]_vars => PermitsBalanced'
  BY PermitsStep
<1> QED
  BY <1>1, <1>2, TypeCorrect, NodeInvariant, PTL DEF Spec

-----------------------------------------------------------------------------
(* Generations have sessions of their own *)

\* A step that leaves the sessions of the generations alone.
LEMMA ApartFrame ==
  ASSUME ApartInv, UNCHANGED <<session, reregister_count>>,
         main_pc' \notin Ended \cup {"load"} \/ UNCHANGED <<main_pc, session_file>>
  PROVE  ApartInv'
BY DEF ApartInv

\* The process ends with all its sessions.
LEMMA ApartTerminate ==
  ASSUME NEW how \in Ended, Terminate(how)
  PROVE  ApartInv'
BY DEF ApartInv, Terminate, Ended

\* A session the server has just issued is no other generation's.
LEMMA ApartIssued ==
  ASSUME TypeOK, NodeInv, ApartInv, NEW s \in Unissued \cup {NoSession},
         session' = [session EXCEPT ![Gen] = s],
         main_pc' \notin Ended \cup {"load"}, UNCHANGED reregister_count
  PROVE  ApartInv'
<1>1. Gen \in Generation /\ session \in [Generation -> SessionOrNone]
  BY DEF TypeOK, MainType, GenerationType
<1>2. \A g \in Generation : session[g] # NoSession => session[g] # s
  BY DEF NodeInv, IssuedInv, Issued, Unissued
<1> QED
  BY <1>1, <1>2 DEF ApartInv, Generation

\* The session of the file is loaded in a first generation only.
LEMMA ApartLoad ==
  ASSUME TypeOK, ApartInv, LoadSession
  PROVE  ApartInv'
<1>1. Gen \in Generation /\ session \in [Generation -> SessionOrNone]
  BY DEF TypeOK, MainType, GenerationType
<1>2. CASE session_file = NoSession
  BY <1>2, ApartFrame DEF LoadSession, SetupStep, Ended
<1>3. CASE session_file # NoSession
  <2>1. Gen = 1
    BY <1>1, <1>3 DEF LoadSession, ApartInv, Generation, MaxGeneration
  <2>2. \A g \in Generation : g # 1 => session[g] = NoSession
    BY <2>1 DEF ApartInv, Generation, MaxGeneration
  <2>3. /\ session' = [session EXCEPT ![1] = session_file]
        /\ main_pc' = "refresh" /\ UNCHANGED reregister_count
    BY <1>3, <2>1 DEF LoadSession, SetupStep, SetSession
  <2> QED
    BY <1>1, <2>1, <2>2, <2>3 DEF ApartInv, Generation, Ended
<1> QED
  BY <1>2, <1>3

\* Setting a session up keeps the generations apart.
LEMMA ApartSetup ==
  ASSUME TypeOK, NodeInv, ApartInv, SetupNext
  PROVE  ApartInv'
<1>1. CASE \E how \in Ended : Terminate(how)
  BY <1>1, ApartTerminate
<1>2. CASE LoadSession
  BY <1>2, ApartLoad
<1>3. CASE \E s \in Session : UpdateAccepted(s) \/ RegisterAccepted(s)
  <2>1. PICK s \in Unissued :
           /\ session' = [session EXCEPT ![Gen] = s] /\ UNCHANGED reregister_count
           /\ main_pc' \notin Ended \cup {"load"}
    BY <1>3 DEF UpdateAccepted, RegisterAccepted, SetupStep, SetSession, Ended
  <2> QED
    BY <2>1, ApartIssued
<1>4. CASE SaveRegisteredFails /\ ~(\E how \in Ended : Terminate(how))
  <2>1. /\ session' = [session EXCEPT ![Gen] = NoSession] /\ UNCHANGED reregister_count
        /\ main_pc' \notin Ended \cup {"load"}
    BY <1>4 DEF SaveRegisteredFails, SetupStep, SetSession, Ended
  <2> QED
    BY <2>1, ApartIssued
<1>5. CASE \/ RefreshUnchanged \/ RefreshDiffers \/ UpdateRetry \/ UpdateUnauthorized
           \/ SaveRefreshed \/ SaveRegistered
           \/ RegisterFails /\ ~(\E how \in Ended : Terminate(how))
  <2>1. /\ UNCHANGED <<session, reregister_count>>
        /\ main_pc' \notin Ended \cup {"load"} \/ UNCHANGED <<main_pc, session_file>>
    BY <1>5 DEF RefreshUnchanged, RefreshDiffers, UpdateRetry, UpdateUnanswered,
                UpdateUnauthorized, SaveRefreshed, SaveRegistered, RegisterFails, SetupStep,
                NextAttempt, Ended
  <2> QED
    BY <2>1, ApartFrame
<1>6. SetupFails \/ UpdateFails => \E how \in Ended : Terminate(how)
  BY DEF SetupFails, UpdateFails, Ended
<1> QED
  BY <1>1, <1>2, <1>3, <1>4, <1>5, <1>6 DEF SetupNext

\* So does main, which forgets the session before it starts the next generation.
LEMMA ApartMain ==
  ASSUME TypeOK, NodeInv, ApartInv, MainNext \/ Crash \/ Restart
  PROVE  ApartInv'
<1>1. CASE \E how \in Ended : Terminate(how)
  BY <1>1, ApartTerminate
<1>2. CASE Recover
  <2>1. /\ main_pc' = "load" /\ session_file' = NoSession /\ session' = session
        /\ reregister_count' = reregister_count + 1
    BY <1>2 DEF Recover, Recovers
  <2>2. \A g \in Generation : g > Gen' => g > Gen
    BY <2>1 DEF TypeOK, MainType, Generation, MaxGeneration
  <2> QED
    BY <2>1, <2>2 DEF ApartInv, Ended
<1>3. CASE Restart
  <2>1. /\ main_pc' = "load" /\ session' = session /\ reregister_count' = 0
        /\ main_pc \in Ended
    BY <1>3 DEF Restart
  <2>2. \A g \in Generation : session[g] = NoSession
    BY <2>1 DEF ApartInv
  <2> QED
    BY <2>1, <2>2 DEF ApartInv, Ended
<1>4. CASE \/ StartGeneration \/ FirstHeartbeatSeen \/ FirstHeartbeatTimeout
           \/ TakeShutdown \/ TakeSessionLost
           \/ JoinLoops /\ ~(\E how \in Ended : Terminate(how))
  <2>1. UNCHANGED <<session, reregister_count>> /\ main_pc' \notin Ended \cup {"load"}
    BY <1>4 DEF StartGeneration, FirstHeartbeatSeen, FirstHeartbeatTimeout,
                AfterFirstHeartbeat, TakeShutdown, TakeSessionLost, StopLoops, JoinLoops, Ended
  <2> QED
    BY <2>1, ApartFrame
<1>5. RecoverExhausted \/ ClearFails \/ Crash => \E how \in Ended : Terminate(how)
  BY DEF RecoverExhausted, ClearFails, Crash, Ended
<1> QED
  BY <1>1, <1>2, <1>3, <1>4, <1>5 DEF MainNext

\* Every step keeps the generations apart.
LEMMA ApartStep == TypeOK /\ NodeInv /\ ApartInv /\ [Next]_vars => ApartInv'
<1> SUFFICES ASSUME TypeOK, NodeInv, ApartInv, [Next]_vars PROVE ApartInv'
  OBVIOUS
<1>1. CASE SetupNext
  BY <1>1, ApartSetup
<1>2. CASE MainNext \/ Crash \/ Restart
  BY <1>2, ApartMain
<1>3. CASE HeartbeatNext \/ PollNext
  <2>1. UNCHANGED <<session, reregister_count, main_pc, session_file>>
    BY <1>3 DEF HeartbeatNext, HeartbeatCheck, HeartbeatSend, HeartbeatSkip,
                HeartbeatAccepted, HeartbeatUnauthorized, HeartbeatError, HeartbeatAnswered,
                PollNext, PollStop, PollSend, PollNoTask, PollUnauthorized, PollTask,
                AcquirePermit, PollAnswered
  <2> QED
    BY <2>1, ApartFrame
<1>4. CASE \E l \in Lease : TaskNext(l)
  <2>1. UNCHANGED <<session, reregister_count, main_pc, session_file>>
    BY <1>4 DEF TaskNext, ExecuteTask, TaskPanics, ServeTask, ServeComplete, CompleteEnds,
                CompleteUnauthorized, CompleteRetry, FinishTask
  <2> QED
    BY <2>1, ApartFrame
<1>5. CASE \/ ServeHeartbeat \/ ServePoll \/ (\E s \in Session : Revoke(s)) \/ Signal
           \/ UNCHANGED vars
  <2>1. UNCHANGED <<session, reregister_count, main_pc, session_file>>
    BY <1>5 DEF ServeHeartbeat, ServePoll, Revoke, Signal, vars
  <2> QED
    BY <2>1, ApartFrame
<1> QED
  BY <1>1, <1>2, <1>3, <1>4, <1>5 DEF Next

\* No two generations of a process ever share a session.
THEOREM GenerationsApart == Spec => []ApartInv
<1>1. Init => ApartInv
  BY DEF Init, ApartInv
<1> QED
  BY <1>1, ApartStep, TypeCorrect, NodeInvariant, PTL DEF Spec

-----------------------------------------------------------------------------
(* The node implements LeaseLedger *)

\* A step of LeaseLedger or none.
LedgerStep == [LL!Next]_<<lease_holder, StageOf>>

\* A step that changes neither the grants nor any stage.
LEMMA LedgerFrame ==
  ASSUME UNCHANGED lease_holder,
         \A l \in Lease : Stage(task_pc'[l]) = Stage(task_pc[l])
  PROVE  LedgerStep
<1>1. StageOf' = StageOf
  BY DEF StageOf
<1> QED
  BY <1>1 DEF LedgerStep

\* One lease moves on.
LEMMA StageMoves ==
  ASSUME TypeOK, NEW l \in Lease, NEW pc, task_pc' = [task_pc EXCEPT ![l] = pc]
  PROVE  StageOf' = [StageOf EXCEPT ![l] = Stage(pc)]
BY DEF StageOf, TypeOK, TaskType

\* The end of the process drops what the node has in hand.
LEMMA LedgerTerminate ==
  ASSUME TypeOK, NEW how \in Ended, Terminate(how), UNCHANGED lease_holder
  PROVE  LedgerStep
<1>1. ASSUME NEW l \in Lease
      PROVE  Stage(task_pc'[l])
               = IF Stage(task_pc[l]) \in LL!InHand THEN "dropped" ELSE Stage(task_pc[l])
  <2>1. task_pc'[l] = IF task_pc[l] \in InProcess THEN "dropped" ELSE task_pc[l]
    BY DEF Terminate
  <2>2. task_pc[l] \in TaskPc
    BY DEF TypeOK, TaskType
  <2> QED
    BY <2>1, <2>2 DEF Stage, LL!InHand, InProcess, Busy, TaskPc
<1>2. StageOf' = [l \in Lease |->
                    IF StageOf[l] \in LL!InHand THEN "dropped" ELSE StageOf[l]]
  BY <1>1 DEF StageOf
<1> QED
  BY <1>2 DEF LedgerStep, LL!Next, LL!ProcessEnds

\* A lease granted to the loop that polled is the only one that waits.
LEMMA LedgerGrant ==
  ASSUME TypeOK, NodeInv, ServePoll
  PROVE  LedgerStep
<1>1. CASE UNCHANGED <<lease_holder, task_pc>>
  BY <1>1, LedgerFrame
<1>2. CASE ~UNCHANGED <<lease_holder, task_pc>>
  <2>1. /\ poll_pc = "sent" /\ poll_reply = "none"
        /\ Accepts(session[Gen], poll_token)
    BY <1>2 DEF ServePoll
  <2>2. PICK l \in Lease :
          /\ lease_holder[l] = NoSession
          /\ lease_holder' = [lease_holder EXCEPT ![l] = session[Gen]]
          /\ task_pc' = [task_pc EXCEPT ![l] = "offered"] \/ UNCHANGED task_pc
    BY <1>2 DEF ServePoll
  <2>3. session[Gen] \in Session
    BY <2>1 DEF Accepts, Authentic
  <2>4. \A k \in Lease : StageOf[k] # "waiting"
    <3>1. \A k \in Lease : task_pc[k] \in TaskPc /\ task_pc[k] \notin {"offered", "held"}
      BY <2>1 DEF NodeInv, TaskInv, TypeOK, TaskType
    <3> QED
      BY <3>1 DEF StageOf, Stage, TaskPc, InProcess, Busy
  <2>5. StageOf' = [StageOf EXCEPT ![l] = "waiting"] \/ UNCHANGED StageOf
    <3>1. CASE task_pc' = [task_pc EXCEPT ![l] = "offered"]
      BY <3>1, StageMoves DEF Stage
    <3>2. CASE UNCHANGED task_pc
      BY <3>2 DEF StageOf
    <3> QED
      BY <2>2, <3>1, <3>2
  <2>6. LL!Grant(l, session[Gen])
    BY <2>2, <2>4, <2>5 DEF LL!Grant
  <2> QED
    BY <2>3, <2>6 DEF LedgerStep, LL!Next
<1> QED
  BY <1>1, <1>2

\* The tasks that work for the session of a generation are its own: they are counted by
\* its semaphore.
LEMMA WorkingIsRunning ==
  ASSUME TypeOK, NodeInv, ApartInv, NEW g \in Generation, session[g] # NoSession
  PROVE  LL!Working(session[g]) \subseteq Running(g)
<1> SUFFICES ASSUME NEW l \in LL!Working(session[g])
             PROVE  l \in Running(g)
  OBVIOUS
<1>1. l \in Lease /\ lease_holder[l] = session[g] /\ Stage(task_pc[l]) = "working"
  BY DEF LL!Working, StageOf
<1>2. task_pc[l] \in Busy
  BY <1>1 DEF Stage, TypeOK, TaskType, TaskPc, InProcess, Busy
<1>3. task_gen[l] \in Generation /\ lease_holder[l] = session[task_gen[l]]
  BY <1>1, <1>2 DEF NodeInv, TaskInv, TypeOK, TaskType
<1>4. task_gen[l] = g
  BY <1>1, <1>3 DEF ApartInv
<1> QED
  BY <1>1, <1>2, <1>4 DEF Running

\* A permit of the generation is room in its session.
LEMMA LedgerStart ==
  ASSUME TypeOK, NodeInv, ApartInv, PermitsBalanced, NEW l \in Lease, AcquirePermit(l)
  PROVE  LedgerStep
<1>1. /\ task_pc[l] = "held" /\ permits[Gen] > 0 /\ lease_holder' = lease_holder
      /\ task_pc' = [task_pc EXCEPT ![l] = "executing"]
  BY DEF AcquirePermit
<1>2. Gen \in Generation /\ permits[Gen] \in Nat
  BY DEF TypeOK, MainType, GenerationType
<1>3. lease_holder[l] = session[Gen] /\ session[Gen] # NoSession
  <2>1. lease_holder[l] = session[Gen]
    BY <1>1 DEF NodeInv, TaskInv
  <2>2. poll_pc = "permit"
    BY DEF AcquirePermit
  <2>3. main_pc \in {"monitor", "join"}
    BY <2>2 DEF NodeInv, LoopInv
  <2>4. session[Gen] \in Session
    BY <2>3 DEF NodeInv, MainInv, Looping
  <2> QED
    BY <2>1, <2>4
<1>4. Cardinality(LL!Working(lease_holder[l])) < MaxConcurrent
  <2>1. LL!Working(lease_holder[l]) \subseteq Running(Gen)
    BY <1>2, <1>3, WorkingIsRunning
  <2>2. /\ Cardinality(LL!Working(lease_holder[l])) \in Nat
        /\ Cardinality(LL!Working(lease_holder[l])) <= Cardinality(Running(Gen))
    BY <1>2, <2>1, RunningFinite, FS_Subset, FS_CardinalityType
  <2>3. permits[Gen] + Cardinality(Running(Gen)) = MaxConcurrent
    BY <1>2 DEF PermitsBalanced
  <2>4. Cardinality(Running(Gen)) \in Nat
    BY <1>2, RunningFinite
  <2> QED
    BY <1>1, <1>2, <2>2, <2>3, <2>4
<1>5. StageOf' = [StageOf EXCEPT ![l] = "working"]
  BY <1>1, StageMoves DEF Stage, Busy
<1>6. StageOf[l] = "waiting"
  BY <1>1 DEF StageOf, Stage
<1>7. \A S : LL!Cardinality(S) = Cardinality(S)
  BY DEF LL!Cardinality, Cardinality
<1>8. LL!Start(l)
  BY <1>1, <1>4, <1>5, <1>6, <1>7 DEF LL!Start
<1> QED
  BY <1>8 DEF LedgerStep, LL!Next

\* A task that ends settles its lease.
LEMMA LedgerSettle ==
  ASSUME TypeOK, NEW l \in Lease, task_pc[l] \in Busy, FinishTask(l)
  PROVE  LedgerStep
<1>1. lease_holder' = lease_holder /\ task_pc' = [task_pc EXCEPT ![l] = "finished"]
  BY DEF FinishTask
<1>2. StageOf' = [StageOf EXCEPT ![l] = "settled"]
  BY <1>1, StageMoves DEF Stage, Busy
<1>3. StageOf[l] = "working"
  BY DEF StageOf, Stage, Busy
<1>4. LL!Settle(l)
  BY <1>1, <1>2, <1>3 DEF LL!Settle
<1> QED
  BY <1>4 DEF LedgerStep, LL!Next

\* A move of one lease within its stage.
LEMMA LedgerStays ==
  ASSUME TypeOK, NEW l \in Lease, NEW pc, task_pc' = [task_pc EXCEPT ![l] = pc],
         Stage(pc) = Stage(task_pc[l]), UNCHANGED lease_holder
  PROVE  LedgerStep
<1>1. \A k \in Lease : Stage(task_pc'[k]) = Stage(task_pc[k])
  BY DEF TypeOK, TaskType
<1> QED
  BY <1>1, LedgerFrame

\* Every step of the node is a step of the ledger, or none.
LEMMA LedgerNext ==
  ASSUME TypeOK, NodeInv, ApartInv, PermitsBalanced, [Next]_vars
  PROVE  LedgerStep
<1> DEFINE Ends == \E how \in Ended : Terminate(how)
<1>1. CASE Ends /\ UNCHANGED lease_holder
  BY <1>1, LedgerTerminate
<1>2. CASE SetupNext \/ MainNext \/ Crash
  <2>1. UNCHANGED lease_holder
    BY <1>2 DEF SetupNext, LoadSession, SetupFails, RefreshUnchanged, RefreshDiffers,
                UpdateRetry, UpdateFails, UpdateUnanswered, UpdateUnauthorized,
                RegisterFails, SaveRegisteredFails, UpdateAccepted, RegisterAccepted,
                SaveRefreshed, SaveRegistered, SetupStep, NextAttempt,
                MainNext, StartGeneration, FirstHeartbeatSeen, FirstHeartbeatTimeout,
                AfterFirstHeartbeat, TakeShutdown, TakeSessionLost, StopLoops, JoinLoops,
                Recover, Recovers, RecoverExhausted, ClearFails, Crash
  <2>2. CASE ~Ends
    <3>1. UNCHANGED task_pc
      BY <1>2, <2>2
         DEF SetupNext, LoadSession, SetupFails, RefreshUnchanged, RefreshDiffers,
             UpdateRetry, UpdateFails, UpdateUnanswered, UpdateUnauthorized,
             RegisterFails, SaveRegisteredFails, UpdateAccepted, RegisterAccepted,
             SaveRefreshed, SaveRegistered, SetupStep, NextAttempt,
             MainNext, StartGeneration, FirstHeartbeatSeen, FirstHeartbeatTimeout,
             AfterFirstHeartbeat, TakeShutdown, TakeSessionLost, StopLoops, JoinLoops,
             Recover, Recovers, RecoverExhausted, ClearFails, Crash, Ended
    <3> QED
      BY <2>1, <3>1, LedgerFrame
  <2> QED
    BY <1>1, <2>1, <2>2
<1>3. CASE PollNext
  <2>1. CASE \E l \in Lease : AcquirePermit(l)
    BY <2>1, LedgerStart
  <2>2. ASSUME NEW l \in Lease, PollTask(l) PROVE LedgerStep
    BY <2>2, LedgerStays DEF PollTask, PollAnswered, Stage
  <2>3. CASE PollStop \/ PollSend \/ PollNoTask \/ PollUnauthorized
    <3>1. UNCHANGED <<lease_holder, task_pc>>
      BY <2>3 DEF PollStop, PollSend, PollNoTask, PollUnauthorized, PollAnswered
    <3> QED
      BY <3>1, LedgerFrame
  <2> QED
    BY <1>3, <2>1, <2>2, <2>3 DEF PollNext
<1>4. ASSUME NEW l \in Lease, TaskNext(l) PROVE LedgerStep
  <2>1. CASE ExecuteTask(l)
    BY <2>1, LedgerStays DEF ExecuteTask, Stage, Busy
  <2>2. CASE CompleteEnds(l) \/ CompleteUnauthorized(l)
    <3>1. task_reply[l] # "none"
      BY <2>2 DEF CompleteEnds, CompleteUnauthorized
    <3>2. task_pc[l] \in Busy
      BY <3>1 DEF NodeInv, TaskInv, Busy
    <3> QED
      BY <2>2, <3>2, LedgerSettle DEF CompleteEnds, CompleteUnauthorized
  <2>3. CASE ServeTask(l) \/ CompleteRetry(l)
    <3>1. UNCHANGED <<lease_holder, task_pc>>
      BY <2>3 DEF ServeTask, ServeComplete, CompleteRetry
    <3> QED
      BY <3>1, LedgerFrame
  <2>4. CASE TaskPanics(l)
    BY <2>4, LedgerSettle DEF TaskPanics, Busy
  <2> QED
    BY <1>4, <2>1, <2>2, <2>3, <2>4 DEF TaskNext
<1>5. CASE ServePoll
  BY <1>5, LedgerGrant
<1>6. CASE \/ HeartbeatNext \/ ServeHeartbeat \/ (\E s \in Session : Revoke(s)) \/ Signal
           \/ Restart \/ UNCHANGED vars
  <2>1. UNCHANGED <<lease_holder, task_pc>>
    BY <1>6 DEF HeartbeatNext, HeartbeatCheck, HeartbeatSend, HeartbeatSkip,
                HeartbeatAccepted, HeartbeatUnauthorized, HeartbeatError,
                HeartbeatAnswered, ServeHeartbeat, Revoke, Signal, Restart, vars
  <2> QED
    BY <2>1, LedgerFrame
<1> QED
  BY <1>2, <1>3, <1>4, <1>5, <1>6 DEF Next

\* The node implements LeaseLedger: seen from the leases, whatever it does is to take
\* one, to start it within its session's limit, to settle it, or to end.
THEOREM ImplementsLeaseLedger == Spec => ImplementsLedger
<1>1. Init => LL!Init
  BY DEF Init, LL!Init, StageOf, Stage, Busy
<1>2. TypeOK /\ NodeInv /\ ApartInv /\ PermitsBalanced /\ [Next]_vars
        => [LL!Next]_<<lease_holder, StageOf>>
  BY LedgerNext DEF LedgerStep
<1> QED
  BY <1>1, <1>2, TypeCorrect, NodeInvariant, GenerationsApart, PermitsAlwaysBalanced, PTL
     DEF Spec, ImplementsLedger, LL!Spec
=============================================================================

# TLA+ verification of node-token

`node-token` runs on a machine with an Ollama instance and lends it to a KeyCompute server: it
registers, heartbeats, polls for leased tasks, executes each one locally and reports the result. This
directory holds TLA+ models of it, the TLC runs that check them on small instances, and TLAPS proofs for
every instance. Paths below are relative to the crate (`src/main.rs` is the crate's main file).

## 1. The system

| Component | State | Operations | What makes it correct |
|---|---|---|---|
| main loop, `src/main.rs` | phase, `reregister_count`, the shared client's token, `stop_signal`, `is_excluded`, `session_lost`, the first-heartbeat channel | start a generation, wait for the first heartbeat, monitor signals and lost sessions, stop and join the loops, recover | a lost session always leads to recovery or exit; nothing of the old session is alive while a new one is set up; a taken signal ends the process |
| session setup, `src/runtime/register.rs` | the loaded `SessionData`, attempt counts, the models found | load, wait for models, discover, refresh, renegotiate, register, save | the session in use is the one on disk; a good session is never given up; node and server agree on its capabilities |
| storage, `src/storage/mod.rs` | `session.json` | save (temporary file and rename), load, clear | a crash leaves a whole old or a whole new session |
| heartbeat loop, `src/runtime/heartbeat.rs` | tick, model cache, a request in flight | scan models, beat, mirror the status, report a 401 | its 401 is about its own session; stops when told; the models it reports are there |
| poll loop, `src/runtime/poll.rs` | a request in flight, a lease waiting for a permit | poll, wait for a permit, spawn | takes no lease it cannot hold; gives every permit back |
| executor, `src/runtime/executor.rs` | a task per lease: inference, lease monitor, stream position, retries | admit, execute, stream events, watch the lease, complete | one result, under the lease's session; every event once and in order; no inference without a lease |
| SSE decoder, `src/node_stream.rs` | byte buffer, counters, place to search from | push, finish | the same frames however the bytes are chunked; limits |
| stream inspector, `src/node_stream.rs` | payload, choices, id, usage and outcome seen | observe, summarise | the outcome and the usage charged say what was observed |
| native protocol, `src/protocol/node_native.rs`, `node_capability.rs` | none | validate requests and results, compute requirements, permit | a request is only run if the profile permits all it needs |
| HTTP client, `src/client/api.rs` | the bearer token | one call per endpoint; bounded event delivery | retries reuse the same credential and the same bytes |
| Ollama client, `src/client/ollama.rs` | none | discovery, chat, native operations, images | conversion and I/O |
| configuration and errors, `src/config.rs`, `src/error.rs` | none | load and validate; recognise a 401 | |
| KeyCompute server | sessions, leases, event logs | not in this repository | modelled from what the client expects |

**How they interact.** main owns one HTTP client whose token it sets; the heartbeat loop, the poll loop
and the executor hold clones of one `SessionData`. One turn of main's loop is a *generation*: one session,
one pair of loops, one executor, one semaphore, one `session_lost` flag. Loops and tasks talk to main
only through flags (`session_lost`, `stop_signal`, `is_excluded`) and one oneshot channel. A 401 seen by
a loop or by a completing task raises `session_lost`; main stops and joins the loops, removes
`session.json` and starts the next generation. **Tasks are not joined**: they outlive their generation,
with a client whose token was fixed when their executor was made (`with_fixed_session`). Within a task the
inference races the lease monitor and the deadline; a streaming one feeds its bytes to the decoder, the
frames to the inspector, and every frame to the server before it takes the next.

**What is hard.** Two generations overlap: old tasks answer, fail and return permits while a new session
is being registered. The poll loop blocks with a lease in its hands and does not look at `stop_signal`
while it does. A reply may be lost after the server has acted (registration, capability renegotiation,
poll, event, completion), and a copy of a request may be served long after it was given up. The process may
be killed between any two steps, and the supervisor starts it again on whatever `session.json` holds, while
Ollama's models have changed. Signals are heard only while `monitor_events` runs. The lease of an inference
may end while the answers that would say so get lost. Bytes come in chunks cut anywhere, and frames in any
order an upstream cares to send. `PROJECT.json` lists each of these hazards with its line and the
properties that cover it.

## 2. The modules

Three groups of modules look at the node at three scales. They share no state, because the code keeps them
apart: a task owns its executor, decoder and inspector and keeps the session of its generation whatever
main does (this is proved: `ResultUnderLeaseSession`), and the loops know of a task only its permit and
its 401.

| Module | Models |
|---|---|
| *The process* | |
| `NodeState` | constants, the state of node and server, types, the end of the process (`Terminate`) |
| `KeyComputeServer` | the server as the client sees it (external) |
| `SessionSetup` | phase 1: `try_load_session`, `refresh_existing_session`, `register_with_retry`, `save_session` |
| `HeartbeatLoop`, `PollLoop` | `heartbeat_loop`, `poll_loop` |
| `TaskExecutor` | a spawned task as the loops see it: it works, may panic, delivers with retries, gives its permit back |
| `NodeMain` | phases 2 to 9, signals, crash and restart |
| `LeaseLedger` | abstract: what a node does with the leases it is granted, across all its sessions |
| `NodeToken` | the composition of the modules above, its properties and its inductive invariant; implements `LeaseLedger` |
| `MCNodeToken` | instances for TLC |
| *A task* | |
| `LeaseTask` | a task against the clock: `execute_native_cancellable`, the deadlines, `complete_with_retry` |
| `EventLog` | abstract: what the server's log of a stream may contain, and which results go with it |
| `NativeStream` | `execute_task_with_events`, `send_stream_event`, `stream_event`, over a network that loses, delays and repeats; implements `EventLog` |
| `SseDecoder` | `BoundedSseDecoder`: bytes to frames |
| `StreamInspector` | `NativeStreamInspector`: frames to outcome and usage |
| *What may be asked of the node* | |
| `NativeRequest` | the rules of `node_native.rs` and `node_capability.rs`: validation, requirements, `permits`, `selects`, validation of results |
| `NativeAdmission` | discovery, announcement, heartbeat models and admission of tasks, while Ollama changes and the process crashes |
| `MCNativeAdmission` | the requests, replies, versions and abilities TLC tries |
| *Proofs* | |
| `NodeTokenProofs`, `NativeStreamProofs`, `StreamInspectorProofs`, `LeaseTaskProofs`, `SseDecoderProofs`, `NativeAdmissionProofs` | the theorems (section 4) |
| `SseScanProofs` | what `delimiter_end` finds, and why a search need not start over |
| `NatInductionSets` | induction over the natural numbers, as the proofs use it |

Operators marked *Mutant* in the modules are deliberate bugs, used to make sure that each property
notices the bug it is there for. They are not part of the specifications.

### The process: `NodeToken` and the modules it extends

A session and its token are one value; a request is well formed when the session id of its
body equals the token of its header (`Authentic`). `session_state` is what the server thinks of a session:
`unissued`, `active`, `replaced` (its leases may still be finished) or `revoked`. What belongs to a
generation (`session`, `exec_token`, `session_lost`, `permits`) is a function on `Generation`, because old
generations live on through their tasks; the loops (`hb_*`, `poll_*`) exist once, because they are joined
before the next ones start; that they are idle then is checked (`SetupRunsAlone`), not assumed.

An action is what the code does between two awaits that another party can observe: a
request takes a send, a serving and a receiving step (`HeartbeatSend`, `ServeHeartbeat`,
`HeartbeatAccepted`...), so state may change while it is in flight or while its reply waits. `error` stands for every failure
that is not a 401, whether or not the server acted. `Terminate` is the fate of every variable when the
process ends: the runtime drops all loops and tasks; only `session.json` stays.

| Code | Action |
|---|---|
| main phase 1 | `LoadSession`, `RefreshUnchanged`, `RefreshDiffers`, `UpdateAccepted`, `UpdateRetry`, `UpdateFails`, `UpdateUnauthorized`, `SaveRefreshed`, `RegisterAccepted`, `RegisterFails`, `SaveRegistered`, `SaveRegisteredFails`, `SetupFails` |
| phases 2 and 3 | `StartGeneration` |
| phases 4 and 5 | `FirstHeartbeatSeen`, `FirstHeartbeatTimeout` |
| phase 6, `monitor_events` | `TakeShutdown`, `TakeSessionLost`, `Signal` |
| phases 7 and 8 | `StopLoops`, `JoinLoops` |
| phase 9 | `Recover`, `RecoverExhausted`, `ClearFails` |
| `heartbeat_loop` | `HeartbeatCheck`, `HeartbeatSend`, `HeartbeatSkip`, `HeartbeatAccepted`, `HeartbeatUnauthorized`, `HeartbeatError` |
| `poll_loop` | `PollStop`, `PollSend`, `PollNoTask`, `PollTask`, `PollUnauthorized`, `AcquirePermit` |
| `execute`, `complete_with_retry` | `ExecuteTask`, `TaskPanics`, `ServeTask`, `CompleteEnds`, `CompleteRetry`, `CompleteUnauthorized`, `FinishTask` |
| the supervisor | `Crash`, `Restart` |

`LeaseLedger` is the process as the server's dispatcher may see it. A lease is granted to one session; if it reaches
the node it waits, and no other is taken meanwhile; it is worked on once, beside fewer than `MaxConcurrent`
others *of its session*, and settled; only the end of the process drops leases, and then all it has. The
refinement mapping (`LL == INSTANCE LeaseLedger WITH ...`) is the identity on who holds a lease and forgets
most of what a task is doing (`Stage`). Loops, flags, generations, permits and restarts are not in it: what main does to them is a
stutter, except where it ends. The limit is stated per session because the stronger one is false
(`node_concurrency`).

### A task: `LeaseTask`

Time passes only when nothing is due (`Pressing`), as a timer of tokio fires when its time has come. Its unit is open: the
periods and delays are constants, 2000, 5000 and 100 in the milliseconds the code counts in.
`kind` is how the executor runs the task: *cancellable* (a native request with the cancellation feature: lease monitor and
deadline), *native* (deadline only), *legacy* (the timeout of the Ollama client). A task may start late,
because its lease waited for a permit (`Starts`).

| Code | Action |
|---|---|
| the first `lease_status` | `Verified`, `NotVerified` |
| the monitor loop | `Ask`, `Monitor` (with `MonitorContinues`, `MonitorStops`), `ServeStatus` |
| the biased `select!` | `SelectExecution`, `SelectMonitor`, `SelectDeadline` |
| Ollama | `InferenceEnds`, `InferencePanics` (the text cut of `generate`) |
| `complete_with_retry` | `Conclude` (which reads the clock once), `Post`, `Backoff`, `Retry`, `Delivered`, `ServeComplete` |
| the server ends the lease | `EndLease` |

`ended_at` and `last_contact` are observations: when the lease ended, and when the node last heard that it was active.

### A stream: `NativeStream` implements `EventLog`

`EventLog` says what a reader of the server's log may rely on: it starts with Start, counts every frame
once and in order, has at most one final event and nothing after it, the final event agrees with the frame before it, and a
result of *streamed* means a log that ends with Terminal. `NativeStream` has the worker with its position,
the `wire` (a set of requests, each of which may be served, served late or lost; a retry puts the same one
back) and the server's `log`. The refinement mapping is the identity on `log` and `result`: the worker
keeps all the rest to itself (`EL == INSTANCE EventLog WITH ...`). A frame is reduced to what the inspector says of it (`payload`,
`complete`, `failure`), and `n` counts the frames, so that a lost, repeated or swapped frame is visible.

| Code | Action |
|---|---|
| the upstream response | `Open`, `ReadChunk`, `NextFrame`, `Idle`, `ReadFails`, `ReadDeadline`, `Eof` |
| `send_stream_event`, `stream_event` | `Send`, `Post`, `AttemptFails`, `DeliveryDeadline`, `AckRefused`, `Acknowledged` (with `Continue`) |
| the server and the network | `Serve`, `Lose`, `Cancel`, `Tick` (the clock: live, grace, over) |

### `SseDecoder` and `StreamInspector`

`SseDecoder` takes a body byte by byte as one of CR, LF, text and a byte that is not UTF-8. `Push`,
`TakePiece`, `TakeFrame` and `PieceDone` are the nested loops of `push`, `Finish` is `finish`. What the
frames *are* is said by a definition without chunks (`Reference`: a frame ends with the first two line ends in a row).

`StreamInspector` takes any sequence of frames of the protocol (`Frame`), including the malformed, the foreign and
the repeated: `Skip`, `DataAfterOutcome`, `Refuse`, `Done` and `Count` are the paths through
`observe_for_model`; `Chunk`, `Message` and `Response` its three protocols. The ghosts `ids`, `inputs`,
`unaccounted` and `unfinished` record what was really sent.

### `NativeRequest` and `NativeAdmission`

A request is a record of what the rules look at, and its content a path from an item down to one
block: both walks over the content (the one that refuses, the one that collects features) go block by block,
so a path shows everything they may disagree on. An item may hold blocks whatever its type, because nothing in the node
keeps a request from having any shape; what the protocols call content is said by `Content`, what `validate_content`
takes for content besides by `OtherContent`. `ShortName` are the model names a profile may have; Ollama may list others. `NativeAdmission` follows the information: Ollama's models (`Scan`) and what they can do
(`Discover`, where each of the metadata requests may come too late), `Announce`, `AnnounceUnanswered`,
`RefreshUnauthorized`, `Save`, `SaveFails`, then the heartbeat's accepted models (`Heartbeat`,
`HeartbeatSkipped`, `HeartbeatUnauthorized`), and the tasks (`ExecuteNative`, `ExecuteLegacy`, `Submit`), with
`OllamaChanges`, `Revoke` and `Crash` in between.

## 3. The runs

| Run | Instance | Checks |
|---|---|---|
| `node_safety` | 3 sessions, 2 leases, at most 4 of both, 1 permit, 2 generations, 1 retry, 1 restart | `TypeOK`, `CredentialsPaired`, `LostSessionIsDead`, `SetupRunsAlone`, `RunningSessionOnDisk`, `ResultUnderLeaseSession`, `PermitsBalanced`, `OnlyDeadSessionForgotten`, `ImplementsLedger` |
| `node_liveness` | 2 sessions, 2 leases, 1 permit, 2 generations | `LostSessionRecovers`, `ReceivedLeaseSettles`, `ShutdownEnds` |
| `native_stream` | 3 attempts, chunks of up to 2 frames, 3 frames, 1 heartbeat | `TypeOK`, `LogInStep`, `CopiesAgree`, `Implements`, `StreamSettles` |
| `lease_task` | starts at 0, 13, 15 or 17; deadline 15, grace until 17; all three kinds | `TypeOK`, `LostLeaseStopsInference`, `ControlReallyLost`, `StopReasonTrue`, `PausesFitBudget`, `RefusalIsFinal`, `TaskSettles` |
| `sse_decoder` | every body of up to 8 bytes, every division into chunks | `TypeOK`, `FramesOfBody`, `EndsWellIfWellFormed`, `NothingOverlooked`, `BufferBounded` |
| `stream_inspector` | 3 protocols, 2 ids, 2 choices, tokens 0 and 1 | `TypeOK`, `OneResponse`, `ExactMeansAccounted`, `WholeWhenComplete`, `ChargeNeverFalls` |
| `native_admission` | 2 models, one of a name too long for a profile, 4 versions, about a hundred requests, 1 change, 2 sessions | `TypeOK`, `CapabilitiesAgree`, `SelectedIsAdmitted`, `AdmittedWithinProfile`, `AcceptedIsCurrent` |
| `node_graceful`, `node_concurrency`, `node_signal` | 2 sessions, 1 or 2 leases | one documented claim each, which the code does not keep (section 5) |
| `lease_panic` | as `lease_task` | a documented claim that a panic breaks (section 5) |
| `native_walks` | as `native_admission`, 1 model | a documented claim on what is admitted, which the code does not keep (section 5) |

**What they show.** *The process*: whatever is in flight, a session is never mixed with another one's
token, a 401 costs only the session it is about, a good session is never forgotten, permits balance, leases
go through the ledger's stages within the limit of their session, and lost sessions, leases and shutdowns come to an end. *A stream*: however often an event has to be sent, the server's log is the
stream, and the result agrees with it. *A task*: an inference outlives the server's word that its lease is active by at most three
turns of the monitor; a stop has the reason it reports; the pauses fit into the time left, but for a single one when less than 100 ms are left. *The bytes and
frames*: chunking changes nothing; usage charged as exact covers all the text and comes from one
response. *Admission*: node and server agree on what a live session can do, a request selected by it is
admitted, and one that is admitted uses nothing in its messages or its input that its profile does not name.

**Bounds and why they are enough.**

* `node_safety`: three sessions are a registered one, the one that replaces it on
  refresh after a restart, and one registered after a 401, or one lost with its reply. Two leases and one
  permit make the poll loop wait. `BoundedSpec` hands out four of them together: three sessions and a lease that
  outlives them, or two leases over two sessions. `MaxReregisters = 2` gives two generations, the fewest that overlap.
  `MaxRetries` bounds resends of a completion (the code's own bound is a time budget) and `MaxRestarts` the
  restarts. One signal is modelled: a second one finds the same handlers. Sessions and leases are
  interchangeable here, hence the symmetry.
* `node_liveness`: no symmetry. `RunningSpec` instead looks only at behaviours that use sessions and leases in
  order (`UsedInOrder`): every other behaviour is one of these up to their names, and the properties
  speak of all of them alike. It stops where the process ends, because every property is settled by then.
* `native_stream`: three attempts have a first, a middle and a last one (twelve in the code); two frames
  in one chunk leave one pending while the other is delivered; three frames can put one before, one in and one
  after the delivery of which copies are still on the wire. One idle heartbeat may come between any two of them.
* `lease_task`: periods of 2 and intervals of 5, the code's in seconds, and a deadline of 15 leave three turns of the monitor (4 each)
  and a bit, and three retries; the starts are
  in time, so late that the deadline is near, at the deadline and at the end of the grace period. The first pause, 100 ms in the code,
  is stretched to 2 so that a budget of 1 is below it. The code's timeouts of 600 s and 300 s
  are shortened to 18 and 1: they only have to lie beyond the deadline and below an interval. The
  proofs (section 4) need no such choice.
* `sse_decoder`: eight bytes hold two frames and the beginning of a third with each of the mixed line ends; the limits (frame 6,
  two frames, body 7) are each reached and exceeded; pieces of 3 split a delimiter of up to four bytes in all ways.
  The byte that is not UTF-8 is only tried in the first place (`BadAt`): it fails the frame it is in, wherever it stands.
* `stream_inspector`: two ids and two choices can disagree; the deltas 0 and 5 and at most 10 bytes of text take
  the estimate of four bytes a token past the largest count, 1.
* `native_admission`: two models distinguish one that is registered from one that is not; two sessions are one and its
  successor; the interval of 3 leaves two heartbeats without a scan (ten in the code). The requests in
  `MCNativeAdmission` are a plain one of each operation and each of its single variations, contents down
  to a block in a tool result in a message, and blocks in items that are no messages. `native_walks` needs one model.

Deadlock is not checked in any run, because each of the systems ends: a process that is not started again,
a task that is done, a body that is read, a node that is down.

**Fairness.** *`node_liveness`, `node_signal`*: weak fairness for main, for each loop together with its server
calls and for each task: the tokio scheduler runs every task that can run, and every await ends, because the
server client has a timeout of 300 s, the Ollama client has timeouts of its own, the model scan is bounded and
the pauses are finite. Nothing is assumed of signals, crashes, restarts or revocations, nor that a call succeeds.
*`native_stream`*: the worker's deliveries, its opening, its frames and the read that meets the deadline, and time. Neither upstream nor server has to
answer. *`lease_task`*: the task's own steps, time, and an inference that has run out of its time; Ollama may be
silent up to that moment and the server for ever.

## 4. The proofs

The proofs hold for every value of the constants that satisfies the named assumption of the module
(`ConstantsAssumption`, `StreamAssumption`, `InspectorAssumption`, `LeaseTaskAssumption`,
`DecoderAssumption`, `RequestAssumption`, `AdmissionAssumption`). These say no more than what `load_config` enforces, that bounds are natural numbers,
that CR and LF are two different bytes, that `None` is none of the values it stands in for, that the deadline is not after the end of the grace period, that the scan interval is at least two,
that there are finitely many models, that a pause is not longer than the interval that caps it, and what types the parts of a request have (`WellTyped`). Of its shape nothing is assumed.

| Module | Theorems |
|---|---|
| `NodeTokenProofs` | `TypeOK`, the safety properties of `node_safety`, `AtMostOneLeaseHeld`, that generations never share a session, and that `NodeToken` implements `LeaseLedger` |
| `NativeStreamProofs` | `TypeOK`, `LogInStep`, `CopiesAgree`, and that `NativeStream` implements `EventLog` |
| `StreamInspectorProofs` | `TypeOK` and all four properties of `stream_inspector` |
| `LeaseTaskProofs` | `TypeOK` and the five safety properties of `lease_task` |
| `SseDecoderProofs` | `TypeOK` and all four properties of `sse_decoder` |
| `NativeAdmissionProofs` | `TypeOK` and all four properties of `native_admission` |

So every safety property that a passing run checks is also proved.

**`NodeTokenProofs`.** None of the properties is inductive. That a 401 is deserved (`LostSessionIsDead`) depends on which token a
request was sent with, that on which session main had set, and that on no loop of an old generation being
alive. `NodeInv` in `NodeToken` says all of it at once:

* `MainInv`: at each phase, which of `session.json`, main's session and the shared token agree, that the loops
  are idle during setup, and that recovery is only entered with `session_lost` raised;
* `IssuedInv`: nobody holds a session that was never issued;
* `LoopInv`: a request in flight is paired and a 401 on its way back is about a dead session;
* `TaskInv`: a task keeps its generation's session and token, which are its lease's, and never runs ahead of main;
* `HeldInv`: the leases on the way to a permit are exactly those the poll loop's state says;
* `LostInv`: a raised flag tells the truth about its own generation.

`NodeInvariant` proves it step by step, one lemma per module (`InvSetup`, `InvHeartbeat`, `InvPoll`,
`InvTask`, `InvMain`, `InvEnvironment`), from the type lemmas of the same shape. The properties follow;
`OnlyDeadSessionsForgotten` looks at the three steps that write the file, and `PermitsAlwaysBalanced` is an
induction of its own, by counting the running tasks of each generation.

`ImplementsLeaseLedger` takes every step of the node to one of the ledger or a stutter (`LedgerNext`). A grant finds nothing waiting
because `TaskInv` ties a waiting lease to a reply not yet read or to a loop that waits for a permit; a task ends only if it was being worked on; the one step
that needs more is the start of a task (`LedgerStart`). A free permit bounds the tasks of a *generation*, the
ledger those of a *session*, so one has to know that they are the same tasks: every
one that works for the session of a generation was spawned by it (`WorkingIsRunning`). That is `ApartInv`: no two generations
have the same session (`GenerationsApart`), which is inductive only together with what the generations to come have
(nothing yet), what the file holds when a later generation loads it (nothing, since recovery has removed it) and
what a process that has ended leaves in memory (nothing).

**`NativeStreamProofs`.** A request served late is harmless because of what the wire may hold. `StreamInv` says: the log is at the
worker's number or one ahead (`LogInStep`); between two events the last entry is the worker's last event
(`BetweenEvents`); the event in delivery either extends the log or is its last entry (`InDelivery`); every request
is a copy of an entry or the event in delivery (`Requests`); and an acknowledgement proves the event recorded
(`Answers`). The refinement then goes by who moves: a step of the worker leaves the log alone and at most reports
(`WorkerReports`), the server records or repeats (`ServerRecords`), and everything else is a stutter.

**`StreamInspectorProofs`.** The invariant relates what the inspector keeps to what was sent: all ids and input counts seen are the ones kept,
the open choices are the unfinished ones. Each counted frame either keeps
this or fails the stream. `ChargeOnlyGrows` adds that the larger of count and estimate grows with each.

**`LeaseTaskProofs`.** The bounds in time need the timer: with k failures since the last word of the server, the monitor's next wake is
between (k + 1) periods and k turns and a period away from it (`Timers`), and time never passes a wake. Three failures
then take at least three periods (`ControlReallyLost`) and at most three turns (`LostLeaseStopsInference`). An answer *active* read after
the lease has ended was given at most one timeout earlier (`Outdated`). The pauses are counted by the retries left (`Paused`), and
`Budget` shows that all of them fit into the duration, because n whole intervals hold n pauses of which the first is no longer than
an interval; the exception is the one retry of a duration shorter than the first pause. None of this depends on the values of the periods.

**`NatInductionSets`.** The decoder's search, the division of a body into frames and the joining of the models' profiles are
recursive functions. What they compute is proved by induction, which the library states for a predicate; no installed
prover can instantiate that. `UpwardInduction` and `DownwardInduction` state it for a *set* of numbers
instead, and follow from the library's facts that `<` is well founded on `Nat` and that a well-founded
relation has minimal elements. With them a recursive function is shown to exist first (`ScanExists`, `FlatExists`), and so to
satisfy its own equation (`ScanRecursion`, `FlatRecursion`).

**`SseScanProofs` and `SseDecoderProofs`.** `ScanFinds` says what the search finds in a buffer `s` that may be the beginning of
more, `t`: the first blank line of `t` if it ends in `s` for certain, where a CR at the end of `s` is not certain.
Hence the search from `RescanFrom`, four bytes before the end of what has been searched, or five if that would cut a CRLF in two, finds what a
search from the start would find. The invariant `DecoderInv` is made of: sizes (`Sizes`); where the next search starts and that nothing before it
was overlooked (`Searched`); that the frames so far are the first of the reference division and, with
what is left, the body (`Progress`); that none of them exceeds a limit or holds a bad byte (`WithinLimits`); and that a body that
was refused is not well formed (`Decoded`). `FramesOfBody` alone is not inductive: that the next frame found is
the next one of the reference rests on `Searched`, and that a refusal is deserved on `WithinLimits`.

**`NativeAdmissionProofs`.** Ids are handed out in order, so two holders of an id hold the same capabilities (`Numbered`). The counter that makes
a scan due bounds the heartbeats since the last one (`Counted`), hence those with a model that is gone. That announced profiles are in their scope
(`Typed`) goes back to the list of models: sorted, it holds each model once (`NormalList`), so that every profile of the joined
list is one of a single model and operation (`FlattenPlaced`, `DiscoveredTold`). A running node whose session is live has the
capabilities the server selects by (`RunsAgreed`); the selected profile is then the only one of its model and operation (`OneProfile`),
and permits whatever valid request it was selected for, because the node announces the largest limits and always cancellation, and because
a valid request names a model whose name a profile may have
(`SelectsPermits`, `OurProfileFacts`). In the other direction, both walks go down a request's content as far as the protocols nest it: the one
that collects features from the item on, the one that looks for images from its content on, where an item it passes over is a message and so no
image (`ImagesInline`). Hence what an admitted request has in its messages or input was looked at (`AdmittedWithin`).

**Only model-checked.** The liveness properties (`LostSessionRecovers`, `ReceivedLeaseSettles`, `ShutdownEnds`, `StreamSettles`,
`TaskSettles`), because TLAPS has no support for fairness and ENABLED.

## 5. Where code and documents disagree

Found by a run:

* `node_graceful`: README.md:46 promises that in-flight work is completed on exit; main joins only the two
  loops, and running tasks are dropped.
* `node_concurrency`: config.rs:67 calls `max_concurrent_tasks` the number of tasks executed at once; there is
  one semaphore per generation, so after a re-registration twice as many may run.
* `node_signal`: main.rs:324 calls a received SIGTERM or SIGINT the `Shutdown` event; between two
  `monitor_events`, or when a lost session wins the select, the signal is swallowed.
* `lease_panic`: executor.rs:86 lets `execute` end with the submission of a result; `generate` cuts a long error text
  at a byte count (ollama.rs:831), which panics inside a character, and the task ends without one. Its permit is given back
  (`TaskPanics`, `PermitsBalanced`).
* `native_walks`: README.md:260 says that semantics a model's declaration does not support are rejected. The system text of Messages
  (node_native.rs:230) and the content of an item of messages with a type of its own (node_native.rs:238) are validated, but not
  inspected for features (node_capability.rs:219 and 240): tool, image and thinking blocks there are admitted for any profile.

Met while modelling, with no run of their own:

* main.rs:201 exits when `max_reregisters` is reached; config.rs:75 says when it is exceeded. The count is never reset.
* main.rs:229 calls a pause exponential that is linear.
* executor.rs:1028 reports refusals by the profile as errors of the node, which types.rs:285 keeps for the client's.
* `complete_with_retry` takes its number of retries from the time left and pauses of 5 s: slow attempts are not counted against it, and a result settled just before
  the deadline gets one retry and none of the grace period. A budget below 100 ms is overrun by
  the pause before its one retry, the exception that `PausesFitBudget` states.
* heartbeat.rs:155 says that models which are not registered are never accepted, heartbeat.rs:145 that the server refuses them. A session refreshed
  while Ollama had no models registers none, and its heartbeats (heartbeat.rs:96) accept whatever Ollama lists later.
* storage/mod.rs:139 says that an unreadable file counts as no session; it is an error.
* ollama.rs:438 announces every model that Ollama lists; node_capability.rs:74-75 refuses a profile whose name has more than 100 characters, in
  `permits` as well as in `validate_profiles`. The node never applies `validate_profiles` to what it announces, and a server that does would refuse the whole list.
* ollama.rs:660 drops the status of a refused chat, so that a 4xx is reported as the node's error; for images it is kept.
* executor.rs:722 reports an image reply without an image as a success.

## 6. Not modelled, and why

* *Image download guard* (`executor.rs`, address filtering of image URLs): a table of address ranges, and I/O.
* *`parse_frame`*: splits one complete frame into its fields and keeps no state; `SseDecoder` ends with the frame.
* *Ollama client*: the conversions of legacy chat requests and replies and HTTP itself. What a call may come to is in the
  modules that make it.
* *HTTP client*: encoding, body limits and headers; its retries and timeouts are modelled where they matter.
* *Storage*: permissions, paths and the temporary file, because the rename is atomic.
* *Configuration*: loading is I/O. A `heartbeat_interval_secs` of 0, which is not refused and at which the heartbeat task panics at once, is excluded.
* *Discovery*: the limit of 256 models, and the number of metadata requests at a time.
* *Poll and heartbeat pauses* of the process: they delay, and carry no state.
* *Wire types, benchmarks, tests, review script*: data without behaviour, or not part of the running system.

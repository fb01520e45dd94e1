--------------------------- MODULE NativeAdmission ---------------------------
(***************************************************************************)
(* From the models Ollama has to the tasks a node accepts.  The node scans *)
(* the models, discovers what they can do, and announces it when it        *)
(* registers or, on a restart, refreshes its session; its heartbeats tell  *)
(* which of the announced models are still there; the server assigns tasks *)
(* by what was announced, and the executor admits a task by what the       *)
(* session says.  Ollama changes meanwhile, and the process may end        *)
(* anywhere.  Inference itself is in LeaseTask and NativeStream; a task     *)
(* keeps the session of its generation, so that nothing of this module     *)
(* can change it between its assignment and its result: one step does both.*)
(***************************************************************************)
EXTENDS NativeRequest, SequencesExt

CONSTANTS
  Model,             \* names that Ollama may list, by order: numbers
  Version,           \* versions Ollama may report: [v |-> leading v's, core |-> numbers]
  Ability,           \* sets of capabilities /api/show may report for a model
  Request,           \* native requests a server may send
  Response,          \* responses Ollama may give
  ScanInterval,      \* MODEL_SCAN_HEARTBEAT_INTERVAL
  MaxScans,          \* MAX_RETRIES of wait_for_models_ready
  MaxChanges,        \* bound: changes of Ollama's models and version
  MaxSessions        \* bound: sessions issued

\* What the node tells of a task: how it ended, why, and whether the client is to blame.
Verdict ==
  [status : {"failed", "succeeded", "image_succeeded", "native_succeeded", "stream_succeeded"},
   cause  : {"none", "invalid", "unsupported", "invalid_payload", "malformed", "limit",
             "stopped", "http_4xx", "http_5xx", "other"},
   client : BOOLEAN]

ASSUME AdmissionAssumption ==
  /\ Model \subseteq Nat /\ IsFiniteSet(Model)
  /\ \A r \in Request : WellTyped(r)
  /\ None \notin Verdict
  /\ ScanInterval \in Nat \ {0, 1} /\ MaxScans \in Nat \ {0}
  /\ MaxChanges \in Nat /\ MaxSessions \in Nat

VARIABLES
  ollama,            \* its models with their abilities, and its version
  changes,
  pc,                \* "load", "scan", "discover", "announce", "save", "run" or "down"
  scans,             \* list_models calls of this registration
  models,            \* the models of this scan, sorted
  fresh,             \* the capabilities to announce
  disk, session,     \* session.json and the session of this generation, or None
  server,            \* the session the server holds to be live, or None
  issued,
  cached, beats,     \* heartbeat_loop: cached_models (None or a set), heartbeats sent
  accepted,          \* accepted_models of the last heartbeat of the session
  stale,             \* heartbeats in a row that accepted a model that is gone
  task, result       \* the task executed last, till its result is submitted

ollamaVars == <<ollama, changes>>
setupVars == <<pc, scans, models, fresh>>
sessionVars == <<disk, session, server, issued>>
heartbeatVars == <<cached, beats, accepted, stale>>
taskVars == <<task, result>>
vars == <<ollamaVars, setupVars, sessionVars, heartbeatVars, taskVars>>

NoTask == None

-----------------------------------------------------------------------------
(* Discovery *)

\* valid_runtime_version: three numbers, after any number of v's.
ValidVersion(version) == version # None /\ Len(version.core) = 3

Floor == <<0, 14, 0>>

AtLeast(core, floor) ==
  \/ core[1] > floor[1]
  \/ core[1] = floor[1] /\ core[2] > floor[2]
  \/ core[1] = floor[1] /\ core[2] = floor[2] /\ core[3] >= floor[3]

\* phase3_runtime_eligible: parse_runtime_version takes off one v only.
Eligible(version) == version.v <= 1 /\ AtLeast(version.core, Floor)

Advertised(ability, eligible) ==
  {"cancellation"} \cup (IF eligible THEN {"sse"} ELSE {})
  \cup (ability \cap {"tools", "vision", "thinking"})
  \cup (IF ability \cap {"structured_output", "json_schema"} # {}
         THEN {"structured_output"} ELSE {})

\* The profiles of one model, in the order of the operations.
ProfilesOf(model, eligible) ==
  LET features == Advertised(ollama.models[model], eligible)
  IN [i \in 1 .. (IF eligible THEN 3 ELSE 1) |->
        Profile(model, <<"chat", "messages", "responses">>[i], features)]

\* Metadata of the models in answered came in time; the others get no profile.
Discovered(version, answered) ==
  LET known(m) == m \in answered \cap DOMAIN ollama.models /\ "completion" \in ollama.models[m]
      profiles == [i \in DOMAIN models |->
                     IF known(models[i]) THEN ProfilesOf(models[i], Eligible(version)) ELSE <<>>]
  IN [models |-> ToSet(models),
      profiles |-> IF ValidVersion(version) THEN FlattenSeq(profiles) ELSE <<>>,
      version |-> IF ValidVersion(version) THEN version ELSE None]

OperationsOf(capabilities) ==
  {capabilities.profiles[i].operation : i \in DOMAIN capabilities.profiles}

-----------------------------------------------------------------------------
(* Ollama and the server *)

\* A model is pulled, replaced or removed, or Ollama is upgraded or downgraded.
OllamaChanges ==
  /\ changes < MaxChanges
  /\ changes' = changes + 1
  /\ \/ \E m \in Model, a \in Ability :
          ollama' = [ollama EXCEPT !.models = [x \in DOMAIN ollama.models \cup {m} |->
                                                 IF x = m THEN a ELSE ollama.models[x]]]
     \/ \E m \in DOMAIN ollama.models :
          ollama' = [ollama EXCEPT !.models = [x \in DOMAIN ollama.models \ {m} |->
                                                 ollama.models[x]]]
     \/ \E v \in Version : ollama' = [ollama EXCEPT !.version = v]
  /\ UNCHANGED <<setupVars, sessionVars, heartbeatVars, taskVars>>

\* The server issues a session for the announced capabilities; the one before is dead.
Issue == [id |-> issued + 1, capabilities |-> fresh]

Revoke ==
  /\ server # None
  /\ server' = None
  /\ UNCHANGED <<ollamaVars, setupVars, disk, session, issued, heartbeatVars, taskVars>>

-----------------------------------------------------------------------------
(* register_node and refresh_existing_session *)

Goto(p) == pc' = p

\* What the setup, or the loops of a generation, hold ends with them.
SetupEnds == scans' = 0 /\ models' = <<>> /\ fresh' = None
LoopsEnd == cached' = None /\ beats' = 0 /\ accepted' = {} /\ stale' = 0

Load ==
  /\ pc = "load"
  /\ session' = disk
  /\ Goto("scan")
  /\ UNCHANGED <<ollamaVars, scans, models, fresh, disk, server, issued, heartbeatVars, taskVars>>

Registering == session = None
Differs == fresh # session.capabilities

\* The server holds the session of this generation to be live.
Live == server # None /\ server.id = session.id

\* Mutant: what Ollama lists is taken as it is.
AsListed(list) == list

\* Sorted, without duplicates.
Normal(list) ==
  CHOOSE s \in [1 .. Cardinality(ToSet(list)) -> ToSet(list)] :
    \A i, j \in DOMAIN s : i < j => s[i] < s[j]

\* A registration waits until there is a model; a refresh takes what there is.
Scan ==
  /\ pc = "scan"
  /\ Registering => DOMAIN ollama.models # {}
  /\ \E again \in SUBSET DOMAIN ollama.models :
       models' = Normal(SetToSeq(DOMAIN ollama.models) \o SetToSeq(again))
  /\ Goto("discover")
  /\ UNCHANGED <<ollamaVars, scans, fresh, sessionVars, heartbeatVars, taskVars>>

\* A registration that finds no model in time is tried again, or the process ends.
ScanFails ==
  /\ pc = "scan"
  /\ \/ /\ Registering /\ scans + 1 < MaxScans
        /\ scans' = scans + 1 /\ UNCHANGED pc
     \/ /\ Registering => scans + 1 = MaxScans
        /\ scans' = 0
        /\ Goto("down") \/ (Registering /\ UNCHANGED pc)
  /\ UNCHANGED <<ollamaVars, models, fresh, sessionVars, heartbeatVars, taskVars>>

Discover ==
  /\ pc = "discover"
  /\ \E version \in {None, ollama.version}, answered \in SUBSET Model :
       fresh' = Discovered(version, answered)
  /\ Goto("announce")
  /\ models' = <<>>
  /\ UNCHANGED <<ollamaVars, scans, sessionVars, heartbeatVars, taskVars>>

\* Nothing has changed since the session was made.
Unchanged ==
  /\ pc = "announce" /\ ~Registering /\ ~Differs
  /\ Goto("run") /\ SetupEnds
  /\ UNCHANGED <<ollamaVars, sessionVars, heartbeatVars, taskVars>>

\* Mutant: the session keeps the capabilities it had.
AnnouncedKeepsOld ==
  session' = IF Registering THEN Issue
             ELSE [id |-> issued + 1, capabilities |-> session.capabilities]

Announced == session' = Issue

\* The registration or the update is accepted: a session for these capabilities.
Announce ==
  /\ pc = "announce" /\ (~Registering => Differs /\ Live)
  /\ issued < MaxSessions
  /\ issued' = issued + 1
  /\ server' = Issue
  /\ Announced
  /\ Goto("save") /\ SetupEnds
  /\ UNCHANGED <<ollamaVars, disk, heartbeatVars, taskVars>>

\* It was, but no reply arrives: an update is sent again as it is, a registration
\* starts over.
AnnounceUnanswered ==
  /\ pc = "announce" /\ (~Registering => Differs /\ Live)
  /\ issued < MaxSessions
  /\ issued' = issued + 1
  /\ server' = Issue
  /\ IF Registering THEN Goto("scan") /\ SetupEnds ELSE UNCHANGED setupVars
  /\ UNCHANGED <<ollamaVars, disk, session, heartbeatVars, taskVars>>

\* The server knows the session no longer: the first heartbeat will find out.
RefreshUnauthorized ==
  /\ pc = "announce" /\ ~Registering /\ Differs /\ ~Live
  /\ Goto("run") /\ SetupEnds
  /\ UNCHANGED <<ollamaVars, sessionVars, heartbeatVars, taskVars>>

Save ==
  /\ pc = "save"
  /\ disk' = session
  /\ Goto("run")
  /\ UNCHANGED <<ollamaVars, scans, models, fresh, session, server, issued, heartbeatVars,
                 taskVars>>

\* A session that cannot be saved is given up: a registration starts over, after an
\* update the process ends.  Only a registration has nothing on disk.
SaveFails ==
  /\ pc = "save"
  /\ session' = None
  /\ Goto(IF disk = None THEN "scan" ELSE "down")
  /\ UNCHANGED <<ollamaVars, scans, models, fresh, disk, server, issued, heartbeatVars,
                 taskVars>>

\* The process ends, in any of its phases, and is started again.
Crash ==
  /\ pc # "load"
  /\ Goto("load")
  /\ SetupEnds /\ LoopsEnd
  /\ session' = None
  /\ task' = NoTask /\ result' = None
  /\ UNCHANGED <<ollamaVars, disk, server, issued>>

-----------------------------------------------------------------------------
(* heartbeat_loop: the models the node accepts *)

Registered == session.capabilities.models
Installed == DOMAIN ollama.models

\* Mutant: a list once read is never read again.
ScanOnce == cached = None

ScanDue == (beats + 1) % ScanInterval = 1 \/ cached = None

\* What the loop takes for the models of Ollama: the list, or when it cannot be read
\* the last one, or what is registered.
Known(read) == IF read THEN Installed ELSE IF cached = None THEN Registered ELSE cached

HeartbeatOf(current, asked, read) ==
  /\ beats' = (beats + 1) % ScanInterval
  /\ cached' = IF asked /\ read /\ (Registered # {} \/ Installed # {}) THEN Installed ELSE cached
  /\ accepted' = IF Registered = {} THEN current ELSE Registered \cap current
  /\ stale' = IF accepted' \subseteq Installed \/ (asked /\ ~read) THEN 0 ELSE stale + 1

Heartbeat ==
  /\ pc = "run" /\ Live
  /\ \/ \E read \in (IF Registered = {} THEN {TRUE} ELSE BOOLEAN) :
          /\ Registered = {} \/ ScanDue
          /\ HeartbeatOf(Known(read), TRUE, read)
     \/ /\ Registered # {} /\ ~ScanDue
        /\ HeartbeatOf(Known(FALSE), FALSE, FALSE)
  /\ UNCHANGED <<ollamaVars, setupVars, sessionVars, taskVars>>

\* Nothing is registered and Ollama does not answer: this heartbeat is left out.
HeartbeatSkipped ==
  /\ pc = "run" /\ Registered = {}
  /\ beats' = (beats + 1) % ScanInterval
  /\ UNCHANGED <<ollamaVars, setupVars, sessionVars, cached, accepted, stale, taskVars>>

\* 401: main deletes session.json and registers again.
HeartbeatUnauthorized ==
  /\ pc = "run" /\ ~Live
  /\ disk' = None /\ session' = None
  /\ Goto("load") /\ LoopsEnd
  /\ UNCHANGED <<ollamaVars, scans, models, fresh, server, issued, taskVars>>

-----------------------------------------------------------------------------
(* TaskExecutor: what is done with a task *)

Failed(cause, client) == [status |-> "failed", cause |-> cause, client |-> client]
Done(status) == [status |-> status, cause |-> "none", client |-> FALSE]

\* classify_ollama_error: a 4xx of Ollama, and a stop by the lease, are the client's.
Classified(error) == Failed(error, error \in {"http_4xx", "stopped"})

ProfilesIn(capabilities) == ToSet(capabilities.profiles)

\* Mutant: the first profile of the model, whatever the operation.
ProfileOfModel(t) == {p \in ProfilesIn(session.capabilities) : p.model = t.model}

\* The profile that is found; the announced ones have a model and operation each.
ProfileFor(t) ==
  {p \in ProfilesIn(session.capabilities) : p.model = t.model /\ p.operation = t.request.operation}

\* execute_native_cancellable looks at every profile.
Cancellable(t) ==
  \E p \in ProfilesIn(session.capabilities) :
    Permits(p, Requirements(t.request)) /\ "cancellation" \in p.features

Permitted(t) == \A p \in ProfileFor(t) : Permits(p, Requirements(t.request))

\* Why a native task is refused before any inference, or "none".
Refusal(t) ==
  IF ~ValidFor(t.request, t.model) THEN "invalid"
  ELSE IF \/ ~HasRequirements(t.request)
          \/ t.cancellation /\ ~Streams(t.request) /\ ~Cancellable(t)
          \/ ProfileFor(t) = {} \/ ~Permitted(t)
       THEN "unsupported" ELSE "none"

\* The inference fails, is stopped, or answers; the answer is checked.
NativeOutcomes(t) ==
  {Classified("other")}
  \cup (IF Streams(t.request) THEN {Done("stream_succeeded")}
        ELSE IF t.cancellation THEN {Classified("stopped")} ELSE {})
  \cup {IF ~ValidResponse(a, t.request.operation) THEN Classified("malformed")
        ELSE IF \A p \in ProfileFor(t) : ValidResult(p, a) THEN Done("native_succeeded")
        ELSE Classified("limit") : a \in Response}

NativeResults(t) ==
  IF Refusal(t) = "none" THEN NativeOutcomes(t) ELSE {Classified(Refusal(t))}

\* Chat: an image cannot be fetched, or Ollama refuses, an error without its status.
\* Images: Ollama's status is kept.  A payload of no or of several kinds is refused.
LegacyResults(kind) ==
  CASE kind = "chat" -> {Done("succeeded"), Classified("other")}
    [] kind = "image" -> {Done("image_succeeded")} \cup
                         {Classified(e) : e \in {"http_4xx", "http_5xx", "other"}}
    [] kind = "mixed" -> {Failed("invalid_payload", TRUE)}

\* The server selects by what was announced, and by the last heartbeat.
Selected(t) ==
  /\ t.model \in accepted
  /\ \E p \in ProfilesIn(server.capabilities) : Selects(p, Requirements(t.request))

\* Where the protocols put blocks inside others: messages and tool results.
Nests == {"message", "tool_message", "tool_result"}

\* The content of a request by the protocols: what is in its messages or in its input,
\* at any depth.  An item of messages that calls itself something else is no message.
Content(r) ==
  {block \in Reached(r.content, 1, Nests) :
     r.operation = "responses" \/ r.content[1].type \in Nests}

\* What validate_content takes for content besides: the system text of Messages, and
\* what an item of messages holds, whatever it calls itself.
OtherContent(r) ==
  (IF r.operation = "responses" THEN {} ELSE Reached(r.content, 2, Nests)) \cup
  (IF r.operation = "messages" THEN Reached(r.system, 1, Nests) ELSE {})

\* These blocks need nothing the profile does not name, and no image of them has to be
\* fetched.
WithinProfile(t, blocks) ==
  \A p \in ProfileFor(t) :
    /\ Streams(t.request) => "sse" \in p.features
    /\ \A block \in blocks :
         FeatureOf(block.type) \subseteq p.features /\ (block.type = "image" => block.inline)

\* A native task; what the properties tell of it is kept with its result.
ExecuteNative ==
  /\ pc = "run" /\ Live
  /\ \E r \in Request, cancellation \in BOOLEAN :
     \E m \in (IF r.model = None THEN Model ELSE {r.model}) :
       LET t == [model |-> m, request |-> r, cancellation |-> cancellation]
       IN /\ result' \in NativeResults(t)
          /\ task' = [selected |-> HasRequirements(r) /\ Selected(t),
                      within   |-> WithinProfile(t, Content(r)),
                      whole    |-> WithinProfile(t, Content(r) \cup OtherContent(r))]
  /\ UNCHANGED <<ollamaVars, setupVars, sessionVars, heartbeatVars>>

ExecuteLegacy ==
  /\ pc = "run" /\ Live
  /\ \E kind \in {"chat", "image", "mixed"} : result' \in LegacyResults(kind)
  /\ UNCHANGED <<ollamaVars, setupVars, sessionVars, heartbeatVars, task>>

Submit ==
  /\ result # None
  /\ task' = NoTask /\ result' = None
  /\ UNCHANGED <<ollamaVars, setupVars, sessionVars, heartbeatVars>>

-----------------------------------------------------------------------------
Init ==
  /\ \E S \in SUBSET Model, v \in Version :
       \E abilities \in [S -> Ability] : ollama = [models |-> abilities, version |-> v]
  /\ changes = 0 /\ pc = "load" /\ scans = 0 /\ models = <<>> /\ fresh = None
  /\ disk = None /\ session = None /\ server = None /\ issued = 0
  /\ cached = None /\ beats = 0 /\ accepted = {} /\ stale = 0
  /\ task = NoTask /\ result = None

NodeStep ==
  \/ Load \/ Scan \/ ScanFails \/ Discover \/ Unchanged
  \/ Announce \/ AnnounceUnanswered \/ RefreshUnauthorized \/ Save \/ SaveFails \/ Crash
  \/ Heartbeat \/ HeartbeatSkipped \/ HeartbeatUnauthorized
  \/ ExecuteNative \/ ExecuteLegacy

Next ==
  \/ result = None /\ (OllamaChanges \/ Revoke \/ NodeStep)
  \/ Submit

Spec == Init /\ [][Next]_vars

-----------------------------------------------------------------------------
(* Properties *)

\* What is announced is what validate_profiles asks for, but for the names: it refuses a
\* profile whose model has an empty or over-long name, and discovery looks at no names.
ValidCapabilities(c) ==
  /\ \A i \in DOMAIN c.profiles : WithinLimits(c.profiles[i])
  /\ InScope(c.profiles, c.models, OperationsOf(c))

TypeOK ==
  /\ DOMAIN ollama.models \subseteq Model /\ changes \in 0 .. MaxChanges
  /\ pc \in {"load", "scan", "discover", "announce", "save", "run", "down"}
  /\ scans \in 0 .. MaxScans - 1 /\ ToSet(models) \subseteq Model
  /\ fresh # None => ValidCapabilities(fresh)
  /\ \A s \in {disk, session, server} \ {None} :
       s.id \in 1 .. issued /\ ValidCapabilities(s.capabilities)
  /\ issued \in 0 .. MaxSessions
  /\ cached # None => cached \subseteq Model
  /\ beats \in 0 .. ScanInterval - 1 /\ accepted \subseteq Model /\ stale \in Nat
  /\ result # None => result \in Verdict

\* While the server holds the node's session to be live, both know the same
\* capabilities of it, across updates, lost replies, crashes and restarts.
CapabilitiesAgree ==
  \A s \in {disk, session} \ {None} :
    server # None /\ s.id = server.id => s.capabilities = server.capabilities

\* A well-formed request that the server has selected by an announced profile is not
\* refused as unsupported, whatever has become of Ollama and the session since.
SelectedIsAdmitted == task # NoTask /\ task.selected => result.cause # "unsupported"

\* The task was not refused before its inference.
Admitted == task # NoTask /\ result.cause \notin {"invalid", "unsupported"}

\* What reaches the inference uses nothing the model's profile does not name, at any
\* depth of a message or an input, and no image in there has to be fetched: the walk
\* that collects the features and the walk that checks the content both go down as far
\* as the protocols do.  It says nothing of the system text of Messages, nor of items
\* of messages that name another type: see UnsupportedIsRejected.
AdmittedWithinProfile == Admitted => task.within

\* All that validate_content takes for content is within the profile of an admitted
\* request ("Per-model declarations control tools, vision, thinking, SSE and
\* cancellation; unsupported semantics are rejected, not removed.", README.md).  The
\* walk that collects the features leaves two places out.
UnsupportedIsRejected == Admitted => task.whole

\* The models a heartbeat accepts are registered ones, if any are (a session refreshed
\* while Ollama had no models registers none, and then all that Ollama has are accepted),
\* and one that is gone from Ollama is accepted for less than a scan interval, unless a
\* scan fails.
AcceptedIsCurrent ==
  pc = "run" => /\ Registered # {} => accepted \subseteq Registered
                /\ stale < ScanInterval
=============================================================================

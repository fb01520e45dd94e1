---------------------------- MODULE NativeRequest ----------------------------
(***************************************************************************)
(* Native requests, the profiles a node advertises for its models, and the *)
(* rules by which a request is checked, its requirements are computed and  *)
(* a profile permits it.  A request body is JSON; it is reduced to what    *)
(* the rules look at.  Its content is the way from an item of the messages *)
(* (or the input) down to one block: the rules descend it block by block.  *)
(***************************************************************************)
EXTENDS Naturals, Sequences, FiniteSets

CONSTANTS
  None,
  MaxBody,           \* MAX_NATIVE_BODY_BYTES
  MaxTokens,         \* i32::MAX, the largest token limit
  ShortName          \* the model names that are not empty and have at most 100 characters

ASSUME RequestAssumption ==
  MaxBody \in Nat \ {0} /\ MaxTokens \in Nat \ {0} /\ None \notin ShortName

Operation == {"chat", "messages", "responses"}
NativeFeature ==
  {"sse", "cancellation", "tools", "vision", "structured_output", "thinking"}

\* The types of content blocks; "message" also stands for an item without a type,
\* "tool_message" for one of role tool or with tool calls.
BlockType == {"text", "message", "tool_message", "tool_result", "tool_use", "image",
              "thinking", "document", "cached"}

\* inline: an image is given as data, not as a URL.
Block(type, inline) == [type |-> type, inline |-> inline]

-----------------------------------------------------------------------------
(* node_native.rs: what a request must be *)

\* Content is inspected inside messages and tool results, nowhere else.
Descends == {"message", "tool_message", "tool_result"}

\* Mutant: a tool result is a leaf.
DescendsMessages == {"message", "tool_message"}

\* Where inspect_content goes on.
Inspects == Descends

\* The blocks of a path that a walk which descends into D reaches, from index k on.
Reached(path, k, D) ==
  {path[i] : i \in {j \in k .. Len(path) : \A h \in k .. j - 1 : path[h].type \in D}}

BlockAllowed(block, operation) ==
  /\ block.type # "document"
  /\ block.type = "image" => block.inline
  /\ operation = "messages" => block.type # "cached"

\* Any item or block may hold others, whatever its type.
WellTyped(r) ==
  /\ r.bytes \in Nat
  /\ r.content \in Seq([type : BlockType, inline : BOOLEAN])
  /\ r.system \in Seq([type : BlockType, inline : BOOLEAN])

\* The items of messages are checked from their content down, whatever their type, those
\* of an input from the item itself.
ValidContent(r) ==
  LET first == IF r.operation = "responses" THEN 1 ELSE 2
  IN \A block \in Reached(r.content, first, Descends) \cup
                  (IF r.operation = "messages" THEN Reached(r.system, 1, Descends) ELSE {}) :
       BlockAllowed(block, r.operation)

\* tools: "none", "function", "hosted" or "cached"; choice: what tool_choice asks for;
\* budget: a thinking budget or a user id, which only Messages have.
ValidRuntimeFeatures(r) ==
  /\ r.operation = "messages" => r.tools # "cached" /\ ~r.budget /\ r.choice \in {"absent", "auto"}
  /\ r.operation # "messages" => r.choice \in {"absent", "auto", "none"}
  /\ r.operation = "responses" => r.tools \in {"none", "function"}
  /\ ValidContent(r)

\* Messages must limit their output, Responses may.
ValidOutputLimit(r) ==
  CASE r.operation = "messages"  -> r.output \in 1 .. MaxTokens
    [] r.operation = "responses" -> r.output = None \/ r.output \in 1 .. MaxTokens
    [] OTHER -> TRUE

ValidStructure(r) ==
  /\ r.stream \in {"absent", "false", "true"}
  /\ r.content # <<>>
  /\ r.operation = "responses" => ~r.stateful
  /\ ValidOutputLimit(r)
  /\ ValidRuntimeFeatures(r)

\* Only Messages may have a header, the version.
ValidHeaders(r) ==
  r.headers = "none" \/ (r.operation = "messages" /\ r.headers = "version")

\* NodeNativeRequest::validate_for, with the operation of the request itself.
ValidFor(r, model) ==
  /\ r.bytes <= MaxBody
  /\ ValidHeaders(r)
  /\ r.model = model /\ model \in ShortName
  /\ ValidStructure(r)

Streams(r) == r.stream = "true"

-----------------------------------------------------------------------------
(* node_capability.rs: what a request needs *)

FeatureOf(type) ==
  CASE type \in {"tool_message", "tool_result", "tool_use"} -> {"tools"}
    [] type = "image"    -> {"vision"}
    [] type = "thinking" -> {"thinking"}
    [] OTHER -> {}

InspectContent(path) == UNION {FeatureOf(b.type) : b \in Reached(path, 1, Inspects)}

\* Items of messages and of an input alike are inspected from the item itself; the
\* system text of Messages is not.
InspectFeatures(r) ==
  (IF r.tools # "none" THEN {"tools"} ELSE {}) \cup InspectContent(r.content) \cup
  (IF r.structured THEN {"structured_output"} ELSE {}) \cup
  (IF r.thinks THEN {"thinking"} ELSE {})

\* from_request succeeds for a valid request with a usable output limit.
HasRequirements(r) ==
  ValidFor(r, r.model) /\ (r.output = None \/ r.output \in 1 .. MaxTokens)

Requirements(r) ==
  [model |-> r.model, operation |-> r.operation, bytes |-> r.bytes, output |-> r.output,
   features |-> InspectFeatures(r) \cup (IF Streams(r) THEN {"sse"} ELSE {})]

-----------------------------------------------------------------------------
(* node_capability.rs: what a profile permits *)

\* for_operation and with_features.
Profile(model, operation, features) ==
  [model |-> model, operation |-> operation, features |-> features,
   max_request |-> MaxBody, max_response |-> MaxBody, max_output |-> None]

WithinLimits(p) ==
  /\ p.features \subseteq NativeFeature
  /\ p.max_request \in 1 .. MaxBody /\ p.max_response \in 1 .. MaxBody
  /\ p.max_output = None \/ p.max_output \in 1 .. MaxTokens

ValidProfile(p) == p.model \in ShortName /\ WithinLimits(p)

Permits(p, needed) ==
  /\ ValidProfile(p)
  /\ p.model = needed.model /\ p.operation = needed.operation
  /\ needed.features \subseteq p.features
  /\ p.max_request >= needed.bytes
  /\ p.max_output = None \/ (needed.output # None /\ needed.output <= p.max_output)

\* The server picks a node by the selector: neither size nor output limit.
Selects(p, needed) ==
  /\ p.model = needed.model /\ p.operation = needed.operation
  /\ needed.features \subseteq p.features

\* What validate_profiles asks of profiles together: they are in the announced scope,
\* one for a model and operation.
InScope(profiles, models, operations) ==
  /\ \A i \in DOMAIN profiles :
       profiles[i].model \in models /\ profiles[i].operation \in operations
  /\ \A i, j \in DOMAIN profiles :
       profiles[i].model = profiles[j].model /\ profiles[i].operation = profiles[j].operation
         => i = j

-----------------------------------------------------------------------------
(* node_native.rs: what a response must be *)

\* An error must say so; a success is about the model and its usage adds up.
\* usage: "exact", "missing" or "inconsistent", the sum being no part of Messages.
ValidResponse(response, operation) ==
  /\ response.bytes <= MaxBody
  /\ response.headers = "allowed"
  /\ \/ response.status \in 400 .. 599 /\ response.error
     \/ /\ response.status = 200 /\ ~response.error
        /\ response.same_model
        /\ response.whole
        /\ \/ response.usage = "exact"
           \/ response.usage = "inconsistent" /\ operation = "messages"

ValidResult(p, response) ==
  /\ response.bytes <= p.max_response
  /\ ValidResponse(response, p.operation)
  /\ response.status = 200 /\ p.max_output # None => response.output <= p.max_output
=============================================================================

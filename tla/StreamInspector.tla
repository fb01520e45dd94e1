-------------------------- MODULE StreamInspector --------------------------
(***************************************************************************)
(* NativeStreamInspector: what the frames of a native stream add up to, in *)
(* any order a local upstream may send them: whether the response has      *)
(* ended, how, and which token usage may be charged.  A frame is reduced   *)
(* to what the inspector tells apart:                                      *)
(*   type     the event, or what makes the frame be skipped or refused     *)
(*   id       the response id, or None                                     *)
(*   bytes    the length of the text generated                             *)
(*   usage    the token counts, None, or Garbage when they do not add up   *)
(*   choices  for Chat, the choices named and those of them that finish    *)
(*   valid    the required fields are there                                *)
(***************************************************************************)
EXTENDS Naturals, FiniteSets

CONSTANTS
  Id, None, Garbage,
  Choice,            \* indices of the choices of a Chat response
  Tokens,            \* token counts reported
  Delta,             \* lengths of generated text in one frame
  MaxBytes           \* bound: text generated in one stream

Protocol == {"chat", "messages", "responses"}
Outcome  == {"complete", "incomplete", "failed"}
OrNone(S) == S \cup {None}

ASSUME InspectorAssumption ==
  /\ None \notin Id /\ None \notin Outcome /\ None \notin Tokens
  /\ Tokens \subseteq Nat /\ Delta \subseteq Nat /\ MaxBytes \in Nat

VARIABLES
  protocol,
  seen_payload, chat_choices,      \* chat_choices: the choices seen, and whether done
  response_id, input, output, output_final, output_bytes,
  outcome,
  (* what was really observed, for the properties *)
  ids, inputs,                     \* response ids and input counts of the stream
  unaccounted,                     \* text since the last count of the output
  unfinished                       \* choices of a Chat stream without a finish

inspector == <<seen_payload, chat_choices, response_id, input, output, output_final,
               output_bytes, outcome>>
ghosts == <<ids, inputs, unaccounted, unfinished>>
vars == <<protocol, inspector, ghosts>>

Usage == [input : OrNone(Tokens), output : OrNone(Tokens)] \cup {None, Garbage}

\* What Ollama may send: the events of the stream's own protocol, in any order.
Skipped == {"empty", "extension"}        \* no data (comments), an unknown event
Refused == {"malformed", "error", "wrong_model"}
Ending  == {"response.completed", "response.incomplete", "response.failed"}
Type(p) ==
  Skipped \cup Refused \cup
  CASE p = "chat"      -> {"chunk", "[DONE]"}
    [] p = "messages"  -> {"message_start", "message_delta", "message_stopping",
                           "message_stop"}
    [] p = "responses" -> {"response.created", "response.delta"} \cup Ending

\* For Chat, choices names choices and the finished ones among them; None: no array.
Choices(p) ==
  IF p = "chat" THEN {cd \in (SUBSET Choice) \X (SUBSET Choice) : cd[2] \subseteq cd[1]} \cup {None}
  ELSE {None}

\* The frames that are counted; of the others only the type matters.
Counted(p) == Type(p) \ (Skipped \cup Refused \cup {"[DONE]"})
Frame(p) == [type : Counted(p), id : OrNone(Id), bytes : Delta, usage : Usage,
             choices : Choices(p), valid : BOOLEAN]

TypeOK ==
  /\ protocol \in Protocol /\ seen_payload \in BOOLEAN
  /\ DOMAIN chat_choices \subseteq Choice
  /\ \A c \in DOMAIN chat_choices : chat_choices[c] \in BOOLEAN
  /\ response_id \in OrNone(Id)
  /\ input \in OrNone(Tokens) /\ output \in OrNone(Tokens)
  /\ output_final \in (IF output = None THEN {FALSE} ELSE BOOLEAN) /\ output_bytes \in 0 .. MaxBytes
  /\ outcome \in OrNone(Outcome)
  /\ ids \subseteq Id /\ inputs \subseteq Tokens /\ unaccounted \in BOOLEAN
  /\ unfinished \subseteq Choice

Init ==
  /\ protocol \in Protocol
  /\ seen_payload = FALSE /\ chat_choices = [c \in {} |-> FALSE]
  /\ response_id = None /\ input = None /\ output = None
  /\ output_final = FALSE /\ output_bytes = 0 /\ outcome = None
  /\ ids = {} /\ inputs = {} /\ unaccounted = FALSE /\ unfinished = {}

-----------------------------------------------------------------------------
(* observe_usage and count_output *)

HasUsage(f) == f.usage \notin {None, Garbage}
Named(f) == IF f.choices = None THEN {} ELSE f.choices[1]
Finished(f) == IF f.choices = None THEN {} ELSE f.choices[2]

\* The count covers the whole output: the event that ends the generation, or for
\* Chat a frame without choices or one that finishes every choice left.
Authoritative(f) ==
  \/ /\ protocol = "chat" /\ f.choices # None
     /\ \/ Named(f) = {}
        \/ /\ Named(f) = Finished(f)
           /\ \A c \in DOMAIN chat_choices : chat_choices[c] \/ c \in Named(f)
  \/ protocol = "messages" /\ f.type = "message_stopping"
  \/ protocol = "responses" /\ f.type \in Ending

\* Mutant: a count may be lower than the last one.
OutputAny(f) == TRUE

InputAgrees(f) == f.usage.input = None \/ input \in {None, f.usage.input}
OutputGrows(f) == f.usage.output = None \/ output = None \/ f.usage.output >= output

UsageAccepted(f) ==
  \/ f.usage = None
  \/ HasUsage(f) /\ InputAgrees(f) /\ OutputGrows(f)

\* Mutant: text after an exact count leaves it exact.
FinalAfterText(f) == output_final

\* Any text generated makes the count so far a lower bound.
FinalAfter(f) == IF f.bytes > 0 THEN FALSE ELSE output_final

\* Mutant: a usage without an output count settles one.
SettledByAny(f) == Authoritative(f)

Settled(f) == IF f.usage.output = None THEN FinalAfter(f) ELSE Authoritative(f)

CountOutput(f) ==
  /\ output_bytes' = output_bytes + f.bytes
  /\ IF UsageAccepted(f) /\ f.usage # None
     THEN /\ input' = IF f.usage.input = None THEN input ELSE f.usage.input
          /\ output' = IF f.usage.output = None THEN output ELSE f.usage.output
          /\ output_final' = Settled(f)
     ELSE \* a refused count may have set the input already; nothing is charged by it
          /\ input' = IF HasUsage(f) /\ InputAgrees(f) /\ f.usage.input # None
                      THEN f.usage.input ELSE input
          /\ output_final' = FinalAfter(f)
          /\ UNCHANGED output

-----------------------------------------------------------------------------
(* observe_for_model *)

Observed(f) ==
  /\ ids' = IF f.id = None THEN ids ELSE ids \cup {f.id}
  /\ inputs' = IF HasUsage(f) /\ f.usage.input # None THEN inputs \cup {f.usage.input}
               ELSE inputs
  /\ unaccounted' = IF HasUsage(f) /\ f.usage.output # None THEN FALSE
                    ELSE unaccounted \/ f.bytes > 0
  /\ unfinished' = (unfinished \cup (Named(f) \ DOMAIN chat_choices)) \ Finished(f)

Ends(o) == outcome' = o

\* A frame without data, or of an event no protocol here knows.
Skip(f) ==
  /\ f.type = "empty" \/ (f.type = "extension" /\ outcome = None)
  /\ UNCHANGED vars

\* Data after the outcome, whatever it is, fails the stream.
DataAfterOutcome(f) ==
  /\ outcome # None /\ f.type # "empty"
  /\ Ends("failed")
  /\ UNCHANGED <<protocol, seen_payload, chat_choices, response_id, input, output,
                 output_final, output_bytes, ghosts>>

Refuse(f) ==
  /\ outcome = None /\ f.type \in Refused
  /\ Ends("failed")
  /\ UNCHANGED <<protocol, seen_payload, chat_choices, response_id, input, output,
                 output_final, output_bytes, ghosts>>

\* Mutant: one finished choice is enough.
SomeDone == \E c \in DOMAIN chat_choices : chat_choices[c]

AllDone == DOMAIN chat_choices # {} /\ \A c \in DOMAIN chat_choices : chat_choices[c]

\* Chat ends with [DONE], which is no JSON and is not counted.
Done(f) ==
  /\ outcome = None /\ f.type = "[DONE]"
  /\ Ends(IF seen_payload /\ AllDone THEN "complete" ELSE "failed")
  /\ UNCHANGED <<protocol, seen_payload, chat_choices, response_id, input, output,
                 output_final, output_bytes, ghosts>>

\* Mutant: the last id counts.
IdAccepted(f) == TRUE

IdAgrees(f) == f.id = None \/ response_id \in {None, f.id}

\* What each protocol makes of a frame whose id and usage are accepted.
Chunk(f) ==
  IF ~f.valid \/ f.choices = None THEN Ends("failed") /\ UNCHANGED <<seen_payload, chat_choices>>
  ELSE /\ seen_payload' = TRUE
       /\ chat_choices' = [c \in DOMAIN chat_choices \cup Named(f) |->
                             \/ c \in Finished(f)
                             \/ c \in DOMAIN chat_choices /\ chat_choices[c]]
       /\ UNCHANGED outcome

Message(f) ==
  /\ UNCHANGED chat_choices
  /\ \/ /\ f.type = "message_start"
        /\ IF seen_payload \/ ~f.valid \/ f.id = None
           THEN Ends("failed") /\ UNCHANGED seen_payload
           ELSE seen_payload' = TRUE /\ UNCHANGED outcome
     \/ /\ f.type = "message_stop"
        /\ Ends(IF seen_payload /\ f.valid THEN "complete" ELSE "failed")
        /\ UNCHANGED seen_payload
     \/ /\ f.type \notin {"message_start", "message_stop"}
        /\ UNCHANGED <<outcome, seen_payload>>

\* The outcome a Responses event ends with.
EndOf(type) ==
  IF type = "response.completed" THEN "complete"
  ELSE IF type = "response.incomplete" THEN "incomplete" ELSE "failed"

Response(f) ==
  /\ UNCHANGED chat_choices
  /\ seen_payload' = (seen_payload \/ (f.valid /\ f.type # "response.delta"))
  /\ \/ f.type = "response.delta" /\ UNCHANGED outcome
     \/ f.type = "response.created" /\ (IF f.valid THEN UNCHANGED outcome ELSE Ends("failed"))
     \/ f.type \in Ending /\ Ends(IF ~f.valid \/ f.id = None THEN "failed" ELSE EndOf(f.type))

Interpret(f) ==
  \/ protocol = "chat" /\ Chunk(f)
  \/ protocol = "messages" /\ Message(f)
  \/ protocol = "responses" /\ Response(f)

Count(f) ==
  /\ outcome = None /\ f.type \in Counted(protocol)
  /\ output_bytes + f.bytes <= MaxBytes
  /\ Observed(f)
  /\ UNCHANGED protocol
  /\ IF ~IdAgrees(f)
     THEN /\ Ends("failed")
          /\ UNCHANGED <<seen_payload, chat_choices, response_id, input, output,
                         output_final, output_bytes>>
     ELSE /\ response_id' = IF f.id = None THEN response_id ELSE f.id
          /\ CountOutput(f)
          /\ IF UsageAccepted(f) THEN Interpret(f)
             ELSE Ends("failed") /\ UNCHANGED <<seen_payload, chat_choices>>

Bare(p, t) == [type |-> t, id |-> None, bytes |-> 0, usage |-> None,
               choices |-> None, valid |-> TRUE]

Next ==
  \/ \E t \in Type(protocol) : LET f == Bare(protocol, t)
                               IN Skip(f) \/ DataAfterOutcome(f) \/ Refuse(f) \/ Done(f)
  \/ \E f \in Frame(protocol) : Count(f)

Spec == Init /\ [][Next]_vars

-----------------------------------------------------------------------------
(* summary: the usage reported with the outcome *)

Most(a, b) == IF a >= b THEN a ELSE b
Known(n) == IF n = None THEN 0 ELSE n

\* Without an exact count, four bytes of text are taken for a token.
Charged == IF output_final THEN output ELSE Most(Known(output), (output_bytes + 3) \div 4)

-----------------------------------------------------------------------------
(* Properties *)

\* What is charged comes from one response: unless the stream has failed, every id
\* and every input count observed on it was the same, whichever frames carried them.
OneResponse ==
  outcome # "failed" => Cardinality(ids) <= 1 /\ Cardinality(inputs) <= 1

\* Usage reported as exact accounts for all the text: no frame generated text after
\* the count it rests on.  (A frame that is refused fails the
\* stream; its text is not counted.)
ExactMeansAccounted ==
  outcome # "failed" /\ output_final => ~unaccounted

\* An estimate never takes back what an earlier count, exact or not, has charged;
\* only an exact count may, when text was overestimated.
ChargeNeverFalls == [][output_final' \/ Charged' >= Charged]_vars

\* A Chat stream is complete only when every choice that appeared was finished,
\* also one that appears after another has finished.
WholeWhenComplete ==
  protocol = "chat" /\ outcome = "complete" =>
    seen_payload /\ unfinished = {}
=============================================================================

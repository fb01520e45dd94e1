------------------------ MODULE StreamInspectorProofs ------------------------
(***************************************************************************)
(* The properties of StreamInspector for any ids, choices, token counts    *)
(* and lengths.  Each rests on what the inspector's own variables know of  *)
(* the frames observed so far: an accepted id or input count is the one    *)
(* kept, an exact count is still exact, and the choices that are not done  *)
(* are the unfinished ones.                                                *)
(***************************************************************************)
EXTENDS StreamInspector, FiniteSetTheorems, TLAPS

\* What the inspector keeps of the ids and the input counts.
KeptIsObserved ==
  outcome # "failed" => ids \subseteq {response_id} /\ inputs \subseteq {input}

\* The choices left open are the ones the stream did not finish.
OpenChoices ==
  protocol = "chat" /\ outcome # "failed" =>
    unfinished = {c \in DOMAIN chat_choices : ~chat_choices[c]}

\* A complete Chat stream had a payload and no choice left open.
CompleteChoices ==
  protocol = "chat" /\ outcome = "complete" =>
    seen_payload /\ \A c \in DOMAIN chat_choices : chat_choices[c]

InspectorInv ==
  /\ KeptIsObserved /\ ExactMeansAccounted /\ OpenChoices /\ CompleteChoices

-----------------------------------------------------------------------------
(* Frames *)

\* What a counted frame is made of.
LEMMA FrameParts ==
  ASSUME NEW p, NEW f \in Frame(p)
  PROVE  /\ f.id \in OrNone(Id) /\ f.bytes \in Nat /\ f.usage \in Usage
         /\ f.choices \in Choices(p) /\ f.valid \in BOOLEAN
         /\ Named(f) \subseteq Choice
         /\ HasUsage(f) => /\ f.usage.input \in OrNone(Tokens)
                           /\ f.usage.output \in OrNone(Tokens)
<1>1. /\ f.id \in OrNone(Id) /\ f.bytes \in Nat /\ f.usage \in Usage
      /\ f.choices \in Choices(p) /\ f.valid \in BOOLEAN
  BY InspectorAssumption DEF Frame
<1>2. Named(f) \subseteq Choice
  BY <1>1 DEF Named, Choices
<1>3. HasUsage(f) => /\ f.usage.input \in OrNone(Tokens)
                     /\ f.usage.output \in OrNone(Tokens)
  BY <1>1 DEF HasUsage, Usage
<1> QED
  BY <1>1, <1>2, <1>3

-----------------------------------------------------------------------------
(* Types *)

\* The parts of the type a counted frame is interpreted into.
LEMMA InterpretType ==
  ASSUME TypeOK, NEW f \in Frame(protocol), Interpret(f), UNCHANGED protocol
  PROVE  /\ seen_payload' \in BOOLEAN /\ outcome' \in OrNone(Outcome)
         /\ DOMAIN chat_choices' \subseteq Choice
         /\ \A c \in DOMAIN chat_choices' : chat_choices'[c] \in BOOLEAN
<1>1. CASE Chunk(f)
  BY <1>1, FrameParts DEF TypeOK, Chunk, Ends, Outcome, OrNone
<1>2. CASE Message(f)
  BY <1>2 DEF TypeOK, Message, Ends, Outcome, OrNone
<1>3. CASE Response(f)
  BY <1>3, FrameParts DEF TypeOK, Response, Ends, EndOf, Outcome, OrNone
<1> QED
  BY <1>1, <1>2, <1>3 DEF Interpret

\* The counts stay counts, and an exact one is a number.
LEMMA CountOutputType ==
  ASSUME TypeOK, NEW f \in Frame(protocol), CountOutput(f), output_bytes + f.bytes <= MaxBytes
  PROVE  /\ input' \in OrNone(Tokens) /\ output' \in OrNone(Tokens)
         /\ output_final' \in (IF output' = None THEN {FALSE} ELSE BOOLEAN)
         /\ output_bytes' \in 0 .. MaxBytes
<1>1. Authoritative(f) \in BOOLEAN
  BY DEF Authoritative
<1>2. output_bytes' \in 0 .. MaxBytes
  BY FrameParts, InspectorAssumption DEF CountOutput, TypeOK
<1>3. CASE UsageAccepted(f) /\ f.usage # None
  <2>1. HasUsage(f)
    BY <1>3 DEF UsageAccepted
  <2>2. input' \in OrNone(Tokens) /\ output' \in OrNone(Tokens)
    BY <1>3, <2>1, FrameParts DEF CountOutput, TypeOK
  <2>3. output_final' = Settled(f)
    BY <1>3 DEF CountOutput
  <2>4. CASE f.usage.output = None
    BY <1>2, <1>3, <2>2, <2>3, <2>4 DEF CountOutput, Settled, FinalAfter, TypeOK
  <2>5. CASE f.usage.output # None
    BY <1>1, <1>2, <1>3, <2>2, <2>3, <2>5 DEF CountOutput, Settled
  <2> QED
    BY <1>2, <2>2, <2>4, <2>5
<1>4. CASE ~(UsageAccepted(f) /\ f.usage # None)
  BY <1>2, <1>4, FrameParts DEF CountOutput, TypeOK, FinalAfter
<1> QED
  BY <1>3, <1>4

\* A counted frame keeps the types.
LEMMA CountType ==
  ASSUME TypeOK, NEW f \in Frame(protocol), Count(f)
  PROVE  TypeOK'
<1>1. /\ ids' \subseteq Id /\ inputs' \subseteq Tokens /\ unaccounted' \in BOOLEAN
      /\ unfinished' \subseteq Choice
  <2>1. Observed(f)
    BY DEF Count
  <2>2. ids' \subseteq Id
    BY <2>1, FrameParts DEF Observed, TypeOK, OrNone
  <2>3. inputs' \subseteq Tokens
    BY <2>1, FrameParts DEF Observed, TypeOK, OrNone
  <2>4. unaccounted' \in BOOLEAN
    BY <2>1, FrameParts DEF Observed, TypeOK
  <2>5. unfinished' \subseteq Choice
    BY <2>1, FrameParts DEF Observed, TypeOK
  <2> QED
    BY <2>2, <2>3, <2>4, <2>5
<1>2. protocol' = protocol /\ output_bytes + f.bytes <= MaxBytes
  BY DEF Count
<1>3. CASE ~IdAgrees(f)
  BY <1>1, <1>2, <1>3 DEF Count, TypeOK, Ends, Outcome, OrNone
<1>4. CASE IdAgrees(f)
  <2>1. response_id' \in OrNone(Id)
    BY <1>4, FrameParts DEF Count, TypeOK
  <2>2. CountOutput(f)
    BY <1>4 DEF Count
  <2>3. CASE UsageAccepted(f)
    <3>1. Interpret(f)
      BY <1>4, <2>3 DEF Count
    <3> QED
      BY <1>1, <1>2, <2>1, <2>2, <3>1, CountOutputType, InterpretType DEF TypeOK
  <2>4. CASE ~UsageAccepted(f)
    BY <1>1, <1>2, <1>4, <2>1, <2>2, <2>4, CountOutputType
       DEF TypeOK, Count, Ends, Outcome, OrNone
  <2> QED
    BY <2>3, <2>4
<1> QED
  BY <1>3, <1>4

\* TypeOK: the type of the inspector and of what was observed.
THEOREM TypeCorrect == Spec => []TypeOK
<1>1. Init => TypeOK
  <2> SUFFICES ASSUME Init PROVE TypeOK
    OBVIOUS
  <2>1. DOMAIN chat_choices = {}
    BY DEF Init
  <2>2. output_bytes \in 0 .. MaxBytes
    BY InspectorAssumption DEF Init
  <2>3. output_final \in (IF output = None THEN {FALSE} ELSE BOOLEAN)
    BY DEF Init
  <2> QED
    BY <2>1, <2>2, <2>3 DEF Init, TypeOK, OrNone
<1>2. TypeOK /\ [Next]_vars => TypeOK'
  <2> SUFFICES ASSUME TypeOK, [Next]_vars PROVE TypeOK'
    OBVIOUS
  <2>1. ASSUME NEW f, Skip(f) \/ UNCHANGED vars PROVE TypeOK'
    BY <2>1 DEF Skip, vars, inspector, ghosts, TypeOK
  <2>2. ASSUME NEW f, DataAfterOutcome(f) PROVE TypeOK'
    BY <2>2 DEF DataAfterOutcome, ghosts, TypeOK, Ends, Outcome, OrNone
  <2>3. ASSUME NEW f, Refuse(f) PROVE TypeOK'
    BY <2>3 DEF Refuse, ghosts, TypeOK, Ends, Outcome, OrNone
  <2>4. ASSUME NEW f, Done(f) PROVE TypeOK'
    BY <2>4 DEF Done, ghosts, TypeOK, Ends, Outcome, OrNone
  <2> QED
    BY <2>1, <2>2, <2>3, <2>4, CountType DEF Next
<1> QED
  BY <1>1, <1>2, PTL DEF Spec

-----------------------------------------------------------------------------
(* The invariant *)

\* A counted frame keeps the ids and the input counts one, or fails the stream.
LEMMA CountKeeps ==
  ASSUME TypeOK, InspectorInv, NEW f \in Frame(protocol), Count(f)
  PROVE  KeptIsObserved'
<1> SUFFICES ASSUME outcome' # "failed"
             PROVE  ids' \subseteq {response_id'} /\ inputs' \subseteq {input'}
  BY DEF KeptIsObserved
<1>1. IdAgrees(f) /\ UsageAccepted(f)
  BY DEF Count, Ends
<1>2. outcome = None /\ ids \subseteq {response_id} /\ inputs \subseteq {input}
  BY InspectorAssumption DEF Count, InspectorInv, KeptIsObserved, Outcome
<1>3. Observed(f) /\ CountOutput(f)
  BY <1>1 DEF Count
<1>4. ids \subseteq Id /\ inputs \subseteq Tokens
  BY DEF TypeOK
<1>5. ids' \subseteq {response_id'}
  <2>1. response_id' = IF f.id = None THEN response_id ELSE f.id
    BY <1>1 DEF Count
  <2>2. ids' = IF f.id = None THEN ids ELSE ids \cup {f.id}
    BY <1>3 DEF Observed
  <2>3. f.id # None => ids \subseteq {f.id}
    BY <1>1, <1>2, <1>4, InspectorAssumption DEF IdAgrees
  <2> QED
    BY <1>2, <2>1, <2>2, <2>3
<1>6. inputs' \subseteq {input'}
  <2>1. CASE f.usage = None
    BY <1>2, <1>3, <2>1 DEF Observed, CountOutput, HasUsage
  <2>2. CASE f.usage # None
    <3>1. HasUsage(f) /\ InputAgrees(f)
      BY <1>1, <2>2 DEF UsageAccepted
    <3>2. f.usage.input # None => inputs \subseteq {f.usage.input}
      BY <1>2, <1>4, <3>1, InspectorAssumption DEF InputAgrees
    <3>3. input' = IF f.usage.input = None THEN input ELSE f.usage.input
      BY <1>1, <1>3, <2>2 DEF CountOutput
    <3> QED
      BY <1>2, <1>3, <3>1, <3>2, <3>3 DEF Observed
  <2> QED
    BY <2>1, <2>2
<1> QED
  BY <1>5, <1>6

\* A counted frame keeps an exact count exact only if it brings no text after it.
LEMMA CountAccounts ==
  ASSUME TypeOK, InspectorInv, NEW f \in Frame(protocol), Count(f)
  PROVE  ExactMeansAccounted'
<1> SUFFICES ASSUME outcome' # "failed", output_final' PROVE ~unaccounted'
  BY DEF ExactMeansAccounted
<1>1. IdAgrees(f) /\ UsageAccepted(f)
  BY DEF Count, Ends
<1>2. outcome = None /\ (output_final => ~unaccounted)
  BY InspectorAssumption DEF Count, InspectorInv, ExactMeansAccounted, Outcome
<1>3. Observed(f) /\ CountOutput(f)
  BY <1>1 DEF Count
<1>4. CASE f.usage = None
  BY <1>2, <1>3, <1>4 DEF Observed, CountOutput, HasUsage, FinalAfter
<1>5. CASE f.usage # None /\ f.usage.output = None
  BY <1>1, <1>2, <1>3, <1>5 DEF Observed, CountOutput, UsageAccepted, Settled, FinalAfter
<1>6. CASE f.usage # None /\ f.usage.output # None
  BY <1>1, <1>3, <1>6 DEF Observed, UsageAccepted
<1> QED
  BY <1>4, <1>5, <1>6

\* A counted frame opens and finishes the same choices for both.
LEMMA CountChoices ==
  ASSUME TypeOK, InspectorInv, NEW f \in Frame(protocol), Count(f)
  PROVE  OpenChoices' /\ CompleteChoices'
<1> SUFFICES ASSUME protocol' = "chat", outcome' # "failed"
             PROVE  /\ unfinished' = {c \in DOMAIN chat_choices' : ~chat_choices'[c]}
                    /\ outcome' # "complete"
  BY DEF OpenChoices, CompleteChoices
<1>1. protocol = "chat" /\ outcome = None
  BY DEF Count
<1>2. unfinished = {c \in DOMAIN chat_choices : ~chat_choices[c]}
  BY <1>1, InspectorAssumption DEF InspectorInv, OpenChoices, Outcome
<1>3. Chunk(f) /\ Observed(f)
  BY <1>1 DEF Count, Ends, Interpret
<1>4. /\ UNCHANGED outcome
      /\ chat_choices' = [c \in DOMAIN chat_choices \cup Named(f) |->
                            \/ c \in Finished(f)
                            \/ c \in DOMAIN chat_choices /\ chat_choices[c]]
  BY <1>3 DEF Chunk, Ends
<1>5. unfinished' = (unfinished \cup (Named(f) \ DOMAIN chat_choices)) \ Finished(f)
  BY <1>3 DEF Observed
<1> QED
  BY <1>1, <1>2, <1>4, <1>5, InspectorAssumption DEF Outcome

\* Every frame keeps types and invariant.
THEOREM InspectorInvariant == Spec => [](TypeOK /\ InspectorInv)
<1>1. Init => InspectorInv
  <2> SUFFICES ASSUME Init PROVE InspectorInv
    OBVIOUS
  <2>1. DOMAIN chat_choices = {} /\ outcome \notin Outcome
    BY InspectorAssumption DEF Init
  <2> QED
    BY <2>1 DEF Init, InspectorInv, KeptIsObserved, ExactMeansAccounted, OpenChoices,
                CompleteChoices, Outcome
<1>2. TypeOK /\ InspectorInv /\ [Next]_vars => InspectorInv'
  <2> SUFFICES ASSUME TypeOK, InspectorInv, [Next]_vars PROVE InspectorInv'
    OBVIOUS
  <2> USE DEF InspectorInv, KeptIsObserved, ExactMeansAccounted, OpenChoices, CompleteChoices
  <2>1. ASSUME NEW f, Skip(f) \/ UNCHANGED vars PROVE InspectorInv'
    BY <2>1 DEF Skip, vars, inspector, ghosts
  <2>2. ASSUME NEW f, DataAfterOutcome(f) PROVE InspectorInv'
    BY <2>2 DEF DataAfterOutcome, Ends, ghosts
  <2>3. ASSUME NEW f, Refuse(f) PROVE InspectorInv'
    BY <2>3 DEF Refuse, Ends, ghosts
  <2>4. ASSUME NEW f, Done(f) PROVE InspectorInv'
    BY <2>4, InspectorAssumption DEF Done, Ends, AllDone, ghosts, Outcome
  <2>5. ASSUME NEW f \in Frame(protocol), Count(f) PROVE InspectorInv'
    BY <2>5, CountKeeps, CountAccounts, CountChoices
  <2> QED
    BY <2>1, <2>2, <2>3, <2>4, <2>5 DEF Next
<1> QED
  BY <1>1, <1>2, TypeCorrect, PTL DEF Spec

-----------------------------------------------------------------------------
(* What follows from it *)

\* A set with at most one element is small.
LEMMA AtMostOne ==
  ASSUME NEW S, NEW x, S \subseteq {x}
  PROVE  Cardinality(S) <= 1
<1>1. S = {} \/ S = {x}
  OBVIOUS
<1>2. Cardinality({}) = 0
  BY FS_EmptySet
<1>3. Cardinality({x}) = 1
  BY FS_Singleton
<1> QED
  BY <1>1, <1>2, <1>3

\* OneResponse: ids and input counts of a stream that has not failed agree
\* (observe_for_model, observe_usage).
THEOREM OneResponseReported == Spec => []OneResponse
<1>1. InspectorInv => OneResponse
  <2> SUFFICES ASSUME InspectorInv, outcome # "failed"
               PROVE  Cardinality(ids) <= 1 /\ Cardinality(inputs) <= 1
    BY DEF OneResponse
  <2> QED
    BY AtMostOne DEF InspectorInv, KeptIsObserved
<1> QED
  BY <1>1, InspectorInvariant, PTL

\* ExactMeansAccounted: usage reported as exact covers all the text.
THEOREM ExactUsageIsComplete == Spec => []ExactMeansAccounted
<1>1. InspectorInv => ExactMeansAccounted
  BY DEF InspectorInv
<1> QED
  BY <1>1, InspectorInvariant, PTL

\* WholeWhenComplete: a complete Chat stream left no choice open.
THEOREM CompleteIsWhole == Spec => []WholeWhenComplete
<1>1. InspectorInv => WholeWhenComplete
  BY DEF InspectorInv, OpenChoices, CompleteChoices, WholeWhenComplete
<1> QED
  BY <1>1, InspectorInvariant, PTL

\* A count and an amount of text that only grow charge more.
LEMMA ChargedGrows ==
  ASSUME TypeOK, TypeOK', ~output_final',
         output_bytes' >= output_bytes,
         output # None => output' # None /\ output' >= output
  PROVE  Charged' >= Charged
<1>1. output_bytes \in Nat /\ output_bytes' \in Nat
  BY InspectorAssumption DEF TypeOK
<1>2. (output_bytes' + 3) \div 4 >= (output_bytes + 3) \div 4
  BY <1>1, SMTT(30)
<1>3. (output_bytes + 3) \div 4 \in Nat /\ (output_bytes' + 3) \div 4 \in Nat
  <2>1. ASSUME NEW n \in Nat PROVE (n + 3) \div 4 \in Nat
    <3>1. (n + 3) \div 4 \in Int
      OBVIOUS
    <3>2. (n + 3) \div 4 >= 0
      OBVIOUS
    <3> QED
      BY <3>1, <3>2
  <2> QED
    BY <1>1, <2>1
<1>4. Known(output) \in Nat /\ Known(output') \in Nat /\ Known(output') >= Known(output)
  BY InspectorAssumption DEF TypeOK, OrNone, Known
<1>5. output_final => output \in Nat /\ output = Known(output)
  BY InspectorAssumption DEF TypeOK, OrNone, Known
<1>6. Charged' = Most(Known(output'), (output_bytes' + 3) \div 4)
  BY DEF Charged
<1> HIDE DEF Known
<1>7. Most(Known(output'), (output_bytes' + 3) \div 4) >= Known(output)
  BY <1>3, <1>4 DEF Most
<1>8. Most(Known(output'), (output_bytes' + 3) \div 4) >= (output_bytes + 3) \div 4
  BY <1>2, <1>3, <1>4 DEF Most
<1>9. CASE output_final
  BY <1>5, <1>6, <1>7, <1>9 DEF Charged
<1>10. CASE ~output_final
  BY <1>6, <1>7, <1>8, <1>10 DEF Charged, Most
<1> QED
  BY <1>9, <1>10 DEF TypeOK

\* ChargeNeverFalls: without a new exact count, no frame lowers the charge.
THEOREM ChargeOnlyGrows == Spec => ChargeNeverFalls
<1>1. TypeOK /\ TypeOK' /\ [Next]_vars => [output_final' \/ Charged' >= Charged]_vars
  <2> SUFFICES ASSUME TypeOK, TypeOK', Next, ~output_final'
               PROVE  Charged' >= Charged
    OBVIOUS
  <2>1. output_bytes' >= output_bytes /\ (output # None => output' # None /\ output' >= output)
    <3>1. output_bytes \in Nat /\ (output # None => output \in Nat)
      BY InspectorAssumption DEF TypeOK, OrNone
    <3>2. ASSUME NEW f, Skip(f) \/ DataAfterOutcome(f) \/ Refuse(f) \/ Done(f)
          PROVE  UNCHANGED <<output, output_bytes>>
      BY <3>2 DEF Skip, DataAfterOutcome, Refuse, Done, vars, inspector
    <3>3. ASSUME NEW f \in Frame(protocol), Count(f)
          PROVE  <2>1
      <4>1. CASE ~IdAgrees(f)
        BY <3>1, <3>3, <4>1 DEF Count
      <4>2. CASE IdAgrees(f)
        <5>1. CountOutput(f)
          BY <3>3, <4>2 DEF Count
        <5>2. f.bytes \in Nat
          BY FrameParts
        <5>3. output_bytes' >= output_bytes
          BY <3>1, <5>1, <5>2 DEF CountOutput
        <5>4. CASE UsageAccepted(f) /\ f.usage # None
          <6>1. OutputGrows(f) /\ HasUsage(f)
            BY <5>4 DEF UsageAccepted
          <6>2. output' = IF f.usage.output = None THEN output ELSE f.usage.output
            BY <5>1, <5>4 DEF CountOutput
          <6> QED
            BY <3>1, <5>3, <6>1, <6>2 DEF OutputGrows
        <5>5. CASE ~(UsageAccepted(f) /\ f.usage # None)
          BY <3>1, <5>1, <5>3, <5>5 DEF CountOutput
        <5> QED
          BY <5>4, <5>5
      <4> QED
        BY <4>1, <4>2
    <3> QED
      BY <3>1, <3>2, <3>3 DEF Next
  <2> QED
    BY <2>1, ChargedGrows
<1> QED
  BY <1>1, TypeCorrect, PTL DEF Spec, ChargeNeverFalls
=============================================================================

-------------------------- MODULE MCNativeAdmission --------------------------
(* Small instances of NativeAdmission for TLC. *)
EXTENDS NativeAdmission

MCVersion == {[v |-> 0, core |-> <<0, 13, 9>>], [v |-> 2, core |-> <<1, 0, 0>>],
              [v |-> 1, core |-> <<0, 14, 0>>], [v |-> 0, core |-> <<0, 14>>]}
MCAbility == {{"completion", "tools", "vision", "json_schema"}, {"tools"}}

\* A request that is right for its operation, and what may be different about it.
Plain(operation, model) ==
  [operation |-> operation, model |-> model, bytes |-> 1, headers |-> "none", stream |-> "absent",
   content |-> <<Block("message", FALSE), Block("text", FALSE)>>, system |-> <<>>,
   tools |-> "none", choice |-> "absent", budget |-> FALSE, stateful |-> FALSE,
   structured |-> FALSE, thinks |-> FALSE,
   output |-> IF operation = "messages" THEN 1 ELSE None]

Leaves == {<<Block("image", TRUE)>>, <<Block("image", FALSE)>>, <<Block("tool_use", FALSE)>>,
           <<Block("thinking", FALSE)>>, <<Block("document", FALSE)>>,
           <<Block("cached", FALSE)>>}
Inner == Leaves \cup {<<Block("tool_result", FALSE)>> \o l : l \in Leaves}
\* Blocks in messages, and in items that are none.
Contents == {<<Block("message", FALSE)>> \o p : p \in Inner} \cup
            {<<Block(type, FALSE)>> \o l : type \in {"text", "tool_use"}, l \in Leaves}

Variants(p) ==
  {p} \cup {[p EXCEPT !.stream = x] : x \in {"true", "false", "invalid"}}
      \cup {[p EXCEPT !.bytes = MaxBody + 1], [p EXCEPT !.headers = "version"],
            [p EXCEPT !.headers = "other"], [p EXCEPT !.budget = TRUE],
            [p EXCEPT !.stateful = TRUE], [p EXCEPT !.structured = TRUE],
            [p EXCEPT !.thinks = TRUE], [p EXCEPT !.model = None], [p EXCEPT !.content = <<>>]}
      \cup {[p EXCEPT !.tools = x] : x \in {"function", "hosted", "cached"}}
      \cup {[p EXCEPT !.choice = x] : x \in {"auto", "none", "forced"}}
      \cup {[p EXCEPT !.output = x] : x \in {None, 0, MaxTokens, MaxTokens + 1}}
      \cup {[p EXCEPT !.content = x] : x \in Contents}
      \cup {[p EXCEPT !.system = x] : x \in Leaves}

\* All variants for one model, a stream and a plain request for the others.
MCRequest ==
  UNION {Variants(Plain(o, 1)) : o \in Operation} \cup
  {[Plain(o, m) EXCEPT !.stream = x] : o \in Operation, m \in Model, x \in {"absent", "true"}}

Answer == [bytes |-> 1, headers |-> "allowed", status |-> 200, error |-> FALSE,
           same_model |-> TRUE, whole |-> TRUE, usage |-> "exact", output |-> 1]
MCResponse == {Answer, [Answer EXCEPT !.bytes = MaxBody + 1], [Answer EXCEPT !.status = 404],
               [Answer EXCEPT !.status = 404, !.error = TRUE], [Answer EXCEPT !.same_model = FALSE],
               [Answer EXCEPT !.usage = "inconsistent"], [Answer EXCEPT !.whole = FALSE]}
=============================================================================

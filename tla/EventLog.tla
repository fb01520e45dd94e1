------------------------------ MODULE EventLog ------------------------------
(***************************************************************************)
(* What the delivery of a native stream promises to whoever reads the      *)
(* server's log of it, however many times an event had to be sent.  The    *)
(* log starts with Start, holds every upstream frame once and in order     *)
(* (n counts the frames up to and including the event), ends with at most  *)
(* one final event, and that event agrees with the frame before it.  The   *)
(* worker's result is a success only if the log ends with Terminal.        *)
(***************************************************************************)
EXTENDS Naturals, Sequences

VARIABLES log, result

Data  == {"payload", "complete", "failure"}   \* frames, as the inspector sees them
Final == {"terminal", "failed"}
Kind  == Data \cup Final \cup {"start", "heartbeat"}
Event == [kind : Kind, n : Nat]

\* An event of kind k may directly follow event d.
Follows(d, k) ==
  /\ d.kind \notin Final /\ k # "start"
  /\ (d.kind = "complete") <=> (k = "terminal")
  /\ d.kind = "failure" => k = "failed"

Extends(k) == IF log = <<>> THEN k = "start" ELSE Follows(log[Len(log)], k)

Count(k) == IF log = <<>> THEN 0
            ELSE log[Len(log)].n + (IF k \in Data THEN 1 ELSE 0)

Init == log = <<>> /\ result = "none"

\* An event may arrive after the worker has given up, never after a success.
Record(k) ==
  /\ result \in {"none", "failed"}
  /\ Extends(k)
  /\ log' = Append(log, [kind |-> k, n |-> Count(k)])
  /\ UNCHANGED result

Report(r) ==
  /\ result = "none"
  /\ r = "streamed" => /\ log # <<>>
                       /\ log[Len(log)].kind = "terminal"
  /\ r = "json" => log = <<>>
  /\ result' = r
  /\ UNCHANGED log

Next == \/ \E k \in Kind : Record(k)
        \/ \E r \in {"streamed", "json", "failed"} : Report(r)

Spec == Init /\ [][Next]_<<log, result>>
=============================================================================

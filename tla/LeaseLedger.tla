----------------------------- MODULE LeaseLedger -----------------------------
(***************************************************************************)
(* What a node does with the leases it is granted, as whoever grants them  *)
(* may rely on, across all its sessions, restarts included.  A lease is    *)
(* granted to one session.  If it reaches the node it first waits, and no  *)
(* other one is taken meanwhile; then it is worked on, once, beside fewer  *)
(* than MaxConcurrent others of its session; then it is settled.  Only the *)
(* end of the process drops leases, and then all it has.                   *)
(***************************************************************************)
EXTENDS Naturals, FiniteSets

CONSTANTS Session, NoSession, Lease, MaxConcurrent

VARIABLES
  holder,      \* the session each lease was granted to, or NoSession
  stage        \* "none", "waiting", "working", "settled" or "dropped"

InHand == {"waiting", "working"}

Working(s) == {l \in Lease : stage[l] = "working" /\ holder[l] = s}

Init ==
  /\ holder = [l \in Lease |-> NoSession]
  /\ stage = [l \in Lease |-> "none"]

\* The grant reaches the node, or is lost on the way.
Grant(l, s) ==
  /\ holder[l] = NoSession
  /\ holder' = [holder EXCEPT ![l] = s]
  /\ \/ /\ \A k \in Lease : stage[k] # "waiting"
        /\ stage' = [stage EXCEPT ![l] = "waiting"]
     \/ UNCHANGED stage

Start(l) ==
  /\ stage[l] = "waiting"
  /\ Cardinality(Working(holder[l])) < MaxConcurrent
  /\ stage' = [stage EXCEPT ![l] = "working"]
  /\ UNCHANGED holder

Settle(l) ==
  /\ stage[l] = "working"
  /\ stage' = [stage EXCEPT ![l] = "settled"]
  /\ UNCHANGED holder

ProcessEnds ==
  /\ stage' = [l \in Lease |-> IF stage[l] \in InHand THEN "dropped" ELSE stage[l]]
  /\ UNCHANGED holder

Next ==
  \/ \E l \in Lease, s \in Session : Grant(l, s)
  \/ \E l \in Lease : Start(l) \/ Settle(l)
  \/ ProcessEnds

Spec == Init /\ [][Next]_<<holder, stage>>
=============================================================================

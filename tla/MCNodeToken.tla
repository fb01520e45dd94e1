---------------------------- MODULE MCNodeToken ----------------------------
(* Instances of NodeToken for TLC. *)
EXTENDS NodeToken, TLC

\* Sessions and leases are interchangeable in the safety properties.
Symmetry == Permutations(Session) \cup Permutations(Lease)

\* Two generations with two leases between them, or three sessions and one lease: what
\* is handed out, of both together, is at most four.
HandedOut ==
  Cardinality({s \in Session : session_state[s] # "unissued"}) +
  Cardinality({l \in Lease : lease_holder[l] # NoSession})

BoundedNext == Next /\ HandedOut' <= 4

BoundedSpec == Init /\ [][BoundedNext]_vars

\* Liveness allows no symmetry set.  With numbers for sessions and leases, every
\* behaviour is one in which they are first used in order, up to their names.
UsedInOrder ==
  /\ \A r, s \in Session : r < s /\ session_state[r] = "unissued" => session_state[s] = "unissued"
  /\ \A k, l \in Lease : k < l /\ lease_holder[k] = NoSession => lease_holder[l] = NoSession

\* The node until its process ends, by itself: then every liveness property is settled.
RunningNext == main_pc \notin Ended /\ Next /\ main_pc' # "crashed" /\ UsedInOrder'

RunningSpec == Init /\ [][RunningNext]_vars /\ Fairness
=============================================================================

------------------------ MODULE NativeAdmissionProofs ------------------------
(***************************************************************************)
(* Sessions and heartbeats of NativeAdmission for any models, versions,    *)
(* scan interval and number of sessions.  Capabilities agree because every *)
(* session has an id of its own, handed out with what was announced; a     *)
(* model that is gone is noticed because the heartbeats since the last     *)
(* scan are counted by the counter that makes the next scan due.           *)
(***************************************************************************)
EXTENDS NativeAdmission, NatInductionSets, FiniteSetTheorems, FunctionTheorems, SequenceTheorems

\* Ids are handed out in order.
Numbered ==
  /\ issued \in Nat
  /\ \A s \in {disk, session, server} \ {None} : s.id \in Nat /\ s.id <= issued

\* The heartbeat loop has its state only while it runs.
Stopped ==
  pc # "run" => beats = 0 /\ accepted = {} /\ stale = 0

\* The heartbeats since the last scan bound those with a model that is gone.
Counted ==
  /\ beats \in 0 .. ScanInterval - 1 /\ stale \in Nat
  /\ stale <= (IF beats = 0 THEN ScanInterval - 1 ELSE beats - 1)
  /\ pc = "run" /\ Registered = {} => stale = 0
  /\ pc = "run" /\ Registered # {} => accepted \subseteq Registered

AdmissionInv == Numbered /\ CapabilitiesAgree /\ Stopped /\ Counted

-----------------------------------------------------------------------------
\* The counter of heartbeats goes round.
LEMMA Round ==
  ASSUME NEW n \in 0 .. ScanInterval - 1
  PROVE  (n + 1) % ScanInterval = IF n + 1 = ScanInterval THEN 0 ELSE n + 1
<1>1. ScanInterval \in Nat /\ ScanInterval > 1
  BY AdmissionAssumption
<1>2. CASE n + 1 = ScanInterval
  BY <1>1, <1>2
<1>3. CASE n + 1 # ScanInterval
  BY <1>1, <1>3
<1> QED
  BY <1>2, <1>3

\* The bound on the heartbeats with a model that is gone is one for any count.
LEMMA Bound ==
  ASSUME NEW n \in 0 .. ScanInterval - 1
  PROVE  0 <= (IF n = 0 THEN ScanInterval - 1 ELSE n - 1)
<1>1. ScanInterval \in Nat /\ ScanInterval > 1
  BY AdmissionAssumption
<1> QED
  BY <1>1

\* Steps that leave the sessions and the heartbeat loop alone.
LEMMA InvElsewhere ==
  ASSUME AdmissionInv, UNCHANGED <<pc, sessionVars, heartbeatVars>>
  PROVE  AdmissionInv'
BY DEF AdmissionInv, Numbered, CapabilitiesAgree, Stopped, Counted, Registered, sessionVars,
       heartbeatVars

\* Steps of the setup and a crash, which leave the heartbeat loop or enter it.
LEMMA InvSetup ==
  ASSUME AdmissionInv,
         \/ Load \/ Scan \/ ScanFails \/ Discover \/ Unchanged \/ RefreshUnauthorized
         \/ Save \/ SaveFails \/ Crash
  PROVE  AdmissionInv'
<1> USE AdmissionAssumption DEF AdmissionInv, Numbered, CapabilitiesAgree, Stopped, Counted,
            Registered, Goto, SetupEnds, LoopsEnd, sessionVars, heartbeatVars
<1>1. CASE Load \/ Scan \/ Discover
  BY <1>1 DEF Load, Scan, Discover
<1>2. CASE ScanFails
  BY <1>2 DEF ScanFails
<1>3. CASE Unchanged \/ RefreshUnauthorized
  BY <1>3 DEF Unchanged, RefreshUnauthorized
<1>4. CASE Save \/ SaveFails
  BY <1>4 DEF Save, SaveFails
<1>5. CASE Crash
  BY <1>5 DEF Crash
<1> QED
  BY <1>1, <1>2, <1>3, <1>4, <1>5

\* The server issues and revokes sessions.
LEMMA InvServer ==
  ASSUME AdmissionInv, Announce \/ AnnounceUnanswered \/ Revoke \/ HeartbeatUnauthorized
  PROVE  AdmissionInv'
<1> USE AdmissionAssumption DEF AdmissionInv, Numbered, CapabilitiesAgree, Stopped, Counted,
            Registered, Goto, SetupEnds, LoopsEnd, heartbeatVars
<1>1. CASE Announce
  BY <1>1 DEF Announce, Announced, Issue
<1>2. CASE AnnounceUnanswered
  BY <1>2 DEF AnnounceUnanswered, Issue, setupVars
<1>3. CASE Revoke
  BY <1>3 DEF Revoke, setupVars
<1>4. CASE HeartbeatUnauthorized
  BY <1>4 DEF HeartbeatUnauthorized
<1> QED
  BY <1>1, <1>2, <1>3, <1>4

\* A heartbeat: a scan is due before a model can be gone for an interval.
LEMMA InvHeartbeat ==
  ASSUME AdmissionInv, Heartbeat
  PROVE  AdmissionInv'
<1>1. pc = "run" /\ UNCHANGED <<pc, disk, session, server, issued>>
  BY DEF Heartbeat, setupVars, sessionVars
<1>2. Numbered' /\ CapabilitiesAgree' /\ Stopped'
  BY <1>1 DEF AdmissionInv, Numbered, CapabilitiesAgree, Stopped
<1>3. /\ beats \in 0 .. ScanInterval - 1 /\ stale \in Nat
      /\ stale <= (IF beats = 0 THEN ScanInterval - 1 ELSE beats - 1)
      /\ ScanInterval \in Nat /\ ScanInterval > 1
  BY AdmissionAssumption DEF AdmissionInv, Counted
<1>4. beats' = IF beats + 1 = ScanInterval THEN 0 ELSE beats + 1
  BY <1>3, Round DEF Heartbeat, HeartbeatOf
<1>5. ~ScanDue => beats # 0
  BY <1>3, Round DEF ScanDue
<1>6. Registered' = Registered
  BY <1>1 DEF Registered
<1>7. CASE Registered # {} /\ ~ScanDue
  <2>1. HeartbeatOf(Known(FALSE), FALSE, FALSE)
    BY <1>7 DEF Heartbeat
  <2>2. stale' \in {0, stale + 1} /\ accepted' \subseteq Registered
    BY <1>7, <2>1 DEF HeartbeatOf
  <2>3. /\ beats' \in 0 .. ScanInterval - 1 /\ stale' \in Nat
        /\ stale' <= (IF beats' = 0 THEN ScanInterval - 1 ELSE beats' - 1)
    BY <1>3, <1>4, <1>5, <1>7, <2>2
  <2> QED
    BY <1>2, <1>6, <1>7, <2>2, <2>3 DEF AdmissionInv, Counted
<1>8. CASE Registered = {} \/ ScanDue
  <2>1. PICK read \in (IF Registered = {} THEN {TRUE} ELSE BOOLEAN) :
          HeartbeatOf(Known(read), TRUE, read)
    BY <1>8 DEF Heartbeat
  <2>2. Installed' = Installed
    BY DEF Heartbeat, ollamaVars, Installed
  <2>3. read => accepted' \subseteq Installed
    BY <2>1 DEF HeartbeatOf, Known
  <2>4. stale' = 0 /\ (Registered # {} => accepted' \subseteq Registered)
    BY <2>1, <2>3 DEF HeartbeatOf
  <2>5. beats' \in 0 .. ScanInterval - 1
    BY <1>3, <1>4
  <2>6. stale' \in Nat /\ stale' <= (IF beats' = 0 THEN ScanInterval - 1 ELSE beats' - 1)
    BY <2>4, <2>5, Bound
  <2> QED
    BY <1>2, <1>6, <2>4, <2>5, <2>6 DEF AdmissionInv, Counted
<1> QED
  BY <1>7, <1>8

\* A heartbeat that is left out: nothing is registered that could be gone.
LEMMA InvSkipped ==
  ASSUME AdmissionInv, HeartbeatSkipped
  PROVE  AdmissionInv'
<1>1. pc = "run" /\ UNCHANGED <<pc, disk, session, server, issued, accepted, stale>>
  BY DEF HeartbeatSkipped, setupVars, sessionVars
<1>2. Numbered' /\ CapabilitiesAgree' /\ Stopped'
  BY <1>1 DEF AdmissionInv, Numbered, CapabilitiesAgree, Stopped
<1>3. Registered = {} /\ Registered' = Registered /\ stale = 0
  BY <1>1 DEF HeartbeatSkipped, Registered, AdmissionInv, Counted
<1>4. beats' \in 0 .. ScanInterval - 1 /\ ScanInterval \in Nat /\ ScanInterval > 1
  BY AdmissionAssumption, Round DEF HeartbeatSkipped, AdmissionInv, Counted
<1>5. stale' \in Nat /\ stale' <= (IF beats' = 0 THEN ScanInterval - 1 ELSE beats' - 1)
  BY <1>1, <1>3, <1>4, Bound
<1>6. accepted' = accepted
  BY <1>1
<1> QED
  BY <1>1, <1>2, <1>3, <1>4, <1>5, <1>6 DEF AdmissionInv, Counted

\* The invariant holds in every state of sessions and heartbeats.
THEOREM AdmissionInvariant == Spec => []AdmissionInv
<1>1. Init => AdmissionInv
  BY AdmissionAssumption
     DEF Init, AdmissionInv, Numbered, CapabilitiesAgree, Stopped, Counted
<1>2. AdmissionInv /\ [Next]_vars => AdmissionInv'
  <2> SUFFICES ASSUME AdmissionInv, [Next]_vars PROVE AdmissionInv'
    OBVIOUS
  <2>1. CASE OllamaChanges
    BY <2>1, InvElsewhere DEF OllamaChanges, setupVars
  <2>2. CASE ExecuteNative \/ ExecuteLegacy \/ Submit
    BY <2>2, InvElsewhere DEF ExecuteNative, ExecuteLegacy, Submit, setupVars
  <2>3. CASE UNCHANGED vars
    BY <2>3, InvElsewhere DEF vars, setupVars
  <2>4. CASE Revoke \/ (NodeStep /\ ~(ExecuteNative \/ ExecuteLegacy))
    BY <2>4, InvSetup, InvServer, InvHeartbeat, InvSkipped DEF NodeStep
  <2> QED
    BY <2>1, <2>2, <2>3, <2>4 DEF Next
<1> QED
  BY <1>1, <1>2, PTL DEF Spec

\* CapabilitiesAgree: what node and server know of a live session is the same, however
\* many sessions there have been and wherever replies and processes were lost.
THEOREM SessionsAgree == Spec => []CapabilitiesAgree
<1>1. AdmissionInv => CapabilitiesAgree
  BY DEF AdmissionInv
<1> QED
  BY <1>1, AdmissionInvariant, PTL

\* AcceptedIsCurrent: a model that is gone is accepted for less than a scan interval.
THEOREM AcceptedModelsAreCurrent == Spec => []AcceptedIsCurrent
<1>1. AdmissionInv => AcceptedIsCurrent
  BY AdmissionAssumption DEF AdmissionInv, Counted, AcceptedIsCurrent
<1> QED
  BY <1>1, AdmissionInvariant, PTL

-----------------------------------------------------------------------------
(* Lists of models: sorted, without duplicates                                 *)

\* A finite set of numbers can be listed in order.
LEMMA AscendingExists ==
  ASSUME NEW S, S \subseteq Nat, IsFiniteSet(S)
  PROVE  \E s \in [1 .. Cardinality(S) -> S] : \A i, j \in DOMAIN s : i < j => s[i] < s[j]
<1> DEFINE Listed(X) == \E s \in [1 .. Cardinality(X) -> X] :
                           \A i, j \in DOMAIN s : i < j => s[i] < s[j]
           T == {n \in Nat : \A X \in SUBSET Nat :
                               IsFiniteSet(X) /\ Cardinality(X) = n => Listed(X)}
<1>1. 0 \in T
  <2> SUFFICES ASSUME NEW X \in SUBSET Nat, IsFiniteSet(X), Cardinality(X) = 0
               PROVE  Listed(X)
    OBVIOUS
  <2>1. X = {}
    BY FS_EmptySet
  <2>2. PICK s : s = [i \in 1 .. 0 |-> 0]
    OBVIOUS
  <2>3. s \in [1 .. Cardinality(X) -> X]
    BY <2>2
  <2>4. \A i, j \in DOMAIN s : i < j => s[i] < s[j]
    BY <2>2
  <2> QED BY <2>3, <2>4
<1>2. ASSUME NEW n \in Nat, n \in T PROVE n + 1 \in T
  <2> SUFFICES ASSUME NEW X \in SUBSET Nat, IsFiniteSet(X), Cardinality(X) = n + 1
               PROVE  Listed(X)
    OBVIOUS
  <2>1. X # {}
    BY FS_EmptySet
  <2>2. PICK m \in X : \A x \in X : m <= x
    BY <2>1, LeastElement
  <2> DEFINE Y == X \ {m}
  <2>3. IsFiniteSet(Y) /\ Cardinality(Y) = n /\ Y \in SUBSET Nat
    BY <2>2, FS_RemoveElement
  <2>4. PICK t \in [1 .. n -> Y] : \A i, j \in DOMAIN t : i < j => t[i] < t[j]
    BY <1>2, <2>3
  <2> DEFINE s == [i \in 1 .. n + 1 |-> IF i = 1 THEN m ELSE t[i - 1]]
  <2>5. s \in [1 .. n + 1 -> X]
    OBVIOUS
  <2>6. ASSUME NEW i \in 1 .. n + 1, NEW j \in 1 .. n + 1, i < j PROVE s[i] < s[j]
    <3>1. j - 1 \in 1 .. n /\ t[j - 1] \in Y /\ s[j] = t[j - 1]
      BY <2>6
    <3>2. CASE i = 1
      <4>1. s[i] = m
        BY <3>2
      <4>2. t[j - 1] \in Nat /\ m \in Nat /\ m <= t[j - 1] /\ m # t[j - 1]
        BY <2>2, <3>1
      <4> QED BY <3>1, <4>1, <4>2
    <3>3. CASE i # 1
      <4>1. i - 1 \in 1 .. n /\ s[i] = t[i - 1] /\ i - 1 < j - 1
        BY <2>6, <3>3
      <4> QED BY <2>4, <3>1, <4>1
    <3> QED BY <3>2, <3>3
  <2> QED BY <2>5, <2>6
<1>3. \A n \in Nat : n \in T
  <2> HIDE DEF T
  <2> QED BY <1>1, <1>2, UpwardInduction
<1>4. Cardinality(S) \in Nat
  BY FS_CardinalityType
<1> QED BY <1>3, <1>4

\* SetToSeq lists the members of a finite set.
LEMMA SetToSeqType ==
  ASSUME NEW S, IsFiniteSet(S)
  PROVE  SetToSeq(S) \in Seq(S)
<1>1. ExistsBijection(1 .. Cardinality(S), S) /\ Cardinality(S) \in Nat
  BY FS_Bijection, FS_CardinalityType
<1>2. \E f \in [1 .. Cardinality(S) -> S] : IsInjective(f)
  BY <1>1 DEF ExistsBijection, Bijection, Injection, IsInjective
<1>3. SetToSeq(S) \in [1 .. Cardinality(S) -> S]
  BY <1>2 DEF SetToSeq
<1> QED BY <1>1, <1>3

\* The list that register.rs sorts and rids of duplicates has each model once.
LEMMA NormalList ==
  ASSUME NEW list \in Seq(Model)
  PROVE  /\ Normal(list) \in Seq(Model)
         /\ \A i, j \in DOMAIN Normal(list) : Normal(list)[i] = Normal(list)[j] => i = j
<1> DEFINE S == ToSet(list)
           n == Cardinality(S)
<1>1. S \subseteq Model
  BY DEF ToSet
<1>2. S \subseteq Nat /\ IsFiniteSet(S) /\ n \in Nat
  BY <1>1, AdmissionAssumption, FS_Subset, FS_CardinalityType
<1> HIDE DEF S
<1>3. \E s \in [1 .. n -> S] : \A i, j \in DOMAIN s : i < j => s[i] < s[j]
  BY <1>2, AscendingExists
<1>4. /\ Normal(list) \in [1 .. n -> S]
      /\ \A i, j \in DOMAIN Normal(list) : i < j => Normal(list)[i] < Normal(list)[j]
  BY <1>3, Zenon DEF Normal, S
<1> HIDE DEF n
<1>5. PICK s : s = Normal(list)
  OBVIOUS
<1>6. s \in [1 .. n -> S] /\ \A i, j \in 1 .. n : i < j => s[i] < s[j]
  BY <1>4, <1>5
<1>7. s \in Seq(Model) /\ DOMAIN s = 1 .. n
  <2>1. s \in [1 .. n -> Model]
    BY <1>1, <1>6
  <2> QED BY <1>2, <2>1
<1>8. ASSUME NEW i \in 1 .. n, NEW j \in 1 .. n, s[i] = s[j] PROVE i = j
  <2>1. s[i] \in Nat /\ s[j] \in Nat
    BY <1>2, <1>6
  <2>2. ~(i < j) /\ ~(j < i)
    BY <1>6, <1>8, <2>1
  <2> QED BY <1>2, <2>2
<1> QED BY <1>5, <1>7, <1>8

-----------------------------------------------------------------------------
(* Profiles                                                                    *)

\* The first k of the sequences, one after the other, are f, and every element of f has
\* a place of its own in them.
Placed(S, ss, k, f) ==
  /\ f \in Seq(S)
  /\ \E at \in [1 .. Len(f) -> (1 .. k) \X (Nat \ {0})] :
       /\ \A i \in 1 .. Len(f) : at[i][2] \in 1 .. Len(ss[at[i][1]])
                                  /\ f[i] = ss[at[i][1]][at[i][2]]
       /\ \A i, j \in 1 .. Len(f) : at[i] = at[j] => i = j

\* One more sequence.
LEMMA PlacedMore ==
  ASSUME NEW S, NEW ss \in Seq(Seq(S)), NEW k \in Nat, k + 1 \in 1 .. Len(ss),
         NEW f, Placed(S, ss, k, f)
  PROVE  Placed(S, ss, k + 1, f \o ss[k + 1])
<1> DEFINE m == Len(f)
           x == ss[k + 1]
           g == f \o x
<1>1. f \in Seq(S) /\ x \in Seq(S) /\ m \in Nat /\ Len(x) \in Nat
  BY DEF Placed
<1>2. PICK at \in [1 .. m -> (1 .. k) \X (Nat \ {0})] :
         /\ \A i \in 1 .. m : at[i][2] \in 1 .. Len(ss[at[i][1]]) /\ f[i] = ss[at[i][1]][at[i][2]]
         /\ \A i, j \in 1 .. m : at[i] = at[j] => i = j
  BY DEF Placed
<1> HIDE DEF x
<1>3. /\ g \in Seq(S) /\ Len(g) = m + Len(x)
      /\ \A i \in 1 .. m : g[i] = f[i]
      /\ \A i \in m + 1 .. m + Len(x) : g[i] = x[i - m]
  BY <1>1
<1> DEFINE to == [i \in 1 .. m + Len(x) |-> IF i <= m THEN at[i] ELSE <<k + 1, i - m>>]
<1> HIDE DEF g, m
<1>4. \A i \in 1 .. m : at[i] \in (1 .. k + 1) \X (Nat \ {0}) /\ at[i][1] # k + 1
  BY <1>1, <1>2
<1>5. ASSUME NEW i \in 1 .. m + Len(x)
      PROVE  /\ to[i] \in (1 .. k + 1) \X (Nat \ {0})
             /\ to[i][2] \in 1 .. Len(ss[to[i][1]]) /\ g[i] = ss[to[i][1]][to[i][2]]
  <2>1. CASE i <= m
    <3>1. i \in 1 .. m /\ to[i] = at[i]
      BY <1>1, <2>1
    <3> HIDE DEF to
    <3> QED BY <1>2, <1>3, <1>4, <3>1
  <2>2. CASE i > m
    <3>1. to[i] = <<k + 1, i - m>> /\ i - m \in 1 .. Len(x) /\ i \in m + 1 .. m + Len(x)
      BY <1>1, <2>2
    <3> HIDE DEF to
    <3>2. to[i] \in (1 .. k + 1) \X (Nat \ {0}) /\ to[i][1] = k + 1 /\ to[i][2] = i - m
      BY <1>1, <3>1
    <3>3. g[i] = x[i - m]
      BY <1>3, <3>1
    <3> QED BY <3>1, <3>2, <3>3, Zenon DEF x
  <2> QED BY <1>1, <2>1, <2>2
<1>6. ASSUME NEW i \in 1 .. m + Len(x), NEW j \in 1 .. m + Len(x), to[i] = to[j] PROVE i = j
  <2>1. CASE i <= m /\ j <= m
    BY <1>1, <1>2, <1>6, <2>1
  <2>2. CASE i > m /\ j > m
    BY <1>1, <1>6, <2>2
  <2>3. CASE i <= m /\ j > m
    BY <1>1, <1>4, <1>6, <2>3
  <2>4. CASE i > m /\ j <= m
    BY <1>1, <1>4, <1>6, <2>4
  <2> QED BY <1>1, <2>1, <2>2, <2>3, <2>4
<1>7. to \in [1 .. Len(g) -> (1 .. k + 1) \X (Nat \ {0})]
  BY <1>3, <1>5
<1> HIDE DEF to
<1>8. /\ \A i \in 1 .. Len(g) : to[i][2] \in 1 .. Len(ss[to[i][1]]) /\ g[i] = ss[to[i][1]][to[i][2]]
      /\ \A i, j \in 1 .. Len(g) : to[i] = to[j] => i = j
  BY <1>3, <1>5, <1>6, Zenon
<1>9. Placed(S, ss, k + 1, g)
  BY <1>3, <1>7, <1>8, Zenon DEF Placed
<1> QED BY <1>9 DEF g, x

\* No sequences.
LEMMA PlacedNone ==
  ASSUME NEW S, NEW ss
  PROVE  Placed(S, ss, 0, <<>>)
<1>1. <<>> \in Seq(S) /\ Len(<<>>) = 0
  BY EmptySeq
<1>2. PICK at : at = [i \in 1 .. 0 |-> <<1, 1>>]
  OBVIOUS
<1>3. at \in [1 .. 0 -> (1 .. 0) \X (Nat \ {0})] /\ \A i \in 1 .. 0 : FALSE
  BY <1>2
<1> QED BY <1>1, <1>3, Zenon DEF Placed

FlatRound(ss, flat, i) == IF i = 1 THEN ss[i] ELSE flat[i - 1] \o ss[i]

\* FlattenSeq's recursive function: the first i sequences of ss, one after the other.
Flat(ss) == CHOOSE flat : flat = [i \in 1 .. Len(ss) |-> FlatRound(ss, flat, i)]

\* FlattenSeq is its value at the number of sequences.
LEMMA FlattenIsFlat ==
  ASSUME NEW ss
  PROVE  FlattenSeq(ss) = IF Len(ss) = 0 THEN ss ELSE Flat(ss)[Len(ss)]
BY DEF FlattenSeq, Flat, FlatRound

\* A function with that recursion equation exists.
LEMMA FlatExists ==
  ASSUME NEW ss, NEW n \in Nat
  PROVE  \E g : g = [i \in 1 .. n |-> FlatRound(ss, g, i)]
<1> DEFINE T == {k \in Nat : \E g : g = [i \in 1 .. k |-> FlatRound(ss, g, i)]}
<1>1. 0 \in T
  <2> DEFINE g == [i \in 1 .. 0 |-> <<>>]
  <2>1. \A i \in 1 .. 0 : <<>> = FlatRound(ss, g, i)
    OBVIOUS
  <2>2. g = [i \in 1 .. 0 |-> FlatRound(ss, g, i)]
    BY <2>1, Zenon
  <2> QED BY <2>2
<1>2. ASSUME NEW k \in Nat, k \in T PROVE k + 1 \in T
  <2>1. PICK g : g = [i \in 1 .. k |-> FlatRound(ss, g, i)]
    BY <1>2
  <2> DEFINE h == [i \in 1 .. k + 1 |-> IF i = k + 1 THEN FlatRound(ss, g, i) ELSE g[i]]
  <2>2. ASSUME NEW i \in 1 .. k + 1 PROVE h[i] = FlatRound(ss, h, i)
    <3>1. FlatRound(ss, h, i) = FlatRound(ss, g, i)
      <4>1. CASE i = 1
        BY <4>1, Zenon DEF FlatRound
      <4>2. CASE i # 1
        <5>1. h[i - 1] = g[i - 1]
          BY <4>2
        <5> HIDE DEF h
        <5> QED BY <4>2, <5>1, Zenon DEF FlatRound
      <4> QED BY <4>1, <4>2
    <3>2. CASE i = k + 1
      BY <3>1, <3>2
    <3>3. CASE i # k + 1
      <4>1. i \in 1 .. k
        BY <3>3
      <4>2. g[i] = FlatRound(ss, g, i)
        BY <2>1, <4>1
      <4> QED BY <3>1, <3>3, <4>2
    <3> QED BY <3>2, <3>3
  <2>3. h = [i \in 1 .. k + 1 |-> FlatRound(ss, h, i)]
    BY <2>2
  <2> HIDE DEF h
  <2>4. k + 1 \in Nat /\ \E f : f = [i \in 1 .. k + 1 |-> FlatRound(ss, f, i)]
    BY <2>3
  <2> QED BY <2>4, Zenon
<1>3. \A k \in Nat : k \in T
  <2> HIDE DEF T
  <2> QED BY <1>1, <1>2, UpwardInduction
<1>4. n \in T
  BY <1>3
<1> QED BY <1>4

\* Its recursion equation.
LEMMA FlatRecursion ==
  ASSUME NEW ss, Len(ss) \in Nat, NEW i \in 1 .. Len(ss)
  PROVE  Flat(ss)[i] = IF i = 1 THEN ss[i] ELSE Flat(ss)[i - 1] \o ss[i]
<1>1. Flat(ss) = [j \in 1 .. Len(ss) |-> FlatRound(ss, Flat(ss), j)]
  BY FlatExists, Zenon DEF Flat
<1>2. Flat(ss)[i] = FlatRound(ss, Flat(ss), i)
  BY <1>1, Zenon
<1> QED BY <1>2, Zenon DEF FlatRound

\* Every element of the flattened sequence has a place of its own.
LEMMA FlattenPlaced ==
  ASSUME NEW S, NEW ss \in Seq(Seq(S))
  PROVE  Placed(S, ss, Len(ss), FlattenSeq(ss))
<1> DEFINE T == {k \in Nat : k + 1 <= Len(ss) => Placed(S, ss, k + 1, Flat(ss)[k + 1])}
<1>0. Len(ss) \in Nat
  OBVIOUS
<1>1. 0 \in T
  <2> SUFFICES ASSUME 0 + 1 <= Len(ss) PROVE Placed(S, ss, 0 + 1, Flat(ss)[0 + 1])
    OBVIOUS
  <2>1. 0 + 1 = 1 /\ 1 \in 1 .. Len(ss)
    BY <1>0
  <2>2. Flat(ss)[1] = ss[1]
    BY <1>0, <2>1, FlatRecursion
  <2>3. ss[1] \in Seq(S) /\ <<>> \o ss[1] = ss[1]
    BY <2>1
  <2>4. Placed(S, ss, 0 + 1, <<>> \o ss[0 + 1])
    <3>1. 0 \in Nat /\ 0 + 1 \in 1 .. Len(ss)
      BY <2>1
    <3> QED BY <3>1, PlacedNone, PlacedMore, Zenon
  <2> QED BY <2>1, <2>2, <2>3, <2>4, Zenon
<1>2. ASSUME NEW k \in Nat, k \in T PROVE k + 1 \in T
  <2>0. k + 1 \in Nat
    OBVIOUS
  <2> SUFFICES ASSUME (k + 1) + 1 <= Len(ss)
               PROVE  Placed(S, ss, (k + 1) + 1, Flat(ss)[(k + 1) + 1])
    BY <2>0, Zenon
  <2>1. /\ (k + 1) + 1 \in 1 .. Len(ss) /\ (k + 1) + 1 # 1 /\ ((k + 1) + 1) - 1 = k + 1
        /\ k + 1 <= Len(ss)
    BY <1>0
  <2>2. Flat(ss)[(k + 1) + 1] = Flat(ss)[k + 1] \o ss[(k + 1) + 1]
    BY <1>0, <2>1, FlatRecursion
  <2>3. Placed(S, ss, k + 1, Flat(ss)[k + 1])
    BY <1>2, <2>1, Zenon
  <2>4. Placed(S, ss, (k + 1) + 1, Flat(ss)[k + 1] \o ss[(k + 1) + 1])
    BY <2>0, <2>1, <2>3, PlacedMore, Zenon
  <2> QED BY <2>2, <2>4, Zenon
<1>3. \A k \in Nat : k \in T
  <2> HIDE DEF T
  <2> QED BY <1>1, <1>2, UpwardInduction
<1>4. CASE Len(ss) = 0
  <2>1. ss = <<>>
    BY <1>4
  <2>2. FlattenSeq(ss) = <<>>
    BY <1>4, <2>1, FlattenIsFlat, Zenon
  <2> QED BY <1>4, <2>2, PlacedNone, Zenon
<1>5. CASE Len(ss) # 0
  <2>1. Len(ss) - 1 \in Nat /\ (Len(ss) - 1) + 1 = Len(ss) /\ Len(ss) <= Len(ss)
    BY <1>0, <1>5
  <2>2. Len(ss) - 1 \in T
    BY <1>3, <2>1, Zenon
  <2>3. Placed(S, ss, Len(ss), Flat(ss)[Len(ss)])
    BY <2>1, <2>2, Zenon
  <2> QED BY <1>5, <2>3, FlattenIsFlat, Zenon
<1> QED BY <1>4, <1>5

-----------------------------------------------------------------------------
(* What a node announces                                                       *)

\* The profiles the node makes: the largest limits, and always cancellation.
OurProfile ==
  {Profile(m, o, F) : m \in Model, o \in Operation,
                      F \in {G \in SUBSET NativeFeature : "cancellation" \in G}}

\* Capabilities as the node announces them.
Told(c) ==
  /\ c.models \subseteq Model
  /\ \A i \in DOMAIN c.profiles : c.profiles[i] \in OurProfile
  /\ ValidCapabilities(c)

\* What the proofs use of such a profile.
LEMMA OurProfileFacts ==
  ASSUME NEW p \in OurProfile
  PROVE  /\ WithinLimits(p) /\ p.model \in Model /\ p.operation \in Operation
         /\ "cancellation" \in p.features
         /\ p.max_request = MaxBody /\ p.max_output = None
<1>1. PICK m \in Model, o \in Operation, F \in SUBSET NativeFeature :
         p = Profile(m, o, F) /\ "cancellation" \in F
  BY DEF OurProfile
<1>2. MaxBody \in 1 .. MaxBody
  BY RequestAssumption
<1> QED BY <1>1, <1>2 DEF Profile, WithinLimits

\* The profiles of one model are told apart by their operations.
LEMMA ProfilesOfFacts ==
  ASSUME NEW m \in Model, NEW eligible \in BOOLEAN
  PROVE  /\ ProfilesOf(m, eligible) \in Seq(OurProfile)
         /\ \A k \in 1 .. Len(ProfilesOf(m, eligible)) :
              /\ k \in 1 .. 3 /\ ProfilesOf(m, eligible)[k].model = m
              /\ ProfilesOf(m, eligible)[k].operation = <<"chat", "messages", "responses">>[k]
<1> DEFINE F == Advertised(ollama.models[m], eligible)
           n == IF eligible THEN 3 ELSE 1
           q == [i \in 1 .. n |-> Profile(m, <<"chat", "messages", "responses">>[i], F)]
<1>1. F \in SUBSET NativeFeature /\ "cancellation" \in F
  BY DEF Advertised, NativeFeature
<1>2. n \in {1, 3}
  OBVIOUS
<1>3. ProfilesOf(m, eligible) = q
  BY DEF ProfilesOf
<1> HIDE DEF F, n
<1>4. \A i \in 1 .. n : i \in 1 .. 3 /\ <<"chat", "messages", "responses">>[i] \in Operation
  BY <1>2 DEF Operation
<1>5. \A i \in 1 .. n : Profile(m, <<"chat", "messages", "responses">>[i], F) \in OurProfile
  BY <1>1, <1>4 DEF OurProfile
<1>6. q \in Seq(OurProfile) /\ Len(q) = n
  BY <1>2, <1>5
<1>7. \A k \in 1 .. n : q[k].model = m /\ q[k].operation = <<"chat", "messages", "responses">>[k]
  BY DEF Profile
<1> QED BY <1>3, <1>4, <1>6, <1>7, Zenon

\* The profiles of a list of models that has each model once are valid together:
\* one for a model and an operation.
LEMMA DiscoveredTold ==
  ASSUME NEW version, NEW answered, models \in Seq(Model),
         \A i, j \in DOMAIN models : models[i] = models[j] => i = j
  PROVE  Told(Discovered(version, answered))
<1> DEFINE known(m) == m \in answered \cap DOMAIN ollama.models /\ "completion" \in ollama.models[m]
           ss == [i \in DOMAIN models |->
                    IF known(models[i]) THEN ProfilesOf(models[i], Eligible(version)) ELSE <<>>]
           c == Discovered(version, answered)
           f == FlattenSeq(ss)
<1>1. c.models = ToSet(models) /\ c.profiles = IF ValidVersion(version) THEN f ELSE <<>>
  BY DEF Discovered
<1>2. DOMAIN models = 1 .. Len(models) /\ Len(models) \in Nat /\ ToSet(models) \subseteq Model
  BY DEF ToSet
<1>3. Eligible(version) \in BOOLEAN
  BY DEF Eligible, AtLeast
<1>4. \A i \in DOMAIN models : ss[i] \in Seq(OurProfile)
  BY <1>3, ProfilesOfFacts, EmptySeq
<1>5. \A i \in DOMAIN models : \A k \in 1 .. Len(ss[i]) :
         /\ k \in 1 .. 3 /\ ss[i][k].model = models[i]
         /\ ss[i][k].operation = <<"chat", "messages", "responses">>[k]
  BY <1>3, ProfilesOfFacts
<1> HIDE DEF c
<1>6. ss \in Seq(Seq(OurProfile)) /\ Len(ss) = Len(models)
  BY <1>2, <1>4
<1> HIDE DEF ss
<1>7. Placed(OurProfile, ss, Len(models), f)
  BY <1>6, FlattenPlaced
<1> HIDE DEF f
<1>8. PICK at \in [1 .. Len(f) -> (1 .. Len(models)) \X (Nat \ {0})] :
         /\ \A i \in 1 .. Len(f) :
              at[i][2] \in 1 .. Len(ss[at[i][1]]) /\ f[i] = ss[at[i][1]][at[i][2]]
         /\ \A i, j \in 1 .. Len(f) : at[i] = at[j] => i = j
  BY <1>7 DEF Placed
<1>9. f \in Seq(OurProfile)
  BY <1>7 DEF Placed
<1>10. ASSUME NEW i \in 1 .. Len(f)
       PROVE  /\ at[i][1] \in DOMAIN models /\ f[i].model = models[at[i][1]]
              /\ at[i][2] \in 1 .. 3 /\ at[i] = <<at[i][1], at[i][2]>>
              /\ f[i].operation = <<"chat", "messages", "responses">>[at[i][2]]
  <2>1. at[i] \in (1 .. Len(models)) \X (Nat \ {0})
    BY <1>8
  <2>2. at[i][1] \in DOMAIN models /\ at[i] = <<at[i][1], at[i][2]>>
    BY <1>2, <2>1
  <2>3. at[i][2] \in 1 .. Len(ss[at[i][1]]) /\ f[i] = ss[at[i][1]][at[i][2]]
    BY <1>8
  <2> DEFINE n == at[i][1]
             k == at[i][2]
  <2>4. n \in DOMAIN models /\ k \in 1 .. Len(ss[n]) /\ f[i] = ss[n][k] /\ at[i] = <<n, k>>
    BY <2>2, <2>3
  <2> HIDE DEF n, k
  <2>5. /\ k \in 1 .. 3 /\ ss[n][k].model = models[n]
        /\ ss[n][k].operation = <<"chat", "messages", "responses">>[k]
    BY <1>5, <2>4
  <2>6. /\ f[i].model = models[n] /\ f[i].operation = <<"chat", "messages", "responses">>[k]
    BY <2>4, <2>5, Zenon
  <2> QED BY <2>4, <2>5, <2>6, Zenon DEF n, k
<1>11. ASSUME NEW i \in 1 .. Len(f), NEW j \in 1 .. Len(f),
              f[i].model = f[j].model, f[i].operation = f[j].operation
       PROVE  i = j
  <2>1. at[i][1] = at[j][1]
    BY <1>10, <1>11
  <2>2. at[i][2] = at[j][2]
    <3>1. \A k, l \in 1 .. 3 : <<"chat", "messages", "responses">>[k] =
                                 <<"chat", "messages", "responses">>[l] => k = l
      OBVIOUS
    <3>2. /\ at[i][2] \in 1 .. 3 /\ at[j][2] \in 1 .. 3
          /\ f[i].operation = <<"chat", "messages", "responses">>[at[i][2]]
          /\ f[j].operation = <<"chat", "messages", "responses">>[at[j][2]]
      BY <1>10, Zenon
    <3>3. <<"chat", "messages", "responses">>[at[i][2]]
            = <<"chat", "messages", "responses">>[at[j][2]]
      BY <1>11, <3>2, Zenon
    <3> QED BY <3>1, <3>2, <3>3, Zenon
  <2>3. at[i] = at[j]
    <3>1. at[i] = <<at[i][1], at[i][2]>> /\ at[j] = <<at[j][1], at[j][2]>>
      BY <1>10, Zenon
    <3> QED BY <2>1, <2>2, <3>1
  <2> QED BY <1>8, <2>3, Zenon
<1>12. \A i \in 1 .. Len(f) : f[i] \in OurProfile /\ f[i].model \in ToSet(models)
  BY <1>9, <1>10 DEF ToSet
<1>13. CASE c.profiles = f
  <2>1. DOMAIN c.profiles = 1 .. Len(f)
    BY <1>9, <1>13
  <2>2. ValidCapabilities(c)
    <3>1. \A i \in DOMAIN c.profiles :
            /\ WithinLimits(c.profiles[i]) /\ c.profiles[i].model \in c.models
            /\ c.profiles[i].operation \in OperationsOf(c)
      BY <1>1, <1>12, <1>13, <2>1, OurProfileFacts, Zenon DEF OperationsOf
    <3>2. \A i, j \in DOMAIN c.profiles :
            c.profiles[i].model = c.profiles[j].model
              /\ c.profiles[i].operation = c.profiles[j].operation => i = j
      BY <1>11, <1>13, <2>1, Zenon
    <3> QED BY <3>1, <3>2, Zenon DEF ValidCapabilities, InScope
  <2>3. c.models \subseteq Model
    BY <1>1, <1>2
  <2>4. \A i \in DOMAIN c.profiles : c.profiles[i] \in OurProfile
    BY <1>12, <1>13, <2>1, Zenon
  <2> QED BY <2>2, <2>3, <2>4, Zenon DEF Told, c
<1>14. CASE c.profiles = <<>>
  <2>1. \A i \in DOMAIN c.profiles : FALSE
    BY <1>14
  <2>2. c.models \subseteq Model
    BY <1>1, <1>2
  <2> QED BY <2>1, <2>2, Zenon DEF Told, ValidCapabilities, InScope, c
<1> QED BY <1>1, <1>13, <1>14

SessionOk(s) == s.id \in 1 .. issued /\ Told(s.capabilities)

\* The types, and that a node that runs has a session with capabilities as it announces
\* them, and a list of models without duplicates.
Typed ==
  /\ ollama = [models |-> ollama.models, version |-> ollama.version]
  /\ DOMAIN ollama.models \subseteq Model /\ changes \in 0 .. MaxChanges
  /\ pc \in {"load", "scan", "discover", "announce", "save", "run", "down"}
  /\ scans \in 0 .. MaxScans - 1
  /\ models \in Seq(Model) /\ \A i, j \in DOMAIN models : models[i] = models[j] => i = j
  /\ pc = "announce" \/ fresh # None => Told(fresh)
  /\ issued \in 0 .. MaxSessions
  /\ \A s \in {disk, session, server} \ {None} : SessionOk(s)
  /\ pc \in {"save", "run"} => SessionOk(session)
  /\ cached # None => cached \subseteq Model
  /\ accepted \subseteq Model

\* Steps that change neither the setup nor a session.
LEMMA TypedElsewhere ==
  ASSUME Typed, UNCHANGED <<ollamaVars, setupVars, sessionVars, cached, accepted>>
  PROVE  Typed'
BY DEF Typed, SessionOk, ollamaVars, setupVars, sessionVars

\* Ollama gets, loses or replaces a model, or another version.
LEMMA TypedOllama ==
  ASSUME Typed, OllamaChanges
  PROVE  Typed'
<1>1. UNCHANGED <<setupVars, sessionVars, cached, accepted>>
  BY DEF OllamaChanges, heartbeatVars
<1>2. changes' \in 0 .. MaxChanges
  BY AdmissionAssumption DEF OllamaChanges, Typed
<1>3. /\ ollama' = [models |-> ollama'.models, version |-> ollama'.version]
      /\ DOMAIN ollama'.models \subseteq Model
  <2>0. /\ ollama = [models |-> ollama.models, version |-> ollama.version]
        /\ DOMAIN ollama.models \subseteq Model
    BY DEF Typed
  <2>1. ASSUME NEW X, ollama' = [ollama EXCEPT !.models = X], DOMAIN X \subseteq Model
        PROVE  /\ ollama' = [models |-> ollama'.models, version |-> ollama'.version]
               /\ DOMAIN ollama'.models \subseteq Model
    <3>1. ollama' = [models |-> X, version |-> ollama.version]
      BY <2>0, <2>1
    <3> QED BY <2>1, <3>1
  <2>2. ASSUME NEW v, ollama' = [ollama EXCEPT !.version = v]
        PROVE  /\ ollama' = [models |-> ollama'.models, version |-> ollama'.version]
               /\ DOMAIN ollama'.models \subseteq Model
    <3>1. ollama' = [models |-> ollama.models, version |-> v]
      BY <2>0, <2>2
    <3> QED BY <2>0, <3>1
  <2>3. CASE \E m \in Model, a \in Ability :
               ollama' = [ollama EXCEPT !.models = [x \in DOMAIN ollama.models \cup {m} |->
                                                      IF x = m THEN a ELSE ollama.models[x]]]
    BY <2>0, <2>1, <2>3
  <2>4. CASE \E m \in DOMAIN ollama.models :
               ollama' = [ollama EXCEPT !.models = [x \in DOMAIN ollama.models \ {m} |->
                                                      ollama.models[x]]]
    BY <2>0, <2>1, <2>4
  <2>5. CASE \E v \in Version : ollama' = [ollama EXCEPT !.version = v]
    BY <2>2, <2>5
  <2> QED BY <2>3, <2>4, <2>5 DEF OllamaChanges
<1> QED BY <1>1, <1>2, <1>3 DEF Typed, SessionOk, setupVars, sessionVars

\* The list of Ollama's models, with repetitions, is sorted and rid of them.
LEMMA TypedScan ==
  ASSUME Typed, Scan
  PROVE  Typed'
<1>0. /\ pc' = "discover"
      /\ UNCHANGED <<ollama, changes, scans, fresh, disk, session, server, issued, cached,
                     accepted>>
  BY DEF Scan, Goto, ollamaVars, sessionVars, heartbeatVars
<1>1. PICK again \in SUBSET DOMAIN ollama.models :
         models' = Normal(SetToSeq(DOMAIN ollama.models) \o SetToSeq(again))
  BY DEF Scan
<1> DEFINE D == DOMAIN ollama.models
           list == SetToSeq(D) \o SetToSeq(again)
<1>2. D \subseteq Model /\ again \subseteq Model /\ IsFiniteSet(D) /\ IsFiniteSet(again)
  BY AdmissionAssumption, FS_Subset DEF Typed
<1>3. SetToSeq(D) \in Seq(Model) /\ SetToSeq(again) \in Seq(Model)
  <2>1. SetToSeq(D) \in Seq(D) /\ SetToSeq(again) \in Seq(again)
    BY <1>2, SetToSeqType
  <2> HIDE DEF D
  <2> QED BY <1>2, <2>1
<1>4. list \in Seq(Model)
  BY <1>3
<1> HIDE DEF list
<1>5. /\ models' \in Seq(Model)
      /\ \A i, j \in DOMAIN models' : models'[i] = models'[j] => i = j
  BY <1>1, <1>4, NormalList, Zenon DEF list
<1> QED BY <1>0, <1>5 DEF Typed, SessionOk

\* Discovery makes capabilities as they are announced.
LEMMA TypedDiscover ==
  ASSUME Typed, Discover
  PROVE  Typed'
<1>0. /\ pc' = "announce" /\ models' = <<>>
      /\ UNCHANGED <<ollama, changes, scans, disk, session, server, issued, cached,
                     accepted>>
  BY DEF Discover, Goto, ollamaVars, sessionVars, heartbeatVars
<1>1. PICK version, answered : fresh' = Discovered(version, answered)
  BY DEF Discover
<1>2. Told(Discovered(version, answered))
  BY DiscoveredTold DEF Typed
<1>3. Told(fresh')
  BY <1>1, <1>2, Zenon
<1>4. <<>> \in Seq(Model) /\ \A i, j \in DOMAIN <<>> : i = j
  BY EmptySeq
<1> QED BY <1>0, <1>3, <1>4 DEF Typed, SessionOk

\* The other steps of the setup, and a crash.
LEMMA TypedSetup ==
  ASSUME Typed,
         \/ Load \/ ScanFails \/ Unchanged \/ RefreshUnauthorized \/ Save \/ SaveFails
         \/ Crash \/ HeartbeatUnauthorized \/ Revoke
  PROVE  Typed'
<1> USE AdmissionAssumption DEF Typed, SessionOk, Goto, SetupEnds, LoopsEnd, ollamaVars,
            setupVars, sessionVars, heartbeatVars, Registering
<1>1. <<>> \in Seq(Model) /\ DOMAIN <<>> = {}
  BY EmptySeq
<1>2. CASE Load
  BY <1>2 DEF Load
<1>3. CASE ScanFails
  BY <1>3 DEF ScanFails
<1>4. CASE Unchanged \/ RefreshUnauthorized
  <2>1. /\ pc' = "run" /\ scans' = 0 /\ models' = <<>> /\ fresh' = None /\ session # None
        /\ UNCHANGED <<ollama, changes, disk, session, server, issued, cached, accepted>>
    BY <1>4 DEF Unchanged, RefreshUnauthorized
  <2>2. SessionOk(session)
    BY <2>1
  <2> QED BY <1>1, <2>1, <2>2
<1>5. CASE Save \/ SaveFails
  BY <1>5 DEF Save, SaveFails
<1>6. CASE Crash
  BY <1>1, <1>6 DEF Crash
<1>7. CASE HeartbeatUnauthorized \/ Revoke
  BY <1>7 DEF HeartbeatUnauthorized, Revoke
<1> QED BY <1>2, <1>3, <1>4, <1>5, <1>6, <1>7

\* The server issues a session for what is announced.
LEMMA TypedAnnounce ==
  ASSUME Typed, Announce \/ AnnounceUnanswered
  PROVE  Typed'
<1>1. /\ pc = "announce" /\ issued < MaxSessions /\ issued' = issued + 1 /\ server' = Issue
      /\ UNCHANGED <<ollama, changes, disk, cached, accepted>>
  BY DEF Announce, AnnounceUnanswered, ollamaVars, heartbeatVars
<1>2. Told(fresh)
  BY <1>1 DEF Typed
<1>3. Issue.id = issued + 1 /\ Issue.capabilities = fresh
  BY DEF Issue
<1>4. /\ issued' \in 0 .. MaxSessions /\ issued + 1 \in 1 .. issued'
      /\ 1 .. issued \subseteq 1 .. issued'
  BY <1>1, AdmissionAssumption DEF Typed
<1>5. SessionOk(server)'
  BY <1>1, <1>2, <1>3, <1>4, Zenon DEF SessionOk
<1>6. \A s \in {disk, session} \ {None} : s.id \in 1 .. issued' /\ Told(s.capabilities)
  BY <1>4 DEF Typed, SessionOk
<1>7. <<>> \in Seq(Model) /\ DOMAIN <<>> = {}
  BY EmptySeq
<1>8. CASE Announce
  <2>1. session' = Issue /\ pc' = "save" /\ scans' = 0 /\ models' = <<>> /\ fresh' = None
    BY <1>8 DEF Announce, Announced, Goto, SetupEnds
  <2>2. \A s \in {disk', session', server'} \ {None} : s.id \in 1 .. issued' /\ Told(s.capabilities)
    BY <1>1, <1>5, <1>6, <2>1, Zenon DEF SessionOk
  <2>3. session'.id \in 1 .. issued' /\ Told(session'.capabilities)
    BY <1>1, <1>5, <2>1, Zenon DEF SessionOk
  <2> QED BY <1>1, <1>4, <1>7, <2>1, <2>2, <2>3, AdmissionAssumption DEF Typed, SessionOk
<1>9. CASE AnnounceUnanswered
  <2>1. /\ session' = session
        /\ \/ pc' = "scan" /\ scans' = 0 /\ models' = <<>> /\ fresh' = None
           \/ UNCHANGED <<pc, scans, models, fresh>>
    BY <1>9 DEF AnnounceUnanswered, Goto, SetupEnds, setupVars
  <2>2. \A s \in {disk', session', server'} \ {None} : s.id \in 1 .. issued' /\ Told(s.capabilities)
    BY <1>1, <1>5, <1>6, <2>1, Zenon DEF SessionOk
  <2>3. pc' \in {"announce", "scan"}
    BY <1>1, <2>1
  <2>4. /\ scans' \in 0 .. MaxScans - 1
        /\ models' \in Seq(Model) /\ \A i, j \in DOMAIN models' : models'[i] = models'[j] => i = j
        /\ (pc' = "announce" \/ fresh' # None => Told(fresh'))
    <3>1. CASE scans' = 0 /\ models' = <<>> /\ fresh' = None /\ pc' = "scan"
      BY <1>7, <3>1, AdmissionAssumption
    <3>2. CASE UNCHANGED <<pc, scans, models, fresh>>
      BY <1>2, <3>2 DEF Typed
    <3> QED BY <2>1, <3>1, <3>2
  <2> QED BY <1>1, <1>4, <2>2, <2>3, <2>4 DEF Typed, SessionOk
<1> QED BY <1>8, <1>9

\* What a heartbeat accepts is what Ollama has, or what was known or registered.
LEMMA TypedHeartbeat ==
  ASSUME Typed, Heartbeat
  PROVE  Typed'
<1>0. pc = "run" /\ UNCHANGED <<ollamaVars, setupVars, sessionVars>>
  BY DEF Heartbeat
<1>1. /\ Registered \subseteq Model /\ Installed \subseteq Model
      /\ cached # None => cached \subseteq Model
      /\ accepted \subseteq Model
  BY <1>0 DEF Typed, SessionOk, Told, Registered, Installed
<1>2. PICK read \in BOOLEAN, asked \in BOOLEAN : HeartbeatOf(Known(read), asked, read)
  BY DEF Heartbeat
<1>3. Known(read) \subseteq Model
  BY <1>1 DEF Known
<1>4. accepted' \subseteq Model /\ (cached' # None => cached' \subseteq Model)
  BY <1>1, <1>2, <1>3 DEF HeartbeatOf
<1> QED BY <1>0, <1>4 DEF Typed, SessionOk, ollamaVars, setupVars, sessionVars

\* The types hold in every state.
THEOREM AdmissionTyped == Spec => []Typed
<1>1. Init => Typed
  <2> SUFFICES ASSUME Init PROVE Typed
    OBVIOUS
  <2>1. PICK S \in SUBSET Model, v \in Version :
           \E abilities \in [S -> Ability] : ollama = [models |-> abilities, version |-> v]
    BY DEF Init
  <2>2. /\ ollama = [models |-> ollama.models, version |-> ollama.version]
        /\ DOMAIN ollama.models \subseteq Model
    BY <2>1
  <2>3. <<>> \in Seq(Model) /\ DOMAIN <<>> = {}
    BY EmptySeq
  <2> QED BY <2>2, <2>3, AdmissionAssumption DEF Init, Typed
<1>2. Typed /\ [Next]_vars => Typed'
  <2> SUFFICES ASSUME Typed, [Next]_vars PROVE Typed'
    OBVIOUS
  <2>1. CASE ExecuteNative \/ ExecuteLegacy \/ Submit \/ HeartbeatSkipped \/ UNCHANGED vars
    BY <2>1, TypedElsewhere
       DEF ExecuteNative, ExecuteLegacy, Submit, HeartbeatSkipped, vars, heartbeatVars
  <2>2. CASE OllamaChanges
    BY <2>2, TypedOllama
  <2>3. CASE Scan
    BY <2>3, TypedScan
  <2>4. CASE Discover
    BY <2>4, TypedDiscover
  <2>5. CASE Load \/ ScanFails \/ Unchanged \/ RefreshUnauthorized \/ Save \/ SaveFails
             \/ Crash \/ HeartbeatUnauthorized \/ Revoke
    BY <2>5, TypedSetup
  <2>6. CASE Announce \/ AnnounceUnanswered
    BY <2>6, TypedAnnounce
  <2>7. CASE Heartbeat
    BY <2>7, TypedHeartbeat
  <2> QED BY <2>1, <2>2, <2>3, <2>4, <2>5, <2>6, <2>7 DEF Next, NodeStep
<1> QED BY <1>1, <1>2, PTL DEF Spec

-----------------------------------------------------------------------------
(* What becomes of a task                                                      *)

\* Whether something is in a set is true or false.
LEMMA Decided ==
  ASSUME NEW e, NEW X
  PROVE  (e \in X) \in BOOLEAN
BY SMT

\* The causes of a failure; an error is classified by its cause.
Causes == {"none", "invalid", "unsupported", "invalid_payload", "malformed", "limit",
           "stopped", "http_4xx", "http_5xx", "other"}
Statuses == {"failed", "succeeded", "image_succeeded", "native_succeeded", "stream_succeeded"}

\* A record of a status, a cause and whose fault it is.
LEMMA VerdictIs ==
  ASSUME NEW s \in Statuses, NEW c \in Causes, NEW b \in BOOLEAN
  PROVE  /\ [status |-> s, cause |-> c, client |-> b] \in Verdict
         /\ [status |-> s, cause |-> c, client |-> b].cause = c
<1>1. Verdict = [status : Statuses, cause : Causes, client : BOOLEAN]
  BY Zenon DEF Verdict, Statuses, Causes
<1>2. [status |-> s, cause |-> c, client |-> b] \in Verdict
  BY <1>1, Zenon
<1> QED BY <1>2

\* An error is classified by its cause.
LEMMA ClassifiedCause ==
  ASSUME NEW e \in Causes
  PROVE  Classified(e) \in Verdict /\ Classified(e).cause = e
<1> DEFINE b == e \in {"http_4xx", "stopped"}
<1>1. "failed" \in Statuses
  BY DEF Statuses
<1>2. b \in BOOLEAN
  BY Decided, Zenon
<1>3. Classified(e) = [status |-> "failed", cause |-> e, client |-> b]
  BY Zenon DEF Classified, Failed
<1> HIDE DEF b
<1>4. /\ [status |-> "failed", cause |-> e, client |-> b] \in Verdict
      /\ [status |-> "failed", cause |-> e, client |-> b].cause = e
  BY <1>1, <1>2, VerdictIs, Zenon
<1> QED BY <1>3, <1>4, Zenon

\* A success has no cause.
LEMMA DoneCause ==
  ASSUME NEW status \in Statuses
  PROVE  Done(status) \in Verdict /\ Done(status).cause = "none"
<1>1. "none" \in Causes /\ FALSE \in BOOLEAN
  BY DEF Causes
<1> QED BY <1>1, VerdictIs, Zenon DEF Done

\* What a task of the old protocol comes to.
LEMMA LegacyVerdict ==
  ASSUME NEW kind \in {"chat", "image", "mixed"}, NEW o \in LegacyResults(kind)
  PROVE  o \in Verdict
<1>1. \A status \in Statuses : Done(status) \in Verdict
  BY DoneCause
<1>2. \A e \in Causes : Classified(e) \in Verdict
  BY ClassifiedCause
<1>3. /\ {"succeeded", "image_succeeded"} \subseteq Statuses
      /\ {"http_4xx", "http_5xx", "other"} \subseteq Causes
  BY DEF Statuses, Causes
<1>4. Failed("invalid_payload", TRUE) \in Verdict
  <2>1. "failed" \in Statuses /\ "invalid_payload" \in Causes /\ TRUE \in BOOLEAN
    BY DEF Statuses, Causes
  <2> QED BY <2>1, VerdictIs, Zenon DEF Failed
<1>5. CASE kind = "chat"
  <2>1. o \in {Done("succeeded"), Classified("other")}
    BY <1>5 DEF LegacyResults
  <2> QED BY <1>1, <1>2, <1>3, <2>1
<1>6. CASE kind = "image"
  <2>1. o \in {Done("image_succeeded")} \cup
              {Classified(e) : e \in {"http_4xx", "http_5xx", "other"}}
    BY <1>6 DEF LegacyResults
  <2> QED BY <1>1, <1>2, <1>3, <2>1
<1>7. CASE kind = "mixed"
  <2>1. o = Failed("invalid_payload", TRUE)
    BY <1>7 DEF LegacyResults
  <2> QED BY <1>4, <2>1
<1> QED BY <1>5, <1>6, <1>7

\* The outcomes of an inference are no refusals.
LEMMA OutcomeCauses ==
  ASSUME NEW t, NEW o \in NativeOutcomes(t)
  PROVE  o \in Verdict /\ o.cause \notin {"invalid", "unsupported"}
<1> DEFINE Failures == {"other", "stopped", "malformed", "limit"}
           Successes == {"stream_succeeded", "native_succeeded"}
           X == IF Streams(t.request) THEN {Done("stream_succeeded")}
                ELSE IF t.cancellation THEN {Classified("stopped")} ELSE {}
           Y == {IF ~ValidResponse(a, t.request.operation) THEN Classified("malformed")
                 ELSE IF \A p \in ProfileFor(t) : ValidResult(p, a) THEN Done("native_succeeded")
                 ELSE Classified("limit") : a \in Response}
<1>1. o \in {Classified("other")} \cup X \cup Y
  BY Zenon DEF NativeOutcomes
<1>2. o \in X => o = Done("stream_succeeded") \/ o = Classified("stopped")
  <2> HIDE DEF Failures, Successes, Y
  <2>1. CASE Streams(t.request)
    BY <2>1, Zenon
  <2>2. CASE ~Streams(t.request) /\ t.cancellation
    BY <2>2, Zenon
  <2>3. CASE ~Streams(t.request) /\ ~t.cancellation
    BY <2>3, Zenon
  <2> QED BY <2>1, <2>2, <2>3, Zenon
<1>3. ASSUME o \in Y
      PROVE  o = Classified("malformed") \/ o = Done("native_succeeded") \/ o = Classified("limit")
  <2> DEFINE Out(a) == IF ~ValidResponse(a, t.request.operation) THEN Classified("malformed")
                       ELSE IF \A p \in ProfileFor(t) : ValidResult(p, a)
                            THEN Done("native_succeeded") ELSE Classified("limit")
  <2>1. PICK a \in Response : o = Out(a)
    BY <1>3, Zenon
  <2>2. \/ Out(a) = Classified("malformed") \/ Out(a) = Done("native_succeeded")
        \/ Out(a) = Classified("limit")
    <3>1. CASE ~ValidResponse(a, t.request.operation)
      BY <3>1, Zenon
    <3>2. CASE ValidResponse(a, t.request.operation) /\ \A p \in ProfileFor(t) : ValidResult(p, a)
      BY <3>2, Zenon
    <3>3. CASE ValidResponse(a, t.request.operation) /\ ~\A p \in ProfileFor(t) : ValidResult(p, a)
      BY <3>3, Zenon
    <3> QED BY <3>1, <3>2, <3>3, Zenon
  <2> HIDE DEF Out
  <2> QED BY <2>1, <2>2, Zenon
<1> HIDE DEF X, Y
<1>4. (\E e \in Failures : o = Classified(e)) \/ (\E s \in Successes : o = Done(s))
  BY <1>1, <1>2, <1>3, Zenon
<1>5. \A e \in Failures : Classified(e) \in Verdict /\ Classified(e).cause = e
  <2>1. Failures \subseteq Causes
    BY DEF Causes
  <2> HIDE DEF Failures
  <2> QED BY <2>1, ClassifiedCause
<1>6. \A s \in Successes : Done(s) \in Verdict /\ Done(s).cause = "none"
  <2>1. Successes \subseteq Statuses
    BY DEF Statuses
  <2> HIDE DEF Successes
  <2> QED BY <2>1, DoneCause
<1>7. \A e \in Failures : e \notin {"invalid", "unsupported"}
  OBVIOUS
<1>8. "none" \notin {"invalid", "unsupported"}
  OBVIOUS
<1> HIDE DEF Failures, Successes
<1> QED BY <1>4, <1>5, <1>6, <1>7, <1>8, Zenon

\* Every result is a record, and tells the refusal there was.
LEMMA ResultCauses ==
  ASSUME NEW t, NEW o \in NativeResults(t)
  PROVE  /\ o \in Verdict
         /\ Refusal(t) = "none" => o.cause \notin {"invalid", "unsupported"}
         /\ Refusal(t) # "none" => o.cause = Refusal(t)
<1>1. CASE Refusal(t) = "none"
  <2>1. o \in NativeOutcomes(t)
    BY <1>1, Zenon DEF NativeResults
  <2>2. o \in Verdict /\ o.cause \notin {"invalid", "unsupported"}
    BY <2>1, OutcomeCauses, Zenon
  <2> QED BY <1>1, <2>2, Zenon
<1>2. CASE Refusal(t) # "none"
  <2>1. Refusal(t) \in {"invalid", "unsupported"}
    BY <1>2 DEF Refusal
  <2>2. o = Classified(Refusal(t))
    BY <1>2, Zenon DEF NativeResults
  <2> DEFINE e == Refusal(t)
  <2>3. e \in Causes
    BY <2>1 DEF Causes
  <2> HIDE DEF e
  <2>4. Classified(e) \in Verdict /\ Classified(e).cause = e
    BY <2>3, ClassifiedCause, Zenon
  <2>5. Classified(Refusal(t)) \in Verdict /\ Classified(Refusal(t)).cause = Refusal(t)
    BY <2>4, Zenon DEF e
  <2> QED BY <1>2, <2>2, <2>5, Zenon
<1> QED BY <1>1, <1>2, Zenon

\* A request that is valid finds a profile that permits it, if one of its model and
\* operation has its features: the limits of the node's profiles are those of a request,
\* and its name, which a profile needs to be valid, is one that a request may have.
LEMMA SelectsPermits ==
  ASSUME NEW r, WellTyped(r), NEW model, ValidFor(r, model), NEW p \in OurProfile,
         Selects(p, Requirements(r))
  PROVE  Permits(p, Requirements(r))
<1>1. r.bytes \in Nat /\ r.bytes <= MaxBody /\ MaxBody \in Nat
  BY RequestAssumption DEF WellTyped, ValidFor
<1>2. Requirements(r).bytes = r.bytes
  BY DEF Requirements
<1>3. p.max_request >= Requirements(r).bytes
  BY <1>1, <1>2, OurProfileFacts
<1>4. p.model \in ShortName
  BY DEF Selects, Requirements, ValidFor
<1> QED BY <1>3, <1>4, OurProfileFacts, Zenon DEF Selects, Permits, ValidProfile

\* The profile of a model and an operation is the only one.
LEMMA OneProfile ==
  ASSUME NEW t, Told(session.capabilities), NEW p \in ProfileFor(t), NEW q \in ProfileFor(t)
  PROVE  p = q
<1> DEFINE ps == session.capabilities.profiles
<1>1. PICK i \in DOMAIN ps : p = ps[i]
  BY DEF ProfileFor, ProfilesIn, ToSet
<1>2. PICK j \in DOMAIN ps : q = ps[j]
  BY DEF ProfileFor, ProfilesIn, ToSet
<1>3. ps[i].model = ps[j].model /\ ps[i].operation = ps[j].operation
  BY <1>1, <1>2, Zenon DEF ProfileFor
<1>4. i = j
  BY <1>3, Zenon DEF Told, ValidCapabilities, InScope
<1> QED BY <1>1, <1>2, <1>4, Zenon

\* What is not valid is refused as that.
LEMMA InvalidRefused ==
  ASSUME NEW t, ~ValidFor(t.request, t.model)
  PROVE  Refusal(t) = "invalid"
BY DEF Refusal

\* The node refuses no task as unsupported that the server, which knows the same
\* capabilities, has selected it for.
LEMMA SelectedAdmitted ==
  ASSUME NEW t, WellTyped(t.request), Told(session.capabilities),
         server.capabilities = session.capabilities,
         HasRequirements(t.request), Selected(t)
  PROVE  Refusal(t) # "unsupported"
<1> DEFINE r == t.request
           Unsupported == \/ ~HasRequirements(r)
                          \/ t.cancellation /\ ~Streams(r) /\ ~Cancellable(t)
                          \/ ProfileFor(t) = {} \/ ~Permitted(t)
<1>1. CASE ~ValidFor(r, t.model)
  <2>1. Refusal(t) = "invalid"
    BY <1>1, InvalidRefused, Zenon
  <2> QED BY <2>1
<1>2. CASE ValidFor(r, t.model)
  <2>1. t.model = r.model
    BY <1>2, Zenon DEF ValidFor
  <2>2. PICK p \in ProfilesIn(session.capabilities) : Selects(p, Requirements(r))
    BY Zenon DEF Selected
  <2>3. p \in OurProfile
    BY Zenon DEF Told, ProfilesIn, ToSet
  <2>4. Permits(p, Requirements(r))
    BY <1>2, <2>2, <2>3, SelectsPermits, Zenon
  <2>5. p.model = r.model /\ p.operation = r.operation
    BY <2>2 DEF Selects, Requirements
  <2>6. p \in ProfileFor(t)
    BY <2>1, <2>5, Zenon DEF ProfileFor
  <2>7. Permitted(t)
    BY <2>4, <2>6, OneProfile, Zenon DEF Permitted
  <2>8. Cancellable(t)
    BY <2>3, <2>4, OurProfileFacts, Zenon DEF Cancellable
  <2>9. ~Unsupported
    BY <2>6, <2>7, <2>8, Zenon
  <2>10. Refusal(t) = "none"
    BY <1>2, <2>9, Zenon DEF Refusal
  <2> QED BY <2>10
<1> QED BY <1>1, <1>2, Zenon

\* The walk that checks the content sees every image in a message or an input: the first
\* item of messages, which it passes over, is then a message and no image.
LEMMA ImagesInline ==
  ASSUME NEW r, WellTyped(r), ValidContent(r), NEW block \in Content(r),
         block.type = "image"
  PROVE  block.inline
<1> DEFINE path  == r.content
           first == IF r.operation = "responses" THEN 1 ELSE 2
<1>1. PICK j \in 1 .. Len(path) : /\ block = path[j]
                                  /\ \A h \in 1 .. j - 1 : path[h].type \in Nests
  BY DEF Content, Reached
<1>2. r.operation = "responses" \/ path[1].type \in Nests
  BY DEF Content
<1>3. Len(path) \in Nat
  BY DEF WellTyped
<1>4. j >= first
  <2> SUFFICES ASSUME j < first PROVE FALSE
    BY <1>3
  <2>1. j = 1 /\ r.operation # "responses"
    BY <1>3
  <2> QED BY <1>1, <1>2, <2>1 DEF Nests
<1>5. j \in first .. Len(path) /\ \A h \in first .. j - 1 : path[h].type \in Descends
  BY <1>1, <1>3, <1>4 DEF Nests, Descends
<1>6. block \in Reached(path, first, Descends)
  BY <1>1, <1>5 DEF Reached
<1> QED BY <1>6 DEF ValidContent, BlockAllowed

\* What an admitted request uses in its messages or its input is in the profile, at any
\* depth.
LEMMA AdmittedWithin ==
  ASSUME NEW t, WellTyped(t.request), Refusal(t) = "none"
  PROVE  WithinProfile(t, Content(t.request))
<1> DEFINE r == t.request
           Unsupported == \/ ~HasRequirements(r)
                          \/ t.cancellation /\ ~Streams(r) /\ ~Cancellable(t)
                          \/ ProfileFor(t) = {} \/ ~Permitted(t)
<1>1. ValidFor(r, t.model)
  <2> SUFFICES ASSUME ~ValidFor(r, t.model) PROVE FALSE
    OBVIOUS
  <2>1. Refusal(t) = "invalid"
    BY InvalidRefused, Zenon
  <2> QED BY <2>1
<1>2. ~Unsupported
  <2> SUFFICES ASSUME Unsupported PROVE FALSE
    OBVIOUS
  <2>1. Refusal(t) = "unsupported"
    BY <1>1, Zenon DEF Refusal
  <2> QED BY <2>1
<1>3. ASSUME NEW p \in ProfileFor(t)
      PROVE  Requirements(r).features \subseteq p.features
  BY <1>2, <1>3, Zenon DEF Permitted, Permits
<1>4. ASSUME NEW block \in Content(r)
      PROVE  FeatureOf(block.type) \subseteq Requirements(r).features
  <2>1. block \in Reached(r.content, 1, Inspects)
    BY DEF Content, Nests, Inspects, Descends
  <2>2. FeatureOf(block.type) \subseteq InspectContent(r.content)
    BY <2>1 DEF InspectContent
  <2>3. InspectContent(r.content) \subseteq Requirements(r).features
    BY DEF Requirements, InspectFeatures
  <2> QED BY <2>2, <2>3
<1>5. Streams(r) => "sse" \in Requirements(r).features
  BY DEF Requirements
<1>6. ASSUME NEW block \in Content(r), block.type = "image"
      PROVE  block.inline
  <2>1. ValidContent(r)
    BY <1>1 DEF ValidFor, ValidStructure, ValidRuntimeFeatures
  <2> QED BY <1>6, <2>1, ImagesInline, Zenon
<1> QED BY <1>3, <1>4, <1>5, <1>6, Zenon DEF WithinProfile

-----------------------------------------------------------------------------
\* While a node runs and its session is live, the server knows the capabilities it has.
RunsAgreed ==
  pc \in {"save", "run"} /\ Live => session.capabilities = server.capabilities

\* Nothing is kept of a task that has no result, and what is kept is as it should be.
Judged ==
  /\ result = None => task = NoTask
  /\ result # None => result \in Verdict
  /\ SelectedIsAdmitted /\ AdmittedWithinProfile

AdmissionJudged == RunsAgreed /\ Judged

\* Steps that leave the task alone, or end the process.
LEMMA JudgedElsewhere ==
  ASSUME Judged, UNCHANGED taskVars \/ (task' = NoTask /\ result' = None)
  PROVE  Judged'
BY DEF Judged, taskVars, SelectedIsAdmitted, AdmittedWithinProfile, Admitted

\* A native task: it is judged by the session the server knows.
LEMMA JudgedNative ==
  ASSUME Typed, AdmissionJudged, ExecuteNative
  PROVE  Judged'
<1>0. PICK r \in Request, cancellation \in BOOLEAN :
         \E m \in (IF r.model = None THEN Model ELSE {r.model}) :
           LET t == [model |-> m, request |-> r, cancellation |-> cancellation]
           IN /\ result' \in NativeResults(t)
              /\ task' = [selected |-> HasRequirements(r) /\ Selected(t),
                          within   |-> WithinProfile(t, Content(r)),
                          whole    |-> WithinProfile(t, Content(r) \cup OtherContent(r))]
  BY Zenon DEF ExecuteNative
<1>1. PICK m \in (IF r.model = None THEN Model ELSE {r.model}) :
         LET t == [model |-> m, request |-> r, cancellation |-> cancellation]
         IN /\ result' \in NativeResults(t)
            /\ task' = [selected |-> HasRequirements(r) /\ Selected(t),
                        within   |-> WithinProfile(t, Content(r)),
                        whole    |-> WithinProfile(t, Content(r) \cup OtherContent(r))]
  BY <1>0, Zenon
<1> DEFINE t == [model |-> m, request |-> r, cancellation |-> cancellation]
<1>2. /\ result' \in NativeResults(t) /\ t.request = r
      /\ task' = [selected |-> HasRequirements(r) /\ Selected(t),
                  within   |-> WithinProfile(t, Content(r)),
                  whole    |-> WithinProfile(t, Content(r) \cup OtherContent(r))]
  BY <1>1
<1>3. /\ task'.selected = (HasRequirements(r) /\ Selected(t))
      /\ task'.within = WithinProfile(t, Content(r))
  BY <1>2
<1>4. pc = "run" /\ Live /\ WellTyped(r)
  BY AdmissionAssumption DEF ExecuteNative
<1>5. Told(session.capabilities) /\ server.capabilities = session.capabilities
  BY <1>4 DEF Typed, SessionOk, AdmissionJudged, RunsAgreed
<1> HIDE DEF t
<1>6. /\ result' \in Verdict
      /\ Refusal(t) = "none" => result'.cause \notin {"invalid", "unsupported"}
      /\ Refusal(t) # "none" => result'.cause = Refusal(t)
  BY <1>2, ResultCauses, Zenon
<1>7. HasRequirements(r) /\ Selected(t) => Refusal(t) # "unsupported"
  BY <1>2, <1>4, <1>5, SelectedAdmitted, Zenon
<1>8. Refusal(t) = "none" => WithinProfile(t, Content(r))
  BY <1>2, <1>4, AdmittedWithin, Zenon
<1>9. Refusal(t) \in {"none", "invalid", "unsupported"}
  BY DEF Refusal
<1>10. SelectedIsAdmitted'
  BY <1>3, <1>6, <1>7, <1>9 DEF SelectedIsAdmitted
<1>11. AdmittedWithinProfile'
  BY <1>3, <1>6, <1>8, <1>9 DEF AdmittedWithinProfile, Admitted
<1> QED BY <1>6, <1>10, <1>11, AdmissionAssumption DEF Judged

\* A task of the old protocol starts when nothing is kept of another.
LEMMA JudgedLegacy ==
  ASSUME Judged, result = None, ExecuteLegacy
  PROVE  Judged'
<1>1. task' = NoTask
  BY DEF ExecuteLegacy, Judged
<1>2. result' \in Verdict
  BY LegacyVerdict DEF ExecuteLegacy
<1> QED BY <1>1, <1>2, AdmissionAssumption
        DEF Judged, SelectedIsAdmitted, AdmittedWithinProfile, Admitted

\* Steps that leave a running node's session and the server's alone.
LEMMA AgreedElsewhere ==
  ASSUME RunsAgreed, UNCHANGED <<pc, session, server>>
  PROVE  RunsAgreed'
BY DEF RunsAgreed, Live

\* The other steps: a node that starts to run has a session, which agrees.
LEMMA AgreedSetup ==
  ASSUME AdmissionInv, RunsAgreed,
         \/ Load \/ Scan \/ ScanFails \/ Discover \/ Unchanged \/ RefreshUnauthorized
         \/ Announce \/ AnnounceUnanswered \/ Save \/ SaveFails \/ Crash
         \/ HeartbeatUnauthorized \/ Revoke
  PROVE  RunsAgreed'
<1> USE DEF RunsAgreed, Live, Goto
<1>1. CASE Load \/ Scan \/ Discover \/ Crash \/ HeartbeatUnauthorized
  <2>1. pc' \notin {"save", "run"}
    BY <1>1 DEF Load, Scan, Discover, Crash, HeartbeatUnauthorized
  <2> QED BY <2>1
<1>2. CASE ScanFails \/ AnnounceUnanswered \/ SaveFails
  <2>1. pc' \notin {"save", "run"}
    BY <1>2 DEF ScanFails, AnnounceUnanswered, SaveFails, setupVars
  <2> QED BY <2>1
<1>3. CASE Unchanged \/ RefreshUnauthorized
  <2>1. session # None /\ UNCHANGED <<session, server>>
    BY <1>3 DEF Unchanged, RefreshUnauthorized, Registering, sessionVars
  <2> QED BY <2>1 DEF AdmissionInv, CapabilitiesAgree
<1>4. CASE Announce
  BY <1>4 DEF Announce, Announced
<1>5. CASE Save
  BY <1>5 DEF Save
<1>6. CASE Revoke
  BY <1>6 DEF Revoke
<1> QED BY <1>1, <1>2, <1>3, <1>4, <1>5, <1>6

\* What is kept of a task is right in every state.
THEOREM TasksJudged == Spec => []AdmissionJudged
<1>1. Init => AdmissionJudged
  BY DEF Init, AdmissionJudged, RunsAgreed, Live, Judged, SelectedIsAdmitted,
         AdmittedWithinProfile, Admitted
<1>2. AdmissionInv /\ Typed /\ AdmissionJudged /\ [Next]_vars => AdmissionJudged'
  <2> SUFFICES ASSUME AdmissionInv, Typed, AdmissionJudged, [Next]_vars PROVE AdmissionJudged'
    OBVIOUS
  <2> DEFINE Setup == \/ Load \/ Scan \/ ScanFails \/ Discover \/ Unchanged \/ RefreshUnauthorized
                      \/ Announce \/ AnnounceUnanswered \/ Save \/ SaveFails \/ Crash
                      \/ HeartbeatUnauthorized \/ Revoke
             Alone == OllamaChanges \/ Heartbeat \/ HeartbeatSkipped
  <2>0. \/ UNCHANGED vars \/ Submit \/ (result = None /\ ExecuteNative)
        \/ (result = None /\ ExecuteLegacy) \/ Setup \/ Alone
    BY Zenon DEF Next, NodeStep
  <2>1. CASE UNCHANGED vars
    BY <2>1, JudgedElsewhere, AgreedElsewhere DEF AdmissionJudged, vars, setupVars, sessionVars
  <2>2. CASE Submit
    <3>1. task' = NoTask /\ result' = None /\ UNCHANGED <<pc, session, server>>
      BY <2>2 DEF Submit, setupVars, sessionVars
    <3> QED BY <3>1, JudgedElsewhere, AgreedElsewhere DEF AdmissionJudged
  <2>3. CASE result = None /\ ExecuteNative
    <3>1. UNCHANGED <<pc, session, server>>
      BY <2>3 DEF ExecuteNative, setupVars, sessionVars
    <3> QED BY <2>3, <3>1, JudgedNative, AgreedElsewhere DEF AdmissionJudged
  <2>4. CASE result = None /\ ExecuteLegacy
    <3>1. UNCHANGED <<pc, session, server>>
      BY <2>4 DEF ExecuteLegacy, setupVars, sessionVars
    <3> QED BY <2>4, <3>1, JudgedLegacy, AgreedElsewhere DEF AdmissionJudged
  <2>5. CASE Setup
    <3>1. UNCHANGED taskVars \/ (task' = NoTask /\ result' = None)
      BY <2>5 DEF Load, Scan, ScanFails, Discover, Unchanged, RefreshUnauthorized, Announce,
                  AnnounceUnanswered, Save, SaveFails, Crash, HeartbeatUnauthorized, Revoke
    <3>2. RunsAgreed'
      BY <2>5, AgreedSetup, Zenon DEF AdmissionJudged
    <3> QED BY <3>1, <3>2, JudgedElsewhere, Zenon DEF AdmissionJudged
  <2>6. CASE Alone
    <3>1. UNCHANGED <<taskVars, pc, session, server>>
      BY <2>6 DEF OllamaChanges, Heartbeat, HeartbeatSkipped, setupVars, sessionVars
    <3> QED BY <3>1, JudgedElsewhere, AgreedElsewhere DEF AdmissionJudged
  <2> QED BY <2>0, <2>1, <2>2, <2>3, <2>4, <2>5, <2>6, Zenon
<1> QED BY <1>1, <1>2, AdmissionInvariant, AdmissionTyped, PTL DEF Spec

\* TypeOK: what is announced, saved, or held by the server are profiles of known models,
\* one for a model and operation and within the limits of validate_profiles, whatever
\* Ollama lists.  Of the names it says nothing: discovery does not look at them.
THEOREM AdmissionTypeCorrect == Spec => []TypeOK
<1>1. AdmissionInv /\ Typed /\ AdmissionJudged => TypeOK
  <2> SUFFICES ASSUME AdmissionInv, Typed, AdmissionJudged PROVE TypeOK
    OBVIOUS
  <2>1. ToSet(models) \subseteq Model
    BY DEF Typed, ToSet
  <2>2. beats \in 0 .. ScanInterval - 1 /\ stale \in Nat
    BY DEF AdmissionInv, Counted
  <2>3. result # None => result \in Verdict
    BY DEF AdmissionJudged, Judged
  <2> QED BY <2>1, <2>2, <2>3 DEF Typed, TypeOK, SessionOk, Told
<1> QED BY <1>1, AdmissionInvariant, AdmissionTyped, TasksJudged, PTL

\* SelectedIsAdmitted: a task the server selects by what was announced is not refused as
\* unsupported: not after a restart, an update whose reply was lost, or a change of Ollama.
THEOREM SelectedTaskIsAdmitted == Spec => []SelectedIsAdmitted
<1>1. AdmissionJudged => SelectedIsAdmitted
  BY DEF AdmissionJudged, Judged
<1> QED BY <1>1, TasksJudged, PTL

\* AdmittedWithinProfile: of what is in a message or an input by the protocols, the walk
\* that collects the features and the one that checks the content leave out no block,
\* however deep; requests may have any other shape as well.
THEOREM AdmittedTaskIsWithinProfile == Spec => []AdmittedWithinProfile
<1>1. AdmissionJudged => AdmittedWithinProfile
  BY DEF AdmissionJudged, Judged
<1> QED BY <1>1, TasksJudged, PTL
=============================================================================

--------------------------- MODULE NatInductionSets ---------------------------
(***************************************************************************)
(* Induction over the natural numbers, stated for a set of numbers and not *)
(* for a predicate.  The library's induction theorems take an operator as  *)
(* a parameter; the ones of this module are first order, so that a proof   *)
(* cites them with the set of the numbers that have the property.  They    *)
(* follow from the library's theorem that a set with a well-founded        *)
(* relation has a minimal element.                                         *)
(***************************************************************************)
EXTENDS Integers, WellFoundedInduction, TLAPS

\* There is no endless descent in the natural numbers: the library's fact with
\* its operator parameter expanded.
LEMMA NoEndlessDescent == IsWellFoundedOn({p \in Nat \X Nat : p[1] < p[2]}, Nat)
BY NatLessThanWellFounded, Zenon DEF OpToRel

\* Every nonempty set of natural numbers has a least element.
LEMMA LeastElement ==
  ASSUME NEW T, T \subseteq Nat, T # {}
  PROVE  \E m \in T : \A n \in T : m <= n
<1>1. PICK m \in T : \A n \in T : <<n, m>> \notin {p \in Nat \X Nat : p[1] < p[2]}
  BY NoEndlessDescent, WFMin, Zenon
<1>2. ASSUME NEW n \in T PROVE m <= n
  <2>1. n \in Nat /\ m \in Nat /\ <<n, m>> \notin {p \in Nat \X Nat : p[1] < p[2]}
    BY <1>1
  <2> QED BY <2>1
<1> QED BY <1>1, <1>2

\* Induction: a set that holds 0 and, with every number, the next one, holds
\* every natural number.
LEMMA UpwardInduction ==
  ASSUME NEW T, 0 \in T, \A n \in Nat : n \in T => n + 1 \in T
  PROVE  \A n \in Nat : n \in T
<1> DEFINE U == Nat \ T
<1>1. SUFFICES ASSUME U # {} PROVE FALSE
  OBVIOUS
<1>2. PICK m \in U : \A n \in U : m <= n
  <2>1. U \subseteq Nat
    OBVIOUS
  <2> QED BY <1>1, <2>1, LeastElement, Zenon
<1>3. m \in Nat /\ m \notin T /\ m # 0
  BY <1>2
<1>4. m - 1 \in Nat /\ ~(m <= m - 1) /\ (m - 1) + 1 = m
  BY <1>3
<1>5. m - 1 \in T
  BY <1>2, <1>4, Zenon
<1> QED BY <1>3, <1>4, <1>5

\* Induction downwards over an interval: a set that holds a number of the
\* interval as soon as it holds all the larger ones holds the interval.
LEMMA DownwardInduction ==
  ASSUME NEW a \in Int, NEW b \in Int, NEW T,
         \A n \in a .. b : (\A m \in n + 1 .. b : m \in T) => n \in T
  PROVE  \A n \in a .. b : n \in T
<1> DEFINE U == {k \in 0 .. b - a : b - k \notin T}
<1>1. SUFFICES ASSUME U # {} PROVE FALSE
  <2> SUFFICES ASSUME NEW n \in a .. b, n \notin T PROVE U # {}
    BY <1>1
  <2>1. b - n \in 0 .. b - a /\ b - (b - n) = n
    OBVIOUS
  <2>2. b - n \in U
    BY <2>1
  <2> QED BY <2>2
<1>2. PICK k \in U : \A j \in U : k <= j
  <2>1. U \subseteq Nat
    OBVIOUS
  <2> QED BY <1>1, <2>1, LeastElement, Zenon
<1>3. k \in 0 .. b - a /\ b - k \notin T /\ b - k \in a .. b
  BY <1>2
<1>4. ASSUME NEW m \in b - k + 1 .. b PROVE m \in T
  <2>1. b - m \in 0 .. b - a /\ ~(k <= b - m) /\ b - (b - m) = m
    BY <1>3
  <2>2. b - m \notin U
    BY <1>2, <2>1, Zenon
  <2> QED BY <2>1, <2>2
<1> QED BY <1>3, <1>4
=============================================================================

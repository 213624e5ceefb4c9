----------------------------- MODULE Positions -----------------------------
(***************************************************************************)
(* A set of positions has a first one and, if it is bounded, a last one:   *)
(* by well-foundedness of the finite sets of naturals.                     *)
(***************************************************************************)
EXTENDS FiniteSetTheorems, WellFoundedInduction, TLAPS

(* The first of the positions where something holds. *)
LEMMA FirstPosition ==
  ASSUME NEW S \in SUBSET Nat, S # {}
  PROVE  \E m \in S : \A k \in S : m <= k
<1> DEFINE Up == {0..n : n \in S}
           R  == StrictSubsetOrdering(Nat)
<1>1. Up \subseteq FiniteSubsetsOf(Nat) /\ Up # {}
  <2>1. \A n \in S : 0..n \in SUBSET Nat /\ IsFiniteSet(0..n)
    BY FS_Interval
  <2>2. Up # {}
    OBVIOUS
  <2> QED
    BY <2>1, <2>2 DEF FiniteSubsetsOf
<1>2. PICK T \in Up : \A U \in Up : <<U, T>> \notin R
  <2>1. IsWellFoundedOn(R, FiniteSubsetsOf(Nat))
    BY FS_StrictSubsetOrderingWellFounded
  <2> HIDE DEF Up, R
  <2> QED
    BY <1>1, <2>1, WFMin
<1>3. PICK m \in S : T = 0..m
  OBVIOUS
<1>4. ASSUME NEW k \in S, k < m
      PROVE  FALSE
  <2>1. 0..k \in Up /\ 0..k \subseteq 0..m /\ 0..k # 0..m
    BY <1>4
  <2>2. <<0..k, 0..m>> \in R
    BY <2>1 DEF StrictSubsetOrdering
  <2> QED
    BY <1>2, <1>3, <2>1, <2>2
<1>5. \A k \in S : m <= k
  <2> HIDE DEF Up, R
  <2> QED
    BY <1>4
<1> QED
  BY <1>5

(* The last one, of those up to n. *)
LEMMA LastPosition ==
  ASSUME NEW n \in Nat, NEW S \in SUBSET (0..n), S # {}
  PROVE  \E m \in S : \A k \in S : k <= m
<1> DEFINE Rest == {i \in 0..n : n - i \in S}
<1>1. \A k \in S : k \in Nat /\ n - k \in Rest /\ n - (n - k) = k
  <2> SUFFICES ASSUME NEW k \in S
               PROVE  k \in Nat /\ n - k \in Rest /\ n - (n - k) = k
    OBVIOUS
  <2>1. k \in 0..n
    OBVIOUS
  <2>2. n - k \in 0..n /\ n - (n - k) = k
    BY <2>1
  <2> QED
    BY <2>1, <2>2
<1>2. \A i \in Rest : i \in Nat /\ n - i \in S
  OBVIOUS
<1> HIDE DEF Rest
<1>3. PICK m \in Rest : \A i \in Rest : m <= i
  BY <1>1, <1>2, FirstPosition
<1>4. \A k \in S : m <= n - k /\ k \in Nat
  BY <1>1, <1>3
<1> QED
  BY <1>2, <1>3, <1>4
=============================================================================

---------------------------- MODULE LeastElement ----------------------------
(***************************************************************************)
(* Sets of natural numbers have least elements and, when they are bounded, *)
(* greatest ones: what a CHOOSE of the least or the greatest relies on.    *)
(***************************************************************************)
EXTENDS Integers, TLAPS, FiniteSetTheorems

LEMMA LeastExists ==
    ASSUME NEW S \in SUBSET Nat, S # {}
    PROVE  \E x \in S : \A y \in S : x <= y
<1> DEFINE below == {1 .. x : x \in S}
<1>1. \A I \in below : I \in FiniteSubsetsOf(Nat)
  BY FS_Interval DEF FiniteSubsetsOf
<1>2. IsWellFoundedOn(StrictSubsetOrdering(Nat), FiniteSubsetsOf(Nat))
  BY FS_StrictSubsetOrderingWellFounded
<1>3. below \subseteq FiniteSubsetsOf(Nat) /\ below # {}
  BY <1>1
<1>4. PICK I \in below : \A J \in below : <<J, I>> \notin StrictSubsetOrdering(Nat)
  <2> HIDE DEF below
  <2> QED
    BY <1>2, <1>3, WFMin
<1>5. PICK x \in S : I = 1 .. x
  OBVIOUS
<1>6. ASSUME NEW y \in S PROVE x <= y
  <2>1. SUFFICES ASSUME y < x PROVE FALSE
    OBVIOUS
  <2>2. 1 .. y \in below /\ 1 .. y \subseteq 1 .. x /\ 1 .. y # 1 .. x
    <3>1. x \in 1 .. x /\ x \notin 1 .. y
      BY <2>1
    <3> QED
      BY <2>1, <3>1
  <2>3. 1 .. y \in SUBSET Nat /\ 1 .. x \in SUBSET Nat
    OBVIOUS
  <2> QED
    BY <1>4, <1>5, <2>2, <2>3 DEF StrictSubsetOrdering
<1> QED
  BY <1>6

LEMMA GreatestExists ==
    ASSUME NEW n \in Nat, NEW S \in SUBSET (0 .. n), S # {}
    PROVE  \E x \in S : \A y \in S : y <= x
<1>1. PICK D \in SUBSET Nat : D = {n - x : x \in S}
  <2>1. {n - x : x \in S} \in SUBSET Nat
    OBVIOUS
  <2> QED
    BY <2>1
<1>2. D # {}
  BY <1>1
<1>3. PICK d \in D : \A e \in D : d <= e
  BY <1>2, LeastExists
<1>4. PICK x \in S : d = n - x
  BY <1>1
<1>5. ASSUME NEW y \in S PROVE y <= x
  <2>1. n - y \in D
    BY <1>1
  <2>2. n - x <= n - y
    BY <1>3, <1>4, <2>1
  <2> QED
    BY <2>2
<1> QED
  BY <1>5
=============================================================================

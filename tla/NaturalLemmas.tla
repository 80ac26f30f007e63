---------------------------- MODULE NaturalLemmas ----------------------------
(***************************************************************************)
(* Least and greatest members of sets of integers, and induction, stated   *)
(* with sets instead of operators so that they can be cited.  They rest on *)
(* the library's theorem that strict inclusion of finite sets is well      *)
(* founded: n is less than m when 1 .. n is a strict subset of 1 .. m.     *)
(***************************************************************************)
EXTENDS Integers, FiniteSets, FiniteSetTheorems, WellFoundedInduction, TLAPS

(* A set of natural numbers that is not empty has a least member. *)
LEMMA LeastElement ==
  ASSUME NEW S \in SUBSET Nat, S # {}
  PROVE  \E m \in S : \A k \in S : m <= k
<1> DEFINE Up == { 1 .. n : n \in S }
<1>1. IsWellFoundedOn(StrictSubsetOrdering(Nat), FiniteSubsetsOf(Nat))
  BY FS_StrictSubsetOrderingWellFounded
<1>2. \A n \in Nat : 1 .. n \in SUBSET Nat /\ IsFiniteSet(1 .. n)
  BY FS_Interval
<1>3. Up \subseteq FiniteSubsetsOf(Nat) /\ Up # {}
  BY <1>2 DEF FiniteSubsetsOf
<1>4. PICK x \in Up : \A y \in Up : ~ (<< y, x >> \in StrictSubsetOrdering(Nat))
  <2> HIDE DEF Up
  <2> QED
    BY <1>1, <1>3, WFMin
<1>5. PICK m \in S : x = 1 .. m
  OBVIOUS
<1>6. ASSUME NEW k \in S, k < m PROVE FALSE
  <2>1. 1 .. k \in Up /\ 1 .. k \subseteq 1 .. m
    BY <1>6
  <2>2. m \in 1 .. m /\ m \notin 1 .. k
    BY <1>6
  <2>3. << 1 .. k, 1 .. m >> \in StrictSubsetOrdering(Nat)
    BY <1>2, <2>1, <2>2 DEF StrictSubsetOrdering
  <2> QED
    BY <1>4, <1>5, <2>1, <2>3
<1> QED
  BY <1>6

(* A bounded set of integers that is not empty has a greatest member. *)
LEMMA GreatestElement ==
  ASSUME NEW S \in SUBSET Int, S # {}, NEW b \in Int, \A i \in S : i <= b
  PROVE  \E m \in S : \A k \in S : k <= m
<1> DEFINE Below == { b - i : i \in S }
<1>1. PICK d \in Below : \A e \in Below : d <= e
  <2>1. \A i \in S : b - i \in Nat
    OBVIOUS
  <2>2. Below \subseteq Nat /\ Below # {}
    BY <2>1
  <2> HIDE DEF Below
  <2> QED
    BY <2>2, LeastElement
<1>2. PICK m \in S : d = b - m
  OBVIOUS
<1>3. \A k \in S : b - m <= b - k
  BY <1>1, <1>2
<1> QED
  BY <1>3

(* What holds 0, and with a number the next, holds all natural numbers. *)
LEMMA Induction ==
  ASSUME NEW S, 0 \in S, \A n \in Nat : n \in S => n + 1 \in S
  PROVE  Nat \subseteq S
<1> SUFFICES ASSUME Nat \ S # {} PROVE FALSE
  OBVIOUS
<1>1. PICK m \in Nat \ S : \A k \in Nat \ S : m <= k
  <2>1. Nat \ S \in SUBSET Nat
    OBVIOUS
  <2> QED
    BY <2>1, LeastElement
<1>2. m # 0 /\ m - 1 \in Nat /\ m - 1 \in S
  BY <1>1
<1>3. (m - 1) + 1 = m
  BY <1>2
<1> QED
  BY <1>2, <1>3

=============================================================================

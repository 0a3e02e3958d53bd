----------------------------- MODULE OrderLemmas -----------------------------
(***************************************************************************)
(* Least and greatest numbers of a set, the form in which the proofs of    *)
(* this project use induction.                                             *)
(***************************************************************************)
EXTENDS FiniteSetsExt, TLAPS, WellFoundedInduction

(* A set of naturals has a least element. *)
LEMMA LeastNatural ==
    ASSUME NEW T, T \subseteq Nat, T # {}
    PROVE  \E m \in T : \A n \in T : m <= n
<1> DEFINE R == {p \in Nat \X Nat : p[1] < p[2]}
<1>1. OpToRel(<, Nat) = R
  BY DEF OpToRel
<1>2. IsWellFoundedOn(R, Nat)
  BY NatLessThanWellFounded, <1>1, Zenon
<1>3. PICK m \in T : \A n \in T : ~ (<<n, m>> \in R)
  <2> HIDE DEF R
  <2> QED BY <1>2, WFMin
<1>4. ASSUME NEW n \in T PROVE m <= n
  <2>1. m \in Nat /\ n \in Nat
    OBVIOUS
  <2>2. ~(n < m)
    BY <1>3, <2>1 DEF R
  <2> QED BY <2>1, <2>2
<1> QED BY <1>4

(* A set of numbers below a bound has a greatest element, and Max is it. *)
LEMMA GreatestInteger ==
    ASSUME NEW n \in Int, NEW S, S \subseteq Int, S # {}, \A i \in S : i <= n
    PROVE  Max(S) \in S /\ \A i \in S : i <= Max(S)
<1> DEFINE T == {k \in Nat : n - k \in S}
<1>1. T \subseteq Nat
  OBVIOUS
<1>2. T # {}
  <2>1. PICK i \in S : i <= n
    OBVIOUS
  <2>2. n - i \in Nat /\ n - (n - i) = i
    BY <2>1
  <2>3. n - i \in T
    BY <2>2
  <2> QED BY <2>3
<1>3. PICK m \in T : \A k \in T : m <= k
  <2> HIDE DEF T
  <2> QED BY <1>1, <1>2, LeastNatural
<1>4. n - m \in S /\ m \in Nat
  BY <1>3
<1>5. \A i \in S : n - m >= i
  <2> TAKE i \in S
  <2>1. n - i \in Nat /\ n - (n - i) = i /\ i \in Int
    OBVIOUS
  <2>2. n - i \in T
    BY <2>1
  <2>3. m <= n - i
    BY <2>2, <1>3
  <2> QED BY <2>1, <2>3, <1>4
<1>6. Max(S) \in S /\ \A i \in S : Max(S) >= i
  BY <1>4, <1>5 DEF Max
<1> QED BY <1>6

(* The greatest of some positions of a sequence. *)
LEMMA GreatestIndex ==
    ASSUME NEW n \in Nat, NEW S, S \subseteq 1 .. n, S # {}
    PROVE  Max(S) \in S /\ \A i \in S : i <= Max(S)
<1>1. n \in Int /\ S \subseteq Int /\ \A i \in S : i <= n
  OBVIOUS
<1> QED BY <1>1, GreatestInteger

(* A nonempty set of naturals has a least element, and Min is it. *)
LEMMA LeastInteger ==
    ASSUME NEW S, S \subseteq Nat, S # {}
    PROVE  Min(S) \in S /\ \A i \in S : Min(S) <= i
<1>1. PICK m \in S : \A k \in S : m <= k
  BY LeastNatural
<1> QED BY <1>1 DEF Min
=============================================================================

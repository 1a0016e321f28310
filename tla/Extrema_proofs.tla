---------------------------- MODULE Extrema_proofs ----------------------------
(***************************************************************************)
(* Sets of numbers have a least and, when bounded, a greatest member: what *)
(* the proofs need of operators that pick the oldest or newest of a set.   *)
(***************************************************************************)
EXTENDS Integers, WellFoundedInduction, TLAPS

\* Any nonempty set of natural numbers has a least member.
LEMMA LeastExists ==
    ASSUME NEW S, S \subseteq Nat, S # {}
    PROVE  \E m \in S : \A x \in S : m <= x
<1> DEFINE below == {p \in Nat \X Nat : p[1] < p[2]}
<1>1. IsWellFoundedOn(below, Nat)
  BY NatLessThanWellFounded DEF OpToRel
<1>2. PICK m \in S : \A x \in S : <<x, m>> \notin below
  BY <1>1, WFMin
<1>3. ASSUME NEW x \in S PROVE m <= x
  <2>1. <<x, m>> \notin below /\ x \in Nat /\ m \in Nat
    BY <1>2
  <2>2. ~ (x < m)
    BY <2>1
  <2> QED
    BY <2>1, <2>2
<1> QED
  BY <1>2, <1>3

\* A bounded one has a greatest.
LEMMA GreatestExists ==
    ASSUME NEW n \in Nat, NEW S, S \subseteq 0 .. n, S # {}
    PROVE  \E m \in S : \A x \in S : x <= m
<1> DEFINE T == {k \in Nat : n - k \in S}
<1>1. ASSUME NEW x \in S PROVE x \in Nat /\ n - x \in T
  <2>1. x \in 0 .. n
    OBVIOUS
  <2>2. n - x \in Nat /\ n - (n - x) = x
    BY <2>1
  <2> QED
    BY <2>1, <2>2
<1>2. T # {} /\ T \subseteq Nat
  BY <1>1
<1>3. PICK k \in T : \A j \in T : k <= j
  BY <1>2, LeastExists
<1>4. n - k \in S /\ k \in Nat
  BY <1>3
<1>5. ASSUME NEW x \in S PROVE x <= n - k
  <2>1. x \in Nat /\ k <= n - x
    BY <1>1, <1>3
  <2> QED
    BY <1>4, <2>1
<1> QED
  BY <1>4, <1>5
=============================================================================

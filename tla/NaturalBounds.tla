---------------------------- MODULE NaturalBounds ----------------------------
(***************************************************************************)
(* Least and greatest members of sets of naturals, for the choices the     *)
(* models make among ids, numbers of parked copies and instants.           *)
(***************************************************************************)
EXTENDS Integers, WellFoundedInduction, TLAPS

\* The order of the naturals as a set of pairs.
Smaller == {p \in Nat \X Nat : p[1] < p[2]}

\* A set of naturals that is not empty has a least member.
LEMMA LeastExists ==
  ASSUME NEW S, S \subseteq Nat, S # {}
  PROVE  \E m \in S : \A k \in S : m <= k
<1>1. IsWellFoundedOn(Smaller, Nat)
  BY NatLessThanWellFounded DEF OpToRel, Smaller
<1>2. \E x \in S : \A y \in S : ~(<<y, x>> \in Smaller)
  BY <1>1, WFMin, Zenon
<1>3. PICK x \in S : \A y \in S : ~(<<y, x>> \in Smaller)
  BY <1>2
<1>4. \A y \in S : ~(y < x)
  BY <1>3 DEF Smaller
<1>. QED  BY <1>4

\* So has one with an upper bound a greatest: dir.old.N, and the ids of a key.
LEMMA GreatestExists ==
  ASSUME NEW n \in Nat, NEW S, S \subseteq 0..n, S # {}
  PROVE  \E m \in S : \A k \in S : k <= m
<1>. DEFINE T == {n - k : k \in S}
<1>1. /\ T \subseteq Nat
      /\ T # {}
  <2>1. \A k \in S : n - k \in Nat
    OBVIOUS
  <2>2. PICK k \in S : TRUE
    OBVIOUS
  <2>. QED  BY <2>1, <2>2
<1>2. \E t \in T : \A k \in T : t <= k
  <2>. HIDE DEF T
  <2>. QED  BY <1>1, LeastExists, Zenon
<1>3. PICK m \in S : \A k \in T : n - m <= k
  BY <1>2
<1>4. \A k \in S : n - m <= n - k
  BY <1>3
<1>5. \A k \in S : k \in Int /\ m \in Int
  OBVIOUS
<1>. QED  BY <1>4, <1>5
=============================================================================

------------------------------- MODULE NatSets -------------------------------
(***************************************************************************)
(* Induction over the natural numbers for a set instead of a predicate:    *)
(* the set of the numbers that have a property takes the place of the      *)
(* operator parameter of the library's NatInduction.                       *)
(***************************************************************************)
EXTENDS Integers, WellFoundedInduction, TLAPS

\* Every non-empty set of naturals has a least member.
LEMMA LeastMember ==
  ASSUME NEW T, T \subseteq Nat, T # {}
  PROVE  \E m \in T : \A k \in T : m <= k
<1> DEFINE R == OpToRel(<, Nat)
<1>1. IsWellFoundedOn(R, Nat)
  BY NatLessThanWellFounded
<1>2. \A x, y \in Nat : x < y => <<x, y>> \in R
  BY DEF OpToRel
<1> HIDE DEF R
<1>3. PICK m \in T : \A y \in T : ~(<<y, m>> \in R)
  BY <1>1, WFMin
<1>4. ASSUME NEW k \in T PROVE m <= k
  <2>1. ~(k < m) /\ k \in Nat /\ m \in Nat
    BY <1>2, <1>3
  <2> QED
    BY <2>1
<1> QED
  BY <1>4

\* A set with 0 that has the successor of each of its naturals has all of them.
LEMMA SetInduction ==
  ASSUME NEW S, 0 \in S, \A n \in Nat : n \in S => n + 1 \in S
  PROVE  \A n \in Nat : n \in S
<1> SUFFICES ASSUME Nat \ S # {} PROVE FALSE
  OBVIOUS
<1>1. PICK m \in Nat \ S : \A k \in Nat \ S : m <= k
  BY LeastMember
<1>2. m - 1 \in Nat /\ (m - 1) + 1 = m
  BY <1>1
<1> QED
  BY <1>1, <1>2

\* f starts with a and goes on with G, up to n.
Recurs(f, n, a, G) == f[0] = a /\ \A i \in 1..n : f[i] = G[i][f[i - 1]]

\* A function that starts with a and goes on with G exists.
LEMMA RecursionExists ==
  ASSUME NEW n \in Nat, NEW A, NEW a \in A, NEW G \in [1..n -> [A -> A]]
  PROVE  \E f \in [0..n -> A] : Recurs(f, n, a, G)
<1> DEFINE S == {k \in Nat : k <= n => \E f \in [0..k -> A] : Recurs(f, k, a, G)}
<1>1. 0 \in S
  <2> DEFINE f == [i \in 0..0 |-> a]
  <2>1. f \in [0..0 -> A] /\ Recurs(f, 0, a, G)
    BY DEF Recurs
  <2> QED
    BY <2>1
<1>2. ASSUME NEW k \in Nat, k \in S PROVE k + 1 \in S
  <2> SUFFICES ASSUME k + 1 <= n PROVE \E g \in [0..(k + 1) -> A] : Recurs(g, k + 1, a, G)
    OBVIOUS
  <2>1. PICK f \in [0..k -> A] : Recurs(f, k, a, G)
    BY <1>2
  <2> DEFINE g == [i \in 0..(k + 1) |-> IF i = k + 1 THEN G[k + 1][f[k]] ELSE f[i]]
  <2>2. f[k] \in A /\ k + 1 \in 1..n
    OBVIOUS
  <2>3. G[k + 1][f[k]] \in A
    BY <2>2
  <2>4. g \in [0..(k + 1) -> A]
    BY <2>3
  <2>5. \A i \in 0..k : g[i] = f[i]
    OBVIOUS
  <2>6. g[k + 1] = G[k + 1][g[k]]
    <3>1. k \in 0..k /\ k + 1 \in 0..(k + 1)
      OBVIOUS
    <3>2. g[k] = f[k] /\ g[k + 1] = G[k + 1][f[k]]
      BY <2>5, <3>1
    <3> HIDE DEF g
    <3> QED
      BY <3>2
  <2> HIDE DEF g
  <2>7. ASSUME NEW i \in 1..(k + 1) PROVE g[i] = G[i][g[i - 1]]
    <3>1. CASE i = k + 1
      BY <2>6, <3>1
    <3>2. CASE i \in 1..k
      <4>1. i \in 0..k /\ i - 1 \in 0..k
        BY <3>2
      <4> QED
        BY <2>1, <2>5, <3>2, <4>1 DEF Recurs
    <3> QED
      BY <3>1, <3>2
  <2>8. g[0] = a
    BY <2>1, <2>5 DEF Recurs
  <2> QED
    BY <2>4, <2>7, <2>8 DEF Recurs
<1> HIDE DEF S
<1>3. n \in S
  BY <1>1, <1>2, SetInduction
<1> QED
  BY <1>3 DEF S
=============================================================================

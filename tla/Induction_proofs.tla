--------------------------- MODULE Induction_proofs -------------------------
(***************************************************************************)
(* Induction over the natural numbers, stated with sets and functions so   *)
(* that the provers can use it: the well-foundedness theorem WFMin of the  *)
(* library takes a set where its induction theorems take an operator.      *)
(***************************************************************************)
EXTENDS Integers, WellFoundedInduction, TLAPS

(* A set of numbers that has 0 and the successor of each member is Nat.    *)
LEMMA SetInduction ==
  ASSUME NEW S \in SUBSET Nat, 0 \in S, \A n \in S : n + 1 \in S
  PROVE  S = Nat
<1> DEFINE T == Nat \ S
           R == OpToRel(<, Nat)
<1>1. SUFFICES ASSUME T # {} PROVE FALSE
  OBVIOUS
<1>2. T \subseteq Nat
  OBVIOUS
<1>3. IsWellFoundedOn(R, Nat)
  BY NatLessThanWellFounded
<1> HIDE DEF T, R
<1>4. PICK x \in T : \A y \in T : ~(<<y, x>> \in R)
  BY <1>1, <1>2, <1>3, WFMin
<1>5. x \in Nat /\ x # 0
  BY <1>4 DEF T
<1>6. x - 1 \in Nat /\ x - 1 < x /\ (x - 1) + 1 = x
  BY <1>5
<1>7. CASE x - 1 \in T
  <2>1. <<x - 1, x>> \in R
    BY <1>5, <1>6 DEF R, OpToRel
  <2> QED BY <1>4, <1>7, <2>1
<1>8. CASE x - 1 \in S
  BY <1>4, <1>6, <1>8 DEF T
<1> QED BY <1>6, <1>7, <1>8 DEF T

(* The same up to a bound.                                                 *)
LEMMA BoundedInduction ==
  ASSUME NEW n \in Nat, NEW S, 0 \in S,
         \A k \in Nat : k < n /\ k \in S => k + 1 \in S
  PROVE  0..n \subseteq S
<1> DEFINE T == {k \in Nat : k <= n => k \in S}
<1>1. 0 \in T
  OBVIOUS
<1>2. ASSUME NEW k \in T PROVE k + 1 \in T
  <2>1. k \in Nat /\ (k <= n => k \in S)
    OBVIOUS
  <2>2. k + 1 <= n => k + 1 \in S
    BY <2>1
  <2> QED BY <2>1, <2>2
<1> HIDE DEF T
<1>3. T = Nat
  <2>1. T \subseteq Nat
    BY DEF T
  <2> QED BY <1>1, <1>2, <2>1, SetInduction
<1> QED BY <1>3 DEF T

(* f is defined on 0..n by primitive recursion from b with the steps F.    *)
Recurs(f, b, F, n) == f[0] = b /\ \A k \in 1..n : f[k] = F[<<f[k - 1], k>>]

(* Such a function exists, and its values are of the type of its steps.    *)
LEMMA RecursionExists ==
  ASSUME NEW A, NEW b \in A, NEW F \in [A \X Nat -> A], NEW n \in Nat
  PROVE  \E f \in [0..n -> A] : Recurs(f, b, F, n)
<1> DEFINE T == {m \in Nat : \E f \in [0..m -> A] : Recurs(f, b, F, m)}
<1>1. 0 \in T
  <2>1. [k \in 0..0 |-> b] \in [0..0 -> A]
    OBVIOUS
  <2>2. Recurs([k \in 0..0 |-> b], b, F, 0)
    BY DEF Recurs
  <2> QED BY <2>1, <2>2
<1>2. ASSUME NEW m \in T PROVE m + 1 \in T
  <2>1. m \in Nat /\ m + 1 \in Nat
    OBVIOUS
  <2>2. PICK f \in [0..m -> A] : Recurs(f, b, F, m)
    OBVIOUS
  <2> HIDE DEF T
  <2> DEFINE next == F[<<f[m], m + 1>>]
             g == [k \in 0..m + 1 |-> IF k = m + 1 THEN next ELSE f[k]]
  <2>3. next \in A
    BY <2>1, <2>2
  <2> HIDE DEF next
  <2>4. g \in [0..m + 1 -> A]
    BY <2>1, <2>2, <2>3
  <2>5. g[0] = b
    BY <2>1, <2>2 DEF Recurs
  <2>6. ASSUME NEW k \in 1..m + 1
        PROVE  g[k] = F[<<g[k - 1], k>>]
    <3>1. CASE k = m + 1
      <4>1. g[k] = next /\ k - 1 = m /\ g[m] = f[m]
        BY <2>1, <3>1
      <4> QED BY <3>1, <4>1 DEF next
    <3>2. CASE k # m + 1
      <4>1. k \in 1..m /\ k - 1 \in 0..m + 1 /\ k - 1 # m + 1
        BY <2>1, <3>2
      <4>2. g[k] = f[k] /\ g[k - 1] = f[k - 1]
        BY <3>2, <4>1
      <4>3. f[k] = F[<<f[k - 1], k>>]
        BY <2>2, <4>1 DEF Recurs
      <4> QED BY <4>2, <4>3
    <3> QED BY <3>1, <3>2
  <2> HIDE DEF g
  <2>7. Recurs(g, b, F, m + 1)
    BY <2>5, <2>6 DEF Recurs
  <2> QED BY <2>1, <2>4, <2>7 DEF T
<1>3. T = Nat
  <2>1. T \subseteq Nat
    OBVIOUS
  <2> HIDE DEF T
  <2> QED BY <1>1, <1>2, <2>1, SetInduction
<1> QED BY <1>3
=============================================================================

--------------------------- MODULE InductionLemmas ---------------------------
(* Induction over the naturals in a form that has no operator parameter,   *)
(* and so can be cited wherever it is needed.                              *)
EXTENDS Integers, NaturalsInduction, WellFoundedInduction, TLAPS

(* The order of the naturals is well founded, as a set of pairs. *)
LEMMA NatOrderWellFounded ==
    IsWellFoundedOn({p \in Nat \X Nat : p[1] < p[2]}, Nat)
BY NatLessThanWellFounded DEF OpToRel

(* A set that holds 0 and the successor of each natural it holds holds     *)
(* them all.                                                               *)
LEMMA SetInduction ==
    ASSUME NEW S, 0 \in S, \A n \in Nat : n \in S => n + 1 \in S
    PROVE  Nat \subseteq S
<1> DEFINE R == {p \in Nat \X Nat : p[1] < p[2]}
<1> SUFFICES ASSUME Nat \ S # {} PROVE FALSE
  OBVIOUS
<1>1. PICK x \in Nat \ S : \A y \in Nat \ S : ~(<<y, x>> \in R)
  <2>1. IsWellFoundedOn(R, Nat)
    BY NatOrderWellFounded
  <2> HIDE DEF R
  <2> QED BY <2>1, WFMin
<1>2. x # 0 /\ x - 1 \in Nat /\ x - 1 \in S
  <2>1. x # 0 OBVIOUS
  <2>2. x - 1 \in Nat BY <2>1
  <2>3. <<x - 1, x>> \in R BY <2>2
  <2> QED BY <1>1, <2>1, <2>2, <2>3
<1> QED BY <1>2

(* A set of naturals has a least member. *)
LEMMA NatHasLeast ==
    ASSUME NEW S, S \subseteq Nat, S # {}
    PROVE  \E i \in S : \A j \in S : i <= j
<1> DEFINE T == {n \in Nat : \A j \in S : j > n}
<1> SUFFICES ASSUME \A i \in S : \E j \in S : j < i PROVE FALSE
  OBVIOUS
<1>1. 0 \in T
  OBVIOUS
<1>2. ASSUME NEW n \in Nat, n \in T PROVE n + 1 \in T
  <2> SUFFICES ASSUME NEW i \in S PROVE i > n + 1
    OBVIOUS
  <2>1. PICK j \in S : j < i
    OBVIOUS
  <2> QED BY <1>2, <2>1
<1>3. Nat \subseteq T
  <2> HIDE DEF T
  <2> QED BY <1>1, <1>2, SetInduction
<1>4. PICK s \in S : TRUE
  OBVIOUS
<1>5. s \in T
  BY <1>3, <1>4
<1> QED BY <1>5

(* A function that is computed value by value exists: each value lies in   *)
(* the set S says, and a step takes one to the next.                       *)
Computed(f, n, step, first) == f = [k \in 0..n |-> IF k = 0 THEN first ELSE step[k][f[k - 1]]]
Leads(step, n, S) == \A k \in 1..n : \A x \in S[k - 1] : step[k][x] \in S[k]
Within(f, n, S) == \A k \in 0..n : f[k] \in S[k]

LEMMA StepsExist ==
    ASSUME NEW n \in Nat, NEW S, NEW step, NEW first, first \in S[0], Leads(step, n, S)
    PROVE  \E f : Computed(f, n, step, first) /\ Within(f, n, S)
<1> DEFINE Value(f, k) == IF k = 0 THEN first ELSE step[k][f[k - 1]]
           Good(f, m) == f = [k \in 0..m |-> Value(f, k)] /\ \A k \in 0..m : f[k] \in S[k]
           T == {m \in Nat : m <= n => \E f : Good(f, m)}
<1>1. 0 \in T
  <2> DEFINE f == [k \in 0..0 |-> first]
  <2>1. Good(f, 0)
    OBVIOUS
  <2> QED BY <2>1
<1>2. ASSUME NEW m \in Nat, m \in T PROVE m + 1 \in T
  <2> SUFFICES ASSUME m + 1 <= n PROVE \E f : Good(f, m + 1)
    OBVIOUS
  <2>1. PICK f : Good(f, m)
    BY <1>2
  <2> DEFINE g == [k \in 0..m + 1 |-> IF k = m + 1 THEN step[m + 1][f[m]] ELSE f[k]]
  <2>2. \A k \in 0..m + 1 : g[k] = Value(g, k)
    <3> SUFFICES ASSUME NEW k \in 0..m + 1 PROVE g[k] = Value(g, k)
      OBVIOUS
    <3>1. CASE k = m + 1
      BY <3>1
    <3>2. CASE k # m + 1
      <4>1. g[k] = f[k] /\ f[k] = Value(f, k)
        BY <2>1, <3>2
      <4>2. k # 0 => g[k - 1] = f[k - 1]
        BY <3>2
      <4> HIDE DEF g
      <4> QED BY <4>1, <4>2
    <3> QED BY <3>1, <3>2
  <2>3. \A k \in 0..m + 1 : g[k] \in S[k]
    <3>1. step[m + 1][f[m]] \in S[m + 1]
      <4>1. m + 1 \in 1..n /\ (m + 1) - 1 = m /\ f[m] \in S[m]
        BY <2>1
      <4> QED BY <4>1 DEF Leads
    <3> QED BY <2>1, <3>1
  <2>4. Good(g, m + 1)
    BY <2>2, <2>3
  <2> HIDE DEF g, Good
  <2> QED BY <2>4
<1>3. Nat \subseteq T
  <2> HIDE DEF T
  <2> QED BY <1>1, <1>2, SetInduction
<1>4. \E f : Good(f, n)
  <2> HIDE DEF Good
  <2> QED BY <1>3
<1> QED BY <1>4 DEF Computed, Within

(* What holds at first and after each step holds throughout. *)
LEMMA StepsStay ==
    ASSUME NEW n \in Nat, NEW S, NEW f, f[0] \in S[0],
           \A k \in 1..n : f[k - 1] \in S[k - 1] => f[k] \in S[k]
    PROVE  Within(f, n, S)
<1> DEFINE T == {m \in Nat : m <= n => f[m] \in S[m]}
<1>1. 0 \in T
  OBVIOUS
<1>2. ASSUME NEW m \in Nat, m \in T PROVE m + 1 \in T
  <2> SUFFICES ASSUME m + 1 <= n PROVE f[m + 1] \in S[m + 1]
    OBVIOUS
  <2>1. m + 1 \in 1..n /\ (m + 1) - 1 = m /\ f[m] \in S[m]
    BY <1>2
  <2> QED BY <2>1
<1>3. Nat \subseteq T
  <2> HIDE DEF T
  <2> QED BY <1>1, <1>2, SetInduction
<1> QED BY <1>3 DEF Within
=============================================================================

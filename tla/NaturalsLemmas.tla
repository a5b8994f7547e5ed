--------------------------- MODULE NaturalsLemmas ---------------------------
(***************************************************************************)
(* Induction and least elements, for sets of natural numbers in place of    *)
(* predicates: the library's induction theorems take an operator, which the *)
(* provers cannot instantiate, but its theorem WFMin takes a set.           *)
(***************************************************************************)
EXTENDS Integers, FiniteSetsExt, WellFoundedInduction, TLAPS

(* Every nonempty set of natural numbers has a least element.               *)
LEMMA LeastElement ==
    ASSUME NEW S \in SUBSET Nat, S # {}
    PROVE  \E m \in S : \A k \in S : m <= k
<1> DEFINE less == {p \in Nat \X Nat : p[1] < p[2]}
<1>1. IsWellFoundedOn(less, Nat)
  BY NatLessThanWellFounded DEF OpToRel
<1>2. \A k, m \in Nat : <<k, m>> \notin less => m <= k
  OBVIOUS
<1>3. PICK m \in S : \A k \in S : <<k, m>> \notin less
  <2> HIDE DEF less
  <2> QED
    BY <1>1, WFMin
<1> QED
  BY <1>2, <1>3

(* A set that has 0 and with every number the next one has them all.        *)
LEMMA SetInduction ==
    ASSUME NEW S, 0 \in S, \A k \in Nat : k \in S => k + 1 \in S
    PROVE  Nat \subseteq S
<1> SUFFICES ASSUME Nat \ S # {} PROVE FALSE
  OBVIOUS
<1>1. PICK m \in Nat \ S : \A k \in Nat \ S : m <= k
  BY LeastElement
<1>2. m # 0 /\ m - 1 \in Nat /\ m - 1 + 1 = m /\ ~ (m <= m - 1)
  BY <1>1
<1>3. m - 1 \in S
  BY <1>1, <1>2
<1> QED
  BY <1>1, <1>2, <1>3

(* Min and Max of FiniteSetsExt are what their names say.                   *)
LEMMA MinFacts ==
    ASSUME NEW S \in SUBSET Nat, S # {}
    PROVE  Min(S) \in S /\ \A k \in S : Min(S) <= k
BY LeastElement DEF Min

(* The member of a set that is not above any other is its Min, ...           *)
LEMMA MinIs ==
    ASSUME NEW S \in SUBSET Nat, NEW m \in S, \A k \in S : m <= k
    PROVE  Min(S) = m
<1>1. Min(S) \in S /\ Min(S) <= m /\ m <= Min(S) /\ Min(S) \in Nat /\ m \in Nat
  BY MinFacts
<1> QED
  BY <1>1

(* ... and the one that is not below any other its Max.                      *)
LEMMA MaxIs ==
    ASSUME NEW S \in SUBSET Nat, NEW m \in S, \A k \in S : m >= k
    PROVE  Max(S) = m
<1>1. Max(S) \in S /\ \A k \in S : Max(S) >= k
  BY DEF Max
<1>2. Max(S) >= m /\ m >= Max(S) /\ Max(S) \in Nat
  BY <1>1
<1> QED
  BY <1>2

(* A recursive function: start at 0, and after each number what the number  *)
(* and the value before make of it.  next is a function, not an operator.   *)
Recursion(f, start, next, n) ==
    f = [k \in 0..n |-> IF k = 0 THEN start ELSE next[k][f[k - 1]]]

(* There is one, and its values are where start and next have theirs.       *)
LEMMA RecursionExists ==
    ASSUME NEW S, NEW start \in S, NEW next \in [Nat -> [S -> S]], NEW n \in Nat
    PROVE  \E f : Recursion(f, start, next, n) /\ \A k \in 0..n : f[k] \in S
<1> DEFINE Good(f, m) == Recursion(f, start, next, m) /\ \A k \in 0..m : f[k] \in S
           Lengths == {m \in Nat : \E f : Good(f, m)}
<1>1. 0 \in Lengths
  <2> DEFINE f == [k \in 0..0 |-> start]
  <2>1. \A k \in 0..0 : k = 0
    OBVIOUS
  <2>2. Good(f, 0)
    BY <2>1 DEF Recursion
  <2> QED
    BY <2>2
<1>2. ASSUME NEW m \in Nat, m \in Lengths PROVE m + 1 \in Lengths
  <2>1. PICK f : Good(f, m)
    BY <1>2
  <2> DEFINE g == [k \in 0..(m + 1) |-> IF k = m + 1 THEN next[m + 1][f[m]] ELSE f[k]]
  <2>2. next[m + 1][f[m]] \in S
    BY <2>1
  <2>3. \A k \in 0..(m + 1) : g[k] \in S
    BY <2>1, <2>2
  <2>4. \A k \in 0..m : g[k] = f[k]
    OBVIOUS
  <2>5. ASSUME NEW k \in 0..(m + 1)
        PROVE  g[k] = IF k = 0 THEN start ELSE next[k][g[k - 1]]
    <3>1. CASE k = m + 1
      BY <2>4, <3>1
    <3>2. CASE k # m + 1
      <4>1. k \in 0..m /\ (k # 0 => k - 1 \in 0..m)
        BY <3>2
      <4>2. f[k] = IF k = 0 THEN start ELSE next[k][f[k - 1]]
        BY <2>1, <4>1 DEF Recursion
      <4> HIDE DEF g
      <4> QED
        BY <2>4, <4>1, <4>2
    <3> QED
      BY <3>1, <3>2
  <2>6. g = [k \in 0..(m + 1) |-> g[k]]
    OBVIOUS
  <2> HIDE DEF g
  <2>7. Good(g, m + 1)
    BY <2>3, <2>5, <2>6 DEF Recursion
  <2> QED
    BY <2>7
<1>3. n \in Lengths
  <2> HIDE DEF Lengths
  <2> QED
    BY <1>1, <1>2, SetInduction
<1> QED
  BY <1>3
=============================================================================

----------------------------- MODULE NumberLemmas -----------------------------
(***************************************************************************)
(* Facts about sets of natural numbers that the proofs use in place of     *)
(* induction: such a set has a least element, and a greatest one if it is  *)
(* bounded; and what recursion on a number defines exists.                 *)
(***************************************************************************)
EXTENDS Integers, WellFoundedInduction, TLAPS

(* A set of numbers that is not empty has a least element.                 *)
LEMMA Least ==
    ASSUME NEW T \in SUBSET Nat, T # {}
    PROVE  \E x \in T : \A y \in T : x <= y
<1>1. IsWellFoundedOn(OpToRel(<, Nat), Nat)
  BY NatLessThanWellFounded
<1>2. PICK x \in T : \A y \in T : ~ (<<y, x>> \in OpToRel(<, Nat))
  BY <1>1, WFMin
<1>3. \A y \in T : ~(y < x)
  BY <1>2 DEF OpToRel
<1> QED BY <1>3

(* A bounded set of numbers that is not empty has a greatest element.      *)
LEMMA Greatest ==
    ASSUME NEW T \in SUBSET Nat, T # {}, NEW b \in Nat, \A x \in T : x <= b
    PROVE  \E x \in T : \A y \in T : x >= y
<1> DEFINE D == {d \in Nat : b - d \in T}
<1>1. D \in SUBSET Nat /\ D # {}
  <2>1. PICK x \in T : TRUE
    OBVIOUS
  <2>2. b - x \in D
    BY <2>1
  <2> QED BY <2>2
<1>2. PICK d \in D : \A e \in D : d <= e
  BY <1>1, Least
<1>3. \A y \in T : b - d >= y
  <2> TAKE y \in T
  <2>1. b - y \in D
    OBVIOUS
  <2> QED BY <1>2, <2>1
<1> QED BY <1>3

(* f starts with v and goes on by step, up to n; there is such a function. *)
Iterates(f, V, v, n, step) ==
    f \in [0..n -> V] /\ f[0] = v /\ \A i \in 1..n : f[i] = step[<<i, f[i - 1]>>]

LEMMA Recursion ==
    ASSUME NEW V, NEW v \in V, NEW n \in Nat, NEW step \in [(1..n) \X V -> V]
    PROVE  \E f : Iterates(f, V, v, n, step)
<1> DEFINE Upto(m) == \E f : Iterates(f, V, v, m, step)
           Bad == {m \in 0..n : ~Upto(m)}
<1> SUFFICES ASSUME Bad # {} PROVE FALSE
  <2>1. n \in 0..n
    OBVIOUS
  <2> QED BY <2>1
<1>1. PICK m \in Bad : \A y \in Bad : m <= y
  <2>1. Bad \in SUBSET Nat
    OBVIOUS
  <2> HIDE DEF Bad
  <2> QED BY <2>1, Least
<1>2. m \in 0..n /\ ~Upto(m)
  OBVIOUS
<1>3. m # 0
  <2>1. [i \in 0..0 |-> v] \in [0..0 -> V] /\ [i \in 0..0 |-> v][0] = v
    OBVIOUS
  <2>2. \A i \in 1..0 : FALSE
    OBVIOUS
  <2>3. Upto(0)
    BY <2>1, <2>2 DEF Iterates
  <2> QED BY <1>2, <2>3
<1>4. m - 1 \in 0..n /\ Upto(m - 1)
  <2>1. m - 1 \in 0..n /\ ~(m <= m - 1)
    BY <1>2, <1>3
  <2>2. m - 1 \notin Bad
    BY <1>1, <2>1
  <2> QED BY <2>1, <2>2
<1>5. PICK f \in [0..(m - 1) -> V] :
        f[0] = v /\ \A i \in 1..(m - 1) : f[i] = step[<<i, f[i - 1]>>]
  BY <1>4 DEF Iterates
<1> DEFINE g == [i \in 0..m |-> IF i = m THEN step[<<m, f[m - 1]>>] ELSE f[i]]
<1>6. step[<<m, f[m - 1]>>] \in V
  <2>1. m \in 1..n /\ m - 1 \in 0..(m - 1)
    BY <1>2, <1>3
  <2>2. f[m - 1] \in V
    BY <2>1
  <2>3. <<m, f[m - 1]>> \in (1..n) \X V
    BY <2>1, <2>2
  <2> QED BY <2>3
<1>7. \A i \in 0..m : i # m => i \in 0..(m - 1)
  BY <1>2, <1>3
<1>8. g \in [0..m -> V]
  <2>1. \A i \in 0..m : (IF i = m THEN step[<<m, f[m - 1]>>] ELSE f[i]) \in V
    BY <1>6, <1>7
  <2> QED BY <2>1
<1>9. g[0] = v
  <2>1. 0 \in 0..m /\ 0 # m
    BY <1>2, <1>3
  <2> QED BY <1>5, <2>1
<1>10. ASSUME NEW i \in 1..m PROVE g[i] = step[<<i, g[i - 1]>>]
  <2>1. i \in 0..m /\ i - 1 \in 0..m /\ i - 1 # m /\ (i = m \/ i \in 1..(m - 1))
    BY <1>2
  <2>2. g[i - 1] = f[i - 1]
    BY <2>1
  <2>3. g[i] = IF i = m THEN step[<<m, f[m - 1]>>] ELSE f[i]
    BY <2>1
  <2> QED BY <1>5, <2>1, <2>2, <2>3
<1> HIDE DEF g
<1>11. Iterates(g, V, v, m, step)
  BY <1>8, <1>9, <1>10 DEF Iterates
<1> QED BY <1>2, <1>11
=============================================================================

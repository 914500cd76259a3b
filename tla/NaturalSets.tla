---------------------------- MODULE NaturalSets ----------------------------
(***************************************************************************)
(* Induction over the natural numbers, stated of a set instead of a        *)
(* predicate, and what a sum that is defined by recursion adds up.         *)
(***************************************************************************)
EXTENDS Integers, WellFoundedInduction, TLAPS

-----------------------------------------------------------------------------
(* Induction.                                                              *)

\* A set of natural numbers that is not empty has a least element.
LEMMA LeastNatural ==
  ASSUME NEW T, T \subseteq Nat, T # {}
  PROVE  \E n \in T : \A m \in T : n <= m
<1>. DEFINE R == {x \in Nat \X Nat : x[1] < x[2]}
<1>1. IsWellFoundedOn(R, Nat)
  <2>1. OpToRel(<, Nat) = R
    BY DEF OpToRel
  <2>2. QED
    BY <2>1, NatLessThanWellFounded
<1>2. PICK n \in T : \A m \in T : ~ (<<m, n>> \in R)
  BY <1>1, WFMin, Zenon
<1>3. ASSUME NEW m \in T PROVE n <= m
  <2>1. m \in Nat /\ n \in Nat /\ <<m, n>> \notin R
    BY <1>2
  <2>2. ~ (m < n)
    BY <2>1
  <2>3. QED
    BY <2>1, <2>2
<1>4. QED
  BY <1>3

\* A set that holds 0 and, with every natural number, the next one holds them all.
LEMMA NaturalInduction ==
  ASSUME NEW S, 0 \in S, \A n \in Nat : n \in S => n + 1 \in S
  PROVE  Nat \subseteq S
<1>. DEFINE T == Nat \ S
<1>1. ASSUME T # {} PROVE FALSE
  <2>1. PICK n \in T : \A m \in T : n <= m
    <3>1. T \subseteq Nat
      OBVIOUS
    <3>2. QED
      BY <1>1, <3>1, LeastNatural, Zenon
  <2>2. n \in Nat /\ n # 0 /\ n - 1 \notin T
    BY <2>1
  <2>3. n - 1 \in S /\ n - 1 \in Nat
    BY <2>2
  <2>4. (n - 1) + 1 \in S
    BY <2>3, Zenon
  <2>5. QED
    BY <2>2, <2>4
<1>2. QED
  BY <1>1

-----------------------------------------------------------------------------
(* A recursion that adds.                                                  *)

\* f adds up w as far as n.
Adds(f, w, n) ==
  f[0] = 0 /\ \A i \in 1..n : f[i] = f[i - 1] + w[i]

\* Two functions that add up the same add up to the same.
LEMMA AddsOnce ==
  ASSUME NEW f, NEW g, NEW w, NEW v, NEW n \in Nat,
         Adds(f, w, n), Adds(g, v, n), \A i \in 1..n : w[i] = v[i]
  PROVE  \A i \in 0..n : f[i] = g[i]
<1>. DEFINE S == {i \in Nat : i <= n => f[i] = g[i]}
<1>1. 0 \in S
  BY DEF Adds
<1>2. ASSUME NEW i \in Nat, i \in S PROVE i + 1 \in S
  <2>1. CASE i + 1 <= n
    <3>1. i + 1 \in 1..n /\ (i + 1) - 1 = i /\ f[i] = g[i]
      BY <1>2, <2>1
    <3>2. f[i + 1] = f[i] + w[i + 1] /\ g[i + 1] = g[i] + v[i + 1] /\ w[i + 1] = v[i + 1]
      BY <3>1 DEF Adds
    <3>3. f[i + 1] = g[i + 1]
      BY <3>1, <3>2
    <3>4. QED
      BY <3>3
  <2>2. CASE ~ (i + 1 <= n)
    BY <2>2
  <2>3. QED
    BY <2>1, <2>2
<1>3. Nat \subseteq S
  BY <1>1, <1>2, NaturalInduction
<1>4. QED
  BY <1>3

\* Some function adds up w as far as n.
LEMMA AddsSome ==
  ASSUME NEW w, NEW n \in Nat
  PROVE  \E f : Adds(f, w, n)
<1>. DEFINE S == {i \in Nat : \E f : Adds(f, w, i)}
<1>1. 0 \in S
  <2>1. Adds([i \in {0} |-> 0], w, 0)
    BY DEF Adds
  <2>2. QED
    BY <2>1
<1>2. ASSUME NEW i \in Nat, i \in S PROVE i + 1 \in S
  <2>1. PICK f : Adds(f, w, i)
    BY <1>2
  <2>. DEFINE g == [j \in 0..(i + 1) |-> IF j = i + 1 THEN f[i] + w[i + 1] ELSE f[j]]
  <2>2. g[0] = 0
    BY <2>1 DEF Adds
  <2>3. ASSUME NEW j \in 1..(i + 1) PROVE g[j] = g[j - 1] + w[j]
    <3>1. CASE j = i + 1
      BY <3>1
    <3>2. CASE j # i + 1
      <4>1. j \in 1..i /\ j - 1 \in 0..(i + 1) /\ j - 1 # i + 1
        BY <3>2
      <4>2. g[j] = f[j] /\ g[j - 1] = f[j - 1]
        BY <3>2, <4>1
      <4>3. QED
        BY <2>1, <4>1, <4>2 DEF Adds
    <3>3. QED
      BY <3>1, <3>2
  <2>4. Adds(g, w, i + 1)
    BY <2>2, <2>3 DEF Adds
  <2>5. QED
    BY <2>4
<1>3. Nat \subseteq S
  BY <1>1, <1>2, NaturalInduction
<1>4. QED
  BY <1>3

\* So the recursion is well defined.
LEMMA AddsAll ==
  ASSUME NEW w
  PROVE  \E f : f = [i \in Nat |-> IF i = 0 THEN 0 ELSE f[i - 1] + w[i]]
<1>. DEFINE f == [i \in Nat |-> (CHOOSE g : Adds(g, w, i))[i]]
<1>. DEFINE F(i) == CHOOSE g : Adds(g, w, i)
<1>1. ASSUME NEW i \in Nat PROVE Adds(F(i), w, i)
  BY AddsSome
<1>2. ASSUME NEW i \in Nat, i # 0 PROVE f[i] = f[i - 1] + w[i]
  <2>1. i - 1 \in Nat /\ i \in 1..i
    BY <1>2
  <2>2. Adds(F(i), w, i) /\ Adds(F(i - 1), w, i - 1)
    BY <1>1, <2>1
  <2>3. Adds(F(i), w, i - 1)
    BY <2>1, <2>2 DEF Adds
  <2>4. F(i)[i - 1] = F(i - 1)[i - 1]
    <3>. HIDE DEF F
    <3>1. \A j \in 0..(i - 1) : F(i)[j] = F(i - 1)[j]
      BY <2>1, <2>2, <2>3, AddsOnce
    <3>2. QED
      BY <2>1, <3>1
  <2>5. F(i)[i] = F(i)[i - 1] + w[i]
    <3>. HIDE DEF F
    <3>1. QED
      BY <2>1, <2>2 DEF Adds
  <2>6. f[i] = F(i)[i] /\ f[i - 1] = F(i - 1)[i - 1]
    BY <2>1
  <2>7. QED
    BY <2>4, <2>5, <2>6
<1>3. f[0] = 0
  BY <1>1 DEF Adds
<1>4. ASSUME NEW i \in Nat PROVE f[i] = IF i = 0 THEN 0 ELSE f[i - 1] + w[i]
  <2>. HIDE DEF f
  <2>1. QED
    BY <1>2, <1>3
<1>5. f = [i \in Nat |-> f[i]]
  OBVIOUS
<1>6. QED
  <2>. HIDE DEF f
  <2>1. f = [i \in Nat |-> IF i = 0 THEN 0 ELSE f[i - 1] + w[i]]
    BY <1>4, <1>5
  <2>2. QED
    BY <2>1
=============================================================================

--------------------------- MODULE ArithmeticProofs ---------------------------
(***************************************************************************)
(* What the proofs use about sums and about rounding.  The prover cannot   *)
(* instantiate the induction theorems of the library, so each lemma about  *)
(* SumTo is proved by taking the least index at which it would fail.       *)
(***************************************************************************)
EXTENDS Sums, FiniteSetTheorems, WellFoundedInduction, TLAPS

(* Every non-empty set of naturals has a least element. *)
LEMMA LeastNatural ==
    ASSUME NEW S \in SUBSET Nat, S # {}
    PROVE  \E x \in S : \A y \in S : x <= y
<1>1. \E x \in S : \A y \in S : ~ (<<y, x>> \in OpToRel(<, Nat))
  BY NatLessThanWellFounded, WFMin
<1>2. PICK x \in S : \A y \in S : <<y, x>> \notin OpToRel(<, Nat)
  BY <1>1
<1>3. ASSUME NEW y \in S, y < x PROVE FALSE
  <2>1. <<y, x>> \in OpToRel(<, Nat)
    <3>1. <<y, x>> \in Nat \X Nat
      OBVIOUS
    <3>2. <<y, x>>[1] < <<y, x>>[2]
      BY <1>3
    <3>3. QED  BY <3>1, <3>2, Zenon DEF OpToRel
  <2>2. QED  BY <1>2, <2>1
<1>4. \A y \in S : x <= y
  BY <1>3
<1>5. QED  BY <1>4

IsPartialSums(s, f, m) ==
    s = [i \in 0..m |-> IF i = 0 THEN 0 ELSE s[i - 1] + f[i]]

(* Running totals exist for every prefix of an integer function. *)
LEMMA PartialSumsExist ==
    ASSUME NEW n \in Nat, NEW f, \A i \in 1..n : f[i] \in Int
    PROVE  \E s \in [0..n -> Int] : IsPartialSums(s, f, n)
<1> DEFINE Bad == {m \in 0..n : ~ \E s \in [0..m -> Int] : IsPartialSums(s, f, m)}
<1>1. SUFFICES ASSUME Bad # {} PROVE FALSE
  OBVIOUS
<1>a. Bad \in SUBSET Nat
  OBVIOUS
<1> HIDE DEF Bad
<1>2. PICK m \in Bad : \A y \in Bad : m <= y
  BY <1>1, <1>a, LeastNatural
<1> USE DEF Bad
<1>3. CASE m = 0
  <2> DEFINE s == [i \in 0..m |-> 0]
  <2>1. s \in [0..m -> Int] /\ IsPartialSums(s, f, m)
    BY <1>3 DEF IsPartialSums
  <2>2. QED  BY <2>1
<1>4. CASE m > 0
  <2>1. m - 1 \in 0..n /\ m - 1 \notin Bad
    BY <1>2, <1>4
  <2>2. PICK s \in [0..(m-1) -> Int] : IsPartialSums(s, f, m - 1)
    BY <2>1
  <2> DEFINE t == [i \in 0..m |-> IF i = m THEN s[m-1] + f[m] ELSE s[i]]
  <2>3. t \in [0..m -> Int]
    BY <1>4
  <2>4. ASSUME NEW i \in 0..m
        PROVE  t[i] = IF i = 0 THEN 0 ELSE t[i - 1] + f[i]
    <3>1. CASE i = m
      BY <3>1, <1>4
    <3>2. CASE i # m
      <4>1. i \in 0..(m-1)
        BY <3>2
      <4>2. s[i] = IF i = 0 THEN 0 ELSE s[i - 1] + f[i]
        BY <2>2, <4>1 DEF IsPartialSums
      <4>3. i # 0 => i - 1 \in 0..m /\ i - 1 # m
        BY <4>1
      <4>4. QED  BY <3>2, <4>1, <4>2, <4>3
    <3>3. QED  BY <3>1, <3>2
  <2>5. IsPartialSums(t, f, m)
    BY <2>3, <2>4 DEF IsPartialSums
  <2>6. QED  BY <2>3, <2>5
<1>5. QED  BY <1>3, <1>4

(* The definition by recursion yields such running totals. *)
LEMMA PartialSumsDef ==
    ASSUME NEW n \in Nat, NEW f, \A i \in 1..n : f[i] \in Int
    PROVE  /\ IsPartialSums(PartialSums(f, n), f, n)
           /\ PartialSums(f, n) \in [0..n -> Int]
<1> DEFINE p == PartialSums(f, n)
<1>1. PICK s \in [0..n -> Int] : IsPartialSums(s, f, n)
  BY PartialSumsExist
<1>2. IsPartialSums(p, f, n)
  BY <1>1 DEF IsPartialSums, PartialSums
<1>3. p = s
  <2> DEFINE Bad == {i \in 0..n : p[i] # s[i]}
  <2>0. SUFFICES ASSUME Bad # {} PROVE FALSE
    <3>1. CASE Bad = {}
      <4>1. \A i \in 0..n : p[i] = s[i]
        BY <3>1
      <4>2. p = [i \in 0..n |-> p[i]] /\ s = [i \in 0..n |-> s[i]]
        BY <1>1, <1>2 DEF IsPartialSums
      <4>3. QED  BY <4>1, <4>2
    <3>2. QED  BY <3>1
  <2>1. Bad \in SUBSET Nat
    OBVIOUS
  <2> HIDE DEF Bad
  <2>2. PICK i \in Bad : \A y \in Bad : i <= y
    BY <2>0, <2>1, LeastNatural
  <2> USE DEF Bad
  <2>3. i = 0 \/ (i - 1 \in 0..n /\ i - 1 \notin Bad)
    BY <2>2
  <2>4. p[i] = (IF i = 0 THEN 0 ELSE p[i - 1] + f[i])
    BY <1>2 DEF IsPartialSums
  <2>5. s[i] = (IF i = 0 THEN 0 ELSE s[i - 1] + f[i])
    BY <1>1 DEF IsPartialSums
  <2>6. QED  BY <2>3, <2>4, <2>5
<1>4. QED  BY <1>1, <1>2, <1>3

(* A set of indices 0..n that contains 0 and is closed under successor is  *)
(* all of 0..n: the form in which the sums below use induction.            *)
LEMMA PrefixInduction ==
    ASSUME NEW n \in Nat, NEW Good, 0 \in Good,
           \A i \in 1..n : i - 1 \in Good => i \in Good
    PROVE  \A i \in 0..n : i \in Good
<1> DEFINE Bad == {i \in 0..n : i \notin Good}
<1>1. SUFFICES ASSUME Bad # {} PROVE FALSE
  OBVIOUS
<1>2. Bad \in SUBSET Nat
  OBVIOUS
<1> HIDE DEF Bad
<1>3. PICK i \in Bad : \A y \in Bad : i <= y
  BY <1>1, <1>2, LeastNatural
<1> USE DEF Bad
<1>4. i # 0 => i \in 1..n /\ i - 1 \notin Bad
  BY <1>3
<1>5. QED  BY <1>3, <1>4

(* The running totals step by step. *)
LEMMA PartialSumsStep ==
    ASSUME NEW n \in Nat, NEW f, \A i \in 1..n : f[i] \in Int
    PROVE  /\ PartialSums(f, n)[0] = 0
           /\ \A i \in 1..n : /\ PartialSums(f, n)[i] = PartialSums(f, n)[i-1] + f[i]
                              /\ PartialSums(f, n)[i-1] \in Int
           /\ PartialSums(f, n)[n] \in Int
BY PartialSumsDef DEF IsPartialSums

(* A sum of integers is an integer. *)
LEMMA SumToInt ==
    ASSUME NEW n \in Nat, NEW f, \A i \in 1..n : f[i] \in Int
    PROVE  SumTo(f, n) \in Int
BY PartialSumsStep DEF SumTo

(* Sums add up: the sum of the pointwise total is the total of the sums. *)
LEMMA SumToAdd ==
    ASSUME NEW n \in Nat, NEW f, NEW g, NEW h,
           \A i \in 1..n : f[i] \in Int /\ g[i] \in Int /\ h[i] = f[i] + g[i]
    PROVE  SumTo(h, n) = SumTo(f, n) + SumTo(g, n)
<1> DEFINE pf == PartialSums(f, n)
           pg == PartialSums(g, n)
           ph == PartialSums(h, n)
           Good == {i \in 0..n : ph[i] = pf[i] + pg[i]}
<1>0. \A i \in 1..n : f[i] \in Int /\ g[i] \in Int /\ h[i] \in Int
  OBVIOUS
<1>1. /\ pf[0] = 0 /\ pg[0] = 0 /\ ph[0] = 0
      /\ \A i \in 1..n : /\ pf[i] = pf[i-1] + f[i] /\ pf[i-1] \in Int
                         /\ pg[i] = pg[i-1] + g[i] /\ pg[i-1] \in Int
                         /\ ph[i] = ph[i-1] + h[i] /\ ph[i-1] \in Int
  BY <1>0, PartialSumsStep
<1> HIDE DEF pf, pg, ph
<1>2. 0 \in Good
  BY <1>1
<1>3. ASSUME NEW i \in 1..n, i - 1 \in Good PROVE i \in Good
  BY <1>1, <1>3, <1>0
<1>4. \A i \in 0..n : i \in Good
  <2> HIDE DEF Good
  <2> QED  BY <1>2, <1>3, PrefixInduction
<1>5. ph[n] = pf[n] + pg[n]
  BY <1>4
<1>6. QED  BY <1>5 DEF SumTo, pf, pg, ph

(* A sum of zeros is zero. *)
LEMMA SumToZero ==
    ASSUME NEW n \in Nat, NEW f, \A i \in 1..n : f[i] = 0
    PROVE  SumTo(f, n) = 0
<1>1. SumTo(f, n) = SumTo(f, n) + SumTo(f, n)
  BY SumToAdd
<1>2. SumTo(f, n) \in Int
  BY SumToInt
<1>3. \A x \in Int : x = x + x => x = 0
  OBVIOUS
<1>4. QED  BY <1>1, <1>2, <1>3

(* Functions that agree on 1..n have the same sum. *)
LEMMA SumToAgree ==
    ASSUME NEW n \in Nat, NEW f, NEW g,
           \A i \in 1..n : f[i] \in Int /\ g[i] = f[i]
    PROVE  SumTo(g, n) = SumTo(f, n)
<1> DEFINE z == [i \in 1..n |-> 0]
<1>1. SumTo(z, n) = 0
  BY SumToZero
<1>2. SumTo(g, n) = SumTo(f, n) + SumTo(z, n)
  <2>1. \A i \in 1..n : f[i] \in Int /\ z[i] \in Int /\ g[i] = f[i] + z[i]
    OBVIOUS
  <2> HIDE DEF z
  <2>2. QED  BY <2>1, SumToAdd
<1>3. QED  BY <1>1, <1>2, SumToInt

(* A sum with one non-zero term is that term. *)
LEMMA SumToSingle ==
    ASSUME NEW n \in Nat, NEW f, NEW k \in 1..n, f[k] \in Int,
           \A i \in 1..n : i # k => f[i] = 0
    PROVE  SumTo(f, n) = f[k]
<1> DEFINE pf == PartialSums(f, n)
           Good == {i \in 0..n : pf[i] = IF i < k THEN 0 ELSE f[k]}
<1>1. /\ pf[0] = 0
      /\ \A i \in 1..n : pf[i] = pf[i-1] + f[i] /\ pf[i-1] \in Int
  <2>1. \A i \in 1..n : f[i] \in Int
    OBVIOUS
  <2>2. QED  BY <2>1, PartialSumsStep
<1> HIDE DEF pf
<1>2. 0 \in Good
  BY <1>1
<1>3. ASSUME NEW i \in 1..n, i - 1 \in Good PROVE i \in Good
  <2>1. pf[i-1] = IF i - 1 < k THEN 0 ELSE f[k]
    BY <1>3
  <2>2. pf[i] = pf[i-1] + f[i]
    BY <1>1
  <2>3. CASE i < k
    BY <2>1, <2>2, <2>3
  <2>4. CASE i = k
    BY <2>1, <2>2, <2>4
  <2>5. CASE i > k
    BY <2>1, <2>2, <2>5
  <2>6. QED  BY <2>3, <2>4, <2>5
<1>4. \A i \in 0..n : i \in Good
  <2> HIDE DEF Good
  <2> QED  BY <1>2, <1>3, PrefixInduction
<1>5. QED  BY <1>4 DEF SumTo, pf

(* A sum of non-negative terms is non-negative. *)
LEMMA SumToNonNegative ==
    ASSUME NEW n \in Nat, NEW f, \A i \in 1..n : f[i] \in Nat
    PROVE  SumTo(f, n) \in Nat
<1> DEFINE pf == PartialSums(f, n)
           Good == {i \in 0..n : pf[i] \in Nat}
<1>1. /\ pf[0] = 0
      /\ \A i \in 1..n : pf[i] = pf[i-1] + f[i]
  BY PartialSumsStep
<1> HIDE DEF pf
<1>2. 0 \in Good
  BY <1>1
<1>3. ASSUME NEW i \in 1..n, i - 1 \in Good PROVE i \in Good
  BY <1>1, <1>3
<1>4. \A i \in 0..n : i \in Good
  <2> HIDE DEF Good
  <2> QED  BY <1>2, <1>3, PrefixInduction
<1>5. QED  BY <1>4 DEF SumTo, pf

(* Termwise smaller functions have smaller sums. *)
LEMMA SumToMonotone ==
    ASSUME NEW n \in Nat, NEW f, NEW g,
           \A i \in 1..n : f[i] \in Int /\ g[i] \in Int /\ f[i] <= g[i]
    PROVE  SumTo(f, n) <= SumTo(g, n)
<1> DEFINE d == [i \in 1..n |-> g[i] - f[i]]
<1>1. SumTo(d, n) \in Nat
  <2>1. \A i \in 1..n : d[i] \in Nat
    OBVIOUS
  <2> HIDE DEF d
  <2>2. QED  BY <2>1, SumToNonNegative
<1>2. SumTo(g, n) = SumTo(f, n) + SumTo(d, n)
  <2>1. \A i \in 1..n : f[i] \in Int /\ d[i] \in Int /\ g[i] = f[i] + d[i]
    OBVIOUS
  <2> HIDE DEF d
  <2>2. QED  BY <2>1, SumToAdd
<1>3. SumTo(f, n) \in Int /\ SumTo(g, n) \in Int
  BY SumToInt
<1>4. QED  BY <1>1, <1>2, <1>3

-----------------------------------------------------------------------------
(* Division and rounding *)

LEMMA DivBounds ==
    ASSUME NEW n \in Int, NEW d \in Nat \ {0}
    PROVE  /\ n \div d \in Int
           /\ d * (n \div d) <= n
           /\ n < d * (n \div d) + d
OBVIOUS

LEMMA MulMono ==
    ASSUME NEW a \in Int, NEW b \in Int, NEW c \in Nat, a <= b
    PROVE  c * a <= c * b
OBVIOUS

LEMMA MulCancel ==
    ASSUME NEW a \in Int, NEW b \in Int, NEW c \in Nat \ {0}, c * a < c * b + c
    PROVE  a <= b
OBVIOUS

\* A quotient rounded to the nearest whole number, a tie going up.
HalfUp(num, den) == (2 * num + den) \div (2 * den)

(* HalfUp is within half of the exact quotient. *)
LEMMA HalfUpBounds ==
    ASSUME NEW num \in Nat, NEW den \in Nat \ {0}
    PROVE  /\ HalfUp(num, den) \in Nat
           /\ (2 * den) * HalfUp(num, den) <= 2 * num + den
           /\ 2 * num + den < (2 * den) * HalfUp(num, den) + 2 * den
<1> DEFINE n == 2 * num + den
           d == 2 * den
           q == n \div d
<1>1. n \in Nat /\ d \in Nat \ {0}
  OBVIOUS
<1>2. /\ q \in Int
      /\ (2 * den) * q <= 2 * num + den
      /\ 2 * num + den < (2 * den) * q + 2 * den
  <2> HIDE DEF n, d
  <2>1. q \in Int /\ d * q <= n /\ n < d * q + d
    BY <1>1, DivBounds
  <2> HIDE DEF q
  <2> USE DEF n, d
  <2>2. QED  BY <2>1
<1>3. q >= 0
  <2> HIDE DEF q
  <2>1. SUFFICES ASSUME q <= -1 PROVE FALSE
    BY <1>2
  <2>2. (2 * den) * q <= (2 * den) * (-1)
    BY <2>1, <1>1, <1>2, MulMono
  <2>3. QED  BY <2>2, <1>1, <1>2
<1>4. QED  BY <1>2, <1>3 DEF HalfUp

(* A whole number of units at most the quotient is at most its rounding,   *)
(* and one at least the quotient is at least its rounding.                 *)
LEMMA HalfUpBrackets ==
    ASSUME NEW num \in Nat, NEW den \in Nat \ {0}, NEW k \in Nat
    PROVE  /\ den * k <= num => k <= HalfUp(num, den)
           /\ num <= den * k => HalfUp(num, den) <= k
<1> DEFINE q == HalfUp(num, den)
<1>1. /\ q \in Nat
      /\ (2 * den) * q <= 2 * num + den
      /\ 2 * num + den < (2 * den) * q + 2 * den
  BY HalfUpBounds
<1> HIDE DEF q
<1>2. 2 * den \in Nat \ {0} /\ (2 * den) * k = 2 * (den * k) /\ den * k \in Nat
  OBVIOUS
<1>3. ASSUME den * k <= num PROVE k <= q
  <2>1. (2 * den) * k < (2 * den) * q + 2 * den
    BY <1>1, <1>2, <1>3
  <2>2. QED  BY <1>1, <1>2, <2>1, MulCancel
<1>4. ASSUME num <= den * k PROVE q <= k
  <2>1. (2 * den) * q < (2 * den) * k + 2 * den
    BY <1>1, <1>2, <1>4
  <2>2. QED  BY <1>1, <1>2, <2>1, MulCancel
<1>5. QED  BY <1>3, <1>4 DEF q

(* The larger of two quotients is not rounded to less. *)
LEMMA HalfUpMonotone ==
    ASSUME NEW small \in Nat, NEW large \in Nat, NEW den \in Nat \ {0}, small <= large
    PROVE  HalfUp(small, den) <= HalfUp(large, den)
<1> DEFINE c == HalfUp(small, den)
           p == HalfUp(large, den)
<1>1. /\ c \in Nat /\ p \in Nat
      /\ (2 * den) * c <= 2 * small + den
      /\ 2 * large + den < (2 * den) * p + 2 * den
  BY HalfUpBounds
<1> HIDE DEF c, p
<1>2. (2 * den) * c < (2 * den) * p + 2 * den
  BY <1>1
<1>3. 2 * den \in Nat \ {0}
  OBVIOUS
<1>4. c <= p
  BY <1>1, <1>2, <1>3, MulCancel
<1> QED BY <1>4 DEF c, p

-----------------------------------------------------------------------------
(* Sums over finite sets.  The community modules fold a set by taking out  *)
(* one element after another, in an order that CHOOSE fixes; the sum does  *)
(* not depend on it.                                                       *)

Pick(s) == CHOOSE x \in s : TRUE

\* g[s] is the sum of v over s, for every set s in D.
AreSetSums(g, v, D) ==
    \A s \in D : g[s] = IF s = {} THEN 0 ELSE v[Pick(s)] + g[s \ {Pick(s)}]

Smaller(S, n) == {s \in SUBSET S : Cardinality(s) <= n}

LEMMA SetsBySize ==
    ASSUME NEW S, IsFiniteSet(S)
    PROVE  /\ Cardinality(S) \in Nat /\ Smaller(S, Cardinality(S)) = SUBSET S
           /\ Smaller(S, 0) = {{}}
           /\ \A s \in SUBSET S : IsFiniteSet(s) /\ Cardinality(s) \in Nat
           /\ \A n \in Nat \ {0} : \A s \in Smaller(S, n) : \A x \in s : s \ {x} \in Smaller(S, n - 1)
           /\ \A n \in Nat \ {0} : Smaller(S, n - 1) \subseteq Smaller(S, n)
           /\ \A n \in Nat : \A s \in Smaller(S, n) : s = {} \/ Pick(s) \in s
<1>1. \A s \in SUBSET S : IsFiniteSet(s) /\ Cardinality(s) \in Nat /\ Cardinality(s) <= Cardinality(S)
  BY FS_Subset, FS_CardinalityType
<1>2. Cardinality(S) \in Nat /\ Smaller(S, Cardinality(S)) = SUBSET S
  BY <1>1 DEF Smaller
<1>3. Smaller(S, 0) = {{}}
  BY <1>1, FS_EmptySet DEF Smaller
<1>4. ASSUME NEW n \in Nat \ {0}, NEW s \in Smaller(S, n), NEW x \in s
      PROVE  s \ {x} \in Smaller(S, n - 1)
  <2>1. IsFiniteSet(s) /\ Cardinality(s) \in Nat /\ Cardinality(s) <= n /\ s \in SUBSET S
    BY <1>1 DEF Smaller
  <2>2. Cardinality(s \ {x}) = Cardinality(s) - 1
    BY <2>1, FS_RemoveElement
  <2> QED BY <2>1, <2>2 DEF Smaller
<1>5. \A n \in Nat \ {0} : Smaller(S, n - 1) \subseteq Smaller(S, n)
  BY <1>1 DEF Smaller
<1>6. \A s : s = {} \/ Pick(s) \in s
  BY DEF Pick
<1> QED BY <1>1, <1>2, <1>3, <1>4, <1>5, <1>6

LEMMA SetSumsExist ==
    ASSUME NEW S, IsFiniteSet(S), NEW v, \A x \in S : v[x] \in Int
    PROVE  \E g \in [SUBSET S -> Int] : AreSetSums(g, v, SUBSET S)
<1> DEFINE n == Cardinality(S)
           Summed(k) == \E g \in [Smaller(S, k) -> Int] : AreSetSums(g, v, Smaller(S, k))
           Good == {k \in 0..n : Summed(k)}
<1>1. n \in Nat
  BY SetsBySize
<1>2. 0 \in Good
  <2> DEFINE g == [s \in Smaller(S, 0) |-> 0]
  <2>1. g \in [Smaller(S, 0) -> Int] /\ AreSetSums(g, v, Smaller(S, 0))
    BY SetsBySize DEF AreSetSums
  <2> QED BY <1>1, <2>1
<1>3. ASSUME NEW k \in 1..n, k - 1 \in Good PROVE k \in Good
  <2>1. PICK g \in [Smaller(S, k - 1) -> Int] : AreSetSums(g, v, Smaller(S, k - 1))
    BY <1>3
  <2> DEFINE sum(s) == IF s = {} THEN 0 ELSE v[Pick(s)] + g[s \ {Pick(s)}]
             h == [s \in Smaller(S, k) |-> sum(s)]
  <2>2. k \in Nat \ {0}
    BY <1>1
  <2>3. \A s \in Smaller(S, k) : s = {} \/ (Pick(s) \in s /\ s \ {Pick(s)} \in Smaller(S, k - 1)
                                             /\ s \ {Pick(s)} \in Smaller(S, k))
    BY <2>2, SetsBySize
  <2>4. \A s \in Smaller(S, k) : \A x \in s : x \in S
    BY DEF Smaller
  <2>5. h \in [Smaller(S, k) -> Int]
    <3>1. \A s \in Smaller(S, k) : sum(s) \in Int
      BY <2>1, <2>3, <2>4
    <3> QED BY <3>1
  <2>6. \A s \in Smaller(S, k - 1) : g[s] = sum(s)
    BY <2>1 DEF AreSetSums
  <2>7. AreSetSums(h, v, Smaller(S, k))
    <3>1. ASSUME NEW s \in Smaller(S, k), s # {} PROVE h[s \ {Pick(s)}] = g[s \ {Pick(s)}]
      BY <2>3, <2>6, <3>1
    <3> HIDE DEF h
    <3>2. \A s \in Smaller(S, k) : h[s] = sum(s)
      BY DEF h
    <3> QED BY <3>1, <3>2 DEF AreSetSums
  <2>8. Summed(k)
    <3> HIDE DEF h
    <3> QED BY <2>5, <2>7
  <2> HIDE DEF Summed
  <2> QED BY <1>1, <2>8
<1> HIDE DEF Good
<1>4. n \in Good
  BY <1>1, <1>2, <1>3, PrefixInduction
<1>5. Summed(n)
  <2> HIDE DEF Summed
  <2> QED BY <1>4 DEF Good
<1>6. Smaller(S, n) = SUBSET S
  BY SetsBySize
<1> QED BY <1>5, <1>6, Zenon

\* Sums over the subsets of two sets agree where both are given.
LEMMA SetSumsUnique ==
    ASSUME NEW S, IsFiniteSet(S), NEW D, SUBSET S \subseteq D, NEW v, NEW w, NEW g, NEW h,
           AreSetSums(g, v, SUBSET S), AreSetSums(h, w, D), \A x \in S : v[x] = w[x]
    PROVE  \A s \in SUBSET S : g[s] = h[s]
<1> DEFINE n == Cardinality(S)
           Good == {k \in 0..n : \A s \in Smaller(S, k) : g[s] = h[s]}
<1>1. n \in Nat
  BY SetsBySize
<1>2. 0 \in Good
  <2>1. g[{}] = 0 /\ h[{}] = 0
    BY DEF AreSetSums
  <2>2. \A s \in Smaller(S, 0) : s = {}
    BY SetsBySize
  <2>3. \A s \in Smaller(S, 0) : g[s] = h[s]
    BY <2>1, <2>2, Zenon
  <2>4. 0 \in 0..n
    BY <1>1
  <2> QED BY <2>3, <2>4, Zenon
<1>3. ASSUME NEW k \in 1..n, k - 1 \in Good, NEW s \in Smaller(S, k) PROVE g[s] = h[s]
  <2>1. s \in SUBSET S /\ k \in Nat \ {0}
    BY <1>1 DEF Smaller
  <2>2. CASE s = {}
    BY <2>1, <2>2 DEF AreSetSums
  <2>3. CASE s # {}
    <3>1. Pick(s) \in S /\ s \ {Pick(s)} \in Smaller(S, k - 1)
      BY <2>1, <2>3, SetsBySize
    <3>2. g[s \ {Pick(s)}] = h[s \ {Pick(s)}] /\ v[Pick(s)] = w[Pick(s)]
      BY <1>3, <3>1
    <3>3. g[s] = v[Pick(s)] + g[s \ {Pick(s)}] /\ h[s] = w[Pick(s)] + h[s \ {Pick(s)}]
      BY <2>1, <2>3 DEF AreSetSums
    <3> QED BY <3>2, <3>3
  <2> QED BY <2>2, <2>3
<1>4. \A k \in 1..n : k - 1 \in Good => k \in Good
  BY <1>3
<1> HIDE DEF Good
<1>5. n \in Good
  BY <1>1, <1>2, <1>4, PrefixInduction
<1> QED BY <1>5, SetsBySize DEF Good

\* Whichever element is taken out, the rest is the sum without it.
LEMMA SetSumsRemove ==
    ASSUME NEW S, IsFiniteSet(S), NEW v, \A x \in S : v[x] \in Int,
           NEW g \in [SUBSET S -> Int], AreSetSums(g, v, SUBSET S)
    PROVE  \A y \in S : g[S] = v[y] + g[S \ {y}]
<1> DEFINE n == Cardinality(S)
           Good == {k \in 0..n : \A s \in Smaller(S, k) : \A y \in s : g[s] = v[y] + g[s \ {y}]}
<1>1. n \in Nat
  BY SetsBySize
<1>2. 0 \in Good
  BY <1>1, SetsBySize
<1>3. ASSUME NEW k \in 1..n, k - 1 \in Good, NEW s \in Smaller(S, k), NEW y \in s
      PROVE  g[s] = v[y] + g[s \ {y}]
  <2> DEFINE c == Pick(s)
  <2>1. s \in SUBSET S /\ k \in Nat \ {0} /\ c \in s
    BY <1>1, SetsBySize DEF Smaller
  <2>2. s \ {c} \in Smaller(S, k - 1) /\ s \ {y} \in Smaller(S, k - 1)
    BY <2>1, SetsBySize
  <2> HIDE DEF c
  <2>3. g[s] = v[c] + g[s \ {c}]
    BY <2>1 DEF AreSetSums, c
  <2>4. CASE c = y
    BY <2>3, <2>4
  <2>5. CASE c # y
    <3>1. y \in s \ {c} /\ c \in s \ {y} /\ (s \ {c}) \ {y} = (s \ {y}) \ {c}
      BY <2>1, <2>5
    <3>2. \A t \in Smaller(S, k - 1) : \A x \in t : g[t] = v[x] + g[t \ {x}]
      BY <1>3
    <3>3. g[s \ {c}] = v[y] + g[(s \ {c}) \ {y}] /\ g[s \ {y}] = v[c] + g[(s \ {y}) \ {c}]
      BY <2>2, <3>1, <3>2
    <3> DEFINE e == g[(s \ {c}) \ {y}]
               a == g[s \ {y}]
    <3>4. v[c] \in Int /\ v[y] \in Int /\ e \in Int
      BY <2>1
    <3>5. g[s] = v[c] + (v[y] + e) /\ a = v[c] + e
      BY <2>3, <3>1, <3>3, Zenon
    <3> HIDE DEF a, e
    <3>6. g[s] = v[y] + a
      BY <3>4, <3>5
    <3> QED BY <3>6, Zenon DEF a
  <2> QED BY <2>4, <2>5
<1>4. ASSUME NEW k \in 1..n, k - 1 \in Good PROVE k \in Good
  <2>1. \A s \in Smaller(S, k) : \A y \in s : g[s] = v[y] + g[s \ {y}]
    BY <1>3, <1>4
  <2>2. k \in 0..n
    BY <1>1
  <2> QED BY <2>1, <2>2, Zenon
<1> HIDE DEF Good
<1>5. n \in Good
  BY <1>1, <1>2, <1>4, PrefixInduction
<1> QED BY <1>5, SetsBySize DEF Good

\* What a set gains when elements are added one by one.
LEMMA SetSumsAdd ==
    ASSUME NEW S, IsFiniteSet(S), NEW v, \A x \in S : v[x] \in Int,
           NEW D, SUBSET S \subseteq D, NEW h, AreSetSums(h, v, D), NEW y \in S
    PROVE  h[S] = v[y] + h[S \ {y}] /\ h[S] \in Int /\ h[S \ {y}] \in Int
<1>1. PICK g \in [SUBSET S -> Int] : AreSetSums(g, v, SUBSET S)
  BY SetSumsExist
<1>2. \A s \in SUBSET S : g[s] = h[s]
  BY <1>1, SetSumsUnique
<1>3. g[S] = v[y] + g[S \ {y}]
  BY <1>1, SetSumsRemove
<1>4. S \in SUBSET S /\ S \ {y} \in SUBSET S
  OBVIOUS
<1> QED BY <1>1, <1>2, <1>3, <1>4
=============================================================================

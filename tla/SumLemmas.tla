------------------------------ MODULE SumLemmas ------------------------------
(* Induction over the natural numbers, and what it says of running sums: the  *)
(* recursive functions by which the models add up lengths.                    *)
EXTENDS Sums, WellFoundedInduction, TLAPS

\* A set of natural numbers has a least one.
LEMMA LeastNumber ==
  ASSUME NEW T, T \subseteq Nat, T # {}
  PROVE  \E n \in T : \A m \in T : n =< m
<1> DEFINE less == OpToRel(<, Nat)
<1>1. IsWellFoundedOn(less, Nat)
  BY NatLessThanWellFounded
<1>2. \E x \in T : \A y \in T : ~ (<<y, x>> \in less)
  <2> HIDE DEF less
  <2> QED BY <1>1, WFMin
<1>3. ASSUME NEW x \in T, NEW y \in T, ~ (<<y, x>> \in less) PROVE x =< y
  <2>1. x \in Nat /\ y \in Nat
    OBVIOUS
  <2>2. ~ (y < x)
    <3>1. SUFFICES ASSUME y < x PROVE <<y, x>> \in less
      BY <1>3
    <3>2. <<y, x>> \in Nat \X Nat
      BY <2>1, SMT
    <3>. QED BY <3>1, <3>2 DEF OpToRel
  <2> QED BY <2>1, <2>2, SMT
<1> QED BY <1>2, <1>3

\* Induction, with a set in the place of a predicate.
LEMMA SetInduction ==
  ASSUME NEW S, 0 \in S, \A n \in S \cap Nat : n + 1 \in S
  PROVE  Nat \subseteq S
<1> SUFFICES ASSUME Nat \ S # {} PROVE FALSE
  OBVIOUS
<1>1. PICK n \in Nat \ S : \A m \in Nat \ S : n =< m
  BY LeastNumber
<1>2. n # 0 /\ n \in Nat
  OBVIOUS
<1>3. n - 1 \in Nat /\ n - 1 + 1 = n /\ ~ (n =< n - 1)
  BY <1>2, SMT
<1>4. n - 1 \in S \cap Nat
  BY <1>1, <1>3
<1> QED BY <1>3, <1>4

\* f[j] is w[1] + ... + w[j].
IsSum(f, k, w) == f = [j \in 0 .. k |-> IF j = 0 THEN 0 ELSE f[j - 1] + w[j]]

\* The recursive function in Sum exists.
LEMMA SumExists ==
  ASSUME NEW k \in Nat, NEW w, \A j \in 1 .. k : w[j] \in Int
  PROVE  \E f \in [0 .. k -> Int] : IsSum(f, k, w)
<1> DEFINE Good == {n \in Nat : n =< k => \E f \in [0 .. n -> Int] : IsSum(f, n, w)}
<1>1. 0 \in Good
  <2> DEFINE f == [j \in 0 .. 0 |-> 0]
  <2>1. f \in [0 .. 0 -> Int] /\ IsSum(f, 0, w)
    BY SMT DEF IsSum
  <2> QED BY <2>1
<1>2. ASSUME NEW n \in Good \cap Nat PROVE n + 1 \in Good
  <2>0. n \in Nat /\ n + 1 \in Nat
    BY SMT
  <2>1. SUFFICES ASSUME n + 1 =< k PROVE \E f \in [0 .. n + 1 -> Int] : IsSum(f, n + 1, w)
    BY <2>0
  <2>2. n =< k
    BY <2>0, <2>1, SMT
  <2>3. PICK f \in [0 .. n -> Int] : IsSum(f, n, w)
    BY <2>2
  <2> DEFINE g == [j \in 0 .. n + 1 |-> IF j = n + 1 THEN f[n] + w[n + 1] ELSE f[j]]
  <2>4. g \in [0 .. n + 1 -> Int]
    BY <2>0, <2>1, <2>3, SMT DEF IsSum
  <2>5. ASSUME NEW j \in 0 .. n + 1
        PROVE  g[j] = IF j = 0 THEN 0 ELSE g[j - 1] + w[j]
    <3>1. CASE j = n + 1
      <4>1. j # 0 /\ j - 1 = n /\ j - 1 \in 0 .. n + 1 /\ j - 1 # n + 1
        BY <2>0, <3>1, SMT
      <4> QED BY <3>1, <4>1
    <3>2. CASE j # n + 1
      <4>1. j \in 0 .. n
        BY <2>0, <3>2, SMT
      <4>2. f[j] = IF j = 0 THEN 0 ELSE f[j - 1] + w[j]
        BY <2>3, <4>1 DEF IsSum
      <4>3. j # 0 => j - 1 \in 0 .. n + 1 /\ j - 1 # n + 1
        BY <2>0, <4>1, SMT
      <4> QED BY <3>2, <4>2, <4>3
    <3> QED BY <3>1, <3>2
  <2>6. IsSum(g, n + 1, w)
    <3> HIDE DEF g
    <3> QED BY <2>4, <2>5 DEF IsSum
  <2> QED BY <2>4, <2>6
<1>3. Nat \subseteq Good
  <2> HIDE DEF Good
  <2> QED BY <1>1, <1>2, SetInduction
<1>4. k \in Good
  BY <1>3
<1> QED BY <1>4, SMT

\* It is determined by what it sums.
LEMMA SumUnique ==
  ASSUME NEW w, NEW k \in Nat, \A j \in 1 .. k : w[j] \in Int,
         NEW n \in 0 .. k, NEW f, NEW g
  PROVE  IsSum(f, k, w) /\ IsSum(g, n, w) => \A j \in 0 .. n : g[j] \in Int /\ g[j] = f[j]
<1> SUFFICES ASSUME IsSum(f, k, w), IsSum(g, n, w) PROVE \A j \in 0 .. n : g[j] \in Int /\ g[j] = f[j]
  OBVIOUS
<1> DEFINE Good == {i \in Nat : i =< n => g[i] \in Int /\ g[i] = f[i]}
<1>1. 0 \in Good
  BY SMT DEF IsSum
<1>2. ASSUME NEW i \in Good \cap Nat PROVE i + 1 \in Good
  BY SMT DEF IsSum
<1>3. Nat \subseteq Good
  <2> HIDE DEF Good
  <2> QED BY <1>1, <1>2, SetInduction
<1>4. ASSUME NEW j \in 0 .. n PROVE g[j] \in Int /\ g[j] = f[j]
  <2>1. j \in Good /\ j =< n
    BY <1>3, SMT
  <2> QED BY <2>1
<1> QED BY <1>4

\* What Sum adds up, as a function of how far.
LEMMA SumIs ==
  ASSUME NEW k \in Nat, NEW w, \A j \in 1 .. k : w[j] \in Int
  PROVE  \E f \in [0 .. k -> Int] : IsSum(f, k, w) /\ f[k] = Sum(w, k)
<1> DEFINE f == CHOOSE f : f = [j \in 0 .. k |-> IF j = 0 THEN 0 ELSE f[j - 1] + w[j]]
<1>1. PICK g : IsSum(g, k, w)
  BY SumExists
<1>2. f = [j \in 0 .. k |-> IF j = 0 THEN 0 ELSE f[j - 1] + w[j]]
  BY <1>1 DEF IsSum
<1>3. f[k] = Sum(w, k)
  BY DEF Sum
<1> HIDE DEF f
<1>4. IsSum(f, k, w)
  BY <1>2 DEF IsSum
<1>5. \A j \in 0 .. k : f[j] \in Int
  <2>1. k \in 0 .. k
    BY SMT
  <2> QED BY <1>1, <1>4, <2>1, SumUnique
<1>6. f \in [0 .. k -> Int]
  BY <1>2, <1>5
<1> QED BY <1>3, <1>4, <1>6

\* A sum does not depend on what is not summed.
LEMMA SumSame ==
  ASSUME NEW k \in Nat, NEW w, NEW u, \A j \in 1 .. k : w[j] \in Int /\ u[j] = w[j]
  PROVE  Sum(u, k) = Sum(w, k)
<1>1. PICK f : IsSum(f, k, w) /\ f[k] = Sum(w, k)
  BY SumIs
<1>2. PICK g : IsSum(g, k, u) /\ g[k] = Sum(u, k)
  BY SumIs
<1>3. k \in 0 .. k
  BY SMT
<1>4. \A j \in 0 .. k : g[j] \in Int /\ g[j] = f[j]
  <2>1. IsSum(g, k, w)
    BY <1>2, SMT DEF IsSum
  <2>2. \A j \in 1 .. k : w[j] \in Int
    OBVIOUS
  <2>3. IsSum(f, k, w) /\ IsSum(g, k, w) => \A j \in 0 .. k : g[j] \in Int /\ g[j] = f[j]
    BY <1>3, <2>2, SumUnique
  <2> QED BY <1>1, <2>1, <2>3
<1> QED BY <1>1, <1>2, <1>3, <1>4

\* The first k, and one more.
LEMMA SumZero == ASSUME NEW w PROVE Sum(w, 0) = 0
<1>1. \A j \in 1 .. 0 : w[j] \in Int
  BY SMT
<1>2. PICK f \in [0 .. 0 -> Int] : IsSum(f, 0, w) /\ f[0] = Sum(w, 0)
  BY <1>1, SumIs
<1> QED BY <1>2, SMT DEF IsSum

LEMMA SumNext ==
  ASSUME NEW k \in Nat, NEW w, \A j \in 1 .. k + 1 : w[j] \in Int
  PROVE  Sum(w, k) \in Int /\ Sum(w, k + 1) = Sum(w, k) + w[k + 1]
<1>0. /\ k + 1 \in Nat /\ k \in 0 .. k + 1 /\ k \in 0 .. k /\ k + 1 \in 0 .. k + 1 /\ k + 1 # 0
      /\ (k + 1) - 1 = k /\ \A j \in 1 .. k : j \in 1 .. k + 1
  BY SMT
<1>1. PICK f : IsSum(f, k + 1, w) /\ f[k + 1] = Sum(w, k + 1)
  BY <1>0, SumIs
<1>2. PICK g : IsSum(g, k, w) /\ g[k] = Sum(w, k)
  BY <1>0, SumIs
<1>3. \A j \in 0 .. k : g[j] \in Int /\ g[j] = f[j]
  <2>1. IsSum(f, k + 1, w) /\ IsSum(g, k, w)
    BY <1>1, <1>2
  <2>2. k + 1 \in Nat /\ k \in 0 .. k + 1
    BY <1>0
  <2>3. IsSum(f, k + 1, w) /\ IsSum(g, k, w) => \A j \in 0 .. k : g[j] \in Int /\ g[j] = f[j]
    BY <2>2, SumUnique
  <2> QED BY <2>1, <2>3
<1>4. f[k + 1] = f[k] + w[k + 1]
  BY <1>0, <1>1 DEF IsSum
<1> QED BY <1>0, <1>1, <1>2, <1>3, <1>4

\* Sums of lengths are lengths, and grow.
LEMMA SumGrows ==
  ASSUME NEW k \in Nat, NEW w, \A j \in 1 .. k : w[j] \in Nat, NEW n \in 0 .. k
  PROVE  Sum(w, n) \in Nat /\ Sum(w, k) \in Nat /\ Sum(w, n) =< Sum(w, k)
<1> DEFINE Good == {i \in Nat : i =< k =>
             Sum(w, i) \in Nat /\ \A j \in 0 .. i : Sum(w, j) \in Nat /\ Sum(w, j) =< Sum(w, i)}
<1>1. 0 \in Good
  <2>1. 0 .. 0 = {0}
    BY SMT
  <2> QED BY <2>1, SumZero, SMT
<1>2. ASSUME NEW i \in Good \cap Nat PROVE i + 1 \in Good
  <2>0. i \in Nat /\ i + 1 \in Nat
    BY SMT
  <2>1. SUFFICES ASSUME i + 1 =< k
                 PROVE  Sum(w, i + 1) \in Nat /\ \A j \in 0 .. i + 1 : Sum(w, j) \in Nat /\ Sum(w, j) =< Sum(w, i + 1)
    BY <2>0
  <2>2. i =< k /\ w[i + 1] \in Nat /\ \A j \in 1 .. i + 1 : w[j] \in Int
    BY <2>0, <2>1, SMT
  <2>3. Sum(w, i + 1) = Sum(w, i) + w[i + 1]
    BY <2>0, <2>2, SumNext
  <2>4. Sum(w, i) \in Nat /\ \A j \in 0 .. i : Sum(w, j) \in Nat /\ Sum(w, j) =< Sum(w, i)
    BY <2>2
  <2>5. \A j \in 0 .. i + 1 : j \in 0 .. i \/ j = i + 1
    BY <2>0, SMT
  <2> QED BY <2>2, <2>3, <2>4, <2>5, SMT
<1>3. Nat \subseteq Good
  <2> HIDE DEF Good
  <2> QED BY <1>1, <1>2, SetInduction
<1>4. k \in Good /\ k =< k
  BY <1>3, SMT
<1> QED BY <1>4

\* A sum of equal parts.
LEMMA SumOfEqual ==
  ASSUME NEW B \in Nat, NEW k \in Nat, NEW w, \A j \in 1 .. k : w[j] = B
  PROVE  \A i \in 0 .. k : Sum(w, i) = i * B
<1> DEFINE Good == {i \in Nat : i =< k => Sum(w, i) = i * B}
<1>1. 0 \in Good
  <2>1. 0 * B = 0
    BY SMT
  <2> QED BY <2>1, SumZero
<1>2. ASSUME NEW i \in Good \cap Nat PROVE i + 1 \in Good
  <2>1. SUFFICES ASSUME i + 1 =< k PROVE Sum(w, i + 1) = (i + 1) * B
    OBVIOUS
  <2>2. i \in Nat /\ i =< k /\ w[i + 1] = B /\ \A j \in 1 .. i + 1 : w[j] \in Int
    BY <2>1, SMT
  <2>3. Sum(w, i + 1) = Sum(w, i) + w[i + 1]
    BY <2>2, SumNext
  <2>4. Sum(w, i) = i * B
    BY <2>2
  <2>5. i * B + B = (i + 1) * B
    BY <2>2, SMT
  <2> QED BY <2>2, <2>3, <2>4, <2>5
<1>3. Nat \subseteq Good
  <2> HIDE DEF Good
  <2> QED BY <1>1, <1>2, SetInduction
<1>4. ASSUME NEW i \in 0 .. k PROVE Sum(w, i) = i * B
  <2>1. i \in Good /\ i =< k
    BY <1>3, SMT
  <2> QED BY <2>1
<1> QED BY <1>4
=============================================================================

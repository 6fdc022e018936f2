---------------------------- MODULE RecursionLemmas ----------------------------
(***************************************************************************)
(* What the proofs need of recursive functions on numbers: that a loop of  *)
(* a number of rounds, or a sum, is defined, and what it keeps.  There is  *)
(* no induction here: a smallest counterexample takes its place.           *)
(***************************************************************************)
EXTENDS Naturals, WellFoundedInduction, TLAPS

\* Every nonempty set of naturals has a least member.
LEMMA LeastNatural ==
    ASSUME NEW N \in SUBSET Nat, N # {}
    PROVE  \E m \in N : \A n \in N : m <= n
<1> DEFINE R == OpToRel(<, Nat)
<1>1. IsWellFoundedOn(R, Nat)
    BY NatLessThanWellFounded
<1>2. \A m, n \in Nat : n < m => <<n, m>> \in R
    BY DEF OpToRel
<1> HIDE DEF R
<1>3. PICK m \in N : \A n \in N : ~(<<n, m>> \in R)
    BY <1>1, WFMin
<1>4. \A n \in N : ~(n < m)
    BY <1>2, <1>3
<1> QED  BY <1>4

\* A loop of n rounds, from a, whose i-th round takes x to g[i][x].
Rounds(a, g, n, f) ==
    f = [i \in 0 .. n |-> IF i = 0 THEN a ELSE g[i - 1][f[i - 1]]]

LEMMA LoopIsDefined ==
    ASSUME NEW a, NEW g, NEW n \in Nat
    PROVE  \E f : Rounds(a, g, n, f)
<1> DEFINE Missing == {m \in Nat : ~\E f : Rounds(a, g, m, f)}
<1> SUFFICES ASSUME Missing # {} PROVE FALSE
  OBVIOUS
<1>1. PICK m \in Missing : \A j \in Missing : m <= j
  <2>1. Missing \in SUBSET Nat
    OBVIOUS
  <2> HIDE DEF Missing
  <2> QED BY <2>1, LeastNatural
<1>2. m \in Nat /\ ~\E f : Rounds(a, g, m, f)
  OBVIOUS
<1>3. CASE m = 0
  <2>1. Rounds(a, g, 0, [i \in 0 .. 0 |-> a])
    BY DEF Rounds
  <2> QED BY <1>2, <1>3, <2>1
<1>4. CASE m # 0
  <2>1. m - 1 \in Nat /\ ~(m <= m - 1)
    BY <1>2, <1>4
  <2>2. PICK f : Rounds(a, g, m - 1, f)
    BY <1>1, <2>1
  <2> DEFINE h == [i \in 0 .. m |-> IF i = m THEN g[m - 1][f[m - 1]] ELSE f[i]]
  <2>3. \A i \in 0 .. m - 1 : f[i] = IF i = 0 THEN a ELSE g[i - 1][f[i - 1]]
    BY <2>2 DEF Rounds
  <2>4. \A i \in 0 .. m : h[i] = IF i = 0 THEN a ELSE g[i - 1][h[i - 1]]
    <3> TAKE i \in 0 .. m
    <3>1. CASE i = m
      BY <3>1, <1>4, <2>1
    <3>2. CASE i # m
      <4>1. i \in 0 .. m - 1 /\ (i = 0 \/ i - 1 \in 0 .. m - 1)
        BY <3>2, <2>1
      <4> QED BY <4>1, <3>2, <2>1, <2>3
    <3> QED BY <3>1, <3>2
  <2>5. h = [i \in 0 .. m |-> IF i = 0 THEN a ELSE g[i - 1][h[i - 1]]]
    <3>1. \A i \in 0 .. m : h[i] = [j \in 0 .. m |-> IF j = 0 THEN a ELSE g[j - 1][h[j - 1]]][i]
      <4> HIDE DEF h
      <4> QED BY <2>4
    <3>2. h = [i \in 0 .. m |-> h[i]]
      OBVIOUS
    <3> HIDE DEF h
    <3> QED BY <3>1, <3>2
  <2>6. Rounds(a, g, m, h)
    <3> HIDE DEF h
    <3> QED BY <2>5 DEF Rounds
  <2> QED BY <1>2, <2>6
<1> QED BY <1>3, <1>4

\* A loop whose rounds lead from each set of S to the next is in the i-th after i.
LEMMA LoopKeeps ==
    ASSUME NEW a, NEW g, NEW n \in Nat, NEW f, Rounds(a, g, n, f),
           NEW S, a \in S[0], \A i \in 0 .. n - 1 : \A x \in S[i] : g[i][x] \in S[i + 1]
    PROVE  \A i \in 0 .. n : f[i] \in S[i]
<1> DEFINE Outside == {i \in 0 .. n : f[i] \notin S[i]}
<1> SUFFICES ASSUME Outside # {} PROVE FALSE
  OBVIOUS
<1>1. PICK m \in Outside : \A j \in Outside : m <= j
  <2>1. Outside \in SUBSET Nat
    OBVIOUS
  <2> HIDE DEF Outside
  <2> QED BY <2>1, LeastNatural
<1>2. \A i \in 0 .. n : f[i] = IF i = 0 THEN a ELSE g[i - 1][f[i - 1]]
  BY DEF Rounds
<1>3. CASE m = 0
  BY <1>2, <1>3
<1>4. CASE m # 0
  <2>1. m - 1 \in 0 .. n - 1 /\ m - 1 \in 0 .. n /\ ~(m <= m - 1) /\ m - 1 + 1 = m
    BY <1>4
  <2>2. f[m - 1] \in S[m - 1]
    BY <1>1, <2>1
  <2> QED BY <1>2, <1>4, <2>1, <2>2
<1> QED BY <1>3, <1>4

\* The sums of the first numbers of g, up to n of them.
Sums(g, n, f) == f = [i \in 0 .. n |-> IF i = 0 THEN 0 ELSE f[i - 1] + g[i]]

LEMMA SumIsDefined ==
    ASSUME NEW n \in Nat, NEW g, \A i \in 1 .. n : g[i] \in Nat
    PROVE  \E f : Sums(g, n, f)
<1> DEFINE add == [i \in 0 .. n |-> [x \in Nat |-> x + g[i + 1]]]
<1>1. PICK f : Rounds(0, add, n, f)
  <2> HIDE DEF add
  <2> QED BY LoopIsDefined
<1>2. \A i \in 0 .. n - 1 : \A x \in Nat : add[i][x] = x + g[i + 1] /\ add[i][x] \in Nat
  <2> TAKE i \in 0 .. n - 1
  <2>1. i \in 0 .. n /\ i + 1 \in 1 .. n
    OBVIOUS
  <2> QED BY <2>1
<1> HIDE DEF add
<1>3. \A i \in 0 .. n : f[i] \in Nat
  <2> DEFINE numbers == [i \in 0 .. n |-> Nat]
  <2>1. \A i \in 0 .. n : numbers[i] = Nat
    OBVIOUS
  <2>2. 0 \in 0 .. n /\ \A i \in 0 .. n - 1 : i \in 0 .. n /\ i + 1 \in 0 .. n
    OBVIOUS
  <2> HIDE DEF numbers
  <2>3. 0 \in numbers[0]
    BY <2>1, <2>2
  <2>4. \A i \in 0 .. n - 1 : \A x \in numbers[i] : add[i][x] \in numbers[i + 1]
    BY <1>2, <2>1, <2>2
  <2>5. \A i \in 0 .. n : f[i] \in numbers[i]
    BY <1>1, <2>3, <2>4, LoopKeeps
  <2> QED BY <2>1, <2>5
<1>4. f = [i \in 0 .. n |-> f[i]] /\ \A i \in 0 .. n : f[i] = IF i = 0 THEN 0 ELSE add[i - 1][f[i - 1]]
  BY <1>1 DEF Rounds
<1>5. \A i \in 0 .. n : f[i] = IF i = 0 THEN 0 ELSE f[i - 1] + g[i]
  <2> TAKE i \in 0 .. n
  <2>1. CASE i = 0
    BY <1>4, <2>1
  <2>2. CASE i # 0
    <3>1. i - 1 \in 0 .. n - 1 /\ i - 1 \in 0 .. n /\ i - 1 + 1 = i
      BY <2>2
    <3> QED BY <1>2, <1>3, <1>4, <2>2, <3>1
  <2> QED BY <2>1, <2>2
<1>6. f = [i \in 0 .. n |-> IF i = 0 THEN 0 ELSE f[i - 1] + g[i]]
  BY <1>4, <1>5
<1> QED BY <1>6 DEF Sums

LEMMA SumIsNatural ==
    ASSUME NEW n \in Nat, NEW g, NEW f, Sums(g, n, f), \A i \in 1 .. n : g[i] \in Nat
    PROVE  /\ \A i \in 0 .. n : f[i] \in Nat
           /\ f[0] = 0 /\ \A i \in 1 .. n : f[i] = f[i - 1] + g[i]
<1>1. \A i \in 0 .. n : f[i] = IF i = 0 THEN 0 ELSE f[i - 1] + g[i]
  BY DEF Sums
<1> DEFINE Odd == {i \in 0 .. n : f[i] \notin Nat}
<1>2. ASSUME Odd # {} PROVE FALSE
  <2>1. PICK m \in Odd : \A j \in Odd : m <= j
    <3>1. Odd \in SUBSET Nat
      OBVIOUS
    <3> HIDE DEF Odd
    <3> QED BY <1>2, <3>1, LeastNatural
  <2>2. m # 0
    BY <1>1, <2>1
  <2>3. m - 1 \in 0 .. n /\ m \in 1 .. n /\ ~(m <= m - 1)
    BY <2>2
  <2>4. f[m - 1] \in Nat
    BY <2>1, <2>3
  <2> QED BY <1>1, <2>2, <2>3, <2>4
<1> QED BY <1>1, <1>2

\* Equal steps add up to a product.
LEMMA EvenSum ==
    ASSUME NEW n \in Nat, NEW s \in Nat, NEW f,
           f[0] = 0, \A i \in 1 .. n : f[i] = f[i - 1] + s
    PROVE  \A i \in 0 .. n : f[i] = i * s
<1> DEFINE Odd == {i \in 0 .. n : f[i] # i * s}
<1>1. ASSUME Odd # {} PROVE FALSE
  <2>1. PICK i \in Odd : \A j \in Odd : i <= j
    <3>1. Odd \in SUBSET Nat
      OBVIOUS
    <3> QED BY <1>1, <3>1, LeastNatural
  <2>2. i \in 1 .. n /\ f[i] # i * s
    OBVIOUS
  <2>3. i - 1 \in 0 .. n /\ i - 1 \notin Odd
    BY <2>1, <2>2
  <2>4. f[i - 1] = (i - 1) * s
    BY <2>3
  <2>5. i * s = (i - 1) * s + s /\ (i - 1) * s \in Nat
    BY <2>2
  <2> QED BY <2>2, <2>4, <2>5
<1> QED BY <1>1

\* Sums never fall.
LEMMA SumGrows ==
    ASSUME NEW n \in Nat, NEW g, NEW f, Sums(g, n, f), \A i \in 1 .. n : g[i] \in Nat,
           NEW k \in 0 .. n
    PROVE  \A i \in k .. n : f[k] <= f[i]
<1>1. /\ \A i \in 0 .. n : f[i] \in Nat
      /\ \A i \in 1 .. n : f[i] = f[i - 1] + g[i]
  BY SumIsNatural
<1> DEFINE Odd == {i \in k .. n : ~(f[k] <= f[i])}
<1>2. ASSUME Odd # {} PROVE FALSE
  <2>1. PICK i \in Odd : \A j \in Odd : i <= j
    <3>1. Odd \in SUBSET Nat
      OBVIOUS
    <3> QED BY <1>2, <3>1, LeastNatural
  <2>2. i \in k .. n /\ ~(f[k] <= f[i])
    OBVIOUS
  <2>3. i # k
    BY <1>1, <2>2
  <2>4. i - 1 \in k .. n /\ i - 1 \notin Odd
    BY <2>1, <2>2, <2>3
  <2>5. f[k] <= f[i - 1]
    BY <2>4
  <2>6. /\ f[i] = f[i - 1] + g[i] /\ f[i - 1] \in Nat
        /\ g[i] \in Nat /\ f[k] \in Nat
    BY <1>1, <2>2, <2>3, <2>4
  <2> QED BY <2>2, <2>5, <2>6
<1> QED BY <1>2

\* The first k numbers of h are those of g that follow the o-th.
IsPart(h, k, g, o) == \A i \in 1 .. k : h[i] = g[o + i]

AreNaturals(g, n) == \A i \in 1 .. n : g[i] \in Nat

LEMMA SumOfPart ==
    ASSUME NEW n \in Nat, NEW k \in Nat, NEW o \in Nat, o + k <= n,
           NEW g, NEW h, NEW f, NEW e, Sums(g, n, f), Sums(h, k, e),
           AreNaturals(g, n), IsPart(h, k, g, o)
    PROVE  \A i \in 0 .. k : f[o + i] = f[o] + e[i]
<1>1. /\ \A i \in 0 .. n : f[i] \in Nat
      /\ \A i \in 1 .. n : f[i] = f[i - 1] + g[i]
  BY SumIsNatural DEF AreNaturals
<1>2. \A i \in 1 .. k : h[i] \in Nat
  <2> TAKE i \in 1 .. k
  <2>1. o + i \in 1 .. n
    OBVIOUS
  <2> QED BY <2>1 DEF AreNaturals, IsPart
<1>3. /\ \A i \in 0 .. k : e[i] \in Nat
      /\ e[0] = 0 /\ \A i \in 1 .. k : e[i] = e[i - 1] + h[i]
  BY <1>2, SumIsNatural
<1> DEFINE Odd == {i \in 0 .. k : f[o + i] # f[o] + e[i]}
<1>4. ASSUME Odd # {} PROVE FALSE
  <2>1. PICK i \in Odd : \A j \in Odd : i <= j
    <3>1. Odd \in SUBSET Nat
      OBVIOUS
    <3> QED BY <1>4, <3>1, LeastNatural
  <2>2. i \in 0 .. k /\ f[o + i] # f[o] + e[i]
    OBVIOUS
  <2>3. o \in 0 .. n
    OBVIOUS
  <2>4. i # 0
    BY <1>1, <1>3, <2>2, <2>3
  <2>5. PICK j \in 0 .. k : j = i - 1 /\ j \notin Odd
    BY <2>1, <2>2, <2>4
  <2>6. f[o + j] = f[o] + e[j]
    BY <2>5
  <2>7. PICK p \in 1 .. n : p = o + i /\ p - 1 = o + j
    BY <2>2, <2>4, <2>5
  <2>8. f[p] = f[o + j] + g[p] /\ g[p] = h[i] /\ e[i] = e[j] + h[i]
    BY <1>1, <1>3, <2>2, <2>4, <2>5, <2>7 DEF IsPart
  <2>9. f[o] \in Nat /\ e[j] \in Nat /\ h[i] \in Nat
    BY <1>1, <1>2, <1>3, <2>2, <2>3, <2>4, <2>5
  <2> QED BY <2>2, <2>6, <2>7, <2>8, <2>9
<1> QED BY <1>4
=============================================================================

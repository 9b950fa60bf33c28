---------------------------- MODULE SumTheorems ----------------------------
(***************************************************************************)
(* Sums over finite sets: what MapThenSumSet and FoldSeq compute when they *)
(* add integers up.  The provers have no induction over operators, so each *)
(* induction here is on a set of counterexamples, which has a smallest     *)
(* member.                                                                 *)
(***************************************************************************)
EXTENDS Integers, FiniteSets, FiniteSetTheorems, NaturalsInduction,
        WellFoundedInduction, TLAPS

First(s) == CHOOSE x \in s : TRUE

\* f has an integer for every member of S.
Ints(f, S) == \A x \in S : f[x] \in Int

\* h adds f up over the subsets of S, taking their members one by one.
SumFcn(f, S, h) ==
  h = [s \in SUBSET S |-> IF s = {} THEN 0 ELSE f[First(s)] + h[s \ {First(s)}]]

\* The sum of f over S.
Total(f, S) == (CHOOSE h : SumFcn(f, S, h))[S]

\* The same, as far as the subsets with at most n members.
SumUpTo(f, S, h, n) ==
  /\ h \in [SUBSET S -> Int]
  /\ \A s \in SUBSET S : Cardinality(s) <= n =>
       h[s] = IF s = {} THEN 0 ELSE f[First(s)] + h[s \ {First(s)}]

\* h adds f up whatever the order in which members are taken.
Sums(f, S, h) ==
  /\ h \in [SUBSET S -> Int] /\ h[{}] = 0
  /\ \A s \in SUBSET S : \A x \in s : h[s] = f[x] + h[s \ {x}]

-----------------------------------------------------------------------------
LEMMA NatMin ==
  ASSUME NEW B, B \subseteq Nat, B # {}
  PROVE  \E n \in B : \A m \in 0 .. n - 1 : m \notin B
  <1>1. IsWellFoundedOn(OpToRel(<, Nat), Nat)
    BY NatLessThanWellFounded
  <1>2. PICK n \in B : \A m \in B : ~ (<<m, n>> \in OpToRel(<, Nat))
    BY <1>1, WFMin
  <1>3. \A m \in 0 .. n - 1 : <<m, n>> \in OpToRel(<, Nat)
    BY <1>2 DEF OpToRel
  <1>4. QED
    BY <1>2, <1>3

\* Among subsets of a finite set some have the fewest members.
LEMMA SubsetMin ==
  ASSUME NEW S, IsFiniteSet(S), NEW B, B \subseteq SUBSET S, B # {}
  PROVE  \E s \in B : \A x \in s : s \ {x} \notin B
  <1>1. \A s \in SUBSET S : IsFiniteSet(s) /\ Cardinality(s) \in Nat
    BY FS_Subset, FS_CardinalityType
  <1> DEFINE C == {Cardinality(s) : s \in B}
  <1>2. C \subseteq Nat /\ C # {}
    BY <1>1
  <1>3. PICK n \in C : \A m \in 0 .. n - 1 : m \notin C
    BY <1>2, NatMin
  <1>4. PICK s \in B : Cardinality(s) = n
    BY <1>3
  <1>5. ASSUME NEW x \in s, s \ {x} \in B PROVE FALSE
    <2>1. Cardinality(s \ {x}) = n - 1 /\ Cardinality(s \ {x}) \in C
      BY <1>1, <1>4, <1>5, FS_RemoveElement
    <2>2. n - 1 \in 0 .. n - 1
      BY <1>1, <1>4, <1>5, <2>1
    <2>3. QED
      BY <1>3, <2>1, <2>2
  <1>6. QED
    BY <1>5

LEMMA FirstIn == ASSUME NEW s, s # {} PROVE First(s) \in s
  BY DEF First

LEMMA SmallerCard ==
  ASSUME NEW S, IsFiniteSet(S), NEW s \in SUBSET S, s # {}
  PROVE  /\ s \ {First(s)} \in SUBSET S /\ First(s) \in S
         /\ Cardinality(s) \in Nat
         /\ Cardinality(s \ {First(s)}) = Cardinality(s) - 1
  <1>1. IsFiniteSet(s)
    BY FS_Subset
  <1>2. First(s) \in s
    BY FirstIn
  <1>3. QED
    BY <1>1, <1>2, FS_RemoveElement, FS_CardinalityType

-----------------------------------------------------------------------------
(* There is a function that adds up                                        *)

LEMMA SumStep ==
  ASSUME NEW S, IsFiniteSet(S), NEW f, Ints(f, S), NEW n \in Nat,
         NEW h, SumUpTo(f, S, h, n)
  PROVE  \E g : SumUpTo(f, S, g, n + 1)
  <1> DEFINE val(s) == f[First(s)] + h[s \ {First(s)}]
             g == [s \in SUBSET S |-> IF Cardinality(s) <= n THEN h[s] ELSE
                                      IF s = {} THEN 0 ELSE val(s)]
  <1>1. \A s \in SUBSET S : s # {} => val(s) \in Int
    <2> SUFFICES ASSUME NEW s \in SUBSET S, s # {} PROVE val(s) \in Int
      OBVIOUS
    <2>1. First(s) \in S /\ s \ {First(s)} \in SUBSET S
      BY SmallerCard
    <2>2. QED
      BY <2>1 DEF SumUpTo, Ints
  <1>2. g \in [SUBSET S -> Int]
    BY <1>1 DEF SumUpTo
  <1>3. ASSUME NEW s \in SUBSET S, Cardinality(s) <= n + 1
        PROVE  g[s] = IF s = {} THEN 0 ELSE f[First(s)] + g[s \ {First(s)}]
    <2>1. CASE s = {}
      BY <2>1 DEF SumUpTo
    <2>2. CASE s # {}
      <3>1. g[s] = f[First(s)] + h[s \ {First(s)}]
        BY <2>2 DEF SumUpTo
      <3>2. g[s \ {First(s)}] = h[s \ {First(s)}]
        <4>1. Cardinality(s \ {First(s)}) <= n /\ s \ {First(s)} \in SUBSET S
          BY <1>3, <2>2, SmallerCard
        <4>2. QED
          BY <4>1
      <3>3. QED
        BY <2>2, <3>1, <3>2
    <2>3. QED
      BY <2>1, <2>2
  <1>4. SumUpTo(f, S, g, n + 1)
    BY <1>2, <1>3 DEF SumUpTo
  <1>5. QED
    BY <1>4

LEMMA SumUpToExists ==
  ASSUME NEW S, IsFiniteSet(S), NEW f, Ints(f, S), NEW n \in Nat
  PROVE  \E h : SumUpTo(f, S, h, n)
  <1> DEFINE B == {m \in Nat : ~ \E h : SumUpTo(f, S, h, m)}
  <1>1. 0 \notin B
    <2> DEFINE z == [s \in SUBSET S |-> 0]
    <2>1. ASSUME NEW s \in SUBSET S, Cardinality(s) <= 0 PROVE s = {}
      <3>1. IsFiniteSet(s) /\ Cardinality(s) \in Nat
        BY FS_Subset, FS_CardinalityType
      <3>2. Cardinality(s) = 0
        BY <2>1, <3>1
      <3>3. QED
        BY <3>1, <3>2, FS_EmptySet
    <2>2. SumUpTo(f, S, z, 0)
      BY <2>1 DEF SumUpTo
    <2>3. QED
      BY <2>2
  <1>2. ASSUME B # {} PROVE FALSE
    <2>1. PICK m \in B : \A l \in 0 .. m - 1 : l \notin B
      BY <1>2, NatMin
    <2>2. m # 0 /\ m \in Nat
      BY <1>1
    <2>3. m - 1 \in Nat /\ m - 1 \notin B
      BY <2>1, <2>2
    <2>4. PICK h : SumUpTo(f, S, h, m - 1)
      BY <2>3
    <2>5. \E g : SumUpTo(f, S, g, m - 1 + 1)
      BY <2>3, <2>4, SumStep
    <2>6. m - 1 + 1 = m
      BY <2>2
    <2>7. QED
      BY <2>1, <2>5, <2>6
  <1>3. QED
    BY <1>2

LEMMA SumFcnExists ==
  ASSUME NEW S, IsFiniteSet(S), NEW f, Ints(f, S)
  PROVE  \E h : SumFcn(f, S, h)
  <1>1. Cardinality(S) \in Nat
    BY FS_CardinalityType
  <1>2. PICK h : SumUpTo(f, S, h, Cardinality(S))
    BY <1>1, SumUpToExists
  <1>3. \A s \in SUBSET S : Cardinality(s) <= Cardinality(S)
    BY FS_Subset
  <1>4. SumFcn(f, S, h)
    BY <1>2, <1>3 DEF SumUpTo, SumFcn
  <1>5. QED
    BY <1>4

-----------------------------------------------------------------------------
(* The order does not matter                                               *)

LEMMA SumFcnInt ==
  ASSUME NEW S, IsFiniteSet(S), NEW f, Ints(f, S), NEW h, SumFcn(f, S, h)
  PROVE  h \in [SUBSET S -> Int]
  <1> DEFINE B == {s \in SUBSET S : h[s] \notin Int}
  <1>1. ASSUME B # {} PROVE FALSE
    <2>1. PICK s \in B : \A x \in s : s \ {x} \notin B
      BY <1>1, SubsetMin
    <2>2. h[s] = IF s = {} THEN 0 ELSE f[First(s)] + h[s \ {First(s)}]
      BY <2>1 DEF SumFcn
    <2>3. s # {}
      BY <2>1, <2>2
    <2>4. First(s) \in s /\ s \ {First(s)} \in SUBSET S
      BY <2>1, <2>3, FirstIn
    <2>5. h[s \ {First(s)}] \in Int
      BY <2>1, <2>4
    <2>6. QED
      BY <2>1, <2>2, <2>3, <2>4, <2>5 DEF Ints
  <1>2. DOMAIN h = SUBSET S /\ h = [s \in DOMAIN h |-> h[s]]
    BY DEF SumFcn
  <1>3. \A s \in SUBSET S : h[s] \in Int
    BY <1>1
  <1>4. QED
    BY <1>2, <1>3

LEMMA SumFcnSums ==
  ASSUME NEW S, IsFiniteSet(S), NEW f, Ints(f, S), NEW h, SumFcn(f, S, h)
  PROVE  Sums(f, S, h)
  <1>1. h \in [SUBSET S -> Int]
    BY SumFcnInt
  <1>2. h[{}] = 0
    BY DEF SumFcn
  <1>3. \A s \in SUBSET S : s # {} => h[s] = f[First(s)] + h[s \ {First(s)}]
    BY DEF SumFcn
  <1> DEFINE B == {s \in SUBSET S : \E x \in s : h[s] # f[x] + h[s \ {x}]}
  <1>4. ASSUME B # {} PROVE FALSE
    <2>1. PICK s \in B : \A x \in s : s \ {x} \notin B
      BY <1>4, SubsetMin
    <2>2. PICK x \in s : h[s] # f[x] + h[s \ {x}]
      BY <2>1
    <2>3. PICK y : y = First(s)
      OBVIOUS
    <2>4. y \in s /\ h[s] = f[y] + h[s \ {y}] /\ s \in SUBSET S
      BY <1>3, <2>1, <2>2, <2>3, FirstIn
    <2>5. x # y
      BY <2>2, <2>4
    <2>6. h[s \ {y}] = f[x] + h[(s \ {y}) \ {x}]
      BY <2>1, <2>2, <2>4, <2>5
    <2>7. h[s \ {x}] = f[y] + h[(s \ {x}) \ {y}]
      BY <2>1, <2>2, <2>4, <2>5
    <2>8. (s \ {x}) \ {y} = (s \ {y}) \ {x}
      OBVIOUS
    <2>9. f[x] \in Int /\ f[y] \in Int
      BY <2>2, <2>4 DEF Ints
    <2>10. PICK t : t = (s \ {y}) \ {x}
      OBVIOUS
    <2>11. h[t] \in Int
      BY <1>1, <2>4, <2>10
    <2>12. h[s] = f[y] + (f[x] + h[t]) /\ h[s \ {x}] = f[y] + h[t]
      BY <2>4, <2>6, <2>7, <2>8, <2>10
    <2>13. f[y] + (f[x] + h[t]) = f[x] + (f[y] + h[t])
      BY <2>9, <2>11
    <2>14. QED
      BY <2>2, <2>12, <2>13
  <1>5. QED
    BY <1>1, <1>2, <1>4 DEF Sums

\* Two functions that differ at p only.
LEMMA SumsCompare ==
  ASSUME NEW S, IsFiniteSet(S), NEW f, Ints(f, S), NEW g, Ints(g, S), NEW p,
         \A x \in S \ {p} : f[x] = g[x],
         NEW h, Sums(f, S, h), NEW k, Sums(g, S, k)
  PROVE  \A s \in SUBSET S : k[s] = IF p \in s THEN h[s] + g[p] - f[p] ELSE h[s]
  <1> DEFINE Good(s) == k[s] = IF p \in s THEN h[s] + g[p] - f[p] ELSE h[s]
             B == {s \in SUBSET S : ~Good(s)}
  <1>1. ASSUME B # {} PROVE FALSE
    <2>1. PICK s \in B : \A x \in s : s \ {x} \notin B
      BY <1>1, SubsetMin
    <2>2. s # {}
      BY <2>1 DEF Sums
    <2>3. CASE p \in s
      <3>1. Good(s \ {p})
        BY <2>1, <2>3
      <3>2. k[s \ {p}] = h[s \ {p}] /\ h[s \ {p}] \in Int
        BY <2>1, <3>1 DEF Sums
      <3>3. k[s] = g[p] + k[s \ {p}] /\ h[s] = f[p] + h[s \ {p}]
        BY <2>1, <2>3 DEF Sums
      <3>4. f[p] \in Int /\ g[p] \in Int
        BY <2>1, <2>3 DEF Ints
      <3>5. QED
        BY <2>1, <2>3, <3>2, <3>3, <3>4
    <2>4. CASE p \notin s
      <3>1. PICK x \in s : TRUE
        BY <2>2
      <3>2. Good(s \ {x})
        BY <2>1, <3>1
      <3>3. k[s \ {x}] = h[s \ {x}] /\ f[x] = g[x]
        BY <2>1, <2>4, <3>1, <3>2
      <3>4. k[s] = g[x] + k[s \ {x}] /\ h[s] = f[x] + h[s \ {x}]
        BY <2>1, <3>1 DEF Sums
      <3>5. QED
        BY <2>1, <2>4, <3>3, <3>4
    <2>5. QED
      BY <2>3, <2>4
  <1>2. QED
    BY <1>1

-----------------------------------------------------------------------------
(* The sum                                                                 *)

\* The sum is what any such function gives.
LEMMA TotalSums ==
  ASSUME NEW S, IsFiniteSet(S), NEW f, Ints(f, S)
  PROVE  \E h : Sums(f, S, h) /\ Total(f, S) = h[S]
  <1>1. PICK h : h = CHOOSE g : SumFcn(f, S, g)
    OBVIOUS
  <1>2. SumFcn(f, S, h)
    BY <1>1, SumFcnExists
  <1>3. Total(f, S) = h[S]
    BY <1>1 DEF Total
  <1>4. QED
    BY <1>2, <1>3, SumFcnSums

LEMMA TotalSub ==
  ASSUME NEW S, IsFiniteSet(S), NEW f, Ints(f, S), NEW h, Sums(f, S, h),
         NEW T \in SUBSET S
  PROVE  Total(f, T) = h[T]
  <1>1. IsFiniteSet(T) /\ Ints(f, T)
    BY FS_Subset DEF Ints
  <1>2. PICK k : Sums(f, T, k) /\ Total(f, T) = k[T]
    BY <1>1, TotalSums
  <1>3. PICK r : r = [s \in SUBSET T |-> h[s]]
    OBVIOUS
  <1>4. Sums(f, T, r)
    <2>1. r \in [SUBSET T -> Int] /\ r[{}] = 0
      BY <1>3 DEF Sums
    <2>2. ASSUME NEW s \in SUBSET T, NEW x \in s PROVE r[s] = f[x] + r[s \ {x}]
      BY <1>3 DEF Sums
    <2>3. QED
      BY <2>1, <2>2 DEF Sums
  <1>5. k[T] = IF 0 \in T THEN r[T] + f[0] - f[0] ELSE r[T]
    BY <1>1, <1>2, <1>4, SumsCompare
  <1>6. k[T] = r[T]
    BY <1>1, <1>4, <1>5 DEF Ints, Sums
  <1>7. QED
    BY <1>2, <1>3, <1>6

\* The sum is an integer, whatever function it is read from.
LEMMA TotalType ==
  ASSUME NEW S, IsFiniteSet(S), NEW f, Ints(f, S)
  PROVE  Total(f, S) \in Int
  <1>1. PICK h : Sums(f, S, h) /\ Total(f, S) = h[S]
    BY TotalSums
  <1>2. QED
    BY <1>1 DEF Sums

LEMMA TotalOf ==
  ASSUME NEW S, IsFiniteSet(S), NEW f, Ints(f, S), NEW h, SumFcn(f, S, h)
  PROVE  Total(f, S) = h[S]
  BY SumFcnSums, TotalSub

\* Taking one member out.
LEMMA TotalRemove ==
  ASSUME NEW S, IsFiniteSet(S), NEW f, Ints(f, S), NEW x \in S
  PROVE  Total(f, S) = f[x] + Total(f, S \ {x})
  <1>1. PICK h : Sums(f, S, h) /\ Total(f, S) = h[S]
    BY TotalSums
  <1>2. Total(f, S \ {x}) = h[S \ {x}]
    BY <1>1, TotalSub
  <1>3. QED
    BY <1>1, <1>2 DEF Sums

\* Nothing to add up, or nothing but zeros.
LEMMA TotalZero ==
  ASSUME NEW S, IsFiniteSet(S), NEW f, \A x \in S : f[x] = 0
  PROVE  Total(f, S) = 0
  <1>1. Ints(f, S)
    BY DEF Ints
  <1>2. PICK h : Sums(f, S, h) /\ Total(f, S) = h[S]
    BY <1>1, TotalSums
  <1> DEFINE B == {s \in SUBSET S : h[s] # 0}
  <1>3. ASSUME B # {} PROVE FALSE
    <2>1. PICK s \in B : \A x \in s : s \ {x} \notin B
      BY <1>3, SubsetMin
    <2>2. PICK x \in s : TRUE
      BY <1>2, <2>1 DEF Sums
    <2>3. h[s] = f[x] + h[s \ {x}] /\ h[s \ {x}] = 0
      BY <1>2, <2>1, <2>2 DEF Sums
    <2>4. QED
      BY <2>1, <2>2, <2>3
  <1>4. QED
    BY <1>2, <1>3

\* Changing one member changes the sum by as much.
LEMMA TotalChange ==
  ASSUME NEW S, IsFiniteSet(S), NEW f, Ints(f, S), NEW g, Ints(g, S), NEW p \in S,
         \A x \in S \ {p} : f[x] = g[x]
  PROVE  Total(g, S) = Total(f, S) + g[p] - f[p]
  <1>1. PICK h : Sums(f, S, h) /\ Total(f, S) = h[S]
    BY TotalSums
  <1>2. PICK k : Sums(g, S, k) /\ Total(g, S) = k[S]
    BY TotalSums
  <1>3. k[S] = h[S] + g[p] - f[p]
    BY <1>1, <1>2, SumsCompare
  <1>4. QED
    BY <1>1, <1>2, <1>3

\* The sum depends on nothing but the values on S.
LEMMA TotalSame ==
  ASSUME NEW S, IsFiniteSet(S), NEW f, Ints(f, S), NEW g, \A x \in S : f[x] = g[x]
  PROVE  Total(g, S) = Total(f, S)
  <1>1. Ints(g, S)
    BY DEF Ints
  <1>2. CASE S = {}
    BY <1>2, TotalZero
  <1>3. CASE S # {}
    <2>1. PICK p \in S : TRUE
      BY <1>3
    <2>2. Total(g, S) = Total(f, S) + g[p] - f[p]
      BY <1>1, <2>1, TotalChange
    <2>3. Total(f, S) \in Int /\ f[p] \in Int /\ g[p] = f[p]
      BY <2>1, TotalType DEF Ints
    <2>4. QED
      BY <2>2, <2>3
  <1>4. QED
    BY <1>2, <1>3

-----------------------------------------------------------------------------
(* Sums along a sequence                                                   *)

\* One member more at the end.
LEMMA TotalLast ==
  ASSUME NEW n \in Nat, NEW f, Ints(f, 1 .. n + 1)
  PROVE  Total(f, 1 .. n + 1) = Total(f, 1 .. n) + f[n + 1]
  <1>1. IsFiniteSet(1 .. n + 1) /\ n + 1 \in 1 .. n + 1
    BY FS_Interval
  <1>2. (1 .. n + 1) \ {n + 1} = 1 .. n
    OBVIOUS
  <1>3. Total(f, 1 .. n + 1) = f[n + 1] + Total(f, 1 .. n)
    BY <1>1, <1>2, TotalRemove
  <1>4. Total(f, 1 .. n) \in Int /\ f[n + 1] \in Int
    <2>1. IsFiniteSet(1 .. n) /\ Ints(f, 1 .. n)
      BY FS_Interval DEF Ints
    <2>2. QED
      BY <1>1, <2>1, TotalType DEF Ints
  <1>5. QED
    BY <1>3, <1>4

\* Closing the gap that member j leaves.
LEMMA TotalCut ==
  ASSUME NEW n \in Nat, NEW f, Ints(f, 1 .. n + 1), NEW j \in 1 .. n + 1,
         NEW g, \A x \in 1 .. n : g[x] = IF x < j THEN f[x] ELSE f[x + 1]
  PROVE  Total(g, 1 .. n) = Total(f, 1 .. n + 1) - f[j]
  <1>1. Ints(g, 1 .. n)
    BY DEF Ints
  <1>2. \A m \in 0 .. n : /\ Total(f, 1 .. m) \in Int /\ Total(f, 1 .. m + 1) \in Int
                         /\ Total(g, 1 .. m) \in Int
    <2> SUFFICES ASSUME NEW m \in 0 .. n
                 PROVE  /\ Total(f, 1 .. m) \in Int /\ Total(f, 1 .. m + 1) \in Int
                        /\ Total(g, 1 .. m) \in Int
      OBVIOUS
    <2>1. Ints(f, 1 .. m) /\ Ints(f, 1 .. m + 1) /\ Ints(g, 1 .. m)
      BY <1>1 DEF Ints
    <2>2. IsFiniteSet(1 .. m) /\ IsFiniteSet(1 .. m + 1)
      BY FS_Interval
    <2>3. QED
      BY <2>1, <2>2, TotalType
  <1> DEFINE Good(m) == Total(g, 1 .. m) = IF m < j THEN Total(f, 1 .. m)
                                           ELSE Total(f, 1 .. m + 1) - f[j]
             B == {m \in 0 .. n : ~Good(m)}
  <1>3. \A m \in 0 .. n : m > 0 =>
          /\ Total(f, 1 .. m + 1) = Total(f, 1 .. m) + f[m + 1]
          /\ Total(f, 1 .. m) = Total(f, 1 .. m - 1) + f[m]
          /\ Total(g, 1 .. m) = Total(g, 1 .. m - 1) + g[m]
    <2> SUFFICES ASSUME NEW m \in 0 .. n, m > 0
                 PROVE  /\ Total(f, 1 .. m + 1) = Total(f, 1 .. m) + f[m + 1]
                        /\ Total(f, 1 .. m) = Total(f, 1 .. m - 1) + f[m]
                        /\ Total(g, 1 .. m) = Total(g, 1 .. m - 1) + g[m]
      OBVIOUS
    <2>1. PICK l \in Nat : l = m - 1
      OBVIOUS
    <2>2. m \in Nat /\ l + 1 = m
      BY <2>1
    <2>3. Ints(f, 1 .. m + 1) /\ Ints(f, 1 .. l + 1) /\ Ints(g, 1 .. l + 1)
      BY <1>1, <2>2 DEF Ints
    <2>4. Total(f, 1 .. m + 1) = Total(f, 1 .. m) + f[m + 1]
      BY <2>2, <2>3, TotalLast
    <2>5. /\ Total(f, 1 .. l + 1) = Total(f, 1 .. l) + f[l + 1]
          /\ Total(g, 1 .. l + 1) = Total(g, 1 .. l) + g[l + 1]
      BY <2>3, TotalLast
    <2>6. QED
      BY <2>1, <2>2, <2>4, <2>5
  <1>4. ASSUME B # {} PROVE FALSE
    <2>1. PICK m \in B : \A l \in 0 .. m - 1 : l \notin B
      <3>1. B \subseteq Nat
        OBVIOUS
      <3> HIDE DEF B
      <3>2. QED
        BY <1>4, <3>1, NatMin
    <2>2. m # 0
      <3>1. Total(f, 1 .. 0) = 0 /\ Total(g, 1 .. 0) = 0
        BY TotalZero, FS_EmptySet
      <3>2. 0 < j
        OBVIOUS
      <3>3. QED
        BY <2>1, <3>1, <3>2
    <2>3. m \in 1 .. n /\ Good(m - 1)
      BY <2>1, <2>2
    <2>4. f[m] \in Int /\ f[m + 1] \in Int /\ f[j] \in Int
      BY <2>3 DEF Ints
    <2>5. g[m] = IF m < j THEN f[m] ELSE f[m + 1]
      BY <2>3
    <2>6. Good(m)
      <3> DEFINE a == Total(f, 1 .. m - 1)
                 b == Total(f, 1 .. m)
                 c == Total(f, 1 .. m + 1)
                 d == Total(g, 1 .. m - 1)
                 e == Total(g, 1 .. m)
      <3>1. c = b + f[m + 1] /\ b = a + f[m] /\ e = d + g[m]
        BY <1>3, <2>3
      <3>2. d = IF m - 1 < j THEN a ELSE Total(f, 1 .. m - 1 + 1) - f[j]
        BY <2>3
      <3>3. m - 1 + 1 = m
        BY <2>3
      <3>4. d = IF m - 1 < j THEN a ELSE b - f[j]
        BY <3>2, <3>3
      <3>5. a \in Int /\ b \in Int
        <4>1. m \in 0 .. n /\ m - 1 \in 0 .. n
          BY <2>3
        <4>2. QED
          BY <1>2, <4>1
      <3> SUFFICES e = IF m < j THEN b ELSE c - f[j]
        OBVIOUS
      <3> HIDE DEF a, b, c, d, e
      <3>6. CASE m < j
        BY <2>3, <2>4, <2>5, <3>1, <3>4, <3>5, <3>6
      <3>7. CASE m = j
        <4>1. d = a /\ g[m] = f[m + 1] /\ f[j] = f[m] /\ ~(m < j)
          BY <2>3, <2>5, <3>4, <3>7
        <4>2. e = a + f[m + 1] /\ c = a + f[m] + f[m + 1]
          BY <3>1, <4>1
        <4>3. QED
          BY <2>4, <3>5, <4>1, <4>2, SMTT(30)
      <3>8. CASE m > j
        <4>1. d = b - f[j] /\ g[m] = f[m + 1]
          BY <2>3, <2>5, <3>4, <3>8
        <4>2. e = b - f[j] + f[m + 1] /\ c = b + f[m + 1] /\ ~(m < j)
          BY <2>3, <3>1, <3>8, <4>1
        <4>3. QED
          BY <2>4, <3>5, <4>2
      <3>9. QED
        BY <2>3, <3>6, <3>7, <3>8
    <2>7. QED
      BY <2>1, <2>6
  <1>5. Good(n)
    BY <1>4
  <1>6. CASE n < j
    <2>1. j = n + 1
      BY <1>6
    <2>2. Total(f, 1 .. n + 1) = Total(f, 1 .. n) + f[n + 1]
      BY TotalLast
    <2>3. f[n + 1] \in Int /\ Total(f, 1 .. n) \in Int
      BY <1>2 DEF Ints
    <2>4. QED
      BY <1>5, <1>6, <2>1, <2>2, <2>3
  <1>7. QED
    BY <1>5, <1>6

\* A sum of naturals is one.
LEMMA TotalNat ==
  ASSUME NEW S, IsFiniteSet(S), NEW f, \A x \in S : f[x] \in Nat
  PROVE  Total(f, S) \in Nat
<1>1. Ints(f, S)
  BY DEF Ints
<1>2. PICK h : Sums(f, S, h) /\ Total(f, S) = h[S]
  BY <1>1, TotalSums
<1> DEFINE B == {s \in SUBSET S : h[s] \notin Nat}
<1>3. B = {}
  <2> SUFFICES ASSUME B # {} PROVE FALSE
    OBVIOUS
  <2>1. PICK s \in B : \A x \in s : s \ {x} \notin B
    <3>1. B \subseteq SUBSET S
      OBVIOUS
    <3> HIDE DEF B
    <3> QED
      BY <3>1, SubsetMin
  <2>2. h[{}] = 0
    BY <1>2 DEF Sums
  <2>3. PICK x : x \in s
    <3>1. h[s] \notin Nat
      BY <2>1
    <3>2. s # {}
      BY <2>2, <3>1
    <3> QED
      BY <3>2
  <2>4. s \ {x} \in SUBSET S /\ h[s \ {x}] \in Nat /\ x \in S
    BY <2>1, <2>3
  <2>5. h[s] = f[x] + h[s \ {x}]
    BY <1>2, <2>1, <2>3 DEF Sums
  <2>6. h[s] \in Nat
    BY <2>4, <2>5
  <2> QED
    BY <2>1, <2>6
<1>4. h[S] \in Nat
  BY <1>3
<1> QED
  BY <1>2, <1>4
=============================================================================

----------------------------- MODULE FoldLemmas ------------------------------
(***************************************************************************)
(* Induction, and what folds, sums and flattened sequences come to: what   *)
(* the proofs about every module with one of these in it rest on.          *)
(*                                                                         *)
(* What is to be proved of every number, or of every subset, is given as   *)
(* the set of those it holds for.                                          *)
(***************************************************************************)
EXTENDS Integers, SequencesExt, FiniteSetTheorems, SequenceTheorems,
        WellFoundedInduction, TLAPS

\* Induction over the natural numbers.
LEMMA Induction ==
  ASSUME NEW Good, 0 \in Good, \A k \in Nat : k \in Good => k + 1 \in Good
  PROVE  \A k \in Nat : k \in Good
<1> DEFINE Bad == Nat \ Good
           R == OpToRel(<, Nat)
<1> SUFFICES ASSUME Bad # {} PROVE FALSE
  OBVIOUS
<1>1. IsWellFoundedOn(R, Nat)
  BY NatLessThanWellFounded
<1>2. Bad \subseteq Nat
  OBVIOUS
<1> HIDE DEF Bad
<1>3. PICK k \in Bad : \A l \in Bad : ~ (<<l, k>> \in R)
  BY <1>1, <1>2, WFMin
<1>4. k \in Nat /\ k # 0
  BY <1>3 DEF Bad
<1>41. k - 1 \in Nat /\ k - 1 < k /\ (k - 1) + 1 = k
  BY <1>4
<1>5. <<k - 1, k>> \in R
  BY <1>4, <1>41 DEF OpToRel
<1>6. k - 1 \in Good
  BY <1>3, <1>41, <1>5 DEF Bad
<1>7. k \in Good
  BY <1>41, <1>6
<1> QED BY <1>3, <1>7 DEF Bad

\* Induction over the subsets of a finite set.
LEMMA SubsetInduction ==
  ASSUME NEW S, IsFiniteSet(S), NEW Good, {} \in Good,
         \A s \in SUBSET S : s # {} /\ (\A x \in s : s \ {x} \in Good) => s \in Good
  PROVE  \A s \in SUBSET S : s \in Good
<1> DEFINE Upto == {k \in Nat : \A s \in SUBSET S : Cardinality(s) <= k => s \in Good}
<1>1. \A s \in SUBSET S : IsFiniteSet(s) /\ Cardinality(s) \in Nat
  BY FS_Subset, FS_CardinalityType
<1>2. 0 \in Upto
  <2>1. ASSUME NEW s \in SUBSET S, Cardinality(s) <= 0 PROVE s \in Good
    <3>1. Cardinality(s) = 0
      BY <1>1, <2>1
    <3>2. s = {}
      BY <1>1, <3>1, FS_EmptySet
    <3> QED BY <3>2
  <2> QED BY <2>1
<1>3. ASSUME NEW k \in Nat, k \in Upto PROVE k + 1 \in Upto
  <2>1. ASSUME NEW s \in SUBSET S, Cardinality(s) <= k + 1 PROVE s \in Good
    <3>1. CASE s = {}
      BY <3>1
    <3>2. CASE s # {}
      <4>1. ASSUME NEW x \in s PROVE s \ {x} \in Good
        <5>1. s \ {x} \in SUBSET S /\ Cardinality(s \ {x}) = Cardinality(s) - 1
          BY <1>1, FS_RemoveElement
        <5>2. Cardinality(s \ {x}) <= k
          BY <1>1, <2>1, <5>1
        <5> QED BY <1>3, <5>1, <5>2
      <4> QED BY <3>2, <4>1
    <3> QED BY <3>1, <3>2
  <2> QED BY <2>1
<1> HIDE DEF Upto
<1>4. \A k \in Nat : k \in Upto
  BY <1>2, <1>3, Induction
<1> QED BY <1>1, <1>4 DEF Upto

-----------------------------------------------------------------------------
(* A recursion that takes one element after another out of a finite set.   *)

\* g is what such a recursion defines: it starts from base at the empty set,
\* takes C[s] out of s, and D is its step.
Recurs(g, S, base, C, D) ==
  g = [s \in SUBSET S |-> IF s = {} THEN base ELSE D[<<C[s], g[s \ {C[s]}]>>]]

\* There is one: by induction over the size of the subsets it is defined for.
LEMMA RecursionExists ==
  ASSUME NEW S, IsFiniteSet(S), NEW V, NEW base \in V,
         NEW C, \A s \in SUBSET S : s # {} => C[s] \in s,
         NEW D \in [S \X V -> V]
  PROVE  \E g \in [SUBSET S -> V] : Recurs(g, S, base, C, D)
<1> DEFINE Small(k) == {s \in SUBSET S : Cardinality(s) <= k}
           Solves(g, k) == \A s \in Small(k) :
                             g[s] = IF s = {} THEN base ELSE D[<<C[s], g[s \ {C[s]}]>>]
           Good == {k \in Nat : \E g \in [Small(k) -> V] : Solves(g, k)}
<1>1. \A s \in SUBSET S : IsFiniteSet(s) /\ Cardinality(s) \in Nat
  BY FS_Subset, FS_CardinalityType
<1>2. \A s \in SUBSET S : s # {} =>
        /\ C[s] \in S /\ s \ {C[s]} \in SUBSET S
        /\ Cardinality(s \ {C[s]}) = Cardinality(s) - 1
  BY <1>1, FS_RemoveElement
<1>3. 0 \in Good
  <2> DEFINE g == [s \in Small(0) |-> base]
  <2>1. \A s \in Small(0) : s = {}
    BY <1>1, FS_EmptySet
  <2>2. g \in [Small(0) -> V] /\ Solves(g, 0)
    BY <2>1
  <2> QED BY <2>2
<1>4. ASSUME NEW k \in Nat, k \in Good PROVE k + 1 \in Good
  <2>1. PICK g \in [Small(k) -> V] : Solves(g, k)
    BY <1>4
  <2> DEFINE h == [s \in Small(k + 1) |-> IF s = {} THEN base ELSE D[<<C[s], g[s \ {C[s]}]>>]]
  <2>2. \A s \in Small(k + 1) : s # {} => s \ {C[s]} \in Small(k) /\ C[s] \in S
    BY <1>1, <1>2
  <2>3. h \in [Small(k + 1) -> V]
    BY <2>2
  <2>4. \A s \in Small(k) : h[s] = g[s]
    <3>1. Small(k) \subseteq Small(k + 1)
      BY <1>1
    <3> QED BY <2>1, <3>1
  <2>5. Solves(h, k + 1)
    BY <2>2, <2>4
  <2> HIDE DEF h
  <2>6. \E e \in [Small(k + 1) -> V] : Solves(e, k + 1)
    BY <2>3, <2>5
  <2>7. k + 1 \in Nat
    OBVIOUS
  <2> QED BY <2>6, <2>7, Zenon
<1> HIDE DEF Good
<1>5. Cardinality(S) \in Good
  BY <1>1, <1>3, <1>4, Induction
<1>6. Small(Cardinality(S)) = SUBSET S
  BY <1>1, FS_Subset
<1>7. PICK g \in [SUBSET S -> V] :
        \A s \in SUBSET S : g[s] = IF s = {} THEN base ELSE D[<<C[s], g[s \ {C[s]}]>>]
  BY <1>5, <1>6 DEF Good
<1>8. Recurs(g, S, base, C, D)
  BY <1>7 DEF Recurs
<1> QED BY <1>8

-----------------------------------------------------------------------------
(* Sums.                                                                   *)

Pick(s) == CHOOSE x \in s : TRUE

\* The function SumFunctionOnSet adds up with.
Adds(g, f, S) ==
  g = [s \in SUBSET S |-> IF s = {} THEN 0 ELSE f[Pick(s)] + g[s \ {Pick(s)}]]

LEMMA SumIsAdded ==
  ASSUME NEW f, NEW S
  PROVE  SumFunctionOnSet(f, S) = (CHOOSE g : Adds(g, f, S))[S]
BY DEF SumFunctionOnSet, FoldFunctionOnSet, MapThenFoldSet, Adds, Pick

LEMMA AddingExists ==
  ASSUME NEW S, IsFiniteSet(S), NEW f, \A x \in S : f[x] \in Int
  PROVE  \E g : Adds(g, f, S)
<1> DEFINE C == [s \in SUBSET S |-> Pick(s)]
           D == [p \in S \X Int |-> f[p[1]] + p[2]]
<1>1. \A s \in SUBSET S : s # {} => C[s] \in s
  <2>1. ASSUME NEW s \in SUBSET S, s # {} PROVE Pick(s) \in s
    BY <2>1 DEF Pick
  <2> QED BY <2>1
<1>2. D \in [S \X Int -> Int]
  OBVIOUS
<1> HIDE DEF C, D
<1>3. PICK g \in [SUBSET S -> Int] : Recurs(g, S, 0, C, D)
  <2>1. 0 \in Int
    OBVIOUS
  <2> QED BY <1>1, <1>2, <2>1, RecursionExists
<1>4. \A s \in SUBSET S : g[s] = IF s = {} THEN 0 ELSE D[<<C[s], g[s \ {C[s]}]>>]
  BY <1>3 DEF Recurs
<1>5. ASSUME NEW s \in SUBSET S
      PROVE  g[s] = IF s = {} THEN 0 ELSE f[Pick(s)] + g[s \ {Pick(s)}]
  <2>1. CASE s = {}
    BY <1>4, <2>1
  <2>2. CASE s # {}
    <3>1. C[s] = Pick(s) /\ Pick(s) \in S /\ s \ {Pick(s)} \in SUBSET S
      BY <1>1, <2>2 DEF C
    <3>2. g[s \ {Pick(s)}] \in Int
      BY <3>1
    <3>3. D[<<Pick(s), g[s \ {Pick(s)}]>>] = f[Pick(s)] + g[s \ {Pick(s)}]
      BY <3>1, <3>2 DEF D
    <3> QED BY <1>4, <2>2, <3>1, <3>3
  <2> QED BY <2>1, <2>2
<1>6. g = [s \in SUBSET S |-> g[s]]
  OBVIOUS
<1>7. Adds(g, f, S)
  BY <1>5, <1>6 DEF Adds
<1> QED BY <1>7

\* What is added up of a subset does not depend on the set it is taken from.
LEMMA AddedAgree ==
  ASSUME NEW S, IsFiniteSet(S), NEW f, \A x \in S : f[x] \in Int,
         NEW T \in SUBSET S, NEW g, Adds(g, f, S), NEW h, Adds(h, f, T)
  PROVE  \A s \in SUBSET T : g[s] = h[s] /\ g[s] \in Int
<1> DEFINE Good == {s \in SUBSET T : g[s] = h[s] /\ g[s] \in Int}
<1>1. \A s \in SUBSET S : g[s] = IF s = {} THEN 0 ELSE f[Pick(s)] + g[s \ {Pick(s)}]
  BY DEF Adds
<1>2. \A s \in SUBSET T : h[s] = IF s = {} THEN 0 ELSE f[Pick(s)] + h[s \ {Pick(s)}]
  BY DEF Adds
<1>3. {} \in Good
  <2>1. ASSUME NEW s \in SUBSET T, s = {} PROVE s \in Good
    <3>1. s \in SUBSET S
      OBVIOUS
    <3>2. g[s] = 0 /\ h[s] = 0
      BY <1>1, <1>2, <2>1, <3>1
    <3> QED BY <3>2
  <2> QED BY <2>1
<1>4. ASSUME NEW s \in SUBSET T, s # {}, \A x \in s : s \ {x} \in Good
      PROVE  s \in Good
  <2>1. Pick(s) \in s
    BY <1>4 DEF Pick
  <2>2. g[s \ {Pick(s)}] = h[s \ {Pick(s)}] /\ g[s \ {Pick(s)}] \in Int
    BY <1>4, <2>1
  <2>3. /\ g[s] = f[Pick(s)] + g[s \ {Pick(s)}]
        /\ h[s] = f[Pick(s)] + h[s \ {Pick(s)}]
    <3>1. s \in SUBSET S
      OBVIOUS
    <3> QED BY <1>1, <1>2, <1>4, <3>1
  <2>4. f[Pick(s)] \in Int
    BY <2>1
  <2>5. g[s] = h[s] /\ g[s] \in Int
    BY <2>2, <2>3, <2>4
  <2> QED BY <2>5
<1>5. IsFiniteSet(T)
  BY FS_Subset
<1> HIDE DEF Good
<1>6. \A s \in SUBSET T : s \in Good
  BY <1>3, <1>4, <1>5, SubsetInduction
<1> QED BY <1>6 DEF Good

\* The sum as one recursion.
LEMMA SumFirst ==
  ASSUME NEW S, IsFiniteSet(S), NEW f, \A x \in S : f[x] \in Int
  PROVE  /\ SumFunctionOnSet(f, S) \in Int
         /\ S = {} => SumFunctionOnSet(f, S) = 0
         /\ S # {} => SumFunctionOnSet(f, S)
                        = f[Pick(S)] + SumFunctionOnSet(f, S \ {Pick(S)})
<1> DEFINE g == CHOOSE g : Adds(g, f, S)
           T == S \ {Pick(S)}
           h == CHOOSE h : Adds(h, f, T)
<1>1. IsFiniteSet(T) /\ T \in SUBSET S
  BY FS_Subset
<1>2. Adds(g, f, S) /\ Adds(h, f, T)
  <2>1. (\E k : Adds(k, f, S)) /\ (\E k : Adds(k, f, T))
    BY <1>1, AddingExists
  <2> QED BY <2>1
<1>3. SumFunctionOnSet(f, S) = g[S] /\ SumFunctionOnSet(f, T) = h[T]
  BY SumIsAdded
<1> HIDE DEF g, h
<1>4. g[S] \in Int /\ g[T] = h[T]
  <2>1. \A s \in SUBSET S : g[s] \in Int
    BY <1>2, S \in SUBSET S, AddedAgree
  <2>2. \A s \in SUBSET T : g[s] = h[s]
    BY <1>1, <1>2, AddedAgree
  <2> QED BY <2>1, <2>2
<1>5. g[S] = IF S = {} THEN 0 ELSE f[Pick(S)] + g[S \ {Pick(S)}]
  BY <1>2 DEF Adds
<1> QED BY <1>3, <1>4, <1>5

\* Any element may be the first.
LEMMA SumRemove ==
  ASSUME NEW S, IsFiniteSet(S), NEW f, \A x \in S : f[x] \in Int
  PROVE  \A s \in SUBSET S : \A x \in s :
           SumFunctionOnSet(f, s) = f[x] + SumFunctionOnSet(f, s \ {x})
<1> DEFINE Sum(s) == SumFunctionOnSet(f, s)
           Good == {s \in SUBSET S : \A x \in s : Sum(s) = f[x] + Sum(s \ {x})}
<1>1. \A s \in SUBSET S : /\ Sum(s) \in Int
                          /\ s # {} => Sum(s) = f[Pick(s)] + Sum(s \ {Pick(s)})
  BY SumFirst, FS_Subset
<1> HIDE DEF Sum
<1>2. {} \in Good
  OBVIOUS
<1>3. ASSUME NEW s \in SUBSET S, s # {}, \A x \in s : s \ {x} \in Good
      PROVE  s \in Good
  <2> DEFINE p == Pick(s)
  <2>1. p \in s /\ Sum(s) = f[p] + Sum(s \ {p})
    BY <1>1, <1>3 DEF Pick
  <2> HIDE DEF p
  <2>2. ASSUME NEW x \in s, x # p PROVE Sum(s) = f[x] + Sum(s \ {x})
    <3>1. Sum(s \ {p}) = f[x] + Sum((s \ {p}) \ {x})
      BY <1>3, <2>1, <2>2
    <3>2. Sum(s \ {x}) = f[p] + Sum((s \ {x}) \ {p})
      BY <1>3, <2>1, <2>2
    <3>3. (s \ {p}) \ {x} = (s \ {x}) \ {p}
      OBVIOUS
    <3>4. Sum((s \ {x}) \ {p}) \in Int /\ f[x] \in Int /\ f[p] \in Int
      BY <1>1, <2>1
    <3>5. Sum(s) = f[p] + (f[x] + Sum((s \ {x}) \ {p}))
      BY <2>1, <3>1, <3>3
    <3>6. f[p] + (f[x] + Sum((s \ {x}) \ {p})) = f[x] + (f[p] + Sum((s \ {x}) \ {p}))
      BY <3>4
    <3> QED BY <3>2, <3>5, <3>6
  <2> QED BY <2>1, <2>2
<1> HIDE DEF Good
<1>4. \A s \in SUBSET S : s \in Good
  BY <1>2, <1>3, SubsetInduction
<1> QED BY <1>4 DEF Good, Sum

\* What is added up of every set that is finite.
LEMMA SumType ==
  ASSUME NEW S, IsFiniteSet(S), NEW f, \A x \in S : f[x] \in Int
  PROVE  SumFunctionOnSet(f, S) \in Int
BY SumFirst

LEMMA SumOfNone ==
  ASSUME NEW f
  PROVE  SumFunctionOnSet(f, {}) = 0
BY SumFirst, FS_EmptySet

\* A new element adds its number to the sum.
LEMMA SumInsert ==
  ASSUME NEW S, IsFiniteSet(S), NEW x, x \notin S,
         NEW f, \A y \in S \cup {x} : f[y] \in Int
  PROVE  SumFunctionOnSet(f, S \cup {x}) = f[x] + SumFunctionOnSet(f, S)
<1> DEFINE T == S \cup {x}
<1>1. IsFiniteSet(T)
  BY FS_AddElement
<1>2. x \in T /\ T \in SUBSET T /\ T \ {x} = S
  OBVIOUS
<1> HIDE DEF T
<1>3. \A y \in T : f[y] \in Int
  BY DEF T
<1>4. SumFunctionOnSet(f, T) = f[x] + SumFunctionOnSet(f, T \ {x})
  BY <1>1, <1>2, <1>3, SumRemove
<1> QED BY <1>2, <1>4 DEF T

\* Functions that agree have the same sum.
LEMMA SumAgree ==
  ASSUME NEW S, IsFiniteSet(S), NEW f, \A x \in S : f[x] \in Int,
         NEW g, \A x \in S : g[x] = f[x]
  PROVE  SumFunctionOnSet(g, S) = SumFunctionOnSet(f, S)
<1> DEFINE F(s) == SumFunctionOnSet(f, s)
           G(s) == SumFunctionOnSet(g, s)
           Good == {s \in SUBSET S : G(s) = F(s)}
<1>1. ASSUME NEW s \in SUBSET S, s = {} PROVE s \in Good
  <2>1. F(s) = 0 /\ G(s) = 0
    BY <1>1, SumOfNone
  <2> QED BY <2>1
<1>2. ASSUME NEW s \in SUBSET S, s # {}, \A x \in s : s \ {x} \in Good
      PROVE  s \in Good
  <2>1. PICK x \in s : TRUE
    BY <1>2
  <2>2. F(s) = f[x] + F(s \ {x})
    BY SumRemove
  <2>3. G(s) = g[x] + G(s \ {x})
    BY SumRemove
  <2>4. G(s \ {x}) = F(s \ {x}) /\ g[x] = f[x]
    BY <1>2
  <2> QED BY <2>2, <2>3, <2>4
<1> HIDE DEF Good
<1>3. \A s \in SUBSET S : s \in Good
  BY <1>1, <1>2, SubsetInduction
<1>4. S \in Good
  BY <1>3
<1> QED BY <1>4 DEF Good

\* A change at one place changes the sum as much.
LEMMA SumChange ==
  ASSUME NEW S, IsFiniteSet(S), NEW x \in S,
         NEW f, \A y \in S : f[y] \in Int,
         NEW g, g[x] \in Int, \A y \in S \ {x} : g[y] = f[y]
  PROVE  SumFunctionOnSet(g, S) = SumFunctionOnSet(f, S) + (g[x] - f[x])
<1> DEFINE T == S \ {x}
<1>1. IsFiniteSet(T) /\ T \cup {x} = S /\ x \notin T
  BY FS_Subset
<1> HIDE DEF T
<1>2. \A y \in T : f[y] \in Int /\ g[y] = f[y]
  BY DEF T
<1>3. SumFunctionOnSet(f, T) = SumFunctionOnSet(g, T)
  BY <1>1, <1>2, SumAgree
<1>4. SumFunctionOnSet(f, S) = f[x] + SumFunctionOnSet(f, T)
  BY <1>1, <1>2, SumInsert
<1>5. SumFunctionOnSet(g, S) = g[x] + SumFunctionOnSet(g, T)
  BY <1>1, <1>2, SumInsert
<1>6. SumFunctionOnSet(f, T) \in Int
  BY <1>1, <1>2, SumType
<1> QED BY <1>3, <1>4, <1>5, <1>6

LEMMA IntervalGrows ==
  ASSUME NEW m \in Nat
  PROVE  /\ IsFiniteSet(1..m) /\ m + 1 \notin 1..m
         /\ (1..m) \cup {m + 1} = 1..(m + 1)
<1>1. IsFiniteSet(1..m)
  BY FS_Interval
<1>2. m + 1 \notin 1..m /\ (1..m) \cup {m + 1} = 1..(m + 1)
  OBVIOUS
<1> QED BY <1>1, <1>2

\* A sum of a sequence is the first number and the sum of the others.
LEMMA SumOfTail ==
  ASSUME NEW n \in Nat, NEW f, \A k \in 1..(n + 1) : f[k] \in Int,
         NEW g, \A k \in 1..n : g[k] = f[k + 1]
  PROVE  SumFunctionOnSet(f, 1..(n + 1)) = f[1] + SumFunctionOnSet(g, 1..n)
<1> DEFINE F(m) == SumFunctionOnSet(f, 1..m)
           G(m) == SumFunctionOnSet(g, 1..m)
           Good == {m \in Nat : m <= n => F(m + 1) = f[1] + G(m)}
<1>1. \A k \in 1..n : k + 1 \in 1..(n + 1) /\ g[k] \in Int
  OBVIOUS
<1>2. ASSUME NEW m \in Nat, m < n + 1
      PROVE  F(m + 1) = f[m + 1] + F(m)
  <2>1. /\ IsFiniteSet(1..m) /\ m + 1 \notin 1..m
        /\ (1..m) \cup {m + 1} = 1..(m + 1)
    BY IntervalGrows
  <2>3. \A k \in (1..m) \cup {m + 1} : f[k] \in Int
    <3>1. \A k \in 1..(m + 1) : k \in 1..(n + 1)
      BY <1>2
    <3> QED BY <2>1, <3>1
  <2>2. SumFunctionOnSet(f, (1..m) \cup {m + 1}) = f[m + 1] + SumFunctionOnSet(f, 1..m)
    BY <2>1, <2>3, SumInsert
  <2> QED BY <2>1, <2>2
<1>3. ASSUME NEW m \in Nat, m < n
      PROVE  G(m + 1) = g[m + 1] + G(m)
  <2>1. /\ IsFiniteSet(1..m) /\ m + 1 \notin 1..m
        /\ (1..m) \cup {m + 1} = 1..(m + 1)
    BY IntervalGrows
  <2>3. \A k \in (1..m) \cup {m + 1} : g[k] \in Int
    <3>1. \A k \in 1..(m + 1) : k \in 1..n
      BY <1>3
    <3> QED BY <1>1, <2>1, <3>1
  <2>2. SumFunctionOnSet(g, (1..m) \cup {m + 1}) = g[m + 1] + SumFunctionOnSet(g, 1..m)
    BY <2>1, <2>3, SumInsert
  <2> QED BY <2>1, <2>2
<1>4. \A m \in Nat : m <= n => G(m) \in Int
  <2>1. ASSUME NEW m \in Nat, m <= n PROVE G(m) \in Int
    <3>1. IsFiniteSet(1..m) /\ \A k \in 1..m : k \in 1..n
      BY <2>1, FS_Interval
    <3> QED BY <1>1, <3>1, SumType
  <2> QED BY <2>1
<1>5. F(0) = 0 /\ G(0) = 0
  <2>1. 1..0 = {}
    OBVIOUS
  <2> QED BY <2>1, SumOfNone
<1> HIDE DEF F, G
<1>6. 0 \in Good
  <2>1. F(0 + 1) = f[0 + 1] + F(0) /\ f[1] \in Int
    BY <1>2
  <2> QED BY <1>5, <2>1
<1>7. ASSUME NEW m \in Nat, m \in Good PROVE m + 1 \in Good
  <2>1. ASSUME m + 1 <= n PROVE F((m + 1) + 1) = f[1] + G(m + 1)
    <3>1. F((m + 1) + 1) = f[(m + 1) + 1] + F(m + 1)
      BY <1>2, <2>1
    <3>2. G(m + 1) = g[m + 1] + G(m)
      BY <1>3, <2>1
    <3>3. F(m + 1) = f[1] + G(m) /\ G(m) \in Int
      BY <1>4, <1>7, <2>1
    <3>4. m + 1 \in 1..n /\ 1 \in 1..(n + 1)
      BY <2>1
    <3>5. g[m + 1] = f[(m + 1) + 1] /\ g[m + 1] \in Int /\ f[1] \in Int
      BY <1>1, <3>4
    <3> QED BY <3>1, <3>2, <3>3, <3>5
  <2> QED BY <2>1
<1> HIDE DEF Good
<1>8. n \in Good
  BY <1>6, <1>7, Induction
<1> QED BY <1>8 DEF Good, F, G

\* Nothings add up to nothing.
LEMMA SumOfZeros ==
  ASSUME NEW S, IsFiniteSet(S), NEW f, \A x \in S : f[x] = 0
  PROVE  SumFunctionOnSet(f, S) = 0
<1> DEFINE Good == {s \in SUBSET S : SumFunctionOnSet(f, s) = 0}
<1>1. {} \in Good
  BY SumOfNone
<1>2. ASSUME NEW s \in SUBSET S, s # {}, \A x \in s : s \ {x} \in Good
      PROVE  s \in Good
  <2>1. PICK x \in s : TRUE
    BY <1>2
  <2>2. \A y \in S : f[y] \in Int
    OBVIOUS
  <2>3. SumFunctionOnSet(f, s) = f[x] + SumFunctionOnSet(f, s \ {x})
    BY <2>2, SumRemove
  <2> QED BY <1>2, <2>1, <2>3
<1> HIDE DEF Good
<1>3. S \in Good
  BY <1>1, <1>2, SubsetInduction
<1> QED BY <1>3 DEF Good

-----------------------------------------------------------------------------
(* Folds over a sequence.                                                  *)

\* A finite set of numbers has a greatest one.
LEMMA MaxIsElement ==
  ASSUME NEW S \in SUBSET Int, IsFiniteSet(S)
  PROVE  \A s \in SUBSET S : s # {} => Max(s) \in s /\ \A x \in s : Max(s) >= x
<1> DEFINE HasMax(s) == \E m \in s : \A x \in s : m >= x
           Good == {s \in SUBSET S : s # {} => HasMax(s)}
<1>1. {} \in Good
  OBVIOUS
<1>2. ASSUME NEW s \in SUBSET S, s # {}, \A x \in s : s \ {x} \in Good
      PROVE  s \in Good
  <2>1. PICK x \in s : TRUE
    BY <1>2
  <2>2. CASE s \ {x} = {}
    <3>1. \A y \in s : y = x /\ x >= y
      BY <2>1, <2>2
    <3> QED BY <2>1, <3>1
  <2>3. CASE s \ {x} # {}
    <3>1. PICK m \in s \ {x} : \A y \in s \ {x} : m >= y
      BY <1>2, <2>1, <2>3
    <3>2. m \in Int /\ x \in Int /\ m \in s /\ \A y \in s : y \in Int
      BY <2>1, <3>1
    <3>3. CASE m >= x
      <4>1. \A y \in s : m >= y
        BY <3>1, <3>3
      <4> QED BY <3>2, <4>1
    <3>4. CASE ~ (m >= x)
      <4>1. \A y \in s : x >= y
        BY <3>1, <3>2, <3>4
      <4> QED BY <2>1, <4>1
    <3> QED BY <3>3, <3>4
  <2> QED BY <2>2, <2>3
<1> HIDE DEF Good
<1>3. \A s \in SUBSET S : s \in Good
  BY <1>1, <1>2, SubsetInduction
<1>4. ASSUME NEW s \in SUBSET S, s # {} PROVE Max(s) \in s /\ \A x \in s : Max(s) >= x
  <2>1. \E m \in s : \A x \in s : m >= x
    BY <1>3, <1>4 DEF Good
  <2> QED BY <2>1 DEF Max
<1> QED BY <1>4

\* Taking the greatest number out of 1..k + 1 leaves 1..k.
LEMMA LastOut ==
  ASSUME NEW k \in Nat
  PROVE  /\ 1..(k + 1) # {} /\ Max(1..(k + 1)) = k + 1
         /\ (1..(k + 1)) \ {k + 1} = 1..k
<1> DEFINE S == 1..(k + 1)
<1>1. S \in SUBSET Int /\ IsFiniteSet(S) /\ S # {} /\ S \in SUBSET S
  <2>1. 1 \in Int /\ k + 1 \in Int /\ 1 \in S
    OBVIOUS
  <2>2. IsFiniteSet(S)
    BY <2>1, FS_Interval
  <2>3. S \in SUBSET Int /\ S # {} /\ S \in SUBSET S
    BY <2>1
  <2> QED BY <2>2, <2>3
<1>2. Max(S) \in S /\ \A x \in S : Max(S) >= x
  BY <1>1, MaxIsElement
<1>3. k + 1 \in S
  OBVIOUS
<1>4. Max(S) = k + 1
  BY <1>2, <1>3
<1>5. S \ {k + 1} = 1..k
  OBVIOUS
<1> QED BY <1>1, <1>4, <1>5

\* g tells what a fold over n elements, the step of which is D[<<k, v>>] at
\* element k, comes to on every subset of them.
FoldsBy(g, n, V, base, D) ==
  \A s \in SUBSET (1..n) :
    /\ s = {} => g[s] = base
    /\ s # {} => /\ Max(s) \in 1..n /\ g[s \ {Max(s)}] \in V
                 /\ g[s] = D[<<Max(s), g[s \ {Max(s)}]>>]

LEMMA FoldExists ==
  ASSUME NEW n \in Nat, NEW V, NEW base \in V, NEW D \in [(1..n) \X V -> V]
  PROVE  \E g \in [SUBSET (1..n) -> V] : FoldsBy(g, n, V, base, D)
<1> DEFINE S == 1..n
           C == [s \in SUBSET S |-> Max(s)]
<1>1. S \in SUBSET Int /\ IsFiniteSet(S)
  BY FS_Interval
<1>2. \A s \in SUBSET S : s # {} => Max(s) \in s
  BY <1>1, MaxIsElement
<1>3. \A s \in SUBSET S : s # {} => C[s] \in s
  BY <1>2
<1> HIDE DEF S
<1>4. PICK g \in [SUBSET S -> V] : Recurs(g, S, base, C, D)
  <2> HIDE DEF C
  <2>1. D \in [S \X V -> V]
    BY DEF S
  <2> QED BY <1>1, <1>3, <2>1, RecursionExists
<1>5. \A s \in SUBSET S : g[s] = IF s = {} THEN base ELSE D[<<C[s], g[s \ {C[s]}]>>]
  BY <1>4 DEF Recurs
<1>6. ASSUME NEW s \in SUBSET S
      PROVE  /\ s = {} => g[s] = base
             /\ s # {} => /\ Max(s) \in S /\ g[s \ {Max(s)}] \in V
                          /\ g[s] = D[<<Max(s), g[s \ {Max(s)}]>>]
  <2>1. CASE s = {}
    BY <1>5, <2>1
  <2>2. CASE s # {}
    <3>1. C[s] = Max(s) /\ Max(s) \in S /\ s \ {Max(s)} \in SUBSET S
      BY <1>2, <2>2
    <3>2. g[s \ {Max(s)}] \in V
      BY <3>1
    <3> QED BY <1>5, <2>2, <3>1, <3>2
  <2> QED BY <2>1, <2>2
<1>7. FoldsBy(g, n, V, base, D)
  BY <1>6 DEF S, FoldsBy
<1> QED BY <1>4, <1>7 DEF S

-----------------------------------------------------------------------------
(* A sequence of sequences put together.                                   *)

\* g puts together the first n of them.
Lays(g, seqs, n) ==
  /\ g = [k \in 1..n |-> g[k]]
  /\ \A k \in 1..n : g[k] = IF k = 1 THEN seqs[k] ELSE g[k - 1] \o seqs[k]

LEMMA FlattenIsLaid ==
  ASSUME NEW seqs, Len(seqs) # 0
  PROVE  FlattenSeq(seqs)
           = (CHOOSE g : g = [k \in 1..Len(seqs) |->
                                IF k = 1 THEN seqs[k] ELSE g[k - 1] \o seqs[k]])[Len(seqs)]
BY DEF FlattenSeq

LEMMA LayingExists ==
  ASSUME NEW seqs
  PROVE  \A n \in Nat : \E g : Lays(g, seqs, n)
<1> DEFINE Good == {n \in Nat : \E g : Lays(g, seqs, n)}
<1>1. 0 \in Good
  <2>1. Lays([k \in 1..0 |-> seqs], seqs, 0)
    BY DEF Lays
  <2> QED BY <2>1
<1>2. ASSUME NEW n \in Nat, n \in Good PROVE n + 1 \in Good
  <2>1. PICK g : Lays(g, seqs, n)
    BY <1>2
  <2> DEFINE h == [k \in 1..(n + 1) |-> IF k = 1 THEN seqs[k] ELSE g[k - 1] \o seqs[k]]
  <2>2. \A k \in 1..n : h[k] = g[k]
    <3>1. ASSUME NEW k \in 1..n PROVE h[k] = g[k]
      <4>1. k \in 1..(n + 1)
        OBVIOUS
      <4>2. h[k] = IF k = 1 THEN seqs[k] ELSE g[k - 1] \o seqs[k]
        BY <4>1
      <4>3. g[k] = IF k = 1 THEN seqs[k] ELSE g[k - 1] \o seqs[k]
        BY <2>1 DEF Lays
      <4> QED BY <4>2, <4>3
    <3> QED BY <3>1
  <2>3. \A k \in 1..(n + 1) : k # 1 => h[k] = h[k - 1] \o seqs[k]
    <3>1. ASSUME NEW k \in 1..(n + 1), k # 1 PROVE h[k] = h[k - 1] \o seqs[k]
      <4>1. k - 1 \in 1..n
        BY <3>1
      <4>2. h[k - 1] = g[k - 1]
        BY <2>2, <4>1
      <4> QED BY <3>1, <4>2
    <3> QED BY <3>1
  <2>4. 1 \in 1..(n + 1) => h[1] = seqs[1]
    OBVIOUS
  <2>5. h = [k \in 1..(n + 1) |-> h[k]]
    OBVIOUS
  <2> HIDE DEF h
  <2>6. Lays(h, seqs, n + 1)
    BY <2>3, <2>4, <2>5 DEF Lays
  <2>7. n + 1 \in Nat
    OBVIOUS
  <2> QED BY <2>6, <2>7, Zenon
<1> HIDE DEF Good
<1>3. \A n \in Nat : n \in Good
  BY <1>1, <1>2, Induction
<1> QED BY <1>3 DEF Good

LEMMA FlattenLays ==
  ASSUME NEW seqs, Len(seqs) \in Nat \ {0}
  PROVE  \E g : Lays(g, seqs, Len(seqs)) /\ FlattenSeq(seqs) = g[Len(seqs)]
<1> DEFINE n == Len(seqs)
           Laid(g) == g = [k \in 1..n |-> IF k = 1 THEN seqs[k] ELSE g[k - 1] \o seqs[k]]
           g == CHOOSE g : Laid(g)
<1>1. \E h : Laid(h)
  <2>1. PICK h : Lays(h, seqs, n)
    BY LayingExists
  <2>2. Laid(h)
    BY <2>1 DEF Lays
  <2> QED BY <2>2
<1>2. Laid(g)
  <2> HIDE DEF Laid
  <2> QED BY <1>1
<1>3. FlattenSeq(seqs) = g[n]
  BY FlattenIsLaid
<1> HIDE DEF g
<1>4. Lays(g, seqs, n)
  BY <1>2 DEF Lays
<1> QED BY <1>3, <1>4

\* All that put together the same sequences agree.
LEMMA LayingAgrees ==
  ASSUME NEW X, NEW n \in Nat, NEW m \in Nat, n <= m,
         NEW s, \A k \in 1..n : s[k] \in Seq(X),
         NEW t, \A k \in 1..n : t[k] = s[k],
         NEW g, Lays(g, s, n), NEW h, Lays(h, t, m)
  PROVE  \A k \in 1..n : g[k] = h[k] /\ g[k] \in Seq(X)
<1> DEFINE Good == {k \in Nat : k \in 1..n => g[k] = h[k] /\ g[k] \in Seq(X)}
<1>1. 0 \in Good
  OBVIOUS
<1>2. ASSUME NEW k \in Nat, k \in Good PROVE k + 1 \in Good
  <2>1. ASSUME k + 1 \in 1..n PROVE g[k + 1] = h[k + 1] /\ g[k + 1] \in Seq(X)
    <3>1. k + 1 \in 1..m /\ (k + 1) - 1 = k
      BY <2>1
    <3>2. /\ g[k + 1] = IF k + 1 = 1 THEN s[k + 1] ELSE g[k] \o s[k + 1]
          /\ h[k + 1] = IF k + 1 = 1 THEN t[k + 1] ELSE h[k] \o t[k + 1]
      BY <2>1, <3>1 DEF Lays
    <3>3. t[k + 1] = s[k + 1] /\ s[k + 1] \in Seq(X)
      BY <2>1
    <3>4. CASE k = 0
      BY <3>2, <3>3, <3>4
    <3>5. CASE k # 0
      <4>1. k \in 1..n /\ k + 1 # 1
        BY <2>1, <3>5
      <4>2. g[k] = h[k] /\ g[k] \in Seq(X)
        BY <1>2, <4>1
      <4>3. g[k] \o s[k + 1] \in Seq(X)
        BY <3>3, <4>2
      <4> QED BY <3>2, <3>3, <4>1, <4>2, <4>3
    <3> QED BY <3>4, <3>5
  <2> QED BY <2>1
<1> HIDE DEF Good
<1>3. \A k \in Nat : k \in Good
  BY <1>1, <1>2, Induction
<1>4. \A k \in 1..n : k \in Nat
  OBVIOUS
<1> QED BY <1>3, <1>4 DEF Good

LEMMA FlattenOfNone == FlattenSeq(<<>>) = <<>>
BY DEF FlattenSeq

LEMMA FlattenType ==
  ASSUME NEW X, NEW s \in Seq(Seq(X))
  PROVE  FlattenSeq(s) \in Seq(X)
<1>1. CASE s = <<>>
  <2>1. FlattenSeq(s) = <<>>
    BY <1>1, FlattenOfNone
  <2> QED BY <2>1
<1>2. CASE s # <<>>
  <2> DEFINE n == Len(s)
  <2>1. n \in Nat \ {0} /\ n \in 1..n /\ n <= n /\ \A k \in 1..n : s[k] \in Seq(X)
    BY <1>2
  <2>2. PICK g : Lays(g, s, n) /\ FlattenSeq(s) = g[n]
    BY <2>1, FlattenLays
  <2> HIDE DEF n
  <2>3. g[n] \in Seq(X)
    BY <2>1, <2>2, LayingAgrees
  <2> QED BY <2>2, <2>3
<1> QED BY <1>1, <1>2

\* One sequence more comes behind the others.
LEMMA FlattenOfAppend ==
  ASSUME NEW X, NEW s \in Seq(Seq(X)), NEW u \in Seq(X)
  PROVE  FlattenSeq(Append(s, u)) = FlattenSeq(s) \o u
<1> DEFINE n == Len(s)
           t == Append(s, u)
<1>1. n \in Nat /\ Len(t) = n + 1 /\ t[n + 1] = u
  OBVIOUS
<1>2. (\A k \in 1..n : t[k] = s[k]) /\ \A k \in 1..n : s[k] \in Seq(X)
  OBVIOUS
<1>3. t = Append(s, u)
  OBVIOUS
<1>4. n = Len(s)
  OBVIOUS
<1> HIDE DEF n, t
<1>5. n + 1 \in Nat \ {0} /\ n <= n + 1 /\ n + 1 \in 1..(n + 1) /\ (n + 1) - 1 = n
  BY <1>1
<1>6. PICK h : Lays(h, t, n + 1) /\ FlattenSeq(t) = h[n + 1]
  BY <1>1, <1>5, FlattenLays
<1>7. h[n + 1] = IF n + 1 = 1 THEN u ELSE h[n] \o u
  BY <1>1, <1>5, <1>6 DEF Lays
<1>8. CASE n = 0
  <2>1. s = <<>>
    BY <1>4, <1>8, EmptySeq
  <2>2. FlattenSeq(s) = <<>>
    BY <2>1, FlattenOfNone
  <2>3. <<>> \o u = u
    OBVIOUS
  <2> QED BY <1>3, <1>6, <1>7, <1>8, <2>2, <2>3
<1>9. CASE n # 0
  <2>1. PICK g : Lays(g, s, n) /\ FlattenSeq(s) = g[n]
    BY <1>1, <1>4, <1>9, FlattenLays
  <2>2. n \in 1..n /\ n + 1 # 1
    BY <1>1, <1>9
  <2>3. g[n] = h[n]
    <3>1. \A k \in 1..n : g[k] = h[k] /\ g[k] \in Seq(X)
      BY <1>1, <1>2, <1>5, <1>6, <2>1, LayingAgrees
    <3> QED BY <2>2, <3>1
  <2> QED BY <1>3, <1>6, <1>7, <2>1, <2>2, <2>3
<1> QED BY <1>8, <1>9

\* The order in which three sequences are put together does not matter.
Regroups(a, b, c) == (a \o b) \o c = a \o (b \o c)

LEMMA ConcatRegroups ==
  \A X : \A a, b, c \in Seq(X) : Regroups(a, b, c)
<1> SUFFICES ASSUME NEW X, NEW a \in Seq(X), NEW b \in Seq(X), NEW c \in Seq(X)
             PROVE  Regroups(a, b, c)
  OBVIOUS
<1>1. (a \o b) \o c = a \o (b \o c)
  BY ConcatAssociative
<1> QED BY ONLY <1>1 DEF Regroups

\* What is put together of two sequences, one behind the other.
LEMMA FlattenOfConcat ==
  ASSUME NEW X, NEW s \in Seq(Seq(X)), NEW t \in Seq(Seq(X))
  PROVE  FlattenSeq(s \o t) = FlattenSeq(s) \o FlattenSeq(t)
<1> DEFINE P(u) == FlattenSeq(s \o u) = FlattenSeq(s) \o FlattenSeq(u)
           Good == {k \in Nat : \A u \in Seq(Seq(X)) : Len(u) = k => P(u)}
<1>0. FlattenSeq(s) \in Seq(X)
  BY FlattenType
<1>1. 0 \in Good
  <2>1. ASSUME NEW u \in Seq(Seq(X)), Len(u) = 0 PROVE P(u)
    <3>1. u = <<>>
      BY <2>1
    <3>2. s \o <<>> = s /\ FlattenSeq(s) \o <<>> = FlattenSeq(s)
      BY <1>0
    <3> QED BY <3>1, <3>2, FlattenOfNone
  <2> QED BY <2>1
<1>2. ASSUME NEW k \in Nat, k \in Good PROVE k + 1 \in Good
  <2>1. ASSUME NEW u \in Seq(Seq(X)), Len(u) = k + 1 PROVE P(u)
    <3> DEFINE v == SubSeq(u, 1, k)
               x == u[k + 1]
    <3>1. v \in Seq(Seq(X)) /\ Len(v) = k /\ x \in Seq(X)
      BY <2>1
    <3>2. u = Append(v, x)
      BY <2>1
    <3> HIDE DEF v, x
    <3>3. P(v)
      BY <1>2, <3>1
    <3>4. s \o u = Append(s \o v, x) /\ s \o v \in Seq(Seq(X))
      BY <3>1, <3>2
    <3>5. FlattenSeq(s \o u) = FlattenSeq(s \o v) \o x
      BY <3>1, <3>4, FlattenOfAppend
    <3>6. FlattenSeq(u) = FlattenSeq(v) \o x
      BY <3>1, <3>2, FlattenOfAppend
    <3>7. FlattenSeq(v) \in Seq(X)
      BY <3>1, FlattenType
    <3>8. (FlattenSeq(s) \o FlattenSeq(v)) \o x = FlattenSeq(s) \o (FlattenSeq(v) \o x)
      <4> DEFINE a == FlattenSeq(s)
                 b == FlattenSeq(v)
      <4>1. a \in Seq(X) /\ b \in Seq(X) /\ x \in Seq(X)
        BY <1>0, <3>1, <3>7
      <4> HIDE DEF a, b
      <4>2. Regroups(a, b, x)
        BY ONLY <4>1, ConcatRegroups
      <4> QED BY <4>2 DEF a, b, Regroups
    <3> QED BY <3>3, <3>5, <3>6, <3>8
  <2>2. k + 1 \in Nat
    OBVIOUS
  <2> HIDE DEF P
  <2> QED BY <2>1, <2>2
<1> HIDE DEF Good, P
<1>3. \A k \in Nat : k \in Good
  BY <1>1, <1>2, Induction
<1>4. P(t)
  <2>1. Len(t) \in Nat
    OBVIOUS
  <2> QED BY <1>3, <2>1 DEF Good
<1> QED BY <1>4 DEF P

-----------------------------------------------------------------------------
(* Parts of a sequence.                                                    *)

\* One more element of a sequence.
LEMMA SubSeqGrows ==
  ASSUME NEW X, NEW s \in Seq(X), NEW f \in Nat \ {0}, NEW n \in 1..Len(s), f <= n
  PROVE  SubSeq(s, f, n) = Append(SubSeq(s, f, n - 1), s[n])
<1> DEFINE u == SubSeq(s, f, n)
           v == SubSeq(s, f, n - 1)
           a == Append(v, s[n])
<1>1. /\ u \in Seq(X) /\ Len(u) = n - f + 1 /\ \A k \in 1..(n - f + 1) : u[k] = s[f + k - 1]
  OBVIOUS
<1>2. /\ v \in Seq(X) /\ Len(v) = n - f /\ \A k \in 1..(n - f) : v[k] = s[f + k - 1]
  OBVIOUS
<1>3. s[n] \in X
  OBVIOUS
<1> HIDE DEF u, v
<1>4. /\ a \in Seq(X) /\ Len(a) = n - f + 1 /\ a[n - f + 1] = s[n]
      /\ \A k \in 1..(n - f) : a[k] = v[k]
  BY <1>2, <1>3
<1> HIDE DEF a
<1>5. ASSUME NEW k \in 1..(n - f + 1) PROVE u[k] = a[k]
  <2>1. CASE k = n - f + 1
    <3>1. f + k - 1 = n
      BY <2>1
    <3> QED BY <1>1, <1>4, <2>1, <3>1
  <2>2. CASE k # n - f + 1
    <3>1. k \in 1..(n - f)
      BY <2>2
    <3> QED BY <1>1, <1>2, <1>4, <3>1
  <2> QED BY <2>1, <2>2
<1>6. u = a
  BY <1>1, <1>4, <1>5
<1> QED BY <1>6 DEF u, v, a

\* What is behind the first a elements of s, up to the b-th.
Part(s, a, b) == SubSeq(s, a + 1, b)

LEMMA PartIs ==
  ASSUME NEW X, NEW s \in Seq(X), NEW a \in Nat, NEW b \in Nat, a <= b, b <= Len(s)
  PROVE  /\ Part(s, a, b) \in Seq(X) /\ Len(Part(s, a, b)) = b - a
         /\ \A k \in 1..(b - a) : Part(s, a, b)[k] = s[a + k]
<1>1. \A k \in (a + 1)..b : s[k] \in X
  OBVIOUS
<1>2. SubSeq(s, a + 1, b) \in Seq(X) /\ Len(SubSeq(s, a + 1, b)) = b - a
  BY <1>1
<1>3. \A k \in 1..(b - a) : SubSeq(s, a + 1, b)[k] = s[a + k]
  OBVIOUS
<1> QED BY <1>2, <1>3 DEF Part

\* Sequences of the same elements are equal.
LEMMA SameElements ==
  ASSUME NEW X, NEW s \in Seq(X), NEW t \in Seq(X), Len(s) = Len(t),
         \A k \in 1..Len(s) : s[k] = t[k]
  PROVE  s = t
OBVIOUS

LEMMA WholePart ==
  ASSUME NEW X, NEW s \in Seq(X)
  PROVE  Part(s, 0, Len(s)) = s
BY DEF Part

LEMMA EmptyPart ==
  ASSUME NEW X, NEW s \in Seq(X), NEW a \in Nat, a <= Len(s)
  PROVE  Part(s, a, a) = <<>>
<1>1. Part(s, a, a) \in Seq(X) /\ Len(Part(s, a, a)) = a - a
  BY PartIs
<1> QED BY <1>1, EmptySeq

\* The next element is behind those before it.
LEMMA PartGrows ==
  ASSUME NEW X, NEW s \in Seq(X), NEW a \in Nat, NEW b \in Nat, a <= b, b < Len(s)
  PROVE  Part(s, a, b + 1) = Append(Part(s, a, b), s[b + 1])
<1>1. a + 1 \in Nat \ {0} /\ b + 1 \in 1..Len(s) /\ a + 1 <= b + 1 /\ (b + 1) - 1 = b
  OBVIOUS
<1> QED BY <1>1, SubSeqGrows DEF Part

\* Parts that meet.
LEMMA PartsJoin ==
  ASSUME NEW X, NEW s \in Seq(X), NEW a \in Nat, NEW b \in Nat, NEW c \in Nat,
         a <= b, b <= c, c <= Len(s)
  PROVE  Part(s, a, b) \o Part(s, b, c) = Part(s, a, c)
<1> DEFINE u == Part(s, a, b)
           v == Part(s, b, c)
           w == Part(s, a, c)
<1>0. a <= c /\ b <= Len(s)
  OBVIOUS
<1>1. u \in Seq(X) /\ Len(u) = b - a /\ \A k \in 1..(b - a) : u[k] = s[a + k]
  BY <1>0, PartIs
<1>2. v \in Seq(X) /\ Len(v) = c - b /\ \A k \in 1..(c - b) : v[k] = s[b + k]
  BY PartIs
<1>3. w \in Seq(X) /\ Len(w) = c - a /\ \A k \in 1..(c - a) : w[k] = s[a + k]
  BY <1>0, PartIs
<1> HIDE DEF u, v, w
<1> DEFINE x == u \o v
<1>4. u \in Seq(X) /\ v \in Seq(X)
  BY <1>1, <1>2
<1>5. /\ x \in Seq(X) /\ Len(x) = Len(u) + Len(v)
      /\ \A k \in 1..Len(u) + Len(v) : x[k] = IF k <= Len(u) THEN u[k] ELSE v[k - Len(u)]
  BY ONLY <1>4, ConcatProperties
<1> HIDE DEF x
<1>6. ASSUME NEW k \in 1..Len(w) PROVE x[k] = w[k]
  <2>1. k \in 1..(c - a) /\ k \in 1..Len(u) + Len(v)
    BY <1>1, <1>2, <1>3
  <2>2. CASE k <= b - a
    <3>1. k \in 1..(b - a)
      BY <2>1, <2>2
    <3> QED BY <1>1, <1>3, <1>5, <2>1, <2>2, <3>1
  <2>3. CASE ~ (k <= b - a)
    <3>1. k - (b - a) \in 1..(c - b) /\ b + (k - (b - a)) = a + k
      BY <2>1, <2>3
    <3> QED BY <1>1, <1>2, <1>3, <1>5, <2>1, <2>3, <3>1
  <2> QED BY <2>2, <2>3
<1>7. Len(w) = Len(x)
  BY <1>1, <1>2, <1>3, <1>5
<1>8. w = x
  <2>1. \A k \in 1..Len(w) : w[k] = x[k]
    BY <1>6
  <2> QED BY <1>3, <1>5, <2>1, <1>7, SameElements
<1> QED BY <1>8 DEF x, u, v, w

\* A part of a part.
LEMMA PartOfPart ==
  ASSUME NEW X, NEW s \in Seq(X), NEW d \in Nat, NEW t \in Nat, d <= t, t <= Len(s),
         NEW a \in Nat, NEW b \in Nat, a <= b, b <= t - d
  PROVE  Part(Part(s, d, t), a, b) = Part(s, d + a, d + b)
<1> DEFINE u == Part(s, d, t)
           v == Part(u, a, b)
           w == Part(s, d + a, d + b)
<1>1. u \in Seq(X) /\ Len(u) = t - d /\ \A k \in 1..(t - d) : u[k] = s[d + k]
  BY PartIs
<1>2. d + a \in Nat /\ d + b \in Nat /\ d + a <= d + b /\ d + b <= Len(s)
  OBVIOUS
<1>3. w \in Seq(X) /\ Len(w) = (d + b) - (d + a)
      /\ \A k \in 1..((d + b) - (d + a)) : w[k] = s[(d + a) + k]
  BY <1>2, PartIs
<1> HIDE DEF u, w
<1>4. v \in Seq(X) /\ Len(v) = b - a /\ \A k \in 1..(b - a) : v[k] = u[a + k]
  <2>1. u \in Seq(X)
    BY <1>1
  <2>2. b <= Len(u)
    BY <1>1
  <2> QED BY <2>1, <2>2, PartIs
<1> HIDE DEF v
<1>5. Len(v) = Len(w)
  BY <1>3, <1>4
<1>6. ASSUME NEW k \in 1..Len(v) PROVE v[k] = w[k]
  <2>1. k \in 1..(b - a) /\ a + k \in 1..(t - d) /\ k \in 1..((d + b) - (d + a))
        /\ d + (a + k) = (d + a) + k
    BY <1>4
  <2> QED BY <1>1, <1>3, <1>4, <2>1
<1>7. v = w
  BY <1>3, <1>4, <1>5, <1>6, SameElements
<1> QED BY <1>7 DEF u, v, w

\* A part does not change when the sequence grows.
LEMMA PartStays ==
  ASSUME NEW X, NEW s \in Seq(X), NEW t \in Seq(X), NEW a \in Nat, NEW b \in Nat,
         a <= b, b <= Len(s)
  PROVE  Part(s \o t, a, b) = Part(s, a, b)
<1> DEFINE u == s \o t
           v == Part(u, a, b)
           w == Part(s, a, b)
<1>1. u \in Seq(X) /\ Len(u) = Len(s) + Len(t) /\ \A k \in 1..Len(s) : u[k] = s[k]
  OBVIOUS
<1>2. w \in Seq(X) /\ Len(w) = b - a /\ \A k \in 1..(b - a) : w[k] = s[a + k]
  BY PartIs
<1> HIDE DEF u, w
<1>3. b <= Len(u)
  <2>1. Len(t) \in Nat /\ Len(s) \in Nat
    OBVIOUS
  <2> QED BY <1>1, <2>1
<1>4. v \in Seq(X) /\ Len(v) = b - a /\ \A k \in 1..(b - a) : v[k] = u[a + k]
  <2>1. u \in Seq(X)
    BY <1>1
  <2> QED BY <1>3, <2>1, PartIs
<1> HIDE DEF v
<1>5. \A k \in 1..(b - a) : a + k \in 1..Len(s)
  OBVIOUS
<1>6. \A k \in 1..Len(v) : v[k] = w[k]
  BY <1>1, <1>2, <1>4, <1>5
<1>7. v = w
  BY <1>2, <1>4, <1>6, SameElements
<1> QED BY <1>7 DEF u, v, w
=============================================================================

--------------------------- MODULE ProcInfoProofs ----------------------------
(***************************************************************************)
(* Proofs about ProcInfo, for any number of slots and CPUs and any bounds: *)
(* ps never finds more pids than the table has slots, getProcInfo tells of *)
(* no parent that is younger than its child, the listing of ps leaves out  *)
(* nobody who stays, and no test of testps.c ends in test_fail.            *)
(*                                                                         *)
(* First comes ps; then what the tests ask and are told, as functions of   *)
(* the results they have got; then the invariant that these results have,  *)
(* in a crowd and for a test that has the system to itself; and last what  *)
(* each test makes of them.                                                *)
(***************************************************************************)
EXTENDS ProcInfo, ProcTableProofs, FoldLemmas

USE TableAssumption, OwnersAssumption, CallsAssumption
USE DEF Slots, initproc, None, TicksChan

-----------------------------------------------------------------------------
(* What ps keeps and sorts.                                                *)

\* The function Keep folds with.
Keeping(g, s, S) ==
  g = [t \in SUBSET DOMAIN s |->
         IF t = {} THEN <<>>
         ELSE LET k == Max(t)
                  kept == g[t \ {k}]
              IN  IF s[k] \in S THEN Append(kept, s[k]) ELSE kept]

LEMMA KeepIsKeeping ==
  ASSUME NEW s, NEW S
  PROVE  Keep(s, S) = (CHOOSE g : Keeping(g, s, S))[DOMAIN s]
BY DEF Keep, FoldLeft, MapThenFoldSet, Keeping

\* What is kept after k elements.
LEMMA KeepHistory ==
  ASSUME NEW X, NEW s \in Seq(X), NEW S
  PROVE  \E h : /\ h[0] = <<>> /\ h[Len(s)] = Keep(s, S)
                /\ \A k \in 0..Len(s) - 1 :
                     h[k + 1] = IF s[k + 1] \in S THEN Append(h[k], s[k + 1]) ELSE h[k]
<1> DEFINE size == Len(s)
           V == Seq(X)
           D == [p \in (1..size) \X V |->
                   IF s[p[1]] \in S THEN Append(p[2], s[p[1]]) ELSE p[2]]
<1>1. size \in Nat /\ DOMAIN s = 1..size /\ \A k \in 1..size : s[k] \in X
  OBVIOUS
<1>2. <<>> \in V
  OBVIOUS
<1>3. D \in [(1..size) \X V -> V]
  <2>1. ASSUME NEW k \in 1..size, NEW v \in V PROVE Append(v, s[k]) \in V
    BY <1>1, AppendProperties
  <2>2. \A p \in (1..size) \X V : p[1] \in 1..size /\ p[2] \in V
    OBVIOUS
  <2> HIDE DEF V
  <2> QED BY <2>1, <2>2
<1>4. \A k \in 1..size, v \in V :
        D[<<k, v>>] = IF s[k] \in S THEN Append(v, s[k]) ELSE v
  OBVIOUS
<1> HIDE DEF V, D, size
<1>5. PICK g \in [SUBSET (1..size) -> V] : FoldsBy(g, size, V, <<>>, D)
  BY <1>1, <1>2, <1>3, FoldExists
<1> DEFINE Step(p, t) ==
             IF t = {} THEN <<>>
             ELSE LET k == Max(t)
                      kept == p[t \ {k}]
                  IN  IF s[k] \in S THEN Append(kept, s[k]) ELSE kept
<1>6. g = [t \in SUBSET (1..size) |-> Step(g, t)]
  <2>1. ASSUME NEW t \in SUBSET (1..size) PROVE g[t] = Step(g, t)
    <3>1. CASE t = {}
      BY <1>5, <3>1 DEF FoldsBy
    <3>2. CASE t # {}
      <4>1. Max(t) \in 1..size /\ g[t \ {Max(t)}] \in V
            /\ g[t] = D[<<Max(t), g[t \ {Max(t)}]>>]
        BY <1>5, <3>2 DEF FoldsBy
      <4> QED BY <1>4, <3>2, <4>1
    <3> QED BY <3>1, <3>2
  <2> HIDE DEF Step
  <2> QED BY <2>1
<1>7. Keeping(g, s, S)
  BY <1>1, <1>6 DEF Keeping
<1> DEFINE G == CHOOSE p : Keeping(p, s, S)
<1>8. Keeping(G, s, S)
  <2> HIDE DEF Keeping
  <2> QED BY <1>7
<1>9. Keep(s, S) = G[1..size]
  BY <1>1, KeepIsKeeping
<1> HIDE DEF G
<1>10. \A t \in SUBSET (1..size) : G[t] = Step(G, t)
  BY <1>1, <1>8 DEF Keeping
<1> DEFINE h == [k \in 0..size |-> G[1..k]]
<1>11. h[0] = <<>> /\ h[size] = Keep(s, S)
  <2>1. 1..0 = {} /\ 0 \in 0..size /\ size \in 0..size
    BY <1>1
  <2>2. G[1..0] = <<>>
    BY <1>10, <2>1
  <2> QED BY <1>9, <2>1, <2>2
<1>12. ASSUME NEW k \in 0..size - 1
       PROVE  h[k + 1] = IF s[k + 1] \in S THEN Append(h[k], s[k + 1]) ELSE h[k]
  <2>1. k \in Nat /\ k \in 0..size /\ k + 1 \in 0..size /\ 1..(k + 1) \in SUBSET (1..size)
    BY <1>1
  <2>2. /\ 1..(k + 1) # {} /\ Max(1..(k + 1)) = k + 1
        /\ (1..(k + 1)) \ {k + 1} = 1..k
    BY <2>1, LastOut
  <2>3. G[1..(k + 1)] = Step(G, 1..(k + 1))
    BY <1>10, <2>1
  <2>4. h[k] = G[1..k] /\ h[k + 1] = G[1..(k + 1)]
    BY <2>1
  <2> HIDE DEF h
  <2> QED BY <2>2, <2>3, <2>4
<1> HIDE DEF h
<1> QED BY <1>11, <1>12 DEF size

\* t holds those of the first m elements of s that are in S, the k-th of which
\* stands at at[k].
KeptAt(t, s, S, m, at) ==
  /\ at \in [1..Len(t) -> 1..m]
  /\ \A k \in 1..Len(t) : t[k] = s[at[k]] /\ s[at[k]] \in S
  /\ \A k, l \in 1..Len(t) : k < l => at[k] < at[l]
  /\ \A j \in 1..m : s[j] \in S => \E k \in 1..Len(t) : at[k] = j

LEMMA KeepsNone ==
  ASSUME NEW s, NEW S
  PROVE  \E at : KeptAt(<<>>, s, S, 0, at)
<1>1. KeptAt(<<>>, s, S, 0, [k \in 1..0 |-> k])
  BY DEF KeptAt
<1> QED BY <1>1

LEMMA KeepsOneMore ==
  ASSUME NEW X, NEW s \in Seq(X), NEW S, NEW m \in 0..Len(s) - 1, NEW t \in Seq(X),
         NEW at, KeptAt(t, s, S, m, at), s[m + 1] \in S
  PROVE  \E new : KeptAt(Append(t, s[m + 1]), s, S, m + 1, new)
<1> DEFINE size == Len(t)
           u == Append(t, s[m + 1])
           new == [k \in 1..(size + 1) |-> IF k = size + 1 THEN m + 1 ELSE at[k]]
<1>1. m \in Nat /\ size \in Nat /\ s[m + 1] \in X
  OBVIOUS
<1>2. Len(u) = size + 1 /\ u[size + 1] = s[m + 1] /\ \A k \in 1..size : u[k] = t[k]
  BY <1>1, AppendProperties
<1>3. /\ \A k \in 1..size : at[k] \in 1..m /\ t[k] = s[at[k]] /\ s[at[k]] \in S
      /\ \A k, l \in 1..size : k < l => at[k] < at[l]
      /\ \A j \in 1..m : s[j] \in S => \E k \in 1..size : at[k] = j
  BY DEF KeptAt
<1> HIDE DEF size, u
<1>4. \A k \in 1..(size + 1) : k \in 1..size \/ k = size + 1
  BY <1>1
<1>5. new[size + 1] = m + 1 /\ \A k \in 1..size : new[k] = at[k]
  BY <1>1
<1>6. new \in [1..(size + 1) -> 1..(m + 1)]
  <2>1. ASSUME NEW k \in 1..(size + 1) PROVE (IF k = size + 1 THEN m + 1 ELSE at[k]) \in 1..(m + 1)
    BY <1>1, <1>3, <1>4
  <2> QED BY <2>1
<1> HIDE DEF new
<1>7. \A k \in 1..(size + 1) : u[k] = s[new[k]] /\ s[new[k]] \in S
  <2>1. \A k \in 1..size : u[k] = s[new[k]] /\ s[new[k]] \in S
    BY <1>2, <1>3, <1>5
  <2>2. u[size + 1] = s[new[size + 1]] /\ s[new[size + 1]] \in S
    BY <1>2, <1>5
  <2> QED BY <1>4, <2>1, <2>2
<1>8. \A k, l \in 1..(size + 1) : k < l => new[k] < new[l]
  <2>1. ASSUME NEW k \in 1..(size + 1), NEW l \in 1..(size + 1), k < l PROVE new[k] < new[l]
    <3>1. k \in 1..size
      BY <1>1, <2>1
    <3>2. CASE l \in 1..size
      BY <1>3, <1>5, <2>1, <3>1, <3>2
    <3>3. CASE l = size + 1
      <4>1. new[k] \in 1..m /\ new[l] = m + 1
        BY <1>3, <1>5, <3>1, <3>3
      <4> QED BY <1>1, <4>1
    <3> QED BY <1>4, <3>2, <3>3
  <2> QED BY <2>1
<1>9. \A j \in 1..(m + 1) : s[j] \in S => \E k \in 1..(size + 1) : new[k] = j
  <2>1. ASSUME NEW j \in 1..(m + 1), s[j] \in S PROVE \E k \in 1..(size + 1) : new[k] = j
    <3>1. CASE j \in 1..m
      <4>1. PICK k \in 1..size : at[k] = j
        BY <1>3, <2>1, <3>1
      <4>2. k \in 1..(size + 1) /\ new[k] = j
        BY <1>1, <1>5, <4>1
      <4> QED BY <4>2
    <3>2. CASE j = m + 1
      <4>1. size + 1 \in 1..(size + 1)
        BY <1>1
      <4> QED BY <1>5, <3>2, <4>1
    <3>3. j \in 1..m \/ j = m + 1
      BY <1>1
    <3> QED BY <3>1, <3>2, <3>3
  <2> QED BY <2>1
<1>10. KeptAt(u, s, S, m + 1, new)
  BY <1>2, <1>6, <1>7, <1>8, <1>9 DEF KeptAt
<1> QED BY <1>10 DEF u

LEMMA KeepsNoMore ==
  ASSUME NEW s, NEW S, NEW m \in Nat, NEW t,
         NEW at, KeptAt(t, s, S, m, at), s[m + 1] \notin S
  PROVE  KeptAt(t, s, S, m + 1, at)
<1>1. \A j \in 1..(m + 1) : j \in 1..m \/ j = m + 1
  OBVIOUS
<1>2. 1..m \subseteq 1..(m + 1)
  OBVIOUS
<1>3. at \in [1..Len(t) -> 1..(m + 1)]
  BY <1>2 DEF KeptAt
<1>4. \A j \in 1..(m + 1) : s[j] \in S => \E k \in 1..Len(t) : at[k] = j
  BY <1>1 DEF KeptAt
<1> QED BY <1>3, <1>4 DEF KeptAt

\* Keep keeps what is in S, all of it and in order.
LEMMA KeepIs ==
  ASSUME NEW X, NEW s \in Seq(X), NEW S
  PROVE  Keep(s, S) \in Seq(X) /\ \E at : KeptAt(Keep(s, S), s, S, Len(s), at)
<1>1. PICK h : /\ h[0] = <<>> /\ h[Len(s)] = Keep(s, S)
               /\ \A k \in 0..Len(s) - 1 :
                    h[k + 1] = IF s[k + 1] \in S THEN Append(h[k], s[k + 1]) ELSE h[k]
  BY KeepHistory
<1> DEFINE OK(k) == h[k] \in Seq(X) /\ \E at : KeptAt(h[k], s, S, k, at)
           Good == {k \in Nat : k <= Len(s) => OK(k)}
<1>2. 0 \in Good
  <2>1. h[0] = <<>> /\ <<>> \in Seq(X)
    BY <1>1
  <2>2. \E at : KeptAt(h[0], s, S, 0, at)
    BY <2>1, KeepsNone
  <2>3. OK(0)
    BY <2>1, <2>2
  <2> HIDE DEF OK
  <2> QED BY <2>3
<1>3. ASSUME NEW k \in Nat, k \in Good PROVE k + 1 \in Good
  <2>1. ASSUME k + 1 <= Len(s) PROVE OK(k + 1)
    <3>1. k \in 0..Len(s) - 1 /\ k <= Len(s) /\ k + 1 \in 1..Len(s)
      BY <2>1
    <3>2. OK(k)
      BY <1>3, <3>1
    <3>3. s[k + 1] \in X
      BY <3>1
    <3>4. PICK at : KeptAt(h[k], s, S, k, at)
      BY <3>2
    <3>5. CASE s[k + 1] \in S
      <4>1. h[k + 1] = Append(h[k], s[k + 1])
        BY <1>1, <3>1, <3>5
      <4>2. \E new : KeptAt(Append(h[k], s[k + 1]), s, S, k + 1, new)
        BY <3>1, <3>2, <3>4, <3>5, KeepsOneMore
      <4>3. h[k + 1] \in Seq(X)
        BY <3>2, <3>3, <4>1, AppendProperties
      <4> QED BY <4>1, <4>2, <4>3
    <3>6. CASE s[k + 1] \notin S
      <4>1. h[k + 1] = h[k]
        BY <1>1, <3>1, <3>6
      <4>2. KeptAt(h[k], s, S, k + 1, at)
        BY <3>4, <3>6, KeepsNoMore
      <4> QED BY <3>2, <4>1, <4>2
    <3> QED BY <3>5, <3>6
  <2> HIDE DEF OK
  <2>2. k + 1 \in Nat
    OBVIOUS
  <2> QED BY <2>1, <2>2
<1> HIDE DEF Good
<1>4. \A k \in Nat : k \in Good
  BY <1>2, <1>3, Induction
<1>5. Len(s) \in Nat /\ Len(s) <= Len(s)
  OBVIOUS
<1>6. OK(Len(s))
  BY <1>4, <1>5 DEF Good
<1> QED BY <1>1, <1>6

\* An array of numbers that go up.
Ascends(s) == \A k, l \in 1..Len(s) : k < l => s[k] < s[l]

\* A fold that changes nothing at any step changes nothing.
LEMMA NothingFolds ==
  ASSUME NEW num \in Int, NEW s, NEW G, G[{}] = s,
         \A k \in Nat : k + 1 <= num /\ G[1..k] = s => G[1..(k + 1)] = s
  PROVE  G[1..num] = s
<1> DEFINE Good == {k \in Nat : k <= num => G[1..k] = s}
<1>1. 1..0 = {} /\ (~ (num \in Nat) => 1..num = {})
  OBVIOUS
<1>2. 0 \in Good
  BY <1>1
<1>3. ASSUME NEW k \in Nat, k \in Good PROVE k + 1 \in Good
  BY <1>3
<1> HIDE DEF Good
<1>4. \A k \in Nat : k \in Good
  BY <1>2, <1>3, Induction
<1>5. num <= num
  OBVIOUS
<1> QED BY <1>1, <1>4, <1>5 DEF Good

\* The greatest of some of the first numbers is one of them.
LEMMA MaxIsOneOf ==
  ASSUME NEW num \in Int, NEW t \in SUBSET (1..num), t # {}
  PROVE  Max(t) \in 1..num
<1>1. 1..num \in SUBSET Int /\ IsFiniteSet(1..num)
  BY FS_Interval
<1>2. Max(t) \in t
  BY <1>1, MaxIsElement
<1> QED BY <1>2

LEMMA SwapsNothing ==
  ASSUME NEW s \in Seq(Nat), Ascends(s), NEW j \in 1..Len(s) - 1
  PROVE  Swap(s, j) = s
<1>1. j \in 1..Len(s) /\ j + 1 \in 1..Len(s) /\ j < j + 1
  OBVIOUS
<1>2. s[j] < s[j + 1]
  BY <1>1 DEF Ascends
<1>3. s[j] \in Nat /\ s[j + 1] \in Nat
  BY <1>1
<1>4. ~ (s[j] > s[j + 1])
  BY <1>2, <1>3
<1> QED BY <1>4 DEF Swap

\* The functions that the two loops of sortPids fold with.
Passing(g, s, last) ==
  g = [t \in SUBSET DOMAIN [j \in 1..last |-> j] |->
         IF t = {} THEN s
         ELSE LET k == Max(t) IN Swap(g[t \ {k}], [j \in 1..last |-> j][k])]

Sorting(g, s) ==
  g = [t \in SUBSET DOMAIN [i \in 1..(Len(s) - 1) |-> i] |->
         IF t = {} THEN s
         ELSE LET k == Max(t)
              IN  BubblePass(g[t \ {k}], Len(s) - [i \in 1..(Len(s) - 1) |-> i][k])]

LEMMA PassIsPassing ==
  ASSUME NEW s, NEW last
  PROVE  BubblePass(s, last) = (CHOOSE g : Passing(g, s, last))[DOMAIN [j \in 1..last |-> j]]
BY DEF BubblePass, FoldLeft, MapThenFoldSet, Passing

LEMMA SortIsSorting ==
  ASSUME NEW s
  PROVE  sortPids(s) = (CHOOSE g : Sorting(g, s))[DOMAIN [i \in 1..(Len(s) - 1) |-> i]]
BY DEF sortPids, FoldLeft, MapThenFoldSet, Sorting

\* One pass of the bubble sort leaves an array alone that goes up.
LEMMA PassChangesNothing ==
  ASSUME NEW s \in Seq(Nat), Ascends(s), NEW last \in Int, last <= Len(s) - 1
  PROVE  BubblePass(s, last) = s
<1> DEFINE D == 1..last
           id == [j \in D |-> j]
           Step(p, t) == IF t = {} THEN s
                         ELSE LET k == Max(t) IN Swap(p[t \ {k}], id[k])
           g == [t \in SUBSET D |-> s]
           G == CHOOSE p : Passing(p, s, last)
<1>1. \A k \in D : Swap(s, k) = s /\ id[k] = k
  <2>1. \A k \in D : k \in 1..Len(s) - 1
    OBVIOUS
  <2> QED BY <2>1, SwapsNothing
<1>2. \A t \in SUBSET D : t # {} => Max(t) \in D /\ t \ {Max(t)} \in SUBSET D
  BY MaxIsOneOf
<1>3. DOMAIN id = D
  OBVIOUS
<1> HIDE DEF D
<1>4. \A p : Passing(p, s, last) <=> p = [t \in SUBSET D |-> Step(p, t)]
  BY <1>3 DEF Passing, D
<1>5. g = [t \in SUBSET D |-> Step(g, t)]
  <2>1. ASSUME NEW t \in SUBSET D PROVE Step(g, t) = s
    <3>1. CASE t # {}
      <4>1. Max(t) \in D /\ g[t \ {Max(t)}] = s
        BY <1>2, <3>1
      <4> QED BY <1>1, <3>1, <4>1
    <3> QED BY <3>1
  <2>2. \A t \in SUBSET D : g[t] = Step(g, t)
    BY <2>1
  <2> HIDE DEF Step
  <2> QED BY <2>2
<1>6. Passing(G, s, last)
  <2>1. Passing(g, s, last)
    <3> HIDE DEF g, Step
    <3> QED BY <1>4, <1>5
  <2> HIDE DEF Passing
  <2> QED BY <2>1
<1>7. BubblePass(s, last) = G[D]
  BY <1>3, PassIsPassing DEF D
<1> HIDE DEF G
<1>8. \A t \in SUBSET D : G[t] = Step(G, t)
  <2>1. G = [t \in SUBSET D |-> Step(G, t)]
    BY <1>4, <1>6
  <2> HIDE DEF Step
  <2> QED BY <2>1, Zenon
<1>9. G[{}] = s
  BY <1>8
<1>10. ASSUME NEW k \in Nat, k + 1 <= last, G[1..k] = s PROVE G[1..(k + 1)] = s
  <2>1. 1..(k + 1) \in SUBSET D /\ k + 1 \in D
    BY <1>10 DEF D
  <2>2. 1..(k + 1) # {} /\ Max(1..(k + 1)) = k + 1 /\ (1..(k + 1)) \ {k + 1} = 1..k
    BY LastOut
  <2>3. G[1..(k + 1)] = Step(G, 1..(k + 1))
    BY <1>8, <2>1
  <2>4. Step(G, 1..(k + 1)) = Swap(G[1..k], id[k + 1])
    BY <2>2
  <2> QED BY <1>1, <1>10, <2>1, <2>3, <2>4
<1>11. G[1..last] = s
  BY <1>9, <1>10, NothingFolds
<1> QED BY <1>7, <1>11 DEF D

\* ps asks for pids that go up, so there is nothing to sort.
LEMMA SortChangesNothing ==
  ASSUME NEW s \in Seq(Nat), Ascends(s)
  PROVE  sortPids(s) = s
<1> DEFINE last == Len(s) - 1
           D == 1..last
           id == [i \in D |-> i]
           Step(p, t) == IF t = {} THEN s
                         ELSE LET k == Max(t) IN BubblePass(p[t \ {k}], Len(s) - id[k])
           g == [t \in SUBSET D |-> s]
           G == CHOOSE p : Sorting(p, s)
<1>1. last \in Int /\ \A k \in D : BubblePass(s, Len(s) - k) = s /\ id[k] = k
  <2>1. \A k \in D : Len(s) - k \in Int /\ Len(s) - k <= Len(s) - 1
    OBVIOUS
  <2> QED BY <2>1, PassChangesNothing
<1>2. \A t \in SUBSET D : t # {} => Max(t) \in D /\ t \ {Max(t)} \in SUBSET D
  BY <1>1, MaxIsOneOf
<1>3. DOMAIN id = D
  OBVIOUS
<1> HIDE DEF D
<1>4. \A p : Sorting(p, s) <=> p = [t \in SUBSET D |-> Step(p, t)]
  BY <1>3 DEF Sorting, D
<1>5. g = [t \in SUBSET D |-> Step(g, t)]
  <2>1. ASSUME NEW t \in SUBSET D PROVE Step(g, t) = s
    <3>1. CASE t # {}
      <4>1. Max(t) \in D /\ g[t \ {Max(t)}] = s
        BY <1>2, <3>1
      <4> QED BY <1>1, <3>1, <4>1
    <3> QED BY <3>1
  <2>2. \A t \in SUBSET D : g[t] = Step(g, t)
    BY <2>1
  <2> HIDE DEF Step
  <2> QED BY <2>2
<1>6. Sorting(G, s)
  <2>1. Sorting(g, s)
    <3> HIDE DEF g, Step
    <3> QED BY <1>4, <1>5
  <2> HIDE DEF Sorting
  <2> QED BY <2>1
<1>7. sortPids(s) = G[D]
  BY <1>3, SortIsSorting DEF D
<1> HIDE DEF G
<1>8. \A t \in SUBSET D : G[t] = Step(G, t)
  <2>1. G = [t \in SUBSET D |-> Step(G, t)]
    BY <1>4, <1>6
  <2> HIDE DEF Step
  <2> QED BY <2>1, Zenon
<1>9. G[{}] = s
  BY <1>8
<1>10. ASSUME NEW k \in Nat, k + 1 <= last, G[1..k] = s PROVE G[1..(k + 1)] = s
  <2>1. 1..(k + 1) \in SUBSET D /\ k + 1 \in D
    BY <1>1, <1>10 DEF D
  <2>2. 1..(k + 1) # {} /\ Max(1..(k + 1)) = k + 1 /\ (1..(k + 1)) \ {k + 1} = 1..k
    BY LastOut
  <2>3. G[1..(k + 1)] = Step(G, 1..(k + 1))
    BY <1>8, <2>1
  <2>4. Step(G, 1..(k + 1)) = BubblePass(G[1..k], Len(s) - id[k + 1])
    BY <2>2
  <2> QED BY <1>1, <1>10, <2>1, <2>3, <2>4
<1>11. G[1..last] = s
  BY <1>1, <1>9, <1>10, NothingFolds
<1> QED BY <1>7, <1>11 DEF D

-----------------------------------------------------------------------------
(* The invariant of ps.                                                    *)

\* Who runs no program has no results, and only a process that lives and has
\* not exited runs one.
ProgramInv ==
  /\ prog = [p \in Slots |-> prog[p]] /\ got = [p \in Slots |-> got[p]]
  /\ nextpid > 0
  /\ \A p \in Slots :
       /\ prog[p] = "any" => got[p] = <<>>
       /\ state[p] \in {"UNUSED", "EMBRYO", "ZOMBIE"} => prog[p] = "any"

\* Each pid that ps has found was seen in a slot of its own: there is no process
\* in it now, or still that one, or a later one, which has a pid ps does not
\* ask for.
OwnSlots(g) ==
  \E slot \in Injection(Found(g), Slots) :
    \A i \in Found(g) :
      state[slot[i]] = "UNUSED" \/ pid[slot[i]] = i \/ pid[slot[i]] > g[2].ret

\* What ps has been told so far.
Listing(g) ==
  /\ g \in Seq(Range(g))
  /\ Len(g) >= 2 => g[2].ret \in Nat /\ g[2].ret < nextpid /\ OwnSlots(g)

PsInv ==
  \A p \in RunsPs : pc[p] \in {"user", "exit"} /\ Listing(got[p])

PInv == ProgramInv /\ PsInv

LEMMA LenIsNat ==
  ASSUME NEW g, g \in Seq(Range(g))
  PROVE  Len(g) \in Nat
BY LenProperties

LEMMA NoneOneOrMore == \A k \in Nat : k = 0 \/ k = 1 \/ (k >= 2 /\ ~ (k < 2))
OBVIOUS

\* The calls of ps.
LEMMA PsCalls ==
  ASSUME NEW g, g \in Seq(Range(g)), Len(g) >= 2 => g[2].ret \in Nat
  PROVE  /\ Len(g) = 0 => ps(g) = Num
         /\ Len(g) = 1 => ps(g) = MaxPidCall
         /\ Len(g) >= 2 /\ Len(g) < 2 + g[2].ret => ps(g) = Exists(Len(g) - 1)
         /\ Len(g) >= 2 /\ ~ (Len(g) < 2 + g[2].ret) =>
              ps(g)[1] \in {"getProcInfo", "exit"}
<1>1. Len(g) \in Nat
  BY LenIsNat
<1>2. CASE Len(g) < 2
  <2>1. ps(g) = Run(<<Num, MaxPidCall>>, g, Exit_)
    BY <1>2 DEF ps
  <2>2. Run(<<Num, MaxPidCall>>, g, Exit_) = <<Num, MaxPidCall>>[Len(g) + 1]
    BY <1>1, <1>2 DEF Run
  <2>3. Len(g) = 0 \/ Len(g) = 1
    BY ONLY <1>1, <1>2, NoneOneOrMore, Zenon
  <2> QED BY <1>2, <2>1, <2>2, <2>3
<1>3. CASE Len(g) >= 2
  BY <1>1, <1>3 DEF ps, Info, Exit_
<1> QED BY <1>1, <1>2, <1>3

\* All of them are calls that only look, but exit.
LEMMA PsCallNames ==
  ASSUME NEW g, g \in Seq(Range(g)), Len(g) >= 2 => g[2].ret \in Nat
  PROVE  ps(g)[1] \in {"getNumProc", "getMaxPid", "exists", "getProcInfo", "exit"}
<1>1. Len(g) \in Nat
  BY LenIsNat
<1>2. Len(g) = 0 \/ Len(g) = 1 \/ Len(g) >= 2
  BY ONLY <1>1, NoneOneOrMore, Zenon
<1> QED BY <1>2, PsCalls DEF Num, MaxPidCall, Exists

LEMMA PsIsCalled == \A g : NextCall("ps", g) = ps(g)
BY DEF NextCall

\* getMaxPid returns a pid that has been given out, or 0, and no less than any.
LEMMA MaxIsGivenOut ==
  ASSUME IInv, nextpid > 0
  PROVE  /\ getMaxPid \in Nat /\ getMaxPid < nextpid /\ getMaxPid \in ActivePids \cup {0}
         /\ \A j \in ActivePids : j \in Nat /\ j > 0 /\ j <= getMaxPid
<1> DEFINE S == ActivePids \cup {0}
           Bounds == {m \in Nat : \A j \in ActivePids : j <= m}
<1>1. nextpid \in Nat /\ \A j \in S : j \in Nat /\ j < nextpid
  BY DEF IInv, TypeOK, PidsUnique, ActivePids, Active
<1>2. IsWellFoundedOn(Less, Nat)
  BY NatLessThanWellFounded DEF Less
<1>3. nextpid \in Bounds
  BY <1>1
<1>4. PICK m \in Bounds : \A q \in Bounds : ~ (<<q, m>> \in Less)
  BY <1>2, <1>3, WFMin
<1>5. \A q \in Bounds : ~ (q < m)
  BY <1>4, LessIsLess
<1>6. m \in S
  <2>1. SUFFICES ASSUME m \notin S PROVE FALSE
    OBVIOUS
  <2>2. m - 1 \in Nat /\ m - 1 < m
    BY <2>1, <1>4
  <2>3. \A j \in ActivePids : j <= m - 1
    BY <1>1, <1>4, <2>1
  <2> QED BY <1>5, <2>2, <2>3
<1>7. \E x \in S : \A j \in ActivePids : j <= x
  BY <1>4, <1>6
<1> HIDE DEF S
<1>8. getMaxPid = CHOOSE x \in S : \A j \in ActivePids : j <= x
  BY DEF getMaxPid, S
<1>9. getMaxPid \in S /\ \A j \in ActivePids : j <= getMaxPid
  BY <1>7, <1>8, Zenon
<1>10. \A j \in ActivePids : j \in S /\ j > 0
  <2>1. \A p \in Active : pid[p] \in 1..(nextpid - 1)
    BY DEF IInv, PidsUnique, Active
  <2>2. \A j \in 1..(nextpid - 1) : j > 0
    BY <1>1
  <2> QED BY <2>1, <2>2 DEF ActivePids, S
<1>11. getMaxPid \in ActivePids \cup {0}
  BY <1>9 DEF S
<1> QED BY <1>1, <1>9, <1>10, <1>11

\* What getProcInfo finds is in a slot.
LEMMA FoundInSlot ==
  ASSUME NEW i, getProcInfo(i).ret = 0
  PROVE  \E q \in Slots : state[q] # "UNUSED" /\ pid[q] = i
<1>1. SUFFICES ASSUME {p \in Active : pid[p] = i} = {} PROVE FALSE
  BY DEF Active
<1>2. getProcInfo(i).ret = -1
  BY <1>1 DEF getProcInfo, Result
<1> QED BY <1>2

\* One more result.
LEMMA OneMore ==
  ASSUME NEW g, g \in Seq(Range(g)), NEW r, NEW h, h = Append(g, r)
  PROVE  /\ h \in Seq(Range(h)) /\ Len(g) \in Nat /\ Len(h) = Len(g) + 1
         /\ \A k \in 1..Len(g) : h[k] = g[k]
         /\ h[Len(g) + 1] = r
<1> DEFINE S == Range(g) \cup {r}
<1>1. g \in Seq(S) /\ r \in S
  BY SeqMonotonic
<1>2. /\ h \in Seq(S) /\ Len(h) = Len(g) + 1
      /\ \A k \in 1..Len(g) : h[k] = g[k]
      /\ h[Len(g) + 1] = r
  BY <1>1, AppendProperties
<1>3. h \in [1..Len(h) -> S] /\ DOMAIN h = 1..Len(h) /\ Len(h) \in Nat
  BY <1>2, LenProperties
<1>4. h \in [1..Len(h) -> Range(h)]
  BY <1>3 DEF Range
<1>5. h \in Seq(Range(h))
  BY ONLY <1>3, <1>4
<1> QED BY <1>2, <1>5, LenIsNat

\* ps is told the greatest pid.
LEMMA MaxIsTold ==
  ASSUME IInv, nextpid > 0, NEW g, Listing(g), Len(g) = 1,
         NEW r, r.ret = getMaxPid
  PROVE  Listing(Append(g, r))
<1> DEFINE h == Append(g, r)
<1>0. /\ h \in Seq(Range(h)) /\ Len(g) \in Nat /\ Len(h) = Len(g) + 1
      /\ h[Len(g) + 1] = r
  BY OneMore DEF Listing
<1>1. h \in Seq(Range(h)) /\ Len(h) = 2 /\ h[2] = r
  BY <1>0
<1>2. h[2].ret \in Nat /\ h[2].ret < nextpid
  BY <1>1, MaxIsGivenOut
<1> HIDE DEF h
<1>3. Found(h) = {}
  BY <1>1 DEF Found
<1>4. [i \in {} |-> 1] \in Injection({}, Slots)
  BY DEF Injection, IsInjective
<1>5. OwnSlots(h)
  BY <1>3, <1>4 DEF OwnSlots
<1>6. Listing(h)
  BY <1>1, <1>2, <1>5 DEF Listing
<1> QED BY <1>6 DEF h

\* ps is told of one more pid: if it is there, its slot is none of those of the
\* pids found before.
LEMMA PidIsTold ==
  ASSUME IInv, NEW g, Listing(g), Len(g) >= 2, Len(g) < 2 + g[2].ret,
         NEW r, r.ret = getProcInfo(Len(g) - 1).ret
  PROVE  Listing(Append(g, r))
<1> DEFINE h == Append(g, r)
           L == Len(g)
           M == g[2].ret
<1>1. /\ h \in Seq(Range(h)) /\ L \in Nat /\ Len(h) = L + 1
      /\ \A k \in 1..L : h[k] = g[k]
      /\ h[L + 1] = r
  BY OneMore DEF Listing
<1>2. /\ M \in Nat /\ M < nextpid /\ L >= 2 /\ L < 2 + M
      /\ L - 1 \in Nat /\ L - 1 <= M
  BY <1>1 DEF Listing
<1>3. PICK slot \in Injection(Found(g), Slots) :
        \A i \in Found(g) :
          state[slot[i]] = "UNUSED" \/ pid[slot[i]] = i \/ pid[slot[i]] > M
  BY DEF Listing, OwnSlots
<1>4. h[2].ret = M
  BY <1>1, <1>2
<1>5. Found(g) = {i \in 1..M : i + 2 <= L /\ g[i + 2].ret = 0}
  BY <1>2 DEF Found
<1>6. Found(h) = {i \in 1..M : i + 2 <= L + 1 /\ h[i + 2].ret = 0}
  BY <1>1, <1>2, <1>4 DEF Found
<1> HIDE DEF h, L, M
<1>7. \A i \in 1..M : i + 2 <= L => h[i + 2] = g[i + 2] /\ i < L - 1
  BY <1>1, <1>2
<1>8. Found(h) = Found(g) \cup (IF r.ret = 0 THEN {L - 1} ELSE {})
  <2>1. \A i \in 1..M : i + 2 <= L + 1 => i + 2 <= L \/ i = L - 1
    BY <1>1, <1>2
  <2>2. L - 1 \in 1..M /\ (L - 1) + 2 = L + 1 /\ (L - 1) + 2 <= L + 1
    BY <1>1, <1>2
  <2>3. \A i \in 1..M : i + 2 <= L => i + 2 <= L + 1
    BY <1>1, <1>2
  <2> QED BY <1>1, <1>5, <1>6, <1>7, <2>1, <2>2, <2>3
<1>9. /\ slot \in [Found(g) -> Slots]
      /\ \A i, j \in Found(g) : slot[i] = slot[j] => i = j
  BY <1>3 DEF Injection, IsInjective
<1>10. OwnSlots(h)
  <2>1. CASE r.ret # 0
    <3>1. Found(h) = Found(g)
      BY <1>8, <2>1
    <3> QED BY <1>3, <1>4, <3>1 DEF OwnSlots
  <2>2. CASE r.ret = 0
    <3>1. PICK q \in Slots : state[q] # "UNUSED" /\ pid[q] = L - 1
      BY <2>2, FoundInSlot DEF L
    <3>2. \A i \in Found(g) : slot[i] # q /\ i # L - 1
      BY <1>2, <1>3, <1>5, <1>7, <3>1
    <3> DEFINE new == [i \in Found(h) |-> IF i = L - 1 THEN q ELSE slot[i]]
    <3>3. Found(h) = Found(g) \cup {L - 1}
      BY <1>8, <2>2
    <3>4. new \in [Found(h) -> Slots]
      BY <1>9, <3>3
    <3>5. \A i, j \in Found(h) : new[i] = new[j] => i = j
      BY <1>9, <3>2, <3>3
    <3>6. new \in Injection(Found(h), Slots)
      BY <3>4, <3>5 DEF Injection, IsInjective
    <3>7. \A i \in Found(h) : state[new[i]] = "UNUSED" \/ pid[new[i]] = i \/ pid[new[i]] > M
      BY <1>3, <3>1, <3>2, <3>3
    <3> QED BY <1>4, <3>6, <3>7 DEF OwnSlots
  <2> QED BY <2>1, <2>2
<1>11. Listing(h)
  BY <1>1, <1>2, <1>4, <1>10 DEF Listing
<1> QED BY <1>11 DEF h

\* ps is told what it prints.
LEMMA RowIsTold ==
  ASSUME NEW g, Listing(g), Len(g) >= 2, ~ (Len(g) < 2 + g[2].ret), NEW r
  PROVE  Listing(Append(g, r))
<1> DEFINE h == Append(g, r)
           L == Len(g)
           M == g[2].ret
<1>1. /\ h \in Seq(Range(h)) /\ L \in Nat /\ Len(h) = L + 1
      /\ \A k \in 1..L : h[k] = g[k]
      /\ h[L + 1] = r
  BY OneMore DEF Listing
<1>2. M \in Nat /\ M < nextpid /\ L >= 2 /\ M + 2 <= L /\ OwnSlots(g)
  BY <1>1 DEF Listing
<1>3. h[2].ret = M
  BY <1>1, <1>2
<1>4. Found(g) = {i \in 1..M : i + 2 <= L /\ g[i + 2].ret = 0}
  BY <1>2 DEF Found
<1>5. Found(h) = {i \in 1..M : i + 2 <= L + 1 /\ h[i + 2].ret = 0}
  BY <1>1, <1>2, <1>3 DEF Found
<1> HIDE DEF h, L, M
<1>6. \A i \in 1..M : i + 2 <= L /\ i + 2 <= L + 1 /\ h[i + 2] = g[i + 2]
  BY <1>1, <1>2
<1>7. Found(h) = Found(g)
  BY <1>4, <1>5, <1>6
<1>8. OwnSlots(h)
  BY <1>2, <1>3, <1>7 DEF OwnSlots, M
<1>9. Listing(h)
  BY <1>1, <1>2, <1>3, <1>8 DEF Listing
<1> QED BY <1>9 DEF h

-----------------------------------------------------------------------------
(* The steps of the programs.                                              *)

ProgramStep(c) ==
  \/ Start(c) \/ GetInfo(c) \/ GetPid(c) \/ Files(c) \/ Grow(c) \/ Finish(c)
  \/ CloseFiles(c)

\* What ps has been told stays true while the table does not change.
LEMMA ListingCarries ==
  ASSUME UNCHANGED <<state, pid, nextpid>>, NEW p, Listing(got'[p])
  PROVE  Listing(got[p])'
BY DEF Listing, OwnSlots, Found

\* While a program runs the table stays, and only the program that runs is
\* told something.
LEMMA ProgramsLeaveTheTable ==
  ASSUME NEW c \in CPUs, ProgramStep(c)
  PROVE  UNCHANGED vars
BY DEF ProgramStep, Start, GetInfo, GetPid, Files, Grow, Finish, CloseFiles

\* A process that does not run ps makes its calls.
LEMMA PsUntouched ==
  ASSUME PInv, UNCHANGED vars, prog' = prog, NEW p \in Running, prog[p] # "ps",
         NEW r, got' = [got EXCEPT ![p] = Append(@, r)]
  PROVE  PInv'
<1>1. UNCHANGED <<state, pid, nextpid, pc>>
  BY DEF vars, procVars, threadVars
<1>2. \A q \in Slots \ {p} : got'[q] = got[q]
  BY DEF PInv, ProgramInv
<1>3. ProgramInv'
  BY <1>1, <1>2 DEF PInv, ProgramInv, Running
<1>4. \A q \in RunsPs : got'[q] = got[q] /\ q \in Slots
  BY <1>2 DEF RunsPs
<1>5. RunsPs' = RunsPs
  BY DEF RunsPs
<1>6. \A q \in RunsPs : Listing(got'[q])
  BY <1>4 DEF PInv, PsInv
<1>7. \A q \in RunsPs : Listing(got[q])'
  BY <1>1, <1>6, ListingCarries
<1>8. PsInv'
  BY <1>1, <1>5, <1>7 DEF PInv, PsInv
<1> QED BY <1>3, <1>8 DEF PInv

LEMMA StartKeepsPs ==
  ASSUME IInv, PInv, NEW c \in CPUs, Start(c)
  PROVE  PInv'
<1>1. PICK p \in Slots : /\ InUser(c, p) /\ Running = {}
                         /\ \E t : prog' = [prog EXCEPT ![p] = t]
  BY DEF Start
<1>2. UNCHANGED <<state, pid, nextpid, pc, got>>
  BY DEF Start, vars, procVars, threadVars
<1>3. /\ state[p] = "RUNNING" /\ pc[p] = "user"
  BY <1>1, OnItsCpu DEF InUser, IInv
<1>4. \A q \in Slots : prog[q] = "any" /\ got[q] = <<>>
  BY <1>1 DEF Running, PInv, ProgramInv
<1>5. \A q \in Slots \ {p} : prog'[q] = "any"
  BY <1>1, <1>4 DEF PInv, ProgramInv
<1>6. ProgramInv'
  BY <1>1, <1>2, <1>3, <1>4, <1>5 DEF PInv, ProgramInv
<1>7. RunsPs' \subseteq {p}
  BY <1>5 DEF RunsPs
<1>8. Listing(<<>>)
  BY EmptySeq DEF Listing
<1>9. Listing(got[p])'
  BY <1>2, <1>4, <1>8, ListingCarries
<1>10. PsInv'
  BY <1>2, <1>3, <1>7, <1>9 DEF PsInv
<1> QED BY <1>6, <1>10 DEF PInv

\* One more of the answers that ps waits for.
LEMMA AnswerKeepsPs ==
  ASSUME IInv, PInv, NEW c \in CPUs, GetInfo(c)
  PROVE  PInv'
<1>1. PICK p \in Running :
        \E r : /\ Got(p, r)
               /\ Calling(p) = MaxPidCall => r.ret = getMaxPid
               /\ Calling(p)[1] = "exists" => r.ret = getProcInfo(Calling(p)[2]).ret
  BY DEF GetInfo, Num, MaxPidCall, Result, exists
<1>2. PICK r : /\ got' = [got EXCEPT ![p] = Append(@, r)]
               /\ Calling(p) = MaxPidCall => r.ret = getMaxPid
               /\ Calling(p)[1] = "exists" => r.ret = getProcInfo(Calling(p)[2]).ret
  BY <1>1 DEF Got
<1>3. UNCHANGED vars /\ prog' = prog
  BY DEF GetInfo
<1>4. CASE prog[p] # "ps"
  BY <1>2, <1>3, <1>4, PsUntouched
<1>5. CASE prog[p] = "ps"
  <2>1. UNCHANGED <<state, pid, nextpid, pc>>
    BY <1>3 DEF vars, procVars, threadVars
  <2>2. p \in RunsPs /\ p \in Slots
    BY <1>5 DEF Running, RunsPs
  <2>3. Listing(got[p]) /\ got[p] \in Seq(Range(got[p]))
        /\ (Len(got[p]) >= 2 => got[p][2].ret \in Nat)
    BY <2>2 DEF PInv, PsInv, Listing
  <2>4. got'[p] = Append(got[p], r) /\ \A q \in Slots \ {p} : got'[q] = got[q]
    BY <1>2, <2>2 DEF PInv, ProgramInv
  <2>5. Calling(p) = ps(got[p])
    BY <1>5, PsIsCalled DEF Calling
  <2>6. nextpid > 0
    BY DEF PInv, ProgramInv
  <2>7. Listing(got'[p])
    <3>1. CASE Len(got[p]) = 0
      <4>1. got'[p] \in Seq(Range(got'[p])) /\ Len(got'[p]) = 1
        <5> DEFINE g == got[p]
                   h == Append(g, r)
        <5>1. h \in Seq(Range(h)) /\ Len(h) = Len(g) + 1
          BY <2>3, OneMore
        <5>2. Len(h) = 1
          BY <3>1, <5>1
        <5> QED BY <2>4, <5>1, <5>2
      <4> QED BY <4>1 DEF Listing
    <3>2. CASE Len(got[p]) = 1
      <4>1. r.ret = getMaxPid
        BY <1>2, <2>3, <2>5, <3>2, PsCalls
      <4> QED BY <2>3, <2>4, <2>6, <3>2, <4>1, MaxIsTold
    <3>3. CASE Len(got[p]) >= 2 /\ Len(got[p]) < 2 + got[p][2].ret
      <4>1. Calling(p) = Exists(Len(got[p]) - 1)
        BY <2>3, <2>5, <3>3, PsCalls
      <4>2. Calling(p)[1] = "exists" /\ Calling(p)[2] = Len(got[p]) - 1
        BY <4>1 DEF Exists
      <4>3. r.ret = getProcInfo(Len(got[p]) - 1).ret
        BY <1>2, <4>2
      <4> QED BY <2>3, <2>4, <3>3, <4>3, PidIsTold
    <3>4. CASE Len(got[p]) >= 2 /\ ~ (Len(got[p]) < 2 + got[p][2].ret)
      BY <2>3, <2>4, <3>4, RowIsTold
    <3>5. Len(got[p]) \in Nat
      BY <2>3, LenIsNat
    <3>6. Len(got[p]) = 0 \/ Len(got[p]) = 1 \/ Len(got[p]) >= 2
      BY ONLY <3>5, NoneOneOrMore, Zenon
    <3> QED BY <3>1, <3>2, <3>3, <3>4, <3>6
  <2>8. \A q \in RunsPs : Listing(got'[q])
    <3>1. \A q \in RunsPs \ {p} : Listing(got'[q])
      BY <2>4 DEF RunsPs, PInv, PsInv
    <3> QED BY <2>7, <3>1
  <2>9. \A q \in RunsPs : Listing(got[q])'
    BY <2>1, <2>8, ListingCarries
  <2>10. RunsPs' = RunsPs
    BY <1>3 DEF RunsPs
  <2>11. PsInv'
    BY <2>1, <2>9, <2>10 DEF PInv, PsInv
  <2>12. ProgramInv'
    BY <1>2, <1>3, <1>5, <2>1, <2>4 DEF PInv, ProgramInv
  <2> QED BY <2>11, <2>12 DEF PInv
<1> QED BY <1>4, <1>5

\* The calls that ps does not make.
LEMMA OthersCall ==
  ASSUME NEW c \in CPUs, GetPid(c) \/ Files(c) \/ Grow(c)
  PROVE  \E p \in Running :
           /\ Calling(p) \in {Getpid, Open, Close, Sbrk}
           /\ \E r : got' = [got EXCEPT ![p] = Append(@, r)]
<1>1. ASSUME NEW p \in Running, NEW r, Got(p, r),
             Calling(p) \in {Getpid, Open, Close, Sbrk}
      PROVE  \E q \in Running : /\ Calling(q) \in {Getpid, Open, Close, Sbrk}
                                /\ \E s : got' = [got EXCEPT ![q] = Append(@, s)]
  BY <1>1 DEF Got
<1>2. CASE GetPid(c)
  BY <1>1, <1>2 DEF GetPid
<1>3. CASE Files(c)
  BY <1>1, <1>3 DEF Files
<1>4. CASE Grow(c)
  BY <1>1, <1>4 DEF Grow
<1> QED BY <1>2, <1>3, <1>4

LEMMA PsCallsNoOther ==
  ASSUME PInv, NEW p \in Running, Calling(p) \in {Getpid, Open, Close, Sbrk}
  PROVE  prog[p] # "ps"
<1>1. SUFFICES ASSUME prog[p] = "ps" PROVE FALSE
  OBVIOUS
<1>2. p \in RunsPs
  BY <1>1 DEF Running, RunsPs
<1>3. /\ got[p] \in Seq(Range(got[p]))
      /\ Len(got[p]) >= 2 => got[p][2].ret \in Nat
  BY <1>2 DEF PInv, PsInv, Listing
<1>4. Calling(p)[1] \in {"getNumProc", "getMaxPid", "exists", "getProcInfo", "exit"}
  BY <1>1, <1>3, PsIsCalled, PsCallNames DEF Calling
<1> QED BY <1>4 DEF Getpid, Open, Close, Sbrk

LEMMA OthersKeepPs ==
  ASSUME IInv, PInv, NEW c \in CPUs, GetPid(c) \/ Files(c) \/ Grow(c)
  PROVE  PInv'
<1>1. PICK p \in Running :
        /\ Calling(p) \in {Getpid, Open, Close, Sbrk}
        /\ \E r : got' = [got EXCEPT ![p] = Append(@, r)]
  BY OthersCall
<1>2. UNCHANGED vars /\ prog' = prog
  BY DEF GetPid, Files, Grow
<1> QED BY <1>1, <1>2, PsCallsNoOther, PsUntouched

\* A program ends, or an exiting process closes its files.
LEMMA FinishKeepsPs ==
  ASSUME IInv, PInv, NEW c \in CPUs, Finish(c) \/ CloseFiles(c)
  PROVE  PInv'
<1>1. UNCHANGED <<state, pid, nextpid, pc>>
  BY DEF Finish, CloseFiles, vars, procVars, threadVars
<1>2. CASE Finish(c)
  <2>1. PICK p \in Slots : /\ prog' = [prog EXCEPT ![p] = "any"]
                           /\ got' = [got EXCEPT ![p] = <<>>]
    BY <1>2 DEF Finish, Running
  <2>2. /\ prog'[p] = "any" /\ got'[p] = <<>>
        /\ \A q \in Slots \ {p} : prog'[q] = prog[q] /\ got'[q] = got[q]
    BY <2>1 DEF PInv, ProgramInv
  <2>3. ProgramInv'
    BY <1>1, <2>1, <2>2 DEF PInv, ProgramInv
  <2>4. \A q \in RunsPs' : q \in RunsPs /\ got'[q] = got[q]
    BY <2>2 DEF RunsPs
  <2>5. \A q \in RunsPs' : Listing(got'[q])
    BY <2>4 DEF PInv, PsInv
  <2>6. \A q \in RunsPs' : Listing(got[q])'
    BY <1>1, <2>5, ListingCarries
  <2>7. PsInv'
    BY <1>1, <2>4, <2>6 DEF PInv, PsInv
  <2> QED BY <2>3, <2>7 DEF PInv
<1>3. CASE CloseFiles(c)
  <2>1. UNCHANGED <<prog, got>>
    BY <1>3 DEF CloseFiles, progVars
  <2>2. ProgramInv'
    BY <1>1, <2>1 DEF PInv, ProgramInv
  <2>3. RunsPs' = RunsPs
    BY <2>1 DEF RunsPs
  <2>4. \A q \in RunsPs : Listing(got'[q])
    BY <2>1 DEF PInv, PsInv
  <2>5. \A q \in RunsPs : Listing(got[q])'
    BY <1>1, <2>4, ListingCarries
  <2>6. PsInv'
    BY <1>1, <2>3, <2>5 DEF PInv, PsInv
  <2> QED BY <2>2, <2>6 DEF PInv
<1> QED BY <1>2, <1>3

-----------------------------------------------------------------------------
(* The steps of the table.                                                 *)

\* What ps has been told stays true while others fork and exit: a slot freed
\* stays free or is given a pid that ps does not ask for.
LEMMA ListingStays ==
  ASSUME IInv, PidsMove, NEW p, got'[p] = got[p], Listing(got[p])
  PROVE  Listing(got[p])'
<1> DEFINE g == got[p]
<1>1. nextpid \in Nat /\ nextpid' \in Nat /\ nextpid <= nextpid'
  BY DEF IInv, TypeOK, PidsMove
<1>2. g \in Seq(Range(g))
  BY DEF Listing
<1>3. ASSUME Len(g) >= 2
      PROVE  g[2].ret \in Nat /\ g[2].ret < nextpid' /\ OwnSlots(g)'
  <2>1. g[2].ret \in Nat /\ g[2].ret < nextpid
    BY <1>3 DEF Listing
  <2>2. PICK slot \in Injection(Found(g), Slots) :
          \A i \in Found(g) :
            state[slot[i]] = "UNUSED" \/ pid[slot[i]] = i \/ pid[slot[i]] > g[2].ret
    BY <1>3 DEF Listing, OwnSlots
  <2>3. \A i \in Found(g) : slot[i] \in Slots
    BY <2>2 DEF Injection
  <2>4. \A i \in Found(g) :
          \/ state'[slot[i]] = "UNUSED" \/ pid'[slot[i]] = i
          \/ pid'[slot[i]] > g[2].ret
    <3>1. nextpid > g[2].ret
      BY <1>1, <2>1
    <3> QED BY <2>2, <2>3, <3>1 DEF PidsMove
  <2>5. Found(g)' = Found(g) /\ (g[2].ret)' = g[2].ret
    BY DEF Found
  <2>6. OwnSlots(g)'
    BY <2>2, <2>4, <2>5 DEF OwnSlots
  <2> QED BY <1>1, <2>1, <2>6
<1> QED BY <1>2, <1>3 DEF Listing

\* A process that has ps for its program makes no call that returns, and is
\* born with it only of one that would have called fork.
LEMMA TableKeepsPs ==
  ASSUME IInv, PInv, TableStep
  PROVE  PInv' /\ \A p \in RunsPs' : p \in RunsPs /\ got'[p] = got[p]
<1>1. Next /\ IInv' /\ LegalMoves
  BY NextKeeps DEF TableStep
<1>2. PidsMove /\ BirthsAreForks /\ CallsOnly
  BY <1>1, StepMoves
<1>3. /\ prog' = [p \in Slots |-> IF p \in Born THEN prog[parent[p]]
                                  ELSE IF p \in Dead THEN "any" ELSE prog[p]]
      /\ got' = [p \in Slots |->
                   IF p \in Returned THEN Append(got[p], Returns(p))
                   ELSE IF p \in Born /\ prog[parent[p]] # "any"
                        THEN Append(got[parent[p]], Result("fork", 0))
                   ELSE IF p \in Dead THEN <<>> ELSE got[p]]
      /\ \A p \in Slots : pc[p] = "user" /\ pc'[p] # "user" => MayCall(p, pc'[p])
  BY DEF TableStep
<1>4. \A p \in Born : /\ prog[p] = "any" /\ got[p] = <<>> /\ pc[p] = "user"
                      /\ p \notin Dead /\ p \notin Returned
  <2> SUFFICES ASSUME NEW p \in Born
               PROVE  /\ prog[p] = "any" /\ got[p] = <<>> /\ pc[p] = "user"
                      /\ p \notin Dead /\ p \notin Returned
    OBVIOUS
  <2>1. p \in Slots /\ state[p] = "EMBRYO" /\ state'[p] = "RUNNABLE"
    BY DEF Born
  <2>2. prog[p] = "any" /\ got[p] = <<>>
    BY <2>1 DEF PInv, ProgramInv
  <2>3. pc[p] = "user"
    BY <2>1 DEF IInv, ThreadInv
  <2> QED BY <2>1, <2>2, <2>3 DEF Dead, Returned
<1>5. \A p \in Dead : p \in Slots /\ p \notin Returned
  <2>1. \A p \in Dead : pc'[p] = "exit"
    BY <1>1 DEF Dead, IInv, ThreadInv
  <2> QED BY <2>1 DEF Dead, Returned
<1>6. ProgramInv'
  <2>1. /\ prog' = [p \in Slots |-> prog'[p]] /\ got' = [p \in Slots |-> got'[p]]
    BY <1>3
  <2>2. nextpid' > 0
    BY <1>2 DEF PidsMove, IInv, TypeOK, PInv, ProgramInv
  <2>3. ASSUME NEW p \in Slots, prog'[p] = "any"
        PROVE  got'[p] = <<>>
    <3>1. CASE p \in Born
      BY <1>3, <1>4, <2>3, <3>1
    <3>2. CASE p \in Dead
      BY <1>3, <1>4, <1>5, <3>2
    <3>3. CASE p \notin Born /\ p \notin Dead
      <4>1. prog[p] = "any"
        BY <1>3, <2>3, <3>3
      <4>2. p \notin Returned /\ got[p] = <<>>
        BY <4>1 DEF Returned, Running, PInv, ProgramInv
      <4> QED BY <1>3, <3>3, <4>2
    <3> QED BY <3>1, <3>2, <3>3
  <2>4. ASSUME NEW p \in Slots, state'[p] \in {"UNUSED", "EMBRYO", "ZOMBIE"}
        PROVE  prog'[p] = "any"
    <3>1. p \notin Born
      BY <2>4 DEF Born
    <3>2. CASE state'[p] = "ZOMBIE"
      BY <1>3, <3>1, <3>2 DEF Dead
    <3>3. CASE state'[p] \in {"UNUSED", "EMBRYO"}
      <4>1. state[p] \in {"UNUSED", "EMBRYO", "ZOMBIE"}
        BY <1>1, <3>3 DEF LegalMoves
      <4>2. prog[p] = "any"
        BY <4>1 DEF PInv, ProgramInv
      <4> QED BY <1>3, <3>1, <4>2
    <3> QED BY <2>4, <3>2, <3>3
  <2> QED BY <2>1, <2>2, <2>3, <2>4 DEF ProgramInv
<1>7. ASSUME NEW p \in Slots, prog'[p] = "ps"
      PROVE  pc'[p] \in {"user", "exit"} /\ Listing(got[p])' /\ prog[p] = "ps"
             /\ got'[p] = got[p]
  <2>1. p \notin Born
    <3> SUFFICES ASSUME p \in Born PROVE FALSE
      OBVIOUS
    <3>1. prog[parent[p]] = "ps"
      BY <1>3, <1>7
    <3>2. parent[p] \in Slots /\ pc[parent[p]] = "forkrun"
      BY <1>2 DEF BirthsAreForks, Born
    <3> QED BY <3>1, <3>2 DEF PInv, PsInv, RunsPs
  <2>2. p \notin Dead /\ prog[p] = "ps"
    BY <1>3, <1>7, <2>1
  <2>3. state[p] # "ZOMBIE"
    BY <2>2 DEF PInv, ProgramInv
  <2>4. pc[p] \in {"user", "exit"} /\ Listing(got[p])
    BY <2>2 DEF PInv, PsInv, RunsPs
  <2>5. pc[p] = "exit" => pc'[p] = "exit"
    BY <1>2, <2>3 DEF CallsOnly
  <2>6. pc[p] = "user" => pc'[p] \in {"user", "exit"}
    <3> SUFFICES ASSUME pc[p] = "user", pc'[p] # "user" PROVE pc'[p] = "exit"
      OBVIOUS
    <3>1. pc'[p] \in Calls /\ (killed[p] => pc'[p] = "exit")
      BY <1>2 DEF CallsOnly
    <3>2. killed[p] \/ pc'[p] = Calling(p)[1]
      BY <1>3, <2>2 DEF MayCall
    <3>3. Calling(p) = ps(got[p])
      BY <2>2, PsIsCalled DEF Calling
    <3>4. Calling(p)[1] \in {"getNumProc", "getMaxPid", "exists", "getProcInfo", "exit"}
      BY <2>4, <3>3, PsCallNames DEF Listing
    <3> QED BY <3>1, <3>2, <3>4 DEF Calls
  <2>7. p \notin Returned
    BY <2>4, <2>5 DEF Returned
  <2>8. got'[p] = got[p]
    BY <1>3, <2>1, <2>2, <2>7
  <2>9. Listing(got[p])'
    BY <1>2, <2>4, <2>8, ListingStays
  <2> QED BY <2>2, <2>4, <2>5, <2>6, <2>8, <2>9
<1>8. PsInv' /\ \A p \in RunsPs' : p \in RunsPs /\ got'[p] = got[p]
  BY <1>7 DEF PsInv, RunsPs
<1> QED BY <1>6, <1>8 DEF PInv

-----------------------------------------------------------------------------
(* The theorem.                                                            *)

LEMMA InfoNextKeeps ==
  ASSUME IInv, PInv, [InfoNext]_infoVars
  PROVE  PInv'
<1>1. CASE UNCHANGED infoVars
  <2>1. UNCHANGED <<state, pid, nextpid, pc, prog, got>>
    BY <1>1 DEF infoVars, vars, procVars, threadVars, progVars
  <2>2. ProgramInv'
    BY <2>1 DEF PInv, ProgramInv
  <2>3. RunsPs' = RunsPs /\ \A q \in RunsPs : Listing(got'[q])
    BY <2>1 DEF PInv, PsInv, RunsPs
  <2>4. \A q \in RunsPs : Listing(got[q])'
    BY <2>1, <2>3, ListingCarries
  <2>5. PsInv'
    BY <2>1, <2>3, <2>4 DEF PInv, PsInv
  <2> QED BY <2>2, <2>5 DEF PInv
<1>2. CASE TableStep
  BY <1>2, TableKeepsPs
<1>3. ASSUME NEW c \in CPUs, ProgramStep(c)
      PROVE  PInv'
  BY <1>3, StartKeepsPs, AnswerKeepsPs, OthersKeepPs, FinishKeepsPs DEF ProgramStep
<1> QED BY <1>1, <1>2, <1>3 DEF InfoNext, ProgramStep

\* The programs and their calls leave the table as ProcTable has it.
LEMMA InfoIsTable == InfoSpec => Spec
<1>1. InfoInit => Init
  BY DEF InfoInit
<1>2. [InfoNext]_infoVars => [Next]_vars
  BY ProgramsLeaveTheTable DEF InfoNext, infoVars, TableStep, ProgramStep
<1> QED BY <1>1, <1>2, PTL DEF InfoSpec, Spec

LEMMA InfoInitHolds == InfoInit => PInv
<1> SUFFICES ASSUME InfoInit PROVE PInv
  OBVIOUS
<1>1. \A p \in Slots : prog[p] = "any" /\ got[p] = <<>>
  BY DEF InfoInit
<1>2. ProgramInv
  BY <1>1 DEF InfoInit, Init, ProgramInv
<1> QED BY <1>1, <1>2 DEF PInv, PsInv, RunsPs

\* The pids that ps has found have a slot each.
LEMMA SlotEach ==
  ASSUME PsInv
  PROVE  PidsFit
<1> SUFFICES ASSUME NEW p \in RunsPs PROVE Cardinality(Found(got[p])) <= NPROC
  BY DEF PidsFit
<1> DEFINE g == got[p]
<1>1. Listing(g) /\ Len(g) \in Nat
  BY LenIsNat DEF PsInv, Listing
<1>2. CASE Len(g) < 2
  <2>1. Found(g) = {}
    BY <1>2 DEF Found
  <2> QED BY <2>1, FS_EmptySet
<1>3. CASE Len(g) >= 2
  <2>1. PICK slot : slot \in Injection(Found(g), Slots)
    BY <1>1, <1>3 DEF Listing, OwnSlots
  <2>2. IsFiniteSet(Slots) /\ Cardinality(Slots) = NPROC
    BY FS_Interval
  <2> QED BY <2>1, <2>2, FS_Injection
<1> QED BY <1>1, <1>2, <1>3

\* pids[64] of ps.c is large enough: ps finds no more pids than the table has
\* slots, though processes exit and slots are given to others while it looks,
\* as no slot answers for two of the pids it asks for.
THEOREM PidsAlwaysFit == InfoSpec => []PidsFit
<1>1. InfoSpec => []IInv
  BY InfoIsTable, Invariance
<1>2. IInv /\ PInv /\ [InfoNext]_infoVars => PInv'
  BY InfoNextKeeps
<1>3. PInv => PidsFit
  BY SlotEach DEF PInv
<1> QED BY <1>1, <1>2, <1>3, InfoInitHolds, PTL DEF InfoSpec

-----------------------------------------------------------------------------
(* Who has memory, and what the answers tell.                              *)

\* Whoever has a stack has memory.
SizeInv ==
  /\ sz = [q \in Slots |-> sz[q]]
  /\ \A q \in Slots : sz[q] \in Nat /\ (kstack[q] => sz[q] > 0)

\* What PpidIsOlder says of one result.
ParentIsOlder(r) ==
  r.call = "getProcInfo" /\ r.ret = 0 =>
    /\ r.info.ppid < r.info.pid
    /\ r.info.ppid = 0 => r.info.pid = 1 \/ r.info.state = "EMBRYO"
    /\ r.info.sz = 0 => r.info.state = "EMBRYO"

Answers(g) == g \in Seq(Range(g)) /\ \A k \in DOMAIN g : ParentIsOlder(g[k])

AnswersInv == \A p \in Slots : Answers(got[p])

OInv == AgeInv /\ SizeInv /\ AnswersInv

\* getProcInfo tells of the slot it finds as the table has it.
LEMMA InfoOfTable ==
  ASSUME IInv, AgeInv, SizeInv, NEW i
  PROVE  ParentIsOlder(getProcInfo(i))
<1> DEFINE matching == {p \in Active : pid[p] = i}
           q == First(matching)
<1>1. CASE matching = {}
  BY <1>1 DEF getProcInfo, Result, ParentIsOlder
<1>2. CASE matching # {}
  <2>1. q \in matching
    <3>1. matching \subseteq Nat
      BY DEF Active
    <3> QED BY <1>2, <3>1, FirstIn
  <2>2. q \in Slots /\ state[q] # "UNUSED"
    BY <2>1 DEF Active
  <2>3. getProcInfo(i).info = processInfo(q)
    BY <1>2 DEF getProcInfo, Result
  <2> HIDE DEF q, matching
  <2>4. /\ processInfo(q).pid = pid[q] /\ processInfo(q).state = state[q]
        /\ processInfo(q).sz = sz[q]
        /\ processInfo(q).ppid = IF parent[q] = None THEN 0 ELSE pid[parent[q]]
    BY DEF processInfo
  <2>5. pid[q] > 0
    <3>1. pid[q] \in 1..(nextpid - 1) /\ nextpid \in Nat
      BY <2>2 DEF IInv, PidsUnique, TypeOK
    <3> QED BY <3>1
  <2>6. parent[q] # None => pid[parent[q]] > 0 /\ pid[parent[q]] < pid[q]
    BY <2>2 DEF AgeInv
  <2>7. parent[q] = None => pid[q] = 1 \/ state[q] = "EMBRYO"
    BY <2>2 DEF IInv, ParentAlive, Live, RootInv
  <2>8. sz[q] = 0 => state[q] = "EMBRYO"
    <3>1. state[q] # "EMBRYO" => kstack[q]
      BY <2>2 DEF IInv, StackInv, Live
    <3> QED BY <2>2, <3>1 DEF SizeInv
  <2> QED BY <2>3, <2>4, <2>5, <2>6, <2>7, <2>8 DEF ParentIsOlder
<1> QED BY <1>1, <1>2

LEMMA AnswersGrow ==
  ASSUME NEW g, Answers(g), NEW r, ParentIsOlder(r)
  PROVE  Answers(Append(g, r))
<1> DEFINE h == Append(g, r)
<1>1. /\ h \in Seq(Range(h)) /\ Len(g) \in Nat /\ Len(h) = Len(g) + 1
      /\ \A k \in 1..Len(g) : h[k] = g[k]
      /\ h[Len(g) + 1] = r
  BY OneMore DEF Answers
<1>2. DOMAIN h = 1..Len(h) /\ DOMAIN g = 1..Len(g)
  BY <1>1, LenProperties DEF Answers
<1> HIDE DEF h
<1>3. \A k \in DOMAIN h : k \in 1..Len(g) \/ k = Len(g) + 1
  BY <1>1, <1>2
<1>4. \A k \in DOMAIN h : ParentIsOlder(h[k])
  BY <1>1, <1>2, <1>3 DEF Answers
<1>5. Answers(h)
  BY <1>1, <1>4 DEF Answers
<1> QED BY <1>5 DEF h

LEMMA NoAnswers == Answers(<<>>)
BY EmptySeq DEF Answers

\* Only getProcInfo says something of a parent.
LEMMA OtherAnswers ==
  ASSUME NEW call, call # "getProcInfo", NEW ret
  PROVE  ParentIsOlder(Result(call, ret))
BY DEF Result, ParentIsOlder

\* A call of one program that returns.
LEMMA OneAnswer ==
  ASSUME AnswersInv, got = [q \in Slots |-> got[q]], NEW p \in Slots, NEW r,
         Got(p, r), ParentIsOlder(r)
  PROVE  AnswersInv'
<1>1. /\ got'[p] = Append(got[p], r)
      /\ \A q \in Slots \ {p} : got'[q] = got[q]
  BY DEF Got
<1>2. Answers(got'[p])
  BY <1>1, AnswersGrow DEF AnswersInv
<1>3. \A q \in Slots : Answers(got'[q])
  BY <1>1, <1>2 DEF AnswersInv
<1>4. \A q : Answers(got'[q]) => Answers(got[q])'
  BY DEF Answers, ParentIsOlder
<1> QED BY <1>3, <1>4 DEF AnswersInv

LEMMA ProgramsAge ==
  ASSUME IInv, PInv, OInv, NEW c \in CPUs, ProgramStep(c)
  PROVE  OInv'
<1>1. UNCHANGED <<state, pid, parent, np, kstack>>
  BY ProgramsLeaveTheTable DEF vars, procVars, threadVars
<1>2. AgeInv'
  BY <1>1 DEF OInv, AgeInv
<1>3. got = [q \in Slots |-> got[q]]
  BY DEF PInv, ProgramInv
<1>4. CASE Start(c) \/ CloseFiles(c)
  <2>1. UNCHANGED <<got, sz>>
    BY <1>4 DEF Start, CloseFiles, progVars, imageVars
  <2> QED BY <1>1, <1>2, <2>1 DEF OInv, SizeInv, AnswersInv, Answers, ParentIsOlder
<1>5. CASE Finish(c)
  <2>1. sz' = sz /\ \E p \in Slots : got' = [got EXCEPT ![p] = <<>>]
    BY <1>5 DEF Finish, imageVars, Running
  <2>2. \A q \in Slots : Answers(got'[q])
    BY <1>3, <2>1, NoAnswers DEF OInv, AnswersInv
  <2>3. \A q : Answers(got'[q]) => Answers(got[q])'
    BY DEF Answers, ParentIsOlder
  <2> QED BY <1>1, <1>2, <2>1, <2>2, <2>3 DEF OInv, SizeInv, AnswersInv
<1>6. CASE GetInfo(c) \/ GetPid(c) \/ Files(c)
  <2>1. PICK p \in Slots : \E r : Got(p, r) /\ ParentIsOlder(r)
    <3>1. CASE GetInfo(c)
      <4>1. \A i : ParentIsOlder(getProcInfo(i))
        BY InfoOfTable DEF OInv
      <4>2. PICK p \in Running :
              \/ Got(p, Result("getNumProc", getNumProc))
              \/ Got(p, Result("getMaxPid", getMaxPid))
              \/ Got(p, getProcInfo(Calling(p)[2]))
              \/ Got(p, Result("exists", getProcInfo(Calling(p)[2]).ret))
        BY <3>1 DEF GetInfo, exists
      <4> QED BY <4>1, <4>2, OtherAnswers DEF Running
    <3>2. CASE GetPid(c)
      BY <3>2, OtherAnswers DEF GetPid, Running
    <3>3. CASE Files(c)
      BY <3>3, OtherAnswers DEF Files, Running
    <3> QED BY <1>6, <3>1, <3>2, <3>3
  <2>2. AnswersInv'
    BY <1>3, <2>1, OneAnswer DEF OInv
  <2>3. sz' = sz
    BY <1>6 DEF GetInfo, GetPid, Files, imageVars
  <2> QED BY <1>1, <1>2, <2>2, <2>3 DEF OInv, SizeInv
<1>7. CASE Grow(c)
  <2>1. PICK p \in Slots :
          /\ \E ret : Got(p, Result("sbrk", ret))
          /\ sz' = [sz EXCEPT ![p] = @ + 1] \/ sz' = sz
    BY <1>7 DEF Grow, Running
  <2>2. AnswersInv'
    BY <1>3, <2>1, OneAnswer, OtherAnswers DEF OInv
  <2>3. /\ sz' = [q \in Slots |-> sz'[q]]
        /\ \A q \in Slots : sz'[q] = sz[q] \/ sz'[q] = sz[q] + 1
    BY <2>1 DEF OInv, SizeInv
  <2>4. SizeInv'
    BY <1>1, <2>3 DEF OInv, SizeInv
  <2> QED BY <1>2, <2>2, <2>4 DEF OInv
<1> QED BY <1>4, <1>5, <1>6, <1>7 DEF ProgramStep

LEMMA TableAges ==
  ASSUME IInv, PInv, OInv, TableStep
  PROVE  OInv'
<1>1. Next /\ AgeInv' /\ CopiesOfParents
  BY NextAges DEF TableStep, OInv
<1>2. SizeInv'
  <2>1. sz' = [q \in Slots |-> IF kstack'[q] /\ ~ kstack[q] THEN sz[parent'[q]] ELSE sz[q]]
    BY DEF TableStep, CopyImage, Copied
  <2>2. ASSUME NEW q \in Slots
        PROVE  sz'[q] \in Nat /\ (kstack'[q] => sz'[q] > 0)
    <3>1. CASE kstack'[q] /\ ~ kstack[q]
      <4>1. parent'[q] \in Slots /\ kstack[parent'[q]]
        BY <1>1, <3>1 DEF CopiesOfParents
      <4> QED BY <2>1, <3>1, <4>1 DEF OInv, SizeInv
    <3>2. CASE ~ (kstack'[q] /\ ~ kstack[q])
      BY <2>1, <3>2 DEF OInv, SizeInv
    <3> QED BY <3>1, <3>2
  <2> QED BY <2>1, <2>2 DEF SizeInv
<1>3. AnswersInv'
  <2>1. ASSUME NEW p \in Slots
        PROVE  Answers(got'[p])
    <3>1. \/ got'[p] = Append(got[p], Returns(p))
          \/ p \in Born /\ got'[p] = Append(got[parent[p]], Result("fork", 0))
          \/ got'[p] = <<>> \/ got'[p] = got[p]
      BY DEF TableStep
    <3>2. ParentIsOlder(Returns(p)) /\ ParentIsOlder(Result("fork", 0))
      BY OtherAnswers DEF Returns
    <3>3. p \in Born => parent[p] \in Slots
      <4>1. BirthsAreForks
        BY <1>1, StepMoves
      <4> QED BY <4>1 DEF BirthsAreForks, Born
    <3> QED BY <3>1, <3>2, <3>3, AnswersGrow, NoAnswers DEF OInv, AnswersInv
  <2>2. \A q : Answers(got'[q]) => Answers(got[q])'
    BY DEF Answers, ParentIsOlder
  <2> QED BY <2>1, <2>2 DEF AnswersInv
<1> QED BY <1>1, <1>2, <1>3 DEF OInv

LEMMA OlderKeeps ==
  ASSUME IInv, PInv, OInv, [InfoNext]_infoVars
  PROVE  OInv'
<1>1. CASE UNCHANGED infoVars
  <2>1. UNCHANGED <<state, pid, parent, np, kstack, sz, got>>
    BY <1>1 DEF infoVars, vars, procVars, threadVars, imageVars, progVars
  <2>2. AgeInv' /\ SizeInv'
    BY <2>1 DEF OInv, AgeInv, SizeInv
  <2>3. AnswersInv'
    BY <2>1 DEF OInv, AnswersInv, Answers, ParentIsOlder
  <2> QED BY <2>2, <2>3 DEF OInv
<1>2. CASE TableStep
  BY <1>2, TableAges
<1>3. ASSUME NEW c \in CPUs, ProgramStep(c)
      PROVE  OInv'
  BY <1>3, ProgramsAge
<1> QED BY <1>1, <1>2, <1>3 DEF InfoNext, ProgramStep

LEMMA OlderAtFirst == InfoInit => OInv
<1> SUFFICES ASSUME InfoInit PROVE OInv
  OBVIOUS
<1>1. AgeInv
  BY DEF InfoInit, Init, AgeInv
<1>2. SizeInv
  <2>1. /\ sz = [q \in Slots |-> sz[q]]
        /\ \A q \in Slots : sz[q] \in Nat /\ (q = initproc => sz[q] > 0)
    BY DEF InfoInit
  <2>2. \A q \in Slots : kstack[q] => q = initproc
    BY Zenon DEF InfoInit, Init
  <2> QED BY <2>1, <2>2 DEF SizeInv
<1>3. AnswersInv
  BY NoAnswers DEF InfoInit, AnswersInv
<1> QED BY <1>1, <1>2, <1>3 DEF OInv

\* getProcInfo never names a parent that is not older: though parents exit and
\* their slots are given to others, the slot a process points to is its parent's
\* until the process is given to init; and it shows no process without memory,
\* nor one but init without a parent, that fork has finished.
THEOREM ParentsAreOlder == InfoSpec => []PpidIsOlder
<1>1. InfoSpec => []IInv
  BY InfoIsTable, Invariance
<1>2. IInv /\ PInv /\ [InfoNext]_infoVars => PInv'
  BY InfoNextKeeps
<1>3. IInv /\ PInv /\ OInv /\ [InfoNext]_infoVars => OInv'
  BY OlderKeeps
<1>4. OInv => PpidIsOlder
  BY DEF OInv, AnswersInv, Answers, ParentIsOlder, PpidIsOlder, Running
<1> QED BY <1>1, <1>2, <1>3, <1>4, InfoInitHolds, OlderAtFirst, PTL DEF InfoSpec
-----------------------------------------------------------------------------
(* The rows of ps.                                                         *)

\* What ps has been told, if the processes with the pids T were there all the
\* time: it has found them, and each row answers for the pid in its place.
Told(g, T) ==
  Len(g) >= 2 =>
    LET M == g[2].ret
        shown == Len(g) - (M + 2)
    IN  /\ T \subseteq 1..M
        /\ \A j \in 1..M : j + 2 <= Len(g) /\ j \in T => g[j + 2].ret = 0
        /\ shown <= Len(pids(g))
        /\ \A k \in 1..shown :
             /\ g[M + 2 + k].ret = 0 => g[M + 2 + k].info.pid = pids(g)[k]
             /\ pids(g)[k] \in T => g[M + 2 + k].ret = 0

\* Who was there all the time is there now, and one process runs ps.
RowsInv ==
  /\ there \subseteq ActivePids
  /\ \A p, q \in RunsPs : p = q
  /\ \A p \in RunsPs : Told(got[p], there)

LEMMA FewerTold ==
  ASSUME NEW g, NEW T, NEW U, U \subseteq T, Told(g, T)
  PROVE  Told(g, U)
BY DEF Told

\* The array that ps fills holds the pids found, and they go up.
LEMMA PidsAre ==
  ASSUME NEW g, g[2].ret \in Nat
  PROVE  /\ pids(g) \in Seq(Nat) /\ Ascends(pids(g))
         /\ \A k \in 1..Len(pids(g)) : pids(g)[k] \in Found(g)
         /\ \A j \in Found(g) : j \in 1..g[2].ret =>
              \E k \in 1..Len(pids(g)) : pids(g)[k] = j
<1> DEFINE M == g[2].ret
           id == [j \in 1..M |-> j]
           found == Found(g)
           kept == Keep(id, found)
<1>1. id \in Seq(Nat) /\ Len(id) = M /\ \A j \in 1..M : id[j] = j
  OBVIOUS
<1>2. pids(g) = kept
  BY DEF pids
<1> HIDE DEF id, found, M
<1>3. kept \in Seq(Nat) /\ \E at : KeptAt(kept, id, found, Len(id), at)
  BY <1>1, KeepIs
<1>4. PICK at : KeptAt(kept, id, found, M, at)
  BY <1>1, <1>3
<1>5. \A k \in 1..Len(kept) : at[k] \in 1..M /\ kept[k] = id[at[k]] /\ id[at[k]] \in found
  BY <1>4 DEF KeptAt
<1>6. \A k \in 1..Len(kept) : kept[k] = at[k] /\ kept[k] \in found
  BY <1>1, <1>5
<1>7. \A k, l \in 1..Len(kept) : k < l => at[k] < at[l]
  BY <1>4 DEF KeptAt
<1>8. \A j \in 1..M : id[j] \in found => \E k \in 1..Len(kept) : at[k] = j
  BY <1>4 DEF KeptAt
<1>9. \A j \in found : j \in 1..M => \E k \in 1..Len(kept) : kept[k] = j
  BY <1>1, <1>6, <1>8
<1>10. Ascends(kept)
  BY <1>6, <1>7 DEF Ascends
<1> HIDE DEF kept
<1> QED BY <1>2, <1>3, <1>6, <1>9, <1>10 DEF found, M

\* The next call of ps once it has asked for every pid.
LEMMA RowCalls ==
  ASSUME NEW g, Len(g) \in Nat, g[2].ret \in Nat, Len(g) >= 2, ~ (Len(g) < 2 + g[2].ret)
  PROVE  LET shown == Len(g) - (g[2].ret + 2)
         IN  /\ shown \in Nat
             /\ ps(g) = IF shown < Len(pids(g)) THEN Info(pids(g)[shown + 1]) ELSE Exit_
<1> DEFINE M == g[2].ret
           arr == pids(g)
<1>1. sortPids(arr) = arr
  BY PidsAre, SortChangesNothing
<1>2. M \in Nat /\ ~ (Len(g) < 2) /\ Len(g) - 2 - M = Len(g) - (M + 2)
      /\ Len(g) - (M + 2) \in Nat
  OBVIOUS
<1>3. ps(g) = LET sorted == sortPids(arr)
                  shown == Len(g) - 2 - M
              IN  IF shown < Len(sorted) THEN Info(sorted[shown + 1]) ELSE Exit_
  BY <1>2 DEF ps
<1> HIDE DEF M, arr
<1>4. ps(g) = IF Len(g) - (M + 2) < Len(arr) THEN Info(arr[(Len(g) - (M + 2)) + 1]) ELSE Exit_
  BY <1>1, <1>2, <1>3
<1> QED BY <1>2, <1>4 DEF M, arr

\* What getProcInfo finds has the pid asked for, and it finds who is there.
LEMMA InfoIsOf ==
  ASSUME NEW j
  PROVE  /\ getProcInfo(j).ret = 0 => getProcInfo(j).info.pid = j
         /\ j \in ActivePids => getProcInfo(j).ret = 0
<1> DEFINE matching == {p \in Active : pid[p] = j}
           q == First(matching)
<1>1. CASE matching = {}
  <2>1. getProcInfo(j).ret = -1
    BY <1>1 DEF getProcInfo, Result
  <2>2. j \notin ActivePids
    BY <1>1 DEF ActivePids
  <2> QED BY <2>1, <2>2
<1>2. CASE matching # {}
  <2>1. q \in matching
    <3>1. matching \subseteq Nat
      BY DEF Active
    <3> QED BY <1>2, <3>1, FirstIn
  <2>2. getProcInfo(j).info = processInfo(q) /\ getProcInfo(j).ret = 0
    BY <1>2 DEF getProcInfo, Result
  <2>3. pid[q] = j
    BY <2>1
  <2> HIDE DEF q
  <2>4. processInfo(q).pid = pid[q]
    BY DEF processInfo
  <2> QED BY <2>2, <2>3, <2>4
<1> QED BY <1>1, <1>2

\* ps is told the greatest pid: the processes there are all up to it.
LEMMA ToldOfMax ==
  ASSUME IInv, nextpid > 0, NEW g, g \in Seq(Range(g)), Len(g) = 1,
         NEW r, r.ret = getMaxPid
  PROVE  Told(Append(g, r), ActivePids)
<1> DEFINE h == Append(g, r)
<1>0. Len(h) = Len(g) + 1 /\ h[Len(g) + 1] = r
  BY OneMore
<1>1. Len(h) = 2 /\ h[2] = r
  BY <1>0
<1> HIDE DEF h
<1>2. /\ getMaxPid \in Nat
      /\ \A j \in ActivePids : j \in Nat /\ j > 0 /\ j <= getMaxPid
  BY MaxIsGivenOut
<1>3. ActivePids \subseteq 1..h[2].ret /\ h[2].ret \in Nat
  BY <1>1, <1>2
<1>4. /\ Len(pids(h)) \in Nat
      /\ \A j \in 1..h[2].ret : ~ (j + 2 <= Len(h))
      /\ Len(h) - (h[2].ret + 2) <= 0
  <2>1. Len(pids(h)) \in Nat
    BY <1>3, PidsAre
  <2> QED BY <1>1, <1>3, <2>1
<1>5. /\ Len(h) - (h[2].ret + 2) <= Len(pids(h))
      /\ 1..(Len(h) - (h[2].ret + 2)) = {}
  BY <1>1, <1>3, <1>4
<1>6. Told(h, ActivePids)
  BY <1>3, <1>4, <1>5 DEF Told
<1> QED BY <1>6 DEF h

\* ps is told of one more pid.
LEMMA ToldOfPid ==
  ASSUME NEW g, NEW T, Told(g, T), T \subseteq ActivePids, g \in Seq(Range(g)),
         g[2].ret \in Nat, Len(g) >= 2, Len(g) < 2 + g[2].ret,
         NEW r, r.ret = getProcInfo(Len(g) - 1).ret
  PROVE  Told(Append(g, r), T)
<1> DEFINE h == Append(g, r)
           L == Len(g)
           M == g[2].ret
<1>1. /\ L \in Nat /\ Len(h) = L + 1
      /\ \A k \in 1..L : h[k] = g[k]
      /\ h[L + 1] = r
  BY OneMore
<1>2. M \in Nat /\ L >= 2 /\ L < 2 + M /\ h[2] = g[2] /\ h[2].ret = M
  BY <1>1
<1>3. T \subseteq 1..M /\ \A j \in 1..M : j + 2 <= L /\ j \in T => g[j + 2].ret = 0
  BY DEF Told
<1>4. L - 1 \in T => r.ret = 0
  BY InfoIsOf
<1>5. Len(pids(h)) \in Nat
  BY <1>2, PidsAre
<1> HIDE DEF h, L, M
<1>6. \A j \in 1..M : j + 2 <= L + 1 => (j + 2 <= L /\ h[j + 2] = g[j + 2])
                                      \/ (j = L - 1 /\ h[j + 2] = r)
  <2>1. ASSUME NEW j \in 1..M, j + 2 <= L + 1, ~ (j + 2 <= L) PROVE j = L - 1 /\ h[j + 2] = r
    <3>1. j = L - 1 /\ j + 2 = L + 1
      BY <1>1, <2>1
    <3> QED BY <1>1, <3>1
  <2>2. ASSUME NEW j \in 1..M, j + 2 <= L PROVE h[j + 2] = g[j + 2]
    <3>1. j + 2 \in 1..L
      BY <1>1, <2>2
    <3> QED BY <1>1, <3>1
  <2> QED BY <2>1, <2>2
<1>7. \A j \in 1..M : j + 2 <= Len(h) /\ j \in T => h[j + 2].ret = 0
  BY <1>1, <1>3, <1>4, <1>6
<1>8. Len(h) - (M + 2) <= Len(pids(h)) /\ 1..(Len(h) - (M + 2)) = {}
  BY <1>1, <1>2, <1>5
<1>9. Told(h, T)
  BY <1>2, <1>3, <1>7, <1>8 DEF Told
<1> QED BY <1>9 DEF h

\* ps is told of the process in its next row.
LEMMA ToldOfRow ==
  ASSUME NEW g, NEW T, Told(g, T), T \subseteq ActivePids, g \in Seq(Range(g)),
         g[2].ret \in Nat, Len(g) >= 2, ~ (Len(g) < 2 + g[2].ret),
         ps(g)[1] = "getProcInfo", NEW r, r = getProcInfo(ps(g)[2])
  PROVE  Told(Append(g, r), T)
<1> DEFINE h == Append(g, r)
           L == Len(g)
           M == g[2].ret
           arr == pids(g)
           shown == L - (M + 2)
<1>1. /\ L \in Nat /\ Len(h) = L + 1
      /\ \A k \in 1..L : h[k] = g[k]
      /\ h[L + 1] = r
  BY OneMore
<1>2. M \in Nat /\ L >= 2 /\ M + 2 <= L /\ shown \in Nat /\ h[2] = g[2] /\ h[2].ret = M
  BY <1>1
<1>3. shown < Len(arr) /\ r = getProcInfo(arr[shown + 1])
  <2>1. ps(g) = IF shown < Len(arr) THEN Info(arr[shown + 1]) ELSE Exit_
    BY <1>1, RowCalls
  <2>2. Exit_[1] # "getProcInfo" /\ \A j : Info(j)[2] = j
    BY DEF Exit_, Info
  <2> HIDE DEF arr, shown
  <2> QED BY <2>1, <2>2
<1>4. /\ r.ret = 0 => r.info.pid = arr[shown + 1]
      /\ arr[shown + 1] \in T => r.ret = 0
  BY <1>3, InfoIsOf
<1>5. /\ T \subseteq 1..M /\ shown <= Len(arr)
      /\ \A j \in 1..M : j + 2 <= L /\ j \in T => g[j + 2].ret = 0
      /\ \A k \in 1..shown :
           /\ g[M + 2 + k].ret = 0 => g[M + 2 + k].info.pid = arr[k]
           /\ arr[k] \in T => g[M + 2 + k].ret = 0
  BY DEF Told
<1>6. Len(arr) \in Nat
  BY <1>2, PidsAre
<1>7. Found(g) = {j \in 1..M : j + 2 <= L /\ g[j + 2].ret = 0}
  BY <1>1, <1>2 DEF Found
<1>8. Found(h) = {j \in 1..M : j + 2 <= L + 1 /\ h[j + 2].ret = 0}
  BY <1>1, <1>2 DEF Found
<1> HIDE DEF h, L, M
<1>9. \A j \in 1..M : j + 2 \in 1..L /\ j + 2 <= L /\ j + 2 <= L + 1 /\ h[j + 2] = g[j + 2]
  BY <1>1, <1>2
<1>10. Found(h) = Found(g)
  BY <1>7, <1>8, <1>9
<1>11. pids(h) = arr
  BY <1>2, <1>10 DEF pids, M
<1>12. Len(h) - (M + 2) = shown + 1 /\ M + 2 + (shown + 1) = L + 1
       /\ (M + 2) + (shown + 1) = L + 1
  BY <1>1, <1>2
<1>13. shown + 1 <= Len(arr)
  BY <1>2, <1>3, <1>6
<1>14. \A k \in 1..shown : h[M + 2 + k] = g[M + 2 + k]
  <2>1. \A k \in 1..shown : M + 2 + k \in 1..L
    BY <1>1, <1>2
  <2> QED BY <1>1, <2>1
<1>15. \A k \in 1..(shown + 1) : k \in 1..shown \/ k = shown + 1
  BY <1>2
<1> HIDE DEF shown, arr
<1>16. \A k \in 1..(shown + 1) :
         /\ h[M + 2 + k].ret = 0 => h[M + 2 + k].info.pid = arr[k]
         /\ arr[k] \in T => h[M + 2 + k].ret = 0
  <2>1. h[M + 2 + (shown + 1)] = r
    BY <1>1, <1>12
  <2> QED BY <1>4, <1>5, <1>14, <1>15, <2>1
<1>17. \A j \in 1..M : j + 2 <= Len(h) /\ j \in T => h[j + 2].ret = 0
  BY <1>5, <1>9
<1>18. \A k \in 1..(Len(h) - (M + 2)) :
         /\ h[M + 2 + k].ret = 0 => h[M + 2 + k].info.pid = pids(h)[k]
         /\ pids(h)[k] \in T => h[M + 2 + k].ret = 0
  BY <1>11, <1>12, <1>16
<1>19. T \subseteq 1..M /\ Len(h) - (M + 2) <= Len(pids(h))
  BY <1>5, <1>11, <1>12, <1>13
<1>20. Told(h, T)
  BY ONLY <1>2, <1>17, <1>18, <1>19 DEF Told
<1> QED BY <1>20 DEF h

\* The table moves on: ps has been told nothing new, and fewer were there all
\* the time.
LEMMA TableKeepsRows ==
  ASSUME IInv, PInv, RowsInv, TableStep
  PROVE  RowsInv'
<1>1. \A p \in RunsPs' : p \in RunsPs /\ got'[p] = got[p]
  BY TableKeepsPs
<1>2. there' \subseteq ActivePids' /\ (RunsPs' # {} => there' \subseteq there)
  BY DEF TableStep, RunsPs
<1>3. \A p, q \in RunsPs' : p = q
  BY <1>1 DEF RowsInv
<1>4. \A p \in RunsPs' : Told(got'[p], there')
  <2>1. ASSUME NEW p \in RunsPs' PROVE Told(got'[p], there')
    <3>1. Told(got[p], there) /\ there' \subseteq there
      BY <1>1, <1>2, <2>1 DEF RowsInv
    <3> QED BY <1>1, <2>1, <3>1, FewerTold
  <2> QED BY <2>1
<1> QED BY <1>2, <1>3, <1>4 DEF RowsInv

\* The table stays, and what ps knows is what it was or has been told of T.
LEMMA RowsStay ==
  ASSUME RowsInv, UNCHANGED vars, NEW T, there' = T, T \subseteq ActivePids,
         \A p, q \in RunsPs' : p = q, \A p \in RunsPs' : Told(got'[p], T)
  PROVE  RowsInv'
<1>1. UNCHANGED <<state, pid>>
  BY DEF vars, procVars
<1>2. ActivePids' = ActivePids
  BY <1>1 DEF ActivePids, Active
<1> QED BY <1>2 DEF RowsInv

LEMMA AnswerKeepsRows ==
  ASSUME IInv, PInv, RowsInv, NEW c \in CPUs, GetInfo(c)
  PROVE  RowsInv'
<1>1. PICK p \in Running :
        /\ \E r : /\ Got(p, r)
                  /\ Calling(p) = MaxPidCall => r.ret = getMaxPid
                  /\ Calling(p)[1] = "exists" => r.ret = getProcInfo(Calling(p)[2]).ret
                  /\ Calling(p)[1] = "getProcInfo" => r = getProcInfo(Calling(p)[2])
        /\ Calling(p)[1] \in {"getNumProc", "getMaxPid", "exists", "getProcInfo"}
        /\ there' = IF prog[p] = "ps" /\ Calling(p) = MaxPidCall
                    THEN ActivePids ELSE there
  BY DEF GetInfo, Num, MaxPidCall, Result, exists
<1>2. PICK r : /\ got' = [got EXCEPT ![p] = Append(@, r)]
               /\ Calling(p) = MaxPidCall => r.ret = getMaxPid
               /\ Calling(p)[1] = "exists" => r.ret = getProcInfo(Calling(p)[2]).ret
               /\ Calling(p)[1] = "getProcInfo" => r = getProcInfo(Calling(p)[2])
  BY <1>1 DEF Got
<1>3. UNCHANGED vars /\ prog' = prog
  BY DEF GetInfo
<1>4. RunsPs' = RunsPs /\ \A q \in RunsPs : q \in Slots
  BY <1>3 DEF RunsPs
<1>5. \A q \in RunsPs \ {p} : got'[q] = got[q]
  BY <1>2, <1>4 DEF PInv, ProgramInv
<1>6. CASE prog[p] # "ps"
  <2>1. p \notin RunsPs /\ there' = there
    BY <1>1, <1>6 DEF RunsPs
  <2>2. \A q \in RunsPs' : Told(got'[q], there)
    BY <1>4, <1>5, <2>1 DEF RowsInv
  <2> QED BY <1>3, <1>4, <2>1, <2>2, RowsStay DEF RowsInv
<1>7. CASE prog[p] = "ps"
  <2> DEFINE g == got[p]
  <2>1. p \in RunsPs /\ p \in Slots
    BY <1>7 DEF Running, RunsPs
  <2>2. /\ g \in Seq(Range(g)) /\ Len(g) \in Nat /\ nextpid > 0
        /\ Len(g) >= 2 => g[2].ret \in Nat
    BY <2>1, LenIsNat DEF PInv, PsInv, Listing, ProgramInv
  <2>3. got'[p] = Append(g, r)
    BY <1>2, <2>1 DEF PInv, ProgramInv
  <2>4. Calling(p) = ps(g)
    BY <1>7, PsIsCalled DEF Calling
  <2>5. Told(g, there) /\ there \subseteq ActivePids
    BY <2>1 DEF RowsInv
  <2>6. \A q \in RunsPs : q = p
    BY <2>1 DEF RowsInv
  <2> HIDE DEF g
  <2>7. there' \subseteq ActivePids /\ Told(Append(g, r), there')
    <3>1. CASE Len(g) = 0
      <4>1. Calling(p) = Num
        BY <2>2, <2>4, <3>1, PsCalls
      <4>2. there' = there
        BY <1>1, <4>1 DEF Num, MaxPidCall
      <4>3. Len(Append(g, r)) = 1
        BY <2>2, <3>1, OneMore
      <4> QED BY <2>5, <4>2, <4>3 DEF Told
    <3>2. CASE Len(g) = 1
      <4>1. Calling(p) = MaxPidCall
        BY <2>2, <2>4, <3>2, PsCalls
      <4>2. there' = ActivePids /\ r.ret = getMaxPid
        BY <1>1, <1>2, <1>7, <4>1
      <4> QED BY <2>2, <3>2, <4>2, ToldOfMax
    <3>3. CASE Len(g) >= 2 /\ Len(g) < 2 + g[2].ret
      <4>1. Calling(p) = Exists(Len(g) - 1)
        BY <2>2, <2>4, <3>3, PsCalls
      <4>2. Calling(p)[1] = "exists" /\ Calling(p)[2] = Len(g) - 1
        BY <4>1 DEF Exists
      <4>3. r.ret = getProcInfo(Len(g) - 1).ret /\ there' = there
        BY <1>1, <1>2, <4>2 DEF MaxPidCall
      <4> QED BY <2>2, <2>5, <3>3, <4>3, ToldOfPid
    <3>4. CASE Len(g) >= 2 /\ ~ (Len(g) < 2 + g[2].ret)
      <4>1. ps(g)[1] \in {"getProcInfo", "exit"}
        BY <2>2, <3>4, PsCalls
      <4>2. ps(g)[1] = "getProcInfo"
        BY <1>1, <2>4, <4>1
      <4>3. r = getProcInfo(ps(g)[2]) /\ there' = there
        BY <1>1, <1>2, <2>4, <4>2 DEF MaxPidCall
      <4> QED BY <2>2, <2>5, <3>4, <4>2, <4>3, ToldOfRow
    <3>5. Len(g) = 0 \/ Len(g) = 1 \/ Len(g) >= 2
      BY ONLY <2>2, NoneOneOrMore, Zenon
    <3> QED BY <3>1, <3>2, <3>3, <3>4, <3>5
  <2>8. \A q \in RunsPs' : Told(got'[q], there')
    BY <1>4, <2>3, <2>6, <2>7
  <2>9. \A q1, q2 \in RunsPs' : q1 = q2
    BY <1>4, <2>6
  <2> QED BY <1>3, <2>7, <2>8, <2>9, RowsStay
<1> QED BY <1>6, <1>7

\* The other steps tell ps nothing.
LEMMA ProgramsKeepRows ==
  ASSUME IInv, PInv, RowsInv, NEW c \in CPUs, ProgramStep(c)
  PROVE  RowsInv'
<1>1. UNCHANGED vars
  BY ProgramsLeaveTheTable
<1>2. CASE Start(c)
  <2>1. PICK p \in Slots : Running = {} /\ \E t : prog' = [prog EXCEPT ![p] = t]
    BY <1>2 DEF Start
  <2>2. \A q \in Slots : prog[q] = "any" /\ got[q] = <<>>
    BY <2>1 DEF Running, PInv, ProgramInv
  <2>3. \A q \in RunsPs' : q \in Slots /\ q = p
    BY <2>1, <2>2 DEF RunsPs, PInv, ProgramInv
  <2>4. got' = got /\ there' = there
    BY <1>2 DEF Start
  <2>5. Told(<<>>, there)
    BY EmptySeq DEF Told
  <2>6. \A q \in RunsPs' : Told(got'[q], there)
    BY <2>2, <2>3, <2>4, <2>5
  <2> QED BY <1>1, <2>3, <2>4, <2>6, RowsStay DEF RowsInv
<1>3. CASE GetInfo(c)
  BY <1>3, AnswerKeepsRows
<1>4. CASE GetPid(c) \/ Files(c) \/ Grow(c) \/ Finish(c) \/ CloseFiles(c)
  <2>1. there' = there
    BY <1>4 DEF GetPid, Files, Grow, Finish, CloseFiles, progVars
  <2>2. \A q \in RunsPs' : q \in RunsPs /\ got'[q] = got[q]
    <3>1. CASE GetPid(c) \/ Files(c) \/ Grow(c)
      <4>1. PICK p \in Running :
              /\ Calling(p) \in {Getpid, Open, Close, Sbrk}
              /\ \E r : got' = [got EXCEPT ![p] = Append(@, r)]
        BY <3>1, OthersCall
      <4>2. prog' = prog
        BY <3>1 DEF GetPid, Files, Grow
      <4>3. p \notin RunsPs
        BY <4>1, PsCallsNoOther DEF RunsPs
      <4> QED BY <4>1, <4>2, <4>3 DEF RunsPs, PInv, ProgramInv
    <3>2. CASE Finish(c)
      <4>1. PICK p \in Slots : /\ prog' = [prog EXCEPT ![p] = "any"]
                               /\ got' = [got EXCEPT ![p] = <<>>]
        BY <3>2 DEF Finish, Running
      <4>2. /\ prog'[p] = "any"
            /\ \A q \in Slots \ {p} : prog'[q] = prog[q] /\ got'[q] = got[q]
        BY <4>1 DEF PInv, ProgramInv
      <4> QED BY <4>2 DEF RunsPs
    <3>3. CASE CloseFiles(c)
      BY <3>3 DEF CloseFiles, progVars, RunsPs
    <3> QED BY <1>4, <3>1, <3>2, <3>3
  <2>3. \A q \in RunsPs' : Told(got'[q], there)
    BY <2>2 DEF RowsInv
  <2>4. \A p, q \in RunsPs' : p = q
    BY <2>2 DEF RowsInv
  <2> QED BY <1>1, <2>1, <2>3, <2>4, RowsStay DEF RowsInv
<1> QED BY <1>2, <1>3, <1>4 DEF ProgramStep

LEMMA RowsKeep ==
  ASSUME IInv, PInv, RowsInv, [InfoNext]_infoVars
  PROVE  RowsInv'
<1>1. CASE UNCHANGED infoVars
  <2>1. UNCHANGED <<vars, prog, got, there>>
    BY <1>1 DEF infoVars, progVars
  <2>2. RunsPs' = RunsPs
    BY <2>1 DEF RunsPs
  <2>3. \A q \in RunsPs' : Told(got'[q], there)
    BY <2>1, <2>2 DEF RowsInv
  <2>4. \A p, q \in RunsPs' : p = q
    BY <2>2 DEF RowsInv
  <2> QED BY <2>1, <2>3, <2>4, RowsStay DEF RowsInv
<1>2. CASE TableStep
  BY <1>2, TableKeepsRows
<1>3. ASSUME NEW c \in CPUs, ProgramStep(c)
      PROVE  RowsInv'
  BY <1>3, ProgramsKeepRows
<1> QED BY <1>1, <1>2, <1>3 DEF InfoNext, ProgramStep

LEMMA RowsAtFirst == InfoInit => RowsInv
<1> SUFFICES ASSUME InfoInit PROVE RowsInv
  OBVIOUS
<1>1. there = {} /\ \A p \in Slots : prog[p] = "any"
  BY DEF InfoInit
<1> QED BY <1>1 DEF RowsInv, RunsPs

\* The rows that have been told are for pids of the array, in its order.
LEMMA RowsAreTold ==
  ASSUME NEW g, NEW T, Told(g, T), g \in Seq(Range(g)), Len(g) >= 2, g[2].ret \in Nat
  PROVE  LET M == g[2].ret
             shown == Len(g) - (M + 2)
         IN  /\ \A j, k \in 1..Len(rows(g)) :
                  j < k => rows(g)[j].info.pid < rows(g)[k].info.pid
             /\ DOMAIN rows(g) = 1..Len(rows(g))
             /\ \A k \in 1..shown : pids(g)[k] \in T =>
                  \E j \in DOMAIN rows(g) : rows(g)[j].info.pid = pids(g)[k]
<1> DEFINE L == Len(g)
           M == g[2].ret
           shown == L - (M + 2)
           sub == SubSeq(g, 3 + M, L)
           filled == {r \in Range(g) : r.ret = 0}
           R == rows(g)
           arr == pids(g)
<1>1. L \in Nat /\ M \in Nat /\ L >= 2 /\ shown \in Int /\ 3 + M \in Int
      /\ ~ (L < 2)
  BY LenIsNat
<1>2. \A k \in 1..L : g[k] \in Range(g)
  OBVIOUS
<1>3. R = Keep(sub, filled)
  BY <1>1 DEF rows
<1>4. /\ arr \in Seq(Nat) /\ Ascends(arr)
  BY PidsAre
<1>5. /\ shown <= Len(arr)
      /\ \A k \in 1..shown :
           /\ g[M + 2 + k].ret = 0 => g[M + 2 + k].info.pid = arr[k]
           /\ arr[k] \in T => g[M + 2 + k].ret = 0
  BY DEF Told
<1>6. /\ sub \in Seq(Range(g))
      /\ \A k \in 1..shown : k \in 1..Len(sub) /\ sub[k] = g[M + 2 + k]
      /\ \A k \in 1..Len(sub) : k \in 1..shown
  <2> DEFINE first == 3 + M
  <2>1. first \in Int /\ L \in Int /\ \A k \in first..L : g[k] \in Range(g)
    BY <1>1, <1>2
  <2> HIDE DEF L, M
  <2>2. /\ sub \in Seq(Range(g))
        /\ Len(sub) = IF 3 + M <= L THEN L - (3 + M) + 1 ELSE 0
        /\ \A k \in 1..L - (3 + M) + 1 : sub[k] = g[(3 + M) + k - 1]
    <3> HIDE DEF first
    <3>1. /\ SubSeq(g, first, L) \in Seq(Range(g))
          /\ Len(SubSeq(g, first, L)) = IF first <= L THEN L - first + 1 ELSE 0
          /\ \A k \in 1..L - first + 1 : SubSeq(g, first, L)[k] = g[first + k - 1]
      BY ONLY <2>1, SubSeqProperties
    <3> QED BY <3>1 DEF first
  <2> HIDE DEF sub, first
  <2>3. L - (3 + M) + 1 = shown /\ (3 + M <= L <=> shown > 0)
    BY <1>1
  <2>4. \A k \in 1..shown : (3 + M) + k - 1 = M + 2 + k /\ shown > 0
    BY <1>1
  <2>5. Len(sub) = IF shown > 0 THEN shown ELSE 0
    BY <2>2, <2>3
  <2> HIDE DEF shown
  <2>6. \A k \in 1..shown : k \in 1..Len(sub)
    BY <2>4, <2>5
  <2>7. \A k \in 1..Len(sub) : k \in 1..shown
    BY <1>1, <2>5
  <2> QED BY <2>2, <2>3, <2>4, <2>6, <2>7
<1> HIDE DEF L, M, shown, sub, filled, R, arr
<1>7. R \in Seq(Range(g)) /\ \E at : KeptAt(R, sub, filled, Len(sub), at)
  BY <1>3, <1>6, KeepIs
<1>8. PICK at : KeptAt(R, sub, filled, Len(sub), at)
  BY <1>7
<1>9. \A j \in 1..Len(R) : at[j] \in 1..Len(sub) /\ R[j] = sub[at[j]] /\ sub[at[j]].ret = 0
  BY <1>8 DEF KeptAt, filled
<1>10. \A j \in 1..Len(R) : at[j] \in 1..shown /\ R[j].info.pid = arr[at[j]]
  <2>1. ASSUME NEW j \in 1..Len(R) PROVE at[j] \in 1..shown /\ R[j].info.pid = arr[at[j]]
    <3>1. at[j] \in 1..shown /\ R[j] = sub[at[j]] /\ sub[at[j]].ret = 0
      BY <1>6, <1>9
    <3>2. sub[at[j]] = g[M + 2 + at[j]]
      BY <1>6, <3>1
    <3> QED BY <1>5, <3>1, <3>2
  <2> QED BY <2>1
<1>11. \A k \in 1..shown : k \in 1..Len(arr)
  BY <1>1, <1>4, <1>5
<1>12. \A j, k \in 1..Len(R) : j < k => R[j].info.pid < R[k].info.pid
  <2>1. \A j, k \in 1..Len(R) : j < k => at[j] < at[k]
    BY <1>8 DEF KeptAt
  <2>2. \A j \in 1..Len(R) : at[j] \in 1..Len(arr)
    BY <1>10, <1>11
  <2>3. \A j, k \in 1..Len(R) : j < k => arr[at[j]] < arr[at[k]]
    BY <1>4, <2>1, <2>2 DEF Ascends
  <2> QED BY <1>10, <2>3
<1>13. DOMAIN R = 1..Len(R)
  BY <1>7
<1>14. \A k \in 1..shown : arr[k] \in T => \E j \in DOMAIN R : R[j].info.pid = arr[k]
  <2>1. ASSUME NEW k \in 1..shown, arr[k] \in T
        PROVE  \E j \in DOMAIN R : R[j].info.pid = arr[k]
    <3>1. sub[k].ret = 0 /\ k \in 1..Len(sub)
      BY <1>5, <1>6, <2>1
    <3>2. sub[k] \in filled
      <4>1. sub[k] \in Range(g)
        BY <1>6, <3>1
      <4> QED BY <3>1, <4>1 DEF filled
    <3>3. PICK j \in 1..Len(R) : at[j] = k
      BY <1>8, <3>1, <3>2 DEF KeptAt
    <3> QED BY <1>10, <1>13, <3>3
  <2> QED BY <2>1
<1> QED BY <1>12, <1>13, <1>14 DEF L, M, shown, R, arr

\* When ps exits, all that were there all the time have their rows.
LEMMA RowsList ==
  ASSUME PInv, RowsInv
  PROVE  ListsTheLiving
<1> SUFFICES ASSUME NEW p \in RunsPs
             PROVE  LET r == rows(got[p])
                    IN  /\ Calling(p) = Exit_ =>
                             there \subseteq {r[j].info.pid : j \in DOMAIN r}
                        /\ \A j, k \in DOMAIN r : j < k => r[j].info.pid < r[k].info.pid
  BY DEF ListsTheLiving
<1> DEFINE g == got[p]
           r == rows(g)
<1>1. /\ g \in Seq(Range(g)) /\ Len(g) \in Nat
      /\ Len(g) >= 2 => g[2].ret \in Nat
      /\ Told(g, there)
  BY LenIsNat DEF PInv, PsInv, Listing, RowsInv
<1>2. Calling(p) = ps(g)
  BY PsIsCalled DEF Calling, RunsPs
<1> HIDE DEF g
<1>3. CASE Len(g) < 2
  <2>1. r = <<>> /\ DOMAIN r = {}
    BY <1>3 DEF rows
  <2>2. Len(g) = 0 \/ Len(g) = 1
    <3>1. Len(g) \in Nat
      BY <1>1
    <3> QED BY ONLY <3>1, <1>3, NoneOneOrMore, Zenon
  <2>3. Calling(p) # Exit_
    BY <1>1, <1>2, <2>2, PsCalls DEF Num, MaxPidCall, Exit_
  <2> QED BY <2>1, <2>3 DEF g
<1>4. CASE Len(g) >= 2
  <2> DEFINE M == g[2].ret
             shown == Len(g) - (M + 2)
  <2>1. M \in Nat
    BY <1>1, <1>4
  <2>2. /\ \A j, k \in 1..Len(r) : j < k => r[j].info.pid < r[k].info.pid
        /\ DOMAIN r = 1..Len(r)
        /\ \A k \in 1..shown : pids(g)[k] \in there =>
             \E j \in DOMAIN r : r[j].info.pid = pids(g)[k]
    BY <1>1, <1>4, <2>1, RowsAreTold
  <2> HIDE DEF r
  <2>3. ASSUME Calling(p) = Exit_, NEW t \in there
        PROVE  \E j \in DOMAIN r : r[j].info.pid = t
    <3>1. ~ (Len(g) < 2 + M)
      <4>1. ASSUME Len(g) < 2 + M PROVE FALSE
        <5>1. ps(g) = Exists(Len(g) - 1)
          BY <1>1, <1>4, <2>1, <4>1, PsCalls
        <5>2. Exists(Len(g) - 1) # Exit_
          BY DEF Exists, Exit_
        <5>3. Calling(p) = Exit_
          BY <2>3
        <5> QED BY ONLY <1>2, <5>1, <5>2, <5>3
      <4> QED BY <4>1
    <3>2. shown \in Nat /\ ~ (shown < Len(pids(g)))
      <4>1. /\ shown \in Nat
            /\ ps(g) = IF shown < Len(pids(g)) THEN Info(pids(g)[shown + 1]) ELSE Exit_
        BY <1>1, <1>4, <2>1, <3>1, RowCalls
      <4>2. \A j : Info(j) # Exit_
        BY DEF Info, Exit_
      <4> QED BY <1>2, <2>3, <4>1, <4>2
    <3>3. t \in 1..M /\ (t + 2 <= Len(g) => g[t + 2].ret = 0)
      BY <1>1, <1>4, <2>3 DEF Told
    <3>4. t + 2 <= Len(g)
      BY <1>1, <2>1, <3>1, <3>3
    <3>5. t \in Found(g)
      BY <1>1, <1>4, <3>3, <3>4 DEF Found
    <3>6. PICK k \in 1..Len(pids(g)) : pids(g)[k] = t
      BY <2>1, <3>3, <3>5, PidsAre
    <3>7. Len(pids(g)) \in Nat
      BY <2>1, PidsAre
    <3>8. k \in 1..shown
      BY <3>2, <3>6, <3>7
    <3> HIDE DEF shown
    <3> QED BY <2>2, <2>3, <3>6, <3>8
  <2>4. Calling(p) = Exit_ => there \subseteq {r[j].info.pid : j \in DOMAIN r}
    BY <2>3
  <2> QED BY <2>2, <2>4 DEF g, r
<1> QED BY <1>1, <1>3, <1>4

\* The listing of ps leaves out nobody who is there from the call of getMaxPid
\* to the end, shows nobody twice and goes up, whatever exits, forks and takes
\* over slots in the meantime.
THEOREM LivingAreListed == InfoSpec => []ListsTheLiving
<1>1. InfoSpec => []IInv
  BY InfoIsTable, Invariance
<1>2. IInv /\ PInv /\ [InfoNext]_infoVars => PInv'
  BY InfoNextKeeps
<1>3. IInv /\ PInv /\ RowsInv /\ [InfoNext]_infoVars => RowsInv'
  BY RowsKeep
<1>4. PInv /\ RowsInv => ListsTheLiving
  BY RowsList
<1> QED BY <1>1, <1>2, <1>3, <1>4, InfoInitHolds, RowsAtFirst, PTL DEF InfoSpec

-----------------------------------------------------------------------------
(* The tests: the results before each call.                                *)

Prefix(g, m) == [i \in 1..m |-> g[i]]

\* What test t asked for its k-th result.
Call(t, g, k) == NextCall(t, Prefix(g, k - 1))

\* The test has forked a child that it has not waited for.
Owes(g) ==
  \E i \in DOMAIN g : /\ g[i].call = "fork" /\ g[i].ret > 0
                      /\ \A j \in DOMAIN g : j > i => g[j].call # "wait"

\* The results a process has got itself, and not its parent before the fork.
Own(g) == {k \in DOMAIN g : \A j \in DOMAIN g :
             j > k => ~ (g[j].call = "fork" /\ g[j].ret = 0)}

LEMMA PrefixIs ==
  ASSUME NEW g, g \in Seq(Range(g)), NEW m \in Nat, m <= Len(g)
  PROVE  /\ Prefix(g, m) \in Seq(Range(Prefix(g, m))) /\ Len(Prefix(g, m)) = m
         /\ DOMAIN Prefix(g, m) = 1..m
         /\ \A k \in 1..m : Prefix(g, m)[k] = g[k] /\ k \in DOMAIN g
<1> DEFINE h == Prefix(g, m)
<1>1. DOMAIN h = 1..m /\ \A k \in 1..m : h[k] = g[k]
  BY DEF Prefix
<1>2. h \in [1..m -> Range(h)]
  BY <1>1 DEF Range, Prefix
<1> HIDE DEF h
<1>3. h \in Seq(Range(h)) /\ Len(h) = m
  BY <1>1, <1>2, LenProperties
<1>4. Len(g) \in Nat /\ DOMAIN g = 1..Len(g)
  BY LenProperties
<1>5. \A k \in 1..m : k \in DOMAIN g
  BY <1>4
<1> QED BY <1>1, <1>3, <1>5 DEF h

LEMMA WholePrefix ==
  ASSUME NEW g, g \in Seq(Range(g))
  PROVE  Prefix(g, Len(g)) = g
BY LenProperties DEF Prefix

LEMMA PrefixOfMore ==
  ASSUME NEW g, g \in Seq(Range(g)), NEW r, NEW m \in Nat, m <= Len(g)
  PROVE  Prefix(Append(g, r), m) = Prefix(g, m)
<1> DEFINE h == Append(g, r)
<1>1. \A k \in 1..Len(g) : h[k] = g[k]
  BY OneMore
<1>2. Len(g) \in Nat
  BY LenIsNat
<1> HIDE DEF h
<1>3. \A k \in 1..m : h[k] = g[k]
  BY <1>1, <1>2
<1>4. Prefix(h, m) = Prefix(g, m)
  BY <1>3 DEF Prefix
<1> QED BY <1>4 DEF h

\* The domain with one more result.
LEMMA MorePlaces ==
  ASSUME NEW g, g \in Seq(Range(g)), NEW r
  PROVE  /\ Append(g, r) \in Seq(Range(Append(g, r)))
         /\ Len(g) \in Nat /\ Len(Append(g, r)) = Len(g) + 1
         /\ DOMAIN g = 1..Len(g) /\ DOMAIN Append(g, r) = DOMAIN g \cup {Len(g) + 1}
         /\ \A k \in DOMAIN g : Append(g, r)[k] = g[k] /\ k < Len(g) + 1 /\ k \in Nat
         /\ Append(g, r)[Len(g) + 1] = r
<1> DEFINE h == Append(g, r)
<1>1. /\ h \in Seq(Range(h)) /\ Len(g) \in Nat /\ Len(h) = Len(g) + 1
      /\ \A k \in 1..Len(g) : h[k] = g[k]
      /\ h[Len(g) + 1] = r
  BY OneMore
<1> HIDE DEF h
<1>2. DOMAIN g = 1..Len(g) /\ DOMAIN h = 1..Len(h)
  BY <1>1, LenProperties
<1>3. DOMAIN h = DOMAIN g \cup {Len(g) + 1}
  BY <1>1, <1>2
<1>4. \A k \in DOMAIN g : h[k] = g[k] /\ k < Len(g) + 1 /\ k \in Nat
  BY <1>1, <1>2
<1> QED BY <1>1, <1>2, <1>3, <1>4 DEF h

LEMMA MoreCalls ==
  ASSUME NEW g, g \in Seq(Range(g)), NEW r, NEW t
  PROVE  /\ \A k \in DOMAIN g : Call(t, Append(g, r), k) = Call(t, g, k)
         /\ Call(t, Append(g, r), Len(g) + 1) = NextCall(t, g)
<1>1. Len(g) \in Nat /\ DOMAIN g = 1..Len(g)
  BY LenProperties
<1>2. ASSUME NEW m \in 0..Len(g)
      PROVE  Prefix(Append(g, r), m) = Prefix(g, m)
  BY <1>1, PrefixOfMore
<1>3. ASSUME NEW k \in DOMAIN g
      PROVE  Call(t, Append(g, r), k) = Call(t, g, k)
  <2>1. k - 1 \in 0..Len(g)
    BY <1>1
  <2> QED BY <1>2, <2>1 DEF Call
<1>4. (Len(g) + 1) - 1 = Len(g) /\ Len(g) \in 0..Len(g)
  BY <1>1
<1>5. Prefix(Append(g, r), Len(g)) = g
  BY <1>2, <1>4, WholePrefix
<1> QED BY <1>3, <1>4, <1>5 DEF Call

LEMMA MoreChild ==
  ASSUME NEW g, g \in Seq(Range(g)), NEW r
  PROVE  InChild(Append(g, r)) <=> InChild(g) \/ (r.call = "fork" /\ r.ret = 0)
<1> DEFINE h == Append(g, r)
<1>1. DOMAIN h = DOMAIN g \cup {Len(g) + 1} /\ (\A k \in DOMAIN g : h[k] = g[k])
      /\ h[Len(g) + 1] = r
  BY MorePlaces
<1> HIDE DEF h
<1>2. InChild(h) <=> InChild(g) \/ (r.call = "fork" /\ r.ret = 0)
  BY <1>1 DEF InChild
<1> QED BY <1>2 DEF h

LEMMA MoreStarved ==
  ASSUME NEW g, g \in Seq(Range(g)), NEW r, Starved(g)
  PROVE  Starved(Append(g, r))
<1> DEFINE h == Append(g, r)
<1>1. DOMAIN h = DOMAIN g \cup {Len(g) + 1} /\ (\A k \in DOMAIN g : h[k] = g[k])
  BY MorePlaces
<1> HIDE DEF h
<1>2. Starved(h)
  BY <1>1 DEF Starved
<1> QED BY <1>2 DEF h

LEMMA MoreOwes ==
  ASSUME NEW g, g \in Seq(Range(g)), NEW r
  PROVE  Owes(Append(g, r)) <=>
           r.call # "wait" /\ (Owes(g) \/ (r.call = "fork" /\ r.ret > 0))
<1> DEFINE h == Append(g, r)
           last == Len(g) + 1
<1>1. DOMAIN h = DOMAIN g \cup {last}
  BY MorePlaces
<1>2. /\ \A k \in DOMAIN g : h[k] = g[k] /\ k < last /\ k \in Nat
      /\ h[last] = r /\ last \in Nat
  BY MorePlaces
<1>3. \A k \in DOMAIN g : last > k /\ ~ (k > last)
  BY <1>2
<1>4. ~ (last > last)
  BY <1>2
<1> HIDE DEF h, last
<1>5. ASSUME Owes(h) PROVE r.call # "wait" /\ (Owes(g) \/ (r.call = "fork" /\ r.ret > 0))
  BY <1>1, <1>2, <1>3, <1>5 DEF Owes
<1>6. ASSUME r.call # "wait", Owes(g) PROVE Owes(h)
  BY <1>1, <1>2, <1>3, <1>6 DEF Owes
<1>7. ASSUME r.call = "fork", r.ret > 0 PROVE Owes(h)
  BY <1>1, <1>2, <1>3, <1>4, <1>7 DEF Owes
<1>8. Owes(h) <=> r.call # "wait" /\ (Owes(g) \/ (r.call = "fork" /\ r.ret > 0))
  BY <1>5, <1>6, <1>7
<1> QED BY <1>8 DEF h

LEMMA MoreOwn ==
  ASSUME NEW g, g \in Seq(Range(g)), NEW r
  PROVE  Own(Append(g, r)) =
           IF r.call = "fork" /\ r.ret = 0 THEN {Len(g) + 1} ELSE Own(g) \cup {Len(g) + 1}
<1> DEFINE h == Append(g, r)
           last == Len(g) + 1
<1>1. DOMAIN h = DOMAIN g \cup {last}
  BY MorePlaces
<1>2. /\ \A k \in DOMAIN g : h[k] = g[k] /\ k < last /\ k \in Nat
      /\ h[last] = r /\ last \in Nat
  BY MorePlaces
<1>3. \A k \in DOMAIN g : last > k /\ ~ (k > last)
  BY <1>2
<1>4. ~ (last > last)
  BY <1>2
<1> HIDE DEF h, last
<1>5. Own(h) = IF r.call = "fork" /\ r.ret = 0 THEN {last} ELSE Own(g) \cup {last}
  BY <1>1, <1>2, <1>3, <1>4 DEF Own
<1> QED BY <1>5 DEF h, last

-----------------------------------------------------------------------------
(* The tests: their calls.                                                 *)

LEMMA NextIs ==
  \A g :
    /\ NextCall("numproc_positive", g) = test_numproc_positive(g)
    /\ NextCall("maxpid_positive", g) = test_maxpid_positive(g)
    /\ NextCall("maxpid_ge_numproc", g) = test_maxpid_ge_numproc(g)
    /\ NextCall("procinfo_self", g) = test_procinfo_self(g)
    /\ NextCall("procinfo_invalid", g) = test_procinfo_invalid(g)
    /\ NextCall("procinfo_zero", g) = test_procinfo_zero(g)
    /\ NextCall("procinfo_negative", g) = test_procinfo_negative(g)
    /\ NextCall("self_state_running", g) = test_self_state_running(g)
    /\ NextCall("self_size_positive", g) = test_self_size_positive(g)
    /\ NextCall("self_nfd_positive", g) = test_self_nfd_positive(g)
    /\ NextCall("self_ppid_positive", g) = test_self_ppid_positive(g)
    /\ NextCall("state_valid_range", g) = test_state_valid_range(g)
    /\ NextCall("procinfo_init", g) = test_procinfo_init(g)
    /\ NextCall("init_ppid_zero", g) = test_init_ppid_zero(g)
    /\ NextCall("fork_increases_numproc", g) = test_fork_increases_numproc(g)
    /\ NextCall("wait_decreases_numproc", g) = test_wait_decreases_numproc(g)
    /\ NextCall("child_ppid", g) = test_child_ppid(g)
    /\ NextCall("numproc_consistent", g) = test_numproc_consistent(g)
    /\ NextCall("maxpid_consistent", g) = test_maxpid_consistent(g)
    /\ NextCall("query_all_pids", g) = test_query_all_pids(g)
    /\ NextCall("open_increases_nfd", g) = test_open_increases_nfd(g)
    /\ NextCall("close_decreases_nfd", g) = test_close_decreases_nfd(g)
    /\ NextCall("maxpid_after_fork", g) = test_maxpid_after_fork(g)
    /\ NextCall("child_size", g) = test_child_size(g)
    /\ NextCall("numproc_matches_count", g) = test_numproc_matches_count(g)
    /\ NextCall("procinfo_consistency", g) = test_procinfo_consistency(g)
    /\ NextCall("sbrk_changes_size", g) = test_sbrk_changes_size(g)
    /\ NextCall("ppid_chain", g) = test_ppid_chain(g)
    /\ NextCall("rapid_fork_exit", g) = test_rapid_fork_exit(g)
BY DEF NextCall

\* A script that is written out.
LEMMA RunOne ==
  ASSUME NEW a, NEW g, Len(g) \in Nat, NEW end
  PROVE  Run(<<a>>, g, end) =
           IF Len(g) = 0 THEN a ELSE end
<1> DEFINE s == <<a>>
           len == Len(g)
<1>1. Len(s) = 1 /\ s[1] = a
  OBVIOUS
<1>2. Run(s, g, end) = IF len < Len(s) THEN s[len + 1] ELSE end
  BY DEF Run
<1>3. len \in Nat
  OBVIOUS
<1> HIDE DEF s, len
<1>4. Run(s, g, end) =
        IF len = 0 THEN a ELSE end
  <2>1. len < 1 => len = 0
    BY <1>3
  <2> QED BY <1>1, <1>2, <2>1
<1> QED BY <1>4 DEF s, len

LEMMA RunTwo ==
  ASSUME NEW a, NEW b, NEW g, Len(g) \in Nat, NEW end
  PROVE  Run(<<a, b>>, g, end) =
           IF Len(g) = 0 THEN a ELSE IF Len(g) = 1 THEN b ELSE end
<1> DEFINE s == <<a, b>>
           len == Len(g)
<1>1. Len(s) = 2 /\ s[1] = a /\ s[2] = b
  OBVIOUS
<1>2. Run(s, g, end) = IF len < Len(s) THEN s[len + 1] ELSE end
  BY DEF Run
<1>3. len \in Nat
  OBVIOUS
<1> HIDE DEF s, len
<1>4. Run(s, g, end) =
        IF len = 0 THEN a ELSE IF len = 1 THEN b ELSE end
  <2>1. len < 2 => len = 0 \/ len = 1
    BY <1>3
  <2> QED BY <1>1, <1>2, <2>1
<1> QED BY <1>4 DEF s, len

LEMMA RunThree ==
  ASSUME NEW a, NEW b, NEW c, NEW g, Len(g) \in Nat, NEW end
  PROVE  Run(<<a, b, c>>, g, end) =
           IF Len(g) = 0 THEN a ELSE IF Len(g) = 1 THEN b ELSE IF Len(g) = 2 THEN c
           ELSE end
<1> DEFINE s == <<a, b, c>>
           len == Len(g)
<1>1. Len(s) = 3 /\ s[1] = a /\ s[2] = b /\ s[3] = c
  OBVIOUS
<1>2. Run(s, g, end) = IF len < Len(s) THEN s[len + 1] ELSE end
  BY DEF Run
<1>3. len \in Nat
  OBVIOUS
<1> HIDE DEF s, len
<1>4. Run(s, g, end) =
        IF len = 0 THEN a ELSE IF len = 1 THEN b ELSE IF len = 2 THEN c ELSE end
  <2>1. len < 3 => len = 0 \/ len = 1 \/ len = 2
    BY <1>3
  <2> QED BY <1>1, <1>2, <2>1
<1> QED BY <1>4 DEF s, len

LEMMA RunFour ==
  ASSUME NEW a, NEW b, NEW c, NEW d, NEW g, Len(g) \in Nat, NEW end
  PROVE  Run(<<a, b, c, d>>, g, end) =
           IF Len(g) = 0 THEN a ELSE IF Len(g) = 1 THEN b ELSE IF Len(g) = 2 THEN c
           ELSE IF Len(g) = 3 THEN d ELSE end
<1> DEFINE s == <<a, b, c, d>>
           len == Len(g)
<1>1. Len(s) = 4 /\ s[1] = a /\ s[2] = b /\ s[3] = c /\ s[4] = d
  OBVIOUS
<1>2. Run(s, g, end) = IF len < Len(s) THEN s[len + 1] ELSE end
  BY DEF Run
<1>3. len \in Nat
  OBVIOUS
<1> HIDE DEF s, len
<1>4. Run(s, g, end) =
        IF len = 0 THEN a ELSE IF len = 1 THEN b ELSE IF len = 2 THEN c
        ELSE IF len = 3 THEN d ELSE end
  <2>1. len < 4 => len = 0 \/ len = 1 \/ len = 2 \/ len = 3
    BY <1>3
  <2> QED BY <1>1, <1>2, <2>1
<1> QED BY <1>4 DEF s, len

LEMMA RunFive ==
  ASSUME NEW a, NEW b, NEW c, NEW d, NEW e, NEW g, Len(g) \in Nat, NEW end
  PROVE  Run(<<a, b, c, d, e>>, g, end) =
           IF Len(g) = 0 THEN a ELSE IF Len(g) = 1 THEN b ELSE IF Len(g) = 2 THEN c
           ELSE IF Len(g) = 3 THEN d ELSE IF Len(g) = 4 THEN e ELSE end
<1> DEFINE s == <<a, b, c, d, e>>
           len == Len(g)
<1>1. Len(s) = 5 /\ s[1] = a /\ s[2] = b /\ s[3] = c /\ s[4] = d /\ s[5] = e
  OBVIOUS
<1>2. Run(s, g, end) = IF len < Len(s) THEN s[len + 1] ELSE end
  BY DEF Run
<1>3. len \in Nat
  OBVIOUS
<1> HIDE DEF s, len
<1>4. Run(s, g, end) =
        IF len = 0 THEN a ELSE IF len = 1 THEN b ELSE IF len = 2 THEN c
        ELSE IF len = 3 THEN d ELSE IF len = 4 THEN e ELSE end
  <2>1. len < 5 => len = 0 \/ len = 1 \/ len = 2 \/ len = 3 \/ len = 4
    BY <1>3
  <2> QED BY <1>1, <1>2, <2>1
<1> QED BY <1>4 DEF s, len

-----------------------------------------------------------------------------
(* The tests: what the calls return.                                       *)

Tests == Robust \cup Quiet

\* The calls that return to their program.
Returning == {"getNumProc", "getMaxPid", "exists", "getProcInfo", "getpid", "fork",
              "wait", "open", "close", "sbrk"}

\* What holds of the result r of call c at any time and for any caller.
Plain(r, c) ==
  /\ r.call = c[1] /\ r.call \in Returning /\ r.ret \in Int
  /\ r.call \in {"getNumProc", "getMaxPid"} => r.ret > 0
  /\ r.call = "exists" =>
       /\ r.ret \in {0, -1} /\ (c[2] = 1 => r.ret = 0)
       /\ c[2] \notin 1..MaxPid /\ c[2] # 1 => r.ret = -1
  /\ r.call = "getProcInfo" =>
       /\ r.ret \in {0, -1} /\ r.info.ppid \in Int
       /\ r.ret = 0 => /\ r.info.pid = c[2] /\ r.info.state \in ValidState
                       /\ r.info.nfd \in Nat
       /\ c[2] = 1 => r.ret = 0 /\ r.info.ppid = 0
  /\ r.call \in {"fork", "open", "sbrk"} => r.ret >= -1

\* The results of test t.
Answered(t, g) ==
  g \in Seq(Range(g)) /\ \A k \in DOMAIN g : Plain(g[k], Call(t, g, k))

\* What holds of the result of a call of the process with pid i.
OwnFact(r, c, i) ==
  /\ r.call = "getpid" => r.ret = i
  /\ r.call = "exists" /\ c[2] = i => r.ret = 0
  /\ r.call = "getProcInfo" /\ c[2] = i =>
       /\ r.ret = 0 /\ r.info.state = "RUNNING" /\ r.info.nfd >= 3 /\ r.info.sz > 0
       /\ r.info.ppid > 0

\* The results of test t that the process with pid i has.
Tale(t, g, i) ==
  Answered(t, g) /\ \A k \in Own(g) : OwnFact(g[k], Call(t, g, k), i)

LEMMA AskedBefore ==
  ASSUME NEW t, NEW g, Answered(t, g), NEW k \in DOMAIN g
  PROVE  /\ k \in Nat /\ k - 1 \in Nat /\ Len(g) \in Nat /\ k >= 1 /\ k <= Len(g)
         /\ Plain(g[k], NextCall(t, Prefix(g, k - 1)))
         /\ Prefix(g, k - 1) \in Seq(Range(Prefix(g, k - 1)))
         /\ Len(Prefix(g, k - 1)) = k - 1
         /\ \A m \in 1..k - 1 : Prefix(g, k - 1)[m] = g[m] /\ m \in DOMAIN g
         /\ InChild(Prefix(g, k - 1)) => InChild(g)
         /\ Starved(Prefix(g, k - 1)) => Starved(g)
<1>1. DOMAIN g = 1..Len(g) /\ Len(g) \in Nat /\ g \in Seq(Range(g))
  BY LenProperties DEF Answered
<1>2. k \in Nat /\ k - 1 \in Nat /\ k - 1 <= Len(g) /\ k >= 1 /\ k <= Len(g)
  BY <1>1
<1> DEFINE h == Prefix(g, k - 1)
<1>3. /\ h \in Seq(Range(h)) /\ Len(h) = k - 1 /\ DOMAIN h = 1..k - 1
      /\ \A m \in 1..k - 1 : h[m] = g[m] /\ m \in DOMAIN g
  BY <1>1, <1>2, PrefixIs
<1>4. Plain(g[k], NextCall(t, h))
  BY DEF Answered, Call
<1> HIDE DEF h
<1>5. InChild(h) => InChild(g)
  BY <1>3 DEF InChild
<1>6. Starved(h) => Starved(g)
  BY <1>3 DEF Starved
<1> QED BY <1>1, <1>2, <1>3, <1>4, <1>5, <1>6 DEF h

LEMMA AnsweredMore ==
  ASSUME NEW t, NEW g, Answered(t, g), NEW r, Plain(r, NextCall(t, g))
  PROVE  Answered(t, Append(g, r))
<1> DEFINE h == Append(g, r)
           last == Len(g) + 1
<1>1. g \in Seq(Range(g))
  BY DEF Answered
<1>2. /\ h \in Seq(Range(h)) /\ DOMAIN h = DOMAIN g \cup {last} /\ h[last] = r
      /\ \A k \in DOMAIN g : h[k] = g[k]
  BY <1>1, MorePlaces
<1>3. (\A k \in DOMAIN g : Call(t, h, k) = Call(t, g, k)) /\ Call(t, h, last) = NextCall(t, g)
  BY <1>1, MoreCalls
<1> HIDE DEF h, last
<1>4. Answered(t, h)
  BY <1>2, <1>3 DEF Answered
<1> QED BY <1>4 DEF h

LEMMA TaleMore ==
  ASSUME NEW t, NEW g, NEW i, Tale(t, g, i), NEW r, Plain(r, NextCall(t, g)),
         OwnFact(r, NextCall(t, g), i)
  PROVE  Tale(t, Append(g, r), i)
<1> DEFINE h == Append(g, r)
           last == Len(g) + 1
<1>1. g \in Seq(Range(g)) /\ Answered(t, h)
  BY AnsweredMore DEF Answered, Tale
<1>2. h[last] = r /\ \A k \in DOMAIN g : h[k] = g[k]
  BY <1>1, MorePlaces
<1>3. (\A k \in DOMAIN g : Call(t, h, k) = Call(t, g, k)) /\ Call(t, h, last) = NextCall(t, g)
  BY <1>1, MoreCalls
<1>4. Own(h) \subseteq Own(g) \cup {last}
  BY <1>1, MoreOwn
<1>5. Own(g) \subseteq DOMAIN g
  BY DEF Own
<1> HIDE DEF h, last
<1>6. \A k \in Own(h) : OwnFact(h[k], Call(t, h, k), i)
  BY <1>2, <1>3, <1>4, <1>5 DEF Tale
<1>7. Tale(t, h, i)
  BY <1>1, <1>6 DEF Tale
<1> QED BY <1>7 DEF h

\* The child goes on with the results of its parent, which are not its own.
LEMMA TaleOfChild ==
  ASSUME NEW t, NEW g, Answered(t, g), NEW r, Plain(r, NextCall(t, g)),
         r.call = "fork", r.ret = 0, NEW i
  PROVE  Tale(t, Append(g, r), i)
<1> DEFINE h == Append(g, r)
           last == Len(g) + 1
<1>1. g \in Seq(Range(g)) /\ Answered(t, h)
  BY AnsweredMore DEF Answered
<1>2. h[last] = r /\ Own(h) = {last}
  BY <1>1, MorePlaces, MoreOwn
<1> HIDE DEF h, last
<1>3. \A k \in Own(h) : OwnFact(h[k], Call(t, h, k), i)
  BY <1>2 DEF OwnFact
<1>4. Tale(t, h, i)
  BY <1>1, <1>3 DEF Tale
<1> QED BY <1>4 DEF h

\* What holds of the result r of call c of the process with pid i when there are
\* only init, that process and the child it owes a wait, if any; h are the
\* results before.
Alone(r, c, h, i) ==
  /\ r.call = "getNumProc" => r.ret = IF Owes(h) THEN 3 ELSE 2
  /\ ~ Owes(h) =>
       /\ r.call = "getMaxPid" => r.ret = i
       /\ r.call = "exists" => (r.ret = 0 <=> c[2] \in {1, i})
       /\ r.call = "getProcInfo" /\ r.ret = 0 => r.info.sz > 0

\* The results of a test that has the system to itself: it is run by the process
\* with pid i or, when that is the child, by a child of the process with pid j.
QuietTale(t, g, i, j) ==
  /\ \A k \in Own(g) :
       g[k].call = "getProcInfo" /\ Call(t, g, k)[2] = i => g[k].info.ppid = j
  /\ \A k \in DOMAIN g \ Own(g) : g[k].call = "getpid" => g[k].ret = j
  /\ ~ InChild(g) =>
       \A k \in DOMAIN g : Alone(g[k], Call(t, g, k), Prefix(g, k - 1), i)

LEMMA QuietMore ==
  ASSUME NEW t, NEW g, g \in Seq(Range(g)), NEW i, NEW j, QuietTale(t, g, i, j), NEW r,
         ~ (r.call = "fork" /\ r.ret = 0),
         r.call = "getProcInfo" /\ NextCall(t, g)[2] = i => r.info.ppid = j,
         ~ InChild(g) => Alone(r, NextCall(t, g), g, i)
  PROVE  QuietTale(t, Append(g, r), i, j)
<1> DEFINE h == Append(g, r)
           last == Len(g) + 1
<1>1. /\ h[last] = r /\ DOMAIN h = DOMAIN g \cup {last}
      /\ \A k \in DOMAIN g : h[k] = g[k]
  BY MorePlaces
<1>2. (\A k \in DOMAIN g : Call(t, h, k) = Call(t, g, k)) /\ Call(t, h, last) = NextCall(t, g)
  BY MoreCalls
<1>3. Own(h) = Own(g) \cup {last} /\ Own(g) \subseteq DOMAIN g
  BY MoreOwn DEF Own
<1>4. InChild(h) <=> InChild(g)
  BY MoreChild
<1>5. /\ \A k \in DOMAIN g : Prefix(h, k - 1) = Prefix(g, k - 1)
      /\ Prefix(h, last - 1) = g
  <2>1. DOMAIN g = 1..Len(g) /\ Len(g) \in Nat
    BY LenProperties
  <2>2. \A m \in 0..Len(g) : Prefix(h, m) = Prefix(g, m)
    BY <2>1, PrefixOfMore
  <2>3. \A k \in DOMAIN g : k - 1 \in 0..Len(g)
    BY <2>1
  <2>4. last - 1 = Len(g) /\ Len(g) \in 0..Len(g)
    BY <2>1
  <2> HIDE DEF h, last
  <2> QED BY <2>2, <2>3, <2>4, WholePrefix
<1> HIDE DEF h, last
<1>6. \A k \in Own(h) :
        h[k].call = "getProcInfo" /\ Call(t, h, k)[2] = i => h[k].info.ppid = j
  BY <1>1, <1>2, <1>3 DEF QuietTale
<1>7. \A k \in DOMAIN h \ Own(h) : h[k].call = "getpid" => h[k].ret = j
  BY <1>1, <1>3 DEF QuietTale
<1>8. ~ InChild(h) =>
        \A k \in DOMAIN h : Alone(h[k], Call(t, h, k), Prefix(h, k - 1), i)
  BY <1>1, <1>2, <1>4, <1>5 DEF QuietTale
<1>9. QuietTale(t, h, i, j)
  BY <1>6, <1>7, <1>8 DEF QuietTale
<1> QED BY <1>9 DEF h

LEMMA QuietOfChild ==
  ASSUME NEW t, NEW g, NEW j, Tale(t, g, j), ~ InChild(g), NEW i, NEW r,
         r.call = "fork", r.ret = 0
  PROVE  QuietTale(t, Append(g, r), i, j)
<1> DEFINE h == Append(g, r)
           last == Len(g) + 1
<1>1. g \in Seq(Range(g))
  BY DEF Tale, Answered
<1>2. /\ h[last] = r /\ DOMAIN h = DOMAIN g \cup {last} /\ Own(h) = {last}
      /\ \A k \in DOMAIN g : h[k] = g[k]
  BY <1>1, MorePlaces, MoreOwn
<1>3. InChild(h)
  BY <1>1, MoreChild
<1>4. Own(g) = DOMAIN g
  BY DEF Own, InChild
<1>5. \A k \in DOMAIN g : g[k].call = "getpid" => g[k].ret = j
  BY <1>4 DEF Tale, OwnFact
<1> HIDE DEF h, last
<1>6. \A k \in Own(h) :
        h[k].call = "getProcInfo" /\ Call(t, h, k)[2] = i => h[k].info.ppid = j
  BY <1>2
<1>7. \A k \in DOMAIN h \ Own(h) : h[k].call = "getpid" => h[k].ret = j
  BY <1>2, <1>5
<1>8. QuietTale(t, h, i, j)
  BY <1>3, <1>6, <1>7 DEF QuietTale
<1> QED BY <1>8 DEF h
-----------------------------------------------------------------------------
(* The tests: what each calls next.                                        *)

\* Tests of one call.
LEMMA OneCallTests ==
  ASSUME NEW g, Len(g) \in Nat
  PROVE
  /\ NextCall("numproc_positive", g) =
          IF Len(g) = 0 THEN Num ELSE Verdict(g[1].ret > 0)
  /\ NextCall("maxpid_positive", g) =
          IF Len(g) = 0 THEN MaxPidCall ELSE Verdict(g[1].ret > 0)
  /\ NextCall("procinfo_invalid", g) =
          IF Len(g) = 0 THEN Exists(99999) ELSE Verdict(g[1].ret < 0)
  /\ NextCall("procinfo_zero", g) =
          IF Len(g) = 0 THEN Exists(0) ELSE Verdict(g[1].ret < 0)
  /\ NextCall("procinfo_negative", g) =
          IF Len(g) = 0 THEN Exists(-1) ELSE Verdict(g[1].ret < 0)
  /\ NextCall("procinfo_init", g) =
          IF Len(g) = 0 THEN Exists(1) ELSE Verdict(g[1].ret = 0)
  /\ NextCall("init_ppid_zero", g) =
          IF Len(g) = 0 THEN Info(1) ELSE Verdict(g[1].info.ppid = 0)
<1>1. NextCall("numproc_positive", g) =
          IF Len(g) = 0 THEN Num ELSE Verdict(g[1].ret > 0)
  <2>1. NextCall("numproc_positive", g) = test_numproc_positive(g)
    BY NextIs
  <2> QED BY <2>1, RunOne DEF test_numproc_positive, Test
<1>2. NextCall("maxpid_positive", g) =
          IF Len(g) = 0 THEN MaxPidCall ELSE Verdict(g[1].ret > 0)
  <2>1. NextCall("maxpid_positive", g) = test_maxpid_positive(g)
    BY NextIs
  <2> QED BY <2>1, RunOne DEF test_maxpid_positive, Test
<1>3. NextCall("procinfo_invalid", g) =
          IF Len(g) = 0 THEN Exists(99999) ELSE Verdict(g[1].ret < 0)
  <2>1. NextCall("procinfo_invalid", g) = test_procinfo_invalid(g)
    BY NextIs
  <2> QED BY <2>1, RunOne DEF test_procinfo_invalid, Test
<1>4. NextCall("procinfo_zero", g) =
          IF Len(g) = 0 THEN Exists(0) ELSE Verdict(g[1].ret < 0)
  <2>1. NextCall("procinfo_zero", g) = test_procinfo_zero(g)
    BY NextIs
  <2> QED BY <2>1, RunOne DEF test_procinfo_zero, Test
<1>5. NextCall("procinfo_negative", g) =
          IF Len(g) = 0 THEN Exists(-1) ELSE Verdict(g[1].ret < 0)
  <2>1. NextCall("procinfo_negative", g) = test_procinfo_negative(g)
    BY NextIs
  <2> QED BY <2>1, RunOne DEF test_procinfo_negative, Test
<1>6. NextCall("procinfo_init", g) =
          IF Len(g) = 0 THEN Exists(1) ELSE Verdict(g[1].ret = 0)
  <2>1. NextCall("procinfo_init", g) = test_procinfo_init(g)
    BY NextIs
  <2> QED BY <2>1, RunOne DEF test_procinfo_init, Test
<1>7. NextCall("init_ppid_zero", g) =
          IF Len(g) = 0 THEN Info(1) ELSE Verdict(g[1].info.ppid = 0)
  <2>1. NextCall("init_ppid_zero", g) = test_init_ppid_zero(g)
    BY NextIs
  <2> QED BY <2>1, RunOne DEF test_init_ppid_zero, Test
<1> QED BY <1>1, <1>2, <1>3, <1>4, <1>5, <1>6, <1>7

\* Tests of what getProcInfo says of the caller.
LEMMA SelfTests ==
  ASSUME NEW g, Len(g) \in Nat, g = <<>> <=> Len(g) = 0
  PROVE
  /\ NextCall("procinfo_self", g) =
          IF Len(g) = 0 THEN Getpid ELSE IF Len(g) = 1 THEN Exists(g[1].ret)
          ELSE Verdict(g[2].ret = 0)
  /\ NextCall("self_state_running", g) =
          IF Len(g) = 0 THEN Getpid ELSE IF Len(g) = 1 THEN Info(g[1].ret)
          ELSE Verdict(g[2].info.state = "RUNNING")
  /\ NextCall("self_size_positive", g) =
          IF Len(g) = 0 THEN Getpid ELSE IF Len(g) = 1 THEN Info(g[1].ret)
          ELSE Verdict(g[2].info.sz > 0)
  /\ NextCall("self_nfd_positive", g) =
          IF Len(g) = 0 THEN Getpid ELSE IF Len(g) = 1 THEN Info(g[1].ret)
          ELSE Verdict(g[2].info.nfd >= 3)
  /\ NextCall("self_ppid_positive", g) =
          IF Len(g) = 0 THEN Getpid ELSE IF Len(g) = 1 THEN Info(g[1].ret)
          ELSE Verdict(g[2].info.ppid > 0)
  /\ NextCall("state_valid_range", g) =
          IF Len(g) = 0 THEN Getpid ELSE IF Len(g) = 1 THEN Info(g[1].ret)
          ELSE Verdict(g[2].info.state \in ValidState)
<1>1. NextCall("procinfo_self", g) =
          IF Len(g) = 0 THEN Getpid ELSE IF Len(g) = 1 THEN Exists(g[1].ret)
          ELSE Verdict(g[2].ret = 0)
  <2>1. NextCall("procinfo_self", g) = test_procinfo_self(g)
    BY NextIs
  <2> QED BY <2>1, RunTwo DEF test_procinfo_self, Test
<1>2. NextCall("self_state_running", g) =
          IF Len(g) = 0 THEN Getpid ELSE IF Len(g) = 1 THEN Info(g[1].ret)
          ELSE Verdict(g[2].info.state = "RUNNING")
  <2>1. NextCall("self_state_running", g) = test_self_state_running(g)
    BY NextIs
  <2> QED BY <2>1, RunTwo DEF test_self_state_running, Test, SelfTest
<1>3. NextCall("self_size_positive", g) =
          IF Len(g) = 0 THEN Getpid ELSE IF Len(g) = 1 THEN Info(g[1].ret)
          ELSE Verdict(g[2].info.sz > 0)
  <2>1. NextCall("self_size_positive", g) = test_self_size_positive(g)
    BY NextIs
  <2> QED BY <2>1, RunTwo DEF test_self_size_positive, Test, SelfTest
<1>4. NextCall("self_nfd_positive", g) =
          IF Len(g) = 0 THEN Getpid ELSE IF Len(g) = 1 THEN Info(g[1].ret)
          ELSE Verdict(g[2].info.nfd >= 3)
  <2>1. NextCall("self_nfd_positive", g) = test_self_nfd_positive(g)
    BY NextIs
  <2> QED BY <2>1, RunTwo DEF test_self_nfd_positive, Test, SelfTest
<1>5. NextCall("self_ppid_positive", g) =
          IF Len(g) = 0 THEN Getpid ELSE IF Len(g) = 1 THEN Info(g[1].ret)
          ELSE Verdict(g[2].info.ppid > 0)
  <2>1. NextCall("self_ppid_positive", g) = test_self_ppid_positive(g)
    BY NextIs
  <2> QED BY <2>1, RunTwo DEF test_self_ppid_positive, Test, SelfTest
<1>6. NextCall("state_valid_range", g) =
          IF Len(g) = 0 THEN Getpid ELSE IF Len(g) = 1 THEN Info(g[1].ret)
          ELSE Verdict(g[2].info.state \in ValidState)
  <2>1. NextCall("state_valid_range", g) = test_state_valid_range(g)
    BY NextIs
  <2> QED BY <2>1, RunTwo DEF test_state_valid_range, Test, SelfTest
<1> QED BY <1>1, <1>2, <1>3, <1>4, <1>5, <1>6

\* Tests that ask several times.
LEMMA RepeatingTests ==
  ASSUME NEW g, Len(g) \in Nat
  PROVE
  /\ NextCall("maxpid_ge_numproc", g) =
          IF Len(g) = 0 THEN Num ELSE IF Len(g) = 1 THEN MaxPidCall
          ELSE Verdict(g[2].ret >= g[1].ret)
  /\ NextCall("numproc_consistent", g) =
          IF Len(g) = 0 THEN Num ELSE IF Len(g) = 1 THEN Num
          ELSE IF Len(g) = 2 THEN Num
          ELSE Verdict(g[1].ret = g[2].ret /\ g[2].ret = g[3].ret)
  /\ NextCall("maxpid_consistent", g) =
          IF Len(g) = 0 THEN MaxPidCall ELSE IF Len(g) = 1 THEN MaxPidCall
          ELSE IF Len(g) = 2 THEN MaxPidCall
          ELSE Verdict(g[1].ret = g[2].ret /\ g[2].ret = g[3].ret)
<1>1. NextCall("maxpid_ge_numproc", g) =
          IF Len(g) = 0 THEN Num ELSE IF Len(g) = 1 THEN MaxPidCall
          ELSE Verdict(g[2].ret >= g[1].ret)
  <2>1. NextCall("maxpid_ge_numproc", g) = test_maxpid_ge_numproc(g)
    BY NextIs
  <2> QED BY <2>1, RunTwo DEF test_maxpid_ge_numproc, Test
<1>2. NextCall("numproc_consistent", g) =
          IF Len(g) = 0 THEN Num ELSE IF Len(g) = 1 THEN Num
          ELSE IF Len(g) = 2 THEN Num
          ELSE Verdict(g[1].ret = g[2].ret /\ g[2].ret = g[3].ret)
  <2>1. NextCall("numproc_consistent", g) = test_numproc_consistent(g)
    BY NextIs
  <2> QED BY <2>1, RunThree DEF test_numproc_consistent, Test
<1>3. NextCall("maxpid_consistent", g) =
          IF Len(g) = 0 THEN MaxPidCall ELSE IF Len(g) = 1 THEN MaxPidCall
          ELSE IF Len(g) = 2 THEN MaxPidCall
          ELSE Verdict(g[1].ret = g[2].ret /\ g[2].ret = g[3].ret)
  <2>1. NextCall("maxpid_consistent", g) = test_maxpid_consistent(g)
    BY NextIs
  <2> QED BY <2>1, RunThree DEF test_maxpid_consistent, Test
<1> QED BY <1>1, <1>2, <1>3

\* The test that asks three times for its own entry.
LEMMA ConsistencyTest ==
  ASSUME NEW g, Len(g) \in Nat, g = <<>> <=> Len(g) = 0
  PROVE  \E ok \in BOOLEAN :
           /\ NextCall("procinfo_consistency", g) =
                IF Len(g) = 0 THEN Getpid ELSE IF Len(g) = 1 THEN Info(g[1].ret)
                ELSE IF Len(g) = 2 THEN Info(g[1].ret) ELSE IF Len(g) = 3 THEN Info(g[1].ret)
                ELSE Verdict(ok)
           /\ ok <=> /\ g[3].info.ppid = g[2].info.ppid /\ g[3].info.sz = g[2].info.sz
                     /\ g[4].info.ppid = g[2].info.ppid /\ g[4].info.sz = g[2].info.sz
<1> DEFINE ok == \A k \in {3, 4} : g[k].info.ppid = g[2].info.ppid
                                    /\ g[k].info.sz = g[2].info.sz
<1>1. NextCall("procinfo_consistency", g) =
        IF g = <<>> THEN Getpid
        ELSE Run(<<Getpid, Info(g[1].ret), Info(g[1].ret), Info(g[1].ret)>>, g, Verdict(ok))
  BY NextIs DEF test_procinfo_consistency, Test
<1> HIDE DEF ok
<1>2. NextCall("procinfo_consistency", g) =
        IF Len(g) = 0 THEN Getpid ELSE IF Len(g) = 1 THEN Info(g[1].ret)
        ELSE IF Len(g) = 2 THEN Info(g[1].ret) ELSE IF Len(g) = 3 THEN Info(g[1].ret)
        ELSE Verdict(ok)
  BY <1>1, RunFour
<1>3. ok <=> /\ g[3].info.ppid = g[2].info.ppid /\ g[3].info.sz = g[2].info.sz
             /\ g[4].info.ppid = g[2].info.ppid /\ g[4].info.sz = g[2].info.sz
  BY DEF ok
<1>4. ok \in BOOLEAN
  BY DEF ok
<1> QED BY ONLY <1>2, <1>3, <1>4

\* The test that grows between two looks at its own entry.
LEMMA SbrkTest ==
  ASSUME NEW g, Len(g) \in Nat, g = <<>> <=> Len(g) = 0
  PROVE  NextCall("sbrk_changes_size", g) =
           IF Len(g) = 0 THEN Getpid ELSE IF Len(g) = 1 THEN Info(g[1].ret)
           ELSE IF Len(g) = 2 THEN Sbrk ELSE IF Len(g) = 3 THEN Info(g[1].ret)
           ELSE Verdict(g[4].info.sz > g[2].info.sz)
<1>1. NextCall("sbrk_changes_size", g) = test_sbrk_changes_size(g)
  BY NextIs
<1> QED BY <1>1, RunFour DEF test_sbrk_changes_size, Test

\* The tests that open a file, and close it.
LEMMA OpenTest ==
  ASSUME NEW g, Len(g) \in Nat, g = <<>> <=> Len(g) = 0, ~ Starved(g)
  PROVE  NextCall("open_increases_nfd", g) =
           IF Len(g) = 0 THEN Getpid ELSE IF Len(g) = 1 THEN Info(g[1].ret)
           ELSE IF Len(g) = 2 THEN Open ELSE IF Len(g) = 3 THEN Info(g[1].ret)
           ELSE IF Len(g) = 4 THEN Close
           ELSE Verdict(g[4].info.nfd = g[2].info.nfd + 1)
<1>1. NextCall("open_increases_nfd", g) = test_open_increases_nfd(g)
  BY NextIs
<1> QED BY <1>1, RunFive DEF test_open_increases_nfd, Test

LEMMA CloseTest ==
  ASSUME NEW g, Len(g) \in Nat, g = <<>> <=> Len(g) = 0, ~ Starved(g)
  PROVE  NextCall("close_decreases_nfd", g) =
           IF Len(g) = 0 THEN Getpid ELSE IF Len(g) = 1 THEN Open
           ELSE IF Len(g) = 2 THEN Info(g[1].ret) ELSE IF Len(g) = 3 THEN Close
           ELSE IF Len(g) = 4 THEN Info(g[1].ret)
           ELSE Verdict(g[5].info.nfd = g[3].info.nfd - 1)
<1>1. NextCall("close_decreases_nfd", g) = test_close_decreases_nfd(g)
  BY NextIs
<1> QED BY <1>1, RunFive DEF test_close_decreases_nfd, Test

\* Tests that fork, in the parent.
LEMMA ForkTest ==
  ASSUME NEW g, Len(g) \in Nat, ~ InChild(g)
  PROVE  NextCall("fork_increases_numproc", g) =
           IF Len(g) = 0 THEN Num ELSE IF Len(g) = 1 THEN Fork
           ELSE IF Len(g) = 2 THEN Num ELSE IF Len(g) = 3 THEN Wait
           ELSE Verdict(g[3].ret > g[1].ret)
<1>1. NextCall("fork_increases_numproc", g) = test_fork_increases_numproc(g)
  BY NextIs
<1> QED BY <1>1, RunFour DEF test_fork_increases_numproc, Test

LEMMA WaitTest ==
  ASSUME NEW g, Len(g) \in Nat, ~ InChild(g)
  PROVE  NextCall("wait_decreases_numproc", g) =
           IF Len(g) = 0 THEN Fork ELSE IF Len(g) = 1 THEN Num
           ELSE IF Len(g) = 2 THEN Wait ELSE IF Len(g) = 3 THEN Num
           ELSE Verdict(g[4].ret < g[2].ret)
<1>1. NextCall("wait_decreases_numproc", g) = test_wait_decreases_numproc(g)
  BY NextIs
<1> QED BY <1>1, RunFour DEF test_wait_decreases_numproc, Test

LEMMA MaxPidTest ==
  ASSUME NEW g, Len(g) \in Nat, ~ InChild(g)
  PROVE  NextCall("maxpid_after_fork", g) =
           IF Len(g) = 0 THEN MaxPidCall ELSE IF Len(g) = 1 THEN Fork
           ELSE IF Len(g) = 2 THEN MaxPidCall ELSE IF Len(g) = 3 THEN Wait
           ELSE Verdict(g[3].ret >= g[1].ret)
<1>1. NextCall("maxpid_after_fork", g) = test_maxpid_after_fork(g)
  BY NextIs
<1> QED BY <1>1, RunFour DEF test_maxpid_after_fork, Test

LEMMA ChildPpidTest ==
  ASSUME NEW g, Len(g) \in Nat, ~ InChild(g)
  PROVE  NextCall("child_ppid", g) =
           IF Len(g) = 0 THEN Getpid ELSE IF Len(g) = 1 THEN Fork
           ELSE IF Len(g) = 2 THEN Wait ELSE Pass
<1>1. NextCall("child_ppid", g) = test_child_ppid(g)
  BY NextIs
<1> QED BY <1>1, RunThree DEF test_child_ppid, Test

LEMMA ChildSizeTest ==
  ASSUME NEW g, Len(g) \in Nat, g = <<>> <=> Len(g) = 0, ~ InChild(g)
  PROVE  NextCall("child_size", g) =
           IF Len(g) = 0 THEN Getpid ELSE IF Len(g) = 1 THEN Info(g[1].ret)
           ELSE IF Len(g) = 2 THEN Fork ELSE IF Len(g) = 3 THEN Wait ELSE Pass
<1>1. NextCall("child_size", g) = test_child_size(g)
  BY NextIs
<1> QED BY <1>1, RunFour DEF test_child_size, Test

\* Tests that fork, in the child.
LEMMA ForkedTests ==
  ASSUME NEW g, Len(g) \in Nat, InChild(g)
  PROVE
  /\ \A t \in {"fork_increases_numproc", "wait_decreases_numproc", "maxpid_after_fork",
               "rapid_fork_exit"} : NextCall(t, g) = Exit_
  /\ Len(g) >= 2 =>
       NextCall("child_ppid", g) =
         IF Len(g) = 2 THEN Getpid ELSE IF Len(g) = 3 THEN Info(g[3].ret)
         ELSE Verdict(g[4].info.ppid = g[1].ret)
  /\ Len(g) >= 3 =>
       NextCall("child_size", g) =
         IF Len(g) = 3 THEN Getpid ELSE IF Len(g) = 4 THEN Info(g[4].ret)
         ELSE Verdict(g[5].info.sz > 0)
<1>1. /\ NextCall("fork_increases_numproc", g) = Exit_
      /\ NextCall("wait_decreases_numproc", g) = Exit_
      /\ NextCall("maxpid_after_fork", g) = Exit_ /\ NextCall("rapid_fork_exit", g) = Exit_
  BY NextIs DEF test_fork_increases_numproc, test_wait_decreases_numproc,
     test_maxpid_after_fork, test_rapid_fork_exit
<1>2. Len(g) >= 2 =>
        NextCall("child_ppid", g) =
          IF Len(g) = 2 THEN Getpid ELSE IF Len(g) = 3 THEN Info(g[3].ret)
          ELSE Verdict(g[4].info.ppid = g[1].ret)
  <2> DEFINE end == Verdict(g[4].info.ppid = g[1].ret)
  <2>1. NextCall("child_ppid", g) =
          IF Len(g) = 2 THEN Getpid
          ELSE Run(<<Getpid, Fork, Getpid, Info(g[3].ret)>>, g, end)
    BY NextIs DEF test_child_ppid, Test
  <2> HIDE DEF end
  <2>2. Run(<<Getpid, Fork, Getpid, Info(g[3].ret)>>, g, end) =
          IF Len(g) = 0 THEN Getpid ELSE IF Len(g) = 1 THEN Fork
          ELSE IF Len(g) = 2 THEN Getpid ELSE IF Len(g) = 3 THEN Info(g[3].ret) ELSE end
    BY RunFour
  <2>3. Len(g) >= 2 =>
          NextCall("child_ppid", g) =
            IF Len(g) = 2 THEN Getpid ELSE IF Len(g) = 3 THEN Info(g[3].ret) ELSE end
    <3>1. \A len \in Nat : len >= 2 => len # 0 /\ len # 1
      OBVIOUS
    <3> QED BY <2>1, <2>2, <3>1, Zenon
  <2> QED BY <2>3 DEF end
<1>3. Len(g) >= 3 =>
        NextCall("child_size", g) =
          IF Len(g) = 3 THEN Getpid ELSE IF Len(g) = 4 THEN Info(g[4].ret)
          ELSE Verdict(g[5].info.sz > 0)
  <2> DEFINE end == Verdict(g[5].info.sz > 0)
  <2>1. NextCall("child_size", g) =
          IF Len(g) = 3 THEN Getpid
          ELSE Run(<<Getpid, Info(g[1].ret), Fork, Getpid, Info(g[4].ret)>>, g, end)
    BY NextIs DEF test_child_size, Test
  <2> HIDE DEF end
  <2>2. Run(<<Getpid, Info(g[1].ret), Fork, Getpid, Info(g[4].ret)>>, g, end) =
          IF Len(g) = 0 THEN Getpid ELSE IF Len(g) = 1 THEN Info(g[1].ret)
          ELSE IF Len(g) = 2 THEN Fork ELSE IF Len(g) = 3 THEN Getpid
          ELSE IF Len(g) = 4 THEN Info(g[4].ret) ELSE end
    BY RunFive
  <2>3. Len(g) >= 3 =>
          NextCall("child_size", g) =
            IF Len(g) = 3 THEN Getpid ELSE IF Len(g) = 4 THEN Info(g[4].ret) ELSE end
    <3>1. \A len \in Nat : len >= 3 => len # 0 /\ len # 1 /\ len # 2
      OBVIOUS
    <3> QED BY <2>1, <2>2, <3>1, Zenon
  <2> QED BY <2>3 DEF end
<1> QED BY <1>1, <1>2, <1>3


\* A script with a part for each of some numbers.
LEMMA PartsOfScript ==
  ASSUME NEW m \in Nat, NEW f, f = [k \in 1..m |-> f[k]], NEW a, NEW b
  PROVE  /\ Len(<<a>> \o f) = m + 1 /\ (<<a>> \o f)[1] = a
         /\ \A k \in 1..m : (<<a>> \o f)[k + 1] = f[k]
         /\ Len((<<a>> \o f) \o <<b>>) = m + 2 /\ ((<<a>> \o f) \o <<b>>)[m + 2] = b
         /\ \A k \in 1..m + 1 : ((<<a>> \o f) \o <<b>>)[k] = (<<a>> \o f)[k]
         /\ Len(f \o <<a, b>>) = m + 2
         /\ \A k \in 1..m : (f \o <<a, b>>)[k] = f[k]
         /\ (f \o <<a, b>>)[m + 1] = a /\ (f \o <<a, b>>)[m + 2] = b
<1> DEFINE X == {a, b} \cup {f[k] : k \in 1..m}
<1>1. f \in [1..m -> X]
  OBVIOUS
<1>2. f \in Seq(X) /\ Len(f) = m
  BY ONLY <1>1, m \in Nat
<1>3. <<a>> \in Seq(X) /\ <<b>> \in Seq(X) /\ <<a, b>> \in Seq(X)
  OBVIOUS
<1>4. /\ Len(<<a>>) = 1 /\ <<a>>[1] = a /\ Len(<<b>>) = 1 /\ <<b>>[1] = b
      /\ Len(<<a, b>>) = 2 /\ <<a, b>>[1] = a /\ <<a, b>>[2] = b
  OBVIOUS
<1> HIDE DEF X
<1>5. /\ <<a>> \o f \in Seq(X) /\ Len(<<a>> \o f) = 1 + m
      /\ \A k \in 1..1 + m : (<<a>> \o f)[k] = IF k <= 1 THEN <<a>>[k] ELSE f[k - 1]
  BY <1>2, <1>3, <1>4, ConcatProperties
<1>6. (<<a>> \o f)[1] = a /\ \A k \in 1..m : (<<a>> \o f)[k + 1] = f[k]
  <2>1. (<<a>> \o f)[1] = <<a>>[1]
    BY <1>5
  <2>2. ASSUME NEW k \in 1..m PROVE (<<a>> \o f)[k + 1] = f[k]
    <3>1. k + 1 \in 1..1 + m /\ ~ (k + 1 <= 1) /\ (k + 1) - 1 = k
      OBVIOUS
    <3> QED BY <1>5, <3>1
  <2> QED BY <1>4, <2>1, <2>2
<1>7. /\ Len(f \o <<a, b>>) = m + 2
      /\ \A k \in 1..m + 2 : (f \o <<a, b>>)[k] = IF k <= m THEN f[k] ELSE <<a, b>>[k - m]
  BY <1>2, <1>3, <1>4, ConcatProperties
<1>8. /\ \A k \in 1..m : (f \o <<a, b>>)[k] = f[k]
      /\ (f \o <<a, b>>)[m + 1] = a /\ (f \o <<a, b>>)[m + 2] = b
  <2>1. ASSUME NEW k \in 1..m PROVE (f \o <<a, b>>)[k] = f[k]
    <3>1. k \in 1..m + 2 /\ k <= m
      OBVIOUS
    <3> QED BY <1>7, <3>1
  <2>2. /\ m + 1 \in 1..m + 2 /\ ~ (m + 1 <= m) /\ (m + 1) - m = 1
        /\ m + 2 \in 1..m + 2 /\ ~ (m + 2 <= m) /\ (m + 2) - m = 2
    OBVIOUS
  <2>3. (f \o <<a, b>>)[m + 1] = <<a, b>>[1] /\ (f \o <<a, b>>)[m + 2] = <<a, b>>[2]
    BY <1>7, <2>2
  <2> QED BY <1>4, <2>1, <2>3
<1> DEFINE s == <<a>> \o f
<1> HIDE DEF s
<1>9. s \in Seq(X) /\ Len(s) = m + 1
  BY <1>5 DEF s
<1>10. /\ Len(s \o <<b>>) = m + 2
       /\ \A k \in 1..m + 2 : (s \o <<b>>)[k] = IF k <= m + 1 THEN s[k] ELSE <<b>>[k - (m + 1)]
  <2>1. (m + 1) + 1 = m + 2
    OBVIOUS
  <2> QED BY <1>3, <1>4, <1>9, <2>1, ConcatProperties
<1>11. (s \o <<b>>)[m + 2] = b /\ \A k \in 1..m + 1 : (s \o <<b>>)[k] = s[k]
  <2>1. ASSUME NEW k \in 1..m + 1 PROVE (s \o <<b>>)[k] = s[k]
    <3>1. k \in 1..m + 2 /\ k <= m + 1
      OBVIOUS
    <3> QED BY <1>10, <3>1
  <2>2. m + 2 \in 1..m + 2 /\ ~ (m + 2 <= m + 1) /\ (m + 2) - (m + 1) = 1
    OBVIOUS
  <2>3. (s \o <<b>>)[m + 2] = <<b>>[1]
    BY <1>10, <2>2
  <2> QED BY <1>4, <2>1, <2>3
<1>12. /\ Len((<<a>> \o f) \o <<b>>) = m + 2 /\ ((<<a>> \o f) \o <<b>>)[m + 2] = b
       /\ \A k \in 1..m + 1 : ((<<a>> \o f) \o <<b>>)[k] = (<<a>> \o f)[k]
  BY ONLY <1>10, <1>11 DEF s
<1>13. Len(<<a>> \o f) = m + 1
  BY <1>9 DEF s
<1> QED BY ONLY <1>6, <1>7, <1>8, <1>12, <1>13

\* The tests that ask for every pid up to the one that getMaxPid has told.
LEMMA AskingTests ==
  ASSUME NEW g, Len(g) \in Nat, g = <<>> <=> Len(g) = 0, Len(g) > 0 => g[1].ret \in Nat
  PROVE
  /\ Len(g) = 0 => NextCall("query_all_pids", g) = MaxPidCall
                   /\ NextCall("numproc_matches_count", g) = MaxPidCall
  /\ Len(g) > 0 =>
       /\ NextCall("query_all_pids", g) =
            IF Len(g) <= g[1].ret THEN Info(Len(g))
            ELSE Verdict(/\ {k \in 2..Len(g) : g[k].ret = 0} # {}
                         /\ \A k \in {k \in 2..Len(g) : g[k].ret = 0} :
                              /\ g[k].info.state \in ValidState
                              /\ g[k].info.sz > 0 /\ g[k].info.nfd >= 0)
       /\ NextCall("numproc_matches_count", g) =
            IF Len(g) <= g[1].ret THEN Exists(Len(g))
            ELSE IF Len(g) = g[1].ret + 1 THEN Num
            ELSE Verdict(g[Len(g)].ret
                         - Cardinality({k \in DOMAIN g : g[k].call = "exists" /\ g[k].ret = 0})
                           \in -1..1)
<1>0. /\ NextCall("query_all_pids", g) = test_query_all_pids(g)
      /\ NextCall("numproc_matches_count", g) = test_numproc_matches_count(g)
  BY NextIs
<1>1. CASE Len(g) = 0
  <2>1. test_query_all_pids(g) = MaxPidCall /\ test_numproc_matches_count(g) = MaxPidCall
    BY <1>1 DEF test_query_all_pids, test_numproc_matches_count
  <2> QED BY <1>0, <1>1, <2>1
<1>2. CASE Len(g) > 0
  <2> DEFINE M == g[1].ret
             len == Len(g)
             f == [i \in 1..M |-> Info(i)]
             e == [i \in 1..M |-> Exists(i)]
             found == {k \in 2..Len(g) : g[k].ret = 0}
             ok == /\ found # {}
                   /\ \A k \in found : /\ g[k].info.state \in ValidState
                                       /\ g[k].info.sz > 0 /\ g[k].info.nfd >= 0
             right == g[Len(g)].ret
                      - Cardinality({k \in DOMAIN g : g[k].call = "exists" /\ g[k].ret = 0})
                        \in -1..1
             asks == <<MaxPidCall>> \o f
             counts == (<<MaxPidCall>> \o e) \o <<Num>>
  <2>1. NextCall("query_all_pids", g) =
          IF len < Len(asks) THEN asks[len + 1] ELSE Verdict(ok)
    <3>1. test_query_all_pids(g) = Test(AskAll(g, Info), g, ok)
      <4> HIDE DEF ok
      <4>1. test_query_all_pids(g) = IF g = <<>> THEN MaxPidCall ELSE Test(AskAll(g, Info), g, ok)
        BY Zenon DEF test_query_all_pids, ok
      <4> QED BY <1>2, <4>1
    <3> QED BY <1>0, <3>1 DEF Test, Run, AskAll
  <2>2. NextCall("numproc_matches_count", g) =
          IF len < Len(counts) THEN counts[len + 1] ELSE Verdict(right)
    <3>1. test_numproc_matches_count(g) = Test(AskAll(g, Exists) \o <<Num>>, g, right)
      BY <1>2 DEF test_numproc_matches_count
    <3> QED BY <1>0, <3>1 DEF Test, Run, AskAll
  <2>3. M \in Nat /\ len \in Nat /\ len > 0
    BY <1>2
  <2>31. e = [i \in 1..M |-> e[i]] /\ \A i \in 1..M : e[i] = Exists(i)
    OBVIOUS
  <2>4. Len(asks) = M + 1 /\ \A k \in 1..M : asks[k + 1] = Info(k)
    BY <2>3, PartsOfScript
  <2>5. /\ Len(counts) = M + 2 /\ counts[M + 2] = Num
        /\ \A k \in 1..M : counts[k + 1] = Exists(k)
    <3>1. /\ Len(counts) = M + 2 /\ counts[M + 2] = Num
          /\ \A k \in 1..M + 1 : counts[k] = (<<MaxPidCall>> \o e)[k]
          /\ \A k \in 1..M : (<<MaxPidCall>> \o e)[k + 1] = Exists(k)
      <4> HIDE DEF e, M
      <4>1. /\ Len(counts) = M + 2 /\ counts[M + 2] = Num
            /\ \A k \in 1..M + 1 : counts[k] = (<<MaxPidCall>> \o e)[k]
            /\ \A k \in 1..M : (<<MaxPidCall>> \o e)[k + 1] = e[k]
        <5>1. Len(counts) = M + 2
          BY ONLY <2>3, <2>31, PartsOfScript
        <5>2. counts[M + 2] = Num
          BY ONLY <2>3, <2>31, PartsOfScript
        <5>3. \A k \in 1..M + 1 : counts[k] = (<<MaxPidCall>> \o e)[k]
          BY ONLY <2>3, <2>31, PartsOfScript
        <5>4. \A k \in 1..M : (<<MaxPidCall>> \o e)[k + 1] = e[k]
          BY ONLY <2>3, <2>31, PartsOfScript
        <5> QED BY <5>1, <5>2, <5>3, <5>4
      <4> QED BY <2>31, <4>1
    <3>2. \A k \in 1..M : k + 1 \in 1..M + 1
      BY <2>3
    <3> HIDE DEF M, e, counts
    <3> QED BY <3>1, <3>2
  <2> HIDE DEF M, len, f, e, ok, right, asks, counts
  <2>6. NextCall("query_all_pids", g) = IF len <= M THEN Info(len) ELSE Verdict(ok)
    BY <2>1, <2>3, <2>4
  <2>7. NextCall("numproc_matches_count", g) =
          IF len <= M THEN Exists(len) ELSE IF len = M + 1 THEN Num ELSE Verdict(right)
    <3>1. CASE len <= M
      BY <2>2, <2>3, <2>5, <3>1
    <3>2. CASE len = M + 1
      <4>1. len + 1 = M + 2 /\ len < M + 2 /\ ~ (len <= M)
        BY <2>3, <3>2
      <4> QED BY <2>2, <2>5, <3>2, <4>1
    <3>3. CASE ~ (len <= M) /\ len # M + 1
      <4>1. ~ (len < M + 2)
        BY <2>3, <3>3
      <4> QED BY <2>2, <2>5, <3>3, <4>1
    <3> QED BY <3>1, <3>2, <3>3
  <2>8. len = Len(g) /\ M = g[1].ret
    BY DEF len, M
  <2>9. NextCall("query_all_pids", g) = IF Len(g) <= g[1].ret THEN Info(Len(g)) ELSE Verdict(ok)
    BY ONLY <2>6, <2>8
  <2>10. NextCall("numproc_matches_count", g) =
           IF Len(g) <= g[1].ret THEN Exists(Len(g)) ELSE IF Len(g) = g[1].ret + 1 THEN Num
           ELSE Verdict(right)
    BY ONLY <2>7, <2>8
  <2>11. ~ (Len(g) = 0)
    BY <1>2
  <2> QED BY ONLY <1>2, <2>9, <2>10, <2>11 DEF ok, right
<1> QED BY <1>1, <1>2

LEMMA RapidForkExit ==
  ASSUME NEW g, Len(g) \in Nat, ~ InChild(g)
  PROVE  NextCall("rapid_fork_exit", g) =
           IF Starved(g) THEN Fail
           ELSE IF Len(g) < 2 * NumRounds
                THEN IF (Len(g) + 1) % 2 = 1 THEN Fork ELSE Wait
           ELSE IF Len(g) = 2 * NumRounds THEN Num
           ELSE IF Len(g) = 2 * NumRounds + 1 THEN MaxPidCall
           ELSE Verdict(g[2 * NumRounds + 1].ret > 0 /\ g[2 * NumRounds + 2].ret > 0)
<1> DEFINE f == [k \in 1..2 * NumRounds |-> IF k % 2 = 1 THEN Fork ELSE Wait]
           m == 2 * NumRounds
           s == f \o <<Num, MaxPidCall>>
           len == Len(g)
           ok == g[2 * NumRounds + 1].ret > 0 /\ g[2 * NumRounds + 2].ret > 0
<1>1. NextCall("rapid_fork_exit", g) =
        IF Starved(g) THEN Fail ELSE IF len < Len(s) THEN s[len + 1] ELSE Verdict(ok)
  <2>1. NextCall("rapid_fork_exit", g) = test_rapid_fork_exit(g)
    BY NextIs
  <2> QED BY <2>1 DEF test_rapid_fork_exit, Test, Run
<1>2. m \in Nat /\ len \in Nat
  BY RoundsAssumption
<1>3. /\ Len(s) = m + 2 /\ s[m + 1] = Num /\ s[m + 2] = MaxPidCall
      /\ \A k \in 1..m : s[k] = IF k % 2 = 1 THEN Fork ELSE Wait
  <2>1. Len(s) = m + 2 /\ s[m + 1] = Num /\ s[m + 2] = MaxPidCall
        /\ \A k \in 1..m : s[k] = f[k]
    BY <1>2, PartsOfScript
  <2>2. \A k \in 1..m : f[k] = IF k % 2 = 1 THEN Fork ELSE Wait
    OBVIOUS
  <2> HIDE DEF f, m, s
  <2> QED BY <2>1, <2>2
<1> HIDE DEF f, m, s, len, ok
<1>4. CASE Starved(g)
  BY <1>1, <1>4
<1>5. CASE ~ Starved(g) /\ len < m
  <2>1. len + 1 \in 1..m /\ len < m + 2
    BY <1>2, <1>5
  <2>2. NextCall("rapid_fork_exit", g) = IF (len + 1) % 2 = 1 THEN Fork ELSE Wait
    BY <1>1, <1>3, <1>5, <2>1
  <2> QED BY <1>5, <2>2 DEF len, m
<1>6. CASE ~ Starved(g) /\ len = m
  <2>1. NextCall("rapid_fork_exit", g) = Num /\ ~ (len < m)
    BY <1>1, <1>2, <1>3, <1>6
  <2> QED BY <1>6, <2>1 DEF len, m
<1>7. CASE ~ Starved(g) /\ len = m + 1
  <2>1. NextCall("rapid_fork_exit", g) = MaxPidCall /\ ~ (len < m) /\ len # m
    <3>1. len + 1 = m + 2 /\ len < m + 2 /\ ~ (len < m) /\ len # m
      BY <1>2, <1>7
    <3> QED BY <1>1, <1>3, <1>7, <3>1
  <2> QED BY <1>7, <2>1 DEF len, m
<1>8. CASE ~ Starved(g) /\ ~ (len < m) /\ len # m /\ len # m + 1
  <2>1. NextCall("rapid_fork_exit", g) = Verdict(ok)
    <3>1. ~ (len < m + 2)
      BY <1>2, <1>8
    <3> QED BY <1>1, <1>3, <1>8, <3>1
  <2> QED BY <1>8, <2>1 DEF len, m, ok
<1> QED BY <1>4, <1>5, <1>6, <1>7, <1>8

-----------------------------------------------------------------------------
(* The tests: who makes which calls.                                       *)

Asking == {"getNumProc", "getMaxPid", "exists", "getProcInfo", "getpid"}
Verdicts == {"test_pass", "test_fail"}

Forkers == {"fork_increases_numproc", "wait_decreases_numproc", "child_ppid",
            "maxpid_after_fork", "child_size", "rapid_fork_exit"}
Openers == {"open_increases_nfd", "close_decreases_nfd"}

LEMMA Named ==
  /\ Num[1] = "getNumProc" /\ MaxPidCall[1] = "getMaxPid" /\ Getpid[1] = "getpid"
  /\ \A i : /\ Info(i)[1] = "getProcInfo" /\ Info(i)[2] = i
            /\ Exists(i)[1] = "exists" /\ Exists(i)[2] = i
  /\ Fork[1] = "fork" /\ Wait[1] = "wait" /\ Exit_[1] = "exit"
  /\ Open[1] = "open" /\ Close[1] = "close" /\ Sbrk[1] = "sbrk"
  /\ Pass[1] = "test_pass" /\ Fail[1] = "test_fail"
  /\ \A ok : Verdict(ok) \in {Pass, Fail}
BY DEF Num, MaxPidCall, Getpid, Info, Exists, Fork, Wait, Exit_, Open, Close, Sbrk,
   Pass, Fail, Verdict

\* What the lemmas on the calls of a test ask of its results.
LEMMA AnswersAre ==
  ASSUME NEW t, NEW g, Answered(t, g)
  PROVE  /\ g \in Seq(Range(g)) /\ Len(g) \in Nat /\ DOMAIN g = 1..Len(g)
         /\ g = <<>> <=> Len(g) = 0
<1>1. g \in Seq(Range(g))
  BY DEF Answered
<1> QED BY <1>1, LenProperties, EmptySeq

\* A name for what a call is.
CallsOf(t) ==
  Asking \cup Verdicts \cup (IF t \in Forkers THEN {"fork", "wait", "exit"} ELSE {})
    \cup (IF t \in Openers THEN {"open", "close"} ELSE {})
    \cup (IF t = "sbrk_changes_size" THEN {"sbrk"} ELSE {})

LEMMA CallsOfAll ==
  /\ \A t : /\ \A i : Info(i)[1] \in CallsOf(t) /\ Exists(i)[1] \in CallsOf(t)
            /\ Num[1] \in CallsOf(t) /\ MaxPidCall[1] \in CallsOf(t)
            /\ Getpid[1] \in CallsOf(t) /\ Fail[1] \in CallsOf(t) /\ Pass[1] \in CallsOf(t)
            /\ \A ok : Verdict(ok)[1] \in CallsOf(t)
            /\ t \in Forkers => /\ Fork[1] \in CallsOf(t) /\ Wait[1] \in CallsOf(t)
                                /\ Exit_[1] \in CallsOf(t)
            /\ t \in Openers => Open[1] \in CallsOf(t) /\ Close[1] \in CallsOf(t)
            /\ t = "sbrk_changes_size" => Sbrk[1] \in CallsOf(t)
BY Named DEF CallsOf, Asking, Verdicts

\* A test that opens a file, or forks, or grows is one of those meant to.
LEMMA TestCalls ==
  ASSUME NEW t \in Tests, NEW g, Answered(t, g)
  PROVE  NextCall(t, g)[1] \in CallsOf(t)
<1>1. /\ g \in Seq(Range(g)) /\ Len(g) \in Nat /\ DOMAIN g = 1..Len(g)
      /\ g = <<>> <=> Len(g) = 0
  BY AnswersAre
<1>2. CASE t \in {"numproc_positive", "maxpid_positive", "procinfo_invalid",
                  "procinfo_zero", "procinfo_negative", "procinfo_init", "init_ppid_zero"}
  <2>1. NextCall(t, g) \in {Num, MaxPidCall, Exists(99999), Exists(0), Exists(-1),
                            Exists(1), Info(1), Pass, Fail}
    BY <1>1, <1>2, OneCallTests, Named
  <2> QED BY <2>1, CallsOfAll
<1>3. CASE t \in {"procinfo_self", "self_state_running", "self_size_positive",
                  "self_nfd_positive", "self_ppid_positive", "state_valid_range"}
  <2>1. NextCall(t, g) \in {Getpid, Exists(g[1].ret), Info(g[1].ret), Pass, Fail}
    BY <1>1, <1>3, SelfTests, Named
  <2> QED BY <2>1, CallsOfAll
<1>4. CASE t \in {"maxpid_ge_numproc", "numproc_consistent", "maxpid_consistent",
                  "procinfo_consistency", "sbrk_changes_size"}
  <2>1. NextCall(t, g) \in {Num, MaxPidCall, Getpid, Info(g[1].ret), Pass, Fail}
        \/ (t = "sbrk_changes_size" /\ NextCall(t, g) = Sbrk)
    <3>1. CASE t \in {"maxpid_ge_numproc", "numproc_consistent", "maxpid_consistent"}
      BY <1>1, <3>1, RepeatingTests, Named
    <3>2. CASE t = "procinfo_consistency"
      BY <1>1, <3>2, ConsistencyTest, Named
    <3>3. CASE t = "sbrk_changes_size"
      BY <1>1, <3>3, SbrkTest, Named
    <3> QED BY <1>4, <3>1, <3>2, <3>3
  <2> QED BY <2>1, CallsOfAll
<1>5. CASE t \in Openers
  <2>1. NextCall(t, g) \in {Getpid, Info(g[1].ret), Open, Close, Pass, Fail}
    <3>1. CASE Starved(g)
      BY <1>5, <3>1, NextIs DEF Openers, test_open_increases_nfd, test_close_decreases_nfd
    <3>2. CASE ~ Starved(g)
      <4>1. CASE t = "open_increases_nfd"
        BY <1>1, <3>2, <4>1, OpenTest, Named
      <4>2. CASE t = "close_decreases_nfd"
        BY <1>1, <3>2, <4>2, CloseTest, Named
      <4> QED BY <1>5, <4>1, <4>2 DEF Openers
    <3> QED BY <3>1, <3>2
  <2> QED BY <1>5, <2>1, CallsOfAll
<1>6. CASE t \in Forkers \ {"rapid_fork_exit"}
  <2>1. NextCall(t, g) \in {Num, MaxPidCall, Getpid, Info(g[1].ret), Info(g[3].ret),
                            Info(g[4].ret), Fork, Wait, Exit_, Pass, Fail}
    <3>1. CASE ~ InChild(g)
      <4>1. CASE t \in {"fork_increases_numproc", "wait_decreases_numproc"}
        BY <1>1, <3>1, <4>1, ForkTest, WaitTest, Named
      <4>2. CASE t \in {"maxpid_after_fork", "child_ppid"}
        BY <1>1, <3>1, <4>2, MaxPidTest, ChildPpidTest, Named
      <4>3. CASE t = "child_size"
        BY <1>1, <3>1, <4>3, ChildSizeTest, Named
      <4> QED BY <1>6, <4>1, <4>2, <4>3 DEF Forkers
    <3>2. CASE InChild(g) /\ t \notin {"child_ppid", "child_size"}
      BY <1>1, <1>6, <3>2, ForkedTests DEF Forkers
    <3>3. CASE InChild(g) /\ t = "child_ppid"
      <4>1. NextCall("child_ppid", g) = test_child_ppid(g)
        BY NextIs
      <4> QED BY <1>1, <3>3, <4>1, RunFour, Named DEF test_child_ppid, Test
    <3>4. CASE InChild(g) /\ t = "child_size"
      <4>1. NextCall("child_size", g) = test_child_size(g)
        BY NextIs
      <4> QED BY <1>1, <3>4, <4>1, RunFive, Named DEF test_child_size, Test
    <3> QED BY <3>1, <3>2, <3>3, <3>4
  <2> QED BY <1>6, <2>1, CallsOfAll
<1>7. CASE t = "rapid_fork_exit"
  <2>1. NextCall(t, g) \in {Fork, Wait, Num, MaxPidCall, Exit_, Pass, Fail}
    <3>1. CASE ~ InChild(g)
      BY <1>1, <1>7, <3>1, RapidForkExit, Named
    <3>2. CASE InChild(g)
      BY <1>1, <1>7, <3>2, ForkedTests
    <3> QED BY <3>1, <3>2
  <2> QED BY <1>7, <2>1, CallsOfAll DEF Forkers
<1>8. CASE t \in {"query_all_pids", "numproc_matches_count"}
  <2>1. Len(g) > 0 => g[1].ret \in Nat
    <3> SUFFICES ASSUME Len(g) > 0 PROVE g[1].ret \in Nat
      OBVIOUS
    <3>1. 1 \in DOMAIN g
      BY <1>1
    <3>2. /\ Plain(g[1], NextCall(t, Prefix(g, 1 - 1)))
          /\ Prefix(g, 1 - 1) \in Seq(Range(Prefix(g, 1 - 1)))
          /\ Len(Prefix(g, 1 - 1)) = 1 - 1
      BY <3>1, AskedBefore
    <3> DEFINE h == Prefix(g, 1 - 1)
    <3>3. Len(h) = 0 /\ h = <<>>
      BY <3>2, EmptySeq
    <3> HIDE DEF h
    <3>4. NextCall(t, h) = MaxPidCall
      <4>1. NextCall("query_all_pids", h) = MaxPidCall
            /\ NextCall("numproc_matches_count", h) = MaxPidCall
        <5>1. Len(h) \in Nat /\ (h = <<>> <=> Len(h) = 0) /\ (Len(h) > 0 => h[1].ret \in Nat)
          BY <3>3
        <5> QED BY <3>3, <5>1, AskingTests
      <4> QED BY <1>8, <4>1
    <3>5. g[1].call = "getMaxPid" /\ g[1].ret \in Int /\ g[1].ret > 0
      BY <3>2, <3>4, Named DEF Plain, h
    <3> QED BY <3>5
  <2>2. NextCall(t, g) \in {MaxPidCall, Info(Len(g)), Exists(Len(g)), Num, Pass, Fail}
    <3>1. CASE Len(g) = 0
      BY <1>1, <1>8, <2>1, <3>1, AskingTests
    <3>2. CASE Len(g) > 0
      <4>1. CASE t = "query_all_pids"
        BY <1>1, <2>1, <3>2, <4>1, AskingTests, Named
      <4>2. CASE t = "numproc_matches_count"
        BY <1>1, <2>1, <3>2, <4>2, AskingTests, Named
      <4> QED BY <1>8, <4>1, <4>2
    <3> QED BY <1>1, <3>1, <3>2
  <2> QED BY <2>2, CallsOfAll
<1>9. CASE t = "ppid_chain"
  <2>1. NextCall("ppid_chain", g) = test_ppid_chain(g)
    BY NextIs
  <2>2. NextCall(t, g) \in {Getpid, Pass, Fail} \/ \E i : NextCall(t, g) = Info(i)
    BY <1>9, <2>1, Named DEF test_ppid_chain
  <2> QED BY <2>2, CallsOfAll
<1> QED BY <1>2, <1>3, <1>4, <1>5, <1>6, <1>7, <1>8, <1>9 DEF Tests, Robust, Quiet,
        Forkers, Openers

-----------------------------------------------------------------------------
(* The tests: the child a test owes a wait.                                *)

LEMMA AnsweredPrefix ==
  ASSUME NEW t, NEW g, Answered(t, g), NEW m \in Nat, m <= Len(g)
  PROVE  Answered(t, Prefix(g, m))
<1> DEFINE h == Prefix(g, m)
<1>1. g \in Seq(Range(g))
  BY DEF Answered
<1>2. /\ h \in Seq(Range(h)) /\ DOMAIN h = 1..m
      /\ \A k \in 1..m : h[k] = g[k] /\ k \in DOMAIN g
  BY <1>1, PrefixIs
<1> HIDE DEF h
<1>3. ASSUME NEW k \in 1..m
      PROVE  Prefix(h, k - 1) = Prefix(g, k - 1)
  <2>1. \A i \in 1..k - 1 : h[i] = g[i]
    BY <1>2
  <2> QED BY <2>1 DEF Prefix
<1>4. \A k \in DOMAIN h : Plain(h[k], Call(t, h, k))
  BY <1>2, <1>3 DEF Answered, Call
<1>5. Answered(t, h)
  BY <1>2, <1>4 DEF Answered
<1> QED BY <1>5 DEF h

\* What a test has asked that is not in the child.
LEMMA Said_fork_increases_numproc ==
  ASSUME NEW g, Answered("fork_increases_numproc", g), ~ InChild(g), NEW k \in DOMAIN g
  PROVE  /\ k \in 1..4
         /\ k = 1 => Plain(g[1], Num)
         /\ k = 2 => Plain(g[2], Fork)
         /\ k = 3 => Plain(g[3], Num)
         /\ k = 4 => Plain(g[4], Wait)
<1> DEFINE h == Prefix(g, k - 1)
<1>1. /\ k \in Nat /\ k >= 1 /\ Plain(g[k], NextCall("fork_increases_numproc", h))
      /\ h \in Seq(Range(h)) /\ Len(h) = k - 1 /\ \A m \in 1..k - 1 : h[m] = g[m]
      /\ ~ InChild(h)
  BY AskedBefore
<1> HIDE DEF h
<1>2. Len(h) \in Nat /\ (h = <<>> <=> Len(h) = 0)
  BY <1>1, EmptySeq
<1>3. k > 1 => h[1] = g[1]
  BY <1>1
<1>31. ~ InChild(h)
  BY <1>1
<1>4. CASE k = 1
  <2>0. Len(h) = 0
    BY <1>1, <1>4
  <2>1. NextCall("fork_increases_numproc", h) = Num
    BY ONLY <1>2, <1>31, <2>0, ForkTest
  <2> QED BY <1>1, <1>3, <1>4, <2>1
<1>5. CASE k = 2
  <2>0. Len(h) = 1
    BY <1>1, <1>5
  <2>1. NextCall("fork_increases_numproc", h) = Fork
    BY ONLY <1>2, <1>31, <2>0, ForkTest
  <2> QED BY <1>1, <1>3, <1>5, <2>1
<1>6. CASE k = 3
  <2>0. Len(h) = 2
    BY <1>1, <1>6
  <2>1. NextCall("fork_increases_numproc", h) = Num
    <3>1. NextCall("fork_increases_numproc", h) =
            IF Len(h) = 0 THEN Num ELSE IF Len(h) = 1 THEN Fork ELSE IF Len(h) = 2 THEN Num
            ELSE IF Len(h) = 3 THEN Wait ELSE Verdict(h[3].ret > h[1].ret)
      BY ONLY <1>2, <1>31, ForkTest
    <3>2. Len(h) # 0 /\ Len(h) # 1
      BY ONLY <2>0
    <3> QED BY ONLY <2>0, <3>1, <3>2, Zenon
  <2> QED BY <1>1, <1>3, <1>6, <2>1
<1>7. CASE k = 4
  <2>0. Len(h) = 3
    BY <1>1, <1>7
  <2>1. NextCall("fork_increases_numproc", h) = Wait
    <3>1. NextCall("fork_increases_numproc", h) =
            IF Len(h) = 0 THEN Num ELSE IF Len(h) = 1 THEN Fork ELSE IF Len(h) = 2 THEN Num
            ELSE IF Len(h) = 3 THEN Wait ELSE Verdict(h[3].ret > h[1].ret)
      BY ONLY <1>2, <1>31, ForkTest
    <3>2. Len(h) # 0 /\ Len(h) # 1 /\ Len(h) # 2
      BY ONLY <2>0
    <3> QED BY ONLY <2>0, <3>1, <3>2, Zenon
  <2> QED BY <1>1, <1>3, <1>7, <2>1
<1>8. ~ (k > 4)
  <2> SUFFICES ASSUME k > 4 PROVE FALSE
    OBVIOUS
  <2>1. \E ok : \/ NextCall("fork_increases_numproc", h) = Verdict(ok)
                \/ NextCall("fork_increases_numproc", h) = Pass
    <3>1. Len(h) # 0 /\ Len(h) # 1 /\ Len(h) # 2 /\ Len(h) # 3
      BY <1>1
    <3> QED BY <1>1, <1>2, <3>1, ForkTest
  <2> QED BY <1>1, <2>1, Named DEF Plain, Returning
<1>9. k = 1 \/ k = 2 \/ k = 3 \/ k = 4
  BY <1>1, <1>8
<1> QED BY <1>4, <1>5, <1>6, <1>7, <1>9

LEMMA Said_wait_decreases_numproc ==
  ASSUME NEW g, Answered("wait_decreases_numproc", g), ~ InChild(g), NEW k \in DOMAIN g
  PROVE  /\ k \in 1..4
         /\ k = 1 => Plain(g[1], Fork)
         /\ k = 2 => Plain(g[2], Num)
         /\ k = 3 => Plain(g[3], Wait)
         /\ k = 4 => Plain(g[4], Num)
<1> DEFINE h == Prefix(g, k - 1)
<1>1. /\ k \in Nat /\ k >= 1 /\ Plain(g[k], NextCall("wait_decreases_numproc", h))
      /\ h \in Seq(Range(h)) /\ Len(h) = k - 1 /\ \A m \in 1..k - 1 : h[m] = g[m]
      /\ ~ InChild(h)
  BY AskedBefore
<1> HIDE DEF h
<1>2. Len(h) \in Nat /\ (h = <<>> <=> Len(h) = 0)
  BY <1>1, EmptySeq
<1>3. k > 1 => h[1] = g[1]
  BY <1>1
<1>31. ~ InChild(h)
  BY <1>1
<1>4. CASE k = 1
  <2>0. Len(h) = 0
    BY <1>1, <1>4
  <2>1. NextCall("wait_decreases_numproc", h) = Fork
    BY ONLY <1>2, <1>31, <2>0, WaitTest
  <2> QED BY <1>1, <1>3, <1>4, <2>1
<1>5. CASE k = 2
  <2>0. Len(h) = 1
    BY <1>1, <1>5
  <2>1. NextCall("wait_decreases_numproc", h) = Num
    BY ONLY <1>2, <1>31, <2>0, WaitTest
  <2> QED BY <1>1, <1>3, <1>5, <2>1
<1>6. CASE k = 3
  <2>0. Len(h) = 2
    BY <1>1, <1>6
  <2>1. NextCall("wait_decreases_numproc", h) = Wait
    <3>1. NextCall("wait_decreases_numproc", h) =
            IF Len(h) = 0 THEN Fork ELSE IF Len(h) = 1 THEN Num ELSE IF Len(h) = 2 THEN Wait
            ELSE IF Len(h) = 3 THEN Num ELSE Verdict(h[4].ret < h[2].ret)
      BY ONLY <1>2, <1>31, WaitTest
    <3>2. Len(h) # 0 /\ Len(h) # 1
      BY ONLY <2>0
    <3> QED BY ONLY <2>0, <3>1, <3>2, Zenon
  <2> QED BY <1>1, <1>3, <1>6, <2>1
<1>7. CASE k = 4
  <2>0. Len(h) = 3
    BY <1>1, <1>7
  <2>1. NextCall("wait_decreases_numproc", h) = Num
    <3>1. NextCall("wait_decreases_numproc", h) =
            IF Len(h) = 0 THEN Fork ELSE IF Len(h) = 1 THEN Num ELSE IF Len(h) = 2 THEN Wait
            ELSE IF Len(h) = 3 THEN Num ELSE Verdict(h[4].ret < h[2].ret)
      BY ONLY <1>2, <1>31, WaitTest
    <3>2. Len(h) # 0 /\ Len(h) # 1 /\ Len(h) # 2
      BY ONLY <2>0
    <3> QED BY ONLY <2>0, <3>1, <3>2, Zenon
  <2> QED BY <1>1, <1>3, <1>7, <2>1
<1>8. ~ (k > 4)
  <2> SUFFICES ASSUME k > 4 PROVE FALSE
    OBVIOUS
  <2>1. \E ok : \/ NextCall("wait_decreases_numproc", h) = Verdict(ok)
                \/ NextCall("wait_decreases_numproc", h) = Pass
    <3>1. Len(h) # 0 /\ Len(h) # 1 /\ Len(h) # 2 /\ Len(h) # 3
      BY <1>1
    <3> QED BY <1>1, <1>2, <3>1, WaitTest
  <2> QED BY <1>1, <2>1, Named DEF Plain, Returning
<1>9. k = 1 \/ k = 2 \/ k = 3 \/ k = 4
  BY <1>1, <1>8
<1> QED BY <1>4, <1>5, <1>6, <1>7, <1>9

LEMMA Said_child_ppid ==
  ASSUME NEW g, Answered("child_ppid", g), ~ InChild(g), NEW k \in DOMAIN g
  PROVE  /\ k \in 1..3
         /\ k = 1 => Plain(g[1], Getpid)
         /\ k = 2 => Plain(g[2], Fork)
         /\ k = 3 => Plain(g[3], Wait)
<1> DEFINE h == Prefix(g, k - 1)
<1>1. /\ k \in Nat /\ k >= 1 /\ Plain(g[k], NextCall("child_ppid", h))
      /\ h \in Seq(Range(h)) /\ Len(h) = k - 1 /\ \A m \in 1..k - 1 : h[m] = g[m]
      /\ ~ InChild(h)
  BY AskedBefore
<1> HIDE DEF h
<1>2. Len(h) \in Nat /\ (h = <<>> <=> Len(h) = 0)
  BY <1>1, EmptySeq
<1>3. k > 1 => h[1] = g[1]
  BY <1>1
<1>31. ~ InChild(h)
  BY <1>1
<1>4. CASE k = 1
  <2>0. Len(h) = 0
    BY <1>1, <1>4
  <2>1. NextCall("child_ppid", h) = Getpid
    BY ONLY <1>2, <1>31, <2>0, ChildPpidTest
  <2> QED BY <1>1, <1>3, <1>4, <2>1
<1>5. CASE k = 2
  <2>0. Len(h) = 1
    BY <1>1, <1>5
  <2>1. NextCall("child_ppid", h) = Fork
    BY ONLY <1>2, <1>31, <2>0, ChildPpidTest
  <2> QED BY <1>1, <1>3, <1>5, <2>1
<1>6. CASE k = 3
  <2>0. Len(h) = 2
    BY <1>1, <1>6
  <2>1. NextCall("child_ppid", h) = Wait
    <3>1. NextCall("child_ppid", h) =
            IF Len(h) = 0 THEN Getpid ELSE IF Len(h) = 1 THEN Fork ELSE IF Len(h) = 2 THEN Wait
            ELSE Pass
      BY ONLY <1>2, <1>31, ChildPpidTest
    <3>2. Len(h) # 0 /\ Len(h) # 1
      BY ONLY <2>0
    <3> QED BY ONLY <2>0, <3>1, <3>2, Zenon
  <2> QED BY <1>1, <1>3, <1>6, <2>1
<1>7. ~ (k > 3)
  <2> SUFFICES ASSUME k > 3 PROVE FALSE
    OBVIOUS
  <2>1. \E ok : NextCall("child_ppid", h) = Verdict(ok) \/ NextCall("child_ppid", h) = Pass
    <3>1. Len(h) # 0 /\ Len(h) # 1 /\ Len(h) # 2
      BY <1>1
    <3> QED BY <1>1, <1>2, <3>1, ChildPpidTest
  <2> QED BY <1>1, <2>1, Named DEF Plain, Returning
<1>8. k = 1 \/ k = 2 \/ k = 3
  BY <1>1, <1>7
<1> QED BY <1>4, <1>5, <1>6, <1>8

LEMMA Said_maxpid_after_fork ==
  ASSUME NEW g, Answered("maxpid_after_fork", g), ~ InChild(g), NEW k \in DOMAIN g
  PROVE  /\ k \in 1..4
         /\ k = 1 => Plain(g[1], MaxPidCall)
         /\ k = 2 => Plain(g[2], Fork)
         /\ k = 3 => Plain(g[3], MaxPidCall)
         /\ k = 4 => Plain(g[4], Wait)
<1> DEFINE h == Prefix(g, k - 1)
<1>1. /\ k \in Nat /\ k >= 1 /\ Plain(g[k], NextCall("maxpid_after_fork", h))
      /\ h \in Seq(Range(h)) /\ Len(h) = k - 1 /\ \A m \in 1..k - 1 : h[m] = g[m]
      /\ ~ InChild(h)
  BY AskedBefore
<1> HIDE DEF h
<1>2. Len(h) \in Nat /\ (h = <<>> <=> Len(h) = 0)
  BY <1>1, EmptySeq
<1>3. k > 1 => h[1] = g[1]
  BY <1>1
<1>31. ~ InChild(h)
  BY <1>1
<1>4. CASE k = 1
  <2>0. Len(h) = 0
    BY <1>1, <1>4
  <2>1. NextCall("maxpid_after_fork", h) = MaxPidCall
    BY ONLY <1>2, <1>31, <2>0, MaxPidTest
  <2> QED BY <1>1, <1>3, <1>4, <2>1
<1>5. CASE k = 2
  <2>0. Len(h) = 1
    BY <1>1, <1>5
  <2>1. NextCall("maxpid_after_fork", h) = Fork
    BY ONLY <1>2, <1>31, <2>0, MaxPidTest
  <2> QED BY <1>1, <1>3, <1>5, <2>1
<1>6. CASE k = 3
  <2>0. Len(h) = 2
    BY <1>1, <1>6
  <2>1. NextCall("maxpid_after_fork", h) = MaxPidCall
    <3>1. NextCall("maxpid_after_fork", h) =
            IF Len(h) = 0 THEN MaxPidCall ELSE IF Len(h) = 1 THEN Fork
            ELSE IF Len(h) = 2 THEN MaxPidCall
            ELSE IF Len(h) = 3 THEN Wait ELSE Verdict(h[3].ret >= h[1].ret)
      BY ONLY <1>2, <1>31, MaxPidTest
    <3>2. Len(h) # 0 /\ Len(h) # 1
      BY ONLY <2>0
    <3> QED BY ONLY <2>0, <3>1, <3>2, Zenon
  <2> QED BY <1>1, <1>3, <1>6, <2>1
<1>7. CASE k = 4
  <2>0. Len(h) = 3
    BY <1>1, <1>7
  <2>1. NextCall("maxpid_after_fork", h) = Wait
    <3>1. NextCall("maxpid_after_fork", h) =
            IF Len(h) = 0 THEN MaxPidCall ELSE IF Len(h) = 1 THEN Fork
            ELSE IF Len(h) = 2 THEN MaxPidCall
            ELSE IF Len(h) = 3 THEN Wait ELSE Verdict(h[3].ret >= h[1].ret)
      BY ONLY <1>2, <1>31, MaxPidTest
    <3>2. Len(h) # 0 /\ Len(h) # 1 /\ Len(h) # 2
      BY ONLY <2>0
    <3> QED BY ONLY <2>0, <3>1, <3>2, Zenon
  <2> QED BY <1>1, <1>3, <1>7, <2>1
<1>8. ~ (k > 4)
  <2> SUFFICES ASSUME k > 4 PROVE FALSE
    OBVIOUS
  <2>1. \E ok : \/ NextCall("maxpid_after_fork", h) = Verdict(ok)
                \/ NextCall("maxpid_after_fork", h) = Pass
    <3>1. Len(h) # 0 /\ Len(h) # 1 /\ Len(h) # 2 /\ Len(h) # 3
      BY <1>1
    <3> QED BY <1>1, <1>2, <3>1, MaxPidTest
  <2> QED BY <1>1, <2>1, Named DEF Plain, Returning
<1>9. k = 1 \/ k = 2 \/ k = 3 \/ k = 4
  BY <1>1, <1>8
<1> QED BY <1>4, <1>5, <1>6, <1>7, <1>9

\* A test owes nothing once it has waited and forked no more.
LEMMA Waited ==
  ASSUME NEW g, DOMAIN g \subseteq Nat, NEW w \in DOMAIN g, g[w].call = "wait",
         \A j \in DOMAIN g : j > w => ~ (g[j].call = "fork" /\ g[j].ret > 0)
  PROVE  ~ Owes(g)
<1> SUFFICES ASSUME NEW i \in DOMAIN g, g[i].call = "fork", g[i].ret > 0,
                    \A j \in DOMAIN g : j > i => g[j].call # "wait"
             PROVE  FALSE
  BY DEF Owes
<1>1. i # w /\ ~ (i > w) /\ ~ (w > i)
  OBVIOUS
<1> QED BY <1>1

\* Where no child of its own makes its calls.
LEMMA NeverForks ==
  ASSUME NEW t \in Tests \ Forkers, NEW g, Answered(t, g)
  PROVE  /\ \A k \in DOMAIN g : g[k].call # "fork"
         /\ ~ InChild(g) /\ ~ Owes(g)
         /\ NextCall(t, g)[1] \notin {"fork", "wait", "exit"}
<1>1. ASSUME NEW k \in DOMAIN g
      PROVE  g[k].call # "fork"
  <2>1. /\ k - 1 \in Nat /\ k - 1 <= Len(g) /\ Plain(g[k], NextCall(t, Prefix(g, k - 1)))
    <3>1. /\ k \in Nat /\ k - 1 \in Nat /\ Len(g) \in Nat /\ k <= Len(g)
          /\ Plain(g[k], NextCall(t, Prefix(g, k - 1)))
      BY AskedBefore
    <3> QED BY <3>1
  <2>2. Answered(t, Prefix(g, k - 1))
    BY <2>1, AnsweredPrefix
  <2>3. NextCall(t, Prefix(g, k - 1))[1] \in CallsOf(t)
    BY <2>2, TestCalls
  <2> QED BY <2>1, <2>3 DEF Plain, CallsOf, Asking, Verdicts
<1>2. NextCall(t, g)[1] \in CallsOf(t)
  BY TestCalls
<1> QED BY <1>1, <1>2 DEF InChild, Owes, CallsOf, Asking, Verdicts

\* The calls of test_rapid_fork_exit, in the parent.
LEMMA Said_rapid_fork_exit ==
  ASSUME NEW g, Answered("rapid_fork_exit", g), ~ InChild(g), NEW k \in DOMAIN g
  PROVE  /\ k \in 1..2 * NumRounds + 2 /\ ~ Starved(Prefix(g, k - 1))
         /\ k <= 2 * NumRounds =>
              g[k].call = IF k % 2 = 1 THEN "fork" ELSE "wait"
         /\ k = 2 * NumRounds + 1 => Plain(g[k], Num)
         /\ k = 2 * NumRounds + 2 => Plain(g[k], MaxPidCall)
<1> DEFINE h == Prefix(g, k - 1)
           m == 2 * NumRounds
           call == NextCall("rapid_fork_exit", h)
           ok == h[2 * NumRounds + 1].ret > 0 /\ h[2 * NumRounds + 2].ret > 0
<1>0. m \in Nat
  BY RoundsAssumption
<1>1. k \in Nat /\ k >= 1 /\ Plain(g[k], call) /\ Len(h) = k - 1 /\ k - 1 \in Nat /\ ~ InChild(h)
  BY AskedBefore
<1> HIDE DEF h
<1>2. call = IF Starved(h) THEN Fail
             ELSE IF Len(h) < m THEN IF (Len(h) + 1) % 2 = 1 THEN Fork ELSE Wait
             ELSE IF Len(h) = m THEN Num ELSE IF Len(h) = m + 1 THEN MaxPidCall
             ELSE Verdict(ok)
  BY <1>1, RapidForkExit
<1>3. g[k].call = call[1] /\ call[1] \in Returning
  BY <1>1 DEF Plain
<1>4. call # Fail /\ \A b : call # Verdict(b)
  BY <1>3, Named DEF Returning
<1> HIDE DEF m, call, ok
<1>5. ~ Starved(h)
  BY <1>2, <1>4
<1>6. Len(h) < m \/ Len(h) = m \/ Len(h) = m + 1
  BY <1>2, <1>4, <1>5
<1>7. k \in 1..m + 2
  BY <1>0, <1>1, <1>6
<1>8. k <= m => g[k].call = IF k % 2 = 1 THEN "fork" ELSE "wait"
  <2> SUFFICES ASSUME k <= m PROVE g[k].call = IF k % 2 = 1 THEN "fork" ELSE "wait"
    OBVIOUS
  <2>1. Len(h) < m /\ Len(h) + 1 = k
    BY <1>0, <1>1
  <2>2. call = IF k % 2 = 1 THEN Fork ELSE Wait
    BY <1>2, <1>5, <2>1
  <2> QED BY <1>3, <2>2, Named
<1>9. k = m + 1 => Plain(g[k], Num)
  <2> SUFFICES ASSUME k = m + 1 PROVE Plain(g[k], Num)
    OBVIOUS
  <2>1. Len(h) = m /\ ~ (Len(h) < m)
    BY <1>0, <1>1
  <2>2. call = Num
    BY <1>2, <1>5, <2>1
  <2> QED BY <1>1, <2>2
<1>10. k = m + 2 => Plain(g[k], MaxPidCall)
  <2> SUFFICES ASSUME k = m + 2 PROVE Plain(g[k], MaxPidCall)
    OBVIOUS
  <2>1. Len(h) = m + 1 /\ ~ (Len(h) < m) /\ Len(h) # m
    BY <1>0, <1>1
  <2>2. call = MaxPidCall
    BY <1>2, <1>5, <2>1
  <2> QED BY <1>1, <2>2
<1> QED BY <1>5, <1>7, <1>8, <1>9, <1>10 DEF m, h

\* Who forks has waited for every child, so has who gives its verdict but in
\* the child, and only a child exits.
Settled(t, g) ==
  LET call == NextCall(t, g)[1]
  IN  /\ call = "fork" => ~ Owes(g) /\ ~ InChild(g)
      /\ call \in Verdicts => ~ Owes(g) \/ InChild(g)
      /\ call = "exit" => InChild(g)

LEMMA SettledFork ==
  ASSUME NEW g, Answered("fork_increases_numproc", g)
  PROVE  Settled("fork_increases_numproc", g)
<1>1. DOMAIN g = 1..Len(g) /\ Len(g) \in Nat
  BY AnswersAre
<1>2. CASE InChild(g)
  <2>1. NextCall("fork_increases_numproc", g) = Exit_
    BY <1>1, <1>2, ForkedTests
  <2> QED BY <1>2, <2>1, Named DEF Settled, Verdicts
<1>3. CASE ~ InChild(g)
  <2>1. NextCall("fork_increases_numproc", g) =
          IF Len(g) = 0 THEN Num ELSE IF Len(g) = 1 THEN Fork
          ELSE IF Len(g) = 2 THEN Num ELSE IF Len(g) = 3 THEN Wait
          ELSE Verdict(g[3].ret > g[1].ret)
    BY <1>1, <1>3, ForkTest
  <2>2. \A k \in DOMAIN g : /\ k \in 1..4 /\ (k = 1 => Plain(g[1], Num))
                            /\ (k = 4 => Plain(g[4], Wait))
    <3> SUFFICES ASSUME NEW k \in DOMAIN g
                 PROVE  k \in 1..4 /\ (k = 1 => Plain(g[1], Num)) /\ (k = 4 => Plain(g[4], Wait))
      OBVIOUS
    <3> QED BY <1>3, Said_fork_increases_numproc
  <2>3. CASE Len(g) = 1
    <3>1. NextCall("fork_increases_numproc", g) = Fork /\ DOMAIN g = {1} /\ Plain(g[1], Num)
      BY <1>1, <2>1, <2>2, <2>3
    <3>2. ~ Owes(g)
      BY <3>1, Named DEF Owes, Plain
    <3> QED BY <1>3, <3>1, <3>2, Named DEF Settled, Verdicts
  <2>4. CASE Len(g) >= 4
    <3>1. Len(g) = 4 /\ 4 \in DOMAIN g
      <4>1. Len(g) \in DOMAIN g
        BY <1>1, <2>4
      <4>2. Len(g) \in 1..4
        BY <2>2, <4>1
      <4> QED BY <2>4, <4>1, <4>2
    <3>2. g[4].call = "wait" /\ DOMAIN g = 1..4
      BY <1>1, <2>2, <3>1, Named DEF Plain
    <3>3. ~ Owes(g)
      BY <3>2, Waited
    <3>4. NextCall("fork_increases_numproc", g)[1] \in Verdicts
      BY <2>1, <3>1, Named DEF Verdicts
    <3> QED BY <3>3, <3>4 DEF Settled, Verdicts
  <2>5. CASE Len(g) \in {0, 2, 3}
    <3>1. NextCall("fork_increases_numproc", g) \in {Num, Wait}
      BY <2>1, <2>5
    <3> QED BY <3>1, Named DEF Settled, Verdicts
  <2>6. \A len \in Nat : len \in {0, 2, 3} \/ len = 1 \/ len >= 4
    OBVIOUS
  <2> QED BY <1>1, <2>3, <2>4, <2>5, <2>6
<1> QED BY <1>2, <1>3

LEMMA SettledWait ==
  ASSUME NEW g, Answered("wait_decreases_numproc", g)
  PROVE  Settled("wait_decreases_numproc", g)
<1>1. DOMAIN g = 1..Len(g) /\ Len(g) \in Nat
  BY AnswersAre
<1>2. CASE InChild(g)
  <2>1. NextCall("wait_decreases_numproc", g) = Exit_
    BY <1>1, <1>2, ForkedTests
  <2> QED BY <1>2, <2>1, Named DEF Settled, Verdicts
<1>3. CASE ~ InChild(g)
  <2>1. NextCall("wait_decreases_numproc", g) =
          IF Len(g) = 0 THEN Fork ELSE IF Len(g) = 1 THEN Num
          ELSE IF Len(g) = 2 THEN Wait ELSE IF Len(g) = 3 THEN Num
          ELSE Verdict(g[4].ret < g[2].ret)
    BY <1>1, <1>3, WaitTest
  <2>2. \A k \in DOMAIN g : /\ k \in 1..4 /\ (k = 3 => Plain(g[3], Wait))
                            /\ (k = 4 => Plain(g[4], Num))
    <3> SUFFICES ASSUME NEW k \in DOMAIN g
                 PROVE  k \in 1..4 /\ (k = 3 => Plain(g[3], Wait)) /\ (k = 4 => Plain(g[4], Num))
      OBVIOUS
    <3> QED BY <1>3, Said_wait_decreases_numproc
  <2>3. CASE Len(g) = 0
    <3>1. NextCall("wait_decreases_numproc", g) = Fork /\ DOMAIN g = {}
      BY <1>1, <2>1, <2>3
    <3>2. ~ Owes(g)
      BY <3>1 DEF Owes
    <3> QED BY <1>3, <3>1, <3>2, Named DEF Settled, Verdicts
  <2>4. CASE Len(g) >= 4
    <3>1. Len(g) = 4 /\ 4 \in DOMAIN g
      <4>1. Len(g) \in DOMAIN g
        BY <1>1, <2>4
      <4>2. Len(g) \in 1..4
        BY <2>2, <4>1
      <4> QED BY <2>4, <4>1, <4>2
    <3>2. g[3].call = "wait" /\ g[4].call = "getNumProc" /\ DOMAIN g = 1..4
      BY <1>1, <2>2, <3>1, Named DEF Plain
    <3>3. \A j \in DOMAIN g : j > 3 => ~ (g[j].call = "fork" /\ g[j].ret > 0)
      BY <3>2
    <3>4. ~ Owes(g)
      BY <3>2, <3>3, Waited
    <3>5. NextCall("wait_decreases_numproc", g)[1] \in Verdicts
      BY <2>1, <3>1, Named DEF Verdicts
    <3> QED BY <3>4, <3>5 DEF Settled, Verdicts
  <2>5. CASE Len(g) \in {1, 2, 3}
    <3>1. NextCall("wait_decreases_numproc", g) \in {Num, Wait}
      BY <2>1, <2>5
    <3> QED BY <3>1, Named DEF Settled, Verdicts
  <2>6. \A len \in Nat : len \in {1, 2, 3} \/ len = 0 \/ len >= 4
    OBVIOUS
  <2> QED BY <1>1, <2>3, <2>4, <2>5, <2>6
<1> QED BY <1>2, <1>3

LEMMA SettledChildPpid ==
  ASSUME NEW g, Answered("child_ppid", g)
  PROVE  /\ Settled("child_ppid", g)
         /\ InChild(g) => Len(g) >= 2
<1>1. DOMAIN g = 1..Len(g) /\ Len(g) \in Nat
  BY AnswersAre
<1>2. ASSUME InChild(g) PROVE Len(g) >= 2
  <2>1. PICK k \in DOMAIN g : g[k].call = "fork"
    BY <1>2 DEF InChild
  <2> DEFINE h == Prefix(g, 0)
  <2>2. k # 1
    <3> SUFFICES ASSUME k = 1 PROVE FALSE
      OBVIOUS
    <3>1. Plain(g[1], NextCall("child_ppid", Prefix(g, 1 - 1)))
          /\ Len(Prefix(g, 1 - 1)) = 1 - 1 /\ 1 \in DOMAIN g
      BY AskedBefore
    <3>2. 1 - 1 = 0
      OBVIOUS
    <3>3. Plain(g[1], NextCall("child_ppid", h)) /\ Len(h) = 0 /\ DOMAIN h = {}
      BY <3>1, <3>2 DEF Prefix
    <3>4. ~ InChild(h)
      BY <3>3 DEF InChild
    <3> HIDE DEF h
    <3>5. NextCall("child_ppid", h) = Getpid
      BY <3>3, <3>4, ChildPpidTest
    <3> QED BY <2>1, <3>3, <3>5, Named DEF Plain
  <2> QED BY <1>1, <2>1, <2>2
<1>3. CASE InChild(g)
  <2>1. NextCall("child_ppid", g) =
          IF Len(g) = 2 THEN Getpid ELSE IF Len(g) = 3 THEN Info(g[3].ret)
          ELSE Verdict(g[4].info.ppid = g[1].ret)
    BY <1>1, <1>2, <1>3, ForkedTests
  <2>2. NextCall("child_ppid", g)[1] \in {"getpid", "getProcInfo"} \cup Verdicts
    BY <2>1, Named DEF Verdicts
  <2> QED BY <1>2, <1>3, <2>2 DEF Settled, Verdicts
<1>4. CASE ~ InChild(g)
  <2>1. NextCall("child_ppid", g) =
          IF Len(g) = 0 THEN Getpid ELSE IF Len(g) = 1 THEN Fork
          ELSE IF Len(g) = 2 THEN Wait ELSE Pass
    BY <1>1, <1>4, ChildPpidTest
  <2>2. \A k \in DOMAIN g : /\ k \in 1..3 /\ (k = 1 => Plain(g[1], Getpid))
                            /\ (k = 3 => Plain(g[3], Wait))
    <3> SUFFICES ASSUME NEW k \in DOMAIN g
                 PROVE  k \in 1..3 /\ (k = 1 => Plain(g[1], Getpid)) /\ (k = 3 => Plain(g[3], Wait))
      OBVIOUS
    <3> QED BY <1>4, Said_child_ppid
  <2>3. CASE Len(g) = 1
    <3>1. NextCall("child_ppid", g) = Fork /\ DOMAIN g = {1} /\ Plain(g[1], Getpid)
      BY <1>1, <2>1, <2>2, <2>3
    <3>2. ~ Owes(g)
      BY <3>1, Named DEF Owes, Plain
    <3> QED BY <1>4, <3>1, <3>2, Named DEF Settled, Verdicts
  <2>4. CASE Len(g) >= 3
    <3>1. Len(g) = 3 /\ 3 \in DOMAIN g
      <4>1. Len(g) \in DOMAIN g
        BY <1>1, <2>4
      <4>2. Len(g) \in 1..3
        BY <2>2, <4>1
      <4> QED BY <2>4, <4>1, <4>2
    <3>2. g[3].call = "wait" /\ DOMAIN g = 1..3
      BY <1>1, <2>2, <3>1, Named DEF Plain
    <3>3. ~ Owes(g)
      BY <3>2, Waited
    <3>4. NextCall("child_ppid", g)[1] \in Verdicts
      BY <2>1, <3>1, Named DEF Verdicts
    <3> QED BY <1>4, <3>3, <3>4 DEF Settled, Verdicts
  <2>5. CASE Len(g) \in {0, 2}
    <3>1. NextCall("child_ppid", g) \in {Getpid, Wait}
      BY <2>1, <2>5
    <3> QED BY <1>4, <3>1, Named DEF Settled, Verdicts
  <2>6. \A len \in Nat : len \in {0, 2} \/ len = 1 \/ len >= 3
    OBVIOUS
  <2> QED BY <1>1, <2>3, <2>4, <2>5, <2>6
<1> QED BY <1>2, <1>3, <1>4

LEMMA SettledRapid ==
  ASSUME NEW g, Answered("rapid_fork_exit", g)
  PROVE  Settled("rapid_fork_exit", g)
<1> DEFINE m == 2 * NumRounds
           len == Len(g)
           call == NextCall("rapid_fork_exit", g)
           ok == g[2 * NumRounds + 1].ret > 0 /\ g[2 * NumRounds + 2].ret > 0
<1>1. DOMAIN g = 1..len /\ len \in Nat /\ m \in Nat /\ m % 2 = 0
  BY AnswersAre, RoundsAssumption
<1>2. CASE InChild(g)
  <2>1. NextCall("rapid_fork_exit", g) = Exit_
    BY <1>1, <1>2, ForkedTests
  <2> QED BY <1>2, <2>1, Named DEF Settled, Verdicts
<1>3. CASE ~ InChild(g)
  <2>1. call = IF Starved(g) THEN Fail
               ELSE IF len < m THEN IF (len + 1) % 2 = 1 THEN Fork ELSE Wait
               ELSE IF len = m THEN Num ELSE IF len = m + 1 THEN MaxPidCall
               ELSE Verdict(ok)
    BY <1>1, <1>3, RapidForkExit
  <2>2. ASSUME NEW k \in DOMAIN g
        PROVE  /\ k \in 1..m + 2 /\ ~ Starved(Prefix(g, k - 1))
               /\ k <= m => g[k].call = IF k % 2 = 1 THEN "fork" ELSE "wait"
               /\ k > m => g[k].call \in {"getNumProc", "getMaxPid"}
    <3>1. /\ k \in 1..m + 2 /\ ~ Starved(Prefix(g, k - 1))
          /\ k <= m => g[k].call = IF k % 2 = 1 THEN "fork" ELSE "wait"
      BY <1>3, Said_rapid_fork_exit
    <3>2. /\ k = m + 1 => Plain(g[k], Num)
          /\ k = m + 2 => Plain(g[k], MaxPidCall)
      BY <1>3, Said_rapid_fork_exit
    <3> HIDE DEF m
    <3>3. k > m => k = m + 1 \/ k = m + 2
      BY <1>1, <3>1
    <3>4. k > m => g[k].call \in {"getNumProc", "getMaxPid"}
      BY <3>2, <3>3, Named DEF Plain
    <3> QED BY <3>1, <3>4
  <2> HIDE DEF m, len, call, ok
  <2>3. ASSUME call[1] = "fork" PROVE ~ Owes(g)
    <3>1. len < m /\ (len + 1) % 2 = 1
      BY <2>1, <2>3, Named
    <3>2. CASE len = 0
      <4>1. DOMAIN g = {}
        BY <1>1, <3>2
      <4> QED BY <4>1 DEF Owes
    <3>3. CASE len > 0
      <4>1. len \in DOMAIN g /\ len <= m /\ len % 2 # 1 /\ \A j \in DOMAIN g : ~ (j > len)
        BY <1>1, <3>1, <3>3
      <4>2. g[len].call = "wait" /\ DOMAIN g \subseteq Nat
        BY <1>1, <2>2, <4>1
      <4> QED BY <4>1, <4>2, Waited
    <3> QED BY <1>1, <3>2, <3>3
  <2>4. ASSUME call[1] \in Verdicts PROVE ~ Owes(g)
    <3>1. CASE Starved(g)
      <4>1. PICK i \in DOMAIN g : g[i].call \in {"fork", "open", "sbrk"} /\ g[i].ret = -1
        BY <3>1 DEF Starved
      <4>2. i \in 1..m + 2 /\ i <= m /\ i % 2 = 1
        <5>1. i \in 1..m + 2 /\ ~ (i > m)
          BY <1>1, <2>2, <4>1
        <5>2. i <= m
          BY <1>1, <5>1
        <5>3. g[i].call = IF i % 2 = 1 THEN "fork" ELSE "wait"
          BY <2>2, <5>2
        <5> QED BY <4>1, <5>1, <5>2, <5>3
      <4>3. i = len
        <5> SUFFICES ASSUME i # len PROVE FALSE
          OBVIOUS
        <5>1. len \in DOMAIN g /\ i \in 1..len - 1
          BY <1>1, <4>1
        <5>2. /\ DOMAIN Prefix(g, len - 1) = 1..len - 1
              /\ Prefix(g, len - 1)[i] = g[i]
          BY <5>1 DEF Prefix
        <5>3. Starved(Prefix(g, len - 1))
          BY <4>1, <5>1, <5>2 DEF Starved
        <5> QED BY <2>2, <5>1, <5>3
      <4>4. CASE len = 1
        <5>1. DOMAIN g = {1}
          BY <1>1, <4>4
        <5>2. ~ (g[1].ret > 0)
          BY <4>1, <4>3, <4>4
        <5> QED BY <5>1, <5>2 DEF Owes
      <4>5. CASE len # 1
        <5>1. /\ len - 1 \in DOMAIN g /\ len - 1 <= m /\ (len - 1) % 2 # 1
              /\ DOMAIN g \subseteq Nat
              /\ \A j \in DOMAIN g : j > len - 1 => j = len
          BY <1>1, <4>2, <4>3, <4>5
        <5>2. g[len - 1].call = "wait"
          BY <2>2, <5>1
        <5>3. ~ (g[len].ret > 0)
          BY <4>1, <4>3
        <5> QED BY <5>1, <5>2, <5>3, Waited
      <4> QED BY <4>4, <4>5
    <3>2. CASE ~ Starved(g)
      <4>1. len >= m
        <5>1. call \notin {Fork, Wait}
          BY <2>4, Named DEF Verdicts
        <5> QED BY <1>1, <2>1, <3>2, <5>1
      <4>2. CASE m = 0
        <5>1. \A k \in DOMAIN g : k > m
          BY <1>1, <4>2
        <5>2. \A k \in DOMAIN g : g[k].call # "fork"
          BY <2>2, <5>1
        <5> QED BY <5>2 DEF Owes
      <4>3. CASE m # 0
        <5>1. m \in DOMAIN g /\ m % 2 # 1 /\ m <= m /\ DOMAIN g \subseteq Nat
          BY <1>1, <4>1, <4>3
        <5>2. g[m].call = "wait" /\ \A k \in DOMAIN g : k > m => g[k].call # "fork"
          BY <2>2, <5>1
        <5> QED BY <5>1, <5>2, Waited
      <4> QED BY <4>2, <4>3
    <3> QED BY <3>1, <3>2
  <2>5. call[1] # "exit"
    BY <2>1, Named
  <2> QED BY <1>3, <2>3, <2>4, <2>5 DEF Settled, call
<1> QED BY <1>2, <1>3

LEMMA AllSettled ==
  ASSUME NEW t \in Quiet, NEW g, Answered(t, g)
  PROVE  Settled(t, g)
<1>1. CASE t \in Forkers
  <2>1. t \in {"fork_increases_numproc", "wait_decreases_numproc", "child_ppid",
               "rapid_fork_exit"}
    BY <1>1 DEF Quiet, Forkers
  <2> QED BY <2>1, SettledFork, SettledWait, SettledChildPpid, SettledRapid
<1>2. CASE t \notin Forkers
  BY <1>2, NeverForks DEF Settled, Tests
<1> QED BY <1>1, <1>2

-----------------------------------------------------------------------------
(* What the programs hear of it.                                           *)

Kept(r) == prog'[r] = prog[r] /\ got'[r] = got[r]
Heard(r, x) == prog'[r] = prog[r] /\ got'[r] = Append(got[r], x)

LEMMA StillTells ==
  ASSUME IInv, ProgramInv, TableStep, Still
  PROVE  \A r \in Slots :
           /\ nfd'[r] = nfd[r] /\ sz'[r] = sz[r] /\ prog'[r] = prog[r]
           /\ \/ Kept(r) /\ ~ (r \in Running /\ pc[r] # "user" /\ pc'[r] = "user")
              \/ /\ r \in Running /\ pc[r] = "fork" /\ pc'[r] = "user"
                 /\ Heard(r, Result("fork", -1))
              \/ /\ r \in Running /\ pc[r] \in {"wait", "waitscan"} /\ pc'[r] = "user"
                 /\ Children(r) = {} \/ killed[r]
                 /\ Heard(r, Result("wait", -1))
              \/ r \in Running /\ pc[r] \in Sleeping \cup {"kill"}
<1>1. Born = {} /\ Freed = {} /\ Copied = {}
  BY DEF Still, Born, Freed, Copied
<1>2. \A r \in Slots : r \in Dead => prog[r] = "any" /\ got[r] = <<>>
  BY DEF Still, Dead, ProgramInv
<1>3. \A r \in Slots : /\ nfd'[r] = nfd[r] /\ sz'[r] = sz[r]
                       /\ prog'[r] = IF r \in Dead THEN "any" ELSE prog[r]
                       /\ got'[r] = IF r \in Returned THEN Append(got[r], Returns(r))
                                    ELSE IF r \in Dead THEN <<>> ELSE got[r]
  BY <1>1 DEF TableStep, CopyImage
<1>4. \A r \in Slots : /\ nfd'[r] = nfd[r] /\ sz'[r] = sz[r] /\ prog'[r] = prog[r]
                       /\ got'[r] = IF r \in Returned THEN Append(got[r], Returns(r)) ELSE got[r]
  BY <1>2, <1>3
<1>5. \A r : r \in Returned <=> r \in Running /\ pc[r] # "user" /\ pc'[r] = "user"
  BY <1>1 DEF Returned
<1>6. \A r : Returns(r) = IF pc[r] \in {"wait", "waitscan"} THEN Result("wait", -1)
                          ELSE Result("fork", -1)
  BY <1>1 DEF Returns
<1>7. \A r \in Returned : \/ pc[r] = "fork"
                          \/ pc[r] \in {"wait", "waitscan"} /\ (Children(r) = {} \/ killed[r])
                          \/ pc[r] \in Sleeping \cup {"kill"}
  BY <1>5 DEF Still, Calls, Running
<1> QED BY <1>4, <1>5, <1>6, <1>7 DEF Kept, Heard

LEMMA TakesTells ==
  ASSUME IInv, ProgramInv, TableStep, NEW p \in Slots, NEW q \in Slots, Takes(p, q)
  PROVE  \A r \in Slots : nfd'[r] = nfd[r] /\ sz'[r] = sz[r] /\ Kept(r)
<1>1. Born = {} /\ Freed = {} /\ Copied = {} /\ Returned = {}
  BY DEF Takes, Born, Freed, Copied, Returned, Running
<1>2. \A r \in Slots : r \in Dead => prog[r] = "any" /\ got[r] = <<>>
  BY DEF Takes, Dead, ProgramInv
<1>3. \A r \in Slots : /\ nfd'[r] = nfd[r] /\ sz'[r] = sz[r]
                       /\ prog'[r] = IF r \in Dead THEN "any" ELSE prog[r]
                       /\ got'[r] = IF r \in Dead THEN <<>> ELSE got[r]
  BY <1>1 DEF TableStep, CopyImage
<1> QED BY <1>2, <1>3 DEF Kept

LEMMA DropsTells ==
  ASSUME IInv, ProgramInv, TableStep, NEW p \in Slots, NEW q \in Slots, Drops(p, q)
  PROVE  \A r \in Slots :
           /\ nfd'[r] = nfd[r] /\ sz'[r] = sz[r]
           /\ IF r = p /\ p \in Running THEN Heard(r, Result("fork", -1)) ELSE Kept(r)
<1>1. Born = {} /\ Freed = {} /\ Copied = {}
  BY DEF Drops, Born, Freed, Copied
<1>2. \A r \in Slots : r \in Dead => prog[r] = "any" /\ got[r] = <<>>
  BY DEF Drops, Dead, ProgramInv
<1>3. \A r \in Slots : /\ nfd'[r] = nfd[r] /\ sz'[r] = sz[r]
                       /\ prog'[r] = IF r \in Dead THEN "any" ELSE prog[r]
                       /\ got'[r] = IF r \in Returned THEN Append(got[r], Returns(r))
                                    ELSE IF r \in Dead THEN <<>> ELSE got[r]
  BY <1>1 DEF TableStep, CopyImage
<1>4. \A r \in Slots : r \in Returned <=> r = p /\ p \in Running
  BY <1>1 DEF Returned, Drops, Running
<1>5. Returns(p) = Result("fork", -1)
  BY <1>1 DEF Returns, Drops
<1> QED BY <1>2, <1>3, <1>4, <1>5 DEF Kept, Heard

LEMMA FillsTells ==
  ASSUME IInv, ProgramInv, TableStep, NEW p \in Slots, NEW q \in Slots, Fills(p, q)
  PROVE  \A r \in Slots :
           /\ nfd'[r] = IF r = q /\ ~ kstack[q] THEN nfd[p] ELSE nfd[r]
           /\ sz'[r] = IF r = q /\ ~ kstack[q] THEN sz[p] ELSE sz[r]
           /\ Kept(r)
<1>1. Born = {} /\ Freed = {} /\ Returned = {}
  <2>1. Born = {} /\ Freed = {}
    BY DEF Fills, Born, Freed
  <2>2. \A r \in Slots : ~ (pc[r] # "user" /\ pc'[r] = "user")
    BY DEF Fills
  <2> QED BY <2>1, <2>2 DEF Returned, Running
<1>2. \A r \in Slots : r \in Dead => prog[r] = "any" /\ got[r] = <<>>
  BY DEF Fills, Dead, ProgramInv
<1>3. \A r \in Slots : /\ nfd'[r] = IF r \in Copied THEN nfd[parent'[r]] ELSE nfd[r]
                       /\ sz'[r] = IF r \in Copied THEN sz[parent'[r]] ELSE sz[r]
                       /\ prog'[r] = IF r \in Dead THEN "any" ELSE prog[r]
                       /\ got'[r] = IF r \in Dead THEN <<>> ELSE got[r]
  BY <1>1 DEF TableStep, CopyImage
<1>4. \A r \in Slots : (r \in Copied <=> r = q /\ ~ kstack[q]) /\ parent'[q] = p
  BY DEF Copied, Fills
<1> QED BY <1>2, <1>3, <1>4 DEF Kept

LEMMA MakesTells ==
  ASSUME IInv, ProgramInv, TableStep, NEW p \in Slots, NEW q \in Slots, Makes(p, q)
  PROVE  /\ \A r \in Slots :
              /\ nfd'[r] = nfd[r] /\ sz'[r] = sz[r]
              /\ r \notin {p, q} => Kept(r)
         /\ IF p \in Running THEN Heard(p, Result("fork", pid[q])) ELSE Kept(p)
         /\ prog'[q] = prog[p]
         /\ got'[q] = IF p \in Running THEN Append(got[p], Result("fork", 0)) ELSE <<>>
<1>1. Born = {q} /\ Freed = {} /\ Copied = {}
  BY DEF Makes, Born, Freed, Copied
<1>2. \A r \in Slots : r \in Dead => prog[r] = "any" /\ got[r] = <<>>
  BY DEF Makes, Dead, ProgramInv
<1>3. \A r \in Slots : /\ nfd'[r] = nfd[r] /\ sz'[r] = sz[r]
                       /\ prog'[r] = IF r = q THEN prog[parent[r]]
                                     ELSE IF r \in Dead THEN "any" ELSE prog[r]
                       /\ got'[r] = IF r \in Returned THEN Append(got[r], Returns(r))
                                    ELSE IF r = q /\ prog[parent[r]] # "any"
                                         THEN Append(got[parent[r]], Result("fork", 0))
                                    ELSE IF r \in Dead THEN <<>> ELSE got[r]
  BY <1>1 DEF TableStep, CopyImage
<1>4. \A r \in Slots : r \in Returned <=> r = p /\ p \in Running
  BY <1>1 DEF Returned, Makes, Running
<1>5. Returns(p) = Result("fork", pid[q])
  <2>1. First(Born) = q
    <3>1. Born \subseteq Nat /\ Born # {}
      BY <1>1
    <3> QED BY <1>1, <3>1, FirstIn
  <2> QED BY <1>1, <2>1 DEF Returns, Makes
<1>6. parent[q] = p /\ got[q] = <<>> /\ p # q /\ q \notin Dead
  BY DEF Makes, ProgramInv, Dead
<1>7. p \in Running <=> prog[p] # "any"
  BY DEF Running
<1> QED BY <1>2, <1>3, <1>4, <1>5, <1>6, <1>7 DEF Kept, Heard

LEMMA ExitsTells ==
  ASSUME IInv, ProgramInv, TableStep, NEW p \in Slots, Exits(p)
  PROVE  \A r \in Slots :
           /\ nfd'[r] = nfd[r] /\ sz'[r] = sz[r]
           /\ IF r = p THEN prog'[r] = "any" /\ got'[r] = <<>> ELSE Kept(r)
<1>1. Born = {} /\ Freed = {} /\ Copied = {} /\ Returned = {}
  BY DEF Exits, Born, Freed, Copied, Returned, Running
<1>2. \A r \in Slots : r \in Dead => r = p \/ (prog[r] = "any" /\ got[r] = <<>>)
  BY DEF Exits, Dead, ProgramInv
<1>3. \A r \in Slots : /\ nfd'[r] = nfd[r] /\ sz'[r] = sz[r]
                       /\ prog'[r] = IF r \in Dead THEN "any" ELSE prog[r]
                       /\ got'[r] = IF r \in Dead THEN <<>> ELSE got[r]
  BY <1>1 DEF TableStep, CopyImage
<1>4. p \in Dead
  BY DEF Dead, Exits
<1> QED BY <1>2, <1>3, <1>4 DEF Kept

LEMMA ReapsTells ==
  ASSUME IInv, ProgramInv, TableStep, NEW p \in Slots, NEW z \in Slots, Reaps(p, z)
  PROVE  \A r \in Slots :
           /\ nfd'[r] = nfd[r] /\ sz'[r] = sz[r]
           /\ IF r = p /\ p \in Running THEN Heard(r, Result("wait", pid[z])) ELSE Kept(r)
<1>1. Born = {} /\ Freed = {z} /\ Copied = {}
  <2>1. Born = {}
    BY DEF Reaps, Born
  <2>2. Freed = {z}
    BY DEF Reaps, Freed
  <2>3. Copied = {}
    BY DEF Reaps, Copied
  <2> QED BY <2>1, <2>2, <2>3
<1>2. \A r \in Slots : r \in Dead => prog[r] = "any" /\ got[r] = <<>>
  BY DEF Reaps, Dead, ProgramInv
<1>3. \A r \in Slots : /\ nfd'[r] = nfd[r] /\ sz'[r] = sz[r]
                       /\ prog'[r] = IF r \in Dead THEN "any" ELSE prog[r]
                       /\ got'[r] = IF r \in Returned THEN Append(got[r], Returns(r))
                                    ELSE IF r \in Dead THEN <<>> ELSE got[r]
  BY <1>1 DEF TableStep, CopyImage
<1>4. \A r \in Slots : r \in Returned <=> r = p /\ p \in Running
  BY <1>1 DEF Returned, Reaps, Running
<1>5. Returns(p) = Result("wait", pid[z])
  <2>1. First(Freed) = z
    <3>1. Freed \subseteq Nat /\ Freed # {}
      BY <1>1
    <3> QED BY <1>1, <3>1, FirstIn
  <2> QED BY <1>1, <2>1 DEF Returns, Reaps
<1> QED BY <1>2, <1>3, <1>4, <1>5 DEF Kept, Heard

-----------------------------------------------------------------------------
(* The tests: what holds of every test, in a crowd or not.                 *)

Testers == {p \in Slots : prog[p] \in Tests}

\* init runs no program, and in a crowd only the robust tests run.
ProgOK ==
  \A p \in Running : p # initproc /\ prog[p] \in IF crowd THEN Robust \cup {"ps"} ELSE Quiet

\* A test is in the call that it makes, or has been killed.
CallInv ==
  \A p \in Testers :
    LET call == Calling(p)[1]
    IN  /\ pc[p] \in {"user", "fork", "forkcopy", "forkrun", "wait", "waitscan", "exit"}
        /\ pc[p] \in {"fork", "forkcopy", "forkrun"} => call = "fork"
        /\ pc[p] \in {"wait", "waitscan"} => call = "wait"
        /\ pc[p] = "exit" => killed[p] \/ call = "exit"

TaleInv == \A p \in Testers : Tale(prog[p], got[p], pid[p])

\* Who is not exiting has at least the files that init has.
FilesInv ==
  /\ nfd = [q \in Slots |-> nfd[q]]
  /\ \A q \in Slots : nfd[q] \in Nat /\ (kstack[q] /\ pc[q] # "exit" => nfd[q] >= 3)

\* Pids are given out up to MaxPid, once init has its own.
BoundInv == nextpid <= MaxPid + 1 \/ nextpid = 2

CommonInv == ProgOK /\ CallInv /\ TaleInv /\ FilesInv /\ BoundInv

LEMMA TestsAreNamed ==
  /\ "any" \notin Tests /\ "ps" \notin Tests /\ Quiet \subseteq Tests /\ Robust \subseteq Tests
  /\ Testers \subseteq Running /\ Testers \subseteq Slots
  /\ Forkers \subseteq Tests
BY DEF Tests, Robust, Quiet, Testers, Running, Forkers

\* The results a test gets of fork and wait.
Reply(x, call) ==
  \E ret \in Int : /\ x = Result(call, ret) /\ call \in {"fork", "wait"}
                   /\ call = "fork" => ret = -1 \/ ret > 0

\* What a step of the table is to a test: it goes on into a call or in it, or it
\* is back from it, or it is the child that fork has just made.
GoesOn(r) ==
  /\ Kept(r) /\ pid'[r] = pid[r] /\ (killed[r] => killed'[r])
  /\ \/ pc'[r] = pc[r]
     \/ pc[r] = "user" /\ pc'[r] \in {"fork", "wait", "exit"} /\ pc'[r] = Calling(r)[1]
     \/ pc[r] = "user" /\ pc'[r] = "exit" /\ killed[r]
     \/ pc[r] = "fork" /\ pc'[r] = "forkcopy"
     \/ pc[r] = "forkcopy" /\ pc'[r] = "forkrun"
     \/ pc[r] = "wait" /\ pc'[r] = "waitscan"

IsBack(r) ==
  /\ pid'[r] = pid[r] /\ pc'[r] = "user"
  /\ \E x : Heard(r, x) /\ Reply(x, Calling(r)[1])

IsMade(r) ==
  /\ pc'[r] = "user"
  /\ \E p \in Testers : /\ Makes(p, r) /\ prog'[r] = prog[p]
                        /\ got'[r] = Append(got[p], Result("fork", 0))

TesterMoves == \A r \in Testers' : (r \in Testers /\ (GoesOn(r) \/ IsBack(r))) \/ IsMade(r)

\* A test that enters the kernel makes one of its calls.
LEMMA TestEnters ==
  ASSUME CommonInv, TableStep, NEW r \in Testers, pc[r] = "user", pc'[r] # "user",
         pc'[r] \in Calls
  PROVE  \/ pc'[r] \in {"fork", "wait", "exit"} /\ pc'[r] = Calling(r)[1]
         \/ killed[r]
<1>1. MayCall(r, pc'[r])
  BY DEF TableStep, Testers
<1>2. prog[r] \in Tests /\ prog[r] # "any"
  BY TestsAreNamed DEF Testers
<1>3. Answered(prog[r], got[r])
  BY DEF CommonInv, TaleInv, Tale
<1>4. Calling(r)[1] \in CallsOf(prog[r])
  BY <1>2, <1>3, TestCalls DEF Calling
<1>5. CallsOf(prog[r]) \cap Calls \subseteq {"fork", "wait", "exit"}
  BY DEF CallsOf, Calls, Asking, Verdicts
<1> QED BY <1>1, <1>2, <1>4, <1>5 DEF MayCall

LEMMA StillMovesTests ==
  ASSUME IInv, ProgramInv, CommonInv, TableStep, Still
  PROVE  TesterMoves
<1> SUFFICES ASSUME NEW r \in Testers'
             PROVE  r \in Testers /\ (GoesOn(r) \/ IsBack(r))
  BY DEF TesterMoves
<1>1. r \in Slots /\ r \in Testers /\ prog'[r] = prog[r]
  BY StillTells DEF Testers
<1>2. pid'[r] = pid[r] /\ (killed[r] => killed'[r])
  BY <1>1 DEF Still
<1>3. /\ pc[r] \in {"user", "fork", "forkcopy", "forkrun", "wait", "waitscan", "exit"}
      /\ pc[r] = "fork" => Calling(r)[1] = "fork"
      /\ pc[r] \in {"wait", "waitscan"} => Calling(r)[1] = "wait"
  BY <1>1 DEF CommonInv, CallInv
<1>4. pc[r] \notin Sleeping \cup {"kill"}
  BY <1>3 DEF Sleeping
<1>5. r \in Running
  BY <1>1, TestsAreNamed
<1>6. CASE Kept(r) /\ ~ (pc[r] # "user" /\ pc'[r] = "user")
  <2>1. \/ pc'[r] = pc[r]
        \/ pc[r] = "user" /\ pc'[r] \in Calls /\ (killed[r] => pc'[r] = "exit")
        \/ pc[r] = "wait" /\ pc'[r] = "waitscan"
    BY <1>1, <1>4, <1>6 DEF Still
  <2>2. CASE pc[r] = "user" /\ pc'[r] \in Calls /\ (killed[r] => pc'[r] = "exit")
    <3>1. pc'[r] # "user"
      BY <2>2 DEF Calls
    <3>2. (pc'[r] \in {"fork", "wait", "exit"} /\ pc'[r] = Calling(r)[1]) \/ killed[r]
      BY <1>1, <2>2, <3>1, TestEnters
    <3> QED BY <1>1, <1>2, <1>6, <2>2, <3>2 DEF GoesOn
  <2> QED BY <1>1, <1>2, <1>6, <2>1, <2>2 DEF GoesOn
<1>7. CASE pc[r] = "fork" /\ pc'[r] = "user" /\ Heard(r, Result("fork", -1))
  <2>1. Reply(Result("fork", -1), "fork")
    BY DEF Reply
  <2> QED BY <1>1, <1>2, <1>3, <1>7, <2>1 DEF IsBack
<1>8. CASE pc[r] \in {"wait", "waitscan"} /\ pc'[r] = "user" /\ Heard(r, Result("wait", -1))
  <2>1. Reply(Result("wait", -1), "wait")
    BY DEF Reply
  <2> QED BY <1>1, <1>2, <1>3, <1>8, <2>1 DEF IsBack
<1> QED BY <1>1, <1>4, <1>5, <1>6, <1>7, <1>8, StillTells

LEMMA ForkMovesTests ==
  ASSUME IInv, ProgramInv, CommonInv, TableStep, NEW p \in Slots, NEW q \in Slots,
         Takes(p, q) \/ Drops(p, q) \/ Fills(p, q)
  PROVE  TesterMoves
<1> SUFFICES ASSUME NEW r \in Testers'
             PROVE  r \in Testers /\ (GoesOn(r) \/ IsBack(r))
  BY DEF TesterMoves
<1>1. CASE Takes(p, q)
  <2>1. Kept(r) /\ r \in Testers /\ r \in Slots
    BY <1>1, TakesTells DEF Testers, Kept
  <2>2. r # q
    BY <1>1, <2>1, TestsAreNamed DEF Takes, ProgramInv, Testers
  <2>3. /\ pid'[r] = pid[r] /\ killed' = killed
        /\ pc'[r] = pc[r] \/ (pc[r] = "fork" /\ pc'[r] = "forkcopy")
    BY <1>1, <2>1, <2>2 DEF Takes
  <2> QED BY <2>1, <2>3 DEF GoesOn
<1>2. CASE Fills(p, q)
  <2>1. Kept(r) /\ r \in Testers /\ r \in Slots
    BY <1>2, FillsTells DEF Testers, Kept
  <2>2. /\ pid'[r] = pid[r] /\ killed' = killed
        /\ pc'[r] = pc[r] \/ (pc[r] = "forkcopy" /\ pc'[r] = "forkrun")
    BY <1>2, <2>1 DEF Fills
  <2> QED BY <2>1, <2>2 DEF GoesOn
<1>3. CASE Drops(p, q)
  <2>1. r \in Slots /\ (IF r = p /\ p \in Running THEN Heard(r, Result("fork", -1)) ELSE Kept(r))
    BY <1>3, DropsTells DEF Testers
  <2>2. r \in Testers /\ r \in Running
    BY <2>1, TestsAreNamed DEF Testers, Kept, Heard
  <2>3. pid'[r] = pid[r] /\ killed' = killed
    BY <1>3 DEF Drops
  <2>4. CASE r = p
    <3>1. pc[r] = "forkcopy" /\ pc'[r] = "user"
      BY <1>3, <2>4 DEF Drops
    <3>2. Calling(r)[1] = "fork"
      BY <2>2, <3>1 DEF CommonInv, CallInv
    <3>3. Reply(Result("fork", -1), "fork")
      BY DEF Reply
    <3> QED BY <2>1, <2>2, <2>3, <2>4, <3>1, <3>2, <3>3 DEF IsBack
  <2>5. CASE r # p
    <3>1. pc'[r] = pc[r]
      BY <1>3, <2>1, <2>5 DEF Drops
    <3> QED BY <2>1, <2>2, <2>3, <2>5, <3>1 DEF GoesOn
  <2> QED BY <2>4, <2>5
<1> QED BY <1>1, <1>2, <1>3

LEMMA BirthMovesTests ==
  ASSUME IInv, ProgramInv, CommonInv, TableStep, NEW p \in Slots, NEW q \in Slots, Makes(p, q)
  PROVE  TesterMoves
<1> SUFFICES ASSUME NEW r \in Testers'
             PROVE  (r \in Testers /\ (GoesOn(r) \/ IsBack(r))) \/ IsMade(r)
  BY DEF TesterMoves
<1>0. r \in Slots /\ prog'[r] \in Tests /\ prog'[r] # "any"
  BY TestsAreNamed DEF Testers
<1>1. p # q /\ pc[p] = "forkrun" /\ pc'[p] = "user" /\ UNCHANGED <<pid, killed>>
      /\ (\A s \in Slots \ {p} : pc'[s] = pc[s]) /\ pc[q] = "user"
      /\ pid[q] > 0 /\ pid[q] \in Int
  <2>1. pid[q] \in 1..(nextpid - 1) /\ nextpid \in Nat
    BY DEF Makes, IInv, PidsUnique, TypeOK
  <2> QED BY <2>1 DEF Makes
<1>2. p \in Running <=> prog[p] # "any"
  BY DEF Running
<1>3. CASE r = p
  <2>1. prog'[p] = prog[p] /\ p \in Running /\ Heard(p, Result("fork", pid[q]))
    BY <1>0, <1>2, <1>3, MakesTells DEF Kept, Heard
  <2>2. p \in Testers
    BY <1>0, <1>3, <2>1 DEF Testers
  <2>3. Calling(p)[1] = "fork"
    BY <1>1, <2>2 DEF CommonInv, CallInv
  <2>4. Reply(Result("fork", pid[q]), "fork")
    BY <1>1 DEF Reply
  <2> QED BY <1>1, <1>3, <2>1, <2>2, <2>3, <2>4 DEF IsBack
<1>4. CASE r = q
  <2>1. prog'[q] = prog[p]
    BY MakesTells
  <2>2. p \in Testers /\ p \in Running
    BY <1>0, <1>2, <1>4, <2>1 DEF Testers
  <2>3. got'[q] = Append(got[p], Result("fork", 0))
    BY <2>2, MakesTells
  <2>4. pc'[q] = "user"
    BY <1>1
  <2> QED BY <1>1, <1>4, <2>1, <2>2, <2>3, <2>4 DEF IsMade
<1>5. CASE r \notin {p, q}
  <2>1. Kept(r) /\ r \in Testers
    BY <1>0, <1>5, MakesTells DEF Kept, Testers
  <2> QED BY <1>0, <1>1, <1>5, <2>1 DEF GoesOn
<1> QED BY <1>3, <1>4, <1>5

LEMMA DeathMovesTests ==
  ASSUME IInv, ProgramInv, CommonInv, TableStep, NEW p \in Slots, NEW z \in Slots,
         Exits(p) \/ Reaps(p, z)
  PROVE  TesterMoves
<1> SUFFICES ASSUME NEW r \in Testers'
             PROVE  r \in Testers /\ (GoesOn(r) \/ IsBack(r))
  BY DEF TesterMoves
<1>0. r \in Slots /\ prog'[r] \in Tests /\ prog'[r] # "any"
  BY TestsAreNamed DEF Testers
<1>1. CASE Exits(p)
  <2>1. Kept(r) /\ r # p
    BY <1>0, <1>1, ExitsTells
  <2>2. UNCHANGED <<pid, pc, killed>>
    BY <1>1 DEF Exits
  <2>3. r \in Testers
    BY <1>0, <2>1 DEF Kept, Testers
  <2> QED BY <2>1, <2>2, <2>3 DEF GoesOn
<1>2. CASE Reaps(p, z)
  <2>1. IF r = p /\ p \in Running THEN Heard(r, Result("wait", pid[z])) ELSE Kept(r)
    BY <1>0, <1>2, ReapsTells
  <2>2. prog'[r] = prog[r] /\ r \in Testers /\ r \in Running
    BY <1>0, <2>1, TestsAreNamed DEF Kept, Heard, Testers
  <2>3. r # z
    BY <1>0, <1>2, <2>2 DEF Reaps, ProgramInv
  <2>4. pid'[r] = pid[r] /\ killed'[r] = killed[r] /\ pid[z] \in Int
    <3>1. pid[z] \in Int
      BY DEF IInv, TypeOK
    <3>2. pid'[r] = pid[r] /\ killed'[r] = killed[r]
      BY <1>0, <1>2, <2>3 DEF Reaps
    <3> QED BY <3>1, <3>2
  <2>5. CASE r = p
    <3>1. pc[r] \in {"wait", "waitscan"} /\ pc'[r] = "user"
      BY <1>2, <2>5 DEF Reaps
    <3>2. Calling(r)[1] = "wait"
      BY <2>2, <3>1 DEF CommonInv, CallInv
    <3>3. Reply(Result("wait", pid[z]), "wait")
      BY <2>4 DEF Reply
    <3> QED BY <2>1, <2>2, <2>4, <2>5, <3>1, <3>2, <3>3 DEF IsBack
  <2>6. CASE r # p
    <3>1. pc'[r] = pc[r]
      BY <1>0, <1>2, <2>3, <2>6 DEF Reaps
    <3> QED BY <2>1, <2>2, <2>4, <2>6, <3>1 DEF GoesOn
  <2> QED BY <2>5, <2>6
<1> QED BY <1>1, <1>2

LEMMA TestersMove ==
  ASSUME IInv, ProgramInv, CommonInv, TableStep
  PROVE  TesterMoves
BY TableMoves, StillMovesTests, ForkMovesTests, BirthMovesTests, DeathMovesTests
   DEF TableStep, TableMove

LEMMA ReplyIsPlain ==
  ASSUME NEW c, NEW x, Reply(x, c[1]), NEW i
  PROVE  /\ Plain(x, c) /\ OwnFact(x, c, i) /\ ~ (x.call = "fork" /\ x.ret = 0)
         /\ x.call \in {"fork", "wait"} /\ x.call = c[1]
<1>1. PICK ret \in Int : /\ x = Result(c[1], ret) /\ c[1] \in {"fork", "wait"}
                         /\ c[1] = "fork" => ret = -1 \/ ret > 0
  BY DEF Reply
<1>2. x.call = c[1] /\ x.ret = ret
  BY <1>1 DEF Result
<1>3. ret >= -1 \/ c[1] # "fork"
  BY <1>1
<1>4. Plain(x, c)
  BY <1>1, <1>2, <1>3 DEF Plain, Returning
<1> QED BY <1>1, <1>2, <1>4 DEF OwnFact

LEMMA TableKeepsCalls ==
  ASSUME IInv, ProgramInv, CommonInv, TableStep
  PROVE  CallInv' /\ TaleInv'
<1>1. ASSUME NEW r \in Testers', r \in Testers, GoesOn(r)
      PROVE  /\ Tale(prog'[r], got'[r], pid'[r])
             /\ LET call == NextCall(prog'[r], got'[r])[1]
                IN  /\ pc'[r] \in {"user", "fork", "forkcopy", "forkrun", "wait", "waitscan",
                                 "exit"}
                    /\ pc'[r] \in {"fork", "forkcopy", "forkrun"} => call = "fork"
                    /\ pc'[r] \in {"wait", "waitscan"} => call = "wait"
                    /\ pc'[r] = "exit" => killed'[r] \/ call = "exit"
  <2>1. prog'[r] = prog[r] /\ got'[r] = got[r] /\ pid'[r] = pid[r] /\ (killed[r] => killed'[r])
    BY <1>1 DEF GoesOn, Kept
  <2>2. Tale(prog[r], got[r], pid[r])
    BY <1>1 DEF CommonInv, TaleInv
  <2>3. LET call == NextCall(prog[r], got[r])[1]
        IN  /\ pc[r] \in {"user", "fork", "forkcopy", "forkrun", "wait", "waitscan", "exit"}
            /\ pc[r] \in {"fork", "forkcopy", "forkrun"} => call = "fork"
            /\ pc[r] \in {"wait", "waitscan"} => call = "wait"
            /\ pc[r] = "exit" => killed[r] \/ call = "exit"
    BY <1>1 DEF CommonInv, CallInv, Calling
  <2> DEFINE call == NextCall(prog[r], got[r])[1]
  <2>4. \/ pc'[r] = pc[r]
        \/ pc[r] = "user" /\ pc'[r] \in {"fork", "wait", "exit"} /\ pc'[r] = call
        \/ pc[r] = "user" /\ pc'[r] = "exit" /\ killed[r]
        \/ pc[r] = "fork" /\ pc'[r] = "forkcopy"
        \/ pc[r] = "forkcopy" /\ pc'[r] = "forkrun"
        \/ pc[r] = "wait" /\ pc'[r] = "waitscan"
    BY <1>1 DEF GoesOn, Calling
  <2> HIDE DEF call
  <2>5. /\ pc'[r] \in {"user", "fork", "forkcopy", "forkrun", "wait", "waitscan", "exit"}
        /\ pc'[r] \in {"fork", "forkcopy", "forkrun"} => call = "fork"
        /\ pc'[r] \in {"wait", "waitscan"} => call = "wait"
        /\ pc'[r] = "exit" => killed'[r] \/ call = "exit"
    BY <2>1, <2>3, <2>4 DEF call
  <2> QED BY <2>1, <2>2, <2>5 DEF call
<1>2. ASSUME NEW r \in Testers', r \in Testers, IsBack(r)
      PROVE  Tale(prog'[r], got'[r], pid'[r]) /\ pc'[r] = "user"
  <2>1. PICK x : Heard(r, x) /\ Reply(x, NextCall(prog[r], got[r])[1])
    BY <1>2 DEF IsBack, Calling
  <2>2. Plain(x, NextCall(prog[r], got[r])) /\ OwnFact(x, NextCall(prog[r], got[r]), pid[r])
    BY <2>1, ReplyIsPlain
  <2>3. Tale(prog[r], Append(got[r], x), pid[r])
    BY <1>2, <2>2, TaleMore DEF CommonInv, TaleInv
  <2> QED BY <1>2, <2>1, <2>3 DEF IsBack, Heard
<1>3. ASSUME NEW r \in Testers', IsMade(r)
      PROVE  Tale(prog'[r], got'[r], pid'[r]) /\ pc'[r] = "user"
  <2>1. PICK p \in Testers : /\ pc[p] = "forkrun" /\ prog'[r] = prog[p]
                             /\ got'[r] = Append(got[p], Result("fork", 0))
    BY <1>3 DEF IsMade, Makes
  <2>2. NextCall(prog[p], got[p])[1] = "fork" /\ Answered(prog[p], got[p])
    BY <2>1 DEF CommonInv, CallInv, TaleInv, Tale, Calling
  <2>3. Plain(Result("fork", 0), NextCall(prog[p], got[p]))
    BY <2>2 DEF Plain, Result, Returning
  <2>4. Result("fork", 0).call = "fork" /\ Result("fork", 0).ret = 0
    BY DEF Result
  <2>5. Tale(prog[p], Append(got[p], Result("fork", 0)), pid'[r])
    BY <2>2, <2>3, <2>4, TaleOfChild
  <2> QED BY <1>3, <2>1, <2>5 DEF IsMade
<1>4. TaleInv'
  BY <1>1, <1>2, <1>3, TestersMove DEF TesterMoves, TaleInv
<1>5. CallInv'
  BY <1>1, <1>2, <1>3, TestersMove DEF TesterMoves, CallInv, Calling
<1> QED BY <1>4, <1>5

LEMMA TableKeepsProgs ==
  ASSUME IInv, ProgramInv, CommonInv, TableStep
  PROVE  ProgOK'
<1> SUFFICES ASSUME NEW r \in Slots, prog'[r] # "any"
             PROVE  r # initproc /\ prog'[r] \in IF crowd THEN Robust \cup {"ps"} ELSE Quiet
  BY DEF ProgOK, Running, TableStep
<1>1. prog'[r] = IF r \in Born THEN prog[parent[r]] ELSE IF r \in Dead THEN "any" ELSE prog[r]
  BY DEF TableStep
<1>2. CASE r \in Born
  <2>1. state[r] = "EMBRYO" /\ parent[r] \in Slots
    BY <1>2, StepMoves DEF Born, TableStep, BirthsAreForks
  <2>2. r # initproc
    BY <2>1 DEF IInv, ParentAlive
  <2> QED BY <1>1, <1>2, <2>1, <2>2 DEF CommonInv, ProgOK, Running
<1>3. CASE r \notin Born
  BY <1>1, <1>3 DEF CommonInv, ProgOK, Running
<1> QED BY <1>2, <1>3

LEMMA TableKeepsFiles ==
  ASSUME IInv, ProgramInv, CommonInv, TableStep
  PROVE  FilesInv' /\ BoundInv'
<1>0. nfd' = [q \in Slots |-> IF q \in Copied THEN nfd[parent'[q]] ELSE nfd[q]]
  BY DEF TableStep, CopyImage
<1>1. TableMove /\ IInv'
  BY TableMoves, NextKeeps DEF TableStep
<1>2. BoundInv'
  <2>1. nextpid' = nextpid \/ (nextpid <= MaxPid /\ nextpid' = nextpid + 1)
    <3>1. ASSUME NEW p \in Slots, NEW q \in Slots,
                 Takes(p, q) \/ Drops(p, q) \/ Fills(p, q) \/ Makes(p, q) \/ Reaps(p, q)
          PROVE  nextpid' = nextpid \/ (nextpid <= MaxPid /\ nextpid' = nextpid + 1)
      BY <3>1 DEF Takes, Drops, Fills, Makes, Reaps
    <3>2. \A p \in Slots : Exits(p) => nextpid' = nextpid
      BY DEF Exits
    <3>3. Still => nextpid' = nextpid
      BY DEF Still
    <3> QED BY <1>1, <3>1, <3>2, <3>3 DEF TableMove
  <2>2. nextpid \in Nat
    BY DEF IInv, TypeOK
  <2> QED BY <2>1, <2>2 DEF CommonInv, BoundInv
<1>3. \A r \in Slots : nfd[r] \in Nat /\ (kstack[r] /\ pc[r] # "exit" => nfd[r] >= 3)
  BY DEF CommonInv, FilesInv
<1>4. CASE \E p, q \in Slots : Fills(p, q)
  <2>1. PICK p \in Slots, q \in Slots : Fills(p, q)
    BY <1>4
  <2>2. \A r \in Slots : nfd'[r] = IF r = q /\ ~ kstack[q] THEN nfd[p] ELSE nfd[r]
    BY <2>1, FillsTells
  <2>3. kstack[p] /\ pc[p] # "exit"
    BY <2>1 DEF Fills, IInv, StackInv, Live
  <2>4. \A r \in Slots : /\ kstack'[r] = IF r = q THEN TRUE ELSE kstack[r]
                        /\ pc'[r] = IF r = p THEN "forkrun" ELSE pc[r]
    BY <2>1 DEF Fills
  <2>5. \A r \in Slots : nfd'[r] \in Nat /\ (kstack'[r] /\ pc'[r] # "exit" => nfd'[r] >= 3)
    BY <1>3, <2>2, <2>3, <2>4
  <2> QED BY <1>0, <1>2, <2>5 DEF FilesInv
<1>5. ASSUME \A r \in Slots : /\ nfd'[r] = nfd[r]
                              /\ kstack'[r] => kstack[r] /\ (pc[r] = "exit" => pc'[r] = "exit")
      PROVE  FilesInv'
  <2>1. \A r \in Slots : nfd'[r] \in Nat /\ (kstack'[r] /\ pc'[r] # "exit" => nfd'[r] >= 3)
    BY <1>3, <1>5
  <2> QED BY <1>0, <2>1 DEF FilesInv
<1>6. CASE Still
  <2>1. \A r \in Slots : nfd'[r] = nfd[r]
    BY <1>6, StillTells
  <2>2. \A r \in Slots : kstack'[r] = kstack[r] /\ (pc[r] = "exit" => pc'[r] = "exit")
    BY <1>6 DEF Still, Sleeping
  <2> QED BY <1>2, <1>5, <2>1, <2>2
<1>7. ASSUME NEW p \in Slots, NEW q \in Slots, Takes(p, q) \/ Drops(p, q) \/ Makes(p, q)
      PROVE  FilesInv'
  <2>1. \A r \in Slots : nfd'[r] = nfd[r]
    BY <1>7, TakesTells, DropsTells, MakesTells
  <2>2. \A r \in Slots : kstack'[r] = kstack[r] /\ (pc[r] = "exit" => pc'[r] = "exit")
    BY <1>7 DEF Takes, Drops, Makes
  <2> QED BY <1>5, <2>1, <2>2
<1>8. ASSUME NEW p \in Slots, Exits(p)
      PROVE  FilesInv'
  <2>1. \A r \in Slots : nfd'[r] = nfd[r]
    BY <1>8, ExitsTells
  <2>2. \A r \in Slots : kstack'[r] = kstack[r] /\ (pc[r] = "exit" => pc'[r] = "exit")
    BY <1>8 DEF Exits
  <2> QED BY <1>5, <2>1, <2>2
<1>9. ASSUME NEW p \in Slots, NEW z \in Slots, Reaps(p, z)
      PROVE  FilesInv'
  <2>1. \A r \in Slots : nfd'[r] = nfd[r]
    BY <1>9, ReapsTells
  <2>2. \A r \in Slots : kstack'[r] => kstack[r] /\ r # z
    BY <1>9 DEF Reaps
  <2>3. \A r \in Slots : r # z /\ pc[r] = "exit" => pc'[r] = "exit"
    BY <1>9 DEF Reaps
  <2> QED BY <1>5, <2>1, <2>2, <2>3
<1> QED BY <1>1, <1>2, <1>4, <1>6, <1>7, <1>8, <1>9 DEF TableMove

-----------------------------------------------------------------------------
(* The tests: what the calls return to them.                               *)

\* getProcInfo finds the process with the pid asked for, if there is one.
LEMMA InfoTells ==
  ASSUME IInv, NEW i
  PROVE  \/ i \notin ActivePids /\ getProcInfo(i) = Result("getProcInfo", -1)
         \/ \E q \in Slots :
              /\ state[q] # "UNUSED" /\ pid[q] = i /\ i \in ActivePids
              /\ getProcInfo(i).call = "getProcInfo" /\ getProcInfo(i).ret = 0
              /\ getProcInfo(i).info = processInfo(q)
<1> DEFINE matching == {p \in Active : pid[p] = i}
           q == First(matching)
<1>1. CASE matching = {}
  BY <1>1 DEF getProcInfo, ActivePids
<1>2. CASE matching # {}
  <2>1. q \in matching
    <3>1. matching \subseteq Nat
      BY DEF Active
    <3> QED BY <1>2, <3>1, FirstIn
  <2>2. q \in Slots /\ state[q] # "UNUSED" /\ pid[q] = i /\ i \in ActivePids
    BY <2>1 DEF Active, ActivePids
  <2>3. /\ getProcInfo(i).info = processInfo(q)
        /\ getProcInfo(i).call = "getProcInfo" /\ getProcInfo(i).ret = 0
    BY <1>2 DEF getProcInfo, Result
  <2> HIDE DEF q
  <2> QED BY <2>2, <2>3
<1> QED BY <1>1, <1>2

LEMMA InfoFields ==
  \A q : /\ processInfo(q).pid = pid[q] /\ processInfo(q).state = state[q]
         /\ processInfo(q).sz = sz[q] /\ processInfo(q).nfd = nfd[q]
         /\ processInfo(q).ppid = IF parent[q] = None THEN 0 ELSE pid[parent[q]]
BY DEF processInfo

\* The pids in use are 1, that of init, and others up to MaxPid.
LEMMA PidsInUse ==
  ASSUME IInv, BoundInv
  PROVE  /\ 1 \in ActivePids /\ 0 \notin ActivePids
         /\ \A i \in ActivePids : i \in Nat /\ i > 0 /\ (i = 1 \/ i \in 1..MaxPid)
         /\ \A p, q \in Slots :
              state[p] # "UNUSED" /\ state[q] # "UNUSED" /\ pid[p] = pid[q] => p = q
<1>1. initproc \in Slots /\ state[initproc] # "UNUSED" /\ pid[initproc] = 1
  BY DEF IInv, ParentAlive, RootInv
<1>2. \A p \in Active : pid[p] \in 1..(nextpid - 1)
  BY DEF IInv, PidsUnique, Active
<1>3. \A i \in 1..(nextpid - 1) : i \in Nat /\ i > 0 /\ (i = 1 \/ i \in 1..MaxPid)
  BY DEF BoundInv, IInv, TypeOK
<1>4. \A i \in ActivePids : i \in Nat /\ i > 0 /\ (i = 1 \/ i \in 1..MaxPid)
  BY <1>2, <1>3 DEF ActivePids
<1>5. 1 \in ActivePids
  BY <1>1 DEF Active, ActivePids
<1>6. 0 \notin ActivePids
  BY <1>4
<1> QED BY <1>4, <1>5, <1>6 DEF IInv, PidsUnique

\* There is always somebody in the table, and finitely many.
LEMMA CountIs ==
  ASSUME IInv
  PROVE  IsFiniteSet(Active) /\ getNumProc \in Nat /\ getNumProc > 0
<1>1. IsFiniteSet(Slots)
  BY FS_Interval
<1>2. IsFiniteSet(Active)
  BY <1>1, FS_Subset DEF Active
<1>3. initproc \in Active
  BY DEF IInv, ParentAlive, Active
<1>4. Cardinality(Active) \in Nat /\ Cardinality(Active) # 0
  BY <1>2, <1>3, FS_CardinalityType, FS_EmptySet
<1> QED BY <1>2, <1>4 DEF getNumProc

LEMMA NumberIsPlain ==
  ASSUME IInv, NEW i
  PROVE  LET r == Result("getNumProc", getNumProc)
         IN  Plain(r, Num) /\ OwnFact(r, Num, i)
<1>1. Result("getNumProc", getNumProc).call = "getNumProc"
      /\ Result("getNumProc", getNumProc).ret = getNumProc
  BY DEF Result
<1> QED BY <1>1, CountIs, Named DEF Plain, OwnFact, Returning

LEMMA MaxIsPlain ==
  ASSUME IInv, BoundInv, NEW i
  PROVE  LET r == Result("getMaxPid", getMaxPid)
         IN  Plain(r, MaxPidCall) /\ OwnFact(r, MaxPidCall, i)
<1>1. Result("getMaxPid", getMaxPid).call = "getMaxPid"
      /\ Result("getMaxPid", getMaxPid).ret = getMaxPid
  BY DEF Result
<1>2. getMaxPid \in Nat /\ getMaxPid > 0
  <2>1. nextpid > 0
    <3>1. nextpid \in Nat /\ pid[initproc] \in 1..(nextpid - 1)
      BY DEF IInv, TypeOK, PidsUnique, ParentAlive
    <3> QED BY <3>1
  <2> QED BY <2>1, MaxIsGivenOut, PidsInUse
<1> QED BY <1>1, <1>2, Named DEF Plain, OwnFact, Returning

\* getProcInfo, asked by the process p.
LEMMA InfoIsPlain ==
  ASSUME IInv, AgeInv, SizeInv, FilesInv, BoundInv, NEW c, c[1] = "getProcInfo",
         NEW p \in Slots, state[p] = "RUNNING", pc[p] # "exit", p # initproc
  PROVE  Plain(getProcInfo(c[2]), c) /\ OwnFact(getProcInfo(c[2]), c, pid[p])
<1> DEFINE i == c[2]
           r == getProcInfo(i)
<1>0. /\ state[p] # "UNUSED" /\ pid[p] \in ActivePids
      /\ parent[p] # None /\ pid[parent[p]] > 0 /\ nfd[p] >= 3 /\ sz[p] > 0
  <2>1. state[p] # "UNUSED" /\ p \in Live /\ kstack[p]
    BY DEF Live, IInv, StackInv
  <2>2. parent[p] # None
    BY <2>1 DEF IInv, ParentAlive
  <2>3. nfd[p] >= 3 /\ sz[p] > 0
    BY <2>1 DEF FilesInv, SizeInv
  <2> QED BY <2>1, <2>2, <2>3 DEF AgeInv, ActivePids, Active
<1>1. CASE i \notin ActivePids /\ r = Result("getProcInfo", -1)
  <2>1. i # 1 /\ i # pid[p]
    BY <1>0, <1>1, PidsInUse
  <2>2. r.call = "getProcInfo" /\ r.ret = -1 /\ r.info.ppid = -1
    BY <1>1 DEF Result, NoInfo
  <2> QED BY <2>1, <2>2 DEF Plain, OwnFact, Returning
<1>2. CASE \E q \in Slots :
              /\ state[q] # "UNUSED" /\ pid[q] = i /\ i \in ActivePids
              /\ r.call = "getProcInfo" /\ r.ret = 0 /\ r.info = processInfo(q)
  <2>1. PICK q \in Slots :
              /\ state[q] # "UNUSED" /\ pid[q] = i /\ i \in ActivePids
              /\ r.call = "getProcInfo" /\ r.ret = 0 /\ r.info = processInfo(q)
    BY <1>2
  <2> HIDE DEF r
  <2>2. /\ r.info.pid = i /\ r.info.state = state[q] /\ r.info.sz = sz[q] /\ r.info.nfd = nfd[q]
        /\ r.info.ppid = IF parent[q] = None THEN 0 ELSE pid[parent[q]]
    BY <2>1, InfoFields
  <2>3. r.info.ppid \in Int
    BY <2>1, <2>2 DEF IInv, TypeOK
  <2>4. state[q] \in ValidState /\ nfd[q] \in Nat
    BY <2>1 DEF ValidState, IInv, TypeOK, States, FilesInv
  <2>5. i = 1 => r.info.ppid = 0
    <3>1. i = 1 => q = initproc
      BY <2>1, PidsInUse DEF IInv, RootInv, ParentAlive
    <3> QED BY <2>2, <3>1 DEF IInv, RootInv
  <2>6. i = pid[p] => q = p
    BY <1>0, <2>1, PidsInUse
  <2>7. Plain(r, c)
    BY <2>1, <2>2, <2>3, <2>4, <2>5 DEF Plain, Returning
  <2>8. OwnFact(r, c, pid[p])
    BY <1>0, <2>1, <2>2, <2>6 DEF OwnFact
  <2> QED BY <2>7, <2>8 DEF r
<1> QED BY <1>1, <1>2, InfoTells

LEMMA ExistsIsPlain ==
  ASSUME IInv, BoundInv, NEW c, c[1] = "exists", NEW p \in Slots, state[p] = "RUNNING"
  PROVE  Plain(exists(c[2]), c) /\ OwnFact(exists(c[2]), c, pid[p])
<1> DEFINE i == c[2]
           r == exists(i)
<1>1. r.call = "exists" /\ r.ret = getProcInfo(i).ret
  BY DEF exists, Result
<1> HIDE DEF r
<1>2. (r.ret = 0 /\ i \in ActivePids) \/ (r.ret = -1 /\ i \notin ActivePids)
  <2>1. CASE i \notin ActivePids /\ getProcInfo(i) = Result("getProcInfo", -1)
    BY <1>1, <2>1 DEF Result
  <2>2. CASE i \in ActivePids /\ getProcInfo(i).ret = 0
    BY <1>1, <2>2
  <2> QED BY <2>1, <2>2, InfoTells
<1>3. pid[p] \in ActivePids
  BY DEF ActivePids, Active
<1>4. i \in ActivePids => i = 1 \/ i \in 1..MaxPid
  BY PidsInUse
<1>5. 1 \in ActivePids
  BY PidsInUse
<1>6. Plain(r, c)
  BY <1>1, <1>2, <1>4, <1>5 DEF Plain, Returning
<1>7. OwnFact(r, c, pid[p])
  BY <1>1, <1>2, <1>3 DEF OwnFact
<1> QED BY <1>6, <1>7 DEF r

-----------------------------------------------------------------------------
(* The tests: the steps of the programs.                                   *)

\* Only a process whose child has not gone on with its files closes one.
ClosesOwn == \A p \in Testers : pc[p] = "user" /\ Calling(p) = Close => nfd[p] >= 4

\* A test makes one call, and is told r.
Told1(p, r) ==
  /\ p \in Testers /\ pc[p] = "user" /\ ~ killed[p] /\ state[p] = "RUNNING"
  /\ Heard(p, r) /\ Plain(r, Calling(p)) /\ OwnFact(r, Calling(p), pid[p])
  /\ r.call # "fork" /\ r.call # "wait"
  /\ \A q \in Slots \ {p} : Kept(q)

\* Whoever makes a program's call is on a CPU, runs and is not init.
LEMMA CallersAre ==
  ASSUME IInv, ProgOK, NEW c \in CPUs, NEW p \in Running, InUser(c, p)
  PROVE  /\ p \in Slots /\ pc[p] = "user" /\ ~ killed[p] /\ state[p] = "RUNNING"
         /\ p # initproc /\ (prog[p] = "ps" \/ p \in Testers)
<1>1. p \in Slots
  BY DEF Running
<1>2. pc[p] = "user" /\ ~ killed[p] /\ state[p] = "RUNNING"
  BY <1>1, OnItsCpu DEF InUser, IInv
<1> QED BY <1>1, <1>2 DEF ProgOK, Testers, Tests

LEMMA HeardOne ==
  ASSUME ProgramInv, NEW p \in Slots, NEW r, Got(p, r), prog' = prog
  PROVE  Heard(p, r) /\ \A q \in Slots \ {p} : Kept(q)
<1>1. got = [q \in Slots |-> got[q]]
  BY DEF ProgramInv
<1> QED BY <1>1 DEF Got, Heard, Kept

\* What a call that only asks is told.
AsksNow(p, r) ==
  \/ Calling(p) = Num /\ r = Result("getNumProc", getNumProc)
  \/ Calling(p) = MaxPidCall /\ r = Result("getMaxPid", getMaxPid)
  \/ Calling(p)[1] = "getProcInfo" /\ r = getProcInfo(Calling(p)[2])
  \/ Calling(p)[1] = "exists" /\ r = exists(Calling(p)[2])
  \/ Calling(p) = Getpid /\ r = Result("getpid", pid[p])

LEMMA AskingIsPlain ==
  ASSUME IInv, AgeInv, SizeInv, FilesInv, BoundInv, NEW p \in Slots, state[p] = "RUNNING",
         pc[p] = "user", p # initproc, NEW r, AsksNow(p, r)
  PROVE  /\ Plain(r, Calling(p)) /\ OwnFact(r, Calling(p), pid[p])
         /\ r.call \notin {"fork", "wait", "open", "close", "sbrk"}
<1> DEFINE c == Calling(p)
<1> HIDE DEF c
<1>1. CASE c = Num /\ r = Result("getNumProc", getNumProc)
  BY <1>1, NumberIsPlain DEF Result, c
<1>2. CASE c = MaxPidCall /\ r = Result("getMaxPid", getMaxPid)
  BY <1>2, MaxIsPlain DEF Result, c
<1>3. CASE c[1] = "getProcInfo" /\ r = getProcInfo(c[2])
  <2>1. Plain(r, c) /\ OwnFact(r, c, pid[p])
    BY <1>3, InfoIsPlain
  <2> QED BY <1>3, <2>1 DEF c, Plain
<1>4. CASE c[1] = "exists" /\ r = exists(c[2])
  <2>1. Plain(r, c) /\ OwnFact(r, c, pid[p])
    BY <1>4, ExistsIsPlain
  <2> QED BY <1>4, <2>1 DEF c, Plain
<1>5. CASE c = Getpid /\ r = Result("getpid", pid[p])
  <2>1. r.call = "getpid" /\ r.ret = pid[p] /\ pid[p] \in Int
    BY <1>5 DEF Result, IInv, TypeOK
  <2> QED BY <1>5, <2>1, Named DEF Plain, OwnFact, Returning, c
<1> QED BY <1>1, <1>2, <1>3, <1>4, <1>5 DEF AsksNow, c

LEMMA AskersAreTold ==
  ASSUME IInv, ProgramInv, AgeInv, SizeInv, CommonInv, NEW c \in CPUs,
         GetInfo(c) \/ GetPid(c)
  PROVE  \E p \in Running : \E r :
           /\ InUser(c, p) /\ AsksNow(p, r)
           /\ p \in Slots /\ Heard(p, r) /\ \A q \in Slots \ {p} : Kept(q)
           /\ p \in Testers => Told1(p, r)
<1>1. PICK p \in Running : \E r : InUser(c, p) /\ AsksNow(p, r) /\ Got(p, r)
  BY DEF GetInfo, GetPid, AsksNow
<1>2. PICK r : InUser(c, p) /\ AsksNow(p, r) /\ Got(p, r)
  BY <1>1
<1>3. /\ p \in Slots /\ pc[p] = "user" /\ ~ killed[p] /\ state[p] = "RUNNING"
      /\ p # initproc
  BY <1>2, CallersAre DEF CommonInv
<1>4. prog' = prog
  BY DEF GetInfo, GetPid
<1>5. Heard(p, r) /\ \A q \in Slots \ {p} : Kept(q)
  BY <1>2, <1>3, <1>4, HeardOne
<1>6. /\ Plain(r, Calling(p)) /\ OwnFact(r, Calling(p), pid[p])
      /\ r.call \notin {"fork", "wait", "open", "close", "sbrk"}
  BY <1>2, <1>3, AskingIsPlain DEF CommonInv
<1> QED BY <1>2, <1>3, <1>5, <1>6 DEF Told1

\* Opening, closing and growing: the result, and what becomes of p's files and
\* memory.
Changes(p, r) ==
  \/ /\ Calling(p) = Open /\ r = Result("open", 0) /\ sz' = sz
     /\ nfd' = [nfd EXCEPT ![p] = @ + 1]
  \/ Calling(p) = Open /\ r = Result("open", -1) /\ UNCHANGED <<sz, nfd>>
  \/ /\ Calling(p) = Close /\ r = Result("close", 0) /\ sz' = sz
     /\ nfd' = [nfd EXCEPT ![p] = @ - 1]
  \/ /\ Calling(p) = Sbrk /\ r = Result("sbrk", sz[p]) /\ nfd' = nfd
     /\ sz' = [sz EXCEPT ![p] = @ + 1]
  \/ Calling(p) = Sbrk /\ r = Result("sbrk", -1) /\ UNCHANGED <<sz, nfd>>

LEMMA ChangersAreTold ==
  ASSUME IInv, PInv, SizeInv, CommonInv, NEW c \in CPUs, Files(c) \/ Grow(c)
  PROVE  \E p \in Testers : \E r : Told1(p, r) /\ Changes(p, r)
<1>1. PICK p \in Running : \E r : InUser(c, p) /\ Changes(p, r) /\ Got(p, r)
  BY DEF Files, Grow, Changes
<1>2. PICK r : InUser(c, p) /\ Changes(p, r) /\ Got(p, r)
  BY <1>1
<1>3. prog[p] # "ps"
  BY <1>2, PsCallsNoOther DEF Changes
<1>4. /\ p \in Slots /\ pc[p] = "user" /\ ~ killed[p] /\ state[p] = "RUNNING"
      /\ p \in Testers
  BY <1>2, <1>3, CallersAre DEF CommonInv
<1>5. prog' = prog
  BY DEF Files, Grow
<1>6. Heard(p, r) /\ \A q \in Slots \ {p} : Kept(q)
  BY <1>2, <1>4, <1>5, HeardOne DEF PInv
<1>7. /\ Plain(r, Calling(p)) /\ OwnFact(r, Calling(p), pid[p])
      /\ r.call # "fork" /\ r.call # "wait"
  <2>1. \E ret \in Int : /\ r = Result(Calling(p)[1], ret) /\ ret >= -1
                         /\ Calling(p)[1] \in {"open", "close", "sbrk"}
    <3>1. sz[p] \in Int /\ sz[p] >= -1
      BY <1>4 DEF SizeInv
    <3> QED BY <1>2, <3>1, Named DEF Changes
  <2>2. PICK ret \in Int : /\ r = Result(Calling(p)[1], ret) /\ ret >= -1
                           /\ Calling(p)[1] \in {"open", "close", "sbrk"}
    BY <2>1
  <2>3. r.call = Calling(p)[1] /\ r.ret = ret
    BY <2>2 DEF Result
  <2> QED BY <2>2, <2>3 DEF Plain, OwnFact, Returning
<1> QED BY <1>2, <1>4, <1>6, <1>7 DEF Told1

\* Whatever a program is told, the tests go on.
LEMMA ToldKeepsTests ==
  ASSUME CommonInv, UNCHANGED <<vars, crowd>>, NEW p \in Running, NEW r,
         Heard(p, r), \A q \in Slots \ {p} : Kept(q), p \in Testers => Told1(p, r)
  PROVE  ProgOK' /\ CallInv' /\ TaleInv'
<1>0. p \in Slots /\ prog[p] # "any"
  BY DEF Running
<1>1. UNCHANGED <<pc, pid, killed>>
  BY DEF vars, procVars, threadVars
<1>2. \A q \in Slots : prog'[q] = prog[q]
  BY DEF Heard, Kept
<1>3. Running' = Running /\ Testers' = Testers
  BY <1>2 DEF Running, Testers
<1>4. ProgOK'
  BY <1>2, <1>3 DEF CommonInv, ProgOK, Running
<1>5. CallInv'
  <2>1. \A q \in Testers : q # p => NextCall(prog'[q], got'[q]) = NextCall(prog[q], got[q])
    BY DEF Kept, Testers
  <2>2. p \in Testers => pc'[p] = "user"
    BY <1>1 DEF Told1
  <2> QED BY <1>1, <1>3, <2>1, <2>2 DEF CommonInv, CallInv, Calling
<1>6. TaleInv'
  <2>1. \A q \in Testers : q # p => Tale(prog'[q], got'[q], pid[q])
    BY DEF Kept, Testers, CommonInv, TaleInv
  <2>2. p \in Testers => Tale(prog[p], Append(got[p], r), pid[p])
    BY TaleMore DEF CommonInv, TaleInv, Told1, Calling
  <2>3. p \in Testers => Tale(prog'[p], got'[p], pid[p])
    BY <2>2 DEF Heard
  <2> QED BY <1>1, <1>3, <2>1, <2>3 DEF TaleInv
<1> QED BY <1>4, <1>5, <1>6

LEMMA AskingKeepsCommon ==
  ASSUME IInv, PInv, OInv, CommonInv, NEW c \in CPUs, GetInfo(c) \/ GetPid(c)
  PROVE  CommonInv'
<1>1. PICK p \in Running : \E r :
           /\ Heard(p, r) /\ \A q \in Slots \ {p} : Kept(q)
           /\ p \in Testers => Told1(p, r)
  BY AskersAreTold DEF PInv, OInv
<1>2. UNCHANGED <<vars, imageVars, crowd>>
  BY DEF GetInfo, GetPid
<1>3. ProgOK' /\ CallInv' /\ TaleInv'
  BY <1>1, <1>2, ToldKeepsTests
<1>4. FilesInv' /\ BoundInv'
  BY <1>2 DEF imageVars, vars, procVars, threadVars, CommonInv, FilesInv, BoundInv
<1> QED BY <1>3, <1>4 DEF CommonInv

LEMMA ChangingKeepsCommon ==
  ASSUME IInv, PInv, OInv, CommonInv, ClosesOwn, NEW c \in CPUs, Files(c) \/ Grow(c)
  PROVE  CommonInv'
<1>1. PICK p \in Testers : \E r : Told1(p, r) /\ Changes(p, r)
  BY ChangersAreTold DEF PInv, OInv
<1>2. PICK r : Told1(p, r) /\ Changes(p, r)
  BY <1>1
<1>3. UNCHANGED <<vars, crowd>>
  BY DEF Files, Grow
<1>4. ProgOK' /\ CallInv' /\ TaleInv'
  BY <1>2, <1>3, ToldKeepsTests, TestsAreNamed DEF Told1
<1>5. UNCHANGED <<nextpid, pc, kstack>>
  BY <1>3 DEF vars, procVars, threadVars
<1>6. FilesInv'
  <2>1. p \in Slots /\ state[p] = "RUNNING" /\ pc[p] = "user"
    BY <1>2, TestsAreNamed DEF Told1
  <2>2. kstack[p]
    BY <2>1 DEF IInv, StackInv, Live
  <2>3. nfd[p] \in Nat /\ nfd[p] >= 3 /\ nfd = [q \in Slots |-> nfd[q]]
    BY <2>1, <2>2 DEF CommonInv, FilesInv
  <2>4. Calling(p) = Close => nfd[p] >= 4
    BY <2>1 DEF ClosesOwn
  <2>5. \E m \in Nat : nfd' = [nfd EXCEPT ![p] = m] /\ m >= 3
    <3>1. CASE nfd' = [nfd EXCEPT ![p] = nfd[p] + 1]
      <4>1. nfd[p] + 1 \in Nat /\ nfd[p] + 1 >= 3
        BY <2>3
      <4> QED BY <3>1, <4>1
    <3>2. CASE nfd' = nfd
      <4>1. nfd' = [nfd EXCEPT ![p] = nfd[p]]
        BY <2>3, <3>2
      <4> QED BY <2>3, <4>1
    <3>3. CASE nfd' = [nfd EXCEPT ![p] = nfd[p] - 1] /\ Calling(p) = Close
      <4>1. nfd[p] - 1 \in Nat /\ nfd[p] - 1 >= 3
        BY <2>3, <2>4, <3>3
      <4> QED BY <3>3, <4>1
    <3> QED BY <1>2, <3>1, <3>2, <3>3 DEF Changes
  <2>6. PICK m \in Nat : nfd' = [nfd EXCEPT ![p] = m] /\ m >= 3
    BY <2>5
  <2>7. \A q \in Slots : nfd'[q] = IF q = p THEN m ELSE nfd[q]
    BY <2>3, <2>6
  <2>8. nfd' = [q \in Slots |-> nfd'[q]]
    BY <2>3, <2>6
  <2>9. \A q \in Slots : nfd'[q] \in Nat /\ (kstack[q] /\ pc[q] # "exit" => nfd'[q] >= 3)
    BY <2>6, <2>7 DEF CommonInv, FilesInv
  <2> QED BY <1>5, <2>8, <2>9 DEF FilesInv
<1>7. BoundInv'
  BY <1>5 DEF CommonInv, BoundInv
<1> QED BY <1>4, <1>6, <1>7 DEF CommonInv

LEMMA StartKeepsCommon ==
  ASSUME IInv, PInv, CommonInv, NEW c \in CPUs, Start(c)
  PROVE  CommonInv'
<1>1. PICK p \in Slots, t \in IF crowd THEN Robust \cup {"ps"} ELSE Quiet :
        /\ InUser(c, p) /\ prog' = [prog EXCEPT ![p] = t] /\ p # initproc
  BY DEF Start
<1>2. UNCHANGED <<vars, imageVars, got, crowd>>
  BY DEF Start
<1>3. UNCHANGED <<pc, pid, killed, kstack, nextpid, nfd>>
  BY <1>2 DEF vars, procVars, threadVars, imageVars
<1>4. Running = {}
  BY DEF Start
<1>5. \A q \in Slots : prog[q] = "any" /\ got[q] = <<>>
  BY <1>4 DEF Running, PInv, ProgramInv
<1>6. \A q \in Slots : prog'[q] = IF q = p THEN t ELSE "any"
  BY <1>1, <1>5 DEF PInv, ProgramInv
<1>7. Running' \subseteq {p} /\ Testers' \subseteq {p} /\ pc[p] = "user"
  BY <1>1, <1>6, TestsAreNamed DEF Running, Testers, InUser, Runs
<1>8. ProgOK'
  BY <1>1, <1>2, <1>6, <1>7 DEF ProgOK
<1>9. CallInv'
  BY <1>3, <1>7 DEF CallInv
<1>10. Tale(t, <<>>, pid[p])
  BY EmptySeq DEF Tale, Answered, Own
<1>11. TaleInv'
  BY <1>2, <1>3, <1>5, <1>6, <1>7, <1>10 DEF TaleInv
<1>12. FilesInv' /\ BoundInv'
  BY <1>3 DEF CommonInv, FilesInv, BoundInv
<1> QED BY <1>8, <1>9, <1>11, <1>12 DEF CommonInv

LEMMA FinishKeepsCommon ==
  ASSUME IInv, PInv, CommonInv, NEW c \in CPUs, Finish(c)
  PROVE  CommonInv'
<1>1. PICK p \in Running : /\ prog' = [prog EXCEPT ![p] = "any"]
                           /\ got' = [got EXCEPT ![p] = <<>>]
  BY DEF Finish
<1>2. UNCHANGED <<vars, imageVars, crowd>>
  BY DEF Finish
<1>3. UNCHANGED <<pc, pid, killed, kstack, nextpid, nfd>>
  BY <1>2 DEF vars, procVars, threadVars, imageVars
<1>4. \A q \in Slots : IF q = p THEN prog'[q] = "any" ELSE prog'[q] = prog[q] /\ got'[q] = got[q]
  BY <1>1 DEF PInv, ProgramInv
<1>5. Running' \subseteq Running \ {p} /\ Testers' \subseteq Testers \ {p}
  BY <1>4, TestsAreNamed DEF Running, Testers
<1>6. ProgOK'
  BY <1>2, <1>4, <1>5 DEF CommonInv, ProgOK, Running
<1>7. \A q \in Testers' : q \in Slots /\ prog'[q] = prog[q] /\ got'[q] = got[q]
  BY <1>4, <1>5 DEF Testers
<1>8. CallInv'
  BY <1>3, <1>5, <1>7 DEF CommonInv, CallInv, Calling
<1>9. TaleInv'
  BY <1>3, <1>5, <1>7 DEF CommonInv, TaleInv
<1>10. FilesInv' /\ BoundInv'
  BY <1>3 DEF CommonInv, FilesInv, BoundInv
<1> QED BY <1>6, <1>8, <1>9, <1>10 DEF CommonInv

LEMMA CloseFilesKeepsCommon ==
  ASSUME IInv, PInv, CommonInv, NEW c \in CPUs, CloseFiles(c)
  PROVE  CommonInv'
<1>1. PICK p \in Slots : pc[p] = "exit" /\ nfd' = [nfd EXCEPT ![p] = 0]
  BY DEF CloseFiles, Runs
<1>2. UNCHANGED <<vars, sz, prog, got, crowd>>
  BY DEF CloseFiles, progVars
<1>3. UNCHANGED <<pc, pid, killed, kstack, nextpid, prog, got, crowd>>
  BY <1>2 DEF vars, procVars, threadVars
<1>4. ProgOK' /\ CallInv' /\ TaleInv' /\ BoundInv'
  BY <1>3 DEF CommonInv, ProgOK, CallInv, TaleInv, BoundInv, Running, Testers, Calling
<1>5. FilesInv'
  <2>1. nfd = [q \in Slots |-> nfd[q]]
    BY DEF CommonInv, FilesInv
  <2>2. \A q \in Slots : nfd'[q] = IF q = p THEN 0 ELSE nfd[q]
    BY <1>1, <2>1
  <2>3. nfd' = [q \in Slots |-> nfd'[q]]
    BY <1>1, <2>1
  <2>4. \A q \in Slots : nfd'[q] \in Nat /\ (kstack[q] /\ pc[q] # "exit" => nfd'[q] >= 3)
    BY <1>1, <2>2 DEF CommonInv, FilesInv
  <2> QED BY <1>3, <2>3, <2>4 DEF FilesInv
<1> QED BY <1>4, <1>5 DEF CommonInv

LEMMA CommonKeeps ==
  ASSUME IInv, PInv, OInv, CommonInv, ClosesOwn, InfoNext
  PROVE  CommonInv'
<1>1. CASE TableStep
  BY <1>1, TableKeepsCalls, TableKeepsProgs, TableKeepsFiles DEF CommonInv, PInv
<1>2. ASSUME NEW c \in CPUs, ProgramStep(c)
      PROVE  CommonInv'
  BY <1>2, AskingKeepsCommon, ChangingKeepsCommon, StartKeepsCommon, FinishKeepsCommon,
     CloseFilesKeepsCommon DEF ProgramStep
<1> QED BY <1>1, <1>2 DEF InfoNext, ProgramStep

LEMMA CommonAtFirst == InfoInit => CommonInv
<1> SUFFICES ASSUME InfoInit PROVE CommonInv
  OBVIOUS
<1>1. \A p \in Slots : prog[p] = "any"
  BY DEF InfoInit
<1>2. ProgOK /\ CallInv /\ TaleInv
  BY <1>1, TestsAreNamed DEF ProgOK, CallInv, TaleInv, Running, Testers
<1>3. FilesInv
  <2>1. \A q \in Slots : nfd[q] = (IF q = initproc THEN 3 ELSE 0) /\ (kstack[q] => q = initproc)
    BY DEF InfoInit, Init
  <2>2. nfd = [q \in Slots |-> nfd[q]]
    BY DEF InfoInit
  <2> QED BY <2>1, <2>2 DEF FilesInv
<1>4. BoundInv
  BY DEF InfoInit, Init, BoundInv
<1> QED BY <1>2, <1>3, <1>4 DEF CommonInv

-----------------------------------------------------------------------------
(* The tests: who is there when a test has the system to itself.           *)

\* The children of a process, with the one its fork is making.
Kin(p) == {q \in Slots : parent[q] = p \/ np[p] = q}

\* A slot under construction belongs to a fork.
EmbryoInv == \A q \in Slots : state[q] = "EMBRYO" => \E p \in Slots : np[p] = q

Forking == {"fork", "forkcopy", "forkrun"}

\* Nobody has more than one child, and apart from init only a test has any: one
\* that owes it a wait, or is about to.  The test is a child of init, or of a
\* test.  init forks alone.
OneChild == \A q \in Slots : \A r, s \in Kin(q) : r = s
NoOtherCalls ==
  \A q \in Slots : ~ killed[q] /\ pc[q] \in Forking \cup {"user", "wait", "waitscan", "exit"}
TestsFork == \A q \in Slots : q # initproc /\ pc[q] \in Forking => q \in Running
TestsHaveChildren ==
  \A q \in Slots : q # initproc /\ Kin(q) # {} =>
    q \in Running /\ ~ InChild(got[q]) /\ (np[q] # None \/ Owes(got[q]))
TestsAreChildren ==
  \A p \in Running :
    /\ InChild(got[p]) => parent[p] \in Running /\ ~ InChild(got[parent[p]])
    /\ ~ InChild(got[p]) => parent[p] = initproc /\ (Owes(got[p]) => Kin(p) # {})
InitForksAlone == pc[initproc] = "fork" => Active = {initproc}

Family ==
  OneChild /\ NoOtherCalls /\ TestsFork /\ TestsHaveChildren /\ TestsAreChildren
  /\ InitForksAlone

FamilyInv == EmbryoInv /\ (~ crowd => Family)

\* A step of the table keeps the slots under construction with their forks.
LEMMA EmbryosStay ==
  ASSUME IInv, EmbryoInv, TableMove
  PROVE  EmbryoInv'
<1>1. CASE Still
  <2>1. \A q \in Slots : state'[q] = "EMBRYO" => state[q] = "EMBRYO"
    BY <1>1 DEF Still
  <2> QED BY <1>1, <2>1 DEF Still, EmbryoInv
<1>2. ASSUME NEW p \in Slots, NEW q \in Slots, Takes(p, q)
      PROVE  EmbryoInv'
  <2>1. np[p] = None
    BY <1>2 DEF Takes, IInv, ForkInv
  <2>2. ASSUME NEW r \in Slots, state'[r] = "EMBRYO"
        PROVE  \E s \in Slots : np'[s] = r
    <3>1. CASE r = q
      BY <1>2, <3>1 DEF Takes
    <3>2. CASE r # q
      <4>1. PICK s \in Slots : np[s] = r
        BY <1>2, <2>2, <3>2 DEF Takes, EmbryoInv
      <4> QED BY <1>2, <2>1, <4>1 DEF Takes
    <3> QED BY <3>1, <3>2
  <2> QED BY <2>2 DEF EmbryoInv
<1>3. ASSUME NEW p \in Slots, NEW q \in Slots, Drops(p, q) \/ Makes(p, q)
      PROVE  EmbryoInv'
  <2>1. /\ np[p] = q /\ state'[q] # "EMBRYO"
        /\ \A r \in Slots \ {q} : state'[r] = state[r]
        /\ \A r \in Slots \ {p} : np'[r] = np[r]
    BY <1>3 DEF Drops, Makes
  <2>2. ASSUME NEW r \in Slots, state'[r] = "EMBRYO"
        PROVE  \E s \in Slots : np'[s] = r
    <3>1. PICK s \in Slots : np[s] = r
      BY <2>1, <2>2 DEF EmbryoInv
    <3> QED BY <2>1, <2>2, <3>1
  <2> QED BY <2>2 DEF EmbryoInv
<1>4. ASSUME NEW p \in Slots, NEW q \in Slots, Fills(p, q)
      PROVE  EmbryoInv'
  BY <1>4 DEF Fills, EmbryoInv
<1>5. ASSUME NEW p \in Slots, NEW q \in Slots, Exits(p) \/ Reaps(p, q)
      PROVE  EmbryoInv'
  <2>1. \A r \in Slots : state'[r] = "EMBRYO" => state[r] = "EMBRYO"
    BY <1>5 DEF Exits, Reaps
  <2>2. np' = np
    BY <1>5 DEF Exits, Reaps
  <2> QED BY <2>1, <2>2 DEF EmbryoInv
<1> QED BY <1>1, <1>2, <1>3, <1>4, <1>5 DEF TableMove

\* What a test that has the system to itself is, and what it has settled.
LEMMA QuietTests ==
  ASSUME CommonInv, ~ crowd, NEW p \in Running
  PROVE  /\ p \in Slots /\ p # initproc /\ p \in Testers /\ prog[p] \in Quiet
         /\ Answered(prog[p], got[p]) /\ got[p] \in Seq(Range(got[p]))
         /\ Settled(prog[p], got[p])
         /\ Calling(p)[1] = "fork" => ~ Owes(got[p]) /\ ~ InChild(got[p])
         /\ Calling(p)[1] \in Verdicts => ~ Owes(got[p]) \/ InChild(got[p])
         /\ Calling(p)[1] = "exit" => InChild(got[p])
<1>1. p \in Slots /\ p # initproc /\ prog[p] \in Quiet /\ p \in Testers
  BY TestsAreNamed DEF CommonInv, ProgOK, Running, Testers
<1>2. Answered(prog[p], got[p]) /\ got[p] \in Seq(Range(got[p]))
  BY <1>1 DEF CommonInv, TaleInv, Tale, Answered
<1>3. Settled(prog[p], got[p])
  BY <1>1, <1>2, AllSettled
<1> QED BY <1>1, <1>2, <1>3 DEF Settled, Calling

\* Nobody is a child of a slot that is not alive.
LEMMA NoKin ==
  ASSUME IInv, AgeInv, NEW q \in Slots, state[q] \in {"UNUSED", "EMBRYO", "ZOMBIE"}
  PROVE  Kin(q) = {}
<1>1. np[q] = None
  BY DEF IInv, ForkInv, ThreadInv
<1>2. ASSUME NEW r \in Slots, parent[r] = q
      PROVE  FALSE
  <2>1. state[r] # "UNUSED"
    BY <1>2 DEF IInv, ParentAlive
  <2> QED BY <1>2, <2>1, ParentsLive
<1> QED BY <1>1, <1>2 DEF Kin

\* Who forks has no child.
LEMMA ForkersAre ==
  ASSUME IInv, CommonInv, ~ crowd, Family, NEW p \in Slots, pc[p] \in Forking
  PROVE  /\ p # initproc => p \in Running /\ ~ InChild(got[p]) /\ ~ Owes(got[p])
         /\ p = initproc => p \notin Running
         /\ pc[p] = "fork" => Kin(p) = {} /\ np[p] = None
<1>0. p = initproc => p \notin Running
  BY DEF CommonInv, ProgOK
<1>1. ASSUME p # initproc
      PROVE  p \in Running /\ ~ InChild(got[p]) /\ ~ Owes(got[p])
  <2>1. p \in Running
    BY <1>1 DEF Family, TestsFork
  <2>2. Calling(p)[1] = "fork"
    BY <2>1, QuietTests DEF CommonInv, CallInv, Forking
  <2> QED BY <2>1, <2>2, QuietTests
<1>2. ASSUME pc[p] = "fork"
      PROVE  Kin(p) = {} /\ np[p] = None
  <2>1. np[p] = None
    BY <1>2 DEF IInv, ForkInv
  <2>2. CASE p = initproc
    <3>1. Active = {initproc}
      BY <1>2, <2>2 DEF Family, InitForksAlone
    <3>2. \A r \in Slots : parent[r] = initproc => r \in Active /\ r # initproc
      BY DEF Active, IInv, ParentAlive, RootInv
    <3> QED BY <2>1, <2>2, <3>1, <3>2 DEF Kin
  <2>3. CASE p # initproc
    BY <1>1, <2>1, <2>3 DEF Family, TestsHaveChildren
  <2> QED BY <2>1, <2>2, <2>3
<1> QED BY <1>0, <1>1, <1>2

\* Who exits has none, either.
LEMMA ExitersAre ==
  ASSUME IInv, CommonInv, ~ crowd, Family, NEW p \in Slots, pc[p] = "exit"
  PROVE  Kin(p) = {} /\ p # initproc
<1>1. p # initproc
  BY DEF IInv, RootInv
<1>2. CASE p \in Running
  <2>1. ~ killed[p]
    BY DEF Family, NoOtherCalls
  <2>2. Calling(p)[1] = "exit"
    BY <1>2, <2>1, QuietTests DEF CommonInv, CallInv
  <2>3. InChild(got[p])
    BY <1>2, <2>2, QuietTests
  <2> QED BY <1>1, <2>3 DEF Family, TestsHaveChildren
<1>3. CASE p \notin Running
  BY <1>1, <1>3 DEF Family, TestsHaveChildren
<1> QED BY <1>1, <1>2, <1>3

\* What fork and wait say to who is in them.
LEMMA RepliesMean ==
  ASSUME NEW g, g \in Seq(Range(g)), NEW ret \in Int
  PROVE  /\ InChild(Append(g, Result("fork", ret))) <=> InChild(g) \/ ret = 0
         /\ Owes(Append(g, Result("fork", ret))) <=> Owes(g) \/ ret > 0
         /\ InChild(Append(g, Result("wait", ret))) <=> InChild(g)
         /\ ~ Owes(Append(g, Result("wait", ret)))
<1>1. /\ Result("fork", ret).call = "fork" /\ Result("fork", ret).ret = ret
      /\ Result("wait", ret).call = "wait"
  BY DEF Result
<1> QED BY <1>1, MoreChild, MoreOwes

LEMMA StillKeepsFamily ==
  ASSUME IInv, PInv, CommonInv, ~ crowd, Family, TableStep, Still
  PROVE  Family'
<1>0. UNCHANGED <<parent, np>> /\ killed' = killed
  BY DEF Still, Family, NoOtherCalls, Forking
<1>1. /\ \A q \in Slots : prog'[q] = prog[q] /\ Kin(q)' = Kin(q)
      /\ Running' = Running /\ Active' = Active
  <2>1. \A q \in Slots : prog'[q] = prog[q]
    BY StillTells DEF PInv
  <2>2. Running' = Running
    BY <2>1 DEF Running
  <2>3. \A q \in Slots : state'[q] = "UNUSED" <=> state[q] = "UNUSED"
    BY DEF Still
  <2>4. Active' = Active
    BY <2>3 DEF Active
  <2> QED BY <1>0, <2>1, <2>2, <2>4 DEF Kin
<1>2. ASSUME NEW r \in Running
      PROVE  \/ got'[r] = got[r]
             \/ /\ InChild(got'[r]) <=> InChild(got[r])
                /\ Owes(got'[r]) <=> Owes(got[r])
             \/ /\ InChild(got'[r]) <=> InChild(got[r])
                /\ ~ Owes(got'[r]) /\ Kin(r) = {}
  <2>0. r \in Slots /\ got[r] \in Seq(Range(got[r]))
    BY QuietTests
  <2>1. CASE Kept(r)
    BY <2>1 DEF Kept
  <2>2. CASE Heard(r, Result("fork", -1))
    BY <2>0, <2>2, RepliesMean DEF Heard
  <2>3. CASE /\ Heard(r, Result("wait", -1)) /\ pc[r] \in {"wait", "waitscan"}
             /\ Children(r) = {} \/ killed[r]
    <3>1. Children(r) = {}
      BY <2>0, <2>3 DEF Family, NoOtherCalls
    <3>2. np[r] = None
      BY <2>0, <2>3 DEF IInv, ForkInv
    <3>3. Kin(r) = {}
      BY <3>1, <3>2 DEF Kin, Children
    <3> QED BY <2>0, <2>3, <3>3, RepliesMean DEF Heard
  <2>4. pc[r] \notin Sleeping \cup {"kill"}
    BY <2>0 DEF Family, NoOtherCalls, Sleeping, Forking
  <2> QED BY <2>0, <2>1, <2>2, <2>3, <2>4, StillTells DEF PInv
<1>3. ASSUME NEW q \in Slots
      PROVE  /\ pc'[q] \in Forking \cup {"user", "wait", "waitscan", "exit"}
             /\ pc'[q] \in Forking => \/ pc'[q] = pc[q]
                                      \/ q \in Running
                                      \/ q = initproc /\ Active = {initproc}
  <2>1. pc[q] \in Forking \cup {"user", "wait", "waitscan", "exit"} /\ ~ killed[q]
    BY DEF Family, NoOtherCalls
  <2>2. CASE pc[q] = "user" /\ pc'[q] \in Calls
    <3>1. pc'[q] # "user"
      BY <2>2 DEF Calls
    <3>2. MayCall(q, pc'[q])
      BY <2>2, <3>1 DEF TableStep
    <3>3. CASE q \in Running
      <4>1. pc'[q] \in {"fork", "wait", "exit"}
        BY <2>1, <2>2, <3>1, <3>3, TestEnters, QuietTests
      <4> QED BY <3>3, <4>1 DEF Forking
    <3>4. CASE q \notin Running
      <4>1. pc'[q] \in {"exit", "wait"} \/ (pc'[q] = "fork" /\ Active = {q})
        BY <2>1, <3>2, <3>4 DEF MayCall, Running
      <4>2. initproc \in Active
        BY DEF Active, IInv, ParentAlive
      <4> QED BY <4>1, <4>2 DEF Forking
    <3> QED BY <3>3, <3>4
  <2>3. CASE ~ (pc[q] = "user" /\ pc'[q] \in Calls)
    <3>1. pc'[q] = pc[q] \/ pc'[q] \in {"user", "waitscan"}
      BY <2>1, <2>3 DEF Still, Sleeping, Forking
    <3> QED BY <2>1, <3>1 DEF Forking
  <2> QED BY <2>2, <2>3
<1>4. OneChild' /\ NoOtherCalls'
  BY <1>0, <1>1, <1>3 DEF Family, OneChild, NoOtherCalls
<1>5. TestsFork'
  BY <1>1, <1>3 DEF Family, TestsFork
<1>6. TestsHaveChildren'
  BY <1>0, <1>1, <1>2 DEF Family, TestsHaveChildren
<1>7. TestsAreChildren'
  <2>1. \A r \in Running : InChild(got'[r]) <=> InChild(got[r])
    BY <1>2
  <2> QED BY <1>0, <1>1, <1>2, <2>1 DEF Family, TestsAreChildren, Running
<1>8. InitForksAlone'
  <2>1. initproc \in Slots /\ initproc \notin Running
    BY DEF CommonInv, ProgOK
  <2> QED BY <1>1, <1>3, <2>1 DEF Family, InitForksAlone, Forking
<1> QED BY <1>4, <1>5, <1>6, <1>7, <1>8 DEF Family

\* While anybody else is there init does not fork, nor when it does something else.
LEMMA InitForksNot ==
  ASSUME InitForksAlone, NEW p \in Slots, state[p] # "UNUSED",
         pc'[initproc] = "fork" => pc[initproc] = "fork" /\ p # initproc
  PROVE  InitForksAlone'
BY DEF InitForksAlone, Active

LEMMA TakesKeepsFamily ==
  ASSUME IInv, PInv, AgeInv, CommonInv, ~ crowd, Family, TableStep,
         NEW p \in Slots, NEW q \in Slots, Takes(p, q)
  PROVE  Family'
<1>0. /\ UNCHANGED <<parent, killed>> /\ p # q /\ state[q] = "UNUSED" /\ state[p] = "RUNNING"
      /\ \A r \in Slots : /\ np'[r] = IF r = p THEN q ELSE np[r]
                          /\ pc'[r] = IF r = p THEN "forkcopy" ELSE pc[r]
  BY DEF Takes
<1>1. (\A r \in Slots : prog'[r] = prog[r] /\ got'[r] = got[r]) /\ Running' = Running
  BY TakesTells DEF PInv, Kept, Running
<1>2. /\ p # initproc => p \in Running /\ ~ InChild(got[p]) /\ ~ Owes(got[p])
      /\ Kin(p) = {}
  BY ForkersAre DEF Takes, Forking
<1>3. \A r \in Slots : Kin(r)' = IF r = p THEN {q} ELSE Kin(r)
  <2>1. \A r \in Slots : r # p => Kin(r)' = Kin(r)
    BY <1>0 DEF Kin
  <2>2. Kin(p)' = {q}
    BY <1>0, <1>2 DEF Kin
  <2> QED BY <2>1, <2>2
<1>4. OneChild' /\ NoOtherCalls' /\ TestsFork'
  <2>1. OneChild'
    BY <1>3 DEF Family, OneChild
  <2>2. NoOtherCalls'
    BY <1>0 DEF Family, NoOtherCalls, Forking
  <2>3. TestsFork'
    BY <1>0, <1>1, <1>2 DEF Family, TestsFork
  <2> QED BY <2>1, <2>2, <2>3
<1>5. TestsHaveChildren'
  <2>1. ASSUME NEW r \in Slots, r # initproc, Kin(r)' # {}
        PROVE  r \in Running /\ ~ InChild(got[r]) /\ (np'[r] # None \/ Owes(got[r]))
    <3>1. CASE r = p
      BY <1>0, <1>2, <2>1, <3>1
    <3>2. CASE r # p
      BY <1>0, <1>3, <2>1, <3>2 DEF Family, TestsHaveChildren
    <3> QED BY <3>1, <3>2
  <2> QED BY <1>1, <2>1 DEF TestsHaveChildren
<1>6. TestsAreChildren'
  BY <1>0, <1>1, <1>3 DEF Family, TestsAreChildren, Running
<1>7. InitForksAlone'
  BY <1>0, InitForksNot DEF Family
<1> QED BY <1>4, <1>5, <1>6, <1>7 DEF Family

LEMMA FillsKeepsFamily ==
  ASSUME IInv, PInv, CommonInv, ~ crowd, Family, TableStep,
         NEW p \in Slots, NEW q \in Slots, Fills(p, q)
  PROVE  Family'
<1>0. /\ UNCHANGED <<state, np, killed>> /\ p # q /\ state[q] = "EMBRYO" /\ state[p] = "RUNNING"
      /\ np[p] = q /\ pc[p] = "forkcopy" /\ parent[q] = None
      /\ \A r \in Slots : /\ parent'[r] = IF r = q THEN p ELSE parent[r]
                          /\ pc'[r] = IF r = p THEN "forkrun" ELSE pc[r]
  BY DEF Fills
<1>1. (\A r \in Slots : prog'[r] = prog[r] /\ got'[r] = got[r]) /\ Running' = Running
  BY FillsTells DEF PInv, Kept, Running
<1>2. \A r \in Slots : Kin(r)' = Kin(r)
  BY <1>0 DEF Kin
<1>3. q \notin Running
  BY <1>0 DEF PInv, ProgramInv, Running
<1>4. OneChild' /\ NoOtherCalls' /\ TestsFork'
  <2>1. OneChild'
    BY <1>2 DEF Family, OneChild
  <2>2. NoOtherCalls'
    BY <1>0 DEF Family, NoOtherCalls, Forking
  <2>3. TestsFork'
    BY <1>0, <1>1 DEF Family, TestsFork, Forking
  <2> QED BY <2>1, <2>2, <2>3
<1>5. TestsHaveChildren'
  BY <1>0, <1>1, <1>2 DEF Family, TestsHaveChildren
<1>6. TestsAreChildren'
  BY <1>0, <1>1, <1>2, <1>3 DEF Family, TestsAreChildren, Running
<1>7. InitForksAlone'
  BY <1>0, InitForksNot DEF Family
<1> QED BY <1>4, <1>5, <1>6, <1>7 DEF Family

LEMMA DropsKeepsFamily ==
  ASSUME IInv, PInv, CommonInv, ~ crowd, Family, TableStep,
         NEW p \in Slots, NEW q \in Slots, Drops(p, q)
  PROVE  Family'
<1>0. /\ UNCHANGED <<parent, killed>> /\ p # q /\ state[q] = "EMBRYO" /\ state[p] = "RUNNING"
      /\ np[p] = q /\ pc[p] = "forkcopy" /\ parent[q] = None
      /\ \A r \in Slots : /\ np'[r] = IF r = p THEN None ELSE np[r]
                          /\ pc'[r] = IF r = p THEN "user" ELSE pc[r]
  BY DEF Drops
<1>1. /\ \A r \in Slots : prog'[r] = prog[r] /\ (r # p => got'[r] = got[r])
      /\ p \in Running => got'[p] = Append(got[p], Result("fork", -1))
      /\ Running' = Running
  <2>1. \A r \in Slots : IF r = p /\ p \in Running THEN Heard(r, Result("fork", -1)) ELSE Kept(r)
    BY DropsTells DEF PInv
  <2> QED BY <2>1 DEF Kept, Heard, Running
<1>2. /\ p # initproc => p \in Running /\ ~ InChild(got[p]) /\ ~ Owes(got[p])
      /\ p = initproc => p \notin Running
  BY <1>0, ForkersAre DEF Forking
<1>3. \A r \in Running : /\ InChild(got'[r]) <=> InChild(got[r])
                         /\ Owes(got'[r]) <=> Owes(got[r])
  <2>1. \A r \in Running : r \in Slots /\ got[r] \in Seq(Range(got[r]))
    BY QuietTests
  <2>2. \A r \in Running : /\ InChild(Append(got[r], Result("fork", -1))) <=> InChild(got[r])
                           /\ Owes(Append(got[r], Result("fork", -1))) <=> Owes(got[r])
    <3>1. \A r \in Running : \A ret \in Int :
            /\ InChild(Append(got[r], Result("fork", ret))) <=> InChild(got[r]) \/ ret = 0
            /\ Owes(Append(got[r], Result("fork", ret))) <=> Owes(got[r]) \/ ret > 0
      BY <2>1, RepliesMean
    <3> QED BY <3>1
  <2> QED BY <1>1, <2>1, <2>2
<1>4. \A r \in Slots : Kin(r)' = IF r = p THEN {} ELSE Kin(r)
  <2>1. \A r \in Slots : r # p => Kin(r)' = Kin(r)
    BY <1>0 DEF Kin
  <2>2. q \in Kin(p) /\ Kin(p) \subseteq {q}
    <3>1. q \in Kin(p)
      BY <1>0 DEF Kin
    <3> QED BY <3>1 DEF Family, OneChild
  <2>3. \A r \in Slots : parent[r] # p
    BY <1>0, <2>2 DEF Kin
  <2>4. Kin(p)' = {}
    BY <1>0, <2>3 DEF Kin
  <2> QED BY <2>1, <2>4
<1>5. OneChild' /\ NoOtherCalls' /\ TestsFork'
  <2>1. OneChild'
    BY <1>4 DEF Family, OneChild
  <2>2. NoOtherCalls'
    BY <1>0 DEF Family, NoOtherCalls, Forking
  <2>3. TestsFork'
    BY <1>0, <1>1 DEF Family, TestsFork, Forking
  <2> QED BY <2>1, <2>2, <2>3
<1>6. TestsHaveChildren'
  <2>1. ASSUME NEW r \in Slots, r # initproc, Kin(r)' # {}
        PROVE  r \in Running /\ ~ InChild(got'[r]) /\ (np'[r] # None \/ Owes(got'[r]))
    <3>1. r # p /\ Kin(r) # {}
      BY <1>4, <2>1
    <3>2. r \in Running /\ ~ InChild(got[r]) /\ (np[r] # None \/ Owes(got[r]))
      BY <2>1, <3>1 DEF Family, TestsHaveChildren
    <3> QED BY <1>0, <1>1, <2>1, <3>1, <3>2
  <2> QED BY <1>1, <2>1 DEF TestsHaveChildren
<1>7. TestsAreChildren'
  <2>1. ASSUME NEW r \in Running
        PROVE  /\ InChild(got'[r]) => parent[r] \in Running /\ ~ InChild(got'[parent[r]])
               /\ ~ InChild(got'[r]) => parent[r] = initproc /\ (Owes(got'[r]) => Kin(r)' # {})
    <3>1. /\ InChild(got[r]) => parent[r] \in Running /\ ~ InChild(got[parent[r]])
          /\ ~ InChild(got[r]) => parent[r] = initproc /\ (Owes(got[r]) => Kin(r) # {})
      BY DEF Family, TestsAreChildren
    <3>2. Owes(got'[r]) => r # p \/ p = initproc
      BY <1>2, <1>3
    <3>3. r \in Slots /\ r # initproc
      BY QuietTests
    <3> QED BY <1>3, <1>4, <3>1, <3>2, <3>3
  <2> QED BY <1>0, <1>1, <2>1 DEF TestsAreChildren
<1>8. InitForksAlone'
  BY <1>0, InitForksNot DEF Family
<1> QED BY <1>5, <1>6, <1>7, <1>8 DEF Family

LEMMA MakesKeepsFamily ==
  ASSUME IInv, PInv, AgeInv, CommonInv, ~ crowd, Family, TableStep,
         NEW p \in Slots, NEW q \in Slots, Makes(p, q)
  PROVE  Family'
<1>0. /\ UNCHANGED <<parent, killed>> /\ p # q /\ state[q] = "EMBRYO" /\ state[p] = "RUNNING"
      /\ np[p] = q /\ pc[p] = "forkrun" /\ parent[q] = p /\ pc[q] = "user"
      /\ \A r \in Slots : /\ np'[r] = IF r = p THEN None ELSE np[r]
                          /\ pc'[r] = IF r = p THEN "user" ELSE pc[r]
  BY DEF Makes
<1>1. /\ \A r \in Slots \ {p, q} : prog'[r] = prog[r] /\ got'[r] = got[r]
      /\ prog'[p] = prog[p] /\ prog'[q] = prog[p]
      /\ p \in Running => /\ got'[p] = Append(got[p], Result("fork", pid[q]))
                          /\ got'[q] = Append(got[p], Result("fork", 0))
  <2>1. /\ \A r \in Slots \ {p, q} : Kept(r)
        /\ IF p \in Running THEN Heard(p, Result("fork", pid[q])) ELSE Kept(p)
        /\ prog'[q] = prog[p]
        /\ p \in Running => got'[q] = Append(got[p], Result("fork", 0))
    BY MakesTells DEF PInv
  <2> QED BY <2>1 DEF Kept, Heard
<1>2. /\ p # initproc => p \in Running /\ ~ InChild(got[p]) /\ ~ Owes(got[p])
      /\ p = initproc => p \notin Running
  BY <1>0, ForkersAre DEF Forking
<1>3. Kin(q) = {} /\ q \notin Running /\ q # initproc
  <2>1. Kin(q) = {}
    BY <1>0, NoKin
  <2> QED BY <1>0, <2>1 DEF PInv, ProgramInv, Running, IInv, ParentAlive
<1>4. pid[q] > 0 /\ pid[q] \in Int
  <2>1. pid[q] \in 1..(nextpid - 1) /\ nextpid \in Nat
    BY <1>0 DEF IInv, PidsUnique, TypeOK
  <2> QED BY <2>1
<1>5. p \in Running => /\ ~ InChild(got'[p]) /\ Owes(got'[p]) /\ InChild(got'[q])
  <2>1. p \in Running => got[p] \in Seq(Range(got[p]))
    BY QuietTests
  <2>2. \A ret \in Int : p \in Running =>
          /\ InChild(Append(got[p], Result("fork", ret))) <=> InChild(got[p]) \/ ret = 0
          /\ Owes(Append(got[p], Result("fork", ret))) <=> Owes(got[p]) \/ ret > 0
    BY <2>1, RepliesMean
  <2>3. p \in Running => p # initproc /\ ~ InChild(got[p]) /\ ~ Owes(got[p])
    BY <1>2
  <2>4. p \in Running => InChild(Append(got[p], Result("fork", 0)))
    BY <2>2
  <2>5. p \in Running => /\ ~ InChild(Append(got[p], Result("fork", pid[q])))
                         /\ Owes(Append(got[p], Result("fork", pid[q])))
    BY <1>4, <2>2, <2>3
  <2> QED BY <1>1, <2>4, <2>5
<1>6. \A r \in Slots : Kin(r)' = Kin(r)
  <2>1. \A r, s \in Slots : parent'[s] = r \/ np'[r] = s <=> parent[s] = r \/ np[r] = s
    BY <1>0
  <2> QED BY <2>1 DEF Kin
<1>7. Running' = IF p \in Running THEN Running \cup {q} ELSE Running
  <2>1. \A r \in Slots : prog'[r] # "any" <=> IF r = q THEN prog[p] # "any" ELSE prog[r] # "any"
    BY <1>1
  <2> QED BY <1>3, <2>1 DEF Running
<1>8. OneChild' /\ NoOtherCalls' /\ TestsFork'
  <2>1. OneChild'
    BY <1>6 DEF Family, OneChild
  <2>2. NoOtherCalls'
    BY <1>0 DEF Family, NoOtherCalls, Forking
  <2>3. TestsFork'
    BY <1>0, <1>7 DEF Family, TestsFork, Forking
  <2> QED BY <2>1, <2>2, <2>3
<1>9. TestsHaveChildren'
  <2>1. ASSUME NEW r \in Slots, r # initproc, Kin(r) # {}
        PROVE  r \in Running /\ ~ InChild(got'[r]) /\ (np'[r] # None \/ Owes(got'[r]))
    <3>1. r # q /\ r \in Running /\ ~ InChild(got[r]) /\ (np[r] # None \/ Owes(got[r]))
      BY <1>3, <2>1 DEF Family, TestsHaveChildren
    <3>2. CASE r = p
      BY <1>5, <3>1, <3>2
    <3>3. CASE r # p
      BY <1>0, <1>1, <3>1, <3>3
    <3> QED BY <3>2, <3>3
  <2> QED BY <1>6, <1>7, <2>1 DEF TestsHaveChildren
<1>10. TestsAreChildren'
  <2>1. ASSUME NEW r \in Running'
        PROVE  /\ InChild(got'[r]) => parent[r] \in Running /\ ~ InChild(got'[parent[r]])
               /\ ~ InChild(got'[r]) => parent[r] = initproc /\ (Owes(got'[r]) => Kin(r) # {})
    <3>1. CASE r = q
      BY <1>0, <1>3, <1>5, <1>7, <2>1, <3>1
    <3>2. CASE r = p
      <4>1. p \in Running /\ parent[p] = initproc
        BY <1>2, <1>3, <1>7, <2>1, <3>2 DEF Family, TestsAreChildren
      <4>2. q \in Kin(p)
        BY <1>0 DEF Kin
      <4> QED BY <1>5, <3>2, <4>1, <4>2
    <3>3. CASE r \notin {p, q}
      <4>1. r \in Running /\ r \in Slots /\ got'[r] = got[r]
        BY <1>1, <1>7, <2>1, <3>3 DEF Running
      <4>2. /\ InChild(got[r]) => parent[r] \in Running /\ ~ InChild(got[parent[r]])
            /\ ~ InChild(got[r]) => parent[r] = initproc /\ (Owes(got[r]) => Kin(r) # {})
        BY <4>1 DEF Family, TestsAreChildren
      <4>3. parent[r] \in Running /\ ~ InChild(got[parent[r]]) => ~ InChild(got'[parent[r]])
        <5>1. parent[r] \in Running => parent[r] \in Slots /\ parent[r] # q
          BY <1>3 DEF Running
        <5> QED BY <1>1, <1>5, <5>1
      <4> QED BY <4>1, <4>2, <4>3
    <3> QED BY <3>1, <3>2, <3>3
  <2>2. Running \subseteq Running' /\ \A r \in Running' : r \in Slots
    BY <1>7 DEF Running
  <2>3. \A r \in Running' :
          /\ InChild(got'[r]) => parent'[r] \in Running' /\ ~ InChild(got'[parent'[r]])
          /\ ~ InChild(got'[r]) => parent'[r] = initproc /\ (Owes(got'[r]) => Kin(r)' # {})
    BY <1>0, <1>6, <2>1, <2>2
  <2> QED BY <2>3 DEF TestsAreChildren
<1>11. InitForksAlone'
  BY <1>0, InitForksNot DEF Family
<1> QED BY <1>8, <1>9, <1>10, <1>11 DEF Family

LEMMA ExitsKeepsFamily ==
  ASSUME IInv, PInv, CommonInv, ~ crowd, Family, TableStep, NEW p \in Slots, Exits(p)
  PROVE  Family'
<1>0. /\ UNCHANGED <<np, pc, killed>> /\ pc[p] = "exit" /\ p # initproc /\ state[p] = "RUNNING"
      /\ \A r \in Slots : parent'[r] = IF parent[r] = p THEN initproc ELSE parent[r]
  BY DEF Exits
<1>1. \A r \in Slots : IF r = p THEN prog'[r] = "any" ELSE prog'[r] = prog[r] /\ got'[r] = got[r]
  BY ExitsTells DEF PInv, Kept
<1>2. Kin(p) = {}
  BY <1>0, ExitersAre
<1>3. \A r \in Slots : parent[r] # p /\ parent'[r] = parent[r]
  BY <1>0, <1>2 DEF Kin
<1>4. \A r \in Slots : Kin(r)' = Kin(r)
  BY <1>0, <1>3 DEF Kin
<1>5. Running' = Running \ {p}
  BY <1>1 DEF Running
<1>6. OneChild' /\ NoOtherCalls' /\ TestsFork'
  BY <1>0, <1>4, <1>5 DEF Family, OneChild, NoOtherCalls, TestsFork, Forking
<1>7. TestsHaveChildren'
  <2>1. ASSUME NEW r \in Slots, r # initproc, Kin(r) # {}
        PROVE  r \in Running' /\ ~ InChild(got'[r]) /\ (np[r] # None \/ Owes(got'[r]))
    <3>1. r # p /\ r \in Running /\ ~ InChild(got[r]) /\ (np[r] # None \/ Owes(got[r]))
      BY <1>2, <2>1 DEF Family, TestsHaveChildren
    <3> QED BY <1>1, <1>5, <3>1
  <2> QED BY <1>0, <1>4, <2>1 DEF TestsHaveChildren
<1>8. TestsAreChildren'
  <2>1. ASSUME NEW r \in Running'
        PROVE  /\ InChild(got'[r]) => parent'[r] \in Running' /\ ~ InChild(got'[parent'[r]])
               /\ ~ InChild(got'[r]) => parent'[r] = initproc /\ (Owes(got'[r]) => Kin(r)' # {})
    <3>1. r \in Running /\ r # p /\ r \in Slots
      BY <1>5 DEF Running
    <3>2. /\ InChild(got[r]) => parent[r] \in Running /\ ~ InChild(got[parent[r]])
          /\ ~ InChild(got[r]) => parent[r] = initproc /\ (Owes(got[r]) => Kin(r) # {})
      BY <3>1 DEF Family, TestsAreChildren
    <3>3. parent'[r] = parent[r] /\ parent[r] # p /\ Kin(r)' = Kin(r) /\ got'[r] = got[r]
      BY <1>1, <1>3, <1>4, <3>1
    <3>4. parent[r] \in Running => parent[r] \in Running' /\ got'[parent[r]] = got[parent[r]]
      <4>1. parent[r] \in Running => parent[r] \in Slots
        BY DEF Running
      <4> QED BY <1>1, <1>5, <3>3, <4>1
    <3> QED BY <3>2, <3>3, <3>4
  <2> QED BY <2>1 DEF TestsAreChildren
<1>9. InitForksAlone'
  BY <1>0, InitForksNot DEF Family
<1> QED BY <1>6, <1>7, <1>8, <1>9 DEF Family

LEMMA ReapsKeepsFamily ==
  ASSUME IInv, PInv, AgeInv, CommonInv, ~ crowd, Family, TableStep,
         NEW p \in Slots, NEW z \in Slots, Reaps(p, z)
  PROVE  Family'
<1>0. /\ np' = np /\ p # z /\ state[z] = "ZOMBIE" /\ pc[p] \in {"wait", "waitscan"}
      /\ parent[z] = p
      /\ \A r \in Slots : /\ parent'[r] = IF r = z THEN None ELSE parent[r]
                          /\ killed'[r] = IF r = z THEN FALSE ELSE killed[r]
                          /\ pc'[r] = IF r \in {p, z} THEN "user" ELSE pc[r]
  BY DEF Reaps
<1>1. /\ \A r \in Slots : prog'[r] = prog[r] /\ (r # p => got'[r] = got[r])
      /\ p \in Running => got'[p] = Append(got[p], Result("wait", pid[z]))
      /\ Running' = Running
  <2>1. \A r \in Slots : IF r = p /\ p \in Running THEN Heard(r, Result("wait", pid[z]))
                        ELSE Kept(r)
    BY ReapsTells DEF PInv
  <2> QED BY <2>1 DEF Kept, Heard, Running
<1>2. z \notin Running /\ np[p] = None
  BY <1>0 DEF PInv, ProgramInv, Running, IInv, ForkInv
<1>3. /\ \A r \in Running : InChild(got'[r]) <=> InChild(got[r])
      /\ p \in Running => ~ Owes(got'[p])
  <2>1. \A r \in Running : r \in Slots /\ got[r] \in Seq(Range(got[r]))
    BY QuietTests
  <2>2. pid[z] \in Int
    BY DEF IInv, TypeOK
  <2>3. p \in Running =>
          /\ InChild(Append(got[p], Result("wait", pid[z]))) <=> InChild(got[p])
          /\ ~ Owes(Append(got[p], Result("wait", pid[z])))
    BY <2>1, <2>2, RepliesMean
  <2> QED BY <1>1, <2>1, <2>3
<1>4. \A r \in Slots : Kin(r)' = IF r = p THEN {} ELSE Kin(r)
  <2>1. z \in Kin(p) /\ Kin(p) \subseteq {z}
    <3>1. z \in Kin(p)
      BY <1>0 DEF Kin
    <3> QED BY <3>1 DEF Family, OneChild
  <2>2. None \notin Slots
    BY NoneOneOrMore
  <2>3. \A r, s \in Slots : parent'[s] = r <=> s # z /\ parent[s] = r
    BY <1>0, <2>2
  <2>4. \A r, s \in Slots : np'[r] = s <=> np[r] = s
    BY <1>0
  <2>5. \A s \in Slots : np[p] # s
    BY <1>2, <2>2
  <2>6. Kin(p)' = {}
    BY <2>1, <2>3, <2>4, <2>5 DEF Kin
  <2>7. ASSUME NEW r \in Slots, r # p
        PROVE  Kin(r)' = Kin(r)
    <3>1. \A s \in Slots : parent'[s] = r <=> parent[s] = r
      BY <1>0, <2>3, <2>7
    <3> QED BY <2>4, <3>1 DEF Kin
  <2> QED BY <2>6, <2>7
<1>5. OneChild' /\ NoOtherCalls' /\ TestsFork'
  <2>1. OneChild'
    BY <1>4 DEF Family, OneChild
  <2>2. NoOtherCalls'
    BY <1>0 DEF Family, NoOtherCalls, Forking
  <2>3. TestsFork'
    BY <1>0, <1>1 DEF Family, TestsFork, Forking
  <2> QED BY <2>1, <2>2, <2>3
<1>6. TestsHaveChildren'
  <2>1. ASSUME NEW r \in Slots, r # initproc, Kin(r)' # {}
        PROVE  r \in Running /\ ~ InChild(got'[r]) /\ (np[r] # None \/ Owes(got'[r]))
    <3>1. r # p /\ Kin(r) # {}
      BY <1>4, <2>1
    <3>2. r \in Running /\ ~ InChild(got[r]) /\ (np[r] # None \/ Owes(got[r]))
      BY <2>1, <3>1 DEF Family, TestsHaveChildren
    <3> QED BY <1>1, <2>1, <3>1, <3>2
  <2> QED BY <1>0, <1>1, <2>1 DEF TestsHaveChildren
<1>7. TestsAreChildren'
  <2>1. ASSUME NEW r \in Running
        PROVE  /\ InChild(got'[r]) => parent'[r] \in Running /\ ~ InChild(got'[parent'[r]])
               /\ ~ InChild(got'[r]) => parent'[r] = initproc /\ (Owes(got'[r]) => Kin(r)' # {})
    <3>1. /\ InChild(got[r]) => parent[r] \in Running /\ ~ InChild(got[parent[r]])
          /\ ~ InChild(got[r]) => parent[r] = initproc /\ (Owes(got[r]) => Kin(r) # {})
      BY DEF Family, TestsAreChildren
    <3>2. r \in Slots /\ r # z
      BY <1>2, QuietTests
    <3>3. parent'[r] = parent[r]
      BY <1>0, <3>2
    <3>4. Owes(got'[r]) => r # p /\ Owes(got[r]) /\ Kin(r)' = Kin(r)
      BY <1>1, <1>3, <1>4, <3>2
    <3> QED BY <1>3, <3>1, <3>3, <3>4
  <2> QED BY <1>1, <2>1 DEF TestsAreChildren
<1>8. InitForksAlone'
  <2>0. initproc \in Slots /\ z # initproc
    <3>1. initproc \in Slots
      BY NoneOneOrMore
    <3>2. parent[initproc] # p
      BY DEF IInv, RootInv
    <3> QED BY <1>0, <3>1, <3>2
  <2>1. pc'[initproc] = "fork" => pc[initproc] = "fork" /\ z # initproc
    BY <1>0, <2>0
  <2> QED BY <1>0, <2>1, InitForksNot DEF Family
<1> QED BY <1>5, <1>6, <1>7, <1>8 DEF Family

LEMMA TableKeepsFamily ==
  ASSUME IInv, PInv, AgeInv, CommonInv, FamilyInv, TableStep
  PROVE  FamilyInv'
<1>1. TableMove /\ crowd' = crowd
  BY TableMoves DEF TableStep
<1>2. EmbryoInv'
  BY <1>1, EmbryosStay DEF FamilyInv
<1>3. ASSUME ~ crowd
      PROVE  Family'
  BY <1>1, <1>3, StillKeepsFamily, TakesKeepsFamily, DropsKeepsFamily, FillsKeepsFamily,
     MakesKeepsFamily, ExitsKeepsFamily, ReapsKeepsFamily DEF FamilyInv, TableMove
<1> QED BY <1>1, <1>2, <1>3 DEF FamilyInv

\* A call of a program that is none of the table's moves nobody.
LEMMA ToldKeepsFamily ==
  ASSUME CommonInv, ~ crowd, Family, UNCHANGED <<vars, crowd>>, NEW p \in Testers, NEW r,
         Told1(p, r)
  PROVE  Family'
<1>1. UNCHANGED <<state, parent, np, pc, killed>>
  BY DEF vars, procVars, threadVars
<1>2. \A q \in Slots : prog'[q] = prog[q] /\ Kin(q)' = Kin(q)
  BY <1>1 DEF Told1, Heard, Kept, Kin
<1>3. Running' = Running /\ Active' = Active
  BY <1>1, <1>2 DEF Running, Active
<1>4. p \in Running
  BY TestsAreNamed
<1>5. \A q \in Running : /\ InChild(got'[q]) <=> InChild(got[q])
                         /\ Owes(got'[q]) <=> Owes(got[q])
  <2>1. got[p] \in Seq(Range(got[p]))
    BY <1>4, QuietTests
  <2>2. /\ InChild(Append(got[p], r)) <=> InChild(got[p])
        /\ Owes(Append(got[p], r)) <=> Owes(got[p])
    BY <2>1, MoreChild, MoreOwes DEF Told1
  <2> QED BY <2>2 DEF Told1, Heard, Kept, Running
<1>6. OneChild' /\ NoOtherCalls' /\ TestsFork' /\ InitForksAlone'
  BY <1>1, <1>2, <1>3 DEF Family, OneChild, NoOtherCalls, Forking, TestsFork, InitForksAlone
<1>7. TestsHaveChildren'
  BY <1>1, <1>2, <1>3, <1>5 DEF Family, TestsHaveChildren
<1>8. TestsAreChildren'
  <2>1. \A q \in Running : q \in Slots
    BY DEF Running
  <2> QED BY <1>1, <1>2, <1>3, <1>5, <2>1 DEF Family, TestsAreChildren
<1> QED BY <1>6, <1>7, <1>8 DEF Family

LEMMA StartKeepsFamily ==
  ASSUME IInv, PInv, CommonInv, ~ crowd, Family, NEW c \in CPUs, Start(c)
  PROVE  Family'
<1>1. PICK p \in Slots, t \in Quiet :
        /\ InUser(c, p) /\ prog' = [prog EXCEPT ![p] = t] /\ p # initproc
  BY DEF Start
<1>2. UNCHANGED <<vars, got>> /\ Running = {}
  BY DEF Start
<1>3. UNCHANGED <<state, parent, np, pc, killed>>
  BY <1>2 DEF vars, procVars, threadVars
<1>4. \A q \in Slots : prog[q] = "any" /\ got[q] = <<>>
  BY <1>2 DEF Running, PInv, ProgramInv
<1>5. Running' \subseteq {p}
  BY <1>1, <1>4 DEF PInv, ProgramInv, Running
<1>6. \A q \in Slots : Kin(q)' = Kin(q)
  BY <1>3 DEF Kin
<1>7. Active' = Active
  BY <1>3 DEF Active
<1>8. \A q \in Slots : q # initproc => Kin(q) = {} /\ pc[q] \notin Forking
  BY <1>2 DEF Family, TestsHaveChildren, TestsFork
<1>9. OneChild' /\ NoOtherCalls' /\ InitForksAlone'
  BY <1>3, <1>6, <1>7 DEF Family, OneChild, NoOtherCalls, Forking, InitForksAlone
<1>10. TestsFork' /\ TestsHaveChildren'
  BY <1>3, <1>6, <1>8 DEF TestsFork, TestsHaveChildren, Forking
<1>11. parent[p] = initproc
  <2>1. state[p] = "RUNNING"
    BY <1>1, OnItsCpu DEF InUser, IInv
  <2>2. parent[p] # None /\ parent[p] \in Slots \cup {None}
    BY <1>1, <2>1 DEF IInv, ParentAlive, StackInv, Live, TypeOK
  <2>3. p \in Kin(parent[p])
    BY DEF Kin
  <2> QED BY <1>8, <2>2, <2>3
<1>12. ~ InChild(got[p]) /\ ~ Owes(got[p])
  BY <1>4, EmptySeq DEF InChild, Owes
<1>13. TestsAreChildren'
  BY <1>2, <1>3, <1>5, <1>11, <1>12 DEF TestsAreChildren
<1> QED BY <1>9, <1>10, <1>13 DEF Family

LEMMA FinishKeepsFamily ==
  ASSUME IInv, PInv, CommonInv, ~ crowd, Family, NEW c \in CPUs, Finish(c)
  PROVE  Family'
<1>1. PICK p \in Running : /\ InUser(c, p) /\ Calling(p) \in {Pass, Fail}
                           /\ prog' = [prog EXCEPT ![p] = "any"]
                           /\ got' = [got EXCEPT ![p] = <<>>]
  BY DEF Finish
<1>2. UNCHANGED vars
  BY DEF Finish
<1>3. UNCHANGED <<state, parent, np, pc, killed>>
  BY <1>2 DEF vars, procVars, threadVars
<1>4. \A q \in Slots : IF q = p THEN prog'[q] = "any" ELSE prog'[q] = prog[q] /\ got'[q] = got[q]
  BY <1>1 DEF PInv, ProgramInv
<1>5. Running' = Running \ {p}
  BY <1>4 DEF Running
<1>6. \A q \in Slots : Kin(q)' = Kin(q)
  BY <1>3 DEF Kin
<1>7. Active' = Active
  BY <1>3 DEF Active
<1>8. p \in Slots /\ p # initproc /\ pc[p] = "user" /\ np[p] = None
  <2>1. pc[p] = "user" /\ p \in Slots /\ p # initproc
    BY <1>1, CallersAre DEF CommonInv
  <2> QED BY <2>1 DEF IInv, ForkInv
<1>9. Kin(p) = {}
  <2>1. Calling(p)[1] \in Verdicts
    BY <1>1, Named DEF Verdicts
  <2>2. ~ Owes(got[p]) \/ InChild(got[p])
    BY <2>1, QuietTests
  <2> QED BY <1>8, <2>2 DEF Family, TestsHaveChildren
<1>10. OneChild' /\ NoOtherCalls' /\ InitForksAlone'
  BY <1>3, <1>6, <1>7 DEF Family, OneChild, NoOtherCalls, Forking, InitForksAlone
<1>11. TestsFork'
  BY <1>3, <1>5, <1>8 DEF Family, TestsFork, Forking
<1>12. TestsHaveChildren'
  BY <1>3, <1>4, <1>5, <1>6, <1>9 DEF Family, TestsHaveChildren
<1>13. TestsAreChildren'
  <2>1. \A q \in Running' : q \in Running /\ q \in Slots /\ q # p /\ got'[q] = got[q]
    BY <1>4, <1>5 DEF Running
  <2>2. \A q \in Running' : parent[q] # p
    BY <1>9, <2>1 DEF Kin
  <2>3. \A q \in Running : q # p => got'[q] = got[q] /\ q \in Running'
    BY <1>4, <1>5 DEF Running
  <2> QED BY <1>3, <1>6, <2>1, <2>2, <2>3 DEF Family, TestsAreChildren
<1> QED BY <1>10, <1>11, <1>12, <1>13 DEF Family

LEMMA FamilyKeeps ==
  ASSUME IInv, PInv, OInv, CommonInv, FamilyInv, InfoNext
  PROVE  FamilyInv'
<1>1. CASE TableStep
  BY <1>1, TableKeepsFamily DEF OInv
<1>2. ASSUME NEW c \in CPUs, ProgramStep(c)
      PROVE  FamilyInv'
  <2>1. UNCHANGED <<vars, crowd>>
    BY <1>2 DEF ProgramStep, Start, GetInfo, GetPid, Files, Grow, Finish, CloseFiles, progVars
  <2>2. EmbryoInv'
    BY <2>1 DEF FamilyInv, EmbryoInv, vars, procVars, threadVars
  <2>3. ASSUME ~ crowd
        PROVE  Family'
    <3>1. CASE Start(c) \/ Finish(c)
      BY <2>3, <3>1, StartKeepsFamily, FinishKeepsFamily DEF FamilyInv
    <3>2. CASE GetInfo(c) \/ GetPid(c)
      <4>1. PICK p \in Running : \E r : p \in Testers => Told1(p, r)
        BY <3>2, AskersAreTold DEF PInv, OInv
      <4>2. p \in Testers
        BY <2>3, QuietTests
      <4> QED BY <2>1, <2>3, <4>1, <4>2, ToldKeepsFamily DEF FamilyInv
    <3>3. CASE Files(c) \/ Grow(c)
      <4>1. PICK p \in Testers : \E r : Told1(p, r) /\ Changes(p, r)
        BY <3>3, ChangersAreTold DEF PInv, OInv
      <4> QED BY <2>1, <2>3, <4>1, ToldKeepsFamily DEF FamilyInv
    <3>4. CASE CloseFiles(c)
      <4>1. UNCHANGED <<vars, prog, got>>
        BY <3>4 DEF CloseFiles, progVars
      <4>2. UNCHANGED <<state, parent, np, pc, killed, prog, got>>
        BY <4>1 DEF vars, procVars, threadVars
      <4>3. OneChild' /\ NoOtherCalls' /\ TestsFork' /\ InitForksAlone'
        BY <2>3, <4>2 DEF FamilyInv, Family, OneChild, NoOtherCalls, TestsFork, InitForksAlone,
                          Kin, Forking, Running, Active
      <4>4. TestsHaveChildren' /\ TestsAreChildren'
        BY <2>3, <4>2 DEF FamilyInv, Family, TestsHaveChildren, TestsAreChildren, Kin, Running
      <4> QED BY <4>3, <4>4 DEF Family
    <3> QED BY <1>2, <3>1, <3>2, <3>3, <3>4 DEF ProgramStep
  <2> QED BY <2>1, <2>2, <2>3 DEF FamilyInv
<1> QED BY <1>1, <1>2 DEF InfoNext, ProgramStep

LEMMA FamilyAtFirst == InfoInit => FamilyInv
<1> SUFFICES ASSUME InfoInit PROVE FamilyInv
  OBVIOUS
<1>1. /\ \A q \in Slots : /\ state[q] = (IF q = initproc THEN "RUNNABLE" ELSE "UNUSED")
                          /\ np[q] = None /\ ~ killed[q] /\ pc[q] = "user"
                          /\ parent[q] = None /\ prog[q] = "any"
      /\ None \notin Slots /\ initproc \in Slots
  BY NoneOneOrMore DEF InfoInit, Init
<1>2. \A q \in Slots : Kin(q) = {}
  BY <1>1 DEF Kin
<1>3. EmbryoInv
  BY <1>1 DEF EmbryoInv
<1>4. Running = {}
  BY <1>1 DEF Running
<1> QED BY <1>1, <1>2, <1>3, <1>4 DEF FamilyInv, Family, OneChild, NoOtherCalls, TestsFork,
     TestsHaveChildren, TestsAreChildren, InitForksAlone, Forking

-----------------------------------------------------------------------------
(* The tests: the files and the memory of a test.                          *)

PidFirst ==
  {"procinfo_self", "self_state_running", "self_size_positive", "self_nfd_positive",
   "self_ppid_positive", "state_valid_range", "child_ppid", "child_size", "ppid_chain",
   "open_increases_nfd", "close_decreases_nfd", "sbrk_changes_size", "procinfo_consistency"}

\* Tests that ask for their own pid first.
LEMMA AsksPidFirst ==
  ASSUME NEW t \in PidFirst, NEW g, Answered(t, g), Len(g) > 0
  PROVE  /\ 1 \in DOMAIN g /\ Call(t, g, 1) = Getpid /\ g[1].call = "getpid"
         /\ g[1].ret \in Int
<1> DEFINE h == Prefix(g, 0)
<1>1. 1 \in DOMAIN g /\ 1 - 1 = 0
  BY AnswersAre
<1>2. Plain(g[1], NextCall(t, h)) /\ h \in Seq(Range(h)) /\ Len(h) = 0
  BY <1>1, AskedBefore
<1>3. h = <<>>
  BY <1>2, EmptySeq
<1>4. NextCall(t, <<>>) = Getpid
  <2>1. ~ InChild(<<>>) /\ Len(<<>>) = 0 /\ Len(<<>>) \in Nat
    BY DEF InChild
  <2>2. CASE t = "child_ppid"
    BY <2>1, <2>2, ChildPpidTest
  <2>3. CASE t = "child_size"
    BY <2>1, <2>3, ChildSizeTest
  <2>4. CASE t = "ppid_chain"
    BY <2>4, NextIs DEF test_ppid_chain
  <2>5. CASE t = "open_increases_nfd"
    BY <2>5, NextIs DEF test_open_increases_nfd
  <2>6. CASE t = "close_decreases_nfd"
    BY <2>6, NextIs DEF test_close_decreases_nfd
  <2>7. CASE t = "sbrk_changes_size"
    BY <2>7, NextIs DEF test_sbrk_changes_size
  <2>8. CASE t = "procinfo_consistency"
    BY <2>8, NextIs DEF test_procinfo_consistency
  <2>9. CASE t \in {"procinfo_self", "self_state_running", "self_size_positive",
                    "self_nfd_positive", "self_ppid_positive", "state_valid_range"}
    BY <2>1, <2>9, SelfTests
  <2> QED BY <2>2, <2>3, <2>4, <2>5, <2>6, <2>7, <2>8, <2>9 DEF PidFirst
<1>5. Call(t, g, 1) = Getpid
  BY <1>1, <1>3, <1>4 DEF Call
<1>6. Plain(g[1], Getpid)
  BY <1>2, <1>3, <1>4
<1> QED BY <1>1, <1>5, <1>6, Named DEF Plain

\* Where nobody forks, the first result is the pid of the process.
LEMMA FirstIsOwnPid ==
  ASSUME NEW t \in PidFirst \ Forkers, t \in Tests, NEW g, NEW i, Tale(t, g, i), Len(g) > 0
  PROVE  g[1].ret = i /\ Own(g) = DOMAIN g
<1>1. 1 \in DOMAIN g /\ g[1].call = "getpid"
  BY AsksPidFirst DEF Tale
<1>2. Own(g) = DOMAIN g
  BY NeverForks DEF Tale, Own
<1>3. OwnFact(g[1], Call(t, g, 1), i)
  BY <1>1, <1>2 DEF Tale
<1> QED BY <1>1, <1>2, <1>3 DEF OwnFact

\* What a call with result r that a process with pid i makes says of its files, m,
\* and of its pages, s, and what it makes of them.
Counts(r, c, i, m, m2, s, s2) ==
  /\ r.call = "getProcInfo" /\ c[2] = i => r.info.nfd = m /\ r.info.sz = s
  /\ m2 = IF r.call = "open" /\ r.ret # -1 THEN m + 1
          ELSE IF r.call = "close" THEN m - 1 ELSE m
  /\ s2 = IF r.call = "sbrk" /\ r.ret # -1 THEN s + 1 ELSE s

Watchers == {"open_increases_nfd", "close_decreases_nfd", "sbrk_changes_size",
             "procinfo_consistency"}

\* What a test that looks at its files or its pages knows of them.
OpenTold(g, m) ==
  /\ Len(g) = 2 => m = g[2].info.nfd
  /\ Len(g) = 3 \/ Len(g) = 4 => m = g[2].info.nfd + 1 /\ m >= 4
  /\ Len(g) >= 4 => g[4].info.nfd = g[2].info.nfd + 1

CloseTold(g, m) ==
  /\ Len(g) \in 2..3 => m >= 4
  /\ Len(g) = 3 => m = g[3].info.nfd
  /\ Len(g) = 4 => m = g[3].info.nfd - 1
  /\ Len(g) >= 5 => g[5].info.nfd = g[3].info.nfd - 1

SbrkTold(g, s) ==
  /\ Len(g) = 2 => s = g[2].info.sz
  /\ Len(g) = 3 => s > g[2].info.sz
  /\ Len(g) >= 4 => g[4].info.sz > g[2].info.sz

SameTold(g, s) ==
  \A k \in DOMAIN g : k >= 2 => g[k].info.sz = s

ImageTold(t, g, m, s) ==
  /\ t = "open_increases_nfd" /\ ~ Starved(g) => OpenTold(g, m)
  /\ t = "close_decreases_nfd" /\ ~ Starved(g) => CloseTold(g, m)
  /\ t = "sbrk_changes_size" /\ ~ Starved(g) => SbrkTold(g, s)
  /\ t = "procinfo_consistency" => SameTold(g, s)

LEMMA OpenToldMore ==
  ASSUME NEW g, NEW i, Tale("open_increases_nfd", g, i), NEW r, NEW m \in Nat, m >= 3, NEW m2,
         NEW s, NEW s2, Plain(r, NextCall("open_increases_nfd", g)),
         Counts(r, NextCall("open_increases_nfd", g), i, m, m2, s, s2), OpenTold(g, m),
         ~ Starved(Append(g, r))
  PROVE  OpenTold(Append(g, r), m2)
<1> DEFINE c == NextCall("open_increases_nfd", g)
           f == Append(g, r)
           len == Len(g)
<1>1. /\ g \in Seq(Range(g)) /\ len \in Nat /\ DOMAIN g = 1..len /\ (g = <<>> <=> len = 0)
      /\ ~ Starved(g)
  BY AnswersAre, MoreStarved DEF Tale
<1>2. Len(f) = len + 1 /\ f[len + 1] = r /\ \A k \in 1..len : f[k] = g[k]
  BY <1>1, MorePlaces
<1>3. len > 0 => g[1].ret = i
  <2>1. "open_increases_nfd" \in PidFirst \ Forkers /\ "open_increases_nfd" \in Tests
    BY DEF PidFirst, Forkers, Tests, Quiet
  <2>2. ASSUME Len(g) > 0
        PROVE  g[1].ret = i
    BY <2>1, <2>2, FirstIsOwnPid
  <2> QED BY <2>2
<1>4. r.call = c[1] /\ r.call \in Returning
  BY DEF Plain
<1>5. c = IF len = 0 THEN Getpid ELSE IF len = 1 THEN Info(g[1].ret)
          ELSE IF len = 2 THEN Open ELSE IF len = 3 THEN Info(g[1].ret)
          ELSE IF len = 4 THEN Close
          ELSE Verdict(g[4].info.nfd = g[2].info.nfd + 1)
  BY <1>1, OpenTest
<1>6. r.call = "open" => r.ret # -1
  <2>1. len + 1 \in DOMAIN f
    BY <1>1, MorePlaces
  <2> QED BY <1>2, <2>1 DEF Starved
<1> SUFFICES OpenTold(f, m2)
  OBVIOUS
<1> HIDE DEF c, f, len
<1>7. /\ c[1] = "getProcInfo" /\ c[2] = i => r.info.nfd = m
      /\ m2 = IF r.call = "open" THEN m + 1 ELSE IF r.call = "close" THEN m - 1 ELSE m
  BY <1>4, <1>6 DEF Counts, c
<1>8. CASE len = 0
  BY <1>2, <1>8 DEF OpenTold
<1>9. CASE len = 1
  <2>1. c[1] = "getProcInfo" /\ c[2] = i
    BY <1>3, <1>5, <1>9, Named
  <2> QED BY <1>2, <1>4, <1>7, <1>9, <2>1 DEF OpenTold
<1>10. CASE len = 2
  <2>1. c[1] = "open"
    BY <1>5, <1>10, Named
  <2>2. m = g[2].info.nfd /\ f[2] = g[2] /\ Len(f) = 3
    BY <1>2, <1>10 DEF OpenTold, len
  <2> QED BY <1>4, <1>7, <2>1, <2>2 DEF OpenTold
<1>11. CASE len = 3
  <2>1. c[1] = "getProcInfo" /\ c[2] = i
    BY <1>3, <1>5, <1>11, Named
  <2>2. m = g[2].info.nfd + 1 /\ m >= 4 /\ f[2] = g[2] /\ f[4] = r /\ Len(f) = 4
    BY <1>2, <1>11 DEF OpenTold, len
  <2> QED BY <1>4, <1>7, <2>1, <2>2 DEF OpenTold
<1>12. CASE len >= 4
  <2>1. f[2] = g[2] /\ f[4] = g[4]
    BY <1>1, <1>2, <1>12
  <2>3. Len(f) = len + 1 /\ len >= 4 /\ len \in Nat
    BY <1>1, <1>2, <1>12
  <2>2. g[4].info.nfd = g[2].info.nfd + 1
    BY <1>12 DEF OpenTold, len
  <2> QED BY <2>1, <2>2, <2>3 DEF OpenTold
<1> QED BY <1>1, <1>8, <1>9, <1>10, <1>11, <1>12

LEMMA CloseToldMore ==
  ASSUME NEW g, NEW i, Tale("close_decreases_nfd", g, i), NEW r, NEW m \in Nat, m >= 3, NEW m2,
         NEW s, NEW s2, Plain(r, NextCall("close_decreases_nfd", g)),
         Counts(r, NextCall("close_decreases_nfd", g), i, m, m2, s, s2), CloseTold(g, m),
         ~ Starved(Append(g, r))
  PROVE  CloseTold(Append(g, r), m2)
<1> DEFINE c == NextCall("close_decreases_nfd", g)
           f == Append(g, r)
           len == Len(g)
<1>1. /\ g \in Seq(Range(g)) /\ len \in Nat /\ DOMAIN g = 1..len /\ (g = <<>> <=> len = 0)
      /\ ~ Starved(g)
  BY AnswersAre, MoreStarved DEF Tale
<1>2. Len(f) = len + 1 /\ f[len + 1] = r /\ \A k \in 1..len : f[k] = g[k]
  BY <1>1, MorePlaces
<1>3. len > 0 => g[1].ret = i
  <2>1. "close_decreases_nfd" \in PidFirst \ Forkers /\ "close_decreases_nfd" \in Tests
    BY DEF PidFirst, Forkers, Tests, Quiet
  <2>2. ASSUME Len(g) > 0
        PROVE  g[1].ret = i
    BY <2>1, <2>2, FirstIsOwnPid
  <2> QED BY <2>2
<1>4. r.call = c[1] /\ r.call \in Returning
  BY DEF Plain
<1>5. c = IF len = 0 THEN Getpid ELSE IF len = 1 THEN Open
          ELSE IF len = 2 THEN Info(g[1].ret) ELSE IF len = 3 THEN Close
          ELSE IF len = 4 THEN Info(g[1].ret)
          ELSE Verdict(g[5].info.nfd = g[3].info.nfd - 1)
  BY <1>1, CloseTest
<1>6. r.call = "open" => r.ret # -1
  <2>1. len + 1 \in DOMAIN f
    BY <1>1, MorePlaces
  <2> QED BY <1>2, <2>1 DEF Starved
<1> SUFFICES CloseTold(f, m2)
  OBVIOUS
<1> HIDE DEF c, f, len
<1>7. /\ c[1] = "getProcInfo" /\ c[2] = i => r.info.nfd = m
      /\ m2 = IF r.call = "open" THEN m + 1 ELSE IF r.call = "close" THEN m - 1 ELSE m
  BY <1>4, <1>6 DEF Counts, c
<1>8. CASE len = 0
  BY <1>2, <1>8 DEF CloseTold
<1>9. CASE len = 1
  <2>1. c[1] = "open"
    BY <1>5, <1>9, Named
  <2> QED BY <1>2, <1>4, <1>7, <1>9, <2>1 DEF CloseTold
<1>10. CASE len = 2
  <2>1. c[1] = "getProcInfo" /\ c[2] = i
    BY <1>3, <1>5, <1>10, Named
  <2>2. m >= 4 /\ f[3] = r /\ Len(f) = 3
    BY <1>2, <1>10 DEF CloseTold, len
  <2> QED BY <1>4, <1>7, <2>1, <2>2 DEF CloseTold
<1>11. CASE len = 3
  <2>1. c[1] = "close"
    BY <1>5, <1>11, Named
  <2>2. m = g[3].info.nfd /\ f[3] = g[3] /\ Len(f) = 4
    BY <1>2, <1>11 DEF CloseTold, len
  <2> QED BY <1>4, <1>7, <2>1, <2>2 DEF CloseTold
<1>12. CASE len = 4
  <2>1. c[1] = "getProcInfo" /\ c[2] = i
    BY <1>3, <1>5, <1>12, Named
  <2>2. m = g[3].info.nfd - 1 /\ f[3] = g[3] /\ f[5] = r /\ Len(f) = 5
    BY <1>2, <1>12 DEF CloseTold, len
  <2> QED BY <1>4, <1>7, <2>1, <2>2 DEF CloseTold
<1>13. CASE len >= 5
  <2>1. f[3] = g[3] /\ f[5] = g[5] /\ Len(f) >= 6 /\ Len(f) \in Nat
    BY <1>1, <1>2, <1>13
  <2>2. g[5].info.nfd = g[3].info.nfd - 1
    BY <1>13 DEF CloseTold, len
  <2> QED BY <2>1, <2>2 DEF CloseTold
<1> QED BY <1>1, <1>8, <1>9, <1>10, <1>11, <1>12, <1>13

LEMMA SbrkToldMore ==
  ASSUME NEW g, NEW i, Tale("sbrk_changes_size", g, i), NEW r, NEW m, NEW m2,
         NEW s \in Nat, NEW s2, Plain(r, NextCall("sbrk_changes_size", g)),
         Counts(r, NextCall("sbrk_changes_size", g), i, m, m2, s, s2), SbrkTold(g, s),
         ~ Starved(Append(g, r))
  PROVE  SbrkTold(Append(g, r), s2)
<1> DEFINE c == NextCall("sbrk_changes_size", g)
           f == Append(g, r)
           len == Len(g)
<1>1. /\ g \in Seq(Range(g)) /\ len \in Nat /\ DOMAIN g = 1..len /\ (g = <<>> <=> len = 0)
  BY AnswersAre DEF Tale
<1>2. Len(f) = len + 1 /\ f[len + 1] = r /\ \A k \in 1..len : f[k] = g[k]
  BY <1>1, MorePlaces
<1>3. len > 0 => g[1].ret = i
  <2>1. "sbrk_changes_size" \in PidFirst \ Forkers /\ "sbrk_changes_size" \in Tests
    BY DEF PidFirst, Forkers, Tests, Quiet
  <2>2. ASSUME Len(g) > 0
        PROVE  g[1].ret = i
    BY <2>1, <2>2, FirstIsOwnPid
  <2> QED BY <2>2
<1>4. r.call = c[1] /\ r.call \in Returning
  BY DEF Plain
<1>5. c = IF len = 0 THEN Getpid ELSE IF len = 1 THEN Info(g[1].ret)
          ELSE IF len = 2 THEN Sbrk ELSE IF len = 3 THEN Info(g[1].ret)
          ELSE Verdict(g[4].info.sz > g[2].info.sz)
  BY <1>1, SbrkTest
<1>6. r.call = "sbrk" => r.ret # -1
  <2>1. len + 1 \in DOMAIN f
    BY <1>1, MorePlaces
  <2> QED BY <1>2, <2>1 DEF Starved
<1> SUFFICES SbrkTold(f, s2)
  OBVIOUS
<1> HIDE DEF c, f, len
<1>7. /\ c[1] = "getProcInfo" /\ c[2] = i => r.info.sz = s
      /\ s2 = IF r.call = "sbrk" THEN s + 1 ELSE s
  BY <1>4, <1>6 DEF Counts, c
<1>8. CASE len = 0
  BY <1>2, <1>8 DEF SbrkTold
<1>9. CASE len = 1
  <2>1. c[1] = "getProcInfo" /\ c[2] = i
    BY <1>3, <1>5, <1>9, Named
  <2> QED BY <1>2, <1>4, <1>7, <1>9, <2>1 DEF SbrkTold
<1>10. CASE len = 2
  <2>1. c[1] = "sbrk"
    BY <1>5, <1>10, Named
  <2>2. s = g[2].info.sz /\ f[2] = g[2] /\ Len(f) = 3
    BY <1>2, <1>10 DEF SbrkTold, len
  <2> QED BY <1>4, <1>7, <2>1, <2>2 DEF SbrkTold
<1>11. CASE len = 3
  <2>1. c[1] = "getProcInfo" /\ c[2] = i
    BY <1>3, <1>5, <1>11, Named
  <2>2. s > g[2].info.sz /\ f[2] = g[2] /\ f[4] = r /\ Len(f) = 4
    BY <1>2, <1>11 DEF SbrkTold, len
  <2> QED BY <1>4, <1>7, <2>1, <2>2 DEF SbrkTold
<1>12. CASE len >= 4
  <2>1. f[2] = g[2] /\ f[4] = g[4] /\ Len(f) >= 5 /\ Len(f) \in Nat
    BY <1>1, <1>2, <1>12
  <2>2. g[4].info.sz > g[2].info.sz
    BY <1>12 DEF SbrkTold, len
  <2> QED BY <2>1, <2>2 DEF SbrkTold
<1> QED BY <1>1, <1>8, <1>9, <1>10, <1>11, <1>12

LEMMA SameToldMore ==
  ASSUME NEW g, NEW i, Tale("procinfo_consistency", g, i), NEW r, NEW m, NEW m2,
         NEW s, NEW s2, Plain(r, NextCall("procinfo_consistency", g)),
         Counts(r, NextCall("procinfo_consistency", g), i, m, m2, s, s2), SameTold(g, s)
  PROVE  SameTold(Append(g, r), s2)
<1> DEFINE c == NextCall("procinfo_consistency", g)
           f == Append(g, r)
           len == Len(g)
<1>1. /\ g \in Seq(Range(g)) /\ len \in Nat /\ DOMAIN g = 1..len /\ (g = <<>> <=> len = 0)
  BY AnswersAre DEF Tale
<1>2. /\ f[len + 1] = r /\ \A k \in DOMAIN g : f[k] = g[k]
      /\ DOMAIN f = DOMAIN g \cup {len + 1}
  BY <1>1, MorePlaces
<1>3. len > 0 => g[1].ret = i
  <2>1. "procinfo_consistency" \in PidFirst \ Forkers /\ "procinfo_consistency" \in Tests
    BY DEF PidFirst, Forkers, Tests, Quiet
  <2> QED BY <2>1, FirstIsOwnPid
<1>4. r.call = c[1] /\ r.call \in Returning
  BY DEF Plain
<1>5. PICK ok \in BOOLEAN :
        c = IF len = 0 THEN Getpid ELSE IF len = 1 THEN Info(g[1].ret)
            ELSE IF len = 2 THEN Info(g[1].ret) ELSE IF len = 3 THEN Info(g[1].ret)
            ELSE Verdict(ok)
  BY <1>1, ConsistencyTest
<1> SUFFICES SameTold(f, s2)
  OBVIOUS
<1> HIDE DEF c, f, len
<1>6. /\ c[1] = "getProcInfo" /\ c[2] = i => r.info.sz = s
      /\ s2 = IF r.call = "sbrk" /\ r.ret # -1 THEN s + 1 ELSE s
  BY <1>4 DEF Counts, c
<1>7. c = Getpid \/ c = Info(g[1].ret) \/ c \in {Pass, Fail}
  BY <1>5, Named
<1>8. c \notin {Pass, Fail} /\ r.call # "sbrk"
  BY <1>4, <1>7, Named DEF Returning
<1>9. CASE len = 0
  BY <1>1, <1>2, <1>9 DEF SameTold
<1>10. CASE len > 0
  <2>1. c[1] = "getProcInfo" /\ c[2] = i
    <3>1. c = Info(g[1].ret)
      BY <1>1, <1>5, <1>8, <1>10, Named
    <3> QED BY <1>3, <1>10, <3>1, Named
  <2> QED BY <1>2, <1>6, <1>8, <2>1 DEF SameTold
<1> QED BY <1>1, <1>9, <1>10

\* One more call of a test, and what it now knows.
LEMMA ImageToldMore ==
  ASSUME NEW t, NEW g, NEW i, Tale(t, g, i), NEW r, NEW m \in Nat, m >= 3, NEW m2,
         NEW s \in Nat, NEW s2, Plain(r, NextCall(t, g)),
         Counts(r, NextCall(t, g), i, m, m2, s, s2), ImageTold(t, g, m, s)
  PROVE  ImageTold(t, Append(g, r), m2, s2)
<1>0. g \in Seq(Range(g))
  BY AnswersAre DEF Tale
<1>1. ASSUME t = "open_increases_nfd", ~ Starved(Append(g, r))
      PROVE  OpenTold(Append(g, r), m2)
  <2>1. OpenTold(g, m)
    BY <1>0, <1>1, MoreStarved DEF ImageTold
  <2> QED BY <1>1, <2>1, OpenToldMore
<1>2. ASSUME t = "close_decreases_nfd", ~ Starved(Append(g, r))
      PROVE  CloseTold(Append(g, r), m2)
  <2>1. CloseTold(g, m)
    BY <1>0, <1>2, MoreStarved DEF ImageTold
  <2> QED BY <1>2, <2>1, CloseToldMore
<1>3. ASSUME t = "sbrk_changes_size", ~ Starved(Append(g, r))
      PROVE  SbrkTold(Append(g, r), s2)
  <2>1. SbrkTold(g, s)
    BY <1>0, <1>3, MoreStarved DEF ImageTold
  <2> QED BY <1>3, <2>1, SbrkToldMore
<1>4. ASSUME t = "procinfo_consistency"
      PROVE  SameTold(Append(g, r), s2)
  BY <1>4, SameToldMore DEF ImageTold
<1> QED BY <1>1, <1>2, <1>3, <1>4 DEF ImageTold

\* What the tests that have the system to themselves know of their image.
ImageInv == ~ crowd => \A p \in Running : ImageTold(prog[p], got[p], nfd[p], sz[p])

\* A test closes only what it has opened.
LEMMA TestsCloseOwn ==
  ASSUME CommonInv, ImageInv
  PROVE  ClosesOwn
<1> SUFFICES ASSUME NEW p \in Testers, pc[p] = "user", Calling(p) = Close
             PROVE  nfd[p] >= 4
  BY DEF ClosesOwn
<1>1. p \in Running /\ prog[p] \in Tests
  BY TestsAreNamed DEF Testers
<1>2. Answered(prog[p], got[p])
  BY DEF CommonInv, TaleInv, Tale
<1> DEFINE t == prog[p]
           g == got[p]
<1>3. NextCall(t, g) = Close
  BY DEF Calling
<1>4. t \in Openers
  <2>1. "close" \in CallsOf(t)
    BY <1>1, <1>2, <1>3, TestCalls, Named
  <2> QED BY <2>1 DEF CallsOf, Asking, Verdicts
<1>5. ~ crowd
  BY <1>1, <1>4 DEF CommonInv, ProgOK, Openers, Robust
<1>6. ImageTold(t, g, nfd[p], sz[p])
  BY <1>1, <1>5 DEF ImageInv
<1>7. Len(g) \in Nat /\ (g = <<>> <=> Len(g) = 0)
  BY <1>2, AnswersAre
<1> HIDE DEF t, g
<1>8. CASE t = "open_increases_nfd"
  <2>1. ~ Starved(g)
    <3>1. ASSUME Starved(g)
          PROVE  FALSE
      <4>1. NextCall(t, g) = Getpid \/ NextCall(t, g) = Fail
        BY <1>8, <3>1, NextIs DEF test_open_increases_nfd
      <4> QED BY <1>3, <4>1, Named
    <3> QED BY <3>1
  <2>2. Len(g) = 4
    <3>1. Close = IF Len(g) = 0 THEN Getpid ELSE IF Len(g) = 1 THEN Info(g[1].ret)
                  ELSE IF Len(g) = 2 THEN Open ELSE IF Len(g) = 3 THEN Info(g[1].ret)
                  ELSE IF Len(g) = 4 THEN Close
                  ELSE Verdict(g[4].info.nfd = g[2].info.nfd + 1)
      BY <1>3, <1>7, <1>8, <2>1, OpenTest
    <3>2. /\ \A ok : Close # Verdict(ok)
          /\ Close # Getpid /\ Close # Open /\ \A k : Close # Info(k)
      BY Named
    <3> QED BY <3>1, <3>2
  <2> QED BY <1>6, <1>8, <2>1, <2>2 DEF ImageTold, OpenTold
<1>9. CASE t = "close_decreases_nfd"
  <2>1. ~ Starved(g)
    <3>1. ASSUME Starved(g)
          PROVE  FALSE
      <4>1. NextCall(t, g) = Getpid \/ NextCall(t, g) = Fail
        BY <1>9, <3>1, NextIs DEF test_close_decreases_nfd
      <4> QED BY <1>3, <4>1, Named
    <3> QED BY <3>1
  <2>2. Len(g) = 3
    <3>1. Close = IF Len(g) = 0 THEN Getpid ELSE IF Len(g) = 1 THEN Open
                  ELSE IF Len(g) = 2 THEN Info(g[1].ret) ELSE IF Len(g) = 3 THEN Close
                  ELSE IF Len(g) = 4 THEN Info(g[1].ret)
                  ELSE Verdict(g[5].info.nfd = g[3].info.nfd - 1)
      BY <1>3, <1>7, <1>9, <2>1, CloseTest
    <3>2. /\ \A ok : Close # Verdict(ok)
          /\ Close # Getpid /\ Close # Open /\ \A k : Close # Info(k)
      BY Named
    <3> QED BY <3>1, <3>2
  <2> QED BY <1>6, <1>9, <2>1, <2>2 DEF ImageTold, CloseTold
<1> QED BY <1>4, <1>8, <1>9 DEF t, Openers

\* A step of the table leaves the tests their files and pages.
LEMMA TableKeepsImages ==
  ASSUME IInv, ProgramInv, TableStep, NEW r \in Running
  PROVE  nfd'[r] = nfd[r] /\ sz'[r] = sz[r]
<1>0. r \in Slots /\ state[r] # "EMBRYO"
  BY DEF Running, ProgramInv
<1>1. TableMove
  BY TableMoves DEF TableStep
<1>2. ASSUME NEW p \in Slots, NEW q \in Slots, Fills(p, q)
      PROVE  nfd'[r] = nfd[r] /\ sz'[r] = sz[r]
  <2>1. r # q
    BY <1>0, <1>2 DEF Fills
  <2> QED BY <1>0, <1>2, <2>1, FillsTells
<1> QED BY <1>0, <1>1, <1>2, StillTells, TakesTells, DropsTells, MakesTells, ExitsTells, ReapsTells
     DEF TableMove

\* Where a test never forks, a step of the table tells it nothing.
LEMMA WatchersStay ==
  ASSUME IInv, ProgramInv, CommonInv, TableStep, NEW r \in Testers', prog'[r] \in Watchers
  PROVE  r \in Testers /\ Kept(r)
<1>1. prog'[r] \in Tests \ Forkers
  BY DEF Watchers, Forkers, Tests, Quiet
<1>2. ASSUME NEW p \in Testers, prog[p] = prog'[r]
      PROVE  Calling(p)[1] \notin {"fork", "wait", "exit"}
  <2>1. Answered(prog[p], got[p])
    BY DEF CommonInv, TaleInv, Tale
  <2> QED BY <1>1, <1>2, <2>1, NeverForks DEF Calling
<1>3. CASE r \in Testers /\ (GoesOn(r) \/ IsBack(r))
  <2>1. ~ IsBack(r)
    <3>1. ASSUME IsBack(r)
          PROVE  FALSE
      <4>1. prog[r] = prog'[r] /\ Calling(r)[1] \in {"fork", "wait"}
        BY <3>1 DEF IsBack, Heard, Reply
      <4> QED BY <1>2, <1>3, <4>1
    <3> QED BY <3>1
  <2> QED BY <1>3, <2>1 DEF GoesOn
<1>4. CASE IsMade(r)
  <2>1. PICK p \in Testers : pc[p] = "forkrun" /\ prog'[r] = prog[p]
    BY <1>4 DEF IsMade, Makes
  <2>2. Calling(p)[1] = "fork"
    BY <2>1 DEF CommonInv, CallInv
  <2> QED BY <1>2, <2>1, <2>2
<1> QED BY <1>3, <1>4, TestersMove DEF TesterMoves

\* What is told of the image of a process, when nobody watches, is nothing.
LEMMA NobodyWatches ==
  ASSUME NEW t, t \notin Watchers, NEW g, NEW m, NEW s
  PROVE  ImageTold(t, g, m, s)
BY DEF Watchers, ImageTold

\* The image of the process that asks.
LEMMA AskingCounts ==
  ASSUME IInv, NEW p \in Slots, state[p] = "RUNNING", NEW r, AsksNow(p, r),
         r.call \notin {"fork", "wait", "open", "close", "sbrk"}
  PROVE  Counts(r, Calling(p), pid[p], nfd[p], nfd[p], sz[p], sz[p])
<1>1. ASSUME r.call = "getProcInfo", Calling(p)[2] = pid[p]
      PROVE  r.info.nfd = nfd[p] /\ r.info.sz = sz[p]
  <2>1. r = getProcInfo(pid[p])
    BY <1>1, Named DEF AsksNow, Result, exists
  <2>2. pid[p] \in ActivePids
    BY DEF ActivePids, Active
  <2>3. PICK q \in Slots : /\ state[q] # "UNUSED" /\ pid[q] = pid[p]
                           /\ getProcInfo(pid[p]).info = processInfo(q)
    BY <2>2, InfoTells
  <2>4. q = p
    BY <2>3 DEF IInv, PidsUnique
  <2> QED BY <2>1, <2>3, <2>4, InfoFields
<1> QED BY <1>1 DEF Counts

LEMMA ChangingCounts ==
  ASSUME IInv, FilesInv, SizeInv, NEW p \in Slots, NEW r, Changes(p, r)
  PROVE  Counts(r, Calling(p), pid[p], nfd[p], nfd'[p], sz[p], sz'[p])
<1>1. /\ \A ret : /\ Result("open", ret).call = "open" /\ Result("open", ret).ret = ret
                  /\ Result("close", ret).call = "close" /\ Result("close", ret).ret = ret
                  /\ Result("sbrk", ret).call = "sbrk" /\ Result("sbrk", ret).ret = ret
  BY DEF Result
<1>2. nfd = [q \in Slots |-> nfd[q]] /\ sz = [q \in Slots |-> sz[q]] /\ sz[p] \in Nat
  BY DEF FilesInv, SizeInv
<1>3. sz[p] # -1
  BY <1>2
<1>4. r.call # "getProcInfo"
  BY <1>1 DEF Changes
<1>5. nfd'[p] = IF r.call = "open" /\ r.ret # -1 THEN nfd[p] + 1
                ELSE IF r.call = "close" THEN nfd[p] - 1 ELSE nfd[p]
  BY <1>1, <1>2 DEF Changes
<1>6. sz'[p] = IF r.call = "sbrk" /\ r.ret # -1 THEN sz[p] + 1 ELSE sz[p]
  BY <1>1, <1>2, <1>3 DEF Changes
<1> QED BY <1>4, <1>5, <1>6 DEF Counts

LEMMA NothingTold ==
  ASSUME NEW t, NEW m, NEW s
  PROVE  ImageTold(t, <<>>, m, s)
<1>1. Len(<<>>) = 0
  BY EmptySeq
<1> QED BY <1>1 DEF ImageTold, OpenTold, CloseTold, SbrkTold, SameTold

\* Another call of a test that has the system to itself.
LEMMA ToldKeepsImage ==
  ASSUME IInv, PInv, OInv, CommonInv, ~ crowd, ImageInv, UNCHANGED <<vars, crowd>>,
         NEW p \in Testers, NEW r, Told1(p, r),
         Counts(r, Calling(p), pid[p], nfd[p], nfd'[p], sz[p], sz'[p]),
         \A q \in Slots \ {p} : nfd'[q] = nfd[q] /\ sz'[q] = sz[q]
  PROVE  ImageInv'
<1>1. \A q \in Slots : prog'[q] = prog[q] /\ (q # p => got'[q] = got[q])
  BY DEF Told1, Heard, Kept
<1>2. Running' = Running
  BY <1>1 DEF Running
<1>3. p \in Slots /\ p \in Running /\ kstack[p] /\ pc[p] # "exit"
  <2>1. p \in Slots /\ p \in Running
    BY TestsAreNamed
  <2> QED BY <2>1 DEF Told1, IInv, StackInv, Live
<1>4. nfd[p] \in Nat /\ nfd[p] >= 3 /\ sz[p] \in Nat
  BY <1>3 DEF CommonInv, FilesInv, OInv, SizeInv
<1>5. ImageTold(prog[p], Append(got[p], r), nfd'[p], sz'[p])
  <2>1. ImageTold(prog[p], got[p], nfd[p], sz[p])
    BY <1>3 DEF ImageInv
  <2>2. Tale(prog[p], got[p], pid[p])
    BY DEF CommonInv, TaleInv
  <2>3. Plain(r, NextCall(prog[p], got[p]))
        /\ Counts(r, NextCall(prog[p], got[p]), pid[p], nfd[p], nfd'[p], sz[p], sz'[p])
    BY DEF Told1, Calling
  <2> QED BY <1>4, <2>1, <2>2, <2>3, ImageToldMore
<1>6. \A q \in Running : q \in Slots
  BY DEF Running
<1>7. got'[p] = Append(got[p], r)
  BY DEF Told1, Heard
<1> QED BY <1>1, <1>2, <1>3, <1>5, <1>6, <1>7 DEF ImageInv

LEMMA ImageKeeps ==
  ASSUME IInv, PInv, OInv, CommonInv, FamilyInv, ImageInv, InfoNext
  PROVE  ImageInv'
<1>0. SUFFICES ASSUME ~ crowd, crowd' = crowd
               PROVE  ImageInv'
  <2>1. crowd' = crowd
    BY DEF InfoNext, TableStep, Start, GetInfo, GetPid, Files, Grow, Finish, CloseFiles, progVars
  <2> QED BY <2>1 DEF ImageInv
<1>1. CASE TableStep
  <2>1. ASSUME NEW r \in Running', prog'[r] \in Watchers
        PROVE  ImageTold(prog'[r], got'[r], nfd'[r], sz'[r])
    <3>1. r \in Testers'
      BY <2>1 DEF Running, Testers, Watchers, Tests, Quiet
    <3>2. r \in Testers /\ Kept(r)
      BY <1>1, <2>1, <3>1, WatchersStay DEF PInv
    <3>3. r \in Running
      BY <3>2, TestsAreNamed
    <3>4. nfd'[r] = nfd[r] /\ sz'[r] = sz[r]
      BY <1>1, <3>3, TableKeepsImages DEF PInv
    <3> QED BY <1>0, <3>2, <3>3, <3>4 DEF ImageInv, Kept
  <2> QED BY <2>1, NobodyWatches DEF ImageInv
<1>2. ASSUME NEW c \in CPUs, ProgramStep(c)
      PROVE  ImageInv'
  <2>1. UNCHANGED <<vars, crowd>>
    BY <1>2 DEF ProgramStep, Start, GetInfo, GetPid, Files, Grow, Finish, CloseFiles, progVars
  <2>2. CASE Start(c)
    <3>1. Running = {} /\ got' = got
      BY <2>2 DEF Start
    <3>2. \A q \in Slots : got[q] = <<>>
      BY <3>1 DEF Running, PInv, ProgramInv
    <3>3. \A q \in Running' : got'[q] = <<>>
      BY <3>1, <3>2 DEF Running
    <3> QED BY <3>3, NothingTold DEF ImageInv
  <2>3. CASE Finish(c)
    <3>1. UNCHANGED <<nfd, sz>>
      BY <2>3 DEF Finish, imageVars
    <3>2. PICK p \in Running : /\ prog' = [prog EXCEPT ![p] = "any"]
                               /\ got' = [got EXCEPT ![p] = <<>>]
      BY <2>3 DEF Finish
    <3>3. \A q \in Running' : q \in Running /\ prog'[q] = prog[q] /\ got'[q] = got[q]
      BY <3>2 DEF Running, PInv, ProgramInv
    <3> QED BY <1>0, <3>1, <3>3 DEF ImageInv
  <2>4. CASE GetInfo(c) \/ GetPid(c)
    <3>1. UNCHANGED <<nfd, sz>>
      BY <2>4 DEF GetInfo, GetPid, imageVars
    <3>2. PICK p \in Running : \E r : AsksNow(p, r) /\ (p \in Testers => Told1(p, r))
      BY <2>4, AskersAreTold DEF PInv, OInv
    <3>3. p \in Testers /\ p \in Slots /\ p # initproc
      BY <1>0, QuietTests
    <3>4. PICK r : AsksNow(p, r) /\ Told1(p, r)
      BY <3>2, <3>3
    <3>5. r.call \notin {"fork", "wait", "open", "close", "sbrk"}
      BY <3>3, <3>4, AskingIsPlain DEF Told1, OInv, CommonInv
    <3>6. Counts(r, Calling(p), pid[p], nfd[p], nfd[p], sz[p], sz[p])
      BY <3>3, <3>4, <3>5, AskingCounts DEF Told1
    <3> QED BY <1>0, <2>1, <3>1, <3>3, <3>4, <3>6, ToldKeepsImage
  <2>5. CASE Files(c) \/ Grow(c)
    <3>1. PICK p \in Testers : \E r : Told1(p, r) /\ Changes(p, r)
      BY <2>5, ChangersAreTold DEF PInv, OInv
    <3>2. PICK r : Told1(p, r) /\ Changes(p, r)
      BY <3>1
    <3>3. p \in Slots
      BY TestsAreNamed
    <3>4. Counts(r, Calling(p), pid[p], nfd[p], nfd'[p], sz[p], sz'[p])
      BY <3>2, <3>3, ChangingCounts DEF CommonInv, OInv
    <3>5. \A q \in Slots \ {p} : nfd'[q] = nfd[q] /\ sz'[q] = sz[q]
      <4>1. nfd = [q \in Slots |-> nfd[q]] /\ sz = [q \in Slots |-> sz[q]]
        BY DEF CommonInv, FilesInv, OInv, SizeInv
      <4> QED BY <3>2, <4>1 DEF Changes
    <3> QED BY <1>0, <2>1, <3>2, <3>4, <3>5, ToldKeepsImage
  <2>6. CASE CloseFiles(c)
    <3>1. PICK p \in Slots : pc[p] = "exit" /\ nfd' = [nfd EXCEPT ![p] = 0]
      BY <2>6 DEF CloseFiles, Runs
    <3>2. UNCHANGED <<sz, prog, got>> /\ Running' = Running
      BY <2>6 DEF CloseFiles, progVars, Running
    <3>3. \A q \in Running : q \in Slots
      BY DEF Running
    <3>4. \A q \in Slots : q # p => nfd'[q] = nfd[q]
      BY <3>1 DEF CommonInv, FilesInv
    <3>5. p \in Running => prog[p] \notin Watchers
      <4>1. ASSUME p \in Running, prog[p] \in Watchers
            PROVE  FALSE
        <5>1. p \in Testers /\ Answered(prog[p], got[p])
          BY <1>0, <4>1, QuietTests
        <5>2. ~ killed[p]
          BY <1>0 DEF FamilyInv, Family, NoOtherCalls
        <5>3. Calling(p)[1] = "exit"
          BY <3>1, <5>1, <5>2 DEF CommonInv, CallInv
        <5>4. prog[p] \in Tests \ Forkers
          BY <4>1 DEF Watchers, Forkers, Tests, Quiet
        <5> QED BY <5>1, <5>3, <5>4, NeverForks DEF Calling
      <4> QED BY <4>1
    <3>6. ASSUME NEW q \in Running
          PROVE  ImageTold(prog[q], got[q], nfd'[q], sz[q])
      BY <1>0, <3>3, <3>4, <3>5, NobodyWatches DEF ImageInv
    <3> QED BY <3>2, <3>6 DEF ImageInv
  <2> QED BY <1>2, <2>2, <2>3, <2>4, <2>5, <2>6 DEF ProgramStep
<1> QED BY <1>1, <1>2 DEF InfoNext, ProgramStep

LEMMA ImageAtFirst == InfoInit => ImageInv
<1> SUFFICES ASSUME InfoInit PROVE ImageInv
  OBVIOUS
<1>1. Running = {}
  BY DEF InfoInit, Running
<1> QED BY <1>1 DEF ImageInv

-----------------------------------------------------------------------------
(* The tests: a test that has the system to itself.                        *)

\* There are init, the test and the child it owes a wait, if any.
LEMMA WhoIsThere ==
  ASSUME IInv, CommonInv, FamilyInv, ~ crowd, NEW p \in Running, ~ InChild(got[p]),
         pc[p] = "user", state[p] # "UNUSED"
  PROVE  /\ Active = {initproc, p} \cup Kin(p) /\ p \in Slots /\ p # initproc
         /\ parent[p] = initproc
         /\ ~ Owes(got[p]) => Kin(p) = {}
         /\ Owes(got[p]) => \E z : Kin(p) = {z} /\ z \notin {initproc, p}
<1>0. Family /\ EmbryoInv
  BY DEF FamilyInv
<1>1. p \in Slots /\ p # initproc /\ np[p] = None /\ initproc \in Slots
  BY QuietTests, NoneOneOrMore DEF IInv, ForkInv
<1>2. p \in Kin(initproc) /\ parent[p] = initproc
  BY <1>0, <1>1 DEF Family, TestsAreChildren, Kin
<1>3. ASSUME NEW q \in Active, q \notin {initproc, p}
      PROVE  q \in Kin(p)
  <2>1. q \in Slots /\ state[q] # "UNUSED"
    BY <1>3 DEF Active
  <2>2. \E s \in Slots : q \in Kin(s)
    <3>1. CASE state[q] = "EMBRYO"
      BY <1>0, <2>1, <3>1 DEF EmbryoInv, Kin
    <3>2. CASE state[q] # "EMBRYO"
      <4>1. q \in Live \ {initproc}
        BY <1>3, <2>1, <3>2 DEF Live
      <4>2. parent[q] \in Slots
        BY <4>1 DEF IInv, ParentAlive, Live
      <4> QED BY <2>1, <4>2 DEF Kin
    <3> QED BY <3>1, <3>2
  <2>3. PICK s \in Slots : q \in Kin(s)
    BY <2>2
  <2>4. s # initproc
    BY <1>0, <1>1, <1>2, <1>3, <2>3 DEF Family, OneChild
  <2>5. s \in Running /\ ~ InChild(got[s])
    BY <1>0, <2>3, <2>4 DEF Family, TestsHaveChildren
  <2>6. parent[s] = initproc
    BY <1>0, <2>5 DEF Family, TestsAreChildren
  <2>7. s \in Kin(initproc)
    BY <2>3, <2>6 DEF Kin
  <2>8. s = p
    BY <1>0, <1>1, <1>2, <2>7 DEF Family, OneChild
  <2> QED BY <2>3, <2>8
<1>4. {initproc, p} \subseteq Active
  BY <1>1 DEF IInv, ParentAlive, Active
<1>5. \A z \in Kin(p) : z \in Active /\ z \notin {initproc, p}
  <2>1. ASSUME NEW z \in Kin(p)
        PROVE  z \in Active /\ z \notin {initproc, p}
    <3>1. parent[z] = p /\ z \in Slots
      BY <1>1, <2>1 DEF Kin
    <3>2. parent[z] # None
      BY <1>1, <3>1, NoneOneOrMore
    <3> QED BY <1>1, <3>1, <3>2 DEF IInv, ParentAlive, RootInv, Active
  <2> QED BY <2>1
<1>6. Active = {initproc, p} \cup Kin(p)
  BY <1>3, <1>4, <1>5
<1>7. ~ Owes(got[p]) => Kin(p) = {}
  BY <1>0, <1>1 DEF Family, TestsHaveChildren
<1>8. ASSUME Owes(got[p])
      PROVE  \E z : Kin(p) = {z} /\ z \notin {initproc, p}
  <2>1. Kin(p) # {}
    BY <1>0, <1>8 DEF Family, TestsAreChildren
  <2>2. PICK z : z \in Kin(p)
    BY <2>1
  <2>3. Kin(p) = {z}
    BY <1>0, <1>1, <2>2 DEF Family, OneChild
  <2> QED BY <1>5, <2>2, <2>3
<1> QED BY <1>1, <1>2, <1>6, <1>7, <1>8

\* How many they are.
LEMMA TwoOrThree ==
  \A x, y : x # y =>
    /\ Cardinality({x, y}) = 2
    /\ \A z : z \notin {x, y} => Cardinality({x, y} \cup {z}) = 3
<1>1. ASSUME NEW x, NEW y, x # y
      PROVE  IsFiniteSet({x, y}) /\ Cardinality({x, y}) = 2
  <2>1. IsFiniteSet({x}) /\ Cardinality({x}) = 1
    BY FS_Singleton
  <2>2. IsFiniteSet({x} \cup {y}) /\ Cardinality({x} \cup {y}) = 2
    BY <1>1, <2>1, FS_AddElement
  <2>3. {x} \cup {y} = {x, y}
    OBVIOUS
  <2> QED BY <2>2, <2>3
<1>2. ASSUME NEW x, NEW y, NEW z, x # y, z \notin {x, y}
      PROVE  Cardinality({x, y} \cup {z}) = 3
  <2> DEFINE S == {x, y}
  <2>1. IsFiniteSet(S) /\ Cardinality(S) = 2 /\ z \notin S
    BY <1>1, <1>2
  <2> HIDE DEF S
  <2>2. Cardinality(S \cup {z}) = Cardinality(S) + 1
    BY <2>1, FS_AddElement
  <2> QED BY <2>1, <2>2 DEF S
<1> QED BY <1>1, <1>2

\* What the calls return to a test that is alone.
LEMMA AloneIsTold ==
  ASSUME IInv, OInv, CommonInv, FamilyInv, ~ crowd, NEW p \in Running, ~ InChild(got[p]),
         pc[p] = "user", state[p] = "RUNNING", NEW r, AsksNow(p, r)
  PROVE  Alone(r, Calling(p), got[p], pid[p])
<1>0. /\ Active = {initproc, p} \cup Kin(p) /\ p \in Slots /\ p # initproc
      /\ ~ Owes(got[p]) => Kin(p) = {}
      /\ Owes(got[p]) => \E z : Kin(p) = {z} /\ z \notin {initproc, p}
  BY WhoIsThere
<1>1. getNumProc = IF Owes(got[p]) THEN 3 ELSE 2
  <2>1. CASE Owes(got[p])
    <3>1. PICK z : Kin(p) = {z} /\ z \notin {initproc, p}
      BY <1>0, <2>1
    <3>2. Active = {initproc, p} \cup {z}
      BY <1>0, <3>1
    <3>3. Cardinality({initproc, p} \cup {z}) = 3
      <4>1. initproc # p
        BY <1>0
      <4> QED BY <3>1, <4>1, TwoOrThree, Zenon
    <3> QED BY <2>1, <3>2, <3>3 DEF getNumProc
  <2>2. CASE ~ Owes(got[p])
    <3>1. Active = {initproc, p}
      BY <1>0, <2>2
    <3>2. Cardinality({initproc, p}) = 2
      BY <1>0, TwoOrThree
    <3> QED BY <2>2, <3>1, <3>2 DEF getNumProc
  <2> QED BY <2>1, <2>2
<1>2. ASSUME ~ Owes(got[p])
      PROVE  /\ Active = {initproc, p} /\ ActivePids = {1, pid[p]}
             /\ getMaxPid = pid[p]
  <2>1. Active = {initproc, p}
    BY <1>0, <1>2
  <2>2. pid[initproc] = 1
    BY DEF IInv, RootInv
  <2>3. ActivePids = {1, pid[p]}
    BY <2>1, <2>2 DEF ActivePids
  <2>4. initproc \in Active /\ p \in Active /\ \A q \in Active : q \in Slots /\ state[q] # "UNUSED"
    BY <2>1 DEF Active
  <2>5. pid[p] # 1 /\ pid[p] \in Nat /\ pid[p] > 0 /\ nextpid > 0
    BY <1>0, <2>2, <2>4 DEF IInv, PidsUnique, TypeOK
  <2>6. getMaxPid \in {0, 1, pid[p]} /\ pid[p] <= getMaxPid /\ getMaxPid \in Nat
    BY <2>3, <2>5, MaxIsGivenOut
  <2> QED BY <2>1, <2>3, <2>5, <2>6
<1>3. \A q \in Active : q \in {initproc, p} => sz[q] > 0
  <2>1. kstack[initproc] /\ kstack[p] /\ initproc \in Slots
    BY <1>0, NoneOneOrMore DEF IInv, ParentAlive, StackInv, Live
  <2> QED BY <1>0, <2>1 DEF OInv, SizeInv
<1> DEFINE c == Calling(p)
           g == got[p]
<1>4. CASE c = Num /\ r = Result("getNumProc", getNumProc)
  <2>1. r.call = "getNumProc" /\ r.ret = getNumProc
    BY <1>4 DEF Result
  <2> QED BY <1>1, <2>1 DEF Alone
<1>5. CASE c = MaxPidCall /\ r = Result("getMaxPid", getMaxPid)
  <2>1. r.call = "getMaxPid" /\ r.ret = getMaxPid
    BY <1>5 DEF Result
  <2> QED BY <1>2, <2>1 DEF Alone
<1>6. CASE c[1] = "getProcInfo" /\ r = getProcInfo(c[2])
  <2>1. \/ c[2] \notin ActivePids /\ r = Result("getProcInfo", -1)
        \/ \E q \in Slots : /\ state[q] # "UNUSED"
                            /\ r.call = "getProcInfo" /\ r.ret = 0 /\ r.info = processInfo(q)
    BY <1>6, InfoTells
  <2>2. CASE r = Result("getProcInfo", -1)
    <3>1. r.call = "getProcInfo" /\ r.ret = -1
      BY <2>2 DEF Result
    <3> QED BY <3>1 DEF Alone
  <2>3. ASSUME NEW q \in Slots, state[q] # "UNUSED", r.call = "getProcInfo", r.ret = 0,
               r.info = processInfo(q)
        PROVE  Alone(r, c, g, pid[p])
    <3>1. q \in Active
      BY <2>3 DEF Active
    <3>2. r.info.sz = sz[q]
      BY <2>3, InfoFields
    <3>3. ~ Owes(g) => r.info.sz > 0
      BY <1>2, <1>3, <3>1, <3>2
    <3> QED BY <2>3, <3>3 DEF Alone
  <2> QED BY <2>1, <2>2, <2>3
<1>7. CASE c[1] = "exists" /\ r = exists(c[2])
  <2>1. r.call = "exists" /\ r.ret = getProcInfo(c[2]).ret
    BY <1>7 DEF exists, Result
  <2>2. getProcInfo(c[2]).ret = 0 <=> c[2] \in ActivePids
    <3>1. Result("getProcInfo", -1).ret = -1
      BY DEF Result
    <3> QED BY <3>1, InfoTells
  <2> QED BY <1>2, <2>1, <2>2 DEF Alone
<1>8. CASE c = Getpid /\ r = Result("getpid", pid[p])
  <2>1. r.call = "getpid"
    BY <1>8 DEF Result
  <2> QED BY <2>1 DEF Alone
<1> QED BY <1>4, <1>5, <1>6, <1>7, <1>8 DEF AsksNow

\* The parent that a process is told that it has.
LEMMA ParentIsTold ==
  ASSUME IInv, NEW p \in Slots, state[p] = "RUNNING", p # initproc, NEW r, AsksNow(p, r),
         r.call = "getProcInfo", Calling(p)[2] = pid[p]
  PROVE  r.info.ppid = pid[parent[p]]
<1>1. r = getProcInfo(pid[p])
  BY Named DEF AsksNow, Result, exists
<1>2. pid[p] \in ActivePids
  BY DEF ActivePids, Active
<1>3. PICK q \in Slots : /\ state[q] # "UNUSED" /\ pid[q] = pid[p]
                         /\ getProcInfo(pid[p]).info = processInfo(q)
  BY <1>2, InfoTells
<1>4. q = p
  BY <1>3 DEF IInv, PidsUnique
<1>5. parent[p] # None
  BY DEF IInv, ParentAlive, Live
<1> QED BY <1>1, <1>3, <1>4, <1>5, InfoFields

\* What a test that has the system to itself has been told.
QuietInv ==
  ~ crowd => \A p \in Running : QuietTale(prog[p], got[p], pid[p], pid[parent[p]])

\* The parent of a test stays, and keeps its pid.
LEMMA ParentStays ==
  ASSUME IInv, PInv, CommonInv, ~ crowd, Family, TableStep, NEW r \in Running
  PROVE  /\ parent'[r] = parent[r] /\ pid'[r] = pid[r]
         /\ pid'[parent[r]] = pid[parent[r]]
<1>0. r \in Slots /\ r # initproc /\ state[r] \notin {"UNUSED", "EMBRYO", "ZOMBIE"}
  BY QuietTests DEF PInv, ProgramInv, Running
<1>1. /\ parent[r] \in Slots /\ parent[r] # r
      /\ state[parent[r]] \notin {"UNUSED", "EMBRYO", "ZOMBIE"}
  <2>1. r \in Live \ {initproc}
    BY <1>0 DEF Live
  <2> QED BY <1>0, <2>1 DEF IInv, ParentAlive, RootInv, Live
<1>2. TableMove
  BY TableMoves DEF TableStep
<1>3. CASE Still
  BY <1>3 DEF Still
<1>4. ASSUME NEW p \in Slots, NEW q \in Slots, Takes(p, q)
      PROVE  /\ parent'[r] = parent[r] /\ pid'[r] = pid[r]
             /\ pid'[parent[r]] = pid[parent[r]]
  BY <1>0, <1>1, <1>4 DEF Takes
<1>5. ASSUME NEW p \in Slots, NEW q \in Slots, Drops(p, q) \/ Fills(p, q) \/ Makes(p, q)
      PROVE  /\ parent'[r] = parent[r] /\ pid'[r] = pid[r]
             /\ pid'[parent[r]] = pid[parent[r]]
  BY <1>0, <1>1, <1>5 DEF Drops, Fills, Makes
<1>6. ASSUME NEW p \in Slots, Exits(p)
      PROVE  /\ parent'[r] = parent[r] /\ pid'[r] = pid[r]
             /\ pid'[parent[r]] = pid[parent[r]]
  <2>1. parent[r] # p
    <3>1. Kin(p) = {}
      BY <1>6, ExitersAre DEF Exits
    <3> QED BY <1>0, <3>1 DEF Kin
  <2> QED BY <1>0, <1>1, <1>6, <2>1 DEF Exits
<1>7. ASSUME NEW p \in Slots, NEW z \in Slots, Reaps(p, z)
      PROVE  /\ parent'[r] = parent[r] /\ pid'[r] = pid[r]
             /\ pid'[parent[r]] = pid[parent[r]]
  BY <1>0, <1>1, <1>7 DEF Reaps
<1> QED BY <1>2, <1>3, <1>4, <1>5, <1>6, <1>7 DEF TableMove

LEMMA TableKeepsQuiet ==
  ASSUME IInv, PInv, CommonInv, ~ crowd, Family, QuietInv, TableStep
  PROVE  \A r \in Running' : QuietTale(prog'[r], got'[r], pid'[r], pid'[parent'[r]])
<1> SUFFICES ASSUME NEW r \in Running'
             PROVE  QuietTale(prog'[r], got'[r], pid'[r], pid'[parent'[r]])
  OBVIOUS
<1>1. r \in Testers'
  <2>1. ProgOK'
    BY TableKeepsProgs DEF PInv
  <2>2. crowd' = crowd
    BY DEF TableStep
  <2> QED BY <2>1, <2>2 DEF ProgOK, Running, Testers, Tests
<1>2. CASE r \in Testers /\ (GoesOn(r) \/ IsBack(r))
  <2>1. r \in Running
    BY <1>2, TestsAreNamed
  <2>2. /\ parent'[r] = parent[r] /\ pid'[r] = pid[r]
        /\ pid'[parent[r]] = pid[parent[r]]
    BY <2>1, ParentStays
  <2>3. QuietTale(prog[r], got[r], pid[r], pid[parent[r]])
    BY <2>1 DEF QuietInv
  <2>4. CASE GoesOn(r)
    BY <2>2, <2>3, <2>4 DEF GoesOn, Kept
  <2>5. CASE IsBack(r)
    <3>1. PICK x : Heard(r, x) /\ Reply(x, Calling(r)[1])
      BY <2>5 DEF IsBack
    <3>2. ~ (x.call = "fork" /\ x.ret = 0) /\ x.call \in {"fork", "wait"}
      BY <3>1, ReplyIsPlain
    <3>3. got[r] \in Seq(Range(got[r]))
      BY <2>1, QuietTests
    <3>4. Alone(x, NextCall(prog[r], got[r]), got[r], pid[r])
      BY <3>2 DEF Alone
    <3>5. QuietTale(prog[r], Append(got[r], x), pid[r], pid[parent[r]])
      BY <2>3, <3>2, <3>3, <3>4, QuietMore
    <3> QED BY <2>2, <3>1, <3>5 DEF Heard
  <2> QED BY <1>2, <2>4, <2>5
<1>3. CASE IsMade(r)
  <2>1. PICK p \in Testers : /\ Makes(p, r) /\ prog'[r] = prog[p]
                             /\ got'[r] = Append(got[p], Result("fork", 0))
    BY <1>3 DEF IsMade
  <2>2. parent'[r] = p /\ pid' = pid /\ pc[p] \in Forking /\ p \in Slots /\ p \in Running
    BY <2>1, TestsAreNamed DEF Makes, Forking
  <2>3. ~ InChild(got[p])
    BY <2>2, ForkersAre
  <2>4. Tale(prog[p], got[p], pid[p])
    BY DEF CommonInv, TaleInv
  <2>5. Result("fork", 0).call = "fork" /\ Result("fork", 0).ret = 0
    BY DEF Result
  <2>6. QuietTale(prog[p], Append(got[p], Result("fork", 0)), pid[r], pid[p])
    BY <2>3, <2>4, <2>5, QuietOfChild
  <2> QED BY <2>1, <2>2, <2>6
<1> QED BY <1>1, <1>2, <1>3, TestersMove DEF TesterMoves, PInv

\* Another call of a test that has the system to itself.
LEMMA ToldKeepsQuiet ==
  ASSUME CommonInv, ~ crowd, QuietInv, UNCHANGED <<vars, crowd>>, NEW p \in Testers, NEW r,
         Told1(p, r), ~ InChild(got[p]) => Alone(r, Calling(p), got[p], pid[p]),
         r.call = "getProcInfo" /\ Calling(p)[2] = pid[p] => r.info.ppid = pid[parent[p]]
  PROVE  QuietInv'
<1>1. UNCHANGED <<pid, parent>>
  BY DEF vars, procVars
<1>2. \A q \in Slots : prog'[q] = prog[q] /\ (q # p => got'[q] = got[q])
  BY DEF Told1, Heard, Kept
<1>3. Running' = Running /\ (\A q \in Running : q \in Slots) /\ p \in Running
  BY <1>2, TestsAreNamed DEF Running
<1>4. got'[p] = Append(got[p], r) /\ r.call # "fork" /\ p \in Slots
  BY TestsAreNamed DEF Told1, Heard
<1>5. got[p] \in Seq(Range(got[p]))
  BY <1>3, QuietTests
<1>6. QuietTale(prog[p], Append(got[p], r), pid[p], pid[parent[p]])
  <2>1. QuietTale(prog[p], got[p], pid[p], pid[parent[p]])
    BY <1>3 DEF QuietInv
  <2> QED BY <1>4, <1>5, <2>1, QuietMore DEF Calling
<1>7. ASSUME NEW q \in Running
      PROVE  QuietTale(prog'[q], got'[q], pid[q], pid[parent[q]])
  <2>1. QuietTale(prog[q], got[q], pid[q], pid[parent[q]])
    BY DEF QuietInv
  <2>2. CASE q = p
    BY <1>2, <1>4, <1>6, <2>2
  <2>3. CASE q # p
    <3>1. prog'[q] = prog[q] /\ got'[q] = got[q]
      BY <1>2, <1>3, <2>3
    <3> QED BY <2>1, <3>1
  <2> QED BY <2>2, <2>3
<1> QED BY <1>1, <1>3, <1>7 DEF QuietInv

LEMMA QuietKeeps ==
  ASSUME IInv, PInv, OInv, CommonInv, FamilyInv, QuietInv, InfoNext
  PROVE  QuietInv'
<1>0. SUFFICES ASSUME ~ crowd, crowd' = crowd
               PROVE  QuietInv'
  <2>1. crowd' = crowd
    BY DEF InfoNext, TableStep, Start, GetInfo, GetPid, Files, Grow, Finish, CloseFiles, progVars
  <2> QED BY <2>1 DEF QuietInv
<1>1. CASE TableStep
  BY <1>0, <1>1, TableKeepsQuiet DEF FamilyInv, QuietInv
<1>2. ASSUME NEW c \in CPUs, ProgramStep(c)
      PROVE  QuietInv'
  <2>1. UNCHANGED <<vars, crowd>>
    BY <1>2 DEF ProgramStep, Start, GetInfo, GetPid, Files, Grow, Finish, CloseFiles, progVars
  <2>2. UNCHANGED <<pid, parent>>
    BY <2>1 DEF vars, procVars
  <2>3. CASE Start(c)
    <3>1. Running = {} /\ got' = got
      BY <2>3 DEF Start
    <3>2. \A q \in Slots : got[q] = <<>>
      BY <3>1 DEF Running, PInv, ProgramInv
    <3>3. \A q \in Running' : got'[q] = <<>>
      BY <3>1, <3>2 DEF Running
    <3>4. \A t, i, j : QuietTale(t, <<>>, i, j)
      BY EmptySeq DEF QuietTale, Own
    <3> QED BY <3>3, <3>4 DEF QuietInv
  <2>4. CASE Finish(c)
    <3>1. PICK p \in Running : /\ prog' = [prog EXCEPT ![p] = "any"]
                               /\ got' = [got EXCEPT ![p] = <<>>]
      BY <2>4 DEF Finish
    <3>2. \A q \in Running' : q \in Running /\ prog'[q] = prog[q] /\ got'[q] = got[q]
      BY <3>1 DEF Running, PInv, ProgramInv
    <3> QED BY <1>0, <2>2, <3>2 DEF QuietInv
  <2>5. CASE GetInfo(c) \/ GetPid(c)
    <3>1. PICK p \in Running : \E r : AsksNow(p, r) /\ (p \in Testers => Told1(p, r))
      BY <2>5, AskersAreTold DEF PInv, OInv
    <3>2. p \in Testers /\ p \in Slots /\ p # initproc
      BY <1>0, QuietTests
    <3>3. PICK r : AsksNow(p, r) /\ Told1(p, r)
      BY <3>1, <3>2
    <3>4. pc[p] = "user" /\ state[p] = "RUNNING"
      BY <3>3 DEF Told1
    <3>5. ~ InChild(got[p]) => Alone(r, Calling(p), got[p], pid[p])
      BY <1>0, <3>3, <3>4, AloneIsTold
    <3>6. r.call = "getProcInfo" /\ Calling(p)[2] = pid[p] => r.info.ppid = pid[parent[p]]
      BY <3>2, <3>3, <3>4, ParentIsTold
    <3> QED BY <1>0, <2>1, <3>2, <3>3, <3>5, <3>6, ToldKeepsQuiet
  <2>6. CASE Files(c) \/ Grow(c)
    <3>1. PICK p \in Testers : \E r : Told1(p, r) /\ Changes(p, r)
      BY <2>6, ChangersAreTold DEF PInv, OInv
    <3>2. PICK r : Told1(p, r) /\ Changes(p, r)
      BY <3>1
    <3>3. r.call \in {"open", "close", "sbrk"}
      BY <3>2 DEF Changes, Result
    <3>4. Alone(r, Calling(p), got[p], pid[p])
      BY <3>3 DEF Alone
    <3> QED BY <1>0, <2>1, <3>2, <3>3, <3>4, ToldKeepsQuiet
  <2>7. CASE CloseFiles(c)
    <3>1. UNCHANGED <<prog, got>>
      BY <2>7 DEF CloseFiles, progVars
    <3> QED BY <1>0, <2>2, <3>1 DEF QuietInv, Running
  <2> QED BY <1>2, <2>3, <2>4, <2>5, <2>6, <2>7 DEF ProgramStep
<1> QED BY <1>1, <1>2 DEF InfoNext, ProgramStep

LEMMA QuietAtFirst == InfoInit => QuietInv
<1> SUFFICES ASSUME InfoInit PROVE QuietInv
  OBVIOUS
<1>1. Running = {}
  BY DEF InfoInit, Running
<1> QED BY <1>1 DEF QuietInv

-----------------------------------------------------------------------------
(* The tests: the test that forks between two getMaxPid.                   *)

MaxTest == "maxpid_after_fork"

\* What getMaxPid told is below the pid of the child to come, which stays in the
\* table until the test has asked again.
BeforeFork(p) ==
  Len(got[p]) >= 1 => /\ got[p][1].ret < nextpid
                      /\ np[p] # None => got[p][1].ret < pid[np[p]]
ChildThere(p) ==
  Len(got[p]) = 2 /\ got[p][2].ret > 0 =>
    \E q \in Slots : parent[q] = p /\ pid[q] = got[p][2].ret /\ pid[q] > got[p][1].ret
AfterFork(p) ==
  Len(got[p]) >= 3 /\ got[p][2].ret > 0 => got[p][3].ret >= got[p][1].ret

Forks(p) == BeforeFork(p) /\ ChildThere(p) /\ AfterFork(p)

ForksInv == \A p \in Testers : prog[p] = MaxTest /\ ~ InChild(got[p]) => Forks(p)

\* Pids are given out in order.
LEMMA PidsComeLater ==
  ASSUME IInv, TableMove, NEW r \in Slots, NEW v \in Int, v < nextpid,
         np[r] # None => v < pid[np[r]]
  PROVE  v < nextpid' /\ (np'[r] # None => v < pid'[np'[r]])
<1>0. /\ nextpid \in Nat /\ np[r] \in Slots \cup {None}
      /\ np[r] # None => state[np[r]] = "EMBRYO"
  BY DEF IInv, TypeOK, ForkInv
<1>1. CASE Still
  BY <1>1 DEF Still
<1>2. ASSUME NEW p \in Slots, NEW q \in Slots, Takes(p, q)
      PROVE  v < nextpid' /\ (np'[r] # None => v < pid'[np'[r]])
  <2>1. v < nextpid'
    BY <1>0, <1>2 DEF Takes
  <2>2. CASE r = p
    BY <1>2, <2>1, <2>2 DEF Takes
  <2>3. CASE r # p
    <3>1. np'[r] = np[r]
      BY <1>2, <2>3 DEF Takes
    <3>2. np[r] # None => np[r] # q /\ np[r] \in Slots
      BY <1>0, <1>2 DEF Takes
    <3>3. np[r] # None => pid'[np[r]] = pid[np[r]]
      BY <1>2, <3>2 DEF Takes
    <3> QED BY <2>1, <3>1, <3>3
  <2> QED BY <2>2, <2>3
<1>3. ASSUME NEW p \in Slots, NEW q \in Slots, Drops(p, q) \/ Fills(p, q) \/ Makes(p, q)
      PROVE  v < nextpid' /\ (np'[r] # None => v < pid'[np'[r]])
  <2>1. UNCHANGED <<pid, nextpid>> /\ (np'[r] = np[r] \/ np'[r] = None)
    BY <1>3 DEF Drops, Fills, Makes
  <2> QED BY <2>1
<1>4. ASSUME NEW p \in Slots, Exits(p)
      PROVE  v < nextpid' /\ (np'[r] # None => v < pid'[np'[r]])
  BY <1>4 DEF Exits
<1>5. ASSUME NEW p \in Slots, NEW z \in Slots, Reaps(p, z)
      PROVE  v < nextpid' /\ (np'[r] # None => v < pid'[np'[r]])
  <2>1. np' = np /\ nextpid' = nextpid
    BY <1>5 DEF Reaps
  <2>2. np[r] # None => np[r] # z /\ np[r] \in Slots
    BY <1>0, <1>5 DEF Reaps
  <2>3. np[r] # None => pid'[np[r]] = pid[np[r]]
    BY <1>5, <2>2 DEF Reaps
  <2> QED BY <2>1, <2>3
<1> QED BY <1>1, <1>2, <1>3, <1>4, <1>5 DEF TableMove

\* A child stays while its parent runs its program and is not in wait().
LEMMA ChildStays ==
  ASSUME IInv, ProgramInv, TableStep, NEW r \in Slots, prog'[r] # "any",
         pc[r] \notin {"wait", "waitscan"}, NEW q \in Slots, parent[q] = r
  PROVE  parent'[q] = r /\ pid'[q] = pid[q]
<1>0. state[q] # "UNUSED" /\ parent[q] # None
  <2>1. parent[q] # None
    BY NoneOneOrMore
  <2> QED BY <2>1 DEF IInv, ParentAlive
<1>1. TableMove
  BY TableMoves DEF TableStep
<1>2. CASE Still
  BY <1>2 DEF Still
<1>3. ASSUME NEW p \in Slots, NEW s \in Slots, Takes(p, s)
      PROVE  parent'[q] = r /\ pid'[q] = pid[q]
  BY <1>0, <1>3 DEF Takes
<1>4. ASSUME NEW p \in Slots, NEW s \in Slots, Drops(p, s) \/ Fills(p, s) \/ Makes(p, s)
      PROVE  parent'[q] = r /\ pid'[q] = pid[q]
  BY <1>0, <1>4 DEF Drops, Fills, Makes
<1>5. ASSUME NEW p \in Slots, Exits(p)
      PROVE  parent'[q] = r /\ pid'[q] = pid[q]
  <2>1. p # r
    BY <1>5, ExitsTells
  <2> QED BY <1>5, <2>1 DEF Exits
<1>6. ASSUME NEW p \in Slots, NEW z \in Slots, Reaps(p, z)
      PROVE  parent'[q] = r /\ pid'[q] = pid[q]
  <2>1. q # z
    BY <1>6 DEF Reaps
  <2> QED BY <1>6, <2>1 DEF Reaps
<1> QED BY <1>1, <1>2, <1>3, <1>4, <1>5, <1>6 DEF TableMove

\* A result is not nothing, and tells which it was.
LEMMA MoreIsMore ==
  ASSUME NEW g, g \in Seq(Range(g)), NEW x
  PROVE  /\ Append(g, x) # g
         /\ \A y : Append(g, x) = Append(g, y) => x = y
<1>1. Len(Append(g, x)) = Len(g) + 1 /\ Len(g) \in Nat /\ Append(g, x)[Len(g) + 1] = x
  BY MorePlaces
<1>2. \A y : Append(g, y)[Len(g) + 1] = y
  BY MorePlaces
<1> QED BY <1>1, <1>2

\* The pid that fork() returns is that of the child it has made.
LEMMA ForkMakes ==
  ASSUME IInv, ProgramInv, CommonInv, TableStep, NEW r \in Testers,
         NEW ret \in Int, ret > 0, Heard(r, Result("fork", ret))
  PROVE  \E q \in Slots : Makes(r, q) /\ ret = pid[q]
<1> DEFINE x == Result("fork", ret)
<1>0. /\ got'[r] # got[r] /\ r \in Slots /\ r \in Running /\ prog'[r] # "any"
      /\ \A y : Heard(r, y) => x = y
  <2>1. r \in Slots /\ r \in Running /\ prog[r] # "any"
    BY TestsAreNamed DEF Running
  <2>2. got[r] \in Seq(Range(got[r]))
    BY DEF CommonInv, TaleInv, Tale, Answered
  <2> QED BY <2>1, <2>2, MoreIsMore DEF Heard
<1>1. \A call, k : x = Result(call, k) => call = "fork" /\ k = ret
  <2>1. x.call = "fork" /\ x.ret = ret
    BY DEF Result
  <2> HIDE DEF x
  <2>2. \A call, k : Result(call, k).call = call /\ Result(call, k).ret = k
    BY DEF Result
  <2> QED BY <2>1, <2>2
<1> HIDE DEF x
<1>2. ~ Kept(r) /\ ~ Heard(r, Result("fork", -1)) /\ \A k : ~ Heard(r, Result("wait", k))
  BY <1>0, <1>1 DEF Kept
<1>3. TableMove
  BY TableMoves DEF TableStep
<1>4. ASSUME Still
      PROVE  FALSE
  <2>1. pc[r] \in Sleeping \cup {"kill"}
    BY <1>0, <1>2, <1>4, StillTells
  <2> QED BY <2>1 DEF CommonInv, CallInv, Sleeping
<1>5. ASSUME NEW p \in Slots, NEW q \in Slots, Takes(p, q) \/ Drops(p, q) \/ Fills(p, q)
      PROVE  FALSE
  BY <1>0, <1>2, <1>5, TakesTells, DropsTells, FillsTells
<1>6. ASSUME NEW p \in Slots, NEW q \in Slots, Makes(p, q)
      PROVE  r = p /\ ret = pid[q]
  <2>1. r # q
    BY <1>0, <1>6 DEF Makes, ProgramInv, Running
  <2>2. r = p
    BY <1>0, <1>2, <1>6, <2>1, MakesTells
  <2>3. Heard(p, Result("fork", pid[q]))
    BY <1>0, <1>6, <2>2, MakesTells
  <2> QED BY <1>0, <1>1, <2>2, <2>3
<1>7. ASSUME NEW p \in Slots, NEW z \in Slots, Exits(p) \/ Reaps(p, z)
      PROVE  FALSE
  BY <1>0, <1>2, <1>7, ExitsTells, ReapsTells
<1> QED BY <1>3, <1>4, <1>5, <1>6, <1>7 DEF TableMove

\* The calls of that test.
LEMMA MaxTestCalls ==
  ASSUME TaleInv, NEW p \in Testers, prog[p] = MaxTest, ~ InChild(got[p])
  PROVE  /\ p \in Slots /\ got[p] \in Seq(Range(got[p])) /\ Len(got[p]) \in Nat
         /\ Len(got[p]) \in {0, 2} => Calling(p) = MaxPidCall
         /\ Len(got[p]) = 1 => Calling(p) = Fork
         /\ Len(got[p]) = 3 => Calling(p) = Wait
         /\ Len(got[p]) >= 4 => Calling(p) \in {Pass, Fail}
         /\ Len(got[p]) >= 1 => got[p][1].ret \in Int
<1> DEFINE g == got[p]
<1>1. Answered(MaxTest, g) /\ p \in Slots
  BY TestsAreNamed DEF TaleInv, Tale
<1>2. g \in Seq(Range(g)) /\ Len(g) \in Nat /\ DOMAIN g = 1..Len(g)
  BY <1>1, AnswersAre
<1>3. Calling(p) =
        IF Len(g) = 0 THEN MaxPidCall ELSE IF Len(g) = 1 THEN Fork
        ELSE IF Len(g) = 2 THEN MaxPidCall ELSE IF Len(g) = 3 THEN Wait
        ELSE Verdict(g[3].ret >= g[1].ret)
  BY <1>2, MaxPidTest DEF Calling, MaxTest
<1>4. Len(g) >= 1 => g[1].ret \in Int
  BY <1>1, <1>2, Said_maxpid_after_fork DEF MaxTest, Plain
<1> HIDE DEF g
<1>5. Len(g) >= 4 => Calling(p) \in {Pass, Fail}
  BY <1>2, <1>3, Named
<1>6. Len(g) \in {0, 2} => Calling(p) = MaxPidCall
  BY <1>2, <1>3
<1>7. Len(g) = 1 => Calling(p) = Fork
  BY <1>2, <1>3
<1>8. Len(g) = 3 => Calling(p) = Wait
  BY <1>2, <1>3
<1> USE DEF g
<1> QED BY <1>1, <1>2, <1>4, <1>5, <1>6, <1>7, <1>8

LEMMA TableKeepsForks ==
  ASSUME IInv, ProgramInv, CommonInv, ForksInv, TableStep
  PROVE  ForksInv'
<1> SUFFICES ASSUME NEW r \in Testers', prog'[r] = MaxTest, ~ InChild(got'[r])
             PROVE  Forks(r)'
  BY DEF ForksInv
<1>1. TableMove
  BY TableMoves DEF TableStep
<1>2. ~ IsMade(r)
  <2>1. ASSUME IsMade(r)
        PROVE  FALSE
    <3>1. PICK p \in Testers : got'[r] = Append(got[p], Result("fork", 0))
      BY <2>1 DEF IsMade
    <3>2. Result("fork", 0).call = "fork" /\ Result("fork", 0).ret = 0
      BY DEF Result
    <3>3. got[p] \in Seq(Range(got[p]))
      BY DEF CommonInv, TaleInv, Tale, Answered
    <3> QED BY <3>1, <3>2, <3>3, MoreChild
  <2> QED BY <2>1
<1>3. r \in Testers /\ (GoesOn(r) \/ IsBack(r))
  BY <1>2, TestersMove DEF TesterMoves
<1>4. prog[r] = MaxTest
  BY <1>3 DEF GoesOn, IsBack, Kept, Heard
<1>5. got[r] \in Seq(Range(got[r])) /\ Len(got[r]) \in Nat /\ r \in Slots
  BY <1>3, AnswersAre, TestsAreNamed DEF CommonInv, TaleInv, Tale
<1>6. ~ InChild(got[r])
  <2>1. CASE GoesOn(r)
    BY <2>1 DEF GoesOn, Kept
  <2>2. CASE IsBack(r)
    BY <1>5, <2>2, MoreChild DEF IsBack, Heard
  <2> QED BY <1>3, <2>1, <2>2
<1>7. Forks(r)
  BY <1>3, <1>4, <1>6 DEF ForksInv
<1> DEFINE g == got[r]
           len == Len(g)
           call == Calling(r)[1]
<1>8. /\ len \in {0, 2} => call = "getMaxPid"
      /\ len = 1 => call = "fork"
      /\ len = 3 => call = "wait"
      /\ len >= 4 => call \in Verdicts
      /\ len >= 1 => g[1].ret \in Int
  BY <1>3, <1>4, <1>6, MaxTestCalls, Named DEF CommonInv, Verdicts
<1>9. prog'[r] # "any"
  BY DEF MaxTest
<1>10. CASE GoesOn(r)
  <2>1. got'[r] = g
    BY <1>10 DEF GoesOn, Kept
  <2>2. BeforeFork(r)'
    <3>1. len >= 1 => /\ g[1].ret < nextpid'
                      /\ np'[r] # None => g[1].ret < pid'[np'[r]]
      BY <1>1, <1>5, <1>7, <1>8, PidsComeLater DEF Forks, BeforeFork
    <3> QED BY <2>1, <3>1 DEF BeforeFork
  <2>3. ChildThere(r)'
    <3>1. ASSUME len = 2, g[2].ret > 0
          PROVE  \E q \in Slots : parent'[q] = r /\ pid'[q] = g[2].ret /\ pid'[q] > g[1].ret
      <4>1. PICK q \in Slots : parent[q] = r /\ pid[q] = g[2].ret /\ pid[q] > g[1].ret
        BY <1>7, <3>1 DEF Forks, ChildThere
      <4>2. pc[r] \notin {"wait", "waitscan"}
        BY <1>3, <1>8, <3>1 DEF CommonInv, CallInv
      <4>3. parent'[q] = r /\ pid'[q] = pid[q]
        BY <1>5, <1>9, <4>1, <4>2, ChildStays
      <4> QED BY <4>1, <4>3
    <3> QED BY <2>1, <3>1 DEF ChildThere
  <2>4. AfterFork(r)'
    BY <1>7, <2>1 DEF Forks, AfterFork
  <2> QED BY <2>2, <2>3, <2>4 DEF Forks
<1>11. CASE IsBack(r)
  <2>1. PICK x : Heard(r, x) /\ Reply(x, call)
    BY <1>11 DEF IsBack
  <2>2. call \in {"fork", "wait"}
    BY <2>1 DEF Reply
  <2>3. got'[r] = Append(g, x)
    BY <2>1 DEF Heard
  <2>4. /\ Len(got'[r]) = len + 1 /\ got'[r][len + 1] = x
        /\ \A k \in DOMAIN g : got'[r][k] = g[k]
        /\ DOMAIN g = 1..len
    BY <1>5, <2>3, MorePlaces
  <2>50. len \in Nat
    BY <1>5
  <2>51. call \notin Verdicts /\ call # "getMaxPid"
    BY <2>2 DEF Verdicts
  <2> HIDE DEF g, len, call
  <2>5. len = 1 \/ len = 3
    <3>1. len \notin {0, 2} /\ ~ (len >= 4)
      BY <1>8, <2>51
    <3> QED BY <2>50, <3>1
  <2>6. got'[r][1] = g[1]
    BY <2>4, <2>5
  <2>7. BeforeFork(r)'
    <3>1. /\ g[1].ret < nextpid'
          /\ np'[r] # None => g[1].ret < pid'[np'[r]]
      <4>1. g[1].ret \in Int /\ g[1].ret < nextpid /\ (np[r] # None => g[1].ret < pid[np[r]])
        BY <1>7, <1>8, <2>5 DEF Forks, BeforeFork, len, g
      <4> QED BY <1>1, <1>5, <4>1, PidsComeLater
    <3> QED BY <2>6, <3>1 DEF BeforeFork
  <2>8. ChildThere(r)'
    <3>1. ASSUME len = 1, got'[r][2].ret > 0
          PROVE  \E q \in Slots : parent'[q] = r /\ pid'[q] = x.ret /\ pid'[q] > g[1].ret
      <4>1. got'[r][2] = x /\ call = "fork"
        BY <1>8, <2>4, <3>1
      <4>2. PICK ret \in Int : x = Result("fork", ret)
        BY <2>1, <4>1 DEF Reply
      <4>3. x.ret = ret /\ ret > 0
        BY <3>1, <4>1, <4>2 DEF Result
      <4>4. PICK q \in Slots : Makes(r, q) /\ ret = pid[q]
        BY <1>3, <2>1, <4>2, <4>3, ForkMakes
      <4>5. np[r] = q /\ q # None /\ parent'[q] = r /\ pid'[q] = pid[q]
        BY <4>4, NoneOneOrMore DEF Makes
      <4>6. g[1].ret < pid[q]
        BY <1>7, <3>1, <4>5 DEF Forks, BeforeFork, len, g
      <4>7. g[1].ret \in Int /\ pid[q] \in Int
        BY <1>8, <3>1, <4>4
      <4> QED BY <4>3, <4>4, <4>5, <4>6, <4>7
    <3>2. Len(got'[r]) = 2 => len = 1 /\ got'[r][2] = x
      BY <2>4, <2>5
    <3> QED BY <2>6, <3>1, <3>2 DEF ChildThere
  <2>9. AfterFork(r)'
    <3>1. CASE len = 1
      BY <2>4, <3>1 DEF AfterFork
    <3>2. CASE len = 3
      <4>1. got'[r][2] = g[2] /\ got'[r][3] = g[3]
        BY <2>4, <3>2
      <4>2. g[2].ret > 0 => g[3].ret >= g[1].ret
        BY <1>7, <3>2 DEF Forks, AfterFork, len, g
      <4> QED BY <2>6, <4>1, <4>2 DEF AfterFork
    <3> QED BY <2>5, <3>1, <3>2
  <2> QED BY <2>7, <2>8, <2>9 DEF Forks
<1> QED BY <1>3, <1>10, <1>11

\* Another call of a test, which is neither fork() nor wait().
LEMMA ToldKeepsForks ==
  ASSUME IInv, CommonInv, ForksInv, UNCHANGED vars, NEW p \in Testers, NEW r, Told1(p, r),
         Calling(p) = MaxPidCall => r = Result("getMaxPid", getMaxPid)
  PROVE  ForksInv'
<1>1. UNCHANGED <<pid, parent, np, nextpid>>
  BY DEF vars, procVars, threadVars
<1>2. \A q \in Slots : prog'[q] = prog[q] /\ (q # p => got'[q] = got[q])
  BY DEF Told1, Heard, Kept
<1>3. got'[p] = Append(got[p], r) /\ r.call \notin {"fork", "wait"} /\ r.call \in Returning
      /\ r.call = Calling(p)[1] /\ p \in Slots /\ pc[p] = "user"
      /\ state[p] = "RUNNING"
  BY TestsAreNamed DEF Told1, Heard, Plain
<1>4. Testers' = Testers /\ \A q \in Testers : q \in Slots
  BY <1>2 DEF Testers
<1> SUFFICES ASSUME NEW q \in Testers, prog[q] = MaxTest, ~ InChild(got'[q])
             PROVE  Forks(q)'
  BY <1>2, <1>4 DEF ForksInv
<1>5. CASE q # p
  <2>1. got'[q] = got[q]
    BY <1>2, <1>4, <1>5
  <2>2. Forks(q)
    BY <2>1 DEF ForksInv
  <2> QED BY <1>1, <2>1, <2>2 DEF Forks, BeforeFork, ChildThere, AfterFork
<1>6. CASE q = p
  <2> DEFINE g == got[p]
             h == got'[p]
             len == Len(g)
  <2>1. g \in Seq(Range(g)) /\ len \in Nat
    BY AnswersAre DEF CommonInv, TaleInv, Tale
  <2>2. /\ Len(h) = len + 1 /\ h[len + 1] = r /\ DOMAIN g = 1..len
        /\ \A k \in DOMAIN g : h[k] = g[k]
    BY <1>3, <2>1, MorePlaces
  <2>3. ~ InChild(g)
    <3>1. InChild(Append(g, r)) <=> InChild(g) \/ (r.call = "fork" /\ r.ret = 0)
      BY <2>1, MoreChild
    <3> QED BY <1>3, <1>6, <3>1
  <2>4. Forks(p)
    BY <1>6, <2>3 DEF ForksInv
  <2>5. /\ len \in {0, 2} => Calling(p) = MaxPidCall
        /\ len = 1 => Calling(p) = Fork
        /\ len = 3 => Calling(p) = Wait
        /\ len >= 4 => Calling(p) \in {Pass, Fail}
        /\ len >= 1 => g[1].ret \in Int
    BY <1>6, <2>3, MaxTestCalls DEF CommonInv
  <2>6. len \in {0, 2}
    <3>1. Calling(p)[1] \notin {"fork", "wait", "test_pass", "test_fail"}
      BY <1>3 DEF Returning
    <3>2. Calling(p) \notin {Fork, Wait, Pass, Fail}
      BY <3>1, Named
    <3>3. len # 1 /\ len # 3 /\ ~ (len >= 4)
      BY <2>5, <3>2, Zenon
    <3>4. len \in Nat
      BY <2>1
    <3> HIDE DEF len
    <3> QED BY <3>3, <3>4
  <2>7. r.ret = getMaxPid
    <3>1. r = Result("getMaxPid", getMaxPid)
      BY <2>5, <2>6
    <3> QED BY <3>1 DEF Result
  <2>8. /\ getMaxPid \in Nat /\ getMaxPid < nextpid
        /\ \A j \in ActivePids : j \in Nat /\ j > 0 /\ j <= getMaxPid
    <3>1. nextpid > 0
      <4>1. state[p] # "UNUSED"
        BY <1>3
      <4>2. pid[p] \in 1..(nextpid - 1) /\ nextpid \in Nat
        BY <1>3, <4>1 DEF IInv, TypeOK, PidsUnique
      <4> QED BY <4>2
    <3> QED BY <3>1, MaxIsGivenOut
  <2>9. np[p] = None
    BY <1>3 DEF IInv, ForkInv
  <2> HIDE DEF g, h, len
  <2>10. CASE len = 0
    <3>1. Len(h) = 1 /\ h[1] = r
      BY <2>2, <2>10
    <3>2. BeforeFork(p)'
      BY <1>1, <2>7, <2>8, <2>9, <3>1 DEF BeforeFork, h
    <3>3. ChildThere(p)' /\ AfterFork(p)'
      BY <3>1 DEF ChildThere, AfterFork, h
    <3> QED BY <1>6, <3>2, <3>3 DEF Forks
  <2>11. CASE len = 2
    <3>1. Len(h) = 3 /\ h[3] = r /\ h[1] = g[1] /\ h[2] = g[2]
      BY <2>2, <2>11
    <3>2. g[1].ret < nextpid
      BY <2>4, <2>11 DEF Forks, BeforeFork, g, len
    <3>3. BeforeFork(p)'
      BY <1>1, <2>9, <3>1, <3>2 DEF BeforeFork, h
    <3>4. ChildThere(p)'
      BY <3>1 DEF ChildThere, h
    <3>5. ASSUME g[2].ret > 0
          PROVE  r.ret >= g[1].ret
      <4>1. PICK z \in Slots : parent[z] = p /\ pid[z] = g[2].ret /\ pid[z] > g[1].ret
        BY <2>4, <2>11, <3>5 DEF Forks, ChildThere, g, len
      <4>2. state[z] # "UNUSED"
        <5>1. parent[z] # None
          BY <1>3, <4>1, NoneOneOrMore
        <5> QED BY <5>1 DEF IInv, ParentAlive
      <4>3. pid[z] \in ActivePids
        BY <4>2 DEF ActivePids, Active
      <4>4. pid[z] \in Nat /\ pid[z] <= getMaxPid /\ getMaxPid \in Nat /\ g[1].ret \in Int
        BY <2>5, <2>8, <2>11, <4>3
      <4> QED BY <2>7, <4>1, <4>4
    <3>6. AfterFork(p)'
      BY <3>1, <3>5 DEF AfterFork, h
    <3> QED BY <1>6, <3>3, <3>4, <3>6 DEF Forks
  <2> QED BY <2>6, <2>10, <2>11
<1> QED BY <1>5, <1>6

LEMMA ForksKeeps ==
  ASSUME IInv, PInv, OInv, CommonInv, ForksInv, InfoNext
  PROVE  ForksInv'
<1>1. CASE TableStep
  BY <1>1, TableKeepsForks DEF PInv
<1>2. ASSUME NEW c \in CPUs, ProgramStep(c)
      PROVE  ForksInv'
  <2>1. UNCHANGED vars
    BY <1>2 DEF ProgramStep, Start, GetInfo, GetPid, Files, Grow, Finish, CloseFiles
  <2>2. UNCHANGED <<pid, parent, np, nextpid>>
    BY <2>1 DEF vars, procVars, threadVars
  <2>3. CASE Start(c)
    <3>1. Running = {} /\ got' = got
      BY <2>3 DEF Start
    <3>2. \A q \in Slots : got'[q] = <<>>
      BY <3>1 DEF Running, PInv, ProgramInv
    <3>3. \A q \in Testers' : q \in Slots /\ Len(got'[q]) = 0
      BY <3>2, EmptySeq DEF Testers
    <3> QED BY <3>3 DEF ForksInv, Forks, BeforeFork, ChildThere, AfterFork
  <2>4. CASE Finish(c)
    <3>1. PICK p \in Running : /\ prog' = [prog EXCEPT ![p] = "any"]
                               /\ got' = [got EXCEPT ![p] = <<>>]
      BY <2>4 DEF Finish
    <3>2. \A q \in Slots : prog'[q] # "any" => prog'[q] = prog[q] /\ got'[q] = got[q]
      BY <3>1 DEF Running, PInv, ProgramInv
    <3>3. ASSUME NEW q \in Testers', prog'[q] = MaxTest, ~ InChild(got'[q])
          PROVE  Forks(q)'
      <4>1. q \in Slots /\ prog'[q] # "any"
        BY <3>3 DEF Testers, MaxTest
      <4>2. prog'[q] = prog[q] /\ got'[q] = got[q]
        BY <3>2, <4>1
      <4>3. q \in Testers
        BY <3>3, <4>1, <4>2 DEF Testers
      <4>4. Forks(q)
        BY <3>3, <4>2, <4>3 DEF ForksInv
      <4> QED BY <2>2, <4>2, <4>4 DEF Forks, BeforeFork, ChildThere, AfterFork
    <3> QED BY <3>3 DEF ForksInv
  <2>5. CASE GetInfo(c) \/ GetPid(c)
    <3>1. PICK p \in Running : \E r :
             /\ AsksNow(p, r) /\ p \in Slots /\ Heard(p, r)
             /\ \A q \in Slots \ {p} : Kept(q)
             /\ p \in Testers => Told1(p, r)
      BY <2>5, AskersAreTold DEF PInv, OInv
    <3>2. PICK r : /\ AsksNow(p, r) /\ p \in Slots /\ Heard(p, r)
                   /\ \A q \in Slots \ {p} : Kept(q)
                   /\ p \in Testers => Told1(p, r)
      BY <3>1
    <3>3. CASE p \in Testers
      <4>1. Calling(p) = MaxPidCall => r = Result("getMaxPid", getMaxPid)
        BY <3>2, Named DEF AsksNow
      <4> QED BY <2>1, <3>2, <3>3, <4>1, ToldKeepsForks
    <3>4. CASE p \notin Testers
      <4>1. \A q \in Slots : prog'[q] = prog[q] /\ (q # p => got'[q] = got[q])
        BY <3>2 DEF Heard, Kept
      <4>2. Testers' = Testers
        BY <4>1 DEF Testers
      <4>3. \A q \in Testers : prog'[q] = prog[q] /\ got'[q] = got[q]
        BY <3>4, <4>1 DEF Testers
      <4> QED BY <2>2, <4>2, <4>3 DEF ForksInv, Forks, BeforeFork, ChildThere, AfterFork
    <3> QED BY <3>3, <3>4
  <2>6. CASE Files(c) \/ Grow(c)
    <3>1. PICK p \in Testers : \E r : Told1(p, r) /\ Changes(p, r)
      BY <2>6, ChangersAreTold DEF PInv, OInv
    <3>2. PICK r : Told1(p, r) /\ Changes(p, r)
      BY <3>1
    <3>3. Calling(p)[1] \in {"open", "close", "sbrk"}
      BY <3>2, Named DEF Changes
    <3>4. Calling(p) # MaxPidCall
      BY <3>3, Named
    <3> QED BY <2>1, <3>2, <3>4, ToldKeepsForks
  <2>7. CASE CloseFiles(c)
    <3>1. UNCHANGED <<prog, got>>
      BY <2>7 DEF CloseFiles, progVars
    <3> QED BY <2>2, <3>1 DEF ForksInv, Forks, BeforeFork, ChildThere, AfterFork, Testers
  <2> QED BY <1>2, <2>3, <2>4, <2>5, <2>6, <2>7 DEF ProgramStep
<1> QED BY <1>1, <1>2 DEF InfoNext, ProgramStep

LEMMA ForksAtFirst == InfoInit => ForksInv
<1> SUFFICES ASSUME InfoInit PROVE ForksInv
  OBVIOUS
<1>1. \A p \in Slots : prog[p] = "any"
  BY DEF InfoInit
<1>2. \A p \in Testers : prog[p] # MaxTest
  BY <1>1 DEF Testers, MaxTest
<1> QED BY <1>2 DEF ForksInv

-----------------------------------------------------------------------------
(* The tests: no test comes to test_fail.                                  *)

\* Failing is no other call.
LEMMA FailIs ==
  /\ Fail \notin {Num, MaxPidCall, Getpid, Fork, Wait, Exit_, Open, Close, Sbrk, Pass}
  /\ \A i : Fail # Info(i) /\ Fail # Exists(i)
  /\ Fail[1] \notin Returning /\ Pass[1] \notin Returning /\ Pass # Fail
BY Named DEF Returning

\* The test has k results, h being those it had when it made the k-th call.
AskedAt(t, g, k, h) ==
  /\ h = Prefix(g, k - 1) /\ Plain(g[k], NextCall(t, h)) /\ Call(t, g, k) = NextCall(t, h)
  /\ k = Len(h) + 1 /\ Len(h) \in Nat /\ (h = <<>> <=> Len(h) = 0)
  /\ k \in DOMAIN g /\ DOMAIN h = 1..(k - 1)
  /\ \A m \in 1..k - 1 : h[m] = g[m] /\ m \in DOMAIN g
  /\ ~ InChild(g) => ~ InChild(h)
  /\ ~ Starved(g) => ~ Starved(h)

LEMMA AnswerAt ==
  ASSUME NEW t, NEW g, Answered(t, g), NEW k \in Nat, k >= 1, k <= Len(g)
  PROVE  \E h : AskedAt(t, g, k, h)
<1> DEFINE h == Prefix(g, k - 1)
<1>1. k \in DOMAIN g /\ k - 1 \in Nat
  BY AnswersAre
<1>2. /\ Plain(g[k], NextCall(t, h)) /\ h \in Seq(Range(h)) /\ Len(h) = k - 1
      /\ \A m \in 1..k - 1 : h[m] = g[m] /\ m \in DOMAIN g
      /\ InChild(h) => InChild(g)
      /\ Starved(h) => Starved(g)
  BY <1>1, AskedBefore
<1>3. (h = <<>> <=> Len(h) = 0) /\ DOMAIN h = 1..(k - 1)
  BY <1>2, EmptySeq, LenProperties
<1>4. Call(t, g, k) = NextCall(t, h)
  BY DEF Call
<1>5. k = Len(h) + 1 /\ Len(h) \in Nat
  BY <1>1, <1>2
<1> SUFFICES AskedAt(t, g, k, h)
  OBVIOUS
<1>6. h = Prefix(g, k - 1)
  OBVIOUS
<1> HIDE DEF h
<1> QED BY <1>1, <1>2, <1>3, <1>4, <1>5, <1>6 DEF AskedAt

OneCalls == {"numproc_positive", "maxpid_positive", "procinfo_invalid", "procinfo_zero",
             "procinfo_negative", "procinfo_init", "init_ppid_zero"}

\* The pid that test_procinfo_invalid asks for is never given out.
LEMMA OneCallVerdicts ==
  ASSUME MaxPid < 99999, NEW t \in OneCalls, NEW g, Answered(t, g)
  PROVE  NextCall(t, g) # Fail
<1>1. Len(g) \in Nat
  BY AnswersAre
<1>2. CASE Len(g) = 0
  BY <1>1, <1>2, OneCallTests, FailIs DEF OneCalls
<1>3. CASE Len(g) >= 1
  <2>0. PICK h : AskedAt(t, g, 1, h)
    BY <1>1, <1>3, AnswerAt
  <2>1. Plain(g[1], NextCall(t, h)) /\ Len(h) \in Nat /\ 1 = Len(h) + 1
    BY <2>0 DEF AskedAt
  <2>2. Len(h) = 0 /\ Len(g) # 0
    BY <1>3, <2>1
  <2>3. CASE t = "numproc_positive"
    <3>1. Plain(g[1], Num) /\ NextCall(t, g) = Verdict(g[1].ret > 0)
      BY <1>1, <2>1, <2>2, <2>3, OneCallTests
    <3>2. g[1].ret > 0
      BY <3>1, Named DEF Plain
    <3> QED BY <3>1, <3>2, FailIs DEF Verdict
  <2>4. CASE t = "maxpid_positive"
    <3>1. Plain(g[1], MaxPidCall) /\ NextCall(t, g) = Verdict(g[1].ret > 0)
      BY <1>1, <2>1, <2>2, <2>4, OneCallTests
    <3>2. g[1].ret > 0
      BY <3>1, Named DEF Plain
    <3> QED BY <3>1, <3>2, FailIs DEF Verdict
  <2>5. CASE t = "procinfo_invalid"
    <3>1. Plain(g[1], Exists(99999)) /\ NextCall(t, g) = Verdict(g[1].ret < 0)
      BY <1>1, <2>1, <2>2, <2>5, OneCallTests
    <3>2. g[1].ret = -1
      BY <3>1, Named DEF Plain
    <3> QED BY <3>1, <3>2, FailIs DEF Verdict
  <2>6. CASE t = "procinfo_zero"
    <3>1. Plain(g[1], Exists(0)) /\ NextCall(t, g) = Verdict(g[1].ret < 0)
      BY <1>1, <2>1, <2>2, <2>6, OneCallTests
    <3>2. g[1].ret = -1
      BY <3>1, Named DEF Plain
    <3> QED BY <3>1, <3>2, FailIs DEF Verdict
  <2>7. CASE t = "procinfo_negative"
    <3>1. Plain(g[1], Exists(-1)) /\ NextCall(t, g) = Verdict(g[1].ret < 0)
      BY <1>1, <2>1, <2>2, <2>7, OneCallTests
    <3>2. g[1].ret = -1
      BY <3>1, Named DEF Plain
    <3> QED BY <3>1, <3>2, FailIs DEF Verdict
  <2>8. CASE t = "procinfo_init"
    <3>1. Plain(g[1], Exists(1)) /\ NextCall(t, g) = Verdict(g[1].ret = 0)
      BY <1>1, <2>1, <2>2, <2>8, OneCallTests
    <3>2. g[1].ret = 0
      BY <3>1, Named DEF Plain
    <3> QED BY <3>1, <3>2, FailIs DEF Verdict
  <2>9. CASE t = "init_ppid_zero"
    <3>1. Plain(g[1], Info(1)) /\ NextCall(t, g) = Verdict(g[1].info.ppid = 0)
      BY <1>1, <2>1, <2>2, <2>9, OneCallTests
    <3>2. g[1].info.ppid = 0
      BY <3>1, Named DEF Plain
    <3> QED BY <3>1, <3>2, FailIs DEF Verdict
  <2> QED BY <2>3, <2>4, <2>5, <2>6, <2>7, <2>8, <2>9 DEF OneCalls
<1> QED BY <1>1, <1>2, <1>3

Selves == {"procinfo_self", "self_state_running", "self_size_positive",
           "self_nfd_positive", "self_ppid_positive", "state_valid_range"}

LEMMA SelfVerdicts ==
  ASSUME NEW t \in Selves, NEW g, NEW i, Tale(t, g, i)
  PROVE  NextCall(t, g) # Fail
<1>1. Len(g) \in Nat /\ (g = <<>> <=> Len(g) = 0)
  BY AnswersAre DEF Tale
<1>2. CASE Len(g) = 0 \/ Len(g) = 1
  BY <1>1, <1>2, SelfTests, FailIs DEF Selves
<1>3. CASE Len(g) >= 2
  <2>1. g[1].ret = i /\ Own(g) = DOMAIN g
    <3>1. t \in PidFirst \ Forkers /\ t \in Tests
      BY DEF Selves, PidFirst, Forkers, Tests, Robust
    <3> QED BY <1>3, <3>1, FirstIsOwnPid
  <2>0. PICK h : AskedAt(t, g, 2, h)
    BY <1>1, <1>3, AnswerAt DEF Tale
  <2>2. /\ Plain(g[2], NextCall(t, h)) /\ Call(t, g, 2) = NextCall(t, h)
        /\ 2 \in DOMAIN g /\ h[1] = g[1] /\ (h = <<>> <=> Len(h) = 0)
    BY <2>0 DEF AskedAt
  <2>20. 2 = Len(h) + 1 /\ Len(h) \in Nat
    BY <2>0 DEF AskedAt
  <2>21. Len(g) \in Nat
    BY <1>1
  <2>3. Len(h) = 1 /\ h[1].ret = i /\ Len(g) # 0 /\ Len(g) # 1
    <3>0. \A len \in Nat : (2 = len + 1 => len = 1) /\ (len >= 2 => len # 0 /\ len # 1)
      OBVIOUS
    <3>1. Len(h) = 1
      BY <2>20, <3>0
    <3>2. h[1].ret = i
      BY <2>1, <2>2
    <3>3. Len(g) # 0 /\ Len(g) # 1
      BY <1>3, <2>21, <3>0
    <3> QED BY <3>1, <3>2, <3>3
  <2>4. OwnFact(g[2], NextCall(t, h), i)
    BY <2>1, <2>2 DEF Tale
  <2>5. CASE t = "procinfo_self"
    <3>1. NextCall(t, h) = Exists(i) /\ NextCall(t, g) = Verdict(g[2].ret = 0)
      BY <1>1, <2>2, <2>20, <2>3, <2>5, SelfTests
    <3>2. g[2].ret = 0
      BY <2>2, <2>4, <3>1, Named DEF Plain, OwnFact
    <3> QED BY <3>1, <3>2, FailIs DEF Verdict
  <2>6. CASE t # "procinfo_self"
    <3>1. /\ NextCall(t, h) = Info(i)
          /\ t = "self_state_running" => NextCall(t, g) = Verdict(g[2].info.state = "RUNNING")
          /\ t = "self_size_positive" => NextCall(t, g) = Verdict(g[2].info.sz > 0)
          /\ t = "self_nfd_positive" => NextCall(t, g) = Verdict(g[2].info.nfd >= 3)
          /\ t = "self_ppid_positive" => NextCall(t, g) = Verdict(g[2].info.ppid > 0)
          /\ t = "state_valid_range" => NextCall(t, g) = Verdict(g[2].info.state \in ValidState)
      BY <1>1, <2>2, <2>20, <2>3, <2>6, SelfTests DEF Selves
    <3>2. /\ g[2].info.state = "RUNNING" /\ g[2].info.nfd >= 3 /\ g[2].info.sz > 0
          /\ g[2].info.ppid > 0
      BY <2>2, <2>4, <3>1, Named DEF Plain, OwnFact
    <3>3. "RUNNING" \in ValidState
      BY DEF ValidState
    <3> QED BY <2>6, <3>1, <3>2, <3>3, FailIs DEF Verdict, Selves
  <2> QED BY <2>5, <2>6
<1>4. \A len \in Nat : len = 0 \/ len = 1 \/ len >= 2
  OBVIOUS
<1> QED BY <1>1, <1>2, <1>3, <1>4

\* What getMaxPid tells does not shrink while the child of the test is there.
LEMMA MaxTestVerdict ==
  ASSUME NEW p \in Testers, prog[p] = MaxTest, TaleInv, ForksInv, ~ Starved(got[p])
  PROVE  Calling(p) # Fail
<1> DEFINE g == got[p]
<1>1. Answered(MaxTest, g) /\ p \in Slots
  BY TestsAreNamed DEF TaleInv, Tale
<1>2. Len(g) \in Nat /\ DOMAIN g = 1..Len(g)
  BY <1>1, AnswersAre
<1>3. CASE InChild(g)
  <2>1. Calling(p) = Exit_
    BY <1>2, <1>3, ForkedTests DEF Calling, MaxTest
  <2> QED BY <2>1, FailIs
<1>4. CASE ~ InChild(g)
  <2>1. Calling(p) =
          IF Len(g) = 0 THEN MaxPidCall ELSE IF Len(g) = 1 THEN Fork
          ELSE IF Len(g) = 2 THEN MaxPidCall ELSE IF Len(g) = 3 THEN Wait
          ELSE Verdict(g[3].ret >= g[1].ret)
    BY <1>2, <1>4, MaxPidTest DEF Calling, MaxTest
  <2>2. CASE Len(g) < 4
    <3>1. Calling(p) \in {MaxPidCall, Fork, Wait}
      <4>1. \A len \in Nat : len < 4 => len = 0 \/ len = 1 \/ len = 2 \/ len = 3
        OBVIOUS
      <4>2. Len(g) = 0 \/ Len(g) = 1 \/ Len(g) = 2 \/ Len(g) = 3
        BY <1>2, <2>2, <4>1
      <4> QED BY <2>1, <4>2
    <3> QED BY <3>1, FailIs
  <2>3. CASE Len(g) >= 4
    <3>1. 2 \in DOMAIN g
      BY <1>2, <2>3
    <3>2. Plain(g[2], Fork)
      BY <1>1, <1>4, <3>1, Said_maxpid_after_fork DEF MaxTest
    <3>3. g[2].call = "fork" /\ g[2].ret \in Int /\ g[2].ret >= -1
      BY <3>2, Named DEF Plain
    <3>4. g[2].ret # -1 /\ g[2].ret # 0
      BY <1>4, <3>1, <3>3 DEF Starved, InChild
    <3>5. AfterFork(p)
      BY <1>4 DEF ForksInv, Forks
    <3>6. g[3].ret >= g[1].ret
      BY <1>2, <2>3, <3>3, <3>4, <3>5 DEF AfterFork
    <3>7. Calling(p) = Verdict(g[3].ret >= g[1].ret)
      <4>1. \A len \in Nat : len >= 4 => len # 0 /\ len # 1 /\ len # 2 /\ len # 3
        OBVIOUS
      <4>2. Len(g) # 0 /\ Len(g) # 1 /\ Len(g) # 2 /\ Len(g) # 3
        BY <1>2, <2>3, <4>1
      <4> QED BY <2>1, <4>2
    <3> QED BY <3>6, <3>7, FailIs DEF Verdict
  <2> QED BY <1>2, <2>2, <2>3
<1> QED BY <1>3, <1>4

\* Where the child of test_child_ppid begins.
LEMMA ChildPpidForks ==
  ASSUME NEW g, Answered("child_ppid", g), InChild(g)
  PROVE  /\ Len(g) >= 2 /\ g[2].call = "fork" /\ g[2].ret = 0
         /\ g[1].call = "getpid" /\ Own(g) = {k \in DOMAIN g : k >= 2}
<1>1. DOMAIN g = 1..Len(g) /\ Len(g) \in Nat
  BY AnswersAre
<1>2. Len(g) >= 2
  BY SettledChildPpid
<1>3. g[1].call = "getpid"
  <2>1. "child_ppid" \in PidFirst /\ Len(g) > 0
    BY <1>1, <1>2 DEF PidFirst
  <2> QED BY <2>1, AsksPidFirst
<1>4. ASSUME NEW k \in DOMAIN g, g[k].call = "fork"
      PROVE  k = 2
  <2>1. k \in Nat /\ k >= 1 /\ k <= Len(g)
    BY <1>1
  <2>0. PICK h : AskedAt("child_ppid", g, k, h)
    BY <2>1, AnswerAt
  <2>2. Plain(g[k], NextCall("child_ppid", h)) /\ k = Len(h) + 1 /\ Len(h) \in Nat
    BY <2>0 DEF AskedAt
  <2>3. NextCall("child_ppid", h)[1] = "fork"
    BY <1>4, <2>2 DEF Plain
  <2>4. k # 1
    BY <1>3, <1>4
  <2>5. CASE InChild(h)
    <3>1. Len(h) >= 2 => NextCall("child_ppid", h) =
            IF Len(h) = 2 THEN Getpid ELSE IF Len(h) = 3 THEN Info(h[3].ret)
            ELSE Verdict(h[4].info.ppid = h[1].ret)
      BY <2>2, <2>5, ForkedTests
    <3>2. ~ (Len(h) >= 2)
      BY <2>3, <3>1, Named
    <3> QED BY <2>1, <2>2, <2>4, <3>2
  <2>6. CASE ~ InChild(h)
    <3>1. NextCall("child_ppid", h) =
            IF Len(h) = 0 THEN Getpid ELSE IF Len(h) = 1 THEN Fork
            ELSE IF Len(h) = 2 THEN Wait ELSE Pass
      BY <2>2, <2>6, ChildPpidTest
    <3>2. Len(h) = 1
      BY <2>3, <3>1, Named
    <3> QED BY <2>1, <2>2, <3>2
  <2> QED BY <2>5, <2>6
<1>5. PICK k \in DOMAIN g : g[k].call = "fork" /\ g[k].ret = 0
  BY DEF InChild
<1>6. k = 2
  BY <1>4, <1>5
<1>7. Own(g) = {j \in DOMAIN g : j >= 2}
  <2>1. ASSUME NEW j \in DOMAIN g
        PROVE  j \in Own(g) <=> j >= 2
    <3>1. j \in Nat /\ 2 \in DOMAIN g
      BY <1>1, <1>5, <1>6
    <3>2. j \in Own(g) => ~ (2 > j)
      BY <1>5, <1>6, <3>1 DEF Own
    <3>3. j >= 2 => j \in Own(g)
      <4>1. ASSUME j >= 2, NEW m \in DOMAIN g, m > j, g[m].call = "fork"
            PROVE  FALSE
        <5>1. m = 2
          BY <1>4, <4>1
        <5> QED BY <3>1, <4>1, <5>1
      <4> QED BY <4>1 DEF Own
    <3> QED BY <3>1, <3>2, <3>3
  <2> QED BY <2>1 DEF Own
<1> QED BY <1>2, <1>3, <1>5, <1>6, <1>7

\* Where the child of test_child_size begins.
LEMMA ChildSizeForks ==
  ASSUME NEW g, Answered("child_size", g), InChild(g)
  PROVE  /\ Len(g) >= 3 /\ g[3].call = "fork" /\ g[3].ret = 0
         /\ Own(g) = {k \in DOMAIN g : k >= 3}
<1>1. DOMAIN g = 1..Len(g) /\ Len(g) \in Nat
  BY AnswersAre
<1>2. Len(g) > 0 => g[1].call = "getpid"
  <2>1. "child_size" \in PidFirst
    BY DEF PidFirst
  <2> QED BY <2>1, AsksPidFirst
<1>3. ASSUME NEW k \in DOMAIN g, g[k].call = "fork"
      PROVE  k = 3
  <2>1. k \in Nat /\ k >= 1 /\ k <= Len(g)
    BY <1>1
  <2>0. PICK h : AskedAt("child_size", g, k, h)
    BY <2>1, AnswerAt
  <2>2. /\ Plain(g[k], NextCall("child_size", h))
        /\ k = Len(h) + 1 /\ Len(h) \in Nat /\ (h = <<>> <=> Len(h) = 0)
    BY <2>0 DEF AskedAt
  <2>3. NextCall("child_size", h)[1] = "fork"
    BY <1>3, <2>2 DEF Plain
  <2>4. k # 1
    BY <1>1, <1>2, <1>3
  <2>5. CASE ~ InChild(h)
    <3>1. NextCall("child_size", h) =
            IF Len(h) = 0 THEN Getpid ELSE IF Len(h) = 1 THEN Info(h[1].ret)
            ELSE IF Len(h) = 2 THEN Fork ELSE IF Len(h) = 3 THEN Wait ELSE Pass
      BY <2>2, <2>5, ChildSizeTest
    <3>2. Len(h) = 2
      BY <2>3, <3>1, Named
    <3> QED BY <2>1, <2>2, <3>2
  <2>6. CASE InChild(h)
    <3>1. Len(h) >= 3 => NextCall("child_size", h) =
            IF Len(h) = 3 THEN Getpid ELSE IF Len(h) = 4 THEN Info(h[4].ret)
            ELSE Verdict(h[5].info.sz > 0)
      BY <2>2, <2>6, ForkedTests
    <3>2. ~ (Len(h) >= 3)
      BY <2>3, <3>1, Named
    <3>3. k # 2
      <4>1. ASSUME k = 2
            PROVE  FALSE
        <5>0. AskedAt("child_size", g, 2, h) /\ 2 - 1 = 1
          BY <2>0, <4>1
        <5>1. DOMAIN h = 1..1 /\ h[1] = g[1]
          BY <5>0 DEF AskedAt
        <5>2. g[1].call = "getpid"
          BY <1>1, <1>2, <2>1, <4>1
        <5> QED BY <2>6, <5>1, <5>2 DEF InChild
      <4> QED BY <4>1
    <3> QED BY <2>1, <2>2, <2>4, <3>2, <3>3
  <2> QED BY <2>5, <2>6
<1>4. PICK k \in DOMAIN g : g[k].call = "fork" /\ g[k].ret = 0
  BY DEF InChild
<1>5. k = 3
  BY <1>3, <1>4
<1>6. Own(g) = {j \in DOMAIN g : j >= 3}
  <2>1. ASSUME NEW j \in DOMAIN g
        PROVE  j \in Own(g) <=> j >= 3
    <3>1. j \in Nat /\ 3 \in DOMAIN g
      BY <1>1, <1>4, <1>5
    <3>2. j \in Own(g) => ~ (3 > j)
      BY <1>4, <1>5, <3>1 DEF Own
    <3>3. j >= 3 => j \in Own(g)
      <4>1. ASSUME j >= 3, NEW m \in DOMAIN g, m > j, g[m].call = "fork"
            PROVE  FALSE
        <5>1. m = 3
          BY <1>3, <4>1
        <5> QED BY <3>1, <4>1, <5>1
      <4> QED BY <4>1 DEF Own
    <3> QED BY <3>1, <3>2, <3>3
  <2> QED BY <2>1 DEF Own
<1> QED BY <1>1, <1>4, <1>5, <1>6

\* The child sees its own size, and the parent passes whatever it is told.
LEMMA ChildSizeVerdict ==
  ASSUME NEW g, NEW i, Tale("child_size", g, i)
  PROVE  NextCall("child_size", g) # Fail
<1>0. Answered("child_size", g)
  BY DEF Tale
<1>1. DOMAIN g = 1..Len(g) /\ Len(g) \in Nat
  BY <1>0, AnswersAre
<1>4. \A len \in Nat : (4 = len + 1 => len = 3) /\ (5 = len + 1 => len = 4)
  OBVIOUS
<1>2. CASE ~ InChild(g)
  <2>1. g = <<>> <=> Len(g) = 0
    BY <1>0, AnswersAre
  <2>2. NextCall("child_size", g) =
           IF Len(g) = 0 THEN Getpid ELSE IF Len(g) = 1 THEN Info(g[1].ret)
           ELSE IF Len(g) = 2 THEN Fork ELSE IF Len(g) = 3 THEN Wait ELSE Pass
    BY <1>1, <1>2, <2>1, ChildSizeTest
  <2> QED BY <2>2, FailIs
<1>3. CASE InChild(g)
  <2>1. /\ Len(g) >= 3 /\ g[3].call = "fork" /\ g[3].ret = 0
        /\ Own(g) = {k \in DOMAIN g : k >= 3}
    BY <1>0, <1>3, ChildSizeForks
  <2>2. NextCall("child_size", g) =
          IF Len(g) = 3 THEN Getpid ELSE IF Len(g) = 4 THEN Info(g[4].ret)
          ELSE Verdict(g[5].info.sz > 0)
    BY <1>1, <1>3, <2>1, ForkedTests
  <2>3. CASE Len(g) = 3 \/ Len(g) = 4
    BY <2>2, <2>3, FailIs
  <2>4. CASE Len(g) >= 5
    <3>1. 4 \in Own(g) /\ 5 \in Own(g)
      BY <1>1, <2>1, <2>4
    <3>2. PICK h : AskedAt("child_size", g, 4, h)
      BY <1>0, <1>1, <2>4, AnswerAt
    <3>3. PICK f : AskedAt("child_size", g, 5, f)
      BY <1>0, <1>1, <2>4, AnswerAt
    <3>4. Len(h) = 3 /\ h[3] = g[3] /\ 3 \in DOMAIN h
      <4>1. DOMAIN h = 1..(4 - 1) /\ \A m \in 1..4 - 1 : h[m] = g[m]
        BY <3>2 DEF AskedAt
      <4>2. 4 = Len(h) + 1 /\ Len(h) \in Nat
        BY <3>2 DEF AskedAt
      <4>3. Len(h) = 3
        BY <1>4, <4>2
      <4> QED BY <4>1, <4>3
    <3>5. Len(f) = 4 /\ f[3] = g[3] /\ f[4] = g[4] /\ 3 \in DOMAIN f
      <4>1. DOMAIN f = 1..(5 - 1) /\ \A m \in 1..5 - 1 : f[m] = g[m]
        BY <3>3 DEF AskedAt
      <4>2. 5 = Len(f) + 1 /\ Len(f) \in Nat
        BY <3>3 DEF AskedAt
      <4>3. Len(f) = 4
        BY <1>4, <4>2
      <4> QED BY <4>1, <4>3
    <3>6. InChild(h) /\ InChild(f)
      BY <2>1, <3>4, <3>5 DEF InChild
    <3>7. NextCall("child_size", h) = Getpid
      BY <3>4, <3>6, ForkedTests
    <3>8. NextCall("child_size", f) = Info(g[4].ret)
      <4>1. Len(f) \in Nat /\ Len(f) >= 3 /\ Len(f) # 3
        BY <3>5
      <4> QED BY <3>5, <3>6, <4>1, ForkedTests
    <3>9. g[4].ret = i
      <4>1. OwnFact(g[4], Getpid, i) /\ Plain(g[4], Getpid)
        BY <3>1, <3>2, <3>7 DEF Tale, AskedAt
      <4> QED BY <4>1, Named DEF OwnFact, Plain
    <3>10. g[5].info.sz > 0
      <4>1. OwnFact(g[5], Info(i), i) /\ Plain(g[5], Info(i))
        BY <3>1, <3>3, <3>8, <3>9 DEF Tale, AskedAt
      <4> QED BY <4>1, Named DEF OwnFact, Plain
    <3>11. NextCall("child_size", g) = Verdict(g[5].info.sz > 0)
      <4>1. Len(g) # 3 /\ Len(g) # 4
        BY <1>1, <2>4
      <4> QED BY <2>2, <4>1
    <3> QED BY <3>10, <3>11, FailIs DEF Verdict
  <2>5. \A len \in Nat : len >= 3 => len = 3 \/ len = 4 \/ len >= 5
    OBVIOUS
  <2> QED BY <1>1, <2>1, <2>3, <2>4, <2>5
<1> QED BY <1>2, <1>3

\* A test that does not fork, and has the system to itself.
LEMMA QuietAnswers ==
  ASSUME NEW t \in Tests \ Forkers, NEW g, NEW i, NEW j, Answered(t, g),
         QuietTale(t, g, i, j), NEW k \in DOMAIN g
  PROVE  /\ g[k].call = "getNumProc" => g[k].ret = 2
         /\ g[k].call = "getMaxPid" => g[k].ret = i
         /\ g[k].call = "exists" => (g[k].ret = 0 <=> Call(t, g, k)[2] \in {1, i})
         /\ g[k].call = "getProcInfo" /\ g[k].ret = 0 => g[k].info.sz > 0
<1>1. ~ InChild(g)
  BY NeverForks
<1>2. Alone(g[k], Call(t, g, k), Prefix(g, k - 1), i)
  BY <1>1 DEF QuietTale
<1>3. ~ Owes(Prefix(g, k - 1))
  <2>1. k - 1 \in Nat /\ k - 1 <= Len(g)
    BY AskedBefore
  <2>2. Answered(t, Prefix(g, k - 1))
    BY <2>1, AnsweredPrefix
  <2> QED BY <2>2, NeverForks
<1> QED BY <1>2, <1>3 DEF Alone

Repeaters == {"maxpid_ge_numproc", "numproc_consistent", "maxpid_consistent"}

\* Nobody comes and nobody goes.
LEMMA RepeatingVerdicts ==
  ASSUME NEW t \in Repeaters, NEW g, NEW i \in Nat, i >= 2, NEW j, Answered(t, g),
         QuietTale(t, g, i, j)
  PROVE  NextCall(t, g) # Fail
<1>1. DOMAIN g = 1..Len(g) /\ Len(g) \in Nat
  BY AnswersAre
<1>2. t \in Tests \ Forkers
  BY DEF Repeaters, Tests, Quiet, Forkers
<1>3. \A k \in DOMAIN g : /\ g[k].call = "getNumProc" => g[k].ret = 2
                          /\ g[k].call = "getMaxPid" => g[k].ret = i
  BY <1>2, QuietAnswers
<1>4. ASSUME NEW k \in DOMAIN g
      PROVE  \E h : Len(h) \in Nat /\ k = Len(h) + 1 /\ g[k].call = NextCall(t, h)[1]
  <2>1. k \in Nat /\ k >= 1 /\ k <= Len(g)
    BY <1>1
  <2>2. PICK h : AskedAt(t, g, k, h)
    BY <2>1, AnswerAt
  <2> QED BY <2>2 DEF AskedAt, Plain
<1>5. \A len \in Nat : /\ len = 0 \/ len = 1 \/ len = 2 \/ len >= 3
                       /\ (1 = len + 1 => len = 0) /\ (2 = len + 1 => len = 1)
                       /\ (3 = len + 1 => len = 2) /\ (len >= 3 => len \notin {0, 1, 2})
                       /\ (len >= 1 => 1 \in 1..len) /\ (len >= 2 => 1 \in 1..len /\ 2 \in 1..len)
                       /\ (len >= 3 => 1 \in 1..len /\ 2 \in 1..len /\ 3 \in 1..len)
  OBVIOUS
<1>6. CASE t = "maxpid_ge_numproc"
  <2>1. NextCall(t, g) =
          IF Len(g) = 0 THEN Num ELSE IF Len(g) = 1 THEN MaxPidCall
          ELSE Verdict(g[2].ret >= g[1].ret)
    BY <1>1, <1>6, RepeatingTests
  <2>2. CASE Len(g) = 0 \/ Len(g) = 1
    BY <2>1, <2>2, FailIs
  <2>3. CASE Len(g) = 2 \/ Len(g) >= 3
    <3>1. 1 \in DOMAIN g /\ 2 \in DOMAIN g /\ Len(g) # 0 /\ Len(g) # 1
      BY <1>1, <1>5, <2>3
    <3>2. g[1].call = "getNumProc"
      <4>1. PICK h : Len(h) \in Nat /\ 1 = Len(h) + 1 /\ g[1].call = NextCall(t, h)[1]
        BY <1>4, <3>1
      <4> QED BY <1>5, <1>6, <4>1, RepeatingTests, Named
    <3>3. g[2].call = "getMaxPid"
      <4>1. PICK h : Len(h) \in Nat /\ 2 = Len(h) + 1 /\ g[2].call = NextCall(t, h)[1]
        BY <1>4, <3>1
      <4>2. Len(h) = 1
        BY <1>5, <4>1
      <4> QED BY <1>6, <4>1, <4>2, RepeatingTests, Named
    <3>4. g[1].ret = 2 /\ g[2].ret = i
      BY <1>3, <3>1, <3>2, <3>3
    <3>5. NextCall(t, g) = Verdict(g[2].ret >= g[1].ret)
      BY <2>1, <3>1
    <3> QED BY <3>4, <3>5, FailIs DEF Verdict
  <2> QED BY <1>1, <1>5, <2>2, <2>3
<1>7. CASE t = "numproc_consistent"
  <2>1. NextCall(t, g) =
          IF Len(g) = 0 THEN Num ELSE IF Len(g) = 1 THEN Num
          ELSE IF Len(g) = 2 THEN Num
          ELSE Verdict(g[1].ret = g[2].ret /\ g[2].ret = g[3].ret)
    BY <1>1, <1>7, RepeatingTests
  <2>2. CASE Len(g) = 0 \/ Len(g) = 1 \/ Len(g) = 2
    BY <2>1, <2>2, FailIs
  <2>3. CASE Len(g) >= 3
    <3>1. {1, 2, 3} \subseteq DOMAIN g /\ Len(g) \notin {0, 1, 2}
      BY <1>1, <1>5, <2>3
    <3>2. \A k \in {1, 2, 3} : g[k].call = "getNumProc"
      <4>1. ASSUME NEW k \in {1, 2, 3}
            PROVE  g[k].call = "getNumProc"
        <5>1. PICK h : Len(h) \in Nat /\ k = Len(h) + 1 /\ g[k].call = NextCall(t, h)[1]
          BY <1>4, <3>1, <4>1
        <5>2. Len(h) = 0 \/ Len(h) = 1 \/ Len(h) = 2
          BY <1>5, <4>1, <5>1
        <5>3. NextCall(t, h) = Num
          BY <1>7, <5>1, <5>2, RepeatingTests
        <5> QED BY <5>1, <5>3, Named
      <4> QED BY <4>1
    <3>3. g[1].ret = 2 /\ g[2].ret = 2 /\ g[3].ret = 2
      BY <1>3, <3>1, <3>2
    <3>4. NextCall(t, g) = Verdict(g[1].ret = g[2].ret /\ g[2].ret = g[3].ret)
      BY <2>1, <3>1
    <3> QED BY <3>3, <3>4, FailIs DEF Verdict
  <2> QED BY <1>1, <1>5, <2>2, <2>3
<1>8. CASE t = "maxpid_consistent"
  <2>1. NextCall(t, g) =
          IF Len(g) = 0 THEN MaxPidCall ELSE IF Len(g) = 1 THEN MaxPidCall
          ELSE IF Len(g) = 2 THEN MaxPidCall
          ELSE Verdict(g[1].ret = g[2].ret /\ g[2].ret = g[3].ret)
    BY <1>1, <1>8, RepeatingTests
  <2>2. CASE Len(g) = 0 \/ Len(g) = 1 \/ Len(g) = 2
    BY <2>1, <2>2, FailIs
  <2>3. CASE Len(g) >= 3
    <3>1. {1, 2, 3} \subseteq DOMAIN g /\ Len(g) \notin {0, 1, 2}
      BY <1>1, <1>5, <2>3
    <3>2. \A k \in {1, 2, 3} : g[k].call = "getMaxPid"
      <4>1. ASSUME NEW k \in {1, 2, 3}
            PROVE  g[k].call = "getMaxPid"
        <5>1. PICK h : Len(h) \in Nat /\ k = Len(h) + 1 /\ g[k].call = NextCall(t, h)[1]
          BY <1>4, <3>1, <4>1
        <5>2. Len(h) = 0 \/ Len(h) = 1 \/ Len(h) = 2
          BY <1>5, <4>1, <5>1
        <5>3. NextCall(t, h) = MaxPidCall
          BY <1>8, <5>1, <5>2, RepeatingTests
        <5> QED BY <5>1, <5>3, Named
      <4> QED BY <4>1
    <3>3. g[1].ret = i /\ g[2].ret = i /\ g[3].ret = i
      BY <1>3, <3>1, <3>2
    <3>4. NextCall(t, g) = Verdict(g[1].ret = g[2].ret /\ g[2].ret = g[3].ret)
      BY <2>1, <3>1
    <3> QED BY <3>3, <3>4, FailIs DEF Verdict
  <2> QED BY <1>1, <1>5, <2>2, <2>3
<1> QED BY <1>6, <1>7, <1>8 DEF Repeaters

\* Where the child is waited for, and where it is there.
LEMMA ForkVerdict ==
  ASSUME NEW g, NEW i, NEW j, Answered("fork_increases_numproc", g),
         QuietTale("fork_increases_numproc", g, i, j), ~ Starved(g)
  PROVE  NextCall("fork_increases_numproc", g) # Fail
<1> DEFINE t == "fork_increases_numproc"
<1>1. DOMAIN g = 1..Len(g) /\ Len(g) \in Nat
  BY AnswersAre
<1>2. CASE InChild(g)
  BY <1>1, <1>2, ForkedTests, FailIs
<1>3. CASE ~ InChild(g)
  <2>1. NextCall(t, g) =
          IF Len(g) = 0 THEN Num ELSE IF Len(g) = 1 THEN Fork
          ELSE IF Len(g) = 2 THEN Num ELSE IF Len(g) = 3 THEN Wait
          ELSE Verdict(g[3].ret > g[1].ret)
    BY <1>1, <1>3, ForkTest
  <2>2. \A len \in Nat : /\ len \in 0..3 \/ len >= 4
                         /\ len \in 0..3 <=> len \in {0, 1, 2, 3}
                         /\ len >= 4 => len \notin 0..3 /\ {1, 2, 3} \subseteq 1..len
    OBVIOUS
  <2>3. CASE Len(g) \in 0..3
    <3>1. NextCall(t, g) \in {Num, Fork, Wait}
      BY <1>1, <2>1, <2>2, <2>3
    <3> QED BY <3>1, FailIs
  <2>4. CASE Len(g) >= 4
    <3>1. {1, 2, 3} \subseteq DOMAIN g /\ Len(g) \notin {0, 1, 2, 3}
      BY <1>1, <2>2, <2>4
    <3>2. Plain(g[1], Num) /\ Plain(g[2], Fork) /\ Plain(g[3], Num)
      BY <1>3, <3>1, Said_fork_increases_numproc
    <3>3. /\ g[1].call = "getNumProc" /\ g[3].call = "getNumProc"
          /\ g[2].call = "fork" /\ g[2].ret \in Int /\ g[2].ret >= -1
      BY <3>2, Named DEF Plain
    <3>4. g[2].ret > 0
      <4>1. g[2].ret # -1 /\ g[2].ret # 0
        BY <1>3, <3>1, <3>3 DEF Starved, InChild
      <4> QED BY <3>3, <4>1
    <3>5. ~ Owes(Prefix(g, 1 - 1))
      BY DEF Owes, Prefix
    <3>6. Owes(Prefix(g, 3 - 1))
      <4>1. DOMAIN Prefix(g, 3 - 1) = 1..2 /\ Prefix(g, 3 - 1)[2] = g[2]
        BY DEF Prefix
      <4> QED BY <3>3, <3>4, <4>1 DEF Owes
    <3>7. g[1].ret = 2 /\ g[3].ret = 3
      BY <1>3, <3>1, <3>3, <3>5, <3>6 DEF QuietTale, Alone
    <3>8. NextCall(t, g) = Verdict(g[3].ret > g[1].ret)
      BY <2>1, <3>1
    <3> QED BY <3>7, <3>8, FailIs DEF Verdict
  <2> QED BY <1>1, <2>2, <2>3, <2>4
<1> QED BY <1>2, <1>3

LEMMA WaitVerdict ==
  ASSUME NEW g, NEW i, NEW j, Answered("wait_decreases_numproc", g),
         QuietTale("wait_decreases_numproc", g, i, j), ~ Starved(g)
  PROVE  NextCall("wait_decreases_numproc", g) # Fail
<1> DEFINE t == "wait_decreases_numproc"
<1>1. DOMAIN g = 1..Len(g) /\ Len(g) \in Nat
  BY AnswersAre
<1>2. CASE InChild(g)
  BY <1>1, <1>2, ForkedTests, FailIs
<1>3. CASE ~ InChild(g)
  <2>1. NextCall(t, g) =
          IF Len(g) = 0 THEN Fork ELSE IF Len(g) = 1 THEN Num
          ELSE IF Len(g) = 2 THEN Wait ELSE IF Len(g) = 3 THEN Num
          ELSE Verdict(g[4].ret < g[2].ret)
    BY <1>1, <1>3, WaitTest
  <2>2. \A len \in Nat : /\ len \in 0..3 \/ len >= 4
                         /\ len \in 0..3 <=> len \in {0, 1, 2, 3}
                         /\ len >= 4 => len \notin 0..3 /\ {1, 2, 3, 4} \subseteq 1..len
    OBVIOUS
  <2>3. CASE Len(g) \in 0..3
    <3>1. NextCall(t, g) \in {Num, Fork, Wait}
      BY <1>1, <2>1, <2>2, <2>3
    <3> QED BY <3>1, FailIs
  <2>4. CASE Len(g) >= 4
    <3>1. {1, 2, 3, 4} \subseteq DOMAIN g /\ Len(g) \notin {0, 1, 2, 3}
      BY <1>1, <2>2, <2>4
    <3>2. Plain(g[1], Fork) /\ Plain(g[2], Num) /\ Plain(g[3], Wait) /\ Plain(g[4], Num)
      BY <1>3, <3>1, Said_wait_decreases_numproc
    <3>3. /\ g[2].call = "getNumProc" /\ g[4].call = "getNumProc" /\ g[3].call = "wait"
          /\ g[1].call = "fork" /\ g[1].ret \in Int /\ g[1].ret >= -1
      BY <3>2, Named DEF Plain
    <3>4. g[1].ret > 0
      <4>1. g[1].ret # -1 /\ g[1].ret # 0
        BY <1>3, <3>1, <3>3 DEF Starved, InChild
      <4> QED BY <3>3, <4>1
    <3>5. Owes(Prefix(g, 2 - 1))
      <4>1. DOMAIN Prefix(g, 2 - 1) = 1..1 /\ Prefix(g, 2 - 1)[1] = g[1]
        BY DEF Prefix
      <4> QED BY <3>3, <3>4, <4>1 DEF Owes
    <3>6. ~ Owes(Prefix(g, 4 - 1))
      <4>1. /\ DOMAIN Prefix(g, 4 - 1) = 1..3 /\ Prefix(g, 4 - 1)[3] = g[3]
        BY DEF Prefix
      <4>2. \A m \in 1..3 : m > 3 => FALSE
        OBVIOUS
      <4> QED BY <3>3, <4>1, <4>2, Waited
    <3>7. g[2].ret = 3 /\ g[4].ret = 2
      BY <1>3, <3>1, <3>3, <3>5, <3>6 DEF QuietTale, Alone
    <3>8. NextCall(t, g) = Verdict(g[4].ret < g[2].ret)
      BY <2>1, <3>1
    <3> QED BY <3>7, <3>8, FailIs DEF Verdict
  <2> QED BY <1>1, <2>2, <2>3, <2>4
<1> QED BY <1>2, <1>3

\* The child names the parent's pid, which the parent has asked for.
LEMMA ChildPpidVerdict ==
  ASSUME NEW g, NEW i, NEW j, Tale("child_ppid", g, i), QuietTale("child_ppid", g, i, j)
  PROVE  NextCall("child_ppid", g) # Fail
<1>0. Answered("child_ppid", g)
  BY DEF Tale
<1>1. DOMAIN g = 1..Len(g) /\ Len(g) \in Nat
  BY <1>0, AnswersAre
<1>2. CASE ~ InChild(g)
  <2>1. NextCall("child_ppid", g) \in {Getpid, Fork, Wait, Pass}
    BY <1>1, <1>2, ChildPpidTest
  <2> QED BY <2>1, FailIs
<1>4. \A len \in Nat : /\ (3 = len + 1 => len = 2) /\ (4 = len + 1 => len = 3)
                       /\ len >= 2 => len = 2 \/ len = 3 \/ len >= 4
                       /\ len >= 4 => len \notin {2, 3} /\ {1, 2, 3, 4} \subseteq 1..len
  OBVIOUS
<1>3. CASE InChild(g)
  <2>1. /\ Len(g) >= 2 /\ g[2].call = "fork" /\ g[2].ret = 0
        /\ g[1].call = "getpid" /\ Own(g) = {k \in DOMAIN g : k >= 2}
    BY <1>0, <1>3, ChildPpidForks
  <2>2. NextCall("child_ppid", g) =
          IF Len(g) = 2 THEN Getpid ELSE IF Len(g) = 3 THEN Info(g[3].ret)
          ELSE Verdict(g[4].info.ppid = g[1].ret)
    BY <1>1, <1>3, <2>1, ForkedTests
  <2>3. CASE Len(g) = 2 \/ Len(g) = 3
    BY <2>2, <2>3, FailIs
  <2>4. CASE Len(g) >= 4
    <3>0. {1, 2, 3, 4} \subseteq DOMAIN g /\ Len(g) \notin {2, 3}
      BY <1>1, <1>4, <2>4
    <3>1. 3 \in Own(g) /\ 4 \in Own(g) /\ 1 \in DOMAIN g \ Own(g)
      BY <2>1, <3>0
    <3>2. PICK h : AskedAt("child_ppid", g, 3, h)
      BY <1>0, <1>1, <2>4, AnswerAt
    <3>3. PICK f : AskedAt("child_ppid", g, 4, f)
      BY <1>0, <1>1, <2>4, AnswerAt
    <3>4. Len(h) = 2 /\ h[2] = g[2] /\ 2 \in DOMAIN h
      <4>1. DOMAIN h = 1..(3 - 1) /\ \A m \in 1..3 - 1 : h[m] = g[m]
        BY <3>2 DEF AskedAt
      <4>2. 3 = Len(h) + 1 /\ Len(h) \in Nat
        BY <3>2 DEF AskedAt
      <4>3. Len(h) = 2
        BY <1>4, <4>2
      <4> QED BY <4>1, <4>3
    <3>5. Len(f) = 3 /\ f[2] = g[2] /\ f[3] = g[3] /\ 2 \in DOMAIN f
      <4>1. DOMAIN f = 1..(4 - 1) /\ \A m \in 1..4 - 1 : f[m] = g[m]
        BY <3>3 DEF AskedAt
      <4>2. 4 = Len(f) + 1 /\ Len(f) \in Nat
        BY <3>3 DEF AskedAt
      <4>3. Len(f) = 3
        BY <1>4, <4>2
      <4> QED BY <4>1, <4>3
    <3>6. InChild(h) /\ InChild(f)
      BY <2>1, <3>4, <3>5 DEF InChild
    <3>7. NextCall("child_ppid", h) = Getpid
      BY <3>4, <3>6, ForkedTests
    <3>8. NextCall("child_ppid", f) = Info(g[3].ret)
      <4>1. Len(f) \in Nat /\ Len(f) >= 2 /\ Len(f) # 2
        BY <3>5
      <4> QED BY <3>5, <3>6, <4>1, ForkedTests
    <3>9. g[3].ret = i
      <4>1. OwnFact(g[3], Getpid, i) /\ Plain(g[3], Getpid)
        BY <3>1, <3>2, <3>7 DEF Tale, AskedAt
      <4> QED BY <4>1, Named DEF OwnFact, Plain
    <3>10. g[4].info.ppid = j
      <4>1. Call("child_ppid", g, 4) = Info(i) /\ Plain(g[4], Info(i))
        BY <3>3, <3>8, <3>9 DEF AskedAt
      <4>2. g[4].call = "getProcInfo" /\ Call("child_ppid", g, 4)[2] = i
        BY <4>1, Named DEF Plain
      <4> QED BY <3>1, <4>2 DEF QuietTale
    <3>11. g[1].ret = j
      BY <2>1, <3>1 DEF QuietTale
    <3>12. NextCall("child_ppid", g) = Verdict(g[4].info.ppid = g[1].ret)
      BY <2>2, <3>0
    <3> QED BY <3>10, <3>11, <3>12, FailIs DEF Verdict
  <2> QED BY <1>1, <1>4, <2>1, <2>3, <2>4
<1> QED BY <1>2, <1>3

LEMMA RapidVerdict ==
  ASSUME NEW g, Answered("rapid_fork_exit", g), ~ Starved(g)
  PROVE  NextCall("rapid_fork_exit", g) # Fail
<1>1. DOMAIN g = 1..Len(g) /\ Len(g) \in Nat
  BY AnswersAre
<1>2. CASE InChild(g)
  BY <1>1, <1>2, ForkedTests, FailIs
<1>3. CASE ~ InChild(g)
  <2>1. NextCall("rapid_fork_exit", g) =
           IF Len(g) < 2 * NumRounds
                THEN IF (Len(g) + 1) % 2 = 1 THEN Fork ELSE Wait
           ELSE IF Len(g) = 2 * NumRounds THEN Num
           ELSE IF Len(g) = 2 * NumRounds + 1 THEN MaxPidCall
           ELSE Verdict(g[2 * NumRounds + 1].ret > 0 /\ g[2 * NumRounds + 2].ret > 0)
    BY <1>1, <1>3, RapidForkExit
  <2>2. CASE Len(g) < 2 * NumRounds \/ Len(g) = 2 * NumRounds \/ Len(g) = 2 * NumRounds + 1
    <3>1. NextCall("rapid_fork_exit", g) \in {Fork, Wait, Num, MaxPidCall}
      BY <2>1, <2>2
    <3> QED BY <3>1, FailIs
  <2>3. CASE Len(g) >= 2 * NumRounds + 2
    <3>1. 2 * NumRounds + 1 \in DOMAIN g /\ 2 * NumRounds + 2 \in DOMAIN g
      BY <1>1, <2>3, RoundsAssumption
    <3>2. Plain(g[2 * NumRounds + 1], Num) /\ Plain(g[2 * NumRounds + 2], MaxPidCall)
      BY <1>3, <3>1, Said_rapid_fork_exit
    <3>3. g[2 * NumRounds + 1].ret > 0 /\ g[2 * NumRounds + 2].ret > 0
      BY <3>2, Named DEF Plain
    <3>4. NextCall("rapid_fork_exit", g) =
            Verdict(g[2 * NumRounds + 1].ret > 0 /\ g[2 * NumRounds + 2].ret > 0)
      <4>1. \A len \in Nat : len >= 2 * NumRounds + 2 =>
              ~ (len < 2 * NumRounds) /\ len # 2 * NumRounds /\ len # 2 * NumRounds + 1
        BY RoundsAssumption
      <4>2. /\ ~ (Len(g) < 2 * NumRounds) /\ Len(g) # 2 * NumRounds
            /\ Len(g) # 2 * NumRounds + 1
        BY <1>1, <2>3, <4>1
      <4> QED BY <2>1, <4>2
    <3> QED BY <3>3, <3>4, FailIs DEF Verdict
  <2>4. \A len \in Nat : \/ len < 2 * NumRounds \/ len = 2 * NumRounds
                         \/ len = 2 * NumRounds + 1 \/ len >= 2 * NumRounds + 2
    BY RoundsAssumption
  <2> QED BY <1>1, <2>2, <2>3, <2>4
<1> QED BY <1>2, <1>3

\* A test that looks at its files or its pages sees what it has done to them.
LEMMA ImageVerdicts ==
  ASSUME NEW t \in Watchers, NEW g, NEW i, NEW j, NEW m, NEW s, Tale(t, g, i),
         QuietTale(t, g, i, j), ImageTold(t, g, m, s), ~ Starved(g)
  PROVE  NextCall(t, g) # Fail
<1>0. Answered(t, g)
  BY DEF Tale
<1>1. DOMAIN g = 1..Len(g) /\ Len(g) \in Nat
  BY <1>0, AnswersAre
<1>2. g = <<>> <=> Len(g) = 0
  BY <1>0, AnswersAre
<1>3. \A len \in Nat : /\ len \in {0, 1, 2, 3} \/ len = 4 \/ len >= 5
                       /\ len = 4 => len \notin {0, 1, 2, 3} /\ len >= 4
                       /\ len >= 5 => len \notin {0, 1, 2, 3, 4} /\ len >= 4
                       /\ len >= 4 => {1, 2, 3, 4} \subseteq 1..len /\ len > 0
  OBVIOUS
<1>4. CASE t = "open_increases_nfd"
  <2>1. NextCall(t, g) =
           IF Len(g) = 0 THEN Getpid ELSE IF Len(g) = 1 THEN Info(g[1].ret)
           ELSE IF Len(g) = 2 THEN Open ELSE IF Len(g) = 3 THEN Info(g[1].ret)
           ELSE IF Len(g) = 4 THEN Close
           ELSE Verdict(g[4].info.nfd = g[2].info.nfd + 1)
    BY <1>1, <1>2, <1>4, OpenTest
  <2>2. CASE Len(g) \in {0, 1, 2, 3} \/ Len(g) = 4
    BY <2>1, <2>2, FailIs
  <2>3. CASE Len(g) >= 5
    <3>1. g[4].info.nfd = g[2].info.nfd + 1
      BY <1>1, <1>3, <1>4, <2>3 DEF ImageTold, OpenTold
    <3>2. NextCall(t, g) = Verdict(g[4].info.nfd = g[2].info.nfd + 1)
      BY <1>1, <1>3, <2>1, <2>3
    <3> QED BY <3>1, <3>2, FailIs DEF Verdict
  <2> QED BY <1>1, <1>3, <2>2, <2>3
<1>5. CASE t = "close_decreases_nfd"
  <2>1. NextCall(t, g) =
           IF Len(g) = 0 THEN Getpid ELSE IF Len(g) = 1 THEN Open
           ELSE IF Len(g) = 2 THEN Info(g[1].ret) ELSE IF Len(g) = 3 THEN Close
           ELSE IF Len(g) = 4 THEN Info(g[1].ret)
           ELSE Verdict(g[5].info.nfd = g[3].info.nfd - 1)
    BY <1>1, <1>2, <1>5, CloseTest
  <2>2. CASE Len(g) \in {0, 1, 2, 3} \/ Len(g) = 4
    BY <2>1, <2>2, FailIs
  <2>3. CASE Len(g) >= 5
    <3>1. g[5].info.nfd = g[3].info.nfd - 1
      BY <1>5, <2>3 DEF ImageTold, CloseTold
    <3>2. NextCall(t, g) = Verdict(g[5].info.nfd = g[3].info.nfd - 1)
      BY <1>1, <1>3, <2>1, <2>3
    <3> QED BY <3>1, <3>2, FailIs DEF Verdict
  <2> QED BY <1>1, <1>3, <2>2, <2>3
<1>6. CASE t = "sbrk_changes_size"
  <2>1. NextCall(t, g) =
           IF Len(g) = 0 THEN Getpid ELSE IF Len(g) = 1 THEN Info(g[1].ret)
           ELSE IF Len(g) = 2 THEN Sbrk ELSE IF Len(g) = 3 THEN Info(g[1].ret)
           ELSE Verdict(g[4].info.sz > g[2].info.sz)
    BY <1>1, <1>2, <1>6, SbrkTest
  <2>2. CASE Len(g) \in {0, 1, 2, 3}
    BY <2>1, <2>2, FailIs
  <2>3. CASE Len(g) = 4 \/ Len(g) >= 5
    <3>1. g[4].info.sz > g[2].info.sz
      BY <1>1, <1>3, <1>6, <2>3 DEF ImageTold, SbrkTold
    <3>2. NextCall(t, g) = Verdict(g[4].info.sz > g[2].info.sz)
      BY <1>1, <1>3, <2>1, <2>3
    <3> QED BY <3>1, <3>2, FailIs DEF Verdict
  <2> QED BY <1>1, <1>3, <2>2, <2>3
<1>7. CASE t = "procinfo_consistency"
  <2>1. PICK ok \in BOOLEAN :
           /\ NextCall(t, g) =
                IF Len(g) = 0 THEN Getpid ELSE IF Len(g) = 1 THEN Info(g[1].ret)
                ELSE IF Len(g) = 2 THEN Info(g[1].ret) ELSE IF Len(g) = 3 THEN Info(g[1].ret)
                ELSE Verdict(ok)
           /\ ok <=> /\ g[3].info.ppid = g[2].info.ppid /\ g[3].info.sz = g[2].info.sz
                     /\ g[4].info.ppid = g[2].info.ppid /\ g[4].info.sz = g[2].info.sz
    BY <1>1, <1>2, <1>7, ConsistencyTest
  <2>2. CASE Len(g) \in {0, 1, 2, 3}
    BY <2>1, <2>2, FailIs
  <2>3. CASE Len(g) = 4 \/ Len(g) >= 5
    <3>1. Len(g) >= 4 /\ Len(g) > 0 /\ {1, 2, 3, 4} \subseteq DOMAIN g
      BY <1>1, <1>3, <2>3
    <3>2. g[1].ret = i /\ Own(g) = DOMAIN g
      <4>1. t \in PidFirst \ Forkers /\ t \in Tests
        BY <1>7 DEF PidFirst, Forkers, Tests, Quiet
      <4> QED BY <3>1, <4>1, FirstIsOwnPid
    <3>3. ASSUME NEW k \in {2, 3, 4}
          PROVE  g[k].info.ppid = j /\ g[k].info.sz = s
      <4>1. k \in Nat /\ k >= 1 /\ k <= Len(g) /\ k >= 2
        BY <1>1, <3>1, <3>3
      <4>2. PICK h : AskedAt(t, g, k, h)
        BY <1>0, <4>1, AnswerAt
      <4>3. k = Len(h) + 1 /\ Len(h) \in Nat
        BY <4>2 DEF AskedAt
      <4>40. \A len \in Nat, l \in Nat :
               l = len + 1 /\ l \in {2, 3, 4} => len \in {1, 2, 3} /\ 1 \in 1..l - 1
        OBVIOUS
      <4>4. Len(h) \in {1, 2, 3} /\ 1 \in 1..k - 1
        BY <3>3, <4>1, <4>3, <4>40
      <4>5. h[1].ret = i
        BY <3>2, <4>2, <4>4 DEF AskedAt
      <4>6. h = <<>> <=> Len(h) = 0
        BY <4>2 DEF AskedAt
      <4>7. NextCall(t, h) = Info(i)
        BY <1>7, <4>3, <4>4, <4>5, <4>6, ConsistencyTest
      <4>8. Plain(g[k], Info(i)) /\ Call(t, g, k) = Info(i) /\ k \in Own(g)
        BY <3>2, <4>2, <4>7 DEF AskedAt
      <4>9. g[k].info.ppid = j
        BY <4>8, Named DEF Plain, QuietTale
      <4>10. g[k].info.sz = s
        BY <1>7, <3>2, <4>1, <4>8 DEF ImageTold, SameTold
      <4> QED BY <4>9, <4>10
    <3>4. /\ g[2].info.ppid = j /\ g[2].info.sz = s
          /\ g[3].info.ppid = j /\ g[3].info.sz = s
          /\ g[4].info.ppid = j /\ g[4].info.sz = s
      BY <3>3
    <3>5. ok
      BY <2>1, <3>4
    <3>6. NextCall(t, g) = Verdict(ok)
      BY <1>1, <1>3, <2>1, <2>3
    <3> QED BY <3>5, <3>6, FailIs DEF Verdict
  <2> QED BY <1>1, <1>3, <2>2, <2>3
<1> QED BY <1>4, <1>5, <1>6, <1>7 DEF Watchers

\* The two tests that ask for every pid up to the largest.
AllAskers == {"query_all_pids", "numproc_matches_count"}

LEMMA AskersFirst ==
  ASSUME NEW t \in AllAskers, NEW g, NEW i, NEW j, Answered(t, g), QuietTale(t, g, i, j),
         Len(g) > 0
  PROVE  g[1].ret = i
<1>1. DOMAIN g = 1..Len(g) /\ Len(g) \in Nat
  BY AnswersAre
<1>2. PICK h : AskedAt(t, g, 1, h)
  BY <1>1, AnswerAt
<1>3. 1 = Len(h) + 1 /\ Len(h) \in Nat /\ 1 \in DOMAIN g /\ Plain(g[1], NextCall(t, h))
  BY <1>2 DEF AskedAt
<1>4. Len(h) = 0
  BY <1>3
<1>5. h = <<>> <=> Len(h) = 0
  BY <1>2 DEF AskedAt
<1>6. NextCall(t, h) = MaxPidCall
  <2>1. Len(h) > 0 => h[1].ret \in Nat
    BY <1>4
  <2> QED BY <1>3, <1>4, <1>5, <2>1, AskingTests DEF AllAskers
<1>7. g[1].call = "getMaxPid"
  BY <1>3, <1>6, Named DEF Plain
<1>8. t \in Tests \ Forkers
  BY DEF AllAskers, Tests, Quiet, Forkers
<1> QED BY <1>3, <1>7, <1>8, QuietAnswers

LEMMA QueryVerdict ==
  ASSUME NEW g, NEW i \in Nat, i >= 2, NEW j, Answered("query_all_pids", g),
         QuietTale("query_all_pids", g, i, j)
  PROVE  NextCall("query_all_pids", g) # Fail
<1> DEFINE t == "query_all_pids"
<1>1. DOMAIN g = 1..Len(g) /\ Len(g) \in Nat
  BY AnswersAre
<1>2. g = <<>> <=> Len(g) = 0
  BY AnswersAre
<1>3. t \in AllAskers /\ t \in Tests \ Forkers
  BY DEF AllAskers, Tests, Quiet, Forkers
<1>4. Len(g) > 0 => g[1].ret = i
  BY <1>3, AskersFirst
<1>5. CASE Len(g) = 0
  <2>1. Len(g) > 0 => g[1].ret \in Nat
    BY <1>5
  <2>2. NextCall(t, g) = MaxPidCall
    BY <1>1, <1>2, <1>5, <2>1, AskingTests
  <2> QED BY <2>2, FailIs
<1>6. CASE Len(g) > 0
  <2>1. NextCall(t, g) =
            IF Len(g) <= i THEN Info(Len(g))
            ELSE Verdict(/\ {k \in 2..Len(g) : g[k].ret = 0} # {}
                         /\ \A k \in {k \in 2..Len(g) : g[k].ret = 0} :
                              /\ g[k].info.state \in ValidState
                              /\ g[k].info.sz > 0 /\ g[k].info.nfd >= 0)
    BY <1>1, <1>2, <1>4, <1>6, AskingTests
  <2>2. CASE Len(g) <= i
    BY <2>1, <2>2, FailIs
  <2>3. CASE ~ (Len(g) <= i)
    <3>1. ASSUME NEW k \in 2..Len(g)
          PROVE  Plain(g[k], Info(k - 1)) /\ k \in DOMAIN g
      <4>1. k \in Nat /\ k >= 1 /\ k <= Len(g) /\ k \in DOMAIN g /\ 1 \in 1..k - 1
        BY <1>1, <3>1
      <4>2. PICK h : AskedAt(t, g, k, h)
        BY <4>1, AnswerAt
      <4>3. k = Len(h) + 1 /\ Len(h) \in Nat /\ Plain(g[k], NextCall(t, h))
        BY <4>2 DEF AskedAt
      <4>4. Len(h) = k - 1 /\ Len(h) > 0
        BY <3>1, <4>3
      <4>5. h[1].ret = i
        BY <1>4, <1>6, <4>1, <4>2 DEF AskedAt
      <4>6. h = <<>> <=> Len(h) = 0
        BY <4>2 DEF AskedAt
      <4>7. NextCall(t, h) = Info(k - 1) \/ NextCall(t, h) \in {Pass, Fail}
        BY <4>3, <4>4, <4>5, <4>6, AskingTests, Named
      <4>8. NextCall(t, h)[1] \in Returning
        BY <4>3 DEF Plain
      <4> QED BY <4>1, <4>3, <4>7, <4>8, FailIs
    <3>2. 2 \in 2..Len(g)
      BY <1>1, <2>3
    <3>3. g[2].ret = 0
      <4>1. Plain(g[2], Info(2 - 1)) /\ 2 - 1 = 1
        BY <3>1, <3>2
      <4> QED BY <4>1, Named DEF Plain
    <3>4. ASSUME NEW k \in 2..Len(g), g[k].ret = 0
          PROVE  /\ g[k].info.state \in ValidState
                 /\ g[k].info.sz > 0 /\ g[k].info.nfd >= 0
      <4>1. Plain(g[k], Info(k - 1)) /\ k \in DOMAIN g
        BY <3>1
      <4>2. /\ g[k].call = "getProcInfo" /\ g[k].info.state \in ValidState
            /\ g[k].info.nfd \in Nat
        BY <3>4, <4>1, Named DEF Plain
      <4>3. g[k].info.sz > 0
        BY <1>3, <3>4, <4>1, <4>2, QuietAnswers
      <4> QED BY <4>2, <4>3
    <3> DEFINE ok == /\ {k \in 2..Len(g) : g[k].ret = 0} # {}
                     /\ \A k \in {k \in 2..Len(g) : g[k].ret = 0} :
                          /\ g[k].info.state \in ValidState
                          /\ g[k].info.sz > 0 /\ g[k].info.nfd >= 0
    <3>5. ok
      BY <3>2, <3>3, <3>4
    <3>6. NextCall(t, g) = Verdict(ok)
      BY <2>1, <2>3
    <3> HIDE DEF ok
    <3> QED BY <3>5, <3>6, FailIs DEF Verdict
  <2> QED BY <2>2, <2>3
<1> QED BY <1>1, <1>5, <1>6

LEMMA MatchVerdict ==
  ASSUME NEW g, NEW i \in Nat, i >= 2, NEW j, Answered("numproc_matches_count", g),
         QuietTale("numproc_matches_count", g, i, j)
  PROVE  NextCall("numproc_matches_count", g) # Fail
<1> DEFINE t == "numproc_matches_count"
           found == {k \in DOMAIN g : g[k].call = "exists" /\ g[k].ret = 0}
<1>1. DOMAIN g = 1..Len(g) /\ Len(g) \in Nat
  BY AnswersAre
<1>2. g = <<>> <=> Len(g) = 0
  BY AnswersAre
<1>3. t \in AllAskers /\ t \in Tests \ Forkers
  BY DEF AllAskers, Tests, Quiet, Forkers
<1>4. Len(g) > 0 => g[1].ret = i
  BY <1>3, AskersFirst
<1>5. CASE Len(g) = 0
  <2>1. Len(g) > 0 => g[1].ret \in Nat
    BY <1>5
  <2>2. NextCall(t, g) = MaxPidCall
    BY <1>1, <1>2, <1>5, <2>1, AskingTests
  <2> QED BY <2>2, FailIs
<1>6. CASE Len(g) > 0
  <2>1. NextCall(t, g) =
            IF Len(g) <= i THEN Exists(Len(g))
            ELSE IF Len(g) = i + 1 THEN Num
            ELSE Verdict(g[Len(g)].ret - Cardinality(found) \in -1..1)
    BY <1>1, <1>2, <1>4, <1>6, AskingTests
  <2>2. CASE Len(g) <= i \/ Len(g) = i + 1
    BY <2>1, <2>2, FailIs
  <2>3. CASE Len(g) > i + 1
    <3>1. ASSUME NEW k \in 2..Len(g)
          PROVE  /\ k \in DOMAIN g
                 /\ \/ k <= i + 1 /\ Plain(g[k], Exists(k - 1)) /\ Call(t, g, k) = Exists(k - 1)
                    \/ k = i + 2 /\ Plain(g[k], Num)
      <4>1. k \in Nat /\ k >= 1 /\ k <= Len(g) /\ k \in DOMAIN g /\ 1 \in 1..k - 1
        BY <1>1, <3>1
      <4>2. PICK h : AskedAt(t, g, k, h)
        BY <4>1, AnswerAt
      <4>3. /\ k = Len(h) + 1 /\ Len(h) \in Nat /\ Plain(g[k], NextCall(t, h))
            /\ Call(t, g, k) = NextCall(t, h)
        BY <4>2 DEF AskedAt
      <4>4. Len(h) = k - 1 /\ Len(h) > 0
        BY <3>1, <4>3
      <4>5. h[1].ret = i
        BY <1>4, <1>6, <4>1, <4>2 DEF AskedAt
      <4>6. h = <<>> <=> Len(h) = 0
        BY <4>2 DEF AskedAt
      <4>7. \/ k - 1 <= i /\ NextCall(t, h) = Exists(k - 1)
            \/ k - 1 = i + 1 /\ NextCall(t, h) = Num
            \/ NextCall(t, h) \in {Pass, Fail}
        BY <4>3, <4>4, <4>5, <4>6, AskingTests, Named
      <4>8. NextCall(t, h) \notin {Pass, Fail}
        BY <4>3, FailIs DEF Plain
      <4>9. (k - 1 <= i => k <= i + 1) /\ (k - 1 = i + 1 => k = i + 2)
        BY <4>1
      <4> QED BY <4>1, <4>3, <4>7, <4>8, <4>9
    <3>2. Len(g) = i + 2
      <4>1. Len(g) \in 2..Len(g)
        BY <1>1, <2>3
      <4>2. Len(g) <= i + 1 \/ Len(g) = i + 2
        BY <3>1, <4>1
      <4>3. \A len \in Nat : len > i + 1 => ~ (len <= i + 1)
        OBVIOUS
      <4> QED BY <1>1, <2>3, <4>2, <4>3
    <3>3. g[1].call = "getMaxPid"
      <4>1. PICK h : AskedAt(t, g, 1, h)
        BY <1>1, <1>6, AnswerAt
      <4>2. 1 = Len(h) + 1 /\ Len(h) \in Nat /\ Plain(g[1], NextCall(t, h))
        BY <4>1 DEF AskedAt
      <4>3. Len(h) = 0
        BY <4>2
      <4>4. h = <<>> <=> Len(h) = 0
        BY <4>1 DEF AskedAt
      <4>5. Len(h) > 0 => h[1].ret \in Nat
        BY <4>3
      <4>6. NextCall(t, h) = MaxPidCall
        BY <4>2, <4>3, <4>4, <4>5, AskingTests
      <4> QED BY <4>2, <4>6, Named DEF Plain
    <3>4. g[i + 2].call = "getNumProc" /\ g[i + 2].ret = 2
      <4>1. i + 2 \in 2..Len(g) /\ ~ (i + 2 <= i + 1)
        BY <3>2
      <4>2. Plain(g[i + 2], Num) /\ i + 2 \in DOMAIN g
        BY <3>1, <4>1
      <4>3. g[i + 2].call = "getNumProc"
        BY <4>2, Named DEF Plain
      <4> QED BY <1>3, <4>2, <4>3, QuietAnswers
    <3>5. found = {2, i + 1}
      <4>1. ASSUME NEW k \in found
            PROVE  k \in {2, i + 1}
        <5>1. k \in DOMAIN g /\ g[k].call = "exists" /\ g[k].ret = 0
          BY <4>1
        <5>2. k \in 2..Len(g)
          BY <1>1, <3>3, <5>1
        <5>3. k <= i + 1 /\ Call(t, g, k) = Exists(k - 1)
          <6>1. ~ Plain(g[k], Num)
            BY <5>1, Named DEF Plain
          <6> QED BY <3>1, <5>2, <6>1
        <5>4. Call(t, g, k)[2] \in {1, i}
          BY <1>3, <5>1, QuietAnswers
        <5>5. k - 1 \in {1, i}
          <6>1. Exists(k - 1)[2] = k - 1
            BY Named
          <6> QED BY <5>3, <5>4, <6>1
        <5> QED BY <5>2, <5>5
      <4>2. ASSUME NEW k \in {2, i + 1}
            PROVE  k \in found
        <5>1. k \in 2..Len(g) /\ k - 1 \in {1, i} /\ ~ (k = i + 2)
          BY <3>2, <4>2
        <5>2. Plain(g[k], Exists(k - 1)) /\ Call(t, g, k) = Exists(k - 1) /\ k \in DOMAIN g
          BY <3>1, <5>1
        <5>3. g[k].call = "exists" /\ Call(t, g, k)[2] \in {1, i}
          BY <5>1, <5>2, Named DEF Plain
        <5>4. g[k].ret = 0
          BY <1>3, <5>2, <5>3, QuietAnswers
        <5> QED BY <5>2, <5>3, <5>4
      <4> QED BY <4>1, <4>2
    <3>6. Cardinality(found) = 2
      <4>1. 2 # i + 1
        OBVIOUS
      <4>2. Cardinality({2, i + 1}) = 2
        BY <4>1, TwoOrThree, Zenon
      <4> QED BY <3>5, <4>2
    <3> HIDE DEF found
    <3>7. g[Len(g)].ret - Cardinality(found) \in -1..1
      BY <3>2, <3>4, <3>6
    <3>8. NextCall(t, g) = Verdict(g[Len(g)].ret - Cardinality(found) \in -1..1)
      <4>1. ~ (Len(g) <= i) /\ ~ (Len(g) = i + 1)
        BY <3>2
      <4> QED BY <2>1, <4>1
    <3> QED BY <3>7, <3>8, FailIs DEF Verdict
  <2>4. \A len \in Nat : len <= i \/ len = i + 1 \/ len > i + 1
    OBVIOUS
  <2> QED BY <1>1, <2>2, <2>3, <2>4
<1>7. \A len \in Nat : len = 0 \/ len > 0
  OBVIOUS
<1> QED BY <1>1, <1>5, <1>6, <1>7

\* A test's parent is init, whose own parent has no pid.
LEMMA ChainVerdict ==
  ASSUME NEW g, NEW i \in Nat, i >= 2, Tale("ppid_chain", g, i),
         QuietTale("ppid_chain", g, i, 1)
  PROVE  NextCall("ppid_chain", g) # Fail
<1> DEFINE t == "ppid_chain"
<1>0. Answered(t, g)
  BY DEF Tale
<1>1. DOMAIN g = 1..Len(g) /\ Len(g) \in Nat
  BY <1>0, AnswersAre
<1>2. g = <<>> <=> Len(g) = 0
  BY <1>0, AnswersAre
<1>3. Len(g) > 0 => g[1].ret = i /\ Own(g) = DOMAIN g
  <2>1. t \in PidFirst \ Forkers /\ t \in Tests
    BY DEF PidFirst, Forkers, Tests, Quiet
  <2> QED BY <2>1, FirstIsOwnPid
<1>4. ASSUME NEW h, Len(h) = 1, h # <<>>, h[1].ret = i
      PROVE  NextCall(t, h) = Info(i)
  <2>1. h[1].ret > 1 /\ ~ (Len(h) > 1) /\ Len(h) <= 10
    BY <1>4
  <2> QED BY <1>4, <2>1, NextIs DEF test_ppid_chain
<1>5. ASSUME NEW h, Len(h) = 2, h # <<>>, h[2].ret = 0, h[2].info.ppid = 1
      PROVE  NextCall(t, h) = Pass
  <2>1. /\ ~ (h[Len(h)].ret < 0) /\ Len(h) # 1 /\ ~ (h[Len(h)].info.ppid > 1)
        /\ h[Len(h)].info.ppid \in {0, 1}
    BY <1>5
  <2> QED BY <1>5, <2>1, NextIs DEF test_ppid_chain, Verdict
<1>6. CASE Len(g) = 0
  <2>1. NextCall(t, g) = Getpid
    BY <1>2, <1>6, NextIs DEF test_ppid_chain
  <2> QED BY <2>1, FailIs
<1>7. CASE Len(g) = 1
  <2>1. g # <<>> /\ g[1].ret = i
    BY <1>2, <1>3, <1>7
  <2> QED BY <1>4, <1>7, <2>1, FailIs
<1>8. CASE Len(g) >= 2
  <2>1. 1 \in DOMAIN g /\ 2 \in DOMAIN g /\ g[1].ret = i /\ Own(g) = DOMAIN g
    BY <1>1, <1>3, <1>8
  <2>2. PICK h : AskedAt(t, g, 2, h)
    BY <1>0, <1>1, <1>8, AnswerAt
  <2>3. 2 = Len(h) + 1 /\ Len(h) \in Nat /\ Plain(g[2], NextCall(t, h))
        /\ Call(t, g, 2) = NextCall(t, h)
    BY <2>2 DEF AskedAt
  <2>4. \A len \in Nat : (2 = len + 1 => len = 1) /\ (3 = len + 1 => len = 2)
                         /\ (len >= 2 => len = 2 \/ len >= 3)
    OBVIOUS
  <2>5. Len(h) = 1
    BY <2>3, <2>4
  <2>6. h # <<>> /\ h[1].ret = i
    <3>1. h = <<>> <=> Len(h) = 0
      BY <2>2 DEF AskedAt
    <3>2. 1 \in 1..2 - 1
      OBVIOUS
    <3>3. h[1] = g[1]
      BY <2>2, <3>2 DEF AskedAt
    <3> QED BY <2>1, <2>5, <3>1, <3>3
  <2>7. NextCall(t, h) = Info(i)
    BY <1>4, <2>5, <2>6
  <2>8. g[2].ret = 0 /\ g[2].info.ppid = 1
    <3>1. /\ OwnFact(g[2], Info(i), i) /\ Plain(g[2], Info(i)) /\ Call(t, g, 2) = Info(i)
          /\ 2 \in Own(g)
      BY <2>1, <2>3, <2>7 DEF Tale
    <3>2. g[2].call = "getProcInfo" /\ Info(i)[2] = i
      BY <3>1, Named DEF Plain
    <3> QED BY <3>1, <3>2 DEF OwnFact, QuietTale
  <2>9. CASE Len(g) = 2
    <3>1. g # <<>>
      BY <1>2, <2>9
    <3> QED BY <1>5, <2>8, <2>9, <3>1, FailIs
  <2>10. CASE Len(g) >= 3
    <3>1. PICK f : AskedAt(t, g, 3, f)
      BY <1>0, <1>1, <2>10, AnswerAt
    <3>2. 3 = Len(f) + 1 /\ Len(f) \in Nat /\ Plain(g[3], NextCall(t, f))
      BY <3>1 DEF AskedAt
    <3>3. Len(f) = 2
      BY <2>4, <3>2
    <3>4. f # <<>> /\ f[2] = g[2]
      <4>1. f = <<>> <=> Len(f) = 0
        BY <3>1 DEF AskedAt
      <4>2. 2 \in 1..3 - 1
        OBVIOUS
      <4>3. f[2] = g[2]
        BY <3>1, <4>2 DEF AskedAt
      <4> QED BY <3>3, <4>1, <4>3
    <3>5. NextCall(t, f) = Pass
      BY <1>5, <2>8, <3>3, <3>4
    <3> QED BY <3>2, <3>5, FailIs DEF Plain
  <2> QED BY <1>1, <1>8, <2>4, <2>9, <2>10
<1>9. \A len \in Nat : len = 0 \/ len = 1 \/ len >= 2
  OBVIOUS
<1> QED BY <1>1, <1>6, <1>7, <1>8, <1>9

\* What has to be known of the tests, in a crowd or not.
TestsInv == CommonInv /\ FamilyInv /\ ImageInv /\ QuietInv /\ ForksInv

\* The verdict of each test, from what it has been told.
LEMMA RobustVerdict ==
  ASSUME MaxPid < 99999, TestsInv, NEW p \in Testers, prog[p] \in Robust, ~ Starved(got[p])
  PROVE  Calling(p) # Fail
<1>1. Tale(prog[p], got[p], pid[p]) /\ Answered(prog[p], got[p])
  BY DEF TestsInv, CommonInv, TaleInv, Tale
<1>2. CASE prog[p] \in OneCalls
  BY <1>1, <1>2, OneCallVerdicts DEF Calling
<1>3. CASE prog[p] \in Selves
  BY <1>1, <1>3, SelfVerdicts DEF Calling
<1>4. CASE prog[p] = MaxTest
  BY <1>4, MaxTestVerdict DEF TestsInv, CommonInv
<1>5. CASE prog[p] = "child_size"
  BY <1>1, <1>5, ChildSizeVerdict DEF Calling
<1> QED BY <1>2, <1>3, <1>4, <1>5 DEF Robust, OneCalls, Selves, MaxTest

LEMMA QuietVerdict ==
  ASSUME IInv, PInv, TestsInv, ~ crowd, NEW p \in Running, ~ Starved(got[p])
  PROVE  Calling(p) # Fail
<1> DEFINE t == prog[p]
           g == got[p]
           i == pid[p]
           j == pid[parent[p]]
<1>1. p \in Slots /\ p # initproc /\ t \in Quiet
  BY QuietTests DEF TestsInv
<1>2. Tale(t, g, i) /\ Answered(t, g)
  BY QuietTests DEF TestsInv, CommonInv, TaleInv
<1>3. QuietTale(t, g, i, j) /\ ImageTold(t, g, nfd[p], sz[p])
  BY DEF TestsInv, QuietInv, ImageInv
<1>4. i \in Nat /\ i >= 2
  <2>1. state[p] # "UNUSED"
    BY <1>1 DEF PInv, ProgramInv, Running
  <2>2. state[initproc] # "UNUSED" /\ initproc \in Slots /\ pid[initproc] = 1
    BY NoneOneOrMore DEF IInv, ParentAlive, RootInv
  <2>3. i \in 1..(nextpid - 1) /\ nextpid \in Nat
    BY <1>1, <2>1 DEF IInv, TypeOK, PidsUnique
  <2>4. i # 1
    BY <1>1, <2>1, <2>2 DEF IInv, PidsUnique
  <2> QED BY <2>3, <2>4
<1> SUFFICES NextCall(t, g) # Fail
  BY DEF Calling
<1>5. t = "ppid_chain" => j = 1
  <2>1. ASSUME t = "ppid_chain"
        PROVE  j = 1
    <3>1. t \in Tests \ Forkers
      BY <2>1 DEF Tests, Quiet, Forkers
    <3>2. ~ InChild(g)
      BY <1>2, <3>1, NeverForks
    <3>3. parent[p] = initproc
      BY <3>2 DEF TestsInv, FamilyInv, Family, TestsAreChildren
    <3> QED BY <3>3 DEF IInv, RootInv
  <2> QED BY <2>1
<1> HIDE DEF t, g, i, j
<1>6. CASE t \in Repeaters
  BY <1>2, <1>3, <1>4, <1>6, RepeatingVerdicts
<1>7. CASE t \in Watchers
  BY <1>2, <1>3, <1>7, ImageVerdicts DEF g
<1>8. CASE t = "fork_increases_numproc"
  BY <1>2, <1>3, <1>8, ForkVerdict DEF g
<1>9. CASE t = "wait_decreases_numproc"
  BY <1>2, <1>3, <1>9, WaitVerdict DEF g
<1>10. CASE t = "child_ppid"
  BY <1>2, <1>3, <1>10, ChildPpidVerdict
<1>11. CASE t = "rapid_fork_exit"
  BY <1>2, <1>11, RapidVerdict DEF g
<1>12. CASE t = "query_all_pids"
  BY <1>2, <1>3, <1>4, <1>12, QueryVerdict
<1>13. CASE t = "numproc_matches_count"
  BY <1>2, <1>3, <1>4, <1>13, MatchVerdict
<1>14. CASE t = "ppid_chain"
  BY <1>2, <1>3, <1>4, <1>5, <1>14, ChainVerdict
<1> QED BY <1>1, <1>6, <1>7, <1>8, <1>9, <1>10, <1>11, <1>12, <1>13, <1>14
           DEF Quiet, Repeaters, Watchers

LEMMA VerdictsPass ==
  ASSUME MaxPid < 99999, IInv, PInv, TestsInv
  PROVE  TestsPass
<1> SUFFICES ASSUME NEW p \in Running, Calling(p) = Fail, ~ Starved(got[p])
             PROVE  FALSE
  BY DEF TestsPass
<1>1. p # initproc /\ prog[p] \in IF crowd THEN Robust \cup {"ps"} ELSE Quiet
  BY DEF TestsInv, CommonInv, ProgOK
<1>2. CASE prog[p] = "ps"
  <2>1. p \in RunsPs
    BY <1>2 DEF Running, RunsPs
  <2>2. got[p] \in Seq(Range(got[p])) /\ (Len(got[p]) >= 2 => got[p][2].ret \in Nat)
    BY <2>1 DEF PInv, PsInv, Listing
  <2>3. ps(got[p])[1] \in {"getNumProc", "getMaxPid", "exists", "getProcInfo", "exit"}
    BY <2>2, PsCallNames
  <2>4. Calling(p) = ps(got[p])
    BY <1>2 DEF Calling, NextCall
  <2> QED BY <2>3, <2>4, Named
<1>3. CASE crowd /\ prog[p] # "ps"
  <2>1. prog[p] \in Robust /\ p \in Testers
    BY <1>1, <1>3, TestsAreNamed DEF Testers, Running
  <2> QED BY <2>1, RobustVerdict
<1>4. CASE ~ crowd
  BY <1>4, QuietVerdict
<1> QED BY <1>2, <1>3, <1>4

LEMMA TestsKeep ==
  ASSUME IInv, PInv, OInv, TestsInv, [InfoNext]_infoVars
  PROVE  TestsInv'
<1>1. CASE InfoNext
  <2>1. ClosesOwn
    BY TestsCloseOwn DEF TestsInv
  <2>2. CommonInv'
    BY <1>1, <2>1, CommonKeeps DEF TestsInv
  <2>3. FamilyInv'
    BY <1>1, FamilyKeeps DEF TestsInv
  <2>4. ImageInv'
    BY <1>1, ImageKeeps DEF TestsInv
  <2>5. QuietInv'
    BY <1>1, QuietKeeps DEF TestsInv
  <2>6. ForksInv'
    BY <1>1, ForksKeeps DEF TestsInv
  <2> QED BY <2>2, <2>3, <2>4, <2>5, <2>6 DEF TestsInv
<1>2. CASE UNCHANGED infoVars
  <2>1. /\ UNCHANGED <<state, pid, parent, killed, kstack, nextpid, pc, np, sz, nfd>>
        /\ UNCHANGED <<prog, got, crowd>>
    BY <1>2 DEF infoVars, vars, procVars, threadVars, imageVars, progVars
  <2>2. Testers' = Testers /\ Running' = Running /\ Active' = Active
        /\ \A p : Calling(p)' = Calling(p) /\ Kin(p)' = Kin(p)
    BY <2>1 DEF Testers, Running, Active, Calling, Kin
  <2>3. CommonInv'
    <3>1. CommonInv
      BY DEF TestsInv
    <3>2. ProgOK' /\ FilesInv' /\ BoundInv'
      BY <2>1, <2>2, <3>1 DEF CommonInv, ProgOK, FilesInv, BoundInv
    <3>3. CallInv'
      BY <2>1, <2>2, <3>1 DEF CommonInv, CallInv
    <3>4. TaleInv'
      BY <2>1, <2>2, <3>1 DEF CommonInv, TaleInv
    <3> QED BY <3>2, <3>3, <3>4 DEF CommonInv
  <2>4. FamilyInv'
    <3>1. FamilyInv
      BY DEF TestsInv
    <3>2. EmbryoInv'
      BY <2>1, <3>1 DEF FamilyInv, EmbryoInv
    <3>3. ~ crowd => (OneChild /\ NoOtherCalls /\ TestsFork)'
      BY <2>1, <2>2, <3>1 DEF FamilyInv, Family, OneChild, NoOtherCalls, TestsFork
    <3>4. ~ crowd => TestsHaveChildren'
      BY <2>1, <2>2, <3>1 DEF FamilyInv, Family, TestsHaveChildren
    <3>5. ~ crowd => TestsAreChildren'
      BY <2>1, <2>2, <3>1 DEF FamilyInv, Family, TestsAreChildren
    <3>6. ~ crowd => InitForksAlone'
      BY <2>1, <2>2, <3>1 DEF FamilyInv, Family, InitForksAlone
    <3> QED BY <2>1, <3>2, <3>3, <3>4, <3>5, <3>6 DEF FamilyInv, Family
  <2>5. ImageInv' /\ QuietInv'
    BY <2>1, <2>2 DEF TestsInv, ImageInv, QuietInv
  <2>6. ForksInv'
    BY <2>1, <2>2 DEF TestsInv, ForksInv, Forks, BeforeFork, ChildThere, AfterFork
  <2> QED BY <2>3, <2>4, <2>5, <2>6 DEF TestsInv
<1> QED BY <1>1, <1>2

LEMMA TestsAtFirst == InfoInit => TestsInv
BY CommonAtFirst, FamilyAtFirst, ImageAtFirst, QuietAtFirst, ForksAtFirst DEF TestsInv

\* No test of testps.c ends in test_fail, unless the system had no slot, file or
\* page left for it, whatever the bounds are, if the pid 99999 that
\* test_procinfo_invalid asks for is not given out: the robust tests whatever
\* happens around them, the others when they have the system to themselves.
THEOREM TestsAllPass ==
  ASSUME MaxPid < 99999
  PROVE  InfoSpec => []TestsPass
<1>1. InfoSpec => []IInv
  BY InfoIsTable, Invariance
<1>2. IInv /\ PInv /\ [InfoNext]_infoVars => PInv'
  BY InfoNextKeeps
<1>3. IInv /\ PInv /\ OInv /\ [InfoNext]_infoVars => OInv'
  BY OlderKeeps
<1>4. IInv /\ PInv /\ OInv /\ TestsInv /\ [InfoNext]_infoVars => TestsInv'
  BY TestsKeep
<1>5. IInv /\ PInv /\ TestsInv => TestsPass
  BY VerdictsPass
<1> QED BY <1>1, <1>2, <1>3, <1>4, <1>5, InfoInitHolds, OlderAtFirst, TestsAtFirst, PTL
           DEF InfoSpec
=============================================================================

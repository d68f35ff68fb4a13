-------------------------- MODULE JobScriptProofs ---------------------------
(***************************************************************************)
(* What the definitions of JobScript return for every job string.          *)
(***************************************************************************)
EXTENDS JobScript, FoldLemmas

-----------------------------------------------------------------------------
(* The commands of a job string.                                           *)

\* The tokens kept of the first segments, from the last one back.
Keeps(g, job) ==
  g = [s \in SUBSET DOMAIN job |->
         IF s = {} THEN <<>>
         ELSE IF job[Max(s)].op = "empty" THEN g[s \ {Max(s)}]
              ELSE Append(g[s \ {Max(s)}], job[Max(s)])]

LEMMA TokensAreKept ==
  ASSUME NEW job
  PROVE  AllTokens(job) = (CHOOSE g : Keeps(g, job))[DOMAIN job]
BY DEF AllTokens, FoldLeft, MapThenFoldSet, Keeps

\* The tokens of a job are segments of it.
LEMMA TokensType ==
  ASSUME NEW X, NEW job \in Seq(X)
  PROVE  AllTokens(job) \in Seq(X)
<1> DEFINE S == DOMAIN job
           C == [s \in SUBSET S |-> Max(s)]
           D == [p \in S \X Seq(X) |-> IF job[p[1]].op = "empty" THEN p[2]
                                       ELSE Append(p[2], job[p[1]])]
<1>1. S = 1..Len(job) /\ IsFiniteSet(S) /\ S \in SUBSET Int
  BY FS_Interval
<1>2. \A s \in SUBSET S : s # {} => C[s] \in s
  BY <1>1, MaxIsElement
<1>3. D \in [S \X Seq(X) -> Seq(X)]
  BY <1>1
<1>4. <<>> \in Seq(X)
  OBVIOUS
<1> HIDE DEF S, C, D
<1>5. PICK g \in [SUBSET S -> Seq(X)] : Recurs(g, S, <<>>, C, D)
  BY <1>1, <1>2, <1>3, <1>4, RecursionExists
<1>6. \A s \in SUBSET S : g[s] = IF s = {} THEN <<>> ELSE D[<<C[s], g[s \ {C[s]}]>>]
  BY <1>5 DEF Recurs
<1>7. ASSUME NEW s \in SUBSET S
      PROVE  g[s] = IF s = {} THEN <<>>
                    ELSE IF job[Max(s)].op = "empty" THEN g[s \ {Max(s)}]
                         ELSE Append(g[s \ {Max(s)}], job[Max(s)])
  <2>1. CASE s = {}
    BY <1>6, <2>1
  <2>2. CASE s # {}
    <3>1. C[s] = Max(s) /\ Max(s) \in S /\ s \ {Max(s)} \in SUBSET S
      BY <1>2, <2>2 DEF C
    <3>2. g[s \ {Max(s)}] \in Seq(X)
      BY <3>1
    <3>3. D[<<Max(s), g[s \ {Max(s)}]>>]
            = IF job[Max(s)].op = "empty" THEN g[s \ {Max(s)}]
              ELSE Append(g[s \ {Max(s)}], job[Max(s)])
      BY <3>1, <3>2 DEF D
    <3> QED BY <1>6, <2>2, <3>1, <3>3
  <2> QED BY <2>1, <2>2
<1>8. g = [s \in SUBSET S |-> g[s]]
  OBVIOUS
<1>9. Keeps(g, job)
  BY <1>7, <1>8 DEF Keeps, S
<1> DEFINE h == CHOOSE h : Keeps(h, job)
<1>10. Keeps(h, job)
  BY <1>9
<1>11. AllTokens(job) = h[S]
  BY TokensAreKept DEF S
<1> HIDE DEF h
<1> DEFINE Good == {s \in SUBSET S : h[s] \in Seq(X)}
<1>12. \A s \in SUBSET S :
         h[s] = IF s = {} THEN <<>>
                ELSE IF job[Max(s)].op = "empty" THEN h[s \ {Max(s)}]
                     ELSE Append(h[s \ {Max(s)}], job[Max(s)])
  BY <1>10 DEF Keeps, S
<1>13. ASSUME NEW s \in SUBSET S, s = {} PROVE s \in Good
  <2>1. h[s] = <<>>
    BY <1>12, <1>13
  <2> QED BY <1>4, <2>1
<1>14. ASSUME NEW s \in SUBSET S, s # {}, \A x \in s : s \ {x} \in Good
       PROVE  s \in Good
  <2>0. \A k \in S : job[k] \in X
    BY <1>1
  <2>1. Max(s) \in s /\ job[Max(s)] \in X
    <3>1. Max(s) \in s
      BY <1>1, <1>14, MaxIsElement
    <3> QED BY <2>0, <3>1
  <2>2. h[s \ {Max(s)}] \in Seq(X)
    BY <1>14, <2>1
  <2>3. Append(h[s \ {Max(s)}], job[Max(s)]) \in Seq(X)
    BY <2>1, <2>2
  <2>4. h[s] \in Seq(X)
    BY <1>12, <1>14, <2>2, <2>3
  <2> QED BY <2>4
<1> HIDE DEF Good
<1>15. \A s \in SUBSET S : s \in Good
  <2>1. IsFiniteSet(S) /\ {} \in Good
    BY <1>1, <1>13
  <2> QED BY <2>1, <1>14, SubsetInduction
<1> QED BY <1>11, <1>15 DEF Good

\* The commands are segments too, and no more than fit in cmds.
LEMMA CommandsType ==
  ASSUME NEW X, NEW job \in Seq(X)
  PROVE  Commands(job) \in Seq(X) /\ Len(Commands(job)) <= MaxCmds
<1> DEFINE t == AllTokens(job)
<1>1. t \in Seq(X)
  BY TokensType
<1> HIDE DEF t
<1>2. Len(t) \in Nat
  BY <1>1
<1>3. CASE Len(t) <= MaxCmds
  BY <1>1, <1>3 DEF Commands, t
<1>4. CASE ~ (Len(t) <= MaxCmds)
  <2>1. SubSeq(t, 1, MaxCmds) \in Seq(X) /\ Len(SubSeq(t, 1, MaxCmds)) = MaxCmds
    BY <1>1, <1>2, <1>4, MaxCmdsAssumption
  <2>2. Commands(job) = SubSeq(t, 1, MaxCmds)
    BY <1>4 DEF Commands, t
  <2> QED BY <2>1, <2>2, MaxCmdsAssumption
<1> QED BY <1>3, <1>4

-----------------------------------------------------------------------------
(* What a job string means.                                                *)

\* So many rounds of the commands after a "repeat", one after the other.
Rounds(rest, n) == FlattenSeq([k \in 1..n |-> rest])

\* One round more comes after the others.
LEMMA RoundsStep ==
  ASSUME NEW X, NEW rest \in Seq(X)
  PROVE  /\ Rounds(rest, 0) = <<>>
         /\ \A n \in Nat : /\ Rounds(rest, n) \in Seq(X)
                           /\ Rounds(rest, n + 1) = Rounds(rest, n) \o rest
<1> DEFINE S(n) == [k \in 1..n |-> rest]
<1>1. Rounds(rest, 0) = <<>>
  <2>1. S(0) = <<>>
    OBVIOUS
  <2> QED BY <2>1, FlattenOfNone DEF Rounds
<1>2. ASSUME NEW n \in Nat
      PROVE  Rounds(rest, n) \in Seq(X) /\ Rounds(rest, n + 1) = Rounds(rest, n) \o rest
  <2>1. S(n) \in Seq(Seq(X))
    OBVIOUS
  <2>2. S(n + 1) = Append(S(n), rest)
    OBVIOUS
  <2> HIDE DEF S
  <2>3. FlattenSeq(S(n)) \in Seq(X)
    BY <2>1, FlattenType
  <2>4. FlattenSeq(S(n + 1)) = FlattenSeq(S(n)) \o rest
    BY <2>1, <2>2, FlattenOfAppend
  <2> QED BY <2>3, <2>4 DEF Rounds, S
<1> QED BY <1>1, <1>2

\* The first "repeat" of the commands.
FirstRepeat(cs) == CHOOSE k \in Repeats(cs) : \A l \in Repeats(cs) : k <= l

\* What follows it.
Repeated(cs) == SubSeq(cs, FirstRepeat(cs) + 1, Len(cs))

LEMMA FirstRepeatExists ==
  ASSUME NEW X, NEW cs \in Seq(X), Repeats(cs) # {}
  PROVE  /\ FirstRepeat(cs) \in DOMAIN cs /\ cs[FirstRepeat(cs)].op = "repeat"
         /\ \A l \in Repeats(cs) : FirstRepeat(cs) <= l
<1>1. Repeats(cs) \in SUBSET Nat
  BY DEF Repeats
<1>2. \E k \in Repeats(cs) : \A l \in Repeats(cs) : k <= l
  <2> DEFINE R == OpToRel(<, Nat)
             S == Repeats(cs)
  <2>1. IsWellFoundedOn(R, Nat)
    BY NatLessThanWellFounded
  <2>2. S \subseteq Nat /\ S # {}
    BY <1>1
  <2> HIDE DEF S
  <2>3. PICK k \in S : \A l \in S : ~ (<<l, k>> \in R)
    BY <2>1, <2>2, WFMin
  <2>4. \A l \in S : ~ (l < k)
    BY <2>2, <2>3 DEF OpToRel
  <2>5. \A l \in S : k <= l
    BY <2>2, <2>4
  <2> QED BY <2>5 DEF S
<1>3. FirstRepeat(cs) \in Repeats(cs) /\ \A l \in Repeats(cs) : FirstRepeat(cs) <= l
  BY <1>2 DEF FirstRepeat
<1> QED BY <1>3 DEF Repeats

\* The expansion, with the number of rounds a number that is not negative.
LEMMA ExpansionIs ==
  ASSUME NEW X, \A x \in X : x.arg \in Int, NEW cs \in Seq(X)
  PROVE  /\ Repeats(cs) = {} => Expansion(cs) = cs
         /\ Repeats(cs) # {} =>
              LET n == cs[FirstRepeat(cs)].arg
              IN  /\ n \in Int
                  /\ Expansion(cs) = SubSeq(cs, 1, FirstRepeat(cs) - 1)
                                       \o Rounds(Repeated(cs), IF n > 0 THEN n ELSE 0)
<1>1. CASE Repeats(cs) = {}
  BY <1>1 DEF Expansion
<1>2. CASE Repeats(cs) # {}
  <2> DEFINE p == FirstRepeat(cs)
             n == cs[p].arg
  <2>1. n \in Int
    <3>1. p \in DOMAIN cs
      BY <1>2, FirstRepeatExists
    <3>2. cs[p] \in X
      BY <3>1
    <3> QED BY <3>2
  <2>2. Expansion(cs) = SubSeq(cs, 1, p - 1) \o Rounds(Repeated(cs), n)
    BY <1>2 DEF Expansion, FirstRepeat, Repeated, Rounds
  <2>3. Rounds(Repeated(cs), n) = Rounds(Repeated(cs), IF n > 0 THEN n ELSE 0)
    <3> HIDE DEF n
    <3>1. CASE n > 0
      BY <3>1
    <3>2. CASE ~ (n > 0)
      <4>1. 1..n = 1..0
        BY <2>1, <3>2
      <4> QED BY <3>2, <4>1 DEF Rounds
    <3> QED BY <3>1, <3>2
  <2> QED BY <1>2, <2>1, <2>2, <2>3
<1> QED BY <1>1, <1>2

\* It is made of the commands.
LEMMA ExpansionType ==
  ASSUME NEW X, \A x \in X : x.arg \in Int, NEW cs \in Seq(X)
  PROVE  Expansion(cs) \in Seq(X)
<1>1. CASE Repeats(cs) = {}
  BY <1>1, ExpansionIs
<1>2. CASE Repeats(cs) # {}
  <2> DEFINE p == FirstRepeat(cs)
             n == cs[p].arg
             m == IF n > 0 THEN n ELSE 0
  <2>1. n \in Int /\ Expansion(cs) = SubSeq(cs, 1, p - 1) \o Rounds(Repeated(cs), m)
    BY <1>2, ExpansionIs
  <2>2. p \in 1..Len(cs)
    BY <1>2, FirstRepeatExists
  <2>3. m \in Nat
    BY <2>1
  <2> HIDE DEF p, m
  <2>4. SubSeq(cs, 1, p - 1) \in Seq(X) /\ SubSeq(cs, p + 1, Len(cs)) \in Seq(X)
    BY <2>2
  <2>5. Repeated(cs) \in Seq(X)
    BY <2>4 DEF Repeated, p
  <2>6. Rounds(Repeated(cs), m) \in Seq(X)
    BY <2>3, <2>5, RoundsStep
  <2> QED BY <2>1, <2>4, <2>6
<1> QED BY <1>1, <1>2

-----------------------------------------------------------------------------
(* What commands do to a counter.                                          *)

\* What all the commands of cs add to counter c.
Total(cs, c) == SumFunction([k \in DOMAIN cs |-> Delta(cs[k], c)])

\* A command adds 1, 0 or -1.
LEMMA DeltaType == \A cmd, c : Delta(cmd, c) \in Int
BY DEF Delta

\* What is added by a sequence of commands, by none, and by one before others.
LEMMA TotalIs ==
  ASSUME NEW X, NEW cs \in Seq(X), NEW c
  PROVE  /\ Total(cs, c) \in Int
         /\ Total(<<>>, c) = 0
         /\ cs # <<>> => Total(cs, c) = Delta(Head(cs), c) + Total(Tail(cs), c)
<1> DEFINE f == [k \in DOMAIN cs |-> Delta(cs[k], c)]
<1>1. DOMAIN cs = 1..Len(cs) /\ IsFiniteSet(DOMAIN cs)
  BY FS_Interval
<1>2. \A k \in DOMAIN cs : f[k] \in Int
  BY DeltaType
<1>3. Total(cs, c) = SumFunctionOnSet(f, DOMAIN cs)
  BY DEF Total, SumFunction
<1>4. Total(cs, c) \in Int
  <2> HIDE DEF f
  <2> QED BY <1>1, <1>2, <1>3, SumType
<1>5. Total(<<>>, c) = 0
  <2>1. DOMAIN <<>> = {}
    OBVIOUS
  <2> QED BY <2>1, SumOfNone DEF Total, SumFunction
<1>6. ASSUME cs # <<>>
      PROVE  Total(cs, c) = Delta(Head(cs), c) + Total(Tail(cs), c)
  <2> DEFINE n == Len(cs) - 1
             g == [k \in DOMAIN Tail(cs) |-> Delta(Tail(cs)[k], c)]
  <2>1. n \in Nat /\ DOMAIN cs = 1..(n + 1) /\ DOMAIN Tail(cs) = 1..n
    BY <1>6
  <2>2. \A k \in 1..n : Tail(cs)[k] = cs[k + 1]
    BY <1>6
  <2>3. \A k \in 1..n : k + 1 \in 1..(n + 1)
    BY <2>1
  <2>4. \A k \in 1..n : g[k] = f[k + 1]
    BY <2>1, <2>2, <2>3
  <2>5. f[1] = Delta(Head(cs), c)
    BY <1>6
  <2>6. Total(Tail(cs), c) = SumFunctionOnSet(g, DOMAIN Tail(cs))
    BY DEF Total, SumFunction
  <2> HIDE DEF f, g, n
  <2>7. SumFunctionOnSet(f, 1..(n + 1)) = f[1] + SumFunctionOnSet(g, 1..n)
    BY <1>2, <2>1, <2>4, SumOfTail
  <2> QED BY <1>3, <2>1, <2>5, <2>6, <2>7
<1> QED BY <1>4, <1>5, <1>6
=============================================================================

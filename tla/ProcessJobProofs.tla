-------------------------- MODULE ProcessJobProofs --------------------------
(***************************************************************************)
(* Proofs about ProcessJob, for any segments, any size of cmds and job     *)
(* strings of any length: the loops read only commands of the array, and   *)
(* run the expansion of the job string, command by command.                *)
(***************************************************************************)
EXTENDS ProcessJob, JobScriptProofs, SequenceTheorems

-----------------------------------------------------------------------------
(* Prefixes.                                                               *)

LEMMA PrefixIs ==
  ASSUME NEW X, NEW s \in Seq(X), NEW t \in Seq(X)
  PROVE  IsPrefix(s, t) <=>
           Len(s) <= Len(t) /\ \A k \in 1..Len(s) : s[k] = t[k]
<1>1. SubSeq(s, 1, Len(s)) = s
  OBVIOUS
<1>2. ASSUME Len(s) <= Len(t)
      PROVE  s = SubSeq(t, 1, Len(s)) <=> \A k \in 1..Len(s) : s[k] = t[k]
  <2> DEFINE u == SubSeq(t, 1, Len(s))
  <2>1. u \in Seq(X) /\ Len(u) = Len(s) /\ \A k \in 1..Len(s) : u[k] = t[k]
    BY <1>2
  <2> HIDE DEF u
  <2>2. s = u <=> \A k \in 1..Len(s) : s[k] = u[k]
    BY <2>1
  <2> QED BY <2>1, <2>2 DEF u
<1> QED BY <1>1, <1>2 DEF IsPrefix

LEMMA PrefixOfConcat ==
  ASSUME NEW X, NEW s \in Seq(X), NEW t \in Seq(X)
  PROVE  IsPrefix(s, s \o t)
<1>1. s \o t \in Seq(X) /\ Len(s \o t) = Len(s) + Len(t)
      /\ \A k \in 1..Len(s) : (s \o t)[k] = s[k]
  OBVIOUS
<1>2. Len(s) <= Len(s \o t)
  BY <1>1
<1> QED BY <1>1, <1>2, PrefixIs

LEMMA PrefixTransitive ==
  ASSUME NEW X, NEW s \in Seq(X), NEW t \in Seq(X), NEW u \in Seq(X),
         IsPrefix(s, t), IsPrefix(t, u)
  PROVE  IsPrefix(s, u)
<1>1. Len(s) <= Len(t) /\ \A k \in 1..Len(s) : s[k] = t[k]
  BY PrefixIs
<1>2. Len(t) <= Len(u) /\ \A k \in 1..Len(t) : t[k] = u[k]
  BY PrefixIs
<1>3. Len(s) \in Nat /\ Len(t) \in Nat /\ Len(u) \in Nat
  OBVIOUS
<1>4. Len(s) <= Len(u) /\ \A k \in 1..Len(s) : s[k] = u[k]
  BY <1>1, <1>2, <1>3
<1> QED BY <1>4, PrefixIs

LEMMA PrefixAfter ==
  ASSUME NEW X, NEW p \in Seq(X), NEW s \in Seq(X), NEW t \in Seq(X), IsPrefix(s, t)
  PROVE  IsPrefix(p \o s, p \o t)
<1>1. Len(s) <= Len(t) /\ \A k \in 1..Len(s) : s[k] = t[k]
  BY PrefixIs
<1>2. p \o s \in Seq(X) /\ p \o t \in Seq(X)
  OBVIOUS
<1>3. /\ Len(p) \in Nat /\ Len(s) \in Nat /\ Len(t) \in Nat
      /\ Len(p \o s) = Len(p) + Len(s) /\ Len(p \o t) = Len(p) + Len(t)
  OBVIOUS
<1>4. Len(p \o s) <= Len(p \o t)
  BY <1>1, <1>3
<1>5. ASSUME NEW k \in 1..Len(p \o s) PROVE (p \o s)[k] = (p \o t)[k]
  <2>1. CASE k <= Len(p)
    BY <1>3, <2>1
  <2>2. CASE ~ (k <= Len(p))
    <3>1. (p \o s)[k] = s[k - Len(p)] /\ (p \o t)[k] = t[k - Len(p)]
      BY <1>1, <1>3, <2>2
    <3>2. k - Len(p) \in 1..Len(s)
      BY <1>3, <2>2
    <3> QED BY <1>1, <3>1, <3>2
  <2> QED BY <2>1, <2>2
<1> QED BY <1>2, <1>4, <1>5, PrefixIs

LEMMA PrefixOfItself ==
  ASSUME NEW X, NEW s \in Seq(X)
  PROVE  IsPrefix(s, s)
<1>1. Len(s) <= Len(s)
  OBVIOUS
<1> QED BY <1>1, PrefixIs

LEMMA PrefixOfSub ==
  ASSUME NEW X, NEW s \in Seq(X), NEW f \in Nat \ {0}, NEW a \in Nat, NEW b \in Nat,
         f - 1 <= a, a <= b, b <= Len(s)
  PROVE  IsPrefix(SubSeq(s, f, a), SubSeq(s, f, b))
<1> DEFINE u == SubSeq(s, f, a)
           v == SubSeq(s, f, b)
<1>1. /\ u \in Seq(X) /\ Len(u) = a - f + 1 /\ \A k \in 1..(a - f + 1) : u[k] = s[f + k - 1]
  OBVIOUS
<1>2. /\ v \in Seq(X) /\ Len(v) = b - f + 1 /\ \A k \in 1..(b - f + 1) : v[k] = s[f + k - 1]
  OBVIOUS
<1> HIDE DEF u, v
<1>3. Len(u) <= Len(v)
  BY <1>1, <1>2
<1>4. \A k \in 1..Len(u) : k \in 1..Len(v)
  BY <1>1, <1>2
<1>5. \A k \in 1..Len(u) : u[k] = v[k]
  BY <1>1, <1>2, <1>4
<1>6. IsPrefix(u, v)
  BY <1>1, <1>2, <1>3, <1>5, PrefixIs
<1> QED BY <1>6 DEF u, v

\* Some rounds are the beginning of more rounds.
LEMMA RoundsPrefix ==
  ASSUME NEW X, NEW rest \in Seq(X), NEW m \in Nat
  PROVE  \A n \in Nat : m <= n => IsPrefix(Rounds(rest, m), Rounds(rest, n))
<1> DEFINE Good == {d \in Nat : IsPrefix(Rounds(rest, m), Rounds(rest, m + d))}
<1>1. \A n \in Nat : Rounds(rest, n) \in Seq(X)
  BY RoundsStep
<1>2. 0 \in Good
  <2>1. m + 0 = m
    OBVIOUS
  <2>2. IsPrefix(Rounds(rest, m), Rounds(rest, m))
    BY <1>1, PrefixOfItself
  <2> QED BY <2>1, <2>2
<1>3. ASSUME NEW d \in Nat, d \in Good PROVE d + 1 \in Good
  <2>1. m + d \in Nat /\ m + (d + 1) = (m + d) + 1 /\ (m + d) + 1 \in Nat
    OBVIOUS
  <2>2. Rounds(rest, (m + d) + 1) = Rounds(rest, m + d) \o rest
    BY <2>1, RoundsStep
  <2>3. IsPrefix(Rounds(rest, m + d), Rounds(rest, (m + d) + 1))
    BY <1>1, <2>1, <2>2, PrefixOfConcat
  <2>4. IsPrefix(Rounds(rest, m), Rounds(rest, m + d))
    BY <1>3
  <2>5. IsPrefix(Rounds(rest, m), Rounds(rest, (m + d) + 1))
    BY <1>1, <2>1, <2>3, <2>4, PrefixTransitive
  <2> QED BY <2>1, <2>5
<1> HIDE DEF Good
<1>4. \A d \in Nat : d \in Good
  BY <1>2, <1>3, Induction
<1>5. ASSUME NEW n \in Nat, m <= n PROVE IsPrefix(Rounds(rest, m), Rounds(rest, n))
  <2>1. n - m \in Nat /\ m + (n - m) = n
    BY <1>5
  <2> QED BY <1>4, <2>1 DEF Good
<1> QED BY <1>5

-----------------------------------------------------------------------------
(* The loops.                                                              *)

\* The commands after the "repeat" that i stands at, and the number of times
\* they are to be run.
Rest == SubSeq(cmds, i + 1, Len(cmds))
Times == IF cmds[i].arg > 0 THEN cmds[i].arg ELSE 0

Bounds ==
  /\ cmds \in Seq(Segments) /\ Len(cmds) <= MaxCmds
  /\ pc \in {"commands", "repeating", "returned"}
  /\ i \in 1..Len(cmds) + 1 /\ j \in 1..Len(cmds) + 1 /\ r \in Nat
  /\ ran \in Seq(Segments)

\* No "repeat" stands before i, and what has run is what stands there.
InCommands ==
  /\ \A k \in 1..(i - 1) : cmds[k].op # "repeat"
  /\ ran = SubSeq(cmds, 1, i - 1)

\* A "repeat" stands at i, the first one, and what has run is what stands
\* before it, r - 1 rounds of what stands behind it, and a part of the round
\* at hand, of which nothing has run when the rounds are over.
InRepeat ==
  /\ \A k \in 1..(i - 1) : cmds[k].op # "repeat"
  /\ i <= Len(cmds) /\ cmds[i].op = "repeat"
  /\ r >= 1 /\ r - 1 <= Times
  /\ j >= i + 1 /\ (r > cmds[i].arg => j = i + 1)
  /\ ran = SubSeq(cmds, 1, i - 1) \o (Rounds(Rest, r - 1) \o SubSeq(cmds, i + 1, j - 1))

LoopInv ==
  /\ Bounds
  /\ pc = "commands" => InCommands
  /\ pc = "repeating" => InRepeat
  /\ pc = "returned" => ran = Expansion(cmds)

LEMMA SegmentArgs == \A x \in Segments : x.arg \in Int
BY SegmentsAssumption

\* With no "repeat" the commands are their own expansion.
LEMMA NoRepeat ==
  ASSUME Bounds, \A k \in 1..Len(cmds) : cmds[k].op # "repeat"
  PROVE  Expansion(cmds) = cmds
<1>1. DOMAIN cmds = 1..Len(cmds)
  BY DEF Bounds
<1>2. Repeats(cmds) = {}
  BY <1>1 DEF Repeats
<1> QED BY <1>2, SegmentArgs, ExpansionIs DEF Bounds

\* What the expansion is once the first "repeat" is found.
LEMMA FirstIsHere ==
  ASSUME Bounds, i <= Len(cmds), cmds[i].op = "repeat",
         \A k \in 1..(i - 1) : cmds[k].op # "repeat"
  PROVE  /\ cmds[i].arg \in Int /\ Times \in Nat
         /\ Rest \in Seq(Segments) /\ SubSeq(cmds, 1, i - 1) \in Seq(Segments)
         /\ Expansion(cmds) = SubSeq(cmds, 1, i - 1) \o Rounds(Rest, Times)
<1>1. i \in 1..Len(cmds) /\ DOMAIN cmds = 1..Len(cmds) /\ cmds \in Seq(Segments)
  BY DEF Bounds
<1>2. i \in Repeats(cmds)
  BY <1>1 DEF Repeats
<1>3. /\ FirstRepeat(cmds) \in 1..Len(cmds) /\ cmds[FirstRepeat(cmds)].op = "repeat"
      /\ FirstRepeat(cmds) <= i
  BY <1>1, <1>2, FirstRepeatExists
<1>4. FirstRepeat(cmds) = i
  <2> DEFINE p == FirstRepeat(cmds)
  <2>1. p \in 1..Len(cmds) /\ p <= i /\ ~ (p \in 1..(i - 1))
    BY <1>3
  <2> HIDE DEF p
  <2>2. p = i
    BY <1>1, <2>1
  <2> QED BY <2>2 DEF p
<1>5. cmds[i] \in Segments
  BY <1>1
<1>6. cmds[i].arg \in Int /\ Times \in Nat
  BY <1>5, SegmentArgs DEF Times
<1>7. Expansion(cmds) = SubSeq(cmds, 1, i - 1) \o Rounds(Rest, Times)
  BY <1>1, <1>2, <1>4, SegmentArgs, ExpansionIs DEF Repeated, Rest, Times
<1>8. Rest \in Seq(Segments) /\ SubSeq(cmds, 1, i - 1) \in Seq(Segments)
  BY <1>1 DEF Rest
<1> QED BY <1>6, <1>7, <1>8

\* The commands of a job string are segments, no more than fit in cmds.
LEMMA InitLoopInv == Init => LoopInv
<1> SUFFICES ASSUME Init PROVE LoopInv
  OBVIOUS
<1>1. PICK job \in Jobs : cmds = Commands(job)
  BY DEF Init
<1>2. job \in Seq(Segments)
  <2>1. PICK n \in 0..MaxSegments : job \in [1..n -> Segments]
    BY DEF Jobs
  <2>2. n \in Nat
    BY <2>1
  <2> QED BY <2>1, <2>2
<1>3. cmds \in Seq(Segments) /\ Len(cmds) <= MaxCmds
  BY <1>1, <1>2, CommandsType
<1>4. Bounds
  BY <1>3 DEF Init, Bounds
<1>5. SubSeq(cmds, 1, 0) = <<>>
  BY <1>3
<1>6. InCommands
  BY <1>5 DEF Init, InCommands
<1> QED BY <1>4, <1>6 DEF Init, LoopInv

LEMMA RunCommandKeeps ==
  ASSUME LoopInv, RunCommand PROVE LoopInv'
<1>1. /\ pc = "commands" /\ i \in 1..Len(cmds) /\ cmds[i].op # "repeat"
      /\ ran' = Append(ran, cmds[i]) /\ i' = i + 1
      /\ UNCHANGED <<cmds, pc, r, j>>
  BY DEF RunCommand, LoopInv, Bounds
<1>2. cmds \in Seq(Segments) /\ ran \in Seq(Segments) /\ cmds[i] \in Segments
  BY <1>1 DEF LoopInv, Bounds
<1>3. i + 1 \in 1..Len(cmds) + 1 /\ (i + 1) - 1 = i
  BY <1>1
<1>4. Append(ran, cmds[i]) \in Seq(Segments)
  BY <1>2
<1>5. Bounds'
  BY <1>1, <1>3, <1>4 DEF LoopInv, Bounds
<1>6. SubSeq(cmds, 1, i) = Append(SubSeq(cmds, 1, i - 1), cmds[i])
  <2>1. 1 \in Nat \ {0} /\ 1 <= i
    BY <1>1
  <2> QED BY <1>1, <1>2, <2>1, SubSeqGrows
<1>7. ran' = SubSeq(cmds, 1, i)
  BY <1>1, <1>6 DEF LoopInv, InCommands
<1>8. ASSUME NEW k \in 1..i PROVE cmds[k].op # "repeat"
  <2>1. k = i \/ k \in 1..(i - 1)
    BY <1>1
  <2> QED BY <1>1, <2>1 DEF LoopInv, InCommands
<1>9. InCommands'
  BY <1>1, <1>3, <1>7, <1>8 DEF InCommands
<1> QED BY <1>1, <1>5, <1>9 DEF LoopInv

LEMMA MeetRepeatKeeps ==
  ASSUME LoopInv, MeetRepeat PROVE LoopInv'
<1>1. /\ pc = "commands" /\ i \in 1..Len(cmds) /\ cmds[i].op = "repeat"
      /\ pc' = "repeating" /\ r' = 1 /\ j' = i + 1
      /\ UNCHANGED <<cmds, i, ran>>
  BY DEF MeetRepeat, LoopInv, Bounds
<1>2. Bounds'
  BY <1>1 DEF LoopInv, Bounds
<1>3. /\ Times \in Nat /\ Rest \in Seq(Segments)
      /\ SubSeq(cmds, 1, i - 1) \in Seq(Segments)
  BY <1>1, FirstIsHere DEF LoopInv, InCommands
<1>4. Rounds(Rest, 1 - 1) \o SubSeq(cmds, i + 1, (i + 1) - 1) = <<>>
  <2>1. Rounds(Rest, 0) = <<>>
    BY <1>3, RoundsStep
  <2>2. SubSeq(cmds, i + 1, (i + 1) - 1) = <<>>
    BY <1>1 DEF LoopInv, Bounds
  <2>3. 1 - 1 = 0 /\ <<>> \o <<>> = <<>>
    OBVIOUS
  <2> QED BY <2>1, <2>2, <2>3
<1>5. SubSeq(cmds, 1, i - 1) \o <<>> = SubSeq(cmds, 1, i - 1)
  BY <1>3
<1>6. /\ ran = SubSeq(cmds, 1, i - 1)
      /\ \A k \in 1..(i - 1) : cmds[k].op # "repeat"
  BY <1>1 DEF LoopInv, InCommands
<1>7. Rest' = Rest /\ Times' = Times
  BY <1>1 DEF Rest, Times
<1>8. ran' = SubSeq(cmds, 1, i - 1)
               \o (Rounds(Rest, 1 - 1) \o SubSeq(cmds, i + 1, (i + 1) - 1))
  BY <1>1, <1>4, <1>5, <1>6
<1>9. 1 >= 1 /\ 1 - 1 <= Times /\ i + 1 >= i + 1 /\ i <= Len(cmds)
  BY <1>1, <1>3
<1>10. InRepeat'
  BY <1>1, <1>6, <1>7, <1>8, <1>9 DEF InRepeat
<1> QED BY <1>1, <1>2, <1>10 DEF LoopInv

LEMMA NextRoundKeeps ==
  ASSUME LoopInv, NextRound PROVE LoopInv'
<1>1. /\ pc = "repeating" /\ r <= cmds[i].arg /\ j > Len(cmds)
      /\ r' = r + 1 /\ j' = i + 1
      /\ UNCHANGED <<cmds, pc, i, ran>>
  BY DEF NextRound
<1>2. InRepeat /\ Bounds
  BY <1>1 DEF LoopInv
<1>3. /\ cmds[i].arg \in Int /\ Times \in Nat /\ Rest \in Seq(Segments)
      /\ SubSeq(cmds, 1, i - 1) \in Seq(Segments)
  BY <1>2, FirstIsHere DEF InRepeat
<1>4. i \in 1..Len(cmds) /\ j = Len(cmds) + 1 /\ r \in Nat /\ r >= 1
      /\ cmds \in Seq(Segments)
  <2>1. /\ i \in 1..Len(cmds) + 1 /\ j \in 1..Len(cmds) + 1 /\ r \in Nat
        /\ cmds \in Seq(Segments)
    BY <1>2 DEF Bounds
  <2>2. i <= Len(cmds) /\ r >= 1 /\ j > Len(cmds)
    BY <1>1, <1>2 DEF InRepeat
  <2>3. Len(cmds) \in Nat
    BY <2>1
  <2> QED BY <2>1, <2>2, <2>3
<1>5. r - 1 \in Nat /\ (r - 1) + 1 = r /\ (r + 1) - 1 = r /\ r <= Times /\ r + 1 \in Nat
  BY <1>1, <1>3, <1>4 DEF Times
<1>6. Bounds'
  BY <1>1, <1>2, <1>4, <1>5 DEF Bounds
<1>7. Rounds(Rest, r) = Rounds(Rest, r - 1) \o Rest /\ Rounds(Rest, r) \in Seq(Segments)
  BY <1>3, <1>4, <1>5, RoundsStep
<1>8. SubSeq(cmds, i + 1, j - 1) = Rest
  <2>1. j - 1 = Len(cmds)
    BY <1>4
  <2> QED BY <2>1 DEF Rest
<1>9. SubSeq(cmds, i + 1, (i + 1) - 1) = <<>>
  BY <1>4
<1>10. Rounds(Rest, r) \o <<>> = Rounds(Rest, r)
  BY <1>7
<1>11. ran' = SubSeq(cmds, 1, i - 1)
                \o (Rounds(Rest, (r + 1) - 1) \o SubSeq(cmds, i + 1, (i + 1) - 1))
  BY <1>1, <1>2, <1>5, <1>7, <1>8, <1>9, <1>10 DEF InRepeat
<1>12. Rest' = Rest /\ Times' = Times
  BY <1>1 DEF Rest, Times
<1>13. r + 1 >= 1 /\ (r + 1) - 1 <= Times /\ i + 1 >= i + 1
  BY <1>4, <1>5
<1>14. InRepeat'
  BY <1>1, <1>2, <1>11, <1>12, <1>13 DEF InRepeat
<1> QED BY <1>1, <1>6, <1>14 DEF LoopInv

LEMMA RunRepeatedKeeps ==
  ASSUME LoopInv, RunRepeated PROVE LoopInv'
<1>1. /\ pc = "repeating" /\ r <= cmds[i].arg /\ j <= Len(cmds)
      /\ ran' = Append(ran, cmds[j]) /\ j' = j + 1
      /\ UNCHANGED <<cmds, pc, i, r>>
  BY DEF RunRepeated
<1>2. InRepeat /\ Bounds
  BY <1>1 DEF LoopInv
<1>3. /\ cmds[i].arg \in Int /\ Times \in Nat /\ Rest \in Seq(Segments)
      /\ SubSeq(cmds, 1, i - 1) \in Seq(Segments)
  BY <1>2, FirstIsHere DEF InRepeat
<1>4. /\ i \in 1..Len(cmds) /\ j \in 1..Len(cmds) /\ j >= i + 1 /\ r \in Nat /\ r >= 1
      /\ cmds \in Seq(Segments) /\ ran \in Seq(Segments)
  BY <1>1, <1>2 DEF InRepeat, Bounds
<1>5. cmds[j] \in Segments /\ r - 1 \in Nat /\ (j + 1) - 1 = j
      /\ j + 1 \in 1..Len(cmds) + 1
  BY <1>4
<1>6. Append(ran, cmds[j]) \in Seq(Segments)
  BY <1>4, <1>5
<1>7. Bounds'
  BY <1>1, <1>2, <1>5, <1>6 DEF Bounds
<1> DEFINE p == SubSeq(cmds, 1, i - 1)
           q == Rounds(Rest, r - 1)
           s == SubSeq(cmds, i + 1, j - 1)
<1>8. SubSeq(cmds, i + 1, j) = Append(s, cmds[j])
  <2>1. i + 1 \in Nat \ {0} /\ i + 1 <= j
    BY <1>4
  <2> QED BY <1>4, <2>1, SubSeqGrows
<1>9. p \in Seq(Segments) /\ q \in Seq(Segments) /\ s \in Seq(Segments)
  <2>1. s \in Seq(Segments)
    BY <1>4
  <2>2. q \in Seq(Segments)
    BY <1>3, <1>5, RoundsStep
  <2> QED BY <1>3, <2>1, <2>2
<1>10. ran = p \o (q \o s)
  BY <1>2 DEF InRepeat
<1>11. SubSeq(cmds, i + 1, (j + 1) - 1) = Append(s, cmds[j])
  BY <1>5, <1>8
<1> HIDE DEF p, q, s
<1>12. Append(p \o (q \o s), cmds[j]) = p \o (q \o Append(s, cmds[j]))
  <2> DEFINE x == cmds[j]
  <2>1. x \in Segments
    BY <1>5
  <2> HIDE DEF x
  <2>2. <<x>> \in Seq(Segments) /\ q \o s \in Seq(Segments) /\ p \o (q \o s) \in Seq(Segments)
    BY <1>9, <2>1
  <2>3. Append(p \o (q \o s), x) = (p \o (q \o s)) \o <<x>>
    BY <2>1, <2>2, AppendIsConcat
  <2>4. (p \o (q \o s)) \o <<x>> = p \o ((q \o s) \o <<x>>)
    <3> DEFINE y == q \o s
               z == <<x>>
    <3>1. p \in Seq(Segments) /\ y \in Seq(Segments) /\ z \in Seq(Segments)
      BY <1>9, <2>2
    <3> HIDE DEF y, z
    <3>2. Regroups(p, y, z)
      BY ONLY <3>1, ConcatRegroups
    <3> QED BY <3>2 DEF y, z, Regroups
  <2>5. (q \o s) \o <<x>> = q \o (s \o <<x>>)
    <3> DEFINE z == <<x>>
    <3>1. q \in Seq(Segments) /\ s \in Seq(Segments) /\ z \in Seq(Segments)
      BY <1>9, <2>2
    <3> HIDE DEF z
    <3>2. Regroups(q, s, z)
      BY ONLY <3>1, ConcatRegroups
    <3> QED BY <3>2 DEF z, Regroups
  <2>6. Append(s, x) = s \o <<x>>
    BY <1>9, <2>1, AppendIsConcat
  <2> QED BY <2>3, <2>4, <2>5, <2>6 DEF x
<1>13. ran' = p \o (q \o SubSeq(cmds, i + 1, (j + 1) - 1))
  BY <1>1, <1>10, <1>11, <1>12
<1>14. Rest' = Rest /\ Times' = Times
  BY <1>1 DEF Rest, Times
<1>15. j + 1 >= i + 1 /\ ~ (r > cmds[i].arg)
  BY <1>1, <1>3, <1>4
<1>16. InRepeat'
  BY <1>1, <1>2, <1>13, <1>14, <1>15 DEF InRepeat, p, q
<1> QED BY <1>1, <1>7, <1>16 DEF LoopInv

\* Either loop returns with all of the expansion behind it.
LEMMA ReturnKeeps ==
  ASSUME LoopInv, Return PROVE LoopInv'
<1>1. pc' = "returned" /\ UNCHANGED <<cmds, i, r, j, ran>>
  BY DEF Return
<1>2. Bounds'
  BY <1>1 DEF LoopInv, Bounds
<1>3. CASE pc = "commands" /\ i > Len(cmds)
  <2>1. i = Len(cmds) + 1 /\ i - 1 = Len(cmds) /\ cmds \in Seq(Segments)
    BY <1>3 DEF LoopInv, Bounds
  <2>2. Expansion(cmds) = cmds
    BY <1>3, <2>1, NoRepeat DEF LoopInv, InCommands
  <2>3. ran = SubSeq(cmds, 1, Len(cmds))
    BY <1>3, <2>1 DEF LoopInv, InCommands
  <2>4. SubSeq(cmds, 1, Len(cmds)) = cmds
    BY <2>1
  <2> QED BY <1>1, <1>2, <2>2, <2>3, <2>4 DEF LoopInv
<1>4. CASE pc = "repeating" /\ r > cmds[i].arg
  <2>1. InRepeat /\ Bounds
    BY <1>4 DEF LoopInv
  <2>2. /\ cmds[i].arg \in Int /\ Times \in Nat /\ Rest \in Seq(Segments)
        /\ Expansion(cmds) = SubSeq(cmds, 1, i - 1) \o Rounds(Rest, Times)
    BY <2>1, FirstIsHere DEF InRepeat
  <2>3. r \in Nat /\ r >= 1 /\ r - 1 <= Times /\ j = i + 1 /\ i \in 1..Len(cmds)
        /\ cmds \in Seq(Segments)
    BY <1>4, <2>1 DEF InRepeat, Bounds
  <2>4. r - 1 = Times
    <3> DEFINE a == cmds[i].arg
    <3>1. a \in Int /\ r \in Nat /\ r >= 1 /\ r - 1 <= Times /\ r > a
      BY <1>4, <2>2, <2>3
    <3>2. Times = IF a > 0 THEN a ELSE 0
      BY DEF Times
    <3> HIDE DEF a
    <3> QED BY <3>1, <3>2
  <2>5. SubSeq(cmds, i + 1, j - 1) = <<>>
    BY <2>3
  <2>6. Rounds(Rest, Times) \o <<>> = Rounds(Rest, Times)
    <3>1. Rounds(Rest, Times) \in Seq(Segments)
      BY <2>2, RoundsStep
    <3> QED BY <3>1
  <2>7. ran = Expansion(cmds)
    BY <2>1, <2>2, <2>4, <2>5, <2>6 DEF InRepeat
  <2> QED BY <1>1, <1>2, <2>7 DEF LoopInv
<1> QED BY <1>3, <1>4 DEF Return

LEMMA NextLoopInv == LoopInv /\ [Next]_vars => LoopInv'
<1>1. LoopInv /\ UNCHANGED vars => LoopInv'
  BY DEF LoopInv, Bounds, InCommands, InRepeat, Rest, Times, vars
<1> QED BY <1>1, RunCommandKeeps, MeetRepeatKeeps, NextRoundKeeps, RunRepeatedKeeps,
           ReturnKeeps DEF Next, Returned

\* What has run is the beginning of the expansion, in both loops.
LEMMA PrefixOfExpansion == LoopInv => RunsTheExpansion
<1> SUFFICES ASSUME LoopInv PROVE RunsTheExpansion
  OBVIOUS
<1>1. Expansion(cmds) \in Seq(Segments) /\ cmds \in Seq(Segments)
  BY SegmentArgs, ExpansionType DEF LoopInv, Bounds
<1>2. CASE pc = "commands"
  <2>1. i \in 1..Len(cmds) + 1 /\ InCommands /\ Bounds
    BY <1>2 DEF LoopInv, Bounds
  <2>2. CASE Repeats(cmds) = {}
    <3>1. Expansion(cmds) = cmds
      BY <1>1, <2>2, SegmentArgs, ExpansionIs
    <3>2. IsPrefix(SubSeq(cmds, 1, i - 1), SubSeq(cmds, 1, Len(cmds)))
      <4>1. 1 \in Nat \ {0} /\ i - 1 \in Nat /\ Len(cmds) \in Nat /\ 1 - 1 <= i - 1
            /\ i - 1 <= Len(cmds) /\ Len(cmds) <= Len(cmds)
        BY <1>1, <2>1
      <4> QED BY <1>1, <4>1, PrefixOfSub
    <3>3. SubSeq(cmds, 1, Len(cmds)) = cmds
      BY <1>1
    <3> QED BY <1>2, <2>1, <3>1, <3>2, <3>3 DEF InCommands, RunsTheExpansion
  <2>3. CASE Repeats(cmds) # {}
    <3> DEFINE p == FirstRepeat(cmds)
               n == IF cmds[p].arg > 0 THEN cmds[p].arg ELSE 0
               t == Rounds(Repeated(cmds), n)
               s == SubSeq(cmds, 1, p - 1)
    <3>1. /\ p \in 1..Len(cmds) /\ cmds[p].op = "repeat" /\ cmds[p].arg \in Int
          /\ Expansion(cmds) = s \o t
      <4>1. p \in DOMAIN cmds /\ cmds[p].op = "repeat"
        BY <1>1, <2>3, FirstRepeatExists
      <4>2. cmds[p].arg \in Int /\ Expansion(cmds) = s \o t
        BY <1>1, <2>3, SegmentArgs, ExpansionIs
      <4>3. DOMAIN cmds = 1..Len(cmds)
        BY <1>1
      <4> QED BY <4>1, <4>2, <4>3
    <3>2. n \in Nat /\ ~ (p \in 1..(i - 1))
      BY <2>1, <3>1 DEF InCommands
    <3> HIDE DEF n, p
    <3>3. Repeated(cmds) \in Seq(Segments)
      <4>1. SubSeq(cmds, p + 1, Len(cmds)) \in Seq(Segments)
        BY <1>1, <3>1
      <4> QED BY <4>1 DEF Repeated, p
    <3>4. t \in Seq(Segments) /\ s \in Seq(Segments)
      <4>1. t \in Seq(Segments)
        BY <3>2, <3>3, RoundsStep
      <4>2. s \in Seq(Segments)
        BY <1>1, <3>1
      <4> QED BY <4>1, <4>2
    <3>5. IsPrefix(SubSeq(cmds, 1, i - 1), s)
      <4>1. 1 \in Nat \ {0} /\ i - 1 \in Nat /\ p - 1 \in Nat /\ 1 - 1 <= i - 1
            /\ i - 1 <= p - 1 /\ p - 1 <= Len(cmds)
        BY <1>1, <2>1, <3>1, <3>2
      <4> QED BY <1>1, <4>1, PrefixOfSub
    <3> HIDE DEF s, t
    <3>6. IsPrefix(s, s \o t) /\ s \o t \in Seq(Segments)
      BY <3>4, PrefixOfConcat
    <3>7. SubSeq(cmds, 1, i - 1) \in Seq(Segments)
      BY <1>1, <2>1
    <3>8. IsPrefix(SubSeq(cmds, 1, i - 1), s \o t)
      BY <3>4, <3>5, <3>6, <3>7, PrefixTransitive
    <3> QED BY <1>2, <2>1, <3>1, <3>8 DEF InCommands, RunsTheExpansion
  <2> QED BY <2>2, <2>3
<1>3. CASE pc = "repeating"
  <2>1. InRepeat /\ Bounds
    BY <1>3 DEF LoopInv
  <2> DEFINE p == SubSeq(cmds, 1, i - 1)
             s == SubSeq(cmds, i + 1, j - 1)
  <2>2. /\ cmds[i].arg \in Int /\ Times \in Nat /\ Rest \in Seq(Segments)
        /\ p \in Seq(Segments) /\ Expansion(cmds) = p \o Rounds(Rest, Times)
    BY <2>1, FirstIsHere DEF InRepeat
  <2>3. /\ r \in Nat /\ r >= 1 /\ r - 1 <= Times /\ i \in 1..Len(cmds)
        /\ j \in 1..Len(cmds) + 1 /\ j >= i + 1 /\ (r > cmds[i].arg => j = i + 1)
        /\ ran = p \o (Rounds(Rest, r - 1) \o s)
    BY <2>1 DEF InRepeat, Bounds
  <2> HIDE DEF p
  <2>4. r - 1 \in Nat /\ (r - 1) + 1 = r
    BY <2>3
  <2>5. \A n \in Nat : Rounds(Rest, n) \in Seq(Segments)
    BY <2>2, RoundsStep
  <2>6. s \in Seq(Segments) /\ IsPrefix(s, Rest)
    <3>1. /\ i + 1 \in Nat \ {0} /\ j - 1 \in Nat /\ Len(cmds) \in Nat
          /\ (i + 1) - 1 <= j - 1 /\ j - 1 <= Len(cmds) /\ Len(cmds) <= Len(cmds)
      BY <1>1, <2>3
    <3>2. IsPrefix(s, Rest)
      BY <1>1, <3>1, PrefixOfSub DEF Rest
    <3>3. s \in Seq(Segments)
      BY <1>1, <2>3
    <3> QED BY <3>2, <3>3
  <2> DEFINE q == Rounds(Rest, r - 1)
  <2>7. q \in Seq(Segments)
    BY <2>4, <2>5
  <2>8. IsPrefix(q \o s, Rounds(Rest, Times))
    <3>1. CASE r > cmds[i].arg
      <4>1. s = <<>>
        BY <1>1, <2>3, <3>1
      <4>2. q \o s = q
        <5>1. q \o <<>> = q
          <6> HIDE DEF q
          <6> QED BY <2>7
        <5> QED BY <4>1, <5>1
      <4>3. IsPrefix(q, Rounds(Rest, Times))
        BY <2>2, <2>3, <2>4, RoundsPrefix
      <4> QED BY <4>2, <4>3
    <3>2. CASE ~ (r > cmds[i].arg)
      <4>1. r <= Times
        BY <2>2, <2>3, <3>2 DEF Times
      <4>2. Rounds(Rest, r) = q \o Rest
        BY <2>2, <2>4, RoundsStep
      <4> HIDE DEF q, s
      <4>3. IsPrefix(q \o s, q \o Rest)
        BY <2>2, <2>6, <2>7, PrefixAfter
      <4>4. IsPrefix(Rounds(Rest, r), Rounds(Rest, Times))
        BY <2>2, <2>3, <4>1, RoundsPrefix
      <4>5. q \o s \in Seq(Segments) /\ q \o Rest \in Seq(Segments)
        BY <2>2, <2>6, <2>7
      <4>6. Rounds(Rest, Times) \in Seq(Segments)
        BY <2>2, <2>5
      <4> QED BY <4>2, <4>3, <4>4, <4>5, <4>6, PrefixTransitive
    <3> QED BY <3>1, <3>2
  <2> HIDE DEF q, s
  <2>9. q \o s \in Seq(Segments) /\ Rounds(Rest, Times) \in Seq(Segments)
    <3>1. q \o s \in Seq(Segments)
      BY <2>6, <2>7
    <3> QED BY <2>2, <2>5, <3>1
  <2>10. IsPrefix(p \o (q \o s), p \o Rounds(Rest, Times))
    BY <2>2, <2>8, <2>9, PrefixAfter
  <2> QED BY <1>3, <2>2, <2>3, <2>10 DEF RunsTheExpansion, q
<1>4. CASE pc = "returned"
  <2>1. ran = Expansion(cmds)
    BY <1>4 DEF LoopInv
  <2> QED BY <1>1, <2>1, PrefixOfItself DEF RunsTheExpansion
<1> QED BY <1>2, <1>3, <1>4 DEF LoopInv, Bounds

\* The inductive invariant of the loops holds throughout the call.
THEOREM LoopsInvariant == Spec => []LoopInv
BY InitLoopInv, NextLoopInv, PTL DEF Spec

\* cmds is never read past n, and no more is ever in it than it holds.
THEOREM ReadsOnlyCommands == Spec => []TypeOK
<1>1. LoopInv => TypeOK
  <2> SUFFICES ASSUME LoopInv PROVE TypeOK
    OBVIOUS
  <2>1. \A k \in DOMAIN ran : ran[k] \in Segments
    BY DEF LoopInv, Bounds
  <2>2. pc = "repeating" => i <= Len(cmds)
    BY DEF LoopInv, InRepeat
  <2> QED BY <2>1, <2>2 DEF LoopInv, Bounds, TypeOK
<1> QED BY <1>1, LoopsInvariant, PTL

\* process_job runs the commands its job string means, in order and no others,
\* whatever stands in the string: at each moment a prefix of the expansion,
\* and all of it once it returns.
THEOREM JobRunsItsExpansion == Spec => []RunsTheExpansion
BY PrefixOfExpansion, LoopsInvariant, PTL
=============================================================================

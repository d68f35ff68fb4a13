---------------------------- MODULE UserPrograms ----------------------------
(***************************************************************************)
(* The HW4 user programs: ps.c and the tests of testps.c.                  *)
(*                                                                         *)
(* A program is an operator: given what its system calls have returned so  *)
(* far (g), it is the next call.  A result has the name of the call, the   *)
(* value returned and, for getProcInfo, what was filled in.  A test ends   *)
(* with test_pass or test_fail, ps with exit.                              *)
(*                                                                         *)
(* The sleeps of the tests only let others run, which they may do between  *)
(* any two calls, and are left out.  So are the tests that pass whatever   *)
(* the calls return (test_zombie_state, test_sleeping_state), those of the *)
(* sign and growth of nrswitch, here only zero or not, and the two that    *)
(* ask again what others ask with more children or random pids.            *)
(***************************************************************************)
EXTENDS Integers, Sequences, SequencesExt

CONSTANTS
  NumRounds     \* how often test_rapid_fork_exit forks: 10 in the code

ASSUME RoundsAssumption == NumRounds \in Nat

\* A call is its name and, for getProcInfo, the pid asked for.
Num == <<"getNumProc", 0>>
MaxPidCall == <<"getMaxPid", 0>>
Info(i) == <<"getProcInfo", i>>
Exists(i) == <<"exists", i>>       \* getProcInfo, but only for its value
Getpid == <<"getpid", 0>>
Fork == <<"fork", 0>>
Wait == <<"wait", 0>>
Exit_ == <<"exit", 0>>
Open == <<"open", 0>>
Close == <<"close", 0>>
Sbrk == <<"sbrk", 0>>
Pass == <<"test_pass", 0>>
Fail == <<"test_fail", 0>>

\* fork, open and sbrk may fail for want of a slot, a file or memory, which no
\* test is about.
Starved(g) ==
  \E i \in DOMAIN g : g[i].call \in {"fork", "open", "sbrk"} /\ g[i].ret = -1

InChild(g) == \E i \in DOMAIN g : g[i].call = "fork" /\ g[i].ret = 0

\* The calls of a script in order, and then the end.
Run(script, g, end) == IF Len(g) < Len(script) THEN script[Len(g) + 1] ELSE end

Verdict(ok) == IF ok THEN Pass ELSE Fail

Test(script, g, ok) == Run(script, g, Verdict(ok))

-----------------------------------------------------------------------------
(* testps.c.                                                               *)

test_numproc_positive(g) == Test(<<Num>>, g, g[1].ret > 0)

test_maxpid_positive(g) == Test(<<MaxPidCall>>, g, g[1].ret > 0)

test_maxpid_ge_numproc(g) == Test(<<Num, MaxPidCall>>, g, g[2].ret >= g[1].ret)

test_procinfo_self(g) ==
  IF g = <<>> THEN Getpid
  ELSE Test(<<Getpid, Exists(g[1].ret)>>, g, g[2].ret = 0)

test_procinfo_invalid(g) == Test(<<Exists(99999)>>, g, g[1].ret < 0)
test_procinfo_zero(g) == Test(<<Exists(0)>>, g, g[1].ret < 0)
test_procinfo_negative(g) == Test(<<Exists(-1)>>, g, g[1].ret < 0)

\* The tests of one field of the caller's own entry.
SelfTest(g, Holds(_)) ==
  IF g = <<>> THEN Getpid ELSE Test(<<Getpid, Info(g[1].ret)>>, g, Holds(g[2].info))

test_self_state_running(g) == SelfTest(g, LAMBDA i : i.state = "RUNNING")
test_self_size_positive(g) == SelfTest(g, LAMBDA i : i.sz > 0)
test_self_nfd_positive(g) == SelfTest(g, LAMBDA i : i.nfd >= 3)
test_self_ppid_positive(g) == SelfTest(g, LAMBDA i : i.ppid > 0)

ValidState == {"EMBRYO", "SLEEPING", "RUNNABLE", "RUNNING", "ZOMBIE"}

test_state_valid_range(g) == SelfTest(g, LAMBDA i : i.state \in ValidState)

test_procinfo_init(g) == Test(<<Exists(1)>>, g, g[1].ret = 0)
test_init_ppid_zero(g) == Test(<<Info(1)>>, g, g[1].info.ppid = 0)

test_fork_increases_numproc(g) ==
  IF InChild(g) THEN Exit_
  ELSE Test(<<Num, Fork, Num, Wait>>, g, g[3].ret > g[1].ret)

test_wait_decreases_numproc(g) ==
  IF InChild(g) THEN Exit_
  ELSE Test(<<Fork, Num, Wait, Num>>, g, g[4].ret < g[2].ret)

\* The child gives the verdict, and then exits as a program does.
test_child_ppid(g) ==
  IF InChild(g)
  THEN IF Len(g) = 2 THEN Getpid
       ELSE Test(<<Getpid, Fork, Getpid, Info(g[3].ret)>>, g, g[4].info.ppid = g[1].ret)
  ELSE Run(<<Getpid, Fork, Wait>>, g, Pass)

test_numproc_consistent(g) ==
  Test(<<Num, Num, Num>>, g, g[1].ret = g[2].ret /\ g[2].ret = g[3].ret)

test_maxpid_consistent(g) ==
  Test(<<MaxPidCall, MaxPidCall, MaxPidCall>>, g,
       g[1].ret = g[2].ret /\ g[2].ret = g[3].ret)

\* getMaxPid, and getProcInfo of every pid up to it.
AskAll(g, Ask(_)) == <<MaxPidCall>> \o [i \in 1..g[1].ret |-> Ask(i)]

test_query_all_pids(g) ==
  IF g = <<>> THEN MaxPidCall
  ELSE LET found == {k \in 2..Len(g) : g[k].ret = 0}
       IN  Test(AskAll(g, Info), g,
                /\ found # {}
                /\ \A k \in found :
                     /\ g[k].info.state \in ValidState
                     /\ g[k].info.sz > 0 /\ g[k].info.nfd >= 0)

test_open_increases_nfd(g) ==
  IF g = <<>> THEN Getpid
  ELSE IF Starved(g) THEN Fail
  ELSE Test(<<Getpid, Info(g[1].ret), Open, Info(g[1].ret), Close>>, g,
            g[4].info.nfd = g[2].info.nfd + 1)

test_close_decreases_nfd(g) ==
  IF g = <<>> THEN Getpid
  ELSE IF Starved(g) THEN Fail
  ELSE Test(<<Getpid, Open, Info(g[1].ret), Close, Info(g[1].ret)>>, g,
            g[5].info.nfd = g[3].info.nfd - 1)

test_maxpid_after_fork(g) ==
  IF InChild(g) THEN Exit_
  ELSE Test(<<MaxPidCall, Fork, MaxPidCall, Wait>>, g, g[3].ret >= g[1].ret)

test_child_size(g) ==
  IF InChild(g)
  THEN IF Len(g) = 3 THEN Getpid
       ELSE Test(<<Getpid, Info(g[1].ret), Fork, Getpid, Info(g[4].ret)>>, g,
                 g[5].info.sz > 0)
  ELSE IF g = <<>> THEN Getpid
  ELSE Run(<<Getpid, Info(g[1].ret), Fork, Wait>>, g, Pass)

test_numproc_matches_count(g) ==
  IF g = <<>> THEN MaxPidCall
  ELSE LET found == {k \in DOMAIN g : g[k].call = "exists" /\ g[k].ret = 0}
           actual == Cardinality(found)
       IN  Test(AskAll(g, Exists) \o <<Num>>, g, g[Len(g)].ret - actual \in -1..1)

test_procinfo_consistency(g) ==
  IF g = <<>> THEN Getpid
  ELSE LET again == Info(g[1].ret)
       IN  Test(<<Getpid, again, again, again>>, g,
                \A k \in {3, 4} : g[k].info.ppid = g[2].info.ppid
                                  /\ g[k].info.sz = g[2].info.sz)

test_sbrk_changes_size(g) ==
  IF g = <<>> THEN Getpid
  ELSE Test(<<Getpid, Info(g[1].ret), Sbrk, Info(g[1].ret)>>, g,
            g[4].info.sz > g[2].info.sz)

\* From the caller to its parent and on, ten times at most.
test_ppid_chain(g) ==
  IF g = <<>> THEN Getpid
  ELSE LET at == IF Len(g) = 1 THEN g[1].ret ELSE g[Len(g)].info.ppid
       IN  IF Len(g) > 1 /\ g[Len(g)].ret < 0 THEN Fail
           ELSE IF at > 1 /\ Len(g) <= 10 THEN Info(at)
           ELSE Verdict(at \in {0, 1})

test_rapid_fork_exit(g) ==
  IF InChild(g) THEN Exit_
  ELSE IF Starved(g) THEN Fail
  ELSE Test([k \in 1..2 * NumRounds |-> IF k % 2 = 1 THEN Fork ELSE Wait]
              \o <<Num, MaxPidCall>>, g,
            g[2 * NumRounds + 1].ret > 0 /\ g[2 * NumRounds + 2].ret > 0)

-----------------------------------------------------------------------------
(* ps.c.                                                                   *)

Swap(s, j) ==
  IF s[j] > s[j + 1] THEN [s EXCEPT ![j] = s[j + 1], ![j + 1] = s[j]] ELSE s

BubblePass(s, last) == FoldLeft(Swap, s, [j \in 1..last |-> j])

sortPids(s) ==
  FoldLeft(LAMBDA t, i : BubblePass(t, Len(s) - i), s, [i \in 1..(Len(s) - 1) |-> i])

\* The elements of s that are in S, put into an array one after the other.
Keep(s, S) == FoldLeft(LAMBDA t, x : IF x \in S THEN Append(t, x) ELSE t, <<>>, s)

\* The pids found in the first loop of main(), as a set and as the array it
\* fills, and what its second loop has been told of them.
Found(g) ==
  IF Len(g) < 2 THEN {} ELSE {i \in 1..g[2].ret : i + 2 <= Len(g) /\ g[i + 2].ret = 0}
pids(g) == Keep([i \in 1..g[2].ret |-> i], Found(g))
rows(g) ==
  IF Len(g) < 2 THEN <<>>
  ELSE Keep(SubSeq(g, 3 + g[2].ret, Len(g)), {r \in Range(g) : r.ret = 0})

ps(g) ==
  IF Len(g) < 2 THEN Run(<<Num, MaxPidCall>>, g, Exit_)
  ELSE IF Len(g) < 2 + g[2].ret THEN Exists(Len(g) - 1)
  ELSE LET sorted == sortPids(pids(g))
           shown == Len(g) - 2 - g[2].ret
       IN  IF shown < Len(sorted) THEN Info(sorted[shown + 1]) ELSE Exit_

-----------------------------------------------------------------------------
(* The programs by name.                                                   *)

\* Tests that pass whatever other processes do in the meantime.
Robust ==
  {"numproc_positive", "maxpid_positive", "procinfo_self", "procinfo_invalid",
   "procinfo_zero", "procinfo_negative", "self_state_running",
   "self_size_positive", "self_nfd_positive", "self_ppid_positive",
   "state_valid_range", "procinfo_init", "init_ppid_zero", "maxpid_after_fork",
   "child_size"}

\* Tests that need the system to themselves.
Quiet ==
  {"maxpid_ge_numproc", "fork_increases_numproc", "wait_decreases_numproc",
   "child_ppid", "numproc_consistent", "maxpid_consistent", "query_all_pids",
   "open_increases_nfd", "close_decreases_nfd", "numproc_matches_count",
   "procinfo_consistency", "sbrk_changes_size", "ppid_chain", "rapid_fork_exit"}

NextCall(t, g) ==
  CASE t = "ps" -> ps(g)
    [] t = "numproc_positive" -> test_numproc_positive(g)
    [] t = "maxpid_positive" -> test_maxpid_positive(g)
    [] t = "maxpid_ge_numproc" -> test_maxpid_ge_numproc(g)
    [] t = "procinfo_self" -> test_procinfo_self(g)
    [] t = "procinfo_invalid" -> test_procinfo_invalid(g)
    [] t = "procinfo_zero" -> test_procinfo_zero(g)
    [] t = "procinfo_negative" -> test_procinfo_negative(g)
    [] t = "self_state_running" -> test_self_state_running(g)
    [] t = "self_size_positive" -> test_self_size_positive(g)
    [] t = "self_nfd_positive" -> test_self_nfd_positive(g)
    [] t = "self_ppid_positive" -> test_self_ppid_positive(g)
    [] t = "state_valid_range" -> test_state_valid_range(g)
    [] t = "procinfo_init" -> test_procinfo_init(g)
    [] t = "init_ppid_zero" -> test_init_ppid_zero(g)
    [] t = "fork_increases_numproc" -> test_fork_increases_numproc(g)
    [] t = "wait_decreases_numproc" -> test_wait_decreases_numproc(g)
    [] t = "child_ppid" -> test_child_ppid(g)
    [] t = "numproc_consistent" -> test_numproc_consistent(g)
    [] t = "maxpid_consistent" -> test_maxpid_consistent(g)
    [] t = "query_all_pids" -> test_query_all_pids(g)
    [] t = "open_increases_nfd" -> test_open_increases_nfd(g)
    [] t = "close_decreases_nfd" -> test_close_decreases_nfd(g)
    [] t = "maxpid_after_fork" -> test_maxpid_after_fork(g)
    [] t = "child_size" -> test_child_size(g)
    [] t = "numproc_matches_count" -> test_numproc_matches_count(g)
    [] t = "procinfo_consistency" -> test_procinfo_consistency(g)
    [] t = "sbrk_changes_size" -> test_sbrk_changes_size(g)
    [] t = "ppid_chain" -> test_ppid_chain(g)
    [] t = "rapid_fork_exit" -> test_rapid_fork_exit(g)
=============================================================================

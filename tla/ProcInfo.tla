------------------------------ MODULE ProcInfo ------------------------------
(***************************************************************************)
(* The HW4 process-information system calls getNumProc, getMaxPid and      *)
(* getProcInfo, and the programs that use them, on the table of ProcTable. *)
(* Each call sees the table under ptable.lock; between two calls of a      *)
(* program the other processes go on.                                      *)
(*                                                                         *)
(* One program of UserPrograms runs at a time, with its children.  In a    *)
(* crowd the other processes make any call; else there is only init,       *)
(* which waits, and the program is one that needs the system to itself.    *)
(***************************************************************************)
EXTENDS ProcTable, UserPrograms

CONSTANTS
  MaxSz   \* bound on the pages of a process, from where sbrk fails

ASSUME SizeAssumption == MaxSz \in Nat

VARIABLES
  sz,     \* per slot: p->sz, in pages; nobody clears it
  nfd,    \* per slot: how many entries of p->ofile are in use
  prog,   \* per process: the program it runs, or "any" when unconstrained
  got,    \* per process: the results of the calls of its program
  crowd,  \* are there other processes?
  there   \* history: the pids in use ever since getMaxPid told ps

imageVars == <<sz, nfd>>
progVars == <<prog, got, crowd, there>>
infoVars == <<vars, imageVars, progVars>>

\* init has the console open three times.
InfoInit ==
  /\ Init
  /\ sz = [p \in Slots |-> IF p = initproc THEN 1 ELSE 0]
  /\ nfd = [p \in Slots |-> IF p = initproc THEN 3 ELSE 0]
  /\ prog = [p \in Slots |-> "any"] /\ got = [p \in Slots |-> <<>>]
  /\ crowd \in BOOLEAN
  /\ there = {}

-----------------------------------------------------------------------------
(* The system calls.                                                       *)

Active == {p \in Slots : state[p] # "UNUSED"}
ActivePids == {pid[p] : p \in Active}

\* A count that leaves out the zombies, a maximum that leaves out the zombies
\* and one that includes the next pid.
getNumProcOfLive == Cardinality({p \in Active : state[p] # "ZOMBIE"})
getMaxPidOfLive ==
  LET S == {pid[p] : p \in {q \in Active : state[q] # "ZOMBIE"}}
  IN  CHOOSE i \in S \cup {0} : \A j \in S : j <= i
getMaxPidNext == nextpid

getNumProc == Cardinality(Active)

getMaxPid == CHOOSE i \in ActivePids \cup {0} : \A j \in ActivePids : j <= i

\* What getProcInfo tells of the process in slot p, with the pid asked for.
processInfo(p) ==
  [pid |-> pid[p], state |-> state[p], nrswitch |-> nrswitch[p], sz |-> sz[p],
   nfd |-> nfd[p], ppid |-> IF parent[p] = None THEN 0 ELSE pid[parent[p]]]

\* An entry nobody has filled in, unlike that of any process.
NoInfo == [pid |-> -1, state |-> "UNUSED", nrswitch |-> FALSE, sz |-> -1,
           nfd |-> -1, ppid |-> -1]

Result(call, ret) == [call |-> call, ret |-> ret, info |-> NoInfo]

getProcInfo(i) ==
  LET matching == {p \in Active : pid[p] = i}
  IN  IF matching = {} THEN Result("getProcInfo", -1)
      ELSE [Result("getProcInfo", 0) EXCEPT !.info = processInfo(First(matching))]

exists(i) == Result("exists", getProcInfo(i).ret)

-----------------------------------------------------------------------------
(* The programs.                                                           *)

Calling(p) == NextCall(prog[p], got[p])

\* The process that runs on CPU c in user space, and is not to exit.
InUser(c, p) == Runs(c, p, "user") /\ ~ killed[p]

Running == {p \in Slots : prog[p] # "any"}

\* A process other than init starts a program.
Start(c) ==
  /\ Running = {}
  /\ \E p \in Slots \ {initproc} :
       /\ InUser(c, p)
       /\ \E t \in IF crowd THEN Robust \cup {"ps"} ELSE Quiet :
            prog' = [prog EXCEPT ![p] = t]
  /\ UNCHANGED <<vars, imageVars, got, crowd, there>>

Got(p, result) == got' = [got EXCEPT ![p] = Append(@, result)]

GetInfo(c) ==
  /\ ptable_lock = Free
  /\ \E p \in Running :
       /\ InUser(c, p)
       /\ \/ /\ Calling(p) = Num
             /\ Got(p, Result("getNumProc", getNumProc))
          \/ /\ Calling(p) = MaxPidCall
             /\ Got(p, Result("getMaxPid", getMaxPid))
          \/ /\ Calling(p)[1] = "getProcInfo"
             /\ Got(p, getProcInfo(Calling(p)[2]))
          \/ /\ Calling(p)[1] = "exists"
             /\ Got(p, exists(Calling(p)[2]))
       /\ there' = IF prog[p] = "ps" /\ Calling(p) = MaxPidCall
                   THEN ActivePids ELSE there
  /\ UNCHANGED <<vars, imageVars, prog, crowd>>

GetPid(c) ==
  /\ \E p \in Running :
       InUser(c, p) /\ Calling(p) = Getpid /\ Got(p, Result("getpid", pid[p]))
  /\ UNCHANGED <<vars, imageVars, prog, crowd, there>>

\* open and close: a free entry of ofile may be there or not.
Files(c) ==
  /\ \E p \in Running :
       /\ InUser(c, p)
       /\ \/ /\ Calling(p) = Open /\ Got(p, Result("open", 0))
             /\ nfd' = [nfd EXCEPT ![p] = @ + 1]
          \/ /\ Calling(p) = Open /\ Got(p, Result("open", -1))
             /\ UNCHANGED nfd
          \/ /\ Calling(p) = Close /\ Got(p, Result("close", 0))
             /\ nfd' = [nfd EXCEPT ![p] = @ - 1]
  /\ UNCHANGED <<vars, sz, prog, crowd, there>>

\* sbrk(4096).
Grow(c) ==
  /\ \E p \in Running :
       /\ InUser(c, p) /\ Calling(p) = Sbrk
       /\ \/ /\ sz[p] < MaxSz /\ Got(p, Result("sbrk", sz[p]))
             /\ sz' = [sz EXCEPT ![p] = @ + 1]
          \/ /\ Got(p, Result("sbrk", -1))
             /\ UNCHANGED sz
  /\ UNCHANGED <<vars, nfd, prog, crowd, there>>

\* The process has its verdict.
Finish(c) ==
  /\ \E p \in Running :
       /\ InUser(c, p) /\ Calling(p) \in {Pass, Fail}
       /\ prog' = [prog EXCEPT ![p] = "any"] /\ got' = [got EXCEPT ![p] = <<>>]
  /\ UNCHANGED <<vars, imageVars, crowd, there>>

\* exit() closes the files before it takes ptable.lock.
CloseFiles(c) ==
  /\ \E p \in Slots :
       Runs(c, p, "exit") /\ nfd[p] > 0 /\ nfd' = [nfd EXCEPT ![p] = 0]
  /\ UNCHANGED <<vars, sz, progVars>>

\* The system calls a process may make: those of its program; in a crowd any;
\* else init forks only when it is alone.
MayCall(p, call) ==
  \/ killed[p]
  \/ prog[p] # "any" /\ call = Calling(p)[1]
  \/ /\ prog[p] = "any"
     /\ crowd \/ call \in {"exit", "wait"} \/ (call = "fork" /\ Active = {p})

\* What a step of the table does: fork() copies the image of a process, and
\* makes it runnable.
Copied == {q \in Slots : kstack'[q] /\ ~ kstack[q]}
Born == {q \in Slots : state[q] = "EMBRYO" /\ state'[q] = "RUNNABLE"}
Freed == {q \in Slots : state[q] = "ZOMBIE" /\ state'[q] = "UNUSED"}
Dead == {q \in Slots : state'[q] = "ZOMBIE"}
Returned == {p \in Running : pc[p] # "user" /\ pc'[p] = "user"} \ Freed

CopyImage ==
  /\ sz' = [q \in Slots |-> IF q \in Copied THEN sz[parent'[q]] ELSE sz[q]]
  /\ nfd' = [q \in Slots |-> IF q \in Copied THEN nfd[parent'[q]] ELSE nfd[q]]

\* What fork() or wait() returns to p.
Returns(p) ==
  IF pc[p] \in {"wait", "waitscan"}
  THEN Result("wait", IF Freed = {} THEN -1 ELSE pid[First(Freed)])
  ELSE Result("fork", IF Born = {} THEN -1 ELSE pid[First(Born)])

TableStep ==
  /\ Next
  /\ \A p \in Slots : pc[p] = "user" /\ pc'[p] # "user" => MayCall(p, pc'[p])
  /\ \A q \in Dead : nfd[q] = 0
  /\ CopyImage
  /\ prog' = [p \in Slots |-> IF p \in Born THEN prog[parent[p]]
                              ELSE IF p \in Dead THEN "any" ELSE prog[p]]
  /\ got' = [p \in Slots |->
               IF p \in Returned THEN Append(got[p], Returns(p))
               ELSE IF p \in Born /\ prog[parent[p]] # "any"
                    THEN Append(got[parent[p]], Result("fork", 0))
               ELSE IF p \in Dead THEN <<>> ELSE got[p]]
  /\ there' = IF \E p \in Slots : prog'[p] = "ps" THEN there \cap ActivePids' ELSE {}
  /\ UNCHANGED crowd

InfoNext ==
  \/ TableStep
  \/ \E c \in CPUs :
       Start(c) \/ GetInfo(c) \/ GetPid(c) \/ Files(c) \/ Grow(c) \/ Finish(c)
       \/ CloseFiles(c)

InfoSpec == InfoInit /\ [][InfoNext]_infoVars

-----------------------------------------------------------------------------
(* Correctness.                                                            *)

RunsPs == {p \in Slots : prog[p] = "ps"}

\* ps finds no more pids than the table has slots, however long it looks and
\* whatever is forked meanwhile: pids[64], which ps.c fills without a check,
\* is large enough.
PidsFit == \A p \in RunsPs : Cardinality(Found(got[p])) <= NPROC

\* The listing is complete and in order: a process that is there all the time
\* has one row, and rows ascend.
ListsTheLiving ==
  \A p \in RunsPs :
    LET r == rows(got[p])
    IN  /\ Calling(p) = Exit_ => there \subseteq {r[i].info.pid : i \in DOMAIN r}
        /\ \A i, j \in DOMAIN r : i < j => r[i].info.pid < r[j].info.pid

\* The parent getProcInfo names was made before the process and has not been
\* freed, and its slot not reused, without the process being given to init;
\* only init and a process still under construction have none, and only the
\* latter may have no memory yet.
PpidIsOlder ==
  \A p \in Running : \A k \in DOMAIN got[p] :
    LET i == got[p][k].info
    IN  got[p][k].call = "getProcInfo" /\ got[p][k].ret = 0 =>
          /\ i.ppid < i.pid
          /\ i.ppid = 0 => i.pid = 1 \/ i.state = "EMBRYO"
          /\ i.sz = 0 => i.state = "EMBRYO"

\* No test of testps.c ends in test_fail, unless the system had no slot, file
\* or memory left for it: the robust ones whatever happens around them, the
\* quiet ones when they have the system to themselves.
TestsPass == \A p \in Running : Calling(p) = Fail => Starved(got[p])
=============================================================================

--------------------------- MODULE ProcTableProofs ---------------------------
(***************************************************************************)
(* Proofs about ProcTable, for any number of slots and any set of CPUs:    *)
(* its state invariants, the life of a slot, and the tree of processes;    *)
(* and what its steps do to pids, parents and slots, for ProcInfoProofs.   *)
(***************************************************************************)
EXTENDS ProcTable, WellFoundedInduction, TLAPS

-----------------------------------------------------------------------------
(* The inductive invariant.                                                *)

\* Where a CPU or its process holds ptable.lock.
Holds(c) ==
  \/ cpc[c] \in {"scan", "resuming", "switching"}
  \/ cpc[c] = "process" /\ pc[cproc[c]] \in {"waitscan", "sleepswitch"}

\* The lock has the owner it should have, and so no two CPUs are in such a
\* place at once.
LockInv == \A c \in CPUs : Holds(c) <=> ptable_lock = c

\* What a CPU does and the state of the process it does it with.
CpuInv ==
  \A c \in CPUs :
    /\ cproc[c] = None <=> cpc[c] \in {"idle", "scan"}
    /\ cproc[c] # None => scan[c] = cproc[c]
    /\ cpc[c] \in {"process", "resuming"} => state[cproc[c]] = "RUNNING"
    /\ cpc[c] = "process" => inside[cproc[c]] = "none"
    /\ cpc[c] = "switching" => state[cproc[c]] \in {"RUNNABLE", "SLEEPING", "ZOMBIE"}

\* A process that is RUNNING is on a CPU.
OnSome ==
  \A p \in Slots : state[p] = "RUNNING" =>
    \E c \in CPUs : cproc[c] = p /\ cpc[c] \in {"process", "resuming"}

\* No process is on two.
OnOne == \A c, d \in CPUs : cproc[c] # None /\ cproc[c] = cproc[d] => c = d

\* Where a process is suspended: in a place that goes with its state and with
\* the system call it is in.
ThreadInv ==
  \A p \in Slots :
    /\ state[p] \in {"UNUSED", "EMBRYO"} => pc[p] = "user"
    /\ state[p] = "RUNNABLE" => inside[p] \in {"forkret", "yield", "wait", "sleep"}
    /\ state[p] = "SLEEPING" => inside[p] \in {"wait", "sleep"}
    /\ state[p] = "ZOMBIE" => pc[p] = "exit"
    /\ inside[p] = "forkret" => pc[p] = "user"
    /\ inside[p] = "yield" => pc[p] \notin Uninterruptible
    /\ inside[p] = "wait" => pc[p] \in {"wait", "waitscan"}
    /\ inside[p] = "sleep" => pc[p] = "sleepswitch"

\* The slot a fork is filling: it has been given a stack and a parent, or not
\* yet, and no other fork is at it.
ForkInv ==
  /\ \A p \in Slots :
       /\ np[p] # None <=> pc[p] \in {"forkcopy", "forkrun"}
       /\ np[p] # None => state[np[p]] = "EMBRYO"
       /\ pc[p] = "forkcopy" => ~ kstack[np[p]] /\ parent[np[p]] = None
       /\ pc[p] = "forkrun" => /\ kstack[np[p]] /\ parent[np[p]] = p
                               /\ inside[np[p]] = "forkret"
  /\ \A p, q \in Slots : np[p] # None /\ np[p] = np[q] => p = q

\* Who lives has a stack, and a free slot has none.
StackInv ==
  \A p \in Slots : /\ p \in Live => kstack[p]
                   /\ state[p] = "UNUSED" => ~ kstack[p]

\* init has pid 1 and no parent and does not exit, and nobody is its own
\* parent.
RootInv ==
  /\ pid[initproc] = 1 /\ parent[initproc] = None /\ pc[initproc] # "exit"
  /\ \A p \in Slots : parent[p] # p

\* A process in the loop of sys_sleep holds tickslock until it has ptable.lock,
\* and so the tick that ends its wait, should it come before the process sleeps,
\* still has to wake it.
SleepInv ==
  /\ timer = "wakeup" => tickslock = Timer
  /\ \A c \in CPUs : \A p \in Slots :
       /\ Runs(c, p, "sleepcheck") \/ Runs(c, p, "sleepenter") => tickslock = c
       /\ Runs(c, p, "sleepenter") => Elapsed(p) < n[p]
       /\ Runs(c, p, "sleepswitch") => Elapsed(p) < n[p] \/ timer = "wakeup"

IInv ==
  /\ TypeOK /\ LockInv /\ CpuInv /\ OnSome /\ OnOne /\ ThreadInv /\ ForkInv
  /\ StackInv /\ PidsUnique /\ RootInv /\ ParentAlive /\ SleepInv
  /\ WaitMissesNothing /\ TickMissesNobody /\ NrSwitchOfThisProcess

\* What a step may do to the state of a slot, as LegalTransitions says it.
LegalMoves ==
  \A p \in Slots : state'[p] # state[p] =>
    <<state[p], state'[p]>> \in
      {<<"UNUSED", "EMBRYO">>, <<"EMBRYO", "UNUSED">>,
       <<"EMBRYO", "RUNNABLE">>, <<"RUNNABLE", "RUNNING">>,
       <<"RUNNING", "RUNNABLE">>, <<"RUNNING", "SLEEPING">>,
       <<"SLEEPING", "RUNNABLE">>, <<"RUNNING", "ZOMBIE">>,
       <<"ZOMBIE", "UNUSED">>}

USE TableAssumption, OwnersAssumption, CallsAssumption
USE DEF Slots, initproc, None, TicksChan

-----------------------------------------------------------------------------
(* The loops over the table, and what a CPU is on.                         *)

\* The order of the slots, as the theorems on well-founded relations want it.
Less == OpToRel(<, Nat)

\* A smaller number is before a larger one in that order.
LEMMA LessIsLess == \A q, p \in Nat : q < p => <<q, p>> \in Less
<1> SUFFICES ASSUME NEW q \in Nat, NEW p \in Nat, q < p  PROVE  <<q, p>> \in Less
  OBVIOUS
<1>1. <<q, p>> \in {pair \in Nat \X Nat : pair[1] < pair[2]}
  OBVIOUS
<1> QED BY <1>1 DEF Less, OpToRel

\* A loop over ptable.proc that stops at the first slot of a set stops at one.
LEMMA FirstIn ==
  ASSUME NEW S, S \subseteq Nat, S # {}
  PROVE  First(S) \in S
<1>1. IsWellFoundedOn(Less, Nat)
  BY NatLessThanWellFounded DEF Less
<1>2. PICK p \in S : \A q \in S : ~ (<<q, p>> \in Less)
  BY <1>1, WFMin
<1>3. \A q \in S : ~ (q < p)
  BY <1>2, LessIsLess, p \in Nat
<1>4. p \in S /\ \A q \in S : p <= q
  BY <1>3
<1> QED BY ONLY <1>4, Zenon DEF First

\* The process a CPU runs is RUNNING and not suspended.
LEMMA OnItsCpu ==
  ASSUME CpuInv, NEW c \in CPUs, NEW p \in Slots, NEW where, Runs(c, p, where)
  PROVE  /\ cproc[c] = p /\ cpc[c] = "process" /\ pc[p] = where
         /\ state[p] = "RUNNING" /\ inside[p] = "none"
BY DEF CpuInv, Runs

\* A CPU that is neither idle nor scanning is on a process.
LEMMA BusyWithOne ==
  ASSUME TypeOK, CpuInv
  PROVE  \A c \in CPUs :
           cpc[c] \in {"process", "resuming", "switching"} => cproc[c] \in Slots
BY DEF TypeOK, CpuInv

\* wakeup1 and kill only make sleepers runnable, which breaks nothing that is
\* said of who is on a CPU, of stacks, pids, parents and counters.
LEMMA WakingKeeps ==
  ASSUME IInv, state' \in [Slots -> States],
         \A q \in Slots : \/ state'[q] = state[q]
                          \/ state[q] = "SLEEPING" /\ state'[q] = "RUNNABLE",
         UNCHANGED <<pid, parent, chan, kstack, nrswitch, nextpid, cproc, cpc,
                     scan, inside>>
  PROVE  (CpuInv /\ OnSome /\ StackInv /\ PidsUnique /\ ParentAlive
            /\ NrSwitchOfThisProcess)'
<1>1. \A q \in Slots : /\ state'[q] = "UNUSED" <=> state[q] = "UNUSED"
                       /\ state'[q] = "EMBRYO" <=> state[q] = "EMBRYO"
                       /\ state'[q] = "ZOMBIE" <=> state[q] = "ZOMBIE"
                       /\ state'[q] = "RUNNING" <=> state[q] = "RUNNING"
                       /\ state'[q] = "SLEEPING" => state[q] = "SLEEPING"
  OBVIOUS
<1>2. CpuInv'
  <2>1. \A d \in CPUs :
          cpc[d] \in {"process", "resuming", "switching"} => cproc[d] \in Slots
    BY BusyWithOne DEF IInv
  <2> QED BY <2>1 DEF IInv, CpuInv
<1>3. OnSome'
  BY <1>1 DEF IInv, OnSome
<1>4. StackInv'
  BY <1>1 DEF IInv, StackInv, Live
<1>5. PidsUnique'
  BY <1>1 DEF IInv, PidsUnique
<1>6. ParentAlive'
  BY <1>1 DEF IInv, ParentAlive, Live
<1>7. NrSwitchOfThisProcess'
  BY <1>1 DEF IInv, NrSwitchOfThisProcess, ThreadInv
<1> QED BY <1>2, <1>3, <1>4, <1>5, <1>6, <1>7

\* The table userinit leaves satisfies the invariant.
LEMMA InitHolds == Init => IInv
<1> SUFFICES ASSUME Init  PROVE  IInv
  OBVIOUS
<1> USE DEF Init
<1>1. TypeOK
  BY DEF TypeOK, States, PCs, Calls
<1>2. LockInv /\ CpuInv /\ OnSome /\ OnOne
  BY DEF LockInv, Holds, CpuInv, OnSome, OnOne
<1>3. ThreadInv /\ RootInv
  <2>1. \A p \in Slots : pc[p] = "user" /\ inside[p] \in {"forkret", "none"}
    OBVIOUS
  <2>2. \A p \in Slots : state[p] \in {"RUNNABLE", "UNUSED"}
    OBVIOUS
  <2>3. \A p \in Slots : state[p] = "RUNNABLE" => inside[p] = "forkret"
    OBVIOUS
  <2>4. ThreadInv
    BY <2>1, <2>2, <2>3 DEF ThreadInv
  <2> QED BY <2>4 DEF RootInv
<1>4. ForkInv /\ StackInv
  BY DEF ForkInv, StackInv, Live
<1>5. SleepInv
  BY DEF SleepInv, Runs
<1>6. PidsUnique /\ ParentAlive
  BY DEF PidsUnique, ParentAlive, Live
<1>7. WaitMissesNothing /\ TickMissesNobody /\ NrSwitchOfThisProcess
  BY DEF WaitMissesNothing, TickMissesNobody, NrSwitchOfThisProcess
<1> QED BY <1>1, <1>2, <1>3, <1>4, <1>5, <1>6, <1>7 DEF IInv

-----------------------------------------------------------------------------
(* The scheduler.                                                           *)

\* scheduler() takes ptable.lock: nobody else held it.
LEMMA StepSchedulerLock ==
  ASSUME IInv, NEW c \in CPUs, SchedulerLock(c)
  PROVE  IInv' /\ LegalMoves
<1> USE DEF SchedulerLock, procVars, threadVars, tickVars
<1>1. TypeOK'
  <2>1. cpc' \in [CPUs -> {"idle", "scan", "resuming", "process", "switching"}]
    BY DEF IInv, TypeOK
  <2>2. ptable_lock' \in CPUs \cup {Free}
    OBVIOUS
  <2>3. scan' \in [CPUs -> 1..NPROC + 1]
    BY DEF IInv, TypeOK
  <2> QED BY <2>1, <2>2, <2>3 DEF IInv, TypeOK
<1>2. (OnOne /\ ThreadInv /\ ForkInv /\ StackInv /\ PidsUnique /\ RootInv /\
        ParentAlive /\ WaitMissesNothing /\ TickMissesNobody /\ NrSwitchOfThisProcess)'
  BY DEF IInv, OnOne, ThreadInv, ForkInv, StackInv, PidsUnique, RootInv,
     ParentAlive, WaitMissesNothing, TickMissesNobody, NrSwitchOfThisProcess,
     Uninterruptible, Live, Children, ZombieChildren, Elapsed
<1>3. LockInv'
  BY DEF IInv, LockInv, TypeOK, Holds
<1>4. CpuInv'
  BY DEF IInv, CpuInv
<1>5. OnSome'
  BY DEF IInv, OnSome
<1>6. SleepInv'
  BY DEF IInv, SleepInv, Runs, Elapsed
<1>7. LegalMoves
  BY DEF LegalMoves
<1> QED
  BY <1>1, <1>2, <1>3, <1>4, <1>5, <1>6, <1>7 DEF IInv

\* The process scheduler() picks was runnable, so no CPU was on it; it is now
\* RUNNING, on this CPU, with the lock still held.
LEMMA StepSchedulerPick ==
  ASSUME IInv, NEW c \in CPUs, SchedulerPick(c)
  PROVE  IInv' /\ LegalMoves
<1> DEFINE p == First(RunnableFrom(scan[c]))
<1>1. scan[c] \in Nat /\ RunnableFrom(scan[c]) # {}
  BY DEF IInv, TypeOK, SchedulerPick
<1>2. p \in Slots /\ state[p] = "RUNNABLE"
  <2>1. p \in RunnableFrom(scan[c])
    <3>1. RunnableFrom(scan[c]) \subseteq Nat
      BY <1>1 DEF RunnableFrom
    <3> QED BY <1>1, <3>1, FirstIn
  <2>2. scan[c] \in 1..NPROC + 1
    BY DEF IInv, TypeOK
  <2> QED BY <2>1, <2>2 DEF RunnableFrom
<1>3. /\ cpc[c] = "scan" /\ cpc' = [cpc EXCEPT ![c] = "resuming"]
      /\ cproc' = [cproc EXCEPT ![c] = p] /\ scan' = [scan EXCEPT ![c] = p]
      /\ state' = [state EXCEPT ![p] = "RUNNING"]
      /\ nrswitch' = [nrswitch EXCEPT ![p] = TRUE]
      /\ UNCHANGED <<pid, parent, chan, killed, kstack, nextpid, ptable_lock,
                     pc, inside, np, ticks, tickslock, ticks0, n, timer>>
  BY DEF SchedulerPick, threadVars, tickVars
<1> HIDE DEF p
<1>4. TypeOK'
  <2>1. cpc' \in [CPUs -> {"idle", "scan", "resuming", "process", "switching"}]
    BY <1>3 DEF IInv, TypeOK
  <2>2. cproc' \in [CPUs -> Slots \cup {None}]
    BY <1>2, <1>3 DEF IInv, TypeOK
  <2>3. scan' \in [CPUs -> 1..NPROC + 1]
    BY <1>2, <1>3 DEF IInv, TypeOK
  <2>4. state' \in [Slots -> States]
    BY <1>2, <1>3 DEF IInv, TypeOK, States
  <2>5. nrswitch' \in [Slots -> BOOLEAN]
    BY <1>2, <1>3 DEF IInv, TypeOK
  <2> QED BY <1>3, <2>1, <2>2, <2>3, <2>4, <2>5 DEF IInv, TypeOK
<1>5. RootInv'
  BY <1>3 DEF IInv, RootInv
<1>6. LockInv'
  BY <1>3 DEF IInv, LockInv, Holds
<1>7. CpuInv'
  BY <1>2, <1>3, SMTT(30) DEF IInv, CpuInv, TypeOK, LockInv, OnOne, States, PCs,
     Calls, Holds
<1>8. OnSome'
  BY <1>3 DEF IInv, OnSome, TypeOK, CpuInv
<1>9. OnOne'
  BY <1>2, <1>3, SMTT(30) DEF IInv, OnOne, TypeOK, CpuInv, LockInv, Holds
<1>10. ThreadInv'
  BY <1>3 DEF IInv, ThreadInv
<1>11. ForkInv'
  BY <1>2, <1>3 DEF IInv, ForkInv
<1>12. StackInv'
  BY <1>2, <1>3 DEF IInv, StackInv, Live
<1>13. PidsUnique'
  BY <1>2, <1>3 DEF IInv, PidsUnique
<1>14. ParentAlive'
  BY <1>2, <1>3 DEF IInv, ParentAlive, Live
<1>15. SleepInv'
  BY <1>3 DEF IInv, SleepInv, Runs, Elapsed
<1>16. WaitMissesNothing'
  BY <1>3 DEF IInv, WaitMissesNothing, Children, ZombieChildren
<1>17. TickMissesNobody'
  BY <1>3 DEF IInv, TickMissesNobody, Elapsed
<1>18. NrSwitchOfThisProcess'
  BY <1>3 DEF IInv, NrSwitchOfThisProcess, TypeOK
<1>19. LegalMoves
  BY <1>2, <1>3 DEF LegalMoves, IInv, TypeOK
<1> QED
  BY <1>4, <1>5, <1>6, <1>7, <1>8, <1>9, <1>10, <1>11, <1>12, <1>13, <1>14, <1>15,
     <1>16, <1>17, <1>18, <1>19 DEF IInv

\* The scan is over and the lock released.
LEMMA StepSchedulerUnlock ==
  ASSUME IInv, NEW c \in CPUs, SchedulerUnlock(c)
  PROVE  IInv' /\ LegalMoves
<1> USE DEF SchedulerUnlock, procVars, threadVars, tickVars
<1>1. TypeOK'
  <2>1. cpc' \in [CPUs -> {"idle", "scan", "resuming", "process", "switching"}]
    BY DEF IInv, TypeOK
  <2>2. ptable_lock' \in CPUs \cup {Free}
    OBVIOUS
  <2>3. scan' \in [CPUs -> 1..NPROC + 1]
    BY DEF IInv, TypeOK
  <2> QED BY <2>1, <2>2, <2>3 DEF IInv, TypeOK
<1>2. (OnOne /\ ThreadInv /\ ForkInv /\ StackInv /\ PidsUnique /\ RootInv /\
        ParentAlive /\ WaitMissesNothing /\ TickMissesNobody /\ NrSwitchOfThisProcess)'
  BY DEF IInv, OnOne, ThreadInv, ForkInv, StackInv, PidsUnique, RootInv,
     ParentAlive, WaitMissesNothing, TickMissesNobody, NrSwitchOfThisProcess,
     Uninterruptible, Live, Children, ZombieChildren, Elapsed
<1>3. LockInv'
  BY DEF IInv, LockInv, TypeOK, Holds
<1>4. CpuInv'
  BY DEF IInv, CpuInv
<1>5. OnSome'
  BY DEF IInv, OnSome
<1>6. SleepInv'
  BY DEF IInv, SleepInv, Runs, Elapsed
<1>7. LegalMoves
  BY DEF LegalMoves
<1> QED
  BY <1>1, <1>2, <1>3, <1>4, <1>5, <1>6, <1>7 DEF IInv

\* The scheduler is back with the lock its process has left it.
LEMMA StepSwitchBack ==
  ASSUME IInv, NEW c \in CPUs, SwitchBack(c)
  PROVE  IInv' /\ LegalMoves
<1> USE DEF SwitchBack, procVars, threadVars, tickVars
<1>1. cproc[c] # None /\ scan[c] = cproc[c]
  BY DEF IInv, CpuInv
<1>2. scan[c] \in Slots
  BY <1>1 DEF IInv, TypeOK
<1>3. TypeOK'
  <2>1. scan[c] + 1 \in 1..NPROC + 1
    BY <1>2
  <2>2. scan' \in [CPUs -> 1..NPROC + 1]
    BY <2>1 DEF IInv, TypeOK
  <2>3. /\ cpc' \in [CPUs -> {"idle", "scan", "resuming", "process", "switching"}]
        /\ cproc' \in [CPUs -> Slots \cup {None}]
    BY DEF IInv, TypeOK
  <2> QED BY <2>1, <2>2, <2>3 DEF IInv, TypeOK
<1>4. (ThreadInv /\ ForkInv /\ StackInv /\ PidsUnique /\ RootInv /\ ParentAlive /\
        WaitMissesNothing /\ TickMissesNobody /\ NrSwitchOfThisProcess)'
  BY DEF IInv, ThreadInv, ForkInv, StackInv, PidsUnique, RootInv, ParentAlive,
     WaitMissesNothing, TickMissesNobody, NrSwitchOfThisProcess, Uninterruptible,
     Live, Children, ZombieChildren, Elapsed
<1>5. LockInv'
  BY DEF IInv, LockInv, Holds
<1>6. CpuInv'
  BY DEF IInv, CpuInv, TypeOK
<1>7. OnSome'
  BY DEF IInv, OnSome
<1>8. OnOne'
  BY DEF IInv, OnOne
<1>9. SleepInv'
  BY DEF IInv, SleepInv, Runs, Elapsed
<1>10. LegalMoves
  BY DEF LegalMoves
<1> QED
  BY <1>3, <1>4, <1>5, <1>6, <1>7, <1>8, <1>9, <1>10 DEF IInv

\* The process goes on where it was suspended: only wait() keeps the lock.
LEMMA StepResume ==
  ASSUME IInv, NEW c \in CPUs, Resume(c)
  PROVE  IInv' /\ LegalMoves
<1> DEFINE p == cproc[c]
<1>1. cpc[c] = "resuming" /\ p # None /\ state[p] = "RUNNING"
  BY DEF IInv, CpuInv, Resume
<1>2. p \in Slots
  BY <1>1 DEF IInv, TypeOK
<1>3. /\ cpc' = [cpc EXCEPT ![c] = "process"]
      /\ inside' = [inside EXCEPT ![p] = "none"]
      /\ UNCHANGED <<state, pid, parent, killed, kstack, nrswitch, nextpid, cproc,
                     scan, np, ticks, tickslock, ticks0, n, timer>>
  BY DEF Resume, tickVars
<1>4. \/ /\ inside[p] \in {"yield", "forkret"} /\ ptable_lock' = Free
         /\ UNCHANGED <<chan, pc>>
      \/ /\ inside[p] = "wait" /\ UNCHANGED ptable_lock
         /\ chan' = [chan EXCEPT ![p] = None] /\ pc' = [pc EXCEPT ![p] = "waitscan"]
      \/ /\ inside[p] = "sleep" /\ ptable_lock' = Free
         /\ chan' = [chan EXCEPT ![p] = None] /\ pc' = [pc EXCEPT ![p] = "sleeprelock"]
  BY DEF Resume, Goes
<1>5. cproc[c] = p
  OBVIOUS
<1> HIDE DEF p
<1>6. \A q \in Slots \ {p} :
        pc'[q] = pc[q] /\ chan'[q] = chan[q] /\ inside'[q] = inside[q]
  BY <1>3, <1>4 DEF IInv, TypeOK
<1>7. ptable_lock = c
  BY <1>1 DEF IInv, LockInv, Holds
<1>8. /\ inside'[p] = "none"
      /\ pc'[p] \in {"waitscan", "sleeprelock"} \/ pc'[p] = pc[p]
      /\ inside[p] = "wait" => pc'[p] = "waitscan" /\ ptable_lock' = c
      /\ inside[p] # "wait" =>
           /\ pc'[p] \notin {"waitscan", "sleepcheck", "sleepenter", "sleepswitch"}
           /\ ptable_lock' = Free
  <2>1. pc[p] = "user" \/ pc[p] \notin Uninterruptible \/ inside[p] \in {"wait", "sleep"}
    BY <1>2, <1>4 DEF IInv, ThreadInv
  <2> QED BY <1>2, <1>3, <1>4, <1>7, <2>1 DEF IInv, TypeOK, Uninterruptible
<1>9. pc'[p] \in {"forkcopy", "forkrun"} <=> pc[p] \in {"forkcopy", "forkrun"}
  BY <1>2, <1>4, <1>8 DEF IInv, ThreadInv
<1>10. \A d \in CPUs \ {c} : cpc[d] = "process" => cproc[d] \in Slots \ {p}
  <2>1. \A d \in CPUs : cpc[d] = "process" => cproc[d] # None
    BY DEF IInv, CpuInv
  <2>2. \A d \in CPUs \ {c} : cproc[d] # p
    BY <1>2, <1>5 DEF IInv, OnOne
  <2> QED BY <2>1, <2>2 DEF IInv, TypeOK
<1>11. TypeOK'
  <2>1. /\ cpc' \in [CPUs -> {"idle", "scan", "resuming", "process", "switching"}]
        /\ inside' \in [Slots -> {"none", "forkret", "yield", "wait", "sleep", "exit"}]
    BY <1>3 DEF IInv, TypeOK
  <2>2. /\ chan' \in [Slots -> Slots \cup {None, TicksChan}]
        /\ pc' \in [Slots -> PCs] /\ ptable_lock' \in CPUs \cup {Free}
    <3>1. "waitscan" \in PCs /\ "sleeprelock" \in PCs
      BY DEF PCs
    <3>2. CASE pc' = pc
      BY <1>4, <3>2 DEF IInv, TypeOK
    <3>3. CASE pc' = [pc EXCEPT ![p] = "waitscan"]
      BY <1>4, <3>1, <3>3 DEF IInv, TypeOK
    <3>4. CASE pc' = [pc EXCEPT ![p] = "sleeprelock"]
      BY <1>4, <3>1, <3>4 DEF IInv, TypeOK
    <3> QED BY <1>4, <3>2, <3>3, <3>4
  <2> QED BY <1>3, <2>1, <2>2 DEF IInv, TypeOK
<1>12. (OnOne /\ StackInv /\ PidsUnique /\ ParentAlive)'
  BY <1>3 DEF IInv, OnOne, StackInv, PidsUnique, ParentAlive, Live
<1>13. LockInv'
  <2>1. \A d \in CPUs \ {c} : Holds(d)' <=> Holds(d)
    <3>1. \A d \in CPUs \ {c} : cpc'[d] = cpc[d] /\ cproc'[d] = cproc[d]
      BY <1>3
    <3> QED BY <3>1, <1>6, <1>10 DEF Holds
  <2>2. Holds(c)' <=> ptable_lock' = c
    BY <1>3, <1>5, <1>8 DEF IInv, TypeOK, Holds
  <2>3. \A d \in CPUs \ {c} : ~ Holds(d) /\ ptable_lock' # d
    BY <1>7, <1>8 DEF IInv, LockInv
  <2> QED BY <2>1, <2>2, <2>3 DEF LockInv
<1>14. CpuInv'
  BY <1>1, <1>3, <1>5, <1>8 DEF IInv, CpuInv
<1>15. OnSome'
  BY <1>3 DEF IInv, OnSome
<1>16. ThreadInv'
  BY <1>1, <1>3, <1>6, <1>8 DEF IInv, ThreadInv
<1>17. ForkInv'
  <2>1. \A q \in Slots : np[q] # None => np[q] \in Slots /\ np[q] # p
    BY <1>1 DEF IInv, TypeOK, ForkInv
  <2>2. pc'[p] \in {"forkcopy", "forkrun"} => pc'[p] = pc[p]
    BY <1>8
  <2> QED BY <1>2, <1>3, <1>6, <1>9, <2>1, <2>2 DEF IInv, ForkInv
<1>18. RootInv'
  BY <1>3, <1>6, <1>8 DEF IInv, RootInv
<1>19. SleepInv'
  <2>1. \A d \in CPUs, q \in Slots, where \in {"sleepcheck", "sleepenter", "sleepswitch"} :
          Runs(d, q, where)' => Runs(d, q, where)
    <3>1. \A d \in CPUs \ {c} : cpc'[d] = cpc[d] /\ cproc'[d] = cproc[d]
      BY <1>3
    <3>2. \A q \in Slots, where \in {"sleepcheck", "sleepenter", "sleepswitch"} :
            ~ Runs(c, q, where)'
      BY <1>3, <1>5, <1>8 DEF Runs
    <3> QED BY <1>6, <1>10, <3>1, <3>2 DEF Runs
  <2> QED BY <1>3, <2>1 DEF IInv, SleepInv, Elapsed
<1>20. WaitMissesNothing'
  BY <1>1, <1>3, <1>6 DEF IInv, WaitMissesNothing, Children, ZombieChildren
<1>21. TickMissesNobody'
  BY <1>1, <1>3, <1>6 DEF IInv, TickMissesNobody, Elapsed
<1>22. NrSwitchOfThisProcess'
  BY <1>3 DEF IInv, NrSwitchOfThisProcess
<1>23. LegalMoves
  BY <1>3 DEF LegalMoves
<1> QED
  BY <1>11, <1>12, <1>13, <1>14, <1>15, <1>16, <1>17, <1>18, <1>19, <1>20, <1>21,
     <1>22, <1>23 DEF IInv

\* The timer takes the CPU from a process that holds no lock.
LEMMA StepYield ==
  ASSUME IInv, NEW c \in CPUs, Yield(c)
  PROVE  IInv' /\ LegalMoves
<1>1. PICK p \in Slots, where \in PCs \ Uninterruptible :
          /\ Runs(c, p, where)
          /\ state' = [state EXCEPT ![p] = "RUNNABLE"]
          /\ inside' = [inside EXCEPT ![p] = "yield"]
          /\ cpc' = [cpc EXCEPT ![c] = "switching"]
  BY DEF Yield, Sched
<1>2. /\ ptable_lock = Free /\ ptable_lock' = c
      /\ UNCHANGED <<pid, parent, chan, killed, kstack, nrswitch, nextpid,
                     cproc, scan, pc, np, ticks, tickslock, ticks0, n, timer>>
  BY DEF Yield, tickVars
<1>3. /\ cproc[c] = p /\ cpc[c] = "process" /\ pc[p] = where
      /\ state[p] = "RUNNING" /\ inside[p] = "none"
  BY <1>1, OnItsCpu DEF IInv
<1>4. TypeOK'
  <2>1. state' \in [Slots -> States]
    BY <1>1 DEF IInv, TypeOK, States
  <2>2. inside' \in [Slots -> {"none", "forkret", "yield", "wait", "sleep", "exit"}]
    BY <1>1 DEF IInv, TypeOK
  <2>3. cpc' \in [CPUs -> {"idle", "scan", "resuming", "process", "switching"}]
    BY <1>1 DEF IInv, TypeOK
  <2>4. ptable_lock' \in CPUs \cup {Free}
    BY <1>2
  <2> QED BY <1>2, <2>1, <2>2, <2>3, <2>4 DEF IInv, TypeOK
<1>5. (OnOne /\ RootInv)'
  BY <1>2 DEF IInv, OnOne, RootInv
<1>6. LockInv'
  BY <1>1, <1>2 DEF IInv, LockInv, TypeOK, Holds
<1>7. CpuInv'
  BY <1>1, <1>2, <1>3, SMTT(30) DEF IInv, CpuInv, TypeOK, OnOne, States, PCs, Calls
<1>8. OnSome'
  BY <1>1, <1>2, <1>3 DEF IInv, OnSome, TypeOK
<1>9. ThreadInv'
  BY <1>1, <1>2, <1>3 DEF IInv, ThreadInv, TypeOK
<1>10. ForkInv'
  BY <1>1, <1>2, <1>3 DEF IInv, ForkInv
<1>11. StackInv'
  BY <1>1, <1>2, <1>3 DEF IInv, StackInv, Live
<1>12. PidsUnique'
  BY <1>1, <1>2, <1>3 DEF IInv, PidsUnique
<1>13. ParentAlive'
  BY <1>1, <1>2, <1>3 DEF IInv, ParentAlive, Live
<1>14. SleepInv'
  BY <1>1, <1>2 DEF IInv, SleepInv, Runs, Elapsed
<1>15. WaitMissesNothing'
  BY <1>1, <1>2 DEF IInv, WaitMissesNothing, Children, ZombieChildren
<1>16. TickMissesNobody'
  BY <1>1, <1>2 DEF IInv, TickMissesNobody, Elapsed
<1>17. NrSwitchOfThisProcess'
  BY <1>1, <1>2, <1>3 DEF IInv, NrSwitchOfThisProcess
<1>18. LegalMoves
  BY <1>1, <1>3 DEF LegalMoves, IInv, TypeOK
<1> QED
  BY <1>4, <1>5, <1>6, <1>7, <1>8, <1>9, <1>10, <1>11, <1>12, <1>13, <1>14, <1>15,
     <1>16, <1>17, <1>18 DEF IInv

-----------------------------------------------------------------------------
(* System calls.                                                            *)

\* A system call starts.
LEMMA StepEnterKernel ==
  ASSUME IInv, NEW c \in CPUs, EnterKernel(c)
  PROVE  IInv' /\ LegalMoves
<1>1. PICK p \in Slots, call \in Calls :
          /\ Runs(c, p, "user")
          /\ pc' = [pc EXCEPT ![p] = call]
          /\ call = "exit" => p # initproc
  BY DEF EnterKernel, Goes
<1>2. UNCHANGED <<state, pid, parent, chan, killed, kstack, nrswitch,
                     nextpid, ptable_lock, cproc, cpc, scan, inside, np, ticks,
                     tickslock, ticks0, n, timer>>
  BY DEF EnterKernel, procVars, cpuVars, tickVars
<1>3. /\ cproc[c] = p /\ cpc[c] = "process" /\ pc[p] = "user"
      /\ state[p] = "RUNNING" /\ inside[p] = "none"
  BY <1>1, OnItsCpu DEF IInv
<1>4. pc'[p] = call /\ \A q \in Slots \ {p} : pc'[q] = pc[q]
  BY <1>1 DEF IInv, TypeOK
<1>5. TypeOK'
  <2>1. pc' \in [Slots -> PCs]
    BY <1>1 DEF IInv, TypeOK, PCs
  <2> QED BY <1>2, <2>1 DEF IInv, TypeOK
<1>6. (CpuInv /\ OnSome /\ OnOne /\ StackInv /\ PidsUnique /\ ParentAlive /\
        WaitMissesNothing /\ TickMissesNobody /\ NrSwitchOfThisProcess)'
  BY <1>2 DEF IInv, CpuInv, OnSome, OnOne, StackInv, PidsUnique, ParentAlive,
     WaitMissesNothing, TickMissesNobody, NrSwitchOfThisProcess, Live, Children,
     ZombieChildren, Elapsed
<1>7. LockInv'
  BY <1>1, <1>2, <1>3 DEF IInv, LockInv, Holds, PCs, Calls
<1>8. ThreadInv'
  BY <1>1, <1>2, <1>3 DEF IInv, ThreadInv
<1>9. ForkInv'
  BY <1>2, <1>3, <1>4 DEF IInv, ForkInv, Calls
<1>10. RootInv'
  BY <1>1, <1>2 DEF IInv, RootInv
<1>11. SleepInv'
  BY <1>1, <1>2 DEF IInv, SleepInv, Runs, Elapsed, Calls
<1>12. LegalMoves
  BY <1>2 DEF LegalMoves
<1> QED
  BY <1>5, <1>6, <1>7, <1>8, <1>9, <1>10, <1>11, <1>12 DEF IInv

\* The slot allocproc() takes was free and gets a pid nobody has.
LEMMA StepAllocProc ==
  ASSUME IInv, NEW c \in CPUs, AllocProc(c)
  PROVE  IInv' /\ LegalMoves
<1>1. Unused \subseteq Nat
  BY DEF Unused
<1>2. PICK p \in Slots, q \in Unused :
          /\ Runs(c, p, "fork") /\ ptable_lock = Free
          /\ pc' = [pc EXCEPT ![p] = "forkcopy"]
          /\ state' = [state EXCEPT ![q] = "EMBRYO"]
          /\ pid' = [pid EXCEPT ![q] = nextpid]
          /\ nrswitch' = [nrswitch EXCEPT ![q] = FALSE]
          /\ np' = [np EXCEPT ![p] = q]
  BY <1>1, FirstIn DEF AllocProc, Goes
<1>3. /\ nextpid' = nextpid + 1
      /\ UNCHANGED <<parent, chan, killed, kstack, ptable_lock, cproc, cpc,
                     scan, inside, ticks, tickslock, ticks0, n, timer>>
  BY DEF AllocProc, cpuVars, tickVars
<1>4. /\ cproc[c] = p /\ cpc[c] = "process" /\ pc[p] = "fork"
      /\ state[p] = "RUNNING" /\ inside[p] = "none"
  BY <1>2, OnItsCpu DEF IInv
<1>5. q \in Slots /\ state[q] = "UNUSED" /\ q # p
  BY <1>4 DEF Unused
<1>6. \A r \in Slots \ {q} :
        state'[r] = state[r] /\ pid'[r] = pid[r] /\ nrswitch'[r] = nrswitch[r]
  BY <1>2
<1>7. state'[q] = "EMBRYO" /\ pid'[q] = nextpid /\ ~ nrswitch'[q]
  BY <1>2, <1>5 DEF IInv, TypeOK
<1>8. /\ pc'[p] = "forkcopy" /\ np'[p] = q
      /\ \A r \in Slots \ {p} : pc'[r] = pc[r] /\ np'[r] = np[r]
  BY <1>2 DEF IInv, TypeOK
<1>9. np[p] = None
  BY <1>4 DEF IInv, ForkInv
<1>10. TypeOK'
  <2>1. state' \in [Slots -> States]
    BY <1>2, <1>5 DEF IInv, TypeOK, States
  <2>2. pid' \in [Slots -> Nat]
    BY <1>2, <1>3, <1>4, <1>5 DEF IInv, TypeOK
  <2>3. nrswitch' \in [Slots -> BOOLEAN]
    BY <1>2, <1>5 DEF IInv, TypeOK
  <2>4. np' \in [Slots -> Slots \cup {None}]
    BY <1>2, <1>5 DEF IInv, TypeOK
  <2>5. pc' \in [Slots -> PCs]
    BY <1>2 DEF IInv, TypeOK, PCs
  <2>6. nextpid' \in Nat
    BY <1>3 DEF IInv, TypeOK
  <2> QED BY <1>3, <2>1, <2>2, <2>3, <2>4, <2>5, <2>6 DEF IInv, TypeOK
<1>11. OnOne'
  BY <1>3 DEF IInv, OnOne
<1>12. LockInv'
  BY <1>2, <1>3 DEF IInv, LockInv, Holds
<1>13. CpuInv'
  BY <1>2, <1>3, <1>5 DEF IInv, CpuInv
<1>14. OnSome'
  BY <1>2, <1>3 DEF IInv, OnSome
<1>15. ThreadInv'
  BY <1>2, <1>3, <1>4, <1>5 DEF IInv, ThreadInv
<1>16. ForkInv'
  <2>1. \A r \in Slots : np[r] # None => np[r] \in Slots \ {q} /\ state[np[r]] = "EMBRYO"
    BY <1>5 DEF IInv, TypeOK, ForkInv
  <2>2. ~ kstack[q] /\ parent[q] = None
    BY <1>5 DEF IInv, StackInv, ParentAlive
  <2> QED BY <1>3, <1>5, <1>6, <1>7, <1>8, <1>9, <2>1, <2>2 DEF IInv, ForkInv
<1>17. StackInv'
  BY <1>2, <1>3 DEF IInv, StackInv, Live
<1>18. PidsUnique'
  <2>1. nextpid \in Nat
    BY DEF IInv, TypeOK
  <2>2. pid[p] \in 1..(nextpid - 1)
    BY <1>4 DEF IInv, PidsUnique
  <2>3. \A r \in Slots \ {q} : state'[r] # "UNUSED" => pid'[r] \in 1..(nextpid - 1)
    BY <1>6 DEF IInv, PidsUnique
  <2>4. \A r, t \in Slots \ {q} :
          state'[r] # "UNUSED" /\ state'[t] # "UNUSED" /\ pid'[r] = pid'[t] => r = t
    BY <1>6 DEF IInv, PidsUnique
  <2>5. nextpid' = nextpid + 1
    BY <1>3
  <2> QED BY <1>7, <2>1, <2>2, <2>3, <2>4, <2>5 DEF PidsUnique
<1>19. RootInv'
  BY <1>3, <1>5, <1>6, <1>8 DEF IInv, RootInv, ParentAlive
<1>20. ParentAlive'
  BY <1>2, <1>3, <1>5 DEF IInv, ParentAlive, Live
<1>21. SleepInv'
  BY <1>2, <1>3 DEF IInv, SleepInv, Runs, Elapsed
<1>22. WaitMissesNothing'
  BY <1>2, <1>3 DEF IInv, WaitMissesNothing, Children, ZombieChildren
<1>23. TickMissesNobody'
  BY <1>2, <1>3 DEF IInv, TickMissesNobody, Elapsed
<1>24. NrSwitchOfThisProcess'
  BY <1>3, <1>6, <1>7 DEF IInv, NrSwitchOfThisProcess
<1>25. LegalMoves
  BY <1>5, <1>6, <1>7 DEF LegalMoves
<1> QED
  BY <1>10, <1>11, <1>12, <1>13, <1>14, <1>15, <1>16, <1>17, <1>18, <1>19, <1>20,
     <1>21, <1>22, <1>23, <1>24, <1>25 DEF IInv

\* fork() without a slot changes nothing.
LEMMA StepAllocFull ==
  ASSUME IInv, NEW c \in CPUs, AllocFull(c)
  PROVE  IInv' /\ LegalMoves
<1>1. PICK p \in Slots :
          /\ Runs(c, p, "fork")
          /\ pc' = [pc EXCEPT ![p] = "user"]
  BY DEF AllocFull, Goes
<1>2. UNCHANGED <<state, pid, parent, chan, killed, kstack, nrswitch,
                     nextpid, ptable_lock, cproc, cpc, scan, inside, np, ticks,
                     tickslock, ticks0, n, timer>>
  BY DEF AllocFull, procVars, cpuVars, tickVars
<1>3. /\ cproc[c] = p /\ cpc[c] = "process" /\ pc[p] = "fork"
      /\ state[p] = "RUNNING" /\ inside[p] = "none"
  BY <1>1, OnItsCpu DEF IInv
<1>4. TypeOK'
  <2>1. pc' \in [Slots -> PCs]
    BY <1>1 DEF IInv, TypeOK, PCs
  <2> QED BY <1>2, <2>1 DEF IInv, TypeOK
<1>5. (CpuInv /\ OnSome /\ OnOne /\ StackInv /\ PidsUnique /\ ParentAlive /\
        WaitMissesNothing /\ TickMissesNobody /\ NrSwitchOfThisProcess)'
  BY <1>2 DEF IInv, CpuInv, OnSome, OnOne, StackInv, PidsUnique, ParentAlive,
     WaitMissesNothing, TickMissesNobody, NrSwitchOfThisProcess, Live, Children,
     ZombieChildren, Elapsed
<1>6. LockInv'
  BY <1>1, <1>2, <1>3 DEF IInv, LockInv, Holds
<1>7. ThreadInv'
  BY <1>1, <1>2, <1>3 DEF IInv, ThreadInv
<1>8. ForkInv'
  BY <1>1, <1>2, <1>3 DEF IInv, ForkInv
<1>9. RootInv'
  BY <1>1, <1>2 DEF IInv, RootInv
<1>10. SleepInv'
  BY <1>1, <1>2 DEF IInv, SleepInv, Runs, Elapsed
<1>11. LegalMoves
  BY <1>2 DEF LegalMoves
<1> QED
  BY <1>4, <1>5, <1>6, <1>7, <1>8, <1>9, <1>10, <1>11 DEF IInv

\* The slot given back without ptable.lock is still the one fork() took, not
\* yet with a stack or a parent.
LEMMA StepForkFails ==
  ASSUME IInv, NEW c \in CPUs, ForkFails(c)
  PROVE  IInv' /\ LegalMoves
<1>1. PICK p \in Slots :
          /\ Runs(c, p, "forkcopy")
          /\ pc' = [pc EXCEPT ![p] = "user"]
          /\ state' = [state EXCEPT ![np[p]] = "UNUSED"]
          /\ np' = [np EXCEPT ![p] = None]
  BY DEF ForkFails, Goes
<1>2. UNCHANGED <<pid, parent, chan, killed, kstack, nrswitch, nextpid,
                     ptable_lock, cproc, cpc, scan, inside, ticks, tickslock,
                     ticks0, n, timer>>
  BY DEF ForkFails, cpuVars, tickVars
<1>3. /\ cproc[c] = p /\ cpc[c] = "process" /\ pc[p] = "forkcopy"
      /\ state[p] = "RUNNING" /\ inside[p] = "none"
  BY <1>1, OnItsCpu DEF IInv
<1>4. np[p] \in Slots /\ state[np[p]] = "EMBRYO" /\ np[p] # p
  BY <1>3 DEF IInv, TypeOK, ForkInv
<1>5. \A r \in Slots \ {p} : np[r] # None => np[r] \in Slots /\ np[r] # np[p]
  BY DEF IInv, TypeOK, ForkInv
<1>6. /\ pc'[p] = "user" /\ np'[p] = None
      /\ \A r \in Slots \ {p} : pc'[r] = pc[r] /\ np'[r] = np[r]
  BY <1>1 DEF IInv, TypeOK
<1>7. \A r \in Slots \ {np[p]} : state'[r] = state[r]
  BY <1>1
<1>8. state'[np[p]] = "UNUSED" /\ ~ kstack[np[p]] /\ parent[np[p]] = None
  BY <1>1, <1>3 DEF IInv, TypeOK, ForkInv
<1>9. TypeOK'
  <2>1. pc' \in [Slots -> PCs]
    BY <1>1 DEF IInv, TypeOK, PCs
  <2>2. state' \in [Slots -> States]
    BY <1>1, <1>4 DEF IInv, TypeOK, States
  <2>3. np' \in [Slots -> Slots \cup {None}]
    BY <1>1 DEF IInv, TypeOK
  <2> QED BY <1>2, <2>1, <2>2, <2>3 DEF IInv, TypeOK
<1>10. OnOne'
  BY <1>2 DEF IInv, OnOne
<1>11. LockInv'
  BY <1>1, <1>2, <1>3 DEF IInv, LockInv, Holds
<1>12. CpuInv'
  BY <1>1, <1>2, <1>4 DEF IInv, CpuInv
<1>13. OnSome'
  BY <1>1, <1>2 DEF IInv, OnSome
<1>14. ThreadInv'
  BY <1>1, <1>2, <1>3, <1>4 DEF IInv, ThreadInv
<1>15. ForkInv'
  BY <1>2, <1>5, <1>6, <1>7 DEF IInv, ForkInv
<1>16. StackInv'
  BY <1>2, <1>7, <1>8 DEF IInv, StackInv, Live
<1>17. PidsUnique'
  BY <1>1, <1>2 DEF IInv, PidsUnique
<1>18. RootInv'
  BY <1>1, <1>2 DEF IInv, RootInv
<1>19. ParentAlive'
  BY <1>2, <1>4, <1>7, <1>8 DEF IInv, ParentAlive, Live
<1>20. SleepInv'
  BY <1>1, <1>2 DEF IInv, SleepInv, Runs, Elapsed
<1>21. WaitMissesNothing'
  BY <1>1, <1>2 DEF IInv, WaitMissesNothing, Children, ZombieChildren
<1>22. TickMissesNobody'
  BY <1>1, <1>2 DEF IInv, TickMissesNobody, Elapsed
<1>23. NrSwitchOfThisProcess'
  BY <1>1, <1>2 DEF IInv, NrSwitchOfThisProcess
<1>24. LegalMoves
  BY <1>4, <1>7, <1>8 DEF LegalMoves
<1> QED
  BY <1>9, <1>10, <1>11, <1>12, <1>13, <1>14, <1>15, <1>16, <1>17, <1>18, <1>19,
     <1>20, <1>21, <1>22, <1>23, <1>24 DEF IInv

\* What fork() writes without ptable.lock is in a slot no other process uses:
\* it has no parent yet, so nobody else gains or loses a child but the caller.
LEMMA StepForkCopy ==
  ASSUME IInv, NEW c \in CPUs, ForkCopy(c)
  PROVE  IInv' /\ LegalMoves
<1>1. PICK p \in Slots :
          /\ Runs(c, p, "forkcopy")
          /\ pc' = [pc EXCEPT ![p] = "forkrun"]
          /\ kstack' = [kstack EXCEPT ![np[p]] = TRUE]
          /\ parent' = [parent EXCEPT ![np[p]] = p]
          /\ inside' = [inside EXCEPT ![np[p]] = "forkret"]
  BY DEF ForkCopy, Goes
<1>2. UNCHANGED <<state, pid, chan, killed, nrswitch, nextpid, ptable_lock,
                     cproc, cpc, scan, np, ticks, tickslock, ticks0, n, timer>>
  BY DEF ForkCopy, cpuVars, tickVars
<1>3. /\ cproc[c] = p /\ cpc[c] = "process" /\ pc[p] = "forkcopy"
      /\ state[p] = "RUNNING" /\ inside[p] = "none"
  BY <1>1, OnItsCpu DEF IInv
<1>4. np[p] \in Slots /\ state[np[p]] = "EMBRYO" /\ np[p] # p
  BY <1>3 DEF IInv, TypeOK, ForkInv
<1>5. \A r \in Slots \ {np[p]} :
        kstack'[r] = kstack[r] /\ parent'[r] = parent[r] /\ inside'[r] = inside[r]
  BY <1>1 DEF IInv, TypeOK
<1>6. /\ kstack'[np[p]] /\ parent'[np[p]] = p /\ inside'[np[p]] = "forkret"
      /\ pc'[p] = "forkrun" /\ \A r \in Slots \ {p} : pc'[r] = pc[r]
  BY <1>1, <1>4 DEF IInv, TypeOK
<1>7. parent[np[p]] = None
  BY <1>3 DEF IInv, ForkInv
<1>8. TypeOK'
  <2>1. pc' \in [Slots -> PCs]
    BY <1>1 DEF IInv, TypeOK, PCs
  <2>2. kstack' \in [Slots -> BOOLEAN]
    BY <1>1, <1>4 DEF IInv, TypeOK
  <2>3. parent' \in [Slots -> Slots \cup {None}]
    BY <1>1, <1>4 DEF IInv, TypeOK
  <2>4. inside' \in [Slots -> {"none", "forkret", "yield", "wait", "sleep", "exit"}]
    BY <1>1, <1>4 DEF IInv, TypeOK
  <2> QED BY <1>2, <2>1, <2>2, <2>3, <2>4 DEF IInv, TypeOK
<1>9. (OnSome /\ OnOne /\ PidsUnique /\ TickMissesNobody)'
  BY <1>2 DEF IInv, OnSome, OnOne, PidsUnique, TickMissesNobody, Elapsed
<1>10. LockInv'
  BY <1>1, <1>2, <1>3 DEF IInv, LockInv, Holds
<1>11. CpuInv'
  BY <1>1, <1>2, <1>4 DEF IInv, CpuInv
<1>12. ThreadInv'
  BY <1>1, <1>2, <1>3, <1>4 DEF IInv, ThreadInv
<1>13. ForkInv'
  <2>1. \A r \in Slots \ {p} : np[r] # None => np[r] \in Slots \ {np[p]}
    BY DEF IInv, TypeOK, ForkInv
  <2> QED BY <1>2, <1>3, <1>4, <1>5, <1>6, <2>1 DEF IInv, ForkInv
<1>14. StackInv'
  BY <1>1, <1>2, <1>4 DEF IInv, StackInv, Live
<1>15. RootInv'
  BY <1>2, <1>4, <1>5, <1>6 DEF IInv, RootInv, ParentAlive
<1>16. ParentAlive'
  BY <1>1, <1>2, <1>4 DEF IInv, ParentAlive, Live
<1>17. SleepInv'
  BY <1>1, <1>2 DEF IInv, SleepInv, Runs, Elapsed
<1>18. WaitMissesNothing'
  <2>1. \A q \in Slots \ {p} : Children(q)' = Children(q)
    BY <1>5, <1>6, <1>7 DEF Children
  <2>2. \A q \in Slots \ {p} : ZombieChildren(q)' = ZombieChildren(q)
    BY <1>2, <2>1 DEF ZombieChildren
  <2> QED BY <1>2, <1>3, <2>1, <2>2 DEF IInv, WaitMissesNothing
<1>19. NrSwitchOfThisProcess'
  BY <1>1, <1>2, <1>4 DEF IInv, NrSwitchOfThisProcess
<1>20. LegalMoves
  BY <1>2 DEF LegalMoves
<1> QED
  BY <1>8, <1>9, <1>10, <1>11, <1>12, <1>13, <1>14, <1>15, <1>16, <1>17, <1>18,
     <1>19, <1>20 DEF IInv

\* The child becomes runnable, complete.
LEMMA StepForkRun ==
  ASSUME IInv, NEW c \in CPUs, ForkRun(c)
  PROVE  IInv' /\ LegalMoves
<1>1. PICK p \in Slots :
          /\ Runs(c, p, "forkrun") /\ ptable_lock = Free
          /\ pc' = [pc EXCEPT ![p] = "user", ![np[p]] = "user"]
          /\ state' = [state EXCEPT ![np[p]] = "RUNNABLE"]
          /\ np' = [np EXCEPT ![p] = None]
  BY DEF ForkRun
<1>2. UNCHANGED <<pid, parent, chan, killed, kstack, nrswitch, nextpid,
                     ptable_lock, cproc, cpc, scan, inside, ticks, tickslock,
                     ticks0, n, timer>>
  BY DEF ForkRun, cpuVars, tickVars
<1>3. /\ cproc[c] = p /\ cpc[c] = "process" /\ pc[p] = "forkrun"
      /\ state[p] = "RUNNING" /\ inside[p] = "none"
  BY <1>1, OnItsCpu DEF IInv
<1>4. np[p] \in Slots /\ state[np[p]] = "EMBRYO" /\ np[p] # p
  BY <1>3 DEF IInv, TypeOK, ForkInv
<1>5. \A r \in Slots \ {p} : np'[r] = np[r]
  BY <1>1
<1>6. np'[p] = None /\ pc'[p] = "user" /\ pc'[np[p]] = "user"
  BY <1>1, <1>4 DEF IInv, TypeOK
<1>7. \A r \in Slots \ {np[p]} : state'[r] = state[r]
  BY <1>1
<1>8. \A r \in Slots \ {p, np[p]} : pc'[r] = pc[r]
  BY <1>1 DEF IInv, TypeOK
<1>9. /\ state'[np[p]] = "RUNNABLE" /\ inside[np[p]] = "forkret"
      /\ parent[np[p]] = p /\ kstack[np[p]]
  BY <1>1, <1>3 DEF IInv, TypeOK, ForkInv
<1>10. TypeOK'
  <2>1. pc' \in [Slots -> PCs]
    BY <1>1, <1>2, <1>3, <1>4 DEF IInv, TypeOK, PCs, Calls
  <2>2. state' \in [Slots -> States]
    BY <1>1, <1>4 DEF IInv, TypeOK, States
  <2>3. np' \in [Slots -> Slots \cup {None}]
    BY <1>1 DEF IInv, TypeOK
  <2> QED BY <1>2, <2>1, <2>2, <2>3 DEF IInv, TypeOK
<1>11. OnOne'
  BY <1>2 DEF IInv, OnOne
<1>12. LockInv'
  <2>1. \A d \in CPUs : cpc[d] = "process" => cproc[d] \in Slots
    BY BusyWithOne DEF IInv
  <2>2. \A d \in CPUs : ~ Holds(d)
    BY <1>1 DEF IInv, LockInv
  <2>3. \A d \in CPUs : ~ Holds(d)'
    BY <1>2, <1>6, <1>8, <2>1, <2>2 DEF Holds
  <2> QED BY <1>1, <1>2, <2>3 DEF LockInv
<1>13. CpuInv'
  BY <1>1, <1>2, <1>4 DEF IInv, CpuInv
<1>14. OnSome'
  BY <1>1, <1>2 DEF IInv, OnSome
<1>15. ThreadInv'
  BY <1>2, <1>3, <1>6, <1>7, <1>8, <1>9 DEF IInv, ThreadInv
<1>16. ForkInv'
  <2>1. \A r \in Slots \ {p} :
          np[r] # None => np[r] \in Slots \ {np[p]} /\ state[np[r]] = "EMBRYO"
    BY DEF IInv, ForkInv, TypeOK
  <2>2. np[np[p]] = None
    BY <1>4 DEF IInv, ForkInv, ThreadInv
  <2> QED BY <1>2, <1>4, <1>5, <1>6, <1>7, <1>8, <2>1, <2>2 DEF IInv, ForkInv
<1>17. StackInv'
  BY <1>2, <1>7, <1>9 DEF IInv, StackInv, Live
<1>18. PidsUnique'
  BY <1>1, <1>2, <1>4 DEF IInv, PidsUnique
<1>19. RootInv'
  BY <1>2, <1>6, <1>8 DEF IInv, RootInv
<1>20. ParentAlive'
  BY <1>2, <1>3, <1>7, <1>9 DEF IInv, ParentAlive, Live
<1>21. SleepInv'
  BY <1>1, <1>2 DEF IInv, SleepInv, TypeOK, Runs, Elapsed
<1>22. WaitMissesNothing'
  BY <1>1, <1>2 DEF IInv, WaitMissesNothing, Children, ZombieChildren
<1>23. TickMissesNobody'
  BY <1>1, <1>2 DEF IInv, TickMissesNobody, Elapsed
<1>24. NrSwitchOfThisProcess'
  BY <1>1, <1>2, <1>4 DEF IInv, NrSwitchOfThisProcess
<1>25. LegalMoves
  BY <1>4, <1>7, <1>9 DEF LegalMoves
<1> QED
  BY <1>10, <1>11, <1>12, <1>13, <1>14, <1>15, <1>16, <1>17, <1>18, <1>19, <1>20,
     <1>21, <1>22, <1>23, <1>24, <1>25 DEF IInv

\* exit() makes a zombie whose parent, and init if need be, no longer sleeps.
LEMMA StepExit ==
  ASSUME IInv, NEW c \in CPUs, Exit(c)
  PROVE  IInv' /\ LegalMoves
<1>1. PICK p \in Slots :
          /\ Runs(c, p, "exit")
          /\ parent' = [q \in Slots |-> IF q \in Children(p) THEN initproc ELSE parent[q]]
          /\ state' = [(IF ZombieChildren(p) = {} THEN Woken(state, parent[p])
                                 ELSE Woken(Woken(state, parent[p]), initproc))
                      EXCEPT ![p] = "ZOMBIE"]
          /\ inside' = [inside EXCEPT ![p] = "exit"]
          /\ cpc' = [cpc EXCEPT ![c] = "switching"]
  BY DEF Exit, Sched, ZombieChildren
<1>2. /\ ptable_lock = Free /\ ptable_lock' = c
      /\ UNCHANGED <<pid, chan, killed, kstack, nrswitch, nextpid, cproc, scan,
                     pc, np, ticks, tickslock, ticks0, n, timer>>
  BY DEF Exit, tickVars
<1>3. /\ cproc[c] = p /\ cpc[c] = "process" /\ pc[p] = "exit"
      /\ state[p] = "RUNNING" /\ inside[p] = "none"
  BY <1>1, OnItsCpu DEF IInv
<1>4. /\ state' \in [Slots -> States] /\ state'[p] = "ZOMBIE"
      /\ \A q \in Slots \ {p} :
           \/ state'[q] = state[q]
           \/ state[q] = "SLEEPING" /\ state'[q] = "RUNNABLE"
  BY <1>1 DEF IInv, TypeOK, States, Woken
<1>5. \A q \in Slots \ {p} :
        state'[q] = "SLEEPING" =>
          chan[q] # parent[p] /\ (chan[q] = initproc => ZombieChildren(p) = {})
  BY <1>1 DEF Woken
<1>6. \A q \in Slots : parent'[q] = IF parent[q] = p THEN initproc ELSE parent[q]
  BY <1>1 DEF Children
<1>7. /\ inside'[p] = "exit" /\ \A q \in Slots \ {p} : inside'[q] = inside[q]
      /\ cpc'[c] = "switching" /\ \A d \in CPUs \ {c} : cpc'[d] = cpc[d]
  BY <1>1 DEF IInv, TypeOK
<1>8. \A q \in Slots : /\ state'[q] = "UNUSED" <=> state[q] = "UNUSED"
                       /\ state'[q] = "EMBRYO" <=> state[q] = "EMBRYO"
                       /\ state'[q] = "ZOMBIE" <=> q = p \/ state[q] = "ZOMBIE"
                       /\ state'[q] = "RUNNING" <=> q # p /\ state[q] = "RUNNING"
  BY <1>3, <1>4
<1>9. TypeOK'
  <2>1. parent' \in [Slots -> Slots \cup {None}]
    BY <1>1 DEF IInv, TypeOK
  <2>2. state' \in [Slots -> States]
    BY <1>2, <1>3, <1>4, <1>5, <1>6
  <2>3. inside' \in [Slots -> {"none", "forkret", "yield", "wait", "sleep", "exit"}]
    BY <1>1 DEF IInv, TypeOK
  <2>4. cpc' \in [CPUs -> {"idle", "scan", "resuming", "process", "switching"}]
    BY <1>1 DEF IInv, TypeOK
  <2>5. ptable_lock' \in CPUs \cup {Free}
    BY <1>2
  <2> QED BY <1>2, <2>1, <2>2, <2>3, <2>4, <2>5 DEF IInv, TypeOK
<1>10. OnOne'
  BY <1>2 DEF IInv, OnOne
<1>11. LockInv'
  BY <1>1, <1>2, <1>6 DEF IInv, LockInv, TypeOK, Holds
<1>12. CpuInv'
  <2>1. \A d \in CPUs \ {c} : cproc[d] # p
    BY <1>3 DEF IInv, OnOne
  <2>2. \A d \in CPUs \ {c} : /\ cpc[d] # "switching"
                              /\ cpc[d] \in {"process", "resuming"} => cproc[d] \in Slots
    BY <1>2 DEF IInv, TypeOK, CpuInv, LockInv, Holds
  <2> QED BY <1>2, <1>3, <1>4, <1>7, <1>8, <2>1, <2>2 DEF IInv, CpuInv
<1>13. OnSome'
  BY <1>2, <1>3, <1>7, <1>8 DEF IInv, OnSome
<1>14. ThreadInv'
  BY <1>2, <1>3, <1>4, <1>7 DEF IInv, ThreadInv
<1>15. ForkInv'
  <2>1. np[p] = None
    BY <1>3 DEF IInv, ForkInv
  <2>2. \A r \in Slots : np[r] # None => np[r] \in Slots /\ state[np[r]] = "EMBRYO"
    BY DEF IInv, ForkInv, TypeOK
  <2>3. \A r \in Slots :
          np[r] # None => np[r] \in Slots \ {p} /\ state'[np[r]] = "EMBRYO" /\ r # p
    BY <1>8, <2>1, <2>2
  <2>4. \A r \in Slots : parent[np[r]] = p => np[r] = None \/ pc[r] = "forkcopy" \/ r = p
    BY DEF IInv, ForkInv
  <2> QED BY <1>2, <1>3, <1>6, <1>7, <2>1, <2>2, <2>3, <2>4 DEF IInv, ForkInv
<1>16. StackInv'
  BY <1>2, <1>8 DEF IInv, StackInv, Live
<1>17. PidsUnique'
  BY <1>2, <1>8 DEF IInv, PidsUnique
<1>18. RootInv'
  BY <1>2, <1>6 DEF IInv, RootInv
<1>19. ParentAlive'
  BY <1>3, <1>6, <1>8 DEF IInv, ParentAlive, RootInv, Live
<1>20. SleepInv'
  BY <1>1, <1>2 DEF IInv, SleepInv, Runs, Elapsed
<1>21. WaitMissesNothing'
  <2> SUFFICES ASSUME NEW q \in Slots, state'[q] = "SLEEPING", chan'[q] = q
               PROVE  Children(q)' # {} /\ ZombieChildren(q)' = {} /\ ~ killed'[q]
    BY DEF WaitMissesNothing
  <2>1. q # p /\ state[q] = "SLEEPING" /\ chan[q] = q
    BY <1>2, <1>4
  <2>2. Children(q) # {} /\ ZombieChildren(q) = {} /\ ~ killed[q]
    BY <2>1 DEF IInv, WaitMissesNothing
  <2>3. q # parent[p] /\ (q = initproc => ZombieChildren(p) = {})
    BY <1>5, <2>1
  <2>4. Children(q) \subseteq Children(q)'
    BY <1>6, <2>1 DEF Children
  <2>5. \A r \in Slots : parent'[r] = q => state'[r] # "ZOMBIE"
    <3> SUFFICES ASSUME NEW r \in Slots, parent'[r] = q  PROVE  state'[r] # "ZOMBIE"
      OBVIOUS
    <3>1. CASE parent[r] = p
      BY <1>6, <1>8, <2>3, <3>1 DEF IInv, Children, ZombieChildren, RootInv
    <3>2. CASE parent[r] = q
      BY <1>8, <2>2, <2>3, <3>2 DEF Children, ZombieChildren
    <3> QED BY <1>6, <3>1, <3>2
  <2> QED BY <1>2, <2>2, <2>4, <2>5 DEF Children, ZombieChildren
<1>22. TickMissesNobody'
  BY <1>2, <1>4 DEF IInv, TickMissesNobody, Elapsed
<1>23. NrSwitchOfThisProcess'
  BY <1>2, <1>3, <1>4, <1>7 DEF IInv, NrSwitchOfThisProcess, ThreadInv
<1>24. LegalMoves
  BY <1>3, <1>4 DEF LegalMoves
<1> QED
  BY <1>9, <1>10, <1>11, <1>12, <1>13, <1>14, <1>15, <1>16, <1>17, <1>18, <1>19,
     <1>20, <1>21, <1>22, <1>23, <1>24 DEF IInv

\* The child wait() frees has left its CPU: what runs is RUNNING, what switches
\* holds the lock.
LEMMA StepWaitReaps ==
  ASSUME IInv, NEW c \in CPUs, WaitReaps(c)
  PROVE  IInv' /\ LegalMoves
<1>1. PICK p \in Slots :
          LET q == First(ZombieChildren(p))
          IN  /\ InWait(c, p) /\ ZombieChildren(p) # {}
              /\ kstack' = [kstack EXCEPT ![q] = FALSE]
              /\ pid' = [pid EXCEPT ![q] = 0]
              /\ parent' = [parent EXCEPT ![q] = None]
              /\ killed' = [killed EXCEPT ![q] = FALSE]
              /\ state' = [state EXCEPT ![q] = "UNUSED"]
              /\ inside' = [inside EXCEPT ![q] = "none"]
              /\ pc' = [pc EXCEPT ![p] = "user", ![q] = "user"]
  BY DEF WaitReaps
<1> DEFINE q == First(ZombieChildren(p))
<1>2. /\ ptable_lock' = Free
      /\ UNCHANGED <<chan, nrswitch, nextpid, cproc, cpc, scan, np, ticks, tickslock,
                     ticks0, n, timer>>
  BY DEF WaitReaps, cpuVars, tickVars
<1>3. /\ cproc[c] = p /\ cpc[c] = "process"
      /\ state[p] = "RUNNING" /\ inside[p] = "none"
      /\ \/ pc[p] = "wait" /\ ptable_lock = Free
         \/ pc[p] = "waitscan" /\ ptable_lock = c
  BY <1>1, OnItsCpu DEF IInv, InWait
<1>4. q \in Slots /\ parent[q] = p /\ state[q] = "ZOMBIE" /\ q # p
  <2>1. ZombieChildren(p) \subseteq Nat
    BY DEF ZombieChildren, Children
  <2>2. q \in ZombieChildren(p)
    BY <1>1, <2>1, FirstIn
  <2> QED BY <1>3, <2>2 DEF ZombieChildren, Children
<1>5. /\ kstack' = [kstack EXCEPT ![q] = FALSE]
      /\ pid' = [pid EXCEPT ![q] = 0]
      /\ parent' = [parent EXCEPT ![q] = None]
      /\ killed' = [killed EXCEPT ![q] = FALSE]
      /\ state' = [state EXCEPT ![q] = "UNUSED"]
      /\ inside' = [inside EXCEPT ![q] = "none"]
      /\ pc' = [pc EXCEPT ![p] = "user", ![q] = "user"]
  BY <1>1
<1> HIDE DEF q
<1>6. \A r \in Slots \ {q} : /\ state'[r] = state[r] /\ pid'[r] = pid[r]
                             /\ parent'[r] = parent[r] /\ kstack'[r] = kstack[r]
                             /\ inside'[r] = inside[r]
  BY <1>5
<1>7. \A r \in Slots \ {p, q} : pc'[r] = pc[r]
  BY <1>5 DEF IInv, TypeOK
<1>8. /\ state'[q] = "UNUSED" /\ parent'[q] = None /\ ~ kstack'[q]
      /\ inside'[q] = "none" /\ pc'[q] = "user" /\ pc'[p] = "user"
  BY <1>5, <1>4 DEF IInv, TypeOK
<1>9. \A d \in CPUs : cproc[d] # q /\ (d # c => cproc[d] # p)
  <2>1. \A d \in CPUs \ {c} : ~ Holds(d)
    BY <1>3 DEF IInv, LockInv
  <2>2. \A d \in CPUs \ {c} : cproc[d] # None => state[cproc[d]] = "RUNNING"
    BY <2>1 DEF IInv, TypeOK, CpuInv, Holds
  <2> QED BY <1>3, <1>4, <2>2 DEF IInv, OnOne
<1>10. TypeOK'
  <2>1. kstack' \in [Slots -> BOOLEAN]
    BY <1>5, <1>4 DEF IInv, TypeOK
  <2>2. pid' \in [Slots -> Nat]
    BY <1>5, <1>2, <1>3, <1>4 DEF IInv, TypeOK
  <2>3. parent' \in [Slots -> Slots \cup {None}]
    BY <1>5, <1>4 DEF IInv, TypeOK
  <2>4. killed' \in [Slots -> BOOLEAN]
    BY <1>5, <1>4 DEF IInv, TypeOK
  <2>5. state' \in [Slots -> States]
    BY <1>5, <1>4 DEF IInv, TypeOK, States
  <2>6. inside' \in [Slots -> {"none", "forkret", "yield", "wait", "sleep", "exit"}]
    BY <1>5, <1>4 DEF IInv, TypeOK
  <2>7. pc' \in [Slots -> PCs]
    BY <1>5, <1>2, <1>3, <1>4 DEF IInv, TypeOK, PCs, Calls
  <2>8. ptable_lock' \in CPUs \cup {Free}
    BY <1>2
  <2> QED BY <1>2, <2>1, <2>2, <2>3, <2>4, <2>5, <2>6, <2>7, <2>8 DEF IInv, TypeOK
<1>11. OnOne'
  BY <1>2 DEF IInv, OnOne
<1>12. LockInv'
  <2>1. \A d \in CPUs : cpc[d] = "process" => cproc[d] \in Slots \ {q}
    BY <1>9, BusyWithOne DEF IInv
  <2>2. \A d \in CPUs \ {c} : ~ Holds(d)
    BY <1>3 DEF IInv, LockInv
  <2>3. \A d \in CPUs : ~ Holds(d)'
    BY <1>2, <1>3, <1>7, <1>8, <2>1, <2>2 DEF Holds
  <2> QED BY <1>2, <2>3 DEF LockInv
<1>13. CpuInv'
  <2>1. \A d \in CPUs :
          cpc[d] \in {"process", "resuming", "switching"} => cproc[d] \in Slots \ {q}
    BY <1>9, BusyWithOne DEF IInv
  <2> QED BY <1>2, <1>6, <2>1 DEF IInv, CpuInv
<1>14. OnSome'
  BY <1>5, <1>2 DEF IInv, OnSome
<1>15. ThreadInv'
  BY <1>3, <1>6, <1>7, <1>8 DEF IInv, ThreadInv
<1>16. ForkInv'
  <2>1. \A r \in Slots : np[r] # None => np[r] \in Slots \ {q}
    BY <1>4 DEF IInv, ForkInv, TypeOK
  <2>2. np[p] = None /\ np[q] = None
    BY <1>3, <1>4 DEF IInv, ForkInv, ThreadInv
  <2> QED BY <1>2, <1>6, <1>7, <1>8, <2>1, <2>2 DEF IInv, ForkInv
<1>17. StackInv'
  BY <1>5 DEF IInv, StackInv, TypeOK, Live
<1>18. PidsUnique'
  BY <1>2, <1>6, <1>8 DEF IInv, PidsUnique
<1>19. RootInv'
  BY <1>4, <1>6, <1>7, <1>8 DEF IInv, RootInv, ParentAlive
<1>20. ParentAlive'
  BY <1>4, <1>6, <1>8 DEF IInv, ParentAlive, Live
<1>21. SleepInv'
  BY <1>5, <1>2 DEF IInv, SleepInv, TypeOK, Runs, Elapsed
<1>22. WaitMissesNothing'
  BY <1>5, <1>2, <1>4 DEF IInv, WaitMissesNothing, Children, ZombieChildren
<1>23. TickMissesNobody'
  BY <1>5, <1>2 DEF IInv, TickMissesNobody, Elapsed
<1>24. NrSwitchOfThisProcess'
  BY <1>5, <1>2 DEF IInv, NrSwitchOfThisProcess
<1>25. LegalMoves
  BY <1>4, <1>6, <1>8 DEF LegalMoves
<1> QED
  BY <1>10, <1>11, <1>12, <1>13, <1>14, <1>15, <1>16, <1>17, <1>18, <1>19, <1>20,
     <1>21, <1>22, <1>23, <1>24, <1>25 DEF IInv

\* wait() returns -1 and releases the lock.
LEMMA StepWaitFails ==
  ASSUME IInv, NEW c \in CPUs, WaitFails(c)
  PROVE  IInv' /\ LegalMoves
<1>1. PICK p \in Slots :
          /\ InWait(c, p)
          /\ pc' = [pc EXCEPT ![p] = "user"]
  BY DEF WaitFails, Goes
<1>2. /\ ptable_lock' = Free
      /\ UNCHANGED <<state, pid, parent, chan, killed, kstack, nrswitch,
                     nextpid, cproc, cpc, scan, inside, np, ticks, tickslock,
                     ticks0, n, timer>>
  BY DEF WaitFails, procVars, cpuVars, tickVars
<1>3. /\ cproc[c] = p /\ cpc[c] = "process"
      /\ state[p] = "RUNNING" /\ inside[p] = "none"
      /\ \/ pc[p] = "wait" /\ ptable_lock = Free
         \/ pc[p] = "waitscan" /\ ptable_lock = c
  BY <1>1, OnItsCpu DEF IInv, InWait
<1>4. TypeOK'
  <2>1. pc' \in [Slots -> PCs]
    BY <1>1 DEF IInv, TypeOK, PCs
  <2>2. ptable_lock' \in CPUs \cup {Free}
    BY <1>2
  <2> QED BY <1>2, <2>1, <2>2 DEF IInv, TypeOK
<1>5. (CpuInv /\ OnSome /\ OnOne /\ StackInv /\ PidsUnique /\ ParentAlive /\
        WaitMissesNothing /\ TickMissesNobody /\ NrSwitchOfThisProcess)'
  BY <1>2 DEF IInv, CpuInv, OnSome, OnOne, StackInv, PidsUnique, ParentAlive,
     WaitMissesNothing, TickMissesNobody, NrSwitchOfThisProcess, Live, Children,
     ZombieChildren, Elapsed
<1>6. LockInv'
  BY <1>1, <1>2, <1>3, SMTT(30) DEF IInv, LockInv, TypeOK, CpuInv, OnOne, Holds,
     States, PCs, Calls
<1>7. ThreadInv'
  BY <1>1, <1>2, <1>3 DEF IInv, ThreadInv
<1>8. ForkInv'
  BY <1>1, <1>2, <1>3 DEF IInv, ForkInv
<1>9. RootInv'
  BY <1>1, <1>2 DEF IInv, RootInv
<1>10. SleepInv'
  BY <1>1, <1>2 DEF IInv, SleepInv, Runs, Elapsed
<1>11. LegalMoves
  BY <1>2 DEF LegalMoves
<1> QED
  BY <1>4, <1>5, <1>6, <1>7, <1>8, <1>9, <1>10, <1>11 DEF IInv

\* wait() sleeps with the lock it scanned the table with.
LEMMA StepWaitSleeps ==
  ASSUME IInv, NEW c \in CPUs, WaitSleeps(c)
  PROVE  IInv' /\ LegalMoves
<1>1. PICK p \in Slots :
          /\ InWait(c, p)
          /\ ZombieChildren(p) = {} /\ Children(p) # {} /\ ~ killed[p]
          /\ chan' = [chan EXCEPT ![p] = p]
          /\ state' = [state EXCEPT ![p] = "SLEEPING"]
          /\ inside' = [inside EXCEPT ![p] = "wait"]
          /\ cpc' = [cpc EXCEPT ![c] = "switching"]
  BY DEF WaitSleeps, Sched
<1>2. /\ ptable_lock' = c
      /\ UNCHANGED <<pid, parent, killed, kstack, nrswitch, nextpid, cproc,
                     scan, pc, np, ticks, tickslock, ticks0, n, timer>>
  BY DEF WaitSleeps, tickVars
<1>3. /\ cproc[c] = p /\ cpc[c] = "process"
      /\ state[p] = "RUNNING" /\ inside[p] = "none"
      /\ \/ pc[p] = "wait" /\ ptable_lock = Free
         \/ pc[p] = "waitscan" /\ ptable_lock = c
  BY <1>1, OnItsCpu DEF IInv, InWait
<1>4. /\ \A q \in Slots \ {p} : state'[q] = state[q] /\ chan'[q] = chan[q]
      /\ chan'[p] = p /\ p # TicksChan
  BY <1>1 DEF IInv, TypeOK
<1>5. TypeOK'
  <2>1. chan' \in [Slots -> Slots \cup {None, TicksChan}]
    BY <1>1 DEF IInv, TypeOK
  <2>2. state' \in [Slots -> States]
    BY <1>1 DEF IInv, TypeOK, States
  <2>3. inside' \in [Slots -> {"none", "forkret", "yield", "wait", "sleep", "exit"}]
    BY <1>1 DEF IInv, TypeOK
  <2>4. cpc' \in [CPUs -> {"idle", "scan", "resuming", "process", "switching"}]
    BY <1>1 DEF IInv, TypeOK
  <2>5. ptable_lock' \in CPUs \cup {Free}
    BY <1>2
  <2> QED BY <1>2, <2>1, <2>2, <2>3, <2>4, <2>5 DEF IInv, TypeOK
<1>6. (OnOne /\ RootInv)'
  BY <1>2 DEF IInv, OnOne, RootInv
<1>7. LockInv'
  BY <1>1, <1>2, <1>3 DEF IInv, LockInv, TypeOK, Holds
<1>8. CpuInv'
  BY <1>1, <1>2, <1>3, SMTT(30) DEF IInv, CpuInv, TypeOK, LockInv, OnOne, Calls,
     Holds
<1>9. OnSome'
  BY <1>1, <1>2, <1>3 DEF IInv, OnSome, TypeOK
<1>10. ThreadInv'
  BY <1>1, <1>2, <1>3 DEF IInv, ThreadInv, TypeOK
<1>11. ForkInv'
  BY <1>1, <1>2, <1>3 DEF IInv, ForkInv
<1>12. StackInv'
  BY <1>1, <1>2, <1>3 DEF IInv, StackInv, Live
<1>13. PidsUnique'
  BY <1>1, <1>2, <1>3 DEF IInv, PidsUnique
<1>14. ParentAlive'
  BY <1>1, <1>2, <1>3 DEF IInv, ParentAlive, Live
<1>15. SleepInv'
  BY <1>1, <1>2 DEF IInv, SleepInv, Runs, Elapsed
<1>16. WaitMissesNothing'
  BY <1>1, <1>2 DEF IInv, WaitMissesNothing, Children, ZombieChildren
<1>17. TickMissesNobody'
  BY <1>2, <1>4 DEF IInv, TickMissesNobody, Elapsed
<1>18. NrSwitchOfThisProcess'
  BY <1>1, <1>2, <1>3 DEF IInv, NrSwitchOfThisProcess
<1>19. LegalMoves
  BY <1>1, <1>3, <1>4 DEF LegalMoves, IInv, TypeOK
<1> QED
  BY <1>5, <1>6, <1>7, <1>8, <1>9, <1>10, <1>11, <1>12, <1>13, <1>14, <1>15, <1>16,
     <1>17, <1>18, <1>19 DEF IInv

\* kill() wakes a sleeper, and does no more to its state.
LEMMA StepKill ==
  ASSUME IInv, NEW c \in CPUs, Kill(c)
  PROVE  IInv' /\ LegalMoves
<1> DEFINE found(target) == {q \in Slots : pid[q] = target}
<1>1. PICK p \in Slots, target \in KillTargets :
          /\ Runs(c, p, "kill")
          /\ pc' = [pc EXCEPT ![p] = "user"]
          /\ IF found(target) = {}
             THEN UNCHANGED <<state, killed>>
             ELSE /\ killed' = [killed EXCEPT ![First(found(target))] = TRUE]
                  /\ state' = [state EXCEPT ![First(found(target))] =
                                 IF @ = "SLEEPING" THEN "RUNNABLE" ELSE @]
  BY DEF Kill, Goes
<1>2. /\ ptable_lock = Free
      /\ UNCHANGED <<pid, parent, chan, kstack, nrswitch, nextpid, ptable_lock, cproc,
                     cpc, scan, inside, np, ticks, tickslock, ticks0, n, timer>>
  BY DEF Kill, cpuVars, tickVars
<1>3. /\ cproc[c] = p /\ cpc[c] = "process" /\ pc[p] = "kill"
      /\ state[p] = "RUNNING" /\ inside[p] = "none"
  BY <1>1, OnItsCpu DEF IInv
<1>4. found(target) = {} \/ First(found(target)) \in Slots
  <2>1. found(target) \subseteq Nat /\ found(target) \subseteq Slots
    OBVIOUS
  <2> HIDE DEF found
  <2> QED BY <2>1, FirstIn
<1> HIDE DEF found
<1>5. state' \in [Slots -> States]
  <2>1. CASE found(target) = {}
    BY <1>1, <2>1 DEF IInv, TypeOK
  <2>2. CASE found(target) # {}
    <3>1. state \in [Slots -> States] /\ "RUNNABLE" \in States
      BY DEF IInv, TypeOK, States
    <3> QED BY <1>1, <1>4, <2>2, <3>1
  <2> QED BY <2>1, <2>2
<1>6. killed' \in [Slots -> BOOLEAN]
  BY <1>1 DEF IInv, TypeOK
<1>7. \A q \in Slots : \/ state'[q] = state[q]
                       \/ state[q] = "SLEEPING" /\ state'[q] = "RUNNABLE"
  BY <1>1, <1>4 DEF IInv, TypeOK
<1>8. \A q \in Slots : state'[q] = "SLEEPING" => killed'[q] = killed[q]
  BY <1>1, <1>4 DEF IInv, TypeOK
<1>9. pc'[p] = "user" /\ \A q \in Slots \ {p} : pc'[q] = pc[q]
  BY <1>1 DEF IInv, TypeOK
<1>10. TypeOK'
  <2>1. pc' \in [Slots -> PCs]
    BY <1>1 DEF IInv, TypeOK, PCs
  <2>2. state' \in [Slots -> States]
    BY <1>5
  <2>3. killed' \in [Slots -> BOOLEAN]
    BY <1>6
  <2> QED BY <1>2, <2>1, <2>2, <2>3 DEF IInv, TypeOK
<1>11. OnOne'
  BY <1>2 DEF IInv, OnOne
<1>12. LockInv'
  BY <1>1, <1>2 DEF IInv, LockInv, Holds
<1>13. (CpuInv /\ OnSome /\ StackInv /\ PidsUnique /\ ParentAlive /\
        NrSwitchOfThisProcess)'
  BY <1>2, <1>5, <1>7, WakingKeeps
<1>14. ThreadInv'
  BY <1>2, <1>3, <1>7, <1>9 DEF IInv, ThreadInv
<1>15. ForkInv'
  <2>1. \A q \in Slots : np[q] # None => np[q] \in Slots /\ state[np[q]] = "EMBRYO"
    BY DEF IInv, ForkInv, TypeOK
  <2>2. \A q \in Slots : np[q] # None => state'[np[q]] = "EMBRYO"
    BY <1>7, <2>1
  <2> QED BY <1>2, <1>3, <1>9, <2>1, <2>2 DEF IInv, ForkInv
<1>16. RootInv'
  BY <1>1, <1>2 DEF IInv, RootInv
<1>17. SleepInv'
  BY <1>1, <1>2 DEF IInv, SleepInv, Runs, Elapsed
<1>18. WaitMissesNothing'
  BY <1>2, <1>7, <1>8 DEF IInv, WaitMissesNothing, Children, ZombieChildren
<1>19. TickMissesNobody'
  BY <1>2, <1>7 DEF IInv, TickMissesNobody, Elapsed
<1>20. LegalMoves
  BY <1>7 DEF LegalMoves
<1> QED
  BY <1>10, <1>11, <1>12, <1>13, <1>14, <1>15, <1>16, <1>17, <1>18, <1>19, <1>20 DEF
     IInv

-----------------------------------------------------------------------------
(* sys_sleep() and the ticks.                                                *)

\* sys_sleep() takes tickslock and notes the time.
LEMMA StepSleepLock ==
  ASSUME IInv, NEW c \in CPUs, SleepLock(c)
  PROVE  IInv' /\ LegalMoves
<1>1. PICK p \in Slots, time \in SleepTimes :
          /\ Runs(c, p, "sleep")
          /\ pc' = [pc EXCEPT ![p] = "sleepcheck"]
          /\ ticks0' = [ticks0 EXCEPT ![p] = ticks]
          /\ n' = [n EXCEPT ![p] = time]
  BY DEF SleepLock, Goes
<1>2. /\ tickslock' = c
      /\ UNCHANGED <<state, pid, parent, chan, killed, kstack, nrswitch,
                     nextpid, ptable_lock, cproc, cpc, scan, inside, np, ticks,
                     timer>>
  BY DEF SleepLock, procVars, cpuVars
<1>3. /\ cproc[c] = p /\ cpc[c] = "process" /\ pc[p] = "sleep"
      /\ state[p] = "RUNNING" /\ inside[p] = "none"
  BY <1>1, OnItsCpu DEF IInv
<1>4. TypeOK'
  <2>1. pc' \in [Slots -> PCs]
    BY <1>1 DEF IInv, TypeOK, PCs
  <2>2. ticks0' \in [Slots -> 0..TickRange - 1]
    BY <1>1, <1>2, <1>3 DEF IInv, TypeOK
  <2>3. n' \in [Slots -> 0..TickRange - 1]
    BY <1>1, <1>2, <1>3 DEF IInv, TypeOK
  <2>4. tickslock' \in CPUs \cup {Timer, Free}
    BY <1>2
  <2> QED BY <1>2, <2>1, <2>2, <2>3, <2>4 DEF IInv, TypeOK
<1>5. (CpuInv /\ OnSome /\ OnOne /\ StackInv /\ PidsUnique /\ ParentAlive /\
        WaitMissesNothing /\ NrSwitchOfThisProcess)'
  BY <1>2 DEF IInv, CpuInv, OnSome, OnOne, StackInv, PidsUnique, ParentAlive,
     WaitMissesNothing, NrSwitchOfThisProcess, Live, Children, ZombieChildren
<1>6. LockInv'
  BY <1>1, <1>2, <1>3 DEF IInv, LockInv, Holds
<1>7. ThreadInv'
  BY <1>1, <1>2, <1>3 DEF IInv, ThreadInv
<1>8. ForkInv'
  BY <1>1, <1>2, <1>3 DEF IInv, ForkInv
<1>9. RootInv'
  BY <1>1, <1>2 DEF IInv, RootInv
<1>10. SleepInv'
  <2>1. tickslock = Free /\ timer # "wakeup"
    BY DEF SleepLock, IInv, SleepInv
  <2>2. \A d \in CPUs, q \in Slots :
          ~ Runs(d, q, "sleepcheck") /\ ~ Runs(d, q, "sleepenter")
    BY <2>1 DEF IInv, SleepInv
  <2>3. \A d \in CPUs, q \in Slots :
          /\ Runs(d, q, "sleepcheck")' => d = c
          /\ ~ Runs(d, q, "sleepenter")'
          /\ Runs(d, q, "sleepswitch")' => Runs(d, q, "sleepswitch") /\ q # p
    <3>1. \A q \in Slots \ {p} : pc'[q] = pc[q]
      BY <1>1 DEF IInv, TypeOK
    <3>2. pc'[p] = "sleepcheck"
      BY <1>1 DEF IInv, TypeOK
    <3>3. \A d \in CPUs : cproc[d] = p => d = c
      BY <1>3 DEF IInv, OnOne
    <3>4. \A d \in CPUs, q \in Slots \ {p} :
            /\ Runs(d, q, "sleepcheck")' <=> Runs(d, q, "sleepcheck")
            /\ Runs(d, q, "sleepenter")' <=> Runs(d, q, "sleepenter")
            /\ Runs(d, q, "sleepswitch")' <=> Runs(d, q, "sleepswitch")
      BY <1>2, <3>1 DEF Runs
    <3>5. \A d \in CPUs :
            /\ Runs(d, p, "sleepcheck")' => d = c
            /\ ~ Runs(d, p, "sleepenter")' /\ ~ Runs(d, p, "sleepswitch")'
      BY <1>2, <3>2, <3>3 DEF Runs
    <3> QED BY <2>2, <3>4, <3>5
  <2>4. \A q \in Slots \ {p} : Elapsed(q)' = Elapsed(q) /\ n'[q] = n[q]
    BY <1>1, <1>2 DEF IInv, TypeOK, Elapsed
  <2> QED BY <1>2, <2>1, <2>3, <2>4 DEF IInv, SleepInv
<1>11. TickMissesNobody'
  BY <1>1, <1>2, <1>3 DEF IInv, TickMissesNobody, Elapsed
<1>12. LegalMoves
  BY <1>2 DEF LegalMoves
<1> QED
  BY <1>4, <1>5, <1>6, <1>7, <1>8, <1>9, <1>10, <1>11, <1>12 DEF IInv

\* sys_sleep() has tickslock again.
LEMMA StepSleepRelock ==
  ASSUME IInv, NEW c \in CPUs, SleepRelock(c)
  PROVE  IInv' /\ LegalMoves
<1>1. PICK p \in Slots :
          /\ Runs(c, p, "sleeprelock")
          /\ pc' = [pc EXCEPT ![p] = "sleepcheck"]
  BY DEF SleepRelock, Goes
<1>2. /\ tickslock' = c
      /\ UNCHANGED <<state, pid, parent, chan, killed, kstack, nrswitch,
                     nextpid, ptable_lock, cproc, cpc, scan, inside, np, ticks,
                     ticks0, n, timer>>
  BY DEF SleepRelock, procVars, cpuVars
<1>3. /\ cproc[c] = p /\ cpc[c] = "process" /\ pc[p] = "sleeprelock"
      /\ state[p] = "RUNNING" /\ inside[p] = "none"
  BY <1>1, OnItsCpu DEF IInv
<1>4. TypeOK'
  <2>1. pc' \in [Slots -> PCs]
    BY <1>1 DEF IInv, TypeOK, PCs
  <2>2. tickslock' \in CPUs \cup {Timer, Free}
    BY <1>2
  <2> QED BY <1>2, <2>1, <2>2 DEF IInv, TypeOK
<1>5. (CpuInv /\ OnSome /\ OnOne /\ StackInv /\ PidsUnique /\ ParentAlive /\
        WaitMissesNothing /\ TickMissesNobody /\ NrSwitchOfThisProcess)'
  BY <1>2 DEF IInv, CpuInv, OnSome, OnOne, StackInv, PidsUnique, ParentAlive,
     WaitMissesNothing, TickMissesNobody, NrSwitchOfThisProcess, Live, Children,
     ZombieChildren, Elapsed
<1>6. LockInv'
  BY <1>1, <1>2, <1>3 DEF IInv, LockInv, Holds
<1>7. ThreadInv'
  BY <1>1, <1>2, <1>3 DEF IInv, ThreadInv
<1>8. ForkInv'
  BY <1>1, <1>2, <1>3 DEF IInv, ForkInv
<1>9. RootInv'
  BY <1>1, <1>2 DEF IInv, RootInv
<1>10. SleepInv'
  <2>1. tickslock = Free /\ timer # "wakeup"
    BY DEF SleepRelock, IInv, SleepInv
  <2>2. \A d \in CPUs, q \in Slots :
          ~ Runs(d, q, "sleepcheck") /\ ~ Runs(d, q, "sleepenter")
    BY <2>1 DEF IInv, SleepInv
  <2>3. \A d \in CPUs, q \in Slots :
          /\ Runs(d, q, "sleepcheck")' => d = c
          /\ ~ Runs(d, q, "sleepenter")'
          /\ Runs(d, q, "sleepswitch")' => Runs(d, q, "sleepswitch")
    <3>1. \A q \in Slots \ {p} : pc'[q] = pc[q]
      BY <1>1 DEF IInv, TypeOK
    <3>2. pc'[p] = "sleepcheck"
      BY <1>1 DEF IInv, TypeOK
    <3>3. \A d \in CPUs : cproc[d] = p => d = c
      BY <1>3 DEF IInv, OnOne
    <3>4. \A d \in CPUs, q \in Slots \ {p} :
            /\ Runs(d, q, "sleepcheck")' <=> Runs(d, q, "sleepcheck")
            /\ Runs(d, q, "sleepenter")' <=> Runs(d, q, "sleepenter")
            /\ Runs(d, q, "sleepswitch")' <=> Runs(d, q, "sleepswitch")
      BY <1>2, <3>1 DEF Runs
    <3>5. \A d \in CPUs :
            /\ Runs(d, p, "sleepcheck")' => d = c
            /\ ~ Runs(d, p, "sleepenter")' /\ ~ Runs(d, p, "sleepswitch")'
      BY <1>2, <3>2, <3>3 DEF Runs
    <3> QED BY <2>2, <3>4, <3>5
  <2> QED BY <1>2, <2>1, <2>3 DEF IInv, SleepInv, Elapsed
<1>11. LegalMoves
  BY <1>2 DEF LegalMoves
<1> QED
  BY <1>4, <1>5, <1>6, <1>7, <1>8, <1>9, <1>10, <1>11 DEF IInv

\* sys_sleep() returns.
LEMMA StepSleepReturns ==
  ASSUME IInv, NEW c \in CPUs, SleepReturns(c)
  PROVE  IInv' /\ LegalMoves
<1>1. PICK p \in Slots :
          /\ Runs(c, p, "sleepcheck")
          /\ pc' = [pc EXCEPT ![p] = "user"]
          /\ ticks0' = [ticks0 EXCEPT ![p] = 0]
          /\ n' = [n EXCEPT ![p] = 0]
  BY DEF SleepReturns, Goes
<1>2. /\ tickslock' = Free
      /\ UNCHANGED <<state, pid, parent, chan, killed, kstack, nrswitch,
                     nextpid, ptable_lock, cproc, cpc, scan, inside, np, ticks,
                     timer>>
  BY DEF SleepReturns, procVars, cpuVars
<1>3. /\ cproc[c] = p /\ cpc[c] = "process" /\ pc[p] = "sleepcheck"
      /\ state[p] = "RUNNING" /\ inside[p] = "none"
  BY <1>1, OnItsCpu DEF IInv
<1>4. TypeOK'
  <2>1. pc' \in [Slots -> PCs]
    BY <1>1 DEF IInv, TypeOK, PCs
  <2>2. ticks0' \in [Slots -> 0..TickRange - 1]
    BY <1>1 DEF IInv, TypeOK
  <2>3. n' \in [Slots -> 0..TickRange - 1]
    BY <1>1 DEF IInv, TypeOK
  <2>4. tickslock' \in CPUs \cup {Timer, Free}
    BY <1>2
  <2> QED BY <1>2, <2>1, <2>2, <2>3, <2>4 DEF IInv, TypeOK
<1>5. (CpuInv /\ OnSome /\ OnOne /\ StackInv /\ PidsUnique /\ ParentAlive /\
        WaitMissesNothing /\ NrSwitchOfThisProcess)'
  BY <1>2 DEF IInv, CpuInv, OnSome, OnOne, StackInv, PidsUnique, ParentAlive,
     WaitMissesNothing, NrSwitchOfThisProcess, Live, Children, ZombieChildren
<1>6. LockInv'
  BY <1>1, <1>2, <1>3 DEF IInv, LockInv, Holds
<1>7. ThreadInv'
  BY <1>1, <1>2, <1>3 DEF IInv, ThreadInv
<1>8. ForkInv'
  BY <1>1, <1>2, <1>3 DEF IInv, ForkInv
<1>9. RootInv'
  BY <1>1, <1>2 DEF IInv, RootInv
<1>10. SleepInv'
  <2>1. tickslock = c /\ timer # "wakeup"
    BY <1>1 DEF IInv, SleepInv
  <2>2. \A d \in CPUs, q \in Slots :
          /\ ~ Runs(d, q, "sleepcheck")' /\ ~ Runs(d, q, "sleepenter")'
          /\ Runs(d, q, "sleepswitch")' => Runs(d, q, "sleepswitch") /\ q # p
    BY <1>1, <1>2, <1>3, <2>1 DEF IInv, TypeOK, SleepInv, OnOne, Runs
  <2>3. \A q \in Slots \ {p} : Elapsed(q)' = Elapsed(q) /\ n'[q] = n[q]
    BY <1>1, <1>2 DEF IInv, TypeOK, Elapsed
  <2> QED BY <1>2, <2>1, <2>2, <2>3 DEF IInv, SleepInv
<1>11. TickMissesNobody'
  BY <1>1, <1>2, <1>3 DEF IInv, TickMissesNobody, Elapsed
<1>12. LegalMoves
  BY <1>2 DEF LegalMoves
<1> QED
  BY <1>4, <1>5, <1>6, <1>7, <1>8, <1>9, <1>10, <1>11, <1>12 DEF IInv

\* sys_sleep() goes on to sleep(), with tickslock.
LEMMA StepSleepChecks ==
  ASSUME IInv, NEW c \in CPUs, SleepChecks(c)
  PROVE  IInv' /\ LegalMoves
<1>1. PICK p \in Slots :
          /\ Runs(c, p, "sleepcheck")
          /\ pc' = [pc EXCEPT ![p] = "sleepenter"]
          /\ Elapsed(p) < n[p]
  BY DEF SleepChecks, Goes
<1>2. UNCHANGED <<state, pid, parent, chan, killed, kstack, nrswitch, nextpid,
                  ptable_lock, cproc, cpc, scan, inside, np, ticks, ticks0, n,
                  timer, tickslock>>
  BY DEF SleepChecks, procVars, cpuVars, tickVars
<1>3. /\ cproc[c] = p /\ cpc[c] = "process" /\ pc[p] = "sleepcheck"
      /\ state[p] = "RUNNING" /\ inside[p] = "none"
  BY <1>1, OnItsCpu DEF IInv
<1>4. TypeOK'
  <2>1. pc' \in [Slots -> PCs]
    BY <1>1 DEF IInv, TypeOK, PCs
  <2> QED BY <1>2, <2>1 DEF IInv, TypeOK
<1>5. (CpuInv /\ OnSome /\ OnOne /\ StackInv /\ PidsUnique /\ ParentAlive /\
        WaitMissesNothing /\ TickMissesNobody /\ NrSwitchOfThisProcess)'
  BY <1>2 DEF IInv, CpuInv, OnSome, OnOne, StackInv, PidsUnique, ParentAlive,
     WaitMissesNothing, TickMissesNobody, NrSwitchOfThisProcess, Live, Children,
     ZombieChildren, Elapsed
<1>6. LockInv'
  BY <1>1, <1>2, <1>3 DEF IInv, LockInv, Holds
<1>7. ThreadInv'
  BY <1>1, <1>2, <1>3 DEF IInv, ThreadInv
<1>8. ForkInv'
  BY <1>1, <1>2, <1>3 DEF IInv, ForkInv
<1>9. RootInv'
  BY <1>1, <1>2 DEF IInv, RootInv
<1>10. SleepInv'
  BY <1>1, <1>2, <1>3 DEF IInv, SleepInv, Runs, Elapsed
<1>11. LegalMoves
  BY <1>2 DEF LegalMoves
<1> QED
  BY <1>4, <1>5, <1>6, <1>7, <1>8, <1>9, <1>10, <1>11 DEF IInv

\* sleep() holds ptable.lock before it lets go of tickslock.
LEMMA StepSleepSwapLocks ==
  ASSUME IInv, NEW c \in CPUs, SleepSwapLocks(c)
  PROVE  IInv' /\ LegalMoves
<1>1. PICK p \in Slots :
          /\ Runs(c, p, "sleepenter")
          /\ pc' = [pc EXCEPT ![p] = "sleepswitch"]
  BY DEF SleepSwapLocks, Goes
<1>2. /\ ptable_lock = Free /\ ptable_lock' = c /\ tickslock' = Free
      /\ UNCHANGED <<state, pid, parent, chan, killed, kstack, nrswitch,
                     nextpid, cproc, cpc, scan, inside, np, ticks, ticks0, n,
                     timer>>
  BY DEF SleepSwapLocks, procVars, cpuVars
<1>3. /\ cproc[c] = p /\ cpc[c] = "process" /\ pc[p] = "sleepenter"
      /\ state[p] = "RUNNING" /\ inside[p] = "none"
  BY <1>1, OnItsCpu DEF IInv
<1>4. TypeOK'
  <2>1. pc' \in [Slots -> PCs]
    BY <1>1 DEF IInv, TypeOK, PCs
  <2>2. tickslock' \in CPUs \cup {Timer, Free}
    BY <1>2
  <2>3. ptable_lock' \in CPUs \cup {Free}
    BY <1>2
  <2> QED BY <1>2, <2>1, <2>2, <2>3 DEF IInv, TypeOK
<1>5. (CpuInv /\ OnSome /\ OnOne /\ StackInv /\ PidsUnique /\ ParentAlive /\
        WaitMissesNothing /\ TickMissesNobody /\ NrSwitchOfThisProcess)'
  BY <1>2 DEF IInv, CpuInv, OnSome, OnOne, StackInv, PidsUnique, ParentAlive,
     WaitMissesNothing, TickMissesNobody, NrSwitchOfThisProcess, Live, Children,
     ZombieChildren, Elapsed
<1>6. LockInv'
  BY <1>1, <1>2, <1>3, SMTT(30) DEF IInv, LockInv, TypeOK, CpuInv, OnOne, Holds
<1>7. ThreadInv'
  BY <1>1, <1>2, <1>3 DEF IInv, ThreadInv
<1>8. ForkInv'
  BY <1>1, <1>2, <1>3 DEF IInv, ForkInv
<1>9. RootInv'
  BY <1>1, <1>2 DEF IInv, RootInv
<1>10. SleepInv'
  <2>1. tickslock = c /\ timer # "wakeup" /\ Elapsed(p) < n[p]
    BY <1>1 DEF IInv, SleepInv
  <2>2. \A d \in CPUs, q \in Slots :
          ~ Runs(d, q, "sleepcheck")' /\ ~ Runs(d, q, "sleepenter")'
    BY <1>1, <1>2, <1>3, <2>1 DEF IInv, SleepInv, Runs, TypeOK, OnOne
  <2>3. \A d \in CPUs, q \in Slots :
          Runs(d, q, "sleepswitch")' => Runs(d, q, "sleepswitch") \/ q = p
    BY <1>1, <1>2 DEF Runs
  <2> QED BY <1>2, <2>1, <2>2, <2>3 DEF IInv, SleepInv, Elapsed
<1>11. LegalMoves
  BY <1>2 DEF LegalMoves
<1> QED
  BY <1>4, <1>5, <1>6, <1>7, <1>8, <1>9, <1>10, <1>11 DEF IInv

\* sleep() suspends the process, which still has time to wait.
LEMMA StepSleepSwitches ==
  ASSUME IInv, NEW c \in CPUs, SleepSwitches(c)
  PROVE  IInv' /\ LegalMoves
<1>1. PICK p \in Slots :
          /\ Runs(c, p, "sleepswitch")
          /\ chan' = [chan EXCEPT ![p] = TicksChan]
          /\ state' = [state EXCEPT ![p] = "SLEEPING"]
          /\ inside' = [inside EXCEPT ![p] = "sleep"]
          /\ cpc' = [cpc EXCEPT ![c] = "switching"]
  BY DEF SleepSwitches, Sched
<1>2. UNCHANGED <<pid, parent, killed, kstack, nrswitch, nextpid,
                     ptable_lock, cproc, scan, pc, np, ticks, tickslock,
                     ticks0, n, timer>>
  BY DEF SleepSwitches, tickVars
<1>3. /\ cproc[c] = p /\ cpc[c] = "process" /\ pc[p] = "sleepswitch"
      /\ state[p] = "RUNNING" /\ inside[p] = "none"
  BY <1>1, OnItsCpu DEF IInv
<1>4. /\ \A q \in Slots \ {p} : state'[q] = state[q] /\ chan'[q] = chan[q]
      /\ state'[p] = "SLEEPING" /\ chan'[p] = TicksChan /\ TicksChan # p
  BY <1>1 DEF IInv, TypeOK
<1>5. Elapsed(p) < n[p] \/ timer = "wakeup"
  BY <1>1 DEF IInv, SleepInv
<1>6. TypeOK'
  <2>1. chan' \in [Slots -> Slots \cup {None, TicksChan}]
    BY <1>1 DEF IInv, TypeOK
  <2>2. state' \in [Slots -> States]
    BY <1>1 DEF IInv, TypeOK, States
  <2>3. inside' \in [Slots -> {"none", "forkret", "yield", "wait", "sleep", "exit"}]
    BY <1>1 DEF IInv, TypeOK
  <2>4. cpc' \in [CPUs -> {"idle", "scan", "resuming", "process", "switching"}]
    BY <1>1 DEF IInv, TypeOK
  <2> QED BY <1>2, <2>1, <2>2, <2>3, <2>4 DEF IInv, TypeOK
<1>7. (OnOne /\ RootInv)'
  BY <1>2 DEF IInv, OnOne, RootInv
<1>8. LockInv'
  BY <1>1, <1>2, <1>3 DEF IInv, LockInv, Holds
<1>9. CpuInv'
  BY <1>1, <1>2, <1>3, SMTT(30) DEF IInv, CpuInv, TypeOK, LockInv, OnOne, PCs, Holds
<1>10. OnSome'
  BY <1>1, <1>2, <1>3 DEF IInv, OnSome, TypeOK
<1>11. ThreadInv'
  BY <1>1, <1>2, <1>3 DEF IInv, ThreadInv, TypeOK
<1>12. ForkInv'
  BY <1>1, <1>2, <1>3 DEF IInv, ForkInv
<1>13. StackInv'
  BY <1>1, <1>2, <1>3 DEF IInv, StackInv, Live
<1>14. PidsUnique'
  BY <1>1, <1>2, <1>3 DEF IInv, PidsUnique
<1>15. ParentAlive'
  BY <1>1, <1>2, <1>3 DEF IInv, ParentAlive, Live
<1>16. SleepInv'
  BY <1>1, <1>2 DEF IInv, SleepInv, Runs, Elapsed
<1>17. WaitMissesNothing'
  BY <1>2, <1>4 DEF IInv, WaitMissesNothing, Children, ZombieChildren
<1>18. TickMissesNobody'
  BY <1>2, <1>4, <1>5 DEF IInv, TickMissesNobody, Elapsed
<1>19. NrSwitchOfThisProcess'
  BY <1>1, <1>2, <1>3 DEF IInv, NrSwitchOfThisProcess
<1>20. LegalMoves
  BY <1>3, <1>4 DEF LegalMoves
<1> QED
  BY <1>6, <1>7, <1>8, <1>9, <1>10, <1>11, <1>12, <1>13, <1>14, <1>15, <1>16, <1>17,
     <1>18, <1>19, <1>20 DEF IInv

\* ticks changes, but now the timer is on its way to wake the sleepers.
LEMMA StepTimerTick ==
  ASSUME IInv, TimerTick
  PROVE  IInv' /\ LegalMoves
<1> USE DEF TimerTick, procVars, cpuVars, threadVars
<1>1. TypeOK'
  <2>1. ticks' \in 0..TickRange - 1
    BY DEF IInv, TypeOK
  <2>2. tickslock' \in CPUs \cup {Timer, Free}
    OBVIOUS
  <2>3. timer' \in {"idle", "wakeup"}
    OBVIOUS
  <2> QED BY <2>1, <2>2, <2>3 DEF IInv, TypeOK
<1>2. (LockInv /\ CpuInv /\ OnSome /\ OnOne /\ ThreadInv /\ ForkInv /\ StackInv /\
        PidsUnique /\ RootInv /\ ParentAlive /\ WaitMissesNothing /\
     NrSwitchOfThisProcess)'
  BY DEF IInv, LockInv, CpuInv, OnSome, OnOne, ThreadInv, ForkInv, StackInv,
     PidsUnique, RootInv, ParentAlive, WaitMissesNothing, NrSwitchOfThisProcess,
     Holds, Uninterruptible, Live, Children, ZombieChildren
<1>3. SleepInv'
  <2>1. \A d \in CPUs, q \in Slots :
          ~ Runs(d, q, "sleepcheck") /\ ~ Runs(d, q, "sleepenter")
    BY DEF IInv, SleepInv
  <2> QED BY <2>1 DEF SleepInv, Runs
<1>4. TickMissesNobody'
  BY DEF TickMissesNobody
<1>5. LegalMoves
  BY DEF LegalMoves
<1> QED
  BY <1>1, <1>2, <1>3, <1>4, <1>5 DEF IInv

\* The timer wakes every sleeper: nobody is on its way to sleep, for that takes
\* ptable.lock.
LEMMA StepTimerWakeup ==
  ASSUME IInv, TimerWakeup
  PROVE  IInv' /\ LegalMoves
<1> USE DEF TimerWakeup, cpuVars, threadVars
<1>1. state' \in [Slots -> States]
  BY DEF IInv, TypeOK, States, Woken
<1>2. \A q \in Slots : \/ state'[q] = state[q]
                       \/ state[q] = "SLEEPING" /\ state'[q] = "RUNNABLE"
  BY DEF Woken
<1>3. \A q \in Slots : state'[q] = "SLEEPING" => chan[q] # TicksChan
  BY DEF Woken
<1>4. TypeOK'
  <2>1. state' \in [Slots -> States]
    BY <1>1
  <2>2. tickslock' \in CPUs \cup {Timer, Free}
    OBVIOUS
  <2>3. timer' \in {"idle", "wakeup"}
    OBVIOUS
  <2> QED BY <2>1, <2>2, <2>3 DEF IInv, TypeOK
<1>5. (LockInv /\ OnOne /\ RootInv)'
  BY DEF IInv, LockInv, OnOne, RootInv, Holds
<1>6. (CpuInv /\ OnSome /\ StackInv /\ PidsUnique /\ ParentAlive /\
        NrSwitchOfThisProcess)'
  BY <1>1, <1>2, WakingKeeps
<1>7. ThreadInv'
  BY <1>2 DEF IInv, ThreadInv
<1>8. ForkInv'
  <2>1. \A q \in Slots : np[q] # None => np[q] \in Slots /\ state'[np[q]] = "EMBRYO"
    <3>1. \A q \in Slots : np[q] # None => np[q] \in Slots
      BY DEF IInv, TypeOK
    <3>2. \A q \in Slots : np[q] # None => state[np[q]] = "EMBRYO"
      BY DEF IInv, ForkInv
    <3>3. \A q \in Slots : state[q] = "EMBRYO" => state'[q] = "EMBRYO"
      BY <1>2
    <3> QED BY ONLY <3>1, <3>2, <3>3
  <2> QED BY <2>1 DEF IInv, ForkInv
<1>9. SleepInv'
  <2>1. \A d \in CPUs, q \in Slots : ~ Runs(d, q, "sleepswitch")
    BY DEF IInv, LockInv, Holds, Runs
  <2>2. \A d \in CPUs, q \in Slots :
          ~ Runs(d, q, "sleepcheck") /\ ~ Runs(d, q, "sleepenter")
    BY DEF IInv, SleepInv
  <2> QED BY <2>1, <2>2 DEF SleepInv, Runs
<1>10. WaitMissesNothing'
  BY <1>2 DEF IInv, WaitMissesNothing, Children, ZombieChildren
<1>11. TickMissesNobody'
  BY <1>3 DEF TickMissesNobody
<1>12. LegalMoves
  BY <1>2 DEF LegalMoves
<1> QED
  BY <1>4, <1>5, <1>6, <1>7, <1>8, <1>9, <1>10, <1>11, <1>12 DEF IInv

-----------------------------------------------------------------------------
(* The theorems.                                                           *)

\* Every step keeps the invariant and moves the slots as it should.
LEMMA NextKeeps ==
  ASSUME IInv, Next
  PROVE  IInv' /\ LegalMoves
<1>1. ASSUME NEW c \in CPUs, Scheduling(c)  PROVE  IInv' /\ LegalMoves
  BY <1>1, StepSchedulerLock, StepSchedulerPick, StepSchedulerUnlock,
     StepSwitchBack, StepResume DEF Scheduling
<1>2. ASSUME NEW c \in CPUs, Work(c)  PROVE  IInv' /\ LegalMoves
  BY <1>2, StepEnterKernel, StepAllocProc, StepAllocFull, StepForkFails,
     StepForkCopy, StepForkRun, StepExit, StepWaitReaps, StepWaitFails,
     StepWaitSleeps, StepKill, StepSleepLock, StepSleepRelock, StepSleepReturns,
     StepSleepChecks, StepSleepSwapLocks, StepSleepSwitches DEF Work
<1> QED BY <1>1, <1>2, StepYield, StepTimerTick, StepTimerWakeup DEF Next

\* A step that changes nothing keeps the invariant.
LEMMA StutteringKeeps ==
  ASSUME IInv, UNCHANGED vars
  PROVE  IInv'
<1> USE DEF vars, procVars, cpuVars, threadVars, tickVars
<1>1. TypeOK'
  BY DEF IInv, TypeOK
<1>2. (LockInv /\ CpuInv /\ OnSome /\ OnOne)'
  BY DEF IInv, LockInv, Holds, CpuInv, OnSome, OnOne
<1>3. (ThreadInv /\ ForkInv /\ StackInv /\ PidsUnique /\ RootInv)'
  BY DEF IInv, ThreadInv, ForkInv, StackInv, PidsUnique, RootInv, Live
<1>4. (ParentAlive /\ SleepInv /\ WaitMissesNothing)'
  BY DEF IInv, ParentAlive, Live, SleepInv, Runs, Elapsed, WaitMissesNothing,
     Children, ZombieChildren
<1>5. (TickMissesNobody /\ NrSwitchOfThisProcess)'
  BY DEF IInv, TickMissesNobody, Elapsed, NrSwitchOfThisProcess
<1> QED BY <1>1, <1>2, <1>3, <1>4, <1>5 DEF IInv

\* The invariant holds in every state the table can be in.
LEMMA Invariance == Spec => []IInv
<1>1. IInv /\ [Next]_vars => IInv'
  BY NextKeeps, StutteringKeeps
<1> QED BY InitHolds, <1>1, PTL DEF Spec

\* Every field of the table, and every variable of a CPU, stays in its range.
THEOREM FieldsInRange == Spec => []TypeOK
<1>1. IInv => TypeOK
  BY DEF IInv
<1> QED BY Invariance, <1>1, PTL

\* A process is RUNNING exactly while one CPU runs it, and never on two:
\* scheduler() and sched() keep state and c->proc together.
THEOREM OneCpuEach == Spec => []RunningIffOnCpu
<1>1. IInv => RunningIffOnCpu
  BY DEF IInv, RunningIffOnCpu, OnOne, OnSome, CpuInv
<1> QED BY Invariance, <1>1, PTL

\* The stack a CPU executes on is never one that wait() has freed.
THEOREM StacksStay == Spec => []StackInUse
<1>1. IInv => StackInUse
  <2> SUFFICES ASSUME IInv  PROVE  StackInUse
    OBVIOUS
  <2>1. \A c \in CPUs : cproc[c] # None => cproc[c] \in Slots
    BY DEF IInv, TypeOK
  <2>2. \A c \in CPUs :
          cproc[c] # None => cpc[c] \in {"process", "resuming", "switching"}
    BY DEF IInv, TypeOK, CpuInv
  <2>3. \A c \in CPUs :
          cproc[c] # None => state[cproc[c]] \notin {"UNUSED", "EMBRYO"}
    BY <2>2 DEF IInv, CpuInv
  <2> QED BY <2>1, <2>3 DEF IInv, StackInv, StackInUse, Live
<1> QED BY Invariance, <1>1, PTL

\* allocproc() never gives a pid that another process has.
THEOREM PidsDiffer == Spec => []PidsUnique
<1>1. IInv => PidsUnique
  BY DEF IInv
<1> QED BY Invariance, <1>1, PTL

\* Every process has somebody alive to wait for it, whoever exits and whenever.
THEOREM NobodyIsOrphaned == Spec => []ParentAlive
<1>1. IInv => ParentAlive
  BY DEF IInv
<1> QED BY Invariance, <1>1, PTL

\* No exit and no kill is missed by a process in wait().
THEOREM NoExitIsMissed == Spec => []WaitMissesNothing
<1>1. IInv => WaitMissesNothing
  BY DEF IInv
<1> QED BY Invariance, <1>1, PTL

\* No tick is missed by a process in sys_sleep().
THEOREM NoTickIsMissed == Spec => []TickMissesNobody
<1>1. IInv => TickMissesNobody
  BY DEF IInv
<1> QED BY Invariance, <1>1, PTL

\* The nrswitch that ps reads is that of the process, not of the one that had
\* its slot before.
THEOREM CountersOfTheirProcess == Spec => []NrSwitchOfThisProcess
<1>1. IInv => NrSwitchOfThisProcess
  BY DEF IInv
<1> QED BY Invariance, <1>1, PTL

\* A slot goes through its states only in the order allocproc(), fork(),
\* scheduler(), sleep(), exit() and wait() give it.
THEOREM SlotsLiveLegally == Spec => LegalTransitions
<1>1. IInv /\ [Next]_vars => [LegalMoves]_vars
  BY NextKeeps
<1> QED BY Invariance, <1>1, PTL DEF Spec, LegalTransitions, LegalMoves

-----------------------------------------------------------------------------
(* What a step of the table does to the pids and to where processes are.   *)

\* A slot in use keeps its pid, a slot that gets into use gets the next one,
\* and pids are given out in order.
PidsMove ==
  /\ nextpid' \in {nextpid, nextpid + 1}
  /\ \A q \in Slots : state'[q] # "UNUSED" =>
       \/ state[q] # "UNUSED" /\ pid'[q] = pid[q]
       \/ pid'[q] = nextpid /\ nextpid' = nextpid + 1

\* A process is made runnable by its parent, at the end of fork.
BirthsAreForks ==
  \A q \in Slots :
    state[q] = "EMBRYO" /\ state'[q] = "RUNNABLE" =>
      parent[q] \in Slots /\ pc[parent[q]] = "forkrun"

\* A process leaves its program only by a system call, by exit if it has been
\* killed, and it does not come back from exit.
CallsOnly ==
  \A q \in Slots :
    /\ pc[q] = "user" /\ pc'[q] # "user" =>
         pc'[q] \in Calls /\ (killed[q] => pc'[q] = "exit")
    /\ pc[q] = "exit" /\ state[q] # "ZOMBIE" => pc'[q] = "exit"

\* Where a step leaves the pids alone and does not fill or finish a slot.
LEMMA SlotsStay ==
  ASSUME UNCHANGED <<pid, nextpid>>,
         \A q \in Slots : state[q] \in {"UNUSED", "EMBRYO"} =>
           state'[q] \in {state[q], "UNUSED"}
  PROVE  PidsMove /\ BirthsAreForks
BY DEF PidsMove, BirthsAreForks

LEMMA SchedulingMoves ==
  ASSUME IInv, NEW c \in CPUs, Scheduling(c) \/ Yield(c)
  PROVE  PidsMove /\ BirthsAreForks /\ CallsOnly
<1>1. CASE SchedulerLock(c) \/ SchedulerUnlock(c) \/ SwitchBack(c)
  <2>1. UNCHANGED <<state, pid, nextpid, pc>>
    BY <1>1 DEF SchedulerLock, SchedulerUnlock, SwitchBack, procVars, threadVars
  <2> QED BY <2>1, SlotsStay DEF CallsOnly
<1>2. CASE Resume(c)
  <2>1. UNCHANGED <<state, pid, nextpid>>
    BY <1>2 DEF Resume
  <2>2. \A q \in Slots : pc'[q] # pc[q] => inside[q] \in {"wait", "sleep"}
    BY <1>2 DEF Resume, Goes, IInv, TypeOK
  <2>3. \A q \in Slots : inside[q] \in {"wait", "sleep"} =>
          pc[q] \in {"wait", "waitscan", "sleepswitch"}
    BY DEF IInv, ThreadInv
  <2>4. CallsOnly
    BY <2>2, <2>3 DEF CallsOnly
  <2> QED BY <2>1, <2>4, SlotsStay
<1>3. CASE SchedulerPick(c)
  <2>1. PICK p \in RunnableFrom(scan[c]) : state' = [state EXCEPT ![p] = "RUNNING"]
    <3>1. RunnableFrom(scan[c]) \subseteq Nat /\ RunnableFrom(scan[c]) # {}
      BY <1>3 DEF SchedulerPick, RunnableFrom, IInv, TypeOK
    <3>2. First(RunnableFrom(scan[c])) \in RunnableFrom(scan[c])
      BY <3>1, FirstIn
    <3> QED BY <1>3, <3>2 DEF SchedulerPick
  <2>2. UNCHANGED <<pid, nextpid, pc>>
    BY <1>3 DEF SchedulerPick, threadVars
  <2>3. state[p] = "RUNNABLE" /\ state = [q \in Slots |-> state[q]]
    BY DEF RunnableFrom, IInv, TypeOK
  <2> QED BY <2>1, <2>2, <2>3, SlotsStay DEF CallsOnly
<1>4. CASE Yield(c)
  <2>1. PICK p \in Slots, where \in PCs :
          Runs(c, p, where) /\ state' = [state EXCEPT ![p] = "RUNNABLE"]
    BY <1>4 DEF Yield
  <2>2. state[p] = "RUNNING" /\ state = [q \in Slots |-> state[q]]
    BY <2>1, OnItsCpu DEF IInv, TypeOK
  <2>3. UNCHANGED <<pid, nextpid, pc>>
    BY <1>4 DEF Yield
  <2> QED BY <2>1, <2>2, <2>3, SlotsStay DEF CallsOnly
<1> QED BY <1>1, <1>2, <1>3, <1>4 DEF Scheduling

\* The steps of fork.
LEMMA ForkMoves ==
  ASSUME IInv, NEW c \in CPUs,
         AllocProc(c) \/ AllocFull(c) \/ ForkFails(c) \/ ForkCopy(c) \/ ForkRun(c)
  PROVE  PidsMove /\ BirthsAreForks /\ CallsOnly
<1>0. /\ state = [q \in Slots |-> state[q]] /\ pid = [q \in Slots |-> pid[q]]
      /\ pc = [q \in Slots |-> pc[q]] /\ nextpid \in Nat
  BY DEF IInv, TypeOK
<1>1. CASE AllocProc(c)
  <2>1. PICK p \in Slots :
          /\ pc[p] = "fork" /\ pc' = [pc EXCEPT ![p] = "forkcopy"]
          /\ Unused # {}
          /\ state' = [state EXCEPT ![First(Unused)] = "EMBRYO"]
          /\ pid' = [pid EXCEPT ![First(Unused)] = nextpid]
    BY <1>1 DEF AllocProc, Runs, Goes
  <2>2. nextpid' = nextpid + 1
    BY <1>1 DEF AllocProc
  <2>3. First(Unused) \in Unused
    <3>1. Unused \subseteq Nat
      BY DEF Unused
    <3> QED BY <2>1, <3>1, FirstIn
  <2>4. PICK q \in Slots : /\ state[q] = "UNUSED"
                           /\ state' = [state EXCEPT ![q] = "EMBRYO"]
                           /\ pid' = [pid EXCEPT ![q] = nextpid]
    BY <2>1, <2>3 DEF Unused
  <2>5. /\ state'[q] = "EMBRYO" /\ pid'[q] = nextpid
        /\ \A r \in Slots \ {q} : state'[r] = state[r] /\ pid'[r] = pid[r]
    BY <1>0, <2>4
  <2>6. PidsMove
    BY <2>2, <2>5 DEF PidsMove
  <2>7. BirthsAreForks
    BY <2>5 DEF BirthsAreForks
  <2>8. CallsOnly
    BY <1>0, <2>1 DEF CallsOnly
  <2> QED BY <2>6, <2>7, <2>8
<1>2. CASE AllocFull(c) \/ ForkCopy(c)
  <2>1. UNCHANGED <<state, pid, nextpid>>
    BY <1>2 DEF AllocFull, ForkCopy, procVars
  <2>2. \E p \in Slots : /\ pc[p] \in {"fork", "forkcopy"}
                         /\ \E where : pc' = [pc EXCEPT ![p] = where]
    BY <1>2 DEF AllocFull, ForkCopy, Runs, Goes
  <2>3. CallsOnly
    BY <1>0, <2>2 DEF CallsOnly
  <2> QED BY <2>1, <2>3, SlotsStay
<1>3. CASE ForkFails(c)
  <2>1. PICK p \in Slots : /\ pc[p] = "forkcopy" /\ pc' = [pc EXCEPT ![p] = "user"]
                           /\ state' = [state EXCEPT ![np[p]] = "UNUSED"]
    BY <1>3 DEF ForkFails, Runs, Goes
  <2>2. UNCHANGED <<pid, nextpid>>
    BY <1>3 DEF ForkFails
  <2>3. \A q \in Slots : state'[q] \in {state[q], "UNUSED"}
    BY <1>0, <2>1
  <2>4. CallsOnly
    BY <1>0, <2>1 DEF CallsOnly
  <2> QED BY <2>2, <2>3, <2>4, SlotsStay
<1>4. CASE ForkRun(c)
  <2>1. PICK p \in Slots : /\ pc[p] = "forkrun"
                           /\ pc' = [pc EXCEPT ![p] = "user", ![np[p]] = "user"]
                           /\ state' = [state EXCEPT ![np[p]] = "RUNNABLE"]
    BY <1>4 DEF ForkRun, Runs
  <2>2. UNCHANGED <<pid, nextpid>>
    BY <1>4 DEF ForkRun
  <2>3. np[p] \in Slots /\ state[np[p]] = "EMBRYO" /\ parent[np[p]] = p
    BY <2>1 DEF IInv, ForkInv, TypeOK
  <2>4. pc[np[p]] = "user"
    BY <2>3 DEF IInv, ThreadInv
  <2>5. \A q \in Slots \ {np[p]} : state'[q] = state[q]
    BY <1>0, <2>1
  <2>6. PidsMove
    BY <2>2, <2>3, <2>5 DEF PidsMove
  <2>7. BirthsAreForks
    BY <2>1, <2>3, <2>5 DEF BirthsAreForks
  <2>8. CallsOnly
    BY <1>0, <2>1, <2>4 DEF CallsOnly
  <2> QED BY <2>6, <2>7, <2>8
<1> QED BY <1>1, <1>2, <1>3, <1>4

\* A system call begins, and the steps of exit, wait and kill.
LEMMA CallMoves ==
  ASSUME IInv, NEW c \in CPUs,
         \/ EnterKernel(c) \/ Exit(c) \/ WaitReaps(c) \/ WaitFails(c)
         \/ WaitSleeps(c) \/ Kill(c)
  PROVE  PidsMove /\ BirthsAreForks /\ CallsOnly
<1>0. /\ state = [q \in Slots |-> state[q]] /\ pid = [q \in Slots |-> pid[q]]
      /\ pc = [q \in Slots |-> pc[q]] /\ killed \in [Slots -> BOOLEAN]
  BY DEF IInv, TypeOK
<1>1. CASE EnterKernel(c)
  <2>1. UNCHANGED <<state, pid, nextpid>>
    BY <1>1 DEF EnterKernel, procVars
  <2>2. PICK p \in Slots, call \in Calls :
          /\ pc[p] = "user" /\ pc' = [pc EXCEPT ![p] = call]
          /\ killed[p] => call = "exit"
    BY <1>1 DEF EnterKernel, Runs, Goes
  <2>3. pc'[p] = call /\ \A q \in Slots \ {p} : pc'[q] = pc[q]
    BY <1>0, <2>2
  <2>4. CallsOnly
    BY <2>2, <2>3 DEF CallsOnly
  <2> QED BY <2>1, <2>4, SlotsStay
<1>2. CASE Exit(c)
  <2>1. UNCHANGED <<pid, nextpid, pc>>
    BY <1>2 DEF Exit
  <2>2. \E p \in Slots, ch \in {TRUE, FALSE} :
          /\ state[p] = "RUNNING"
          /\ state' = [(IF ch THEN Woken(state, parent[p])
                        ELSE Woken(Woken(state, parent[p]), initproc))
                       EXCEPT ![p] = "ZOMBIE"]
    <3>1. PICK p \in Slots :
            /\ Runs(c, p, "exit")
            /\ LET parentWoken == Woken(state, parent[p])
                   zombies == {q \in Children(p) : state[q] = "ZOMBIE"}
                   initWoken == IF zombies = {} THEN parentWoken
                                ELSE Woken(parentWoken, initproc)
               IN  state' = [initWoken EXCEPT ![p] = "ZOMBIE"]
      BY <1>2 DEF Exit
    <3>2. state[p] = "RUNNING"
      BY <3>1, OnItsCpu DEF IInv
    <3> QED BY <3>1, <3>2
  <2>3. \A q \in Slots : state[q] \in {"UNUSED", "EMBRYO"} => state'[q] = state[q]
    BY <2>2 DEF Woken
  <2> QED BY <2>1, <2>3, SlotsStay DEF CallsOnly
<1>3. CASE WaitReaps(c)
  <2>1. PICK p \in Slots :
          /\ pc[p] \in {"wait", "waitscan"} /\ ZombieChildren(p) # {}
          /\ LET q == First(ZombieChildren(p))
             IN  /\ pid' = [pid EXCEPT ![q] = 0]
                 /\ state' = [state EXCEPT ![q] = "UNUSED"]
                 /\ pc' = [pc EXCEPT ![p] = "user", ![q] = "user"]
    BY <1>3 DEF WaitReaps, InWait, Runs
  <2>2. First(ZombieChildren(p)) \in ZombieChildren(p)
    <3>1. ZombieChildren(p) \subseteq Nat
      BY DEF ZombieChildren, Children
    <3> QED BY <2>1, <3>1, FirstIn
  <2>3. PICK q \in Slots : /\ state[q] = "ZOMBIE"
                           /\ pid' = [pid EXCEPT ![q] = 0]
                           /\ state' = [state EXCEPT ![q] = "UNUSED"]
                           /\ pc' = [pc EXCEPT ![p] = "user", ![q] = "user"]
    BY <2>1, <2>2 DEF ZombieChildren, Children
  <2>4. UNCHANGED nextpid
    BY <1>3 DEF WaitReaps
  <2>5. /\ state'[q] = "UNUSED"
        /\ \A r \in Slots \ {q} : state'[r] = state[r] /\ pid'[r] = pid[r]
    BY <1>0, <2>3
  <2>6. PidsMove /\ BirthsAreForks
    BY <2>4, <2>5 DEF PidsMove, BirthsAreForks
  <2>7. \A r \in Slots \ {p, q} : pc'[r] = pc[r]
    BY <1>0, <2>3
  <2>8. pc[q] = "exit"
    BY <2>3 DEF IInv, ThreadInv
  <2>9. CallsOnly
    BY <2>1, <2>3, <2>7, <2>8 DEF CallsOnly
  <2> QED BY <2>6, <2>9
<1>4. CASE WaitFails(c)
  <2>1. UNCHANGED <<state, pid, nextpid>>
    BY <1>4 DEF WaitFails, procVars
  <2>2. PICK p \in Slots : /\ pc[p] \in {"wait", "waitscan"}
                           /\ pc' = [pc EXCEPT ![p] = "user"]
    BY <1>4 DEF WaitFails, InWait, Runs, Goes
  <2>3. CallsOnly
    BY <1>0, <2>2 DEF CallsOnly
  <2> QED BY <2>1, <2>3, SlotsStay
<1>5. CASE WaitSleeps(c)
  <2>1. PICK p \in Slots : /\ \E where : Runs(c, p, where)
                           /\ state' = [state EXCEPT ![p] = "SLEEPING"]
    BY <1>5 DEF WaitSleeps, InWait
  <2>2. state[p] = "RUNNING"
    BY <2>1, OnItsCpu DEF IInv
  <2>3. UNCHANGED <<pid, nextpid, pc>>
    BY <1>5 DEF WaitSleeps
  <2> QED BY <1>0, <2>1, <2>2, <2>3, SlotsStay DEF CallsOnly
<1>6. CASE Kill(c)
  <2>1. \E p \in Slots : \E q :
          /\ pc[p] = "kill" /\ pc' = [pc EXCEPT ![p] = "user"]
          /\ \/ state' = state
             \/ state' = [state EXCEPT ![q] = IF @ = "SLEEPING" THEN "RUNNABLE" ELSE @]
    BY <1>6 DEF Kill, Runs, Goes
  <2>2. UNCHANGED <<pid, nextpid>>
    BY <1>6 DEF Kill
  <2>3. \A r \in Slots : state[r] \in {"UNUSED", "EMBRYO"} => state'[r] = state[r]
    BY <1>0, <2>1
  <2>4. CallsOnly
    BY <1>0, <2>1 DEF CallsOnly
  <2> QED BY <2>2, <2>3, <2>4, SlotsStay
<1> QED BY <1>1, <1>2, <1>3, <1>4, <1>5, <1>6

\* The steps of sys_sleep and of the timer.
LEMMA SleepMoves ==
  ASSUME IInv,
         \/ \E c \in CPUs : \/ SleepLock(c) \/ SleepRelock(c) \/ SleepReturns(c)
                            \/ SleepChecks(c) \/ SleepSwapLocks(c) \/ SleepSwitches(c)
         \/ TimerTick \/ TimerWakeup
  PROVE  PidsMove /\ BirthsAreForks /\ CallsOnly
<1>0. /\ state = [q \in Slots |-> state[q]] /\ pc = [q \in Slots |-> pc[q]]
  BY DEF IInv, TypeOK
<1>1. ASSUME NEW c \in CPUs, \/ SleepLock(c) \/ SleepRelock(c) \/ SleepReturns(c)
                             \/ SleepChecks(c) \/ SleepSwapLocks(c)
      PROVE  PidsMove /\ BirthsAreForks /\ CallsOnly
  <2>1. UNCHANGED <<state, pid, nextpid>>
    BY <1>1 DEF SleepLock, SleepRelock, SleepReturns, SleepChecks, SleepSwapLocks, procVars
  <2>2. PICK p \in Slots : /\ pc[p] \in {"sleep", "sleeprelock", "sleepcheck", "sleepenter"}
                           /\ \E where : pc' = [pc EXCEPT ![p] = where]
    BY <1>1 DEF SleepLock, SleepRelock, SleepReturns, SleepChecks, SleepSwapLocks, Runs, Goes
  <2>3. CallsOnly
    BY <1>0, <2>2 DEF CallsOnly
  <2> QED BY <2>1, <2>3, SlotsStay
<1>2. ASSUME NEW c \in CPUs, SleepSwitches(c)
      PROVE  PidsMove /\ BirthsAreForks /\ CallsOnly
  <2>1. PICK p \in Slots : /\ Runs(c, p, "sleepswitch")
                           /\ state' = [state EXCEPT ![p] = "SLEEPING"]
    BY <1>2 DEF SleepSwitches
  <2>2. state[p] = "RUNNING"
    BY <2>1, OnItsCpu DEF IInv
  <2>3. UNCHANGED <<pid, nextpid, pc>>
    BY <1>2 DEF SleepSwitches
  <2> QED BY <1>0, <2>1, <2>2, <2>3, SlotsStay DEF CallsOnly
<1>3. CASE TimerTick
  <2>1. UNCHANGED <<state, pid, nextpid, pc>>
    BY <1>3 DEF TimerTick, procVars, threadVars
  <2> QED BY <2>1, SlotsStay DEF CallsOnly
<1>4. CASE TimerWakeup
  <2>1. UNCHANGED <<pid, nextpid, pc>>
    BY <1>4 DEF TimerWakeup, threadVars
  <2>2. \A q \in Slots : state[q] \in {"UNUSED", "EMBRYO"} => state'[q] = state[q]
    BY <1>4 DEF TimerWakeup, Woken
  <2> QED BY <2>1, <2>2, SlotsStay DEF CallsOnly
<1> QED BY <1>1, <1>2, <1>3, <1>4

LEMMA StepMoves ==
  ASSUME IInv, Next
  PROVE  PidsMove /\ BirthsAreForks /\ CallsOnly
BY SchedulingMoves, ForkMoves, CallMoves, SleepMoves DEF Next, Work

-----------------------------------------------------------------------------
(* Whose slots are under construction.                                     *)

\* A slot under construction has a fork.
EmbryoHasFork == \A q \in Slots : state[q] = "EMBRYO" => \E p \in Slots : np[p] = q

\* Only allocproc makes an EMBRYO, and a fork lets go of its slot as it ends.
LEMMA EmbryosKeepTheirFork ==
  ASSUME IInv, EmbryoHasFork, Next
  PROVE  EmbryoHasFork'
<1>0. /\ state = [q \in Slots |-> state[q]] /\ np = [q \in Slots |-> np[q]]
      /\ nextpid \in Nat
  BY DEF IInv, TypeOK
<1>1. ASSUME nextpid' = nextpid, NEW q \in Slots, state'[q] = "EMBRYO"
      PROVE  state[q] = "EMBRYO"
  <2>1. LegalMoves /\ PidsMove
    BY NextKeeps, StepMoves
  <2>2. state[q] # "UNUSED"
    BY <1>0, <1>1, <2>1 DEF PidsMove
  <2> QED BY <1>1, <2>1, <2>2 DEF LegalMoves
<1>2. CASE UNCHANGED <<np, nextpid>>
  BY <1>1, <1>2 DEF EmbryoHasFork
<1>3. ASSUME NEW c \in CPUs, AllocProc(c)  PROVE  EmbryoHasFork'
  <2>1. PICK p \in Slots : /\ pc[p] = "fork"
                           /\ state' = [state EXCEPT ![First(Unused)] = "EMBRYO"]
                           /\ np' = [np EXCEPT ![p] = First(Unused)]
    BY <1>3 DEF AllocProc, Runs
  <2>2. np[p] = None
    BY <2>1 DEF IInv, ForkInv
  <2>3. ASSUME NEW q \in Slots, state'[q] = "EMBRYO"
        PROVE  \E r \in Slots : np'[r] = q
    <3>1. CASE q = First(Unused)
      BY <1>0, <2>1, <3>1
    <3>2. CASE q # First(Unused)
      <4>1. PICK r \in Slots : np[r] = q
        BY <1>0, <2>1, <2>3, <3>2 DEF EmbryoHasFork
      <4>2. r # p
        BY <2>2, <4>1
      <4> QED BY <1>0, <2>1, <4>1, <4>2
    <3> QED BY <3>1, <3>2
  <2> QED BY <2>3 DEF EmbryoHasFork
<1>4. ASSUME NEW c \in CPUs, ForkFails(c) \/ ForkRun(c)  PROVE  EmbryoHasFork'
  <2>1. PICK p \in Slots, s \in {"UNUSED", "RUNNABLE"} :
          /\ pc[p] \in {"forkcopy", "forkrun"}
          /\ state' = [state EXCEPT ![np[p]] = s] /\ np' = [np EXCEPT ![p] = None]
    BY <1>4 DEF ForkFails, ForkRun, Runs
  <2>2. ASSUME NEW q \in Slots, state'[q] = "EMBRYO"
        PROVE  \E r \in Slots : np'[r] = q
    <3>1. q # np[p] /\ state[q] = "EMBRYO"
      BY <1>0, <2>1, <2>2
    <3>2. PICK r \in Slots : np[r] = q
      BY <3>1 DEF EmbryoHasFork
    <3>3. r # p
      BY <3>1, <3>2
    <3> QED BY <1>0, <2>1, <3>2, <3>3
  <2> QED BY <2>2 DEF EmbryoHasFork
<1>5. ASSUME NEW c \in CPUs, Scheduling(c) \/ Yield(c)  PROVE  UNCHANGED <<np, nextpid>>
  BY <1>5 DEF Scheduling, SchedulerLock, SchedulerPick, SchedulerUnlock, SwitchBack,
     Resume, Yield, threadVars
<1>6. ASSUME NEW c \in CPUs,
             \/ EnterKernel(c) \/ AllocFull(c) \/ ForkCopy(c) \/ Exit(c)
             \/ WaitReaps(c) \/ WaitFails(c) \/ WaitSleeps(c) \/ Kill(c)
             \/ SleepLock(c) \/ SleepRelock(c) \/ SleepReturns(c)
             \/ SleepChecks(c) \/ SleepSwapLocks(c) \/ SleepSwitches(c)
      PROVE  UNCHANGED <<np, nextpid>>
  BY <1>6 DEF EnterKernel, AllocFull, ForkCopy, Exit, WaitReaps, WaitFails, WaitSleeps,
     Kill, SleepLock, SleepRelock, SleepReturns, SleepChecks, SleepSwapLocks, SleepSwitches
<1>7. CASE TimerTick \/ TimerWakeup
  BY <1>2, <1>7 DEF TimerTick, TimerWakeup, threadVars
<1> QED BY <1>2, <1>3, <1>4, <1>5, <1>6, <1>7 DEF Next, Work

\* What fork does to its slot without ptable.lock is safe: nobody else makes,
\* frees, runs or collects what is in it, and no failed fork leaves it behind.
THEOREM ForksOwnTheirSlots == Spec => []ForkOwnsItsSlot
<1>1. Init => EmbryoHasFork
  BY DEF Init, EmbryoHasFork
<1>2. IInv /\ EmbryoHasFork /\ [Next]_vars => EmbryoHasFork'
  <2>1. EmbryoHasFork /\ UNCHANGED vars => EmbryoHasFork'
    BY DEF EmbryoHasFork, vars, procVars, threadVars
  <2> QED BY <2>1, EmbryosKeepTheirFork
<1>3. IInv /\ EmbryoHasFork => ForkOwnsItsSlot
  <2> SUFFICES ASSUME IInv, EmbryoHasFork  PROVE  ForkOwnsItsSlot
    OBVIOUS
  <2>1. ASSUME NEW p \in Slots, np[p] # None
        PROVE  /\ state[np[p]] = "EMBRYO" /\ parent[np[p]] \in {None, p}
               /\ \A q \in Slots : q # p => np[q] # np[p]
    BY <2>1 DEF IInv, ForkInv
  <2> QED BY <2>1 DEF ForkOwnsItsSlot, EmbryoHasFork
<1> QED BY Invariance, <1>1, <1>2, <1>3, PTL DEF Spec

-----------------------------------------------------------------------------
(* Who is older.                                                           *)

\* A process has a greater pid than its parent and than the process that forks
\* it, and a slot that has a parent but does not live yet is the one that its
\* parent's fork is filling.
AgeInv ==
  \A q \in Slots :
    /\ state[q] # "UNUSED" /\ parent[q] # None =>
         pid[parent[q]] > 0 /\ pid[parent[q]] < pid[q]
    /\ state[q] = "EMBRYO" /\ parent[q] # None => np[parent[q]] = q
    /\ np[q] # None => pid[q] < pid[np[q]]

\* Only fork gives a slot a stack, and the parent it copies has one.
CopiesOfParents ==
  \A q \in Slots :
    kstack'[q] => kstack[q] \/ (parent'[q] \in Slots /\ kstack[parent'[q]])

\* The parent of a slot in use lives and is not a zombie.
LEMMA ParentsLive ==
  ASSUME IInv, AgeInv, NEW q \in Slots, state[q] # "UNUSED", parent[q] # None
  PROVE  /\ parent[q] \in Slots /\ parent[q] # q
         /\ state[parent[q]] \notin {"UNUSED", "EMBRYO", "ZOMBIE"}
<1>1. parent[q] \in Slots /\ parent[q] # q
  BY DEF IInv, TypeOK, RootInv
<1>2. CASE state[q] = "EMBRYO"
  <2>1. np[parent[q]] # None
    BY <1>2 DEF AgeInv
  <2>2. pc[parent[q]] \in {"forkcopy", "forkrun"}
    BY <1>1, <2>1 DEF IInv, ForkInv
  <2> QED BY <1>1, <2>2 DEF IInv, ThreadInv
<1>3. CASE state[q] # "EMBRYO"
  <2>1. q \in Live /\ q # initproc
    BY <1>3 DEF Live, IInv, RootInv
  <2> QED BY <1>1, <2>1 DEF IInv, ParentAlive, Live
<1> QED BY <1>2, <1>3

\* A step that gives out no pid and leaves the pids, parents and stacks alone.
LEMMA AgesStay ==
  ASSUME IInv, AgeInv, LegalMoves, PidsMove,
         UNCHANGED <<pid, parent, np, kstack, nextpid>>
  PROVE  AgeInv' /\ CopiesOfParents
<1>1. nextpid \in Nat
  BY DEF IInv, TypeOK
<1>2. \A q \in Slots : state'[q] # "UNUSED" => state[q] # "UNUSED"
  BY <1>1 DEF PidsMove
<1>3. \A q \in Slots : state'[q] = "EMBRYO" => state[q] = "EMBRYO"
  BY <1>2 DEF LegalMoves
<1> QED BY <1>2, <1>3 DEF AgeInv, CopiesOfParents

LEMMA AllocAges ==
  ASSUME IInv, AgeInv, NEW c \in CPUs, AllocProc(c)
  PROVE  AgeInv' /\ CopiesOfParents
<1>1. PICK p \in Slots :
        /\ pc[p] = "fork" /\ Runs(c, p, "fork") /\ Unused # {}
        /\ state' = [state EXCEPT ![First(Unused)] = "EMBRYO"]
        /\ pid' = [pid EXCEPT ![First(Unused)] = nextpid]
        /\ np' = [np EXCEPT ![p] = First(Unused)]
  BY DEF AllocProc, Runs
<1>2. First(Unused) \in Unused
  <2>1. Unused \subseteq Nat
    BY DEF Unused
  <2> QED BY <1>1, <2>1, FirstIn
<1>3. PICK r \in Slots : /\ state[r] = "UNUSED"
                         /\ state' = [state EXCEPT ![r] = "EMBRYO"]
                         /\ pid' = [pid EXCEPT ![r] = nextpid]
                         /\ np' = [np EXCEPT ![p] = r]
  BY <1>1, <1>2 DEF Unused
<1>4. UNCHANGED <<parent, kstack>>
  BY DEF AllocProc
<1>5. state[p] = "RUNNING" /\ p # r
  BY <1>1, <1>3, OnItsCpu DEF IInv
<1>6. /\ pid'[r] = nextpid /\ state'[r] = "EMBRYO" /\ np'[p] = r
      /\ \A q \in Slots \ {r} : pid'[q] = pid[q] /\ state'[q] = state[q]
      /\ \A q \in Slots \ {p} : np'[q] = np[q]
  BY <1>3 DEF IInv, TypeOK
<1>7. np[p] = None /\ parent[r] = None
  BY <1>1, <1>3 DEF IInv, ForkInv, ParentAlive
<1>8. pid[p] < nextpid
  <2>1. pid[p] \in 1..(nextpid - 1)
    BY <1>5 DEF IInv, PidsUnique
  <2>2. nextpid \in Nat
    BY DEF IInv, TypeOK
  <2> QED BY <2>1, <2>2
<1>9. ASSUME NEW q \in Slots
      PROVE  /\ state'[q] # "UNUSED" /\ parent'[q] # None =>
                  pid'[parent'[q]] > 0 /\ pid'[parent'[q]] < pid'[q]
             /\ state'[q] = "EMBRYO" /\ parent'[q] # None => np'[parent'[q]] = q
             /\ np'[q] # None => pid'[q] < pid'[np'[q]]
  <2>1. ASSUME state'[q] # "UNUSED", parent'[q] # None
        PROVE  /\ pid'[parent'[q]] > 0 /\ pid'[parent'[q]] < pid'[q]
               /\ state'[q] = "EMBRYO" => np'[parent'[q]] = q
    <3>1. q # r /\ state[q] # "UNUSED" /\ parent[q] # None
      BY <1>4, <1>6, <1>7, <2>1
    <3>2. parent[q] \in Slots /\ parent[q] # r
      BY <1>3, <3>1, ParentsLive
    <3>3. pid'[parent[q]] = pid[parent[q]] /\ pid'[q] = pid[q]
      BY <1>6, <3>1, <3>2
    <3>4. state[q] = "EMBRYO" => np[parent[q]] = q /\ parent[q] # p
      BY <1>7, <3>1 DEF AgeInv
    <3> QED BY <1>4, <1>6, <3>1, <3>2, <3>3, <3>4 DEF AgeInv
  <2>2. ASSUME np'[q] # None
        PROVE  pid'[q] < pid'[np'[q]]
    <3>1. CASE q = p
      BY <1>5, <1>6, <1>8, <3>1
    <3>2. CASE q # p
      <4>1. np[q] # None /\ np'[q] = np[q]
        BY <1>6, <2>2, <3>2
      <4>2. np[q] \in Slots /\ state[np[q]] = "EMBRYO" /\ pc[q] \in {"forkcopy", "forkrun"}
        BY <4>1 DEF IInv, ForkInv, TypeOK
      <4>3. q # r /\ np[q] # r
        BY <1>3, <4>2 DEF IInv, ThreadInv
      <4> QED BY <1>6, <4>1, <4>2, <4>3 DEF AgeInv
    <3> QED BY <3>1, <3>2
  <2> QED BY <2>1, <2>2
<1>10. AgeInv'
  BY <1>9 DEF AgeInv
<1> QED BY <1>4, <1>10 DEF CopiesOfParents

LEMMA ForkAges ==
  ASSUME IInv, AgeInv, NEW c \in CPUs, ForkFails(c) \/ ForkCopy(c) \/ ForkRun(c)
  PROVE  AgeInv' /\ CopiesOfParents
<1>0. /\ state = [q \in Slots |-> state[q]] /\ np = [q \in Slots |-> np[q]]
      /\ kstack = [q \in Slots |-> kstack[q]] /\ parent = [q \in Slots |-> parent[q]]
  BY DEF IInv, TypeOK
<1>1. PICK p \in Slots :
        /\ Runs(c, p, "forkcopy") \/ Runs(c, p, "forkrun")
        /\ \/ /\ Runs(c, p, "forkcopy")
              /\ state' = [state EXCEPT ![np[p]] = "UNUSED"]
              /\ np' = [np EXCEPT ![p] = None] /\ UNCHANGED <<pid, parent, kstack>>
           \/ /\ Runs(c, p, "forkcopy")
              /\ kstack' = [kstack EXCEPT ![np[p]] = TRUE]
              /\ parent' = [parent EXCEPT ![np[p]] = p]
              /\ UNCHANGED <<state, pid, np>>
           \/ /\ state' = [state EXCEPT ![np[p]] = "RUNNABLE"]
              /\ np' = [np EXCEPT ![p] = None] /\ UNCHANGED <<pid, parent, kstack>>
  BY DEF ForkFails, ForkCopy, ForkRun
<1>2. /\ np[p] \in Slots /\ state[np[p]] = "EMBRYO"
      /\ pc[p] = "forkcopy" => parent[np[p]] = None
      /\ state[p] = "RUNNING"
  BY <1>1, OnItsCpu DEF IInv, ForkInv, TypeOK, Runs
<1>3. PICK r \in Slots : r = np[p]
  BY <1>2
<1>4. CASE /\ kstack' = [kstack EXCEPT ![r] = TRUE]
           /\ parent' = [parent EXCEPT ![r] = p] /\ Runs(c, p, "forkcopy")
           /\ UNCHANGED <<state, pid, np>>
  <2>1. /\ parent'[r] = p /\ kstack'[r]
        /\ \A q \in Slots \ {r} : parent'[q] = parent[q] /\ kstack'[q] = kstack[q]
    BY <1>0, <1>4
  <2>2. kstack[p] /\ pid[p] > 0 /\ pid[p] < pid[r]
    <3>1. kstack[p] /\ pid[p] \in 1..(nextpid - 1) /\ nextpid \in Nat
      BY <1>2 DEF IInv, StackInv, Live, PidsUnique, TypeOK
    <3>2. pid[p] < pid[r]
      BY <1>2, <1>3 DEF AgeInv
    <3> QED BY <3>1, <3>2
  <2>3. AgeInv'
    BY <1>3, <1>4, <2>1, <2>2 DEF AgeInv
  <2>4. CopiesOfParents
    BY <2>1, <2>2 DEF CopiesOfParents
  <2> QED BY <2>3, <2>4
<1>5. ASSUME NEW s \in {"UNUSED", "RUNNABLE"}, state' = [state EXCEPT ![r] = s],
             np' = [np EXCEPT ![p] = None], UNCHANGED <<pid, parent, kstack>>
      PROVE  AgeInv' /\ CopiesOfParents
  <2>1. /\ state'[r] = s /\ np'[p] = None
        /\ \A q \in Slots \ {r} : state'[q] = state[q]
        /\ \A q \in Slots \ {p} : np'[q] = np[q]
    BY <1>0, <1>5
  <2>2. \A q \in Slots : /\ state'[q] # "UNUSED" => state[q] # "UNUSED"
                         /\ state'[q] = "EMBRYO" => state[q] = "EMBRYO" /\ q # r
                         /\ np'[q] # None => np'[q] = np[q]
    BY <1>2, <1>3, <2>1
  <2>3. \A q \in Slots : state'[q] = "EMBRYO" /\ parent[q] # None => np'[parent[q]] = q
    <3>1. ASSUME NEW q \in Slots, state'[q] = "EMBRYO", parent[q] # None
          PROVE  np'[parent[q]] = q
      <4>1. np[parent[q]] = q /\ q # r /\ parent[q] \in Slots
        BY <2>2, <3>1, ParentsLive DEF AgeInv
      <4>2. parent[q] # p
        BY <1>3, <4>1
      <4> QED BY <2>1, <4>1, <4>2
    <3> QED BY <3>1
  <2>4. AgeInv'
    BY <1>5, <2>2, <2>3 DEF AgeInv
  <2> QED BY <1>5, <2>4 DEF CopiesOfParents
<1> QED BY <1>1, <1>3, <1>4, <1>5

LEMMA ExitAges ==
  ASSUME IInv, AgeInv, LegalMoves, PidsMove, NEW c \in CPUs, Exit(c)
  PROVE  AgeInv' /\ CopiesOfParents
<1>1. PICK p \in Slots :
        /\ Runs(c, p, "exit")
        /\ parent' = [q \in Slots |-> IF q \in Children(p) THEN initproc ELSE parent[q]]
  BY DEF Exit
<1>2. UNCHANGED <<pid, kstack, np, nextpid>> /\ nextpid \in Nat
  BY DEF Exit, IInv, TypeOK
<1>3. /\ \A q \in Slots : state'[q] # "UNUSED" => state[q] # "UNUSED"
      /\ \A q \in Slots : state'[q] = "EMBRYO" => state[q] = "EMBRYO"
  BY <1>2 DEF PidsMove, LegalMoves
<1>4. pc[p] = "exit" /\ p # initproc
  BY <1>1 DEF Runs, IInv, RootInv
<1>5. \A q \in Slots : parent'[q] = IF parent[q] = p THEN initproc ELSE parent[q]
  BY <1>1 DEF Children
<1>6. ASSUME NEW q \in Slots, state'[q] # "UNUSED", parent'[q] # None
      PROVE  /\ pid[parent'[q]] > 0 /\ pid[parent'[q]] < pid[q]
             /\ state'[q] = "EMBRYO" => np[parent'[q]] = q
  <2>1. state[q] # "UNUSED" /\ parent[q] # None
    BY <1>3, <1>5, <1>6
  <2>2. CASE parent[q] = p
    <3>1. q # initproc
      BY <2>1 DEF IInv, RootInv
    <3>2. pid[initproc] = 1 /\ pid[q] # 1 /\ pid[q] \in 1..(nextpid - 1)
      <4>1. initproc \in Slots /\ state[initproc] # "UNUSED" /\ pid[initproc] = 1
        BY TableAssumption DEF IInv, RootInv, ParentAlive
      <4> QED BY <2>1, <3>1, <4>1 DEF IInv, PidsUnique
    <3>3. pid[initproc] > 0 /\ pid[initproc] < pid[q]
      BY <1>2, <3>2
    <3>4. state[q] # "EMBRYO"
      <4> SUFFICES ASSUME state[q] = "EMBRYO" PROVE FALSE
        OBVIOUS
      <4>1. np[p] = q
        BY <2>1, <2>2 DEF AgeInv
      <4> QED BY <1>4, <4>1 DEF IInv, ForkInv
    <3> QED BY <1>3, <1>5, <2>2, <3>3, <3>4
  <2>3. CASE parent[q] # p
    BY <1>3, <1>5, <2>1, <2>3 DEF AgeInv
  <2> QED BY <2>2, <2>3
<1>7. AgeInv'
  BY <1>2, <1>6 DEF AgeInv
<1> QED BY <1>2, <1>7 DEF CopiesOfParents

LEMMA WaitAges ==
  ASSUME IInv, AgeInv, NEW c \in CPUs, WaitReaps(c)
  PROVE  AgeInv' /\ CopiesOfParents
<1>1. PICK p \in Slots :
        /\ ZombieChildren(p) # {}
        /\ LET q == First(ZombieChildren(p))
           IN  /\ kstack' = [kstack EXCEPT ![q] = FALSE]
               /\ pid' = [pid EXCEPT ![q] = 0]
               /\ parent' = [parent EXCEPT ![q] = None]
               /\ state' = [state EXCEPT ![q] = "UNUSED"]
  BY DEF WaitReaps
<1>2. First(ZombieChildren(p)) \in ZombieChildren(p)
  <2>1. ZombieChildren(p) \subseteq Nat
    BY DEF ZombieChildren, Children
  <2> QED BY <1>1, <2>1, FirstIn
<1>3. PICK z \in Slots : /\ state[z] = "ZOMBIE"
                         /\ kstack' = [kstack EXCEPT ![z] = FALSE]
                         /\ pid' = [pid EXCEPT ![z] = 0]
                         /\ parent' = [parent EXCEPT ![z] = None]
                         /\ state' = [state EXCEPT ![z] = "UNUSED"]
  BY <1>1, <1>2 DEF ZombieChildren, Children
<1>4. UNCHANGED np
  BY DEF WaitReaps
<1>5. /\ state'[z] = "UNUSED" /\ ~ kstack'[z]
      /\ \A q \in Slots \ {z} : /\ state'[q] = state[q] /\ pid'[q] = pid[q]
                                /\ parent'[q] = parent[q] /\ kstack'[q] = kstack[q]
  BY <1>3 DEF IInv, TypeOK
<1>6. ASSUME NEW q \in Slots, state'[q] # "UNUSED", parent'[q] # None
      PROVE  /\ pid'[parent'[q]] > 0 /\ pid'[parent'[q]] < pid'[q]
             /\ state'[q] = "EMBRYO" => np[parent'[q]] = q
  <2>1. q # z /\ state[q] # "UNUSED" /\ parent[q] # None
    BY <1>5, <1>6
  <2>2. parent[q] \in Slots /\ parent[q] # z
    BY <1>3, <2>1, ParentsLive
  <2> QED BY <1>5, <2>1, <2>2 DEF AgeInv
<1>7. ASSUME NEW q \in Slots, np[q] # None
      PROVE  pid'[q] < pid'[np[q]]
  <2>1. np[q] \in Slots /\ state[np[q]] = "EMBRYO" /\ pc[q] \in {"forkcopy", "forkrun"}
    BY <1>7 DEF IInv, ForkInv, TypeOK
  <2>2. q # z /\ np[q] # z
    BY <1>3, <2>1 DEF IInv, ThreadInv
  <2> QED BY <1>5, <1>7, <2>1, <2>2 DEF AgeInv
<1>8. AgeInv'
  BY <1>4, <1>6, <1>7 DEF AgeInv
<1> QED BY <1>5, <1>8 DEF CopiesOfParents

LEMMA NextAges ==
  ASSUME IInv, AgeInv, Next
  PROVE  AgeInv' /\ CopiesOfParents
<1>1. LegalMoves /\ PidsMove
  BY NextKeeps, StepMoves
<1>2. CASE \/ TimerTick \/ TimerWakeup
           \/ \E c \in CPUs : Scheduling(c) \/ Yield(c)
  <2>1. UNCHANGED <<pid, parent, np, kstack, nextpid>>
    BY <1>2 DEF TimerTick, TimerWakeup, Scheduling, SchedulerLock, SchedulerPick,
       SchedulerUnlock, SwitchBack, Resume, Yield, procVars, threadVars
  <2> QED BY <1>1, <2>1, AgesStay
<1>3. ASSUME NEW c \in CPUs,
             \/ EnterKernel(c) \/ AllocFull(c) \/ WaitFails(c) \/ WaitSleeps(c)
             \/ Kill(c) \/ SleepLock(c) \/ SleepRelock(c) \/ SleepReturns(c)
             \/ SleepChecks(c) \/ SleepSwapLocks(c) \/ SleepSwitches(c)
      PROVE  AgeInv' /\ CopiesOfParents
  <2>1. UNCHANGED <<pid, parent, np, kstack, nextpid>>
    BY <1>3 DEF EnterKernel, AllocFull, WaitFails, WaitSleeps, Kill, SleepLock,
       SleepRelock, SleepReturns, SleepChecks, SleepSwapLocks, SleepSwitches, procVars
  <2> QED BY <1>1, <2>1, AgesStay
<1> QED BY <1>1, <1>2, <1>3, AllocAges, ForkAges, ExitAges, WaitAges DEF Next, Work

-----------------------------------------------------------------------------
(* What a step of the table does, slot by slot.                            *)

Sleeping == {"sleep", "sleeprelock", "sleepcheck", "sleepenter", "sleepswitch"}

\* A step that makes, moves and frees no process.
Still ==
  /\ UNCHANGED <<pid, nextpid, parent, np, kstack>>
  /\ \A r \in Slots : \/ state'[r] = state[r]
                      \/ {state[r], state'[r]} \subseteq {"RUNNABLE", "RUNNING", "SLEEPING"}
  /\ \A r \in Slots :
       \/ pc'[r] = pc[r]
       \/ pc[r] = "user" /\ pc'[r] \in Calls /\ (killed[r] => pc'[r] = "exit")
       \/ pc[r] = "wait" /\ pc'[r] = "waitscan"
       \/ pc[r] \in {"wait", "waitscan"} /\ pc'[r] = "user" /\ (Children(r) = {} \/ killed[r])
       \/ pc[r] = "fork" /\ pc'[r] = "user"
       \/ pc[r] \in Sleeping /\ pc'[r] \in Sleeping \cup {"user"}
       \/ pc[r] = "kill" /\ pc'[r] = "user"
  /\ killed' = killed \/ \E r \in Slots : pc[r] = "kill"
  /\ \A r \in Slots : killed[r] => killed'[r]

\* fork() of p takes slot q, and gives it up, fills it and lets it go.
Takes(p, q) ==
  /\ pc[p] = "fork" /\ state[p] = "RUNNING" /\ state[q] = "UNUSED" /\ p # q
  /\ UNCHANGED <<parent, kstack, killed>>
  /\ nextpid <= MaxPid /\ nextpid' = nextpid + 1
  /\ \A r \in Slots : /\ state'[r] = IF r = q THEN "EMBRYO" ELSE state[r]
                      /\ pid'[r] = IF r = q THEN nextpid ELSE pid[r]
                      /\ np'[r] = IF r = p THEN q ELSE np[r]
                      /\ pc'[r] = IF r = p THEN "forkcopy" ELSE pc[r]

Drops(p, q) ==
  /\ pc[p] = "forkcopy" /\ state[p] = "RUNNING" /\ np[p] = q
  /\ state[q] = "EMBRYO" /\ parent[q] = None /\ p # q
  /\ UNCHANGED <<pid, nextpid, parent, kstack, killed>>
  /\ \A r \in Slots : /\ state'[r] = IF r = q THEN "UNUSED" ELSE state[r]
                      /\ np'[r] = IF r = p THEN None ELSE np[r]
                      /\ pc'[r] = IF r = p THEN "user" ELSE pc[r]

Fills(p, q) ==
  /\ pc[p] = "forkcopy" /\ state[p] = "RUNNING" /\ np[p] = q
  /\ state[q] = "EMBRYO" /\ parent[q] = None /\ p # q
  /\ UNCHANGED <<state, pid, nextpid, np, killed>>
  /\ \A r \in Slots : /\ parent'[r] = IF r = q THEN p ELSE parent[r]
                      /\ kstack'[r] = IF r = q THEN TRUE ELSE kstack[r]
                      /\ pc'[r] = IF r = p THEN "forkrun" ELSE pc[r]

Makes(p, q) ==
  /\ pc[p] = "forkrun" /\ state[p] = "RUNNING" /\ np[p] = q
  /\ state[q] = "EMBRYO" /\ parent[q] = p /\ kstack[q] /\ pc[q] = "user" /\ p # q
  /\ UNCHANGED <<pid, nextpid, parent, kstack, killed>>
  /\ \A r \in Slots : /\ state'[r] = IF r = q THEN "RUNNABLE" ELSE state[r]
                      /\ np'[r] = IF r = p THEN None ELSE np[r]
                      /\ pc'[r] = IF r = p THEN "user" ELSE pc[r]

\* exit() of p, and wait() of p for z.
Exits(p) ==
  /\ pc[p] = "exit" /\ state[p] = "RUNNING" /\ p # initproc
  /\ UNCHANGED <<pid, nextpid, np, pc, kstack, killed>>
  /\ \A r \in Slots : /\ parent'[r] = IF parent[r] = p THEN initproc ELSE parent[r]
                      /\ r = p => state'[r] = "ZOMBIE"
                      /\ r # p => \/ state'[r] = state[r]
                                  \/ state[r] = "SLEEPING" /\ state'[r] = "RUNNABLE"

Reaps(p, z) ==
  /\ pc[p] \in {"wait", "waitscan"} /\ state[p] = "RUNNING"
  /\ state[z] = "ZOMBIE" /\ parent[z] = p /\ pc[z] = "exit" /\ p # z
  /\ UNCHANGED <<nextpid, np>>
  /\ \A r \in Slots : /\ state'[r] = IF r = z THEN "UNUSED" ELSE state[r]
                      /\ pid'[r] = IF r = z THEN 0 ELSE pid[r]
                      /\ parent'[r] = IF r = z THEN None ELSE parent[r]
                      /\ kstack'[r] = IF r = z THEN FALSE ELSE kstack[r]
                      /\ killed'[r] = IF r = z THEN FALSE ELSE killed[r]
                      /\ pc'[r] = IF r \in {p, z} THEN "user" ELSE pc[r]

TableMove ==
  \/ Still
  \/ \E p, q \in Slots : Takes(p, q) \/ Drops(p, q) \/ Fills(p, q) \/ Makes(p, q)
                         \/ Reaps(p, q)
  \/ \E p \in Slots : Exits(p)

\* The tables as functions.
LEMMA TableIs ==
  ASSUME IInv
  PROVE  /\ state = [r \in Slots |-> state[r]] /\ pid = [r \in Slots |-> pid[r]]
         /\ parent = [r \in Slots |-> parent[r]] /\ kstack = [r \in Slots |-> kstack[r]]
         /\ killed = [r \in Slots |-> killed[r]] /\ pc = [r \in Slots |-> pc[r]]
         /\ np = [r \in Slots |-> np[r]]
BY DEF IInv, TypeOK

LEMMA SchedulingIsStill ==
  ASSUME IInv, NEW c \in CPUs, Scheduling(c) \/ Yield(c)
  PROVE  Still
<1>0. state = [r \in Slots |-> state[r]] /\ pc = [r \in Slots |-> pc[r]]
  BY TableIs
<1>1. UNCHANGED <<pid, nextpid, parent, np, kstack, killed>>
  BY DEF Scheduling, SchedulerLock, SchedulerUnlock, SwitchBack, SchedulerPick, Resume,
     Yield, procVars, threadVars
<1>2. CASE SchedulerLock(c) \/ SchedulerUnlock(c) \/ SwitchBack(c)
  <2>1. UNCHANGED <<state, pc>>
    BY <1>2 DEF SchedulerLock, SchedulerUnlock, SwitchBack, procVars, threadVars
  <2> QED BY <1>1, <2>1 DEF Still
<1>3. CASE Resume(c)
  <2>1. /\ state' = state
        /\ \/ pc' = pc
           \/ inside[cproc[c]] = "wait" /\ pc' = [pc EXCEPT ![cproc[c]] = "waitscan"]
           \/ inside[cproc[c]] = "sleep" /\ pc' = [pc EXCEPT ![cproc[c]] = "sleeprelock"]
    BY <1>3 DEF Resume, Goes
  <2>2. cproc[c] \in Slots
    BY <1>3, BusyWithOne DEF Resume, IInv
  <2>3. /\ inside[cproc[c]] = "wait" => pc[cproc[c]] \in {"wait", "waitscan"}
        /\ inside[cproc[c]] = "sleep" => pc[cproc[c]] = "sleepswitch"
    BY <2>2 DEF IInv, ThreadInv
  <2>4. \A r \in Slots : \/ pc'[r] = pc[r]
                         \/ pc[r] = "wait" /\ pc'[r] = "waitscan"
                         \/ pc[r] \in Sleeping /\ pc'[r] \in Sleeping
    BY <1>0, <2>1, <2>3 DEF Sleeping
  <2> QED BY <1>1, <2>1, <2>4 DEF Still
<1>4. CASE SchedulerPick(c)
  <2>1. PICK p \in RunnableFrom(scan[c]) : state' = [state EXCEPT ![p] = "RUNNING"]
    <3>1. RunnableFrom(scan[c]) \subseteq Nat /\ RunnableFrom(scan[c]) # {}
      BY <1>4 DEF SchedulerPick, RunnableFrom, IInv, TypeOK
    <3>2. First(RunnableFrom(scan[c])) \in RunnableFrom(scan[c])
      BY <3>1, FirstIn
    <3> QED BY <1>4, <3>2 DEF SchedulerPick
  <2>2. pc' = pc
    BY <1>4 DEF SchedulerPick, threadVars
  <2>3. state[p] = "RUNNABLE"
    BY DEF RunnableFrom
  <2> QED BY <1>0, <1>1, <2>1, <2>2, <2>3 DEF Still
<1>5. CASE Yield(c)
  <2>1. PICK p \in Slots, where \in PCs :
          Runs(c, p, where) /\ state' = [state EXCEPT ![p] = "RUNNABLE"]
    BY <1>5 DEF Yield
  <2>2. state[p] = "RUNNING"
    BY <2>1, OnItsCpu DEF IInv
  <2>3. pc' = pc
    BY <1>5 DEF Yield
  <2> QED BY <1>0, <1>1, <2>1, <2>2, <2>3 DEF Still
<1> QED BY <1>2, <1>3, <1>4, <1>5 DEF Scheduling

LEMMA ForkIsOne ==
  ASSUME IInv, NEW c \in CPUs,
         AllocProc(c) \/ AllocFull(c) \/ ForkFails(c) \/ ForkCopy(c) \/ ForkRun(c)
  PROVE  TableMove
<1>0. /\ state = [r \in Slots |-> state[r]] /\ pid = [r \in Slots |-> pid[r]]
      /\ parent = [r \in Slots |-> parent[r]] /\ kstack = [r \in Slots |-> kstack[r]]
      /\ pc = [r \in Slots |-> pc[r]] /\ np = [r \in Slots |-> np[r]]
  BY TableIs
<1>1. CASE AllocProc(c)
  <2>1. PICK p \in Slots :
          /\ Runs(c, p, "fork") /\ pc' = [pc EXCEPT ![p] = "forkcopy"]
          /\ Unused # {} /\ nextpid <= MaxPid
          /\ state' = [state EXCEPT ![First(Unused)] = "EMBRYO"]
          /\ pid' = [pid EXCEPT ![First(Unused)] = nextpid]
          /\ np' = [np EXCEPT ![p] = First(Unused)]
    BY <1>1 DEF AllocProc, Goes
  <2>2. First(Unused) \in Unused
    <3>1. Unused \subseteq Nat
      BY DEF Unused
    <3> QED BY <2>1, <3>1, FirstIn
  <2>3. PICK q \in Slots : /\ state[q] = "UNUSED"
                           /\ state' = [state EXCEPT ![q] = "EMBRYO"]
                           /\ pid' = [pid EXCEPT ![q] = nextpid]
                           /\ np' = [np EXCEPT ![p] = q]
    BY <2>1, <2>2 DEF Unused
  <2>4. pc[p] = "fork" /\ state[p] = "RUNNING"
    BY <2>1, OnItsCpu DEF IInv
  <2>5. UNCHANGED <<parent, kstack, killed>> /\ nextpid' = nextpid + 1
    BY <1>1 DEF AllocProc
  <2>6. Takes(p, q)
    BY <1>0, <2>1, <2>3, <2>4, <2>5 DEF Takes
  <2> QED BY <2>6 DEF TableMove
<1>2. CASE AllocFull(c)
  <2>1. PICK p \in Slots : pc[p] = "fork" /\ pc' = [pc EXCEPT ![p] = "user"]
    BY <1>2 DEF AllocFull, Runs, Goes
  <2>2. UNCHANGED <<state, pid, nextpid, parent, np, kstack, killed>>
    BY <1>2 DEF AllocFull, procVars
  <2>3. Still
    BY <1>0, <2>1, <2>2 DEF Still
  <2> QED BY <2>3 DEF TableMove
<1>3. CASE ForkFails(c)
  <2>1. PICK p \in Slots : /\ Runs(c, p, "forkcopy") /\ pc' = [pc EXCEPT ![p] = "user"]
                           /\ state' = [state EXCEPT ![np[p]] = "UNUSED"]
                           /\ np' = [np EXCEPT ![p] = None]
    BY <1>3 DEF ForkFails, Goes
  <2>2. UNCHANGED <<pid, nextpid, parent, kstack, killed>>
    BY <1>3 DEF ForkFails
  <2>3. pc[p] = "forkcopy" /\ state[p] = "RUNNING"
    BY <2>1, OnItsCpu DEF IInv
  <2>4. PICK q \in Slots : np[p] = q /\ state[q] = "EMBRYO" /\ parent[q] = None
    BY <2>3 DEF IInv, ForkInv, TypeOK
  <2>5. Drops(p, q)
    BY <1>0, <2>1, <2>2, <2>3, <2>4 DEF Drops
  <2> QED BY <2>5 DEF TableMove
<1>4. CASE ForkCopy(c)
  <2>1. PICK p \in Slots : /\ Runs(c, p, "forkcopy") /\ pc' = [pc EXCEPT ![p] = "forkrun"]
                           /\ kstack' = [kstack EXCEPT ![np[p]] = TRUE]
                           /\ parent' = [parent EXCEPT ![np[p]] = p]
    BY <1>4 DEF ForkCopy, Goes
  <2>2. UNCHANGED <<state, pid, nextpid, np, killed>>
    BY <1>4 DEF ForkCopy
  <2>3. pc[p] = "forkcopy" /\ state[p] = "RUNNING"
    BY <2>1, OnItsCpu DEF IInv
  <2>4. PICK q \in Slots : np[p] = q /\ state[q] = "EMBRYO" /\ parent[q] = None
    BY <2>3 DEF IInv, ForkInv, TypeOK
  <2>5. Fills(p, q)
    BY <1>0, <2>1, <2>2, <2>3, <2>4 DEF Fills
  <2> QED BY <2>5 DEF TableMove
<1>5. CASE ForkRun(c)
  <2>1. PICK p \in Slots : /\ Runs(c, p, "forkrun")
                           /\ pc' = [pc EXCEPT ![p] = "user", ![np[p]] = "user"]
                           /\ state' = [state EXCEPT ![np[p]] = "RUNNABLE"]
                           /\ np' = [np EXCEPT ![p] = None]
    BY <1>5 DEF ForkRun
  <2>2. UNCHANGED <<pid, nextpid, parent, kstack, killed>>
    BY <1>5 DEF ForkRun
  <2>3. pc[p] = "forkrun" /\ state[p] = "RUNNING"
    BY <2>1, OnItsCpu DEF IInv
  <2>4. PICK q \in Slots : np[p] = q /\ state[q] = "EMBRYO" /\ parent[q] = p /\ kstack[q]
    BY <2>3 DEF IInv, ForkInv, TypeOK
  <2>5. pc[q] = "user"
    BY <2>4 DEF IInv, ThreadInv
  <2>6. Makes(p, q)
    BY <1>0, <2>1, <2>2, <2>3, <2>4, <2>5 DEF Makes
  <2> QED BY <2>6 DEF TableMove
<1> QED BY <1>1, <1>2, <1>3, <1>4, <1>5

LEMMA ExitIsOne ==
  ASSUME IInv, NEW c \in CPUs, Exit(c)
  PROVE  TableMove
<1>0. state = [r \in Slots |-> state[r]]
  BY TableIs
<1>1. PICK p \in Slots :
        /\ Runs(c, p, "exit")
        /\ parent' = [q \in Slots |-> IF q \in Children(p) THEN initproc ELSE parent[q]]
        /\ LET parentWoken == Woken(state, parent[p])
               zombies == {q \in Children(p) : state[q] = "ZOMBIE"}
               initWoken == IF zombies = {} THEN parentWoken
                            ELSE Woken(parentWoken, initproc)
           IN  state' = [initWoken EXCEPT ![p] = "ZOMBIE"]
  BY DEF Exit
<1>2. UNCHANGED <<pid, nextpid, np, pc, kstack, killed>>
  BY DEF Exit
<1>3. pc[p] = "exit" /\ state[p] = "RUNNING"
  BY <1>1, OnItsCpu DEF IInv
<1>4. p # initproc
  BY <1>3 DEF IInv, RootInv
<1>5. /\ state'[p] = "ZOMBIE"
      /\ \A r \in Slots : r # p => \/ state'[r] = state[r]
                                   \/ state[r] = "SLEEPING" /\ state'[r] = "RUNNABLE"
  <2>1. \E ch \in {TRUE, FALSE} :
          state' = [(IF ch THEN Woken(state, parent[p])
                     ELSE Woken(Woken(state, parent[p]), initproc)) EXCEPT ![p] = "ZOMBIE"]
    BY <1>1
  <2> QED BY <2>1 DEF Woken
<1>6. \A r \in Slots : parent'[r] = IF parent[r] = p THEN initproc ELSE parent[r]
  BY <1>1 DEF Children
<1>7. Exits(p)
  BY <1>2, <1>3, <1>4, <1>5, <1>6 DEF Exits
<1> QED BY <1>7 DEF TableMove

LEMMA WaitIsOne ==
  ASSUME IInv, NEW c \in CPUs, WaitReaps(c) \/ WaitFails(c) \/ WaitSleeps(c)
  PROVE  TableMove
<1>0. /\ state = [r \in Slots |-> state[r]] /\ pid = [r \in Slots |-> pid[r]]
      /\ parent = [r \in Slots |-> parent[r]] /\ kstack = [r \in Slots |-> kstack[r]]
      /\ pc = [r \in Slots |-> pc[r]] /\ killed = [r \in Slots |-> killed[r]]
  BY TableIs
<1>1. CASE WaitReaps(c)
  <2>1. PICK p \in Slots :
          /\ InWait(c, p) /\ ZombieChildren(p) # {}
          /\ LET q == First(ZombieChildren(p))
             IN  /\ kstack' = [kstack EXCEPT ![q] = FALSE]
                 /\ pid' = [pid EXCEPT ![q] = 0]
                 /\ parent' = [parent EXCEPT ![q] = None]
                 /\ killed' = [killed EXCEPT ![q] = FALSE]
                 /\ state' = [state EXCEPT ![q] = "UNUSED"]
                 /\ pc' = [pc EXCEPT ![p] = "user", ![q] = "user"]
    BY <1>1 DEF WaitReaps
  <2>2. First(ZombieChildren(p)) \in ZombieChildren(p)
    <3>1. ZombieChildren(p) \subseteq Nat
      BY DEF ZombieChildren, Children
    <3> QED BY <2>1, <3>1, FirstIn
  <2>3. PICK z \in Slots : /\ state[z] = "ZOMBIE" /\ parent[z] = p
                           /\ kstack' = [kstack EXCEPT ![z] = FALSE]
                           /\ pid' = [pid EXCEPT ![z] = 0]
                           /\ parent' = [parent EXCEPT ![z] = None]
                           /\ killed' = [killed EXCEPT ![z] = FALSE]
                           /\ state' = [state EXCEPT ![z] = "UNUSED"]
                           /\ pc' = [pc EXCEPT ![p] = "user", ![z] = "user"]
    BY <2>1, <2>2 DEF ZombieChildren, Children
  <2>4. UNCHANGED <<nextpid, np>>
    BY <1>1 DEF WaitReaps
  <2>5. pc[p] \in {"wait", "waitscan"} /\ state[p] = "RUNNING"
    BY <2>1, OnItsCpu DEF IInv, InWait
  <2>6. pc[z] = "exit" /\ p # z
    BY <2>3, <2>5 DEF IInv, ThreadInv
  <2>7. Reaps(p, z)
    BY <1>0, <2>3, <2>4, <2>5, <2>6 DEF Reaps
  <2> QED BY <2>7 DEF TableMove
<1>2. CASE WaitFails(c)
  <2>1. PICK p \in Slots : /\ pc[p] \in {"wait", "waitscan"}
                           /\ Children(p) = {} \/ killed[p]
                           /\ pc' = [pc EXCEPT ![p] = "user"]
    BY <1>2 DEF WaitFails, InWait, Runs, Goes
  <2>2. UNCHANGED <<state, pid, nextpid, parent, np, kstack, killed>>
    BY <1>2 DEF WaitFails, procVars
  <2>3. Still
    BY <1>0, <2>1, <2>2 DEF Still
  <2> QED BY <2>3 DEF TableMove
<1>3. CASE WaitSleeps(c)
  <2>1. PICK p \in Slots : /\ \E where : Runs(c, p, where)
                           /\ state' = [state EXCEPT ![p] = "SLEEPING"]
    BY <1>3 DEF WaitSleeps, InWait
  <2>2. state[p] = "RUNNING"
    BY <2>1, OnItsCpu DEF IInv
  <2>3. UNCHANGED <<pid, nextpid, parent, np, kstack, killed, pc>>
    BY <1>3 DEF WaitSleeps
  <2>4. Still
    BY <1>0, <2>1, <2>2, <2>3 DEF Still
  <2> QED BY <2>4 DEF TableMove
<1> QED BY <1>1, <1>2, <1>3

LEMMA OthersAreStill ==
  ASSUME IInv,
         \/ \E c \in CPUs : \/ EnterKernel(c) \/ Kill(c) \/ SleepLock(c) \/ SleepRelock(c)
                            \/ SleepReturns(c) \/ SleepChecks(c)
                            \/ SleepSwapLocks(c) \/ SleepSwitches(c)
         \/ TimerTick \/ TimerWakeup
  PROVE  Still
<1>0. state = [r \in Slots |-> state[r]] /\ pc = [r \in Slots |-> pc[r]]
  BY TableIs
<1>1. ASSUME NEW c \in CPUs, EnterKernel(c)
      PROVE  Still
  <2>1. UNCHANGED <<state, pid, nextpid, parent, np, kstack, killed>>
    BY <1>1 DEF EnterKernel, procVars
  <2>2. PICK p \in Slots, call \in Calls : /\ pc[p] = "user" /\ (killed[p] => call = "exit")
                                           /\ pc' = [pc EXCEPT ![p] = call]
    BY <1>1 DEF EnterKernel, Runs, Goes
  <2> QED BY <1>0, <2>1, <2>2 DEF Still
<1>2. ASSUME NEW c \in CPUs, Kill(c)
      PROVE  Still
  <2>1. PICK p \in Slots : \E q :
          /\ pc[p] = "kill" /\ pc' = [pc EXCEPT ![p] = "user"]
          /\ killed' = killed \/ killed' = [killed EXCEPT ![q] = TRUE]
          /\ \/ state' = state
             \/ state' = [state EXCEPT ![q] = IF @ = "SLEEPING" THEN "RUNNABLE" ELSE @]
    BY <1>2 DEF Kill, Runs, Goes
  <2>2. UNCHANGED <<pid, nextpid, parent, np, kstack>>
    BY <1>2 DEF Kill
  <2>3. \A r \in Slots : killed[r] => killed'[r]
    BY <2>1, TableIs
  <2> QED BY <1>0, <2>1, <2>2, <2>3 DEF Still
<1>3. ASSUME NEW c \in CPUs, \/ SleepLock(c) \/ SleepRelock(c) \/ SleepReturns(c)
                             \/ SleepChecks(c) \/ SleepSwapLocks(c)
      PROVE  Still
  <2>1. UNCHANGED <<state, pid, nextpid, parent, np, kstack, killed>>
    BY <1>3 DEF SleepLock, SleepRelock, SleepReturns, SleepChecks, SleepSwapLocks, procVars
  <2>2. PICK p \in Slots : /\ pc[p] \in Sleeping
                           /\ \E where \in Sleeping \cup {"user"} : pc' = [pc EXCEPT ![p] = where]
    BY <1>3 DEF SleepLock, SleepRelock, SleepReturns, SleepChecks, SleepSwapLocks, Runs, Goes, Sleeping
  <2> QED BY <1>0, <2>1, <2>2 DEF Still
<1>4. ASSUME NEW c \in CPUs, SleepSwitches(c)
      PROVE  Still
  <2>1. PICK p \in Slots : /\ Runs(c, p, "sleepswitch")
                           /\ state' = [state EXCEPT ![p] = "SLEEPING"]
    BY <1>4 DEF SleepSwitches
  <2>2. state[p] = "RUNNING"
    BY <2>1, OnItsCpu DEF IInv
  <2>3. UNCHANGED <<pid, nextpid, parent, np, kstack, killed, pc>>
    BY <1>4 DEF SleepSwitches
  <2> QED BY <1>0, <2>1, <2>2, <2>3 DEF Still
<1>5. CASE TimerTick
  <2>1. UNCHANGED <<state, pid, nextpid, parent, np, kstack, killed, pc>>
    BY <1>5 DEF TimerTick, procVars, threadVars
  <2> QED BY <2>1 DEF Still
<1>6. CASE TimerWakeup
  <2>1. UNCHANGED <<pid, nextpid, parent, np, kstack, killed, pc>>
    BY <1>6 DEF TimerWakeup, threadVars
  <2>2. \A r \in Slots : \/ state'[r] = state[r]
                         \/ state[r] = "SLEEPING" /\ state'[r] = "RUNNABLE"
    BY <1>6 DEF TimerWakeup, Woken
  <2> QED BY <2>1, <2>2 DEF Still
<1> QED BY <1>1, <1>2, <1>3, <1>4, <1>5, <1>6

LEMMA TableMoves ==
  ASSUME IInv, Next
  PROVE  TableMove
BY SchedulingIsStill, ForkIsOne, ExitIsOne, WaitIsOne, OthersAreStill
   DEF Next, Work, TableMove

-----------------------------------------------------------------------------
(* The tree of processes: what fork, exit and wait do to the table is what *)
(* ProcTree says they promise, whatever the CPUs do in between.            *)

(* The tree a table stands for.                                            *)

\* A live process is found by its pid, the pid of its parent is recorded, and
\* the parent, where there is one, lives and is no zombie.
TreeIs ==
  \A p \in Live :
    /\ pid[p] \in PidOf(Live) /\ SlotOf(pid[p]) = p
    /\ parentPids[pid[p]] = ParentPid(p)
    /\ parent[p] = None \/ parent[p] \in Live \ Zombies

\* Pids tell live processes apart, so the tree can be read off the table.
LEMMA TreeNow == IInv => TreeIs
<1> SUFFICES ASSUME IInv, NEW p \in Live
             PROVE  /\ pid[p] \in PidOf(Live) /\ SlotOf(pid[p]) = p
                    /\ parentPids[pid[p]] = ParentPid(p)
                    /\ parent[p] = None \/ parent[p] \in Live \ Zombies
  BY DEF TreeIs
<1>1. pid[p] \in PidOf(Live)
  BY DEF PidOf
<1>2. SlotOf(pid[p]) = p
  <2>1. \A q \in Live : pid[q] = pid[p] => q = p
    BY DEF IInv, PidsUnique, Live
  <2> QED BY <2>1, Zenon DEF SlotOf
<1>3. parentPids[pid[p]] = ParentPid(p)
  BY <1>1, <1>2 DEF parentPids
<1>4. parent[p] = None \/ parent[p] \in Live \ Zombies
  BY DEF IInv, ParentAlive, RootInv, Zombies
<1> QED BY <1>1, <1>2, <1>3, <1>4

\* So it can after a step.
LEMMA TreeNext == IInv' => TreeIs'
BY TreeNow, PTL

\* A step that keeps the live processes, their pids and their parents, and
\* makes no zombie, leaves the tree as it is.
LEMMA TreeStays ==
  ASSUME IInv, IInv', Live' = Live, Zombies' = Zombies,
         \A p \in Live : pid'[p] = pid[p] /\ parent'[p] = parent[p]
  PROVE  UNCHANGED Tree!tree
<1>1. TreeIs /\ TreeIs'
  BY TreeNow, TreeNext
<1>2. PidOf(Live)' = PidOf(Live)
  BY DEF PidOf
<1>3. PidOf(Zombies)' = PidOf(Zombies)
  BY DEF PidOf, Zombies, Live
<1>4. \A p \in Live : ParentPid(p)' = ParentPid(p)
  BY <1>1 DEF TreeIs, ParentPid
<1>5. \A i \in PidOf(Live) : parentPids'[i] = parentPids[i]
  BY <1>1, <1>4 DEF TreeIs, PidOf
<1>6. parentPids' = parentPids
  BY <1>2, <1>5 DEF parentPids
<1> QED BY <1>2, <1>3, <1>6 DEF Tree!tree

\* A step that only moves processes between runnable, running and sleeping
\* leaves the tree as it is.
LEMMA RunningOrNotIsTheSame ==
  ASSUME IInv, IInv', UNCHANGED <<pid, parent>>,
         \A p \in Slots :
           \/ state'[p] = state[p]
           \/ /\ state[p] \in {"RUNNABLE", "RUNNING", "SLEEPING"}
              /\ state'[p] \in {"RUNNABLE", "RUNNING", "SLEEPING"}
  PROVE  UNCHANGED Tree!tree
<1>1. Live' = Live /\ Zombies' = Zombies
  BY DEF Live, Zombies
<1> QED BY <1>1, TreeStays

-----------------------------------------------------------------------------
(* The steps that the tree does not see.                                   *)

\* Scheduling a process does not touch the tree.
LEMMA SchedulingIsUnseen ==
  ASSUME IInv, IInv', NEW c \in CPUs, Scheduling(c) \/ Yield(c)
  PROVE  UNCHANGED Tree!tree
<1>1. CASE SchedulerLock(c) \/ SchedulerUnlock(c) \/ SwitchBack(c) \/ Resume(c)
  <2>1. UNCHANGED <<state, pid, parent>>
    BY <1>1 DEF SchedulerLock, SchedulerUnlock, SwitchBack, Resume, procVars
  <2> QED BY <2>1, RunningOrNotIsTheSame
<1>2. CASE SchedulerPick(c)
  <2>1. PICK p \in RunnableFrom(scan[c]) : state' = [state EXCEPT ![p] = "RUNNING"]
    <3>1. scan[c] \in 1..NPROC + 1
      BY DEF IInv, TypeOK
    <3>2. RunnableFrom(scan[c]) \subseteq Nat
      BY <3>1 DEF RunnableFrom
    <3>3. RunnableFrom(scan[c]) # {}
      BY <1>2 DEF SchedulerPick
    <3>4. First(RunnableFrom(scan[c])) \in RunnableFrom(scan[c])
      BY <3>2, <3>3, FirstIn
    <3> QED BY <1>2, <3>4 DEF SchedulerPick
  <2>2. p \in Slots /\ state[p] = "RUNNABLE"
    <3>1. scan[c] \in 1..NPROC + 1
      BY DEF IInv, TypeOK
    <3> QED BY <2>1, <3>1 DEF RunnableFrom
  <2>3. state'[p] = "RUNNING" /\ \A q \in Slots \ {p} : state'[q] = state[q]
    BY <2>1, <2>2 DEF IInv, TypeOK
  <2>4. UNCHANGED <<pid, parent>>
    BY <1>2 DEF SchedulerPick
  <2> QED BY <2>2, <2>3, <2>4, RunningOrNotIsTheSame
<1>3. CASE Yield(c)
  <2>1. PICK p \in Slots, where \in PCs :
          Runs(c, p, where) /\ state' = [state EXCEPT ![p] = "RUNNABLE"]
    BY <1>3 DEF Yield
  <2>2. state[p] = "RUNNING"
    BY <2>1, OnItsCpu DEF IInv
  <2>3. state'[p] = "RUNNABLE" /\ \A q \in Slots \ {p} : state'[q] = state[q]
    BY <2>1 DEF IInv, TypeOK
  <2>4. UNCHANGED <<pid, parent>>
    BY <1>3 DEF Yield
  <2> QED BY <2>2, <2>3, <2>4, RunningOrNotIsTheSame
<1> QED BY <1>1, <1>2, <1>3 DEF Scheduling

\* A process goes to sleep, or another one is woken or killed: the tree does
\* not change.
LEMMA SleepingIsUnseen ==
  ASSUME IInv, IInv', NEW c \in CPUs, WaitSleeps(c) \/ SleepSwitches(c) \/ Kill(c)
  PROVE  UNCHANGED Tree!tree
<1>1. UNCHANGED <<pid, parent>>
  <2>1. CASE WaitSleeps(c)
    BY <2>1 DEF WaitSleeps
  <2>2. CASE SleepSwitches(c)
    BY <2>2 DEF SleepSwitches
  <2>3. CASE Kill(c)
    BY <2>3 DEF Kill
  <2> QED BY <2>1, <2>2, <2>3
<1>2. CASE WaitSleeps(c) \/ SleepSwitches(c)
  <2>1. PICK p \in Slots : /\ cpc[c] = "process" /\ cproc[c] = p
                           /\ state' = [state EXCEPT ![p] = "SLEEPING"]
    BY <1>2 DEF WaitSleeps, SleepSwitches, InWait, Runs
  <2>2. state[p] = "RUNNING"
    BY <2>1 DEF IInv, CpuInv
  <2>3. state'[p] = "SLEEPING" /\ \A q \in Slots \ {p} : state'[q] = state[q]
    BY <2>1 DEF IInv, TypeOK
  <2> QED BY <1>1, <2>2, <2>3, RunningOrNotIsTheSame
<1>3. CASE Kill(c)
  <2>1. \A q \in Slots : \/ state'[q] = state[q]
                         \/ state[q] = "SLEEPING" /\ state'[q] = "RUNNABLE"
    <3>1. PICK target \in KillTargets :
            LET found == {q \in Slots : pid[q] = target}
            IN  \/ UNCHANGED state
                \/ state' = [state EXCEPT ![First(found)] =
                               IF @ = "SLEEPING" THEN "RUNNABLE" ELSE @]
      BY <1>3, Zenon DEF Kill
    <3> QED BY <3>1 DEF IInv, TypeOK
  <2> QED BY <1>1, <2>1, RunningOrNotIsTheSame
<1> QED BY <1>2, <1>3

\* The timer wakes sleepers, and the tree does not change.
LEMMA TimerIsUnseen ==
  ASSUME IInv, IInv', TimerTick \/ TimerWakeup
  PROVE  UNCHANGED Tree!tree
<1>1. \A q \in Slots : \/ state'[q] = state[q]
                       \/ state[q] = "SLEEPING" /\ state'[q] = "RUNNABLE"
  BY DEF TimerTick, TimerWakeup, procVars, Woken
<1>2. UNCHANGED <<pid, parent>>
  BY DEF TimerTick, TimerWakeup, procVars
<1> QED BY <1>1, <1>2, RunningOrNotIsTheSame

\* A process under construction is in no tree: taking its slot, filling it and
\* giving it back are not seen.
LEMMA ConstructionIsUnseen ==
  ASSUME IInv, IInv', NEW c \in CPUs, AllocProc(c) \/ ForkFails(c) \/ ForkCopy(c)
  PROVE  UNCHANGED Tree!tree
<1>1. PICK q \in Slots :
        /\ state[q] \in {"UNUSED", "EMBRYO"} /\ state'[q] \in {"UNUSED", "EMBRYO"}
        /\ \A r \in Slots \ {q} :
             state'[r] = state[r] /\ pid'[r] = pid[r] /\ parent'[r] = parent[r]
  <2>1. CASE AllocProc(c)
    <3>1. Unused \subseteq Nat
      BY DEF Unused
    <3>2. PICK q \in Unused : /\ state' = [state EXCEPT ![q] = "EMBRYO"]
                              /\ pid' = [pid EXCEPT ![q] = nextpid]
      BY <2>1, <3>1, FirstIn DEF AllocProc
    <3>3. q \in Slots /\ state[q] = "UNUSED" /\ parent' = parent
      BY <2>1 DEF Unused, AllocProc
    <3> QED BY <3>2, <3>3 DEF IInv, TypeOK
  <2>2. CASE ForkFails(c) \/ ForkCopy(c)
    <3>1. PICK p \in Slots :
            /\ Runs(c, p, "forkcopy")
            /\ \/ state' = [state EXCEPT ![np[p]] = "UNUSED"] /\ parent' = parent
               \/ parent' = [parent EXCEPT ![np[p]] = p] /\ state' = state
      BY <2>2 DEF ForkFails, ForkCopy
    <3>2. np[p] \in Slots /\ state[np[p]] = "EMBRYO" /\ pid' = pid
      BY <2>2, <3>1, OnItsCpu DEF IInv, TypeOK, ForkInv, ForkFails, ForkCopy
    <3> QED BY <3>1, <3>2 DEF IInv, TypeOK
  <2> QED BY <2>1, <2>2
<1>2. Live' = Live /\ Zombies' = Zombies
  BY <1>1 DEF Live, Zombies
<1>3. q \notin Live
  BY <1>1 DEF Live
<1>4. \A p \in Live : pid'[p] = pid[p] /\ parent'[p] = parent[p]
  BY <1>1, <1>3 DEF Live
<1> QED BY <1>2, <1>4, TreeStays

-----------------------------------------------------------------------------
(* The steps that the tree sees.                                           *)

\* Who has which pid: two processes in use, one of them alive, have different
\* ones, a parent's pid is that of the parent, and init's is 1.
LEMMA PidsTell ==
  ASSUME IInv
  PROVE  /\ \A p, q \in Slots :
              state[p] # "UNUSED" /\ state[q] # "UNUSED" /\ pid[p] = pid[q] => p = q
         /\ \A p \in Live : pid[p] \in PidOf(Live) /\ pid[p] # 0
         /\ \A p \in Live : pid[p] \in PidOf(Zombies) <=> p \in Zombies
         /\ \A p, q \in Live : ParentPid(q) = pid[p] <=> parent[q] = p
         /\ initproc \in Live /\ pid[initproc] = 1
<1>1. \A p, q \in Slots :
        state[p] # "UNUSED" /\ state[q] # "UNUSED" /\ pid[p] = pid[q] => p = q
  BY DEF IInv, PidsUnique
<1>2. \A p \in Live : pid[p] \in PidOf(Live) /\ pid[p] # 0
  BY DEF IInv, PidsUnique, TypeOK, Live, PidOf
<1>3. \A p \in Live : pid[p] \in PidOf(Zombies) <=> p \in Zombies
  BY <1>1 DEF PidOf, Zombies, Live
<1>4. \A q \in Live : parent[q] = None \/ parent[q] \in Live
  BY TreeNow DEF TreeIs
<1>5. \A p, q \in Live : ParentPid(q) = pid[p] <=> parent[q] = p
  <2>1. \A p \in Live : p \in Slots /\ p # None /\ state[p] # "UNUSED"
    BY DEF Live
  <2> QED BY <1>1, <1>2, <1>4, <2>1 DEF ParentPid
<1>6. initproc \in Live /\ pid[initproc] = 1
  BY DEF IInv, ParentAlive, RootInv, Live
<1> QED BY <1>1, <1>2, <1>3, <1>5, <1>6

\* fork() makes its child runnable: the parent gets a child with a new pid.
LEMMA ForkIsSeen ==
  ASSUME IInv, IInv', NEW c \in CPUs, ForkRun(c)
  PROVE  Tree!Next
<1>1. PICK p \in Slots :
        Runs(c, p, "forkrun") /\ state' = [state EXCEPT ![np[p]] = "RUNNABLE"]
  BY DEF ForkRun
<1> DEFINE q == np[p]
<1>2. UNCHANGED <<pid, parent>>
  BY DEF ForkRun
<1>3. state[p] = "RUNNING" /\ pc[p] = "forkrun"
  BY <1>1, OnItsCpu DEF IInv
<1>4. q \in Slots /\ state[q] = "EMBRYO" /\ parent[q] = p
  BY <1>3 DEF IInv, TypeOK, ForkInv
<1>5. state' = [state EXCEPT ![q] = "RUNNABLE"]
  BY <1>1
<1> HIDE DEF q
<1>6. Live' = Live \cup {q} /\ Zombies' = Zombies
  <2>1. state'[q] = "RUNNABLE" /\ \A r \in Slots \ {q} : state'[r] = state[r]
    BY <1>4, <1>5 DEF IInv, TypeOK
  <2>2. Live' = Live \cup {q}
    BY <1>4, <2>1 DEF Live
  <2>3. Zombies' = Zombies
    BY <1>4, <2>1 DEF Zombies
  <2> QED BY <2>2, <2>3
<1>7. p \in Live /\ p \notin Zombies /\ q \notin Live
  BY <1>3, <1>4 DEF Live, Zombies
<1>8. /\ PidOf(Live)' = PidOf(Live) \cup {pid[q]}
      /\ PidOf(Zombies)' = PidOf(Zombies)
  BY <1>2, <1>6 DEF PidOf
<1>9. pid[p] \in PidOf(Live) \ PidOf(Zombies)
  BY <1>7, PidsTell
<1>10. pid[q] \notin PidOf(Live)
  <2>1. \A r \in Live : pid[r] # pid[q]
    BY <1>4, <1>7, PidsTell DEF Live
  <2> QED BY <2>1 DEF PidOf
<1>11. parentPids' = [k \in PidOf(Live) \cup {pid[q]} |->
                        IF k = pid[q] THEN pid[p] ELSE parentPids[k]]
  <2>1. TreeIs /\ TreeIs'
    BY TreeNow, TreeNext
  <2>2. parentPids'[pid[q]] = pid[p]
    BY <1>2, <1>3, <1>4, <1>6, <2>1 DEF TreeIs, ParentPid
  <2>3. \A r \in Live : parentPids'[pid[r]] = parentPids[pid[r]]
    BY <1>2, <1>6, <2>1 DEF TreeIs, ParentPid
  <2>4. \A k \in PidOf(Live) : parentPids'[k] = parentPids[k]
    BY <2>3 DEF PidOf
  <2> QED BY <1>8, <1>10, <2>2, <2>4 DEF parentPids
<1>12. Tree!Fork(pid[p], pid[q])
  BY <1>8, <1>9, <1>10, <1>11 DEF Tree!Fork
<1> QED BY <1>8, <1>9, <1>12 DEF Tree!Next

\* exit() makes its process a zombie and gives its children to init.
LEMMA ExitIsSeen ==
  ASSUME IInv, IInv', NEW c \in CPUs, Exit(c)
  PROVE  Tree!Next
<1>1. PICK p \in Slots :
        /\ Runs(c, p, "exit")
        /\ parent' = [q \in Slots |-> IF q \in Children(p) THEN initproc ELSE parent[q]]
        /\ state' = [(IF ZombieChildren(p) = {} THEN Woken(state, parent[p])
                               ELSE Woken(Woken(state, parent[p]), initproc))
                    EXCEPT ![p] = "ZOMBIE"]
  BY DEF Exit, ZombieChildren
<1>2. UNCHANGED pid
  BY DEF Exit
<1>3. state[p] = "RUNNING" /\ p # initproc
  BY <1>1, OnItsCpu DEF IInv, RootInv
<1>4. /\ state'[p] = "ZOMBIE"
      /\ \A q \in Slots \ {p} : \/ state'[q] = state[q]
                                \/ state[q] = "SLEEPING" /\ state'[q] = "RUNNABLE"
  BY <1>1 DEF Woken
<1>5. \A q \in Slots : parent'[q] = IF parent[q] = p THEN initproc ELSE parent[q]
  BY <1>1 DEF Children
<1>6. Live' = Live /\ Zombies' = Zombies \cup {p}
  BY <1>3, <1>4 DEF Live, Zombies
<1>7. p \in Live /\ p \notin Zombies
  BY <1>3 DEF Live, Zombies
<1>8. /\ PidOf(Live)' = PidOf(Live)
      /\ PidOf(Zombies)' = PidOf(Zombies) \cup {pid[p]}
  BY <1>2, <1>6 DEF PidOf
<1>9. pid[p] \in PidOf(Live) \ (PidOf(Zombies) \cup {1})
  <2>1. pid[p] # 1
    BY <1>3, <1>7, PidsTell DEF Live
  <2> QED BY <1>7, <2>1, PidsTell
<1>10. parentPids' = [k \in PidOf(Live) |->
                        IF parentPids[k] = pid[p] THEN 1 ELSE parentPids[k]]
  <2>1. TreeIs /\ TreeIs'
    BY TreeNow, TreeNext
  <2>2. \A r \in Live : ParentPid(r)' = IF parent[r] = p THEN 1 ELSE ParentPid(r)
    BY <1>2, <1>5, PidsTell DEF Live, ParentPid
  <2>3. \A r \in Live : parentPids'[pid[r]] =
                          IF parentPids[pid[r]] = pid[p] THEN 1 ELSE parentPids[pid[r]]
    BY <1>2, <1>6, <1>7, <2>1, <2>2, PidsTell DEF TreeIs
  <2>4. \A k \in PidOf(Live) : parentPids'[k] =
                          IF parentPids[k] = pid[p] THEN 1 ELSE parentPids[k]
    BY <2>3 DEF PidOf
  <2> QED BY <1>8, <2>4 DEF parentPids
<1>11. Tree!Exit(pid[p])
  BY <1>8, <1>9, <1>10 DEF Tree!Exit, Tree!init
<1> QED BY <1>9, <1>11 DEF Tree!Next

\* wait() frees the slot of a zombie child: its parent has collected it.
LEMMA CollectIsSeen ==
  ASSUME IInv, IInv', NEW c \in CPUs, WaitReaps(c)
  PROVE  Tree!Next
<1>1. PICK p \in Slots :
        LET q == First(ZombieChildren(p))
        IN  /\ InWait(c, p) /\ ZombieChildren(p) # {}
            /\ pid' = [pid EXCEPT ![q] = 0]
            /\ parent' = [parent EXCEPT ![q] = None]
            /\ state' = [state EXCEPT ![q] = "UNUSED"]
  BY DEF WaitReaps
<1> DEFINE q == First(ZombieChildren(p))
<1>2. state[p] = "RUNNING"
  BY <1>1, OnItsCpu DEF IInv, InWait
<1>3. q \in Slots /\ parent[q] = p /\ state[q] = "ZOMBIE"
  <2>1. ZombieChildren(p) \subseteq Nat
    BY DEF ZombieChildren, Children
  <2>2. q \in ZombieChildren(p)
    BY <1>1, <2>1, FirstIn
  <2> QED BY <2>2 DEF ZombieChildren, Children
<1>4. /\ pid' = [pid EXCEPT ![q] = 0]
      /\ parent' = [parent EXCEPT ![q] = None]
      /\ state' = [state EXCEPT ![q] = "UNUSED"]
  BY <1>1
<1> HIDE DEF q
<1>5. /\ state'[q] = "UNUSED"
      /\ \A r \in Slots \ {q} :
           state'[r] = state[r] /\ pid'[r] = pid[r] /\ parent'[r] = parent[r]
  BY <1>3, <1>4 DEF IInv, TypeOK
<1>6. Live' = Live \ {q} /\ Zombies' = Zombies \ {q}
  BY <1>5 DEF Live, Zombies
<1>7. p \in Live /\ p \notin Zombies /\ q \in Live /\ q \in Zombies
  BY <1>2, <1>3 DEF Live, Zombies
<1>8. \A r \in Live \ {q} : /\ pid'[r] = pid[r] /\ pid[r] # pid[q]
                            /\ parent'[r] = parent[r]
  BY <1>5, <1>7, PidsTell DEF Live
<1>9. /\ PidOf(Live)' = PidOf(Live) \ {pid[q]}
      /\ PidOf(Zombies)' = PidOf(Zombies) \ {pid[q]}
  BY <1>6, <1>8 DEF PidOf, Live, Zombies
<1>10. pid[p] \in PidOf(Live) \ PidOf(Zombies) /\ pid[q] \in PidOf(Zombies)
  BY <1>7, PidsTell
<1>11. parentPids[pid[q]] = pid[p]
  BY <1>2, <1>3, <1>7, TreeNow DEF TreeIs, ParentPid
<1>12. parentPids' = [k \in PidOf(Live) \ {pid[q]} |-> parentPids[k]]
  <2>1. TreeIs /\ TreeIs'
    BY TreeNow, TreeNext
  <2>2. \A r \in Live \ {q} : ParentPid(r)' = ParentPid(r)
    <3>1. \A r \in Live \ {q} : parent[r] # q
      BY <1>3, <1>7, <2>1 DEF TreeIs
    <3>2. \A r \in Live \ {q} : parent[r] = None \/ parent[r] \in Live \ {q}
      BY <2>1, <3>1 DEF TreeIs
    <3> QED BY <1>8, <3>2 DEF ParentPid
  <2>3. \A r \in Live \ {q} : parentPids'[pid[r]] = parentPids[pid[r]]
    BY <1>6, <1>8, <2>1, <2>2 DEF TreeIs
  <2>4. \A k \in PidOf(Live) \ {pid[q]} : parentPids'[k] = parentPids[k]
    BY <2>3 DEF PidOf
  <2> QED BY <1>9, <2>4 DEF parentPids
<1>13. Tree!Collect(pid[p], pid[q])
  BY <1>9, <1>10, <1>11, <1>12 DEF Tree!Collect
<1> QED BY <1>10, <1>13 DEF Tree!Next

-----------------------------------------------------------------------------
(* The theorem.                                                            *)

\* Every step of the table is a step of the tree, or is not seen.
LEMMA NextIsSeenOrNot ==
  ASSUME IInv, IInv', Next
  PROVE  [Tree!Next]_(Tree!tree)
<1>1. ASSUME NEW c \in CPUs, Work(c)  PROVE  [Tree!Next]_(Tree!tree)
  <2>1. CASE \/ EnterKernel(c) \/ AllocFull(c) \/ WaitFails(c) \/ SleepLock(c)
             \/ SleepRelock(c) \/ SleepReturns(c) \/ SleepChecks(c)
             \/ SleepSwapLocks(c)
    <3>1. UNCHANGED <<state, pid, parent>>
      BY <2>1 DEF EnterKernel, AllocFull, WaitFails, SleepLock, SleepRelock,
         SleepReturns, SleepChecks, SleepSwapLocks, procVars
    <3> QED BY <3>1, RunningOrNotIsTheSame
  <2> QED
    BY <1>1, <2>1, SleepingIsUnseen, ConstructionIsUnseen, ForkIsSeen, ExitIsSeen,
       CollectIsSeen DEF Work
<1> QED BY <1>1, SchedulingIsUnseen, TimerIsUnseen DEF Next

\* The table implements the tree of processes: with any number of CPUs, a
\* program sees only that a fork adds a child, an exit leaves a zombie and its
\* children to init, and a wait collects one zombie child, once.
THEOREM TableIsTree == Spec => TreeSpec
<1>1. Init => Tree!Init
  <2> SUFFICES ASSUME Init  PROVE  Tree!Init
    OBVIOUS
  <2>1. IInv
    BY InitHolds
  <2>2. Live = {initproc} /\ Zombies = {}
    BY DEF Init, Live, Zombies
  <2>3. pid[initproc] = 1 /\ parent[initproc] = None
    BY <2>1 DEF IInv, RootInv
  <2>4. PidOf(Live) = {1} /\ PidOf(Zombies) = {}
    BY <2>2, <2>3 DEF PidOf
  <2>5. parentPids[1] = 0
    BY <2>1, <2>2, <2>3, TreeNow DEF TreeIs, ParentPid
  <2>6. parentPids = [i \in {1} |-> 0]
    BY <2>4, <2>5 DEF parentPids
  <2> QED BY <2>4, <2>6 DEF Tree!Init, Tree!init
<1>2. ASSUME IInv, IInv', UNCHANGED vars  PROVE  UNCHANGED Tree!tree
  BY <1>2, RunningOrNotIsTheSame DEF vars, procVars
<1>3. IInv /\ IInv' /\ [Next]_vars => [Tree!Next]_(Tree!tree)
  BY <1>2, NextIsSeenOrNot
<1> QED BY Invariance, <1>1, <1>3, PTL DEF Spec, TreeSpec, Tree!Spec
=============================================================================

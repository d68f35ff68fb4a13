----------------------------- MODULE ProcTable ------------------------------
(***************************************************************************)
(* The HW4 (xv6) process table: proc.c and the sleep system call, on       *)
(* several CPUs.                                                           *)
(*                                                                         *)
(* A process is the slot of ptable it lives in.  A spinlock is free or     *)
(* owned by a CPU.  A critical section that does not call sched() is one   *)
(* step, with the lock free before and after it; one that does keeps       *)
(* ptable.lock across the switch to the scheduler, as the code does:       *)
(*                                                                         *)
(*   process --sched()--> switching --> scheduler scan --> resuming        *)
(*      ^                                                     |            *)
(*      +-----------------------------------------------------+            *)
(*                                                                         *)
(* What trap.c does (a killed process exits on its way to user space, the  *)
(* timer preempts, counts ticks and wakes sleepers) is external.           *)
(***************************************************************************)
EXTENDS Integers, FiniteSets

CONSTANTS
  NPROC,        \* number of slots of ptable
  CPUs,
  Timer,        \* the timer interrupt, as an owner of tickslock
  Free,         \* the owner of a free lock
  MaxPid,       \* bound on the pids given out
  TickRange,    \* ticks wraps around after so many: 2^32 in the code
  KillTargets,  \* the pids user programs pass to kill: never that of init
  SleepTimes    \* the arguments of sleep, as sys_sleep compares them: unsigned

ASSUME TableAssumption == NPROC \in Nat \ {0} /\ MaxPid \in Nat /\ TickRange \in Nat \ {0}
ASSUME OwnersAssumption == Timer \notin CPUs /\ Free \notin CPUs \cup {Timer}
ASSUME CallsAssumption == KillTargets \subseteq Int \ {1} /\ SleepTimes \subseteq 0..TickRange - 1

Slots == 1..NPROC
initproc == 1
None == 0                  \* no process, no parent, no channel
TicksChan == NPROC + 1     \* &ticks; the other channels are processes

VARIABLES
  state, pid, parent, chan, killed,   \* the fields of struct proc
  kstack,     \* has the slot a kernel stack?
  nrswitch,   \* has the process been switched to? (nrswitch > 0)
  nextpid,
  ptable_lock,
  cproc,      \* per CPU: c->proc
  cpc,        \* per CPU: what it executes
  scan,       \* per CPU: the p of scheduler()
  pc,         \* per process: where its kernel thread is
  inside,     \* per process: the caller of sched() it is suspended in, or "none"
  np,         \* per process: the np of fork()
  ticks, tickslock,
  ticks0, n,  \* per process: the variables of sys_sleep()
  timer       \* "idle", or "wakeup" once ticks is incremented

procVars == <<state, pid, parent, chan, killed, kstack, nrswitch>>
cpuVars == <<cproc, cpc, scan>>
threadVars == <<pc, inside, np>>
tickVars == <<ticks, tickslock, ticks0, n, timer>>
vars == <<procVars, nextpid, ptable_lock, cpuVars, threadVars, tickVars>>

States == {"UNUSED", "EMBRYO", "SLEEPING", "RUNNABLE", "RUNNING", "ZOMBIE"}
Calls == {"fork", "exit", "wait", "kill", "sleep"}
PCs == Calls \cup {"user", "forkcopy", "forkrun", "waitscan", "sleeprelock",
                   "sleepcheck", "sleepenter", "sleepswitch"}

\* Positions where the process holds a lock, and so has interrupts disabled.
Uninterruptible == {"waitscan", "sleepcheck", "sleepenter", "sleepswitch"}

\* After userinit: init is runnable in the first slot, and the CPUs are about
\* to enter scheduler().
Init ==
  /\ state = [p \in Slots |-> IF p = initproc THEN "RUNNABLE" ELSE "UNUSED"]
  /\ pid = [p \in Slots |-> IF p = initproc THEN 1 ELSE 0]
  /\ parent = [p \in Slots |-> None]
  /\ chan = [p \in Slots |-> None]
  /\ killed = [p \in Slots |-> FALSE]
  /\ kstack = [p \in Slots |-> p = initproc]
  /\ nrswitch = [p \in Slots |-> FALSE]
  /\ nextpid = 2
  /\ ptable_lock = Free
  /\ cproc = [c \in CPUs |-> None]
  /\ cpc = [c \in CPUs |-> "idle"]
  /\ scan = [c \in CPUs |-> 1]
  /\ pc = [p \in Slots |-> "user"]
  /\ inside = [p \in Slots |-> IF p = initproc THEN "forkret" ELSE "none"]
  /\ np = [p \in Slots |-> None]
  /\ ticks = 0 /\ tickslock = Free
  /\ ticks0 = [p \in Slots |-> 0]
  /\ n = [p \in Slots |-> 0]
  /\ timer = "idle"

-----------------------------------------------------------------------------

First(S) == CHOOSE p \in S : \A q \in S : p <= q

\* CPU c executes the kernel or user code of process p, which is at "where".
Runs(c, p, where) == cpc[c] = "process" /\ cproc[c] = p /\ pc[p] = where

Goes(p, where) == pc' = [pc EXCEPT ![p] = where]

\* The states of the table once wakeup1 has woken the sleepers on channel ch.
Woken(st, ch) ==
  [p \in Slots |-> IF st[p] = "SLEEPING" /\ chan[p] = ch THEN "RUNNABLE" ELSE st[p]]

Children(p) == {q \in Slots : parent[q] = p}

\* sched(): CPU c leaves process p, which will come back "inside" its caller.
Sched(c, p, caller) ==
  /\ inside' = [inside EXCEPT ![p] = caller]
  /\ cpc' = [cpc EXCEPT ![c] = "switching"]

-----------------------------------------------------------------------------
(* scheduler().                                                            *)

SchedulerLock(c) ==
  /\ cpc[c] = "idle" /\ cpc' = [cpc EXCEPT ![c] = "scan"]
  /\ ptable_lock = Free /\ ptable_lock' = c
  /\ scan' = [scan EXCEPT ![c] = 1]
  /\ UNCHANGED <<procVars, nextpid, cproc, threadVars, tickVars>>

RunnableFrom(i) == {p \in i..NPROC : state[p] = "RUNNABLE"}

\* A scheduler that does not mark the process it picks.
SchedulerPickUnmarked(c) ==
  /\ cpc[c] = "scan" /\ cpc' = [cpc EXCEPT ![c] = "resuming"]
  /\ RunnableFrom(scan[c]) # {}
  /\ LET p == First(RunnableFrom(scan[c]))
     IN  /\ cproc' = [cproc EXCEPT ![c] = p]
         /\ scan' = [scan EXCEPT ![c] = p]
         /\ nrswitch' = [nrswitch EXCEPT ![p] = TRUE]
  /\ UNCHANGED <<state, pid, parent, chan, killed, kstack, nextpid, ptable_lock,
                 threadVars, tickVars>>

\* The next runnable process of the scan runs.  Nobody makes a process
\* runnable without ptable.lock, so the slots skipped need no steps.
SchedulerPick(c) ==
  /\ cpc[c] = "scan" /\ cpc' = [cpc EXCEPT ![c] = "resuming"]
  /\ RunnableFrom(scan[c]) # {}
  /\ LET p == First(RunnableFrom(scan[c]))
     IN  /\ cproc' = [cproc EXCEPT ![c] = p]
         /\ scan' = [scan EXCEPT ![c] = p]
         /\ state' = [state EXCEPT ![p] = "RUNNING"]
         /\ nrswitch' = [nrswitch EXCEPT ![p] = TRUE]
  /\ UNCHANGED <<pid, parent, chan, killed, kstack, nextpid, ptable_lock,
                 threadVars, tickVars>>

SchedulerUnlock(c) ==
  /\ cpc[c] = "scan" /\ cpc' = [cpc EXCEPT ![c] = "idle"]
  /\ RunnableFrom(scan[c]) = {}
  /\ scan' = [scan EXCEPT ![c] = NPROC + 1]
  /\ ptable_lock' = Free
  /\ UNCHANGED <<procVars, nextpid, cproc, threadVars, tickVars>>

\* Schedulers that start over with the first slot after each process, and
\* that step past a slot twice.
SwitchBackRestarts(c) ==
  /\ cpc[c] = "switching" /\ cpc' = [cpc EXCEPT ![c] = "scan"]
  /\ cproc' = [cproc EXCEPT ![c] = None]
  /\ scan' = [scan EXCEPT ![c] = 1]
  /\ UNCHANGED <<procVars, nextpid, ptable_lock, threadVars, tickVars>>

SwitchBackTwice(c) ==
  /\ cpc[c] = "switching" /\ cpc' = [cpc EXCEPT ![c] = "scan"]
  /\ cproc' = [cproc EXCEPT ![c] = None]
  /\ scan' = [scan EXCEPT ![c] = @ + 2]
  /\ UNCHANGED <<procVars, nextpid, ptable_lock, threadVars, tickVars>>

\* swtch() has brought CPU c back to scheduler(), which goes on with the next
\* slot.
SwitchBack(c) ==
  /\ cpc[c] = "switching" /\ cpc' = [cpc EXCEPT ![c] = "scan"]
  /\ cproc' = [cproc EXCEPT ![c] = None]
  /\ scan' = [scan EXCEPT ![c] = @ + 1]
  /\ UNCHANGED <<procVars, nextpid, ptable_lock, threadVars, tickVars>>

\* The process chosen goes on, and is inside sched() no more: in yield() and forkret() it releases
\* ptable.lock, in wait() it keeps it and scans again, in sys_sleep() it
\* releases it and wants tickslock.
Resume(c) ==
  /\ cpc[c] = "resuming" /\ cpc' = [cpc EXCEPT ![c] = "process"]
  /\ LET p == cproc[c]
     IN  /\ \/ /\ inside[p] \in {"yield", "forkret"}
               /\ ptable_lock' = Free
               /\ UNCHANGED <<chan, pc>>
            \/ /\ inside[p] = "wait"
               /\ chan' = [chan EXCEPT ![p] = None]
               /\ Goes(p, "waitscan")
               /\ UNCHANGED ptable_lock
            \/ /\ inside[p] = "sleep"
               /\ chan' = [chan EXCEPT ![p] = None]
               /\ Goes(p, "sleeprelock")
               /\ ptable_lock' = Free
         /\ inside' = [inside EXCEPT ![p] = "none"]
  /\ UNCHANGED <<state, pid, parent, killed, kstack, nrswitch, nextpid, cproc,
                 scan, np, tickVars>>

\* The timer interrupts a process anywhere but in a critical section.
Yield(c) ==
  /\ \E p \in Slots : \E where \in PCs \ Uninterruptible :
       /\ Runs(c, p, where)
       /\ state' = [state EXCEPT ![p] = "RUNNABLE"]
       /\ Sched(c, p, "yield")
  /\ ptable_lock = Free /\ ptable_lock' = c
  /\ UNCHANGED <<pid, parent, chan, killed, kstack, nrswitch, nextpid, cproc,
                 scan, pc, np, tickVars>>

-----------------------------------------------------------------------------
(* System calls.                                                           *)

\* A user program makes a system call, unless it has been killed; then trap()
\* makes it exit.  init never exits.
EnterKernel(c) ==
  /\ \E p \in Slots : \E call \in Calls :
       /\ Runs(c, p, "user") /\ Goes(p, call)
       /\ killed[p] => call = "exit"
       /\ call = "exit" => p # initproc
       /\ call = "sleep" => SleepTimes # {}
       /\ call = "kill" => KillTargets # {}
  /\ UNCHANGED <<procVars, nextpid, ptable_lock, cpuVars, inside, np, tickVars>>

Unused == {q \in Slots : state[q] = "UNUSED"}

\* Allocations that give the same pid again, and that keep the counter of the
\* process that had the slot before.
AllocProcSamePid(c) ==
  /\ \E p \in Slots :
       /\ Runs(c, p, "fork") /\ ptable_lock = Free
       /\ Unused # {} /\ nextpid <= MaxPid
       /\ LET q == First(Unused)
          IN  /\ state' = [state EXCEPT ![q] = "EMBRYO"]
              /\ pid' = [pid EXCEPT ![q] = nextpid - 1]
              /\ nrswitch' = [nrswitch EXCEPT ![q] = FALSE]
              /\ np' = [np EXCEPT ![p] = q]
       /\ Goes(p, "forkcopy")
  /\ nextpid' = nextpid + 1
  /\ UNCHANGED <<parent, chan, killed, kstack, ptable_lock, cpuVars, inside,
                 tickVars>>

AllocProcKeepsCounter(c) ==
  /\ \E p \in Slots :
       /\ Runs(c, p, "fork") /\ ptable_lock = Free
       /\ Unused # {} /\ nextpid <= MaxPid
       /\ LET q == First(Unused)
          IN  /\ state' = [state EXCEPT ![q] = "EMBRYO"]
              /\ pid' = [pid EXCEPT ![q] = nextpid]
              /\ np' = [np EXCEPT ![p] = q]
       /\ Goes(p, "forkcopy")
  /\ nextpid' = nextpid + 1
  /\ UNCHANGED <<parent, chan, killed, kstack, nrswitch, ptable_lock, cpuVars,
                 inside, tickVars>>

\* allocproc(), up to the release of ptable.lock.
AllocProc(c) ==
  /\ \E p \in Slots :
       /\ Runs(c, p, "fork") /\ ptable_lock = Free
       /\ Unused # {} /\ nextpid <= MaxPid
       /\ LET q == First(Unused)
          IN  /\ state' = [state EXCEPT ![q] = "EMBRYO"]
              /\ pid' = [pid EXCEPT ![q] = nextpid]
              /\ nrswitch' = [nrswitch EXCEPT ![q] = FALSE]
              /\ np' = [np EXCEPT ![p] = q]
       /\ Goes(p, "forkcopy")
  /\ nextpid' = nextpid + 1
  /\ UNCHANGED <<parent, chan, killed, kstack, ptable_lock, cpuVars, inside,
                 tickVars>>

\* The table is full, or MaxPid is reached: fork() returns -1.
AllocFull(c) ==
  /\ \E p \in Slots :
       /\ Runs(c, p, "fork") /\ ptable_lock = Free
       /\ Unused = {} \/ nextpid > MaxPid
       /\ Goes(p, "user")
  /\ UNCHANGED <<procVars, nextpid, ptable_lock, cpuVars, inside, np, tickVars>>

\* A fork that fails and keeps its slot.
ForkFailsKeepsSlot(c) ==
  /\ \E p \in Slots :
       /\ Runs(c, p, "forkcopy") /\ Goes(p, "user")
       /\ np' = [np EXCEPT ![p] = None]
  /\ UNCHANGED <<procVars, nextpid, ptable_lock, cpuVars, inside, tickVars>>

\* kalloc() or copyuvm() fails: the slot is given back without ptable.lock,
\* its pid still in it.
ForkFails(c) ==
  /\ \E p \in Slots :
       /\ Runs(c, p, "forkcopy") /\ Goes(p, "user")
       /\ state' = [state EXCEPT ![np[p]] = "UNUSED"]
       /\ np' = [np EXCEPT ![p] = None]
  /\ UNCHANGED <<pid, parent, chan, killed, kstack, nrswitch, nextpid,
                 ptable_lock, cpuVars, inside, tickVars>>

\* The kernel stack and the copy of the parent, again without ptable.lock.
ForkCopy(c) ==
  /\ \E p \in Slots :
       /\ Runs(c, p, "forkcopy") /\ Goes(p, "forkrun")
       /\ kstack' = [kstack EXCEPT ![np[p]] = TRUE]
       /\ parent' = [parent EXCEPT ![np[p]] = p]
       /\ inside' = [inside EXCEPT ![np[p]] = "forkret"]
  /\ UNCHANGED <<state, pid, chan, killed, nrswitch, nextpid, ptable_lock,
                 cpuVars, np, tickVars>>

ForkRun(c) ==
  /\ ptable_lock = Free
  /\ \E p \in Slots :
       /\ Runs(c, p, "forkrun")
       /\ state' = [state EXCEPT ![np[p]] = "RUNNABLE"]
       /\ pc' = [pc EXCEPT ![p] = "user", ![np[p]] = "user"]
       /\ np' = [np EXCEPT ![p] = None]
  /\ UNCHANGED <<pid, parent, chan, killed, kstack, nrswitch, nextpid,
                 ptable_lock, cpuVars, inside, tickVars>>

\* Exits that break the table: the lock released before the switch, the
\* children left behind, nobody told, and init not told of a zombie it inherits.
ExitUnlocks(c) ==
  /\ ptable_lock = Free
  /\ \E p \in Slots :
       /\ Runs(c, p, "exit")
       /\ parent' = [q \in Slots |-> IF q \in Children(p) THEN initproc ELSE parent[q]]
       /\ state' = [Woken(state, parent[p]) EXCEPT ![p] = "ZOMBIE"]
       /\ Sched(c, p, "exit")
  /\ UNCHANGED <<pid, chan, killed, kstack, nrswitch, nextpid, ptable_lock, cproc,
                 scan, pc, np, tickVars>>

ExitOrphans(c) ==
  /\ ptable_lock = Free /\ ptable_lock' = c
  /\ \E p \in Slots :
       /\ Runs(c, p, "exit")
       /\ state' = [Woken(state, parent[p]) EXCEPT ![p] = "ZOMBIE"]
       /\ Sched(c, p, "exit")
  /\ UNCHANGED <<pid, parent, chan, killed, kstack, nrswitch, nextpid, cproc,
                 scan, pc, np, tickVars>>

ExitForgetsInit(c) ==
  /\ ptable_lock = Free /\ ptable_lock' = c
  /\ \E p \in Slots :
       /\ Runs(c, p, "exit")
       /\ parent' = [q \in Slots |-> IF q \in Children(p) THEN initproc ELSE parent[q]]
       /\ state' = [Woken(state, parent[p]) EXCEPT ![p] = "ZOMBIE"]
       /\ Sched(c, p, "exit")
  /\ UNCHANGED <<pid, chan, killed, kstack, nrswitch, nextpid, cproc, scan, pc,
                 np, tickVars>>

\* exit(), from the lock on: it wakes the parent, gives the children to init,
\* wakes init if one of them is a zombie, and enters the scheduler.
Exit(c) ==
  /\ ptable_lock = Free /\ ptable_lock' = c
  /\ \E p \in Slots :
       /\ Runs(c, p, "exit")
       /\ parent' = [q \in Slots |-> IF q \in Children(p) THEN initproc ELSE parent[q]]
       /\ LET parentWoken == Woken(state, parent[p])
              zombies == {q \in Children(p) : state[q] = "ZOMBIE"}
              initWoken == IF zombies = {} THEN parentWoken
                                           ELSE Woken(parentWoken, initproc)
          IN  state' = [initWoken EXCEPT ![p] = "ZOMBIE"]
       /\ Sched(c, p, "exit")
  /\ UNCHANGED <<pid, chan, killed, kstack, nrswitch, nextpid, cproc, scan, pc,
                 np, tickVars>>

\* CPU c scans the table in the loop of wait(): it has just taken ptable.lock,
\* or comes back from sleep() with it.
InWait(c, p) ==
  \/ Runs(c, p, "wait") /\ ptable_lock = Free
  \/ Runs(c, p, "waitscan") /\ ptable_lock = c

ZombieChildren(p) == {q \in Children(p) : state[q] = "ZOMBIE"}

WaitReaps(c) ==
  /\ \E p \in Slots :
       /\ InWait(c, p) /\ ZombieChildren(p) # {}
       /\ LET q == First(ZombieChildren(p))
          IN  /\ kstack' = [kstack EXCEPT ![q] = FALSE]
              /\ pid' = [pid EXCEPT ![q] = 0]
              /\ parent' = [parent EXCEPT ![q] = None]
              /\ killed' = [killed EXCEPT ![q] = FALSE]
              /\ state' = [state EXCEPT ![q] = "UNUSED"]
              /\ inside' = [inside EXCEPT ![q] = "none"]
              /\ pc' = [pc EXCEPT ![p] = "user", ![q] = "user"]
  /\ ptable_lock' = Free
  /\ UNCHANGED <<chan, nrswitch, nextpid, cpuVars, np, tickVars>>

WaitFails(c) ==
  /\ \E p \in Slots :
       /\ InWait(c, p) /\ ZombieChildren(p) = {}
       /\ Children(p) = {} \/ killed[p]
       /\ Goes(p, "user")
  /\ ptable_lock' = Free
  /\ UNCHANGED <<procVars, nextpid, cpuVars, inside, np, tickVars>>

WaitSleeps(c) ==
  /\ \E p \in Slots :
       /\ InWait(c, p) /\ ZombieChildren(p) = {}
       /\ Children(p) # {} /\ ~ killed[p]
       /\ chan' = [chan EXCEPT ![p] = p]
       /\ state' = [state EXCEPT ![p] = "SLEEPING"]
       /\ Sched(c, p, "wait")
  /\ ptable_lock' = c
  /\ UNCHANGED <<pid, parent, killed, kstack, nrswitch, nextpid, cproc, scan,
                 pc, np, tickVars>>

\* A kill that makes its target runnable whatever it is doing, and one that
\* leaves a sleeper asleep.
KillRevives(c) ==
  /\ ptable_lock = Free
  /\ \E p \in Slots : \E target \in KillTargets :
       /\ Runs(c, p, "kill") /\ Goes(p, "user")
       /\ LET found == {q \in Slots : pid[q] = target}
          IN  IF found = {}
              THEN UNCHANGED <<state, killed>>
              ELSE LET q == First(found)
                   IN  /\ killed' = [killed EXCEPT ![q] = TRUE]
                       /\ state' = [state EXCEPT ![q] = "RUNNABLE"]
  /\ UNCHANGED <<pid, parent, chan, kstack, nrswitch, nextpid, ptable_lock,
                 cpuVars, inside, np, tickVars>>

KillLeavesAsleep(c) ==
  /\ ptable_lock = Free
  /\ \E p \in Slots : \E target \in KillTargets :
       /\ Runs(c, p, "kill") /\ Goes(p, "user")
       /\ killed' = [q \in Slots |-> killed[q] \/ pid[q] = target]
  /\ UNCHANGED <<state, pid, parent, chan, kstack, nrswitch, nextpid, ptable_lock,
                 cpuVars, inside, np, tickVars>>

\* kill(): the first slot that holds the pid, whatever its state.
Kill(c) ==
  /\ ptable_lock = Free
  /\ \E p \in Slots : \E target \in KillTargets :
       /\ Runs(c, p, "kill") /\ Goes(p, "user")
       /\ LET found == {q \in Slots : pid[q] = target}
          IN  IF found = {}
              THEN UNCHANGED <<state, killed>>
              ELSE LET q == First(found)
                   IN  /\ killed' = [killed EXCEPT ![q] = TRUE]
                       /\ state' = [state EXCEPT ![q] =
                                      IF @ = "SLEEPING" THEN "RUNNABLE" ELSE @]
  /\ UNCHANGED <<pid, parent, chan, kstack, nrswitch, nextpid, ptable_lock,
                 cpuVars, inside, np, tickVars>>

-----------------------------------------------------------------------------
(* sys_sleep() and the ticks.                                              *)

\* ticks - ticks0, as unsigned numbers.
Elapsed(p) == (ticks - ticks0[p]) % TickRange

SleepLock(c) ==
  /\ tickslock = Free /\ tickslock' = c
  /\ \E p \in Slots : \E time \in SleepTimes :
       /\ Runs(c, p, "sleep") /\ Goes(p, "sleepcheck")
       /\ ticks0' = [ticks0 EXCEPT ![p] = ticks]
       /\ n' = [n EXCEPT ![p] = time]
  /\ UNCHANGED <<procVars, nextpid, ptable_lock, cpuVars, inside, np, ticks, timer>>

\* sleep() has returned to the loop of sys_sleep() through acquire(lk).
SleepRelock(c) ==
  /\ tickslock = Free /\ tickslock' = c
  /\ \E p \in Slots : Runs(c, p, "sleeprelock") /\ Goes(p, "sleepcheck")
  /\ UNCHANGED <<procVars, nextpid, ptable_lock, cpuVars, inside, np, ticks,
                 ticks0, n, timer>>

\* The loop is over: ticks0 and n with it.
SleepReturns(c) ==
  /\ \E p \in Slots :
       /\ Runs(c, p, "sleepcheck") /\ Goes(p, "user")
       /\ Elapsed(p) >= n[p] \/ killed[p]
       /\ ticks0' = [ticks0 EXCEPT ![p] = 0] /\ n' = [n EXCEPT ![p] = 0]
  /\ tickslock' = Free
  /\ UNCHANGED <<procVars, nextpid, ptable_lock, cpuVars, inside, np, ticks,
                 timer>>

\* There is time left, and the process has not been killed so far: the loop
\* goes on to sleep(), with tickslock only.
SleepChecks(c) ==
  /\ \E p \in Slots :
       /\ Runs(c, p, "sleepcheck") /\ Goes(p, "sleepenter")
       /\ Elapsed(p) < n[p] /\ ~ killed[p]
  /\ UNCHANGED <<procVars, nextpid, ptable_lock, cpuVars, inside, np, tickVars>>

\* A sleep that releases tickslock before it has ptable.lock.
SleepReleasesFirst(c) ==
  /\ \E p \in Slots : Runs(c, p, "sleepenter") /\ Goes(p, "sleepswitch")
  /\ tickslock' = Free
  /\ UNCHANGED <<procVars, nextpid, ptable_lock, cpuVars, inside, np, ticks,
                 ticks0, n, timer>>

\* sleep(): ptable.lock is taken before tickslock is released.
SleepSwapLocks(c) ==
  /\ \E p \in Slots : Runs(c, p, "sleepenter") /\ Goes(p, "sleepswitch")
  /\ ptable_lock = Free /\ ptable_lock' = c
  /\ tickslock' = Free
  /\ UNCHANGED <<procVars, nextpid, cpuVars, inside, np, ticks, ticks0, n, timer>>

SleepSwitches(c) ==
  /\ \E p \in Slots :
       /\ Runs(c, p, "sleepswitch")
       /\ chan' = [chan EXCEPT ![p] = TicksChan]
       /\ state' = [state EXCEPT ![p] = "SLEEPING"]
       /\ Sched(c, p, "sleep")
  /\ UNCHANGED <<pid, parent, killed, kstack, nrswitch, nextpid, ptable_lock,
                 cproc, scan, pc, np, tickVars>>

\* With nobody to sleep there is no need for a timer.
TimerTick ==
  /\ timer = "idle" /\ timer' = "wakeup"
  /\ tickslock = Free /\ tickslock' = Timer
  /\ SleepTimes # {} /\ ticks' = (ticks + 1) % TickRange
  /\ UNCHANGED <<procVars, nextpid, ptable_lock, cpuVars, threadVars, ticks0, n>>

\* wakeup(&ticks), and the release of tickslock.
TimerWakeup ==
  /\ timer = "wakeup" /\ timer' = "idle"
  /\ ptable_lock = Free
  /\ state' = Woken(state, TicksChan)
  /\ tickslock' = Free
  /\ UNCHANGED <<pid, parent, chan, killed, kstack, nrswitch, nextpid,
                 ptable_lock, cpuVars, threadVars, ticks, ticks0, n>>

Scheduling(c) ==
  SchedulerLock(c) \/ SchedulerPick(c) \/ SchedulerUnlock(c) \/ SwitchBack(c)
  \/ Resume(c)

Work(c) ==
  \/ EnterKernel(c)
  \/ AllocProc(c) \/ AllocFull(c) \/ ForkFails(c) \/ ForkCopy(c) \/ ForkRun(c)
  \/ Exit(c) \/ WaitReaps(c) \/ WaitFails(c) \/ WaitSleeps(c) \/ Kill(c)
  \/ SleepLock(c) \/ SleepRelock(c) \/ SleepReturns(c) \/ SleepChecks(c)
  \/ SleepSwapLocks(c) \/ SleepSwitches(c)

Next ==
  \/ \E c \in CPUs : Scheduling(c) \/ Yield(c) \/ Work(c)
  \/ TimerTick \/ TimerWakeup

Spec == Init /\ [][Next]_vars

(***************************************************************************)
(* Every CPU executes what it is in the middle of and gets ptable.lock now *)
(* and then; the timer interrupts every CPU again and again, but leaves a  *)
(* process time to move on.                                                *)
(***************************************************************************)
Fairness ==
  /\ \A c \in CPUs : /\ WF_vars(Scheduling(c))
                     /\ SF_vars(SchedulerLock(c))
                     /\ SF_vars(Yield(c))
  /\ \A p \in Slots : SF_vars(\E c \in CPUs : cproc[c] = p /\ Work(c))
  /\ WF_vars(TimerWakeup)

FairSpec == Spec /\ Fairness

-----------------------------------------------------------------------------
(* Correctness.                                                            *)

Live == {p \in Slots : state[p] \notin {"UNUSED", "EMBRYO"}}

\* Every variable stays in its range.
TypeOK ==
  /\ state \in [Slots -> States]
  /\ pid \in [Slots -> Nat] /\ nextpid \in Nat
  /\ parent \in [Slots -> Slots \cup {None}]
  /\ chan \in [Slots -> Slots \cup {None, TicksChan}]
  /\ killed \in [Slots -> BOOLEAN]
  /\ kstack \in [Slots -> BOOLEAN] /\ nrswitch \in [Slots -> BOOLEAN]
  /\ ptable_lock \in CPUs \cup {Free}
  /\ cproc \in [CPUs -> Slots \cup {None}]
  /\ cpc \in [CPUs -> {"idle", "scan", "resuming", "process", "switching"}]
  /\ scan \in [CPUs -> 1..NPROC + 1]
  /\ pc \in [Slots -> PCs]
  /\ inside \in [Slots -> {"none", "forkret", "yield", "wait", "sleep", "exit"}]
  /\ np \in [Slots -> Slots \cup {None}]
  /\ ticks \in 0..TickRange - 1 /\ tickslock \in CPUs \cup {Timer, Free}
  /\ ticks0 \in [Slots -> 0..TickRange - 1] /\ n \in [Slots -> 0..TickRange - 1]
  /\ timer \in {"idle", "wakeup"}

\* No two CPUs are on the same process, and a process is RUNNING exactly
\* while a CPU runs it: sched() is never called with its process still
\* RUNNING, and a process switched away from is never resumed too early.
RunningIffOnCpu ==
  /\ \A c, d \in CPUs : cproc[c] # None /\ cproc[c] = cproc[d] => c = d
  /\ \A p \in Slots :
       state[p] = "RUNNING" <=>
         \E c \in CPUs : cproc[c] = p /\ cpc[c] \in {"process", "resuming"}

\* The kernel stack a CPU executes on, between exit() and the scheduler too,
\* belongs to a process nobody has collected; a free slot has no stack.
StackInUse ==
  /\ \A c \in CPUs : cproc[c] # None => kstack[cproc[c]] /\ cproc[c] \in Live
  /\ \A p \in Slots : state[p] = "UNUSED" => ~ kstack[p]

\* fork() fills its slot without ptable.lock, and gives it back without it when
\* it fails.  Meanwhile the slot is an EMBRYO, which no other fork has and
\* nobody can collect, and an EMBRYO always has its fork: none is left behind.
ForkOwnsItsSlot ==
  /\ \A p \in Slots : np[p] # None =>
       /\ state[np[p]] = "EMBRYO" /\ parent[np[p]] \in {None, p}
       /\ \A q \in Slots : q # p => np[q] # np[p]
  /\ \A q \in Slots : state[q] = "EMBRYO" => \E p \in Slots : np[p] = q

\* Processes have different pids, all given out already.
PidsUnique ==
  /\ \A p \in Slots : state[p] # "UNUSED" => pid[p] \in 1..(nextpid - 1)
  /\ \A p, q \in Slots :
       state[p] # "UNUSED" /\ state[q] # "UNUSED" /\ pid[p] = pid[q] => p = q

\* Every process but init has a parent that is still able to collect it, and
\* a free slot is nobody's child.
ParentAlive ==
  /\ \A p \in Live \ {initproc} :
       /\ parent[p] # None
       /\ parent[p] \in Live /\ state[parent[p]] # "ZOMBIE"
  /\ \A p \in Slots : state[p] = "UNUSED" => parent[p] = None
  /\ state[initproc] \notin {"UNUSED", "EMBRYO", "ZOMBIE"}

\* A process that sleeps in wait() has children, none of them a zombie, and
\* has not been killed: no exit and no kill slips in between its scan of the
\* table and its sleep.
WaitMissesNothing ==
  \A p \in Slots :
    state[p] = "SLEEPING" /\ chan[p] = p =>
      Children(p) # {} /\ ZombieChildren(p) = {} /\ ~ killed[p]

\* A process that sleeps on the ticks still has time to wait, or the timer is
\* on its way to wake it.
TickMissesNobody ==
  \A p \in Slots :
    state[p] = "SLEEPING" /\ chan[p] = TicksChan =>
      Elapsed(p) < n[p] \/ timer = "wakeup"

\* nrswitch starts from zero with each process, though slots are reused, and
\* counts as soon as the process has been switched to.
NrSwitchOfThisProcess ==
  \A p \in Slots :
    /\ state[p] = "EMBRYO" => ~ nrswitch[p]
    /\ state[p] = "RUNNABLE" /\ inside[p] = "forkret" => ~ nrswitch[p]
    /\ state[p] \in {"RUNNING", "SLEEPING", "ZOMBIE"} => nrswitch[p]

\* The life of a slot: no wakeup, kill or scheduler ever revives a zombie,
\* runs a process under construction or frees one that has not exited.
LegalTransitions ==
  [][\A p \in Slots : state'[p] # state[p] =>
       <<state[p], state'[p]>> \in
         {<<"UNUSED", "EMBRYO">>, <<"EMBRYO", "UNUSED">>,
          <<"EMBRYO", "RUNNABLE">>, <<"RUNNABLE", "RUNNING">>,
          <<"RUNNING", "RUNNABLE">>, <<"RUNNING", "SLEEPING">>,
          <<"SLEEPING", "RUNNABLE">>, <<"RUNNING", "ZOMBIE">>,
          <<"ZOMBIE", "UNUSED">>}]_vars

\* The table implements the tree of processes of ProcTree.
Zombies == {p \in Slots : state[p] = "ZOMBIE"}
PidOf(S) == {pid[p] : p \in S}
SlotOf(i) == CHOOSE p \in Live : pid[p] = i
ParentPid(p) == IF parent[p] = None THEN 0 ELSE pid[parent[p]]
parentPids == [i \in PidOf(Live) |-> ParentPid(SlotOf(i))]
Tree == INSTANCE ProcTree
  WITH procs <- PidOf(Live), zombies <- PidOf(Zombies), parentOf <- parentPids
TreeSpec == Tree!Spec

\* No runnable process is left out by the scan of scheduler(), which goes on
\* behind the process it has just run.
RunnableRuns ==
  \A p \in Slots : state[p] = "RUNNABLE" ~> state[p] = "RUNNING"

\* A killed process exits, whether it runs, waits for a child, is being made
\* or was between two of its system calls.
KilledExits ==
  \A p \in Slots \ {initproc} :
    p \in Live /\ killed[p] ~> state[p] \in {"ZOMBIE", "UNUSED"}

\* kill() harms only the process whose pid it is given: every process that is
\* marked killed has a pid that some program passed to kill (proc.c:487).
KillHitsItsTarget ==
  \A p \in Live : killed[p] => pid[p] \in KillTargets
=============================================================================

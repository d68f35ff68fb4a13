------------------------------ MODULE ProcTree ------------------------------
(***************************************************************************)
(* What fork, exit and wait promise to user programs of HW4, and nothing   *)
(* about tables, locks and CPUs: a tree of processes known by their pids.  *)
(* A process that exits stays as a zombie until its parent collects it,    *)
(* once; the children of a process that exits become children of init.     *)
(* ProcTable implements this module.                                       *)
(***************************************************************************)
EXTENDS Naturals

VARIABLES
  procs,     \* pids of the processes there are, zombies included
  zombies,   \* those that have exited and have not been collected
  parentOf   \* the pid of each one's parent, 0 for init

tree == <<procs, zombies, parentOf>>

init == 1

Init ==
  /\ procs = {init}
  /\ zombies = {}
  /\ parentOf = [i \in {init} |-> 0]

\* i forks j, whose pid no process has.
Fork(i, j) ==
  /\ i \in procs \ zombies
  /\ j \notin procs
  /\ procs' = procs \cup {j}
  /\ parentOf' = [k \in procs \cup {j} |-> IF k = j THEN i ELSE parentOf[k]]
  /\ UNCHANGED zombies

Exit(i) ==
  /\ i \in procs \ (zombies \cup {init})
  /\ zombies' = zombies \cup {i}
  /\ parentOf' = [k \in procs |-> IF parentOf[k] = i THEN init ELSE parentOf[k]]
  /\ UNCHANGED procs

\* i collects its zombie child j.
Collect(i, j) ==
  /\ i \in procs \ zombies
  /\ j \in zombies /\ parentOf[j] = i
  /\ procs' = procs \ {j}
  /\ zombies' = zombies \ {j}
  /\ parentOf' = [k \in procs \ {j} |-> parentOf[k]]

Next ==
  \/ \E i \in procs : \E j \in procs' : Fork(i, j)
  \/ \E i \in procs : Exit(i)
  \/ \E i \in procs : \E j \in zombies : Collect(i, j)

Spec == Init /\ [][Next]_tree
=============================================================================

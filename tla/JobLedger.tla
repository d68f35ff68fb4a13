----------------------------- MODULE JobLedger ------------------------------
(***************************************************************************)
(* What the HW2 thread pool promises to the command file, and nothing      *)
(* about how: jobs are numbered in the order their "worker" lines appear,  *)
(* they start in that order, each one completes once, and the program is   *)
(* closed for good only when every job it accepted has completed.          *)
(* WorkerPool implements this module.                                      *)
(***************************************************************************)
EXTENDS Naturals

VARIABLES
  accepted,    \* number of jobs accepted so far: the jobs are 1..accepted
  started,     \* number of jobs started: they are 1..started
  completed,   \* set of jobs that have completed
  closed       \* TRUE when the program has announced that it is finished

ledger == <<accepted, started, completed, closed>>

Init ==
  /\ accepted = 0
  /\ started = 0
  /\ completed = {}
  /\ closed = FALSE

Accept ==
  /\ ~closed
  /\ accepted' = accepted + 1
  /\ UNCHANGED <<started, completed, closed>>

Start ==
  /\ started < accepted
  /\ started' = started + 1
  /\ UNCHANGED <<accepted, completed, closed>>

Complete(j) ==
  /\ j \in 1..started
  /\ j \notin completed
  /\ completed' = completed \cup {j}
  /\ UNCHANGED <<accepted, started, closed>>

Close ==
  /\ ~closed
  /\ completed = 1..accepted
  /\ closed' = TRUE
  /\ UNCHANGED <<accepted, started, completed>>

Next ==
  \/ Accept
  \/ Start
  \/ \E j \in 1..started : Complete(j)
  \/ Close

Spec == Init /\ [][Next]_ledger
=============================================================================

----------------------------- MODULE WorkerPool -----------------------------
(***************************************************************************)
(* The HW2 thread pool: main and process_commands (dispatcher.c), the job  *)
(* queue (queue.c) and worker_main (worker.c), at the grain of their       *)
(* critical sections under queue_lock.                                     *)
(*                                                                         *)
(* A job is known by its number, the rank of its "worker" line.  What a    *)
(* job does while it runs is one step here (ProcessJob); JobExecution      *)
(* refines that step.  The queue is the sequence its linked list holds.    *)
(*                                                                         *)
(* A lock is free or owned by a thread.  pthread_cond_wait releases the    *)
(* lock and puts the caller to sleep in one step; a signal moves one       *)
(* sleeper to "woken", where it competes for the lock again; a sleeper may *)
(* also wake up with no signal, as POSIX allows.                           *)
(***************************************************************************)
EXTENDS Integers, Sequences, FiniteSets

CONSTANTS
  Workers,     \* the threads created by init_workers
  Dispatcher,  \* the main thread
  Nobody,      \* the owner of a free lock
  MaxLines     \* bound on the number of lines of the command file

ASSUME WorkersAssumption == IsFiniteSet(Workers)
ASSUME ThreadsAssumption ==
         /\ Dispatcher \notin Workers
         /\ Nobody \notin Workers \cup {Dispatcher}
ASSUME MaxLinesAssumption == MaxLines \in Nat

VARIABLES
  queue,        \* queue_head .. queue_tail: job numbers in list order
  active_jobs,  \* jobs in the queue or being processed
  done,         \* set once, when the workers may leave
  submitted,    \* jobs enqueued so far
  queue_lock,   \* owner of queue_lock, or Nobody
  dpc,          \* where the dispatcher is
  eof,          \* fgets has returned NULL: the wait loop is the one of main
  lines,        \* lines of the command file read so far
  wpc,          \* where each worker is
  job,          \* the job each worker holds, 0 for none
  completed     \* jobs whose processing and statistics are over

shared == <<queue, active_jobs, done, submitted>>
file == <<eof, lines>>
work == <<job, completed>>
vars == <<shared, queue_lock, dpc, file, wpc, work>>

DispatcherPCs == {"read", "enqueueLock", "enqueue", "waitLock", "check",
                  "asleep", "woken", "join", "exited"}
WorkerPCs == {"top", "check", "asleep", "woken", "run", "finish",
              "decrement", "exited"}

Init ==
  /\ queue = <<>> /\ active_jobs = 0 /\ done = FALSE /\ submitted = 0
  /\ queue_lock = Nobody
  /\ dpc = "read" /\ eof = FALSE /\ lines = 0
  /\ wpc = [w \in Workers |-> "top"]
  /\ job = [w \in Workers |-> 0]
  /\ completed = {}

-----------------------------------------------------------------------------
(* Locks and condition variables.                                          *)

Acquire(t) == queue_lock = Nobody /\ queue_lock' = t
Release == queue_lock' = Nobody

WorkerGoes(w, pc) == wpc' = [wpc EXCEPT ![w] = pc]

\* The workers blocked on queue_cond.
Asleep == {w \in Workers : wpc[w] = "asleep"}

\* pthread_cond_signal(&queue_cond): wakes one sleeper, if there is one.
SignalQueueCond ==
  \/ Asleep = {} /\ UNCHANGED wpc
  \/ \E w \in Asleep : WorkerGoes(w, "woken")

\* pthread_cond_broadcast(&queue_cond): wakes every sleeper.
BroadcastQueueCond ==
  wpc' = [w \in Workers |-> IF w \in Asleep THEN "woken" ELSE wpc[w]]

\* pthread_cond_signal(&done_cond): only the dispatcher ever waits on it.
SignalDoneCond == dpc' = IF dpc = "asleep" THEN "woken" ELSE dpc

-----------------------------------------------------------------------------
(* The dispatcher.                                                         *)

\* fgets returns one more line.  A "worker" line goes on to the enqueue, a
\* "dispatcher_wait" line to the wait loop; a blank, "dispatcher_msleep" or
\* unknown line is done with at once.
ReadLine(next) ==
  /\ dpc = "read" /\ dpc' = next
  /\ lines < MaxLines /\ lines' = lines + 1
  /\ UNCHANGED <<shared, queue_lock, eof, wpc, work>>

\* fgets returns NULL, after any number of lines: main's wait loop is next.
EndOfFile ==
  /\ dpc = "read" /\ dpc' = "waitLock"
  /\ eof' = TRUE
  /\ UNCHANGED <<shared, queue_lock, lines, wpc, work>>

LockForEnqueue ==
  /\ dpc = "enqueueLock" /\ dpc' = "enqueue"
  /\ Acquire(Dispatcher)
  /\ UNCHANGED <<shared, file, wpc, work>>

\* Enqueues that break the pool: without the signal, and without the count.
EnqueueNoSignal ==
  /\ dpc = "enqueue" /\ dpc' = "read"
  /\ submitted' = submitted + 1
  /\ queue' = Append(queue, submitted + 1)
  /\ active_jobs' = active_jobs + 1
  /\ Release
  /\ UNCHANGED <<done, file, wpc, work>>

EnqueueUncounted ==
  /\ dpc = "enqueue" /\ dpc' = "read"
  /\ submitted' = submitted + 1
  /\ queue' = Append(queue, submitted + 1)
  /\ SignalQueueCond
  /\ Release
  /\ UNCHANGED <<active_jobs, done, file, work>>

Enqueue ==
  /\ dpc = "enqueue" /\ dpc' = "read"
  /\ submitted' = submitted + 1
  /\ queue' = Append(queue, submitted + 1)
  /\ active_jobs' = active_jobs + 1
  /\ SignalQueueCond
  /\ Release
  /\ UNCHANGED <<done, file, work>>

LockForWait ==
  /\ dpc \in {"waitLock", "woken"} /\ dpc' = "check"
  /\ Acquire(Dispatcher)
  /\ UNCHANGED <<shared, file, wpc, work>>

WaitForJobs ==
  /\ dpc = "check" /\ dpc' = "asleep"
  /\ active_jobs > 0
  /\ Release
  /\ UNCHANGED <<shared, file, wpc, work>>

\* A wait that looks at the queue and forgets the jobs being processed.
WaitReturnsAtEmptyQueue ==
  /\ dpc = "check" /\ dpc' = "read"
  /\ queue = <<>> /\ ~ eof
  /\ Release
  /\ UNCHANGED <<shared, file, wpc, work>>

\* The wait loop of a dispatcher_wait line ends.
WaitReturns ==
  /\ dpc = "check" /\ dpc' = "read"
  /\ ~ (active_jobs > 0) /\ ~ eof
  /\ Release
  /\ UNCHANGED <<shared, file, wpc, work>>

\* Shutdowns that break the pool: while jobs are still processed, and with a
\* signal for a broadcast.
ShutdownAtEmptyQueue ==
  /\ dpc = "check" /\ dpc' = "join"
  /\ queue = <<>> /\ eof
  /\ done' = TRUE
  /\ BroadcastQueueCond
  /\ Release
  /\ UNCHANGED <<queue, active_jobs, submitted, file, work>>

ShutdownSignalsOne ==
  /\ dpc = "check" /\ dpc' = "join"
  /\ ~ (active_jobs > 0) /\ eof
  /\ done' = TRUE
  /\ SignalQueueCond
  /\ Release
  /\ UNCHANGED <<queue, active_jobs, submitted, file, work>>

\* The wait loop of main ends: done is set and every sleeping worker woken.
Shutdown ==
  /\ dpc = "check" /\ dpc' = "join"
  /\ ~ (active_jobs > 0) /\ eof
  /\ done' = TRUE
  /\ BroadcastQueueCond
  /\ Release
  /\ UNCHANGED <<queue, active_jobs, submitted, file, work>>

\* join_workers returns once every worker has left; main writes the
\* statistics and returns.
Join ==
  /\ dpc = "join" /\ dpc' = "exited"
  /\ \A w \in Workers : wpc[w] = "exited"
  /\ UNCHANGED <<shared, queue_lock, file, wpc, work>>

-----------------------------------------------------------------------------
(* A worker.                                                               *)

LockForJob(w) ==
  /\ wpc[w] \in {"top", "woken"} /\ WorkerGoes(w, "check")
  /\ Acquire(w)
  /\ UNCHANGED <<shared, dpc, file, work>>

WaitForWork(w) ==
  /\ wpc[w] = "check" /\ WorkerGoes(w, "asleep")
  /\ queue = <<>> /\ ~ done
  /\ Release
  /\ UNCHANGED <<shared, dpc, file, work>>

WorkerExit(w) ==
  /\ wpc[w] = "check" /\ WorkerGoes(w, "exited")
  /\ queue = <<>> /\ done
  /\ Release
  /\ UNCHANGED <<shared, dpc, file, work>>

\* Dequeues that break the pool: the head stays, the rest of the list goes
\* too, and the job is no longer counted while it runs.
TakeJobLeavesIt(w) ==
  /\ wpc[w] = "check" /\ WorkerGoes(w, "run")
  /\ queue # <<>>
  /\ job' = [job EXCEPT ![w] = Head(queue)]
  /\ Release
  /\ UNCHANGED <<shared, dpc, file, completed>>

TakeJobDropsTheRest(w) ==
  /\ wpc[w] = "check" /\ WorkerGoes(w, "run")
  /\ queue # <<>>
  /\ job' = [job EXCEPT ![w] = Head(queue)]
  /\ queue' = <<>>
  /\ Release
  /\ UNCHANGED <<active_jobs, done, submitted, dpc, file, completed>>

TakeJobUncounts(w) ==
  /\ wpc[w] = "check" /\ WorkerGoes(w, "run")
  /\ queue # <<>>
  /\ job' = [job EXCEPT ![w] = Head(queue)]
  /\ queue' = Tail(queue)
  /\ active_jobs' = active_jobs - 1
  /\ Release
  /\ UNCHANGED <<done, submitted, dpc, file, completed>>

TakeJob(w) ==
  /\ wpc[w] = "check" /\ WorkerGoes(w, "run")
  /\ queue # <<>>
  /\ job' = [job EXCEPT ![w] = Head(queue)]
  /\ queue' = Tail(queue)
  /\ Release
  /\ UNCHANGED <<active_jobs, done, submitted, dpc, file, completed>>

\* process_job and the update of the statistics, outside queue_lock.
ProcessJob(w) ==
  /\ wpc[w] = "run" /\ WorkerGoes(w, "finish")
  /\ completed' = completed \cup {job[w]}
  /\ UNCHANGED <<shared, queue_lock, dpc, file, job>>

LockForDecrement(w) ==
  /\ wpc[w] = "finish" /\ WorkerGoes(w, "decrement")
  /\ Acquire(w)
  /\ UNCHANGED <<shared, dpc, file, work>>

\* The last job ends and nobody tells the dispatcher.
JobDoneNoSignal(w) ==
  /\ wpc[w] = "decrement" /\ WorkerGoes(w, "top")
  /\ active_jobs' = active_jobs - 1
  /\ Release
  /\ job' = [job EXCEPT ![w] = 0]
  /\ UNCHANGED <<queue, done, submitted, dpc, file, completed>>

\* The job is over: the count goes down, and the dispatcher is signalled at
\* zero.
JobDone(w) ==
  /\ wpc[w] = "decrement" /\ WorkerGoes(w, "top")
  /\ active_jobs' = active_jobs - 1
  /\ IF active_jobs' = 0 THEN SignalDoneCond ELSE UNCHANGED dpc
  /\ Release
  /\ job' = [job EXCEPT ![w] = 0]
  /\ UNCHANGED <<queue, done, submitted, file, completed>>

-----------------------------------------------------------------------------
(* Wake-ups with no signal, and the end of the program.                    *)

SpuriousWakeup ==
  /\ \/ dpc = "asleep" /\ dpc' = "woken" /\ UNCHANGED wpc
     \/ (\E w \in Asleep : WorkerGoes(w, "woken")) /\ UNCHANGED dpc
  /\ UNCHANGED <<shared, queue_lock, file, work>>

Exited == dpc = "exited" /\ UNCHANGED vars

DispatcherStep ==
  \/ \E next \in {"enqueueLock", "waitLock", "read"} : ReadLine(next)
  \/ EndOfFile
  \/ LockForEnqueue \/ Enqueue
  \/ LockForWait \/ WaitForJobs \/ WaitReturns \/ Shutdown \/ Join

WorkerStep(w) ==
  \/ LockForJob(w) \/ WaitForWork(w) \/ WorkerExit(w) \/ TakeJob(w)
  \/ ProcessJob(w) \/ LockForDecrement(w) \/ JobDone(w)

Next ==
  \/ DispatcherStep
  \/ \E w \in Workers : WorkerStep(w)
  \/ SpuriousWakeup
  \/ Exited

Spec == Init /\ [][Next]_vars

(***************************************************************************)
(* Every thread keeps running, and a thread that asks for queue_lock gets  *)
(* it: no critical section blocks while it holds the lock.                 *)
(***************************************************************************)
Fairness ==
  /\ WF_vars(DispatcherStep)
  /\ SF_vars(LockForEnqueue) /\ SF_vars(LockForWait)
  /\ \A w \in Workers : /\ WF_vars(WorkerStep(w))
                        /\ SF_vars(LockForJob(w))
                        /\ SF_vars(LockForDecrement(w))

FairSpec == Spec /\ Fairness

-----------------------------------------------------------------------------
(* Correctness.                                                            *)

\* The workers that hold a job whose active_jobs unit is still counted.
Holding == {w \in Workers : wpc[w] \in {"run", "finish", "decrement"}}

\* The workers that will look at the queue before they sleep again and that
\* were woken for it or are looking now.
Awake == {w \in Workers : wpc[w] \in {"woken", "check"}}

\* The number of jobs taken from the queue so far.
Taken == submitted - Len(queue)

\* Every variable stays in its range; in particular active_jobs, a plain int
\* decremented by every worker, never goes below zero.
TypeOK ==
  /\ queue \in Seq(Nat)
  /\ active_jobs \in Nat
  /\ done \in BOOLEAN
  /\ submitted \in Nat
  /\ queue_lock \in Workers \cup {Dispatcher, Nobody}
  /\ dpc \in DispatcherPCs
  /\ eof \in BOOLEAN
  /\ lines \in 0..MaxLines
  /\ wpc \in [Workers -> WorkerPCs]
  /\ job \in [Workers -> Nat]
  /\ completed \in SUBSET Nat

\* active_jobs is the length of the queue plus the jobs that workers hold
\* (dispatcher.c:26), though the two ends of a job's life are counted by
\* different threads in different critical sections.
ActiveJobsExact == active_jobs = Len(queue) + Cardinality(Holding)

\* One signal per enqueue is enough: while a worker sleeps, the queue is no
\* longer than the number of workers already woken or looking at it, so a job
\* never waits for a worker that nobody will wake.
NoLostWakeup == Asleep # {} => Len(queue) <= Cardinality(Awake)

\* The queue holds the last jobs submitted, in the order of their lines, so
\* that workers take jobs in the order of the command file.
QueueIsFifo ==
  /\ Len(queue) <= submitted
  /\ \A i \in 1..Len(queue) : queue[i] = Taken + i

\* No job is run twice: two workers never hold the same job, and a worker
\* that is to run a job holds one that nobody has completed.
NoJobTwice ==
  /\ \A v, w \in Holding : job[v] = job[w] => v = w
  /\ \A w \in Holding : wpc[w] = "run" => job[w] \notin completed

\* No job is lost: a job that left the queue is completed or a worker is
\* about to run it.
NoJobLost ==
  /\ completed \subseteq 1..Taken
  /\ \A w \in Holding : job[w] \in 1..Taken
  /\ \A j \in 1..Taken :
       j \in completed \/ \E w \in Workers : wpc[w] = "run" /\ job[w] = j

\* The dispatcher never sleeps on done_cond with nothing left to wait for:
\* the worker that brings active_jobs to zero has woken it.
DispatcherNotStranded == dpc = "asleep" => active_jobs > 0

\* Once done is set, nothing is queued or running and no worker sleeps: each
\* one will see done and leave, so that join_workers can return.
NoSleeperAfterDone ==
  done => /\ queue = <<>>
          /\ Asleep \cup Holding = {}

\* dispatcher_wait, and the wait at the end of main, are barriers: the
\* dispatcher goes past one only when every job submitted so far has been
\* completed and no worker holds a job.
WaitIsABarrier ==
  [][dpc = "check" /\ dpc' \in {"read", "join"} =>
       completed = 1..submitted /\ Holding = {}]_vars

\* Workers leave, and the dispatcher with them, only after the last job: the
\* pool implements the ledger of jobs of JobLedger.
Ledger == INSTANCE JobLedger WITH accepted <- submitted, started <- Taken,
                                  closed <- done
LedgerSpec == Ledger!Spec

\* The program ends: it reaches the end of the file, waits for the jobs, sets
\* done, and every worker and main return.  With WaitIsABarrier, every job
\* submitted has been completed by then.
Termination == <>(dpc = "exited")
=============================================================================

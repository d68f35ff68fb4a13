------------------------------ MODULE PoolProofs -----------------------------
(***************************************************************************)
(* Proofs about the thread pool.  About WorkerPool, for any finite set of  *)
(* workers and any length of the command file; about JobQueue, that its    *)
(* linked list is the sequence the pool works with; and about              *)
(* JobExecution, for any counters, jobs and bound on the clock, that the   *)
(* updates of the counter files by its jobs are never lost, and that the   *)
(* files and the statistics are exact.                                     *)
(***************************************************************************)
EXTENDS JobQueue, JobExecution, JobScriptProofs

-----------------------------------------------------------------------------
(* The inductive invariant.                                                *)

\* A thread owns queue_lock exactly when it is inside a critical section.
LockInv ==
  /\ queue_lock = Dispatcher <=> dpc \in {"enqueue", "check"}
  /\ \A w \in Workers : queue_lock = w <=> wpc[w] \in {"check", "decrement"}

\* done is set by the last step of the dispatcher before it joins.
DoneInv ==
  /\ done <=> dpc \in {"join", "exited"}
  /\ NoSleeperAfterDone

Accounting == ActiveJobsExact /\ QueueIsFifo /\ NoJobTwice /\ NoJobLost
Waking == NoLostWakeup /\ DispatcherNotStranded

IInv == TypeOK /\ LockInv /\ DoneInv /\ Accounting /\ Waking

-----------------------------------------------------------------------------
(* The sets of workers the invariants count.                               *)

\* Every set of workers is finite, so that its size is a natural number.
LEMMA WorkerSetsFinite ==
  ASSUME NEW S \in SUBSET Workers
  PROVE  IsFiniteSet(S) /\ Cardinality(S) \in Nat
BY FS_Subset, FS_CardinalityType, WorkersAssumption

\* Adding a worker to a set of workers, or removing one, changes the size by
\* one.
LEMMA WorkerSetsSize ==
  ASSUME NEW S \in SUBSET Workers, NEW w \in Workers
  PROVE  /\ w \notin S => Cardinality(S \cup {w}) = Cardinality(S) + 1
         /\ w \in S => /\ Cardinality(S \ {w}) = Cardinality(S) - 1
                       /\ Cardinality(S) >= 1
         /\ Cardinality(S) = 0 <=> S = {}
<1>1. IsFiniteSet(S) /\ Cardinality(S) \in Nat
  BY WorkerSetsFinite
<1>2. IsFiniteSet(S \ {w}) /\ Cardinality(S \ {w}) \in Nat
  BY WorkerSetsFinite
<1>3. w \notin S => Cardinality(S \cup {w}) = Cardinality(S) + 1
  BY <1>1, FS_AddElement
<1>4. w \in S => Cardinality(S \ {w}) = Cardinality(S) - 1
  BY <1>1, FS_RemoveElement
<1>5. Cardinality(S) = 0 <=> S = {}
  BY <1>1, FS_EmptySet
<1> QED
  BY <1>1, <1>2, <1>3, <1>4, <1>5

LEMMA InitIInv == Init => IInv
<1> SUFFICES ASSUME Init PROVE IInv
  OBVIOUS
<1>1. TypeOK
  <2>1. <<>> \in Seq(Nat)
    OBVIOUS
  <2>2. 0 \in 0..MaxLines
    BY MaxLinesAssumption
  <2> QED
    BY <2>1, <2>2 DEF Init, TypeOK, DispatcherPCs, WorkerPCs
<1>2. LockInv
  BY ThreadsAssumption DEF Init, LockInv
<1>3. Holding = {} /\ Asleep = {}
  BY DEF Init, Holding, Asleep
<1>4. DoneInv
  <2>1. ~ (dpc \in {"join", "exited"}) /\ ~ done
    BY DEF Init
  <2> QED
    BY <2>1 DEF DoneInv, NoSleeperAfterDone
<1>5. Taken = 0 /\ Len(queue) = 0
  <2>1. Len(queue) = 0
    BY DEF Init
  <2>2. submitted = 0
    BY DEF Init
  <2> QED
    BY ONLY <2>1, <2>2 DEF Taken
<1>6. Accounting
  BY <1>3, <1>5, FS_EmptySet
  DEF Init, Accounting, ActiveJobsExact, QueueIsFifo, NoJobTwice, NoJobLost
<1>7. Waking
  BY <1>3 DEF Init, Waking, NoLostWakeup, DispatcherNotStranded
<1> QED
  BY <1>1, <1>2, <1>4, <1>6, <1>7 DEF IInv

-----------------------------------------------------------------------------
(* Steps that leave the jobs alone.                                        *)

\* The accounting of the jobs depends on the queue, on the counters and on
\* which workers hold a job, and on nothing else.
LEMMA AccountingStable ==
  ASSUME Accounting, UNCHANGED <<queue, active_jobs, submitted, job, completed>>,
         Holding' = Holding,
         \A w \in Workers : wpc'[w] = "run" <=> wpc[w] = "run"
  PROVE  Accounting'
<1>1. Taken' = Taken
  BY DEF Taken
<1>2. ActiveJobsExact'
  BY DEF Accounting, ActiveJobsExact
<1>3. QueueIsFifo'
  BY <1>1 DEF Accounting, QueueIsFifo
<1>4. NoJobTwice'
  <2>1. \A w \in Holding : wpc'[w] = "run" => wpc[w] = "run"
    BY DEF Holding
  <2> QED
    BY <2>1 DEF Accounting, NoJobTwice
<1>5. NoJobLost'
  BY <1>1 DEF Accounting, NoJobLost
<1> QED
  BY <1>2, <1>3, <1>4, <1>5 DEF Accounting

\* The steps of the dispatcher that leave the jobs and the workers alone.
DispatcherMoves ==
  \/ \E n \in {"enqueueLock", "waitLock", "read"} : ReadLine(n)
  \/ EndOfFile \/ LockForEnqueue \/ LockForWait \/ WaitForJobs \/ WaitReturns
  \/ Join

LEMMA DispatcherMovesIInv == IInv /\ DispatcherMoves => IInv'
<1> SUFFICES ASSUME IInv, DispatcherMoves PROVE IInv'
  OBVIOUS
<1>1. UNCHANGED <<queue, active_jobs, done, submitted, wpc, job, completed>>
  BY DEF DispatcherMoves, ReadLine, EndOfFile, LockForEnqueue, LockForWait,
         WaitForJobs, WaitReturns, Join, shared, file, work
<1>2. wpc' = wpc
  BY <1>1
<1>2a. Holding' = Holding /\ Asleep' = Asleep /\ Awake' = Awake
  BY <1>2 DEF Holding, Asleep, Awake
<1> USE DEF DispatcherMoves, ReadLine, EndOfFile, LockForEnqueue, LockForWait,
            WaitForJobs, WaitReturns, Join, Acquire, Release, shared, file, work
<1>3. TypeOK'
  <2>1. dpc' \in DispatcherPCs
    BY DEF DispatcherPCs
  <2>2. queue_lock' \in Workers \cup {Dispatcher, Nobody}
    BY DEF IInv, TypeOK
  <2>3. eof' \in BOOLEAN
    BY DEF IInv, TypeOK
  <2>4. lines' \in 0..MaxLines
    BY MaxLinesAssumption DEF IInv, TypeOK
  <2> HIDE DEF DispatcherMoves
  <2> QED
    BY <1>1, <2>1, <2>2, <2>3, <2>4 DEF IInv, TypeOK
<1>4. LockInv'
  <2>1. queue_lock' = Dispatcher <=> dpc' \in {"enqueue", "check"}
    BY ThreadsAssumption DEF IInv, LockInv
  <2>2. \A w \in Workers : queue_lock' = w <=> queue_lock = w
    BY ThreadsAssumption DEF IInv, LockInv
  <2> QED
    BY <1>2, <2>1, <2>2 DEF IInv, LockInv
<1>5. DoneInv'
  <2>1. (dpc' \in {"join", "exited"}) <=> (dpc \in {"join", "exited"})
    OBVIOUS
  <2> QED
    BY <1>1, <1>2a, <2>1 DEF IInv, DoneInv, NoSleeperAfterDone
<1>6. Accounting'
  BY <1>1, <1>2, <1>2a, AccountingStable DEF IInv
<1>7. Waking'
  <2>1. dpc' = "asleep" => active_jobs > 0
    BY DEF IInv, Waking, DispatcherNotStranded
  <2> QED
    BY <1>1, <1>2a, <2>1 DEF IInv, Waking, NoLostWakeup, DispatcherNotStranded
<1> QED
  BY <1>3, <1>4, <1>5, <1>6, <1>7 DEF IInv

-----------------------------------------------------------------------------
(* Steps of one worker.                                                    *)

Critical == {"check", "decrement"}
Busy == {"run", "finish", "decrement"}

\* What moving one worker does to the sets the invariants count.
LEMMA WorkerGoesSets ==
  ASSUME TypeOK, NEW w \in Workers, NEW pc \in WorkerPCs, WorkerGoes(w, pc)
  PROVE  /\ wpc' \in [Workers -> WorkerPCs]
         /\ wpc'[w] = pc
         /\ \A v \in Workers : v # w => wpc'[v] = wpc[v]
         /\ Holding' = IF pc \in Busy THEN Holding \cup {w} ELSE Holding \ {w}
         /\ Asleep' = IF pc = "asleep" THEN Asleep \cup {w} ELSE Asleep \ {w}
         /\ Awake' = IF pc \in {"woken", "check"} THEN Awake \cup {w}
                                                  ELSE Awake \ {w}
<1>1. /\ wpc' \in [Workers -> WorkerPCs]
      /\ wpc'[w] = pc
      /\ \A v \in Workers : v # w => wpc'[v] = wpc[v]
  BY DEF TypeOK, WorkerGoes
<1> HIDE DEF WorkerGoes
<1>2. Holding' = IF pc \in Busy THEN Holding \cup {w} ELSE Holding \ {w}
  BY <1>1 DEF Holding, Busy
<1>3. Asleep' = IF pc = "asleep" THEN Asleep \cup {w} ELSE Asleep \ {w}
  BY <1>1 DEF Asleep
<1>4. Awake' = IF pc \in {"woken", "check"} THEN Awake \cup {w}
                                            ELSE Awake \ {w}
  BY <1>1 DEF Awake
<1> QED
  BY <1>1, <1>2, <1>3, <1>4

\* A worker takes queue_lock as it enters a critical section, gives it back
\* as it leaves one, and does neither otherwise.
LEMMA WorkerLockInv ==
  ASSUME TypeOK, LockInv, NEW w \in Workers,
         dpc' \in {"enqueue", "check"} <=> dpc \in {"enqueue", "check"},
         \A v \in Workers : v # w => wpc'[v] = wpc[v],
         \/ Acquire(w) /\ wpc'[w] \in Critical
         \/ wpc[w] \in Critical /\ Release /\ wpc'[w] \notin Critical
         \/ queue_lock' = queue_lock /\ wpc[w] \notin Critical
            /\ wpc'[w] \notin Critical
  PROVE  LockInv'
<1>1. queue_lock' = Dispatcher <=> queue_lock = Dispatcher
  BY ThreadsAssumption DEF Acquire, Release, LockInv, Critical
<1>2. queue_lock' = w <=> wpc'[w] \in Critical
  BY ThreadsAssumption DEF Acquire, Release, LockInv, Critical
<1>3. ASSUME NEW v \in Workers, v # w
      PROVE  queue_lock' = v <=> queue_lock = v
  BY <1>3, ThreadsAssumption DEF Acquire, Release, LockInv, Critical
<1> QED
  BY <1>1, <1>2, <1>3 DEF LockInv, Critical

LEMMA LockForJobIInv ==
  ASSUME IInv, NEW w \in Workers, LockForJob(w) PROVE IInv'
<1> USE DEF LockForJob, shared, file, work
<1>1. /\ wpc' \in [Workers -> WorkerPCs] /\ wpc'[w] = "check"
      /\ \A v \in Workers : v # w => wpc'[v] = wpc[v]
      /\ Holding' = Holding /\ Asleep' = Asleep /\ Awake' = Awake \cup {w}
  BY WorkerGoesSets DEF IInv, WorkerPCs, Busy, Holding, Asleep
<1>2. TypeOK'
  BY <1>1 DEF IInv, TypeOK, Acquire
<1>3. LockInv'
  BY <1>1, WorkerLockInv DEF IInv, Critical
<1>4. DoneInv'
  BY <1>1 DEF IInv, DoneInv, NoSleeperAfterDone
<1>5. Accounting'
  BY <1>1, AccountingStable DEF IInv
<1>6. Waking'
  <2>1. Cardinality(Awake) <= Cardinality(Awake')
    <3>1. Awake \in SUBSET Workers
      BY DEF Awake
    <3>2. Cardinality(Awake) \in Nat
      BY <3>1, WorkerSetsFinite
    <3>3. CASE w \in Awake
      <4>1. Awake' = Awake
        BY <1>1, <3>3
      <4> QED
        BY <3>2, <4>1
    <3>4. CASE w \notin Awake
      <4>1. Cardinality(Awake') = Cardinality(Awake) + 1
        BY <1>1, <3>1, <3>4, WorkerSetsSize
      <4> QED
        BY <3>2, <4>1
    <3> QED
      BY <3>3, <3>4
  <2>2. Cardinality(Awake) \in Nat /\ Cardinality(Awake') \in Nat
    BY WorkerSetsFinite, <1>1 DEF Awake
  <2>3. Len(queue) \in Nat
    BY DEF IInv, TypeOK
  <2> QED
    BY <1>1, <2>1, <2>2, <2>3 DEF IInv, Waking, NoLostWakeup, DispatcherNotStranded
<1> QED
  BY <1>2, <1>3, <1>4, <1>5, <1>6 DEF IInv

LEMMA WaitForWorkIInv ==
  ASSUME IInv, NEW w \in Workers, WaitForWork(w) PROVE IInv'
<1> USE DEF WaitForWork, shared, file, work
<1>1. /\ wpc' \in [Workers -> WorkerPCs] /\ wpc'[w] = "asleep"
      /\ \A v \in Workers : v # w => wpc'[v] = wpc[v]
      /\ Holding' = Holding
  BY WorkerGoesSets DEF IInv, WorkerPCs, Busy, Holding
<1>2. TypeOK'
  BY <1>1 DEF IInv, TypeOK, Release
<1>3. LockInv'
  BY <1>1, WorkerLockInv DEF IInv, Critical
<1>4. DoneInv'
  BY DEF IInv, DoneInv, NoSleeperAfterDone
<1>5. Accounting'
  BY <1>1, AccountingStable DEF IInv
<1>6. Waking'
  <2>1. Len(queue') = 0
    OBVIOUS
  <2>2. Cardinality(Awake') \in Nat
    BY WorkerSetsFinite, <1>1 DEF Awake
  <2> QED
    BY <2>1, <2>2 DEF IInv, Waking, NoLostWakeup, DispatcherNotStranded
<1> QED
  BY <1>2, <1>3, <1>4, <1>5, <1>6 DEF IInv

LEMMA WorkerExitIInv ==
  ASSUME IInv, NEW w \in Workers, WorkerExit(w) PROVE IInv'
<1> USE DEF WorkerExit, shared, file, work
<1>1. /\ wpc' \in [Workers -> WorkerPCs] /\ wpc'[w] = "exited"
      /\ \A v \in Workers : v # w => wpc'[v] = wpc[v]
      /\ Holding' = Holding /\ Asleep' = Asleep
  BY WorkerGoesSets DEF IInv, WorkerPCs, Busy, Holding, Asleep
<1>2. TypeOK'
  BY <1>1 DEF IInv, TypeOK, Release
<1>3. LockInv'
  BY <1>1, WorkerLockInv DEF IInv, Critical
<1>4. DoneInv'
  BY <1>1 DEF IInv, DoneInv, NoSleeperAfterDone
<1>5. Accounting'
  BY <1>1, AccountingStable DEF IInv
<1>6. Waking'
  <2>1. Len(queue') = 0
    OBVIOUS
  <2>2. Cardinality(Awake') \in Nat
    BY WorkerSetsFinite, <1>1 DEF Awake
  <2> QED
    BY <2>1, <2>2 DEF IInv, Waking, NoLostWakeup, DispatcherNotStranded
<1> QED
  BY <1>2, <1>3, <1>4, <1>5, <1>6 DEF IInv

LEMMA TakeJobIInv ==
  ASSUME IInv, NEW w \in Workers, TakeJob(w) PROVE IInv'
<1> USE DEF TakeJob, shared, file, work
<1>1. /\ wpc' \in [Workers -> WorkerPCs] /\ wpc'[w] = "run"
      /\ \A v \in Workers : v # w => wpc'[v] = wpc[v]
      /\ Holding' = Holding \cup {w} /\ Asleep' = Asleep
      /\ Awake' = Awake \ {w}
      /\ w \notin Holding /\ w \in Awake
  BY WorkerGoesSets DEF IInv, WorkerPCs, Busy, Holding, Asleep, Awake
<1>2. /\ queue \in Seq(Nat) /\ queue # <<>> /\ submitted \in Nat
      /\ Len(queue) \in Nat /\ Len(queue) >= 1 /\ Len(queue) <= submitted
      /\ queue' \in Seq(Nat) /\ Len(queue') = Len(queue) - 1
      /\ \A i \in 1..Len(queue') : queue'[i] = queue[i + 1]
  <2>1. queue \in Seq(Nat) /\ queue # <<>>
    BY DEF IInv, TypeOK
  <2>2. Len(queue) <= submitted /\ submitted \in Nat
    BY DEF IInv, TypeOK, Accounting, QueueIsFifo
  <2>3. queue' = Tail(queue)
    OBVIOUS
  <2> QED
    BY <2>1, <2>2, <2>3, HeadTailProperties
<1>3. Taken \in Nat /\ Taken' = Taken + 1
  BY <1>2 DEF Taken
<1>4. job'[w] = Taken + 1 /\ \A v \in Workers : v # w => job'[v] = job[v]
  <2>1. queue[1] = Taken + 1
    BY <1>2 DEF IInv, Accounting, QueueIsFifo
  <2>2. Head(queue) = queue[1]
    BY <1>2
  <2> QED
    BY <2>1, <2>2 DEF IInv, TypeOK
<1>5. TypeOK'
  <2>1. job' \in [Workers -> Nat]
    BY <1>2 DEF IInv, TypeOK
  <2> QED
    BY <1>1, <1>2, <2>1 DEF IInv, TypeOK, Release
<1>6. LockInv'
  BY <1>1, WorkerLockInv DEF IInv, Critical
<1>7. DoneInv'
  <2>1. ~ done
    BY <1>2 DEF IInv, DoneInv, NoSleeperAfterDone
  <2> QED
    BY <2>1 DEF IInv, DoneInv, NoSleeperAfterDone
<1>8. ActiveJobsExact'
  <2>1. /\ Cardinality(Holding') = Cardinality(Holding) + 1
        /\ Cardinality(Holding) \in Nat
    BY <1>1, WorkerSetsFinite, WorkerSetsSize DEF Holding
  <2> QED
    BY <1>2, <2>1 DEF IInv, Accounting, ActiveJobsExact
<1>9. QueueIsFifo'
  <2>1. Len(queue') <= submitted'
    BY <1>2
  <2>2. ASSUME NEW i \in 1..Len(queue') PROVE queue'[i] = Taken' + i
    <3>1. i + 1 \in 1..Len(queue)
      BY <1>2
    <3>2. queue[i + 1] = Taken + (i + 1)
      BY <3>1 DEF IInv, Accounting, QueueIsFifo
    <3> QED
      BY <1>2, <1>3, <3>2
  <2> QED
    BY <2>1, <2>2 DEF QueueIsFifo
<1>10. NoJobTwice'
  <2>1. \A v \in Holding : job[v] \in 1..Taken
    BY DEF IInv, Accounting, NoJobLost
  <2>2. \A u, v \in Holding' : job'[u] = job'[v] => u = v
    BY <1>1, <1>3, <1>4, <2>1 DEF IInv, Accounting, NoJobTwice, Holding
  <2>3. Taken + 1 \notin completed
    BY <1>3 DEF IInv, Accounting, NoJobLost
  <2>4. \A v \in Holding' : wpc'[v] = "run" => job'[v] \notin completed'
    BY <1>1, <1>4, <2>3 DEF IInv, Accounting, NoJobTwice, Holding
  <2> QED
    BY <2>2, <2>4 DEF NoJobTwice
<1>11. NoJobLost'
  <2>1. completed' \subseteq 1..Taken'
    BY <1>3 DEF IInv, Accounting, NoJobLost
  <2>2. \A v \in Holding' : job'[v] \in 1..Taken'
    BY <1>1, <1>3, <1>4 DEF IInv, Accounting, NoJobLost, Holding
  <2>3. ASSUME NEW j \in 1..Taken'
        PROVE  j \in completed' \/ \E v \in Workers : wpc'[v] = "run" /\ job'[v] = j
    <3>1. CASE j = Taken + 1
      BY <1>1, <1>4, <3>1
    <3>2. CASE j # Taken + 1
      <4>1. j \in 1..Taken
        BY <1>3, <3>2
      <4>2. wpc[w] # "run"
        OBVIOUS
      <4> QED
        BY <1>1, <1>4, <4>1, <4>2 DEF IInv, Accounting, NoJobLost
    <3> QED
      BY <3>1, <3>2
  <2> QED
    BY <2>1, <2>2, <2>3 DEF NoJobLost
<1>12. Waking'
  <2>1. /\ Cardinality(Awake') = Cardinality(Awake) - 1
        /\ Cardinality(Awake) \in Nat
    BY <1>1, WorkerSetsFinite, WorkerSetsSize DEF Awake
  <2> QED
    BY <1>1, <1>2, <2>1 DEF IInv, Waking, NoLostWakeup, DispatcherNotStranded
<1> QED
  BY <1>5, <1>6, <1>7, <1>8, <1>9, <1>10, <1>11, <1>12 DEF IInv, Accounting

LEMMA ProcessJobIInv ==
  ASSUME IInv, NEW w \in Workers, ProcessJob(w) PROVE IInv'
<1> USE DEF ProcessJob, shared, file, work
<1>1. /\ wpc' \in [Workers -> WorkerPCs] /\ wpc'[w] = "finish"
      /\ \A v \in Workers : v # w => wpc'[v] = wpc[v]
      /\ Holding' = Holding /\ Asleep' = Asleep /\ Awake' = Awake
      /\ w \in Holding
  BY WorkerGoesSets DEF IInv, WorkerPCs, Busy, Holding, Asleep, Awake
<1>2. Taken' = Taken
  BY DEF Taken
<1>3. TypeOK'
  BY <1>1 DEF IInv, TypeOK
<1>4. LockInv'
  BY <1>1, WorkerLockInv DEF IInv, Critical
<1>5. DoneInv'
  BY <1>1 DEF IInv, DoneInv, NoSleeperAfterDone
<1>6. ActiveJobsExact' /\ QueueIsFifo'
  BY <1>1, <1>2 DEF IInv, Accounting, ActiveJobsExact, QueueIsFifo
<1>7. NoJobTwice'
  BY <1>1 DEF IInv, Accounting, NoJobTwice, Holding
<1>8. NoJobLost'
  <2>1. completed' \subseteq 1..Taken' /\ \A v \in Holding' : job'[v] \in 1..Taken'
    BY <1>1, <1>2 DEF IInv, Accounting, NoJobLost
  <2>2. ASSUME NEW j \in 1..Taken'
        PROVE  j \in completed' \/ \E v \in Workers : wpc'[v] = "run" /\ job'[v] = j
    <3>1. CASE j = job[w]
      BY <3>1
    <3>2. CASE j # job[w]
      BY <1>1, <1>2, <3>2 DEF IInv, Accounting, NoJobLost
    <3> QED
      BY <3>1, <3>2
  <2> QED
    BY <2>1, <2>2 DEF NoJobLost
<1>9. Waking'
  BY <1>1 DEF IInv, Waking, NoLostWakeup, DispatcherNotStranded
<1> QED
  BY <1>3, <1>4, <1>5, <1>6, <1>7, <1>8, <1>9 DEF IInv, Accounting

LEMMA LockForDecrementIInv ==
  ASSUME IInv, NEW w \in Workers, LockForDecrement(w) PROVE IInv'
<1> USE DEF LockForDecrement, shared, file, work
<1>1. /\ wpc' \in [Workers -> WorkerPCs] /\ wpc'[w] = "decrement"
      /\ \A v \in Workers : v # w => wpc'[v] = wpc[v]
      /\ Holding' = Holding /\ Asleep' = Asleep /\ Awake' = Awake
  BY WorkerGoesSets DEF IInv, WorkerPCs, Busy, Holding, Asleep, Awake
<1>2. TypeOK'
  BY <1>1 DEF IInv, TypeOK, Acquire
<1>3. LockInv'
  BY <1>1, WorkerLockInv DEF IInv, Critical
<1>4. DoneInv'
  BY <1>1 DEF IInv, DoneInv, NoSleeperAfterDone
<1>5. Accounting'
  BY <1>1, AccountingStable DEF IInv
<1>6. Waking'
  BY <1>1 DEF IInv, Waking, NoLostWakeup, DispatcherNotStranded
<1> QED
  BY <1>2, <1>3, <1>4, <1>5, <1>6 DEF IInv

LEMMA JobDoneIInv ==
  ASSUME IInv, NEW w \in Workers, JobDone(w) PROVE IInv'
<1> USE DEF JobDone, shared, file, work
<1>1. /\ wpc' \in [Workers -> WorkerPCs] /\ wpc'[w] = "top"
      /\ \A v \in Workers : v # w => wpc'[v] = wpc[v]
      /\ Holding' = Holding \ {w} /\ Asleep' = Asleep /\ Awake' = Awake
      /\ w \in Holding
  BY WorkerGoesSets DEF IInv, WorkerPCs, Busy, Holding, Asleep, Awake
<1>2. /\ Cardinality(Holding') = Cardinality(Holding) - 1
      /\ Cardinality(Holding) \in Nat /\ Cardinality(Holding) >= 1
  BY <1>1, WorkerSetsFinite, WorkerSetsSize DEF Holding
<1>3. /\ active_jobs \in Nat /\ Len(queue) \in Nat
      /\ active_jobs = Len(queue) + Cardinality(Holding)
  BY DEF IInv, TypeOK, Accounting, ActiveJobsExact
<1>4. active_jobs' \in Nat /\ ActiveJobsExact'
  BY <1>2, <1>3 DEF ActiveJobsExact
<1>5. /\ dpc' \in DispatcherPCs
      /\ dpc' = "asleep" => active_jobs' > 0
      /\ \A pc \in {"enqueue", "check", "join", "exited"} : dpc' = pc <=> dpc = pc
  <2>1. CASE active_jobs' = 0
    BY <2>1 DEF IInv, TypeOK, SignalDoneCond, DispatcherPCs
  <2>2. CASE active_jobs' # 0
    BY <1>4, <2>2 DEF IInv, TypeOK
  <2> QED
    BY <2>1, <2>2
<1>6. TypeOK'
  <2>1. job' \in [Workers -> Nat]
    BY DEF IInv, TypeOK
  <2> QED
    BY <1>1, <1>4, <1>5, <2>1 DEF IInv, TypeOK, Release
<1>7. LockInv'
  <2>1. dpc' \in {"enqueue", "check"} <=> dpc \in {"enqueue", "check"}
    BY <1>5
  <2> QED
    BY <1>1, <2>1, WorkerLockInv DEF IInv, Critical
<1>8. DoneInv'
  <2>1. ~ done
    BY <1>1 DEF IInv, DoneInv, NoSleeperAfterDone
  <2>2. dpc \notin {"join", "exited"}
    BY <2>1 DEF IInv, DoneInv
  <2>3. dpc' \notin {"join", "exited"}
    BY <1>5, <2>2
  <2> QED
    BY <2>1, <2>3 DEF DoneInv, NoSleeperAfterDone
<1>9. QueueIsFifo' /\ NoJobTwice' /\ NoJobLost'
  <2>1. Taken' = Taken
    BY DEF Taken
  <2>2. QueueIsFifo'
    BY <2>1 DEF IInv, Accounting, QueueIsFifo
  <2>3. \A v \in Holding' : v \in Holding /\ job'[v] = job[v] /\ wpc'[v] = wpc[v]
    BY <1>1 DEF IInv, TypeOK, Holding
  <2>4. NoJobTwice'
    BY <2>3 DEF IInv, Accounting, NoJobTwice
  <2>5. \A v \in Workers : wpc[v] = "run" => wpc'[v] = "run" /\ job'[v] = job[v]
    BY <1>1 DEF IInv, TypeOK
  <2>6. NoJobLost'
    BY <2>1, <2>3, <2>5 DEF IInv, Accounting, NoJobLost
  <2> QED
    BY <2>2, <2>4, <2>6
<1>10. Waking'
  BY <1>1, <1>5 DEF IInv, Waking, NoLostWakeup, DispatcherNotStranded
<1> QED
  BY <1>4, <1>6, <1>7, <1>8, <1>9, <1>10 DEF IInv, Accounting

-----------------------------------------------------------------------------
(* The steps that wake workers.                                            *)

LEMMA EnqueueIInv == ASSUME IInv, Enqueue PROVE IInv'
<1> USE DEF Enqueue, shared, file, work
<1>1. /\ queue \in Seq(Nat) /\ submitted \in Nat /\ Len(queue) \in Nat
      /\ Len(queue) <= submitted
      /\ queue' \in Seq(Nat) /\ Len(queue') = Len(queue) + 1
      /\ \A i \in 1..Len(queue) : queue'[i] = queue[i]
      /\ queue'[Len(queue) + 1] = submitted + 1
  <2>1. queue \in Seq(Nat) /\ submitted \in Nat /\ Len(queue) <= submitted
    BY DEF IInv, TypeOK, Accounting, QueueIsFifo
  <2>2. queue' = Append(queue, submitted + 1)
    OBVIOUS
  <2> QED
    BY <2>1, <2>2, AppendProperties
<1>2. Taken \in Nat /\ Taken' = Taken
  BY <1>1 DEF Taken
<1>3. /\ wpc' \in [Workers -> WorkerPCs]
      /\ Holding' = Holding
      /\ \A v \in Workers : \A pc \in WorkerPCs \ {"asleep", "woken"} :
           wpc'[v] = pc <=> wpc[v] = pc
      /\ \/ Asleep' = {}
         \/ \E w \in Asleep : Asleep' = Asleep \ {w} /\ Awake' = Awake \cup {w}
  <2>1. CASE Asleep = {} /\ UNCHANGED wpc
    BY <2>1 DEF IInv, TypeOK, Holding, Asleep
  <2>2. CASE \E w \in Asleep : WorkerGoes(w, "woken")
    <3>1. PICK w \in Asleep : WorkerGoes(w, "woken")
      BY <2>2
    <3>2. w \in Workers /\ wpc[w] = "asleep"
      BY DEF Asleep
    <3> QED
      BY <3>1, <3>2, WorkerGoesSets DEF IInv, WorkerPCs, Busy, Holding
  <2> QED
    BY <2>1, <2>2 DEF SignalQueueCond
<1>4. TypeOK'
  <2>1. active_jobs' \in Nat /\ submitted' \in Nat
    BY <1>1 DEF IInv, TypeOK
  <2> QED
    BY <1>1, <1>3, <2>1 DEF IInv, TypeOK, Release, DispatcherPCs
<1>5. LockInv'
  <2>1. queue_lock = Dispatcher
    BY DEF IInv, LockInv
  <2>2. \A w \in Workers : wpc[w] \notin {"check", "decrement"}
    BY <2>1, ThreadsAssumption DEF IInv, LockInv
  <2>3. \A w \in Workers : wpc'[w] \notin {"check", "decrement"}
    BY <1>3, <2>2 DEF WorkerPCs
  <2> QED
    BY <2>3, ThreadsAssumption DEF LockInv, Release
<1>6. DoneInv'
  <2>1. ~ done /\ dpc' \notin {"join", "exited"}
    BY DEF IInv, DoneInv
  <2> QED
    BY <2>1 DEF DoneInv, NoSleeperAfterDone
<1>7. ActiveJobsExact'
  <2>1. Cardinality(Holding) \in Nat
    BY WorkerSetsFinite DEF Holding
  <2> QED
    BY <1>1, <1>3, <2>1 DEF IInv, Accounting, ActiveJobsExact
<1>8. QueueIsFifo'
  <2>1. Len(queue') <= submitted'
    BY <1>1
  <2>2. ASSUME NEW i \in 1..Len(queue') PROVE queue'[i] = Taken' + i
    <3>1. CASE i \in 1..Len(queue)
      BY <1>1, <1>2, <3>1 DEF IInv, Accounting, QueueIsFifo
    <3>2. CASE i = Len(queue) + 1
      BY <1>1, <1>2, <3>2 DEF Taken
    <3> QED
      BY <1>1, <3>1, <3>2
  <2> QED
    BY <2>1, <2>2 DEF QueueIsFifo
<1>9. NoJobTwice' /\ NoJobLost'
  <2>1. \A v \in Workers : wpc'[v] = "run" <=> wpc[v] = "run"
    BY <1>3 DEF WorkerPCs
  <2>2. NoJobTwice'
    BY <1>3, <2>1 DEF IInv, Accounting, NoJobTwice, Holding
  <2>3. NoJobLost'
    BY <1>2, <1>3, <2>1 DEF IInv, Accounting, NoJobLost
  <2> QED
    BY <2>2, <2>3
<1>10. NoLostWakeup'
  <2>1. CASE Asleep' = {}
    BY <2>1 DEF NoLostWakeup
  <2>2. ASSUME NEW w \in Asleep, Asleep' = Asleep \ {w},
               Awake' = Awake \cup {w}
        PROVE  NoLostWakeup'
    <3>1. w \in Workers /\ w \notin Awake /\ Awake \in SUBSET Workers
      BY DEF Asleep, Awake
    <3>2. /\ Cardinality(Awake') = Cardinality(Awake) + 1
          /\ Cardinality(Awake) \in Nat
      BY <2>2, <3>1, WorkerSetsFinite, WorkerSetsSize
    <3>3. Len(queue) <= Cardinality(Awake)
      BY DEF IInv, Waking, NoLostWakeup
    <3> QED
      BY <1>1, <3>2, <3>3 DEF NoLostWakeup
  <2> QED
    BY <1>3, <2>1, <2>2
<1>11. DispatcherNotStranded'
  BY DEF DispatcherNotStranded
<1> QED
  BY <1>4, <1>5, <1>6, <1>7, <1>8, <1>9, <1>10, <1>11 DEF IInv, Accounting, Waking

\* When the dispatcher finds active_jobs at zero, nothing is queued, nothing
\* is held, and every job submitted is completed.
LEMMA ZeroMeansAllDone ==
  ASSUME IInv, active_jobs = 0
  PROVE  queue = <<>> /\ Holding = {} /\ Taken = submitted
         /\ completed = 1..submitted
<1>1. Cardinality(Holding) \in Nat /\ Len(queue) \in Nat /\ queue \in Seq(Nat)
  BY WorkerSetsFinite DEF IInv, TypeOK, Holding
<1>2. Cardinality(Holding) = 0 /\ Len(queue) = 0
  BY <1>1 DEF IInv, Accounting, ActiveJobsExact
<1>3. Holding = {}
  BY <1>2, WorkerSetsSize DEF Holding
<1>4. queue = <<>>
  BY <1>1, <1>2, EmptySeq
<1>5. Taken = submitted
  BY <1>2 DEF IInv, TypeOK, Taken
<1>6. \A v \in Workers : wpc[v] # "run"
  BY <1>3 DEF Holding
<1>7. completed = 1..submitted
  BY <1>5, <1>6 DEF IInv, Accounting, NoJobLost
<1> QED
  BY <1>3, <1>4, <1>5, <1>7

LEMMA ShutdownIInv == ASSUME IInv, Shutdown PROVE IInv'
<1> USE DEF Shutdown, shared, file, work
<1>1. queue = <<>> /\ Holding = {}
  <2>1. active_jobs = 0
    BY DEF IInv, TypeOK
  <2> QED
    BY <2>1, ZeroMeansAllDone
<1>2. /\ wpc' \in [Workers -> WorkerPCs]
      /\ Holding' = Holding /\ Asleep' = {}
      /\ \A v \in Workers : \A pc \in WorkerPCs \ {"asleep", "woken"} :
           wpc'[v] = pc <=> wpc[v] = pc
  <2>1. /\ wpc' \in [Workers -> WorkerPCs]
        /\ \A v \in Workers : wpc'[v] = IF wpc[v] = "asleep" THEN "woken" ELSE wpc[v]
    BY DEF IInv, TypeOK, BroadcastQueueCond, Asleep, WorkerPCs
  <2>2. Holding' = Holding /\ Asleep' = {}
    BY <2>1 DEF Holding, Asleep
  <2> QED
    BY <2>1, <2>2
<1>3. TypeOK'
  BY <1>2 DEF IInv, TypeOK, Release, DispatcherPCs
<1>4. LockInv'
  <2>1. queue_lock = Dispatcher
    BY DEF IInv, LockInv
  <2>2. \A w \in Workers : wpc[w] \notin {"check", "decrement"}
    BY <2>1, ThreadsAssumption DEF IInv, LockInv
  <2>3. \A w \in Workers : wpc'[w] \notin {"check", "decrement"}
    BY <1>2, <2>2 DEF WorkerPCs
  <2> QED
    BY <2>3, ThreadsAssumption DEF LockInv, Release
<1>5. DoneInv'
  BY <1>1, <1>2 DEF DoneInv, NoSleeperAfterDone
<1>6. Accounting'
  <2>1. \A w \in Workers : wpc'[w] = "run" <=> wpc[w] = "run"
    BY <1>2 DEF WorkerPCs
  <2> QED
    BY <1>2, <2>1, AccountingStable DEF IInv
<1>7. Waking'
  BY <1>2 DEF Waking, NoLostWakeup, DispatcherNotStranded
<1> QED
  BY <1>3, <1>4, <1>5, <1>6, <1>7 DEF IInv

LEMMA SpuriousWakeupIInv == ASSUME IInv, SpuriousWakeup PROVE IInv'
<1> USE DEF SpuriousWakeup, shared, file, work
<1>1. CASE dpc = "asleep" /\ dpc' = "woken" /\ UNCHANGED wpc
  <2>1. Holding' = Holding /\ Asleep' = Asleep /\ Awake' = Awake
    BY <1>1 DEF Holding, Asleep, Awake
  <2>2. TypeOK'
    BY <1>1 DEF IInv, TypeOK, DispatcherPCs
  <2>3. LockInv'
    <3>1. queue_lock # Dispatcher
      BY <1>1 DEF IInv, LockInv
    <3> QED
      BY <1>1, <3>1 DEF IInv, LockInv
  <2>4. DoneInv'
    <3>1. ~ done
      BY <1>1 DEF IInv, DoneInv
    <3> QED
      BY <1>1, <3>1 DEF DoneInv, NoSleeperAfterDone
  <2>5. Accounting'
    BY <1>1, <2>1, AccountingStable DEF IInv
  <2>6. Waking'
    BY <1>1, <2>1 DEF IInv, Waking, NoLostWakeup, DispatcherNotStranded
  <2> QED
    BY <2>2, <2>3, <2>4, <2>5, <2>6 DEF IInv
<1>2. ASSUME NEW w \in Asleep, WorkerGoes(w, "woken"), UNCHANGED dpc
      PROVE  IInv'
  <2>1. w \in Workers /\ wpc[w] = "asleep" /\ w \notin Awake
        /\ Awake \in SUBSET Workers
    BY DEF Asleep, Awake
  <2>2. /\ wpc' \in [Workers -> WorkerPCs] /\ wpc'[w] = "woken"
        /\ \A v \in Workers : v # w => wpc'[v] = wpc[v]
        /\ Holding' = Holding /\ Asleep' = Asleep \ {w}
        /\ Awake' = Awake \cup {w}
    BY <1>2, <2>1, WorkerGoesSets DEF IInv, WorkerPCs, Busy, Holding
  <2>3. TypeOK'
    BY <1>2, <2>2 DEF IInv, TypeOK
  <2>4. LockInv'
    BY <1>2, <2>1, <2>2, WorkerLockInv DEF IInv, Critical
  <2>5. DoneInv'
    BY <1>2, <2>2 DEF IInv, DoneInv, NoSleeperAfterDone
  <2>6. Accounting'
    BY <2>1, <2>2, AccountingStable DEF IInv
  <2>7. Waking'
    <3>1. /\ Cardinality(Awake') = Cardinality(Awake) + 1
          /\ Cardinality(Awake) \in Nat
      BY <2>1, <2>2, WorkerSetsFinite, WorkerSetsSize
    <3>2. Len(queue) \in Nat /\ Len(queue) <= Cardinality(Awake)
      BY DEF IInv, TypeOK, Waking, NoLostWakeup
    <3> QED
      BY <1>2, <3>1, <3>2 DEF IInv, Waking, NoLostWakeup, DispatcherNotStranded
  <2> QED
    BY <2>3, <2>4, <2>5, <2>6, <2>7 DEF IInv
<1> QED
  BY <1>1, <1>2

LEMMA StutterIInv == ASSUME IInv, UNCHANGED vars PROVE IInv'
<1> USE DEF vars, shared, file, work
<1>1. Holding' = Holding /\ Asleep' = Asleep /\ Awake' = Awake /\ Taken' = Taken
  BY DEF Holding, Asleep, Awake, Taken
<1>2. TypeOK' /\ LockInv'
  BY DEF IInv, TypeOK, LockInv
<1>3. DoneInv'
  BY <1>1 DEF IInv, DoneInv, NoSleeperAfterDone
<1>4. Accounting'
  BY <1>1, AccountingStable DEF IInv
<1>5. Waking'
  BY <1>1 DEF IInv, Waking, NoLostWakeup, DispatcherNotStranded
<1> QED
  BY <1>2, <1>3, <1>4, <1>5 DEF IInv

-----------------------------------------------------------------------------
(* The theorems.                                                           *)

LEMMA NextIInv == IInv /\ [Next]_vars => IInv'
<1> SUFFICES ASSUME IInv, [Next]_vars PROVE IInv'
  OBVIOUS
<1>1. CASE DispatcherStep
  <2>1. DispatcherMoves \/ Enqueue \/ Shutdown
    BY <1>1 DEF DispatcherStep, DispatcherMoves
  <2> QED
    BY <2>1, DispatcherMovesIInv, EnqueueIInv, ShutdownIInv
<1>2. ASSUME NEW w \in Workers, WorkerStep(w) PROVE IInv'
  BY <1>2, LockForJobIInv, WaitForWorkIInv, WorkerExitIInv, TakeJobIInv,
     ProcessJobIInv, LockForDecrementIInv, JobDoneIInv DEF WorkerStep
<1>3. CASE SpuriousWakeup
  BY <1>3, SpuriousWakeupIInv
<1>4. CASE Exited \/ UNCHANGED vars
  BY <1>4, StutterIInv DEF Exited
<1> QED
  BY <1>1, <1>2, <1>3, <1>4 DEF Next

\* The inductive invariant holds in every state of the pool.
THEOREM Invariance == Spec => []IInv
<1>1. Init => IInv
  BY InitIInv
<1>2. IInv /\ [Next]_vars => IInv'
  BY NextIInv
<1> QED
  BY <1>1, <1>2, PTL DEF Spec

\* Type correctness: in particular active_jobs (dispatcher.c:26) never goes
\* below zero, whatever the interleaving of its increments and decrements.
THEOREM TypeCorrect == Spec => []TypeOK
<1>1. IInv => TypeOK
  BY DEF IInv
<1> QED
  BY <1>1, Invariance, PTL

\* active_jobs is exactly the number of jobs queued or held by a worker, and
\* jobs leave the queue in the order of their lines (worker.c:127,
\* dispatcher.c:100-101).
THEOREM JobsAccounted == Spec => [](ActiveJobsExact /\ QueueIsFifo)
<1>1. IInv => ActiveJobsExact /\ QueueIsFifo
  BY DEF IInv, Accounting
<1> QED
  BY <1>1, Invariance, PTL

\* Each job is run by one worker, once (worker.c:127-138).
THEOREM JobsRunOnce == Spec => []NoJobTwice
<1>1. IInv => NoJobTwice
  BY DEF IInv, Accounting
<1> QED
  BY <1>1, Invariance, PTL

\* No job that has left the queue is lost (worker.c:127-138).
THEOREM JobsNotLost == Spec => []NoJobLost
<1>1. IInv => NoJobLost
  BY DEF IInv, Accounting
<1> QED
  BY <1>1, Invariance, PTL

\* No job is left to sleeping workers: one signal per enqueue is enough
\* (dispatcher.c:102).
THEOREM WorkersNotStranded == Spec => []NoLostWakeup
<1>1. IInv => NoLostWakeup
  BY DEF IInv, Waking
<1> QED
  BY <1>1, Invariance, PTL

\* One signal at the last decrement is enough for the dispatcher
\* (worker.c:158).
THEOREM DispatcherIsWoken == Spec => []DispatcherNotStranded
<1>1. IInv => DispatcherNotStranded
  BY DEF IInv, Waking
<1> QED
  BY <1>1, Invariance, PTL

\* One broadcast at the end is enough for the workers (dispatcher.c:166).
THEOREM EverybodyIsToldDone == Spec => []NoSleeperAfterDone
<1>1. IInv => NoSleeperAfterDone
  BY DEF IInv, DoneInv
<1> QED
  BY <1>1, Invariance, PTL

\* A wait loop ends only in WaitReturns and Shutdown, at active_jobs zero.
LEMMA WaitEndsAtZero ==
  ASSUME IInv, [Next]_vars, dpc = "check", dpc' \in {"read", "join"}
  PROVE  active_jobs = 0 /\ (WaitReturns \/ Shutdown)
<1>1. WaitReturns \/ Shutdown
  BY DEF Next, DispatcherStep, WorkerStep, SpuriousWakeup, Exited, vars,
     ReadLine, EndOfFile, LockForEnqueue, Enqueue, LockForWait, WaitForJobs,
     Join, LockForJob, WaitForWork, WorkerExit, TakeJob, ProcessJob,
     LockForDecrement, JobDone, SignalDoneCond
<1>2. active_jobs = 0
  BY <1>1 DEF WaitReturns, Shutdown, IInv, TypeOK
<1> QED
  BY <1>1, <1>2

\* The wait loops of dispatcher_wait and of main are barriers
\* (dispatcher.c:110-113 and 162-164).
THEOREM Barrier == Spec => WaitIsABarrier
<1>1. ASSUME IInv, [Next]_vars, dpc = "check", dpc' \in {"read", "join"}
      PROVE  completed = 1..submitted /\ Holding = {}
  BY <1>1, WaitEndsAtZero, ZeroMeansAllDone
<1> QED
  BY <1>1, Invariance, PTL DEF Spec, WaitIsABarrier

\* The pool implements the ledger of jobs: enqueueing is Ledger!Accept, taking
\* a job Ledger!Start, ProcessJob Ledger!Complete and Shutdown Ledger!Close;
\* every other step leaves the ledger as it is.
THEOREM Refinement == Spec => LedgerSpec
<1>1. Init => Ledger!Init
  <2> SUFFICES ASSUME Init PROVE Ledger!Init
    OBVIOUS
  <2>1. Len(queue) = 0 /\ submitted = 0
    BY DEF Init
  <2>2. Taken = 0
    BY ONLY <2>1 DEF Taken
  <2> QED
    BY <2>1, <2>2 DEF Init, Ledger!Init
<1>2. ASSUME IInv, IInv', [Next]_vars
      PROVE  [Ledger!Next]_(Ledger!ledger)
  <2> USE DEF shared, file, work
  <2>0. /\ queue \in Seq(Nat) /\ Len(queue) \in Nat /\ submitted \in Nat
        /\ Len(queue) <= submitted /\ completed \subseteq 1..Taken
    BY <1>2 DEF IInv, TypeOK, Accounting, QueueIsFifo, NoJobLost
  <2>1. CASE UNCHANGED <<queue, submitted, done, completed>>
    BY <2>1 DEF Ledger!ledger, Taken
  <2>2. CASE Enqueue
    <3>1. ~ done
      BY <1>2, <2>2 DEF Enqueue, IInv, DoneInv
    <3>2. Len(queue') = Len(queue) + 1 /\ submitted' = submitted + 1
      BY <2>0, <2>2, AppendProperties DEF Enqueue
    <3>3. Taken' = Taken
      BY <2>0, <3>2 DEF Taken
    <3> QED
      BY <2>2, <3>1, <3>2, <3>3 DEF Enqueue, Ledger!Next, Ledger!Accept
  <2>3. CASE Shutdown
    <3>1. active_jobs = 0 /\ ~ done
      BY <1>2, <2>3 DEF Shutdown, IInv, TypeOK, DoneInv
    <3>2. completed = 1..submitted
      BY <1>2, <3>1, ZeroMeansAllDone
    <3>3. Taken' = Taken
      BY <2>3 DEF Shutdown, Taken
    <3> QED
      BY <2>3, <3>1, <3>2, <3>3 DEF Shutdown, Ledger!Next, Ledger!Close
  <2>4. ASSUME NEW w \in Workers, TakeJob(w) PROVE Ledger!Next
    <3>1. Len(queue') = Len(queue) - 1 /\ Len(queue) >= 1
      BY <2>0, <2>4, HeadTailProperties DEF TakeJob
    <3>2. Taken < submitted /\ Taken' = Taken + 1
      BY <2>0, <2>4, <3>1 DEF TakeJob, Taken
    <3> QED
      BY <2>4, <3>2 DEF TakeJob, Ledger!Next, Ledger!Start
  <2>5. ASSUME NEW w \in Workers, ProcessJob(w) PROVE Ledger!Next
    <3>1. w \in Holding /\ wpc[w] = "run"
      BY <2>5 DEF ProcessJob, Holding
    <3>2. job[w] \in 1..Taken /\ job[w] \notin completed
      BY <1>2, <3>1 DEF IInv, Accounting, NoJobTwice, NoJobLost
    <3>3. Taken' = Taken
      BY <2>5 DEF ProcessJob, Taken
    <3> QED
      BY <2>5, <3>2, <3>3 DEF ProcessJob, Ledger!Next, Ledger!Complete
  <2>6. CASE DispatcherMoves
    BY <2>1, <2>6 DEF DispatcherMoves, ReadLine, EndOfFile, LockForEnqueue,
       LockForWait, WaitForJobs, WaitReturns, Join
  <2>7. ASSUME NEW w \in Workers,
               LockForJob(w) \/ WaitForWork(w) \/ WorkerExit(w)
               \/ LockForDecrement(w) \/ JobDone(w)
        PROVE  [Ledger!Next]_(Ledger!ledger)
    BY <2>1, <2>7 DEF LockForJob, WaitForWork, WorkerExit, LockForDecrement,
       JobDone
  <2>8. CASE SpuriousWakeup \/ Exited \/ UNCHANGED vars
    BY <2>1, <2>8 DEF SpuriousWakeup, Exited, vars
  <2> QED
    BY <1>2, <2>2, <2>3, <2>4, <2>5, <2>6, <2>7, <2>8
    DEF Next, DispatcherStep, WorkerStep, DispatcherMoves
<1> QED
  BY <1>1, <1>2, Invariance, PTL DEF Spec, LedgerSpec, Ledger!Spec

-----------------------------------------------------------------------------
(* The linked list.                                                        *)

\* The jobs in the queue, those that workers hold, and those they free.
Queued == {queue[i] : i \in 1..Len(queue)}
Held == {job[w] : w \in Holding}
Freed == {freeing[w] : w \in Workers} \ {NULL}

\* A node that a worker is still to free is of a job taken earlier, which no
\* worker holds any more, and no other worker is to free it.
FreeingInv ==
  /\ freeing \in [Workers -> Nat]
  /\ \A w \in Workers : freeing[w] # NULL =>
       /\ wpc[w] = "top" /\ freeing[w] \in 1..Taken /\ freeing[w] \notin Held
       /\ \A v \in Workers : v # w => freeing[v] # freeing[w]

\* Queued jobs are numbered from Taken + 1 on, in order, and held ones up to
\* Taken.
LEMMA JobNumbers ==
  ASSUME IInv
  PROVE  /\ queue \in Seq(Nat) /\ Len(queue) \in Nat
         /\ submitted \in Nat /\ Taken \in Nat /\ submitted = Taken + Len(queue)
         /\ \A i \in 1..Len(queue) : queue[i] = Taken + i
         /\ Queued = Taken + 1 .. submitted
         /\ Held \in SUBSET (1..Taken)
<1>1. /\ queue \in Seq(Nat) /\ Len(queue) \in Nat /\ submitted \in Nat
      /\ Len(queue) <= submitted
      /\ \A i \in 1..Len(queue) : queue[i] = Taken + i
  BY DEF IInv, TypeOK, Accounting, QueueIsFifo
<1>2. Taken \in Nat /\ submitted = Taken + Len(queue)
  BY <1>1 DEF Taken
<1>3. Queued = Taken + 1 .. submitted
  <2>1. ASSUME NEW k \in Taken + 1 .. submitted PROVE k \in Queued
    <3>1. k - Taken \in 1..Len(queue) /\ queue[k - Taken] = k
      BY <1>1, <1>2
    <3> QED
      BY <3>1 DEF Queued
  <2>2. ASSUME NEW i \in 1..Len(queue) PROVE queue[i] \in Taken + 1 .. submitted
    BY <1>1, <1>2
  <2> QED
    BY <2>1, <2>2 DEF Queued
<1>4. Held \in SUBSET (1..Taken)
  BY DEF IInv, Accounting, NoJobLost, Held
<1> QED
  BY <1>1, <1>2, <1>3, <1>4

LEMMA InitList == ListInit => ListHoldsQueue /\ FreeingInv
<1> SUFFICES ASSUME ListInit PROVE ListHoldsQueue /\ FreeingInv
  OBVIOUS
<1>1. Holding = {} /\ queue = <<>> /\ DOMAIN next = {}
  BY DEF ListInit, Init, Holding
<1> QED
  BY <1>1 DEF ListInit, ListHoldsQueue, FreeingInv, NULL

\* A step that moves no job and touches no node.
LEMMA ListStable ==
  ASSUME ListHoldsQueue, UNCHANGED <<queue, job, listVars>>, Holding' = Holding
  PROVE  ListHoldsQueue'
BY DEF ListHoldsQueue, listVars

\* What is to be freed stays so, if its worker stays at the top of its loop.
LEMMA FreeingStable ==
  ASSUME FreeingInv, UNCHANGED freeing, Held' = Held, 1..Taken \subseteq (1..Taken)',
         \A w \in Workers : freeing[w] # NULL /\ wpc[w] = "top" => wpc'[w] = "top"
  PROVE  FreeingInv'
BY DEF FreeingInv

LEMMA ElseList ==
  ASSUME IInv, ListHoldsQueue, FreeingInv, ListElse
  PROVE  ListHoldsQueue' /\ FreeingInv'
<1> USE DEF shared, file, work
<1>1. UNCHANGED <<queue, submitted, job>>
  BY DEF ListElse, ReadLine, EndOfFile, LockForEnqueue, LockForWait, WaitForJobs,
         WaitReturns, Shutdown, Join, WaitForWork, WorkerExit,
         ProcessJob, LockForDecrement, SpuriousWakeup, Exited, vars
<1>2. Holding' = Holding
  <2>1. CASE UNCHANGED wpc
    BY <2>1 DEF Holding
  <2>2. ASSUME NEW w \in Workers,
               \/ WaitForWork(w) \/ WorkerExit(w)
               \/ ProcessJob(w) \/ LockForDecrement(w)
               \/ w \in Asleep /\ WorkerGoes(w, "woken")
        PROVE  Holding' = Holding
    BY <2>2, WorkerGoesSets
       DEF IInv, WaitForWork, WorkerExit, ProcessJob, LockForDecrement,
           WorkerPCs, Busy, Holding, Asleep
  <2>3. CASE Shutdown
    BY <2>3 DEF Shutdown, BroadcastQueueCond, IInv, TypeOK, Holding, Asleep
  <2>4. Asleep \in SUBSET Workers
    BY DEF Asleep
  <2> QED
    BY <2>1, <2>2, <2>3, <2>4
       DEF ListElse, ReadLine, EndOfFile, LockForEnqueue, LockForWait, WaitForJobs,
           WaitReturns, Join, SpuriousWakeup, Exited, vars
<1>3. UNCHANGED listVars
  BY DEF ListElse
<1>4. \A w \in Workers : wpc[w] = "top" => wpc'[w] = "top"
  <2>1. wpc = [w \in Workers |-> wpc[w]]
    BY DEF IInv, TypeOK
  <2>2. ASSUME NEW w \in Workers,
               WaitForWork(w) \/ WorkerExit(w) \/ ProcessJob(w) \/ LockForDecrement(w)
        PROVE  wpc[w] # "top" /\ \E p : WorkerGoes(w, p)
    BY <2>2 DEF WaitForWork, WorkerExit, ProcessJob, LockForDecrement
  <2>3. ASSUME NEW w \in Workers,
               WaitForWork(w) \/ WorkerExit(w) \/ ProcessJob(w) \/ LockForDecrement(w)
        PROVE  \A v \in Workers : wpc[v] = "top" => wpc'[v] = "top"
    BY <2>1, <2>2, <2>3 DEF WorkerGoes
  <2>4. CASE Shutdown
    BY <2>1, <2>4 DEF Shutdown, BroadcastQueueCond, Asleep
  <2>5. CASE SpuriousWakeup
    BY <2>1, <2>5 DEF SpuriousWakeup, WorkerGoes, Asleep
  <2>6. CASE UNCHANGED wpc
    BY <2>6
  <2> QED
    BY <2>3, <2>4, <2>5, <2>6
       DEF ListElse, ReadLine, EndOfFile, LockForEnqueue, LockForWait, WaitForJobs,
           WaitReturns, Join, Exited, vars
<1>5. FreeingInv'
  <2>1. Held' = Held /\ Taken' = Taken
    BY <1>1, <1>2 DEF Held, Taken
  <2> QED
    BY <1>3, <1>4, <2>1, FreeingStable DEF listVars
<1> QED
  BY <1>1, <1>2, <1>3, <1>5, ListStable

\* A worker that takes the lock has nothing to free.
LEMMA LockList ==
  ASSUME IInv, ListHoldsQueue, FreeingInv, NEW w \in Workers, ListLockForJob(w)
  PROVE  ListHoldsQueue' /\ FreeingInv'
<1>1. /\ UNCHANGED <<queue, submitted, job, listVars>> /\ freeing[w] = NULL
      /\ wpc[w] \in {"top", "woken"} /\ \E p \in {"check"} : WorkerGoes(w, p)
  BY DEF ListLockForJob, LockForJob, shared, work
<1>2. Holding' = Holding
  BY <1>1, WorkerGoesSets DEF IInv, WorkerPCs, Busy, Holding
<1>3. Held' = Held /\ Taken' = Taken
  BY <1>1, <1>2 DEF Held, Taken
<1>4. \A v \in Workers : freeing[v] # NULL /\ wpc[v] = "top" => wpc'[v] = "top"
  BY <1>1 DEF WorkerGoes, IInv, TypeOK
<1> QED
  BY <1>1, <1>2, <1>3, <1>4, ListStable, FreeingStable DEF listVars

LEMMA EnqueueList ==
  ASSUME IInv, ListHoldsQueue, FreeingInv, ListEnqueue
  PROVE  ListHoldsQueue' /\ FreeingInv'
<1> DEFINE j == submitted + 1
           n == Len(queue)
<1>1. /\ queue \in Seq(Nat) /\ n \in Nat /\ submitted \in Nat /\ Taken \in Nat
      /\ submitted = Taken + n
      /\ \A i \in 1..n : queue[i] = Taken + i
      /\ Queued = Taken + 1 .. submitted /\ Held \in SUBSET (1..Taken)
  BY JobNumbers
<1>2. /\ queue' \in Seq(Nat) /\ Len(queue') = n + 1 /\ queue' # <<>>
      /\ \A i \in 1..n : queue'[i] = queue[i]
      /\ queue'[n + 1] = j
  <2>1. queue' = Append(queue, j) /\ j \in Nat
    BY <1>1 DEF ListEnqueue, Enqueue
  <2> QED
    BY <1>1, <2>1, AppendProperties
<1>3. Holding' = Holding /\ job' = job
  <2>1. job' = job
    BY DEF ListEnqueue, Enqueue, work
  <2>2. CASE UNCHANGED wpc
    BY <2>1, <2>2 DEF Holding
  <2>3. ASSUME NEW w \in Asleep, WorkerGoes(w, "woken") PROVE Holding' = Holding
    BY <2>3, WorkerGoesSets DEF IInv, WorkerPCs, Busy, Holding, Asleep
  <2> QED
    BY <2>1, <2>2, <2>3 DEF ListEnqueue, Enqueue, SignalQueueCond
<1>4. /\ queue_tail' = j
      /\ queue_head' = IF queue_tail = NULL THEN j ELSE queue_head
      /\ DOMAIN next' = DOMAIN next \cup {j}
      /\ \A k \in DOMAIN next' :
           next'[k] = IF k = j THEN NULL
                      ELSE IF k = queue_tail THEN j ELSE next[k]
  BY DEF ListEnqueue
<1>5. DOMAIN next = Queued \cup Held \cup Freed
  BY DEF ListHoldsQueue, Queued, Held, Freed
<1>6. DOMAIN next' = Queued' \cup Held' \cup Freed'
  <2>1. Held' = Held /\ Freed' = Freed
    BY <1>3 DEF Held, Freed, ListEnqueue
  <2>2. Queued' = Queued \cup {j}
    <3>1. 1..n + 1 = (1..n) \cup {n + 1}
      BY <1>1
    <3>2. Queued' = {queue'[i] : i \in (1..n) \cup {n + 1}}
      BY <1>2, <3>1 DEF Queued
    <3> HIDE DEF n, j
    <3>3. Queued' = {queue'[i] : i \in 1..n} \cup {j}
      BY <1>2, <3>2
    <3>4. {queue'[i] : i \in 1..n} = {queue[i] : i \in 1..n}
      BY <1>2
    <3>5. Queued = {queue[i] : i \in 1..n}
      BY DEF Queued, n
    <3> QED
      BY <3>3, <3>4, <3>5
  <2> QED
    BY <1>4, <1>5, <2>1, <2>2
<1>7. queue_tail' = queue'[Len(queue')] /\ next'[queue_tail'] = NULL
  BY <1>2, <1>4
<1>8. /\ queue_head' = Head(queue')
      /\ \A i \in 1..Len(queue') - 1 : next'[queue'[i]] = queue'[i + 1]
  <2>1. Head(queue') = queue'[1]
    BY <1>2
  <2>2. CASE n = 0
    <3>1. queue = <<>>
      BY <1>1, <2>2
    <3> QED
      BY <1>2, <1>4, <2>1, <2>2, <3>1 DEF ListHoldsQueue
  <2>3. CASE n # 0
    <3>1. /\ queue # <<>> /\ Head(queue) = queue[1]
          /\ queue_head = queue[1] /\ queue_tail = Taken + n
      BY <1>1, <2>3 DEF ListHoldsQueue
    <3>2. queue_tail # NULL
      BY <1>1, <2>3, <3>1 DEF NULL
    <3>3. queue_head' = Head(queue')
      BY <1>1, <1>2, <1>4, <2>1, <2>3, <3>1, <3>2
    <3>4. ASSUME NEW i \in 1..n PROVE next'[queue'[i]] = queue'[i + 1]
      <4>1. queue'[i] = Taken + i /\ Taken + i \in DOMAIN next' /\ Taken + i # j
        BY <1>1, <1>2, <1>4, <1>5
      <4>2. CASE i = n
        BY <1>2, <1>4, <3>1, <4>1, <4>2
      <4>3. CASE i # n
        <5>1. i \in 1..n - 1 /\ i + 1 \in 1..n /\ Taken + i # queue_tail
          BY <1>1, <3>1, <4>3
        <5>2. next[queue[i]] = queue[i + 1] /\ queue[i] = Taken + i
          BY <1>1, <3>1, <5>1 DEF ListHoldsQueue
        <5> QED
          BY <1>2, <1>4, <4>1, <5>1, <5>2
      <4> QED
        BY <4>2, <4>3
    <3>5. Len(queue') - 1 = n
      BY <1>1, <1>2
    <3> QED
      BY <3>3, <3>4, <3>5
  <2> QED
    BY <2>2, <2>3
<1>9. FreeingInv'
  <2>1. Held' = Held /\ UNCHANGED freeing
    BY <1>3 DEF Held, ListEnqueue
  <2>2. Taken' = Taken
    <3>1. submitted' = j /\ j - (n + 1) = submitted - n
      BY <1>1 DEF ListEnqueue, Enqueue
    <3> QED
      BY <1>2, <3>1 DEF Taken
  <2>3. \A w \in Workers : wpc[w] = "top" => wpc'[w] = "top"
    <3>1. wpc' = wpc \/ \E v \in Asleep : WorkerGoes(v, "woken")
      BY DEF ListEnqueue, Enqueue, SignalQueueCond
    <3> QED
      BY <3>1 DEF WorkerGoes, Asleep, IInv, TypeOK
  <2> QED
    BY <2>1, <2>2, <2>3, FreeingStable
<1> QED
  BY <1>2, <1>6, <1>7, <1>8, <1>9 DEF ListHoldsQueue, Queued, Held, Freed

LEMMA DequeueList ==
  ASSUME IInv, ListHoldsQueue, FreeingInv, NEW w \in Workers, ListDequeue(w)
  PROVE  ListHoldsQueue' /\ FreeingInv'
<1> DEFINE n == Len(queue)
<1>1. /\ queue \in Seq(Nat) /\ n \in Nat /\ submitted \in Nat /\ Taken \in Nat
      /\ submitted = Taken + n
      /\ \A i \in 1..n : queue[i] = Taken + i
      /\ Queued = Taken + 1 .. submitted /\ Held \in SUBSET (1..Taken)
  BY JobNumbers
<1>2. TakeJob(w)
  BY DEF ListDequeue
<1>3. /\ queue # <<>> /\ n >= 1 /\ Head(queue) = queue[1]
      /\ queue' \in Seq(Nat) /\ Len(queue') = n - 1
      /\ \A i \in 1..n - 1 : queue'[i] = queue[i + 1]
  <2>1. queue # <<>> /\ queue' = Tail(queue)
    BY <1>2 DEF TakeJob
  <2> QED
    BY <1>1, <2>1, HeadTailProperties
<1>4. /\ Holding' = Holding \cup {w} /\ w \notin Holding
      /\ job'[w] = queue[1] /\ \A v \in Workers : v # w => job'[v] = job[v]
  <2>1. /\ Holding' = Holding \cup {w} /\ w \notin Holding
    BY <1>2, WorkerGoesSets DEF TakeJob, IInv, WorkerPCs, Busy, Holding
  <2> QED
    BY <1>2, <1>3, <2>1 DEF TakeJob, IInv, TypeOK
<1>5. /\ queue_head = queue[1] /\ queue_tail = queue[n]
      /\ next[queue[n]] = NULL
      /\ \A i \in 1..n - 1 : next[queue[i]] = queue[i + 1]
      /\ DOMAIN next = Queued \cup Held \cup Freed
  BY <1>3 DEF ListHoldsQueue, Queued, Held, Freed
<1>6. /\ queue_head' = next[queue_head] /\ next' = next
      /\ queue_tail' = IF queue_head' = NULL THEN NULL ELSE queue_tail
  BY DEF ListDequeue
<1>7. DOMAIN next' = Queued' \cup Held' \cup Freed'
  <2>1. Held' = Held \cup {queue[1]} /\ Freed' = Freed
    BY <1>4 DEF Held, Holding, Freed, ListDequeue
  <2>2. Queued = Queued' \cup {queue[1]}
    <3>1. \A i \in 1..n : i = 1 \/ (i - 1 \in 1..n - 1 /\ i = (i - 1) + 1)
      BY <1>1
    <3>2. \A i \in 1..n - 1 : i + 1 \in 1..n
      BY <1>1
    <3>3. 1 \in 1..n
      BY <1>1, <1>3
    <3>4. Queued' = {queue[i + 1] : i \in 1..n - 1}
      BY <1>3 DEF Queued
    <3> QED
      BY <3>1, <3>2, <3>3, <3>4 DEF Queued
  <2> QED
    BY <1>5, <1>6, <2>1, <2>2
<1>8. FreeingInv'
  <2>1. UNCHANGED <<freeing, submitted>> /\ wpc[w] = "check" /\ WorkerGoes(w, "run")
    BY <1>2 DEF ListDequeue, TakeJob
  <2>2. Held' = Held \cup {Taken + 1} /\ Taken' = Taken + 1
    <3>1. 1 \in 1..n /\ submitted - (n - 1) = (submitted - n) + 1
      BY <1>1, <1>3
    <3>2. queue[1] = Taken + 1
      BY <1>1, <3>1
    <3> QED
      BY <1>3, <1>4, <2>1, <3>1, <3>2 DEF Held, Holding, Taken
  <2>3. \A v \in Workers : wpc[v] = "top" => wpc'[v] = "top"
    BY <2>1 DEF WorkerGoes, IInv, TypeOK
  <2>4. \A k \in 1..Taken : k # Taken + 1 /\ k \in 1..Taken + 1
    BY <1>1
  <2> QED
    BY <2>1, <2>2, <2>3, <2>4 DEF FreeingInv
<1>9. CASE n = 1
  <2>1. queue_head' = NULL /\ queue_tail' = NULL
    BY <1>5, <1>6, <1>9
  <2>2. queue' = <<>>
    BY <1>3, <1>9
  <2> QED
    BY <1>7, <1>8, <2>1, <2>2 DEF ListHoldsQueue, Queued, Held, Freed
<1>10. CASE n # 1
  <2>1. /\ 1 \in 1..n - 1 /\ n - 1 \in 1..n - 1 /\ n \in 1..n /\ 2 \in 1..n
        /\ queue_head' = queue[2] /\ queue[2] = Taken + 2
        /\ Taken + 2 # 0
    <3>1. /\ 1 \in 1..n - 1 /\ n - 1 \in 1..n - 1 /\ n \in 1..n /\ 2 \in 1..n
          /\ 1 + 1 = 2
      BY <1>1, <1>3, <1>10
    <3>2. next[queue[1]] = queue[1 + 1]
      BY <1>5, <3>1
    <3>3. queue[2] = Taken + 2 /\ Taken + 2 # 0
      BY <1>1, <3>1
    <3> QED
      BY <1>5, <1>6, <3>1, <3>2, <3>3
  <2>2. queue' # <<>> /\ Head(queue') = queue'[1] /\ queue'[1] = queue[2]
    <3>1. Len(queue') # 0 /\ 1 + 1 = 2
      BY <1>1, <1>3, <1>10
    <3>2. queue'[1] = queue[1 + 1]
      BY <1>3, <2>1
    <3>3. queue' # <<>> /\ Head(queue') = queue'[1]
      BY <1>3, <3>1
    <3> QED
      BY <3>1, <3>2, <3>3
  <2>3. queue_tail' = queue[n] /\ queue[n] = queue'[Len(queue')]
    BY <1>1, <1>3, <1>5, <1>6, <1>10, <2>1 DEF NULL
  <2>4. ASSUME NEW i \in 1..Len(queue') - 1 PROVE next'[queue'[i]] = queue'[i + 1]
    <3>1. i \in 1..n - 1 /\ i + 1 \in 1..n - 1
      BY <1>1, <1>3, <1>10
    <3> QED
      BY <1>3, <1>5, <1>6, <3>1
  <2> QED
    BY <1>5, <1>6, <1>7, <1>8, <2>1, <2>2, <2>3, <2>4
       DEF ListHoldsQueue, Queued, Held, Freed
<1> QED
  BY <1>9, <1>10

LEMMA JobDoneList ==
  ASSUME IInv, ListHoldsQueue, FreeingInv, NEW w \in Workers, ListJobDone(w)
  PROVE  ListHoldsQueue' /\ FreeingInv'
<1>1. Held \in SUBSET (1..Taken) /\ Taken \in Nat
  BY JobNumbers
<1>2. /\ JobDone(w) /\ freeing' = [freeing EXCEPT ![w] = job[w]]
      /\ UNCHANGED <<queue_head, queue_tail, next>>
  BY DEF ListJobDone
<1>3. /\ Holding' = Holding \ {w} /\ w \in Holding /\ UNCHANGED <<queue, submitted>>
      /\ \A v \in Workers : v # w => job'[v] = job[v] /\ wpc'[v] = wpc[v]
      /\ wpc[w] = "decrement" /\ wpc'[w] = "top"
  <2>1. Holding' = Holding \ {w} /\ w \in Holding
    BY <1>2, WorkerGoesSets DEF JobDone, IInv, WorkerPCs, Busy, Holding
  <2> QED
    BY <1>2, <2>1 DEF JobDone, IInv, TypeOK, WorkerGoes
<1>4. Held' = Held \ {job[w]} /\ Queued' = Queued /\ job[w] \in Held /\ Taken' = Taken
  <2>1. \A u, v \in Holding : job[u] = job[v] => u = v
    BY DEF IInv, Accounting, NoJobTwice
  <2>2. Held' = {job[v] : v \in Holding \ {w}}
    BY <1>3 DEF Held, Holding
  <2>3. w \in Holding
    BY <1>3
  <2>4. job[w] \in Held
    BY <2>3 DEF Held
  <2>5. {job[v] : v \in Holding \ {w}} = {job[v] : v \in Holding} \ {job[w]}
    BY <2>1, <2>3
  <2>6. Held' = Held \ {job[w]}
    BY <2>2, <2>5 DEF Held
  <2>7. Queued' = Queued /\ Taken' = Taken
    BY <1>3 DEF Queued, Taken
  <2> QED
    BY <2>4, <2>6, <2>7
<1>5. job[w] \in 1..Taken /\ job[w] \in Nat /\ job[w] # NULL
  <2>1. job[w] \in 1..Taken
    BY <1>1, <1>4
  <2> QED
    BY <1>1, <2>1 DEF NULL
<1>6. /\ freeing[w] = NULL /\ freeing' \in [Workers -> Nat] /\ freeing'[w] = job[w]
      /\ \A v \in Workers : v # w => freeing'[v] = freeing[v]
  BY <1>2, <1>3, <1>5 DEF FreeingInv
<1>7. FreeingInv'
  <2>1. ASSUME NEW v \in Workers, freeing'[v] # NULL
        PROVE  /\ wpc'[v] = "top" /\ freeing'[v] \in 1..Taken /\ freeing'[v] \notin Held'
               /\ \A u \in Workers : u # v => freeing'[u] # freeing'[v]
    <3>1. CASE v = w
      <4>1. \A u \in Workers : u # w => freeing'[u] # job[w]
        BY <1>4, <1>5, <1>6 DEF FreeingInv
      <4> QED
        BY <1>3, <1>4, <1>5, <1>6, <3>1, <4>1
    <3>2. CASE v # w
      <4>1. /\ wpc[v] = "top" /\ freeing[v] \in 1..Taken /\ freeing[v] \notin Held
            /\ \A u \in Workers : u # v => freeing[u] # freeing[v]
        BY <1>6, <2>1, <3>2 DEF FreeingInv
      <4> QED
        BY <1>3, <1>4, <1>6, <3>2, <4>1
    <3> QED
      BY <3>1, <3>2
  <2> QED
    BY <1>4, <1>6, <2>1 DEF FreeingInv
<1>8. Freed' = Freed \cup {job[w]}
  BY <1>5, <1>6 DEF Freed
<1>9. DOMAIN next' = Queued' \cup Held' \cup Freed'
  BY <1>2, <1>4, <1>8 DEF ListHoldsQueue, Queued, Held, Freed
<1> QED
  BY <1>2, <1>3, <1>7, <1>9 DEF ListHoldsQueue, Queued, Held, Freed

LEMMA FreeList ==
  ASSUME IInv, ListHoldsQueue, FreeingInv, NEW w \in Workers, FreeNode(w)
  PROVE  ListHoldsQueue' /\ FreeingInv'
<1> DEFINE f == freeing[w]
<1>1. /\ queue \in Seq(Nat) /\ Len(queue) \in Nat /\ Taken \in Nat
      /\ submitted \in Nat /\ submitted = Taken + Len(queue)
      /\ \A i \in 1..Len(queue) : queue[i] = Taken + i
      /\ Queued = Taken + 1 .. submitted /\ Held \in SUBSET (1..Taken)
  BY JobNumbers
<1>2. /\ UNCHANGED <<queue, submitted, job, wpc>> /\ f # NULL
      /\ freeing' = [freeing EXCEPT ![w] = NULL]
      /\ UNCHANGED <<queue_head, queue_tail>>
      /\ DOMAIN next' = DOMAIN next \ {f}
      /\ \A k \in DOMAIN next' : next'[k] = next[k]
  BY DEF FreeNode, vars, shared, work
<1>3. /\ f \in 1..Taken /\ f \notin Held
      /\ \A v \in Workers : v # w => freeing[v] # f
  BY <1>2 DEF FreeingInv
<1>4. Held' = Held /\ Queued' = Queued /\ Taken' = Taken
  BY <1>2 DEF Held, Holding, Queued, Taken
<1>5. /\ freeing' \in [Workers -> Nat] /\ freeing'[w] = NULL
      /\ \A v \in Workers : v # w => freeing'[v] = freeing[v]
  BY <1>2 DEF FreeingInv, NULL
<1>6. FreeingInv'
  BY <1>2, <1>4, <1>5 DEF FreeingInv
<1>7. Freed' = Freed \ {f}
  BY <1>3, <1>5 DEF Freed
<1> HIDE DEF f
<1>8. f \notin Queued
  BY <1>1, <1>3
<1>9. DOMAIN next' = Queued' \cup Held' \cup Freed'
  BY <1>2, <1>3, <1>4, <1>7, <1>8 DEF ListHoldsQueue, Queued, Held, Freed
<1>10. \A i \in 1..Len(queue) : queue[i] \in DOMAIN next'
  BY <1>4, <1>9 DEF Queued
<1>11. CASE queue = <<>>
  BY <1>2, <1>6, <1>9, <1>11 DEF ListHoldsQueue, Queued, Held, Freed
<1>12. CASE queue # <<>>
  <2>1. /\ queue_head = Head(queue) /\ queue_tail = queue[Len(queue)]
        /\ next[queue_tail] = NULL
        /\ \A i \in 1..Len(queue) - 1 : next[queue[i]] = queue[i + 1]
    BY <1>12 DEF ListHoldsQueue
  <2>2. Len(queue) \in 1..Len(queue)
    BY <1>1, <1>12
  <2>3. next'[queue_tail'] = NULL
    BY <1>2, <1>10, <2>1, <2>2
  <2>4. \A i \in 1..Len(queue) - 1 : next'[queue[i]] = queue[i + 1]
    <3>1. \A i \in 1..Len(queue) - 1 : i \in 1..Len(queue)
      BY <1>1
    <3> QED
      BY <1>2, <1>10, <2>1, <3>1
  <2> QED
    BY <1>2, <1>6, <1>9, <1>12, <2>1, <2>3, <2>4 DEF ListHoldsQueue, Queued, Held, Freed
<1> QED
  BY <1>11, <1>12

\* Every step of the list is a step of the pool.
LEMMA ListStepIsPoolStep ==
  [ListNext]_<<vars, listVars>> => [Next]_vars
BY DEF ListNext, ListEnqueue, ListDequeue, ListJobDone, FreeNode, ListLockForJob,
       ListElse, Next,
       DispatcherStep, WorkerStep

\* The linked list of queue.c holds the jobs queued, in order; none of its nodes
\* is freed early and none that is done with is left allocated.
THEOREM ListRepresentsQueue == ListSpec => []ListHoldsQueue
<1>1. ListInit => Init /\ IInv /\ FreeingInv /\ ListHoldsQueue
  BY InitIInv, InitList DEF ListInit
<1>2. IInv /\ FreeingInv /\ ListHoldsQueue /\ [ListNext]_<<vars, listVars>>
        => IInv' /\ FreeingInv' /\ ListHoldsQueue'
  <2> SUFFICES ASSUME IInv, FreeingInv, ListHoldsQueue, [ListNext]_<<vars, listVars>>
               PROVE  IInv' /\ FreeingInv' /\ ListHoldsQueue'
    OBVIOUS
  <2>1. IInv'
    BY ListStepIsPoolStep, NextIInv
  <2>2. ASSUME ListNext PROVE ListHoldsQueue' /\ FreeingInv'
    BY <2>2, EnqueueList, DequeueList, JobDoneList, FreeList, LockList, ElseList DEF ListNext
  <2>3. ASSUME UNCHANGED <<vars, listVars>> PROVE ListHoldsQueue' /\ FreeingInv'
    <3>1. UNCHANGED <<queue, submitted, job, wpc, listVars>> /\ Holding' = Holding
      BY <2>3 DEF vars, shared, work, Holding
    <3> QED
      BY <3>1, ListStable DEF FreeingInv, Held, Taken, listVars
  <2> QED
    BY <2>1, <2>2, <2>3
<1> QED
  BY <1>1, <1>2, PTL DEF ListSpec

-----------------------------------------------------------------------------
(* The jobs, step by step.                                                 *)

\* The steps of one worker.
WorkerExec(w) ==
  \/ TakeTimedJob(w) \/ RunOtherCommand(w) \/ ReadCounter(w)
  \/ WriteCounter(w) \/ EndJob(w) \/ ReadStats(w) \/ UpdateStats(w)
  \/ WorkerElse(w)

\* Every step is one of the pool, or leaves the pool alone.
LEMMA StepOfPool == [ExecNext]_allVars => [Next]_vars
<1> SUFFICES ASSUME [ExecNext]_allVars PROVE [Next]_vars
  OBVIOUS
<1>1. CASE UNCHANGED allVars
  BY <1>1 DEF allVars
<1>2. CASE Tick
  BY <1>2 DEF Tick
<1>3. CASE \/ \E line \in {"enqueueLock", "waitLock", "read"} : ReadTimedLine(line)
           \/ EnqueueTimed \/ DispatcherElse
  BY <1>3 DEF ReadTimedLine, EnqueueTimed, DispatcherElse, Next, DispatcherStep
<1>4. ASSUME NEW w \in Workers, WorkerExec(w)
      PROVE  [Next]_vars
  <2>1. CASE TakeTimedJob(w) \/ UpdateStats(w) \/ WorkerElse(w)
    BY <2>1 DEF TakeTimedJob, UpdateStats, WorkerElse, Next, WorkerStep
  <2>2. CASE \/ RunOtherCommand(w) \/ ReadCounter(w) \/ WriteCounter(w)
             \/ EndJob(w) \/ ReadStats(w)
    BY <2>2 DEF RunOtherCommand, ReadCounter, WriteCounter, EndJob, ReadStats
  <2> QED BY <1>4, <2>1, <2>2 DEF WorkerExec
<1>5. CASE SpuriousWakeup \/ Exited
  BY <1>5 DEF Next
<1> QED BY <1>1, <1>2, <1>3, <1>4, <1>5 DEF ExecNext, WorkerExec

\* The jobs move through the pool as WorkerPool says, since the steps are made
\* of its steps: what is proved of WorkerPool holds here.
LEMMA ExecutionIsPool == ExecSpec => Spec
<1>1. ExecInit => Init
  BY DEF ExecInit
<1> QED BY <1>1, StepOfPool, PTL DEF ExecSpec, Spec

-----------------------------------------------------------------------------
(* The counter files.                                                      *)

\* The variables that hold what the workers are at are functions of them.
Functional ==
  /\ commands = [w \in Workers |-> commands[w]]
  /\ step = [w \in Workers |-> step[w]]
  /\ value = [w \in Workers |-> value[w]]
  /\ counter_lock = [c \in Counters |-> counter_lock[c]]
  /\ counter \in [Counters -> Int]

\* A worker in update_counter owns the lock of the one counter its command
\* changes, and what it has read is what the file still holds.
UpdateInv ==
  \A w \in Workers : step[w] = "update" =>
    /\ wpc[w] = "run" /\ commands[w] # <<>>
    /\ \E c \in Counters : /\ Targets(w) = {c}
                           /\ counter_lock[c] = w /\ value[w] = counter[c]

CounterInv == Functional /\ UpdateInv

\* A step runs no command and leaves the counters alone, or it is the end of
\* one command of one worker, which every counter has felt as it should: no
\* update of another worker has been overwritten.
CommandsCount ==
  \/ counter' = counter /\ \A w \in Workers : wpc[w] = "run" => commands'[w] = commands[w]
  \/ \E w \in Workers :
       /\ wpc[w] = "run" /\ commands[w] # <<>>
       /\ commands' = [commands EXCEPT ![w] = Tail(@)]
       /\ \A c \in Counters : counter'[c] = counter[c] + Delta(Head(commands[w]), c)

\* A command changes at most one counter.
LEMMA OneTarget ==
  /\ \A cmd, c : Delta(cmd, c) \in Int
  /\ \A w \in Workers : \A c \in Targets(w) : Targets(w) = {c}
<1>1. \A cmd, c : Delta(cmd, c) \in Int /\ (Delta(cmd, c) # 0 => cmd.arg = c)
  BY DEF Delta
<1> QED BY <1>1 DEF Targets

\* A worker that runs its job goes on running it until process_job is over.
LEMMA RunGoesOn ==
  ASSUME TypeOK, [Next]_vars, NEW w \in Workers, wpc[w] = "run", ~ ProcessJob(w)
  PROVE  wpc'[w] = "run"
<1>1. wpc = [v \in Workers |-> wpc[v]]
  BY DEF TypeOK
<1> USE <1>1 DEF WorkerGoes
<1>2. CASE UNCHANGED vars
  BY <1>2 DEF vars
<1>3. CASE DispatcherStep
  <2>1. wpc' = wpc \/ BroadcastQueueCond \/ \E v \in Asleep : WorkerGoes(v, "woken")
    BY <1>3 DEF DispatcherStep, ReadLine, EndOfFile, LockForEnqueue, Enqueue,
       SignalQueueCond, LockForWait, WaitForJobs, WaitReturns, Shutdown, Join
  <2> QED BY <2>1 DEF BroadcastQueueCond, Asleep
<1>4. ASSUME NEW v \in Workers, WorkerStep(v)
      PROVE  wpc'[w] = "run"
  <2>1. v # w \/ wpc[v] # "run" \/ ProcessJob(v)
    BY <1>4 DEF WorkerStep, LockForJob, WaitForWork, WorkerExit, TakeJob,
       LockForDecrement, JobDone
  <2>2. \E pc : WorkerGoes(v, pc)
    BY <1>4 DEF WorkerStep, LockForJob, WaitForWork, WorkerExit, TakeJob,
       ProcessJob, LockForDecrement, JobDone
  <2>3. v # w
    BY <2>1 DEF WorkerStep
  <2> QED BY <2>2, <2>3
<1>5. CASE SpuriousWakeup
  BY <1>5 DEF SpuriousWakeup, Asleep
<1>6. CASE Exited
  BY <1>6 DEF Exited, vars
<1> QED BY <1>2, <1>3, <1>4, <1>5, <1>6 DEF Next

\* What a worker in update_counter relies on stays, if the step leaves the
\* counters and that worker alone.
LEMMA UpdateStable ==
  ASSUME UpdateInv, UNCHANGED counterVars,
         \A w \in Workers : step'[w] = "update" =>
           /\ step[w] = "update" /\ wpc'[w] = wpc[w]
           /\ commands'[w] = commands[w] /\ value'[w] = value[w]
  PROVE  UpdateInv'
<1> SUFFICES ASSUME NEW w \in Workers, step'[w] = "update"
             PROVE  /\ wpc'[w] = "run" /\ commands'[w] # <<>>
                    /\ \E c \in Counters : /\ Targets(w)' = {c}
                          /\ counter_lock'[c] = w /\ value'[w] = counter'[c]
  BY DEF UpdateInv
<1>1. Targets(w)' = Targets(w)
  BY DEF Targets
<1> QED BY <1>1 DEF UpdateInv, counterVars

\* The steps that are not of a worker in process_job.
LEMMA OthersKeep ==
  ASSUME TypeOK, [Next]_vars, CounterInv,
         UNCHANGED <<runVars, counterVars>>, \A w \in Workers : ~ ProcessJob(w)
  PROVE  CounterInv' /\ CommandsCount
<1>1. Functional'
  BY DEF CounterInv, Functional, runVars, counterVars
<1>2. \A w \in Workers : step[w] = "update" => wpc'[w] = wpc[w]
  BY RunGoesOn DEF CounterInv, UpdateInv
<1>3. UpdateInv'
  BY <1>2, UpdateStable DEF CounterInv, runVars
<1> QED BY <1>1, <1>3 DEF CounterInv, CommandsCount, runVars, counterVars

LEMMA TakeKeeps ==
  ASSUME TypeOK, [Next]_vars, CounterInv, NEW w \in Workers, TakeTimedJob(w)
  PROVE  CounterInv' /\ CommandsCount
<1>1. /\ wpc[w] = "check" /\ UNCHANGED <<step, value, counter, counter_lock>>
      /\ \E x : commands' = [commands EXCEPT ![w] = x]
  BY DEF TakeTimedJob, TakeJob, counterVars
<1>2. /\ commands' = [v \in Workers |-> commands'[v]]
      /\ \A v \in Workers \ {w} : commands'[v] = commands[v]
  BY <1>1 DEF CounterInv, Functional
<1>3. Functional'
  BY <1>1, <1>2 DEF CounterInv, Functional
<1>4. \A v \in Workers : step[v] = "update" => wpc[v] = "run" /\ v # w
  BY <1>1 DEF CounterInv, UpdateInv
<1>5. \A v \in Workers : step[v] = "update" => wpc'[v] = wpc[v]
  BY <1>4 DEF TakeTimedJob, TakeJob, WorkerGoes, TypeOK
<1>6. UpdateInv'
  BY <1>1, <1>2, <1>4, <1>5, UpdateStable DEF CounterInv, counterVars
<1> QED BY <1>1, <1>2, <1>3, <1>6 DEF CounterInv, CommandsCount

LEMMA OtherCommandKeeps ==
  ASSUME CounterInv, NEW w \in Workers, RunOtherCommand(w)
  PROVE  CounterInv' /\ CommandsCount
<1>1. /\ Running(w, "command") /\ commands[w] # <<>> /\ Targets(w) = {}
      /\ commands' = [commands EXCEPT ![w] = Tail(@)]
      /\ UNCHANGED <<wpc, step, value, counter, counter_lock>>
  BY DEF RunOtherCommand, vars, work, counterVars
<1>2. Functional'
  BY <1>1 DEF CounterInv, Functional
<1>3. UpdateInv'
  BY <1>1, UpdateStable DEF CounterInv, Functional, Running, counterVars
<1>4. \A c \in Counters : Delta(Head(commands[w]), c) = 0
  BY <1>1 DEF Targets
<1>5. \A c \in Counters : counter'[c] = counter[c] + Delta(Head(commands[w]), c)
  BY <1>1, <1>4 DEF CounterInv, Functional
<1> QED BY <1>1, <1>2, <1>3, <1>5 DEF CounterInv, CommandsCount, Running

\* A worker takes the lock of a counter that is free.
LEMMA ReadKeeps ==
  ASSUME CounterInv, NEW w \in Workers, ReadCounter(w)
  PROVE  CounterInv' /\ CommandsCount
<1>1. PICK c \in Targets(w) :
        /\ counter_lock[c] = Nobody
        /\ counter_lock' = [counter_lock EXCEPT ![c] = w]
        /\ value' = [value EXCEPT ![w] = counter[c]]
        /\ step' = [step EXCEPT ![w] = "update"]
  BY DEF ReadCounter, Goes
<1>2. /\ Running(w, "command") /\ commands[w] # <<>>
      /\ UNCHANGED <<wpc, commands, counter>>
  BY DEF ReadCounter, vars, work
<1>3. c \in Counters /\ Targets(w) = {c}
  BY OneTarget DEF Targets
<1>4. Functional'
  BY <1>1, <1>2 DEF CounterInv, Functional
<1>5. /\ step'[w] = "update" /\ value'[w] = counter[c] /\ counter_lock'[c] = w
      /\ \A v \in Workers \ {w} : step'[v] = step[v] /\ value'[v] = value[v]
      /\ \A d \in Counters \ {c} : counter_lock'[d] = counter_lock[d]
  BY <1>1, <1>3 DEF CounterInv, Functional
<1>6. Targets(w)' = Targets(w) /\ \A v \in Workers : Targets(v)' = Targets(v)
  BY <1>2 DEF Targets
<1>7. ASSUME NEW v \in Workers, step'[v] = "update"
      PROVE  /\ wpc'[v] = "run" /\ commands'[v] # <<>>
             /\ \E d \in Counters : /\ Targets(v)' = {d}
                    /\ counter_lock'[d] = v /\ value'[v] = counter'[d]
  <2>1. CASE v = w
    BY <2>1, <1>2, <1>3, <1>5, <1>6 DEF Running
  <2>2. CASE v # w
    <3>1. PICK d \in Counters : /\ Targets(v) = {d}
                                /\ counter_lock[d] = v /\ value[v] = counter[d]
      BY <2>2, <1>5, <1>7 DEF CounterInv, UpdateInv
    <3>2. d # c
      BY <3>1, <1>1, ThreadsAssumption
    <3>3. wpc[v] = "run" /\ commands[v] # <<>>
      BY <2>2, <1>5, <1>7 DEF CounterInv, UpdateInv
    <3> QED BY <2>2, <3>1, <3>2, <3>3, <1>2, <1>5, <1>6
  <2> QED BY <2>1, <2>2
<1>8. UpdateInv'
  BY <1>7 DEF UpdateInv
<1> QED BY <1>2, <1>4, <1>8 DEF CounterInv, CommandsCount

\* The file still holds what the worker has read, so what it writes back is
\* one command more than what was there.
LEMMA WriteKeeps ==
  ASSUME CounterInv, NEW w \in Workers, WriteCounter(w)
  PROVE  CounterInv' /\ CommandsCount
<1>1. PICK c \in Targets(w) :
        /\ counter' = [counter EXCEPT ![c] = value[w] + Delta(Head(commands[w]), c)]
        /\ counter_lock' = [counter_lock EXCEPT ![c] = Nobody]
  BY DEF WriteCounter
<1>2. /\ Running(w, "update")
      /\ commands' = [commands EXCEPT ![w] = Tail(@)]
      /\ step' = [step EXCEPT ![w] = "command"]
      /\ UNCHANGED <<wpc, value>>
  BY DEF WriteCounter, Goes, vars, work
<1>3. /\ c \in Counters /\ Targets(w) = {c}
      /\ \A d \in Counters : Delta(Head(commands[w]), d) \in Int
  BY OneTarget DEF Targets
<1>4. counter_lock[c] = w /\ value[w] = counter[c] /\ commands[w] # <<>>
  BY <1>2, <1>3 DEF CounterInv, UpdateInv, Running
<1>5. counter'[c] = counter[c] + Delta(Head(commands[w]), c) /\ counter'[c] \in Int
  BY <1>1, <1>3, <1>4 DEF CounterInv, Functional
<1>6. \A d \in Counters \ {c} : counter'[d] = counter[d] /\ counter_lock'[d] = counter_lock[d]
  BY <1>1 DEF CounterInv, Functional
<1>7. \A d \in Counters \ {c} : Delta(Head(commands[w]), d) = 0
  BY <1>3 DEF Targets
<1>8. \A d \in Counters : counter'[d] = counter[d] + Delta(Head(commands[w]), d)
  BY <1>5, <1>6, <1>7 DEF CounterInv, Functional
<1>9. Functional'
  <2>1. counter' \in [Counters -> Int]
    BY <1>1, <1>3, <1>5 DEF CounterInv, Functional
  <2> QED BY <2>1, <1>1, <1>2 DEF CounterInv, Functional
<1>10. /\ step'[w] = "command"
       /\ \A v \in Workers \ {w} : step'[v] = step[v] /\ commands'[v] = commands[v]
  BY <1>2 DEF CounterInv, Functional
<1>11. \A v \in Workers \ {w} : Targets(v)' = Targets(v)
  BY <1>10 DEF Targets
<1>12. ASSUME NEW v \in Workers, step'[v] = "update"
       PROVE  /\ wpc'[v] = "run" /\ commands'[v] # <<>>
              /\ \E d \in Counters : /\ Targets(v)' = {d}
                     /\ counter_lock'[d] = v /\ value'[v] = counter'[d]
  <2>1. v # w /\ step[v] = "update"
    BY <1>10, <1>12
  <2>2. PICK d \in Counters : /\ Targets(v) = {d}
                              /\ counter_lock[d] = v /\ value[v] = counter[d]
    BY <2>1 DEF CounterInv, UpdateInv
  <2>3. d # c
    BY <2>1, <2>2, <1>4
  <2>4. wpc[v] = "run" /\ commands[v] # <<>>
    BY <2>1 DEF CounterInv, UpdateInv
  <2> QED BY <2>1, <2>2, <2>3, <2>4, <1>2, <1>6, <1>10, <1>11
<1>13. UpdateInv'
  BY <1>12 DEF UpdateInv
<1> QED BY <1>2, <1>4, <1>8, <1>9, <1>13 DEF CounterInv, CommandsCount, Running

\* From the end of process_job to the end of the statistics.
LEMMA EndKeeps ==
  ASSUME TypeOK, CounterInv, NEW w \in Workers,
         EndJob(w) \/ ReadStats(w) \/ UpdateStats(w)
  PROVE  CounterInv' /\ CommandsCount
<1>1. /\ step[w] \in {"command", "turnaround", "stats"}
      /\ UNCHANGED <<commands, counter, counter_lock>>
      /\ \E s \in {"turnaround", "stats", "command"} : step' = [step EXCEPT ![w] = s]
      /\ value' = value \/ \E x : value' = [value EXCEPT ![w] = x]
  BY DEF EndJob, ReadStats, UpdateStats, Running, Goes, counterVars
<1>2. wpc' = wpc \/ \E pc : wpc' = [wpc EXCEPT ![w] = pc]
  BY DEF EndJob, ReadStats, UpdateStats, ProcessJob, WorkerGoes, vars, work
<1>3. /\ step'[w] # "update"
      /\ \A v \in Workers \ {w} : /\ step'[v] = step[v] /\ value'[v] = value[v]
                                  /\ wpc'[v] = wpc[v]
  BY <1>1, <1>2 DEF CounterInv, Functional, TypeOK
<1>4. Functional'
  BY <1>1 DEF CounterInv, Functional
<1>5. UpdateInv'
  BY <1>1, <1>3, UpdateStable DEF CounterInv, counterVars
<1> QED BY <1>1, <1>4, <1>5 DEF CounterInv, CommandsCount

LEMMA ExecKeeps ==
  ASSUME TypeOK, CounterInv, [ExecNext]_allVars
  PROVE  CounterInv' /\ (CommandsCount \/ UNCHANGED allVars)
<1>1. [Next]_vars
  BY StepOfPool
<1>2. CASE UNCHANGED allVars
  <2>1. UNCHANGED <<wpc, runVars, counterVars>>
    BY <1>2 DEF allVars, execVars, vars, work
  <2>2. UpdateInv'
    BY <2>1, UpdateStable DEF CounterInv, runVars
  <2> QED BY <1>2, <2>1, <2>2 DEF CounterInv, Functional, runVars, counterVars
<1>3. CASE \/ Tick \/ EnqueueTimed \/ DispatcherElse
           \/ \E line \in {"enqueueLock", "waitLock", "read"} : ReadTimedLine(line)
           \/ SpuriousWakeup /\ UNCHANGED execVars
           \/ Exited /\ UNCHANGED execVars
  <2>1. UNCHANGED <<runVars, counterVars>>
    BY <1>3 DEF Tick, EnqueueTimed, DispatcherElse, ReadTimedLine, execVars
  <2>2. \A w \in Workers : ~ ProcessJob(w)
    <3>1. wpc' = wpc \/ BroadcastQueueCond \/ \E v \in Asleep : WorkerGoes(v, "woken")
      BY <1>3 DEF Tick, EnqueueTimed, DispatcherElse, ReadTimedLine, ReadLine,
         EndOfFile, LockForEnqueue, Enqueue, SignalQueueCond, LockForWait,
         WaitForJobs, WaitReturns, Shutdown, Join, SpuriousWakeup, Exited, vars, work
    <3>2. wpc = [v \in Workers |-> wpc[v]]
      BY DEF TypeOK
    <3> QED BY <3>1, <3>2 DEF BroadcastQueueCond, Asleep, WorkerGoes, ProcessJob
  <2> QED BY <1>1, <2>1, <2>2, OthersKeep
<1>4. ASSUME NEW w \in Workers, WorkerExec(w)
      PROVE  CounterInv' /\ CommandsCount
  <2>1. CASE TakeTimedJob(w)
    BY <2>1, <1>1, TakeKeeps
  <2>2. CASE RunOtherCommand(w)
    BY <2>2, OtherCommandKeeps
  <2>3. CASE ReadCounter(w)
    BY <2>3, ReadKeeps
  <2>4. CASE WriteCounter(w)
    BY <2>4, WriteKeeps
  <2>5. CASE EndJob(w) \/ ReadStats(w) \/ UpdateStats(w)
    BY <2>5, EndKeeps
  <2>6. CASE WorkerElse(w)
    <3>1. UNCHANGED <<runVars, counterVars>>
      BY <2>6 DEF WorkerElse, execVars
    <3>2. wpc[w] # "run" /\ \E pc : WorkerGoes(w, pc)
      BY <2>6 DEF WorkerElse, LockForJob, WaitForWork, WorkerExit,
         LockForDecrement, JobDone
    <3>3. wpc = [v \in Workers |-> wpc[v]]
      BY DEF TypeOK
    <3>4. \A v \in Workers : ~ ProcessJob(v)
      BY <3>2, <3>3 DEF ProcessJob, WorkerGoes
    <3> QED BY <1>1, <3>1, <3>4, OthersKeep
  <2> QED BY <1>4, <2>1, <2>2, <2>3, <2>4, <2>5, <2>6 DEF WorkerExec
<1> QED BY <1>2, <1>3, <1>4 DEF ExecNext, WorkerExec

LEMMA InitCounterInv == ExecInit => CounterInv
BY DEF ExecInit, CounterInv, Functional, UpdateInv

\* Each command that a job runs changes the counter files by what it asks for,
\* however the updates of the workers interleave.
THEOREM NoUpdateLost == ExecSpec => [][CommandsCount]_allVars
<1>1. ExecSpec => []TypeOK
  BY ExecutionIsPool, TypeCorrect
<1>2. TypeOK /\ CounterInv /\ [ExecNext]_allVars => CounterInv'
  BY ExecKeeps
<1>3. TypeOK /\ CounterInv /\ [ExecNext]_allVars => [CommandsCount]_allVars
  BY ExecKeeps
<1> QED BY <1>1, <1>2, <1>3, InitCounterInv, PTL DEF ExecSpec

-----------------------------------------------------------------------------
(* The statistics.                                                         *)

\* The clock and what was read from it are times; nothing says that they grow.
TimeInv ==
  /\ clock \in Nat /\ read_time \in Nat
  /\ enqueued \in Seq([read : Nat, submit_time : Nat]) /\ Len(enqueued) = submitted

\* A worker that is past process_job holds a turnaround, below 0 if the clock
\* was set back, and one that has read the statistics owns stats_lock: what it
\* has read is what they still are.
TurnaroundInv ==
  /\ step = [w \in Workers |-> step[w]]
  /\ value = [w \in Workers |-> value[w]]
  /\ seen = [w \in Workers |-> seen[w]]
  /\ \A w \in Workers : step[w] \in {"turnaround", "stats"} => value[w] \in Int
  /\ \A w \in Workers : step[w] = "stats" => stats_lock = w /\ seen[w] = stats

\* The statistics of the turnarounds recorded so far.  stats_max starts from
\* 0, and no turnaround below 0 replaces it.
Recorded ==
  /\ IsFiniteSet(completed)
  /\ turnaround \in [completed -> Int]
  /\ stats \in [count : Nat, sum : Int, min : Int, max : Int]
  /\ stats.count = Cardinality(completed)
  /\ stats.sum = SumFunctionOnSet(turnaround, completed)
  /\ completed # {} => \E j \in completed : stats.min = turnaround[j]
  /\ stats.max = 0 \/ \E j \in completed : stats.max = turnaround[j]
  /\ 0 <= stats.max
  /\ \A j \in completed : stats.min <= turnaround[j] /\ turnaround[j] <= stats.max

StatsInv == TimeInv /\ TurnaroundInv /\ Recorded

\* The statistics say what StatsExact says.
LEMMA RecordedIsExact == Recorded => StatsExact
<1> SUFFICES ASSUME Recorded PROVE StatsExact
  OBVIOUS
<1> DEFINE times == {turnaround[j] : j \in completed}
<1>1. times \subseteq Int /\ stats.min \in Int /\ stats.max \in Int
  BY DEF Recorded
<1>2. ASSUME completed # {} PROVE stats.min = Min(times)
  <2>1. stats.min \in times /\ \A t \in times : stats.min <= t
    BY <1>2 DEF Recorded
  <2>2. \A x \in times : (\A t \in times : x <= t) => x = stats.min
    BY <1>1, <2>1
  <2> HIDE DEF times
  <2> QED BY <2>1, <2>2 DEF Min
<1>3. stats.max = Max(times \cup {0})
  <2>1. stats.max \in times \cup {0} /\ \A t \in times \cup {0} : stats.max >= t
    BY <1>1 DEF Recorded
  <2>2. \A x \in times \cup {0} : (\A t \in times \cup {0} : x >= t) => x = stats.max
    BY <1>1, <2>1
  <2> HIDE DEF times
  <2> QED BY <2>1, <2>2 DEF Max
<1> QED BY <1>2, <1>3 DEF Recorded, StatsExact

\* One more turnaround is recorded, once.
LEMMA RecordOne ==
  ASSUME Recorded, NEW w \in Workers, UpdateStats(w), seen[w] = stats,
         value[w] \in Int, job[w] \notin completed
  PROVE  Recorded'
<1> DEFINE k == job[w]
           t == value[w]
           all == completed \cup {k}
<1>1. completed' = all /\ stats' = Added(stats, t)
  BY DEF UpdateStats, ProcessJob
<1>2. turnaround' \in [all -> Int] /\ turnaround'[k] = t
      /\ \A j \in completed : turnaround'[j] = turnaround[j]
  BY DEF UpdateStats, Recorded
<1> HIDE DEF k, t, all
<1>3. t \in Int /\ k \notin completed /\ all = completed \cup {k}
  BY DEF k, t, all
<1>4. IsFiniteSet(all) /\ Cardinality(all) = Cardinality(completed) + 1
  BY <1>3, FS_AddElement DEF Recorded
<1>5. SumFunctionOnSet(turnaround', all) = stats.sum + t
  <2> DEFINE f == turnaround
             g == turnaround'
  <2>1. (\A j \in completed : f[j] \in Int /\ g[j] = f[j]) /\ g[k] = t
    BY <1>2 DEF Recorded
  <2>2. IsFiniteSet(completed) /\ \A j \in completed \cup {k} : g[j] \in Int
    BY <1>3, <2>1 DEF Recorded
  <2> HIDE DEF f, g
  <2>3. SumFunctionOnSet(g, completed) = SumFunctionOnSet(f, completed)
    BY <2>1, <2>2, SumAgree
  <2>4. SumFunctionOnSet(g, completed \cup {k}) = g[k] + SumFunctionOnSet(g, completed)
    BY <1>3, <2>2, SumInsert
  <2>5. SumFunctionOnSet(f, completed) = stats.sum /\ stats.sum \in Int
    BY DEF Recorded, f
  <2> QED BY <1>3, <2>1, <2>3, <2>4, <2>5 DEF g
<1>6. /\ stats'.count = stats.count + 1 /\ stats'.sum = stats.sum + t
      /\ stats'.min = IF stats.count = 0 \/ t < stats.min THEN t ELSE stats.min
      /\ stats'.max = IF t > stats.max THEN t ELSE stats.max
  BY <1>1 DEF Added
<1>7. /\ stats.count \in Nat /\ stats.sum \in Int /\ stats.min \in Int
      /\ stats.max \in Int
  BY DEF Recorded
<1>8. stats' \in [count : Nat, sum : Int, min : Int, max : Int]
  <2>1. /\ stats.count + 1 \in Nat /\ stats.sum + t \in Int
        /\ (IF stats.count = 0 \/ t < stats.min THEN t ELSE stats.min) \in Int
        /\ (IF t > stats.max THEN t ELSE stats.max) \in Int
    BY <1>3, <1>7
  <2> QED BY <1>1, <2>1 DEF Added
<1>9. completed = {} <=> stats.count = 0
  BY FS_EmptySet DEF Recorded
<1>10. \A j \in completed : turnaround[j] \in Int
  BY DEF Recorded
<1>11. /\ \E j \in all : stats'.min = turnaround'[j]
       /\ \A j \in all : stats'.min <= turnaround'[j]
  <2>1. CASE stats.count = 0 \/ t < stats.min
    <3>1. stats'.min = t
      BY <1>6, <2>1
    <3>2. \A j \in completed : t <= turnaround[j]
      BY <1>3, <1>7, <1>9, <1>10, <2>1 DEF Recorded
    <3> QED BY <1>2, <1>3, <3>1, <3>2
  <2>2. CASE ~ (stats.count = 0 \/ t < stats.min)
    <3>1. stats'.min = stats.min /\ stats.min <= t
      BY <1>3, <1>6, <1>7, <2>2
    <3>2. \E j \in completed : stats.min = turnaround[j]
      BY <1>9, <2>2 DEF Recorded
    <3>3. \A j \in completed : stats.min <= turnaround[j]
      BY DEF Recorded
    <3> QED BY <1>2, <1>3, <3>1, <3>2, <3>3
  <2> QED BY <2>1, <2>2
<1>12. /\ stats'.max = 0 \/ \E j \in all : stats'.max = turnaround'[j]
       /\ 0 <= stats'.max /\ \A j \in all : turnaround'[j] <= stats'.max
  <2>1. CASE t > stats.max
    <3>1. stats'.max = t
      BY <1>6, <2>1
    <3>2. 0 <= t /\ \A j \in completed : turnaround[j] <= t
      BY <1>3, <1>7, <1>10, <2>1 DEF Recorded
    <3> QED BY <1>2, <1>3, <3>1, <3>2
  <2>2. CASE ~ (t > stats.max)
    <3>1. stats'.max = stats.max /\ t <= stats.max
      BY <1>3, <1>6, <1>7, <2>2
    <3>2. stats.max = 0 \/ \E j \in completed : stats.max = turnaround[j]
      BY DEF Recorded
    <3>3. 0 <= stats.max /\ \A j \in completed : turnaround[j] <= stats.max
      BY DEF Recorded
    <3> QED BY <1>2, <1>3, <3>1, <3>2, <3>3
  <2> QED BY <2>1, <2>2
<1>13. stats'.count = Cardinality(completed')
  BY <1>1, <1>4, <1>6 DEF Recorded
<1>14. all # {}
  BY <1>3
<1> QED BY <1>1, <1>2, <1>4, <1>5, <1>6, <1>8, <1>11, <1>12, <1>13, <1>14 DEF Recorded

\* What enqueued holds, as numbers.
LEMMA SubmitTimes ==
  ASSUME TimeInv
  PROVE  \A j \in 1..submitted : enqueued[j].submit_time \in Nat
<1> DEFINE Entry == [read : Nat, submit_time : Nat]
<1>1. \A e \in Entry : e.submit_time \in Nat
  OBVIOUS
<1>2. enqueued \in Seq(Entry) /\ Len(enqueued) = submitted
  BY DEF TimeInv
<1> HIDE DEF Entry
<1>3. \A j \in 1..submitted : enqueued[j] \in Entry
  BY <1>2
<1> QED BY <1>1, <1>3

\* The clock and the lines: only the dispatcher adds to what was submitted, and
\* an enqueue adds a submit_time for it.
LEMMA TimeKeeps ==
  ASSUME TypeOK, TimeInv, [ExecNext]_allVars
  PROVE  TimeInv'
<1>1. CASE UNCHANGED <<clock, read_time, enqueued, submitted>>
  BY <1>1 DEF TimeInv
<1>2. CASE Tick
  <2>1. clock' \in Nat /\ UNCHANGED <<read_time, enqueued, submitted>>
    BY <1>2 DEF Tick, vars, shared, lineVars
  <2> QED BY <2>1 DEF TimeInv
<1>3. ASSUME NEW line \in {"enqueueLock", "waitLock", "read"}, ReadTimedLine(line)
      PROVE  TimeInv'
  <2>1. read_time' = clock /\ UNCHANGED <<clock, enqueued, submitted>>
    BY <1>3 DEF ReadTimedLine, ReadLine, shared
  <2> QED BY <2>1 DEF TimeInv
<1>4. CASE EnqueueTimed
  <2> DEFINE e == [read |-> read_time, submit_time |-> clock]
  <2>1. /\ enqueued' = Append(enqueued, e) /\ submitted' = submitted + 1
        /\ UNCHANGED <<clock, read_time>>
    BY <1>4 DEF EnqueueTimed, Enqueue
  <2>2. e \in [read : Nat, submit_time : Nat]
    BY DEF TimeInv
  <2> HIDE DEF e
  <2>3. /\ enqueued' \in Seq([read : Nat, submit_time : Nat])
        /\ Len(enqueued') = submitted'
    BY <2>1, <2>2 DEF TimeInv
  <2> QED BY <2>1, <2>3 DEF TimeInv
<1>5. CASE DispatcherElse
  BY <1>1, <1>5 DEF DispatcherElse, EndOfFile, LockForEnqueue, LockForWait,
     WaitForJobs, WaitReturns, Shutdown, Join, shared, execVars, lineVars
<1>6. ASSUME NEW w \in Workers, WorkerExec(w)
      PROVE  TimeInv'
  <2>1. UNCHANGED <<clock, lineVars>>
    BY <1>6 DEF WorkerExec, TakeTimedJob, RunOtherCommand, ReadCounter,
       WriteCounter, EndJob, ReadStats, UpdateStats, WorkerElse, execVars
  <2>2. submitted' = submitted
    BY <1>6 DEF WorkerExec, TakeTimedJob, RunOtherCommand, ReadCounter,
       WriteCounter, EndJob, ReadStats, UpdateStats, WorkerElse, TakeJob, ProcessJob,
       LockForJob, WaitForWork, WorkerExit, LockForDecrement, JobDone, vars, shared
  <2> QED BY <1>1, <2>1, <2>2 DEF lineVars
<1>7. CASE (SpuriousWakeup \/ Exited) /\ UNCHANGED execVars
  BY <1>1, <1>7 DEF SpuriousWakeup, Exited, vars, shared, execVars, lineVars
<1>8. CASE UNCHANGED allVars
  BY <1>1, <1>8 DEF allVars, vars, shared, execVars, lineVars
<1> QED BY <1>2, <1>3, <1>4, <1>5, <1>6, <1>7, <1>8 DEF ExecNext, WorkerExec

\* Only UpdateStats touches the statistics and completes a job.
LEMMA StatsKeeps ==
  ASSUME TypeOK, NoJobTwice, NoJobLost, QueueIsFifo, StatsInv, [ExecNext]_allVars
  PROVE  TurnaroundInv' /\ Recorded'
<1> DEFINE Same == UNCHANGED <<completed, stats, turnaround>>
           Read == UNCHANGED <<seen, stats, stats_lock>>
<1>1. Same => Recorded'
  BY DEF StatsInv, Recorded
<1>2. UNCHANGED <<step, value>> /\ Read => TurnaroundInv'
  BY DEF StatsInv, TurnaroundInv
<1>3. ASSUME \/ Tick \/ EnqueueTimed \/ DispatcherElse
             \/ \E line \in {"enqueueLock", "waitLock", "read"} : ReadTimedLine(line)
             \/ (SpuriousWakeup \/ Exited) /\ UNCHANGED execVars
             \/ UNCHANGED allVars
      PROVE  Same /\ UNCHANGED <<step, value>> /\ Read
  <2>1. UNCHANGED <<step, value, seen, stats, stats_lock, turnaround>>
    BY <1>3 DEF Tick, EnqueueTimed, DispatcherElse, ReadTimedLine, allVars, execVars,
       runVars, statVars
  <2>2. UNCHANGED completed
    BY <1>3 DEF Tick, EnqueueTimed, DispatcherElse, ReadTimedLine, ReadLine,
       EndOfFile, LockForEnqueue, Enqueue, LockForWait, WaitForJobs, WaitReturns,
       Shutdown, Join, SpuriousWakeup, Exited, allVars, vars, work
  <2> QED BY <2>1, <2>2
<1>4. ASSUME NEW w \in Workers, WorkerExec(w)
      PROVE  TurnaroundInv' /\ Recorded'
  <2>1. CASE TakeTimedJob(w) \/ WorkerElse(w)
    <3>1. Same /\ UNCHANGED <<step, value>> /\ Read
      BY <2>1 DEF TakeTimedJob, WorkerElse, TakeJob, LockForJob, WaitForWork,
         WorkerExit, LockForDecrement, JobDone, work, execVars, runVars, statVars
    <3> QED BY <1>1, <1>2, <3>1
  <2>2. CASE RunOtherCommand(w) \/ ReadCounter(w) \/ WriteCounter(w) \/ EndJob(w)
    <3>1. Same /\ Read
      BY <2>2 DEF RunOtherCommand, ReadCounter, WriteCounter, EndJob, vars, work, statVars
    <3>2. /\ step' = step \/ \E s : step' = [step EXCEPT ![w] = s]
          /\ value' = value \/ \E x : value' = [value EXCEPT ![w] = x]
      BY <2>2 DEF RunOtherCommand, ReadCounter, WriteCounter, EndJob, Goes
    <3>3. /\ step' = [v \in Workers |-> step'[v]] /\ value' = [v \in Workers |-> value'[v]]
          /\ \A v \in Workers \ {w} : step'[v] = step[v] /\ value'[v] = value[v]
      BY <3>2 DEF StatsInv, TurnaroundInv
    <3>4. /\ step'[w] \in {"turnaround", "stats"} => value'[w] \in Int
          /\ step'[w] = "stats" => step[w] = "stats"
      <4>1. CASE RunOtherCommand(w)
        BY <4>1 DEF RunOtherCommand, StatsInv, TurnaroundInv
      <4>2. CASE ReadCounter(w) \/ WriteCounter(w)
        BY <4>2 DEF ReadCounter, WriteCounter, Goes, StatsInv, TurnaroundInv
      <4>3. CASE EndJob(w)
        <5>1. /\ value'[w] = clock - enqueued[job[w]].submit_time /\ wpc[w] = "run"
              /\ step'[w] = "turnaround"
          BY <4>3 DEF EndJob, Running, Goes, StatsInv, TurnaroundInv
        <5>2. job[w] \in 1..Taken
          BY <5>1 DEF NoJobLost, Holding
        <5>3. job[w] \in 1..submitted
          <6>1. Taken = submitted - Len(queue) /\ Len(queue) \in Nat /\ submitted \in Nat
            BY DEF Taken, TypeOK
          <6> QED BY <5>2, <6>1
        <5>4. enqueued[job[w]].submit_time \in Nat /\ clock \in Nat
          BY <5>3, SubmitTimes DEF StatsInv, TimeInv
        <5> QED BY <5>1, <5>4
      <4> QED BY <2>2, <4>1, <4>2, <4>3
    <3>5. TurnaroundInv'
      BY <3>1, <3>3, <3>4 DEF StatsInv, TurnaroundInv
    <3> QED BY <1>1, <3>1, <3>5
  <2>4. CASE ReadStats(w)
    <3>1. /\ Same /\ UNCHANGED value /\ step[w] = "turnaround"
          /\ stats_lock = Nobody /\ stats_lock' = w
          /\ seen' = [seen EXCEPT ![w] = stats] /\ step' = [step EXCEPT ![w] = "stats"]
      BY <2>4 DEF ReadStats, Running, Goes, vars, work
    <3>2. \A v \in Workers : step[v] # "stats"
      BY <3>1, ThreadsAssumption DEF StatsInv, TurnaroundInv
    <3>3. TurnaroundInv'
      BY <3>1, <3>2 DEF StatsInv, TurnaroundInv
    <3> QED BY <1>1, <3>1, <3>3
  <2>3. CASE UpdateStats(w)
    <3>1. /\ step[w] = "stats" /\ wpc[w] = "run"
          /\ step' = [step EXCEPT ![w] = "command"] /\ value' = [value EXCEPT ![w] = 0]
          /\ seen' = [seen EXCEPT ![w] = NoStats]
      BY <2>3 DEF UpdateStats, ProcessJob, Goes
    <3>2. job[w] \notin completed
      BY <3>1 DEF NoJobTwice, Holding
    <3>3. value[w] \in Int /\ seen[w] = stats
      BY <3>1 DEF StatsInv, TurnaroundInv
    <3>4. Recorded'
      BY <2>3, <3>2, <3>3, RecordOne DEF StatsInv
    <3>5. \A v \in Workers \ {w} : step[v] # "stats"
      BY <3>1 DEF StatsInv, TurnaroundInv
    <3>6. TurnaroundInv'
      BY <3>1, <3>5 DEF StatsInv, TurnaroundInv
    <3> QED BY <3>4, <3>6
  <2> QED BY <1>4, <2>1, <2>2, <2>3, <2>4 DEF WorkerExec
<1> QED BY <1>1, <1>2, <1>3, <1>4 DEF ExecNext, WorkerExec

LEMMA InitStatsInv == ExecInit => StatsInv
<1> SUFFICES ASSUME ExecInit PROVE StatsInv
  OBVIOUS
<1>1. TimeInv
  BY DEF ExecInit, Init, TimeInv
<1>2. TurnaroundInv
  BY DEF ExecInit, TurnaroundInv
<1>3. completed = {} /\ turnaround = <<>>
      /\ stats = [count |-> 0, sum |-> 0, min |-> 0, max |-> 0]
  BY DEF ExecInit, Init, NoStats
<1>4. SumFunctionOnSet(turnaround, completed) = 0
  BY <1>3, SumOfNone
<1>5. turnaround \in [completed -> Int]
  BY <1>3
<1>6. Recorded
  BY <1>3, <1>4, <1>5, FS_EmptySet DEF Recorded
<1> QED BY <1>1, <1>2, <1>6 DEF StatsInv

\* The statistics are those of the jobs completed, however the workers
\* interleave and the clock is set: each turnaround is counted once, and no
\* update is lost, though they are read by one step and written by another.
THEOREM StatisticsAreExact == ExecSpec => []StatsExact
<1>1. ExecSpec => [](TypeOK /\ NoJobTwice /\ NoJobLost /\ QueueIsFifo)
  <2>1. Spec => [](TypeOK /\ NoJobTwice /\ NoJobLost /\ QueueIsFifo)
    BY TypeCorrect, JobsRunOnce, JobsNotLost, JobsAccounted, PTL
  <2> QED BY <2>1, ExecutionIsPool, PTL
<1>2. TypeOK /\ NoJobTwice /\ NoJobLost /\ QueueIsFifo /\ StatsInv /\ [ExecNext]_allVars
        => StatsInv'
  BY TimeKeeps, StatsKeeps DEF StatsInv
<1>3. StatsInv => StatsExact
  BY RecordedIsExact DEF StatsInv
<1> QED BY <1>1, <1>2, <1>3, InitStatsInv, PTL DEF ExecSpec

-----------------------------------------------------------------------------
(* The sums in the counter files.                                          *)

Segment == [op : STRING, arg : Int]

\* The commands of every job are a sequence of segments.
LEMMA JobCommands ==
  ASSUME NEW s \in Jobs
  PROVE  Expansion(Commands(s)) \in Seq(Segment)
<1>1. s \in Seq(Segment)
  BY JobsAssumption DEF Segment
<1>2. Commands(s) \in Seq(Segment)
  BY <1>1, CommandsType
<1>3. \A x \in Segment : x.arg \in Int
  BY DEF Segment
<1> QED BY <1>2, <1>3, ExpansionType

\* What the commands a worker still has to run will add to a counter.
Left(c) == [w \in Workers |-> Total(commands[w], c)]

\* What each job that left the queue adds to it.
TakenEffect(c) == [k \in 1..Taken |-> Effect(k, c)]

CommandTyping ==
  /\ script \in Seq(Jobs) /\ Len(script) = submitted
  /\ commands \in [Workers -> Seq(Segment)]
  /\ step = [w \in Workers |-> step[w]]
  /\ \A w \in Workers : commands[w] # <<>> => wpc[w] = "run"
  /\ \A w \in Workers : step[w] \in {"turnaround", "stats"} =>
       commands[w] = <<>> /\ wpc[w] = "run"

\* What is in a counter file and what the workers have still to add to it is
\* what the jobs taken so far add.
Balance ==
  \A c \in Counters :
    counter[c] + SumFunctionOnSet(Left(c), Workers)
      = SumFunctionOnSet(TakenEffect(c), 1..Taken)

EffectInv == CommandTyping /\ Balance

\* The sums of Balance are numbers.
LEMMA BalanceType ==
  ASSUME TypeOK, QueueIsFifo, CommandTyping, NEW c \in Counters
  PROVE  /\ Taken \in Nat /\ Taken <= submitted
         /\ \A w \in Workers : Left(c)[w] \in Int
         /\ \A k \in 1..submitted : Effect(k, c) \in Int
         /\ SumFunctionOnSet(Left(c), Workers) \in Int
         /\ SumFunctionOnSet(TakenEffect(c), 1..Taken) \in Int
<1>1. Taken \in Nat /\ Taken <= submitted
  <2>1. Len(queue) \in Nat /\ submitted \in Nat /\ Len(queue) <= submitted
    BY DEF TypeOK, QueueIsFifo
  <2> QED BY <2>1 DEF Taken
<1>2. \A w \in Workers : Left(c)[w] \in Int
  <2>1. ASSUME NEW w \in Workers PROVE Total(commands[w], c) \in Int
    <3>1. commands[w] \in Seq(Segment)
      BY DEF CommandTyping
    <3> QED BY <3>1, TotalIs
  <2> QED BY <2>1 DEF Left
<1>3. ASSUME NEW k \in 1..submitted PROVE Effect(k, c) \in Int
  <2>1. script[k] \in Jobs
    BY DEF CommandTyping
  <2>2. Expansion(Commands(script[k])) \in Seq(Segment)
    BY <2>1, JobCommands
  <2>3. Total(Expansion(Commands(script[k])), c) \in Int
    BY <2>2, TotalIs
  <2> QED BY <2>3 DEF Effect, Total
<1>4. SumFunctionOnSet(Left(c), Workers) \in Int
  BY <1>2, WorkersAssumption, SumType
<1>5. IsFiniteSet(1..Taken) /\ \A k \in 1..Taken : TakenEffect(c)[k] \in Int
  <2>1. \A k \in 1..Taken : k \in 1..submitted
    BY <1>1 DEF TypeOK
  <2> QED BY <1>1, <1>3, <2>1, FS_Interval DEF TakenEffect
<1>6. SumFunctionOnSet(TakenEffect(c), 1..Taken) \in Int
  BY <1>5, SumType
<1> QED BY <1>1, <1>2, <1>3, <1>4, <1>6

\* The balance stays where nothing is taken and no command ends.
LEMMA BalanceStays ==
  ASSUME Balance, UNCHANGED <<commands, counter>>, Taken' = Taken,
         \A k \in 1..Taken : script'[k] = script[k]
  PROVE  Balance'
<1> SUFFICES ASSUME NEW c \in Counters
             PROVE  counter'[c] + SumFunctionOnSet(Left(c)', Workers)
                      = SumFunctionOnSet(TakenEffect(c)', 1..Taken')
  BY DEF Balance
<1>1. Left(c)' = Left(c)
  BY DEF Left
<1>2. ASSUME NEW k \in 1..Taken PROVE Effect(k, c)' = Effect(k, c)
  BY DEF Effect
<1>3. TakenEffect(c)' = TakenEffect(c)
  BY <1>2 DEF TakenEffect
<1> QED BY <1>1, <1>3 DEF Balance

\* The job a worker takes is the next one, and all of it is left to be run.
LEMMA TakeBalance ==
  ASSUME TypeOK, QueueIsFifo, CounterInv, EffectInv, NEW w \in Workers, TakeTimedJob(w)
  PROVE  EffectInv'
<1> DEFINE k == Taken + 1
           cs == Expansion(Commands(script[k]))
<1>1. /\ wpc[w] = "check" /\ wpc' = [wpc EXCEPT ![w] = "run"]
      /\ queue # <<>> /\ queue' = Tail(queue) /\ job' = [job EXCEPT ![w] = Head(queue)]
      /\ commands' = [commands EXCEPT ![w] = Expansion(Commands(script[job'[w]]))]
      /\ UNCHANGED <<submitted, script, step, counter>>
  BY DEF TakeTimedJob, TakeJob, WorkerGoes, lineVars, counterVars
<1>2. queue \in Seq(Nat) /\ submitted \in Nat /\ Len(queue) >= 1 /\ Len(queue) <= submitted
  BY <1>1 DEF TypeOK, QueueIsFifo
<1>3. job'[w] = k
  <2>1. job'[w] = queue[1]
    BY <1>1, <1>2 DEF TypeOK
  <2>2. 1 \in 1..Len(queue)
    BY <1>2
  <2>3. queue[1] = Taken + 1
    BY <2>2 DEF QueueIsFifo
  <2> QED BY <2>1, <2>3
<1>4. Len(queue') = Len(queue) - 1 /\ Len(queue) \in Nat
  BY <1>1, <1>2
<1>5. Taken' = k /\ k \in 1..submitted /\ Taken \in Nat
  BY <1>1, <1>2, <1>4 DEF Taken
<1>6. script[k] \in Jobs
  BY <1>5 DEF EffectInv, CommandTyping
<1>7. cs \in Seq(Segment)
  BY <1>6, JobCommands
<1>8. commands[w] = <<>>
  BY <1>1 DEF EffectInv, CommandTyping
<1>9. commands' = [commands EXCEPT ![w] = cs]
  BY <1>1, <1>3
<1> HIDE DEF cs, k
<1>10. /\ commands' \in [Workers -> Seq(Segment)] /\ commands'[w] = cs
       /\ \A v \in Workers \ {w} : commands'[v] = commands[v]
  BY <1>7, <1>9 DEF EffectInv, CommandTyping
<1>11. wpc'[w] = "run" /\ \A v \in Workers \ {w} : wpc'[v] = wpc[v]
  BY <1>1 DEF TypeOK
<1>12. step[w] \notin {"turnaround", "stats"}
  BY <1>1 DEF EffectInv, CommandTyping
<1>13. CommandTyping'
  BY <1>1, <1>10, <1>11, <1>12 DEF EffectInv, CommandTyping
<1>14. ASSUME NEW c \in Counters
       PROVE  counter'[c] + SumFunctionOnSet(Left(c)', Workers)
                = SumFunctionOnSet(TakenEffect(c)', 1..Taken')
  <2> DEFINE e == Effect(k, c)
             f == Left(c)
             g == Left(c)'
             h == TakenEffect(c)
             l == TakenEffect(c)'
  <2>1. Total(cs, c) = e
    BY DEF Total, Effect, cs
  <2>2. /\ e \in Int /\ \A v \in Workers : f[v] \in Int
        /\ SumFunctionOnSet(f, Workers) \in Int
        /\ SumFunctionOnSet(h, 1..Taken) \in Int
    BY <1>5, BalanceType DEF EffectInv
  <2>3. f[w] = 0 /\ g[w] = e /\ \A v \in Workers \ {w} : g[v] = f[v]
    <3>1. Total(<<>>, c) = 0
      BY <1>7, TotalIs
    <3> QED BY <1>8, <1>10, <2>1, <3>1 DEF Left
  <2>4. \A j \in 1..submitted : Effect(j, c)' = Effect(j, c)
    BY <1>1 DEF Effect
  <2>5. /\ l = [j \in 1..k |-> Effect(j, c)] /\ h = [j \in 1..Taken |-> Effect(j, c)]
    <3>1. l = [j \in 1..k |-> Effect(j, c)']
      BY <1>5 DEF TakenEffect
    <3>2. \A j \in 1..k : j \in 1..submitted
      BY <1>5 DEF TypeOK
    <3> QED BY <2>4, <3>1, <3>2 DEF TakenEffect
  <2>6. l[k] = e /\ \A j \in 1..Taken : l[j] = h[j] /\ h[j] \in Int
    <3>1. \A j \in 1..Taken : j \in 1..k /\ j \in 1..submitted
      BY <1>5 DEF k, TypeOK
    <3>2. k \in 1..k
      BY <1>5
    <3>3. \A j \in 1..submitted : Effect(j, c) \in Int
      BY BalanceType DEF EffectInv
    <3> QED BY <2>5, <3>1, <3>2, <3>3
  <2> HIDE DEF e, f, g, h, l
  <2>7. SumFunctionOnSet(g, Workers) = SumFunctionOnSet(f, Workers) + (g[w] - f[w])
    BY <2>2, <2>3, WorkersAssumption, SumChange
  <2>8. SumFunctionOnSet(l, 1..k) = e + SumFunctionOnSet(h, 1..Taken)
    <3>1. /\ IsFiniteSet(1..Taken) /\ k \notin 1..Taken /\ (1..Taken) \cup {k} = 1..k
      BY <1>5, IntervalGrows DEF k
    <3>2. SumFunctionOnSet(l, 1..Taken) = SumFunctionOnSet(h, 1..Taken)
      BY <2>6, <3>1, SumAgree
    <3>3. \A j \in (1..Taken) \cup {k} : l[j] \in Int
      BY <2>2, <2>6
    <3>4. SumFunctionOnSet(l, (1..Taken) \cup {k}) = l[k] + SumFunctionOnSet(l, 1..Taken)
      BY <3>1, <3>3, SumInsert
    <3> QED BY <2>6, <3>1, <3>2, <3>4
  <2>9. counter[c] + SumFunctionOnSet(f, Workers) = SumFunctionOnSet(h, 1..Taken)
    BY DEF EffectInv, Balance, f, h
  <2>10. counter'[c] + SumFunctionOnSet(g, Workers) = SumFunctionOnSet(l, 1..k)
    <3>1. counter[c] \in Int
      BY DEF CounterInv, Functional
    <3> QED BY <1>1, <2>2, <2>3, <2>7, <2>8, <2>9, <3>1
  <2> QED BY <1>5, <2>10 DEF g, l
<1> QED BY <1>13, <1>14 DEF EffectInv, Balance

\* A command ends: the counter has what the worker has no longer to add.
LEMMA CommandBalance ==
  ASSUME TypeOK, QueueIsFifo, CounterInv, EffectInv, NEW w \in Workers,
         RunOtherCommand(w) \/ WriteCounter(w),
         \A c \in Counters : counter'[c] = counter[c] + Delta(Head(commands[w]), c)
  PROVE  EffectInv'
<1>1. /\ wpc[w] = "run" /\ step[w] \in {"command", "update"} /\ commands[w] # <<>>
      /\ commands' = [commands EXCEPT ![w] = Tail(@)]
      /\ UNCHANGED <<wpc, queue, submitted, script>>
      /\ step' = step \/ step' = [step EXCEPT ![w] = "command"]
  <2>1. CASE RunOtherCommand(w)
    BY <2>1 DEF RunOtherCommand, Running, vars, shared, lineVars
  <2>2. CASE WriteCounter(w)
    BY <2>2 DEF WriteCounter, Running, Goes, vars, shared, lineVars, CounterInv, UpdateInv
  <2> QED BY <2>1, <2>2
<1>2. commands[w] \in Seq(Segment)
  BY DEF EffectInv, CommandTyping
<1>3. Tail(commands[w]) \in Seq(Segment)
  BY <1>1, <1>2
<1>4. /\ commands' \in [Workers -> Seq(Segment)] /\ commands'[w] = Tail(commands[w])
      /\ \A v \in Workers \ {w} : commands'[v] = commands[v]
  BY <1>1, <1>3 DEF EffectInv, CommandTyping
<1>5. /\ step' = [v \in Workers |-> step'[v]] /\ step'[w] \notin {"turnaround", "stats"}
      /\ \A v \in Workers \ {w} : step'[v] = step[v]
  BY <1>1 DEF EffectInv, CommandTyping
<1>6. CommandTyping'
  BY <1>1, <1>4, <1>5 DEF EffectInv, CommandTyping
<1>7. ASSUME NEW c \in Counters
      PROVE  counter'[c] + SumFunctionOnSet(Left(c)', Workers)
               = SumFunctionOnSet(TakenEffect(c)', 1..Taken')
  <2> DEFINE d == Delta(Head(commands[w]), c)
             f == Left(c)
             g == Left(c)'
             t == SumFunctionOnSet(TakenEffect(c), 1..Taken)
  <2>1. Total(commands[w], c) = d + Total(Tail(commands[w]), c)
    BY <1>1, <1>2, TotalIs
  <2>2. Total(Tail(commands[w]), c) \in Int /\ d \in Int
    BY <1>3, TotalIs, DeltaType
  <2>3. (\A v \in Workers : f[v] \in Int) /\ SumFunctionOnSet(f, Workers) \in Int
    BY BalanceType DEF EffectInv
  <2>4. /\ f[w] = d + Total(Tail(commands[w]), c) /\ g[w] = Total(Tail(commands[w]), c)
        /\ \A v \in Workers \ {w} : g[v] = f[v]
    BY <1>4, <2>1 DEF Left
  <2>5. Taken' = Taken /\ TakenEffect(c)' = TakenEffect(c)
    <3>1. Taken' = Taken
      BY <1>1 DEF Taken
    <3>2. \A k : Effect(k, c)' = Effect(k, c)
      BY <1>1 DEF Effect
    <3> QED BY <3>1, <3>2 DEF TakenEffect
  <2>6. counter[c] + SumFunctionOnSet(f, Workers) = t
    BY DEF EffectInv, Balance
  <2>7. counter'[c] = counter[c] + d /\ counter[c] \in Int
    BY DEF CounterInv, Functional
  <2> HIDE DEF d, f, g, t
  <2>8. SumFunctionOnSet(g, Workers) = SumFunctionOnSet(f, Workers) + (g[w] - f[w])
    <3>1. g[w] \in Int
      BY <2>2, <2>4
    <3> QED BY <2>3, <2>4, <3>1, WorkersAssumption, SumChange
  <2>9. g[w] - f[w] = 0 - d
    BY <2>2, <2>4
  <2>10. counter'[c] + SumFunctionOnSet(g, Workers) = t
    BY <2>2, <2>3, <2>6, <2>7, <2>8, <2>9
  <2> QED BY <2>5, <2>10 DEF g, t
<1> QED BY <1>6, <1>7 DEF EffectInv, Balance

\* Every other step leaves the balance, and what workers have to run, alone.
LEMMA OthersBalance ==
  ASSUME TypeOK, QueueIsFifo, EffectInv, [Next]_vars,
         UNCHANGED <<commands, counter>>, Taken' = Taken,
         \/ script' = script /\ submitted' = submitted
         \/ \E s \in Jobs : script' = Append(script, s) /\ submitted' = submitted + 1,
         step' = [w \in Workers |-> step'[w]],
         \A w \in Workers :
           \/ ~ ProcessJob(w) /\ step'[w] = step[w]
           \/ ~ ProcessJob(w) /\ wpc[w] = "run" /\ commands[w] = <<>>
           \/ step'[w] = "command" /\ commands[w] = <<>>
  PROVE  EffectInv'
<1>1. script' \in Seq(Jobs) /\ Len(script') = submitted'
  <2>1. script \in Seq(Jobs) /\ Len(script) = submitted
    BY DEF EffectInv, CommandTyping
  <2>2. \A s \in Jobs : /\ Append(script, s) \in Seq(Jobs)
                        /\ Len(Append(script, s)) = Len(script) + 1
    BY <2>1
  <2> QED BY <2>1, <2>2
<1>2. \A k \in 1..Taken : script'[k] = script[k]
  <2>1. Taken <= Len(script) /\ Taken \in Int /\ script \in Seq(Jobs)
    <3>1. Len(queue) \in Nat /\ submitted \in Nat /\ Len(queue) <= submitted
      BY DEF TypeOK, QueueIsFifo
    <3>2. Len(script) = submitted /\ script \in Seq(Jobs)
      BY DEF EffectInv, CommandTyping
    <3> QED BY <3>1, <3>2 DEF Taken
  <2>2. ASSUME NEW k \in 1..Taken, NEW s \in Jobs PROVE Append(script, s)[k] = script[k]
    <3>1. k \in 1..Len(script)
      BY <2>1
    <3> QED BY <2>1, <3>1
  <2> QED BY <2>2
<1>3. Balance'
  BY <1>2, BalanceStays DEF EffectInv
<1>4. ASSUME NEW w \in Workers
      PROVE  /\ commands[w] # <<>> => wpc'[w] = "run"
             /\ step'[w] \in {"turnaround", "stats"} => commands[w] = <<>> /\ wpc'[w] = "run"
  <2>1. /\ commands[w] # <<>> => wpc[w] = "run"
        /\ step[w] \in {"turnaround", "stats"} => commands[w] = <<>> /\ wpc[w] = "run"
    BY DEF EffectInv, CommandTyping
  <2>2. ~ ProcessJob(w) /\ wpc[w] = "run" => wpc'[w] = "run"
    BY RunGoesOn
  <2> QED BY <2>1, <2>2
<1>5. CommandTyping'
  BY <1>1, <1>4 DEF EffectInv, CommandTyping
<1> QED BY <1>3, <1>5 DEF EffectInv

LEMMA EffectKeeps ==
  ASSUME TypeOK, QueueIsFifo, CounterInv, EffectInv, [ExecNext]_allVars
  PROVE  EffectInv'
<1>1. [Next]_vars
  BY StepOfPool
<1>2. wpc = [v \in Workers |-> wpc[v]] /\ step = [v \in Workers |-> step[v]]
  BY DEF TypeOK, EffectInv, CommandTyping
<1>3. CASE \/ Tick \/ DispatcherElse
           \/ \E line \in {"enqueueLock", "waitLock", "read"} : ReadTimedLine(line)
           \/ SpuriousWakeup /\ UNCHANGED execVars
           \/ Exited /\ UNCHANGED execVars
           \/ UNCHANGED allVars
  <2>1. UNCHANGED <<commands, counter, script, step>>
    BY <1>3 DEF Tick, DispatcherElse, ReadTimedLine, allVars, execVars, runVars,
       counterVars, lineVars
  <2>2. UNCHANGED <<queue, submitted>>
    BY <1>3 DEF Tick, DispatcherElse, ReadTimedLine, ReadLine, EndOfFile,
       LockForEnqueue, LockForWait, WaitForJobs, WaitReturns, Shutdown, Join,
       SpuriousWakeup, Exited, allVars, vars, shared
  <2>3. \A w \in Workers : ~ ProcessJob(w)
    <3>1. wpc' = wpc \/ BroadcastQueueCond \/ \E v \in Asleep : WorkerGoes(v, "woken")
      BY <1>3 DEF Tick, DispatcherElse, ReadTimedLine, ReadLine, EndOfFile,
         LockForEnqueue, LockForWait, WaitForJobs, WaitReturns, Shutdown, Join,
         SpuriousWakeup, Exited, allVars, vars, work
    <3> QED BY <1>2, <3>1 DEF BroadcastQueueCond, Asleep, WorkerGoes, ProcessJob
  <2>4. Taken' = Taken
    BY <2>2 DEF Taken
  <2> QED BY <1>1, <1>2, <2>1, <2>2, <2>3, <2>4, OthersBalance
<1>4. CASE EnqueueTimed
  <2>1. /\ UNCHANGED <<commands, counter, step>> /\ submitted' = submitted + 1
        /\ \E s \in Jobs : script' = Append(script, s)
        /\ queue' = Append(queue, submitted + 1)
    BY <1>4 DEF EnqueueTimed, Enqueue, runVars, counterVars
  <2>2. \A w \in Workers : ~ ProcessJob(w)
    <3>1. wpc' = wpc \/ \E v \in Asleep : WorkerGoes(v, "woken")
      BY <1>4 DEF EnqueueTimed, Enqueue, SignalQueueCond
    <3> QED BY <1>2, <3>1 DEF Asleep, WorkerGoes, ProcessJob
  <2>3. Taken' = Taken
    <3>1. queue \in Seq(Nat) /\ submitted \in Nat
      BY DEF TypeOK
    <3>2. Len(queue') = Len(queue) + 1 /\ Len(queue) \in Nat
      BY <2>1, <3>1
    <3> QED BY <2>1, <3>1, <3>2 DEF Taken
  <2> QED BY <1>1, <1>2, <2>1, <2>2, <2>3, OthersBalance
<1>5. ASSUME NEW w \in Workers, WorkerExec(w)
      PROVE  EffectInv'
  <2>1. CASE TakeTimedJob(w)
    BY <2>1, TakeBalance
  <2>2. CASE RunOtherCommand(w) \/ WriteCounter(w)
    <3>1. CASE RunOtherCommand(w)
      <4>1. \A c \in Counters : Delta(Head(commands[w]), c) = 0
        BY <3>1 DEF RunOtherCommand, Targets
      <4>2. counter' = counter /\ \A c \in Counters : counter[c] \in Int
        BY <3>1 DEF RunOtherCommand, counterVars, CounterInv, Functional
      <4>3. \A c \in Counters : counter'[c] = counter[c] + Delta(Head(commands[w]), c)
        BY <4>1, <4>2
      <4> QED BY <3>1, <4>3, CommandBalance
    <3>2. CASE WriteCounter(w)
      <4>1. PICK c \in Targets(w) :
              counter' = [counter EXCEPT ![c] = value[w] + Delta(Head(commands[w]), c)]
        BY <3>2 DEF WriteCounter
      <4>2. Targets(w) = {c} /\ c \in Counters /\ value[w] = counter[c]
        BY <3>2, <4>1, OneTarget DEF WriteCounter, Running, CounterInv, UpdateInv, Targets
      <4>3. \A d \in Counters \ {c} : Delta(Head(commands[w]), d) = 0
        BY <4>2 DEF Targets
      <4>4. \A d \in Counters : counter[d] \in Int
        BY DEF CounterInv, Functional
      <4>5. \A d \in Counters : counter'[d] = counter[d] + Delta(Head(commands[w]), d)
        BY <4>1, <4>2, <4>3, <4>4 DEF CounterInv, Functional
      <4> QED BY <3>2, <4>5, CommandBalance
    <3> QED BY <2>2, <3>1, <3>2
  <2>3. CASE ReadCounter(w) \/ EndJob(w) \/ ReadStats(w)
    <3>1. /\ UNCHANGED <<commands, counter, script, queue, submitted, wpc>>
          /\ wpc[w] = "run"
          /\ \/ \E c \in Targets(w) : step' = [step EXCEPT ![w] = "update"]
             \/ commands[w] = <<>> /\ step' = [step EXCEPT ![w] = "turnaround"]
             \/ step[w] = "turnaround" /\ step' = [step EXCEPT ![w] = "stats"]
      BY <2>3 DEF ReadCounter, EndJob, ReadStats, Running, Goes, vars, shared,
         lineVars, counterVars
    <3>2. CASE commands[w] = <<>>
      <4>1. Taken' = Taken
        BY <3>1 DEF Taken
      <4>2. \A v \in Workers : ~ ProcessJob(v)
        BY <1>2, <3>1 DEF ProcessJob, WorkerGoes
      <4>3. step' = [v \in Workers |-> step'[v]]
            /\ \A v \in Workers \ {w} : step'[v] = step[v]
        BY <1>2, <3>1
      <4> QED BY <1>1, <3>1, <3>2, <4>1, <4>2, <4>3, OthersBalance
    <3>3. CASE commands[w] # <<>>
      <4>1. step' = [step EXCEPT ![w] = "update"]
        BY <3>1, <3>3 DEF EffectInv, CommandTyping
      <4>2. step' = [v \in Workers |-> step'[v]] /\ step'[w] = "update"
            /\ \A v \in Workers \ {w} : step'[v] = step[v]
        BY <1>2, <4>1
      <4>3. CommandTyping'
        BY <3>1, <4>2 DEF EffectInv, CommandTyping
      <4>4. Taken' = Taken
        BY <3>1 DEF Taken
      <4>5. Balance'
        BY <3>1, <4>4, BalanceStays DEF EffectInv
      <4> QED BY <4>3, <4>5 DEF EffectInv
    <3> QED BY <3>2, <3>3
  <2>4. CASE UpdateStats(w)
    <3>1. /\ step[w] = "stats" /\ step' = [step EXCEPT ![w] = "command"]
          /\ wpc[w] = "run" /\ wpc' = [wpc EXCEPT ![w] = "finish"]
          /\ UNCHANGED <<commands, counter, script, queue, submitted>>
      BY <2>4 DEF UpdateStats, ProcessJob, WorkerGoes, Goes, shared, lineVars, counterVars
    <3>2. commands[w] = <<>>
      BY <3>1 DEF EffectInv, CommandTyping
    <3>3. Taken' = Taken
      BY <3>1 DEF Taken
    <3>4. step' = [v \in Workers |-> step'[v]] /\ step'[w] = "command"
          /\ \A v \in Workers \ {w} : step'[v] = step[v]
      BY <1>2, <3>1
    <3>5. \A v \in Workers \ {w} : ~ ProcessJob(v)
      BY <1>2, <3>1 DEF ProcessJob, WorkerGoes
    <3> QED BY <1>1, <3>1, <3>2, <3>3, <3>4, <3>5, OthersBalance
  <2>5. CASE WorkerElse(w)
    <3>1. UNCHANGED <<commands, counter, script, step>>
      BY <2>5 DEF WorkerElse, execVars, runVars, counterVars, lineVars
    <3>2. UNCHANGED <<queue, submitted>> /\ wpc[w] # "run" /\ \E pc : WorkerGoes(w, pc)
      BY <2>5 DEF WorkerElse, LockForJob, WaitForWork, WorkerExit, LockForDecrement,
         JobDone, shared
    <3>3. \A v \in Workers : ~ ProcessJob(v)
      BY <1>2, <3>2 DEF ProcessJob, WorkerGoes
    <3>4. Taken' = Taken
      BY <3>2 DEF Taken
    <3> QED BY <1>1, <1>2, <3>1, <3>2, <3>3, <3>4, OthersBalance
  <2> QED BY <1>5, <2>1, <2>2, <2>3, <2>4, <2>5 DEF WorkerExec
<1> QED BY <1>3, <1>4, <1>5 DEF ExecNext, WorkerExec

LEMMA InitEffectInv == ExecInit => EffectInv
<1> SUFFICES ASSUME ExecInit PROVE EffectInv
  OBVIOUS
<1>1. CommandTyping
  BY DEF ExecInit, Init, CommandTyping
<1>2. Taken = 0
  <2>1. submitted = 0 /\ Len(queue) = 0
    BY DEF ExecInit, Init
  <2> QED BY ONLY <2>1 DEF Taken
<1>3. ASSUME NEW c \in Counters
      PROVE  counter[c] + SumFunctionOnSet(Left(c), Workers)
               = SumFunctionOnSet(TakenEffect(c), 1..Taken)
  <2>1. \A w \in Workers : Left(c)[w] = 0
    <3>1. Total(<<>>, c) = 0
      BY <<>> \in Seq(Segment), TotalIs
    <3> QED BY <3>1 DEF ExecInit, Left
  <2>2. SumFunctionOnSet(Left(c), Workers) = 0
    BY <2>1, WorkersAssumption, SumOfZeros
  <2>3. 1..Taken = {}
    BY <1>2
  <2>4. SumFunctionOnSet(TakenEffect(c), 1..Taken) = 0
    BY <2>3, SumOfNone
  <2> QED BY <2>2, <2>4 DEF ExecInit
<1> QED BY <1>1, <1>3 DEF EffectInv, Balance

\* Past a wait there is nothing left to add: no worker holds a job, and every
\* job submitted has been taken.
LEMMA ExactAtWait ==
  ASSUME IInv, CounterInv, EffectInv, active_jobs = 0, NEW c \in Counters
  PROVE  counter[c] = SumFunction([j \in 1..submitted |-> Effect(j, c)])
<1>1. Holding = {} /\ Taken = submitted
  BY ZeroMeansAllDone
<1>2. \A w \in Workers : commands[w] = <<>>
  BY <1>1 DEF Holding, EffectInv, CommandTyping
<1>3. \A w \in Workers : Left(c)[w] = 0
  <2>1. Total(<<>>, c) = 0
    BY <<>> \in Seq(Segment), TotalIs
  <2> QED BY <1>2, <2>1 DEF Left
<1>4. SumFunctionOnSet(Left(c), Workers) = 0
  BY <1>3, WorkersAssumption, SumOfZeros
<1>5. counter[c] \in Int
  BY DEF CounterInv, Functional
<1>6. counter[c] = SumFunctionOnSet(TakenEffect(c), 1..Taken)
  BY <1>4, <1>5 DEF EffectInv, Balance
<1> QED BY <1>1, <1>6 DEF TakenEffect, SumFunction

\* Past a dispatcher_wait, and when main returns, each counter file holds the
\* sum of what the jobs submitted add to it.
THEOREM CountersAreExact == ExecSpec => CountersExact
<1>1. ExecSpec => []IInv
  BY ExecutionIsPool, Invariance, PTL
<1>2. IInv => TypeOK /\ QueueIsFifo
  BY DEF IInv, Accounting
<1>3. TypeOK /\ QueueIsFifo /\ CounterInv /\ EffectInv /\ [ExecNext]_allVars
        => CounterInv' /\ EffectInv'
  BY ExecKeeps, EffectKeeps
<1>4. ASSUME IInv, CounterInv, EffectInv, [ExecNext]_allVars, dpc = "check",
             dpc' \in {"read", "join"}, NEW c \in Counters
      PROVE  counter[c] = SumFunction([j \in 1..submitted |-> Effect(j, c)])
  <2>1. active_jobs = 0
    BY <1>4, StepOfPool, WaitEndsAtZero
  <2> QED BY <1>4, <2>1, ExactAtWait
<1>5. IInv /\ CounterInv /\ EffectInv /\ [ExecNext]_allVars
        => [dpc = "check" /\ dpc' \in {"read", "join"} =>
              \A c \in Counters :
                counter[c] = SumFunction([j \in 1..submitted |-> Effect(j, c)])]_allVars
  BY <1>4
<1> QED BY <1>1, <1>2, <1>3, <1>5, InitCounterInv, InitEffectInv, PTL
        DEF ExecSpec, CountersExact
=============================================================================

# Specifications of studies_OS

TLA+ models of the programs in this repository, the TLC runs that check them
and the theorems TLAPS proves about them. Sources are named relative to `src/`.

The repository holds three programs that do not know of each other:

* **HW2** (`hw2_314619107_206926602/`): a thread pool that runs the jobs of a
  command file (`dispatcher.c`, `worker.c`, `queue.c`);
* **HW3** (`hw3_206926602_314619107/`): a chat server on `select()` and its
  client (`hw3server.c`, `hw3client.c`);
* **HW4** (`hw4/`): the process part of the xv6 kernel with three system calls
  of its own and the program `ps` (`proc.c`, `sysproc.c`, `syscall.c`, `ps.c`,
  `testps.c`).

HW1 has no source in the repository (precompiled headers and editor settings).

## 1. Inventory

### HW2

| part | state | operations | what is hard |
|---|---|---|---|
| dispatcher (`dispatcher.c`) | `active_jobs`, `done`, the position in the file | enqueue a job, `dispatcher_wait`, final wait and shutdown | one signal per job, waits on `done_cond`, broadcast against workers about to sleep |
| queue (`queue.c`) | `queue_head`, `queue_tail` | `enqueue`, `dequeue` | order, empty and one-element lists |
| workers (`worker.c`) | the job in hand | wait, take, process, account, exit | a job taken once; a count kept by two critical sections |
| job interpreter (`process_job`, `run_cmd`) | `cmds`, loop variables | split, `repeat`, counters | 100 commands at most; what `repeat` repeats |
| counter files | one number per file, one lock each | `update_counter` | read-modify-write by several workers |
| statistics | count, sum, min, max | update under `stats_lock` | read-modify-write by several workers, first minimum, a clock that is set |

The parts share memory under `queue_lock` (queue, `active_jobs`, `done`),
`counter_locks` and `stats_lock`, and talk through `queue_cond` (dispatcher to
workers) and `done_cond` (last worker to dispatcher). Correct means: each job
is run exactly once and in the order of the file; `active_jobs` is the number
of jobs queued or in hand; a wait is a barrier; nobody sleeps for ever; the
counters and the statistics are what the jobs add up to.

### HW3

| part | state | operations | what is hard |
|---|---|---|---|
| table `clients` | descriptor, name, buffer of each client | register, swap-remove, find by name | removal inside the loop over the table, the full table, names that are not unique |
| loop of `main` | `read_set`, `i` | select, accept and name, read, end of file | blocking read of the name, a round that must serve every ready client |
| buffering | `buffer`, `buf_len` | split into lines, flush a full buffer | lines that come in pieces or together, lines longer than the buffer |
| `process_message` | none | broadcast, private | who gets a private line; a write to a client that has gone, or that does not read |
| client (`hw3client.c`) | its input line | connect, name, lines, read, `!exit` | the name is a message of its own only if TCP keeps it apart; a write that blocks while the server writes |

Server and clients interact through TCP streams only, which may cut and join
what is written. Correct means: what a client writes after its name is split
into its lines with nothing lost or moved; private lines stay private; every
round serves every client that is ready; the table holds open connections only;
while clients read what they are sent, the lines of all get processed.

### HW4

| part | state | operations | what is hard |
|---|---|---|---|
| `ptable` | `state`, `pid`, `parent`, `killed`, `kstack`, `chan`, `nrswitch` per slot | `allocproc`, `fork`, `exit`, `wait`, `kill` | slots reused, steps outside `ptable.lock`, zombies and orphans |
| scheduler | `c->proc` per CPU | `scheduler`, `sched`, `yield`, `forkret` | a lock taken by one thread and released by another, on several CPUs |
| sleep and wakeup | `chan`, `ticks` | `sleep`, `wakeup`, `sys_sleep` | exchange of one lock for another without missing a wakeup |
| information calls | none | `getNumProc`, `getMaxPid`, `getProcInfo` | each is atomic, a sequence of them is not |
| `ps` | `pids[64]`, counts | search, sort, print | the table changes while it looks |
| `testps` | what each test has been told so far | 36 tests | which of them need the system to themselves |
| system call entry | none | `fetchint`, `argint`, `argptr`, `argstr`, `syscall` | sums that wrap around at 32 bits |
| `growproc`, `sbrk` | `sz`, the pages | grow, shrink | failure paths, a size that is not the memory |

Processes share the table under `ptable.lock`; the timer interrupt of `trap.c`
(not in the repository) preempts them, counts ticks, and makes a killed process
exit. Correct means: a process is on one CPU, exactly while it is RUNNING; no
stack is freed under a CPU; pids are unique; every process has a live parent;
no wakeup is missed; runnable processes run and killed processes exit; `ps`
lists everybody who stays and its array is large enough; the tests pass; the
kernel touches only memory the process has.

## 2. Modules

    JobLedger  <== WorkerPool  <== JobExecution ---- JobScript ---- ProcessJob
                   <== JobQueue

    ProcTree   <== ProcTable  ---- ProcInfo ---- UserPrograms

    UserMemory

    Chat

    FoldLemmas
    PoolProofs, JobScriptProofs, ProcessJobProofs,
    UserMemoryProofs, ProcTableProofs, ProcInfoProofs, ChatProofs

`A <== B` means that B implements A; a line, that the right-hand module uses or
extends the left one. `XProofs` holds the theorems about `X`, PoolProofs those
about WorkerPool, JobQueue and JobExecution; FoldLemmas has the lemmas about
sequences, sums and folds that several of them rest on. The `MC*` modules give
the constants their values for TLC.

**WorkerPool** is HW2 at the grain of its critical sections: taking
`queue_lock` is a step, what is done with it up to the release (or up to
`pthread_cond_wait`, which releases it) is another. `wpc` and `dpc` say where a
thread is; a thread that sleeps on a condition is `"asleep"`, one that was
signalled `"woken"`, and competes for the lock again. A signal moves one
sleeper, whichever; a sleeper may wake with no signal. `ReadLine` reads any of
the three kinds of line that matter; `EndOfFile` may come after any number of
lines, so one run covers every command file up to `MaxLines` lines.

**JobLedger** is what the pool promises: jobs accepted, started in order,
completed once, and the ledger closed only when all are complete.

**JobQueue** adds the linked list of `queue.c` to WorkerPool: `queue_head`,
`queue_tail` and the `next` field of every node that exists, a node being known
by the number of its job. `enqueue` and `dequeue` happen in the critical
sections `Enqueue` and `TakeJob`; the `free` of a node is a step of its own after
`JobDone`, with the lock released, and `freeing` says whose is to come. WorkerPool
keeps the queue as a sequence, and `ListHoldsQueue` is the relation of the two:
`dequeue` finds the list empty exactly when WorkerPool finds the sequence empty,
so its test blocks no step of the pool.

**JobScript** says what a job string means; a command is its first word and its
number. **ProcessJob** is the loops of `process_job`, step by step.

**JobExecution** replaces the single step `ProcessJob` of WorkerPool by the
commands of the job. A counter is read and written back in two steps, under its
lock, and so are the statistics, under `stats_lock`. `get_time_ms` is the time of
day, so the clock may have any value at any step, an earlier one too. Everything
else is the action of WorkerPool with the new variables unchanged.

**ProcTable** is `proc.c` and `sys_sleep` on several CPUs. A critical section
that does not call `sched()` is one step. One that does keeps `ptable.lock`
across the switch, as the code does: the process side (`Yield`, `Exit`,
`WaitSleeps`, `SleepSwitches`) leaves the lock with the CPU, `SwitchBack` is
the return into the scheduler, `SchedulerPick` the choice of the next process,
`Resume` what that process does first. What the code does without the lock is a
step without the lock: the copy of the parent in `fork`, and the return of a
slot after a failure, which keeps its pid. `nrswitch` is kept as zero or not.
The pid a fork would get beyond `MaxPid` counts as a full table.

**ProcTree** is what the table promises to its users: live processes with
distinct numbers, of which some are zombies, each with a parent; children of a
process that exits go to process 1; a zombie is removed once. Which process does
the removing is not visible in it.

The time a process sleeps, and `ticks`, are unsigned: `ticks` wraps around at
`TickRange`, and the time waited is a difference modulo `TickRange`.

**UserPrograms** holds the programs of HW4 that use the information calls: `ps`
and 29 tests of `testps.c`. A program is an operator from the results its calls
have returned so far to its next call; a call of `fork` is answered twice, in
the parent and in the child. `sortPids` is the bubble sort of the source.

**ProcInfo** lets one process run one of these programs on the table of
ProcTable, one step per system call, while the other steps of the table go on;
it adds the size (`sz`, in pages) and the number of open files (`nfd`) of each
slot, which nobody clears when a slot is freed. `crowd` chooses between two
worlds: in a crowd the other processes make any call they like and the program
is `ps` or a test that is to pass whatever they do (`Robust`); without it there
is only init, and the program is one of the tests that need the system to
themselves (`Quiet`). `there` remembers who has been in the table since `ps`
asked for the maximum.

**UserMemory** is the way into the kernel: the arguments of a system call are
fetched from memory that belongs to the process, at addresses it chooses. The
stack pointer, pointers, sizes and numbers are any words; sums wrap around at
`W`. `seen` is the end of what a call has touched. `sbrk` changes the size and
the memory, through the two failures of `growproc`.

**Chat** is the server with its clients. A line is a sequence of units, at
whose borders the model may cut a read; `Reads` returns any prefix of what is
there, up to the space in the buffer. A name that was read together with the
line behind it is `Mangled`, which may happen to be the name of somebody else.
After a read (`"lines"`), and before it if the buffer is full (`"full"`), the
server has a message in hand: `Write` is one `write` of it to one client,
`MessageDone` the return of `process_message`, after which the message leaves the
buffer. A message goes to the clients that are in the table, one after the other;
`dest` is how far that has come. `AcceptFails` is an `accept` that returns -1.
`Without` is the removal that moves the last entry. `EndOfRound` clears
`read_set`, `i` and the history of the round, which the code sets again before it
uses them.

A `write` blocks when its connection is full. On the way to the server a
connection holds `InRoom` units, and a client whose line does not fit stays in
its `write` (`Writing`, `Transmit`), in which it does not read; on the way to the
client it holds `OutRoom` messages, and a server that finds no room waits in
`Write` for the client to read (`Receive`). A client reads whole messages, since
no property asks how they are cut on that way, and a line is one `write` however
long, where `hw3client.c:115` makes several of one that fills its buffer: the same
units follow each other, and a client in the middle of them does not read
either. To a socket whose other end is closed the
server writes at once, and dies if it does so twice (SIGPIPE is not ignored).

Some modules hold, next to an action, a variant of it with a fault (such as
`EnqueueNoSignal` beside `Enqueue`). No specification uses them; each shows
that a property notices a change of the code.

## 3. Runs

| run | instance | states | what it shows |
|---|---|---|---|
| `pool` | 3 workers, up to 3 lines, fair | 57,056 | accounting, order, wakeups, barrier and shutdown of the pool; its list is its queue; it implements JobLedger; the program ends |
| `process_job` | 4 segments of 7 kinds, 3 commands kept | 1,294 | the loops run the meaning of the string and stay in the array |
| `job_execution` | 2 workers, 2 lines, 2 counters, clock of 0 and 1 | 400,580 | no update of the counter files or the statistics is lost |
| `submit_time` | 1 worker, 1 line | violation | finding 1 |
| `proc_table` | 2 CPUs, 3 slots, 2 forks, kills of 0 and 2, sleeps of 1, ticks modulo 2 | 1,489,000 | the table, its processes and its schedulers agree; no tick is missed |
| `proc_orphans` | 1 CPU, 4 slots, 3 forks, kills of 0, 2 and 3 | 1,114,000 | init is told of a zombie it inherits; two forks at once keep apart; the table implements ProcTree |
| `proc_live` | 1 CPU, 3 slots, 2 forks, fair | 24,290 | runnable processes run, killed ones exit |
| `kill_free_slot` | 1 CPU, 2 slots | violation | finding 2 |
| `proc_info` | 1 CPU, 3 slots, 4 pids, `ps` or a test | 1,729,000 | what `ps` finds fits, nobody who stays is missing, parents are older, no test fails |
| `user_memory` | words of 5 bits, kernel from 16, int of 2, entry of 3 | 464 | the kernel stays inside the memory of the process; the size is the memory |
| `chat_safety` | 3 clients (2 of one name), table of 2, buffer of 2 units, 2 lines, connections of 4 units and 1 message | 3,759,000 | framing, addressing, removal, rounds |
| `chat_liveness` | 2 clients, connections of 2 units and 1 message | 372,587 | every line of a client that stays is processed, unless server and client wait for each other for ever |

### Why the bounds are enough

* Pool: three workers let one sleep, one be woken and one hold a job at once;
  with three lines there is a job in front of and behind a `dispatcher_wait`, or
  one for every worker, and lists of no, one, two and three nodes. The proofs
  (section 5) remove both bounds.
* `process_job`: four segments against an array of three reach the truncation;
  the seven kinds include a blank and an empty segment and repeats of -1, 0 and
  2, also nested and last. 100 of the code becomes 3: nothing but the comparison
  with the bound depends on it.
* `job_execution`: two workers suffice for two to race on one counter; the job
  with `repeat` and the one without meet on counter 1, and one of the commands
  names a counter that has no file. Two jobs are one for each worker, and a
  counter or the statistics that lose an update need no third. A clock of two
  values goes forward, stands still and goes back: turnarounds are 1, 0 and -1.
* Process table: three slots are init, a parent and its child, which is what
  orphans and a full table need; a slot is used again once a child is collected,
  or its fork has failed. A zombie that init inherits while it sleeps for
  another child takes four (`proc_orphans`): the process that exits must not be a
  child of init, or init is woken as its parent anyway. Four slots with two CPUs
  are too many states. Two CPUs are what the schedulers need to meet on a
  process. `KillTargets` holds 0, a pid of nobody, and pids that are dead at
  times. It never holds 1: killing init ends in a panic by design
  (`proc.c:242`). A `ticks` of one bit makes the sleep of 1 the longest there is,
  which is what a negative argument asks for; one tick missed is then a whole
  turn of the counter missed.
* `proc_info`: with one CPU the timer still puts any step of any process
  between two calls of a program; the calls are atomic under `ptable.lock`, so a
  second CPU adds no order of theirs. Four pids on three slots are one process
  more than the array would hold. `NumRounds` is 2 for the 10 of
  `test_rapid_fork_exit`: the second round has the slot of the first again.
* `user_memory`: every word of five bits is tried for each pointer, size and
  stack pointer; the kernel begins at half of the words and the sizes are small
  against that, as in the code. The proofs remove the bounds.
* Chat: lines of one, two and three units against a buffer of two are shorter
  than, equal to and longer than the buffer; three clients for a table of two
  reach the full table and the removal of the first of two entries. Room for one
  message makes a server wait in the middle of a broadcast, and room for two
  units makes a client wait in a line of three (`chat_liveness`); in
  `chat_safety` there is room for four, so that reads also find a line whole.

Deadlock is checked in every run but those of Chat, where the server may wait
in `select` for ever or be dead. The pool and `process_job` stutter
explicitly when they have returned. In ProcTable an idle CPU always has its
scan to do.

### Fairness

* Pool: each thread keeps running (weak fairness of its steps). For the steps
  that take `queue_lock` fairness is strong: the lock is free again and again,
  and a default mutex that starves a thread for ever is not what liveness of
  the program is about. A signal still wakes whomever it likes, and spurious
  wakeups are not fair.
* ProcTable: each CPU executes; the timer preempts every process again and
  again (strong fairness of `Yield`, since it is enabled only while
  `ptable.lock` is free) and yet lets it make progress; a scheduler that spins
  for the lock gets it in the end. xv6 spinlocks do not promise that; without
  it a single CPU could keep the lock of all others for ever.
* Chat: the server runs, and so do the clients: one that has connected sends its
  name (`hw3client.c:50`), one whose `write` is no longer blocked goes on with it,
  and one that is in no `write` reads what it is sent. All of that is needed: the
  server reads the name with a blocking `read` (`hw3server.c:159`) and writes with
  a blocking `write` (`hw3server.c:27`), so a client that connects and says
  nothing, or that does not read, stops it for everyone. No client has to type,
  to leave or to stay.

`LinesProcessed` needs one condition more. A client in a `write` does not read
(`hw3client.c:107`), and the server in a `write` to it does not read either: with
both directions full, each waits for the other for ever, with the clients as they
are in the repository. `Jammed` is that state, and the property is about runs
that do not stay in it (`[]<>~Jammed`; a client that leaves ends it). TLC
finds that the jam is reached and that a property without the condition fails;
with it nothing else stops the server.

## 4. Findings

1. `submit_time`: `worker.h:13` says the field is the time "when dispatcher
   read this line". `dispatcher.c:98-99` evaluates `get_time_ms()` after
   `queue_lock` has been taken, so the time the dispatcher waits for the lock
   is in no turnaround. The run shows a job whose `submit_time` is one tick later
   than the time its line was read.
2. `kill_free_slot`: `proc.c:487` says "Kill the process with the given pid".
   The loop compares pids and does not look at the state, so `kill(0)` finds a
   slot that has never been used or has been collected, sets its `killed` and
   returns 0; the same happens with the pid of a failed fork. `allocproc` does
   not clear the flag, and the next process made in the slot exits on its first
   way to user space. The run shows such a process.

## 5. Proofs

`PoolProofs` proves, for any finite set of workers, any `MaxLines` and so
any command file:

| theorem | statement |
|---|---|
| `TypeCorrect` | `Spec => []TypeOK` |
| `JobsAccounted` | `Spec => [](ActiveJobsExact /\ QueueIsFifo)` |
| `JobsRunOnce`, `JobsNotLost` | `NoJobTwice`, `NoJobLost` always hold |
| `WorkersNotStranded`, `DispatcherIsWoken`, `EverybodyIsToldDone` | `NoLostWakeup`, `DispatcherNotStranded`, `NoSleeperAfterDone` always hold |
| `Barrier` | `Spec => WaitIsABarrier` |
| `Refinement` | `Spec => LedgerSpec` |

Assumptions: the workers are a finite set, the dispatcher is not one of them and
`Nobody` is neither (`WorkersAssumption`, `ThreadsAssumption`), and `MaxLines`
is a natural number.

None of these properties is inductive alone. The invariant `IInv` of the module
is a conjunction of five parts:

* `TypeOK`;
* `LockInv`: who is inside a critical section owns `queue_lock`, so two threads
  never are;
* `DoneInv`: `done` is set exactly from the shutdown on, and from then on the
  queue is empty, nobody holds a job and nobody sleeps;
* `Accounting`: `ActiveJobsExact`, `QueueIsFifo`, and which jobs are completed,
  run and held;
* `Waking`: `NoLostWakeup` and `DispatcherNotStranded`.

`LockInv` is what makes a decision taken after a check still true when it is
acted on; `Accounting` is needed by `Waking`, since the dispatcher sleeps on
`active_jobs` and not on the queue; both are needed for `DoneInv`, because the
broadcast empties the set of sleepers only if nobody can join it afterwards.
Lemmas about adding one element to, and taking one from, a finite set carry the
arithmetic of `Cardinality`; lemmas on `Head`, `Tail` and `Append` carry that of
the queue. Each theorem above follows from `Invariance` (`Spec => []IInv`).

It goes on, from the same assumptions, to the pool in detail:

| theorem | statement |
|---|---|
| `ListRepresentsQueue` | `ListSpec => []ListHoldsQueue` |
| `NoUpdateLost` | `ExecSpec => [][CommandsCount]_allVars` |
| `StatisticsAreExact` | `ExecSpec => []StatsExact` |
| `CountersAreExact` | `ExecSpec => CountersExact` |

the last three for any counters, any bound on the clock and any jobs that are
sequences of operations with numbers (`JobsAssumption`).

`ListHoldsQueue` is inductive only together with `IInv`: that the nodes of the
list are distinct, which `enqueue` needs to change one `next` field and no other,
follows from the jobs being numbered in the order of the queue, and that a
worker frees a node outside the list follows from `NoJobTwice` and from
`FreeingInv`: what a worker is about to free is a job that it has run, that no
other worker frees and that is in the queue no more. The lemmas treat
`enqueue`, `dequeue` (with one node and with more) and `free` one by one. The
steps of JobQueue and of JobExecution are steps of WorkerPool by their definition
(with more beside them, or with nothing of the pool changed), so `IInv` holds in
both; that is how these proofs use it, and no result of its own.

`CommandsCount` says of every step that it leaves the counters and the commands
of running workers alone, or that it ends one command of one worker, by whose
`Delta` each counter has changed. `UpdateInv` is the invariant: a worker inside
`update_counter` owns the lock of the only counter its command changes, and
what it has read is still in the file. From that follows `Balance`, the
invariant behind `CountersAreExact`: a counter, and what the commands that
workers have still to run will add to it, is what the jobs taken so far add. A
job taken raises both sides by its effect, a command that ends moves its `Delta`
from one summand on the left to the other. A wait is passed when every job
submitted is complete (`WaitEndsAtZero`), so nobody has anything left to add.

`StatisticsAreExact` has `Recorded` for its invariant, which says of the
minimum and the maximum that they are the turnaround of some job and a bound of
all, and `TurnaroundInv`: a worker between its read of the statistics and its
write has `stats_lock`, and what it has read is still what they are. `stats_max`
starts from 0 with no look at `stats_count` (`worker.c:151`), so `Recorded` lets
it be 0 with no job of that turnaround, and `StatsExact` says the same: if the
clock has been set back and every turnaround is below 0, the maximum in
`stats.txt` is 0.

`ProcessJobProofs` proves, for any segments (sequences of operations with
numbers, `SegmentsAssumption`), any length of the job string and any size of the
array:

| theorem | statement |
|---|---|
| `ReadsOnlyCommands` | `Spec => []TypeOK`: no command behind the last one is read |
| `JobRunsItsExpansion` | `Spec => []RunsTheExpansion` |

Its invariant `LoopInv` has one part for each loop: in the outer one, what has
run is what stands before `i`, with no `repeat` in it; in the inner one, it is
that, `r - 1` whole rounds of the rest, and a part of one round.

`JobScriptProofs` has the lemmas both need: what `Expansion` returns
(`ExpansionIs`), and what rounds of a sequence add to (`RoundsStep`).

`FoldLemmas` has what is not about one program: how a sum over a function
changes with one of its values (`SumRemove`, `SumInsert`, `SumChange`), what a
fold along a sequence is step by step (`FoldExists`), and how parts of a sequence
and flattened sequences fit together. They are by induction over the numbers
and over the subsets of a finite set. The prover takes no operator for an
induction hypothesis, so these two inductions are stated for a set of numbers or
subsets and come from the order of the numbers being well-founded (`Induction`,
`SubsetInduction`).

`UserMemoryProofs` proves, for words of every width and every place of the
kernel and size of an `int` and of an entry that `WordsAssumption` allows
(the kernel begins in the lower half of the words and above four ints and an
entry):

| theorem | statement |
|---|---|
| `MemoryTypeOK` | `Spec => []TypeOK` |
| `SizeIsMappedAlways` | `Spec => []SizeIsMapped` |
| `KernelStaysInsideAlways` | `Spec => KernelStaysInside` |

Its invariant is `TypeOK /\ SizeIsMapped`. That a size stays below `KERNBASE`,
which is half of the words, is what keeps the sums of the checks from wrapping
around: `FetchInside` and `BlockInside` are the two lemmas on `fetchint` and
`argptr`, `GrowKeeps` and `ShrinkKeeps` those on `growproc`.


`ProcTableProofs` proves, for any number of slots and any set of CPUs, any
bound on the pids, any `TickRange` and any arguments of `kill` (but 1) and
`sleep`:

| theorem | statement |
|---|---|
| `FieldsInRange` | `Spec => []TypeOK` |
| `OneCpuEach` | `Spec => []RunningIffOnCpu` |
| `StacksStay` | `Spec => []StackInUse` |
| `PidsDiffer` | `Spec => []PidsUnique` |
| `NobodyIsOrphaned` | `Spec => []ParentAlive` |
| `NoExitIsMissed`, `NoTickIsMissed` | `WaitMissesNothing`, `TickMissesNobody` always hold |
| `CountersOfTheirProcess` | `Spec => []NrSwitchOfThisProcess` |
| `ForksOwnTheirSlots` | `Spec => []ForkOwnsItsSlot` |
| `SlotsLiveLegally` | `Spec => LegalTransitions` |
| `TableIsTree` | `Spec => TreeSpec` |

These are all the state invariants the runs check of ProcTable, and they are
proved together, from one `IInv` (and, for `ForksOwnTheirSlots`, that every
EMBRYO has a fork, `EmbryoHasFork`, which is proved after it). What it adds to
them:

* `LockInv`: `ptable.lock` belongs to the CPU that scans, switches or resumes,
  or whose process is in a critical section of `wait` or `sleep`. The lock is
  taken by one thread and released by another, so this is said of CPUs;
* `CpuInv`, `OnSome`, `OnOne`: what a CPU does fits `c->proc` and the state of
  that process, a RUNNING process is on a CPU, and none is on two;
* `ThreadInv`: where a process is suspended fits its state and its system call;
* `ForkInv`: the slot a fork fills is an EMBRYO, nobody else fills it, and it
  has no parent until its copy is made. `fork` writes to it without the lock, so
  this is what keeps those writes away from everybody else;
* `StackInv`, `RootInv`: who lives has a stack; init has no parent and nobody is
  its own parent;
* `SleepInv`: `tickslock` belongs to who looks at `ticks` and `killed` in
  `sys_sleep`, and to who has looked (`SleepChecks`) and has not yet exchanged it
  for `ptable.lock`; a process that has still has time to wait. One that holds
  `ptable.lock` and is about to sleep has it too, or the timer has yet to take
  that lock and wake it.

`LockInv` is used most: `wait` frees a child whose CPU has left it because a CPU
that is still switching away from it would hold the lock (`StepWaitReaps`), and
the timer wakes every sleeper because nobody is half asleep while the lock is
free (`StepTimerWakeup`). There is one lemma per action, `StepX`; `WakingKeeps`
is shared by `kill` and the timer. That a loop over the table stops at a slot of
the kind it looks for (`FirstIn`) comes from the order of the numbers being
well-founded.

`TableIsTree` is the refinement of ProcTree. The tree is read off the table: `procs` is the pids of the live
slots, `parentOf` finds the slot of a pid and the pid of that slot's parent.
`TreeNow` says that this finds the right slot, because pids differ
(`PidsUnique`), and that a parent lives and is no zombie (`ParentAlive`). Of the
steps, `ForkRun`, `Exit` and `WaitReaps` are steps of the tree (`ForkIsSeen`,
`ExitIsSeen`, `CollectIsSeen`); all others leave it alone: they only move
processes between runnable, running and sleeping, or work on a slot that is no
live process yet. init never exits because it has pid 1 (`RootInv`).

`ProcInfoProofs` proves `PidsAlwaysFit`, that is `InfoSpec => []PidsFit`, from
the same assumptions. `InfoSpec => Spec` brings in the invariant of ProcTable.
The one of `ps`, `PInv`, gives each pid that `ps` has found a slot of its own,
the one it was seen in (`OwnSlots`): since then that slot has kept the process,
is free, or holds a later process, whose pid is above what `getMaxPid` told. So
a pid that `ps` finds next is in none of those slots (`PidIsTold`), and the
slots are `NPROC`. `PidsMove`, shown of every action of ProcTable, is what this
needs of the table: a slot in use keeps its pid, and a slot that gets into use
takes the next one. That no process is born with `ps` half done, and that `ps`
does not come back from a call of its own that changes the table, is
`BirthsAreForks` and `CallsOnly`.

It also proves `ParentsAreOlder`, that is `InfoSpec => []PpidIsOlder`. The
property is about answers a program has got, which may be old; `AnswersInv` keeps
them as they were. That they were right when given (`InfoOfTable`) needs
`AgeInv`: a process has a greater pid than its parent and than the process that
is forking it, and the only slot with a parent that does not live yet is the one
its parent's fork is filling. `exit` keeps it by giving children to init, whose
pid is the least; `wait` by freeing zombies only, which have no children left.
`SizeInv` says who has memory: a slot gets a size in `fork` from a parent that
has one, before it gets its stack.

And it proves `LivingAreListed`, that is `InfoSpec => []ListsTheLiving`. Its
invariant `RowsInv` says that one process runs `ps` and what that process has been
told (`Told`): whoever is in `there`, and so in the table, has a pid up to what
`getMaxPid` said and was found when `ps` asked for it; the row `ps` got for the
k-th pid of its array answers for that pid, and is there if the process is.
`there` only shrinks, and `Told` of a set holds of its subsets (`FewerTold`), so
the steps of the others keep it. From `Told` to the listing it is sequences:
`KeepIs` says what the loop that fills `pids` returns (those of its input that are
in a set, in their order), so the array ascends before it is sorted, and
`SortChangesNothing` that `sortPids` leaves such an array alone.

And it proves `TestsAllPass`, that is `InfoSpec => []TestsPass`, from the same
assumptions and one more, `MaxPid < 99999`. `test_procinfo_invalid` asks for pid
99999 as for one that nobody has, and nothing in the kernel keeps it from being
given out: a system that has forked so often fails the test, so the bound is a
condition of the theorem and not a convenience. The theorem is about the 29
tests that are modelled. A test is a function, `NextCall`, of the results it has
got; the theorem says that this function does not return `Fail` for the results
the kernel can have given. So the invariant, `TestsInv`, is about results, and has
a part for each way in which a test can be wrong about the system:

* `CommonInv` holds of every test, in a crowd or not. `TaleInv` says that each
  result answers the call that was made for it (`Answered`) and, of those a
  process got itself, that what it was told of its own pid is about itself
  (`Own`, `OwnFact`): after `fork` returns 0 the earlier results are the
  parent's. `CallInv` says that a test is in the call it has made, `FilesInv`
  that three files stay open, `BoundInv` that pids end at `MaxPid`.
* `FamilyInv` is who is there when a test has the system to itself: nobody has
  two children, only a test has one that is not init's, and it still owes that
  child a wait (`Owes`); init forks only when it is alone, and a slot under
  construction is some fork's (`EmbryoInv`). So there are init, the test and the
  child it owes (`WhoIsThere`), and `getNumProc` counts one more after a fork
  and one less after a wait, whether the child has exited by then or not.
* `ImageInv` follows `open`, `close` and `sbrk` of such a test: what it was
  told last of its files and memory still holds, plus what it has done since.
* `QuietInv` keeps what was told of pids and parents true, and with it
  `query_all_pids`, `numproc_matches_count` and `ppid_chain`, which ask
  for one pid after the other, up to `getMaxPid` or to init.
* `ForksInv` is about `maxpid_after_fork`, which is robust: others fork and exit
  between its two calls of `getMaxPid`. What the first told is below the pid of
  the child that comes next (pids are given out in order), and the child stays
  in the table until the test waits for it, after the second.

`TableMove` (in `ProcTableProofs`) puts the steps of ProcTable into one of seven
shapes, one slot at a time, so that each part of `TestsInv` looks at seven cases
and not at every action; `TableMoves` shows it of each action. `VerdictsPass`
goes through the tests, one lemma for each kind; where a test
compares two of its results, its lemma says which earlier fact makes them agree.

`ChatProofs` proves, for any set of clients and lines, any size of the table and
of a buffer:

| theorem | statement |
|---|---|
| `TableIsOK` | `Spec => []TableOK` |
| `RoundsServeAll` | `Spec => RoundServesAll` |
| `FramingIsExact` | `Spec => []FramingExact` |
| `PrivateIsPrivate` | `Spec => []PrivateStaysPrivate` |

`RoundInv` is what `RoundServesAll` rests on: while the loop is at entry `i`, a
client that `select` reported has been served, or has an entry at `i` or after
it. When `remove_client` fills the hole at `i` with the last entry, that entry
comes to lie at `i`, which the loop looks at again; a loop that went on to
`i + 1` would break it. `BacklogInv` says that a connection waits in one place
only, and not once it is accepted or closed, so that `accept` never adds a
client that the table has. `ChatAssumption` is all that is assumed of the
constants: sizes are positive and `Nobody` is no client.

The other two are about the data, and have an invariant of their own, `DataInv`,
which stands on the first: that a client has one entry (`TableOK`) is why a read
changes one buffer only, and that an accepted client was in the backlog is why
it begins with nothing read (`FreshInv`). `EntryOK` is `FramingExact` of one
entry and, when the name was read on its own, one thing more: a message may
begin only where a line begins, or inside a line that no buffer can hold
(`Cut`). Without it a full buffer of the end of one line and the beginning of the
next could be flushed in the middle of a line that would have fitted, and its
second half be sent to everybody. It holds because a buffer with no newline in
it, begun at the beginning of a line that fits, is never full (`CutBehind`). `LineInv`
says where the loop is then: a buffer has a newline only while lines are being cut
out of it, and one that is processed whole has no room left. So the message in
hand ends at the first newline or at the end of a full buffer (`MessageInHand`),
and `MessageIsOK` shows that cutting it off leaves a sound entry;
`PieceOfOneLine` that such a piece is of one line and begins with its
addressee, so `process_message` finds the right name (`MailOK`). That the names
of both were read on their own is in the property because it is false otherwise:
`hw3server.c:159` takes whatever has come for the name, and with what followed it
a name can be anybody's. `FlownInv` bounds what a connection has accepted by what
has been read and what has been sent; that a write may stop in the middle of a
line, or a broadcast between two clients, changes nothing of the rest.

Only model-checked:

* liveness (`Termination`, `RunnableRuns`, `KilledExits`, `LinesProcessed`),
  which is out of the prover's reach;
* what `sortPids` does with an array that is not in order, which `ps` never
  hands it: `LivingAreListed` needs only that it leaves one in order alone.

## 6. Not modelled

* The text of messages, logs, `stats.txt` and the output of `ps`; `procdump`,
  which reads the table without the lock and changes nothing.
* HW2: failure of `malloc`, `fopen` and `pthread_create` (the pool would have
  fewer workers, which the set `Workers` covers, but `join_workers` would join a
  thread that was never made, which is undefined); a pool of no workers, about
  which the safety theorems hold and `Termination` does not; lines longer than 1024 bytes, which `fgets` returns as several.
* HW3: errors of `select` other than `EINTR`; what the client prints; how
  the messages to a client are cut into reads; NUL bytes in what a client sends. A private line has its name whole in its first unit, and the
  name of a client is one unit.
* HW4: page tables and what is in memory; the calls of `sysfile.c` beyond the
  arguments they fetch; overflow of `nextpid` and of `nrswitch`; `trap.c` beyond
  what ProcTable says of it. A process that has freed all its memory (`sbrk` of
  minus its size) makes no further call in UserMemory: its next fetch faults.
  A translation the processor has kept might let it go on a little, which is
  left out.
* `testps.c`: `test_zombie_state` and `test_sleeping_state`, which pass whatever
  the calls return; the two tests of the value of `nrswitch`, which the model has
  as zero or not; `test_multiple_children`, which needs more slots than the run
  has and asks what `test_fork_increases_numproc` asks; `test_random_100`, which
  asks of random pids what `test_query_all_pids` asks of all.
* Build files, prototypes and the assignment text.

## 7. Plan

Done: the pool and its linked list with their proofs, its jobs, the process
table with its abstract specification, the information calls with `ps` and the
tests, the system call entry and `sbrk` with their proofs, the chat.

Next, in this order:

1. A pool whose `pthread_create` has failed for some workers.
2. Liveness of processes that sleep in `sys_sleep` and are killed there: with the
   timer ticking the instance has too many states for `proc_live` as it is.

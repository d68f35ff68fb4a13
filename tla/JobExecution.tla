---------------------------- MODULE JobExecution ----------------------------
(***************************************************************************)
(* The HW2 pool with what its jobs do: WorkerPool, whose step ProcessJob   *)
(* becomes the commands of the job, the counter files under their locks,   *)
(* the clock and the statistics under stats_lock.                          *)
(*                                                                         *)
(* A counter file is read and written back by two steps, and so are the    *)
(* statistics; what another worker writes in between is lost unless the    *)
(* lock keeps it out.  Time is what get_time_ms returns, the time of day:  *)
(* it may change between any two steps, and go back when the clock is set. *)
(***************************************************************************)
EXTENDS WorkerPool, JobScript, FiniteSetsExt

CONSTANTS
  Counters,    \* the counters that have a file
  Jobs,        \* the command strings of "worker" lines
  MaxTime      \* bound on the clock, in ticks

ASSUME JobsAssumption == \A s \in Jobs : s \in Seq([op : STRING, arg : Int])

VARIABLES
  clock,        \* what get_time_ms returns
  read_time,    \* when fgets returned the line at hand
  script,       \* the command string of each job submitted
  enqueued,     \* per job: when its line was read, and its submit_time
  commands,     \* per worker: the commands its job still has to run
  step,         \* per worker, inside process_job and the statistics
  value,        \* per worker: val of update_counter, or turnaround
  counter,      \* the numbers in the counter files
  counter_lock, \* owner of each counter lock, or Nobody
  seen,         \* per worker: the statistics it has read
  stats,        \* stats_count, stats_sum, stats_min and stats_max
  stats_lock,   \* owner of stats_lock, or Nobody
  turnaround    \* the turnaround of each completed job

lineVars == <<read_time, script, enqueued>>
runVars == <<commands, step, value>>
counterVars == <<counter, counter_lock>>
statVars == <<seen, stats, stats_lock, turnaround>>
execVars == <<clock, lineVars, runVars, counterVars, statVars>>
allVars == <<vars, execVars>>

NoStats == [count |-> 0, sum |-> 0, min |-> 0, max |-> 0]

ExecInit ==
  /\ Init
  /\ clock = 0 /\ read_time = 0
  /\ script = <<>> /\ enqueued = <<>>
  /\ commands = [w \in Workers |-> <<>>]
  /\ step = [w \in Workers |-> "command"]
  /\ value = [w \in Workers |-> 0]
  /\ counter = [c \in Counters |-> 0]
  /\ counter_lock = [c \in Counters |-> Nobody]
  /\ seen = [w \in Workers |-> NoStats]
  /\ stats = NoStats
  /\ stats_lock = Nobody
  /\ turnaround = <<>>

Tick ==
  /\ clock' \in 0..MaxTime
  /\ UNCHANGED <<vars, lineVars, runVars, counterVars, statVars>>

-----------------------------------------------------------------------------
(* The dispatcher.                                                         *)

ReadTimedLine(next) ==
  /\ ReadLine(next)
  /\ read_time' = clock
  /\ UNCHANGED <<clock, script, enqueued, runVars, counterVars, statVars>>

\* enqueue(strdup(cmd), get_time_ms()), with queue_lock held.
EnqueueTimed ==
  /\ Enqueue
  /\ \E s \in Jobs : script' = Append(script, s)
  /\ enqueued' = Append(enqueued, [read |-> read_time, submit_time |-> clock])
  /\ UNCHANGED <<clock, read_time, runVars, counterVars, statVars>>

DispatcherElse ==
  /\ EndOfFile \/ LockForEnqueue \/ LockForWait \/ WaitForJobs \/ WaitReturns
     \/ Shutdown \/ Join
  /\ UNCHANGED execVars

-----------------------------------------------------------------------------
(* A worker.                                                               *)

TakeTimedJob(w) ==
  /\ TakeJob(w)
  /\ commands' = [commands EXCEPT ![w] = Expansion(Commands(script[job'[w]]))]
  /\ UNCHANGED <<clock, lineVars, step, value, counterVars, statVars>>

Running(w, s) == wpc[w] = "run" /\ step[w] = s

\* The counters the next command of w changes: one or none.
Targets(w) == {c \in Counters : Delta(Head(commands[w]), c) # 0}

Goes(w, s) == step' = [step EXCEPT ![w] = s]

\* A command that touches no counter: msleep, a blank or unknown one, or one
\* whose number has no file.
RunOtherCommand(w) ==
  /\ Running(w, "command") /\ commands[w] # <<>> /\ Targets(w) = {}
  /\ commands' = [commands EXCEPT ![w] = Tail(@)]
  /\ UNCHANGED <<vars, clock, lineVars, step, value, counterVars, statVars>>

\* update_counter up to fscanf, with the lock of the counter forgotten.
ReadCounterUnlocked(w) ==
  /\ Running(w, "command") /\ commands[w] # <<>>
  /\ \E c \in Targets(w) :
       /\ value' = [value EXCEPT ![w] = counter[c]]
       /\ Goes(w, "update")
  /\ UNCHANGED <<vars, clock, lineVars, commands, counterVars, statVars>>

\* update_counter up to fscanf.
ReadCounter(w) ==
  /\ Running(w, "command") /\ commands[w] # <<>>
  /\ \E c \in Targets(w) :
       /\ counter_lock[c] = Nobody
       /\ counter_lock' = [counter_lock EXCEPT ![c] = w]
       /\ value' = [value EXCEPT ![w] = counter[c]]
       /\ Goes(w, "update")
  /\ UNCHANGED <<vars, clock, lineVars, commands, counter, statVars>>

\* update_counter from there on.
WriteCounter(w) ==
  /\ Running(w, "update")
  /\ \E c \in Targets(w) :
       /\ counter' = [counter EXCEPT ![c] = value[w] + Delta(Head(commands[w]), c)]
       /\ counter_lock' = [counter_lock EXCEPT ![c] = Nobody]
  /\ commands' = [commands EXCEPT ![w] = Tail(@)]
  /\ Goes(w, "command")
  /\ UNCHANGED <<vars, clock, lineVars, value, statVars>>

\* process_job returns; t_end and the turnaround are computed.
EndJob(w) ==
  /\ Running(w, "command") /\ commands[w] = <<>>
  /\ value' = [value EXCEPT ![w] = clock - enqueued[job[w]].submit_time]
  /\ Goes(w, "turnaround")
  /\ UNCHANGED <<vars, clock, lineVars, commands, counterVars, statVars>>

\* The statistics are read, with stats_lock forgotten.
ReadStatsUnlocked(w) ==
  /\ Running(w, "turnaround")
  /\ seen' = [seen EXCEPT ![w] = stats]
  /\ Goes(w, "stats")
  /\ UNCHANGED <<vars, clock, lineVars, commands, value, counterVars, stats,
                 stats_lock, turnaround>>

\* stats_lock is taken and the statistics are read.
ReadStats(w) ==
  /\ Running(w, "turnaround")
  /\ stats_lock = Nobody /\ stats_lock' = w
  /\ seen' = [seen EXCEPT ![w] = stats]
  /\ Goes(w, "stats")
  /\ UNCHANGED <<vars, clock, lineVars, commands, value, counterVars, stats,
                 turnaround>>

\* The statistics with a turnaround of t added.
Added(s, t) ==
  [count |-> s.count + 1,
   sum   |-> s.sum + t,
   min   |-> IF s.count = 0 \/ t < s.min THEN t ELSE s.min,
   max   |-> IF t > s.max THEN t ELSE s.max]

\* They are written back.  The last step of the job for WorkerPool: ProcessJob
\* ends here.
UpdateStats(w) ==
  /\ step[w] = "stats" /\ ProcessJob(w)
  /\ stats' = Added(seen[w], value[w]) /\ seen' = [seen EXCEPT ![w] = NoStats]
  /\ stats_lock' = Nobody
  /\ turnaround' = [j \in DOMAIN turnaround \cup {job[w]} |->
                      IF j = job[w] THEN value[w] ELSE turnaround[j]]
  /\ value' = [value EXCEPT ![w] = 0]
  /\ Goes(w, "command")
  /\ UNCHANGED <<clock, lineVars, commands, counterVars>>

WorkerElse(w) ==
  /\ LockForJob(w) \/ WaitForWork(w) \/ WorkerExit(w) \/ LockForDecrement(w)
     \/ JobDone(w)
  /\ UNCHANGED execVars

ExecNext ==
  \/ Tick
  \/ \E next \in {"enqueueLock", "waitLock", "read"} : ReadTimedLine(next)
  \/ EnqueueTimed
  \/ DispatcherElse
  \/ \E w \in Workers :
       \/ TakeTimedJob(w) \/ RunOtherCommand(w) \/ ReadCounter(w)
       \/ WriteCounter(w) \/ EndJob(w) \/ ReadStats(w) \/ UpdateStats(w)
       \/ WorkerElse(w)
  \/ SpuriousWakeup /\ UNCHANGED execVars
  \/ Exited /\ UNCHANGED execVars

ExecSpec == ExecInit /\ [][ExecNext]_allVars

-----------------------------------------------------------------------------
(* Correctness.                                                            *)

\* The sum of all that the commands of job j add to counter c.
Effect(j, c) ==
  LET cmds == Expansion(Commands(script[j]))
  IN  SumFunction([k \in DOMAIN cmds |-> Delta(cmds[k], c)])

\* The counter files hold the sum of what the jobs submitted add to them
\* whenever the dispatcher has just been through a wait, and when main
\* returns: no update of one worker overwrites another's.
CountersExact ==
  [][dpc = "check" /\ dpc' \in {"read", "join"} =>
       \A c \in Counters :
         counter[c] = SumFunction([j \in 1..submitted |-> Effect(j, c)])]_allVars

\* The statistics are those of the completed jobs, though workers update them
\* at the same time and the clock may be set: their number, and the sum and the
\* least of their turnarounds, and the greatest unless all are below 0.
StatsExact ==
  LET times == {turnaround[j] : j \in completed}
  IN  /\ stats.count = Cardinality(completed)
      /\ stats.sum = SumFunctionOnSet(turnaround, completed)
      /\ completed # {} => stats.min = Min(times)
      /\ stats.max = Max(times \cup {0})

\* A job's submit_time is the time its line was read (worker.h:13).
SubmitTimeIsReadTime ==
  \A j \in DOMAIN enqueued : enqueued[j].submit_time = enqueued[j].read
=============================================================================

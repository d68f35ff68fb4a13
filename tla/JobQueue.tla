------------------------------ MODULE JobQueue ------------------------------
(***************************************************************************)
(* The linked list of the HW2 job queue (queue.c), beside the sequence     *)
(* that WorkerPool has in its place.  A node is known by the number of its *)
(* job; it exists from the malloc of enqueue to the free of the worker     *)
(* that has run the job, which comes after the job has been counted out,   *)
(* with queue_lock released.  ListHoldsQueue says that the list is the     *)
(* sequence, so that the two tests for an empty queue are the same test.   *)
(***************************************************************************)
EXTENDS WorkerPool

NULL == 0

VARIABLES
  queue_head, queue_tail,
  next,         \* the next field of every node that has not been freed
  freeing       \* per worker: the node it is still to free, or NULL

listVars == <<queue_head, queue_tail, next, freeing>>

ListInit ==
  /\ Init
  /\ queue_head = NULL /\ queue_tail = NULL /\ next = <<>>
  /\ freeing = [w \in Workers |-> NULL]

\* enqueue(): the node goes behind the tail, or is the whole list.
ListEnqueue ==
  /\ Enqueue
  /\ LET j == submitted + 1
     IN  /\ queue_head' = IF queue_tail = NULL THEN j ELSE queue_head
         /\ queue_tail' = j
         /\ next' = [k \in DOMAIN next \cup {j} |->
                       IF k = j THEN NULL
                       ELSE IF k = queue_tail THEN j ELSE next[k]]
  /\ UNCHANGED freeing

\* A dequeue that leaves the tail at the last node it has taken out.
ListDequeueKeepsTail(w) ==
  /\ TakeJob(w)
  /\ queue_head # NULL /\ queue_head' = next[queue_head]
  /\ UNCHANGED <<queue_tail, next, freeing>>

\* dequeue().
ListDequeue(w) ==
  /\ TakeJob(w)
  /\ queue_head # NULL /\ queue_head' = next[queue_head]
  /\ queue_tail' = IF queue_head' = NULL THEN NULL ELSE queue_tail
  /\ UNCHANGED <<next, freeing>>

\* The job is counted out; its node is still there.
ListJobDone(w) ==
  /\ JobDone(w)
  /\ freeing' = [freeing EXCEPT ![w] = job[w]]
  /\ UNCHANGED <<queue_head, queue_tail, next>>

\* free(job).
FreeNode(w) ==
  /\ freeing[w] # NULL /\ freeing' = [freeing EXCEPT ![w] = NULL]
  /\ next' = [k \in DOMAIN next \ {freeing[w]} |-> next[k]]
  /\ UNCHANGED <<vars, queue_head, queue_tail>>

\* The top of the loop, and the lock: the node has been freed.
ListLockForJob(w) ==
  /\ freeing[w] = NULL /\ LockForJob(w)
  /\ UNCHANGED listVars

ListElse ==
  /\ \/ \E line \in {"enqueueLock", "waitLock", "read"} : ReadLine(line)
     \/ EndOfFile \/ LockForEnqueue
     \/ LockForWait \/ WaitForJobs \/ WaitReturns \/ Shutdown \/ Join
     \/ \E w \in Workers : \/ WaitForWork(w) \/ WorkerExit(w)
                           \/ ProcessJob(w) \/ LockForDecrement(w)
     \/ SpuriousWakeup
     \/ Exited
  /\ UNCHANGED listVars

ListNext ==
  \/ ListEnqueue
  \/ \E w \in Workers : \/ ListDequeue(w) \/ ListJobDone(w)
                        \/ FreeNode(w) \/ ListLockForJob(w)
  \/ ListElse

\* The threads and locks are as fair as in WorkerPool, and a free returns.
ListSpec ==
  /\ ListInit /\ [][ListNext]_<<vars, listVars>>
  /\ Fairness /\ \A w \in Workers : WF_<<vars, listVars>>(FreeNode(w))

\* The list is the queue: from head to tail its nodes are the jobs queued, in
\* order, the last one ends it, and head and tail are NULL together.  No node
\* in the list, and none that a worker still uses, has been freed; those that
\* workers are about to free are the only others left.
ListHoldsQueue ==
  /\ IF queue = <<>>
     THEN queue_head = NULL /\ queue_tail = NULL
     ELSE /\ queue_head = Head(queue) /\ queue_tail = queue[Len(queue)]
          /\ next[queue_tail] = NULL
          /\ \A i \in 1..Len(queue) - 1 : next[queue[i]] = queue[i + 1]
  /\ DOMAIN next = {queue[i] : i \in 1..Len(queue)} \cup {job[w] : w \in Holding}
                   \cup ({freeing[w] : w \in Workers} \ {NULL})
=============================================================================

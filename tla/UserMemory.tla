----------------------------- MODULE UserMemory -----------------------------
(***************************************************************************)
(* The HW4 system call entry: how the kernel fetches the arguments of a    *)
(* system call from the memory of the process that makes it (syscall.c),   *)
(* and the call that changes that memory, sbrk (growproc() in proc.c).     *)
(*                                                                         *)
(* The process chooses everything the kernel looks at: its stack pointer,  *)
(* the words and bytes found there, the number of the call.  Addresses and *)
(* words are unsigned and wrap around at W.  Of the memory that is mapped  *)
(* only the part below the size is counted, not the rest of its last page. *)
(***************************************************************************)
EXTENDS Integers

CONSTANTS
  W,         \* number of words: 2^32 in the code
  KERNBASE,  \* where the kernel begins: 2^31
  IntSize,   \* sizeof(int): 4
  InfoSize   \* sizeof(struct processInfo): 20

ASSUME WordsAssumption ==
  /\ W \in Nat /\ KERNBASE \in Nat /\ IntSize \in Nat \ {0} /\ InfoSize \in Nat
  /\ 2 * KERNBASE <= W /\ 4 * IntSize < KERNBASE /\ InfoSize < KERNBASE

VARIABLES
  sz,      \* curproc->sz
  mapped,  \* the pages below this address are there
  ret,     \* the value returned by the last call, as zero or -1
  seen     \* where some access the last call made to user memory ends; 0: none

vars == <<sz, mapped, ret, seen>>

Word == 0..W - 1

\* Unsigned addition, and the sign of a word taken as an int.
Plus(a, b) == IF a + b < W THEN a + b ELSE a + b - W
Negative(n) == 2 * n >= W

Init ==
  /\ sz \in 1..KERNBASE - 1 /\ mapped = sz
  /\ ret = 0 /\ seen = 0

-----------------------------------------------------------------------------
(* The fetching of arguments.                                              *)

fetchint(addr) == ~ (addr >= sz \/ Plus(addr, IntSize) > sz)

\* The k-th argument, above the return address the stack pointer points to.
ArgAddr(esp, k) == Plus(esp, IntSize + k * IntSize)
argint(esp, k) == fetchint(ArgAddr(esp, k))
ArgEnd(esp, k) == ArgAddr(esp, k) + IntSize

\* A check that trusts the end of the block.
InsideByEnd(i, size) == ~ Negative(size) /\ Plus(i, size) <= sz

\* What argptr() asks of a block of the given size at i.
Inside(i, size) == ~ (Negative(size) \/ i >= sz \/ Plus(i, size) > sz)

\* A process without memory does not come back to make another call.
Calls == mapped > 0

Same == UNCHANGED <<sz, mapped>>

\* syscall() with a number that is not in its table.
UnknownCall ==
  /\ Calls /\ Same
  /\ ret' = -1 /\ seen' = 0

\* One of the arguments is not in the memory of the process; others may be.
BadArgument(esp) ==
  /\ Calls /\ Same
  /\ \E k \in 0..2 : ~ argint(esp, k)
  /\ ret' = -1
  /\ seen' \in {0} \cup {ArgEnd(esp, k) : k \in {j \in 0..2 : argint(esp, j)}}

\* A call with an int argument: kill, sleep.
IntCall(esp) ==
  /\ Calls /\ Same
  /\ argint(esp, 0) /\ seen' = ArgEnd(esp, 0)
  /\ ret' \in {0, -1}

\* sys_getProcInfo(): the entry is filled in where the second argument (i)
\* points to, if the process is found.
InfoCall(esp, i) ==
  /\ Calls /\ Same
  /\ argint(esp, 0) /\ argint(esp, 1)
  /\ \/ seen' \in {ArgEnd(esp, 0), ArgEnd(esp, 1)} /\ ret' = -1
     \/ /\ Inside(i, InfoSize) /\ ret' = 0
        /\ seen' \in {ArgEnd(esp, 0), ArgEnd(esp, 1), i + InfoSize}

\* A call with a buffer (i) and its size: read, write.
BufferCall(esp, i, size) ==
  /\ Calls /\ Same
  /\ argint(esp, 2) /\ argint(esp, 1)
  /\ \/ ret' = -1 /\ seen' \in {ArgEnd(esp, 1), ArgEnd(esp, 2)}
     \/ Inside(i, size) /\ ret' = 0 /\ seen' = i + size

\* A call with a string: open, exec.  fetchstr() reads up to the nul at k, or
\* to the last byte.
StringCall(esp, addr) ==
  /\ Calls /\ Same
  /\ argint(esp, 0)
  /\ \/ addr >= sz /\ ret' = -1 /\ seen' = ArgEnd(esp, 0)
     \/ \E k \in addr..sz - 1 : seen' = k + 1 /\ ret' = 0
     \/ addr < sz /\ seen' = sz /\ ret' = -1

-----------------------------------------------------------------------------
(* sbrk.                                                                   *)

\* allocuvm() from sz to new: the new size, or 0 when the kernel is reached or
\* no page is left, and then nothing is kept.
allocuvm(new) ==
  IF new >= KERNBASE THEN {0} ELSE IF new < sz THEN {sz} ELSE {0, new}

\* deallocuvm(): the new size, which is the old one if it is not smaller.
deallocuvm(new) == IF new >= sz THEN sz ELSE new

\* A growproc that sets the size before it looks at the outcome.
GrowEarly(n) ==
  \E new \in allocuvm(Plus(sz, n)) :
    /\ sz' = Plus(sz, n)
    /\ mapped' = IF new = 0 THEN mapped ELSE new
    /\ ret' = IF new = 0 THEN -1 ELSE 0

\* growproc(n) for n > 0, and for n < 0.
Grow(n) ==
  \E new \in allocuvm(Plus(sz, n)) :
    \/ new = 0 /\ ret' = -1 /\ UNCHANGED <<sz, mapped>>
    \/ new # 0 /\ ret' = 0 /\ sz' = new /\ mapped' = new

Shrink(n) ==
  LET new == deallocuvm(Plus(sz, n))
  IN  /\ mapped' = new
      /\ \/ new = 0 /\ ret' = -1 /\ UNCHANGED sz
         \/ new # 0 /\ ret' = 0 /\ sz' = new

Sbrk(esp, n) ==
  /\ Calls
  /\ argint(esp, 0) /\ seen' = ArgEnd(esp, 0)
  /\ \/ n = 0 /\ ret' = 0 /\ UNCHANGED <<sz, mapped>>
     \/ n # 0 /\ ~ Negative(n) /\ Grow(n)
     \/ Negative(n) /\ Shrink(n)

Next ==
  \/ UnknownCall
  \/ \E esp \in Word : BadArgument(esp) \/ IntCall(esp)
  \/ \E esp, w \in Word : InfoCall(esp, w) \/ StringCall(esp, w) \/ Sbrk(esp, w)
  \/ \E esp, i, size \in Word : BufferCall(esp, i, size)

Spec == Init /\ [][Next]_vars

-----------------------------------------------------------------------------
(* Correctness.                                                            *)

TypeOK ==
  /\ sz \in 1..KERNBASE - 1 /\ mapped \in 0..KERNBASE - 1
  /\ ret \in {0, -1} /\ seen \in Nat

\* The kernel touches no user memory that is not there when the call is made,
\* whatever pointers, sizes and stack pointer a process comes with: the sums of
\* syscall.c do not wrap around, since the size stays below half of the words.
KernelStaysInside == [][seen' <= mapped]_vars

\* The size is the memory there is, except after a call that failed: sbrk by
\* minus the size frees everything and returns -1 (proc.c:176-177), and the
\* process never comes back to user space.
SizeIsMapped == mapped = sz \/ (mapped = 0 /\ ret = -1)
=============================================================================

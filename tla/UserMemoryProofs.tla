-------------------------- MODULE UserMemoryProofs --------------------------
(***************************************************************************)
(* For every width of words, size of memory and place of the kernel that   *)
(* WordsAssumption allows: the size of a process is the memory it has, and *)
(* the checks of syscall.c keep the kernel inside it.                      *)
(***************************************************************************)
EXTENDS UserMemory, TLAPS

\* The size is below half of the words, which is why no sum below wraps.
MemInv == TypeOK /\ SizeIsMapped

-----------------------------------------------------------------------------

\* An int that fetchint() accepts lies in the memory of the process.
LEMMA FetchInside ==
  ASSUME TypeOK, NEW addr \in Word, fetchint(addr)
  PROVE  addr + IntSize \in Nat /\ addr + IntSize <= sz
BY WordsAssumption DEF TypeOK, Word, fetchint, Plus

\* Where an argument is looked for is an address.
LEMMA ArgAddrIsWord ==
  ASSUME NEW esp \in Word, NEW k \in 0..2
  PROVE  ArgAddr(esp, k) \in Word
<1>1. k = 0 \/ k = 1 \/ k = 2
  OBVIOUS
<1>2. IntSize + k * IntSize \in Word
  <2>1. CASE k = 0
    BY <2>1, WordsAssumption DEF Word
  <2>2. CASE k = 1
    BY <2>2, WordsAssumption DEF Word
  <2>3. CASE k = 2
    BY <2>3, WordsAssumption DEF Word
  <2> QED BY <1>1, <2>1, <2>2, <2>3
<1>3. \A a, b \in Word : Plus(a, b) \in Word
  BY WordsAssumption DEF Word, Plus
<1> QED BY <1>2, <1>3 DEF ArgAddr

\* An argument that argint() gets ends inside the memory of the process.
LEMMA ArgInside ==
  ASSUME TypeOK, NEW esp \in Word, NEW k \in 0..2, argint(esp, k)
  PROVE  ArgEnd(esp, k) \in Nat /\ ArgEnd(esp, k) <= sz
BY ArgAddrIsWord, FetchInside DEF argint, ArgEnd

\* So does a block that argptr() accepts: its first byte is below the size,
\* its length below half of the words, and the sum cannot wrap around.
LEMMA BlockInside ==
  ASSUME TypeOK, NEW i \in Word, NEW size \in Nat, Inside(i, size)
  PROVE  i + size \in Nat /\ i + size <= sz
BY WordsAssumption DEF TypeOK, Word, Inside, Negative, Plus

\* A process that makes a call has all of its memory.
LEMMA CallerHasMemory ==
  ASSUME MemInv, Calls
  PROVE  mapped = sz
BY DEF MemInv, SizeIsMapped, Calls

\* What growproc() makes of the size and the memory, for n > 0 ...
LEMMA GrowKeeps ==
  ASSUME MemInv, Calls, NEW n \in Word, ~ Negative(n), n # 0, Grow(n)
  PROVE  /\ sz' \in 1..KERNBASE - 1 /\ mapped' \in 0..KERNBASE - 1
         /\ ret' \in {0, -1} /\ mapped' = sz'
<1>1. mapped = sz /\ sz \in 1..KERNBASE - 1
  BY CallerHasMemory DEF MemInv, TypeOK
<1>2. PICK new \in allocuvm(Plus(sz, n)) :
         \/ new = 0 /\ ret' = -1 /\ UNCHANGED <<sz, mapped>>
         \/ new # 0 /\ ret' = 0 /\ sz' = new /\ mapped' = new
  BY DEF Grow
<1>3. Plus(sz, n) \in Nat
  BY <1>1, WordsAssumption DEF Plus, Word, Negative
<1>4. new \in 0..KERNBASE - 1
  BY <1>1, <1>2, <1>3, WordsAssumption DEF allocuvm
<1> QED BY <1>1, <1>2, <1>4, WordsAssumption

\* ... and for n < 0.
LEMMA ShrinkKeeps ==
  ASSUME MemInv, Calls, NEW n \in Word, Shrink(n)
  PROVE  /\ sz' \in 1..KERNBASE - 1 /\ mapped' \in 0..KERNBASE - 1
         /\ ret' \in {0, -1}
         /\ mapped' = sz' \/ (mapped' = 0 /\ ret' = -1)
<1>1. mapped = sz /\ sz \in 1..KERNBASE - 1
  BY CallerHasMemory DEF MemInv, TypeOK
<1>2. Plus(sz, n) \in Nat
  BY <1>1, WordsAssumption DEF Plus, Word
<1>3. deallocuvm(Plus(sz, n)) \in 0..KERNBASE - 1
  BY <1>1, <1>2, WordsAssumption DEF deallocuvm
<1> QED BY <1>1, <1>3, WordsAssumption DEF Shrink

-----------------------------------------------------------------------------

\* Every access of a step ends inside the memory there was before it.
LEMMA StepInside ==
  ASSUME MemInv, Next
  PROVE  seen' \in Nat /\ seen' <= mapped
<1> USE DEF MemInv
<1>1. CASE UnknownCall
  BY <1>1 DEF UnknownCall, TypeOK
<1>2. ASSUME NEW esp \in Word, BadArgument(esp)
      PROVE  seen' \in Nat /\ seen' <= mapped
  <2>1. Calls /\ mapped = sz
    BY <1>2, CallerHasMemory DEF BadArgument
  <2>2. seen' = 0 \/ \E k \in 0..2 : argint(esp, k) /\ seen' = ArgEnd(esp, k)
    BY <1>2 DEF BadArgument
  <2> QED BY <2>1, <2>2, ArgInside DEF TypeOK
<1>3. ASSUME NEW esp \in Word, IntCall(esp)
      PROVE  seen' \in Nat /\ seen' <= mapped
  BY <1>3, CallerHasMemory, ArgInside DEF IntCall
<1>4. ASSUME NEW esp \in Word, NEW w \in Word, InfoCall(esp, w)
      PROVE  seen' \in Nat /\ seen' <= mapped
  <2>1. Calls /\ mapped = sz
    BY <1>4, CallerHasMemory DEF InfoCall
  <2>2. \A k \in {0, 1} : ArgEnd(esp, k) \in Nat /\ ArgEnd(esp, k) <= sz
    BY <1>4, ArgInside DEF InfoCall
  <2>3. Inside(w, InfoSize) => w + InfoSize \in Nat /\ w + InfoSize <= sz
    BY BlockInside, WordsAssumption
  <2> QED BY <1>4, <2>1, <2>2, <2>3 DEF InfoCall
<1>5. ASSUME NEW esp \in Word, NEW w \in Word, StringCall(esp, w)
      PROVE  seen' \in Nat /\ seen' <= mapped
  <2>1. mapped = sz /\ sz \in Nat
    BY <1>5, CallerHasMemory, WordsAssumption DEF StringCall, TypeOK
  <2>2. ArgEnd(esp, 0) \in Nat /\ ArgEnd(esp, 0) <= sz
    BY <1>5, ArgInside DEF StringCall
  <2>3. \A k \in w..sz - 1 : k + 1 \in Nat /\ k + 1 <= sz
    BY <2>1 DEF Word
  <2> QED BY <1>5, <2>1, <2>2, <2>3 DEF StringCall
<1>6. ASSUME NEW esp \in Word, NEW w \in Word, Sbrk(esp, w)
      PROVE  seen' \in Nat /\ seen' <= mapped
  BY <1>6, CallerHasMemory, ArgInside DEF Sbrk
<1>7. ASSUME NEW esp \in Word, NEW i \in Word, NEW size \in Word,
             BufferCall(esp, i, size)
      PROVE  seen' \in Nat /\ seen' <= mapped
  <2>1. Calls /\ mapped = sz
    BY <1>7, CallerHasMemory DEF BufferCall
  <2>2. \A k \in {1, 2} : ArgEnd(esp, k) \in Nat /\ ArgEnd(esp, k) <= sz
    BY <1>7, ArgInside DEF BufferCall
  <2>3. Inside(i, size) => i + size \in Nat /\ i + size <= sz
    BY BlockInside DEF Word
  <2> QED BY <1>7, <2>1, <2>2, <2>3 DEF BufferCall
<1> QED BY <1>1, <1>2, <1>3, <1>4, <1>5, <1>6, <1>7 DEF Next

\* MemInv is inductive: only sbrk changes the memory of a process.
LEMMA MemInvStep ==
  ASSUME MemInv, Next
  PROVE  MemInv'
<1>1. seen' \in Nat
  BY StepInside
<1>2. CASE \E esp, w \in Word : Sbrk(esp, w)
  <2>1. PICK esp \in Word, w \in Word : Sbrk(esp, w)
    BY <1>2
  <2>2. Calls /\ mapped = sz
    BY <2>1, CallerHasMemory DEF Sbrk
  <2>3. CASE w = 0 /\ ret' = 0 /\ UNCHANGED <<sz, mapped>>
    BY <1>1, <2>2, <2>3 DEF MemInv, TypeOK, SizeIsMapped
  <2>4. CASE w # 0 /\ ~ Negative(w) /\ Grow(w)
    BY <1>1, <2>2, <2>4, GrowKeeps DEF MemInv, TypeOK, SizeIsMapped
  <2>5. CASE Negative(w) /\ Shrink(w)
    BY <1>1, <2>2, <2>5, ShrinkKeeps DEF MemInv, TypeOK, SizeIsMapped
  <2> QED BY <2>1, <2>3, <2>4, <2>5 DEF Sbrk
<1>3. CASE ~ \E esp, w \in Word : Sbrk(esp, w)
  <2>1. Calls /\ Same /\ ret' \in {0, -1}
    BY <1>3 DEF Next, UnknownCall, BadArgument, IntCall, InfoCall, StringCall,
                BufferCall
  <2>2. mapped = sz
    BY <2>1, CallerHasMemory
  <2> QED BY <1>1, <2>1, <2>2 DEF Same, MemInv, TypeOK, SizeIsMapped
<1> QED BY <1>2, <1>3

\* In every reachable state MemInv holds.
THEOREM MemoryInvariance == Spec => []MemInv
<1>1. Init => MemInv
  BY WordsAssumption DEF Init, MemInv, TypeOK, SizeIsMapped
<1>2. MemInv /\ [Next]_vars => MemInv'
  <2>1. CASE Next
    BY <2>1, MemInvStep
  <2>2. CASE UNCHANGED vars
    BY <2>2 DEF vars, MemInv, TypeOK, SizeIsMapped
  <2> QED BY <2>1, <2>2
<1> QED BY <1>1, <1>2, PTL DEF Spec

\* The variables keep their types: the size of a process stays below the
\* kernel (proc.c:174-179).
THEOREM MemoryTypeOK == Spec => []TypeOK
<1>1. MemInv => TypeOK
  BY DEF MemInv
<1> QED BY <1>1, MemoryInvariance, PTL

\* The size and the memory part only in a failed sbrk, which ends the process
\* (growproc, proc.c:167-183).
THEOREM SizeIsMappedAlways == Spec => []SizeIsMapped
<1>1. MemInv => SizeIsMapped
  BY DEF MemInv
<1> QED BY <1>1, MemoryInvariance, PTL

\* The kernel stays inside the memory of the process (syscall.c:22-87), for
\* words of every width with the kernel in their upper half.
THEOREM KernelStaysInsideAlways == Spec => KernelStaysInside
<1>1. MemInv /\ [Next]_vars => [seen' <= mapped]_vars
  BY StepInside DEF vars
<1> QED BY <1>1, MemoryInvariance, PTL DEF Spec, KernelStaysInside
=============================================================================

CONSTANTS
  NPROC = 4
  CPUs = {c1}
  Timer = Timer
  Free = Free
  MaxPid = 4
  TickRange = 1
  KillTargets = {0, 2, 3}
  SleepTimes = {}
SPECIFICATION Spec
INVARIANTS
  WaitMissesNothing
  ForkOwnsItsSlot
PROPERTY TreeSpec

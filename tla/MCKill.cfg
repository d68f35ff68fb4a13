CONSTANTS
  NPROC = 2
  CPUs = {c1}
  Timer = Timer
  Free = Free
  MaxPid = 2
  TickRange = 1
  KillTargets = {0}
  SleepTimes = {}
SPECIFICATION Spec
INVARIANT KillHitsItsTarget

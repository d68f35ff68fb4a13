CONSTANTS
  NPROC = 3
  CPUs = {c1}
  Timer = Timer
  Free = Free
  MaxPid = 3
  TickRange = 1
  KillTargets = {2, 3}
  SleepTimes = {}
SPECIFICATION FairSpec
PROPERTIES
  RunnableRuns
  KilledExits

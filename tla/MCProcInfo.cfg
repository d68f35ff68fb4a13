CONSTANTS
  NPROC = 3
  CPUs = {c1}
  Timer = Timer
  Free = Free
  MaxPid = 4
  TickRange = 1
  KillTargets = {2}
  SleepTimes = {}
  NumRounds = 2
  MaxSz = 2
SPECIFICATION InfoSpec
INVARIANTS
  PidsFit
  ListsTheLiving
  PpidIsOlder
  TestsPass

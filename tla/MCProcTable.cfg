CONSTANTS
  NPROC = 3
  CPUs = {c1, c2}
  Timer = Timer
  Free = Free
  MaxPid = 3
  TickRange = 2
  KillTargets = {0, 2}
  SleepTimes = {1}
SPECIFICATION Spec
SYMMETRY CPUSymmetry
INVARIANTS
  TypeOK
  RunningIffOnCpu
  StackInUse
  PidsUnique
  ParentAlive
  TickMissesNobody
  NrSwitchOfThisProcess
PROPERTY LegalTransitions

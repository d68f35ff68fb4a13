CONSTANTS
  Workers = {w1, w2}
  Dispatcher = Dispatcher
  Nobody = Nobody
  MaxLines = 2
  MaxCmds = 3
  Counters = {1, 2}
  Jobs <- MCJobs
  MaxTime = 1
SPECIFICATION ExecSpec
SYMMETRY ExecSymmetry
INVARIANTS
  StatsExact
PROPERTIES
  CountersExact

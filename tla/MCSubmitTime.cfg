CONSTANTS
  Workers = {w1}
  Dispatcher = Dispatcher
  Nobody = Nobody
  MaxLines = 1
  MaxCmds = 3
  Counters = {1, 2}
  Jobs <- MCJobs
  MaxTime = 1
SPECIFICATION ExecSpec
INVARIANT SubmitTimeIsReadTime

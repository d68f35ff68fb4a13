CONSTANTS
  Workers = {w1, w2, w3}
  Dispatcher = Dispatcher
  Nobody = Nobody
  MaxLines = 3
SPECIFICATION ListSpec
INVARIANTS
  TypeOK
  ActiveJobsExact
  NoLostWakeup
  NoJobTwice
  NoJobLost
  DispatcherNotStranded
  NoSleeperAfterDone
  ListHoldsQueue
PROPERTIES
  WaitIsABarrier
  LedgerSpec
  Termination

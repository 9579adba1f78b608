SPECIFICATION FairSpec
CHECK_DEADLOCK FALSE
CONSTANTS
  w1 = w1
  w2 = w2
  Pids = {w1, w2}
  NoPid = NoPid
  InitResults = {0, 1}
  MaxSignals = 5
INVARIANTS
  TypeOK
  OneWorker
  KillsOwnWorker
PROPERTIES
  WorkerIsReplaced
  ReturnEndsMonitor
  TermIsObeyed
  WorkerEndsToo

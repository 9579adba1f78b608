SPECIFICATION FairSpec
CONSTANTS
  p1 = p1
  p2 = p2
  p3 = p3
  Procs = {p1, p2, p3}
  NoProc = NoProc
  Empty = Empty
  MaxSignals = 2
  DiskMayFill = FALSE
INVARIANTS
  TypeOK
  OneInstance
  PidfileNamesDaemon
PROPERTIES
  ImplementsSingleInstance
  RunningEndsOnlyOnRequest
  TermEnds
  HupKillsOnlyInTheGap

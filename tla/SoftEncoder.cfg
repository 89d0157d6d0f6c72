SPECIFICATION FairSpec
CONSTANTS
  Worker = {w1, w2}
  NoWorker = NoWorker
  Depth = 2
  MaxSessions = 2
  MaxPictures = 4
  MaxOps = 2
INVARIANTS
  TypeOK
  NativeSafe
  SessionOutput
  StaleAtMostOne
  CrashOnlyStopping
PROPERTY
  StopEnds
CHECK_DEADLOCK FALSE

CONSTANTS
  Uri = {incoming_call_ring, wr_ringback}
  NoPlayer = NoPlayer
  Thread = {t1, t2}
  NoThread = NoThread
  MaxQueue = 3
SPECIFICATION FairSpec
INVARIANTS
  SingleWorker
  WorkHasWorker
  NeverTakesFromEmpty
  SilentWhenStopped
  LockNeverLeft
  IInv
PROPERTIES
  StopEndsSound
  RequestsInOrder
CHECK_DEADLOCK FALSE

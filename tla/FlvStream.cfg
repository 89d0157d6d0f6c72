SPECIFICATION Spec
CONSTANTS
  MaxStarts = 1
  Track = {"video", "audio"}
  VGOP = 2
  MaxStops = 3
  MaxFrames = 3
INVARIANTS CacheNumber StoppedIsClosed
PROPERTIES FramesLeave StreamingStopReturns
CHECK_DEADLOCK FALSE

SPECIFICATION Spec
CONSTANTS
  MaxStarts = 2
  Track = {"video"}
  VGOP = 2
  MaxStops = 2
  MaxFrames = 1
INVARIANT StoppedIsClosed

CHECK_DEADLOCK FALSE

SPECIFICATION Spec
CONSTANTS
  MaxStarts = 2
  Track = {"video"}
  VGOP = 1
  MaxStops = 2
  MaxFrames = 1
INVARIANTS IInv NoStaleFrame
CHECK_DEADLOCK FALSE

SPECIFICATION Spec
CONSTANTS
  MaxStarts = 1
  Track = {"video"}
  VGOP = 2
  MaxStops = 2
  MaxFrames = 1

PROPERTY StopEnds
CHECK_DEADLOCK FALSE

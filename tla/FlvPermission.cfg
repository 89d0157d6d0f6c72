SPECIFICATION GuidedSpec
CONSTANTS
  MaxStarts = 3
  Track = {"audio"}
  VGOP = 1
  MaxStops = 2
  MaxFrames = 1
INVARIANT PublishAfterStart
CHECK_DEADLOCK FALSE

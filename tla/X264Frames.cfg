SPECIFICATION FairSpec
CONSTANTS
  Worker = {w1, w2, w3}
  NoArg = NoArg
  Arg <- MCArg
  Rows = 3
  MeRange = 8
  MvRange = 512
  Keyint = 3
  KeyintMin = 2
  NumRefs = 2
  Cuts = {1}
  MaxPictures = 4
  MaxFailures = 1
  FailRows = {2}
INVARIANTS
  PicturesInv
  NeverFull
  RefsReady
  CountsHold
PROPERTIES
  DecoderHasRefs
  PipeRefined
  CallsReturn
CHECK_DEADLOCK FALSE

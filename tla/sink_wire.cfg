SPECIFICATION FairSpec
CONSTANTS
  MaxBytes = 2
  HardBytes = 8
  MaxSpan = 9
  MaxItems = 4
  Inputs <- MCInputs
  HeadersAtZero = FALSE
  AudioLag = {0, 1}
  MaxFrames = 3
  MaxAudio = 1
  MaxVersions = 2
  MaxConnections = 2
CHECK_DEADLOCK FALSE
INVARIANTS HeaderBeforeFrame
PROPERTIES  HeadersConverge

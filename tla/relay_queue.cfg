SPECIFICATION Spec
CONSTANTS
  MaxBytes = 3
  HardBytes = 4
  MaxSpan = 1
  MaxItems = 3
  Inputs <- MCInputs
  Steps = {1, 2}
  TsMod = 4
  MaxClock = 6
  MaxFrames = 3
  MaxAudio = 2
  MaxVersions = 2
CHECK_DEADLOCK FALSE
INVARIANTS QueueAccounts HeadersKept
PROPERTIES GopPromise

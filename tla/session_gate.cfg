SPECIFICATION FairSpec
CONSTANTS
  Encoders = {e1, e2}
  Cameras = {c1}
  MaxRows = 2
  MaxKeys = 2
CHECK_DEADLOCK FALSE
INVARIANTS RowsHaveOwners SessionCoversWrites OldKeyIsOut
PROPERTIES CutPublisherLeaves OneSessionAtATime

SPECIFICATION HotFairSpec
CONSTANTS
  Dests = {d1}
  Requests = {r1, r2}
  OneAtATime = FALSE
  MaxSinks = 2
  MaxSessions = 1
CHECK_DEADLOCK FALSE
INVARIANTS RegisteredRuns
PROPERTIES RequestsAnswered

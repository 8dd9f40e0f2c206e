SPECIFICATION RequestsSpec
CONSTANTS
  Dests = {d1, d2}
  Requests = {r1}
  OneAtATime = TRUE
  MaxSinks = 4
  MaxSessions = 2
  Targets = {t1}
  Channels = {a, b}
  Asks = {q1, q2}
  MaxRefs = 2
  Flows = {f2, f3, f4}
  Visits = {v1, v2}
  MaxLive = 1
  MaxStarts = 2
  TTL = 2
  Exchange = 1
  Grace = 2
  KickMessages = {m1}
  Deliveries = {w1, w2}
  Window = 1
  AskedSeenTTL = 1
  KeyTTL = 3
  MinAge = 1
  Horizon = 5
  MaxKeys = 2
SYMMETRY Interchangeable
CHECK_DEADLOCK FALSE
INVARIANTS     KickOnce KickSignatures

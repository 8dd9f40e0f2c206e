SPECIFICATION BcSpec
CONSTANTS
  Targets = {t1}
  Channels = {a, b}
  Asks = {q1, q2}
  MaxRefs = 2
CHECK_DEADLOCK FALSE
INVARIANT BroadcastOfLinkedAccount

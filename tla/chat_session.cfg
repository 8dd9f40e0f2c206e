SPECIFICATION ChatFairSpec
CONSTANTS
  Accounts = {a}
  Hooks = {h}
  MaxSessions = 2
  MaxMsgs = 2
  EventBuffer = 2
  InputBuffer = 1
  BatchSize = 2
  RecentKeep = 1
  PanelBuffer = 1
  
PROPERTIES ReadersEndWithSession
CHECK_DEADLOCK FALSE

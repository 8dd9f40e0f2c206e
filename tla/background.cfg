SPECIFICATION BackgroundSpec
CONSTANTS
  Sockets = {1, 2, 3}
  WaitMax = 4
  MaxBroadcasts = 2
  MaxPosts = 2
  GiveUp = 1
  ListCost = 1
  PageCost = 2
  PanelCost = 3
  Budget = 4
  QuotaMax = 7
  SuspendAttempts = 4
  SuspendFlaps = 3
  BackoffCap = 3
  Stoppers = {s1, s2}
  MaxAttempts = 8
  Pubs = {1, 2}
  FeedSinks = {"s1", "s2"}
  Webhooks = {"h1", "h2"}
  MaxAlerts = 2
  AlertRoom = 1
  Parallel = 1
  Retries = 1
  TapRoom = 2
  TapHeaders = 2
  TapFrames = 3
CHECK_DEADLOCK FALSE
INVARIANTS TwitchReader YouTubePages StopIsFinal RetriesBounded OneFeed  PreviewPlays
PROPERTIES ReadersReturn SinkEnds SecondFeedEnds AlertsEnd

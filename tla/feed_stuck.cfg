\* One feed and one rollover at a time, whose fetch may fail before it succeeds.
CONSTANTS
  WindowLen = 2
  Guard = 2
  Lead = 0
  MaxWall = 2
  MaxShots = 0
  Rollovers = {r1}
  FetchFaults = TRUE
  Trades = {t1}
  Deltas <- UpDeltas
  FeedQuotes <- UpAsk
  MaxFeedFaults = 0
  Preemptible = FALSE
SPECIFICATION FairSpec
PROPERTY
  RolloverRestoresFeed

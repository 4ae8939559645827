\* The right to fire, the feed and the market come back across a rollover whose
\* fetch may fail any number of times.
CONSTANTS
  WindowLen = 1
  Guard = 1
  Lead = 0
  MaxWall = 1
  MaxShots = 0
  Rollovers = {r1}
  FetchFaults = TRUE
  Trades = {t1}
  Deltas <- BaseDelta
  FeedQuotes <- UpAsk
  MaxFeedFaults = 0
  Preemptible = FALSE
SPECIFICATION FairSpec
PROPERTIES
  NeverLocksUp
  FeedRestored
  ExpiredMarketReplaced

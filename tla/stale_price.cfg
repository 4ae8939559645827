\* One trade across one rollover.
CONSTANTS
  WindowLen = 2
  Guard = 2
  Lead = 0
  MaxWall = 2
  MaxShots = 0
  Rollovers = {r1}
  FetchFaults = FALSE
  Trades = {t1}
  Deltas <- UpDeltas
  FeedQuotes <- UpAsk
  MaxFeedFaults = 0
  Preemptible = FALSE
SPECIFICATION Spec
INVARIANT
  PricedFromItsMarket

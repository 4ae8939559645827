\* Two trades whose orders fail, two rollover identities, failing fetches, a feed that breaks
\* once, an exchange clock that leads by one tick: one rollover, its retries and
\* its repetitions.
CONSTANTS
  WindowLen = 2
  Guard = 2
  Lead = 1
  MaxWall = 2
  MaxShots = 0
  Rollovers = {r1, r2}
  FetchFaults = TRUE
  Trades = {t1, t2}
  Deltas <- BaseDelta
  FeedQuotes <- UpAsk
  MaxFeedFaults = 1
  Preemptible = FALSE
SYMMETRY Tasks
SPECIFICATION Spec
INVARIANTS
  TypeOK
  SingleRollover
  TradeTargetsLiveMarket
  StreamsCurrentMarket
  MomentumOfThisWindow
PROPERTIES
  RightsOnlyFromRollover
  ImplementsGate

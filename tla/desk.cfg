\* Paper and live orders beside sales, across one rollover.
CONSTANTS
  WindowLen = 2
  Guard = 2
  Lead = 0
  MaxWall = 2
  MaxShots = 2
  Rollovers = {r1}
  FetchFaults = TRUE
  Trades = {t1, t2}
  Modes = {"paper", "live"}
  Sides <- Up
  Offers <- Dear
  KellyPct = 40
  Start = 1000
  PartialFills = FALSE
  LostAnswers = TRUE
  BidPrices <- Loss
SYMMETRY Tasks
SPECIFICATION Spec
INVARIANTS
  TypeOK
  CashConserved
  PaperNeverOversold
  EvaluatesOpenPositions
PROPERTY
  ImplementsAccount

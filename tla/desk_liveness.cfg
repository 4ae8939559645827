\* Two orders at once, each for half of the bankroll, beside the position manager
\* in one window and after its end.
CONSTANTS
  WindowLen = 1
  Guard = 1
  Lead = 0
  MaxWall = 1
  MaxShots = 2
  Rollovers = {}
  FetchFaults = FALSE
  Trades = {t1, t2}
  Modes = {"paper", "live"}
  Sides <- Up
  Offers <- Fair
  KellyPct = 50
  Start = 500
  PartialFills = FALSE
  LostAnswers = TRUE
  BidPrices <- Loss
SPECIFICATION FairSpec
PROPERTIES
  RoundsEnd
  BankrollReconciled

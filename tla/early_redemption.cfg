\* A live position, opened while the bankroll is reconciled across a rollover.
CONSTANTS
  WindowLen = 2
  Guard = 2
  Lead = 0
  MaxWall = 2
  MaxShots = 2
  Rollovers = {r1}
  FetchFaults = FALSE
  Trades = {t1}
  Modes = {"live"}
  Sides <- Up
  Offers <- Fair
  KellyPct = 25
  Start = 2000
  PartialFills = FALSE
  LostAnswers = FALSE
  BidPrices <- Loss
SPECIFICATION Spec
INVARIANT
  RedeemedAfterExpiry

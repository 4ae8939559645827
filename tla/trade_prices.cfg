SPECIFICATION Spec
CONSTANTS
  TakeProfitPct = 15
  SlippagePct = 5
  ExitCeiling = 98
  MaxBuyPrice = 85
  MaxSpread = 5
  MomentumThreshold = 4000
  MomentumStepPct = 15
  KellyScoreA = 80
  KellyPctA = 50
  KellyScoreB = 60
  KellyPctB = 33
  KellyPctC = 25
  MomentumMultiplierPct = 15
  BaseScore = 50
  MinScore = 40
  MaxMomentumBonus = 20
  BailoutScore = 25
  HighPrice = 80
  TimeDanger = 300
  TimeWarn = 120
  TimeDangerPenalty = 30
  TimeWarnPenalty = 15
  NoBidsPenalty = 40
  DeathTrap1 = 10
  DeathTrapPenalty1 = 40
  DeathTrap2 = 20
  DeathTrapPenalty2 = 20
  SafeBid = 95
  SafeTime = 120
  ImpatienceSec = 200
  ImpatiencePct = 2
  StartingBankroll = 30000
  Books <- MCBooks
  Deltas <- MCDeltas
  Moments <- MCMoments
  Window = 900
  MaxShots = 2
INVARIANTS TypeOK PnlAccounts
PROPERTIES PaysAtMostMax NoInstantBailout ProfitExitsProfit

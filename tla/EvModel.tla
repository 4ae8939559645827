-------------------------------- MODULE EvModel --------------------------------
(***************************************************************************)
(* The formulas that decide about prices: the momentum that a buy needs    *)
(* (src/src/situation_room.rs), the price and size of its order             *)
(* (src/src/streams.rs, src/src/executor.rs) and the exits of a position.  *)
(* A quote of 0 stands for none.  A price with slippage is in pips,        *)
(* hundredths of a cent, and a penalty in fiftieths of a point, so that     *)
(* both are exact.                                                         *)
(***************************************************************************)
EXTENDS Config

Veto == 1000000000      \* f64::MAX, a momentum that no tick reaches

Pips(cents) == 100 * cents
Fiftieths(points) == 50 * points

(* ask * slippage_multiplier, at most 0.99. *)
EntryPrice(ask) == Least(ask * (100 + SlippagePct), Pips(99))

(* The longer a dear token has yet to run, the more it is penalised. *)
TimePenalty(price, left) ==
  IF price <= Pips(HighPrice) THEN 0
  ELSE IF left > TimeDanger THEN Fiftieths(TimeDangerPenalty)
  ELSE IF left > TimeWarn THEN Fiftieths(TimeWarnPenalty) ELSE 0

(* Above the tolerated spread all of it counts, 200 points for a dollar:   *)
(* one fiftieth of a point for each pip.                                   *)
SpreadPenalty(price, bid) ==
  LET spread == Most(price - Pips(bid), 0)
  IN  IF bid = 0 THEN Fiftieths(NoBidsPenalty)
      ELSE IF spread > Pips(MaxSpread) THEN spread
      ELSE IF spread > Pips(2) THEN Fiftieths(10) ELSE 0

(* Mutant: cheap tokens are not penalised. *)
NoDeathTrap(price) == 0

DeathTrapPenalty(price) ==
  IF price < Pips(DeathTrap1) THEN Fiftieths(DeathTrapPenalty1)
  ELSE IF price < Pips(DeathTrap2) THEN Fiftieths(DeathTrapPenalty2) ELSE 0

(* What momentum must add to the base score. *)
Needed(price, bid, left) ==
  Fiftieths(MinScore - BaseScore)
    + TimePenalty(price, left) + SpreadPenalty(price, bid) + DeathTrapPenalty(price)

(* The momentum in cents, rounded up, whose bonus covers what is needed.    *)
(* A multiplier of zero makes it infinite.                                 *)
MomentumFor(needed) ==
  IF needed <= 0 THEN 0
  ELSE IF needed > Fiftieths(MaxMomentumBonus) \/ MomentumMultiplierPct = 0 THEN Veto
  ELSE (200 * needed + MomentumMultiplierPct - 1) \div MomentumMultiplierPct

(* Mutant: the ceiling on the price is left out. *)
MomentumWithoutCeiling(ask, bid, left) ==
  IF ask = 0 THEN Veto ELSE MomentumFor(Needed(EntryPrice(ask), bid, left))

(* calculate_required_momentum. *)
RequiredMomentum(ask, bid, left) ==
  IF ask = 0 \/ EntryPrice(ask) > Pips(MaxBuyPrice) THEN Veto
  ELSE MomentumFor(Needed(EntryPrice(ask), bid, left))

(* Mutant: the floor is added. *)
MergedBySum(dynamic, floor) == dynamic + floor

(* merge_thresholds. *)
Merged(dynamic, floor) == Most(dynamic, floor)
-----------------------------------------------------------------------------
(* The cheaper of the real ask and the one that the other side's bid        *)
(* implies; 0 when there is neither.                                       *)
EffectiveAsk(book) ==
  LET asks == {book.ask} \cup (IF book.opposing > 0 THEN {100 - book.opposing} ELSE {})
  IN  IF asks = {0} THEN 0
      ELSE CHOOSE a \in asks \ {0} : \A b \in asks \ {0} : a <= b

(* build_trigger_snapshot aborts when both sides are quoted and too far     *)
(* apart.                                                                  *)
SpreadTooWide(book) ==
  book.ask > 0 /\ book.bid > 0 /\ book.ask - book.bid > MaxSpread

(* execute_trade: the limit in whole cents, within 1 and 99. *)
BuyPrice(pips) == (Least(Most(pips, Pips(1)), Pips(99)) + 50) \div 100

(* execute_trade passes a score of 100 whatever the EV model says. *)
BuySize(bankroll, ask) == (bankroll * KellyFraction(100)) \div (100 * ask)
-----------------------------------------------------------------------------
(* The exits.  A position p has spent cents on its shares; its cost basis   *)
(* is their quotient, so that a price is compared with it by the worth of   *)
(* the whole position, in hundredths of a cent.                            *)
Worth(p, bid) == 100 * bid * p.shares

(* calculate_hold_ev < ev_bailout_score_thresh, the score times spent. *)
HoldPenalty(left) == (IF left < 300 THEN 30 ELSE 0) + (IF left < 120 THEN 20 ELSE 0)

HoldEv(p, bid, left) ==
  IF bid * p.shares >= p.spent THEN 100 * p.spent
  ELSE Most(0, (100 - HoldPenalty(left)) * p.spent - 60 * (p.spent - bid * p.shares))

NotWorthHolding(p, bid, left) == HoldEv(p, bid, left) < BailoutScore * p.spent

(* is_safe_to_hold_to_expiry. *)
SafeToHold(bid, left) == bid >= SafeBid /\ left >= SafeTime

(* Mutant: the percentage is taken for the factor. *)
ImpatienceTargetPctOnly(p) == ImpatiencePct * p.spent

(* impatience_target_price and Position::take_profit_price. *)
ImpatienceTarget(p) == (100 + ImpatiencePct) * p.spent

TakeProfitTarget(p) ==
  Least((100 + TakeProfitPct) * p.spent, 100 * ExitCeiling * p.shares)
=============================================================================

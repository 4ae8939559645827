--------------------------- MODULE ComponentProofs ---------------------------
(***************************************************************************)
(* Type lemmas about the rollover and the trades, apart from the systems   *)
(* that they are composed into: SniperBot and TradingDesk.                 *)
(***************************************************************************)
EXTENDS RolloverTask, TriggerBuy, TLAPS

(* A window ends after the instant it is computed for, and a later instant *)
(* never yields an earlier window (compute_next_expiry).                   *)
LEMMA NextExpiryFact ==
  ASSUME NEW a \in Nat
  PROVE  NextExpiry(a) \in Nat /\ NextExpiry(a) > a
BY ClockAssumption, SMT DEF NextExpiry

LEMMA NextExpiryMonotone ==
  ASSUME NEW a \in Nat, NEW b \in Nat, a <= b
  PROVE  NextExpiry(a) <= NextExpiry(b)
BY ClockAssumption, SMT DEF NextExpiry
-----------------------------------------------------------------------------
LEMMA SharedInitType == SharedInit => SharedTypeOK
<1> SUFFICES ASSUME SharedInit PROVE SharedTypeOK
  OBVIOUS
<1> USE ClockAssumption
<1>1. wall = 0 /\ NextExpiry(wall) \in Nat
  BY NextExpiryFact DEF SharedInit
<1>2. Veto \in 0 .. Veto
  BY DEF Veto
<1>3. EscalatedThreshold(0) \in Level
  BY DEF EscalatedThreshold, Level
<1>4. market \in Nat /\ market_expiry \in Nat /\ wall \in 0 .. MaxWall
  BY <1>1 DEF SharedInit, NoMarket
<1>5. /\ is_armed \in BOOLEAN /\ is_rolling_over \in BOOLEAN
      /\ poly_disconnect \in BOOLEAN /\ poly_reconnect \in BOOLEAN
      /\ last_ts \in BOOLEAN
  BY DEF SharedInit
<1>6. trigger \in [Direction -> 0 .. Veto]
  BY <1>2 DEF SharedInit
<1>7. /\ ema_price \in Nat /\ book \in [Quote -> Nat]
      /\ dynamic_threshold \in Level /\ window_shots_fired \in Nat
  BY <1>3 DEF SharedInit, Zeroed, None
<1> QED
  BY <1>4, <1>5, <1>6, <1>7 DEF SharedTypeOK

LEMMA TaskInitType ==
  /\ RolloverInit => RolloverTypeOK
  /\ TradeInit => TradeTypeOK
BY DEF RolloverInit, RolloverTypeOK, TradeInit, TradeTypeOK, NoSnapshot, TriggerSnapshot,
  NoMarket, None

(* A rollover writes the shared state and its own variables only. *)
LEMMA RolloverStepType ==
  ASSUME SharedTypeOK, RolloverTypeOK, NEW r \in Rollovers, RolloverNext(r)
  PROVE  SharedTypeOK' /\ RolloverTypeOK'
<1> USE DEF SharedTypeOK, RolloverTypeOK, Goto, RolloverStep, NoMarket, None, Zeroed
<1>1. SharedTypeOK'
  <2> USE ClockAssumption DEF shared, marketVars, streamVars, emaVars, sniperVars
  <2>1. CASE Disarm(r) BY <2>1 DEF Disarm
  <2>2. CASE NotifyDisconnect(r) BY <2>2 DEF NotifyDisconnect
  <2>3. CASE ResetBook(r) BY <2>3 DEF ResetBook
  <2>4. CASE ResetEma(r) BY <2>4 DEF ResetEma
  <2>5. CASE ResetLastTs(r) BY <2>5 DEF ResetLastTs
  <2>6. CASE ResetShots(r) BY <2>6 DEF ResetShots
  <2>7. CASE ResetDynamic(r)
    BY <2>7 DEF ResetDynamic, EscalatedThreshold, Level
  <2>8. CASE ResetTriggers(r)
    BY <2>8 DEF ResetTriggers, Veto
  <2>9. CASE PickWindow(r) BY <2>9 DEF PickWindow
  <2>10. CASE FetchOk(r) BY <2>10 DEF FetchOk
  <2>11. CASE FetchErr(r) BY <2>11 DEF FetchErr
  <2>12. CASE PublishMarket(r) BY <2>12 DEF PublishMarket
  <2>13. CASE PublishExpiry(r) BY <2>13 DEF PublishExpiry
  <2>14. CASE NotifyReconnect(r) BY <2>14 DEF NotifyReconnect
  <2>15. CASE Arm(r) BY <2>15 DEF Arm
  <2>16. CASE ClearRolling(r) BY <2>16 DEF ClearRolling
  <2> QED
    BY <2>1, <2>2, <2>3, <2>4, <2>5, <2>6, <2>7, <2>8, <2>9, <2>10, <2>11, <2>12,
       <2>13, <2>14, <2>15, <2>16 DEF RolloverNext
<1>2. RolloverTypeOK'
  <2>1. NextExpiry(wall) \in Nat
    BY NextExpiryFact
  <2> QED
    BY <2>1 DEF RolloverNext, Disarm, NotifyDisconnect, ResetBook, ResetEma,
      ResetLastTs, ResetShots, ResetDynamic, ResetTriggers, PickWindow, FetchOk,
      FetchErr, PublishMarket, PublishExpiry, NotifyReconnect, Arm, ClearRolling
<1> QED
  BY <1>1, <1>2

(* A trade writes its own variables, the shot count, the dynamic threshold *)
(* and the armed flag.                                                     *)
LEMMA TradeStepType ==
  ASSUME SharedTypeOK, TradeTypeOK, NEW t \in Trades, TradeNext(t)
  PROVE  SharedTypeOK' /\ TradeTypeOK'
<1> USE ClockAssumption
<1>1. TradeTypeOK'
  <2> USE DEF TradeTypeOK
  <2>1. NoSnapshot \in TriggerSnapshot
    BY DEF NoSnapshot, TriggerSnapshot, NoMarket, None
  <2>2. CASE BuyFilled(t) \/ BuyFailed(t) \/ Escalate(t)
    BY <2>2 DEF BuyFilled, BuyFailed, Escalate
  <2>3. CASE IncrementShots(t)
    BY <2>3 DEF IncrementShots, SharedTypeOK
  <2>4. CASE Rearm(t)
    BY <2>1, <2>4 DEF Rearm
  <2> QED
    BY <2>2, <2>3, <2>4 DEF TradeNext
<1>2. SharedTypeOK'
  <2> USE DEF SharedTypeOK, shared, marketVars, streamVars, emaVars, sniperVars
  <2>1. CASE Escalate(t)
    BY <2>1 DEF Escalate, EscalatedThreshold, Level, TradeTypeOK
  <2>2. CASE IncrementShots(t)
    BY <2>2 DEF IncrementShots
  <2>3. CASE Rearm(t)
    BY <2>3 DEF Rearm
  <2>4. CASE BuyFilled(t) \/ BuyFailed(t)
    BY <2>4 DEF BuyFilled, BuyFailed
  <2> QED
    BY <2>1, <2>2, <2>3, <2>4 DEF TradeNext
<1> QED
  BY <1>1, <1>2
=============================================================================

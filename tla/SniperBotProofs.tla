--------------------------- MODULE SniperBotProofs ---------------------------
(***************************************************************************)
(* What holds of SniperBot for every value of its constants: type          *)
(* correctness, the rollover lock, the feed's signal, the invariants that   *)
(* rest on the order in which a rollover publishes, and the EMA's window.   *)
(***************************************************************************)
EXTENDS SniperBot, ComponentProofs
-----------------------------------------------------------------------------
LEMMA InitType == Init => TypeOK
<1> SUFFICES ASSUME Init PROVE TypeOK
  OBVIOUS
<1> USE ClockAssumption, FeedAssumption
<1> USE DEF Init, TypeOK
<1>1. SharedTypeOK
  BY SharedInitType
<1>2. RolloverTypeOK
  BY TaskInitType
<1>3. TradeTypeOK
  BY TaskInitType
<1>4. BinanceTypeOK
  BY DEF BinanceInit, BinanceTypeOK, NoDelta, Delta, Direction, Level, Zeroed, None
<1>5. SituationTypeOK
  BY DEF SituationInit, SituationTypeOK, Veto
<1>6. PolyTypeOK
  BY DEF PolyInit, PolyTypeOK, NoMarket
<1> QED
  BY <1>1, <1>2, <1>3, <1>4, <1>5, <1>6

LEMMA RolloverType ==
  ASSUME TypeOK, NEW r \in Rollovers, Rollover(r)
  PROVE  TypeOK'
<1>1. SharedTypeOK' /\ RolloverTypeOK'
  BY RolloverStepType DEF TypeOK, Rollover
<1> QED
  BY <1>1 DEF TypeOK, Rollover, tradeVars, binanceVars, situationVars, polyVars,
    TradeTypeOK, BinanceTypeOK, SituationTypeOK, PolyTypeOK

(* A tick writes the EMA, the armed flag and the lock, and spawns tasks. *)
LEMMA BinanceType ==
  ASSUME TypeOK, Binance
  PROVE  TypeOK'
<1> USE ClockAssumption DEF TypeOK, Binance
<1>1. BinanceTypeOK'
  <2> USE DEF BinanceTypeOK, SharedTypeOK, Step, Return, Zeroed, None
  <2>1. NoDelta \in Delta
    BY DEF NoDelta, Delta, Direction
  <2>2. CASE ReceiveTick
    <3>1. PICK ts \in bts .. wall + Lead : bts' = ts
      BY <2>2 DEF ReceiveTick
    <3>2. bts' \in Nat
      BY <3>1
    <3> QED
      BY <2>2, <3>2 DEF ReceiveTick
  <2>3. CASE StartRollover \/ DropExpiredTick \/ GuardPasses \/ GuardDropsTick
    BY <2>1, <2>3 DEF StartRollover, DropExpiredTick, GuardPasses, GuardDropsTick
  <2>4. CASE ColdStart \/ WarmStart \/ StoreEma \/ StoreLastTs
    BY <2>1, <2>4 DEF ColdStart, WarmStart, StoreEma, StoreLastTs
  <2>5. CASE MixEma
    BY <2>5, DeltaAssumption DEF MixEma
  <2>6. CASE SniperArmed \/ SniperNotArmed \/ BelowTrigger \/ TryDisarm \/ DisarmLost
    BY <2>1, <2>6 DEF SniperArmed, SniperNotArmed, BelowTrigger, TryDisarm, DisarmLost
  <2>7. CASE Crosses
    BY <2>7 DEF Crosses, Delta
  <2>8. CASE ReadBook
    <3>1. EffectiveAsk(delta.dir) \subseteq Nat
      BY DEF EffectiveAsk, Opposite, Delta, Direction, Quote
    <3> QED
      BY <2>8, <3>1 DEF ReadBook
  <2>9. CASE NoAsk \/ Fire \/ NoMarketLoaded \/ RearmAtOnce
    BY <2>1, <2>9 DEF NoAsk, Fire, NoMarketLoaded, RearmAtOnce
  <2> QED
    BY <2>2, <2>3, <2>4, <2>5, <2>6, <2>7, <2>8, <2>9 DEF BinanceNext
<1>2. TradeTypeOK'
  <2>1. CASE Fire
    <3>1. PICK t \in Trades :
            SpawnTrade(t, [market |-> market, ts |-> bts, price |-> bprice])
      BY <2>1 DEF Fire
    <3>2. [market |-> market, ts |-> bts, price |-> bprice]
            \in TriggerSnapshot
      BY DEF TriggerSnapshot, SharedTypeOK, BinanceTypeOK
    <3> QED
      BY <3>1, <3>2 DEF SpawnTrade, TradeTypeOK
  <2>2. CASE ~Fire
    BY <2>2 DEF TradeTypeOK, tradeVars, BinanceNext, ReceiveTick, StartRollover,
      DropExpiredTick, GuardPasses, GuardDropsTick, ColdStart, WarmStart, MixEma,
      StoreEma, StoreLastTs, SniperArmed, SniperNotArmed, Crosses, BelowTrigger,
      TryDisarm, DisarmLost, ReadBook, NoAsk, NoMarketLoaded, RearmAtOnce
  <2> QED
    BY <2>1, <2>2
<1>3. RolloverTypeOK'
  <2>1. CASE StartRollover
    BY <2>1 DEF StartRollover, SpawnRollover, Goto, RolloverTypeOK, RolloverStep
  <2>2. CASE ~StartRollover
    BY <2>2 DEF RolloverTypeOK, rolloverVars, BinanceNext, ReceiveTick,
      DropExpiredTick, GuardPasses, GuardDropsTick, ColdStart, WarmStart, MixEma,
      StoreEma, StoreLastTs, SniperArmed, SniperNotArmed, Crosses, BelowTrigger,
      TryDisarm, DisarmLost, ReadBook, NoAsk, Fire, NoMarketLoaded, RearmAtOnce
  <2> QED
    BY <2>1, <2>2
<1>4. SharedTypeOK'
  <2> USE DEF SharedTypeOK, shared, marketVars, streamVars, emaVars, sniperVars
  <2>1. CASE StartRollover
    BY <2>1 DEF StartRollover
  <2>2. CASE StoreEma
    BY <2>2 DEF StoreEma, BinanceTypeOK
  <2>3. CASE StoreLastTs
    BY <2>3 DEF StoreLastTs
  <2>4. CASE TryDisarm
    BY <2>4 DEF TryDisarm
  <2>5. CASE RearmAtOnce
    BY <2>5 DEF RearmAtOnce
  <2>6. CASE UNCHANGED shared
    BY <2>6
  <2> QED
    BY <2>1, <2>2, <2>3, <2>4, <2>5, <2>6 DEF BinanceNext, ReceiveTick,
      DropExpiredTick, GuardPasses, GuardDropsTick, ColdStart, WarmStart, MixEma,
      SniperArmed, SniperNotArmed, Crosses, BelowTrigger, DisarmLost, ReadBook, NoAsk,
      Fire, NoMarketLoaded
<1>5. SituationTypeOK' /\ PolyTypeOK'
  BY DEF situationVars, polyVars, SituationTypeOK, PolyTypeOK
<1> QED
  BY <1>1, <1>2, <1>3, <1>4, <1>5

LEMMA TradeType ==
  ASSUME TypeOK, NEW t \in Trades, Trade(t)
  PROVE  TypeOK'
<1>1. SharedTypeOK' /\ TradeTypeOK'
  BY TradeStepType DEF TypeOK, Trade
<1> QED
  BY <1>1 DEF TypeOK, Trade, rolloverVars, binanceVars, situationVars, polyVars,
    RolloverTypeOK, BinanceTypeOK, SituationTypeOK, PolyTypeOK

(* The SituationRoom writes its own variables and the triggers; a merged   *)
(* trigger lies between the dynamic threshold and the veto.                *)
LEMMA SituationType ==
  ASSUME TypeOK, Situation
  PROVE  TypeOK'
<1> USE ClockAssumption DEF TypeOK, Situation, SharedTypeOK, SituationTypeOK
<1>1. CASE WakeUp \/ CheckMarket
  BY <1>1 DEF WakeUp, CheckMarket, shared, rolloverVars, tradeVars, binanceVars, polyVars,
    RolloverTypeOK, TradeTypeOK, BinanceTypeOK, PolyTypeOK
<1>2. CASE ReadQuotes
  BY <1>2 DEF ReadQuotes, shared, rolloverVars, tradeVars, binanceVars, polyVars,
    RolloverTypeOK, TradeTypeOK, BinanceTypeOK, PolyTypeOK
<1>3. CASE MergeDynamic
  <2>1. \A d \in Direction : MergeThresholds(dynamic_threshold, slevel[d]) \in 0 .. Veto
    BY DEF MergeThresholds, Level, Veto
  <2> QED
    BY <1>3, <2>1 DEF MergeDynamic, shared, rolloverVars, tradeVars, binanceVars, polyVars,
      RolloverTypeOK, TradeTypeOK, BinanceTypeOK, PolyTypeOK
<1>4. CASE SetTriggers
  <2>1. trigger' \in [Direction -> 0 .. Veto]
    BY <1>4 DEF SetTriggers
  <2>2. slevel' \in [Direction -> 0 .. Veto]
    BY <1>4 DEF SetTriggers, Veto
  <2> QED
    BY <1>4, <2>1, <2>2 DEF SetTriggers, marketVars, streamVars, emaVars, rolloverVars,
      tradeVars, binanceVars, polyVars, RolloverTypeOK, TradeTypeOK, BinanceTypeOK,
      PolyTypeOK
<1> QED
  BY <1>1, <1>2, <1>3, <1>4 DEF SituationNext

(* The feed writes its own variables, the book and the two permits. *)
LEMMA PolyType ==
  ASSUME TypeOK, Poly
  PROVE  TypeOK'
<1> USE FeedAssumption DEF TypeOK, Poly, SharedTypeOK
<1>1. SharedTypeOK' /\ PolyTypeOK'
  <2> USE DEF PolyTypeOK, shared, marketVars, emaVars, sniperVars, NoMarket, None
  <2>1. CASE LoadMarket \/ Connect \/ ConnectionFault
    BY <2>1 DEF LoadMarket, Connect, ConnectionFault
  <2>2. CASE BookMessage
    <3>1. PICK q \in FeedQuotes, price \in {pmarket, None} :
            book' = [book EXCEPT ![q] = price]
      BY <2>2 DEF BookMessage
    <3>2. book' \in [Quote -> Nat]
      BY <3>1
    <3> QED
      BY <2>2, <3>2 DEF BookMessage
  <2>3. CASE DisconnectSignal
    BY <2>3 DEF DisconnectSignal
  <2>4. CASE ReconnectSignal
    BY <2>4 DEF ReconnectSignal
  <2> QED
    BY <2>1, <2>2, <2>3, <2>4 DEF PolyNext
<1> QED
  BY <1>1 DEF rolloverVars, tradeVars, binanceVars, situationVars, RolloverTypeOK,
    TradeTypeOK, BinanceTypeOK, SituationTypeOK

(* The clock advances up to its bound. *)
LEMMA ClockType ==
  ASSUME TypeOK, Clock
  PROVE  TypeOK'
BY ClockAssumption DEF TypeOK, Clock, Tick, SharedTypeOK, marketVars, streamVars, emaVars,
  sniperVars, rolloverVars, tradeVars, binanceVars, situationVars, polyVars,
  RolloverTypeOK, TradeTypeOK, BinanceTypeOK, SituationTypeOK, PolyTypeOK

LEMMA StutterType ==
  ASSUME TypeOK, UNCHANGED vars
  PROVE  TypeOK'
BY DEF TypeOK, vars, shared, rolloverVars, tradeVars, binanceVars, situationVars, polyVars,
  SharedTypeOK, RolloverTypeOK, TradeTypeOK, BinanceTypeOK, SituationTypeOK, PolyTypeOK

LEMMA NextType == TypeOK /\ [Next]_vars => TypeOK'
BY RolloverType, BinanceType, TradeType, SituationType, PolyType, ClockType, StutterType
  DEF Next

(* Every variable keeps its type, whatever the tasks do: in particular the *)
(* thresholds stay between the base and the veto, so that no escalation or *)
(* merge yields a trigger outside of that order.                           *)
THEOREM TypeCorrect == Spec => []TypeOK
<1>1. Init => TypeOK
  BY InitType
<1>2. TypeOK /\ [Next]_vars => TypeOK'
  BY NextType
<1> QED
  BY <1>1, <1>2, PTL DEF Spec
-----------------------------------------------------------------------------
(* Whoever streams an old market is woken: by the permit that is stored,   *)
(* or by a rollover that has published and is about to store one.          *)
FeedHasSignal ==
  ppc \in {"connect", "stream"} /\ pmarket # market =>
    poly_reconnect \/ \E r \in Rollovers : rpc[r] \in {"expiry", "reconnect"}

(* Nothing that is published or fetched lies beyond the window of now. *)
NothingAhead ==
  /\ market <= NextExpiry(wall)
  /\ market_expiry <= NextExpiry(wall)
  /\ \A r \in Rollovers : fetched[r] <= NextExpiry(wall)

(* A market that a rollover is about to publish is no older than the       *)
(* published one; half-way, the market is new and its expiry is still old. *)
FetchedIsNewest ==
  \A r \in Rollovers :
    /\ rpc[r] \in {"fetch", "market"} =>
         market <= fetched[r] /\ market_expiry <= fetched[r]
    /\ rpc[r] = "expiry" =>
         market = fetched[r] /\ market_expiry <= fetched[r]

(* The expiry never runs ahead of the market that it is the expiry of. *)
ExpiryNotAhead == market # NoMarket => market_expiry <= market

(* A tick past the guard is far enough from an expiry that was published. *)
PastGuard ==
  bpc \in {"last_ts", "ema", "store_ema", "store_ts", "armed", "trigger", "disarm",
           "book", "market"}
    => bexpiry <= market_expiry /\ bts + Guard <= bexpiry

MarketInv ==
  NothingAhead /\ FetchedIsNewest /\ ExpiryNotAhead /\ PastGuard
    /\ TradeTargetsLiveMarket
-----------------------------------------------------------------------------
(* What the steps leave alone. *)
LEMMA OthersKeepLock ==
  ASSUME \/ Clock \/ Situation \/ Poly \/ UNCHANGED vars
         \/ \E t \in Trades : Trade(t)
         \/ Binance /\ ~StartRollover
  PROVE  UNCHANGED <<rpc, fetched, is_rolling_over, market, market_expiry>>
<1>1. CASE Clock \/ UNCHANGED vars
  BY <1>1 DEF Clock, Tick, vars, shared, rolloverVars, marketVars
<1>2. CASE Situation
  BY <1>2 DEF Situation, SituationNext, WakeUp, CheckMarket, ReadQuotes, MergeDynamic,
    SetTriggers, shared, rolloverVars, marketVars
<1>3. CASE Poly
  BY <1>3 DEF Poly, PolyNext, LoadMarket, Connect, ConnectionFault, BookMessage,
    DisconnectSignal, ReconnectSignal, shared, rolloverVars, marketVars
<1>4. CASE \E t \in Trades : Trade(t)
  BY <1>4 DEF Trade, TradeNext, BuyFilled, BuyFailed, IncrementShots, Escalate, Rearm,
    shared, rolloverVars, marketVars
<1>5. CASE Binance /\ ~StartRollover
  BY <1>5 DEF Binance, BinanceNext, ReceiveTick, DropExpiredTick, GuardPasses,
    GuardDropsTick, ColdStart, WarmStart, MixEma, StoreEma, StoreLastTs, SniperArmed,
    SniperNotArmed, Crosses, BelowTrigger, TryDisarm, DisarmLost, ReadBook, NoAsk, Fire,
    NoMarketLoaded, RearmAtOnce, shared, rolloverVars, marketVars
<1> QED
  BY <1>1, <1>2, <1>3, <1>4, <1>5

LEMMA InitLock == Init => SingleRollover
BY DEF Init, SharedInit, RolloverInit, SingleRollover, Active

(* The compare_exchange admits one rollover, and the store of step k comes *)
(* last on both of its paths.                                              *)
LEMMA LockStep ==
  ASSUME TypeOK, SingleRollover, [Next]_vars
  PROVE  SingleRollover'
<1> USE DEF SingleRollover, Active
<1>1. CASE UNCHANGED <<rpc, is_rolling_over>>
  BY <1>1
<1>2. CASE Binance /\ StartRollover
  <2>1. PICK r \in Rollovers : SpawnRollover(r)
    BY <1>2 DEF StartRollover
  <2>2. is_rolling_over' = TRUE /\ ~is_rolling_over
    BY <1>2 DEF StartRollover
  <2> QED
    BY <2>1, <2>2 DEF SpawnRollover, Goto, TypeOK, RolloverTypeOK
<1>3. ASSUME NEW r \in Rollovers, Rollover(r)
      PROVE  SingleRollover'
  <2>1. r \in Active
    BY <1>3 DEF Rollover, RolloverNext, Goto, Disarm, NotifyDisconnect, ResetBook,
      ResetEma, ResetLastTs, ResetShots, ResetDynamic, ResetTriggers, PickWindow, FetchOk,
      FetchErr, PublishMarket, PublishExpiry, NotifyReconnect, Arm, ClearRolling
  <2>2. CASE ClearRolling(r)
    <3>1. rpc' = [rpc EXCEPT ![r] = "idle"] /\ is_rolling_over' = FALSE
      BY <2>2 DEF ClearRolling, Goto
    <3> QED
      BY <2>1, <3>1 DEF TypeOK, RolloverTypeOK
  <2>3. CASE ~ClearRolling(r)
    <3>1. /\ \E to \in RolloverStep : rpc' = [rpc EXCEPT ![r] = to]
          /\ UNCHANGED is_rolling_over
      BY <1>3, <2>3 DEF Rollover, RolloverNext, RolloverStep, Goto, Disarm,
        NotifyDisconnect, ResetBook, ResetEma, ResetLastTs, ResetShots, ResetDynamic,
        ResetTriggers, PickWindow, FetchOk, FetchErr, PublishMarket, PublishExpiry,
        NotifyReconnect, Arm, shared
    <3>2. PICK to \in RolloverStep : rpc' = [rpc EXCEPT ![r] = to]
      BY <3>1
    <3>3. Active' = Active
      BY <2>1, <3>2 DEF RolloverStep, TypeOK, RolloverTypeOK
    <3> QED
      BY <3>1, <3>3
  <2> QED
    BY <2>2, <2>3
<1> QED
  BY <1>1, <1>2, <1>3, OthersKeepLock DEF Next

(* At most one rollover runs, and is_rolling_over says whether one does.   *)
THEOREM RolloverLock == Spec => []SingleRollover
<1>1. Init => SingleRollover
  BY InitLock
<1>2. TypeOK /\ SingleRollover /\ [Next]_vars => SingleRollover'
  BY LockStep
<1> QED
  BY <1>1, <1>2, TypeCorrect, PTL DEF Spec
-----------------------------------------------------------------------------
LEMMA InitFeed == Init => FeedHasSignal
BY DEF Init, PolyInit, FeedHasSignal

LEMMA FeedStep ==
  ASSUME TypeOK, FeedHasSignal, [Next]_vars
  PROVE  FeedHasSignal'
<1> USE DEF FeedHasSignal
<1>1. CASE UNCHANGED <<rpc, market>> /\ UNCHANGED <<ppc, pmarket, poly_reconnect>>
  BY <1>1
<1>2. CASE Poly
  <2>1. UNCHANGED <<rpc, market>>
    BY <1>2, OthersKeepLock
  <2>2. CASE LoadMarket
    BY <2>1, <2>2 DEF LoadMarket
  <2>3. CASE Connect \/ BookMessage
    BY <2>1, <2>3 DEF Connect, BookMessage, shared
  <2>4. CASE ConnectionFault \/ DisconnectSignal \/ ReconnectSignal
    BY <2>4 DEF ConnectionFault, DisconnectSignal, ReconnectSignal
  <2> QED
    BY <1>2, <2>2, <2>3, <2>4 DEF Poly, PolyNext
<1>3. ASSUME NEW r \in Rollovers, Rollover(r)
      PROVE  FeedHasSignal'
  <2> USE DEF TypeOK, RolloverTypeOK, Goto
  <2>1. UNCHANGED <<ppc, pmarket>>
    BY <1>3 DEF Rollover, polyVars
  <2>2. CASE PublishMarket(r)
    BY <2>2 DEF PublishMarket
  <2>3. CASE PublishExpiry(r)
    BY <2>1, <2>3 DEF PublishExpiry, streamVars
  <2>4. CASE NotifyReconnect(r)
    BY <2>4 DEF NotifyReconnect
  <2>5. CASE ~PublishMarket(r) /\ ~PublishExpiry(r) /\ ~NotifyReconnect(r)
    <3>1. UNCHANGED <<market, poly_reconnect>>
      BY <1>3, <2>5 DEF Rollover, RolloverNext, Disarm, NotifyDisconnect, ResetBook,
        ResetEma, ResetLastTs, ResetShots, ResetDynamic, ResetTriggers, PickWindow,
        FetchOk, FetchErr, Arm, ClearRolling, shared, marketVars, streamVars
    <3>2. rpc[r] \notin {"expiry", "reconnect"}
      BY <1>3, <2>5 DEF Rollover, RolloverNext, Disarm, NotifyDisconnect, ResetBook,
        ResetEma, ResetLastTs, ResetShots, ResetDynamic, ResetTriggers, PickWindow,
        FetchOk, FetchErr, Arm, ClearRolling
    <3>3. \A s \in Rollovers \ {r} : rpc'[s] = rpc[s]
      BY <1>3 DEF Rollover, RolloverNext, Disarm, NotifyDisconnect, ResetBook,
        ResetEma, ResetLastTs, ResetShots, ResetDynamic, ResetTriggers, PickWindow,
        FetchOk, FetchErr, PublishMarket, PublishExpiry, NotifyReconnect, Arm,
        ClearRolling
    <3> QED
      BY <2>1, <3>1, <3>2, <3>3
  <2> QED
    BY <2>2, <2>3, <2>4, <2>5
<1>4. CASE Binance
  <2>1. UNCHANGED <<ppc, pmarket, market, poly_reconnect>>
    BY <1>4 DEF Binance, polyVars, BinanceNext, ReceiveTick, StartRollover,
      DropExpiredTick, GuardPasses, GuardDropsTick, ColdStart, WarmStart, MixEma,
      StoreEma, StoreLastTs, SniperArmed, SniperNotArmed, Crosses, BelowTrigger,
      TryDisarm, DisarmLost, ReadBook, NoAsk, Fire, NoMarketLoaded, RearmAtOnce, shared,
      marketVars, streamVars
  <2>2. CASE StartRollover
    BY <2>1, <2>2 DEF StartRollover, SpawnRollover, Goto, TypeOK, RolloverTypeOK
  <2>3. CASE ~StartRollover
    BY <1>4, <2>1, <2>3, OthersKeepLock
  <2> QED
    BY <2>2, <2>3
<1>5. CASE Clock \/ Situation \/ (\E t \in Trades : Trade(t)) \/ UNCHANGED vars
  <2>1. UNCHANGED <<ppc, pmarket, poly_reconnect>>
    BY <1>5 DEF Clock, Tick, Situation, SituationNext, WakeUp, CheckMarket, ReadQuotes,
      MergeDynamic, SetTriggers, Trade, TradeNext, BuyFilled, BuyFailed, IncrementShots,
      Escalate, Rearm, vars, shared, streamVars, polyVars
  <2> QED
    BY <1>1, <1>5, <2>1, OthersKeepLock
<1> QED
  BY <1>2, <1>3, <1>4, <1>5 DEF Next

(* A feed on another market than the published one has its reconnect signal *)
(* posted as soon as no rollover is in progress.  SingleRollover makes "no  *)
(* rollover in progress" mean that none is between publishing and posting.  *)
THEOREM FeedSignalled == Spec => []StreamsCurrentMarket
<1>1. Init => FeedHasSignal
  BY InitFeed
<1>2. TypeOK /\ FeedHasSignal /\ [Next]_vars => FeedHasSignal'
  BY FeedStep
<1>3. SingleRollover /\ FeedHasSignal => StreamsCurrentMarket
  BY DEF SingleRollover, Active, FeedHasSignal, StreamsCurrentMarket
<1> QED
  BY <1>1, <1>2, <1>3, TypeCorrect, RolloverLock, PTL DEF Spec
-----------------------------------------------------------------------------
LEMMA InitMarket == Init => MarketInv
<1> SUFFICES ASSUME Init PROVE MarketInv
  OBVIOUS
<1> USE DEF Init, SharedInit, NoMarket
<1>1. NextExpiry(wall) \in Nat
  BY NextExpiryFact
<1>2. NothingAhead /\ ExpiryNotAhead
  BY <1>1 DEF NothingAhead, ExpiryNotAhead, RolloverInit
<1>3. FetchedIsNewest /\ PastGuard /\ TradeTargetsLiveMarket
  BY DEF FetchedIsNewest, PastGuard, TradeTargetsLiveMarket, RolloverInit, BinanceInit,
    TradeInit, InFlight
<1> QED
  BY <1>2, <1>3 DEF MarketInv

(* A step that leaves the markets and the rollovers alone, and no window    *)
(* that was current becomes a later one.                                   *)
LEMMA MarketFrame ==
  ASSUME TypeOK, MarketInv, wall' \in Nat, wall' >= wall,
         UNCHANGED <<rpc, fetched, market, market_expiry>>
  PROVE  (NothingAhead /\ FetchedIsNewest /\ ExpiryNotAhead)'
<1> USE DEF MarketInv
<1>1. /\ wall \in Nat /\ NextExpiry(wall) \in Nat
      /\ NextExpiry(wall') \in Nat /\ NextExpiry(wall) <= NextExpiry(wall')
  <2>1. wall \in Nat
    BY ClockAssumption DEF TypeOK, SharedTypeOK
  <2> QED
    BY <2>1, NextExpiryFact, NextExpiryMonotone
<1>2. NextExpiry(wall)' = NextExpiry(wall')
  BY DEF NextExpiry
<1>3. NothingAhead'
  BY <1>1, <1>2 DEF NothingAhead, TypeOK, SharedTypeOK, RolloverTypeOK
<1>4. (FetchedIsNewest /\ ExpiryNotAhead)'
  BY DEF FetchedIsNewest, ExpiryNotAhead
<1> QED
  BY <1>3, <1>4

(* The steps of a rollover.  SingleRollover keeps the others out of the     *)
(* steps between the choice of the window and its publication.             *)
LEMMA MarketRollover ==
  ASSUME TypeOK, SingleRollover, MarketInv, NEW r \in Rollovers, Rollover(r)
  PROVE  MarketInv'
<1> USE DEF MarketInv, Goto, TypeOK, RolloverTypeOK, SharedTypeOK
<1>1. wall \in Nat /\ NextExpiry(wall) \in Nat
  BY ClockAssumption, NextExpiryFact
<1>2. r \in Active
  BY DEF Active, Rollover, RolloverNext, Disarm, NotifyDisconnect, ResetBook,
    ResetEma, ResetLastTs, ResetShots, ResetDynamic, ResetTriggers, PickWindow, FetchOk,
    FetchErr, PublishMarket, PublishExpiry, NotifyReconnect, Arm, ClearRolling
<1>3. \A s \in Rollovers \ {r} : rpc[s] = "idle"
  BY <1>2 DEF SingleRollover, Active
<1>4. /\ UNCHANGED <<bpc, bts, bexpiry, tpc, snap>>
  BY DEF Rollover, tradeVars, binanceVars
<1>5. TradeTargetsLiveMarket'
  BY <1>4 DEF TradeTargetsLiveMarket, InFlight
<1>6. UNCHANGED wall
  BY DEF Rollover, RolloverNext, Disarm, NotifyDisconnect, ResetBook, ResetEma,
    ResetLastTs, ResetShots, ResetDynamic, ResetTriggers, PickWindow, FetchOk, FetchErr,
    PublishMarket, PublishExpiry, NotifyReconnect, Arm, ClearRolling, shared
<1>7. NextExpiry(wall)' = NextExpiry(wall)
  BY <1>6 DEF NextExpiry
<1>8. CASE PickWindow(r)
  <2>1. /\ rpc' = [rpc EXCEPT ![r] = "fetch"]
        /\ fetched' = [fetched EXCEPT ![r] = NextExpiry(wall)]
        /\ UNCHANGED <<market, market_expiry>>
    BY <1>8 DEF PickWindow, shared
  <2>2. NothingAhead'
    BY <1>1, <1>7, <2>1 DEF NothingAhead
  <2>3. FetchedIsNewest'
    BY <1>1, <1>3, <2>1 DEF NothingAhead, FetchedIsNewest
  <2>4. (ExpiryNotAhead /\ PastGuard)'
    BY <1>4, <2>1 DEF ExpiryNotAhead, PastGuard
  <2> QED
    BY <1>5, <2>2, <2>3, <2>4
<1>9. CASE PublishMarket(r)
  <2>1. /\ rpc[r] = "market" /\ rpc' = [rpc EXCEPT ![r] = "expiry"]
        /\ market' = fetched[r] /\ UNCHANGED <<fetched, market_expiry>>
    BY <1>9 DEF PublishMarket
  <2>2. NothingAhead'
    BY <1>1, <1>7, <2>1 DEF NothingAhead
  <2>3. FetchedIsNewest'
    BY <1>3, <2>1 DEF FetchedIsNewest
  <2>4. (ExpiryNotAhead /\ PastGuard)'
    BY <1>4, <2>1 DEF FetchedIsNewest, ExpiryNotAhead, PastGuard
  <2> QED
    BY <1>5, <2>2, <2>3, <2>4
<1>10. CASE PublishExpiry(r)
  <2>1. /\ rpc[r] = "expiry" /\ rpc' = [rpc EXCEPT ![r] = "reconnect"]
        /\ market_expiry' = fetched[r] /\ UNCHANGED <<fetched, market>>
    BY <1>10 DEF PublishExpiry
  <2>2. NothingAhead'
    BY <1>1, <1>7, <2>1 DEF NothingAhead
  <2>3. FetchedIsNewest'
    BY <1>3, <2>1 DEF FetchedIsNewest
  <2>4. ExpiryNotAhead'
    BY <2>1 DEF FetchedIsNewest, ExpiryNotAhead
  <2>5. PastGuard'
    BY <1>4, <2>1, ClockAssumption DEF FetchedIsNewest, PastGuard, BinanceTypeOK
  <2> QED
    BY <1>5, <2>2, <2>3, <2>4, <2>5
<1>11. CASE FetchOk(r)
  <2>1. /\ rpc[r] = "fetch" /\ rpc' = [rpc EXCEPT ![r] = "market"]
        /\ UNCHANGED <<fetched, market, market_expiry>>
    BY <1>11 DEF FetchOk, shared
  <2> QED
    BY <1>3, <1>4, <1>5, <1>7, <2>1 DEF NothingAhead, FetchedIsNewest, ExpiryNotAhead,
      PastGuard
<1>12. CASE ClearRolling(r)
  <2>1. /\ rpc' = [rpc EXCEPT ![r] = "idle"]
        /\ fetched' = [fetched EXCEPT ![r] = NoMarket]
        /\ UNCHANGED <<market, market_expiry>>
    BY <1>12 DEF ClearRolling, marketVars
  <2>2. NothingAhead'
    BY <1>1, <1>7, <2>1 DEF NothingAhead, NoMarket
  <2>3. (FetchedIsNewest /\ ExpiryNotAhead /\ PastGuard)'
    BY <1>3, <1>4, <2>1 DEF FetchedIsNewest, ExpiryNotAhead, PastGuard
  <2> QED
    BY <1>5, <2>2, <2>3
<1>13. CASE /\ ~PickWindow(r) /\ ~PublishMarket(r) /\ ~PublishExpiry(r)
            /\ ~FetchOk(r) /\ ~ClearRolling(r)
  <2>1. /\ UNCHANGED <<fetched, market, market_expiry>>
        /\ rpc'[r] \notin {"fetch", "market", "expiry"}
        /\ \A s \in Rollovers \ {r} : rpc'[s] = rpc[s]
    BY <1>13 DEF Rollover, RolloverNext, Disarm, NotifyDisconnect, ResetBook,
      ResetEma, ResetLastTs, ResetShots, ResetDynamic, ResetTriggers, FetchErr,
      NotifyReconnect, Arm, shared, marketVars
  <2> QED
    BY <1>4, <1>5, <1>7, <2>1 DEF NothingAhead, FetchedIsNewest, ExpiryNotAhead,
      PastGuard
<1> QED
  BY <1>8, <1>9, <1>10, <1>11, <1>12, <1>13

(* The steps of the Binance handler: the guard establishes PastGuard, and  *)
(* Fire turns it into the property.                                        *)
LEMMA MarketBinance ==
  ASSUME TypeOK, MarketInv, Binance
  PROVE  MarketInv'
<1> USE DEF MarketInv
<1>1. UNCHANGED <<wall, fetched, market, market_expiry>>
  BY DEF Binance, BinanceNext, ReceiveTick, StartRollover, SpawnRollover, DropExpiredTick,
    GuardPasses, GuardDropsTick, ColdStart, WarmStart, MixEma, StoreEma, StoreLastTs,
    SniperArmed, SniperNotArmed, Crosses, BelowTrigger, TryDisarm, DisarmLost, ReadBook,
    NoAsk, Fire, NoMarketLoaded, RearmAtOnce, shared, rolloverVars, marketVars
<1>2. (NothingAhead /\ FetchedIsNewest /\ ExpiryNotAhead)'
  <2>1. CASE StartRollover
    <3>1. PICK r \in Rollovers : rpc' = [rpc EXCEPT ![r] = "disarm"]
      BY <2>1 DEF StartRollover, SpawnRollover, Goto
    <3>2. NextExpiry(wall)' = NextExpiry(wall)
      BY <1>1 DEF NextExpiry
    <3> QED
      BY <1>1, <3>1, <3>2 DEF NothingAhead, FetchedIsNewest, ExpiryNotAhead, TypeOK,
        RolloverTypeOK
  <2>2. CASE ~StartRollover
    <3>1. UNCHANGED rpc
      BY <2>2, OthersKeepLock
    <3> QED
      BY <1>1, <3>1, MarketFrame, ClockAssumption DEF TypeOK, SharedTypeOK
  <2> QED
    BY <2>1, <2>2
<1>3. PastGuard'
  <2> USE DEF PastGuard, Step, Return, TypeOK, SharedTypeOK, BinanceTypeOK
  <2>1. CASE GuardPasses
    BY <1>1, <2>1, ClockAssumption DEF GuardPasses, SecondsToExpiry
  <2>2. CASE ReceiveTick
    BY <2>2 DEF ReceiveTick
  <2>3. CASE ~GuardPasses /\ ~ReceiveTick
    BY <1>1, <2>3 DEF Binance, BinanceNext, StartRollover, DropExpiredTick,
      GuardDropsTick, ColdStart, WarmStart, MixEma, StoreEma, StoreLastTs, SniperArmed,
      SniperNotArmed, Crosses, BelowTrigger, TryDisarm, DisarmLost, ReadBook, NoAsk, Fire,
      NoMarketLoaded, RearmAtOnce
  <2> QED
    BY <2>1, <2>2, <2>3
<1>4. TradeTargetsLiveMarket'
  <2>1. CASE Fire
    <3>1. PICK t \in Trades :
            SpawnTrade(t, [market |-> market, ts |-> bts, price |-> bprice])
      BY <2>1 DEF Fire
    <3>2. market >= bts + Guard
      BY <2>1, ClockAssumption DEF Fire, Return, Step, PastGuard, ExpiryNotAhead, TypeOK,
        SharedTypeOK, BinanceTypeOK
    <3>3. snap'[t].market = market /\ snap'[t].ts = bts
      BY <3>1 DEF SpawnTrade, TypeOK, TradeTypeOK
    <3>4. \A u \in Trades \ {t} : snap'[u] = snap[u] /\ tpc'[u] = tpc[u]
      BY <3>1 DEF SpawnTrade, TypeOK, TradeTypeOK
    <3> QED
      BY <3>2, <3>3, <3>4 DEF TradeTargetsLiveMarket, InFlight
  <2>2. CASE ~Fire
    <3>1. UNCHANGED <<tpc, snap>>
      BY <2>2 DEF Binance, BinanceNext, ReceiveTick, StartRollover, DropExpiredTick,
        GuardPasses, GuardDropsTick, ColdStart, WarmStart, MixEma, StoreEma, StoreLastTs,
        SniperArmed, SniperNotArmed, Crosses, BelowTrigger, TryDisarm, DisarmLost,
        ReadBook, NoAsk, NoMarketLoaded, RearmAtOnce, tradeVars
    <3> QED
      BY <3>1 DEF TradeTargetsLiveMarket, InFlight
  <2> QED
    BY <2>1, <2>2
<1> QED
  BY <1>2, <1>3, <1>4

LEMMA MarketOthers ==
  ASSUME TypeOK, MarketInv,
         \/ Clock \/ Situation \/ Poly \/ UNCHANGED vars
         \/ \E t \in Trades : Trade(t)
  PROVE  MarketInv'
<1> USE DEF MarketInv
<1>1. wall' \in Nat /\ wall' >= wall
  <2>1. wall \in Nat
    BY ClockAssumption DEF TypeOK, SharedTypeOK
  <2>2. CASE Clock
    BY <2>1, <2>2 DEF Clock, Tick
  <2>3. CASE Situation \/ Poly \/ (\E t \in Trades : Trade(t)) \/ UNCHANGED vars
    <3>1. UNCHANGED wall
      BY <2>3 DEF Situation, SituationNext, WakeUp, CheckMarket, ReadQuotes,
        MergeDynamic, SetTriggers, Poly, PolyNext, LoadMarket, Connect, ConnectionFault,
        BookMessage, DisconnectSignal, ReconnectSignal, Trade, TradeNext, BuyFilled,
        BuyFailed, IncrementShots, Escalate, Rearm, vars, shared
    <3> QED
      BY <2>1, <3>1
  <2> QED
    BY <2>2, <2>3
<1>2. (NothingAhead /\ FetchedIsNewest /\ ExpiryNotAhead)'
  BY <1>1, OthersKeepLock, MarketFrame
<1>3. UNCHANGED <<bpc, bts, bexpiry, market_expiry>>
  <2>1. UNCHANGED market_expiry
    BY OthersKeepLock
  <2>2. UNCHANGED <<bpc, bts, bexpiry>>
    BY DEF Clock, Situation, Poly, Trade, vars, binanceVars
  <2> QED
    BY <2>1, <2>2
<1>4. PastGuard'
  BY <1>3 DEF PastGuard
<1>5. TradeTargetsLiveMarket'
  <2>1. CASE \E t \in Trades : Trade(t)
    <3>1. PICK t \in Trades : TradeNext(t)
      BY <2>1 DEF Trade
    <3>2. \A u \in Trades \ {t} : snap'[u] = snap[u] /\ tpc'[u] = tpc[u]
      BY <3>1 DEF TradeNext, BuyFilled, BuyFailed, IncrementShots, Escalate, Rearm,
        TypeOK, TradeTypeOK
    <3>3. tpc[t] # "idle" /\ (tpc'[t] # "idle" => snap'[t] = snap[t])
      BY <3>1 DEF TradeNext, BuyFilled, BuyFailed, IncrementShots, Escalate, Rearm,
        TypeOK, TradeTypeOK
    <3> QED
      BY <3>2, <3>3 DEF TradeTargetsLiveMarket, InFlight
  <2>2. CASE Clock \/ Situation \/ Poly \/ UNCHANGED vars
    BY <2>2 DEF Clock, Situation, Poly, vars, tradeVars, TradeTargetsLiveMarket, InFlight
  <2> QED
    BY <2>1, <2>2
<1> QED
  BY <1>2, <1>4, <1>5

LEMMA MarketHolds == Spec => []MarketInv
<1>1. Init => MarketInv
  BY InitMarket
<1>2. TypeOK /\ SingleRollover /\ MarketInv /\ [Next]_vars => MarketInv'
  BY MarketRollover, MarketBinance, MarketOthers DEF Next
<1> QED
  BY <1>1, <1>2, TypeCorrect, RolloverLock, PTL DEF Spec

(* No order is sent for a market that the triggering tick sees within Guard *)
(* of its end, however a rollover falls between the tick's reads.          *)
THEOREM TradesAreLive == Spec => []TradeTargetsLiveMarket
<1>1. MarketInv => TradeTargetsLiveMarket
  BY DEF MarketInv
<1> QED
  BY <1>1, MarketHolds, PTL
-----------------------------------------------------------------------------
(* The steps of a rollover up to the publication of the new expiry, and     *)
(* those of them that follow the reset of the EMA.                         *)
Unpublished == {"disarm", "notify", "book", "ema", "last_ts", "shots", "dynamic",
                "triggers", "window", "fetch", "market", "expiry"}
Wiped == {"shots", "dynamic", "triggers", "window", "fetch", "market", "expiry"}

(* While an expiry is being replaced the handler is in no tick that passed  *)
(* it: the tick that spawned the rollover saw it expire, and so will every  *)
(* later one.                                                              *)
ExpirySeen ==
  /\ bpc = "rollover" => IsMarketExpired(bts)
  /\ \A r \in Rollovers : rpc[r] \in Unpublished =>
       IsMarketExpired(bts) /\ bpc \in {"idle", "rollover"}

(* So the expiry that a tick read at its guard is the current one, and the  *)
(* EMA that it mixes into was seeded in its own window.                    *)
ExpiryOfTick == bpc \notin {"idle", "rollover", "guard"} => bexpiry = market_expiry
EmaSeeded ==
  /\ last_ts => ema_price = market_expiry \/ \E r \in Rollovers : rpc[r] = "last_ts"
  /\ \A r \in Rollovers : rpc[r] \in Wiped => ~last_ts
  /\ bpc = "ema" => last_ts
  /\ bpc = "store_ts" => ema_price = bexpiry

EmaInv == ExpirySeen /\ ExpiryOfTick /\ EmaSeeded /\ MomentumOfThisWindow

LEMMA InitEma == Init => EmaInv
BY DEF Init, SharedInit, RolloverInit, BinanceInit, EmaInv, ExpirySeen, ExpiryOfTick,
  EmaSeeded, MomentumOfThisWindow, Unpublished, Wiped

(* A rollover runs beside a handler that is idle, or has yet to find the    *)
(* lock taken, until the new expiry is published.                          *)
LEMMA EmaRollover ==
  ASSUME ~Preemptible, TypeOK, SingleRollover, EmaInv, NEW r \in Rollovers, Rollover(r)
  PROVE  EmaInv'
<1> USE DEF EmaInv, ExpirySeen, ExpiryOfTick, EmaSeeded, MomentumOfThisWindow, Unpublished,
      Wiped, Goto
<1>1. /\ rpc \in [Rollovers -> RolloverStep \cup {"idle"}]
      /\ UNCHANGED <<bpc, bts, bexpiry, bema>>
      /\ bpc # "rollover"
  BY DEF TypeOK, RolloverTypeOK, Rollover, binanceVars, HandlerHeldUp
<1>2. r \in Active
  BY DEF Active, Rollover, RolloverNext, Disarm, NotifyDisconnect, ResetBook,
    ResetEma, ResetLastTs, ResetShots, ResetDynamic, ResetTriggers, PickWindow, FetchOk,
    FetchErr, PublishMarket, PublishExpiry, NotifyReconnect, Arm, ClearRolling
<1>3. \A s \in Rollovers \ {r} : rpc[s] = "idle" /\ rpc'[s] = "idle"
  <2>1. \E to : rpc' = [rpc EXCEPT ![r] = to]
    BY DEF Rollover, RolloverNext, Disarm, NotifyDisconnect, ResetBook,
      ResetEma, ResetLastTs, ResetShots, ResetDynamic, ResetTriggers, PickWindow, FetchOk,
      FetchErr, PublishMarket, PublishExpiry, NotifyReconnect, Arm, ClearRolling
  <2>2. \A s \in Rollovers \ {r} : rpc[s] = "idle"
    BY <1>2 DEF SingleRollover, Active
  <2> QED
    BY <1>1, <2>1, <2>2
<1>4. CASE ResetEma(r)
  <2>1. /\ rpc[r] = "ema" /\ rpc'[r] = "last_ts" /\ UNCHANGED <<market_expiry, last_ts>>
    BY <1>1, <1>4 DEF ResetEma, marketVars
  <2> QED
    BY <1>1, <1>3, <2>1 DEF IsMarketExpired
<1>5. CASE ResetLastTs(r)
  <2>1. /\ rpc[r] = "last_ts" /\ rpc'[r] = "shots" /\ last_ts' = FALSE
        /\ UNCHANGED <<market_expiry, ema_price>>
    BY <1>1, <1>5 DEF ResetLastTs, marketVars
  <2> QED
    BY <1>1, <1>3, <2>1 DEF IsMarketExpired
<1>6. CASE PublishExpiry(r)
  <2>1. /\ rpc[r] = "expiry" /\ rpc'[r] = "reconnect" /\ UNCHANGED <<last_ts, ema_price>>
    BY <1>1, <1>6 DEF PublishExpiry, emaVars
  <2>2. bpc = "idle" /\ ~last_ts
    BY <1>1, <2>1
  <2> QED
    BY <1>1, <1>3, <2>1, <2>2
<1>7. CASE ~ResetEma(r) /\ ~ResetLastTs(r) /\ ~PublishExpiry(r)
  <2>1. UNCHANGED <<market_expiry, ema_price, last_ts>>
    BY <1>7 DEF Rollover, RolloverNext, Disarm, NotifyDisconnect, ResetBook,
      ResetShots, ResetDynamic, ResetTriggers, PickWindow, FetchOk, FetchErr,
      PublishMarket, NotifyReconnect, Arm, ClearRolling, shared, marketVars, emaVars
  <2>2. /\ rpc'[r] \in Unpublished => rpc[r] \in Unpublished
        /\ rpc'[r] \in Wiped => rpc[r] \in Wiped
        /\ rpc[r] # "last_ts" /\ rpc'[r] # "last_ts"
    BY <1>1, <1>7 DEF Rollover, RolloverNext, Disarm, NotifyDisconnect, ResetBook,
      ResetShots, ResetDynamic, ResetTriggers, PickWindow, FetchOk, FetchErr,
      PublishMarket, NotifyReconnect, Arm, ClearRolling
  <2> QED
    BY <1>1, <1>3, <2>1, <2>2 DEF IsMarketExpired
<1> QED
  BY <1>4, <1>5, <1>6, <1>7

LEMMA EmaBinance ==
  ASSUME TypeOK, EmaInv, Binance
  PROVE  EmaInv'
<1> USE DEF EmaInv, ExpirySeen, ExpiryOfTick, EmaSeeded, MomentumOfThisWindow, Step, Return
<1>1. UNCHANGED market_expiry /\ market_expiry \in Nat /\ bts \in Nat
  BY DEF Binance, BinanceNext, ReceiveTick, StartRollover, SpawnRollover, DropExpiredTick,
    GuardPasses, GuardDropsTick, ColdStart, WarmStart, MixEma, StoreEma, StoreLastTs,
    SniperArmed, SniperNotArmed, Crosses, BelowTrigger, TryDisarm, DisarmLost, ReadBook,
    NoAsk, Fire, NoMarketLoaded, RearmAtOnce, shared, rolloverVars, marketVars, TypeOK,
    SharedTypeOK, BinanceTypeOK
<1>2. CASE StartRollover
  <2>1. PICK r \in Rollovers : rpc[r] = "idle" /\ rpc' = [rpc EXCEPT ![r] = "disarm"]
    BY <1>2 DEF StartRollover, SpawnRollover, Goto
  <2>2. rpc'[r] = "disarm" /\ \A s \in Rollovers \ {r} : rpc'[s] = rpc[s]
    BY <2>1 DEF TypeOK, RolloverTypeOK
  <2>3. /\ bpc = "rollover" /\ bpc' = "idle" /\ IsMarketExpired(bts)
        /\ UNCHANGED <<bts, ema_price, last_ts>>
    BY <1>2 DEF StartRollover, emaVars
  <2> QED
    BY <1>1, <2>1, <2>2, <2>3 DEF IsMarketExpired, Wiped
<1>3. CASE ReceiveTick
  <2>1. PICK ts \in bts .. wall + Lead :
          /\ bts' = ts
          /\ bpc' = IF IsMarketExpired(ts) THEN "rollover" ELSE "guard"
    BY <1>3 DEF ReceiveTick
  <2>2. bts' >= bts /\ UNCHANGED <<rpc, ema_price, last_ts, bexpiry>>
    BY <1>1, <1>3, <2>1 DEF ReceiveTick, rolloverVars, shared
  <2>3. IsMarketExpired(bts) => IsMarketExpired(bts')
    BY <1>1, <2>1, <2>2, ClockAssumption DEF IsMarketExpired, TypeOK, SharedTypeOK
  <2> QED
    BY <1>1, <2>1, <2>2, <2>3 DEF IsMarketExpired
<1>4. CASE StoreEma
  <2>1. /\ UNCHANGED <<rpc, last_ts, bts, bexpiry, bema>> /\ ema_price' = bema
        /\ bpc = "store_ema" /\ bpc' = "store_ts"
    BY <1>4 DEF StoreEma, rolloverVars
  <2> QED
    BY <1>1, <2>1 DEF IsMarketExpired
<1>5. CASE StoreLastTs
  <2>1. /\ UNCHANGED <<rpc, ema_price, bts, bexpiry, bema>> /\ last_ts' = TRUE
        /\ bpc = "store_ts" /\ bpc' = "armed"
    BY <1>5 DEF StoreLastTs, rolloverVars
  <2> QED
    BY <1>1, <2>1 DEF IsMarketExpired, Unpublished, Wiped
<1>6. CASE GuardPasses \/ ColdStart \/ WarmStart
  BY <1>1, <1>6 DEF GuardPasses, ColdStart, WarmStart, IsMarketExpired, rolloverVars, shared
<1>7. CASE MixEma
  <2>1. /\ UNCHANGED <<rpc, ema_price, last_ts, bts, bexpiry>> /\ bema' \in {ema_price, bexpiry}
        /\ bpc = "ema" /\ bpc' = "store_ema"
    BY <1>7 DEF MixEma, rolloverVars, shared
  <2>2. \A r \in Rollovers : rpc[r] # "last_ts"
    BY <2>1 DEF Unpublished
  <2> QED
    BY <1>1, <2>1, <2>2 DEF IsMarketExpired
<1>8. CASE \/ DropExpiredTick \/ GuardDropsTick \/ SniperArmed \/ SniperNotArmed \/ Crosses
           \/ BelowTrigger \/ TryDisarm \/ DisarmLost \/ ReadBook \/ NoAsk \/ Fire
           \/ NoMarketLoaded \/ RearmAtOnce
  <2>1. UNCHANGED <<rpc, ema_price, last_ts, bts>>
    BY <1>8 DEF DropExpiredTick, GuardDropsTick, SniperArmed, SniperNotArmed, Crosses,
      BelowTrigger, TryDisarm, DisarmLost, ReadBook, NoAsk, Fire, NoMarketLoaded,
      RearmAtOnce, rolloverVars, shared, emaVars
  <2>2. \/ bpc' = "idle"
        \/ /\ bpc \in {"armed", "trigger", "disarm", "book", "market"}
           /\ bpc' \in {"trigger", "disarm", "book", "market", "rearm"}
           /\ UNCHANGED <<bexpiry, bema>>
    BY <1>8 DEF DropExpiredTick, GuardDropsTick, SniperArmed, SniperNotArmed, Crosses,
      BelowTrigger, TryDisarm, DisarmLost, ReadBook, NoAsk, Fire, NoMarketLoaded,
      RearmAtOnce
  <2> QED
    BY <1>1, <2>1, <2>2 DEF IsMarketExpired
<1> QED
  BY <1>2, <1>3, <1>4, <1>5, <1>6, <1>7, <1>8 DEF Binance, BinanceNext

LEMMA EmaOthers ==
  ASSUME EmaInv,
         \/ Clock \/ Situation \/ Poly \/ UNCHANGED vars
         \/ \E t \in Trades : Trade(t)
  PROVE  EmaInv'
<1>1. UNCHANGED <<rpc, market_expiry>>
  BY OthersKeepLock
<1>2. UNCHANGED <<bpc, bts, bexpiry, bema>>
  BY DEF Clock, Situation, Poly, Trade, vars, binanceVars
<1>3. UNCHANGED <<ema_price, last_ts>>
  BY DEF Clock, Tick, Situation, SituationNext, WakeUp, CheckMarket, ReadQuotes,
    MergeDynamic, SetTriggers, Poly, PolyNext, LoadMarket, Connect, ConnectionFault,
    BookMessage, DisconnectSignal, ReconnectSignal, Trade, TradeNext, BuyFilled,
    BuyFailed, IncrementShots, Escalate, Rearm, vars, shared, emaVars
<1> QED
  BY <1>1, <1>2, <1>3 DEF EmaInv, ExpirySeen, ExpiryOfTick, EmaSeeded,
    MomentumOfThisWindow, IsMarketExpired

(* The momentum that a tick is judged by is measured against an EMA seeded *)
(* in the tick's own window, when no rollover fits between the handler's    *)
(* expiry check and its compare_exchange, which no await point separates:  *)
(* the stores of update() and of reset(), which no lock covers, are never   *)
(* interleaved, however many rollovers fail and are retried.               *)
THEOREM MomentumIsCurrent == ~Preemptible /\ Spec => []MomentumOfThisWindow
<1>1. Init => EmaInv
  BY InitEma
<1>2. ~Preemptible /\ TypeOK /\ SingleRollover /\ EmaInv /\ [Next]_vars => EmaInv'
  BY EmaRollover, EmaBinance, EmaOthers DEF Next
<1>3. EmaInv => MomentumOfThisWindow
  BY DEF EmaInv
<1>4. CASE ~Preemptible
  <2>1. TypeOK /\ SingleRollover /\ EmaInv /\ [Next]_vars => EmaInv'
    BY <1>2, <1>4
  <2> QED
    BY <1>1, <1>3, <2>1, TypeCorrect, RolloverLock, PTL DEF Spec
<1> QED
  BY <1>4
=============================================================================

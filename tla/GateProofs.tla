------------------------------ MODULE GateProofs ------------------------------
(***************************************************************************)
(* SniperBot implements FiringGate, for every value of the constants: a     *)
(* step of any task either replaces the market a step further, or passes a  *)
(* right to fire on, or drops one; and only the one replacement, with a     *)
(* market published, adds one.                                             *)
(***************************************************************************)
EXTENDS SniperBotProofs, FiniteSetTheorems

ArmedRight   == IF is_armed THEN 1 ELSE 0
HandlerRight == IF bpc \in {"book", "market", "rearm"} THEN 1 ELSE 0

LEMMA RightsSum ==
  /\ Rights = ArmedRight + Cardinality(InFlight) + HandlerRight
  /\ Rights' = ArmedRight' + Cardinality(InFlight') + HandlerRight'
BY DEF Rights, ArmedRight, HandlerRight

LEMMA InFlightFinite ==
  /\ IsFiniteSet(InFlight) /\ IsFiniteSet(InFlight')
  /\ Cardinality(InFlight) \in Nat /\ Cardinality(InFlight') \in Nat
<1>1. InFlight \in SUBSET Trades /\ InFlight' \in SUBSET Trades
  BY DEF InFlight
<1>2. IsFiniteSet(InFlight) /\ IsFiniteSet(InFlight')
  BY <1>1, FS_Subset, TradesAssumption
<1> QED
  BY <1>2, FS_CardinalityType

(* A step that leaves the holders of rights alone. *)
LEMMA RightsKept ==
  ASSUME UNCHANGED <<is_armed, tpc, bpc>>
  PROVE  Rights' = Rights
BY DEF Rights, InFlight

(* Whoever arms a sniper, or disarms it, for no right of its own.          *)
LEMMA RightsArmed ==
  ASSUME TypeOK, UNCHANGED <<tpc, bpc>>
  PROVE  /\ is_armed' = FALSE => Rights' = Rights \/ (Rights' = Rights - 1 /\ Rights > 0)
         /\ is_armed' = TRUE => Rights' \in {Rights, Rights + 1}
<1>1. InFlight' = InFlight /\ HandlerRight' = HandlerRight
  BY DEF InFlight, HandlerRight
<1>2. ArmedRight \in {0, 1} /\ HandlerRight \in {0, 1}
  BY DEF ArmedRight, HandlerRight
<1>3. is_armed' = FALSE => ArmedRight' = 0
  BY DEF ArmedRight
<1>4. is_armed' = TRUE => ArmedRight' = 1
  BY DEF ArmedRight
<1> QED
  BY <1>1, <1>2, <1>3, <1>4, RightsSum, InFlightFinite

(* A right is given back: in vain if the sniper is armed already. *)
LEMMA RightsTrade ==
  ASSUME TypeOK, NEW t \in Trades, Trade(t)
  PROVE  Rights' = Rights \/ (Rights' = Rights - 1 /\ Rights > 0)
<1> USE DEF TypeOK, TradeTypeOK
<1>1. UNCHANGED bpc
  BY DEF Trade, binanceVars
<1>2. HandlerRight' = HandlerRight /\ HandlerRight \in {0, 1}
  BY <1>1 DEF HandlerRight
<1>3. CASE Rearm(t)
  <2>1. t \in InFlight /\ InFlight' = InFlight \ {t}
    BY <1>3 DEF Rearm, InFlight
  <2>2. Cardinality(InFlight') = Cardinality(InFlight) - 1
    BY <2>1, InFlightFinite, FS_RemoveElement
  <2>3. ArmedRight \in {0, 1} /\ ArmedRight' = 1
    BY <1>3 DEF Rearm, ArmedRight
  <2> QED
    BY <1>2, <2>2, <2>3, RightsSum, InFlightFinite
<1>4. CASE ~Rearm(t)
  <2>1. /\ UNCHANGED is_armed
        /\ tpc[t] # "idle" /\ tpc'[t] # "idle"
        /\ \A u \in Trades \ {t} : tpc'[u] = tpc[u]
    BY <1>4 DEF Trade, TradeNext, BuyFilled, BuyFailed, IncrementShots, Escalate, shared
  <2>2. InFlight' = InFlight /\ ArmedRight' = ArmedRight
    BY <2>1 DEF InFlight, ArmedRight
  <2> QED
    BY <1>2, <2>2, RightsSum
<1> QED
  BY <1>3, <1>4

(* The handler takes the right of the armed sniper, and hands it over to    *)
(* the trade that it spawns or back to the sniper.                         *)
LEMMA RightsBinance ==
  ASSUME TypeOK, Binance
  PROVE  Rights' = Rights \/ (Rights' = Rights - 1 /\ Rights > 0)
<1> USE DEF Step, Return
<1>1. CASE TryDisarm
  <2>1. InFlight' = InFlight
    BY <1>1 DEF TryDisarm, InFlight, tradeVars
  <2>2. ArmedRight = 1 /\ ArmedRight' = 0 /\ HandlerRight = 0 /\ HandlerRight' = 1
    BY <1>1 DEF TryDisarm, ArmedRight, HandlerRight
  <2> QED
    BY <2>1, <2>2, RightsSum, InFlightFinite
<1>2. CASE Fire
  <2>1. PICK t \in Trades : tpc[t] = "idle" /\ tpc' = [tpc EXCEPT ![t] = "execute"]
    BY <1>2 DEF Fire, SpawnTrade
  <2>2. t \notin InFlight /\ InFlight' = InFlight \cup {t}
    BY <2>1 DEF InFlight, TypeOK, TradeTypeOK
  <2>3. Cardinality(InFlight') = Cardinality(InFlight) + 1
    BY <2>2, InFlightFinite, FS_AddElement
  <2>4. /\ ArmedRight' = ArmedRight /\ ArmedRight \in {0, 1}
        /\ HandlerRight = 1 /\ HandlerRight' = 0
    BY <1>2 DEF Fire, ArmedRight, HandlerRight, shared
  <2> QED
    BY <2>3, <2>4, RightsSum, InFlightFinite
<1>3. CASE RearmAtOnce
  <2>1. InFlight' = InFlight
    BY <1>3 DEF RearmAtOnce, InFlight, tradeVars
  <2>2. ArmedRight \in {0, 1} /\ ArmedRight' = 1 /\ HandlerRight = 1 /\ HandlerRight' = 0
    BY <1>3 DEF RearmAtOnce, ArmedRight, HandlerRight
  <2> QED
    BY <2>1, <2>2, RightsSum, InFlightFinite
<1>4. CASE ~TryDisarm /\ ~Fire /\ ~RearmAtOnce
  <2>1. /\ UNCHANGED <<is_armed, tpc>>
        /\ bpc' \in {"book", "market", "rearm"} <=> bpc \in {"book", "market", "rearm"}
    BY <1>4 DEF Binance, BinanceNext, ReceiveTick, StartRollover, DropExpiredTick,
      GuardPasses, GuardDropsTick, ColdStart, WarmStart, MixEma, StoreEma, StoreLastTs,
      SniperArmed, SniperNotArmed, Crosses, BelowTrigger, DisarmLost, ReadBook, NoAsk,
      NoMarketLoaded, shared, tradeVars, sniperVars
  <2>2. InFlight' = InFlight /\ ArmedRight' = ArmedRight /\ HandlerRight' = HandlerRight
    BY <2>1 DEF InFlight, ArmedRight, HandlerRight
  <2> QED
    BY <2>2, RightsSum
<1> QED
  BY <1>1, <1>2, <1>3, <1>4

(* Of a rollover, step a may take a right away, and step j may add one. *)
LEMMA RightsRollover ==
  ASSUME TypeOK, NEW r \in Rollovers, Rollover(r)
  PROVE  /\ Disarm(r) => Rights' = Rights \/ (Rights' = Rights - 1 /\ Rights > 0)
         /\ Arm(r) => Rights' \in {Rights, Rights + 1}
         /\ ~Disarm(r) /\ ~Arm(r) => Rights' = Rights
<1>1. UNCHANGED <<tpc, bpc>>
  BY DEF Rollover, tradeVars, binanceVars
<1>2. ASSUME Disarm(r) PROVE is_armed' = FALSE
  BY <1>2 DEF Disarm
<1>3. ASSUME Arm(r) PROVE is_armed' = TRUE
  BY <1>3 DEF Arm
<1>4. ASSUME ~Disarm(r), ~Arm(r) PROVE UNCHANGED is_armed
  BY <1>4 DEF Rollover, RolloverNext, NotifyDisconnect, ResetBook, ResetEma, ResetLastTs,
    ResetShots, ResetDynamic, ResetTriggers, PickWindow, FetchOk, FetchErr,
    PublishMarket, PublishExpiry, NotifyReconnect, ClearRolling, shared, sniperVars
<1> QED
  BY <1>1, <1>2, <1>3, <1>4, RightsArmed, RightsKept

LEMMA RightsOthers ==
  ASSUME Clock \/ Situation \/ Poly \/ UNCHANGED vars
  PROVE  Rights' = Rights
<1>1. UNCHANGED <<is_armed, tpc, bpc>>
  BY DEF Clock, Tick, Situation, SituationNext, WakeUp, CheckMarket, ReadQuotes,
    MergeDynamic, SetTriggers, Poly, PolyNext, LoadMarket, Connect, ConnectionFault,
    BookMessage, DisconnectSignal, ReconnectSignal, vars, shared, sniperVars, tradeVars,
    binanceVars
<1> QED
  BY <1>1, RightsKept
-----------------------------------------------------------------------------
(* Only step j of a rollover creates a right to fire. *)
THEOREM OnlyRolloversGrant == Spec => RightsOnlyFromRollover
<1>1. ASSUME TypeOK, [Next]_vars
      PROVE  Rights' > Rights =>
               \E r \in Rollovers : rpc[r] = "arm" /\ rpc'[r] = "clear"
  <2>1. Rights \in Nat
    BY RightsSum, InFlightFinite DEF ArmedRight, HandlerRight
  <2>2. ASSUME NEW r \in Rollovers, Arm(r)
        PROVE  rpc[r] = "arm" /\ rpc'[r] = "clear"
    BY <1>1, <2>2 DEF Arm, Goto, TypeOK, RolloverTypeOK
  <2>3. ASSUME NEW r \in Rollovers, Rollover(r), ~Arm(r)
        PROVE  ~(Rights' > Rights)
    BY <1>1, <2>1, <2>3, RightsRollover
  <2>4. CASE Binance \/ \E t \in Trades : Trade(t)
    BY <1>1, <2>1, <2>4, RightsBinance, RightsTrade
  <2>5. CASE Clock \/ Situation \/ Poly \/ UNCHANGED vars
    BY <2>1, <2>5, RightsOthers
  <2> QED
    BY <1>1, <2>2, <2>3, <2>4, <2>5 DEF Next
<1>2. TypeOK /\ [Next]_vars =>
        [Rights' > Rights =>
           \E r \in Rollovers : rpc[r] = "arm" /\ rpc'[r] = "clear"]_vars
  BY <1>1
<1> QED
  BY <1>2, TypeCorrect, PTL DEF Spec, RightsOnlyFromRollover
-----------------------------------------------------------------------------
(* With one rollover, its program counter is the phase. *)
PhaseAt(step) ==
  CASE step \in {"expiry", "reconnect", "arm"} -> "published"
    [] step = "clear" -> "closing"
    [] OTHER -> "replacing"

LEMMA PhaseOf ==
  ASSUME NEW r \in Rollovers
  PROVE  /\ SingleRollover /\ rpc[r] # "idle" => Phase = PhaseAt(rpc[r])
         /\ SingleRollover' /\ rpc'[r] # "idle" => Phase' = PhaseAt(rpc'[r])
BY DEF SingleRollover, Active, Phase, PhaseAt

(* A step outside of a rollover and of its start. *)
LEMMA GateAside ==
  ASSUME UNCHANGED <<rpc, is_rolling_over, market>>,
         Rights' = Rights \/ (Rights' = Rights - 1 /\ Rights > 0)
  PROVE  [Gate!Next]_(Gate!vars)
<1>1. Phase' = Phase
  BY DEF Phase
<1> QED
  BY <1>1 DEF Gate!Next, Gate!Withdraw, Gate!vars

LEMMA GateStart ==
  ASSUME TypeOK, SingleRollover, SingleRollover', Binance, StartRollover
  PROVE  Gate!Next
<1>1. PICK r \in Rollovers : rpc' = [rpc EXCEPT ![r] = "disarm"]
  BY DEF StartRollover, SpawnRollover, Goto
<1>2. Phase = "open"
  BY DEF StartRollover, Phase
<1>3. Phase' = "replacing"
  BY <1>1, PhaseOf DEF PhaseAt, TypeOK, RolloverTypeOK
<1>4. UNCHANGED <<market, is_armed, tpc>>
  BY DEF StartRollover, marketVars, sniperVars, tradeVars
<1>5. Rights' = Rights
  BY <1>4 DEF StartRollover, Return, Step, Rights, InFlight
<1> QED
  BY <1>2, <1>3, <1>4, <1>5 DEF Gate!Next, Gate!Begin, Gate!PhaseStep

(* The labels of handle_rollover and the phases of the gate. *)
LEMMA GateRollover ==
  ASSUME TypeOK, SingleRollover, SingleRollover', MarketInv,
         NEW r \in Rollovers, Rollover(r)
  PROVE  [Gate!Next]_(Gate!vars)
<1> USE DEF TypeOK, RolloverTypeOK, Goto
<1>1. CASE PublishMarket(r)
  <2>1. /\ rpc[r] = "market" /\ rpc'[r] = "expiry" /\ market' = fetched[r]
    BY <1>1 DEF PublishMarket
  <2>2. Phase = "replacing" /\ Phase' = "published"
    BY <2>1, PhaseOf DEF PhaseAt
  <2>3. market' \in Nat /\ market' >= market
    BY <2>1 DEF MarketInv, FetchedIsNewest
  <2>4. Rights' = Rights
    BY <1>1, RightsRollover DEF PublishMarket, Disarm, Arm
  <2> QED
    BY <2>2, <2>3, <2>4 DEF Gate!Next, Gate!Publish, Gate!PhaseStep
<1>2. CASE FetchErr(r)
  <2>1. rpc[r] = "fetch" /\ rpc'[r] = "clear" /\ UNCHANGED market
    BY <1>2 DEF FetchErr, shared
  <2>2. Phase = "replacing" /\ Phase' = "closing"
    BY <2>1, PhaseOf DEF PhaseAt
  <2>3. Rights' = Rights
    BY <1>2, RightsRollover DEF FetchErr, Disarm, Arm
  <2> QED
    BY <2>1, <2>2, <2>3 DEF Gate!Next, Gate!GiveUp, Gate!PhaseStep
<1>3. CASE Arm(r)
  <2>1. rpc[r] = "arm" /\ rpc'[r] = "clear" /\ UNCHANGED market
    BY <1>3 DEF Arm, marketVars
  <2>2. Phase = "published" /\ Phase' = "closing"
    BY <2>1, PhaseOf DEF PhaseAt
  <2>3. Rights' \in {Rights, Rights + 1}
    BY <1>3, RightsRollover
  <2> QED
    BY <2>1, <2>2, <2>3 DEF Gate!Next, Gate!Grant, Gate!PhaseStep
<1>4. CASE ClearRolling(r)
  <2>1. rpc[r] = "clear" /\ is_rolling_over' = FALSE /\ UNCHANGED market
    BY <1>4 DEF ClearRolling, marketVars
  <2>2. Phase = "closing" /\ Phase' = "open"
    BY <2>1, PhaseOf DEF PhaseAt, Phase
  <2>3. Rights' = Rights
    BY <1>4, RightsRollover DEF ClearRolling, Disarm, Arm
  <2> QED
    BY <2>1, <2>2, <2>3 DEF Gate!Next, Gate!End, Gate!PhaseStep
<1>5. CASE Disarm(r)
  <2>1. rpc[r] = "disarm" /\ rpc'[r] = "notify" /\ UNCHANGED market
    BY <1>5 DEF Disarm, marketVars
  <2>2. Phase' = Phase
    BY <2>1, PhaseOf DEF PhaseAt
  <2>3. Rights' = Rights \/ (Rights' = Rights - 1 /\ Rights > 0)
    BY <1>5, RightsRollover
  <2> QED
    BY <2>1, <2>2, <2>3 DEF Gate!Next, Gate!Withdraw, Gate!vars
<1>6. CASE PublishExpiry(r) \/ NotifyReconnect(r)
  <2>1. /\ rpc[r] \in {"expiry", "reconnect"} /\ rpc'[r] \in {"reconnect", "arm"}
        /\ UNCHANGED market
    BY <1>6 DEF PublishExpiry, NotifyReconnect, marketVars
  <2>2. Phase' = Phase
    BY <2>1, PhaseOf DEF PhaseAt
  <2>3. Rights' = Rights
    BY <1>6, RightsRollover DEF PublishExpiry, NotifyReconnect, Disarm, Arm
  <2> QED
    BY <2>1, <2>2, <2>3 DEF Gate!vars
<1>7. CASE /\ ~PublishMarket(r) /\ ~FetchErr(r) /\ ~Arm(r) /\ ~ClearRolling(r)
           /\ ~Disarm(r) /\ ~PublishExpiry(r) /\ ~NotifyReconnect(r)
  <2>1. /\ rpc[r] \in {"notify", "book", "ema", "last_ts", "shots", "dynamic",
                       "triggers", "window", "fetch"}
        /\ rpc'[r] \in {"book", "ema", "last_ts", "shots", "dynamic", "triggers",
                        "window", "fetch", "market"}
        /\ UNCHANGED market
    BY <1>7 DEF Rollover, RolloverNext, NotifyDisconnect, ResetBook, ResetEma,
      ResetLastTs, ResetShots, ResetDynamic, ResetTriggers, PickWindow, FetchOk, shared,
      marketVars
  <2>2. Phase = "replacing" /\ Phase' = "replacing"
    BY <2>1, PhaseOf DEF PhaseAt
  <2>3. Rights' = Rights
    BY <1>7, RightsRollover
  <2> QED
    BY <2>1, <2>2, <2>3 DEF Gate!vars
<1> QED
  BY <1>1, <1>2, <1>3, <1>4, <1>5, <1>6, <1>7

LEMMA GateStep ==
  ASSUME TypeOK, SingleRollover, MarketInv, [Next]_vars
  PROVE  [Gate!Next]_(Gate!vars)
<1>1. SingleRollover'
  BY LockStep
<1>2. ASSUME NEW r \in Rollovers, Rollover(r)
      PROVE  [Gate!Next]_(Gate!vars)
  BY <1>1, <1>2, GateRollover
<1>3. CASE Binance /\ StartRollover
  BY <1>1, <1>3, GateStart
<1>4. CASE Binance /\ ~StartRollover
  BY <1>4, RightsBinance, OthersKeepLock, GateAside
<1>5. CASE \E t \in Trades : Trade(t)
  BY <1>5, RightsTrade, OthersKeepLock, GateAside
<1>6. CASE Clock \/ Situation \/ Poly \/ UNCHANGED vars
  BY <1>6, RightsOthers, OthersKeepLock, GateAside
<1> QED
  BY <1>2, <1>3, <1>4, <1>5, <1>6 DEF Next

LEMMA GateInit == Init => Gate!Init
<1> SUFFICES ASSUME Init PROVE Gate!Init
  OBVIOUS
<1>1. market \in Nat /\ Phase = "open"
  BY NextExpiryFact, ClockAssumption DEF Init, SharedInit, NoMarket, Phase
<1>2. InFlight = {}
  BY DEF Init, TradeInit, InFlight
<1>3. Cardinality(InFlight) = 0
  BY <1>2, FS_EmptySet
<1>4. bpc \notin {"book", "market", "rearm"} /\ is_armed = (market # 0)
  BY DEF Init, SharedInit, BinanceInit, NoMarket
<1>5. CASE market = 0
  <2>1. ~is_armed
    BY <1>4, <1>5
  <2> QED
    BY <1>1, <1>3, <1>4, <1>5, <2>1 DEF Gate!Init, Rights
<1>6. CASE market # 0
  <2>1. is_armed
    BY <1>4, <1>6
  <2> QED
    BY <1>1, <1>3, <1>4, <1>6, <2>1 DEF Gate!Init, Rights
<1> QED
  BY <1>5, <1>6

(* Every behaviour of the bot is one of the gate: one replacement at a      *)
(* time, a market that never goes back, and no right but with it.          *)
THEOREM GateImplemented == Spec => ImplementsGate
<1>1. TypeOK /\ SingleRollover /\ MarketInv /\ [Next]_vars => [Gate!Next]_(Gate!vars)
  BY GateStep
<1> QED
  BY <1>1, GateInit, TypeCorrect, RolloverLock, MarketHolds, PTL
  DEF Spec, ImplementsGate, Gate!Spec
=============================================================================

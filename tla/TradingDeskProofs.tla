-------------------------- MODULE TradingDeskProofs --------------------------
(***************************************************************************)
(* What holds of TradingDesk for every value of its constants: type        *)
(* correctness, in which the bankroll never goes below zero, and that the  *)
(* position manager works on open positions only.                          *)
(***************************************************************************)
EXTENDS TradingDesk, ComponentProofs

(* Arithmetic that the provers need in this form. *)
LEMMA ProductNat ==
  ASSUME NEW a \in Nat, NEW b \in Nat
  PROVE  a * b \in Nat
OBVIOUS

LEMMA DivNat ==
  ASSUME NEW a \in Nat, NEW b \in Nat \ {0}
  PROVE  a \div b \in Nat
OBVIOUS

(* Shares added to a token, whether it is among those of S or not. *)
LEMMA AddNat ==
  ASSUME NEW S, NEW f \in [S -> Nat], NEW k, NEW n \in Nat
  PROVE  [f EXCEPT ![k] = @ + n] \in [S -> Nat]
<1>1. CASE k \in S
  BY <1>1
<1>2. CASE k \notin S
  BY <1>2
<1> QED
  BY <1>1, <1>2

(* An order at its compare_exchange does not exceed the bankroll that it    *)
(* loaded, and an order that was placed is for a share at least.           *)
Steps == {"idle", "post", "deduct", "cas", "ledger", "upsert"}
Order == [token : Nat \X Direction, price : Nat, size : Nat]
CasGuard == \A t \in Trades : xpc[t] = "cas" => xcur[t] >= Value(order[t])
OrderSized == \A t \in Trades : xpc[t] # "idle" => order[t].size >= 1

DeskInv == TypeOK /\ CasGuard /\ OrderSized
-----------------------------------------------------------------------------
LEMMA DeskInit == Init => DeskInv
<1> SUFFICES ASSUME Init PROVE DeskInv
  OBVIOUS
<1>1. SharedTypeOK /\ RolloverTypeOK /\ TradeTypeOK
  BY SharedInitType, TaskInitType DEF Init
<1>2. ExecutorTypeOK
  <2>1. NoOrder \in [token : Nat \X Direction, price : Nat, size : Nat]
    BY DEF NoOrder, NoToken, NoMarket, Direction
  <2>2. NoPosition \in Position
    BY DEF NoPosition, Position, NoMarket
  <2> QED
    BY <2>1, <2>2, ExecutorAssumption DEF Init, ExecutorInit, ExecutorTypeOK
<1>3. ManagerTypeOK
  BY DEF Init, ManagerInit, ManagerTypeOK, NoBid, NoMarket
<1>4. CasGuard /\ OrderSized
  BY DEF Init, ExecutorInit, CasGuard, OrderSized
<1> QED
  BY <1>1, <1>2, <1>3, <1>4 DEF DeskInv, TypeOK

(* The size of an order is a natural number. *)
LEMMA BuySizeNat ==
  ASSUME bankroll \in Nat, NEW o \in Offers
  PROVE  BuySize(o) \in Nat
<1>1. o.ask \in Nat \ {0}
  BY ExecutorAssumption
<1>2. bankroll * KellyPct \in Nat
  BY ProductNat, ExecutorAssumption
<1>3. 100 * o.ask \in Nat \ {0}
  BY <1>1
<1> QED
  BY <1>2, <1>3, DivNat DEF BuySize

(* The value of an order is a natural number. *)
LEMMA ValueNat ==
  ASSUME ExecutorTypeOK, NEW t \in Trades
  PROVE  order[t] \in Order /\ Value(order[t]) \in Nat
<1>1. order[t] \in Order
  BY DEF ExecutorTypeOK, Order
<1> QED
  BY <1>1, ProductNat DEF Value, Order
-----------------------------------------------------------------------------
(* One step of execute_trade.  The shared state and the trades change as   *)
(* they do in TriggerBuy, or not at all.                                   *)
LEMMA ExecuteTrades ==
  ASSUME TypeOK, NEW t \in Trades, ExecuteNext(t)
  PROVE  SharedTypeOK' /\ TradeTypeOK'
<1>1. TradeNext(t) \/ UNCHANGED <<tradeVars, shared>>
  BY DEF ExecuteNext, TradeNext, SizeOrder, RefuseOrder, BuyAccepted, BuyRejected,
    BuyAnswerLost, LoadBankroll, PaperBankrollTooLow, LiveBankrollTooLow, Deduct,
    DeductAgain, CreditLedger, UpsertPosition
<1>2. CASE TradeNext(t)
  BY <1>2, TradeStepType DEF TypeOK
<1>3. CASE UNCHANGED <<tradeVars, shared>>
  BY <1>3 DEF TypeOK, tradeVars, shared, SharedTypeOK, TradeTypeOK
<1> QED
  BY <1>1, <1>2, <1>3

(* execute_trade returns: its order is forgotten. *)
LEMMA ReturnFact ==
  ASSUME DeskInv, NEW t \in Trades, NEW from, XReturn(t, from)
  PROVE  /\ xpc' \in [Trades -> Steps]
         /\ order' \in [Trades -> Order]
         /\ xcur' \in [Trades -> Nat]
         /\ CasGuard' /\ OrderSized'
<1> USE DEF DeskInv, TypeOK, ExecutorTypeOK, XReturn, XGoto, Steps
<1>1. NoOrder \in Order
  BY DEF NoOrder, NoToken, NoMarket, Direction, Order
<1>2. xpc' \in [Trades -> Steps]
  OBVIOUS
<1>3. order' \in [Trades -> Order]
  BY <1>1 DEF Order
<1>4. xcur' \in [Trades -> Nat]
  OBVIOUS
<1>5. CasGuard'
  BY DEF CasGuard, Value
<1>6. OrderSized'
  BY DEF OrderSized
<1> QED
  BY <1>2, <1>3, <1>4, <1>5, <1>6

(* execute_trade goes on with its order. *)
LEMMA MoveFact ==
  ASSUME DeskInv, NEW t \in Trades, NEW from \in Steps \ {"idle"},
         NEW to \in Steps \ {"idle", "cas"}, XGoto(t, from, to), UNCHANGED <<order, xcur>>
  PROVE  /\ xpc' \in [Trades -> Steps]
         /\ CasGuard' /\ OrderSized'
<1> USE DEF DeskInv, TypeOK, ExecutorTypeOK, XGoto, Steps
<1>1. xpc' \in [Trades -> Steps]
  OBVIOUS
<1>2. CasGuard'
  BY DEF CasGuard, Value
<1>3. OrderSized'
  BY DEF OrderSized
<1> QED
  BY <1>1, <1>2, <1>3

(* What the exchange fills is a natural number of shares, and paid for. *)
LEMMA ExchangeFact ==
  ASSUME ExecutorTypeOK, NEW o \in Order, ExchangeBuys(o)
  PROVE  /\ cash' \in Nat
         /\ balance' \in [Token -> Nat]
         /\ UNCHANGED <<positions, trade_log>>
<1>1. PICK n \in Fills(o.size) :
        /\ o.price * n <= cash
        /\ cash' = cash - o.price * n
        /\ balance' = [balance EXCEPT ![o.token] = @ + n]
        /\ UNCHANGED <<positions, trade_log>>
  BY DEF ExchangeBuys
<1>2. n \in Nat
  BY <1>1 DEF Fills, Order
<1>3. o.price \in Nat
  BY DEF Order
<1>4. o.price * n \in Nat
  BY <1>2, <1>3, ProductNat
<1>5. cash' \in Nat
  BY <1>1, <1>4 DEF ExecutorTypeOK
<1>6. balance' \in [Token -> Nat]
  BY <1>1, <1>2, AddNat DEF ExecutorTypeOK
<1> QED
  BY <1>1, <1>5, <1>6

(* One step of execute_trade.  A bankroll that is replaced was, at the     *)
(* load, no less than the amount.                                          *)
LEMMA ExecuteType ==
  ASSUME DeskInv, NEW t \in Trades, ExecuteNext(t)
  PROVE  ExecutorTypeOK' /\ CasGuard' /\ OrderSized'
<1> USE DEF DeskInv, TypeOK, ExecutorTypeOK, holdingVars, Steps, Order
<1>1. order[t] \in Order /\ Value(order[t]) \in Nat
  BY ValueNat
<1>3. CASE SizeOrder(t)
  <2>1. PICK o \in Offers, side \in Sides :
          /\ Acceptable(o)
          /\ order' = [order EXCEPT ![t] = [token |-> <<snap[t].market, side>>,
                                          price |-> o.price, size |-> BuySize(o)]]
    BY <1>3 DEF SizeOrder
  <2>2. BuySize(o) \in Nat /\ BuySize(o) >= 1
    BY <2>1, BuySizeNat DEF Acceptable, MinDust
  <2>3. [token |-> <<snap[t].market, side>>, price |-> o.price, size |-> BuySize(o)]
          \in Order
    BY <2>2, ExecutorAssumption DEF TradeTypeOK, TriggerSnapshot
  <2>4. order' \in [Trades -> Order]
    BY <2>1, <2>3
  <2>5. /\ \A u \in Trades : u # t => xpc'[u] = xpc[u] /\ order'[u] = order[u]
        /\ xpc'[t] \in {"deduct", "post"}
        /\ order'[t].size >= 1
        /\ xpc' \in [Trades -> Steps]
        /\ UNCHANGED xcur
    BY <1>3, <2>1, <2>2 DEF SizeOrder, XGoto
  <2>6. ExecutorTypeOK'
    BY <1>3, <2>4, <2>5 DEF SizeOrder
  <2>7. CasGuard'
    BY <2>5 DEF CasGuard, Value
  <2>8. OrderSized'
    BY <2>5 DEF OrderSized
  <2> QED
    BY <2>6, <2>7, <2>8
<1>4. CASE RefuseOrder(t)
  <2>1. UNCHANGED <<mode, bankroll, positions, balance, cash, trade_log, xpc, order, xcur>>
    BY <1>4 DEF RefuseOrder, executorVars
  <2>2. ExecutorTypeOK'
    BY <2>1
  <2>3. CasGuard' /\ OrderSized'
    BY <2>1 DEF CasGuard, OrderSized, Value
  <2> QED
    BY <2>2, <2>3
<1>5. CASE BuyAccepted(t)
  <2>1. cash' \in Nat /\ balance' \in [Token -> Nat] /\ UNCHANGED <<positions, trade_log>>
    BY <1>1, <1>5, ExchangeFact DEF BuyAccepted
  <2>2. xpc' \in [Trades -> Steps] /\ CasGuard' /\ OrderSized'
    BY <1>5, MoveFact DEF BuyAccepted
  <2> QED
    BY <1>5, <2>1, <2>2 DEF BuyAccepted
<1>6. CASE BuyAnswerLost(t)
  <2>1. cash' \in Nat /\ balance' \in [Token -> Nat] /\ UNCHANGED <<positions, trade_log>>
    BY <1>1, <1>6, ExchangeFact DEF BuyAnswerLost
  <2>2. /\ xpc' \in [Trades -> Steps] /\ order' \in [Trades -> Order]
        /\ xcur' \in [Trades -> Nat] /\ CasGuard' /\ OrderSized'
    BY <1>6, ReturnFact DEF BuyAnswerLost
  <2> QED
    BY <1>6, <2>1, <2>2 DEF BuyAnswerLost
<1>7. CASE BuyRejected(t) \/ PaperBankrollTooLow(t)
  <2>1. PICK from \in {"post", "deduct"} : XReturn(t, from)
    BY <1>7 DEF BuyRejected, PaperBankrollTooLow
  <2>2. /\ xpc' \in [Trades -> Steps] /\ order' \in [Trades -> Order]
        /\ xcur' \in [Trades -> Nat] /\ CasGuard' /\ OrderSized'
    BY <2>1, ReturnFact
  <2>3. UNCHANGED <<mode, bankroll, positions, balance, cash, trade_log>>
    BY <1>7 DEF BuyRejected, PaperBankrollTooLow
  <2> QED
    BY <2>2, <2>3
<1>8. CASE LoadBankroll(t)
  <2>1. /\ \A u \in Trades : u # t => xpc'[u] = xpc[u] /\ xcur'[u] = xcur[u]
        /\ xpc[t] = "deduct" /\ xcur'[t] >= Value(order[t])
        /\ xpc' \in [Trades -> Steps] /\ xcur' \in [Trades -> Nat]
        /\ UNCHANGED <<mode, bankroll, positions, balance, cash, trade_log, order>>
    BY <1>8 DEF LoadBankroll, XGoto
  <2>2. CasGuard'
    BY <2>1 DEF CasGuard, Value
  <2>3. OrderSized'
    BY <2>1 DEF OrderSized
  <2> QED
    BY <2>1, <2>2, <2>3
<1>9. CASE LiveBankrollTooLow(t) \/ DeductAgain(t)
  <2>1. xpc' \in [Trades -> Steps] /\ CasGuard' /\ OrderSized'
    BY <1>9, MoveFact DEF LiveBankrollTooLow, DeductAgain
  <2> QED
    BY <1>9, <2>1 DEF LiveBankrollTooLow, DeductAgain
<1>10. CASE Deduct(t)
  <2>1. xpc' \in [Trades -> Steps] /\ CasGuard' /\ OrderSized'
    BY <1>10, MoveFact DEF Deduct
  <2>2. xpc[t] = "cas" /\ xcur[t] \in Nat /\ bankroll' = xcur[t] - Value(order[t])
    BY <1>10 DEF Deduct, XGoto
  <2>3. bankroll' \in Nat
    BY <1>1, <2>2 DEF CasGuard
  <2> QED
    BY <1>10, <2>1, <2>3 DEF Deduct
<1>11. CASE CreditLedger(t)
  <2>1. xpc' \in [Trades -> Steps] /\ CasGuard' /\ OrderSized'
    BY <1>11, MoveFact DEF CreditLedger
  <2>2. balance' \in [Token -> Nat]
    BY <1>1, <1>11, AddNat DEF CreditLedger
  <2> QED
    BY <1>11, <2>1, <2>2 DEF CreditLedger
<1>12. CASE UpsertPosition(t)
  <2> DEFINE k == order[t].token
             p == [shares    |-> positions[k].shares + order[t].size,
                   condition |-> IF positions[k] = NoPosition THEN market
                                 ELSE positions[k].condition]
  <2>0. positions' = [positions EXCEPT ![k] = p]
    BY <1>12 DEF UpsertPosition
  <2>1. positions' \in [Token -> Position]
    <3>1. CASE k \in Token
      <4>1. positions[k] \in Position /\ order[t].size \in Nat /\ market \in Nat
        BY <1>1, <3>1 DEF SharedTypeOK
      <4>2. p \in Position
        BY <4>1 DEF Position
      <4> QED
        BY <2>0, <4>2
    <3>2. CASE k \notin Token
      BY <2>0, <3>2
    <3> QED
      BY <3>1, <3>2
  <2>2. trade_log' \in [spent : Nat, earned : Nat]
    BY <1>1, <1>12 DEF UpsertPosition
  <2>3. /\ xpc' \in [Trades -> Steps] /\ order' \in [Trades -> Order]
        /\ xcur' \in [Trades -> Nat] /\ CasGuard' /\ OrderSized'
    BY <1>12, ReturnFact DEF UpsertPosition
  <2> QED
    BY <1>12, <2>1, <2>2, <2>3 DEF UpsertPosition
<1> QED
  BY <1>3, <1>4, <1>5, <1>6, <1>7, <1>8, <1>9, <1>10, <1>11, <1>12 DEF ExecuteNext
-----------------------------------------------------------------------------
(* What the exchange sells is in the wallet, and is paid for. *)
LEMMA SaleFact ==
  ASSUME ExecutorTypeOK, ManagerTypeOK, ExchangeSells
  PROVE  ExecutorTypeOK' /\ UNCHANGED <<xpc, order, xcur, tradeVars, shared>>
<1>1. PICK n \in Fills(mshares) :
        /\ balance' = [balance EXCEPT ![mtoken] = @ - n]
        /\ cash' = cash + mbid.price * n
  BY DEF ExchangeSells
<1>2. n \in Nat /\ n <= mshares
  BY <1>1 DEF Fills, ManagerTypeOK
<1>3. mbid.price * n \in Nat
  BY <1>2, ProductNat DEF ManagerTypeOK
<1>4. cash' \in Nat
  BY <1>1, <1>3 DEF ExecutorTypeOK
<1>5. balance' \in [Token -> Nat]
  <2>1. CASE mtoken \in Token
    <3>1. balance[mtoken] \in Nat /\ mshares \in Nat /\ mshares <= balance[mtoken]
      BY <2>1 DEF ExecutorTypeOK, ManagerTypeOK, ExchangeSells
    <3>2. balance[mtoken] - n \in Nat
      BY <1>2, <3>1
    <3> QED
      BY <1>1, <3>2 DEF ExecutorTypeOK
  <2>2. CASE mtoken \notin Token
    BY <1>1, <2>2 DEF ExecutorTypeOK
  <2> QED
    BY <2>1, <2>2
<1> QED
  BY <1>4, <1>5 DEF ExchangeSells, ExecutorTypeOK

(* One step of the position manager.  It leaves the orders alone; what it   *)
(* adds to the bankroll, to the cash and to the log is a natural number.    *)
LEMMA ManagerType ==
  ASSUME TypeOK, ManagerNext
  PROVE  /\ ManagerTypeOK'
         /\ ExecutorTypeOK'
         /\ UNCHANGED <<xpc, order, xcur, tradeVars, shared>>
<1> USE DEF TypeOK, ManagerTypeOK, MGoto
<1>1. NoToken \in Token \cup {NoToken} /\ NoBid \in [market : Nat, price : Nat]
  BY DEF NoBid, NoMarket
<1>2. NoPosition \in Position
  BY DEF NoPosition, Position, NoMarket
<1>3. CASE \/ WakeManager \/ ReadChain \/ ReadChainFails \/ ListPositions \/ RoundOver
           \/ ReadPosition \/ Hold \/ StartRedeem \/ StartSell \/ SellRejected
           \/ LoadForCredit \/ CreditAgain
  <2>1. UNCHANGED executorVars /\ UNCHANGED tradeVars /\ UNCHANGED shared
    BY <1>3 DEF WakeManager, ReadChain, ReadChainFails, ListPositions, RoundOver,
      ReadPosition, Hold, StartRedeem, StartSell, SellRejected, LoadForCredit, CreditAgain
  <2>2. ExecutorTypeOK' /\ UNCHANGED <<xpc, order, xcur, tradeVars, shared>>
    BY <2>1 DEF executorVars, holdingVars, ExecutorTypeOK
  <2>3. ManagerTypeOK'
    <3>1. CASE WakeManager
      <4>1. mexpired' \in BOOLEAN
        BY <3>1 DEF WakeManager, IsMarketExpired
      <4>2. mpc' \in {"list", "reconcile"}
        BY <3>1 DEF WakeManager
      <4>3. UNCHANGED <<mtodo, mtoken, mshares, mbid, mcur>>
        BY <3>1 DEF WakeManager
      <4> QED
        BY <4>1, <4>2, <4>3
    <3>2. CASE ReadChain BY <3>2 DEF ReadChain, ExecutorTypeOK
    <3>3. CASE ReadChainFails BY <3>3 DEF ReadChainFails
    <3>4. CASE ListPositions BY <3>4 DEF ListPositions, Open
    <3>5. CASE RoundOver BY <3>5 DEF RoundOver
    <3>6. CASE ReadPosition
      <4>1. PICK k \in mtodo : mtodo' = mtodo \ {k} /\ mtoken' = k
                               /\ mshares' = positions[k].shares
        BY <3>6 DEF ReadPosition
      <4>2. mshares' \in Nat
        BY <4>1 DEF ExecutorTypeOK, Position
      <4> QED
        BY <3>6, <4>1, <4>2 DEF ReadPosition
    <3>7. CASE Hold \/ SellRejected
      BY <1>1, <3>7 DEF Hold, SellRejected, NextToken
    <3>8. CASE StartRedeem BY <3>8 DEF StartRedeem
    <3>9. CASE StartSell
      <4>1. PICK price \in BidPrices : mbid' = [market |-> Bid, price |-> price]
        BY <3>9 DEF StartSell
      <4>2. mtoken[2] \in Direction
        <5>1. CASE mtoken \in Token
          <6>1. mtoken[2] \in Sides
            BY <5>1 DEF Token
          <6> QED
            BY <6>1, ExecutorAssumption
        <5>2. CASE mtoken = NoToken
          BY <5>2 DEF NoToken, Direction
        <5> QED
          BY <5>1, <5>2
      <4>3. Bid \in Nat
        BY <4>2 DEF Bid, SharedTypeOK, Quote
      <4>4. mbid' \in [market : Nat, price : Nat]
        BY <4>1, <4>3, BidAssumption
      <4> QED
        BY <3>9, <4>4 DEF StartSell
    <3>10. CASE LoadForCredit BY <3>10 DEF LoadForCredit, ExecutorTypeOK
    <3>11. CASE CreditAgain BY <3>11 DEF CreditAgain
    <3> QED
      BY <1>3, <3>1, <3>2, <3>3, <3>4, <3>5, <3>6, <3>7, <3>8, <3>9, <3>10, <3>11
  <2> QED
    BY <2>2, <2>3
<1>4. CASE StoreBankroll
  BY <1>4 DEF StoreBankroll, ExecutorTypeOK, holdingVars
<1>5. CASE RedeemSucceeds
  <2>1. \A k \in Redeemed : Dollar * balance[k] \in Nat
    BY DEF Redeemed, ExecutorTypeOK, Dollar
  <2>2. cash' \in Nat
    BY <1>5, <2>1 DEF RedeemSucceeds, ExecutorTypeOK
  <2>3. balance' \in [Token -> Nat]
    BY <1>5 DEF RedeemSucceeds, ExecutorTypeOK
  <2>4. positions' \in [Token -> Position]
    BY <1>2, <1>5 DEF RedeemSucceeds, Drop, ExecutorTypeOK
  <2>5. ManagerTypeOK'
    BY <1>1, <1>5 DEF RedeemSucceeds, NextToken
  <2> QED
    BY <1>5, <2>2, <2>3, <2>4, <2>5 DEF RedeemSucceeds, ExecutorTypeOK
<1>6. CASE RedeemFails
  <2>1. positions' \in [Token -> Position]
    BY <1>2, <1>6 DEF RedeemFails, Drop, ExecutorTypeOK
  <2>2. ManagerTypeOK'
    BY <1>1, <1>6 DEF RedeemFails, NextToken
  <2> QED
    BY <1>6, <2>1, <2>2 DEF RedeemFails, ExecutorTypeOK
<1>7. CASE DebitLedger
  <2> DEFINE left == IF balance[mtoken] > mshares THEN balance[mtoken] - mshares ELSE 0
  <2>0. balance' = [balance EXCEPT ![mtoken] = left]
    BY <1>7 DEF DebitLedger
  <2>1. balance' \in [Token -> Nat]
    <3>1. CASE mtoken \in Token
      <4>1. balance[mtoken] \in Nat /\ mshares \in Nat
        BY <3>1 DEF ExecutorTypeOK
      <4>2. left \in Nat
        BY <4>1
      <4> QED
        BY <2>0, <4>2 DEF ExecutorTypeOK
    <3>2. CASE mtoken \notin Token
      BY <2>0, <3>2 DEF ExecutorTypeOK
    <3> QED
      BY <3>1, <3>2
  <2>2. ManagerTypeOK'
    BY <1>7 DEF DebitLedger
  <2> QED
    BY <1>7, <2>1, <2>2 DEF DebitLedger, ExecutorTypeOK
<1>8. CASE SellAccepted \/ SellAnswerLost
  <2>1. ExchangeSells
    BY <1>8 DEF SellAccepted, SellAnswerLost
  <2>2. ExecutorTypeOK' /\ UNCHANGED <<xpc, order, xcur, tradeVars, shared>>
    BY <2>1, SaleFact
  <2>3. ManagerTypeOK'
    BY <1>1, <1>8 DEF SellAccepted, SellAnswerLost, NextToken
  <2> QED
    BY <2>2, <2>3
<1>9. CASE Credit
  <2>1. Proceeds \in Nat
    BY ProductNat DEF Proceeds
  <2>2. bankroll' \in Nat
    BY <1>9, <2>1 DEF Credit
  <2>3. ManagerTypeOK'
    BY <1>9 DEF Credit
  <2> QED
    BY <1>9, <2>2, <2>3 DEF Credit, ExecutorTypeOK, holdingVars
<1>10. CASE RemovePosition
  <2>1. Proceeds \in Nat
    BY ProductNat DEF Proceeds
  <2>2. trade_log' \in [spent : Nat, earned : Nat]
    BY <1>10, <2>1 DEF RemovePosition, ExecutorTypeOK
  <2>3. positions' \in [Token -> Position]
    BY <1>2, <1>10 DEF RemovePosition, Drop, ExecutorTypeOK
  <2>4. ManagerTypeOK'
    BY <1>1, <1>10 DEF RemovePosition, NextToken
  <2> QED
    BY <1>10, <2>2, <2>3, <2>4 DEF RemovePosition, ExecutorTypeOK
<1> QED
  BY <1>3, <1>4, <1>5, <1>6, <1>7, <1>8, <1>9, <1>10 DEF ManagerNext
-----------------------------------------------------------------------------
(* No step of the environment touches an order, a holding or the manager. *)
LEMMA EnvironmentStep ==
  ASSUME TypeOK, \/ Clock \/ TickFires \/ TickExpires \/ FeedBid
                 \/ \E r \in Rollovers : Rollover(r)
                 \/ \E t \in Trades : CountAndRearm(t)
                 \/ UNCHANGED vars
  PROVE  /\ SharedTypeOK' /\ RolloverTypeOK' /\ TradeTypeOK'
         /\ UNCHANGED <<executorVars, managerVars>>
<1> USE DEF TypeOK
<1>1. CASE Clock
  BY <1>1, ClockAssumption DEF Clock, Tick, SharedTypeOK, marketVars, streamVars, emaVars,
    sniperVars, rolloverVars, tradeVars, RolloverTypeOK, TradeTypeOK
<1>2. CASE TickFires
  <2>1. PICK t \in Trades : SpawnTrade(t, [market |-> market, ts |-> wall, price |-> market])
    BY <1>2 DEF TickFires
  <2>2. TradeTypeOK'
    BY <2>1 DEF SpawnTrade, TradeTypeOK, TriggerSnapshot, SharedTypeOK
  <2>3. SharedTypeOK'
    BY <1>2 DEF TickFires, SharedTypeOK, marketVars, streamVars, emaVars
  <2>4. RolloverTypeOK'
    BY <1>2 DEF TickFires, rolloverVars, RolloverTypeOK
  <2> QED
    BY <1>2, <2>2, <2>3, <2>4 DEF TickFires
<1>3. CASE TickExpires
  <2>1. PICK r \in Rollovers : SpawnRollover(r)
    BY <1>3 DEF TickExpires
  <2>2. RolloverTypeOK'
    BY <2>1 DEF SpawnRollover, RolloverTypeOK, RolloverStep, Goto
  <2>3. SharedTypeOK' /\ TradeTypeOK'
    BY <1>3 DEF TickExpires, SharedTypeOK, TradeTypeOK, marketVars, streamVars, emaVars,
      sniperVars, tradeVars
  <2> QED
    BY <1>3, <2>2, <2>3 DEF TickExpires
<1>4. CASE FeedBid
  <2>1. PICK side \in Sides, bid \in {market, None} :
          book' = [book EXCEPT ![<<"bid", side>>] = bid]
    BY <1>4 DEF FeedBid
  <2>2. book' \in [Quote -> Nat]
    <3>1. bid \in Nat /\ book \in [Quote -> Nat]
      BY DEF SharedTypeOK, None
    <3>2. ASSUME NEW q \in Quote PROVE book'[q] = book[q] \/ book'[q] = bid
      BY <2>1, <3>1
    <3> QED
      BY <2>1, <3>1, <3>2
  <2>3. SharedTypeOK'
    BY <1>4, <2>2 DEF FeedBid, SharedTypeOK, marketVars, emaVars, sniperVars
  <2>4. RolloverTypeOK' /\ TradeTypeOK'
    BY <1>4 DEF FeedBid, RolloverTypeOK, TradeTypeOK, rolloverVars, tradeVars
  <2> QED
    BY <1>4, <2>3, <2>4 DEF FeedBid
<1>5. ASSUME NEW r \in Rollovers, Rollover(r)
      PROVE  /\ SharedTypeOK' /\ RolloverTypeOK' /\ TradeTypeOK'
             /\ UNCHANGED <<executorVars, managerVars>>
  BY <1>5, RolloverStepType DEF Rollover, tradeVars, TradeTypeOK
<1>6. ASSUME NEW t \in Trades, CountAndRearm(t)
      PROVE  /\ SharedTypeOK' /\ RolloverTypeOK' /\ TradeTypeOK'
             /\ UNCHANGED <<executorVars, managerVars>>
  BY <1>6, TradeStepType DEF CountAndRearm, TradeNext, rolloverVars, RolloverTypeOK
<1>7. CASE UNCHANGED vars
  BY <1>7 DEF vars, shared, rolloverVars, tradeVars, SharedTypeOK, RolloverTypeOK, TradeTypeOK
<1> QED
  BY <1>1, <1>2, <1>3, <1>4, <1>5, <1>6, <1>7

(* The three facts are kept together: a compare_exchange never puts a       *)
(* bankroll below zero because the load before it compared it.             *)
LEMMA DeskNext == DeskInv /\ [Next]_vars => DeskInv'
<1> SUFFICES ASSUME DeskInv, [Next]_vars PROVE DeskInv'
  OBVIOUS
<1> USE DEF DeskInv, TypeOK
<1>1. ASSUME NEW t \in Trades, Execute(t) PROVE DeskInv'
  <2>1. SharedTypeOK' /\ TradeTypeOK'
    BY <1>1, ExecuteTrades DEF Execute
  <2>2. ExecutorTypeOK' /\ CasGuard' /\ OrderSized'
    BY <1>1, ExecuteType DEF Execute
  <2>3. RolloverTypeOK' /\ ManagerTypeOK'
    BY <1>1 DEF Execute, rolloverVars, managerVars, RolloverTypeOK, ManagerTypeOK
  <2> QED
    BY <2>1, <2>2, <2>3
<1>2. CASE Manager
  <2>1. /\ ManagerTypeOK' /\ ExecutorTypeOK'
        /\ UNCHANGED <<xpc, order, xcur, tradeVars, shared>>
    BY <1>2, ManagerType DEF Manager
  <2>2. CasGuard' /\ OrderSized'
    BY <2>1 DEF CasGuard, OrderSized, Value
  <2>3. SharedTypeOK' /\ RolloverTypeOK' /\ TradeTypeOK'
    BY <1>2, <2>1 DEF Manager, shared, rolloverVars, tradeVars, SharedTypeOK,
      RolloverTypeOK, TradeTypeOK
  <2> QED
    BY <2>1, <2>2, <2>3
<1>3. CASE \/ Clock \/ TickFires \/ TickExpires \/ FeedBid
           \/ \E r \in Rollovers : Rollover(r)
           \/ \E t \in Trades : CountAndRearm(t)
           \/ UNCHANGED vars
  <2>1. /\ SharedTypeOK' /\ RolloverTypeOK' /\ TradeTypeOK'
        /\ UNCHANGED <<executorVars, managerVars>>
    BY <1>3, EnvironmentStep
  <2>2. ExecutorTypeOK' /\ CasGuard' /\ OrderSized'
    BY <2>1 DEF executorVars, holdingVars, ExecutorTypeOK, CasGuard, OrderSized, Value
  <2>3. ManagerTypeOK'
    BY <2>1 DEF managerVars, ManagerTypeOK
  <2> QED
    BY <2>1, <2>2, <2>3
<1> QED
  BY <1>1, <1>2, <1>3 DEF Next

(* Every variable keeps its type, whatever the order of the steps and the  *)
(* bankroll, the balances and the cash never go below zero: two paper      *)
(* orders that were sized by the same bankroll are not both deducted from  *)
(* one that pays for a single order only.                                  *)
THEOREM DeskTypeCorrect == Spec => []TypeOK
<1>1. DeskInv => TypeOK
  BY DEF DeskInv
<1> QED
  BY DeskInit, DeskNext, <1>1, PTL DEF Spec
-----------------------------------------------------------------------------
(* A buy opens a position or adds to one. *)
LEMMA OpenGrows ==
  ASSUME DeskInv, NEW t \in Trades, ExecuteNext(t)
  PROVE  Open \subseteq Open'
<1> USE DEF DeskInv, TypeOK, ExecutorTypeOK
<1>1. CASE UpsertPosition(t)
  <2> DEFINE k == order[t].token
  <2>1. SUFFICES ASSUME NEW j \in Open PROVE positions'[j] # NoPosition
    BY DEF Open
  <2>2. CASE j = k
    <3>1. positions[k].shares \in Nat
      BY <2>2 DEF Open, Position
    <3>2. order[t].size \in Nat /\ order[t].size >= 1
      BY <1>1 DEF UpsertPosition, XReturn, XGoto, OrderSized
    <3>3. positions'[j].shares = positions[k].shares + order[t].size
      BY <1>1, <2>2 DEF UpsertPosition, Open
    <3>4. positions'[j].shares # 0
      BY <3>1, <3>2, <3>3
    <3> QED
      BY <3>4 DEF NoPosition
  <2>3. CASE j # k
    BY <1>1, <2>3 DEF UpsertPosition, Open
  <2> QED
    BY <2>2, <2>3
<1>2. CASE ~UpsertPosition(t)
  <2>1. UNCHANGED positions
    BY <1>2 DEF ExecuteNext, SizeOrder, RefuseOrder, BuyAccepted, BuyRejected,
      BuyAnswerLost, ExchangeBuys, LoadBankroll, PaperBankrollTooLow, LiveBankrollTooLow,
      Deduct, DeductAgain, CreditLedger, executorVars, holdingVars
  <2> QED
    BY <2>1 DEF Open
<1> QED
  BY <1>1, <1>2

(* One step of the manager: a token is taken off the list before it is      *)
(* evaluated, so that its removal leaves the rest of the list open.        *)
LEMMA ManagerOpen ==
  ASSUME DeskInv, EvaluatesOpenPositions, ManagerNext
  PROVE  EvaluatesOpenPositions'
<1> USE DEF EvaluatesOpenPositions, Evaluating, MGoto
<1>1. CASE WakeManager \/ ReadChain \/ ReadChainFails \/ StoreBankroll
  BY <1>1 DEF WakeManager, ReadChain, ReadChainFails, StoreBankroll, Open, executorVars,
    holdingVars
<1>2. CASE ListPositions \/ RoundOver
  BY <1>2 DEF ListPositions, RoundOver, Open, executorVars, holdingVars
<1>3. CASE ReadPosition
  BY <1>3 DEF ReadPosition, Open, executorVars, holdingVars
<1>4. CASE Hold \/ SellRejected \/ SellAnswerLost
  BY <1>4 DEF Hold, SellRejected, SellAnswerLost, ExchangeSells, NextToken, Open,
    executorVars, holdingVars
<1>5. CASE StartRedeem \/ StartSell
  BY <1>5 DEF StartRedeem, StartSell, Open, executorVars, holdingVars
<1>6. CASE DebitLedger \/ SellAccepted
  BY <1>6 DEF DebitLedger, SellAccepted, ExchangeSells, Open
<1>7. CASE LoadForCredit \/ Credit \/ CreditAgain
  BY <1>7 DEF LoadForCredit, Credit, CreditAgain, Open, executorVars, holdingVars
<1>8. CASE RedeemSucceeds \/ RedeemFails \/ RemovePosition
  <2>1. /\ mpc' = "next" /\ mtodo' = mtodo /\ Drop(mtoken) /\ mtoken \in Open \ mtodo
    BY <1>8 DEF RedeemSucceeds, RedeemFails, RemovePosition, NextToken
  <2>2. Open \ {mtoken} \subseteq Open'
    BY <2>1 DEF Drop, Open, DeskInv, TypeOK, ExecutorTypeOK
  <2> QED
    BY <2>1, <2>2
<1> QED
  BY <1>1, <1>2, <1>3, <1>4, <1>5, <1>6, <1>7, <1>8 DEF ManagerNext

(* A position that a round evaluates or has yet to evaluate is open,        *)
(* however many buys are filled and rollovers run during the round.        *)
THEOREM OnlyOpenPositions == Spec => []EvaluatesOpenPositions
<1> DEFINE Inv == DeskInv /\ EvaluatesOpenPositions
<1>1. Init => Inv
  BY DeskInit DEF Init, ManagerInit, EvaluatesOpenPositions, Evaluating
<1>2. Inv /\ [Next]_vars => Inv'
  <2> SUFFICES ASSUME Inv, [Next]_vars PROVE EvaluatesOpenPositions'
    BY DeskNext
  <2>1. ASSUME NEW t \in Trades, Execute(t) PROVE EvaluatesOpenPositions'
    <3>1. Open \subseteq Open'
      BY <2>1, OpenGrows DEF Execute
    <3> QED
      BY <2>1, <3>1 DEF Execute, managerVars, EvaluatesOpenPositions
  <2>2. CASE Manager
    BY <2>2, ManagerOpen DEF Manager
  <2>3. CASE \/ Clock \/ TickFires \/ TickExpires \/ FeedBid
             \/ \E r \in Rollovers : Rollover(r)
             \/ \E t \in Trades : CountAndRearm(t)
             \/ UNCHANGED vars
    <3>1. UNCHANGED <<executorVars, managerVars>>
      BY <2>3, EnvironmentStep DEF DeskInv
    <3> QED
      BY <3>1 DEF executorVars, holdingVars, managerVars, EvaluatesOpenPositions, Open
  <2> QED
    BY <2>1, <2>2, <2>3 DEF Next
<1> QED
  BY <1>1, <1>2, PTL DEF Spec
=============================================================================

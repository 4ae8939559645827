------------------------------ MODULE TradingDesk ------------------------------
(***************************************************************************)
(* The money of the bot: the orders of the trigger_buy tasks and the       *)
(* position manager, interleaved on bankroll, positions and ledger, while  *)
(* rollovers replace the market under them.  The Binance handler and the   *)
(* feed, modelled access by access in SniperBot, are one step each here:   *)
(* a tick that fires, a tick that starts a rollover, a message.            *)
(***************************************************************************)
EXTENDS PositionManager, RolloverTask, Functions

vars == <<shared, rolloverVars, tradeVars, executorVars, managerVars>>

TypeOK ==
  /\ SharedTypeOK /\ RolloverTypeOK /\ TradeTypeOK
  /\ ExecutorTypeOK /\ ManagerTypeOK

Init ==
  /\ SharedInit /\ RolloverInit /\ TradeInit
  /\ ExecutorInit /\ ManagerInit

(* A tick outside of the guard takes the right to fire and spawns a trade.  *)
(* MaxShots bounds the trades of a window.                                 *)
TickFires ==
  /\ is_armed
  /\ is_armed' = FALSE
  /\ market # NoMarket
  /\ SecondsToExpiry(wall) >= Guard
  /\ window_shots_fired + Cardinality(InFlight) < MaxShots
  /\ \E t \in Trades :
       SpawnTrade(t, [market |-> market, ts |-> wall, price |-> market])
  /\ UNCHANGED <<wall, marketVars, is_rolling_over, streamVars, emaVars, trigger,
                 dynamic_threshold, window_shots_fired, rolloverVars, executorVars,
                 managerVars>>

(* A tick after the expiry takes the lock and spawns a rollover. *)
TickExpires ==
  /\ IsMarketExpired(wall)
  /\ ~is_rolling_over
  /\ is_rolling_over' = TRUE
  /\ \E r \in Rollovers : SpawnRollover(r)
  /\ UNCHANGED <<wall, marketVars, streamVars, emaVars, sniperVars, tradeVars,
                 executorVars, managerVars>>

(* The feed sets or empties a best bid of the published market. *)
FeedBid ==
  /\ market # NoMarket
  /\ \E side \in Sides, bid \in {market, None} :
       book' = [book EXCEPT ![<<"bid", side>>] = bid]
  /\ UNCHANGED <<wall, marketVars, is_rolling_over, poly_disconnect, poly_reconnect,
                 emaVars, sniperVars, rolloverVars, tradeVars, executorVars, managerVars>>

Clock == Tick /\ UNCHANGED <<rolloverVars, tradeVars, executorVars, managerVars>>
Rollover(r) == RolloverNext(r) /\ UNCHANGED <<tradeVars, executorVars, managerVars>>
Execute(t) == ExecuteNext(t) /\ UNCHANGED <<rolloverVars, managerVars>>
CountAndRearm(t) ==
  /\ IncrementShots(t) \/ Escalate(t) \/ Rearm(t)
  /\ UNCHANGED <<rolloverVars, executorVars, managerVars>>
Manager == ManagerNext /\ UNCHANGED rolloverVars

Next ==
  \/ Clock \/ TickFires \/ TickExpires \/ FeedBid
  \/ \E r \in Rollovers : Rollover(r)
  \/ \E t \in Trades : Execute(t) \/ CountAndRearm(t)
  \/ Manager

Spec == Init /\ [][Next]_vars

(* Fairness.  tokio runs the rollovers and the manager, which wakes between *)
(* two rollovers and finds a reconciliation due again and again (SF, a     *)
(* rollover disables it for a while); the chain answers in the end (SF).   *)
(* Nothing is assumed of the orders, the clock, the ticks, the feed, the    *)
(* Gamma API or the exchange, which may lose or reject every order.        *)
Reconciles == WakeManager /\ mpc' = "reconcile" /\ UNCHANGED rolloverVars
ChainAnswers == ReadChain /\ mcur' = cash /\ UNCHANGED rolloverVars

Fairness ==
  /\ \A r \in Rollovers : WF_vars(Rollover(r))
  /\ WF_vars(Manager) /\ SF_vars(Reconciles) /\ SF_vars(ChainAnswers)

FairSpec == Spec /\ Fairness
-----------------------------------------------------------------------------
(* Money on its way: deducted for a buy that is not logged yet, credited   *)
(* for a sale that is not.                                                 *)
UnloggedBuys ==
  SumFunctionOnSet([t \in Trades |-> Value(order[t])],
                   {t \in Trades : xpc[t] \in {"ledger", "upsert"}})
UnloggedSale == IF mpc = "remove" THEN Proceeds ELSE 0

(* No paper money is made or lost: the bankroll is what the log's rows say *)
(* it is, however orders and sales interleave between load and             *)
(* compare_exchange.                                                       *)
CashConserved ==
  mode = "paper" =>
    bankroll = Start - trade_log.spent + trade_log.earned - UnloggedBuys + UnloggedSale

(* A paper position never claims more shares than the ledger holds, so     *)
(* that no sale is cut off at zero by debit_sell: the ledger is credited   *)
(* before the position is opened, and a sold position is gone before the   *)
(* next one is evaluated.                                                  *)
PaperNeverOversold ==
  mode = "paper" =>
    \A k \in Open : \/ positions[k].shares <= balance[k]
                    \/ k = mtoken /\ mpc \in {"credit", "cas", "remove"}

(* A position that a round has yet to evaluate, or evaluates, is open: no   *)
(* one but this task removes positions, each is evaluated once, and a buy  *)
(* only adds to them.  So no sale or redemption works on a record that is   *)
(* gone, and the early returns of evaluate_position are never taken.       *)
Evaluating == {"bid", "redeem", "sell", "credit", "cas", "remove"}
EvaluatesOpenPositions ==
  /\ mtodo \subseteq Open
  /\ mpc \in Evaluating => mtoken \in Open \ mtodo

(* What a paper account holds, told by what was paid for: the shares of an *)
(* order from its deduction on, those of a sale until it is credited.      *)
SharesBought(k) ==
  SumFunctionOnSet([t \in Trades |-> order[t].size],
                   {t \in Trades : xpc[t] = "ledger" /\ order[t].token = k})
SharesSold(k) == IF mpc \in {"credit", "cas"} /\ mtoken = k THEN mshares ELSE 0
PaperShares ==
  [k \in Token |-> IF mode = "paper"
                   THEN balance[k] + SharesBought(k) + SharesSold(k) ELSE 0]

(* The paper desk is an account in which a buy and a sale are one step, at  *)
(* an offered price and within the money that is there, however the four   *)
(* accesses that each of them makes interleave with the others'.           *)
Account == INSTANCE PaperAccount WITH
  Tokens <- Token, BuyPrices <- {o.price : o \in Offers}, SellPrices <- BidPrices,
  money <- IF mode = "paper" THEN bankroll ELSE Start, shares <- PaperShares
ImplementsAccount == Account!Spec

(* A round of the manager ends.  Orders beside it make the compare_exchange *)
(* of its credit fail and are averaged into what it evaluates: but each     *)
(* failure is a deduction, of which the bankroll pays for finitely many,    *)
(* and the list of a round only shrinks.  It presumes that the awaits of    *)
(* the round return: requests have a timeout (executor.rs:576), but that of *)
(* scripts/redeem.py (executor.rs:1435-1439) has none.                     *)
RoundsEnd == mpc # "sleep" ~> mpc = "sleep"

(* A live bankroll that drifted from the wallet - answers lost, a deduction *)
(* overwritten, an error of the chain read as zero - is within a cent of   *)
(* it again and again, where the chain can be asked: that takes a           *)
(* POLY_RPC_URL, which is empty by default (config.rs:344).                *)
BankrollReconciled ==
  mode = "live" => []<>(bankroll \in (cash - 1) .. (cash + 1))
-----------------------------------------------------------------------------
(* What the repository says and the code does not do: see README.md.       *)

(* sniper.rs:353: fill_size is the number of shares actually filled.  Then *)
(* what a position claims of a live market is in the wallet.               *)
FilledAsRecorded ==
  \A k \in Open : k[1] <= wall \/ positions[k].shares <= balance[k]
                  \/ k = mtoken

(* executor.rs:9-10: positions are tracked for every open position.  Then  *)
(* no share of a live market is held without a position, when no order and *)
(* no sale is under way.                                                   *)
SharesAreTracked ==
  mpc = "sleep" /\ InFlight = {} =>
    \A k \in Token : k[1] > wall => balance[k] <= positions[k].shares

(* situation_room.rs:368: the best bid is the one on the held token.  Then *)
(* a position is sold at a bid of its own market.                          *)
SoldAtItsOwnBid == mpc = "sell" => mbid.market = mtoken[1]

(* main.rs:249: a position is redeemed when its market has expired.  Then  *)
(* no position of a market that is still open is redeemed, and dropped.    *)
RedeemedAfterExpiry == mpc = "redeem" => mtoken[1] <= wall
=============================================================================

------------------------------- MODULE Executor -------------------------------
(***************************************************************************)
(* ClobExecutor::execute_trade (src/src/executor.rs): what a trigger_buy   *)
(* task does while it is in its step "execute".  The order is sized by the *)
(* bankroll, then a paper order deducts, credits the simulated ledger and  *)
(* records the position, while a live one is posted first and deducted     *)
(* after the fill.  bankroll is an atomic, positions and the ledger have a *)
(* mutex each; no lock covers two of them.                                 *)
(*                                                                         *)
(* Money and prices are in cents.  The exchange and the chain are external *)
(* and known by what the code sends them and reads back.  cost_basis, the  *)
(* P&L and the times of a position are left out: whether a position is     *)
(* sold is a free choice of the position manager.                          *)
(***************************************************************************)
EXTENDS TriggerBuy

CONSTANTS
  Modes,        \* the values CONFIG.paper_mode may have, as "paper" and "live"
  Sides,        \* bound: the directions that are bought
  Offers,       \* bound: the [ask, price] that a TriggerSnapshot may carry
  KellyPct,     \* CONFIG.kelly_fraction(100.0), in percent
  Start,        \* the starting bankroll, and what the wallet holds at first
  PartialFills, \* may the exchange fill a part of a FAK order?
  LostAnswers   \* may its answer be lost after it has filled the order?

ASSUME ExecutorAssumption ==
  /\ Modes \subseteq {"paper", "live"}
  /\ Sides \subseteq Direction
  /\ Offers \subseteq [ask : Nat \ {0}, price : Nat]
  /\ KellyPct \in 0 .. 100
  /\ Start \in Nat
  /\ PartialFills \in BOOLEAN
  /\ LostAnswers \in BOOLEAN

VARIABLES
  mode,       \* CONFIG.paper_mode, read once at start
  bankroll,   \* AtomicF64
  positions,  \* Mutex<HashMap>: the shares and the condition of each token
  balance,    \* the shares of each token: the paper ledger, or the wallet
  cash,       \* what the wallet holds in pUSD (live)
  trade_log,  \* the totals of the BUY and of the SELL rows of the CSV log
  xpc,        \* program counter of the execute_trade of each trade
  order,      \* its token, price and size
  xcur        \* the bankroll that its deduct_bankroll loaded

holdingVars  == <<positions, balance, cash, trade_log>>
executorVars == <<mode, bankroll, holdingVars, xpc, order, xcur>>

Dollar  == 100
MinDust == 5

(* A token is named by its market and its direction. *)
Markets == {NextExpiry(now) : now \in 0 .. MaxWall}
Token   == Markets \X Sides
NoToken == <<NoMarket, "Up">>
NoOrder == [token |-> NoToken, price |-> 0, size |-> 0]

Position   == [shares : Nat, condition : Nat]
NoPosition == [shares |-> 0, condition |-> NoMarket]
Open       == {k \in Token : positions[k] # NoPosition}

Value(o) == o.price * o.size

ExecutorTypeOK ==
  /\ mode \in Modes
  /\ bankroll \in Nat
  /\ positions \in [Token -> Position]
  /\ balance \in [Token -> Nat]
  /\ cash \in Nat
  /\ trade_log \in [spent : Nat, earned : Nat]
  /\ xpc \in [Trades -> {"idle", "post", "deduct", "cas", "ledger", "upsert"}]
  /\ order \in [Trades -> [token : Nat \X Direction, price : Nat, size : Nat]]
  /\ xcur \in [Trades -> Nat]

(* A live bankroll is unknown until the first reconciliation. *)
ExecutorInit ==
  /\ mode \in Modes
  /\ bankroll = IF mode = "paper" THEN Start ELSE 0
  /\ positions = [k \in Token |-> NoPosition]
  /\ balance = [k \in Token |-> 0]
  /\ cash = Start
  /\ trade_log = [spent |-> 0, earned |-> 0]
  /\ xpc = [t \in Trades |-> "idle"]
  /\ order = [t \in Trades |-> NoOrder]
  /\ xcur = [t \in Trades |-> 0]

(* What a FAK order of n shares may be filled with. *)
Fills(n) == IF PartialFills THEN 1 .. n ELSE {n}

XGoto(t, from, to) == xpc[t] = from /\ xpc' = [xpc EXCEPT ![t] = to]

(* execute_trade returns; trigger_buy counts the shot or goes to debounce. *)
XReturn(t, from) ==
  /\ XGoto(t, from, "idle")
  /\ order' = [order EXCEPT ![t] = NoOrder]
  /\ xcur' = [xcur EXCEPT ![t] = 0]
-----------------------------------------------------------------------------
(* The size comes from the bankroll and the ask, the value from the price. *)
BuySize(o) == (bankroll * KellyPct) \div (100 * o.ask)

Acceptable(o) ==
  /\ o.price > 1
  /\ BuySize(o) >= IF mode = "live" THEN MinDust ELSE 1
  /\ o.price * BuySize(o) \in Dollar .. bankroll

SizeOrder(t) ==
  /\ tpc[t] = "execute"
  /\ XGoto(t, "idle", IF mode = "paper" THEN "deduct" ELSE "post")
  /\ \E o \in Offers, side \in Sides :
       /\ Acceptable(o)
       /\ order' = [order EXCEPT ![t] =
            [token |-> <<snap[t].market, side>>, price |-> o.price, size |-> BuySize(o)]]
  /\ UNCHANGED <<mode, bankroll, holdingVars, xcur, tradeVars, shared>>

RefuseOrder(t) ==
  /\ xpc[t] = "idle"
  /\ \E o \in Offers : ~Acceptable(o)
  /\ BuyFailed(t)
  /\ UNCHANGED executorVars
-----------------------------------------------------------------------------
(* The live order.  The exchange takes the money for what it fills.        *)
ExchangeBuys(o) ==
  \E n \in Fills(o.size) :
    /\ o.price * n <= cash
    /\ cash' = cash - o.price * n
    /\ balance' = [balance EXCEPT ![o.token] = @ + n]
    /\ UNCHANGED <<positions, trade_log>>

BuyAccepted(t) ==
  /\ XGoto(t, "post", "deduct")
  /\ ExchangeBuys(order[t])
  /\ UNCHANGED <<mode, bankroll, order, xcur, tradeVars, shared>>

BuyRejected(t) ==
  /\ XReturn(t, "post")
  /\ BuyFailed(t)
  /\ UNCHANGED <<mode, bankroll, holdingVars>>

(* The request times out or its answer cannot be read: an error, too. *)
BuyAnswerLost(t) ==
  /\ LostAnswers
  /\ XReturn(t, "post")
  /\ ExchangeBuys(order[t])
  /\ BuyFailed(t)
  /\ UNCHANGED <<mode, bankroll>>
-----------------------------------------------------------------------------
(* Mutant: the amount is not compared with what was loaded. *)
LoadUnchecked(t) ==
  /\ XGoto(t, "deduct", "cas")
  /\ xcur' = [xcur EXCEPT ![t] = bankroll]
  /\ UNCHANGED <<mode, bankroll, holdingVars, order, tradeVars, shared>>

(* deduct_bankroll: load, compare with the amount, compare_exchange.       *)
LoadBankroll(t) ==
  /\ XGoto(t, "deduct", "cas")
  /\ bankroll >= Value(order[t])
  /\ xcur' = [xcur EXCEPT ![t] = bankroll]
  /\ UNCHANGED <<mode, bankroll, holdingVars, order, tradeVars, shared>>

(* false: the paper order fails; the live one, filled already, goes on.    *)
PaperBankrollTooLow(t) ==
  /\ mode = "paper"
  /\ bankroll < Value(order[t])
  /\ XReturn(t, "deduct")
  /\ BuyFailed(t)
  /\ UNCHANGED <<mode, bankroll, holdingVars>>

LiveBankrollTooLow(t) ==
  /\ mode = "live"
  /\ bankroll < Value(order[t])
  /\ XGoto(t, "deduct", "upsert")
  /\ UNCHANGED <<mode, bankroll, holdingVars, order, xcur, tradeVars, shared>>

Deduct(t) ==
  /\ XGoto(t, "cas", IF mode = "paper" THEN "ledger" ELSE "upsert")
  /\ bankroll = xcur[t]
  /\ bankroll' = xcur[t] - Value(order[t])
  /\ UNCHANGED <<mode, holdingVars, order, xcur, tradeVars, shared>>

DeductAgain(t) ==
  /\ XGoto(t, "cas", "deduct")
  /\ bankroll # xcur[t]
  /\ UNCHANGED <<mode, bankroll, holdingVars, order, xcur, tradeVars, shared>>

CreditLedger(t) ==
  /\ XGoto(t, "ledger", "upsert")
  /\ balance' = [balance EXCEPT ![order[t].token] = @ + order[t].size]
  /\ UNCHANGED <<mode, bankroll, positions, cash, trade_log, order, xcur, tradeVars,
                 shared>>

(* upsert_position: averaged in, or opened with the condition of the       *)
(* market that is live now; then the CSV row, and Ok.                      *)
UpsertPosition(t) ==
  /\ XReturn(t, "upsert")
  /\ positions' = [positions EXCEPT ![order[t].token] =
       [shares    |-> @.shares + order[t].size,
        condition |-> IF @ = NoPosition THEN market ELSE @.condition]]
  /\ trade_log' = [trade_log EXCEPT !.spent = @ + Value(order[t])]
  /\ BuyFilled(t)
  /\ UNCHANGED <<mode, bankroll, balance, cash>>

ExecuteNext(t) ==
  \/ SizeOrder(t) \/ RefuseOrder(t)
  \/ BuyAccepted(t) \/ BuyRejected(t) \/ BuyAnswerLost(t)
  \/ LoadBankroll(t) \/ PaperBankrollTooLow(t) \/ LiveBankrollTooLow(t)
  \/ Deduct(t) \/ DeductAgain(t) \/ CreditLedger(t) \/ UpsertPosition(t)
=============================================================================

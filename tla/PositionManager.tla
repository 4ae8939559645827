---------------------------- MODULE PositionManager ----------------------------
(***************************************************************************)
(* run_position_manager (src/src/executor.rs): one task that wakes every    *)
(* 3 s, reconciles the live bankroll when it is due, and evaluates every    *)
(* open position by the market that is live at that moment: its expiry,    *)
(* read once per round, and its bid, read per position.  Nothing is locked *)
(* between two of its accesses.                                             *)
(***************************************************************************)
EXTENDS Executor

CONSTANT BidPrices    \* bound: the prices at which a bid may stand

ASSUME BidAssumption == BidPrices \subseteq Nat \ {0}

VARIABLES
  mpc,        \* program counter of the task
  mexpired,   \* had the live market expired when this round began?
  mtodo,      \* tokens that this round has yet to evaluate
  mtoken,     \* the token under evaluation
  mshares,    \* its total_shares, as read at the start of the evaluation
  mbid,       \* the bid that it is judged by: its price, and its market
  mcur        \* the balance or the bankroll that was read

managerVars == <<mpc, mexpired, mtodo, mtoken, mshares, mbid, mcur>>

NoBid == [market |-> NoMarket, price |-> 0]

ManagerTypeOK ==
  /\ mpc \in {"sleep", "reconcile", "store", "list", "next", "bid", "redeem",
              "sell", "credit", "cas", "remove"}
  /\ mexpired \in BOOLEAN
  /\ mtodo \subseteq Token
  /\ mtoken \in Token \cup {NoToken}
  /\ mshares \in Nat
  /\ mbid \in [market : Nat, price : Nat]
  /\ mcur \in Nat

ManagerInit ==
  /\ mpc = "sleep"
  /\ mexpired = FALSE
  /\ mtodo = {}
  /\ mtoken = NoToken
  /\ mshares = 0
  /\ mbid = NoBid
  /\ mcur = 0

MGoto(from, to) == mpc = from /\ mpc' = to

(* The evaluation of mtoken ends. *)
NextToken(from) ==
  /\ MGoto(from, "next")
  /\ mtoken' = NoToken /\ mshares' = 0 /\ mbid' = NoBid /\ mcur' = 0
  /\ UNCHANGED <<mexpired, mtodo>>

Drop(k) == positions' = [positions EXCEPT ![k] = NoPosition]
-----------------------------------------------------------------------------
(* The sleep ends outside of a rollover; within one the round is skipped. *)
WakeManager ==
  /\ mpc = "sleep"
  /\ ~is_rolling_over
  /\ mexpired' = IsMarketExpired(wall)
  /\ \/ mpc' = "list"
     \/ mode = "live" /\ mpc' = "reconcile"
  /\ UNCHANGED <<mtodo, mtoken, mshares, mbid, mcur, executorVars, tradeVars, shared>>

(* reconcile_bankroll_live: the chain answers, or fails to; an answer      *)
(* without a result, which is how it reports an error, counts as zero ...  *)
ReadChain ==
  /\ MGoto("reconcile", "store")
  /\ mcur' \in {cash, 0}
  /\ UNCHANGED <<mexpired, mtodo, mtoken, mshares, mbid, executorVars, tradeVars, shared>>

ReadChainFails ==
  /\ MGoto("reconcile", "list")
  /\ UNCHANGED <<mexpired, mtodo, mtoken, mshares, mbid, mcur, executorVars, tradeVars,
                 shared>>

(* Mutant: the difference is taken without its absolute value. *)
StoreLargerBankroll ==
  /\ MGoto("store", "list")
  /\ bankroll' = IF mcur <= bankroll + 1 THEN bankroll ELSE mcur
  /\ mcur' = 0
  /\ UNCHANGED <<mexpired, mtodo, mtoken, mshares, mbid, mode, holdingVars, xpc, order,
                 xcur, tradeVars, shared>>

(* ... and the bankroll is overwritten when it differs by more than a cent, *)
(* whatever it has become meanwhile.                                       *)
StoreBankroll ==
  /\ MGoto("store", "list")
  /\ bankroll' = IF mcur \in (bankroll - 1) .. (bankroll + 1) THEN bankroll ELSE mcur
  /\ mcur' = 0
  /\ UNCHANGED <<mexpired, mtodo, mtoken, mshares, mbid, mode, holdingVars, xpc, order,
                 xcur, tradeVars, shared>>

ListPositions ==
  /\ MGoto("list", "next")
  /\ mtodo' = Open
  /\ UNCHANGED <<mexpired, mtoken, mshares, mbid, mcur, executorVars, tradeVars, shared>>

RoundOver ==
  /\ MGoto("next", "sleep")
  /\ mtodo = {}
  /\ mexpired' = FALSE
  /\ UNCHANGED <<mtodo, mtoken, mshares, mbid, mcur, executorVars, tradeVars, shared>>

(* Mutant: the token is not taken off the list. *)
ReadPositionAgain ==
  /\ MGoto("next", "bid")
  /\ \E k \in mtodo :
       /\ mtoken' = k
       /\ mshares' = positions[k].shares
  /\ UNCHANGED <<mexpired, mtodo, mbid, mcur, executorVars, tradeVars, shared>>

(* evaluate_position.  Only this task removes positions, and none has zero *)
(* shares, so that the early returns of those two cases are never taken.   *)
ReadPosition ==
  /\ MGoto("next", "bid")
  /\ \E k \in mtodo :
       /\ mtodo' = mtodo \ {k}
       /\ mtoken' = k
       /\ mshares' = positions[k].shares
  /\ UNCHANGED <<mexpired, mbid, mcur, executorVars, tradeVars, shared>>

(* The best bid of the position's direction in the shared book. *)
Bid == book[<<"bid", mtoken[2]>>]

(* No bid; or safe to hold, in the cooldown, or no exit is due. *)
Hold ==
  /\ NextToken("bid")
  /\ Bid # None => ~mexpired
  /\ UNCHANGED <<executorVars, tradeVars, shared>>

StartRedeem ==
  /\ MGoto("bid", "redeem")
  /\ Bid # None
  /\ mexpired
  /\ UNCHANGED <<mexpired, mtodo, mtoken, mshares, mbid, mcur, executorVars, tradeVars,
                 shared>>

(* Bail-out, impatience or take-profit: execute_sell at this bid. *)
StartSell ==
  /\ MGoto("bid", "sell")
  /\ Bid # None
  /\ ~mexpired
  /\ \E price \in BidPrices : mbid' = [market |-> Bid, price |-> price]
  /\ UNCHANGED <<mexpired, mtodo, mtoken, mshares, mcur, executorVars, tradeVars, shared>>
-----------------------------------------------------------------------------
(* trigger_auto_redeem, 15 s later: the script pays a dollar or nothing     *)
(* for each share of the condition it was given, if that market is over,   *)
(* or fails.  The position is removed in any case.                         *)
Redeemed == {k \in Token : k[1] = positions[mtoken].condition}

RedeemSucceeds ==
  /\ mode = "live"
  /\ NextToken("redeem")
  /\ positions[mtoken].condition \in 1 .. wall
  /\ Drop(mtoken)
  /\ balance' = [k \in Token |-> IF k \in Redeemed THEN 0 ELSE balance[k]]
  /\ \E payout \in {0} \cup {Dollar * balance[k] : k \in Redeemed} : cash' = cash + payout
  /\ UNCHANGED <<mode, bankroll, trade_log, xpc, order, xcur, tradeVars, shared>>

RedeemFails ==
  /\ NextToken("redeem")
  /\ Drop(mtoken)
  /\ UNCHANGED <<mode, bankroll, balance, cash, trade_log, xpc, order, xcur, tradeVars,
                 shared>>
-----------------------------------------------------------------------------
Proceeds == mbid.price * mshares

(* Mutant: the shares to debit are read again from the position. *)
DebitWholePosition ==
  /\ mode = "paper"
  /\ MGoto("sell", "credit")
  /\ LET n == positions[mtoken].shares
     IN  balance' = [balance EXCEPT ![mtoken] = IF @ > n THEN @ - n ELSE 0]
  /\ UNCHANGED <<mexpired, mtodo, mtoken, mshares, mbid, mcur, mode, bankroll, positions,
                 cash, trade_log, xpc, order, xcur, tradeVars, shared>>

(* execute_sell, paper: debit_sell never goes below zero. *)
DebitLedger ==
  /\ mode = "paper"
  /\ MGoto("sell", "credit")
  /\ balance' = [balance EXCEPT ![mtoken] = IF @ > mshares THEN @ - mshares ELSE 0]
  /\ UNCHANGED <<mexpired, mtodo, mtoken, mshares, mbid, mcur, mode, bankroll, positions,
                 cash, trade_log, xpc, order, xcur, tradeVars, shared>>

(* Live: the exchange fills what the wallet has got. *)
ExchangeSells ==
  /\ mshares <= balance[mtoken]
  /\ \E n \in Fills(mshares) :
       /\ balance' = [balance EXCEPT ![mtoken] = @ - n]
       /\ cash' = cash + mbid.price * n
  /\ UNCHANGED <<mode, bankroll, positions, trade_log, xpc, order, xcur, tradeVars, shared>>

SellAccepted ==
  /\ mode = "live"
  /\ MGoto("sell", "credit")
  /\ ExchangeSells
  /\ UNCHANGED <<mexpired, mtodo, mtoken, mshares, mbid, mcur>>

(* An error of any kind leaves the position open for the next round. *)
SellRejected ==
  /\ mode = "live"
  /\ NextToken("sell")
  /\ UNCHANGED <<executorVars, tradeVars, shared>>

SellAnswerLost ==
  /\ mode = "live"
  /\ LostAnswers
  /\ NextToken("sell")
  /\ ExchangeSells

(* credit_bankroll: load, compare_exchange, again if it fails. *)
LoadForCredit ==
  /\ MGoto("credit", "cas")
  /\ mcur' = bankroll
  /\ UNCHANGED <<mexpired, mtodo, mtoken, mshares, mbid, executorVars, tradeVars, shared>>

(* Mutant: the sum is stored without comparing. *)
CreditByStore ==
  /\ MGoto("cas", "remove")
  /\ bankroll' = mcur + Proceeds
  /\ UNCHANGED <<mexpired, mtodo, mtoken, mshares, mbid, mcur, mode, holdingVars, xpc,
                 order, xcur, tradeVars, shared>>

Credit ==
  /\ MGoto("cas", "remove")
  /\ bankroll = mcur
  /\ bankroll' = mcur + Proceeds
  /\ UNCHANGED <<mexpired, mtodo, mtoken, mshares, mbid, mcur, mode, holdingVars, xpc,
                 order, xcur, tradeVars, shared>>

(* Mutant: the exchange is tried again with the value that was loaded first. *)
CreditAgainStale ==
  /\ MGoto("cas", "cas")
  /\ bankroll # mcur
  /\ UNCHANGED <<mexpired, mtodo, mtoken, mshares, mbid, mcur, executorVars, tradeVars,
                 shared>>

CreditAgain ==
  /\ MGoto("cas", "credit")
  /\ bankroll # mcur
  /\ UNCHANGED <<mexpired, mtodo, mtoken, mshares, mbid, mcur, executorVars, tradeVars,
                 shared>>

(* Mutant: the sold position is left in the map. *)
KeepPosition ==
  /\ NextToken("remove")
  /\ trade_log' = [trade_log EXCEPT !.earned = @ + Proceeds]
  /\ UNCHANGED <<mode, bankroll, positions, balance, cash, xpc, order, xcur, tradeVars,
                 shared>>

(* The CSV row, and the record removed by its token, whatever it holds now. *)
RemovePosition ==
  /\ NextToken("remove")
  /\ Drop(mtoken)
  /\ trade_log' = [trade_log EXCEPT !.earned = @ + Proceeds]
  /\ UNCHANGED <<mode, bankroll, balance, cash, xpc, order, xcur, tradeVars, shared>>

ManagerNext ==
  \/ WakeManager \/ ReadChain \/ ReadChainFails \/ StoreBankroll
  \/ ListPositions \/ RoundOver \/ ReadPosition
  \/ Hold \/ StartRedeem \/ StartSell \/ RedeemSucceeds \/ RedeemFails
  \/ DebitLedger \/ SellAccepted \/ SellRejected \/ SellAnswerLost
  \/ LoadForCredit \/ Credit \/ CreditAgain \/ RemovePosition
=============================================================================

------------------------------ MODULE SniperBot ------------------------------
(***************************************************************************)
(* The running bot: the Binance handler with the rollovers and trades it   *)
(* spawns, the SituationRoom and the Polymarket feed, interleaved on the   *)
(* atomics of SharedState, after main has started them (src/src/main.rs).  *)
(* The atomics are Acquire/Release, and each of them is read and written   *)
(* on its own; the interleaving of the single accesses is sequential.      *)
(***************************************************************************)
EXTENDS BinanceStream, SituationRoom, PolymarketStream

CONSTANT
  Preemptible   \* may a whole rollover pass between the Binance handler's
                \* expiry check and its compare_exchange?

ASSUME PreemptionAssumption == Preemptible \in BOOLEAN

vars == <<shared, rolloverVars, tradeVars, binanceVars, situationVars, polyVars>>

TypeOK ==
  /\ SharedTypeOK /\ RolloverTypeOK /\ TradeTypeOK
  /\ BinanceTypeOK /\ SituationTypeOK /\ PolyTypeOK

Init ==
  /\ SharedInit /\ RolloverInit /\ TradeInit
  /\ BinanceInit /\ SituationInit /\ PolyInit

(* Between is_market_expired and compare_exchange the handler has no await *)
(* point: only the operating system can hold it up there.                  *)
HandlerHeldUp == bpc = "rollover" => Preemptible

Clock == Tick /\ UNCHANGED <<rolloverVars, tradeVars, binanceVars, situationVars, polyVars>>
Binance == BinanceNext /\ UNCHANGED <<situationVars, polyVars>>
Rollover(r) ==
  /\ HandlerHeldUp
  /\ RolloverNext(r)
  /\ UNCHANGED <<tradeVars, binanceVars, situationVars, polyVars>>
Trade(t) ==
  /\ TradeNext(t)
  /\ UNCHANGED <<rolloverVars, binanceVars, situationVars, polyVars>>
Situation ==
  /\ SituationNext
  /\ UNCHANGED <<rolloverVars, tradeVars, binanceVars, polyVars>>
Poly ==
  /\ PolyNext
  /\ UNCHANGED <<rolloverVars, tradeVars, binanceVars, situationVars>>

Next ==
  \/ Clock
  \/ Binance
  \/ \E r \in Rollovers : Rollover(r)
  \/ \E t \in Trades : Trade(t)
  \/ Situation
  \/ Poly

Spec == Init /\ [][Next]_vars

(* Fairness.  tokio runs every task that is ready (WF; SF for a rollover,   *)
(* which HandlerHeldUp disables for an instant in every tick); the clock   *)
(* and the exchange go on, and ticks catch up with the wall clock (SF, the *)
(* handler takes a tick only when it is done with the one before); the     *)
(* Gamma API does not fail for ever (SF).  Nothing is assumed of the       *)
(* SituationRoom, of the feed's messages and faults, or of the outcome of  *)
(* an order.                                                               *)
CaughtUpTick == ReceiveTick /\ bts' >= wall /\ UNCHANGED <<situationVars, polyVars>>
FetchSucceeds(r) ==
  FetchOk(r) /\ UNCHANGED <<tradeVars, binanceVars, situationVars, polyVars>>
PolyRuns ==
  /\ LoadMarket \/ Connect \/ DisconnectSignal \/ ReconnectSignal
  /\ UNCHANGED <<rolloverVars, tradeVars, binanceVars, situationVars>>

Fairness ==
  /\ WF_vars(Clock)
  /\ WF_vars(Binance) /\ SF_vars(CaughtUpTick)
  /\ \A r \in Rollovers : SF_vars(Rollover(r)) /\ SF_vars(FetchSucceeds(r))
  /\ \A t \in Trades : WF_vars(Trade(t))
  /\ WF_vars(PolyRuns)

FairSpec == Spec /\ Fairness
-----------------------------------------------------------------------------
Active == {r \in Rollovers : rpc[r] # "idle"}

(* At most one rollover runs at any time, and is_rolling_over says exactly *)
(* whether one does: the compare_exchange of the Binance handler and the   *)
(* final store of handle_rollover, on the success and the error path,      *)
(* together make a lock.                                                   *)
SingleRollover ==
  /\ \A r, s \in Active : r = s
  /\ is_rolling_over <=> Active # {}

(* No order is sent for a market that the triggering tick sees within Guard *)
(* of its end.  The guard tests market_expiry, the order takes its token   *)
(* from market, and a rollover may run in between: it holds because the    *)
(* market is published before its expiry, and never goes back.             *)
TradeTargetsLiveMarket ==
  \A t \in InFlight : snap[t].market >= snap[t].ts + Guard

(* The momentum that a tick is judged by is measured against an EMA seeded *)
(* in the window the tick belongs to: no reset tears an update in two, and *)
(* no EMA outlives the rollover.                                           *)
MomentumOfThisWindow ==
  bpc \in {"store_ema", "store_ts", "armed", "trigger", "disarm", "book", "market"}
    => bema = bexpiry

(* Rights to fire: the armed flag, a handler that took it and has not yet  *)
(* passed it on, and every trade in flight, which gives it back.           *)
Rights == (IF is_armed THEN 1 ELSE 0) + Cardinality(InFlight)
          + (IF bpc \in {"book", "market", "rearm"} THEN 1 ELSE 0)

(* The number of rights grows in step j of a rollover and in no other step: *)
(* a tick, a trade and its debounce pass one on, or lose it.  An order of   *)
(* the old market keeps its right across a rollover, which grants another: *)
(* the bound is on the rights, and not on the orders of one market.        *)
RightsOnlyFromRollover ==
  [][Rights' > Rights => \E r \in Rollovers : rpc[r] = "arm" /\ rpc'[r] = "clear"]_vars

(* A feed that is connected to another market than the published one has a  *)
(* reconnect signal to come back to, once no rollover is in progress: no    *)
(* failed fetch, lost connection or rollover that overtakes a slow feed     *)
(* leaves it on the old market with nothing posted.                        *)
StreamsCurrentMarket ==
  ppc \in {"connect", "stream"} /\ ~poly_reconnect /\ ~is_rolling_over
    => pmarket = market

(* The bot is never locked up: whatever orders do and however many fetches *)
(* fail, the sniper is armed again and again.                              *)
NeverLocksUp == []<>is_armed

(* A market that a tick has seen expire is replaced by one that has not.   *)
ExpiredMarketReplaced == bts >= market_expiry ~> bts < market_expiry

(* Once connection faults are over, a rollover that publishes a market      *)
(* brings the feed back to the published market, with no signal to leave   *)
(* it pending, or the next rollover disconnects the feed again: unless it   *)
(* meets a signal that an earlier rollover has left, a disconnect for a    *)
(* feed that is waiting already or a reconnect that another one needs.     *)
FeedRestored ==
  (\E r \in Rollovers : rpc[r] = "reconnect")
      /\ pfaults = MaxFeedFaults /\ (poly_disconnect <=> ppc # "wait")
    ~> \/ ppc = "stream" /\ pmarket = market /\ ~poly_disconnect
       \/ \E r \in Rollovers : rpc[r] = "notify"

(* How far the replacement of the market has got. *)
Phase ==
  IF ~is_rolling_over THEN "open"
  ELSE IF \E r \in Rollovers : rpc[r] \in {"expiry", "reconnect", "arm"} THEN "published"
  ELSE IF \E r \in Rollovers : rpc[r] = "clear" THEN "closing" ELSE "replacing"

(* The bot implements the gate: with all of its tasks, every step is a step *)
(* of the gate or none.                                                    *)
Gate == INSTANCE FiringGate WITH market <- market, phase <- Phase, rights <- Rights
ImplementsGate == Gate!Spec
-----------------------------------------------------------------------------
(* What the repository says and the code does not do: see README.md.       *)

(* state.rs:929-932: the reset of the book is safe because the feed stops   *)
(* writing on disconnect.  Then an order is priced from its own market.    *)
PricedFromItsMarket == \A t \in InFlight : snap[t].price = snap[t].market

(* state.rs:939-969: a rollover disconnects the feed, publishes the next    *)
(* market and signals the feed to reconnect.  Then every one of them brings *)
(* the feed back: but a second disconnect signal, after a fetch that        *)
(* failed, finds it waiting and is there when it reconnects.               *)
RolloverRestoresFeed ==
  (\E r \in Rollovers : rpc[r] = "arm") /\ pfaults = MaxFeedFaults
    ~> ppc = "stream" /\ pmarket = market /\ ~poly_disconnect
=============================================================================

------------------------------ MODULE TriggerBuy ------------------------------
(***************************************************************************)
(* trigger_buy and rearm_after_debounce (src/src/sniper.rs): the task that *)
(* the Binance handler spawns with a TriggerSnapshot once it has disarmed   *)
(* the sniper.  The order itself, execute_trade, is an answer that arrives *)
(* at any later time, filled or not.  wipe_delta is left out: no decision   *)
(* reads price_delta.                                                       *)
(***************************************************************************)
EXTENDS SharedState, FiniteSets

CONSTANT Trades     \* identities of the spawned trigger_buy tasks (bound)

ASSUME TradesAssumption == IsFiniteSet(Trades)

VARIABLES
  tpc,      \* program counter of each trade
  snap,     \* its TriggerSnapshot: the market of the token, the tick's time,
            \* and the market whose book gave the price
  counted   \* the shot count that increment_shots returned to it

tradeVars == <<tpc, snap, counted>>

TriggerSnapshot == [market : Nat, ts : Nat, price : Nat]
NoSnapshot == [market |-> NoMarket, ts |-> 0, price |-> None]

InFlight == {t \in Trades : tpc[t] # "idle"}

TradeTypeOK ==
  /\ tpc \in [Trades -> {"idle", "execute", "count", "escalate", "debounce"}]
  /\ snap \in [Trades -> TriggerSnapshot]
  /\ counted \in [Trades -> Nat]

TradeInit ==
  /\ tpc = [t \in Trades |-> "idle"]
  /\ snap = [t \in Trades |-> NoSnapshot]
  /\ counted = [t \in Trades |-> 0]

(* tokio::spawn(trigger_buy(snap)) on a free identity. *)
SpawnTrade(t, s) ==
  /\ tpc[t] = "idle"
  /\ tpc' = [tpc EXCEPT ![t] = "execute"]
  /\ snap' = [snap EXCEPT ![t] = s]
  /\ UNCHANGED counted
-----------------------------------------------------------------------------
(* execute_trade answers Ok with success.  Only the bound MaxShots limits   *)
(* how many buys fill in a window.                                         *)
BuyFilled(t) ==
  /\ tpc[t] = "execute"
  /\ window_shots_fired + Cardinality({u \in Trades : tpc[u] = "count"}) < MaxShots
  /\ tpc' = [tpc EXCEPT ![t] = "count"]
  /\ UNCHANGED <<snap, counted, shared>>

(* Mutant: a failed buy returns without the debounce that arms again. *)
BuyFailedReturns(t) ==
  /\ tpc[t] = "execute"
  /\ tpc' = [tpc EXCEPT ![t] = "idle"]
  /\ UNCHANGED <<snap, counted, shared>>

(* The max_price bounds abort the trade, the CLOB rejects it, or the        *)
(* executor fails: nothing is counted, the debounce runs all the same.     *)
BuyFailed(t) ==
  /\ tpc[t] = "execute"
  /\ tpc' = [tpc EXCEPT ![t] = "debounce"]
  /\ UNCHANGED <<snap, counted, shared>>

(* increment_shots: fetch_add, and the new value is kept ... *)
IncrementShots(t) ==
  /\ tpc[t] = "count"
  /\ tpc' = [tpc EXCEPT ![t] = "escalate"]
  /\ window_shots_fired' = window_shots_fired + 1
  /\ counted' = [counted EXCEPT ![t] = window_shots_fired + 1]
  /\ UNCHANGED <<snap, wall, marketVars, is_rolling_over, streamVars, emaVars,
                 is_armed, trigger, dynamic_threshold>>

(* ... for the threshold that the next shot must reach. *)
Escalate(t) ==
  /\ tpc[t] = "escalate"
  /\ tpc' = [tpc EXCEPT ![t] = "debounce"]
  /\ dynamic_threshold' = EscalatedThreshold(counted[t])
  /\ UNCHANGED <<snap, counted, wall, marketVars, is_rolling_over, streamVars,
                 emaVars, is_armed, trigger, window_shots_fired>>

(* rearm_after_debounce: the sleep ends and the sniper is armed, whatever   *)
(* happened to the market meanwhile.                                       *)
Rearm(t) ==
  /\ tpc[t] = "debounce"
  /\ tpc' = [tpc EXCEPT ![t] = "idle"]
  /\ snap' = [snap EXCEPT ![t] = NoSnapshot]
  /\ counted' = [counted EXCEPT ![t] = 0]
  /\ is_armed' = TRUE
  /\ UNCHANGED <<wall, marketVars, is_rolling_over, streamVars, emaVars, trigger,
                 dynamic_threshold, window_shots_fired>>

TradeNext(t) ==
  BuyFilled(t) \/ BuyFailed(t) \/ IncrementShots(t) \/ Escalate(t) \/ Rearm(t)
=============================================================================

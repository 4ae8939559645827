----------------------------- MODULE SharedState -----------------------------
(***************************************************************************)
(* The state that every task of the bot shares through one Arc             *)
(* (src/src/state.rs): the published market, the rollover lock, the two    *)
(* Notify permits of the Polymarket task, the EMA, the order book and the  *)
(* sniper's flag and thresholds.  Each field is an atomic of its own; no    *)
(* lock covers two of them, so every action of the modules that extend     *)
(* this one touches the fields one access at a time, in the code's order.  *)
(*                                                                         *)
(* A market is named by its expiry: update_market derives both the slug    *)
(* and expiry_ts from the same window start.  A price is represented by    *)
(* where it came from, the expiry of the market it was quoted for; a        *)
(* momentum by the highest escalated threshold it reaches.                  *)
(***************************************************************************)
EXTENDS Integers

CONSTANTS
  WindowLen,    \* CONFIG.market_window_sec(), in ticks of the model's clock
  Guard,        \* the 15 s before expiry in which no position is opened
  Lead,         \* how far the exchange clock may run ahead of the wall clock
  MaxWall,      \* bound: the wall clock stops here
  MaxShots      \* bound: buys counted in one window

ASSUME ClockAssumption ==
  /\ WindowLen \in Nat \ {0}
  /\ Guard \in Nat \ {0}
  /\ Lead \in Nat
  /\ MaxWall \in Nat
  /\ MaxShots \in Nat

VARIABLES
  wall,               \* unix_now_secs(): the host's clock
  market,             \* ArcSwapOption<MarketInfo>: an expiry, or NoMarket
  market_expiry,      \* AtomicU64
  is_rolling_over,    \* AtomicBool
  poly_disconnect,    \* Notify: is a permit stored?
  poly_reconnect,     \* Notify: is a permit stored?
  ema_price,          \* the window whose ticks seeded the EMA, or Zeroed
  last_ts,            \* is a tick recorded (last_ts not NaN)?
  book,               \* for each quote, the market it was quoted for, or None
  is_armed,           \* AtomicBool
  trigger,            \* for each direction, trigger_up and trigger_down
  dynamic_threshold,  \* level of current_dynamic_threshold
  window_shots_fired  \* AtomicU32

shared == <<wall, market, market_expiry, is_rolling_over, poly_disconnect,
            poly_reconnect, ema_price, last_ts, book, is_armed, trigger,
            dynamic_threshold, window_shots_fired>>

streamVars == <<poly_disconnect, poly_reconnect, book>>
emaVars    == <<ema_price, last_ts>>
sniperVars == <<is_armed, trigger, dynamic_threshold, window_shots_fired>>
marketVars == <<market, market_expiry>>
-----------------------------------------------------------------------------
NoMarket == 0       \* market before the first successful fetch
Zeroed   == 0       \* ema_price of a fresh or a reset BinanceAtomicState
None     == 0       \* an empty quote, a price stored as NaN

(* compute_next_expiry, and the same arithmetic in update_market. *)
NextExpiry(now) == (now \div WindowLen + 1) * WindowLen

Direction == {"Up", "Down"}
Opposite(d) == IF d = "Up" THEN "Down" ELSE "Up"

(* The four best prices of OrderBookAtomicState. *)
Quote == {"ask", "bid"} \X Direction

(* snapshot_for_direction and effective_ask: the cheaper of the real ask   *)
(* and 1 - the opposing bid, so some price exists if either quote does.    *)
EffectiveAsk(d) == {book[<<"ask", d>>], book[<<"bid", Opposite(d)>>]} \ {None}

(* spread: defined when the direction has both a real ask and a bid. *)
HasSpread(d) == book[<<"ask", d>>] # None /\ book[<<"bid", d>>] # None

(* Thresholds, ordered: level n stands for the base threshold escalated    *)
(* by n shots, Veto for f64::MAX, and -1 for a delta below the base.       *)
Veto  == MaxShots + 1
Level == 0 .. MaxShots

(* escalated_threshold: base * (1 + step)^shots, one level per shot. The   *)
(* counter's bound is the last level.                                      *)
EscalatedThreshold(shots) == IF shots < MaxShots THEN shots ELSE MaxShots

(* merge_thresholds: f64::max of the dynamic threshold and the EV floor.   *)
MergeThresholds(dyn, floor) == IF dyn > floor THEN dyn ELSE floor

(* is_market_expired: an expiry of 0 means that no market was ever set.    *)
IsMarketExpired(ts) == market_expiry > 0 /\ ts >= market_expiry

(* seconds_to_expiry(ts), at least 0 and 0 when no market was ever set.    *)
SecondsToExpiry(ts) == IF market_expiry > ts THEN market_expiry - ts ELSE 0
-----------------------------------------------------------------------------
SharedTypeOK ==
  /\ wall \in 0 .. MaxWall
  /\ market \in Nat
  /\ market_expiry \in Nat
  /\ is_rolling_over \in BOOLEAN
  /\ poly_disconnect \in BOOLEAN
  /\ poly_reconnect \in BOOLEAN
  /\ ema_price \in Nat
  /\ last_ts \in BOOLEAN
  /\ book \in [Quote -> Nat]
  /\ is_armed \in BOOLEAN
  /\ trigger \in [Direction -> 0 .. Veto]
  /\ dynamic_threshold \in Level
  /\ window_shots_fired \in Nat

(* What main does before it spawns a task: the first update_market either  *)
(* publishes a market and arms the sniper, or fails, and then only the     *)
(* expiry is set so that the first rollover will fetch again.              *)
SharedInit ==
  /\ wall = 0
  /\ market_expiry = NextExpiry(wall)
  /\ market \in {NextExpiry(wall), NoMarket}
  /\ is_armed = (market # NoMarket)
  /\ is_rolling_over = FALSE
  /\ poly_disconnect = FALSE
  /\ poly_reconnect = FALSE
  /\ ema_price = Zeroed
  /\ last_ts = FALSE
  /\ book = [q \in Quote |-> None]
  /\ trigger = [d \in Direction |-> Veto]
  /\ dynamic_threshold = EscalatedThreshold(0)
  /\ window_shots_fired = 0

(* The host's clock advances. *)
Tick ==
  /\ wall < MaxWall
  /\ wall' = wall + 1
  /\ UNCHANGED <<marketVars, is_rolling_over, streamVars, emaVars, sniperVars>>
=============================================================================

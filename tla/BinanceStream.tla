---------------------------- MODULE BinanceStream ----------------------------
(***************************************************************************)
(* binance_process_message (src/src/streams.rs): what one aggTrade tick    *)
(* does.  One task runs it for one message at a time; between any two of   *)
(* its accesses to the shared atomics the other tasks' threads may run.    *)
(* It spawns the rollover when a tick shows the expiry, and the trade when *)
(* the momentum crosses a trigger.  Time spent reconnecting is time in     *)
(* which no tick arrives.                                                   *)
(***************************************************************************)
EXTENDS RolloverTask, TriggerBuy

CONSTANT Deltas     \* bound: the momenta that a tick may yield

VARIABLES
  bpc,      \* program counter of the handler
  bts,      \* exchange time of the tick at hand, or of the last one
  bexpiry,  \* the expiry that seconds_to_expiry read for this tick
  bema,     \* the EMA that update() is about to store
  delta,    \* the tick's momentum: its direction and the level it reaches
  bprice    \* the market that the snapshot's effective ask was quoted for

binanceVars == <<bpc, bts, bexpiry, bema, delta, bprice>>

Delta == [dir : Direction, level : Level \cup {-1}]
NoDelta == [dir |-> "Up", level |-> -1]

ASSUME DeltaAssumption == Deltas \subseteq Delta

BinanceTypeOK ==
  /\ bpc \in {"idle", "rollover", "guard", "last_ts", "ema", "store_ema",
              "store_ts", "armed", "trigger", "disarm", "book", "market", "rearm"}
  /\ bts \in Nat
  /\ bexpiry \in Nat
  /\ bema \in Nat
  /\ delta \in Delta
  /\ bprice \in Nat

BinanceInit ==
  /\ bpc = "idle"
  /\ bts = 0
  /\ bexpiry = 0
  /\ bema = Zeroed
  /\ delta = NoDelta
  /\ bprice = None

(* The handler goes from one label to the next; locals that it has no      *)
(* further use for return to their initial value.                          *)
Step(from, to) == bpc = from /\ bpc' = to
Return(from) ==
  /\ Step(from, "idle")
  /\ bexpiry' = 0 /\ bema' = Zeroed /\ delta' = NoDelta
  /\ bprice' = None
  /\ UNCHANGED bts
-----------------------------------------------------------------------------
(* A tick arrives.  The exchange's event times do not decrease, and lead    *)
(* the host's clock by at most Lead.                                       *)
ReceiveTick ==
  /\ bpc = "idle"
  /\ \E ts \in bts .. wall + Lead :
       /\ bts' = ts
       /\ bpc' = IF IsMarketExpired(ts) THEN "rollover" ELSE "guard"
  /\ UNCHANGED <<bexpiry, bema, delta, bprice, tradeVars, rolloverVars, shared>>

(* Mutant: a plain store takes the lock, whoever holds it. *)
StartRolloverUnchecked ==
  /\ Return("rollover")
  /\ is_rolling_over' = TRUE
  /\ \E r \in Rollovers : SpawnRollover(r)
  /\ UNCHANGED <<tradeVars, wall, marketVars, streamVars, emaVars, sniperVars>>

(* Expired: one compare_exchange decides who spawns the rollover; the tick *)
(* is dropped either way.                                                  *)
StartRollover ==
  /\ Return("rollover")
  /\ ~is_rolling_over
  /\ is_rolling_over' = TRUE
  /\ \E r \in Rollovers : SpawnRollover(r)
  /\ UNCHANGED <<tradeVars, wall, marketVars, streamVars, emaVars, sniperVars>>

DropExpiredTick ==
  /\ Return("rollover")
  /\ is_rolling_over
  /\ UNCHANGED <<tradeVars, rolloverVars, shared>>

(* The pre-expiry guard loads the expiry a second time. *)
GuardPasses ==
  /\ Step("guard", "last_ts")
  /\ SecondsToExpiry(bts) >= Guard
  /\ bexpiry' = market_expiry
  /\ UNCHANGED <<bts, bema, delta, bprice, tradeVars, rolloverVars, shared>>

GuardDropsTick ==
  /\ Return("guard")
  /\ SecondsToExpiry(bts) < Guard
  /\ UNCHANGED <<tradeVars, rolloverVars, shared>>

(* update(): the first tick after a reset seeds the EMA with its price ... *)
ColdStart ==
  /\ Step("last_ts", "store_ema")
  /\ ~last_ts
  /\ bema' = bexpiry
  /\ delta' = NoDelta
  /\ UNCHANGED <<bts, bexpiry, bprice, tradeVars, rolloverVars, shared>>

WarmStart ==
  /\ Step("last_ts", "ema")
  /\ last_ts
  /\ UNCHANGED <<bts, bexpiry, bema, delta, bprice, tradeVars, rolloverVars,
                 shared>>

(* ... a later one mixes into the old value, all of it when a whole decay  *)
(* window has passed, and yields any momentum.                             *)
MixEma ==
  /\ Step("ema", "store_ema")
  /\ bema' \in {ema_price, bexpiry}
  /\ delta' \in Deltas
  /\ UNCHANGED <<bts, bexpiry, bprice, tradeVars, rolloverVars, shared>>

StoreEma ==
  /\ Step("store_ema", "store_ts")
  /\ ema_price' = bema
  /\ UNCHANGED <<bts, bexpiry, bema, delta, bprice, tradeVars, rolloverVars,
                 wall, marketVars, is_rolling_over, streamVars, last_ts, sniperVars>>

StoreLastTs ==
  /\ Step("store_ts", "armed")
  /\ last_ts' = TRUE
  /\ UNCHANGED <<bts, bexpiry, bema, delta, bprice, tradeVars, rolloverVars,
                 wall, marketVars, is_rolling_over, streamVars, ema_price, sniperVars>>
-----------------------------------------------------------------------------
(* evaluate_delta: armed?, then the trigger of the delta's direction, then *)
(* the CAS that lets one tick fire.                                        *)
SniperArmed ==
  /\ Step("armed", "trigger")
  /\ is_armed
  /\ UNCHANGED <<bts, bexpiry, bema, delta, bprice, tradeVars, rolloverVars,
                 shared>>

SniperNotArmed ==
  /\ Return("armed")
  /\ ~is_armed
  /\ UNCHANGED <<tradeVars, rolloverVars, shared>>

Crosses ==
  /\ Step("trigger", "disarm")
  /\ delta.level >= trigger[delta.dir]
  /\ UNCHANGED <<bts, bexpiry, bema, delta, bprice, tradeVars, rolloverVars, shared>>

BelowTrigger ==
  /\ Return("trigger")
  /\ delta.level < trigger[delta.dir]
  /\ UNCHANGED <<tradeVars, rolloverVars, shared>>

(* Mutant: the flag is read and not cleared. *)
ReadArmed ==
  /\ Step("disarm", "book")
  /\ is_armed
  /\ UNCHANGED <<bts, bexpiry, bema, delta, bprice, tradeVars, rolloverVars,
                 shared>>

TryDisarm ==
  /\ Step("disarm", "book")
  /\ is_armed
  /\ is_armed' = FALSE
  /\ UNCHANGED <<bts, bexpiry, bema, delta, bprice, tradeVars, rolloverVars,
                 wall, marketVars, is_rolling_over, streamVars, emaVars, trigger, dynamic_threshold,
                 window_shots_fired>>

(* Another task disarmed first.  Only a rollover can, so that it takes a   *)
(* handler that was held up between is_market_expired and its lock.        *)
DisarmLost ==
  /\ Return("disarm")
  /\ ~is_armed
  /\ UNCHANGED <<tradeVars, rolloverVars, shared>>

(* build_trigger_snapshot: the effective ask is the real or the synthetic  *)
(* one; without either, or with the spread too wide, there is no snapshot. *)
ReadBook ==
  /\ Step("book", "market")
  /\ bprice' \in EffectiveAsk(delta.dir)
  /\ UNCHANGED <<bts, bexpiry, bema, delta, tradeVars, rolloverVars, shared>>

NoAsk ==
  /\ Step("book", "rearm")
  /\ \/ EffectiveAsk(delta.dir) = {}
     \/ HasSpread(delta.dir)
  /\ UNCHANGED <<bts, bexpiry, bema, delta, bprice, tradeVars, rolloverVars,
                 shared>>

(* The order will buy a token of the market that is loaded now. *)
Fire ==
  /\ Return("market")
  /\ market # NoMarket
  /\ \E t \in Trades :
       SpawnTrade(t, [market |-> market, ts |-> bts, price |-> bprice])
  /\ UNCHANGED <<rolloverVars, shared>>

NoMarketLoaded ==
  /\ Step("market", "rearm")
  /\ market = NoMarket
  /\ UNCHANGED <<bts, bexpiry, bema, delta, bprice, tradeVars, rolloverVars,
                 shared>>

(* Without a snapshot the sniper is armed again at once. *)
RearmAtOnce ==
  /\ Return("rearm")
  /\ is_armed' = TRUE
  /\ UNCHANGED <<tradeVars, rolloverVars, wall, marketVars, is_rolling_over, streamVars,
                 emaVars, trigger, dynamic_threshold, window_shots_fired>>

BinanceNext ==
  \/ ReceiveTick \/ StartRollover \/ DropExpiredTick
  \/ GuardPasses \/ GuardDropsTick
  \/ ColdStart \/ WarmStart \/ MixEma \/ StoreEma \/ StoreLastTs
  \/ SniperArmed \/ SniperNotArmed \/ Crosses \/ BelowTrigger
  \/ TryDisarm \/ DisarmLost \/ ReadBook \/ NoAsk \/ Fire
  \/ NoMarketLoaded \/ RearmAtOnce
=============================================================================

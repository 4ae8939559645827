----------------------------- MODULE RolloverTask -----------------------------
(***************************************************************************)
(* handle_rollover (src/src/state.rs): the task that the Binance handler   *)
(* spawns when a tick shows that the market has expired.  It runs on its    *)
(* own thread beside every other task; each label of its program counter   *)
(* is the next step a..k of the sequence in the doc of SharedState.         *)
(***************************************************************************)
EXTENDS SharedState

CONSTANTS
  Rollovers,    \* identities of the spawned rollover tasks (bound)
  FetchFaults   \* may update_market return Err?

ASSUME FaultAssumption == FetchFaults \in BOOLEAN

VARIABLES
  rpc,      \* program counter of each rollover task
  fetched   \* the MarketInfo (its expiry) that update_market will return

rolloverVars == <<rpc, fetched>>

RolloverStep == {"disarm", "notify", "book", "ema", "last_ts", "shots", "dynamic",
                 "triggers", "window", "fetch", "market", "expiry", "reconnect",
                 "arm", "clear"}

RolloverTypeOK ==
  /\ rpc \in [Rollovers -> RolloverStep \cup {"idle"}]
  /\ fetched \in [Rollovers -> Nat]

RolloverInit ==
  /\ rpc = [r \in Rollovers |-> "idle"]
  /\ fetched = [r \in Rollovers |-> NoMarket]

(* Task r, at step from, goes on to step to. *)
Goto(r, from, to) == rpc[r] = from /\ rpc' = [rpc EXCEPT ![r] = to]
-----------------------------------------------------------------------------
(* a: no new trade may fire. *)
Disarm(r) ==
  /\ Goto(r, "disarm", "notify")
  /\ is_armed' = FALSE
  /\ UNCHANGED <<fetched, wall, marketVars, is_rolling_over, streamVars, emaVars,
                 trigger, dynamic_threshold, window_shots_fired>>

(* b: notify_one stores the one permit that wakes the Polymarket task. *)
NotifyDisconnect(r) ==
  /\ Goto(r, "notify", "book")
  /\ poly_disconnect' = TRUE
  /\ UNCHANGED <<fetched, wall, marketVars, is_rolling_over, poly_reconnect, book,
                 emaVars, sniperVars>>

(* c: the four quotes are wiped. *)
ResetBook(r) ==
  /\ Goto(r, "book", "ema")
  /\ book' = [q \in Quote |-> None]
  /\ UNCHANGED <<fetched, wall, marketVars, is_rolling_over, poly_disconnect,
                 poly_reconnect, emaVars, sniperVars>>

(* d: BinanceAtomicState::reset stores ema_price, then last_ts.            *)
ResetEma(r) ==
  /\ Goto(r, "ema", "last_ts")
  /\ ema_price' = Zeroed
  /\ UNCHANGED <<fetched, wall, marketVars, is_rolling_over, streamVars, last_ts,
                 sniperVars>>

(* Mutant: last_ts keeps its value across the reset. *)
KeepLastTs(r) ==
  /\ Goto(r, "last_ts", "shots")
  /\ UNCHANGED <<fetched, shared>>

ResetLastTs(r) ==
  /\ Goto(r, "last_ts", "shots")
  /\ last_ts' = FALSE
  /\ UNCHANGED <<fetched, wall, marketVars, is_rolling_over, streamVars, ema_price,
                 sniperVars>>

(* e: reset_for_new_window, store by store.  The two trigger stores are    *)
(* one step: a tick's delta is compared against one of them only.          *)
ResetShots(r) ==
  /\ Goto(r, "shots", "dynamic")
  /\ window_shots_fired' = 0
  /\ UNCHANGED <<fetched, wall, marketVars, is_rolling_over, streamVars, emaVars,
                 is_armed, trigger, dynamic_threshold>>

(* Mutant: the threshold is reset to f64::MAX, as the triggers are. *)
ResetDynamicToVeto(r) ==
  /\ Goto(r, "dynamic", "triggers")
  /\ dynamic_threshold' = Veto
  /\ UNCHANGED <<fetched, wall, marketVars, is_rolling_over, streamVars, emaVars,
                 is_armed, trigger, window_shots_fired>>

ResetDynamic(r) ==
  /\ Goto(r, "dynamic", "triggers")
  /\ dynamic_threshold' = EscalatedThreshold(0)
  /\ UNCHANGED <<fetched, wall, marketVars, is_rolling_over, streamVars, emaVars,
                 is_armed, trigger, window_shots_fired>>

ResetTriggers(r) ==
  /\ Goto(r, "triggers", "window")
  /\ trigger' = [d \in Direction |-> Veto]
  /\ UNCHANGED <<fetched, wall, marketVars, is_rolling_over, streamVars, emaVars,
                 is_armed, dynamic_threshold, window_shots_fired>>

(* f: update_market picks the window by the host's clock, then asks the     *)
(* Gamma API for it; the answer may take any time.                         *)
PickWindow(r) ==
  /\ Goto(r, "window", "fetch")
  /\ fetched' = [fetched EXCEPT ![r] = NextExpiry(wall)]
  /\ UNCHANGED shared

FetchOk(r) ==
  /\ Goto(r, "fetch", "market")
  /\ UNCHANGED <<fetched, shared>>

(* Mutant: the error returns early, with the lock still held. *)
FetchErrReturns(r) ==
  /\ FetchFaults
  /\ Goto(r, "fetch", "idle")
  /\ UNCHANGED <<fetched, shared>>

(* Mutant: the error path arms the sniper again, on the old market. *)
FetchErrRearms(r) ==
  /\ FetchFaults
  /\ Goto(r, "fetch", "clear")
  /\ is_armed' = TRUE
  /\ UNCHANGED <<fetched, wall, marketVars, is_rolling_over, streamVars, emaVars,
                 trigger, dynamic_threshold, window_shots_fired>>

(* Err: the market stays as it was and the sniper disarmed. *)
FetchErr(r) ==
  /\ FetchFaults
  /\ Goto(r, "fetch", "clear")
  /\ UNCHANGED <<fetched, shared>>

(* g, h: publish_market swaps the market in before it stores the expiry.   *)
PublishMarket(r) ==
  /\ Goto(r, "market", "expiry")
  /\ market' = fetched[r]
  /\ UNCHANGED <<fetched, wall, market_expiry, is_rolling_over, streamVars, emaVars,
                 sniperVars>>

PublishExpiry(r) ==
  /\ Goto(r, "expiry", "reconnect")
  /\ market_expiry' = fetched[r]
  /\ UNCHANGED <<fetched, wall, market, is_rolling_over, streamVars, emaVars,
                 sniperVars>>

(* Mutant: the reconnect signal is forgotten. *)
NotifyNoReconnect(r) ==
  /\ Goto(r, "reconnect", "arm")
  /\ UNCHANGED <<fetched, shared>>

(* i: the Polymarket task may load the new market. *)
NotifyReconnect(r) ==
  /\ Goto(r, "reconnect", "arm")
  /\ poly_reconnect' = TRUE
  /\ UNCHANGED <<fetched, wall, marketVars, is_rolling_over, poly_disconnect, book,
                 emaVars, sniperVars>>

(* j *)
Arm(r) ==
  /\ Goto(r, "arm", "clear")
  /\ is_armed' = TRUE
  /\ UNCHANGED <<fetched, wall, marketVars, is_rolling_over, streamVars, emaVars,
                 trigger, dynamic_threshold, window_shots_fired>>

(* k: the lock is released last, after a success as after a failure. *)
ClearRolling(r) ==
  /\ Goto(r, "clear", "idle")
  /\ is_rolling_over' = FALSE
  /\ fetched' = [fetched EXCEPT ![r] = NoMarket]
  /\ UNCHANGED <<wall, marketVars, streamVars, emaVars, sniperVars>>

(* Mutant: publish_market stores the expiry before the market. *)
PublishExpiryFirst(r) ==
  \/ Disarm(r) \/ NotifyDisconnect(r) \/ ResetBook(r)
  \/ ResetEma(r) \/ ResetLastTs(r)
  \/ ResetShots(r) \/ ResetDynamic(r) \/ ResetTriggers(r)
  \/ PickWindow(r) \/ FetchOk(r) \/ FetchErr(r)
  \/ /\ Goto(r, "market", "expiry")
     /\ market_expiry' = fetched[r]
     /\ UNCHANGED <<fetched, wall, market, is_rolling_over, streamVars, emaVars,
                    sniperVars>>
  \/ /\ Goto(r, "expiry", "reconnect")
     /\ market' = fetched[r]
     /\ UNCHANGED <<fetched, wall, market_expiry, is_rolling_over, streamVars, emaVars,
                    sniperVars>>
  \/ NotifyReconnect(r) \/ Arm(r) \/ ClearRolling(r)

(* handle_rollover, one step at a time. *)
RolloverNext(r) ==
  \/ Disarm(r) \/ NotifyDisconnect(r) \/ ResetBook(r)
  \/ ResetEma(r) \/ ResetLastTs(r)
  \/ ResetShots(r) \/ ResetDynamic(r) \/ ResetTriggers(r)
  \/ PickWindow(r) \/ FetchOk(r) \/ FetchErr(r)
  \/ PublishMarket(r) \/ PublishExpiry(r) \/ NotifyReconnect(r)
  \/ Arm(r) \/ ClearRolling(r)

(* tokio::spawn(handle_rollover) on a free identity. *)
SpawnRollover(r) == Goto(r, "idle", "disarm") /\ UNCHANGED fetched
=============================================================================

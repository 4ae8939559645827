# Verification of rogue-one

rogue-one is a trading bot in Rust. It watches the trades of Binance, measures
the momentum of the price against an EMA, and when the momentum crosses a
threshold buys the UP or the DOWN token of the Polymarket binary market of the
current time window. Windows follow each other without a gap; between two of
them the bot *rolls over* to the next market.

This directory holds TLA+ models of the program, the TLC configurations that
check them, and TLAPS proofs. Source lines are those of `src/src/*.rs`.

## 1. Inventory

All tasks run on one multi-threaded tokio runtime and share one
`Arc<SharedState>`. Apart from the executor's mutexes there is no lock: every
field is an atomic of its own, and what spans two fields is kept consistent by
the order of the accesses, or not at all.

| component | state it keeps | operations | correct when |
|---|---|---|---|
| SharedState (`state.rs`) | market (`ArcSwapOption`), expiry, rollover flag, two `Notify`s, EMA, book, sniper flag and thresholds | loads, stores, `compare_exchange`, `notify_one` | fields that belong together are read and written in an order that works |
| Binance stream (`streams.rs`) | none beyond the tick at hand | one handler per aggTrade: expiry, guard, EMA, thresholds, spawn | one rollover per expiry, one order per right to fire, no order near the end, no momentum across windows |
| Rollover (`state.rs`, `handle_rollover`) | none | the steps a to k, in order | one at a time, always ends, the new market is complete when it can be traded |
| Trade trigger (`sniper.rs`) | its `TriggerSnapshot` | `trigger_buy`, `rearm_after_debounce` | the right to fire always comes back, the threshold rises with each fill |
| SituationRoom (`situation_room.rs`) | none | a round every 500 ms: check, read, compute, store | the triggers are at least the escalated threshold and the floor of the round's book, and veto a side without an ask |
| Polymarket stream (`streams.rs`) | the connection's market | load, connect, apply messages, two signals | it streams the published market |
| Binance connection (`streams.rs`, `run_binance_stream`) | attempts of the outage | connect, back off, connect again | it always comes back, and the waits of an outage grow to the cap |
| Market fetcher (`market_fetcher.rs`) | none | pick the window by the clock, ask Gamma (and again under the other name), extract the tokens | the market of the current window with each token in its place, or an error |
| Executor: trades (`executor.rs`) | bankroll, positions, paper ledger | size, deduct, order, record | money and shares are conserved |
| Executor: position manager (`executor.rs`) | time of the last reconciliation | every 3 s: exit, redeem, reconcile | every position is sold or redeemed once |
| Credentials (`executor.rs`) | wallet, L2 credentials | derive the wallet, ask for the credentials | no live task runs without them |
| Configuration (`config.rs`) | constants | load and validate once | the formulas work for whatever it lets through |
| Startup, shutdown (`main.rs`) | none | load, first fetch, executor, spawn, wait for a signal | a start without a market recovers |
| Signing, HTTP headers, CSV log, errors (`executor.rs`, `errors.rs`) | none | functions of their arguments, output | not modelled |

How they interact. The Binance handler *spawns* a rollover (when a tick shows
the expiry and its compare_exchange wins) and a trade (when a delta crosses a
trigger and its compare_exchange wins). The rollover *signals* the Polymarket
stream through two `Notify`s that hold at most one permit each, publishes the
market and arms the sniper. The SituationRoom *polls* the book and stores the
triggers. A trade awaits the executor, counts its shot, raises the dynamic
threshold and arms the sniper after the debounce.

What is hard here: the interleaving of single atomic accesses of up to five
kinds of task; checks whose result is used several accesses later; permits
that are stored for a task that is not listening; fetches and orders that
answer at any time, or fail; two clocks (the exchange's and the host's).
`PROJECT.json` lists each of these hazards at its line, with the properties
that would catch it.

## 2. Modules

```
SharedState ─┬─ RolloverTask ──┐
             ├─ TriggerBuy ────┴─ BinanceStream ─┐
             ├─ SituationRoom ───────────────────┼─ SniperBot ─┬─ MCSniperBot (TLC)
             └─ PolymarketStream ────────────────┘      │      └─ SniperBotProofs ─ GateProofs (TLAPS)
                                                        └ implements FiringGate

TriggerBuy ─ Executor ─ PositionManager ─┐
                           RolloverTask ─┴─ TradingDesk ─┬─ MCTradingDesk (TLC)
                                                  │      └─ TradingDeskProofs ─ DeskAccountProofs (TLAPS)
                                                  └ implements PaperAccount
RolloverTask, TriggerBuy ─ ComponentProofs (TLAPS; the lemmas that both sets of proofs use)

Config ─ EvModel ─ TradePrices ─┬─ MCTradePrices (TLC)
                                └─ TradeProofs (TLAPS)

MarketFetcher, Reconnect ─ Startup ─┬─ MCStartup (TLC)
                                    └─ StartupProofs (TLAPS)
SumTheorems (TLAPS; what the sum over a finite set is, for DeskAccountProofs)
```

* **SharedState** declares the atomics as variables and the pure reads as
  operators under the names of the code. A market is named by its expiry,
  because `update_market` derives slug and `expiry_ts` from the same window
  start. A price is represented by the market for which it was quoted, a
  momentum by the highest escalated threshold that it reaches: that is what the
  properties tell apart. `SharedInit` is what `main` leaves behind, with its
  first fetch successful or failed (`main.rs:152-187`).
* **RolloverTask** is `handle_rollover`, one action per store. The lock is
  taken by the Binance handler and released by `ClearRolling`. `PickWindow`
  and the answer (`FetchOk`, `FetchErr`) are apart: the window is chosen by the
  clock before the request.
* **TriggerBuy** is `trigger_buy` with its debounce. `execute_trade` is an
  answer, filled or not, at any later time.
* **BinanceStream** is `binance_process_message`, one action per access to a
  shared atomic: the expiry check, the compare_exchange, the guard (a second
  load of the expiry), `update()` with its loads and stores, `evaluate_delta`,
  the snapshot (book first, market second), the spawn. The locals of a tick
  that is done return to their initial values.
* **SituationRoom** is the 500 ms loop. `calculate_required_momentum` is the
  choice of any level of the floor, except that a direction without an ask is
  vetoed: only the level counts for the interleavings. EvModel has its numbers.
* **PolymarketStream** is the connection loop. A message sets one quote to the
  connection's market or empties it. `select!` may take a message although the
  disconnect permit is there: it polls its branches in random order.
* **SniperBot** interleaves them and states the properties. `HandlerHeldUp`
  says that a rollover takes no step between the handler's expiry check and its
  compare_exchange; there is no await between the two, so that only the
  operating system can hold the handler up for that long. `Preemptible = TRUE`
  lets it.
* **Executor** is `execute_trade`, what a trade does while TriggerBuy has it in
  its step "execute". The order is sized by the bankroll at one moment
  (`SizeOrder`, `RefuseOrder`). A paper order deducts (load with the
  comparison, then compare_exchange, and again if it fails), credits the
  ledger, records the position. A live order is posted first; the exchange
  accepts it, rejects it, or fills it and its answer is lost; the accepted
  one is deducted, or is not if the bankroll is too low, and recorded
  either way.
* **PositionManager** is `run_position_manager`: wake, reconcile if that is
  due, list the tokens, and for each of them read the position, read the bid,
  hold, redeem or sell. The exchange sells what the wallet has; a rejected
  sale is left to the next round.
* **TradingDesk** interleaves both with the rollover. The Binance handler and
  the feed, which SniperBot models access by access, are one step each here (a
  tick fires, a tick starts a rollover, a bid is set or emptied).

Money and prices of the Executor are in cents. A token is named by its market
and its direction. What the exchange and the chain hold (`balance`, `cash`) is
external: it changes by what the code sends and is read by what it asks. The
totals of the log's rows (`trade_log`) stand for the CSV file. Which exit is
due (`is_safe_to_hold_to_expiry`, the cooldown, bail-out, impatience,
take-profit) is a free choice at each evaluation of PositionManager, so that
nothing it shows depends on the thresholds; TradePrices has the choice itself.

* **Config** has the configuration as constants, what `Config::load` enforces of
  them (`Validated`) as the assumption of every module of prices, and the two
  formulas of its helpers.
* **EvModel** is the arithmetic: `calculate_required_momentum` with its
  penalties and its cap, `merge_thresholds`, `effective_ask`, the price and the
  size of an order, the hold EV and the targets of the exits. The units are
  chosen so that nearly all of it is exact in integers (section 5 says where the code's
  `f64` differs).
* **TradePrices** is the life of a paper position in one direction of one
  window: quotes, rounds of the SituationRoom, a tick that crosses the trigger,
  the order, fills that are averaged into one position, the exits in the order
  in which `evaluate_position` tries them, the redemption. Each handler is one
  step; the interleavings within the handlers are the other modules'.
* **MarketFetcher** is `update_market` as a function of the answers of the Gamma
  API: failed, missing, or an event with its outcomes and token ids in any
  order, as a list or as a string that encodes one.
* **Reconnect** is `run_binance_stream`: the connection, `backoff_delay`, and
  the attempts, which start over only when a stream ends with `Ok(())`.
* **Startup** is `main`: the configuration, the first fetch with its fallback
  request, the executor's wallet, the live credentials, the four spawns, and
  SIGINT or SIGTERM at any moment; after the spawns the connection's attempts
  and the requests of the rollovers go on. `publish_market` is its two stores, market
  first. Ticks and orders are there as what they do to the armed flag: a tick takes
  the right to fire (`TakeRight`), and a debounce or a tick without a snapshot
  arms the sniper at any later moment (`GiveBack`), also while a fetch is out.
* **FiringGate** and **PaperAccount** are abstract specifications: what the bot
  promises of its right to fire and of the replacement of its market, and an
  account in which a buy and a sale are one step. SniperBot and TradingDesk
  implement them by the refinement mappings `Gate` (phases from the program
  counters of the rollovers, rights counted over the armed flag, the handler
  and the trades) and `Account` (shares counted from the deduction of a buy to
  the credit of a sale).

Not in the models: `wipe_delta` and `price_delta`, which no decision reads;
diagnostics, logging and the wording of messages; several loads of the book in
a row, which are one step (each quote is judged on its own). In SniperBot the
reconnection of the Binance socket is time in which no tick arrives. Accesses
are sequentially consistent. The code's are Acquire/Release with some Relaxed
ones; a reordering that the weaker orders allow is outside the model.

## 3. Runs

Clock and window are in ticks: `WindowLen = 2`, `Guard = 2`, `MaxWall = 2` give
a window in which a tick at time 0 may trade and one at time 1 may not, its
expiry at 2, and a whole new window after it (expiry 4) in which the ticks at
time 2 may trade again. One expiry is enough for every property about a
rollover: each relates an actor of the old window, or one that began before the
rollover, to the new one. `Rollovers` and `Trades` are identities that are
reused, so that one identity already allows any number of consecutive tasks
(rollovers that fail and are tried again), and two identities two at once.
`UpAsk` and `UpDeltas` restrict quotes and momenta to one direction; no step
reads the other direction's trigger for them.

| run | instance | checks |
|---|---|---|
| `bot_safety` | two trades, two rollovers, failing fetches, one feed fault, exchange clock one tick ahead, symmetry of the identities | `TypeOK`, `SingleRollover`, `TradeTargetsLiveMarket`, `StreamsCurrentMarket`, `MomentumOfThisWindow`, `RightsOnlyFromRollover`, `ImplementsGate` |
| `bot_liveness` | one trade, failing fetches, `WindowLen = 1` | `NeverLocksUp`, `FeedRestored`, `ExpiredMarketReplaced` |

`MaxShots = 0` in both, so that no order fills in them: with a fill the states
are too many for a run. A fill differs from a failure by two stores, the shot
count and the dynamic threshold, on the way to the same debounce. The `desk`
run has them (`MaxShots = 2`) and checks their types, and the theorems of
section 4 hold for every `MaxShots`. `Preemptible = TRUE`, too, is beyond TLC
and left to the theorems.

* `SingleRollover`: the compare_exchange and step k form a lock, and the flag
  says exactly whether a rollover runs.
* `TradeTargetsLiveMarket`: the guard reads `market_expiry`, the order takes
  its token from `market` many accesses later. It holds since
  `publish_market` stores the market first and neither ever goes back; with
  the two stores swapped it fails.
* `StreamsCurrentMarket`: when no rollover is in progress a feed that is
  connected to an old market has a reconnect permit. Permits coalesce: a feed
  that is slower than a whole window may be left with one permit for two
  rollovers, which is why the property asks for the permit and not for the
  connection.
* `RightsOnlyFromRollover`: rights to fire (the armed flag, a handler that has
  taken it, trades in flight) grow only in step j of a rollover.
* `ImplementsGate`: each step of the bot is a step of FiringGate or none. It adds
  to the property before that the phases of a replacement follow each other,
  that only a published market grants, and that a failed fetch grants nothing.
* `MomentumOfThisWindow`: the EMA's tear (`ema_price` reset, `last_ts` not yet)
  is never seen by a tick that goes on to be judged, as every tick that runs
  beside a rollover has been dropped by the expiry check or began before it,
  and the rollover starts after the handler is done with its predecessor. This
  needs `Preemptible = FALSE`; with `TRUE` TLC finds it violated.
* `NeverLocksUp`: under fairness the sniper is armed again and again, with any
  number of failed orders and failed fetches.
* `ExpiredMarketReplaced`: an expired market is replaced, whatever fetches fail.
* `FeedRestored`: once a rollover is about to signal the reconnect, the feed ends
  on the published market with no disconnect pending, or is disconnected by the next
  rollover. Two cases are left out, in which a signal of an earlier rollover meets the
  feed: a disconnect signal stored for a feed that waits already (`feed_stuck` shows
  what comes of it), and a reconnect signal taken between the disconnect and the
  store of the new market. The latter needs a feed that was slower than a whole
  window, whose two disconnects were one permit: it stays on the market of the
  window before, with a permit that only its next disconnect lets it use.

`bot_liveness` replaces the market of one window, which takes TLC a minute. The second
alternative of `FeedRestored`, and a fetch that answers when its window is over, need
a second one: with `MaxWall = 2` in the same configuration the three properties hold
as well (491 163 states, nine minutes).

`RightsOnlyFromRollover` bounds the rights and not the orders of one market: the
debounce of an order of the old market arms the sniper while an order on the new
one is in flight, so that a market may have two orders at once.

The desk has `KellyPct = 40`, `Start = 1000` cents and one offer whose ask is 50
and whose slippage takes the price to 90: an order is for 8 shares at 720 cents,
so that the bankroll pays for one of two orders that were sized by it at the
same moment, and a later one, for less, fits again. Two trades are needed for
two compare_exchange loops of orders to meet, and the manager is a third party.
One direction, one price of a bid (a sale at a loss) and one rollover are
enough: tokens interact only through the bankroll, and a position's market is
either the live one or an old one.

| run | instance | checks |
|---|---|---|
| `desk` | two trades, paper and live, lost answers, failing fetches, symmetry of the trades | `TypeOK`, `CashConserved`, `PaperNeverOversold`, `EvaluatesOpenPositions`, `ImplementsAccount` |
| `desk_liveness` | two trades, each for half of the bankroll, paper and live, lost answers, one window and the time after its end | `RoundsEnd`, `BankrollReconciled` |

* `TypeOK` says of the desk, among the types, that the bankroll never goes
  below zero: it depends on the comparison at every load of the loop.
* `CashConserved`: on paper the bankroll is the start minus what the log's BUY
  rows say plus what its SELL rows say, up to the orders and the sale that are
  between their exchange and their row. On live money the bankroll is a copy
  that the reconciliation overwrites, and nothing of the kind holds.
* `PaperNeverOversold`: no paper position claims more shares than the ledger
  holds, so that the `max(0.0)` of `debit_sell` never hides a share sold twice.
* `EvaluatesOpenPositions`: what the round has listed or has in hand is still
  open, so that no sale or redemption works on a record that is gone.
* `ImplementsAccount`: in paper mode every step of the desk is a purchase or a
  sale of PaperAccount, or a step that the account does not see: bought shares
  are paid for in full at an offered price with money that is there, sold shares
  were held, and no interleaving of the accesses leaves a half of either.
* `RoundsEnd`: a round of the manager ends. In the run an order deducts between
  the load of the credit and its compare_exchange, so that the credit is tried
  again, and is averaged into the position that is being evaluated. A failure of the
  exchange is a deduction of somebody else, of which the bankroll pays for finitely
  many before the credit succeeds, and the list of a round only shrinks. It presumes
  that the awaits of a round return: requests have a timeout
  (`executor.rs:576`), while the await of `scripts/redeem.py`
  (`executor.rs:1435-1439`) has none, and a script that hangs holds up the manager
  for good.
* `BankrollReconciled`: a live bankroll that has drifted from the wallet (answers
  lost, a deduction overwritten, an error of the chain read as zero) is within a
  cent of it again and again, where the chain can be asked at all. Partial fills
  are off in this run.

`trade_prices` has the default configuration and seven books, at and beside the
limits of the formulas: dear and cheap, tight and wide, without a bid, without
an ask, with and without the other side's bid; momenta that cross the base
threshold, the escalated one and the highest floor; times in which a position is
fresh, old enough for the impatience, in its last two minutes, exactly 15 s from the
end, and expired; two fills, so that a second one is averaged in.

| run | checks |
|---|---|
| `trade_prices` | `TypeOK`, `PnlAccounts`, `PaysAtMostMax`, `NoInstantBailout`, `ProfitExitsProfit` |

* `PnlAccounts`: bankroll, the cost of the open position and the cost of the
  redeemed ones come to the start plus the session's P&L: the accounts of the
  log and of the ledger agree with the money.
* `PaysAtMostMax`: an order is priced above `max_buy_price` only when the ask that
  prices it, real or made from the other side's bid, is above the real ask of the
  round that set its trigger. Such an order is above the ceiling of `config.rs:120`.
* `NoInstantBailout`: with the default values, a position whose orders used
  up-to-date triggers is bailed out only when its bid has fallen or in the last
  two minutes: the entry's penalties keep out what the exit would throw out.
  This is a fact of these values, not of every configuration.
* `ProfitExitsProfit`: a sale in the name of a profit makes one, however its
  fills were averaged, unless the position cost more than the exit ceiling.

`startup` has every environment (paper or live; no key, a bad one, a good one;
values in range, out of range, unparsable; btc and another asset), eleven answers
of the Gamma API, windows of two ticks, two rights to fire at once (one given back
in a fetch, one later), and attempts up to 8, two past the cap of the back-off. The
clock goes to 2 once there is a market, and to the first boundary while there is
none.

| run | checks |
|---|---|
| `startup` | `TypeOK`, `LiveNeedsCredentials`, `ArmedMarketIsWhole`, `BackoffGrows`, `RecoversFromFailedStart` |

* `LiveNeedsCredentials`: no task runs in live mode without wallet and
  credentials, whatever failed before the spawns.
* `ArmedMarketIsWhole`: whoever arms the sniper, and when, there is a market, its
  tokens pay for what the outcomes' names say, where all of them are text and there
  is one for each id, and it ends no earlier than `market_expiry`. Between the two
  stores of `publish_market` it ends later: an old order's debounce may arm the
  sniper there, but the ticks, which are judged by the old expiry, are dropped.
* `BackoffGrows`: within an outage each wait is at least as long as the one
  before, between half a second and half a minute.
* `RecoversFromFailedStart`: a bot whose first fetch failed is armed or exits
  sooner or later, across outages of Binance and of the Gamma API.

### Fairness

*SniperBot.* Every tokio task that is ready runs eventually: weak fairness of the
handler, the trades and the feed's own steps; strong fairness of a rollover, as
`HandlerHeldUp` disables it for the moment of each tick's expiry check. The
exchange goes on sending ticks and they reach the wall clock; Gamma answers
successfully if it is asked again and again. Nothing is assumed of the
SituationRoom, of feed messages, connection faults or the outcome of orders.

*TradingDesk.* The manager's task and a rollover run (weak fairness). A manager
that wakes again and again finds its 60 s over in some of its rounds (strong
fairness of `Reconciles`: the rounds are 3 s apart), and the chain, asked again
and again, answers in some of them (`ChainAnswers`): this takes a `POLY_RPC_URL`,
which is empty by default (`config.rs:344`), so that by default a live bankroll is never
reconciled. The awaits of a round return, `scripts/redeem.py` among them, which
the code does not bound. Nothing is assumed of orders,
ticks, the clock or the exchange.

*Startup.* main and its tasks run, the clock goes on. A connection that is tried
again and again succeeds and then brings a tick, and Gamma, asked again and again,
knows the market; an order is answered and its debounce ends (`GiveBack`). Nothing is
assumed of faults, shutdown or the environment.

### Disagreements between the code and its text

Each of these runs checks one property that a comment of the code states or
implies, and TLC finds it violated by what the code does.

| run | property | what happens |
|---|---|---|
| `feed_stuck` | `RolloverRestoresFeed` | A fetch fails; the feed, disconnected by step b, waits. The next rollover posts a disconnect permit that nobody takes, publishes, and signals the reconnect. The feed reconnects, finds the old disconnect permit, leaves, and waits for a signal that is spent. The book stays empty for the whole window. The same happens after a connection fault. |
| `stale_price` | `PricedFromItsMarket` | The feed applies a message of the old market after `book.reset()`, and an order on the new market is priced from it. |
| `partial_fill` | `FilledAsRecorded` | The exchange fills a part of a FAK order; the position, the deduction and the outcome are those of the whole order, and the sale of all of it is rejected from then on. |
| `orphaned_shares` | `SharesAreTracked` | While a sale awaits its answer another order is averaged into the position; the sale removes the record, and its new shares are nobody's. |
| `foreign_bid` | `SoldAtItsOwnBid` | No round falls between the expiry and the rollover; the position of the old market is sold at a bid of the new one. |
| `early_redemption` | `RedeemedAfterExpiry` | The manager reads the time and the expiry of the old market and awaits the chain's balance. A rollover takes place and a position of the new market is bought. The manager lists it, compares the old time with the old expiry, runs the redemption for it and drops it. |

Other disagreements, found while reading and not stated as runs:

* `state.rs:475-476` says that the sniper is armed "after the debounce period
  completes". The debounce of an order on the old market arms it while an order
  on the new one is in flight (`sniper.rs:332`), so that a market may have two
  orders at once. `RightsOnlyFromRollover` says how many there can be.
* `streams.rs:5` and `55-57` and `main.rs:217` promise a Polymarket stream that
  reconnects itself with back-off. After a fault or a close the task waits for the
  next rollover's signal (`streams.rs:448-463`), and the book stays as it was for the
  rest of the window.
* `state.rs:968` and `971` say that after a failed fetch the sniper "remains
  DISARMED". The debounce of an order that ends during the fetch arms it
  (`sniper.rs:332`), as does a tick without a snapshot (`streams.rs:331`). No tick
  passes the expired market, so that no order comes of it.
* `state.rs:484` initialises the triggers to `f64::MAX` "so no trade fires before
  SituationRoom computes", and the rollover resets them to it. A round that checked
  the rollover flag before the rollover (`situation_room.rs:151`) stores those of the
  old window over it, and an order on the new market may cross one.
* `state.rs:498` calls `window_shots_fired` the trades "within the current market
  window"; an order of the old market that fills after the rollover is counted for
  the new one and escalates its first threshold (`sniper.rs:269`).
* `config.rs:120`: "Maximum allowed ask price for a buy to proceed". It is compared with the ask and its
  slippage when the triggers are set (`situation_room.rs:242`), and never when the
  order is priced: an ask that has risen since takes the order above it.
* `executor.rs:9-10` says that every open position is tracked. An order that the
  exchange fills and whose answer is lost is an error (`executor.rs:883`), and its
  shares have no position.
* `streams.rs:145` calls 500 ms the delay of the first reconnect attempt. After an
  outage and a session of any length that a fault or a Close frame ends, the first
  wait is longer: the attempts still count those of the outage (`streams.rs:198`).
* `state.rs:826` says `seconds_to_expiry(ts) > 15.0`; `streams.rs:313` drops a tick
  only below 15.0, so that one at exactly 15 s may fire.
* `config.rs:167` and `170` say "Seconds-to-expiry below which" a time penalty
  applies; the code applies it above (`situation_room.rs:252`).
* `config.rs:111` says "Hard ceiling price for any sell order"; a sale is at any
  bid, the ceiling only limits the take-profit target.
* `situation_room.rs:269` says "each cent over the max costs 2 EV points"; the
  whole spread is multiplied.
* `config.rs:114` describes a sell cooldown; nothing ever sets `last_sell_time`,
  so that the cooldown has always elapsed.
* `streams.rs:174-175` says "immediate reconnect on clean close"; a Close frame is
  an error (`streams.rs:253`) that backs off and does not reset the attempts.
* `config.rs:330` names 1440 as the largest `MARKET_WINDOW`; only 0 is refused.
* A paper position that expires is removed, with the redemption script run for it,
  and its shares pay nothing (`executor.rs:1138-1139`); one without a bid is never
  redeemed (`executor.rs:1118-1127`).
* A list of outcomes with an element that is no text loses it and shifts the rest
  (`market_fetcher.rs:87`): the names then point at the wrong ids.

## 4. Proofs

For every value of the constants that their assumptions allow (any window
length, guard, clock lead, bounds; any sets of rollovers and trades; with or
without fetch faults; `Preemptible` either way, but in `MomentumIsCurrent`; any
offers, bids, Kelly fraction and start, with or without partial fills and lost
answers; any configuration that `load` accepts and any quotes; any answers of the
Gamma API, well formed as `AnswerAssumption` says):

| theorem | module | states |
|---|---|---|
| `TypeCorrect` | SniperBotProofs | `Spec => []TypeOK` |
| `RolloverLock` | SniperBotProofs | `Spec => []SingleRollover` |
| `FeedSignalled` | SniperBotProofs | `Spec => []StreamsCurrentMarket` |
| `TradesAreLive` | SniperBotProofs | `Spec => []TradeTargetsLiveMarket` |
| `MomentumIsCurrent` | SniperBotProofs | `~Preemptible /\ Spec => []MomentumOfThisWindow` |
| `DeskTypeCorrect` | TradingDeskProofs | `Spec => []TypeOK` of the desk |
| `OnlyOpenPositions` | TradingDeskProofs | `Spec => []EvaluatesOpenPositions` |
| `LedgerBacksPositions` | DeskAccountProofs | `Spec => []PaperNeverOversold` |
| `LogAccountsForBankroll` | DeskAccountProofs | `Spec => []CashConserved` |
| `AccountImplemented` | DeskAccountProofs | `Spec => ImplementsAccount` |
| `OnlyRolloversGrant` | GateProofs | `Spec => RightsOnlyFromRollover` |
| `GateImplemented` | GateProofs | `Spec => ImplementsGate` |
| `PricesTypeCorrect` | TradeProofs | `Spec => []TypeOK` of TradePrices |
| `MoneyAccounted` | TradeProofs | `Spec => []PnlAccounts` |
| `CeilingKept` | TradeProofs | `Spec => PaysAtMostMax` |
| `ProfitMade` | TradeProofs | `Spec => ProfitExitsProfit` |
| `BailoutNotInstant` | TradeProofs | `EntryScreens /\ Spec => NoInstantBailout` |
| `TypeCorrect` | StartupProofs | `Spec => []TypeOK` of Startup |
| `TasksHaveCredentials` | StartupProofs | `Spec => []LiveNeedsCredentials` |
| `ArmedMarketMatches` | StartupProofs | `Spec => []ArmedMarketIsWhole` |
| `WaitsNeverShrink` | StartupProofs | `Spec => BackoffGrows` |

ComponentProofs holds what a step of a rollover and of a trade preserves; the
bot's and the desk's proofs both cite it.

The bot. `TypeOK` is inductive; its proof has a lemma per component.
`SingleRollover` is inductive together with it: a rollover starts only when the
flag is down and then none is active, and the flag goes down only when the one
that runs becomes idle. `StreamsCurrentMarket` follows from `SingleRollover` and
`FeedHasSignal`, which says what is true *within* a rollover: the permit is
there, or a rollover has published and is about to post it.
`TradeTargetsLiveMarket` is not inductive; `MarketInv` adds that nothing
published or fetched lies beyond the window of now (`NothingAhead`), that what a
rollover is about to publish is the newest (`FetchedIsNewest`, which needs the
lock: a second rollover could publish in between), that the expiry never runs
ahead of its market (`ExpiryNotAhead`), and that a tick past the guard is far
enough from an expiry that was published (`PastGuard`). `NextExpiryMonotone`
carries the clock's step.

`MomentumOfThisWindow` says that a tick is judged by an EMA that was seeded in the
tick's own window. `EmaInv` follows the two unlocked writers, `reset()` of a
rollover and `update()` of the handler, through each of their stores. Until a
rollover publishes, the handler has just seen the old expiry pass, and is in no
tick that passed it (`ExpirySeen`): so the two writers never meet, the expiry that a
tick read at its guard is the current one (`ExpiryOfTick`), and after the reset the
EMA stays wiped until a tick of the new window seeds it (`EmaSeeded`). The theorem has the hypothesis `~Preemptible`, as the
run has: a handler that is held up between its check and its compare_exchange
may start a second rollover right after the first, whose reset wipes an EMA
that was just seeded. No await point lies between the two accesses, but the
runtime's threads may be descheduled there, so that it is a hypothesis about
the scheduler and not a fact of the code.

The desk. `TypeOK` is not inductive: a compare_exchange of an amount larger than
what was loaded would leave a negative bankroll. `DeskInv` adds `CasGuard` (at
the exchange the amount is at most what was loaded) and `OrderSized` (an order
that was placed is for a share at least). `EvaluatesOpenPositions` is inductive
together with it: an order only adds to the open positions (`OpenGrows`, which
needs `OrderSized`), and the manager takes a token off its list before it
evaluates it, so that removing it leaves the rest of the list open
(`ManagerOpen`).

The desk's account. `PaperNeverOversold` is not inductive: a sale is debited before
its position is removed, and a fill is credited before its position is opened.
`PaperBacked` says what the ledger still owes or is owed in between: the shares
that are credited and not yet in a position (`Pending`) on one side, the shares of
the sale that are debited and still in it (`Debited`) on the other. `SharesHeld`
says that an evaluated position still has the shares that were read from it. The sums over the orders in flight are
`SumFunctionOnSet` of the community modules. SumTheorems says what it computes:
none is zero, one element more is one summand more, whatever the order of the
fold, and a change of one summand changes the sum by as much. Its induction over
the subsets of a finite set is an argument by a least counterexample, for which
the library's theorem of the minimal element of a well-founded set suffices.
`OrderSums` applies it to each access of an order; `CashConserved` then follows
access by access. `AccountImplemented` maps the deduction of an order to `Buy`
(`OrderImplements`, with the offer it came from: `OrderOffered`), the credit of a
sale to `Sell` (`SaleImplements`, `SaleOffered`), and every other access to a
stutter (`AccountStutters`).

The gate. `Rights` is a cardinality and two flags; each step moves one right
between the armed flag, the handler and a trade, or drops one (`RightsTrade`,
`RightsBinance`), and only step j adds one (`RightsRollover`). `GateImplemented`
adds the phase: `RolloverLock` makes the one active rollover the only one whose
program counter `Phase` depends on, and the market it publishes is not older
because of `MarketInv`.

The prices. `IInv` is `TypeOK` with `WithinCeiling` (a trigger that is not vetoed
was set at an ask whose entry price is within the ceiling; `EntryPriceMonotone`
carries it to any ask that is no higher, and so to `PaysAtMostMax`), `OneOrder` (an order is
under way only while the sniper is disarmed, so that the shots stay within their
bound) and `PnlAccounts`. `TypeOK` needs that no order exceeds the bankroll
(`OrderFact`) although its size is computed from the effective ask and its value
from the rounded price. The assumptions are `ConfigAssumption` (what `load`
enforces), `TradeAssumption` (the shape of books and momenta) and
`EscalationAssumption`: the escalated threshold is within 0 and the veto for as
many shots as are counted. Exponentiation has no meaning for the provers; TLC
evaluates the assumption for the run's constants.

`NoInstantBailout` is not a fact of every configuration that `load` accepts. What it
takes is `EntryScreens`, eight inequalities that the default values just meet
(MCTradePrices assumes them, so that the run evaluates them). Then a round vetoes
every price above four times the bid (`EntryCovered`), `ScreenInv` carries that from
the trigger to the order and, over any number of averaged fills, to the position
(`FillScreened`), and at a quarter of the average price holding is still worth 25
points until two minutes before the end (`WorthHolding`).

The start. `CredentialsInv` says where main may be when a task or a request runs,
and so carries `LiveNeedsCredentials` across a signal at any moment. `MarketInv`
follows a market from the fetch through its two stores: only main sets an expiry
without a market, and has none when it does; a rollover's window ends after
the expiry that it has seen pass, so that a market is replaced by a later one
before its expiry is; and a right is taken only where there is a market, so that
whoever gives one back, at whatever moment, arms with one. What a fetch publishes is `TokensAsNamed`: two names
are at different places, because the texts that a list keeps move up in their
order (`PlacesDiffer`), and at their own places when none is lost
(`PlaceOfText`). It rests on `AnswerAssumption`, what the Gamma API promises of an
event and the code does not check: no id is listed twice, and names that go one
to one with the ids are in the ids' order. `DelayInv` compares the last wait with
the attempts; `BackoffDelay` is monotone (`BackoffDelayFact`; the powers of two are
a table, since the provers know no exponentiation).

Every safety invariant and action property of the passing runs, and both
refinements, are theorems. Only model-checked are the liveness properties, which
rest on ENABLED and are out of the prover's reach.

## 5. Not modelled, and the plan

Signing, HTTP headers and key derivation are functions on bytes; the text of the
CSV log is output only; error types carry texts. SniperBrain is not started by
`main`, and `get_token_balance` has no caller. Prices finer than a cent, `f64`
rounding and values of the configuration that are not whole in their unit are
outside the integers of EvModel; in its units every formula is exact but the size
of an order and the momentum that is required, which are rounded as the code
truncates and, for a momentum, up to the next cent.

What is left, in order:

1. A passing run of SniperBot in which orders fill, with a coarser SituationRoom.
2. The interleaving of TradePrices' second read of the cost basis
   (`executor.rs:1220`) with a fill.

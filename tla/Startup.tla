-------------------------------- MODULE Startup --------------------------------
(***************************************************************************)
(* main (src/src/main.rs): the configuration, the first market, the         *)
(* executor and its credentials, the tasks and the shutdown, with the       *)
(* connection that the rollovers depend on.  update_market serves main and *)
(* the rollovers; a rollover is RolloverTask's in detail, here it is its    *)
(* request and what it publishes.  Ticks and orders, BinanceStream's and    *)
(* TriggerBuy's in detail, take the sniper's right to fire and give it back.*)
(***************************************************************************)
EXTENDS MarketFetcher, Reconnect

CONSTANTS
  Answers,     \* what the Gamma API may answer
  MaxWall,     \* bound: the clock, once there is a market
  MaxOrders    \* bound: the rights to fire that are taken at a time

ASSUME StartupAssumption ==
  {Failed, Missing} \subseteq Answers /\ MaxWall \in Nat /\ MaxOrders \in Nat

(* What the Gamma API promises of an event, and no code checks: no token is *)
(* listed twice, and names and ids that go one to one are in one order (an  *)
(* id is named for the outcome that it pays).                               *)
IsEvent(answer) ==
  /\ answer = Event(answer.form, answer.ids, answer.outcomes, answer.encoded)
  /\ answer.ids \in Seq(STRING) /\ answer.outcomes \in Seq(STRING)
  /\ answer.encoded \in BOOLEAN
  /\ \A j, k \in DOMAIN answer.ids : answer.ids[j] = answer.ids[k] => j = k
  /\ /\ Len(answer.outcomes) = Len(answer.ids)
     /\ \A k \in DOMAIN answer.outcomes : IsText(answer.outcomes[k])
     => answer.outcomes = answer.ids

ASSUME AnswerAssumption ==
  \A answer \in Answers \ {Failed, Missing} : IsEvent(answer)

Tasks == {"situation_room", "polymarket", "binance", "position_manager"}

NoMarket  == [kind |-> "none"]
NoRequest == [kind |-> "none"]

VARIABLES
  pc,              \* main's next step
  env,             \* the environment: [paper, key, asset, values]
  wall,
  request,         \* the update_market in progress, and what becomes of it:
  fetched,         \* the MarketInfo that it has yet to publish
  market, market_expiry, is_armed,
  in_flight,       \* rights to fire that handlers, orders and debounces hold
  wallet, l2_creds,   \* has the executor got them?
  tasks               \* the running ones

mainVars   == <<pc, env>>
sniperVars == <<is_armed, in_flight>>
marketVars == <<market, market_expiry, sniperVars>>
authVars   == <<wallet, l2_creds>>
fetchVars  == <<request, fetched>>
vars == <<mainVars, wall, fetchVars, marketVars, authVars, tasks, connVars>>

Environments ==
  [paper : BOOLEAN, key : {"none", "bad", "good"}, asset : Assets,
   values : {"in range", "out of range", "unparsable"}]

Init ==
  /\ pc = "config" /\ env \in Environments
  /\ wall = 0
  /\ request = NoRequest /\ fetched = NoMarket
  /\ market = NoMarket /\ market_expiry = 0
  /\ is_armed = FALSE /\ in_flight = 0
  /\ wallet = FALSE /\ l2_creds = FALSE
  /\ tasks = {}
  /\ ConnInit

(* The host's clock. *)
Clock ==
  /\ wall < MaxWall \/ (market = NoMarket /\ wall < market_expiry)
  /\ wall' = wall + 1
  /\ UNCHANGED <<mainVars, fetchVars, marketVars, authVars, tasks, connVars>>
-----------------------------------------------------------------------------
(* update_market picks the window by the clock and asks for it.            *)
Request(by) ==
  [kind |-> "update", by |-> by, expiry |-> WindowEnd(wall), step |-> "primary"]

(* Config::load: a value that cannot be parsed, is not finite or is out of  *)
(* range, and a live mode without a key, are errors.                       *)
Loads(e) ==
  /\ e.values = "in range"
  /\ e.paper \/ e.key # "none"

(* The first use of CONFIG panics, or main goes on to the first market.     *)
LoadConfig ==
  /\ pc = "config"
  /\ IF Loads(env)
     THEN /\ pc' = "market"
          /\ request' = Request("main")
     ELSE pc' = "exited" /\ UNCHANGED request
  /\ UNCHANGED <<env, wall, fetched, marketVars, authVars, tasks, connVars>>

(* ClobExecutor::new derives the wallet of a key of 32 bytes. *)
NewExecutor ==
  /\ pc = "executor"
  /\ wallet' = (env.key = "good")
  /\ pc' = IF env.paper THEN "spawn" ELSE "auth"
  /\ UNCHANGED <<env, wall, fetchVars, marketVars, l2_creds, tasks, connVars>>

(* init_live_auth and derive_l2_creds: without a wallet, an answer of 200   *)
(* and all three credentials in it, main exits.                            *)
AuthSucceeds ==
  /\ pc = "auth" /\ wallet
  /\ l2_creds' = TRUE
  /\ pc' = "spawn"
  /\ UNCHANGED <<env, wall, fetchVars, marketVars, wallet, tasks, connVars>>

(* Mutant: a failure is logged and main goes on. *)
AuthFailsGoesOn ==
  /\ pc = "auth"
  /\ pc' = "spawn"
  /\ UNCHANGED <<env, wall, fetchVars, marketVars, authVars, tasks, connVars>>

AuthFails ==
  /\ pc = "auth"
  /\ pc' = "exited"
  /\ UNCHANGED <<env, wall, fetchVars, marketVars, authVars, tasks, connVars>>

(* The four tokio::spawn, in their order; none waits for another. *)
SpawnTasks ==
  /\ pc = "spawn"
  /\ \/ tasks = {} /\ tasks' = {"situation_room"} /\ UNCHANGED <<pc, connVars>>
     \/ /\ tasks = {"situation_room"} /\ tasks' = tasks \cup {"polymarket"}
        /\ UNCHANGED <<pc, connVars>>
     \/ /\ "polymarket" \in tasks /\ "binance" \notin tasks
        /\ tasks' = tasks \cup {"binance"} /\ Start /\ UNCHANGED pc
     \/ /\ "binance" \in tasks
        /\ tasks' = Tasks /\ pc' = "running" /\ UNCHANGED connVars
  /\ UNCHANGED <<env, wall, fetchVars, marketVars, authVars>>

(* SIGINT or SIGTERM ends the process, from anywhere: the tasks are        *)
(* dropped with the runtime, whatever they are doing.                      *)
Shutdown ==
  /\ pc # "exited"
  /\ pc' = "exited"
  /\ tasks' = {} /\ request' = NoRequest /\ fetched' = NoMarket
  /\ conn' = "off" /\ in_flight' = 0
  /\ UNCHANGED <<env, wall, market, market_expiry, is_armed, authVars, attempt, delay>>
-----------------------------------------------------------------------------
(* update_market, when an answer has arrived: another request with the      *)
(* other name, an error or a market.                                       *)
AskFallback ==
  /\ request # NoRequest /\ request.step = "primary"
  /\ \E answer \in Answers : AsksFallback(answer, env.asset)
  /\ request' = [request EXCEPT !.step = "fallback"]
  /\ UNCHANGED <<mainVars, wall, fetched, marketVars, authVars, tasks, connVars>>

Resolves(answer) ==
  /\ request # NoRequest /\ request.step \in {"primary", "fallback"}
  /\ request.step = "primary" => ~AsksFallback(answer, env.asset)

(* Whoever asked goes on, a rollover with its end. *)
RequestDone ==
  /\ request' = NoRequest
  /\ pc' = IF request.by = "main" THEN "executor" ELSE pc
  /\ UNCHANGED <<env, wall, fetched, in_flight, authVars, tasks, connVars>>

FetchSucceeds ==
  /\ \E answer \in Answers :
       /\ Resolves(answer)
       /\ Resolved(answer, request.expiry) # Failed
       /\ fetched' = Resolved(answer, request.expiry)
  /\ request' = [request EXCEPT !.step = "market"]
  /\ UNCHANGED <<mainVars, wall, marketVars, authVars, tasks, connVars>>

(* publish_market stores the market, then its expiry. *)
PublishMarket ==
  /\ request # NoRequest /\ request.step = "market"
  /\ market' = fetched /\ fetched' = NoMarket
  /\ request' = [request EXCEPT !.step = "expiry"]
  /\ UNCHANGED <<mainVars, wall, market_expiry, sniperVars, authVars, tasks, connVars>>

PublishExpiry ==
  /\ request # NoRequest /\ request.step = "expiry"
  /\ market_expiry' = request.expiry
  /\ request' = [request EXCEPT !.step = "arm"]
  /\ UNCHANGED <<mainVars, wall, fetched, market, sniperVars, authVars, tasks, connVars>>

Arm ==
  /\ request # NoRequest /\ request.step = "arm"
  /\ is_armed' = TRUE
  /\ RequestDone
  /\ UNCHANGED <<market, market_expiry>>

(* Mutant: a failed start sets no expiry. *)
FetchFailsSilently ==
  /\ \E answer \in Answers :
       Resolves(answer) /\ Resolved(answer, request.expiry) = Failed
  /\ RequestDone
  /\ UNCHANGED <<market, market_expiry, is_armed>>

(* A failed start waits for the next boundary, a failed rollover for the    *)
(* next tick.                                                              *)
FetchFails ==
  /\ \E answer \in Answers :
       Resolves(answer) /\ Resolved(answer, request.expiry) = Failed
  /\ RequestDone
  /\ market_expiry' = IF request.by = "main" THEN WindowEnd(wall) ELSE market_expiry
  /\ UNCHANGED <<market, is_armed>>

(* A tick of an open connection, by the expiry of the market.  An expiry of *)
(* 0 is never over.                                                        *)
TickArrives == "binance" \in tasks /\ conn = "open" /\ market_expiry > 0

Rollover ==
  /\ TickArrives /\ wall >= market_expiry
  /\ request = NoRequest
  /\ is_armed' = FALSE
  /\ request' = Request("rollover")
  /\ UNCHANGED <<mainVars, wall, fetched, market, market_expiry, in_flight, authVars,
                 tasks, connVars>>

(* A tick whose momentum crosses its trigger disarms the sniper, whether or *)
(* not an order comes of it.                                               *)
TakeRight ==
  /\ TickArrives /\ wall < market_expiry
  /\ is_armed /\ in_flight < MaxOrders
  /\ is_armed' = FALSE /\ in_flight' = in_flight + 1
  /\ UNCHANGED <<mainVars, wall, fetchVars, market, market_expiry, authVars, tasks,
                 connVars>>

(* A debounce ends, or a tick finds no snapshot: the sniper is armed, also   *)
(* in the middle of a rollover.                                            *)
GiveBack ==
  /\ in_flight > 0
  /\ is_armed' = TRUE /\ in_flight' = in_flight - 1
  /\ UNCHANGED <<mainVars, wall, fetchVars, market, market_expiry, authVars, tasks,
                 connVars>>

Connection ==
  /\ ConnNext
  /\ UNCHANGED <<mainVars, wall, fetchVars, marketVars, authVars, tasks>>

Next ==
  \/ Clock \/ LoadConfig \/ NewExecutor \/ AuthSucceeds \/ AuthFails
  \/ SpawnTasks \/ Shutdown
  \/ AskFallback \/ FetchSucceeds \/ FetchFails
  \/ PublishMarket \/ PublishExpiry \/ Arm
  \/ Rollover \/ TakeRight \/ GiveBack \/ Connection

Spec == Init /\ [][Next]_vars

(* The process runs, the clock goes on, the exchange accepts a connection   *)
(* and sends a tick and the Gamma API knows the market, each again and      *)
(* again; an order is answered and its debounce ends.                      *)
Answered == AskFallback \/ FetchSucceeds \/ FetchFails

Fairness ==
  /\ WF_vars(Clock)
  /\ WF_vars(LoadConfig) /\ WF_vars(NewExecutor) /\ WF_vars(AuthSucceeds \/ AuthFails)
  /\ WF_vars(SpawnTasks)
  /\ WF_vars(Answered) /\ SF_vars(FetchSucceeds)
  /\ WF_vars(PublishMarket \/ PublishExpiry \/ Arm) /\ WF_vars(GiveBack)
  /\ WF_vars(Connection /\ BackoffOver) /\ SF_vars(Connection /\ Connected)
  /\ SF_vars(Rollover)

FairSpec == Spec /\ Fairness
-----------------------------------------------------------------------------
TypeOK ==
  /\ pc \in {"config", "market", "executor", "auth", "spawn", "running", "exited"}
  /\ env \in Environments /\ wall \in Nat
  /\ request = NoRequest \/ request \in
       [kind : {"update"}, by : {"main", "rollover"}, expiry : Nat,
        step : {"primary", "fallback", "market", "expiry", "arm"}]
  /\ market = NoMarket \/ market.kind = "market"
  /\ fetched = NoMarket \/ fetched.kind = "market"
  /\ market_expiry \in Nat /\ in_flight \in 0 .. MaxOrders
  /\ {is_armed, wallet, l2_creds} \subseteq BOOLEAN
  /\ tasks \subseteq Tasks
  /\ ConnTypeOK

(* No live task runs without the wallet and the credentials that its orders *)
(* need, whatever the key is and whatever the exchange answered.            *)
LiveNeedsCredentials == tasks # {} /\ ~env.paper => wallet /\ l2_creds

(* The names of the outcomes, where they are all text and there is an id    *)
(* for each, say which token pays for which direction.                     *)
Named(event) ==
  /\ Len(event.outcomes) = Len(event.ids)
  /\ \A k \in DOMAIN event.outcomes : IsText(event.outcomes[k])
  /\ \E k \in DOMAIN event.outcomes : event.outcomes[k] \in {"Up", "Yes"}
  /\ \E k \in DOMAIN event.outcomes : event.outcomes[k] \in {"Down", "No"}

(* Whenever the sniper is armed, by a start, by a rollover or by the end of *)
(* an order of any window, there is a market, it ends no earlier than the   *)
(* expiry by which ticks are let through, and it has two tokens that pay as *)
(* the outcomes' names say, in whatever order they are listed.             *)
ArmedMarketIsWhole ==
  is_armed =>
    /\ market # NoMarket /\ market_expiry <= market.expiry
    /\ market.tokens[1] # market.tokens[2]
    /\ Named(market.event) => /\ market.tokens[1] \in {"Up", "Yes"}
                              /\ market.tokens[2] \in {"Down", "No"}

(* In an outage each wait is no shorter than the one before, from half a    *)
(* second to half a minute: only a stream that ended well starts over.      *)
BackoffGrows ==
  [][conn' = "backoff" /\ conn # "backoff"
       => /\ delay' \in InitialDelay .. MaxDelay
          /\ attempt > 0 => delay' >= delay]_vars

(* A bot that runs unarmed is armed, or exits, sooner or later: also when   *)
(* its first fetch failed, and across outages of the exchange and of the    *)
(* Gamma API.                                                              *)
RecoversFromFailedStart == tasks # {} /\ ~is_armed ~> is_armed \/ pc = "exited"
=============================================================================

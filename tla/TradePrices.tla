------------------------------ MODULE TradePrices ------------------------------
(***************************************************************************)
(* The life of a paper position in one direction of one market window:     *)
(* quotes, triggers, a tick that crosses them, the order, the fill and the *)
(* exit.  It composes what SituationRoom, the Binance handler, trigger_buy, *)
(* the executor and the position manager decide about PRICES.  Each handler *)
(* is one step here; the interleavings within them are SniperBot's and      *)
(* TradingDesk's.                                                          *)
(***************************************************************************)
EXTENDS EvModel

CONSTANTS
  Books,       \* the quotes the feed may show: [ask, bid, opposing], 0 for none
  Deltas,      \* the deviations from the EMA that a tick may bring
  Moments,     \* the times at which something happens, from the window's start
  Window,      \* its length
  MaxShots     \* bound: the fills

ASSUME TradeAssumption ==
  /\ Books \subseteq [ask : 0 .. 100, bid : 0 .. 100, opposing : 0 .. 99]
  /\ Books # {}
  /\ Deltas \subseteq 0 .. Veto - 1
  /\ Moments \subseteq Nat
  /\ Window \in Nat
  /\ MaxShots \in Nat

(* MaxShots is small enough for the threshold to escalate without reaching *)
(* the veto.                                                               *)
ASSUME EscalationAssumption == \A n \in 0 .. MaxShots : Escalated(n) \in 0 .. Veto

NoQuotes == [ask |-> 0, bid |-> 0, opposing |-> 0]
None == [kind |-> "none"]
Flat == [spent |-> 0, shares |-> 0, since |-> 0, bid |-> 0, informed |-> TRUE]

VARIABLES
  now, book,
  trigger,      \* [needs, book]: the momentum needed, and the quotes it came from
  shots, armed,
  order,        \* the TriggerSnapshot on its way through trigger_buy
  bankroll,
  position,     \* the open position; Flat when there is none
  session_pnl,
  forfeited     \* auxiliary: what redeemed positions had cost

vars == <<now, book, trigger, shots, armed, order, bankroll, position,
          session_pnl, forfeited>>
market == <<now, book>>
money  == <<bankroll, position, session_pnl, forfeited>>
sniper == <<shots, armed, order>>

TimeLeft == Most(Window - now, 0)

Triggers ==
  [needs |-> Merged(Escalated(shots), RequiredMomentum(book.ask, book.bid, TimeLeft)),
   book  |-> book]

(* A window starts with an empty book and with vetoed triggers, so that    *)
(* nothing fires before the first round.                                   *)
Init ==
  /\ now = 0 /\ book = NoQuotes
  /\ trigger = [needs |-> Veto, book |-> NoQuotes]
  /\ shots = 0 /\ armed = TRUE /\ order = None
  /\ bankroll = StartingBankroll /\ position = Flat
  /\ session_pnl = 0 /\ forfeited = 0
-----------------------------------------------------------------------------
Wait ==
  /\ \E t \in Moments : t > now /\ now' = t
  /\ UNCHANGED <<book, trigger, sniper, money>>

Feed ==
  /\ \E b \in Books : book' = b
  /\ UNCHANGED <<now, trigger, sniper, money>>

(* A round of the SituationRoom, from the real ask. *)
Round ==
  /\ trigger' = Triggers
  /\ UNCHANGED <<market, sniper, money>>

(* A tick with less than 15 seconds left opens nothing.  The order is       *)
(* priced from the effective ask.  A tick whose snapshot is refused arms    *)
(* again.                                                                  *)
Fire(delta) ==
  /\ TimeLeft >= 15
  /\ armed /\ delta >= trigger.needs
  /\ EffectiveAsk(book) > 0 /\ ~SpreadTooWide(book)
  /\ shots < MaxShots
  /\ armed' = FALSE
  /\ order' = [kind |-> "order", ask |-> EffectiveAsk(book),
               max |-> EntryPrice(EffectiveAsk(book)), bid |-> book.bid,
               informed |-> trigger.book = book]
  /\ UNCHANGED <<market, trigger, shots, money>>

(* The checks of trigger_buy and execute_trade, then the order's value.     *)
Accepted ==
  LET price == BuyPrice(order.max)
      value == price * BuySize(bankroll, order.ask)
  IN  /\ order.max > Pips(1) /\ price > 1
      /\ BuySize(bankroll, order.ask) >= 1
      /\ value >= 100 /\ value <= bankroll

(* Mutant: a further fill replaces the cost instead of adding to it. *)
AfterFillLastCost(price, size) ==
  [spent    |-> price * size,
   shares   |-> position.shares + size,
   since    |-> IF position.shares = 0 THEN now ELSE position.since,
   bid      |-> Most(position.bid, order.bid),
   informed |-> position.informed /\ order.informed]

(* Position::new or add_fill.  The bid is the best one it was bought at.    *)
AfterFill(price, size) ==
  [spent    |-> position.spent + price * size,
   shares   |-> position.shares + size,
   since    |-> IF position.shares = 0 THEN now ELSE position.since,
   bid      |-> Most(position.bid, order.bid),
   informed |-> position.informed /\ order.informed]

(* execute_trade and execute_paper, and trigger_buy's escalation. *)
Fill ==
  /\ order # None /\ Accepted
  /\ LET price == BuyPrice(order.max)
         size  == BuySize(bankroll, order.ask)
     IN  /\ bankroll' = bankroll - price * size
         /\ position' = AfterFill(price, size)
  /\ shots' = shots + 1
  /\ order' = None
  /\ UNCHANGED <<market, trigger, armed, session_pnl, forfeited>>

Refuse ==
  /\ order # None /\ ~Accepted
  /\ order' = None
  /\ UNCHANGED <<market, trigger, shots, armed, money>>

(* rearm_after_debounce. *)
Rearm ==
  /\ ~armed /\ order = None
  /\ armed' = TRUE
  /\ UNCHANGED <<market, trigger, shots, order, money>>
-----------------------------------------------------------------------------
(* evaluate_position skips a position without a bid, expired or not.        *)
Evaluable == position.shares > 0 /\ book.bid > 0

(* A paper position is removed at its expiry; nothing is paid for it.       *)
Redeem ==
  /\ Evaluable /\ now >= Window
  /\ forfeited' = forfeited + position.spent
  /\ position' = Flat
  /\ UNCHANGED <<market, trigger, sniper, bankroll, session_pnl>>

(* The sell cooldown has always elapsed: nothing sets last_sell_time.       *)
MayExit == Evaluable /\ now < Window /\ ~SafeToHold(book.bid, TimeLeft)

Hopeless  == NotWorthHolding(position, book.bid, TimeLeft)
Impatient == /\ now - position.since >= ImpatienceSec
             /\ Worth(position, book.bid) >= ImpatienceTarget(position)
InProfit  == Worth(position, book.bid) >= TakeProfitTarget(position)

(* execute_sell in paper mode. *)
Sell ==
  LET proceeds == book.bid * position.shares
  IN  /\ bankroll' = bankroll + proceeds
      /\ session_pnl' = session_pnl + proceeds - position.spent
      /\ position' = Flat
      /\ UNCHANGED <<market, trigger, sniper, forfeited>>

Bailout       == MayExit /\ Hopeless /\ Sell
ImpatienceTp  == MayExit /\ ~Hopeless /\ Impatient /\ Sell
TakeProfit    == MayExit /\ ~Hopeless /\ ~Impatient /\ InProfit /\ Sell

Next ==
  \/ Wait \/ Feed \/ Round \/ (\E delta \in Deltas : Fire(delta))
  \/ Fill \/ Refuse \/ Rearm
  \/ Redeem \/ Bailout \/ ImpatienceTp \/ TakeProfit

Spec == Init /\ [][Next]_vars
-----------------------------------------------------------------------------
TypeOK ==
  /\ now \in Nat /\ book \in Books \cup {NoQuotes}
  /\ trigger \in [needs : 0 .. Veto, book : Books \cup {NoQuotes}]
  /\ shots \in 0 .. MaxShots /\ armed \in BOOLEAN
  /\ order = None \/ order \in [kind : {"order"}, ask : 1 .. 100, max : 1 .. Pips(99),
                                bid : 0 .. 100, informed : BOOLEAN]
  /\ {bankroll, forfeited, position.spent, position.shares, position.since} \subseteq Nat
  /\ session_pnl \in Int

(* The money is where the accounts say: the bankroll, what the open         *)
(* position cost and what redeemed ones cost come to the starting bankroll  *)
(* and the session's profit, across fills that are averaged in, sales at    *)
(* any bid and redemptions.                                                *)
PnlAccounts ==
  bankroll + position.spent + forfeited = StartingBankroll + session_pnl

(* An order is above MAX_BUY_PRICE only when the ask that prices it, real   *)
(* or synthetic, is above the real ask of the round that set its trigger:   *)
(* the ceiling is tested when the triggers are set, with the slippage, and  *)
(* never again when the order is priced.                                   *)
PaysAtMostMax ==
  [][\A delta \in Deltas :
       Fire(delta) /\ EffectiveAsk(book) <= trigger.book.ask
         => order'.max <= Pips(MaxBuyPrice)]_vars

(* A position whose orders were informed by up-to-date triggers is bailed   *)
(* out only when its bid has fallen below the one it was bought at, or in   *)
(* the last two minutes: the penalties of the entry keep a trade away whose *)
(* spread alone would make the exit force it out again.                     *)
NoInstantBailout ==
  [][Bailout /\ position.informed
       => book.bid < position.bid \/ TimeLeft < 120]_vars

(* What that takes of the configuration, and the default values just give: *)
(* the bonus never covers more than thirty points, a spread of more than    *)
(* fifteen cents, or of five below twenty, costs more, a cheaper token or   *)
(* one without bids does too, and a score of 25 bails out.                 *)
EntryScreens ==
  /\ BailoutScore <= 25
  /\ BaseScore + MaxMomentumBonus - MinScore <= 30
  /\ MaxSpread <= 5
  /\ NoBidsPenalty > 30
  /\ DeathTrap1 >= 10 /\ DeathTrapPenalty1 > 30
  /\ DeathTrap2 >= 20 /\ DeathTrapPenalty2 >= 20

(* A sale that takes a profit makes one, however the fills were averaged,   *)
(* unless the position cost more than the exit ceiling.                     *)
ProfitExitsProfit ==
  [][ImpatienceTp \/ TakeProfit
       => \/ session_pnl' >= session_pnl
          \/ position.spent > ExitCeiling * position.shares]_vars
=============================================================================

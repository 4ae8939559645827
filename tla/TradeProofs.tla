------------------------------ MODULE TradeProofs ------------------------------
(***************************************************************************)
(* Proofs about TradePrices: its types, where the money is, the ceiling on  *)
(* the price of a buy and the profit of a sale, for every configuration    *)
(* that Config::load accepts and whatever quotes the feed shows, and when  *)
(* a position may be bailed out, for those with penalties enough.          *)
(***************************************************************************)
EXTENDS TradePrices, TLAPS

LEMMA ProductNat ==
  ASSUME NEW a \in Nat, NEW b \in Nat
  PROVE  a * b \in Nat
OBVIOUS

LEMMA DivNat ==
  ASSUME NEW a \in Nat, NEW b \in Nat \ {0}
  PROVE  a \div b \in Nat
OBVIOUS

LEMMA ProductMonotone ==
  ASSUME NEW a \in Nat, NEW b \in Nat, NEW c \in Nat, a <= b
  PROVE  a * c <= b * c
<1>1. b * c = a * c + (b - a) * c
  OBVIOUS
<1>2. (b - a) * c \in Nat
  BY ProductNat
<1> QED
  BY <1>1, <1>2, ProductNat
-----------------------------------------------------------------------------
Quotes == [ask : 0 .. 100, bid : 0 .. 100, opposing : 0 .. 99]

LEMMA BookQuotes ==
  ASSUME NEW b \in Books \cup {NoQuotes}
  PROVE  b \in Quotes
BY TradeAssumption, SMT DEF Quotes, NoQuotes

(* The price of an order: at most 99 cents, and the dearer the ask.        *)
LEMMA EntryPriceFact ==
  ASSUME NEW a \in 0 .. 100
  PROVE  /\ EntryPrice(a) \in 0 .. Pips(99)
         /\ a > 0 => EntryPrice(a) > 0
<1>1. SlippagePct \in 0 .. 100
  BY ConfigAssumption, SMT DEF Validated
<1>2. a * (100 + SlippagePct) \in Nat
  BY <1>1, ProductNat
<1>3. a > 0 => 1 * (100 + SlippagePct) <= a * (100 + SlippagePct)
  BY <1>1, ProductMonotone
<1> QED
  BY <1>1, <1>2, <1>3, SMT DEF EntryPrice, Least, Pips

LEMMA EntryPriceMonotone ==
  ASSUME NEW a \in 0 .. 100, NEW b \in 0 .. 100, a <= b
  PROVE  EntryPrice(a) <= EntryPrice(b)
<1>1. SlippagePct \in 0 .. 100
  BY ConfigAssumption, SMT DEF Validated
<1>2. /\ a * (100 + SlippagePct) \in Nat /\ b * (100 + SlippagePct) \in Nat
      /\ a * (100 + SlippagePct) <= b * (100 + SlippagePct)
  BY <1>1, ProductNat, ProductMonotone
<1> QED
  BY <1>2, SMT DEF EntryPrice, Least, Pips

(* The effective ask is an ask, and no dearer than the real one.           *)
LEMMA EffectiveAskFact ==
  ASSUME NEW b \in Quotes
  PROVE  /\ EffectiveAsk(b) \in 0 .. 100
         /\ b.ask > 0 => EffectiveAsk(b) <= b.ask
<1> DEFINE asks == {b.ask} \cup (IF b.opposing > 0 THEN {100 - b.opposing} ELSE {})
<1>1. /\ b.ask \in 0 .. 100 /\ b.opposing \in 0 .. 99
      /\ asks \subseteq 0 .. 100 /\ b.ask \in asks
  BY DEF Quotes
<1>2. \A c \in asks : c = b.ask \/ (b.opposing > 0 /\ c = 100 - b.opposing)
  OBVIOUS
<1>3. b.opposing > 0 => 100 - b.opposing \in asks
  OBVIOUS
<1>4. EffectiveAsk(b) = IF asks = {0} THEN 0
                       ELSE CHOOSE a \in asks \ {0} : \A c \in asks \ {0} : a <= c
  BY DEF EffectiveAsk
<1> HIDE DEF asks
<1>5. CASE asks = {0}
  BY <1>1, <1>4, <1>5
<1>6. CASE asks # {0}
  <2>1. \E a \in asks \ {0} : \A c \in asks \ {0} : a <= c
    <3>1. CASE b.opposing > 0 /\ (b.ask = 0 \/ 100 - b.opposing <= b.ask)
      <4>1. 100 - b.opposing \in asks \ {0}
        BY <1>1, <1>3, <3>1
      <4>2. \A c \in asks \ {0} : 100 - b.opposing <= c
        BY <1>1, <1>2, <3>1
      <4> QED
        BY <4>1, <4>2
    <3>2. CASE b.ask > 0 /\ (b.opposing = 0 \/ b.ask < 100 - b.opposing)
      <4>1. b.ask \in asks \ {0}
        BY <1>1, <3>2
      <4>2. \A c \in asks \ {0} : b.ask <= c
        BY <1>1, <1>2, <3>2
      <4> QED
        BY <4>1, <4>2
    <3>3. PICK c \in asks : c # 0
      BY <1>1, <1>6
    <3>4. b.ask > 0 \/ b.opposing > 0
      BY <1>1, <1>2, <3>3
    <3>5. \/ b.opposing > 0 /\ (b.ask = 0 \/ 100 - b.opposing <= b.ask)
          \/ b.ask > 0 /\ (b.opposing = 0 \/ b.ask < 100 - b.opposing)
      <4>1. b.ask \in Nat /\ b.opposing \in Nat
        BY <1>1
      <4> QED
        BY <3>4, <4>1
    <3> QED
      BY <3>1, <3>2, <3>5
  <2>2. /\ EffectiveAsk(b) \in asks \ {0}
        /\ \A c \in asks \ {0} : EffectiveAsk(b) <= c
    BY <1>4, <1>6, <2>1
  <2>3. EffectiveAsk(b) \in 0 .. 100
    BY <1>1, <2>2
  <2>4. b.ask > 0 => b.ask \in asks \ {0}
    BY <1>1
  <2> QED
    BY <2>2, <2>3, <2>4
<1> QED
  BY <1>5, <1>6
-----------------------------------------------------------------------------
LEMMA QuotientBound ==
  ASSUME NEW a \in Nat, NEW b \in Nat \ {0}
  PROVE  a \div b <= a
OBVIOUS

LEMMA VetoFact == Veto \in Nat /\ Veto > 1010000
BY SMT DEF Veto

LEMMA NeededFact ==
  ASSUME NEW price \in Nat, NEW bid \in 0 .. 100, NEW left \in Nat
  PROVE  Needed(price, bid, left) \in Int
<1>1. TimePenalty(price, left) \in Int
  <2>1. /\ HighPrice \in Nat /\ TimeDanger \in Nat /\ TimeWarn \in Nat
        /\ TimeDangerPenalty \in Nat /\ TimeWarnPenalty \in Nat
    BY ConfigAssumption, SMT DEF Validated
  <2> QED
    BY <2>1 DEF TimePenalty, Pips, Fiftieths
<1>2. SpreadPenalty(price, bid) \in Int
  <2>1. MaxSpread \in Nat /\ NoBidsPenalty \in Nat
    BY ConfigAssumption, SMT DEF Validated
  <2>2. Most(price - Pips(bid), 0) \in Int
    BY DEF Most, Pips
  <2> DEFINE spread == Most(price - Pips(bid), 0)
  <2>3. SpreadPenalty(price, bid) \in {Fiftieths(NoBidsPenalty), spread, Fiftieths(10), 0}
    BY DEF SpreadPenalty
  <2>4. Fiftieths(NoBidsPenalty) \in Int /\ Fiftieths(10) \in Int
    BY <2>1 DEF Fiftieths
  <2> QED
    BY <2>2, <2>3, <2>4
<1>3. DeathTrapPenalty(price) \in Int
  <2>1. /\ DeathTrap1 \in Nat /\ DeathTrap2 \in Nat
        /\ DeathTrapPenalty1 \in Nat /\ DeathTrapPenalty2 \in Nat
    BY ConfigAssumption, SMT DEF Validated
  <2> QED
    BY <2>1 DEF DeathTrapPenalty, Pips, Fiftieths
<1>4. BaseScore \in Nat /\ MinScore \in Nat
  BY ConfigAssumption, SMT DEF Validated
<1> QED
  BY <1>1, <1>2, <1>3, <1>4 DEF Needed, Fiftieths

LEMMA MomentumForFact ==
  ASSUME NEW needed \in Int
  PROVE  MomentumFor(needed) \in 0 .. Veto
<1> DEFINE M == MomentumMultiplierPct
<1>1. M \in 0 .. 100 * 100 /\ MaxMomentumBonus \in 0 .. 100
  BY ConfigAssumption, SMT DEF Validated
<1>2. Veto \in Nat /\ Veto > 1010000
  BY VetoFact
<1>3. CASE needed <= 0 \/ needed > Fiftieths(MaxMomentumBonus) \/ M = 0
  BY <1>2, <1>3, SMT DEF MomentumFor
<1>4. CASE ~(needed <= 0 \/ needed > Fiftieths(MaxMomentumBonus) \/ M = 0)
  <2>1. MomentumFor(needed) = (200 * needed + M - 1) \div M
    BY <1>4 DEF MomentumFor
  <2> HIDE DEF M
  <2>2. M \in Nat \ {0} /\ M <= 10000 /\ needed \in Nat /\ needed <= 5000
    BY <1>1, <1>4, SMT DEF Fiftieths
  <2>3. 200 * needed + M - 1 \in Nat /\ 200 * needed + M - 1 <= 1010000
    BY <1>4, <2>2, SMT
  <2>4. /\ (200 * needed + M - 1) \div M \in Nat
        /\ (200 * needed + M - 1) \div M <= 200 * needed + M - 1
    BY <2>2, <2>3, DivNat, QuotientBound
  <2>5. MomentumFor(needed) \in Nat /\ MomentumFor(needed) <= 1010000
    BY <2>1, <2>3, <2>4, SMT
  <2> QED
    BY <1>2, <2>5, SMT
<1> QED
  BY <1>3, <1>4

(* A round of the SituationRoom vetoes the trigger, or the price that it    *)
(* saw is within the ceiling.                                              *)
LEMMA RequiredMomentumFact ==
  ASSUME NEW ask \in 0 .. 100, NEW bid \in 0 .. 100, NEW left \in Nat
  PROVE  /\ RequiredMomentum(ask, bid, left) \in 0 .. Veto
         /\ \/ RequiredMomentum(ask, bid, left) = Veto
            \/ ask > 0 /\ EntryPrice(ask) <= Pips(MaxBuyPrice)
<1>1. EntryPrice(ask) \in Nat /\ Pips(MaxBuyPrice) \in Nat
  <2>1. MaxBuyPrice \in Nat
    BY ConfigAssumption, SMT DEF Validated
  <2>2. EntryPrice(ask) \in 0 .. Pips(99)
    BY EntryPriceFact
  <2>3. Pips(MaxBuyPrice) \in Nat
    BY <2>1 DEF Pips
  <2> QED
    BY <2>2, <2>3
<1>2. MomentumFor(Needed(EntryPrice(ask), bid, left)) \in 0 .. Veto
  BY <1>1, NeededFact, MomentumForFact
<1>3. Veto \in 0 .. Veto
  BY VetoFact
<1>4. CASE ask = 0 \/ EntryPrice(ask) > Pips(MaxBuyPrice)
  BY <1>3, <1>4 DEF RequiredMomentum
<1>5. CASE ask # 0 /\ ~(EntryPrice(ask) > Pips(MaxBuyPrice))
  <2>1. ask > 0 /\ EntryPrice(ask) <= Pips(MaxBuyPrice)
    BY <1>1, <1>5
  <2> QED
    BY <1>2, <1>5, <2>1 DEF RequiredMomentum
<1> QED
  BY <1>4, <1>5
-----------------------------------------------------------------------------
(* The strengthening: a trigger that is not vetoed was set at a price       *)
(* within the ceiling.                                                     *)
WithinCeiling ==
  \/ trigger.needs = Veto
  \/ trigger.book.ask > 0 /\ EntryPrice(trigger.book.ask) <= Pips(MaxBuyPrice)

(* An order is under way only while the sniper is disarmed. *)
OneOrder == order # None => ~armed /\ shots < MaxShots

IInv == TypeOK /\ WithinCeiling /\ OneOrder /\ PnlAccounts

LEMMA InitInv == Init => IInv
<1> SUFFICES ASSUME Init PROVE IInv
  OBVIOUS
<1>1. Veto \in 0 .. Veto
  BY VetoFact
<1>2. trigger \in [needs : 0 .. Veto, book : Books \cup {NoQuotes}] /\ trigger.needs = Veto
  BY <1>1 DEF Init
<1>3. shots \in 0 .. MaxShots
  BY TradeAssumption, SMT DEF Init
<1>4. StartingBankroll \in Nat
  BY ConfigAssumption, SMT DEF Validated
<1>5. /\ now \in Nat /\ book \in Books \cup {NoQuotes} /\ armed \in BOOLEAN /\ order = None
      /\ session_pnl \in Int /\ PnlAccounts
      /\ {bankroll, forfeited, position.spent, position.shares, position.since} \subseteq Nat
  BY <1>4 DEF Init, Flat, PnlAccounts
<1> QED
  BY <1>2, <1>3, <1>5 DEF IInv, TypeOK, WithinCeiling, OneOrder

LEMMA RoundInv ==
  ASSUME TypeOK, Round
  PROVE  /\ trigger' \in [needs : 0 .. Veto, book : Books \cup {NoQuotes}]
         /\ WithinCeiling'
<1>1. book \in Quotes
  BY BookQuotes DEF TypeOK
<1>2. book.ask \in 0 .. 100 /\ book.bid \in 0 .. 100
  BY <1>1 DEF Quotes
<1>3. TimeLeft \in Nat
  <2>1. Window \in Nat
    BY TradeAssumption, SMT
  <2> QED
    BY <2>1 DEF TypeOK, TimeLeft, Most
<1> DEFINE r == RequiredMomentum(book.ask, book.bid, TimeLeft)
<1>4. r \in 0 .. Veto
  BY <1>2, <1>3, RequiredMomentumFact
<1>5. r = Veto \/ (book.ask > 0 /\ EntryPrice(book.ask) <= Pips(MaxBuyPrice))
  BY <1>2, <1>3, RequiredMomentumFact
<1>6. Escalated(shots) \in 0 .. Veto
  BY EscalationAssumption DEF TypeOK
<1>7. trigger' = [needs |-> Merged(Escalated(shots), r), book |-> book]
  BY DEF Round, Triggers
<1> HIDE DEF r
<1>8. Merged(Escalated(shots), r) \in 0 .. Veto /\ (r = Veto => Merged(Escalated(shots), r) = Veto)
  BY <1>4, <1>6, VetoFact DEF Merged, Most
<1> QED
  BY <1>5, <1>7, <1>8 DEF TypeOK, WithinCeiling

(* The order that a tick fires, and what its price may come to.            *)
LEMMA FireOrder ==
  ASSUME TypeOK, WithinCeiling, NEW delta \in Deltas, Fire(delta)
  PROVE  /\ order' \in [kind : {"order"}, ask : 1 .. 100, max : 1 .. Pips(99),
                        bid : 0 .. 100, informed : BOOLEAN]
         /\ EffectiveAsk(book) <= trigger.book.ask
              => order'.max <= Pips(MaxBuyPrice)
<1> DEFINE ask == EffectiveAsk(book)
<1>1. /\ book \in Quotes /\ trigger.book \in Quotes
      /\ trigger.needs \in 0 .. Veto
  BY BookQuotes DEF TypeOK
<1>2. /\ book.ask \in 0 .. 100 /\ trigger.book.ask \in 0 .. 100 /\ book.bid \in 0 .. 100
  BY <1>1 DEF Quotes
<1>3. ask \in 1 .. 100 /\ (book.ask > 0 => ask <= book.ask)
  <2>1. ask \in 0 .. 100 /\ (book.ask > 0 => ask <= book.ask)
    BY <1>1, EffectiveAskFact
  <2>2. ask > 0
    BY DEF Fire
  <2> QED
    BY <2>1, <2>2
<1> HIDE DEF ask
<1>4. EntryPrice(ask) \in 0 .. Pips(99) /\ EntryPrice(ask) > 0
  BY <1>3, EntryPriceFact
<1>5. EntryPrice(ask) \in 1 .. Pips(99)
  BY <1>4 DEF Pips
<1>6. order' = [kind |-> "order", ask |-> ask, max |-> EntryPrice(ask), bid |-> book.bid,
                informed |-> trigger.book = book]
  BY DEF Fire, ask
<1>7. ASSUME ask <= trigger.book.ask
      PROVE  EntryPrice(ask) <= Pips(MaxBuyPrice)
  <2>1. delta < Veto /\ delta \in Nat
    BY TradeAssumption, VetoFact, SMT
  <2>2. delta >= trigger.needs
    BY DEF Fire
  <2>3. trigger.needs # Veto
    BY <1>1, <2>1, <2>2, VetoFact
  <2>4. EntryPrice(trigger.book.ask) <= Pips(MaxBuyPrice)
    BY <2>3 DEF WithinCeiling
  <2>5. ask <= trigger.book.ask /\ ask \in 0 .. 100
    BY <1>3, <1>7
  <2>6. EntryPrice(ask) <= EntryPrice(trigger.book.ask)
    BY <1>2, <2>5, EntryPriceMonotone
  <2>7. EntryPrice(trigger.book.ask) \in 0 .. Pips(99)
    BY <1>2, EntryPriceFact
  <2>8. Pips(MaxBuyPrice) \in Nat
    <3>1. MaxBuyPrice \in Nat
      BY ConfigAssumption, SMT DEF Validated
    <3> QED
      BY <3>1 DEF Pips
  <2> QED
    BY <1>4, <2>4, <2>6, <2>7, <2>8
<1> QED
  BY <1>2, <1>3, <1>5, <1>6, <1>7 DEF ask

LEMMA OrderFact ==
  ASSUME TypeOK, order # None
  PROVE  BuyPrice(order.max) \in Nat /\ BuySize(bankroll, order.ask) \in Nat
<1>1. order.ask \in 1 .. 100 /\ order.max \in 1 .. Pips(99) /\ bankroll \in Nat
  BY DEF TypeOK
<1>2. BuyPrice(order.max) \in Nat
  <2>1. Least(Most(order.max, Pips(1)), Pips(99)) + 50 \in Nat
    <3>1. Pips(1) \in Nat /\ Pips(99) \in Nat /\ order.max \in Nat
      <4>1. order.max \in Nat
        BY <1>1
      <4> QED
        BY <4>1 DEF Pips
    <3>2. Most(order.max, Pips(1)) \in Nat
      BY <3>1 DEF Most
    <3> QED
      BY <3>1, <3>2 DEF Least
  <2> QED
    BY <2>1, DivNat DEF BuyPrice
<1>3. KellyFraction(100) \in Nat
  <2>1. {KellyPctA, KellyPctB, KellyPctC} \subseteq Nat
    BY ConfigAssumption, SMT DEF Validated
  <2>2. KellyFraction(100) \in {KellyPctA, KellyPctB, KellyPctC}
    BY DEF KellyFraction
  <2> QED
    BY <2>1, <2>2
<1>4. bankroll * KellyFraction(100) \in Nat /\ 100 * order.ask \in Nat \ {0}
  BY <1>1, <1>3, ProductNat
<1> QED
  BY <1>2, <1>4, DivNat DEF BuySize

(* A sale: what it brings, and that the accounts stay balanced. *)
LEMMA SellInv ==
  ASSUME TypeOK, PnlAccounts, Evaluable, Sell
  PROVE  /\ book.bid * position.shares \in Nat
         /\ bankroll' \in Nat /\ session_pnl' \in Int /\ position' = Flat
         /\ session_pnl' = session_pnl + book.bid * position.shares - position.spent
         /\ PnlAccounts'
<1> DEFINE proceeds == book.bid * position.shares
<1>1. book.bid \in Nat /\ position.shares \in Nat /\ position.spent \in Nat
  <2>1. book \in Quotes
    BY BookQuotes DEF TypeOK
  <2> QED
    BY <2>1 DEF TypeOK, Quotes
<1>2. proceeds \in Nat
  BY <1>1, ProductNat
<1>3. /\ bankroll' = bankroll + proceeds
      /\ session_pnl' = session_pnl + proceeds - position.spent
      /\ position' = Flat /\ forfeited' = forfeited
  BY DEF Sell
<1>4. /\ bankroll \in Nat /\ forfeited \in Nat /\ session_pnl \in Int
      /\ StartingBankroll \in Nat
  <2>1. StartingBankroll \in Nat
    BY ConfigAssumption, SMT DEF Validated
  <2> QED
    BY <2>1 DEF TypeOK
<1> HIDE DEF proceeds
<1>5. bankroll' + 0 + forfeited' = StartingBankroll + session_pnl'
  <2>1. bankroll + position.spent + forfeited = StartingBankroll + session_pnl
    BY DEF PnlAccounts
  <2>2. bankroll' + 0 + forfeited' = bankroll + proceeds + forfeited
    BY <1>2, <1>3, <1>4
  <2>3. session_pnl' = session_pnl + proceeds - position.spent
    BY <1>3
  <2> QED
    BY <1>1, <1>2, <1>4, <2>1, <2>2, <2>3
<1>6. PnlAccounts'
  BY <1>3, <1>5 DEF PnlAccounts, Flat
<1> QED
  BY <1>1, <1>2, <1>3, <1>4, <1>6 DEF proceeds

LEMMA FillInv ==
  ASSUME TypeOK, PnlAccounts, Fill
  PROVE  /\ {bankroll, position.spent, position.shares, position.since}' \subseteq Nat
         /\ PnlAccounts'
<1> DEFINE price == BuyPrice(order.max)
           size  == BuySize(bankroll, order.ask)
           value == price * size
<1>1. price \in Nat /\ size \in Nat /\ value \in Nat
  BY OrderFact, ProductNat DEF Fill
<1>2. /\ bankroll' = bankroll - value
      /\ position'.spent = position.spent + value
      /\ position'.shares = position.shares + size
      /\ position'.since = IF position.shares = 0 THEN now ELSE position.since
      /\ forfeited' = forfeited /\ session_pnl' = session_pnl
  BY DEF Fill, AfterFill
<1>3. value <= bankroll
  BY DEF Fill, Accepted
<1> HIDE DEF price, size, value
<1>4. /\ bankroll \in Nat /\ position.spent \in Nat /\ position.shares \in Nat
      /\ position.since \in Nat /\ now \in Nat
      /\ forfeited \in Nat /\ session_pnl \in Int
  BY DEF TypeOK
<1>5. bankroll' \in Nat
  BY <1>1, <1>2, <1>3, <1>4
<1>6. position'.spent \in Nat /\ position'.shares \in Nat /\ position'.since \in Nat
  BY <1>1, <1>2, <1>4
<1>7. bankroll' + position'.spent + forfeited' = bankroll + position.spent + forfeited
  BY <1>1, <1>2, <1>4
<1>8. PnlAccounts'
  BY <1>2, <1>7 DEF PnlAccounts
<1> QED
  BY <1>5, <1>6, <1>8

LEMMA RedeemInv ==
  ASSUME TypeOK, PnlAccounts, Redeem
  PROVE  forfeited' \in Nat /\ position' = Flat /\ PnlAccounts'
<1>1. /\ forfeited' = forfeited + position.spent /\ position' = Flat
      /\ bankroll' = bankroll /\ session_pnl' = session_pnl
  BY DEF Redeem
<1>2. bankroll \in Nat /\ forfeited \in Nat /\ position.spent \in Nat
  BY DEF TypeOK
<1>3. bankroll' + 0 + forfeited' = bankroll + position.spent + forfeited
  BY <1>1, <1>2
<1> QED
  BY <1>1, <1>2, <1>3 DEF PnlAccounts, Flat

LEMMA StepInv ==
  ASSUME IInv, [Next]_vars
  PROVE  IInv'
<1>1. TypeOK /\ WithinCeiling /\ OneOrder /\ PnlAccounts
  BY DEF IInv
<1> USE DEF market, money, sniper
<1>2. CASE Wait
  <2>1. now' \in Nat
    BY <1>2, TradeAssumption, SMT DEF Wait
  <2> QED
    BY <1>1, <1>2, <2>1 DEF Wait, IInv, TypeOK, WithinCeiling, OneOrder, PnlAccounts
<1>3. CASE Feed
  BY <1>1, <1>3 DEF Feed, IInv, TypeOK, WithinCeiling, OneOrder, PnlAccounts
<1>4. CASE Round
  BY <1>1, <1>4, RoundInv DEF Round, IInv, TypeOK, OneOrder, PnlAccounts
<1>5. ASSUME NEW delta \in Deltas, Fire(delta) PROVE IInv'
  <2>1. order' \in [kind : {"order"}, ask : 1 .. 100, max : 1 .. Pips(99),
                    bid : 0 .. 100, informed : BOOLEAN]
    BY <1>1, <1>5, FireOrder
  <2> QED
    BY <1>1, <1>5, <2>1 DEF Fire, IInv, TypeOK, WithinCeiling, OneOrder, PnlAccounts
<1>6. CASE Fill
  <2>1. shots \in 0 .. MaxShots /\ shots < MaxShots /\ MaxShots \in Nat
    BY <1>1, <1>6, TradeAssumption, SMT DEF Fill, OneOrder, TypeOK
  <2>2. shots' \in 0 .. MaxShots
    BY <1>6, <2>1 DEF Fill
  <2> QED
    BY <1>1, <1>6, <2>2, FillInv DEF Fill, IInv, TypeOK, WithinCeiling, OneOrder
<1>7. CASE Refuse \/ Rearm
  BY <1>1, <1>7 DEF Refuse, Rearm, IInv, TypeOK, WithinCeiling, OneOrder,
    PnlAccounts
<1>8. CASE Redeem
  BY <1>1, <1>8, RedeemInv DEF Redeem, IInv, TypeOK, WithinCeiling, OneOrder, Flat
<1>9. CASE Bailout \/ ImpatienceTp \/ TakeProfit
  <2>1. Evaluable /\ Sell
    BY <1>9 DEF Bailout, ImpatienceTp, TakeProfit, MayExit
  <2> QED
    BY <1>1, <2>1, SellInv DEF Sell, IInv, TypeOK, WithinCeiling, OneOrder, Flat
<1>10. CASE UNCHANGED vars
  BY <1>1, <1>10 DEF vars, IInv, TypeOK, WithinCeiling, OneOrder, PnlAccounts
<1> QED
  BY <1>2, <1>3, <1>4, <1>5, <1>6, <1>7, <1>8, <1>9, <1>10 DEF Next
-----------------------------------------------------------------------------
(* The types hold, the bankroll never goes below zero among them: no buy is *)
(* accepted that it does not cover.                                        *)
THEOREM PricesTypeCorrect == Spec => []TypeOK
<1>1. IInv => TypeOK
  BY DEF IInv
<1> QED
  BY <1>1, InitInv, StepInv, PTL DEF Spec

(* The money is where the accounts say, for every configuration and every  *)
(* quote: the bankroll, what the open position cost and what redeemed ones  *)
(* cost are the starting bankroll and the session's profit.                *)
THEOREM MoneyAccounted == Spec => []PnlAccounts
<1>1. IInv => PnlAccounts
  BY DEF IInv
<1> QED
  BY <1>1, InitInv, StepInv, PTL DEF Spec

(* An order is priced above MAX_BUY_PRICE only when the ask that prices it, *)
(* real or synthetic, is above the real ask of the round that set its      *)
(* trigger, for every configuration and whatever quotes the feed shows.    *)
THEOREM CeilingKept == Spec => PaysAtMostMax
<1> DEFINE Kept == \A delta \in Deltas :
                     Fire(delta) /\ EffectiveAsk(book) <= trigger.book.ask
                       => order'.max <= Pips(MaxBuyPrice)
<1>1. IInv /\ [Next]_vars => [Kept]_vars
  <2> SUFFICES ASSUME IInv, NEW delta \in Deltas, Fire(delta),
                      EffectiveAsk(book) <= trigger.book.ask
               PROVE  order'.max <= Pips(MaxBuyPrice)
    OBVIOUS
  <2>1. TypeOK /\ WithinCeiling
    BY DEF IInv
  <2> QED
    BY <2>1, FireOrder
<1>2. IInv /\ [Next]_vars => IInv'
  BY StepInv
<1> QED
  BY <1>1, <1>2, InitInv, PTL DEF Spec, PaysAtMostMax

(* What a sale brings covers what the position cost, when the target of the *)
(* exit is reached and the ceiling on exits covers the cost.               *)
LEMMA TargetCovers ==
  ASSUME NEW bid \in Nat, NEW shares \in Nat, NEW spent \in Nat,
         NEW goal \in Int, goal <= 100 * (bid * shares),
         \/ \E pct \in Nat : goal = (100 + pct) * spent
         \/ goal = 100 * (ExitCeiling * shares) /\ spent <= ExitCeiling * shares
  PROVE  spent <= bid * shares
<1>1. bid * shares \in Nat
  BY ProductNat
<1>2. CASE \E pct \in Nat : goal = (100 + pct) * spent
  <2>1. PICK pct \in Nat : goal = (100 + pct) * spent
    BY <1>2
  <2>2. (100 + pct) * spent = 100 * spent + pct * spent /\ pct * spent \in Nat
    BY ProductNat
  <2> QED
    BY <1>1, <2>1, <2>2
<1>3. CASE goal = 100 * (ExitCeiling * shares) /\ spent <= ExitCeiling * shares
  <2>1. ExitCeiling \in Nat
    BY ConfigAssumption, SMT DEF Validated
  <2>2. ExitCeiling * shares \in Nat
    BY <2>1, ProductNat
  <2> QED
    BY <1>1, <1>3, <2>2
<1> QED
  BY <1>2, <1>3

(* A sale that takes a profit makes one, whatever the fills, unless the    *)
(* position cost more than the exit ceiling.                               *)
THEOREM ProfitMade == Spec => ProfitExitsProfit
<1> DEFINE Made == ImpatienceTp \/ TakeProfit
                     => \/ session_pnl' >= session_pnl
                        \/ position.spent > ExitCeiling * position.shares
<1>1. IInv /\ [Next]_vars => [Made]_vars
  <2> SUFFICES ASSUME IInv, ImpatienceTp \/ TakeProfit,
                      ~(position.spent > ExitCeiling * position.shares)
               PROVE  session_pnl' >= session_pnl
    OBVIOUS
  <2>1. TypeOK /\ PnlAccounts /\ Evaluable /\ Sell
    BY DEF IInv, ImpatienceTp, TakeProfit, MayExit
  <2>2. /\ book.bid \in Nat /\ position.shares \in Nat /\ position.spent \in Nat
        /\ session_pnl \in Int
    <3>1. book \in Quotes
      BY <2>1, BookQuotes DEF TypeOK
    <3> QED
      BY <2>1, <3>1 DEF TypeOK, Quotes
  <2>3. ExitCeiling \in Nat /\ TakeProfitPct \in Nat /\ ImpatiencePct \in Nat
    BY ConfigAssumption, SMT DEF Validated
  <2>4. position.spent <= ExitCeiling * position.shares
    BY <2>2, <2>3, ProductNat
  <2>5. Worth(position, book.bid) = 100 * (book.bid * position.shares)
    BY <2>2 DEF Worth
  <2>6. CASE ImpatienceTp
    <3>1. (100 + ImpatiencePct) * position.spent <= 100 * (book.bid * position.shares)
      BY <2>2, <2>3, <2>5, <2>6, ProductNat DEF ImpatienceTp, Impatient, ImpatienceTarget
    <3>2. position.spent <= book.bid * position.shares
      BY <2>2, <2>3, <3>1, ProductNat, TargetCovers
    <3> QED
      BY <2>1, <2>2, <3>2, SellInv
  <2>7. CASE TakeProfit
    <3> DEFINE goal == TakeProfitTarget(position)
    <3>1. /\ (100 + TakeProfitPct) * position.spent \in Nat
          /\ ExitCeiling * position.shares \in Nat
          /\ 100 * ExitCeiling * position.shares = 100 * (ExitCeiling * position.shares)
      BY <2>2, <2>3, ProductNat
    <3>2. goal \in {(100 + TakeProfitPct) * position.spent,
                    100 * (ExitCeiling * position.shares)}
      BY <3>1 DEF TakeProfitTarget, Least
    <3>3. goal <= 100 * (book.bid * position.shares)
      BY <2>2, <2>5, <2>7, <3>1, <3>2, ProductNat DEF TakeProfit, InProfit
    <3>4. position.spent <= book.bid * position.shares
      BY <2>2, <2>3, <2>4, <3>1, <3>2, <3>3, TargetCovers
    <3> QED
      BY <2>1, <2>2, <3>4, SellInv
  <2> QED
    BY <2>6, <2>7
<1>2. IInv /\ [Next]_vars => IInv'
  BY StepInv
<1> QED
  BY <1>1, <1>2, InitInv, PTL DEF Spec, ProfitExitsProfit
-----------------------------------------------------------------------------
(* What the entry's penalties see to: a round vetoes every price that is    *)
(* above four times the bid.                                                *)
Covered(price, bid) == price <= 4 * bid

(* No momentum suffices for this price.                                    *)
Vetoed(price, bid, left) == MomentumFor(Needed(price, bid, left)) = Veto

(* The quotes cost at most the thirty points that a bonus may cover.       *)
Cheap(price, bid) == SpreadPenalty(price, bid) + DeathTrapPenalty(price) <= 1500

LEMMA ConfigNat ==
  /\ BailoutScore \in Nat /\ BaseScore \in Nat /\ MinScore \in Nat
  /\ MaxMomentumBonus \in Nat /\ MaxSpread \in Nat /\ NoBidsPenalty \in Nat
  /\ DeathTrap1 \in Nat /\ DeathTrapPenalty1 \in Nat
  /\ DeathTrap2 \in Nat /\ DeathTrapPenalty2 \in Nat
  /\ HighPrice \in Nat /\ TimeDanger \in Nat /\ TimeWarn \in Nat
  /\ TimeDangerPenalty \in Nat /\ TimeWarnPenalty \in Nat
<1>1. {BaseScore, MinScore, MaxMomentumBonus, BailoutScore} \subseteq Nat
  BY ConfigAssumption, SMT DEF Validated
<1>2. TimeDanger \in Nat /\ TimeWarn \in Nat
  BY ConfigAssumption, SMT DEF Validated
<1>3. {TimeDangerPenalty, TimeWarnPenalty, NoBidsPenalty} \subseteq Nat
  BY ConfigAssumption, SMT DEF Validated
<1>4. {DeathTrap1, DeathTrap2, DeathTrapPenalty1, DeathTrapPenalty2} \subseteq Nat
  BY ConfigAssumption, SMT DEF Validated
<1>5. MaxSpread \in Nat /\ HighPrice \in Nat
  BY ConfigAssumption, SMT DEF Validated
<1> QED
  BY <1>1, <1>2, <1>3, <1>4, <1>5

LEMMA BuyPriceFact ==
  ASSUME NEW p \in 1 .. Pips(99)
  PROVE  BuyPrice(p) = (Most(p, 100) + 50) \div 100
<1>1. p \in 1 .. 9900 /\ Pips(1) = 100 /\ Pips(99) = 9900
  BY DEF Pips
<1>2. Least(Most(p, 100), 9900) = Most(p, 100)
  BY <1>1 DEF Least, Most
<1> QED
  BY <1>1, <1>2 DEF BuyPrice

LEMMA BuyPriceMonotone ==
  ASSUME NEW p \in 1 .. Pips(99), NEW q \in 1 .. Pips(99), p <= q
  PROVE  BuyPrice(p) \in Nat /\ BuyPrice(q) \in Nat /\ BuyPrice(p) <= BuyPrice(q)
<1>1. p \in 1 .. 9900 /\ q \in 1 .. 9900
  BY DEF Pips
<1>2. (Most(p, 100) + 50) \div 100 <= (Most(q, 100) + 50) \div 100
  BY <1>1 DEF Most
<1>3. (Most(p, 100) + 50) \div 100 \in Nat /\ (Most(q, 100) + 50) \div 100 \in Nat
  BY <1>1 DEF Most
<1> QED
  BY <1>2, <1>3, BuyPriceFact

LEMMA PenaltySum ==
  ASSUME EntryScreens, NEW p \in 1 .. Pips(99), NEW bid \in 0 .. 100, NEW left \in Nat,
         ~Vetoed(p, bid, left)
  PROVE  Cheap(p, bid)
<1> DEFINE s == SpreadPenalty(p, bid)
           d == DeathTrapPenalty(p)
           t == TimePenalty(p, left)
           n == Needed(p, bid, left)
<1>1. n <= Fiftieths(MaxMomentumBonus)
  <2>1. n \in Int
    <3>1. p \in Nat
      BY DEF Pips
    <3> QED
      BY <3>1, NeededFact
  <2>2. ~(n > Fiftieths(MaxMomentumBonus)) \/ n <= 0
    BY DEF Vetoed, MomentumFor
  <2> HIDE DEF n
  <2> QED
    BY <2>1, <2>2, ConfigNat DEF Fiftieths
<1>2. t \in Nat
  BY ConfigNat DEF TimePenalty, Fiftieths
<1>3. s \in Int /\ d \in Int
  <2>1. s \in {Fiftieths(NoBidsPenalty), Most(p - Pips(bid), 0), Fiftieths(10), 0}
    BY DEF SpreadPenalty
  <2>2. d \in {Fiftieths(DeathTrapPenalty1), Fiftieths(DeathTrapPenalty2), 0}
    BY DEF DeathTrapPenalty
  <2>3. p \in Nat
    BY DEF Pips
  <2> HIDE DEF s, d
  <2> QED
    BY <2>1, <2>2, <2>3, ConfigNat DEF Fiftieths, Most, Pips
<1>4. n = Fiftieths(MinScore - BaseScore) + t + s + d
  BY DEF Needed
<1> HIDE DEF n, s, d, t
<1>5. s + d <= 1500
  BY <1>1, <1>2, <1>3, <1>4, ConfigNat DEF Fiftieths, EntryScreens
<1> QED
  BY <1>5 DEF s, d, Cheap

LEMMA ScreenedPrice ==
  ASSUME EntryScreens, NEW p \in 1 .. Pips(99), NEW bid \in 0 .. 100,
         Cheap(p, bid)
  PROVE  Covered(BuyPrice(p), bid)
<1> DEFINE s == SpreadPenalty(p, bid)
           d == DeathTrapPenalty(p)
<1>1. /\ p \in 1 .. 9900
      /\ s = IF bid = 0 THEN 50 * NoBidsPenalty
             ELSE IF Most(p - 100 * bid, 0) > 100 * MaxSpread THEN Most(p - 100 * bid, 0)
             ELSE IF Most(p - 100 * bid, 0) > 200 THEN 500 ELSE 0
      /\ d = IF p < 100 * DeathTrap1 THEN 50 * DeathTrapPenalty1
             ELSE IF p < 100 * DeathTrap2 THEN 50 * DeathTrapPenalty2 ELSE 0
      /\ s + d <= 1500
  BY DEF Cheap, SpreadPenalty, DeathTrapPenalty, Pips, Fiftieths
<1> HIDE DEF s, d
<1>2. s \in Nat /\ d \in Nat
  BY <1>1, ConfigNat DEF Most
<1>3. p >= 1000
  BY <1>1, <1>2, ConfigNat DEF EntryScreens
<1>4. bid > 0
  BY <1>1, <1>2, ConfigNat DEF EntryScreens
<1>5. p < 2000 => s <= 500
  BY <1>1, <1>2, <1>3, ConfigNat DEF EntryScreens
<1>6. p - 100 * bid <= s \/ p - 100 * bid <= 500
  BY <1>1, <1>4, ConfigNat DEF EntryScreens, Most
<1>7. p - 100 * bid <= 500 \/ (p >= 2000 /\ p - 100 * bid <= 1500)
  BY <1>1, <1>2, <1>5, <1>6
<1>8. (p + 50) \div 100 <= 4 * bid
  <2>1. CASE p - 100 * bid <= 500
    BY <1>1, <1>3, <2>1
  <2>2. CASE p >= 2000 /\ p - 100 * bid <= 1500
    BY <1>1, <2>2
  <2> QED
    BY <1>7, <2>1, <2>2
<1>9. Most(p, 100) = p
  BY <1>1, <1>3 DEF Most
<1> QED
  BY <1>8, <1>9, BuyPriceFact DEF Covered

LEMMA EntryCovered ==
  ASSUME EntryScreens, NEW ask \in 0 .. 100, NEW bid \in 0 .. 100, NEW left \in Nat,
         RequiredMomentum(ask, bid, left) # Veto
  PROVE  Covered(BuyPrice(EntryPrice(ask)), bid)
<1>1. ask > 0
  BY RequiredMomentumFact
<1>2. EntryPrice(ask) \in 0 .. Pips(99) /\ EntryPrice(ask) > 0
  BY <1>1, EntryPriceFact
<1>3. EntryPrice(ask) \in 1 .. Pips(99)
  BY <1>2 DEF Pips
<1>4. ~Vetoed(EntryPrice(ask), bid, left)
  BY DEF RequiredMomentum, Vetoed
<1>5. ASSUME NEW p \in 1 .. Pips(99), ~Vetoed(p, bid, left)
      PROVE  Covered(BuyPrice(p), bid)
  <2>1. Cheap(p, bid)
    BY <1>5, PenaltySum
  <2> QED
    BY <2>1, ScreenedPrice
<1> QED
  BY <1>3, <1>4, <1>5

(* The screening follows the price: from a trigger that is not vetoed to    *)
(* the order that it lets through, if the quotes are the same, and to the   *)
(* position of which all orders were let through so.                       *)
TriggerScreens ==
  trigger.needs # Veto => Covered(BuyPrice(EntryPrice(trigger.book.ask)), trigger.book.bid)
OrderScreened ==
  order # None /\ order.informed => Covered(BuyPrice(order.max), order.bid)
PositionScreened ==
  /\ position.bid \in Nat
  /\ position.informed => position.spent <= 4 * (position.bid * position.shares)

ScreenInv == TriggerScreens /\ OrderScreened /\ PositionScreened

LEMMA RoundScreens ==
  ASSUME EntryScreens, TypeOK, Round
  PROVE  TriggerScreens'
<1>1. book \in Quotes
  BY BookQuotes DEF TypeOK
<1>2. book.ask \in 0 .. 100 /\ book.bid \in 0 .. 100
  BY <1>1 DEF Quotes
<1>3. TimeLeft \in Nat
  <2>1. Window \in Nat
    BY TradeAssumption, SMT
  <2> QED
    BY <2>1 DEF TypeOK, TimeLeft, Most
<1> DEFINE r == RequiredMomentum(book.ask, book.bid, TimeLeft)
<1>4. r \in 0 .. Veto /\ (r # Veto => Covered(BuyPrice(EntryPrice(book.ask)), book.bid))
  BY <1>2, <1>3, RequiredMomentumFact, EntryCovered
<1>5. Escalated(shots) \in 0 .. Veto
  BY EscalationAssumption DEF TypeOK
<1>6. trigger' = [needs |-> Merged(Escalated(shots), r), book |-> book]
  BY DEF Round, Triggers
<1> HIDE DEF r
<1>7. r = Veto => Merged(Escalated(shots), r) = Veto
  BY <1>4, <1>5, VetoFact DEF Merged, Most
<1> QED
  BY <1>4, <1>6, <1>7 DEF TriggerScreens

(* An order is no dearer than the real ask that its trigger was set at.    *)
LEMMA FireScreened ==
  ASSUME TypeOK, WithinCeiling, TriggerScreens, NEW delta \in Deltas, Fire(delta)
  PROVE  OrderScreened'
<1> DEFINE ask == EffectiveAsk(book)
<1>1. /\ order'.max = EntryPrice(ask) /\ order'.bid = book.bid
      /\ order'.informed = (trigger.book = book)
  BY DEF Fire
<1>2. SUFFICES ASSUME trigger.book = book
               PROVE  Covered(BuyPrice(EntryPrice(ask)), book.bid)
  BY <1>1 DEF OrderScreened
<1>3. book \in Quotes /\ trigger.needs \in 0 .. Veto
  BY BookQuotes DEF TypeOK
<1>4. book.ask \in 0 .. 100 /\ book.bid \in 0 .. 100
  BY <1>3 DEF Quotes
<1>5. trigger.needs # Veto
  <2>1. delta < Veto /\ delta \in Nat
    BY TradeAssumption, VetoFact, SMT
  <2>2. delta >= trigger.needs
    BY DEF Fire
  <2> QED
    BY <1>3, <2>1, <2>2, VetoFact
<1>6. book.ask > 0 /\ Covered(BuyPrice(EntryPrice(book.ask)), book.bid)
  BY <1>2, <1>5 DEF WithinCeiling, TriggerScreens
<1>7. ask \in 0 .. 100 /\ ask > 0 /\ ask <= book.ask
  <2>1. ask \in 0 .. 100 /\ ask <= book.ask
    BY <1>3, <1>6, EffectiveAskFact
  <2>2. ask > 0
    BY DEF Fire
  <2> QED
    BY <2>1, <2>2
<1> HIDE DEF ask
<1>8. EntryPrice(ask) <= EntryPrice(book.ask)
  BY <1>4, <1>7, EntryPriceMonotone
<1>9. EntryPrice(ask) \in 1 .. Pips(99) /\ EntryPrice(book.ask) \in 1 .. Pips(99)
  <2>1. ASSUME NEW a \in 0 .. 100, a > 0 PROVE EntryPrice(a) \in 1 .. Pips(99)
    <3>1. EntryPrice(a) \in 0 .. Pips(99) /\ EntryPrice(a) > 0
      BY <2>1, EntryPriceFact
    <3> QED
      BY <3>1 DEF Pips
  <2> QED
    BY <1>4, <1>6, <1>7, <2>1
<1>10. /\ BuyPrice(EntryPrice(ask)) \in Nat /\ BuyPrice(EntryPrice(book.ask)) \in Nat
       /\ BuyPrice(EntryPrice(ask)) <= BuyPrice(EntryPrice(book.ask))
  BY <1>8, <1>9, BuyPriceMonotone
<1> QED
  BY <1>4, <1>6, <1>10 DEF Covered

LEMMA FillScreened ==
  ASSUME TypeOK, OrderScreened, PositionScreened, Fill
  PROVE  PositionScreened'
<1> DEFINE price == BuyPrice(order.max)
           size  == BuySize(bankroll, order.ask)
           best  == Most(position.bid, order.bid)
<1>1. price \in Nat /\ size \in Nat /\ order # None
  BY OrderFact DEF Fill
<1>2. /\ position'.spent = position.spent + price * size
      /\ position'.shares = position.shares + size
      /\ position'.bid = best
      /\ position'.informed = (position.informed /\ order.informed)
  BY DEF Fill, AfterFill
<1>3. /\ position.spent \in Nat /\ position.shares \in Nat /\ position.bid \in Nat
      /\ order.bid \in Nat
  BY <1>1 DEF TypeOK, PositionScreened
<1>4. best \in Nat /\ position.bid <= best /\ order.bid <= best
  BY <1>3 DEF Most
<1> HIDE DEF price, size, best
<1>5. ASSUME position.informed /\ order.informed
      PROVE  position.spent + price * size <= 4 * (best * (position.shares + size))
  <2>1. position.spent <= 4 * (position.bid * position.shares)
    BY <1>5 DEF PositionScreened
  <2>2. price <= 4 * order.bid
    BY <1>1, <1>5 DEF OrderScreened, Covered, price
  <2>3. /\ position.bid * position.shares \in Nat /\ best * position.shares \in Nat
        /\ position.bid * position.shares <= best * position.shares
    BY <1>3, <1>4, ProductNat, ProductMonotone
  <2>4. price * size <= (4 * best) * size
    <3>1. price <= 4 * best /\ 4 * best \in Nat
      BY <1>1, <1>3, <1>4, <2>2
    <3> QED
      BY <1>1, <3>1, ProductMonotone
  <2>5. (4 * best) * size = 4 * (best * size)
    BY <1>1, <1>4
  <2>6. best * (position.shares + size) = best * position.shares + best * size
    BY <1>1, <1>3, <1>4
  <2>7. price * size \in Nat /\ best * size \in Nat
    BY <1>1, <1>4, ProductNat
  <2> QED
    BY <1>3, <2>1, <2>3, <2>4, <2>5, <2>6, <2>7
<1> QED
  BY <1>2, <1>4, <1>5 DEF PositionScreened

LEMMA ScreenStep ==
  ASSUME EntryScreens, IInv, ScreenInv, [Next]_vars
  PROVE  ScreenInv'
<1>1. TypeOK /\ WithinCeiling /\ TriggerScreens /\ OrderScreened /\ PositionScreened
  BY DEF IInv, ScreenInv
<1>2. ASSUME position' = Flat PROVE PositionScreened'
  <2>1. position'.bid = 0 /\ position'.spent = 0 /\ position'.shares = 0
    BY <1>2 DEF Flat
  <2>2. position'.spent <= 4 * (position'.bid * position'.shares)
    BY <2>1
  <2> QED
    BY <2>1, <2>2 DEF PositionScreened
<1>3. CASE Wait \/ Feed \/ Rearm \/ UNCHANGED vars
  <2>1. UNCHANGED <<trigger, order, position>>
    BY <1>3 DEF Wait, Feed, Rearm, vars, sniper, money, market
  <2> QED
    BY <1>1, <2>1 DEF ScreenInv, TriggerScreens, OrderScreened, PositionScreened
<1>4. CASE Round
  <2>1. UNCHANGED <<order, position>>
    BY <1>4 DEF Round, sniper, money
  <2> QED
    BY <1>1, <1>4, <2>1, RoundScreens DEF ScreenInv, OrderScreened, PositionScreened
<1>5. ASSUME NEW delta \in Deltas, Fire(delta) PROVE ScreenInv'
  <2>1. UNCHANGED <<trigger, position>>
    BY <1>5 DEF Fire, money
  <2> QED
    BY <1>1, <1>5, <2>1, FireScreened DEF ScreenInv, TriggerScreens, PositionScreened
<1>6. CASE Fill
  <2>1. trigger' = trigger /\ order' = None
    BY <1>6 DEF Fill
  <2> QED
    BY <1>1, <1>6, <2>1, FillScreened DEF ScreenInv, TriggerScreens, OrderScreened
<1>7. CASE Refuse
  <2>1. UNCHANGED <<trigger, position>> /\ order' = None
    BY <1>7 DEF Refuse, money
  <2> QED
    BY <1>1, <2>1 DEF ScreenInv, TriggerScreens, OrderScreened, PositionScreened
<1>8. CASE Redeem \/ Bailout \/ ImpatienceTp \/ TakeProfit
  <2>1. UNCHANGED <<trigger, order>> /\ position' = Flat
    BY <1>8 DEF Redeem, Bailout, ImpatienceTp, TakeProfit, Sell, sniper
  <2> QED
    BY <1>1, <1>2, <2>1 DEF ScreenInv, TriggerScreens, OrderScreened
<1> QED
  BY <1>3, <1>4, <1>5, <1>6, <1>7, <1>8 DEF Next

(* Holding is worth the bailout's score until two minutes before the end,  *)
(* as long as the bid is a quarter of the average price.                   *)
LEMMA WorthHolding ==
  ASSUME EntryScreens, NEW p, p.spent \in Nat, p.shares \in Nat,
         NEW bid \in Nat, NEW left \in Nat, left >= 120,
         p.spent <= 4 * (bid * p.shares)
  PROVE  ~NotWorthHolding(p, bid, left)
<1> DEFINE spent == p.spent
           worth == bid * p.shares
           kept  == 100 - HoldPenalty(left)
<1>1. worth \in Nat /\ spent \in Nat /\ spent <= 4 * worth
  BY ProductNat
<1>2. kept \in Nat /\ 70 <= kept
  BY DEF HoldPenalty
<1>3. HoldEv(p, bid, left) = IF worth >= spent THEN 100 * spent
                             ELSE Most(0, kept * spent - 60 * (spent - worth))
  BY DEF HoldEv
<1>4. BailoutScore * spent <= 25 * spent /\ BailoutScore * spent \in Nat
  BY <1>1, ConfigNat, ProductNat, ProductMonotone DEF EntryScreens
<1>5. NotWorthHolding(p, bid, left) = (HoldEv(p, bid, left) < BailoutScore * spent)
  BY DEF NotWorthHolding
<1>6. 70 * spent <= kept * spent /\ kept * spent \in Nat
  BY <1>1, <1>2, ProductNat, ProductMonotone
<1> HIDE DEF spent, worth, kept
<1>7. HoldEv(p, bid, left) \in Int /\ 25 * spent <= HoldEv(p, bid, left)
  <2>1. CASE worth >= spent
    BY <1>1, <1>3, <2>1
  <2>2. CASE ~(worth >= spent)
    <3> DEFINE ev == kept * spent - 60 * (spent - worth)
    <3>1. ev \in Int /\ 25 * spent <= ev
      BY <1>1, <1>6
    <3>2. HoldEv(p, bid, left) = Most(0, ev)
      BY <1>3, <2>2
    <3> HIDE DEF ev
    <3> QED
      BY <1>1, <3>1, <3>2 DEF Most
  <2> QED
    BY <2>1, <2>2
<1> DEFINE floor == BailoutScore * spent
<1>8. floor \in Nat /\ floor <= 25 * spent
  BY <1>4
<1> HIDE DEF floor
<1>9. ~(HoldEv(p, bid, left) < floor)
  BY <1>1, <1>7, <1>8
<1> QED
  BY <1>5, <1>9 DEF floor

(* A position is not bailed out before its bid falls or the last two        *)
(* minutes, for every feed, every rounding and any number of averaged       *)
(* fills, in any configuration whose penalties are at least the defaults.  *)
THEOREM BailoutNotInstant == EntryScreens /\ Spec => NoInstantBailout
<1> DEFINE Earned == Bailout /\ position.informed
                       => book.bid < position.bid \/ TimeLeft < 120
<1>1. Init => ScreenInv
  BY DEF Init, ScreenInv, TriggerScreens, OrderScreened, PositionScreened, Flat
<1>2. ASSUME EntryScreens, IInv, ScreenInv, [Next]_vars
      PROVE  [Earned]_vars
  <2> SUFFICES ASSUME Bailout, position.informed,
                      ~(book.bid < position.bid), ~(TimeLeft < 120)
               PROVE  FALSE
    OBVIOUS
  <2>1. /\ book.bid \in Nat /\ position.shares \in Nat /\ position.spent \in Nat
        /\ TimeLeft \in Nat /\ position.bid \in Nat
    <3>1. book \in Quotes /\ Window \in Nat /\ now \in Nat
      BY <1>2, BookQuotes, TradeAssumption, SMT DEF IInv, TypeOK
    <3>2. position.shares \in Nat /\ position.spent \in Nat /\ position.bid \in Nat
      BY <1>2 DEF IInv, TypeOK, ScreenInv, PositionScreened
    <3> QED
      BY <3>1, <3>2 DEF Quotes, TimeLeft, Most
  <2>2. position.spent <= 4 * (position.bid * position.shares)
    BY <1>2 DEF ScreenInv, PositionScreened
  <2>3. /\ position.bid * position.shares <= book.bid * position.shares
        /\ position.bid * position.shares \in Nat /\ book.bid * position.shares \in Nat
    BY <2>1, ProductNat, ProductMonotone
  <2>4. position.spent <= 4 * (book.bid * position.shares)
    BY <2>1, <2>2, <2>3
  <2>5. ~NotWorthHolding(position, book.bid, TimeLeft)
    BY <1>2, <2>1, <2>4, WorthHolding
  <2> QED
    BY <2>5 DEF Bailout, Hopeless
<1>3. ASSUME EntryScreens PROVE Spec => NoInstantBailout
  <2>1. IInv /\ ScreenInv /\ [Next]_vars => ScreenInv' /\ [Earned]_vars
    BY <1>2, <1>3, ScreenStep
  <2> QED
    BY <1>1, <2>1, InitInv, StepInv, PTL DEF Spec, NoInstantBailout
<1> QED
  BY <1>3
=============================================================================

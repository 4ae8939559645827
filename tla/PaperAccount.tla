----------------------------- MODULE PaperAccount -----------------------------
(***************************************************************************)
(* What the paper executor promises: an account of money and shares in      *)
(* which a buy and a sale are one step each.  TradingDesk, where a buy is   *)
(* a deduction, a ledger entry and a position record, and a sale the same  *)
(* three in the other order, implements it (TradingDesk!ImplementsAccount). *)
(***************************************************************************)
EXTENDS Naturals

CONSTANTS
  Tokens, Start,
  BuyPrices, SellPrices   \* prices in cents

VARIABLES money, shares

vars == <<money, shares>>

Init == money = Start /\ shares = [k \in Tokens |-> 0]

(* Bought shares are paid for in full, with money that is there. *)
Buy(k) ==
  LET n == shares'[k] - shares[k]
  IN  /\ money' < money
      /\ shares'[k] > shares[k]
      /\ shares' = [shares EXCEPT ![k] = @ + n]
      /\ \E price \in BuyPrices : price * n <= money /\ money' = money - price * n

(* Sold shares were held, and are paid for in full. *)
Sell(k) ==
  LET n == shares[k] - shares'[k]
  IN  /\ money' > money
      /\ shares'[k] < shares[k]
      /\ shares' = [shares EXCEPT ![k] = @ - n]
      /\ \E price \in SellPrices : money' = money + price * n

Next == \E k \in Tokens : Buy(k) \/ Sell(k)

Spec == Init /\ [][Next]_vars
=============================================================================

---------------------------- MODULE MCTradingDesk ----------------------------
(***************************************************************************)
(* Finite instances of TradingDesk for TLC.                                *)
(***************************************************************************)
EXTENDS TradingDesk, TLC

(* One direction, and an ask of 50 cents: an order takes half of the       *)
(* bankroll, or with the whole slippage nearly all of it.                  *)
Up      == {"Up"}
Dear    == {[ask |-> 50, price |-> 90]}
Fair    == {[ask |-> 50, price |-> 50]}
Loss    == {30}

Tasks == Permutations(Trades)
=============================================================================

----------------------------- MODULE MCTradePrices -----------------------------
(* TradePrices with the default configuration and a handful of books: cheap, *)
(* dear and middling, tight and wide, with and without the other side's bid. *)
EXTENDS TradePrices

Book(ask, bid, opposing) == [ask |-> ask, bid |-> bid, opposing |-> opposing]

(* The default configuration is one for which NoInstantBailout is proved.  *)
ASSUME DefaultsScreen == EntryScreens

MCBooks ==
  {Book(6, 1, 0), Book(12, 7, 0), Book(50, 47, 52), Book(80, 70, 60),
   Book(1, 0, 0), Book(99, 98, 0), Book(0, 50, 45)}
MCMoments == {0, 650, 790, 885, 900}
MCDeltas  == {4000, 5000, 14000}
=============================================================================

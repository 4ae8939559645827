--------------------------- MODULE PolymarketStream ---------------------------
(***************************************************************************)
(* run_polymarket_stream (src/src/streams.rs): the order-book feed.  It     *)
(* loads the market once per connection, applies every message to the      *)
(* shared book, and leaves its loop on the disconnect signal, on a close    *)
(* and on an error; after each of them it waits for the reconnect signal,   *)
(* which only a rollover gives.                                             *)
(***************************************************************************)
EXTENDS SharedState

CONSTANTS
  FeedQuotes,     \* bound: the quotes that the feed ever sends
  MaxFeedFaults   \* bound: failed connects, closes and errors

ASSUME FeedAssumption == FeedQuotes \subseteq Quote /\ MaxFeedFaults \in Nat

VARIABLES
  ppc,      \* program counter of the task
  pmarket,  \* the MarketInfo of the connection
  pfaults   \* connection faults so far

polyVars == <<ppc, pmarket, pfaults>>

PolyTypeOK ==
  /\ ppc \in {"load", "connect", "stream", "wait"}
  /\ pmarket \in Nat
  /\ pfaults \in 0 .. MaxFeedFaults

PolyInit ==
  /\ ppc = "load"
  /\ pmarket = NoMarket
  /\ pfaults = 0
-----------------------------------------------------------------------------
(* The market is polled until there is one. *)
LoadMarket ==
  /\ ppc = "load"
  /\ market # NoMarket
  /\ ppc' = "connect"
  /\ pmarket' = market
  /\ UNCHANGED <<pfaults, shared>>

(* connect_async and the subscription succeed. *)
Connect ==
  /\ ppc = "connect"
  /\ ppc' = "stream"
  /\ UNCHANGED <<pmarket, pfaults, shared>>

(* They fail, or the open connection is closed or breaks. *)
ConnectionFault ==
  /\ ppc \in {"connect", "stream"}
  /\ pfaults < MaxFeedFaults
  /\ pfaults' = pfaults + 1
  /\ ppc' = "wait"
  /\ pmarket' = NoMarket
  /\ UNCHANGED shared

(* A message sets a best price of the connection's market, or empties it.  *)
(* select! picks any ready branch: a message may go before the signal.     *)
BookMessage ==
  /\ ppc = "stream"
  /\ \E q \in FeedQuotes, price \in {pmarket, None} :
       book' = [book EXCEPT ![q] = price]
  /\ UNCHANGED <<ppc, pmarket, pfaults, wall, marketVars, is_rolling_over,
                 poly_disconnect, poly_reconnect, emaVars, sniperVars>>

(* poly_disconnect.notified() takes the permit and ends the connection. *)
DisconnectSignal ==
  /\ ppc = "stream"
  /\ poly_disconnect
  /\ poly_disconnect' = FALSE
  /\ ppc' = "wait"
  /\ pmarket' = NoMarket
  /\ UNCHANGED <<pfaults, wall, marketVars, is_rolling_over, poly_reconnect, book,
                 emaVars, sniperVars>>

(* poly_reconnect.notified() takes the permit. *)
ReconnectSignal ==
  /\ ppc = "wait"
  /\ poly_reconnect
  /\ poly_reconnect' = FALSE
  /\ ppc' = "load"
  /\ UNCHANGED <<pmarket, pfaults, wall, marketVars, is_rolling_over, poly_disconnect,
                 book, emaVars, sniperVars>>

PolyNext ==
  \/ LoadMarket \/ Connect \/ ConnectionFault \/ BookMessage
  \/ DisconnectSignal \/ ReconnectSignal
=============================================================================

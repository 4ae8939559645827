----------------------------- MODULE MarketFetcher -----------------------------
(***************************************************************************)
(* MarketFetcher (src/src/market_fetcher.rs): what update_market makes of   *)
(* the answers of the Gamma API.  An answer is "failed" (no answer, a status *)
(* other than 404, a body that is no list of events), "missing" (404 or an *)
(* empty list) or an event.  An event holds the outcomes of its first       *)
(* market and the token ids, each id named for the outcome that it pays.    *)
(***************************************************************************)
EXTENDS Integers, Sequences, FiniteSets

CONSTANTS
  WindowLen,   \* the length of a window, in steps of the clock
  Assets       \* what MARKET_ASSET may be

ASSUME WindowAssumption == WindowLen \in Nat \ {0}

Failed   == [kind |-> "failed"]
Missing  == [kind |-> "missing"]

(* form is "list", "malformed" for ids that cannot be parsed or "empty" for *)
(* an event without markets.  The outcomes may be a list or a string that  *)
(* encodes one; outcomes that are neither are the empty list.              *)
Event(form, ids, outcomes, encoded) ==
  [kind |-> "event", form |-> form, ids |-> ids, outcomes |-> outcomes,
   encoded |-> encoded]

(* The end of the host clock's window, in update_market and, for a start   *)
(* without a market, in compute_next_expiry.                               *)
WindowEnd(now) == (now \div WindowLen) * WindowLen + WindowLen

(* Only btc has a second name. *)
HasFallback(asset) == asset = "btc"
-----------------------------------------------------------------------------
(* deser_string_or_vec: a list loses the elements that are no strings, an  *)
(* encoded list that has one is lost whole.                                *)
IsText(outcome) == outcome # "not a string"

Texts(event) ==
  LET texts == {k \in DOMAIN event.outcomes : IsText(event.outcomes[k])}
  IN  IF event.encoded /\ texts # DOMAIN event.outcomes THEN {} ELSE texts

(* What is left moves up into the places of what is lost. *)
Place(event, k) == Cardinality({j \in Texts(event) : j <= k})

Positions(event, names) ==
  {Place(event, k) : k \in {j \in Texts(event) : event.outcomes[j] \in names}}

First(positions) == CHOOSE k \in positions : \A j \in positions : k <= j

(* Mutant: the ids are taken in their order, whatever the outcomes say. *)
ExtractInOrder(event) == <<event.ids[1], event.ids[2]>>

(* extract_token_ids once there are two ids: by the outcomes' names, else   *)
(* the first two in their order.                                           *)
ExtractTokenIds(event) ==
  LET ups   == Positions(event, {"Up", "Yes"})
      downs == Positions(event, {"Down", "No"})
      named == /\ ups # {} /\ First(ups) <= Len(event.ids)
               /\ downs # {} /\ First(downs) <= Len(event.ids)
  IN  IF named
      THEN <<event.ids[First(ups)], event.ids[First(downs)]>>
      ELSE <<event.ids[1], event.ids[2]>>

(* The MarketInfo of an event, or an error. *)
MarketOf(event, expiry) ==
  IF event.form # "list" \/ Len(event.ids) < 2
  THEN Failed
  ELSE [kind |-> "market", expiry |-> expiry, tokens |-> ExtractTokenIds(event),
        event |-> event]

(* What update_market goes on with after the first answer.                 *)
AsksFallback(answer, asset) == answer.kind # "event" /\ HasFallback(asset)

(* What it returns after the last: an error of the fallback and a missing   *)
(* event are both Err.                                                     *)
Resolved(answer, expiry) ==
  IF answer.kind = "event" THEN MarketOf(answer, expiry) ELSE Failed
=============================================================================

------------------------------ MODULE FiringGate ------------------------------
(***************************************************************************)
(* What the running bot promises of its trading, without the atomics, the  *)
(* signals and the tasks that keep the promise: the market is replaced in   *)
(* one piece, by one replacement at a time; whoever may fire holds a right  *)
(* to; and a right is only ever granted with a market that has just been    *)
(* published.  SniperBot implements it (SniperBot!ImplementsGate).          *)
(***************************************************************************)
EXTENDS Naturals

VARIABLES
  market,   \* the end of the published market
  phase,    \* "open", or how far the replacement of the market has got
  rights    \* how many orders may be fired or are under way

vars == <<market, phase, rights>>

(* A bot starts with a right if it starts with a market. *)
Init ==
  /\ market \in Nat
  /\ phase = "open"
  /\ rights = IF market = 0 THEN 0 ELSE 1

PhaseStep(from, to) == phase = from /\ phase' = to

Begin == PhaseStep("open", "replacing") /\ UNCHANGED <<market, rights>>

Publish ==
  /\ PhaseStep("replacing", "published")
  /\ market' \in Nat /\ market' >= market
  /\ UNCHANGED rights

(* Nothing is published and nobody gets a right. *)
GiveUp == PhaseStep("replacing", "closing") /\ UNCHANGED <<market, rights>>

Grant ==
  /\ PhaseStep("published", "closing")
  /\ rights' \in {rights, rights + 1}
  /\ UNCHANGED market

End == PhaseStep("closing", "open") /\ UNCHANGED <<market, rights>>

(* A rollover takes the right of an armed sniper away; an order that ends   *)
(* gives its right back, in vain if the sniper is armed already.            *)
Withdraw ==
  /\ rights > 0
  /\ rights' = rights - 1
  /\ UNCHANGED <<market, phase>>

Next == Begin \/ Publish \/ GiveUp \/ Grant \/ End \/ Withdraw

Spec == Init /\ [][Next]_vars
=============================================================================

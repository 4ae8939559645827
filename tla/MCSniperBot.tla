----------------------------- MODULE MCSniperBot -----------------------------
(***************************************************************************)
(* Finite instances of SniperBot for TLC.                                  *)
(***************************************************************************)
EXTENDS SniperBot, TLC

(* The feed quotes one ask, and only UP momentum can cross a trigger: the  *)
(* two directions never read each other's trigger.                         *)
UpAsk    == {<<"ask", "Up">>}
UpDeltas == {[dir |-> "Up", level |-> n] : n \in -1 .. MaxShots}

BaseDelta == {[dir |-> "Up", level |-> 0]}

(* The task identities are interchangeable. *)
Tasks == Permutations(Rollovers) \cup Permutations(Trades)
=============================================================================

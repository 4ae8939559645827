---------------------------- MODULE SituationRoom ----------------------------
(***************************************************************************)
(* run_heuristics_loop (src/src/situation_room.rs): every 500 ms, unless a *)
(* rollover is in progress or there is no market, the triggers are         *)
(* recomputed from the book, the time left and the dynamic threshold.  The *)
(* checks come first and the stores last; nothing in between notices a     *)
(* rollover that starts meanwhile.  The EV formula, EvModel's, is abstracted*)
(* to the level of its floor.                                               *)
(***************************************************************************)
EXTENDS SharedState

VARIABLES
  spc,      \* program counter of the loop
  slevel    \* the EV floors, and then the merged triggers

situationVars == <<spc, slevel>>

SituationTypeOK ==
  /\ spc \in {"sleep", "market", "book", "dynamic", "publish"}
  /\ slevel \in [Direction -> 0 .. Veto]

SituationInit ==
  /\ spc = "sleep"
  /\ slevel = [d \in Direction |-> Veto]
-----------------------------------------------------------------------------
(* The sleep ends outside of a rollover; within one the round is skipped. *)
WakeUp ==
  /\ spc = "sleep"
  /\ ~is_rolling_over
  /\ spc' = "market"
  /\ UNCHANGED <<slevel, shared>>

CheckMarket ==
  /\ spc = "market"
  /\ spc' = IF market = NoMarket THEN "sleep" ELSE "book"
  /\ UNCHANGED <<slevel, shared>>

(* calculate_required_momentum vetoes a direction without a real ask; with *)
(* one the floor is whatever the EV equation yields.                       *)
ReadQuotes ==
  /\ spc = "book"
  /\ spc' = "dynamic"
  /\ slevel' \in {floor \in [Direction -> 0 .. Veto] :
                    \A d \in Direction : book[<<"ask", d>>] = None => floor[d] = Veto}
  /\ UNCHANGED shared

MergeDynamic ==
  /\ spc = "dynamic"
  /\ spc' = "publish"
  /\ slevel' = [d \in Direction |-> MergeThresholds(dynamic_threshold, slevel[d])]
  /\ UNCHANGED shared

(* set_triggers.  A tick reads the trigger of one direction, so that the   *)
(* two stores need not be told apart.                                      *)
SetTriggers ==
  /\ spc = "publish"
  /\ spc' = "sleep"
  /\ trigger' = slevel
  /\ slevel' = [d \in Direction |-> Veto]
  /\ UNCHANGED <<wall, marketVars, is_rolling_over, streamVars, emaVars, is_armed,
                 dynamic_threshold, window_shots_fired>>

SituationNext ==
  WakeUp \/ CheckMarket \/ ReadQuotes \/ MergeDynamic \/ SetTriggers
=============================================================================

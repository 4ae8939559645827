-------------------------------- MODULE Config --------------------------------
(***************************************************************************)
(* The configuration that the price models depend on (src/src/config.rs):  *)
(* its values as CONSTANTS, what Config::load enforces of them as an        *)
(* assumption, and the formulas of Config's helpers.                       *)
(*                                                                         *)
(* Prices are in cents, fractions in percent, times in seconds, EV scores   *)
(* in points, momenta in cents of a dollar.  A value that is not a whole   *)
(* number of its unit is out of the models.                                *)
(***************************************************************************)
EXTENDS Integers

CONSTANTS
  TakeProfitPct, SlippagePct, ExitCeiling, MaxBuyPrice, MaxSpread,
  MomentumThreshold, MomentumStepPct,
  KellyScoreA, KellyPctA, KellyScoreB, KellyPctB, KellyPctC,
  MomentumMultiplierPct, BaseScore, MinScore, MaxMomentumBonus, BailoutScore,
  HighPrice, TimeDanger, TimeWarn, TimeDangerPenalty, TimeWarnPenalty,
  NoBidsPenalty,
  DeathTrap1, DeathTrapPenalty1, DeathTrap2, DeathTrapPenalty2,
  SafeBid, SafeTime, ImpatienceSec, ImpatiencePct,
  StartingBankroll

Dollars(n) == 100 * n
Day == 24 * 60 * 60

(* Every validate_range, and the two comparisons of neighbouring tiers. *)
Validated ==
  /\ TakeProfitPct \in 1 .. 100
  /\ SlippagePct \in 0 .. 100
  /\ ExitCeiling \in 1 .. 99
  /\ MaxBuyPrice \in 1 .. 99
  /\ MaxSpread \in 0 .. 100
  /\ MomentumThreshold \in 1 .. Dollars(100000)
  /\ MomentumStepPct \in 0 .. 1000
  /\ {KellyScoreA, KellyScoreB} \subseteq 0 .. 100 /\ KellyScoreB < KellyScoreA
  /\ {KellyPctA, KellyPctB, KellyPctC} \subseteq 0 .. 100
  /\ MomentumMultiplierPct \in 0 .. 100 * 100
  /\ {BaseScore, MinScore, MaxMomentumBonus, BailoutScore} \subseteq 0 .. 100
  /\ HighPrice \in 0 .. 100
  /\ {TimeDanger, TimeWarn, SafeTime, ImpatienceSec} \subseteq 0 .. Day
  /\ {TimeDangerPenalty, TimeWarnPenalty, NoBidsPenalty} \subseteq 0 .. 100
  /\ {DeathTrap1, DeathTrap2} \subseteq 0 .. 100 /\ DeathTrap1 < DeathTrap2
  /\ {DeathTrapPenalty1, DeathTrapPenalty2} \subseteq 0 .. 100
  /\ SafeBid \in 0 .. 100
  /\ ImpatiencePct \in 0 .. 100
  /\ StartingBankroll \in 1 .. Dollars(10000000)

(* load lets nothing else through. *)
ASSUME ConfigAssumption == Validated
-----------------------------------------------------------------------------
Least(a, b) == IF a < b THEN a ELSE b
Most(a, b)  == IF a > b THEN a ELSE b

(* kelly_fraction, in percent. *)
KellyFraction(score) ==
  IF score >= KellyScoreA THEN KellyPctA
  ELSE IF score >= KellyScoreB THEN KellyPctB ELSE KellyPctC

(* escalated_threshold: base * (1 + step)^shots. *)
Escalated(shots) ==
  (MomentumThreshold * (100 + MomentumStepPct)^shots) \div 100^shots
=============================================================================

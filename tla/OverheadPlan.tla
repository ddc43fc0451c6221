----------------------------- MODULE OverheadPlan -----------------------------
(***************************************************************************)
(* bench/overhead: what the script that measures (OverheadRun) and the     *)
(* report over what it leaves (OverheadReport) go through alike, the tiers *)
(* in every one of the passes of run.sh.                                   *)
(***************************************************************************)
EXTENDS Naturals

CONSTANTS
  Tier,       \* the tiers; "a" is the one without a gate
  PASSES

ASSUME TierAssumption == "a" \in Tier
ASSUME PassesAssumption == PASSES \in Nat \ {0}
=============================================================================

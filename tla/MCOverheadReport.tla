--------------------------- MODULE MCOverheadReport ---------------------------
(***************************************************************************)
(* Tiers a, b and d: c and e go through the same lines as d.  16 and 31    *)
(* share a bucket.  Of the three steps above the shortest time, 4 is within *)
(* the cost of the hook, 25 beyond most of it, and -3 lies between two     *)
(* errors of the mean and two deviations.  The times are so long that what *)
(* calls of 1 and 3 take is less than the cross-check can tell.            *)
(***************************************************************************)
EXTENDS OverheadReport

TheMicroTiers == <<"b", "d">>
=============================================================================

--------------------------- MODULE MCCostPolicies ---------------------------
(***************************************************************************)
(* Instances of CostPolicies for TLC.                                      *)
(***************************************************************************)
EXTENDS CostPolicies, TLC

CONSTANTS p1, p2, w1, w2

TwoPolicies == {p1, p2}
TwoWorkers == {w1, w2}

\* The second policy tolerates more than the first.
Limits == p1 :> 0 @@ p2 :> 1
=============================================================================

--------------------------- MODULE MCChangeRequests ---------------------------
(****************************************************************************)
(* Instances of ChangeRequests for TLC.                                     *)
(****************************************************************************)
EXTENDS ChangeRequests, TLC

CONSTANTS w1, w2, l1, d1, o1

OneWorker == {w1}
TwoWorkers == {w1, w2}
OneLimitRequest == {l1}
OneDateRequest == {d1}
Workers == Permutations(TwoWorkers)
OneOrder == {o1}
================================================================================

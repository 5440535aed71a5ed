--------------------------- MODULE MCCreditLedger ---------------------------
(***************************************************************************)
(* Instances of CreditLedger for TLC: two projects, two months.            *)
(***************************************************************************)
EXTENDS CreditLedger, TLC

CONSTANTS p, q, w1, w2

TwoProjects == {p, q}
TwoWorkers == {w1, w2}
Workforce == Permutations(TwoWorkers)

\* Month 1 costs q more than p, month 2 is p's alone.
Costs == (1 :> (p :> 1 @@ q :> 3)) @@ (2 :> (p :> 2 @@ q :> 0))
Fees == (1 :> 1) @@ (2 :> 2)

Setup(org, alloc, minimal) == [org |-> org, alloc |-> alloc, floor |-> minimal]
NoAlloc == [x \in {} |-> 0]

\* A credit without allocations that runs dry; one with a minimal consumption
\* that it can always afford; one held by p as a whole; one shared out.
Openings == {Setup(4, NoAlloc, 0), Setup(9, NoAlloc, 3), Setup(4, p :> 4, 0),
             Setup(5, p :> 2 @@ q :> 3, 0)}

OneOut == {-1}
=============================================================================

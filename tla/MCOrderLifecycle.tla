--------------------------- MODULE MCOrderLifecycle ---------------------------
(****************************************************************************)
(* Instances of OrderLifecycle for TLC: workers, and the endpoints, sweeps  *)
(* and failures that occur in each of them.                                 *)
(****************************************************************************)
EXTENDS OrderLifecycle, TLC

CONSTANTS w1, w2

OneWorker == {w1}
TwoWorkers == {w1, w2}
Workers == Permutations(TwoWorkers)

WithoutRestore == OrderTypes \ {"restore"}
OwnTypes == {"create", "limits", "terminate"}
TerminateOnly == {"terminate"}

Approvals == {"approve_by_consumer", "approve_by_provider"}

\* Everything, for a project whose start date is not set again.
Helpdesk == AllEndpoints \ {"set_project_start_date"}

\* Everything that locks what it decides on, the sweep over the orders' own start
\* dates, and workers that die.  Two overlapping sweeps over a project's start
\* date would send an order that was rejected meanwhile back to its provider.
LockedReviews ==
    Approvals \cup
    {"try_apply_project_auto_approval", "reject_by_provider", "retry",
     "reset_stuck_updating_resources", "process_pending_start_date_orders",
     "unset_project_start_date", "worker_crash"}

\* The same, with the sweep over projects' start dates and workers that do not die.
Routine == (LockedReviews \ {"worker_crash"}) \cup {"process_pending_project_orders"}

\* What it takes to cancel an order that has been approved.
Cancels == Approvals \cup {"cancel"}
================================================================================

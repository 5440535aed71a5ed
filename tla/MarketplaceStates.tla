--------------------------- MODULE MarketplaceStates ---------------------------
(****************************************************************************)
(* The state machines of marketplace orders and resources: the enumerations *)
(* of marketplace/enums.py and the transition tables that django-fsm        *)
(* enforces on the in-memory copy of a row (marketplace/models.py).         *)
(****************************************************************************)
EXTENDS Naturals

\* "unplaced" is an order that does not exist yet, "deleted" one whose row is gone.
PendingStates ==
    {"pending_consumer", "pending_provider", "pending_project", "pending_start_date"}

TerminalStates == {"done", "erred", "canceled", "rejected"}

LiveStates == PendingStates \cup {"executing"} \cup TerminalStates

OrderStates == LiveStates \cup {"unplaced", "deleted"}

\* UPDATE orders come in three kinds, told apart by their attributes:
\* limits (and renewals), a switch of plan, and new option values.
UpdateTypes == {"limits", "plan", "options"}

OrderTypes == {"create", "terminate", "restore"} \cup UpdateTypes

\* "none" is a resource that has not been ordered yet.
ResourceStates ==
    {"none", "creating", "ok", "erred", "updating", "terminating", "terminated"}

\* Sources of Order.set_state_executing and of Order.reject.
ExecutableFrom == PendingStates \cup {"erred"}

\* Source states of Resource.set_state_ok: neither "ok" itself nor "terminated".
MayBecomeOk == {"erred", "creating", "updating", "terminating"}

\* Source states of Resource.set_state_creating.
MayBeCreating == {"terminated", "erred"}

\* The types a waiting order blocks: check_pending_order_exists leaves out
\* pending_project and pending_start_date.
BlockingStates == {"pending_consumer", "pending_provider", "executing"}
================================================================================

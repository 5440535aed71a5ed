---------------------------- MODULE OrderLifecycle ----------------------------
(****************************************************************************)
(* Marketplace orders against one resource: the request handlers that       *)
(* review and move an order, the Celery task that carries it out, the       *)
(* callbacks that settle it, the signal handlers that keep the resource in  *)
(* step, and the periodic sweeps (waldur_mastermind/marketplace).           *)
(*                                                                          *)
(* A handler that locks the order row and checks its state under the lock   *)
(* is one step.  A handler that validates an unlocked read is two: Begin    *)
(* takes the snapshot the handler keeps working on (the order row and, by   *)
(* select_related, its resource), a later step commits what it computes     *)
(* from that snapshot.  save() writes the whole snapshot back,              *)
(* save(update_fields=["state"]) the state alone.  What a handler outside   *)
(* the workers has read and not yet acted on is kept in seen, released and  *)
(* stuck.                                                                   *)
(****************************************************************************)
EXTENDS MarketplaceStates, FiniteSets

CONSTANTS
    OfferingType,      \* "basic", "agent" (site agent), "support" or "script"
    ScriptReview,      \* for "script": auto_approve_marketplace_script is off
    MaxOrders,         \* bound on the orders placed on the resource
    Procs,             \* web and Celery workers
    MaxTasks,          \* bound on the queued process_order calls of one order
    Types,             \* the order types that are placed
    Endpoints          \* the endpoints, sweeps and failures that occur

Orders == 1 .. MaxOrders

\* Endpoints and sweeps that work on an unlocked snapshot.
StaleOps ==
    {"reject_by_consumer", "cancel", "set_state_executing", "set_state_done",
     "set_state_erred", "partial_update", "set_backend_id", "destroy",
     "confirm_pending_terminate_order", "process_pending_start_date_orders",
     "process_pending_project_orders", "mark_resources_as_erred_after_timeout"}

\* What carries an order out: the task, and the handler of a successful limits
\* update that it ends in.
Carriers == {"process_order", "limit_update_succeeded"}
TaskOps == Carriers \cup {"create_issue_for_pending_order", "create_issue_links"}
Ops == StaleOps \cup TaskOps \cup {"place"}

AllEndpoints ==
    StaleOps \cup
    {"approve_by_consumer", "try_apply_project_auto_approval", "approve_by_provider",
     "reject_by_provider", "retry", "unlink", "set_as_ok", "set_as_erred",
     "set_resource_backend_id", "reset_stuck_updating_resources",
     "set_project_start_date", "unset_project_start_date", "backend_failure",
     "worker_crash"}

ASSUME OfferingAssumption ==
    /\ OfferingType \in {"basic", "agent", "support", "script"}
    /\ ScriptReview \in BOOLEAN
ASSUME BoundAssumption == MaxOrders \in Nat /\ MaxTasks \in Nat
ASSUME ScopeAssumption == Types \subseteq OrderTypes /\ Endpoints \subseteq AllEndpoints

VARIABLES
    order,      \* the order rows: type, state, and whether start_date is set
    res,        \* the resource row: state, and whether backend_id is set
    proc,       \* what each worker is in the middle of
    queue,      \* process_order messages waiting for a Celery worker
    early,      \* create_issue_for_pending_order messages waiting
    tickets,    \* orders with a helpdesk issue
    calendar,   \* the project's start date; has the orders' own come?
    seen,       \* has the project's start date still to come, as it was read by
                \* the consumer approvals of each order that are under way
    released,   \* copies of the orders that the handler of an unset project
                \* start date has listed and not yet moved
    stuck,      \* the sweep over resources in UPDATING has listed this one
    granted,    \* history: who has let each order through
    started,    \* history: orders that have been EXECUTING
    overlapped  \* history: orders that two sweeps have listed at once

vars == <<order, res, proc, queue, early, tickets, calendar, seen, released, stuck,
          granted, started, overlapped>>

Rows == [type : OrderTypes, st : OrderStates, delayed : BOOLEAN]
ResourceRows == [st : ResourceStates, backend : BOOLEAN]
Idle == [op |-> "idle"]
ProjectDates == {"unset", "later", "come"}
Handlers == [op : Ops, o : Orders, row : Rows, res : ResourceRows, later : BOOLEAN]

Exists(o) == order[o].st \in LiveStates

--------------------------------------------------------------------------------
(* What the handlers share.                                                   *)

\* order_should_not_be_reviewed_by_provider, negated.
NeedsProviderReview ==
    \/ OfferingType \in {"basic", "agent"}
    \/ OfferingType = "script" /\ ScriptReview

\* Order.start_date is in the future.
StartsLater(row) == row.delayed /\ ~calendar.order

SetState(o, st) == [order EXCEPT ![o].st = st]
SaveRow(o, row, st) == [order EXCEPT ![o] = [row EXCEPT !.st = st]]
SetResource(st) == [res EXCEPT !.st = st]

\* process_order_on_commit: the message is sent once the transaction commits.
Enqueue(o) == queue[o] < MaxTasks /\ queue' = [queue EXCEPT ![o] = @ + 1]
\* (mutation: the on_commit call is forgotten)
ForgetToEnqueue(o, st) == UNCHANGED queue
EnqueueIfExecuting(o, st) ==
    IF st = "executing" THEN Enqueue(o) ELSE UNCHANGED queue

Grant(o, who) == granted' = [granted EXCEPT ![o] = @ \cup {who}]

\* (mutation: the order's own start date is not looked at)
StartAtOnce(row) == "executing"

\* approve_by_provider.
AfterProviderApproval(row) == IF StartsLater(row) THEN "pending_start_date" ELSE "executing"

\* Project.start_date is in the future.
ProjectStartsLater == calendar.project = "later"

\* transition_order_from_consumer_approval; later is what has been read of the
\* project's start date, which is not locked with the order.
AfterConsumerApproval(row, later) ==
    IF later THEN "pending_project"
    ELSE IF NeedsProviderReview THEN "pending_provider" ELSE AfterProviderApproval(row)

\* (mutation: order_should_not_be_reviewed_by_consumer is taken to hold)
SkipConsumerReview(skipsConsumer, later) ==
    IF later THEN "pending_project"
    ELSE IF NeedsProviderReview THEN "pending_provider" ELSE "executing"

\* notify_approvers_when_order_is_created: where a new order goes; it asks for
\* the project's start date but not for the order's own.
AfterPlacement(skipsConsumer, later) ==
    IF ~skipsConsumer THEN "pending_consumer"
    ELSE IF later THEN "pending_project"
    ELSE IF NeedsProviderReview THEN "pending_provider" ELSE "executing"

\* (mutation: the order goes ahead when the project does)
SkipReviewAtProjectStart(row) == AfterProviderApproval(row)

\* continue_order_processing.
AfterProjectStart(row) ==
    IF NeedsProviderReview THEN "pending_provider" ELSE AfterProviderApproval(row)

\* update_resource_state_on_order_rejection_error_or_cancellation, for REJECTED
\* and CANCELED: a refused CREATE or RESTORE terminates the resource, any other
\* refused order returns it to OK unless the copy it looks at is OK already.
\* copy is the resource as the handler has read it.
RefusalAllowed(type, copy) ==
    type \in {"create", "restore"} \/ copy.st \in MayBecomeOk \cup {"ok"}
\* (mutations: a state of the wrong enumeration is stored; CREATE and RESTORE
\* fall through to set_state_ok)
StoreOrderState(type, copy) == SetResource("rejected")
RefusalReturnsToOk(type, copy) == SetResource("ok")
AfterRefusal(type, copy) ==
    IF type \in {"create", "restore"} THEN SetResource("terminated")
    ELSE IF copy.st = "ok" THEN res ELSE SetResource("ok")

\* The same handler for ERRED: only a resource being created is touched.
AfterError(copy) ==
    IF copy.st # "creating" THEN res
    ELSE SetResource(IF copy.backend THEN "erred" ELSE "terminated")

\* set_order_state: the order of that type which is EXECUTING, if there is
\* exactly one; otherwise no order is touched.
Executing(types) == {o \in Orders : order[o].st = "executing" /\ order[o].type \in types}
TheExecuting(types) == {o \in Executing(types) : Executing(types) = {o}}
SyncOrders(types, st) ==
    [o \in Orders |->
        IF o \in TheExecuting(types) THEN [order[o] EXCEPT !.st = st] ELSE order[o]]

Finish(p) == proc' = [proc EXCEPT ![p] = Idle]

--------------------------------------------------------------------------------
(* Placing an order: create_resource_order and OrderCreateSerializer.create.  *)

\* The resource states in which the endpoint of each type is offered; renewing
\* (a limits order) is also offered for a resource in error.
PlacedOn ==
    [create |-> {"none"}, limits |-> {"ok", "erred"}, plan |-> {"ok"},
     options |-> {"ok"}, terminate |-> {"ok", "erred"}, restore |-> {"terminated"}]

\* The validators and check_pending_order_exists, on an unlocked read.
Placing(o) == \E q \in Procs : proc[q].op = "place" /\ proc[q].o = o
NextId(o) ==
    /\ order[o].st = "unplaced" /\ ~Placing(o)
    /\ \A x \in Orders : x < o => order[x].st # "unplaced" \/ Placing(x)

BeginPlace(p, o, type, delayed) ==
    /\ proc[p] = Idle /\ type \in Types
    /\ NextId(o)
    /\ type = "create" => \A x \in Orders : ~Placing(x)
    /\ res.st \in PlacedOn[type]
    /\ delayed => type = "create"
    /\ \A x \in Orders : order[x].st \notin BlockingStates
    /\ proc' = [proc EXCEPT ![p] =
                  [op |-> "place", o |-> o, res |-> res, later |-> ProjectStartsLater,
                   row |-> [type |-> type, st |-> "unplaced", delayed |-> delayed]]]
    /\ UNCHANGED <<order, res, queue, tickets, calendar, granted>>

\* The row is inserted and the post_save handlers run: the first routes the
\* order, update_resource_state_on_order_creation marks the resource unless the
\* copy is in error.  The restore view has made the resource CREATING before.
AtPlacement(type, copy) ==
    IF type \in {"create", "restore"} THEN SetResource("creating")
    ELSE IF copy.st = "erred" THEN res
    ELSE SetResource(IF type = "terminate" THEN "terminating" ELSE "updating")

CommitPlace(p, skipsConsumer) ==
    /\ proc[p].op = "place"
    /\ LET h == proc[p]
           st == AfterPlacement(skipsConsumer, h.later)
       IN  /\ order' = SaveRow(h.o, h.row, st)
           /\ res' = AtPlacement(h.row.type, h.res)
           /\ EnqueueIfExecuting(h.o, st)
           /\ IF skipsConsumer THEN Grant(h.o, "consumer") ELSE UNCHANGED granted
    /\ Finish(p)
    /\ UNCHANGED <<tickets, calendar>>

--------------------------------------------------------------------------------
(* Handlers that lock the order row, or read and write it in one statement.   *)

\* The statement that locks the order reads its project as well, without a lock:
\* an approval that has to wait, or is slow, goes by the date it has read.
ConsumerApprovals == {"approve_by_consumer", "try_apply_project_auto_approval"}
LookAtProject(o) ==
    /\ ConsumerApprovals \cap Endpoints # {}
    /\ order[o].st = "pending_consumer"
    /\ seen' = [seen EXCEPT ![o] = @ \cup {ProjectStartsLater}]
    /\ UNCHANGED <<order, res, proc, queue, early, tickets, calendar, released, stuck,
                   granted, started, overlapped>>

ConsumerClears(o, later) ==
    /\ order[o].st = "pending_consumer" /\ later \in seen[o]
    /\ LET st == AfterConsumerApproval(order[o], later)
       IN  order' = SetState(o, st) /\ EnqueueIfExecuting(o, st)
    /\ Grant(o, "consumer")
    /\ UNCHANGED <<res, proc, tickets, calendar>>

ApproveByConsumer(o) ==
    "approve_by_consumer" \in Endpoints /\ \E later \in BOOLEAN : ConsumerClears(o, later)

\* A project rule clears the order after the placing transaction has committed.
ApplyAutoApproval(o) ==
    /\ "try_apply_project_auto_approval" \in Endpoints
    /\ \E later \in BOOLEAN : ConsumerClears(o, later)

\* (mutation: a validator run before the lock has let a rejected order pass)
ApproveWithoutRecheck(o) ==
    /\ "approve_by_provider" \in Endpoints
    /\ order[o].st \in {"pending_provider", "rejected"}
    /\ LET st == AfterProviderApproval(order[o])
       IN  order' = SetState(o, st) /\ EnqueueIfExecuting(o, st)
    /\ Grant(o, "provider")
    /\ UNCHANGED <<res, proc, tickets, calendar>>

ApproveByProvider(o) ==
    /\ "approve_by_provider" \in Endpoints
    /\ order[o].st = "pending_provider"
    /\ LET st == AfterProviderApproval(order[o])
       IN  order' = SetState(o, st) /\ EnqueueIfExecuting(o, st)
    /\ Grant(o, "provider")
    /\ UNCHANGED <<res, proc, tickets, calendar>>

RejectByProvider(o) ==
    /\ "reject_by_provider" \in Endpoints
    /\ order[o].st = "pending_provider"
    /\ RefusalAllowed(order[o].type, res)
    /\ order' = SetState(o, "rejected")
    /\ res' = AfterRefusal(order[o].type, res)
    /\ UNCHANGED <<proc, queue, tickets, calendar, granted>>

\* The state a retried order puts its resource in; a RESTORE is not retried.
RetryTarget(type) ==
    CASE type = "create" -> "creating"
      [] type \in UpdateTypes -> "updating"
      [] OTHER -> "terminating"

\* (mutation: the state of the order is not checked under the lock)
RetryAnyOrder(o) ==
    /\ "retry" \in Endpoints /\ OfferingType \in {"basic", "agent"}
    /\ Exists(o) /\ order[o].type # "restore"
    /\ order' = SetState(o, "executing")
    /\ res' = SetResource(RetryTarget(order[o].type))
    /\ Enqueue(o)
    /\ UNCHANGED <<proc, tickets, calendar, granted>>

Retry(o) ==
    /\ "retry" \in Endpoints /\ OfferingType \in {"basic", "agent"}
    /\ order[o].st = "erred" /\ order[o].type # "restore"
    /\ order[o].type = "create" => res.st \in MayBeCreating
    /\ order' = SetState(o, "executing")
    /\ res' = SetResource(RetryTarget(order[o].type))
    /\ Enqueue(o)
    /\ UNCHANGED <<proc, tickets, calendar, granted>>

Unlink(o) ==
    /\ "unlink" \in Endpoints /\ Exists(o)
    /\ order' = SetState(o, "deleted")
    /\ UNCHANGED <<res, proc, queue, tickets, calendar, granted>>

--------------------------------------------------------------------------------
(* The resource's own endpoints, the sweep over it, and the calendar.         *)

\* set_as_ok, set_state_ok
SetAsOk ==
    /\ "set_as_ok" \in Endpoints /\ res.st \in MayBecomeOk
    /\ res' = SetResource("ok")
    /\ UNCHANGED <<order, proc, queue, tickets, calendar, granted>>

SetAsErred ==
    /\ "set_as_erred" \in Endpoints /\ res.st # "none"
    /\ res' = SetResource("erred")
    /\ UNCHANGED <<order, proc, queue, tickets, calendar, granted>>

\* The site agent names the backend object behind the resource.
SetResourceBackendId ==
    /\ "set_resource_backend_id" \in Endpoints /\ OfferingType = "agent"
    /\ res.st # "none"
    /\ res' = [res EXCEPT !.backend = TRUE]
    /\ UNCHANGED <<order, proc, queue, tickets, calendar, granted>>

UpdateOrders == {o \in Orders : Exists(o) /\ order[o].type \in UpdateTypes}
LatestUpdateIsDone ==
    \E o \in UpdateOrders : order[o].st = "done" /\ \A x \in UpdateOrders : x <= o

DateComes ==
    /\ ~calendar.order
    /\ calendar' = [calendar EXCEPT !.order = TRUE]
    /\ UNCHANGED <<order, res, proc, queue, tickets, granted>>

ProjectDateComes ==
    /\ ProjectStartsLater
    /\ calendar' = [calendar EXCEPT !.project = "come"]
    /\ UNCHANGED <<order, res, proc, queue, tickets, granted>>

SetProjectStartDate ==
    /\ "set_project_start_date" \in Endpoints
    /\ calendar.project # "later"
    /\ calendar' = [calendar EXCEPT !.project = "later"]
    /\ UNCHANGED <<order, res, proc, queue, tickets, granted>>

\* (mutation: only the first case of the query)
BeginResetIfUpdateIsDone ==
    /\ "reset_stuck_updating_resources" \in Endpoints
    /\ ~stuck /\ res.st = "updating" /\ LatestUpdateIsDone
    /\ stuck' = TRUE
    /\ UNCHANGED <<order, res, proc, queue, tickets, calendar, released, granted>>

\* reset_stuck_updating_resources lists the resource.  The second case of its
\* query waits an hour, which is no bound on what may come before.
BeginReset ==
    /\ "reset_stuck_updating_resources" \in Endpoints
    /\ ~stuck /\ res.st = "updating"
    /\ LatestUpdateIsDone \/ Executing(UpdateTypes) = {}
    /\ stuck' = TRUE
    /\ UNCHANGED <<order, res, proc, queue, tickets, calendar, released, granted>>

\* ... and saves OK over whatever the resource has become, unless it dies.
CommitReset ==
    /\ stuck /\ stuck' = FALSE
    /\ \/ res' = SetResource("ok")
       \/ "worker_crash" \in Endpoints /\ UNCHANGED res
    /\ UNCHANGED <<order, proc, queue, tickets, calendar, released, granted>>

--------------------------------------------------------------------------------
(* process_invitations_and_orders_when_project_start_date_is_unset: once the  *)
(* project is saved, its handler lists the orders that wait for it and moves  *)
(* them one by one.  One such handler is under way at a time.                 *)

UnsetProjectStartDate ==
    /\ "unset_project_start_date" \in Endpoints
    /\ calendar.project # "unset" /\ \A o \in Orders : released[o] = {}
    /\ calendar' = [calendar EXCEPT !.project = "unset"]
    /\ released' = [o \in Orders |->
                       IF order[o].st = "pending_project" THEN {order[o]} ELSE {}]
    /\ UNCHANGED <<order, res, proc, queue, tickets, stuck, granted>>

\* The message follows the save, so it is lost if the handler dies in between.
ReleaseOrder(o, row) ==
    /\ row \in released[o] /\ Exists(o)
    /\ order' = SetState(o, AfterProjectStart(row))
    /\ \/ EnqueueIfExecuting(o, AfterProjectStart(row))
       \/ "worker_crash" \in Endpoints /\ UNCHANGED queue
    /\ released' = [released EXCEPT ![o] = @ \ {row}]
    /\ UNCHANGED <<res, proc, tickets, calendar, stuck, granted>>

\* The handler dies, or fails at an order that is gone: the rest is not moved.
AbandonRelease(o) ==
    /\ released[o] # {}
    /\ \/ "worker_crash" \in Endpoints
       \/ \E x \in Orders : released[x] # {} /\ ~Exists(x)
    /\ released' = [released EXCEPT ![o] = {}]
    /\ UNCHANGED <<order, res, proc, queue, tickets, calendar, stuck, granted>>

--------------------------------------------------------------------------------
(* Handlers that work on an unlocked snapshot of the order and its resource.  *)

\* The state validators: which orders each endpoint or sweep picks up.
AcceptedStates ==
    [reject_by_consumer |-> {"pending_consumer"},
     cancel |-> {"pending_consumer", "pending_provider", "pending_start_date",
                 "executing"},
     set_state_executing |-> {"pending_consumer", "pending_provider", "erred"},
     set_state_done |-> {"executing"},
     set_state_erred |-> LiveStates,
     partial_update |-> {"pending_consumer"},
     set_backend_id |-> LiveStates,
     destroy |-> {"pending_consumer", "pending_provider"},
     confirm_pending_terminate_order |-> {"pending_consumer"},
     process_pending_start_date_orders |-> {"pending_start_date"},
     process_pending_project_orders |-> {"pending_project"},
     mark_resources_as_erred_after_timeout |-> {"executing"}]

\* OfferingTypeValidator, and list_interruptible_offerings for the timeout.
OfferedTo ==
    [op \in StaleOps |->
        CASE op = "cancel" -> {"basic", "support"}
          [] op \in {"set_state_executing", "set_state_erred"} -> {"agent"}
          [] op = "set_state_done" -> {"agent", "basic", "support"}
          [] op = "mark_resources_as_erred_after_timeout" -> {"script"}
          [] OTHER -> {"basic", "agent", "support", "script"}]

\* (mutation: start_date is compared the wrong way round)
DateStillToCome(op, row) ==
    /\ op = "confirm_pending_terminate_order" => row.type = "terminate"
    /\ op = "process_pending_start_date_orders" => row.delayed /\ ~calendar.order
    /\ op = "process_pending_project_orders" => calendar.project = "come"

AlsoRequired(op, row) ==
    /\ op = "confirm_pending_terminate_order" => row.type = "terminate"
    /\ op = "process_pending_start_date_orders" => row.delayed /\ calendar.order
    /\ op = "process_pending_project_orders" => calendar.project = "come"

\* The handlers that look at their copy of the resource, or of the project.
ReadsResource == {"reject_by_consumer", "cancel", "set_state_done", "set_state_erred"}
NoCopy == [st |-> "none", backend |-> FALSE]
ReadsProject == {"confirm_pending_terminate_order"}

Begin(p, op, o) ==
    /\ op \in Endpoints /\ OfferingType \in OfferedTo[op]
    /\ proc[p] = Idle
    /\ order[o].st \in AcceptedStates[op] /\ AlsoRequired(op, order[o])
    /\ proc' = [proc EXCEPT ![p] =
                  [op |-> op, o |-> o, row |-> order[o],
                   res |-> IF op \in ReadsResource THEN res ELSE NoCopy,
                   later |-> op \in ReadsProject /\ ProjectStartsLater]]
    /\ UNCHANGED <<order, res, queue, tickets, calendar, granted>>

\* The request fails, or the sweep dies, before it has written anything.
Rollback(p) ==
    /\ proc[p] # Idle /\ proc[p].op \notin TaskOps
    /\ Finish(p)
    /\ UNCHANGED <<order, res, queue, tickets, calendar, granted>>

\* cancel, reject and fail save the whole row in _set_completed_at_timestamp.
CommitCancel(p) ==
    LET h == proc[p]
    IN  /\ h.op = "cancel"
        /\ RefusalAllowed(h.row.type, h.res)
        /\ order' = SaveRow(h.o, h.row, "canceled")
        /\ res' = AfterRefusal(h.row.type, h.res)
        /\ Finish(p)
        /\ UNCHANGED <<queue, tickets, calendar, granted>>

CommitRejectByConsumer(p) ==
    LET h == proc[p]
    IN  /\ h.op = "reject_by_consumer"
        /\ RefusalAllowed(h.row.type, h.res)
        /\ order' = SaveRow(h.o, h.row, "rejected")
        /\ res' = AfterRefusal(h.row.type, h.res)
        /\ Finish(p)
        /\ UNCHANGED <<queue, tickets, calendar, granted>>

\* The agent reports that it has begun; no process_order message is sent.
CommitSetStateExecuting(p) ==
    LET h == proc[p]
    IN  /\ h.op = "set_state_executing"
        /\ Exists(h.o)
        /\ order' = SetState(h.o, "executing")
        /\ Grant(h.o, "agent")
        /\ Finish(p)
        /\ UNCHANGED <<res, queue, tickets, calendar>>

\* Each edits other fields of the snapshot and saves every column of it.
CommitEdit(p, delayed) ==
    LET h == proc[p]
    IN  /\ h.op \in {"partial_update", "set_backend_id"}
        /\ h.op = "set_backend_id" => delayed = h.row.delayed
        /\ order' = [order EXCEPT ![h.o] = [h.row EXCEPT !.delayed = delayed]]
        /\ Finish(p)
        /\ UNCHANGED <<res, queue, tickets, calendar, granted>>

CommitDestroy(p) ==
    LET h == proc[p]
    IN  /\ h.op = "destroy"
        /\ Exists(h.o)
        /\ order' = SetState(h.o, "deleted")
        /\ Finish(p)
        /\ UNCHANGED <<res, queue, tickets, calendar, granted>>

\* set_order_state and the resource, for an order completed from outside.  The
\* update callback locks the resource row; the others look at the given copy.
Completes(type, copy) ==
    IF type \in UpdateTypes
    THEN /\ res.st # "terminated"
         /\ order' = SyncOrders(UpdateTypes, "done")
         /\ res' = SetResource("ok")
    ELSE LET target == IF type = "terminate" THEN "terminated" ELSE "ok"
         IN  /\ target = "ok" => copy.st # "terminated"
             /\ order' = SyncOrders({type}, "done")
             /\ res' = IF copy.st = target THEN res ELSE SetResource(target)

CommitSetStateDone(p) ==
    LET h == proc[p]
    IN  /\ h.op = "set_state_done"
        /\ Completes(h.row.type, h.res)
        /\ Finish(p)
        /\ UNCHANGED <<queue, tickets, calendar, granted>>

\* The post_save handler runs on the snapshot's resource, then the view locks
\* the resource row and decides again; a step that cannot be taken rolls back.
SeenAfterReport(h) == IF h.row.st = "erred" THEN res ELSE AfterError(h.res)

CommitSetStateErred(p) ==
    LET h == proc[p]
        copy == SeenAfterReport(h)
    IN  /\ h.op = "set_state_erred"
        /\ Exists(h.o)
        /\ h.row.type = "terminate" => copy.st # "terminated"
        /\ order' = SetState(h.o, "erred")
        /\ res' = IF h.row.type = "terminate" THEN [copy EXCEPT !.st = "ok"]
                  ELSE IF copy.st = "terminated" THEN copy
                  ELSE [copy EXCEPT !.st = "erred"]
        /\ Grant(h.o, "agent")
        /\ Finish(p)
        /\ UNCHANGED <<queue, tickets, calendar>>

\* The order was seen PENDING_CONSUMER before it is locked; its state is not
\* looked at again, except by the transition to EXECUTING.
CommitConfirm(p) ==
    LET h == proc[p]
        st == AfterConsumerApproval(order[h.o], h.later)
    IN  /\ h.op = "confirm_pending_terminate_order"
        /\ Exists(h.o)
        /\ st = "executing" => order[h.o].st \in ExecutableFrom
        /\ order' = SetState(h.o, st)
        /\ EnqueueIfExecuting(h.o, st)
        /\ Grant(h.o, "consumer")
        /\ Finish(p)
        /\ UNCHANGED <<res, tickets, calendar>>

\* The sweeps save the state alone, then send the message; they run outside a
\* transaction, so a crash in between loses the message.
\* (mutation: both sweeps start the order)
SweepStartsAll(h) == "executing"
SweepTarget(h) ==
    IF h.op = "process_pending_start_date_orders" THEN "executing"
    ELSE AfterProjectStart(h.row)

CommitSweep(p) ==
    LET h == proc[p]
    IN  /\ h.op \in {"process_pending_start_date_orders", "process_pending_project_orders"}
        /\ Exists(h.o)
        /\ order' = SetState(h.o, SweepTarget(h))
        /\ \/ EnqueueIfExecuting(h.o, SweepTarget(h))
           \/ "worker_crash" \in Endpoints /\ UNCHANGED queue
        /\ Finish(p)
        /\ UNCHANGED <<res, tickets, calendar, granted>>

CommitTimeout(p) ==
    LET h == proc[p]
    IN  /\ h.op = "mark_resources_as_erred_after_timeout"
        /\ order' = SaveRow(h.o, h.row, "erred")
        /\ res' = SetResource("erred")
        /\ Finish(p)
        /\ UNCHANGED <<queue, tickets, calendar, granted>>

--------------------------------------------------------------------------------
(* The process_order task and the processors of the four kinds of offering.   *)

\* The script processors mark the resource before they run the container.
AtTaskStart(type) ==
    IF OfferingType # "script" THEN res
    ELSE CASE type = "plan" -> SetResource("updating")
           [] type = "terminate" -> SetResource("terminating")
           [] OTHER -> res

\* (mutation: the message is not acknowledged until the work is done)
TaskStartKeepsMessage(p, o) ==
    /\ proc[p] = Idle /\ queue[o] > 0 /\ Exists(o)
    /\ res' = AtTaskStart(order[o].type)
    /\ proc' = [proc EXCEPT ![p] =
                  [op |-> "process_order", o |-> o, row |-> order[o], res |-> res',
                   later |-> FALSE]]
    /\ UNCHANGED <<order, queue, tickets, calendar, granted>>

\* A worker takes a message; if the row is gone the task dies at once.
TaskStart(p, o) ==
    /\ proc[p] = Idle /\ queue[o] > 0
    /\ queue' = [queue EXCEPT ![o] = @ - 1]
    /\ IF Exists(o)
       THEN /\ res' = AtTaskStart(order[o].type)
            /\ proc' = [proc EXCEPT ![p] =
                          [op |-> "process_order", o |-> o, row |-> order[o], res |-> res',
                           later |-> FALSE]]
       ELSE UNCHANGED <<res, proc>>
    /\ UNCHANGED <<order, tickets, calendar, granted>>

\* The except branch of utils.process_order, on freshly read rows.
FailOrder(o) ==
    IF Exists(o)
    THEN order' = SetState(o, "erred") /\ res' = SetResource("erred")
    ELSE UNCHANGED <<order, res>>

Outsourced(type) == OfferingType \in {"agent", "support"} /\ type # "options"

\* The site agent polls for EXECUTING orders: nothing is done here.
TaskLeavesToAgent(p) ==
    /\ proc[p].op = "process_order"
    /\ OfferingType = "agent" /\ Outsourced(proc[p].row.type)
    /\ Finish(p)
    /\ UNCHANGED <<order, res, queue, tickets, calendar, granted>>

\* create_issue does nothing for an order that has an issue, which the view
\* that serves CREATE and RESTORE takes for an error.  The resource that is
\* linked to the new issue and saved is the copy get_order_processor has read.
TaskOpensTicket(p) ==
    LET h == proc[p]
    IN  /\ h.op = "process_order"
        /\ OfferingType = "support" /\ Outsourced(h.row.type)
        /\ IF h.row.type \notin {"create", "restore"}
           THEN tickets' = tickets \cup {h.o} /\ UNCHANGED <<order, res>>
           ELSE IF h.o \in tickets
           THEN FailOrder(h.o) /\ UNCHANGED tickets
           ELSE /\ tickets' = tickets \cup {h.o}
                /\ res' = [h.res EXCEPT !.backend = TRUE]
                /\ UNCHANGED order
        /\ Finish(p)
        /\ UNCHANGED <<queue, calendar, granted>>

\* (mutation: the copy is saved after the callback instead of before it)
SaveCopyLast(h) ==
    /\ h.row.type \in {"create", "restore"}
    /\ order' = SyncOrders({"create"}, "done")
    /\ res' = h.res

\* resource_creation_succeeded is also what completes a RESTORE here, though it
\* looks for a CREATE order; the resource row is written from the copy.
TaskCreates(h) ==
    /\ h.row.type \in {"create", "restore"}
    /\ IF h.res.st = "terminated" THEN FailOrder(h.o)
       ELSE /\ order' = SyncOrders({"create"}, "done")
            /\ \E backend \in {h.res.backend, OfferingType = "script"} :
                  res' = [st |-> "ok", backend |-> backend]

\* _process_renewal_or_limit_update: the limits are saved with the copy of the
\* resource,
TaskSavesLimits(p) ==
    /\ proc[p].op = "process_order"
    /\ proc[p].row.type = "limits" /\ ~Outsourced("limits")
    /\ res' = proc[p].res
    /\ proc' = [proc EXCEPT ![p] = [proc[p] EXCEPT !.op = "limit_update_succeeded"]]
    /\ UNCHANGED <<order, queue, tickets, calendar, granted>>

\* ... and limit_update_succeeded completes the order in another transaction.
TaskUpdatesLimits(p) ==
    LET h == proc[p]
    IN  /\ h.op = "limit_update_succeeded"
        /\ IF h.row.st = "executing" /\ h.res.st # "terminated"
           THEN order' = SaveRow(h.o, h.row, "done") /\ res' = [h.res EXCEPT !.st = "ok"]
           ELSE FailOrder(h.o)
        /\ Finish(p)
        /\ UNCHANGED <<queue, tickets, calendar, granted>>

\* _process_plan_switch and _process_options_update: resource_update_succeeded
\* locks the resource; if it raises, resource_update_failed settles both.
TaskUpdates(h) ==
    /\ h.row.type \in {"plan", "options"}
    /\ IF res.st # "terminated"
       THEN order' = SyncOrders(UpdateTypes, "done") /\ res' = SetResource("ok")
       ELSE IF Exists(h.o)
       THEN order' = SyncOrders(UpdateTypes, "erred") /\ res' = SetResource("erred")
       ELSE UNCHANGED <<order, res>>

\* One transaction: the resource is terminated only if the order completes.
TaskTerminates(h) ==
    /\ h.row.type = "terminate"
    /\ IF h.row.st = "executing"
       THEN order' = SaveRow(h.o, h.row, "done") /\ res' = SetResource("terminated")
       ELSE FailOrder(h.o)

TaskDelivers(p) ==
    LET h == proc[p]
    IN  /\ h.op = "process_order" /\ ~Outsourced(h.row.type)
        /\ TaskCreates(h) \/ TaskUpdates(h) \/ TaskTerminates(h)
        /\ Finish(p)
        /\ UNCHANGED <<queue, tickets, calendar, granted>>

\* The container or the helpdesk fails.  A limits update has a handler of its
\* own, limit_update_failed, which saves the whole order row; the helpdesk's
\* failure has marked the resource before.
TaskFails(p) ==
    LET h == proc[p]
    IN  /\ h.op = "process_order"
        /\ "backend_failure" \in Endpoints
        /\ OfferingType \in {"script", "support"} /\ h.row.type # "options"
        /\ OfferingType = "support" => h.o \notin tickets
        /\ IF h.row.type = "limits"
           THEN /\ order' = SaveRow(h.o, h.row, "erred")
                /\ res' = IF OfferingType = "support" THEN SetResource("erred")
                          ELSE AfterError(h.res)
           ELSE FailOrder(h.o)
        /\ Finish(p)
        /\ UNCHANGED <<queue, tickets, calendar, granted>>

\* Messages are acknowledged when they are received, so the work is lost.
WorkerCrashes(p) ==
    /\ "worker_crash" \in Endpoints
    /\ proc[p].op \in TaskOps
    /\ Finish(p)
    /\ UNCHANGED <<order, res, queue, tickets, calendar, granted>>

--------------------------------------------------------------------------------
(* Request-based offerings: the helpdesk issue decides.                       *)

\* create_issue_for_pending_order, sent when a save leaves the order waiting for
\* a date: the description of the issue is written from a copy of the resource,
EarlyTicket(p, o) ==
    /\ proc[p] = Idle /\ o \in early
    /\ early' = early \ {o}
    /\ proc' = IF ~Exists(o) THEN proc
               ELSE [proc EXCEPT ![p] = [op |-> "create_issue_for_pending_order",
                                         o |-> o, row |-> order[o], res |-> res,
                                         later |-> FALSE]]
    /\ UNCHANGED <<order, res, queue, tickets, calendar, seen, released, stuck, granted,
                   started, overlapped>>

\* ... the issue is opened, unless the order has got one meanwhile,
EarlyTicketOpened(p) ==
    LET h == proc[p]
    IN  /\ h.op = "create_issue_for_pending_order"
        /\ \/ h.o \in tickets /\ Finish(p) /\ UNCHANGED <<res, tickets>>
           \/ /\ h.o \notin tickets
              /\ tickets' = tickets \cup {h.o}
              /\ proc' = [proc EXCEPT ![p] = [h EXCEPT !.op = "create_issue_links"]]
              /\ UNCHANGED res
           \/ /\ h.o \notin tickets /\ "backend_failure" \in Endpoints
              /\ res' = SetResource("erred")
              /\ Finish(p) /\ UNCHANGED tickets
        /\ UNCHANGED <<order, queue, calendar, granted>>

\* ... and once it is linked to the resource's other issues, the copy is saved.
EarlyTicketSaved(p) ==
    LET h == proc[p]
    IN  /\ h.op = "create_issue_links"
        /\ res' = [h.res EXCEPT !.backend = TRUE]
        /\ Finish(p)
        /\ UNCHANGED <<order, queue, tickets, calendar, granted>>

\* RESOURCE_CALLBACKS for an issue resolved successfully.  An exception is
\* caught and logged, so a callback that fails half way keeps what it wrote.
IssueSucceeds(type) ==
    IF type \in {"create", "restore"} /\ res.st = "terminated"
    THEN order' = SyncOrders({type}, "done") /\ UNCHANGED res
    ELSE Completes(type, res)

\* ... and for an issue that was not: what becomes of the order and its resource.
IssueFails(type) ==
    CASE type \in {"create", "restore"} ->
            order' = SyncOrders({type}, "canceled") /\ res' = SetResource("terminated")
      [] type \in UpdateTypes ->
            order' = SyncOrders(UpdateTypes, "erred") /\ res' = SetResource("erred")
      [] OTHER ->
            /\ order' = SyncOrders({type}, "erred")
            /\ res' = IF res.st = "terminated" THEN res ELSE SetResource("ok")

\* Every later change of the issue's status resolves it again.
IssueStatusChange(o) ==
    /\ o \in tickets /\ Exists(o)
    /\ IssueSucceeds(order[o].type) \/ IssueFails(order[o].type)
    /\ UNCHANGED <<proc, queue, tickets, calendar, granted>>

--------------------------------------------------------------------------------
(* The specification.                                                         *)

\* A resource that is about to be ordered, is in use, or has been terminated.
Init ==
    /\ order = [o \in Orders |-> [type |-> "create", st |-> "unplaced", delayed |-> FALSE]]
    /\ res \in {[st |-> st, backend |-> st # "none" /\ OfferingType # "basic"] :
                    st \in {"none", "ok", "terminated"}}
    /\ proc = [p \in Procs |-> Idle]
    /\ queue = [o \in Orders |-> 0]
    /\ early = {} /\ tickets = {}
    /\ calendar \in [project : ProjectDates, order : BOOLEAN]
    /\ seen = [o \in Orders |-> {}] /\ released = [o \in Orders |-> {}] /\ stuck = FALSE
    /\ granted = [o \in Orders |-> {}]
    /\ started = {} /\ overlapped = {}

\* The sweeps over waiting orders, and who has listed an order.
Sweeps == {"process_pending_start_date_orders", "process_pending_project_orders"}
Listing(o) == {p \in Procs : proc[p].op \in Sweeps /\ proc[p].o = o}
ListedTwice(o) ==
    \E p \in Listing(o) : Listing(o) # {p} \/ released[o] # {}

\* create_issue_for_pending_support_order runs on every save, and a consumer
\* approval ends when it finds the order past its review; the rest is history.
AfterSave ==
    /\ seen' = [o \in Orders |-> IF order'[o].st = "pending_consumer" THEN seen[o] ELSE {}]
    /\ overlapped' = overlapped \cup {o \in Orders : ListedTwice(o)'}
    /\ started' = started \cup {o \in Orders : order'[o].st = "executing"}
    /\ early' = early \cup
          {o \in Orders : /\ OfferingType = "support" /\ order'[o] # order[o]
                         /\ order'[o].st \in {"pending_start_date", "pending_project"}}

Place(p) ==
    \/ \E o \in Orders, type \in OrderTypes, delayed \in BOOLEAN :
          BeginPlace(p, o, type, delayed)
    \/ \E skipsConsumer \in BOOLEAN : CommitPlace(p, skipsConsumer)

Review(o) ==
    \/ ApproveByConsumer(o)
    \/ ApplyAutoApproval(o)
    \/ ApproveByProvider(o)
    \/ RejectByProvider(o)
    \/ Retry(o)
    \/ Unlink(o)

Outside ==
    \/ SetAsOk
    \/ SetAsErred
    \/ SetResourceBackendId
    \/ DateComes
    \/ ProjectDateComes
    \/ SetProjectStartDate

\* The sweep over the resource and the handler of the project's start date.
Aside ==
    \/ BeginReset
    \/ CommitReset
    \/ UnsetProjectStartDate
    \/ \E o \in Orders : AbandonRelease(o) \/ \E row \in Rows : ReleaseOrder(o, row)

Commit(p) ==
    \/ CommitCancel(p)
    \/ CommitRejectByConsumer(p)
    \/ CommitSetStateExecuting(p)
    \/ \E delayed \in BOOLEAN : CommitEdit(p, delayed)
    \/ CommitDestroy(p)
    \/ CommitSetStateDone(p)
    \/ CommitSetStateErred(p)
    \/ CommitConfirm(p)
    \/ CommitSweep(p)
    \/ CommitTimeout(p)

TaskEnds(p) ==
    \/ TaskLeavesToAgent(p)
    \/ TaskOpensTicket(p)
    \/ TaskDelivers(p)
    \/ TaskUpdatesLimits(p)
    \/ TaskFails(p)

EarlyTicketGoesOn(p) ==
    \/ EarlyTicketOpened(p)
    \/ EarlyTicketSaved(p)

Step ==
    \/ \E p \in Procs :
          \/ Place(p)
          \/ \E op \in StaleOps, o \in Orders : Begin(p, op, o)
          \/ Commit(p)
          \/ Rollback(p)
          \/ \E o \in Orders : TaskStart(p, o)
          \/ TaskSavesLimits(p)
          \/ TaskEnds(p)
          \/ WorkerCrashes(p)
          \/ EarlyTicketGoesOn(p)
    \/ \E o \in Orders : Review(o) \/ IssueStatusChange(o)
    \/ Outside

Next ==
    \/ Step /\ UNCHANGED <<released, stuck>> /\ AfterSave
    \/ Aside /\ AfterSave
    \/ \E o \in Orders : LookAtProject(o)
    \/ \E p \in Procs, o \in Orders : EarlyTicket(p, o)

Spec == Init /\ [][Next]_vars

--------------------------------------------------------------------------------
(* Properties.                                                                *)

Gate == INSTANCE ApprovalGate WITH ProviderReviews <- NeedsProviderReview

\* The rows, the snapshots a handler may save and the queues of Celery hold
\* values of the enumerations the code stores.
TypeOK ==
    /\ order \in [Orders -> Rows]
    /\ res \in ResourceRows
    /\ proc \in [Procs -> Handlers \cup {Idle}]
    /\ queue \in [Orders -> 0 .. MaxTasks]
    /\ early \subseteq Orders
    /\ tickets \subseteq Orders
    /\ calendar \in [project : ProjectDates, order : BOOLEAN]
    /\ seen \in [Orders -> SUBSET BOOLEAN]
    /\ released \in [Orders -> SUBSET Rows]
    /\ stuck \in BOOLEAN
    /\ granted \in [Orders -> SUBSET Gate!Reviewers]
    /\ started \subseteq Orders
    /\ overlapped \subseteq Orders

\* Both sides have let the order through.  An agent that moves an order with
\* set_state_executing or set_state_erred acts for the provider, and those
\* endpoints ask for no consumer review.
Approved(o) == Gate!MayStart(granted[o])

\* No route to EXECUTING (placing, approving, the sweeps, retry, the agent's own
\* reports) skips a review, whatever copies are written back.
WorkNeedsApproval == \A o \in started : Approved(o)

\* What makes it inductive: an order past a review has been let through by it,
\* in its row and in every snapshot that may be written over the row; and what
\* a handler works on is a snapshot its validators have accepted.
PastConsumer == {"pending_provider", "pending_project"}
PastReviews == {"pending_start_date", "executing", "done", "erred"}
Cleared(who, st) ==
    /\ st \in PastConsumer => who \cap {"consumer", "agent"} # {}
    /\ st \in PastReviews => Gate!MayStart(who)
ApprovalInv ==
    /\ \A o \in Orders : Cleared(granted[o], order[o].st)
    /\ \A p \in Procs : proc[p] # Idle => Cleared(granted[proc[p].o], proc[p].row.st)
    /\ \A p \in Procs :
          proc[p].op \in StaleOps => proc[p].row.st \in AcceptedStates[proc[p].op]
    /\ \A o \in Orders : queue[o] > 0 => Approved(o)
    /\ \A p \in Procs : proc[p].op \in Carriers => Approved(proc[p].o)
    /\ \A o \in Orders : \A row \in released[o] :
          row.st = "pending_project" /\ Cleared(granted[o], row.st)
    /\ WorkNeedsApproval

\* Recording reviews and starting work is all that ApprovalGate allows.
GateIsKept == Gate!Spec

\* An order that is only refused stays refused: what the row lock taken by
\* approve_by_provider and reject_by_provider is for.
RejectionIsFinal ==
    [][\A o \in Orders : order[o].st = "rejected" => order'[o].st = "rejected"]_vars

\* No work begins on an order whose start_date has not come: every route to
\* EXECUTING has to ask for it.
StartDateHonoured ==
    [][\A o \in started' \ started : ~StartsLater(order'[o])]_vars

\* An order becomes DONE only in a step that settles its resource as well.
CompletionSettlesResource ==
    [][\A o \in Orders :
          order[o].st # "done" /\ order'[o].st = "done" =>
              res'.st = IF order[o].type = "terminate" THEN "terminated" ELSE "ok"]_vars

\* At most one message or worker at a time carries out an order, so that its
\* create script or backend call is not run twice in parallel, unless two sweeps
\* (or a sweep and the handler of the project's start date) have listed it at
\* once: nothing in the code keeps those apart, and no retry, rejection, dying
\* worker or slow approval does it alone.
Carrying(o) == {p \in Procs : proc[p].op \in Carriers /\ proc[p].o = o}
OneDelivery ==
    \A o \in Orders \ overlapped : queue[o] + Cardinality(Carrying(o)) <= 1

\* The resource of a CREATE order that was refused or canceled is not left
\* behind in a state the platform believes to be in use or in progress.
RefusedCreateIsDown ==
    \A o \in Orders :
        order[o].type = "create" /\ order[o].st \in {"rejected", "canceled"} =>
            res.st = "terminated"

\* The diagram of docs/core-concepts/marketplace.md ends at CANCELED: an order
\* that cancel has taken back is not carried out after all.
CanceledIsNotCarriedOut ==
    [][\A o \in Orders : order[o].st = "canceled" => order'[o].st # "done"]_vars

--------------------------------------------------------------------------------
(* Liveness.  The beat schedule runs every sweep again and again, and Celery  *)
(* has workers of its own, so neither waits for ever behind web requests;     *)
(* calendars advance.  Nobody has to place, review, cancel or retry an order. *)

Save == UNCHANGED <<released, stuck>> /\ AfterSave
Fairness ==
    /\ \A o \in Orders :
          /\ SF_vars((\E p \in Procs : TaskStart(p, o)) /\ Save)
          /\ \A op \in Sweeps : SF_vars((\E p \in Procs : Begin(p, op, o)) /\ Save)
          /\ SF_vars((\E row \in Rows : ReleaseOrder(o, row)) /\ AfterSave)
    /\ \A p \in Procs :
          /\ WF_vars((TaskSavesLimits(p) \/ TaskEnds(p) \/ EarlyTicketGoesOn(p)) /\ Save)
          /\ SF_vars(CommitSweep(p) /\ Save)
          /\ WF_vars((Place(p) \/ Commit(p) \/ Rollback(p)) /\ proc'[p] = Idle /\ Save)
    /\ WF_vars((DateComes \/ ProjectDateComes) /\ Save)
    /\ WF_vars((BeginReset \/ CommitReset) /\ AfterSave)

FairSpec == Spec /\ Fairness

\* An order that process_order carries out by itself comes to an end: its message
\* is sent, and the processor completes it or fails it.  set_order_state completes
\* the only order of its kind in execution, so two at once are left alone.
SameKind(o, x) == order[o].type = order[x].type \/ {order[o].type, order[x].type} \subseteq UpdateTypes
Rivalled(o) == \E x \in Orders \ {o} : order[x].st = "executing" /\ SameKind(o, x)
ExecutingEnds ==
    \A o \in Orders :
        order[o].st = "executing" ~> order[o].st # "executing" \/ Rivalled(o)

\* An approved order that waits for its own date, or for a date of its project
\* that is still set, is found by one of the sweeps once the date has come, or by
\* the handler of the project's start date if that is unset while it waits.
Waiting(o) == order[o].st \in {"pending_start_date", "pending_project"}
DeferredOrderStarts ==
    \A o \in Orders :
        Waiting(o) /\ (order[o].st = "pending_project" => calendar.project # "unset")
            ~> ~Waiting(o)

\* reset_stuck_updating_resources leaves no resource in UPDATING for ever.
UpdatingEnds == res.st = "updating" ~> res.st # "updating"
================================================================================

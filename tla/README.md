# The Waldur marketplace in TLA+

Waldur MasterMind sells resources of providers to projects of customers. This
directory models the part everything else hangs on, the orders and the resource they
are about, and five subsystems around it that decide under concurrency: ids on shared
file systems, requests to change a resource, credit, cost policies, and the evaluation of
proposals. `PROJECT.json` lists the components, the model-checking runs, the lines of code each
definition stands for, the disagreements met between the code and its
documentation, and the theorems.

Contents: 1 the system, 2 the modules, 3 runs, 4 fairness, 5 proofs, 6 disagreements,
7 what is not modelled, 8 plan.

## 1. The system

All code is under `src/src/`. Components, their state, and what makes them correct:

| Component | State it keeps | Operations | What is hard | What makes it correct |
|---|---|---|---|---|
| Orders and resources (`waldur_mastermind/marketplace`) | `Order` and `Resource` rows, each with a django-fsm state; `process_order` messages | REST actions of `OrderViewSet` and `ResourceViewSet`, `post_save` handlers, the `process_order` task, periodic sweeps, callbacks of plugins | handlers validate an unlocked read, some lock and look again; `save()` writes whole stale rows; messages are lost with their worker | no work without review, one completion per order, order and resource settled together |
| Processors (`marketplace/processors.py`, `marketplace_script`, `marketplace_site_agent`) | none of their own | create, update, delete a resource at the backend | one step of several failing | the order ends, in the state the resource is in |
| Request-based offerings (`marketplace_support`) | helpdesk issue per order | open an issue early or at processing, callback at every status change | slow call between read and save, swallowed exceptions, reopened issues | an order follows its issue |
| Site agent (`marketplace_site_agent`) | agent identities, services, queues | poll for orders, report results, event subscriptions | agents disappear, events are reordered | an agent sees every order it must carry out |
| Limit and end-date change requests | request rows with a review state | request, approve, reject, cancel | decisions that race; the resource changes meanwhile | a request is decided once, and applied only if still valid |
| POSIX ids (`marketplace/posix_ids.py`) | pools with ranges and pointers, `PosixIdentity` ledger | allocate, pin, release, recycle | several namespaces under one pool lock; withheld values | a number is held by at most one principal of a provider |
| Offering merge (`marketplace/offering_merge.py`) | merge record, change log | preview, queue, execute, undo | worker dies half way, records change before undo | undo restores or refuses |
| Offering users (`marketplace/models.py`) | account state per user and offering | create, suspend, delete, reports of the provider | user action and provider report race | no account for a user without access |
| Invoices and credits (`invoices`) | invoices, items, customer and project credit, ledger | monthly creation, compensation, adjustment, expiry | concurrent compensation, recalculation | credit is never spent twice; ledger adds up |
| Policies (`policy`) | policy rows, flags on resources | evaluate, fire, reset | two policies on one flag, debounced tasks | a flag is set exactly while a fired policy wants it |
| Calls for proposals (`proposal`) | rounds, proposals, steps, reviews, allocations | submit, review, expire, award | deadlines race with reviewers | one decision, and orders only for awarded proposals |
| Remote marketplaces (`marketplace_remote`) | pulled copies of orders and resources | push and pull | lost and late updates | the copy converges |
| Cloud resources (`waldur_core/core`, `waldur_openstack`) | StateMixin rows, task chains | executors, `StateRouter` to callbacks | chains broken by failures, locks in the cache | backend state reaches the marketplace |
| Users, roles, invitations, quotas (`waldur_core`) | roles with expiry, invitations, counters | grant, revoke, accept, expire | expiry races with renewal, counters under concurrency | role counts and quotas match the rows |
| Bookings, maintenance, promotions, chat, Arrow, reports, authentication, infrastructure plugins | rows of their own | CRUD and synchronisation | mostly I/O | outside the core |

How they interact: a request saves an `Order`; `post_save` handlers, in the same
transaction, move the order and its resource; `transaction.on_commit` sends a Celery
message; a worker runs the processor of the offering's kind, which calls a backend
(a container, a helpdesk, an agent that polls, a cloud); the backend's answer comes back
through a callback (`callbacks.py`), through `sync_order_state`, or through the agent's
REST calls, and settles the order and the resource. Beat runs sweeps over both. An approved
change request places an order or moves the end date, and a sweep terminates resources whose date has
come. Invoice items of the resource draw on credit and trigger policies, which pause it. The award of
a proposal creates a project and its orders. Accounts at an offering draw their ids from the pool of
its provider.

## 2. The modules

| Module | What it is |
|---|---|
| `MarketplaceStates` | the enumerations of `enums.py` and the source states of the transitions of `models.py` that the handlers rely on |
| `ApprovalGate` | an abstract specification: reviews are recorded, never taken back, and work on an order starts only with the reviews it needs |
| `OrderLifecycle` | the orders of one resource, the resource, and everything that moves them; implements `ApprovalGate` |
| `ChangeRequests` | requests to change the limits or the end date of that resource, direct edits, and the daily sweep over end dates |
| `PosixIdPool` | numbers handed out to users and project groups of one provider |
| `CreditLedger` | the credit of one organization, its allocations to projects, and the ledger of their movements |
| `CostPolicies` | policies that pause a resource when it costs too much |
| `ProposalWorkflow` | the evaluation of the proposals of one round of a call |
| `MC...` | one per specification: the sets and functions its runs are about |
| `..._proofs` | the theorems about a specification |

Common to all: a variable per table or per column that matters, a record `proc[w]` for what
a worker, web or Celery, is in the middle of and what it has read, and one action per
transaction. What the database makes atomic is one step. `ActionsViewSet.dispatch` runs a
request in a transaction, so what a handler writes becomes visible at once, but that does not
protect what it has *read*: a handler that decides on an unlocked copy is two steps
(`Begin...` takes the copy, `Commit...` writes what the code computes from it), a handler that
takes the row's lock before it looks is one, or, where other rows are locked on the way, one
step per lock. A sweep that lists rows and then saves them is two steps as well, however short
its loop is.

### 2.1 OrderLifecycle

**State.** `order[o]` is a row of `Order`: its type (an UPDATE is a change of `limits`,
`plan` or `options`, which different code paths serve), its state, and whether it has a
`start_date`. `res` is the `Resource` row: its state, and whether `backend_id` is set.
`unplaced`, `deleted` and `none` stand for rows that do not exist. `proc[p]` holds the
operation, the order, and the copy of the order row and of the resource row a worker goes on
with. `queue[o]` counts the waiting `process_order` messages, `early` holds the waiting
`create_issue_for_pending_order` messages, `tickets` the orders with an issue. `calendar` is
the project's start date (unset, still to come, or come) and whether the orders' own start date
has come. Three variables hold what a handler outside the workers has read and not yet acted on:
`seen` the project's date as the consumer approvals of an order have read it, `released` the
orders that the handler of an unset project date has listed, `stuck` whether
`reset_stuck_updating_resources` has listed the resource. `granted`, `started` and `overlapped`
are history: who has let an order through, which orders have been EXECUTING, and which have been
listed by two sweeps at once.

**Steps.**

- `approve_by_consumer`, `approve_by_provider`, `reject_by_provider`, `retry`,
  `try_apply_project_auto_approval` lock the row and look at its state again: one action each.
  What the consumer's two approvals know of the project is older: the statement that locks the
  order reads the project without a lock (`LookAtProject`), and `ConsumerClears` goes by it.
- `cancel`, `reject_by_consumer`, `set_state_executing`, `set_state_done`,
  `set_state_erred`, `partial_update`, `set_backend_id`, `destroy`,
  `confirm_pending_terminate_order`, both start-date sweeps and the two-hour timeout work on
  an unlocked copy: `Begin` checks the state validator and takes the copy, `Commit...` writes.
  Where the code calls `save()` the whole copy is written (`SaveRow`); where it calls
  `save(update_fields=["state"])`, the state (`SetState`). `Rollback` ends any of them before
  it has written anything.
- Placing an order is two steps for the same reason: `check_pending_order_exists` and the
  endpoint's validators, then the insert with its `post_save` handlers (routing of the order,
  state of the resource). The project's date is read with the first.
- The project's start date comes by itself, or is set again or unset. Unsetting it lists the
  orders in PENDING_PROJECT (`UnsetProjectStartDate`), which are then moved one by one
  (`ReleaseOrder`); the handler may die or fail on the way (`AbandonRelease`). One such handler is
  under way at a time. The sweep `process_pending_project_orders` finds an order only while the
  date is set and has come (`start_date__lte` leaves out a null).
- The task is two steps: `TaskStart` takes the message and loads the order and, in
  `get_order_processor`, the resource; one of `TaskLeavesToAgent`, `TaskOpensTicket`,
  `TaskDelivers`, `TaskFails` writes. An update of limits is one more: the resource is saved
  (`TaskSavesLimits`) and, in another transaction, the order is completed
  (`TaskUpdatesLimits`). `WorkerCrashes` loses the work: messages are
  acknowledged early. The task of the early issue is three: copy, issue, save.
- A sweep saves each order in autocommit and sends the message after: `CommitSweep` may do
  the first without the second when workers may die.
- `reset_stuck_updating_resources` lists the resource (`BeginReset`) and saves OK over whatever it
  has become (`CommitReset`).

The handlers' side effects are part of them: `AfterRefusal` and `AfterError` are
`update_resource_state_on_order_rejection_error_or_cancellation`, `AtPlacement` is
`update_resource_state_on_order_creation`, `AfterSave` is
`create_issue_for_pending_support_order`, which looks at every save.

**Parameters and assumptions.** `OfferingType` selects the validators and processors;
`ScriptReview` is the installation's setting for script offerings; `Types` and `Endpoints`
restrict what occurs in an instance. `ENABLE_ORDER_START_DATE` and `USE_ATOMIC_TRANSACTION` are
on. The calendar is two dates, one of the project and one common to the orders. The hour that
`reset_stuck_updating_resources` and the two hours that `mark_resources_as_erred_after_timeout`
wait are no bound on what else may happen first, so both may run at any time. Plugin options
that skip or add a review for one side are the free choice `skipsConsumer` when an order is
placed. An early issue's backend identifier is taken to be set.

### 2.2 ChangeRequests

`request[r]` is a row of `ResourceLimitChangeRequest` or `ResourceEndDateChangeRequest`
(`ReviewMixin` states), `res` the resource with its limits and `end_date`, `order` the orders
open on it, `today` the date, `acted` the history of how often the system acted on a request.
`approve`, `reject` and `cancel` of an end-date request go through `_lock_pending_request`:
`PendingUnderLock` is that lock and the second look. Those of a limits request have neither:
`BeginDecideLimits` takes the decision, `CommitApproveLimits` and `CommitRefuseLimits` write it.
`BeginSweep` is the query of `terminate_expired_resources`, `SweepApproves` and `SweepPlaces` what
`terminate_resource` does with one resource of the list. The reviews of an order are one step
each here, and its completion saves the copy of the resource it began with; `OrderLifecycle` has
the detail. The hour that `reset_stuck_updating_resources` waits before it lists a resource
(`BeginReset`; `CommitReset` saves its state whatever it has become) and the day that a failed
termination is left alone (`FailureIsOld`) are no bound here either.

### 2.3 PosixIdPool

`range[r]` is a range of `PosixIdPool` with its next pointer, `held[pool][w]` the active
`PosixIdentity` of a principal, `freed` the released ones, `account` and `gid` the copies of the
numbers that `OfferingUser.backend_metadata` and `ServiceProviderProjectGroup` carry. `source` of an
account is history: the pool its number came from. `Offered` is `_candidate_value`, iterated as a
bulk allocation iterates it: numbers given back come first, unless one of their releases withheld
them, then those from the pointer on. `Hand` is the slow path of `_allocate_in_pool` under the pool's
lock.

What a request reads before it takes the pool's lock, or without it, is a step of its own:

- `BeginFill` asks for a number (without a lock if the principal has one already), `CommitFill`
  saves the account as it was read, with that number in it;
- `BeginPin` looks for the number in the pool's range, `CommitPin` locks the pool, takes the number
  and copies it to the user's other accounts (`Pinned` is `project_shared_values`); `BeginSetGid` and
  `CommitSetGid` do it for a group, `BeginAllocateGid` and `CommitAllocateGid` are the allocation
  after the commit that created it;
- `BeginDelete` computes what the user's other accounts still use, `CommitDelete` removes the row and
  gives the rest back (`Release` is `release_user_allocations`);
- `BeginUpdatePool` reads the pool's row and validates the form, `CommitUpdatePool` validates it again
  under the lock and saves the *whole* row as it was read, pointers included (`Candidate`); `Accepted`
  is `validate_pool` with `_check_allocated_values` (`Fits`) and `_check_foreign_identities`.
  `Repoint` is `apply_repoint`, which is one transaction.

All of these overlap freely in every run and theorem, with three exceptions, which `Circumstances`
names and a run lets in through `Occurs`: a range saved while a pin lies between its checks and
its lock (`stale_pin`), a number given back or changed through one account of a user while another
carries it from a pool that its offering no longer draws from (`left_behind`), and overlapping
requests about the accounts of *one* user (`account_race`). The code excludes none of them, and
adding any one of them to `Occurs` of `posix_ids` makes TLC refute `StaysReserved` (section 6). The run
shows what holds beside them; section 5 says which theorem needs which of them to be absent.

### 2.4 CreditLedger

`balance` is the value of `CustomerCredit` (`Org`) and of each `ProjectCredit`; `item[m][p]` the
compensation items of a month; `book` the sums of `CreditTransaction` rows by what they are
filed under; `invoice` the months pending and created; `lock` the holder of the credit's row.
`MonthlyCompensation` is a function of the value it was constructed with: `RolledBack`
(`clear_compensations`), `Drawn` with `Draws`, `DrawItem` and `TopUp`
(`calculate_current_compensations`, minimal consumption), and `ApplySaves` for whether every
`ProjectCredit.save` on the way is accepted. The monthly task first expires overdue credits, then
closes the invoices of its list (`StartTask`, `CommitExpire`, `BeginClose`, `CommitClose`).
`accrue_affiliate_fee` looks for an accrual before it locks the credit, and the unique constraint
decides (`CheckFee`, `BeginFee`, `CommitFee`). `adjust_withdrawable` locks first. The staff
endpoints that apply or clear compensations, and the generic edit, read without a lock.
`StaffAlone` is the named assumption that these run while no other request or task is under way;
without it `Reconciles` does not hold (section 6).

### 2.5 CostPolicies

`fired` is `has_fired` of each policy, `paused` the resource's flag. A change of cost makes
`_debounced_call` claim a cache key and publish a delayed evaluation; a trigger that finds the
key is dropped (`ChangeCost`, `Publish`, `KeyExpires`). Since the key lives as long as the
countdown and was set first, a task that is `Ripe` is one whose key is gone. An evaluation is one
step per statement: `Judge` reads the cost, `Fire` and `Unfire` are the conditional updates of
`has_fired`, `Pause` and `Notify` the actions of the rising edge, `LookForOthers` and
`ResetPausing` those of the falling one. `AlreadyFired` re-applies the pause only in the sweep
(`reconcile_already_fired`). Publishing may fail, tasks may be lost and workers may die at any
step.

### 2.6 ProposalWorkflow

`prop[p]` is the row of `Proposal`: state, the step it stands at, the number of projects it
was given; `inst[p][s]` the status of its step instances; `enabled`, `manual` and `atCutoff`
the call's configuration; `closed` whether the cut-off has passed; `overdue` whether the active
step is past its deadline. `submit` fixes the path (`Path` is `create_step_instances`) and starts it or
holds it for the cut-off. `complete_workflow_step` and `reject_workflow_step` read the proposal
(`BeginDecide`), lock it (`LockProposal`), find the step among the active ones and lock it
(`CompleteStep`, `RefuseStep`, `DecisionRefused`); `mark_expired_workflow_steps` locks the step and
then writes the proposal (`LockOverdueStep`, `ExpireStep`). The two orders of locking may meet:
`LockCycle`, which `EndDeadlock` parts as the database does. The sweeps list and then act, and a
call's steps, modes and start of evaluation are edited in between. `CancelDraft` (the sweep over
rounds that have ended) and `CommitDestroy` write to whatever the row has become since it was read as a
draft; the sweep ends where the row is gone, because the save of a deleted row raises. `lost` is history:
the proposals that were no longer drafts when one of these two wrote over them.

## 3. Runs

| Run | Instance | Shows |
|---|---|---|
| `agent_all` | 1 order of any type, 1 worker, site agent offering, every endpoint, sweep and failure | `TypeOK`, `ApprovalInv` (the inductive invariant), `WorkNeedsApproval`, `GateIsKept` (refinement of `ApprovalGate`) |
| `support_all` | the same for a request-based offering, whose project's date is not set again | `WorkNeedsApproval` on the routes of issues opened early |
| `basic_reviews` | 2 orders, 2 workers, handlers that lock, overlapping runs of the start-date sweep, the handler of an unset project date, worker loss | `RejectionIsFinal`, `StartDateHonoured`, `CompletionSettlesResource`, `RefusedCreateIsDown`, `OneDelivery` |
| `basic_progress` | 2 orders, 1 worker, fair, handlers that lock, both sweeps | `ExecutingEnds`, `DeferredOrderStarts`, `UpdatingEnds` |
| `change_requests` | 1 request of each kind, 1 order row, 2 workers, 1 day, everything | `DateDecisionsAreKept`: the date is written exactly once, for the approved request |
| `expiry` | the same with 1 worker, 2 days, fair, no direct edits | `ExpiredEnds`: a resource whose end date has come is terminated unless the date moves |
| `posix_ids` | 1 user with 2 accounts, 1 group, 2 workers, numbers 1 and 2, ranges that move | `OneHolder`, `KeptOut`, `StaysReserved` under overlapping requests, with gids set outside the ranges |
| `credits` | 2 projects, 2 months, 2 workers, 4 opening positions, every operation | `Reconciles`, `MonthIsBacked`, `AllocationsAreBacked`, `PaidFromEarnings`, `FeesOnce` |
| `policies` | 2 policies with different limits, 2 workers, 2 events, 1 fault, fair | `ChangesAreJudged`, `NotifiesOncePerFire`, `TriggeredIsPaused` |
| `proposals` | 1 proposal, 3 steps, 2 processes, fair, everything, stale sweeps and deletions included | `StandsAtOneStep`, `AcceptedWasEvaluated`, `SubmissionIsKept`, `DecisionIsFinal`, `ClosedRoundEnds` |
| `cancel_race`, `submitted_canceled` | the operations they need | the disagreements of section 6 |

`TypeOK` of every specification is checked in one of its runs.

**OrderLifecycle.** `agent_all`, `support_all` and the theorems ask what holds
*whatever* stale copies are written back; the `basic_*` runs ask the stronger properties of
the part of the system that locks what it decides on, where they hold. `MaxOrders` orders are
placed on the resource, `MaxTasks` messages of an order wait at a time (a step that would send one
more is not taken). One order and one worker show a stale copy written over any step of a locked
handler, since those need no worker; two stale copies over one another are covered by the
theorems, which hold for any number of workers, orders and every kind of offering. Two orders are
needed for the properties that relate an update or a termination to an earlier order. In both
`basic_*` runs `MaxTasks` is 2, so that a second message of an order can be sent where the code
sends one: in `basic_reviews` by two workers that run the start-date sweep at once. `OneDelivery` speaks
of the orders that no two sweeps have listed at once (the others are `overlapped`), also while
other orders are: two that have listed an order each send a message for it, since nothing in the
code keeps them apart.
`process_pending_project_orders` is left out of `basic_reviews`: two runs of it return an order
that was rejected in between to PENDING_PROVIDER (section 6). Both runs leave RESTORE out, whose
completion on a BASIC offering is a disagreement of its own, and `basic_progress` places one type
of update, since all three complete alike. `DeferredOrderStarts` asks of an order in
PENDING_PROJECT that its project has a start date at some time while the order waits; one that comes
to wait after the date was unset waits for ever (section 6). `support_all` and both `basic_*` runs unset the project's
start date but do not set it again; `agent_all` does both.

**The others.** Two workers race each other and a sweep; a third would repeat one of them. One
order row is enough in `ChangeRequests` because an order that has ended frees it and
`check_pending_order_exists` keeps a second from being placed, except by a race that `OrderLifecycle`
has. In `PosixIdPool` number 1 may move from the GID range to the override pool or to
the range for groups and back, and 2 stays; so each of a pinned, released, withheld and
out-of-range number occurs, with an exhausted pool. Two principals compete for them, a user, who recycles
numbers and moves between pools, and a group, whose number may be set to any that is free; a second
user is beyond TLC with two workers, and the theorems are for any number. In `CreditLedger` the opening positions are a credit that runs dry, one with a
minimal consumption it can afford, one held by a project as a whole, and one shared out to both; month 1 is billed,
rolled back, re-applied and expired while month 2 opens. `MaxEvents` and `MaxFaults` bound
`CostPolicies`: two changes (up and down, or one and a flag of the provider or of staff) and one
fault. Proposals of `ProposalWorkflow` do not meet each other except in the lists of the
sweeps, so one is enough; step 1 is any first step, 2 the mandatory decision, which may be manual, 3
the award, which may be disabled. The properties of `proposals` speak of the proposals that are not
`lost`, and two of them of the lost ones too: `AcceptedWasEvaluated` (no project without an
evaluation) and `ClosedRoundEnds`.

`CHECK_DEADLOCK FALSE` stands where a system with bounded rows or days comes to rest;
`posix_ids`, `credits` and `policies` are checked for deadlock.

## 4. Fairness

Nobody has to place, review, cancel, retry, decide or report anything. What is assumed is that
workers end what they begin and that Celery beat runs its schedule.

*OrderLifecycle* (`basic_progress`): strong fairness of taking a message and of each sweep's picking
an order up. Celery has its own workers and beat runs the sweeps again and again
(`marketplace/extension.py`, `waldur_core/server/celery_settings.py`); the one `proc` of the bounded
instance stands for all workers, so they are disabled while a request is being served and weak
fairness would ask nothing of them. Weak fairness of ending what a worker has begun, and strong
fairness of the sweep's commit, so that a sweep does not fail for ever. Weak fairness of the
calendar, and of both steps of `reset_stuck_updating_resources`; strong fairness of `ReleaseOrder`, so
that the handler of an unset date gets to every order of its list. Workers do not die and sweeps are not
interrupted in this run: the code keeps no record by which a lost message could be found, so
without this assumption `ExecutingEnds` does not hold. It makes one exception, of two orders of a
kind in execution at once (`Rivalled`): `set_order_state` completes the only such order or none.

*ChangeRequests* (`expiry`): the daily sweep and `reset_stuck_updating_resources` are run again and
again and get through (strong), a failed
termination becomes a day old, workers finish, and the provider does not refuse or fail a
termination for ever (strong fairness of completing it and of approving it). Without the last a
provider may keep any resource alive, and rightly so.

*CostPolicies* (`policies`): only the sweep (`check_polices`, a crontab of
`policy/extension.py`) and the end of what a worker has begun. Debounced tasks need not arrive; that the
sweep makes up for them is what `TriggeredIsPaused` says.

*ProposalWorkflow* (`proposals`): requests and tasks that have begun go on (weak; strong for those that
wait for a row), the hourly sweeps find a proposal again and again and not each time in the middle
of a decision (strong), deadlines pass. A proposal that waits for a manager's confirmation is left to the
manager (`Parked`).

## 5. Proofs

`OrderLifecycle_proofs` proves, for every kind of offering, any number of orders and of
workers, and any set of endpoints, from the assumptions of `OrderLifecycle` on its constants
(`BoundAssumption` alone is used):

- `TypeCorrect`: `Spec => []TypeOK`;
- `ApprovalCorrect`: `Spec => []ApprovalInv`;
- `WorkIsApproved`: `Spec => []WorkNeedsApproval`;
- `LifecycleKeepsGate`: `Spec => GateIsKept`, the refinement of `ApprovalGate`.

`WorkNeedsApproval` speaks of orders that have been EXECUTING. It is not inductive: a copy
taken long ago may be written over the row, a message sent long ago may be taken, and an
order that waits for a date has to have been let through by then. `ApprovalInv` therefore says
the same of all four places an order's progress is recorded in: the row, the copies workers
hold, the messages, and the workers that carry an order out; and it says that a worker's copy
is one its validators have accepted. It is inductive because reviews are never taken back, so
what was allowed when the copy was taken is allowed when it is written.

The argument is split so that no step needs the whole state. Each action is shown to
*respect* the reviews (`Respects`: reviews only grow, an order moves and a copy is
taken only as far as the reviews allow, a message is sent only for an order that is let
through), with lemmas for the kinds of writes the handlers are made of (`OrderWritesRespect`,
`SyncRespects`, `GrantRespects`, ...); `RespectKeepsApproval` shows once that a
respecting step keeps `ApprovalInv`. `TypeCorrect` has the same shape, one lemma per group
of handlers. The refinement follows from both invariants and the fact that a step
records at most one review (`OneReviewAtATime`).

`OrderOutcomes_proofs` proves the properties that hold only of a part of the system, again for any number
of orders and workers. Each theorem has a named hypothesis on `Endpoints`, `Types` or the kind of
offering; within it the endpoints may be any set.

| Theorem | Hypothesis | Inductive invariant |
|---|---|---|
| `RejectionsAreFinal`: `RejectionIsFinal` | none of `Rethinks`, the endpoints and the sweep over projects, which decide on an unlocked read or take an order away | `BegunInv`: messages, tasks and copies under way are for orders that have begun, or are still as they were read |
| `StartDatesAreHonoured`: `StartDateHonoured` | `DatesAreAsked`: the provider reviews orders, and an agent has no `set_state_executing` or `set_state_erred` | `DatesInv`: whatever is under way is for an order that has started, or whose date has come |
| `CompletionsSettle`: `CompletionSettlesResource` | `Attended`: no helpdesk, `set_state_done` or `set_backend_id` | `SnapshotInv` alone |
| `RefusedCreatesAreDown`: `RefusedCreateIsDown` | `Enclosed`: no `Rethinks`, `set_as_ok`, `set_as_erred`, RESTORE or helpdesk | `CreateInv`: a CREATE that waits or is rejected is alone with its resource |
| `DeliveredOnce`: `OneDelivery` | `DeliveredInTurn`, see below | `TurnInv`: of an order that no two sweeps have listed at once, message, worker and the sweep that has listed it exclude each other, and hold it where nobody else can start it |

All of them stand on `SnapshotInv`, the bookkeeping of copies (a handler that runs has accepted its copy, an
order keeps its type in every copy, an order is placed by one worker), and on three lemmas that say what a
step of the whole system can be: `Moves` (every order that changes was placed, reviewed, dated by the
handler of an unset project date, synced by `set_order_state`, written by a handler with a copy, or worked
on by its task), `Turns` (a worker is left alone, begins something or ends) and `Messages` (a message is
sent only by a step that starts the order, from a state that waits or from a list made earlier).

The hypotheses are not there for the prover. Adding any one of `Rethinks` to the instance `basic_reviews` (to
the same instance of a site agent, for the agent's two reports) makes TLC refute `RejectionIsFinal`; so do,
each for its property, the two reports of an agent and an offering that the provider does not review
(`AfterPlacement` looks at the project's date only), `set_state_done` and `set_backend_id`, and `set_as_ok`,
`set_as_erred` and RESTORE. `RefusedCreateIsDown` fails with five of `Rethinks`; for the others the hypothesis
may be stronger than needed.

`DeliveredInTurn` leaves out `partial_update`, `set_backend_id` and `confirm_pending_terminate_order`, and
`set_state_erred` where failed orders can be retried; with any of them TLC finds two messages for one
order. Nothing is assumed of the workers: there may be any number, and each may run a sweep, also over an
order that another has listed. That order is then `overlapped`, and two messages may be sent for it; the
theorem says that nothing else sends a second one, neither the handler of an unset date with a
slow approval, nor a retry after a lost message or a cancellation. Where failed orders are retried *and* plans or options are
switched, `DeliveredInTurn` leaves out the sweeps, RESTORE and the endpoints that take orders out of execution
too: a failed switch fails whichever update is in execution (`TaskUpdates`), maybe one with a message of
its own. TLC finds no violation with two orders there (`basic_reviews` has the start-date sweep, retries and
switches), so this last part is sufficient and perhaps not needed.

`ChangeRequests_proofs` (any number of requests, orders, workers and days; from
`DaysAssumption` and `RequestsAssumption`):

- `TypeCorrect`: `Spec => []TypeOK`;
- `DateDecisions`: `Spec => []DateDecisionsAreKept`. Inductive with `DateLocks`: while a worker
  approves a request, the request is pending and nobody else approves it, and refusals in two
  steps are of limits requests only. This is what `_lock_pending_request` has to provide.

`CostPolicies_proofs` (any policies and limits, any finite set of workers, any number of changes and
faults; from `PolicyAssumption`):

- `TypeCorrect`: `Spec => []TypeOK`, with `OneEvaluationPerEvent`, which bounds the scheduled
  evaluations by the changes there were;
- `DebounceJudgesChanges`: `Spec => []ChangesAreJudged`, from `DebounceInv`: a claimed key guards a task
  that is being published or waits, a debounced task is about one policy, and what is dirty has a
  task ahead of its reading of the cost;
- `NotificationsAreOwed`: `Spec => []NotifiesOncePerFire`, from `NotifyInv`: the workers that have won
  an edge of `has_fired` and not notified yet are no more than the notifications owed. It is proved
  by counting these workers (`FiniteSetTheorems`), hence the finite set.

`PosixIdPool_proofs` (any numbers, users, groups, workers and edits of the ranges; from
`NumbersAssumption`, `EditsAssumption` and `PrincipalsAssumption`):

- `TypeCorrect`: `Spec => []TypeOK`, for overlapping requests too: a range's pointer stays inside it or
  one past its end;
- `NumbersHaveOneHolder`, `RangesKeepOut`: `OneHolder` and `KeptOut`, together in `HolderInv` with
  `RangesApart` (ranges of different pools share no number), `PinsInside` and `PinsKeepOut` (what has been
  checked of a number about to be pinned or set is still so) and `GroupsKeepOut` (groups hold nothing in the
  override pool). Neither is inductive alone: that a number handed out is free in *all* pools follows
  from `KeptOut`, and that a moved range takes in nobody's number from the check in `validate_pool`. The
  hypothesis is `PinsAreServed`, that `"stale_pin"` is not in `Occurs`; TLC refutes both
  properties without it. All requests overlap otherwise, those about one user's accounts included;
- `NumbersStayReserved`: `StaysReserved`, with `OnePerUser` (requests about one user follow each other) and
  `TasksFresh` (what a worker has read of its user's numbers is still so) in `LedgerInv`. The
  hypothesis is `NoCircumstances`; TLC refutes the property with each of the three. Requests about different users, groups and ranges overlap freely. The property is about every
  account with a number, in whatever pool that number was handed out.

`ProposalWorkflow_proofs` (any proposals and processes, a catalogue of any length, any steps that are
optional or manual; from `WorkflowAssumption` alone): `TypeCorrect`, `StandsSomewhere` (`StandsAtOneStep`),
`EvaluatedOnce` (`AcceptedWasEvaluated`), `SubmissionSurvives` (`SubmissionIsKept`) and `DecisionStands`
(`DecisionIsFinal`). The sweep over ended rounds and the deletion write over whatever a row has become, as the
code does; what the properties promise of a proposal ends when one of them has written over it (`lost`), and
types and evaluation hold for it all the same. One invariant gives all five. `Fine` says what the rows of a
proposal look like in each state: in review, every step before the one it stands at is completed,
expired or skipped, that one is active or completed, and those after it are pending or skipped; so the steps
left are exactly the pending ones, and an acceptance finds all of them behind it. `LostFine` says what is
left of this once a stale copy was written over the state: the steps are in order, whatever state
is beside them. `ExpiryHolds` says that
a step locked to be expired stays active and is locked once. A step of the system is `Proper`: it
leaves a proposal alone; or the proposal was open, is `Fine` afterwards, and none of its steps is
locked by another process; or it was lost and stays `LostFine`. Each action is shown to be `Proper`, and `Proper` to keep the invariant.
The two action properties are read off `Proper`.

`CreditSums_proofs` and `CreditLedger_proofs` (any projects, finitely many; any workers, months, prices, fees,
opening positions, amounts and edits; from `ScopeAssumption` and `AmountAssumption`).

The first is about the operators. A balance is a sum over a set (`Total`), which the community modules
define by a recursive function over subsets; the induction over a finite set is carried out as
a minimal counterexample (`FiniteMinimum`, from the well-foundedness of strict inclusion), so no fact
with an operator parameter is needed. `SumExists` shows that the recursive function is there, `TotalStep`,
`TotalChange` and `TotalOfSums` what a sum does when an element or a value changes.
`PricesOrdered` shows that the items of a month can be put in the order of their price, `DrawsExist` that
the loop over them is a function, and `DrawnKeeps` what `calculate_current_compensations` keeps:
for every project, allocation and items add up to what they added up to before, and without a minimal
consumption so do the organization's credit and all items.

The second shows that every step changes the credit in one of five ways (`Changes`: a position is saved, or
a fee, an adjustment, an edit or the expiry is booked) by the worker that holds the lock or while nobody
does (`Steps`), and from that:

- `TypeCorrect`: `TypeOK`, with `TypeInv`: exactly the worker in a locked transaction holds the lock;
- `AllocationsBacked`: `AllocationsAreBacked`. No hypothesis: not even two staff requests on old copies of the
  organization's credit break it, since items and allocations are read in the step that writes them;
- `FeesEarnedOnce`: `FeesOnce`, and `PaidFromEarned`: `PaidFromEarnings`, with `EarningsInv`: what a worker that
  adjusts has read of the earnings is still so, by the lock. No hypothesis;
- `LedgerReconciles`: `Reconciles` under `StaffAlone`, with `LedgerInv`: every copy of the credit is up to date
  when it is written. Without `StaffAlone` it does not hold (section 6);
- `MonthsBacked`: `MonthIsBacked` under `PlainSetups`, that no opening position has a minimal consumption and
  credit is shared out to all projects or to none, with `SolventInv` (nothing is overdrawn) and
  `PaidMonths` (items and draws of a month are equal). It does not need `StaffAlone`. With a minimal
  consumption a month without items is not rolled back before it is drawn again (`HasItems`), so
  its top-up is charged each time, and with some projects funded and others not the organization's
  value may become negative, and a roll-back then returns more than was drawn: for such positions
  the property depends on the amounts, and `credits` checks it for two of them.

Only model-checked:

- liveness and fairness (`ExecutingEnds`, `DeferredOrderStarts`, `UpdatingEnds`, `ExpiredEnds`,
  `TriggeredIsPaused`, `ClosedRoundEnds`), which are beyond this prover;
- `MonthIsBacked` for opening positions that are not `PlainSetups`.

Every other property of a passing run is stated by a theorem.

## 6. Where code and documentation disagree

Two runs find a quoted statement violated:

| Run | Property | What happens |
|---|---|---|
| `cancel_race` | `CanceledIsNotCarriedOut` | a worker has read a TERMINATE order in EXECUTING when `cancel` takes it back and returns the resource to OK; the worker then saves DONE over CANCELED and terminates the resource (`views.py:8315`, `processors.py:480`) |
| `submitted_canceled` | `DraftsOnlyAreCanceled` | the hourly sweep over rounds that have ended cancels a proposal that was submitted after the sweep had listed it as a draft (`proposal/tasks.py:46`) |

The following were met while modelling. They follow from the steps the modules have, or
from lines a module leaves out, and the properties above are stated, or their runs
restricted, so that they hold beside them. No run is kept for each.

*Orders and resources.* An order nobody reviews ignores its start date (`handlers.py:257` against
`models.py:2922`). An issue opened early makes the later processing mark the order ERRED
(`marketplace_support/handlers.py:681`, `create_issue` returns nothing, against the docstring
there). A RESTORE of a BASIC offering stays EXECUTING (`processors.py:107` looks for a CREATE). An
edit returns a started order to PENDING_CONSUMER (`views.py:7890`). The agent's
`set_state_executing`, validated before the provider rejected the order, overrides the rejection
(`views.py:8346`). An order that is deferred by the project's date as it was read before that was unset waits
for ever: the handler of the unset date has looked before the order waits, and the sweep does not find
projects without a date (`order_approval.py:127`, `tasks.py:1608`; `docs/project-lifecycle.md:97` has
PENDING_PROJECT wait until the date is "cleared/reached"). Overlapping runs of a sweep send an
order's message twice, and one over a project's start date returns an order that was rejected in
between to PENDING_PROVIDER (`tasks.py:1617`); an order whose message is lost stays EXECUTING, and so
do two updates in execution at once; `set_state_erred` takes an order out of DONE; retrying an old failed update
revives a terminated resource; an issue that is rejected and then resolved completes an order whose
resource is terminated, and the helpdesk processor's save of an old copy undoes the termination by a
cancel. A destroyed pending order leaves its resource as placing it had left it.

*Change requests.* Nothing locks a limits request: its order may be placed for a request that is
canceled at the same time, and approved twice it places two (`views.py:19528`; the docstring of
`_lock_pending_request` says why the other kind locks). `set_end_date` saves the whole row it has
read (`serializers.py:8915`): it revives a terminated resource, and it may write back TERMINATING
after the order was refused, which no sweep leaves again (adding `"set_end_date"` to `Occurs` of
`expiry` shows it). The completion of a limits order saves an old copy too and may lose an approved
end date. The sweep does not look at the end date again before it terminates.

*POSIX ids.* A project group is never
given a recycled number (`posix_ids.py:537`), yet one a user was pinned to ahead of the pointer and
has given back is handed out by the pointer like any other (`posix_ids.py:356-367`). The three
circumstances of section 2.3:

- `stale_pin`: `set_project_group_gid` and `set_value` look at the ranges before they lock the pool and not
  again. Where a pool is given a range around the number in between, a number is held inside another
  pool's range, and that pool hands it out (`posix_ids.py:605`; the comment at 586 says what the check is
  for). `KeptOut`, `OneHolder` and `StaysReserved` fail.
- `left_behind`: the code asks which pool an account's offering draws from *today*. The number of an account that has not
  been repointed to its offering's new pool is given back when the user's other account is deleted
  (`posix_ids.py:714`; the comment at 782 says that it stays reserved). `StaysReserved` fails.
- `account_race`: an account is filled from what was read before a pin, over the number that was pinned
  (`marketplace/utils.py:4524`; the comment at 2869 says that it is never overwritten).
  `StaysReserved` fails.

*Credit.* Two staff requests that apply compensations at once overwrite each other's value, and the
rows of the ledger add up to something else (`invoices/views.py:1137`; `docs/credit-ledger.md:24-30`
promises the sum). An allocation is drawn together with the organization's credit, so the latter may
become negative (`compensations.py:95-118`). Rolling a month back returns the larger of what was
applied and the minimal consumption. Expired earnings may be withdrawn later from new grants. An
allocation whose save is refused keeps its month's invoice pending for ever. Where two allocations
expire together, the first is refused while the other is positive. `ProjectCredit.save` adds the
new value only when the other allocations add up to zero (`or 0 + self.value`).

*Policies.* `_resources_locked_by_other_policies` is computed before the rows are locked: a pause set
in between is cleared, until the next sweep. A worker that was delayed between `Fire` and `Pause`
pauses a resource whose policy has been reset since; no sweep repairs that.

*Proposals.* Decisions lock the proposal and then the step (the comment at `views.py:3601`), the
expiry the other way round (`tasks.py:861-871`); the database ends one of them with an error. A
proposal that waits for confirmation can no longer be advanced when its step's mode becomes
automatic. The expiry of the decision step activates the award, so a proposal may be accepted that
nobody decided on. `destroy` deletes a copy it validated without a lock: what was submitted
meanwhile goes too (`lost`). A proposal that the sweep has canceled after its submission keeps its
active step, and a decision on that step, or its expiry, moves the canceled proposal on: neither looks at the
proposal's state under its locks (`views.py:3601`, `workflow_service.py:389`; `enums.py:311` calls
CANCELED terminal). In a sweep over rounds that have ended, a draft deleted meanwhile ends the
sweep, and the drafts after it wait for the next one.

## 7. What is not modelled

- Other components: section 1 and `PROJECT.json` name them, section 8 plans most of them.
- Permissions, serializers, prices, notifications, events and texts: no property here
  depends on them. Of the validators, those on states, dates and pending rows are kept.
- The containers of scripts, the helpdesk and the agent are external: they answer, fail or
  never answer.
- Several resources: an order belongs to one, and no code here relates two.
- `ChangeRequests`: `set_backend_id` of a request.
- `PosixIdPool`: the UID namespace (the same code without a range for groups), provider accounts,
  robot accounts, deletion of pools, and the collapse of values handed out per offering.
- `CreditLedger`: making of invoice items, tax and discounts, linear consumption, refunds when a
  project is removed, deletion of credits, offerings a credit is restricted to.
- `CostPolicies`: the evaluation made when a policy is saved, deletion of a policy, termination and
  threshold actions, usage and SLURM policies, downscaling and restriction (the same code on other
  flags), the pausing of projects in their grace period.
- `ProposalWorkflow`: reviews, their assignment and the reviewer pool, conflicts of interest,
  checklists (a gate may refuse), dependencies between steps, other edits of a call, and the
  orders an award places.

## 8. Plan

Done: the modules of section 2.

1. Proofs: `MonthIsBacked` with a minimal consumption, from a condition on the amounts; the last part
   of `DeliveredInTurn`, which may be more than is needed; abstract specifications in the manner of
   `ApprovalGate` and their refinements: a registry that gives a number to one holder
   (`PosixIdPool`), and a decision that is made once (`ProposalWorkflow`).
2. Orders, continued: moved projects, offerings of the marketplace_openstack kind whose completion
   comes through `StateRouter`.
3. G `Executors`: StateMixin, chains and the cache lock of background tasks, composed with
   the callbacks of `OrderLifecycle`.
4. I `OfferingUsers`, H `Invitations`, J `OfferingMerge`, K `AgentQueues`, L
   `Maintenance`, M `RemoteOrders`, then bookings and quotas.

Each is to be one module with its state, one action per operation, a type invariant, the
properties that answer its hazards, a run of at most two or three rows of each table, and a
proof of its most important invariant.

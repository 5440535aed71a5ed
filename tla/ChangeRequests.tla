---------------------------- MODULE ChangeRequests ----------------------------
(****************************************************************************)
(* Requests to change the limits or the end date of a resource, and what    *)
(* they compete with: direct edits of the date, orders, and the daily sweep *)
(* that terminates resources whose end date has come                        *)
(* (marketplace/views.py, waldur_core/core/mixins.py, marketplace/tasks.py, *)
(* marketplace/utils.py).                                                   *)
(*                                                                          *)
(* A decision on an end-date request locks the request's row and looks at   *)
(* its state again; one on a limits request does neither.  The life of an   *)
(* order is the subject of OrderLifecycle: here its reviews are one step    *)
(* each and its completion writes the copy of the resource it began with.   *)
(****************************************************************************)
EXTENDS Integers

CONSTANTS
    LimitRequests,      \* requests to change the limits
    DateRequests,       \* requests to change the end date
    Orders,             \* rows for the orders that are open at a time
    Procs,              \* web and Celery workers
    LastDay,            \* the days are 1 .. LastDay
    Occurs              \* what occurs in an instance, of Circumstances

Days == 1 .. LastDay
NoDate == 0             \* an end_date that is null
Limits == {1, 2}
Requests == LimitRequests \cup DateRequests

\* The offering stops taking requests; a consumer edits the end date directly;
\* a user who may not approve orders terminates the resource.
Circumstances == {"opt_out", "set_end_date", "terminate"}

ASSUME DaysAssumption == LastDay \in Nat \ {0}
ASSUME RequestsAssumption ==
    LimitRequests \cap DateRequests = {} /\ Occurs \subseteq Circumstances

VARIABLES
    today,      \* the date
    accepts,    \* the offering takes requests
    request,    \* rows of the two request models
    res,        \* the Resource row
    order,      \* orders of the resource; an order that has ended frees its row
    proc,       \* what each worker has read and will act on
    acted       \* history: how often the system acted on a request

vars == <<today, accepts, request, res, order, proc, acted>>

ReviewStates == {"none", "pending", "approved", "rejected", "canceled"}
Decided == {"approved", "rejected", "canceled"}
Asked(r) == IF r \in LimitRequests THEN Limits ELSE Days

ResourceRows ==
    [st : {"ok", "erred", "updating", "terminating", "terminated"},
     limits : Limits, end : Days \cup {NoDate}]

\* An erred termination is remembered, since it holds the sweep up for a day.
NoOrder == [type |-> "limits", limits |-> 1, st |-> "none"]
OrderRows ==
    [type : {"limits", "terminate"}, limits : Limits,
     st : {"none", "pending_consumer", "pending_provider", "executing", "erred"}]

Idle == [op |-> "idle"]
Tasks ==
    [op : {"approve", "reject", "cancel"}, r : Requests]
    \cup [op : {"set_end_date"}, res : ResourceRows, end : Days \cup {NoDate}]
    \cup [op : {"terminate"}, st : {"ok", "erred"}]
    \cup [op : {"sweep", "reset"}]
    \cup [op : {"process_order"}, i : Orders, res : ResourceRows]

Starts(p, task) == proc[p] = Idle /\ proc' = [proc EXCEPT ![p] = task]
Ends(p) == proc' = [proc EXCEPT ![p] = Idle]
SetResource(st) == [res EXCEPT !.st = st]

--------------------------------------------------------------------------------
(* Orders.                                                                    *)

Open == {"pending_consumer", "pending_provider", "executing"}
Free(i) == order[i].st \in {"none", "erred"}
SomePending == \E i \in Orders : order[i].st \in Open
PendingTermination ==
    {i \in Orders : order[i].type = "terminate" /\ order[i].st = "pending_consumer"}

SetOrder(i, st) == [order EXCEPT ![i].st = st]
AfterConsumer == {"pending_provider", "executing"}

\* (mutation: the resource of any order is treated as one being created)
PlacementCreates(type, st, row) == [row EXCEPT !.st = "creating"]
\* update_resource_state_on_order_creation, on the copy the request has read.
AtPlacement(type, st, row) ==
    IF st = "erred" THEN row
    ELSE [row EXCEPT !.st = IF type = "terminate" THEN "terminating" ELSE "updating"]

\* The same handler for a refused order of an existing resource.
AfterRefusal == IF res.st = "ok" THEN res ELSE SetResource("ok")

ApproveOrder(i) ==
    /\ \/ order[i].st = "pending_consumer" /\ \E st \in AfterConsumer : order' = SetOrder(i, st)
       \/ order[i].st = "pending_provider" /\ order' = SetOrder(i, "executing")
    /\ UNCHANGED <<today, accepts, request, res, proc, acted>>

RefuseOrder(i) ==
    /\ order[i].st \in {"pending_consumer", "pending_provider"}
    /\ order' = SetOrder(i, "none")
    /\ res' = AfterRefusal
    /\ UNCHANGED <<today, accepts, request, proc, acted>>

BeginProcessing(p, i) ==
    /\ order[i].st = "executing"
    /\ \A q \in Procs : proc[q].op = "process_order" => proc[q].i # i
    /\ Starts(p, [op |-> "process_order", i |-> i, res |-> res])
    /\ UNCHANGED <<today, accepts, request, res, order, acted>>

\* A limits update saves the resource it has read with every column.
CompleteOrder(p) ==
    /\ proc[p].op = "process_order"
    /\ LET h == proc[p] IN
          /\ IF order[h.i].type = "terminate"
             THEN res' = SetResource("terminated")
             ELSE res' = [h.res EXCEPT !.limits = order[h.i].limits,
                                       !.st = IF h.res.st = "terminated" THEN "erred" ELSE "ok"]
          /\ order' = SetOrder(h.i, "none")
    /\ Ends(p)
    /\ UNCHANGED <<today, accepts, request, acted>>

FailOrder(p) ==
    /\ proc[p].op = "process_order"
    /\ order' = SetOrder(proc[p].i, IF order[proc[p].i].type = "terminate" THEN "erred" ELSE "none")
    /\ res' = SetResource("erred")
    /\ Ends(p)
    /\ UNCHANGED <<today, accepts, request, acted>>

\* A day after its failure a termination is tried again.
FailureIsOld(i) ==
    /\ order[i].st = "erred"
    /\ order' = SetOrder(i, "none")
    /\ UNCHANGED <<today, accepts, request, res, proc, acted>>

\* reset_stuck_updating_resources lists the resources, then saves the state of its
\* copies, whatever has become of the rows.  Its other case, a latest update that is
\* done while an older one is still in execution, is part of OrderLifecycle.
BeginReset(p) ==
    /\ res.st = "updating"
    /\ ~\E i \in Orders : order[i].type = "limits" /\ order[i].st = "executing"
    /\ Starts(p, [op |-> "reset"])
    /\ UNCHANGED <<today, accepts, request, res, order, acted>>

CommitReset(p) ==
    /\ proc[p].op = "reset"
    /\ res' = SetResource("ok")
    /\ Ends(p)
    /\ UNCHANGED <<today, accepts, request, order, acted>>

--------------------------------------------------------------------------------
(* Requests.                                                                  *)

\* validate_end_date_for_resource, as far as it depends on the day.
DateIsValid(d) == d >= today

SubmitRequest(r, x) ==
    /\ accepts /\ request[r].st = "none"
    /\ r \in DateRequests => x # res.end /\ DateIsValid(x)
    /\ request' = [request EXCEPT ![r] = [st |-> "pending", asked |-> x]]
    /\ UNCHANGED <<today, accepts, res, order, proc, acted>>

OptOut ==
    /\ "opt_out" \in Occurs /\ accepts
    /\ accepts' = FALSE
    /\ UNCHANGED <<today, request, res, order, proc, acted>>

Decide(r, st) == [request EXCEPT ![r].st = st]
Act(r) == acted' = [acted EXCEPT ![r] = IF @ < 2 THEN @ + 1 ELSE @]

\* The checks of approve, on copies of the request and of the resource.
MayApproveLimits(r) ==
    /\ res.st = "ok" /\ res.limits # request[r].asked
    /\ accepts /\ ~SomePending

BeginDecideLimits(p, op, r) ==
    /\ r \in LimitRequests /\ request[r].st = "pending"
    /\ op = "approve" => MayApproveLimits(r)
    /\ Starts(p, [op |-> op, r |-> r])
    /\ UNCHANGED <<today, accepts, request, res, order, acted>>

\* One transaction: the order is placed and the request approved.
CommitApproveLimits(p, i, st) ==
    /\ proc[p].op = "approve" /\ proc[p].r \in LimitRequests
    /\ Free(i)
    /\ LET r == proc[p].r IN
          /\ order' = [order EXCEPT ![i] =
                          [type |-> "limits", limits |-> request[r].asked, st |-> st]]
          /\ res' = AtPlacement("limits", "ok", res)
          /\ request' = Decide(r, "approved")
          /\ Act(r)
    /\ Ends(p)
    /\ UNCHANGED <<today, accepts>>

CommitRefuseLimits(p) ==
    /\ proc[p].op \in {"reject", "cancel"}
    /\ request' = Decide(proc[p].r, IF proc[p].op = "reject" THEN "rejected" ELSE "canceled")
    /\ Ends(p)
    /\ UNCHANGED <<today, accepts, res, order, acted>>

\* (mutation: the state is the one the validator has seen, without a lock)
PendingWhenValidated(r) == r \in DateRequests /\ request[r].st = "pending"
\* _lock_pending_request
Locked(r) == \E p \in Procs : proc[p].op = "approve" /\ proc[p].r = r
PendingUnderLock(r) == r \in DateRequests /\ ~Locked(r) /\ request[r].st = "pending"

\* approve, under the lock: the resource is read and checked, then written.
BeginApproveDate(p, r) ==
    /\ PendingUnderLock(r)
    /\ res.st = "ok" /\ res.end # request[r].asked
    /\ accepts /\ DateIsValid(request[r].asked)
    /\ Starts(p, [op |-> "approve", r |-> r])
    /\ UNCHANGED <<today, accepts, request, res, order, acted>>

CommitApproveDate(p) ==
    /\ proc[p].op = "approve" /\ proc[p].r \in DateRequests
    /\ LET r == proc[p].r IN
          /\ res' = [res EXCEPT !.end = request[r].asked]
          /\ request' = Decide(r, "approved")
          /\ Act(r)
    /\ Ends(p)
    /\ UNCHANGED <<today, accepts, order>>

RefuseDate(r, st) ==
    /\ PendingUnderLock(r)
    /\ request' = Decide(r, st)
    /\ UNCHANGED <<today, accepts, res, order, proc, acted>>

\* A request or task ends before it has written anything; its locks are gone.
Abandon(p) ==
    /\ proc[p].op \in {"approve", "reject", "cancel", "set_end_date", "terminate", "sweep", "reset"}
    /\ Ends(p)
    /\ UNCHANGED <<today, accepts, request, res, order, acted>>

--------------------------------------------------------------------------------
(* Direct edits, terminations and the daily sweep.                            *)

\* ResourceEndDateSerializer saves the row it has read with every column, in
\* any state of the resource and without a check of the date.
BeginSetEndDate(p, d) ==
    /\ "set_end_date" \in Occurs
    /\ Starts(p, [op |-> "set_end_date", res |-> res, end |-> d])
    /\ UNCHANGED <<today, accepts, request, res, order, acted>>

CommitSetEndDate(p) ==
    /\ proc[p].op = "set_end_date"
    /\ res' = [proc[p].res EXCEPT !.end = proc[p].end]
    /\ Ends(p)
    /\ UNCHANGED <<today, accepts, request, order, acted>>

BeginTerminate(p) ==
    /\ "terminate" \in Occurs
    /\ res.st \in {"ok", "erred"} /\ ~SomePending
    /\ Starts(p, [op |-> "terminate", st |-> res.st])
    /\ UNCHANGED <<today, accepts, request, res, order, acted>>

CommitTerminate(p, i, st) ==
    /\ proc[p].op = "terminate" /\ Free(i)
    /\ order' = [order EXCEPT ![i] = [type |-> "terminate", limits |-> 1, st |-> st]]
    /\ res' = AtPlacement("terminate", proc[p].st, res)
    /\ Ends(p)
    /\ UNCHANGED <<today, accepts, request, acted>>

\* _ready_for_scheduled_termination_filter
\* (mutation: a termination that waits for the consumer is not revisited)
ReadyOnlyIfSettled == res.st \in {"ok", "erred"}
Ready ==
    \/ res.st \in {"ok", "erred"}
    \/ res.st = "terminating" /\ PendingTermination # {}

Expired == res.end # NoDate /\ res.end <= today

\* terminate_expired_resources reads the list of resources, then goes through it
\* (utils.schedule_resources_termination, terminate_resource).
BeginSweep(p) ==
    /\ Expired /\ Ready
    /\ Starts(p, [op |-> "sweep"])
    /\ UNCHANGED <<today, accepts, request, res, order, acted>>

\* A termination that waits for the consumer is approved by the system robot.
SweepApproves(p) ==
    /\ proc[p].op = "sweep"
    /\ \E i \in PendingTermination, st \in AfterConsumer : order' = SetOrder(i, st)
    /\ Ends(p)
    /\ UNCHANGED <<today, accepts, request, res, acted>>

\* Otherwise orders that wait for the consumer are canceled, which settles the
\* resource, and a termination is placed unless another order is in the way.
SweepPlaces(p, i, st) ==
    LET waiting == {k \in Orders : order[k].st = "pending_consumer"}
        cleared == [k \in Orders |->
                       IF k \in waiting THEN [order[k] EXCEPT !.st = "none"] ELSE order[k]]
        settled == IF waiting = {} THEN res ELSE AfterRefusal
    IN
    /\ proc[p].op = "sweep" /\ PendingTermination = {}
    /\ IF /\ \A k \in Orders : cleared[k].st = "none"
          /\ settled.st \in {"ok", "erred"}
       THEN /\ order' = [cleared EXCEPT ![i] =
                            [type |-> "terminate", limits |-> 1, st |-> st]]
            /\ res' = AtPlacement("terminate", settled.st, settled)
       ELSE order' = cleared /\ res' = settled
    /\ Ends(p)
    /\ UNCHANGED <<today, accepts, request, acted>>

SweepEnds(p) == SweepApproves(p) \/ \E i \in Orders, st \in AfterConsumer : SweepPlaces(p, i, st)

NextDay ==
    /\ today < LastDay
    /\ today' = today + 1
    /\ UNCHANGED <<accepts, request, res, order, proc, acted>>

--------------------------------------------------------------------------------

Init ==
    /\ today = 1 /\ accepts = TRUE
    /\ request = [r \in Requests |-> [st |-> "none", asked |-> 1]]
    /\ res \in {[st |-> "ok", limits |-> 1, end |-> d] : d \in Days \cup {NoDate}}
    /\ order = [i \in Orders |-> NoOrder]
    /\ proc = [p \in Procs |-> Idle]
    /\ acted = [r \in Requests |-> 0]

OrderStep ==
    \/ \E i \in Orders : ApproveOrder(i) \/ RefuseOrder(i) \/ FailureIsOld(i)
    \/ \E p \in Procs, i \in Orders : BeginProcessing(p, i)
    \/ \E p \in Procs : CompleteOrder(p) \/ FailOrder(p) \/ BeginReset(p) \/ CommitReset(p)

RequestStep ==
    \/ \E r \in Requests : \E x \in Asked(r) : SubmitRequest(r, x)
    \/ OptOut
    \/ \E p \in Procs, r \in LimitRequests, op \in {"approve", "reject", "cancel"} :
          BeginDecideLimits(p, op, r)
    \/ \E p \in Procs, i \in Orders, st \in {"pending_consumer", "pending_provider", "executing"} :
          CommitApproveLimits(p, i, st)
    \/ \E p \in Procs : CommitRefuseLimits(p) \/ CommitApproveDate(p) \/ Abandon(p)
    \/ \E p \in Procs, r \in DateRequests : BeginApproveDate(p, r)
    \/ \E r \in DateRequests, st \in {"rejected", "canceled"} : RefuseDate(r, st)

ResourceStep ==
    \/ \E p \in Procs, d \in Days \cup {NoDate} : BeginSetEndDate(p, d)
    \/ \E p \in Procs : CommitSetEndDate(p) \/ BeginTerminate(p) \/ BeginSweep(p) \/ SweepEnds(p)
    \/ \E p \in Procs, i \in Orders, st \in Open : CommitTerminate(p, i, st)
    \/ NextDay

Next == OrderStep \/ RequestStep \/ ResourceStep

Spec == Init /\ [][Next]_vars

\* Beat runs the sweeps day after day and workers finish what they begin; a
\* provider does not refuse or fail a termination for ever.
FairSpec ==
    /\ Spec
    /\ \A p \in Procs : WF_vars(CommitSetEndDate(p) \/ CommitApproveDate(p) \/ Abandon(p))
    /\ \A i \in Orders :
          /\ SF_vars(\E p \in Procs : BeginProcessing(p, i))
          /\ SF_vars(\E p \in Procs : proc[p].op = "process_order" /\ proc[p].i = i /\ CompleteOrder(p))
          /\ SF_vars(order[i].st = "pending_provider" /\ ApproveOrder(i))
          /\ WF_vars(FailureIsOld(i))
    /\ SF_vars(\E p \in Procs : BeginSweep(p))
    /\ SF_vars(\E p \in Procs : SweepEnds(p))
    /\ SF_vars(\E p \in Procs : BeginReset(p))
    /\ SF_vars(\E p \in Procs : CommitReset(p))

--------------------------------------------------------------------------------
(* Properties.                                                                *)

\* Types; no request is acted upon more than twice.
TypeOK ==
    /\ today \in Days /\ accepts \in BOOLEAN
    /\ request \in [Requests -> [st : ReviewStates, asked : Limits \cup Days]]
    /\ \A r \in Requests : request[r].asked \in Asked(r)
    /\ res \in ResourceRows
    /\ order \in [Orders -> OrderRows]
    /\ proc \in [Procs -> Tasks \cup {Idle}]
    /\ acted \in [Requests -> 0 .. 2]

\* The system has acted once on a request that is approved and never on another.
Kept(r) == acted[r] = IF request[r].st = "approved" THEN 1 ELSE 0

\* However decisions race, a date is written exactly for the approved request:
\* this is what the lock in _lock_pending_request is for.
DateDecisionsAreKept == \A r \in DateRequests : Kept(r)

\* A resource whose end date has come is terminated in the end, unless the date
\* is moved: whatever orders, reviews and failures are in the way.
ExpiredEnds == Expired ~> (res.st = "terminated" \/ ~Expired)
================================================================================

-------------------------- MODULE OrderOutcomes_proofs --------------------------
(****************************************************************************)
(* Proofs about how orders end, for every number of orders and workers:     *)
(* a refusal is final, no work starts before the date it waits for, an      *)
(* order completes together with its resource, a refused CREATE leaves      *)
(* nothing behind, and no order is carried out twice at once.  Most of them *)
(* hold only without certain endpoints; the hypotheses name those.          *)
(****************************************************************************)
EXTENDS OrderLifecycle_proofs, FiniteSetTheorems

USE DEF PendingStates, TerminalStates, LiveStates, OrderStates, ResourceStates,
        OrderTypes, UpdateTypes

--------------------------------------------------------------------------------
(* How an order moves: by whom, from which state and to which.                *)

WithState(row, st) == [row EXCEPT !.st = st]
WithDelay(row, delayed) == [row EXCEPT !.delayed = delayed]
To(o, st) == order'[o] = WithState(order[o], st)

\* By the worker that places it.
Placed(o) ==
    \E p \in Procs, skips \in BOOLEAN :
        /\ proc[p].op = "place" /\ proc[p].o = o /\ proc'[p] = Idle
        /\ order'[o] = WithState(proc[p].row, AfterPlacement(skips, proc[p].later))
        /\ res' = AtPlacement(proc[p].row.type, proc[p].res)

\* By a handler that locks its row.
Reviewed(o) ==
    \/ /\ order[o].st = "pending_consumer"
       /\ \E later \in BOOLEAN : To(o, AfterConsumerApproval(order[o], later))
    \/ order[o].st = "pending_provider" /\ To(o, AfterProviderApproval(order[o]))
    \/ /\ order[o].st = "pending_provider" /\ To(o, "rejected")
       /\ res' = AfterRefusal(order[o].type, res)
    \/ order[o].st = "erred" /\ To(o, "executing")
    \/ "unlink" \in Endpoints /\ Exists(o) /\ To(o, "deleted")

\* By the handler of the project's start date, which goes by the copy it has listed.
Dated(o) ==
    /\ Exists(o)
    /\ \E row \in released[o] :
          To(o, AfterProjectStart(row)) /\ released'[o] = released[o] \ {row}

\* With its resource.
Settled(o) == res'.st = IF order[o].type = "terminate" THEN "terminated" ELSE "ok"

\* A failed switch of plan or options fails whichever update is in execution.
Switching == Types \cap {"plan", "options"} # {}

\* By set_order_state, on behalf of a task, an issue or the agent's report.
Synced(o) ==
    /\ order[o].st = "executing"
    /\ \E st \in {"done", "erred", "canceled"} :
          /\ To(o, st)
          /\ st = "done" =>
                Settled(o) \/ "set_state_done" \in Endpoints \/ OfferingType = "support"
          /\ st = "erred" => Switching \/ OfferingType = "support"
          /\ st = "canceled" => OfferingType = "support"

\* By a handler that works on the snapshot h.
Wrote(h, o) ==
    \/ h.op = "cancel" /\ order'[o] = WithState(h.row, "canceled")
    \/ h.op = "reject_by_consumer" /\ order'[o] = WithState(h.row, "rejected")
    \/ h.op = "set_state_executing" /\ Exists(o) /\ To(o, "executing")
    \/ /\ h.op = "partial_update"
       /\ \E delayed \in BOOLEAN : order'[o] = WithDelay(h.row, delayed)
    \/ h.op = "set_backend_id" /\ order'[o] = h.row
    \/ h.op = "destroy" /\ Exists(o) /\ To(o, "deleted")
    \/ h.op = "set_state_erred" /\ Exists(o) /\ To(o, "erred")
    \/ /\ h.op = "confirm_pending_terminate_order"
       /\ Exists(o) /\ To(o, AfterConsumerApproval(order[o], h.later))
    \/ h.op \in Sweeps /\ Exists(o) /\ To(o, SweepTarget(h))
    \/ /\ h.op = "mark_resources_as_erred_after_timeout"
       /\ order'[o] = WithState(h.row, "erred")
Committed(o) ==
    \E p \in Procs :
        proc[p].op \in StaleOps /\ proc[p].o = o /\ proc'[p] = Idle /\ Wrote(proc[p], o)

\* By the task that carries it out.
Worked(o) ==
    \E p \in Procs :
        LET h == proc[p]
        IN  /\ h.op \in Carriers /\ h.o = o /\ proc'[p] = Idle
            /\ \E st \in {"done", "erred"} :
                  /\ (Exists(o) /\ To(o, st)) \/ order'[o] = WithState(h.row, st)
                  /\ st = "done" => Settled(o)

Moved(o) ==
    Placed(o) \/ Reviewed(o) \/ Dated(o) \/ Synced(o) \/ Committed(o) \/ Worked(o)

\* The bookkeeping of the snapshots: a handler that is running is offered, and
\* has accepted its snapshot; a
\* placed order keeps its type, and so does every snapshot of it; an order is
\* placed by one worker, and no other works on it before; a limits update belongs
\* to a limits order; and without a helpdesk there are no issues.
SnapshotInv ==
    /\ \A p \in Procs :
          proc[p].op \in StaleOps =>
              /\ proc[p].op \in Endpoints /\ OfferingType \in OfferedTo[proc[p].op]
              /\ proc[p].row.st \in AcceptedStates[proc[p].op]
    /\ \A p \in Procs :
          proc[p] # Idle /\ proc[p].op # "place" =>
              /\ order[proc[p].o].st # "unplaced"
              /\ order[proc[p].o].type = proc[p].row.type
    /\ \A p, q \in Procs :
          proc[p].op = "place" =>
              /\ order[proc[p].o].st = "unplaced" /\ proc[p].row.type \in Types
              /\ proc[q].op = "place" /\ proc[q].o = proc[p].o => q = p
    /\ \A o \in Orders : order[o].st # "unplaced" => order[o].type \in Types
    /\ \A p \in Procs :
          proc[p].op = "limit_update_succeeded" => proc[p].row.type = "limits"
    /\ OfferingType # "support" =>
          /\ early = {} /\ tickets = {}
          /\ \A p \in Procs : proc[p].op \notin {"create_issue_for_pending_order",
                                                "create_issue_links"}

\* What a row with another state, or another start date, has kept.
LEMMA RowWrites ==
    ASSUME NEW row \in Rows
    PROVE  /\ \A st \in OrderStates :
                  /\ WithState(row, st) \in Rows /\ WithState(row, st).st = st
                  /\ WithState(row, st).type = row.type
                  /\ WithState(row, st).delayed = row.delayed
           /\ \A delayed \in BOOLEAN :
                  /\ WithDelay(row, delayed) \in Rows /\ WithDelay(row, delayed).st = row.st
                  /\ WithDelay(row, delayed).type = row.type
    BY DEF Rows, WithState, WithDelay

\* Writing the state of one order, or a snapshot over it, leaves the others alone.
LEMMA WritesOne ==
    ASSUME TypeOK, NEW x \in Orders, NEW row \in Rows, NEW st, NEW o \in Orders
    PROVE  /\ order' = SetState(x, st) =>
                  IF o = x THEN To(o, st) ELSE order'[o] = order[o]
           /\ order' = SaveRow(x, row, st) =>
                  order'[o] = IF o = x THEN WithState(row, st) ELSE order[o]
    BY DEF TypeOK, SetState, SaveRow, To, WithState

\* set_order_state moves the one order in execution.
LEMMA SyncMoves ==
    ASSUME TypeOK, NEW types, NEW st, order' = SyncOrders(types, st), NEW o \in Orders,
           order'[o] # order[o]
    PROVE  /\ order[o].st = "executing" /\ order[o].type \in types /\ To(o, st)
           /\ Executing(types) = {o}
    BY DEF SyncOrders, TheExecuting, Executing, To, WithState

\* Placing an order moves that order only.
LEMMA PlaceMoves ==
    ASSUME TypeOK, NEW p \in Procs, Place(p), NEW o \in Orders, order'[o] # order[o]
    PROVE  Placed(o)
<1>1. PICK skips \in BOOLEAN : CommitPlace(p, skips)
    BY DEF Place, BeginPlace
<1>2. proc[p].o \in Orders /\ proc[p].row \in Rows
    BY <1>1, SnapshotType DEF CommitPlace
<1>3. proc'[p] = Idle
    BY <1>1 DEF CommitPlace, Finish, TypeOK
<1> DEFINE st == AfterPlacement(skips, proc[p].later)
<1>4. order' = SaveRow(proc[p].o, proc[p].row, st)
    BY <1>1 DEF CommitPlace
<1>5. order'[o] = IF o = proc[p].o THEN WithState(proc[p].row, st) ELSE order[o]
    <2> HIDE DEF st
    <2> QED
        BY <1>2, <1>4, WritesOne
<1> QED
    BY <1>1, <1>3, <1>5 DEF Placed, CommitPlace

\* The handlers that lock an order move that order only.
LEMMA ReviewMoves ==
    ASSUME TypeOK, NEW x \in Orders, Review(x), NEW o \in Orders, order'[o] # order[o]
    PROVE  o = x /\ Reviewed(o)
<1>1. order[x] \in Rows
    BY DEF TypeOK
<1>2. \A st : order' = SetState(x, st) => o = x /\ To(o, st)
    BY <1>1, WritesOne
<1>3. ASSUME NEW later \in BOOLEAN, ConsumerClears(x, later)
      PROVE  o = x /\ Reviewed(o)
    BY <1>2, <1>3 DEF ConsumerClears, Reviewed
<1>4. CASE ApproveByProvider(x)
    BY <1>2, <1>4 DEF ApproveByProvider, Reviewed
<1>5. CASE RejectByProvider(x)
    BY <1>2, <1>5 DEF RejectByProvider, Reviewed
<1>6. CASE Retry(x)
    BY <1>2, <1>6 DEF Retry, Reviewed
<1>7. CASE Unlink(x)
    BY <1>2, <1>7 DEF Unlink, Reviewed
<1> QED
    BY <1>3, <1>4, <1>5, <1>6, <1>7 DEF Review, ApproveByConsumer, ApplyAutoApproval

\* What happens to the resource and the calendar moves no order,
LEMMA OutsideMoves ==
    ASSUME Outside
    PROVE  order' = order
    BY DEF Outside, SetAsOk, SetAsErred, SetResourceBackendId, DateComes, ProjectDateComes,
           SetProjectStartDate

\* ... but the handler of the project's start date does.
LEMMA AsideMoves ==
    ASSUME TypeOK, Aside, NEW o \in Orders, order'[o] # order[o]
    PROVE  Dated(o)
<1>1. PICK x \in Orders, row \in Rows : ReleaseOrder(x, row)
    BY DEF Aside, BeginReset, CommitReset, UnsetProjectStartDate, AbandonRelease
<1>2. o = x /\ To(o, AfterProjectStart(row))
    BY <1>1, WritesOne DEF ReleaseOrder
<1> QED
    BY <1>1, <1>2 DEF ReleaseOrder, Dated, TypeOK

\* An order completed by a callback is settled, except by an issue or by a report
\* that goes by a copy of the resource.
LEMMA CompletesMoves ==
    ASSUME TypeOK, NEW type \in OrderTypes, NEW copy, Completes(type, copy),
           NEW o \in Orders, order'[o] # order[o]
    PROVE  order[o].st = "executing" /\ To(o, "done") /\ (copy = res => Settled(o))
<1>1. CASE type \in UpdateTypes
    <2>1. order' = SyncOrders(UpdateTypes, "done") /\ res' = SetResource("ok")
        BY <1>1 DEF Completes
    <2>2. order[o].st = "executing" /\ To(o, "done") /\ order[o].type \in UpdateTypes
        BY <2>1, SyncMoves
    <2> QED
        BY <2>1, <2>2 DEF Settled, SetResource, TypeOK, ResourceRows
<1>2. CASE type \notin UpdateTypes
    <2>1. order' = SyncOrders({type}, "done")
        BY <1>2 DEF Completes
    <2>2. order[o].st = "executing" /\ To(o, "done") /\ order[o].type = type
        BY <2>1, SyncMoves
    <2>3. copy = res => res'.st = IF type = "terminate" THEN "terminated" ELSE "ok"
        BY <1>2 DEF Completes, SetResource, TypeOK, ResourceRows
    <2> QED
        BY <2>2, <2>3 DEF Settled
<1> QED
    BY <1>1, <1>2

\* The callbacks of an issue.
LEMMA IssueMoves ==
    ASSUME TypeOK, SnapshotInv, NEW x \in Orders, IssueStatusChange(x),
           NEW o \in Orders, order'[o] # order[o]
    PROVE  Synced(o)
<1>1. OfferingType = "support"
    BY DEF SnapshotInv, IssueStatusChange
<1>2. \A types, st : order' = SyncOrders(types, st) => order[o].st = "executing" /\ To(o, st)
    BY SyncMoves
<1> DEFINE type == order[x].type
           Ends(st) == order[o].st = "executing" /\ To(o, st)
<1>3. Ends("done") \/ Ends("erred") \/ Ends("canceled")
    <2>1. CASE IssueSucceeds(type)
        <3>1. order' = SyncOrders({type}, "done") \/ order' = SyncOrders(UpdateTypes, "done")
            BY <2>1 DEF IssueSucceeds, Completes
        <3> QED
            BY <1>2, <3>1
    <2>2. CASE IssueFails(type)
        <3>1. CASE type \in {"create", "restore"}
            <4>1. order' = SyncOrders({type}, "canceled")
                BY <2>2, <3>1 DEF IssueFails
            <4> QED
                BY <1>2, <4>1
        <3>2. CASE type \in UpdateTypes
            <4>1. order' = SyncOrders(UpdateTypes, "erred")
                BY <2>2, <3>2 DEF IssueFails
            <4> QED
                BY <1>2, <4>1
        <3>3. CASE type \notin {"create", "restore"} \cup UpdateTypes
            <4>1. order' = SyncOrders({type}, "erred")
                BY <2>2, <3>3 DEF IssueFails
            <4> QED
                BY <1>2, <4>1
        <3> QED
            BY <3>1, <3>2, <3>3
    <2> QED
        BY <2>1, <2>2 DEF IssueStatusChange
<1> QED
    BY <1>1, <1>3 DEF Synced

\* The handlers that work on a snapshot.
LEMMA CommitMoves ==
    ASSUME TypeOK, SnapshotInv, NEW p \in Procs, Commit(p), NEW o \in Orders,
           order'[o] # order[o]
    PROVE  Committed(o) \/ (Synced(o) /\ "set_state_done" \in Endpoints)
<1> DEFINE h == proc[p]
<1>1. h.op \in StaleOps
    BY DEF Commit, CommitCancel, CommitRejectByConsumer, CommitSetStateExecuting,
           CommitEdit, CommitDestroy, CommitSetStateDone, CommitSetStateErred,
           CommitConfirm, CommitSweep, CommitTimeout, StaleOps
<1>2. h.o \in Orders /\ h.row \in Rows
    BY <1>1, SnapshotType DEF StaleOps
<1>3. Finish(p)
    BY DEF Commit, CommitCancel, CommitRejectByConsumer, CommitSetStateExecuting,
           CommitEdit, CommitDestroy, CommitSetStateDone, CommitSetStateErred,
           CommitConfirm, CommitSweep, CommitTimeout
<1>4. proc'[p] = Idle
    BY <1>3 DEF Finish, TypeOK
<1>5. \A st : /\ order' = SetState(h.o, st) => o = h.o /\ To(o, st)
              /\ order' = SaveRow(h.o, h.row, st) => o = h.o /\ order'[o] = WithState(h.row, st)
    BY <1>2, WritesOne
<1>6. o = h.o /\ Wrote(h, o) => Committed(o)
    BY <1>1, <1>4 DEF Committed
<1>7. CASE CommitCancel(p)
    BY <1>2, <1>5, <1>7, <1>6 DEF CommitCancel, Wrote
<1>8. CASE CommitRejectByConsumer(p)
    BY <1>2, <1>5, <1>8, <1>6 DEF CommitRejectByConsumer, Wrote
<1>9. CASE CommitSetStateExecuting(p)
    BY <1>2, <1>5, <1>9, <1>6 DEF CommitSetStateExecuting, Wrote
<1>10. ASSUME NEW delayed \in BOOLEAN, CommitEdit(p, delayed)
      PROVE  o = h.o /\ Wrote(h, o)
    <2>1. o = h.o /\ order'[o] = WithDelay(h.row, delayed)
        BY <1>2, <1>10 DEF CommitEdit, TypeOK, WithDelay
    <2>2. CASE h.op = "partial_update"
        BY <2>1, <2>2 DEF Wrote
    <2>3. CASE h.op = "set_backend_id"
        <3>1. order'[o] = h.row
            BY <1>2, <1>10, <2>1, <2>3 DEF CommitEdit, Rows, WithDelay
        <3> QED
            BY <2>1, <2>3, <3>1 DEF Wrote
    <2> QED
        BY <1>10, <2>2, <2>3 DEF CommitEdit
<1>11. CASE CommitDestroy(p)
    BY <1>2, <1>5, <1>11, <1>6 DEF CommitDestroy, Wrote
<1>12. CASE CommitSetStateDone(p)
    <2>1. "set_state_done" \in Endpoints
        BY <1>1, <1>12 DEF SnapshotInv, CommitSetStateDone
    <2>2. h.row.type \in OrderTypes
        BY <1>2 DEF Rows
    <2>3. order[o].st = "executing" /\ To(o, "done")
        BY <1>12, <2>2, CompletesMoves DEF CommitSetStateDone
    <2> QED
        BY <2>1, <2>3 DEF Synced
<1>13. CASE CommitSetStateErred(p)
    BY <1>2, <1>5, <1>13, <1>6 DEF CommitSetStateErred, Wrote
<1>14. CASE CommitConfirm(p)
    BY <1>2, <1>5, <1>14, <1>6 DEF CommitConfirm, Wrote
<1>15. CASE CommitSweep(p)
    BY <1>2, <1>5, <1>15, <1>6 DEF CommitSweep, Wrote, Sweeps
<1>16. CASE CommitTimeout(p)
    BY <1>2, <1>5, <1>16, <1>6 DEF CommitTimeout, Wrote
<1> QED
    BY <1>6, <1>7, <1>8, <1>9, <1>10, <1>11, <1>12, <1>13, <1>14, <1>15, <1>16 DEF Commit

\* What ends a task: its own order is settled, or the order that is completed on
\* its behalf.
LEMMA TaskMoves ==
    ASSUME TypeOK, SnapshotInv, NEW p \in Procs, TaskEnds(p), NEW o \in Orders,
           order'[o] # order[o]
    PROVE  Worked(o) \/ Synced(o)
<1> DEFINE h == proc[p]
<1>1. h.op \in Carriers /\ Finish(p)
    BY DEF TaskEnds, TaskLeavesToAgent, TaskOpensTicket, TaskDelivers, TaskUpdatesLimits,
           TaskFails, Carriers
<1>2. /\ h.o \in Orders /\ h.row \in Rows /\ h.res \in ResourceRows
      /\ proc'[p] = Idle /\ order[h.o].type = h.row.type /\ h.row.type \in Types
    BY <1>1, SnapshotType DEF Finish, TypeOK, SnapshotInv, Idle, Carriers
<1>3. \A st : /\ order' = SetState(h.o, st) => o = h.o /\ To(o, st)
              /\ order' = SaveRow(h.o, h.row, st) => o = h.o /\ order'[o] = WithState(h.row, st)
    <2>1. h.o \in Orders /\ h.row \in Rows
        BY <1>2
    <2> HIDE DEF h
    <2> QED
        BY <2>1, WritesOne
<1>4. \A types, st : order' = SyncOrders(types, st) =>
          order[o].st = "executing" /\ order[o].type \in types /\ To(o, st)
    BY SyncMoves
<1>5. ASSUME o = h.o, NEW st \in {"done", "erred"}, st = "done" => Settled(o),
             (Exists(o) /\ To(o, st)) \/ order'[o] = WithState(h.row, st)
      PROVE  Worked(o)
    BY <1>1, <1>2, <1>5 DEF Worked
<1>6. ASSUME order[o].st = "executing", NEW st \in {"done", "erred"}, To(o, st),
             IF st = "done" THEN Settled(o) ELSE Switching
      PROVE  Synced(o)
    BY <1>6 DEF Synced
<1>7. FailOrder(h.o) => Worked(o)
    BY <1>3, <1>5 DEF FailOrder
<1>8. CASE TaskLeavesToAgent(p) \/ TaskOpensTicket(p)
    BY <1>7, <1>8 DEF TaskLeavesToAgent, TaskOpensTicket
<1>9. CASE TaskCreates(h)
    <2>1. FailOrder(h.o) \/ (order' = SyncOrders({"create"}, "done") /\ res'.st = "ok")
        BY <1>9 DEF TaskCreates
    <2> QED
        BY <1>4, <1>6, <1>7, <2>1 DEF Settled
<1>10. CASE TaskUpdatesLimits(p)
    <2>1. \/ order' = SaveRow(h.o, h.row, "done") /\ res' = [h.res EXCEPT !.st = "ok"]
          \/ FailOrder(h.o)
        BY <1>10 DEF TaskUpdatesLimits
    <2>2. [h.res EXCEPT !.st = "ok"].st = "ok"
        BY <1>2 DEF ResourceRows
    <2>3. h.row.type = "limits"
        BY <1>10 DEF TaskUpdatesLimits, SnapshotInv
    <2>4. order[h.o].type = "limits"
        BY <1>2, <2>3
    <2> QED
        BY <1>3, <1>5, <1>7, <2>1, <2>2, <2>4 DEF Settled
<1>11. CASE TaskUpdates(h)
    <2>1. \/ order' = SyncOrders(UpdateTypes, "done") /\ res'.st = "ok"
          \/ order' = SyncOrders(UpdateTypes, "erred")
        BY <1>11 DEF TaskUpdates, SetResource, TypeOK, ResourceRows
    <2>2. Switching
        BY <1>2, <1>11 DEF TaskUpdates, Switching
    <2> QED
        BY <1>4, <1>6, <2>1, <2>2 DEF Settled
<1>12. CASE TaskTerminates(h)
    <2>1. \/ order' = SaveRow(h.o, h.row, "done") /\ res'.st = "terminated"
          \/ FailOrder(h.o)
        BY <1>12 DEF TaskTerminates, SetResource, TypeOK, ResourceRows
    <2>2. order[h.o].type = "terminate"
        BY <1>2, <1>12 DEF TaskTerminates
    <2> QED
        BY <1>3, <1>5, <1>7, <2>1, <2>2 DEF Settled
<1>13. CASE TaskFails(p)
    <2>1. order' = SaveRow(h.o, h.row, "erred") \/ FailOrder(h.o)
        BY <1>13 DEF TaskFails
    <2> QED
        BY <1>3, <1>5, <1>7, <2>1
<1> QED
    BY <1>8, <1>9, <1>10, <1>11, <1>12, <1>13 DEF TaskEnds, TaskDelivers

\* Every order that moves, moves in one of these ways.
LEMMA Moves ==
    ASSUME TypeOK, SnapshotInv, [Next]_vars, NEW o \in Orders, order'[o] # order[o]
    PROVE  Moved(o)
<1>1. \A x \in Orders : ~LookAtProject(x) /\ \A p \in Procs : ~EarlyTicket(p, x)
    BY DEF EarlyTicket, LookAtProject
<1>2. Step \/ Aside
    <2>1. ~UNCHANGED vars
        BY DEF vars
    <2> QED
        BY <1>1, <2>1 DEF Next
<1>3. \A p \in Procs, op \in StaleOps, x \in Orders : ~Begin(p, op, x)
    BY DEF Begin
<1>4. \A p \in Procs, x \in Orders :
          /\ ~Rollback(p) /\ ~TaskStart(p, x) /\ ~WorkerCrashes(p) /\ ~EarlyTicketGoesOn(p)
          /\ ~TaskSavesLimits(p)
    BY DEF Rollback, TaskStart, TaskSavesLimits, WorkerCrashes, EarlyTicketGoesOn, EarlyTicketOpened,
           EarlyTicketSaved
<1>5. /\ \A p \in Procs : Place(p) => Placed(o)
      /\ \A p \in Procs : Commit(p) => Committed(o) \/ Synced(o)
      /\ \A p \in Procs : TaskEnds(p) => Worked(o) \/ Synced(o)
      /\ \A x \in Orders : Review(x) => Reviewed(o)
      /\ \A x \in Orders : IssueStatusChange(x) => Synced(o)
      /\ ~Outside
      /\ Aside => Dated(o)
    BY PlaceMoves, CommitMoves, TaskMoves, ReviewMoves, IssueMoves, OutsideMoves, AsideMoves
<1> QED
    BY <1>2, <1>3, <1>4, <1>5 DEF Step, Moved

--------------------------------------------------------------------------------
(* What else a step does: who begins, and which messages are sent.            *)

\* A worker begins to place an order, to handle a request, a sweep or a task, or
\* goes on with limits it has saved or with an issue it has opened.
Starts(p) ==
    \/ \E o \in Orders, type \in OrderTypes, delayed \in BOOLEAN :
          BeginPlace(p, o, type, delayed)
    \/ \E op \in StaleOps, o \in Orders : Begin(p, op, o)
    \/ \E o \in Orders : TaskStart(p, o) /\ Exists(o)
    \/ TaskSavesLimits(p)
    \/ \E o \in Orders : EarlyTicket(p, o) /\ Exists(o)
    \/ EarlyTicketOpened(p)

\* A worker that is not left alone begins something, or is done; and whoever
\* begins writes no order and leaves the other workers alone.
LEMMA Turns ==
    ASSUME TypeOK, [Next]_vars, NEW p \in Procs
    PROVE  /\ proc'[p] \in {proc[p], Idle} \/ Starts(p)
           /\ Starts(p) => /\ UNCHANGED order
                           /\ \A q \in Procs \ {p} : proc'[q] = proc[q]
<1>1. ASSUME NEW q \in Procs, Place(q)
      PROVE  proc'[p] \in {proc[p], Idle} \/ Starts(p)
    BY <1>1 DEF Place, BeginPlace, CommitPlace, Finish, Starts, TypeOK
<1>2. ASSUME NEW q \in Procs, NEW op \in StaleOps, NEW o \in Orders, Begin(q, op, o)
      PROVE  proc'[p] \in {proc[p], Idle} \/ Starts(p)
    BY <1>2 DEF Begin, Starts, TypeOK
<1>3. ASSUME NEW q \in Procs, Finish(q)
      PROVE  proc'[p] \in {proc[p], Idle}
    BY <1>3 DEF Finish, TypeOK
<1>4. \A q \in Procs : Commit(q) \/ Rollback(q) \/ TaskEnds(q) \/ WorkerCrashes(q) => Finish(q)
    BY DEF Commit, CommitCancel, CommitRejectByConsumer, CommitSetStateExecuting,
           CommitEdit, CommitDestroy, CommitSetStateDone, CommitSetStateErred,
           CommitConfirm, CommitSweep, CommitTimeout, Rollback, WorkerCrashes, TaskEnds,
           TaskLeavesToAgent, TaskOpensTicket, TaskDelivers, TaskUpdatesLimits, TaskFails
<1>5. ASSUME NEW q \in Procs, NEW o \in Orders, TaskStart(q, o)
      PROVE  proc'[p] \in {proc[p], Idle} \/ Starts(p)
    BY <1>5 DEF TaskStart, Starts, TypeOK
<1>6. ASSUME NEW q \in Procs, EarlyTicketGoesOn(q)
      PROVE  proc'[p] \in {proc[p], Idle} \/ Starts(p)
    BY <1>6 DEF EarlyTicketGoesOn, EarlyTicketOpened, EarlyTicketSaved, Finish, Starts, TypeOK
<1>7. ASSUME NEW o \in Orders, Review(o) \/ IssueStatusChange(o)
      PROVE  UNCHANGED proc
    BY <1>7 DEF Review, ApproveByConsumer, ApplyAutoApproval, ConsumerClears,
                ApproveByProvider, RejectByProvider, Retry, Unlink, IssueStatusChange
<1>8. Outside => UNCHANGED proc
    BY DEF Outside, SetAsOk, SetAsErred, SetResourceBackendId, DateComes, ProjectDateComes,
           SetProjectStartDate
<1>9. ASSUME NEW q \in Procs, NEW o \in Orders, EarlyTicket(q, o)
      PROVE  proc'[p] \in {proc[p], Idle} \/ Starts(p)
    BY <1>9 DEF EarlyTicket, Starts, TypeOK
<1>10. ASSUME NEW q \in Procs, TaskSavesLimits(q)
       PROVE  proc'[p] \in {proc[p], Idle} \/ Starts(p)
    BY <1>10 DEF TaskSavesLimits, Starts, TypeOK
<1>11. Aside \/ (\E o \in Orders : LookAtProject(o)) => UNCHANGED proc
    BY DEF Aside, BeginReset, CommitReset, UnsetProjectStartDate, AbandonRelease, ReleaseOrder,
           LookAtProject
<1>12. proc'[p] \in {proc[p], Idle} \/ Starts(p)
    BY <1>1, <1>2, <1>3, <1>4, <1>5, <1>6, <1>7, <1>8, <1>9, <1>10, <1>11 DEF Next, Step, vars
<1>13. Starts(p) => UNCHANGED order
    BY DEF Starts, BeginPlace, Begin, TaskStart, TaskSavesLimits, EarlyTicket, EarlyTicketOpened
<1>14. Starts(p) => \A q \in Procs \ {p} : proc'[q] = proc[q]
    BY DEF Starts, BeginPlace, Begin, TaskStart, TaskSavesLimits, EarlyTicket,
           EarlyTicketOpened, Finish, TypeOK
<1> QED
    BY <1>12, <1>13, <1>14

\* The states in which an order is started with a message to the worker, by
\* whoever finds it there, or by a sweep that has listed it.
Retried == "retry" \in Endpoints /\ OfferingType \in {"basic", "agent"}
Open == {"unplaced", "pending_consumer", "pending_provider"} \cup
            (IF Retried THEN {"erred"} ELSE {})
Deferred == {"pending_start_date", "pending_project"}
Startable == Open \cup Deferred

\* What starts an order on an earlier look at it.
Starters == Sweeps \cup {"confirm_pending_terminate_order"}

\* A message is sent for an order that this very step starts, and only those who
\* have looked at it before, or hold a copy of it, may find it started already.
LEMMA Messages ==
    ASSUME TypeOK, SnapshotInv, [Next]_vars, NEW o \in Orders
    PROVE  \/ queue'[o] <= queue[o]
           \/ /\ queue'[o] = queue[o] + 1 /\ order'[o].st = "executing"
              /\ \/ order[o].st \in Open
                 \/ \E p \in Procs :
                        /\ proc[p].op \in Starters /\ proc[p].o = o
                        /\ Exists(o) /\ proc'[p] = Idle
                 \/ \E row \in released[o] :
                        Exists(o) /\ released'[o] = released[o] \ {row}
<1> DEFINE Sent == /\ queue'[o] = queue[o] + 1 /\ order'[o].st = "executing"
                   /\ \/ order[o].st \in Open
                      \/ \E p \in Procs :
                            /\ proc[p].op \in Starters /\ proc[p].o = o
                            /\ Exists(o) /\ proc'[p] = Idle
                      \/ \E row \in released[o] :
                            Exists(o) /\ released'[o] = released[o] \ {row}
           Kept == queue'[o] <= queue[o]
<1>1. queue[o] \in Nat /\ queue \in [Orders -> 0 .. MaxTasks] /\ order \in [Orders -> Rows]
    BY BoundAssumption DEF TypeOK
<1>2. UNCHANGED queue => Kept
    BY <1>1
<1>3. ASSUME NEW x \in Orders, Enqueue(x)
      PROVE  Kept \/ (o = x /\ queue'[o] = queue[o] + 1)
    BY <1>1, <1>3 DEF Enqueue
<1>4. ASSUME NEW x \in Orders, NEW st, EnqueueIfExecuting(x, st)
      PROVE  Kept \/ (o = x /\ st = "executing" /\ queue'[o] = queue[o] + 1)
    BY <1>2, <1>3, <1>4 DEF EnqueueIfExecuting
<1>5. ASSUME NEW x \in Orders, NEW st, NEW row \in Rows,
             order' = SetState(x, st) \/ order' = SaveRow(x, row, st)
      PROVE  order'[x].st = st
    BY <1>1, <1>5 DEF SetState, SaveRow, Rows
<1>6. ASSUME NEW p \in Procs, Place(p)
      PROVE  Kept \/ Sent
    <2>1. CASE \E x \in Orders, type \in OrderTypes, delayed \in BOOLEAN :
                  BeginPlace(p, x, type, delayed)
        BY <1>2, <2>1 DEF BeginPlace
    <2>2. ASSUME NEW skips \in BOOLEAN, CommitPlace(p, skips)
          PROVE  Kept \/ Sent
        <3>1. proc[p].o \in Orders /\ proc[p].row \in Rows /\ proc[p].op = "place"
            BY <2>2, SnapshotType DEF CommitPlace
        <3>2. order[proc[p].o].st = "unplaced"
            BY <3>1 DEF SnapshotInv
        <3>3. Kept \/ (/\ o = proc[p].o /\ AfterPlacement(skips, proc[p].later) = "executing"
                       /\ queue'[o] = queue[o] + 1)
            BY <2>2, <3>1, <1>4 DEF CommitPlace
        <3>4. order'[proc[p].o].st = AfterPlacement(skips, proc[p].later)
            BY <2>2, <3>1, <1>5 DEF CommitPlace
        <3> QED
            BY <3>2, <3>3, <3>4 DEF Open
    <2> QED
        BY <1>6, <2>1, <2>2 DEF Place
<1>7. ASSUME NEW x \in Orders, Review(x)
      PROVE  Kept \/ Sent
    <2>1. ASSUME NEW later \in BOOLEAN, ConsumerClears(x, later)
          PROVE  Kept \/ Sent
        BY <2>1, <1>1, <1>4, <1>5 DEF ConsumerClears, Open
    <2>2. CASE ApproveByProvider(x)
        BY <2>2, <1>1, <1>4, <1>5 DEF ApproveByProvider, Open
    <2>3. CASE RejectByProvider(x) \/ Unlink(x)
        BY <2>3, <1>2 DEF RejectByProvider, Unlink
    <2>4. CASE Retry(x)
        BY <2>4, <1>1, <1>3, <1>5 DEF Retry, Open, Retried
    <2> QED
        BY <1>7, <2>1, <2>2, <2>3, <2>4 DEF Review, ApproveByConsumer, ApplyAutoApproval
<1>8. CASE Aside
    <2>1. ASSUME NEW x \in Orders, NEW row \in Rows, ReleaseOrder(x, row)
          PROVE  Kept \/ Sent
        <3>1. Kept \/ (/\ o = x /\ AfterProjectStart(row) = "executing"
                       /\ queue'[o] = queue[o] + 1)
            BY <2>1, <1>2, <1>4 DEF ReleaseOrder
        <3>2. order'[x].st = AfterProjectStart(row)
            BY <2>1, <1>1, <1>5 DEF ReleaseOrder
        <3>3. row \in released[x] /\ Exists(x) /\ released'[x] = released[x] \ {row}
            BY <2>1 DEF ReleaseOrder, TypeOK
        <3> QED
            BY <3>1, <3>2, <3>3
    <2> QED
        BY <1>2, <1>8, <2>1
        DEF Aside, BeginReset, CommitReset, UnsetProjectStartDate, AbandonRelease
<1>9. CASE Outside \/ \E x \in Orders : LookAtProject(x)
    BY <1>2, <1>9 DEF Outside, SetAsOk, SetAsErred, SetResourceBackendId, DateComes,
                      ProjectDateComes, SetProjectStartDate, LookAtProject
<1>10. ASSUME NEW p \in Procs, Commit(p)
       PROVE  Kept \/ Sent
    <2>1. CASE CommitConfirm(p)
        <3> DEFINE x == proc[p].o
                   st == AfterConsumerApproval(order[x], proc[p].later)
        <3>1. x \in Orders /\ proc[p].op \in Starters /\ Exists(x) /\ proc'[p] = Idle
            BY <2>1, SnapshotType DEF CommitConfirm, Starters, Finish, TypeOK
        <3>2. Kept \/ (o = x /\ st = "executing" /\ queue'[o] = queue[o] + 1)
            BY <2>1, <3>1, <1>4 DEF CommitConfirm
        <3>3. order'[x].st = st
            BY <2>1, <3>1, <1>1, <1>5 DEF CommitConfirm
        <3> QED
            BY <3>1, <3>2, <3>3
    <2>2. CASE CommitSweep(p)
        <3> DEFINE x == proc[p].o
                   st == SweepTarget(proc[p])
        <3>1. x \in Orders /\ proc[p].op \in Starters /\ Exists(x) /\ proc'[p] = Idle
            BY <2>2, SnapshotType DEF CommitSweep, Starters, Sweeps, Finish, TypeOK
        <3>2. Kept \/ (o = x /\ st = "executing" /\ queue'[o] = queue[o] + 1)
            BY <2>2, <3>1, <1>2, <1>4 DEF CommitSweep
        <3>3. order'[x].st = st
            BY <2>2, <3>1, <1>1, <1>5 DEF CommitSweep
        <3> QED
            BY <3>1, <3>2, <3>3
    <2>3. CASE UNCHANGED queue
        BY <2>3, <1>2
    <2> QED
        BY <1>10, <2>1, <2>2, <2>3
        DEF Commit, CommitCancel, CommitRejectByConsumer, CommitSetStateExecuting,
            CommitEdit, CommitDestroy, CommitSetStateDone, CommitSetStateErred, CommitTimeout
<1>11. ASSUME NEW p \in Procs, NEW x \in Orders, TaskStart(p, x)
       PROVE  Kept
    BY <1>1, <1>11 DEF TaskStart
<1>12. ASSUME NEW p \in Procs,
              \/ Rollback(p) \/ TaskSavesLimits(p) \/ TaskEnds(p) \/ WorkerCrashes(p)
              \/ EarlyTicketGoesOn(p)
              \/ \E x \in Orders : EarlyTicket(p, x) \/ \E op \in StaleOps : Begin(p, op, x)
       PROVE  Kept
    BY <1>12, <1>2 DEF Rollback, WorkerCrashes, TaskSavesLimits, TaskEnds, TaskLeavesToAgent,
           TaskOpensTicket, TaskDelivers, TaskUpdatesLimits, TaskFails, EarlyTicketGoesOn,
           EarlyTicketOpened, EarlyTicketSaved, EarlyTicket, Begin
<1>13. ASSUME NEW x \in Orders, IssueStatusChange(x)
       PROVE  Kept
    BY <1>13, <1>2 DEF IssueStatusChange
<1>14. CASE UNCHANGED vars
    BY <1>14, <1>2 DEF vars
<1> QED
    BY <1>6, <1>7, <1>8, <1>9, <1>10, <1>11, <1>12, <1>13, <1>14 DEF Next, Step

\* An order keeps its type, and once it is placed it is not unplaced again.
LEMMA KindKept ==
    ASSUME TypeOK, TypeOK', SnapshotInv, [Next]_vars, NEW o \in Orders,
           order[o].st # "unplaced"
    PROVE  order'[o].st # "unplaced" /\ order'[o].type = order[o].type
<1>1. CASE order'[o] = order[o]
    BY <1>1
<1>2. CASE order'[o] # order[o]
    <2>1. Moved(o)
        BY <1>2, Moves
    <2>2. order[o] \in Rows
        BY DEF TypeOK
    <2>3. \A st \in OrderStates :
              To(o, st) => order'[o].st = st /\ order'[o].type = order[o].type
        BY <2>2, RowWrites DEF To
    <2>4. ~Placed(o)
        BY DEF Placed, SnapshotInv
    <2>5. CASE Reviewed(o) \/ Dated(o) \/ Synced(o)
        <3>1. \A st \in OrderStates \ {"unplaced"} :
                  To(o, st) => order'[o].st # "unplaced" /\ order'[o].type = order[o].type
            BY <2>3
        <3>2. /\ \A later : AfterConsumerApproval(order[o], later) \in OrderStates \ {"unplaced"}
              /\ AfterProviderApproval(order[o]) \in OrderStates \ {"unplaced"}
              /\ \A row : AfterProjectStart(row) \in OrderStates \ {"unplaced"}
            BY DEF AfterConsumerApproval, AfterProviderApproval, AfterProjectStart
        <3> QED
            BY <2>5, <3>1, <3>2 DEF Reviewed, Dated, Synced
    <2>6. ASSUME NEW p \in Procs, proc[p].o = o, proc[p] # Idle, proc[p].op # "place"
          PROVE  /\ proc[p].row \in Rows /\ proc[p].row.type = order[o].type
                 /\ \A st \in OrderStates : order'[o] = WithState(proc[p].row, st) =>
                        order'[o].st = st /\ order'[o].type = order[o].type
        <3>1. proc[p].row \in Rows /\ proc[p].row.type = order[o].type
            BY <2>6 DEF SnapshotInv, TypeOK, Handlers
        <3> QED
            BY <3>1, RowWrites
    <2>7. CASE Committed(o)
        <3>1. PICK p \in Procs : proc[p].op \in StaleOps /\ proc[p].o = o /\ Wrote(proc[p], o)
            BY <2>7 DEF Committed
        <3>2. proc[p] # Idle /\ proc[p].op # "place"
            BY <3>1 DEF Idle, StaleOps
        <3> DEFINE row == proc[p].row
        <3>3. row \in Rows /\ row.type = order[o].type
            BY <2>6, <3>1, <3>2
        <3>4. CASE proc[p].op \in {"partial_update", "set_backend_id"}
            <4>1. row.st # "unplaced"
                BY <3>1, <3>4 DEF SnapshotInv, AcceptedStates
            <4>2. order'[o] = row \/ \E delayed \in BOOLEAN : order'[o] = WithDelay(row, delayed)
                BY <3>1, <3>4 DEF Wrote, Sweeps
            <4> QED
                BY <3>3, <4>1, <4>2, RowWrites
        <3>5. CASE proc[p].op \notin {"partial_update", "set_backend_id"}
            <4>1. /\ AfterConsumerApproval(order[o], proc[p].later) \in OrderStates \ {"unplaced"}
                  /\ SweepTarget(proc[p]) \in OrderStates \ {"unplaced"}
                BY DEF AfterConsumerApproval, AfterProviderApproval, AfterProjectStart, SweepTarget
            <4>2. \E st \in OrderStates \ {"unplaced"} : To(o, st) \/ order'[o] = WithState(row, st)
                BY <3>1, <3>5, <4>1 DEF Wrote
            <4> QED
                BY <2>3, <2>6, <3>1, <3>2, <4>2
        <3> QED
            BY <3>4, <3>5
    <2>8. CASE Worked(o)
        <3>1. PICK p \in Procs : /\ proc[p].op \in Carriers /\ proc[p].o = o
                                 /\ \E st \in {"done", "erred"} :
                                       To(o, st) \/ order'[o] = WithState(proc[p].row, st)
            BY <2>8 DEF Worked
        <3>2. proc[p] # Idle /\ proc[p].op # "place"
            BY <3>1 DEF Idle, Carriers
        <3> QED
            BY <2>3, <2>6, <3>1, <3>2
    <2> QED
        BY <2>1, <2>4, <2>5, <2>7, <2>8 DEF Moved
<1> QED
    BY <1>1, <1>2

\* An order that is not placed yet moves only by being placed.
LEMMA FirstMove ==
    ASSUME TypeOK, SnapshotInv, [Next]_vars, NEW o \in Orders,
           order[o].st = "unplaced", order'[o] # order[o]
    PROVE  Placed(o)
<1>1. Moved(o)
    BY Moves
<1>2. ~Reviewed(o) /\ ~Dated(o) /\ ~Synced(o)
    BY DEF Reviewed, Dated, Synced, Exists
<1>3. ASSUME NEW p \in Procs, proc[p].op \in StaleOps \cup Carriers
      PROVE  proc[p].o # o
    BY <1>3 DEF SnapshotInv, Idle, StaleOps, Carriers
<1> QED
    BY <1>1, <1>2, <1>3 DEF Moved, Committed, Worked

\* Without a helpdesk no step opens an issue.
LEMMA NoIssues ==
    ASSUME TypeOK, SnapshotInv, [Next]_vars, OfferingType # "support"
    PROVE  early' = {} /\ tickets' = {}
<1>1. early = {} /\ tickets = {}
    BY DEF SnapshotInv
<1>2. \A p \in Procs, x \in Orders : ~EarlyTicket(p, x)
    BY <1>1 DEF EarlyTicket
<1>3. \A p \in Procs : ~EarlyTicketGoesOn(p) /\ ~TaskOpensTicket(p)
    BY DEF EarlyTicketGoesOn, EarlyTicketOpened, EarlyTicketSaved, TaskOpensTicket, SnapshotInv
<1>4. CASE (Step \/ Aside) /\ AfterSave
    <2>1. early' = {}
        BY <1>1, <1>4 DEF AfterSave
    <2>2. ASSUME NEW p \in Procs,
                 \/ Place(p) \/ Rollback(p) \/ TaskSavesLimits(p) \/ TaskEnds(p)
                 \/ WorkerCrashes(p) \/ Commit(p)
          PROVE  tickets' = tickets
        BY <2>2, <1>3
        DEF Place, BeginPlace, CommitPlace, Rollback, TaskSavesLimits, TaskEnds,
            TaskLeavesToAgent, TaskDelivers, TaskUpdatesLimits, TaskFails, WorkerCrashes, Commit, CommitCancel, CommitRejectByConsumer,
            CommitSetStateExecuting, CommitEdit, CommitDestroy, CommitSetStateDone,
            CommitSetStateErred, CommitConfirm, CommitSweep, CommitTimeout
    <2>3. ASSUME NEW o \in Orders, Review(o) \/ IssueStatusChange(o)
          PROVE  tickets' = tickets
        BY <2>3 DEF Review, ApproveByConsumer, ApplyAutoApproval, ConsumerClears,
                    ApproveByProvider, RejectByProvider, Retry, Unlink, IssueStatusChange
    <2>4. Outside \/ Aside => tickets' = tickets
        BY DEF Outside, SetAsOk, SetAsErred, SetResourceBackendId, DateComes, ProjectDateComes,
               SetProjectStartDate, Aside, BeginReset, CommitReset, UnsetProjectStartDate,
               AbandonRelease, ReleaseOrder
    <2>5. tickets' = tickets
        BY <1>3, <1>4, <2>2, <2>3, <2>4 DEF Step, Begin, TaskStart
    <2> QED
        BY <1>1, <2>1, <2>5
<1>5. CASE UNCHANGED vars \/ \E o \in Orders : LookAtProject(o)
    BY <1>1, <1>5 DEF vars, LookAtProject
<1> QED
    BY <1>2, <1>4, <1>5 DEF Next

\* What a worker begins with: an order that is there, as it stands, or one that
\* nobody else is placing.
LEMMA StartsFresh ==
    ASSUME TypeOK, SnapshotInv, [Next]_vars, NEW p \in Procs, Starts(p),
           proc'[p] \notin {proc[p], Idle}
    PROVE  /\ proc'[p].op \in StaleOps =>
                  /\ proc[p] = Idle /\ proc'[p].o \in Orders
                  /\ proc'[p].row = order[proc'[p].o] /\ AlsoRequired(proc'[p].op, proc'[p].row)
                  /\ proc'[p].op \in Endpoints /\ OfferingType \in OfferedTo[proc'[p].op]
                  /\ proc'[p].row.st \in AcceptedStates[proc'[p].op] /\ queue' = queue
           /\ proc'[p].op = "place" =>
                  /\ proc[p] = Idle /\ proc'[p].o \in Orders
                  /\ NextId(proc'[p].o) /\ proc'[p].row.type \in Types
                  /\ res' = res /\ res.st \in PlacedOn[proc'[p].row.type]
                  /\ proc'[p].row.type = "create" => \A o \in Orders : ~Placing(o)
           /\ proc'[p].op = "process_order" =>
                  /\ proc[p] = Idle /\ proc'[p].o \in Orders
                  /\ proc'[p].row = order[proc'[p].o] /\ Exists(proc'[p].o)
                  /\ queue[proc'[p].o] > 0 /\ queue'[proc'[p].o] = queue[proc'[p].o] - 1
                  /\ proc'[p].res = res'
           /\ proc'[p].op = "limit_update_succeeded" =>
                  /\ proc[p].op = "process_order" /\ proc'[p].o = proc[p].o
                  /\ proc'[p].row = proc[p].row /\ proc'[p].res = proc[p].res
                  /\ proc[p].row.type = "limits" /\ UNCHANGED <<queue, released, stuck>>
           /\ proc'[p].op \notin StaleOps \cup Carriers \cup {"place"} =>
                  /\ OfferingType = "support"
                  /\ order[proc'[p].o].st # "unplaced"
                  /\ order[proc'[p].o].type = proc'[p].row.type
           /\ UNCHANGED order
<1>1. UNCHANGED order
    BY Turns
<1>2. ASSUME NEW o \in Orders, NEW type \in OrderTypes, NEW delayed \in BOOLEAN,
             BeginPlace(p, o, type, delayed)
      PROVE  /\ proc[p] = Idle /\ NextId(o) /\ type \in Types /\ res' = res
             /\ res.st \in PlacedOn[type] /\ (type = "create" => \A x \in Orders : ~Placing(x))
             /\ proc'[p].op = "place" /\ proc'[p].o = o /\ proc'[p].row.type = type
    BY <1>2 DEF BeginPlace, TypeOK
<1>3. ASSUME NEW op \in StaleOps, NEW o \in Orders, Begin(p, op, o)
      PROVE  /\ proc[p] = Idle /\ op \in Endpoints /\ OfferingType \in OfferedTo[op]
             /\ order[o].st \in AcceptedStates[op] /\ AlsoRequired(op, order[o])
             /\ proc'[p].op = op /\ proc'[p].o = o /\ proc'[p].row = order[o]
             /\ queue' = queue
    BY <1>3 DEF Begin, TypeOK
<1>4. ASSUME NEW o \in Orders, TaskStart(p, o), Exists(o)
      PROVE  /\ proc[p] = Idle /\ queue[o] > 0 /\ queue'[o] = queue[o] - 1
             /\ proc'[p].op = "process_order" /\ proc'[p].o = o /\ proc'[p].row = order[o]
             /\ proc'[p].res = res'
    BY <1>4 DEF TaskStart, TypeOK
<1>5. ASSUME NEW o \in Orders, EarlyTicket(p, o), Exists(o)
      PROVE  /\ OfferingType = "support"
             /\ proc'[p].op = "create_issue_for_pending_order" /\ proc'[p].o = o
             /\ proc'[p].row = order[o] /\ order[o].st # "unplaced"
    BY <1>5 DEF EarlyTicket, TypeOK, Exists, SnapshotInv
<1>6. ASSUME EarlyTicketOpened(p)
      PROVE  /\ OfferingType = "support"
             /\ proc'[p].op = "create_issue_links" /\ proc'[p].o = proc[p].o
             /\ proc'[p].row = proc[p].row
             /\ order[proc[p].o].st # "unplaced" /\ order[proc[p].o].type = proc[p].row.type
    <2>1. proc'[p] = [proc[p] EXCEPT !.op = "create_issue_links"]
        BY <1>6 DEF EarlyTicketOpened, Finish, TypeOK
    <2>2. proc[p] # Idle /\ proc[p].op = "create_issue_for_pending_order"
        BY <1>6 DEF EarlyTicketOpened, Idle
    <2>3. proc[p] \in Handlers
        BY <2>2 DEF TypeOK
    <2>4. OfferingType = "support"
        BY <2>2 DEF SnapshotInv
    <2> QED
        BY <2>1, <2>2, <2>3, <2>4 DEF SnapshotInv, Handlers
<1>7. ASSUME TaskSavesLimits(p)
      PROVE  /\ proc'[p].op = "limit_update_succeeded" /\ proc'[p].o = proc[p].o
             /\ proc'[p].row = proc[p].row /\ proc'[p].res = proc[p].res
             /\ proc[p].op = "process_order" /\ proc[p].row.type = "limits"
             /\ UNCHANGED <<queue, released, stuck>>
    <2>1. proc'[p] = [proc[p] EXCEPT !.op = "limit_update_succeeded"]
        BY <1>7 DEF TaskSavesLimits, TypeOK
    <2>2. proc[p].op = "process_order" /\ proc[p] # Idle
        BY <1>7 DEF TaskSavesLimits, Idle
    <2>3. proc[p] \in Handlers
        BY <2>2 DEF TypeOK
    <2>4. UNCHANGED <<queue, released, stuck>>
        BY <1>7, <2>2 DEF TaskSavesLimits, Next, Step, Aside, BeginReset, CommitReset,
                          UnsetProjectStartDate, AbandonRelease, ReleaseOrder, LookAtProject,
                          EarlyTicket, vars
    <2> QED
        BY <1>7, <2>1, <2>2, <2>3, <2>4 DEF TaskSavesLimits, Handlers
<1>8. /\ "place" \notin StaleOps \cup Carriers /\ Carriers \cap StaleOps = {}
      /\ "process_order" \in Carriers /\ "limit_update_succeeded" \in Carriers
      /\ "create_issue_for_pending_order" \notin StaleOps \cup Carriers
      /\ "create_issue_links" \notin StaleOps \cup Carriers
    BY DEF StaleOps, Carriers
<1> QED
    BY <1>1, <1>2, <1>3, <1>4, <1>5, <1>6, <1>7, <1>8 DEF Starts

\* The handler of the project's start date lists the orders that wait for it, as
\* they stand, when no other such handler is under way, and then only forgets them.
LEMMA Lists ==
    ASSUME TypeOK, [Next]_vars, NEW o \in Orders
    PROVE  \/ released'[o] \subseteq released[o]
           \/ /\ released[o] = {} /\ UNCHANGED <<order, proc, queue>>
              /\ released'[o] = {order[o]} /\ order[o].st = "pending_project"
<1>1. UNCHANGED released => released'[o] \subseteq released[o]
    OBVIOUS
<1>2. CASE Aside
    BY <1>1, <1>2 DEF Aside, BeginReset, CommitReset, UnsetProjectStartDate, AbandonRelease,
                      ReleaseOrder, TypeOK
<1>3. CASE ~Aside
    <2>1. UNCHANGED released
        BY <1>3 DEF Next, vars, EarlyTicket, LookAtProject
    <2> QED
        BY <1>1, <2>1
<1> QED
    BY <1>2, <1>3

\* The bookkeeping of the snapshots is kept by every step.
LEMMA SnapshotsInit == Init => SnapshotInv
    BY DEF Init, SnapshotInv, Idle, StaleOps

LEMMA SnapshotsStep ==
    ASSUME TypeOK, TypeOK', SnapshotInv, [Next]_vars
    PROVE  SnapshotInv'
<1>1. ASSUME NEW p \in Procs
      PROVE  proc'[p] = proc[p] \/ proc'[p] = Idle \/ (Starts(p) /\ proc'[p] \notin {proc[p], Idle})
    BY Turns
<1>2. Idle.op = "idle" /\ "idle" \notin StaleOps
    BY DEF Idle, StaleOps
<1>3. ASSUME NEW p \in Procs, proc'[p].op \in StaleOps
      PROVE  /\ proc'[p].op \in Endpoints /\ OfferingType \in OfferedTo[proc'[p].op]
             /\ proc'[p].row.st \in AcceptedStates[proc'[p].op]
    BY <1>1, <1>2, <1>3, StartsFresh DEF SnapshotInv
<1>4. ASSUME NEW p \in Procs, proc'[p] # Idle, proc'[p].op # "place"
      PROVE  /\ order'[proc'[p].o].st # "unplaced"
             /\ order'[proc'[p].o].type = proc'[p].row.type
    <2>1. CASE proc'[p] = proc[p]
        <3>1. proc[p].o \in Orders
            BY <1>4, <2>1 DEF TypeOK, Handlers
        <3>2. order[proc[p].o].st # "unplaced" /\ order[proc[p].o].type = proc[p].row.type
            BY <1>4, <2>1 DEF SnapshotInv
        <3> QED
            BY <2>1, <3>1, <3>2, KindKept
    <2>2. CASE Starts(p) /\ proc'[p] \notin {proc[p], Idle}
        <3>1. \A op \in StaleOps : "unplaced" \notin AcceptedStates[op]
            BY DEF StaleOps, AcceptedStates
        <3>2. CASE proc'[p].op = "limit_update_succeeded"
            <4>1. /\ proc[p].op = "process_order" /\ proc'[p].o = proc[p].o
                  /\ proc'[p].row = proc[p].row /\ order' = order
                BY <2>2, <3>2, StartsFresh
            <4>2. proc[p] # Idle
                BY <4>1 DEF Idle
            <4> QED
                BY <4>1, <4>2 DEF SnapshotInv
        <3>3. CASE proc'[p].op # "limit_update_succeeded"
            BY <1>4, <2>2, <3>1, <3>3, StartsFresh DEF Exists, Carriers
        <3> QED
            BY <3>2, <3>3
    <2> QED
        BY <1>1, <1>4, <2>1, <2>2
<1>5. ASSUME NEW p \in Procs, proc'[p].op = "place"
      PROVE  /\ order'[proc'[p].o].st = "unplaced" /\ proc'[p].row.type \in Types
             /\ \A q \in Procs :
                    proc'[q].op = "place" /\ proc'[q].o = proc'[p].o => q = p
    <2>1. CASE proc'[p] = proc[p]
        <3> DEFINE o == proc[p].o
        <3>1. o \in Orders /\ proc[p] # Idle /\ order[o].st = "unplaced"
            BY <1>2, <1>5, <2>1 DEF TypeOK, Handlers, SnapshotInv
        <3>2. order'[o] = order[o]
            <4>1. SUFFICES ASSUME order'[o] # order[o] PROVE FALSE
                OBVIOUS
            <4>2. PICK q \in Procs : proc[q].op = "place" /\ proc[q].o = o /\ proc'[q] = Idle
                BY <3>1, <4>1, FirstMove DEF Placed
            <4>3. q = p
                BY <1>5, <2>1, <4>2 DEF SnapshotInv
            <4> QED
                BY <2>1, <3>1, <4>2, <4>3
        <3>3. ASSUME NEW q \in Procs, proc'[q].op = "place", proc'[q].o = o
              PROVE  q = p
            <4>1. proc'[q] = proc[q] \/ (Starts(q) /\ proc'[q] \notin {proc[q], Idle})
                BY <1>1, <1>2, <3>3
            <4>2. ~NextId(o)
                BY <1>5, <2>1 DEF NextId, Placing
            <4> QED
                BY <1>5, <2>1, <3>3, <4>1, <4>2, StartsFresh DEF SnapshotInv
        <3> QED
            BY <1>5, <2>1, <3>1, <3>2, <3>3 DEF SnapshotInv
    <2>2. CASE Starts(p) /\ proc'[p] \notin {proc[p], Idle}
        <3>1. /\ NextId(proc'[p].o) /\ proc'[p].row.type \in Types /\ order' = order
              /\ proc[p] = Idle
            BY <1>5, <2>2, StartsFresh
        <3>2. \A q \in Procs \ {p} : proc'[q] = proc[q]
            BY <2>2, Turns
        <3> QED
            BY <3>1, <3>2 DEF NextId, Placing
    <2> QED
        BY <1>1, <1>2, <1>5, <2>1, <2>2
<1>6. ASSUME NEW o \in Orders, order'[o].st # "unplaced"
      PROVE  order'[o].type \in Types
    <2>1. CASE order[o].st # "unplaced"
        BY <2>1, KindKept DEF SnapshotInv
    <2>2. CASE order[o].st = "unplaced"
        <3>1. Placed(o)
            BY <1>6, <2>2, FirstMove
        <3>2. PICK p \in Procs, skips \in BOOLEAN :
                  /\ proc[p].op = "place" /\ proc[p].o = o
                  /\ order'[o] = WithState(proc[p].row, AfterPlacement(skips, proc[p].later))
            BY <3>1 DEF Placed
        <3>3. proc[p].row \in Rows /\ proc[p].row.type \in Types
            BY <3>2, SnapshotType DEF SnapshotInv
        <3>4. AfterPlacement(skips, proc[p].later) \in OrderStates
            BY DEF AfterPlacement
        <3> QED
            BY <3>2, <3>3, <3>4, RowWrites
    <2> QED
        BY <2>1, <2>2
<1>7. ASSUME OfferingType # "support"
      PROVE  /\ early' = {} /\ tickets' = {}
             /\ \A p \in Procs : proc'[p].op \notin {"create_issue_for_pending_order",
                                                    "create_issue_links"}
    <2>1. early' = {} /\ tickets' = {}
        BY <1>7, NoIssues
    <2>2. ASSUME NEW p \in Procs
          PROVE  proc'[p].op \notin {"create_issue_for_pending_order", "create_issue_links"}
        <3>1. /\ "create_issue_for_pending_order" \notin StaleOps \cup Carriers \cup {"place"}
              /\ "create_issue_links" \notin StaleOps \cup Carriers \cup {"place"}
            BY DEF StaleOps, Carriers
        <3> QED
            BY <1>1, <1>2, <1>7, <3>1, StartsFresh DEF SnapshotInv
    <2> QED
        BY <2>1, <2>2
<1>8. ASSUME NEW p \in Procs, proc'[p].op = "limit_update_succeeded"
      PROVE  proc'[p].row.type = "limits"
    BY <1>1, <1>2, <1>8, StartsFresh DEF SnapshotInv
<1> QED
    BY <1>3, <1>4, <1>5, <1>6, <1>7, <1>8 DEF SnapshotInv

\* So whatever is proved below may use it.
LEMMA SnapshotsKept == Spec => [](TypeOK /\ SnapshotInv)
<1>1. TypeOK /\ SnapshotInv /\ [Next]_vars => (TypeOK /\ SnapshotInv)'
    BY TypeStep, SnapshotsStep
<1>2. Init => TypeOK /\ SnapshotInv
    BY TypeInit, SnapshotsInit
<1> QED
    BY <1>1, <1>2, PTL DEF Spec

--------------------------------------------------------------------------------
(* A refusal is final.                                                        *)

\* The endpoints that decide again on an order they have read without a lock, or
\* take it away: with any of them a rejected order may move on.
Rethinks ==
    {"reject_by_consumer", "cancel", "set_state_executing", "set_state_erred",
     "partial_update", "set_backend_id", "destroy", "confirm_pending_terminate_order",
     "process_pending_project_orders", "unlink"}

\* Without them, whatever is under way for an order is under way for one that is
\* past its reviews, or still as it was read.
Begun == {"executing", "done", "erred", "canceled"}
BegunInv ==
    /\ \A o \in Orders : queue[o] > 0 => order[o].st \in Begun
    /\ \A p \in Procs : proc[p].op \in Carriers => order[proc[p].o].st \in Begun
    /\ \A p \in Procs :
          proc[p].op \in StaleOps => order[proc[p].o].st \in Begun \cup {proc[p].row.st}
    /\ \A o \in Orders : \A row \in released[o] :
          row = order[o] /\ row.st = "pending_project"

\* The handlers left work on an order that is in execution or waits for its date.
LEMMA LeftOps ==
    ASSUME SnapshotInv, Endpoints \cap Rethinks = {}, NEW p \in Procs, proc[p].op \in StaleOps
    PROVE  /\ proc[p].op \in {"set_state_done", "mark_resources_as_erred_after_timeout",
                             "process_pending_start_date_orders"}
           /\ proc[p].row.st \in {"executing", "pending_start_date"}
    BY DEF SnapshotInv, StaleOps, Rethinks, AcceptedStates

\* An order that has begun stays past its reviews, one that waits for its date
\* can only begin, and one that is rejected stays so.
LEMMA BegunStays ==
    ASSUME TypeOK, SnapshotInv, BegunInv, Endpoints \cap Rethinks = {}, [Next]_vars,
           NEW o \in Orders
    PROVE  /\ order[o].st \in Begun => order'[o].st \in Begun
           /\ order[o].st = "pending_start_date" =>
                  order'[o].st \in Begun \cup {"pending_start_date"}
           /\ order[o].st = "rejected" => order'[o] = order[o]
           /\ order[o].st = "pending_project" => order'[o] = order[o] \/ Dated(o)
<1>1. SUFFICES ASSUME order[o].st \in Begun \cup {"pending_start_date", "pending_project",
                                                 "rejected"},
                      order'[o] # order[o]
               PROVE  IF order[o].st = "pending_project" THEN Dated(o)
                      ELSE order[o].st # "rejected" /\ order'[o].st \in Begun
    BY DEF Begun
<1>2. Moved(o) /\ order[o] \in Rows
    BY <1>1, Moves DEF TypeOK
<1>3. \A st \in Begun : To(o, st) => order'[o].st \in Begun
    BY <1>2, RowWrites DEF To, Begun
<1>4. ~Placed(o) /\ (Dated(o) => order[o].st = "pending_project")
    BY <1>1 DEF Placed, SnapshotInv, Dated, BegunInv, Begun
<1>5. CASE Reviewed(o)
    BY <1>1, <1>3, <1>5 DEF Reviewed, Begun, Rethinks
<1>6. CASE Synced(o)
    BY <1>3, <1>6 DEF Synced, Begun
<1>7. CASE Committed(o)
    <2>1. PICK p \in Procs : proc[p].op \in StaleOps /\ proc[p].o = o /\ Wrote(proc[p], o)
        BY <1>7 DEF Committed
    <2>2. order[o].st \in Begun \cup {"pending_start_date"} /\ proc[p].row \in Rows
        BY <2>1, SnapshotType, LeftOps DEF BegunInv, StaleOps, Begun
    <2>3. \/ To(o, "executing")
          \/ order'[o] = WithState(proc[p].row, "erred")
        BY <2>1, LeftOps DEF Wrote, Sweeps, SweepTarget
    <2> QED
        BY <1>3, <2>2, <2>3, RowWrites DEF Begun
<1>8. CASE Worked(o)
    <2>1. PICK p \in Procs, st \in {"done", "erred"} :
              /\ proc[p].op \in Carriers /\ proc[p].o = o
              /\ To(o, st) \/ order'[o] = WithState(proc[p].row, st)
        BY <1>8 DEF Worked
    <2>2. order[o].st \in Begun /\ proc[p].row \in Rows
        BY <2>1, SnapshotType DEF BegunInv, Carriers
    <2> QED
        BY <1>3, <2>1, <2>2, RowWrites DEF Begun
<1> QED
    BY <1>2, <1>4, <1>5, <1>6, <1>7, <1>8 DEF Moved

LEMMA BegunStep ==
    ASSUME TypeOK, TypeOK', SnapshotInv, BegunInv, Endpoints \cap Rethinks = {}, [Next]_vars
    PROVE  BegunInv'
<1>1. ASSUME NEW o \in Orders, queue'[o] > 0
      PROVE  order'[o].st \in Begun
    <2>1. queue[o] \in Nat /\ queue'[o] \in Nat
        BY BoundAssumption DEF TypeOK
    <2>2. order'[o].st = "executing" \/ queue[o] > 0
        BY <1>1, <2>1, Messages
    <2> QED
        BY <2>2, BegunStays DEF BegunInv, Begun
<1>2. ASSUME NEW p \in Procs
      PROVE  /\ proc'[p].op \in Carriers => order'[proc'[p].o].st \in Begun
             /\ proc'[p].op \in StaleOps =>
                    order'[proc'[p].o].st \in Begun \cup {proc'[p].row.st}
    <2>1. CASE proc'[p] = proc[p]
        <3>1. proc[p].op \in StaleOps \cup Carriers => proc[p].o \in Orders
            BY SnapshotType DEF StaleOps, Carriers
        <3> QED
            BY <2>1, <3>1, LeftOps, BegunStays DEF BegunInv, Begun
    <2>2. CASE Starts(p) /\ proc'[p] \notin {proc[p], Idle}
        BY <2>2, StartsFresh DEF BegunInv, Carriers
    <2>3. CASE proc'[p] = Idle
        BY <2>3 DEF Idle, StaleOps, Carriers
    <2> QED
        BY <2>1, <2>2, <2>3, Turns
<1>3. ASSUME NEW o \in Orders, NEW row \in released'[o]
      PROVE  row = order'[o] /\ row.st = "pending_project"
    <2>1. CASE row \in released[o]
        <3>1. row = order[o] /\ row.st = "pending_project"
            BY <2>1 DEF BegunInv
        <3>2. ~Dated(o)
            BY <1>3, <2>1, <3>1 DEF Dated, BegunInv
        <3> QED
            BY <3>1, <3>2, BegunStays
    <2>2. CASE row \notin released[o]
        BY <1>3, <2>2, Lists
    <2> QED
        BY <2>1, <2>2
<1> QED
    BY <1>1, <1>2, <1>3 DEF BegunInv

LEMMA BegunKept ==
    ASSUME Endpoints \cap Rethinks = {}
    PROVE  Spec => []BegunInv
<1>1. TypeOK /\ SnapshotInv /\ BegunInv /\ [Next]_vars => (TypeOK /\ SnapshotInv /\ BegunInv)'
    BY TypeStep, SnapshotsStep, BegunStep
<1>2. Init => TypeOK /\ SnapshotInv /\ BegunInv
    BY TypeInit, SnapshotsInit DEF Init, BegunInv, Idle, StaleOps, Carriers
<1> QED
    BY <1>1, <1>2, PTL DEF Spec

\* A rejected order stays rejected, in every interleaving of the handlers that
\* lock it, the sweep over its start date and the tasks: what the lock that
\* approve_by_provider and reject_by_provider take is for.  Rethinks are the
\* endpoints that have no such lock.
THEOREM RejectionsAreFinal ==
    ASSUME Endpoints \cap Rethinks = {}
    PROVE  Spec => RejectionIsFinal
<1>1. TypeOK /\ SnapshotInv /\ BegunInv /\ [Next]_vars =>
          [\A o \in Orders : order[o].st = "rejected" => order'[o].st = "rejected"]_vars
    <2> SUFFICES ASSUME TypeOK, SnapshotInv, BegunInv, [Next]_vars, NEW o \in Orders,
                        order[o].st = "rejected"
                 PROVE  order'[o].st = "rejected"
        OBVIOUS
    <2> QED
        BY BegunStays
<1> QED
    BY <1>1, SnapshotsKept, BegunKept, PTL DEF Spec, RejectionIsFinal

--------------------------------------------------------------------------------
(* No work starts before the date it waits for.                               *)

\* Where the provider reviews orders, only two reports of a site agent start an
\* order without asking for its date.
DatesAreAsked ==
    /\ NeedsProviderReview
    /\ OfferingType = "agent" => Endpoints \cap {"set_state_executing", "set_state_erred"} = {}

\* Everything else is under way for an order that has started, and the sweep for
\* one whose date has come.
Worn == {"executing", "done", "erred"}
DatesInv ==
    /\ \A o \in Orders : order[o].st \in Worn => o \in started
    /\ \A o \in Orders : queue[o] > 0 => o \in started
    /\ \A p \in Procs : proc[p].op \in Carriers => proc[p].o \in started
    /\ \A p \in Procs :
          /\ proc[p].op \in StaleOps /\ proc[p].row.st \in Worn => proc[p].o \in started
          /\ proc[p].op = "process_pending_start_date_orders" => calendar.order

\* Started orders are not forgotten, and the orders' own date does not go back.
LEMMA TimeGoesOn ==
    ASSUME TypeOK, [Next]_vars
    PROVE  /\ started \subseteq started'
           /\ (calendar.order => calendar'.order)
           /\ \A o \in Orders : order'[o] # order[o] /\ order'[o].st = "executing" => o \in started'
           /\ \A o \in started' \ started : o \in Orders /\ order'[o].st = "executing"
<1>1. CASE (Step \/ Aside) /\ AfterSave
    <2>1. calendar.order => calendar'.order
        <3>1. ASSUME NEW p \in Procs, Commit(p) \/ TaskEnds(p) \/ EarlyTicketGoesOn(p) \/ Place(p)
              PROVE  calendar' = calendar
            BY <3>1
            DEF Commit, CommitCancel, CommitRejectByConsumer, CommitSetStateExecuting,
                CommitEdit, CommitDestroy, CommitSetStateDone, CommitSetStateErred,
                CommitConfirm, CommitSweep, CommitTimeout, TaskEnds, TaskLeavesToAgent,
                TaskOpensTicket, TaskDelivers, TaskUpdatesLimits, TaskFails,
                EarlyTicketGoesOn, EarlyTicketOpened, EarlyTicketSaved, Place, BeginPlace,
                CommitPlace
        <3>2. ASSUME NEW o \in Orders, Review(o) \/ IssueStatusChange(o)
              PROVE  calendar' = calendar
            BY <3>2 DEF Review, ApproveByConsumer, ApplyAutoApproval, ConsumerClears,
                        ApproveByProvider, RejectByProvider, Retry, Unlink, IssueStatusChange
        <3>3. Outside => (calendar.order => calendar'.order)
            BY DEF Outside, SetAsOk, SetAsErred, SetResourceBackendId, DateComes,
                   ProjectDateComes, SetProjectStartDate, TypeOK
        <3>4. Aside => (calendar.order => calendar'.order)
            BY DEF Aside, BeginReset, CommitReset, UnsetProjectStartDate, AbandonRelease,
                   ReleaseOrder, TypeOK
        <3> QED
            BY <1>1, <3>1, <3>2, <3>3, <3>4
            DEF Step, Begin, Rollback, TaskStart, TaskSavesLimits, WorkerCrashes
    <2> QED
        BY <1>1, <2>1 DEF AfterSave
<1>2. CASE \E o \in Orders : LookAtProject(o) \/ \E p \in Procs : EarlyTicket(p, o)
    BY <1>2 DEF EarlyTicket, LookAtProject
<1>3. CASE UNCHANGED vars
    BY <1>3 DEF vars
<1> QED
    BY <1>1, <1>2, <1>3 DEF Next

\* A worn order that moves was worn before; one that starts does so when its own
\* date has come.
LEMMA DatesAsked ==
    ASSUME TypeOK, SnapshotInv, DatesInv, DatesAreAsked, [Next]_vars, NEW o \in Orders,
           order'[o] # order[o], order'[o].st \in Worn, o \notin started
    PROVE  order'[o].st = "executing" /\ ~StartsLater(order'[o])
<1>1. Moved(o) /\ order[o] \in Rows
    BY Moves DEF TypeOK
<1>2. \A st \in OrderStates : To(o, st) =>
          order'[o].st = st /\ StartsLater(order'[o]) = StartsLater(order[o])
    BY <1>1, RowWrites DEF To, StartsLater
<1>3. order[o].st \notin Worn
    BY DEF DatesInv
<1>4. /\ \A later : AfterConsumerApproval(order[o], later) \in OrderStates \ Worn
      /\ \A row : AfterProjectStart(row) \in OrderStates \ Worn
      /\ \A skips, later : AfterPlacement(skips, later) \in OrderStates \ Worn
    BY DEF AfterConsumerApproval, AfterProjectStart, AfterPlacement, DatesAreAsked, Worn
<1>5. ~Dated(o) /\ ~Synced(o)
    BY <1>2, <1>3, <1>4 DEF Dated, Synced, Worn
<1>6. ~Placed(o)
    <2>1. SUFFICES ASSUME NEW p \in Procs, NEW skips \in BOOLEAN, proc[p].op = "place",
                          order'[o] = WithState(proc[p].row, AfterPlacement(skips, proc[p].later))
                   PROVE  FALSE
        BY DEF Placed
    <2>2. proc[p].row \in Rows
        BY <2>1, SnapshotType
    <2> QED
        BY <1>4, <2>1, <2>2, RowWrites
<1>7. CASE Reviewed(o)
    <2>1. To(o, AfterProviderApproval(order[o]))
        BY <1>2, <1>3, <1>4, <1>7 DEF Reviewed, Worn
    <2>2. AfterProviderApproval(order[o]) = IF StartsLater(order[o]) THEN "pending_start_date" ELSE "executing"
        BY DEF AfterProviderApproval
    <2> QED
        BY <1>2, <2>1, <2>2 DEF Worn
<1>8. CASE Committed(o)
    <2>1. PICK p \in Procs : proc[p].op \in StaleOps /\ proc[p].o = o /\ Wrote(proc[p], o)
        BY <1>8 DEF Committed
    <2>2. /\ proc[p].row \in Rows /\ proc[p].row.st \in AcceptedStates[proc[p].op]
          /\ proc[p].op \notin {"set_state_executing", "set_state_erred"}
          /\ proc[p].row.st \notin Worn
        BY <2>1, SnapshotType DEF SnapshotInv, StaleOps, DatesInv, DatesAreAsked, OfferedTo,
                                  NeedsProviderReview
    <2>3. CASE proc[p].op = "process_pending_start_date_orders"
        <3>1. To(o, "executing") /\ calendar.order
            BY <2>1, <2>3 DEF Wrote, SweepTarget, DatesInv, Sweeps
        <3> QED
            BY <1>2, <3>1 DEF StartsLater
    <2>4. CASE proc[p].op = "process_pending_project_orders"
        <3>1. To(o, AfterProjectStart(proc[p].row))
            BY <2>1, <2>4 DEF Wrote, SweepTarget, Sweeps
        <3>2. AfterProjectStart(proc[p].row) = "pending_provider"
            BY DEF AfterProjectStart, DatesAreAsked
        <3> QED
            BY <1>2, <3>1, <3>2 DEF Worn
    <2>5. CASE proc[p].op \in {"partial_update", "set_backend_id"}
        <3>1. order'[o].st = proc[p].row.st
            <4> DEFINE row == proc[p].row
            <4>1. order'[o] = row \/ \E delayed \in BOOLEAN : order'[o] = WithDelay(row, delayed)
                BY <2>1, <2>5 DEF Wrote, Sweeps
            <4> QED
                BY <2>2, <4>1, RowWrites
        <3> QED
            BY <2>2, <3>1
    <2>6. proc[p].op # "mark_resources_as_erred_after_timeout"
        BY <2>2 DEF AcceptedStates, Worn
    <2>7. CASE proc[p].op \in {"cancel", "reject_by_consumer", "destroy",
                               "confirm_pending_terminate_order"}
        <3>1. \/ order'[o] = WithState(proc[p].row, "canceled")
              \/ order'[o] = WithState(proc[p].row, "rejected")
              \/ To(o, "deleted") \/ To(o, AfterConsumerApproval(order[o], proc[p].later))
            BY <2>1, <2>7 DEF Wrote, Sweeps
        <3> QED
            BY <1>2, <1>4, <2>2, <3>1, RowWrites DEF Worn
    <2> QED
        BY <2>1, <2>2, <2>3, <2>4, <2>5, <2>6, <2>7 DEF Wrote, Sweeps
<1>9. ~Worked(o)
    BY DEF Worked, DatesInv
<1> QED
    BY <1>1, <1>5, <1>6, <1>7, <1>8, <1>9 DEF Moved

LEMMA DatesStep ==
    ASSUME TypeOK, TypeOK', SnapshotInv, DatesInv, DatesAreAsked, [Next]_vars
    PROVE  DatesInv'
<1>1. started \subseteq started'
    BY TimeGoesOn
<1>2. ASSUME NEW o \in Orders, order'[o].st \in Worn
      PROVE  o \in started'
    <2>1. CASE order'[o] = order[o]
        BY <1>1, <1>2, <2>1 DEF DatesInv
    <2>2. CASE order'[o] # order[o] /\ o \notin started
        BY <1>2, <2>2, DatesAsked, TimeGoesOn
    <2> QED
        BY <1>1, <2>1, <2>2
<1>3. ASSUME NEW o \in Orders, queue'[o] > 0
      PROVE  o \in started'
    <2>1. queue[o] \in Nat /\ queue'[o] \in Nat
        BY BoundAssumption DEF TypeOK
    <2>2. order'[o].st = "executing" \/ queue[o] > 0
        BY <1>3, <2>1, Messages
    <2> QED
        BY <1>1, <1>2, <2>2 DEF DatesInv, Worn
<1>4. ASSUME NEW p \in Procs
      PROVE  /\ proc'[p].op \in Carriers => proc'[p].o \in started'
             /\ proc'[p].op \in StaleOps /\ proc'[p].row.st \in Worn => proc'[p].o \in started'
             /\ proc'[p].op = "process_pending_start_date_orders" => calendar'.order
    <2>1. CASE proc'[p] = proc[p]
        BY <1>1, <2>1, TimeGoesOn DEF DatesInv
    <2>2. CASE Starts(p) /\ proc'[p] \notin {proc[p], Idle}
        BY <1>1, <2>2, StartsFresh, TimeGoesOn DEF DatesInv, AlsoRequired, StaleOps, Carriers
    <2>3. CASE proc'[p] = Idle
        BY <2>3 DEF Idle, StaleOps, Carriers
    <2> QED
        BY <2>1, <2>2, <2>3, Turns
<1> QED
    BY <1>2, <1>3, <1>4 DEF DatesInv

LEMMA DatesKept ==
    ASSUME DatesAreAsked
    PROVE  Spec => []DatesInv
<1>1. TypeOK /\ SnapshotInv /\ DatesInv /\ [Next]_vars => (TypeOK /\ SnapshotInv /\ DatesInv)'
    BY TypeStep, SnapshotsStep, DatesStep
<1>2. Init => TypeOK /\ SnapshotInv /\ DatesInv
    BY TypeInit, SnapshotsInit DEF Init, DatesInv, Idle, StaleOps, Worn, Carriers
<1> QED
    BY <1>1, <1>2, PTL DEF Spec

\* Where the provider reviews orders, every route to EXECUTING asks for the
\* order's start date: approvals, the sweeps, the project's start date, retries
\* and copies that are written back (approve_by_provider,
\* process_pending_start_date_orders).
THEOREM StartDatesAreHonoured ==
    ASSUME DatesAreAsked
    PROVE  Spec => StartDateHonoured
<1>1. TypeOK /\ TypeOK' /\ SnapshotInv /\ DatesInv /\ [Next]_vars =>
          [\A o \in started' \ started : ~StartsLater(order'[o])]_vars
    <2> SUFFICES ASSUME TypeOK, SnapshotInv, DatesInv, [Next]_vars,
                        NEW o \in started' \ started
                 PROVE  ~StartsLater(order'[o])
        OBVIOUS
    <2>1. o \in Orders /\ order'[o].st = "executing" /\ o \notin started
        BY TimeGoesOn
    <2>2. order'[o] # order[o]
        BY <2>1 DEF DatesInv, Worn
    <2> QED
        BY <2>1, <2>2, DatesAsked DEF Worn
<1> QED
    BY <1>1, TypeCorrect, SnapshotsKept, DatesKept, PTL DEF Spec, StartDateHonoured

--------------------------------------------------------------------------------
(* An order completes together with its resource.                             *)

\* No report goes by an old copy of the resource (set_state_done), no edit
\* brings an old state back (set_backend_id), and there is no issue to resolve.
Attended ==
    OfferingType # "support" /\ Endpoints \cap {"set_state_done", "set_backend_id"} = {}

\* Every order that becomes DONE does so in the step that makes its resource OK,
\* or TERMINATED where that is what was ordered: whichever of several orders is
\* taken to be the one in execution (set_order_state, the processors).
THEOREM CompletionsSettle ==
    ASSUME Attended
    PROVE  Spec => CompletionSettlesResource
<1>1. TypeOK /\ SnapshotInv /\ [Next]_vars =>
          [\A o \in Orders :
              order[o].st # "done" /\ order'[o].st = "done" =>
                  res'.st = IF order[o].type = "terminate" THEN "terminated" ELSE "ok"]_vars
    <2> SUFFICES ASSUME TypeOK, SnapshotInv, [Next]_vars, NEW o \in Orders,
                        order[o].st # "done", order'[o].st = "done"
                 PROVE  Settled(o)
        BY DEF Settled
    <2>1. Moved(o) /\ order[o] \in Rows
        BY Moves DEF TypeOK
    <2>2. \A st \in OrderStates : To(o, st) => st = "done"
        BY <2>1, RowWrites DEF To
    <2>3. \A row \in Rows, st \in OrderStates : order'[o] = WithState(row, st) => st = "done"
        BY RowWrites
    <2>4. /\ \A skips, later : AfterPlacement(skips, later) \in OrderStates \ {"done"}
          /\ \A row : /\ \A later : AfterConsumerApproval(row, later) \in OrderStates \ {"done"}
                      /\ AfterProviderApproval(row) \in OrderStates \ {"done"}
                      /\ AfterProjectStart(row) \in OrderStates \ {"done"}
        BY DEF AfterPlacement, AfterConsumerApproval, AfterProviderApproval, AfterProjectStart
    <2>5. ~Placed(o)
        BY <2>3, <2>4, SnapshotType DEF Placed
    <2>6. ~Reviewed(o) /\ ~Dated(o)
        BY <2>2, <2>4 DEF Reviewed, Dated
    <2>7. ~Committed(o)
        <3>1. SUFFICES ASSUME NEW p \in Procs, proc[p].op \in StaleOps, Wrote(proc[p], o)
                       PROVE  FALSE
            BY DEF Committed
        <3>2. /\ proc[p].row \in Rows /\ proc[p].row.st \in AcceptedStates[proc[p].op]
              /\ proc[p].op # "set_backend_id"
            BY <3>1, SnapshotType DEF SnapshotInv, StaleOps, Attended
        <3>3. CASE proc[p].op = "partial_update"
            <4>1. PICK delayed \in BOOLEAN : order'[o] = WithDelay(proc[p].row, delayed)
                BY <3>1, <3>3 DEF Wrote, Sweeps
            <4>2. proc[p].row.st = "pending_consumer"
                BY <3>2, <3>3 DEF AcceptedStates
            <4>3. WithDelay(proc[p].row, delayed).st = proc[p].row.st
                BY <3>2, RowWrites
            <4> QED
                BY <4>1, <4>2, <4>3
        <3>4. /\ SweepTarget(proc[p]) \in OrderStates \ {"done"}
              /\ AfterConsumerApproval(order[o], proc[p].later) \in OrderStates \ {"done"}
            BY <2>4 DEF SweepTarget
        <3>5. \A st \in OrderStates \ {"done"} :
                  ~To(o, st) /\ order'[o] # WithState(proc[p].row, st)
            BY <2>2, <2>3, <3>2
        <3>6. /\ ~To(o, SweepTarget(proc[p]))
              /\ ~To(o, AfterConsumerApproval(order[o], proc[p].later))
              /\ ~To(o, "executing") /\ ~To(o, "deleted") /\ ~To(o, "erred")
              /\ order'[o] # WithState(proc[p].row, "canceled")
              /\ order'[o] # WithState(proc[p].row, "rejected")
              /\ order'[o] # WithState(proc[p].row, "erred")
            BY <3>4, <3>5
        <3> QED
            BY <3>1, <3>2, <3>3, <3>6 DEF Wrote
    <2>8. Synced(o) => Settled(o)
        BY <2>2 DEF Synced, Attended
    <2>9. Worked(o) => Settled(o)
        BY <2>2, <2>3, SnapshotType DEF Worked, Carriers
    <2> QED
        BY <2>1, <2>5, <2>6, <2>7, <2>8, <2>9 DEF Moved
<1> QED
    BY <1>1, SnapshotsKept, PTL DEF Spec, CompletionSettlesResource

--------------------------------------------------------------------------------
(* A refused CREATE leaves nothing behind.                                    *)

\* Besides the endpoints of Rethinks, no request sets the resource's state from
\* outside, nobody restores resources, and there is no helpdesk.
Enclosed ==
    /\ Endpoints \cap (Rethinks \cup {"set_as_ok", "set_as_erred"}) = {}
    /\ "restore" \notin Types /\ OfferingType # "support"

\* A CREATE order that waits or is rejected is alone with its resource, as it
\* was while it was being placed; and whoever has a copy of the resource to save,
\* or has listed it, has it as it is once it has been ordered.
Undecided == PendingStates \cup {"rejected"}
CreateInv ==
    /\ res.st = "none" =>
          /\ \A o \in Orders : order[o].st = "unplaced"
          /\ \A p, q \in Procs :
                proc[p].op = "place" =>
                    proc[p].row.type = "create" /\ (proc[q].op = "place" => q = p)
    /\ \A p \in Procs :
          proc[p].op = "place" /\ proc[p].row.type = "create" => res.st = "none"
    /\ \A o \in Orders : order[o].st \notin {"canceled", "deleted"}
    /\ stuck => res.st # "none"
    /\ \A p \in Procs : proc[p].op \in Carriers => proc[p].res.st # "none"
    /\ \A o \in Orders :
          order[o].type = "create" /\ order[o].st \in Undecided =>
              /\ ~stuck
              /\ \A x \in Orders \ {o} : order[x].st = "unplaced"
              /\ \A p \in Procs : proc[p].op # "place"
              /\ res.st = IF order[o].st = "rejected" THEN "terminated" ELSE "creating"

\* A resource that has been ordered stays so.
LEMMA NeverNone ==
    ASSUME TypeOK, SnapshotInv, BegunInv, CreateInv, Enclosed, [Next]_vars, res.st # "none"
    PROVE  res'.st # "none"
<1>1. res \in ResourceRows
    BY DEF TypeOK
<1>2. \A st \in ResourceStates \ {"none"} : res' = SetResource(st) => res'.st # "none"
    BY <1>1 DEF SetResource, ResourceRows
<1>3. UNCHANGED res => res'.st # "none"
    OBVIOUS
<1>4. \A type, copy : res' = AfterRefusal(type, copy) \/ res' = AtPlacement(type, copy)
          \/ res' = AfterError(copy) \/ res' = AtTaskStart(type) => res'.st # "none"
    BY <1>2, <1>3 DEF AfterRefusal, AtPlacement, AfterError, AtTaskStart
<1>5. ASSUME NEW p \in Procs, Place(p)
      PROVE  res'.st # "none"
    BY <1>3, <1>4, <1>5 DEF Place, BeginPlace, CommitPlace
<1>6. ASSUME NEW p \in Procs, Commit(p)
      PROVE  res'.st # "none"
    <2>1. proc[p].op \in StaleOps
        BY <1>6 DEF Commit, CommitCancel, CommitRejectByConsumer, CommitSetStateExecuting,
               CommitEdit, CommitDestroy, CommitSetStateDone, CommitSetStateErred,
               CommitConfirm, CommitSweep, CommitTimeout, StaleOps
    <2>2. Endpoints \cap Rethinks = {}
        BY DEF Enclosed
    <2>3. CommitSetStateDone(p) \/ CommitTimeout(p) \/ CommitSweep(p)
        BY <1>6, <2>1, <2>2, LeftOps
        DEF Commit, CommitCancel, CommitRejectByConsumer, CommitSetStateExecuting,
               CommitEdit, CommitDestroy, CommitSetStateErred, CommitConfirm
    <2>4. CASE CommitSetStateDone(p)
        BY <1>2, <1>3, <2>4 DEF CommitSetStateDone, Completes
    <2> QED
        BY <1>2, <1>3, <2>3, <2>4 DEF CommitTimeout, CommitSweep
<1>7. ASSUME NEW p \in Procs, TaskEnds(p)
      PROVE  res'.st # "none"
    <2> DEFINE h == proc[p]
    <2>1. h.op \in Carriers
        BY <1>7 DEF TaskEnds, TaskLeavesToAgent, TaskOpensTicket, TaskDelivers,
                    TaskUpdatesLimits, TaskFails, Carriers
    <2>2. Exists(h.o) /\ h.res \in ResourceRows
        BY <2>1, SnapshotType DEF BegunInv, Begun, Exists, Carriers
    <2>3. \A st \in ResourceStates : [h.res EXCEPT !.st = st].st = st
        BY <2>2 DEF ResourceRows
    <2>4. CASE TaskDelivers(p)
        <3>1. CASE TaskCreates(h)
            BY <1>2, <1>3, <3>1 DEF TaskCreates, FailOrder
        <3>2. CASE TaskUpdates(h)
            BY <1>2, <1>3, <3>2 DEF TaskUpdates
        <3>3. CASE TaskTerminates(h)
            BY <1>2, <1>3, <3>3 DEF TaskTerminates, FailOrder
        <3> QED
            BY <2>4, <3>1, <3>2, <3>3 DEF TaskDelivers
    <2>5. CASE TaskFails(p)
        BY <1>2, <1>3, <1>4, <2>5 DEF TaskFails, FailOrder
    <2>6. CASE TaskLeavesToAgent(p)
        BY <1>3, <2>6 DEF TaskLeavesToAgent
    <2>7. ~TaskOpensTicket(p)
        BY DEF TaskOpensTicket, Enclosed
    <2>8. CASE TaskUpdatesLimits(p)
        BY <1>2, <1>3, <2>2, <2>3, <2>8 DEF TaskUpdatesLimits, FailOrder
    <2> QED
        BY <1>7, <2>4, <2>5, <2>6, <2>7, <2>8 DEF TaskEnds
<1>8. ASSUME NEW o \in Orders, Review(o)
      PROVE  res'.st # "none"
    <2>1. RetryTarget(order[o].type) \in ResourceStates \ {"none"}
        BY DEF RetryTarget
    <2> QED
        BY <1>2, <1>3, <1>4, <1>8, <2>1 DEF Review, ApproveByConsumer, ApplyAutoApproval,
            ConsumerClears, ApproveByProvider, RejectByProvider, Retry, Unlink
<1>9. Outside \/ Aside => res'.st # "none"
    BY <1>1, <1>2, <1>3 DEF Outside, SetAsOk, SetAsErred, SetResourceBackendId, DateComes,
        ProjectDateComes, SetProjectStartDate, Aside, BeginReset, CommitReset,
        UnsetProjectStartDate, AbandonRelease, ReleaseOrder, ResourceRows
<1>10. /\ \A o \in Orders : ~IssueStatusChange(o)
       /\ \A p \in Procs : ~EarlyTicketGoesOn(p) /\ \A o \in Orders : ~EarlyTicket(p, o)
    BY DEF IssueStatusChange, EarlyTicketGoesOn, EarlyTicketOpened, EarlyTicketSaved,
           EarlyTicket, SnapshotInv, Enclosed
<1>11. \A p \in Procs : TaskSavesLimits(p) => res'.st # "none"
    BY DEF TaskSavesLimits, CreateInv, Carriers
<1>12. CASE Step
    BY <1>3, <1>4, <1>5, <1>6, <1>7, <1>8, <1>9, <1>10, <1>11, <1>12
    DEF Step, Begin, Rollback, TaskStart, WorkerCrashes
<1>13. CASE UNCHANGED vars \/ \E o \in Orders : LookAtProject(o)
    BY <1>13 DEF vars, LookAtProject
<1> QED
    BY <1>9, <1>10, <1>12, <1>13 DEF Next

\* While no order has begun, the resource changes with an order that is placed or
\* rejected, and otherwise only back from UPDATING, where the sweep has seen it.
LEMMA StillResource ==
    ASSUME TypeOK, SnapshotInv, BegunInv, Enclosed, [Next]_vars,
           \A o \in Orders : order[o].st \notin Begun
    PROVE  \/ res'.st = res.st \/ stuck
           \/ \E p \in Procs : proc[p].op = "place" /\ proc'[p] = Idle
           \/ \E o \in Orders : /\ order[o].st = "pending_provider" /\ To(o, "rejected")
                                /\ res' = AfterRefusal(order[o].type, res)
<1> DEFINE Still == \/ res'.st = res.st \/ stuck
                    \/ \E p \in Procs : proc[p].op = "place" /\ proc'[p] = Idle
                    \/ \E o \in Orders : /\ order[o].st = "pending_provider" /\ To(o, "rejected")
                                         /\ res' = AfterRefusal(order[o].type, res)
<1>1. \A o \in Orders : queue[o] = 0
    BY BoundAssumption DEF BegunInv, TypeOK
<1>2. \A p \in Procs : proc[p].op \notin Carriers
    BY SnapshotType DEF BegunInv, Carriers
<1>3. ASSUME NEW p \in Procs, Place(p)
      PROVE  Still
    BY <1>3 DEF Place, BeginPlace, CommitPlace, Finish, TypeOK
<1>4. ASSUME NEW p \in Procs, Commit(p)
      PROVE  Still
    <2>1. proc[p].op \in StaleOps
        BY <1>4 DEF Commit, CommitCancel, CommitRejectByConsumer, CommitSetStateExecuting,
               CommitEdit, CommitDestroy, CommitSetStateDone, CommitSetStateErred,
               CommitConfirm, CommitSweep, CommitTimeout, StaleOps
    <2>2. Endpoints \cap Rethinks = {} /\ proc[p].o \in Orders
        BY <2>1, SnapshotType DEF Enclosed, StaleOps
    <2>3. proc[p].row.st = "pending_start_date"
        BY <2>1, <2>2, LeftOps DEF BegunInv, Begun
    <2>4. proc[p].op = "process_pending_start_date_orders"
        BY <2>1, <2>2, <2>3, LeftOps DEF SnapshotInv, AcceptedStates
    <2>5. CommitSweep(p)
        BY <1>4, <2>4 DEF Commit, CommitCancel, CommitRejectByConsumer, CommitSetStateExecuting,
               CommitEdit, CommitDestroy, CommitSetStateDone, CommitSetStateErred,
               CommitConfirm, CommitTimeout
    <2> QED
        BY <2>5 DEF CommitSweep
<1>5. ASSUME NEW o \in Orders, Review(o)
      PROVE  Still
    <2>1. CASE RejectByProvider(o)
        <3>1. order[o] \in Rows /\ To(o, "rejected")
            BY <2>1, WritesOne DEF RejectByProvider, TypeOK
        <3> QED
            BY <2>1, <3>1 DEF RejectByProvider
    <2>2. ~Retry(o)
        BY DEF Retry, Begun
    <2> QED
        BY <1>5, <2>1, <2>2 DEF Review, ApproveByConsumer, ApplyAutoApproval,
            ConsumerClears, ApproveByProvider, Unlink
<1>6. Outside \/ Aside => Still
    BY DEF Outside, SetAsOk, SetAsErred, SetResourceBackendId, DateComes, ProjectDateComes,
           SetProjectStartDate, Aside, BeginReset, CommitReset, UnsetProjectStartDate,
           AbandonRelease, ReleaseOrder, TypeOK, ResourceRows, Enclosed
<1>7. /\ \A o \in Orders : ~IssueStatusChange(o)
      /\ \A p \in Procs : ~EarlyTicketGoesOn(p) /\ \A o \in Orders : ~EarlyTicket(p, o)
    BY DEF IssueStatusChange, EarlyTicketGoesOn, EarlyTicketOpened, EarlyTicketSaved,
           EarlyTicket, SnapshotInv, Enclosed
<1>8. \A p \in Procs :
          ~TaskSavesLimits(p) /\ ~TaskEnds(p) /\ \A o \in Orders : ~TaskStart(p, o)
    BY <1>1, <1>2 DEF TaskSavesLimits, TaskEnds, TaskLeavesToAgent, TaskOpensTicket,
                      TaskDelivers, TaskUpdatesLimits, TaskFails, TaskStart, Carriers
<1>9. CASE Step
    BY <1>3, <1>4, <1>5, <1>6, <1>7, <1>8, <1>9 DEF Step, Begin, Rollback, WorkerCrashes
<1>10. CASE UNCHANGED vars \/ \E o \in Orders : LookAtProject(o)
    BY <1>10 DEF vars, LookAtProject
<1> QED
    BY <1>6, <1>7, <1>9, <1>10 DEF Next

\* Without Rethinks, orders are rejected by the provider only.
LEMMA RejectedHow ==
    ASSUME TypeOK, SnapshotInv, BegunInv, Enclosed, [Next]_vars, NEW o \in Orders,
           order[o].st # "rejected", order'[o].st = "rejected"
    PROVE  order[o].st = "pending_provider" /\ res' = AfterRefusal(order[o].type, res)
<1>1. Moved(o) /\ order[o] \in Rows
    BY Moves DEF TypeOK
<1>2. \A st \in OrderStates \ {"rejected"} : ~To(o, st)
    BY <1>1, RowWrites DEF To
<1>3. \A row \in Rows, st \in OrderStates \ {"rejected"} : order'[o] # WithState(row, st)
    BY RowWrites
<1>4. /\ \A skips, later : AfterPlacement(skips, later) \in OrderStates \ {"rejected"}
      /\ \A row : /\ \A later : AfterConsumerApproval(row, later) \in OrderStates \ {"rejected"}
                  /\ AfterProviderApproval(row) \in OrderStates \ {"rejected"}
                  /\ AfterProjectStart(row) \in OrderStates \ {"rejected"}
    BY DEF AfterPlacement, AfterConsumerApproval, AfterProviderApproval, AfterProjectStart
<1>5. ~Placed(o)
    BY <1>3, <1>4, SnapshotType DEF Placed
<1>6. ~Dated(o) /\ ~Synced(o)
    BY <1>2, <1>4 DEF Dated, Synced
<1>7. ~Committed(o)
    <2>1. SUFFICES ASSUME NEW p \in Procs, proc[p].op \in StaleOps, Wrote(proc[p], o)
                   PROVE  FALSE
        BY DEF Committed
    <2>2. /\ proc[p].row \in Rows
          /\ proc[p].op \in {"set_state_done", "mark_resources_as_erred_after_timeout",
                             "process_pending_start_date_orders"}
        BY <2>1, SnapshotType, LeftOps DEF StaleOps, Enclosed
    <2>3. To(o, "executing") \/ order'[o] = WithState(proc[p].row, "erred")
        BY <2>1, <2>2 DEF Wrote, Sweeps, SweepTarget
    <2> QED
        BY <1>2, <1>3, <2>2, <2>3
<1>8. ~Worked(o)
    BY <1>2, <1>3, SnapshotType DEF Worked, Carriers
<1> QED
    BY <1>1, <1>2, <1>4, <1>5, <1>6, <1>7, <1>8 DEF Moved, Reviewed

\* Nothing cancels or deletes an order.
LEMMA NothingCancels ==
    ASSUME TypeOK, SnapshotInv, BegunInv, Enclosed, [Next]_vars, NEW o \in Orders,
           order'[o].st \in {"canceled", "deleted"}
    PROVE  order'[o] = order[o]
<1>1. SUFFICES ASSUME Moved(o) PROVE FALSE
    BY Moves
<1>2. order[o] \in Rows
    BY DEF TypeOK
<1> DEFINE Others == OrderStates \ {"canceled", "deleted"}
<1>3. \A st \in Others : ~To(o, st)
    BY <1>2, RowWrites DEF To
<1>4. \A row \in Rows, st \in Others : order'[o] # WithState(row, st)
    BY RowWrites
<1>5. /\ \A skips, later : AfterPlacement(skips, later) \in Others
      /\ \A row : /\ \A later : AfterConsumerApproval(row, later) \in Others
                  /\ AfterProviderApproval(row) \in Others
                  /\ AfterProjectStart(row) \in Others
    BY DEF AfterPlacement, AfterConsumerApproval, AfterProviderApproval, AfterProjectStart
<1>6. ~Placed(o)
    BY <1>4, <1>5, SnapshotType DEF Placed
<1>7. ~Reviewed(o)
    BY <1>3, <1>5 DEF Reviewed, Enclosed, Rethinks
<1>8. ~Dated(o) /\ ~Synced(o)
    BY <1>3, <1>5 DEF Dated, Synced, Enclosed
<1>9. ~Committed(o)
    <2>1. SUFFICES ASSUME NEW p \in Procs, proc[p].op \in StaleOps, Wrote(proc[p], o)
                   PROVE  FALSE
        BY DEF Committed
    <2>2. /\ proc[p].row \in Rows
          /\ proc[p].op \in {"set_state_done", "mark_resources_as_erred_after_timeout",
                             "process_pending_start_date_orders"}
        BY <2>1, SnapshotType, LeftOps DEF StaleOps, Enclosed
    <2>3. To(o, "executing") \/ order'[o] = WithState(proc[p].row, "erred")
        BY <2>1, <2>2 DEF Wrote, Sweeps, SweepTarget
    <2> QED
        BY <1>3, <1>4, <2>2, <2>3
<1>10. ~Worked(o)
    BY <1>3, <1>4, SnapshotType DEF Worked, Carriers
<1> QED
    BY <1>1, <1>6, <1>7, <1>8, <1>9, <1>10 DEF Moved

\* The sweep over the resource lists it in UPDATING, and then only forgets it.
LEMMA ListsResource ==
    ASSUME [Next]_vars, stuck', ~stuck
    PROVE  res.st = "updating" /\ UNCHANGED <<order, res, proc>>
    BY DEF Next, Aside, BeginReset, CommitReset, UnsetProjectStartDate, AbandonRelease,
           ReleaseOrder, LookAtProject, EarlyTicket, vars

LEMMA CreateStep ==
    ASSUME TypeOK, TypeOK', SnapshotInv, BegunInv, CreateInv, Enclosed, [Next]_vars
    PROVE  CreateInv'
<1>1. Endpoints \cap Rethinks = {} /\ Types \subseteq OrderTypes \ {"restore"}
    BY ScopeAssumption DEF Enclosed
<1>2. ASSUME NEW p \in Procs, proc'[p].op = "place", proc'[p] # proc[p]
      PROVE  /\ UNCHANGED <<order, res>> /\ \A q \in Procs \ {p} : proc'[q] = proc[q]
             /\ proc'[p].row.type \in Types /\ res.st \in PlacedOn[proc'[p].row.type]
             /\ proc'[p].row.type = "create" => \A q \in Procs : proc[q].op # "place"
    <2>1. Starts(p) /\ proc'[p] \notin {proc[p], Idle}
        BY <1>2, Turns DEF Idle
    <2>2. ASSUME NEW q \in Procs, proc[q].op = "place"
          PROVE  Placing(proc[q].o) /\ proc[q].o \in Orders
        BY <2>2, SnapshotType DEF Placing
    <2> QED
        BY <1>2, <2>1, <2>2, Turns, StartsFresh
<1>3. res.st = "none" => \A o \in Orders : order[o].st = "unplaced"
    BY DEF CreateInv
<1>4. ASSUME NEW o \in Orders, order[o].st = "unplaced", order'[o].st # "unplaced"
      PROVE  \E p \in Procs :
                /\ proc[p].op = "place" /\ proc[p].o = o /\ proc'[p] = Idle
                /\ proc[p].row.type = order'[o].type
                /\ order'[o].st \notin {"rejected", "canceled", "deleted"}
                /\ res' = AtPlacement(proc[p].row.type, proc[p].res)
    <2>1. Placed(o)
        BY <1>4, FirstMove
    <2>2. PICK p \in Procs, skips \in BOOLEAN :
              /\ proc[p].op = "place" /\ proc[p].o = o /\ proc'[p] = Idle
              /\ order'[o] = WithState(proc[p].row, AfterPlacement(skips, proc[p].later))
              /\ res' = AtPlacement(proc[p].row.type, proc[p].res)
        BY <2>1 DEF Placed
    <2>3. proc[p].row \in Rows
        BY <2>2, SnapshotType
    <2>4. AfterPlacement(skips, proc[p].later)
              \in OrderStates \ {"rejected", "canceled", "deleted"}
        BY DEF AfterPlacement
    <2> QED
        BY <2>2, <2>3, <2>4, RowWrites
<1>5. \A copy : res' = AtPlacement("create", copy) => res'.st = "creating"
    BY DEF AtPlacement, SetResource, TypeOK, ResourceRows
<1>6. ASSUME res'.st = "none"
      PROVE  /\ \A o \in Orders : order'[o].st = "unplaced"
             /\ \A p, q \in Procs :
                    proc'[p].op = "place" =>
                        proc'[p].row.type = "create" /\ (proc'[q].op = "place" => q = p)
    <2>1. res.st = "none"
        BY <1>6, NeverNone
    <2>2. \A o \in Orders : order'[o].st = "unplaced"
        BY <1>3, <1>4, <1>5, <1>6, <2>1 DEF CreateInv
    <2>3. \A type \in OrderTypes \ {"restore"} : "none" \in PlacedOn[type] => type = "create"
        BY DEF PlacedOn
    <2>4. ASSUME NEW p \in Procs, NEW q \in Procs, proc'[p].op = "place"
          PROVE  proc'[p].row.type = "create" /\ (proc'[q].op = "place" => q = p)
        <3>1. CASE proc'[p] # proc[p]
            BY <1>1, <1>2, <2>1, <2>3, <2>4, <3>1
        <3>2. CASE proc'[p] = proc[p] /\ proc'[q] # proc[q]
            <4>1. proc[p].row.type = "create"
                BY <2>1, <2>4, <3>2 DEF CreateInv
            <4>2. SUFFICES ASSUME proc'[q].op = "place" PROVE FALSE
                BY <3>2, <4>1
            <4>3. proc'[q].row.type = "create"
                BY <1>1, <1>2, <2>1, <2>3, <3>2, <4>2
            <4>4. proc[p].op # "place"
                BY <1>2, <3>2, <4>2, <4>3
            <4> QED
                BY <2>4, <3>2, <4>4
        <3>3. CASE proc'[p] = proc[p] /\ proc'[q] = proc[q]
            BY <2>1, <2>4, <3>3 DEF CreateInv
        <3> QED
            BY <3>1, <3>2, <3>3
    <2> QED
        BY <2>2, <2>4
<1>7. ASSUME NEW p \in Procs, proc'[p].op = "place", proc'[p].row.type = "create"
      PROVE  res'.st = "none"
    <2>1. CASE proc'[p] # proc[p]
        BY <1>2, <1>7, <2>1 DEF PlacedOn
    <2>2. CASE proc'[p] = proc[p]
        <3>1. res.st = "none"
            BY <1>7, <2>2 DEF CreateInv
        <3>2. \A o \in Orders : order[o].st \notin Begun \cup {"pending_provider"}
            BY <1>3, <3>1 DEF Begun
        <3>3. ASSUME NEW q \in Procs, proc[q].op = "place"
              PROVE  proc'[q] # Idle
            BY <1>7, <2>2, <3>1, <3>3 DEF CreateInv, Idle
        <3>4. ~stuck
            BY <3>1 DEF CreateInv
        <3> QED
            BY <3>1, <3>2, <3>3, <3>4, StillResource
    <2> QED
        BY <2>1, <2>2
<1>8. \A o \in Orders : order'[o].st \notin {"canceled", "deleted"}
    BY NothingCancels DEF CreateInv
<1>9. ASSUME NEW o \in Orders, order'[o].type = "create", order'[o].st \in Undecided
      PROVE  /\ ~stuck'
             /\ \A x \in Orders \ {o} : order'[x].st = "unplaced"
             /\ \A p \in Procs : proc'[p].op # "place"
             /\ res'.st = IF order'[o].st = "rejected" THEN "terminated" ELSE "creating"
    <2>1. CASE order[o].st = "unplaced"
        <3>1. PICK p \in Procs :
                  /\ proc[p].op = "place" /\ proc[p].o = o /\ proc'[p] = Idle
                  /\ proc[p].row.type = "create" /\ order'[o].st # "rejected"
                  /\ res' = AtPlacement("create", proc[p].res)
            BY <1>4, <1>9, <2>1 DEF Undecided
        <3>2. res.st = "none" /\ res'.st = "creating" /\ ~stuck'
            BY <1>5, <3>1, ListsResource DEF CreateInv
        <3>3. \A q \in Procs \ {p} : proc[q].op # "place"
            BY <3>1, <3>2 DEF CreateInv
        <3>4. \A x \in Orders \ {o} : order'[x].st = "unplaced"
            BY <1>3, <1>4, <3>1, <3>2, <3>3
        <3>5. order'[o] # order[o]
            BY <1>9, <2>1 DEF Undecided
        <3>6. \A q \in Procs : proc'[q].op # "place"
            BY <1>2, <3>1, <3>3, <3>5 DEF Idle
        <3> QED
            BY <3>1, <3>2, <3>4, <3>6
    <2>2. CASE order[o].st # "unplaced"
        <3>1. order[o].type = "create" /\ order[o].st \in Undecided
            <4>1. order[o].type = "create"
                BY <1>9, <2>2, KindKept
            <4>2. order[o].st \in OrderStates /\ order[o].st \notin Begun
                BY <1>1, <1>9, BegunStays DEF TypeOK, Rows, Begun, Undecided
            <4> QED
                BY <2>2, <4>1, <4>2 DEF CreateInv, Begun, Undecided
        <3>2. /\ ~stuck
              /\ \A x \in Orders \ {o} : order[x].st = "unplaced"
              /\ \A p \in Procs : proc[p].op # "place"
              /\ res.st = IF order[o].st = "rejected" THEN "terminated" ELSE "creating"
            BY <3>1 DEF CreateInv
        <3>3. \A x \in Orders \ {o} : order'[x].st = "unplaced"
            BY <1>4, <3>2
        <3>4. \A p \in Procs : proc'[p].op # "place"
            <4>1. \A type \in OrderTypes \ {"restore"} : res.st \notin PlacedOn[type]
                BY <3>2 DEF PlacedOn
            <4> QED
                BY <1>1, <1>2, <3>2, <4>1
        <3>5. res'.st = IF order'[o].st = "rejected" THEN "terminated" ELSE "creating"
            <4>1. CASE order[o].st # "rejected" /\ order'[o].st = "rejected"
                <5>1. res' = AfterRefusal("create", res)
                    BY <3>1, <4>1, RejectedHow
                <5> QED
                    BY <4>1, <5>1 DEF AfterRefusal, SetResource, TypeOK, ResourceRows
            <4>2. CASE order[o].st = "rejected" \/ order'[o].st # "rejected"
                <5>1. \A x \in Orders : order[x].st \notin Begun
                    BY <3>1, <3>2 DEF Begun, Undecided
                <5>2. ~\E x \in Orders : order[x].st = "pending_provider" /\ To(x, "rejected")
                    <6>1. order[o].st = "pending_provider" => ~To(o, "rejected")
                        BY <4>2, RowWrites DEF To, TypeOK
                    <6> QED
                        BY <3>2, <6>1
                <5>3. res'.st = res.st
                    BY <3>2, <5>1, <5>2, StillResource
                <5>4. order[o].st = "rejected" <=> order'[o].st = "rejected"
                    BY <1>1, <4>2, BegunStays
                <5> QED
                    BY <3>2, <5>3, <5>4
            <4> QED
                BY <4>1, <4>2
        <3>6. ~stuck'
            BY <3>2, ListsResource
        <3> QED
            BY <3>3, <3>4, <3>5, <3>6
    <2> QED
        BY <2>1, <2>2
<1>10. stuck' => res'.st # "none"
    BY NeverNone, ListsResource DEF CreateInv
<1>11. ASSUME NEW p \in Procs, proc'[p].op \in Carriers
       PROVE  proc'[p].res.st # "none"
    <2>1. CASE proc'[p] = proc[p]
        BY <1>11, <2>1 DEF CreateInv
    <2>2. CASE Starts(p) /\ proc'[p] \notin {proc[p], Idle}
        <3>1. CASE proc'[p].op = "process_order"
            <4>1. /\ proc'[p].o \in Orders /\ Exists(proc'[p].o)
                  /\ proc'[p].res = res'
                BY <2>2, <3>1, StartsFresh
            <4>2. res.st # "none"
                BY <1>3, <4>1 DEF Exists
            <4> QED
                BY <4>1, <4>2, NeverNone
        <3>2. CASE proc'[p].op = "limit_update_succeeded"
            BY <2>2, <3>2, StartsFresh DEF CreateInv, Carriers
        <3> QED
            BY <1>11, <3>1, <3>2 DEF Carriers
    <2>3. CASE proc'[p] = Idle
        BY <1>11, <2>3 DEF Idle, Carriers
    <2> QED
        BY <2>1, <2>2, <2>3, Turns
<1> QED
    BY <1>6, <1>7, <1>8, <1>9, <1>10, <1>11 DEF CreateInv

\* The resource of a CREATE order that is refused is terminated and stays so, in
\* every interleaving of placing, reviews, sweeps, tasks and workers that die
\* (update_resource_state_on_order_rejection_error_or_cancellation).
THEOREM RefusedCreatesAreDown ==
    ASSUME Enclosed
    PROVE  Spec => []RefusedCreateIsDown
<1>1. Endpoints \cap Rethinks = {}
    BY DEF Enclosed
<1>2. Init => CreateInv
    BY DEF Init, CreateInv, Idle, Undecided, Carriers
<1>3. TypeOK /\ TypeOK' /\ SnapshotInv /\ BegunInv /\ CreateInv /\ [Next]_vars => CreateInv'
    BY CreateStep
<1>4. CreateInv => RefusedCreateIsDown
    BY DEF CreateInv, RefusedCreateIsDown, Undecided
<1>5. Spec => []BegunInv
    BY <1>1, BegunKept
<1> QED
    BY <1>2, <1>3, <1>4, <1>5, TypeCorrect, SnapshotsKept, PTL DEF Spec

--------------------------------------------------------------------------------
(* No order is carried out twice at once.                                     *)

\* No edit or confirmation puts back or starts again an order that has started,
\* and where failed orders are retried, nobody reports a failure.  A failed switch
\* of plan or options fails whichever update is in execution: where such an order
\* can be retried, orders are not taken out of execution or listed by a sweep.
DeliveredInTurn ==
    /\ Endpoints \cap {"partial_update", "set_backend_id", "confirm_pending_terminate_order"} = {}
    /\ Retried => "set_state_erred" \notin Endpoints
    /\ Retried /\ Switching =>
          /\ Endpoints \cap (Sweeps \cup {"cancel", "reject_by_consumer", "set_state_executing",
                                          "set_state_done", "destroy", "unlink"}) = {}
          /\ "restore" \notin Types

\* Who has listed an order that waits, and who has been told to carry it out.
Holding(o) == Listing(o) # {} \/ released[o] # {}
Underway(o) == queue[o] > 0 \/ Carrying(o) # {}

\* The states an order may be in while it is carried out, and while it is listed.
InHand == IF Retried /\ Switching THEN {"executing"} ELSE OrderStates \ Startable
Held == Deferred \cup (IF Retried /\ Switching THEN {} ELSE OrderStates \ Startable)

\* An order that no two sweeps have listed at once: its message and the worker
\* that carries it out exclude each other and a sweep that has listed it, and each
\* of them holds it where nobody else can start it.
Turn(o) ==
    /\ ~ListedTwice(o)
    /\ queue[o] <= 1
    /\ \A p, q \in Carrying(o) : q = p
    /\ Carrying(o) # {} => queue[o] = 0
    /\ Underway(o) => order[o].st \in InHand /\ ~Holding(o)
    /\ Holding(o) => order[o].st \in Held
TurnInv ==
    /\ \A o \in Orders : \A row, other \in released[o] : other = row
    /\ Retried /\ Switching => overlapped = {}
    /\ \A o \in Orders \ overlapped : Turn(o)

\* Where a failed switch could be retried, a task ends its own order and no other:
\* the order it is for is in execution, so set_order_state finds that one or none.
LEMMA OwnTask ==
    ASSUME TypeOK, SnapshotInv, TurnInv, DeliveredInTurn, Retried, Switching,
           NEW p \in Procs, TaskEnds(p), NEW o \in Orders, order'[o] # order[o]
    PROVE  p \in Carrying(o) /\ proc'[p] = Idle
<1> DEFINE h == proc[p]
<1>1. h.op \in Carriers /\ Finish(p)
    BY DEF TaskEnds, TaskLeavesToAgent, TaskOpensTicket, TaskDelivers, TaskUpdatesLimits,
           TaskFails, Carriers
<1>2. /\ h.o \in Orders /\ h.row \in Rows
      /\ order[h.o].st = "executing" /\ order[h.o].type = h.row.type /\ h.row.type # "restore"
    <2>1. h.o \in Orders /\ h.row \in Rows
        BY <1>1, SnapshotType DEF Carriers
    <2>2. order[h.o].type = h.row.type /\ h.row.type \in Types
        BY <1>1, <2>1 DEF SnapshotInv, Idle, Carriers
    <2>3. p \in Carrying(h.o)
        BY <1>1 DEF Carrying
    <2>4. Turn(h.o)
        BY <2>1 DEF TurnInv
    <2>5. order[h.o].st \in InHand
        BY <2>3, <2>4 DEF Turn, Underway
    <2> QED
        BY <2>1, <2>2, <2>5 DEF InHand, DeliveredInTurn
<1>3. proc'[p] = Idle
    BY <1>1 DEF Finish, TypeOK
<1>4. \A st : order' = SetState(h.o, st) \/ order' = SaveRow(h.o, h.row, st) => o = h.o
    <2>1. h.o \in Orders /\ h.row \in Rows
        BY <1>2
    <2> HIDE DEF h
    <2> QED
        BY <2>1, WritesOne
<1>5. \A types, st : order' = SyncOrders(types, st) /\ h.row.type \in types => o = h.o
    <2>1. ASSUME NEW types, NEW st, order' = SyncOrders(types, st), h.row.type \in types
          PROVE  o = h.o
        <3>1. Executing(types) = {o}
            BY <2>1, SyncMoves
        <3>2. h.o \in Executing(types)
            BY <1>2, <2>1 DEF Executing
        <3> QED
            BY <3>1, <3>2
    <2> QED
        BY <2>1
<1>6. o = h.o
    <2>1. ~TaskLeavesToAgent(p) /\ ~TaskOpensTicket(p) /\ ~TaskFails(p)
        BY DEF TaskLeavesToAgent, TaskOpensTicket, TaskFails, Retried
    <2>2. CASE TaskCreates(h)
        <3>1. order' = SyncOrders({"create"}, "done") \/ order' = SetState(h.o, "erred")
            BY <2>2 DEF TaskCreates, FailOrder
        <3>2. h.row.type \in {"create"}
            BY <1>2, <2>2 DEF TaskCreates
        <3> QED
            BY <1>4, <1>5, <3>1, <3>2
    <2>3. CASE TaskUpdatesLimits(p)
        <3>1. order' = SaveRow(h.o, h.row, "done") \/ order' = SetState(h.o, "erred")
            BY <2>3 DEF TaskUpdatesLimits, FailOrder
        <3> QED
            BY <1>4, <3>1
    <2>4. CASE TaskUpdates(h)
        <3>1. order' = SyncOrders(UpdateTypes, "done") \/ order' = SyncOrders(UpdateTypes, "erred")
            BY <2>4 DEF TaskUpdates
        <3>2. h.row.type \in UpdateTypes
            BY <2>4 DEF TaskUpdates
        <3> QED
            BY <1>5, <3>1, <3>2
    <2>5. CASE TaskTerminates(h)
        <3>1. order' = SaveRow(h.o, h.row, "done") \/ order' = SetState(h.o, "erred")
            BY <2>5 DEF TaskTerminates, FailOrder
        <3> QED
            BY <1>4, <3>1
    <2> QED
        BY <2>1, <2>2, <2>3, <2>4, <2>5 DEF TaskEnds, TaskDelivers
<1> QED
    BY <1>1, <1>3, <1>6 DEF Carrying

\* An order in hand leaves that set only when the worker that carries it out ends.
LEMMA LeavesHand ==
    ASSUME TypeOK, TypeOK', SnapshotInv, TurnInv, DeliveredInTurn, [Next]_vars,
           NEW o \in Orders, ~Holding(o), order[o].st \in InHand, order'[o].st \notin InHand
    PROVE  \E p \in Carrying(o) : proc'[p] = Idle
<1>1. order'[o] # order[o] /\ order[o] \in Rows /\ order'[o].st \in OrderStates
    BY DEF TypeOK, Rows
<1>2. /\ order[o].st \notin PendingStates \cup {"unplaced"}
      /\ order'[o].st # "executing"
    BY DEF InHand, Startable, Open, Deferred
<1>3. \A st \in OrderStates : To(o, st) => st = order'[o].st
    BY <1>1, RowWrites DEF To
<1>4. ~Placed(o) /\ ~Dated(o)
    BY <1>2 DEF Placed, SnapshotInv, Dated, Holding
<1>5. ASSUME NEW p \in Procs, proc[p].op \in Sweeps, proc[p].o = o
      PROVE  FALSE
    BY <1>5 DEF Holding, Listing
<1>6. CASE Retried /\ Switching
    <2>1. order[o].st = "executing" /\ OfferingType \in {"basic", "agent"}
        BY <1>6 DEF InHand, Retried
    <2>2. ~Reviewed(o)
        BY <1>6, <2>1 DEF Reviewed, DeliveredInTurn
    <2>3. ~Committed(o)
        BY <1>6, <2>1 DEF Committed, Wrote, SnapshotInv, DeliveredInTurn, OfferedTo, StaleOps,
                          Sweeps
    <2>4. \A p \in Procs : ~Place(p) /\ ~Commit(p)
        BY <1>1, <1>4, <1>6, <2>3, PlaceMoves, CommitMoves DEF DeliveredInTurn
    <2>5. ~Outside /\ ~Aside /\ \A x \in Orders : ~Review(x)
        BY <1>1, <1>4, <2>2, OutsideMoves, AsideMoves, ReviewMoves
    <2>6. \A x \in Orders : ~IssueStatusChange(x) /\ ~LookAtProject(x)
        BY <1>1, <2>1 DEF IssueStatusChange, SnapshotInv, LookAtProject
    <2>7. ~UNCHANGED vars
        BY <1>1 DEF vars
    <2>8. PICK p \in Procs : TaskEnds(p)
        BY <1>1, <2>4, <2>5, <2>6, <2>7
        DEF Next, Step, EarlyTicket, Begin, Rollback, TaskStart, TaskSavesLimits,
            WorkerCrashes, EarlyTicketGoesOn, EarlyTicketOpened, EarlyTicketSaved
    <2> QED
        BY <1>1, <1>6, <2>8, OwnTask
<1>7. CASE ~(Retried /\ Switching)
    <2>1. /\ order'[o].st \in PendingStates \cup {"unplaced", "erred"}
          /\ order'[o].st = "erred" => Retried /\ ~Switching
        BY <1>1, <1>7 DEF InHand, Startable, Open, Deferred
    <2>2. Moved(o)
        BY <1>1, Moves
    <2>3. \A st \in OrderStates \ (PendingStates \cup {"unplaced", "erred"}) :
              /\ ~To(o, st)
              /\ \A row \in Rows : order'[o] # WithState(row, st)
        BY <1>3, <2>1, RowWrites
    <2>4. ~Reviewed(o)
        BY <1>2, <2>3 DEF Reviewed
    <2>5. ~Synced(o)
        <3>1. To(o, "erred") => order'[o].st = "erred"
            BY <1>3
        <3>2. ~To(o, "done") /\ ~To(o, "canceled")
            BY <2>3
        <3> QED
            BY <2>1, <3>1, <3>2 DEF Synced, Retried
    <2>6. ~Committed(o)
        <3>1. SUFFICES ASSUME NEW p \in Procs, proc[p].op \in StaleOps, proc[p].o = o,
                              Wrote(proc[p], o)
                       PROVE  FALSE
            BY DEF Committed
        <3>2. /\ proc[p].row \in Rows /\ proc[p].op \in Endpoints /\ proc[p].op \notin Sweeps
              /\ proc[p].op \notin {"partial_update", "set_backend_id",
                                    "confirm_pending_terminate_order"}
            BY <1>5, <3>1, SnapshotType DEF SnapshotInv, StaleOps, DeliveredInTurn
        <3>3. ASSUME proc[p].op \in {"set_state_erred", "mark_resources_as_erred_after_timeout"}
              PROVE  FALSE
            <4>1. order'[o].st = "erred"
                BY <1>3, <3>1, <3>2, <3>3, RowWrites DEF Wrote, Sweeps
            <4> QED
                BY <2>1, <3>1, <3>2, <3>3, <4>1
                DEF SnapshotInv, DeliveredInTurn, Retried, OfferedTo, StaleOps
        <3> QED
            BY <2>3, <3>1, <3>2, <3>3 DEF Wrote
    <2> QED
        BY <1>4, <2>2, <2>4, <2>5, <2>6 DEF Moved, Worked, Carrying
<1> QED
    BY <1>6, <1>7

\* An order that is listed leaves its states only with the sweep that has listed it.
LEMMA LeavesList ==
    ASSUME TypeOK, TypeOK', SnapshotInv, DeliveredInTurn, [Next]_vars,
           NEW o \in Orders, Carrying(o) = {}, order[o].st \in Held, order'[o].st \notin Held
    PROVE  \/ \E p \in Listing(o) : proc'[p] = Idle
           \/ \E row \in released[o] : released'[o] = released[o] \ {row}
<1> DEFINE Switched == Retried /\ Switching
<1>1. order'[o] # order[o] /\ order[o] \in Rows /\ order'[o].st \in OrderStates
    BY DEF TypeOK, Rows
<1>2. /\ \A st \in OrderStates : To(o, st) => st \notin Held
      /\ \A row \in Rows, st \in OrderStates : order'[o] = WithState(row, st) => st \notin Held
    BY <1>1, RowWrites DEF To
<1>3. /\ ~Switched => /\ {"executing", "done", "canceled", "rejected", "deleted"} \subseteq Held
                      /\ ~Retried => "erred" \in Held
      /\ Switched => order[o].st \in Deferred
      /\ order[o].st \notin {"unplaced", "pending_consumer", "pending_provider"}
      /\ order[o].st = "erred" => ~Switched
    BY DEF Held, Startable, Open, Deferred
<1>4. Moved(o)
    BY <1>1, Moves
<1>5. ~Placed(o) /\ ~Worked(o)
    BY <1>3 DEF Placed, SnapshotInv, Worked, Carrying
<1>6. ~Reviewed(o)
    BY <1>2, <1>3 DEF Reviewed, DeliveredInTurn, Deferred
<1>7. ~Synced(o)
    BY <1>2, <1>3 DEF Synced, Deferred, Retried
<1>8. CASE Dated(o)
    BY <1>8 DEF Dated
<1>9. CASE Committed(o)
    <2>1. PICK p \in Procs : /\ proc[p].op \in StaleOps /\ proc[p].o = o /\ proc'[p] = Idle
                             /\ Wrote(proc[p], o)
        BY <1>9 DEF Committed
    <2>2. /\ proc[p].row \in Rows /\ proc[p].op \in Endpoints
          /\ proc[p].op \notin {"partial_update", "set_backend_id",
                                "confirm_pending_terminate_order"}
          /\ OfferingType \in OfferedTo[proc[p].op]
        BY <2>1, SnapshotType DEF SnapshotInv, StaleOps, DeliveredInTurn
    <2>3. Retried => /\ OfferingType \in {"basic", "agent"}
                     /\ proc[p].op # "set_state_erred"
                     /\ proc[p].op # "mark_resources_as_erred_after_timeout"
        BY <2>1, <2>2 DEF Retried, DeliveredInTurn, OfferedTo, StaleOps
    <2>4. CASE proc[p].op \in Sweeps
        BY <2>1, <2>4 DEF Listing
    <2>5. CASE proc[p].op \notin Sweeps /\ Switched
        BY <2>1, <2>2, <2>3, <2>5 DEF Wrote, DeliveredInTurn
    <2>6. CASE proc[p].op \notin Sweeps /\ ~Switched
        <3>1. \/ To(o, "executing") \/ To(o, "deleted")
              \/ order'[o] = WithState(proc[p].row, "canceled")
              \/ order'[o] = WithState(proc[p].row, "rejected")
              \/ ~Retried /\ (To(o, "erred") \/ order'[o] = WithState(proc[p].row, "erred"))
            BY <2>1, <2>2, <2>3, <2>6 DEF Wrote
        <3> QED
            BY <1>2, <1>3, <2>2, <2>6, <3>1
    <2> QED
        BY <2>4, <2>5, <2>6
<1> QED
    BY <1>4, <1>5, <1>6, <1>7, <1>8, <1>9 DEF Moved

\* Whoever has listed an order had done so before, or does so in this step and
\* finds it waiting; and whoever carries one out did so before, or takes its message.
LEMMA Holders ==
    ASSUME TypeOK, SnapshotInv, [Next]_vars, NEW o \in Orders, Holding(o)'
    PROVE  \/ \E p \in Listing(o) : proc'[p] = proc[p]
           \/ released'[o] \cap released[o] # {}
           \/ UNCHANGED <<order, queue>> /\ order[o].st \in Deferred
<1>1. ASSUME NEW p \in Procs, proc'[p].op \in Sweeps, proc'[p].o = o, proc'[p] # proc[p]
      PROVE  UNCHANGED <<order, queue>> /\ order[o].st \in Deferred
    <2>1. Starts(p) /\ proc'[p] \notin {proc[p], Idle} /\ proc'[p].op \in StaleOps
        BY <1>1, Turns DEF Idle, Sweeps, StaleOps
    <2>2. /\ UNCHANGED <<order, queue>> /\ proc'[p].row = order[o]
          /\ proc'[p].row.st \in AcceptedStates[proc'[p].op]
        BY <1>1, <2>1, StartsFresh
    <2> QED
        BY <1>1, <2>2 DEF Sweeps, AcceptedStates, Deferred
<1>2. ASSUME NEW row \in released'[o], row \notin released[o]
      PROVE  UNCHANGED <<order, queue>> /\ order[o].st \in Deferred
    BY <1>2, Lists DEF Deferred
<1> QED
    BY <1>1, <1>2 DEF Holding, Listing

LEMMA Takes ==
    ASSUME TypeOK, SnapshotInv, [Next]_vars, NEW o \in Orders, NEW p \in Carrying(o)'
    PROVE  \/ p \in Carrying(o) /\ proc'[p] # Idle
           \/ /\ proc[p] = Idle /\ queue[o] > 0 /\ queue'[o] = queue[o] - 1
              /\ UNCHANGED order /\ \A q \in Procs \ {p} : proc'[q] = proc[q]
<1>1. p \in Procs /\ proc'[p].op \in Carriers /\ proc'[p].o = o /\ proc'[p] # Idle
    BY DEF Carrying, Carriers, Idle
<1>2. CASE proc'[p] = proc[p]
    BY <1>1, <1>2 DEF Carrying
<1>3. CASE proc'[p] # proc[p]
    <2>1. Starts(p) /\ proc'[p] \notin {proc[p], Idle}
        BY <1>1, <1>3, Turns
    <2>2. CASE proc'[p].op = "process_order"
        BY <1>1, <2>1, <2>2, StartsFresh, Turns
    <2>3. CASE proc'[p].op = "limit_update_succeeded"
        BY <1>1, <2>1, <2>3, StartsFresh DEF Carrying, Carriers
    <2> QED
        BY <1>1, <2>2, <2>3 DEF Carriers
<1> QED
    BY <1>2, <1>3

\* No message is sent for an order in hand that nobody has listed.
LEMMA NoSecondMessage ==
    ASSUME TypeOK, SnapshotInv, DeliveredInTurn, [Next]_vars,
           NEW o \in Orders, ~Holding(o), order[o].st \in InHand
    PROVE  queue'[o] <= queue[o]
<1>1. order[o].st \notin Open
    BY DEF InHand, Startable, Open, Deferred
<1>2. ASSUME NEW p \in Procs, proc[p].op \in Starters, proc[p].o = o
      PROVE  FALSE
    <2>1. proc[p].op \in Sweeps
        BY <1>2 DEF Starters, SnapshotInv, DeliveredInTurn, StaleOps
    <2> QED
        BY <1>2, <2>1 DEF Holding, Listing
<1> QED
    BY <1>1, <1>2, Messages DEF Holding

\* What is listed twice is remembered.
LEMMA Remembered ==
    ASSUME TypeOK, TurnInv, [Next]_vars, NEW o \in Orders \ overlapped'
    PROVE  o \notin overlapped /\ Turn(o) /\ ~ListedTwice(o)'
<1>1. CASE AfterSave
    BY <1>1 DEF AfterSave, TurnInv
<1>2. CASE UNCHANGED <<proc, released, overlapped>>
    BY <1>2 DEF TurnInv, Turn, ListedTwice, Listing
<1>3. ASSUME NEW p \in Procs, NEW x \in Orders, EarlyTicket(p, x)
      PROVE  o \notin overlapped /\ Turn(o) /\ ~ListedTwice(o)'
    <2>1. Turn(o) /\ o \notin overlapped /\ UNCHANGED released
        BY <1>3 DEF EarlyTicket, TurnInv
    <2>2. \A q \in Procs : proc'[q] = proc[q] \/ proc'[q].op = "create_issue_for_pending_order"
        BY <1>3 DEF EarlyTicket, TypeOK
    <2>3. Listing(o)' \subseteq Listing(o)
        BY <2>2 DEF Listing, Sweeps
    <2> QED
        BY <2>1, <2>3 DEF Turn, ListedTwice
<1> QED
    BY <1>1, <1>2, <1>3 DEF Next, LookAtProject, vars

\* An order under way stays in hand, with one message or one worker, until that
\* worker ends.
LEMMA UnderwayStep ==
    ASSUME TypeOK, TypeOK', SnapshotInv, TurnInv, DeliveredInTurn, [Next]_vars,
           NEW o \in Orders, Turn(o), Underway(o)
    PROVE  /\ queue'[o] <= 1
           /\ \A p, q \in Carrying(o)' : q = p
           /\ Carrying(o)' # {} => queue'[o] = 0
           /\ Underway(o)' => order'[o].st \in InHand
           /\ ~Holding(o)'
<1>1. /\ queue[o] \in Nat /\ queue'[o] \in Nat /\ queue[o] <= 1
      /\ order[o].st \in InHand /\ ~Holding(o)
    BY BoundAssumption DEF TypeOK, Turn
<1>2. queue'[o] <= queue[o]
    BY <1>1, NoSecondMessage
<1>3. ASSUME NEW p \in Carrying(o)', NEW q \in Carrying(o)'
      PROVE  q = p /\ queue'[o] = 0
    <2>1. p \in Procs /\ q \in Procs
        BY DEF Carrying
    <2>2. CASE p \in Carrying(o) /\ proc'[p] # Idle
        <3>1. queue[o] = 0
            BY <2>2 DEF Turn
        <3>2. q \in Carrying(o)
            BY <3>1, Takes
        <3> QED
            BY <1>1, <1>2, <2>2, <3>1, <3>2 DEF Turn
    <2>3. CASE /\ proc[p] = Idle /\ queue[o] > 0 /\ queue'[o] = queue[o] - 1
               /\ \A x \in Procs \ {p} : proc'[x] = proc[x]
        <3>1. Carrying(o) = {}
            BY <1>1, <2>3 DEF Turn
        <3>2. \A x \in Procs \ {p} : x \notin Carrying(o)'
            BY <2>3, <3>1 DEF Carrying
        <3> QED
            BY <1>1, <2>1, <2>3, <3>2
    <2> QED
        BY <2>2, <2>3, Takes
<1>4. ASSUME Underway(o)', order'[o].st \notin InHand
      PROVE  FALSE
    <2>1. PICK p \in Carrying(o) : proc'[p] = Idle
        BY <1>1, <1>4, LeavesHand
    <2>2. queue[o] = 0 /\ queue'[o] = 0
        BY <1>1, <1>2, <2>1 DEF Turn
    <2>3. PICK q \in Procs : q \in Carrying(o)'
        BY <1>4, <2>2 DEF Underway, Carrying
    <2>4. q \in Carrying(o) /\ proc'[q] # Idle
        BY <2>2, <2>3, Takes
    <2> QED
        BY <2>1, <2>4 DEF Turn
<1>5. ~Holding(o)'
    BY <1>1, Holders DEF Holding, InHand, Startable, Deferred
<1> QED
    BY <1>1, <1>2, <1>3, <1>4, <1>5

\* An order that is not under way is given one message at most, by whoever has
\* found it open or by the only sweep that has listed it.
LEMMA RestingStep ==
    ASSUME TypeOK, TypeOK', SnapshotInv, TurnInv, DeliveredInTurn, [Next]_vars,
           NEW o \in Orders, Turn(o), ~Underway(o)
    PROVE  /\ queue'[o] <= 1 /\ Carrying(o)' = {}
           /\ Underway(o)' => order'[o].st \in InHand /\ ~Holding(o)'
           /\ Holding(o)' => order'[o].st \in Held
<1>1. queue[o] = 0 /\ queue'[o] \in Nat /\ Carrying(o) = {}
    BY BoundAssumption DEF TypeOK, Underway
<1>2. Carrying(o)' = {}
    <2>1. \A p \in Carrying(o)' : FALSE
        BY <1>1, Takes
    <2> QED
        BY <2>1
<1>3. CASE queue'[o] <= queue[o]
    <2>1. queue'[o] = 0 /\ ~Underway(o)'
        BY <1>1, <1>2, <1>3 DEF Underway
    <2>2. ASSUME Holding(o)', order'[o].st \notin Held
          PROVE  FALSE
        <3>1. order[o].st \in Held
            BY <2>2, Holders DEF Turn, Holding, Held
        <3>2. order'[o] # order[o]
            BY <2>2, <3>1
        <3>3. (\E p \in Listing(o) : proc'[p] = proc[p]) \/ released'[o] \cap released[o] # {}
            BY <2>2, <3>2, Holders
        <3>4. \/ \E p \in Listing(o) : proc'[p] = Idle
              \/ \E row \in released[o] : released'[o] = released[o] \ {row}
            BY <1>1, <2>2, <3>1, LeavesList
        <3>5. \A p \in Listing(o) : proc[p] # Idle
            BY DEF Listing, Idle, Sweeps
        <3> QED
            BY <3>3, <3>4, <3>5 DEF Turn, ListedTwice, TurnInv
    <2> QED
        BY <1>2, <2>1, <2>2
<1>4. CASE ~(queue'[o] <= queue[o])
    <2>1. /\ queue'[o] = 1 /\ order'[o].st = "executing"
          /\ \/ order[o].st \in Open
             \/ \E p \in Procs :
                    proc[p].op \in Starters /\ proc[p].o = o /\ Exists(o) /\ proc'[p] = Idle
             \/ \E row \in released[o] : Exists(o) /\ released'[o] = released[o] \ {row}
        BY <1>1, <1>4, Messages
    <2>2. order'[o].st \in InHand
        BY <2>1 DEF InHand, Startable, Open, Deferred
    <2>3. ASSUME Holding(o)'
          PROVE  FALSE
        <3>1. (\E p \in Listing(o) : proc'[p] = proc[p]) \/ released'[o] \cap released[o] # {}
            BY <1>4, <1>1, <2>1, <2>3, Holders
        <3>2. order[o].st \notin Open
            BY <3>1 DEF Turn, Holding, Held, Startable, Open, Deferred
        <3>3. ASSUME NEW p \in Procs, proc[p].op \in Starters, proc[p].o = o
              PROVE  p \in Listing(o)
            BY <3>3 DEF Starters, SnapshotInv, DeliveredInTurn, StaleOps, Listing
        <3>4. \/ \E p \in Listing(o) : proc'[p] = Idle
              \/ \E row \in released[o] : released'[o] = released[o] \ {row}
            BY <2>1, <3>2, <3>3
        <3>5. \A p \in Listing(o) : proc[p] # Idle
            BY DEF Listing, Idle, Sweeps
        <3> QED
            BY <3>1, <3>4, <3>5 DEF Turn, ListedTwice, TurnInv
    <2> QED
        BY <1>2, <2>1, <2>2, <2>3
<1> QED
    BY <1>3, <1>4

LEMMA TurnStep ==
    ASSUME TypeOK, TypeOK', SnapshotInv, SnapshotInv', TurnInv, DeliveredInTurn, [Next]_vars
    PROVE  TurnInv'
<1>1. ASSUME NEW o \in Orders, NEW row \in released'[o], NEW other \in released'[o]
      PROVE  other = row
    BY <1>1, Lists DEF TurnInv
<1>2. ASSUME NEW o \in Orders \ overlapped'
      PROVE  Turn(o)'
    <2>1. Turn(o) /\ ~ListedTwice(o)'
        BY Remembered
    <2>2. CASE Underway(o)
        BY <2>1, <2>2, UnderwayStep DEF Turn
    <2>3. CASE ~Underway(o)
        BY <2>1, <2>3, RestingStep DEF Turn
    <2> QED
        BY <2>2, <2>3
<1>3. ASSUME Retried, Switching
      PROVE  overlapped' = {}
    <2>1. \A o \in Orders : ~ListedTwice(o)'
        BY <1>3 DEF SnapshotInv, DeliveredInTurn, ListedTwice, Listing, Sweeps, StaleOps
    <2>2. overlapped = {}
        BY <1>3 DEF TurnInv
    <2> QED
        BY <2>1, <2>2 DEF Next, AfterSave, LookAtProject, EarlyTicket, vars
<1> QED
    BY <1>1, <1>2, <1>3 DEF TurnInv

\* At any time at most one message or worker carries out an order that no two
\* sweeps have listed at once, with any number of workers and sweeps, whatever else
\* places, approves, retries, cancels or reports on orders, and whichever workers
\* die: EXECUTING is what tells that the message has been sent.
THEOREM DeliveredOnce ==
    ASSUME DeliveredInTurn
    PROVE  Spec => []OneDelivery
<1>1. Init => TurnInv
    BY DEF Init, TurnInv, Turn, Idle, Sweeps, Carriers, Carrying, Underway, Holding, Listing,
           ListedTwice
<1>2. TypeOK /\ TypeOK' /\ SnapshotInv /\ SnapshotInv' /\ TurnInv /\ [Next]_vars => TurnInv'
    BY TurnStep
<1>3. TypeOK /\ TurnInv => OneDelivery
    <2> SUFFICES ASSUME TypeOK, TurnInv, NEW o \in Orders \ overlapped
                 PROVE  queue[o] + Cardinality(Carrying(o)) <= 1
        BY DEF OneDelivery
    <2>1. queue[o] \in Nat /\ queue[o] <= 1 /\ Turn(o)
        BY BoundAssumption DEF TypeOK, TurnInv, Turn
    <2>2. CASE Carrying(o) = {}
        <3>1. Cardinality(Carrying(o)) = 0
            BY <2>2, FS_EmptySet
        <3> QED
            BY <2>1, <3>1
    <2>3. ASSUME NEW p \in Carrying(o)
          PROVE  queue[o] + Cardinality(Carrying(o)) <= 1
        <3>1. Carrying(o) = {p} /\ queue[o] = 0
            BY <2>1, <2>3 DEF Turn
        <3>2. Cardinality(Carrying(o)) = 1
            BY <3>1, FS_Singleton
        <3> QED
            BY <3>1, <3>2
    <2> QED
        BY <2>2, <2>3
<1> QED
    BY <1>1, <1>2, <1>3, TypeCorrect, SnapshotsKept, PTL DEF Spec
================================================================================

------------------------- MODULE OrderLifecycle_proofs -------------------------
(****************************************************************************)
(* Proofs about OrderLifecycle, for every kind of offering, number of       *)
(* orders and workers, and set of endpoints: its type correctness, that no  *)
(* work starts without the reviews it needs, and that it implements         *)
(* ApprovalGate.                                                            *)
(****************************************************************************)
EXTENDS OrderLifecycle, TLAPS

USE DEF PendingStates, TerminalStates, LiveStates, OrderStates, ResourceStates,
        OrderTypes, UpdateTypes

--------------------------------------------------------------------------------
(* Types of what the handlers compute.                                        *)

\* Every place an order is sent to by a review or by placing it is a state.
LEMMA TargetStates ==
    ASSUME NEW row, NEW skips, NEW later
    PROVE  /\ AfterProviderApproval(row) \in OrderStates
           /\ AfterConsumerApproval(row, later) \in OrderStates
           /\ AfterPlacement(skips, later) \in OrderStates
           /\ AfterProjectStart(row) \in OrderStates
    BY DEF AfterProviderApproval, AfterConsumerApproval, AfterPlacement, AfterProjectStart

\* Changing the state of an order, or writing a snapshot over it, stores a row.
LEMMA OrderWrites ==
    ASSUME order \in [Orders -> Rows], NEW o \in Orders, NEW st \in OrderStates,
           NEW row \in Rows
    PROVE  SetState(o, st) \in [Orders -> Rows] /\ SaveRow(o, row, st) \in [Orders -> Rows]
    BY DEF SetState, SaveRow, Rows

\* set_order_state stores rows.
LEMMA SyncWrites ==
    ASSUME order \in [Orders -> Rows], NEW types, NEW st \in OrderStates
    PROVE  SyncOrders(types, st) \in [Orders -> Rows]
    BY DEF SyncOrders, Rows

\* What the signal handlers make of the resource is a resource row.
LEMMA ResourceWrites ==
    ASSUME res \in ResourceRows, NEW type, NEW copy, NEW st \in ResourceStates
    PROVE  /\ SetResource(st) \in ResourceRows
           /\ AfterRefusal(type, copy) \in ResourceRows
           /\ AfterError(copy) \in ResourceRows
           /\ AtPlacement(type, copy) \in ResourceRows
           /\ AtTaskStart(type) \in ResourceRows
    BY DEF SetResource, AfterRefusal, AfterError, AtPlacement, AtTaskStart, ResourceRows

\* Sending a message keeps the queue within its bound.
LEMMA Enqueues ==
    ASSUME queue \in [Orders -> 0 .. MaxTasks], NEW o \in Orders, NEW st
    PROVE  /\ Enqueue(o) => queue' \in [Orders -> 0 .. MaxTasks]
           /\ EnqueueIfExecuting(o, st) => queue' \in [Orders -> 0 .. MaxTasks]
    BY BoundAssumption DEF Enqueue, EnqueueIfExecuting

\* A worker that is not idle holds a well-formed snapshot.
LEMMA SnapshotType ==
    ASSUME TypeOK, NEW p \in Procs, proc[p].op # "idle"
    PROVE  /\ proc[p].o \in Orders /\ proc[p].row \in Rows /\ proc[p].res \in ResourceRows
           /\ proc[p].later \in BOOLEAN
    BY DEF TypeOK, Handlers, Idle

\* Recording a review, and putting a worker back to rest.
LEMMA SmallWrites ==
    ASSUME TypeOK, NEW o \in Orders, NEW p \in Procs, NEW who \in Gate!Reviewers
    PROVE  /\ Grant(o, who) => granted' \in [Orders -> SUBSET Gate!Reviewers]
           /\ Finish(p) => proc' \in [Procs -> Handlers \cup {Idle}]
    BY DEF TypeOK, Grant, Finish

--------------------------------------------------------------------------------
(* Type correctness.                                                          *)

\* TypeOK without what AfterSave takes care of, and what only Aside changes.
CoreTypes ==
    /\ order \in [Orders -> Rows]
    /\ res \in ResourceRows
    /\ proc \in [Procs -> Handlers \cup {Idle}]
    /\ queue \in [Orders -> 0 .. MaxTasks]
    /\ tickets \subseteq Orders
    /\ calendar \in [project : ProjectDates, order : BOOLEAN]
    /\ granted \in [Orders -> SUBSET Gate!Reviewers]

\* Before any order is placed every row, snapshot and queue is well formed.
LEMMA TypeInit == Init => TypeOK
<1> SUFFICES ASSUME Init PROVE TypeOK
    OBVIOUS
<1>1. order \in [Orders -> Rows]
    <2>1. [type |-> "create", st |-> "unplaced", delayed |-> FALSE] \in Rows
        BY DEF Rows
    <2> QED
        BY <2>1 DEF Init
<1>2. res \in ResourceRows
    <2>1. PICK st \in {"none", "ok", "terminated"} :
              res = [st |-> st, backend |-> st # "none" /\ OfferingType # "basic"]
        BY DEF Init
    <2>2. (st # "none" /\ OfferingType # "basic") \in BOOLEAN
        OBVIOUS
    <2> QED
        BY <2>1, <2>2 DEF ResourceRows
<1>3. queue \in [Orders -> 0 .. MaxTasks]
    <2>1. 0 \in 0 .. MaxTasks
        BY BoundAssumption
    <2> QED
        BY <2>1 DEF Init
<1>4. proc \in [Procs -> Handlers \cup {Idle}] /\ granted \in [Orders -> SUBSET Gate!Reviewers]
    BY DEF Init
<1>5. seen \in [Orders -> SUBSET BOOLEAN] /\ released \in [Orders -> SUBSET Rows]
    BY DEF Init
<1> QED
    BY <1>1, <1>2, <1>3, <1>4, <1>5 DEF Init, TypeOK

\* Placing an order.
LEMMA TypePlace ==
    ASSUME TypeOK, NEW p \in Procs, Place(p)
    PROVE  CoreTypes'
<1>1. ASSUME NEW o \in Orders, NEW type \in OrderTypes, NEW delayed \in BOOLEAN,
             BeginPlace(p, o, type, delayed)
      PROVE  CoreTypes'
    <2>1. [op |-> "place", o |-> o, res |-> res, later |-> ProjectStartsLater,
           row |-> [type |-> type, st |-> "unplaced", delayed |-> delayed]] \in Handlers
        BY <1>1 DEF TypeOK, Handlers, Ops, Rows, ProjectStartsLater
    <2> QED
        BY <1>1, <2>1 DEF BeginPlace, TypeOK, CoreTypes
<1>2. ASSUME NEW skips \in BOOLEAN, CommitPlace(p, skips)
      PROVE  CoreTypes'
    <2>1. proc[p].o \in Orders /\ proc[p].row \in Rows
        BY <1>2, SnapshotType DEF CommitPlace
    <2>2. order' \in [Orders -> Rows]
        BY <1>2, <2>1, TargetStates, OrderWrites DEF CommitPlace, TypeOK
    <2>3. res' \in ResourceRows
        BY <1>2, ResourceWrites DEF CommitPlace, TypeOK
    <2>4. queue' \in [Orders -> 0 .. MaxTasks]
        BY <1>2, <2>1, Enqueues DEF CommitPlace, TypeOK
    <2>5. granted' \in [Orders -> SUBSET Gate!Reviewers]
        BY <1>2, <2>1, SmallWrites DEF CommitPlace, TypeOK, Gate!Reviewers
    <2> QED
        BY <1>2, <2>1, <2>2, <2>3, <2>4, <2>5, SmallWrites
        DEF CommitPlace, TypeOK, CoreTypes, Gate!Reviewers
<1> QED
    BY <1>1, <1>2 DEF Place

\* The handlers that lock the order.
LEMMA TypeReview ==
    ASSUME TypeOK, NEW o \in Orders, Review(o)
    PROVE  CoreTypes'
<1>1. ASSUME NEW later \in BOOLEAN, ConsumerClears(o, later)
      PROVE  CoreTypes'
    <2>1. AfterConsumerApproval(order[o], later) \in OrderStates
        BY TargetStates
    <2> QED
        BY <1>1, <2>1, OrderWrites, Enqueues, SmallWrites
        DEF ConsumerClears, Grant, TypeOK, CoreTypes, Gate!Reviewers
<1>2. CASE ApproveByProvider(o)
    BY <1>2, TargetStates, OrderWrites, Enqueues, SmallWrites
    DEF ApproveByProvider, Grant, TypeOK, CoreTypes, Gate!Reviewers
<1>3. CASE RejectByProvider(o)
    BY <1>3, OrderWrites, ResourceWrites DEF RejectByProvider, TypeOK, CoreTypes
<1>4. CASE Retry(o)
    <2>1. RetryTarget(order[o].type) \in ResourceStates
        BY DEF RetryTarget
    <2> QED
        BY <1>4, <2>1, OrderWrites, ResourceWrites, Enqueues DEF Retry, TypeOK, CoreTypes
<1>5. CASE Unlink(o)
    BY <1>5, OrderWrites DEF Unlink, TypeOK, CoreTypes
<1> QED
    BY <1>1, <1>2, <1>3, <1>4, <1>5 DEF Review, ApproveByConsumer, ApplyAutoApproval

\* The resource's own endpoints and the calendar.
LEMMA TypeOutside ==
    ASSUME TypeOK, Outside
    PROVE  CoreTypes'
<1>1. CASE SetAsOk \/ SetAsErred
    BY <1>1, ResourceWrites DEF SetAsOk, SetAsErred, TypeOK, CoreTypes
<1>2. CASE SetResourceBackendId
    BY <1>2 DEF SetResourceBackendId, TypeOK, CoreTypes, ResourceRows
<1>3. CASE DateComes \/ ProjectDateComes \/ SetProjectStartDate
    BY <1>3
    DEF DateComes, ProjectDateComes, SetProjectStartDate, TypeOK, CoreTypes, ProjectDates
<1> QED
    BY <1>1, <1>2, <1>3 DEF Outside

\* The sweep over the resource, and the handler of the project's start date with
\* the copies of the orders it has listed.
LEMMA TypeAside ==
    ASSUME TypeOK, Aside
    PROVE  CoreTypes' /\ released' \in [Orders -> SUBSET Rows] /\ stuck' \in BOOLEAN
<1>1. CASE BeginReset \/ CommitReset
    BY <1>1, ResourceWrites DEF BeginReset, CommitReset, TypeOK, CoreTypes
<1>2. CASE UnsetProjectStartDate
    <2>1. \A o \in Orders :
              (IF order[o].st = "pending_project" THEN {order[o]} ELSE {}) \in SUBSET Rows
        BY DEF TypeOK
    <2>2. released' \in [Orders -> SUBSET Rows]
        BY <1>2, <2>1 DEF UnsetProjectStartDate
    <2> QED
        BY <1>2, <2>2 DEF UnsetProjectStartDate, TypeOK, CoreTypes, ProjectDates
<1>3. ASSUME NEW o \in Orders, AbandonRelease(o)
      PROVE  CoreTypes' /\ released' \in [Orders -> SUBSET Rows] /\ stuck' \in BOOLEAN
    BY <1>3 DEF AbandonRelease, TypeOK, CoreTypes
<1>4. ASSUME NEW o \in Orders, NEW row \in Rows, ReleaseOrder(o, row)
      PROVE  CoreTypes' /\ released' \in [Orders -> SUBSET Rows] /\ stuck' \in BOOLEAN
    <2>1. AfterProjectStart(row) \in OrderStates
        BY TargetStates
    <2>2. order' \in [Orders -> Rows]
        BY <1>4, <2>1, OrderWrites DEF ReleaseOrder, TypeOK
    <2>3. queue' \in [Orders -> 0 .. MaxTasks]
        BY <1>4, Enqueues DEF ReleaseOrder, TypeOK
    <2>4. released' \in [Orders -> SUBSET Rows]
        BY <1>4 DEF ReleaseOrder, TypeOK
    <2> QED
        BY <1>4, <2>2, <2>3, <2>4 DEF ReleaseOrder, TypeOK, CoreTypes
<1> QED
    BY <1>1, <1>2, <1>3, <1>4 DEF Aside

\* Completes and FailOrder, wherever they are taken.
LEMMA TypeCompletes ==
    ASSUME TypeOK, NEW type, NEW copy, Completes(type, copy)
    PROVE  order' \in [Orders -> Rows] /\ res' \in ResourceRows
<1>1. /\ SyncOrders(UpdateTypes, "done") \in [Orders -> Rows]
      /\ SyncOrders({type}, "done") \in [Orders -> Rows]
    BY SyncWrites DEF TypeOK
<1>2. /\ SetResource("ok") \in ResourceRows
      /\ SetResource("terminated") \in ResourceRows
    BY ResourceWrites DEF TypeOK
<1> QED
    BY <1>1, <1>2 DEF Completes, TypeOK

\* What utils.process_order writes when a processor raises is well formed.
LEMMA TypeFailOrder ==
    ASSUME TypeOK, NEW o \in Orders, FailOrder(o)
    PROVE  order' \in [Orders -> Rows] /\ res' \in ResourceRows
<1>1. SetState(o, "erred") \in [Orders -> Rows] /\ SetResource("erred") \in ResourceRows
    <2>1. \A row \in Rows : SetState(o, "erred") \in [Orders -> Rows]
        BY OrderWrites DEF TypeOK
    <2> QED
        BY <2>1, ResourceWrites DEF TypeOK
<1> QED
    BY <1>1 DEF FailOrder, TypeOK

\* A handler takes its snapshot; it may fail before it writes.
LEMMA TypeBegin ==
    ASSUME TypeOK, NEW p \in Procs, NEW op \in StaleOps, NEW o \in Orders, Begin(p, op, o)
    PROVE  CoreTypes'
<1>1. (IF op \in ReadsResource THEN res ELSE NoCopy) \in ResourceRows
    BY DEF TypeOK, NoCopy, ResourceRows
<1>2. [op |-> op, o |-> o, row |-> order[o],
       res |-> IF op \in ReadsResource THEN res ELSE NoCopy,
       later |-> op \in ReadsProject /\ ProjectStartsLater] \in Handlers
    BY <1>1 DEF TypeOK, Handlers, Ops, ProjectStartsLater
<1> QED
    BY <1>2 DEF Begin, TypeOK, CoreTypes

\* A request that fails, or a sweep that dies, leaves well-formed state.
LEMMA TypeRollback ==
    ASSUME TypeOK, NEW p \in Procs, Rollback(p)
    PROVE  CoreTypes'
    BY DEF Rollback, Finish, TypeOK, CoreTypes

\* The handlers that write from their snapshot.
LEMMA TypeCommit ==
    ASSUME TypeOK, NEW p \in Procs, Commit(p)
    PROVE  CoreTypes'
<1> DEFINE h == proc[p]
<1>1. h.o \in Orders /\ h.row \in Rows /\ h.res \in ResourceRows
    <2>1. h.op # "idle"
        BY DEF Commit, CommitCancel, CommitRejectByConsumer, CommitSetStateExecuting,
               CommitEdit, CommitDestroy, CommitSetStateDone, CommitSetStateErred,
               CommitConfirm, CommitSweep, CommitTimeout
    <2> QED
        BY <2>1, SnapshotType
<1>2. /\ \A st \in OrderStates : SetState(h.o, st) \in [Orders -> Rows]
      /\ \A st \in OrderStates : SaveRow(h.o, h.row, st) \in [Orders -> Rows]
    BY <1>1, OrderWrites DEF TypeOK
<1>3. Finish(p) => proc' \in [Procs -> Handlers \cup {Idle}]
    BY DEF Finish, TypeOK
<1>4. \A who \in {"consumer", "agent"} :
          Grant(h.o, who) => granted' \in [Orders -> SUBSET Gate!Reviewers]
    BY <1>1 DEF Grant, TypeOK, Gate!Reviewers
<1>5. \A st \in ResourceStates : SetResource(st) \in ResourceRows
    BY ResourceWrites DEF TypeOK
<1>6. CASE CommitCancel(p) \/ CommitRejectByConsumer(p)
    <2>1. AfterRefusal(h.row.type, h.res) \in ResourceRows
        BY ResourceWrites DEF TypeOK
    <2>2. order' \in [Orders -> Rows]
        BY <1>6, <1>2 DEF CommitCancel, CommitRejectByConsumer
    <2> QED
        BY <1>6, <1>3, <2>1, <2>2 DEF CommitCancel, CommitRejectByConsumer, TypeOK, CoreTypes
<1>7. CASE CommitSetStateExecuting(p)
    BY <1>7, <1>2, <1>3, <1>4 DEF CommitSetStateExecuting, TypeOK, CoreTypes
<1>8. ASSUME NEW delayed \in BOOLEAN, CommitEdit(p, delayed)
      PROVE  CoreTypes'
    <2>1. [h.row EXCEPT !.delayed = delayed] \in Rows
        BY <1>1 DEF Rows
    <2>2. order' \in [Orders -> Rows]
        BY <1>8, <2>1 DEF CommitEdit, TypeOK
    <2> QED
        BY <1>8, <1>3, <2>2 DEF CommitEdit, TypeOK, CoreTypes
<1>9. CASE CommitDestroy(p)
    BY <1>9, <1>2, <1>3 DEF CommitDestroy, TypeOK, CoreTypes
<1>10. CASE CommitSetStateDone(p)
    BY <1>10, <1>3, TypeCompletes DEF CommitSetStateDone, TypeOK, CoreTypes
<1>11. CASE CommitSetStateErred(p)
    <2>1. SeenAfterReport(h) \in ResourceRows
        BY ResourceWrites DEF SeenAfterReport, TypeOK
    <2>2. res' \in ResourceRows
        BY <1>11, <2>1 DEF CommitSetStateErred, ResourceRows
    <2> QED
        BY <1>11, <1>2, <1>3, <1>4, <2>2 DEF CommitSetStateErred, TypeOK, CoreTypes
<1>12. CASE CommitConfirm(p)
    <2>1. AfterConsumerApproval(order[h.o], h.later) \in OrderStates
        BY TargetStates
    <2>2. queue' \in [Orders -> 0 .. MaxTasks]
        BY <1>12, <1>1, Enqueues DEF CommitConfirm, TypeOK
    <2>3. order' \in [Orders -> Rows]
        BY <1>12, <1>2, <2>1 DEF CommitConfirm
    <2> QED
        BY <1>12, <1>3, <1>4, <2>2, <2>3 DEF CommitConfirm, TypeOK, CoreTypes
<1>13. CASE CommitSweep(p)
    <2>1. SweepTarget(h) \in OrderStates
        BY TargetStates DEF SweepTarget
    <2>2. queue' \in [Orders -> 0 .. MaxTasks]
        BY <1>13, <1>1, Enqueues DEF CommitSweep, TypeOK
    <2>3. order' \in [Orders -> Rows]
        BY <1>13, <1>2, <2>1 DEF CommitSweep
    <2> QED
        BY <1>13, <1>3, <2>2, <2>3 DEF CommitSweep, TypeOK, CoreTypes
<1>14. CASE CommitTimeout(p)
    <2>1. order' \in [Orders -> Rows] /\ res' \in ResourceRows
        BY <1>14, <1>2, <1>5 DEF CommitTimeout
    <2> QED
        BY <1>14, <1>3, <2>1 DEF CommitTimeout, TypeOK, CoreTypes
<1> QED
    BY <1>6, <1>7, <1>8, <1>9, <1>10, <1>11, <1>12, <1>13, <1>14 DEF Commit

\* The process_order task.
LEMMA TypeTaskStart ==
    ASSUME TypeOK, NEW p \in Procs, NEW o \in Orders, TaskStart(p, o)
    PROVE  CoreTypes'
<1>1. res' \in ResourceRows
    BY ResourceWrites DEF TaskStart, TypeOK
<1>2. [op |-> "process_order", o |-> o, row |-> order[o], res |-> res',
       later |-> FALSE] \in Handlers
    BY <1>1 DEF Handlers, Ops, TaskOps, Carriers, TypeOK
<1>3. proc' \in [Procs -> Handlers \cup {Idle}]
    BY <1>2 DEF TaskStart, TypeOK
<1>4. queue' \in [Orders -> 0 .. MaxTasks]
    BY BoundAssumption DEF TaskStart, TypeOK
<1> QED
    BY <1>1, <1>3, <1>4 DEF TaskStart, TypeOK, CoreTypes

\* The limits are saved with the copy of the resource.
LEMMA TypeTaskSavesLimits ==
    ASSUME TypeOK, NEW p \in Procs, TaskSavesLimits(p)
    PROVE  CoreTypes'
<1>1. proc[p] \in Handlers
    BY DEF TaskSavesLimits, TypeOK, Idle
<1>2. [proc[p] EXCEPT !.op = "limit_update_succeeded"] \in Handlers
    BY <1>1 DEF Handlers, Ops, TaskOps, Carriers
<1>3. proc' \in [Procs -> Handlers \cup {Idle}]
    BY <1>2 DEF TaskSavesLimits, TypeOK
<1>4. res' \in ResourceRows
    BY <1>1 DEF TaskSavesLimits, Handlers
<1> QED
    BY <1>3, <1>4 DEF TaskSavesLimits, TypeOK, CoreTypes

\* Whatever ends a Celery task writes well-formed rows.
LEMMA TypeTask ==
    ASSUME TypeOK, NEW p \in Procs, TaskEnds(p) \/ WorkerCrashes(p) \/ EarlyTicketGoesOn(p)
    PROVE  CoreTypes'
<1> DEFINE h == proc[p]
<1>1. h.o \in Orders /\ h.row \in Rows /\ h.res \in ResourceRows
    <2>1. h.op # "idle"
        BY DEF TaskEnds, WorkerCrashes, TaskOps, Carriers, TaskLeavesToAgent, TaskOpensTicket,
               TaskDelivers, TaskUpdatesLimits, TaskFails, EarlyTicketGoesOn, EarlyTicketOpened,
               EarlyTicketSaved
    <2> QED
        BY <2>1, SnapshotType
<1>2. \A st \in OrderStates : SaveRow(h.o, h.row, st) \in [Orders -> Rows]
    BY <1>1, OrderWrites DEF TypeOK
<1>3. SetState(h.o, "erred") \in [Orders -> Rows]
    BY <1>1, OrderWrites DEF TypeOK
<1>4. \A st \in ResourceStates : SetResource(st) \in ResourceRows
    BY ResourceWrites DEF TypeOK
<1>5. \A st \in ResourceStates : [h.res EXCEPT !.st = st] \in ResourceRows
    BY <1>1 DEF ResourceRows
<1>6. \A backend \in BOOLEAN : [st |-> "ok", backend |-> backend] \in ResourceRows
    BY DEF ResourceRows
<1>7. /\ SyncOrders({"create"}, "done") \in [Orders -> Rows]
      /\ SyncOrders(UpdateTypes, "done") \in [Orders -> Rows]
      /\ SyncOrders(UpdateTypes, "erred") \in [Orders -> Rows]
    BY SyncWrites DEF TypeOK
<1>8. FailOrder(h.o) => order' \in [Orders -> Rows] /\ res' \in ResourceRows
    BY <1>1, TypeFailOrder
<1>9. Finish(p) => proc' \in [Procs -> Handlers \cup {Idle}]
    BY DEF Finish, TypeOK
<1>10. CASE TaskLeavesToAgent(p) \/ WorkerCrashes(p)
    BY <1>10, <1>9 DEF TaskLeavesToAgent, WorkerCrashes, TypeOK, CoreTypes
<1>11. CASE TaskOpensTicket(p)
    <2>1. [h.res EXCEPT !.backend = TRUE] \in ResourceRows
        BY <1>1 DEF ResourceRows
    <2> QED
        BY <1>11, <1>1, <1>8, <1>9, <2>1 DEF TaskOpensTicket, TypeOK, CoreTypes
<1>12. CASE TaskDelivers(p)
    <2>1. order' \in [Orders -> Rows] /\ res' \in ResourceRows
        <3>1. CASE TaskCreates(h)
            <4>1. h.res.backend \in BOOLEAN
                BY <1>1 DEF ResourceRows
            <4>2. \A backend \in {h.res.backend, OfferingType = "script"} : backend \in BOOLEAN
                BY <4>1
            <4> QED
                BY <3>1, <1>6, <1>7, <1>8, <4>2 DEF TaskCreates
        <3>2. CASE TaskUpdates(h)
            BY <3>2, <1>4, <1>7 DEF TaskUpdates, TypeOK
        <3>3. CASE TaskTerminates(h)
            BY <3>3, <1>2, <1>4, <1>8 DEF TaskTerminates
        <3> QED
            BY <1>12, <3>1, <3>2, <3>3 DEF TaskDelivers
    <2> QED
        BY <1>12, <1>9, <2>1 DEF TaskDelivers, TypeOK, CoreTypes
<1>13. CASE TaskFails(p)
    <2>1. AfterError(h.res) \in ResourceRows
        BY ResourceWrites DEF TypeOK
    <2>2. order' \in [Orders -> Rows] /\ res' \in ResourceRows
        BY <1>13, <1>2, <1>4, <1>8, <2>1 DEF TaskFails
    <2> QED
        BY <1>13, <1>9, <2>2 DEF TaskFails, TypeOK, CoreTypes
<1>14. CASE EarlyTicketSaved(p)
    <2>1. [h.res EXCEPT !.backend = TRUE] \in ResourceRows
        BY <1>1 DEF ResourceRows
    <2> QED
        BY <1>14, <1>9, <2>1 DEF EarlyTicketSaved, TypeOK, CoreTypes
<1>15. CASE EarlyTicketOpened(p)
    <2>1. [h EXCEPT !.op = "create_issue_links"] \in Handlers
        <3>1. h \in Handlers
            BY <1>15 DEF EarlyTicketOpened, TypeOK, Idle
        <3> QED
            BY <3>1 DEF Handlers, Ops, TaskOps, Carriers
    <2>2. [proc EXCEPT ![p] = [h EXCEPT !.op = "create_issue_links"]]
              \in [Procs -> Handlers \cup {Idle}]
        BY <2>1 DEF TypeOK
    <2>3. proc' \in [Procs -> Handlers \cup {Idle}]
        BY <1>15, <1>9, <2>2 DEF EarlyTicketOpened
    <2> QED
        BY <1>15, <1>1, <1>4, <2>3 DEF EarlyTicketOpened, TypeOK, CoreTypes
<1>16. CASE TaskUpdatesLimits(p)
    <2>1. order' \in [Orders -> Rows] /\ res' \in ResourceRows
        BY <1>16, <1>2, <1>5, <1>8 DEF TaskUpdatesLimits
    <2> QED
        BY <1>16, <1>9, <2>1 DEF TaskUpdatesLimits, TypeOK, CoreTypes
<1> QED
    BY <1>10, <1>11, <1>12, <1>13, <1>14, <1>15, <1>16 DEF TaskEnds, EarlyTicketGoesOn

\* The helpdesk.
LEMMA TypeEarlyTicket ==
    ASSUME TypeOK, NEW o \in Orders, NEW p \in Procs, EarlyTicket(p, o)
    PROVE  TypeOK'
<1>1. [op |-> "create_issue_for_pending_order", o |-> o, row |-> order[o],
       res |-> res, later |-> FALSE] \in Handlers
    BY DEF Handlers, Ops, TaskOps, TypeOK
<1>2. proc' \in [Procs -> Handlers \cup {Idle}]
    BY <1>1 DEF EarlyTicket, TypeOK
<1> QED
    BY <1>2 DEF EarlyTicket, TypeOK

\* The callbacks of a helpdesk issue write well-formed rows.
LEMMA TypeIssue ==
    ASSUME TypeOK, NEW o \in Orders, IssueStatusChange(o)
    PROVE  CoreTypes'
<1>1. /\ \A type : SyncOrders({type}, "done") \in [Orders -> Rows]
      /\ \A type : SyncOrders({type}, "canceled") \in [Orders -> Rows]
      /\ \A type : SyncOrders({type}, "erred") \in [Orders -> Rows]
      /\ SyncOrders(UpdateTypes, "erred") \in [Orders -> Rows]
    BY SyncWrites DEF TypeOK
<1>2. \A st \in ResourceStates : SetResource(st) \in ResourceRows
    BY ResourceWrites DEF TypeOK
<1>3. order' \in [Orders -> Rows] /\ res' \in ResourceRows
    <2>1. CASE IssueSucceeds(order[o].type)
        BY <2>1, <1>1, TypeCompletes DEF IssueSucceeds, TypeOK
    <2>2. CASE IssueFails(order[o].type)
        <3>1. /\ SetResource("terminated") \in ResourceRows
              /\ SetResource("erred") \in ResourceRows
              /\ SetResource("ok") \in ResourceRows
            BY <1>2
        <3>2. CASE order[o].type \in {"create", "restore"}
            BY <2>2, <1>1, <3>1, <3>2 DEF IssueFails
        <3>3. CASE order[o].type \in UpdateTypes
            BY <2>2, <1>1, <3>1, <3>3 DEF IssueFails
        <3>4. CASE order[o].type \notin {"create", "restore"} \cup UpdateTypes
            <4>1. /\ order' = SyncOrders({order[o].type}, "erred")
                  /\ res' = IF res.st = "terminated" THEN res ELSE SetResource("ok")
                BY <2>2, <3>4 DEF IssueFails
            <4> QED
                BY <1>1, <3>1, <4>1 DEF TypeOK
        <3> QED
            BY <3>2, <3>3, <3>4
    <2> QED
        BY <2>1, <2>2 DEF IssueStatusChange
<1> QED
    BY <1>3 DEF IssueStatusChange, TypeOK, CoreTypes

\* What is kept of the approvals under way, and the messages and history.
LEMMA TypeSaved ==
    ASSUME TypeOK, AfterSave
    PROVE  /\ seen' \in [Orders -> SUBSET BOOLEAN]
           /\ early' \subseteq Orders /\ started' \subseteq Orders /\ overlapped' \subseteq Orders
<1>1. seen' \in [Orders -> SUBSET BOOLEAN]
    BY DEF AfterSave, TypeOK
<1>2. early' \subseteq Orders /\ started' \subseteq Orders /\ overlapped' \subseteq Orders
    BY DEF AfterSave, TypeOK
<1> QED
    BY <1>1, <1>2

\* Every step of the code, or a stutter, keeps TypeOK.
LEMMA TypeStep == TypeOK /\ [Next]_vars => TypeOK'
<1> SUFFICES ASSUME TypeOK, [Next]_vars
             PROVE  TypeOK'
    OBVIOUS
<1>1. ASSUME Step, UNCHANGED <<released, stuck>>, AfterSave
      PROVE  TypeOK'
    <2>1. CoreTypes'
        <3>1. \A p \in Procs : Place(p) => CoreTypes'
            BY TypePlace
        <3>2. \A p \in Procs, op \in StaleOps, o \in Orders : Begin(p, op, o) => CoreTypes'
            BY TypeBegin
        <3>3. \A p \in Procs : Commit(p) => CoreTypes'
            BY TypeCommit
        <3>4. \A p \in Procs, o \in Orders : TaskStart(p, o) => CoreTypes'
            BY TypeTaskStart
        <3>5. \A p \in Procs :
                  TaskEnds(p) \/ WorkerCrashes(p) \/ EarlyTicketGoesOn(p) => CoreTypes'
            BY TypeTask
        <3>6. \A o \in Orders : Review(o) => CoreTypes'
            BY TypeReview
        <3>9. \A o \in Orders : IssueStatusChange(o) => CoreTypes'
            BY TypeIssue
        <3>7. Outside => CoreTypes'
            BY TypeOutside
        <3>8. \A p \in Procs : Rollback(p) \/ TaskSavesLimits(p) => CoreTypes'
            BY TypeRollback, TypeTaskSavesLimits
        <3> QED
            BY <1>1, <3>1, <3>2, <3>3, <3>4, <3>5, <3>6, <3>7, <3>8, <3>9 DEF Step
    <2>2. released' \in [Orders -> SUBSET Rows] /\ stuck' \in BOOLEAN
        BY <1>1 DEF TypeOK
    <2> QED
        BY <1>1, <2>1, <2>2, TypeSaved DEF CoreTypes, TypeOK
<1>2. CASE \E p \in Procs, o \in Orders : EarlyTicket(p, o)
    BY <1>2, TypeEarlyTicket
<1>3. CASE UNCHANGED vars
    BY <1>3 DEF vars, TypeOK
<1>4. ASSUME Aside, AfterSave
      PROVE  TypeOK'
    BY <1>4, TypeAside, TypeSaved DEF CoreTypes, TypeOK
<1>5. ASSUME NEW o \in Orders, LookAtProject(o)
      PROVE  TypeOK'
    <2>1. seen' \in [Orders -> SUBSET BOOLEAN]
        BY <1>5 DEF LookAtProject, TypeOK, ProjectStartsLater
    <2> QED
        BY <1>5, <2>1 DEF LookAtProject, TypeOK
<1> QED
    BY <1>1, <1>2, <1>3, <1>4, <1>5 DEF Next

\* Whatever snapshots are written back and whichever workers die, the rows, the
\* snapshots and the queues hold values the code can store.
THEOREM TypeCorrect == Spec => []TypeOK
    BY TypeInit, TypeStep, PTL DEF Spec

--------------------------------------------------------------------------------
(* Work needs approval.                                                       *)

USE DEF Gate!MayStart, PastConsumer, PastReviews, Cleared, Approved

\* Who has let an order start has let it into every other state, and reviews
\* are not lost.
LEMMA ReviewsKept ==
    ASSUME NEW who, NEW more, who \subseteq more
    PROVE  /\ Gate!MayStart(who) => Gate!MayStart(more)
           /\ Gate!MayStart(who) => \A st : Cleared(who, st)
           /\ \A st : Cleared(who, st) => Cleared(more, st)
    OBVIOUS

\* Where the shared routing sends an order, it has been let through.
LEMMA RoutedAsCleared ==
    ASSUME NEW row, NEW skips, NEW later, NEW who
    PROVE  /\ Gate!MayStart(who) => Cleared(who, AfterProviderApproval(row))
           /\ "consumer" \in who => Cleared(who, AfterConsumerApproval(row, later))
           /\ (skips => "consumer" \in who) => Cleared(who, AfterPlacement(skips, later))
           /\ Cleared(who, "pending_project") => Cleared(who, AfterProjectStart(row))
    BY DEF AfterProviderApproval, AfterConsumerApproval, AfterPlacement, AfterProjectStart

\* What each step has to respect, so that with AfterSave it keeps ApprovalInv:
\* reviews are only added; an order moves, a snapshot is taken and a message is
\* sent only as far as the reviews allow.
ReviewsOnlyGrow == \A o \in Orders : granted[o] \subseteq granted'[o]
OrdersRespect ==
    \A o \in Orders : order'[o].st = order[o].st \/ Cleared(granted'[o], order'[o].st)
SnapshotsRespect ==
    \A p \in Procs :
        \/ proc'[p] \in {proc[p], Idle}
        \/ /\ proc'[p].o \in Orders
           /\ Cleared(granted'[proc'[p].o], proc'[p].row.st)
           /\ proc'[p].op \in StaleOps => proc'[p].row.st \in AcceptedStates[proc'[p].op]
           /\ proc'[p].op \in Carriers => Gate!MayStart(granted'[proc'[p].o])
CopiesRespect ==
    \A o \in Orders : \A row \in released'[o] :
        \/ row \in released[o]
        \/ row.st = "pending_project" /\ Cleared(granted'[o], row.st)
MessagesRespect ==
    \A o \in Orders : queue'[o] <= queue[o] \/ Gate!MayStart(granted'[o])
Respects == ReviewsOnlyGrow /\ OrdersRespect /\ SnapshotsRespect /\ MessagesRespect

\* A step that respects the reviews keeps the invariant of the reviews.
LEMMA RespectKeepsApproval ==
    ASSUME TypeOK, ApprovalInv, Respects, CopiesRespect, AfterSave, TypeOK'
    PROVE  ApprovalInv'
<1>1. \A o \in Orders : Cleared(granted'[o], order'[o].st)
    BY ReviewsKept DEF ApprovalInv, Respects, ReviewsOnlyGrow, OrdersRespect
<1>2. ASSUME NEW p \in Procs, proc'[p] # Idle
      PROVE  /\ Cleared(granted'[proc'[p].o], proc'[p].row.st)
             /\ proc'[p].op \in StaleOps => proc'[p].row.st \in AcceptedStates[proc'[p].op]
             /\ proc'[p].op \in Carriers => Gate!MayStart(granted'[proc'[p].o])
    <2>1. CASE proc'[p] = proc[p]
        <3>1. proc[p].op # "idle" /\ proc[p].o \in Orders
            BY <1>2, <2>1 DEF TypeOK, Handlers, Ops, TaskOps, Carriers, StaleOps
        <3>2. granted[proc[p].o] \subseteq granted'[proc[p].o]
            BY <3>1 DEF Respects, ReviewsOnlyGrow
        <3> QED
            BY <1>2, <2>1, <3>2, ReviewsKept DEF ApprovalInv
    <2>2. CASE proc'[p] # proc[p]
        BY <1>2, <2>2 DEF Respects, SnapshotsRespect
    <2> QED
        BY <2>1, <2>2
<1>3. \A o \in Orders : queue'[o] > 0 => Approved(o)'
    <2> SUFFICES ASSUME NEW o \in Orders, queue'[o] > 0
                 PROVE  Gate!MayStart(granted'[o])
        OBVIOUS
    <2>1. CASE queue'[o] <= queue[o]
        <3>1. queue[o] \in 0 .. MaxTasks /\ queue'[o] \in 0 .. MaxTasks
            BY DEF TypeOK
        <3>2. queue[o] > 0
            BY <2>1, <3>1, BoundAssumption
        <3> QED
            BY <3>2, ReviewsKept DEF ApprovalInv, Respects, ReviewsOnlyGrow
    <2> QED
        BY <2>1 DEF Respects, MessagesRespect
<1>4. WorkNeedsApproval'
    <2> SUFFICES ASSUME NEW o \in started'
                 PROVE  Gate!MayStart(granted'[o])
        BY DEF WorkNeedsApproval
    <2>1. CASE o \in started
        <3>1. o \in Orders /\ Gate!MayStart(granted[o])
            BY <2>1 DEF TypeOK, ApprovalInv, WorkNeedsApproval
        <3> QED
            BY <3>1, ReviewsKept DEF Respects, ReviewsOnlyGrow
    <2>2. CASE o \in Orders /\ order'[o].st = "executing"
        BY <2>2, <1>1
    <2> QED
        BY <2>1, <2>2 DEF AfterSave
<1>5. \A p \in Procs : proc'[p] = Idle => proc'[p].op \notin StaleOps \cup Carriers
    BY DEF Idle, StaleOps, Carriers
<1>6. ASSUME NEW o \in Orders, NEW row \in released'[o]
      PROVE  row.st = "pending_project" /\ Cleared(granted'[o], row.st)
    BY ReviewsKept DEF CopiesRespect, ApprovalInv, Respects, ReviewsOnlyGrow
<1> QED
    BY <1>1, <1>2, <1>3, <1>4, <1>5, <1>6 DEF ApprovalInv

\* The parts of Respects, for the writes the handlers are made of.
LEMMA OrderWritesRespect ==
    ASSUME TypeOK, NEW o \in Orders, NEW st, NEW row \in Rows, Cleared(granted'[o], st),
           order' = SetState(o, st) \/ order' = SaveRow(o, row, st)
    PROVE  OrdersRespect
<1>1. order'[o].st = st
    BY DEF TypeOK, Rows, SetState, SaveRow
<1>2. \A x \in Orders : x # o => order'[x] = order[x]
    BY DEF TypeOK, SetState, SaveRow
<1> QED
    BY <1>1, <1>2 DEF OrdersRespect

\* set_order_state only moves an order that is EXECUTING, and so approved.
LEMMA SyncRespects ==
    ASSUME TypeOK, ApprovalInv, ReviewsOnlyGrow, NEW types, NEW st,
           order' = SyncOrders(types, st)
    PROVE  OrdersRespect
<1> SUFFICES ASSUME NEW o \in Orders, order'[o].st # order[o].st
             PROVE  Cleared(granted'[o], order'[o].st)
    BY DEF OrdersRespect
<1>1. order[o].st = "executing"
    BY DEF SyncOrders, TheExecuting, Executing
<1>2. Gate!MayStart(granted[o])
    BY <1>1 DEF ApprovalInv
<1> QED
    BY <1>2, ReviewsKept DEF ReviewsOnlyGrow

\* process_order_on_commit is called for an order let through, or not at all.
LEMMA MessagesRespected ==
    ASSUME TypeOK, NEW o \in Orders, NEW st,
           \/ EnqueueIfExecuting(o, st) /\ Cleared(granted'[o], st)
           \/ Enqueue(o) /\ Gate!MayStart(granted'[o])
           \/ UNCHANGED queue
    PROVE  MessagesRespect
<1>1. ASSUME Enqueue(o), Gate!MayStart(granted'[o])
      PROVE  MessagesRespect
    BY <1>1 DEF Enqueue, MessagesRespect, TypeOK
<1>2. ASSUME UNCHANGED queue
      PROVE  MessagesRespect
    <2>1. \A x \in Orders : queue[x] \in 0 .. MaxTasks
        BY DEF TypeOK
    <2> QED
        BY <1>2, <2>1, BoundAssumption DEF MessagesRespect
<1> QED
    BY <1>1, <1>2 DEF EnqueueIfExecuting

\* Recording a review takes none away.
LEMMA GrantRespects ==
    ASSUME TypeOK, NEW o \in Orders, NEW who, Grant(o, who)
    PROVE  ReviewsOnlyGrow /\ granted'[o] = granted[o] \cup {who}
    BY DEF TypeOK, Grant, ReviewsOnlyGrow

\* What a step leaves alone, it leaves as far along as it was.
LEMMA NothingElseChanges ==
    ASSUME TypeOK
    PROVE  /\ UNCHANGED granted => ReviewsOnlyGrow
           /\ UNCHANGED order => OrdersRespect
           /\ UNCHANGED proc => SnapshotsRespect
           /\ \A p \in Procs : Finish(p) => SnapshotsRespect
           /\ UNCHANGED queue => MessagesRespect
<1>1. UNCHANGED queue => MessagesRespect
    <2>1. \A x \in Orders : queue[x] \in 0 .. MaxTasks
        BY DEF TypeOK
    <2> QED
        BY <2>1, BoundAssumption DEF MessagesRespect
<1>2. \A p \in Procs : Finish(p) => SnapshotsRespect
    BY DEF Finish, SnapshotsRespect, TypeOK
<1> QED
    BY <1>1, <1>2 DEF ReviewsOnlyGrow, OrdersRespect, SnapshotsRespect

\* A new order is routed only as far as its placing has reviewed it.
LEMMA PlaceRespects ==
    ASSUME TypeOK, ApprovalInv, NEW p \in Procs, Place(p)
    PROVE  Respects
<1>1. ASSUME NEW o \in Orders, NEW type \in OrderTypes, NEW delayed \in BOOLEAN,
             BeginPlace(p, o, type, delayed)
      PROVE  Respects
    <2>1. SnapshotsRespect
        BY <1>1 DEF BeginPlace, SnapshotsRespect, TypeOK, StaleOps, Carriers
    <2> QED
        BY <1>1, <2>1, NothingElseChanges DEF BeginPlace, Respects
<1>2. ASSUME NEW skips \in BOOLEAN, CommitPlace(p, skips)
      PROVE  Respects
    <2>1. proc[p].o \in Orders /\ proc[p].row \in Rows
        BY <1>2, SnapshotType DEF CommitPlace
    <2>2. ReviewsOnlyGrow /\ (skips => "consumer" \in granted'[proc[p].o])
        BY <1>2, <2>1, GrantRespects, NothingElseChanges DEF CommitPlace
    <2>3. Cleared(granted'[proc[p].o], AfterPlacement(skips, proc[p].later))
        BY <2>2, RoutedAsCleared
    <2> QED
        BY <1>2, <2>1, <2>2, <2>3, OrderWritesRespect, MessagesRespected, NothingElseChanges
        DEF CommitPlace, Respects
<1> QED
    BY <1>1, <1>2 DEF Place

\* The handlers that lock the order move it as far as its reviews allow.
LEMMA ReviewRespects ==
    ASSUME TypeOK, ApprovalInv, NEW o \in Orders, Review(o)
    PROVE  Respects
<1>1. order[o] \in Rows /\ Cleared(granted[o], order[o].st)
    BY DEF TypeOK, ApprovalInv
<1>2. ASSUME NEW later \in BOOLEAN, ConsumerClears(o, later)
      PROVE  Respects
    <2>1. ReviewsOnlyGrow /\ "consumer" \in granted'[o]
        BY <1>2, GrantRespects DEF ConsumerClears
    <2>2. Cleared(granted'[o], AfterConsumerApproval(order[o], later))
        BY <2>1, RoutedAsCleared
    <2> QED
        BY <1>1, <1>2, <2>1, <2>2, OrderWritesRespect, MessagesRespected, NothingElseChanges
        DEF ConsumerClears, Respects
<1>3. CASE ApproveByProvider(o)
    <2>1. ReviewsOnlyGrow /\ granted'[o] = granted[o] \cup {"provider"}
        BY <1>3, GrantRespects DEF ApproveByProvider
    <2>2. Gate!MayStart(granted'[o])
        BY <1>1, <1>3, <2>1 DEF ApproveByProvider
    <2>3. Cleared(granted'[o], AfterProviderApproval(order[o]))
        BY <2>2, RoutedAsCleared
    <2> QED
        BY <1>1, <1>3, <2>1, <2>3, OrderWritesRespect, MessagesRespected, NothingElseChanges
        DEF ApproveByProvider, Respects
<1>4. CASE RejectByProvider(o)
    BY <1>1, <1>4, OrderWritesRespect, NothingElseChanges DEF RejectByProvider, Respects
<1>5. CASE Retry(o)
    <2>1. Gate!MayStart(granted'[o])
        BY <1>1, <1>5 DEF Retry
    <2> QED
        BY <1>1, <1>5, <2>1, OrderWritesRespect, MessagesRespected, NothingElseChanges
        DEF Retry, Respects
<1>6. CASE Unlink(o)
    BY <1>1, <1>6, OrderWritesRespect, NothingElseChanges DEF Unlink, Respects
<1> QED
    BY <1>2, <1>3, <1>4, <1>5, <1>6 DEF Review, ApproveByConsumer, ApplyAutoApproval

\* The resource's endpoints and the calendar touch no review.
LEMMA OutsideRespects ==
    ASSUME TypeOK, ApprovalInv, Outside
    PROVE  Respects
<1>1. UNCHANGED <<order, proc, queue, granted>>
    BY DEF Outside, SetAsOk, SetAsErred, SetResourceBackendId, DateComes, ProjectDateComes,
           SetProjectStartDate
<1> QED
    BY <1>1, NothingElseChanges DEF Respects

\* The handler of the project's start date skips no review: it lists orders that
\* wait for the project, and moves each no further than its copy allows.
LEMMA AsideRespects ==
    ASSUME TypeOK, ApprovalInv, Aside
    PROVE  Respects /\ CopiesRespect
<1>1. CASE BeginReset \/ CommitReset
    BY <1>1, NothingElseChanges DEF BeginReset, CommitReset, Respects, CopiesRespect
<1>2. CASE UnsetProjectStartDate
    <2>1. CopiesRespect
        BY <1>2 DEF UnsetProjectStartDate, CopiesRespect, ApprovalInv
    <2> QED
        BY <1>2, <2>1, NothingElseChanges DEF UnsetProjectStartDate, Respects
<1>3. ASSUME NEW o \in Orders, AbandonRelease(o)
      PROVE  Respects /\ CopiesRespect
    BY <1>3, NothingElseChanges DEF AbandonRelease, Respects, CopiesRespect, TypeOK
<1>4. ASSUME NEW o \in Orders, NEW row \in Rows, ReleaseOrder(o, row)
      PROVE  Respects /\ CopiesRespect
    <2>1. Cleared(granted[o], AfterProjectStart(row))
        BY <1>4, RoutedAsCleared DEF ReleaseOrder, ApprovalInv
    <2>2. Cleared(granted'[o], AfterProjectStart(row))
        BY <1>4, <2>1 DEF ReleaseOrder
    <2>3. OrdersRespect
        BY <1>4, <2>2, OrderWritesRespect DEF ReleaseOrder
    <2>4. MessagesRespect
        BY <1>4, <2>2, MessagesRespected DEF ReleaseOrder
    <2>5. CopiesRespect
        BY <1>4 DEF ReleaseOrder, CopiesRespect, TypeOK
    <2> QED
        BY <1>4, <2>3, <2>4, <2>5, NothingElseChanges DEF ReleaseOrder, Respects
<1> QED
    BY <1>1, <1>2, <1>3, <1>4 DEF Aside

\* A snapshot is as far along as the row it is taken from.
LEMMA BeginRespects ==
    ASSUME TypeOK, ApprovalInv, NEW p \in Procs, NEW op \in StaleOps, NEW o \in Orders,
           Begin(p, op, o)
    PROVE  Respects
<1>1. Cleared(granted'[o], order[o].st) /\ order[o].st \in AcceptedStates[op]
    BY DEF Begin, ApprovalInv
<1>2. SnapshotsRespect
    BY <1>1 DEF Begin, SnapshotsRespect, TypeOK, StaleOps, Carriers
<1> QED
    BY <1>2, NothingElseChanges DEF Begin, Respects

\* An old snapshot that is written back is no further along than the reviews.
LEMMA CommitRespects ==
    ASSUME TypeOK, ApprovalInv, NEW p \in Procs, Commit(p)
    PROVE  Respects
<1> DEFINE h == proc[p]
<1>1. h.op \in StaleOps
    BY DEF Commit, CommitCancel, CommitRejectByConsumer, CommitSetStateExecuting,
           CommitEdit, CommitDestroy, CommitSetStateDone, CommitSetStateErred,
           CommitConfirm, CommitSweep, CommitTimeout, StaleOps
<1>2. h.o \in Orders /\ h.row \in Rows
    BY <1>1, SnapshotType DEF StaleOps
<1>3. Cleared(granted[h.o], h.row.st) /\ h.row.st \in AcceptedStates[h.op]
    BY <1>1 DEF ApprovalInv, Idle, StaleOps
<1>4. Finish(p) => SnapshotsRespect
    BY NothingElseChanges
<1>5. \A st : Cleared(granted'[h.o], st)
              /\ (order' = SetState(h.o, st) \/ order' = SaveRow(h.o, h.row, st))
              => OrdersRespect
    BY <1>2, OrderWritesRespect
<1>6. \A who : Grant(h.o, who) =>
          ReviewsOnlyGrow /\ granted'[h.o] = granted[h.o] \cup {who}
    BY <1>2, GrantRespects
<1>7. CASE CommitCancel(p) \/ CommitRejectByConsumer(p) \/ CommitDestroy(p)
    BY <1>7, <1>4, <1>5, NothingElseChanges
    DEF CommitCancel, CommitRejectByConsumer, CommitDestroy, Respects
<1>8. CASE CommitSetStateExecuting(p)
    BY <1>8, <1>4, <1>5, <1>6, NothingElseChanges DEF CommitSetStateExecuting, Respects
<1>9. ASSUME NEW delayed \in BOOLEAN, CommitEdit(p, delayed)
      PROVE  Respects
    <2>1. OrdersRespect
        BY <1>9, <1>2, <1>3 DEF CommitEdit, OrdersRespect, TypeOK, Rows
    <2> QED
        BY <1>9, <1>4, <2>1, NothingElseChanges DEF CommitEdit, Respects
<1>10. CASE CommitSetStateDone(p)
    <2>1. ReviewsOnlyGrow
        BY <1>10, NothingElseChanges DEF CommitSetStateDone
    <2>2. \E types : order' = SyncOrders(types, "done")
        BY <1>10 DEF CommitSetStateDone, Completes
    <2>3. OrdersRespect
        BY <2>1, <2>2, SyncRespects
    <2> QED
        BY <1>10, <1>4, <2>1, <2>3, NothingElseChanges DEF CommitSetStateDone, Respects
<1>11. CASE CommitSetStateErred(p)
    BY <1>11, <1>4, <1>5, <1>6, NothingElseChanges DEF CommitSetStateErred, Respects
<1>12. CASE CommitConfirm(p)
    <2>1. /\ Cleared(granted'[h.o], AfterConsumerApproval(order[h.o], h.later))
          /\ ReviewsOnlyGrow
        BY <1>12, <1>6, RoutedAsCleared DEF CommitConfirm
    <2>2. MessagesRespect
        BY <1>12, <1>2, <2>1, MessagesRespected DEF CommitConfirm
    <2> QED
        BY <1>12, <1>4, <1>5, <2>1, <2>2, NothingElseChanges DEF CommitConfirm, Respects
<1>13. CASE CommitSweep(p)
    <2>1. Cleared(granted[h.o], SweepTarget(h))
        <3>1. CASE h.op = "process_pending_start_date_orders"
            <4>1. h.row.st = "pending_start_date"
                BY <1>3, <3>1 DEF AcceptedStates
            <4> QED
                BY <1>3, <3>1, <4>1 DEF SweepTarget
        <3>2. CASE h.op = "process_pending_project_orders"
            <4>1. h.row.st = "pending_project"
                BY <1>3, <3>2 DEF AcceptedStates
            <4> QED
                BY <1>3, <3>2, <4>1, RoutedAsCleared DEF SweepTarget
        <3> QED
            BY <1>13, <3>1, <3>2 DEF CommitSweep
    <2>2. Cleared(granted'[h.o], SweepTarget(h))
        BY <1>13, <2>1 DEF CommitSweep
    <2>3. MessagesRespect
        BY <1>13, <1>2, <2>2, MessagesRespected DEF CommitSweep
    <2> QED
        BY <1>13, <1>4, <1>5, <2>2, <2>3, NothingElseChanges DEF CommitSweep, Respects
<1>14. CASE CommitTimeout(p)
    <2>1. h.row.st = "executing"
        BY <1>3, <1>14 DEF AcceptedStates, CommitTimeout
    <2>2. Cleared(granted'[h.o], "erred")
        BY <1>3, <1>14, <2>1 DEF CommitTimeout
    <2> QED
        BY <1>14, <1>4, <1>5, <2>2, NothingElseChanges DEF CommitTimeout, Respects
<1> QED
    BY <1>7, <1>8, <1>9, <1>10, <1>11, <1>12, <1>13, <1>14 DEF Commit

\* A worker that takes a message works on an approved order.
LEMMA TaskStartRespects ==
    ASSUME TypeOK, ApprovalInv, NEW p \in Procs, NEW o \in Orders, TaskStart(p, o)
    PROVE  Respects
<1> USE DEF Carriers
<1>1. Gate!MayStart(granted'[o])
    BY DEF TaskStart, ApprovalInv
<1>2. SnapshotsRespect
    BY <1>1 DEF TaskStart, SnapshotsRespect, TypeOK, StaleOps
<1>3. MessagesRespect
    BY <1>1, BoundAssumption DEF TaskStart, MessagesRespect, TypeOK
<1> QED
    BY <1>2, <1>3, NothingElseChanges DEF TaskStart, Respects

\* ... and keeps the order it works on when it has saved the limits.
LEMMA TaskSavesLimitsRespects ==
    ASSUME TypeOK, ApprovalInv, NEW p \in Procs, TaskSavesLimits(p)
    PROVE  Respects
<1>1. proc[p] \in Handlers
    BY DEF TaskSavesLimits, TypeOK, Idle
<1>2. proc'[p] = [proc[p] EXCEPT !.op = "limit_update_succeeded"]
    BY DEF TaskSavesLimits, TypeOK
<1>3. \A q \in Procs : q # p => proc'[q] = proc[q]
    BY DEF TaskSavesLimits, TypeOK
<1>4. proc'[p].op \notin StaleOps /\ proc'[p].o = proc[p].o /\ proc'[p].row = proc[p].row
    BY <1>1, <1>2 DEF Handlers, StaleOps
<1>5. Cleared(granted[proc[p].o], proc[p].row.st) /\ Gate!MayStart(granted[proc[p].o])
    BY <1>1 DEF ApprovalInv, TaskSavesLimits, Carriers, Idle
<1>6. proc[p].o \in Orders /\ granted' = granted
    BY <1>1 DEF Handlers, TaskSavesLimits
<1>7. SnapshotsRespect
    BY <1>3, <1>4, <1>5, <1>6 DEF SnapshotsRespect
<1> QED
    BY <1>7, NothingElseChanges DEF TaskSavesLimits, Respects

\* What the processors write is for an order that has been approved.
LEMMA TaskRespects ==
    ASSUME TypeOK, ApprovalInv, NEW p \in Procs, TaskEnds(p)
    PROVE  Respects
<1> DEFINE h == proc[p]
<1>1. h.op \in Carriers /\ Finish(p) /\ UNCHANGED <<queue, granted>>
    BY DEF TaskEnds, TaskLeavesToAgent, TaskOpensTicket, TaskDelivers, TaskUpdatesLimits,
           TaskFails, Carriers
<1>2. h.o \in Orders /\ h.row \in Rows
    BY <1>1, SnapshotType DEF Carriers
<1>3. \A st : Cleared(granted'[h.o], st)
    BY <1>1, ReviewsKept DEF ApprovalInv
<1>4. \/ UNCHANGED order
      \/ \E st : order' = SetState(h.o, st) \/ order' = SaveRow(h.o, h.row, st)
      \/ \E types, st : order' = SyncOrders(types, st)
    <2>1. FailOrder(h.o) => UNCHANGED order \/ \E st : order' = SetState(h.o, st)
        BY DEF FailOrder
    <2>2. CASE TaskLeavesToAgent(p) \/ TaskOpensTicket(p)
        BY <2>1, <2>2 DEF TaskLeavesToAgent, TaskOpensTicket
    <2>3. CASE TaskDelivers(p)
        BY <2>1, <2>3 DEF TaskDelivers, TaskCreates, TaskUpdates, TaskTerminates
    <2>4. CASE TaskFails(p) \/ TaskUpdatesLimits(p)
        BY <2>1, <2>4 DEF TaskFails, TaskUpdatesLimits
    <2> QED
        BY <2>2, <2>3, <2>4 DEF TaskEnds
<1>5. ReviewsOnlyGrow
    BY <1>1, NothingElseChanges
<1>6. OrdersRespect
    BY <1>2, <1>3, <1>4, <1>5, OrderWritesRespect, SyncRespects, NothingElseChanges
<1> QED
    BY <1>1, <1>5, <1>6, NothingElseChanges DEF Respects

\* What the callbacks of an issue write is for an approved order.
LEMMA TicketRespects ==
    ASSUME TypeOK, ApprovalInv, NEW o \in Orders, IssueStatusChange(o)
    PROVE  Respects
<1>1. \E types, st : order' = SyncOrders(types, st)
    BY DEF IssueStatusChange, IssueSucceeds, IssueFails, Completes
<1>2. ReviewsOnlyGrow
    BY NothingElseChanges DEF IssueStatusChange
<1> QED
    BY <1>1, <1>2, SyncRespects, NothingElseChanges DEF IssueStatusChange, Respects

\* The helpdesk task keeps the copy of the order it has begun with.
LEMMA EarlyTicketRespects ==
    ASSUME TypeOK, ApprovalInv, NEW p \in Procs, EarlyTicketGoesOn(p)
    PROVE  Respects
<1>1. CASE EarlyTicketSaved(p)
    BY <1>1, NothingElseChanges DEF EarlyTicketSaved, Respects
<1>2. CASE EarlyTicketOpened(p)
    <2>1. proc[p].o \in Orders /\ proc[p] # Idle
        BY <1>2, SnapshotType DEF EarlyTicketOpened, Idle
    <2>2. ReviewsOnlyGrow /\ OrdersRespect /\ MessagesRespect
        BY <1>2, NothingElseChanges DEF EarlyTicketOpened
    <2>3. Cleared(granted[proc[p].o], proc[p].row.st)
        BY <2>1 DEF ApprovalInv
    <2>4. proc'[p] \in {Idle, [proc[p] EXCEPT !.op = "create_issue_links"]}
        BY <1>2 DEF EarlyTicketOpened, Finish, TypeOK
    <2>5. \A q \in Procs : q # p => proc'[q] = proc[q]
        BY <1>2 DEF EarlyTicketOpened, Finish, TypeOK
    <2>6. proc[p] \in Handlers
        BY <2>1 DEF TypeOK
    <2>7. granted' = granted
        BY <1>2 DEF EarlyTicketOpened
    <2>8. SnapshotsRespect
        BY <2>1, <2>3, <2>4, <2>5, <2>6, <2>7 DEF SnapshotsRespect, Handlers, StaleOps, Carriers
    <2> QED
        BY <2>2, <2>8 DEF Respects
<1> QED
    BY <1>1, <1>2 DEF EarlyTicketGoesOn

\* Every step of the requests, the tasks and the sweeps respects the reviews.
LEMMA StepRespects ==
    ASSUME TypeOK, ApprovalInv, Step
    PROVE  Respects
<1>1. \A p \in Procs : Place(p) => Respects
    BY PlaceRespects
<1>2. \A p \in Procs, op \in StaleOps, o \in Orders : Begin(p, op, o) => Respects
    BY BeginRespects
<1>3. \A p \in Procs : Commit(p) => Respects
    BY CommitRespects
<1>4. \A p \in Procs : Rollback(p) \/ WorkerCrashes(p) \/ EarlyTicketGoesOn(p) => Respects
    BY EarlyTicketRespects, NothingElseChanges DEF Rollback, WorkerCrashes, Respects
<1>5. \A p \in Procs, o \in Orders : TaskStart(p, o) => Respects
    BY TaskStartRespects
<1>6. \A p \in Procs : TaskSavesLimits(p) \/ TaskEnds(p) => Respects
    BY TaskRespects, TaskSavesLimitsRespects
<1>7. \A o \in Orders : Review(o) \/ IssueStatusChange(o) => Respects
    BY ReviewRespects, TicketRespects
<1>8. Outside => Respects
    BY OutsideRespects
<1> QED
    BY <1>1, <1>2, <1>3, <1>4, <1>5, <1>6, <1>7, <1>8 DEF Step

\* Before any order is placed there is nothing to approve.
LEMMA ApprovalInit == Init => ApprovalInv
    BY DEF Init, ApprovalInv, WorkNeedsApproval, Idle, StaleOps, Carriers

\* Every step of the code, or a stutter, keeps ApprovalInv.
LEMMA ApprovalStep == TypeOK /\ TypeOK' /\ ApprovalInv /\ [Next]_vars => ApprovalInv'
<1> SUFFICES ASSUME TypeOK, TypeOK', ApprovalInv, [Next]_vars
             PROVE  ApprovalInv'
    OBVIOUS
<1>1. ASSUME Step, UNCHANGED <<released, stuck>>, AfterSave
      PROVE  ApprovalInv'
    <2>1. CopiesRespect
        BY <1>1 DEF CopiesRespect
    <2> QED
        BY <1>1, <2>1, StepRespects, RespectKeepsApproval
<1>2. CASE \E p \in Procs, o \in Orders : EarlyTicket(p, o)
    <2>1. PICK p \in Procs, o \in Orders : EarlyTicket(p, o)
        BY <1>2
    <2>2. UNCHANGED <<order, queue, granted, started, released>>
        BY <2>1 DEF EarlyTicket
    <2>3. ASSUME NEW q \in Procs
          PROVE  \/ proc'[q] = proc[q]
                 \/ /\ proc'[q].op \notin StaleOps \cup Carriers
                    /\ proc'[q].o \in Orders /\ proc'[q].row = order[proc'[q].o]
        BY <2>1 DEF EarlyTicket, StaleOps, Carriers, TypeOK
    <2> QED
        BY <2>2, <2>3 DEF ApprovalInv, WorkNeedsApproval
<1>3. CASE UNCHANGED vars
    BY <1>3 DEF vars, ApprovalInv, WorkNeedsApproval
<1>4. ASSUME Aside, AfterSave
      PROVE  ApprovalInv'
    BY <1>4, AsideRespects, RespectKeepsApproval
<1>5. ASSUME NEW o \in Orders, LookAtProject(o)
      PROVE  ApprovalInv'
    BY <1>5 DEF LookAtProject, ApprovalInv, WorkNeedsApproval
<1> QED
    BY <1>1, <1>2, <1>3, <1>4, <1>5 DEF Next

\* The strengthened invariant: every row, snapshot, message and worker is only
\* as far along as the reviews of its order allow.
THEOREM ApprovalCorrect == Spec => []ApprovalInv
<1>1. TypeOK /\ ApprovalInv /\ [Next]_vars => (TypeOK /\ ApprovalInv)'
    BY TypeStep, ApprovalStep
<1>2. Init => TypeOK /\ ApprovalInv
    BY TypeInit, ApprovalInit
<1> QED
    BY <1>1, <1>2, PTL DEF Spec

\* No route to EXECUTING skips a review.
THEOREM WorkIsApproved == Spec => []WorkNeedsApproval
<1>1. ApprovalInv => WorkNeedsApproval
    BY DEF ApprovalInv
<1> QED
    BY <1>1, ApprovalCorrect, PTL

--------------------------------------------------------------------------------
(* Refinement of ApprovalGate.                                                *)

\* A step records at most one review.
LEMMA OneReviewAtATime ==
    ASSUME TypeOK, Step
    PROVE  UNCHANGED granted \/ \E o \in Orders, who \in Gate!Reviewers : Grant(o, who)
<1>1. {"consumer", "provider", "agent"} = Gate!Reviewers
    BY DEF Gate!Reviewers
<1>2. ASSUME NEW p \in Procs, proc[p].op # "idle"
      PROVE  proc[p].o \in Orders
    BY <1>2, SnapshotType
<1>3. ASSUME NEW p \in Procs, Place(p)
      PROVE  UNCHANGED granted \/ \E o \in Orders, who \in Gate!Reviewers : Grant(o, who)
    BY <1>1, <1>2, <1>3 DEF Place, BeginPlace, CommitPlace
<1>4. ASSUME NEW p \in Procs, Commit(p)
      PROVE  UNCHANGED granted \/ \E o \in Orders, who \in Gate!Reviewers : Grant(o, who)
    BY <1>1, <1>2, <1>4
    DEF Commit, CommitCancel, CommitRejectByConsumer, CommitSetStateExecuting, CommitEdit,
        CommitDestroy, CommitSetStateDone, CommitSetStateErred, CommitConfirm, CommitSweep,
        CommitTimeout
<1>5. ASSUME NEW o \in Orders, Review(o)
      PROVE  UNCHANGED granted \/ \E x \in Orders, who \in Gate!Reviewers : Grant(x, who)
    BY <1>1, <1>5
    DEF Review, ApproveByConsumer, ApplyAutoApproval, ConsumerClears, ApproveByProvider,
        RejectByProvider, Retry, Unlink
<1>6. \A p \in Procs :
          TaskSavesLimits(p) \/ TaskEnds(p) \/ WorkerCrashes(p) \/ EarlyTicketGoesOn(p)
              => UNCHANGED granted
    BY DEF TaskSavesLimits, TaskEnds, WorkerCrashes, TaskLeavesToAgent, TaskOpensTicket,
           TaskDelivers, TaskUpdatesLimits, TaskFails, EarlyTicketGoesOn, EarlyTicketOpened,
           EarlyTicketSaved
<1>7. Outside => UNCHANGED granted
    BY DEF Outside, SetAsOk, SetAsErred, SetResourceBackendId, DateComes, ProjectDateComes,
           SetProjectStartDate
<1> QED
    BY <1>3, <1>4, <1>5, <1>6, <1>7 DEF Step, Begin, Rollback, TaskStart, IssueStatusChange

\* The order lifecycle implements ApprovalGate: all it does to the reviews is to
\* add one, and work begins only with the reviews it needs.
THEOREM LifecycleKeepsGate == Spec => GateIsKept
<1>1. Init => Gate!Init
    BY DEF Init, Gate!Init
<1>2. TypeOK /\ ApprovalInv' /\ [Next]_vars => [Gate!Next]_(Gate!vars)
    <2> SUFFICES ASSUME TypeOK, ApprovalInv', [Next]_vars
                 PROVE  Gate!Next \/ UNCHANGED Gate!vars
        OBVIOUS
    <2>1. CASE (Step \/ Aside) /\ AfterSave
        <3> UNCHANGED granted \/ Step
            BY <2>1 DEF Aside, BeginReset, CommitReset, UnsetProjectStartDate, AbandonRelease,
                        ReleaseOrder
        <3>1. UNCHANGED granted \/ \E o \in Orders, who \in Gate!Reviewers : Gate!Record(o, who)
            BY <2>1, OneReviewAtATime DEF Grant, Gate!Record
        <3>2. Gate!Start
            BY <2>1 DEF AfterSave, Gate!Start, TypeOK, ApprovalInv, WorkNeedsApproval
        <3> QED
            BY <3>1, <3>2 DEF Gate!Next
    <2>2. CASE \E p \in Procs, o \in Orders : EarlyTicket(p, o)
        BY <2>2 DEF EarlyTicket, Gate!vars
    <2>3. CASE UNCHANGED vars
        BY <2>3 DEF vars, Gate!vars
    <2>4. CASE \E o \in Orders : LookAtProject(o)
        BY <2>4 DEF LookAtProject, Gate!vars
    <2> QED
        BY <2>1, <2>2, <2>3, <2>4 DEF Next
<1> QED
    BY <1>1, <1>2, TypeCorrect, ApprovalCorrect, PTL DEF Spec, GateIsKept, Gate!Spec
================================================================================

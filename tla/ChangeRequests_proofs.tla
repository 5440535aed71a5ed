------------------------- MODULE ChangeRequests_proofs -------------------------
(****************************************************************************)
(* Proofs about ChangeRequests, for any number of requests, orders, workers *)
(* and days: type correctness, and that a date is written exactly once, for *)
(* a request that is approved.                                              *)
(****************************************************************************)
EXTENDS ChangeRequests, TLAPS

USE DEF Days, Limits, NoDate, ReviewStates, Idle

--------------------------------------------------------------------------------
(* Type correctness.                                                          *)

OrderStates == {"none", "pending_consumer", "pending_provider", "executing", "erred"}
ResourceStates == {"ok", "erred", "updating", "terminating", "terminated"}

\* What the handlers make of orders and of the resource are rows.
LEMMA Writes ==
    ASSUME TypeOK
    PROVE  /\ \A i \in Orders, st \in OrderStates : SetOrder(i, st) \in [Orders -> OrderRows]
           /\ \A st \in ResourceStates : SetResource(st) \in ResourceRows
           /\ AfterRefusal \in ResourceRows
           /\ \A type, st, row \in ResourceRows : AtPlacement(type, st, row) \in ResourceRows
    BY DEF TypeOK, SetOrder, SetResource, AfterRefusal, AtPlacement, OrderRows, ResourceRows,
           OrderStates, ResourceStates

\* A worker that begins holds a task, one that ends is idle.
LEMMA WorkersType ==
    ASSUME TypeOK, NEW p \in Procs
    PROVE  /\ \A task \in Tasks : Starts(p, task) => proc' \in [Procs -> Tasks \cup {Idle}]
           /\ Ends(p) => proc' \in [Procs -> Tasks \cup {Idle}]
    BY DEF TypeOK, Starts, Ends

\* What a worker's task holds.
LEMMA TaskTypes ==
    ASSUME TypeOK, NEW p \in Procs
    PROVE  /\ proc[p].op \in {"approve", "reject", "cancel"} => proc[p].r \in Requests
           /\ proc[p].op = "set_end_date" =>
                 proc[p].res \in ResourceRows /\ proc[p].end \in Days \cup {NoDate}
           /\ proc[p].op = "process_order" => proc[p].i \in Orders /\ proc[p].res \in ResourceRows
    BY DEF TypeOK, Tasks

LEMMA TypeInit == Init => TypeOK
<1> SUFFICES ASSUME Init PROVE TypeOK
    OBVIOUS
<1>1. 1 \in Days
    BY DaysAssumption
<1>2. res \in ResourceRows
    BY DEF Init, ResourceRows
<1>3. \A r \in Requests : 1 \in Asked(r)
    BY <1>1 DEF Asked
<1>4. request \in [Requests -> [st : ReviewStates, asked : Limits \cup Days]]
    BY <1>1 DEF Init
<1>5. order \in [Orders -> OrderRows]
    BY DEF Init, NoOrder, OrderRows
<1> QED
    BY <1>1, <1>2, <1>3, <1>4, <1>5 DEF Init, TypeOK

\* Orders: reviews, processing and their housekeeping.
LEMMA TypeOrderStep == TypeOK /\ OrderStep => TypeOK'
<1> SUFFICES ASSUME TypeOK, OrderStep PROVE TypeOK'
    OBVIOUS
<1> USE DEF OrderStates, ResourceStates
<1>1. ASSUME NEW i \in Orders, ApproveOrder(i) PROVE TypeOK'
    <2>1. order' \in [Orders -> OrderRows]
        BY <1>1, Writes DEF ApproveOrder, AfterConsumer
    <2> QED
        BY <1>1, <2>1 DEF ApproveOrder, TypeOK
<1>2. ASSUME NEW i \in Orders, RefuseOrder(i) PROVE TypeOK'
    <2>1. order' \in [Orders -> OrderRows] /\ res' \in ResourceRows
        BY <1>2, Writes DEF RefuseOrder
    <2> QED
        BY <1>2, <2>1 DEF RefuseOrder, TypeOK
<1>3. ASSUME NEW i \in Orders, FailureIsOld(i) PROVE TypeOK'
    <2>1. order' \in [Orders -> OrderRows]
        BY <1>3, Writes DEF FailureIsOld
    <2> QED
        BY <1>3, <2>1 DEF FailureIsOld, TypeOK
<1>4. ASSUME NEW p \in Procs, NEW i \in Orders, BeginProcessing(p, i) PROVE TypeOK'
    <2>1. [op |-> "process_order", i |-> i, res |-> res] \in Tasks
        BY DEF TypeOK, Tasks
    <2>2. proc' \in [Procs -> Tasks \cup {Idle}]
        BY <1>4, <2>1, WorkersType DEF BeginProcessing
    <2> QED
        BY <1>4, <2>2 DEF BeginProcessing, TypeOK
<1>5. ASSUME NEW p \in Procs, CompleteOrder(p) PROVE TypeOK'
    <2>1. proc[p].i \in Orders /\ proc[p].res \in ResourceRows
        BY <1>5, TaskTypes DEF CompleteOrder
    <2>2. order[proc[p].i].limits \in Limits
        BY <2>1 DEF TypeOK, OrderRows
    <2>3. res' \in ResourceRows
        <3>1. CASE order[proc[p].i].type = "terminate"
            BY <1>5, <3>1, Writes DEF CompleteOrder
        <3>2. CASE order[proc[p].i].type # "terminate"
            BY <1>5, <3>2, <2>1, <2>2 DEF CompleteOrder, ResourceRows
        <3> QED
            BY <3>1, <3>2
    <2>4. order' \in [Orders -> OrderRows]
        BY <1>5, <2>1, Writes DEF CompleteOrder
    <2>5. proc' \in [Procs -> Tasks \cup {Idle}]
        BY <1>5, WorkersType DEF CompleteOrder
    <2> QED
        BY <1>5, <2>3, <2>4, <2>5 DEF CompleteOrder, TypeOK
<1>6. ASSUME NEW p \in Procs, FailOrder(p) PROVE TypeOK'
    <2>1. proc[p].i \in Orders
        BY <1>6, TaskTypes DEF FailOrder
    <2>2. order' \in [Orders -> OrderRows] /\ res' \in ResourceRows
        BY <1>6, <2>1, Writes DEF FailOrder
    <2>3. proc' \in [Procs -> Tasks \cup {Idle}]
        BY <1>6, WorkersType DEF FailOrder
    <2> QED
        BY <1>6, <2>2, <2>3 DEF FailOrder, TypeOK
<1>7. ASSUME NEW p \in Procs, BeginReset(p) PROVE TypeOK'
    <2>1. [op |-> "reset"] \in Tasks
        BY DEF Tasks
    <2>2. proc' \in [Procs -> Tasks \cup {Idle}]
        BY <1>7, <2>1, WorkersType DEF BeginReset
    <2> QED
        BY <1>7, <2>2 DEF BeginReset, TypeOK
<1>8. ASSUME NEW p \in Procs, CommitReset(p) PROVE TypeOK'
    <2>1. res' \in ResourceRows /\ proc' \in [Procs -> Tasks \cup {Idle}]
        BY <1>8, Writes, WorkersType DEF CommitReset
    <2> QED
        BY <1>8, <2>1 DEF CommitReset, TypeOK
<1> QED
    BY <1>1, <1>2, <1>3, <1>4, <1>5, <1>6, <1>7, <1>8 DEF OrderStep

\* Requests: submission and decisions.
LEMMA TypeRequestStep == TypeOK /\ RequestStep => TypeOK'
<1> SUFFICES ASSUME TypeOK, RequestStep PROVE TypeOK'
    OBVIOUS
<1>a. \A r \in Requests, st \in ReviewStates :
         /\ Decide(r, st) \in [Requests -> [st : ReviewStates, asked : Limits \cup Days]]
         /\ \A x \in Requests : Decide(r, st)[x].asked = request[x].asked
    BY DEF TypeOK, Decide
<1>b. \A r \in Requests : Act(r) => acted' \in [Requests -> 0 .. 2]
    BY DEF TypeOK, Act
<1>1. ASSUME NEW r \in Requests, NEW x \in Asked(r), SubmitRequest(r, x) PROVE TypeOK'
    <2>1. x \in Limits \cup Days
        BY DEF Asked
    <2>2. /\ request' \in [Requests -> [st : ReviewStates, asked : Limits \cup Days]]
          /\ \A y \in Requests : request'[y].asked \in Asked(y)
        BY <1>1, <2>1 DEF SubmitRequest, TypeOK
    <2> QED
        BY <1>1, <2>2 DEF SubmitRequest, TypeOK, Asked
<1>2. CASE OptOut
    BY <1>2 DEF OptOut, TypeOK, Asked
<1>3. ASSUME NEW p \in Procs, NEW r \in LimitRequests, NEW op \in {"approve", "reject", "cancel"},
             BeginDecideLimits(p, op, r)
      PROVE  TypeOK'
    <2>1. [op |-> op, r |-> r] \in Tasks
        BY DEF Tasks, Requests
    <2>2. proc' \in [Procs -> Tasks \cup {Idle}]
        BY <1>3, <2>1, WorkersType DEF BeginDecideLimits
    <2> QED
        BY <1>3, <2>2 DEF BeginDecideLimits, TypeOK, Asked
<1>4. ASSUME NEW p \in Procs, NEW i \in Orders,
             NEW st \in {"pending_consumer", "pending_provider", "executing"},
             CommitApproveLimits(p, i, st)
      PROVE  TypeOK'
    <2> DEFINE r == proc[p].r
    <2>1. r \in LimitRequests /\ r \in Requests
        BY <1>4 DEF CommitApproveLimits, Requests
    <2>2. request[r].asked \in Limits
        BY <2>1 DEF TypeOK, Asked
    <2>3. order' \in [Orders -> OrderRows]
        <3>1. [type |-> "limits", limits |-> request[r].asked, st |-> st] \in OrderRows
            BY <2>2 DEF OrderRows
        <3> QED
            BY <1>4, <3>1 DEF CommitApproveLimits, TypeOK
    <2>4. res' \in ResourceRows
        <3>1. res' = AtPlacement("limits", "ok", res)
            BY <1>4 DEF CommitApproveLimits
        <3> QED
            BY <3>1 DEF AtPlacement, TypeOK, ResourceRows
    <2>5. /\ request' \in [Requests -> [st : ReviewStates, asked : Limits \cup Days]]
          /\ \A x \in Requests : request'[x].asked \in Asked(x)
        BY <1>4, <1>a, <2>1 DEF CommitApproveLimits, TypeOK
    <2>6. acted' \in [Requests -> 0 .. 2] /\ proc' \in [Procs -> Tasks \cup {Idle}]
        BY <1>4, <1>b, <2>1, WorkersType DEF CommitApproveLimits
    <2> QED
        BY <1>4, <2>3, <2>4, <2>5, <2>6 DEF CommitApproveLimits, TypeOK, Asked
<1>5. ASSUME NEW p \in Procs, CommitRefuseLimits(p) PROVE TypeOK'
    <2>1. proc[p].r \in Requests
        BY <1>5, TaskTypes DEF CommitRefuseLimits
    <2>2. /\ request' \in [Requests -> [st : ReviewStates, asked : Limits \cup Days]]
          /\ \A x \in Requests : request'[x].asked \in Asked(x)
        BY <1>5, <1>a, <2>1 DEF CommitRefuseLimits, TypeOK
    <2>3. proc' \in [Procs -> Tasks \cup {Idle}]
        BY <1>5, WorkersType DEF CommitRefuseLimits
    <2> QED
        BY <1>5, <2>2, <2>3 DEF CommitRefuseLimits, TypeOK, Asked
<1>6. ASSUME NEW p \in Procs, CommitApproveDate(p) PROVE TypeOK'
    <2> DEFINE r == proc[p].r
    <2>1. r \in DateRequests /\ r \in Requests /\ r \notin LimitRequests
        BY <1>6, RequestsAssumption DEF CommitApproveDate, Requests
    <2>2. request[r].asked \in Days
        BY <2>1 DEF TypeOK, Asked
    <2>3. res' \in ResourceRows
        BY <1>6, <2>2 DEF CommitApproveDate, TypeOK, ResourceRows
    <2>4. /\ request' \in [Requests -> [st : ReviewStates, asked : Limits \cup Days]]
          /\ \A x \in Requests : request'[x].asked \in Asked(x)
        BY <1>6, <1>a, <2>1 DEF CommitApproveDate, TypeOK
    <2>5. acted' \in [Requests -> 0 .. 2] /\ proc' \in [Procs -> Tasks \cup {Idle}]
        BY <1>6, <1>b, <2>1, WorkersType DEF CommitApproveDate
    <2> QED
        BY <1>6, <2>3, <2>4, <2>5 DEF CommitApproveDate, TypeOK, Asked
<1>7. ASSUME NEW p \in Procs, Abandon(p) PROVE TypeOK'
    <2>1. proc' \in [Procs -> Tasks \cup {Idle}]
        BY <1>7, WorkersType DEF Abandon
    <2> QED
        BY <1>7, <2>1 DEF Abandon, TypeOK, Asked
<1>8. ASSUME NEW p \in Procs, NEW r \in DateRequests, BeginApproveDate(p, r) PROVE TypeOK'
    <2>1. [op |-> "approve", r |-> r] \in Tasks
        BY DEF Tasks, Requests
    <2>2. proc' \in [Procs -> Tasks \cup {Idle}]
        BY <1>8, <2>1, WorkersType DEF BeginApproveDate
    <2> QED
        BY <1>8, <2>2 DEF BeginApproveDate, TypeOK, Asked
<1>9. ASSUME NEW r \in DateRequests, NEW st \in {"rejected", "canceled"}, RefuseDate(r, st)
      PROVE  TypeOK'
    <2>1. r \in Requests
        BY DEF Requests
    <2>2. /\ request' \in [Requests -> [st : ReviewStates, asked : Limits \cup Days]]
          /\ \A x \in Requests : request'[x].asked \in Asked(x)
        BY <1>9, <1>a, <2>1 DEF RefuseDate, TypeOK
    <2> QED
        BY <1>9, <2>2 DEF RefuseDate, TypeOK, Asked
<1> QED
    BY <1>1, <1>2, <1>3, <1>4, <1>5, <1>6, <1>7, <1>8, <1>9 DEF RequestStep

\* Direct edits, terminations, the sweep and the calendar.
LEMMA TypeResourceStep == TypeOK /\ ResourceStep => TypeOK'
<1> SUFFICES ASSUME TypeOK, ResourceStep PROVE TypeOK'
    OBVIOUS
<1> USE DEF OrderStates, ResourceStates
<1>1. ASSUME NEW p \in Procs, NEW d \in Days \cup {NoDate}, BeginSetEndDate(p, d) PROVE TypeOK'
    <2>1. [op |-> "set_end_date", res |-> res, end |-> d] \in Tasks
        BY DEF Tasks, TypeOK
    <2>2. proc' \in [Procs -> Tasks \cup {Idle}]
        BY <1>1, <2>1, WorkersType DEF BeginSetEndDate
    <2> QED
        BY <1>1, <2>2 DEF BeginSetEndDate, TypeOK, Asked
<1>2. ASSUME NEW p \in Procs, CommitSetEndDate(p) PROVE TypeOK'
    <2>1. res' \in ResourceRows
        BY <1>2, TaskTypes DEF CommitSetEndDate, ResourceRows
    <2>2. proc' \in [Procs -> Tasks \cup {Idle}]
        BY <1>2, WorkersType DEF CommitSetEndDate
    <2> QED
        BY <1>2, <2>1, <2>2 DEF CommitSetEndDate, TypeOK, Asked
<1>3. ASSUME NEW p \in Procs, BeginTerminate(p) PROVE TypeOK'
    <2>1. [op |-> "terminate", st |-> res.st] \in Tasks
        BY <1>3 DEF Tasks, BeginTerminate
    <2>2. proc' \in [Procs -> Tasks \cup {Idle}]
        BY <1>3, <2>1, WorkersType DEF BeginTerminate
    <2> QED
        BY <1>3, <2>2 DEF BeginTerminate, TypeOK, Asked
<1>4. ASSUME NEW p \in Procs, NEW i \in Orders, NEW st \in Open, CommitTerminate(p, i, st)
      PROVE  TypeOK'
    <2>1. [type |-> "terminate", limits |-> 1, st |-> st] \in OrderRows
        BY DEF OrderRows, Open
    <2>2. order' \in [Orders -> OrderRows]
        BY <1>4, <2>1 DEF CommitTerminate, TypeOK
    <2>3. res' \in ResourceRows
        <3>1. res' = AtPlacement("terminate", proc[p].st, res)
            BY <1>4 DEF CommitTerminate
        <3> QED
            BY <3>1 DEF AtPlacement, TypeOK, ResourceRows
    <2>4. proc' \in [Procs -> Tasks \cup {Idle}]
        BY <1>4, WorkersType DEF CommitTerminate
    <2> QED
        BY <1>4, <2>2, <2>3, <2>4 DEF CommitTerminate, TypeOK, Asked
<1>5. ASSUME NEW p \in Procs, BeginSweep(p) PROVE TypeOK'
    <2>1. [op |-> "sweep"] \in Tasks
        BY DEF Tasks
    <2>2. proc' \in [Procs -> Tasks \cup {Idle}]
        BY <1>5, <2>1, WorkersType DEF BeginSweep
    <2> QED
        BY <1>5, <2>2 DEF BeginSweep, TypeOK, Asked
<1>6. ASSUME NEW p \in Procs, SweepApproves(p) PROVE TypeOK'
    <2>1. order' \in [Orders -> OrderRows]
        BY <1>6, Writes DEF SweepApproves, AfterConsumer, PendingTermination
    <2>2. proc' \in [Procs -> Tasks \cup {Idle}]
        BY <1>6, WorkersType DEF SweepApproves
    <2> QED
        BY <1>6, <2>1, <2>2 DEF SweepApproves, TypeOK, Asked
<1>7. ASSUME NEW p \in Procs, NEW i \in Orders, NEW st \in AfterConsumer, SweepPlaces(p, i, st)
      PROVE  TypeOK'
    <2> DEFINE waiting == {k \in Orders : order[k].st = "pending_consumer"}
               cleared == [k \in Orders |->
                             IF k \in waiting THEN [order[k] EXCEPT !.st = "none"] ELSE order[k]]
               settled == IF waiting = {} THEN res ELSE AfterRefusal
               placed == [type |-> "terminate", limits |-> 1, st |-> st]
    <2>1. cleared \in [Orders -> OrderRows] /\ placed \in OrderRows
        BY DEF TypeOK, OrderRows, AfterConsumer
    <2>2. settled \in ResourceRows
        BY Writes DEF TypeOK
    <2>3. AtPlacement("terminate", settled.st, settled) \in ResourceRows
        BY <2>2 DEF AtPlacement, ResourceRows
    <2>4. /\ order' \in {cleared, [cleared EXCEPT ![i] = placed]}
          /\ res' \in {settled, AtPlacement("terminate", settled.st, settled)}
        BY <1>7 DEF SweepPlaces
    <2>5. order' \in [Orders -> OrderRows] /\ res' \in ResourceRows
        <3> HIDE DEF cleared, placed, settled
        <3> QED
            BY <2>1, <2>2, <2>3, <2>4
    <2>6. proc' \in [Procs -> Tasks \cup {Idle}]
        BY <1>7, WorkersType DEF SweepPlaces
    <2>7. UNCHANGED <<today, accepts, request, acted>>
        BY <1>7 DEF SweepPlaces
    <2> QED
        BY <2>5, <2>6, <2>7 DEF TypeOK, Asked
<1>8. CASE NextDay
    <2>1. today' \in Days
        BY <1>8, DaysAssumption DEF NextDay, TypeOK
    <2> QED
        BY <1>8, <2>1 DEF NextDay, TypeOK, Asked
<1> QED
    BY <1>1, <1>2, <1>3, <1>4, <1>5, <1>6, <1>7, <1>8 DEF ResourceStep, SweepEnds

\* Rows, copies and tasks keep their types, for any number of requests, orders,
\* workers and days.
THEOREM TypeCorrect == Spec => []TypeOK
<1>1. TypeOK /\ [Next]_vars => TypeOK'
    <2>1. TypeOK /\ UNCHANGED vars => TypeOK'
        BY DEF TypeOK, vars, Asked
    <2> QED
        BY <2>1, TypeOrderStep, TypeRequestStep, TypeResourceStep DEF Next
<1> QED
    BY <1>1, TypeInit, PTL DEF Spec

--------------------------------------------------------------------------------
(* Decisions on dates.                                                        *)

\* The worker that approves a request for a date holds its lock: the request is
\* pending for as long as it takes, and no other worker approves it.  Refusals
\* that are under way are of requests for limits.
DateLocks ==
    /\ \A p \in Procs, r \in DateRequests :
          proc[p].op = "approve" /\ proc[p].r = r =>
              /\ request[r].st = "pending"
              /\ \A q \in Procs : proc[q].op = "approve" /\ proc[q].r = r => q = p
    /\ \A p \in Procs : proc[p].op \in {"reject", "cancel"} => proc[p].r \in LimitRequests

DateInv == DateDecisionsAreKept /\ DateLocks

LEMMA DateInit == Init => DateInv
    BY DEF Init, DateInv, DateDecisionsAreKept, DateLocks, Kept, Requests

\* A step that touches no request of a date, and starts no decision on one, keeps
\* the invariant.
LEMMA ElsewhereKeepsDates ==
    ASSUME TypeOK, DateInv,
           \A r \in DateRequests : request'[r] = request[r] /\ acted'[r] = acted[r],
           \A p \in Procs :
              \/ proc'[p] = proc[p]
              \/ proc'[p].op \notin {"approve", "reject", "cancel"}
              \/ proc'[p].r \in LimitRequests
    PROVE  DateInv'
    BY RequestsAssumption DEF DateInv, DateDecisionsAreKept, DateLocks, Kept

\* Every step keeps the invariant.
LEMMA DateNext == TypeOK /\ DateInv /\ [Next]_vars => DateInv'
<1> SUFFICES ASSUME TypeOK, DateInv, [Next]_vars PROVE DateInv'
    OBVIOUS
<1>a. \A p, q \in Procs : Ends(p) => proc'[q] = IF q = p THEN Idle ELSE proc[q]
    BY DEF Ends, TypeOK
<1>b. \A task : \A p, q \in Procs : Starts(p, task) => proc'[q] = IF q = p THEN task ELSE proc[q]
    BY DEF Starts, TypeOK
<1>c. \A r \in LimitRequests : r \notin DateRequests
    BY RequestsAssumption
<1>1. CASE OrderStep
    <2>1. UNCHANGED <<request, acted>>
        BY <1>1 DEF OrderStep, ApproveOrder, RefuseOrder, FailureIsOld, BeginProcessing,
                    CompleteOrder, FailOrder, BeginReset, CommitReset
    <2>2. ASSUME NEW p \in Procs
          PROVE  proc'[p] = proc[p] \/ proc'[p].op \notin {"approve", "reject", "cancel"}
        <3>1. ASSUME NEW q \in Procs, NEW i \in Orders, BeginProcessing(q, i)
              PROVE  proc'[p] = proc[p] \/ proc'[p].op = "process_order"
            BY <3>1, <1>b DEF BeginProcessing
        <3>2. ASSUME NEW q \in Procs, CompleteOrder(q) \/ FailOrder(q) \/ CommitReset(q)
              PROVE  proc'[p] = proc[p] \/ proc'[p].op = "idle"
            BY <3>2, <1>a DEF CompleteOrder, FailOrder, CommitReset
        <3>3. ASSUME NEW q \in Procs, BeginReset(q)
              PROVE  proc'[p] = proc[p] \/ proc'[p].op = "reset"
            BY <3>3, <1>b DEF BeginReset
        <3> QED
            BY <1>1, <3>1, <3>2, <3>3 DEF OrderStep, ApproveOrder, RefuseOrder, FailureIsOld
    <2> QED
        BY <2>1, <2>2, ElsewhereKeepsDates
<1>2. CASE ResourceStep
    <2>1. UNCHANGED <<request, acted>>
        BY <1>2 DEF ResourceStep, BeginSetEndDate, CommitSetEndDate, BeginTerminate, BeginSweep,
                    SweepEnds, SweepApproves, SweepPlaces, CommitTerminate, NextDay
    <2>2. ASSUME NEW p \in Procs
          PROVE  proc'[p] = proc[p] \/ proc'[p].op \notin {"approve", "reject", "cancel"}
        <3>1. ASSUME NEW q \in Procs, NEW task, Starts(q, task),
                     task.op \in {"set_end_date", "terminate", "sweep"}
              PROVE  proc'[p] = proc[p] \/ proc'[p].op \in {"set_end_date", "terminate", "sweep"}
            BY <3>1, <1>b
        <3>2. ASSUME NEW q \in Procs,
                     \/ \E d \in Days \cup {NoDate} : BeginSetEndDate(q, d)
                     \/ BeginTerminate(q) \/ BeginSweep(q)
              PROVE  \E task : Starts(q, task) /\ task.op \in {"set_end_date", "terminate", "sweep"}
            <4>1. ASSUME NEW d \in Days \cup {NoDate}, BeginSetEndDate(q, d)
                  PROVE  \E task : Starts(q, task) /\ task.op \in {"set_end_date", "terminate", "sweep"}
                <5>1. Starts(q, [op |-> "set_end_date", res |-> res, end |-> d])
                    BY <4>1 DEF BeginSetEndDate
                <5> QED
                    BY <5>1
            <4>2. ASSUME BeginTerminate(q)
                  PROVE  \E task : Starts(q, task) /\ task.op \in {"set_end_date", "terminate", "sweep"}
                <5>1. Starts(q, [op |-> "terminate", st |-> res.st])
                    BY <4>2 DEF BeginTerminate
                <5> QED
                    BY <5>1
            <4>3. ASSUME BeginSweep(q)
                  PROVE  \E task : Starts(q, task) /\ task.op \in {"set_end_date", "terminate", "sweep"}
                <5>1. Starts(q, [op |-> "sweep"])
                    BY <4>3 DEF BeginSweep
                <5> QED
                    BY <5>1
            <4> QED
                BY <3>2, <4>1, <4>2, <4>3
        <3>3. ASSUME NEW q \in Procs,
                     \/ CommitSetEndDate(q) \/ SweepEnds(q)
                     \/ \E i \in Orders, st \in Open : CommitTerminate(q, i, st)
              PROVE  proc'[p] = proc[p] \/ proc'[p].op = "idle"
            BY <3>3, <1>a DEF CommitSetEndDate, SweepEnds, SweepApproves, SweepPlaces, CommitTerminate
        <3> QED
            BY <1>2, <3>1, <3>2, <3>3 DEF ResourceStep, NextDay
    <2> QED
        BY <2>1, <2>2, ElsewhereKeepsDates
<1>3. ASSUME NEW r \in Requests, NEW x \in Asked(r), SubmitRequest(r, x) PROVE DateInv'
    \* A request that is only now submitted has no worker and no history.
    <2>1. \A y \in Requests : request'[y] = IF y = r THEN [st |-> "pending", asked |-> x] ELSE request[y]
        BY <1>3 DEF SubmitRequest, TypeOK
    <2>2. request[r].st = "none" /\ UNCHANGED <<proc, acted>>
        BY <1>3 DEF SubmitRequest
    <2> QED
        BY <2>1, <2>2 DEF DateInv, DateDecisionsAreKept, DateLocks, Kept, Requests
<1>4. CASE OptOut
    BY <1>4 DEF OptOut, DateInv, DateDecisionsAreKept, DateLocks, Kept
<1>5. ASSUME NEW p \in Procs, NEW r \in LimitRequests, NEW op \in {"approve", "reject", "cancel"},
             BeginDecideLimits(p, op, r)
      PROVE  DateInv'
    <2>1. UNCHANGED <<request, acted>>
        BY <1>5 DEF BeginDecideLimits
    <2>2. \A q \in Procs : proc'[q] = proc[q] \/ proc'[q].r \in LimitRequests
        BY <1>5, <1>b DEF BeginDecideLimits
    <2> QED
        BY <2>1, <2>2, ElsewhereKeepsDates
<1>6. ASSUME NEW p \in Procs, NEW i \in Orders,
             NEW st \in {"pending_consumer", "pending_provider", "executing"},
             CommitApproveLimits(p, i, st)
      PROVE  DateInv'
    <2>1. proc[p].r \in LimitRequests
        BY <1>6 DEF CommitApproveLimits
    <2>2. \A r \in DateRequests : request'[r] = request[r] /\ acted'[r] = acted[r]
        BY <1>6, <1>c, <2>1 DEF CommitApproveLimits, Decide, Act, TypeOK, Requests
    <2>3. \A q \in Procs : proc'[q] = proc[q] \/ proc'[q].op = "idle"
        BY <1>6, <1>a DEF CommitApproveLimits
    <2> QED
        BY <2>2, <2>3, ElsewhereKeepsDates
<1>7. ASSUME NEW p \in Procs, CommitRefuseLimits(p) PROVE DateInv'
    <2>1. proc[p].r \in LimitRequests
        BY <1>7 DEF CommitRefuseLimits, DateInv, DateLocks
    <2>2. \A r \in DateRequests : request'[r] = request[r] /\ acted'[r] = acted[r]
        BY <1>7, <1>c, <2>1 DEF CommitRefuseLimits, Decide, TypeOK, Requests
    <2>3. \A q \in Procs : proc'[q] = proc[q] \/ proc'[q].op = "idle"
        BY <1>7, <1>a DEF CommitRefuseLimits
    <2> QED
        BY <2>2, <2>3, ElsewhereKeepsDates
<1>8. ASSUME NEW p \in Procs, NEW r \in DateRequests, BeginApproveDate(p, r) PROVE DateInv'
    \* The lock is taken while nobody holds it and the request is pending.
    <2>1. request[r].st = "pending" /\ UNCHANGED <<request, acted>>
        BY <1>8 DEF BeginApproveDate, PendingUnderLock
    <2>2. \A q \in Procs : ~(proc[q].op = "approve" /\ proc[q].r = r)
        BY <1>8 DEF BeginApproveDate, PendingUnderLock, Locked
    <2>3. \A q \in Procs : proc'[q] = IF q = p THEN [op |-> "approve", r |-> r] ELSE proc[q]
        BY <1>8, <1>b DEF BeginApproveDate
    <2>4. DateDecisionsAreKept'
        BY <2>1 DEF DateInv, DateDecisionsAreKept, Kept
    <2> QED
        BY <2>1, <2>2, <2>3, <2>4 DEF DateInv, DateLocks
<1>9. ASSUME NEW p \in Procs, CommitApproveDate(p) PROVE DateInv'
    \* The request was pending until now, so the system has not acted on it yet.
    <2> DEFINE r == proc[p].r
    <2>1. r \in DateRequests /\ r \in Requests /\ proc[p].op = "approve"
        BY <1>9 DEF CommitApproveDate, Requests
    <2>2. /\ request[r].st = "pending"
          /\ \A q \in Procs : proc[q].op = "approve" /\ proc[q].r = r => q = p
        BY <2>1 DEF DateInv, DateLocks
    <2>3. acted[r] = 0
        BY <2>1, <2>2 DEF DateInv, DateDecisionsAreKept, Kept
    <2>4. \A x \in Requests :
             /\ request'[x].st = IF x = r THEN "approved" ELSE request[x].st
             /\ acted'[x] = IF x = r THEN 1 ELSE acted[x]
        BY <1>9, <2>1, <2>3 DEF CommitApproveDate, Decide, Act, TypeOK
    <2>5. \A q \in Procs : proc'[q] = IF q = p THEN Idle ELSE proc[q]
        BY <1>9, <1>a DEF CommitApproveDate
    <2>6. DateDecisionsAreKept'
        BY <2>4 DEF DateInv, DateDecisionsAreKept, Kept, Requests
    <2>7. DateLocks'
        BY <2>1, <2>2, <2>4, <2>5 DEF DateInv, DateLocks, Requests
    <2> QED
        BY <2>6, <2>7 DEF DateInv
<1>10. ASSUME NEW p \in Procs, Abandon(p) PROVE DateInv'
    <2>1. UNCHANGED <<request, acted>>
        BY <1>10 DEF Abandon
    <2>2. \A q \in Procs : proc'[q] = proc[q] \/ proc'[q].op = "idle"
        BY <1>10, <1>a DEF Abandon
    <2> QED
        BY <2>1, <2>2, ElsewhereKeepsDates
<1>11. ASSUME NEW r \in DateRequests, NEW st \in {"rejected", "canceled"}, RefuseDate(r, st)
       PROVE  DateInv'
    \* No worker holds the lock, so none approves it any more.
    <2>1. ~Locked(r) /\ request[r].st = "pending" /\ UNCHANGED <<proc, acted>>
        BY <1>11 DEF RefuseDate, PendingUnderLock
    <2>2. \A x \in Requests : request'[x].st = IF x = r THEN st ELSE request[x].st
        BY <1>11 DEF RefuseDate, Decide, TypeOK, Requests
    <2>3. DateDecisionsAreKept'
        BY <2>1, <2>2 DEF DateInv, DateDecisionsAreKept, Kept, Requests
    <2>4. DateLocks'
        BY <2>1, <2>2 DEF DateInv, DateLocks, Locked, Requests
    <2> QED
        BY <2>3, <2>4 DEF DateInv
<1>12. CASE UNCHANGED vars
    BY <1>12 DEF vars, DateInv, DateDecisionsAreKept, DateLocks, Kept
<1> QED
    BY <1>1, <1>2, <1>3, <1>4, <1>5, <1>6, <1>7, <1>8, <1>9, <1>10, <1>11, <1>12
    DEF Next, RequestStep

\* However approvals, rejections, cancellations and failures interleave, the
\* system writes a date once for each approved request and for no other
\* (_lock_pending_request).
THEOREM DateDecisions == Spec => []DateDecisionsAreKept
<1>1. DateInv => DateDecisionsAreKept
    BY DEF DateInv
<1> QED
    BY <1>1, DateInit, DateNext, TypeCorrect, PTL DEF Spec

================================================================================

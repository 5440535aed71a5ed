SPECIFICATION Spec
CONSTANTS
    w1 = w1
    w2 = w2
    OfferingType = "agent"
    ScriptReview = FALSE
    MaxOrders = 1
    MaxTasks = 1
    Procs <- OneWorker
    Types <- OrderTypes
    Endpoints <- AllEndpoints
INVARIANTS TypeOK ApprovalInv WorkNeedsApproval
PROPERTIES GateIsKept
\* Orders are bounded, so the system may come to rest.
CHECK_DEADLOCK FALSE

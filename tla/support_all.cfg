SPECIFICATION Spec
CONSTANTS
    w1 = w1
    w2 = w2
    OfferingType = "support"
    ScriptReview = FALSE
    MaxOrders = 1
    MaxTasks = 1
    Procs <- OneWorker
    Types <- OrderTypes
    Endpoints <- Helpdesk
INVARIANTS WorkNeedsApproval
\* Orders are bounded, so the system may come to rest.
CHECK_DEADLOCK FALSE

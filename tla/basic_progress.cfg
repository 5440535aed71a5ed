SPECIFICATION FairSpec
CONSTANTS
    w1 = w1
    w2 = w2
    OfferingType = "basic"
    ScriptReview = FALSE
    MaxOrders = 2
    MaxTasks = 2
    Procs <- OneWorker
    Types <- OwnTypes
    Endpoints <- Routine
PROPERTIES ExecutingEnds DeferredOrderStarts UpdatingEnds
\* Orders are bounded, so the system may come to rest.
CHECK_DEADLOCK FALSE

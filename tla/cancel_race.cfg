SPECIFICATION Spec
CONSTANTS
    w1 = w1
    w2 = w2
    OfferingType = "basic"
    ScriptReview = FALSE
    MaxOrders = 1
    MaxTasks = 1
    Procs <- TwoWorkers
    Types <- TerminateOnly
    Endpoints <- Cancels
PROPERTIES CanceledIsNotCarriedOut
\* Orders are bounded, so the system may come to rest.
CHECK_DEADLOCK FALSE

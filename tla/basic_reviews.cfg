SPECIFICATION Spec
CONSTANTS
    w1 = w1
    w2 = w2
    OfferingType = "basic"
    ScriptReview = FALSE
    MaxOrders = 2
    MaxTasks = 2
    Procs <- TwoWorkers
    Types <- WithoutRestore
    Endpoints <- LockedReviews
SYMMETRY Workers
INVARIANTS RefusedCreateIsDown OneDelivery
PROPERTIES RejectionIsFinal StartDateHonoured CompletionSettlesResource
\* Orders are bounded, so the system may come to rest.
CHECK_DEADLOCK FALSE

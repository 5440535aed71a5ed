SPECIFICATION Spec
CONSTANTS
    w1 = w1
    w2 = w2
    l1 = l1
    d1 = d1
    o1 = o1
    LimitRequests <- OneLimitRequest
    DateRequests <- OneDateRequest
    Orders <- OneOrder
    Procs <- TwoWorkers
    LastDay = 1
    Occurs = {"opt_out", "set_end_date", "terminate"}
SYMMETRY Workers
INVARIANTS TypeOK DateDecisionsAreKept
\* The days are bounded, so the system may come to rest.
CHECK_DEADLOCK FALSE

SPECIFICATION FairSpec
CONSTANTS
    w1 = w1
    w2 = w2
    l1 = l1
    d1 = d1
    o1 = o1
    LimitRequests <- OneLimitRequest
    DateRequests <- OneDateRequest
    Orders <- OneOrder
    Procs <- OneWorker
    LastDay = 2
    Occurs = {"opt_out", "terminate"}
PROPERTIES ExpiredEnds
\* The days are bounded, so the system may come to rest.
CHECK_DEADLOCK FALSE

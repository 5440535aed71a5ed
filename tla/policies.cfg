SPECIFICATION FairSpec
CONSTANTS
    p1 = p1
    p2 = p2
    w1 = w1
    w2 = w2
    Workers <- TwoWorkers
    Sweeper = w2
    Policies <- TwoPolicies
    Limit <- Limits
    MaxCost = 2
    MaxEvents = 2
    MaxFaults = 1
INVARIANTS TypeOK ChangesAreJudged NotifiesOncePerFire
PROPERTIES TriggeredIsPaused
